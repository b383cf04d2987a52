# Verification of the coding agent and its remote control

This directory holds TLA+ models of the part of the repository that lets a
phone drive a coding agent on another machine, and of the agent's own core (how
prompts become turns, and how a turn executes tools), the TLC runs that check
them, and TLAPS proofs of what they promise for instances of any size.

## The system

Three programs talk to each other; the agent also runs alone, in a terminal.

| part | code | state | operations |
|---|---|---|---|
| Relay server | `relay/src/*.ts` | Maps `connections`, `sessions`, `clientIdToConnId`, `pairCodes`; the sockets | six HTTP endpoints, WebSocket connection / message / close, a 30 s heartbeat check, SIGINT |
| CLI library | `restored-src/src/relay/*.ts`, `cli/handlers/remoteRelay.ts` | the socket and its timers, pending permission requests | start-up, reconnecting, heartbeats, permission questions |
| `relay-cli` agent | `restored-src/src/entrypoints/relay-cli.ts` | one message history, the current abort controller, pending permission requests, the socket | an agent loop for each message of the phone, tools, interrupts |
| iPhone app | `iphone-app/PersonalAgentRemote` | messages, one `pendingPermission`, `isWaitingForResponse`, the socket | pairing, sending, interrupting, answering permission questions |
| Prompt submission | `utils/handlePromptSubmit.ts`, `QueryGuard.ts`, `messageQueueManager.ts`, `queueProcessor.ts`, `hooks/useQueueProcessor.ts`, `screens/REPL.tsx` | the guard, the command queue, the screen's abort controller | submitting, reporting, incoming prompts, turns, mid-turn drains, cancelling |
| Tool execution | `services/tools/StreamingToolExecutor.ts` as `query.ts` drives it | the tracked tools, `hasErrored`, the abort signals | adding tools while a response streams in, executing, handing out results |
| Shared types | `shared-types/src` | none | message and role types |

**How they interact.** The CLI registers over HTTP, shows a six-digit pair code,
opens a WebSocket and asks for a session. The phone exchanges the code for a
token and opens its own WebSocket. What the phone says about a session goes to
the connection the session names; what the CLI outputs goes to the phone
connection bound to the session, or is broadcast to all phones while none is
bound. A permission question travels from a tool through the bridge, the
connector, the relay and the phone, and back.

In the terminal program, what the user types, what background tasks report, what
a schedule makes due and what teammates send all want the next turn. The guard
admits one; the others wait in the command queue, from which a React effect takes
the next batch, and from which a running turn may take what fits between two
calls of the model. Each response of the model hands its tools to an executor.

**What is hard.** Each of the three is single-threaded, so the trouble is the
order of events. A client reconnects before the relay has noticed that its old
connection is gone; the old close event then arrives after the new registration.
The heartbeat check evicts a connection whose close event comes later. A socket
is already closing while a handler writes to it. A timeout races a late answer.
The relay loses all Maps in a restart while tokens remain good. Two CLIs draw the
same pair code. `disconnect()` meets a pending reconnect. A second message starts
an agent loop beside one that still waits for the phone. Walks through the tool
queue overlap because each awaits after each start, and a scan for results is
suspended in a `yield` while tools end. A cancelled turn runs its `finally` block
in the middle of its successor. PROJECT.json lists these hazards, each at the line
where it bites.

**What makes each part correct.**
- Session store: the four Maps agree with each other after any sequence of calls.
- Router: what a phone says reaches the session's own CLI or nobody; what the CLI says
  reaches the phone bound to the session, any phone while none is bound, and never
  another CLI.
- Pairing: only the code last shown admits a phone, and only one.
- Relay as a whole: a session has one life; a dead CLI is noticed; a shutdown ends.
- Permission bridge: one decision for each question, "allow" only with consent,
  and no question waits for ever.
- Connector: one socket, a heartbeat exactly while it is open, never giving up
  before `disconnect()` and quiet after it.
- Start-up command: it gets as far as running.
- Phone and `relay-cli`: no dangerous tool without consent to that very tool; each
  message is brought to a result; the phone stops waiting; each call leaves a
  history the model's API accepts.
- Prompt submission: an active guard has somebody who will release it; one query, and
  one turn, at a time; Escape reaches it; no command is lost, or said twice; the queue
  is served.
- Tool execution: exclusive tools alone; starts and answers in order; cancelled only
  for a cause; every tool answered.

## Modules

| module | models |
|---|---|
| `RelayTypes` | the clients and their roles |
| `SessionStore` | `sessionStore.ts`: one operator per method, on the Maps of `RelayState` |
| `MessageRouter` | `messageRouter.ts`: `HandleMessage` with its branches and dropped messages; `sent` is what the step handed to sockets |
| `RelayAuth` | `auth.ts`: tokens and pair codes |
| `RelayServer` | `server.ts`: composes the three; one action per endpoint, event, timer and signal |
| `SessionLifecycle` | abstract: a session is unborn, served, orphaned, forgotten, in this order |
| `MCRelayServer` | symmetry for TLC |
| `PermissionBridge` | `relayPermissionBridge.ts` and `relayCanUseTool.ts` |
| `PermissionDecision` | abstract: one decision per question, "allow" only by consent |
| `RelayConnector` | `relayConnector.ts` |
| `RemoteRelayHandler` | `remoteRelay.ts` and `relayAuth.ts` against `RelayServer` |
| `RelayAgent` | `relay-cli.ts`: the calls of `processMessage`, `SimplePermissionBridge`, interrupts |
| `RemoteControl` | `ChatViewModel.swift` and its socket, composed with `RelayAgent` over lossy connections |
| `QueryGuard` | `QueryGuard.ts`: operators on the guard's value |
| `CommandQueue` | `messageQueueManager.ts` and `queueProcessor.ts`: operators on the queue's value |
| `PromptSubmit` | composes the two: `handlePromptSubmit.ts`, `useQueueProcessor.ts`, `REPL.tsx` with the three callers of its `onQuery`, `ExitPlanModePermissionRequest.tsx`, the drain of `query.ts` |
| `ToolExecution` | `StreamingToolExecutor.ts` as `query.ts` drives it |
| `*Proofs` | the theorems about each of these; `QueueOrderProofs` continues `PromptSubmitProofs` |

How state and actions correspond to the code:

- A JavaScript Map is a set of keys and one function per field. Keys that are not
  in the set have no meaning, so a run's initial values are kept for them.
- Each handler runs to its end without an `await`, so it is one action that
  includes every store call it makes. The heartbeat interval, for instance,
  terminates the late sockets, unregisters their connections and cleans up pair
  codes in one step; the `close` events of those sockets come later.
- `readyState` is the relay's view of a socket. It becomes `CLOSING` when the
  peer's close frame arrives or `close()`/`terminate()` is called; `OnClose` is
  the later event, whatever has happened to the store in between.
- Time is what has run out: `late` (no heartbeat within the timeout),
  `expiredCodes`, and tokens that are `"expired"`.
- `Crash` empties the Maps and closes the sockets; tokens stay. So does the
  restart after an exit.
- A connection, session or code identifier is used once, as with `randomUUID()`,
  save for pair codes, which the code draws at random and which may collide.
- The router looks at the type of a message and at its session. CLI messages are
  three classes, those that set `isBusy`, that clear it, and the others.
- `owner`, `shown` and `consent` are history: they record who created a session,
  which code a CLI was last given, and what was answered on the phone.
- Code that awaits is cut at its awaits: an action is the code between two of them.
  In `RelayAgent` a call waits in two places, for the model and for consent; its
  tools are synchronous. In `ToolExecution` an action is a step of one walk through
  the queue, a step of the scan for results up to its next `yield`, or the end of a
  tool. A walk is known by who made it and where it resumes; nothing before its place
  is queued, so two at one place behave as one. In `PromptSubmit` the awaits are those
  of processing the input, of the query, and of the attachments.
- `onQuery` in `PromptSubmit` has the three callers it has in `REPL.tsx`: `OnQuery` after
  `executeUserInput`, `HandleIncomingPrompt`, and `processInitialMessage`, which is three
  actions. `LeavePlanMode` accepts a plan with "clear context": the plan waits in
  `initialMessage` and its turn is aborted. `ProcessInitialMessage` is the effect's test
  of `isLoading` (`:3030`), after which the code awaits; `ClearInitialMessage` is what follows
  `clearConversation`; `QueryInitialMessage`, after `awaitPendingHooks`, sets a
  controller and calls `onQuery` (`:3126-3132`) without asking the guard. `raced` records
  that the guard was active then.
- A turn that ends without having asked the model (`shouldQuery` false, `REPL.tsx:2741-2744`)
  drops the screen's controller whoever owns the guard; `Finish` chooses between the two ends.
- SIGINT makes the relay stop `Listening`: node's `server.close()` refuses new TCP
  connections, and each client opens its WebSocket over a new one. HTTP requests that came
  over an older connection are still answered.
- A queued command's `at` is the number of its arrival: position in the array and
  identity of the object at once. `PutBack` is `onQuery`'s re-enqueueing of bare text.
- In `PromptSubmit` the effect sees guard and queue as of its own run: both are
  subscribed with `useSyncExternalStore`, whose updates are synchronous, so React runs
  pending effects with the values of the last change.
- `RemoteControl` starts when the relay serves a session for the agent, and assumes
  that it got there: with the relay of this repository it does not. `relay-cli` posts to
  `/api/register` and `/api/pair` (`relay-cli.ts:68`, `:87`) where the relay offers
  `/api/cli/register` and `/api/pair-code/generate`, so it ends at its registration. A
  relay with those addresses but this order of checks would refuse its session as in
  finding 1 (`:700` comes before the connection at `:751`). Of the relay it has what its session still names: `served`, the
  agent's connection, which no reconnect restores, and `bound`, the phone's, which the
  phone's next message restores.
- `consent`, `given`, `said`, `twice`, `settled`, `cancelled` and `raced` are history.
- Definitions marked "faulty variant" are plausible bugs of the operator below
  them. No specification uses them; they are kept to show that each property
  notices such a bug.

## Runs

| run | instance | states | what it shows |
|---|---|---|---|
| `relay_safety` | 2 CLIs, 1 phone, 3 connections, 1 session | 241,432 | type invariant, agreement of the Maps, delivery to the parties only, `RelayServer` implements `SessionLifecycle` |
| `relay_pairing` | 1 CLI, 2 phones, 2 connections, 1 session, 2 codes | 314,346 | only the latest code admits, once; a silent CLI is noticed, a shutdown ends |
| `permission_bridge` | 2 concurrent requests | 12,800 | exact bookkeeping, implements `PermissionDecision`, every request is decided |
| `relay_connector` | 2 sockets, limit 12 (60 s / 5 s) | 119 | one socket, heartbeat, quiet disconnect, never gives up |
| `remote_control` | 2 messages, 2 turns each, 0 or 1 dangerous tool in a response, 1 broken connection | 489,769 | consent, exact bookkeeping of overlapping calls, well-formed history, each request implements `PermissionDecision`'s steps (`AnswersStand`), every message and every wait ends |
| `tool_execution` | 3 tools, each an exclusive one, a safe Bash command or an unknown name | 361,918 | exclusion, order of starts and answers, cancellation for a cause, every tool answered |
| `prompt_submit` | 3 commands, 2 plans, 2 calls in progress | 976,521 | guard never orphaned, one query, one turn, Escape, nothing lost or doubled, stale ends harmless, queue served |
| `relay_phone_unbound` | as `relay_safety`, 1 CLI | violation | finding 2 |
| `relay_broadcast` | as `relay_safety`, 1 CLI | violation | finding 3 |
| `remote_relay_start` | 1 CLI, 1 phone | violation | finding 1 |
| `tool_spin` | 2 tools | violation | finding 4 |
| `remote_interrupt` | 2 messages, no broken connection | violation | finding 5 |

**Why the bounds are enough.** Three connections let one client have an old and a
new connection while the other side has one, which is what every reconnect race
needs; a second CLI is the party that must not get messages. `relay_pairing` has one
CLI, whose code is regenerated and raced by two phones, because liveness needs
the room; that two CLIs draw the same code is covered by the proofs of both pairing
properties, which hold for any number of CLIs. Two permission
requests are enough to confuse one answer with the other. The connector never has
more than one live socket (this is `OneSocket`, and it is proved), so a
second one is there only to be wrong. Two messages make an old call and a new one
overlap, with one question each at a time and a second turn in which either may ask
again. Three tools are a pair that runs together and one that must wait, or a
pair that must not and one that is passed over; each of the three may be of any
kind. The commands are a slash command, which the user types, or a teammate sends as plain
text, and which becomes a plain prompt when it is put back; a scheduled prompt; an
agent's notification; and two plans, of which the second may be accepted while the
first is on its way. Two calls in progress are a cancelled one and its
successor, or a plan's query and the call it overtakes; a third would only
be met by what the first two leave, and a put-back while a third call is attaching is
covered by the proofs, which hold for any number. The safety properties and action properties of all
passing runs are proved without bounds.

**Bounds.** All come from the finite sets above: identifiers are not reused, so
they bound the number of connections and sessions in a behaviour, across
restarts too. `reconnectAttempts` stops at the value from which `Math.min` makes
it irrelevant. The sets of answers under way hold each distinct answer once; a
repeated answer is one that `PhoneAnswers` puts there again. `MaxMessages`,
`MaxTurns` (20 in the code), `Asks` and `MaxDrops` bound `RemoteControl`, `MaxTools`
bounds a response, and a command is given once, so `Command` bounds `PromptSubmit`.

**Deadlock** is checked in every run but those of `RemoteControl`, `PromptSubmit`
and `ToolExecution`, where all messages and commands may be done and the program
rightly waits for the user, or the response is over. Symmetry is used only for safety.

**Fairness.**
- `RelayServer`: weak fairness of `HeartbeatCheck` (a `setInterval`), of `OnClose`
  (the `ws` library emits `close` for every socket that ends, by its own timeout
  if the peer does not answer) and of `Exit` (`server.close` calls back when no
  socket is left). No fairness for clients, messages, or the arrival of
  heartbeats.
- `PermissionBridge`: weak fairness of the timeout only.
- `RelayConnector`: weak fairness of the reconnect timeout, and of the end of an
  attempt to connect or of a closing socket. Nothing forces an open one to close.

- `RemoteControl`: messages travel while their connection holds, and each call of the
  model (which has its own timeout) and each two-minute timeout ends. Nobody has to
  answer, dismiss or reconnect. `WaitingEnds` therefore excludes broken connections:
  with one the phone can wait for ever (see below).
- `ToolExecution`: microtasks run, so a walk and `getRemainingResults` go on; and a tool
  that executes ends, but only at a moment when no microtask is left
  (`MicrotasksDone`), for that is when the event loop serves timers, sockets and
  child processes. This is strong fairness, as those moments come and go. Nothing makes
  the response end or the user act.
- `PromptSubmit`: processing of input, attachments and queries end, each by its own
  timeouts at the latest, and React runs an effect that is due. No user, task or
  teammate has to do anything.

## Findings

1. `pa remote-relay` cannot start. It asks for the session
   (`remoteRelay.ts:85`) before it connects (`:138`), and the relay refuses a
   session to a client that is not connected (`server.ts:128-131`). Run
   `remote_relay_start`; theorem `NeverRuns` for every state of the relay.
2. A phone that disconnects stays bound to its sessions, because
   `unregisterConnection` walks `sessionIds`, which `bindIphone` does not fill.
   The comment at `sessionStore.ts:156` says it is unbound. Run `relay_phone_unbound`;
   theorem `PhoneNeverUnbound` for every order of events.
3. `broadcastToRole` sends to the connection `clientIdToConnId` holds rather than
   to the one it visits. A phone reconnects while its older connection is still open;
   the older one closes, and `unregisterConnection` deletes the client's entry
   (`sessionStore.ts:164`) although it names the new connection. The phone's only
   connection is open, and the broadcast leaves it out. The comment at
   `messageRouter.ts:168` says all connections of the role. The property asks for less,
   one message to each phone all of whose connections are open, so that the run
   `relay_broadcast` shows just this; while both are open, the newer one is sent
   the message twice and the older one nothing.

4. `getRemainingResults` can spin for ever. An unknown tool name is completed at
   once; behind a tool that executes alone it cannot be handed out
   (`StreamingToolExecutor.ts:436`), yet it keeps `hasCompletedResults` true, so the
   loop never reaches its `Promise.race` (`:471`, `:482`). Run `tool_spin`; theorem
   `StarvedForEver` for any response, and `RoundsFruitful` that nothing else does it. With tools
   that exist every tool is answered (`RemainingResultsReturn`).
5. An interrupted call of `relay-cli` still executes a tool. The abort signal is read
   at the head of the loop only, not after the wait for consent
   (`relay-cli.ts:586`). Run `remote_interrupt`; theorem `InterruptRunsOut` for how far it goes.

Seen while modelling, without a run of their own:

- A reservation of the query guard has no owner. The user submits A and cancels it
  while its input is processed (`forceEnd` makes the guard idle); B reserves; A's
  `finally` block (`handlePromptSubmit.ts:603`) releases B's reservation; C starts
  beside B, although `:417` says "queryGuard guarantees no concurrent executeUserInput
  call". Or A gets to `tryStart` first and takes B's reservation. That is why
  `OneTurnAtATime`, `EscapeReachesTheTurn` and `SaidOnce` are stated for sessions in
  which nothing was cancelled: without the hypothesis TLC finds these traces.
- `processInitialMessage` races the queue without any cancel. While a turn plans, a
  background task puts a prompt into the queue; the user accepts the plan with "clear
  context"; the turn ends and the effect at `REPL.tsx:3028` sees no turn in progress.
  While it awaits `clearConversation`, the queue's effect sees none either and reserves
  the guard for the queued prompt. The plan then sets the screen's controller and takes
  over the reservation in `tryStart` (`:3126-3132`, `:2869`): two calls in progress,
  against `handlePromptSubmit.ts:417`. If the prompt's query got to run first, the plan is
  put into the queue and the controller it has set is nobody's: Escape aborts that one and
  forces the guard idle while the running query goes on. This is the hypothesis `~raced` of
  `OneTurnAtATime` and `EscapeReachesTheTurn`: without it TLC finds both in nine states.
  There still is one query at a time (the first half of `OneTurnAtATime` needs no such
  hypothesis), the guard is not orphaned and no command is lost.
- A second plan that is accepted before the first one has been taken replaces it, and one
  accepted while the conversation is cleared for the first is wiped by
  `initialMessage: null` (`REPL.tsx:3080`). What a racing turn says during
  `clearConversation` is cleared with the rest.
- The put-back in `onQuery` (`REPL.tsx:2873-2884`) drops meta prompts and turns mode and
  priority into a plain "next" prompt, so a slash command returns as text.
- `dequeueAllMatching` says "preserving priority order" (`messageQueueManager.ts:241`)
  and keeps insertion order; `clearCommandQueue` says notifications (`:318`) and also
  drops the user's prompts. A `processUserInput` that throws loses its whole batch.
- "Results are buffered and emitted in the order tools were received"
  (`StreamingToolExecutor.ts:38`) holds for exclusive tools only (`NotOvertaken`): safe
  ones are handed out as they complete. "'block' tools shouldn't reach here" (`:222`) is
  not so for `relaySessionManager.ts:109`, which aborts with "interrupt" at any time. A
  discarded executor's tools run on.
- `relay-cli`: a user message that arrives while an older call asks for consent lands
  between that call's `tool_use` and its `tool_result` in the shared history, so
  `ResultsFollowCalls` holds for each call's own entries and not for the history as
  a whole. An interrupted call of the model is reported as "error", because the
  error's name is not `AbortError` (`utils/errors.ts:25`). Deny continues with an error
  result where `DEPLOYMENT_GUIDE.md:668` says it aborts. A turn that ends with
  `end_turn` and a `tool_use` leaves the latter unanswered.
- With the agent's connection gone the phone is told the agent is offline but keeps
  waiting (`ChatViewModel.swift:152-158`); an agent that reconnects can be heard but
  not reached, as the session does not take its new connection.
- Event uploaders: a `flush()` called after `close()` while a POST in flight fails never
  resolves (`SerialBatchEventUploader.ts:184,197` against `:137`); a large `enqueue`
  that waits for room is overtaken by later small ones.

## Proofs

All theorems hold for any sets of clients, connections, sessions, codes, requests
and sockets. The assumptions are that the roles are disjoint, that the "none"
values are not members of the sets they complete (`RolesDisjoint`,
`NoClientDistinct`, `NoConnDistinct`, `NoSessionDistinct`, `NoSockDistinct`), and
that the limit of the reconnect delay is positive (`IntervalsPositive`).
`NeverRuns` also assumes that the command's client is a CLI, and `StarvedForEver` takes the
event loop as its hypothesis (see ToolExecutionProofs). For the agent's core the
assumptions are that the kinds of commands and of tools are disjoint where the code
makes them so (`KindsAssumption`, `IncomingAssumption`, `KindAssumption`), that calls
in progress are numbered from 1 (`TurnAssumption`), and that bounds are numbers.

**RelayServerProofs.** `SessionBindingSound` is not inductive: closing a
connection is right only if every identifier in the store belongs to a client and
every session has an owner (`StoreLinks`). With the types and `ClientMapSound`
this makes `StoreInv`, and one lemma per store method shows that the method
preserves it; `LostSessions`, which says that the sessions walked for a set of
connections are those served by one of them, is the step that needs both
directions of the binding. `DeliveredToParties` needs that a connection
identifier is not registered again while a session still names it. As the phone's
binding survives its connection (finding 2), this is `UsedAreOpened`: an
identifier in the store has had its socket opened. `RelayInv` is the conjunction,
with one step per action of `Next`. `TypeOK`, `ClientMapSound`,
`SessionBindingSound` and `DeliveredToParties` follow.
`OnlyLatestCodeWorks` is inductive by itself, and gives `AdmittedByLatestCode`.
`ImplementsLifecycle` maps each step to one of `SessionLifecycle`: `PostSessions`
to `Open`, `OnClose` and `HeartbeatCheck` to `Orphan` of the sessions lost, `Exit`
and `Crash` to `ForgetAll`, and the others to stuttering.
`SocketsInv` relates the store to the sockets: a registered connection has a socket that
is open or whose close event is to come, an open socket is registered, and none is open
once SIGINT has come. It gives what the two liveness properties rest on: an active
session is tied to a connection that the heartbeat check or a close event will still
find (`ActiveIsWatched`), and in a shutdown sockets only go from closing to closed
(`OnlyCloses`). `NeverUnbound` is finding 2 in general: no phone's connection lists a
session, so the unbinding branch of `unregisterConnection` never runs.

**PermissionBridgeProofs.** `PendingExact` is inductive; for the refinement it is
joined by `AnswersAreGiven`: an answer on its way was given on the phone, and only
questions past the local rules have been put to it. A timeout or an answer that
finds its request pending is `Decide`; one that does not is a stutter. `AnswersFinal` reads
what `PermissionDecision` promises back in the bridge's own terms.

**RelayConnectorProofs.** The three invariants hold only together: the close of
an old socket would stop the heartbeat of a new one if two could live, and two
could if a reconnect could be scheduled while one lives. Added are that nothing
exists before `connect()` and that a manual close has forgotten `ws`. From the same
invariant: there is always a socket or a scheduled attempt until `disconnect()`
(`AlwaysTrying`, the safety half of `NeverGivesUp`), and no step after it opens a socket
(`NothingAfterDisconnect`).

**RemoteRelayHandlerProofs.** `NoConnectionYet`: the command is not running and
the relay has no connection of it, which no step of others changes.

**RemoteControlProofs.** `RanWithConsent` needs that an answer "allow" on its way to the
agent was given on the phone, that the phone shows and the agent's messages name only
requests that have been asked, and `PendingExact`: an answer resumes the one call that
asked this request. `PendingExact` in turn needs that identifiers are new when drawn.
A call that asks has a tool left to ask about (`SomeLeft`).

- `ResultsFollowCalls` is stated by positions: a call's entries begin with its message
  and no other of them is one, each may follow the one before it, and they end as the
  call's place in the code demands. It is inductive with `EntriesOwned`, that the history has no entry of a call
  that does not exist yet, for a new call starts from an empty part.
- `AnswersStand` and `ImplementsDecision`: `Decision(r)`, an instance with a parameter, is
  `PermissionDecision` for the one request r. By itself each request refines it; for all
  at once this would be false, because the step that answers one request puts the next
  one of the same call.
- `InterruptRunsOut` bounds finding 5: an interrupted call goes through what is left of the
  response at hand and never reaches the model again.
- `WaitingHasCause`: with no broken connection the phone waits only while its message, a
  call or a result is under way. Inductive with `NothingLost`: no connection has failed, so
  what is said arrives.

**ToolExecutionProofs.** What carries the order is `WalksPast`: a walk has left no
queued tool behind the place where it resumes, however long it was suspended. With it
a walk that starts a tool starts the first one queued, so `StartedInOrder` is kept; with
`ScanPasses` (an exclusive tool that a suspended scan has passed unanswered lies before
an unknown name) so is `NotOvertaken`. `CancelledForCause` needs that `hasErrored` is
set in the same step that gives a Bash tool its error, and that a tool without an end
has no result yet; that no second Bash command fails by itself follows from the first
one's having set it before any later update.

`LoopInv` adds what progress rests on: a queued tool has an executing tool or a walk in
progress (`Covered`), an exclusive tool that executes is followed only by queued tools and
unknown names (`Blocks`), and the wait of `getRemainingResults` is for a tool that
executes. So every queued tool has a cause that will start it (`QueuedHasCause`), and a
fruitless round can only be that of finding 4 (`RoundsFruitful`). `StarvedForEver` is that
finding for a response of any length. Its hypothesis `EndsWhenServed` says that a tool
ends only when no microtask is left, which is how an event loop works and what the
fairness of the runs assumes too; without it the model lets a tool end at any time, which
is the safe choice for the other theorems.

**PromptSubmitProofs.** `PromptInv` adds to the properties: arrivals number the queue and
what turns carry (`Received`), what each phase of a turn holds (`Shape`), that without a
cancel a query in progress owns the running guard (`HeldByTheQuery`, whoever called
`onQuery`), that without a race of a plan either the guard's state is that of the one turn
there is (`HeldByTheTurn`), and that a
command, or an accepted plan, is in one place only (`OnePlace`), which gives `SaidOnce` across the await
between the drain's snapshot and its removal. One lemma per action and conjunct.

**QueueOrderProofs** is about the queue's order and what serves it; all of it holds after
cancels too. `ArrivalsTotal`: arrival numbers order the queue as its array does, also
after `onQuery` has put a batch or a plan back. Hence exactly one command is next (`NextIsUnique`, by
the well-foundedness of `<` on numbers), and what the effect hands out is headed by it
(`UserFirst`, the comment of `messageQueueManager.ts:139-140`). `NoWakeupMissed` says that
with guard and dialog out of the way a queue with work has its effect due; it is
inductive as `NothingSeenLeft`: an effect that ran when it could serve left nothing, and
every later arrival sets `changed`. `GenerationsApart`: queries that overlap after cancels
have generations of their own, so at most one of them can end the guard.

**Only model-checked:** the liveness properties `DeadCliNoticed`,
`ShutdownFinishes`, `RequestDecided`, `NeverGivesUp`, `MessageEnds`, `WaitingEnds`,
`QueuedToolStarts`, `RemainingResultsReturn` and `QueueServed`, because liveness under
fairness and ENABLED are out of the prover's reach; and the violations. What is proved of
them is their safety half, that something is always under way to make the awaited thing
happen:

| liveness, checked | safety half, proved |
|---|---|
| `DeadCliNoticed` | `ActiveIsWatched` |
| `ShutdownFinishes` | `OnlyCloses` |
| `RequestDecided`, `MessageEnds` | `PendingExact`: a call that asks has its timeout armed |
| `NeverGivesUp` | `AlwaysTrying` |
| `WaitingEnds` | `WaitingHasCause` |
| `QueuedToolStarts` | `QueuedHasCause` |
| `RemainingResultsReturn` | `WaitsForATool`, `RoundsFruitful` |
| `QueueServed` | `NoWakeupMissed`, `GuardHeld` |

## Not modelled

- Wording, timestamps, previews, working directories, message bodies.
- Requests that are refused without a change of state.
- JWT signatures; a token is valid, expired or not issued.
- An HTTP answer that is lost after the relay has acted on the request.
- `relayConfig.ts` and `llm/provider.ts` (data only), the terminal UI, the local
  CLI's sequential loop, the phone's views and its lists of messages and sessions.
- `maxSessions`, which the code reads and prints but never uses.
- `relaySessionManager.ts`: only `remoteRelay.ts` makes one, and by finding 1 it exits
  before it does.
- The phone's socket wrapper below "drops and reconnects": a receive failure and
  `didClose` may both schedule a reconnect, which the relay sees as two connections of
  one client, and those are in `RelayServer`.
- Of prompt submission: the priority "now", restoring the input after an early
  cancel, the exit path, remote mode, `isExternalLoading`, `dequeueAll` and
  `removeByFilter`; the 100 ms for which `processInitialMessage` is not entered again; a
  plan accepted without clearing the conversation (its turn just goes on); `/resume`, which
  drops the controller at any time; and the transcript that `clearConversation` empties. The initial
  prompt of the command line goes through `onSubmit` and is a `Submit`. The end of a query and its `finally` blocks are one step (no
  macrotask lies between).
- Of tool execution: progress messages, context modifiers (as the code's own note says,
  none is used by concurrent tools), two updates of different tools in one tick, and
  `toolOrchestration.ts`, the sequential alternative.
- The event uploaders: telemetry and state of a hosted session, apart from the control
  flow modelled here.
- The rest of the terminal program (parsers, tools, file formats, plug-ins, screens):
  data and presentation of about half a million lines, of which the modules here
  take the part with concurrent control.

## Plan

What a next step would add, in this order.

1. Proofs: the pairing endpoints seen from one code, refined to an abstract code that is
   shown, used once or expired; a bound on overlapping turns in `PromptSubmit` after
   cancels, where `OneTurnAtATime` says nothing; the order of answers among safe tools.
2. Models: an owner for a reservation in `PromptSubmit`, once the code has one, with the
   three `~cancelled` hypotheses dropped, and a `processInitialMessage` that reserves
   before it awaits, with `~raced` dropped; `SerialBatchEventUploader.ts` with retry,
   backpressure and close; the phone's two reconnect paths composed with `RelayServer`;
   `toolOrchestration.ts` as a second implementation of an abstract executor that
   `ToolExecution` would refine too.
