SPECIFICATION FairSpec
CONSTANTS
  Command = {s, m, a, p, q}
  Slash = {s}
  Bash = {}
  Notification = {a}
  Meta = {m}
  ForAgent = {a}
  Incoming = {s}
  Plan = {p, q}
  Turn = {1, 2}
CHECK_DEADLOCK FALSE
INVARIANTS TypeOK GuardHeld OneTurnAtATime EscapeReachesTheTurn NothingLost SaidOnce
PROPERTIES RunEndsByOwner QueueServed
