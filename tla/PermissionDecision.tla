------------------------- MODULE PermissionDecision -------------------------
(***************************************************************************)
(* What remote approval promises to the tool runner: every permission      *)
(* question gets one answer, for good; an answer "allow" to a question     *)
(* that was put to the phone has been given there.  How questions     *)
(* travel, get lost or time out is left out.                               *)
(***************************************************************************)
CONSTANT Req

VARIABLES
    decision, \* decision[r]: "none", "waiting" for the phone, or the final answer
    consent   \* consent[r]: the answers given on the phone so far

decisionVars == <<decision, consent>>

Answer == {"allow", "deny"}

Init ==
    /\ decision = [r \in Req |-> "none"]
    /\ consent = [r \in Req |-> {}]

\* Local rules decide without the phone, or a question that was forced on them
\* comes back unresolved, which lets no tool run.
DecideLocally(r, a) ==
    /\ decision[r] = "none"
    /\ decision' = [decision EXCEPT ![r] = a]
    /\ UNCHANGED consent

Ask(r) ==
    /\ decision[r] = "none"
    /\ decision' = [decision EXCEPT ![r] = "waiting"]
    /\ UNCHANGED consent

Consent(r, a) ==
    /\ decision[r] # "none"
    /\ consent' = [consent EXCEPT ![r] = @ \cup {a}]
    /\ UNCHANGED decision

\* Denying needs no consent: that is the safe answer when none arrives.
Decide(r) ==
    /\ decision[r] = "waiting"
    /\ \E a \in consent[r] \cup {"deny"} : decision' = [decision EXCEPT ![r] = a]
    /\ UNCHANGED consent

Next == \E r \in Req :
    \/ Ask(r)
    \/ Decide(r)
    \/ \E a \in Answer \cup {"unresolved"} : DecideLocally(r, a)
    \/ \E a \in Answer : Consent(r, a)

Spec == Init /\ [][Next]_decisionVars
=============================================================================
