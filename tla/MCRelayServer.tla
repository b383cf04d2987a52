---------------------------- MODULE MCRelayServer ----------------------------
(* Small instances of RelayServer for TLC. *)
EXTENDS RelayServer, TLC

\* Clients of a role, and connection, session and code identifiers, are
\* interchangeable.
Sym == 
    Permutations(Cli) \cup Permutations(ConnId) \cup Permutations(SessionId) \cup Permutations(PairCode)
         \cup Permutations(Phone)
==============================================================================
