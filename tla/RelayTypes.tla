----------------------------- MODULE RelayTypes -----------------------------
(***************************************************************************)
(* The identities shared by the relay's modules (relay/src/types.ts).  A   *)
(* client is one credential, that is one clientId of auth.ts: every        *)
(* registration of a CLI and every pairing of a phone makes a new one.     *)
(***************************************************************************)
CONSTANTS
    Cli,     \* the clientIds issued to command-line agents
    Phone,   \* the clientIds issued to paired iPhones
    NoClient \* null or undefined where a clientId may stand

ASSUME RolesDisjoint == Cli \cap Phone = {}
ASSUME NoClientDistinct == NoClient \notin (Cli \cup Phone)

Client == Cli \cup Phone
=============================================================================
