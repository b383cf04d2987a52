------------------------------ MODULE RelayAuth ------------------------------
(***************************************************************************)
(* relay/src/auth.ts: credentials and pair codes.  Every registration and  *)
(* every pairing issues a new random clientId, so a client stands for one  *)
(* credential: "none" before it is issued, "valid", then "expired".  The   *)
(* server keeps no record of credentials (a JWT verifies against a key     *)
(* derived from PA_RELAY_KEY), only of pair codes.                         *)
(***************************************************************************)
EXTENDS RelayTypes

CONSTANTS
    PairCode,  \* the six-digit codes
    NoCode     \* no code

VARIABLES
    token,        \* token[u]: the credential of client u
    pairCodes,    \* state.pairCodes: pairCodes[k] is record.cliClientId or NoClient
    expiredCodes, \* the codes of pairCodes with now > expiresAt
    shown         \* history: the code last returned to each CLI

authVars == <<token, pairCodes, expiredCodes, shown>>

Live(k) == pairCodes[k] # NoClient

AuthTypeOK ==
    /\ token \in [Client -> {"none", "valid", "expired"}]
    /\ pairCodes \in [PairCode -> Cli \cup {NoClient}]
    /\ expiredCodes \in SUBSET {k \in PairCode : Live(k)}
    /\ shown \in [Cli -> PairCode \cup {NoCode}]

\* A relay may start while credentials issued by its predecessor still verify.
AuthInit ==
    /\ token \in [Client -> {"none", "valid"}]
    /\ pairCodes = [k \in PairCode |-> NoClient]
    /\ expiredCodes = {}
    /\ shown = [u \in Cli |-> NoCode]

\* verifyToken succeeds.
Verified(u) == token[u] = "valid"

RegisterCLI(u) ==
    /\ token[u] = "none"
    /\ token' = [token EXCEPT ![u] = "valid"]
    /\ UNCHANGED <<pairCodes, expiredCodes, shown>>

\* generatePairCode: drops the CLI's older codes, then writes a random code over
\* whatever record that code had.
GeneratePairCode_KeepsOldCodes(u, code) == \* faulty variant
    /\ pairCodes' = [pairCodes EXCEPT ![code] = u]
    /\ expiredCodes' = expiredCodes \ {code}
    /\ shown' = [shown EXCEPT ![u] = code]
    /\ UNCHANGED token
GeneratePairCode(u, code) ==
    LET old == {k \in PairCode : pairCodes[k] = u}
    IN  /\ pairCodes' = [k \in PairCode |->
               IF k = code THEN u ELSE IF k \in old THEN NoClient ELSE pairCodes[k]]
        /\ expiredCodes' = expiredCodes \ (old \cup {code})
        /\ shown' = [shown EXCEPT ![u] = code]
        /\ UNCHANGED token

\* pairIPhone with a known code: the record is deleted in any case, and the new
\* client p gets its credential if the code has not expired.
PairIPhone_CodeStays(p, code) == \* faulty variant
    /\ Live(code)
    /\ token[p] = "none"
    /\ code \notin expiredCodes
    /\ token' = [token EXCEPT ![p] = "valid"]
    /\ UNCHANGED <<pairCodes, expiredCodes, shown>>
PairIPhone(p, code) ==
    /\ Live(code)
    /\ token[p] = "none"
    /\ token' = IF code \in expiredCodes THEN token ELSE [token EXCEPT ![p] = "valid"]
    /\ pairCodes' = [pairCodes EXCEPT ![code] = NoClient]
    /\ expiredCodes' = expiredCodes \ {code}
    /\ UNCHANGED shown

CleanupExpiredPairCodes ==
    /\ pairCodes' = [k \in PairCode |-> IF k \in expiredCodes THEN NoClient ELSE pairCodes[k]]
    /\ expiredCodes' = {}
    /\ UNCHANGED <<token, shown>>

\* Time passes: PA_TOKEN_TTL_SEC and PA_PAIR_CODE_TTL_SEC run out.
TokenExpires(u) ==
    /\ token[u] = "valid"
    /\ token' = [token EXCEPT ![u] = "expired"]
    /\ UNCHANGED <<pairCodes, expiredCodes, shown>>

PairCodeExpires(k) ==
    /\ Live(k)
    /\ k \notin expiredCodes
    /\ expiredCodes' = expiredCodes \cup {k}
    /\ UNCHANGED <<token, pairCodes, shown>>

\* The process ends and a new one starts: codes are in memory, credentials are not.
ForgetCodes ==
    /\ pairCodes' = [k \in PairCode |-> NoClient]
    /\ expiredCodes' = {}
    /\ UNCHANGED <<token, shown>>
=============================================================================
