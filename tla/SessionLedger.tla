---------------------------- MODULE SessionLedger ----------------------------
(***************************************************************************)
(* What the session manager promises about the table of client addresses:  *)
(* a session is open once, counts its requests and claims a forwarded      *)
(* address while it is open, and when it is settled its whole count is     *)
(* credited, in one step, to the address it came from and to the address   *)
(* it claims at that moment, if any.                                       *)
(***************************************************************************)
EXTENDS Integers

CONSTANTS
    Sessions,
    Keys,       \* addresses
    NoKey,      \* the one that stands for "no claim"
    None

VARIABLES
    stage,    \* "outside", "open" or "settled"
    owner,    \* the address an open session came from
    tally,    \* its requests
    claim,    \* the forwarded address it names
    ledger    \* requests credited to each address

lvars == <<stage, owner, tally, claim, ledger>>

LedgerInit ==
    /\ stage = [s \in Sessions |-> "outside"]
    /\ owner = [s \in Sessions |-> None]
    /\ tally = [s \in Sessions |-> 0]
    /\ claim = [s \in Sessions |-> NoKey]
    /\ ledger = [k \in Keys |-> 0]

\* A session appears with any claim.
Open(s, k, c) ==
    /\ stage[s] = "outside"
    /\ stage' = [stage EXCEPT ![s] = "open"]
    /\ owner' = [owner EXCEPT ![s] = k]
    /\ claim' = [claim EXCEPT ![s] = c]
    /\ UNCHANGED <<tally, ledger>>

Count(s) ==
    /\ stage[s] = "open"
    /\ tally' = [tally EXCEPT ![s] = @ + 1]
    /\ UNCHANGED <<stage, owner, claim, ledger>>

Claim(s, c) ==
    /\ stage[s] = "open"
    /\ claim' = [claim EXCEPT ![s] = c]
    /\ UNCHANGED <<stage, owner, tally, ledger>>

\* Counting and claiming belong to one request.
CountAndClaim(s, c) ==
    /\ stage[s] = "open"
    /\ tally' = [tally EXCEPT ![s] = @ + 1]
    /\ claim' = [claim EXCEPT ![s] = c]
    /\ UNCHANGED <<stage, owner, ledger>>

Share(s, k) ==
    (IF k = owner[s] THEN tally[s] ELSE 0)
    + (IF k = claim[s] /\ k # NoKey THEN tally[s] ELSE 0)

Settle(s) ==
    /\ stage[s] = "open"
    /\ stage' = [stage EXCEPT ![s] = "settled"]
    /\ ledger' = [k \in Keys |-> ledger[k] + Share(s, k)]
    /\ UNCHANGED <<owner, tally, claim>>

LedgerNext ==
    \E s \in Sessions :
        \/ \E k, c \in Keys : Open(s, k, c)
        \/ Count(s)
        \/ \E c \in Keys : Claim(s, c) \/ CountAndClaim(s, c)
        \/ Settle(s)

LedgerSpec == LedgerInit /\ [][LedgerNext]_lvars
=============================================================================
