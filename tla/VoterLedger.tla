------------------------------ MODULE VoterLedger ------------------------------
(***************************************************************************)
(* What the Digital Ballot Box promises each voter, without a board, a     *)
(* hash chain or sessions: a voter may submit any number of ballots until  *)
(* one is cast, the ballot cast is the latest one submitted, it is cast    *)
(* once and for all, and no ciphertext is ever accepted a second time.     *)
(***************************************************************************)
CONSTANTS Voters, Ballots, NoBallot, CiphertextOf(_)

VARIABLES
    latest,     \* the latest ballot submitted by each voter
    cast,       \* the ballot cast by each voter
    used        \* the ciphertexts accepted so far

ledgerVars == <<latest, cast, used>>

Init ==
    /\ latest = [v \in Voters |-> NoBallot]
    /\ cast = [v \in Voters |-> NoBallot]
    /\ used = {}

Submit(v, b) ==
    /\ cast[v] = NoBallot
    /\ CiphertextOf(b) \notin used
    /\ latest' = [latest EXCEPT ![v] = b]
    /\ used' = used \cup {CiphertextOf(b)}
    /\ UNCHANGED cast

Cast(v) ==
    /\ cast[v] = NoBallot
    /\ latest[v] # NoBallot
    /\ cast' = [cast EXCEPT ![v] = latest[v]]
    /\ UNCHANGED <<latest, used>>

(* Most steps of a ballot box leave the ledger alone, and TLC finds that   *)
(* out first.                                                              *)
Next == \E v \in Voters :
    \/ Cast(v)
    \/ used' # used /\ \E b \in Ballots : Submit(v, b)

Spec == Init /\ [][Next]_ledgerVars
===============================================================================
