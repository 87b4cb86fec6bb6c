-------------------------- MODULE MCDigitalBallotBox --------------------------
(***************************************************************************)
(* Small instances of DigitalBallotBox for TLC.  Voter v1 authenticates    *)
(* twice, with different keys and ballot styles; v2 once; one              *)
(* authorization is not signed by the EAS, and one is issued at time 1, so *)
(* that it is valid only once the clock has moved on.                      *)
(***************************************************************************)
EXTENDS DigitalBallotBox

Authorization(v, key, style, time, eas) ==
    [voter_pseudonym |-> v, voter_verifying_key |-> key, ballot_style |-> style,
     timestamp |-> time, election |-> "election", eas_signed |-> eas]

A1 == Authorization("v1", "k1", "s1", 0, TRUE)
A1again == Authorization("v1", "k2", "s2", 0, TRUE)
A2 == Authorization("v2", "k3", "s1", 0, TRUE)
AForged == Authorization("v2", "k3", "s1", 0, FALSE)
ALate == Authorization("v1", "k1", "s1", 1, TRUE)

DayAuths == {A1, A1again, A2, AForged, ALate}

Ciphertext(id, v) == [id |-> id, pseudonym |-> v]
DayCiphertexts == {Ciphertext("c1", "v1"), Ciphertext("c2", "v1"), Ciphertext("c3", "v2")}

(* TLC goes on from two kinds of states.  Boards: at time 1, without       *)
(* sessions or custom bulletins; after a refusal, all but the output is as *)
(* it was before.  Sessions: with no submissions but of c1 under ALate.    *)
Boards ==
    /\ clock = 1
    /\ \A c \in Connections : sessions[c] = NoSession
    /\ CustomOnBoard = {}
    /\ \/ output = NoOutput
       \/ output.type \in {"ReturnBallotTracker", "CastConf"} /\ output.to = 1 /\ output.ok

Sessions == \A i \in DOMAIN board : board[i].type = SUBMISSION =>
    /\ board[i].contents.ballot.auth = ALate
    /\ board[i].contents.ballot.ciphertext.id = "c1"

Bound == Boards \/ Sessions
===============================================================================
