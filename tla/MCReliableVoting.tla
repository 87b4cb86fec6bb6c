--------------------------- MODULE MCReliableVoting ---------------------------
(***************************************************************************)
(* Days on which nothing goes wrong, for TLC: two voters in the registry   *)
(* and a third who is not.                                                 *)
(***************************************************************************)
EXTENDS ReliableVoting

Nothing == [StartAuthentication |-> [v1 |-> 0, v2 |-> 0, v3 |-> 0],
            StartSubmission |-> [v1 |-> 0, v2 |-> 0, v3 |-> 0],
            StartCasting |-> [v1 |-> 0, v2 |-> 0, v3 |-> 0],
            StartBallotCheck |-> [v1 |-> 0, v2 |-> 0, v3 |-> 0],
            SetIdle |-> [v1 |-> 0, v2 |-> 0, v3 |-> 0],
            StartCheck |-> [b1 |-> 0],
            AbortSubprotocol |-> [b1 |-> 0],
            AbortVoterAuthentication |-> [EAS |-> 0],
            Tick |-> [clock |-> 3],
            Spoil |-> [network |-> 0]]

(* One voter votes and checks the ballot, another is refused.              *)
VoteAndCheck == [authorized |-> FALSE, commands |->
    [Nothing EXCEPT !.StartAuthentication = [v1 |-> 1, v2 |-> 0, v3 |-> 1],
                    !.StartSubmission.v1 = 1, !.StartCasting.v1 = 1,
                    !.StartBallotCheck.v1 = 1, !.StartCheck.b1 = 1]]

(* Two voters vote.                                                        *)
TwoVote == [authorized |-> FALSE, commands |->
    [Nothing EXCEPT !.StartAuthentication = [v1 |-> 1, v2 |-> 1, v3 |-> 0],
                    !.StartSubmission = [v1 |-> 1, v2 |-> 1, v3 |-> 0],
                    !.StartCasting = [v1 |-> 1, v2 |-> 1, v3 |-> 0]]]

(* A voter checks a ballot and never casts it.                             *)
CheckOnly == [authorized |-> FALSE, commands |->
    [Nothing EXCEPT !.StartAuthentication.v1 = 1, !.StartSubmission.v1 = 1,
                    !.StartBallotCheck.v1 = 1, !.StartCheck.b1 = 1]]

GoodDays == {VoteAndCheck, TwoVote, CheckOnly}
===============================================================================
