--------------------------- MODULE MCVotingProtocol ---------------------------
(***************************************************************************)
(* The days that TLC explores: what voters "v1" and "v2" and ballot check  *)
(* applications "b1" and "b2" get up to.                                   *)
(***************************************************************************)
EXTENDS VotingProtocol

None == [StartAuthentication |-> [v1 |-> 0, v2 |-> 0],
         StartSubmission |-> [v1 |-> 0, v2 |-> 0],
         StartCasting |-> [v1 |-> 0, v2 |-> 0],
         StartBallotCheck |-> [v1 |-> 0, v2 |-> 0],
         SetIdle |-> [v1 |-> 0, v2 |-> 0],
         StartCheck |-> [b1 |-> 0, b2 |-> 0],
         AbortSubprotocol |-> [b1 |-> 0, b2 |-> 0],
         AbortVoterAuthentication |-> [EAS |-> 0],
         Tick |-> [clock |-> 0],
         Spoil |-> [network |-> 0]]

Day(authorized, commands) == [authorized |-> authorized, commands |-> commands]

(* Both voters authenticate; requests expire.                              *)
Authenticate == Day(FALSE,
    [None EXCEPT !.StartAuthentication = [v1 |-> 1, v2 |-> 1], !.Tick.clock = 1])

(* One does; requests are aborted, or expire, and a signature is spoiled.  *)
AuthenticateInTrouble == Day(FALSE,
    [None EXCEPT !.StartAuthentication.v1 = 1, !.AbortVoterAuthentication.EAS = 1,
                 !.Tick.clock = 1, !.Spoil.network = 1])

(* One voter gives up on a submission, makes another one, and casts twice. *)
Resubmit == Day(TRUE,
    [None EXCEPT !.StartSubmission.v1 = 2, !.StartCasting.v1 = 2,
                 !.SetIdle.v1 = 1, !.Spoil.network = 1])

(* Two voters submit and cast.                                             *)
TwoCast == Day(TRUE,
    [None EXCEPT !.StartSubmission = [v1 |-> 1, v2 |-> 1],
                 !.StartCasting = [v1 |-> 1, v2 |-> 1]])

(* A ballot is checked on two devices.                                     *)
TwoChecks == Day(TRUE,
    [None EXCEPT !.StartSubmission.v1 = 1, !.StartBallotCheck.v1 = 1,
                 !.StartCheck = [b1 |-> 1, b2 |-> 1]])

(* A ballot is checked; the check is aborted, or a signature spoiled.      *)
CheckInTrouble == Day(TRUE,
    [None EXCEPT !.StartSubmission.v1 = 1, !.StartBallotCheck.v1 = 1,
                 !.StartCheck.b1 = 1, !.AbortSubprotocol.b1 = 1, !.Spoil.network = 1])

(* A ballot is checked, perhaps replaced by another, and one is cast.      *)
CheckAndCast == Day(TRUE,
    [None EXCEPT !.StartSubmission.v1 = 2, !.StartBallotCheck.v1 = 1,
                 !.StartCasting.v1 = 1, !.StartCheck.b1 = 1])

(* A voter submits and authenticates again.                                *)
Reauthenticate == Day(TRUE,
    [None EXCEPT !.StartAuthentication.v1 = 1, !.StartSubmission.v1 = 1,
                 !.Tick.clock = 1])

Days == {Authenticate, AuthenticateInTrouble, Reauthenticate, Resubmit, TwoCast,
         TwoChecks, CheckInTrouble, CheckAndCast}
===============================================================================
