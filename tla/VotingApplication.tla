--------------------------- MODULE VotingApplication ---------------------------
(***************************************************************************)
(* The Voting Applications (VA), one for each voter: the top-level actor   *)
(* (voting_application/top_level_actor.rs), which runs one subprotocol at  *)
(* a time and keeps what the next ones need, and the sub-actors for        *)
(* authentication, submission, casting and checking.                       *)
(*                                                                         *)
(* Key pairs and ciphertexts are fresh: a pair of the voter and a number.  *)
(* Optional values are sets of at most one element.  A command that is     *)
(* refused, and an input for a subprotocol that is not active, change      *)
(* nothing and are left out.                                               *)
(***************************************************************************)
EXTENDS Sequences, BulletinBoard, VotingNetwork

CONSTANTS VAs    \* the voters: each has one Voting Application

VARIABLES
    va,         \* the actor of each voter
    receipts    \* what the VAs reported to their hosts: ballots confirmed cast

vaVars == <<va, receipts>>

-------------------------------------------------------------------------------
(* State.                                                                  *)

(* active_subprotocol: the sub-state of the active sub-actor, and what the *)
(* sub-actor remembers.                                                    *)
Idle == [state |-> "Idle"]
AwaitingToken(key) == [state |-> "AwaitingToken", key |-> key]
AwaitingFinishCommand(key, token) ==
    [state |-> "AwaitingFinishCommand", key |-> key, token |-> token]
AwaitingAuthorization(key) == [state |-> "AwaitingAuthorization", key |-> key]
AwaitingTracker(sent_ballot) == [state |-> "AwaitingTracker", sent_ballot |-> sent_ballot]
AwaitingBulletin(sent_ballot, tracker) ==
    [state |-> "AwaitingBulletin", sent_ballot |-> sent_ballot, tracker |-> tracker]
AwaitingConfirmation(tracker) == [state |-> "AwaitingConfirmation", tracker |-> tracker]
AwaitingRequest(key, tracker, randomizers) ==
    [state |-> "AwaitingRequest", key |-> key, tracker |-> tracker,
     randomizers |-> randomizers]
AwaitingUserApproval(checking, request) ==
    [state |-> "AwaitingUserApproval", key |-> checking.key, tracker |-> checking.tracker,
     randomizers |-> checking.randomizers, request |-> request]

AUTHENTICATION == {"AwaitingToken", "AwaitingFinishCommand", "AwaitingAuthorization"}
SUBMITTING == {"AwaitingTracker", "AwaitingBulletin"}
CASTING == {"AwaitingConfirmation"}

Actor(authorization, keys, fresh) ==
    [active |-> Idle, authorization |-> authorization, keys |-> keys,
     tracker |-> {}, randomizers |-> {}, fresh |-> fresh]

(* A VA is created without, or (as a start of its own) with an             *)
(* authentication behind it.                                               *)
VAInit(authorizations) ==
    /\ va = [v \in VAs |->
                Actor(authorizations[v], {a.voter_verifying_key : a \in authorizations[v]}, 1)]
    /\ receipts = {}

-------------------------------------------------------------------------------
(* How a step of the VA of voter v ends.                                   *)

Activate(v, active) == va' = [va EXCEPT ![v].active = active]

(* Failure of authentication, submission or casting (handle_state_updates).*)
Fail(v) == Activate(v, Idle) /\ UNCHANGED <<receipts, network>>

SetIdle(v) == va[v].active # Idle /\ Fail(v)

In(v, state) == va[v].active.state = state

-------------------------------------------------------------------------------
(* Authentication.                                                         *)

StartAuthentication(v) ==
    LET key == <<v, va[v].fresh>>
    IN  /\ va' = [va EXCEPT ![v].active = AwaitingToken(key), ![v].fresh = @ + 1]
        /\ Send(AuthReqMsg(key))
        /\ UNCHANGED receipts

(* perform_voter_token_return_checks                                       *)
AuthServiceToken(v, msg, signed) ==
    /\ In(v, "AwaitingToken")
    /\ msg.type = "AuthServiceToken"
    /\ \/ /\ signed /\ msg.voter_verifying_key = va[v].active.key
          /\ Activate(v, AwaitingFinishCommand(va[v].active.key, msg.token))
          /\ UNCHANGED <<receipts, network>>
       \/ /\ ~(signed /\ msg.voter_verifying_key = va[v].active.key)
          /\ Fail(v)

(* The host says that the third-party authentication is done.              *)
Finish(v) ==
    \/ /\ In(v, "AwaitingFinishCommand")
       /\ Activate(v, AwaitingAuthorization(va[v].active.key))
       /\ Send(AuthFinishMsg(va[v].active.token, va[v].active.key))
       /\ UNCHANGED receipts
    \/ /\ va[v].active.state \in AUTHENTICATION \ {"AwaitingFinishCommand"}
       /\ Fail(v)

(* perform_confirm_authorization_checks                                    *)
ConfirmChecks(v, msg, now) ==
    /\ msg.voter_verifying_key = va[v].active.key
    /\ msg.authentication_result =>
          \A auth \in msg.voter_authorization :
              /\ auth.eas_signed
              /\ auth.timestamp < now
              /\ auth.voter_verifying_key = va[v].active.key
    /\ ~msg.authentication_result => msg.voter_authorization = {}

(* Mutant of KeysAfter: the keys of the session are not kept.              *)
KeysAsBefore(v, msg) == va[v].keys

KeysAfter(v, msg) ==
    IF msg.authentication_result THEN {va[v].active.key} ELSE va[v].keys

ConfirmAuthorization(v, msg, signed, now) ==
    /\ In(v, "AwaitingAuthorization")
    /\ msg.type = "ConfirmAuthorization"
    /\ \/ /\ signed /\ ConfirmChecks(v, msg, now)
          /\ va' = [va EXCEPT ![v].active = Idle,
                              ![v].authorization = msg.voter_authorization,
                              ![v].keys = KeysAfter(v, msg)]
          /\ UNCHANGED <<receipts, network>>
       \/ /\ ~(signed /\ ConfirmChecks(v, msg, now))
          /\ Fail(v)

-------------------------------------------------------------------------------
(* Submission.                                                             *)

(* The ballot is encrypted with fresh randomizers, which are kept under    *)
(* the id of the ciphertext they made.                                     *)
SignedBallot(auth, id, keys) ==
    [auth |-> auth,
     ciphertext |-> [id |-> id, pseudonym |-> auth.voter_pseudonym],
     ballot_style |-> auth.ballot_style,
     signed |-> auth.voter_verifying_key \in keys]

Randomizers(ballot) ==
    [id |-> ballot.ciphertext.id, ballot_style |-> ballot.ballot_style]

StartSubmission(v) ==
    \E auth \in va[v].authorization :
        LET ballot == SignedBallot(auth, <<v, va[v].fresh>>, va[v].keys)
        IN  /\ va' = [va EXCEPT ![v].active = AwaitingTracker(ballot), ![v].fresh = @ + 1]
            /\ Send(SignedBallotMsg(v, ballot))
            /\ UNCHANGED receipts

(* perform_return_ballot_tracker_checks: the signature of the DBB, only.   *)
ReturnBallotTracker(v, msg, signed) ==
    /\ In(v, "AwaitingTracker")
    /\ msg.type = "ReturnBallotTracker"
    /\ \/ /\ signed /\ msg.ok
          /\ Activate(v, AwaitingBulletin(va[v].active.sent_ballot, msg.tracker))
          /\ UNCHANGED <<receipts, network>>
       \/ /\ ~(signed /\ msg.ok)
          /\ Fail(v)

(* Mutant of BulletinChecks: any submission will do.                       *)
BulletinOfAnySubmission(v, bulletin) == bulletin.type = SUBMISSION

(* perform_bulletin_verification_checks                                    *)
BulletinChecks(v, bulletin) ==
    /\ bulletin.type = SUBMISSION
    /\ bulletin.contents.ballot = va[v].active.sent_ballot

PBBData(v, bulletin) ==
    /\ In(v, "AwaitingBulletin")
    /\ \/ /\ BulletinChecks(v, bulletin)
          /\ va' = [va EXCEPT ![v].active = Idle,
                              ![v].tracker = {va[v].active.tracker},
                              ![v].randomizers = {Randomizers(va[v].active.sent_ballot)}]
          /\ UNCHANGED <<receipts, network>>
       \/ /\ ~BulletinChecks(v, bulletin)
          /\ Fail(v)

-------------------------------------------------------------------------------
(* Casting.                                                                *)

StartCasting(v) ==
    \E auth \in va[v].authorization, key \in va[v].keys, tracker \in va[v].tracker :
        /\ Activate(v, AwaitingConfirmation(tracker))
        /\ Send(CastReqMsg(v, [auth |-> auth, ballot_tracker |-> tracker,
                               signed |-> key = auth.voter_verifying_key]))
        /\ UNCHANGED receipts

(* Mutant of ConfirmationChecks: not the tracker of the request.           *)
ConfirmationOfAnyBallot(v, msg) == msg.ballot_cast_tracker # NoHash

(* perform_cast_confirmation_checks; a refusal is not checked at all.      *)
ConfirmationChecks(v, msg) ==
    /\ msg.ballot_sub_tracker = va[v].active.tracker
    /\ msg.ballot_cast_tracker # NoHash

CastConf(v, msg, signed) ==
    /\ In(v, "AwaitingConfirmation")
    /\ msg.type = "CastConf"
    /\ \/ /\ msg.ok /\ signed /\ ConfirmationChecks(v, msg)
          /\ Activate(v, Idle)
          /\ receipts' = receipts \cup
                {[voter |-> v, tracker |-> va[v].active.tracker,
                  cast_tracker |-> msg.ballot_cast_tracker]}
          /\ UNCHANGED network
       \/ /\ ~(msg.ok /\ signed /\ ConfirmationChecks(v, msg))
          /\ Fail(v)

-------------------------------------------------------------------------------
(* Checking.  Its outcomes do not pass through handle_state_updates: the   *)
(* sub-actor stays as it is, whatever it put out.                          *)

StartBallotCheck(v) ==
    \E key \in va[v].keys, tracker \in va[v].tracker, randomizers \in va[v].randomizers :
        /\ Activate(v, AwaitingRequest(key, tracker, randomizers))
        /\ UNCHANGED <<receipts, network>>

(* perform_forwarded_check_request_checks                                  *)
ForwardedRequestChecks(v, request) ==
    request.signed /\ request.tracker = va[v].active.tracker

(* Mutant of AwaitsRequest: a later request replaces the one shown.        *)
AwaitsAnyRequest(v) == In(v, "AwaitingRequest") \/ In(v, "AwaitingUserApproval")

AwaitsRequest(v) == In(v, "AwaitingRequest")

FwdCheckReq(v, msg, signed) ==
    /\ AwaitsRequest(v)
    /\ msg.type = "FwdCheckReq"
    /\ signed /\ ForwardedRequestChecks(v, msg.message)
    /\ Activate(v, AwaitingUserApproval(va[v].active, msg.message))
    /\ UNCHANGED <<receipts, network>>

(* Mutant of Randomizer: the key of the request, not that of the voter.    *)
RandomizerOfRequest(checking) ==
    [message |-> checking.request,
     encrypted_randomizers |-> checking.randomizers,
     ballot_style |-> checking.randomizers.ballot_style,
     public_key |-> checking.request.public_sign_key,
     election |-> "election", signed |-> TRUE]

(* create_randomizer_message: the randomizers, encrypted to the key of the *)
(* request that was shown to the user.                                     *)
Randomizer(checking) ==
    [message |-> checking.request,
     encrypted_randomizers |-> checking.randomizers,
     ballot_style |-> checking.randomizers.ballot_style,
     public_key |-> checking.key,
     election |-> "election", signed |-> TRUE]

(* UserApproval(true); a denial changes nothing.                           *)
UserApproval(v) ==
    /\ In(v, "AwaitingUserApproval")
    /\ Send(RandomizerMsg(v, Randomizer(va[v].active)))
    /\ UNCHANGED <<va, receipts>>

-------------------------------------------------------------------------------
(* A message of the active subprotocol that its sub-state does not wait    *)
(* for; one for a check changes nothing.                                   *)
InvalidVAInput(v, msg) ==
    /\ \/ /\ va[v].active.state \in AUTHENTICATION
          /\ \/ msg.type = "AuthServiceToken" /\ ~In(v, "AwaitingToken")
             \/ msg.type = "ConfirmAuthorization" /\ ~In(v, "AwaitingAuthorization")
       \/ In(v, "AwaitingBulletin") /\ msg.type = "ReturnBallotTracker"
    /\ Fail(v)

(* handle_subprotocol_input: a message from the network.                   *)
VAReceive(v, msg, signed, now) ==
    \/ AuthServiceToken(v, msg, signed)
    \/ ConfirmAuthorization(v, msg, signed, now)
    \/ ReturnBallotTracker(v, msg, signed)
    \/ CastConf(v, msg, signed)
    \/ FwdCheckReq(v, msg, signed)
    \/ InvalidVAInput(v, msg)
===============================================================================
