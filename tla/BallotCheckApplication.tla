------------------------ MODULE BallotCheckApplication ------------------------
(***************************************************************************)
(* The Ballot Check Applications (BCA): the top-level actor                *)
(* (ballot_check_application/top_level_actor.rs) and the sub-actor of one  *)
(* ballot check (sub_actors/ballot_check.rs).                              *)
(*                                                                         *)
(* A BCA makes fresh keys for every check.  Its encryption key, and the    *)
(* context it encrypts under, go with its signing key: one name for all.   *)
(***************************************************************************)
EXTENDS Sequences, FiniteSets, BulletinBoard, VotingNetwork

CONSTANTS BCAs

VARIABLES
    bca,        \* the actor of each ballot check application
    verdicts    \* what BCAs confirmed: [tracker, ballot, decision]

bcaVars == <<bca, verdicts>>

-------------------------------------------------------------------------------
NoCheck == [state |-> "Idle"]

BCAInit ==
    /\ bca = [b \in BCAs |-> [active |-> NoCheck, fresh |-> 1]]
    /\ verdicts = {}

(* Success, Failure or AbortSubprotocol.                                   *)
EndCheck(b) ==
    /\ bca' = [bca EXCEPT ![b].active = NoCheck]
    /\ UNCHANGED network

CheckRequest(b, key, tracker) ==
    [tracker |-> tracker, public_enc_key |-> key, public_sign_key |-> key,
     election |-> "election", signed |-> TRUE]

(* StartBallotCheck, of a ballot whose signature and election hash are     *)
(* right (check_signed_ballot); it may replace a check.                    *)
StartCheck(b, tracker, ballot) ==
    LET key == <<b, bca[b].fresh>>
        request == CheckRequest(b, key, tracker)
    IN  /\ ballot.signed
        /\ bca' = [bca EXCEPT ![b] = [active |-> [state |-> "DecryptAndDisplayBallot",
                                                  sent_check_req_msg |-> request,
                                                  ballot |-> ballot],
                                      fresh |-> @.fresh + 1]]
        /\ Send(CheckReqMsg(b, request))
        /\ UNCHANGED verdicts

AbortSubprotocol(b) == bca[b].active # NoCheck /\ EndCheck(b) /\ UNCHANGED verdicts

(* check_fwd_randomizer_msg: encrypted to this BCA, in this very check, by *)
(* the voter who submitted the ballot.                                     *)
FwdRandomizerChecks(check, randomizer) ==
    /\ randomizer.message = check.sent_check_req_msg
    /\ randomizer.message.public_enc_key = check.sent_check_req_msg.public_enc_key
    /\ randomizer.public_key = check.ballot.auth.voter_verifying_key
    /\ randomizer.signed

(* decrypt_ballot: with the randomizers of the ciphertext, and no others.  *)
Decrypts(randomizers, ballot) == randomizers.id = ballot.ciphertext.id

FwdRandomizer(b, msg, signed) ==
    /\ bca[b].active.state = "DecryptAndDisplayBallot"
    /\ msg.type = "FwdRandomizer"
    /\ UNCHANGED verdicts
    /\ LET opens == /\ signed
                    /\ FwdRandomizerChecks(bca[b].active, msg.message)
                    /\ Decrypts(msg.message.encrypted_randomizers, bca[b].active.ballot)
       IN  \/ /\ opens
              /\ bca' = [bca EXCEPT ![b].active.state = "CheckBallotCastOrNotStatus"]
              /\ UNCHANGED network
           \/ ~opens /\ EndCheck(b)

Casts(bulletins) == {bulletin \in bulletins : bulletin.type = CAST}

(* Mutant of Confirmed: that some ballot was cast is enough.               *)
ConfirmedIfAnyIsCast(decision, bulletins, ballot) ==
    IF decision = "Cast" THEN Cardinality(Casts(bulletins)) = 1 ELSE Casts(bulletins) = {}

(* The voter's word against the bulletins of the voter.                    *)
Confirmed(decision, bulletins, ballot) ==
    IF decision = "Cast"
    THEN /\ Cardinality(Casts(bulletins)) = 1
         /\ \A bulletin \in Casts(bulletins) : bulletin.contents.ballot = ballot
    ELSE Casts(bulletins) = {}

CastDecision(b, decision, bulletins) ==
    /\ bca[b].active.state = "CheckBallotCastOrNotStatus"
    /\ EndCheck(b)
    /\ verdicts' = IF Confirmed(decision, bulletins, bca[b].active.ballot)
                   THEN verdicts \cup {[tracker |-> bca[b].active.sent_check_req_msg.tracker,
                                        ballot |-> bca[b].active.ballot, decision |-> decision]}
                   ELSE verdicts

(* An input that the sub-state does not wait for.                          *)
InvalidCheckInput(b, msg) ==
    /\ bca[b].active.state = "CheckBallotCastOrNotStatus"
    /\ msg.type = "FwdRandomizer"
    /\ EndCheck(b)
    /\ UNCHANGED verdicts
===============================================================================
