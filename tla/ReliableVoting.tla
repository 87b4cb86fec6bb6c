---------------------------- MODULE ReliableVoting ----------------------------
(***************************************************************************)
(* Election day when nothing goes wrong: the network delivers every        *)
(* message once, to the one it is for, after any delay and in any order;   *)
(* the hosts route as they should; and voters do what they are asked to,   *)
(* and take no other step before it is done.  What voters may expect then. *)
(***************************************************************************)
EXTENDS VotingProtocol

VARIABLES delivered     \* the messages that were delivered

reliableVars == <<vars, delivered>>

ReliableInit == Init /\ delivered = {}

-------------------------------------------------------------------------------
(* The network.                                                            *)

Deliver(msg) ==
    /\ msg \in network \ delivered
    /\ delivered' = delivered \cup {msg}

ForVA(v, msg) ==
    \/ /\ msg.type \in {"AuthServiceToken", "ConfirmAuthorization"}
       /\ msg.voter_verifying_key[1] = v
    \/ /\ msg.type \in {"ReturnBallotTracker", "CastConf", "FwdCheckReq"}
       /\ msg.to = v

(* An authorization is not valid in the second in which it was issued: the *)
(* network takes longer than that.                                         *)
IssuedNow(msg) ==
    /\ msg.type = "ConfirmAuthorization"
    /\ \E auth \in msg.voter_authorization : auth.timestamp = clock

ReliableVADelivery(v, msg) ==
    /\ ForVA(v, msg)
    /\ ~IssuedNow(msg)
    /\ VADelivery(v, msg)

ReliableEASDelivery(msg, id) ==
    /\ msg.type = "AuthFinish" =>
          id \in DOMAIN requests /\ requests[id].voter_verifying_key = msg.public_key
    /\ EASDelivery(msg, id)

ReliableDelivery ==
    \E msg \in network :
        /\ Deliver(msg)
        /\ \/ \E v \in VAs : ReliableVADelivery(v, msg)
           \/ \E id \in 0..next_available_id : ReliableEASDelivery(msg, id)
           \/ ASDelivery(msg)
           \/ DBBDelivery(msg)
           \/ \E b \in BCAs : msg.type = "FwdRandomizer" /\ msg.to = b /\ BCADelivery(b, msg)

-------------------------------------------------------------------------------
(* The voters and the hosts.                                               *)

CheckAnswered(v) ==
    /\ In(v, "AwaitingUserApproval")
    /\ RandomizerMsg(v, Randomizer(va[v].active)) \in network

ReadyForCommand(v) == va[v].active = Idle \/ CheckAnswered(v)

(* The ballot box accepts no check of a ballot that was cast, and the      *)
(* check application is not told.                                          *)
NotCast(v) == \A receipt \in receipts : receipt.voter # v

LoggedIn(v) ==
    In(v, "AwaitingFinishCommand") /\ as_sessions[va[v].active.token] = v

ConnectionOf(b, v) ==
    /\ sessions[b].state = "AwaitingVAConnection"
    /\ \E i \in GetBulletin(board, sessions[b].check_req.tracker) :
          board[i].contents.ballot.auth.voter_pseudonym = v

(* A voter who waits for the request of check application b.               *)
StartsCheckFor(b, v) ==
    /\ In(v, "AwaitingRequest")
    /\ StartCheckOfBallot(b)
    /\ bca'[b].active.sent_check_req_msg.tracker = va[v].active.tracker

HostStep ==
    \/ \E v \in VAs :
          \/ ReadyForCommand(v) /\ VoterCommand(v)
          \/ ReadyForCommand(v) /\ NotCast(v) /\ VoterStartsCheck(v)
          \/ VoterLogsIn(v)
          \/ LoggedIn(v) /\ VoterFinishes(v)
          \/ VoterApproves(v)
          \/ VAReadsBoard(v)
          \/ \E b \in BCAs :
                \/ VoterCompares(v, b)
                \/ ConnectionOf(b, v) /\ DBBConnects(b, v)
                \/ StartsCheckFor(b, v)
    \/ \E b \in BCAs : BCADecision(b)
    \/ (\E msg \in network : IssuedNow(msg)) /\ Tick

ReliableNext ==
    \/ ReliableDelivery
    \/ HostStep /\ UNCHANGED delivered

(* Nobody takes for ever: as long as there is something to do, it is done. *)
(* This is enough, for every day ends.                                     *)
FairSpec ==
    /\ ReliableInit
    /\ [][ReliableNext]_reliableVars
    /\ WF_reliableVars(ReliableNext)

-------------------------------------------------------------------------------
(* Properties.                                                             *)

(* A registered voter who means to cast a ballot is told in the end that   *)
(* it is cast: authentication, submission and casting, with a ballot check *)
(* before or after the cast, never leave a voter with nothing to do but    *)
(* give up.                                                                *)
VotersAreServed ==
    \A v \in Registered :
        left.StartCasting[v] > 0 ~> \E receipt \in receipts : receipt.voter = v

(* Whoever asks to be authenticated is answered, refused voters as well.   *)
AuthenticationsEnd ==
    \A v \in VAs : va[v].active.state \in AUTHENTICATION ~> va[v].active = Idle

(* The ballot box sent on the randomizers for the check that b has begun.   *)
RandomizersForwarded(b) ==
    \E msg \in network :
        /\ msg.type = "FwdRandomizer" /\ msg.to = b
        /\ msg.message.message = bca[b].active.sent_check_req_msg

(* The ballot of b's check was cast before its randomizers arrived at the  *)
(* ballot box, where ballot-check-spec.md has a "Ballot Now Cast Error".   *)
CastBeforeRandomizers(b) ==
    /\ bca[b].active.state = "DecryptAndDisplayBallot"
    /\ ~RandomizersForwarded(b)
    /\ \E i \in DOMAIN board :
          board[i].type = CAST /\ board[i].contents.ballot = bca[b].active.ballot

(* A ballot check gets as far as showing the ballot: the request finds the *)
(* voter, the voter's answer the check, and the randomizers the ballot,    *)
(* unless the voter casts that ballot before the answer has arrived at the *)
(* ballot box.  Randomizers on their way to the check show the ballot even *)
(* if it is cast meanwhile.  (What the ballot box does in the case that is *)
(* excepted is the matter of NoRandomizersOnceCast.)                       *)
ChecksShowTheBallot ==
    \A b \in BCAs :
        bca[b].active.state = "DecryptAndDisplayBallot"
            ~> \/ bca[b].active.state = "CheckBallotCastOrNotStatus"
               \/ CastBeforeRandomizers(b)
===============================================================================
