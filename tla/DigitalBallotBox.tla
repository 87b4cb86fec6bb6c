--------------------------- MODULE DigitalBallotBox ---------------------------
(***************************************************************************)
(* The Digital Ballot Box actor (digital_ballot_box/top_level_actor.rs)    *)
(* and its three sub-actors: submission and casting, which run to          *)
(* completion inside one input, and checking, whose sessions stay in       *)
(* active_sessions between inputs.                                         *)
(*                                                                         *)
(* The host may hand the actor any message on any connection at any time,  *)
(* so that loss, duplication and reordering on the network are all         *)
(* orders of these actions.  A crash loses the sessions, not the board.    *)
(*                                                                         *)
(* A signature is the Boolean "signed": it verifies, or not, against the   *)
(* key the code verifies it with.  A ciphertext is a name and the          *)
(* pseudonym its Naor-Yung proof is bound to.                              *)
(***************************************************************************)
EXTENDS Integers, Sequences, FiniteSets, BulletinBoard

CONSTANTS
    Connections,    \* connection identifiers of the host
    Auths,          \* voter authorizations: [voter_pseudonym, voter_verifying_key,
                    \*   ballot_style, timestamp, election, eas_signed]
    Ciphertexts,    \* ballot ciphertexts: [id, pseudonym]
    Styles,         \* ballot styles
    Keys,           \* verifying keys of voters and of ballot check applications
    EncKeys,        \* encryption keys of ballot check applications
    Encryptions,    \* randomizers, encrypted to such a key
    Elections,      \* election hashes that occur in messages
    ElectionHash,   \* the one this DBB serves
    CustomTypes,    \* names of bulletin types the host posts
    Times,          \* values of the system clock
    MaxCustom       \* bound: custom bulletins on the board

ASSUME ConstantsAssumption ==
    /\ ElectionHash \in Elections
    /\ Times \subseteq Nat
    /\ Times # {}
    /\ MaxCustom \in Nat

VARIABLES
    board,      \* bulletin_board: the sequence of bulletins
    sessions,   \* active_sessions: the checking session of each connection
    clock,      \* SystemTime::now(), in seconds; it need not be monotonic
    output      \* the ActorOutput (or Err) of the last input

vars == <<board, sessions, clock, output>>

-------------------------------------------------------------------------------
(* Messages.                                                               *)

SignedBallots == [auth : Auths, ciphertext : Ciphertexts,
                  ballot_style : Styles, signed : BOOLEAN]

Trackers == {Hash(board[i]) : i \in DOMAIN board} \cup {NoHash}

CastReqs == [auth : Auths, ballot_tracker : Trackers, signed : BOOLEAN]

CheckReqs == [tracker : Trackers, public_enc_key : EncKeys, public_sign_key : Keys,
              election : Elections, signed : BOOLEAN]

Randomizers == [message : CheckReqs, encrypted_randomizers : Encryptions,
                ballot_style : Styles, public_key : Keys,
                election : Elections, signed : BOOLEAN]

NoSession == [state |-> "None"]
NoOutput == [type |-> "None"]
Error == [type |-> "Error"]

(* A stored checking session: handle_check_request has accepted a request. *)
Session(state, check_req) == [state |-> state, check_req |-> check_req]

Init ==
    /\ board = << >>
    /\ sessions = [c \in Connections |-> NoSession]
    /\ clock \in Times
    /\ output = NoOutput

-------------------------------------------------------------------------------
(* Posting to the board.                                                   *)

(* Mutant of Bulletin: the timestamp in milliseconds.                      *)
MillisBulletin(type, contents) ==
    [type |-> type, contents |-> contents,
     timestamp |-> 1000 * clock, prev |-> LastBulletinHash(board)]

Bulletin(type, contents) ==
    [type |-> type, contents |-> contents,
     timestamp |-> clock, prev |-> LastBulletinHash(board)]

(* append_bulletin_atomic of a bulletin whose build succeeded, with the    *)
(* reply the caller sends for the new tracker.                             *)
Post(bulletin, reply) ==
    /\ board' = AppendBulletin(board, bulletin)
    /\ output' = reply

Refuse(reply) ==
    /\ output' = reply
    /\ UNCHANGED board

(* VoterAuthorization::validate                                            *)
ValidAuthorization(auth) ==
    /\ auth.eas_signed
    /\ auth.election = ElectionHash
    /\ auth.timestamp < clock

NoPreviousCast(auth) == OfVoter(board, CAST, auth.voter_pseudonym) = {}

-------------------------------------------------------------------------------
(* Ballot submission.                                                      *)

TrackerMsg(c, ok, tracker) ==
    [type |-> "ReturnBallotTracker", to |-> c, ok |-> ok, tracker |-> tracker]

(* Checks #1 to #4, then #5 and #6 inside append_bulletin_atomic.          *)
SubmissionChecks(ballot) ==
    /\ ballot.signed
    /\ ValidAuthorization(ballot.auth)
    /\ ballot.ciphertext.pseudonym = ballot.auth.voter_pseudonym
    /\ ballot.ballot_style = ballot.auth.ballot_style

(* Mutants of BuildSubmission: without one or the other of the checks.     *)
BuildSubmissionAfterCast(ballot) == ~HasCiphertext(board, ballot.ciphertext)
BuildSubmissionOfReplay(ballot) == NoPreviousCast(ballot.auth)

BuildSubmission(ballot) ==
    /\ NoPreviousCast(ballot.auth)
    /\ ~HasCiphertext(board, ballot.ciphertext)

SubmitSignedBallot(c, ballot) ==
    /\ sessions[c] = NoSession
    /\ \/ /\ SubmissionChecks(ballot)
          /\ BuildSubmission(ballot)
          /\ LET bulletin == Bulletin(SUBMISSION, [ballot |-> ballot])
             IN  Post(bulletin, TrackerMsg(c, TRUE, Hash(bulletin)))
       \/ /\ ~(SubmissionChecks(ballot) /\ BuildSubmission(ballot))
          /\ Refuse(TrackerMsg(c, FALSE, NoHash))
    /\ UNCHANGED <<sessions, clock>>

-------------------------------------------------------------------------------
(* Ballot casting.                                                         *)

CastConf(c, ok, sub_tracker, cast_tracker) ==
    [type |-> "CastConf", to |-> c, ok |-> ok,
     ballot_sub_tracker |-> sub_tracker, ballot_cast_tracker |-> cast_tracker]

CastChecks(req) == req.signed /\ ValidAuthorization(req.auth)

(* Check #3: the tracker names a submission made under this authorization. *)
ReferencedSubmission(req) ==
    {i \in GetBulletin(board, req.ballot_tracker) :
        /\ board[i].type = SUBMISSION
        /\ board[i].contents.ballot.auth = req.auth}

(* Check #5: its ballot is the voter's most recent submission.             *)
MostRecentSubmission(req, i) ==
    \E last \in OfVoter(board, SUBMISSION, req.auth.voter_pseudonym) :
        /\ \A j \in OfVoter(board, SUBMISSION, req.auth.voter_pseudonym) : j <= last
        /\ board[last].contents.ballot = board[i].contents.ballot

(* Mutants of BuildCast: without check #4, and without check #5.           *)
BuildSecondCast(req, i) ==
    i \in ReferencedSubmission(req) /\ MostRecentSubmission(req, i)
BuildCastOfOld(req, i) ==
    i \in ReferencedSubmission(req) /\ NoPreviousCast(req.auth)

BuildCast(req, i) ==
    /\ i \in ReferencedSubmission(req)
    /\ NoPreviousCast(req.auth)
    /\ MostRecentSubmission(req, i)

CastReq(c, req) ==
    /\ sessions[c] = NoSession
    /\ \/ /\ CastChecks(req)
          /\ \E i \in DOMAIN board :
                /\ BuildCast(req, i)
                /\ LET bulletin == Bulletin(CAST, [ballot |-> board[i].contents.ballot,
                                                   cast_intent |-> req])
                   IN  Post(bulletin, CastConf(c, TRUE, req.ballot_tracker, Hash(bulletin)))
       \/ /\ ~(CastChecks(req) /\ \E i \in DOMAIN board : BuildCast(req, i))
          /\ Refuse(CastConf(c, FALSE, req.ballot_tracker, NoHash))
    /\ UNCHANGED <<sessions, clock>>

-------------------------------------------------------------------------------
(* Ballot checking: a session per connection of a ballot check application.*)

(* process_input returned Err: "?" leaves after the session was taken out  *)
(* of the map and before it is put back.                                   *)
DropSession(c) ==
    /\ sessions' = [sessions EXCEPT ![c] = NoSession]
    /\ output' = Error
    /\ UNCHANGED <<board, clock>>

(* check_tracker_valid                                                     *)
TrackerValid(tracker) ==
    \E i \in GetBulletin(board, tracker) :
        /\ board[i].type = SUBMISSION
        /\ NoPreviousCast(board[i].contents.ballot.auth)

CheckRequestChecks(req) ==
    /\ req.signed
    /\ req.election = ElectionHash
    /\ TrackerValid(req.tracker)

CheckReq(c, req) ==
    /\ sessions[c] = NoSession
    /\ \/ /\ CheckRequestChecks(req)
          /\ sessions' = [sessions EXCEPT ![c] = Session("AwaitingVAConnection", req)]
          /\ output' = [type |-> "RequestVAConnection", to |-> c, tracker |-> req.tracker]
       \/ /\ ~CheckRequestChecks(req)
          /\ output' = Error
          /\ UNCHANGED sessions
    /\ UNCHANGED <<board, clock>>

ProvideVAConnection(c, va) ==
    \/ /\ sessions[c].state = "AwaitingVAConnection"
       /\ sessions' = [sessions EXCEPT ![c].state = "AwaitingRandomizers"]
       /\ output' = [type |-> "FwdCheckReq", to |-> va, message |-> sessions[c].check_req]
       /\ UNCHANGED <<board, clock>>
    \/ /\ sessions[c].state # "AwaitingVAConnection"
       /\ DropSession(c)

(* Mutant of RandomizerChecks: without check #6, of the public key.        *)
RandomizerChecksOfAnyKey(original, msg) ==
    /\ msg.signed
    /\ msg.election = ElectionHash
    /\ msg.message.tracker = original.tracker
    /\ msg.message.election = original.election
    /\ \E i \in GetBulletin(board, msg.message.tracker) :
          board[i].contents.ballot.auth.ballot_style = msg.ballot_style

(* Checks #3, #5 and #6 read the stored request and the submission.        *)
RandomizerChecks(original, msg) ==
    /\ msg.signed
    /\ msg.election = ElectionHash
    /\ msg.message.tracker = original.tracker
    /\ msg.message.election = original.election
    /\ \E i \in GetBulletin(board, msg.message.tracker) :
          /\ board[i].type = SUBMISSION
          /\ board[i].contents.ballot.auth.ballot_style = msg.ballot_style
          /\ board[i].contents.ballot.auth.voter_verifying_key = msg.public_key

(* A completed session is put back: its output is a message, not Success.  *)
Randomizer(c, msg) ==
    \/ /\ sessions[c].state = "AwaitingRandomizers"
       /\ RandomizerChecks(sessions[c].check_req, msg)
       /\ sessions' = [sessions EXCEPT ![c].state = "Complete"]
       /\ output' = [type |-> "FwdRandomizer", to |-> c, message |-> msg]
       /\ UNCHANGED <<board, clock>>
    \/ /\ ~(/\ sessions[c].state = "AwaitingRandomizers"
            /\ RandomizerChecks(sessions[c].check_req, msg))
       /\ DropSession(c)

(* Any message but a randomizer on a connection that has a session, and    *)
(* any message that cannot open a session on one that has none.            *)
UnexpectedMessage(c) == DropSession(c)

-------------------------------------------------------------------------------
(* Commands of the host.                                                   *)

CloseSession(c) ==
    /\ sessions' = [sessions EXCEPT ![c] = NoSession]
    /\ output' = [type |-> "SessionClosed", to |-> c]
    /\ UNCHANGED <<board, clock>>

ListSessions ==
    /\ output' = [type |-> "SessionList",
                  sessions |-> {c \in Connections : sessions[c] # NoSession}]
    /\ UNCHANGED <<board, sessions, clock>>

CustomOnBoard == {i \in DOMAIN board : board[i].type \notin BUILTIN_BULLETINS}

PostBulletin(type) ==
    /\ \/ /\ type \notin BUILTIN_BULLETINS
          /\ Cardinality(CustomOnBoard) < MaxCustom  \* bound
          /\ LET bulletin == Bulletin(type, [custom |-> type])
             IN  Post(bulletin, [type |-> "BulletinPosted", tracker |-> Hash(bulletin)])
       \/ /\ type \in BUILTIN_BULLETINS
          /\ Refuse(Error)
    /\ UNCHANGED <<sessions, clock>>

(* The actor is created anew over the surviving board.                     *)
Restart ==
    /\ sessions' = [c \in Connections |-> NoSession]
    /\ output' = NoOutput
    /\ UNCHANGED <<board, clock>>

SystemTime ==
    /\ clock' \in Times
    /\ output' = NoOutput
    /\ UNCHANGED <<board, sessions>>

-------------------------------------------------------------------------------
Next ==
    \/ \E c \in Connections :
          \/ \E ballot \in SignedBallots : SubmitSignedBallot(c, ballot)
          \/ \E req \in CastReqs : CastReq(c, req)
          \/ \E req \in CheckReqs : CheckReq(c, req)
          \/ \E msg \in Randomizers : Randomizer(c, msg)
          \/ UnexpectedMessage(c)
          \/ \E va \in Connections : ProvideVAConnection(c, va)
          \/ CloseSession(c)
    \/ \E type \in CustomTypes \cup BUILTIN_BULLETINS : PostBulletin(type)
    \/ ListSessions
    \/ Restart
    \/ SystemTime

Spec == Init /\ [][Next]_vars
-------------------------------------------------------------------------------
(* Properties.                                                             *)

Voters == {auth.voter_pseudonym : auth \in Auths}
Casts(v) == OfVoter(board, CAST, v)
Submissions(v) == OfVoter(board, SUBMISSION, v)

SessionStates == {"None", "AwaitingVAConnection", "AwaitingRandomizers", "Complete"}

(* A bulletin the actor can have built.                                    *)
IsBulletin(b) ==
    /\ b.type \in BUILTIN_BULLETINS \cup CustomTypes
    /\ b.type \in BUILTIN_BULLETINS => b.contents.ballot \in SignedBallots
    /\ b.type = CAST => b.contents.cast_intent.auth \in Auths
    /\ b.timestamp \in Times

(* Types: the board holds submissions, casts and custom bulletins of the   *)
(* actor's making; a session refers to a request the actor received.       *)
TypeOK ==
    /\ board \in Seq({board[i] : i \in DOMAIN board})
    /\ \A i \in DOMAIN board : IsBulletin(board[i])
    /\ sessions \in [Connections -> {NoSession} \cup
                        [state : SessionStates \ {"None"}, check_req : CheckReqs]]
    /\ clock \in Times

(* A voter has at most one ballot cast, whatever authorizations, replays   *)
(* and restarts come between (checks #4 of casting.rs and #5 of            *)
(* submission.rs, evaluated with the append).                              *)
AtMostOneCast ==
    \A v \in Voters : \A i, j \in Casts(v) : i = j

(* The ballot cast is one the voter submitted earlier, under the           *)
(* authorization of the cast request, and it stays the voter's most recent *)
(* submission (checks #3 and #5 of casting.rs, #5 of submission.rs).       *)
CastIsLatestSubmission ==
    \A v \in Voters : \A i \in Casts(v) : \E j \in Submissions(v) :
        /\ j < i
        /\ board[j].contents.ballot = board[i].contents.ballot
        /\ board[j].contents.ballot.auth = board[i].contents.cast_intent.auth
        /\ \A k \in Submissions(v) : k <= j

(* No ciphertext is submitted twice: a replayed submission, or a copy of   *)
(* it under another authorization, is refused (check #6 of submission.rs). *)
UniqueCiphertexts ==
    \A i, j \in DOMAIN board :
        (/\ board[i].type = SUBMISSION
         /\ board[j].type = SUBMISSION
         /\ board[i].contents.ballot.ciphertext = board[j].contents.ballot.ciphertext)
            => i = j

(* validate_chain accepts the board, and a tracker resolves to one         *)
(* bulletin at most, so that the tracker of a ballot identifies it.        *)
ChainIsValid ==
    /\ ValidateChain(board)
    /\ \A i, j \in DOMAIN board : Hash(board[i]) = Hash(board[j]) => i = j

(* Every session that waits for randomizers, or forwarded them, still has  *)
(* a request for a submission on the board; and the randomizers that leave *)
(* for a check application are signed with the key that submitted the very *)
(* ballot its session asked for, on the connection that asked.             *)
RandomizersAreTheSubmitters ==
    /\ \A c \in Connections : sessions[c] # NoSession =>
          \E i \in GetBulletin(board, sessions[c].check_req.tracker) :
              board[i].type = SUBMISSION
    /\ output.type = "FwdRandomizer" =>
          /\ sessions[output.to].state = "Complete"
          /\ \E i \in GetBulletin(board, sessions[output.to].check_req.tracker) :
                /\ board[i].type = SUBMISSION
                /\ board[i].contents.ballot.auth.voter_verifying_key =
                       output.message.public_key

(* What ballot-check-spec.md says of a randomizer message ("Ballot Now     *)
(* Cast Error"): none is forwarded for the ballot of a voter who has cast  *)
(* since the check was asked for.  checking.rs looks for a cast when the   *)
(* request arrives and not again.                                          *)
NoRandomizersOnceCast ==
    output.type = "FwdRandomizer" =>
        \A i \in GetBulletin(board, sessions[output.to].check_req.tracker) :
            Casts(board[i].contents.ballot.auth.voter_pseudonym) = {}

(* Once a voter has cast, no step, of that voter or of another, adds to or *)
(* changes what the board says of the voter, and no bulletin on the board  *)
(* is ever altered or removed.                                             *)
SealedAfterCast ==
    [][/\ \A v \in Voters : Casts(v) # {} =>
             /\ Casts(v)' = Casts(v)
             /\ Submissions(v)' = Submissions(v)
       /\ Len(board) <= Len(board')
       /\ \A i \in DOMAIN board : board'[i] = board[i]]_vars

-------------------------------------------------------------------------------
(* The board implements the ledger of voters: the latest submission and    *)
(* the cast ballot of a voter are read off the board.                      *)

NoBallot == [auth |-> "none"]
CiphertextOf(ballot) == ballot.ciphertext

Last(S) == CHOOSE i \in S : \A j \in S : j <= i
LatestBallot(S) == IF S = {} THEN NoBallot ELSE board[Last(S)].contents.ballot

Ledger == INSTANCE VoterLedger WITH
    Ballots <- SignedBallots,
    latest <- [v \in Voters |-> LatestBallot(Submissions(v))],
    cast <- [v \in Voters |-> LatestBallot(Casts(v))],
    used <- {board[i].contents.ballot.ciphertext :
                i \in {j \in DOMAIN board : board[j].type = SUBMISSION}}

(* The ballot box keeps the promise of the ledger of voters.               *)
ImplementsLedger == Ledger!Spec

===============================================================================
