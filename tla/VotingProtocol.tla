---------------------------- MODULE VotingProtocol ----------------------------
(***************************************************************************)
(* Election day: Voting Applications, the Election Administration Server   *)
(* with the Authentication Service, the Digital Ballot Box and Ballot      *)
(* Check Applications, over a network that loses, delays, repeats,         *)
(* reorders, misdirects and, where it may, spoils messages.                *)
(*                                                                         *)
(* A voter is known to the registry under the pseudonym "v" and logs in to *)
(* the AS with the token that the voter's own VA shows.                    *)
(***************************************************************************)
EXTENDS FiniteSets, ElectionAdminServer, AuthenticationService,
        VotingApplication, BallotCheckApplication

CONSTANTS
    Scenarios,  \* bound: how often each host may give each command, seconds
                \*   pass and the network spoils a signature; and whether
                \*   the voters start with an authorization
    Registered  \* the voters in the voter registration database

VARIABLES
    board, sessions, clock, output,     \* of the Digital Ballot Box
    left,       \* what is left of the bounds of the scenario
    compared    \* the BCA key each voter saw on the VA and on the BCA

dbbVars == <<board, sessions, output>>
vars == <<network, easVars, as_sessions, vaVars, bcaVars, dbbVars, clock, left, compared>>

(* What VAs and BCAs make: keys, authorizations for keys, ciphertexts.     *)
VoterKeys == VAs \X Nat
CheckKeys == BCAs \X Nat
VoterAuths ==
    [voter_pseudonym : VAs, voter_verifying_key : VoterKeys, ballot_style : {1},
     timestamp : Nat, election : {"election"}, eas_signed : {TRUE}]

DBB == INSTANCE DigitalBallotBox WITH
    Connections <- VAs \cup BCAs, Auths <- VoterAuths,
    Ciphertexts <- [id : VoterKeys, pseudonym : VAs], Styles <- {1},
    Keys <- VoterKeys \cup CheckKeys, EncKeys <- CheckKeys,
    Encryptions <- [id : VoterKeys, ballot_style : {1}],
    Elections <- {"election"}, ElectionHash <- "election",
    CustomTypes <- {}, Times <- Nat, MaxCustom <- 0

-------------------------------------------------------------------------------
InitialAuthorization(v) ==
    [voter_pseudonym |-> v, voter_verifying_key |-> <<v, 0>>, ballot_style |-> 1,
     timestamp |-> 0, election |-> "election", eas_signed |-> TRUE]

Init ==
    /\ network = {}
    /\ EASInit
    /\ ASInit
    /\ BCAInit
    /\ board = << >>
    /\ sessions = [c \in VAs \cup BCAs |-> DBB!NoSession]
    /\ output = DBB!NoOutput
    /\ compared = [v \in VAs |-> {}]
    /\ \E scenario \in Scenarios :
          /\ left = scenario.commands
          /\ clock = IF scenario.authorized THEN 1 ELSE 0
          /\ VAInit([v \in VAs |->
                IF scenario.authorized THEN {InitialAuthorization(v)} ELSE {}])

-------------------------------------------------------------------------------
(* Every actor but the DBB: the last output of the DBB is forgotten.       *)
DBBIdle == output' = DBB!NoOutput /\ UNCHANGED <<board, sessions>>

Spend(command, host) ==
    /\ left[command][host] > 0  \* bound
    /\ left' = [left EXCEPT ![command][host] = @ - 1]

(* Whether the signature of a message verifies on arrival.                 *)
Intact(signed) ==
    \/ signed /\ UNCHANGED left
    \/ ~signed /\ Spend("Spoil", "network")

(* The voters and the hosts of their applications.                         *)
VoterCommand(v) ==
    /\ \/ Spend("StartAuthentication", v) /\ StartAuthentication(v)
       \/ Spend("StartSubmission", v) /\ StartSubmission(v)
       \/ Spend("StartCasting", v) /\ StartCasting(v)
       \/ Spend("SetIdle", v) /\ SetIdle(v)
    /\ DBBIdle
    /\ UNCHANGED <<easVars, as_sessions, bcaVars, clock, compared>>

VoterStartsCheck(v) ==
    /\ Spend("StartBallotCheck", v)
    /\ StartBallotCheck(v)
    /\ compared' = [compared EXCEPT ![v] = {}]
    /\ DBBIdle
    /\ UNCHANGED <<easVars, as_sessions, bcaVars, clock>>

VoterLogsIn(v) ==
    /\ In(v, "AwaitingFinishCommand")
    /\ LogIn(va[v].active.token, v)
    /\ DBBIdle
    /\ UNCHANGED <<easVars, vaVars, bcaVars, clock, left, compared>>

VoterFinishes(v) ==
    /\ Finish(v)
    /\ DBBIdle
    /\ UNCHANGED <<easVars, as_sessions, bcaVars, clock, left, compared>>

(* The keys on the VA are those that BCA b shows.                          *)
VoterCompares(v, b) ==
    /\ In(v, "AwaitingUserApproval")
    /\ compared[v] = {}
    /\ bca[b].active.state = "DecryptAndDisplayBallot"
    /\ va[v].active.request.public_enc_key = bca[b].active.sent_check_req_msg.public_enc_key
    /\ compared' = [compared EXCEPT ![v] = {va[v].active.request.public_enc_key}]
    /\ DBBIdle
    /\ UNCHANGED <<network, easVars, as_sessions, vaVars, bcaVars, clock, left>>

VoterApproves(v) ==
    /\ compared[v] # {}
    /\ UserApproval(v)
    /\ DBBIdle
    /\ UNCHANGED <<easVars, as_sessions, bcaVars, clock, left, compared>>

VADelivery(v, msg) ==
    /\ \E signed \in BOOLEAN : Intact(signed) /\ VAReceive(v, msg, signed, clock)
    /\ DBBIdle
    /\ UNCHANGED <<easVars, as_sessions, bcaVars, clock, compared>>

VAReadsBoard(v) ==
    /\ In(v, "AwaitingBulletin")
    /\ \E i \in GetBulletin(board, va[v].active.tracker) : PBBData(v, board[i])
    /\ DBBIdle
    /\ UNCHANGED <<easVars, as_sessions, bcaVars, clock, left, compared>>

(* The EAS, its host, who looks up the voter, and the AS.  It is the host  *)
(* that says which request a message is for.                               *)
HostAnswer(msg) ==
    IF msg.biographical_info \in Registered
    THEN BiographicalInfoOkMsg(msg.id, msg.biographical_info, 1)
    ELSE BiographicalInfoInvalidMsg(msg.id)

EASDelivery(msg, id) ==
    /\ \/ /\ id = next_available_id
          /\ \E signed \in BOOLEAN : Intact(signed) /\ StartVoterAuthentication(msg, signed)
       \/ /\ msg.type = "AuthFinish"
          /\ id < next_available_id
          /\ \E signed \in BOOLEAN : Intact(signed) /\ HandleInput(id, msg, signed, clock)
       \/ /\ msg.type \in {"TokenReturn", "AuthServiceReport"}
          /\ id = msg.id
          /\ HandleInput(id, msg, TRUE, clock)
          /\ UNCHANGED left
       \/ /\ msg.type = "CheckBiographicalInfo"
          /\ id = msg.id
          /\ HandleInput(id, HostAnswer(msg), TRUE, clock)
          /\ UNCHANGED left
    /\ DBBIdle
    /\ UNCHANGED <<as_sessions, vaVars, bcaVars, clock, compared>>

EASAbort ==
    /\ Spend("AbortVoterAuthentication", "EAS")
    /\ \E id \in DOMAIN requests : AbortVoterAuthentication(id)
    /\ DBBIdle
    /\ UNCHANGED <<as_sessions, vaVars, bcaVars, clock, compared>>

ASDelivery(msg) ==
    /\ HandleInitAuthReq(msg) \/ HandleQuery(msg)
    /\ DBBIdle
    /\ UNCHANGED <<easVars, vaVars, bcaVars, clock, left, compared>>

(* The DBB and its host, who knows the connections.                        *)
DBBMessages == {"ReturnBallotTracker", "CastConf", "FwdCheckReq", "FwdRandomizer"}

DBBStep(step) ==
    /\ step
    /\ network' = network \cup {msg \in {output'} : msg.type \in DBBMessages}
    /\ UNCHANGED <<easVars, as_sessions, vaVars, bcaVars, left, compared>>

DBBDelivery(msg) ==
    DBBStep(
        \/ msg.type = "SubmitSignedBallot" /\ DBB!SubmitSignedBallot(msg.from, msg.ballot)
        \/ msg.type = "CastReq" /\ DBB!CastReq(msg.from, msg.req)
        \/ msg.type = "CheckReq" /\ DBB!CheckReq(msg.from, msg.req)
        \/ msg.type = "Randomizer" /\ \E b \in BCAs : DBB!Randomizer(b, msg.randomizer))

DBBConnects(b, v) == DBBStep(DBB!ProvideVAConnection(b, v))

(* The BCAs and their hosts, who read the public bulletin board.           *)
StartCheckOfBallot(b) ==
    /\ Spend("StartCheck", b)
    /\ \E i \in DOMAIN board : /\ board[i].type = SUBMISSION
                               /\ StartCheck(b, Hash(board[i]), board[i].contents.ballot)
    /\ DBBIdle
    /\ UNCHANGED <<easVars, as_sessions, vaVars, clock, compared>>

BCAAbort(b) ==
    /\ Spend("AbortSubprotocol", b)
    /\ AbortSubprotocol(b)
    /\ DBBIdle
    /\ UNCHANGED <<easVars, as_sessions, vaVars, clock, compared>>

BCADelivery(b, msg) ==
    /\ \E signed \in BOOLEAN :
          /\ Intact(signed)
          /\ FwdRandomizer(b, msg, signed) \/ InvalidCheckInput(b, msg)
    /\ DBBIdle
    /\ UNCHANGED <<easVars, as_sessions, vaVars, clock, compared>>

(* The bulletins of the voter may have been fetched a while ago.           *)
BulletinsOf(pseudonym, length) ==
    {board[i] : i \in {j \in 1..length :
        board[j].contents.ballot.auth.voter_pseudonym = pseudonym}}

BCADecision(b) ==
    /\ bca[b].active.state = "CheckBallotCastOrNotStatus"
    /\ \E decision \in {"Cast", "NotCast"}, length \in 0..Len(board) :
          CastDecision(b, decision,
              BulletinsOf(bca[b].active.ballot.auth.voter_pseudonym, length))
    /\ DBBIdle
    /\ UNCHANGED <<easVars, as_sessions, vaVars, clock, left, compared>>

Tick ==
    /\ Spend("Tick", "clock")
    /\ clock' = clock + 1
    /\ requests' = Aged
    /\ DBBIdle
    /\ UNCHANGED <<network, next_available_id, as_sessions, vaVars, bcaVars, compared>>

Next ==
    \/ \E v \in VAs :
          \/ VoterCommand(v)
          \/ VoterStartsCheck(v)
          \/ VoterLogsIn(v)
          \/ VoterFinishes(v)
          \/ VoterApproves(v)
          \/ VAReadsBoard(v)
          \/ \E msg \in network : VADelivery(v, msg)
          \/ \E b \in BCAs : VoterCompares(v, b) \/ DBBConnects(b, v)
    \/ \E msg \in network :
          \/ \E id \in 0..next_available_id : EASDelivery(msg, id)
          \/ ASDelivery(msg)
          \/ DBBDelivery(msg)
    \/ EASAbort
    \/ \E b \in BCAs :
          \/ StartCheckOfBallot(b)
          \/ BCAAbort(b)
          \/ BCADecision(b)
          \/ \E msg \in network : BCADelivery(b, msg)
    \/ Tick

Spec == Init /\ [][Next]_vars
-------------------------------------------------------------------------------
(* Properties.                                                             *)

VAStates == {"Idle", "AwaitingRequest", "AwaitingUserApproval"}
                \cup AUTHENTICATION \cup SUBMITTING \cup CASTING

(* Types.  A request that the EAS keeps is one that still waits for        *)
(* something, for no longer than the timeout and the second in which it    *)
(* is noticed; and only voters log in.                                     *)
TypeOK ==
    /\ DOMAIN requests \subseteq 0..next_available_id - 1
    /\ \A id \in DOMAIN requests :
          /\ requests[id].state \in DOMAIN Expected
          /\ requests[id].voter_verifying_key[1] \in VAs
          /\ requests[id].idle \in 0..NetworkTimeout + 1
    /\ as_sessions \in Seq(VAs \cup {Nobody})
    /\ \A v \in VAs : /\ va[v].active.state \in VAStates
                         /\ va[v].authorization # {} => va[v].keys # {}
    /\ \A b \in BCAs : bca[b].active.state \in
          {"Idle", "DecryptAndDisplayBallot", "CheckBallotCastOrNotStatus"}
    /\ sessions \in [VAs \cup BCAs -> {DBB!NoSession} \cup
          [state : DBB!SessionStates, check_req : {msg.req : msg \in
              {m \in network : m.type = "CheckReq"}}]]

Authorizations ==
    UNION {msg.voter_authorization : msg \in
        {m \in network : m.type = "ConfirmAuthorization"}}

(* An authorization in a voter's name is for a key which that voter's VA   *)
(* made, and the voter has logged in to an AS session with a token that    *)
(* was handed out for this very key: late answers, expired and aborted     *)
(* requests and repeated messages never pair one voter's login with        *)
(* another voter's key.                                                    *)
AuthorizedKeyAuthenticated ==
    \A auth \in Authorizations :
        /\ auth.voter_verifying_key[1] = auth.voter_pseudonym
        /\ auth.voter_pseudonym \in Registered
        /\ \E token \in DOMAIN as_sessions :
              /\ as_sessions[token] = auth.voter_pseudonym
              /\ AuthServiceTokenMsg(token, auth.voter_verifying_key) \in network

(* What a VA keeps fits together, whatever replies to abandoned runs come  *)
(* in: it can sign for its authorization; and its tracker is that of a     *)
(* submission on the board, made by this voter, of the very ciphertext     *)
(* whose randomizers the VA would hand to a check application.             *)
SessionsAreConsistent ==
    \A v \in VAs :
        /\ \A auth \in va[v].authorization :
              auth.voter_pseudonym = v /\ va[v].keys = {auth.voter_verifying_key}
        /\ \A tracker \in va[v].tracker :
              \E i \in GetBulletin(board, tracker) :
                  /\ board[i].type = SUBMISSION
                  /\ board[i].contents.ballot.auth.voter_pseudonym = v
                  /\ va[v].randomizers = {Randomizers(board[i].contents.ballot)}

(* A voter who is told that the ballot is cast finds it on the board, as   *)
(* the ballot behind the tracker of that voter.                            *)
ConfirmedCastIsOnBoard ==
    \A receipt \in receipts :
        \E i \in GetBulletin(board, receipt.tracker),
           j \in GetBulletin(board, receipt.cast_tracker) :
              /\ board[i].type = SUBMISSION
              /\ board[j].type = CAST
              /\ board[j].contents.ballot = board[i].contents.ballot
              /\ board[j].contents.ballot.auth.voter_pseudonym = receipt.voter

(* A ballot check that ends well means what it says: the ballot that the   *)
(* BCA decrypted is on the board behind the tracker; and where the voter   *)
(* said it was cast, it is the one ballot the voter has cast, whenever the *)
(* bulletins were fetched.                                                 *)
ChecksAreSound ==
    \A verdict \in verdicts :
        /\ \E i \in GetBulletin(board, verdict.tracker) :
              board[i].contents.ballot = verdict.ballot
        /\ verdict.decision = "Cast" =>
              {board[i].contents.ballot : i \in
                  OfVoter(board, CAST, verdict.ballot.auth.voter_pseudonym)} = {verdict.ballot}

(* Randomizers only leave a VA encrypted to the key that its voter has     *)
(* compared with the BCA's, even if other check requests arrive between    *)
(* the comparison and the approval.                                        *)
OnlyComparedKeysGetRandomizers ==
    [][\A msg \in network' \ network : msg.type = "Randomizer" =>
          msg.randomizer.message.public_enc_key \in compared[msg.from]]_vars

(* A request that was purged, for its end, its age or on command, is never *)
(* live again, and never belongs to another voter.                         *)
RequestsAreNotReused ==
    [][\A id \in 0..next_available_id - 1 :
          id \in DOMAIN requests' =>
              /\ id \in DOMAIN requests
              /\ requests'[id].voter_verifying_key = requests[id].voter_verifying_key]_vars
===============================================================================
