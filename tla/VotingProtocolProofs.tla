------------------------- MODULE VotingProtocolProofs -------------------------
(***************************************************************************)
(* Proofs about election day, for any voters, registry, ballot check       *)
(* applications, scenarios and bounds: types, the ballot box in the        *)
(* composition, request ids and compared keys.                             *)
(***************************************************************************)
EXTENDS VotingProtocol, TLAPS

(* The ballot box of the composition, with all that is proved of it.       *)
Box == INSTANCE DigitalBallotBoxProofs WITH
    Connections <- VAs \cup BCAs, Auths <- VoterAuths,
    Ciphertexts <- [id : VoterKeys, pseudonym : VAs], Styles <- {1},
    Keys <- VoterKeys \cup CheckKeys, EncKeys <- CheckKeys,
    Encryptions <- [id : VoterKeys, ballot_style : {1}],
    Elections <- {"election"}, ElectionHash <- "election",
    CustomTypes <- {}, Times <- Nat, MaxCustom <- 0

-------------------------------------------------------------------------------
(* Types.                                                                  *)

RequestsOK ==
    /\ next_available_id \in Nat
    /\ DOMAIN requests \subseteq 0..next_available_id - 1
    /\ \A id \in DOMAIN requests :
          requests[id] \in [state : DOMAIN Expected, voter_verifying_key : VoterKeys,
                            token : Nat, session_id : Nat, idle : 0..NetworkTimeout + 1]

KeptRandomizers == [id : VoterKeys, ballot_style : {1}]

(* What an actor of a VA runs, while the board resolves these trackers.    *)
VAActives(trackers, requests_for_checks) ==
    {Idle}
    \cup [state : {"AwaitingToken", "AwaitingAuthorization"}, key : VoterKeys]
    \cup [state : {"AwaitingFinishCommand"}, key : VoterKeys, token : Nat]
    \cup [state : {"AwaitingTracker"}, sent_ballot : Box!SignedBallots]
    \cup [state : {"AwaitingBulletin"}, sent_ballot : Box!SignedBallots, tracker : trackers]
    \cup [state : {"AwaitingConfirmation"}, tracker : trackers]
    \cup [state : {"AwaitingRequest"}, key : VoterKeys, tracker : trackers,
          randomizers : KeptRandomizers]
    \cup [state : {"AwaitingUserApproval"}, key : VoterKeys, tracker : trackers,
          randomizers : KeptRandomizers, request : requests_for_checks]

VARecords(trackers, requests_for_checks) ==
    [active : VAActives(trackers, requests_for_checks),
     authorization : SUBSET VoterAuths, keys : SUBSET VoterKeys,
     tracker : SUBSET trackers, randomizers : SUBSET KeptRandomizers, fresh : Nat]

VAsOK == va \in [VAs -> VARecords(Box!Trackers, Box!CheckReqs)]

BCARecords(requests_for_checks) ==
    [active : {NoCheck} \cup
         [state : {"DecryptAndDisplayBallot", "CheckBallotCastOrNotStatus"},
          sent_check_req_msg : requests_for_checks, ballot : Box!SignedBallots],
     fresh : Nat]

BCAsOK == bca \in [BCAs -> BCARecords(Box!CheckReqs)]

MessageOK(msg) ==
    /\ msg.type = "AuthReq" => msg.voter_verifying_key \in VoterKeys
    /\ msg.type = "AuthServiceToken" => msg.token \in Nat
    /\ msg.type = "ConfirmAuthorization" => msg.voter_authorization \in SUBSET VoterAuths
    /\ msg.type = "SubmitSignedBallot" => msg.from \in VAs /\ msg.ballot \in Box!SignedBallots
    /\ msg.type = "CastReq" => msg.from \in VAs /\ msg.req \in Box!CastReqs
    /\ msg.type = "CheckReq" => msg.from \in BCAs /\ msg.req \in Box!CheckReqs
    /\ msg.type = "Randomizer" => msg.from \in VAs /\ msg.randomizer \in Box!Randomizers
    /\ msg.type = "ReturnBallotTracker" => msg.tracker \in Box!Trackers
    /\ msg.type = "FwdCheckReq" => msg.message \in Box!CheckReqs
    /\ msg.type = "TokenReturn" => /\ msg.token \in DOMAIN as_sessions
                                   /\ msg.session_id \in DOMAIN as_sessions
    /\ msg.type = "AuthServiceQuery" => msg.session_id \in DOMAIN as_sessions
    /\ msg.type = "AuthServiceReport" /\ msg.authenticated => msg.biographical_info \in VAs
    /\ msg.type = "CheckBiographicalInfo" => msg.biographical_info \in VAs

Types ==
    /\ Box!TypeOK
    /\ RequestsOK
    /\ as_sessions \in Seq(VAs \cup {Nobody})
    /\ \A id \in DOMAIN requests : requests[id].state # "ReceiveTokenFromAS" =>
          requests[id].session_id \in DOMAIN as_sessions
    /\ VAsOK
    /\ BCAsOK
    /\ compared \in [VAs -> SUBSET CheckKeys]
    /\ \A msg \in network : MessageOK(msg)
    /\ \A c \in VAs \cup BCAs : sessions[c] # Box!NoSession =>
          \E msg \in network : msg.type = "CheckReq" /\ msg.req = sessions[c].check_req

-------------------------------------------------------------------------------
(* A key stays compared until the next check starts.                       *)
ComparedIsRequested ==
    \A v \in VAs : /\ In(v, "AwaitingRequest") => compared[v] = {}
                   /\ In(v, "AwaitingUserApproval") =>
                        compared[v] \subseteq {va[v].active.request.public_enc_key}

-------------------------------------------------------------------------------
(* The steps of the actors.                                                *)

VAActs(v) ==
    \/ StartAuthentication(v) \/ StartSubmission(v) \/ StartCasting(v) \/ SetIdle(v)
    \/ Finish(v)
    \/ UserApproval(v) /\ compared[v] # {}
    \/ \E i \in GetBulletin(board, va[v].active.tracker) : PBBData(v, board[i])
    \/ \E msg \in network, signed \in BOOLEAN : VAReceive(v, msg, signed, clock)

VAStep(v) ==
    /\ \/ VAActs(v) /\ UNCHANGED compared
       \/ StartBallotCheck(v) /\ compared' = [compared EXCEPT ![v] = {}]
    /\ DBBIdle
    /\ UNCHANGED <<requests, next_available_id, as_sessions, bca, verdicts, clock>>

(* What a step makes of the requests of the EAS: those that are still live *)
(* are as they were, but for one.                                          *)
Same(id) ==
    /\ id \in DOMAIN requests
    /\ requests'[id] \in [state : {requests[id].state},
                          voter_verifying_key : {requests[id].voter_verifying_key},
                          token : {requests[id].token},
                          session_id : {requests[id].session_id},
                          idle : 0..NetworkTimeout + 1]

OnlyChanged(id, request) ==
    \A i \in DOMAIN requests' : IF i = id THEN requests'[i] = request ELSE Same(i)

Starts(msg) ==
    /\ msg.type = "AuthReq"
    /\ next_available_id' = next_available_id + 1
    /\ OnlyChanged(next_available_id,
           Request("ReceiveTokenFromAS", msg.voter_verifying_key, NoToken, NoToken))
    /\ Send(InitAuthReqMsg(next_available_id))

TakesToken(msg) ==
    /\ msg.type = "TokenReturn"
    /\ Waiting(msg.id, "ReceiveTokenFromAS")
    /\ UNCHANGED next_available_id
    /\ LET key == requests[msg.id].voter_verifying_key
       IN  /\ OnlyChanged(msg.id,
                  Request("ReceiveAuthFinishMsg", key, msg.token, msg.session_id))
           /\ Send(AuthServiceTokenMsg(msg.token, key))

TakesFinish(id) ==
    /\ Waiting(id, "ReceiveAuthFinishMsg")
    /\ UNCHANGED next_available_id
    /\ OnlyChanged(id, [requests[id] EXCEPT !.state = "CheckReplyFromAS", !.idle = 0])
    /\ Send(AuthServiceQueryMsg(id, requests[id].session_id))

TakesReport(msg) ==
    /\ msg.type = "AuthServiceReport"
    /\ Waiting(msg.id, "CheckReplyFromAS")
    /\ ReportChecks(requests[msg.id], msg)
    /\ UNCHANGED next_available_id
    /\ OnlyChanged(msg.id,
           [requests[msg.id] EXCEPT !.state = "VerifyBiographicalInfo", !.idle = 0])
    /\ Send(CheckBiographicalInfoMsg(msg.id, msg.biographical_info))

Grants(msg) ==
    /\ msg.type = "CheckBiographicalInfo"
    /\ Waiting(msg.id, "VerifyBiographicalInfo")
    /\ msg.biographical_info \in Registered
    /\ UNCHANGED next_available_id
    /\ \A i \in DOMAIN requests' : Same(i)
    /\ LET key == requests[msg.id].voter_verifying_key
           info == BiographicalInfoOkMsg(msg.id, msg.biographical_info, 1)
       IN  Send(ConfirmAuthorizationMsg(key, TRUE, {VoterAuthorization(info, key, clock)}))

Drops ==
    /\ next_available_id' \in {next_available_id, next_available_id + 1}
    /\ \A i \in DOMAIN requests' : Same(i)
    /\ \/ UNCHANGED network
       \/ \E key \in VoterKeys : Send(ConfirmAuthorizationMsg(key, FALSE, {}))

EASStep ==
    /\ \/ \E msg \in network : Starts(msg) \/ TakesToken(msg) \/ TakesReport(msg) \/ Grants(msg)
       \/ \E id \in DOMAIN requests : TakesFinish(id)
       \/ Drops
    /\ DBBIdle
    /\ UNCHANGED <<as_sessions, va, receipts, bca, verdicts, clock, compared>>

LEMMA PurgedRequests ==
    ASSUME NEW reqs
    PROVE  /\ DOMAIN Purged(reqs) \subseteq DOMAIN reqs
           /\ \A id \in DOMAIN Purged(reqs) :
                 /\ Purged(reqs)[id] = reqs[id]
                 /\ reqs[id].state # "Completed"
  BY DEF Purged

LEMMA AllSame ==
    ASSUME RequestsOK
    PROVE  /\ \A i \in DOMAIN requests : i \in DOMAIN requests' /\ requests'[i] = requests[i] => Same(i)
           /\ \A i \in DOMAIN requests : requests[i] \in [state : {requests[i].state},
                          voter_verifying_key : {requests[i].voter_verifying_key},
                          token : {requests[i].token},
                          session_id : {requests[i].session_id},
                          idle : 0..NetworkTimeout + 1]
  BY DEF RequestsOK, Same

LEMMA ProceedChanges ==
    ASSUME RequestsOK, NEW id \in DOMAIN requests, NEW request, Proceed(id, request)
    PROVE  /\ OnlyChanged(id, request)
           /\ request.state = "Completed" => \A i \in DOMAIN requests' : Same(i)
           /\ UNCHANGED next_available_id
<1> DEFINE reqs == WithRequest(id, request)
<1>1. /\ DOMAIN reqs = DOMAIN requests
      /\ \A i \in DOMAIN requests : reqs[i] = IF i = id THEN request ELSE requests[i]
  BY DEF WithRequest
<1>2. requests' = Purged(reqs) /\ UNCHANGED next_available_id
  BY DEF Proceed
<1> HIDE DEF reqs
<1> QED
  BY <1>1, <1>2, PurgedRequests, AllSame DEF OnlyChanged

LEMMA CompleteChanges ==
    ASSUME RequestsOK, NEW id \in DOMAIN requests, Complete(id)
    PROVE  /\ \A i \in DOMAIN requests' : Same(i)
           /\ UNCHANGED next_available_id
<1> DEFINE request == [requests[id] EXCEPT !.state = "Completed"]
<1>1. request.state = "Completed"
  BY DEF RequestsOK
<1>2. Proceed(id, request)
  BY DEF Complete
<1> HIDE DEF request
<1> QED
  BY <1>1, <1>2, ProceedChanges

LEMMA InputChanges ==
    ASSUME RequestsOK, NEW id, NEW msg, NEW signed, HandleInput(id, msg, signed, clock)
    PROVE  \/ Drops
           \/ msg.type = "TokenReturn" /\ (msg.id = id => TakesToken(msg))
           \/ msg.type = "AuthFinish" /\ id \in DOMAIN requests /\ TakesFinish(id)
           \/ msg.type = "AuthServiceReport" /\ (msg.id = id => TakesReport(msg))
           \/ msg.type = "BiographicalInfoOk" /\ BiographicalInfoOk(id, msg, clock)
<1>1. CASE TokenReturn(id, msg)
  BY <1>1, ProceedChanges DEF TokenReturn, TakesToken, Waiting
<1>2. CASE AuthFinish(id, msg, signed)
  BY <1>2, ProceedChanges, CompleteChanges DEF AuthFinish, TakesFinish, Drops, Waiting
<1>3. CASE AuthServiceReport(id, msg)
  BY <1>3, ProceedChanges, CompleteChanges DEF AuthServiceReport, RefuseAuthorization, TakesReport, Drops, Waiting, RequestsOK
<1>4. CASE BiographicalInfoOk(id, msg, clock)
  BY <1>4 DEF BiographicalInfoOk
<1>5. CASE BiographicalInfoInvalid(id, msg)
  BY <1>5, CompleteChanges DEF BiographicalInfoInvalid, RefuseAuthorization, Drops, Waiting, RequestsOK
<1>6. CASE InvalidRequestInput(id, msg)
  BY <1>6, CompleteChanges DEF InvalidRequestInput, Drops
<1>7. CASE RequestNotFound(id)
  BY <1>7, PurgedRequests, AllSame DEF RequestNotFound, Drops
<1> QED
  BY <1>1, <1>2, <1>3, <1>4, <1>5, <1>6, <1>7 DEF HandleInput

LEMMA EASDeliveries ==
    ASSUME RequestsOK, NEW msg \in network, NEW id, EASDelivery(msg, id)
    PROVE  EASStep
<1>1. DBBIdle /\ UNCHANGED <<as_sessions, va, receipts, bca, verdicts, clock, compared>>
  BY DEF EASDelivery, vaVars, bcaVars
<1>2. ASSUME NEW signed \in BOOLEAN, StartVoterAuthentication(msg, signed)
      PROVE  EASStep
  <2> DEFINE request == Request("ReceiveTokenFromAS", msg.voter_verifying_key, NoToken, NoToken)
             reqs == WithRequest(next_available_id, request)
  <2>1. next_available_id \notin DOMAIN requests
    BY DEF RequestsOK
  <2>2. /\ DOMAIN reqs = DOMAIN requests \cup {next_available_id}
        /\ reqs[next_available_id] = request
        /\ \A i \in DOMAIN requests : reqs[i] = requests[i]
    BY <2>1 DEF WithRequest
  <2>3. CASE requests' = Purged(reqs) /\ Send(InitAuthReqMsg(next_available_id))
    <3> HIDE DEF reqs, request
    <3>1. OnlyChanged(next_available_id, request)
      BY <2>1, <2>2, <2>3, PurgedRequests, AllSame DEF OnlyChanged
    <3> QED
      BY <1>1, <1>2, <2>3, <3>1 DEF StartVoterAuthentication, EASStep, Starts, request
  <2>4. CASE requests' = Purged(requests) /\ UNCHANGED network
    BY <1>1, <1>2, <2>4, PurgedRequests, AllSame DEF StartVoterAuthentication, EASStep, Drops
  <2> QED
    BY <1>2, <2>3, <2>4 DEF StartVoterAuthentication, FreshId
<1>3. ASSUME msg.type = "AuthFinish", NEW signed \in BOOLEAN,
             HandleInput(id, msg, signed, clock)
      PROVE  EASStep
  BY <1>1, <1>3, InputChanges DEF EASStep
<1>4. ASSUME msg.type \in {"TokenReturn", "AuthServiceReport"}, id = msg.id,
             HandleInput(id, msg, TRUE, clock)
      PROVE  EASStep
  BY <1>1, <1>4, InputChanges DEF EASStep
<1>5. ASSUME msg.type = "CheckBiographicalInfo", id = msg.id,
             HandleInput(id, HostAnswer(msg), TRUE, clock)
      PROVE  EASStep
  <2>1. /\ HostAnswer(msg).type \in {"BiographicalInfoOk", "BiographicalInfoInvalid"}
        /\ HostAnswer(msg).type = "BiographicalInfoOk" =>
              /\ msg.biographical_info \in Registered
              /\ HostAnswer(msg) = BiographicalInfoOkMsg(msg.id, msg.biographical_info, 1)
    BY DEF HostAnswer, BiographicalInfoOkMsg, BiographicalInfoInvalidMsg
  <2>2. CASE Drops
    BY <1>1, <2>2 DEF EASStep
  <2>3. CASE /\ HostAnswer(msg).type = "BiographicalInfoOk"
             /\ BiographicalInfoOk(id, HostAnswer(msg), clock)
    <3>1. Grants(msg)
      BY <1>5, <2>1, <2>3, CompleteChanges DEF BiographicalInfoOk, Grants, Waiting
    <3> QED
      BY <1>1, <3>1 DEF EASStep
  <2> QED
    BY <1>5, <2>1, <2>2, <2>3, InputChanges
<1> QED
  BY <1>2, <1>3, <1>4, <1>5 DEF EASDelivery

LEMMA EASAborts ==
    ASSUME RequestsOK, EASAbort
    PROVE  EASStep
<1>1. PICK id \in DOMAIN requests : AbortVoterAuthentication(id)
  BY DEF EASAbort
<1> DEFINE reqs == [i \in DOMAIN requests \ {id} |-> requests[i]]
<1>2. /\ DOMAIN reqs \subseteq DOMAIN requests
      /\ \A i \in DOMAIN reqs : reqs[i] = requests[i]
  OBVIOUS
<1>3. requests' = Purged(reqs) /\ UNCHANGED <<next_available_id, network>>
  BY <1>1 DEF AbortVoterAuthentication
<1> HIDE DEF reqs
<1>4. \A i \in DOMAIN requests' : Same(i)
  BY <1>2, <1>3, PurgedRequests, AllSame
<1> QED
  BY <1>3, <1>4 DEF EASAbort, EASStep, Drops, vaVars, bcaVars

VALogsIn(v) ==
    /\ In(v, "AwaitingFinishCommand")
    /\ LogIn(va[v].active.token, v)
    /\ DBBIdle
    /\ UNCHANGED <<requests, next_available_id, va, receipts, bca, verdicts, clock, compared>>

ASStep ==
    /\ \E msg \in network : HandleInitAuthReq(msg) \/ HandleQuery(msg)
    /\ DBBIdle
    /\ UNCHANGED <<requests, next_available_id, va, receipts, bca, verdicts, clock, compared>>

Comparison(v, b) ==
    /\ VoterCompares(v, b)
    /\ DBBIdle
    /\ UNCHANGED <<network, requests, next_available_id, as_sessions, va, receipts, bca,
                   verdicts, clock>>

DBBActs ==
    \/ \E msg \in network :
          \/ msg.type = "SubmitSignedBallot" /\ DBB!SubmitSignedBallot(msg.from, msg.ballot)
          \/ msg.type = "CastReq" /\ DBB!CastReq(msg.from, msg.req)
          \/ msg.type = "CheckReq" /\ DBB!CheckReq(msg.from, msg.req)
          \/ msg.type = "Randomizer" /\ \E b \in BCAs : DBB!Randomizer(b, msg.randomizer)
    \/ \E b \in BCAs, v \in VAs : DBB!ProvideVAConnection(b, v)

BoxStep ==
    /\ DBBActs
    /\ network' = network \cup {msg \in {output'} : msg.type \in DBBMessages}
    /\ UNCHANGED <<requests, next_available_id, as_sessions, va, receipts, bca, verdicts,
                   compared>>

BCAActs(b) ==
    \/ StartCheckOfBallot(b)
    \/ AbortSubprotocol(b)
    \/ BCADecision(b)
    \/ \E msg \in network, signed \in BOOLEAN :
          FwdRandomizer(b, msg, signed) \/ InvalidCheckInput(b, msg)

BCAStep(b) ==
    /\ BCAActs(b)
    /\ DBBIdle
    /\ UNCHANGED <<requests, next_available_id, as_sessions, va, receipts, clock, compared>>

LEMMA StepsOfActors ==
    ASSUME RequestsOK, [Next]_vars
    PROVE  \/ UNCHANGED vars
           \/ \E v \in VAs : VAStep(v) \/ VALogsIn(v)
           \/ EASStep
           \/ ASStep
           \/ \E v \in VAs, b \in BCAs : Comparison(v, b)
           \/ BoxStep
           \/ \E b \in BCAs : BCAStep(b)
           \/ Tick
<1>1. ASSUME NEW v \in VAs, \/ VoterCommand(v) \/ VoterStartsCheck(v) \/ VoterFinishes(v)
                            \/ VoterApproves(v) \/ VAReadsBoard(v)
                            \/ \E msg \in network : VADelivery(v, msg)
      PROVE  VAStep(v)
  BY <1>1 DEF VoterCommand, VoterStartsCheck, VoterFinishes, VoterApproves, VAReadsBoard,
              VADelivery, VAStep, VAActs, easVars, bcaVars
<1>2. ASSUME NEW v \in VAs, VoterLogsIn(v)
      PROVE  VALogsIn(v)
  BY <1>2 DEF VoterLogsIn, VALogsIn, easVars, vaVars, bcaVars
<1>3. ASSUME NEW v \in VAs, NEW b \in BCAs, VoterCompares(v, b)
      PROVE  Comparison(v, b)
  BY <1>3 DEF VoterCompares, Comparison, easVars, vaVars, bcaVars
<1>4. ASSUME NEW v \in VAs, NEW b \in BCAs, DBBConnects(b, v)
      PROVE  BoxStep
  BY <1>4 DEF DBBConnects, DBBStep, BoxStep, DBBActs, easVars, vaVars, bcaVars
<1>5. ASSUME NEW msg \in network, ASDelivery(msg)
      PROVE  ASStep
  BY <1>5 DEF ASDelivery, ASStep, easVars, vaVars, bcaVars
<1>6. ASSUME NEW msg \in network, DBBDelivery(msg)
      PROVE  BoxStep
  BY <1>6 DEF DBBDelivery, DBBStep, BoxStep, DBBActs, easVars, vaVars, bcaVars
<1>7. ASSUME NEW b \in BCAs, \/ StartCheckOfBallot(b) \/ BCAAbort(b) \/ BCADecision(b)
                             \/ \E msg \in network : BCADelivery(b, msg)
      PROVE  BCAStep(b)
  BY <1>7 DEF StartCheckOfBallot, BCAAbort, BCADecision, BCADelivery, BCAStep, BCAActs,
              easVars, vaVars
<1> QED
  BY <1>1, <1>2, <1>3, <1>4, <1>5, <1>6, <1>7, EASDeliveries, EASAborts DEF Next

-------------------------------------------------------------------------------
(* The ballot box in the composition.                                      *)

(* DBB and Box are instances of the same definitions.                      *)
LEMMA SameActions ==
    ASSUME NEW c, NEW m
    PROVE  /\ DBB!SubmitSignedBallot(c, m) => Box!SubmitSignedBallot(c, m)
           /\ DBB!CastReq(c, m) => Box!CastReq(c, m)
           /\ DBB!CheckReq(c, m) => Box!CheckReq(c, m)
           /\ DBB!Randomizer(c, m) => Box!Randomizer(c, m)
           /\ DBB!ProvideVAConnection(c, m) => Box!ProvideVAConnection(c, m)
<1> USE DEF DBB!SUBMISSION, Box!SUBMISSION, DBB!CAST, Box!CAST,
            DBB!BUILTIN_BULLETINS, Box!BUILTIN_BULLETINS, DBB!Hash, Box!Hash,
            DBB!NoHash, Box!NoHash, DBB!LastBulletinHash, Box!LastBulletinHash,
            DBB!GetBulletin, Box!GetBulletin, DBB!OfVoter, Box!OfVoter,
            DBB!HasCiphertext, Box!HasCiphertext, DBB!Extends, Box!Extends,
            DBB!AppendBulletin, Box!AppendBulletin, DBB!NoSession,
            Box!NoSession, DBB!Error, Box!Error, DBB!Bulletin, Box!Bulletin,
            DBB!Post, Box!Post, DBB!Refuse, Box!Refuse, DBB!ValidAuthorization,
            Box!ValidAuthorization, DBB!NoPreviousCast, Box!NoPreviousCast
<1>1. DBB!SubmitSignedBallot(c, m) => Box!SubmitSignedBallot(c, m)
  BY DEF DBB!SubmitSignedBallot, Box!SubmitSignedBallot, DBB!TrackerMsg,
         Box!TrackerMsg, DBB!SubmissionChecks, Box!SubmissionChecks,
         DBB!BuildSubmission, Box!BuildSubmission
<1>2. DBB!CastReq(c, m) => Box!CastReq(c, m)
  BY DEF DBB!CastReq, Box!CastReq, DBB!CastConf, Box!CastConf, DBB!CastChecks,
         Box!CastChecks, DBB!ReferencedSubmission, Box!ReferencedSubmission,
         DBB!MostRecentSubmission, Box!MostRecentSubmission, DBB!BuildCast,
         Box!BuildCast
<1>3. DBB!CheckReq(c, m) => Box!CheckReq(c, m)
  BY DEF DBB!CheckReq, Box!CheckReq, DBB!TrackerValid, Box!TrackerValid,
         DBB!CheckRequestChecks, Box!CheckRequestChecks, DBB!Session,
         Box!Session
<1>4. DBB!Randomizer(c, m) => Box!Randomizer(c, m)
  BY DEF DBB!Randomizer, Box!Randomizer, DBB!RandomizerChecks,
         Box!RandomizerChecks, DBB!DropSession, Box!DropSession
<1>5. DBB!ProvideVAConnection(c, m) => Box!ProvideVAConnection(c, m)
  BY DEF DBB!ProvideVAConnection, Box!ProvideVAConnection, DBB!DropSession,
         Box!DropSession
<1> QED
  BY <1>1, <1>2, <1>3, <1>4, <1>5

LEMMA BoxSteps ==
    ASSUME Types, BoxStep
    PROVE  Box!Next
<1> DEFINE Connections == VAs \cup BCAs
<1>1. ASSUME NEW msg \in network, msg.type = "SubmitSignedBallot",
             DBB!SubmitSignedBallot(msg.from, msg.ballot)
      PROVE  Box!Next
  <2>1. msg.from \in Connections /\ msg.ballot \in Box!SignedBallots
    BY <1>1 DEF Types, MessageOK
  <2> QED
    BY <1>1, <2>1, SameActions DEF Box!Next
<1>2. ASSUME NEW msg \in network, msg.type = "CastReq", DBB!CastReq(msg.from, msg.req)
      PROVE  Box!Next
  <2>1. msg.from \in Connections /\ msg.req \in Box!CastReqs
    BY <1>2 DEF Types, MessageOK
  <2> QED
    BY <1>2, <2>1, SameActions DEF Box!Next
<1>3. ASSUME NEW msg \in network, msg.type = "CheckReq", DBB!CheckReq(msg.from, msg.req)
      PROVE  Box!Next
  <2>1. msg.from \in Connections /\ msg.req \in Box!CheckReqs
    BY <1>3 DEF Types, MessageOK
  <2> QED
    BY <1>3, <2>1, SameActions DEF Box!Next
<1>4. ASSUME NEW msg \in network, msg.type = "Randomizer",
             NEW b \in BCAs, DBB!Randomizer(b, msg.randomizer)
      PROVE  Box!Next
  <2>1. b \in Connections /\ msg.randomizer \in Box!Randomizers
    BY <1>4 DEF Types, MessageOK
  <2> QED
    BY <1>4, <2>1, SameActions DEF Box!Next
<1>5. ASSUME NEW b \in BCAs, NEW v \in VAs, DBB!ProvideVAConnection(b, v)
      PROVE  Box!Next
  <2>1. b \in Connections /\ v \in Connections
    OBVIOUS
  <2> QED
    BY <1>5, <2>1, SameActions DEF Box!Next
<1> QED
  BY <1>1, <1>2, <1>3, <1>4, <1>5 DEF BoxStep, DBBActs

LEMMA BoxMoves ==
    ASSUME Types, [Next]_vars
    PROVE  [Box!Next]_(Box!vars)
<1>1. clock \in Nat /\ RequestsOK
  BY DEF Types, Box!TypeOK
<1>2. CASE UNCHANGED vars
  BY <1>2 DEF vars, dbbVars, Box!vars
<1>3. CASE DBBIdle /\ clock' \in Nat
  BY <1>3 DEF DBBIdle, DBB!NoOutput, Box!NoOutput, Box!Next, Box!SystemTime
<1> QED
  BY <1>1, <1>2, <1>3, StepsOfActors, BoxSteps
  DEF VAStep, VALogsIn, EASStep, ASStep, Comparison, BCAStep, Tick

LEMMA BoxConstants ==
    /\ "election" \in {"election"}
    /\ Nat \subseteq Nat
    /\ Nat # {}
    /\ 0 \in Nat
  OBVIOUS

(* The board only grows, and what resolved goes on resolving.              *)
LEMMA BoardGrows ==
    ASSUME Types, [Next]_vars
    PROVE  /\ Box!TypeOK'
           /\ \A i \in DOMAIN board : i \in DOMAIN board' /\ board'[i] = board[i]
           /\ Box!Trackers \subseteq Box!Trackers'
           /\ Box!CheckReqs \subseteq Box!CheckReqs'
<1>1. Box!TypeOK /\ [Box!Next]_(Box!vars)
  BY BoxMoves DEF Types
<1>2. Box!TypeOK'
  BY <1>1, BoxConstants, Box!TypeStep
<1>3. \A i \in DOMAIN board : i \in DOMAIN board' /\ board'[i] = board[i]
  BY <1>1, BoxConstants, Box!BoardSteps, Box!Appended
<1>4. Box!Trackers \subseteq Box!Trackers'
  BY <1>3 DEF Box!Trackers
<1>5. Box!CheckReqs \subseteq Box!CheckReqs'
  BY <1>4 DEF Box!CheckReqs
<1> QED
  BY <1>2, <1>3, <1>4, <1>5

-------------------------------------------------------------------------------
(* Types are kept.                                                         *)

LEMMA TickOfRequests ==
    ASSUME RequestsOK, Tick
    PROVE  /\ \A id \in DOMAIN requests' : Same(id)
           /\ UNCHANGED next_available_id
<1>1. /\ DOMAIN requests' = DOMAIN requests
      /\ UNCHANGED next_available_id
      /\ \A id \in DOMAIN requests :
            requests'[id] = [requests[id] EXCEPT
                                !.idle = IF @ > NetworkTimeout THEN @ ELSE @ + 1]
  BY DEF Tick, Aged
<1> QED
  BY <1>1, EASAssumption DEF RequestsOK, Same

LEMMA TokensOfMessages ==
    ASSUME Types, NEW msg \in network, msg.type = "TokenReturn"
    PROVE  msg.token \in Nat /\ msg.session_id \in Nat /\ msg.session_id \in DOMAIN as_sessions
  BY DEF Types, MessageOK

LEMMA RequestsStep ==
    ASSUME Types, [Next]_vars
    PROVE  RequestsOK'
<1> USE DEF RequestsOK
<1>1. RequestsOK /\ \A msg \in network : MessageOK(msg)
  BY DEF Types
<1>2. CASE UNCHANGED <<requests, next_available_id>>
  BY <1>1, <1>2
<1>3. ASSUME NEW msg \in network, Starts(msg)
      PROVE  RequestsOK'
  BY <1>1, <1>3, EASAssumption DEF Starts, OnlyChanged, Same, Request, MessageOK, NoToken, Expected
<1>4. ASSUME NEW msg \in network, TakesToken(msg)
      PROVE  RequestsOK'
  BY <1>1, <1>4, TokensOfMessages, EASAssumption
  DEF TakesToken, OnlyChanged, Same, Request, Waiting, Expected
<1> DEFINE Live == [state : DOMAIN Expected, voter_verifying_key : VoterKeys,
                    token : Nat, session_id : Nat, idle : 0..NetworkTimeout + 1]
<1>0. /\ "CheckReplyFromAS" \in DOMAIN Expected
      /\ "VerifyBiographicalInfo" \in DOMAIN Expected
      /\ 0 \in 0..NetworkTimeout + 1
  BY EASAssumption DEF Expected
<1>5. ASSUME NEW id \in DOMAIN requests, TakesFinish(id)
      PROVE  RequestsOK'
  <2>1. [requests[id] EXCEPT !.state = "CheckReplyFromAS", !.idle = 0] \in Live
    BY <1>0, <1>1
  <2> QED
    BY <1>1, <1>5, <2>1 DEF TakesFinish, OnlyChanged, Same
<1>6. ASSUME NEW msg \in network, TakesReport(msg)
      PROVE  RequestsOK'
  <2> DEFINE request == [requests[msg.id] EXCEPT !.state = "VerifyBiographicalInfo", !.idle = 0]
  <2>1. request \in Live
    BY <1>0, <1>1, <1>6 DEF TakesReport, Waiting
  <2>2. /\ OnlyChanged(msg.id, request)
        /\ UNCHANGED next_available_id
        /\ msg.id \in DOMAIN requests
    BY <1>6 DEF TakesReport, Waiting
  <2> HIDE DEF request
  <2> QED
    BY <1>1, <2>1, <2>2 DEF OnlyChanged, Same
<1>7. ASSUME NEW msg \in network, Grants(msg)
      PROVE  RequestsOK'
  BY <1>1, <1>7 DEF Grants, Same
<1>8. CASE Drops
  BY <1>1, <1>8 DEF Drops, Same
<1>9. CASE Tick
  BY <1>1, <1>9, TickOfRequests DEF Same
<1> QED
  BY <1>1, <1>2, <1>3, <1>4, <1>5, <1>6, <1>7, <1>8, <1>9, StepsOfActors
  DEF vars, easVars, VAStep, VALogsIn, EASStep, ASStep, Comparison, BoxStep, BCAStep

LEMMA SessionsStep ==
    ASSUME Types, [Next]_vars
    PROVE  /\ as_sessions' \in Seq(VAs \cup {Nobody})
           /\ \A t \in DOMAIN as_sessions :
                 /\ t \in DOMAIN as_sessions'
                 /\ as_sessions[t] # Nobody => as_sessions'[t] = as_sessions[t]
<1>1. as_sessions \in Seq(VAs \cup {Nobody}) /\ RequestsOK
  BY DEF Types
<1>2. ASSUME NEW v \in VAs, VALogsIn(v)
      PROVE  /\ as_sessions' \in Seq(VAs \cup {Nobody})
             /\ \A t \in DOMAIN as_sessions :
                   /\ t \in DOMAIN as_sessions'
                   /\ as_sessions[t] # Nobody => as_sessions'[t] = as_sessions[t]
  BY <1>1, <1>2 DEF VALogsIn, LogIn
<1>3. CASE ASStep
  BY <1>1, <1>3 DEF ASStep, HandleInitAuthReq, HandleQuery
<1> QED
  BY <1>1, <1>2, <1>3, StepsOfActors
  DEF vars, VAStep, EASStep, Comparison, BoxStep, BCAStep, Tick

LEMMA SessionIdsStep ==
    ASSUME Types, [Next]_vars
    PROVE  \A id \in DOMAIN requests' : requests'[id].state # "ReceiveTokenFromAS" =>
              requests'[id].session_id \in DOMAIN as_sessions'
<1> DEFINE SessionKnown(id) == requests[id].state # "ReceiveTokenFromAS" =>
               requests[id].session_id \in DOMAIN as_sessions
           SessionsKnown == \A id \in DOMAIN requests' : requests'[id].state # "ReceiveTokenFromAS" =>
               requests'[id].session_id \in DOMAIN as_sessions'
<1> SUFFICES SessionsKnown
  OBVIOUS
<1>1. /\ RequestsOK
      /\ \A id \in DOMAIN requests : SessionKnown(id)
      /\ \A msg \in network : MessageOK(msg)
  BY DEF Types
<1>2. \A t \in DOMAIN as_sessions : t \in DOMAIN as_sessions'
  BY SessionsStep
<1>3. ASSUME \A id \in DOMAIN requests' : Same(id)
      PROVE  SessionsKnown
  BY <1>1, <1>2, <1>3 DEF Same
<1>4. ASSUME NEW i, NEW request, OnlyChanged(i, request),
             request.state # "ReceiveTokenFromAS" => request.session_id \in DOMAIN as_sessions
      PROVE  SessionsKnown
  BY <1>1, <1>2, <1>4 DEF OnlyChanged, Same
<1>5. ASSUME NEW msg \in network, Starts(msg)
      PROVE  SessionsKnown
  BY <1>4, <1>5 DEF Starts, Request
<1>6. ASSUME NEW msg \in network, TakesToken(msg)
      PROVE  SessionsKnown
  BY <1>1, <1>4, <1>6 DEF TakesToken, Request, MessageOK
<1>7. ASSUME NEW id \in DOMAIN requests, NEW state,
             requests[id].state # "ReceiveTokenFromAS",
             OnlyChanged(id, [requests[id] EXCEPT !.state = state, !.idle = 0])
      PROVE  SessionsKnown
  <2> DEFINE request == [requests[id] EXCEPT !.state = state, !.idle = 0]
  <2>1. request.session_id = requests[id].session_id
    BY <1>1 DEF RequestsOK
  <2>2. OnlyChanged(id, request)
    BY <1>7
  <2> HIDE DEF request
  <2> QED
    BY <1>1, <1>4, <1>7, <2>1, <2>2
<1>8. ASSUME NEW id \in DOMAIN requests, TakesFinish(id)
      PROVE  SessionsKnown
  BY <1>7, <1>8 DEF TakesFinish, Waiting
<1>9. ASSUME NEW msg \in network, TakesReport(msg)
      PROVE  SessionsKnown
  BY <1>7, <1>9 DEF TakesReport, Waiting
<1>10. CASE Tick
  BY <1>1, <1>3, <1>10, TickOfRequests
<1>11. CASE UNCHANGED requests
  BY <1>1, <1>2, <1>11
<1> QED
  BY <1>1, <1>3, <1>5, <1>6, <1>8, <1>9, <1>10, <1>11, StepsOfActors
  DEF vars, easVars, VAStep, VALogsIn, EASStep, Grants, Drops, ASStep, Comparison, BoxStep,
      BCAStep

(* What an actor remembers in each sub-state.                              *)
LEMMA ActiveFields ==
    ASSUME NEW T, NEW R, NEW a \in VAActives(T, R)
    PROVE  /\ a.state \in VAStates
           /\ a.state \in AUTHENTICATION => a.key \in VoterKeys
           /\ a.state = "AwaitingFinishCommand" => a.token \in Nat
           /\ a.state \in SUBMITTING => a.sent_ballot \in Box!SignedBallots
           /\ a.state \in {"AwaitingBulletin", "AwaitingConfirmation", "AwaitingRequest",
                           "AwaitingUserApproval"} => a.tracker \in T
           /\ a.state \in {"AwaitingRequest", "AwaitingUserApproval"} =>
                 a.key \in VoterKeys /\ a.randomizers \in KeptRandomizers
           /\ a.state = "AwaitingUserApproval" => a.request \in R
  BY DEF VAActives, VAStates, AUTHENTICATION, SUBMITTING, CASTING, Idle

LEMMA NewActives ==
    ASSUME NEW T, NEW R
    PROVE  /\ Idle \in VAActives(T, R)
           /\ \A key \in VoterKeys : /\ AwaitingToken(key) \in VAActives(T, R)
                                     /\ AwaitingAuthorization(key) \in VAActives(T, R)
           /\ \A key \in VoterKeys, token \in Nat :
                 AwaitingFinishCommand(key, token) \in VAActives(T, R)
           /\ \A ballot \in Box!SignedBallots :
                 /\ AwaitingTracker(ballot) \in VAActives(T, R)
                 /\ \A t \in T : AwaitingBulletin(ballot, t) \in VAActives(T, R)
           /\ \A t \in T : AwaitingConfirmation(t) \in VAActives(T, R)
           /\ \A key \in VoterKeys, t \in T, r \in KeptRandomizers :
                 AwaitingRequest(key, t, r) \in VAActives(T, R)
  BY DEF VAActives, Idle, AwaitingToken, AwaitingFinishCommand, AwaitingAuthorization,
         AwaitingTracker, AwaitingBulletin, AwaitingConfirmation, AwaitingRequest

LEMMA BallotTypes ==
    /\ \A auth \in VoterAuths, id \in VoterKeys : \A keys :
          SignedBallot(auth, id, keys) \in Box!SignedBallots
    /\ \A ballot \in Box!SignedBallots : Randomizers(ballot) \in KeptRandomizers
<1>1. ASSUME NEW auth \in VoterAuths, NEW id \in VoterKeys, NEW keys
      PROVE  SignedBallot(auth, id, keys) \in Box!SignedBallots
  <2>1. (auth.voter_verifying_key \in keys) \in BOOLEAN
    OBVIOUS
  <2>2. auth.voter_pseudonym \in VAs /\ auth.ballot_style \in {1}
    BY DEF VoterAuths
  <2> QED
    BY <2>1, <2>2 DEF SignedBallot, Box!SignedBallots
<1>2. \A ballot \in Box!SignedBallots : Randomizers(ballot) \in KeptRandomizers
  BY DEF Randomizers, Box!SignedBallots, KeptRandomizers
<1> QED
  BY <1>1, <1>2

LEMMA VAStepTypes ==
    ASSUME Types, NEW T, NEW R, Box!Trackers \subseteq T, Box!CheckReqs \subseteq R,
           NEW v \in VAs, VAStep(v)
    PROVE  va' \in [VAs -> VARecords(T, R)]
<1> DEFINE Actives == VAActives(T, R)
           Records == VARecords(T, R)
           a == va[v].active
<1>1. va \in [VAs -> Records]
  <2>1. VAActives(Box!Trackers, Box!CheckReqs) \subseteq Actives
    BY DEF VAActives
  <2> QED
    BY <2>1 DEF Types, VAsOK, VARecords
<1>2. ASSUME NEW active \in Actives, Activate(v, active)
      PROVE  va' \in [VAs -> Records]
  BY <1>1, <1>2 DEF Activate, VARecords
<1>3. a \in VAActives(T, R)
  BY <1>1 DEF VARecords
<1>4. ASSUME Fail(v)
      PROVE  va' \in [VAs -> Records]
  BY <1>2, <1>4, NewActives DEF Fail
<1>5. CASE StartAuthentication(v)
  <2>1. <<v, va[v].fresh>> \in VoterKeys /\ va[v].fresh + 1 \in Nat
    BY <1>1 DEF VARecords, VoterKeys
  <2>2. AwaitingToken(<<v, va[v].fresh>>) \in Actives
    BY <2>1, NewActives
  <2> QED
    BY <1>1, <1>5, <2>1, <2>2 DEF StartAuthentication, VARecords
<1>6. CASE StartSubmission(v)
  <2>1. PICK auth \in va[v].authorization :
           LET ballot == SignedBallot(auth, <<v, va[v].fresh>>, va[v].keys)
           IN  va' = [va EXCEPT ![v].active = AwaitingTracker(ballot), ![v].fresh = @ + 1]
    BY <1>6 DEF StartSubmission
  <2> DEFINE ballot == SignedBallot(auth, <<v, va[v].fresh>>, va[v].keys)
  <2>2. auth \in VoterAuths /\ <<v, va[v].fresh>> \in VoterKeys /\ va[v].fresh + 1 \in Nat
    BY <1>1 DEF VARecords, VoterKeys
  <2>3. ballot \in Box!SignedBallots
    BY <2>2, BallotTypes
  <2>4. AwaitingTracker(ballot) \in Actives
    BY <2>3, NewActives
  <2> HIDE DEF ballot
  <2> QED
    BY <1>1, <2>1, <2>2, <2>4 DEF VARecords, ballot
<1>7. CASE StartCasting(v)
  BY <1>1, <1>2, <1>7, NewActives DEF StartCasting, VARecords
<1>8. CASE StartBallotCheck(v)
  BY <1>1, <1>2, <1>8, NewActives DEF StartBallotCheck, VARecords
<1>9. CASE Finish(v)
  <2>1. In(v, "AwaitingFinishCommand") => AwaitingAuthorization(a.key) \in Actives
    BY <1>3, ActiveFields, NewActives DEF In, AUTHENTICATION
  <2> QED
    BY <1>2, <1>4, <1>9, <2>1 DEF Finish
<1>10. ASSUME NEW i \in GetBulletin(board, a.tracker), PBBData(v, board[i])
       PROVE  va' \in [VAs -> Records]
  <2>1. a.sent_ballot \in Box!SignedBallots /\ a.tracker \in T
    BY <1>3, <1>10, ActiveFields DEF PBBData, In, SUBMITTING
  <2>2. Randomizers(a.sent_ballot) \in KeptRandomizers
    BY <2>1, BallotTypes
  <2> QED
    BY <1>1, <1>4, <1>10, <2>1, <2>2, NewActives DEF PBBData, VARecords
<1>11. ASSUME NEW msg \in network, NEW signed \in BOOLEAN, VAReceive(v, msg, signed, clock)
       PROVE  va' \in [VAs -> Records]
  <2>1. MessageOK(msg)
    BY DEF Types
  <2>2. CASE AuthServiceToken(v, msg, signed)
    <3>1. In(v, "AwaitingToken") /\ msg.token \in Nat => 
             AwaitingFinishCommand(a.key, msg.token) \in Actives
      BY <1>3, ActiveFields, NewActives DEF In, AUTHENTICATION
    <3> QED
      BY <1>2, <1>4, <2>1, <2>2, <3>1 DEF AuthServiceToken, MessageOK
  <2>3. CASE ConfirmAuthorization(v, msg, signed, clock)
    <3>1. a.key \in VoterKeys
      BY <1>3, <2>3, ActiveFields DEF ConfirmAuthorization, In, AUTHENTICATION
    <3>2. msg.voter_authorization \in SUBSET VoterAuths
      BY <2>1, <2>3 DEF ConfirmAuthorization, MessageOK
    <3>3. KeysAfter(v, msg) \in SUBSET VoterKeys
      BY <1>1, <3>1 DEF KeysAfter, VARecords
    <3> QED
      BY <1>1, <1>4, <2>3, <3>2, <3>3, NewActives DEF ConfirmAuthorization, VARecords
  <2>4. CASE ReturnBallotTracker(v, msg, signed)
    <3>1. AwaitingBulletin(a.sent_ballot, msg.tracker) \in Actives
      BY <1>3, <2>1, <2>4, ActiveFields, NewActives
      DEF ReturnBallotTracker, In, SUBMITTING, MessageOK
    <3> QED
      BY <1>2, <1>4, <2>4, <3>1 DEF ReturnBallotTracker
  <2>5. CASE CastConf(v, msg, signed)
    BY <1>2, <1>4, <2>5, NewActives DEF CastConf
  <2>6. CASE FwdCheckReq(v, msg, signed)
    <3>1. AwaitingUserApproval(a, msg.message) \in Actives
      BY <1>3, <2>1, <2>6, ActiveFields
      DEF FwdCheckReq, AwaitsRequest, In, MessageOK, AwaitingUserApproval, VAActives
    <3> QED
      BY <1>2, <2>6, <3>1 DEF FwdCheckReq
  <2> QED
    BY <1>4, <1>11, <2>2, <2>3, <2>4, <2>5, <2>6 DEF VAReceive, InvalidVAInput
<1> QED
  BY <1>1, <1>4, <1>5, <1>6, <1>7, <1>8, <1>9, <1>10, <1>11
  DEF VAStep, VAActs, SetIdle, UserApproval

LEMMA SubmissionsOnBoard ==
    ASSUME Types, NEW i \in DOMAIN board
    PROVE  /\ board[i].type \in {SUBMISSION, CAST}
           /\ board[i].contents.ballot \in Box!SignedBallots
           /\ Hash(board[i]) \in Box!Trackers
  BY DEF Types, Box!TypeOK, Box!IsBulletin, Box!BUILTIN_BULLETINS, Box!SUBMISSION, Box!CAST,
         SUBMISSION, CAST, Box!Trackers, Box!Hash, Hash

LEMMA CheckRequests ==
    ASSUME Types, NEW b \in BCAs, NEW i \in DOMAIN board
    PROVE  CheckRequest(b, <<b, bca[b].fresh>>, Hash(board[i])) \in Box!CheckReqs
  BY SubmissionsOnBoard DEF Types, BCAsOK, BCARecords, CheckRequest, Box!CheckReqs, CheckKeys

LEMMA BCAStepTypes ==
    ASSUME Types, NEW R, Box!CheckReqs \subseteq R, NEW b \in BCAs, BCAStep(b)
    PROVE  bca' \in [BCAs -> BCARecords(R)]
<1>1. bca \in [BCAs -> BCARecords(R)]
  BY DEF Types, BCAsOK, BCARecords
<1>2. CASE EndCheck(b)
  BY <1>1, <1>2 DEF EndCheck, BCARecords
<1>3. CASE StartCheckOfBallot(b)
  <2>1. PICK i \in DOMAIN board : StartCheck(b, Hash(board[i]), board[i].contents.ballot)
    BY <1>3 DEF StartCheckOfBallot
  <2> DEFINE request == CheckRequest(b, <<b, bca[b].fresh>>, Hash(board[i]))
  <2>2. request \in R /\ board[i].contents.ballot \in Box!SignedBallots
    BY CheckRequests, SubmissionsOnBoard
  <2>3. bca[b].fresh + 1 \in Nat
    BY <1>1 DEF BCARecords
  <2> HIDE DEF request
  <2> QED
    BY <1>1, <2>1, <2>2, <2>3 DEF StartCheck, BCARecords, request
<1>4. ASSUME NEW msg \in network, NEW signed \in BOOLEAN, FwdRandomizer(b, msg, signed)
      PROVE  bca' \in [BCAs -> BCARecords(R)]
  <2>1. CASE bca' = [bca EXCEPT ![b].active.state = "CheckBallotCastOrNotStatus"]
    <3>1. bca[b].active.state = "DecryptAndDisplayBallot"
      BY <1>4 DEF FwdRandomizer
    <3>2. [bca[b].active EXCEPT !.state = "CheckBallotCastOrNotStatus"] \in
             [state : {"DecryptAndDisplayBallot", "CheckBallotCastOrNotStatus"},
              sent_check_req_msg : R, ballot : Box!SignedBallots]
      BY <1>1, <3>1 DEF BCARecords, NoCheck
    <3>3. bca' = [bca EXCEPT ![b] = [@ EXCEPT !.active =
                     [bca[b].active EXCEPT !.state = "CheckBallotCastOrNotStatus"]]]
      BY <2>1
    <3> QED
      BY <1>1, <3>2, <3>3 DEF BCARecords
  <2> QED
    BY <1>2, <1>4, <2>1 DEF FwdRandomizer
<1> QED
  BY <1>2, <1>3, <1>4
  DEF BCAStep, BCAActs, AbortSubprotocol, BCADecision, CastDecision, InvalidCheckInput

LEMMA MessagesStay ==
    ASSUME Types, [Next]_vars, NEW msg, MessageOK(msg)
    PROVE  MessageOK(msg)'
<1>1. /\ Box!Trackers \subseteq Box!Trackers'
      /\ Box!CheckReqs \subseteq Box!CheckReqs'
  BY BoardGrows
<1>2. /\ Box!CastReqs \subseteq Box!CastReqs'
      /\ Box!Randomizers \subseteq Box!Randomizers'
  BY <1>1 DEF Box!CastReqs, Box!Randomizers
<1>3. \A t \in DOMAIN as_sessions : t \in DOMAIN as_sessions'
  BY SessionsStep
<1> QED
  BY <1>1, <1>2, <1>3 DEF MessageOK

(* What each actor sends.                                                  *)
LEMMA VASends ==
    ASSUME Types, NEW v \in VAs, VAStep(v), NEW msg \in network' \ network
    PROVE  MessageOK(msg)
<1> DEFINE a == va[v].active
<1>1. /\ va[v] \in VARecords(Box!Trackers, Box!CheckReqs)
      /\ a \in VAActives(Box!Trackers, Box!CheckReqs)
  BY DEF Types, VAsOK, VARecords
<1>2. CASE StartAuthentication(v)
  <2>1. <<v, va[v].fresh>> \in VoterKeys
    BY <1>1 DEF VARecords, VoterKeys
  <2>2. msg = AuthReqMsg(<<v, va[v].fresh>>)
    BY <1>2 DEF StartAuthentication, Send
  <2> QED
    BY <2>1, <2>2 DEF AuthReqMsg, MessageOK
<1>3. CASE StartSubmission(v)
  <2>1. PICK auth \in va[v].authorization :
           msg = SignedBallotMsg(v, SignedBallot(auth, <<v, va[v].fresh>>, va[v].keys))
    BY <1>3 DEF StartSubmission, Send
  <2>2. auth \in VoterAuths /\ <<v, va[v].fresh>> \in VoterKeys
    BY <1>1 DEF VARecords, VoterKeys
  <2>3. SignedBallot(auth, <<v, va[v].fresh>>, va[v].keys) \in Box!SignedBallots
    BY <2>2, BallotTypes
  <2> QED
    BY <2>1, <2>3 DEF SignedBallotMsg, MessageOK
<1>4. CASE StartCasting(v)
  <2>1. PICK auth \in va[v].authorization, key \in va[v].keys, tracker \in va[v].tracker :
           msg = CastReqMsg(v, [auth |-> auth, ballot_tracker |-> tracker,
                                signed |-> key = auth.voter_verifying_key])
    BY <1>4 DEF StartCasting, Send
  <2>2. auth \in VoterAuths /\ tracker \in Box!Trackers
    BY <1>1 DEF VARecords
  <2>3. (key = auth.voter_verifying_key) \in BOOLEAN
    OBVIOUS
  <2>4. [auth |-> auth, ballot_tracker |-> tracker,
         signed |-> key = auth.voter_verifying_key] \in Box!CastReqs
    BY <2>2, <2>3 DEF Box!CastReqs
  <2> QED
    BY <2>1, <2>4 DEF CastReqMsg, MessageOK
<1>5. CASE Finish(v)
  BY <1>5 DEF Finish, Fail, Send, AuthFinishMsg, MessageOK
<1>6. CASE UserApproval(v)
  <2>1. In(v, "AwaitingUserApproval") /\ msg = RandomizerMsg(v, Randomizer(a))
    BY <1>6 DEF UserApproval, Send
  <2>2. /\ a.key \in VoterKeys
        /\ a.randomizers \in KeptRandomizers
        /\ a.request \in Box!CheckReqs
    BY <1>1, <2>1, ActiveFields DEF In
  <2>3. Randomizer(a) \in Box!Randomizers
    BY <2>2 DEF Randomizer, Box!Randomizers, KeptRandomizers
  <2> QED
    BY <2>1, <2>3 DEF RandomizerMsg, MessageOK
<1> QED
  BY <1>2, <1>3, <1>4, <1>5, <1>6
  DEF VAStep, VAActs, SetIdle, Fail, StartBallotCheck, PBBData, VAReceive, AuthServiceToken,
      ConfirmAuthorization, ReturnBallotTracker, CastConf, FwdCheckReq, InvalidVAInput

LEMMA EASSends ==
    ASSUME Types, EASStep, NEW msg \in network' \ network
    PROVE  MessageOK(msg)
<1>1. RequestsOK /\ clock \in Nat /\ \A m \in network : MessageOK(m)
  BY DEF Types, Box!TypeOK
<1>2. ASSUME NEW m \in network, Starts(m)
      PROVE  MessageOK(msg)
  BY <1>2 DEF Starts, Send, InitAuthReqMsg, MessageOK
<1>3. ASSUME NEW m \in network, TakesToken(m)
      PROVE  MessageOK(msg)
  BY <1>3, TokensOfMessages DEF TakesToken, Send, AuthServiceTokenMsg, MessageOK
<1>4. ASSUME NEW m \in network, TakesReport(m)
      PROVE  MessageOK(msg)
  BY <1>1, <1>4 DEF TakesReport, ReportChecks, Send, CheckBiographicalInfoMsg, MessageOK
<1>5. ASSUME NEW m \in network, Grants(m)
      PROVE  MessageOK(msg)
  <2> DEFINE key == requests[m.id].voter_verifying_key
             auth == VoterAuthorization(
                 BiographicalInfoOkMsg(m.id, m.biographical_info, 1), key, clock)
  <2>1. key \in VoterKeys /\ m.biographical_info \in VAs
    BY <1>1, <1>5 DEF Grants, Waiting, RequestsOK, MessageOK
  <2>2. auth \in VoterAuths
    BY <1>1, <2>1 DEF VoterAuthorization, BiographicalInfoOkMsg, VoterAuths
  <2>3. msg = ConfirmAuthorizationMsg(key, TRUE, {auth})
    BY <1>5 DEF Grants, Send
  <2> QED
    BY <2>2, <2>3 DEF ConfirmAuthorizationMsg, MessageOK
<1>6. ASSUME NEW id \in DOMAIN requests, TakesFinish(id)
      PROVE  MessageOK(msg)
  <2>1. requests[id].session_id \in DOMAIN as_sessions
    BY <1>6 DEF Types, TakesFinish, Waiting
  <2> QED
    BY <1>6, <2>1 DEF TakesFinish, Send, AuthServiceQueryMsg, MessageOK
<1>7. CASE Drops
  BY <1>7 DEF Drops, Send, ConfirmAuthorizationMsg, MessageOK
<1> QED
  BY <1>2, <1>3, <1>4, <1>5, <1>6, <1>7 DEF EASStep

LEMMA ASSends ==
    ASSUME Types, ASStep, NEW msg \in network' \ network
    PROVE  MessageOK(msg)'
<1>1. as_sessions \in Seq(VAs \cup {Nobody}) /\ \A m \in network : MessageOK(m)
  BY DEF Types
<1>2. ASSUME NEW m \in network, HandleInitAuthReq(m)
      PROVE  MessageOK(msg)'
  <2>1. Len(as_sessions) + 1 \in DOMAIN as_sessions'
    BY <1>1, <1>2 DEF HandleInitAuthReq
  <2> QED
    BY <1>2, <2>1 DEF HandleInitAuthReq, Send, TokenReturnMsg, MessageOK
<1>3. ASSUME NEW m \in network, HandleQuery(m)
      PROVE  MessageOK(msg)'
  <2> DEFINE person == as_sessions[m.session_id]
  <2>1. person \in VAs \cup {Nobody}
    BY <1>1, <1>3 DEF HandleQuery, MessageOK
  <2>2. msg = AuthServiceReportMsg(m.id, m.session_id, m.session_id, person # Nobody, person)
    BY <1>3 DEF HandleQuery, Send
  <2> HIDE DEF person
  <2> QED
    BY <2>1, <2>2 DEF AuthServiceReportMsg, MessageOK
<1> QED
  BY <1>2, <1>3 DEF ASStep

LEMMA BoxSends ==
    ASSUME Types, BoxStep, NEW msg \in network' \ network
    PROVE  MessageOK(msg)'
<1>1. Box!TypeOK /\ Box!Next
  BY BoxSteps DEF Types
<1>2. msg = output' /\ msg.type \in DBBMessages
  BY DEF BoxStep
<1>3. /\ output'.type = "ReturnBallotTracker" => output'.tracker \in Box!Trackers'
      /\ output'.type = "FwdCheckReq" => output'.message \in Box!CheckReqs
  BY <1>1, BoxConstants, Box!Replies
<1>4. Box!CheckReqs \subseteq Box!CheckReqs'
  BY <1>1, BoxConstants, Box!RequestsStay
<1> QED
  BY <1>2, <1>3, <1>4 DEF DBBMessages, MessageOK

LEMMA BCASends ==
    ASSUME Types, NEW b \in BCAs, BCAStep(b), NEW msg \in network' \ network
    PROVE  MessageOK(msg)
<1>1. CASE StartCheckOfBallot(b)
  <2>1. PICK i \in DOMAIN board : StartCheck(b, Hash(board[i]), board[i].contents.ballot)
    BY <1>1 DEF StartCheckOfBallot
  <2>2. msg = CheckReqMsg(b, CheckRequest(b, <<b, bca[b].fresh>>, Hash(board[i])))
    BY <2>1 DEF StartCheck, Send
  <2> QED
    BY <2>2, CheckRequests DEF CheckReqMsg, MessageOK
<1> QED
  BY <1>1
  DEF BCAStep, BCAActs, EndCheck, AbortSubprotocol, BCADecision, CastDecision,
      FwdRandomizer, InvalidCheckInput

LEMMA NetworkStep ==
    ASSUME Types, [Next]_vars
    PROVE  /\ network \subseteq network'
           /\ \A msg \in network' : MessageOK(msg)'
<1>1. RequestsOK /\ \A msg \in network : MessageOK(msg)
  BY DEF Types
<1>2. ASSUME NEW v \in VAs, VAStep(v)
      PROVE  network \subseteq network'
  BY <1>2
  DEF VAStep, VAActs, StartAuthentication, StartSubmission, StartCasting, SetIdle, Finish,
      UserApproval, Fail, Send, StartBallotCheck, PBBData, VAReceive, AuthServiceToken,
      ConfirmAuthorization, ReturnBallotTracker, CastConf, FwdCheckReq, InvalidVAInput
<1>3. ASSUME EASStep
      PROVE  network \subseteq network'
  <2>1. (\E msg : Send(msg)) \/ UNCHANGED network
    BY <1>3 DEF EASStep, Starts, TakesToken, TakesReport, Grants, TakesFinish, Drops
  <2> QED
    BY <2>1 DEF Send
<1>4. ASSUME NEW b \in BCAs, BCAStep(b)
      PROVE  network \subseteq network'
  BY <1>4
  DEF BCAStep, BCAActs, EndCheck, AbortSubprotocol, BCADecision, CastDecision,
      StartCheckOfBallot, StartCheck, Send, FwdRandomizer, InvalidCheckInput
<1>5. network \subseteq network'
  BY <1>1, <1>2, <1>3, <1>4, StepsOfActors
  DEF vars, VALogsIn, LogIn, ASStep, HandleInitAuthReq, HandleQuery, Send, Comparison, BoxStep,
      Tick
<1>6. ASSUME NEW msg \in network' \ network
      PROVE  MessageOK(msg)'
  BY <1>1, MessagesStay, VASends, EASSends, ASSends, BoxSends, BCASends, StepsOfActors
  DEF vars, VALogsIn, LogIn, Comparison, Tick
<1> QED
  BY <1>1, <1>5, <1>6, MessagesStay

(* A checking session is for a request that some BCA sent.                 *)
LEMMA CheckSessionsStep ==
    ASSUME Types, [Next]_vars
    PROVE  \A c \in VAs \cup BCAs : sessions'[c] # Box!NoSession =>
              \E msg \in network' : msg.type = "CheckReq" /\ msg.req = sessions'[c].check_req
<1> DEFINE Connections == VAs \cup BCAs
           Known(session) == session # Box!NoSession =>
               \E msg \in network' : msg.type = "CheckReq" /\ msg.req = session.check_req
<1>1. /\ RequestsOK
      /\ sessions \in [Connections -> {Box!NoSession} \cup
             [state : Box!SessionStates \ {"None"}, check_req : Box!CheckReqs]]
  BY DEF Types, Box!TypeOK
<1>2. \A c \in Connections : Known(sessions[c])
  BY NetworkStep DEF Types
<1>3. ~(Box!NoSession # Box!NoSession)
  OBVIOUS
<1> HIDE DEF Known
<1> SUFFICES \A c \in Connections : Known(sessions'[c])
  BY DEF Known
<1>4. CASE UNCHANGED sessions
  BY <1>2, <1>4
<1>5. ASSUME NEW c, NEW session, Known(session), sessions' = [sessions EXCEPT ![c] = session]
      PROVE  \A d \in Connections : Known(sessions'[d])
  BY <1>1, <1>2, <1>5
<1>6. ASSUME NEW c, Box!DropSession(c)
      PROVE  \A d \in Connections : Known(sessions'[d])
  BY <1>5, <1>6 DEF Box!DropSession, Known
<1>7. ASSUME NEW c \in Connections, NEW state, sessions[c].state # "None",
             sessions' = [sessions EXCEPT ![c].state = state]
      PROVE  \A d \in Connections : Known(sessions'[d])
  <2> DEFINE session == [sessions[c] EXCEPT !.state = state]
  <2>1. sessions[c] \in [state : Box!SessionStates \ {"None"}, check_req : Box!CheckReqs]
    BY <1>1, <1>7 DEF Box!NoSession
  <2>2. session.check_req = sessions[c].check_req /\ sessions[c] # Box!NoSession
    BY <1>7, <2>1 DEF Box!NoSession
  <2>3. sessions' = [sessions EXCEPT ![c] = session]
    BY <1>7
  <2> HIDE DEF session
  <2>4. Known(session)
    BY <1>2, <2>2 DEF Known
  <2> QED
    BY <1>5, <2>3, <2>4
<1>8. CASE BoxStep
  <2>1. ASSUME NEW msg \in network, msg.type = "CheckReq", Box!CheckReq(msg.from, msg.req)
        PROVE  \A d \in Connections : Known(sessions'[d])
    <3>1. Known(Box!Session("AwaitingVAConnection", msg.req))
      BY <2>1, NetworkStep DEF Known, Box!Session
    <3> QED
      BY <1>4, <1>5, <2>1, <3>1 DEF Box!CheckReq
  <2>2. ASSUME NEW b \in BCAs, NEW m, Box!Randomizer(b, m)
        PROVE  \A d \in Connections : Known(sessions'[d])
    BY <1>6, <1>7, <2>2 DEF Box!Randomizer
  <2>3. ASSUME NEW b \in BCAs, NEW v, Box!ProvideVAConnection(b, v)
        PROVE  \A d \in Connections : Known(sessions'[d])
    BY <1>6, <1>7, <2>3 DEF Box!ProvideVAConnection
  <2> QED
    BY <1>4, <1>8, <2>1, <2>2, <2>3, SameActions
    DEF BoxStep, DBBActs, Box!SubmitSignedBallot, Box!CastReq
<1> QED
  BY <1>1, <1>4, <1>8, StepsOfActors
  DEF vars, dbbVars, DBBIdle, VAStep, VALogsIn, EASStep, ASStep, Comparison, BCAStep, Tick

LEMMA ComparedStep ==
    ASSUME Types, [Next]_vars
    PROVE  compared' \in [VAs -> SUBSET CheckKeys]
<1>1. RequestsOK /\ compared \in [VAs -> SUBSET CheckKeys]
  BY DEF Types
<1>2. ASSUME NEW v \in VAs, NEW b \in BCAs, Comparison(v, b)
      PROVE  compared' \in [VAs -> SUBSET CheckKeys]
  <2>1. va[v].active \in VAActives(Box!Trackers, Box!CheckReqs)
    BY DEF Types, VAsOK, VARecords
  <2>2. va[v].active.request \in Box!CheckReqs
    BY <1>2, <2>1, ActiveFields DEF Comparison, VoterCompares, In
  <2>3. va[v].active.request.public_enc_key \in CheckKeys
    BY <2>2 DEF Box!CheckReqs
  <2> QED
    BY <1>1, <1>2, <2>3 DEF Comparison, VoterCompares
<1>3. ASSUME NEW v \in VAs, VAStep(v)
      PROVE  compared' \in [VAs -> SUBSET CheckKeys]
  BY <1>1, <1>3 DEF VAStep
<1> QED
  BY <1>1, <1>2, <1>3, StepsOfActors
  DEF vars, VALogsIn, EASStep, ASStep, BoxStep, BCAStep, Tick

LEMMA TypesStep == Types /\ [Next]_vars => Types'
<1> SUFFICES ASSUME Types, [Next]_vars PROVE Types'
  OBVIOUS
<1>1. /\ Box!TypeOK'
      /\ Box!Trackers \subseteq Box!Trackers'
      /\ Box!CheckReqs \subseteq Box!CheckReqs'
      /\ RequestsOK
  BY BoardGrows DEF Types
<1>2. VAsOK'
  <2>1. CASE UNCHANGED va
    <3>1. VAActives(Box!Trackers, Box!CheckReqs) \subseteq VAActives(Box!Trackers, Box!CheckReqs)'
      BY <1>1 DEF VAActives, Box!SignedBallots
    <3>2. VARecords(Box!Trackers, Box!CheckReqs) \subseteq VARecords(Box!Trackers, Box!CheckReqs)'
      BY <1>1, <3>1 DEF VARecords
    <3> QED
      BY <2>1, <3>2 DEF Types, VAsOK
  <2>2. ASSUME NEW v \in VAs, VAStep(v)
        PROVE  VAsOK'
    <3>1. va' \in [VAs -> VARecords(Box!Trackers', Box!CheckReqs')]
      BY <1>1, <2>2, VAStepTypes
    <3> QED
      BY <3>1 DEF VAsOK, VARecords, VAActives, Box!SignedBallots
  <2> QED
    BY <1>1, <2>1, <2>2, StepsOfActors
    DEF vars, vaVars, VALogsIn, EASStep, ASStep, Comparison, BoxStep, BCAStep, Tick
<1>3. BCAsOK'
  <2>1. CASE UNCHANGED bca
    BY <1>1, <2>1 DEF Types, BCAsOK, BCARecords, Box!SignedBallots
  <2>2. ASSUME NEW b \in BCAs, BCAStep(b)
        PROVE  BCAsOK'
    <3>1. bca' \in [BCAs -> BCARecords(Box!CheckReqs')]
      BY <1>1, <2>2, BCAStepTypes
    <3> QED
      BY <3>1 DEF BCAsOK, BCARecords, Box!SignedBallots
  <2> QED
    BY <1>1, <2>1, <2>2, StepsOfActors
    DEF vars, bcaVars, VAStep, VALogsIn, EASStep, ASStep, Comparison, BoxStep, Tick
<1>4. as_sessions' \in Seq(VAs \cup {Nobody})
  BY SessionsStep
<1>5. \A msg \in network' : MessageOK(msg)'
  BY NetworkStep
<1> QED
  BY <1>1, <1>2, <1>3, <1>4, <1>5, RequestsStep, SessionIdsStep, CheckSessionsStep, ComparedStep
  DEF Types, Box!NoSession

LEMMA InitialAuthorizations ==
    ASSUME Init
    PROVE  \E authorizations \in [VAs -> SUBSET VoterAuths] :
               /\ VAInit(authorizations)
               /\ \A v \in VAs : authorizations[v] \subseteq {InitialAuthorization(v)}
<1>1. PICK scenario \in Scenarios :
          VAInit([v \in VAs |-> IF scenario.authorized THEN {InitialAuthorization(v)} ELSE {}])
  BY DEF Init
<1>2. \A v \in VAs : InitialAuthorization(v) \in VoterAuths
  BY DEF InitialAuthorization, VoterAuths, VoterKeys
<1> QED
  BY <1>1, <1>2

LEMMA TypesInit == Init => Types
<1> SUFFICES ASSUME Init PROVE Types
  OBVIOUS
<1>1. PICK scenario \in Scenarios :
          /\ clock = IF scenario.authorized THEN 1 ELSE 0
          /\ VAInit([v \in VAs |->
                IF scenario.authorized THEN {InitialAuthorization(v)} ELSE {}])
  BY DEF Init
<1>2. Box!Init
  BY <1>1 DEF Init, Box!Init, DBB!NoSession, Box!NoSession, DBB!NoOutput, Box!NoOutput
<1>3. Box!TypeOK
  BY <1>2, BoxConstants, Box!TypeInit
<1>4. RequestsOK
  BY DEF Init, EASInit, RequestsOK
<1>5. VAsOK
  <2>1. PICK authorizations \in [VAs -> SUBSET VoterAuths] : VAInit(authorizations)
    <3>1. \A v \in VAs : InitialAuthorization(v) \in VoterAuths
      BY DEF InitialAuthorization, VoterAuths, VoterKeys
    <3> QED
      BY <1>1, <3>1
  <2>2. ASSUME NEW v \in VAs, NEW a \in authorizations[v]
        PROVE  a.voter_verifying_key \in VoterKeys
    <3>1. a \in VoterAuths
      BY <2>1
    <3> QED
      BY <3>1 DEF VoterAuths
  <2> QED
    BY <2>1, <2>2, NewActives DEF VAInit, Actor, VAsOK, VARecords
<1>6. BCAsOK
  BY DEF Init, BCAInit, BCAsOK, BCARecords
<1>7. as_sessions \in Seq(VAs \cup {Nobody})
  BY DEF Init, ASInit
<1>8. compared \in [VAs -> SUBSET CheckKeys]
  BY DEF Init
<1> QED
  BY <1>3, <1>4, <1>5, <1>6, <1>7, <1>8
  DEF Init, EASInit, Types, DBB!NoSession, Box!NoSession

(* The messages, what the actors remember and what the ballot box holds    *)
(* are of their types.                                                     *)
THEOREM TypesCorrect == Spec => []Types
<1> QED
  BY TypesInit, TypesStep, PTL DEF Spec

(* The composition runs the ballot box as its module specifies it, so that *)
(* what is proved of the ballot box holds in the composition.              *)
THEOREM ComposedBoxIsABallotBox == Spec => Box!Spec
<1>1. Init => Box!Init
  BY DEF Init, Box!Init, DBB!NoSession, Box!NoSession, DBB!NoOutput, Box!NoOutput
<1>2. Types /\ [Next]_vars => [Box!Next]_(Box!vars)
  BY BoxMoves
<1> QED
  BY <1>1, <1>2, TypesCorrect, PTL DEF Spec, Box!Spec

(* So, on election day, the board is sealed and keeps the ledger of the    *)
(* voters: a voter has one ballot cast at most, the one submitted last.    *)
THEOREM ElectionKeepsTheLedger ==
    Spec => /\ []Box!ChainIsValid
            /\ []Box!AtMostOneCast
            /\ []Box!CastIsLatestSubmission
            /\ []Box!UniqueCiphertexts
            /\ []Box!RandomizersAreTheSubmitters
            /\ Box!SealedAfterCast
            /\ Box!ImplementsLedger
<1>1. Box!Spec => []Box!ChainIsValid
  BY BoxConstants, Box!ChainAlwaysValid
<1>2. Box!Spec => []Box!AtMostOneCast
  BY BoxConstants, Box!OneCastPerVoter
<1>3. Box!Spec => []Box!CastIsLatestSubmission
  BY BoxConstants, Box!CastBallotIsLatest
<1>4. Box!Spec => []Box!UniqueCiphertexts
  BY BoxConstants, Box!NoReplayedCiphertext
<1>5. Box!Spec => []Box!RandomizersAreTheSubmitters
  BY BoxConstants, Box!RandomizersOfSubmitters
<1>6. Box!Spec => Box!SealedAfterCast
  BY BoxConstants, Box!BoardIsSealed
<1>7. Box!Spec => Box!ImplementsLedger
  BY BoxConstants, Box!LedgerImplemented
<1> QED
  BY <1>1, <1>2, <1>3, <1>4, <1>5, <1>6, <1>7, ComposedBoxIsABallotBox, PTL

-------------------------------------------------------------------------------
(* What a VA signs with is what its authorization is for.                  *)

KeysFit == \A v \in VAs : \A auth \in va[v].authorization :
    va[v].keys = {auth.voter_verifying_key}

(* The fields that the steps of a VA set, but for what it runs.            *)
LEMMA VAFields ==
    ASSUME Types, NEW v \in VAs, VAStep(v)
    PROVE  /\ \A w \in VAs \ {v} : va'[w] = va[w]
           /\ \/ UNCHANGED <<va[v].authorization, va[v].keys>>
              \/ \E msg \in network :
                    /\ In(v, "AwaitingAuthorization")
                    /\ msg.type = "ConfirmAuthorization"
                    /\ ConfirmChecks(v, msg, clock)
                    /\ va'[v].authorization = msg.voter_authorization
                    /\ va'[v].keys = KeysAfter(v, msg)
                    /\ va'[v].active = Idle
           /\ \/ UNCHANGED <<va[v].tracker, va[v].randomizers>>
              \/ \E i \in GetBulletin(board, va[v].active.tracker) :
                    /\ In(v, "AwaitingBulletin")
                    /\ BulletinChecks(v, board[i])
                    /\ va'[v].tracker = {va[v].active.tracker}
                    /\ va'[v].randomizers = {Randomizers(va[v].active.sent_ballot)}
                    /\ va'[v].active = Idle
                    /\ UNCHANGED <<va[v].authorization, va[v].keys>>
<1> DEFINE Fields ==
        /\ \A w \in VAs \ {v} : va'[w] = va[w]
        /\ \/ UNCHANGED <<va[v].authorization, va[v].keys>>
           \/ \E msg \in network :
                 /\ In(v, "AwaitingAuthorization")
                 /\ msg.type = "ConfirmAuthorization"
                 /\ ConfirmChecks(v, msg, clock)
                 /\ va'[v].authorization = msg.voter_authorization
                 /\ va'[v].keys = KeysAfter(v, msg)
                 /\ va'[v].active = Idle
        /\ \/ UNCHANGED <<va[v].tracker, va[v].randomizers>>
           \/ \E i \in GetBulletin(board, va[v].active.tracker) :
                 /\ In(v, "AwaitingBulletin")
                 /\ BulletinChecks(v, board[i])
                 /\ va'[v].tracker = {va[v].active.tracker}
                 /\ va'[v].randomizers = {Randomizers(va[v].active.sent_ballot)}
                 /\ va'[v].active = Idle
                 /\ UNCHANGED <<va[v].authorization, va[v].keys>>
<1> SUFFICES Fields
  OBVIOUS
<1> DEFINE Rest == /\ \A w \in VAs \ {v} : va'[w] = va[w]
                   /\ UNCHANGED <<va[v].authorization, va[v].keys, va[v].tracker,
                                  va[v].randomizers>>
<1>1. /\ va \in [VAs -> VARecords(Box!Trackers, Box!CheckReqs)]
      /\ va[v] \in [active : VAActives(Box!Trackers, Box!CheckReqs),
                    authorization : SUBSET VoterAuths, keys : SUBSET VoterKeys,
                    tracker : SUBSET Box!Trackers, randomizers : SUBSET KeptRandomizers,
                    fresh : Nat]
  BY DEF Types, VAsOK, VARecords
<1>2. ASSUME NEW active, Activate(v, active)
      PROVE  Rest
  BY <1>1, <1>2 DEF Activate
<1>3. ASSUME Fail(v)
      PROVE  Rest
  BY <1>2, <1>3 DEF Fail
<1>4. ASSUME NEW active, va' = [va EXCEPT ![v].active = active, ![v].fresh = @ + 1]
      PROVE  Rest
  BY <1>1, <1>4
<1>5. ASSUME NEW msg \in network, NEW signed, ConfirmAuthorization(v, msg, signed, clock)
      PROVE  Fields
  <2>1. CASE Fail(v)
    BY <1>3, <2>1
  <2>2. CASE /\ ConfirmChecks(v, msg, clock)
             /\ va' = [va EXCEPT ![v].active = Idle,
                                 ![v].authorization = msg.voter_authorization,
                                 ![v].keys = KeysAfter(v, msg)]
    <3>1. /\ \A w \in VAs \ {v} : va'[w] = va[w]
          /\ va'[v].active = Idle
          /\ va'[v].authorization = msg.voter_authorization
          /\ va'[v].keys = KeysAfter(v, msg)
          /\ UNCHANGED <<va[v].tracker, va[v].randomizers>>
      BY <1>1, <2>2
    <3> QED
      BY <1>5, <2>2, <3>1 DEF ConfirmAuthorization
  <2> QED
    BY <1>5, <2>1, <2>2 DEF ConfirmAuthorization
<1>6. ASSUME NEW i \in GetBulletin(board, va[v].active.tracker), PBBData(v, board[i])
      PROVE  Fields
  <2>1. CASE Fail(v)
    BY <1>3, <2>1
  <2>2. CASE /\ BulletinChecks(v, board[i])
             /\ va' = [va EXCEPT ![v].active = Idle,
                                 ![v].tracker = {va[v].active.tracker},
                                 ![v].randomizers = {Randomizers(va[v].active.sent_ballot)}]
    <3>1. /\ \A w \in VAs \ {v} : va'[w] = va[w]
          /\ va'[v].active = Idle
          /\ va'[v].tracker = {va[v].active.tracker}
          /\ va'[v].randomizers = {Randomizers(va[v].active.sent_ballot)}
          /\ UNCHANGED <<va[v].authorization, va[v].keys>>
      BY <1>1, <2>2
    <3> QED
      BY <1>6, <2>2, <3>1 DEF PBBData
  <2> QED
    BY <1>6, <2>1, <2>2 DEF PBBData
<1>7. Rest => Fields
  OBVIOUS
<1>8. ASSUME StartBallotCheck(v) \/ StartCasting(v)
      PROVE  Rest
  BY <1>2, <1>8 DEF StartBallotCheck, StartCasting
<1>9. ASSUME StartAuthentication(v) \/ StartSubmission(v)
      PROVE  Rest
  BY <1>4, <1>9 DEF StartAuthentication, StartSubmission
<1>10. ASSUME SetIdle(v) \/ Finish(v) \/ UserApproval(v)
       PROVE  Rest
  BY <1>2, <1>3, <1>10 DEF SetIdle, Finish, UserApproval
<1>11. ASSUME NEW msg \in network, NEW signed \in BOOLEAN, VAReceive(v, msg, signed, clock)
       PROVE  Fields
  BY <1>2, <1>3, <1>5, <1>7, <1>11
  DEF VAReceive, AuthServiceToken, ReturnBallotTracker, CastConf, FwdCheckReq, InvalidVAInput
<1> HIDE DEF Fields, Rest
<1> QED
  BY <1>6, <1>7, <1>8, <1>9, <1>10, <1>11 DEF VAStep, VAActs

(* What the actor of a VA runs after a step.                               *)
ActiveAfter(v, active) ==
    \/ active = va[v].active
    \/ active = Idle
    \/ active = AwaitingToken(<<v, va[v].fresh>>)
    \/ \E msg \in network :
          /\ In(v, "AwaitingToken")
          /\ msg.type = "AuthServiceToken"
          /\ msg.voter_verifying_key = va[v].active.key
          /\ active = AwaitingFinishCommand(va[v].active.key, msg.token)
    \/ /\ In(v, "AwaitingFinishCommand")
       /\ active = AwaitingAuthorization(va[v].active.key)
    \/ \E auth \in va[v].authorization :
          active = AwaitingTracker(SignedBallot(auth, <<v, va[v].fresh>>, va[v].keys))
    \/ \E msg \in network :
          /\ In(v, "AwaitingTracker")
          /\ active = AwaitingBulletin(va[v].active.sent_ballot, msg.tracker)
    \/ \E tracker \in va[v].tracker : active = AwaitingConfirmation(tracker)
    \/ \E msg \in network :
          /\ In(v, "AwaitingRequest")
          /\ active = AwaitingUserApproval(va[v].active, msg.message)

LEMMA ActiveSteps ==
    ASSUME Types, NEW v \in VAs, VAStep(v)
    PROVE  \/ compared' = compared /\ ActiveAfter(v, va'[v].active)
           \/ \E key, tracker, randomizers :
                 /\ compared' = [compared EXCEPT ![v] = {}]
                 /\ va'[v].active = AwaitingRequest(key, tracker, randomizers)
<1> DEFINE After == ActiveAfter(v, va'[v].active)
<1>1. va \in [VAs -> VARecords(Box!Trackers, Box!CheckReqs)] /\ va[v] \in
          [active : VAActives(Box!Trackers, Box!CheckReqs), authorization : SUBSET VoterAuths,
           keys : SUBSET VoterKeys, tracker : SUBSET Box!Trackers,
           randomizers : SUBSET KeptRandomizers, fresh : Nat]
  BY DEF Types, VAsOK, VARecords
<1>2. ASSUME NEW active, Activate(v, active)
      PROVE  va'[v].active = active
  BY <1>1, <1>2 DEF Activate
<1>3. ASSUME Fail(v)
      PROVE  After
  BY <1>2, <1>3 DEF Fail, ActiveAfter
<1>4. ASSUME NEW active, va' = [va EXCEPT ![v].active = active, ![v].fresh = @ + 1]
      PROVE  va'[v].active = active
  BY <1>1, <1>4
<1>5. ASSUME NEW msg \in network, NEW signed \in BOOLEAN, VAReceive(v, msg, signed, clock)
      PROVE  After
  <2>1. CASE ConfirmAuthorization(v, msg, signed, clock)
    <3>1. va' = [va EXCEPT ![v].active = Idle, ![v].authorization = msg.voter_authorization,
                           ![v].keys = KeysAfter(v, msg)] => va'[v].active = Idle
      BY <1>1
    <3> QED
      BY <1>3, <2>1, <3>1 DEF ConfirmAuthorization, ActiveAfter
  <2>2. CASE AuthServiceToken(v, msg, signed)
    BY <1>2, <1>3, <2>2 DEF AuthServiceToken, ActiveAfter
  <2>3. CASE ReturnBallotTracker(v, msg, signed)
    BY <1>2, <1>3, <2>3 DEF ReturnBallotTracker, ActiveAfter
  <2>4. CASE CastConf(v, msg, signed) \/ InvalidVAInput(v, msg)
    BY <1>2, <1>3, <2>4 DEF CastConf, InvalidVAInput, ActiveAfter
  <2>5. CASE FwdCheckReq(v, msg, signed)
    BY <1>2, <2>5 DEF FwdCheckReq, AwaitsRequest, ActiveAfter
  <2> QED
    BY <1>5, <2>1, <2>2, <2>3, <2>4, <2>5 DEF VAReceive
<1>6. ASSUME NEW i \in GetBulletin(board, va[v].active.tracker), PBBData(v, board[i])
      PROVE  After
  <2>1. va' = [va EXCEPT ![v].active = Idle, ![v].tracker = {va[v].active.tracker},
                         ![v].randomizers = {Randomizers(va[v].active.sent_ballot)}] =>
            va'[v].active = Idle
    BY <1>1
  <2> QED
    BY <1>3, <1>6, <2>1 DEF PBBData, ActiveAfter
<1>7. ASSUME StartBallotCheck(v)
      PROVE  \E key, tracker, randomizers :
                va'[v].active = AwaitingRequest(key, tracker, randomizers)
  BY <1>2, <1>7 DEF StartBallotCheck
<1>8. ASSUME StartAuthentication(v)
      PROVE  After
  BY <1>4, <1>8 DEF StartAuthentication, ActiveAfter
<1>9. ASSUME StartSubmission(v)
      PROVE  After
  <2>1. PICK auth \in va[v].authorization :
            va' = [va EXCEPT ![v].active =
                        AwaitingTracker(SignedBallot(auth, <<v, va[v].fresh>>, va[v].keys)),
                             ![v].fresh = @ + 1]
    BY <1>9 DEF StartSubmission
  <2> QED
    BY <1>4, <2>1 DEF ActiveAfter
<1>10. ASSUME StartCasting(v)
       PROVE  After
  BY <1>2, <1>10 DEF StartCasting, ActiveAfter
<1>11. ASSUME SetIdle(v) \/ Finish(v) \/ UserApproval(v)
       PROVE  After
  BY <1>2, <1>3, <1>11 DEF SetIdle, Finish, UserApproval, ActiveAfter
<1> HIDE DEF After
<1> QED
  BY <1>5, <1>6, <1>7, <1>8, <1>9, <1>10, <1>11 DEF VAStep, VAActs, After

LEMMA KeysFitStep == Types /\ KeysFit /\ [Next]_vars => KeysFit'
<1> SUFFICES ASSUME Types, KeysFit, [Next]_vars PROVE KeysFit'
  OBVIOUS
<1>1. CASE UNCHANGED va
  BY <1>1 DEF KeysFit
<1>2. ASSUME NEW v \in VAs, VAStep(v)
      PROVE  KeysFit'
  <2>1. CASE UNCHANGED <<va[v].authorization, va[v].keys>>
    BY <1>2, <2>1, VAFields DEF KeysFit
  <2>2. ASSUME NEW msg \in network, ConfirmChecks(v, msg, clock),
               va'[v].authorization = msg.voter_authorization,
               va'[v].keys = KeysAfter(v, msg)
        PROVE  \A auth \in va'[v].authorization : va'[v].keys = {auth.voter_verifying_key}
    BY <2>2 DEF ConfirmChecks, KeysAfter
  <2> QED
    BY <1>2, <2>1, <2>2, VAFields DEF KeysFit
<1> QED
  BY <1>1, <1>2, StepsOfActors
  DEF Types, vars, vaVars, VALogsIn, EASStep, ASStep, Comparison, BoxStep, BCAStep, Tick

LEMMA KeysFitInit == Init => KeysFit
  BY InitialAuthorizations DEF VAInit, Actor, KeysFit

LEMMA TypesGiveTypeOK == Types /\ KeysFit => TypeOK
<1> SUFFICES ASSUME Types, KeysFit PROVE TypeOK
  OBVIOUS
<1>1. \A id \in DOMAIN requests :
          /\ requests[id].state \in DOMAIN Expected
          /\ requests[id].voter_verifying_key[1] \in VAs
          /\ requests[id].idle \in 0..NetworkTimeout + 1
  BY DEF Types, RequestsOK, VoterKeys
<1>2. ASSUME NEW v \in VAs
      PROVE  /\ va[v].active.state \in VAStates
             /\ va[v].authorization # {} => va[v].keys # {}
  <2>1. va[v].active \in VAActives(Box!Trackers, Box!CheckReqs)
    BY DEF Types, VAsOK, VARecords
  <2> QED
    BY <2>1, ActiveFields DEF KeysFit
<1>3. \A b \in BCAs : bca[b].active.state \in
          {"Idle", "DecryptAndDisplayBallot", "CheckBallotCastOrNotStatus"}
  BY DEF Types, BCAsOK, BCARecords, NoCheck
<1>4. sessions \in [VAs \cup BCAs -> {DBB!NoSession} \cup
          [state : DBB!SessionStates, check_req : {msg.req : msg \in
              {m \in network : m.type = "CheckReq"}}]]
  <2> DEFINE Reqs == {msg.req : msg \in {m \in network : m.type = "CheckReq"}}
  <2>1. ASSUME NEW c \in VAs \cup BCAs, sessions[c] # Box!NoSession
        PROVE  sessions[c] \in [state : DBB!SessionStates, check_req : Reqs]
    <3>1. sessions[c] \in [state : Box!SessionStates, check_req : Box!CheckReqs]
      BY <2>1 DEF Types, Box!TypeOK
    <3>2. sessions[c].check_req \in Reqs
      BY <2>1 DEF Types
    <3> QED
      BY <3>1, <3>2 DEF Box!SessionStates, DBB!SessionStates
  <2> QED
    BY <2>1 DEF Types, Box!TypeOK, Box!NoSession, DBB!NoSession
<1> QED
  BY <1>1, <1>2, <1>3, <1>4 DEF TypeOK, Types, RequestsOK

(* A request the EAS keeps waits for something, for no longer than the     *)
(* timeout; a VA that has an authorization has keys to sign with; and the  *)
(* ballot box checks only what some BCA asked it to.                       *)
THEOREM VotingTypes == Spec => []TypeOK
<1> QED
  BY TypesInit, TypesStep, KeysFitInit, KeysFitStep, TypesGiveTypeOK, PTL DEF Spec

-------------------------------------------------------------------------------
(* Request ids.                                                            *)

LEMMA RequestsKeepTheirVoter ==
    ASSUME Types, [Next]_vars, NEW id \in 0..next_available_id - 1, id \in DOMAIN requests'
    PROVE  /\ id \in DOMAIN requests
           /\ requests'[id].voter_verifying_key = requests[id].voter_verifying_key
<1> DEFINE Kept == /\ id \in DOMAIN requests
                   /\ requests'[id].voter_verifying_key = requests[id].voter_verifying_key
<1>1. RequestsOK
  BY DEF Types
<1>2. ASSUME Same(id)
      PROVE  Kept
  BY <1>2 DEF Same
<1>3. ASSUME NEW i \in DOMAIN requests, NEW request, OnlyChanged(i, request),
             request.voter_verifying_key = requests[i].voter_verifying_key
      PROVE  Kept
  BY <1>2, <1>3 DEF OnlyChanged
<1>4. ASSUME NEW msg \in network, Starts(msg)
      PROVE  Kept
  BY <1>1, <1>2, <1>4 DEF Starts, OnlyChanged, RequestsOK
<1>5. ASSUME NEW msg \in network, TakesToken(msg)
      PROVE  Kept
  BY <1>3, <1>5 DEF TakesToken, Waiting, Request
<1>6. ASSUME NEW i \in DOMAIN requests, NEW state,
             OnlyChanged(i, [requests[i] EXCEPT !.state = state, !.idle = 0])
      PROVE  Kept
  <2> DEFINE request == [requests[i] EXCEPT !.state = state, !.idle = 0]
  <2>1. request.voter_verifying_key = requests[i].voter_verifying_key
    BY <1>1 DEF RequestsOK
  <2>2. OnlyChanged(i, request)
    BY <1>6
  <2> HIDE DEF request
  <2> QED
    BY <1>3, <2>1, <2>2
<1>7. CASE EASStep
  BY <1>2, <1>4, <1>5, <1>6, <1>7
  DEF EASStep, TakesReport, TakesFinish, Waiting, Grants, Drops
<1>8. CASE Tick
  BY <1>1, <1>2, <1>8, TickOfRequests
<1>9. CASE UNCHANGED requests
  BY <1>9
<1> QED
  BY <1>1, <1>7, <1>8, <1>9, StepsOfActors
  DEF vars, easVars, VAStep, VALogsIn, ASStep, Comparison, BoxStep, BCAStep

(* A request that was purged or aborted is never live again, and a live    *)
(* one never comes to belong to another voter, however many requests there *)
(* are: late answers of the host and of the AS reach no one else.          *)
THEOREM NoRequestIsReused == Spec => RequestsAreNotReused
<1>1. Types /\ [Next]_vars =>
          [\A id \in 0..next_available_id - 1 :
              id \in DOMAIN requests' =>
                  /\ id \in DOMAIN requests
                  /\ requests'[id].voter_verifying_key = requests[id].voter_verifying_key]_vars
  BY RequestsKeepTheirVoter
<1> QED
  BY <1>1, TypesInit, TypesStep, PTL DEF Spec, RequestsAreNotReused

-------------------------------------------------------------------------------
(* Which messages an actor sends.                                          *)

LEMMA VAMessages ==
    ASSUME NEW v \in VAs, VAStep(v), NEW msg \in network' \ network
    PROVE  \/ msg.type \in {"AuthReq", "AuthFinish", "SubmitSignedBallot", "CastReq"}
           \/ /\ In(v, "AwaitingUserApproval")
              /\ compared[v] # {}
              /\ msg = RandomizerMsg(v, Randomizer(va[v].active))
              /\ msg.type = "Randomizer"
<1> USE DEF Send
<1> DEFINE Other == msg.type \in {"AuthReq", "AuthFinish", "SubmitSignedBallot", "CastReq"}
<1>1. ASSUME StartAuthentication(v) \/ Finish(v) \/ SetIdle(v) \/ StartBallotCheck(v)
      PROVE  Other
  BY <1>1 DEF StartAuthentication, Finish, Fail, SetIdle, StartBallotCheck, AuthReqMsg,
              AuthFinishMsg
<1>2. ASSUME StartSubmission(v) \/ StartCasting(v)
      PROVE  Other
  <2>1. \A ballot, req : Send(SignedBallotMsg(v, ballot)) \/ Send(CastReqMsg(v, req)) => Other
    BY DEF SignedBallotMsg, CastReqMsg
  <2> QED
    BY <1>2, <2>1 DEF StartSubmission, StartCasting
<1>3. \A i : ~PBBData(v, board[i])
  BY DEF PBBData, Fail
<1>4. \A m, signed : ~VAReceive(v, m, signed, clock)
  BY DEF VAReceive, AuthServiceToken, ConfirmAuthorization, ReturnBallotTracker,
         CastConf, FwdCheckReq, InvalidVAInput, Fail
<1> QED
  BY <1>1, <1>2, <1>3, <1>4 DEF VAStep, VAActs, UserApproval, RandomizerMsg

LEMMA EASMessages ==
    ASSUME EASStep, NEW msg \in network' \ network
    PROVE  \/ \E n \in network : Starts(n) /\ msg = InitAuthReqMsg(next_available_id)
           \/ \E n \in network :
                 /\ TakesToken(n)
                 /\ msg = AuthServiceTokenMsg(n.token, requests[n.id].voter_verifying_key)
           \/ \E id \in DOMAIN requests :
                 TakesFinish(id) /\ msg = AuthServiceQueryMsg(id, requests[id].session_id)
           \/ \E n \in network :
                 /\ TakesReport(n)
                 /\ msg = CheckBiographicalInfoMsg(n.id, n.biographical_info)
           \/ \E n \in network :
                 LET key == requests[n.id].voter_verifying_key
                     info == BiographicalInfoOkMsg(n.id, n.biographical_info, 1)
                 IN  /\ Grants(n)
                     /\ msg = ConfirmAuthorizationMsg(key, TRUE,
                                  {VoterAuthorization(info, key, clock)})
           \/ \E key \in VoterKeys : msg = ConfirmAuthorizationMsg(key, FALSE, {})
<1>1. \A m : Send(m) => msg = m
  BY DEF Send
<1>2. ASSUME NEW n \in network, Starts(n)
      PROVE  msg = InitAuthReqMsg(next_available_id)
  BY <1>1, <1>2 DEF Starts
<1>3. ASSUME NEW n \in network, TakesToken(n)
      PROVE  msg = AuthServiceTokenMsg(n.token, requests[n.id].voter_verifying_key)
  BY <1>1, <1>3 DEF TakesToken
<1>4. ASSUME NEW id \in DOMAIN requests, TakesFinish(id)
      PROVE  msg = AuthServiceQueryMsg(id, requests[id].session_id)
  BY <1>1, <1>4 DEF TakesFinish
<1>5. ASSUME NEW n \in network, TakesReport(n)
      PROVE  msg = CheckBiographicalInfoMsg(n.id, n.biographical_info)
  BY <1>1, <1>5 DEF TakesReport
<1>6. ASSUME NEW n \in network, Grants(n)
      PROVE  LET key == requests[n.id].voter_verifying_key
                 info == BiographicalInfoOkMsg(n.id, n.biographical_info, 1)
             IN  msg = ConfirmAuthorizationMsg(key, TRUE, {VoterAuthorization(info, key, clock)})
  BY <1>1, <1>6 DEF Grants
<1>7. ASSUME Drops
      PROVE  \E key \in VoterKeys : msg = ConfirmAuthorizationMsg(key, FALSE, {})
  BY <1>1, <1>7 DEF Drops
<1> QED
  BY <1>2, <1>3, <1>4, <1>5, <1>6, <1>7 DEF EASStep

LEMMA BCAMessages ==
    ASSUME NEW b \in BCAs, BCAStep(b), NEW msg \in network' \ network
    PROVE  msg.type = "CheckReq"
<1>1. ASSUME StartCheckOfBallot(b) PROVE msg.type = "CheckReq"
  BY <1>1 DEF StartCheckOfBallot, StartCheck, Send, CheckReqMsg
<1>2. ASSUME AbortSubprotocol(b) PROVE FALSE
  BY <1>2 DEF AbortSubprotocol, EndCheck
<1>3. ASSUME BCADecision(b) PROVE FALSE
  BY <1>3 DEF BCADecision, CastDecision, EndCheck
<1>4. ASSUME NEW m \in network, NEW signed \in BOOLEAN, FwdRandomizer(b, m, signed) PROVE FALSE
  BY <1>4 DEF FwdRandomizer, EndCheck
<1>5. ASSUME NEW m \in network, InvalidCheckInput(b, m) PROVE FALSE
  BY <1>5 DEF InvalidCheckInput, EndCheck
<1> QED
  BY <1>1, <1>2, <1>3, <1>4, <1>5 DEF BCAStep, BCAActs

-------------------------------------------------------------------------------
(* Compared keys.                                                          *)

LEMMA ComparedInit == Init => ComparedIsRequested
<1> SUFFICES ASSUME Init PROVE ComparedIsRequested
  OBVIOUS
<1>1. \A v \in VAs : compared[v] = {}
  BY DEF Init
<1> QED
  BY <1>1 DEF ComparedIsRequested

(* What a step of a VA makes of its checking sub-actor.                    *)
LEMMA CheckingSteps ==
    ASSUME Types, NEW v \in VAs, VAStep(v)
    PROVE  /\ \A w \in VAs \ {v} : va'[w] = va[w] /\ compared'[w] = compared[w]
           /\ \/ va'[v].active.state \notin {"AwaitingRequest", "AwaitingUserApproval"}
              \/ va'[v].active = va[v].active /\ compared'[v] = compared[v]
              \/ /\ In(v, "AwaitingRequest")
                 /\ va'[v].active.state = "AwaitingUserApproval"
                 /\ compared'[v] = compared[v]
              \/ va'[v].active.state = "AwaitingRequest" /\ compared'[v] = {}
<1>1. compared \in [VAs -> SUBSET CheckKeys]
  BY DEF Types
<1>2. ASSUME NEW active, ActiveAfter(v, active)
      PROVE  \/ active.state \notin {"AwaitingRequest", "AwaitingUserApproval"}
             \/ active = va[v].active
             \/ In(v, "AwaitingRequest") /\ active.state = "AwaitingUserApproval"
  BY <1>2
  DEF ActiveAfter, Idle, AwaitingToken, AwaitingFinishCommand, AwaitingAuthorization,
      AwaitingTracker, AwaitingBulletin, AwaitingConfirmation, AwaitingUserApproval
<1>3. ASSUME NEW key, NEW tracker, NEW randomizers,
             compared' = [compared EXCEPT ![v] = {}],
             va'[v].active = AwaitingRequest(key, tracker, randomizers)
      PROVE  /\ va'[v].active.state = "AwaitingRequest"
             /\ compared'[v] = {}
             /\ \A w \in VAs \ {v} : compared'[w] = compared[w]
  BY <1>1, <1>3 DEF AwaitingRequest
<1> QED
  BY <1>2, <1>3, VAFields, ActiveSteps

LEMMA ComparedIsRequestedStep ==
    Types /\ ComparedIsRequested /\ [Next]_vars => ComparedIsRequested'
<1> SUFFICES ASSUME Types, ComparedIsRequested, [Next]_vars PROVE ComparedIsRequested'
  OBVIOUS
<1>1. CASE UNCHANGED <<va, compared>>
  BY <1>1 DEF ComparedIsRequested, In
<1>2. ASSUME NEW v \in VAs, VAStep(v)
      PROVE  ComparedIsRequested'
  BY <1>2, CheckingSteps DEF ComparedIsRequested, In
<1>3. ASSUME NEW v \in VAs, NEW b \in BCAs, Comparison(v, b)
      PROVE  ComparedIsRequested'
  <2>1. /\ In(v, "AwaitingUserApproval")
        /\ compared' = [compared EXCEPT ![v] = {va[v].active.request.public_enc_key}]
        /\ va' = va
    BY <1>3 DEF Comparison, VoterCompares
  <2> QED
    BY <2>1 DEF ComparedIsRequested, In, Types
<1> QED
  BY <1>1, <1>2, <1>3, StepsOfActors
  DEF Types, vars, vaVars, VALogsIn, EASStep, ASStep, BoxStep, BCAStep, Tick

LEMMA RandomizersSent ==
    ASSUME Types, ComparedIsRequested, [Next]_vars,
           NEW msg \in network' \ network, msg.type = "Randomizer"
    PROVE  msg.randomizer.message.public_enc_key \in compared[msg.from]
<1>1. ASSUME NEW v \in VAs, VAStep(v)
      PROVE  msg.randomizer.message.public_enc_key \in compared[msg.from]
  <2>1. /\ In(v, "AwaitingUserApproval")
        /\ compared[v] # {}
        /\ msg = RandomizerMsg(v, Randomizer(va[v].active))
    BY <1>1, VAMessages
  <2>2. msg.from = v /\ msg.randomizer.message = va[v].active.request
    BY <2>1 DEF RandomizerMsg, Randomizer
  <2> QED
    BY <2>1, <2>2 DEF ComparedIsRequested
<1>2. ~EASStep
  BY EASMessages DEF InitAuthReqMsg, AuthServiceTokenMsg, AuthServiceQueryMsg,
                     CheckBiographicalInfoMsg, ConfirmAuthorizationMsg
<1>3. ~ASStep
  BY DEF ASStep, HandleInitAuthReq, HandleQuery, Send, TokenReturnMsg, AuthServiceReportMsg
<1>4. ~BoxStep
  BY DEF BoxStep, DBBMessages
<1>5. ASSUME NEW b \in BCAs
      PROVE  ~BCAStep(b)
  BY BCAMessages
<1> QED
  BY <1>1, <1>2, <1>3, <1>4, <1>5, StepsOfActors
  DEF Types, vars, VALogsIn, LogIn, Comparison, Tick

(* Randomizers leave a VA only for the key that the voter compared with    *)
(* the key on the screen of the ballot check application.                  *)
THEOREM RandomizersOnlyForComparedKeys == Spec => OnlyComparedKeysGetRandomizers
<1>1. Types /\ ComparedIsRequested /\ [Next]_vars =>
          [\A msg \in network' \ network : msg.type = "Randomizer" =>
              msg.randomizer.message.public_enc_key \in compared[msg.from]]_vars
  BY RandomizersSent
<1> QED
  BY <1>1, TypesInit, TypesStep, ComparedInit, ComparedIsRequestedStep, PTL
  DEF Spec, OnlyComparedKeysGetRandomizers
===============================================================================
