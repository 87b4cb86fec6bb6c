--------------------------- MODULE ElectionDayProofs ---------------------------
(***************************************************************************)
(* Proofs about election day, for any voters, registry, scenarios, number  *)
(* of requests and timeout: whom the election administration authorizes,   *)
(* and what voters and ballot checkers are told of their ballots.          *)
(*                                                                         *)
(* An authorization in a voter's name is for a key of that voter's VA,     *)
(* whose token the voter used to log in.  The inductive invariant follows  *)
(* a token on its way: the AS makes it for one request (TokensAreFresh),   *)
(* the EAS gives it out for one key (TokensAreBound), the voter with that  *)
(* key logs in with it (LoginsAreOwn), the AS and the host speak of that   *)
(* login (ReportsAreTrue), and the authorization is for it                 *)
(* (AuthsAreAuthenticated).                                                *)
(*                                                                         *)
(* With the authorization the VA votes.  What it keeps, what it reports to *)
(* its voter, and what a ballot check application confirms agree with the  *)
(* board.  What the ballot box guarantees by itself comes from the         *)
(* theorems of DigitalBallotBoxProofs, through ComposedBoxIsABallotBox.    *)
(***************************************************************************)
EXTENDS VotingProtocolProofs, FiniteSetTheorems, SequenceTheorems

-------------------------------------------------------------------------------
(* The inductive invariant of authentication.                              *)

Ids == 0..next_available_id - 1

(* The AS has made a token of its own for each request it was asked for.   *)
TokensAreFresh ==
    /\ \A m \in network : m.type = "InitAuthReq" => m.id \in Ids
    /\ \A m \in network : m.type = "TokenReturn" =>
          /\ m.id \in Ids
          /\ m.token \in DOMAIN as_sessions
          /\ m.session_id = m.token
    /\ \A m, n \in network : m.type = "TokenReturn" /\ n.type = "TokenReturn" =>
          (m.id = n.id <=> m.token = n.token)

(* The EAS hands out a token for the key of its request, and for no other. *)
Handed(m) ==
    /\ m = AuthServiceTokenMsg(m.token, m.voter_verifying_key)
    /\ \E t \in network :
          /\ t.type = "TokenReturn"
          /\ t.token = m.token
          /\ t.id \in DOMAIN requests => requests[t.id].state # "ReceiveTokenFromAS"

Bound(request) ==
    request.state # "ReceiveTokenFromAS" =>
        /\ request.session_id = request.token
        /\ request.token \in DOMAIN as_sessions
        /\ AuthServiceTokenMsg(request.token, request.voter_verifying_key) \in network

TokensAreBound ==
    /\ \A m \in network : m.type = "AuthServiceToken" => Handed(m)
    /\ \A m, n \in network :
          m.type = "AuthServiceToken" /\ n.type = "AuthServiceToken" /\ m.token = n.token =>
              m.voter_verifying_key = n.voter_verifying_key
    /\ \A id \in DOMAIN requests : Bound(requests[id])

(* Voters log in with tokens that were handed out for a key of theirs.     *)
LoginsAreOwn ==
    /\ \A v \in VAs :
          /\ va[v].active.state \in AUTHENTICATION => va[v].active.key[1] = v
          /\ In(v, "AwaitingFinishCommand") =>
                AuthServiceTokenMsg(va[v].active.token, va[v].active.key) \in network
    /\ \A token \in DOMAIN as_sessions : as_sessions[token] # Nobody =>
          \E m \in network : /\ m.type = "AuthServiceToken"
                             /\ m.token = token
                             /\ m.voter_verifying_key[1] = as_sessions[token]

Is(token, person) ==
    /\ token \in DOMAIN as_sessions
    /\ as_sessions[token] = person
    /\ person # Nobody

(* What the AS reports of a session, and what the EAS asks its host about, *)
(* is who is logged in to it.                                              *)
AskedFor(m) ==
    m.id \in DOMAIN requests =>
        /\ requests[m.id].state = "VerifyBiographicalInfo"
        /\ Is(requests[m.id].token, m.biographical_info)

ReportsAreTrue ==
    /\ \A m \in network : m.type = "AuthServiceReport" =>
          /\ m.session_id = m.token
          /\ m.authenticated => Is(m.token, m.biographical_info)
    /\ \A m \in network : m.type = "CheckBiographicalInfo" => m.id \in Ids /\ AskedFor(m)

(* An authorization is for the login that its key's token was used for.    *)
Authenticated(auth) ==
    /\ auth.voter_verifying_key[1] = auth.voter_pseudonym
    /\ auth.voter_pseudonym \in Registered
    /\ \E token \in DOMAIN as_sessions :
          /\ Is(token, auth.voter_pseudonym)
          /\ AuthServiceTokenMsg(token, auth.voter_verifying_key) \in network

AuthsAreAuthenticated ==
    \A m \in network : m.type = "ConfirmAuthorization" =>
        \A auth \in m.voter_authorization : Authenticated(auth)

Authentication ==
    /\ TokensAreFresh
    /\ TokensAreBound
    /\ LoginsAreOwn
    /\ ReportsAreTrue
    /\ AuthsAreAuthenticated

-------------------------------------------------------------------------------
(* What the steps add.                                                     *)

LEMMA AuthenticationInit == Init => Authentication
  BY DEF Init, EASInit, ASInit, VAInit, Actor, Idle, AUTHENTICATION, In, Authentication,
         TokensAreFresh, TokensAreBound, LoginsAreOwn, ReportsAreTrue, AuthsAreAuthenticated

(* Who sends a message.                                                    *)
SentBySomeone(m) ==
    /\ m.type = "InitAuthReq" => \E n \in network : Starts(n) /\ m.id = next_available_id
    /\ m.type = "TokenReturn" =>
          \E n \in network : /\ HandleInitAuthReq(n)
                             /\ LET t == Len(as_sessions) + 1 IN m = TokenReturnMsg(n.id, t, t)
    /\ m.type = "AuthServiceToken" =>
          \E n \in network :
              /\ TakesToken(n)
              /\ m = AuthServiceTokenMsg(n.token, requests[n.id].voter_verifying_key)
    /\ m.type = "AuthServiceReport" =>
          \E n \in network :
              /\ n.type = "AuthServiceQuery"
              /\ LET person == as_sessions[n.session_id]
                 IN  m = AuthServiceReportMsg(n.id, n.session_id, n.session_id,
                                              person # Nobody, person)
              /\ UNCHANGED as_sessions
    /\ m.type = "CheckBiographicalInfo" =>
          \E n \in network :
              /\ TakesReport(n)
              /\ m = CheckBiographicalInfoMsg(n.id, n.biographical_info)
    /\ m.type = "ConfirmAuthorization" =>
          \/ m.voter_authorization = {}
          \/ \E n \in network :
                LET key == requests[n.id].voter_verifying_key
                    info == BiographicalInfoOkMsg(n.id, n.biographical_info, 1)
                IN  /\ Grants(n)
                    /\ m.voter_authorization = {VoterAuthorization(info, key, clock)}

LEMMA Sent ==
    ASSUME Types, [Next]_vars, NEW m \in network' \ network
    PROVE  SentBySomeone(m)
<1> USE DEF SentBySomeone
<1>1. RequestsOK
  BY DEF Types
<1>2. ASSUME NEW v \in VAs, VAStep(v)
      PROVE  SentBySomeone(m)
  <2>1. m.type \in {"AuthReq", "AuthFinish", "SubmitSignedBallot", "CastReq", "Randomizer"}
    BY <1>2, VAMessages
  <2> QED
    BY <2>1
<1>3. CASE EASStep
  <2>1. \A k, r, auths : ConfirmAuthorizationMsg(k, r, auths).voter_authorization = auths
    BY DEF ConfirmAuthorizationMsg
  <2>2. ASSUME NEW n \in network,
               LET key == requests[n.id].voter_verifying_key
                   info == BiographicalInfoOkMsg(n.id, n.biographical_info, 1)
               IN  /\ Grants(n)
                   /\ m = ConfirmAuthorizationMsg(key, TRUE,
                              {VoterAuthorization(info, key, clock)})
        PROVE  SentBySomeone(m)
    BY <2>1, <2>2 DEF ConfirmAuthorizationMsg
  <2>3. ASSUME NEW key, m = ConfirmAuthorizationMsg(key, FALSE, {})
        PROVE  SentBySomeone(m)
    BY <2>1, <2>3 DEF ConfirmAuthorizationMsg
  <2>4. ASSUME NEW n \in network, Starts(n), m = InitAuthReqMsg(next_available_id)
        PROVE  SentBySomeone(m)
    BY <2>4 DEF InitAuthReqMsg
  <2>5. ASSUME NEW n \in network, TakesToken(n),
               m = AuthServiceTokenMsg(n.token, requests[n.id].voter_verifying_key)
        PROVE  SentBySomeone(m)
    BY <2>5 DEF AuthServiceTokenMsg
  <2>6. ASSUME NEW id, m = AuthServiceQueryMsg(id, requests[id].session_id)
        PROVE  SentBySomeone(m)
    BY <2>6 DEF AuthServiceQueryMsg
  <2>7. ASSUME NEW n \in network, TakesReport(n),
               m = CheckBiographicalInfoMsg(n.id, n.biographical_info)
        PROVE  SentBySomeone(m)
    BY <2>7 DEF CheckBiographicalInfoMsg
  <2> HIDE DEF SentBySomeone
  <2> QED
    BY <1>3, <2>2, <2>3, <2>4, <2>5, <2>6, <2>7, EASMessages
<1>4. ASSUME NEW n \in network, HandleInitAuthReq(n)
      PROVE  SentBySomeone(m)
  BY <1>4 DEF HandleInitAuthReq, Send, TokenReturnMsg
<1>5. ASSUME NEW n \in network, HandleQuery(n)
      PROVE  SentBySomeone(m)
  BY <1>5 DEF HandleQuery, Send, AuthServiceReportMsg
<1>6. CASE BoxStep
  BY <1>6 DEF BoxStep, DBBMessages
<1>7. ASSUME NEW b \in BCAs, BCAStep(b)
      PROVE  SentBySomeone(m)
  BY <1>7, BCAMessages
<1> HIDE DEF SentBySomeone
<1> QED
  BY <1>1, <1>2, <1>3, <1>4, <1>5, <1>6, <1>7, StepsOfActors
  DEF ASStep, vars, VALogsIn, LogIn, Comparison, Tick

(* What becomes of a request of the EAS.                                   *)
RequestAfter(id) ==
    \/ Same(id)
    \/ /\ id = next_available_id
       /\ requests'[id].state = "ReceiveTokenFromAS"
    \/ \E n \in network :
          /\ TakesToken(n)
          /\ n.id = id
          /\ requests'[id] = Request("ReceiveAuthFinishMsg", requests[id].voter_verifying_key,
                                     n.token, n.session_id)
    \/ /\ Waiting(id, "ReceiveAuthFinishMsg") \/ Waiting(id, "CheckReplyFromAS")
       /\ requests'[id].state \in {"CheckReplyFromAS", "VerifyBiographicalInfo"}
       /\ requests'[id].voter_verifying_key = requests[id].voter_verifying_key
       /\ requests'[id].token = requests[id].token
       /\ requests'[id].session_id = requests[id].session_id

LEMMA RequestSteps ==
    ASSUME Types, [Next]_vars
    PROVE  /\ Ids \subseteq Ids'
           /\ \A id \in DOMAIN requests' : RequestAfter(id)
<1>1. RequestsOK
  BY DEF Types
<1>2. ASSUME NEW i \in DOMAIN requests, NEW state \in {"CheckReplyFromAS", "VerifyBiographicalInfo"},
             Waiting(i, "ReceiveAuthFinishMsg") \/ Waiting(i, "CheckReplyFromAS"),
             OnlyChanged(i, [requests[i] EXCEPT !.state = state, !.idle = 0])
      PROVE  \A id \in DOMAIN requests' : RequestAfter(id)
  <2> DEFINE request == [requests[i] EXCEPT !.state = state, !.idle = 0]
  <2>1. /\ request.state = state
        /\ request.voter_verifying_key = requests[i].voter_verifying_key
        /\ request.token = requests[i].token
        /\ request.session_id = requests[i].session_id
    BY <1>1 DEF RequestsOK
  <2>2. OnlyChanged(i, request)
    BY <1>2
  <2> HIDE DEF request
  <2> QED
    BY <1>2, <2>1, <2>2 DEF OnlyChanged, RequestAfter
<1> DEFINE Goal == /\ next_available_id' \in {next_available_id, next_available_id + 1}
                   /\ \A id \in DOMAIN requests' : RequestAfter(id)
<1>3. ASSUME NEW n \in network, Starts(n)
      PROVE  Goal
  BY <1>3 DEF Starts, OnlyChanged, RequestAfter, Request
<1>4. ASSUME NEW n \in network, TakesToken(n)
      PROVE  Goal
  BY <1>4 DEF TakesToken, OnlyChanged, RequestAfter, Waiting
<1>5. ASSUME NEW n \in network, TakesReport(n)
      PROVE  Goal
  BY <1>2, <1>5 DEF TakesReport, Waiting
<1>6. ASSUME NEW i \in DOMAIN requests, TakesFinish(i)
      PROVE  Goal
  BY <1>2, <1>6 DEF TakesFinish
<1>7. ASSUME NEW n \in network, Grants(n)
      PROVE  Goal
  BY <1>7 DEF Grants, RequestAfter
<1>8. ASSUME Drops
      PROVE  Goal
  BY <1>8 DEF Drops, RequestAfter
<1>9. ASSUME Tick
      PROVE  Goal
  BY <1>1, <1>9, TickOfRequests DEF RequestAfter
<1>10. ASSUME UNCHANGED <<requests, next_available_id>>
       PROVE  Goal
  BY <1>1, <1>10, AllSame DEF RequestAfter
<1> HIDE DEF Goal
<1>11. Goal
  BY <1>1, <1>3, <1>4, <1>5, <1>6, <1>7, <1>8, <1>9, <1>10, StepsOfActors
  DEF vars, easVars, VAStep, VALogsIn, EASStep, ASStep, Comparison, BoxStep, BCAStep
<1>12. Ids \subseteq Ids'
  <2>1. next_available_id \in Nat
    BY <1>1 DEF RequestsOK
  <2>2. next_available_id' \in Nat /\ next_available_id <= next_available_id'
    BY <1>11, <2>1 DEF Goal
  <2>3. \A n, m \in Nat : n <= m => 0..n - 1 \subseteq 0..m - 1
    OBVIOUS
  <2> QED
    BY <2>1, <2>2, <2>3 DEF Ids
<1> QED
  BY <1>11, <1>12 DEF Goal

(* What becomes of a session of the AS.                                    *)
LEMMA LoginSteps ==
    ASSUME Types, [Next]_vars, NEW t \in DOMAIN as_sessions', as_sessions'[t] # Nobody
    PROVE  /\ t \in DOMAIN as_sessions
           /\ \/ as_sessions'[t] = as_sessions[t]
              \/ \E v \in VAs : /\ In(v, "AwaitingFinishCommand")
                                /\ t = va[v].active.token
                                /\ as_sessions'[t] = v
<1> DEFINE Goal ==
        /\ t \in DOMAIN as_sessions
        /\ \/ as_sessions'[t] = as_sessions[t]
           \/ \E v \in VAs : /\ In(v, "AwaitingFinishCommand")
                             /\ t = va[v].active.token
                             /\ as_sessions'[t] = v
<1>1. RequestsOK /\ as_sessions \in Seq(VAs \cup {Nobody})
  BY DEF Types
<1>2. ASSUME NEW v \in VAs, VALogsIn(v)
      PROVE  Goal
  BY <1>1, <1>2 DEF VALogsIn, LogIn
<1>3. ASSUME NEW n, HandleInitAuthReq(n)
      PROVE  Goal
  BY <1>1, <1>3 DEF HandleInitAuthReq
<1>4. ASSUME UNCHANGED as_sessions
      PROVE  Goal
  BY <1>4
<1> HIDE DEF Goal
<1>5. Goal
  BY <1>1, <1>2, <1>3, <1>4, StepsOfActors
  DEF vars, VAStep, EASStep, ASStep, HandleQuery, Comparison, BoxStep, BCAStep, Tick
<1> QED
  BY <1>5 DEF Goal

(* Logins, and what rests on them, last.                                   *)
LEMMA LoginsLast ==
    ASSUME Types, [Next]_vars, NEW token, NEW person, Is(token, person)
    PROVE  Is(token, person)'
  BY SessionsStep DEF Is

-------------------------------------------------------------------------------
(* Each part of the invariant is kept.                                     *)

LEMMA TokensAreFreshStep ==
    ASSUME Types, TokensAreFresh, [Next]_vars
    PROVE  TokensAreFresh'
<1>1. /\ RequestsOK
      /\ as_sessions \in Seq(VAs \cup {Nobody})
      /\ Ids \subseteq Ids'
      /\ \A t \in DOMAIN as_sessions : t \in DOMAIN as_sessions'
  BY RequestSteps, SessionsStep DEF Types
<1>2. ASSUME NEW m \in network', m.type = "InitAuthReq"
      PROVE  m.id \in Ids'
  <2>1. CASE m \in network
    BY <1>1, <1>2, <2>1 DEF TokensAreFresh
  <2>2. CASE m \notin network
    <3>1. m.id = next_available_id /\ next_available_id' = next_available_id + 1
      BY <1>2, <2>2, Sent DEF SentBySomeone, Starts
    <3> QED
      BY <1>1, <3>1 DEF Ids, RequestsOK
  <2> QED
    BY <2>1, <2>2
<1> DEFINE New(m) == \E n \in network :
               /\ HandleInitAuthReq(n)
               /\ LET t == Len(as_sessions) + 1 IN m = TokenReturnMsg(n.id, t, t)
<1>3. ASSUME NEW m, New(m)
      PROVE  /\ m.id \in Ids
             /\ m.token = Len(as_sessions) + 1
             /\ m.token \notin DOMAIN as_sessions
             /\ m.token \in DOMAIN as_sessions'
             /\ m.session_id = m.token
             /\ \A n \in network : n.type = "TokenReturn" => n.id # m.id
             /\ network' = network \cup {m}
  BY <1>1, <1>3 DEF TokensAreFresh, HandleInitAuthReq, Send, TokenReturnMsg
<1>4. ASSUME NEW m \in network', m.type = "TokenReturn"
      PROVE  m \in network \/ New(m)
  BY <1>4, Sent DEF SentBySomeone
<1> HIDE DEF New
<1>5. ASSUME NEW m \in network', m.type = "TokenReturn"
      PROVE  m.id \in Ids' /\ m.token \in DOMAIN as_sessions' /\ m.session_id = m.token
  BY <1>1, <1>3, <1>4, <1>5 DEF TokensAreFresh
<1>6. ASSUME NEW m \in network', NEW n \in network',
             m.type = "TokenReturn", n.type = "TokenReturn"
      PROVE  m.id = n.id <=> m.token = n.token
  <2>1. CASE m \in network /\ n \in network
    BY <1>6, <2>1 DEF TokensAreFresh
  <2>2. CASE New(m) /\ n \in network
    BY <1>3, <1>6, <2>2 DEF TokensAreFresh
  <2>3. CASE m \in network /\ New(n)
    BY <1>3, <1>6, <2>3 DEF TokensAreFresh
  <2>4. CASE New(m) /\ New(n) /\ m \notin network
    <3>1. m = n \/ n \in network
      BY <1>3, <2>4
    <3> QED
      BY <1>3, <1>6, <2>4, <3>1 DEF TokensAreFresh
  <2> QED
    BY <1>4, <1>6, <2>1, <2>2, <2>3, <2>4
<1> QED
  BY <1>2, <1>5, <1>6 DEF TokensAreFresh

LEMMA TokensAreBoundStep ==
    ASSUME Types, TokensAreFresh, TokensAreBound, [Next]_vars
    PROVE  TokensAreBound'
<1>1. /\ RequestsOK
      /\ network \subseteq network'
      /\ \A t \in DOMAIN as_sessions : t \in DOMAIN as_sessions'
      /\ \A id \in DOMAIN requests' : RequestAfter(id)
  BY RequestSteps, SessionsStep, NetworkStep DEF Types
<1>2. next_available_id \notin Ids
  BY <1>1 DEF Ids, RequestsOK
<1> DEFINE Key(n) == requests[n.id].voter_verifying_key
           New(m) == \E n \in network : TakesToken(n) /\ m = AuthServiceTokenMsg(n.token, Key(n))
<1>3. ASSUME NEW m \in network', m.type = "AuthServiceToken"
      PROVE  m \in network \/ New(m)
  BY <1>3, Sent DEF SentBySomeone
<1>4. ASSUME NEW n \in network, TakesToken(n)
      PROVE  /\ n.type = "TokenReturn"
             /\ n.id \in DOMAIN requests
             /\ requests[n.id].state = "ReceiveTokenFromAS"
             /\ n.id \in DOMAIN requests' => requests'[n.id].state = "ReceiveAuthFinishMsg"
             /\ network' = network \cup {AuthServiceTokenMsg(n.token, Key(n))}
             /\ n.token \in DOMAIN as_sessions
             /\ n.session_id = n.token
  BY <1>4 DEF TakesToken, Waiting, OnlyChanged, Request, Send, TokensAreFresh
<1>5. ASSUME NEW id \in Ids, id \in DOMAIN requests',
             requests'[id].state = "ReceiveTokenFromAS"
      PROVE  id \in DOMAIN requests /\ requests[id].state = "ReceiveTokenFromAS"
  BY <1>1, <1>2, <1>5 DEF RequestAfter, Same, Request
<1>6. ASSUME NEW m \in network', m.type = "AuthServiceToken"
      PROVE  Handed(m)'
  <2>1. CASE m \in network
    <3>1. Handed(m)
      BY <1>6, <2>1 DEF TokensAreBound
    <3>2. PICK t \in network :
             /\ t.type = "TokenReturn"
             /\ t.token = m.token
             /\ t.id \in DOMAIN requests => requests[t.id].state # "ReceiveTokenFromAS"
      BY <3>1 DEF Handed
    <3>3. t.id \in Ids
      BY <3>2 DEF TokensAreFresh
    <3> QED
      BY <1>1, <1>5, <3>1, <3>2, <3>3 DEF Handed
  <2>2. ASSUME NEW n \in network, TakesToken(n), m = AuthServiceTokenMsg(n.token, Key(n))
        PROVE  Handed(m)'
    BY <1>1, <1>4, <2>2 DEF Handed, AuthServiceTokenMsg
  <2> QED
    BY <1>3, <1>6, <2>1, <2>2
<1>7. ASSUME NEW n \in network, TakesToken(n), NEW m \in network, m.type = "AuthServiceToken"
      PROVE  m.token # n.token
  <2>1. PICK t \in network :
             /\ t.type = "TokenReturn"
             /\ t.token = m.token
             /\ t.id \in DOMAIN requests => requests[t.id].state # "ReceiveTokenFromAS"
    BY <1>7 DEF TokensAreBound, Handed
  <2> QED
    BY <1>4, <1>7, <2>1 DEF TokensAreFresh
<1>8. ASSUME NEW m \in network', NEW n \in network', m.type = "AuthServiceToken",
             n.type = "AuthServiceToken", m.token = n.token
      PROVE  m.voter_verifying_key = n.voter_verifying_key
  <2>1. ASSUME NEW k \in network', k.type = "AuthServiceToken", New(k)
        PROVE  /\ network' = network \cup {k}
               /\ \A l \in network : l.type = "AuthServiceToken" => l.token # k.token
    BY <1>4, <1>7, <2>1 DEF AuthServiceTokenMsg
  <2> HIDE DEF New
  <2> QED
    BY <1>3, <1>8, <2>1 DEF TokensAreBound
<1>9. ASSUME NEW id \in DOMAIN requests'
      PROVE  Bound(requests[id])'
  <2> DEFINE Kept == /\ requests'[id].voter_verifying_key = requests[id].voter_verifying_key
                     /\ requests'[id].token = requests[id].token
                     /\ requests'[id].session_id = requests[id].session_id
  <2>1. ASSUME id \in DOMAIN requests, requests[id].state # "ReceiveTokenFromAS", Kept
        PROVE  Bound(requests[id])'
    <3>1. Bound(requests[id])
      BY <2>1 DEF TokensAreBound
    <3> QED
      BY <1>1, <2>1, <3>1 DEF Bound
  <2>2. CASE Same(id)
    <3>1. id \in DOMAIN requests /\ Kept /\ requests'[id].state = requests[id].state
      BY <2>2 DEF Same
    <3>2. CASE requests[id].state = "ReceiveTokenFromAS"
      BY <3>1, <3>2 DEF Bound
    <3> QED
      BY <2>1, <3>1, <3>2
  <2>3. ASSUME NEW n \in network, TakesToken(n), n.id = id,
               requests'[id] = Request("ReceiveAuthFinishMsg", requests[id].voter_verifying_key,
                                       n.token, n.session_id)
        PROVE  Bound(requests[id])'
    <3>1. /\ requests'[id].voter_verifying_key = Key(n)
          /\ requests'[id].token = n.token
          /\ requests'[id].session_id = n.session_id
      BY <2>3 DEF Request
    <3> QED
      BY <1>1, <1>4, <2>3, <3>1 DEF Bound
  <2>4. CASE requests'[id].state = "ReceiveTokenFromAS"
    BY <2>4 DEF Bound
  <2> QED
    BY <1>1, <1>9, <2>1, <2>2, <2>3, <2>4 DEF RequestAfter, Waiting
<1> QED
  BY <1>6, <1>8, <1>9 DEF TokensAreBound

(* A key belongs to the VA that made it, in every sub-state.               *)
LEMMA KeysOfVoters ==
    ASSUME Types, TokensAreBound, LoginsAreOwn, NEW v \in VAs, VAStep(v)
    PROVE  /\ va'[v].active.state \in AUTHENTICATION => va'[v].active.key[1] = v
           /\ va'[v].active.state = "AwaitingFinishCommand" =>
                 AuthServiceTokenMsg(va'[v].active.token, va'[v].active.key) \in network
<1> DEFINE Own(active) ==
        /\ active.state \in AUTHENTICATION => active.key[1] = v
        /\ active.state = "AwaitingFinishCommand" =>
              AuthServiceTokenMsg(active.token, active.key) \in network
<1>1. Own(va[v].active)
  BY DEF LoginsAreOwn, In
<1>2. ASSUME NEW msg \in network, In(v, "AwaitingToken"), msg.type = "AuthServiceToken",
             msg.voter_verifying_key = va[v].active.key
      PROVE  Own(AwaitingFinishCommand(va[v].active.key, msg.token))
  <2>1. msg = AuthServiceTokenMsg(msg.token, va[v].active.key)
    BY <1>2 DEF TokensAreBound, Handed
  <2>2. va[v].active.key[1] = v
    BY <1>1, <1>2 DEF In, AUTHENTICATION
  <2> QED
    BY <1>2, <2>1, <2>2 DEF AwaitingFinishCommand
<1>3. ASSUME In(v, "AwaitingFinishCommand")
      PROVE  Own(AwaitingAuthorization(va[v].active.key))
  BY <1>1, <1>3 DEF In, AUTHENTICATION, AwaitingAuthorization
<1>4. Own(Idle) /\ Own(AwaitingToken(<<v, va[v].fresh>>))
  BY DEF Idle, AwaitingToken, AUTHENTICATION
<1>5. \A x, y, z : /\ Own(AwaitingTracker(x))
                   /\ Own(AwaitingBulletin(x, y))
                   /\ Own(AwaitingConfirmation(x))
                   /\ Own(AwaitingUserApproval(x, y))
                   /\ Own(AwaitingRequest(x, y, z))
  BY DEF AwaitingTracker, AwaitingBulletin, AwaitingConfirmation, AwaitingUserApproval,
         AwaitingRequest, AUTHENTICATION
<1> HIDE DEF Own
<1>6. Own(va'[v].active)
  BY <1>1, <1>2, <1>3, <1>4, <1>5, ActiveSteps DEF ActiveAfter
<1> QED
  BY <1>6 DEF Own

LEMMA LoginsAreOwnStep ==
    ASSUME Types, TokensAreBound, LoginsAreOwn, [Next]_vars
    PROVE  LoginsAreOwn'
<1>1. /\ RequestsOK
      /\ network \subseteq network'
  BY NetworkStep DEF Types
<1>2. ASSUME NEW v \in VAs
      PROVE  /\ va'[v].active.state \in AUTHENTICATION => va'[v].active.key[1] = v
             /\ In(v, "AwaitingFinishCommand")' =>
                   AuthServiceTokenMsg(va'[v].active.token, va'[v].active.key) \in network'
  <2>1. CASE va'[v] = va[v]
    BY <1>1, <2>1 DEF LoginsAreOwn, In
  <2>2. CASE VAStep(v)
    BY <1>1, <2>2, KeysOfVoters DEF In
  <2>3. ASSUME NEW w \in VAs, VAStep(w), w # v
        PROVE  va'[v] = va[v]
    BY <2>3, VAFields
  <2> QED
    BY <1>1, <2>1, <2>2, <2>3, StepsOfActors
    DEF vars, vaVars, VALogsIn, EASStep, ASStep, Comparison, BoxStep, BCAStep, Tick
<1>3. ASSUME NEW t \in DOMAIN as_sessions', as_sessions'[t] # Nobody
      PROVE  \E m \in network' : /\ m.type = "AuthServiceToken"
                                 /\ m.token = t
                                 /\ m.voter_verifying_key[1] = as_sessions'[t]
  <2>1. CASE t \in DOMAIN as_sessions /\ as_sessions'[t] = as_sessions[t]
    BY <1>1, <1>3, <2>1 DEF LoginsAreOwn
  <2>2. ASSUME NEW v \in VAs, In(v, "AwaitingFinishCommand"), t = va[v].active.token,
               as_sessions'[t] = v
        PROVE  \E m \in network' : /\ m.type = "AuthServiceToken"
                                   /\ m.token = t
                                   /\ m.voter_verifying_key[1] = as_sessions'[t]
    <3> DEFINE m == AuthServiceTokenMsg(va[v].active.token, va[v].active.key)
    <3>1. m \in network' /\ va[v].active.key[1] = v
      BY <1>1, <2>2 DEF LoginsAreOwn, In, AUTHENTICATION
    <3>2. m.type = "AuthServiceToken" /\ m.token = t /\ m.voter_verifying_key = va[v].active.key
      BY <2>2 DEF AuthServiceTokenMsg
    <3> QED
      BY <2>2, <3>1, <3>2
  <2> QED
    BY <1>3, <2>1, <2>2, LoginSteps
<1> QED
  BY <1>2, <1>3 DEF LoginsAreOwn

LEMMA ReportsAreTrueStep ==
    ASSUME Types, ReportsAreTrue, [Next]_vars
    PROVE  ReportsAreTrue'
<1>1. /\ RequestsOK
      /\ \A m \in network : MessageOK(m)
      /\ Ids \subseteq Ids'
      /\ \A id \in DOMAIN requests' : RequestAfter(id)
  BY RequestSteps DEF Types
<1>2. ASSUME NEW m \in network', m.type = "AuthServiceReport"
      PROVE  /\ m.session_id = m.token
             /\ m.authenticated => Is(m.token, m.biographical_info)'
  <2>1. CASE m \in network
    BY <1>2, <2>1, LoginsLast DEF ReportsAreTrue
  <2>2. ASSUME NEW n \in network, n.type = "AuthServiceQuery", NEW person,
               person = as_sessions[n.session_id],
               m = AuthServiceReportMsg(n.id, n.session_id, n.session_id,
                                        person # Nobody, person)
        PROVE  /\ m.session_id = m.token
               /\ m.authenticated => Is(m.token, m.biographical_info)'
    <3>1. /\ m.session_id = n.session_id
          /\ m.token = n.session_id
          /\ m.authenticated = (person # Nobody)
          /\ m.biographical_info = person
      BY <2>2 DEF AuthServiceReportMsg
    <3>2. n.session_id \in DOMAIN as_sessions
      BY <1>1, <2>2 DEF MessageOK
    <3>3. person # Nobody => Is(n.session_id, person)
      BY <2>2, <3>2 DEF Is
    <3>4. person # Nobody => Is(m.token, m.biographical_info)'
      BY <3>1, <3>3, LoginsLast
    <3> QED
      BY <3>1, <3>4
  <2> QED
    BY <1>2, <2>1, <2>2, Sent DEF SentBySomeone
<1>3. ASSUME NEW m \in network', m.type = "CheckBiographicalInfo"
      PROVE  m.id \in Ids' /\ AskedFor(m)'
  <2>1. CASE m \in network
    <3>1. m.id \in Ids /\ AskedFor(m)
      BY <1>3, <2>1 DEF ReportsAreTrue
    <3>2. ASSUME m.id \in DOMAIN requests'
          PROVE  Same(m.id)
      <4>1. m.id # next_available_id
        BY <1>1, <3>1 DEF Ids, RequestsOK
      <4> QED
        BY <1>1, <3>1, <3>2, <4>1 DEF RequestAfter, AskedFor, TakesToken, Waiting
    <3>3. ASSUME m.id \in DOMAIN requests'
          PROVE  /\ m.id \in DOMAIN requests
                 /\ requests'[m.id].state = requests[m.id].state
                 /\ requests'[m.id].token = requests[m.id].token
      BY <3>2, <3>3 DEF Same
    <3> QED
      BY <1>1, <3>1, <3>3, LoginsLast DEF AskedFor
  <2>2. ASSUME NEW n \in network, TakesReport(n),
               m = CheckBiographicalInfoMsg(n.id, n.biographical_info)
        PROVE  m.id \in Ids' /\ AskedFor(m)'
    <3>1. m.id = n.id /\ m.biographical_info = n.biographical_info
      BY <2>2 DEF CheckBiographicalInfoMsg
    <3>2. n.id \in DOMAIN requests /\ n.id \in Ids'
      BY <1>1, <2>2 DEF TakesReport, Waiting, RequestsOK, Ids
    <3>3. Is(n.token, n.biographical_info)'
      <4>1. Is(n.token, n.biographical_info)
        BY <2>2 DEF TakesReport, ReportChecks, ReportsAreTrue
      <4> QED
        BY <4>1, LoginsLast
    <3>4. ASSUME n.id \in DOMAIN requests'
          PROVE  /\ requests'[n.id].state = "VerifyBiographicalInfo"
                 /\ requests'[n.id].token = n.token
      <4>1. requests'[n.id] =
                [requests[n.id] EXCEPT !.state = "VerifyBiographicalInfo", !.idle = 0]
        BY <2>2, <3>4 DEF TakesReport, OnlyChanged
      <4>2. requests[n.id].token = n.token
        BY <2>2 DEF TakesReport, ReportChecks
      <4> QED
        BY <1>1, <3>2, <4>1, <4>2 DEF RequestsOK
    <3> QED
      BY <3>1, <3>2, <3>3, <3>4 DEF AskedFor
  <2> QED
    BY <1>3, <2>1, <2>2, Sent DEF SentBySomeone
<1> QED
  BY <1>2, <1>3 DEF ReportsAreTrue

LEMMA AuthsAreAuthenticatedStep ==
    ASSUME Types, Authentication, [Next]_vars
    PROVE  AuthsAreAuthenticated'
<1>1. network \subseteq network' /\ RequestsOK
  BY NetworkStep DEF Types
<1>2. ASSUME NEW auth, Authenticated(auth)
      PROVE  Authenticated(auth)'
  <2>1. PICK token \in DOMAIN as_sessions :
            /\ Is(token, auth.voter_pseudonym)
            /\ AuthServiceTokenMsg(token, auth.voter_verifying_key) \in network
    BY <1>2 DEF Authenticated
  <2>2. Is(token, auth.voter_pseudonym)'
    BY <2>1, LoginsLast
  <2> QED
    BY <1>1, <1>2, <2>1, <2>2 DEF Authenticated, Is
<1>3. ASSUME NEW n \in network, Grants(n)
      PROVE  LET key == requests[n.id].voter_verifying_key
                 info == BiographicalInfoOkMsg(n.id, n.biographical_info, 1)
             IN  Authenticated(VoterAuthorization(info, key, clock))
  <2> DEFINE key == requests[n.id].voter_verifying_key
             token == requests[n.id].token
             person == n.biographical_info
  <2>1. /\ n.type = "CheckBiographicalInfo"
        /\ n.id \in DOMAIN requests
        /\ requests[n.id].state = "VerifyBiographicalInfo"
        /\ person \in Registered
    BY <1>3 DEF Grants, Waiting
  <2>2. Is(token, person)
    BY <2>1 DEF Authentication, ReportsAreTrue, AskedFor
  <2>3. AuthServiceTokenMsg(token, key) \in network /\ token \in DOMAIN as_sessions
    BY <2>1 DEF Authentication, TokensAreBound, Bound
  <2>4. PICK m \in network : /\ m.type = "AuthServiceToken"
                             /\ m.token = token
                             /\ m.voter_verifying_key[1] = person
    BY <2>2 DEF Authentication, LoginsAreOwn, Is
  <2>5. m.voter_verifying_key = key
    <3>1. /\ AuthServiceTokenMsg(token, key).type = "AuthServiceToken"
          /\ AuthServiceTokenMsg(token, key).token = token
          /\ AuthServiceTokenMsg(token, key).voter_verifying_key = key
      BY DEF AuthServiceTokenMsg
    <3> QED
      BY <2>3, <2>4, <3>1 DEF Authentication, TokensAreBound
  <2> DEFINE auth == VoterAuthorization(
                 BiographicalInfoOkMsg(n.id, n.biographical_info, 1), key, clock)
  <2>6. auth.voter_verifying_key = key /\ auth.voter_pseudonym = person
    BY DEF VoterAuthorization, BiographicalInfoOkMsg
  <2> HIDE DEF auth, key, token, person
  <2>7. Authenticated(auth)
    BY <2>1, <2>2, <2>3, <2>4, <2>5, <2>6 DEF Authenticated
  <2> QED
    BY <2>7 DEF auth, key
<1>4. ASSUME NEW m \in network', m.type = "ConfirmAuthorization", NEW auth \in m.voter_authorization
      PROVE  Authenticated(auth)'
  <2>1. CASE m \in network
    BY <1>2, <1>4, <2>1 DEF Authentication, AuthsAreAuthenticated
  <2>2. CASE m \notin network
    <3>1. PICK n \in network :
              LET key == requests[n.id].voter_verifying_key
                  info == BiographicalInfoOkMsg(n.id, n.biographical_info, 1)
              IN  Grants(n) /\ auth = VoterAuthorization(info, key, clock)
      BY <1>4, <2>2, Sent DEF SentBySomeone
    <3> QED
      BY <1>2, <1>3, <3>1
  <2> QED
    BY <2>1, <2>2
<1> QED
  BY <1>4 DEF AuthsAreAuthenticated

LEMMA AuthenticationStep ==
    Types /\ Authentication /\ [Next]_vars => Authentication'
  BY TokensAreFreshStep, TokensAreBoundStep, LoginsAreOwnStep, ReportsAreTrueStep,
     AuthsAreAuthenticatedStep
  DEF Authentication

(* A token goes from the AS through one request to one key, and back as    *)
(* the login of the voter who has the key.                                 *)
THEOREM TokensLeadBackToTheirVoters == Spec => []Authentication
<1> QED
  BY TypesInit, TypesStep, AuthenticationInit, AuthenticationStep, PTL DEF Spec

(* Every authorization that the EAS ever sends in a voter's name is for a  *)
(* key which that voter's VA made, and for which the voter logged in:      *)
(* whatever answers are late, lost or repeated, and whichever requests     *)
(* expired or were aborted meanwhile.                                      *)
THEOREM AuthorizedKeysAreAuthenticated == Spec => []AuthorizedKeyAuthenticated
<1>1. Authentication => AuthorizedKeyAuthenticated
  <2> SUFFICES ASSUME Authentication, NEW auth \in Authorizations
               PROVE  Authenticated(auth)
    BY DEF AuthorizedKeyAuthenticated, Authenticated, Is
  <2> QED
    BY DEF Authorizations, Authentication, AuthsAreAuthenticated
<1> QED
  BY <1>1, TokensLeadBackToTheirVoters, PTL

-------------------------------------------------------------------------------
(* The inductive invariant of the ballots.                                 *)

(* A VA is authorized in the name of its voter.                            *)
AuthorizationsAreOwn ==
    \A v \in VAs : \A auth \in va[v].authorization : auth.voter_pseudonym = v

(* The ballot that a VA waits to see on the board is its voter's.          *)
SubmissionsAreOwn ==
    \A v \in VAs : va[v].active.state \in SUBMITTING =>
        va[v].active.sent_ballot.auth.voter_pseudonym = v

(* A tracker that a VA keeps is that of a submission of its voter.         *)
TrackerFits(v, tracker, randomizers) ==
    \E i \in GetBulletin(board, tracker) :
        /\ board[i].type = SUBMISSION
        /\ board[i].contents.ballot.auth.voter_pseudonym = v
        /\ randomizers = {Randomizers(board[i].contents.ballot)}

TrackersAreOwn ==
    \A v \in VAs : \A tracker \in va[v].tracker :
        TrackerFits(v, tracker, va[v].randomizers)

SubmittedBy(v, tracker) ==
    \E i \in GetBulletin(board, tracker) :
        /\ board[i].type = SUBMISSION
        /\ board[i].contents.ballot.auth.voter_pseudonym = v

(* ... and so is the one that it asked to be cast.                         *)
CastingsAreOwn ==
    \A v \in VAs : In(v, "AwaitingConfirmation") => SubmittedBy(v, va[v].active.tracker)

CastTogether(tracker, cast_tracker) ==
    \E i \in GetBulletin(board, tracker), j \in GetBulletin(board, cast_tracker) :
        /\ board[i].type = SUBMISSION
        /\ board[j].type = CAST
        /\ board[j].contents.ballot = board[i].contents.ballot

(* The ballot box confirms what is on the board.                           *)
ConfirmationsAreTrue ==
    \A m \in network : m.type = "CastConf" /\ m.ok =>
        CastTogether(m.ballot_sub_tracker, m.ballot_cast_tracker)

ReceiptsAreTrue ==
    \A receipt \in receipts :
        /\ SubmittedBy(receipt.voter, receipt.tracker)
        /\ CastTogether(receipt.tracker, receipt.cast_tracker)

(* A BCA checks the ballot behind the tracker that it sent.                *)
BallotBehind(tracker, ballot) ==
    \E i \in GetBulletin(board, tracker) : board[i].contents.ballot = ballot

ChecksAreOfBallots ==
    \A b \in BCAs : bca[b].active # NoCheck =>
        BallotBehind(bca[b].active.sent_check_req_msg.tracker, bca[b].active.ballot)

WasCast(ballot) ==
    \E i \in DOMAIN board : board[i].type = CAST /\ board[i].contents.ballot = ballot

VerdictsAreTrue ==
    \A verdict \in verdicts :
        /\ BallotBehind(verdict.tracker, verdict.ballot)
        /\ verdict.decision = "Cast" => WasCast(verdict.ballot)

VoterFits == AuthorizationsAreOwn /\ SubmissionsAreOwn /\ TrackersAreOwn /\ CastingsAreOwn

ReportsFit == ConfirmationsAreTrue /\ ReceiptsAreTrue

ChecksFit == ChecksAreOfBallots /\ VerdictsAreTrue

-------------------------------------------------------------------------------
(* What is on the board stays there.                                       *)

LEMMA OnBoardLasts ==
    ASSUME Types, [Next]_vars
    PROVE  /\ \A tracker : \A i \in GetBulletin(board, tracker) :
                 i \in GetBulletin(board', tracker) /\ board'[i] = board[i]
           /\ \A v, tracker : SubmittedBy(v, tracker) => SubmittedBy(v, tracker)'
           /\ \A v, tracker, r : TrackerFits(v, tracker, r) => TrackerFits(v, tracker, r)'
           /\ \A t, c : CastTogether(t, c) => CastTogether(t, c)'
           /\ \A t, ballot : BallotBehind(t, ballot) => BallotBehind(t, ballot)'
           /\ \A ballot : WasCast(ballot) => WasCast(ballot)'
<1>1. \A i \in DOMAIN board : i \in DOMAIN board' /\ board'[i] = board[i]
  BY BoardGrows
<1>2. \A tracker : \A i \in GetBulletin(board, tracker) :
          i \in GetBulletin(board', tracker) /\ board'[i] = board[i]
  BY <1>1 DEF GetBulletin
<1> QED
  BY <1>1, <1>2 DEF SubmittedBy, TrackerFits, CastTogether, BallotBehind, WasCast

LEMMA BallotsInit == Init => VoterFits /\ ReportsFit /\ ChecksFit
<1> SUFFICES ASSUME Init PROVE VoterFits /\ ReportsFit /\ ChecksFit
  OBVIOUS
<1>1. PICK authorizations \in [VAs -> SUBSET VoterAuths] :
          /\ VAInit(authorizations)
          /\ \A v \in VAs : authorizations[v] \subseteq {InitialAuthorization(v)}
  BY InitialAuthorizations
<1>2. VoterFits
  BY <1>1
  DEF VAInit, Actor, Idle, InitialAuthorization, In, SUBMITTING, VoterFits,
      AuthorizationsAreOwn, SubmissionsAreOwn, TrackersAreOwn, CastingsAreOwn
<1>3. ReportsFit /\ ChecksFit
  BY DEF Init, VAInit, BCAInit, ReportsFit, ConfirmationsAreTrue, ReceiptsAreTrue,
         ChecksFit, ChecksAreOfBallots, VerdictsAreTrue
<1> QED
  BY <1>2, <1>3

-------------------------------------------------------------------------------
(* What a VA keeps.                                                        *)

LEMMA AuthorizationsOfVoter ==
    ASSUME Types, Authentication, AuthorizationsAreOwn, NEW v \in VAs, VAStep(v)
    PROVE  \A auth \in va'[v].authorization : auth.voter_pseudonym = v
<1>1. ASSUME NEW msg \in network, In(v, "AwaitingAuthorization"),
             msg.type = "ConfirmAuthorization", ConfirmChecks(v, msg, clock),
             NEW auth \in msg.voter_authorization
      PROVE  auth.voter_pseudonym = v
  <2>1. auth.voter_verifying_key = va[v].active.key
    BY <1>1 DEF ConfirmChecks
  <2>2. va[v].active.key[1] = v
    BY <1>1 DEF Authentication, LoginsAreOwn, In, AUTHENTICATION
  <2>3. auth.voter_verifying_key[1] = auth.voter_pseudonym
    BY <1>1 DEF Authentication, AuthsAreAuthenticated, Authenticated
  <2> QED
    BY <2>1, <2>2, <2>3
<1> QED
  BY <1>1, VAFields DEF AuthorizationsAreOwn

(* What a VA waits for is its voter's, in every sub-state.                 *)
LEMMA ActivesOfVoter ==
    ASSUME Types, VoterFits, NEW v \in VAs, VAStep(v)
    PROVE  /\ va'[v].active.state \in SUBMITTING =>
                 va'[v].active.sent_ballot.auth.voter_pseudonym = v
           /\ va'[v].active.state = "AwaitingConfirmation" =>
                 SubmittedBy(v, va'[v].active.tracker)
<1> DEFINE Own(active) ==
        /\ active.state \in SUBMITTING => active.sent_ballot.auth.voter_pseudonym = v
        /\ active.state = "AwaitingConfirmation" => SubmittedBy(v, active.tracker)
<1>1. Own(va[v].active)
  BY DEF VoterFits, SubmissionsAreOwn, CastingsAreOwn, In
<1>2. ASSUME NEW auth \in va[v].authorization, NEW id, NEW keys
      PROVE  Own(AwaitingTracker(SignedBallot(auth, id, keys)))
  <2>1. SignedBallot(auth, id, keys).auth.voter_pseudonym = v
    BY DEF VoterFits, AuthorizationsAreOwn, SignedBallot
  <2> QED
    BY <2>1 DEF AwaitingTracker
<1>3. ASSUME In(v, "AwaitingTracker"), NEW tracker
      PROVE  Own(AwaitingBulletin(va[v].active.sent_ballot, tracker))
  BY <1>1, <1>3 DEF In, SUBMITTING, AwaitingBulletin
<1>4. ASSUME NEW tracker \in va[v].tracker
      PROVE  Own(AwaitingConfirmation(tracker))
  BY DEF VoterFits, TrackersAreOwn, TrackerFits, SubmittedBy, SUBMITTING, AwaitingConfirmation
<1>5. \A x, y, z : /\ Own(Idle)
                   /\ Own(AwaitingToken(x))
                   /\ Own(AwaitingFinishCommand(x, y))
                   /\ Own(AwaitingAuthorization(x))
                   /\ Own(AwaitingUserApproval(x, y))
                   /\ Own(AwaitingRequest(x, y, z))
  BY DEF Idle, AwaitingToken, AwaitingFinishCommand, AwaitingAuthorization,
         AwaitingUserApproval, AwaitingRequest, SUBMITTING
<1> HIDE DEF Own
<1>6. ASSUME NEW active, ActiveAfter(v, active)
      PROVE  Own(active)
  BY <1>1, <1>2, <1>3, <1>4, <1>5, <1>6 DEF ActiveAfter
<1>7. Own(va'[v].active)
  BY <1>5, <1>6, ActiveSteps
<1> QED
  BY <1>7 DEF Own

LEMMA TrackersOfVoter ==
    ASSUME Types, VoterFits, NEW v \in VAs, VAStep(v), NEW tracker \in va'[v].tracker
    PROVE  TrackerFits(v, tracker, va'[v].randomizers)
<1>1. ASSUME NEW i \in GetBulletin(board, va[v].active.tracker), In(v, "AwaitingBulletin"),
             BulletinChecks(v, board[i])
      PROVE  TrackerFits(v, va[v].active.tracker, {Randomizers(va[v].active.sent_ballot)})
  <2>1. va[v].active.sent_ballot.auth.voter_pseudonym = v
    BY <1>1 DEF VoterFits, SubmissionsAreOwn, In, SUBMITTING
  <2> QED
    BY <1>1, <2>1 DEF TrackerFits, BulletinChecks
<1>2. CASE UNCHANGED <<va[v].tracker, va[v].randomizers>>
  <2>1. TrackerFits(v, tracker, va[v].randomizers)
    BY <1>2 DEF VoterFits, TrackersAreOwn
  <2> QED
    BY <1>2, <2>1
<1>3. ASSUME NEW i \in GetBulletin(board, va[v].active.tracker), In(v, "AwaitingBulletin"),
             BulletinChecks(v, board[i]),
             va'[v].tracker = {va[v].active.tracker},
             va'[v].randomizers = {Randomizers(va[v].active.sent_ballot)}
      PROVE  TrackerFits(v, tracker, va'[v].randomizers)
  <2>1. tracker = va[v].active.tracker
    BY <1>3
  <2> QED
    BY <1>1, <1>3, <2>1
<1> QED
  BY <1>2, <1>3, VAFields

LEMMA VoterFitsStep == Types /\ Authentication /\ VoterFits /\ [Next]_vars => VoterFits'
<1> SUFFICES ASSUME Types, Authentication, VoterFits, [Next]_vars PROVE VoterFits'
  OBVIOUS
<1>1. RequestsOK
  BY DEF Types
<1> DEFINE Fits(v, actor) ==
        /\ \A auth \in actor.authorization : auth.voter_pseudonym = v
        /\ actor.active.state \in SUBMITTING =>
              actor.active.sent_ballot.auth.voter_pseudonym = v
        /\ \A tracker \in actor.tracker : \A r :
              r = actor.randomizers => TrackerFits(v, tracker, r)'
        /\ \A tracker :
              actor.active.state = "AwaitingConfirmation" /\ tracker = actor.active.tracker =>
                  SubmittedBy(v, tracker)'
<1>2. ASSUME NEW v \in VAs
      PROVE  Fits(v, va[v])
  BY OnBoardLasts
  DEF VoterFits, AuthorizationsAreOwn, SubmissionsAreOwn, TrackersAreOwn, CastingsAreOwn, In
<1>3. ASSUME NEW v \in VAs, VAStep(v)
      PROVE  Fits(v, va'[v])
  BY <1>3, AuthorizationsOfVoter, ActivesOfVoter, TrackersOfVoter, OnBoardLasts DEF VoterFits
<1>4. ASSUME NEW v \in VAs
      PROVE  Fits(v, va'[v])
  <2>1. ASSUME NEW w \in VAs, VAStep(w), w # v
        PROVE  va'[v] = va[v]
    BY <2>1, VAFields
  <2> HIDE DEF Fits
  <2> QED
    BY <1>1, <1>2, <1>3, <2>1, StepsOfActors
    DEF vars, vaVars, VALogsIn, EASStep, ASStep, Comparison, BoxStep, BCAStep, Tick
<1> QED
  BY <1>4
  DEF VoterFits, AuthorizationsAreOwn, SubmissionsAreOwn, TrackersAreOwn, CastingsAreOwn, In

(* What a VA keeps fits together, whatever replies to abandoned runs come  *)
(* in: its authorization is its voter's and for the keys it holds, and its *)
(* tracker that of the ballot whose randomizers it would hand out.         *)
THEOREM SessionsStayConsistent == Spec => []SessionsAreConsistent
<1>1. KeysFit /\ VoterFits => SessionsAreConsistent
  BY DEF KeysFit, VoterFits, AuthorizationsAreOwn, TrackersAreOwn, TrackerFits,
         SessionsAreConsistent
<1> QED
  BY <1>1, TypesInit, TypesStep, KeysFitInit, KeysFitStep, AuthenticationInit,
     AuthenticationStep, BallotsInit, VoterFitsStep, PTL
  DEF Spec

-------------------------------------------------------------------------------
(* What the ballot box confirms, and what a VA reports to its voter.       *)

LEMMA ConfirmationsSent ==
    ASSUME Types, [Next]_vars,
           NEW m \in network' \ network, m.type = "CastConf", m.ok
    PROVE  CastTogether(m.ballot_sub_tracker, m.ballot_cast_tracker)'
<1>1. ~EASStep
  BY EASMessages DEF InitAuthReqMsg, AuthServiceTokenMsg, AuthServiceQueryMsg,
                     CheckBiographicalInfoMsg, ConfirmAuthorizationMsg
<1>2. ~ASStep
  BY DEF ASStep, HandleInitAuthReq, HandleQuery, Send, TokenReturnMsg, AuthServiceReportMsg
<1>3. (\A v \in VAs : ~VAStep(v)) /\ (\A b \in BCAs : ~BCAStep(b))
  BY VAMessages, BCAMessages
<1>4. RequestsOK
  BY DEF Types
<1>5. BoxStep /\ m = output'
  BY <1>1, <1>2, <1>3, <1>4, StepsOfActors
  DEF BoxStep, vars, VALogsIn, LogIn, Comparison, Tick
<1>6. Box!TypeOK /\ Box!Next
  BY <1>5, BoxSteps DEF Types
<1>7. \E i \in GetBulletin(board', m.ballot_sub_tracker),
         j \in GetBulletin(board', m.ballot_cast_tracker) :
            /\ board'[i].type = SUBMISSION
            /\ board'[j].type = CAST
            /\ board'[j].contents.ballot = board'[i].contents.ballot
  BY <1>5, <1>6, BoxConstants, Box!Replies
  DEF Box!GetBulletin, GetBulletin, Box!Hash, Hash, Box!SUBMISSION, SUBMISSION, Box!CAST, CAST
<1> QED
  BY <1>7 DEF CastTogether

LEMMA ReceiptsGiven ==
    ASSUME Types, CastingsAreOwn, ConfirmationsAreTrue, [Next]_vars,
           NEW receipt \in receipts' \ receipts
    PROVE  /\ SubmittedBy(receipt.voter, receipt.tracker)
           /\ CastTogether(receipt.tracker, receipt.cast_tracker)
<1> DEFINE True(r) == SubmittedBy(r.voter, r.tracker) /\ CastTogether(r.tracker, r.cast_tracker)
<1>1. ASSUME NEW v \in VAs, NEW m \in network, NEW signed \in BOOLEAN, CastConf(v, m, signed)
      PROVE  True(receipt)
  <2>1. /\ m.type = "CastConf" /\ m.ok
        /\ m.ballot_sub_tracker = va[v].active.tracker
        /\ receipt = [voter |-> v, tracker |-> va[v].active.tracker,
                      cast_tracker |-> m.ballot_cast_tracker]
    BY <1>1 DEF CastConf, Fail, ConfirmationChecks
  <2>2. /\ receipt.voter = v
        /\ receipt.tracker = va[v].active.tracker
        /\ receipt.cast_tracker = m.ballot_cast_tracker
    BY <2>1
  <2>3. SubmittedBy(v, va[v].active.tracker)
    BY <1>1 DEF CastConf, CastingsAreOwn
  <2> QED
    BY <2>1, <2>2, <2>3 DEF ConfirmationsAreTrue
<1>2. ASSUME NEW v \in VAs, NEW m, NEW signed
      PROVE  /\ VAReceive(v, m, signed, clock) => CastConf(v, m, signed)
             /\ \A bulletin : ~PBBData(v, bulletin)
             /\ ~StartAuthentication(v) /\ ~StartSubmission(v) /\ ~StartCasting(v)
             /\ ~SetIdle(v) /\ ~Finish(v) /\ ~UserApproval(v) /\ ~StartBallotCheck(v)
  BY DEF VAReceive, AuthServiceToken, ConfirmAuthorization, ReturnBallotTracker, FwdCheckReq,
         InvalidVAInput, PBBData, StartAuthentication, StartSubmission, StartCasting, SetIdle,
         Finish, UserApproval, StartBallotCheck, Fail
<1>3. RequestsOK
  BY DEF Types
<1> HIDE DEF True
<1>4. True(receipt)
  BY <1>1, <1>2, <1>3, StepsOfActors
  DEF VAStep, VAActs, vars, vaVars, VALogsIn, EASStep, ASStep, Comparison, BoxStep, BCAStep, Tick
<1> QED
  BY <1>4 DEF True

LEMMA ReceiptsStay ==
    ASSUME Types, [Next]_vars
    PROVE  receipts \subseteq receipts' /\ verdicts \subseteq verdicts'
<1>1. ASSUME NEW v \in VAs, VAStep(v)
      PROVE  receipts \subseteq receipts'
  BY <1>1
  DEF VAStep, VAActs, VAReceive, AuthServiceToken, ConfirmAuthorization, ReturnBallotTracker,
      CastConf, FwdCheckReq, InvalidVAInput, PBBData, StartAuthentication, StartSubmission,
      StartCasting, SetIdle, Finish, UserApproval, StartBallotCheck, Fail
<1>2. RequestsOK
  BY DEF Types
<1> QED
  BY <1>1, <1>2, StepsOfActors
  DEF vars, vaVars, bcaVars, VAStep, VALogsIn, EASStep, ASStep, Comparison, BoxStep, BCAStep,
      Tick, BCAActs, StartCheckOfBallot, StartCheck, AbortSubprotocol, BCADecision,
      CastDecision, FwdRandomizer, InvalidCheckInput

LEMMA ReportsFitStep == Types /\ VoterFits /\ ReportsFit /\ [Next]_vars => ReportsFit'
<1> SUFFICES ASSUME Types, VoterFits, ReportsFit, [Next]_vars PROVE ReportsFit'
  OBVIOUS
<1>1. ConfirmationsAreTrue'
  BY OnBoardLasts, ConfirmationsSent DEF ReportsFit, ConfirmationsAreTrue
<1>2. ReceiptsAreTrue'
  BY OnBoardLasts, ReceiptsGiven DEF VoterFits, ReportsFit, ReceiptsAreTrue
<1> QED
  BY <1>1, <1>2 DEF ReportsFit

(* A voter who is told that the ballot is cast finds it on the board: the  *)
(* confirmation that the VA accepts is for the tracker it asked about, and *)
(* the DBB sends none before the append.                                   *)
THEOREM ConfirmedBallotsAreCast == Spec => []ConfirmedCastIsOnBoard
<1>1. \A a, b : Hash(a) = Hash(b) => a = b
  BY DEF Hash
<1>2. ReportsFit => ConfirmedCastIsOnBoard
  BY <1>1 DEF ReportsFit, ReceiptsAreTrue, SubmittedBy, CastTogether, GetBulletin,
              ConfirmedCastIsOnBoard
<1> QED
  BY <1>2, TypesInit, TypesStep, AuthenticationInit, AuthenticationStep, BallotsInit,
     VoterFitsStep, ReportsFitStep, PTL
  DEF Spec

-------------------------------------------------------------------------------
(* What a BCA checks, and what it confirms.                                *)

LEMMA ChecksOfBallots ==
    ASSUME Types, ChecksAreOfBallots, NEW b \in BCAs, BCAStep(b), bca'[b].active # NoCheck
    PROVE  BallotBehind(bca'[b].active.sent_check_req_msg.tracker, bca'[b].active.ballot)
<1>1. bca \in [BCAs -> BCARecords(Box!CheckReqs)]
  BY DEF Types, BCAsOK
<1>2. ASSUME EndCheck(b)
      PROVE  FALSE
  BY <1>1, <1>2 DEF EndCheck, BCARecords
<1>3. CASE StartCheckOfBallot(b)
  <2>1. PICK i \in DOMAIN board : StartCheck(b, Hash(board[i]), board[i].contents.ballot)
    BY <1>3 DEF StartCheckOfBallot
  <2>2. /\ bca'[b].active.sent_check_req_msg.tracker = Hash(board[i])
        /\ bca'[b].active.ballot = board[i].contents.ballot
    BY <1>1, <2>1 DEF StartCheck, CheckRequest
  <2> QED
    BY <2>2 DEF BallotBehind, GetBulletin
<1>4. ASSUME NEW msg \in network, NEW signed \in BOOLEAN, FwdRandomizer(b, msg, signed)
      PROVE  BallotBehind(bca'[b].active.sent_check_req_msg.tracker, bca'[b].active.ballot)
  <2>1. /\ bca[b].active.state = "DecryptAndDisplayBallot"
        /\ bca' = [bca EXCEPT ![b].active.state = "CheckBallotCastOrNotStatus"]
    BY <1>2, <1>4 DEF FwdRandomizer
  <2>2. /\ bca'[b].active.sent_check_req_msg = bca[b].active.sent_check_req_msg
        /\ bca'[b].active.ballot = bca[b].active.ballot
    BY <1>1, <2>1 DEF BCARecords, NoCheck
  <2>3. bca[b].active # NoCheck
    BY <2>1 DEF NoCheck
  <2> QED
    BY <2>2, <2>3 DEF ChecksAreOfBallots
<1> QED
  BY <1>2, <1>3, <1>4
  DEF BCAStep, BCAActs, AbortSubprotocol, BCADecision, CastDecision, InvalidCheckInput

LEMMA VerdictsGiven ==
    ASSUME Types, ChecksAreOfBallots, NEW b \in BCAs, BCAStep(b),
           NEW verdict \in verdicts' \ verdicts
    PROVE  /\ BallotBehind(verdict.tracker, verdict.ballot)
           /\ verdict.decision = "Cast" => WasCast(verdict.ballot)
<1>1. BCADecision(b)
  BY DEF BCAStep, BCAActs, StartCheckOfBallot, StartCheck, AbortSubprotocol, FwdRandomizer,
         InvalidCheckInput
<1>2. PICK decision \in {"Cast", "NotCast"}, length \in 0..Len(board) :
          CastDecision(b, decision,
              BulletinsOf(bca[b].active.ballot.auth.voter_pseudonym, length))
  BY <1>1 DEF BCADecision
<1> DEFINE bulletins == BulletinsOf(bca[b].active.ballot.auth.voter_pseudonym, length)
<1>3. /\ bca[b].active.state = "CheckBallotCastOrNotStatus"
      /\ Confirmed(decision, bulletins, bca[b].active.ballot)
      /\ verdict = [tracker |-> bca[b].active.sent_check_req_msg.tracker,
                    ballot |-> bca[b].active.ballot, decision |-> decision]
  BY <1>2 DEF CastDecision
<1>4. BallotBehind(verdict.tracker, verdict.ballot)
  BY <1>3 DEF ChecksAreOfBallots, NoCheck
<1>5. ASSUME decision = "Cast"
      PROVE  WasCast(bca[b].active.ballot)
  <2>1. Casts(bulletins) # {}
    <3>1. Cardinality(Casts(bulletins)) = 1
      BY <1>3, <1>5 DEF Confirmed
    <3>2. Cardinality({}) # 1
      BY FS_EmptySet
    <3> QED
      BY <3>1, <3>2, Zenon
  <2>2. PICK bulletin \in Casts(bulletins) : bulletin.contents.ballot = bca[b].active.ballot
    BY <1>3, <1>5, <2>1 DEF Confirmed
  <2>3. PICK i \in 1..length : bulletin = board[i]
    BY <2>2 DEF Casts, BulletinsOf
  <2>4. 1..length \subseteq DOMAIN board
    <3>1. board \in Seq({board[j] : j \in DOMAIN board})
      BY DEF Types, Box!TypeOK
    <3>2. DOMAIN board = 1..Len(board) /\ Len(board) \in Nat
      BY <3>1, LenProperties
    <3> QED
      BY <1>2, <3>2
  <2> QED
    BY <2>2, <2>3, <2>4 DEF Casts, WasCast
<1> QED
  BY <1>3, <1>4, <1>5

LEMMA ChecksFitStep == Types /\ ChecksFit /\ [Next]_vars => ChecksFit'
<1> SUFFICES ASSUME Types, ChecksFit, [Next]_vars PROVE ChecksFit'
  OBVIOUS
<1>1. RequestsOK
  BY DEF Types
<1>2. ASSUME NEW b \in BCAs, BCAStep(b), NEW c \in BCAs \ {b}
      PROVE  bca'[c] = bca[c]
  BY <1>2
  DEF Types, BCAsOK, BCAStep, BCAActs, StartCheckOfBallot, StartCheck, AbortSubprotocol,
      BCADecision, CastDecision, FwdRandomizer, InvalidCheckInput, EndCheck
<1>3. ASSUME NEW b \in BCAs, bca'[b].active # NoCheck
      PROVE  \A tracker, ballot :
                /\ tracker = bca'[b].active.sent_check_req_msg.tracker
                /\ ballot = bca'[b].active.ballot
                => BallotBehind(tracker, ballot)'
  <2>1. ASSUME bca'[b] = bca[b]
        PROVE  BallotBehind(bca'[b].active.sent_check_req_msg.tracker, bca'[b].active.ballot)
    BY <1>3, <2>1 DEF ChecksFit, ChecksAreOfBallots
  <2>2. BallotBehind(bca'[b].active.sent_check_req_msg.tracker, bca'[b].active.ballot)
    BY <1>1, <1>2, <1>3, <2>1, ChecksOfBallots, StepsOfActors
    DEF ChecksFit, vars, bcaVars, VAStep, VALogsIn, EASStep, ASStep, Comparison, BoxStep, Tick
  <2> QED
    BY <2>2, OnBoardLasts
<1>4. ASSUME NEW verdict \in verdicts'
      PROVE  /\ BallotBehind(verdict.tracker, verdict.ballot)
             /\ verdict.decision = "Cast" => WasCast(verdict.ballot)
  BY <1>1, <1>4, VerdictsGiven, StepsOfActors
  DEF ChecksFit, VerdictsAreTrue, vars, bcaVars, VAStep, VALogsIn, EASStep, ASStep,
      Comparison, BoxStep, Tick
<1>5. VerdictsAreTrue'
  BY <1>4, OnBoardLasts DEF VerdictsAreTrue
<1> QED
  BY <1>3, <1>5 DEF ChecksFit, ChecksAreOfBallots

(* A ballot check that ends well means what it says: the ballot shown is   *)
(* the one behind the tracker, and a ballot confirmed as cast is the only  *)
(* one its voter ever has cast.                                            *)
THEOREM BallotChecksAreSound == Spec => []ChecksAreSound
<1>1. ASSUME Types, ChecksFit, Box!AtMostOneCast
      PROVE  ChecksAreSound
  <2>1. ASSUME NEW verdict \in verdicts, verdict.decision = "Cast"
        PROVE  {board[i].contents.ballot : i \in
                  OfVoter(board, CAST, verdict.ballot.auth.voter_pseudonym)} = {verdict.ballot}
    <3>1. PICK i \in DOMAIN board :
              board[i].type = CAST /\ board[i].contents.ballot = verdict.ballot
      BY <1>1, <2>1 DEF ChecksFit, VerdictsAreTrue, WasCast
    <3>2. verdict.ballot.auth.voter_pseudonym \in Box!Voters
      BY <1>1, <3>1, SubmissionsOnBoard DEF Box!SignedBallots, Box!Voters
    <3>3. \A j \in OfVoter(board, CAST, verdict.ballot.auth.voter_pseudonym) : j = i
      BY <1>1, <3>1, <3>2 DEF Box!AtMostOneCast, Box!Casts, Box!OfVoter, OfVoter, Box!CAST, CAST
    <3>4. i \in OfVoter(board, CAST, verdict.ballot.auth.voter_pseudonym)
      BY <3>1 DEF OfVoter
    <3> QED
      BY <3>1, <3>3, <3>4
  <2> QED
    BY <1>1, <2>1 DEF ChecksFit, VerdictsAreTrue, BallotBehind, ChecksAreSound
<1> QED
  BY <1>1, TypesInit, TypesStep, BallotsInit, ChecksFitStep, ElectionKeepsTheLedger, PTL
  DEF Spec
================================================================================
