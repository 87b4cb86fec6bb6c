-------------------------- MODULE ElectionAdminServer --------------------------
(***************************************************************************)
(* The Election Administration Server (EAS): its top-level actor           *)
(* (election_admin_server/top_level_actor.rs) and the sub-actor that       *)
(* authenticates one voter (sub_actors/voter_authentication.rs).           *)
(*                                                                         *)
(* Each authentication request has an id and a sub-actor of its own.       *)
(* After every input, whichever request it was for, the sub-actors that    *)
(* completed, and those that were idle for too long, are purged.           *)
(***************************************************************************)
EXTENDS VotingNetwork

CONSTANTS
    NetworkTimeout, \* network_timeout, in seconds
    MaxRequests     \* bound: authentication requests the EAS takes up

ASSUME EASAssumption == NetworkTimeout \in Nat /\ MaxRequests \in Nat

VARIABLES
    requests,           \* the sub-actor of each live request
    next_available_id   \* the next unused request id

easVars == <<requests, next_available_id>>

EASInit ==
    /\ requests = << >>
    /\ next_available_id = 0

(***************************************************************************)
(* A sub-actor: its sub-state, the voter's key, the AuthSessionRecord      *)
(* (token and session id), and the time since its last input.              *)
(***************************************************************************)
Request(state, key, token, session_id) ==
    [state |-> state, voter_verifying_key |-> key,
     token |-> token, session_id |-> session_id, idle |-> 0]

NoToken == 0

(* Mutant of FreshId: the ids of purged requests are used again.           *)
SmallestUnusedId == CHOOSE id \in 0..next_available_id :
    /\ id \notin DOMAIN requests
    /\ \A i \in 0..next_available_id : i < id => i \in DOMAIN requests

FreshId == next_available_id

(* Mutant of Purged: completed requests are kept until they expire.        *)
PurgedWhenExpired(reqs) ==
    [id \in {i \in DOMAIN reqs : reqs[i].idle <= NetworkTimeout} |-> reqs[id]]

(* handle_state_update: purge_completed_requests, purge_expired_requests.  *)
Purged(reqs) ==
    [id \in {i \in DOMAIN reqs : /\ reqs[i].state # "Completed"
                                 /\ reqs[i].idle <= NetworkTimeout} |-> reqs[id]]

(* The requests with one more, or with a new one for the same id.          *)
WithRequest(id, request) ==
    [i \in DOMAIN requests \cup {id} |-> IF i = id THEN request ELSE requests[i]]

(* A sub-actor takes up an input it waits for, at this moment.             *)
Proceed(id, request) ==
    /\ requests' = Purged(WithRequest(id, request))
    /\ UNCHANGED next_available_id

(* A sub-actor completes, and is purged at once.                           *)
Complete(id) == Proceed(id, [requests[id] EXCEPT !.state = "Completed"])

Waiting(id, state) == id \in DOMAIN requests /\ requests[id].state = state

-------------------------------------------------------------------------------
(* StartVoterAuthentication: check_auth_req_msg on a fresh sub-actor.      *)
StartVoterAuthentication(msg, signed) ==
    /\ msg.type = "AuthReq"
    /\ next_available_id < MaxRequests  \* bound
    /\ next_available_id' = next_available_id + 1
    /\ \/ /\ signed
          /\ requests' = Purged(WithRequest(FreshId,
                 Request("ReceiveTokenFromAS", msg.voter_verifying_key, NoToken, NoToken)))
          /\ Send(InitAuthReqMsg(FreshId))
       \/ /\ ~signed
          /\ requests' = Purged(requests)
          /\ UNCHANGED network

(* The token and the session id of the AS are taken as they come.          *)
TokenReturn(id, msg) ==
    /\ Waiting(id, "ReceiveTokenFromAS")
    /\ msg.type = "TokenReturn"
    /\ LET key == requests[id].voter_verifying_key
       IN  /\ Proceed(id, Request("ReceiveAuthFinishMsg", key, msg.token, msg.session_id))
           /\ Send(AuthServiceTokenMsg(msg.token, key))

(* check_auth_finish_msg                                                   *)
AuthFinishChecks(request, msg) ==
    /\ msg.token = request.token
    /\ msg.public_key = request.voter_verifying_key

AuthFinish(id, msg, signed) ==
    /\ Waiting(id, "ReceiveAuthFinishMsg")
    /\ msg.type = "AuthFinish"
    /\ \/ /\ signed /\ AuthFinishChecks(requests[id], msg)
          /\ Proceed(id, [requests[id] EXCEPT !.state = "CheckReplyFromAS", !.idle = 0])
          /\ Send(AuthServiceQueryMsg(id, requests[id].session_id))
       \/ /\ ~(signed /\ AuthFinishChecks(requests[id], msg))
          /\ Complete(id)
          /\ UNCHANGED network

(* check_auth_service_report_msg                                           *)
ReportChecks(request, msg) ==
    /\ msg.authenticated
    /\ msg.token = request.token
    /\ msg.session_id = request.session_id

(* Mutant of RefuseAuthorization: the voter is not told.                   *)
RefuseSilently(id) == Complete(id) /\ UNCHANGED network

(* The voter is told of the failure.                                       *)
RefuseAuthorization(id) ==
    /\ Complete(id)
    /\ Send(ConfirmAuthorizationMsg(requests[id].voter_verifying_key, FALSE, {}))

AuthServiceReport(id, msg) ==
    /\ Waiting(id, "CheckReplyFromAS")
    /\ msg.type = "AuthServiceReport"
    /\ \/ /\ ReportChecks(requests[id], msg)
          /\ Proceed(id, [requests[id] EXCEPT !.state = "VerifyBiographicalInfo", !.idle = 0])
          /\ Send(CheckBiographicalInfoMsg(id, msg.biographical_info))
       \/ /\ ~ReportChecks(requests[id], msg)
          /\ RefuseAuthorization(id)

(* VoterAuthorization::new, signed by the EAS.                             *)
VoterAuthorization(msg, key, now) ==
    [voter_pseudonym |-> msg.voter_pseudonym, voter_verifying_key |-> key,
     ballot_style |-> msg.ballot_style, timestamp |-> now,
     election |-> "election", eas_signed |-> TRUE]

BiographicalInfoOk(id, msg, now) ==
    /\ Waiting(id, "VerifyBiographicalInfo")
    /\ msg.type = "BiographicalInfoOk"
    /\ Complete(id)
    /\ LET key == requests[id].voter_verifying_key
       IN  Send(ConfirmAuthorizationMsg(key, TRUE, {VoterAuthorization(msg, key, now)}))

BiographicalInfoInvalid(id, msg) ==
    /\ Waiting(id, "VerifyBiographicalInfo")
    /\ msg.type = "BiographicalInfoInvalid"
    /\ RefuseAuthorization(id)

(* Any other input of a live request ends it: a duplicate, an answer that  *)
(* comes too early, or one that is late.                                   *)
Expected == [ReceiveTokenFromAS |-> {"TokenReturn"},
             ReceiveAuthFinishMsg |-> {"AuthFinish"},
             CheckReplyFromAS |-> {"AuthServiceReport"},
             VerifyBiographicalInfo |-> {"BiographicalInfoOk", "BiographicalInfoInvalid"}]

InvalidRequestInput(id, msg) ==
    /\ id \in DOMAIN requests
    /\ msg.type \notin Expected[requests[id].state]
    /\ Complete(id)
    /\ UNCHANGED network

(* RequestNotFound: the request was purged, or aborted, before.            *)
RequestNotFound(id) ==
    /\ id \notin DOMAIN requests
    /\ requests' = Purged(requests)
    /\ UNCHANGED <<next_available_id, network>>

(* handle_subprotocol_input: an input that the host routed to request id.  *)
HandleInput(id, msg, signed, now) ==
    \/ TokenReturn(id, msg)
    \/ AuthFinish(id, msg, signed)
    \/ AuthServiceReport(id, msg)
    \/ BiographicalInfoOk(id, msg, now)
    \/ BiographicalInfoInvalid(id, msg)
    \/ InvalidRequestInput(id, msg)
    \/ RequestNotFound(id)

AbortVoterAuthentication(id) ==
    /\ id \in DOMAIN requests
    /\ requests' = Purged([i \in DOMAIN requests \ {id} |-> requests[i]])
    /\ UNCHANGED <<next_available_id, network>>

(* A second passes; beyond the timeout it makes no difference how many.    *)
Aged ==
    [id \in DOMAIN requests |->
        [requests[id] EXCEPT !.idle = IF @ > NetworkTimeout THEN @ ELSE @ + 1]]
===============================================================================
