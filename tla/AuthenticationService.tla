------------------------- MODULE AuthenticationService -------------------------
(***************************************************************************)
(* The third-party Authentication Service (AS), as the EAS uses it and as  *)
(* the integration tests mock it (MockAS in integration_tests_basic.rs):   *)
(* one session, with a token of its own, for each request of the EAS, in   *)
(* which whoever has the token may log in.                                 *)
(***************************************************************************)
EXTENDS Sequences, VotingNetwork

VARIABLES as_sessions   \* the person logged in to each session, if any

Nobody == "nobody"

ASInit == as_sessions = << >>

(* handle_init_auth_req: the n-th session has token n and session id n.    *)
(* The service is called once for each request.                            *)
HandleInitAuthReq(msg) ==
    /\ msg.type = "InitAuthReq"
    /\ \A m \in network : m.type = "TokenReturn" => m.id # msg.id
    /\ as_sessions' = Append(as_sessions, Nobody)
    /\ LET n == Len(as_sessions) + 1 IN Send(TokenReturnMsg(msg.id, n, n))

LogIn(token, person) ==
    /\ token \in DOMAIN as_sessions
    /\ as_sessions[token] = Nobody
    /\ as_sessions' = [as_sessions EXCEPT ![token] = person]
    /\ UNCHANGED network

(* handle_query: the session as it is when the query arrives.              *)
HandleQuery(msg) ==
    /\ msg.type = "AuthServiceQuery"
    /\ LET person == as_sessions[msg.session_id]
       IN  Send(AuthServiceReportMsg(msg.id, msg.session_id, msg.session_id,
                                     person # Nobody, person))
    /\ UNCHANGED as_sessions
===============================================================================
