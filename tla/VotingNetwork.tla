----------------------------- MODULE VotingNetwork -----------------------------
(***************************************************************************)
(* The messages between a Voting Application (VA), the Election            *)
(* Administration Server (EAS), the Authentication Service (AS), the       *)
(* Digital Ballot Box (DBB) and a Ballot Check Application (BCA), and the  *)
(* network that carries them (protocol/src/messages.rs).                   *)
(*                                                                         *)
(* The network is the set of all messages ever sent.  A message stays in   *)
(* it: it may be delivered late, several times, after later ones, to       *)
(* another actor than the one it was meant for, or never.  The replies of  *)
(* the DBB are the outputs of module DigitalBallotBox.                     *)
(*                                                                         *)
(* All messages are of the current election.  Whether a signature          *)
(* verifies is a parameter of the step that receives the message.          *)
(***************************************************************************)
EXTENDS Integers

VARIABLES network

Send(msg) == network' = network \cup {msg}

(* ProtocolMsg: voter authentication.                                      *)
AuthReqMsg(key) == [type |-> "AuthReq", voter_verifying_key |-> key]

AuthServiceTokenMsg(token, key) ==
    [type |-> "AuthServiceToken", token |-> token, voter_verifying_key |-> key]

AuthFinishMsg(token, key) ==
    [type |-> "AuthFinish", token |-> token, public_key |-> key]

(* voter_authorization is the set of the authorization, or empty.          *)
ConfirmAuthorizationMsg(key, result, voter_authorization) ==
    [type |-> "ConfirmAuthorization", voter_verifying_key |-> key,
     authentication_result |-> result, voter_authorization |-> voter_authorization]

(* ProtocolMsg: submission, casting and checking, on the connection "from".*)
SignedBallotMsg(from, ballot) ==
    [type |-> "SubmitSignedBallot", from |-> from, ballot |-> ballot]

CastReqMsg(from, req) == [type |-> "CastReq", from |-> from, req |-> req]

CheckReqMsg(from, req) == [type |-> "CheckReq", from |-> from, req |-> req]

RandomizerMsg(from, randomizer) ==
    [type |-> "Randomizer", from |-> from, randomizer |-> randomizer]

(* AuthServiceMsg, between the EAS and the AS, for the request id.         *)
InitAuthReqMsg(id) == [type |-> "InitAuthReq", id |-> id]

TokenReturnMsg(id, token, session_id) ==
    [type |-> "TokenReturn", id |-> id, token |-> token, session_id |-> session_id]

AuthServiceQueryMsg(id, session_id) ==
    [type |-> "AuthServiceQuery", id |-> id, session_id |-> session_id]

AuthServiceReportMsg(id, token, session_id, authenticated, biographical_info) ==
    [type |-> "AuthServiceReport", id |-> id, token |-> token,
     session_id |-> session_id, authenticated |-> authenticated,
     biographical_info |-> biographical_info]

(* What the EAS asks its host, and the answers of the host.                *)
CheckBiographicalInfoMsg(id, biographical_info) ==
    [type |-> "CheckBiographicalInfo", id |-> id, biographical_info |-> biographical_info]

BiographicalInfoOkMsg(id, voter_pseudonym, ballot_style) ==
    [type |-> "BiographicalInfoOk", id |-> id,
     voter_pseudonym |-> voter_pseudonym, ballot_style |-> ballot_style]

BiographicalInfoInvalidMsg(id) == [type |-> "BiographicalInfoInvalid", id |-> id]
================================================================================
