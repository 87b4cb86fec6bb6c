--------------------------- MODULE TrusteeAdminServer ---------------------------
(***************************************************************************)
(* The Trustee Administration Server                                       *)
(* (trustee_administration_server/top_level_actor.rs and handlers/).  It   *)
(* keeps the trustee board and moves from one subprotocol to the next as   *)
(* the messages it waits for arrive.                                       *)
(*                                                                         *)
(* A message the current state has no handler for is answered InvalidInput *)
(* and leaves the state as it was: such a step is a stuttering step here.  *)
(***************************************************************************)
EXTENDS TrusteeMessages

VARIABLES
    tas_state,          \* TASActor::state
    board,              \* checkpoint.board
    active_trustees,    \* checkpoint.active_trustees, a set
    public_key          \* checkpoint.election_public_key, as a set of at most one

tasVars == <<tas_state, board, active_trustees, public_key>>

TASStates == {"Idle", "AwaitingSetupMsgs", "AwaitingKeySharesMsgs",
              "AwaitingElectionPublicKeyMsgs", "AwaitingEGCryptogramsMsgs",
              "AwaitingPartialDecryptions", "AwaitingDecryptedBallots", "Failed"}

(* A new server over an initial board.                                     *)
TASInit(initial_board, initial_key) ==
    /\ tas_state = "Idle"
    /\ board = initial_board
    /\ active_trustees = {}
    /\ public_key = initial_key

-------------------------------------------------------------------------------
(* The board.                                                              *)

(* add_to_board: an exact duplicate is not added.                          *)
AddToBoard(msg) == IF msg \in RangeOf(board) THEN board ELSE Append(board, msg)

(* check_participants: the originators are the active trustees and, when   *)
(* signers are checked, all of them signed the message of each.            *)
CheckParticipants(bb, type, check_signers) ==
    /\ active_trustees # {}
    /\ Originators(bb, type) = active_trustees
    /\ check_signers =>
          \A t \in active_trustees :
              {bb[i].signer : i \in {j \in Posted(bb, type) : bb[j].originator = t}}
                  = active_trustees

SetupComplete(bb) == Cardinality(Signers(bb, "Setup")) = NumTrustees + 1
(* Mutant of KeySharesComplete: it waits for shares of the TAS, too.       *)
KeySharesOfAllComplete(bb) == Cardinality(Signers(bb, "KeyShares")) = NumTrustees + 1

KeySharesComplete(bb) == Cardinality(Signers(bb, "KeyShares")) = NumTrustees
ElectionPublicKeysComplete(bb) ==
    Cardinality(Originators(bb, "ElectionPublicKey")) = NumTrustees

(* decrypted_ballots_complete is an error when two lists differ.           *)
DecryptedBallotsAgree(bb) ==
    \A i, j \in Posted(bb, "DecryptedBallots") :
        bb[i].plaintexts_of = bb[j].plaintexts_of

-------------------------------------------------------------------------------
(* Commands of the host.                                                   *)

StartSetup ==
    /\ tas_state = "Idle"
    /\ Posted(board, "Setup") = {}
    /\ tas_state' = "AwaitingSetupMsgs"
    /\ board' = AddToBoard(SetupMsg(TAS))
    /\ UNCHANGED <<active_trustees, public_key>>

(* Mutant of StartKeyGen: although there are key shares on the board.      *)
StartKeyGenAgain ==
    /\ tas_state = "Idle"
    /\ tas_state' = "AwaitingKeySharesMsgs"
    /\ UNCHANGED <<board, active_trustees, public_key>>

StartKeyGen ==
    /\ tas_state = "Idle"
    /\ Posted(board, "KeyShares") \cup Posted(board, "ElectionPublicKey") = {}
    /\ tas_state' = "AwaitingKeySharesMsgs"
    /\ UNCHANGED <<board, active_trustees, public_key>>

StartMixing(parameters) ==
    /\ tas_state = "Idle"
    /\ Len(parameters.active_trustees) = Threshold
    /\ tas_state' = "AwaitingEGCryptogramsMsgs"
    /\ board' = AddToBoard(
           MixInitializationMsg(parameters.active_trustees, parameters.ballots))
    /\ active_trustees' = RangeOf(parameters.active_trustees)
    /\ UNCHANGED public_key

(* Stop hands the host a checkpoint of the board as it is.                 *)
Stop ==
    /\ tas_state \notin {"Idle", "Failed"}
    /\ tas_state' = "Idle"
    /\ UNCHANGED <<board, active_trustees, public_key>>

(* A new server over the checkpoint of one that failed.                    *)
Recover ==
    /\ tas_state = "Failed"
    /\ tas_state' = "Idle"
    /\ UNCHANGED <<board, active_trustees, public_key>>

-------------------------------------------------------------------------------
(* Messages of the trustees.                                               *)

(* trustee_signature_ok failed in the handler of the current state.        *)
Reject ==
    /\ tas_state' = "Failed"
    /\ UNCHANGED <<board, active_trustees, public_key>>

(* The message is posted; the state moves on if it completes the set.      *)
Accept(msg, complete, next) ==
    /\ board' = AddToBoard(msg)
    /\ tas_state' = IF complete THEN next ELSE tas_state

HandleSetup(msg) ==
    /\ tas_state = "AwaitingSetupMsgs"
    /\ msg.type = "Setup"
    /\ \/ ~msg.signed /\ Reject
       \/ /\ msg.signed
          /\ Accept(msg, SetupComplete(AddToBoard(msg)), "Idle")
          /\ UNCHANGED <<active_trustees, public_key>>

HandleKeyShares(msg) ==
    /\ tas_state = "AwaitingKeySharesMsgs"
    /\ msg.type = "KeyShares"
    /\ \/ ~msg.signed /\ Reject
       \/ /\ msg.signed
          /\ Accept(msg, KeySharesComplete(AddToBoard(msg)),
                    "AwaitingElectionPublicKeyMsgs")
          /\ UNCHANGED <<active_trustees, public_key>>

(* check_election_public_key_msg compares with the key received before.    *)
HandleElectionPublicKey(msg) ==
    /\ tas_state = "AwaitingElectionPublicKeyMsgs"
    /\ msg.type = "ElectionPublicKey"
    /\ \/ ~(msg.signed /\ public_key \subseteq {msg.key}) /\ Reject
       \/ /\ msg.signed
          /\ public_key \subseteq {msg.key}
          /\ public_key' = {msg.key}
          /\ Accept(msg, ElectionPublicKeysComplete(AddToBoard(msg)), "Idle")
          /\ UNCHANGED active_trustees

HandleEGCryptograms(msg) ==
    /\ tas_state = "AwaitingEGCryptogramsMsgs"
    /\ msg.type = "EGCryptograms"
    /\ \/ ~msg.signed /\ Reject
       \/ /\ msg.signed
          /\ Accept(msg, CheckParticipants(AddToBoard(msg), "EGCryptograms", TRUE),
                    "AwaitingPartialDecryptions")
          /\ UNCHANGED <<active_trustees, public_key>>

HandlePartialDecryptions(msg) ==
    /\ tas_state = "AwaitingPartialDecryptions"
    /\ msg.type = "PartialDecryptions"
    /\ \/ ~msg.signed /\ Reject
       \/ /\ msg.signed
          /\ Accept(msg, CheckParticipants(AddToBoard(msg), "PartialDecryptions", FALSE),
                    "AwaitingDecryptedBallots")
          /\ UNCHANGED <<active_trustees, public_key>>

(* Lists that differ fail the server, after the message was posted.        *)
HandleDecryptedBallots(msg) ==
    /\ tas_state = "AwaitingDecryptedBallots"
    /\ msg.type = "DecryptedBallots"
    /\ \/ ~msg.signed /\ Reject
       \/ /\ msg.signed
          /\ Accept(msg, CheckParticipants(AddToBoard(msg), "DecryptedBallots", FALSE),
                    IF DecryptedBallotsAgree(AddToBoard(msg)) THEN "Idle" ELSE "Failed")
          /\ UNCHANGED <<active_trustees, public_key>>

Handle(msg) ==
    \/ HandleSetup(msg)
    \/ HandleKeyShares(msg)
    \/ HandleElectionPublicKey(msg)
    \/ HandleEGCryptograms(msg)
    \/ HandlePartialDecryptions(msg)
    \/ HandleDecryptedBallots(msg)
===============================================================================
