---------------------------- MODULE TrusteeProtocol ----------------------------
(***************************************************************************)
(* The trustee protocols: the Trustee Administration Server and the        *)
(* trustee applications, from election setup to the decrypted ballots.     *)
(*                                                                         *)
(* Messages of trustees reach the TAS in any order, any number of times,   *)
(* or never.  The trustees receive any run of consecutive messages of the  *)
(* board, at any time: the updates the TAS sends when it posts a message,  *)
(* and the answers to their requests for a range.                          *)
(***************************************************************************)
EXTENDS Functions, TrusteeAdminServer, TrusteeApplication

CONSTANT Ceremonies     \* bound: what the hosts and the network may do

(***************************************************************************)
(* A ceremony is a record of                                               *)
(*   start_from     "nothing", "setup" or "keygen": the subprotocols that  *)
(*                  the checkpoints of the first start have behind them    *)
(*   mixing         the [active_trustees, ballots] the host may choose     *)
(*   max_batch      the messages in one board update                       *)
(*   update_starts  where an update may start, relative to the first       *)
(*                  message the trustee has not: -1, 0 or 1                *)
(*   max_stops      the stops and recoveries of the TAS                    *)
(*   max_faults     these and the restarts of trustees, together           *)
(*   tampering      whether the network may spoil signatures               *)
(***************************************************************************)
ASSUME TrusteeProtocolAssumption ==
    /\ MaxRestarts \in Nat
    /\ \A c \in Ceremonies :
          /\ c.start_from \in {"nothing", "setup", "keygen"}
          /\ c.max_batch \in Nat \ {0}
          /\ c.update_starts \subseteq {-1, 0, 1}
          /\ c.max_stops \in Nat
          /\ c.max_faults \in Nat
          /\ c.tampering \in BOOLEAN
          /\ \A p \in c.mixing :
                /\ p.active_trustees \in Seq(Trustees)
                /\ \A i, j \in DOMAIN p.active_trustees :
                      p.active_trustees[i] = p.active_trustees[j] => i = j

VARIABLES
    ceremony,   \* one of Ceremonies, always the same
    stops       \* stops and recoveries of the TAS so far

environment == <<ceremony, stops>>
vars == <<tasVars, trusteeVars, environment>>

-------------------------------------------------------------------------------
(* The checkpoints of a first start.                                       *)

SetupBoard == [i \in 1..NumTrustees + 1 |-> SetupMsg(i - 1)]
FirstKey == [t \in Trustees |-> 0]
KeyGenBoard == SetupBoard \o [t \in Trustees |-> KeySharesMsg(t, 0)]
                          \o [t \in Trustees |-> ElectionPublicKeyMsg(t, FirstKey)]

InitialBoard(start_from) == CASE start_from = "nothing" -> << >>
                              [] start_from = "setup" -> SetupBoard
                              [] start_from = "keygen" -> KeyGenBoard

Init ==
    /\ ceremony \in Ceremonies
    /\ LET start_from == ceremony.start_from
       IN  /\ TASInit(InitialBoard(start_from), IF start_from = "keygen" THEN {FirstKey} ELSE {})
           /\ TrusteeInit(Checkpoint(InitialBoard(start_from), start_from # "nothing", << >>))
    /\ stops = 0

-------------------------------------------------------------------------------
Spoiled(msg) == [msg EXCEPT !.signed = FALSE]

(* The TAS and its host.                                                   *)
TASCommand ==
    /\ \/ StartSetup
       \/ StartKeyGen
       \/ \E parameters \in ceremony.mixing : StartMixing(parameters)
    /\ UNCHANGED <<trusteeVars, environment>>

TASReceive ==
    /\ \E msg \in sent : Handle(msg)
    /\ UNCHANGED <<trusteeVars, environment>>

TASReceiveSpoiled ==
    /\ ceremony.tampering
    /\ \E msg \in sent : Handle(Spoiled(msg))
    /\ UNCHANGED <<trusteeVars, environment>>

FaultsSpent == stops + FoldFunction(+, 0, starts) >= ceremony.max_faults

TASStop ==
    /\ stops < ceremony.max_stops /\ ~FaultsSpent  \* bound
    /\ stops' = stops + 1
    /\ Stop \/ Recover
    /\ UNCHANGED <<trusteeVars, ceremony>>

(* The board updates that may reach a trustee: runs of board messages, and *)
(* messages that somebody spoiled.                                         *)
Update(from, to) == [i \in from..to |-> board[i]]

Updates(t) ==
    LET next == Len(trustee[t].board) + 1
        first == {next + start : start \in ceremony.update_starts} \cap DOMAIN board
    IN  {Update(run[1], run[2]) : run \in {r \in first \X DOMAIN board :
            r[1] <= r[2] /\ r[2] < r[1] + ceremony.max_batch}}
        \cup {[i \in {k} |-> Spoiled(board[i])] :
                  k \in {j \in DOMAIN board : ceremony.tampering}}

ReceiveUpdate(t) ==
    /\ \E update \in Updates(t) : RefuseUpdate(t, update) \/ ProcessUpdate(t, update)
    /\ UNCHANGED <<tasVars, environment>>

TrusteeCommand(t) ==
    /\ ApproveSetup(t) \/ StartTrusteeKeyGen(t)
    /\ UNCHANGED <<tasVars, environment>>

TrusteeRestart(t) ==
    /\ ~FaultsSpent  \* bound
    /\ Restart(t)
    /\ UNCHANGED <<tasVars, environment>>

Next ==
    \/ TASCommand
    \/ TASReceive
    \/ TASReceiveSpoiled
    \/ TASStop
    \/ \E t \in Trustees :
          \/ ReceiveUpdate(t)
          \/ TrusteeCommand(t)
          \/ TrusteeRestart(t)

Spec == Init /\ [][Next]_vars

(***************************************************************************)
(* Without tampering, stops and restarts: the hosts issue the commands     *)
(* that the TAS and the trustees are ready for, those of key generation    *)
(* before mixing starts; and the network delivers: a message that the TAS  *)
(* has a use for reaches it, and a trustee does not lack a message of the  *)
(* board for ever.  The latter is WF_vars(ReceiveUpdate(t)), in terms of   *)
(* when that action is enabled and of what it does to a trustee that does  *)
(* not fail.                                                               *)
(***************************************************************************)
Mixings(bb) == Posted(bb, "MixInitialization")

(* The host starts mixing when there is an election key.  Of the orders in *)
(* which the keys got on the board, one is followed into mixing.           *)
HostCommand ==
    /\ TASCommand
    /\ Mixings(board') # Mixings(board) => board = KeyGenBoard  \* bound

KeyGenCommand(t) == Mixings(trustee[t].board) = {} /\ TrusteeCommand(t)

FaultFreeNext ==
    \/ HostCommand
    \/ TASReceive
    \/ \E t \in Trustees : ReceiveUpdate(t) \/ KeyGenCommand(t)

Lacks(t) == trustee[t].state \in Running /\ Len(trustee[t].board) < Len(board)
Receives(t) == trustee'[t].board # trustee[t].board

FairSpec ==
    /\ Init /\ [][FaultFreeNext]_vars
    /\ WF_vars(HostCommand)
    /\ WF_vars(TASReceive)
    /\ \A t \in Trustees :
          /\ []<>~Lacks(t) \/ []<><<Receives(t)>>_vars
          /\ WF_vars(KeyGenCommand(t))

-------------------------------------------------------------------------------
(* Properties.                                                             *)

MessageTypes == {"Setup", "KeyShares", "ElectionPublicKey", "MixInitialization",
                 "EGCryptograms", "PartialDecryptions", "DecryptedBallots"}

IsMessage(msg) ==
    /\ msg.type \in MessageTypes
    /\ msg.originator \in TrusteeList
    /\ msg.signer \in TrusteeList
    /\ msg.signed

IsCheckpoint(c) ==
    /\ \A i \in DOMAIN c.board : IsMessage(c.board[i])
    /\ c.configured \in BOOLEAN
    /\ RangeOf(c.active) \subseteq Trustees

(* Types.  Whatever the network does, only messages whose signature was    *)
(* verified are on the board of the TAS and on the mirrors of it.          *)
TypeOK ==
    /\ tas_state \in TASStates
    /\ \A i \in DOMAIN board : IsMessage(board[i])
    /\ active_trustees \subseteq Trustees
    /\ \A key \in public_key : key \in [Trustees -> 0..MaxRestarts]
    /\ \A msg \in sent : IsMessage(msg) /\ msg.signer \in Trustees
    /\ \A t \in Trustees :
          /\ trustee[t].state \in Running \cup {"Failed", "Panicked"}
          /\ IsCheckpoint(trustee[t])
          /\ IsCheckpoint(saved[t])
          /\ starts[t] \in 0..MaxRestarts
    /\ ceremony \in Ceremonies
    /\ stops \in 0..ceremony.max_stops

(* Every trustee, running, failed or created anew from a checkpoint, sees  *)
(* a prefix of the board of the TAS: process_board_update leaves no gap    *)
(* and never replaces a message ("trustee boards are prefixes of TAS       *)
(* board", integration_tests.rs:1612).                                     *)
PrefixOfBoard(bb) == Len(bb) <= Len(board) /\ \A i \in DOMAIN bb : bb[i] = board[i]
BoardsAgree ==
    \A t \in Trustees : PrefixOfBoard(trustee[t].board) /\ PrefixOfBoard(saved[t].board)

(* All trustees that compute an election key compute the same one, which   *)
(* the TAS keeps, and it is the key of the only shares that each trustee   *)
(* has on the board, even if trustees restart and deal again, or the TAS   *)
(* stops, on the way.                                                      *)
ElectionKeyAgreed ==
    \A msg \in sent \cup RangeOf(board) : msg.type = "ElectionPublicKey" =>
        /\ public_key \subseteq {msg.key}
        /\ \A t \in Trustees :
              {board[i].deal : i \in {j \in Posted(board, "KeyShares") :
                                         board[j].originator = t}} = {msg.key[t]}

(* The active trustees are those of the first mix initialization message.  *)
ActiveOf(bb) == PopulateActive(bb, << >>)
Active == ActiveOf(board)

(* The outputs of the rounds; that of round 0 are the ballots.             *)
HasOutput(round) == RoundExists(board, Len(board) + 1, Active, round)
Output(round) == RoundOutput(board, Len(board) + 1, Active, round)

(* The ballots went through one mix of each active trustee, in the order   *)
(* of the mix initialization message, and every active trustee has         *)
(* verified and signed every one of these mixes on the board.              *)
FullyMixed(ciphertexts) ==
    \E i \in Posted(board, "MixInitialization") :
        LET active == board[i].active_trustees
        IN  /\ ciphertexts.ballots = board[i].ballots
            /\ Len(ciphertexts.mixes) = Len(active)
            /\ \A k \in DOMAIN active :
                  /\ ciphertexts.mixes[k][1] = active[k]
                  /\ \A t \in RangeOf(active) :
                        EGCryptogramsMsg(active[k], t,
                            [ciphertexts EXCEPT !.mixes = SubSeq(@, 1, k)]) \in RangeOf(board)

(* No trustee helps to decrypt ciphertexts that can be linked to voters:   *)
(* not even a partial decryption leaves a trustee before the ciphertexts   *)
(* are fully mixed, whatever restarts, batches and delays come between.    *)
DecryptOnlyFullyMixed ==
    \A msg \in sent : msg.type = "PartialDecryptions" => FullyMixed(msg.factors_of)

(* The ballots a trustee publishes are those of the mix initialization     *)
(* message, decrypted with the factors of a threshold of trustees, and the *)
(* same for all ("decrypted ballots match original plaintexts",            *)
(* integration_tests.rs:1920).                                             *)
BallotsAreDecrypted ==
    \A msg \in sent : msg.type = "DecryptedBallots" =>
        /\ FullyMixed(msg.plaintexts_of)
        /\ Cardinality({board[i].signer : i \in
              {j \in Posted(board, "PartialDecryptions") :
                  board[j].factors_of = msg.plaintexts_of}}) >= Threshold
        /\ \A other \in sent : other.type = "DecryptedBallots" =>
              other.plaintexts_of = msg.plaintexts_of

(* The trustees carry out an election ceremony, whatever restarts, stops,  *)
(* batches and delays come between.  Its state is read off the board and   *)
(* the messages sent: the mixing is that of the first mix initialization   *)
(* message on the board, and a round puts out what its mixer posted first. *)
MessagesOf(messages, type) == {msg \in messages : msg.type = type}

Deals == {<<board[i].originator, board[i].deal>> : i \in Posted(board, "KeyShares")}
ElectionKeys == {msg.key : msg \in MessagesOf(sent \cup RangeOf(board), "ElectionPublicKey")}

Plan(m) == [active_trustees |-> m.active_trustees, ballots |-> m.ballots]
MixingPlan ==
    {Plan(board[i]) : i \in {First(S) : S \in {Posted(board, "MixInitialization")} \ {{}}}}

(* The <<round, ciphertexts>> put out, and the <<round, trustee>> signed.  *)
Outputs ==
    UNION {UNION {{<<k, board[First(S)].ciphertexts>> :
                      S \in {MixesOfRound(board, active, k)} \ {{}}} : k \in 1..Threshold} :
           active \in {Active}}
MixesDone ==
    [k \in {output[1] : output \in Outputs} |->
        (CHOOSE output \in Outputs : output[1] = k)[2].mixes[k]]
Signatures ==
    UNION {{<<output[1], board[i].signer>> :
               i \in {j \in Posted(board, "EGCryptograms") : board[j].ciphertexts = output[2]}} :
           output \in Outputs}

SentDecryptions == {msg.signer : msg \in MessagesOf(sent, "PartialDecryptions")}
SentBallots == {msg.plaintexts_of : msg \in MessagesOf(sent, "DecryptedBallots")}

AnElectionCeremony == INSTANCE ElectionCeremony WITH
    Random <- 0..MaxRestarts,
    Plans <- {Plan(p) : p \in UNION {c.mixing : c \in Ceremonies}},
    deals <- Deals, keys <- ElectionKeys, mixing <- MixingPlan, mixes <- MixesDone,
    signatures <- Signatures, decryptors <- SentDecryptions, published <- SentBallots

ImplementsCeremony == AnElectionCeremony!Spec

(* Where nobody tampers, restarts or stops, nobody fails ("no failures     *)
(* unless Byzantine behavior occurred", integration_tests.rs:1584).        *)
NoFailures ==
    /\ tas_state # "Failed"
    /\ \A t \in Trustees : trustee[t].failure = "None"

(* Key generation ends with the keys of all trustees on the board and the  *)
(* TAS ready for the next subprotocol ("keygen completes when no Byzantine *)
(* behavior affects keygen or earlier", integration_tests.rs:1821).        *)
KeyGenCompletes == <>(ElectionPublicKeysComplete(board) /\ tas_state = "Idle")

(* Mixing, once started, and decryption end, with every active trustee     *)
(* back in Idle after it has seen the decrypted ballots of all             *)
(* ("threshold trustees complete decryption when no Byzantine behavior     *)
(* affects decryption or earlier", integration_tests.rs:1904).             *)
DecryptionCompletes ==
    Mixings(board) # {} ~>
        \E i \in Mixings(board) : \A t \in RangeOf(board[i].active_trustees) :
            /\ trustee[t].state = "Idle"
            /\ Cardinality(Posted(saved[t].board, "DecryptedBallots")) = Threshold

-------------------------------------------------------------------------------
(* What the comments, the tests and the specification documents say and    *)
(* the code does not do.                                                   *)

(* election_setup.rs: setup data cannot be missing in ElectionSetup.       *)
SetupDataInElectionSetup ==
    \A t \in Trustees : trustee[t].failure # "NoSetupData"

(* integration_tests.rs: all trustees complete key generation.             *)
AllTrusteesCompleteKeyGen ==
    \A t \in Trustees : <>(ElectionPublicKeysComplete(saved[t].board))

(* integration_tests.rs: no failures, where an update brings more than one *)
(* message.                                                                *)
BatchesConvert == \A t \in Trustees : trustee[t].failure # "Conversion"

(* top_level_actor.rs: the mix to verify is skipped in the search for the  *)
(* mix before it, so that the mix of an honest trustee is verified.        *)
HonestMixesVerify == \A t \in Trustees : trustee[t].failure # "ActionError"

(* trustee-mixing-spec.md: any list of different and known trustees can be *)
(* the active trustees.                                                    *)
AnyActiveListDecrypts == \A t \in Trustees : trustee[t].failure # "ActionError"
===============================================================================
