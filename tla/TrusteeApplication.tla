--------------------------- MODULE TrusteeApplication ---------------------------
(***************************************************************************)
(* The trustee application (trustee_application/top_level_actor.rs and     *)
(* handlers/), one instance for each trustee.  It mirrors the trustee      *)
(* board, runs the Ascent logic on it, and sends at most one message for   *)
(* each board update it receives.                                          *)
(*                                                                         *)
(* An input that the current state answers with InvalidInput, Failed or    *)
(* MissingMessages and that changes nothing is a stuttering step here.     *)
(***************************************************************************)
EXTENDS AscentLogic

CONSTANTS MaxRestarts   \* bound: restarts of each trustee

VARIABLES
    trustee,    \* the actor of each trustee, see Actor below
    saved,      \* the last TrusteeCheckpoint each actor handed to its host
    starts,     \* how often each actor was created anew
    sent        \* the messages the actors produced for the TAS

trusteeVars == <<trustee, saved, starts, sent>>

(* TrusteeCheckpoint: "configured" says that protocol_state is there.      *)
Checkpoint(processed_board, configured, active) ==
    [board |-> processed_board, configured |-> configured, active |-> active]
NoCheckpoint == Checkpoint(<< >>, FALSE, << >>)

(* TrusteeActor::new.  "failure" says what made the actor fail.            *)
Actor(checkpoint) ==
    [state |-> "Idle", board |-> checkpoint.board, configured |-> checkpoint.configured,
     active |-> checkpoint.active, completed |-> {}, failure |-> "None"]

TrusteeInit(checkpoint) ==
    /\ trustee = [t \in Trustees |-> Actor(checkpoint)]
    /\ saved = [t \in Trustees |-> checkpoint]
    /\ starts = [t \in Trustees |-> 0]
    /\ sent = {}

-------------------------------------------------------------------------------
(* From messages to facts: trustee_msg_to_ascent_msg for the message at    *)
(* position i of a board bb, which looks at the messages before it.        *)

First(S) == CHOOSE i \in S : \A j \in S : i <= j
LastOf(S) == CHOOSE i \in S : \A j \in S : j <= i

Before(i, S) == {j \in S : j < i}

(* get_active_trustee_index                                                *)
ActiveIndex(active, t) == First({k \in DOMAIN active : active[k] = t})

(* get_ascent_pk_hash: the key in the first ElectionPublicKey message.     *)
AscentPk(bb, i) == bb[First(Before(i, Posted(bb, "ElectionPublicKey")))].key

(* get_mix_round_output_hash                                               *)
MixesOfRound(bb, active, round) ==
    {j \in Posted(bb, "EGCryptograms") :
        /\ round \in DOMAIN active
        /\ bb[j].originator = active[round]
        /\ bb[j].signer = active[round]}
RoundExists(bb, i, active, round) ==
    IF round = 0 THEN Before(i, Posted(bb, "MixInitialization")) # {}
    ELSE Before(i, MixesOfRound(bb, active, round)) # {}
RoundOutput(bb, i, active, round) ==
    IF round = 0
    THEN Unmixed(bb[First(Before(i, Posted(bb, "MixInitialization")))].ballots)
    ELSE bb[First(Before(i, MixesOfRound(bb, active, round)))].ciphertexts

InputRound(active, msg) ==
    IF msg.type = "EGCryptograms" THEN ActiveIndex(active, msg.originator) - 1
    ELSE Len(active)

MixingPhase == {"EGCryptograms", "PartialDecryptions", "DecryptedBallots"}

(* The conversion panics where it expects a public key and there is none.  *)
ConversionPanics(bb, i, configured) ==
    /\ configured
    /\ \/ bb[i].type \in MixingPhase
       \/ bb[i].type = "MixInitialization" /\ Len(bb[i].active_trustees) = Threshold
    /\ Before(i, Posted(bb, "ElectionPublicKey")) = {}

Convertible(bb, i, configured, active) ==
    \/ bb[i].type = "Setup"
    \/ /\ configured
       /\ bb[i].type \in {"KeyShares", "ElectionPublicKey"}
       /\ bb[i].originator = bb[i].signer
    \/ /\ configured
       /\ bb[i].type = "MixInitialization"
       /\ Len(bb[i].active_trustees) = Threshold
    \/ /\ configured
       /\ bb[i].type \in MixingPhase
       /\ bb[i].signer \in RangeOf(active)
       /\ bb[i].type = "EGCryptograms" => bb[i].originator \in RangeOf(active)
       /\ RoundExists(bb, i, active, InputRound(active, bb[i]))

Fact(bb, i, active) ==
    LET msg == bb[i]
        pk == AscentPk(bb, i)
        input == RoundOutput(bb, i, active, InputRound(active, msg))
        sender == ActiveIndex(active, msg.signer)
    IN  CASE msg.type = "Setup" ->
                [fact |-> "ConfigurationValid", sender |-> msg.signer]
          [] msg.type = "KeyShares" ->
                [fact |-> "Shares", shares |-> <<msg.originator, msg.deal>>,
                 sender |-> msg.originator]
          [] msg.type = "ElectionPublicKey" ->
                [fact |-> "PublicKey", pk |-> msg.key, sender |-> msg.originator]
          [] msg.type = "MixInitialization" ->
                [fact |-> "Ballots", pk |-> pk, ciphertexts |-> Unmixed(msg.ballots),
                 mixing_trustees |-> [k \in DOMAIN msg.active_trustees |-> k]]
          [] msg.type = "EGCryptograms" ->
                [fact |-> IF msg.originator = msg.signer THEN "Mix" ELSE "MixSignature",
                 pk |-> pk, in |-> input, out |-> msg.ciphertexts, sender |-> sender]
          [] msg.type = "PartialDecryptions" ->
                [fact |-> "PartialDecryptions", pk |-> pk, in |-> input,
                 decryptions |-> <<msg.signer, msg.factors_of, msg.proofs>>,
                 sender |-> sender]
          [] msg.type = "DecryptedBallots" ->
                [fact |-> "Plaintexts", pk |-> pk, in |-> input,
                 plaintexts |-> msg.plaintexts_of, sender |-> sender]

FactsOf(bb, active) == {Fact(bb, i, active) : i \in DOMAIN bb}

-------------------------------------------------------------------------------
(* Executing the actions of the Ascent logic.                              *)

(* my_active_trustee_index: the position among all trustees as long as     *)
(* there is no active list; no index for a trustee that is not active.     *)
MyIndex(t, active) ==
    IF active = << >> THEN {t}
    ELSE {ActiveIndex(active, u) : u \in {t} \cap RangeOf(active)}

(* execute_action: the actions of this trustee that it has not completed.  *)
DueActions(t, bb, active, completed) ==
    {a \in Actions(FactsOf(bb, active)) : a.self \in MyIndex(t, active)} \ completed

(* The mix message to verify: the last one that gave this Mix fact.        *)
MixToVerify(bb, active, a) ==
    bb[LastOf({i \in Posted(bb, "EGCryptograms") :
                  LET fact == Fact(bb, i, active)
                  IN  fact.fact = "Mix" /\ fact.in = a.in /\ fact.out = a.out})]

(* The input action_sign_mix verifies it against: the ballots for the      *)
(* first mix; else the ciphertexts of the last EGCryptograms message,      *)
(* whoever signed it, once the last message of the board is skipped.       *)
VerificationInput(bb, active, msg) ==
    IF ActiveIndex(active, msg.originator) = 1
    THEN Unmixed(bb[First(Posted(bb, "MixInitialization"))].ballots)
    ELSE bb[LastOf(Before(Len(bb), Posted(bb, "EGCryptograms")))].ciphertexts

(* The last mix this trustee signed.                                       *)
FinalMix(t, bb) ==
    bb[LastOf({i \in Posted(bb, "EGCryptograms") : bb[i].signer = t})].ciphertexts

(* Mutant of AllKeyShares: shares of the TAS are expected as well.         *)
AllKeySharesAndTAS(bb) == Cardinality(Posted(bb, "KeyShares")) = NumTrustees + 1

AllKeyShares(bb) == Cardinality(Posted(bb, "KeyShares")) = NumTrustees

FirstDecryptions(bb) ==
    {i \in Posted(bb, "PartialDecryptions") :
        Cardinality(Before(i, Posted(bb, "PartialDecryptions"))) < Threshold}

(* The action_... functions: what they verify.  A share is encrypted for   *)
(* the position of its recipient among all trustees: decrypting the one at *)
(* another position yields a share that does not verify.                   *)
ActionSucceeds(t, bb, active, a) ==
    CASE a.action \in {"ComputeShares", "ComputeMix"} -> TRUE
      [] a.action = "ComputePublicKey" -> AllKeyShares(bb) /\ a.self = t
      [] a.action = "SignMix" ->
            LET msg == MixToVerify(bb, active, a)
            IN  VerifyShuffle(VerificationInput(bb, active, msg), msg.ciphertexts)
      [] a.action = "ComputePartialDecryptions" ->
            /\ FinalMix(t, bb) = a.out
            /\ AllKeyShares(bb)
            /\ a.self = t
      [] a.action = "ComputePlaintexts" ->
            /\ \A i \in Posted(bb, "PartialDecryptions") :
                  Fact(bb, i, active).decryptions \in RangeOf(a.decryptions)
            /\ AllKeyShares(bb)
            /\ Cardinality(FirstDecryptions(bb)) = Threshold
            /\ \A i \in FirstDecryptions(bb) : bb[i].factors_of = FinalMix(t, bb)

(* ... and the message they produce.                                       *)
(* Mutant of PlaintextsMessage: of the first mix the trustee signed.       *)
PlaintextsOfFirstMix(t, bb) ==
    DecryptedBallotsMsg(t,
        bb[First({i \in Posted(bb, "EGCryptograms") : bb[i].signer = t})].ciphertexts)

PlaintextsMessage(t, bb) == DecryptedBallotsMsg(t, FinalMix(t, bb))

ActionMessage(t, bb, active, a) ==
    CASE a.action = "ComputeShares" -> KeySharesMsg(t, starts[t])
      [] a.action = "ComputePublicKey" ->
            ElectionPublicKeyMsg(t, [i \in Trustees |-> a.shares[i][2]])
      [] a.action = "ComputeMix" ->
            EGCryptogramsMsg(t, t, Shuffle(a.in, t, starts[t]))
      [] a.action = "SignMix" ->
            EGCryptogramsMsg(MixToVerify(bb, active, a).originator, t, a.out)
      [] a.action = "ComputePartialDecryptions" ->
            PartialDecryptionsMsg(t, a.out, starts[t])
      [] a.action = "ComputePlaintexts" -> PlaintextsMessage(t, bb)

(* execute_ascent_logic: why it fails, if it does.  Two messages at once   *)
(* are an error.                                                           *)
LogicFailure(t, bb, active, due) ==
    IF Errors(FactsOf(bb, active)) THEN "AscentError"
    ELSE IF \E a \in due : ~ActionSucceeds(t, bb, active, a) THEN "ActionError"
    ELSE IF Cardinality(due) > 1 THEN "MultipleMessages"
    ELSE "None"

-------------------------------------------------------------------------------
(* determine_next_state_and_output of each state.                          *)

IdleNext(t, bb, configured, active) ==
    IF Posted(bb, "Setup") # {} /\ ~configured THEN "ElectionSetup"
    ELSE IF /\ Posted(bb, "MixInitialization") # {}
            /\ Posted(bb, "PartialDecryptions") = {}
            /\ t \in RangeOf(active)
         THEN "Mixing"
    ELSE "Idle"

ElectionSetupNext(bb, configured) ==
    IF ~configured THEN "Failed"
    ELSE IF Cardinality(Signers(bb, "Setup")) < NumTrustees + 1 THEN "ElectionSetup"
    ELSE "Idle"

KeyGenNext(bb) ==
    IF Cardinality(Originators(bb, "ElectionPublicKey")) < NumTrustees THEN "KeyGen"
    ELSE "Idle"

MixSigners(bb, originator) ==
    {bb[i].signer : i \in {j \in Posted(bb, "EGCryptograms") : bb[j].originator = originator}}
MixingNext(bb, active) ==
    IF \/ Cardinality(Originators(bb, "EGCryptograms")) < Len(active)
       \/ \E t \in Originators(bb, "EGCryptograms") :
             Cardinality(MixSigners(bb, t)) < Len(active)
    THEN "Mixing" ELSE "Decryption"

(* Mutant of DecryptionNext: off by one.                                   *)
DecryptionNextOffByOne(bb, active) ==
    IF Cardinality(Signers(bb, "DecryptedBallots")) <= Len(active) THEN "Decryption"
    ELSE "Idle"

DecryptionNext(bb, active) ==
    IF Cardinality(Signers(bb, "DecryptedBallots")) < Len(active) THEN "Decryption"
    ELSE "Idle"

NextState(t, state, bb, configured, active) ==
    CASE state = "Idle" -> IdleNext(t, bb, configured, active)
      [] state = "ElectionSetup" -> ElectionSetupNext(bb, configured)
      [] state = "KeyGen" -> KeyGenNext(bb)
      [] state = "Mixing" -> MixingNext(bb, active)
      [] state = "Decryption" -> DecryptionNext(bb, active)

-------------------------------------------------------------------------------
(* Inputs of the actor.                                                    *)

Running == {"Idle", "ElectionSetup", "KeyGen", "Mixing", "Decryption"}

Fail(t, bb, active, state, failure) ==
    /\ trustee' = [trustee EXCEPT ![t].state = state, ![t].board = bb,
                                  ![t].active = active, ![t].failure = failure]
    /\ UNCHANGED <<saved, starts, sent>>

(* Mutant of InvalidUpdate: the signatures are not looked at.              *)
InvalidUpdateButUnsigned(t, update) ==
    \/ \E i, j \in DOMAIN update : \E k \in i..j : k \notin DOMAIN update
    \/ \E i \in DOMAIN update \cap DOMAIN trustee[t].board : update[i] # trustee[t].board[i]

(* An update maps positions to messages.                                   *)
InvalidUpdate(t, update) ==
    \/ \E i \in DOMAIN update : ~update[i].signed
    \/ \E i, j \in DOMAIN update : \E k \in i..j : k \notin DOMAIN update
    \/ \E i \in DOMAIN update \cap DOMAIN trustee[t].board : update[i] # trustee[t].board[i]

RefuseUpdate(t, update) ==
    /\ trustee[t].state \in Running
    /\ InvalidUpdate(t, update)
    /\ Fail(t, trustee[t].board, trustee[t].active, "Failed", "InvalidUpdate")

(* Mutant of Extended: all messages of the update are taken to be new.     *)
ExtendedWithAll(bb, update) ==
    bb \o [i \in 1..Cardinality(DOMAIN update) |-> update[First(DOMAIN update) + i - 1]]

(* The board with the new messages of the update.                          *)
Extended(bb, update) ==
    [i \in DOMAIN bb \cup DOMAIN update |-> IF i \in DOMAIN bb THEN bb[i] ELSE update[i]]

(* populate_active_trustees_from_board                                     *)
PopulateActive(bb, active) ==
    IF active # << >> \/ Posted(bb, "MixInitialization") = {} THEN active
    ELSE bb[First(Posted(bb, "MixInitialization"))].active_trustees

(* The end of process_board_update: the update is refused, the logic fails, *)
(* or the trustee does what is due and changes its state.                  *)
Conclude(t, bb, active, refused, due, failure) ==
    LET self == trustee[t]
        next == NextState(t, self.state, bb, self.configured, active)
    IN
    \/ /\ refused # {}
       /\ LET i == First(refused)
          IN  IF ConversionPanics(bb, i, self.configured)
              THEN Fail(t, SubSeq(bb, 1, i - 1), self.active, "Panicked", "NoPublicKey")
              ELSE Fail(t, SubSeq(bb, 1, i - 1), self.active, "Failed", "Conversion")
    \/ /\ refused = {}
       /\ failure # "None"
       /\ Fail(t, bb, active, "Failed", failure)
    \/ /\ refused = {}
       /\ failure = "None"
       /\ next = "Failed"
       /\ Fail(t, bb, active, "Failed", "NoSetupData")
    \/ /\ refused = {}
       /\ failure = "None"
       /\ next # "Failed"
       /\ trustee' = [trustee EXCEPT ![t].state = next, ![t].board = bb,
                                     ![t].active = active, ![t].completed = @ \cup due]
       /\ sent' = sent \cup {ActionMessage(t, bb, active, a) : a \in due}
       /\ saved' = IF self.state # "Idle" /\ next = "Idle"
                   THEN [saved EXCEPT ![t] = Checkpoint(bb, self.configured, active)]
                   ELSE saved
       /\ UNCHANGED starts

(* process_board_update of an update with something new.  All its messages *)
(* are converted with the active list as it was before the update.  The    *)
(* logic does not run in ElectionSetup, or before the setup is approved.   *)
ProcessUpdate(t, update) ==
    LET self == trustee[t]
        bb == Extended(self.board, update)
        refused == {i \in DOMAIN bb \ DOMAIN self.board :
                       \/ ConversionPanics(bb, i, self.configured)
                       \/ ~Convertible(bb, i, self.configured, self.active)}
        active == PopulateActive(bb, self.active)
        logic_runs == self.state # "ElectionSetup" /\ self.configured
        due == IF logic_runs THEN DueActions(t, bb, active, self.completed) ELSE {}
        failure == IF logic_runs THEN LogicFailure(t, bb, active, due) ELSE "None"
    IN
    /\ self.state \in Running
    /\ ~InvalidUpdate(t, update)
    /\ Len(self.board) + 1 \in DOMAIN update
    /\ Conclude(t, bb, active, refused, due, failure)

(* The host approves the setup it was asked to approve.                    *)
ApproveSetup(t) ==
    /\ trustee[t].state = "ElectionSetup"
    /\ ~trustee[t].configured
    /\ trustee' = [trustee EXCEPT ![t].configured = TRUE]
    /\ sent' = sent \cup {SetupMsg(t)}
    /\ UNCHANGED <<saved, starts>>

(* handle_start_keygen executes whatever action is due.                    *)
StartTrusteeKeyGen(t) ==
    LET self == trustee[t]
        due == IF self.configured THEN DueActions(t, self.board, self.active, self.completed)
               ELSE {}
    IN
    /\ self.state = "Idle"
    /\ due # {}
    /\ LogicFailure(t, self.board, self.active, due) = "None"
    /\ trustee' = [trustee EXCEPT ![t].state = "KeyGen", ![t].completed = @ \cup due]
    /\ sent' = sent \cup {ActionMessage(t, self.board, self.active, a) : a \in due}
    /\ UNCHANGED <<saved, starts>>

(* The host creates the actor anew from its last checkpoint; what it sent  *)
(* may still reach the TAS.                                                *)
Restart(t) ==
    /\ starts[t] < MaxRestarts  \* bound
    /\ trustee' = [trustee EXCEPT ![t] = Actor(saved[t])]
    /\ starts' = [starts EXCEPT ![t] = @ + 1]
    /\ UNCHANGED <<saved, sent>>
===============================================================================
