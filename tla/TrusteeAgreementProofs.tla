------------------------ MODULE TrusteeAgreementProofs ------------------------
(***************************************************************************)
(* Proofs about what the trustees do together.                             *)
(*                                                                         *)
(* All agree on the election key, whoever restarts and deals again, and    *)
(* whenever the TAS stops.  The TAS takes key shares as long as those of a *)
(* trustee are missing, so that none is on the board after the shares of   *)
(* all.  A trustee computes the key from a mirror with the shares of all:  *)
(* the shares on the rest of the board are the same ones, and two shares   *)
(* of one trustee would be an error of the Ascent logic.                   *)
(*                                                                         *)
(* No trustee helps to decrypt ballots before all active trustees mixed    *)
(* them and signed each other's mixes, and all publish the plaintexts of   *)
(* these ballots.  What is mixed in a round is what the round before has   *)
(* put out first on the board: a second output would be an error of the    *)
(* Ascent logic for everybody who sees it.  A chain of signed mixes on the *)
(* mirror of a trustee is thus the chain of these outputs.                 *)
(***************************************************************************)
EXTENDS TrusteeProtocolProofs, FiniteSetTheorems

-------------------------------------------------------------------------------
(* Key generation.                                                         *)

DealsOf(t) ==
    {board[i].deal : i \in {j \in Posted(board, "KeyShares") : board[j].originator = t}}

SharesMissing(bb) == ~(Trustees \subseteq Signers(bb, "KeyShares"))

SharesAwaited == tas_state = "AwaitingKeySharesMsgs" => SharesMissing(board)

(* None of the shares comes after those of all trustees.                   *)
NoSharesAfterAll ==
    \A i \in Posted(board, "KeyShares") : \E t \in Trustees :
        \A j \in Posted(board, "KeyShares") : board[j].signer = t => i <= j

KeyOfDeals(msg) ==
    msg.type = "ElectionPublicKey" => \A t \in Trustees : DealsOf(t) = {msg.key[t]}

KeysAreOfDeals == \A msg \in sent \cup RangeOf(board) : KeyOfDeals(msg)

(* The key that the TAS keeps is one of those on the board.                *)
KeyIsPosted ==
    \A key \in public_key : \E msg \in RangeOf(board) :
        msg.type = "ElectionPublicKey" /\ msg.key = key

Keys == SharesAwaited /\ NoSharesAfterAll /\ KeysAreOfDeals /\ KeyIsPosted

-------------------------------------------------------------------------------
(* Shares on the board.                                                    *)

LEMMA SharesOnBoard ==
    ASSUME BoardOK, NEW i \in Posted(board, "KeyShares")
    PROVE  /\ i \in DOMAIN board /\ board[i].type = "KeyShares"
           /\ board[i].signer \in Trustees /\ board[i].originator = board[i].signer
<1>1. i \in DOMAIN board /\ board[i].type = "KeyShares"
  BY DEF Posted
<1>2. MessageOK(board[i])
  BY <1>1 DEF BoardOK, RangeOf
<1> QED
  BY <1>1, <1>2 DEF MessageOK

LEMMA AllSigned ==
    ASSUME BoardOK, NEW t \in Trustees
    PROVE  t \in Signers(board, "KeyShares") <=> DealsOf(t) # {}
<1>1. t \in Signers(board, "KeyShares") <=>
         \E i \in Posted(board, "KeyShares") : board[i].signer = t
  BY DEF Signers
<1>2. DealsOf(t) # {} <=> \E i \in Posted(board, "KeyShares") : board[i].originator = t
  BY DEF DealsOf
<1> QED
  BY <1>1, <1>2, SharesOnBoard

LEMMA IncompleteIsMissing ==
    ASSUME NEW bb, \A i \in Posted(bb, "KeyShares") : bb[i].signer \in Trustees,
           ~KeySharesComplete(bb)
    PROVE  SharesMissing(bb)
<1>1. Signers(bb, "KeyShares") \subseteq Trustees
  BY DEF Signers
<1>2. ASSUME Trustees \subseteq Signers(bb, "KeyShares")
      PROVE  FALSE
  <2>1. Signers(bb, "KeyShares") = Trustees
    BY <1>1, <1>2
  <2>2. Cardinality(Trustees) = NumTrustees
    <3>1. 1 \in Int /\ NumTrustees \in Int /\ 1 <= NumTrustees
      BY TrusteesAssumption
    <3>2. Cardinality(1..NumTrustees) = NumTrustees - 1 + 1
      BY <3>1, FS_Interval
    <3> QED
      BY <3>1, <3>2 DEF Trustees
  <2> QED
    BY <2>1, <2>2 DEF KeySharesComplete
<1> QED
  BY <1>2 DEF SharesMissing

(* The deals on a mirror with the shares of all trustees are all deals.    *)
LEMMA KeyOfCompleteMirror ==
    ASSUME BoardOK, NoSharesAfterAll, NEW bb, IsPrefix(bb), NEW active,
           ~Errors(FactsOf(bb, active)), NEW hashes \in SharesAll(FactsOf(bb, active)),
           NEW t \in Trustees
    PROVE  DealsOf(t) = {hashes[t][2]}
<1>1. /\ DOMAIN bb \subseteq DOMAIN board /\ DOMAIN bb = 1..Len(bb) /\ Len(bb) \in Nat
      /\ DOMAIN board \subseteq Nat
      /\ \A i \in DOMAIN bb : bb[i] = board[i] /\ bb[i].type \in MessageTypes
  BY Mirrors, BoardIs DEF MessageOK, IsMessage
<1>2. ASSUME NEW u \in Trustees
      PROVE  \E j \in DOMAIN bb : /\ j \in Posted(board, "KeyShares") /\ board[j].signer = u
                                  /\ hashes[u] = <<u, board[j].deal>>
  <2>1. PICK j \in Posted(bb, "KeyShares") :
           bb[j].originator = u /\ hashes[u] = <<u, bb[j].deal>>
    BY SharesAllAre
  <2>2. j \in DOMAIN bb /\ j \in Posted(board, "KeyShares") /\ bb[j] = board[j]
    BY <1>1, <2>1 DEF Posted
  <2>3. board[j].originator = board[j].signer
    BY <2>2, SharesOnBoard
  <2> QED
    BY <2>1, <2>2, <2>3
<1>3. ASSUME NEW i \in Posted(board, "KeyShares")
      PROVE  i \in DOMAIN bb
  <2>1. PICK u \in Trustees :
           \A j \in Posted(board, "KeyShares") : board[j].signer = u => i <= j
    BY <1>3 DEF NoSharesAfterAll
  <2>2. PICK j \in DOMAIN bb : j \in Posted(board, "KeyShares") /\ board[j].signer = u
    BY <1>2, <2>1
  <2>3. i <= j /\ i \in DOMAIN board /\ DOMAIN board = 1..Len(board)
    BY <2>1, <2>2, BoardIs DEF Posted
  <2>4. j \in 1..Len(bb) /\ i \in 1..Len(board) /\ Len(board) \in Nat
    BY <1>1, <2>3, BoardIs
  <2>5. \A n, m \in Nat : \A k \in 1..n, l \in 1..m : k <= l => k \in 1..m
    OBVIOUS
  <2> QED
    BY <1>1, <2>3, <2>4, <2>5
<1>4. ASSUME NEW i \in Posted(board, "KeyShares"), board[i].originator = t
      PROVE  board[i].deal = hashes[t][2]
  <2>1. i \in DOMAIN bb /\ bb[i].type = "KeyShares" /\ bb[i] = board[i]
    BY <1>1, <1>3, <1>4 DEF Posted
  <2>2. Fact(bb, i, active) = [fact |-> "Shares", shares |-> <<t, board[i].deal>>, sender |-> t]
    BY <1>4, <2>1, FactsSay
  <2>3. [fact |-> "Shares", shares |-> hashes[t], sender |-> t] \in FactsOf(bb, active)
    BY DEF SharesAll
  <2>4. Fact(bb, i, active) \in FactsOf(bb, active)
    BY <2>1 DEF FactsOf
  <2> DEFINE m == [fact |-> "Shares", shares |-> <<t, board[i].deal>>, sender |-> t]
             n == [fact |-> "Shares", shares |-> hashes[t], sender |-> t]
  <2>5. ~Collides(m, n)
    BY <2>2, <2>3, <2>4 DEF Errors
  <2>6. m.fact = "Shares" /\ n.fact = "Shares" /\ m.sender = n.sender
    OBVIOUS
  <2>7. m = n
    <3> HIDE DEF m, n
    <3> QED
      BY <2>5, <2>6 DEF Collides
  <2>8. m.shares = n.shares
    BY <2>7
  <2> QED
    BY <2>8
<1>5. DealsOf(t) # {}
  BY <1>2, SharesOnBoard DEF DealsOf
<1> QED
  BY <1>4, <1>5 DEF DealsOf

-------------------------------------------------------------------------------
(* The invariant.                                                          *)

LEMMA AwaitingShares ==
    ASSUME Types, TASStep, tas_state' = "AwaitingKeySharesMsgs"
    PROVE  Posted(board', "KeyShares") = {} \/ ~KeySharesComplete(board')
<1>1. CASE TASCommand
  BY <1>1 DEF TASCommand, StartSetup, StartKeyGen, StartMixing
<1>2. CASE TASReceive \/ TASReceiveSpoiled
  <2>1. PICK msg : Handle(msg)
    BY <1>2 DEF TASReceive, TASReceiveSpoiled
  <2>2. CASE HandleKeyShares(msg)
    BY <2>2 DEF HandleKeyShares, Accept, Reject
  <2>3. CASE HandleSetup(msg)
    BY <2>3 DEF HandleSetup, Accept, Reject
  <2>4. CASE HandleElectionPublicKey(msg)
    BY <2>4 DEF HandleElectionPublicKey, Accept, Reject
  <2>5. CASE HandleEGCryptograms(msg)
    BY <2>5 DEF HandleEGCryptograms, Accept, Reject
  <2>6. CASE HandlePartialDecryptions(msg)
    BY <2>6 DEF HandlePartialDecryptions, Accept, Reject
  <2>7. CASE HandleDecryptedBallots(msg)
    BY <2>7 DEF HandleDecryptedBallots, Accept, Reject
  <2> QED
    BY <2>1, <2>2, <2>3, <2>4, <2>5, <2>6, <2>7 DEF Handle
<1>3. CASE TASStop
  BY <1>3 DEF TASStop, Stop, Recover
<1> QED
  BY <1>1, <1>2, <1>3 DEF TASStep

LEMMA NoSharesMissing ==
    ASSUME NEW bb, Posted(bb, "KeyShares") = {}
    PROVE  SharesMissing(bb)
<1>1. 1 \in Trustees
  BY TrusteesAssumption DEF Trustees
<1> QED
  BY <1>1 DEF SharesMissing, Signers

LEMMA KeysInit == Init => Keys
<1> SUFFICES ASSUME Init PROVE Keys
  OBVIOUS
<1> DEFINE start_from == ceremony.start_from
<1>1. start_from \in {"nothing", "setup", "keygen"}
  BY TrusteeProtocolAssumption DEF Init
<1>2. /\ board = InitialBoard(start_from) /\ tas_state = "Idle" /\ sent = {}
      /\ public_key = IF start_from = "keygen" THEN {FirstKey} ELSE {}
  BY DEF Init, TASInit, TrusteeInit
<1>3. SharesAwaited
  BY <1>2 DEF SharesAwaited
<1>4. CASE start_from # "keygen"
  <2>1. \A i \in DOMAIN board : board[i].type = "Setup"
    <3>1. CASE start_from = "nothing"
      <4>1. board = << >>
        BY <1>2, <3>1 DEF InitialBoard
      <4>2. DOMAIN << >> = {}
        OBVIOUS
      <4> QED
        BY <4>1, <4>2
    <3>2. CASE start_from = "setup"
      BY <1>2, <3>2, SetupBoardIs DEF InitialBoard, SetupMsg
    <3> QED
      BY <1>1, <1>4, <3>1, <3>2
  <2>2. NoSharesAfterAll
    BY <2>1 DEF NoSharesAfterAll, Posted
  <2>3. KeysAreOfDeals
    BY <1>2, <2>1 DEF KeysAreOfDeals, KeyOfDeals, RangeOf
  <2>4. KeyIsPosted
    BY <1>2, <1>4 DEF KeyIsPosted
  <2> QED
    BY <1>3, <2>2, <2>3, <2>4 DEF Keys
<1>5. CASE start_from = "keygen"
  <2>1. board = KeyGenBoard /\ public_key = {FirstKey}
    BY <1>2, <1>5 DEF InitialBoard
  <2>2. NumTrustees \in Nat /\ 1 \in Trustees /\ Trustees = 1..NumTrustees
    BY TrusteesAssumption DEF Trustees
  <2>3. /\ DOMAIN board = 1..3 * NumTrustees + 1
        /\ \A i \in DOMAIN board : KeyGenMessage(board[i]) /\ Place(board[i]) = i
    BY <1>1, <1>2, <2>1, KeyGenBoardIs, InitialBoardIs
  <2>4. \A t \in Trustees :
           /\ NumTrustees + 1 + t \in DOMAIN board
           /\ 2 * NumTrustees + 1 + t \in DOMAIN board
           /\ board[NumTrustees + 1 + t] = KeySharesMsg(t, 0)
           /\ board[2 * NumTrustees + 1 + t] = ElectionPublicKeyMsg(t, FirstKey)
    BY <2>1, <2>2, <2>3, KeyGenBoardIs
  <2>5. ASSUME NEW i \in DOMAIN board
        PROVE  /\ board[i].type = "KeyShares" => /\ board[i].originator \in Trustees
                                                 /\ board[i].originator = board[i].signer
                                                 /\ i = NumTrustees + 1 + board[i].signer
               /\ board[i].type = "ElectionPublicKey" =>
                     /\ board[i].signer \in Trustees
                     /\ i = 2 * NumTrustees + 1 + board[i].signer
    BY <2>3 DEF KeyGenMessage, MessageOK, Place
  <2>6. NoSharesAfterAll
    <3> SUFFICES ASSUME NEW i \in Posted(board, "KeyShares")
                 PROVE  \E t \in Trustees :
                           \A j \in Posted(board, "KeyShares") : board[j].signer = t => i <= j
      BY DEF NoSharesAfterAll
    <3>1. /\ board[i].signer \in Trustees
          /\ \A j \in Posted(board, "KeyShares") : board[j].signer = board[i].signer => i = j
      BY <2>5 DEF Posted
    <3>2. i \in Nat
      BY <2>3 DEF Posted
    <3> QED
      BY <3>1, <3>2
  <2>7. \A t \in Trustees : DealsOf(t) = {0}
    <3> SUFFICES ASSUME NEW t \in Trustees PROVE DealsOf(t) = {0}
      OBVIOUS
    <3>1. \A i \in Posted(board, "KeyShares") :
             board[i].originator = t => i = NumTrustees + 1 + t
      BY <2>5 DEF Posted
    <3>2. \A m : m = KeySharesMsg(t, 0) =>
                   m.deal = 0 /\ m.originator = t /\ m.type = "KeyShares"
      BY DEF KeySharesMsg
    <3>3. /\ board[NumTrustees + 1 + t].deal = 0
          /\ board[NumTrustees + 1 + t].originator = t
          /\ NumTrustees + 1 + t \in Posted(board, "KeyShares")
      BY <2>4, <3>2 DEF Posted
    <3> QED
      BY <3>1, <3>3 DEF DealsOf
  <2>8. KeysAreOfDeals
    <3> SUFFICES ASSUME NEW i \in DOMAIN board, board[i].type = "ElectionPublicKey"
                 PROVE  \A t \in Trustees : DealsOf(t) = {board[i].key[t]}
      BY <1>2 DEF KeysAreOfDeals, KeyOfDeals, RangeOf
    <3>1. board[i] = ElectionPublicKeyMsg(board[i].signer, FirstKey)
      BY <2>4, <2>5
    <3>2. board[i].key = FirstKey
      BY <3>1 DEF ElectionPublicKeyMsg
    <3> QED
      BY <2>7, <3>2 DEF FirstKey
  <2>9. KeyIsPosted
    <3>1. board[2 * NumTrustees + 1 + 1] = ElectionPublicKeyMsg(1, FirstKey)
          /\ 2 * NumTrustees + 1 + 1 \in DOMAIN board
      BY <2>2, <2>4
    <3>2. ElectionPublicKeyMsg(1, FirstKey) \in RangeOf(board)
      BY <3>1 DEF RangeOf
    <3> QED
      BY <2>1, <3>2 DEF KeyIsPosted, ElectionPublicKeyMsg
  <2> QED
    BY <1>3, <2>6, <2>8, <2>9 DEF Keys
<1> QED
  BY <1>4, <1>5

(* The key in a trustee's message is the key of the shares on the board.   *)
LEMMA ComputedKeys ==
    ASSUME Types, Keys, NEW t \in Trustees, NEW bb, NEW a, Acts(t, bb, a)
    PROVE  KeyOfDeals(ActionMessage(t, bb, ActiveOf(bb), a))
<1> DEFINE M == FactsOf(bb, ActiveOf(bb))
           msg == ActionMessage(t, bb, ActiveOf(bb), a)
<1>1. BoardOK /\ NoSharesAfterAll /\ IsPrefix(bb) /\ a \in Actions(M) /\ ~Errors(M)
  BY DEF Types, Keys, Acts
<1>2. CASE a.action = "ComputePublicKey"
  <2>1. msg = ElectionPublicKeyMsg(t, [i \in Trustees |-> a.shares[i][2]])
    BY <1>2, MessagesByAction
  <2>2. a \in ComputePublicKey(M)
    BY <1>1, <1>2, ActionsByName
  <2>3. a.shares \in SharesAll(M)
    BY <2>2 DEF ComputePublicKey
  <2>4. \A u \in Trustees : DealsOf(u) = {a.shares[u][2]}
    BY <1>1, <2>3, KeyOfCompleteMirror
  <2> QED
    BY <2>1, <2>4 DEF KeyOfDeals, ElectionPublicKeyMsg
<1>3. CASE a.action # "ComputePublicKey"
  <2>1. msg.type # "ElectionPublicKey"
    <3>1. CASE a.action = "ComputeShares"
      BY <3>1 DEF ActionMessage, KeySharesMsg
    <3>2. CASE a.action \in {"ComputeMix", "SignMix"}
      BY <3>2 DEF ActionMessage, EGCryptogramsMsg
    <3>3. CASE a.action = "ComputePartialDecryptions"
      BY <3>3 DEF ActionMessage, PartialDecryptionsMsg
    <3>4. CASE a.action = "ComputePlaintexts"
      BY <3>4 DEF ActionMessage, PlaintextsMessage, DecryptedBallotsMsg
    <3> QED
      BY <1>1, <1>3, <3>1, <3>2, <3>3, <3>4, ActionsByName
  <2> QED
    BY <2>1 DEF KeyOfDeals
<1> QED
  BY <1>2, <1>3

(* The TAS takes no more shares once there is a key.                       *)
LEMMA NoKeyYet ==
    ASSUME Types, Keys, tas_state = "AwaitingKeySharesMsgs"
    PROVE  \A msg \in sent \cup RangeOf(board) : msg.type # "ElectionPublicKey"
<1>1. PICK t \in Trustees : t \notin Signers(board, "KeyShares")
  BY DEF Keys, SharesAwaited, SharesMissing
<1>2. DealsOf(t) = {}
  BY <1>1, AllSigned DEF Types
<1>3. \A m : KeyOfDeals(m) => m.type # "ElectionPublicKey"
  <2>1. \A key : {} # {key[t]}
    OBVIOUS
  <2> QED
    BY <1>2, <2>1 DEF KeyOfDeals
<1> QED
  BY <1>3 DEF Keys, KeysAreOfDeals

LEMMA KeysAfterPosting ==
    ASSUME Types, Keys, UNCHANGED sent, NEW msg, Posts(msg), Received(msg) \/ OfHost(msg)
    PROVE  NoSharesAfterAll' /\ KeysAreOfDeals'
<1>1. /\ BoardOK /\ Len(board) \in Nat /\ DOMAIN board = 1..Len(board)
      /\ DOMAIN board' = DOMAIN board \cup {Len(board) + 1}
      /\ \A i \in DOMAIN board : board'[i] = board[i]
      /\ board'[Len(board) + 1] = msg
      /\ RangeOf(board') = RangeOf(board) \cup {msg}
      /\ NoSharesAfterAll /\ KeysAreOfDeals
      /\ Len(board) + 1 \notin DOMAIN board
  <2>1. BoardOK /\ NoSharesAfterAll /\ KeysAreOfDeals
    BY DEF Types, Keys
  <2>2. Len(board) \in Nat /\ DOMAIN board = 1..Len(board)
    BY <2>1, BoardIs
  <2>3. Len(board) + 1 \notin DOMAIN board
    BY <2>2
  <2> QED
    BY <2>1, <2>2, <2>3, Posting
<1>2. CASE msg.type # "KeyShares"
  <2>1. Posted(board', "KeyShares") = Posted(board, "KeyShares")
    BY <1>1, <1>2 DEF Posted
  <2>2. \A i \in Posted(board, "KeyShares") : board'[i] = board[i]
    BY <1>1 DEF Posted
  <2>3. NoSharesAfterAll'
    BY <1>1, <2>1, <2>2 DEF NoSharesAfterAll
  <2>4. \A t : DealsOf(t)' = DealsOf(t)
    BY <2>1, <2>2 DEF DealsOf
  <2>5. KeyOfDeals(msg)
    <3>1. CASE Received(msg)
      BY <1>1, <3>1 DEF Received, KeysAreOfDeals
    <3>2. CASE OfHost(msg)
      BY <3>2 DEF OfHost, KeyOfDeals, SetupMsg, MixInitializationMsg
    <3> QED
      BY <3>1, <3>2
  <2>6. \A m : KeyOfDeals(m) => KeyOfDeals(m)'
    BY <2>4 DEF KeyOfDeals
  <2> QED
    BY <1>1, <2>3, <2>5, <2>6 DEF KeysAreOfDeals
<1>3. CASE msg.type = "KeyShares"
  <2>1. Received(msg)
    BY <1>3 DEF OfHost, SetupMsg, MixInitializationMsg
  <2>2. tas_state = "AwaitingKeySharesMsgs"
    BY <1>3, <2>1 DEF Received, Awaited
  <2>3. PICK t \in Trustees : t \notin Signers(board, "KeyShares")
    BY <2>2 DEF Keys, SharesAwaited, SharesMissing
  <2>4. /\ Posted(board', "KeyShares") = Posted(board, "KeyShares") \cup {Len(board) + 1}
        /\ \A i \in Posted(board, "KeyShares") : board'[i] = board[i] /\ i \in 1..Len(board)
    BY <1>1, <1>3 DEF Posted
  <2>5. NoSharesAfterAll'
    <3> SUFFICES ASSUME NEW i \in Posted(board', "KeyShares")
                 PROVE  \E u \in Trustees :
                           \A j \in Posted(board', "KeyShares") : board'[j].signer = u => i <= j
      BY DEF NoSharesAfterAll
    <3>1. CASE i = Len(board) + 1
      <4>1. \A j \in Posted(board, "KeyShares") : board'[j].signer # t
        BY <2>3, <2>4 DEF Signers
      <4>2. \A j \in Posted(board', "KeyShares") : board'[j].signer = t => i <= j
        BY <1>1, <2>4, <3>1, <4>1
      <4> QED
        BY <4>2
    <3>2. CASE i \in Posted(board, "KeyShares")
      <4>1. PICK u \in Trustees :
               \A j \in Posted(board, "KeyShares") : board[j].signer = u => i <= j
        BY <1>1, <3>2 DEF NoSharesAfterAll
      <4>2. i <= Len(board) + 1
        BY <1>1, <2>4, <3>2
      <4>3. \A j \in Posted(board', "KeyShares") : board'[j].signer = u => i <= j
        BY <2>4, <4>1, <4>2
      <4> QED
        BY <4>3
    <3> QED
      BY <2>4, <3>1, <3>2
  <2>6. \A m \in sent \cup RangeOf(board) : m.type # "ElectionPublicKey"
    BY <2>2, NoKeyYet
  <2>7. \A m \in sent \cup RangeOf(board') : m.type # "ElectionPublicKey"
    BY <1>1, <1>3, <2>6
  <2> QED
    BY <2>5, <2>7 DEF KeysAreOfDeals, KeyOfDeals
<1> QED
  BY <1>2, <1>3

LEMMA KeysStep == Types /\ Types' /\ Keys /\ [Next]_vars => Keys'
<1> SUFFICES ASSUME Types, Types', Keys, [Next]_vars PROVE Keys'
  OBVIOUS
<1>1. CASE UNCHANGED vars
  <2>1. UNCHANGED <<board, sent, tas_state, public_key>>
    BY <1>1 DEF vars, tasVars, trusteeVars
  <2>2. SharesAwaited' /\ NoSharesAfterAll' /\ KeyIsPosted'
    BY <2>1 DEF Keys, SharesAwaited, NoSharesAfterAll, KeyIsPosted
  <2>3. \A m : KeyOfDeals(m) => KeyOfDeals(m)'
    BY <2>1 DEF KeyOfDeals, DealsOf
  <2>4. KeysAreOfDeals'
    BY <2>1, <2>3 DEF Keys, KeysAreOfDeals
  <2> QED
    BY <2>2, <2>4 DEF Keys
<1>2. ASSUME NEW t \in Trustees, TrusteeStep(t)
      PROVE  Keys'
  <2>1. UNCHANGED <<board, tas_state, public_key>> /\ Sends(t)
    BY <1>2, TrusteeSteps DEF tasVars
  <2>2. SharesAwaited' /\ NoSharesAfterAll' /\ KeyIsPosted'
    BY <2>1 DEF Keys, SharesAwaited, NoSharesAfterAll, KeyIsPosted
  <2>3. \A m : KeyOfDeals(m) => KeyOfDeals(m)'
    BY <2>1 DEF KeyOfDeals, DealsOf
  <2>4. ASSUME NEW m \in sent' \cup RangeOf(board')
        PROVE  KeyOfDeals(m)
    <3>1. CASE m \in sent \cup RangeOf(board)
      BY <3>1 DEF Keys, KeysAreOfDeals
    <3>2. CASE m = SetupMsg(t)
      BY <3>2 DEF KeyOfDeals, SetupMsg
    <3>3. CASE \E bb, a : Acts(t, bb, a) /\ m = ActionMessage(t, bb, ActiveOf(bb), a)
      BY <3>3, ComputedKeys
    <3> QED
      BY <2>1, <3>1, <3>2, <3>3 DEF Sends
  <2>5. KeysAreOfDeals'
    BY <2>3, <2>4 DEF KeysAreOfDeals
  <2> QED
    BY <2>2, <2>5 DEF Keys
<1>3. CASE TASStep
  <2>1. /\ UNCHANGED sent
        /\ \/ board' = board
           \/ \E msg : Posts(msg) /\ (Received(msg) \/ OfHost(msg))
        /\ \/ UNCHANGED public_key
           \/ \E msg \in sent : /\ msg.type = "ElectionPublicKey"
                                /\ msg \in RangeOf(board')
                                /\ public_key' = {msg.key}
    BY <1>3, TASSteps DEF trusteeVars
  <2>2. SharesAwaited'
    <3> SUFFICES ASSUME tas_state' = "AwaitingKeySharesMsgs" PROVE SharesMissing(board')
      BY DEF SharesAwaited, SharesMissing
    <3>1. Posted(board', "KeyShares") = {} \/ ~KeySharesComplete(board')
      BY <1>3, AwaitingShares
    <3>2. \A i \in Posted(board', "KeyShares") : board'[i].signer \in Trustees
      BY DEF Types, BoardOK, RangeOf, Posted, MessageOK
    <3> QED
      BY <3>1, <3>2, NoSharesMissing, IncompleteIsMissing
  <2>3. NoSharesAfterAll' /\ KeysAreOfDeals'
    <3>1. CASE board' = board
      BY <2>1, <3>1 DEF Keys, NoSharesAfterAll, KeysAreOfDeals, KeyOfDeals, DealsOf
    <3>2. CASE \E msg : Posts(msg) /\ (Received(msg) \/ OfHost(msg))
      BY <2>1, <3>2, KeysAfterPosting
    <3> QED
      BY <2>1, <3>1, <3>2
  <2>4. KeyIsPosted'
    <3>1. RangeOf(board) \subseteq RangeOf(board')
      <4>1. CASE board' = board
        BY <4>1
      <4>2. CASE \E msg : Posts(msg)
        BY <4>2, Posting DEF Types
      <4> QED
        BY <2>1, <4>1, <4>2
    <3> QED
      BY <2>1, <3>1 DEF Keys, KeyIsPosted
  <2> QED
    BY <2>2, <2>3, <2>4 DEF Keys
<1> QED
  BY <1>1, <1>2, <1>3 DEF Next, TASStep, TrusteeStep

LEMMA AlwaysKeys == Spec => []Keys
  BY KeysInit, KeysStep, AlwaysTypes, PTL DEF Spec

(* Every election key that a trustee sends or that is on the board is the  *)
(* key of the only shares that each trustee has on the board, and the one  *)
(* the TAS keeps (compute_public_key, check_election_public_key_msg).      *)
THEOREM TrusteesAgreeOnTheKey == Spec => []ElectionKeyAgreed
<1>1. Types /\ Keys => ElectionKeyAgreed
  <2> SUFFICES ASSUME Types, Keys,
                      NEW msg \in sent \cup RangeOf(board), msg.type = "ElectionPublicKey"
               PROVE  /\ public_key \subseteq {msg.key}
                      /\ \A t \in Trustees : DealsOf(t) = {msg.key[t]}
    BY DEF ElectionKeyAgreed, DealsOf
  <2>1. \A t \in Trustees : DealsOf(t) = {msg.key[t]}
    BY DEF Keys, KeysAreOfDeals, KeyOfDeals
  <2>2. ASSUME NEW key \in public_key
        PROVE  key = msg.key
    <3>1. PICK m \in RangeOf(board) : m.type = "ElectionPublicKey" /\ m.key = key
      BY DEF Keys, KeyIsPosted
    <3>2. \A t \in Trustees : DealsOf(t) = {key[t]}
      BY <3>1 DEF Keys, KeysAreOfDeals, KeyOfDeals
    <3>3. MessageOK(m) /\ MessageOK(msg)
      BY DEF Types, BoardOK, SentOK
    <3>4. key \in [Trustees -> 0..MaxRestarts] /\ msg.key \in [Trustees -> 0..MaxRestarts]
      BY <3>1, <3>3 DEF MessageOK
    <3>5. \A t \in Trustees : key[t] = msg.key[t]
      BY <2>1, <3>2
    <3> QED
      BY <3>4, <3>5
  <2> QED
    BY <2>1, <2>2
<1> QED
  BY <1>1, AlwaysKeys, AlwaysTypes, PTL

-------------------------------------------------------------------------------
(* Mixing and decryption.                                                  *)

(* The messages of mixing and decryption on the board are of trustees.     *)
PostedWereSent ==
    \A i \in DOMAIN board : board[i].type \in MixingPhase => board[i] \in sent

(* Mixes are of the output of the round before.                            *)
IsMix(msg) ==
    msg.type = "EGCryptograms" =>
        /\ msg.originator \in RangeOf(Active)
        /\ HasOutput(ActiveIndex(Active, msg.originator) - 1)
        /\ \E randomness \in 0..MaxRestarts : msg =
               EGCryptogramsMsg(msg.originator, msg.signer,
                   Shuffle(Output(ActiveIndex(Active, msg.originator) - 1),
                           msg.originator, randomness))

(* Decryption is of the output of the last round.                          *)
IsLastOutput(ciphertexts) ==
    /\ HasOutput(Threshold)
    /\ ciphertexts = Output(Threshold)
    /\ FullyMixed(ciphertexts)

Decryptors(ciphertexts) ==
    {board[i].signer : i \in {j \in Posted(board, "PartialDecryptions") :
                                 board[j].factors_of = ciphertexts}}

IsDecryption(msg) ==
    /\ msg.type = "PartialDecryptions" => IsLastOutput(msg.factors_of)
    /\ msg.type = "DecryptedBallots" =>
          /\ IsLastOutput(msg.plaintexts_of)
          /\ Cardinality(Decryptors(msg.plaintexts_of)) >= Threshold

Mixes == PostedWereSent /\ \A msg \in sent : IsMix(msg) /\ IsDecryption(msg)

-------------------------------------------------------------------------------
(* Rounds on growing boards.                                               *)

(* What is output by a round stays its output when the board grows.        *)
LEMMA RoundsPersist ==
    ASSUME NEW n \in Nat, NEW m \in Nat, n <= m, NEW bb, NEW cc,
           DOMAIN bb = 1..n, DOMAIN cc = 1..m, \A k \in 1..n : bb[k] = cc[k],
           NEW i \in 1..n + 1, NEW j \in 1..m + 1, i <= j, NEW active, NEW round,
           RoundExists(bb, i, active, round)
    PROVE  /\ RoundExists(cc, j, active, round)
           /\ RoundOutput(cc, j, active, round) = RoundOutput(bb, i, active, round)
<1>1. \A k \in 1..n : k \in 1..m
  OBVIOUS
<1>2. ASSUME NEW P, P \subseteq 1..n, NEW Q, Q \subseteq 1..m,
             \A k \in 1..n : k \in P <=> k \in Q, Before(i, P) # {}
      PROVE  /\ Before(j, Q) # {}
             /\ First(Before(j, Q)) = First(Before(i, P))
             /\ First(Before(i, P)) \in 1..n
  <2>1. Before(i, P) \subseteq Before(j, Q) /\ Before(j, Q) \subseteq Nat
    <3>1. \A k \in 1..n : k < i => k < j
      OBVIOUS
    <3>2. \A k \in P : k \in Q /\ (k < i => k < j)
      BY <1>2, <3>1
    <3>3. \A k \in 1..m : k \in Nat
      OBVIOUS
    <3> QED
      BY <1>2, <3>2, <3>3 DEF Before
  <2>2. \A k \in Before(i, P), l \in Before(j, Q) \ Before(i, P) : k <= l
    <3> SUFFICES ASSUME NEW k \in Before(i, P), NEW l \in Before(j, Q) \ Before(i, P)
                 PROVE  k <= l
      OBVIOUS
    <3>1. k \in P /\ k \in 1..n /\ k < i /\ l \in Q /\ l \in 1..m /\ ~(l \in P /\ l < i)
      BY <1>2 DEF Before
    <3>2. ~(l \in 1..n /\ l < i)
      BY <1>2, <3>1
    <3> QED
      BY <3>1, <3>2
  <2>3. First(Before(j, Q)) = First(Before(i, P))
    BY <1>2, <2>1, <2>2, FirstStays
  <2>4. First(Before(i, P)) \in Before(i, P)
    BY <1>2, <2>1, FirstIs
  <2> QED
    BY <1>2, <2>1, <2>3, <2>4 DEF Before
<1>3. \A type : /\ Posted(bb, type) \subseteq 1..n /\ Posted(cc, type) \subseteq 1..m
                /\ \A k \in 1..n : k \in Posted(bb, type) <=> k \in Posted(cc, type)
  BY <1>1 DEF Posted
<1>4. /\ MixesOfRound(bb, active, round) \subseteq 1..n
      /\ MixesOfRound(cc, active, round) \subseteq 1..m
      /\ \A k \in 1..n : k \in MixesOfRound(bb, active, round)
                            <=> k \in MixesOfRound(cc, active, round)
  BY <1>3 DEF MixesOfRound
<1>5. CASE round = 0
  <2> DEFINE P == Posted(bb, "MixInitialization")
             Q == Posted(cc, "MixInitialization")
  <2>1. Before(i, P) # {}
    BY <1>5 DEF RoundExists
  <2>2. /\ Before(j, Q) # {} /\ First(Before(j, Q)) = First(Before(i, P))
        /\ First(Before(i, P)) \in 1..n
    <3>1. P \subseteq 1..n /\ Q \subseteq 1..m /\ \A k \in 1..n : k \in P <=> k \in Q
      BY <1>3
    <3> HIDE DEF P, Q
    <3> QED
      BY <1>2, <2>1, <3>1
  <2> QED
    BY <1>5, <2>2 DEF RoundExists, RoundOutput
<1>6. CASE round # 0
  <2> DEFINE P == MixesOfRound(bb, active, round)
             Q == MixesOfRound(cc, active, round)
  <2>1. Before(i, P) # {}
    BY <1>6 DEF RoundExists
  <2>2. /\ Before(j, Q) # {} /\ First(Before(j, Q)) = First(Before(i, P))
        /\ First(Before(i, P)) \in 1..n
    <3>1. P \subseteq 1..n /\ Q \subseteq 1..m /\ \A k \in 1..n : k \in P <=> k \in Q
      BY <1>4
    <3> HIDE DEF P, Q
    <3> QED
      BY <1>2, <2>1, <3>1
  <2> QED
    BY <1>6, <2>2 DEF RoundExists, RoundOutput
<1> QED
  BY <1>5, <1>6

(* What a mirror says of a round holds of the board.                       *)
LEMMA RoundsOfMirrors ==
    ASSUME BoardOK, NEW bb, IsPrefix(bb), NEW i \in 1..Len(bb) + 1, NEW round,
           ActiveOf(bb) = Active, RoundExists(bb, i, ActiveOf(bb), round)
    PROVE  HasOutput(round) /\ Output(round) = RoundOutput(bb, i, ActiveOf(bb), round)
<1>1. /\ Len(board) \in Nat /\ DOMAIN board = 1..Len(board)
      /\ Len(bb) \in 0..Len(board) /\ DOMAIN bb = 1..Len(bb)
      /\ \A k \in DOMAIN bb : bb[k] = board[k]
  BY BoardIs, Mirrors
<1>2. /\ Len(bb) \in Nat /\ Len(bb) <= Len(board) /\ i <= Len(board) + 1
      /\ Len(board) + 1 \in 1..Len(board) + 1
  BY <1>1
<1> QED
  BY <1>1, <1>2, RoundsPersist DEF HasOutput, Output

LEMMA ActiveIsKnown ==
    ASSUME BoardOK, NEW bb, IsPrefix(bb), Posted(bb, "MixInitialization") # {}
    PROVE  LET first == First(Posted(bb, "MixInitialization"))
           IN  /\ first \in DOMAIN bb /\ first \in DOMAIN board /\ bb[first] = board[first]
               /\ board[first].type = "MixInitialization"
               /\ ActiveOf(bb) = board[first].active_trustees
               /\ ActiveOf(bb) = Active
               /\ ActiveOf(bb) \in Seq(Trustees) /\ Len(ActiveOf(bb)) = Threshold
               /\ DOMAIN ActiveOf(bb) = 1..Threshold
               /\ ActiveOf(bb) # << >>
<1> DEFINE P == Posted(bb, "MixInitialization")
<1>1. /\ Len(board) \in Nat /\ DOMAIN board = 1..Len(board)
      /\ Len(bb) \in 0..Len(board) /\ DOMAIN bb = 1..Len(bb) /\ bb = Prefix(Len(bb))
      /\ DOMAIN bb \subseteq DOMAIN board
      /\ \A k \in DOMAIN bb : bb[k] = board[k] /\ MessageOK(bb[k])
  BY BoardIs, Mirrors
<1>2. P \subseteq Nat /\ P \subseteq DOMAIN bb /\ \A i \in P : bb[i].type = "MixInitialization"
  BY <1>1 DEF Posted
<1>3. First(P) \in P
  <2> HIDE DEF P
  <2>1. P # {}
    BY DEF P
  <2> QED
    BY <1>2, <2>1, FirstIs
<1>4. ActiveOf(bb) = bb[First(P)].active_trustees
  BY DEF ActiveOf, PopulateActive
<1> HIDE DEF P
<1>5. /\ bb[First(P)].active_trustees \in Seq(Trustees)
      /\ Len(bb[First(P)].active_trustees) = Threshold
  BY <1>1, <1>2, <1>3 DEF MessageOK
<1>6. /\ ActiveOf(bb) \in Seq(Trustees) /\ Len(ActiveOf(bb)) = Threshold
      /\ DOMAIN ActiveOf(bb) = 1..Threshold
      /\ ActiveOf(bb) # << >>
  BY <1>4, <1>5, LenProperties, EmptySeq, TrusteesAssumption
<1>7. ActiveOf(bb) = Active
  <2>1. board = Prefix(Len(board)) /\ Len(board) \in Len(bb)..Len(board)
    BY <1>1, WholeIsPrefix
  <2>2. PopulateActive(board, ActiveOf(bb)) = ActiveOf(board)
    BY <1>1, <2>1, ActiveStays
  <2> QED
    BY <1>6, <2>2 DEF PopulateActive, Active
<1> QED
  BY <1>1, <1>2, <1>3, <1>4, <1>6, <1>7 DEF P

-------------------------------------------------------------------------------
(* The mirror of a trustee that acts in mixing or decryption.              *)

(* Its facts do not collide, so there are the ballots of one               *)
(* initialization message, and one mix of each trustee.                    *)
LEMMA OneBallots ==
    ASSUME BoardOK, NEW bb, IsPrefix(bb), ~Errors(FactsOf(bb, ActiveOf(bb))),
           NEW b \in Facts(FactsOf(bb, ActiveOf(bb)), "Ballots")
    PROVE  LET first == First(Posted(bb, "MixInitialization"))
           IN  /\ Posted(bb, "MixInitialization") # {}
               /\ b.ciphertexts = Unmixed(board[first].ballots)
               /\ b.mixing_trustees = [k \in 1..Threshold |-> k]
<1> DEFINE P == Posted(bb, "MixInitialization")
           M == FactsOf(bb, ActiveOf(bb))
<1>1. PICK i \in DOMAIN bb : b = Fact(bb, i, ActiveOf(bb)) /\ b.fact = "Ballots"
  BY DEF Facts, FactsOf
<1>2. \A k \in DOMAIN bb : bb[k].type \in MessageTypes
  BY Mirrors DEF MessageOK, IsMessage
<1>3. i \in P
  BY <1>1, <1>2, FactsFrom DEF Posted
<1>4. /\ First(P) \in DOMAIN bb /\ bb[First(P)] = board[First(P)]
      /\ bb[First(P)].type = "MixInitialization"
      /\ DOMAIN bb[First(P)].active_trustees = 1..Threshold
  BY <1>3, ActiveIsKnown
<1>5. PICK c : c = Fact(bb, First(P), ActiveOf(bb))
  OBVIOUS
<1>6. c \in M /\ c.fact = "Ballots"
  BY <1>4, <1>5, <1>2, FactsFrom DEF FactsOf
<1>7. b = c
  <2>1. ~Collides(b, c)
    BY <1>6 DEF Errors, Facts
  <2> QED
    BY <1>1, <1>6, <2>1 DEF Collides
<1>8. c = [fact |-> "Ballots", pk |-> AscentPk(bb, First(P)),
           ciphertexts |-> Unmixed(bb[First(P)].ballots),
           mixing_trustees |-> [k \in DOMAIN bb[First(P)].active_trustees |-> k]]
  BY <1>4, <1>5, FactsSay
<1>9. /\ b.ciphertexts = Unmixed(board[First(P)].ballots)
      /\ b.mixing_trustees = [k \in 1..Threshold |-> k]
  BY <1>4, <1>7, <1>8
<1> QED
  BY <1>3, <1>9

LEMMA PositionsAre ==
    ASSUME BoardOK, NEW bb, IsPrefix(bb), ~Errors(FactsOf(bb, ActiveOf(bb))),
           NEW pk, NEW position, NEW self,
           MixingPosition(FactsOf(bb, ActiveOf(bb)), pk, position, self)
    PROVE  position \in 1..Threshold /\ self = position
<1>1. PICK b \in Facts(FactsOf(bb, ActiveOf(bb)), "Ballots") :
         position \in DOMAIN b.mixing_trustees /\ b.mixing_trustees[position] = self
  BY DEF MixingPosition
<1>2. b.mixing_trustees = [k \in 1..Threshold |-> k]
  BY OneBallots
<1> QED
  BY <1>1, <1>2

LEMMA ActiveIndexIs ==
    ASSUME NEW active \in Seq(Trustees), NEW t \in RangeOf(active)
    PROVE  ActiveIndex(active, t) \in DOMAIN active /\ active[ActiveIndex(active, t)] = t
<1> DEFINE S == {k \in DOMAIN active : active[k] = t}
<1>1. S \subseteq Nat /\ S # {}
  BY LenProperties DEF RangeOf
<1> HIDE DEF S
<1>2. First(S) \in S
  BY <1>1, FirstIs
<1> QED
  BY <1>2 DEF S, ActiveIndex

(* Mix facts come from mixes on the mirror, of what the round before has   *)
(* put out on the board.                                                   *)
LEMMA MixFacts ==
    ASSUME BoardOK, NEW bb, IsPrefix(bb), Converted(bb),
           NEW m \in Facts(FactsOf(bb, ActiveOf(bb)), "Mix")
                         \cup Facts(FactsOf(bb, ActiveOf(bb)), "MixSignature"),
           Posted(bb, "MixInitialization") # {}
    PROVE  \E i \in Posted(bb, "EGCryptograms") :
              /\ m.out = bb[i].ciphertexts
              /\ m.fact = "Mix" => bb[i].originator = bb[i].signer
              /\ bb[i].signer \in RangeOf(Active)
              /\ bb[i].originator \in RangeOf(Active)
              /\ m.sender = ActiveIndex(Active, bb[i].signer)
              /\ HasOutput(ActiveIndex(Active, bb[i].originator) - 1)
              /\ m.in = Output(ActiveIndex(Active, bb[i].originator) - 1)
<1>1. PICK i \in DOMAIN bb :
         m = Fact(bb, i, ActiveOf(bb)) /\ m.fact \in {"Mix", "MixSignature"}
  BY DEF Facts, FactsOf
<1>2. bb[i].type \in MessageTypes
  BY Mirrors DEF MessageOK, IsMessage
<1>3. bb[i].type = "EGCryptograms" /\ (m.fact = "Mix" => bb[i].originator = bb[i].signer)
  BY <1>1, <1>2, FactsFrom
<1>4. ActiveOf(bb) = Active
  BY ActiveIsKnown
<1>5. Fact(bb, i, Active) =
         [fact |-> IF bb[i].originator = bb[i].signer THEN "Mix" ELSE "MixSignature",
          pk |-> AscentPk(bb, i),
          in |-> RoundOutput(bb, i, Active, InputRound(Active, bb[i])),
          out |-> bb[i].ciphertexts, sender |-> ActiveIndex(Active, bb[i].signer)]
  BY <1>3, FactsSay
<1>6. InputRound(Active, bb[i]) = ActiveIndex(Active, bb[i].originator) - 1
  BY <1>3 DEF InputRound
<1>7. /\ bb[i].signer \in RangeOf(Active) /\ bb[i].originator \in RangeOf(Active)
      /\ RoundExists(bb, i, Active, ActiveIndex(Active, bb[i].originator) - 1)
  BY <1>3, <1>4, <1>6 DEF Converted, MixingPhase
<1>8. i \in 1..Len(bb) + 1
  <2>1. Len(bb) \in Nat /\ i \in 1..Len(bb)
    BY Mirrors, BoardIs
  <2> QED
    BY <2>1
<1>9. /\ HasOutput(ActiveIndex(Active, bb[i].originator) - 1)
      /\ Output(ActiveIndex(Active, bb[i].originator) - 1)
            = RoundOutput(bb, i, Active, ActiveIndex(Active, bb[i].originator) - 1)
  BY <1>4, <1>7, <1>8, RoundsOfMirrors
<1>10. /\ m.out = bb[i].ciphertexts
       /\ m.sender = ActiveIndex(Active, bb[i].signer)
       /\ m.in = Output(ActiveIndex(Active, bb[i].originator) - 1)
  BY <1>1, <1>4, <1>5, <1>6, <1>9
<1> QED
  BY <1>3, <1>7, <1>9, <1>10 DEF Posted

(* There is one output of each round on the mirror, the one that is first  *)
(* on the board.                                                           *)
LEMMA MixIsOutput ==
    ASSUME BoardOK, NEW bb, IsPrefix(bb), Converted(bb), ~Errors(FactsOf(bb, ActiveOf(bb))),
           NEW m \in Facts(FactsOf(bb, ActiveOf(bb)), "Mix"),
           Posted(bb, "MixInitialization") # {}
    PROVE  /\ m.sender \in 1..Threshold
           /\ HasOutput(m.sender) /\ m.out = Output(m.sender)
           /\ HasOutput(m.sender - 1) /\ m.in = Output(m.sender - 1)
<1> DEFINE M == FactsOf(bb, ActiveOf(bb))
           k == m.sender
           S == MixesOfRound(bb, Active, k)
<1>1. /\ ActiveOf(bb) = Active /\ Active \in Seq(Trustees) /\ DOMAIN Active = 1..Threshold
      /\ Len(bb) \in Nat /\ DOMAIN bb = 1..Len(bb) /\ m.fact = "Mix"
      /\ Threshold \in Nat
  BY ActiveIsKnown, Mirrors, BoardIs, TrusteesAssumption DEF Facts
<1>2. PICK i \in Posted(bb, "EGCryptograms") :
         /\ m.out = bb[i].ciphertexts
         /\ bb[i].originator = bb[i].signer
         /\ bb[i].signer \in RangeOf(Active)
         /\ k = ActiveIndex(Active, bb[i].signer)
         /\ HasOutput(k - 1)
         /\ m.in = Output(k - 1)
  BY <1>1, MixFacts
<1>3. k \in 1..Threshold /\ Active[k] = bb[i].signer /\ k # 0
  BY <1>1, <1>2, ActiveIndexIs
<1>4. i \in S /\ S \subseteq 1..Len(bb)
  BY <1>1, <1>2, <1>3 DEF MixesOfRound, Posted
<1>5. Before(Len(bb) + 1, S) = S
  <2> HIDE DEF S
  <2>1. \A j \in 1..Len(bb) : j < Len(bb) + 1
    BY <1>1
  <2> QED
    BY <1>4, <2>1 DEF Before
<1>6. PICK f \in S : f = First(S)
  <2> HIDE DEF S
  <2>1. S \subseteq Nat /\ S # {}
    BY <1>1, <1>4
  <2> QED
    BY <2>1, FirstIs
<1>7. /\ bb[f].type = "EGCryptograms" /\ f \in DOMAIN bb
      /\ bb[f].originator = Active[k] /\ bb[f].signer = Active[k]
      /\ bb[f].type \in MessageTypes
  BY <1>6 DEF MixesOfRound, Posted, MessageTypes
<1>8. PICK n : n = Fact(bb, f, Active)
  OBVIOUS
<1>9. n \in M /\ n.fact = "Mix"
  BY <1>1, <1>7, <1>8, FactsFrom DEF FactsOf
<1>10. n.out = bb[f].ciphertexts /\ n.sender = k
  <2>1. n = [fact |-> IF bb[f].originator = bb[f].signer THEN "Mix" ELSE "MixSignature",
             pk |-> AscentPk(bb, f),
             in |-> RoundOutput(bb, f, Active, InputRound(Active, bb[f])),
             out |-> bb[f].ciphertexts, sender |-> ActiveIndex(Active, bb[f].signer)]
    BY <1>7, <1>8, FactsSay
  <2>2. n.out = bb[f].ciphertexts /\ n.sender = ActiveIndex(Active, bb[f].signer)
    BY <2>1
  <2> QED
    BY <1>2, <1>3, <1>7, <2>2
<1>11. n = m
  <2>1. m \in M /\ ~Collides(n, m)
    BY <1>9 DEF Errors, Facts
  <2> QED
    BY <1>1, <1>9, <1>10, <2>1 DEF Collides
<1>12. /\ RoundExists(bb, Len(bb) + 1, Active, k)
       /\ RoundOutput(bb, Len(bb) + 1, Active, k) = m.out
  BY <1>3, <1>4, <1>5, <1>6, <1>10, <1>11 DEF RoundExists, RoundOutput
<1>13. HasOutput(k) /\ Output(k) = m.out
  <2>1. Len(bb) + 1 \in 1..Len(bb) + 1
    BY <1>1
  <2> QED
    BY <1>1, <1>12, <2>1, RoundsOfMirrors
<1> QED
  BY <1>2, <1>3, <1>13

(* The ballots are what round 0 puts out.                                  *)
LEMMA BallotsAreOutput ==
    ASSUME BoardOK, NEW bb, IsPrefix(bb), Posted(bb, "MixInitialization") # {}
    PROVE  /\ HasOutput(0)
           /\ Output(0) = Unmixed(board[First(Posted(bb, "MixInitialization"))].ballots)
<1> DEFINE P == Posted(bb, "MixInitialization")
<1>1. /\ Len(bb) \in Nat /\ DOMAIN bb = 1..Len(bb) /\ P \subseteq DOMAIN bb
      /\ ActiveOf(bb) = Active
      /\ bb[First(P)] = board[First(P)]
  BY ActiveIsKnown, Mirrors, BoardIs DEF Posted
<1>2. Before(Len(bb) + 1, P) = P
  <2> HIDE DEF P
  <2>1. \A j \in 1..Len(bb) : j < Len(bb) + 1
    BY <1>1
  <2> QED
    BY <1>1, <2>1 DEF Before
<1>3. /\ RoundExists(bb, Len(bb) + 1, Active, 0)
      /\ RoundOutput(bb, Len(bb) + 1, Active, 0) = Unmixed(board[First(P)].ballots)
  BY <1>1, <1>2 DEF RoundExists, RoundOutput
<1>4. Len(bb) + 1 \in 1..Len(bb) + 1
  BY <1>1
<1> QED
  BY <1>1, <1>3, <1>4, RoundsOfMirrors

-------------------------------------------------------------------------------
(* What the trustees send in mixing.                                       *)

LEMMA BallotsKnown ==
    ASSUME BoardOK, NEW t, NEW bb, NEW a, Acts(t, bb, a),
           a.action \notin {"ComputeShares", "ComputePublicKey"}
    PROVE  /\ Posted(bb, "MixInitialization") # {}
           /\ t \in RangeOf(Active) /\ a.self = ActiveIndex(Active, t)
<1> DEFINE M == FactsOf(bb, ActiveOf(bb))
<1>1. /\ IsPrefix(bb) /\ ~Errors(M) /\ a \in Actions(M)
      /\ a.self \in MyIndex(t, ActiveOf(bb))
  BY DEF Acts
<1>2. Facts(M, "Ballots") # {}
  <2>1. CASE a.action = "ComputeMix"
    <3>1. a \in ComputeFirstMix(M) \cup ComputeNextMix(M)
      BY <1>1, <2>1, ActionsByName
    <3>2. CASE a \in ComputeFirstMix(M)
      BY <3>2 DEF ComputeFirstMix
    <3>3. CASE a \in ComputeNextMix(M)
      <4>1. \E pk, position, self : MixingPosition(M, pk, position, self)
        BY <3>3 DEF ComputeNextMix
      <4> QED
        BY <4>1 DEF MixingPosition
    <3> QED
      BY <3>1, <3>2, <3>3
  <2>2. CASE a.action = "SignMix"
    <3>1. a \in SignMix(M)
      BY <1>1, <2>2, ActionsByName
    <3>2. \E pk, self : SelectedTrustee(M, pk, self)
      BY <3>1 DEF SignMix
    <3> QED
      BY <3>2 DEF SelectedTrustee, MixingPosition
  <2>3. CASE a.action = "ComputePartialDecryptions"
    <3>1. a \in ComputePartialDecryptions(M)
      BY <1>1, <2>3, ActionsByName
    <3> QED
      BY <3>1 DEF ComputePartialDecryptions
  <2>4. CASE a.action = "ComputePlaintexts"
    <3>1. a \in ComputePlaintexts(M)
      BY <1>1, <2>4, ActionsByName
    <3> QED
      BY <3>1 DEF ComputePlaintexts
  <2> QED
    BY <1>1, <2>1, <2>2, <2>3, <2>4, ActionsByName
<1>3. Posted(bb, "MixInitialization") # {}
  BY <1>1, <1>2, OneBallots
<1>4. ActiveOf(bb) = Active /\ Active # << >>
  BY <1>1, <1>3, ActiveIsKnown
<1>5. t \in RangeOf(Active) /\ a.self = ActiveIndex(Active, t)
  BY <1>1, <1>4 DEF MyIndex
<1> QED
  BY <1>3, <1>5

LEMMA MixInputs ==
    ASSUME BoardOK, NEW t, NEW bb, NEW a, Acts(t, bb, a), a.action = "ComputeMix"
    PROVE  /\ t \in RangeOf(Active)
           /\ HasOutput(ActiveIndex(Active, t) - 1)
           /\ a.in = Output(ActiveIndex(Active, t) - 1)
<1> DEFINE M == FactsOf(bb, ActiveOf(bb))
<1>1. /\ IsPrefix(bb) /\ Converted(bb) /\ ~Errors(M) /\ a \in Actions(M)
      /\ Posted(bb, "MixInitialization") # {}
      /\ t \in RangeOf(Active) /\ a.self = ActiveIndex(Active, t)
  BY BallotsKnown DEF Acts
<1>2. a \in ComputeFirstMix(M) \cup ComputeNextMix(M)
  BY <1>1, ActionsByName
<1>3. CASE a \in ComputeFirstMix(M)
  <2>1. PICK b \in Facts(M, "Ballots"), self \in Configured(M) :
           a = MixDue(b.pk, b.ciphertexts, self) /\ MixingPosition(M, b.pk, 1, self)
    BY <1>3 DEF ComputeFirstMix
  <2>2. a.self = self /\ a.in = b.ciphertexts
    BY <2>1 DEF MixDue
  <2>3. self = 1
    BY <1>1, <2>1, PositionsAre
  <2>4. ActiveIndex(Active, t) - 1 = 0
    BY <1>1, <2>2, <2>3
  <2>5. a.in = Output(0) /\ HasOutput(0)
    BY <1>1, <2>2, OneBallots, BallotsAreOutput
  <2> QED
    BY <1>1, <2>4, <2>5
<1>4. CASE a \in ComputeNextMix(M)
  <2>0. PICK m \in Facts(M, "Mix"), self \in Configured(M) :
           /\ a = MixDue(m.pk, m.out, self)
           /\ \E position \in 2..Threshold :
                 /\ MixingPosition(M, m.pk, position, self)
                 /\ MixingPosition(M, m.pk, position - 1, m.sender)
    BY <1>4 DEF ComputeNextMix
  <2>1. PICK position \in 2..Threshold :
           /\ MixingPosition(M, m.pk, position, self)
           /\ MixingPosition(M, m.pk, position - 1, m.sender)
    BY <2>0
  <2>2. a.self = self /\ a.in = m.out
    BY <2>0 DEF MixDue
  <2>3. self = position /\ m.sender = position - 1
    BY <1>1, <2>1, PositionsAre
  <2>4. HasOutput(m.sender) /\ m.out = Output(m.sender)
    BY <1>1, MixIsOutput
  <2> QED
    BY <1>1, <2>2, <2>3, <2>4
<1> QED
  BY <1>2, <1>3, <1>4

LEMMA MessageTypesByAction ==
    ASSUME NEW M, NEW a \in Actions(M), NEW t, NEW bb, NEW active
    PROVE  LET msg == ActionMessage(t, bb, active, a)
           IN  /\ msg.type = "EGCryptograms" => a.action \in {"ComputeMix", "SignMix"}
               /\ msg.type = "PartialDecryptions" => a.action = "ComputePartialDecryptions"
               /\ msg.type = "DecryptedBallots" => a.action = "ComputePlaintexts"
<1>1. CASE a.action = "ComputeShares"
  BY <1>1 DEF ActionMessage, KeySharesMsg
<1>2. CASE a.action = "ComputePublicKey"
  BY <1>2 DEF ActionMessage, ElectionPublicKeyMsg
<1>3. CASE a.action \in {"ComputeMix", "SignMix"}
  BY <1>3 DEF ActionMessage, EGCryptogramsMsg
<1>4. CASE a.action = "ComputePartialDecryptions"
  BY <1>4 DEF ActionMessage, PartialDecryptionsMsg
<1>5. CASE a.action = "ComputePlaintexts"
  BY <1>5 DEF ActionMessage, PlaintextsMessage, DecryptedBallotsMsg
<1> QED
  BY <1>1, <1>2, <1>3, <1>4, <1>5, ActionsByName

(* A mix that is on a mirror is of the output of the round before.         *)
LEMMA PostedMixes ==
    ASSUME BoardOK, Mixes, NEW bb, IsPrefix(bb), NEW i \in Posted(bb, "EGCryptograms")
    PROVE  /\ bb[i].originator \in RangeOf(Active)
           /\ HasOutput(ActiveIndex(Active, bb[i].originator) - 1)
           /\ \E randomness \in 0..MaxRestarts :
                 /\ bb[i] = EGCryptogramsMsg(bb[i].originator, bb[i].signer, bb[i].ciphertexts)
                 /\ bb[i].ciphertexts =
                       Shuffle(Output(ActiveIndex(Active, bb[i].originator) - 1),
                               bb[i].originator, randomness)
<1>1. i \in DOMAIN board /\ bb[i] = board[i] /\ board[i].type = "EGCryptograms"
  BY Mirrors DEF Posted
<1>2. bb[i] \in sent
  BY <1>1 DEF Mixes, PostedWereSent, MixingPhase
<1>3. IsMix(bb[i])
  BY <1>2 DEF Mixes
<1>4. /\ bb[i].originator \in RangeOf(Active)
      /\ HasOutput(ActiveIndex(Active, bb[i].originator) - 1)
  BY <1>1, <1>3 DEF IsMix
<1>5. PICK randomness \in 0..MaxRestarts : bb[i] =
         EGCryptogramsMsg(bb[i].originator, bb[i].signer,
             Shuffle(Output(ActiveIndex(Active, bb[i].originator) - 1),
                     bb[i].originator, randomness))
  BY <1>1, <1>3 DEF IsMix
<1>6. \A o, s, c : EGCryptogramsMsg(o, s, c).ciphertexts = c
  BY DEF EGCryptogramsMsg
<1>7. bb[i].ciphertexts = Shuffle(Output(ActiveIndex(Active, bb[i].originator) - 1),
                                  bb[i].originator, randomness)
  BY <1>5, <1>6
<1> QED
  BY <1>4, <1>5, <1>7

LEMMA MixMessages ==
    ASSUME Types, Mixes, NEW t \in Trustees, NEW bb, NEW a, Acts(t, bb, a)
    PROVE  IsMix(ActionMessage(t, bb, ActiveOf(bb), a))
<1> DEFINE msg == ActionMessage(t, bb, ActiveOf(bb), a)
           M == FactsOf(bb, ActiveOf(bb))
<1>1. BoardOK /\ a \in Actions(M) /\ IsPrefix(bb)
  BY DEF Types, Acts
<1>2. CASE a.action = "ComputeMix"
  <2>1. msg = EGCryptogramsMsg(t, t, Shuffle(a.in, t, starts[t]))
    BY <1>2, MessagesByAction
  <2>2. /\ t \in RangeOf(Active) /\ HasOutput(ActiveIndex(Active, t) - 1)
        /\ a.in = Output(ActiveIndex(Active, t) - 1)
    BY <1>1, <1>2, MixInputs
  <2>3. starts[t] \in 0..MaxRestarts
    BY DEF Types, ConstantsOK
  <2>4. msg.originator = t /\ msg.signer = t
    BY <2>1 DEF EGCryptogramsMsg
  <2> QED
    BY <2>1, <2>2, <2>3, <2>4 DEF IsMix
<1>3. CASE a.action = "SignMix"
  <2>1. msg = EGCryptogramsMsg(MixToVerify(bb, ActiveOf(bb), a).originator, t, a.out)
    BY <1>3 DEF ActionMessage
  <2>2. a \in SignMix(M)
    BY <1>1, <1>3, ActionsByName
  <2>3. PICK i \in Posted(bb, "EGCryptograms") :
           MixToVerify(bb, ActiveOf(bb), a) = bb[i] /\ bb[i].ciphertexts = a.out
    BY <1>1, <2>2, MixToVerifyIs
  <2>4. msg.originator = bb[i].originator /\ msg.signer = t
        /\ msg = EGCryptogramsMsg(bb[i].originator, t, bb[i].ciphertexts)
    BY <2>1, <2>3 DEF EGCryptogramsMsg
  <2>5. /\ bb[i].originator \in RangeOf(Active)
        /\ HasOutput(ActiveIndex(Active, bb[i].originator) - 1)
        /\ \E randomness \in 0..MaxRestarts : bb[i].ciphertexts =
              Shuffle(Output(ActiveIndex(Active, bb[i].originator) - 1),
                      bb[i].originator, randomness)
    BY <1>1, PostedMixes
  <2> QED
    BY <2>4, <2>5 DEF IsMix
<1>4. CASE a.action \notin {"ComputeMix", "SignMix"}
  BY <1>1, <1>4, MessageTypesByAction DEF IsMix
<1> QED
  BY <1>2, <1>3, <1>4

-------------------------------------------------------------------------------
(* Chains of signed mixes.                                                 *)

SignedMixes(M, b, input, position) ==
    {m.out : m \in {n \in Facts(M, "Mix") :
        /\ n.pk = b.pk
        /\ n.in = input
        /\ MixingPosition(M, b.pk, position, n.sender)
        /\ MixSignaturesAll(M, b.pk, n.in, n.out)}}

Links(M, b, ends, position) ==
    IF position = 1
    THEN IF b.pk \in PublicKeysAll(M) THEN SignedMixes(M, b, b.ciphertexts, 1) ELSE {}
    ELSE UNION {SignedMixes(M, b, input, position) : input \in ends[position - 1]}

(* The recursive definition of the chain has a solution.                   *)
LEMMA ChainsExist ==
    ASSUME NEW M, NEW b
    PROVE  \A n \in Nat : \E f : f = [p \in 1..n |-> Links(M, b, f, p)]
<1> DEFINE Solved(n) == \E f : f = [p \in 1..n |-> Links(M, b, f, p)]
           Unsolved == {n \in Nat : ~Solved(n)}
<1> HIDE DEF Solved
<1>1. Solved(0)
  <2> DEFINE f == [p \in 1..0 |-> {}]
  <2>1. f = [p \in 1..0 |-> Links(M, b, f, p)]
    OBVIOUS
  <2> HIDE DEF f
  <2> QED
    BY <2>1 DEF Solved
<1>2. ASSUME NEW n \in Nat, Solved(n)
      PROVE  Solved(n + 1)
  <2>1. PICK f : f = [p \in 1..n |-> Links(M, b, f, p)]
    BY <1>2 DEF Solved
  <2> DEFINE g == [p \in 1..n + 1 |-> IF p \in 1..n THEN f[p] ELSE Links(M, b, f, p)]
  <2>2. \A p \in 1..n + 1 : p # 1 => p - 1 \in 1..n /\ p - 1 \in 1..n + 1
    OBVIOUS
  <2>3. \A p \in 1..n : g[p] = f[p]
    OBVIOUS
  <2>4. \A p \in 1..n + 1 : Links(M, b, g, p) = Links(M, b, f, p)
    <3> HIDE DEF g
    <3> QED
      BY <2>2, <2>3 DEF Links
  <2>5. \A p \in 1..n : f[p] = Links(M, b, f, p)
    BY <2>1
  <2>6. \A p \in 1..n + 1 : g[p] = Links(M, b, g, p)
    BY <2>4, <2>5
  <2>7. g = [p \in 1..n + 1 |-> Links(M, b, g, p)]
    <3>1. g = [p \in 1..n + 1 |-> g[p]]
      OBVIOUS
    <3> HIDE DEF g
    <3> QED
      BY <2>6, <3>1
  <2> HIDE DEF g
  <2> QED
    BY <2>7 DEF Solved
<1>3. Unsolved = {}
  <2> SUFFICES ASSUME Unsolved # {} PROVE FALSE
    OBVIOUS
  <2>1. PICK m \in Unsolved : \A k \in Unsolved : m <= k
    BY LeastExists
  <2>2. m # 0 /\ m - 1 \in Nat /\ ~(m <= m - 1) /\ m - 1 + 1 = m
    BY <1>1
  <2>3. Solved(m - 1)
    BY <2>1, <2>2
  <2> QED
    BY <1>2, <2>2, <2>3
<1> QED
  BY <1>3 DEF Solved

LEMMA ChainIs ==
    ASSUME NEW M, NEW b
    PROVE  MixChain(M, b) = [p \in 1..Threshold |-> Links(M, b, MixChain(M, b), p)]
<1> DEFINE F == CHOOSE f : f = [p \in 1..Threshold |-> Links(M, b, f, p)]
<1>1. Threshold \in Nat
  BY TrusteesAssumption
<1>2. \E f : f = [p \in 1..Threshold |-> Links(M, b, f, p)]
  BY <1>1, ChainsExist
<1>3. F = [p \in 1..Threshold |-> Links(M, b, F, p)]
  BY <1>2, Zenon
<1>4. MixChain(M, b) = F
  BY DEF MixChain, Links, SignedMixes
<1> HIDE DEF F
<1> QED
  BY <1>3, <1>4, Zenon

(* A mix of each round, signed by all.                                     *)
SignedRound(M, pk, k) ==
    \E m \in Facts(M, "Mix") :
        /\ m.pk = pk /\ m.sender = k
        /\ HasOutput(k - 1) /\ m.in = Output(k - 1)
        /\ HasOutput(k) /\ m.out = Output(k)
        /\ MixSignaturesAll(M, pk, m.in, m.out)

LEMMA LinksAre ==
    ASSUME BoardOK, NEW bb, IsPrefix(bb), Converted(bb), ~Errors(FactsOf(bb, ActiveOf(bb))),
           Posted(bb, "MixInitialization") # {},
           NEW b \in Facts(FactsOf(bb, ActiveOf(bb)), "Ballots"), NEW k \in 1..Threshold,
           NEW c \in MixChain(FactsOf(bb, ActiveOf(bb)), b)[k]
    PROVE  /\ c = Output(k)
           /\ SignedRound(FactsOf(bb, ActiveOf(bb)), b.pk, k)
           /\ k # 1 => Output(k - 1) \in MixChain(FactsOf(bb, ActiveOf(bb)), b)[k - 1]
<1> DEFINE M == FactsOf(bb, ActiveOf(bb))
           ends == MixChain(M, b)
<1>1. c \in Links(M, b, ends, k)
  <2>1. ends = [p \in 1..Threshold |-> Links(M, b, ends, p)]
    BY ChainIs
  <2>2. c \in ends[k]
    OBVIOUS
  <2> HIDE DEF ends
  <2> QED
    BY <2>1, <2>2
<1>2. PICK input : c \in SignedMixes(M, b, input, k) /\ (k # 1 => input \in ends[k - 1])
  <2> HIDE DEF ends
  <2>1. CASE k = 1
    BY <1>1, <2>1 DEF Links
  <2>2. CASE k # 1
    BY <1>1, <2>2 DEF Links
  <2> QED
    BY <2>1, <2>2
<1>3. PICK m \in Facts(M, "Mix") :
         /\ m.pk = b.pk /\ m.in = input /\ m.out = c
         /\ MixingPosition(M, b.pk, k, m.sender)
         /\ MixSignaturesAll(M, b.pk, m.in, m.out)
  BY <1>2 DEF SignedMixes
<1>4. m.sender = k
  BY <1>3, PositionsAre
<1>5. /\ HasOutput(k) /\ m.out = Output(k)
      /\ HasOutput(k - 1) /\ m.in = Output(k - 1)
  BY <1>4, MixIsOutput
<1> QED
  BY <1>2, <1>3, <1>4, <1>5 DEF SignedRound

LEMMA ChainIsOfOutputs ==
    ASSUME BoardOK, NEW bb, IsPrefix(bb), Converted(bb), ~Errors(FactsOf(bb, ActiveOf(bb))),
           Posted(bb, "MixInitialization") # {},
           NEW b \in Facts(FactsOf(bb, ActiveOf(bb)), "Ballots"),
           NEW c \in MixComplete(FactsOf(bb, ActiveOf(bb)), b)
    PROVE  /\ c = Output(Threshold)
           /\ \A k \in 1..Threshold : SignedRound(FactsOf(bb, ActiveOf(bb)), b.pk, k)
<1> DEFINE M == FactsOf(bb, ActiveOf(bb))
           ends == MixChain(M, b)
           Off == {k \in 1..Threshold : Output(k) \notin ends[k]}
<1>1. Threshold \in Nat /\ Threshold \in 1..Threshold
  BY TrusteesAssumption
<1>2. c \in ends[Threshold]
  BY DEF MixComplete
<1>3. \A k \in 1..Threshold : \A o \in ends[k] :
         /\ o = Output(k) /\ SignedRound(M, b.pk, k)
         /\ k # 1 => Output(k - 1) \in ends[k - 1]
  BY LinksAre
<1> HIDE DEF ends
<1>4. c = Output(Threshold) /\ Output(Threshold) \in ends[Threshold]
  BY <1>1, <1>2, <1>3
<1>5. Off = {}
  <2> SUFFICES ASSUME Off # {} PROVE FALSE
    OBVIOUS
  <2>1. LastOf(Off) \in Off /\ \A j \in Off : j <= LastOf(Off)
    <3>1. Off \subseteq 1..Threshold
      OBVIOUS
    <3> HIDE DEF Off
    <3> QED
      BY <1>1, <3>1, LastIs
  <2>2. PICK k \in 1..Threshold : k \in Off /\ \A j \in Off : j <= k
    BY <2>1
  <2>3. k # Threshold
    BY <1>4, <2>2
  <2>4. k + 1 \in 1..Threshold /\ ~(k + 1 <= k) /\ k + 1 # 1 /\ k + 1 - 1 = k
    BY <1>1, <2>3
  <2>5. Output(k + 1) \in ends[k + 1]
    BY <2>2, <2>4
  <2>6. Output(k + 1 - 1) \in ends[k + 1 - 1]
    BY <1>3, <2>4, <2>5
  <2> QED
    BY <2>2, <2>4, <2>6
<1> QED
  BY <1>3, <1>4, <1>5

-------------------------------------------------------------------------------
(* What the rounds have put out.                                           *)

Ciphertexts(ballots, mixes) == [ballots |-> ballots, mixes |-> mixes]
MixLists == Seq(Trustees \X (0..MaxRestarts))

LEMMA ShuffleIs ==
    ASSUME NEW ballots, NEW mixes, NEW mixer, NEW randomness
    PROVE  Shuffle(Ciphertexts(ballots, mixes), mixer, randomness)
              = Ciphertexts(ballots, Append(mixes, <<mixer, randomness>>))
<1> DEFINE c == Ciphertexts(ballots, mixes)
           more == Append(mixes, <<mixer, randomness>>)
<1>1. c.mixes = mixes
  BY DEF Ciphertexts
<1>2. \A s : [c EXCEPT !.mixes = s] = Ciphertexts(ballots, s)
  BY DEF Ciphertexts
<1> HIDE DEF c
<1>3. Shuffle(c, mixer, randomness) = [c EXCEPT !.mixes = more]
  BY <1>1 DEF Shuffle
<1>4. Shuffle(c, mixer, randomness) = Ciphertexts(ballots, more)
  BY <1>2, <1>3
<1> QED
  BY <1>4 DEF c

LEMMA Appended ==
    ASSUME NEW S, NEW s \in Seq(S), NEW e \in S
    PROVE  /\ Append(s, e) \in Seq(S) /\ Len(Append(s, e)) = Len(s) + 1
           /\ Append(s, e)[Len(s) + 1] = e
           /\ SubSeq(Append(s, e), 1, Len(s) + 1) = Append(s, e)
           /\ \A j \in 1..Len(s) : /\ Append(s, e)[j] = s[j]
                                   /\ SubSeq(Append(s, e), 1, j) = SubSeq(s, 1, j)
<1>1. /\ Append(s, e) \in Seq(S) /\ Len(Append(s, e)) = Len(s) + 1
      /\ \A j \in 1..Len(s) : Append(s, e)[j] = s[j]
      /\ Append(s, e)[Len(s) + 1] = e
      /\ Len(s) \in Nat
  BY AppendProperties, LenProperties
<1> DEFINE a == Append(s, e)
<1> HIDE DEF a
<1>2. a \in Seq(S) /\ Len(a) = Len(s) + 1 /\ \A j \in 1..Len(s) : a[j] = s[j]
  BY <1>1 DEF a
<1>3. SubSeq(a, 1, Len(s) + 1) = a
  <2>1. /\ SubSeq(a, 1, Len(s) + 1) \in Seq(S)
        /\ Len(SubSeq(a, 1, Len(s) + 1)) = Len(s) + 1
        /\ \A i \in 1..Len(s) + 1 : SubSeq(a, 1, Len(s) + 1)[i] = a[i]
    BY <1>1, <1>2, SubSeqProperties
  <2> QED
    BY <1>2, <2>1, SeqEqual
<1>4. ASSUME NEW j \in 1..Len(s)
      PROVE  SubSeq(a, 1, j) = SubSeq(s, 1, j)
  <2>1. j \in Nat /\ j <= Len(s) /\ j <= Len(a) /\ \A i \in 1..j : i \in 1..Len(s)
    BY <1>1, <1>2
  <2>2. /\ SubSeq(a, 1, j) \in Seq(S) /\ Len(SubSeq(a, 1, j)) = j
        /\ \A i \in 1..j : SubSeq(a, 1, j)[i] = a[i]
    BY <1>2, <2>1, SubSeqProperties
  <2>3. /\ SubSeq(s, 1, j) \in Seq(S) /\ Len(SubSeq(s, 1, j)) = j
        /\ \A i \in 1..j : SubSeq(s, 1, j)[i] = s[i]
    BY <2>1, SubSeqProperties
  <2> QED
    BY <1>2, <2>1, <2>2, <2>3, SeqEqual
<1> QED
  BY <1>1, <1>3, <1>4 DEF a

(* The first k mixers mixed the ballots one after the other.               *)
MixedBy(ballots, k) ==
    /\ Output(k) = Ciphertexts(ballots, Output(k).mixes)
    /\ Output(k).mixes \in MixLists
    /\ Len(Output(k).mixes) = k
    /\ \A j \in 1..k : /\ Output(k).mixes[j][1] = Active[j]
                       /\ Output(j) = Ciphertexts(ballots, SubSeq(Output(k).mixes, 1, j))

LEMMA NothingMixedYet ==
    ASSUME NEW ballots, Output(0) = Unmixed(ballots)
    PROVE  MixedBy(ballots, 0)
<1>1. Output(0).ballots = ballots /\ Output(0).mixes = << >>
  BY DEF Unmixed
<1>2. << >> \in MixLists /\ Len(<< >>) = 0
  BY DEF MixLists
<1> QED
  BY <1>1, <1>2 DEF MixedBy, Unmixed, Ciphertexts

LEMMA MixedOnce ==
    ASSUME NEW ballots, NEW k \in Nat, MixedBy(ballots, k), Active[k + 1] \in Trustees,
           NEW randomness \in 0..MaxRestarts,
           Output(k + 1) = Shuffle(Output(k), Active[k + 1], randomness)
    PROVE  MixedBy(ballots, k + 1)
<1> DEFINE s == Output(k).mixes
           e == <<Active[k + 1], randomness>>
           a == Append(s, e)
<1>1. /\ Output(k) = Ciphertexts(ballots, s) /\ s \in MixLists /\ Len(s) = k
      /\ \A j \in 1..k : /\ s[j][1] = Active[j]
                         /\ Output(j) = Ciphertexts(ballots, SubSeq(s, 1, j))
  BY DEF MixedBy
<1>2. Output(k + 1) = Ciphertexts(ballots, a)
  BY <1>1, ShuffleIs
<1>3. Output(k + 1).mixes = a
  BY <1>2 DEF Ciphertexts
<1>4. e \in Trustees \X (0..MaxRestarts) /\ e[1] = Active[k + 1]
  OBVIOUS
<1> HIDE DEF s, e
<1>5. /\ a \in MixLists /\ Len(a) = k + 1 /\ a[k + 1] = e /\ SubSeq(a, 1, k + 1) = a
      /\ \A j \in 1..k : a[j] = s[j] /\ SubSeq(a, 1, j) = SubSeq(s, 1, j)
  BY <1>1, <1>4, Appended DEF MixLists
<1> HIDE DEF a
<1>6. ASSUME NEW j \in 1..k + 1
      PROVE  a[j][1] = Active[j] /\ Output(j) = Ciphertexts(ballots, SubSeq(a, 1, j))
  <2>1. CASE j = k + 1
    BY <1>2, <1>4, <1>5, <2>1
  <2>2. CASE j # k + 1
    <3>1. j \in 1..k
      BY <2>2
    <3> QED
      BY <1>1, <1>5, <3>1
  <2> QED
    BY <2>1, <2>2
<1> QED
  BY <1>2, <1>3, <1>5, <1>6 DEF MixedBy

LEMMA RoundsShuffle ==
    ASSUME BoardOK, Mixes, NEW bb, IsPrefix(bb), Converted(bb),
           Posted(bb, "MixInitialization") # {}, NEW pk, NEW k \in 1..Threshold,
           SignedRound(FactsOf(bb, ActiveOf(bb)), pk, k)
    PROVE  \E randomness \in 0..MaxRestarts :
              Output(k) = Shuffle(Output(k - 1), Active[k], randomness)
<1> DEFINE M == FactsOf(bb, ActiveOf(bb))
<1>1. PICK m \in Facts(M, "Mix") : m.sender = k /\ m.out = Output(k)
  BY DEF SignedRound
<1>2. m.fact = "Mix" /\ Active \in Seq(Trustees)
  BY ActiveIsKnown DEF Facts
<1>3. PICK i \in Posted(bb, "EGCryptograms") :
         /\ m.out = bb[i].ciphertexts
         /\ bb[i].originator = bb[i].signer
         /\ bb[i].originator \in RangeOf(Active)
         /\ m.sender = ActiveIndex(Active, bb[i].signer)
  BY <1>2, MixFacts
<1>4. ActiveIndex(Active, bb[i].originator) = k /\ bb[i].originator = Active[k]
  BY <1>1, <1>2, <1>3, ActiveIndexIs
<1>5. PICK randomness \in 0..MaxRestarts : bb[i].ciphertexts =
         Shuffle(Output(ActiveIndex(Active, bb[i].originator) - 1),
                 bb[i].originator, randomness)
  BY PostedMixes
<1> QED
  BY <1>1, <1>3, <1>4, <1>5

LEMMA RoundsMix ==
    ASSUME BoardOK, Mixes, NEW bb, IsPrefix(bb), Converted(bb),
           Posted(bb, "MixInitialization") # {}, NEW pk,
           \A k \in 1..Threshold : SignedRound(FactsOf(bb, ActiveOf(bb)), pk, k)
    PROVE  LET ballots == board[First(Posted(bb, "MixInitialization"))].ballots
           IN  \A k \in 0..Threshold : MixedBy(ballots, k)
<1> DEFINE ballots == board[First(Posted(bb, "MixInitialization"))].ballots
           Off == {k \in 0..Threshold : ~MixedBy(ballots, k)}
<1> HIDE DEF ballots
<1>1. /\ Threshold \in Nat /\ Active \in Seq(Trustees) /\ DOMAIN Active = 1..Threshold
      /\ \A k \in 1..Threshold : Active[k] \in Trustees
  <2>1. Threshold \in Nat /\ Active \in Seq(Trustees) /\ DOMAIN Active = 1..Threshold
    BY ActiveIsKnown, TrusteesAssumption
  <2>2. \A k \in DOMAIN Active : Active[k] \in Trustees
    BY <2>1, LenProperties
  <2> QED
    BY <2>1, <2>2
<1>2. MixedBy(ballots, 0)
  BY BallotsAreOutput, NothingMixedYet DEF ballots
<1>3. ASSUME NEW k \in Nat, k + 1 \in 1..Threshold, MixedBy(ballots, k)
      PROVE  MixedBy(ballots, k + 1)
  <2>1. PICK randomness \in 0..MaxRestarts :
           Output(k + 1) = Shuffle(Output(k + 1 - 1), Active[k + 1], randomness)
    BY <1>3, RoundsShuffle
  <2>2. k + 1 - 1 = k /\ Active[k + 1] \in Trustees
    BY <1>1, <1>3
  <2> QED
    BY <1>3, <2>1, <2>2, MixedOnce
<1>4. Off = {}
  <2> SUFFICES ASSUME Off # {} PROVE FALSE
    OBVIOUS
  <2>1. PICK m \in Off : \A k \in Off : m <= k
    <3>1. Off \subseteq Nat
      BY <1>1
    <3> QED
      BY <3>1, LeastExists
  <2>2. /\ m \in 0..Threshold /\ m # 0
        /\ m - 1 \in Nat /\ m - 1 \in 0..Threshold /\ m - 1 + 1 = m
        /\ ~(m <= m - 1) /\ m \in 1..Threshold
    BY <1>1, <1>2, <2>1
  <2>3. MixedBy(ballots, m - 1)
    BY <2>1, <2>2
  <2> QED
    BY <1>3, <2>2, <2>3
<1> QED
  BY <1>4 DEF ballots

(* Every active trustee signed every mix.                                  *)
LEMMA RoundsSigned ==
    ASSUME BoardOK, Mixes, NEW bb, IsPrefix(bb), Converted(bb),
           ~Errors(FactsOf(bb, ActiveOf(bb))),
           Posted(bb, "MixInitialization") # {}, NEW pk,
           NEW k \in 1..Threshold, SignedRound(FactsOf(bb, ActiveOf(bb)), pk, k),
           NEW ballots, MixedBy(ballots, k - 1), NEW t \in RangeOf(Active)
    PROVE  EGCryptogramsMsg(Active[k], t, Output(k)) \in RangeOf(board)
<1> DEFINE M == FactsOf(bb, ActiveOf(bb))
           q == ActiveIndex(Active, t)
           s == Output(k - 1).mixes
<1>1. /\ Active \in Seq(Trustees) /\ DOMAIN Active = 1..Threshold
      /\ q \in 1..Threshold /\ Active[q] = t
  BY ActiveIsKnown, ActiveIndexIs
<1>2. PICK m \in Facts(M, "Mix") :
         m.in = Output(k - 1) /\ m.out = Output(k) /\ MixSignaturesAll(M, pk, m.in, m.out)
  BY DEF SignedRound
<1>3. PICK self \in 1..Threshold :
         MixingPosition(M, pk, q, self) /\ MixSignature(M, pk, m.in, m.out, self)
  BY <1>1, <1>2 DEF MixSignaturesAll
<1>4. self = q
  BY <1>3, PositionsAre
<1>5. PICK n \in Facts(M, "Mix") \cup Facts(M, "MixSignature") :
         n.in = Output(k - 1) /\ n.out = Output(k) /\ n.sender = q
  BY <1>2, <1>3, <1>4 DEF MixSignature
<1>6. PICK j \in Posted(bb, "EGCryptograms") :
         /\ n.out = bb[j].ciphertexts
         /\ bb[j].signer \in RangeOf(Active)
         /\ n.sender = ActiveIndex(Active, bb[j].signer)
         /\ n.in = Output(ActiveIndex(Active, bb[j].originator) - 1)
  BY MixFacts
<1>7. bb[j].signer = t
  BY <1>1, <1>5, <1>6, ActiveIndexIs
<1>8. PICK r \in 0..MaxRestarts :
         /\ bb[j] = EGCryptogramsMsg(bb[j].originator, bb[j].signer, bb[j].ciphertexts)
         /\ bb[j].ciphertexts =
               Shuffle(Output(ActiveIndex(Active, bb[j].originator) - 1),
                       bb[j].originator, r)
  BY PostedMixes
<1>9. PICK randomness \in 0..MaxRestarts :
         Output(k) = Shuffle(Output(k - 1), Active[k], randomness)
  BY RoundsShuffle
<1>10. Output(k) = Shuffle(Output(k - 1), bb[j].originator, r)
  BY <1>5, <1>6, <1>8
<1>11. bb[j].originator = Active[k]
  <2>1. Output(k - 1) = Ciphertexts(ballots, s) /\ s \in MixLists
    BY DEF MixedBy
  <2>2. \A a, c : Ciphertexts(ballots, a) = Ciphertexts(ballots, c) => a = c
    BY DEF Ciphertexts
  <2>3. Append(s, <<bb[j].originator, r>>) = Append(s, <<Active[k], randomness>>)
    <3>1. Ciphertexts(ballots, Append(s, <<bb[j].originator, r>>)) =
             Ciphertexts(ballots, Append(s, <<Active[k], randomness>>))
      BY <1>9, <1>10, <2>1, ShuffleIs
    <3> QED
      BY <2>2, <3>1
  <2> HIDE DEF s
  <2>4. j \in DOMAIN bb /\ bb[j].type = "EGCryptograms" /\ MessageOK(bb[j])
    BY Mirrors DEF Posted
  <2>5. bb[j].originator \in Trustees /\ Active[k] \in Trustees
    <3>1. \A p \in DOMAIN Active : Active[p] \in Trustees
      BY <1>1, LenProperties
    <3> QED
      BY <1>1, <2>4, <3>1 DEF MessageOK
  <2>6. /\ <<bb[j].originator, r>> \in Trustees \X (0..MaxRestarts)
        /\ <<Active[k], randomness>> \in Trustees \X (0..MaxRestarts)
    BY <2>5
  <2>7. /\ Append(s, <<bb[j].originator, r>>)[Len(s) + 1] = <<bb[j].originator, r>>
        /\ Append(s, <<Active[k], randomness>>)[Len(s) + 1] = <<Active[k], randomness>>
    BY <2>1, <2>6, Appended DEF MixLists
  <2>8. <<bb[j].originator, r>> = <<Active[k], randomness>>
    BY <2>3, <2>7
  <2> QED
    BY <2>8
<1>12. j \in DOMAIN board /\ bb[j] = board[j]
  BY Mirrors DEF Posted
<1>13. board[j] = EGCryptogramsMsg(Active[k], t, Output(k))
  BY <1>5, <1>6, <1>7, <1>8, <1>11, <1>12
<1> QED
  BY <1>12, <1>13 DEF RangeOf

-------------------------------------------------------------------------------
(* What the trustees send in decryption.                                   *)

LEMMA ChainsEndInLastOutput ==
    ASSUME BoardOK, Mixes, NEW bb, IsPrefix(bb), Converted(bb),
           ~Errors(FactsOf(bb, ActiveOf(bb))),
           NEW b \in Facts(FactsOf(bb, ActiveOf(bb)), "Ballots"),
           NEW c \in MixComplete(FactsOf(bb, ActiveOf(bb)), b)
    PROVE  IsLastOutput(c)
<1> DEFINE M == FactsOf(bb, ActiveOf(bb))
           first == First(Posted(bb, "MixInitialization"))
           ballots == board[first].ballots
<1>1. Posted(bb, "MixInitialization") # {}
  BY OneBallots
<1>2. /\ first \in DOMAIN board /\ board[first].type = "MixInitialization"
      /\ board[first].active_trustees = Active
      /\ Len(Active) = Threshold /\ DOMAIN Active = 1..Threshold
      /\ Threshold \in Nat /\ Threshold \in 1..Threshold
  BY <1>1, ActiveIsKnown, TrusteesAssumption
<1>3. /\ c = Output(Threshold)
      /\ \A k \in 1..Threshold : SignedRound(M, b.pk, k)
  BY <1>1, ChainIsOfOutputs
<1>4. \A k \in 0..Threshold : MixedBy(ballots, k)
  BY <1>1, <1>3, RoundsMix
<1>5. HasOutput(Threshold)
  BY <1>2, <1>3 DEF SignedRound
<1>6. /\ c = Ciphertexts(ballots, c.mixes) /\ Len(c.mixes) = Threshold
      /\ \A k \in 1..Threshold : /\ c.mixes[k][1] = Active[k]
                                 /\ Output(k) = Ciphertexts(ballots, SubSeq(c.mixes, 1, k))
  <2>1. Threshold \in 0..Threshold
    BY <1>2
  <2> QED
    BY <1>3, <1>4, <2>1 DEF MixedBy
<1>7. ASSUME NEW k \in 1..Threshold, NEW t \in RangeOf(Active)
      PROVE  EGCryptogramsMsg(Active[k], t, Output(k)) \in RangeOf(board)
  <2>1. MixedBy(ballots, k - 1)
    BY <1>2, <1>4
  <2> HIDE DEF ballots
  <2> QED
    BY <1>1, <1>3, <2>1, RoundsSigned
<1> HIDE DEF ballots
<1>8. \A s, u : [Ciphertexts(ballots, s) EXCEPT !.mixes = u] = Ciphertexts(ballots, u)
  BY DEF Ciphertexts
<1>9. c.ballots = ballots
  BY <1>6 DEF Ciphertexts
<1>10. \A k \in 1..Threshold :
          [c EXCEPT !.mixes = SubSeq(c.mixes, 1, k)] = Output(k)
  <2>1. PICK s : s = c.mixes
    OBVIOUS
  <2>2. /\ c = Ciphertexts(ballots, s)
        /\ \A k \in 1..Threshold : Output(k) = Ciphertexts(ballots, SubSeq(s, 1, k))
    BY <1>6, <2>1
  <2>3. \A u : [c EXCEPT !.mixes = u] = Ciphertexts(ballots, u)
    BY <1>8, <2>2
  <2> QED
    BY <2>1, <2>2, <2>3
<1> HIDE DEF first
<1>11. FullyMixed(c)
  <2>1. first \in Posted(board, "MixInitialization") /\ c.ballots = board[first].ballots
    BY <1>2, <1>9 DEF Posted, ballots
  <2>2. \A k \in DOMAIN Active :
           /\ c.mixes[k][1] = Active[k]
           /\ \A t \in RangeOf(Active) :
                 EGCryptogramsMsg(Active[k], t, [c EXCEPT !.mixes = SubSeq(@, 1, k)])
                     \in RangeOf(board)
    BY <1>2, <1>6, <1>7, <1>10
  <2> HIDE DEF Active
  <2> QED
    BY <1>2, <1>6, <2>1, <2>2 DEF FullyMixed
<1> QED
  BY <1>3, <1>5, <1>11 DEF IsLastOutput

LEMMA DecryptionMessages ==
    ASSUME Types, Mixes, NEW t \in Trustees, NEW bb, NEW a, Acts(t, bb, a),
           a.action = "ComputePartialDecryptions"
    PROVE  IsDecryption(ActionMessage(t, bb, ActiveOf(bb), a))
<1> DEFINE M == FactsOf(bb, ActiveOf(bb))
           msg == ActionMessage(t, bb, ActiveOf(bb), a)
<1>1. /\ BoardOK /\ IsPrefix(bb) /\ Converted(bb) /\ ~Errors(M) /\ a \in Actions(M)
  BY DEF Types, Acts
<1>2. a \in ComputePartialDecryptions(M)
  BY <1>1, ActionsByName
<1>3. PICK b \in Facts(M, "Ballots") : a.out \in MixComplete(M, b)
  BY <1>2 DEF ComputePartialDecryptions
<1>4. IsLastOutput(a.out)
  BY <1>1, <1>3, ChainsEndInLastOutput
<1>5. msg = PartialDecryptionsMsg(t, a.out, starts[t])
  BY MessagesByAction
<1>6. msg.type = "PartialDecryptions" /\ msg.factors_of = a.out
  BY <1>5 DEF PartialDecryptionsMsg
<1> QED
  BY <1>4, <1>6 DEF IsDecryption

(* The partial decryptions on the board are of the last output.            *)
LEMMA PostedDecryptions ==
    ASSUME Mixes, NEW i \in Posted(board, "PartialDecryptions")
    PROVE  IsLastOutput(board[i].factors_of) /\ board[i].factors_of = Output(Threshold)
<1>1. i \in DOMAIN board /\ board[i].type = "PartialDecryptions"
  BY DEF Posted
<1>2. board[i] \in sent
  BY <1>1 DEF Mixes, PostedWereSent, MixingPhase
<1>3. IsDecryption(board[i])
  BY <1>2 DEF Mixes
<1> QED
  BY <1>1, <1>3 DEF IsDecryption, IsLastOutput

(* There is one of the trustee at every position.                          *)
LEMMA PositionsDecrypt ==
    ASSUME BoardOK, Mixes, NEW bb, IsPrefix(bb), Converted(bb),
           ~Errors(FactsOf(bb, ActiveOf(bb))), Posted(bb, "MixInitialization") # {},
           NEW hashes \in PartialDecryptionsAll(FactsOf(bb, ActiveOf(bb))),
           NEW k \in 1..Threshold
    PROVE  \E u \in Decryptors(Output(Threshold)) :
              u \in RangeOf(Active) /\ ActiveIndex(Active, u) = k
<1> DEFINE M == FactsOf(bb, ActiveOf(bb))
<1>0. ActiveOf(bb) = Active
  BY ActiveIsKnown
<1>1. PICK m \in Facts(M, "PartialDecryptions") : MixingPosition(M, m.pk, k, m.sender)
  BY DEF PartialDecryptionsAll
<1>2. m.sender = k
  BY <1>1, PositionsAre
<1>3. PICK i \in DOMAIN bb : m = Fact(bb, i, Active) /\ m.fact = "PartialDecryptions"
  BY <1>0 DEF Facts, FactsOf
<1>4. bb[i].type \in MessageTypes /\ i \in DOMAIN board /\ bb[i] = board[i]
  BY Mirrors DEF MessageOK, IsMessage
<1>5. bb[i].type = "PartialDecryptions"
  BY <1>3, <1>4, FactsFrom
<1>6. m = [fact |-> "PartialDecryptions", pk |-> AscentPk(bb, i),
           in |-> RoundOutput(bb, i, Active, InputRound(Active, bb[i])),
           decryptions |-> <<bb[i].signer, bb[i].factors_of, bb[i].proofs>>,
           sender |-> ActiveIndex(Active, bb[i].signer)]
  BY <1>3, <1>5, FactsSay
<1>7. m.sender = ActiveIndex(Active, bb[i].signer)
  BY <1>6
<1>8. i \in Posted(board, "PartialDecryptions")
  BY <1>4, <1>5 DEF Posted
<1>9. board[i].signer \in Decryptors(Output(Threshold))
  BY <1>8, PostedDecryptions DEF Decryptors
<1>10. bb[i].signer \in RangeOf(Active)
  BY <1>0, <1>3, <1>5 DEF Converted, MixingPhase
<1> QED
  BY <1>2, <1>4, <1>7, <1>9, <1>10

LEMMA DecryptorsAre ==
    ASSUME BoardOK, NEW c
    PROVE  Decryptors(c) \subseteq Trustees /\ IsFiniteSet(Decryptors(c))
<1>1. Decryptors(c) \subseteq Trustees
  <2>1. \A i \in Posted(board, "PartialDecryptions") : board[i].signer \in Trustees
    BY DEF Posted, BoardOK, RangeOf, MessageOK
  <2> QED
    BY <2>1 DEF Decryptors
<1>2. IsFiniteSet(Trustees)
  <2>1. 1 \in Int /\ NumTrustees \in Int
    BY TrusteesAssumption
  <2> QED
    BY <2>1, FS_Interval DEF Trustees
<1> QED
  BY <1>1, <1>2, FS_Subset

LEMMA ThresholdDecrypts ==
    ASSUME BoardOK, NEW c,
           \A k \in 1..Threshold : \E u \in Decryptors(c) : ActiveIndex(Active, u) = k
    PROVE  Cardinality(Decryptors(c)) >= Threshold
<1> DEFINE D == Decryptors(c)
           g == [k \in 1..Threshold |-> CHOOSE u \in D : ActiveIndex(Active, u) = k]
<1>1. \A k \in 1..Threshold : g[k] \in D /\ ActiveIndex(Active, g[k]) = k
  OBVIOUS
<1>2. g \in Injection(1..Threshold, D)
  <2>1. g \in [1..Threshold -> D]
    BY <1>1
  <2> HIDE DEF g
  <2>2. \A i, j \in 1..Threshold : g[i] = g[j] => i = j
    BY <1>1
  <2> QED
    BY <2>1, <2>2 DEF Injection, IsInjective
<1>3. IsFiniteSet(D)
  BY DecryptorsAre
<1> HIDE DEF g, D
<1>4. Cardinality(1..Threshold) <= Cardinality(D)
  BY <1>2, <1>3, FS_Injection
<1>5. Cardinality(1..Threshold) = Threshold
  <2>1. 1 \in Int /\ Threshold \in Int /\ 1 <= Threshold
    BY TrusteesAssumption
  <2>2. Cardinality(1..Threshold) = Threshold - 1 + 1
    BY <2>1, FS_Interval
  <2> QED
    BY <2>1, <2>2
<1>6. Cardinality(D) \in Nat /\ Threshold \in Nat
  BY <1>3, FS_CardinalityType, TrusteesAssumption
<1>7. Cardinality(D) >= Threshold
  BY <1>4, <1>5, <1>6
<1> QED
  BY <1>7 DEF D

LEMMA PlaintextsMessages ==
    ASSUME Types, Mixes, NEW t \in Trustees, NEW bb, NEW a, Acts(t, bb, a),
           a.action = "ComputePlaintexts"
    PROVE  IsDecryption(ActionMessage(t, bb, ActiveOf(bb), a))
<1> DEFINE M == FactsOf(bb, ActiveOf(bb))
           msg == ActionMessage(t, bb, ActiveOf(bb), a)
<1>1. /\ BoardOK /\ IsPrefix(bb) /\ Converted(bb) /\ ~Errors(M) /\ a \in Actions(M)
      /\ Posted(bb, "MixInitialization") # {}
  BY BallotsKnown DEF Types, Acts
<1>2. /\ Cardinality(FirstDecryptions(bb)) = Threshold
      /\ \A i \in FirstDecryptions(bb) : bb[i].factors_of = FinalMix(t, bb)
  BY DEF Acts, ActionSucceeds
<1>3. FirstDecryptions(bb) # {}
  <2>1. Threshold # 0
    BY TrusteesAssumption
  <2> QED
    BY <1>2, <2>1, FS_EmptySet
<1>4. PICK i \in Posted(bb, "PartialDecryptions") : bb[i].factors_of = FinalMix(t, bb)
  BY <1>2, <1>3 DEF FirstDecryptions
<1>5. i \in Posted(board, "PartialDecryptions") /\ bb[i] = board[i]
  BY <1>1, Mirrors DEF Posted
<1>6. IsLastOutput(FinalMix(t, bb)) /\ FinalMix(t, bb) = Output(Threshold)
  BY <1>4, <1>5, PostedDecryptions
<1>7. a \in ComputePlaintexts(M)
  BY <1>1, ActionsByName
<1>8. a.decryptions \in PartialDecryptionsAll(M)
  BY <1>7 DEF ComputePlaintexts
<1>9. \A k \in 1..Threshold :
         \E u \in Decryptors(Output(Threshold)) : ActiveIndex(Active, u) = k
  BY <1>1, <1>8, PositionsDecrypt
<1>10. Cardinality(Decryptors(Output(Threshold))) >= Threshold
  BY <1>1, <1>9, ThresholdDecrypts
<1>11. msg = DecryptedBallotsMsg(t, FinalMix(t, bb))
  BY PlaintextsByAction
<1>12. msg.type = "DecryptedBallots" /\ msg.plaintexts_of = FinalMix(t, bb)
  BY <1>11 DEF DecryptedBallotsMsg
<1> QED
  BY <1>6, <1>10, <1>12 DEF IsDecryption

LEMMA SentMessages ==
    ASSUME Types, Mixes, NEW t \in Trustees, NEW bb, NEW a, Acts(t, bb, a)
    PROVE  /\ IsMix(ActionMessage(t, bb, ActiveOf(bb), a))
           /\ IsDecryption(ActionMessage(t, bb, ActiveOf(bb), a))
<1>1. a \in Actions(FactsOf(bb, ActiveOf(bb)))
  BY DEF Acts
<1>2. CASE a.action \in {"ComputePartialDecryptions", "ComputePlaintexts"}
  BY <1>2, MixMessages, DecryptionMessages, PlaintextsMessages
<1>3. CASE a.action \notin {"ComputePartialDecryptions", "ComputePlaintexts"}
  BY <1>1, <1>3, MixMessages, MessageTypesByAction DEF IsDecryption
<1> QED
  BY <1>2, <1>3

-------------------------------------------------------------------------------
(* What was output stays, whatever is posted.                              *)

LEMMA OutputsStay ==
    ASSUME BoardOK, NEW msg, Posts(msg), Posted(board, "MixInitialization") # {}
    PROVE  /\ Active' = Active
           /\ \A round : HasOutput(round) =>
                 HasOutput(round)' /\ Output(round)' = Output(round)
<1> DEFINE P == Posted(board, "MixInitialization")
           Q == Posted(board', "MixInitialization")
<1>1. /\ Len(board) \in Nat /\ DOMAIN board = 1..Len(board)
      /\ Len(board') = Len(board) + 1
      /\ DOMAIN board' = DOMAIN board \cup {Len(board) + 1}
      /\ \A i \in DOMAIN board : board'[i] = board[i]
  BY BoardIs, Posting
<1>2. DOMAIN board' = 1..Len(board) + 1 /\ \A i \in DOMAIN board : i <= Len(board) + 1
  BY <1>1
<1>3. /\ P \subseteq Q /\ Q \subseteq Nat /\ P # {} /\ P \subseteq DOMAIN board
      /\ \A i \in P, j \in Q \ P : i <= j
  <2>1. P \subseteq Q /\ Q \subseteq DOMAIN board' /\ P \subseteq DOMAIN board
    BY <1>1 DEF Posted
  <2>2. \A j \in Q \ P : j = Len(board) + 1
    BY <1>1 DEF Posted
  <2>3. DOMAIN board' \subseteq Nat
    BY <1>1, <1>2
  <2> QED
    BY <1>2, <2>1, <2>2, <2>3
<1>4. Active = board[First(P)].active_trustees
  BY DEF Active, ActiveOf, PopulateActive
<1>5. Active' = board'[First(Q)].active_trustees
  BY <1>3 DEF Active, ActiveOf, PopulateActive
<1> HIDE DEF P, Q
<1>6. First(Q) = First(P) /\ First(P) \in DOMAIN board
  BY <1>3, FirstStays, FirstIs
<1>7. Active' = Active
  BY <1>1, <1>4, <1>5, <1>6
<1>8. ASSUME NEW round, HasOutput(round)
      PROVE  HasOutput(round)' /\ Output(round)' = Output(round)
  <2> DEFINE n == Len(board)
             m == Len(board) + 1
  <2>1. /\ n \in Nat /\ m \in Nat /\ n <= m
        /\ DOMAIN board = 1..n /\ DOMAIN board' = 1..m
        /\ \A k \in 1..n : board[k] = board'[k]
        /\ n + 1 \in 1..n + 1 /\ m + 1 \in 1..m + 1 /\ n + 1 <= m + 1
    BY <1>1, <1>2
  <2>2. RoundExists(board, n + 1, Active, round)
    BY <1>8 DEF HasOutput
  <2> HIDE DEF n, m
  <2>3. /\ RoundExists(board', m + 1, Active, round)
        /\ RoundOutput(board', m + 1, Active, round) = RoundOutput(board, n + 1, Active, round)
    BY <2>1, <2>2, RoundsPersist
  <2>4. Len(board') = m /\ Len(board) = n
    BY <1>1 DEF n, m
  <2> QED
    BY <1>7, <2>3, <2>4 DEF HasOutput, Output
<1> QED
  BY <1>7, <1>8

LEMMA LastOutputStays ==
    ASSUME BoardOK, NEW msg, Posts(msg), NEW c, IsLastOutput(c)
    PROVE  IsLastOutput(c)'
<1>1. PICK i \in Posted(board, "MixInitialization") :
         LET active == board[i].active_trustees
         IN  /\ c.ballots = board[i].ballots
             /\ Len(c.mixes) = Len(active)
             /\ \A k \in DOMAIN active :
                   /\ c.mixes[k][1] = active[k]
                   /\ \A t \in RangeOf(active) :
                         EGCryptogramsMsg(active[k], t, [c EXCEPT !.mixes = SubSeq(@, 1, k)])
                             \in RangeOf(board)
  BY DEF IsLastOutput, FullyMixed
<1>2. /\ i \in Posted(board', "MixInitialization") /\ board'[i] = board[i]
      /\ RangeOf(board) \subseteq RangeOf(board')
  BY Posting DEF Posted
<1>3. FullyMixed(c)'
  <2>1. PICK active : active = board[i].active_trustees
    OBVIOUS
  <2>2. \A k \in DOMAIN active :
           /\ c.mixes[k][1] = active[k]
           /\ \A t \in RangeOf(active) :
                 EGCryptogramsMsg(active[k], t, [c EXCEPT !.mixes = SubSeq(@, 1, k)])
                     \in RangeOf(board')
    BY <1>1, <1>2, <2>1
  <2>3. /\ c.ballots = board'[i].ballots /\ active = board'[i].active_trustees
        /\ Len(c.mixes) = Len(active)
    BY <1>1, <1>2, <2>1
  <2> QED
    BY <1>2, <2>2, <2>3 DEF FullyMixed
<1>4. HasOutput(Threshold)' /\ Output(Threshold)' = Output(Threshold)
  BY <1>1, OutputsStay DEF IsLastOutput
<1> QED
  BY <1>3, <1>4 DEF IsLastOutput

LEMMA DecryptorsStay ==
    ASSUME BoardOK, BoardOK', NEW msg, Posts(msg), NEW c
    PROVE  /\ Decryptors(c) \subseteq Decryptors(c)'
           /\ Cardinality(Decryptors(c)) >= Threshold => Cardinality(Decryptors(c)') >= Threshold
<1> DEFINE D == Decryptors(c)
           E == Decryptors(c)'
<1>1. D \subseteq E
  <2>1. ASSUME NEW i \in Posted(board, "PartialDecryptions")
        PROVE  i \in Posted(board', "PartialDecryptions") /\ board'[i] = board[i]
    BY Posting DEF Posted
  <2> QED
    BY <2>1 DEF Decryptors
<1>2. E \subseteq Trustees
  <2>1. \A i \in Posted(board', "PartialDecryptions") : board'[i].signer \in Trustees
    BY DEF Posted, BoardOK, RangeOf, MessageOK
  <2> QED
    BY <2>1 DEF Decryptors
<1>3. IsFiniteSet(Trustees)
  <2>1. 1 \in Int /\ NumTrustees \in Int
    BY TrusteesAssumption
  <2> QED
    BY <2>1, FS_Interval DEF Trustees
<1> HIDE DEF D, E
<1>4. IsFiniteSet(E) /\ IsFiniteSet(D) /\ Cardinality(D) <= Cardinality(E)
  BY <1>1, <1>2, <1>3, FS_Subset
<1>5. Cardinality(D) \in Nat /\ Cardinality(E) \in Nat /\ Threshold \in Nat
  BY <1>4, FS_CardinalityType, TrusteesAssumption
<1>6. Cardinality(D) >= Threshold => Cardinality(E) >= Threshold
  BY <1>4, <1>5
<1> QED
  BY <1>1, <1>6 DEF D, E

LEMMA MessagesStay ==
    ASSUME BoardOK, BoardOK', NEW msg, Posts(msg), NEW m
    PROVE  /\ IsMix(m) => IsMix(m)'
           /\ IsDecryption(m) => IsDecryption(m)'
<1>1. ASSUME IsMix(m), m.type = "EGCryptograms"
      PROVE  IsMix(m)'
  <2>1. PICK k : k = ActiveIndex(Active, m.originator) - 1
    OBVIOUS
  <2>2. PICK randomness \in 0..MaxRestarts :
           m = EGCryptogramsMsg(m.originator, m.signer,
                   Shuffle(Output(k), m.originator, randomness))
    BY <1>1, <2>1 DEF IsMix
  <2>3. m.originator \in RangeOf(Active) /\ HasOutput(k)
    BY <1>1, <2>1 DEF IsMix
  <2>4. Posted(board, "MixInitialization") # {}
    <3>1. Posted(board, "MixInitialization") = {} => Active = << >>
      BY DEF Active, ActiveOf, PopulateActive
    <3>2. RangeOf(<< >>) = {}
      BY DEF RangeOf
    <3> QED
      BY <2>3, <3>1, <3>2
  <2>5. Active' = Active /\ HasOutput(k)' /\ Output(k)' = Output(k)
    BY <2>3, <2>4, OutputsStay
  <2>6. k = ActiveIndex(Active', m.originator) - 1 /\ m.originator \in RangeOf(Active')
    BY <2>1, <2>3, <2>5
  <2>7. m = EGCryptogramsMsg(m.originator, m.signer,
                Shuffle(Output(k)', m.originator, randomness))
    BY <2>2, <2>5
  <2> QED
    BY <2>5, <2>6, <2>7 DEF IsMix
<1>2. m.type # "EGCryptograms" => IsMix(m)'
  BY DEF IsMix
<1>3. ASSUME IsDecryption(m)
      PROVE  IsDecryption(m)'
  <2>1. m.type = "PartialDecryptions" => IsLastOutput(m.factors_of)'
    BY <1>3, LastOutputStays DEF IsDecryption
  <2>2. m.type = "DecryptedBallots" =>
           /\ IsLastOutput(m.plaintexts_of)'
           /\ Cardinality(Decryptors(m.plaintexts_of)') >= Threshold
    BY <1>3, LastOutputStays, DecryptorsStay DEF IsDecryption
  <2> QED
    BY <2>1, <2>2 DEF IsDecryption
<1> QED
  BY <1>1, <1>2, <1>3

-------------------------------------------------------------------------------
(* The invariant.                                                          *)

LEMMA MixesInit == Init => Mixes
<1> SUFFICES ASSUME Init PROVE Mixes
  OBVIOUS
<1> DEFINE start_from == ceremony.start_from
<1>1. start_from \in {"nothing", "setup", "keygen"}
  BY TrusteeProtocolAssumption DEF Init
<1>2. board = InitialBoard(start_from) /\ sent = {}
  BY DEF Init, TASInit, TrusteeInit
<1>3. \A i \in DOMAIN board : KeyGenMessage(board[i])
  BY <1>1, <1>2, InitialBoardIs
<1>4. PostedWereSent
  BY <1>3 DEF PostedWereSent, KeyGenMessage, MixingPhase
<1> QED
  BY <1>2, <1>4 DEF Mixes

LEMMA MixesStep == Types /\ Types' /\ Mixes /\ [Next]_vars => Mixes'
<1> SUFFICES ASSUME Types, Types', Mixes, [Next]_vars PROVE Mixes'
  OBVIOUS
<1>1. ASSUME UNCHANGED board
      PROVE  \A m : /\ IsMix(m) => IsMix(m)'
                    /\ IsDecryption(m) => IsDecryption(m)'
  <2>1. Active' = Active /\ \A k : HasOutput(k)' = HasOutput(k) /\ Output(k)' = Output(k)
    BY <1>1 DEF Active, HasOutput, Output
  <2>2. \A c : FullyMixed(c)' = FullyMixed(c) /\ Decryptors(c)' = Decryptors(c)
    BY <1>1 DEF FullyMixed, Decryptors
  <2>3. \A c : IsLastOutput(c)' = IsLastOutput(c)
    BY <2>1, <2>2 DEF IsLastOutput
  <2> QED
    BY <2>1, <2>2, <2>3 DEF IsMix, IsDecryption
<1>2. CASE UNCHANGED vars
  <2>1. UNCHANGED <<board, sent>>
    BY <1>2 DEF vars, tasVars, trusteeVars
  <2> QED
    BY <1>1, <2>1 DEF Mixes, PostedWereSent
<1>3. ASSUME NEW t \in Trustees, TrusteeStep(t)
      PROVE  Mixes'
  <2>1. UNCHANGED board /\ Sends(t)
    BY <1>3, TrusteeSteps DEF tasVars
  <2>2. ASSUME NEW m \in sent'
        PROVE  IsMix(m) /\ IsDecryption(m)
    <3>1. CASE m \in sent
      BY <3>1 DEF Mixes
    <3>2. CASE m = SetupMsg(t)
      BY <3>2 DEF IsMix, IsDecryption, SetupMsg
    <3>3. CASE \E bb, a : Acts(t, bb, a) /\ m = ActionMessage(t, bb, ActiveOf(bb), a)
      BY <3>3, SentMessages
    <3> QED
      BY <2>1, <3>1, <3>2, <3>3 DEF Sends
  <2>3. PostedWereSent'
    BY <2>1 DEF Mixes, PostedWereSent, Sends
  <2> QED
    BY <1>1, <2>1, <2>2, <2>3 DEF Mixes
<1>4. CASE TASStep
  <2>1. /\ UNCHANGED sent
        /\ \/ board' = board
           \/ \E msg : Posts(msg) /\ (Received(msg) \/ OfHost(msg))
    BY <1>4, TASSteps DEF trusteeVars
  <2>2. CASE board' = board
    BY <1>1, <2>1, <2>2 DEF Mixes, PostedWereSent
  <2>3. CASE \E msg : Posts(msg) /\ (Received(msg) \/ OfHost(msg))
    <3>1. PICK msg : Posts(msg) /\ (Received(msg) \/ OfHost(msg))
      BY <2>3
    <3>2. \A m \in sent : IsMix(m)' /\ IsDecryption(m)'
      BY <3>1, MessagesStay DEF Types, Mixes
    <3>3. msg.type \in MixingPhase => msg \in sent
      BY <3>1 DEF Received, OfHost, SetupMsg, MixInitializationMsg, MixingPhase
    <3>4. /\ DOMAIN board' = DOMAIN board \cup {Len(board) + 1}
          /\ \A i \in DOMAIN board : board'[i] = board[i]
          /\ board'[Len(board) + 1] = msg
      BY <3>1, Posting DEF Types
    <3>5. PostedWereSent'
      BY <2>1, <3>3, <3>4 DEF Mixes, PostedWereSent
    <3> QED
      BY <2>1, <3>2, <3>5 DEF Mixes
  <2> QED
    BY <2>1, <2>2, <2>3
<1> QED
  BY <1>2, <1>3, <1>4 DEF Next, TASStep, TrusteeStep

LEMMA AlwaysMixes == Spec => []Mixes
  BY MixesInit, MixesStep, AlwaysTypes, PTL DEF Spec

(* Not even a partial decryption leaves a trustee before the ballots went  *)
(* through one mix of each active trustee, and all of them signed all of   *)
(* these mixes on the board (mix_complete, compute_partial_decryptions).   *)
THEOREM OnlyMixedBallotsAreDecrypted == Spec => []DecryptOnlyFullyMixed
<1>1. Mixes => DecryptOnlyFullyMixed
  BY DEF Mixes, IsDecryption, IsLastOutput, DecryptOnlyFullyMixed
<1> QED
  BY <1>1, AlwaysMixes, PTL

(* The plaintexts that trustees publish are those of fully mixed ballots,  *)
(* decrypted with the factors of a threshold of trustees, and the same for *)
(* all (partial_decryptions_all, compute_plaintexts).                      *)
THEOREM TrusteesPublishTheSameBallots == Spec => []BallotsAreDecrypted
<1>1. Mixes => BallotsAreDecrypted
  <2> SUFFICES ASSUME Mixes, NEW msg \in sent, msg.type = "DecryptedBallots"
               PROVE  /\ FullyMixed(msg.plaintexts_of)
                      /\ Cardinality(Decryptors(msg.plaintexts_of)) >= Threshold
                      /\ \A other \in sent : other.type = "DecryptedBallots" =>
                            other.plaintexts_of = msg.plaintexts_of
    BY DEF BallotsAreDecrypted, Decryptors
  <2>1. \A m \in sent : m.type = "DecryptedBallots" =>
           /\ IsLastOutput(m.plaintexts_of)
           /\ Cardinality(Decryptors(m.plaintexts_of)) >= Threshold
    BY DEF Mixes, IsDecryption
  <2> QED
    BY <2>1 DEF IsLastOutput
<1> QED
  BY <1>1, AlwaysMixes, PTL
===============================================================================
