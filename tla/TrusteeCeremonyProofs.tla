------------------------- MODULE TrusteeCeremonyProofs -------------------------
(***************************************************************************)
(* Proofs that the trustees carry out an election ceremony, the trustee    *)
(* protocols implementing ElectionCeremony, and that nobody fails in it    *)
(* where nothing goes wrong.                                               *)
(*                                                                         *)
(* A mixer sends a mix of what the round before has put out only after all *)
(* active trustees signed that on the board, and nobody signs a mix before *)
(* it is on the board.  So whatever order the messages are posted in, a    *)
(* round puts its output on the board after those before it and before any *)
(* signature of it, and the outputs are the mixes of the ceremony.         *)
(*                                                                         *)
(* Without faults all messages are those of one script, and each comes     *)
(* after those that it needs.  What such a board says to the Ascent logic  *)
(* has no error, leaves a trustee with at most one thing to do, and that   *)
(* succeeds.  A mix is verified against the last ciphertexts before the    *)
(* last message of the board: so trustees must sign a mix as soon as they  *)
(* see it, which they do if they see one message at a time.                *)
(***************************************************************************)
EXTENDS TrusteeAgreementProofs

Initializations == Posted(board, "MixInitialization")
Ballots == board[First(Initializations)].ballots

Rounds == {k \in 1..Threshold : HasOutput(k)}

(* A mix of what round k put out is on the board, signed by t.             *)
SignedBy(k, t) ==
    \E i \in Posted(board, "EGCryptograms") :
        board[i].ciphertexts = Output(k) /\ board[i].signer = t

-------------------------------------------------------------------------------
(* What is read off the board.                                             *)

LEMMA RoundsAre ==
    ASSUME BoardOK, NEW k \in 1..Threshold
    PROVE  LET S == MixesOfRound(board, Active, k)
           IN  /\ S \subseteq DOMAIN board
               /\ HasOutput(k) <=> S # {}
               /\ Output(k) = board[First(S)].ciphertexts
               /\ S # {} => First(S) \in S
<1> DEFINE S == MixesOfRound(board, Active, k)
<1>1. Len(board) \in Nat /\ DOMAIN board = 1..Len(board) /\ k # 0
  BY BoardIs, TrusteesAssumption
<1>2. S \subseteq DOMAIN board
  BY DEF MixesOfRound, Posted
<1>3. Before(Len(board) + 1, S) = S
  <2> HIDE DEF S
  <2>1. \A j \in 1..Len(board) : j < Len(board) + 1
    BY <1>1
  <2> QED
    BY <1>1, <1>2, <2>1 DEF Before
<1>4. HasOutput(k) <=> S # {}
  BY <1>1, <1>3 DEF HasOutput, RoundExists
<1>5. Output(k) = board[First(S)].ciphertexts
  BY <1>1, <1>3 DEF Output, RoundOutput
<1>6. S # {} => First(S) \in S
  <2> HIDE DEF S
  <2>1. S \subseteq Nat
    BY <1>1, <1>2
  <2> QED
    BY <2>1, FirstIs
<1> QED
  BY <1>2, <1>4, <1>5, <1>6

LEMMA OutputsAre ==
    ASSUME BoardOK
    PROVE  Outputs = {<<k, Output(k)>> : k \in Rounds}
<1> DEFINE S(k) == MixesOfRound(board, Active, k)
<1>1. \A k \in 1..Threshold : /\ k \in Rounds <=> S(k) # {}
                              /\ Output(k) = board[First(S(k))].ciphertexts
  BY RoundsAre DEF Rounds
<1>2. Rounds \subseteq 1..Threshold
  BY DEF Rounds
<1>3. \A x : x \in Outputs <=> \E k \in 1..Threshold :
                                  S(k) # {} /\ x = <<k, board[First(S(k))].ciphertexts>>
  <2> HIDE DEF S
  <2>1. Outputs = UNION {{<<k, board[First(T)].ciphertexts>> : T \in {S(k)} \ {{}}} :
                         k \in 1..Threshold}
    BY DEF Outputs, S
  <2> QED
    BY <2>1
<1> HIDE DEF S
<1>4. \A x : x \in Outputs <=> \E k \in Rounds : x = <<k, Output(k)>>
  BY <1>1, <1>2, <1>3
<1> QED
  BY <1>4

LEMMA SignaturesAre ==
    ASSUME BoardOK
    PROVE  /\ \A x \in Signatures : \E k \in Rounds : \E t : x = <<k, t>>
           /\ \A k, t : <<k, t>> \in Signatures <=> k \in Rounds /\ SignedBy(k, t)
<1>1. \A x : x \in Signatures <=>
         \E k \in Rounds, i \in Posted(board, "EGCryptograms") :
            board[i].ciphertexts = Output(k) /\ x = <<k, board[i].signer>>
  <2> DEFINE E == Posted(board, "EGCryptograms")
             O == {<<k, Output(k)>> : k \in Rounds}
  <2>1. Signatures = UNION {{<<output[1], board[i].signer>> :
                               i \in {j \in E : board[j].ciphertexts = output[2]}} :
                            output \in O}
    BY OutputsAre DEF Signatures
  <2> HIDE DEF E, O
  <2>2. \A x : x \in Signatures <=>
           \E output \in O : \E i \in E :
              board[i].ciphertexts = output[2] /\ x = <<output[1], board[i].signer>>
    BY <2>1
  <2>3. \A output : output \in O <=> \E k \in Rounds : output = <<k, Output(k)>>
    BY DEF O
  <2>4. \A k, c : <<k, c>>[1] = k /\ <<k, c>>[2] = c
    OBVIOUS
  <2>5. ASSUME NEW x
        PROVE  x \in Signatures <=> \E k \in Rounds : \E i \in E :
                  board[i].ciphertexts = Output(k) /\ x = <<k, board[i].signer>>
    <3>1. ASSUME x \in Signatures
          PROVE  \E k \in Rounds : \E i \in E :
                    board[i].ciphertexts = Output(k) /\ x = <<k, board[i].signer>>
      <4>1. PICK output \in O, i \in E :
               board[i].ciphertexts = output[2] /\ x = <<output[1], board[i].signer>>
        BY <2>2, <3>1
      <4>2. PICK k \in Rounds : output = <<k, Output(k)>>
        BY <2>3
      <4> QED
        BY <4>1, <4>2
    <3>2. ASSUME NEW k \in Rounds, NEW i \in E,
                 board[i].ciphertexts = Output(k), x = <<k, board[i].signer>>
          PROVE  x \in Signatures
      <4>1. PICK output \in O : output[1] = k /\ output[2] = Output(k)
        BY <2>3, <2>4
      <4> QED
        BY <2>2, <3>2, <4>1
    <3> QED
      BY <3>1, <3>2
  <2> QED
    BY <2>5 DEF E
<1> QED
  BY <1>1 DEF SignedBy

LEMMA SignaturesRead ==
    BoardOK => \A k, t : <<k, t>> \in Signatures <=> k \in Rounds /\ SignedBy(k, t)
  BY SignaturesAre

LEMMA SignaturesReadNext ==
    (BoardOK => \A k, t : <<k, t>> \in Signatures <=> k \in Rounds /\ SignedBy(k, t))'
  BY SignaturesRead, PTL

LEMMA MixesAre ==
    ASSUME BoardOK
    PROVE  MixesDone = [k \in Rounds |-> Output(k).mixes[k]]
<1>0. \A output : output \in Outputs <=> \E k \in Rounds : output = <<k, Output(k)>>
  BY OutputsAre
<1>1. {output[1] : output \in Outputs} = Rounds
  <2>1. \A k \in Rounds : <<k, Output(k)>> \in Outputs /\ <<k, Output(k)>>[1] = k
    BY <1>0
  <2>2. \A output \in Outputs : output[1] \in Rounds
    BY <1>0
  <2> QED
    BY <2>1, <2>2
<1>2. ASSUME NEW k \in Rounds
      PROVE  (CHOOSE output \in Outputs : output[1] = k)[2] = Output(k)
  <2>1. <<k, Output(k)>> \in Outputs /\ <<k, Output(k)>>[1] = k
    BY <1>0
  <2>2. PICK o : o = CHOOSE output \in Outputs : output[1] = k
    OBVIOUS
  <2>3. o \in Outputs /\ o[1] = k
    BY <2>1, <2>2
  <2>4. o[2] = Output(k)
    BY <1>0, <2>3
  <2> QED
    BY <2>2, <2>4
<1>3. MixesDone = [k \in Rounds |->
                      (CHOOSE output \in Outputs : output[1] = k)[2].mixes[k]]
  BY <1>1 DEF MixesDone
<1> QED
  BY <1>2, <1>3

(* Nothing was mixed before the first initialization.                      *)
LEMMA NothingPosted ==
    ASSUME BoardOK, Initializations = {}
    PROVE  /\ Active = << >> /\ RangeOf(Active) = {} /\ Rounds = {}
           /\ MixesDone = << >> /\ Signatures = {} /\ MixingPlan = {}
<1>1. Active = << >> /\ RangeOf(Active) = {}
  BY DEF Initializations, Active, ActiveOf, PopulateActive, RangeOf
<1>2. Rounds = {}
  <2>1. \A k : MixesOfRound(board, Active, k) = {}
    BY <1>1 DEF MixesOfRound
  <2> QED
    BY <2>1, RoundsAre DEF Rounds
<1>3. MixesDone = << >>
  <2>1. MixesDone \in [1..0 -> {}]
    BY <1>2, MixesAre
  <2> QED
    BY <2>1, FunctionIsSeq, EmptySeq
<1>4. Signatures = {}
  BY <1>2, SignaturesAre
<1>5. MixingPlan = {}
  BY DEF MixingPlan, Initializations
<1> QED
  BY <1>1, <1>2, <1>3, <1>4, <1>5

LEMMA ActiveTrustees ==
    ASSUME BoardOK, Initializations # {}
    PROVE  /\ First(Initializations) \in Initializations
           /\ Active = board[First(Initializations)].active_trustees
           /\ Active \in Seq(Trustees) /\ Len(Active) = Threshold
           /\ DOMAIN Active = 1..Threshold
           /\ RangeOf(Active) \subseteq Trustees
           /\ \A k \in 1..Threshold : /\ Active[k] \in RangeOf(Active)
                                      /\ ActiveIndex(Active, Active[k]) = k
<1> DEFINE first == First(Initializations)
<1>1. IsPrefix(board)
  BY WholeIsPrefix
<1>2. /\ first \in DOMAIN board /\ board[first].type = "MixInitialization"
      /\ Active = board[first].active_trustees
      /\ Active \in Seq(Trustees) /\ Len(Active) = Threshold
      /\ DOMAIN Active = 1..Threshold
  BY <1>1, ActiveIsKnown DEF Initializations
<1> HIDE DEF first
<1>3. MessageOK(board[first])
  BY <1>2 DEF BoardOK, RangeOf
<1>4. \A i, j \in DOMAIN Active : Active[i] = Active[j] => i = j
  BY <1>2, <1>3 DEF MessageOK
<1>5. RangeOf(Active) \subseteq Trustees
  BY <1>2, LenProperties DEF RangeOf
<1>6. \A k \in 1..Threshold : Active[k] \in RangeOf(Active)
  BY <1>2 DEF RangeOf
<1>7. \A k \in 1..Threshold : ActiveIndex(Active, Active[k]) = k
  BY <1>2, <1>4, <1>6, ActiveIndexIs
<1> QED
  BY <1>2, <1>4, <1>5, <1>6, <1>7 DEF first, Initializations, Posted

-------------------------------------------------------------------------------
(* The rounds put out one after the other.                                 *)

LEMMA RoundsFollow ==
    ASSUME BoardOK, Mixes, Initializations # {}, NEW k \in Rounds
    PROVE  /\ k - 1 = 0 \/ k - 1 \in Rounds
           /\ \E randomness \in 0..MaxRestarts :
                 Output(k) = Shuffle(Output(k - 1), Active[k], randomness)
<1> DEFINE S == MixesOfRound(board, Active, k)
           i == First(S)
<1>1. k \in 1..Threshold /\ HasOutput(k) /\ Threshold \in Nat
  BY TrusteesAssumption DEF Rounds
<1>2. i \in S /\ Output(k) = board[i].ciphertexts
  BY <1>1, RoundsAre
<1> HIDE DEF i
<1>3. i \in Posted(board, "EGCryptograms") /\ board[i].originator = Active[k]
  BY <1>2 DEF MixesOfRound
<1>4. ActiveIndex(Active, board[i].originator) = k
  BY <1>1, <1>3, ActiveTrustees
<1>5. /\ HasOutput(ActiveIndex(Active, board[i].originator) - 1)
      /\ \E randomness \in 0..MaxRestarts :
            board[i].ciphertexts =
               Shuffle(Output(ActiveIndex(Active, board[i].originator) - 1),
                       board[i].originator, randomness)
  BY <1>3, PostedMixes, WholeIsPrefix
<1>6. HasOutput(k - 1)
  BY <1>4, <1>5
<1>7. k - 1 = 0 \/ k - 1 \in 1..Threshold
  BY <1>1
<1> QED
  BY <1>2, <1>3, <1>4, <1>5, <1>6, <1>7 DEF Rounds

(* The first "top" rounds have put out.                                    *)
MixedUpTo(top) ==
    /\ top \in 0..Threshold
    /\ Rounds = 1..top
    /\ \A k \in 0..top : HasOutput(k) /\ MixedBy(Ballots, k)

LEMMA RoundsInTurn ==
    ASSUME BoardOK, Mixes, Initializations # {}
    PROVE  \E top : MixedUpTo(top)
<1> DEFINE Off == {k \in 1..Threshold + 1 : k \notin Rounds}
<1>1. Threshold \in Nat /\ Rounds \subseteq 1..Threshold
  BY TrusteesAssumption DEF Rounds
<1>2. PICK m \in Off : \A k \in Off : m <= k
  <2>1. Threshold + 1 \in Off /\ Off \subseteq Nat
    BY <1>1
  <2> HIDE DEF Off
  <2> QED
    BY <2>1, LeastExists
<1> DEFINE top == m - 1
<1>3. top \in 0..Threshold /\ m = top + 1 /\ m \notin Rounds
  BY <1>1, <1>2
<1>4. \A k \in 1..top : k \in Rounds
  BY <1>1, <1>2
<1>5. Rounds \subseteq 1..top
  <2> DEFINE Late == {k \in Rounds : ~(k \in 1..top)}
  <2>1. Late \subseteq Nat /\ \A k \in Late : k > m /\ k \in 1..Threshold
    <3> SUFFICES ASSUME NEW k \in Late PROVE k \in Nat /\ k > m /\ k \in 1..Threshold
      OBVIOUS
    <3>1. k \in 1..Threshold /\ ~(k \in 1..top) /\ k # m /\ m \in Nat /\ m = top + 1
      BY <1>1, <1>3
    <3> HIDE DEF top, Late
    <3> QED
      BY <1>1, <1>3, <3>1
  <2>2. Late = {}
    <3> SUFFICES ASSUME Late # {} PROVE FALSE
      OBVIOUS
    <3>1. PICK k \in Late : \A j \in Late : k <= j
      <4> HIDE DEF Late
      <4> QED
        BY <2>1, LeastExists
    <3>2. k \in Nat /\ k > m /\ m \in Nat /\ m > 0
      BY <1>1, <1>3, <2>1, <3>1
    <3>3. k - 1 \in Rounds
      BY <3>1, <3>2, RoundsFollow
    <3>4. k - 1 # m
      BY <1>3, <3>3
    <3>5. ~(k - 1 \in 1..top) /\ ~(k <= k - 1)
      BY <1>3, <3>2, <3>4
    <3> QED
      BY <3>1, <3>3, <3>5
  <2> QED
    BY <2>2
<1>6. \A k \in 0..top : HasOutput(k)
  <2>1. HasOutput(0)
    BY WholeIsPrefix, BallotsAreOutput DEF Initializations
  <2>2. \A k \in 1..top : HasOutput(k)
    BY <1>4 DEF Rounds
  <2>3. \A k \in 0..top : k = 0 \/ k \in 1..top
    BY <1>3
  <2> QED
    BY <2>1, <2>2, <2>3
<1>7. \A k \in 0..top : MixedBy(Ballots, k)
  <2> DEFINE Bad == {k \in 0..top : ~MixedBy(Ballots, k)}
  <2>1. MixedBy(Ballots, 0)
    BY WholeIsPrefix, BallotsAreOutput, NothingMixedYet DEF Initializations, Ballots
  <2>2. Bad \subseteq Nat
    BY <1>3
  <2>3. Bad = {}
    <3> SUFFICES ASSUME Bad # {} PROVE FALSE
      OBVIOUS
    <3>1. PICK k \in Bad : \A j \in Bad : k <= j
      <4> HIDE DEF Bad
      <4> QED
        BY <2>2, LeastExists
    <3>2. /\ k \in 1..top /\ k - 1 \in Nat /\ k - 1 \in 0..top /\ k - 1 + 1 = k
          /\ ~(k <= k - 1) /\ k \in 1..Threshold
      BY <1>1, <1>3, <2>1, <3>1
    <3>3. MixedBy(Ballots, k - 1)
      BY <3>1, <3>2
    <3>4. PICK randomness \in 0..MaxRestarts :
             Output(k) = Shuffle(Output(k - 1), Active[k], randomness)
      BY <1>4, <3>2, RoundsFollow
    <3>5. Active[k] \in Trustees
      BY <3>2, ActiveTrustees
    <3>6. \A j : /\ j \in Nat /\ j + 1 = k
                 /\ MixedBy(Ballots, j) /\ Output(j + 1) = Shuffle(Output(j), Active[j + 1], randomness)
                 /\ Active[j + 1] \in Trustees
                 => MixedBy(Ballots, j + 1)
      BY MixedOnce
    <3>7. MixedBy(Ballots, k)
      BY <3>2, <3>3, <3>4, <3>5, <3>6
    <3> QED
      BY <3>1, <3>7
  <2> QED
    BY <2>3
<1> HIDE DEF top
<1>8. Rounds = 1..top
  BY <1>4, <1>5
<1>9. MixedUpTo(top)
  BY <1>3, <1>6, <1>7, <1>8 DEF MixedUpTo
<1> QED
  BY <1>9

LEMMA MixedInTurn ==
    ASSUME BoardOK, NEW top, MixedUpTo(top)
    PROVE  /\ MixesDone = Output(top).mixes
           /\ MixesDone \in MixLists /\ Len(MixesDone) = top /\ DOMAIN MixesDone = 1..top
           /\ \A k \in 1..top : /\ Output(k) = Ciphertexts(Ballots, SubSeq(MixesDone, 1, k))
                                /\ Len(Output(k).mixes) = k
                                /\ MixesDone[k][1] = Active[k]
           /\ Output(top) = Ciphertexts(Ballots, MixesDone)
<1> DEFINE s == Output(top).mixes
<1>1. top \in Nat /\ Rounds = 1..top /\ top \in 0..top
  BY TrusteesAssumption DEF MixedUpTo
<1>2. /\ Output(top) = Ciphertexts(Ballots, s) /\ s \in MixLists /\ Len(s) = top
      /\ \A k \in 1..top : /\ s[k][1] = Active[k]
                           /\ Output(k) = Ciphertexts(Ballots, SubSeq(s, 1, k))
  BY <1>1 DEF MixedUpTo, MixedBy
<1>3. \A k \in 1..top : Len(Output(k).mixes) = k
  BY <1>1 DEF MixedUpTo, MixedBy
<1> HIDE DEF s
<1>4. \A u : Ciphertexts(Ballots, u).mixes = u
  BY DEF Ciphertexts
<1>5. ASSUME NEW k \in 1..top
      PROVE  Output(k).mixes[k] = s[k]
  <2>1. SubSeq(s, 1, k)[k] = s[k]
    <3>1. 1 \in 1..Len(s) + 1 /\ k \in 0..Len(s) /\ k \in 1..k
      BY <1>1, <1>2
    <3> QED
      BY <1>1, <1>2, <3>1, SubSeqProperties DEF MixLists
  <2> QED
    BY <1>2, <1>4, <2>1
<1>6. s = [k \in 1..top |-> s[k]]
  BY <1>2, LenProperties DEF MixLists
<1>7. MixesDone = s
  <2>1. MixesDone = [k \in 1..top |-> Output(k).mixes[k]]
    BY <1>1, MixesAre
  <2>2. [k \in 1..top |-> Output(k).mixes[k]] = [k \in 1..top |-> s[k]]
    BY <1>5
  <2> QED
    BY <1>6, <2>1, <2>2
<1>8. DOMAIN s = 1..top
  BY <1>2, LenProperties DEF MixLists
<1> QED
  BY <1>2, <1>3, <1>7, <1>8 DEF s

-------------------------------------------------------------------------------
(* Mixes and their signatures are sent in order.                           *)

KeyPosted == \E i \in DOMAIN board : board[i].type = "ElectionPublicKey"

(* A mix is sent after all have signed the one before on the board, and a  *)
(* signature after the mix is on the board.                                *)
InOrder(msg) ==
    msg.type = "EGCryptograms" =>
        /\ msg.signer \in RangeOf(Active)
        /\ KeyPosted
        /\ LET round == ActiveIndex(Active, msg.originator)
           IN  /\ msg.signer # msg.originator => HasOutput(round)
               /\ round > 1 => \A t \in RangeOf(Active) : <<round - 1, t>> \in Signatures

MixesInOrder == \A msg \in sent : InOrder(msg)

LEMMA KeysOfAll ==
    ASSUME BoardOK, NEW bb, IsPrefix(bb),
           NEW pk \in PublicKeysAll(FactsOf(bb, ActiveOf(bb)))
    PROVE  KeyPosted
<1> DEFINE M == FactsOf(bb, ActiveOf(bb))
<1>1. Facts(M, "PublicKey") # {}
  BY DEF PublicKeysAll
<1>2. PICK i \in DOMAIN bb : Fact(bb, i, ActiveOf(bb)).fact = "PublicKey"
  BY <1>1 DEF Facts, FactsOf
<1>3. bb[i].type \in MessageTypes /\ i \in DOMAIN board /\ bb[i] = board[i]
  BY Mirrors DEF MessageOK, IsMessage
<1>4. bb[i].type = "ElectionPublicKey"
  BY <1>2, <1>3, FactsFrom
<1> QED
  BY <1>3, <1>4 DEF KeyPosted

(* What is signed at every position is signed by all active trustees.      *)
LEMMA AllHaveSigned ==
    ASSUME BoardOK, NEW bb, IsPrefix(bb), Converted(bb), ~Errors(FactsOf(bb, ActiveOf(bb))),
           Posted(bb, "MixInitialization") # {},
           NEW m \in Facts(FactsOf(bb, ActiveOf(bb)), "Mix"), NEW pk,
           MixSignaturesAll(FactsOf(bb, ActiveOf(bb)), pk, m.in, m.out),
           NEW t \in RangeOf(Active)
    PROVE  <<m.sender, t>> \in Signatures
<1> DEFINE M == FactsOf(bb, ActiveOf(bb))
           q == ActiveIndex(Active, t)
<1>1. /\ Active \in Seq(Trustees) /\ DOMAIN Active = 1..Threshold
      /\ q \in 1..Threshold /\ Active[q] = t
  BY ActiveIsKnown, ActiveIndexIs
<1>2. m.sender \in 1..Threshold /\ HasOutput(m.sender) /\ m.out = Output(m.sender)
  BY MixIsOutput
<1>3. PICK self \in 1..Threshold :
         MixingPosition(M, pk, q, self) /\ MixSignature(M, pk, m.in, m.out, self)
  BY <1>1 DEF MixSignaturesAll
<1>4. self = q
  BY <1>3, PositionsAre
<1>5. PICK n \in Facts(M, "Mix") \cup Facts(M, "MixSignature") :
         n.out = m.out /\ n.sender = q
  BY <1>3, <1>4 DEF MixSignature
<1>6. PICK j \in Posted(bb, "EGCryptograms") :
         /\ n.out = bb[j].ciphertexts
         /\ bb[j].signer \in RangeOf(Active)
         /\ n.sender = ActiveIndex(Active, bb[j].signer)
  BY MixFacts
<1>7. bb[j].signer = t
  BY <1>1, <1>5, <1>6, ActiveIndexIs
<1>8. j \in Posted(board, "EGCryptograms") /\ bb[j] = board[j]
  BY Mirrors DEF Posted
<1>9. SignedBy(m.sender, t)
  BY <1>2, <1>5, <1>6, <1>7, <1>8 DEF SignedBy
<1> QED
  BY <1>2, <1>9, SignaturesAre DEF Rounds

LEMMA OrderedMessages ==
    ASSUME Types, Mixes, MixesInOrder, NEW t \in Trustees, NEW bb, NEW a, Acts(t, bb, a)
    PROVE  InOrder(ActionMessage(t, bb, ActiveOf(bb), a))
<1> DEFINE msg == ActionMessage(t, bb, ActiveOf(bb), a)
           M == FactsOf(bb, ActiveOf(bb))
<1>1. /\ BoardOK /\ a \in Actions(M) /\ IsPrefix(bb) /\ Converted(bb) /\ ~Errors(M)
  BY DEF Types, Acts
<1>2. CASE a.action = "ComputeMix"
  <2>1. msg = EGCryptogramsMsg(t, t, Shuffle(a.in, t, starts[t]))
    BY <1>2, MessagesByAction
  <2>2. msg.originator = t /\ msg.signer = t
    BY <2>1 DEF EGCryptogramsMsg
  <2>3. /\ t \in RangeOf(Active) /\ a.self = ActiveIndex(Active, t)
        /\ Posted(bb, "MixInitialization") # {}
    BY <1>1, <1>2, BallotsKnown
  <2>4. a \in ComputeFirstMix(M) \cup ComputeNextMix(M)
    BY <1>1, <1>2, ActionsByName
  <2>5. CASE a \in ComputeFirstMix(M)
    <3>1. PICK b \in Facts(M, "Ballots"), self \in Configured(M) :
             /\ a = MixDue(b.pk, b.ciphertexts, self) /\ MixingPosition(M, b.pk, 1, self)
             /\ b.pk \in PublicKeysAll(M)
      BY <2>5 DEF ComputeFirstMix
    <3>2. a.self = self
      BY <3>1 DEF MixDue
    <3>3. self = 1
      BY <1>1, <3>1, PositionsAre
    <3>4. KeyPosted
      BY <1>1, <3>1, KeysOfAll
    <3>5. ~(ActiveIndex(Active, t) > 1)
      BY <2>3, <3>2, <3>3
    <3> QED
      BY <2>2, <2>3, <3>4, <3>5 DEF InOrder
  <2>6. CASE a \in ComputeNextMix(M)
    <3>0. PICK m \in Facts(M, "Mix"), self \in Configured(M) :
             /\ a = MixDue(m.pk, m.out, self)
             /\ m.pk \in PublicKeysAll(M)
             /\ \E position \in 2..Threshold :
                   /\ MixingPosition(M, m.pk, position, self)
                   /\ MixingPosition(M, m.pk, position - 1, m.sender)
             /\ MixSignaturesAll(M, m.pk, m.in, m.out)
      BY <2>6 DEF ComputeNextMix
    <3>1. PICK position \in 2..Threshold :
             /\ MixingPosition(M, m.pk, position, self)
             /\ MixingPosition(M, m.pk, position - 1, m.sender)
      BY <3>0
    <3>2. a.self = self
      BY <3>0 DEF MixDue
    <3>3. self = position /\ m.sender = position - 1
      BY <1>1, <3>1, PositionsAre
    <3>4. m.sender = ActiveIndex(Active, t) - 1
      BY <2>3, <3>2, <3>3
    <3>5. \A u \in RangeOf(Active) : <<m.sender, u>> \in Signatures
      BY <1>1, <2>3, <3>0, AllHaveSigned
    <3>6. KeyPosted
      BY <1>1, <3>0, KeysOfAll
    <3> QED
      BY <2>2, <2>3, <3>4, <3>5, <3>6 DEF InOrder
  <2> QED
    BY <2>4, <2>5, <2>6
<1>3. CASE a.action = "SignMix"
  <2>1. msg = EGCryptogramsMsg(MixToVerify(bb, ActiveOf(bb), a).originator, t, a.out)
    BY <1>3 DEF ActionMessage
  <2>2. a \in SignMix(M)
    BY <1>1, <1>3, ActionsByName
  <2>3. PICK i \in Posted(bb, "EGCryptograms") :
           MixToVerify(bb, ActiveOf(bb), a) = bb[i] /\ bb[i].originator = bb[i].signer
    BY <1>1, <2>2, MixToVerifyIs
  <2>4. /\ i \in Posted(board, "EGCryptograms") /\ bb[i] = board[i]
        /\ board[i].type = "EGCryptograms" /\ i \in DOMAIN board
    BY <1>1, Mirrors DEF Posted
  <2>5. board[i] \in sent
    BY <2>4 DEF Mixes, PostedWereSent, MixingPhase
  <2> DEFINE o == board[i].originator
             round == ActiveIndex(Active, o)
  <2>6. msg.originator = o /\ msg.signer = t
    BY <2>1, <2>3, <2>4 DEF EGCryptogramsMsg
  <2>7. o \in RangeOf(Active) /\ InOrder(board[i])
    BY <1>1, <2>4, <2>5, PostedMixes, WholeIsPrefix DEF MixesInOrder
  <2>8. t \in RangeOf(Active) /\ Posted(bb, "MixInitialization") # {}
    BY <1>1, <1>3, BallotsKnown
  <2>9. Initializations # {}
    BY <1>1, <2>8, Mirrors DEF Initializations, Posted
  <2>10. HasOutput(round)
    <3>1. round \in 1..Threshold /\ Active[round] = o /\ DOMAIN Active = 1..Threshold
      BY <1>1, <2>7, <2>9, ActiveTrustees, ActiveIndexIs
    <3>2. i \in MixesOfRound(board, Active, round)
      BY <2>3, <2>4, <3>1 DEF MixesOfRound
    <3> QED
      BY <1>1, <3>1, <3>2, RoundsAre
  <2> HIDE DEF o
  <2>11. /\ KeyPosted
         /\ round > 1 => \A u \in RangeOf(Active) : <<round - 1, u>> \in Signatures
    BY <2>4, <2>7 DEF InOrder, o
  <2> QED
    BY <2>6, <2>8, <2>10, <2>11 DEF InOrder
<1>4. CASE a.action \notin {"ComputeMix", "SignMix"}
  BY <1>1, <1>4, MessageTypesByAction DEF InOrder
<1> QED
  BY <1>2, <1>3, <1>4

(* What was signed stays signed.                                           *)
LEMMA SignaturesStay ==
    ASSUME BoardOK, BoardOK', NEW msg, Posts(msg), Initializations # {}
    PROVE  /\ Active' = Active
           /\ \A k \in Rounds : k \in Rounds' /\ Output(k)' = Output(k)
           /\ Signatures \subseteq Signatures'
<1>1. /\ Active' = Active
      /\ \A k : HasOutput(k) => HasOutput(k)' /\ Output(k)' = Output(k)
  BY OutputsStay DEF Initializations
<1>2. \A k \in Rounds : k \in Rounds' /\ Output(k)' = Output(k)
  BY <1>1 DEF Rounds
<1>3. ASSUME NEW k \in Rounds, NEW t, SignedBy(k, t)
      PROVE  SignedBy(k, t)'
  <2>1. PICK i \in Posted(board, "EGCryptograms") :
           board[i].ciphertexts = Output(k) /\ board[i].signer = t
    BY <1>3 DEF SignedBy
  <2>2. i \in Posted(board', "EGCryptograms") /\ board'[i] = board[i]
    BY Posting DEF Posted
  <2>3. board'[i].ciphertexts = Output(k)' /\ board'[i].signer = t
    BY <1>2, <2>1, <2>2
  <2> QED
    BY <2>2, <2>3 DEF SignedBy
<1>4. \A x \in Signatures : x \in Signatures'
  <2> SUFFICES ASSUME NEW x \in Signatures PROVE x \in Signatures'
    OBVIOUS
  <2>1. PICK k, t : k \in Rounds /\ x = <<k, t>>
    BY SignaturesAre
  <2>2. SignedBy(k, t)
    BY <2>1, SignaturesAre
  <2>3. k \in Rounds' /\ SignedBy(k, t)'
    BY <1>2, <1>3, <2>1, <2>2
  <2> QED
    BY <2>1, <2>3, SignaturesReadNext
<1> QED
  BY <1>1, <1>2, <1>4

LEMMA InOrderInit == Init => MixesInOrder
  BY DEF Init, TrusteeInit, MixesInOrder

LEMMA InOrderStep == Types /\ Types' /\ Mixes /\ MixesInOrder /\ [Next]_vars => MixesInOrder'
<1> SUFFICES ASSUME Types, Types', Mixes, MixesInOrder, [Next]_vars PROVE MixesInOrder'
  OBVIOUS
<1>1. ASSUME UNCHANGED board
      PROVE  \A m : InOrder(m)' = InOrder(m)
  BY <1>1 DEF InOrder, Active, KeyPosted, HasOutput, Signatures, Outputs
<1>2. CASE UNCHANGED vars
  BY <1>1, <1>2 DEF MixesInOrder, vars, tasVars, trusteeVars
<1>3. ASSUME NEW t \in Trustees, TrusteeStep(t)
      PROVE  MixesInOrder'
  <2>1. UNCHANGED board /\ Sends(t)
    BY <1>3, TrusteeSteps DEF tasVars
  <2>2. ASSUME NEW m \in sent'
        PROVE  InOrder(m)
    <3>1. CASE m \in sent
      BY <3>1 DEF MixesInOrder
    <3>2. CASE m = SetupMsg(t)
      BY <3>2 DEF InOrder, SetupMsg
    <3>3. CASE \E bb, a : Acts(t, bb, a) /\ m = ActionMessage(t, bb, ActiveOf(bb), a)
      BY <3>3, OrderedMessages
    <3> QED
      BY <2>1, <3>1, <3>2, <3>3 DEF Sends
  <2> QED
    BY <1>1, <2>1, <2>2 DEF MixesInOrder
<1>4. CASE TASStep
  <2>1. /\ UNCHANGED sent
        /\ board' = board \/ \E msg : Posts(msg)
    BY <1>4, TASSteps DEF trusteeVars
  <2>2. CASE board' = board
    BY <1>1, <2>1, <2>2 DEF MixesInOrder
  <2>3. ASSUME NEW msg, Posts(msg), NEW m \in sent, m.type = "EGCryptograms"
        PROVE  InOrder(m)'
    <3>0. BoardOK /\ BoardOK' /\ InOrder(m)
      BY DEF Types, MixesInOrder
    <3> DEFINE round == ActiveIndex(Active, m.originator)
    <3>1. /\ m.signer \in RangeOf(Active) /\ KeyPosted
          /\ m.signer # m.originator => HasOutput(round)
          /\ round > 1 => \A t \in RangeOf(Active) : <<round - 1, t>> \in Signatures
      BY <2>3, <3>0 DEF InOrder
    <3>2. Initializations # {}
      BY <3>0, <3>1, NothingPosted
    <3>3. Active' = Active /\ Signatures \subseteq Signatures'
      BY <2>3, <3>0, <3>2, SignaturesStay
    <3>4. HasOutput(round) => HasOutput(round)'
      BY <2>3, <3>0, <3>2, OutputsStay DEF Initializations
    <3>5. KeyPosted'
      BY <2>3, <3>0, <3>1, Posting DEF KeyPosted
    <3> HIDE DEF round
    <3>6. round' = round
      BY <3>3 DEF round
    <3>7. HasOutput(round)' => (HasOutput(ActiveIndex(Active, m.originator)))'
      BY <3>6 DEF round
    <3> QED
      BY <3>1, <3>3, <3>4, <3>5, <3>7 DEF InOrder, round
  <2> QED
    BY <2>1, <2>2, <2>3 DEF MixesInOrder, InOrder
<1> QED
  BY <1>2, <1>3, <1>4 DEF Next, TASStep, TrusteeStep

LEMMA AlwaysInOrder == Spec => []MixesInOrder
  BY InOrderInit, InOrderStep, AlwaysTypes, AlwaysMixes, PTL DEF Spec

-------------------------------------------------------------------------------
(* The key of the ceremony.                                                *)

LEMMA KeysAreKnown ==
    ASSUME Types, Keys, NEW key \in ElectionKeys
    PROVE  /\ key \in [Trustees -> 0..MaxRestarts]
           /\ Deals = {<<t, key[t]>> : t \in Trustees}
<1>1. PICK msg \in sent \cup RangeOf(board) : msg.type = "ElectionPublicKey" /\ msg.key = key
  BY DEF ElectionKeys, MessagesOf
<1>2. MessageOK(msg)
  BY DEF Types, BoardOK, SentOK
<1>3. key \in [Trustees -> 0..MaxRestarts]
  BY <1>1, <1>2 DEF MessageOK
<1>4. \A t \in Trustees : DealsOf(t) = {key[t]}
  BY <1>1 DEF Keys, KeysAreOfDeals, KeyOfDeals
<1>5. ASSUME NEW i \in Posted(board, "KeyShares")
      PROVE  board[i].originator \in Trustees /\ board[i].deal = key[board[i].originator]
  <2>1. board[i].originator \in Trustees
    BY SharesOnBoard DEF Types
  <2>2. board[i].deal \in DealsOf(board[i].originator)
    BY DEF DealsOf
  <2> QED
    BY <1>4, <2>1, <2>2
<1>6. ASSUME NEW t \in Trustees
      PROVE  \E i \in Posted(board, "KeyShares") :
                board[i].originator = t /\ board[i].deal = key[t]
  <2>1. key[t] \in DealsOf(t)
    BY <1>4
  <2> QED
    BY <2>1 DEF DealsOf
<1>7. Deals = {<<t, key[t]>> : t \in Trustees}
  <2>1. \A x \in Deals : \E t \in Trustees : x = <<t, key[t]>>
    BY <1>5 DEF Deals
  <2>2. \A t \in Trustees : <<t, key[t]>> \in Deals
    BY <1>6 DEF Deals
  <2> QED
    BY <2>1, <2>2
<1> QED
  BY <1>3, <1>7

LEMMA OneKey ==
    Types /\ Keys => \A key \in ElectionKeys :
        /\ key \in [Trustees -> 0..MaxRestarts]
        /\ Deals = AnElectionCeremony!DealsOfKey(key)
        /\ ElectionKeys = {key}
<1> SUFFICES ASSUME Types, Keys, NEW key \in ElectionKeys
             PROVE  /\ key \in [Trustees -> 0..MaxRestarts]
                    /\ Deals = AnElectionCeremony!DealsOfKey(key)
                    /\ ElectionKeys = {key}
  OBVIOUS
<1>1. \A k \in ElectionKeys : /\ k \in [Trustees -> 0..MaxRestarts]
                              /\ Deals = {<<t, k[t]>> : t \in Trustees}
  BY KeysAreKnown
<1>2. ASSUME NEW k \in ElectionKeys
      PROVE  k = key
  <2>1. ASSUME NEW t \in Trustees
        PROVE  k[t] = key[t]
    <3>1. <<t, k[t]>> \in {<<u, key[u]>> : u \in Trustees}
      BY <1>1
    <3>2. PICK u \in Trustees : <<t, k[t]>> = <<u, key[u]>>
      BY <3>1
    <3> QED
      BY <3>2
  <2> QED
    BY <1>1, <2>1
<1> QED
  BY <1>1, <1>2 DEF AnElectionCeremony!DealsOfKey

LEMMA OneKeyNext ==
    (Types /\ Keys => \A key \in ElectionKeys :
        /\ key \in [Trustees -> 0..MaxRestarts]
        /\ Deals = AnElectionCeremony!DealsOfKey(key)
        /\ ElectionKeys = {key})'
  BY OneKey, PTL

LEMMA PostedKeys ==
    ASSUME KeyPosted
    PROVE  ElectionKeys # {}
<1>1. PICK i \in DOMAIN board : board[i].type = "ElectionPublicKey"
  BY DEF KeyPosted
<1>2. board[i] \in RangeOf(board)
  BY DEF RangeOf
<1> QED
  BY <1>1, <1>2 DEF ElectionKeys, MessagesOf

-------------------------------------------------------------------------------
(* The plan, and what is mixed by all.                                     *)

MyPlan == [active_trustees |-> Active, ballots |-> Ballots]

LEMMA PlanIs ==
    ASSUME BoardOK, Initializations # {}
    PROVE  /\ MixingPlan = {MyPlan}
           /\ AnElectionCeremony!Mixers(MyPlan) = RangeOf(Active)
<1>1. {S \in {Initializations} : S # {}} = {Initializations}
  OBVIOUS
<1>2. {Initializations} \ {{}} = {Initializations}
  OBVIOUS
<1>3. {First(S) : S \in {Initializations} \ {{}}} = {First(Initializations)}
  BY <1>2
<1>4. MixingPlan = {Plan(board[First(Initializations)])}
  BY <1>3 DEF MixingPlan, Initializations
<1>5. Plan(board[First(Initializations)]) = MyPlan
  BY ActiveTrustees DEF Plan, MyPlan, Ballots
<1>6. AnElectionCeremony!Mixers(MyPlan) = RangeOf(Active)
  BY DEF AnElectionCeremony!Mixers, MyPlan, RangeOf
<1> QED
  BY <1>4, <1>5, <1>6

LEMMA LastOutputIs ==
    ASSUME Types, Mixes, MixesInOrder, NEW c, IsLastOutput(c)
    PROVE  /\ Initializations # {} /\ KeyPosted
           /\ c = [ballots |-> MyPlan.ballots, mixes |-> MixesDone]
           /\ AnElectionCeremony!FullyMixed(MyPlan)
<1>0. BoardOK /\ Threshold \in Nat /\ Threshold \in 1..Threshold
  BY TrusteesAssumption DEF Types
<1>1. HasOutput(Threshold) /\ c = Output(Threshold) /\ Threshold \in Rounds
  BY <1>0 DEF IsLastOutput, Rounds
<1>2. Initializations # {}
  BY <1>0, <1>1, NothingPosted
<1>3. KeyPosted
  <2> DEFINE S == MixesOfRound(board, Active, Threshold)
  <2>1. First(S) \in S
    BY <1>0, <1>1, RoundsAre
  <2>2. PICK i : i = First(S)
    OBVIOUS
  <2>3. i \in DOMAIN board /\ board[i].type = "EGCryptograms"
    BY <2>1, <2>2 DEF MixesOfRound, Posted
  <2>4. board[i] \in sent
    BY <2>3 DEF Mixes, PostedWereSent, MixingPhase
  <2> QED
    BY <2>3, <2>4 DEF MixesInOrder, InOrder
<1>4. PICK top : MixedUpTo(top)
  BY <1>0, <1>2, RoundsInTurn
<1>5. top = Threshold
  BY <1>0, <1>1, <1>4 DEF MixedUpTo
<1>6. /\ MixesDone \in MixLists /\ Len(MixesDone) = Threshold
      /\ \A k \in 1..Threshold : MixesDone[k][1] = Active[k]
      /\ c = Ciphertexts(Ballots, MixesDone)
  BY <1>0, <1>1, <1>4, <1>5, MixedInTurn
<1>7. c = [ballots |-> MyPlan.ballots, mixes |-> MixesDone] /\ c.mixes = MixesDone
  BY <1>6 DEF Ciphertexts, MyPlan
<1>8. PICK i \in Initializations :
         LET active == board[i].active_trustees
         IN  /\ Len(c.mixes) = Len(active)
             /\ \A k \in DOMAIN active :
                   /\ c.mixes[k][1] = active[k]
                   /\ \A t \in RangeOf(active) :
                         EGCryptogramsMsg(active[k], t, [c EXCEPT !.mixes = SubSeq(@, 1, k)])
                             \in RangeOf(board)
  BY DEF IsLastOutput, FullyMixed, Initializations
<1>9. board[i].active_trustees = Active
  <2>1. MessageOK(board[i]) /\ board[i].type = "MixInitialization"
    BY <1>0 DEF BoardOK, RangeOf, Initializations, Posted
  <2>2. PICK active : active = board[i].active_trustees
    OBVIOUS
  <2>3. active \in Seq(Trustees) /\ Len(active) = Threshold
    BY <2>1, <2>2 DEF MessageOK
  <2>4. Active \in Seq(Trustees) /\ Len(Active) = Threshold
    BY <1>0, <1>2, ActiveTrustees
  <2>5. \A k \in 1..Threshold : active[k] = Active[k]
    <3>1. DOMAIN active = 1..Threshold
      BY <2>3, LenProperties
    <3> QED
      BY <1>6, <1>7, <1>8, <2>2, <3>1
  <2> QED
    BY <2>2, <2>3, <2>4, <2>5, SeqEqual
<1>10. \A t \in RangeOf(Active) : <<Threshold, t>> \in Signatures
  <2> SUFFICES ASSUME NEW t \in RangeOf(Active) PROVE <<Threshold, t>> \in Signatures
    OBVIOUS
  <2>1. Threshold \in DOMAIN Active
    BY <1>0, <1>2, ActiveTrustees
  <2>2. EGCryptogramsMsg(Active[Threshold], t, [c EXCEPT !.mixes = SubSeq(@, 1, Threshold)])
            \in RangeOf(board)
    BY <1>8, <1>9, <2>1
  <2>3. SubSeq(MixesDone, 1, Threshold) = MixesDone
    <3>1. /\ SubSeq(MixesDone, 1, Threshold) \in MixLists
          /\ Len(SubSeq(MixesDone, 1, Threshold)) = Threshold
          /\ \A k \in 1..Threshold : SubSeq(MixesDone, 1, Threshold)[k] = MixesDone[k]
      BY <1>0, <1>6, SubSeqProperties, LenProperties DEF MixLists
    <3> QED
      BY <1>6, <3>1, SeqEqual DEF MixLists
  <2>4. [c EXCEPT !.mixes = SubSeq(@, 1, Threshold)] = c
    <3>1. \A s, u : [Ciphertexts(Ballots, s) EXCEPT !.mixes = u] = Ciphertexts(Ballots, u)
      BY DEF Ciphertexts
    <3>2. \A u : [c EXCEPT !.mixes = u] = Ciphertexts(Ballots, u)
      BY <1>6, <3>1
    <3>3. [c EXCEPT !.mixes = SubSeq(@, 1, Threshold)]
             = [c EXCEPT !.mixes = SubSeq(c.mixes, 1, Threshold)]
      OBVIOUS
    <3> QED
      BY <1>6, <1>7, <2>3, <3>2, <3>3
  <2>5. PICK j \in DOMAIN board : board[j] = EGCryptogramsMsg(Active[Threshold], t, c)
    BY <2>2, <2>4 DEF RangeOf
  <2>6. j \in Posted(board, "EGCryptograms") /\ board[j].ciphertexts = c /\ board[j].signer = t
    BY <2>5 DEF EGCryptogramsMsg, Posted
  <2> QED
    BY <1>0, <1>1, <2>6, SignaturesAre DEF SignedBy
<1>11. AnElectionCeremony!FullyMixed(MyPlan)
  <2>1. /\ Len(MixesDone) = Threshold /\ Len(MyPlan.active_trustees) = Threshold
        /\ AnElectionCeremony!Mixers(MyPlan) = RangeOf(Active)
    BY <1>0, <1>2, <1>6, ActiveTrustees, PlanIs DEF MyPlan
  <2> QED
    BY <1>10, <2>1 DEF AnElectionCeremony!FullyMixed, AnElectionCeremony!AllSigned
<1> QED
  BY <1>2, <1>3, <1>7, <1>11

-------------------------------------------------------------------------------
(* Steps of a trustee: it agrees on the key, decrypts, publishes, or sends  *)
(* what the ceremony does not show before it is on the board.               *)

LEMMA NewMessages ==
    ASSUME Types, Mixes, NEW t \in Trustees, Sends(t), NEW m \in sent' \ sent
    PROVE  /\ m.signer = t
           /\ IsDecryption(m)
           /\ m.type \in {"PartialDecryptions", "DecryptedBallots"} => t \in RangeOf(Active)
           /\ m.type = "DecryptedBallots" => RangeOf(Active) \subseteq SentDecryptions
<1>1. CASE m = SetupMsg(t)
  BY <1>1 DEF SetupMsg, IsDecryption
<1>2. ASSUME NEW bb, NEW a, Acts(t, bb, a), m = ActionMessage(t, bb, ActiveOf(bb), a)
      PROVE  /\ m.signer = t
             /\ IsDecryption(m)
             /\ m.type \in {"PartialDecryptions", "DecryptedBallots"} => t \in RangeOf(Active)
             /\ m.type = "DecryptedBallots" => RangeOf(Active) \subseteq SentDecryptions
  <2> DEFINE M == FactsOf(bb, ActiveOf(bb))
  <2>1. /\ BoardOK /\ a \in Actions(M) /\ IsPrefix(bb) /\ Converted(bb) /\ ~Errors(M)
    BY <1>2 DEF Types, Acts
  <2>2. m.signer = t /\ IsDecryption(m)
    BY <1>2, ActionMessagesOK, SentMessages
  <2>3. /\ m.type = "PartialDecryptions" => a.action = "ComputePartialDecryptions"
        /\ m.type = "DecryptedBallots" => a.action = "ComputePlaintexts"
    BY <1>2, <2>1, MessageTypesByAction
  <2>4. ASSUME m.type \in {"PartialDecryptions", "DecryptedBallots"}
        PROVE  t \in RangeOf(Active) /\ Posted(bb, "MixInitialization") # {}
    BY <1>2, <2>1, <2>3, <2>4, BallotsKnown
  <2>5. ASSUME m.type = "DecryptedBallots", NEW u \in RangeOf(Active)
        PROVE  u \in SentDecryptions
    <3>1. a \in ComputePlaintexts(M)
      BY <2>1, <2>3, <2>5, ActionsByName
    <3>2. a.decryptions \in PartialDecryptionsAll(M)
      BY <3>1 DEF ComputePlaintexts
    <3>3. Posted(bb, "MixInitialization") # {}
      BY <2>4, <2>5
    <3>4. Active \in Seq(Trustees) /\ DOMAIN Active = 1..Threshold
      BY <2>1, <3>3, ActiveIsKnown
    <3> DEFINE k == ActiveIndex(Active, u)
    <3>5. k \in 1..Threshold /\ Active[k] = u
      BY <2>5, <3>4, ActiveIndexIs
    <3> HIDE DEF k
    <3>6. PICK w \in Decryptors(Output(Threshold)) :
             w \in RangeOf(Active) /\ ActiveIndex(Active, w) = k
      BY <2>1, <3>2, <3>3, <3>5, PositionsDecrypt
    <3>7. w = u
      BY <3>4, <3>5, <3>6, ActiveIndexIs
    <3>8. PICK i \in DOMAIN board : board[i].type = "PartialDecryptions" /\ board[i].signer = w
      BY <3>6 DEF Decryptors, Posted
    <3>9. board[i] \in sent
      BY <3>8 DEF Mixes, PostedWereSent, MixingPhase
    <3> QED
      BY <3>7, <3>8, <3>9 DEF SentDecryptions, MessagesOf
  <2> QED
    BY <2>2, <2>4, <2>5
<1> QED
  BY <1>1, <1>2 DEF Sends

(* Whatever the trustees publish is what the last round put out.           *)
LEMMA BallotsSent ==
    ASSUME Mixes, NEW c \in SentBallots
    PROVE  c = Output(Threshold)
<1>1. PICK m \in sent : m.type = "DecryptedBallots" /\ m.plaintexts_of = c
  BY DEF SentBallots, MessagesOf
<1> QED
  BY <1>1 DEF Mixes, IsDecryption, IsLastOutput

Inv == Types /\ Keys /\ Mixes /\ MixesInOrder

LEMMA KeysOfStep ==
    ASSUME Inv, Inv', sent \subseteq sent', RangeOf(board) \subseteq RangeOf(board')
    PROVE  /\ ElectionKeys # {} => ElectionKeys' = ElectionKeys
           /\ ElectionKeys' # {} =>
                 \E key \in [Trustees -> 0..MaxRestarts] :
                    Deals' = AnElectionCeremony!DealsOfKey(key) /\ ElectionKeys' = {key}
<1>1. ASSUME NEW key \in ElectionKeys
      PROVE  key \in ElectionKeys'
  BY DEF ElectionKeys, MessagesOf
<1>2. ASSUME NEW key \in ElectionKeys'
      PROVE  /\ key \in [Trustees -> 0..MaxRestarts]
             /\ Deals' = AnElectionCeremony!DealsOfKey(key)
             /\ ElectionKeys' = {key}
  <2>1. Types' /\ Keys'
    BY DEF Inv
  <2> QED
    BY <2>1, OneKeyNext DEF AnElectionCeremony!DealsOfKey
<1>3. ASSUME NEW key \in ElectionKeys
      PROVE  ElectionKeys = {key}
  BY OneKey DEF Inv
<1> QED
  BY <1>1, <1>2, <1>3

LEMMA BoardReadings ==
    ASSUME UNCHANGED board
    PROVE  /\ UNCHANGED <<Deals, MixingPlan, MixesDone, Signatures>>
           /\ UNCHANGED <<Active, Ballots, Initializations, KeyPosted>>
           /\ Output(Threshold)' = Output(Threshold)
<1>1. UNCHANGED Active
  BY DEF Active
<1>2. UNCHANGED Outputs
  BY <1>1 DEF Outputs
<1> QED
  BY <1>1, <1>2 DEF Deals, MixingPlan, MixesDone, Signatures, Ballots, Initializations,
     KeyPosted, Output

LEMMA CeremonyOfTrustee ==
    ASSUME Inv, Inv', NEW t \in Trustees, TrusteeStep(t)
    PROVE  [AnElectionCeremony!Next]_(AnElectionCeremony!ceremonyVars)
<1>1. UNCHANGED board /\ Sends(t) /\ Types /\ Mixes /\ MixesInOrder /\ BoardOK
  BY TrusteeSteps DEF Inv, tasVars, Types
<1>2. /\ UNCHANGED <<Deals, MixingPlan, MixesDone, Signatures, Output(Threshold)>>
  BY <1>1, BoardReadings
<1>3. sent \subseteq sent'
  BY <1>1 DEF Sends
<1>4. /\ ElectionKeys # {} => ElectionKeys' = ElectionKeys
      /\ ElectionKeys' # {} =>
            \E key \in [Trustees -> 0..MaxRestarts] :
               Deals' = AnElectionCeremony!DealsOfKey(key) /\ ElectionKeys' = {key}
  BY <1>1, <1>3, KeysOfStep
<1>5. ASSUME NEW u \in SentDecryptions
      PROVE  u \in SentDecryptions'
  BY <1>3 DEF SentDecryptions, MessagesOf
<1>6. ASSUME NEW u \in SentDecryptions', u \notin SentDecryptions
      PROVE  u = t /\ t \in RangeOf(Active) /\ \E c : IsLastOutput(c)
  <2>1. PICK m \in sent' \ sent : m.type = "PartialDecryptions" /\ m.signer = u
    BY <1>6 DEF SentDecryptions, MessagesOf
  <2> QED
    BY <1>1, <2>1, NewMessages DEF IsDecryption
<1>7. ASSUME NEW c \in SentBallots
      PROVE  c \in SentBallots' /\ c = Output(Threshold)
  BY <1>1, <1>3, BallotsSent DEF SentBallots, MessagesOf
<1>8. ASSUME NEW c \in SentBallots', c \notin SentBallots
      PROVE  /\ c = Output(Threshold) /\ IsLastOutput(c)
             /\ RangeOf(Active) \subseteq SentDecryptions /\ t \in SentDecryptions
  <2>1. PICK m \in sent' \ sent : m.type = "DecryptedBallots" /\ m.plaintexts_of = c
    BY <1>8 DEF SentBallots, MessagesOf
  <2> QED
    BY <1>1, <2>1, NewMessages DEF IsDecryption, IsLastOutput
<1>9. ASSUME NEW c, IsLastOutput(c)
      PROVE  /\ MixingPlan = {MyPlan} /\ AnElectionCeremony!Mixers(MyPlan) = RangeOf(Active)
             /\ c = [ballots |-> MyPlan.ballots, mixes |-> MixesDone]
             /\ AnElectionCeremony!FullyMixed(MyPlan)
             /\ ElectionKeys' = ElectionKeys
  BY <1>1, <1>4, <1>9, LastOutputIs, PlanIs, PostedKeys
<1>10. CASE SentBallots' # SentBallots
  <2>1. PICK c \in SentBallots' : c \notin SentBallots
    BY <1>7, <1>10
  <2>2. /\ c = Output(Threshold) /\ IsLastOutput(c)
        /\ RangeOf(Active) \subseteq SentDecryptions /\ t \in SentDecryptions
    BY <1>8, <2>1
  <2>3. SentBallots = {} /\ SentBallots' = {c}
    BY <1>7, <1>8, <2>1, <2>2
  <2>4. SentDecryptions' = SentDecryptions
    BY <1>5, <1>6, <2>2
  <2>5. AnElectionCeremony!Publish(MyPlan)
    BY <1>2, <1>9, <2>2, <2>3, <2>4 DEF AnElectionCeremony!Publish
  <2> QED
    BY <1>9, <2>2, <2>5 DEF AnElectionCeremony!Next
<1>11. CASE SentBallots' = SentBallots /\ SentDecryptions' # SentDecryptions
  <2>1. PICK u \in SentDecryptions' : u \notin SentDecryptions
    BY <1>5, <1>11
  <2>2. t \in RangeOf(Active) /\ \E c : IsLastOutput(c)
    BY <1>6, <2>1
  <2>3. SentDecryptions' = SentDecryptions \cup {t}
    BY <1>5, <1>6, <2>1
  <2>4. AnElectionCeremony!Decrypt(MyPlan)
    BY <1>2, <1>9, <1>11, <2>2, <2>3 DEF AnElectionCeremony!Decrypt
  <2> QED
    BY <1>9, <2>2, <2>4 DEF AnElectionCeremony!Next
<1>12. CASE SentBallots' = SentBallots /\ SentDecryptions' = SentDecryptions
  <2>1. CASE ElectionKeys' = ElectionKeys
    BY <1>2, <1>12, <2>1 DEF AnElectionCeremony!ceremonyVars
  <2>2. CASE ElectionKeys' # ElectionKeys
    <3>1. ElectionKeys = {} /\ ElectionKeys' # {}
      BY <1>4, <2>2
    <3>2. AnElectionCeremony!Agree
      BY <1>2, <1>4, <1>12, <3>1 DEF AnElectionCeremony!Agree
    <3> QED
      BY <3>2 DEF AnElectionCeremony!Next
  <2> QED
    BY <2>1, <2>2
<1> QED
  BY <1>10, <1>11, <1>12

-------------------------------------------------------------------------------
(* What a posting changes.  The lemmas above, as formulas, hold after it.  *)

LEMMA RoundsRead ==
    BoardOK =>
        /\ \A k \in 1..Threshold :
              /\ HasOutput(k) <=> MixesOfRound(board, Active, k) # {}
              /\ Output(k) = board[First(MixesOfRound(board, Active, k))].ciphertexts
        /\ MixesDone = [k \in Rounds |-> Output(k).mixes[k]]
        /\ Rounds = {} => MixesDone = << >> /\ Signatures = {}
        /\ \A x \in Signatures : \E k, t : x = <<k, t>>
<1> SUFFICES ASSUME BoardOK
             PROVE  /\ \A k \in 1..Threshold :
                          /\ HasOutput(k) <=> MixesOfRound(board, Active, k) # {}
                          /\ Output(k) = board[First(MixesOfRound(board, Active, k))].ciphertexts
                    /\ MixesDone = [k \in Rounds |-> Output(k).mixes[k]]
                    /\ Rounds = {} => MixesDone = << >> /\ Signatures = {}
                    /\ \A x \in Signatures : \E k, t : x = <<k, t>>
  OBVIOUS
<1>1. \A k \in 1..Threshold :
         /\ HasOutput(k) <=> MixesOfRound(board, Active, k) # {}
         /\ Output(k) = board[First(MixesOfRound(board, Active, k))].ciphertexts
  BY RoundsAre
<1>2. MixesDone = [k \in Rounds |-> Output(k).mixes[k]]
  BY MixesAre
<1>3. ASSUME Rounds = {}
      PROVE  MixesDone = << >> /\ Signatures = {}
  <2>1. MixesDone \in [1..0 -> {}]
    BY <1>2, <1>3
  <2> QED
    BY <1>3, <2>1, FunctionIsSeq, EmptySeq, SignaturesAre
<1>4. \A x \in Signatures : \E k, t : x = <<k, t>>
  BY SignaturesAre
<1> QED
  BY <1>1, <1>2, <1>3, <1>4

LEMMA RoundsReadNext ==
    (BoardOK =>
        /\ \A k \in 1..Threshold :
              /\ HasOutput(k) <=> MixesOfRound(board, Active, k) # {}
              /\ Output(k) = board[First(MixesOfRound(board, Active, k))].ciphertexts
        /\ MixesDone = [k \in Rounds |-> Output(k).mixes[k]]
        /\ Rounds = {} => MixesDone = << >> /\ Signatures = {}
        /\ \A x \in Signatures : \E k, t : x = <<k, t>>)'
  BY RoundsRead, PTL

LEMMA PlanRead ==
    BoardOK =>
        /\ Initializations = {} =>
              MixingPlan = {} /\ MixesDone = << >> /\ Signatures = {}
        /\ Initializations # {} => MixingPlan = {MyPlan}
  BY NothingPosted, PlanIs

LEMMA PlanReadNext ==
    (BoardOK =>
        /\ Initializations = {} =>
              MixingPlan = {} /\ MixesDone = << >> /\ Signatures = {}
        /\ Initializations # {} => MixingPlan = {MyPlan})'
  BY PlanRead, PTL

LEMMA TurnRead ==
    BoardOK /\ Mixes /\ Initializations # {} =>
        \E top : /\ top \in 0..Threshold /\ Rounds = 1..top
                 /\ MixesDone = Output(top).mixes
<1> SUFFICES ASSUME BoardOK, Mixes, Initializations # {}
             PROVE  \E top : /\ top \in 0..Threshold /\ Rounds = 1..top
                             /\ MixesDone = Output(top).mixes
  OBVIOUS
<1>1. PICK top : MixedUpTo(top)
  BY RoundsInTurn
<1>2. MixesDone = Output(top).mixes
  BY <1>1, MixedInTurn
<1> QED
  BY <1>1, <1>2 DEF MixedUpTo

LEMMA TurnReadNext ==
    (BoardOK /\ Mixes /\ Initializations # {} =>
        \E top : /\ top \in 0..Threshold /\ Rounds = 1..top
                 /\ MixesDone = Output(top).mixes)'
  BY TurnRead, PTL

LEMMA PostedNext ==
    ASSUME BoardOK, NEW msg, Posts(msg), NEW type
    PROVE  /\ Posted(board', type) =
                 Posted(board, type) \cup (IF msg.type = type THEN {Len(board) + 1} ELSE {})
           /\ \A i \in Posted(board, type) : board'[i] = board[i]
           /\ board'[Len(board) + 1] = msg
           /\ Len(board) + 1 \notin Posted(board, type)
<1>1. /\ DOMAIN board' = DOMAIN board \cup {Len(board) + 1}
      /\ \A i \in DOMAIN board : board'[i] = board[i]
      /\ board'[Len(board) + 1] = msg
  BY Posting
<1>2. Len(board) + 1 \notin DOMAIN board
  BY BoardIs
<1> QED
  BY <1>1, <1>2 DEF Posted

(* Once mixing has started.                                                *)
LEMMA PlanStays ==
    ASSUME BoardOK, BoardOK', NEW msg, Posts(msg), Initializations # {}
    PROVE  /\ Initializations' # {} /\ MyPlan' = MyPlan /\ MixingPlan' = MixingPlan
<1>1. Active' = Active
  BY SignaturesStay
<1> DEFINE I == Posted(board, "MixInitialization")
           J == Posted(board', "MixInitialization")
<1>2. I \subseteq J /\ \A i \in I, j \in J \ I : i <= j
  <2>1. J = I \cup (IF msg.type = "MixInitialization" THEN {Len(board) + 1} ELSE {})
    BY PostedNext
  <2>2. Len(board) \in Nat /\ I \subseteq 1..Len(board)
    BY BoardIs DEF Posted
  <2> HIDE DEF I, J
  <2> QED
    BY <2>1, <2>2
<1>3. J \subseteq Nat
  <2>1. Len(board) \in Nat /\ DOMAIN board' = DOMAIN board \cup {Len(board) + 1}
    BY BoardIs, Posting
  <2> QED
    BY <2>1, BoardIs DEF Posted
<1>4. I # {}
  BY DEF Initializations
<1>5. First(J) = First(I) /\ First(I) \in I
  <2> HIDE DEF I, J
  <2> QED
    BY <1>2, <1>3, <1>4, FirstStays, FirstIs
<1>6. board'[First(I)] = board[First(I)]
  BY <1>5, PostedNext
<1>7. MyPlan' = MyPlan
  BY <1>1, <1>5, <1>6 DEF MyPlan, Ballots, Initializations
<1>8. Initializations' # {}
  BY <1>2, <1>4 DEF Initializations
<1> QED
  BY <1>7, <1>8, PlanRead, PlanReadNext

LEMMA NewRounds ==
    ASSUME BoardOK, BoardOK', NEW msg, Posts(msg), Initializations # {}, NEW k \in 1..Threshold
    PROVE  LET mixed == /\ msg.type = "EGCryptograms"
                        /\ msg.originator = Active[k] /\ msg.signer = Active[k]
           IN  /\ k \in Rounds' <=> k \in Rounds \/ mixed
               /\ k \in Rounds => Output(k)' = Output(k)
               /\ k \in Rounds' /\ k \notin Rounds => Output(k)' = msg.ciphertexts
<1> DEFINE mixed == /\ msg.type = "EGCryptograms"
                    /\ msg.originator = Active[k] /\ msg.signer = Active[k]
           S == MixesOfRound(board, Active, k)
           n == Len(board) + 1
<1>1. Active' = Active /\ (k \in Rounds => k \in Rounds' /\ Output(k)' = Output(k))
  BY SignaturesStay
<1>2. MixesOfRound(board', Active, k) = S \cup (IF mixed THEN {n} ELSE {})
  BY PostedNext, ActiveTrustees DEF MixesOfRound
<1>3. /\ HasOutput(k)' <=> MixesOfRound(board', Active, k) # {}
      /\ Output(k)' = board'[First(MixesOfRound(board', Active, k))].ciphertexts
      /\ HasOutput(k) <=> S # {}
  BY <1>1, RoundsRead, RoundsReadNext
<1>4. k \in Rounds <=> HasOutput(k)
  BY DEF Rounds
<1>5. k \in Rounds' <=> HasOutput(k)'
  BY DEF Rounds
<1> HIDE DEF S, mixed
<1>6. k \in Rounds' <=> k \in Rounds \/ mixed
  BY <1>2, <1>3, <1>4, <1>5
<1>7. ASSUME k \in Rounds', k \notin Rounds
      PROVE  Output(k)' = msg.ciphertexts
  <2>1. MixesOfRound(board', Active, k) = {n}
    BY <1>2, <1>3, <1>4, <1>6, <1>7
  <2>2. n \in Nat
    BY BoardIs
  <2>3. First({n}) = n
    BY <2>2, FirstIs
  <2>4. board'[n] = msg
    BY PostedNext
  <2> QED
    BY <1>3, <2>1, <2>3, <2>4
<1> QED
  BY <1>1, <1>6, <1>7 DEF mixed

LEMMA NewSignatures ==
    ASSUME BoardOK, BoardOK', NEW msg, Posts(msg), Initializations # {}, NEW k \in Rounds, NEW t
    PROVE  <<k, t>> \in Signatures' <=>
              \/ <<k, t>> \in Signatures
              \/ msg.type = "EGCryptograms" /\ msg.ciphertexts = Output(k) /\ msg.signer = t
<1>1. k \in Rounds' /\ Output(k)' = Output(k)
  BY SignaturesStay
<1>2. <<k, t>> \in Signatures' <=> SignedBy(k, t)'
  BY <1>1, SignaturesReadNext
<1>3. <<k, t>> \in Signatures <=> SignedBy(k, t)
  BY SignaturesRead
<1>4. SignedBy(k, t)' <=> \E i \in Posted(board', "EGCryptograms") :
         board'[i].ciphertexts = Output(k) /\ board'[i].signer = t
  BY <1>1 DEF SignedBy
<1>5. SignedBy(k, t)' <=>
         \/ SignedBy(k, t)
         \/ msg.type = "EGCryptograms" /\ msg.ciphertexts = Output(k) /\ msg.signer = t
  BY <1>4, PostedNext DEF SignedBy
<1> QED
  BY <1>2, <1>3, <1>5

(* Where no round is new.                                                  *)
LEMMA RoundsUnchanged ==
    ASSUME BoardOK, BoardOK', NEW msg, Posts(msg), Initializations # {}, Rounds' = Rounds
    PROVE  /\ MixesDone' = MixesDone
           /\ \A x : x \in Signatures' <=>
                 \/ x \in Signatures
                 \/ \E k \in Rounds : /\ msg.type = "EGCryptograms"
                                      /\ msg.ciphertexts = Output(k)
                                      /\ x = <<k, msg.signer>>
<1>1. \A k \in Rounds : Output(k)' = Output(k)
  BY SignaturesStay
<1>2. MixesDone' = MixesDone
  BY <1>1, RoundsRead, RoundsReadNext
<1>3. /\ \A x \in Signatures : \E k \in Rounds : \E t : x = <<k, t>>
      /\ \A x \in Signatures' : \E k \in Rounds : \E t : x = <<k, t>>
  <2>1. ASSUME NEW x \in Signatures' PROVE \E k \in Rounds : \E t : x = <<k, t>>
    <3>1. PICK k, t : x = <<k, t>>
      BY RoundsReadNext
    <3>2. k \in Rounds'
      BY <3>1, SignaturesReadNext
    <3> QED
      BY <3>1, <3>2
  <2> QED
    BY <2>1, SignaturesAre
<1>4. \A k \in Rounds : \A t : <<k, t>> \in Signatures' <=>
         \/ <<k, t>> \in Signatures
         \/ msg.type = "EGCryptograms" /\ msg.ciphertexts = Output(k) /\ msg.signer = t
  BY NewSignatures
<1> QED
  BY <1>2, <1>3, <1>4

LEMMA ReadingsOfPosting ==
    ASSUME BoardOK, UNCHANGED sent, NEW msg, Posts(msg)
    PROVE  /\ UNCHANGED <<SentDecryptions, SentBallots>>
           /\ msg.type # "KeyShares" => Deals' = Deals
           /\ msg.type = "KeyShares" => Deals' = Deals \cup {<<msg.originator, msg.deal>>}
           /\ msg.type # "ElectionPublicKey" \/ msg \in sent => ElectionKeys' = ElectionKeys
<1>1. UNCHANGED <<SentDecryptions, SentBallots>>
  BY DEF SentDecryptions, SentBallots
<1>2. Deals' = Deals \cup (IF msg.type = "KeyShares" THEN {<<msg.originator, msg.deal>>} ELSE {})
  BY PostedNext DEF Deals
<1>3. RangeOf(board') = RangeOf(board) \cup {msg}
  BY Posting
<1>4. msg.type # "ElectionPublicKey" \/ msg \in sent => ElectionKeys' = ElectionKeys
  <2> SUFFICES ASSUME msg.type # "ElectionPublicKey" \/ msg \in sent
               PROVE  ElectionKeys' = ElectionKeys
    OBVIOUS
  <2>1. \A x : x \in MessagesOf(sent \cup RangeOf(board), "ElectionPublicKey")'
                  <=> x \in MessagesOf(sent \cup RangeOf(board), "ElectionPublicKey")
    BY <1>3 DEF MessagesOf
  <2>2. MessagesOf(sent \cup RangeOf(board), "ElectionPublicKey")'
           = MessagesOf(sent \cup RangeOf(board), "ElectionPublicKey")
    BY <2>1
  <2> QED
    BY <2>2 DEF ElectionKeys
<1> QED
  BY <1>1, <1>2, <1>4

(* A mix of round k went through k mixes.                                  *)
LEMMA MixLengths ==
    ASSUME BoardOK, Mixes, Initializations # {}, NEW top, MixedUpTo(top),
           NEW m \in sent, m.type = "EGCryptograms"
    PROVE  LET k == ActiveIndex(Active, m.originator)
           IN  /\ k \in 1..Threshold /\ Active[k] = m.originator
               /\ k - 1 \in 0..top
               /\ \E randomness \in 0..MaxRestarts :
                     m.ciphertexts.mixes = Append(Output(k - 1).mixes, <<m.originator, randomness>>)
               /\ Len(m.ciphertexts.mixes) = k
<1> DEFINE o == m.originator
           k == ActiveIndex(Active, o)
<1>1. PICK randomness \in 0..MaxRestarts :
         /\ o \in RangeOf(Active)
         /\ HasOutput(k - 1)
         /\ m = EGCryptogramsMsg(o, m.signer, Shuffle(Output(k - 1), o, randomness))
  BY DEF Mixes, IsMix
<1>2. Active \in Seq(Trustees) /\ DOMAIN Active = 1..Threshold /\ RangeOf(Active) \subseteq Trustees
  BY ActiveTrustees
<1>3. k \in 1..Threshold /\ Active[k] = o /\ o \in Trustees
  BY <1>1, <1>2, ActiveIndexIs
<1>4. m.ciphertexts = Shuffle(Output(k - 1), o, randomness)
  <2>1. \A a, b, c : EGCryptogramsMsg(a, b, c).ciphertexts = c
    BY DEF EGCryptogramsMsg
  <2> HIDE DEF o, k
  <2> QED
    BY <1>1, <2>1
<1> HIDE DEF o, k
<1>5. top \in 0..Threshold /\ Threshold \in Nat /\ Rounds = 1..top
  BY TrusteesAssumption DEF MixedUpTo
<1>6. k - 1 \in 0..top
  <2>1. k = 1 \/ k - 1 \in 1..Threshold
    BY <1>3, <1>5
  <2>2. CASE k = 1
    BY <1>5, <2>2
  <2>3. CASE k - 1 \in 1..Threshold
    <3>1. k - 1 \in Rounds
      BY <1>1, <2>3 DEF Rounds
    <3> QED
      BY <1>5, <3>1
  <2> QED
    BY <2>1, <2>2, <2>3
<1>7. MixedBy(Ballots, k - 1)
  BY <1>6 DEF MixedUpTo
<1> DEFINE s == Output(k - 1).mixes
<1>8. s \in MixLists /\ Len(s) = k - 1 /\ Output(k - 1) = Ciphertexts(Ballots, s)
  BY <1>7 DEF MixedBy
<1>9. m.ciphertexts = Ciphertexts(Ballots, Append(s, <<o, randomness>>))
  <2> HIDE DEF s
  <2> QED
    BY <1>4, <1>8, ShuffleIs
<1>10. m.ciphertexts.mixes = Append(s, <<o, randomness>>)
  BY <1>9 DEF Ciphertexts
<1>11. Len(Append(s, <<o, randomness>>)) = k
  <2> HIDE DEF s
  <2>1. <<o, randomness>> \in Trustees \X (0..MaxRestarts)
    BY <1>3
  <2>2. Len(Append(s, <<o, randomness>>)) = Len(s) + 1
    BY <1>8, <2>1, Appended DEF MixLists
  <2> QED
    BY <1>3, <1>8, <2>2
<1> QED
  BY <1>3, <1>6, <1>10, <1>11 DEF o, k

(* A mixer's own posting of its first mix: the ceremony mixes.             *)
LEMMA CeremonyMixes ==
    ASSUME Inv, Inv', UNCHANGED sent, NEW msg \in sent, msg.type = "EGCryptograms",
           Posts(msg), ~HasOutput(ActiveIndex(Active, msg.originator))
    PROVE  [AnElectionCeremony!Next]_(AnElectionCeremony!ceremonyVars)
<1> DEFINE o == msg.originator
<1>0. PICK k : k = ActiveIndex(Active, o)
  OBVIOUS
<1>1. /\ BoardOK /\ BoardOK' /\ Mixes /\ Mixes' /\ Threshold \in Nat
      /\ \A m \in sent : InOrder(m)
  BY TrusteesAssumption DEF Inv, Types, MixesInOrder
<1>2. /\ msg.signer \in RangeOf(Active) /\ KeyPosted
      /\ msg.signer = o
      /\ k > 1 => \A t \in RangeOf(Active) : <<k - 1, t>> \in Signatures
  BY <1>0, <1>1 DEF InOrder
<1>3. Initializations # {}
  BY <1>1, <1>2, NothingPosted
<1>4. PICK top : MixedUpTo(top)
  BY <1>1, <1>3, RoundsInTurn
<1>5. top \in Nat /\ top <= Threshold /\ Rounds = 1..top
  BY <1>1, <1>4 DEF MixedUpTo
<1>6. PICK randomness \in 0..MaxRestarts :
         /\ k \in 1..Threshold /\ Active[k] = o
         /\ k - 1 \in 0..top
         /\ msg.ciphertexts.mixes = Append(Output(k - 1).mixes, <<o, randomness>>)
         /\ Len(msg.ciphertexts.mixes) = k
  BY <1>0, <1>1, <1>3, <1>4, MixLengths
<1>7. k \notin Rounds
  BY <1>0 DEF Rounds
<1>8. /\ DOMAIN Active = 1..Threshold /\ Len(Active) = Threshold
      /\ \A j \in 1..Threshold : ActiveIndex(Active, Active[j]) = j
      /\ o \in RangeOf(Active)
  BY <1>1, <1>2, <1>3, ActiveTrustees
<1>9. \A j \in 1..Threshold : Active[j] = o => j = k
  BY <1>0, <1>8
<1> HIDE DEF o
<1>10. k = top + 1
  BY <1>5, <1>6, <1>7
<1>11. /\ Rounds' \subseteq 1..Threshold
       /\ \A j \in 1..Threshold : j \in Rounds' <=> j \in Rounds \/ j = k
       /\ Output(k)' = msg.ciphertexts
  <2>1. Rounds' \subseteq 1..Threshold
    BY DEF Rounds
  <2>2. msg.originator = o /\ msg.signer = o
    BY <1>2 DEF o
  <2>3. \A j \in 1..Threshold : j \in Rounds' <=> j \in Rounds \/ Active[j] = o
    BY <1>1, <1>3, <2>2, NewRounds
  <2>4. \A j \in 1..Threshold : j \in Rounds' <=> j \in Rounds \/ j = k
    BY <1>6, <1>9, <2>3
  <2>5. k \in Rounds'
    BY <1>6, <2>4
  <2>6. Output(k)' = msg.ciphertexts
    BY <1>1, <1>3, <1>6, <1>7, <2>5, NewRounds
  <2> QED
    BY <2>1, <2>4, <2>6
<1>12. /\ \A j \in Rounds : Output(j)' = Output(j)
       /\ Initializations' # {} /\ MyPlan' = MyPlan /\ MixingPlan' = MixingPlan
       /\ MixingPlan = {MyPlan} /\ AnElectionCeremony!Mixers(MyPlan) = RangeOf(Active)
  BY <1>1, <1>3, SignaturesStay, PlanStays, PlanIs
<1>13. MixesDone = Output(top).mixes /\ Len(MixesDone) = top
  BY <1>1, <1>4, MixedInTurn
<1>14. MixesDone' = Append(MixesDone, <<o, randomness>>)
  <2>1. PICK last : /\ last \in 0..Threshold /\ Rounds' = 1..last
                    /\ MixesDone' = Output(last)'.mixes
    BY <1>1, <1>12, TurnReadNext
  <2>2. \A j \in 1..Threshold : j \in 1..last <=> j \in 1..top \/ j = top + 1
    BY <1>5, <1>10, <1>11, <2>1
  <2>3. last = top + 1
    <3>1. top + 1 \in 1..Threshold /\ last \in Nat
      BY <1>1, <1>6, <1>10, <2>1
    <3>2. top + 1 <= last
      BY <2>2, <3>1
    <3>3. last \in 1..Threshold /\ last \in 1..last
      BY <1>5, <2>1, <3>1, <3>2
    <3> QED
      BY <1>5, <2>2, <3>1, <3>2, <3>3
  <2>4. MixesDone' = Output(k)'.mixes
    BY <1>10, <2>1, <2>3
  <2>5. k - 1 = top
    BY <1>5, <1>10
  <2> QED
    BY <1>6, <1>11, <1>13, <2>4, <2>5
<1>15. Signatures' = Signatures \cup {<<k, o>>}
  <2>1. \A x \in Signatures : x \in Signatures'
    BY <1>1, <1>3, SignaturesStay
  <2>2. <<k, o>> \in Signatures'
    <3>1. /\ Len(board) + 1 \in Posted(board', "EGCryptograms")
          /\ board'[Len(board) + 1] = msg
      BY <1>1, PostedNext
    <3>2. SignedBy(k, o)'
      BY <1>2, <1>11, <3>1 DEF SignedBy
    <3> QED
      BY <1>1, <1>6, <1>11, <3>2, SignaturesReadNext
  <2>3. ASSUME NEW j \in Rounds, NEW t, <<j, t>> \in Signatures'
        PROVE  <<j, t>> \in Signatures
    <3>1. Len(Output(j).mixes) = j
      BY <1>1, <1>4, <1>5, MixedInTurn
    <3>2. Output(j) # msg.ciphertexts
      BY <1>6, <1>7, <3>1
    <3> QED
      BY <1>1, <1>3, <2>3, <3>2, NewSignatures
  <2>4. ASSUME NEW t, <<k, t>> \in Signatures'
        PROVE  t = o
    <3>1. SignedBy(k, t)'
      BY <1>1, <2>4, SignaturesReadNext
    <3>2. PICK i \in Posted(board', "EGCryptograms") :
             board'[i].ciphertexts = msg.ciphertexts /\ board'[i].signer = t
      BY <1>11, <3>1 DEF SignedBy
    <3>3. CASE i = Len(board) + 1
      BY <1>1, <1>2, <3>2, <3>3, PostedNext
    <3>4. CASE i # Len(board) + 1
      <4>1. i \in Posted(board, "EGCryptograms") /\ board'[i] = board[i]
        BY <1>1, <3>4, PostedNext
      <4>2. i \in DOMAIN board /\ board[i].type = "EGCryptograms"
        BY <4>1 DEF Posted
      <4>3. board[i] \in sent
        BY <1>1, <4>2 DEF Mixes, PostedWereSent, MixingPhase
      <4> DEFINE j == ActiveIndex(Active, board[i].originator)
      <4>4. /\ j \in 1..Threshold /\ Active[j] = board[i].originator
            /\ Len(board[i].ciphertexts.mixes) = j
        BY <1>1, <1>3, <1>4, <4>2, <4>3, MixLengths
      <4>5. j = k
        BY <1>6, <3>2, <4>1, <4>4
      <4>6. ~HasOutput(j)
        BY <1>0, <4>5 DEF o
      <4>7. board[i].signer = board[i].originator
        BY <1>1, <4>2, <4>3, <4>6 DEF InOrder
      <4> HIDE DEF j
      <4>8. i \in MixesOfRound(board, Active, j)
        BY <1>8, <4>1, <4>4, <4>7 DEF MixesOfRound
      <4>9. HasOutput(j)
        BY <1>1, <4>4, <4>8, RoundsRead
      <4> QED
        BY <4>6, <4>9
    <3> QED
      BY <3>3, <3>4
  <2>5. ASSUME NEW x \in Signatures'
        PROVE  x \in Signatures \cup {<<k, o>>}
    <3>1. PICK j, t : x = <<j, t>>
      BY <1>1, RoundsReadNext
    <3>2. j \in Rounds'
      BY <1>1, <3>1, SignaturesReadNext
    <3>3. j \in Rounds \/ j = k
      BY <1>11, <3>2
    <3> QED
      BY <2>3, <2>4, <3>1, <3>3
  <2> QED
    BY <2>1, <2>2, <2>5
<1>16. UNCHANGED <<Deals, ElectionKeys, SentDecryptions, SentBallots>> /\ ElectionKeys # {}
  BY <1>1, <1>2, ReadingsOfPosting, PostedKeys
<1>17. AnElectionCeremony!Mix(MyPlan)
  <2>1. MyPlan.active_trustees = Active /\ MyPlan.active_trustees[k] = o
    BY <1>6 DEF MyPlan
  <2>2. Len(MixesDone) + 1 = k /\ k \in DOMAIN MyPlan.active_trustees
    BY <1>6, <1>8, <1>10, <1>13, <2>1
  <2>3. k > 1 => AnElectionCeremony!AllSigned(MyPlan, k - 1)
    BY <1>2, <1>12 DEF AnElectionCeremony!AllSigned
  <2> QED
    BY <1>12, <1>14, <1>15, <1>16, <2>1, <2>2, <2>3 DEF AnElectionCeremony!Mix
<1> QED
  BY <1>12, <1>17 DEF AnElectionCeremony!Next

(* A mixer or another trustee signs what a round has put out: the ceremony *)
(* signs.  Anything else posted for a round that has put out is no mix.    *)
LEMMA CeremonySigns ==
    ASSUME Inv, Inv', UNCHANGED sent, NEW msg \in sent, msg.type = "EGCryptograms",
           Posts(msg), HasOutput(ActiveIndex(Active, msg.originator))
    PROVE  [AnElectionCeremony!Next]_(AnElectionCeremony!ceremonyVars)
<1> DEFINE o == msg.originator
<1>0. PICK k : k = ActiveIndex(Active, o)
  OBVIOUS
<1>1. /\ BoardOK /\ BoardOK' /\ Mixes /\ Mixes' /\ Threshold \in Nat
      /\ \A m \in sent : InOrder(m)
  BY TrusteesAssumption DEF Inv, Types, MixesInOrder
<1>2. msg.signer \in RangeOf(Active)
  BY <1>0, <1>1 DEF InOrder
<1>3. Initializations # {}
  BY <1>1, <1>2, NothingPosted
<1>4. PICK top : MixedUpTo(top)
  BY <1>1, <1>3, RoundsInTurn
<1>5. top \in Nat /\ Rounds = 1..top
  BY <1>1, <1>4 DEF MixedUpTo
<1>6. k \in 1..Threshold /\ Active[k] = o /\ Len(msg.ciphertexts.mixes) = k
  BY <1>0, <1>1, <1>3, <1>4, MixLengths
<1>7. k \in Rounds
  BY <1>0, <1>6 DEF Rounds
<1>8. \A j \in 1..Threshold : ActiveIndex(Active, Active[j]) = j
  BY <1>1, <1>3, ActiveTrustees
<1>9. Rounds' = Rounds
  <2>1. Rounds \subseteq 1..Threshold /\ Rounds' \subseteq 1..Threshold
    BY DEF Rounds
  <2>2. \A j \in 1..Threshold : j \in Rounds' => j \in Rounds \/ Active[j] = o
    BY <1>1, <1>3, NewRounds
  <2>3. \A j \in 1..Threshold : Active[j] = o => j = k
    BY <1>0, <1>8
  <2>4. \A j \in 1..Threshold : j \in Rounds => j \in Rounds'
    BY <1>1, <1>3, NewRounds
  <2> HIDE DEF o
  <2> QED
    BY <1>7, <2>1, <2>2, <2>3, <2>4
<1>10. /\ MixesDone' = MixesDone
       /\ \A x : x \in Signatures' <=>
             \/ x \in Signatures
             \/ \E j \in Rounds : msg.ciphertexts = Output(j) /\ x = <<j, msg.signer>>
  BY <1>1, <1>3, <1>9, RoundsUnchanged
<1>11. \A j \in Rounds : Len(Output(j).mixes) = j
  BY <1>1, <1>4, <1>5, MixedInTurn
<1>12. \A j \in Rounds : msg.ciphertexts = Output(j) => j = k
  BY <1>6, <1>11
<1>13. UNCHANGED <<Deals, ElectionKeys, SentDecryptions, SentBallots, MixingPlan>>
  BY <1>1, <1>3, ReadingsOfPosting, PlanStays
<1>14. CASE msg.ciphertexts = Output(k)
  <2>1. Signatures' = Signatures \cup {<<k, msg.signer>>}
    BY <1>7, <1>10, <1>12, <1>14
  <2>2. k \in DOMAIN MixesDone
    BY <1>1, <1>4, <1>5, <1>7, MixedInTurn
  <2>3. MixingPlan = {MyPlan} /\ msg.signer \in AnElectionCeremony!Mixers(MyPlan)
    BY <1>1, <1>2, <1>3, PlanIs
  <2>4. AnElectionCeremony!Sign(MyPlan)
    BY <1>10, <1>13, <2>1, <2>2, <2>3 DEF AnElectionCeremony!Sign
  <2> QED
    BY <2>3, <2>4 DEF AnElectionCeremony!Next
<1>15. CASE msg.ciphertexts # Output(k)
  <2>1. Signatures' = Signatures
    BY <1>10, <1>12, <1>15
  <2> QED
    BY <1>10, <1>13, <2>1 DEF AnElectionCeremony!ceremonyVars
<1> QED
  BY <1>14, <1>15

(* What is posted before mixing starts, or is no mix.                      *)
LEMMA MixingUnchanged ==
    ASSUME BoardOK, BoardOK', NEW msg, Posts(msg),
           IF Initializations = {} THEN msg.type # "MixInitialization"
           ELSE msg.type # "EGCryptograms"
    PROVE  UNCHANGED <<MixingPlan, MixesDone, Signatures>>
<1>1. CASE Initializations = {}
  <2>1. Initializations' = {}
    BY <1>1, PostedNext DEF Initializations
  <2> QED
    BY <1>1, <2>1, PlanRead, PlanReadNext
<1>2. CASE Initializations # {}
  <2>1. MixingPlan' = MixingPlan
    BY <1>2, PlanStays
  <2>2. Rounds' = Rounds
    <3>1. Rounds \subseteq 1..Threshold /\ Rounds' \subseteq 1..Threshold
      BY DEF Rounds
    <3>2. \A k \in 1..Threshold : k \in Rounds' <=> k \in Rounds
      BY <1>2, NewRounds
    <3> QED
      BY <3>1, <3>2
  <2>3. MixesDone' = MixesDone /\ \A x : x \in Signatures' <=> x \in Signatures
    BY <1>2, <2>2, RoundsUnchanged
  <2>4. Signatures' = Signatures
    <3>1. \A x \in Signatures' : x \in Signatures
      BY <2>3
    <3>2. \A x \in Signatures : x \in Signatures'
      BY <2>3
    <3> QED
      BY <3>1, <3>2
  <2> QED
    BY <2>1, <2>3, <2>4
<1> QED
  BY <1>1, <1>2

LEMMA CeremonyDeals ==
    ASSUME Inv, Inv', UNCHANGED sent, NEW msg, Posts(msg), Received(msg), msg.type = "KeyShares"
    PROVE  [AnElectionCeremony!Next]_(AnElectionCeremony!ceremonyVars)
<1>1. BoardOK /\ BoardOK' /\ Types /\ Keys /\ MessageOK(msg)
  BY PostedMessagesOK DEF Inv, Types
<1>2. tas_state = "AwaitingKeySharesMsgs" /\ msg \in sent
  BY DEF Received, Awaited
<1>3. ElectionKeys = {}
  BY <1>1, <1>2, NoKeyYet DEF ElectionKeys, MessagesOf
<1>4. /\ UNCHANGED <<ElectionKeys, SentDecryptions, SentBallots>>
      /\ Deals' = Deals \cup {<<msg.originator, msg.deal>>}
  BY <1>1, <1>2, ReadingsOfPosting
<1>5. UNCHANGED <<MixingPlan, MixesDone, Signatures>>
  BY <1>1, MixingUnchanged
<1>6. msg.originator \in Trustees /\ msg.deal \in 0..MaxRestarts
  BY <1>1 DEF MessageOK
<1>7. AnElectionCeremony!Deal
  BY <1>3, <1>4, <1>5, <1>6 DEF AnElectionCeremony!Deal
<1> QED
  BY <1>7 DEF AnElectionCeremony!Next

LEMMA CeremonyStartsMixing ==
    ASSUME Inv, Inv', UNCHANGED sent, NEW msg, Posts(msg), OfHost(msg),
           msg.type = "MixInitialization", Initializations = {}
    PROVE  [AnElectionCeremony!Next]_(AnElectionCeremony!ceremonyVars)
<1> DEFINE n == Len(board) + 1
<1>1. BoardOK /\ BoardOK' /\ Mixes /\ ceremony \in Ceremonies
  BY DEF Inv, Types, ConstantsOK
<1>2. PICK p \in ceremony.mixing : msg = MixInitializationMsg(p.active_trustees, p.ballots)
  BY DEF OfHost, SetupMsg
<1>3. Plan(msg) = Plan(p)
  BY <1>2 DEF MixInitializationMsg, Plan
<1>4. Initializations' = {n} /\ board'[n] = msg
  BY <1>1, PostedNext DEF Initializations
<1>5. MixingPlan' = {Plan(msg)}
  <2>1. First({n}) = n
    <3>1. n \in Nat
      BY <1>1, BoardIs
    <3> HIDE DEF n
    <3> QED
      BY <3>1, FirstIs
  <2> HIDE DEF n
  <2>2. {n} # {} /\ {{n}} \ {{}} = {{n}}
    OBVIOUS
  <2>3. MixingPlan' = {Plan(board'[i]) : i \in {First(S) : S \in {Initializations'} \ {{}}}}
    BY DEF MixingPlan, Initializations
  <2>4. {First(S) : S \in {Initializations'} \ {{}}} = {n}
    BY <1>4, <2>1, <2>2
  <2>5. MixingPlan' = {Plan(board'[i]) : i \in {n}}
    BY <2>3, <2>4
  <2> QED
    BY <1>4, <2>5
<1>6. RangeOf(Active) = {} /\ MixingPlan = {} /\ MixesDone = << >> /\ Signatures = {}
  BY <1>1, NothingPosted
<1>7. Posted(board, "EGCryptograms") = {}
  <2> SUFFICES ASSUME NEW i \in Posted(board, "EGCryptograms") PROVE FALSE
    OBVIOUS
  <2>1. i \in DOMAIN board /\ board[i].type = "EGCryptograms"
    BY DEF Posted
  <2>2. board[i] \in sent
    BY <1>1, <2>1 DEF Mixes, PostedWereSent, MixingPhase
  <2>3. board[i].originator \in RangeOf(Active)
    BY <1>1, <2>1, <2>2 DEF Mixes, IsMix
  <2> QED
    BY <1>6, <2>3
<1>8. Posted(board', "EGCryptograms") = {}
  BY <1>1, <1>7, PostedNext
<1>9. Rounds' = {}
  <2>1. \A k \in 1..Threshold : MixesOfRound(board, Active, k)' = {}
    BY <1>8 DEF MixesOfRound
  <2>2. \A k \in 1..Threshold : ~HasOutput(k)'
    BY <1>1, <2>1, RoundsReadNext
  <2> QED
    BY <2>2 DEF Rounds
<1>10. MixesDone' = MixesDone /\ Signatures' = Signatures
  BY <1>1, <1>6, <1>9, RoundsReadNext
<1>11. UNCHANGED <<Deals, ElectionKeys, SentDecryptions, SentBallots>>
  BY <1>1, ReadingsOfPosting
<1>12. Plan(p) \in {Plan(q) : q \in UNION {c.mixing : c \in Ceremonies}}
  BY <1>1
<1>13. AnElectionCeremony!StartMixing
  BY <1>3, <1>5, <1>6, <1>10, <1>11, <1>12 DEF AnElectionCeremony!StartMixing
<1> QED
  BY <1>13 DEF AnElectionCeremony!Next

LEMMA CeremonyOfPosting ==
    ASSUME Inv, Inv', UNCHANGED sent, NEW msg, Posts(msg), Received(msg) \/ OfHost(msg)
    PROVE  [AnElectionCeremony!Next]_(AnElectionCeremony!ceremonyVars)
<1>1. BoardOK /\ BoardOK'
  BY DEF Inv, Types
<1>2. OfHost(msg) => msg.type \in {"Setup", "MixInitialization"}
  BY DEF OfHost, SetupMsg, MixInitializationMsg
<1>3. /\ Received(msg) => msg \in sent /\ msg.type # "MixInitialization"
      /\ msg.type \in {"KeyShares", "EGCryptograms", "ElectionPublicKey"} => Received(msg)
  BY <1>2 DEF Received
<1>4. CASE msg.type = "KeyShares"
  BY <1>3, <1>4, CeremonyDeals
<1>5. CASE msg.type = "EGCryptograms"
  BY <1>3, <1>5, CeremonyMixes, CeremonySigns
<1>6. CASE msg.type = "MixInitialization" /\ Initializations = {}
  BY <1>3, <1>6, CeremonyStartsMixing
<1>7. CASE /\ msg.type \notin {"KeyShares", "EGCryptograms"}
           /\ msg.type = "MixInitialization" => Initializations # {}
  <2>1. UNCHANGED <<Deals, ElectionKeys, SentDecryptions, SentBallots>>
    BY <1>1, <1>3, <1>7, ReadingsOfPosting
  <2>2. UNCHANGED <<MixingPlan, MixesDone, Signatures>>
    BY <1>1, <1>7, MixingUnchanged
  <2> QED
    BY <2>1, <2>2 DEF AnElectionCeremony!ceremonyVars
<1> QED
  BY <1>4, <1>5, <1>6, <1>7

LEMMA CeremonyUnchanged ==
    ASSUME UNCHANGED <<board, sent>>
    PROVE  UNCHANGED AnElectionCeremony!ceremonyVars
<1>1. UNCHANGED <<Deals, MixingPlan, MixesDone, Signatures>>
  BY BoardReadings
<1>2. UNCHANGED <<ElectionKeys, SentDecryptions, SentBallots>>
  BY DEF ElectionKeys, SentDecryptions, SentBallots, MessagesOf
<1> QED
  BY <1>1, <1>2 DEF AnElectionCeremony!ceremonyVars

LEMMA CeremonyStep ==
    Inv /\ Inv' /\ [Next]_vars => [AnElectionCeremony!Next]_(AnElectionCeremony!ceremonyVars)
<1> SUFFICES ASSUME Inv, Inv', [Next]_vars
             PROVE  [AnElectionCeremony!Next]_(AnElectionCeremony!ceremonyVars)
  OBVIOUS
<1>1. CASE UNCHANGED vars
  BY <1>1, CeremonyUnchanged DEF vars, tasVars, trusteeVars
<1>2. CASE TASStep
  <2>1. /\ UNCHANGED sent
        /\ board' = board \/ \E msg : Posts(msg) /\ (Received(msg) \/ OfHost(msg))
    BY <1>2, TASSteps DEF Inv, trusteeVars
  <2>2. CASE board' = board
    BY <2>1, <2>2, CeremonyUnchanged
  <2>3. CASE \E msg : Posts(msg) /\ (Received(msg) \/ OfHost(msg))
    BY <2>1, <2>3, CeremonyOfPosting
  <2> QED
    BY <2>1, <2>2, <2>3
<1>3. CASE \E t \in Trustees : TrusteeStep(t)
  BY <1>3, CeremonyOfTrustee
<1> QED
  BY <1>1, <1>2, <1>3 DEF Next, TASStep, TrusteeStep

-------------------------------------------------------------------------------
(* A first start is the start of a ceremony, before or after its key.      *)
LEMMA CeremonyInit == Init => AnElectionCeremony!Init
<1> SUFFICES ASSUME Init PROVE AnElectionCeremony!Init
  OBVIOUS
<1> DEFINE start_from == ceremony.start_from
<1>1. start_from \in {"nothing", "setup", "keygen"}
  BY TrusteeProtocolAssumption DEF Init
<1>2. board = InitialBoard(start_from) /\ sent = {}
  BY DEF Init, TASInit, TrusteeInit
<1>3. Types /\ BoardOK /\ Keys
  BY TypesInit, KeysInit DEF Types
<1>4. \A i \in DOMAIN board : KeyGenMessage(board[i])
  <2> HIDE DEF start_from
  <2> QED
    BY <1>1, <1>2, InitialBoardIs
<1>5. MixingPlan = {} /\ MixesDone = << >> /\ Signatures = {}
  <2>1. Initializations = {}
    BY <1>4 DEF Initializations, Posted, KeyGenMessage
  <2> QED
    BY <1>3, <2>1, PlanRead
<1>6. SentDecryptions = {} /\ SentBallots = {}
  BY <1>2 DEF SentDecryptions, SentBallots, MessagesOf
<1>7. CASE ElectionKeys # {}
  <2>1. \E key \in [Trustees -> 0..MaxRestarts] :
           ElectionKeys = {key} /\ Deals = AnElectionCeremony!DealsOfKey(key)
    BY <1>3, <1>7, OneKey
  <2> QED
    BY <1>5, <1>6, <2>1 DEF AnElectionCeremony!Init
<1>8. CASE ElectionKeys = {}
  <2>1. start_from # "keygen"
    <3> SUFFICES ASSUME start_from = "keygen" PROVE FALSE
      OBVIOUS
    <3>1. board = KeyGenBoard
      BY <1>2 DEF InitialBoard
    <3>2. /\ 1 \in Trustees /\ NumTrustees \in Nat
          /\ 2 * NumTrustees + 1 + 1 \in 1..3 * NumTrustees + 1
      BY TrusteesAssumption DEF Trustees
    <3>3. board[2 * NumTrustees + 1 + 1] = ElectionPublicKeyMsg(1, FirstKey)
      BY <3>1, <3>2, KeyGenBoardIs
    <3>4. 2 * NumTrustees + 1 + 1 \in DOMAIN board
      BY <3>1, <3>2, KeyGenBoardIs
    <3>5. KeyPosted
      BY <3>3, <3>4 DEF KeyPosted, ElectionPublicKeyMsg
    <3> QED
      BY <1>8, <3>5, PostedKeys
  <2>2. \A i \in DOMAIN board : board[i].type = "Setup"
    <3>1. CASE start_from = "nothing"
      <4>1. board = << >>
        BY <1>2, <3>1 DEF InitialBoard
      <4>2. DOMAIN << >> = {}
        OBVIOUS
      <4> QED
        BY <4>1, <4>2
    <3>2. CASE start_from = "setup"
      BY <1>2, <3>2, SetupBoardIs DEF InitialBoard, SetupMsg
    <3> QED
      BY <1>1, <2>1, <3>1, <3>2
  <2>3. Deals = {}
    BY <2>2 DEF Deals, Posted
  <2> QED
    BY <1>5, <1>6, <1>8, <2>3 DEF AnElectionCeremony!Init
<1> QED
  BY <1>7, <1>8

(* The TAS and the trustees, with their boards, updates, restarts, stops,  *)
(* lost and spoiled messages, carry out an election ceremony: every step   *)
(* of theirs deals, agrees on the one key, starts mixing, mixes in turn,   *)
(* signs, decrypts what all have mixed and signed, publishes that, or      *)
(* leaves the ceremony as it was.                                          *)
THEOREM CeremonyImplemented == Spec => ImplementsCeremony
<1>1. Inv /\ Inv' /\ [Next]_vars
         => [AnElectionCeremony!Next]_(AnElectionCeremony!ceremonyVars)
  BY CeremonyStep
<1>2. Spec => []Inv
  BY AlwaysTypes, AlwaysKeys, AlwaysMixes, AlwaysInOrder, PTL DEF Inv
<1> QED
  BY <1>1, <1>2, CeremonyInit, PTL DEF Spec, ImplementsCeremony, AnElectionCeremony!Spec

-------------------------------------------------------------------------------
(* The script of a ceremony in which nothing goes wrong.                   *)

(* The messages of a ceremony with one mixing of ballots b, if nobody      *)
(* restarts: there is one of each kind, trustee and round.                 *)
Mixers == 1..Threshold
Identity == [k \in Mixers |-> k]
MixOf(b, k) == Ciphertexts(b, [j \in 1..k |-> <<j, 0>>])

Dealt(t) == KeySharesMsg(t, 0)
Joint(t) == ElectionPublicKeyMsg(t, FirstKey)
Opening(b) == MixInitializationMsg(Identity, b)
MixMsg(b, k, s) == EGCryptogramsMsg(k, s, MixOf(b, k))
Factors(b, s) == PartialDecryptionsMsg(s, MixOf(b, Threshold), 0)
Plain(b, s) == DecryptedBallotsMsg(s, MixOf(b, Threshold))

Scripted(b, m) ==
    \/ \E s \in TrusteeList : m = SetupMsg(s)
    \/ \E t \in Trustees : m = Dealt(t) \/ m = Joint(t)
    \/ m = Opening(b)
    \/ \E k, s \in Mixers : m = MixMsg(b, k, s)
    \/ \E s \in Mixers : m = Factors(b, s) \/ m = Plain(b, s)

(* The messages that a message is sent or posted after.                    *)
Needs(b, m) ==
    CASE m.type = "ElectionPublicKey" -> {Dealt(t) : t \in Trustees}
      [] m.type = "MixInitialization" -> {Joint(t) : t \in Trustees}
      [] m.type = "EGCryptograms" ->
            {Opening(b)} \cup {MixMsg(b, k, s) : k \in 1..m.originator - 1, s \in Mixers}
               \cup ({MixMsg(b, m.originator, m.originator)} \ {m})
      [] m.type = "PartialDecryptions" -> {MixMsg(b, k, s) : k, s \in Mixers}
      [] m.type = "DecryptedBallots" -> {Factors(b, s) : s \in Mixers}
      [] m.type \in {"Setup", "KeyShares"} -> {}

LEMMA NeedsAre ==
    ASSUME NEW b
    PROVE  /\ \A s : Needs(b, SetupMsg(s)) = {}
           /\ \A t : Needs(b, Dealt(t)) = {}
           /\ \A t, n : n \in Needs(b, Joint(t)) <=> \E u \in Trustees : n = Dealt(u)
           /\ \A n : n \in Needs(b, Opening(b)) <=> \E u \in Trustees : n = Joint(u)
           /\ \A s, n : n \in Needs(b, Factors(b, s)) <=>
                 \E j, u \in Mixers : n = MixMsg(b, j, u)
           /\ \A s, n : n \in Needs(b, Plain(b, s)) <=> \E u \in Mixers : n = Factors(b, u)
<1>1. \A s : Needs(b, SetupMsg(s)) = {}
  <2>1. \A s : SetupMsg(s).type = "Setup"
    BY DEF SetupMsg
  <2> QED
    BY <2>1 DEF Needs
<1>2. \A t : Needs(b, Dealt(t)) = {}
  <2>1. \A t : Dealt(t).type = "KeyShares"
    BY DEF Dealt, KeySharesMsg
  <2> QED
    BY <2>1 DEF Needs
<1>3. \A t, n : n \in Needs(b, Joint(t)) <=> \E u \in Trustees : n = Dealt(u)
  <2>1. \A t : Joint(t).type = "ElectionPublicKey"
    BY DEF Joint, ElectionPublicKeyMsg
  <2>2. \A t : Needs(b, Joint(t)) = {Dealt(u) : u \in Trustees}
    BY <2>1 DEF Needs
  <2> QED
    BY <2>2
<1>4. \A n : n \in Needs(b, Opening(b)) <=> \E u \in Trustees : n = Joint(u)
  <2>1. Opening(b).type = "MixInitialization"
    BY DEF Opening, MixInitializationMsg
  <2>2. Needs(b, Opening(b)) = {Joint(u) : u \in Trustees}
    BY <2>1 DEF Needs
  <2> QED
    BY <2>2
<1>5. \A s, n : n \in Needs(b, Factors(b, s)) <=>
         \E j, u \in Mixers : n = MixMsg(b, j, u)
  <2>1. \A s : Factors(b, s).type = "PartialDecryptions"
    BY DEF Factors, PartialDecryptionsMsg
  <2>2. \A s : Needs(b, Factors(b, s)) = {MixMsg(b, j, u) : j, u \in Mixers}
    BY <2>1 DEF Needs
  <2> QED
    BY <2>2
<1>6. \A s, n : n \in Needs(b, Plain(b, s)) <=> \E u \in Mixers : n = Factors(b, u)
  <2>1. \A s : Plain(b, s).type = "DecryptedBallots"
    BY DEF Plain, DecryptedBallotsMsg
  <2>2. \A s : Needs(b, Plain(b, s)) = {Factors(b, u) : u \in Mixers}
    BY <2>1 DEF Needs
  <2> QED
    BY <2>2
<1> QED
  BY <1>1, <1>2, <1>3, <1>4, <1>5, <1>6

LEMMA NeedsOfMix ==
    ASSUME NEW b, NEW k, NEW s, NEW n
    PROVE  n \in Needs(b, MixMsg(b, k, s)) <=>
              \/ n = Opening(b)
              \/ \E j \in 1..k - 1, u \in Mixers : n = MixMsg(b, j, u)
              \/ n = MixMsg(b, k, k) /\ n # MixMsg(b, k, s)
<1>1. MixMsg(b, k, s).type = "EGCryptograms" /\ MixMsg(b, k, s).originator = k
  BY DEF MixMsg, EGCryptogramsMsg
<1>2. Needs(b, MixMsg(b, k, s)) =
         {Opening(b)} \cup {MixMsg(b, j, u) : j \in 1..k - 1, u \in Mixers}
            \cup ({MixMsg(b, k, k)} \ {MixMsg(b, k, s)})
  BY <1>1 DEF Needs
<1> QED
  BY <1>2

(* The messages differ, and the mixes do.                                  *)
LEMMA MixesDiffer ==
    ASSUME NEW b, NEW j \in Nat, NEW k \in Nat, MixOf(b, j) = MixOf(b, k)
    PROVE  j = k
<1>1. \A n : DOMAIN MixOf(b, n).mixes = 1..n
  BY DEF MixOf, Ciphertexts
<1>2. 1..j = 1..k
  BY <1>1
<1>3. j > 0 => j \in 1..j
  OBVIOUS
<1>4. k > 0 => k \in 1..k
  OBVIOUS
<1> QED
  BY <1>2, <1>3, <1>4

(* A scripted message, by its type.                                        *)
LEMMA MessageFields ==
    ASSUME NEW b
    PROVE  /\ \A s : SetupMsg(s).type = "Setup" /\ SetupMsg(s).signer = s
           /\ \A t : /\ Dealt(t).type = "KeyShares" /\ Dealt(t).originator = t
                     /\ Dealt(t).signer = t /\ Dealt(t).deal = 0
           /\ \A t : /\ Joint(t).type = "ElectionPublicKey" /\ Joint(t).originator = t
                     /\ Joint(t).signer = t /\ Joint(t).key = FirstKey
           /\ Opening(b).type = "MixInitialization"
           /\ Opening(b).active_trustees = Identity /\ Opening(b).ballots = b
           /\ \A k, s : /\ MixMsg(b, k, s).type = "EGCryptograms"
                        /\ MixMsg(b, k, s).originator = k /\ MixMsg(b, k, s).signer = s
                        /\ MixMsg(b, k, s).ciphertexts = MixOf(b, k)
           /\ \A s : /\ Factors(b, s).type = "PartialDecryptions"
                     /\ Factors(b, s).originator = s /\ Factors(b, s).signer = s
                     /\ Factors(b, s).factors_of = MixOf(b, Threshold)
                     /\ Factors(b, s).proofs = 0
           /\ \A s : /\ Plain(b, s).type = "DecryptedBallots"
                     /\ Plain(b, s).originator = s /\ Plain(b, s).signer = s
                     /\ Plain(b, s).plaintexts_of = MixOf(b, Threshold)
<1>1. \A s : SetupMsg(s).type = "Setup" /\ SetupMsg(s).signer = s
  BY DEF SetupMsg
<1>2. \A t : /\ Dealt(t).type = "KeyShares" /\ Dealt(t).originator = t
             /\ Dealt(t).signer = t /\ Dealt(t).deal = 0
  BY DEF Dealt, KeySharesMsg
<1>3. \A t : /\ Joint(t).type = "ElectionPublicKey" /\ Joint(t).originator = t
             /\ Joint(t).signer = t /\ Joint(t).key = FirstKey
  BY DEF Joint, ElectionPublicKeyMsg
<1>4. /\ Opening(b).type = "MixInitialization"
      /\ Opening(b).active_trustees = Identity /\ Opening(b).ballots = b
  BY DEF Opening, MixInitializationMsg
<1>5. \A k, s : /\ MixMsg(b, k, s).type = "EGCryptograms"
                /\ MixMsg(b, k, s).originator = k /\ MixMsg(b, k, s).signer = s
                /\ MixMsg(b, k, s).ciphertexts = MixOf(b, k)
  BY DEF MixMsg, EGCryptogramsMsg
<1>6. \A s : /\ Factors(b, s).type = "PartialDecryptions"
             /\ Factors(b, s).originator = s /\ Factors(b, s).signer = s
             /\ Factors(b, s).factors_of = MixOf(b, Threshold)
             /\ Factors(b, s).proofs = 0
  BY DEF Factors, PartialDecryptionsMsg
<1>7. \A s : /\ Plain(b, s).type = "DecryptedBallots"
             /\ Plain(b, s).originator = s /\ Plain(b, s).signer = s
             /\ Plain(b, s).plaintexts_of = MixOf(b, Threshold)
  BY DEF Plain, DecryptedBallotsMsg
<1> QED
  BY <1>1, <1>2, <1>3, <1>4, <1>5, <1>6, <1>7

LEMMA ScriptedByType ==
    ASSUME NEW b, NEW m, Scripted(b, m)
    PROVE  /\ m.type = "Setup" => m.signer \in TrusteeList /\ m = SetupMsg(m.signer)
           /\ m.type = "KeyShares" => m.signer \in Trustees /\ m = Dealt(m.signer)
           /\ m.type = "ElectionPublicKey" => m.signer \in Trustees /\ m = Joint(m.signer)
           /\ m.type = "MixInitialization" => m = Opening(b)
           /\ m.type = "EGCryptograms" =>
                 /\ m.originator \in Mixers /\ m.signer \in Mixers
                 /\ m = MixMsg(b, m.originator, m.signer)
           /\ m.type = "PartialDecryptions" =>
                 m.signer \in Mixers /\ m = Factors(b, m.signer)
           /\ m.type = "DecryptedBallots" => m.signer \in Mixers /\ m = Plain(b, m.signer)
           /\ m.type \in MessageTypes
<1> DEFINE Goal ==
           /\ m.type = "Setup" => m.signer \in TrusteeList /\ m = SetupMsg(m.signer)
           /\ m.type = "KeyShares" => m.signer \in Trustees /\ m = Dealt(m.signer)
           /\ m.type = "ElectionPublicKey" => m.signer \in Trustees /\ m = Joint(m.signer)
           /\ m.type = "MixInitialization" => m = Opening(b)
           /\ m.type = "EGCryptograms" =>
                 /\ m.originator \in Mixers /\ m.signer \in Mixers
                 /\ m = MixMsg(b, m.originator, m.signer)
           /\ m.type = "PartialDecryptions" =>
                 m.signer \in Mixers /\ m = Factors(b, m.signer)
           /\ m.type = "DecryptedBallots" => m.signer \in Mixers /\ m = Plain(b, m.signer)
           /\ m.type \in MessageTypes
<1>1. ASSUME NEW s \in TrusteeList, m = SetupMsg(s) PROVE Goal
  <2>1. m.type = "Setup" /\ m.signer = s
    BY <1>1, MessageFields
  <2> QED
    BY <1>1, <2>1 DEF MessageTypes
<1>2. ASSUME NEW t \in Trustees, m = Dealt(t) PROVE Goal
  <2>1. m.type = "KeyShares" /\ m.signer = t
    BY <1>2, MessageFields
  <2> QED
    BY <1>2, <2>1 DEF MessageTypes
<1>3. ASSUME NEW t \in Trustees, m = Joint(t) PROVE Goal
  <2>1. m.type = "ElectionPublicKey" /\ m.signer = t
    BY <1>3, MessageFields
  <2> QED
    BY <1>3, <2>1 DEF MessageTypes
<1>4. ASSUME m = Opening(b) PROVE Goal
  <2>1. m.type = "MixInitialization"
    BY <1>4, MessageFields
  <2> QED
    BY <1>4, <2>1 DEF MessageTypes
<1>5. ASSUME NEW k \in Mixers, NEW s \in Mixers, m = MixMsg(b, k, s) PROVE Goal
  <2>1. \A j, u : /\ MixMsg(b, j, u).type = "EGCryptograms"
                  /\ MixMsg(b, j, u).originator = j /\ MixMsg(b, j, u).signer = u
    BY DEF MixMsg, EGCryptogramsMsg
  <2>2. m.type = "EGCryptograms" /\ m.originator = k /\ m.signer = s
    BY <1>5, <2>1
  <2> QED
    BY <1>5, <2>2 DEF MessageTypes
<1>6. ASSUME NEW s \in Mixers, m = Factors(b, s) PROVE Goal
  <2>1. m.type = "PartialDecryptions" /\ m.signer = s
    BY <1>6, MessageFields
  <2> QED
    BY <1>6, <2>1 DEF MessageTypes
<1>7. ASSUME NEW s \in Mixers, m = Plain(b, s) PROVE Goal
  <2>1. m.type = "DecryptedBallots" /\ m.signer = s
    BY <1>7, MessageFields
  <2> QED
    BY <1>7, <2>1 DEF MessageTypes
<1> HIDE DEF Goal
<1>8. \/ \E s \in TrusteeList : m = SetupMsg(s)
      \/ \E t \in Trustees : m = Dealt(t)
      \/ \E t \in Trustees : m = Joint(t)
      \/ m = Opening(b)
      \/ \E k, s \in Mixers : m = MixMsg(b, k, s)
      \/ \E s \in Mixers : m = Factors(b, s)
      \/ \E s \in Mixers : m = Plain(b, s)
  BY DEF Scripted
<1>9. Goal
  BY <1>1, <1>2, <1>3, <1>4, <1>5, <1>6, <1>7, <1>8
<1> QED
  BY <1>9 DEF Goal

-------------------------------------------------------------------------------
(* The facts that scripted messages give.                                  *)

ValidFact(s) == [fact |-> "ConfigurationValid", sender |-> s]
SharesFact(t) == [fact |-> "Shares", shares |-> <<t, 0>>, sender |-> t]
KeyFact(t) == [fact |-> "PublicKey", pk |-> FirstKey, sender |-> t]
BallotsFact(b) ==
    [fact |-> "Ballots", pk |-> FirstKey, ciphertexts |-> MixOf(b, 0),
     mixing_trustees |-> Identity]
MixFact(b, k, s) ==
    [fact |-> IF k = s THEN "Mix" ELSE "MixSignature", pk |-> FirstKey,
     in |-> MixOf(b, k - 1), out |-> MixOf(b, k), sender |-> s]
FactorsFact(b, s) ==
    [fact |-> "PartialDecryptions", pk |-> FirstKey, in |-> MixOf(b, Threshold),
     decryptions |-> <<s, MixOf(b, Threshold), 0>>, sender |-> s]
PlainFact(b, s) ==
    [fact |-> "Plaintexts", pk |-> FirstKey, in |-> MixOf(b, Threshold),
     plaintexts |-> MixOf(b, Threshold), sender |-> s]

(* M are the facts of the messages S.                                      *)
Reported(b, M, S) ==
    \A m : m \in M <=>
        \/ \E s \in TrusteeList : SetupMsg(s) \in S /\ m = ValidFact(s)
        \/ \E t \in Trustees : Dealt(t) \in S /\ m = SharesFact(t)
        \/ \E t \in Trustees : Joint(t) \in S /\ m = KeyFact(t)
        \/ Opening(b) \in S /\ m = BallotsFact(b)
        \/ \E k, s \in Mixers : MixMsg(b, k, s) \in S /\ m = MixFact(b, k, s)
        \/ \E s \in Mixers : Factors(b, s) \in S /\ m = FactorsFact(b, s)
        \/ \E s \in Mixers : Plain(b, s) \in S /\ m = PlainFact(b, s)

(* No message without those it is sent after.                              *)
Closed(b, S) ==
    /\ \A s \in TrusteeList : SetupMsg(s) \in S
    /\ \A m \in S : Scripted(b, m) /\ Needs(b, m) \subseteq S

LEMMA NeedsMean ==
    ASSUME NEW b, NEW S, \A m \in S : Needs(b, m) \subseteq S
    PROVE  /\ \A t \in Trustees : Joint(t) \in S => \A u \in Trustees : Dealt(u) \in S
           /\ Opening(b) \in S => \A u \in Trustees : Joint(u) \in S /\ Dealt(u) \in S
           /\ \A k, s \in Mixers : MixMsg(b, k, s) \in S =>
                 /\ Opening(b) \in S
                 /\ MixMsg(b, k, k) \in S
                 /\ \A j \in 1..k - 1 : \A u \in Mixers : MixMsg(b, j, u) \in S
           /\ \A s \in Mixers : Factors(b, s) \in S =>
                 Opening(b) \in S /\ \A j, u \in Mixers : MixMsg(b, j, u) \in S
           /\ \A s \in Mixers : Plain(b, s) \in S => \A u \in Mixers : Factors(b, u) \in S
<1>1. \A m \in S : Needs(b, m) \subseteq S
  OBVIOUS
<1>2. \A t \in Trustees : Joint(t) \in S => \A u \in Trustees : Dealt(u) \in S
  <2>1. \A t, n : n \in Needs(b, Joint(t)) <=> \E u \in Trustees : n = Dealt(u)
    BY NeedsAre
  <2> QED
    BY <1>1, <2>1
<1>3. 1 \in Trustees /\ 1 \in Mixers
  BY TrusteesAssumption DEF Trustees, Mixers
<1>4. Opening(b) \in S => \A u \in Trustees : Joint(u) \in S
  <2>1. \A n : n \in Needs(b, Opening(b)) <=> \E u \in Trustees : n = Joint(u)
    BY NeedsAre
  <2> QED
    BY <1>1, <2>1
<1>5. \A k, s \in Mixers : MixMsg(b, k, s) \in S =>
         /\ Opening(b) \in S
         /\ MixMsg(b, k, k) \in S
         /\ \A j \in 1..k - 1 : \A u \in Mixers : MixMsg(b, j, u) \in S
  <2> SUFFICES ASSUME NEW k \in Mixers, NEW s \in Mixers, MixMsg(b, k, s) \in S
               PROVE  /\ Opening(b) \in S
                      /\ MixMsg(b, k, k) \in S
                      /\ \A j \in 1..k - 1 : \A u \in Mixers : MixMsg(b, j, u) \in S
    OBVIOUS
  <2>1. \A n : n \in Needs(b, MixMsg(b, k, s)) <=>
           \/ n = Opening(b)
           \/ \E j \in 1..k - 1, u \in Mixers : n = MixMsg(b, j, u)
           \/ n = MixMsg(b, k, k) /\ n # MixMsg(b, k, s)
    BY NeedsOfMix
  <2> QED
    BY <1>1, <2>1
<1>6. \A s \in Mixers : Factors(b, s) \in S => \A j, u \in Mixers : MixMsg(b, j, u) \in S
  <2>1. \A s, n : n \in Needs(b, Factors(b, s)) <=>
           \E j, u \in Mixers : n = MixMsg(b, j, u)
    BY NeedsAre
  <2> QED
    BY <1>1, <2>1
<1>7. \A s \in Mixers : Plain(b, s) \in S => \A u \in Mixers : Factors(b, u) \in S
  <2>1. \A s, n : n \in Needs(b, Plain(b, s)) <=> \E u \in Mixers : n = Factors(b, u)
    BY NeedsAre
  <2> QED
    BY <1>1, <2>1
<1> QED
  BY <1>2, <1>3, <1>4, <1>5, <1>6, <1>7

LEMMA ClosedMeans ==
    ASSUME NEW b, NEW S, Closed(b, S)
    PROVE  /\ \A t \in Trustees : Joint(t) \in S => \A u \in Trustees : Dealt(u) \in S
           /\ Opening(b) \in S => \A u \in Trustees : Joint(u) \in S /\ Dealt(u) \in S
           /\ \A k, s \in Mixers : MixMsg(b, k, s) \in S =>
                 /\ Opening(b) \in S
                 /\ MixMsg(b, k, k) \in S
                 /\ \A j \in 1..k - 1 : \A u \in Mixers : MixMsg(b, j, u) \in S
           /\ \A s \in Mixers : Factors(b, s) \in S =>
                 Opening(b) \in S /\ \A j, u \in Mixers : MixMsg(b, j, u) \in S
           /\ \A s \in Mixers : Plain(b, s) \in S => \A u \in Mixers : Factors(b, u) \in S
  BY NeedsMean DEF Closed

LEMMA FactFields ==
    ASSUME NEW b
    PROVE  /\ \A s : ValidFact(s).fact = "ConfigurationValid" /\ ValidFact(s).sender = s
           /\ \A t : /\ SharesFact(t).fact = "Shares" /\ SharesFact(t).sender = t
                     /\ SharesFact(t).shares = <<t, 0>>
           /\ \A t : /\ KeyFact(t).fact = "PublicKey" /\ KeyFact(t).sender = t
                     /\ KeyFact(t).pk = FirstKey
           /\ BallotsFact(b).fact = "Ballots" /\ BallotsFact(b).pk = FirstKey
           /\ BallotsFact(b).ciphertexts = MixOf(b, 0)
           /\ BallotsFact(b).mixing_trustees = Identity
           /\ \A k, s : /\ MixFact(b, k, s).fact = IF k = s THEN "Mix" ELSE "MixSignature"
                        /\ MixFact(b, k, s).pk = FirstKey /\ MixFact(b, k, s).sender = s
                        /\ MixFact(b, k, s).in = MixOf(b, k - 1)
                        /\ MixFact(b, k, s).out = MixOf(b, k)
           /\ \A s : /\ FactorsFact(b, s).fact = "PartialDecryptions"
                     /\ FactorsFact(b, s).pk = FirstKey /\ FactorsFact(b, s).sender = s
                     /\ FactorsFact(b, s).in = MixOf(b, Threshold)
                     /\ FactorsFact(b, s).decryptions = <<s, MixOf(b, Threshold), 0>>
           /\ \A s : /\ PlainFact(b, s).fact = "Plaintexts"
                     /\ PlainFact(b, s).pk = FirstKey /\ PlainFact(b, s).sender = s
                     /\ PlainFact(b, s).in = MixOf(b, Threshold)
                     /\ PlainFact(b, s).plaintexts = MixOf(b, Threshold)
<1>1. \A s : ValidFact(s).fact = "ConfigurationValid" /\ ValidFact(s).sender = s
  BY DEF ValidFact
<1>2. \A t : /\ SharesFact(t).fact = "Shares" /\ SharesFact(t).sender = t
             /\ SharesFact(t).shares = <<t, 0>>
  BY DEF SharesFact
<1>3. \A t : /\ KeyFact(t).fact = "PublicKey" /\ KeyFact(t).sender = t
             /\ KeyFact(t).pk = FirstKey
  BY DEF KeyFact
<1>4. /\ BallotsFact(b).fact = "Ballots" /\ BallotsFact(b).pk = FirstKey
      /\ BallotsFact(b).ciphertexts = MixOf(b, 0)
      /\ BallotsFact(b).mixing_trustees = Identity
  BY DEF BallotsFact
<1>5. \A k, s : /\ MixFact(b, k, s).fact = IF k = s THEN "Mix" ELSE "MixSignature"
                /\ MixFact(b, k, s).pk = FirstKey /\ MixFact(b, k, s).sender = s
                /\ MixFact(b, k, s).in = MixOf(b, k - 1)
                /\ MixFact(b, k, s).out = MixOf(b, k)
  BY DEF MixFact
<1>6. \A s : /\ FactorsFact(b, s).fact = "PartialDecryptions"
             /\ FactorsFact(b, s).pk = FirstKey /\ FactorsFact(b, s).sender = s
             /\ FactorsFact(b, s).in = MixOf(b, Threshold)
             /\ FactorsFact(b, s).decryptions = <<s, MixOf(b, Threshold), 0>>
  BY DEF FactorsFact
<1>7. \A s : /\ PlainFact(b, s).fact = "Plaintexts"
             /\ PlainFact(b, s).pk = FirstKey /\ PlainFact(b, s).sender = s
             /\ PlainFact(b, s).in = MixOf(b, Threshold)
             /\ PlainFact(b, s).plaintexts = MixOf(b, Threshold)
  BY DEF PlainFact
<1> QED
  BY <1>1, <1>2, <1>3, <1>4, <1>5, <1>6, <1>7

(* The facts of each kind.                                                 *)
KindsOf(b, M, S) ==
    /\ \A m \in M : m.fact \in {"ConfigurationValid", "Shares", "PublicKey", "Ballots", "Mix",
                                "MixSignature", "PartialDecryptions", "Plaintexts"}
    /\ \A m : m \in Facts(M, "ConfigurationValid") <=>
                 \E s \in TrusteeList : SetupMsg(s) \in S /\ m = ValidFact(s)
    /\ \A m : m \in Facts(M, "Shares") <=>
                 \E t \in Trustees : Dealt(t) \in S /\ m = SharesFact(t)
    /\ \A m : m \in Facts(M, "PublicKey") <=>
                 \E t \in Trustees : Joint(t) \in S /\ m = KeyFact(t)
    /\ \A m : m \in Facts(M, "Ballots") <=> Opening(b) \in S /\ m = BallotsFact(b)
    /\ \A m : m \in Facts(M, "Mix") <=>
                 \E k \in Mixers : MixMsg(b, k, k) \in S /\ m = MixFact(b, k, k)
    /\ \A m : m \in Facts(M, "MixSignature") <=>
                 \E k, s \in Mixers : k # s /\ MixMsg(b, k, s) \in S /\ m = MixFact(b, k, s)
    /\ \A m : m \in Facts(M, "PartialDecryptions") <=>
                 \E s \in Mixers : Factors(b, s) \in S /\ m = FactorsFact(b, s)
    /\ \A m : m \in Facts(M, "Plaintexts") <=>
                 \E s \in Mixers : Plain(b, s) \in S /\ m = PlainFact(b, s)

LEMMA KindsAre ==
    ASSUME NEW b, NEW M, NEW S, Reported(b, M, S)
    PROVE  KindsOf(b, M, S)
<1>1. \A m : m \in M <=>
        \/ \E s \in TrusteeList : SetupMsg(s) \in S /\ m = ValidFact(s)
        \/ \E t \in Trustees : Dealt(t) \in S /\ m = SharesFact(t)
        \/ \E t \in Trustees : Joint(t) \in S /\ m = KeyFact(t)
        \/ Opening(b) \in S /\ m = BallotsFact(b)
        \/ \E k, s \in Mixers : MixMsg(b, k, s) \in S /\ m = MixFact(b, k, s)
        \/ \E s \in Mixers : Factors(b, s) \in S /\ m = FactorsFact(b, s)
        \/ \E s \in Mixers : Plain(b, s) \in S /\ m = PlainFact(b, s)
  BY DEF Reported
<1>2. /\ \A s : ValidFact(s).fact = "ConfigurationValid"
      /\ \A t : SharesFact(t).fact = "Shares"
      /\ \A t : KeyFact(t).fact = "PublicKey"
      /\ BallotsFact(b).fact = "Ballots"
      /\ \A k : MixFact(b, k, k).fact = "Mix"
      /\ \A k, s : k # s => MixFact(b, k, s).fact = "MixSignature"
      /\ \A s : FactorsFact(b, s).fact = "PartialDecryptions"
      /\ \A s : PlainFact(b, s).fact = "Plaintexts"
  BY DEF ValidFact, SharesFact, KeyFact, BallotsFact, MixFact, FactorsFact, PlainFact
<1>3. \A m, kind : m \in Facts(M, kind) <=> m \in M /\ m.fact = kind
  BY DEF Facts
<1>4. \A m \in M : m.fact \in {"ConfigurationValid", "Shares", "PublicKey", "Ballots", "Mix",
                               "MixSignature", "PartialDecryptions", "Plaintexts"}
  BY <1>1, <1>2
<1>5. \A m : m \in Facts(M, "ConfigurationValid") <=>
                 \E s \in TrusteeList : SetupMsg(s) \in S /\ m = ValidFact(s)
  BY <1>1, <1>2, <1>3
<1>6. \A m : m \in Facts(M, "Shares") <=>
                 \E t \in Trustees : Dealt(t) \in S /\ m = SharesFact(t)
  BY <1>1, <1>2, <1>3
<1>7. \A m : m \in Facts(M, "PublicKey") <=>
                 \E t \in Trustees : Joint(t) \in S /\ m = KeyFact(t)
  BY <1>1, <1>2, <1>3
<1>8. \A m : m \in Facts(M, "Ballots") <=> Opening(b) \in S /\ m = BallotsFact(b)
  BY <1>1, <1>2, <1>3
<1>9. \A m : m \in Facts(M, "Mix") <=>
                 \E k \in Mixers : MixMsg(b, k, k) \in S /\ m = MixFact(b, k, k)
  BY <1>1, <1>2, <1>3
<1>10. \A m : m \in Facts(M, "MixSignature") <=>
                 \E k, s \in Mixers : k # s /\ MixMsg(b, k, s) \in S /\ m = MixFact(b, k, s)
  BY <1>1, <1>2, <1>3
<1>11. \A m : m \in Facts(M, "PartialDecryptions") <=>
                 \E s \in Mixers : Factors(b, s) \in S /\ m = FactorsFact(b, s)
  BY <1>1, <1>2, <1>3
<1>12. \A m : m \in Facts(M, "Plaintexts") <=>
                 \E s \in Mixers : Plain(b, s) \in S /\ m = PlainFact(b, s)
  BY <1>1, <1>2, <1>3
<1> QED
  BY <1>4, <1>5, <1>6, <1>7, <1>8, <1>9, <1>10, <1>11, <1>12 DEF KindsOf

LEMMA SendersAre ==
    ASSUME NEW b, NEW M, NEW S, Reported(b, M, S), Closed(b, S)
    PROVE  /\ Configured(M) = TrusteeList /\ Configured(M) # {}
           /\ \A t \in Trustees : t \in Senders(M, "Shares") <=> Dealt(t) \in S
           /\ \A t \in Trustees : t \in Senders(M, "PublicKey") <=> Joint(t) \in S
           /\ \A s \in Mixers : s \in Senders(M, "PartialDecryptions") <=> Factors(b, s) \in S
<1>1. KindsOf(b, M, S)
  BY KindsAre
<1>2. \A kind, s : s \in Senders(M, kind) <=> \E m \in Facts(M, kind) : m.sender = s
  BY DEF Senders
<1>3. /\ \A s : ValidFact(s).sender = s
      /\ \A s : SharesFact(s).sender = s
      /\ \A s : KeyFact(s).sender = s
      /\ \A s : FactorsFact(b, s).sender = s
  BY DEF ValidFact, SharesFact, KeyFact, FactorsFact
<1>4. \A s : s \in Senders(M, "ConfigurationValid") <=> s \in TrusteeList
  <2>1. \A s \in TrusteeList : SetupMsg(s) \in S
    BY DEF Closed
  <2>2. \A m : m \in Facts(M, "ConfigurationValid") <=>
                 \E s \in TrusteeList : SetupMsg(s) \in S /\ m = ValidFact(s)
    BY <1>1 DEF KindsOf
  <2> QED
    BY <1>2, <1>3, <2>1, <2>2
<1>5. Configured(M) = TrusteeList
  BY <1>4 DEF Configured
<1>6. 0 \in TrusteeList
  BY TrusteesAssumption DEF TrusteeList
<1>7. \A t \in Trustees : t \in Senders(M, "Shares") <=> Dealt(t) \in S
  BY <1>1, <1>2, <1>3 DEF KindsOf
<1>8. \A t \in Trustees : t \in Senders(M, "PublicKey") <=> Joint(t) \in S
  BY <1>1, <1>2, <1>3 DEF KindsOf
<1>9. \A s \in Mixers : s \in Senders(M, "PartialDecryptions") <=> Factors(b, s) \in S
  BY <1>1, <1>2, <1>3 DEF KindsOf
<1> QED
  BY <1>5, <1>6, <1>7, <1>8, <1>9

LEMMA KeysOfFacts ==
    ASSUME NEW b, NEW M, NEW S, Reported(b, M, S), Closed(b, S)
    PROVE  /\ PublicKeysAll(M) \subseteq {FirstKey}
           /\ Opening(b) \in S => PublicKeysAll(M) = {FirstKey}
<1>1. \A m : m \in Facts(M, "PublicKey") <=>
                 \E t \in Trustees : Joint(t) \in S /\ m = KeyFact(t)
  BY KindsAre DEF KindsOf
<1>2. \A t : KeyFact(t).pk = FirstKey /\ KeyFact(t).sender = t
  BY DEF KeyFact
<1>3. \A m \in Facts(M, "PublicKey") : m.pk = FirstKey
  BY <1>1, <1>2
<1>4. PublicKeysAll(M) \subseteq {FirstKey}
  BY <1>3 DEF PublicKeysAll
<1>5. ASSUME Opening(b) \in S
      PROVE  FirstKey \in PublicKeysAll(M)
  <2>1. \A t \in Trustees : KeyFact(t) \in Facts(M, "PublicKey")
    BY <1>1, <1>5, ClosedMeans
  <2>2. 1 \in Trustees
    BY TrusteesAssumption DEF Trustees
  <2>3. FirstKey \in {m.pk : m \in Facts(M, "PublicKey")}
    BY <1>2, <2>1, <2>2
  <2>4. \A t \in Trustees :
           t \in {m.sender : m \in {k \in Facts(M, "PublicKey") : k.pk = FirstKey}}
    BY <1>2, <2>1
  <2>5. Configured(M) # {}
    BY SendersAre
  <2> QED
    BY <2>3, <2>4, <2>5 DEF PublicKeysAll
<1> QED
  BY <1>4, <1>5

LEMMA MixersAre ==
    ASSUME NEW b, NEW M, NEW S, Reported(b, M, S), Closed(b, S)
    PROVE  /\ \A pk, p, s : MixingPosition(M, pk, p, s) <=>
                 Opening(b) \in S /\ pk = FirstKey /\ p \in Mixers /\ s = p
           /\ \A pk, s : SelectedTrustee(M, pk, s) <=>
                 Opening(b) \in S /\ pk = FirstKey /\ s \in Mixers
<1>1. \A m : m \in Facts(M, "Ballots") <=> Opening(b) \in S /\ m = BallotsFact(b)
  BY KindsAre DEF KindsOf
<1>2. BallotsFact(b).pk = FirstKey /\ BallotsFact(b).mixing_trustees = Identity
  BY DEF BallotsFact
<1>3. DOMAIN Identity = Mixers /\ \A p \in Mixers : Identity[p] = p
  BY DEF Identity
<1>4. \A pk, p, s : MixingPosition(M, pk, p, s) <=>
         Opening(b) \in S /\ pk = FirstKey /\ p \in Mixers /\ s = p
  BY <1>1, <1>2, <1>3 DEF MixingPosition
<1>5. \A pk, s : SelectedTrustee(M, pk, s) <=>
         Opening(b) \in S /\ pk = FirstKey /\ s \in Mixers
  BY <1>4 DEF SelectedTrustee, Mixers
<1> QED
  BY <1>4, <1>5

LEMMA SignersAre ==
    ASSUME NEW b, NEW M, NEW S, Reported(b, M, S), Closed(b, S), NEW k \in Mixers
    PROVE  /\ \A s \in Mixers : \A c : MixSignature(M, FirstKey, c, MixOf(b, k), s) <=>
                 MixMsg(b, k, s) \in S /\ c = MixOf(b, k - 1)
           /\ \A pk, c : MixSignaturesAll(M, pk, c, MixOf(b, k)) =>
                 pk = FirstKey /\ \A s \in Mixers : MixMsg(b, k, s) \in S
           /\ (\A s \in Mixers : MixMsg(b, k, s) \in S) =>
                 MixSignaturesAll(M, FirstKey, MixOf(b, k - 1), MixOf(b, k))
<1>1. \A m : m \in Facts(M, "Mix") \cup Facts(M, "MixSignature") <=>
                 \E j, s \in Mixers : MixMsg(b, j, s) \in S /\ m = MixFact(b, j, s)
  <2>1. /\ \A m : m \in Facts(M, "Mix") <=>
                 \E j \in Mixers : MixMsg(b, j, j) \in S /\ m = MixFact(b, j, j)
        /\ \A m : m \in Facts(M, "MixSignature") <=>
                 \E j, s \in Mixers : j # s /\ MixMsg(b, j, s) \in S /\ m = MixFact(b, j, s)
    BY KindsAre DEF KindsOf
  <2> QED
    BY <2>1
<1>2. \A j, s : /\ MixFact(b, j, s).pk = FirstKey /\ MixFact(b, j, s).sender = s
                /\ MixFact(b, j, s).in = MixOf(b, j - 1) /\ MixFact(b, j, s).out = MixOf(b, j)
  BY DEF MixFact
<1>3. \A j \in Mixers : MixOf(b, j) = MixOf(b, k) => j = k
  <2>1. Mixers \subseteq Nat
    BY DEF Mixers
  <2> QED
    BY <2>1, MixesDiffer
<1>4. \A s \in Mixers : \A c : MixSignature(M, FirstKey, c, MixOf(b, k), s) <=>
         MixMsg(b, k, s) \in S /\ c = MixOf(b, k - 1)
  <2> SUFFICES ASSUME NEW s \in Mixers, NEW c
               PROVE  MixSignature(M, FirstKey, c, MixOf(b, k), s) <=>
                         MixMsg(b, k, s) \in S /\ c = MixOf(b, k - 1)
    OBVIOUS
  <2>1. ASSUME MixSignature(M, FirstKey, c, MixOf(b, k), s)
        PROVE  MixMsg(b, k, s) \in S /\ c = MixOf(b, k - 1)
    <3>1. PICK m \in Facts(M, "Mix") \cup Facts(M, "MixSignature") :
             m.in = c /\ m.out = MixOf(b, k) /\ m.sender = s
      BY <2>1 DEF MixSignature
    <3>2. PICK j \in Mixers, u \in Mixers : MixMsg(b, j, u) \in S /\ m = MixFact(b, j, u)
      BY <1>1, <3>1
    <3>3. u = s /\ j = k /\ c = MixOf(b, j - 1)
      BY <1>2, <1>3, <3>1, <3>2
    <3> QED
      BY <3>2, <3>3
  <2>2. ASSUME MixMsg(b, k, s) \in S, c = MixOf(b, k - 1)
        PROVE  MixSignature(M, FirstKey, c, MixOf(b, k), s)
    <3>1. MixFact(b, k, s) \in Facts(M, "Mix") \cup Facts(M, "MixSignature")
      BY <1>1, <2>2
    <3> QED
      BY <1>2, <2>2, <3>1 DEF MixSignature
  <2> QED
    BY <2>1, <2>2
<1>5. \A pk, p, s : MixingPosition(M, pk, p, s) <=>
         Opening(b) \in S /\ pk = FirstKey /\ p \in Mixers /\ s = p
  BY MixersAre
<1>6. ASSUME NEW pk, NEW c, MixSignaturesAll(M, pk, c, MixOf(b, k))
      PROVE  pk = FirstKey /\ \A s \in Mixers : MixMsg(b, k, s) \in S
  <2>1. \A p \in Mixers : /\ MixingPosition(M, pk, p, p)
                         /\ MixSignature(M, pk, c, MixOf(b, k), p)
    BY <1>5, <1>6 DEF MixSignaturesAll, Mixers
  <2>2. pk = FirstKey
    BY <1>5, <2>1
  <2> QED
    BY <1>4, <2>1, <2>2
<1>7. ASSUME \A s \in Mixers : MixMsg(b, k, s) \in S
      PROVE  MixSignaturesAll(M, FirstKey, MixOf(b, k - 1), MixOf(b, k))
  <2>1. Opening(b) \in S
    BY <1>7, ClosedMeans
  <2>2. \A p \in Mixers : /\ MixingPosition(M, FirstKey, p, p)
                         /\ MixSignature(M, FirstKey, MixOf(b, k - 1), MixOf(b, k), p)
    BY <1>4, <1>5, <1>7, <2>1
  <2>3. Configured(M) # {}
    BY SendersAre
  <2> QED
    BY <2>2, <2>3 DEF MixSignaturesAll, Mixers
<1> QED
  BY <1>4, <1>6, <1>7

(* The chain of signed mixes is that of the rounds.                        *)
LEMMA ChainOfRounds ==
    ASSUME NEW b, NEW M, NEW S, Reported(b, M, S), Closed(b, S), NEW k \in Mixers,
           NEW c \in MixChain(M, BallotsFact(b))[k]
    PROVE  c = MixOf(b, k) /\ \A s \in Mixers : MixMsg(b, k, s) \in S
<1> DEFINE ends == MixChain(M, BallotsFact(b))
<1>1. c \in Links(M, BallotsFact(b), ends, k)
  <2>1. ends = [p \in 1..Threshold |-> Links(M, BallotsFact(b), ends, p)]
    BY ChainIs
  <2>2. c \in ends[k]
    OBVIOUS
  <2> HIDE DEF ends
  <2> QED
    BY <2>1, <2>2 DEF Mixers
<1>2. PICK input : c \in SignedMixes(M, BallotsFact(b), input, k)
  <2> HIDE DEF ends
  <2>1. CASE k = 1
    BY <1>1, <2>1 DEF Links
  <2>2. CASE k # 1
    BY <1>1, <2>2 DEF Links
  <2> QED
    BY <2>1, <2>2
<1>3. PICK m \in Facts(M, "Mix") :
         /\ m.out = c
         /\ MixingPosition(M, BallotsFact(b).pk, k, m.sender)
         /\ MixSignaturesAll(M, BallotsFact(b).pk, m.in, m.out)
  BY <1>2 DEF SignedMixes
<1>4. PICK j \in Mixers : m = MixFact(b, j, j)
  BY <1>3, KindsAre DEF KindsOf
<1>5. MixFact(b, j, j).sender = j /\ MixFact(b, j, j).out = MixOf(b, j)
  BY DEF MixFact
<1>6. m.sender = k
  BY <1>3, MixersAre
<1>7. j = k /\ c = MixOf(b, k)
  BY <1>3, <1>4, <1>5, <1>6
<1>8. MixSignaturesAll(M, BallotsFact(b).pk, m.in, MixOf(b, k))
  BY <1>3, <1>7
<1> QED
  BY <1>7, <1>8, SignersAre

LEMMA CompleteMixIs ==
    ASSUME NEW b, NEW M, NEW S, Reported(b, M, S), Closed(b, S),
           NEW c \in MixComplete(M, BallotsFact(b))
    PROVE  c = MixOf(b, Threshold) /\ \A j, s \in Mixers : MixMsg(b, j, s) \in S
<1>1. Threshold \in Mixers
  BY TrusteesAssumption DEF Mixers
<1>2. c \in MixChain(M, BallotsFact(b))[Threshold]
  BY DEF MixComplete
<1>3. c = MixOf(b, Threshold) /\ \A s \in Mixers : MixMsg(b, Threshold, s) \in S
  BY <1>1, <1>2, ChainOfRounds
<1>4. \A j \in 1..Threshold - 1 : \A s \in Mixers : MixMsg(b, j, s) \in S
  BY <1>1, <1>3, ClosedMeans
<1>5. \A j \in Mixers : j = Threshold \/ j \in 1..Threshold - 1
  BY TrusteesAssumption DEF Mixers
<1> QED
  BY <1>3, <1>4, <1>5

LEMMA NoCollisions ==
    ASSUME NEW b, NEW M, NEW S, Reported(b, M, S), NEW m \in M, NEW n \in M
    PROVE  ~Collides(m, n)
<1> SUFFICES ASSUME Collides(m, n) PROVE FALSE
  OBVIOUS
<1>1. m.fact = n.fact /\ m # n /\ m \in Facts(M, m.fact) /\ n \in Facts(M, m.fact)
  BY DEF Collides, Facts
<1>2. /\ \A s : ValidFact(s).sender = s
      /\ \A s : SharesFact(s).sender = s
      /\ \A s : KeyFact(s).sender = s
      /\ \A s : FactorsFact(b, s).sender = s
      /\ \A s : PlainFact(b, s).sender = s
      /\ \A k, s : MixFact(b, k, s).sender = s
  BY DEF ValidFact, SharesFact, KeyFact, FactorsFact, PlainFact, MixFact
<1>3. m.fact \notin {"Ballots", "MixSignature"} => m.sender = n.sender
  BY DEF Collides
<1>4. CASE m.fact = "ConfigurationValid"
  BY <1>1, <1>2, <1>3, <1>4, KindsAre DEF KindsOf
<1>5. CASE m.fact = "Shares"
  BY <1>1, <1>2, <1>3, <1>5, KindsAre DEF KindsOf
<1>6. CASE m.fact = "PublicKey"
  BY <1>1, <1>2, <1>3, <1>6, KindsAre DEF KindsOf
<1>7. CASE m.fact = "Ballots"
  BY <1>1, <1>7, KindsAre DEF KindsOf
<1>8. CASE m.fact = "Mix"
  BY <1>1, <1>2, <1>3, <1>8, KindsAre DEF KindsOf
<1>9. CASE m.fact = "MixSignature"
  <2>1. m.sender = n.sender /\ (m.in = n.in \/ m.out = n.out)
    BY <1>9 DEF Collides
  <2>2. PICK j \in Mixers, s \in Mixers : m = MixFact(b, j, s)
    BY <1>1, <1>9, KindsAre DEF KindsOf
  <2>3. PICK k \in Mixers, u \in Mixers : n = MixFact(b, k, u)
    BY <1>1, <1>9, KindsAre DEF KindsOf
  <2>4. s = u
    BY <1>2, <2>1, <2>2, <2>3
  <2>5. MixOf(b, j - 1) = MixOf(b, k - 1) \/ MixOf(b, j) = MixOf(b, k)
    BY <2>1, <2>2, <2>3 DEF MixFact
  <2>6. j \in Nat /\ k \in Nat /\ j - 1 \in Nat /\ k - 1 \in Nat
    BY DEF Mixers
  <2>7. j - 1 = k - 1 \/ j = k
    BY <2>5, <2>6, MixesDiffer
  <2>8. j = k
    BY <2>6, <2>7
  <2> QED
    BY <1>1, <2>2, <2>3, <2>4, <2>8
<1>10. CASE m.fact = "PartialDecryptions"
  BY <1>1, <1>2, <1>3, <1>10, KindsAre DEF KindsOf
<1>11. CASE m.fact = "Plaintexts"
  BY <1>1, <1>2, <1>3, <1>11, KindsAre DEF KindsOf
<1>12. m.fact \in {"ConfigurationValid", "Shares", "PublicKey", "Ballots", "Mix",
                   "MixSignature", "PartialDecryptions", "Plaintexts"}
  BY KindsAre DEF KindsOf
<1> QED
  BY <1>4, <1>5, <1>6, <1>7, <1>8, <1>9, <1>10, <1>11, <1>12

LEMMA NoMixErrors ==
    ASSUME NEW b, NEW M, NEW S, Reported(b, M, S), Closed(b, S)
    PROVE  ~MixErrors(M)
<1>1. Mixers = 1..Threshold /\ \A k \in Mixers : k \in Nat /\ k - 1 \in Nat
  BY DEF Mixers
<1>2. \A m : m \in Facts(M, "Ballots") => m = BallotsFact(b)
  BY KindsAre DEF KindsOf
<1>3. \A k \in Mixers : \A c \in MixChain(M, BallotsFact(b))[k] : c = MixOf(b, k)
  BY ChainOfRounds
<1>4. \A p, q \in Mixers : p # q =>
         MixChain(M, BallotsFact(b))[p] \cap MixChain(M, BallotsFact(b))[q] = {}
  <2>1. \A p, q \in Mixers : MixOf(b, p) = MixOf(b, q) => p = q
    BY <1>1, MixesDiffer
  <2> QED
    BY <1>3, <2>1
<1>5. \A p \in Mixers : BallotsFact(b).ciphertexts \notin MixChain(M, BallotsFact(b))[p]
  <2>1. BallotsFact(b).ciphertexts = MixOf(b, 0)
    BY DEF BallotsFact
  <2>2. \A p \in Mixers : MixOf(b, p) # MixOf(b, 0)
    <3>1. \A p \in Mixers : p \in Nat /\ 0 \in Nat /\ p # 0
      BY <1>1
    <3> QED
      BY <3>1, MixesDiffer
  <2> QED
    BY <1>3, <2>1, <2>2
<1>6. \A p, q \in DOMAIN BallotsFact(b).mixing_trustees : p # q =>
         BallotsFact(b).mixing_trustees[p] # BallotsFact(b).mixing_trustees[q]
  <2>1. BallotsFact(b).mixing_trustees = Identity
    BY DEF BallotsFact
  <2> QED
    BY <2>1 DEF Identity
<1>7. ASSUME NEW m \in Facts(M, "Mix"), NEW n \in Facts(M, "Mix")
      PROVE  ~(/\ m.pk = n.pk
               /\ \/ m.sender # n.sender /\ (m.in = n.in \/ m.out = n.out)
                  \/ m.sender = n.sender /\ (m.in # n.in \/ m.out # n.out)
                  \/ /\ m.out = n.in
                     /\ \E p, q \in 1..Threshold :
                           /\ MixingPosition(M, m.pk, p, m.sender)
                           /\ MixingPosition(M, m.pk, q, n.sender)
                           /\ p + 1 # q)
  <2>1. PICK j \in Mixers : m = MixFact(b, j, j)
    BY KindsAre DEF KindsOf
  <2>2. PICK k \in Mixers : n = MixFact(b, k, k)
    BY KindsAre DEF KindsOf
  <2>3. /\ m.sender = j /\ m.in = MixOf(b, j - 1) /\ m.out = MixOf(b, j)
        /\ n.sender = k /\ n.in = MixOf(b, k - 1) /\ n.out = MixOf(b, k)
    BY <2>1, <2>2 DEF MixFact
  <2>4. MixOf(b, j - 1) = MixOf(b, k - 1) => j - 1 = k - 1
    BY <1>1, MixesDiffer
  <2>5. MixOf(b, j) = MixOf(b, k) => j = k
    BY <1>1, MixesDiffer
  <2>6. MixOf(b, j) = MixOf(b, k - 1) => j = k - 1
    BY <1>1, MixesDiffer
  <2>7. \A p, q : /\ MixingPosition(M, m.pk, p, m.sender) => p = j
                  /\ MixingPosition(M, m.pk, q, n.sender) => q = k
    BY <2>3, MixersAre
  <2>8. j = k - 1 => j + 1 = k
    BY <1>1
  <2>9. j - 1 = k - 1 => j = k
    BY <1>1
  <2> QED
    BY <2>3, <2>4, <2>5, <2>6, <2>7, <2>8, <2>9
<1> QED
  BY <1>1, <1>2, <1>4, <1>5, <1>6, <1>7 DEF MixErrors

LEMMA NoErrors ==
    ASSUME NEW b, NEW M, NEW S, Reported(b, M, S), Closed(b, S)
    PROVE  ~Errors(M)
<1>1. \A m, n \in M : ~Collides(m, n)
  BY NoCollisions
<1>2. ~PkMismatch(M)
  <2>1. \A t : KeyFact(t).pk = FirstKey
    BY DEF KeyFact
  <2>2. \A m \in Facts(M, "PublicKey") : \E t : m = KeyFact(t)
    BY KindsAre DEF KindsOf
  <2> QED
    BY <2>1, <2>2 DEF PkMismatch
<1>3. ~MixErrors(M)
  BY NoMixErrors
<1>4. ~PlaintextErrors(M)
  <2>1. \A m \in Facts(M, "Plaintexts") :
           m.in = MixOf(b, Threshold) /\ m.plaintexts = MixOf(b, Threshold)
    <3>1. \A s : /\ PlainFact(b, s).in = MixOf(b, Threshold)
                 /\ PlainFact(b, s).plaintexts = MixOf(b, Threshold)
      BY DEF PlainFact
    <3>2. \A m \in Facts(M, "Plaintexts") : \E s : m = PlainFact(b, s)
      BY KindsAre DEF KindsOf
    <3> QED
      BY <3>1, <3>2
  <2>2. \A m : m \in Facts(M, "Ballots") => m = BallotsFact(b)
    BY KindsAre DEF KindsOf
  <2>3. \A c \in MixComplete(M, BallotsFact(b)) : c = MixOf(b, Threshold)
    BY CompleteMixIs
  <2> QED
    BY <2>1, <2>2, <2>3 DEF PlaintextErrors
<1> QED
  BY <1>1, <1>2, <1>3, <1>4 DEF Errors

-------------------------------------------------------------------------------
(* The actions of the Ascent logic on these facts.                         *)

SharesDue(t) == [action |-> "ComputeShares", self |-> t]
KeyDue(t) ==
    [action |-> "ComputePublicKey", shares |-> [u \in Trustees |-> <<u, 0>>], self |-> t]
SignDue(b, k, s) ==
    [action |-> "SignMix", pk |-> FirstKey, in |-> MixOf(b, k - 1), out |-> MixOf(b, k),
     self |-> s]
FactorsDue(b, s) ==
    [action |-> "ComputePartialDecryptions", pk |-> FirstKey, out |-> MixOf(b, Threshold),
     self |-> s]
PlainDue(b, s, hashes) ==
    [action |-> "ComputePlaintexts", pk |-> FirstKey, out |-> MixOf(b, Threshold),
     decryptions |-> hashes, self |-> s]
AllFactors(b) == [s \in Mixers |-> <<s, MixOf(b, Threshold), 0>>]

(* What t has to do next, with the messages S: a leads to message m.       *)
Leads(b, S, t, a, m) ==
    \/ a = SharesDue(t) /\ m = Dealt(t)
    \/ /\ a = KeyDue(t) /\ m = Joint(t)
       /\ \A u \in Trustees : Dealt(u) \in S
    \/ /\ t \in Mixers
       /\ a = MixDue(FirstKey, MixOf(b, t - 1), t) /\ m = MixMsg(b, t, t)
       /\ Opening(b) \in S
       /\ \A j \in 1..t - 1 : \A u \in Mixers : MixMsg(b, j, u) \in S
    \/ \E k \in Mixers :
          /\ t \in Mixers
          /\ a = SignDue(b, k, t) /\ m = MixMsg(b, k, t)
          /\ k # t /\ MixMsg(b, k, k) \in S
    \/ /\ t \in Mixers
       /\ a = FactorsDue(b, t) /\ m = Factors(b, t)
       /\ \A j, u \in Mixers : MixMsg(b, j, u) \in S
    \/ /\ t \in Mixers
       /\ a = PlainDue(b, t, AllFactors(b)) /\ m = Plain(b, t)
       /\ \A u \in Mixers : Factors(b, u) \in S

LEMMA KeyActions ==
    ASSUME NEW b, NEW M, NEW S, Reported(b, M, S), Closed(b, S), NEW t \in Trustees,
           NEW a, a.self = t, a \in ComputeShares(M) \cup ComputePublicKey(M)
    PROVE  \E m : m \notin S /\ Leads(b, S, t, a, m)
<1>1. CASE a \in ComputeShares(M)
  <2>1. a = SharesDue(t) /\ t \notin Senders(M, "Shares")
    BY <1>1 DEF ComputeShares, SharesDue
  <2>2. Dealt(t) \notin S
    BY <2>1, SendersAre
  <2> QED
    BY <2>1, <2>2 DEF Leads
<1>2. CASE a \in ComputePublicKey(M)
  <2>1. PICK hashes \in SharesAll(M), i \in Configured(M) \ Senders(M, "PublicKey") :
           a = [action |-> "ComputePublicKey", shares |-> hashes, self |-> i]
    BY <1>2 DEF ComputePublicKey
  <2>2. i = t /\ Joint(t) \notin S
    BY <2>1, SendersAre
  <2>3. \A u \in Trustees : /\ u \in DOMAIN hashes /\ DOMAIN hashes = Trustees
                           /\ [fact |-> "Shares", shares |-> hashes[u], sender |-> u] \in M
    BY DEF SharesAll
  <2>4. hashes = [u \in Trustees |-> hashes[u]]
    BY DEF SharesAll
  <2>5. \A u \in Trustees : hashes[u] = <<u, 0>> /\ Dealt(u) \in S
    <3> SUFFICES ASSUME NEW u \in Trustees PROVE hashes[u] = <<u, 0>> /\ Dealt(u) \in S
      OBVIOUS
    <3> DEFINE f == [fact |-> "Shares", shares |-> hashes[u], sender |-> u]
    <3>1. f \in M /\ f.fact = "Shares" /\ f.shares = hashes[u] /\ f.sender = u
      BY <2>3
    <3> HIDE DEF f
    <3>2. f \in Facts(M, "Shares")
      BY <3>1 DEF Facts
    <3>3. PICK v \in Trustees : Dealt(v) \in S /\ f = SharesFact(v)
      BY <3>2, KindsAre DEF KindsOf
    <3>4. SharesFact(v).sender = v /\ SharesFact(v).shares = <<v, 0>>
      BY DEF SharesFact
    <3> QED
      BY <3>1, <3>3, <3>4
  <2>6. hashes = [u \in Trustees |-> <<u, 0>>]
    BY <2>4, <2>5
  <2>7. a = KeyDue(t)
    BY <2>1, <2>2, <2>6 DEF KeyDue
  <2> QED
    BY <2>2, <2>5, <2>7 DEF Leads
<1> QED
  BY <1>1, <1>2

LEMMA MixActions ==
    ASSUME NEW b, NEW M, NEW S, Reported(b, M, S), Closed(b, S), NEW t \in Trustees,
           NEW a, a.self = t, a \in ComputeFirstMix(M) \cup ComputeNextMix(M) \cup SignMix(M)
    PROVE  \E m : m \notin S /\ Leads(b, S, t, a, m)
<1>1. \A m : m \in Facts(M, "Mix") <=>
                 \E k \in Mixers : MixMsg(b, k, k) \in S /\ m = MixFact(b, k, k)
  BY KindsAre DEF KindsOf
<1>2. \A k : /\ MixFact(b, k, k).pk = FirstKey /\ MixFact(b, k, k).sender = k
             /\ MixFact(b, k, k).in = MixOf(b, k - 1) /\ MixFact(b, k, k).out = MixOf(b, k)
  BY DEF MixFact
<1>3. \A pk, p, s : MixingPosition(M, pk, p, s) <=>
                 Opening(b) \in S /\ pk = FirstKey /\ p \in Mixers /\ s = p
  BY MixersAre
<1>4. \A k \in Mixers : MixMsg(b, k, k) \in S => MixComputed(M, FirstKey, MixOf(b, k - 1), k)
  <2> SUFFICES ASSUME NEW k \in Mixers, MixMsg(b, k, k) \in S
               PROVE  MixComputed(M, FirstKey, MixOf(b, k - 1), k)
    OBVIOUS
  <2>1. MixFact(b, k, k) \in Facts(M, "Mix")
    BY <1>1
  <2> QED
    BY <1>2, <2>1 DEF MixComputed
<1>5. CASE a \in ComputeFirstMix(M)
  <2>1. PICK f \in Facts(M, "Ballots"), i \in Configured(M) :
           /\ a = MixDue(f.pk, f.ciphertexts, i)
           /\ MixingPosition(M, f.pk, 1, i)
           /\ ~MixComputed(M, f.pk, f.ciphertexts, i)
    BY <1>5 DEF ComputeFirstMix
  <2>2. Opening(b) \in S /\ f = BallotsFact(b)
    BY <2>1, KindsAre DEF KindsOf
  <2>3. f.pk = FirstKey /\ f.ciphertexts = MixOf(b, 0)
    BY <2>2 DEF BallotsFact
  <2>4. i = 1 /\ 1 \in Mixers
    BY <1>3, <2>1
  <2>5. t = 1
    BY <2>1, <2>4 DEF MixDue
  <2>6. a = MixDue(FirstKey, MixOf(b, t - 1), t) /\ MixMsg(b, t, t) \notin S
    BY <1>4, <2>1, <2>3, <2>4, <2>5
  <2>7. \A j \in 1..t - 1 : FALSE
    BY <2>5
  <2> QED
    BY <2>2, <2>4, <2>5, <2>6, <2>7 DEF Leads
<1>6. CASE a \in ComputeNextMix(M)
  <2>1. PICK f \in Facts(M, "Mix"), i \in Configured(M) :
           /\ a = MixDue(f.pk, f.out, i)
           /\ \E position \in 2..Threshold :
                 /\ MixingPosition(M, f.pk, position, i)
                 /\ MixingPosition(M, f.pk, position - 1, f.sender)
           /\ MixSignaturesAll(M, f.pk, f.in, f.out)
           /\ ~MixComputed(M, f.pk, f.out, i)
    BY <1>6 DEF ComputeNextMix
  <2>2. PICK k \in Mixers : MixMsg(b, k, k) \in S /\ f = MixFact(b, k, k)
    BY <1>1, <2>1
  <2>3. PICK position \in 2..Threshold : i = position /\ k = position - 1
    BY <1>2, <1>3, <2>1, <2>2
  <2>4. i = t
    BY <2>1 DEF MixDue
  <2>5. t \in Mixers /\ k = t - 1 /\ t \in Nat /\ k \in Nat
    BY <2>3, <2>4 DEF Mixers
  <2>6. a = MixDue(FirstKey, MixOf(b, t - 1), t) /\ MixMsg(b, t, t) \notin S
    BY <1>2, <1>4, <2>1, <2>2, <2>4, <2>5
  <2>7. \A u \in Mixers : MixMsg(b, k, u) \in S
    BY <1>2, <2>1, <2>2, SignersAre
  <2>8. Opening(b) \in S /\ \A j \in 1..k - 1 : \A u \in Mixers : MixMsg(b, j, u) \in S
    BY <2>2, ClosedMeans
  <2>9. \A j \in 1..t - 1 : j = k \/ j \in 1..k - 1
    BY <2>5
  <2>10. \A j \in 1..t - 1 : \A u \in Mixers : MixMsg(b, j, u) \in S
    BY <2>7, <2>8, <2>9
  <2> QED
    BY <2>5, <2>6, <2>8, <2>10 DEF Leads
<1>7. CASE a \in SignMix(M)
  <2>1. PICK f \in Facts(M, "Mix"), i \in Configured(M) :
           /\ a = [action |-> "SignMix", pk |-> f.pk, in |-> f.in, out |-> f.out, self |-> i]
           /\ SelectedTrustee(M, f.pk, i)
           /\ ~MixSignature(M, f.pk, f.in, f.out, i)
    BY <1>7 DEF SignMix
  <2>2. PICK k \in Mixers : MixMsg(b, k, k) \in S /\ f = MixFact(b, k, k)
    BY <1>1, <2>1
  <2>3. i = t /\ t \in Mixers
    BY <2>1, MixersAre
  <2>4. a = SignDue(b, k, t)
    BY <1>2, <2>1, <2>2, <2>3 DEF SignDue
  <2>5. MixMsg(b, k, t) \notin S
    BY <1>2, <2>1, <2>2, <2>3, SignersAre
  <2>6. k # t
    BY <2>2, <2>5
  <2> QED
    BY <2>2, <2>3, <2>4, <2>5, <2>6 DEF Leads
<1> QED
  BY <1>5, <1>6, <1>7

LEMMA DecryptionActions ==
    ASSUME NEW b, NEW M, NEW S, Reported(b, M, S), Closed(b, S), NEW t \in Trustees,
           NEW a, a.self = t, a \in ComputePartialDecryptions(M) \cup ComputePlaintexts(M)
    PROVE  \E m : m \notin S /\ Leads(b, S, t, a, m)
<1>1. \A f : f \in Facts(M, "Ballots") => f = BallotsFact(b)
  BY KindsAre DEF KindsOf
<1>2. BallotsFact(b).pk = FirstKey
  BY DEF BallotsFact
<1>3. CASE a \in ComputePartialDecryptions(M)
  <2>1. PICK f, c, i :
           /\ f \in Facts(M, "Ballots") /\ c \in MixComplete(M, f)
           /\ i \in Configured(M) \ Senders(M, "PartialDecryptions")
           /\ a = [action |-> "ComputePartialDecryptions", pk |-> f.pk, out |-> c, self |-> i]
           /\ SelectedTrustee(M, f.pk, i)
    BY <1>3 DEF ComputePartialDecryptions
  <2>2. f = BallotsFact(b) /\ i = t
    BY <1>1, <2>1
  <2>3. c = MixOf(b, Threshold) /\ \A j, u \in Mixers : MixMsg(b, j, u) \in S
    BY <2>1, <2>2, CompleteMixIs
  <2>4. t \in Mixers
    BY <2>1, <2>2, MixersAre
  <2>5. Factors(b, t) \notin S
    BY <2>1, <2>2, <2>4, SendersAre
  <2>6. a = FactorsDue(b, t)
    BY <1>2, <2>1, <2>2, <2>3 DEF FactorsDue
  <2> QED
    BY <2>3, <2>4, <2>5, <2>6 DEF Leads
<1>4. CASE a \in ComputePlaintexts(M)
  <2>1. PICK f, c, hashes, i :
           /\ f \in Facts(M, "Ballots") /\ c \in MixComplete(M, f)
           /\ hashes \in PartialDecryptionsAll(M) /\ i \in Configured(M)
           /\ a = [action |-> "ComputePlaintexts", pk |-> f.pk, out |-> c,
                   decryptions |-> hashes, self |-> i]
           /\ SelectedTrustee(M, f.pk, i)
           /\ ~\E m \in Facts(M, "Plaintexts") : m.pk = f.pk /\ m.in = c /\ m.sender = i
    BY <1>4 DEF ComputePlaintexts
  <2>2. f = BallotsFact(b) /\ i = t
    BY <1>1, <2>1
  <2>3. c = MixOf(b, Threshold)
    BY <2>1, <2>2, CompleteMixIs
  <2>4. t \in Mixers
    BY <2>1, <2>2, MixersAre
  <2>5. Plain(b, t) \notin S
    <3> SUFFICES ASSUME Plain(b, t) \in S PROVE FALSE
      OBVIOUS
    <3>1. PlainFact(b, t) \in Facts(M, "Plaintexts")
      BY <2>4, KindsAre DEF KindsOf
    <3>2. /\ PlainFact(b, t).pk = FirstKey /\ PlainFact(b, t).in = MixOf(b, Threshold)
          /\ PlainFact(b, t).sender = t
      BY DEF PlainFact
    <3> QED
      BY <1>2, <2>1, <2>2, <2>3, <3>1, <3>2
  <2>6. \A p \in Mixers : hashes[p] = <<p, MixOf(b, Threshold), 0>> /\ Factors(b, p) \in S
    <3> SUFFICES ASSUME NEW p \in Mixers
                 PROVE  hashes[p] = <<p, MixOf(b, Threshold), 0>> /\ Factors(b, p) \in S
      OBVIOUS
    <3>1. PICK m \in Facts(M, "PartialDecryptions") :
             m.decryptions = hashes[p] /\ MixingPosition(M, m.pk, p, m.sender)
      BY <2>1 DEF PartialDecryptionsAll, Mixers
    <3>2. PICK s \in Mixers : Factors(b, s) \in S /\ m = FactorsFact(b, s)
      BY KindsAre DEF KindsOf
    <3>3. m.sender = p
      BY <3>1, MixersAre
    <3>4. FactorsFact(b, s).sender = s
          /\ FactorsFact(b, s).decryptions = <<s, MixOf(b, Threshold), 0>>
      BY DEF FactorsFact
    <3> QED
      BY <3>1, <3>2, <3>3, <3>4
  <2>7. hashes = AllFactors(b)
    <3>1. hashes = [p \in Mixers |-> hashes[p]]
      BY <2>1 DEF PartialDecryptionsAll, Mixers
    <3> QED
      BY <2>6, <3>1 DEF AllFactors
  <2>8. a = PlainDue(b, t, AllFactors(b))
    BY <1>2, <2>1, <2>2, <2>3, <2>7 DEF PlainDue
  <2> QED
    BY <2>4, <2>5, <2>6, <2>8 DEF Leads
<1> QED
  BY <1>3, <1>4

LEMMA ActionsLead ==
    ASSUME NEW b, NEW M, NEW S, Reported(b, M, S), Closed(b, S), NEW t \in Trustees,
           NEW a \in Actions(M), a.self = t
    PROVE  \E m : m \notin S /\ Leads(b, S, t, a, m)
  BY KeyActions, MixActions, DecryptionActions DEF Actions

(* A mix that is not signed yet is to be signed.                           *)
LEMMA SigningIsDue ==
    ASSUME NEW b, NEW M, NEW S, Reported(b, M, S), Closed(b, S), NEW t \in Trustees,
           NEW k \in Mixers, t \in Mixers, MixMsg(b, k, k) \in S, MixMsg(b, k, t) \notin S
    PROVE  SignDue(b, k, t) \in Actions(M)
<1> DEFINE f == MixFact(b, k, k)
<1>1. f \in Facts(M, "Mix")
  BY KindsAre DEF KindsOf
<1>2. f.pk = FirstKey /\ f.in = MixOf(b, k - 1) /\ f.out = MixOf(b, k)
  BY DEF MixFact
<1>3. Opening(b) \in S
  BY ClosedMeans
<1>4. f.pk \in PublicKeysAll(M) /\ SelectedTrustee(M, f.pk, t)
  BY <1>2, <1>3, KeysOfFacts, MixersAre
<1>5. ~MixSignature(M, f.pk, f.in, f.out, t)
  BY <1>2, SignersAre
<1>6. t \in Configured(M)
  <2>1. t \in TrusteeList
    BY TrusteesAssumption DEF Trustees, TrusteeList
  <2> QED
    BY <2>1, SendersAre
<1> HIDE DEF f
<1>7. <<f, t>> \in {a \in Facts(M, "Mix") \X Configured(M) :
            /\ a[1].pk \in PublicKeysAll(M)
            /\ SelectedTrustee(M, a[1].pk, a[2])
            /\ ~MixSignature(M, a[1].pk, a[1].in, a[1].out, a[2])}
  BY <1>1, <1>4, <1>5, <1>6
<1>8. [action |-> "SignMix", pk |-> f.pk, in |-> f.in, out |-> f.out, self |-> t] \in SignMix(M)
  <2>1. PICK x \in {a \in Facts(M, "Mix") \X Configured(M) :
            /\ a[1].pk \in PublicKeysAll(M)
            /\ SelectedTrustee(M, a[1].pk, a[2])
            /\ ~MixSignature(M, a[1].pk, a[1].in, a[1].out, a[2])} : x[1] = f /\ x[2] = t
    BY <1>7
  <2>2. [action |-> "SignMix", pk |-> x[1].pk, in |-> x[1].in, out |-> x[1].out,
         self |-> x[2]] \in SignMix(M)
    BY <2>1 DEF SignMix
  <2> QED
    BY <2>1, <2>2
<1> QED
  BY <1>2, <1>8 DEF SignDue, Actions

(* The messages of a trustee come one after the other: with each one it    *)
(* needs, it needs those of its own before it.                             *)
RoundDue(b, k, t) == IF k = t THEN MixDue(FirstKey, MixOf(b, t - 1), t) ELSE SignDue(b, k, t)

LEMMA StagesAre ==
    ASSUME NEW b, NEW S, Closed(b, S), NEW t \in Trustees, NEW a, NEW m,
           m \notin S, Leads(b, S, t, a, m)
    PROVE  \/ a = SharesDue(t) /\ Dealt(t) \notin S
           \/ a = KeyDue(t) /\ Dealt(t) \in S /\ Joint(t) \notin S
           \/ /\ Dealt(t) \in S /\ Joint(t) \in S
              /\ t \in Mixers
              /\ \/ \E k \in Mixers :
                       /\ a = RoundDue(b, k, t) /\ MixMsg(b, k, t) \notin S
                       /\ \A j \in 1..k - 1 : MixMsg(b, j, t) \in S
                 \/ /\ \A k \in Mixers : MixMsg(b, k, t) \in S
                    /\ a = FactorsDue(b, t) /\ Factors(b, t) \notin S
                 \/ /\ \A k \in Mixers : MixMsg(b, k, t) \in S
                    /\ a = PlainDue(b, t, AllFactors(b)) /\ Factors(b, t) \in S
<1>1. 1 \in Mixers
  BY TrusteesAssumption DEF Mixers
<1>2. CASE a = SharesDue(t) /\ m = Dealt(t)
  BY <1>2
<1>3. CASE a = KeyDue(t) /\ m = Joint(t) /\ \A u \in Trustees : Dealt(u) \in S
  BY <1>3
<1>4. ASSUME Opening(b) \in S PROVE Dealt(t) \in S /\ Joint(t) \in S
  BY <1>4, ClosedMeans
<1>5. CASE /\ t \in Mixers
           /\ a = MixDue(FirstKey, MixOf(b, t - 1), t) /\ m = MixMsg(b, t, t)
           /\ Opening(b) \in S
           /\ \A j \in 1..t - 1 : \A u \in Mixers : MixMsg(b, j, u) \in S
  BY <1>4, <1>5 DEF RoundDue
<1>6. ASSUME NEW k \in Mixers, t \in Mixers, a = SignDue(b, k, t), m = MixMsg(b, k, t),
             k # t, MixMsg(b, k, k) \in S
      PROVE  /\ Opening(b) \in S /\ a = RoundDue(b, k, t) /\ MixMsg(b, k, t) \notin S
             /\ \A j \in 1..k - 1 : MixMsg(b, j, t) \in S
  BY <1>6, ClosedMeans DEF RoundDue
<1>7. CASE /\ t \in Mixers
           /\ a = FactorsDue(b, t) /\ m = Factors(b, t)
           /\ \A j, u \in Mixers : MixMsg(b, j, u) \in S
  <2>1. Opening(b) \in S
    BY <1>1, <1>7, ClosedMeans
  <2> QED
    BY <1>4, <1>7, <2>1
<1>8. CASE /\ t \in Mixers
           /\ a = PlainDue(b, t, AllFactors(b)) /\ m = Plain(b, t)
           /\ \A u \in Mixers : Factors(b, u) \in S
  <2>1. Opening(b) \in S /\ \A j, u \in Mixers : MixMsg(b, j, u) \in S
    BY <1>1, <1>8, ClosedMeans
  <2> QED
    BY <1>4, <1>8, <2>1
<1> QED
  BY <1>2, <1>3, <1>4, <1>5, <1>6, <1>7, <1>8 DEF Leads

LEMMA OneDue ==
    ASSUME NEW b, NEW S, Closed(b, S), NEW t \in Trustees,
           NEW a, NEW m, m \notin S, Leads(b, S, t, a, m),
           NEW c, NEW n, n \notin S, Leads(b, S, t, c, n)
    PROVE  a = c
<1>1. \A j, k \in Mixers : j = k \/ j \in 1..k - 1 \/ k \in 1..j - 1
  BY DEF Mixers
<1>2. ASSUME NEW j \in Mixers, NEW k \in Mixers,
             MixMsg(b, j, t) \notin S, \A i \in 1..j - 1 : MixMsg(b, i, t) \in S,
             MixMsg(b, k, t) \notin S, \A i \in 1..k - 1 : MixMsg(b, i, t) \in S
      PROVE  j = k
  BY <1>1, <1>2
<1>3. \/ a = SharesDue(t) /\ Dealt(t) \notin S
      \/ a = KeyDue(t) /\ Dealt(t) \in S /\ Joint(t) \notin S
      \/ /\ Dealt(t) \in S /\ Joint(t) \in S
         /\ t \in Mixers
         /\ \/ \E k \in Mixers :
                  /\ a = RoundDue(b, k, t) /\ MixMsg(b, k, t) \notin S
                  /\ \A j \in 1..k - 1 : MixMsg(b, j, t) \in S
            \/ /\ \A k \in Mixers : MixMsg(b, k, t) \in S
               /\ a = FactorsDue(b, t) /\ Factors(b, t) \notin S
            \/ /\ \A k \in Mixers : MixMsg(b, k, t) \in S
               /\ a = PlainDue(b, t, AllFactors(b)) /\ Factors(b, t) \in S
  BY StagesAre
<1>4. \/ c = SharesDue(t) /\ Dealt(t) \notin S
      \/ c = KeyDue(t) /\ Dealt(t) \in S /\ Joint(t) \notin S
      \/ /\ Dealt(t) \in S /\ Joint(t) \in S
         /\ t \in Mixers
         /\ \/ \E k \in Mixers :
                  /\ c = RoundDue(b, k, t) /\ MixMsg(b, k, t) \notin S
                  /\ \A j \in 1..k - 1 : MixMsg(b, j, t) \in S
            \/ /\ \A k \in Mixers : MixMsg(b, k, t) \in S
               /\ c = FactorsDue(b, t) /\ Factors(b, t) \notin S
            \/ /\ \A k \in Mixers : MixMsg(b, k, t) \in S
               /\ c = PlainDue(b, t, AllFactors(b)) /\ Factors(b, t) \in S
  BY StagesAre
<1> QED
  BY <1>2, <1>3, <1>4

-------------------------------------------------------------------------------
(* Boards of scripted messages, each after those it needs.                 *)

Past(bb, i) == {bb[j] : j \in {k \in DOMAIN bb : k < i}}

Ordered(b, bb) ==
    /\ Len(bb) \in Nat /\ DOMAIN bb = 1..Len(bb)
    /\ \A i \in DOMAIN bb : Scripted(b, bb[i]) /\ Needs(b, bb[i]) \subseteq Past(bb, i)
    /\ \A i, j \in DOMAIN bb : bb[i] = bb[j] => i = j
    /\ \A s \in TrusteeList : SetupMsg(s) \in RangeOf(bb)

LEMMA OrderedIsClosed ==
    ASSUME NEW b, NEW bb, Ordered(b, bb)
    PROVE  Closed(b, RangeOf(bb))
<1>1. \A i : Past(bb, i) \subseteq RangeOf(bb)
  BY DEF Past, RangeOf
<1>2. \A m \in RangeOf(bb) : Scripted(b, m) /\ Needs(b, m) \subseteq RangeOf(bb)
  BY <1>1 DEF RangeOf, Ordered
<1> QED
  BY <1>2 DEF Closed, Ordered

LEMMA PastIsClosed ==
    ASSUME NEW b, NEW bb, Ordered(b, bb), NEW i \in 1..Len(bb) + 1
    PROVE  \A m \in Past(bb, i) : Needs(b, m) \subseteq Past(bb, i)
<1>1. Len(bb) \in Nat /\ DOMAIN bb = 1..Len(bb)
  BY DEF Ordered
<1> SUFFICES ASSUME NEW m \in Past(bb, i) PROVE Needs(b, m) \subseteq Past(bb, i)
  OBVIOUS
<1>2. PICK j \in DOMAIN bb : j < i /\ m = bb[j]
  BY DEF Past
<1>3. Needs(b, m) \subseteq Past(bb, j)
  BY <1>2 DEF Ordered
<1>4. \A k \in DOMAIN bb : k < j => k < i
  BY <1>1, <1>2
<1>5. Past(bb, j) \subseteq Past(bb, i)
  BY <1>4 DEF Past
<1> QED
  BY <1>3, <1>5

(* What is on the board before a message of mixing or decryption.          *)
LEMMA PastOfMixing ==
    ASSUME NEW b, NEW bb, Ordered(b, bb), NEW i \in DOMAIN bb
    PROVE  /\ bb[i].type = "MixInitialization" => Joint(1) \in Past(bb, i)
           /\ bb[i].type \in MixingPhase =>
                 Joint(1) \in Past(bb, i) /\ Opening(b) \in Past(bb, i)
           /\ \A k, s \in Mixers : bb[i] = MixMsg(b, k, s) =>
                 \A j \in 1..k - 1 : \A u \in Mixers : MixMsg(b, j, u) \in Past(bb, i)
           /\ bb[i].type \in {"PartialDecryptions", "DecryptedBallots"} =>
                 \A k, u \in Mixers : MixMsg(b, k, u) \in Past(bb, i)
<1> DEFINE P == Past(bb, i)
<1>1. i \in 1..Len(bb) + 1 /\ Scripted(b, bb[i]) /\ Needs(b, bb[i]) \subseteq P
  BY DEF Ordered
<1>2. \A m \in P : Needs(b, m) \subseteq P
  BY <1>1, PastIsClosed
<1>3. 1 \in Trustees /\ 1 \in Mixers
  BY TrusteesAssumption DEF Trustees, Mixers
<1> HIDE DEF P
<1>4. Opening(b) \in P => Joint(1) \in P
  BY <1>2, <1>3, NeedsMean
<1>5. CASE bb[i].type = "MixInitialization"
  <2>1. bb[i] = Opening(b)
    BY <1>1, <1>5, ScriptedByType
  <2>2. Joint(1) \in P
    BY <1>1, <1>3, <2>1, NeedsAre
  <2>3. bb[i].type \notin
           MixingPhase \cup {"EGCryptograms", "PartialDecryptions", "DecryptedBallots"}
    BY <1>5 DEF MixingPhase
  <2>4. \A k, s : MixMsg(b, k, s).type = "EGCryptograms"
    BY DEF MixMsg, EGCryptogramsMsg
  <2> QED
    BY <2>2, <2>3, <2>4 DEF P
<1>6. CASE bb[i].type = "EGCryptograms"
  <2>1. PICK k \in Mixers, s \in Mixers : bb[i] = MixMsg(b, k, s)
    BY <1>1, <1>6, ScriptedByType
  <2>2. \A n : n = Opening(b) => n \in P
    BY <1>1, <2>1, NeedsOfMix
  <2>3. ASSUME NEW j \in Mixers, NEW u \in Mixers, bb[i] = MixMsg(b, j, u),
               NEW h \in 1..j - 1, NEW v \in Mixers
        PROVE  MixMsg(b, h, v) \in P
    BY <1>1, <2>3, NeedsOfMix
  <2> QED
    BY <1>4, <1>6, <2>2, <2>3 DEF P
<1>7. CASE bb[i].type = "PartialDecryptions"
  <2>1. PICK s \in Mixers : bb[i] = Factors(b, s)
    BY <1>1, <1>7, ScriptedByType
  <2>2. \A k, u \in Mixers : MixMsg(b, k, u) \in P
    <3>1. \A n : n \in Needs(b, Factors(b, s)) <=> \E j, u \in Mixers : n = MixMsg(b, j, u)
      BY NeedsAre
    <3> QED
      BY <1>1, <2>1, <3>1
  <2>3. Opening(b) \in P
    BY <1>2, <1>3, <2>2, NeedsMean
  <2>4. \A k, u : MixMsg(b, k, u).type = "EGCryptograms"
    BY DEF MixMsg, EGCryptogramsMsg
  <2> QED
    BY <1>4, <1>7, <2>2, <2>3, <2>4 DEF P
<1>8. CASE bb[i].type = "DecryptedBallots"
  <2>1. PICK s \in Mixers : bb[i] = Plain(b, s)
    BY <1>1, <1>8, ScriptedByType
  <2>2. Factors(b, 1) \in P
    <3>1. \A n : n \in Needs(b, Plain(b, s)) <=> \E u \in Mixers : n = Factors(b, u)
      BY NeedsAre
    <3> QED
      BY <1>1, <1>3, <2>1, <3>1
  <2>3. Opening(b) \in P /\ \A k, u \in Mixers : MixMsg(b, k, u) \in P
    BY <1>2, <1>3, <2>2, NeedsMean
  <2>4. \A k, u : MixMsg(b, k, u).type = "EGCryptograms"
    BY DEF MixMsg, EGCryptogramsMsg
  <2> QED
    BY <1>4, <1>8, <2>3, <2>4 DEF P
<1>9. CASE bb[i].type \notin MixingPhase \cup {"MixInitialization"}
  <2>1. \A k, u : MixMsg(b, k, u).type = "EGCryptograms"
    BY DEF MixMsg, EGCryptogramsMsg
  <2> QED
    BY <1>9, <2>1 DEF MixingPhase
<1> QED
  BY <1>5, <1>6, <1>7, <1>8, <1>9 DEF MixingPhase

(* The active list of such a board.                                        *)
LEMMA IdentityIs ==
    /\ Identity \in [1..Threshold -> Trustees] /\ Identity \in Seq(Trustees)
    /\ Len(Identity) = Threshold /\ Identity # << >>
    /\ DOMAIN Identity = Mixers /\ RangeOf(Identity) = Mixers
    /\ \A k \in Mixers : Identity[k] = k /\ ActiveIndex(Identity, k) = k
<1>1. Mixers = 1..Threshold /\ Threshold \in Nat /\ Threshold >= 1 /\ Mixers \subseteq Trustees
  BY TrusteesAssumption DEF Mixers, Trustees
<1>2. Identity \in [1..Threshold -> Trustees] /\ \A k \in Mixers : Identity[k] = k
  BY <1>1 DEF Identity
<1>3. Identity \in Seq(Trustees) /\ Len(Identity) = Threshold
  BY <1>1, <1>2, FunctionIsSeq
<1>4. Identity # << >>
  BY <1>1, <1>3
<1>5. DOMAIN Identity = Mixers
  BY DEF Identity
<1>6. RangeOf(Identity) = Mixers
  BY <1>2, <1>5 DEF RangeOf
<1>7. ASSUME NEW k \in Mixers PROVE ActiveIndex(Identity, k) = k
  <2>1. {j \in DOMAIN Identity : Identity[j] = k} = {k}
    BY <1>2, <1>5
  <2>2. First({k}) \in {k}
    <3>1. {k} \subseteq Nat /\ {k} # {}
      BY <1>1
    <3> QED
      BY <3>1, FirstIs
  <2> QED
    BY <2>1, <2>2 DEF ActiveIndex
<1> QED
  BY <1>2, <1>3, <1>4, <1>5, <1>6, <1>7

LEMMA ActiveOfOrdered ==
    ASSUME NEW b, NEW bb, Ordered(b, bb)
    PROVE  ActiveOf(bb) = IF Opening(b) \in RangeOf(bb) THEN Identity ELSE << >>
<1>1. DOMAIN bb \subseteq Nat /\ \A i \in DOMAIN bb : Scripted(b, bb[i])
  BY DEF Ordered
<1>2. \A i \in Posted(bb, "MixInitialization") : i \in DOMAIN bb /\ bb[i] = Opening(b)
  BY <1>1, ScriptedByType DEF Posted
<1>3. Opening(b).type = "MixInitialization" /\ Opening(b).active_trustees = Identity
  BY MessageFields
<1>4. CASE Opening(b) \in RangeOf(bb)
  <2>1. Posted(bb, "MixInitialization") # {}
    BY <1>3, <1>4 DEF RangeOf, Posted
  <2>2. First(Posted(bb, "MixInitialization")) \in Posted(bb, "MixInitialization")
    <3>1. Posted(bb, "MixInitialization") \subseteq Nat
      BY <1>1 DEF Posted
    <3> QED
      BY <2>1, <3>1, FirstIs
  <2> QED
    BY <1>2, <1>3, <1>4, <2>1, <2>2 DEF ActiveOf, PopulateActive
<1>5. CASE Opening(b) \notin RangeOf(bb)
  <2>1. Posted(bb, "MixInitialization") = {}
    BY <1>2, <1>5 DEF RangeOf
  <2> QED
    BY <1>5, <2>1 DEF ActiveOf, PopulateActive
<1> QED
  BY <1>4, <1>5

LEMMA UnmixedIs ==
    ASSUME NEW b
    PROVE  Unmixed(b) = MixOf(b, 0)
<1>1. [j \in 1..0 |-> <<j, 0>>] = << >>
  OBVIOUS
<1> QED
  BY <1>1 DEF Unmixed, MixOf, Ciphertexts

(* The rounds on such a board, and the key.                                *)
LEMMA RoundAt ==
    ASSUME NEW b, NEW bb, Ordered(b, bb), NEW i, NEW r \in 0..Threshold,
           r = 0 => Opening(b) \in Past(bb, i),
           r # 0 => MixMsg(b, r, r) \in Past(bb, i)
    PROVE  /\ RoundExists(bb, i, Identity, r)
           /\ RoundOutput(bb, i, Identity, r) = MixOf(b, r)
<1>1. DOMAIN bb \subseteq Nat /\ \A j \in DOMAIN bb : Scripted(b, bb[j])
  BY DEF Ordered
<1>2. CASE r = 0
  <2> DEFINE B == Before(i, Posted(bb, "MixInitialization"))
  <2>1. Opening(b).type = "MixInitialization" /\ Opening(b).ballots = b
    BY MessageFields
  <2>2. \A j \in B : j \in DOMAIN bb /\ bb[j] = Opening(b)
    BY <1>1, ScriptedByType DEF Before, Posted
  <2>3. B # {}
    BY <1>2, <2>1 DEF Before, Posted, Past
  <2>4. First(B) \in B
    <3>1. B \subseteq Nat
      BY <1>1, <2>2
    <3> HIDE DEF B
    <3> QED
      BY <2>3, <3>1, FirstIs
  <2>5. RoundOutput(bb, i, Identity, r) = Unmixed(bb[First(B)].ballots)
    BY <1>2 DEF RoundOutput
  <2>6. RoundExists(bb, i, Identity, r)
    BY <1>2, <2>3 DEF RoundExists
  <2> HIDE DEF B
  <2> QED
    BY <1>2, <2>1, <2>2, <2>4, <2>5, <2>6, UnmixedIs
<1>3. CASE r # 0
  <2> DEFINE B == Before(i, MixesOfRound(bb, Identity, r))
  <2>0. r \in Mixers
    BY <1>3, TrusteesAssumption DEF Mixers
  <2>1. /\ MixMsg(b, r, r).type = "EGCryptograms" /\ MixMsg(b, r, r).originator = r
        /\ MixMsg(b, r, r).signer = r /\ MixMsg(b, r, r).ciphertexts = MixOf(b, r)
    BY MessageFields
  <2>2. Identity[r] = r /\ r \in DOMAIN Identity
    BY <2>0, IdentityIs
  <2>3. \A j : j \in B <=> /\ j \in DOMAIN bb /\ j < i
                          /\ bb[j].type = "EGCryptograms"
                          /\ bb[j].originator = r /\ bb[j].signer = r
    BY <2>2 DEF Before, MixesOfRound, Posted
  <2> HIDE DEF B
  <2>4. \A j \in B : j \in DOMAIN bb /\ bb[j] = MixMsg(b, r, r)
    BY <1>1, <2>3, ScriptedByType
  <2>5. B # {}
    <3>1. PICK j \in DOMAIN bb : j < i /\ bb[j] = MixMsg(b, r, r)
      BY <1>3 DEF Past
    <3> QED
      BY <2>1, <2>3, <3>1
  <2>6. First(B) \in B
    <3>1. B \subseteq Nat
      BY <1>1, <2>4
    <3> QED
      BY <2>5, <3>1, FirstIs
  <2>7. RoundOutput(bb, i, Identity, r) = bb[First(B)].ciphertexts
    BY <1>3 DEF RoundOutput, B
  <2>8. RoundExists(bb, i, Identity, r)
    BY <1>3, <2>5 DEF RoundExists, B
  <2> QED
    BY <2>1, <2>4, <2>6, <2>7, <2>8
<1> QED
  BY <1>2, <1>3

LEMMA KeyAt ==
    ASSUME NEW b, NEW bb, Ordered(b, bb), NEW i, Joint(1) \in Past(bb, i)
    PROVE  /\ AscentPk(bb, i) = FirstKey
           /\ Before(i, Posted(bb, "ElectionPublicKey")) # {}
<1> DEFINE B == Before(i, Posted(bb, "ElectionPublicKey"))
<1>1. DOMAIN bb \subseteq Nat /\ \A j \in DOMAIN bb : Scripted(b, bb[j])
  BY DEF Ordered
<1>2. \A t : Joint(t).type = "ElectionPublicKey" /\ Joint(t).key = FirstKey
  BY MessageFields
<1>3. \A j \in B : j \in DOMAIN bb /\ bb[j].key = FirstKey
  <2> SUFFICES ASSUME NEW j \in B PROVE j \in DOMAIN bb /\ bb[j].key = FirstKey
    OBVIOUS
  <2>1. j \in DOMAIN bb /\ bb[j].type = "ElectionPublicKey"
    BY DEF Before, Posted
  <2>2. bb[j] = Joint(bb[j].signer)
    BY <1>1, <2>1, ScriptedByType
  <2> QED
    BY <1>2, <2>1, <2>2
<1>4. B # {}
  <2>1. PICK j \in DOMAIN bb : j < i /\ bb[j] = Joint(1)
    BY DEF Past
  <2> QED
    BY <1>2, <2>1 DEF Before, Posted
<1>5. First(B) \in B
  <2>1. B \subseteq Nat
    BY <1>1, <1>3
  <2> HIDE DEF B
  <2> QED
    BY <1>4, <2>1, FirstIs
<1>6. AscentPk(bb, i) = bb[First(B)].key
  BY DEF AscentPk
<1> HIDE DEF B
<1>7. AscentPk(bb, i) = FirstKey
  BY <1>3, <1>5, <1>6
<1> QED
  BY <1>4, <1>7 DEF B

(* The input of a message of mixing or decryption.                         *)
LEMMA InputAt ==
    ASSUME NEW b, NEW bb, Ordered(b, bb), NEW i \in DOMAIN bb, bb[i].type \in MixingPhase
    PROVE  LET r == InputRound(Identity, bb[i])
           IN  /\ r \in 0..Threshold
               /\ bb[i].type = "EGCryptograms" => r = bb[i].originator - 1
               /\ bb[i].type # "EGCryptograms" => r = Threshold
               /\ RoundExists(bb, i, Identity, r)
               /\ RoundOutput(bb, i, Identity, r) = MixOf(b, r)
               /\ bb[i].signer \in Mixers
               /\ bb[i].type = "EGCryptograms" => bb[i].originator \in Mixers
<1> DEFINE r == InputRound(Identity, bb[i])
<1>1. Scripted(b, bb[i])
  BY DEF Ordered
<1>2. Opening(b) \in Past(bb, i)
  BY PastOfMixing
<1>3. CASE bb[i].type = "EGCryptograms"
  <2>1. /\ bb[i].originator \in Mixers /\ bb[i].signer \in Mixers
        /\ bb[i] = MixMsg(b, bb[i].originator, bb[i].signer)
    BY <1>1, <1>3, ScriptedByType
  <2>2. r = bb[i].originator - 1
    BY <1>3, <2>1, IdentityIs DEF InputRound
  <2>3. r \in 0..Threshold /\ (r # 0 => r \in Mixers /\ r \in 1..bb[i].originator - 1)
    BY <2>1, <2>2, TrusteesAssumption DEF Mixers
  <2>4. r # 0 => MixMsg(b, r, r) \in Past(bb, i)
    BY <2>1, <2>3, PastOfMixing
  <2> HIDE DEF r
  <2>5. RoundExists(bb, i, Identity, r) /\ RoundOutput(bb, i, Identity, r) = MixOf(b, r)
    BY <1>2, <2>3, <2>4, RoundAt
  <2> QED
    BY <1>3, <2>1, <2>2, <2>3, <2>5 DEF r
<1>4. CASE bb[i].type # "EGCryptograms"
  <2>1. bb[i].type \in {"PartialDecryptions", "DecryptedBallots"}
    BY <1>4 DEF MixingPhase
  <2>2. bb[i].signer \in Mixers
    BY <1>1, <2>1, ScriptedByType
  <2>3. r = Threshold
    BY <1>4, IdentityIs DEF InputRound
  <2>4. Threshold \in Mixers /\ Threshold \in 0..Threshold
    BY TrusteesAssumption DEF Mixers
  <2>5. MixMsg(b, Threshold, Threshold) \in Past(bb, i)
    BY <2>1, <2>4, PastOfMixing
  <2> HIDE DEF r
  <2>6. RoundExists(bb, i, Identity, r) /\ RoundOutput(bb, i, Identity, r) = MixOf(b, r)
    BY <1>2, <2>3, <2>4, <2>5, RoundAt
  <2> QED
    BY <1>4, <2>2, <2>3, <2>4, <2>6 DEF r
<1> QED
  BY <1>3, <1>4

(* A message converts when it arrives, with the active list of the board   *)
(* before it.                                                              *)
LEMMA NewMessageConverts ==
    ASSUME NEW b, NEW bb, Ordered(b, bb), NEW i \in DOMAIN bb, NEW active,
           Opening(b) \in Past(bb, i) => active = Identity
    PROVE  Convertible(bb, i, TRUE, active) /\ ~ConversionPanics(bb, i, TRUE)
<1>1. Scripted(b, bb[i])
  BY DEF Ordered
<1>2. bb[i].type \in MixingPhase \cup {"MixInitialization"} => Joint(1) \in Past(bb, i)
  BY PastOfMixing
<1>3. ~ConversionPanics(bb, i, TRUE)
  BY <1>2, KeyAt DEF ConversionPanics
<1>4. CASE bb[i].type = "Setup"
  BY <1>3, <1>4 DEF Convertible
<1>5. CASE bb[i].type \in {"KeyShares", "ElectionPublicKey"}
  <2>1. bb[i].originator = bb[i].signer
    <3>1. /\ \A t : Dealt(t).originator = t
          /\ \A t : Joint(t).originator = t
      BY MessageFields
    <3> QED
      BY <1>1, <1>5, <3>1, ScriptedByType
  <2> QED
    BY <1>3, <1>5, <2>1 DEF Convertible
<1>6. CASE bb[i].type = "MixInitialization"
  <2>1. bb[i] = Opening(b)
    BY <1>1, <1>6, ScriptedByType
  <2>2. Len(bb[i].active_trustees) = Threshold
    BY <2>1, MessageFields, IdentityIs
  <2> QED
    BY <1>3, <1>6, <2>2 DEF Convertible
<1>7. CASE bb[i].type \in MixingPhase
  <2>1. active = Identity
    BY <1>7, PastOfMixing
  <2>2. /\ RoundExists(bb, i, Identity, InputRound(Identity, bb[i]))
        /\ bb[i].signer \in Mixers
        /\ bb[i].type = "EGCryptograms" => bb[i].originator \in Mixers
    BY <1>7, InputAt
  <2> QED
    BY <1>3, <1>7, <2>1, <2>2, IdentityIs DEF Convertible
<1>8. bb[i].type \in MessageTypes
  BY <1>1, ScriptedByType
<1> QED
  BY <1>4, <1>5, <1>6, <1>7, <1>8 DEF MessageTypes, MixingPhase

(* The facts of such a board.                                              *)
LEMMA FactAt ==
    ASSUME NEW b, NEW bb, Ordered(b, bb), NEW i \in DOMAIN bb, NEW active,
           active = ActiveOf(bb)
    PROVE  /\ \A s : bb[i] = SetupMsg(s) => Fact(bb, i, active) = ValidFact(s)
           /\ \A t : bb[i] = Dealt(t) => Fact(bb, i, active) = SharesFact(t)
           /\ \A t : bb[i] = Joint(t) => Fact(bb, i, active) = KeyFact(t)
           /\ bb[i] = Opening(b) => Fact(bb, i, active) = BallotsFact(b)
           /\ \A k, s \in Mixers :
                 bb[i] = MixMsg(b, k, s) => Fact(bb, i, active) = MixFact(b, k, s)
           /\ \A s \in Mixers : bb[i] = Factors(b, s) => Fact(bb, i, active) = FactorsFact(b, s)
           /\ \A s \in Mixers : bb[i] = Plain(b, s) => Fact(bb, i, active) = PlainFact(b, s)
<1>1. ASSUME NEW s, bb[i] = SetupMsg(s) PROVE Fact(bb, i, active) = ValidFact(s)
  <2>1. bb[i].type = "Setup" /\ bb[i].signer = s
    BY <1>1, MessageFields
  <2> QED
    BY <2>1 DEF Fact, ValidFact
<1>2. ASSUME NEW t, bb[i] = Dealt(t) PROVE Fact(bb, i, active) = SharesFact(t)
  <2>1. bb[i].type = "KeyShares" /\ bb[i].originator = t /\ bb[i].deal = 0
    BY <1>2, MessageFields
  <2> QED
    BY <2>1, FactsSay DEF SharesFact
<1>3. ASSUME NEW t, bb[i] = Joint(t) PROVE Fact(bb, i, active) = KeyFact(t)
  <2>1. bb[i].type = "ElectionPublicKey" /\ bb[i].originator = t /\ bb[i].key = FirstKey
    BY <1>3, MessageFields
  <2> QED
    BY <2>1, FactsSay DEF KeyFact
<1>4. ASSUME bb[i] = Opening(b) PROVE Fact(bb, i, active) = BallotsFact(b)
  <2>1. /\ bb[i].type = "MixInitialization" /\ bb[i].active_trustees = Identity
        /\ bb[i].ballots = b
    BY <1>4, MessageFields
  <2>2. AscentPk(bb, i) = FirstKey
    BY <2>1, PastOfMixing, KeyAt
  <2>3. [k \in DOMAIN Identity |-> k] = Identity
    BY IdentityIs DEF Identity
  <2> QED
    BY <2>1, <2>2, <2>3, FactsSay, UnmixedIs DEF BallotsFact
<1> DEFINE r == InputRound(Identity, bb[i])
<1>5. ASSUME bb[i].type \in MixingPhase
      PROVE  /\ active = Identity /\ AscentPk(bb, i) = FirstKey
             /\ RoundOutput(bb, i, active, InputRound(active, bb[i])) = MixOf(b, r)
             /\ bb[i].type = "EGCryptograms" => r = bb[i].originator - 1
             /\ bb[i].type # "EGCryptograms" => r = Threshold
  <2>1. Opening(b) \in Past(bb, i) /\ Joint(1) \in Past(bb, i)
    BY <1>5, PastOfMixing
  <2>2. Opening(b) \in RangeOf(bb)
    BY <2>1 DEF Past, RangeOf
  <2>3. active = Identity
    BY <2>2, ActiveOfOrdered
  <2>4. AscentPk(bb, i) = FirstKey
    BY <2>1, KeyAt
  <2>5. /\ RoundOutput(bb, i, Identity, r) = MixOf(b, r)
        /\ bb[i].type = "EGCryptograms" => r = bb[i].originator - 1
        /\ bb[i].type # "EGCryptograms" => r = Threshold
    BY <1>5, InputAt
  <2> QED
    BY <2>3, <2>4, <2>5
<1> HIDE DEF r
<1>6. ASSUME NEW k \in Mixers, NEW s \in Mixers, bb[i] = MixMsg(b, k, s)
      PROVE  Fact(bb, i, active) = MixFact(b, k, s)
  <2>1. /\ bb[i].type = "EGCryptograms" /\ bb[i].originator = k /\ bb[i].signer = s
        /\ bb[i].ciphertexts = MixOf(b, k)
    <3>1. /\ MixMsg(b, k, s).type = "EGCryptograms" /\ MixMsg(b, k, s).originator = k
          /\ MixMsg(b, k, s).signer = s /\ MixMsg(b, k, s).ciphertexts = MixOf(b, k)
      BY DEF MixMsg, EGCryptogramsMsg
    <3> QED
      BY <1>6, <3>1
  <2>2. /\ active = Identity /\ AscentPk(bb, i) = FirstKey
        /\ RoundOutput(bb, i, active, InputRound(active, bb[i])) = MixOf(b, r)
        /\ r = k - 1
    BY <1>5, <2>1 DEF MixingPhase
  <2>3. ActiveIndex(active, s) = s
    BY <1>6, <2>2, IdentityIs
  <2> QED
    BY <2>1, <2>2, <2>3, FactsSay DEF MixFact
<1>7. ASSUME NEW s \in Mixers, bb[i] = Factors(b, s)
      PROVE  Fact(bb, i, active) = FactorsFact(b, s)
  <2>1. /\ bb[i].type = "PartialDecryptions" /\ bb[i].signer = s
        /\ bb[i].factors_of = MixOf(b, Threshold) /\ bb[i].proofs = 0
    BY <1>7, MessageFields
  <2>2. /\ active = Identity /\ AscentPk(bb, i) = FirstKey
        /\ RoundOutput(bb, i, active, InputRound(active, bb[i])) = MixOf(b, r)
        /\ r = Threshold
    BY <1>5, <2>1 DEF MixingPhase
  <2>3. ActiveIndex(active, s) = s
    BY <1>7, <2>2, IdentityIs
  <2> QED
    BY <2>1, <2>2, <2>3, FactsSay DEF FactorsFact
<1>8. ASSUME NEW s \in Mixers, bb[i] = Plain(b, s)
      PROVE  Fact(bb, i, active) = PlainFact(b, s)
  <2>1. /\ bb[i].type = "DecryptedBallots" /\ bb[i].signer = s
        /\ bb[i].plaintexts_of = MixOf(b, Threshold)
    BY <1>8, MessageFields
  <2>2. /\ active = Identity /\ AscentPk(bb, i) = FirstKey
        /\ RoundOutput(bb, i, active, InputRound(active, bb[i])) = MixOf(b, r)
        /\ r = Threshold
    BY <1>5, <2>1 DEF MixingPhase
  <2>3. ActiveIndex(active, s) = s
    BY <1>8, <2>2, IdentityIs
  <2> QED
    BY <2>1, <2>2, <2>3, FactsSay DEF PlainFact
<1> QED
  BY <1>1, <1>2, <1>3, <1>4, <1>6, <1>7, <1>8

LEMMA FactsReport ==
    ASSUME NEW b, NEW bb, Ordered(b, bb)
    PROVE  Reported(b, FactsOf(bb, ActiveOf(bb)), RangeOf(bb))
<1> DEFINE active == ActiveOf(bb)
           S == RangeOf(bb)
<1>1. \A m : m \in FactsOf(bb, active) <=> \E i \in DOMAIN bb : m = Fact(bb, i, active)
  BY DEF FactsOf
<1>2. \A i \in DOMAIN bb :
         /\ \A s : bb[i] = SetupMsg(s) => Fact(bb, i, active) = ValidFact(s)
         /\ \A t : bb[i] = Dealt(t) => Fact(bb, i, active) = SharesFact(t)
         /\ \A t : bb[i] = Joint(t) => Fact(bb, i, active) = KeyFact(t)
         /\ bb[i] = Opening(b) => Fact(bb, i, active) = BallotsFact(b)
         /\ \A k, s \in Mixers :
               bb[i] = MixMsg(b, k, s) => Fact(bb, i, active) = MixFact(b, k, s)
         /\ \A s \in Mixers : bb[i] = Factors(b, s) => Fact(bb, i, active) = FactorsFact(b, s)
         /\ \A s \in Mixers : bb[i] = Plain(b, s) => Fact(bb, i, active) = PlainFact(b, s)
  BY FactAt
<1>3. \A i \in DOMAIN bb : Scripted(b, bb[i]) /\ bb[i] \in S
  BY DEF Ordered, RangeOf
<1>4. \A n \in S : \E i \in DOMAIN bb : bb[i] = n
  BY DEF RangeOf
<1> HIDE DEF active, S
<1> DEFINE Told(m) ==
        \/ \E s \in TrusteeList : SetupMsg(s) \in S /\ m = ValidFact(s)
        \/ \E t \in Trustees : Dealt(t) \in S /\ m = SharesFact(t)
        \/ \E t \in Trustees : Joint(t) \in S /\ m = KeyFact(t)
        \/ Opening(b) \in S /\ m = BallotsFact(b)
        \/ \E k, s \in Mixers : MixMsg(b, k, s) \in S /\ m = MixFact(b, k, s)
        \/ \E s \in Mixers : Factors(b, s) \in S /\ m = FactorsFact(b, s)
        \/ \E s \in Mixers : Plain(b, s) \in S /\ m = PlainFact(b, s)
<1>5. ASSUME NEW i \in DOMAIN bb PROVE Told(Fact(bb, i, active))
  <2>1. Scripted(b, bb[i]) /\ bb[i] \in S
    BY <1>3
  <2> QED
    BY <1>2, <2>1 DEF Scripted
<1>6. ASSUME NEW m, Told(m) PROVE m \in FactsOf(bb, active)
  <2>1. \A n, f : n \in S /\ (\A i \in DOMAIN bb : bb[i] = n => Fact(bb, i, active) = f)
                     => f \in FactsOf(bb, active)
    BY <1>1, <1>4
  <2>2. ASSUME NEW s, SetupMsg(s) \in S PROVE ValidFact(s) \in FactsOf(bb, active)
    BY <1>2, <2>1, <2>2
  <2>3. ASSUME NEW t, Dealt(t) \in S PROVE SharesFact(t) \in FactsOf(bb, active)
    BY <1>2, <2>1, <2>3
  <2>4. ASSUME NEW t, Joint(t) \in S PROVE KeyFact(t) \in FactsOf(bb, active)
    BY <1>2, <2>1, <2>4
  <2>5. ASSUME Opening(b) \in S PROVE BallotsFact(b) \in FactsOf(bb, active)
    BY <1>2, <2>1, <2>5
  <2>6. ASSUME NEW k \in Mixers, NEW s \in Mixers, MixMsg(b, k, s) \in S
        PROVE  MixFact(b, k, s) \in FactsOf(bb, active)
    BY <1>2, <2>1, <2>6
  <2>7. ASSUME NEW s \in Mixers, Factors(b, s) \in S
        PROVE  FactorsFact(b, s) \in FactsOf(bb, active)
    BY <1>2, <2>1, <2>7
  <2>8. ASSUME NEW s \in Mixers, Plain(b, s) \in S
        PROVE  PlainFact(b, s) \in FactsOf(bb, active)
    BY <1>2, <2>1, <2>8
  <2> QED
    BY <1>6, <2>2, <2>3, <2>4, <2>5, <2>6, <2>7, <2>8
<1> HIDE DEF Told
<1>7. \A m : m \in FactsOf(bb, active) <=> Told(m)
  BY <1>1, <1>5, <1>6
<1> QED
  BY <1>7 DEF Told, Reported, active, S

(* A message for each number up to n takes n positions of the board.       *)
LEMMA OnePositionEach ==
    ASSUME NEW bb, \A i, j \in DOMAIN bb : bb[i] = bb[j] => i = j, NEW n \in Nat, NEW g,
           \A u \in 1..n : g[u] \in RangeOf(bb), \A u, v \in 1..n : g[u] = g[v] => u = v,
           NEW P, \A i : i \in P <=> i \in DOMAIN bb /\ \E u \in 1..n : bb[i] = g[u]
    PROVE  IsFiniteSet(P) /\ Cardinality(P) = n
<1> DEFINE h == [u \in 1..n |-> CHOOSE i \in DOMAIN bb : bb[i] = g[u]]
<1>1. \A u \in 1..n : h[u] \in DOMAIN bb /\ bb[h[u]] = g[u]
  <2> SUFFICES ASSUME NEW u \in 1..n PROVE h[u] \in DOMAIN bb /\ bb[h[u]] = g[u]
    OBVIOUS
  <2>1. \E i \in DOMAIN bb : bb[i] = g[u]
    BY DEF RangeOf
  <2> QED
    BY <2>1
<1>2. h \in [1..n -> P]
  <2>1. h = [u \in 1..n |-> h[u]]
    OBVIOUS
  <2> HIDE DEF h
  <2> QED
    BY <1>1, <2>1
<1> HIDE DEF h
<1>3. \A u, v \in 1..n : h[u] = h[v] => u = v
  BY <1>1
<1>4. \A i \in P : \E u \in 1..n : h[u] = i
  BY <1>1
<1>5. h \in Bijection(1..n, P)
  BY <1>2, <1>3, <1>4 DEF Bijection, Injection, Surjection, IsInjective
<1>6. ExistsBijection(1..n, P)
  BY <1>5 DEF ExistsBijection
<1>7. IsFiniteSet(1..n)
  BY FS_Interval
<1> QED
  BY <1>6, <1>7, FS_Bijection, FS_CountingElements

LEMMA SharesOfAll ==
    ASSUME NEW b, NEW bb, Ordered(b, bb), \A u \in Trustees : Dealt(u) \in RangeOf(bb)
    PROVE  AllKeyShares(bb)
<1> DEFINE g == [u \in Trustees |-> Dealt(u)]
<1>1. \A i \in DOMAIN bb : Scripted(b, bb[i])
  BY DEF Ordered
<1>2. \A u : Dealt(u).type = "KeyShares" /\ Dealt(u).signer = u
  BY MessageFields
<1>3. \A i : i \in Posted(bb, "KeyShares") <=>
                i \in DOMAIN bb /\ \E u \in Trustees : bb[i] = g[u]
  <2> SUFFICES ASSUME NEW i
               PROVE  i \in Posted(bb, "KeyShares") <=>
                         i \in DOMAIN bb /\ \E u \in Trustees : bb[i] = g[u]
    OBVIOUS
  <2>1. i \in Posted(bb, "KeyShares") <=> i \in DOMAIN bb /\ bb[i].type = "KeyShares"
    BY DEF Posted
  <2>2. ASSUME i \in DOMAIN bb, bb[i].type = "KeyShares"
        PROVE  \E u \in Trustees : bb[i] = g[u]
    BY <1>1, <2>2, ScriptedByType
  <2>3. ASSUME NEW u \in Trustees, bb[i] = g[u]
        PROVE  bb[i].type = "KeyShares"
    BY <1>2, <2>3
  <2> QED
    BY <2>1, <2>2, <2>3
<1>4. \A u, v \in Trustees : g[u] = g[v] => u = v
  <2>1. \A u \in Trustees : g[u].signer = u
    BY <1>2
  <2> QED
    BY <2>1
<1>5. \A u \in Trustees : g[u] \in RangeOf(bb)
  OBVIOUS
<1>6. \A i, j \in DOMAIN bb : bb[i] = bb[j] => i = j
  BY DEF Ordered
<1> HIDE DEF g
<1>7. Cardinality(Posted(bb, "KeyShares")) = NumTrustees
  BY <1>3, <1>4, <1>5, <1>6, TrusteesAssumption, OnePositionEach DEF Trustees
<1> QED
  BY <1>7 DEF AllKeyShares

LEMMA FactorsOfAll ==
    ASSUME NEW b, NEW bb, Ordered(b, bb), \A u \in Mixers : Factors(b, u) \in RangeOf(bb)
    PROVE  Cardinality(FirstDecryptions(bb)) = Threshold
<1> DEFINE g == [u \in Mixers |-> Factors(b, u)]
           P == Posted(bb, "PartialDecryptions")
<1>1. \A i \in DOMAIN bb : Scripted(b, bb[i])
  BY DEF Ordered
<1>2. \A u : Factors(b, u).type = "PartialDecryptions" /\ Factors(b, u).signer = u
  BY MessageFields
<1>3. \A i : i \in P <=> i \in DOMAIN bb /\ \E u \in Mixers : bb[i] = g[u]
  <2> SUFFICES ASSUME NEW i
               PROVE  i \in P <=> i \in DOMAIN bb /\ \E u \in Mixers : bb[i] = g[u]
    OBVIOUS
  <2>1. i \in P <=> i \in DOMAIN bb /\ bb[i].type = "PartialDecryptions"
    BY DEF Posted
  <2>2. ASSUME i \in DOMAIN bb, bb[i].type = "PartialDecryptions"
        PROVE  \E u \in Mixers : bb[i] = g[u]
    BY <1>1, <2>2, ScriptedByType
  <2>3. ASSUME NEW u \in Mixers, bb[i] = g[u]
        PROVE  bb[i].type = "PartialDecryptions"
    BY <1>2, <2>3
  <2> QED
    BY <2>1, <2>2, <2>3
<1>4. \A u, v \in Mixers : g[u] = g[v] => u = v
  <2>1. \A u \in Mixers : g[u].signer = u
    BY <1>2
  <2> QED
    BY <2>1
<1>5. \A u \in Mixers : g[u] \in RangeOf(bb)
  OBVIOUS
<1>6. \A i, j \in DOMAIN bb : bb[i] = bb[j] => i = j
  BY DEF Ordered
<1>7. FirstDecryptions(bb) = {i \in P : Cardinality(Before(i, P)) < Threshold}
  BY DEF FirstDecryptions
<1>8. DOMAIN bb \subseteq Nat
  BY DEF Ordered
<1>9. P \subseteq Nat
  BY <1>8 DEF Posted
<1> HIDE DEF g, P
<1>10. IsFiniteSet(P) /\ Cardinality(P) = Threshold
  BY <1>3, <1>4, <1>5, <1>6, TrusteesAssumption, OnePositionEach DEF Mixers
<1>11. ASSUME NEW i \in P PROVE Cardinality(Before(i, P)) < Threshold
  <2>1. Before(i, P) \subseteq P \ {i}
    BY <1>9 DEF Before
  <2>2. IsFiniteSet(P \ {i}) /\ Cardinality(P \ {i}) = Threshold - 1
    BY <1>10, FS_RemoveElement
  <2>3. Cardinality(Before(i, P)) <= Threshold - 1 /\ IsFiniteSet(Before(i, P))
    BY <2>1, <2>2, FS_Subset
  <2>4. Cardinality(Before(i, P)) \in Nat
    BY <2>3, FS_CardinalityType
  <2> QED
    BY <2>3, <2>4, TrusteesAssumption
<1>12. FirstDecryptions(bb) = P
  BY <1>7, <1>11
<1> QED
  BY <1>10, <1>12

-------------------------------------------------------------------------------
(* The mixes that the actions read off the board.                          *)

LEMMA MixesPosted ==
    ASSUME NEW b, NEW bb, Ordered(b, bb), NEW i \in Posted(bb, "EGCryptograms")
    PROVE  /\ i \in DOMAIN bb
           /\ bb[i].originator \in Mixers /\ bb[i].signer \in Mixers
           /\ bb[i] = MixMsg(b, bb[i].originator, bb[i].signer)
           /\ bb[i].ciphertexts = MixOf(b, bb[i].originator)
<1>1. i \in DOMAIN bb /\ bb[i].type = "EGCryptograms"
  BY DEF Posted
<1>2. Scripted(b, bb[i])
  BY <1>1 DEF Ordered
<1>3. /\ bb[i].originator \in Mixers /\ bb[i].signer \in Mixers
      /\ bb[i] = MixMsg(b, bb[i].originator, bb[i].signer)
  BY <1>1, <1>2, ScriptedByType
<1>4. MixMsg(b, bb[i].originator, bb[i].signer).ciphertexts = MixOf(b, bb[i].originator)
  BY MessageFields
<1> QED
  BY <1>1, <1>3, <1>4

(* A message is after those of the rounds before.                          *)
LEMMA RoundsInSequence ==
    ASSUME NEW b, NEW bb, Ordered(b, bb), NEW i \in DOMAIN bb, NEW p \in DOMAIN bb,
           NEW j \in Mixers, NEW u \in Mixers, NEW k \in Mixers, NEW v \in Mixers,
           bb[i] = MixMsg(b, j, u), bb[p] = MixMsg(b, k, v), j < k
    PROVE  i < p
<1>1. j \in 1..k - 1
  BY DEF Mixers
<1>2. MixMsg(b, j, u) \in Past(bb, p)
  BY <1>1, PastOfMixing
<1>3. PICK q \in DOMAIN bb : q < p /\ bb[q] = bb[i]
  BY <1>2 DEF Past
<1>4. q = i
  BY <1>3 DEF Ordered
<1> QED
  BY <1>3, <1>4

LEMMA FinalMixIs ==
    ASSUME NEW b, NEW bb, Ordered(b, bb), NEW t \in Mixers,
           \A k, s \in Mixers : MixMsg(b, k, s) \in RangeOf(bb)
    PROVE  FinalMix(t, bb) = MixOf(b, Threshold)
<1> DEFINE S == {i \in Posted(bb, "EGCryptograms") : bb[i].signer = t}
           last == LastOf(S)
<1>1. Len(bb) \in Nat /\ DOMAIN bb = 1..Len(bb)
  BY DEF Ordered
<1>2. Threshold \in Mixers /\ \A k \in Mixers : k \in Nat /\ k <= Threshold
  BY TrusteesAssumption DEF Mixers
<1>3. PICK p \in DOMAIN bb : bb[p] = MixMsg(b, Threshold, t)
  BY <1>2 DEF RangeOf
<1>4. \A k, s : MixMsg(b, k, s).type = "EGCryptograms" /\ MixMsg(b, k, s).signer = s
  BY DEF MixMsg, EGCryptogramsMsg
<1>5. p \in S
  BY <1>3, <1>4 DEF Posted
<1>6. S \subseteq 1..Len(bb)
  BY <1>1 DEF Posted
<1>7. last \in S /\ p <= last
  <2> HIDE DEF S
  <2> QED
    BY <1>1, <1>5, <1>6, LastIs
<1>8. /\ last \in DOMAIN bb /\ bb[last].originator \in Mixers
      /\ bb[last] = MixMsg(b, bb[last].originator, bb[last].signer)
      /\ bb[last].signer \in Mixers
      /\ bb[last].ciphertexts = MixOf(b, bb[last].originator)
  <2>1. last \in Posted(bb, "EGCryptograms")
    BY <1>7
  <2> HIDE DEF last
  <2> QED
    BY <2>1, MixesPosted
<1>9. bb[last].originator = Threshold
  <2> HIDE DEF last
  <2>1. SUFFICES ASSUME bb[last].originator < Threshold PROVE FALSE
    BY <1>2, <1>8
  <2>2. last < p
    BY <1>2, <1>3, <1>8, <2>1, RoundsInSequence
  <2> QED
    BY <1>1, <1>7, <1>8, <2>2
<1> QED
  BY <1>8, <1>9 DEF FinalMix

LEMMA MixToVerifyOf ==
    ASSUME NEW b, NEW bb, Ordered(b, bb), NEW k \in Mixers, MixMsg(b, k, k) \in RangeOf(bb),
           NEW t
    PROVE  MixToVerify(bb, ActiveOf(bb), SignDue(b, k, t)) = MixMsg(b, k, k)
<1> DEFINE active == ActiveOf(bb)
           a == SignDue(b, k, t)
           S == {i \in Posted(bb, "EGCryptograms") :
                    LET fact == Fact(bb, i, active)
                    IN  fact.fact = "Mix" /\ fact.in = a.in /\ fact.out = a.out}
<1>1. Len(bb) \in Nat /\ DOMAIN bb = 1..Len(bb)
  BY DEF Ordered
<1>2. a.in = MixOf(b, k - 1) /\ a.out = MixOf(b, k)
  BY DEF SignDue
<1>3. \A i \in DOMAIN bb : \A j, s \in Mixers :
         bb[i] = MixMsg(b, j, s) => Fact(bb, i, active) = MixFact(b, j, s)
  BY FactAt
<1>4. \A j, s : /\ MixFact(b, j, s).fact = IF j = s THEN "Mix" ELSE "MixSignature"
                /\ MixFact(b, j, s).in = MixOf(b, j - 1)
                /\ MixFact(b, j, s).out = MixOf(b, j)
  BY DEF MixFact
<1>5. MixMsg(b, k, k).type = "EGCryptograms"
  BY DEF MixMsg, EGCryptogramsMsg
<1>6. \A j \in Mixers : MixOf(b, j) = MixOf(b, k) => j = k
  <2>1. Mixers \subseteq Nat
    BY DEF Mixers
  <2> QED
    BY <2>1, MixesDiffer
<1> HIDE DEF active, a
<1>7. S # {}
  <2>1. PICK i \in DOMAIN bb : bb[i] = MixMsg(b, k, k)
    BY DEF RangeOf
  <2>2. Fact(bb, i, active) = MixFact(b, k, k)
    BY <1>3, <2>1
  <2>3. i \in S
    BY <1>2, <1>4, <1>5, <2>1, <2>2 DEF Posted
  <2> QED
    BY <2>3
<1>8. ASSUME NEW i \in S PROVE bb[i] = MixMsg(b, k, k)
  <2>1. /\ i \in Posted(bb, "EGCryptograms") /\ Fact(bb, i, active).fact = "Mix"
        /\ Fact(bb, i, active).out = MixOf(b, k)
    BY <1>2
  <2>2. PICK j \in Mixers, s \in Mixers : i \in DOMAIN bb /\ bb[i] = MixMsg(b, j, s)
    BY <2>1, MixesPosted
  <2>3. Fact(bb, i, active) = MixFact(b, j, s)
    BY <1>3, <2>2
  <2>4. j = s /\ MixOf(b, j) = MixOf(b, k)
    BY <1>4, <2>1, <2>3
  <2> QED
    BY <1>6, <2>2, <2>4
<1>9. S \subseteq 1..Len(bb)
  BY <1>1 DEF Posted
<1>10. MixToVerify(bb, active, a) = bb[LastOf(S)]
  BY DEF MixToVerify
<1> HIDE DEF S
<1>11. LastOf(S) \in S
  BY <1>1, <1>7, <1>9, LastIs
<1> QED
  BY <1>8, <1>10, <1>11 DEF active, a

(* The input a mix is verified against when it has just arrived.           *)
LEMMA VerificationInputIs ==
    ASSUME NEW b, NEW bb, Ordered(b, bb), NEW k \in Mixers, Len(bb) \in DOMAIN bb,
           bb[Len(bb)] = MixMsg(b, k, k)
    PROVE  VerificationInput(bb, ActiveOf(bb), MixMsg(b, k, k)) = MixOf(b, k - 1)
<1> DEFINE n == Len(bb)
           B == Before(n, Posted(bb, "EGCryptograms"))
<1>1. n \in Nat /\ DOMAIN bb = 1..n
  BY DEF Ordered
<1>2. \A j, s : MixMsg(b, j, s).type = "EGCryptograms" /\ MixMsg(b, j, s).originator = j
  BY DEF MixMsg, EGCryptogramsMsg
<1>3. Opening(b) \in Past(bb, n)
  <2>1. bb[n].type \in MixingPhase
    BY <1>2 DEF MixingPhase
  <2> QED
    BY <2>1, PastOfMixing
<1>4. ActiveOf(bb) = Identity
  <2>1. Opening(b) \in RangeOf(bb)
    BY <1>3 DEF Past, RangeOf
  <2> QED
    BY <2>1, ActiveOfOrdered
<1>5. ActiveIndex(ActiveOf(bb), MixMsg(b, k, k).originator) = k
  BY <1>2, <1>4, IdentityIs
<1>6. \A i, j \in DOMAIN bb : bb[i] = bb[j] => i = j
  BY DEF Ordered
<1>7. CASE k = 1
  <2> DEFINE S == Posted(bb, "MixInitialization")
  <2>1. Opening(b).type = "MixInitialization" /\ Opening(b).ballots = b
    BY MessageFields
  <2>2. \A i \in S : bb[i] = Opening(b)
    <3>1. \A i \in DOMAIN bb : Scripted(b, bb[i])
      BY DEF Ordered
    <3> QED
      BY <3>1, ScriptedByType DEF Posted
  <2>3. S # {} /\ S \subseteq Nat
    BY <1>1, <1>3, <2>1 DEF Past, Posted
  <2> HIDE DEF S
  <2>4. First(S) \in S
    BY <2>3, FirstIs
  <2>5. VerificationInput(bb, ActiveOf(bb), MixMsg(b, k, k)) = Unmixed(bb[First(S)].ballots)
    BY <1>5, <1>7 DEF VerificationInput, S
  <2> QED
    BY <1>7, <2>1, <2>2, <2>4, <2>5, UnmixedIs
<1>8. CASE k # 1
  <2>1. k - 1 \in Mixers /\ k - 1 \in 1..k - 1 /\ \A j \in Mixers : j \in Nat
    BY <1>8, TrusteesAssumption DEF Mixers
  <2>2. MixMsg(b, k - 1, k - 1) \in Past(bb, n)
    BY <2>1, PastOfMixing
  <2>3. PICK p \in DOMAIN bb : p < n /\ bb[p] = MixMsg(b, k - 1, k - 1)
    BY <2>2 DEF Past
  <2>4. p \in B
    BY <1>2, <2>3 DEF Before, Posted
  <2>5. B \subseteq 1..n
    BY <1>1 DEF Before, Posted
  <2> DEFINE last == LastOf(B)
  <2>6. last \in B /\ p <= last
    <3> HIDE DEF B, n
    <3> QED
      BY <1>1, <2>4, <2>5, LastIs
  <2>7. last \in Posted(bb, "EGCryptograms") /\ last < n
    BY <2>6 DEF Before
  <2>8. VerificationInput(bb, ActiveOf(bb), MixMsg(b, k, k)) = bb[last].ciphertexts
    BY <1>5, <1>8 DEF VerificationInput
  <2> HIDE DEF last, B
  <2>9. /\ last \in DOMAIN bb /\ bb[last].originator \in Mixers
        /\ bb[last].signer \in Mixers
        /\ bb[last] = MixMsg(b, bb[last].originator, bb[last].signer)
        /\ bb[last].ciphertexts = MixOf(b, bb[last].originator)
    BY <2>7, MixesPosted
  <2> DEFINE j == bb[last].originator
             u == bb[last].signer
  <2>10. j \in Mixers /\ u \in Mixers /\ bb[last] = MixMsg(b, j, u)
    BY <2>9
  <2> HIDE DEF j, u
  <2>11. ~(k < j)
    <3>1. SUFFICES ASSUME k < j PROVE FALSE
      OBVIOUS
    <3>2. n < last
      BY <2>9, <2>10, <3>1, RoundsInSequence
    <3> QED
      BY <1>1, <2>7, <2>9, <3>2
  <2>12. j # k
    <3>1. SUFFICES ASSUME j = k PROVE FALSE
      OBVIOUS
    <3>2. MixMsg(b, k, k) # MixMsg(b, k, u)
      BY <1>1, <1>6, <2>7, <2>9, <2>10, <3>1
    <3>3. \A m : m = MixMsg(b, k, k) => m \in Needs(b, MixMsg(b, k, u))
      BY <3>2, NeedsOfMix
    <3>4. MixMsg(b, k, k) \in Past(bb, last)
      BY <2>9, <2>10, <3>1, <3>3 DEF Ordered
    <3>5. PICK q \in DOMAIN bb : q < last /\ bb[q] = bb[n]
      BY <3>4 DEF Past
    <3>6. q = n
      BY <1>6, <3>5
    <3> QED
      BY <1>1, <2>7, <2>9, <3>5, <3>6
  <2>13. ~(j < k - 1)
    <3>1. SUFFICES ASSUME j < k - 1 PROVE FALSE
      OBVIOUS
    <3>2. last < p
      BY <2>1, <2>3, <2>9, <2>10, <3>1, RoundsInSequence
    <3> QED
      BY <1>1, <2>3, <2>6, <2>9, <3>2
  <2>14. j = k - 1
    BY <2>1, <2>10, <2>11, <2>12, <2>13
  <2> QED
    BY <2>8, <2>9, <2>14 DEF j
<1> QED
  BY <1>7, <1>8

LEMMA MixIsShuffle ==
    ASSUME NEW b, NEW k \in Mixers
    PROVE  /\ VerifyShuffle(MixOf(b, k - 1), MixOf(b, k))
           /\ Shuffle(MixOf(b, k - 1), k, 0) = MixOf(b, k)
<1> DEFINE T == Nat \X Nat
           f == [j \in 1..k - 1 |-> <<j, 0>>]
           g == [j \in 1..k |-> <<j, 0>>]
<1>1. k \in Nat /\ k - 1 \in Nat /\ k \in 1..k
  BY DEF Mixers
<1>2. f \in Seq(T) /\ Len(f) = k - 1
  <2>1. f \in [1..k - 1 -> T]
    BY <1>1
  <2> HIDE DEF f
  <2> QED
    BY <1>1, <2>1, FunctionIsSeq
<1>3. g \in Seq(T) /\ Len(g) = k
  <2>1. g \in [1..k -> T]
    BY <1>1
  <2> HIDE DEF g
  <2> QED
    BY <1>1, <2>1, FunctionIsSeq
<1>0. (\A j \in 1..k - 1 : f[j] = g[j] /\ j \in 1..k) /\ g[k] = <<k, 0>>
      /\ \A j \in 1..k : j = k \/ j \in 1..k - 1
  BY <1>1
<1>4. g # << >>
  <2> HIDE DEF g
  <2> QED
    BY <1>1, <1>3
<1>5. SubSeq(g, 1, Len(g) - 1) = f
  <2>1. SubSeq(g, 1, k - 1) \in Seq(T) /\ Len(SubSeq(g, 1, k - 1)) = k - 1
        /\ \A j \in 1..k - 1 : SubSeq(g, 1, k - 1)[j] = g[j]
    <3> HIDE DEF g
    <3> QED
      BY <1>1, <1>3
  <2>2. \A j \in 1..k - 1 : SubSeq(g, 1, k - 1)[j] = f[j]
    <3> HIDE DEF f, g
    <3> QED
      BY <1>0, <2>1
  <2> QED
    <3> HIDE DEF f, g
    <3> QED
      BY <1>2, <1>3, <2>1, <2>2
<1>6. Append(f, <<k, 0>>) = g
  <2>1. <<k, 0>> \in T
    BY <1>1
  <2>2. /\ Append(f, <<k, 0>>) \in Seq(T) /\ Len(Append(f, <<k, 0>>)) = k
        /\ Append(f, <<k, 0>>)[k] = <<k, 0>>
        /\ \A j \in 1..k - 1 : Append(f, <<k, 0>>)[j] = f[j]
    <3> HIDE DEF f
    <3>1. Append(f, <<k, 0>>)[Len(f) + 1] = <<k, 0>> /\ Len(f) + 1 = k
      BY <1>1, <1>2, <2>1, Appended
    <3> QED
      BY <1>1, <1>2, <2>1, <3>1, Appended
  <2>3. \A j \in 1..k : Append(f, <<k, 0>>)[j] = g[j]
    <3> HIDE DEF f, g
    <3> QED
      BY <1>0, <2>2
  <2> QED
    <3> HIDE DEF f, g
    <3> QED
      BY <1>1, <1>3, <2>2, <2>3
<1>7. MixOf(b, k - 1) = Ciphertexts(b, f) /\ MixOf(b, k) = Ciphertexts(b, g)
  BY DEF MixOf
<1> HIDE DEF f, g
<1>8. VerifyShuffle(MixOf(b, k - 1), MixOf(b, k))
  BY <1>4, <1>5, <1>7 DEF VerifyShuffle, Ciphertexts
<1>9. Shuffle(Ciphertexts(b, f), k, 0) = Ciphertexts(b, Append(f, <<k, 0>>))
  BY ShuffleIs
<1> QED
  BY <1>6, <1>7, <1>8, <1>9

(* What is due succeeds, and leads to the message it should.               *)
LEMMA DueSucceeds ==
    ASSUME NEW b, NEW bb, Ordered(b, bb), NEW t \in Trustees, starts[t] = 0,
           NEW a, NEW m, Leads(b, RangeOf(bb), t, a, m),
           \A k \in Mixers : a = SignDue(b, k, t) =>
              Len(bb) \in DOMAIN bb /\ bb[Len(bb)] = MixMsg(b, k, k)
    PROVE  /\ ActionMessage(t, bb, ActiveOf(bb), a) = m
           /\ ActionSucceeds(t, bb, ActiveOf(bb), a)
<1> DEFINE active == ActiveOf(bb)
           S == RangeOf(bb)
           Goal == /\ ActionMessage(t, bb, active, a) = m
                   /\ ActionSucceeds(t, bb, active, a)
<1>1. Closed(b, S)
  BY OrderedIsClosed
<1>2. 1 \in Mixers
  BY TrusteesAssumption DEF Mixers
<1>3. ASSUME Opening(b) \in S PROVE AllKeyShares(bb)
  <2>1. \A u \in Trustees : Dealt(u) \in S
    BY <1>1, <1>3, ClosedMeans
  <2> QED
    BY <2>1, SharesOfAll
<1> DEFINE msg == ActionMessage(t, bb, active, a)
<1>0. /\ a.action = "ComputeShares" => msg = KeySharesMsg(t, 0)
      /\ a.action = "ComputePublicKey" =>
            msg = ElectionPublicKeyMsg(t, [i \in Trustees |-> a.shares[i][2]])
      /\ a.action = "ComputeMix" => msg = EGCryptogramsMsg(t, t, Shuffle(a.in, t, 0))
      /\ a.action = "SignMix" =>
            msg = EGCryptogramsMsg(MixToVerify(bb, active, a).originator, t, a.out)
      /\ a.action = "ComputePartialDecryptions" => msg = PartialDecryptionsMsg(t, a.out, 0)
      /\ a.action = "ComputePlaintexts" => msg = DecryptedBallotsMsg(t, FinalMix(t, bb))
  BY MessagesByAction
<1> HIDE DEF msg
<1>4. ASSUME a = SharesDue(t), m = Dealt(t) PROVE Goal
  <2>1. a.action = "ComputeShares"
    BY <1>4 DEF SharesDue
  <2>2. msg = m
    BY <1>0, <1>4, <2>1 DEF Dealt
  <2>3. ActionSucceeds(t, bb, active, a)
    BY <2>1 DEF ActionSucceeds
  <2> QED
    BY <2>2, <2>3 DEF msg
<1>5. ASSUME a = KeyDue(t), m = Joint(t), \A u \in Trustees : Dealt(u) \in S PROVE Goal
  <2>1. a.action = "ComputePublicKey" /\ a.self = t /\ a.shares = [u \in Trustees |-> <<u, 0>>]
    BY <1>5 DEF KeyDue
  <2>2. [i \in Trustees |-> a.shares[i][2]] = FirstKey
    BY <2>1 DEF FirstKey
  <2>3. msg = m
    BY <1>0, <1>5, <2>1, <2>2 DEF Joint
  <2>4. AllKeyShares(bb)
    BY <1>5, SharesOfAll
  <2>5. ActionSucceeds(t, bb, active, a)
    BY <2>1, <2>4 DEF ActionSucceeds
  <2> QED
    BY <2>3, <2>5 DEF msg
<1>6. ASSUME t \in Mixers, a = MixDue(FirstKey, MixOf(b, t - 1), t), m = MixMsg(b, t, t)
      PROVE  Goal
  <2>1. a.action = "ComputeMix" /\ a.in = MixOf(b, t - 1)
    BY <1>6 DEF MixDue
  <2>2. Shuffle(MixOf(b, t - 1), t, 0) = MixOf(b, t)
    BY <1>6, MixIsShuffle
  <2>3. msg = m
    BY <1>0, <1>6, <2>1, <2>2 DEF MixMsg
  <2>4. ActionSucceeds(t, bb, active, a)
    BY <2>1 DEF ActionSucceeds
  <2> QED
    BY <2>3, <2>4 DEF msg
<1>7. ASSUME NEW k \in Mixers, a = SignDue(b, k, t), m = MixMsg(b, k, t),
             MixMsg(b, k, k) \in S
      PROVE  Goal
  <2>1. a.action = "SignMix" /\ a.out = MixOf(b, k)
    BY <1>7 DEF SignDue
  <2>2. MixToVerify(bb, active, a) = MixMsg(b, k, k)
    BY <1>7, MixToVerifyOf
  <2>3. MixMsg(b, k, k).originator = k /\ MixMsg(b, k, k).ciphertexts = MixOf(b, k)
    BY DEF MixMsg, EGCryptogramsMsg
  <2>4. msg = m
    BY <1>0, <1>7, <2>1, <2>2, <2>3 DEF MixMsg
  <2>5. VerificationInput(bb, active, MixMsg(b, k, k)) = MixOf(b, k - 1)
    BY <1>7, VerificationInputIs
  <2>6. VerifyShuffle(MixOf(b, k - 1), MixOf(b, k))
    BY MixIsShuffle
  <2> HIDE DEF active
  <2>7. ActionSucceeds(t, bb, active, a)
    BY <2>1, <2>2, <2>3, <2>5, <2>6 DEF ActionSucceeds
  <2> QED
    BY <2>4, <2>7 DEF msg
<1>8. ASSUME t \in Mixers, a = FactorsDue(b, t), m = Factors(b, t),
             \A j, u \in Mixers : MixMsg(b, j, u) \in S
      PROVE  Goal
  <2>1. /\ a.action = "ComputePartialDecryptions" /\ a.out = MixOf(b, Threshold)
        /\ a.self = t
    BY <1>8 DEF FactorsDue
  <2>2. msg = m
    BY <1>0, <1>8, <2>1 DEF Factors
  <2>3. FinalMix(t, bb) = MixOf(b, Threshold)
    BY <1>8, FinalMixIs
  <2>4. AllKeyShares(bb)
    BY <1>1, <1>2, <1>3, <1>8, ClosedMeans
  <2>5. ActionSucceeds(t, bb, active, a)
    BY <2>1, <2>3, <2>4 DEF ActionSucceeds
  <2> QED
    BY <2>2, <2>5 DEF msg
<1>9. ASSUME t \in Mixers, a = PlainDue(b, t, AllFactors(b)), m = Plain(b, t),
             \A u \in Mixers : Factors(b, u) \in S
      PROVE  Goal
  <2>1. a.action = "ComputePlaintexts" /\ a.decryptions = AllFactors(b)
    BY <1>9 DEF PlainDue
  <2>2. Opening(b) \in S /\ \A j, u \in Mixers : MixMsg(b, j, u) \in S
    BY <1>1, <1>2, <1>9, ClosedMeans
  <2>3. FinalMix(t, bb) = MixOf(b, Threshold)
    BY <1>9, <2>2, FinalMixIs
  <2>4. msg = m
    BY <1>0, <1>9, <2>1, <2>3 DEF Plain
  <2>5. AllKeyShares(bb)
    BY <1>3, <2>2
  <2>6. Cardinality(FirstDecryptions(bb)) = Threshold
    BY <1>9, FactorsOfAll
  <2>7. ASSUME NEW i \in Posted(bb, "PartialDecryptions")
        PROVE  /\ Fact(bb, i, active).decryptions \in RangeOf(a.decryptions)
               /\ bb[i].factors_of = MixOf(b, Threshold)
    <3>1. i \in DOMAIN bb /\ bb[i].type = "PartialDecryptions"
      BY DEF Posted
    <3>2. PICK s \in Mixers : bb[i] = Factors(b, s)
      <4>1. Scripted(b, bb[i])
        BY <3>1 DEF Ordered
      <4> QED
        BY <3>1, <4>1, ScriptedByType
    <3>3. Fact(bb, i, active) = FactorsFact(b, s)
      BY <3>1, <3>2, FactAt
    <3>4. FactorsFact(b, s).decryptions = AllFactors(b)[s]
      BY DEF FactorsFact, AllFactors
    <3>5. s \in DOMAIN AllFactors(b)
      BY DEF AllFactors
    <3>6. Factors(b, s).factors_of = MixOf(b, Threshold)
      BY DEF Factors, PartialDecryptionsMsg
    <3> QED
      BY <2>1, <3>2, <3>3, <3>4, <3>5, <3>6 DEF RangeOf
  <2>8. FirstDecryptions(bb) \subseteq Posted(bb, "PartialDecryptions")
    BY DEF FirstDecryptions
  <2>9. ActionSucceeds(t, bb, active, a)
    <3> HIDE DEF active
    <3> QED
      BY <2>1, <2>3, <2>5, <2>6, <2>7, <2>8 DEF ActionSucceeds
  <2> QED
    BY <2>4, <2>9 DEF msg
<1> HIDE DEF Goal
<1>10. Goal
  BY <1>4, <1>5, <1>6, <1>7, <1>8, <1>9 DEF Leads
<1> QED
  BY <1>10 DEF Goal

(* What a trustee sends is in the script, after what it needs.             *)
LEMMA LeadsAreScripted ==
    ASSUME NEW b, NEW S, Closed(b, S), NEW t \in Trustees, NEW a, NEW m, Leads(b, S, t, a, m)
    PROVE  Scripted(b, m) /\ Needs(b, m) \subseteq S /\ m.type # "MixInitialization"
<1> DEFINE Goal == Scripted(b, m) /\ Needs(b, m) \subseteq S /\ m.type # "MixInitialization"
<1>1. ASSUME m = Dealt(t) PROVE Goal
  <2>1. m.type = "KeyShares"
    BY <1>1, MessageFields
  <2>2. Needs(b, m) = {}
    BY <1>1, NeedsAre
  <2> QED
    BY <1>1, <2>1, <2>2 DEF Scripted
<1>2. ASSUME m = Joint(t), \A u \in Trustees : Dealt(u) \in S PROVE Goal
  <2>1. m.type = "ElectionPublicKey"
    BY <1>2, MessageFields
  <2>2. \A n : n \in Needs(b, m) <=> \E u \in Trustees : n = Dealt(u)
    BY <1>2, NeedsAre
  <2> QED
    BY <1>2, <2>1, <2>2 DEF Scripted
<1>3. ASSUME NEW k \in Mixers, t \in Mixers, m = MixMsg(b, k, t), Opening(b) \in S,
             \A j \in 1..k - 1 : \A u \in Mixers : MixMsg(b, j, u) \in S,
             k # t => MixMsg(b, k, k) \in S
      PROVE  Goal
  <2>1. m.type = "EGCryptograms"
    BY <1>3 DEF MixMsg, EGCryptogramsMsg
  <2>2. ASSUME NEW n \in Needs(b, MixMsg(b, k, t)) PROVE n \in S
    <3>1. \/ n = Opening(b)
          \/ \E j \in 1..k - 1, u \in Mixers : n = MixMsg(b, j, u)
          \/ n = MixMsg(b, k, k) /\ n # MixMsg(b, k, t)
      BY <2>2, NeedsOfMix
    <3> QED
      BY <1>3, <3>1
  <2>3. Scripted(b, m)
    BY <1>3 DEF Scripted
  <2> QED
    BY <1>3, <2>1, <2>2, <2>3
<1>4. ASSUME t \in Mixers, m = Factors(b, t), \A j, u \in Mixers : MixMsg(b, j, u) \in S
      PROVE  Goal
  <2>1. m.type = "PartialDecryptions"
    BY <1>4 DEF Factors, PartialDecryptionsMsg
  <2>2. \A n : n \in Needs(b, m) <=> \E j, u \in Mixers : n = MixMsg(b, j, u)
    BY <1>4, NeedsAre
  <2> QED
    BY <1>4, <2>1, <2>2 DEF Scripted
<1>5. ASSUME t \in Mixers, m = Plain(b, t), \A u \in Mixers : Factors(b, u) \in S PROVE Goal
  <2>1. m.type = "DecryptedBallots"
    BY <1>5 DEF Plain, DecryptedBallotsMsg
  <2>2. \A n : n \in Needs(b, m) <=> \E u \in Mixers : n = Factors(b, u)
    BY <1>5, NeedsAre
  <2> QED
    BY <1>5, <2>1, <2>2 DEF Scripted
<1>6. \A k \in Mixers : MixMsg(b, k, k) \in S =>
         Opening(b) \in S /\ \A j \in 1..k - 1 : \A u \in Mixers : MixMsg(b, j, u) \in S
  BY ClosedMeans
<1> HIDE DEF Goal
<1>7. Goal
  BY <1>1, <1>2, <1>3, <1>4, <1>5, <1>6 DEF Leads
<1> QED
  BY <1>7 DEF Goal

(* The index of a trustee is its number.                                   *)
LEMMA SelfIs ==
    ASSUME NEW b, NEW bb, Ordered(b, bb), NEW t \in Trustees
    PROVE  /\ \A s \in MyIndex(t, ActiveOf(bb)) : s = t
           /\ t \in Mixers => t \in MyIndex(t, ActiveOf(bb))
<1>1. CASE Opening(b) \in RangeOf(bb)
  <2>1. ActiveOf(bb) = Identity
    BY <1>1, ActiveOfOrdered
  <2>2. MyIndex(t, Identity) = {ActiveIndex(Identity, u) : u \in {t} \cap Mixers}
    BY IdentityIs DEF MyIndex
  <2>3. \A u \in {t} \cap Mixers : u = t /\ ActiveIndex(Identity, u) = t
    BY IdentityIs
  <2>4. \A s \in MyIndex(t, Identity) : s = t
    BY <2>2, <2>3
  <2>5. t \in Mixers => t \in MyIndex(t, Identity)
    <3>1. t \in Mixers => t \in {t} \cap Mixers
      OBVIOUS
    <3> QED
      BY <2>2, <2>3, <3>1
  <2> QED
    BY <2>1, <2>4, <2>5
<1>2. CASE Opening(b) \notin RangeOf(bb)
  BY <1>2, ActiveOfOrdered DEF MyIndex
<1> QED
  BY <1>1, <1>2

(* No mix is waiting for the signature of t, except one that just arrived. *)
SignsPromptly(b, bb, t, completed) ==
    t \in Mixers => \A k \in Mixers :
        \/ MixMsg(b, k, k) \notin RangeOf(bb)
        \/ MixMsg(b, k, t) \in RangeOf(bb)
        \/ SignDue(b, k, t) \in completed
        \/ Len(bb) \in DOMAIN bb /\ bb[Len(bb)] = MixMsg(b, k, k)

LEMMA DueMessages ==
    ASSUME NEW b, NEW bb, Ordered(b, bb), NEW t \in Trustees, starts[t] = 0, NEW completed,
           SignsPromptly(b, bb, t, completed),
           NEW a \in DueActions(t, bb, ActiveOf(bb), completed)
    PROVE  \E m : /\ m \notin RangeOf(bb) /\ Leads(b, RangeOf(bb), t, a, m)
                  /\ ActionMessage(t, bb, ActiveOf(bb), a) = m
                  /\ ActionSucceeds(t, bb, ActiveOf(bb), a)
<1>1. /\ a \in Actions(FactsOf(bb, ActiveOf(bb))) /\ a.self \in MyIndex(t, ActiveOf(bb))
      /\ a \notin completed
  BY DEF DueActions
<1>2. a.self = t
  BY <1>1, SelfIs
<1>3. Closed(b, RangeOf(bb)) /\ Reported(b, FactsOf(bb, ActiveOf(bb)), RangeOf(bb))
  BY OrderedIsClosed, FactsReport
<1>4. PICK m : m \notin RangeOf(bb) /\ Leads(b, RangeOf(bb), t, a, m)
  BY <1>1, <1>2, <1>3, ActionsLead
<1>5. ASSUME NEW k \in Mixers, a = SignDue(b, k, t)
      PROVE  Len(bb) \in DOMAIN bb /\ bb[Len(bb)] = MixMsg(b, k, k)
  <2>1. a.action = "SignMix" /\ a.out = MixOf(b, k)
    BY <1>5 DEF SignDue
  <2>2. PICK j \in Mixers : a = SignDue(b, j, t) /\ m = MixMsg(b, j, t)
                            /\ MixMsg(b, j, j) \in RangeOf(bb) /\ t \in Mixers
    <3>1. /\ SharesDue(t).action # "SignMix" /\ KeyDue(t).action # "SignMix"
          /\ MixDue(FirstKey, MixOf(b, t - 1), t).action # "SignMix"
          /\ FactorsDue(b, t).action # "SignMix"
          /\ PlainDue(b, t, AllFactors(b)).action # "SignMix"
      BY DEF SharesDue, KeyDue, MixDue, FactorsDue, PlainDue
    <3> QED
      BY <1>4, <2>1, <3>1 DEF Leads
  <2>3. SignDue(b, j, t).out = MixOf(b, j)
    BY DEF SignDue
  <2>4. j = k
    <3>1. j \in Nat /\ k \in Nat
      BY DEF Mixers
    <3> QED
      BY <2>1, <2>2, <2>3, <3>1, MixesDiffer
  <2> QED
    BY <1>1, <1>4, <1>5, <2>2, <2>4 DEF SignsPromptly
<1>6. /\ ActionMessage(t, bb, ActiveOf(bb), a) = m
      /\ ActionSucceeds(t, bb, ActiveOf(bb), a)
  BY <1>4, <1>5, DueSucceeds
<1> QED
  BY <1>4, <1>6

(* The logic does not fail.                                                *)
LEMMA LogicSucceeds ==
    ASSUME NEW b, NEW bb, Ordered(b, bb), NEW t \in Trustees, starts[t] = 0, NEW completed,
           SignsPromptly(b, bb, t, completed)
    PROVE  LogicFailure(t, bb, ActiveOf(bb), DueActions(t, bb, ActiveOf(bb), completed)) = "None"
<1> DEFINE due == DueActions(t, bb, ActiveOf(bb), completed)
<1>1. Closed(b, RangeOf(bb)) /\ Reported(b, FactsOf(bb, ActiveOf(bb)), RangeOf(bb))
  BY OrderedIsClosed, FactsReport
<1>2. ~Errors(FactsOf(bb, ActiveOf(bb)))
  BY <1>1, NoErrors
<1>3. \A a \in due : \E m : /\ m \notin RangeOf(bb) /\ Leads(b, RangeOf(bb), t, a, m)
                            /\ ActionSucceeds(t, bb, ActiveOf(bb), a)
  BY DueMessages
<1>4. \A a, c \in due : a = c
  BY <1>1, <1>3, OneDue
<1> HIDE DEF due
<1>5. ~(Cardinality(due) > 1)
  <2>1. CASE due = {}
    BY <2>1, FS_EmptySet
  <2>2. CASE due # {}
    <3>1. PICK a : a \in due
      BY <2>2
    <3>2. due = {a}
      BY <1>4, <3>1
    <3>3. Cardinality({a}) = 1
      BY FS_Singleton
    <3> QED
      BY <3>2, <3>3
  <2> QED
    BY <2>1, <2>2
<1>6. ~\E a \in due : ~ActionSucceeds(t, bb, ActiveOf(bb), a)
  BY <1>3
<1>7. LogicFailure(t, bb, ActiveOf(bb), due) = "None"
  BY <1>2, <1>5, <1>6 DEF LogicFailure
<1> QED
  BY <1>7 DEF due

Signed(b, bb, t, completed) ==
    t \in Mixers => \A k \in Mixers :
        \/ MixMsg(b, k, k) \notin RangeOf(bb)
        \/ MixMsg(b, k, t) \in RangeOf(bb)
        \/ SignDue(b, k, t) \in completed

LEMMA DueAreSigned ==
    ASSUME NEW b, NEW bb, Ordered(b, bb), NEW t \in Trustees, NEW completed
    PROVE  Signed(b, bb, t, completed \cup DueActions(t, bb, ActiveOf(bb), completed))
<1> SUFFICES ASSUME t \in Mixers, NEW k \in Mixers, MixMsg(b, k, k) \in RangeOf(bb),
                    MixMsg(b, k, t) \notin RangeOf(bb)
             PROVE  SignDue(b, k, t) \in completed \cup DueActions(t, bb, ActiveOf(bb), completed)
  BY DEF Signed
<1>1. Closed(b, RangeOf(bb)) /\ Reported(b, FactsOf(bb, ActiveOf(bb)), RangeOf(bb))
  BY OrderedIsClosed, FactsReport
<1>2. SignDue(b, k, t) \in Actions(FactsOf(bb, ActiveOf(bb)))
  BY <1>1, SigningIsDue
<1>3. SignDue(b, k, t).self = t
  BY DEF SignDue
<1>4. t \in MyIndex(t, ActiveOf(bb))
  BY SelfIs
<1> QED
  BY <1>2, <1>3, <1>4 DEF DueActions

(* A board and the next message of it.                                     *)
LEMMA NextPrefix ==
    ASSUME BoardOK, NEW b, Ordered(b, board), NEW n \in 1..Len(board),
           Ordered(b, Prefix(n - 1))
    PROVE  /\ n - 1 \in 0..Len(board)
           /\ Ordered(b, Prefix(n))
           /\ DOMAIN Prefix(n) = 1..n /\ Len(Prefix(n)) = n
           /\ Past(Prefix(n), n) = RangeOf(Prefix(n - 1))
           /\ \A m \in RangeOf(Prefix(n)) : m \in RangeOf(Prefix(n - 1)) \/ m = Prefix(n)[n]
           /\ RangeOf(Prefix(n)) \subseteq RangeOf(board)
<1>1. Len(board) \in Nat /\ DOMAIN board = 1..Len(board)
  BY BoardIs
<1>2. n - 1 \in 0..Len(board) /\ n \in 0..Len(board) /\ n \in Nat
  BY <1>1
<1>3. /\ Len(Prefix(n)) = n /\ DOMAIN Prefix(n) = 1..n
      /\ \A i \in 1..n : i \in DOMAIN board /\ Prefix(n)[i] = board[i]
      /\ RangeOf(Prefix(n)) \subseteq RangeOf(board)
      /\ DOMAIN Prefix(n - 1) = 1..n - 1
      /\ \A i \in 1..n - 1 : Prefix(n - 1)[i] = board[i]
  BY <1>2, PrefixIs
<1>4. \A i \in 1..n : i = n \/ i \in 1..n - 1
  BY <1>2
<1>5. \A i \in 1..n - 1 : i \in 1..n /\ i < n
  BY <1>2
<1>6. RangeOf(Prefix(n - 1)) \subseteq RangeOf(Prefix(n))
  BY <1>3, <1>5 DEF RangeOf
<1>7. \A i \in 1..n : Past(Prefix(n), i) = Past(board, i)
  <2> SUFFICES ASSUME NEW i \in 1..n PROVE Past(Prefix(n), i) = Past(board, i)
    OBVIOUS
  <2>1. {k \in DOMAIN Prefix(n) : k < i} = {k \in DOMAIN board : k < i}
    BY <1>1, <1>2, <1>3
  <2>2. \A k \in {j \in DOMAIN board : j < i} : Prefix(n)[k] = board[k]
    BY <1>3, <2>1
  <2> QED
    BY <2>1, <2>2 DEF Past
<1>8. Ordered(b, Prefix(n))
  <2>1. \A i \in 1..n :
           Scripted(b, Prefix(n)[i]) /\ Needs(b, Prefix(n)[i]) \subseteq Past(Prefix(n), i)
    BY <1>3, <1>7 DEF Ordered
  <2>2. \A i, j \in 1..n : Prefix(n)[i] = Prefix(n)[j] => i = j
    BY <1>3 DEF Ordered
  <2>3. \A s \in TrusteeList : SetupMsg(s) \in RangeOf(Prefix(n))
    BY <1>6 DEF Ordered
  <2> QED
    BY <1>2, <1>3, <2>1, <2>2, <2>3 DEF Ordered
<1>9. Past(Prefix(n), n) = RangeOf(Prefix(n - 1))
  <2>1. {k \in DOMAIN Prefix(n) : k < n} = 1..n - 1
    BY <1>2, <1>3
  <2>2. \A k \in 1..n - 1 : Prefix(n)[k] = Prefix(n - 1)[k]
    BY <1>3, <1>5
  <2> QED
    BY <1>3, <2>1, <2>2 DEF Past, RangeOf
<1>10. \A m \in RangeOf(Prefix(n)) : m \in RangeOf(Prefix(n - 1)) \/ m = Prefix(n)[n]
  BY <1>3, <1>4, <1>5 DEF RangeOf
<1> QED
  BY <1>2, <1>3, <1>8, <1>9, <1>10

-------------------------------------------------------------------------------
(* The invariant.  Every message is in the script of the ceremony and no   *)
(* message is there before those it needs; trustees that see a mix sign it *)
(* before they see anything else.                                          *)
Settled == {"Idle", "KeyGen", "Mixing", "Decryption"}

SettledActor(b, t, actor) ==
    /\ actor.state \in Settled /\ actor.configured = TRUE /\ actor.failure = "None"
    /\ Ordered(b, actor.board)
    /\ Signed(b, actor.board, t, actor.completed)

Expected(b, m) ==
    m.type # "MixInitialization" /\ Scripted(b, m) /\ Needs(b, m) \subseteq RangeOf(board)

Orderly(b) ==
    /\ tas_state # "Failed" /\ public_key \subseteq {FirstKey}
    /\ Ordered(b, board)
    /\ \A m \in sent : Expected(b, m)
    /\ \A t \in Trustees : starts[t] = 0 /\ SettledActor(b, t, trustee[t])

LEMMA TrusteeActs ==
    ASSUME Types, NEW b, Orderly(b), NEW t \in Trustees, UNCHANGED <<tasVars, starts>>,
           NEW bb, Ordered(b, bb), RangeOf(bb) \subseteq RangeOf(board),
           SignsPromptly(b, bb, t, trustee[t].completed),
           NEW due, due = DueActions(t, bb, ActiveOf(bb), trustee[t].completed),
           NEW state \in Settled,
           trustee' = [trustee EXCEPT ![t] = ActorRecord(state, bb, TRUE, ActiveOf(bb),
                                         trustee[t].completed \cup due, "None")],
           sent' = sent \cup {ActionMessage(t, bb, ActiveOf(bb), a) : a \in due}
    PROVE  Orderly(b)'
<1> DEFINE actor == ActorRecord(state, bb, TRUE, ActiveOf(bb), trustee[t].completed \cup due,
                                "None")
<1>1. /\ actor.state = state /\ actor.board = bb /\ actor.configured = TRUE
      /\ actor.completed = trustee[t].completed \cup due /\ actor.failure = "None"
  BY DEF ActorRecord
<1>2. Signed(b, bb, t, trustee[t].completed \cup due)
  BY DueAreSigned
<1> HIDE DEF actor
<1>3. SettledActor(b, t, actor)
  BY <1>1, <1>2 DEF SettledActor
<1>4. DOMAIN trustee = Trustees
  BY DEF Types, ActorsOK
<1>5. \A u \in Trustees : starts'[u] = 0 /\ SettledActor(b, u, trustee'[u])
  <2>1. trustee'[t] = actor /\ \A u \in Trustees \ {t} : trustee'[u] = trustee[u]
    BY <1>4 DEF actor
  <2>2. \A u \in Trustees : SettledActor(b, u, trustee[u]) /\ starts'[u] = 0
    BY DEF Orderly
  <2> QED
    BY <1>3, <2>1, <2>2
<1>6. ASSUME NEW m \in sent' PROVE Expected(b, m)
  <2>1. CASE m \in sent
    BY <2>1 DEF Orderly
  <2>2. CASE m \notin sent
    <3>1. PICK a \in due : m = ActionMessage(t, bb, ActiveOf(bb), a)
      BY <2>2
    <3>2. starts[t] = 0
      BY DEF Orderly
    <3>3. Leads(b, RangeOf(bb), t, a, m)
      BY <3>1, <3>2, DueMessages
    <3>4. Closed(b, RangeOf(bb))
      BY OrderedIsClosed
    <3>5. Scripted(b, m) /\ Needs(b, m) \subseteq RangeOf(bb) /\ m.type # "MixInitialization"
      BY <3>3, <3>4, LeadsAreScripted
    <3> QED
      BY <3>5 DEF Expected
  <2> QED
    BY <2>1, <2>2
<1>7. board' = board /\ tas_state' = tas_state /\ public_key' = public_key
  BY DEF tasVars
<1>8. \A m \in sent' : Expected(b, m)'
  BY <1>6, <1>7 DEF Expected
<1>9. tas_state # "Failed" /\ public_key \subseteq {FirstKey} /\ Ordered(b, board)
  BY DEF Orderly
<1>10. Ordered(b, board)' = Ordered(b, board)
  BY <1>7
<1> QED
  BY <1>5, <1>7, <1>8, <1>9, <1>10 DEF Orderly

-------------------------------------------------------------------------------
(* The steps of a calm ceremony, and what it takes for one.                *)

(* The ceremony starts with the configuration checkpoint in place, updates *)
(* bring one message each, unspoiled, and the first trustees, in the order *)
(* of the trustee list, are the active ones.                               *)
Calm ==
    \A c \in Ceremonies :
        /\ c.start_from # "nothing"
        /\ c.max_batch = 1
        /\ ~c.tampering
        /\ \A p \in c.mixing :
              Len(p.active_trustees) = Threshold => p.active_trustees = Identity

(* The updates of a calm ceremony bring one message of the board.          *)
LEMMA CalmUpdates ==
    ASSUME Types, Calm, NEW t \in Trustees, NEW update \in Updates(t)
    PROVE  \E k \in DOMAIN board : DOMAIN update = {k} /\ update[k] = board[k]
<1>1. ceremony \in Ceremonies /\ ceremony.max_batch = 1 /\ ~ceremony.tampering
  BY DEF Types, ConstantsOK, Calm
<1>2. DOMAIN board \subseteq Nat
  BY BoardIs DEF Types
<1> DEFINE next == Len(trustee[t].board) + 1
           first == {next + start : start \in ceremony.update_starts} \cap DOMAIN board
<1>3. \/ \E run \in {r \in first \X DOMAIN board :
                        r[1] <= r[2] /\ r[2] < r[1] + ceremony.max_batch} :
            update = Update(run[1], run[2])
      \/ \E k \in {j \in DOMAIN board : ceremony.tampering} :
            update = [i \in {k} |-> Spoiled(board[i])]
  BY DEF Updates
<1> HIDE DEF first
<1>4. PICK run \in first \X DOMAIN board :
         /\ run[1] <= run[2] /\ run[2] < run[1] + 1
         /\ update = Update(run[1], run[2])
  BY <1>1, <1>3
<1>5. run[1] \in DOMAIN board /\ run[2] \in DOMAIN board
  BY DEF first
<1>6. run[1] = run[2] /\ run[1]..run[2] = {run[1]}
  BY <1>2, <1>4, <1>5
<1>7. update = [i \in {run[1]} |-> board[i]]
  BY <1>4, <1>6 DEF Update
<1> QED
  BY <1>5, <1>7

LEMMA NextUpdate ==
    ASSUME Types, Calm, NEW t \in Trustees, NEW update \in Updates(t)
    PROVE  /\ ~InvalidUpdate(t, update)
           /\ Len(trustee[t].board) + 1 \in DOMAIN update =>
                 /\ Len(trustee[t].board) + 1 \in 1..Len(board)
                 /\ Extended(trustee[t].board, update) = Prefix(Len(trustee[t].board) + 1)
<1> DEFINE old == trustee[t].board
<1>1. PICK k \in DOMAIN board : DOMAIN update = {k} /\ update[k] = board[k]
  BY CalmUpdates
<1>2. BoardOK /\ IsPrefix(old)
  BY DEF Types, ActorsOK, ActorOK
<1>3. /\ DOMAIN board = 1..Len(board) /\ Len(board) \in Nat
      /\ Len(old) \in 0..Len(board) /\ old = Prefix(Len(old)) /\ DOMAIN old = 1..Len(old)
      /\ \A i \in DOMAIN old : old[i] = board[i]
  BY <1>2, BoardIs, Mirrors
<1> HIDE DEF old
<1>4. ~InvalidUpdate(t, update)
  <2>1. update[k].signed
    <3>1. MessageOK(board[k])
      BY <1>2 DEF BoardOK, RangeOf
    <3> QED
      BY <1>1, <3>1 DEF MessageOK, IsMessage
  <2>2. \A i, j \in DOMAIN update : \A n \in i..j : n \in DOMAIN update
    BY <1>1, <1>3
  <2>3. \A i \in DOMAIN update \cap DOMAIN old : update[i] = old[i]
    BY <1>1, <1>3
  <2> QED
    BY <1>1, <2>1, <2>2, <2>3 DEF InvalidUpdate, old
<1>5. ASSUME Len(old) + 1 \in DOMAIN update
      PROVE  /\ Len(old) + 1 \in 1..Len(board)
             /\ Extended(old, update) = Prefix(Len(old) + 1)
  <2>1. k = Len(old) + 1
    BY <1>1, <1>5
  <2>2. DOMAIN old \cup DOMAIN update = 1..Len(old) + 1
    BY <1>1, <1>3, <2>1
  <2>3. \A i \in 1..Len(old) + 1 :
           (IF i \in DOMAIN old THEN old[i] ELSE update[i]) = board[i]
    BY <1>1, <1>3, <2>1
  <2> QED
    BY <1>3, <2>1, <2>2, <2>3 DEF Extended, Prefix
<1> QED
  BY <1>4, <1>5 DEF old

(* An update that converts leaves the mirror in the next of its states.    *)
LEMMA SettledNext ==
    ASSUME NEW t, NEW state \in Settled, NEW bb, NEW active
    PROVE  NextState(t, state, bb, TRUE, active) \in Settled
  BY DEF NextState, Settled, IdleNext, KeyGenNext, MixingNext, DecryptionNext

(* The mirror of a trustee after the next message.                         *)
LEMMA PromptAgain ==
    ASSUME BoardOK, NEW b, Ordered(b, board), NEW n \in 1..Len(board),
           Ordered(b, Prefix(n - 1)), NEW t \in Trustees, NEW completed,
           Signed(b, Prefix(n - 1), t, completed)
    PROVE  SignsPromptly(b, Prefix(n), t, completed)
<1>1. /\ DOMAIN Prefix(n) = 1..n /\ Len(Prefix(n)) = n
      /\ \A m \in RangeOf(Prefix(n)) : m \in RangeOf(Prefix(n - 1)) \/ m = Prefix(n)[n]
      /\ Past(Prefix(n), n) = RangeOf(Prefix(n - 1))
  BY NextPrefix
<1>2. RangeOf(Prefix(n - 1)) \subseteq RangeOf(Prefix(n))
  BY <1>1 DEF Past, RangeOf
<1> SUFFICES ASSUME t \in Mixers, NEW k \in Mixers, MixMsg(b, k, k) \in RangeOf(Prefix(n)),
                    MixMsg(b, k, t) \notin RangeOf(Prefix(n)), SignDue(b, k, t) \notin completed
             PROVE  /\ Len(Prefix(n)) \in DOMAIN Prefix(n)
                    /\ Prefix(n)[Len(Prefix(n))] = MixMsg(b, k, k)
  BY DEF SignsPromptly
<1>3. MixMsg(b, k, k) \notin RangeOf(Prefix(n - 1))
  BY <1>2 DEF Signed
<1> QED
  BY <1>1, <1>3

LEMMA UpdatesAreOrderly ==
    ASSUME Types, Calm, NEW b, Orderly(b), NEW t \in Trustees, ReceiveUpdate(t)
    PROVE  Orderly(b)'
<1> DEFINE self == trustee[t]
           n == Len(self.board) + 1
<1>1. PICK update \in Updates(t) : RefuseUpdate(t, update) \/ ProcessUpdate(t, update)
  BY DEF ReceiveUpdate
<1>2. UNCHANGED <<tasVars, environment>>
  BY DEF ReceiveUpdate
<1> DEFINE bb == Extended(self.board, update)
           refused == {i \in DOMAIN bb \ DOMAIN self.board :
                          \/ ConversionPanics(bb, i, self.configured)
                          \/ ~Convertible(bb, i, self.configured, self.active)}
           active == PopulateActive(bb, self.active)
           logic_runs == self.state # "ElectionSetup" /\ self.configured
           due == IF logic_runs THEN DueActions(t, bb, active, self.completed) ELSE {}
           failure == IF logic_runs THEN LogicFailure(t, bb, active, due) ELSE "None"
           next == NextState(t, self.state, bb, self.configured, active)
<1>3. /\ self.state \in Running /\ n \in DOMAIN update
      /\ Conclude(t, bb, active, refused, due, failure)
  <2>1. ~InvalidUpdate(t, update)
    BY NextUpdate
  <2>2. ProcessUpdate(t, update)
    BY <1>1, <2>1 DEF RefuseUpdate
  <2> QED
    BY <2>2 DEF ProcessUpdate
<1>4. /\ self.state \in Settled /\ self.configured = TRUE /\ self.failure = "None"
      /\ Ordered(b, self.board) /\ Signed(b, self.board, t, self.completed)
      /\ starts[t] = 0 /\ Ordered(b, board)
  BY DEF Orderly, SettledActor
<1>5. /\ BoardOK /\ ActorOK(self) /\ IsPrefix(self.board)
      /\ self.active = ActiveOf(self.board)
  BY <1>3 DEF Types, ActorsOK, ActorOK
<1>6. n \in 1..Len(board) /\ bb = Prefix(n)
  BY <1>3, NextUpdate
<1>7. self.board = Prefix(n - 1) /\ n - 1 \in 0..Len(board) /\ n \in (n - 1)..Len(board)
      /\ n \in 0..Len(board) /\ Len(self.board) = n - 1
  <2>1. Len(self.board) \in 0..Len(board) /\ self.board = Prefix(Len(self.board))
    BY <1>5, Mirrors
  <2>2. Len(self.board) \in Nat /\ Len(board) \in Nat /\ n - 1 = Len(self.board)
    BY <1>5, <2>1, BoardIs
  <2> QED
    BY <1>6, <2>1, <2>2
<1> HIDE DEF n
<1>8. /\ Ordered(b, Prefix(n)) /\ DOMAIN Prefix(n) = 1..n /\ Len(Prefix(n)) = n
      /\ Past(Prefix(n), n) = RangeOf(Prefix(n - 1))
      /\ RangeOf(Prefix(n)) \subseteq RangeOf(board)
  BY <1>4, <1>5, <1>6, <1>7, NextPrefix
<1>9. active = ActiveOf(bb)
  BY <1>5, <1>6, <1>7, ActiveStays
<1>10. SignsPromptly(b, bb, t, self.completed)
  BY <1>4, <1>5, <1>6, <1>7, PromptAgain
<1>11. refused = {}
  <2> SUFFICES ASSUME NEW i \in DOMAIN bb \ DOMAIN self.board
               PROVE  ~ConversionPanics(bb, i, TRUE) /\ Convertible(bb, i, TRUE, self.active)
    BY <1>4
  <2>1. DOMAIN self.board = 1..n - 1
    BY <1>5, <1>7, PrefixIs
  <2>2. i = n
    BY <1>6, <1>8, <2>1
  <2>3. Opening(b) \in Past(bb, i) => self.active = Identity
    BY <1>4, <1>5, <1>6, <1>7, <1>8, <2>2, ActiveOfOrdered
  <2>4. i \in DOMAIN bb /\ Ordered(b, bb)
    BY <1>6, <1>8
  <2> HIDE DEF bb
  <2> QED
    BY <2>3, <2>4, NewMessageConverts
<1>12. logic_runs
  BY <1>4 DEF Settled
<1>13. due = DueActions(t, bb, ActiveOf(bb), self.completed)
  BY <1>9, <1>12
<1> HIDE DEF due, active, bb, refused
<1>14. failure = "None"
  <2>1. Ordered(b, bb)
    BY <1>6, <1>8
  <2>2. LogicFailure(t, bb, ActiveOf(bb), due) = "None"
    BY <1>4, <1>10, <1>13, <2>1, LogicSucceeds
  <2> QED
    BY <1>9, <2>2
<1>15. next \in Settled
  <2>1. NextState(t, self.state, bb, TRUE, active) \in Settled
    BY <1>4, SettledNext
  <2> QED
    BY <1>4, <2>1
<1> HIDE DEF failure, next
<1>16. /\ trustee' = [trustee EXCEPT ![t].state = next, ![t].board = bb,
                                     ![t].active = active, ![t].completed = @ \cup due]
       /\ sent' = sent \cup {ActionMessage(t, bb, active, a) : a \in due}
       /\ UNCHANGED starts
  <2>1. next # "Failed"
    BY <1>15 DEF Settled
  <2> QED
    BY <1>3, <1>11, <1>14, <2>1 DEF Conclude, next
<1>17. trustee' = [trustee EXCEPT ![t] = ActorRecord(next, bb, TRUE, ActiveOf(bb),
                                            self.completed \cup due, "None")]
  <2>1. AfterUpdate(trustee[t], next, bb, active, trustee[t].completed \cup due)
           = ActorRecord(next, bb, TRUE, ActiveOf(bb), self.completed \cup due, "None")
    <3>1. trustee[t] = ActorRecord(trustee[t].state, trustee[t].board,
             trustee[t].configured, trustee[t].active, trustee[t].completed,
             trustee[t].failure)
      BY <1>5, ActorIsRecord
    <3>2. AfterUpdate(ActorRecord(self.state, self.board, self.configured, self.active,
                                  self.completed, self.failure),
                      next, bb, active, self.completed \cup due)
             = ActorRecord(next, bb, self.configured, active, self.completed \cup due,
                           self.failure)
      BY RecordAfterUpdate
    <3> QED
      BY <1>4, <1>9, <3>1, <3>2
  <2>2. DOMAIN trustee = Trustees
    BY DEF Types, ActorsOK
  <2>3. trustee' = [trustee EXCEPT ![t] = [trustee[t] EXCEPT !.state = next, !.board = bb,
                      !.active = active, !.completed = trustee[t].completed \cup due]]
    BY <1>16, <2>2
  <2> QED
    BY <2>1, <2>3 DEF AfterUpdate
<1>18. sent' = sent \cup {ActionMessage(t, bb, ActiveOf(bb), a) : a \in due}
  BY <1>9, <1>16
<1>19. Ordered(b, bb) /\ RangeOf(bb) \subseteq RangeOf(board)
  BY <1>6, <1>8
<1>20. UNCHANGED <<tasVars, starts>>
  BY <1>2, <1>16
<1> HIDE DEF self
<1>21. SignsPromptly(b, bb, t, trustee[t].completed)
       /\ due = DueActions(t, bb, ActiveOf(bb), trustee[t].completed)
       /\ trustee' = [trustee EXCEPT ![t] = ActorRecord(next, bb, TRUE, ActiveOf(bb),
                                            trustee[t].completed \cup due, "None")]
  BY <1>10, <1>13, <1>17 DEF self
<1> QED
  BY <1>15, <1>18, <1>19, <1>20, <1>21, TrusteeActs

(* Nothing is mixed on a board without an opening.                         *)
LEMMA NotOpened ==
    ASSUME NEW b, NEW bb, Ordered(b, bb), Mixings(bb) = {}
    PROVE  /\ Opening(b) \notin RangeOf(bb)
           /\ \A k, s \in Mixers : MixMsg(b, k, s) \notin RangeOf(bb)
<1>1. Opening(b).type = "MixInitialization"
  BY MessageFields
<1>2. Opening(b) \notin RangeOf(bb)
  BY <1>1 DEF RangeOf, Mixings, Posted
<1>3. Closed(b, RangeOf(bb))
  BY OrderedIsClosed
<1> QED
  BY <1>2, <1>3, ClosedMeans

LEMMA CommandsAreOrderly ==
    ASSUME Types, NEW b, Orderly(b), NEW t \in Trustees, KeyGenCommand(t)
    PROVE  Orderly(b)'
<1> DEFINE self == trustee[t]
           bb == self.board
           due == IF self.configured THEN DueActions(t, bb, self.active, self.completed) ELSE {}
<1>1. /\ self.state \in Settled /\ self.configured = TRUE /\ self.failure = "None"
      /\ Ordered(b, bb) /\ starts[t] = 0
  BY DEF Orderly, SettledActor
<1>2. StartTrusteeKeyGen(t) /\ Mixings(bb) = {} /\ UNCHANGED <<tasVars, environment>>
  BY <1>1 DEF KeyGenCommand, TrusteeCommand, ApproveSetup, Settled
<1>3. /\ trustee' = [trustee EXCEPT ![t].state = "KeyGen", ![t].completed = @ \cup due]
      /\ sent' = sent \cup {ActionMessage(t, bb, self.active, a) : a \in due}
      /\ UNCHANGED starts
  BY <1>2 DEF StartTrusteeKeyGen
<1>4. /\ BoardOK /\ ActorOK(self) /\ IsPrefix(bb) /\ self.active = ActiveOf(bb)
  BY <1>1 DEF Types, ActorsOK, ActorOK, Settled, Running
<1>5. due = DueActions(t, bb, ActiveOf(bb), self.completed)
  BY <1>1, <1>4
<1>6. SignsPromptly(b, bb, t, self.completed)
  BY <1>1, <1>2, NotOpened DEF SignsPromptly
<1>7. RangeOf(bb) \subseteq RangeOf(board)
  <2>1. \A i \in DOMAIN bb : i \in DOMAIN board /\ bb[i] = board[i]
    BY <1>4, Mirrors
  <2> QED
    BY <2>1 DEF RangeOf
<1> HIDE DEF due
<1>8. trustee' = [trustee EXCEPT ![t] = ActorRecord("KeyGen", bb, TRUE, ActiveOf(bb),
                                           self.completed \cup due, "None")]
  <2>1. AfterStart(trustee[t], "KeyGen", trustee[t].completed \cup due)
           = ActorRecord("KeyGen", bb, TRUE, ActiveOf(bb), self.completed \cup due, "None")
    <3>1. trustee[t] = ActorRecord(self.state, self.board, self.configured, self.active,
                                   self.completed, self.failure)
      BY <1>4, ActorIsRecord
    <3>2. AfterStart(ActorRecord(self.state, self.board, self.configured, self.active,
                                 self.completed, self.failure),
                     "KeyGen", self.completed \cup due)
             = ActorRecord("KeyGen", bb, self.configured, self.active,
                           self.completed \cup due, self.failure)
      BY RecordAfterStart
    <3> QED
      BY <1>1, <1>4, <3>1, <3>2
  <2>2. DOMAIN trustee = Trustees
    BY DEF Types, ActorsOK
  <2>3. trustee' = [trustee EXCEPT ![t] =
           [trustee[t] EXCEPT !.state = "KeyGen", !.completed = trustee[t].completed \cup due]]
    BY <1>3, <2>2
  <2> QED
    BY <2>1, <2>3 DEF AfterStart
<1>9. "KeyGen" \in Settled
  BY DEF Settled
<1>10. UNCHANGED <<tasVars, starts>>
  BY <1>2, <1>3
<1>11. sent' = sent \cup {ActionMessage(t, bb, ActiveOf(bb), a) : a \in due}
  BY <1>3, <1>4
<1>12. /\ SignsPromptly(b, trustee[t].board, t, trustee[t].completed)
       /\ due = DueActions(t, trustee[t].board, ActiveOf(trustee[t].board), trustee[t].completed)
       /\ Ordered(b, trustee[t].board) /\ RangeOf(trustee[t].board) \subseteq RangeOf(board)
       /\ sent' = sent \cup {ActionMessage(t, trustee[t].board, ActiveOf(trustee[t].board), a) :
                                a \in due}
       /\ trustee' = [trustee EXCEPT ![t] = ActorRecord("KeyGen", trustee[t].board, TRUE,
                         ActiveOf(trustee[t].board), trustee[t].completed \cup due, "None")]
  BY <1>1, <1>5, <1>6, <1>7, <1>8, <1>11
<1> HIDE DEF self, bb
<1> QED
  BY <1>9, <1>10, <1>12, TrusteeActs

LEMMA PostingIsOrdered ==
    ASSUME BoardOK, NEW b, Ordered(b, board), NEW msg, Posts(msg), Scripted(b, msg),
           Needs(b, msg) \subseteq RangeOf(board)
    PROVE  Ordered(b, board') /\ RangeOf(board) \subseteq RangeOf(board')
<1> DEFINE n == Len(board) + 1
<1>1. /\ Len(board') = n /\ DOMAIN board' = DOMAIN board \cup {n}
      /\ \A i \in DOMAIN board : i \in DOMAIN board' /\ board'[i] = board[i]
      /\ board'[n] = msg /\ RangeOf(board') = RangeOf(board) \cup {msg}
  BY Posting
<1>2. Len(board) \in Nat /\ DOMAIN board = 1..Len(board)
  BY BoardIs
<1>3. DOMAIN board' = 1..n /\ n \in Nat /\ Len(board') \in Nat
  BY <1>1, <1>2
<1>4. \A i \in DOMAIN board : i < n
  BY <1>2
<1> HIDE DEF n
<1>5. \A i \in DOMAIN board : Past(board', i) = Past(board, i)
  <2> SUFFICES ASSUME NEW i \in DOMAIN board PROVE Past(board', i) = Past(board, i)
    OBVIOUS
  <2>1. {k \in DOMAIN board' : k < i} = {k \in DOMAIN board : k < i}
    BY <1>1, <1>2, <1>3, <1>4
  <2>2. \A k \in {j \in DOMAIN board : j < i} : board'[k] = board[k]
    BY <1>1
  <2> QED
    BY <2>1, <2>2 DEF Past
<1>6. Past(board', n) = RangeOf(board)
  <2>1. {k \in DOMAIN board' : k < n} = DOMAIN board
    BY <1>1, <1>3, <1>4
  <2> QED
    BY <1>1, <2>1 DEF Past, RangeOf
<1>7. \A i \in DOMAIN board' :
         Scripted(b, board'[i]) /\ Needs(b, board'[i]) \subseteq Past(board', i)
  BY <1>1, <1>5, <1>6 DEF Ordered
<1>8. \A i, j \in DOMAIN board' : board'[i] = board'[j] => i = j
  <2>1. \A i \in DOMAIN board : board'[i] # msg
    BY <1>1 DEF Posts, RangeOf
  <2> QED
    BY <1>1, <2>1 DEF Ordered
<1>9. \A s \in TrusteeList : SetupMsg(s) \in RangeOf(board')
  BY <1>1 DEF Ordered
<1>10. DOMAIN board' = 1..Len(board')
  BY <1>1, <1>3
<1> QED
  BY <1>1, <1>3, <1>7, <1>8, <1>9, <1>10 DEF Ordered

(* The invariant when only the TAS changes.                                *)
LEMMA BoardIsOrderly ==
    ASSUME NEW b, Orderly(b), UNCHANGED trusteeVars, Ordered(b, board'),
           RangeOf(board) \subseteq RangeOf(board'),
           tas_state' # "Failed", public_key' \subseteq {FirstKey}
    PROVE  Orderly(b)'
<1>1. sent' = sent /\ trustee' = trustee /\ starts' = starts
  BY DEF trusteeVars
<1>2. \A m \in sent' : Expected(b, m)'
  <2>1. \A m \in sent : Expected(b, m)
    BY DEF Orderly
  <2> QED
    BY <1>1, <2>1 DEF Expected
<1>3. \A t \in Trustees : starts'[t] = 0 /\ SettledActor(b, t, trustee'[t])
  BY <1>1 DEF Orderly
<1> QED
  BY <1>2, <1>3 DEF Orderly

LEMMA OrderedAgree ==
    ASSUME NEW b, NEW bb, Ordered(b, bb)
    PROVE  DecryptedBallotsAgree(bb)
<1>1. ASSUME NEW i \in Posted(bb, "DecryptedBallots")
      PROVE  bb[i].plaintexts_of = MixOf(b, Threshold)
  <2>1. i \in DOMAIN bb /\ bb[i].type = "DecryptedBallots" /\ Scripted(b, bb[i])
    BY <1>1 DEF Posted, Ordered
  <2>2. bb[i] = Plain(b, bb[i].signer)
    BY <2>1, ScriptedByType
  <2>3. \A s : Plain(b, s).plaintexts_of = MixOf(b, Threshold)
    BY DEF Plain, DecryptedBallotsMsg
  <2> QED
    BY <2>2, <2>3
<1> QED
  BY <1>1 DEF DecryptedBallotsAgree

LEMMA ReceivingIsOrderly ==
    ASSUME Types, NEW b, Orderly(b), TASReceive
    PROVE  Orderly(b)'
<1>1. PICK msg \in sent : Handle(msg)
  BY DEF TASReceive
<1>2. UNCHANGED trusteeVars
  BY DEF TASReceive
<1>3. /\ BoardOK /\ Scripted(b, msg) /\ Needs(b, msg) \subseteq RangeOf(board)
      /\ Ordered(b, board) /\ tas_state # "Failed" /\ public_key \subseteq {FirstKey}
  BY DEF Types, Orderly, Expected
<1>4. msg.signed
  BY DEF Types, SentOK, MessageOK, IsMessage
<1>5. msg.type = "ElectionPublicKey" => msg.key = FirstKey
  <2>1. msg.type = "ElectionPublicKey" => msg = Joint(msg.signer)
    BY <1>3, ScriptedByType
  <2>2. \A t : Joint(t).key = FirstKey
    BY DEF Joint, ElectionPublicKeyMsg
  <2> QED
    BY <2>1, <2>2
<1>6. /\ board' = AddToBoard(msg)
      /\ \/ tas_state' \in {"Idle", "AwaitingElectionPublicKeyMsgs", "AwaitingPartialDecryptions",
                            "AwaitingDecryptedBallots", tas_state}
         \/ ~DecryptedBallotsAgree(AddToBoard(msg))
      /\ public_key' = public_key \/ public_key' = {FirstKey}
  BY <1>1, <1>3, <1>4, <1>5
     DEF Handle, HandleSetup, HandleKeyShares, HandleElectionPublicKey, HandleEGCryptograms,
         HandlePartialDecryptions, HandleDecryptedBallots, Accept
<1>7. Ordered(b, board') /\ RangeOf(board) \subseteq RangeOf(board')
  <2>1. board' = board \/ Posts(msg)
    BY <1>6, Adding
  <2> QED
    BY <1>3, <2>1, PostingIsOrdered
<1>8. tas_state' # "Failed"
  BY <1>3, <1>6, <1>7, OrderedAgree
<1>9. public_key' \subseteq {FirstKey}
  BY <1>3, <1>6
<1> QED
  BY <1>2, <1>7, <1>8, <1>9, BoardIsOrderly

(* Until mixing starts, its ballots do not matter.                         *)
KeyGenTypes == {"Setup", "KeyShares", "ElectionPublicKey"}

LEMMA OfAnyBallots ==
    ASSUME NEW b, NEW c, NEW m, m.type \in KeyGenTypes, Scripted(b, m)
    PROVE  Scripted(c, m) /\ Needs(c, m) = Needs(b, m)
<1>1. \/ m.signer \in TrusteeList /\ m = SetupMsg(m.signer)
      \/ m.signer \in Trustees /\ m = Dealt(m.signer)
      \/ m.signer \in Trustees /\ m = Joint(m.signer)
  BY ScriptedByType DEF KeyGenTypes
<1>2. Scripted(c, m)
  BY <1>1 DEF Scripted
<1>3. Needs(c, m) = Needs(b, m)
  BY DEF Needs, KeyGenTypes
<1> QED
  BY <1>2, <1>3

LEMMA OnlyKeyGen ==
    ASSUME NEW b, NEW bb, Ordered(b, bb), Mixings(bb) = {}, NEW m, Scripted(b, m),
           Needs(b, m) \subseteq RangeOf(bb), m.type # "MixInitialization"
    PROVE  m.type \in KeyGenTypes
<1>1. /\ Opening(b) \notin RangeOf(bb)
      /\ \A k, s \in Mixers : MixMsg(b, k, s) \notin RangeOf(bb)
  BY NotOpened
<1>2. 1 \in Mixers
  BY TrusteesAssumption DEF Mixers
<1>3. m.type \in MessageTypes
  BY ScriptedByType
<1>4. ASSUME m.type = "EGCryptograms" PROVE FALSE
  <2>1. m = MixMsg(b, m.originator, m.signer)
    BY <1>4, ScriptedByType
  <2>2. Opening(b) \in Needs(b, MixMsg(b, m.originator, m.signer))
    BY NeedsOfMix
  <2> QED
    BY <1>1, <2>1, <2>2
<1>5. ASSUME m.type = "PartialDecryptions" PROVE FALSE
  <2>1. m = Factors(b, m.signer)
    BY <1>5, ScriptedByType
  <2>2. MixMsg(b, 1, 1) \in Needs(b, Factors(b, m.signer))
    <3>1. \A s, n : n \in Needs(b, Factors(b, s)) <=> \E j, u \in Mixers : n = MixMsg(b, j, u)
      BY NeedsAre
    <3> QED
      BY <1>2, <3>1
  <2> QED
    BY <1>1, <1>2, <2>1, <2>2
<1>6. ASSUME m.type = "DecryptedBallots" PROVE FALSE
  <2>1. m = Plain(b, m.signer)
    BY <1>6, ScriptedByType
  <2>2. Factors(b, 1) \in Needs(b, Plain(b, m.signer))
    <3>1. \A s, n : n \in Needs(b, Plain(b, s)) <=> \E u \in Mixers : n = Factors(b, u)
      BY NeedsAre
    <3> QED
      BY <1>2, <3>1
  <2>3. Closed(b, RangeOf(bb)) /\ Factors(b, 1) \in RangeOf(bb)
    BY <2>1, <2>2, OrderedIsClosed
  <2> QED
    BY <1>1, <1>2, <2>3, ClosedMeans
<1> QED
  BY <1>3, <1>4, <1>5, <1>6 DEF MessageTypes, KeyGenTypes

LEMMA OrderedForAny ==
    ASSUME NEW b, NEW c, NEW bb, Ordered(b, bb), Mixings(bb) = {}
    PROVE  Ordered(c, bb)
<1>1. Closed(b, RangeOf(bb))
  BY OrderedIsClosed
<1>2. ASSUME NEW i \in DOMAIN bb
      PROVE  Scripted(c, bb[i]) /\ Needs(c, bb[i]) \subseteq Past(bb, i)
  <2>1. /\ Scripted(b, bb[i]) /\ Needs(b, bb[i]) \subseteq Past(bb, i)
        /\ Needs(b, bb[i]) \subseteq RangeOf(bb)
    BY <1>1 DEF Ordered, Closed, RangeOf
  <2>2. bb[i].type # "MixInitialization"
    BY DEF Mixings, Posted
  <2>3. bb[i].type \in KeyGenTypes
    BY <2>1, <2>2, OnlyKeyGen
  <2> QED
    BY <2>1, <2>3, OfAnyBallots
<1> QED
  BY <1>2 DEF Ordered

LEMMA OrderlyForAny ==
    ASSUME Types, NEW b, Orderly(b), Mixings(board) = {}, NEW c
    PROVE  Orderly(c)
<1>1. Ordered(b, board) /\ Ordered(c, board)
  BY OrderedForAny DEF Orderly
<1>2. ASSUME NEW m \in sent PROVE Expected(c, m)
  <2>1. /\ Scripted(b, m) /\ Needs(b, m) \subseteq RangeOf(board)
        /\ m.type # "MixInitialization"
    BY <1>2 DEF Orderly, Expected
  <2>2. m.type \in KeyGenTypes
    BY <1>1, <2>1, OnlyKeyGen
  <2> QED
    BY <2>1, <2>2, OfAnyBallots DEF Expected
<1>3. ASSUME NEW t \in Trustees PROVE SettledActor(c, t, trustee[t])
  <2> DEFINE bb == trustee[t].board
  <2>1. SettledActor(b, t, trustee[t]) /\ Ordered(b, bb)
    BY <1>3 DEF Orderly, SettledActor
  <2>2. Mixings(bb) = {}
    <3>1. BoardOK /\ IsPrefix(bb)
      BY <1>3 DEF Types, ActorsOK, ActorOK
    <3>2. \A i \in DOMAIN bb : i \in DOMAIN board /\ bb[i] = board[i]
      BY <3>1, Mirrors
    <3> QED
      BY <3>2 DEF Mixings, Posted
  <2>3. Ordered(c, bb) /\ \A k, s \in Mixers : MixMsg(c, k, s) \notin RangeOf(bb)
    BY <2>1, <2>2, OrderedForAny, NotOpened
  <2>4. Signed(c, bb, t, trustee[t].completed)
    BY <2>3 DEF Signed
  <2> QED
    BY <2>1, <2>3, <2>4 DEF SettledActor
<1> QED
  BY <1>1, <1>2, <1>3 DEF Orderly

LEMMA TrusteesCounted == IsFiniteSet(Trustees) /\ Cardinality(Trustees) = NumTrustees
<1>1. 1 \in Int /\ NumTrustees \in Int /\ 1 <= NumTrustees
  BY TrusteesAssumption
<1>2. IsFiniteSet(1..NumTrustees) /\ Cardinality(1..NumTrustees) = NumTrustees - 1 + 1
  BY <1>1, FS_Interval
<1> QED
  BY <1>1, <1>2 DEF Trustees

LEMMA AllKeysPosted ==
    ASSUME NEW b, Ordered(b, board), ElectionPublicKeysComplete(board)
    PROVE  \A u \in Trustees : Joint(u) \in RangeOf(board)
<1> DEFINE O == Originators(board, "ElectionPublicKey")
<1>1. ASSUME NEW i \in Posted(board, "ElectionPublicKey")
      PROVE  /\ board[i].originator \in Trustees
             /\ board[i] = Joint(board[i].originator) /\ board[i] \in RangeOf(board)
  <2>1. i \in DOMAIN board /\ board[i].type = "ElectionPublicKey" /\ Scripted(b, board[i])
    BY <1>1 DEF Posted, Ordered
  <2>2. board[i].signer \in Trustees /\ board[i] = Joint(board[i].signer)
    BY <2>1, ScriptedByType
  <2>3. \A t : Joint(t).originator = t
    BY DEF Joint, ElectionPublicKeyMsg
  <2> QED
    BY <2>1, <2>2, <2>3 DEF RangeOf
<1>2. O \subseteq Trustees
  BY <1>1 DEF Originators
<1>3. Cardinality(O) = NumTrustees
  BY DEF ElectionPublicKeysComplete
<1>4. \A u \in O : Joint(u) \in RangeOf(board)
  BY <1>1 DEF Originators
<1> HIDE DEF O
<1>5. O = Trustees
  BY <1>2, <1>3, TrusteesCounted, FS_Subset
<1> QED
  BY <1>4, <1>5

LEMMA FirstBoardsUnmixed ==
    ASSUME NEW start_from \in {"nothing", "setup", "keygen"}
    PROVE  Mixings(InitialBoard(start_from)) = {}
<1> DEFINE bb == InitialBoard(start_from)
<1>1. \A i \in DOMAIN bb : KeyGenMessage(bb[i])
  BY InitialBoardIs
<1> QED
  BY <1>1 DEF Mixings, Posted, KeyGenMessage

LEMMA KeyGenBoardComplete ==
    Mixings(KeyGenBoard) = {} /\ ElectionPublicKeysComplete(KeyGenBoard)
<1>1. InitialBoard("keygen") = KeyGenBoard
  BY DEF InitialBoard
<1>2. /\ Mixings(KeyGenBoard) = {}
      /\ \A i \in DOMAIN KeyGenBoard : MessageOK(KeyGenBoard[i])
  <2>1. /\ Mixings(InitialBoard("keygen")) = {}
        /\ \A i \in DOMAIN InitialBoard("keygen") : KeyGenMessage(InitialBoard("keygen")[i])
    BY FirstBoardsUnmixed, InitialBoardIs
  <2> QED
    BY <1>1, <2>1 DEF KeyGenMessage
<1> DEFINE O == Originators(KeyGenBoard, "ElectionPublicKey")
<1>3. O \subseteq Trustees
  BY <1>2 DEF Originators, Posted, MessageOK
<1>4. ASSUME NEW t \in Trustees PROVE t \in O
  <2> DEFINE i == 2 * NumTrustees + 1 + t
  <2>1. i \in 1..3 * NumTrustees + 1
    BY TrusteesAssumption DEF Trustees
  <2>2. i \in DOMAIN KeyGenBoard /\ KeyGenBoard[i] = ElectionPublicKeyMsg(t, FirstKey)
    BY <2>1, KeyGenBoardIs
  <2>3. KeyGenBoard[i].type = "ElectionPublicKey" /\ KeyGenBoard[i].originator = t
    BY <2>2 DEF ElectionPublicKeyMsg
  <2> QED
    BY <2>2, <2>3 DEF Originators, Posted
<1>5. O = Trustees
  BY <1>3, <1>4
<1> QED
  BY <1>2, <1>5, TrusteesCounted DEF ElectionPublicKeysComplete

(* The host mixes once, when there is an election key.                     *)
MixesOnce ==
    Mixings(board') # Mixings(board) =>
        Mixings(board) = {} /\ ElectionPublicKeysComplete(board)

LEMMA HostIsOrderly ==
    ASSUME Types, Calm, NEW b, Orderly(b), TASCommand, MixesOnce
    PROVE  \E c : Orderly(c)'
<1>1. /\ UNCHANGED trusteeVars /\ BoardOK /\ Ordered(b, board)
      /\ tas_state # "Failed" /\ public_key \subseteq {FirstKey}
  BY DEF TASCommand, Types, Orderly
<1>2. \/ StartSetup
      \/ StartKeyGen
      \/ \E parameters \in ceremony.mixing : StartMixing(parameters)
  BY DEF TASCommand
<1>3. ASSUME StartSetup PROVE FALSE
  <2>1. SetupMsg(TAS) \in RangeOf(board)
    <3>1. TAS \in TrusteeList
      BY TrusteesAssumption DEF TrusteeList, TAS
    <3>2. \A s \in TrusteeList : SetupMsg(s) \in RangeOf(board)
      BY <1>1 DEF Ordered
    <3> QED
      BY <3>1, <3>2
  <2>2. SetupMsg(TAS).type = "Setup"
    BY DEF SetupMsg
  <2>3. Posted(board, "Setup") # {}
    BY <2>1, <2>2 DEF RangeOf, Posted
  <2> QED
    BY <1>3, <2>3 DEF StartSetup
<1>4. ASSUME StartKeyGen PROVE Orderly(b)'
  <2>1. board' = board /\ public_key' = public_key /\ tas_state' # "Failed"
    BY <1>4 DEF StartKeyGen
  <2> QED
    BY <1>1, <2>1, BoardIsOrderly
<1>5. ASSUME NEW p \in ceremony.mixing, StartMixing(p)
      PROVE  \E c : Orderly(c)'
  <2>1. p.active_trustees = Identity
    BY <1>5 DEF Calm, Types, ConstantsOK, StartMixing
  <2>2. /\ board' = AddToBoard(Opening(p.ballots))
        /\ public_key' = public_key /\ tas_state' # "Failed"
    BY <1>5, <2>1 DEF StartMixing, Opening
  <2>3. ASSUME board' = board PROVE Orderly(b)'
    BY <1>1, <2>2, <2>3, BoardIsOrderly
  <2>4. ASSUME Posts(Opening(p.ballots)) PROVE Orderly(p.ballots)'
    <3> DEFINE c == p.ballots
    <3>1. Mixings(board') # Mixings(board)
      <4>1. /\ DOMAIN board' = DOMAIN board \cup {Len(board) + 1}
            /\ board'[Len(board) + 1] = Opening(c)
        BY <1>1, <2>4, Posting
      <4>2. Len(board) + 1 \notin DOMAIN board
        BY <1>1, BoardIs
      <4>3. Opening(c).type = "MixInitialization"
        BY MessageFields
      <4> QED
        BY <4>1, <4>2, <4>3 DEF Mixings, Posted
    <3>2. Orderly(c) /\ Ordered(c, board)
      BY <3>1, OrderlyForAny DEF MixesOnce, Orderly
    <3>3. \A u \in Trustees : Joint(u) \in RangeOf(board)
      BY <3>1, <3>2, AllKeysPosted DEF MixesOnce
    <3>4. Needs(c, Opening(c)) \subseteq RangeOf(board)
      <4>1. \A n : n \in Needs(c, Opening(c)) <=> \E u \in Trustees : n = Joint(u)
        BY NeedsAre
      <4> QED
        BY <3>3, <4>1
    <3>5. Scripted(c, Opening(c))
      BY DEF Scripted
    <3> HIDE DEF c
    <3>6. Ordered(c, board') /\ RangeOf(board) \subseteq RangeOf(board')
      <4>1. Posts(Opening(c))
        BY <2>4 DEF c
      <4> QED
        BY <1>1, <3>2, <3>4, <3>5, <4>1, PostingIsOrdered
    <3>7. Orderly(c)'
      BY <1>1, <2>2, <3>2, <3>6, BoardIsOrderly
    <3> QED
      BY <3>7 DEF c
  <2>5. board' = board \/ Posts(Opening(p.ballots))
    BY <2>2, Adding
  <2> QED
    BY <2>3, <2>4, <2>5
<1> QED
  BY <1>2, <1>3, <1>4, <1>5

-------------------------------------------------------------------------------
(* The first boards are in order, and no step takes that away.             *)

LEMMA FirstBoardsOrdered ==
    ASSUME NEW start_from \in {"setup", "keygen"}, NEW b
    PROVE  Ordered(b, InitialBoard(start_from))
<1> DEFINE bb == InitialBoard(start_from)
<1>1. /\ bb \in Seq(RangeOf(bb)) /\ Len(bb) \in Nat /\ DOMAIN bb = 1..Len(bb)
      /\ \A i, j \in DOMAIN bb : bb[i] = bb[j] => i = j
  <2>1. bb \in Seq(RangeOf(bb)) /\ \A i \in DOMAIN bb : Place(bb[i]) = i
    BY InitialBoardIs
  <2> HIDE DEF bb
  <2> QED
    BY <2>1
<1>2. NumTrustees \in Nat
  BY TrusteesAssumption
<1>3. /\ \A s : Needs(b, SetupMsg(s)) = {}
      /\ \A t : Needs(b, Dealt(t)) = {}
      /\ \A t, n : n \in Needs(b, Joint(t)) <=> \E u \in Trustees : n = Dealt(u)
  BY NeedsAre
<1>4. ASSUME NEW i \in 1..NumTrustees + 1, i \in DOMAIN bb, bb[i] = SetupMsg(i - 1)
      PROVE  Scripted(b, bb[i]) /\ Needs(b, bb[i]) \subseteq Past(bb, i)
  <2>1. i - 1 \in TrusteeList
    BY <1>2 DEF TrusteeList
  <2> QED
    BY <1>3, <1>4, <2>1 DEF Scripted
<1>5. ASSUME \A i \in 1..NumTrustees + 1 : i \in DOMAIN bb /\ bb[i] = SetupMsg(i - 1)
      PROVE  \A s \in TrusteeList : SetupMsg(s) \in RangeOf(bb)
  <2> SUFFICES ASSUME NEW s \in TrusteeList PROVE SetupMsg(s) \in RangeOf(bb)
    OBVIOUS
  <2>1. s + 1 \in 1..NumTrustees + 1 /\ (s + 1) - 1 = s
    BY <1>2 DEF TrusteeList
  <2>2. s + 1 \in DOMAIN bb /\ bb[s + 1] = SetupMsg(s)
    BY <1>5, <2>1
  <2> QED
    BY <2>2 DEF RangeOf
<1>6. ASSUME start_from = "setup" PROVE Ordered(b, bb)
  <2>1. bb = SetupBoard
    BY <1>6 DEF InitialBoard
  <2>2. DOMAIN bb = 1..NumTrustees + 1 /\ \A i \in 1..NumTrustees + 1 : bb[i] = SetupMsg(i - 1)
    BY <2>1, SetupBoardIs
  <2> HIDE DEF bb
  <2>3. \A s \in TrusteeList : SetupMsg(s) \in RangeOf(bb)
    BY <1>5, <2>2
  <2>4. \A i \in DOMAIN bb : Scripted(b, bb[i]) /\ Needs(b, bb[i]) \subseteq Past(bb, i)
    BY <1>4, <2>2
  <2> QED
    BY <1>1, <2>3, <2>4 DEF Ordered
<1>7. ASSUME start_from = "keygen" PROVE Ordered(b, bb)
  <2>1. bb = KeyGenBoard
    BY <1>7 DEF InitialBoard
  <2>2. /\ DOMAIN bb = 1..3 * NumTrustees + 1
        /\ \A i \in 1..NumTrustees + 1 : bb[i] = SetupMsg(i - 1)
        /\ \A t \in Trustees : bb[NumTrustees + 1 + t] = Dealt(t)
        /\ \A t \in Trustees : bb[2 * NumTrustees + 1 + t] = Joint(t)
    BY <2>1, KeyGenBoardIs DEF Dealt, Joint
  <2> HIDE DEF bb
  <2>3. \A i \in 1..NumTrustees + 1 : i \in DOMAIN bb
    BY <1>2, <2>2
  <2>4. \A s \in TrusteeList : SetupMsg(s) \in RangeOf(bb)
    BY <1>5, <2>2, <2>3
  <2>5. ASSUME NEW i \in DOMAIN bb
        PROVE  Scripted(b, bb[i]) /\ Needs(b, bb[i]) \subseteq Past(bb, i)
    <3>1. CASE i \in 1..NumTrustees + 1
      BY <1>4, <2>2, <2>3, <3>1
    <3>2. CASE i \in NumTrustees + 2..2 * NumTrustees + 1
      <4> DEFINE t == i - (NumTrustees + 1)
      <4>1. t \in Trustees /\ NumTrustees + 1 + t = i
        BY <1>2, <3>2 DEF Trustees
      <4>2. bb[i] = Dealt(t)
        BY <2>2, <4>1
      <4> QED
        BY <1>3, <4>1, <4>2 DEF Scripted
    <3>3. CASE i \in 2 * NumTrustees + 2..3 * NumTrustees + 1
      <4> DEFINE t == i - (2 * NumTrustees + 1)
      <4>1. t \in Trustees /\ 2 * NumTrustees + 1 + t = i
        BY <1>2, <3>3 DEF Trustees
      <4>2. bb[i] = Joint(t)
        BY <2>2, <4>1
      <4>3. \A u \in Trustees : Dealt(u) \in Past(bb, i)
        <5> SUFFICES ASSUME NEW u \in Trustees PROVE Dealt(u) \in Past(bb, i)
          OBVIOUS
        <5>1. NumTrustees + 1 + u \in DOMAIN bb /\ NumTrustees + 1 + u < i
          BY <1>2, <2>2, <3>3 DEF Trustees
        <5>2. bb[NumTrustees + 1 + u] = Dealt(u)
          BY <2>2
        <5> QED
          BY <5>1, <5>2 DEF Past
      <4> HIDE DEF t
      <4>4. \A n : n \in Needs(b, Joint(t)) => n \in Past(bb, i)
        BY <1>3, <4>3
      <4> QED
        BY <4>1, <4>2, <4>4 DEF Scripted
    <3>4. i \in 1..NumTrustees + 1 \/ i \in NumTrustees + 2..2 * NumTrustees + 1
          \/ i \in 2 * NumTrustees + 2..3 * NumTrustees + 1
      BY <1>2, <2>2
    <3> QED
      BY <3>1, <3>2, <3>3, <3>4
  <2> QED
    BY <1>1, <2>4, <2>5 DEF Ordered
<1> HIDE DEF bb
<1>8. Ordered(b, bb)
  BY <1>6, <1>7
<1> QED
  BY <1>8 DEF bb

LEMMA OrderlyInit ==
    ASSUME Calm, Init
    PROVE  \E b : Orderly(b)
<1> DEFINE start_from == ceremony.start_from
           bb == InitialBoard(start_from)
<1>1. start_from \in {"setup", "keygen"}
  <2>1. ceremony \in Ceremonies /\ ceremony.start_from # "nothing"
    BY DEF Init, Calm
  <2> QED
    BY <2>1, TrusteeProtocolAssumption
<1>2. /\ tas_state = "Idle" /\ board = bb /\ public_key \subseteq {FirstKey}
      /\ trustee = [t \in Trustees |-> Actor(Checkpoint(bb, TRUE, << >>))]
      /\ starts = [t \in Trustees |-> 0] /\ sent = {}
  <2>1. start_from # "nothing"
    BY <1>1
  <2> QED
    BY <2>1 DEF Init, TASInit, TrusteeInit
<1>3. PICK b : b = 0
  OBVIOUS
<1>4. Ordered(b, bb) /\ Mixings(bb) = {}
  BY <1>1, FirstBoardsOrdered, FirstBoardsUnmixed
<1> HIDE DEF bb, start_from
<1>5. ASSUME NEW t \in Trustees PROVE starts[t] = 0 /\ SettledActor(b, t, trustee[t])
  <2>1. /\ trustee[t].state = "Idle" /\ trustee[t].configured = TRUE
        /\ trustee[t].failure = "None" /\ trustee[t].board = bb
    BY <1>2 DEF Actor, Checkpoint
  <2>2. Signed(b, bb, t, trustee[t].completed)
    BY <1>4, NotOpened DEF Signed
  <2> QED
    BY <1>2, <1>4, <2>1, <2>2 DEF SettledActor, Settled
<1> QED
  BY <1>2, <1>4, <1>5 DEF Orderly

(* Steps without tampering, stops and restarts in which the host starts    *)
(* mixing once, with all election keys on the board.                       *)
CalmNext ==
    \/ TASCommand /\ MixesOnce
    \/ TASReceive
    \/ \E t \in Trustees : ReceiveUpdate(t) \/ KeyGenCommand(t)

LEMMA CalmStepsAreSteps == [CalmNext]_vars => [Next]_vars
  BY DEF CalmNext, Next, KeyGenCommand

LEMMA FaultFreeIsCalm == FaultFreeNext => CalmNext
<1>1. HostCommand => TASCommand /\ MixesOnce
  BY KeyGenBoardComplete DEF HostCommand, MixesOnce
<1> QED
  BY <1>1 DEF FaultFreeNext, CalmNext

Smooth == Types /\ \E b : Orderly(b)

LEMMA SmoothStep ==
    ASSUME Calm, Smooth, [CalmNext]_vars
    PROVE  Smooth'
<1>1. Types'
  BY CalmStepsAreSteps, TypesStep DEF Smooth
<1>2. Types
  BY DEF Smooth
<1>3. PICK b : Orderly(b)
  BY DEF Smooth
<1>4. ASSUME UNCHANGED vars PROVE Orderly(b)'
  <2>1. UNCHANGED trusteeVars /\ UNCHANGED tasVars
    BY <1>4 DEF vars
  <2>2. /\ board' = board /\ tas_state' = tas_state /\ public_key' = public_key
    BY <2>1 DEF tasVars
  <2>3. Ordered(b, board) /\ tas_state # "Failed" /\ public_key \subseteq {FirstKey}
    BY <1>3 DEF Orderly
  <2> QED
    BY <1>3, <2>1, <2>2, <2>3, BoardIsOrderly
<1>5. ASSUME TASCommand, MixesOnce PROVE \E c : Orderly(c)'
  BY <1>2, <1>3, <1>5, HostIsOrderly
<1>6. ASSUME TASReceive PROVE Orderly(b)'
  BY <1>2, <1>3, <1>6, ReceivingIsOrderly
<1>7. ASSUME NEW t \in Trustees, ReceiveUpdate(t) PROVE Orderly(b)'
  BY <1>2, <1>3, <1>7, UpdatesAreOrderly
<1>8. ASSUME NEW t \in Trustees, KeyGenCommand(t) PROVE Orderly(b)'
  BY <1>2, <1>3, <1>8, CommandsAreOrderly
<1>9. \E c : Orderly(c)'
  BY <1>4, <1>5, <1>6, <1>7, <1>8 DEF CalmNext
<1> QED
  BY <1>1, <1>9 DEF Smooth

LEMMA SmoothIsFailureFree == Smooth => NoFailures
  BY DEF Smooth, Orderly, SettledActor, NoFailures

(* In a calm ceremony neither the TAS nor any trustee fails, for any       *)
(* number of trustees and any threshold, whatever order the messages reach *)
(* the TAS in and however late the updates are: every message converts to  *)
(* a fact (process_board_update), the Ascent logic reports no error, no    *)
(* trustee has two messages to send at once, and all it verifies holds     *)
(* (execute_action); the election keys and the decrypted ballots that the  *)
(* TAS compares are equal (check_election_public_key_msg,                  *)
(* decrypted_ballots_complete).                                            *)
THEOREM NobodyFails ==
    ASSUME Calm
    PROVE  /\ Init /\ [][CalmNext]_vars => []NoFailures
           /\ FairSpec => []NoFailures
<1>1. Init => Smooth
  BY TypesInit, OrderlyInit DEF Smooth
<1>2. Smooth /\ [CalmNext]_vars => Smooth'
  BY SmoothStep
<1>3. Init /\ [][CalmNext]_vars => []NoFailures
  BY <1>1, <1>2, SmoothIsFailureFree, PTL
<1>4. [FaultFreeNext]_vars => [CalmNext]_vars
  BY FaultFreeIsCalm
<1>5. FairSpec => Init /\ [][CalmNext]_vars
  BY <1>4, PTL DEF FairSpec
<1> QED
  BY <1>3, <1>5
===============================================================================
