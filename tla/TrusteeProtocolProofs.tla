------------------------- MODULE TrusteeProtocolProofs -------------------------
(***************************************************************************)
(* Proofs about the trustee protocols, for any number of trustees, any     *)
(* threshold and all ceremonies: types, the mirrors of the board, and what *)
(* the trustees send.                                                      *)
(***************************************************************************)
EXTENDS TrusteeProtocol, SequenceTheorems, WellFoundedInduction, TLAPS

-------------------------------------------------------------------------------
(* Least and greatest positions.                                           *)

LEMMA LeastExists ==
    ASSUME NEW S, S \subseteq Nat, S # {}
    PROVE  \E m \in S : \A k \in S : m <= k
<1> DEFINE R == OpToRel(<, Nat)
<1>1. IsWellFoundedOn(R, Nat)
  BY NatLessThanWellFounded
<1>2. \A x, y : <<y, x>> \in R <=> y \in Nat /\ x \in Nat /\ y < x
  BY DEF OpToRel
<1> HIDE DEF R
<1>3. PICK m \in S : \A k \in S : ~(<<k, m>> \in R)
  BY <1>1, WFMin
<1>4. \A k \in S : ~(k < m)
  BY <1>2, <1>3
<1>5. \A i, j \in Nat : ~(j < i) => i <= j
  OBVIOUS
<1> QED
  BY <1>4, <1>5

LEMMA FirstIs ==
    ASSUME NEW S, S \subseteq Nat, S # {}
    PROVE  First(S) \in S /\ \A j \in S : First(S) <= j
  BY LeastExists DEF First

LEMMA LastIs ==
    ASSUME NEW n \in Nat, NEW S, S \subseteq 1..n, S # {}
    PROVE  LastOf(S) \in S /\ \A j \in S : j <= LastOf(S)
<1> DEFINE T == {k \in 0..n : n - k \in S}
<1>1. T \subseteq Nat /\ \A k \in T : n - k \in S
  OBVIOUS
<1>2. \A i \in S : i \in 1..n /\ n - i \in 0..n /\ n - (n - i) = i
  OBVIOUS
<1>3. \A i \in S : n - i \in T
  BY <1>2
<1>4. T # {}
  BY <1>3
<1>5. PICK m \in T : \A k \in T : m <= k
  BY <1>1, <1>4, LeastExists
<1>6. n - m \in S
  BY <1>1
<1>7. \A i \in S : m <= n - i
  BY <1>3, <1>5
<1>8. \A i \in S : i <= n - m
  BY <1>1, <1>2, <1>7
<1> HIDE DEF T
<1> QED
  BY <1>6, <1>8 DEF LastOf

(* Where later positions join, the first one stays.                        *)
LEMMA FirstStays ==
    ASSUME NEW S, NEW T, T \subseteq Nat, S \subseteq T, S # {},
           \A i \in S, j \in T \ S : i <= j
    PROVE  First(T) = First(S)
<1>1. First(S) \in S /\ \A j \in S : First(S) <= j
  BY FirstIs
<1>2. First(T) \in T /\ \A j \in T : First(T) <= j
  BY FirstIs
<1>3. First(S) <= First(T)
  BY <1>1, <1>2
<1>4. First(T) <= First(S)
  BY <1>1, <1>2
<1>5. \A i, j \in Nat : i <= j /\ j <= i => i = j
  OBVIOUS
<1> QED
  BY <1>1, <1>2, <1>3, <1>4, <1>5

-------------------------------------------------------------------------------
(* Types.                                                                  *)

MessageOK(msg) ==
    /\ IsMessage(msg)
    /\ "signed" \in DOMAIN msg
    /\ msg.type \notin {"Setup", "MixInitialization"} =>
          msg.originator \in Trustees /\ msg.signer \in Trustees
    /\ msg.type \in {"KeyShares", "ElectionPublicKey"} => msg.originator = msg.signer
    /\ msg.type = "KeyShares" => msg.deal \in 0..MaxRestarts
    /\ msg.type = "ElectionPublicKey" => msg.key \in [Trustees -> 0..MaxRestarts]
    /\ msg.type = "MixInitialization" =>
          /\ msg.active_trustees \in Seq(Trustees)
          /\ Len(msg.active_trustees) = Threshold
          /\ \A i, j \in DOMAIN msg.active_trustees :
                msg.active_trustees[i] = msg.active_trustees[j] => i = j

(* The board, on which no message is twice.                                *)
BoardOK ==
    /\ board \in Seq(RangeOf(board))
    /\ \A msg \in RangeOf(board) : MessageOK(msg)
    /\ \A i, j \in DOMAIN board : board[i] = board[j] => i = j

(* A mirror is a prefix of the board.                                      *)
Prefix(n) == [i \in 1..n |-> board[i]]
IsPrefix(bb) == \E n \in 0..Len(board) : bb = Prefix(n)

(* What the conversion to facts made sure of: the messages of mixing and   *)
(* decryption are of active trustees, after the mix that they are about.   *)
Converted(bb) ==
    \A i \in DOMAIN bb : bb[i].type \in MixingPhase =>
        /\ bb[i].signer \in RangeOf(ActiveOf(bb))
        /\ bb[i].type = "EGCryptograms" => bb[i].originator \in RangeOf(ActiveOf(bb))
        /\ RoundExists(bb, i, ActiveOf(bb), InputRound(ActiveOf(bb), bb[i]))

ActorOK(actor) ==
    /\ actor \in [state : Running \cup {"Failed", "Panicked"}, board : {actor.board},
                  configured : BOOLEAN, active : Seq(Trustees),
                  completed : {actor.completed}, failure : {actor.failure}]
    /\ IsPrefix(actor.board)
    /\ actor.state \in Running =>
          actor.active = ActiveOf(actor.board) /\ Converted(actor.board)

CheckpointOK(c) ==
    /\ c \in [board : {c.board}, configured : BOOLEAN, active : Seq(Trustees)]
    /\ IsPrefix(c.board)
    /\ c.active = ActiveOf(c.board)
    /\ Converted(c.board)

ActorsOK ==
    /\ trustee \in [Trustees -> RangeOf(trustee)]
    /\ saved \in [Trustees -> RangeOf(saved)]
    /\ \A t \in Trustees : ActorOK(trustee[t]) /\ CheckpointOK(saved[t])

SentOK == \A msg \in sent : MessageOK(msg) /\ msg.signer \in Trustees

ConstantsOK ==
    /\ ceremony \in Ceremonies
    /\ stops \in 0..ceremony.max_stops
    /\ starts \in [Trustees -> 0..MaxRestarts]
    /\ tas_state \in TASStates
    /\ active_trustees \subseteq Trustees
    /\ public_key \subseteq [Trustees -> 0..MaxRestarts]

Types == BoardOK /\ ActorsOK /\ SentOK /\ ConstantsOK

-------------------------------------------------------------------------------
(* Boards and their prefixes.                                              *)

LEMMA BoardIs ==
    ASSUME BoardOK
    PROVE  Len(board) \in Nat /\ DOMAIN board = 1..Len(board)
  BY LenProperties DEF BoardOK

LEMMA PrefixIs ==
    ASSUME BoardOK, NEW n \in 0..Len(board)
    PROVE  /\ Prefix(n) \in Seq(RangeOf(board))
           /\ Len(Prefix(n)) = n
           /\ DOMAIN Prefix(n) = 1..n
           /\ \A i \in 1..n : i \in DOMAIN board /\ Prefix(n)[i] = board[i]
           /\ RangeOf(Prefix(n)) \subseteq RangeOf(board)
<1>1. Len(board) \in Nat /\ DOMAIN board = 1..Len(board)
  BY BoardIs
<1>2. n \in Nat /\ \A i \in 1..n : i \in DOMAIN board
  BY <1>1
<1>3. Prefix(n) \in [1..n -> RangeOf(board)]
  BY <1>2 DEF Prefix, RangeOf
<1>4. Prefix(n) \in Seq(RangeOf(board))
  BY <1>2, <1>3, SeqDef
<1>5. DOMAIN Prefix(n) = 1..n /\ \A i \in 1..n : Prefix(n)[i] = board[i]
  BY DEF Prefix
<1>6. Len(Prefix(n)) = n
  BY <1>2, <1>4, <1>5, LenProperties
<1> QED
  BY <1>2, <1>4, <1>5, <1>6 DEF RangeOf

LEMMA WholeIsPrefix ==
    ASSUME BoardOK
    PROVE  board = Prefix(Len(board)) /\ IsPrefix(board)
<1>1. Len(board) \in Nat /\ board \in [1..Len(board) -> RangeOf(board)]
  BY LenProperties DEF BoardOK
<1>2. board = Prefix(Len(board))
  BY <1>1 DEF Prefix
<1> QED
  BY <1>1, <1>2 DEF IsPrefix

(* What add_to_board does.                                                 *)
Posts(msg) == msg \notin RangeOf(board) /\ board' = Append(board, msg)

LEMMA Posting ==
    ASSUME BoardOK, NEW msg, Posts(msg)
    PROVE  /\ Len(board') = Len(board) + 1
           /\ \A i \in DOMAIN board : i \in DOMAIN board' /\ board'[i] = board[i]
           /\ board'[Len(board) + 1] = msg
           /\ DOMAIN board' = DOMAIN board \cup {Len(board) + 1}
           /\ RangeOf(board') = RangeOf(board) \cup {msg}
           /\ \A n \in 0..Len(board) : Prefix(n)' = Prefix(n)
           /\ \A bb : IsPrefix(bb) => IsPrefix(bb)'
           /\ MessageOK(msg) => BoardOK'
<1> DEFINE S == RangeOf(board) \cup {msg}
<1>1. Len(board) \in Nat /\ DOMAIN board = 1..Len(board)
  BY BoardIs
<1>2. board \in Seq(S)
  BY SeqMonotonic DEF BoardOK
<1>3. /\ board' \in Seq(S)
      /\ Len(board') = Len(board) + 1
      /\ \A i \in 1..Len(board) : board'[i] = board[i]
      /\ board'[Len(board) + 1] = msg
  BY <1>2, AppendProperties DEF Posts
<1>4. DOMAIN board' = 1..Len(board) + 1
  BY <1>3, LenProperties
<1>5. /\ 1..Len(board) + 1 = (1..Len(board)) \cup {Len(board) + 1}
      /\ Len(board) + 1 \notin 1..Len(board)
  BY <1>1
<1>6. RangeOf(board') = S
  BY <1>1, <1>3, <1>4, <1>5 DEF RangeOf
<1>7. \A n \in 0..Len(board) : Prefix(n)' = Prefix(n)
  <2> SUFFICES ASSUME NEW n \in 0..Len(board) PROVE Prefix(n)' = Prefix(n)
    OBVIOUS
  <2>1. \A i \in 1..n : i \in 1..Len(board)
    BY <1>1
  <2> QED
    BY <1>3, <2>1 DEF Prefix
<1>8. \A bb : IsPrefix(bb) => IsPrefix(bb)'
  <2> SUFFICES ASSUME NEW bb, NEW n \in 0..Len(board), bb = Prefix(n) PROVE IsPrefix(bb)'
    BY DEF IsPrefix
  <2>1. n \in 0..Len(board') /\ bb = Prefix(n)'
    BY <1>1, <1>3, <1>7
  <2> QED
    BY <2>1 DEF IsPrefix
<1>9. ASSUME MessageOK(msg)
      PROVE  BoardOK'
  <2>1. \A m \in RangeOf(board') : MessageOK(m)
    BY <1>6, <1>9 DEF BoardOK
  <2>2. \A i, j \in DOMAIN board' : board'[i] = board'[j] => i = j
    BY <1>1, <1>3, <1>4, <1>5 DEF BoardOK, Posts, RangeOf
  <2> QED
    BY <1>3, <1>6, <2>1, <2>2 DEF BoardOK
<1> QED
  BY <1>1, <1>3, <1>4, <1>5, <1>6, <1>7, <1>8, <1>9

LEMMA PrefixOfPrefix ==
    ASSUME BoardOK, NEW n \in 0..Len(board), NEW i \in 1..n
    PROVE  SubSeq(Prefix(n), 1, i - 1) = Prefix(i - 1) /\ i - 1 \in 0..Len(board)
<1>1. Len(board) \in Nat
  BY BoardIs
<1>2. n \in Nat /\ i - 1 \in 0..n /\ i - 1 \in 0..Len(board)
  BY <1>1
<1>3. Prefix(n) \in Seq(RangeOf(board)) /\ Len(Prefix(n)) = n
  BY PrefixIs
<1>4. /\ SubSeq(Prefix(n), 1, i - 1) \in Seq(RangeOf(board))
      /\ Len(SubSeq(Prefix(n), 1, i - 1)) = i - 1
      /\ \A k \in 1..i - 1 : SubSeq(Prefix(n), 1, i - 1)[k] = Prefix(n)[k]
  BY <1>2, <1>3, SubSeqProperties
<1>5. \A k \in 1..i - 1 : Prefix(n)[k] = board[k]
  BY <1>2 DEF Prefix
<1>6. /\ Prefix(i - 1) \in Seq(RangeOf(board))
      /\ Len(Prefix(i - 1)) = i - 1
      /\ \A k \in 1..i - 1 : Prefix(i - 1)[k] = board[k]
  BY <1>2, PrefixIs
<1> QED
  BY <1>2, <1>4, <1>5, <1>6, SeqEqual

LEMMA PostedIs ==
    ASSUME BoardOK, NEW n \in 0..Len(board), NEW type
    PROVE  Posted(Prefix(n), type) = {i \in 1..n : board[i].type = type}
  BY PrefixIs DEF Posted

(* The active trustees do not change once they are known.                  *)
LEMMA ActiveStays ==
    ASSUME BoardOK, NEW n \in 0..Len(board), NEW m \in n..Len(board)
    PROVE  /\ PopulateActive(Prefix(m), ActiveOf(Prefix(n))) = ActiveOf(Prefix(m))
           /\ ActiveOf(Prefix(n)) \in Seq(Trustees)
<1> DEFINE P == Posted(Prefix(n), "MixInitialization")
           Q == Posted(Prefix(m), "MixInitialization")
<1>1. Len(board) \in Nat /\ n \in Nat /\ m \in Nat /\ m \in 0..Len(board)
  BY BoardIs
<1>2. /\ P = {i \in 1..n : board[i].type = "MixInitialization"}
      /\ Q = {i \in 1..m : board[i].type = "MixInitialization"}
  BY <1>1, PostedIs
<1>3. P \subseteq Q /\ Q \subseteq Nat /\ P \subseteq Nat /\ \A i \in P, j \in Q \ P : i <= j
  BY <1>1, <1>2
<1> HIDE DEF P, Q
<1>4. CASE P = {}
  <2>1. ActiveOf(Prefix(n)) = << >>
    BY <1>4 DEF ActiveOf, PopulateActive, P
  <2> QED
    BY <2>1, EmptySeq DEF ActiveOf
<1>5. CASE P # {}
  <2>1. First(Q) = First(P) /\ First(P) \in P
    BY <1>3, <1>5, FirstStays, FirstIs
  <2>2. First(P) \in 1..n /\ board[First(P)].type = "MixInitialization" /\ Q # {}
    BY <1>2, <1>3, <2>1
  <2>3. Prefix(n)[First(P)] = board[First(P)] /\ Prefix(m)[First(P)] = board[First(P)]
    BY <1>1, <2>2 DEF Prefix
  <2>4. MessageOK(board[First(P)])
    <3>1. First(P) \in DOMAIN board
      BY <2>2, PrefixIs
    <3> QED
      BY <3>1 DEF BoardOK, RangeOf
  <2>5. /\ board[First(P)].active_trustees \in Seq(Trustees)
        /\ board[First(P)].active_trustees # << >>
    BY <2>2, <2>4, EmptySeq, TrusteesAssumption DEF MessageOK
  <2>6. ActiveOf(Prefix(n)) = board[First(P)].active_trustees
    BY <1>5, <2>3 DEF ActiveOf, PopulateActive, P
  <2>7. ActiveOf(Prefix(m)) = board[First(P)].active_trustees
    BY <2>1, <2>2, <2>3 DEF ActiveOf, PopulateActive, Q
  <2> QED
    BY <2>5, <2>6, <2>7 DEF PopulateActive
<1> QED
  BY <1>4, <1>5

(* An update that is processed extends a mirror to a longer prefix.        *)
LEMMA UpdatesExtend ==
    ASSUME Types, NEW t \in Trustees, NEW update \in Updates(t), ~InvalidUpdate(t, update),
           Len(trustee[t].board) + 1 \in DOMAIN update
    PROVE  \E m \in 0..Len(board), n \in 0..Len(board) :
              /\ trustee[t].board = Prefix(m)
              /\ m < n
              /\ Extended(trustee[t].board, update) = Prefix(n)
<1>1. BoardOK /\ Len(board) \in Nat /\ DOMAIN board = 1..Len(board)
  BY BoardIs DEF Types
<1>2. PICK m \in 0..Len(board) : trustee[t].board = Prefix(m)
  BY DEF Types, ActorsOK, ActorOK, IsPrefix
<1>3. Len(trustee[t].board) = m /\ DOMAIN trustee[t].board = 1..m
  BY <1>1, <1>2, PrefixIs
<1>4. ASSUME NEW k \in DOMAIN board, update = [i \in {k} |-> Spoiled(board[i])]
      PROVE  FALSE
  <2>1. "signed" \in DOMAIN board[k]
    BY <1>1, <1>4 DEF BoardOK, RangeOf, MessageOK
  <2>2. k \in DOMAIN update /\ ~update[k].signed
    BY <1>4, <2>1 DEF Spoiled
  <2> QED
    BY <2>2 DEF InvalidUpdate
<1>5. PICK from \in DOMAIN board, to \in DOMAIN board : update = Update(from, to)
  BY <1>4 DEF Updates
<1>6. /\ DOMAIN update = from..to
      /\ \A i \in from..to : update[i] = board[i]
  BY <1>5 DEF Update
<1>7. from \in 1..m + 1 /\ m < to /\ to \in 0..Len(board) /\ from \in Nat /\ to \in Nat
  BY <1>1, <1>3, <1>6
<1>8. (1..m) \cup (from..to) = 1..to
  BY <1>1, <1>7
<1>9. Extended(Prefix(m), update) = Prefix(to)
  <2>1. DOMAIN Prefix(m) \cup DOMAIN update = 1..to
    BY <1>2, <1>3, <1>6, <1>8
  <2>2. \A i \in 1..to : (IF i \in DOMAIN Prefix(m) THEN Prefix(m)[i] ELSE update[i]) = board[i]
    BY <1>2, <1>3, <1>6, <1>8 DEF Prefix
  <2> QED
    BY <2>1, <2>2 DEF Extended, Prefix
<1> QED
  BY <1>2, <1>7, <1>9

-------------------------------------------------------------------------------
(* Facts and actions.                                                      *)

(* The messages that facts come from.                                      *)
LEMMA FactsFrom ==
    ASSUME NEW bb, NEW i, NEW active, bb[i].type \in MessageTypes
    PROVE  /\ Fact(bb, i, active).fact = "ConfigurationValid" <=> bb[i].type = "Setup"
           /\ Fact(bb, i, active).fact = "Shares" <=> bb[i].type = "KeyShares"
           /\ Fact(bb, i, active).fact = "PublicKey" <=> bb[i].type = "ElectionPublicKey"
           /\ Fact(bb, i, active).fact = "Ballots" <=> bb[i].type = "MixInitialization"
           /\ Fact(bb, i, active).fact = "Mix" <=>
                 bb[i].type = "EGCryptograms" /\ bb[i].originator = bb[i].signer
           /\ Fact(bb, i, active).fact = "MixSignature" <=>
                 bb[i].type = "EGCryptograms" /\ bb[i].originator # bb[i].signer
           /\ Fact(bb, i, active).fact = "PartialDecryptions" <=>
                 bb[i].type = "PartialDecryptions"
           /\ Fact(bb, i, active).fact = "Plaintexts" <=> bb[i].type = "DecryptedBallots"
<1>1. CASE bb[i].type = "Setup"
  BY <1>1 DEF Fact
<1>2. CASE bb[i].type = "KeyShares"
  BY <1>2 DEF Fact
<1>3. CASE bb[i].type = "ElectionPublicKey"
  BY <1>3 DEF Fact
<1>4. CASE bb[i].type = "MixInitialization"
  BY <1>4 DEF Fact
<1>5. CASE bb[i].type = "EGCryptograms" /\ bb[i].originator = bb[i].signer
  BY <1>5 DEF Fact
<1>6. CASE bb[i].type = "EGCryptograms" /\ bb[i].originator # bb[i].signer
  BY <1>6 DEF Fact
<1>7. CASE bb[i].type = "PartialDecryptions"
  BY <1>7 DEF Fact
<1>8. CASE bb[i].type = "DecryptedBallots"
  BY <1>8 DEF Fact
<1> QED
  BY <1>1, <1>2, <1>3, <1>4, <1>5, <1>6, <1>7, <1>8 DEF MessageTypes

(* What facts say.                                                         *)
LEMMA FactsSay ==
    ASSUME NEW bb, NEW i, NEW active
    PROVE  /\ bb[i].type = "Setup" => Fact(bb, i, active).sender = bb[i].signer
           /\ bb[i].type = "KeyShares" => Fact(bb, i, active) =
                 [fact |-> "Shares", shares |-> <<bb[i].originator, bb[i].deal>>,
                  sender |-> bb[i].originator]
           /\ bb[i].type = "ElectionPublicKey" => Fact(bb, i, active) =
                 [fact |-> "PublicKey", pk |-> bb[i].key, sender |-> bb[i].originator]
           /\ bb[i].type = "MixInitialization" => Fact(bb, i, active) =
                 [fact |-> "Ballots", pk |-> AscentPk(bb, i),
                  ciphertexts |-> Unmixed(bb[i].ballots),
                  mixing_trustees |-> [k \in DOMAIN bb[i].active_trustees |-> k]]
           /\ bb[i].type = "EGCryptograms" => Fact(bb, i, active) =
                 [fact |-> IF bb[i].originator = bb[i].signer THEN "Mix" ELSE "MixSignature",
                  pk |-> AscentPk(bb, i),
                  in |-> RoundOutput(bb, i, active, InputRound(active, bb[i])),
                  out |-> bb[i].ciphertexts, sender |-> ActiveIndex(active, bb[i].signer)]
           /\ bb[i].type = "PartialDecryptions" => Fact(bb, i, active) =
                 [fact |-> "PartialDecryptions", pk |-> AscentPk(bb, i),
                  in |-> RoundOutput(bb, i, active, InputRound(active, bb[i])),
                  decryptions |-> <<bb[i].signer, bb[i].factors_of, bb[i].proofs>>,
                  sender |-> ActiveIndex(active, bb[i].signer)]
           /\ bb[i].type = "DecryptedBallots" => Fact(bb, i, active) =
                 [fact |-> "Plaintexts", pk |-> AscentPk(bb, i),
                  in |-> RoundOutput(bb, i, active, InputRound(active, bb[i])),
                  plaintexts |-> bb[i].plaintexts_of,
                  sender |-> ActiveIndex(active, bb[i].signer)]
<1>1. CASE bb[i].type = "Setup"
  BY <1>1 DEF Fact
<1>2. CASE bb[i].type = "KeyShares"
  BY <1>2 DEF Fact
<1>3. CASE bb[i].type = "ElectionPublicKey"
  BY <1>3 DEF Fact
<1>4. CASE bb[i].type = "MixInitialization"
  BY <1>4 DEF Fact
<1>5. CASE bb[i].type = "EGCryptograms"
  BY <1>5 DEF Fact
<1>6. CASE bb[i].type = "PartialDecryptions"
  BY <1>6 DEF Fact
<1>7. CASE bb[i].type = "DecryptedBallots"
  BY <1>7 DEF Fact
<1> QED
  BY <1>1, <1>2, <1>3, <1>4, <1>5, <1>6, <1>7

LEMMA ActionsByName ==
    ASSUME NEW M, NEW a \in Actions(M)
    PROVE  \/ a.action = "ComputeShares" /\ a \in ComputeShares(M)
           \/ a.action = "ComputePublicKey" /\ a \in ComputePublicKey(M)
           \/ a.action = "ComputeMix" /\ a \in ComputeFirstMix(M) \cup ComputeNextMix(M)
           \/ a.action = "SignMix" /\ a \in SignMix(M)
           \/ a.action = "ComputePartialDecryptions" /\ a \in ComputePartialDecryptions(M)
           \/ a.action = "ComputePlaintexts" /\ a \in ComputePlaintexts(M)
<1>1. CASE a \in ComputeShares(M)
  BY <1>1 DEF ComputeShares
<1>2. CASE a \in ComputePublicKey(M)
  BY <1>2 DEF ComputePublicKey
<1>3. CASE a \in ComputeFirstMix(M)
  BY <1>3 DEF ComputeFirstMix, MixDue
<1>4. CASE a \in ComputeNextMix(M)
  BY <1>4 DEF ComputeNextMix, MixDue
<1>5. CASE a \in SignMix(M)
  BY <1>5 DEF SignMix
<1>6. CASE a \in ComputePartialDecryptions(M)
  <2>1. a.action = "ComputePartialDecryptions"
    BY <1>6 DEF ComputePartialDecryptions
  <2> QED
    BY <1>6, <2>1
<1>7. CASE a \in ComputePlaintexts(M)
  <2>1. a.action = "ComputePlaintexts"
    BY <1>7 DEF ComputePlaintexts
  <2> QED
    BY <1>7, <2>1
<1> QED
  BY <1>1, <1>2, <1>3, <1>4, <1>5, <1>6, <1>7 DEF Actions

-------------------------------------------------------------------------------
(* What a trustee acts on.                                                 *)

LEMMA Mirrors ==
    ASSUME BoardOK, NEW bb, IsPrefix(bb)
    PROVE  /\ Len(bb) \in 0..Len(board)
           /\ bb = Prefix(Len(bb))
           /\ DOMAIN bb = 1..Len(bb)
           /\ DOMAIN bb \subseteq DOMAIN board
           /\ \A i \in DOMAIN bb : bb[i] = board[i] /\ MessageOK(bb[i])
<1>1. PICK n \in 0..Len(board) : bb = Prefix(n)
  BY DEF IsPrefix
<1>2. /\ Len(bb) = n
      /\ DOMAIN bb = 1..n
      /\ \A i \in 1..n : i \in DOMAIN board /\ bb[i] = board[i]
  BY <1>1, PrefixIs
<1>3. \A i \in DOMAIN board : MessageOK(board[i])
  BY DEF BoardOK, RangeOf
<1> QED
  BY <1>1, <1>2, <1>3

(* The trustees act on their own behalf, on a mirror without errors.       *)
Acts(t, bb, a) ==
    /\ IsPrefix(bb)
    /\ Converted(bb)
    /\ a \in Actions(FactsOf(bb, ActiveOf(bb)))
    /\ a.self \in MyIndex(t, ActiveOf(bb))
    /\ ~Errors(FactsOf(bb, ActiveOf(bb)))
    /\ ActionSucceeds(t, bb, ActiveOf(bb), a)

LEMMA SharesAllAre ==
    ASSUME BoardOK, NEW bb, IsPrefix(bb), NEW active,
           NEW hashes \in SharesAll(FactsOf(bb, active)), NEW u \in Trustees
    PROVE  \E j \in Posted(bb, "KeyShares") :
              bb[j].originator = u /\ hashes[u] = <<u, bb[j].deal>>
<1>1. [fact |-> "Shares", shares |-> hashes[u], sender |-> u] \in FactsOf(bb, active)
  BY DEF SharesAll
<1>2. PICK j \in DOMAIN bb :
         Fact(bb, j, active) = [fact |-> "Shares", shares |-> hashes[u], sender |-> u]
  BY <1>1 DEF FactsOf
<1>3. bb[j].type \in MessageTypes
  BY Mirrors DEF MessageOK, IsMessage
<1>4. bb[j].type = "KeyShares"
  BY <1>2, <1>3, FactsFrom
<1>5. Fact(bb, j, active) = [fact |-> "Shares", shares |-> <<bb[j].originator, bb[j].deal>>,
                             sender |-> bb[j].originator]
  BY <1>4, FactsSay
<1>6. bb[j].originator = u /\ hashes[u] = <<u, bb[j].deal>>
  BY <1>2, <1>5
<1> QED
  BY <1>4, <1>6 DEF Posted

LEMMA MixToVerifyIs ==
    ASSUME BoardOK, NEW bb, IsPrefix(bb), NEW active, NEW a \in SignMix(FactsOf(bb, active))
    PROVE  \E i \in Posted(bb, "EGCryptograms") :
              /\ MixToVerify(bb, active, a) = bb[i]
              /\ bb[i].originator = bb[i].signer
              /\ bb[i].ciphertexts = a.out
              /\ RoundOutput(bb, i, active, InputRound(active, bb[i])) = a.in
<1> DEFINE S == {i \in Posted(bb, "EGCryptograms") :
                    LET fact == Fact(bb, i, active)
                    IN  fact.fact = "Mix" /\ fact.in = a.in /\ fact.out = a.out}
<1>1. PICK m \in Facts(FactsOf(bb, active), "Mix") : a.in = m.in /\ a.out = m.out
  BY DEF SignMix
<1>2. PICK j \in DOMAIN bb : m = Fact(bb, j, active) /\ m.fact = "Mix"
  BY DEF Facts, FactsOf
<1>3. \A i \in DOMAIN bb : bb[i].type \in MessageTypes
  BY Mirrors DEF MessageOK, IsMessage
<1>4. bb[j].type = "EGCryptograms"
  BY <1>2, <1>3, FactsFrom
<1>5. j \in S
  BY <1>1, <1>2, <1>4 DEF Posted
<1>6. S \subseteq 1..Len(bb) /\ Len(bb) \in Nat
  BY Mirrors, BoardIs DEF Posted
<1>7. LastOf(S) \in S
  BY <1>5, <1>6, LastIs
<1>8. MixToVerify(bb, active, a) = bb[LastOf(S)]
  BY DEF MixToVerify
<1> HIDE DEF S
<1>9. PICK i : i = LastOf(S)
  OBVIOUS
<1>10. /\ i \in Posted(bb, "EGCryptograms")
       /\ Fact(bb, i, active).fact = "Mix"
       /\ Fact(bb, i, active).in = a.in
       /\ Fact(bb, i, active).out = a.out
  BY <1>7, <1>9 DEF S
<1>11. bb[i].type = "EGCryptograms" /\ bb[i].type \in MessageTypes
  BY <1>10 DEF Posted, MessageTypes
<1>12. bb[i].originator = bb[i].signer
  BY <1>10, <1>11, FactsFrom
<1>13. /\ Fact(bb, i, active).out = bb[i].ciphertexts
       /\ Fact(bb, i, active).in = RoundOutput(bb, i, active, InputRound(active, bb[i]))
  BY <1>11, FactsSay
<1> QED
  BY <1>8, <1>9, <1>10, <1>12, <1>13

(* The messages of trustees, by action.                                    *)
LEMMA MessagesByAction ==
    ASSUME NEW t, NEW bb, NEW active, NEW a
    PROVE  LET msg == ActionMessage(t, bb, active, a) IN
           /\ a.action = "ComputeShares" => msg = KeySharesMsg(t, starts[t])
           /\ a.action = "ComputePublicKey" =>
                 msg = ElectionPublicKeyMsg(t, [i \in Trustees |-> a.shares[i][2]])
           /\ a.action = "ComputeMix" =>
                 msg = EGCryptogramsMsg(t, t, Shuffle(a.in, t, starts[t]))
           /\ a.action = "SignMix" =>
                 msg = EGCryptogramsMsg(MixToVerify(bb, active, a).originator, t, a.out)
           /\ a.action = "ComputePartialDecryptions" =>
                 msg = PartialDecryptionsMsg(t, a.out, starts[t])
           /\ a.action = "ComputePlaintexts" => msg = DecryptedBallotsMsg(t, FinalMix(t, bb))
<1>1. CASE a.action = "ComputeShares"
  BY <1>1 DEF ActionMessage
<1>2. CASE a.action = "ComputePublicKey"
  BY <1>2 DEF ActionMessage
<1>3. CASE a.action = "ComputeMix"
  BY <1>3 DEF ActionMessage
<1>4. CASE a.action = "SignMix"
  BY <1>4 DEF ActionMessage
<1>5. CASE a.action = "ComputePartialDecryptions"
  BY <1>5 DEF ActionMessage
<1>6. CASE a.action = "ComputePlaintexts"
  BY <1>6 DEF ActionMessage, PlaintextsMessage
<1> QED
  BY <1>1, <1>2, <1>3, <1>4, <1>5, <1>6

(* Of the last action.                                                     *)
LEMMA PlaintextsByAction ==
    ASSUME NEW t, NEW bb, NEW active, NEW a, a.action = "ComputePlaintexts"
    PROVE  ActionMessage(t, bb, active, a) = DecryptedBallotsMsg(t, FinalMix(t, bb))
  BY DEF ActionMessage, PlaintextsMessage

LEMMA ActionMessagesOK ==
    ASSUME Types, NEW t \in Trustees, NEW bb, NEW a, Acts(t, bb, a)
    PROVE  LET msg == ActionMessage(t, bb, ActiveOf(bb), a)
           IN  /\ MessageOK(msg)
               /\ msg.signer = t
               /\ msg.type \notin {"Setup", "MixInitialization"}
<1> DEFINE M == FactsOf(bb, ActiveOf(bb))
           msg == ActionMessage(t, bb, ActiveOf(bb), a)
<1>1. BoardOK /\ IsPrefix(bb) /\ a \in Actions(M)
  BY DEF Types, Acts
<1>2. t \in TrusteeList /\ starts[t] \in 0..MaxRestarts
  BY TrusteesAssumption DEF Trustees, TrusteeList, Types, ConstantsOK
<1>3. CASE a.action = "ComputeShares"
  <2>1. msg = KeySharesMsg(t, starts[t])
    BY <1>3, MessagesByAction
  <2> QED
    BY <1>2, <2>1 DEF KeySharesMsg, MessageOK, IsMessage, MessageTypes
<1>4. CASE a.action = "ComputePublicKey"
  <2>1. msg = ElectionPublicKeyMsg(t, [i \in Trustees |-> a.shares[i][2]])
    BY <1>4, MessagesByAction
  <2>2. a \in ComputePublicKey(M)
    BY <1>1, <1>4, ActionsByName
  <2>3. a.shares \in SharesAll(M)
    BY <2>2 DEF ComputePublicKey
  <2>4. \A u \in Trustees : a.shares[u][2] \in 0..MaxRestarts
    <3> SUFFICES ASSUME NEW u \in Trustees PROVE a.shares[u][2] \in 0..MaxRestarts
      OBVIOUS
    <3>1. PICK j \in Posted(bb, "KeyShares") : a.shares[u] = <<u, bb[j].deal>>
      BY <1>1, <2>3, SharesAllAre
    <3>2. j \in DOMAIN bb /\ bb[j].type = "KeyShares"
      BY <3>1 DEF Posted
    <3>3. bb[j].deal \in 0..MaxRestarts
      BY <1>1, <3>2, Mirrors DEF MessageOK
    <3> QED
      BY <3>1, <3>3
  <2>5. [i \in Trustees |-> a.shares[i][2]] \in [Trustees -> 0..MaxRestarts]
    BY <2>4
  <2> QED
    BY <1>2, <2>1, <2>5 DEF ElectionPublicKeyMsg, MessageOK, IsMessage, MessageTypes
<1>5. CASE a.action = "ComputeMix"
  <2>1. msg = EGCryptogramsMsg(t, t, Shuffle(a.in, t, starts[t]))
    BY <1>5, MessagesByAction
  <2> QED
    BY <1>2, <2>1 DEF EGCryptogramsMsg, MessageOK, IsMessage, MessageTypes
<1>6. CASE a.action = "SignMix"
  <2>1. msg = EGCryptogramsMsg(MixToVerify(bb, ActiveOf(bb), a).originator, t, a.out)
    BY <1>6 DEF ActionMessage
  <2>2. a \in SignMix(M)
    BY <1>1, <1>6, ActionsByName
  <2>3. PICK i \in Posted(bb, "EGCryptograms") : MixToVerify(bb, ActiveOf(bb), a) = bb[i]
    BY <1>1, <2>2, MixToVerifyIs
  <2>4. i \in DOMAIN bb /\ bb[i].type = "EGCryptograms"
    BY DEF Posted
  <2>5. bb[i].originator \in Trustees /\ bb[i].originator \in TrusteeList
    BY <1>1, <2>4, Mirrors DEF MessageOK, IsMessage
  <2> QED
    BY <1>2, <2>1, <2>3, <2>5 DEF EGCryptogramsMsg, MessageOK, IsMessage, MessageTypes
<1>7. CASE a.action = "ComputePartialDecryptions"
  <2>1. msg = PartialDecryptionsMsg(t, a.out, starts[t])
    BY <1>7, MessagesByAction
  <2> QED
    BY <1>2, <2>1 DEF PartialDecryptionsMsg, MessageOK, IsMessage, MessageTypes
<1>8. CASE a.action = "ComputePlaintexts"
  <2>1. msg = DecryptedBallotsMsg(t, FinalMix(t, bb))
    BY <1>8, PlaintextsByAction
  <2> QED
    BY <1>2, <2>1 DEF DecryptedBallotsMsg, MessageOK, IsMessage, MessageTypes
<1> QED
  BY <1>1, <1>3, <1>4, <1>5, <1>6, <1>7, <1>8, ActionsByName

-------------------------------------------------------------------------------
(* The steps of the trustees.                                              *)

ActorRecord(state, bb, configured, active, completed, failure) ==
    [state |-> state, board |-> bb, configured |-> configured, active |-> active,
     completed |-> completed, failure |-> failure]

LEMMA ActorIsRecord ==
    ASSUME NEW actor, ActorOK(actor)
    PROVE  /\ actor = ActorRecord(actor.state, actor.board, actor.configured, actor.active,
                                  actor.completed, actor.failure)
           /\ actor.configured \in BOOLEAN
           /\ actor.active \in Seq(Trustees)
  BY DEF ActorOK, ActorRecord

AfterFailure(actor, s, bb, active, f) ==
    [actor EXCEPT !.state = s, !.board = bb, !.active = active, !.failure = f]
AfterUpdate(actor, s, bb, active, d) ==
    [actor EXCEPT !.state = s, !.board = bb, !.active = active, !.completed = d]
AfterStart(actor, s, d) == [actor EXCEPT !.state = s, !.completed = d]
AfterApproval(actor, c) == [actor EXCEPT !.configured = c]

LEMMA RecordAfterFailure ==
    ASSUME NEW s, NEW bb, NEW c, NEW active, NEW d, NEW f,
           NEW s2, NEW bb2, NEW active2, NEW f2
    PROVE  AfterFailure(ActorRecord(s, bb, c, active, d, f), s2, bb2, active2, f2)
              = ActorRecord(s2, bb2, c, active2, d, f2)
<1>1. [ActorRecord(s, bb, c, active, d, f) EXCEPT !.state = s2]
         = ActorRecord(s2, bb, c, active, d, f)
  BY DEF ActorRecord
<1>2. [ActorRecord(s2, bb, c, active, d, f) EXCEPT !.board = bb2]
         = ActorRecord(s2, bb2, c, active, d, f)
  BY DEF ActorRecord
<1>3. [ActorRecord(s2, bb2, c, active, d, f) EXCEPT !.active = active2]
         = ActorRecord(s2, bb2, c, active2, d, f)
  BY DEF ActorRecord
<1>4. [ActorRecord(s2, bb2, c, active2, d, f) EXCEPT !.failure = f2]
         = ActorRecord(s2, bb2, c, active2, d, f2)
  BY DEF ActorRecord
<1>5. AfterFailure(ActorRecord(s, bb, c, active, d, f), s2, bb2, active2, f2)
         = [[[[ActorRecord(s, bb, c, active, d, f) EXCEPT !.state = s2] EXCEPT !.board = bb2]
              EXCEPT !.active = active2] EXCEPT !.failure = f2]
  BY DEF AfterFailure
<1> QED
  BY <1>1, <1>2, <1>3, <1>4, <1>5

LEMMA RecordAfterUpdate ==
    ASSUME NEW s, NEW bb, NEW c, NEW active, NEW d, NEW f,
           NEW s2, NEW bb2, NEW active2, NEW d2
    PROVE  AfterUpdate(ActorRecord(s, bb, c, active, d, f), s2, bb2, active2, d2)
              = ActorRecord(s2, bb2, c, active2, d2, f)
<1>1. [ActorRecord(s, bb, c, active, d, f) EXCEPT !.state = s2]
         = ActorRecord(s2, bb, c, active, d, f)
  BY DEF ActorRecord
<1>2. [ActorRecord(s2, bb, c, active, d, f) EXCEPT !.board = bb2]
         = ActorRecord(s2, bb2, c, active, d, f)
  BY DEF ActorRecord
<1>3. [ActorRecord(s2, bb2, c, active, d, f) EXCEPT !.active = active2]
         = ActorRecord(s2, bb2, c, active2, d, f)
  BY DEF ActorRecord
<1>4. [ActorRecord(s2, bb2, c, active2, d, f) EXCEPT !.completed = d2]
         = ActorRecord(s2, bb2, c, active2, d2, f)
  BY DEF ActorRecord
<1>5. AfterUpdate(ActorRecord(s, bb, c, active, d, f), s2, bb2, active2, d2)
         = [[[[ActorRecord(s, bb, c, active, d, f) EXCEPT !.state = s2] EXCEPT !.board = bb2]
              EXCEPT !.active = active2] EXCEPT !.completed = d2]
  BY DEF AfterUpdate
<1> QED
  BY <1>1, <1>2, <1>3, <1>4, <1>5

LEMMA RecordAfterStart ==
    ASSUME NEW s, NEW bb, NEW c, NEW active, NEW d, NEW f, NEW s2, NEW d2
    PROVE  AfterStart(ActorRecord(s, bb, c, active, d, f), s2, d2)
              = ActorRecord(s2, bb, c, active, d2, f)
<1>1. [ActorRecord(s, bb, c, active, d, f) EXCEPT !.state = s2]
         = ActorRecord(s2, bb, c, active, d, f)
  BY DEF ActorRecord
<1>2. [ActorRecord(s2, bb, c, active, d, f) EXCEPT !.completed = d2]
         = ActorRecord(s2, bb, c, active, d2, f)
  BY DEF ActorRecord
<1>3. \A old : AfterStart(old, s2, d2) = [[old EXCEPT !.state = s2] EXCEPT !.completed = d2]
  BY DEF AfterStart
<1> QED
  BY <1>1, <1>2, <1>3

LEMMA RecordAfterApproval ==
    ASSUME NEW s, NEW bb, NEW c, NEW active, NEW d, NEW f, NEW c2
    PROVE  AfterApproval(ActorRecord(s, bb, c, active, d, f), c2)
              = ActorRecord(s, bb, c2, active, d, f)
  BY DEF AfterApproval, ActorRecord

LEMMA StoppedActorOK ==
    ASSUME NEW state \in {"Failed", "Panicked"}, NEW bb, IsPrefix(bb),
           NEW configured \in BOOLEAN, NEW active \in Seq(Trustees),
           NEW completed, NEW failure
    PROVE  ActorOK(ActorRecord(state, bb, configured, active, completed, failure))
<1> DEFINE actor == ActorRecord(state, bb, configured, active, completed, failure)
<1>1. /\ actor.state = state /\ actor.board = bb /\ actor.active = active
      /\ actor.completed = completed /\ actor.failure = failure
  BY DEF ActorRecord
<1>2. actor.state \notin Running
  BY <1>1 DEF Running
<1>3. actor \in [state : Running \cup {"Failed", "Panicked"}, board : {actor.board},
                 configured : BOOLEAN, active : Seq(Trustees),
                 completed : {actor.completed}, failure : {actor.failure}]
  BY DEF ActorRecord
<1> QED
  BY <1>1, <1>2, <1>3 DEF ActorOK

LEMMA RunningActorOK ==
    ASSUME NEW state \in Running, NEW bb, IsPrefix(bb), Converted(bb),
           NEW configured \in BOOLEAN, ActiveOf(bb) \in Seq(Trustees),
           NEW completed, NEW failure
    PROVE  ActorOK(ActorRecord(state, bb, configured, ActiveOf(bb), completed, failure))
<1> DEFINE actor == ActorRecord(state, bb, configured, ActiveOf(bb), completed, failure)
<1>1. /\ actor.state = state /\ actor.board = bb /\ actor.active = ActiveOf(bb)
      /\ actor.completed = completed /\ actor.failure = failure
  BY DEF ActorRecord
<1>2. actor \in [state : Running \cup {"Failed", "Panicked"}, board : {actor.board},
                 configured : BOOLEAN, active : Seq(Trustees),
                 completed : {actor.completed}, failure : {actor.failure}]
  BY DEF ActorRecord
<1> QED
  BY <1>1, <1>2 DEF ActorOK

LEMMA ActorsKept ==
    ASSUME ActorsOK, UNCHANGED board, NEW t \in Trustees, NEW actor, ActorOK(actor),
           NEW checkpoint, CheckpointOK(checkpoint),
           trustee' = [trustee EXCEPT ![t] = actor],
           saved' = [saved EXCEPT ![t] = checkpoint]
    PROVE  ActorsOK'
<1>1. DOMAIN trustee = Trustees /\ DOMAIN saved = Trustees
  BY DEF ActorsOK
<1>2. /\ trustee' \in [Trustees -> RangeOf(trustee')]
      /\ saved' \in [Trustees -> RangeOf(saved')]
  BY <1>1 DEF RangeOf
<1>3. \A bb : IsPrefix(bb)' <=> IsPrefix(bb)
  BY DEF IsPrefix, Prefix
<1>4. \A x : (ActorOK(x) => ActorOK(x)') /\ (CheckpointOK(x) => CheckpointOK(x)')
  BY <1>3 DEF ActorOK, CheckpointOK
<1>5. \A u \in Trustees : ActorOK(trustee'[u]) /\ CheckpointOK(saved'[u])
  BY <1>1 DEF ActorsOK
<1>6. \A x, u : /\ x = trustee'[u] => (ActorOK(trustee[u])' <=> ActorOK(x)')
                /\ x = saved'[u] => (CheckpointOK(saved[u])' <=> CheckpointOK(x)')
  OBVIOUS
<1>7. \A u \in Trustees : (ActorOK(trustee[u]) /\ CheckpointOK(saved[u]))'
  BY <1>4, <1>5, <1>6
<1> QED
  BY <1>2, <1>7 DEF ActorsOK

LEMMA FailingActors ==
    ASSUME Types, UNCHANGED board, NEW t \in Trustees, NEW bb, IsPrefix(bb),
           NEW active \in Seq(Trustees), NEW state \in {"Failed", "Panicked"}, NEW failure,
           Fail(t, bb, active, state, failure)
    PROVE  ActorsOK' /\ UNCHANGED <<saved, starts, sent>>
<1> DEFINE actor == ActorRecord(state, bb, trustee[t].configured, active,
                                trustee[t].completed, failure)
<1>1. ActorsOK /\ ActorOK(trustee[t]) /\ CheckpointOK(saved[t])
  BY DEF Types, ActorsOK
<1>2. ActorOK(actor)
  BY <1>1, ActorIsRecord, StoppedActorOK
<1>3. trustee' = [trustee EXCEPT ![t] = actor]
  <2>1. trustee[t] = ActorRecord(trustee[t].state, trustee[t].board, trustee[t].configured,
                                 trustee[t].active, trustee[t].completed, trustee[t].failure)
    BY <1>1, ActorIsRecord
  <2>2. AfterFailure(trustee[t], state, bb, active, failure) = actor
    BY <2>1, RecordAfterFailure
  <2>3. DOMAIN trustee = Trustees
    BY <1>1 DEF ActorsOK
  <2>4. trustee' = [trustee EXCEPT ![t] = [trustee[t] EXCEPT !.state = state, !.board = bb,
                                                 !.active = active, !.failure = failure]]
    BY <2>3 DEF Fail
  <2> QED
    BY <2>2, <2>4 DEF AfterFailure
<1>4. saved' = [saved EXCEPT ![t] = saved[t]]
  BY <1>1 DEF Fail, ActorsOK
<1> HIDE DEF actor
<1>5. ActorsOK'
  BY <1>1, <1>2, <1>3, <1>4, ActorsKept
<1> QED
  BY <1>5 DEF Fail

(* A fact about a message does not depend on what follows on the board.    *)
LEMMA RoundsStay ==
    ASSUME BoardOK, NEW bb, IsPrefix(bb), NEW cc, IsPrefix(cc),
           NEW i \in DOMAIN bb, i \in DOMAIN cc, NEW active, NEW round
    PROVE  /\ \A type : Before(i, Posted(bb, type)) = Before(i, Posted(cc, type))
           /\ Before(i, MixesOfRound(bb, active, round)) = Before(i, MixesOfRound(cc, active, round))
           /\ RoundExists(bb, i, active, round) <=> RoundExists(cc, i, active, round)
           /\ RoundExists(bb, i, active, round) =>
                 RoundOutput(bb, i, active, round) = RoundOutput(cc, i, active, round)
<1>1. /\ DOMAIN bb = 1..Len(bb) /\ DOMAIN cc = 1..Len(cc)
      /\ Len(bb) \in Nat /\ Len(cc) \in Nat
      /\ \A j \in DOMAIN bb : bb[j] = board[j]
      /\ \A j \in DOMAIN cc : cc[j] = board[j]
  <2>1. Len(board) \in Nat
    BY BoardIs
  <2> QED
    BY <2>1, Mirrors
<1>2. i \in 1..Len(bb) /\ i \in 1..Len(cc)
  BY <1>1
<1>3. \A j \in DOMAIN bb : j < i => j \in DOMAIN cc
  BY <1>1, <1>2
<1>4. \A j \in DOMAIN cc : j < i => j \in DOMAIN bb
  BY <1>1, <1>2
<1>5. \A type : Before(i, Posted(bb, type)) = Before(i, Posted(cc, type))
  BY <1>1, <1>3, <1>4 DEF Before, Posted
<1>6. Before(i, MixesOfRound(bb, active, round)) = Before(i, MixesOfRound(cc, active, round))
  BY <1>1, <1>3, <1>4 DEF Before, MixesOfRound, Posted
<1>7. RoundExists(bb, i, active, round) <=> RoundExists(cc, i, active, round)
  BY <1>5, <1>6 DEF RoundExists
<1>8. ASSUME NEW S, S \subseteq DOMAIN bb, Before(i, S) # {}
      PROVE  LET f == First(Before(i, S))
             IN  f \in S /\ f < i /\ f \in DOMAIN bb /\ f \in DOMAIN cc /\ bb[f] = cc[f]
  <2>1. Before(i, S) \subseteq Nat
    BY <1>1, <1>8 DEF Before
  <2>2. First(Before(i, S)) \in Before(i, S)
    BY <1>8, <2>1, FirstIs
  <2> QED
    BY <1>1, <1>3, <1>8, <2>2 DEF Before
<1>9. ASSUME RoundExists(bb, i, active, round)
      PROVE  RoundOutput(bb, i, active, round) = RoundOutput(cc, i, active, round)
  <2>1. CASE round = 0
    <3>1. Before(i, Posted(bb, "MixInitialization")) # {}
      BY <1>9, <2>1 DEF RoundExists
    <3>2. Posted(bb, "MixInitialization") \subseteq DOMAIN bb
      BY DEF Posted
    <3>3. bb[First(Before(i, Posted(bb, "MixInitialization")))]
             = cc[First(Before(i, Posted(cc, "MixInitialization")))]
      BY <1>5, <1>8, <3>1, <3>2
    <3> QED
      BY <2>1, <3>3 DEF RoundOutput
  <2>2. CASE round # 0
    <3>1. Before(i, MixesOfRound(bb, active, round)) # {}
      BY <1>9, <2>2 DEF RoundExists
    <3>2. MixesOfRound(bb, active, round) \subseteq DOMAIN bb
      BY DEF MixesOfRound, Posted
    <3>3. bb[First(Before(i, MixesOfRound(bb, active, round)))]
             = cc[First(Before(i, MixesOfRound(cc, active, round)))]
      BY <1>6, <1>8, <3>1, <3>2
    <3> QED
      BY <2>2, <3>3 DEF RoundOutput
  <2> QED
    BY <2>1, <2>2
<1> QED
  BY <1>5, <1>6, <1>7, <1>9

(* An update whose messages can be converted keeps the mirror converted.   *)
LEMMA UpdatesConvert ==
    ASSUME BoardOK, NEW m \in 0..Len(board), NEW n \in 0..Len(board), m < n,
           Converted(Prefix(m)), NEW configured,
           \A i \in DOMAIN Prefix(n) \ DOMAIN Prefix(m) :
              Convertible(Prefix(n), i, configured, ActiveOf(Prefix(m)))
    PROVE  Converted(Prefix(n))
<1> DEFINE bb == Prefix(n)
           old == Prefix(m)
<1>1. /\ Len(board) \in Nat /\ IsPrefix(bb) /\ IsPrefix(old)
      /\ DOMAIN old = 1..m /\ DOMAIN bb = 1..n
  BY BoardIs, PrefixIs DEF IsPrefix
<1>2. ActiveOf(bb) = PopulateActive(bb, ActiveOf(old))
  BY <1>1, ActiveStays
<1>3. ActiveOf(old) # << >> => ActiveOf(bb) = ActiveOf(old)
  BY <1>2 DEF PopulateActive
<1>4. RangeOf(<< >>) = {}
  BY DEF RangeOf
<1>5. RangeOf(ActiveOf(old)) # {} => ActiveOf(bb) = ActiveOf(old)
  BY <1>3, <1>4
<1>6. \A i \in DOMAIN old : i \in DOMAIN bb /\ bb[i] = old[i]
  BY <1>1 DEF Prefix
<1> HIDE DEF bb, old
<1> SUFFICES ASSUME NEW i \in DOMAIN bb, bb[i].type \in MixingPhase
             PROVE  /\ bb[i].signer \in RangeOf(ActiveOf(bb))
                    /\ bb[i].type = "EGCryptograms" =>
                          bb[i].originator \in RangeOf(ActiveOf(bb))
                    /\ RoundExists(bb, i, ActiveOf(bb), InputRound(ActiveOf(bb), bb[i]))
  BY DEF Converted, bb
<1>7. CASE i \in DOMAIN old
  <2>1. /\ bb[i] = old[i]
        /\ bb[i].signer \in RangeOf(ActiveOf(old))
        /\ bb[i].type = "EGCryptograms" => bb[i].originator \in RangeOf(ActiveOf(old))
        /\ RoundExists(old, i, ActiveOf(old), InputRound(ActiveOf(old), bb[i]))
    BY <1>6, <1>7 DEF Converted, old
  <2>2. RoundExists(bb, i, ActiveOf(old), InputRound(ActiveOf(old), bb[i]))
    BY <1>1, <1>7, <2>1, RoundsStay
  <2> QED
    BY <1>5, <2>1, <2>2
<1>8. CASE i \notin DOMAIN old
  <2>1. Convertible(bb, i, configured, ActiveOf(old))
    BY <1>8 DEF bb, old
  <2>2. /\ bb[i].signer \in RangeOf(ActiveOf(old))
        /\ bb[i].type = "EGCryptograms" => bb[i].originator \in RangeOf(ActiveOf(old))
        /\ RoundExists(bb, i, ActiveOf(old), InputRound(ActiveOf(old), bb[i]))
    BY <2>1 DEF Convertible, MixingPhase
  <2> QED
    BY <1>5, <2>2
<1> QED
  BY <1>7, <1>8

(* What a trustee may send, and how its actor looks, after a step.         *)
Sends(t) ==
    /\ sent \subseteq sent'
    /\ \A msg \in sent' \ sent :
          \/ msg = SetupMsg(t)
          \/ \E bb, a : Acts(t, bb, a) /\ msg = ActionMessage(t, bb, ActiveOf(bb), a)

LEMMA LogicActs ==
    ASSUME NEW t, NEW bb, IsPrefix(bb), Converted(bb), NEW completed,
           LogicFailure(t, bb, ActiveOf(bb), DueActions(t, bb, ActiveOf(bb), completed)) = "None",
           NEW a \in DueActions(t, bb, ActiveOf(bb), completed)
    PROVE  Acts(t, bb, a)
<1>1. ~Errors(FactsOf(bb, ActiveOf(bb))) /\ ActionSucceeds(t, bb, ActiveOf(bb), a)
  BY DEF LogicFailure
<1>2. a \in Actions(FactsOf(bb, ActiveOf(bb))) /\ a.self \in MyIndex(t, ActiveOf(bb))
  BY DEF DueActions
<1> QED
  BY <1>1, <1>2 DEF Acts

LEMMA NextStateIs ==
    ASSUME NEW t, NEW state \in Running, NEW bb, NEW configured, NEW active
    PROVE  NextState(t, state, bb, configured, active) \in Running \cup {"Failed"}
  BY DEF NextState, Running, IdleNext, ElectionSetupNext, KeyGenNext, MixingNext,
         DecryptionNext

LEMMA RefusingActors ==
    ASSUME Types, UNCHANGED board, NEW t \in Trustees, NEW update, RefuseUpdate(t, update)
    PROVE  ActorsOK' /\ UNCHANGED <<saved, starts, sent>>
<1>1. ActorOK(trustee[t])
  BY DEF Types, ActorsOK
<1>2. IsPrefix(trustee[t].board) /\ trustee[t].active \in Seq(Trustees)
  BY <1>1, ActorIsRecord DEF ActorOK
<1>3. Fail(t, trustee[t].board, trustee[t].active, "Failed", "InvalidUpdate")
  BY DEF RefuseUpdate
<1> QED
  BY <1>2, <1>3, FailingActors

LEMMA UpdatedActors ==
    ASSUME Types, UNCHANGED board, NEW t \in Trustees, NEW update \in Updates(t),
           ProcessUpdate(t, update)
    PROVE  ActorsOK' /\ Sends(t) /\ UNCHANGED starts
<1> DEFINE self == trustee[t]
           bb == Extended(self.board, update)
           refused == {i \in DOMAIN bb \ DOMAIN self.board :
                          \/ ConversionPanics(bb, i, self.configured)
                          \/ ~Convertible(bb, i, self.configured, self.active)}
           active == PopulateActive(bb, self.active)
           logic_runs == self.state # "ElectionSetup" /\ self.configured
           due == IF logic_runs THEN DueActions(t, bb, active, self.completed) ELSE {}
           failure == IF logic_runs THEN LogicFailure(t, bb, active, due) ELSE "None"
           next == NextState(t, self.state, bb, self.configured, active)
<1>1. /\ self.state \in Running /\ ~InvalidUpdate(t, update)
      /\ Len(self.board) + 1 \in DOMAIN update
      /\ Conclude(t, bb, active, refused, due, failure)
  BY DEF ProcessUpdate
<1>2. /\ ActorsOK /\ BoardOK /\ ActorOK(self) /\ CheckpointOK(saved[t])
      /\ self.active = ActiveOf(self.board) /\ Converted(self.board)
      /\ Len(board) \in Nat
  BY <1>1, BoardIs DEF Types, ActorsOK, ActorOK
<1>3. PICK m \in 0..Len(board), n \in 0..Len(board) :
         self.board = Prefix(m) /\ m < n /\ bb = Prefix(n)
  BY <1>1, UpdatesExtend
<1>4. /\ m \in Nat /\ n \in Nat /\ n \in m..Len(board) /\ IsPrefix(bb)
      /\ self.board = Prefix(m) /\ bb = Prefix(n)
  BY <1>2, <1>3 DEF IsPrefix
<1>5. active = ActiveOf(bb) /\ active \in Seq(Trustees) /\ self.active \in Seq(Trustees)
  BY <1>2, <1>4, ActiveStays
<1>6. \/ /\ refused # {}
         /\ LET i == First(refused)
            IN  \/ Fail(t, SubSeq(bb, 1, i - 1), self.active, "Panicked", "NoPublicKey")
                \/ Fail(t, SubSeq(bb, 1, i - 1), self.active, "Failed", "Conversion")
      \/ \E f : Fail(t, bb, active, "Failed", f)
      \/ /\ refused = {} /\ failure = "None" /\ next # "Failed"
         /\ trustee' = [trustee EXCEPT ![t].state = next, ![t].board = bb,
                                       ![t].active = active, ![t].completed = @ \cup due]
         /\ sent' = sent \cup {ActionMessage(t, bb, active, a) : a \in due}
         /\ saved' = IF self.state # "Idle" /\ next = "Idle"
                     THEN [saved EXCEPT ![t] = Checkpoint(bb, self.configured, active)]
                     ELSE saved
         /\ UNCHANGED starts
  <2> HIDE DEF bb, refused, active, due, failure
  <2> QED
    BY <1>1 DEF Conclude
<1>7. ASSUME UNCHANGED <<saved, starts, sent>>
      PROVE  Sends(t)
  BY <1>7 DEF Sends
<1> HIDE DEF active, due, failure, next
<1>8. CASE refused # {} /\ \E state \in {"Failed", "Panicked"} : \E f :
              Fail(t, SubSeq(bb, 1, First(refused) - 1), self.active, state, f)
  <2>1. refused \subseteq 1..n
    BY <1>2, <1>4, PrefixIs
  <2>2. First(refused) \in 1..n
    <3> HIDE DEF refused
    <3>1. refused \subseteq Nat
      BY <1>4, <2>1
    <3> QED
      BY <1>8, <2>1, <3>1, FirstIs
  <2>3. IsPrefix(SubSeq(bb, 1, First(refused) - 1))
    <3> HIDE DEF refused, bb
    <3>1. \A i \in 1..n : IsPrefix(SubSeq(bb, 1, i - 1))
      BY <1>2, <1>4, PrefixOfPrefix DEF IsPrefix
    <3> QED
      BY <2>2, <3>1
  <2> HIDE DEF refused, bb
  <2> QED
    BY <1>5, <1>7, <1>8, <2>3, FailingActors
<1>9. CASE \E f : Fail(t, bb, active, "Failed", f)
  <2> HIDE DEF bb
  <2> QED
    BY <1>4, <1>5, <1>7, <1>9, FailingActors
<1>10. CASE /\ refused = {} /\ failure = "None" /\ next # "Failed"
            /\ trustee' = [trustee EXCEPT ![t].state = next, ![t].board = bb,
                                          ![t].active = active, ![t].completed = @ \cup due]
            /\ sent' = sent \cup {ActionMessage(t, bb, active, a) : a \in due}
            /\ saved' = IF self.state # "Idle" /\ next = "Idle"
                        THEN [saved EXCEPT ![t] = Checkpoint(bb, self.configured, active)]
                        ELSE saved
            /\ UNCHANGED starts
  <2>1. next \in Running
    BY <1>1, <1>10, NextStateIs DEF next
  <2>2. \A i \in DOMAIN bb \ DOMAIN self.board :
           Convertible(bb, i, self.configured, self.active)
    BY <1>10
  <2>3. Converted(bb)
    <3>1. \A i \in DOMAIN Prefix(n) \ DOMAIN Prefix(m) :
             Convertible(Prefix(n), i, self.configured, ActiveOf(Prefix(m)))
      BY <1>2, <1>4, <2>2
    <3>2. Converted(Prefix(m))
      BY <1>2, <1>4
    <3> QED
      BY <1>2, <1>3, <1>4, <3>1, <3>2, UpdatesConvert
  <2> HIDE DEF bb, refused
  <2> DEFINE actor == ActorRecord(next, bb, self.configured, ActiveOf(bb),
                                  self.completed \cup due, self.failure)
             checkpoint == IF self.state # "Idle" /\ next = "Idle"
                           THEN Checkpoint(bb, self.configured, active) ELSE saved[t]
  <2>4. ActorOK(actor)
    BY <1>2, <1>4, <1>5, <2>1, <2>3, ActorIsRecord, RunningActorOK
  <2>5. CheckpointOK(checkpoint)
    <3>1. CheckpointOK(Checkpoint(bb, self.configured, active))
      <4>1. self.configured \in BOOLEAN
        BY <1>2, ActorIsRecord
      <4> QED
        BY <1>4, <1>5, <2>3, <4>1 DEF CheckpointOK, Checkpoint
    <3> QED
      BY <1>2, <3>1
  <2>6. trustee' = [trustee EXCEPT ![t] = actor]
    <3>1. AfterUpdate(trustee[t], next, bb, active, trustee[t].completed \cup due) = actor
      <4>1. trustee[t] = ActorRecord(trustee[t].state, trustee[t].board,
               trustee[t].configured, trustee[t].active, trustee[t].completed,
               trustee[t].failure)
        BY <1>2, ActorIsRecord
      <4> QED
        BY <1>5, <4>1, RecordAfterUpdate
    <3>2. DOMAIN trustee = Trustees
      BY <1>2 DEF ActorsOK
    <3>3. trustee' = [trustee EXCEPT ![t] = [trustee[t] EXCEPT !.state = next, !.board = bb,
                        !.active = active, !.completed = trustee[t].completed \cup due]]
      BY <1>10, <3>2
    <3> QED
      BY <3>1, <3>3 DEF AfterUpdate
  <2>7. saved' = [saved EXCEPT ![t] = checkpoint]
    BY <1>2, <1>10 DEF ActorsOK
  <2>8. Sends(t)
    <3>1. \A a \in due : Acts(t, bb, a)
      <4> SUFFICES ASSUME NEW a \in due PROVE Acts(t, bb, a)
        OBVIOUS
      <4>1. logic_runs /\ due = DueActions(t, bb, active, self.completed)
        BY DEF due
      <4>2. LogicFailure(t, bb, active, due) = "None"
        BY <1>10, <4>1 DEF failure
      <4> QED
        BY <1>4, <1>5, <2>3, <4>1, <4>2, LogicActs
    <3> QED
      BY <1>5, <1>10, <3>1 DEF Sends
  <2> HIDE DEF actor, checkpoint
  <2>9. ActorsOK'
    BY <1>2, <2>4, <2>5, <2>6, <2>7, ActorsKept
  <2> QED
    BY <1>10, <2>8, <2>9
<1> QED
  BY <1>6, <1>8, <1>9, <1>10 DEF Fail

LEMMA ApprovingActors ==
    ASSUME Types, UNCHANGED board, NEW t \in Trustees, ApproveSetup(t)
    PROVE  ActorsOK' /\ Sends(t) /\ UNCHANGED starts
<1>0. PICK approved : approved = TRUE
  OBVIOUS
<1> DEFINE self == trustee[t]
           actor == ActorRecord(self.state, self.board, approved, ActiveOf(self.board),
                                self.completed, self.failure)
<1>1. self.state \in Running
  BY DEF ApproveSetup, Running
<1>2. /\ ActorsOK /\ ActorOK(self) /\ CheckpointOK(saved[t]) /\ DOMAIN trustee = Trustees
      /\ self.active = ActiveOf(self.board) /\ Converted(self.board)
      /\ IsPrefix(self.board)
  BY <1>1 DEF Types, ActorsOK, ActorOK
<1>3. ActorOK(actor)
  BY <1>0, <1>1, <1>2, ActorIsRecord, RunningActorOK
<1>4. trustee' = [trustee EXCEPT ![t] = actor]
  <2>1. AfterApproval(trustee[t], approved) = actor
    <3>1. self = ActorRecord(self.state, self.board, self.configured, self.active,
                             self.completed, self.failure)
      BY <1>2, ActorIsRecord
    <3>2. \A yes : AfterApproval(self, yes) = ActorRecord(self.state, self.board, yes,
                       self.active, self.completed, self.failure)
      <4> TAKE yes
      <4> QED
        BY <3>1, RecordAfterApproval
    <3> QED
      BY <1>2, <3>2, Zenon
  <2>2. trustee' = [trustee EXCEPT ![t] = [trustee[t] EXCEPT !.configured = approved]]
    <3>1. trustee' = [trustee EXCEPT ![t].configured = TRUE]
      BY DEF ApproveSetup
    <3>2. [trustee EXCEPT ![t].configured = TRUE] = [trustee EXCEPT ![t].configured = approved]
      BY <1>0, Zenon
    <3>3. [trustee EXCEPT ![t].configured = approved]
             = [trustee EXCEPT ![t] = [trustee[t] EXCEPT !.configured = approved]]
      BY <1>2
    <3> QED
      BY <3>1, <3>2, <3>3
  <2> QED
    BY <2>1, <2>2 DEF AfterApproval
<1>5. saved' = [saved EXCEPT ![t] = saved[t]]
  BY <1>2 DEF ApproveSetup, ActorsOK
<1> HIDE DEF actor
<1>6. ActorsOK'
  BY <1>2, <1>3, <1>4, <1>5, ActorsKept
<1>7. Sends(t)
  BY DEF ApproveSetup, Sends
<1> QED
  BY <1>6, <1>7 DEF ApproveSetup

LEMMA StartingActors ==
    ASSUME Types, UNCHANGED board, NEW t \in Trustees, StartTrusteeKeyGen(t)
    PROVE  ActorsOK' /\ Sends(t) /\ UNCHANGED starts
<1> DEFINE self == trustee[t]
           due == DueActions(t, self.board, self.active, self.completed)
           actor == ActorRecord("KeyGen", self.board, self.configured, ActiveOf(self.board),
                                self.completed \cup due, self.failure)
<1>1. /\ self.state \in Running
      /\ LogicFailure(t, self.board, self.active, due) = "None"
      /\ trustee' = [trustee EXCEPT ![t].state = "KeyGen", ![t].completed = @ \cup due]
      /\ sent' = sent \cup {ActionMessage(t, self.board, self.active, a) : a \in due}
      /\ UNCHANGED <<saved, starts>>
  BY DEF StartTrusteeKeyGen, Running
<1> HIDE DEF due
<1>2. /\ ActorsOK /\ ActorOK(self) /\ CheckpointOK(saved[t]) /\ DOMAIN trustee = Trustees
      /\ self.active = ActiveOf(self.board) /\ Converted(self.board)
      /\ IsPrefix(self.board)
  BY <1>1 DEF Types, ActorsOK, ActorOK
<1>3. ActorOK(actor)
  BY <1>2, ActorIsRecord, RunningActorOK DEF Running
<1>4. trustee' = [trustee EXCEPT ![t] = actor]
  <2>1. AfterStart(trustee[t], "KeyGen", trustee[t].completed \cup due) = actor
    BY <1>2, ActorIsRecord, RecordAfterStart
  <2>2. trustee' = [trustee EXCEPT ![t] =
           [trustee[t] EXCEPT !.state = "KeyGen", !.completed = trustee[t].completed \cup due]]
    BY <1>1, <1>2
  <2> QED
    BY <2>1, <2>2 DEF AfterStart
<1>5. saved' = [saved EXCEPT ![t] = saved[t]]
  BY <1>1, <1>2 DEF ActorsOK
<1>6. Sends(t)
  <2>1. \A a \in due : Acts(t, self.board, a)
    BY <1>1, <1>2, LogicActs DEF due
  <2> QED
    BY <1>1, <1>2, <2>1 DEF Sends
<1> HIDE DEF actor
<1>7. ActorsOK'
  BY <1>2, <1>3, <1>4, <1>5, ActorsKept
<1> QED
  BY <1>1, <1>6, <1>7

LEMMA RestartingActors ==
    ASSUME Types, UNCHANGED board, NEW t \in Trustees, Restart(t)
    PROVE  ActorsOK' /\ Sends(t) /\ starts' \in [Trustees -> 0..MaxRestarts]
<1> DEFINE c == saved[t]
           actor == ActorRecord("Idle", c.board, c.configured, ActiveOf(c.board), {}, "None")
<1>1. ActorsOK /\ CheckpointOK(c)
  BY DEF Types, ActorsOK
<1>2. /\ c.active = ActiveOf(c.board) /\ IsPrefix(c.board) /\ Converted(c.board)
      /\ c.configured \in BOOLEAN /\ c.active \in Seq(Trustees)
  BY <1>1 DEF CheckpointOK
<1>3. ActorOK(actor)
  BY <1>2, RunningActorOK DEF Running
<1>4. Actor(c) = actor
  BY <1>2 DEF Actor, ActorRecord
<1>5. trustee' = [trustee EXCEPT ![t] = actor]
  BY <1>4 DEF Restart
<1>6. saved' = [saved EXCEPT ![t] = c]
  BY <1>1 DEF Restart, ActorsOK
<1>7. starts' \in [Trustees -> 0..MaxRestarts]
  <2>1. starts \in [Trustees -> 0..MaxRestarts] /\ MaxRestarts \in Nat
    BY TrusteeProtocolAssumption DEF Types, ConstantsOK
  <2>2. \A k \in 0..MaxRestarts : k < MaxRestarts => k + 1 \in 0..MaxRestarts
    BY <2>1
  <2>3. starts[t] + 1 \in 0..MaxRestarts
    BY <2>1, <2>2 DEF Restart
  <2> QED
    BY <2>1, <2>3 DEF Restart
<1>8. Sends(t)
  BY DEF Restart, Sends
<1> HIDE DEF actor, c
<1>9. ActorsOK'
  BY <1>1, <1>3, <1>5, <1>6, ActorsKept
<1> QED
  BY <1>7, <1>8, <1>9

TrusteeStep(t) == ReceiveUpdate(t) \/ TrusteeCommand(t) \/ TrusteeRestart(t)

LEMMA TrusteeSteps ==
    ASSUME Types, NEW t \in Trustees, TrusteeStep(t)
    PROVE  /\ UNCHANGED <<tasVars, environment>>
           /\ ActorsOK'
           /\ Sends(t)
           /\ starts' \in [Trustees -> 0..MaxRestarts]
<1>1. starts \in [Trustees -> 0..MaxRestarts]
  BY DEF Types, ConstantsOK
<1>2. UNCHANGED <<tasVars, environment>>
  BY DEF TrusteeStep, ReceiveUpdate, TrusteeCommand, TrusteeRestart
<1>3. UNCHANGED board
  BY <1>2 DEF tasVars
<1>4. CASE ReceiveUpdate(t)
  <2>1. PICK update \in Updates(t) : RefuseUpdate(t, update) \/ ProcessUpdate(t, update)
    BY <1>4 DEF ReceiveUpdate
  <2>2. CASE RefuseUpdate(t, update)
    BY <1>1, <1>2, <1>3, <2>2, RefusingActors DEF Sends
  <2>3. CASE ProcessUpdate(t, update)
    BY <1>1, <1>2, <1>3, <2>3, UpdatedActors
  <2> QED
    BY <2>1, <2>2, <2>3
<1>5. CASE TrusteeCommand(t)
  BY <1>1, <1>2, <1>3, <1>5, ApprovingActors, StartingActors DEF TrusteeCommand
<1>6. CASE TrusteeRestart(t)
  BY <1>2, <1>3, <1>6, RestartingActors DEF TrusteeRestart
<1> QED
  BY <1>4, <1>5, <1>6 DEF TrusteeStep

-------------------------------------------------------------------------------
(* The steps of the TAS.                                                   *)

LEMMA Adding ==
    ASSUME NEW msg, board' = AddToBoard(msg)
    PROVE  (board' = board /\ msg \in RangeOf(board)) \/ Posts(msg)
  BY DEF AddToBoard, Posts

(* A message with a signature that verifies is posted by the handler of    *)
(* its type, in the state that waits for it; no other message is.          *)
Awaited(type) == CASE type = "Setup" -> "AwaitingSetupMsgs"
                   [] type = "KeyShares" -> "AwaitingKeySharesMsgs"
                   [] type = "ElectionPublicKey" -> "AwaitingElectionPublicKeyMsgs"
                   [] type = "EGCryptograms" -> "AwaitingEGCryptogramsMsgs"
                   [] type = "PartialDecryptions" -> "AwaitingPartialDecryptions"
                   [] type = "DecryptedBallots" -> "AwaitingDecryptedBallots"

LEMMA Handling ==
    ASSUME NEW msg, Handle(msg), tas_state \in TASStates
    PROVE  /\ tas_state = Awaited(msg.type)
           /\ tas_state' \in TASStates
           /\ UNCHANGED active_trustees
           /\ \/ msg.signed /\ board' = AddToBoard(msg)
              \/ tas_state' = "Failed" /\ UNCHANGED <<board, public_key>>
           /\ \/ UNCHANGED public_key
              \/ /\ msg.signed /\ msg.type = "ElectionPublicKey"
                 /\ public_key \subseteq {msg.key} /\ public_key' = {msg.key}
           /\ msg.type = "ElectionPublicKey" /\ board' # board => public_key' = {msg.key}
           /\ msg.type \in {"Setup", "KeyShares", "ElectionPublicKey", "EGCryptograms",
                            "PartialDecryptions", "DecryptedBallots"}
<1>1. CASE HandleSetup(msg)
  BY <1>1 DEF HandleSetup, Accept, Reject, Awaited, TASStates
<1>2. CASE HandleKeyShares(msg)
  BY <1>2 DEF HandleKeyShares, Accept, Reject, Awaited, TASStates
<1>3. CASE HandleElectionPublicKey(msg)
  BY <1>3 DEF HandleElectionPublicKey, Accept, Reject, Awaited, TASStates
<1>4. CASE HandleEGCryptograms(msg)
  BY <1>4 DEF HandleEGCryptograms, Accept, Reject, Awaited, TASStates
<1>5. CASE HandlePartialDecryptions(msg)
  BY <1>5 DEF HandlePartialDecryptions, Accept, Reject, Awaited, TASStates
<1>6. CASE HandleDecryptedBallots(msg)
  BY <1>6 DEF HandleDecryptedBallots, Accept, Reject, Awaited, TASStates
<1> QED
  BY <1>1, <1>2, <1>3, <1>4, <1>5, <1>6 DEF Handle

LEMMA SpoiledIsUnsigned ==
    ASSUME NEW msg, MessageOK(msg)
    PROVE  ~Spoiled(msg).signed /\ Spoiled(msg).type = msg.type
<1>1. "signed" \in DOMAIN msg
  BY DEF MessageOK
<1> QED
  BY <1>1 DEF Spoiled

LEMMA MixInitializations ==
    ASSUME NEW c \in Ceremonies, NEW p \in c.mixing, Len(p.active_trustees) = Threshold
    PROVE  /\ MessageOK(MixInitializationMsg(p.active_trustees, p.ballots))
           /\ RangeOf(p.active_trustees) \subseteq Trustees
<1>1. p.active_trustees \in Seq(Trustees)
  BY TrusteeProtocolAssumption
<1>2. RangeOf(p.active_trustees) \subseteq Trustees
  BY <1>1, LenProperties DEF RangeOf
<1>3. TAS \in TrusteeList
  BY TrusteesAssumption DEF TAS, TrusteeList
<1>4. \A i, j \in DOMAIN p.active_trustees :
         p.active_trustees[i] = p.active_trustees[j] => i = j
  BY TrusteeProtocolAssumption
<1> QED
  BY <1>1, <1>2, <1>3, <1>4 DEF MixInitializationMsg, MessageOK, IsMessage, MessageTypes

LEMMA SetupMsgOK ==
    ASSUME NEW t \in TrusteeList
    PROVE  MessageOK(SetupMsg(t)) /\ SetupMsg(t).type = "Setup" /\ SetupMsg(t).signer = t
<1>1. TAS \in TrusteeList
  BY TrusteesAssumption DEF TAS, TrusteeList
<1> QED
  BY <1>1 DEF SetupMsg, MessageOK, IsMessage, MessageTypes

TASStep == TASCommand \/ TASReceive \/ TASReceiveSpoiled \/ TASStop

(* What the TAS may post: its own messages, and those that trustees sent   *)
(* and that its state waits for.                                           *)
Received(msg) ==
    msg \in sent /\ tas_state = Awaited(msg.type) /\ msg.type # "MixInitialization"
OfHost(msg) ==
    \/ msg = SetupMsg(TAS)
    \/ \E p \in ceremony.mixing :
          /\ Len(p.active_trustees) = Threshold
          /\ msg = MixInitializationMsg(p.active_trustees, p.ballots)

LEMMA TASSteps ==
    ASSUME Types, TASStep
    PROVE  /\ UNCHANGED <<trusteeVars, ceremony>>
           /\ stops' \in 0..ceremony.max_stops
           /\ tas_state' \in TASStates
           /\ active_trustees' \subseteq Trustees
           /\ \/ board' = board
              \/ \E msg : Posts(msg) /\ (Received(msg) \/ OfHost(msg))
           /\ \/ UNCHANGED public_key
              \/ \E msg \in sent : /\ msg.type = "ElectionPublicKey"
                                   /\ msg \in RangeOf(board')
                                   /\ public_key' = {msg.key}
<1>1. /\ tas_state \in TASStates /\ stops \in 0..ceremony.max_stops
      /\ active_trustees \subseteq Trustees
      /\ ceremony \in Ceremonies /\ ceremony.max_stops \in Nat
      /\ \A msg \in sent : MessageOK(msg)
  BY TrusteeProtocolAssumption DEF Types, ConstantsOK, SentOK
<1>2. CASE TASCommand
  <2>1. UNCHANGED <<trusteeVars, environment>>
    BY <1>2 DEF TASCommand
  <2>2. CASE StartSetup
    <3>1. board' = board \/ Posts(SetupMsg(TAS))
      BY <2>2, Adding DEF StartSetup
    <3> QED
      BY <1>1, <2>1, <2>2, <3>1 DEF StartSetup, TASStates, environment, OfHost
  <2>3. CASE StartKeyGen
    BY <1>1, <2>1, <2>3 DEF StartKeyGen, TASStates, environment
  <2>4. CASE \E p \in ceremony.mixing : StartMixing(p)
    <3>1. PICK p \in ceremony.mixing : StartMixing(p)
      BY <2>4
    <3> DEFINE msg == MixInitializationMsg(p.active_trustees, p.ballots)
    <3>2. /\ Len(p.active_trustees) = Threshold /\ board' = AddToBoard(msg)
          /\ active_trustees' = RangeOf(p.active_trustees)
          /\ tas_state' \in TASStates /\ UNCHANGED public_key
      BY <3>1 DEF StartMixing, TASStates
    <3>3. active_trustees' \subseteq Trustees
      BY <1>1, <3>2, MixInitializations
    <3>4. OfHost(msg)
      BY <3>2 DEF OfHost
    <3> HIDE DEF msg
    <3>5. board' = board \/ Posts(msg)
      BY <3>2, Adding
    <3> QED
      BY <1>1, <2>1, <3>2, <3>3, <3>4, <3>5 DEF environment
  <2> QED
    BY <1>2, <2>2, <2>3, <2>4 DEF TASCommand
<1>3. CASE TASReceive
  <2>1. PICK msg \in sent : Handle(msg)
    BY <1>3 DEF TASReceive
  <2>2. UNCHANGED <<trusteeVars, environment>>
    BY <1>3 DEF TASReceive
  <2>3. /\ tas_state = Awaited(msg.type) /\ tas_state' \in TASStates
        /\ UNCHANGED active_trustees
        /\ \/ board' = AddToBoard(msg)
           \/ UNCHANGED <<board, public_key>>
        /\ \/ UNCHANGED public_key
           \/ msg.type = "ElectionPublicKey" /\ public_key' = {msg.key}
        /\ msg.type # "MixInitialization"
    BY <1>1, <2>1, Handling
  <2>4. CASE UNCHANGED <<board, public_key>>
    BY <1>1, <2>2, <2>3, <2>4 DEF environment
  <2>5. CASE board' = AddToBoard(msg)
    <3>1. (board' = board /\ msg \in RangeOf(board)) \/ Posts(msg)
      BY <2>5, Adding
    <3>2. Posts(msg) => msg \in RangeOf(board')
      BY Posting DEF Types
    <3>3. msg \in RangeOf(board')
      <4>1. board' = board => RangeOf(board') = RangeOf(board)
        OBVIOUS
      <4> QED
        BY <3>1, <3>2, <4>1
    <3> QED
      BY <1>1, <2>1, <2>2, <2>3, <3>1, <3>3 DEF environment, Received
  <2> QED
    BY <2>3, <2>4, <2>5
<1>4. CASE TASReceiveSpoiled
  <2>1. PICK msg \in sent : Handle(Spoiled(msg))
    BY <1>4 DEF TASReceiveSpoiled
  <2>2. UNCHANGED <<trusteeVars, environment>>
    BY <1>4 DEF TASReceiveSpoiled
  <2>3. ~Spoiled(msg).signed
    BY <1>1, <2>1, SpoiledIsUnsigned
  <2>4. /\ tas_state' \in TASStates
        /\ UNCHANGED <<board, public_key, active_trustees>>
    BY <1>1, <2>1, <2>3, Handling
  <2> QED
    BY <1>1, <2>2, <2>4 DEF environment
<1>5. CASE TASStop
  <2>1. UNCHANGED <<board, public_key, active_trustees, trusteeVars, ceremony>>
    BY <1>5 DEF TASStop, Stop, Recover
  <2>2. tas_state' \in TASStates
    BY <1>5 DEF TASStop, Stop, Recover, TASStates
  <2>3. \A n \in Nat : \A k \in 0..n : k < n => k + 1 \in 0..n
    OBVIOUS
  <2>4. stops' \in 0..ceremony.max_stops
    BY <1>1, <1>5, <2>3 DEF TASStop
  <2> QED
    BY <1>1, <2>1, <2>2, <2>4
<1> QED
  BY <1>2, <1>3, <1>4, <1>5 DEF TASStep

LEMMA PostedMessagesOK ==
    ASSUME Types, NEW msg, Received(msg) \/ OfHost(msg)
    PROVE  MessageOK(msg)
<1>1. CASE Received(msg)
  BY <1>1 DEF Received, Types, SentOK
<1>2. CASE OfHost(msg)
  <2>1. TAS \in TrusteeList /\ ceremony \in Ceremonies
    BY TrusteesAssumption DEF TAS, TrusteeList, Types, ConstantsOK
  <2> QED
    BY <1>2, <2>1, SetupMsgOK, MixInitializations DEF OfHost
<1> QED
  BY <1>1, <1>2

(* The mirrors stay mirrors when a message is posted.                      *)
LEMMA ActorsStay ==
    ASSUME ActorsOK, UNCHANGED <<trustee, saved>>, \A bb : IsPrefix(bb) => IsPrefix(bb)'
    PROVE  ActorsOK'
<1>1. \A x : (ActorOK(x) => ActorOK(x)') /\ (CheckpointOK(x) => CheckpointOK(x)')
  BY DEF ActorOK, CheckpointOK
<1>2. \A u \in Trustees : ActorOK(trustee[u]) /\ CheckpointOK(saved[u])
  BY DEF ActorsOK
<1>3. \A x, u : /\ x = trustee'[u] => (ActorOK(trustee[u])' <=> ActorOK(x)')
                /\ x = saved'[u] => (CheckpointOK(saved[u])' <=> CheckpointOK(x)')
  OBVIOUS
<1>4. \A u \in Trustees : (ActorOK(trustee[u]) /\ CheckpointOK(saved[u]))'
  BY <1>1, <1>2, <1>3
<1>5. /\ trustee' \in [Trustees -> RangeOf(trustee')]
      /\ saved' \in [Trustees -> RangeOf(saved')]
  BY DEF ActorsOK
<1> QED
  BY <1>4, <1>5 DEF ActorsOK

-------------------------------------------------------------------------------
(* The board of a first start.                                             *)

LEMMA SetupBoardIs ==
    /\ SetupBoard \in [1..NumTrustees + 1 -> RangeOf(SetupBoard)]
    /\ \A i \in 1..NumTrustees + 1 : SetupBoard[i] = SetupMsg(i - 1) /\ i - 1 \in TrusteeList
  BY TrusteesAssumption DEF SetupBoard, RangeOf, TrusteeList

LEMMA FirstKeyIs == FirstKey \in [Trustees -> 0..MaxRestarts]
  BY TrusteeProtocolAssumption DEF FirstKey

LEMMA FunctionIsSeq ==
    ASSUME NEW S, NEW n \in Nat, NEW f \in [1..n -> S]
    PROVE  f \in Seq(S) /\ Len(f) = n
<1>1. f \in Seq(S) /\ DOMAIN f = 1..n
  BY SeqDef
<1> QED
  BY <1>1, LenProperties

LEMMA Concatenated ==
    ASSUME NEW S, NEW s \in Seq(S), NEW u \in Seq(S)
    PROVE  /\ s \o u \in Seq(S)
           /\ Len(s \o u) = Len(s) + Len(u)
           /\ \A i \in 1..Len(s) : (s \o u)[i] = s[i]
           /\ \A i \in 1..Len(u) : (s \o u)[Len(s) + i] = u[i]
<1>1. Len(s) \in Nat /\ Len(u) \in Nat
  BY LenProperties
<1>2. /\ s \o u \in Seq(S) /\ Len(s \o u) = Len(s) + Len(u)
      /\ \A i \in 1..Len(s) + Len(u) :
            (s \o u)[i] = IF i <= Len(s) THEN s[i] ELSE u[i - Len(s)]
  BY ConcatProperties
<1>3. \A i \in 1..Len(s) : i \in 1..Len(s) + Len(u) /\ i <= Len(s)
  BY <1>1
<1>4. \A i \in 1..Len(u) : /\ Len(s) + i \in 1..Len(s) + Len(u)
                          /\ ~(Len(s) + i <= Len(s))
                          /\ Len(s) + i - Len(s) = i
  BY <1>1
<1> QED
  BY <1>2, <1>3, <1>4

LEMMA KeyGenBoardIs ==
    /\ DOMAIN KeyGenBoard = 1..3 * NumTrustees + 1
    /\ KeyGenBoard \in [1..3 * NumTrustees + 1 -> RangeOf(KeyGenBoard)]
    /\ \A i \in 1..NumTrustees + 1 : KeyGenBoard[i] = SetupMsg(i - 1)
    /\ \A t \in Trustees : /\ KeyGenBoard[NumTrustees + 1 + t] = KeySharesMsg(t, 0)
                           /\ KeyGenBoard[2 * NumTrustees + 1 + t]
                                 = ElectionPublicKeyMsg(t, FirstKey)
<1> DEFINE A == SetupBoard
           B == [t \in Trustees |-> KeySharesMsg(t, 0)]
           C == [t \in Trustees |-> ElectionPublicKeyMsg(t, FirstKey)]
           S == RangeOf(A) \cup RangeOf(B) \cup RangeOf(C)
<1>1. NumTrustees \in Nat /\ NumTrustees + 1 \in Nat /\ Trustees = 1..NumTrustees
  BY TrusteesAssumption DEF Trustees
<1>2. A \in [1..NumTrustees + 1 -> S]
  BY SetupBoardIs DEF RangeOf
<1>3. B \in [1..NumTrustees -> S] /\ C \in [1..NumTrustees -> S]
  BY <1>1 DEF RangeOf
<1>4. A \in Seq(S) /\ Len(A) = NumTrustees + 1
  BY <1>1, <1>2, FunctionIsSeq
<1>5. B \in Seq(S) /\ Len(B) = NumTrustees /\ C \in Seq(S) /\ Len(C) = NumTrustees
  BY <1>1, <1>3, FunctionIsSeq
<1>6. \A i \in 1..NumTrustees + 1 : A[i] = SetupMsg(i - 1)
  BY SetupBoardIs
<1>7. \A t \in 1..NumTrustees : B[t] = KeySharesMsg(t, 0) /\ C[t] = ElectionPublicKeyMsg(t, FirstKey)
  BY <1>1
<1>8. KeyGenBoard = (A \o B) \o C
  BY DEF KeyGenBoard
<1> HIDE DEF A, B, C, S
<1>9. /\ A \o B \in Seq(S) /\ Len(A \o B) = 2 * NumTrustees + 1
      /\ \A i \in 1..NumTrustees + 1 : (A \o B)[i] = A[i]
      /\ \A t \in 1..NumTrustees : (A \o B)[NumTrustees + 1 + t] = B[t]
  <2>1. /\ A \o B \in Seq(S) /\ Len(A \o B) = Len(A) + Len(B)
        /\ \A i \in 1..Len(A) : (A \o B)[i] = A[i]
        /\ \A t \in 1..Len(B) : (A \o B)[Len(A) + t] = B[t]
    <3>1. A \in Seq(S) /\ B \in Seq(S)
      BY <1>4, <1>5
    <3> QED
      BY <3>1, Concatenated
  <2>2. NumTrustees + 1 + NumTrustees = 2 * NumTrustees + 1
    BY <1>1
  <2> QED
    BY <1>4, <1>5, <2>1, <2>2
<1>10. /\ (A \o B) \o C \in Seq(S) /\ Len((A \o B) \o C) = 3 * NumTrustees + 1
       /\ \A i \in 1..2 * NumTrustees + 1 : ((A \o B) \o C)[i] = (A \o B)[i]
       /\ \A t \in 1..NumTrustees : ((A \o B) \o C)[2 * NumTrustees + 1 + t] = C[t]
  <2> DEFINE D == A \o B
  <2> HIDE DEF D
  <2>1. /\ D \o C \in Seq(S) /\ Len(D \o C) = Len(D) + Len(C)
        /\ \A i \in 1..Len(D) : (D \o C)[i] = D[i]
        /\ \A t \in 1..Len(C) : (D \o C)[Len(D) + t] = C[t]
    <3>1. D \in Seq(S) /\ C \in Seq(S)
      BY <1>5, <1>9 DEF D
    <3> QED
      BY <3>1, Concatenated
  <2>2. 2 * NumTrustees + 1 + NumTrustees = 3 * NumTrustees + 1
    BY <1>1
  <2>3. Len(D) = 2 * NumTrustees + 1
    BY <1>9 DEF D
  <2> QED
    BY <1>5, <2>1, <2>2, <2>3 DEF D
<1> HIDE <1>8
<1> DEFINE K == (A \o B) \o C
<1>11. K \in [1..3 * NumTrustees + 1 -> S] /\ DOMAIN K = 1..3 * NumTrustees + 1
  BY <1>10, LenProperties
<1>12. \A i \in 1..NumTrustees + 1 : K[i] = SetupMsg(i - 1)
  <2>1. \A i \in 1..NumTrustees + 1 :
           i \in 1..2 * NumTrustees + 1
    BY <1>1
  <2> QED
    BY <1>6, <1>9, <1>10, <2>1
<1>13. \A t \in 1..NumTrustees : K[NumTrustees + 1 + t] = KeySharesMsg(t, 0)
  <2>1. \A t \in 1..NumTrustees :
           NumTrustees + 1 + t \in 1..2 * NumTrustees + 1
    BY <1>1
  <2> QED
    BY <1>7, <1>9, <1>10, <2>1 DEF K
<1>14. \A t \in 1..NumTrustees : K[2 * NumTrustees + 1 + t] = ElectionPublicKeyMsg(t, FirstKey)
  BY <1>7, <1>10 DEF K
<1> HIDE DEF K
<1>15. K \in [1..3 * NumTrustees + 1 -> RangeOf(K)]
  BY <1>11 DEF RangeOf
<1>16. KeyGenBoard = K
  BY <1>8 DEF K
<1> QED
  BY <1>1, <1>11, <1>12, <1>13, <1>14, <1>15, <1>16

(* The place of a message on the board after key generation.               *)
Place(msg) == CASE msg.type = "Setup" -> msg.signer + 1
                [] msg.type = "KeyShares" -> NumTrustees + 1 + msg.signer
                [] msg.type = "ElectionPublicKey" -> 2 * NumTrustees + 1 + msg.signer

KeyGenMessage(msg) ==
    /\ MessageOK(msg)
    /\ msg.type \in {"Setup", "KeyShares", "ElectionPublicKey"}

LEMMA KeyGenMessages ==
    ASSUME NEW t \in Trustees
    PROVE  /\ KeyGenMessage(KeySharesMsg(t, 0))
           /\ KeyGenMessage(ElectionPublicKeyMsg(t, FirstKey))
           /\ Place(KeySharesMsg(t, 0)) = NumTrustees + 1 + t
           /\ Place(ElectionPublicKeyMsg(t, FirstKey)) = 2 * NumTrustees + 1 + t
<1>1. t \in TrusteeList /\ 0 \in 0..MaxRestarts
  BY TrusteesAssumption, TrusteeProtocolAssumption DEF Trustees, TrusteeList
<1>2. KeyGenMessage(KeySharesMsg(t, 0))
  BY <1>1 DEF KeySharesMsg, KeyGenMessage, MessageOK, IsMessage, MessageTypes
<1>3. KeyGenMessage(ElectionPublicKeyMsg(t, FirstKey))
  BY <1>1, FirstKeyIs DEF ElectionPublicKeyMsg, KeyGenMessage, MessageOK, IsMessage,
     MessageTypes
<1>4. Place(KeySharesMsg(t, 0)) = NumTrustees + 1 + t
  BY DEF Place, KeySharesMsg
<1>5. Place(ElectionPublicKeyMsg(t, FirstKey)) = 2 * NumTrustees + 1 + t
  BY DEF Place, ElectionPublicKeyMsg
<1> QED
  BY <1>2, <1>3, <1>4, <1>5

LEMMA SetupMessages ==
    ASSUME NEW i \in 1..NumTrustees + 1
    PROVE  KeyGenMessage(SetupMsg(i - 1)) /\ Place(SetupMsg(i - 1)) = i
<1>1. i - 1 \in TrusteeList /\ i - 1 + 1 = i
  BY TrusteesAssumption DEF TrusteeList
<1>2. KeyGenMessage(SetupMsg(i - 1))
  BY <1>1, SetupMsgOK DEF KeyGenMessage
<1>3. \A u : u + 1 = i => Place(SetupMsg(u)) = i
  BY DEF Place, SetupMsg
<1> QED
  BY <1>1, <1>2, <1>3

LEMMA InitialBoardIs ==
    ASSUME NEW start_from \in {"nothing", "setup", "keygen"}
    PROVE  LET bb == InitialBoard(start_from)
           IN  /\ bb \in Seq(RangeOf(bb))
               /\ \A i \in DOMAIN bb : KeyGenMessage(bb[i]) /\ Place(bb[i]) = i
<1> DEFINE bb == InitialBoard(start_from)
<1>1. NumTrustees + 1 \in Nat /\ 3 * NumTrustees + 1 \in Nat /\ NumTrustees \in Nat
  BY TrusteesAssumption
<1>2. CASE start_from = "nothing"
  <2>1. bb = << >>
    BY <1>2 DEF InitialBoard
  <2>2. << >> \in Seq(RangeOf(bb)) /\ DOMAIN << >> = {}
    OBVIOUS
  <2> QED
    BY <2>1, <2>2
<1>3. CASE start_from = "setup"
  <2>1. bb = SetupBoard
    BY <1>3 DEF InitialBoard
  <2>2. SetupBoard \in Seq(RangeOf(SetupBoard)) /\ DOMAIN SetupBoard = 1..NumTrustees + 1
    BY <1>1, SetupBoardIs, FunctionIsSeq
  <2> QED
    BY <2>1, <2>2, SetupBoardIs, SetupMessages
<1>4. CASE start_from = "keygen"
  <2>1. bb = KeyGenBoard
    BY <1>4 DEF InitialBoard
  <2>2. KeyGenBoard \in Seq(RangeOf(KeyGenBoard))
    BY <1>1, KeyGenBoardIs, FunctionIsSeq
  <2>3. ASSUME NEW i \in 1..3 * NumTrustees + 1
        PROVE  KeyGenMessage(KeyGenBoard[i]) /\ Place(KeyGenBoard[i]) = i
    <3>1. \/ i \in 1..NumTrustees + 1
          \/ i - (NumTrustees + 1) \in Trustees
             /\ NumTrustees + 1 + (i - (NumTrustees + 1)) = i
          \/ i - (2 * NumTrustees + 1) \in Trustees
             /\ 2 * NumTrustees + 1 + (i - (2 * NumTrustees + 1)) = i
      BY <1>1 DEF Trustees
    <3>2. CASE i \in 1..NumTrustees + 1
      BY <3>2, KeyGenBoardIs, SetupMessages
    <3>3. ASSUME NEW t \in Trustees, i = NumTrustees + 1 + t
          PROVE  KeyGenMessage(KeyGenBoard[i]) /\ Place(KeyGenBoard[i]) = i
      BY <3>3, KeyGenBoardIs, KeyGenMessages
    <3>4. ASSUME NEW t \in Trustees, i = 2 * NumTrustees + 1 + t
          PROVE  KeyGenMessage(KeyGenBoard[i]) /\ Place(KeyGenBoard[i]) = i
      BY <3>4, KeyGenBoardIs, KeyGenMessages
    <3> QED
      BY <3>1, <3>2, <3>3, <3>4
  <2> QED
    BY <2>1, <2>2, <2>3, KeyGenBoardIs
<1> QED
  BY <1>2, <1>3, <1>4

LEMMA NothingMixed ==
    ASSUME NEW bb, \A i \in DOMAIN bb : KeyGenMessage(bb[i])
    PROVE  ActiveOf(bb) = << >> /\ Converted(bb)
<1>1. Posted(bb, "MixInitialization") = {}
  BY DEF Posted, KeyGenMessage
<1>2. ActiveOf(bb) = << >>
  BY <1>1 DEF ActiveOf, PopulateActive
<1>3. Converted(bb)
  BY DEF Converted, KeyGenMessage, MixingPhase
<1> QED
  BY <1>2, <1>3

LEMMA TypesInit == Init => Types
<1> SUFFICES ASSUME Init PROVE Types
  OBVIOUS
<1> DEFINE start_from == ceremony.start_from
           configured == start_from # "nothing"
<1>1. /\ ceremony \in Ceremonies /\ ceremony.max_stops \in Nat
      /\ start_from \in {"nothing", "setup", "keygen"}
      /\ MaxRestarts \in Nat
  BY TrusteeProtocolAssumption DEF Init
<1>2. /\ board = InitialBoard(start_from) /\ tas_state = "Idle" /\ active_trustees = {}
      /\ public_key = IF start_from = "keygen" THEN {FirstKey} ELSE {}
      /\ trustee = [t \in Trustees |-> Actor(Checkpoint(board, configured, << >>))]
      /\ saved = [t \in Trustees |-> Checkpoint(board, configured, << >>)]
      /\ starts = [t \in Trustees |-> 0] /\ sent = {} /\ stops = 0
  BY DEF Init, TASInit, TrusteeInit
<1>3. /\ board \in Seq(RangeOf(board))
      /\ \A i \in DOMAIN board : KeyGenMessage(board[i]) /\ Place(board[i]) = i
  BY <1>1, <1>2, InitialBoardIs
<1>4. BoardOK
  <2>1. \A i, j \in DOMAIN board : board[i] = board[j] => i = j
    BY <1>3
  <2> QED
    BY <1>3, <2>1 DEF BoardOK, KeyGenMessage, RangeOf
<1>5. ActorsOK
  <2>1. IsPrefix(board) /\ ActiveOf(board) = << >> /\ Converted(board)
    BY <1>3, <1>4, WholeIsPrefix, NothingMixed
  <2>2. configured \in BOOLEAN /\ << >> \in Seq(Trustees)
    OBVIOUS
  <2>3. CheckpointOK(Checkpoint(board, configured, << >>))
    BY <2>1, <2>2 DEF CheckpointOK, Checkpoint
  <2>4. ActorOK(Actor(Checkpoint(board, configured, << >>)))
    <3>1. ActorOK(ActorRecord("Idle", board, configured, ActiveOf(board), {}, "None"))
      BY <2>1, <2>2, RunningActorOK DEF Running
    <3>2. Actor(Checkpoint(board, configured, << >>))
             = ActorRecord("Idle", board, configured, << >>, {}, "None")
      BY DEF Actor, Checkpoint, ActorRecord
    <3> QED
      BY <2>1, <3>1, <3>2
  <2> HIDE DEF configured
  <2>5. \A t \in Trustees : ActorOK(trustee[t]) /\ CheckpointOK(saved[t])
    BY <1>2, <2>3, <2>4
  <2>6. trustee \in [Trustees -> RangeOf(trustee)] /\ saved \in [Trustees -> RangeOf(saved)]
    BY <1>2 DEF RangeOf
  <2> QED
    BY <2>5, <2>6 DEF ActorsOK
<1>6. SentOK
  BY <1>2 DEF SentOK
<1>7. ConstantsOK
  BY <1>1, <1>2, FirstKeyIs DEF ConstantsOK, TASStates
<1> QED
  BY <1>4, <1>5, <1>6, <1>7 DEF Types

LEMMA TypesStep == Types /\ [Next]_vars => Types'
<1> SUFFICES ASSUME Types, [Next]_vars PROVE Types'
  OBVIOUS
<1>1. CASE UNCHANGED vars
  <2>1. UNCHANGED <<board, trustee, saved, starts, sent, ceremony, stops, tas_state,
                    active_trustees, public_key>>
    BY <1>1 DEF vars, tasVars, trusteeVars, environment
  <2>2. \A bb : IsPrefix(bb) => IsPrefix(bb)'
    BY <2>1 DEF IsPrefix, Prefix
  <2>3. ActorsOK'
    BY <2>1, <2>2, ActorsStay DEF Types
  <2> QED
    BY <2>1, <2>3 DEF Types, BoardOK, SentOK, ConstantsOK
<1>2. ASSUME NEW t \in Trustees, TrusteeStep(t)
      PROVE  Types'
  <2>1. /\ UNCHANGED <<tasVars, environment>> /\ ActorsOK' /\ Sends(t)
        /\ starts' \in [Trustees -> 0..MaxRestarts]
    BY <1>2, TrusteeSteps
  <2>2. BoardOK'
    BY <2>1 DEF Types, BoardOK, tasVars
  <2>3. SentOK'
    <3> SUFFICES ASSUME NEW msg \in sent' PROVE MessageOK(msg) /\ msg.signer \in Trustees
      BY DEF SentOK
    <3>1. t \in TrusteeList
      BY TrusteesAssumption DEF Trustees, TrusteeList
    <3>2. CASE msg \in sent
      BY <3>2 DEF Types, SentOK
    <3>3. CASE msg = SetupMsg(t)
      BY <3>1, <3>3, SetupMsgOK
    <3>4. CASE \E bb, a : Acts(t, bb, a) /\ msg = ActionMessage(t, bb, ActiveOf(bb), a)
      BY <3>4, ActionMessagesOK
    <3> QED
      BY <2>1, <3>2, <3>3, <3>4 DEF Sends
  <2>4. ConstantsOK'
    BY <2>1 DEF Types, ConstantsOK, tasVars, environment
  <2> QED
    BY <2>1, <2>2, <2>3, <2>4 DEF Types
<1>3. CASE TASStep
  <2>1. /\ UNCHANGED <<trusteeVars, ceremony>>
        /\ stops' \in 0..ceremony.max_stops /\ tas_state' \in TASStates
        /\ active_trustees' \subseteq Trustees
        /\ \/ board' = board
           \/ \E msg : Posts(msg) /\ (Received(msg) \/ OfHost(msg))
        /\ \/ UNCHANGED public_key
           \/ \E msg \in sent : msg.type = "ElectionPublicKey" /\ public_key' = {msg.key}
    BY <1>3, TASSteps
  <2>2. UNCHANGED <<trustee, saved, starts, sent>>
    BY <2>1 DEF trusteeVars
  <2>3. BoardOK' /\ \A bb : IsPrefix(bb) => IsPrefix(bb)'
    <3>1. CASE board' = board
      BY <3>1 DEF Types, BoardOK, IsPrefix, Prefix
    <3>2. ASSUME NEW msg, Posts(msg), Received(msg) \/ OfHost(msg)
          PROVE  BoardOK' /\ \A bb : IsPrefix(bb) => IsPrefix(bb)'
      BY <3>2, PostedMessagesOK, Posting DEF Types
    <3> QED
      BY <2>1, <3>1, <3>2
  <2>4. ActorsOK'
    BY <2>2, <2>3, ActorsStay DEF Types
  <2>5. SentOK'
    BY <2>2 DEF Types, SentOK
  <2>6. public_key' \subseteq [Trustees -> 0..MaxRestarts]
    BY <2>1 DEF Types, ConstantsOK, SentOK, MessageOK
  <2>7. ConstantsOK'
    BY <2>1, <2>2, <2>6 DEF Types, ConstantsOK
  <2> QED
    BY <2>3, <2>4, <2>5, <2>7 DEF Types
<1> QED
  BY <1>1, <1>2, <1>3 DEF Next, TASStep, TrusteeStep

-------------------------------------------------------------------------------
(* Types and mirrors.                                                      *)

LEMMA AlwaysTypes == Spec => []Types
  BY TypesInit, TypesStep, PTL DEF Spec

LEMMA TypesImplyTypeOK == Types => TypeOK
<1> SUFFICES ASSUME Types PROVE TypeOK
  OBVIOUS
<1>1. \A i \in DOMAIN board : IsMessage(board[i])
  BY DEF Types, BoardOK, RangeOf, MessageOK
<1>2. \A msg \in sent : IsMessage(msg) /\ msg.signer \in Trustees
  BY DEF Types, SentOK, MessageOK
<1>3. ASSUME NEW c, IsPrefix(c.board), c.configured \in BOOLEAN, c.active \in Seq(Trustees)
      PROVE  IsCheckpoint(c)
  <2>1. \A i \in DOMAIN c.board : IsMessage(c.board[i])
    BY <1>3, Mirrors DEF Types, MessageOK
  <2>2. RangeOf(c.active) \subseteq Trustees
    BY <1>3, LenProperties DEF RangeOf
  <2> QED
    BY <1>3, <2>1, <2>2 DEF IsCheckpoint
<1>4. ASSUME NEW t \in Trustees
      PROVE  /\ trustee[t].state \in Running \cup {"Failed", "Panicked"}
             /\ IsCheckpoint(trustee[t])
             /\ IsCheckpoint(saved[t])
             /\ starts[t] \in 0..MaxRestarts
  <2>1. ActorOK(trustee[t]) /\ CheckpointOK(saved[t])
    BY DEF Types, ActorsOK
  <2>2. /\ trustee[t].state \in Running \cup {"Failed", "Panicked"}
        /\ IsPrefix(trustee[t].board) /\ trustee[t].configured \in BOOLEAN
        /\ trustee[t].active \in Seq(Trustees)
    BY <2>1 DEF ActorOK
  <2>3. /\ IsPrefix(saved[t].board) /\ saved[t].configured \in BOOLEAN
        /\ saved[t].active \in Seq(Trustees)
    BY <2>1 DEF CheckpointOK
  <2>4. starts[t] \in 0..MaxRestarts
    BY DEF Types, ConstantsOK
  <2> QED
    BY <1>3, <2>2, <2>3, <2>4
<1>5. /\ ceremony \in Ceremonies /\ stops \in 0..ceremony.max_stops
      /\ tas_state \in TASStates /\ active_trustees \subseteq Trustees
      /\ public_key \subseteq [Trustees -> 0..MaxRestarts]
  BY DEF Types, ConstantsOK
<1> QED
  BY <1>1, <1>2, <1>4, <1>5 DEF TypeOK

(* In every ceremony the variables keep their types, and only messages     *)
(* whose signature was verified are on the board and on its mirrors.       *)
THEOREM CeremonyTypes == Spec => []TypeOK
  BY AlwaysTypes, TypesImplyTypeOK, PTL

(* Every trustee, running, failed or created anew from a checkpoint, sees  *)
(* a prefix of the board, however updates overlap, come late or are        *)
(* spoiled (process_board_update).                                         *)
THEOREM MirrorsArePrefixes == Spec => []BoardsAgree
<1>1. Types => BoardsAgree
  <2> SUFFICES ASSUME Types, NEW t \in Trustees
               PROVE  PrefixOfBoard(trustee[t].board) /\ PrefixOfBoard(saved[t].board)
    BY DEF BoardsAgree
  <2>1. IsPrefix(trustee[t].board) /\ IsPrefix(saved[t].board)
    BY DEF Types, ActorsOK, ActorOK, CheckpointOK
  <2>2. \A bb : IsPrefix(bb) => PrefixOfBoard(bb)
    <3> SUFFICES ASSUME NEW bb, IsPrefix(bb) PROVE PrefixOfBoard(bb)
      OBVIOUS
    <3>1. /\ Len(bb) \in 0..Len(board) /\ Len(board) \in Nat
          /\ \A i \in DOMAIN bb : bb[i] = board[i]
      BY Mirrors, BoardIs DEF Types
    <3> QED
      BY <3>1 DEF PrefixOfBoard
  <2> QED
    BY <2>1, <2>2
<1> QED
  BY <1>1, AlwaysTypes, PTL
===============================================================================
