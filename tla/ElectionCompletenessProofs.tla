---------------------- MODULE ElectionCompletenessProofs ----------------------
(***************************************************************************)
(* Proof that what is right is accepted, and that an election completes:   *)
(* whatever ballots are cast, however the trustees mix and whichever of    *)
(* them decrypt, a ballot verifies for its voter and is displayed by a     *)
(* check, a mix is signed, and partial decryptions combine to the ballots  *)
(* cast, unless that very ballot, mix or partial decryption is altered or  *)
(* made for something else; for every order of the group, number of        *)
(* trustees, threshold, number of voters, width of a ballot and all random *)
(* numbers.                                                                *)
(*                                                                         *)
(* A ballot is a vector of scalars, and so is the exponent of its          *)
(* encryption: lists are read entry by entry.  Every proof of the crate is *)
(* followed from the one who makes it to the one who verifies it: both     *)
(* hash the same list of scalars, so they have one challenge, and the      *)
(* equations hold of the responses by the laws of the scalars.  In the     *)
(* proof of a shuffle the challenges of the ciphertexts are permuted, and  *)
(* sums over the ciphertexts do not depend on their order; its bridging    *)
(* commitments are powers of two generators, followed along the list.      *)
(*                                                                         *)
(* The invariant (ElectionIsRight) is that every mix that was not altered  *)
(* verifies, and, while no ballot was altered either, is an encryption of  *)
(* the ballots cast in some order, with some exponents: mixing adds to the *)
(* exponents and composes the orders.  The factors of a quorum, weighted,  *)
(* then cancel the exponents, since the quorum holds the secret of the     *)
(* key.  It needs the invariant of key generation (KeyInv), for the keys.  *)
(***************************************************************************)
EXTENDS BallotCryptographyProofs, SequenceTheorems

-------------------------------------------------------------------------------
(* Lists of scalars.                                                       *)

(* A list of scalars may be hashed, and so may lists joined to one.        *)
LEMMA ListsAreInput ==
    ASSUME NEW n \in Nat, NEW xs \in [1..n -> Scalars]
    PROVE  xs \in Seq(Int) /\ Len(xs) = n
<1>1. \A i \in 1..n : xs[i] \in Int
  BY ScalarsAreRests
<1>2. xs \in [1..n -> Int]
  BY <1>1
<1>3. xs \in Seq(Int)
  BY <1>2, SeqDef
<1> QED
  BY <1>3, LenProperties

(* Two inputs of a hash joined are an input.                               *)
LEMMA JoinedInput ==
    ASSUME NEW s \in Seq(Int), NEW t \in Seq(Int)
    PROVE  s \o t \in Seq(Int)
  BY ConcatProperties

(* Only 0 has the power 0, and powers of powers are powers of products.    *)
LEMMA ThirdPower ==
    ASSUME NEW m \in Scalars
    PROVE  /\ Times(Times(m, m), m) \in Scalars
           /\ \A k \in Nat : NthPower(Times(Times(m, m), m), k) = NthPower(m, 3 * k)
<1> DEFINE c == Times(Times(m, m), m)
           Good == {k \in Nat : NthPower(c, k) = NthPower(m, 3 * k)}
<1>1. c \in Scalars
  BY Closed
<1>2. 0 \in Good
  BY <1>1, NthPowerIs
<1>3. ASSUME NEW k \in Nat, k \in Good PROVE k + 1 \in Good
  <2>1. /\ 3 * k \in Nat /\ 3 * k + 1 \in Nat /\ (3 * k + 1) + 1 \in Nat
        /\ 3 * (k + 1) = ((3 * k + 1) + 1) + 1
    OBVIOUS
  <2> DEFINE a == NthPower(m, 3 * k)
  <2>6. /\ a \in Scalars /\ NthPower(m, 3 * k + 1) = Times(a, m)
        /\ NthPower(m, (3 * k + 1) + 1) = Times(NthPower(m, 3 * k + 1), m)
        /\ NthPower(m, ((3 * k + 1) + 1) + 1) = Times(NthPower(m, (3 * k + 1) + 1), m)
    BY <2>1, NthPowerIs
  <2>2. NthPower(m, 3 * (k + 1)) = Times(Times(Times(a, m), m), m) /\ a \in Scalars
    BY <2>1, <2>6
  <2>3. NthPower(c, k + 1) = Times(a, c)
    BY <1>1, <1>3, NthPowerIs
  <2> HIDE DEF a
  <2>7. Times(m, m) \in Scalars
    BY Closed
  <2>4. Times(a, c) = Times(Times(a, Times(m, m)), m)
    BY <2>2, <2>7, TimesAssociates
  <2>5. Times(a, Times(m, m)) = Times(Times(a, m), m)
    BY <2>2, TimesAssociates
  <2> QED
    BY <2>2, <2>3, <2>4, <2>5
<1> HIDE DEF Good, c
<1>4. \A k \in Nat : k \in Good
  BY <1>2, <1>3, Induction
<1> QED
  BY <1>1, <1>4 DEF Good, c

(* Fermat's theorem once more: the power with the order is the scalar.     *)
LEMMA FermatPowers ==
    ASSUME NEW m \in Scalars, m # 0
    PROVE  NthPower(m, Order - 1) = 1
<1>1. Order - 2 \in Nat /\ (Order - 2) + 1 = Order - 1
  BY OrderIs
<1>2. Invert(m) = NthPower(m, Order - 2)
  BY <1>1, PowerIs DEF Invert
<1>3. NthPower(m, Order - 1) = Times(Invert(m), m)
  BY <1>1, <1>2, NthPowerIs
<1> QED
  BY <1>3, InvertIs

(* Third powers differ, since the order is 2 modulo 3.                     *)
LEMMA ThirdPowersDiffer ==
    ASSUME NEW m \in Scalars, NEW n \in Scalars,
           Times(Times(m, m), m) = Times(Times(n, n), n)
    PROVE  m = n
<1> DEFINE q == Order \div 3
           k == 2 * q + 1
           e == Order - 1
<1>1. Order = 3 * q + 2 /\ q \in Nat
  BY OrderAssumption, OrderIs
<1>2. k \in Nat /\ e \in Nat /\ 3 * k = (e + e) + 1
  BY <1>1
<1> HIDE DEF q, k, e
<1>3. ASSUME NEW a \in Scalars PROVE NthPower(Times(Times(a, a), a), k) = a
  <2>1. NthPower(Times(Times(a, a), a), k) = NthPower(a, (e + e) + 1)
    BY <1>2, ThirdPower
  <2>2. e + e \in Nat
    BY <1>2
  <2>3. NthPower(a, (e + e) + 1) = Times(NthPower(a, e + e), a)
    BY <2>2, NthPowerIs
  <2>4. CASE a = 0
    BY <2>1, <2>2, <2>3, <2>4, NthPowerIs, Neutral
  <2>5. CASE a # 0
    <3>1. NthPower(a, e) = 1
      BY <2>5, FermatPowers DEF e
    <3>2. NthPower(a, e + e) = Times(1, 1)
      BY <1>2, <3>1, PowersAdd
    <3>3. 1 \in Scalars
      BY Closed
    <3> QED
      BY <2>1, <2>3, <3>2, <3>3, Neutral
  <2> QED
    BY <2>4, <2>5
<1> QED
  BY <1>3

-------------------------------------------------------------------------------
(* The code of a ballot.                                                   *)

(* A step of the hash gives scalars, and different ones for different sums.*)
LEMMA HashStepIs ==
    ASSUME NEW h \in Int, NEW x \in Int
    PROVE  /\ HashStep(h, x) \in Scalars
           /\ \A g, y \in Int : HashStep(h, x) = HashStep(g, y) => Same(h + x, g + y)
<1> DEFINE m(a, b) == (a + b + 4099) % Order
<1>1. ASSUME NEW a \in Int, NEW b \in Int
      PROVE  m(a, b) \in Scalars /\ Same(m(a, b), a + b + 4099)
  <2>1. a + b + 4099 \in Int
    OBVIOUS
  <2> QED
    BY <2>1, DivMod, SameRest
<1>2. \A a, b \in Int : HashStep(a, b) = Times(Times(m(a, b), m(a, b)), m(a, b))
  BY DEF HashStep
<1> HIDE DEF m
<1>3. HashStep(h, x) \in Scalars
  <2>1. m(h, x) \in Scalars
    BY <1>1
  <2>2. Times(m(h, x), m(h, x)) \in Scalars
    BY <2>1, Closed
  <2> QED
    BY <1>2, <2>1, <2>2, Closed
<1>4. ASSUME NEW g \in Int, NEW y \in Int, HashStep(h, x) = HashStep(g, y)
      PROVE  Same(h + x, g + y)
  <2>1. m(h, x) = m(g, y)
    BY <1>1, <1>2, <1>4, ThirdPowersDiffer
  <2>2. Same(h + x + 4099, g + y + 4099)
    BY <1>1, <2>1 DEF Same
  <2>3. Same(-4099, -4099)
    BY DEF Same
  <2>4. /\ h + x + 4099 \in Int /\ g + y + 4099 \in Int /\ -4099 \in Int
        /\ (h + x + 4099) + (-4099) = h + x /\ (g + y + 4099) + (-4099) = g + y
    OBVIOUS
  <2>5. Same((h + x + 4099) + (-4099), (g + y + 4099) + (-4099))
    BY <2>2, <2>3, <2>4, SameSum
  <2> QED
    BY <2>4, <2>5
<1> QED
  BY <1>3, <1>4

(* A common term does not make scalars the same.                           *)
LEMMA CommonTerm ==
    ASSUME NEW s \in Scalars, NEW t \in Scalars, NEW z \in Int, Same(s + z, t + z)
    PROVE  s = t
<1>1. s \in Int /\ t \in Int
  BY ScalarsAreRests
<1>2. s + z \in Int /\ t + z \in Int /\ -z \in Int
  BY <1>1
<1>3. Same(-z, -z)
  BY DEF Same
<1>4. Same((s + z) + (-z), (t + z) + (-z))
  BY <1>2, <1>3, SameSum
<1>5. (s + z) + (-z) = s /\ (t + z) + (-z) = t
  BY <1>1
<1> QED
  BY <1>4, <1>5, SameScalars

(* encode_bytes: no two ballots have the same code.                        *)
LEMMA EncodeBallotIs ==
    ASSUME NEW b \in Ballots
    PROVE  /\ EncodeBallot(b) \in [1..BallotWidth -> Scalars]
           /\ DecodeBallot(EncodeBallot(b)) = {b}
<1> DEFINE input(c, i) == <<1, 4, c, i>>
<1>1. Ballots \subseteq Int /\ Ballots \subseteq Scalars /\ 1 \in 1..BallotWidth
  BY BallotAssumption, ScalarsAreRests
<1>2. \A c \in Ballots, i \in 1..BallotWidth :
          /\ HashToElement(<<4, c, i>>) = HashToScalar(input(c, i))
          /\ input(c, i) \in Seq(Int)
  <2> TAKE c \in Ballots, i \in 1..BallotWidth
  <2>1. c \in Int /\ i \in Int
    BY <1>1
  <2>3. input(c, i) \in Seq(Int) /\ <<1>> \in Seq(Int) /\ <<4, c, i>> \in Seq(Int)
    BY <2>1
  <2>4. /\ Len(input(c, i)) = 4 /\ Len(<<1>>) = 1 /\ Len(<<4, c, i>>) = 3
        /\ 1..4 = {1, 2, 3, 4}
    OBVIOUS
  <2> DEFINE s == <<1>> \o <<4, c, i>>
  <2>5. /\ s \in Seq(Int) /\ Len(s) = 4
        /\ \A j \in 1..4 : s[j] = IF j <= 1 THEN <<1>>[j] ELSE <<4, c, i>>[j - 1]
    BY <2>3, <2>4, ConcatProperties
  <2> HIDE DEF s
  <2>6. \A j \in 1..4 : s[j] = input(c, i)[j]
    BY <2>4, <2>5
  <2>7. s = input(c, i)
    BY <2>3, <2>4, <2>5, <2>6, SeqEqual
  <2>2. <<1>> \o <<4, c, i>> = input(c, i)
    BY <2>7 DEF s
  <2> QED
    BY <2>2, <2>3 DEF HashToElement
<1>3. EncodeBallot(b) \in [1..BallotWidth -> Scalars]
  <2>1. \A i \in 1..BallotWidth : HashToElement(<<4, b, i>>) \in Scalars
    BY <1>2, HashIs
  <2> QED
    BY <2>1 DEF EncodeBallot
<1>4. ASSUME NEW c \in Ballots, EncodeBallot(c) = EncodeBallot(b) PROVE c = b
  <2>1. HashToScalar(input(c, 1)) = HashToScalar(input(b, 1))
    BY <1>1, <1>2, <1>4 DEF EncodeBallot
  <2>2. PICK f : /\ f[0] = 4
                 /\ \A i \in 1..4 : f[i] = HashStep(f[i - 1], input(b, 1)[i])
                 /\ HashToScalar(input(b, 1)) = f[4]
    <3>1. 4 \in Nat /\ DOMAIN input(b, 1) = 1..4 /\ Len(input(b, 1)) = 4
      OBVIOUS
    <3> HIDE DEF input
    <3>2. PICK partial : IsHashing(4, input(b, 1), partial)
      BY <3>1, PartialHashes
    <3> QED
      BY <3>1, <3>2 DEF IsHashing
  <2>3. PICK g : /\ g[0] = 4
                 /\ \A i \in 1..4 : g[i] = HashStep(g[i - 1], input(c, 1)[i])
                 /\ HashToScalar(input(c, 1)) = g[4]
    <3>1. 4 \in Nat /\ DOMAIN input(c, 1) = 1..4 /\ Len(input(c, 1)) = 4
      OBVIOUS
    <3> HIDE DEF input
    <3>2. PICK partial : IsHashing(4, input(c, 1), partial)
      BY <3>1, PartialHashes
    <3> QED
      BY <3>1, <3>2 DEF IsHashing
  <2>4. /\ f[1] = HashStep(4, 1) /\ f[2] = HashStep(f[1], 4)
        /\ f[3] = HashStep(f[2], b) /\ f[4] = HashStep(f[3], 1)
    BY <2>2
  <2>5. /\ g[1] = HashStep(4, 1) /\ g[2] = HashStep(g[1], 4)
        /\ g[3] = HashStep(g[2], c) /\ g[4] = HashStep(g[3], 1)
    BY <2>3
  <2>6. /\ f[1] \in Scalars /\ f[2] \in Scalars /\ f[3] \in Scalars /\ g[3] \in Scalars
        /\ f[2] = g[2] /\ f[2] \in Int /\ f[3] \in Int /\ g[3] \in Int
    <3>1. f[1] \in Scalars /\ f[1] \in Int
      BY <2>4, HashStepIs, ScalarsAreRests
    <3>2. f[2] \in Scalars /\ f[2] \in Int /\ f[2] = g[2]
      BY <2>4, <2>5, <3>1, HashStepIs, ScalarsAreRests
    <3> QED
      BY <1>1, <2>4, <2>5, <3>1, <3>2, HashStepIs, ScalarsAreRests
  <2>7. Same(f[3] + 1, g[3] + 1)
    BY <2>1, <2>2, <2>3, <2>4, <2>5, <2>6, HashStepIs
  <2>8. f[3] = g[3]
    BY <2>6, <2>7, CommonTerm
  <2>9. Same(f[2] + b, f[2] + c)
    BY <1>1, <2>4, <2>5, <2>6, <2>8, HashStepIs
  <2>10. f[2] + b = b + f[2] /\ f[2] + c = c + f[2]
    BY <1>1, <2>6
  <2> QED
    BY <1>1, <2>6, <2>9, <2>10, CommonTerm
<1> QED
  BY <1>3, <1>4 DEF DecodeBallot

-------------------------------------------------------------------------------
(* Naor-Yung ciphertexts.                                                  *)

(* Powers of an element, and products of lists, are lists of elements.     *)
LEMMA VectorsAre ==
    ASSUME NEW n \in Nat, NEW xs \in [1..n -> Scalars], NEW ys \in [1..n -> Scalars],
           NEW s \in Scalars
    PROVE  /\ ReplExp(s, xs) \in [1..n -> Scalars]
           /\ ReplExp(generator, xs) = xs
           /\ DistExp(xs, s) \in [1..n -> Scalars]
           /\ ExpEach(xs, ys) \in [1..n -> Scalars]
           /\ MulEach(xs, ys) \in [1..n -> Scalars]
           /\ InvEach(xs) \in [1..n -> Scalars]
           /\ AddEach(xs, ys) \in [1..n -> Scalars]
           /\ TimesEach(xs, ys) \in [1..n -> Scalars]
           /\ TimesAll(s, xs) \in [1..n -> Scalars]
<1>1. \A i \in 1..n : /\ Add(xs[i], ys[i]) \in Scalars /\ Times(xs[i], ys[i]) \in Scalars
                      /\ Times(s, xs[i]) \in Scalars /\ Times(xs[i], s) \in Scalars
                      /\ Neg(xs[i]) \in Scalars
  BY Closed
<1>2. \A i \in 1..n : Exp(generator, xs[i]) = xs[i]
  BY PowerOfGenerator
<1>3. /\ ReplExp(s, xs) = [i \in 1..n |-> Times(s, xs[i])]
      /\ ReplExp(generator, xs) = [i \in 1..n |-> Exp(generator, xs[i])]
      /\ DistExp(xs, s) = [i \in 1..n |-> Times(xs[i], s)]
      /\ ExpEach(xs, ys) = [i \in 1..n |-> Times(xs[i], ys[i])]
      /\ MulEach(xs, ys) = [i \in 1..n |-> Add(xs[i], ys[i])]
      /\ InvEach(xs) = [i \in 1..n |-> Neg(xs[i])]
      /\ AddEach(xs, ys) = [i \in 1..n |-> Add(xs[i], ys[i])]
      /\ TimesEach(xs, ys) = [i \in 1..n |-> Times(xs[i], ys[i])]
      /\ TimesAll(s, xs) = [i \in 1..n |-> Times(s, xs[i])]
  BY DEF ReplExp, DistExp, ExpEach, MulEach, InvEach, AddEach, TimesEach, TimesAll, Exp, Mul, Inv
<1> QED
  BY <1>1, <1>2, <1>3

(* The responses of a proof, one for every exponent, answer its challenge  *)
(* for the powers of any element.                                          *)
LEMMA PowersRespond ==
    ASSUME NEW n \in Nat, NEW xs \in [1..n -> Scalars], NEW as \in [1..n -> Scalars],
           NEW g \in Scalars, NEW v \in Scalars
    PROVE  MulEach(DistExp(ReplExp(g, xs), v), ReplExp(g, as))
              = ReplExp(g, AddEach(TimesAll(v, xs), as))
<1> DEFINE lhs == MulEach(DistExp(ReplExp(g, xs), v), ReplExp(g, as))
           rhs == ReplExp(g, AddEach(TimesAll(v, xs), as))
<1>1. lhs = [i \in 1..n |-> Add(Times(Times(g, xs[i]), v), Times(g, as[i]))]
  BY DEF MulEach, DistExp, ReplExp, Mul, Exp
<1>2. rhs = [i \in 1..n |-> Times(g, Add(Times(v, xs[i]), as[i]))]
  BY DEF ReplExp, AddEach, TimesAll, Exp
<1>3. \A i \in 1..n : Times(g, Add(Times(v, xs[i]), as[i]))
                         = Add(Times(Times(g, xs[i]), v), Times(g, as[i]))
  <2>1. ASSUME NEW x \in Scalars, NEW a \in Scalars
        PROVE  Times(g, Add(Times(v, x), a)) = Add(Times(Times(g, x), v), Times(g, a))
    BY Responds
  <2> QED
    BY <2>1
<1> QED
  BY <1>1, <1>2, <1>3

(* The challenge of a proof of equal plaintexts is a scalar.               *)
LEMMA PlEqChallengeIs ==
    ASSUME NEW n \in Nat, NEW y \in Scalars, NEW z \in Scalars, NEW c, NEW A,
           c.u_b \in [1..n -> Scalars], c.v_b \in [1..n -> Scalars], c.u_a \in [1..n -> Scalars],
           A[1] \in [1..n -> Scalars], A[2] \in [1..n -> Scalars], NEW context \in Seq(Int)
    PROVE  PlEqChallenge(y, z, c, A, context) \in Scalars
<1>1. /\ c.u_b \in Seq(Int) /\ c.v_b \in Seq(Int) /\ c.u_a \in Seq(Int)
      /\ A[1] \in Seq(Int) /\ A[2] \in Seq(Int)
  BY ListsAreInput
<1>2. <<generator, y, z>> \in Seq(Int)
  <2>1. y \in Int /\ z \in Int /\ generator \in Int
    BY ScalarsAreRests DEF generator
  <2> QED
    BY <2>1
<1>3. <<generator, y, z>> \o c.u_b \o c.v_b \o c.u_a \o A[1] \o A[2] \o context \in Seq(Int)
  BY <1>1, <1>2, JoinedInput
<1> QED
  BY <1>3, HashIs DEF PlEqChallenge

(* A result that is Ok, and what it is.                                    *)
IsOnly(x, result) == result = {x}

(* A proof made by the algorithm verifies, and stripping it off leaves the *)
(* ElGamal ciphertext (NaorYung::encrypt_with_r, strip).                   *)
LEMMA StripIs ==
    ASSUME NEW n \in Nat, NEW pk, pk.pk_b \in Scalars, pk.pk_a \in Scalars,
           NEW message \in [1..n -> Scalars], NEW r \in [1..n -> Scalars],
           NEW a_prime \in [1..n -> Scalars], NEW context \in Seq(Int)
    PROVE  IsOnly(EGEncrypt(pk.pk_b, message, r),
                  Strip(pk, NYEncryptWithR(pk, message, r, context, a_prime), context))
<1> DEFINE y == pk.pk_b
           z == pk.pk_a
           c == [u_b |-> ReplExp(generator, r), v_b |-> MulEach(message, ReplExp(y, r)),
                 u_a |-> ReplExp(z, r)]
           a == TimesEach(a_prime, r)
           A == <<ReplExp(generator, a), ReplExp(z, a)>>
           v == PlEqChallenge(y, z, c, A, context)
           k == AddEach(TimesAll(v, r), a)
           d == NYEncryptWithR(pk, message, r, context, a_prime)
<1>1. d = [u_b |-> c.u_b, v_b |-> c.v_b, u_a |-> c.u_a, proof |-> [big_a |-> A, k |-> k]]
  BY DEF NYEncryptWithR, PlEqProve
<1>2. /\ a \in [1..n -> Scalars] /\ generator \in Scalars
      /\ c.u_b \in [1..n -> Scalars] /\ c.u_a \in [1..n -> Scalars]
      /\ ReplExp(y, r) \in [1..n -> Scalars]
      /\ A[1] \in [1..n -> Scalars] /\ A[2] \in [1..n -> Scalars]
  <2>1. a \in [1..n -> Scalars] /\ generator \in Scalars
    BY VectorsAre, Closed DEF generator
  <2> HIDE DEF a
  <2> QED
    BY <2>1, VectorsAre
<1>3. c.v_b \in [1..n -> Scalars]
  BY <1>2, VectorsAre
<1>4. v \in Scalars
  <2> HIDE DEF c, A
  <2> QED
    BY <1>2, <1>3, PlEqChallengeIs
<1>5. PlEqChallenge(y, z, d, d.proof.big_a, context) = v
  BY <1>1 DEF PlEqChallenge
<1>6. /\ MulEach(DistExp(ReplExp(generator, r), v), ReplExp(generator, a))
            = ReplExp(generator, k)
      /\ MulEach(DistExp(ReplExp(z, r), v), ReplExp(z, a)) = ReplExp(z, k)
  <2> HIDE DEF v, a
  <2> QED
    BY <1>2, <1>4, PowersRespond
<1>7. PlEqVerify(y, z, d, context)
  <2>1. /\ d.u_b = ReplExp(generator, r) /\ d.u_a = ReplExp(z, r)
        /\ d.proof.big_a[1] = ReplExp(generator, a) /\ d.proof.big_a[2] = ReplExp(z, a)
        /\ d.proof.k = k
    BY <1>1
  <2> HIDE DEF d, v, k, a
  <2> QED
    BY <1>5, <1>6, <2>1 DEF PlEqVerify
<1>8. [u |-> d.u_b, v |-> d.v_b] = EGEncrypt(y, message, r)
  BY <1>1 DEF EGEncrypt
<1> HIDE DEF d
<1> QED
  BY <1>7, <1>8 DEF Strip, IsOnly, d

(* The randomness of a ciphertext gives its message, and so does the       *)
(* secret key (EGDecryptWithR, decrypt).                                   *)
LEMMA EGDecryptWithRIs ==
    ASSUME NEW n \in Nat, NEW y \in Scalars,
           NEW message \in [1..n -> Scalars], NEW r \in [1..n -> Scalars]
    PROVE  IsOnly(message, EGDecryptWithR(y, EGEncrypt(y, message, r), r))
<1> DEFINE c == EGEncrypt(y, message, r)
<1>1. ASSUME NEW i \in 1..n
      PROVE  Add(Add(message[i], Times(y, r[i])), Neg(Times(y, r[i]))) = message[i]
  <2>1. message[i] \in Scalars /\ Times(y, r[i]) \in Scalars
    BY Closed
  <2> QED
    BY <2>1, Cancels
<1>2. MulEach(c.v, InvEach(ReplExp(y, r)))
         = [i \in 1..n |-> Add(Add(message[i], Times(y, r[i])), Neg(Times(y, r[i])))]
  BY DEF EGEncrypt, MulEach, InvEach, ReplExp, Mul, Inv, Exp
<1>3. MulEach(c.v, InvEach(ReplExp(y, r))) = message
  BY <1>1, <1>2
<1>4. ReplExp(generator, r) = c.u
  BY DEF EGEncrypt
<1> HIDE DEF c
<1> QED
  BY <1>3, <1>4 DEF EGDecryptWithR, IsOnly, c

(* A ciphertext decrypts with the secret key (elgamal::decrypt).           *)
LEMMA EGDecryptIs ==
    ASSUME NEW n \in Nat, NEW sk \in Scalars,
           NEW message \in [1..n -> Scalars], NEW r \in [1..n -> Scalars]
    PROVE  EGDecrypt(sk, EGEncrypt(Exp(generator, sk), message, r)) = message
<1> DEFINE c == EGEncrypt(Exp(generator, sk), message, r)
           x(i) == Add(Add(message[i], Times(sk, r[i])), Times(r[i], Neg(sk)))
<1>1. ASSUME NEW i \in 1..n PROVE x(i) = message[i]
  <2>1. message[i] \in Scalars /\ Times(sk, r[i]) \in Scalars /\ r[i] \in Scalars
    BY Closed
  <2>2. Times(r[i], Neg(sk)) = Neg(Times(sk, r[i]))
    BY <2>1, Cancels, Commutes
  <2> QED
    BY <2>1, <2>2, Cancels
<1>2. Exp(generator, sk) = sk
  BY PowerOfGenerator
<1>3. c = [u |-> r, v |-> MulEach(message, ReplExp(sk, r))]
  BY <1>2, VectorsAre DEF EGEncrypt
<1>4. EGDecrypt(sk, c) = [i \in 1..n |-> x(i)]
  BY <1>3 DEF EGDecrypt, MulEach, DistExp, ReplExp, Mul, Exp
<1> HIDE DEF x, c
<1>5. message = [i \in 1..n |-> message[i]]
  OBVIOUS
<1> QED
  BY <1>1, <1>4, <1>5 DEF c

(* A ballot is displayed from its ciphertext and its randomizers.          *)
LEMMA BallotIsDisplayed ==
    ASSUME NEW pk, pk.pk_b \in Scalars, pk.pk_a \in Scalars, NEW ballot \in Ballots,
           NEW e \in Int, NEW p \in Int, NEW place \in Seq(Int)
    PROVE  LET sent == EncryptBallot(ballot, pk, e, p, place)
           IN  /\ sent.randomizers \in [1..BallotWidth -> Scalars]
               /\ IsOnly(EGEncrypt(pk.pk_b, EncodeBallot(ballot), sent.randomizers),
                         Strip(pk, sent.ciphertext, BallotContext(e, p)))
               /\ VerifyCiphertextProof(sent.ciphertext, pk, e, p)
               /\ IsOnly(ballot,
                         DecryptBallot(sent.ciphertext, sent.randomizers, pk, e, p))
<1> DEFINE n == BallotWidth
           r == RandomScalars(n, Append(place, 0))
           a_prime == RandomScalars(n, Append(place, 1))
           context == BallotContext(e, p)
           c == NYEncryptWithR(pk, EncodeBallot(ballot), r, context, a_prime)
           eg == EGEncrypt(pk.pk_b, EncodeBallot(ballot), r)
           sent == EncryptBallot(ballot, pk, e, p, place)
<1>1. sent = [randomizers |-> r, ciphertext |-> c]
  BY DEF EncryptBallot
<1>2. /\ n \in Nat /\ Append(place, 0) \in Seq(Int) /\ Append(place, 1) \in Seq(Int)
      /\ context \in Seq(Int)
  BY BallotAssumption DEF BallotContext
<1>3. r \in [1..n -> Scalars] /\ a_prime \in [1..n -> Scalars]
  BY <1>2, RandomIs
<1>4. /\ EncodeBallot(ballot) \in [1..n -> Scalars]
      /\ DecodeBallot(EncodeBallot(ballot)) = {ballot}
  BY EncodeBallotIs
<1> HIDE DEF n, r, a_prime, context
<1>5. IsOnly(eg, Strip(pk, c, context))
  BY <1>2, <1>3, <1>4, StripIs
<1>6. IsOnly(EncodeBallot(ballot), EGDecryptWithR(pk.pk_b, eg, r))
  BY <1>2, <1>3, <1>4, EGDecryptWithRIs
<1> HIDE DEF c, eg
<1>7. IsOnly(ballot, DecryptBallot(c, r, pk, e, p))
  BY <1>4, <1>5, <1>6 DEF DecryptBallot, IsOnly, context
<1>8. VerifyCiphertextProof(c, pk, e, p)
  BY <1>5 DEF VerifyCiphertextProof, IsOnly, context
<1> HIDE DEF sent
<1>9. sent.randomizers = r /\ sent.ciphertext = c
  BY <1>1
<1> QED
  BY <1>3, <1>5, <1>7, <1>8, <1>9 DEF eg, context, n, sent

-------------------------------------------------------------------------------
(* Recursive definitions over the positions of a list.                     *)

(* The i-th value, from the one before.                                    *)
Continued(kind, xs, ys, p, i) ==
    CASE kind = "flatten" -> p \o xs[i]
      [] kind = "bridges" -> Mul(Exp(generator, xs[i]), Exp(p, ys[i]))
      [] OTHER -> Add(xs[i], Times(ys[i], p))
RecStep(kind, xs, ys, base, first, f, i) ==
    IF i = first THEN base ELSE Continued(kind, xs, ys, f[i - 1], i)

IsRecursion(kind, xs, ys, base, first, n, f) ==
    f = [i \in first..n |-> RecStep(kind, xs, ys, base, first, f, i)]

(* Each of these definitions has a value.                                  *)
LEMMA RecursionsExist ==
    ASSUME NEW kind, NEW xs, NEW ys, NEW base, NEW first \in {0, 1}
    PROVE  \A n \in Nat : \E f : IsRecursion(kind, xs, ys, base, first, n, f)
<1> DEFINE Step(f, i) == RecStep(kind, xs, ys, base, first, f, i)
           Solved(n) == \E f : f = [i \in first..n |-> Step(f, i)]
           Solvable == {n \in Nat : Solved(n)}
<1>1. Solved(0)
  <2> DEFINE f == [i \in first..0 |-> base]
  <2>1. \A i \in first..0 : i = first
    OBVIOUS
  <2>2. \A i \in first..0 : Step(f, i) = base
    BY <2>1 DEF RecStep
  <2>3. f = [i \in first..0 |-> Step(f, i)]
    BY <2>2
  <2> QED
    BY <2>3
<1>2. ASSUME NEW n \in Nat, Solved(n) PROVE Solved(n + 1)
  <2>1. PICK f : f = [i \in first..n |-> Step(f, i)]
    BY <1>2
  <2> DEFINE g == [i \in first..(n + 1) |-> IF i <= n THEN f[i] ELSE Step(f, i)]
  <2>2. \A i \in first..(n + 1) : i # first => i - 1 \in first..n /\ i - 1 \in first..(n + 1)
    OBVIOUS
  <2>3. \A i \in first..(n + 1) : i # first => g[i - 1] = f[i - 1]
    BY <2>2
  <2>4. \A i \in first..(n + 1) : Step(g, i) = Step(f, i)
    <3> HIDE DEF g
    <3> QED
      BY <2>3 DEF RecStep
  <2>5. \A i \in first..n : f[i] = Step(f, i)
    BY <2>1
  <2>6. \A i \in first..(n + 1) : g[i] = Step(g, i)
    <3> TAKE i \in first..(n + 1)
    <3>1. g[i] = IF i <= n THEN f[i] ELSE Step(f, i)
      OBVIOUS
    <3>2. i <= n => i \in first..n
      OBVIOUS
    <3> HIDE DEF g, Step
    <3> QED
      BY <2>4, <2>5, <3>1, <3>2
  <2>7. g = [i \in first..(n + 1) |-> Step(g, i)]
    <3>1. g = [i \in first..(n + 1) |-> g[i]]
      OBVIOUS
    <3> HIDE DEF g, Step
    <3> QED
      BY <2>6, <3>1
  <2> HIDE DEF g, Step
  <2> QED
    BY <2>7
<1> HIDE DEF Solved
<1>4. 0 \in Solvable /\ \A n \in Nat : n \in Solvable => n + 1 \in Solvable
  BY <1>1, <1>2
<1>3. \A n \in Nat : n \in Solvable
  BY <1>4, Induction
<1> QED
  BY <1>3 DEF Solved, IsRecursion

(* Lists joined to one: the first i of them are parts[i].                  *)
IsJoining(n, seqs, parts) ==
    /\ parts[1] = seqs[1]
    /\ \A i \in 2..n : parts[i] = parts[i - 1] \o seqs[i]
    /\ FlattenSeq(seqs) = parts[n]

(* Lists are joined one after the other.                                   *)
LEMMA FlattenIs ==
    ASSUME NEW n \in Nat \ {0}, NEW seqs, DOMAIN seqs = 1..n, Len(seqs) = n
    PROVE  \E parts : IsJoining(n, seqs, parts)
<1> DEFINE Step(f, i) == IF i = 1 THEN seqs[i] ELSE f[i - 1] \o seqs[i]
           F == CHOOSE f : f = [i \in 1..n |-> Step(f, i)]
<1>1. FlattenSeq(seqs) = F[n]
  BY DEF FlattenSeq
<1>2. \A f, i : RecStep("flatten", seqs, seqs, seqs[1], 1, f, i) = Step(f, i)
  BY DEF RecStep, Continued
<1> HIDE DEF Step
<1>3. \E f : f = [i \in 1..n |-> Step(f, i)]
  <2>1. PICK f : IsRecursion("flatten", seqs, seqs, seqs[1], 1, n, f)
    BY RecursionsExist
  <2> QED
    BY <1>2, <2>1 DEF IsRecursion
<1>4. F = [i \in 1..n |-> Step(F, i)]
  BY <1>3, Zenon
<1> HIDE DEF F
<1>5. \A i \in 1..n : F[i] = Step(F, i)
  BY <1>4
<1>6. 1 \in 1..n /\ \A i \in 2..n : i \in 1..n /\ i # 1
  OBVIOUS
<1>7. F[1] = seqs[1] /\ \A i \in 2..n : F[i] = F[i - 1] \o seqs[i]
  BY <1>5, <1>6 DEF Step
<1> QED
  BY <1>1, <1>7 DEF IsJoining

(* Joined lists of numbers may be hashed.                                  *)
LEMMA FlattenIsInput ==
    ASSUME NEW n \in Nat, NEW seqs \in [1..n -> Seq(Int)]
    PROVE  FlattenSeq(seqs) \in Seq(Int)
<1>1. seqs \in Seq(Seq(Int))
  BY SeqDef
<1>2. Len(seqs) = n
  BY <1>1, LenProperties
<1>3. CASE n = 0
  <2>1. FlattenSeq(seqs) = seqs
    BY <1>2, <1>3 DEF FlattenSeq
  <2>2. seqs \in [1..0 -> Int]
    BY <1>3
  <2> QED
    BY <2>1, <2>2, SeqDef
<1>4. CASE n # 0
  <2>1. PICK parts : /\ parts[1] = seqs[1]
                     /\ \A i \in 2..n : parts[i] = parts[i - 1] \o seqs[i]
                     /\ FlattenSeq(seqs) = parts[n]
    <3>1. n \in Nat \ {0} /\ DOMAIN seqs = 1..n
      BY <1>4
    <3>2. PICK parts : IsJoining(n, seqs, parts)
      BY <1>2, <3>1, FlattenIs
    <3> QED
      BY <3>2 DEF IsJoining
  <2> DEFINE Good == {i \in Nat : i + 1 <= n => parts[i + 1] \in Seq(Int)}
  <2>2. 0 \in Good
    BY <1>4, <2>1
  <2>3. ASSUME NEW i \in Nat, i \in Good PROVE i + 1 \in Good
    <3> SUFFICES ASSUME (i + 1) + 1 <= n PROVE parts[(i + 1) + 1] \in Seq(Int)
      OBVIOUS
    <3>1. /\ (i + 1) + 1 \in 2..n /\ ((i + 1) + 1) - 1 = i + 1 /\ i + 1 <= n
          /\ (i + 1) + 1 \in 1..n
      OBVIOUS
    <3>2. parts[i + 1] \in Seq(Int) /\ seqs[(i + 1) + 1] \in Seq(Int)
      BY <2>3, <3>1
    <3>3. parts[(i + 1) + 1] = parts[i + 1] \o seqs[(i + 1) + 1]
      BY <2>1, <3>1
    <3> QED
      BY <3>2, <3>3, JoinedInput
  <2> HIDE DEF Good
  <2>4. \A i \in Nat : i \in Good
    BY <2>2, <2>3, Induction
  <2>5. n - 1 \in Nat /\ (n - 1) + 1 = n
    BY <1>4
  <2>6. n - 1 \in Good
    BY <2>4, <2>5
  <2>7. parts[(n - 1) + 1] \in Seq(Int)
    BY <2>5, <2>6 DEF Good
  <2> QED
    BY <2>1, <2>5, <2>7
<1> QED
  BY <1>3, <1>4

-------------------------------------------------------------------------------
(* Scalars as messages.                                                    *)

(* A scalar is decoded from its code (encode_scalar, decode_scalar).       *)
LEMMA EncodeScalarIs ==
    ASSUME NEW s \in Scalars
    PROVE  /\ EncodeScalar(s) \in [1..2 -> Scalars]
           /\ DecodeScalar(<<EncodeScalar(s)[1], EncodeScalar(s)[2]>>) = {s}
<1> DEFINE d == <<EncodeScalar(s)[1], EncodeScalar(s)[2]>>
           p == <<d[1] - 1, d[2] - 1>>
<1>1. s \in Nat /\ s <= Order - 1
  BY OrderIs DEF Scalars
<1>2. /\ EncodeScalar(s) = [i \in 1..2 |-> EncodeScalar(s)[i]]
      /\ EncodeScalar(s)[1] = 1 + (s \div 256) /\ EncodeScalar(s)[2] = 1 + (s % 256)
  BY DEF EncodeScalar
<1>3. 1 + (s \div 256) \in Scalars /\ 1 + (s % 256) \in Scalars
  BY <1>1, OrderIs DEF Scalars
<1>4. EncodeScalar(s) \in [1..2 -> Scalars]
  <2>1. \A i \in 1..2 : i = 1 \/ i = 2
    OBVIOUS
  <2>2. \A i \in 1..2 : EncodeScalar(s)[i] \in Scalars
    BY <1>2, <1>3, <2>1
  <2> QED
    BY <1>2, <2>2
<1>5. d[1] = 1 + (s \div 256) /\ d[2] = 1 + (s % 256)
  BY <1>2
<1> HIDE DEF d
<1>6. p[1] = s \div 256 /\ p[2] = s % 256
  BY <1>1, <1>5
<1>7. DecodeScalar(d) = {t \in {256 * q[1] + q[2] : q \in {q \in {p} :
                          q[1] >= 0 /\ q[2] \in 0..255 /\ q[1] <= (Order - 1) \div 256}} :
                          t \in Scalars}
  BY Zenon DEF DecodeScalar
<1> HIDE DEF p
<1>8. (s \div 256) >= 0 /\ (s % 256) \in 0..255 /\ (s \div 256) <= (Order - 1) \div 256
  BY <1>1, OrderIs
<1>9. p[1] >= 0 /\ p[2] \in 0..255 /\ p[1] <= (Order - 1) \div 256
  BY <1>6, <1>8
<1>10. 256 * p[1] + p[2] = s
  BY <1>1, <1>6
<1>11. DecodeScalar(d) = {s}
  BY <1>7, <1>9, <1>10
<1> QED
  BY <1>4, <1>11 DEF d

(* Two elements for each of n scalars.                                     *)
AreCodes(n, rs, codes) ==
    /\ codes \in Seq(Scalars) /\ Len(codes) = 2 * n
    /\ \A j \in 1..n : /\ codes[2 * j - 1] = EncodeScalar(rs[j])[1]
                       /\ codes[2 * j] = EncodeScalar(rs[j])[2]

(* A further randomizer is encoded after the others.                       *)
LEMMA OneCodeMore ==
    ASSUME NEW n \in Nat, NEW rs, rs[n + 1] \in Scalars,
           NEW codes, n = 0 => codes = << >>, AreCodes(n, rs, codes)
    PROVE  AreCodes(n + 1, rs, codes \o EncodeScalar(rs[n + 1]))
<1> DEFINE code == EncodeScalar(rs[n + 1])
           more == codes \o code
<1>1. code \in Seq(Scalars) /\ Len(code) = 2
  <2>1. code \in [1..2 -> Scalars]
    BY EncodeScalarIs
  <2> HIDE DEF code
  <2>2. code \in Seq(Scalars)
    BY <2>1, SeqDef
  <2> QED
    BY <2>1, <2>2, LenProperties
<1>2. codes \in Seq(Scalars) /\ Len(codes) = 2 * n
  BY DEF AreCodes
<1> HIDE DEF code
<1>3. /\ more \in Seq(Scalars) /\ Len(more) = 2 * n + 2
      /\ \A i \in 1..(2 * n + 2) : more[i] = IF i <= 2 * n THEN codes[i] ELSE code[i - 2 * n]
  <2>1. /\ more \in Seq(Scalars) /\ Len(more) = Len(codes) + Len(code)
        /\ \A i \in 1..(Len(codes) + Len(code)) :
              more[i] = IF i <= Len(codes) THEN codes[i] ELSE code[i - Len(codes)]
    <3>1. codes \in Seq(Scalars) /\ code \in Seq(Scalars)
      BY <1>1, <1>2
    <3> QED
      BY <3>1, ConcatProperties
  <2> HIDE DEF more
  <2> QED
    BY <1>1, <1>2, <2>1
<1> HIDE DEF more
<1>4. ASSUME NEW j \in 1..(n + 1)
      PROVE  /\ more[2 * j - 1] = EncodeScalar(rs[j])[1]
             /\ more[2 * j] = EncodeScalar(rs[j])[2]
  <2>1. 2 * j - 1 \in 1..(2 * n + 2) /\ 2 * j \in 1..(2 * n + 2)
    OBVIOUS
  <2>2. CASE j = n + 1
    <3>1. /\ ~(2 * j - 1 <= 2 * n) /\ ~(2 * j <= 2 * n)
          /\ (2 * j - 1) - 2 * n = 1 /\ 2 * j - 2 * n = 2
      BY <2>2
    <3> QED
      BY <1>3, <2>1, <2>2, <3>1 DEF code
  <2>3. CASE j # n + 1
    <3>1. j \in 1..n /\ 2 * j - 1 <= 2 * n /\ 2 * j <= 2 * n
      BY <2>3
    <3> QED
      BY <1>3, <2>1, <3>1 DEF AreCodes
  <2> QED
    BY <2>2, <2>3
<1>5. 2 * (n + 1) = 2 * n + 2
  OBVIOUS
<1> QED
  BY <1>3, <1>4, <1>5 DEF AreCodes, more, code

(* The randomizers of a ballot are encoded one after the other.            *)
LEMMA CodesAre ==
    ASSUME NEW n \in Nat \ {0}, NEW rs \in [1..n -> Scalars]
    PROVE  AreCodes(n, rs, FlattenSeq([i \in 1..n |-> EncodeScalar(rs[i])]))
<1> DEFINE seqs == [i \in 1..n |-> EncodeScalar(rs[i])]
<1>1. DOMAIN seqs = 1..n /\ Len(seqs) = n
  <2>1. \A i \in 1..n : EncodeScalar(rs[i]) \in [1..2 -> Scalars]
    BY EncodeScalarIs
  <2>2. seqs \in [1..n -> [1..2 -> Scalars]]
    BY <2>1
  <2> HIDE DEF seqs
  <2>3. seqs \in Seq([1..2 -> Scalars])
    BY <2>2, SeqDef
  <2> QED
    BY <2>2, <2>3, LenProperties
<1>2. PICK parts : /\ parts[1] = seqs[1]
                   /\ \A i \in 2..n : parts[i] = parts[i - 1] \o seqs[i]
                   /\ FlattenSeq(seqs) = parts[n]
  <2> HIDE DEF seqs
  <2>1. PICK parts : IsJoining(n, seqs, parts)
    BY <1>1, FlattenIs
  <2> QED
    BY <2>1 DEF IsJoining
<1> DEFINE Good == {i \in Nat : i + 1 <= n => AreCodes(i + 1, rs, parts[i + 1])}
<1>3. 0 \in Good
  <2>1. 1 \in 1..n /\ 0 + 1 = 1
    OBVIOUS
  <2>2. AreCodes(0, rs, << >>)
    BY EmptySeq DEF AreCodes
  <2>3. AreCodes(1, rs, << >> \o EncodeScalar(rs[1]))
    BY <2>1, <2>2, OneCodeMore
  <2>4. EncodeScalar(rs[1]) \in [1..2 -> Scalars]
    BY <2>1, EncodeScalarIs
  <2>5. << >> \o EncodeScalar(rs[1]) = EncodeScalar(rs[1])
    BY <2>4, SeqDef, ConcatEmptySeq
  <2> QED
    BY <1>2, <2>1, <2>3, <2>5
<1>4. ASSUME NEW i \in Nat, i \in Good PROVE i + 1 \in Good
  <2> SUFFICES ASSUME (i + 1) + 1 <= n PROVE AreCodes((i + 1) + 1, rs, parts[(i + 1) + 1])
    OBVIOUS
  <2>1. /\ (i + 1) + 1 \in 2..n /\ ((i + 1) + 1) - 1 = i + 1 /\ i + 1 <= n
        /\ (i + 1) + 1 \in 1..n /\ i + 1 \in Nat /\ i + 1 # 0
    OBVIOUS
  <2>2. AreCodes(i + 1, rs, parts[i + 1]) /\ rs[(i + 1) + 1] \in Scalars
    BY <1>4, <2>1
  <2>3. parts[(i + 1) + 1] = parts[i + 1] \o EncodeScalar(rs[(i + 1) + 1])
    BY <1>2, <2>1
  <2> QED
    BY <2>1, <2>2, <2>3, OneCodeMore
<1> HIDE DEF Good
<1>5. \A i \in Nat : i \in Good
  BY <1>3, <1>4, Induction
<1>6. n - 1 \in Nat /\ (n - 1) + 1 = n
  OBVIOUS
<1>7. n - 1 \in Good
  BY <1>5, <1>6
<1>8. AreCodes((n - 1) + 1, rs, parts[(n - 1) + 1])
  BY <1>6, <1>7 DEF Good
<1> HIDE DEF seqs
<1> QED
  BY <1>2, <1>6, <1>8 DEF seqs

(* A ciphertext with the proof made for it decrypts (naoryung::decrypt).   *)
LEMMA NYDecryptIs ==
    ASSUME NEW n \in Nat, NEW sk \in Scalars,
           NEW pk, pk.pk_b = Exp(generator, sk), pk.pk_a \in Scalars,
           NEW message \in [1..n -> Scalars], NEW r \in [1..n -> Scalars],
           NEW a_prime \in [1..n -> Scalars], NEW context \in Seq(Int)
    PROVE  IsOnly(message, NYDecrypt(pk, sk,
              NYEncryptWithR(pk, message, r, context, a_prime), context))
<1>1. pk.pk_b \in Scalars
  BY PowerOfGenerator
<1>2. IsOnly(EGEncrypt(pk.pk_b, message, r),
             Strip(pk, NYEncryptWithR(pk, message, r, context, a_prime), context))
  BY <1>1, StripIs
<1>3. EGDecrypt(sk, EGEncrypt(Exp(generator, sk), message, r)) = message
  BY EGDecryptIs
<1> QED
  BY <1>2, <1>3 DEF NYDecrypt, IsOnly

(* The check application decrypts the randomizers it was sent              *)
(* (encrypt_randomizers, decrypt_randomizers).                             *)
LEMMA RandomizersAreDecrypted ==
    ASSUME NEW n \in Nat \ {0}, NEW rs \in [1..n -> Scalars], NEW sk \in Scalars,
           NEW pk, pk.pk_b = Exp(generator, sk), pk.pk_a \in Scalars,
           NEW context \in Seq(Int), NEW place \in Seq(Int)
    PROVE  IsOnly(rs, DecryptRandomizers(EncryptRandomizers(rs, pk, context, place),
                                         pk, sk, context))
<1> DEFINE elements == FlattenSeq([i \in 1..n |-> EncodeScalar(rs[i])])
           width == Len(elements)
           r == RandomScalars(width, Append(place, 0))
           a_prime == RandomScalars(width, Append(place, 1))
           c == EncryptRandomizers(rs, pk, context, place)
           decoded(m) ==
               [i \in 1..(Len(m) \div 2) |-> DecodeScalar(<<m[2 * i - 1], m[2 * i]>>)]
<1>1. AreCodes(n, rs, elements)
  BY CodesAre
<1>2. c = NYEncryptWithR(pk, elements, r, context, a_prime)
  <2>1. DOMAIN rs = 1..n
    OBVIOUS
  <2> QED
    BY <2>1 DEF EncryptRandomizers
<1> HIDE DEF elements
<1>3. /\ elements \in [1..width -> Scalars] /\ width \in Nat /\ width = 2 * n
      /\ Append(place, 0) \in Seq(Int) /\ Append(place, 1) \in Seq(Int)
  BY <1>1, LenProperties DEF AreCodes
<1>4. r \in [1..width -> Scalars] /\ a_prime \in [1..width -> Scalars]
  BY <1>3, RandomIs
<1> HIDE DEF r, a_prime, width, c
<1>6. IsOnly(elements, NYDecrypt(pk, sk,
                NYEncryptWithR(pk, elements, r, context, a_prime), context))
  BY <1>3, <1>4, NYDecryptIs
<1>7. NYDecrypt(pk, sk, c, context) = {elements}
  BY <1>2, <1>6 DEF IsOnly
<1>8. decoded(elements) = [i \in 1..n |-> {rs[i]}]
  <2>1. Len(elements) \div 2 = n
    BY <1>1 DEF AreCodes
  <2>2. \A i \in 1..n : DecodeScalar(<<elements[2 * i - 1], elements[2 * i]>>) = {rs[i]}
    BY <1>1, EncodeScalarIs DEF AreCodes
  <2> QED
    BY <2>1, <2>2
<1> DEFINE chosen(d) == [i \in DOMAIN d |-> CHOOSE s \in d[i] : TRUE]
           only == [i \in 1..n |-> {rs[i]}]
<1>9. DecryptRandomizers(c, pk, sk, context)
         = {chosen(d) :
               d \in {d \in {decoded(m) : m \in NYDecrypt(pk, sk, c, context)} :
                          \A i \in DOMAIN d : d[i] # {}}}
  BY Zenon DEF DecryptRandomizers
<1> HIDE DEF decoded
<1>10. {d \in {decoded(m) : m \in NYDecrypt(pk, sk, c, context)} : \A i \in DOMAIN d : d[i] # {}}
          = {only}
  <2>1. {decoded(m) : m \in NYDecrypt(pk, sk, c, context)} = {only}
    <3>1. {decoded(m) : m \in NYDecrypt(pk, sk, c, context)} = {decoded(elements)}
      BY <1>7
    <3> QED
      BY <1>8, <3>1 DEF only
  <2>2. \A i \in DOMAIN only : only[i] # {}
    OBVIOUS
  <2> HIDE DEF only
  <2> QED
    BY <2>1, <2>2
<1>11. chosen(only) = rs
  <2>1. \A i \in 1..n : (CHOOSE s \in only[i] : TRUE) = rs[i]
    OBVIOUS
  <2> QED
    BY <2>1
<1> HIDE DEF only, chosen
<1>12. DecryptRandomizers(c, pk, sk, context) = {chosen(only)}
  BY <1>9, <1>10
<1> QED
  BY <1>11, <1>12 DEF IsOnly, c

-------------------------------------------------------------------------------
(* Weighted sums of vectors, which are products of powers of arrays.       *)

Vectors(m) == [1..m -> Scalars]
Weighted(n, us, es, w) == [i \in 1..n |-> Times(us[i][w], es[i])]
WeightedSum(n, m, us, es) == [w \in 1..m |-> SumOf(Weighted(n, us, es, w))]

(* A column of vectors, weighted, is a list of scalars.                    *)
LEMMA WeightedIs ==
    ASSUME NEW n \in Nat, NEW m \in Nat, NEW us \in [1..n -> Vectors(m)],
           NEW es \in [1..n -> Scalars], NEW w \in 1..m
    PROVE  /\ Weighted(n, us, es, w) \in [1..n -> Scalars]
           /\ SumOf(Weighted(n, us, es, w)) \in Scalars
<1>1. \A i \in 1..n : us[i][w] \in Scalars /\ es[i] \in Scalars
  BY DEF Vectors
<1>2. \A i \in 1..n : Times(us[i][w], es[i]) \in Scalars
  BY <1>1, Closed
<1>3. Weighted(n, us, es, w) \in [1..n -> Scalars]
  BY <1>2 DEF Weighted
<1> QED
  BY <1>3, SumsAreScalars

(* The partial results of adding up powers.                                *)
AddsUp(n, m, us, es, f) ==
    /\ f[0] = [w \in 1..m |-> 0]
    /\ \A i \in 1..n : f[i] = AddEach(f[i - 1], DistExp(us[i], es[i]))

(* Weighted vectors added up one by one give the weighted sum.             *)
LEMMA AddedUp ==
    ASSUME NEW n \in Nat, NEW m \in Nat, NEW us \in [1..n -> Vectors(m)],
           NEW es \in [1..n -> Scalars], NEW f, AddsUp(n, m, us, es, f)
    PROVE  f[n] = WeightedSum(n, m, us, es)
<1> DEFINE Good == {i \in Nat : i <= n => f[i] = WeightedSum(i, m, us, es)}
<1>1. 0 \in Good
  <2>1. \A w \in 1..m : SumOf(Weighted(0, us, es, w)) = 0
    <3> TAKE w \in 1..m
    <3>1. DOMAIN Weighted(0, us, es, w) = 1..0
      BY DEF Weighted
    <3>2. Total("sum", Weighted(0, us, es, w)) = 0
      BY <3>1, TotalOfNone DEF Unit, Kinds
    <3> QED
      BY <3>2 DEF Total
  <2>2. WeightedSum(0, m, us, es) = [w \in 1..m |-> 0]
    BY <2>1 DEF WeightedSum
  <2> QED
    BY <2>2 DEF AddsUp
<1>2. ASSUME NEW i \in Nat, i \in Good PROVE i + 1 \in Good
  <2> SUFFICES ASSUME i + 1 <= n PROVE f[i + 1] = WeightedSum(i + 1, m, us, es)
    OBVIOUS
  <2>1. i + 1 \in 1..n /\ (i + 1) - 1 = i /\ i <= n /\ 1..(i + 1) \subseteq 1..n
    OBVIOUS
  <2> DEFINE vs == [j \in 1..(i + 1) |-> us[j]]
             ds == [j \in 1..(i + 1) |-> es[j]]
             u == us[i + 1]
             e == es[i + 1]
  <2>2. vs \in [1..(i + 1) -> Vectors(m)] /\ ds \in [1..(i + 1) -> Scalars]
    BY <2>1
  <2>3. \A w \in 1..m : Weighted(i + 1, us, es, w) = Weighted(i + 1, vs, ds, w)
    BY DEF Weighted
  <2>4. ASSUME NEW w \in 1..m
        PROVE  SumOf(Weighted(i + 1, us, es, w))
                  = Add(SumOf(Weighted(i, us, es, w)), Times(u[w], e))
    <3> DEFINE x == Weighted(i + 1, us, es, w)
    <3>1. x \in [1..(i + 1) -> Scalars]
      <4>1. i + 1 \in Nat
        OBVIOUS
      <4> HIDE DEF vs, ds
      <4>2. Weighted(i + 1, vs, ds, w) \in [1..(i + 1) -> Scalars]
        BY <2>2, <4>1, WeightedIs
      <4> QED
        BY <2>3, <4>2
    <3>2. Shorter(i, x) = Weighted(i, us, es, w) /\ x[i + 1] = Times(u[w], e)
      BY DEF Shorter, Weighted
    <3> HIDE DEF x
    <3>3. Total("sum", x) = Joined("sum", Total("sum", Shorter(i, x)), x[i + 1])
      BY <3>1, TotalOfMore DEF Kinds
    <3> QED
      BY <3>2, <3>3 DEF Total, Joined, x
  <2>5. f[i + 1] = AddEach(WeightedSum(i, m, us, es), DistExp(u, e))
    BY <1>2, <2>1 DEF AddsUp
  <2>6. AddEach(WeightedSum(i, m, us, es), DistExp(u, e))
           = [w \in 1..m |-> Add(SumOf(Weighted(i, us, es, w)), Times(u[w], e))]
    <3>1. DOMAIN u = 1..m
      BY <2>1 DEF Vectors
    <3> HIDE DEF u, e
    <3> QED
      BY <3>1 DEF AddEach, WeightedSum, DistExp, Exp
  <2> QED
    BY <2>4, <2>5, <2>6 DEF WeightedSum
<1> HIDE DEF Good
<1>3. \A i \in Nat : i \in Good
  BY <1>1, <1>2, Induction
<1> QED
  BY <1>3 DEF Good

(* A fold of lists adds them up.                                           *)
VectorSum(m, rows) == FoldLeft(AddEach, [w \in 1..m |-> 0], rows)

AddsRows(n, m, rows, f) ==
    /\ f[0] = [w \in 1..m |-> 0]
    /\ \A i \in 1..n : f[i] = AddEach(f[i - 1], rows[i])
    /\ VectorSum(m, rows) = f[n]

(* Vectors have partial sums.                                              *)
LEMMA PartialVectors ==
    ASSUME NEW n \in Nat, NEW m \in Nat, NEW rows, DOMAIN rows = 1..n
    PROVE  \E f : AddsRows(n, m, rows, f)
<1> DEFINE base == [w \in 1..m |-> 0]
           Step(f, S) == IF S = {} THEN base ELSE AddEach(f[S \ {Max(S)}], rows[Max(S)])
           F == CHOOSE f : f = [S \in SUBSET (1..n) |-> Step(f, S)]
<1>1. \A f, S : FoldStep("vectors", base, rows, f, S) = Step(f, S)
  BY DEF FoldStep, Combined
<1>2. VectorSum(m, rows) = F[1..n]
  BY DEF VectorSum, FoldLeft, MapThenFoldSet
<1> HIDE DEF Step, base
<1>3. \E f : f = [S \in SUBSET (1..n) |-> Step(f, S)]
  <2>1. PICK f : IsFold("vectors", base, rows, n, f)
    BY FoldsExist
  <2> QED
    BY <1>1, <2>1 DEF IsFold
<1>4. F = [S \in SUBSET (1..n) |-> Step(F, S)]
  BY <1>3, Zenon
<1> HIDE DEF F
<1>5. IsFold("vectors", base, rows, n, F)
  BY <1>1, <1>4 DEF IsFold
<1>6. HasParts("vectors", base, rows, n, F[1..n])
  BY <1>5, FoldHasParts
<1>7. \E f : /\ f[0] = base
             /\ \A i \in 1..n : f[i] = AddEach(f[i - 1], rows[i])
             /\ VectorSum(m, rows) = f[n]
  BY <1>2, <1>6 DEF HasParts, Combined
<1> QED
  BY <1>7 DEF base, AddsRows

(* Multiples of vectors, folded, give the weighted sum.                    *)
LEMMA VectorSumIs ==
    ASSUME NEW n \in Nat, NEW m \in Nat, NEW us \in [1..n -> Vectors(m)],
           NEW es \in [1..n -> Scalars]
    PROVE  VectorSum(m, [i \in 1..n |-> DistExp(us[i], es[i])]) = WeightedSum(n, m, us, es)
<1> DEFINE rows == [i \in 1..n |-> DistExp(us[i], es[i])]
<1>1. DOMAIN rows = 1..n /\ \A i \in 1..n : rows[i] = DistExp(us[i], es[i])
  OBVIOUS
<1> HIDE DEF rows
<1>2. PICK f : AddsRows(n, m, rows, f)
  BY <1>1, PartialVectors
<1>3. AddsUp(n, m, us, es, f)
  BY <1>1, <1>2 DEF AddsUp, AddsRows
<1>4. f[n] = WeightedSum(n, m, us, es)
  BY <1>3, AddedUp
<1> QED
  BY <1>2, <1>4 DEF rows, AddsRows

(* ElGamal ciphertexts of ballots, and products of their powers.           *)
Ciphertexts == [u : Vectors(BallotWidth), v : Vectors(BallotWidth)]
Unencrypted == [u |-> [i \in 1..BallotWidth |-> one], v |-> [i \in 1..BallotWidth |-> one]]

Multiplies(n, cs, es, f) ==
    /\ f[0] = Unencrypted
    /\ \A i \in 1..n : f[i] = CiphertextMul(f[i - 1], CiphertextExp(cs[i], es[i]))
    /\ CiphertextProduct(cs, es) = f[n]

(* Powers of ciphertexts have partial products.                            *)
LEMMA PartialCiphertexts ==
    ASSUME NEW n \in Nat, NEW cs, DOMAIN cs = 1..n, NEW es
    PROVE  \E f : Multiplies(n, cs, es, f)
<1> DEFINE rows == [i \in 1..n |-> CiphertextExp(cs[i], es[i])]
           Step(f, S) ==
               IF S = {} THEN Unencrypted ELSE CiphertextMul(f[S \ {Max(S)}], rows[Max(S)])
           F == CHOOSE f : f = [S \in SUBSET (1..n) |-> Step(f, S)]
<1>1. \A f, S : FoldStep("ciphertexts", Unencrypted, rows, f, S) = Step(f, S)
  BY DEF FoldStep, Combined
<1>2. CiphertextProduct(cs, es) = F[1..n]
  BY DEF CiphertextProduct, FoldLeft, MapThenFoldSet, Unencrypted
<1>8. \A i \in 1..n : rows[i] = CiphertextExp(cs[i], es[i])
  OBVIOUS
<1> HIDE DEF Step, rows
<1>3. \E f : f = [S \in SUBSET (1..n) |-> Step(f, S)]
  <2>1. PICK f : IsFold("ciphertexts", Unencrypted, rows, n, f)
    BY FoldsExist
  <2> QED
    BY <1>1, <2>1 DEF IsFold
<1>4. F = [S \in SUBSET (1..n) |-> Step(F, S)]
  BY <1>3, Zenon
<1> HIDE DEF F
<1>5. IsFold("ciphertexts", Unencrypted, rows, n, F)
  BY <1>1, <1>4 DEF IsFold
<1>6. HasParts("ciphertexts", Unencrypted, rows, n, F[1..n])
  BY <1>5, FoldHasParts
<1>7. PICK f : /\ f[0] = Unencrypted
               /\ \A i \in 1..n : f[i] = CiphertextMul(f[i - 1], rows[i])
               /\ CiphertextProduct(cs, es) = f[n]
  BY <1>2, <1>6 DEF HasParts, Combined
<1> QED
  BY <1>7, <1>8 DEF Multiplies

UsOf(n, cs) == [i \in 1..n |-> cs[i].u]
VsOf(n, cs) == [i \in 1..n |-> cs[i].v]

(* A product of powers of ciphertexts is a weighted sum in both of its     *)
(* parts.                                                                  *)
LEMMA CiphertextProductIs ==
    ASSUME NEW n \in Nat, NEW cs \in [1..n -> Ciphertexts], NEW es \in [1..n -> Scalars]
    PROVE  CiphertextProduct(cs, es)
              = [u |-> WeightedSum(n, BallotWidth, UsOf(n, cs), es),
                 v |-> WeightedSum(n, BallotWidth, VsOf(n, cs), es)]
<1> DEFINE W == BallotWidth
<1>11. DOMAIN cs = 1..n
  OBVIOUS
<1>12. PICK f : Multiplies(n, cs, es, f)
  BY <1>11, PartialCiphertexts
<1>1. /\ f[0] = Unencrypted
      /\ \A i \in 1..n : f[i] = CiphertextMul(f[i - 1], CiphertextExp(cs[i], es[i]))
      /\ CiphertextProduct(cs, es) = f[n]
  BY <1>12 DEF Multiplies
<1> DEFINE fu == [i \in 0..n |-> f[i].u]
           fv == [i \in 0..n |-> f[i].v]
<1>2. W \in Nat
  BY BallotAssumption
<1>3. UsOf(n, cs) \in [1..n -> Vectors(W)] /\ VsOf(n, cs) \in [1..n -> Vectors(W)]
  BY DEF UsOf, VsOf, Ciphertexts
<1>4. \A i \in 1..n :
          /\ i \in 0..n /\ i - 1 \in 0..n
          /\ f[i] = [u |-> MulEach(f[i - 1].u, DistExp(cs[i].u, es[i])),
                     v |-> MulEach(f[i - 1].v, DistExp(cs[i].v, es[i]))]
  BY <1>1 DEF CiphertextMul, CiphertextExp
<1>5. \A xs, ys : MulEach(xs, ys) = AddEach(xs, ys)
  BY DEF MulEach, AddEach, Mul
<1>6. 0 \in 0..n /\ n \in 0..n
  OBVIOUS
<1>7. \A i \in 0..n : fu[i] = f[i].u /\ fv[i] = f[i].v
  OBVIOUS
<1>8. \A i \in 1..n : /\ UsOf(n, cs)[i] = cs[i].u /\ VsOf(n, cs)[i] = cs[i].v
                      /\ fu[i] = MulEach(fu[i - 1], DistExp(cs[i].u, es[i]))
                      /\ fv[i] = MulEach(fv[i - 1], DistExp(cs[i].v, es[i]))
  <2> TAKE i \in 1..n
  <2>1. UsOf(n, cs)[i] = cs[i].u /\ VsOf(n, cs)[i] = cs[i].v
    BY DEF UsOf, VsOf
  <2>2. /\ f[i].u = MulEach(f[i - 1].u, DistExp(cs[i].u, es[i]))
        /\ f[i].v = MulEach(f[i - 1].v, DistExp(cs[i].v, es[i]))
    <3> DEFINE p == MulEach(f[i - 1].u, DistExp(cs[i].u, es[i]))
               q == MulEach(f[i - 1].v, DistExp(cs[i].v, es[i]))
    <3>1. f[i] = [u |-> p, v |-> q]
      BY <1>4
    <3> HIDE DEF p, q
    <3>2. f[i].u = p /\ f[i].v = q
      BY <3>1
    <3> QED
      BY <3>2 DEF p, q
  <2>3. fu[i] = f[i].u /\ fv[i] = f[i].v /\ fu[i - 1] = f[i - 1].u /\ fv[i - 1] = f[i - 1].v
    <3>1. i \in 0..n /\ i - 1 \in 0..n
      OBVIOUS
    <3> HIDE DEF fu, fv
    <3> QED
      BY <1>7, <3>1
  <2> HIDE DEF fu, fv
  <2> QED
    BY <2>1, <2>2, <2>3
<1>9. f[0] = [u |-> [w \in 1..W |-> 0], v |-> [w \in 1..W |-> 0]]
  BY <1>1 DEF Unencrypted, one
<1>10. fu[0] = [w \in 1..W |-> 0] /\ fv[0] = [w \in 1..W |-> 0]
  <2> DEFINE zeros == [w \in 1..W |-> 0]
  <2>1. f[0] = [u |-> zeros, v |-> zeros]
    BY <1>9
  <2> HIDE DEF zeros
  <2>2. f[0].u = zeros /\ f[0].v = zeros
    BY <2>1
  <2> HIDE DEF fu, fv
  <2>3. fu[0] = zeros /\ fv[0] = zeros
    BY <1>6, <1>7, <2>2
  <2> QED
    BY <2>3 DEF zeros
<1>16. \E us, vs : f[n] = [u |-> us, v |-> vs]
  <2>1. CASE n = 0
    BY <1>9, <2>1
  <2>2. CASE n # 0
    <3>1. n \in 1..n
      BY <2>2
    <3>2. f[n] = [u |-> MulEach(f[n - 1].u, DistExp(cs[n].u, es[n])),
                  v |-> MulEach(f[n - 1].v, DistExp(cs[n].v, es[n]))]
      BY <1>4, <3>1
    <3> QED
      BY <3>2, Zenon
  <2> QED
    BY <2>1, <2>2
<1> HIDE DEF fu, fv, W
<1>13. AddsUp(n, W, UsOf(n, cs), es, fu) /\ AddsUp(n, W, VsOf(n, cs), es, fv)
  BY <1>5, <1>8, <1>10 DEF AddsUp
<1>14. fu[n] = WeightedSum(n, W, UsOf(n, cs), es) /\ fv[n] = WeightedSum(n, W, VsOf(n, cs), es)
  BY <1>2, <1>3, <1>13, AddedUp
<1>15. f[n] = [u |-> fu[n], v |-> fv[n]]
  <2>1. fu[n] = f[n].u /\ fv[n] = f[n].v
    BY <1>6, <1>7
  <2> QED
    BY <1>16, <2>1
<1> QED
  BY <1>1, <1>14, <1>15 DEF W

-------------------------------------------------------------------------------
(* Sums of products.                                                       *)

Products(n, xs, es) == [i \in 1..n |-> Times(xs[i], es[i])]
Dot(n, xs, es) == SumOf(Products(n, xs, es))

(* The products, and their sum, are scalars.                               *)
LEMMA DotIs ==
    ASSUME NEW n \in Nat, NEW xs \in Vectors(n), NEW es \in Vectors(n)
    PROVE  Products(n, xs, es) \in Vectors(n) /\ Dot(n, xs, es) \in Scalars
<1>1. \A i \in 1..n : xs[i] \in Scalars /\ es[i] \in Scalars
  BY DEF Vectors
<1>2. \A i \in 1..n : Times(xs[i], es[i]) \in Scalars
  BY <1>1, Closed
<1>3. Products(n, xs, es) \in [1..n -> Scalars]
  BY <1>2 DEF Products
<1> QED
  BY <1>3, SumsAreScalars DEF Vectors, Dot

(* Two sums add up term by term.                                           *)
LEMMA SumSplits ==
    ASSUME NEW n \in Nat, NEW ps \in Vectors(n), NEW qs \in Vectors(n), NEW rs,
           rs = [i \in 1..n |-> Add(ps[i], qs[i])]
    PROVE  SumOf(rs) = Add(SumOf(ps), SumOf(qs))
<1> QED
  BY SumOfSums DEF Vectors

(* A multiple of a sum is one of every term.                               *)
LEMMA SumScales ==
    ASSUME NEW n \in Nat, NEW ps \in Vectors(n), NEW k \in Scalars, NEW rs,
           rs = [i \in 1..n |-> Times(k, ps[i])]
    PROVE  SumOf(rs) = Times(k, SumOf(ps))
<1> QED
  BY SumOfMultiples DEF Vectors

(* A sum of vectors counts like its terms.                                 *)
LEMMA DotOfSums ==
    ASSUME NEW n \in Nat, NEW xs \in Vectors(n), NEW zs \in Vectors(n), NEW es \in Vectors(n)
    PROVE  Dot(n, [i \in 1..n |-> Add(xs[i], zs[i])], es) = Add(Dot(n, xs, es), Dot(n, zs, es))
<1> DEFINE ps == Products(n, xs, es)
           qs == Products(n, zs, es)
           rs == Products(n, [i \in 1..n |-> Add(xs[i], zs[i])], es)
<1>1. ps \in Vectors(n) /\ qs \in Vectors(n)
  BY DotIs
<1>2. \A i \in 1..n : Times(Add(xs[i], zs[i]), es[i])
                         = Add(Times(xs[i], es[i]), Times(zs[i], es[i]))
  BY Distributes DEF Vectors
<1>3. rs = [i \in 1..n |-> Add(ps[i], qs[i])]
  BY <1>2 DEF Products
<1> HIDE DEF ps, qs, rs
<1>4. SumOf(rs) = Add(SumOf(ps), SumOf(qs))
  BY <1>1, <1>3, SumSplits
<1> QED
  BY <1>4 DEF ps, qs, rs, Dot

(* A sum weighted with responses, from the challenges and the blinding     *)
(* factors.                                                                *)
LEMMA DotOfResponses ==
    ASSUME NEW n \in Nat, NEW xs \in Vectors(n), NEW es \in Vectors(n), NEW ds \in Vectors(n),
           NEW v \in Scalars
    PROVE  Dot(n, xs, AddEach(TimesAll(v, es), ds))
              = Add(Times(v, Dot(n, xs, es)), Dot(n, xs, ds))
<1> DEFINE ps == Products(n, xs, es)
           vs == [i \in 1..n |-> Times(v, ps[i])]
           qs == Products(n, xs, ds)
           rs == Products(n, xs, AddEach(TimesAll(v, es), ds))
<1>1. ps \in Vectors(n) /\ qs \in Vectors(n)
  BY DotIs
<1>2. vs \in Vectors(n)
  <2> HIDE DEF ps
  <2>1. \A i \in 1..n : Times(v, ps[i]) \in Scalars
    BY <1>1, Closed DEF Vectors
  <2> QED
    BY <2>1 DEF Vectors
<1>3. \A i \in 1..n : Times(xs[i], Add(Times(v, es[i]), ds[i]))
                         = Add(Times(v, Times(xs[i], es[i])), Times(xs[i], ds[i]))
  <2> TAKE i \in 1..n
  <2> DEFINE x == xs[i]
             e == es[i]
             d == ds[i]
  <2>1. x \in Scalars /\ e \in Scalars /\ d \in Scalars
    BY DEF Vectors
  <2> HIDE DEF x, e, d
  <2>2. Times(v, e) \in Scalars
    BY <2>1, Closed
  <2>3. Times(x, Add(Times(v, e), d)) = Add(Times(x, Times(v, e)), Times(x, d))
    BY <2>1, <2>2, Distributes
  <2>4. Times(x, Times(v, e)) = Times(Times(x, v), e)
    BY <2>1, TimesAssociates
  <2>5. Times(x, v) = Times(v, x)
    BY <2>1, Commutes
  <2>6. Times(Times(v, x), e) = Times(v, Times(x, e))
    BY <2>1, TimesAssociates
  <2> QED
    BY <2>3, <2>4, <2>5, <2>6 DEF x, e, d
<1>4. rs = [i \in 1..n |-> Add(vs[i], qs[i])]
  <2>1. \A i \in 1..n : AddEach(TimesAll(v, es), ds)[i] = Add(Times(v, es[i]), ds[i])
    BY DEF AddEach, TimesAll, Vectors
  <2> QED
    BY <1>3, <2>1 DEF Products
<1>5. SumOf(vs) = Times(v, SumOf(ps))
  <2> HIDE DEF ps
  <2> QED
    BY <1>1, SumScales
<1> HIDE DEF ps, qs, rs, vs
<1>6. SumOf(rs) = Add(SumOf(vs), SumOf(qs))
  BY <1>1, <1>2, <1>4, SumSplits
<1> QED
  BY <1>5, <1>6 DEF ps, qs, rs, Dot

(* A multiple of a vector counts as often.                                 *)
LEMMA DotOfMultiples ==
    ASSUME NEW n \in Nat, NEW xs \in Vectors(n), NEW es \in Vectors(n), NEW k \in Scalars
    PROVE  Dot(n, [i \in 1..n |-> Times(k, xs[i])], es) = Times(k, Dot(n, xs, es))
<1> DEFINE ps == Products(n, xs, es)
           rs == Products(n, [i \in 1..n |-> Times(k, xs[i])], es)
<1>1. ps \in Vectors(n)
  BY DotIs
<1>2. \A i \in 1..n : Times(Times(k, xs[i]), es[i]) = Times(k, Times(xs[i], es[i]))
  BY TimesAssociates DEF Vectors
<1>3. rs = [i \in 1..n |-> Times(k, ps[i])]
  BY <1>2 DEF Products
<1> HIDE DEF ps, rs
<1>4. SumOf(rs) = Times(k, SumOf(ps))
  BY <1>1, <1>3, SumScales
<1> QED
  BY <1>4 DEF ps, rs, Dot

(* The order of vectors and weights, if one, does not matter.              *)
LEMMA DotPermuted ==
    ASSUME NEW n \in Nat, NEW xs \in Vectors(n), NEW es \in Vectors(n),
           NEW p \in PermutationsOf(n)
    PROVE  Dot(n, [i \in 1..n |-> xs[p[i]]], [i \in 1..n |-> es[p[i]]]) = Dot(n, xs, es)
<1> DEFINE ps == Products(n, xs, es)
           rs == Products(n, [i \in 1..n |-> xs[p[i]]], [i \in 1..n |-> es[p[i]]])
<1>1. ps \in [1..n -> Scalars]
  BY DotIs DEF Vectors
<1>2. rs = [i \in 1..n |-> ps[p[i]]]
  BY DEF Products, PermutationsOf
<1> HIDE DEF ps, rs
<1>3. Total("sum", rs) = Total("sum", ps)
  BY <1>1, <1>2, TotalPermuted DEF Kinds
<1> QED
  BY <1>3 DEF ps, rs, Dot, Total

(* An entry of the weighted sum is that of a column.                       *)
LEMMA WeightedSumIs ==
    ASSUME NEW n \in Nat, NEW m \in Nat, NEW us \in [1..n -> Vectors(m)],
           NEW es \in Vectors(n)
    PROVE  /\ WeightedSum(n, m, us, es) \in Vectors(m)
           /\ \A w \in 1..m : /\ Column(n, us, w) \in Vectors(n)
                              /\ WeightedSum(n, m, us, es)[w] = Dot(n, Column(n, us, w), es)
<1>1. ASSUME NEW w \in 1..m
      PROVE  /\ Column(n, us, w) \in Vectors(n)
             /\ SumOf(Weighted(n, us, es, w)) = Dot(n, Column(n, us, w), es)
  <2>1. \A i \in 1..n : us[i][w] \in Scalars
    BY DEF Vectors
  <2>2. Column(n, us, w) \in Vectors(n)
    BY <2>1 DEF Column, Vectors
  <2>3. Weighted(n, us, es, w) = Products(n, Column(n, us, w), es)
    BY DEF Weighted, Products, Column
  <2> QED
    BY <2>2, <2>3 DEF Dot
<1>2. \A w \in 1..m : SumOf(Weighted(n, us, es, w)) \in Scalars
  BY <1>1, DotIs
<1> QED
  BY <1>1, <1>2 DEF WeightedSum, Vectors

-------------------------------------------------------------------------------
(* Decryption.                                                             *)

(* The challenge of the proof is a scalar.                                 *)
LEMMA DlogEqChallengeIs ==
    ASSUME NEW n \in Nat, NEW g0 \in Scalars, NEW g1 \in [1..n -> Scalars],
           NEW y0 \in Scalars, NEW y1 \in [1..n -> Scalars],
           NEW A0 \in Scalars, NEW A1 \in [1..n -> Scalars], NEW context \in Seq(Int)
    PROVE  DlogEqChallenge(g0, g1, y0, y1, A0, A1, context) \in Scalars
<1>1. <<g0>> \in Seq(Int) /\ <<y0>> \in Seq(Int) /\ <<A0>> \in Seq(Int)
  BY ScalarsAreRests
<1>2. g1 \in Seq(Int) /\ y1 \in Seq(Int) /\ A1 \in Seq(Int)
  BY ListsAreInput
<1> DEFINE a == <<g0>> \o g1
           b == a \o <<y0>>
           c == b \o y1
           d == c \o <<A0>>
           e == d \o A1
           f == e \o context
<1>3. a \in Seq(Int)
  BY <1>1, <1>2, JoinedInput
<1> HIDE DEF a
<1>4. b \in Seq(Int)
  BY <1>1, <1>3, JoinedInput
<1> HIDE DEF b
<1>5. c \in Seq(Int)
  BY <1>2, <1>4, JoinedInput
<1> HIDE DEF c
<1>6. d \in Seq(Int)
  BY <1>1, <1>5, JoinedInput
<1> HIDE DEF d
<1>7. e \in Seq(Int)
  BY <1>2, <1>6, JoinedInput
<1> HIDE DEF e
<1>8. f \in Seq(Int)
  BY <1>7, JoinedInput
<1> HIDE DEF f
<1>9. HashToScalar(f) \in Scalars
  BY <1>8, HashIs
<1> QED
  BY <1>9 DEF DlogEqChallenge, f, e, d, c, b, a

(* The proof that two logarithms are equal verifies (dlogeq::prove,        *)
(* verify).                                                                *)
LEMMA LogarithmsProved ==
    ASSUME NEW n \in Nat, NEW x \in Scalars, NEW g1 \in [1..n -> Scalars], NEW a \in Scalars,
           NEW context \in Seq(Int)
    PROVE  LET y0 == Exp(generator, x)
               y1 == DistExp(g1, x)
           IN  DlogEqVerify(DlogEqProve(x, generator, y0, g1, y1, context, a),
                            generator, y0, g1, y1, context)
<1> DEFINE y0 == Exp(generator, x)
           y1 == DistExp(g1, x)
           A0 == Exp(generator, a)
           A1 == DistExp(g1, a)
           v == DlogEqChallenge(generator, g1, y0, y1, A0, A1, context)
           k == Add(a, Times(v, x))
           proof == [big_a_0 |-> A0, big_a_1 |-> A1, k |-> k]
<1>1. generator \in Scalars
  BY Closed DEF generator
<1>2. y0 = x /\ A0 = a
  BY PowerOfGenerator
<1>3. y1 \in [1..n -> Scalars] /\ A1 \in [1..n -> Scalars]
  BY VectorsAre
<1>4. v \in Scalars
  <2> HIDE DEF y0, y1, A0, A1
  <2> QED
    BY <1>1, <1>2, <1>3, DlogEqChallengeIs
<1>5. \A g \in Scalars : Add(Times(Times(g, x), v), Times(g, a)) = Times(g, k)
  <2> HIDE DEF v
  <2> SUFFICES ASSUME NEW g \in Scalars
               PROVE  Add(Times(Times(g, x), v), Times(g, a)) = Times(g, k)
    OBVIOUS
  <2>1. Times(g, Add(Times(v, x), a)) = Add(Times(Times(g, x), v), Times(g, a))
    BY <1>4, Responds
  <2>2. Times(v, x) \in Scalars
    BY <1>4, Closed
  <2>3. Add(Times(v, x), a) = k
    BY <2>2, Commutes
  <2> QED
    BY <2>1, <2>3
<1>6. Mul(Exp(y0, v), A0) = Exp(generator, k)
  <2> HIDE DEF v, k
  <2> QED
    BY <1>1, <1>5 DEF Mul, Exp
<1>7. MulEach(DistExp(y1, v), A1) = DistExp(g1, k)
  <2> HIDE DEF v, k
  <2>1. \A i \in 1..n : Add(Times(Times(g1[i], x), v), Times(g1[i], a)) = Times(g1[i], k)
    BY <1>5
  <2> QED
    BY <2>1 DEF MulEach, DistExp, Mul, Exp
<1>8. proof = DlogEqProve(x, generator, y0, g1, y1, context, a)
  BY DEF DlogEqProve
<1>9. DlogEqVerify(proof, generator, y0, g1, y1, context)
  <2>1. proof.big_a_0 = A0 /\ proof.big_a_1 = A1 /\ proof.k = k
    <3> HIDE DEF A0, A1, k
    <3> QED
      OBVIOUS
  <2> HIDE DEF proof, k
  <2> QED
    BY <1>6, <1>7, <2>1 DEF DlogEqVerify
<1> QED
  BY <1>8, <1>9

(* What the trustees hold once the key is generated.                       *)
LEMMA KeysAre ==
    ASSUME KeyInv, KeyGenerated
    PROVE  /\ JointSecret \in Scalars
           /\ ElectionPk.pk_b = JointSecret /\ ElectionPk.pk_a \in Scalars
           /\ \A t \in Positions :
                 /\ recipients[t].sk \in Scalars
                 /\ recipients[t].verification_key = Exp(generator, recipients[t].sk)
                 /\ VerificationKey(t, CheckValues) = Exp(generator, recipients[t].sk)
<1>1. /\ NumTrustees \in Nat /\ Positions = 1..NumTrustees /\ 1 \in Positions
      /\ 1 \in 1..Threshold
  BY DealerIs
<1>2. \A d \in Positions : DealtBy(d) \in [1..Threshold -> Scalars]
  BY PolynomialIs DEF KeyInv
<1>3. JointSecret \in Scalars
  <2> DEFINE firsts == [d \in Positions |-> DealtBy(d)[1]]
  <2>1. firsts \in [1..NumTrustees -> Scalars]
    BY <1>1, <1>2
  <2>2. JointSecret = SumOf(firsts)
    BY DEF JointSecret
  <2> HIDE DEF firsts
  <2> QED
    BY <1>1, <2>1, <2>2, SumsAreScalars
<1>4. recipients[1].joint_pk = JointSecret
  BY <1>1, <1>3, KeyInvAgrees, PowerOfGenerator DEF KeysAgree
<1>5. HashToElement(PkContext(ELECTION)) \in Scalars
  <2>1. <<1>> \o PkContext(ELECTION) \in Seq(Int)
    <3>1. <<1>> \in Seq(Int) /\ <<7, 1>> \in Seq(Int)
      OBVIOUS
    <3> QED
      BY <3>1, JoinedInput DEF PkContext, ELECTION
  <2> QED
    BY <2>1, HashIs DEF HashToElement
<1>6. ASSUME NEW t \in Positions
      PROVE  /\ recipients[t].sk \in Scalars
             /\ VerificationKey(t, CheckValues) = Exp(generator, recipients[t].sk)
             /\ recipients[t].verification_key = VerificationKey(t, CheckValues)
  <2> DEFINE shares == [d \in Positions |-> Eval(DealtBy(d), t)]
  <2>1. \A d \in Positions : Eval(DealtBy(d), t) \in Scalars
    BY <1>2, EvalIs
  <2>2. shares \in [1..NumTrustees -> Scalars]
    BY <1>1, <2>1
  <2>3. recipients[t].sk = SumOf(shares)
    BY SecretKeyIs
  <2> HIDE DEF shares
  <2>4. recipients[t].sk \in Scalars
    BY <1>1, <2>2, <2>3, SumsAreScalars
  <2>5. /\ recipients[t] = Computed(t) /\ Computed(t).ok
    BY DEF KeyInv, RecipientsAreRight, KeyGenerated, Holds
  <2>6. Computed(t).verification_key = VerificationKey(t, CheckValues)
    BY <2>5 DEF Computed, FromShares, Refused
  <2> QED
    BY <2>4, <2>5, <2>6, KeyInvAgrees DEF KeysAgree
<1> QED
  BY <1>3, <1>4, <1>5, <1>6 DEF ElectionPk, Augment

(* The ciphertexts of the messages, under the joint key.                   *)
Encrypted(n, msg, s) == [j \in 1..n |-> EGEncrypt(ElectionPk.pk_b, msg[j], s[j])]

(* A list of ciphertexts, and the exponents in it.                         *)
LEMMA EncryptedIs ==
    ASSUME KeyInv, KeyGenerated, NEW n \in Nat,
           NEW msg \in [1..n -> Vectors(BallotWidth)], NEW s \in [1..n -> Vectors(BallotWidth)]
    PROVE  /\ Encrypted(n, msg, s) \in [1..n -> Ciphertexts]
           /\ DOMAIN Encrypted(n, msg, s) = 1..n /\ Len(Encrypted(n, msg, s)) = n
           /\ \A j \in 1..n :
                 /\ Encrypted(n, msg, s)[j].u = s[j]
                 /\ Encrypted(n, msg, s)[j].v
                       = [w \in 1..BallotWidth |-> Add(msg[j][w], Times(JointSecret, s[j][w]))]
<1> DEFINE W == BallotWidth
           y == ElectionPk.pk_b
           us == [j \in 1..n |-> ReplExp(generator, s[j])]
           vs == [j \in 1..n |-> MulEach(msg[j], ReplExp(y, s[j]))]
<1>1. W \in Nat /\ y \in Scalars /\ y = JointSecret
  BY KeysAre, BallotAssumption
<1>2. \A j \in 1..n : /\ msg[j] \in [1..W -> Scalars] /\ s[j] \in [1..W -> Scalars]
  BY DEF Vectors
<1>3. \A j \in 1..n : /\ us[j] = s[j] /\ us[j] \in Vectors(W)
                      /\ vs[j] = MulEach(msg[j], ReplExp(y, s[j]))
                      /\ vs[j] \in Vectors(W)
  <2> TAKE j \in 1..n
  <2>1. ReplExp(generator, s[j]) = s[j]
    <3>1. generator \in Scalars
      BY <1>1, Closed DEF generator
    <3> HIDE DEF W
    <3> QED
      BY <1>1, <1>2, <3>1, VectorsAre
  <2>2. MulEach(msg[j], ReplExp(y, s[j])) \in [1..W -> Scalars]
    <3>1. ReplExp(y, s[j]) \in [1..W -> Scalars]
      <4> HIDE DEF W, y
      <4> QED
        BY <1>1, <1>2, VectorsAre
    <3> DEFINE z == ReplExp(y, s[j])
    <3> HIDE DEF z, W
    <3>2. z \in [1..W -> Scalars]
      BY <3>1 DEF z
    <3>3. MulEach(msg[j], z) \in [1..W -> Scalars]
      BY <1>1, <1>2, <3>2, VectorsAre
    <3> QED
      BY <3>3 DEF z
  <2> QED
    BY <1>2, <2>1, <2>2 DEF Vectors
<1>4. Encrypted(n, msg, s) = [j \in 1..n |-> [u |-> us[j], v |-> vs[j]]]
  BY DEF Encrypted, EGEncrypt
<1>5. \A j \in 1..n : vs[j] = [w \in 1..W |-> Add(msg[j][w], Times(JointSecret, s[j][w]))]
  <2> TAKE j \in 1..n
  <2>1. vs[j] = MulEach(msg[j], ReplExp(JointSecret, s[j]))
    BY <1>1
  <2>2. DOMAIN msg[j] = 1..W /\ DOMAIN s[j] = 1..W
    BY <1>2
  <2> HIDE DEF vs, W
  <2> QED
    BY <2>1, <2>2 DEF MulEach, ReplExp, Mul, Exp
<1> DEFINE cs == Encrypted(n, msg, s)
<1> HIDE DEF us, vs
<1>6. \A j \in 1..n : /\ cs[j] \in Ciphertexts /\ cs[j].u = us[j] /\ cs[j].v = vs[j]
  BY <1>3, <1>4 DEF Ciphertexts
<1>7. DOMAIN cs = 1..n
  BY <1>4
<1>8. cs \in [1..n -> Ciphertexts]
  <2>1. cs = [j \in 1..n |-> cs[j]]
    BY <1>4
  <2> HIDE DEF cs
  <2> QED
    BY <1>6, <2>1
<1>9. Len(cs) = n
  <2>1. cs = [j \in 1..n |-> cs[j]]
    BY <1>4
  <2> HIDE DEF cs
  <2> QED
    BY <2>1
<1> QED
  BY <1>3, <1>5, <1>6, <1>7, <1>8, <1>9

(* What a trustee gives for the ciphertexts.                               *)
FactorsOf(t, cs) == DecryptionFactor(recipients[t], t, cs, DecryptionContext, <<run, 8, t>>)

(* A trustee's partial decryption, with a proof that verifies by the key   *)
(* that the others compute for it.                                         *)
LEMMA FactorIs ==
    ASSUME KeyInv, KeyGenerated, NEW n \in Nat, NEW cs \in [1..n -> Ciphertexts],
           NEW t \in Positions, NEW j \in 1..n
    PROVE  /\ FactorsOf(t, cs)[j].value = DistExp(cs[j].u, recipients[t].sk)
           /\ FactorsOf(t, cs)[j].source = t
           /\ DlogEqVerify(FactorsOf(t, cs)[j].proof, generator, VerificationKey(t, CheckValues),
                           cs[j].u, FactorsOf(t, cs)[j].value, DecryptionContext)
<1> DEFINE sk == recipients[t].sk
           place == <<run, 8, t>>
           u == cs[j].u
           a == RandomScalar(Append(place, j))
           vk == recipients[t].verification_key
           value == DistExp(u, sk)
           proof == DlogEqProve(sk, generator, vk, u, value, DecryptionContext, a)
<1>1. /\ sk \in Scalars /\ vk = Exp(generator, sk)
      /\ VerificationKey(t, CheckValues) = Exp(generator, sk)
  BY KeysAre
<1>2. u \in [1..BallotWidth -> Scalars] /\ BallotWidth \in Nat
  BY BallotAssumption DEF Ciphertexts, Vectors
<1>3. a \in Scalars
  <2>1. run \in Int /\ t \in Int /\ j \in Int
    BY DealerIs DEF KeyInv, RunIsNumber
  <2>2. Append(place, j) \in Seq(Int)
    BY <2>1
  <2> QED
    BY <2>2, RandomIs
<1>4. DecryptionContext \in Seq(Int)
  BY DEF DecryptionContext, ELECTION
<1>5. FactorsOf(t, cs)[j] = [value |-> value, source |-> t, proof |-> proof]
  BY DEF FactorsOf, DecryptionFactor
<1>6. DlogEqVerify(proof, generator, Exp(generator, sk), u, value, DecryptionContext)
  <2> HIDE DEF sk, u, a
  <2> QED
    BY <1>1, <1>2, <1>3, <1>4, LogarithmsProved
<1> HIDE DEF proof, value, u
<1>7. /\ FactorsOf(t, cs)[j].value = value /\ FactorsOf(t, cs)[j].source = t
      /\ FactorsOf(t, cs)[j].proof = proof
  BY <1>5
<1> QED
  BY <1>1, <1>6, <1>7 DEF value, u

(* All of them, or the first of them.                                      *)
AreFactors(n, t, cs, fs) ==
    /\ Len(fs) \in 0..n
    /\ \A j \in 1..Len(fs) : fs[j] = FactorsOf(t, cs)[j]

(* There are as many plaintexts as the shortest list has factors.          *)
LEMMA CommonIs ==
    ASSUME NEW n \in Nat, NEW cs, Len(cs) = n, NEW dfs, NEW i \in Nat,
           \A k \in 1..i : Len(dfs[k]) \in 0..n
    PROVE  /\ Common(cs, dfs, i) \in 0..n
           /\ \A k \in 1..i : Common(cs, dfs, i) <= Len(dfs[k])
           /\ (\A k \in 1..i : Len(dfs[k]) = n) => Common(cs, dfs, i) = n
<1> DEFINE S == {n} \cup {Len(dfs[k]) : k \in 1..i}
<1>1. S \subseteq 0..n /\ n \in S /\ \A k \in 1..i : Len(dfs[k]) \in S
  OBVIOUS
<1>2. (\A k \in 1..i : Len(dfs[k]) = n) => S = {n}
  OBVIOUS
<1>3. Common(cs, dfs, i) = CHOOSE x \in S : \A y \in S : x <= y
  BY DEF Common, Min
<1> HIDE DEF S
<1>4. S \subseteq Nat /\ S # {}
  BY <1>1
<1>5. \E m \in S : \A k \in S : m <= k
  BY <1>4, LeastExists
<1>6. Common(cs, dfs, i) \in S /\ \A y \in S : Common(cs, dfs, i) <= y
  BY <1>3, <1>5
<1> QED
  BY <1>1, <1>2, <1>6

(* The factors of a quorum, with Lagrange's exponents, multiply to the     *)
(* power by the secret of the joint key.                                   *)
LEMMA DivisorIs ==
    ASSUME KeyInv, KeyGenerated, NEW u \in Vectors(BallotWidth), NEW q \in Quorums, NEW rows,
           rows = [i \in 1..Threshold |->
                      DistExp(DistExp(u, recipients[q[i]].sk), Lagrange(q[i], q))]
    PROVE  FoldLeft(MulEach, [w \in DOMAIN u |-> one], rows)
              = [w \in 1..BallotWidth |-> Times(u[w], JointSecret)]
<1> DEFINE W == BallotWidth
           T == Threshold
           sks == [i \in 1..T |-> recipients[q[i]].sk]
           cofs == [i \in 1..T |-> Lagrange(q[i], q)]
           us == [i \in 1..T |-> DistExp(u, sks[i])]
<1>1. W \in Nat /\ T \in Nat
  BY DealerIs, BallotAssumption
<1>2. q \in [1..T -> Positions] /\ DOMAIN q = 1..T
  BY DEF Quorums
<1>3. sks \in Vectors(T)
  BY <1>2, KeysAre DEF Vectors
<1>4. cofs \in Vectors(T)
  <2>1. \A i \in 1..T : Lagrange(q[i], q) \in Scalars
    BY DealerIs, LagrangeIs, CoefficientIs
  <2> QED
    BY <2>1 DEF Vectors
<1>5. \A i \in 1..T : us[i] \in Vectors(W)
  <2> TAKE i \in 1..T
  <2>1. sks[i] \in Scalars /\ us[i] = DistExp(u, sks[i])
    BY <1>3 DEF Vectors
  <2> HIDE DEF us, sks, W
  <2>2. DistExp(u, sks[i]) \in [1..W -> Scalars]
    BY <1>1, <2>1, VectorsAre DEF Vectors, W
  <2> QED
    BY <2>1, <2>2 DEF Vectors
<1>6. us \in [1..T -> Vectors(W)]
  BY <1>5
<1>7. rows = [i \in 1..T |-> DistExp(us[i], cofs[i])]
  OBVIOUS
<1>8. FoldLeft(MulEach, [w \in DOMAIN u |-> one], rows) = VectorSum(W, rows)
  <2>1. DOMAIN u = 1..W
    BY DEF Vectors
  <2>2. \A xs, ys : MulEach(xs, ys) = AddEach(xs, ys)
    BY DEF MulEach, AddEach, Mul
  <2> HIDE DEF W
  <2> QED
    BY <2>1 DEF VectorSum, FoldLeft, MapThenFoldSet, one, MulEach, AddEach, Mul
<1>9. VectorSum(W, rows) = WeightedSum(T, W, us, cofs)
  <2> HIDE DEF W, T, us, cofs
  <2> QED
    BY <1>1, <1>4, <1>6, <1>7, VectorSumIs DEF Vectors
<1>10. /\ WeightedSum(T, W, us, cofs) \in Vectors(W)
       /\ \A w \in 1..W : WeightedSum(T, W, us, cofs)[w] = Dot(T, Column(T, us, w), cofs)
  <2> HIDE DEF W, T, us, cofs
  <2> QED
    BY <1>1, <1>4, <1>6, WeightedSumIs
<1>11. Dot(T, sks, cofs) = JointSecret
  <2>1. Products(T, sks, cofs)
           = [i \in DOMAIN q |-> Times(recipients[q[i]].sk, Lagrange(q[i], q))]
    BY <1>2 DEF Products
  <2> HIDE DEF T, sks, cofs
  <2> QED
    BY <2>1, KeyInvInterpolates DEF Dot, SecretsInterpolate
<1>12. ASSUME NEW w \in 1..W
       PROVE  Dot(T, Column(T, us, w), cofs) = Times(u[w], JointSecret)
  <2>1. u[w] \in Scalars
    BY DEF Vectors
  <2>2. \A i \in 1..T : us[i][w] = Times(u[w], sks[i])
    <3> TAKE i \in 1..T
    <3>1. us[i] = DistExp(u, sks[i]) /\ DOMAIN u = 1..W
      BY DEF Vectors
    <3> HIDE DEF us, sks, W
    <3> QED
      BY <3>1 DEF DistExp, Exp
  <2>3. Column(T, us, w) = [i \in 1..T |-> Times(u[w], sks[i])]
    <3> HIDE DEF us, sks
    <3> QED
      BY <2>2 DEF Column
  <2> HIDE DEF us, sks, cofs, T
  <2>4. Dot(T, [i \in 1..T |-> Times(u[w], sks[i])], cofs) = Times(u[w], Dot(T, sks, cofs))
    BY <1>1, <1>3, <1>4, <2>1, DotOfMultiples
  <2> QED
    BY <1>11, <2>3, <2>4
<1> HIDE DEF us, sks, cofs, T
<1>13. WeightedSum(T, W, us, cofs) = [w \in 1..W |-> Times(u[w], JointSecret)]
  BY <1>10, <1>12 DEF Vectors
<1> QED
  BY <1>8, <1>9, <1>13

(* The message is what the divisor leaves.                                 *)
LEMMA MessageIs ==
    ASSUME NEW m \in Scalars, NEW x \in Scalars, NEW r \in Scalars
    PROVE  Mul(Add(m, Times(x, r)), Inv(Times(r, x))) = m
<1>1. Times(x, r) \in Scalars /\ Times(r, x) = Times(x, r)
  BY Closed, Commutes
<1> QED
  BY <1>1, Cancels DEF Mul, Inv

(* A quorum's factors combine to the messages, as many as there are        *)
(* factors of every trustee.                                               *)
Combines(n, msg, dfs, result) ==
    /\ result.ok
    /\ \E len \in 0..n : /\ result.elements = [j \in 1..len |-> msg[j]]
                         /\ (\A i \in 1..Threshold : Len(dfs[i]) = n) => len = n

(* The factors of a quorum are verified and combine to the messages        *)
(* (combine).                                                              *)
LEMMA CombineIs ==
    ASSUME KeyInv, KeyGenerated, NEW n \in Nat,
           NEW msg \in [1..n -> Vectors(BallotWidth)], NEW s \in [1..n -> Vectors(BallotWidth)],
           NEW q \in Quorums, NEW dfs, NEW vks,
           \A i \in 1..Threshold : AreFactors(n, q[i], Encrypted(n, msg, s), dfs[i]),
           \A i \in 1..Threshold : vks[i] = VerificationKey(q[i], CheckValues)
    PROVE  Combines(n, msg, dfs, Combine(Encrypted(n, msg, s), dfs, vks, DecryptionContext))
<1> DEFINE W == BallotWidth
           T == Threshold
           cs == Encrypted(n, msg, s)
           present == [i \in 1..T |-> dfs[i][1].source]
           lambda == [i \in 1..T |-> Lagrange(present[i], present)]
           divisor(j) == FoldLeft(MulEach, [w \in DOMAIN cs[j].u |-> one],
                             [i \in 1..T |-> DistExp(dfs[i][j].value, lambda[i])])
           len == Common(cs, dfs, T)
<1>1. /\ W \in Nat /\ T \in Nat /\ T >= 1 /\ JointSecret \in Scalars
      /\ q \in [1..T -> Positions] /\ DOMAIN q = 1..T
  BY DealerIs, BallotAssumption, KeysAre DEF Quorums
<1>2. /\ cs \in [1..n -> Ciphertexts] /\ Len(cs) = n
      /\ \A j \in 1..n : /\ cs[j].u = s[j]
                         /\ cs[j].v = [w \in 1..W |-> Add(msg[j][w], Times(JointSecret, s[j][w]))]
  BY EncryptedIs
<1> HIDE DEF cs
<1>3. \A i \in 1..T : Len(dfs[i]) \in 0..n /\ \A j \in 1..Len(dfs[i]) : dfs[i][j] = FactorsOf(q[i], cs)[j]
  BY DEF AreFactors, cs
<1>31. ASSUME NEW t \in Positions, NEW j \in 1..n
       PROVE  /\ FactorsOf(t, cs)[j].value = DistExp(cs[j].u, recipients[t].sk)
              /\ FactorsOf(t, cs)[j].source = t
              /\ DlogEqVerify(FactorsOf(t, cs)[j].proof, generator, VerificationKey(t, CheckValues),
                              cs[j].u, FactorsOf(t, cs)[j].value, DecryptionContext)
  BY <1>2, FactorIs
<1>4. \A i \in 1..T : /\ Common(cs, dfs, i) \in 0..n
                      /\ Common(cs, dfs, i) <= Len(dfs[i])
  <2> TAKE i \in 1..T
  <2>1. i \in Nat /\ i \in 1..i /\ \A k \in 1..i : Len(dfs[k]) \in 0..n
    BY <1>1, <1>3
  <2> HIDE DEF T
  <2> QED
    BY <1>2, <2>1, CommonIs
<1>5. /\ len \in 0..n
      /\ \A i \in 1..T : len <= Len(dfs[i])
      /\ (\A i \in 1..T : Len(dfs[i]) = n) => len = n
  <2> HIDE DEF T
  <2> QED
    BY <1>1, <1>2, <1>3, CommonIs DEF T
<1>6. ASSUME NEW i \in 1..T, NEW j \in 1..Common(cs, dfs, i)
      PROVE  DlogEqVerify(dfs[i][j].proof, generator, vks[i], cs[j].u, dfs[i][j].value,
                          DecryptionContext)
  <2>1. j \in 1..n /\ j \in 1..Len(dfs[i])
    BY <1>3, <1>4
  <2>2. dfs[i][j] = FactorsOf(q[i], cs)[j] /\ q[i] \in Positions
    BY <1>1, <1>3, <2>1
  <2> DEFINE t == q[i]
  <2>3. t \in Positions /\ vks[i] = VerificationKey(t, CheckValues) /\ dfs[i][j] = FactorsOf(t, cs)[j]
    BY <2>2
  <2> HIDE DEF t
  <2> QED
    BY <1>31, <2>1, <2>3
<1>7. ASSUME NEW j \in 1..len
      PROVE  MulEach(cs[j].v, InvEach(divisor(j))) = msg[j]
  <2>1. j \in 1..n /\ \A i \in 1..T : 1 \in 1..Len(dfs[i]) /\ j \in 1..Len(dfs[i])
    BY <1>3, <1>5
  <2>2. \A i \in 1..T : /\ dfs[i][1].source = q[i]
                        /\ dfs[i][j].value = DistExp(s[j], recipients[q[i]].sk)
    <3> TAKE i \in 1..T
    <3> DEFINE t == q[i]
    <3>1. /\ dfs[i][1] = FactorsOf(t, cs)[1] /\ dfs[i][j] = FactorsOf(t, cs)[j]
          /\ t \in Positions /\ 1 \in 1..n
      BY <1>1, <1>3, <2>1
    <3> HIDE DEF t
    <3>2. FactorsOf(t, cs)[1].source = t
      BY <1>31, <3>1
    <3>3. FactorsOf(t, cs)[j].value = DistExp(cs[j].u, recipients[t].sk)
      BY <1>31, <2>1, <3>1
    <3>4. dfs[i][1].source = t /\ dfs[i][j].value = DistExp(s[j], recipients[t].sk)
      BY <1>2, <2>1, <3>1, <3>2, <3>3
    <3> QED
      BY <3>4 DEF t
  <2>3. present = q
    <3>1. q = [i \in 1..T |-> q[i]]
      BY <1>1
    <3> QED
      BY <2>2, <3>1
  <2> DEFINE u == s[j]
             rows == [i \in 1..T |-> DistExp(DistExp(u, recipients[q[i]].sk), Lagrange(q[i], q))]
  <2>4. [i \in 1..T |-> DistExp(dfs[i][j].value, lambda[i])] = rows
    <3>1. \A i \in 1..T : lambda[i] = Lagrange(q[i], q)
      <4> HIDE DEF present
      <4> QED
        BY <2>3
    <3> HIDE DEF lambda
    <3> QED
      BY <2>2, <3>1
  <2>5. u \in Vectors(W)
    BY <2>1
  <2>6. divisor(j) = [w \in 1..W |-> Times(u[w], JointSecret)]
    <3>1. FoldLeft(MulEach, [w \in DOMAIN u |-> one], rows)
             = [w \in 1..W |-> Times(u[w], JointSecret)]
      <4>1. rows = [i \in 1..Threshold |->
                      DistExp(DistExp(u, recipients[q[i]].sk), Lagrange(q[i], q))]
        OBVIOUS
      <4> HIDE DEF rows, u
      <4> QED
        BY <2>5, <4>1, DivisorIs
    <3>2. cs[j].u = u
      BY <1>2, <2>1
    <3> HIDE DEF rows, u, lambda
    <3> QED
      BY <2>4, <3>1, <3>2
  <2>7. \A w \in 1..W : Mul(Add(msg[j][w], Times(JointSecret, u[w])), Inv(Times(u[w], JointSecret)))
                           = msg[j][w]
    <3>1. \A w \in 1..W : u[w] \in Scalars /\ msg[j][w] \in Scalars
      BY <2>1, <2>5 DEF Vectors
    <3> HIDE DEF u
    <3> QED
      BY <1>1, <3>1, MessageIs
  <2>8. cs[j].v = [w \in 1..W |-> Add(msg[j][w], Times(JointSecret, u[w]))]
    BY <1>2, <2>1
  <2>9. msg[j] = [w \in 1..W |-> msg[j][w]]
    BY <2>1 DEF Vectors
  <2> HIDE DEF u, divisor, W
  <2> QED
    BY <2>6, <2>7, <2>8, <2>9 DEF MulEach, InvEach
<1>8. Combine(cs, dfs, vks, DecryptionContext)
         = [ok |-> TRUE, elements |-> [j \in 1..len |-> MulEach(cs[j].v, InvEach(divisor(j)))]]
  BY <1>6 DEF Combine
<1>9. [j \in 1..len |-> MulEach(cs[j].v, InvEach(divisor(j)))] = [j \in 1..len |-> msg[j]]
  <2> HIDE DEF len, divisor
  <2> QED
    BY <1>7
<1> DEFINE result == Combine(cs, dfs, vks, DecryptionContext)
           plain == [j \in 1..len |-> msg[j]]
<1>10. result = [ok |-> TRUE, elements |-> plain]
  BY <1>8, <1>9
<1>11. result.ok /\ result.elements = plain
  <2> HIDE DEF result, plain
  <2> QED
    BY <1>10
<1> HIDE DEF len, result
<1> QED
  BY <1>5, <1>11 DEF Combines, result, cs

-------------------------------------------------------------------------------
(* The proof of a shuffle: its five equations.                             *)

(* A challenged sum with blinding terms, term by term.                     *)
LEMMA Answers ==
    ASSUME NEW a \in Scalars, NEW b \in Scalars, NEW v \in Scalars, NEW c \in Scalars,
           NEW d \in Scalars
    PROVE  Add(Times(Add(a, b), v), Add(c, d)) = Add(Add(Times(v, a), c), Add(Times(v, b), d))
<1>1. Times(Add(a, b), v) = Add(Times(a, v), Times(b, v))
  BY Distributes
<1>2. Times(a, v) = Times(v, a) /\ Times(b, v) = Times(v, b)
  BY Commutes
<1>3. Times(v, a) \in Scalars /\ Times(v, b) \in Scalars
  BY Closed
<1> DEFINE p == Times(v, a)
           q == Times(v, b)
<1> HIDE DEF p, q
<1>4. p \in Scalars /\ q \in Scalars
  BY <1>3 DEF p, q
<1>5. Add(Add(p, q), Add(c, d)) = Add(Add(p, c), Add(q, d))
  BY <1>4, FourTerms
<1> QED
  BY <1>1, <1>2, <1>5 DEF p, q

(* The blinding exponents and those of the re-encryption cancel.           *)
LEMMA Blinded ==
    ASSUME NEW k \in Scalars, NEW b \in Scalars, NEW v \in Scalars, NEW c \in Scalars,
           NEW f \in Scalars, NEW phi \in Scalars
    PROVE  Add(Times(b, v), Add(c, Times(k, Times(Neg(1), phi))))
              = Add(Add(Times(v, Add(b, Times(k, f))), c),
                    Times(k, Times(Neg(1), Add(Times(v, f), phi))))
<1> DEFINE x == Times(v, b)
           t == Times(v, f)
           kf == Times(k, f)
           z == Times(v, kf)
           m == Times(Neg(1), phi)
           p == Times(k, m)
<1>1. Neg(1) \in Scalars
  BY Closed
<1>2. x \in Scalars /\ t \in Scalars /\ kf \in Scalars /\ m \in Scalars
  BY <1>1, Closed
<1>3. Times(b, v) = x
  BY Commutes
<1>4. z = Times(k, t)
  <2>1. z = Times(Times(v, k), f) /\ Times(k, t) = Times(Times(k, v), f)
    BY TimesAssociates
  <2> QED
    BY <2>1, Commutes
<1> HIDE DEF x, t, kf, m
<1>5. z \in Scalars /\ p \in Scalars
  BY <1>2, Closed
<1>6. Times(v, Add(b, kf)) = Add(x, z)
  BY <1>2, Distributes DEF x
<1>7. Times(Neg(1), Add(t, phi)) = Add(Neg(t), m)
  <2>1. Times(Neg(1), Add(t, phi)) = Add(Times(Neg(1), t), Times(Neg(1), phi))
    BY <1>1, <1>2, Distributes
  <2>2. Times(Neg(1), t) = Neg(t)
    BY <1>2, Cancels
  <2> QED
    BY <2>1, <2>2 DEF m
<1>8. Times(k, Add(Neg(t), m)) = Add(Neg(z), p)
  <2>1. Neg(t) \in Scalars
    BY <1>2, Closed
  <2>2. Times(k, Add(Neg(t), m)) = Add(Times(k, Neg(t)), Times(k, m))
    BY <1>2, <2>1, Distributes
  <2>3. Times(k, Neg(t)) = Neg(Times(k, t))
    BY <1>2, Cancels
  <2> QED
    BY <1>4, <2>2, <2>3
<1> HIDE DEF z, p
<1>9. Add(x, z) \in Scalars /\ Neg(z) \in Scalars
  BY <1>2, <1>5, Closed
<1>10. Add(Add(Add(x, z), c), Add(Neg(z), p)) = Add(Add(Add(x, z), Neg(z)), Add(c, p))
  BY <1>5, <1>9, FourTerms
<1>11. Add(Add(x, z), Neg(z)) = x
  BY <1>2, <1>5, Cancels
<1>12. Add(x, Add(c, p)) = Add(Add(Times(v, Add(b, kf)), c), Times(k, Times(Neg(1), Add(t, phi))))
  BY <1>6, <1>7, <1>8, <1>10, <1>11
<1> QED
  BY <1>3, <1>12 DEF kf, t, p, m

(* A permutation and its inverse move the entries.                         *)
LEMMA MovedIs ==
    ASSUME NEW n \in Nat, NEW p \in PermutationsOf(n), NEW xs \in Vectors(n)
    PROVE  /\ Apply(p, xs) \in Vectors(n)
           /\ \A i \in 1..n : p[i] \in 1..n /\ Apply(p, xs)[p[i]] = xs[i]
           /\ ApplyInverse(p, xs) \in Vectors(n)
           /\ ApplyInverse(p, xs) = [i \in 1..n |-> xs[p[i]]]
<1>1. DOMAIN p = 1..n /\ DOMAIN xs = 1..n /\ p \in [1..n -> 1..n]
  BY DEF PermutationsOf, Vectors
<1> DEFINE from(j) == CHOOSE i \in 1..n : p[i] = j
<1>2. \A j \in 1..n : from(j) \in 1..n /\ p[from(j)] = j
  BY DEF PermutationsOf
<1>3. \A i \in 1..n : p[i] \in 1..n /\ from(p[i]) = i
  <2> TAKE i \in 1..n
  <2>1. p[i] \in 1..n /\ from(p[i]) \in 1..n /\ p[from(p[i])] = p[i]
    BY <1>1, <1>2
  <2> QED
    BY <2>1 DEF PermutationsOf
<1>4. Apply(p, xs) = [j \in 1..n |-> xs[from(j)]]
  BY <1>1 DEF Apply
<1> HIDE DEF from
<1>5. Apply(p, xs) \in Vectors(n)
  BY <1>2, <1>4 DEF Vectors
<1>6. \A i \in 1..n : Apply(p, xs)[p[i]] = xs[i]
  BY <1>3, <1>4
<1>7. ApplyInverse(p, xs) = [i \in 1..n |-> xs[p[i]]]
  BY <1>1 DEF ApplyInverse
<1>8. ApplyInverse(p, xs) \in Vectors(n)
  BY <1>1, <1>7 DEF Vectors
<1> QED
  BY <1>3, <1>5, <1>6, <1>7, <1>8

(* The commitments to a permutation.                                       *)
Committed(p, r, h) == MulEach(ReplExp(generator, Apply(p, r)), Apply(p, h))

(* What the mixer commits to for a position is where the permutation moves *)
(* it.                                                                     *)
LEMMA CommittedIs ==
    ASSUME NEW n \in Nat, NEW p \in PermutationsOf(n), NEW r \in Vectors(n), NEW h \in Vectors(n)
    PROVE  /\ Committed(p, r, h) \in Vectors(n)
           /\ \A i \in 1..n : Committed(p, r, h)[p[i]] = Add(r[i], h[i])
<1> DEFINE a == Apply(p, r)
           b == Apply(p, h)
<1>1. /\ a \in [1..n -> Scalars] /\ b \in [1..n -> Scalars]
      /\ \A i \in 1..n : p[i] \in 1..n /\ a[p[i]] = r[i] /\ b[p[i]] = h[i]
  BY MovedIs DEF Vectors
<1> HIDE DEF a, b
<1>2. 1 \in Scalars
  BY OrderIs DEF Scalars
<1>3. ReplExp(generator, a) = a
  BY <1>1, <1>2, VectorsAre
<1>4. MulEach(a, b) \in [1..n -> Scalars]
  BY <1>1, <1>2, VectorsAre
<1>5. Committed(p, r, h) = MulEach(a, b)
  BY <1>3 DEF Committed, a, b
<1> QED
  BY <1>1, <1>4, <1>5 DEF Vectors, MulEach, Mul

(* Products and sums as they are written in the code.                      *)
LEMMA DotsAre ==
    ASSUME NEW n \in Nat, NEW xs \in Vectors(n), NEW es \in Vectors(n)
    PROVE  /\ Product(ExpEach(xs, es)) = Dot(n, xs, es)
           /\ SumOf(TimesEach(xs, es)) = Dot(n, xs, es)
<1>1. DOMAIN xs = 1..n
  BY DEF Vectors
<1>2. ExpEach(xs, es) = Products(n, xs, es) /\ TimesEach(xs, es) = Products(n, xs, es)
  BY <1>1 DEF ExpEach, TimesEach, Products, Exp
<1> QED
  BY <1>2, ProductIsSum DEF Dot

(* The challenges, permuted, are those of the commitments.                 *)
LEMMA FirstEquation ==
    ASSUME NEW n \in Nat, NEW p \in PermutationsOf(n), NEW r \in Vectors(n), NEW h \in Vectors(n),
           NEW e \in Vectors(n), NEW epsilon \in Vectors(n), NEW v \in Scalars,
           NEW alpha \in Scalars, NEW ep, ep = ApplyInverse(p, e)
    PROVE  Mul(Exp(Product(ExpEach(Committed(p, r, h), e)), v),
               Mul(Exp(generator, alpha), Product(ExpEach(h, epsilon))))
              = Mul(Exp(generator, Add(Times(v, SumOf(TimesEach(r, ep))), alpha)),
                    Product(ExpEach(h, AddEach(TimesAll(v, ep), epsilon))))
<1> DEFINE u == Committed(p, r, h)
           k_e == AddEach(TimesAll(v, ep), epsilon)
           a == Dot(n, r, ep)
           b == Dot(n, h, ep)
           d == Dot(n, h, epsilon)
<1>1. /\ u \in Vectors(n) /\ \A i \in 1..n : u[p[i]] = Add(r[i], h[i])
      /\ ep \in Vectors(n) /\ ep = [i \in 1..n |-> e[p[i]]]
  BY CommittedIs, MovedIs
<1>2. k_e \in Vectors(n)
  <2>1. TimesAll(v, ep) \in [1..n -> Scalars] /\ ep \in [1..n -> Scalars]
    BY <1>1, VectorsAre DEF Vectors
  <2> DEFINE w == TimesAll(v, ep)
  <2> HIDE DEF w
  <2>2. AddEach(w, epsilon) \in [1..n -> Scalars]
    BY <2>1, VectorsAre DEF Vectors, w
  <2> QED
    BY <2>2 DEF Vectors, w
<1> HIDE DEF u, k_e
<1>3. Dot(n, u, e) = Add(a, b)
  <2> DEFINE ru == [i \in 1..n |-> u[p[i]]]
             re == [i \in 1..n |-> e[p[i]]]
  <2>1. Dot(n, ru, re) = Dot(n, u, e)
    BY <1>1, DotPermuted
  <2>2. ru = [i \in 1..n |-> Add(r[i], h[i])] /\ re = ep
    BY <1>1
  <2>3. Dot(n, [i \in 1..n |-> Add(r[i], h[i])], ep) = Add(a, b)
    BY <1>1, DotOfSums
  <2> QED
    BY <2>1, <2>2, <2>3
<1>4. Dot(n, h, k_e) = Add(Times(v, b), d)
  BY <1>1, DotOfResponses DEF k_e
<1>5. a \in Scalars /\ b \in Scalars /\ d \in Scalars
  BY <1>1, DotIs
<1>6. /\ Product(ExpEach(u, e)) = Dot(n, u, e) /\ Product(ExpEach(h, epsilon)) = d
      /\ SumOf(TimesEach(r, ep)) = a /\ Product(ExpEach(h, k_e)) = Dot(n, h, k_e)
  BY <1>1, <1>2, DotsAre
<1> HIDE DEF a, b, d
<1>7. Add(Times(v, a), alpha) \in Scalars
  <2>1. Times(v, a) \in Scalars
    BY <1>5, Closed
  <2> QED
    BY <2>1, Closed
<1>8. Exp(generator, alpha) = alpha /\ Exp(generator, Add(Times(v, a), alpha)) = Add(Times(v, a), alpha)
  BY <1>7, PowerOfGenerator
<1>9. Add(Times(Add(a, b), v), Add(alpha, d)) = Add(Add(Times(v, a), alpha), Add(Times(v, b), d))
  BY <1>5, Answers
<1>10. Mul(Exp(Product(ExpEach(u, e)), v), Mul(Exp(generator, alpha), Product(ExpEach(h, epsilon))))
          = Mul(Exp(generator, Add(Times(v, SumOf(TimesEach(r, ep))), alpha)),
                Product(ExpEach(h, k_e)))
  BY <1>3, <1>4, <1>6, <1>8, <1>9 DEF Mul, Exp
<1> QED
  BY <1>10 DEF u, k_e

(* A response to a challenge for a commitment to the generator.            *)
LEMMA Answered ==
    ASSUME NEW v \in Scalars, NEW x \in Scalars, NEW a \in Scalars
    PROVE  Mul(Exp(x, v), Exp(generator, a)) = Exp(generator, Add(Times(v, x), a))
<1>1. Times(v, x) \in Scalars /\ Times(x, v) = Times(v, x)
  BY Closed, Commutes
<1>2. Add(Times(v, x), a) \in Scalars
  BY <1>1, Closed
<1> QED
  BY <1>1, <1>2, PowerOfGenerator DEF Mul, Exp

(* The product of the commitments is that of the generators.               *)
LEMMA ThirdEquation ==
    ASSUME NEW n \in Nat, NEW p \in PermutationsOf(n), NEW r \in Vectors(n), NEW h \in Vectors(n),
           NEW v \in Scalars, NEW gamma \in Scalars
    PROVE  Mul(Exp(Mul(Product(Committed(p, r, h)), Inv(Product(h))), v), Exp(generator, gamma))
              = Exp(generator, Add(Times(v, SumOf(r)), gamma))
<1> DEFINE u == Committed(p, r, h)
           ru == [i \in 1..n |-> u[p[i]]]
<1>1. u \in Vectors(n) /\ \A i \in 1..n : u[p[i]] = Add(r[i], h[i])
  BY CommittedIs
<1>2. ru = [i \in 1..n |-> Add(r[i], h[i])]
  BY <1>1
<1>3. SumOf(ru) = Add(SumOf(r), SumOf(h))
  <2> HIDE DEF ru
  <2> QED
    BY <1>2, SumSplits
<1>4. SumOf(u) = SumOf(ru)
  <2> HIDE DEF u
  <2>1. Total("sum", ru) = Total("sum", u)
    BY <1>1, TotalPermuted DEF Kinds, Vectors
  <2> QED
    BY <2>1 DEF Total
<1>5. SumOf(r) \in Scalars /\ SumOf(h) \in Scalars
  BY SumsAreScalars DEF Vectors
<1>6. Mul(Product(u), Inv(Product(h))) = SumOf(r)
  BY <1>3, <1>4, <1>5, Cancels, ProductIsSum DEF Mul, Inv
<1> QED
  BY <1>5, <1>6, Answered

(* The bridging commitments, as partial results.                           *)
Bridged(n, h, b, ep, B) ==
    /\ B[0] = h[1]
    /\ \A i \in 1..n : B[i] = Add(b[i], Times(B[i - 1], ep[i]))
    /\ Bridges(h, b, ep) = [i \in 1..n |-> B[i]]

(* The bridging commitments have values.                                   *)
LEMMA BridgesAre ==
    ASSUME NEW n \in Nat, NEW h, NEW b \in Vectors(n), NEW ep
    PROVE  \E B : Bridged(n, h, b, ep, B)
<1> DEFINE Step(f, i) == IF i = 0 THEN h[1]
                         ELSE Mul(Exp(generator, b[i]), Exp(f[i - 1], ep[i]))
           F == CHOOSE f : f = [i \in 0..n |-> Step(f, i)]
<1>1. Len(b) = n
  BY ListsAreInput DEF Vectors
<1>2. Bridges(h, b, ep) = [i \in 1..n |-> F[i]]
  BY <1>1 DEF Bridges
<1>3. \A f, i : RecStep("bridges", b, ep, h[1], 0, f, i) = Step(f, i)
  BY DEF RecStep, Continued
<1> HIDE DEF Step
<1>4. \E f : f = [i \in 0..n |-> Step(f, i)]
  <2>1. PICK f : IsRecursion("bridges", b, ep, h[1], 0, n, f)
    BY RecursionsExist
  <2> QED
    BY <1>3, <2>1 DEF IsRecursion
<1>5. F = [i \in 0..n |-> Step(F, i)]
  BY <1>4, Zenon
<1> HIDE DEF F
<1>6. \A i \in 0..n : F[i] = Step(F, i)
  BY <1>5
<1>7. F[0] = h[1]
  BY <1>6 DEF Step
<1>8. \A i \in 1..n : F[i] = Add(b[i], Times(F[i - 1], ep[i]))
  <2> TAKE i \in 1..n
  <2>1. i \in 0..n /\ i # 0 /\ b[i] \in Scalars
    BY DEF Vectors
  <2>2. F[i] = Mul(Exp(generator, b[i]), Exp(F[i - 1], ep[i]))
    BY <1>6, <2>1 DEF Step
  <2> QED
    BY <2>1, <2>2, PowerOfGenerator DEF Mul, Exp
<1> QED
  BY <1>2, <1>7, <1>8 DEF Bridged

Exponents(n, b, ep, D) ==
    /\ D[1] = b[1]
    /\ \A i \in 2..n : D[i] = Add(b[i], Times(ep[i], D[i - 1]))
    /\ BridgeExponent(b, ep) = D[n]

(* The exponents of the bridging commitments have values.                  *)
LEMMA ExponentsAre ==
    ASSUME NEW n \in Nat \ {0}, NEW b \in Vectors(n), NEW ep
    PROVE  \E D : Exponents(n, b, ep, D)
<1> DEFINE Step(f, i) == IF i = 1 THEN b[1] ELSE Add(b[i], Times(ep[i], f[i - 1]))
           F == CHOOSE f : f = [i \in 1..n |-> Step(f, i)]
<1>1. Len(b) = n
  BY ListsAreInput DEF Vectors
<1>2. BridgeExponent(b, ep) = F[n]
  BY <1>1 DEF BridgeExponent
<1>3. \A f, i : RecStep("exponent", b, ep, b[1], 1, f, i) = Step(f, i)
  BY DEF RecStep, Continued
<1> HIDE DEF Step
<1>4. \E f : f = [i \in 1..n |-> Step(f, i)]
  <2>1. PICK f : IsRecursion("exponent", b, ep, b[1], 1, n, f)
    BY RecursionsExist
  <2> QED
    BY <1>3, <2>1 DEF IsRecursion
<1>5. F = [i \in 1..n |-> Step(F, i)]
  BY <1>4, Zenon
<1> HIDE DEF F
<1>6. \A i \in 1..n : F[i] = Step(F, i)
  BY <1>5
<1>7. 1 \in 1..n /\ \A i \in 2..n : i \in 1..n /\ i # 1
  OBVIOUS
<1>8. F[1] = b[1] /\ \A i \in 2..n : F[i] = Add(b[i], Times(ep[i], F[i - 1]))
  BY <1>6, <1>7 DEF Step
<1> QED
  BY <1>2, <1>8 DEF Exponents

(* The exponents in the next bridging commitment.                          *)
LEMMA OneBridgeMore ==
    ASSUME NEW b \in Scalars, NEW e \in Scalars, NEW d \in Scalars, NEW h \in Scalars,
           NEW q \in Scalars
    PROVE  Add(b, Times(Add(d, Times(h, q)), e)) = Add(Add(b, Times(e, d)), Times(h, Times(q, e)))
<1>1. Times(h, q) \in Scalars /\ Times(e, d) \in Scalars /\ Times(q, e) \in Scalars
  BY Closed
<1>2. Times(Add(d, Times(h, q)), e) = Add(Times(d, e), Times(Times(h, q), e))
  BY <1>1, Distributes
<1>3. Times(d, e) = Times(e, d) /\ Times(Times(h, q), e) = Times(h, Times(q, e))
  BY Commutes, TimesAssociates
<1>4. Times(h, Times(q, e)) \in Scalars
  BY <1>1, Closed
<1>5. Add(b, Add(Times(e, d), Times(h, Times(q, e)))) = Add(Add(b, Times(e, d)), Times(h, Times(q, e)))
  <2> DEFINE x == Times(e, d)
             y == Times(h, Times(q, e))
  <2>1. x \in Scalars /\ y \in Scalars
    BY <1>1, <1>4
  <2> HIDE DEF x, y
  <2> QED
    BY <2>1, AddAssociates DEF x, y
<1> QED
  BY <1>2, <1>3, <1>5

(* The last bridge holds the exponent, and the product of the challenges.  *)
LEMMA LastBridge ==
    ASSUME NEW n \in Nat \ {0}, NEW h, h[1] \in Scalars, NEW b \in Vectors(n),
           NEW ep \in Vectors(n), NEW B, NEW D, NEW Q,
           Bridged(n, h, b, ep, B), Exponents(n, b, ep, D), Parts("product", n, ep, Q)
    PROVE  /\ \A i \in 1..n : B[i] \in Scalars
           /\ D[n] \in Scalars /\ Q[n] \in Scalars
           /\ B[n] = Add(D[n], Times(h[1], Q[n]))
<1> DEFINE h1 == h[1]
<1>7. /\ B[0] = h1 /\ \A i \in 1..n : B[i] = Add(b[i], Times(B[i - 1], ep[i]))
      /\ D[1] = b[1] /\ \A i \in 2..n : D[i] = Add(b[i], Times(ep[i], D[i - 1]))
      /\ Q[0] = 1 /\ \A i \in 1..n : Q[i] = Times(Q[i - 1], ep[i])
      /\ h1 \in Scalars
  BY DEF Bridged, Exponents, Parts, Unit, Joined
<1> HIDE DEF h1
<1> DEFINE Fine(i) == /\ B[i] \in Scalars /\ D[i] \in Scalars /\ Q[i] \in Scalars
                      /\ B[i] = Add(D[i], Times(h1, Q[i]))
           Good == {i \in Nat : i + 1 <= n => Fine(i + 1)}
<1>1. \A i \in 1..n : b[i] \in Scalars /\ ep[i] \in Scalars
  BY DEF Vectors
<1>2. Fine(1)
  <2>1. 1 \in 1..n /\ 1 - 1 = 0
    OBVIOUS
  <2>2. /\ B[1] = Add(b[1], Times(h1, ep[1])) /\ Q[1] = Times(1, ep[1]) /\ D[1] = b[1]
        /\ b[1] \in Scalars /\ ep[1] \in Scalars
    BY <1>1, <1>7, <2>1
  <2>3. Q[1] = ep[1] /\ Times(h1, ep[1]) \in Scalars
    BY <1>7, <2>2, Neutral, Closed
  <2>4. Add(b[1], Times(h1, ep[1])) \in Scalars
    BY <2>2, <2>3, Closed
  <2> QED
    BY <2>2, <2>3, <2>4
<1>3. ASSUME NEW i \in Nat, i \in Good PROVE i + 1 \in Good
  <2> SUFFICES ASSUME (i + 1) + 1 <= n PROVE Fine((i + 1) + 1)
    OBVIOUS
  <2> DEFINE j == i + 1
             k == (i + 1) + 1
  <2>1. j \in 1..n /\ k \in 1..n /\ k \in 2..n /\ k - 1 = j
    OBVIOUS
  <2>2. Fine(j)
    BY <1>3, <2>1
  <2> HIDE DEF j, k
  <2>3. /\ B[k] = Add(b[k], Times(B[j], ep[k])) /\ D[k] = Add(b[k], Times(ep[k], D[j]))
        /\ Q[k] = Times(Q[j], ep[k]) /\ b[k] \in Scalars /\ ep[k] \in Scalars
    BY <1>1, <1>7, <2>1
  <2>4. Times(B[j], ep[k]) \in Scalars /\ Times(ep[k], D[j]) \in Scalars /\ Q[k] \in Scalars
    BY <2>2, <2>3, Closed
  <2>5. B[k] \in Scalars /\ D[k] \in Scalars
    BY <2>3, <2>4, Closed
  <2>6. Add(b[k], Times(Add(D[j], Times(h1, Q[j])), ep[k]))
           = Add(Add(b[k], Times(ep[k], D[j])), Times(h1, Times(Q[j], ep[k])))
    <3>1. /\ b[k] \in Scalars /\ ep[k] \in Scalars /\ D[j] \in Scalars /\ h1 \in Scalars
          /\ Q[j] \in Scalars
      BY <1>7, <2>2, <2>3
    <3> QED
      BY <3>1, OneBridgeMore
  <2>7. B[k] = Add(D[k], Times(h1, Q[k]))
    BY <2>2, <2>3, <2>6
  <2> QED
    BY <2>4, <2>5, <2>7 DEF k
<1>4. 0 \in Good
  BY <1>2
<1> HIDE DEF Good
<1>5. \A i \in Nat : i \in Good
  BY <1>3, <1>4, Induction
<1>6. \A i \in 1..n : Fine(i)
  <2> TAKE i \in 1..n
  <2>1. i - 1 \in Nat /\ (i - 1) + 1 = i /\ i <= n
    OBVIOUS
  <2>2. i - 1 \in Good
    BY <1>5, <2>1
  <2> QED
    BY <2>1, <2>2 DEF Good
<1>8. n \in 1..n
  OBVIOUS
<1> QED
  BY <1>6, <1>8 DEF h1

(* The last bridging commitment holds the product of all challenges, in any*)
(* order.                                                                  *)
LEMMA FourthEquation ==
    ASSUME NEW n \in Nat \ {0}, NEW p \in PermutationsOf(n), NEW h \in Vectors(n),
           NEW b \in Vectors(n), NEW e \in Vectors(n), NEW ep, ep = ApplyInverse(p, e),
           NEW v \in Scalars, NEW delta \in Scalars
    PROVE  /\ Bridges(h, b, ep) \in Vectors(n)
           /\ Mul(Exp(Mul(Bridges(h, b, ep)[n], Inv(Exp(h[1], ProductOf(e)))), v),
                  Exp(generator, delta))
                 = Exp(generator, Add(Times(v, BridgeExponent(b, ep)), delta))
<1>1. ep \in Vectors(n) /\ ep = [i \in 1..n |-> e[p[i]]]
  BY MovedIs
<1>2. PICK B : Bridged(n, h, b, ep, B)
  BY BridgesAre
<1>3. PICK D : Exponents(n, b, ep, D)
  BY ExponentsAre
<1>4. PICK Q : Parts("product", n, ep, Q) /\ Total("product", ep) = Q[n]
  <2>1. DOMAIN ep = 1..n
    BY <1>1 DEF Vectors
  <2> QED
    BY <2>1, TotalHasParts DEF Kinds
<1>5. h[1] \in Scalars
  BY DEF Vectors
<1>6. /\ \A i \in 1..n : B[i] \in Scalars
      /\ D[n] \in Scalars /\ Q[n] \in Scalars
      /\ B[n] = Add(D[n], Times(h[1], Q[n]))
  BY <1>1, <1>2, <1>3, <1>4, <1>5, LastBridge
<1>7. Bridges(h, b, ep) \in Vectors(n) /\ Bridges(h, b, ep)[n] = B[n]
  BY <1>2, <1>6 DEF Bridged, Vectors
<1>8. ProductOf(e) = Q[n]
  <2>1. Total("product", ep) = Total("product", e)
    <3>1. n \in Nat /\ e \in [1..n -> Scalars] /\ "product" \in Kinds
      BY DEF Kinds, Vectors
    <3>2. \A k \in Nat : \A xs \in [1..k -> Scalars], q \in PermutationsOf(k) :
             Total("product", [i \in 1..k |-> xs[q[i]]]) = Total("product", xs)
      BY <3>1, TotalPermuted
    <3>3. Total("product", [i \in 1..n |-> e[p[i]]]) = Total("product", e)
      BY <3>1, <3>2
    <3> QED
      BY <1>1, <3>3
  <2> QED
    BY <1>4, <2>1 DEF Total
<1>9. Mul(Bridges(h, b, ep)[n], Inv(Exp(h[1], ProductOf(e)))) = D[n]
  <2>1. Times(h[1], Q[n]) \in Scalars
    BY <1>5, <1>6, Closed
  <2> QED
    BY <1>6, <1>7, <1>8, <2>1, Cancels DEF Mul, Inv, Exp
<1> QED
  BY <1>3, <1>6, <1>7, <1>9, Answered DEF Exponents

(* A multiple of a response.                                               *)
LEMMA TimesResponse ==
    ASSUME NEW x \in Scalars, NEW v \in Scalars, NEW e \in Scalars, NEW d \in Scalars
    PROVE  Times(x, Add(Times(v, e), d)) = Add(Times(v, Times(x, e)), Times(x, d))
<1>1. Times(v, e) \in Scalars
  BY Closed
<1>2. Times(x, Add(Times(v, e), d)) = Add(Times(x, Times(v, e)), Times(x, d))
  BY <1>1, Distributes
<1>3. Times(x, Times(v, e)) = Times(Times(x, v), e) /\ Times(x, v) = Times(v, x)
  BY TimesAssociates, Commutes
<1>4. Times(Times(v, x), e) = Times(v, Times(x, e))
  BY TimesAssociates
<1> QED
  BY <1>2, <1>3, <1>4

(* Responses are made entry by entry.                                      *)
LEMMA ResponsesAre ==
    ASSUME NEW n \in Nat, NEW es \in Vectors(n), NEW ds \in Vectors(n), NEW v \in Scalars
    PROVE  /\ AddEach(TimesAll(v, es), ds) \in Vectors(n)
           /\ \A i \in 1..n : AddEach(TimesAll(v, es), ds)[i] = Add(Times(v, es[i]), ds[i])
<1>1. \A i \in 1..n : es[i] \in Scalars /\ ds[i] \in Scalars
  BY DEF Vectors
<1>2. \A i \in 1..n : Times(v, es[i]) \in Scalars
  BY <1>1, Closed
<1>3. \A i \in 1..n : Add(Times(v, es[i]), ds[i]) \in Scalars
  BY <1>1, <1>2, Closed
<1>4. AddEach(TimesAll(v, es), ds) = [i \in 1..n |-> Add(Times(v, es[i]), ds[i])]
  BY DEF AddEach, TimesAll, Vectors
<1> QED
  BY <1>3, <1>4 DEF Vectors

(* The commitment before each, from the first generator on.                *)
LEMMA PreviousIs ==
    ASSUME NEW n \in Nat \ {0}, NEW h, h[1] \in Scalars, NEW big_b \in Vectors(n)
    PROVE  /\ Previous(h, big_b) \in Vectors(n)
           /\ Previous(h, big_b)[1] = h[1]
           /\ \A i \in 2..n : Previous(h, big_b)[i] = big_b[i - 1]
<1>1. big_b \in Seq(Scalars) /\ Len(big_b) = n
  <2>1. big_b \in [1..n -> Scalars]
    BY DEF Vectors
  <2> QED
    BY <2>1, SeqDef, LenProperties
<1> DEFINE s == SubSeq(big_b, 1, n - 1)
<1>2. s \in Seq(Scalars) /\ Len(s) = n - 1 /\ \A i \in 1..(n - 1) : s[i] = big_b[i]
  BY <1>1, SubSeqProperties
<1> HIDE DEF s
<1> DEFINE r == <<h[1]>> \o s
<1>3. <<h[1]>> \in Seq(Scalars) /\ Len(<<h[1]>>) = 1 /\ <<h[1]>>[1] = h[1]
  OBVIOUS
<1>4. r \in Seq(Scalars) /\ Len(r) = n /\ r[1] = h[1] /\ \A i \in 2..n : r[i] = s[i - 1]
  BY <1>2, <1>3
<1>5. r \in Vectors(n)
  <2> HIDE DEF r
  <2> QED
    BY <1>4, LenProperties DEF Vectors
<1>6. \A i \in 2..n : r[i] = big_b[i - 1]
  <2> HIDE DEF r
  <2>1. \A i \in 2..n : i - 1 \in 1..(n - 1)
    OBVIOUS
  <2> QED
    BY <1>2, <1>4, <2>1
<1>7. Previous(h, big_b) = r
  BY <1>1 DEF Previous, s
<1> HIDE DEF r
<1> QED
  BY <1>4, <1>5, <1>6, <1>7

(* Every bridging commitment follows from the one before.                  *)
LEMMA SecondEquation ==
    ASSUME NEW n \in Nat \ {0}, NEW h \in Vectors(n), NEW b \in Vectors(n), NEW ep \in Vectors(n),
           NEW beta \in Vectors(n), NEW epsilon \in Vectors(n), NEW v \in Scalars,
           NEW big_b, big_b = Bridges(h, b, ep), big_b \in Vectors(n)
    PROVE  LET big_b_prime == MulEach(ReplExp(generator, beta),
                                      ExpEach(Previous(h, big_b), epsilon))
           IN  /\ Len(big_b_prime) = n
               /\ MulEach(DistExp(big_b, v), big_b_prime)
                     = MulEach(ReplExp(generator, AddEach(TimesAll(v, b), beta)),
                          ExpEach(Previous(h, big_b), AddEach(TimesAll(v, ep), epsilon)))
<1> DEFINE q == Previous(h, big_b)
           k_b == AddEach(TimesAll(v, b), beta)
           k_e == AddEach(TimesAll(v, ep), epsilon)
           bp == MulEach(ReplExp(generator, beta), ExpEach(q, epsilon))
<1>1. h[1] \in Scalars
  BY DEF Vectors
<1>2. /\ q \in Vectors(n) /\ q[1] = h[1]
      /\ \A i \in 2..n : q[i] = big_b[i - 1]
  BY <1>1, PreviousIs
<1>3. /\ k_b \in Vectors(n) /\ \A i \in 1..n : k_b[i] = Add(Times(v, b[i]), beta[i])
      /\ k_e \in Vectors(n) /\ \A i \in 1..n : k_e[i] = Add(Times(v, ep[i]), epsilon[i])
  <2>1. k_b \in Vectors(n) /\ \A i \in 1..n : k_b[i] = Add(Times(v, b[i]), beta[i])
    <3> HIDE DEF q, k_e, bp
    <3> QED
      BY ResponsesAre
  <2>2. k_e \in Vectors(n) /\ \A i \in 1..n : k_e[i] = Add(Times(v, ep[i]), epsilon[i])
    <3> HIDE DEF q, k_b, bp
    <3> QED
      BY ResponsesAre
  <2> HIDE DEF q, k_b, k_e, bp
  <2> QED
    BY <2>1, <2>2
<1> HIDE DEF q, k_b, k_e
<1>4. \A i \in 1..n : big_b[i] = Add(b[i], Times(q[i], ep[i]))
  <2>1. PICK B : Bridged(n, h, b, ep, B)
    BY BridgesAre
  <2>2. \A i \in 1..n : /\ big_b[i] = B[i] /\ B[0] = h[1]
                        /\ B[i] = Add(b[i], Times(B[i - 1], ep[i]))
    BY <2>1 DEF Bridged
  <2> TAKE i \in 1..n
  <2>3. q[i] = B[i - 1]
    <3>1. CASE i = 1
      BY <1>2, <2>2, <3>1
    <3>2. CASE i # 1
      <4>1. i \in 2..n /\ i - 1 \in 1..n
        BY <3>2
      <4> QED
        BY <1>2, <2>2, <4>1
    <3> QED
      BY <3>1, <3>2
  <2> QED
    BY <2>2, <2>3
<1>5. \A i \in 1..n : /\ big_b[i] \in Scalars /\ b[i] \in Scalars /\ ep[i] \in Scalars
                      /\ beta[i] \in Scalars /\ epsilon[i] \in Scalars /\ q[i] \in Scalars
                      /\ k_b[i] \in Scalars
  BY <1>2, <1>3 DEF Vectors
<1>6. DOMAIN beta = 1..n /\ DOMAIN q = 1..n /\ DOMAIN k_b = 1..n /\ DOMAIN big_b = 1..n
  BY <1>2, <1>3 DEF Vectors
<1>7. bp = [i \in 1..n |-> Add(beta[i], Times(q[i], epsilon[i]))]
  <2>1. \A i \in 1..n : Exp(generator, beta[i]) = beta[i]
    BY <1>5, PowerOfGenerator
  <2> QED
    BY <1>6, <2>1 DEF MulEach, ReplExp, ExpEach, Mul, Exp
<1>8. MulEach(ReplExp(generator, k_b), ExpEach(q, k_e))
         = [i \in 1..n |-> Add(k_b[i], Times(q[i], k_e[i]))]
  <2>1. \A i \in 1..n : Exp(generator, k_b[i]) = k_b[i]
    BY <1>5, PowerOfGenerator
  <2> QED
    BY <1>6, <2>1 DEF MulEach, ReplExp, ExpEach, Mul, Exp
<1> HIDE DEF bp
<1>9. MulEach(DistExp(big_b, v), bp)
         = [i \in 1..n |-> Add(Times(big_b[i], v), Add(beta[i], Times(q[i], epsilon[i])))]
  BY <1>6, <1>7 DEF MulEach, DistExp, Mul, Exp
<1>10. ASSUME NEW i \in 1..n
       PROVE  Add(Times(big_b[i], v), Add(beta[i], Times(q[i], epsilon[i])))
                 = Add(k_b[i], Times(q[i], k_e[i]))
  <2> DEFINE x == Times(q[i], ep[i])
             z == Times(q[i], epsilon[i])
  <2>1. x \in Scalars /\ z \in Scalars
    BY <1>5, Closed
  <2>2. Times(q[i], Add(Times(v, ep[i]), epsilon[i])) = Add(Times(v, x), z)
    BY <1>5, TimesResponse
  <2> HIDE DEF x, z
  <2>3. /\ b[i] \in Scalars /\ beta[i] \in Scalars
    BY <1>5
  <2>4. Add(Times(Add(b[i], x), v), Add(beta[i], z))
           = Add(Add(Times(v, b[i]), beta[i]), Add(Times(v, x), z))
    BY <2>1, <2>3, Answers
  <2> QED
    BY <1>3, <1>4, <2>2, <2>4 DEF x, z
<1>11. Len(bp) = n
  BY <1>7
<1>12. MulEach(DistExp(big_b, v), bp) = MulEach(ReplExp(generator, k_b), ExpEach(q, k_e))
  BY <1>8, <1>9, <1>10
<1> QED
  BY <1>11, <1>12 DEF bp, k_b, k_e, q

(* One component of the ciphertexts: x of the input, moved and re-         *)
(* encrypted with the exponents s.                                         *)
IsMoved(n, p, k, x, s, moved) == moved = [j \in 1..n |-> Add(x[p[j]], Times(k, s[p[j]]))]

(* One entry of the fifth equation: what was added in the re-encryption is *)
(* taken off by the responses.                                             *)
LEMMA FifthEquationAt ==
    ASSUME NEW n \in Nat, NEW p \in PermutationsOf(n), NEW k \in Scalars,
           NEW x \in Vectors(n), NEW s \in Vectors(n), NEW moved,
           IsMoved(n, p, k, x, s, moved),
           NEW e \in Vectors(n), NEW ep, ep = ApplyInverse(p, e), NEW epsilon \in Vectors(n),
           NEW v \in Scalars, NEW phi \in Scalars
    PROVE  /\ moved \in Vectors(n)
           /\ Add(Times(Dot(n, x, e), v),
                  Add(Dot(n, moved, epsilon), Times(k, Times(Neg(1), phi))))
                 = Add(Dot(n, moved, AddEach(TimesAll(v, ep), epsilon)),
                       Times(k, Times(Neg(1), Add(Times(v, Dot(n, s, e)), phi))))
<1> DEFINE ks == [i \in 1..n |-> Times(k, s[i])]
           z == [i \in 1..n |-> Add(x[i], ks[i])]
<1>1. ep \in Vectors(n) /\ ep = [i \in 1..n |-> e[p[i]]] /\ \A i \in 1..n : p[i] \in 1..n
  BY MovedIs
<1>2. ks \in Vectors(n)
  <2>1. \A i \in 1..n : Times(k, s[i]) \in Scalars
    BY Closed DEF Vectors
  <2> QED
    BY <2>1 DEF Vectors
<1>3. z \in Vectors(n)
  <2> HIDE DEF ks
  <2>1. \A i \in 1..n : x[i] \in Scalars /\ ks[i] \in Scalars
    BY <1>2 DEF Vectors
  <2>2. \A i \in 1..n : Add(x[i], ks[i]) \in Scalars
    BY <2>1, Closed
  <2> QED
    BY <2>2 DEF Vectors
<1>4. \A j \in 1..n : z[p[j]] = Add(x[p[j]], Times(k, s[p[j]]))
  BY <1>1
<1>5. Dot(n, ks, e) = Times(k, Dot(n, s, e))
  BY DotOfMultiples
<1>6. Dot(n, z, e) = Add(Dot(n, x, e), Dot(n, ks, e))
  <2> HIDE DEF ks
  <2> QED
    BY <1>2, DotOfSums
<1> HIDE DEF z, ks
<1>7. moved = [j \in 1..n |-> z[p[j]]]
  BY <1>4 DEF IsMoved
<1>8. moved \in Vectors(n)
  BY <1>1, <1>3, <1>7 DEF Vectors
<1>9. Dot(n, moved, ep) = Add(Dot(n, x, e), Times(k, Dot(n, s, e)))
  <2>1. Dot(n, [j \in 1..n |-> z[p[j]]], [j \in 1..n |-> e[p[j]]]) = Dot(n, z, e)
    BY <1>3, DotPermuted
  <2> QED
    BY <1>1, <1>5, <1>6, <1>7, <2>1
<1>10. Dot(n, moved, AddEach(TimesAll(v, ep), epsilon))
          = Add(Times(v, Dot(n, moved, ep)), Dot(n, moved, epsilon))
  BY <1>1, <1>8, DotOfResponses
<1> DEFINE b == Dot(n, x, e)
           c == Dot(n, moved, epsilon)
           f == Dot(n, s, e)
<1>11. b \in Scalars /\ c \in Scalars /\ f \in Scalars
  BY <1>8, DotIs
<1> HIDE DEF b, c, f
<1>12. Add(Times(b, v), Add(c, Times(k, Times(Neg(1), phi))))
          = Add(Add(Times(v, Add(b, Times(k, f))), c),
                Times(k, Times(Neg(1), Add(Times(v, f), phi))))
  BY <1>11, Blinded
<1> QED
  BY <1>8, <1>9, <1>10, <1>12 DEF b, c, f

(* What a mixer makes of ciphertexts w.                                    *)
Mixed(n, y, p, w, s) ==
    [j \in 1..n |-> ReEncrypt(y, ApplyInverse(p, w)[j], ApplyInverse(p, s)[j])]

(* The entries of a re-encrypted ciphertext.                               *)
IsMixture(n, y, p, w, s, m) ==
    /\ m \in [1..n -> Ciphertexts]
    /\ \A j \in 1..n : \A x \in 1..BallotWidth :
          /\ m[j].u[x] = Add(w[p[j]].u[x], Times(1, s[p[j]][x]))
          /\ m[j].v[x] = Add(w[p[j]].v[x], Times(y, s[p[j]][x]))

(* A mixer moves the ciphertexts and encrypts them again.                  *)
LEMMA MixedIs ==
    ASSUME NEW n \in Nat, NEW p \in PermutationsOf(n), NEW y \in Scalars,
           NEW w \in [1..n -> Ciphertexts], NEW s \in [1..n -> Vectors(BallotWidth)]
    PROVE  IsMixture(n, y, p, w, s, Mixed(n, y, p, w, s))
<1> DEFINE W == BallotWidth
           m == Mixed(n, y, p, w, s)
           us(j) == [x \in 1..W |-> Add(w[p[j]].u[x], Times(1, s[p[j]][x]))]
           vs(j) == [x \in 1..W |-> Add(w[p[j]].v[x], Times(y, s[p[j]][x]))]
<1>1. \A j \in 1..n : p[j] \in 1..n
  BY DEF PermutationsOf
<1>2. \A i \in 1..n : \A x \in 1..W :
         /\ w[i].u[x] \in Scalars /\ w[i].v[x] \in Scalars /\ s[i][x] \in Scalars
  BY DEF Ciphertexts, Vectors
<1>3. 1 \in Scalars
  BY Closed
<1>4. ASSUME NEW j \in 1..n
      PROVE  /\ us(j) \in Vectors(W) /\ vs(j) \in Vectors(W)
             /\ m[j] = [u |-> us(j), v |-> vs(j)]
  <2> DEFINE i == p[j]
  <2>1. i \in 1..n
    BY <1>1
  <2>2. \A x \in 1..W : Times(1, s[i][x]) \in Scalars /\ Times(y, s[i][x]) \in Scalars
    BY <1>2, <1>3, <2>1, Closed
  <2>3. \A x \in 1..W : /\ Add(w[i].u[x], Times(1, s[i][x])) \in Scalars
                        /\ Add(w[i].v[x], Times(y, s[i][x])) \in Scalars
    BY <1>2, <2>1, <2>2, Closed
  <2>4. us(j) \in Vectors(W) /\ vs(j) \in Vectors(W)
    BY <2>3 DEF Vectors
  <2>5. DOMAIN w[i].u = 1..W /\ DOMAIN w[i].v = 1..W /\ DOMAIN s[i] = 1..W
    BY <2>1 DEF Ciphertexts, Vectors
  <2>6. ApplyInverse(p, w)[j] = w[i] /\ ApplyInverse(p, s)[j] = s[i]
    BY DEF ApplyInverse
  <2>7. m[j] = ReEncrypt(y, w[i], s[i])
    BY <2>6 DEF Mixed
  <2> HIDE DEF m, i, W
  <2>8. MulEach(w[i].u, ReplExp(generator, s[i])) = [x \in 1..W |-> Add(w[i].u[x], Times(1, s[i][x]))]
    BY <2>5 DEF MulEach, ReplExp, Mul, Exp, generator
  <2>9. MulEach(w[i].v, ReplExp(y, s[i])) = [x \in 1..W |-> Add(w[i].v[x], Times(y, s[i][x]))]
    BY <2>5 DEF MulEach, ReplExp, Mul, Exp
  <2> QED
    BY <2>4, <2>7, <2>8, <2>9 DEF ReEncrypt, i
<1>5. DOMAIN m = 1..n /\ m = [j \in 1..n |-> m[j]]
  BY DEF Mixed
<1>6. ASSUME NEW j \in 1..n
      PROVE  m[j] \in Ciphertexts /\ m[j].u = us(j) /\ m[j].v = vs(j)
  <2> DEFINE a == us(j)
             b == vs(j)
  <2>1. a \in Vectors(W) /\ b \in Vectors(W) /\ m[j] = [u |-> a, v |-> b]
    BY <1>4
  <2> HIDE DEF a, b, m
  <2>2. m[j] \in Ciphertexts /\ m[j].u = a /\ m[j].v = b
    BY <2>1 DEF Ciphertexts
  <2> QED
    BY <2>2 DEF a, b
<1>7. m \in [1..n -> Ciphertexts]
  <2> HIDE DEF m
  <2> QED
    BY <1>5, <1>6
<1>8. \A j \in 1..n : \A x \in 1..W :
         /\ us(j)[x] = Add(w[p[j]].u[x], Times(1, s[p[j]][x]))
         /\ vs(j)[x] = Add(w[p[j]].v[x], Times(y, s[p[j]][x]))
  OBVIOUS
<1> HIDE DEF m, us, vs
<1>9. \A j \in 1..n : \A x \in 1..W :
         /\ m[j].u[x] = Add(w[p[j]].u[x], Times(1, s[p[j]][x]))
         /\ m[j].v[x] = Add(w[p[j]].v[x], Times(y, s[p[j]][x]))
  BY <1>6, <1>8
<1> QED
  BY <1>7, <1>9 DEF m, IsMixture

(* Exponents of the re-encryption, weighted.                               *)
LEMMA ResponseIs ==
    ASSUME NEW n \in Nat, NEW m \in Nat, NEW s \in [1..n -> Vectors(m)], NEW e \in Vectors(n)
    PROVE  FoldLeft(AddEach, [i \in 1..m |-> 0], [i \in 1..n |-> TimesAll(e[i], s[i])])
              = WeightedSum(n, m, s, e)
<1>1. \A i \in 1..n : TimesAll(e[i], s[i]) = DistExp(s[i], e[i])
  <2> TAKE i \in 1..n
  <2>1. \A w \in 1..m : Times(e[i], s[i][w]) = Times(s[i][w], e[i])
    BY Commutes DEF Vectors
  <2>2. DOMAIN s[i] = 1..m
    BY DEF Vectors
  <2> QED
    BY <2>1, <2>2 DEF TimesAll, DistExp, Exp
<1> DEFINE rows == [i \in 1..n |-> TimesAll(e[i], s[i])]
           powers == [i \in 1..n |-> DistExp(s[i], e[i])]
<1>2. rows = powers
  BY <1>1
<1>3. VectorSum(m, powers) = WeightedSum(n, m, s, e)
  BY VectorSumIs DEF Vectors
<1> HIDE DEF rows, powers
<1>4. FoldLeft(AddEach, [i \in 1..m |-> 0], rows) = WeightedSum(n, m, s, e)
  BY <1>2, <1>3 DEF VectorSum
<1> QED
  BY <1>4 DEF rows

FifthHolds(y, w, wp, e, ep, epsilon, v, phi, f) ==
    LET big_f_prime == ReEncrypt(y, CiphertextProduct(wp, epsilon), TimesAll(Neg(1), phi))
    IN  /\ big_f_prime \in Ciphertexts
        /\ CiphertextMul(CiphertextExp(CiphertextProduct(w, e), v), big_f_prime)
              = ReEncrypt(y, CiphertextProduct(wp, AddEach(TimesAll(v, ep), epsilon)),
                          TimesAll(Neg(1), AddEach(TimesAll(v, f), phi)))

(* The shuffled ciphertexts, weighted, are the input, weighted, re-        *)
(* encrypted.                                                              *)
LEMMA FifthEquation ==
    ASSUME NEW n \in Nat, NEW p \in PermutationsOf(n), NEW y \in Scalars,
           NEW w \in [1..n -> Ciphertexts], NEW s \in [1..n -> Vectors(BallotWidth)],
           NEW e \in Vectors(n), NEW ep, ep = ApplyInverse(p, e), NEW epsilon \in Vectors(n),
           NEW v \in Scalars, NEW phi \in Vectors(BallotWidth),
           NEW wp, wp = Mixed(n, y, p, w, s), NEW f, f = WeightedSum(n, BallotWidth, s, e)
    PROVE  FifthHolds(y, w, wp, e, ep, epsilon, v, phi, f)
<1> DEFINE W == BallotWidth
           k_e == AddEach(TimesAll(v, ep), epsilon)
           k_f == AddEach(TimesAll(v, f), phi)
           WS(us, es) == WeightedSum(n, W, us, es)
           cu == UsOf(n, w)
           cv == VsOf(n, w)
           mu == UsOf(n, wp)
           mv == VsOf(n, wp)
<1>1. W \in Nat
  BY BallotAssumption
<1>2. /\ wp \in [1..n -> Ciphertexts]
      /\ \A j \in 1..n : \A x \in 1..W :
            /\ wp[j].u[x] = Add(w[p[j]].u[x], Times(1, s[p[j]][x]))
            /\ wp[j].v[x] = Add(w[p[j]].v[x], Times(y, s[p[j]][x]))
  <2> HIDE DEF k_e, k_f, WS, cu, cv, mu, mv
  <2>1. IsMixture(n, y, p, w, s, wp)
    BY MixedIs
  <2> QED
    BY <2>1 DEF IsMixture
<1>3. ep \in Vectors(n) /\ \A j \in 1..n : p[j] \in 1..n
  BY MovedIs
<1>4. k_e \in Vectors(n)
  BY <1>3, ResponsesAre
<1> HIDE DEF k_e
<1>5. /\ cu \in [1..n -> Vectors(W)] /\ cv \in [1..n -> Vectors(W)]
      /\ mu \in [1..n -> Vectors(W)] /\ mv \in [1..n -> Vectors(W)]
  BY <1>2 DEF UsOf, VsOf, Ciphertexts
<1>6. /\ CiphertextProduct(w, e) = [u |-> WS(cu, e), v |-> WS(cv, e)]
      /\ CiphertextProduct(wp, epsilon) = [u |-> WS(mu, epsilon), v |-> WS(mv, epsilon)]
      /\ CiphertextProduct(wp, k_e) = [u |-> WS(mu, k_e), v |-> WS(mv, k_e)]
  BY <1>2, <1>4, CiphertextProductIs DEF Vectors
<1>7. f \in Vectors(W) /\ \A x \in 1..W : /\ Column(n, s, x) \in Vectors(n)
                                         /\ f[x] = Dot(n, Column(n, s, x), e)
  BY <1>1, WeightedSumIs
<1>8. k_f \in Vectors(W) /\ \A x \in 1..W : k_f[x] = Add(Times(v, f[x]), phi[x])
  BY <1>1, <1>7, ResponsesAre
<1> HIDE DEF k_f
<1>9. \A us \in [1..n -> Vectors(W)] : \A es \in Vectors(n) :
         /\ WS(us, es) \in Vectors(W)
         /\ \A x \in 1..W : /\ Column(n, us, x) \in Vectors(n)
                            /\ WS(us, es)[x] = Dot(n, Column(n, us, x), es)
  BY <1>1, WeightedSumIs
<1> HIDE DEF WS
<1> DEFINE bl(k, xs) == ReplExp(k, TimesAll(Neg(1), xs))
<1>10. \A k : \A xs \in Vectors(W) : bl(k, xs) = [x \in 1..W |-> Times(k, Times(Neg(1), xs[x]))]
  BY DEF ReplExp, TimesAll, Exp, Vectors
<1>11. ASSUME NEW k \in Scalars, NEW cs \in [1..n -> Vectors(W)], NEW ms \in [1..n -> Vectors(W)],
              \A j \in 1..n : \A x \in 1..W : ms[j][x] = Add(cs[p[j]][x], Times(k, s[p[j]][x]))
       PROVE  MulEach(DistExp(WS(cs, e), v), MulEach(WS(ms, epsilon), bl(k, phi)))
                 = MulEach(WS(ms, k_e), bl(k, k_f))
  <2> HIDE DEF cu, cv, mu, mv, bl
  <2> DEFINE a == WS(cs, e)
             b == WS(ms, epsilon)
             c == WS(ms, k_e)
             d == bl(k, phi)
             g == bl(k, k_f)
  <2>1. a \in Vectors(W) /\ b \in Vectors(W) /\ c \in Vectors(W)
    BY <1>4, <1>9
  <2>2. d = [x \in 1..W |-> Times(k, Times(Neg(1), phi[x]))]
    BY <1>10
  <2>3. g = [x \in 1..W |-> Times(k, Times(Neg(1), Add(Times(v, f[x]), phi[x])))]
    <3>1. g = [x \in 1..W |-> Times(k, Times(Neg(1), k_f[x]))]
      BY <1>8, <1>10
    <3> HIDE DEF g
    <3> QED
      BY <1>8, <3>1
  <2>4. ASSUME NEW x \in 1..W
        PROVE  Add(Times(a[x], v), Add(b[x], Times(k, Times(Neg(1), phi[x]))))
                  = Add(c[x], Times(k, Times(Neg(1), Add(Times(v, f[x]), phi[x]))))
    <3> DEFINE xs == Column(n, cs, x)
               ss == Column(n, s, x)
               moved == Column(n, ms, x)
    <3>1. /\ a[x] = Dot(n, xs, e) /\ b[x] = Dot(n, moved, epsilon) /\ c[x] = Dot(n, moved, k_e)
          /\ f[x] = Dot(n, ss, e) /\ xs \in Vectors(n) /\ ss \in Vectors(n)
      BY <1>4, <1>7, <1>9
    <3>2. IsMoved(n, p, k, xs, ss, moved)
      BY <1>3, <1>11 DEF Column, IsMoved
    <3>3. phi[x] \in Scalars
      BY DEF Vectors
    <3> HIDE DEF xs, ss, moved, a, b, c
    <3>4. Add(Times(Dot(n, xs, e), v),
              Add(Dot(n, moved, epsilon), Times(k, Times(Neg(1), phi[x]))))
             = Add(Dot(n, moved, AddEach(TimesAll(v, ep), epsilon)),
                   Times(k, Times(Neg(1), Add(Times(v, Dot(n, ss, e)), phi[x]))))
      BY <3>1, <3>2, <3>3, FifthEquationAt
    <3> QED
      BY <3>1, <3>4 DEF k_e
  <2> HIDE DEF a, b, c, d, g
  <2>5. DOMAIN a = 1..W /\ DOMAIN b = 1..W /\ DOMAIN c = 1..W
    BY <2>1 DEF Vectors
  <2>6. MulEach(DistExp(a, v), MulEach(b, d))
           = [x \in 1..W |-> Add(Times(a[x], v), Add(b[x], Times(k, Times(Neg(1), phi[x]))))]
    BY <2>2, <2>5 DEF MulEach, DistExp, Mul, Exp
  <2>7. MulEach(c, g)
           = [x \in 1..W |-> Add(c[x], Times(k, Times(Neg(1), Add(Times(v, f[x]), phi[x]))))]
    BY <2>3, <2>5 DEF MulEach, Mul
  <2>8. MulEach(DistExp(a, v), MulEach(b, d)) = MulEach(c, g)
    BY <2>4, <2>6, <2>7
  <2> QED
    BY <2>8 DEF a, b, c, d, g
<1>12. MulEach(DistExp(WS(cu, e), v), MulEach(WS(mu, epsilon), bl(generator, phi)))
          = MulEach(WS(mu, k_e), bl(generator, k_f))
  <2>1. generator \in Scalars
    BY Closed DEF generator
  <2>2. \A j \in 1..n : \A x \in 1..W :
           mu[j][x] = Add(cu[p[j]][x], Times(generator, s[p[j]][x]))
    BY <1>2, <1>3 DEF UsOf, generator
  <2> HIDE DEF cu, mu, bl
  <2> QED
    BY <1>5, <1>11, <2>1, <2>2
<1>13. MulEach(DistExp(WS(cv, e), v), MulEach(WS(mv, epsilon), bl(y, phi)))
          = MulEach(WS(mv, k_e), bl(y, k_f))
  <2>1. \A j \in 1..n : \A x \in 1..W :
           mv[j][x] = Add(cv[p[j]][x], Times(y, s[p[j]][x]))
    BY <1>2, <1>3 DEF VsOf
  <2> HIDE DEF cv, mv, bl
  <2> QED
    BY <1>5, <1>11, <2>1
<1> DEFINE big_f_prime == ReEncrypt(y, CiphertextProduct(wp, epsilon), TimesAll(Neg(1), phi))
<1> HIDE DEF cu, cv, mu, mv
<1>14. /\ CiphertextProduct(w, e).u = WS(cu, e) /\ CiphertextProduct(w, e).v = WS(cv, e)
       /\ CiphertextProduct(wp, epsilon).u = WS(mu, epsilon)
       /\ CiphertextProduct(wp, epsilon).v = WS(mv, epsilon)
       /\ CiphertextProduct(wp, k_e).u = WS(mu, k_e) /\ CiphertextProduct(wp, k_e).v = WS(mv, k_e)
  BY <1>6
<1>15. big_f_prime = [u |-> MulEach(WS(mu, epsilon), bl(generator, phi)),
                      v |-> MulEach(WS(mv, epsilon), bl(y, phi))]
  BY <1>14 DEF ReEncrypt
<1>16. ReEncrypt(y, CiphertextProduct(wp, k_e), TimesAll(Neg(1), k_f))
          = [u |-> MulEach(WS(mu, k_e), bl(generator, k_f)),
             v |-> MulEach(WS(mv, k_e), bl(y, k_f))]
  BY <1>14 DEF ReEncrypt
<1>17. /\ MulEach(WS(mu, epsilon), bl(generator, phi)) \in Vectors(W)
       /\ MulEach(WS(mv, epsilon), bl(y, phi)) \in Vectors(W)
  <2>1. ASSUME NEW k \in Scalars, NEW bs \in Vectors(W)
        PROVE  MulEach(bs, bl(k, phi)) \in Vectors(W)
    <3> DEFINE c == bl(k, phi)
    <3>1. Neg(1) \in Scalars
      <4>1. 1 \in Scalars
        BY Closed
      <4> QED
        BY <4>1, Closed
    <3>2. \A x \in 1..W : phi[x] \in Scalars
      BY DEF Vectors
    <3>3. \A x \in 1..W : Times(Neg(1), phi[x]) \in Scalars
      BY <3>1, <3>2, Closed
    <3>4. \A x \in 1..W : Times(k, Times(Neg(1), phi[x])) \in Scalars
      BY <3>3, Closed
    <3>5. c \in [1..W -> Scalars]
      <4>1. c = [x \in 1..W |-> Times(k, Times(Neg(1), phi[x]))]
        BY <1>10
      <4> HIDE DEF c
      <4> QED
        BY <3>4, <4>1
    <3> HIDE DEF c, W
    <3>6. MulEach(bs, c) \in [1..W -> Scalars]
      BY <1>1, <3>5, VectorsAre DEF Vectors
    <3> QED
      BY <3>6 DEF c, Vectors
  <2>2. WS(mu, epsilon) \in Vectors(W) /\ WS(mv, epsilon) \in Vectors(W) /\ generator \in Scalars
    BY <1>5, <1>9, Closed DEF generator
  <2> HIDE DEF bl
  <2> QED
    BY <2>1, <2>2
<1> HIDE DEF big_f_prime, bl
<1>18. big_f_prime \in Ciphertexts
  BY <1>15, <1>17 DEF Ciphertexts
<1>19. /\ big_f_prime.u = MulEach(WS(mu, epsilon), bl(generator, phi))
       /\ big_f_prime.v = MulEach(WS(mv, epsilon), bl(y, phi))
  BY <1>15
<1>20. CiphertextMul(CiphertextExp(CiphertextProduct(w, e), v), big_f_prime)
          = ReEncrypt(y, CiphertextProduct(wp, k_e), TimesAll(Neg(1), k_f))
  <2> DEFINE x == CiphertextExp(CiphertextProduct(w, e), v)
             du == DistExp(WS(cu, e), v)
             dv == DistExp(WS(cv, e), v)
  <2>1. x = [u |-> du, v |-> dv]
    BY <1>14 DEF CiphertextExp
  <2> HIDE DEF x, du, dv
  <2>2. x.u = du /\ x.v = dv
    BY <2>1
  <2>3. CiphertextMul(x, big_f_prime) = [u |-> MulEach(WS(mu, k_e), bl(generator, k_f)),
                                         v |-> MulEach(WS(mv, k_e), bl(y, k_f))]
    BY <1>12, <1>13, <1>19, <2>2 DEF CiphertextMul, du, dv
  <2> QED
    BY <1>16, <2>3 DEF x
<1> QED
  BY <1>18, <1>20 DEF big_f_prime, k_e, k_f, FifthHolds

(* Ciphertexts may be hashed.                                              *)
LEMMA SerializedIs ==
    ASSUME NEW n \in Nat, NEW cs \in [1..n -> Ciphertexts]
    PROVE  Serialized(cs) \in Seq(Int)
<1> DEFINE rows == [i \in 1..n |-> cs[i].u \o cs[i].v]
<1>1. ASSUME NEW i \in 1..n PROVE cs[i].u \o cs[i].v \in Seq(Int)
  <2>1. /\ cs[i].u \in [1..BallotWidth -> Scalars] /\ cs[i].v \in [1..BallotWidth -> Scalars]
        /\ BallotWidth \in Nat
    BY BallotAssumption DEF Ciphertexts, Vectors
  <2>2. cs[i].u \in Seq(Int) /\ cs[i].v \in Seq(Int)
    BY <2>1, ListsAreInput
  <2> QED
    BY <2>2, JoinedInput
<1>2. rows \in [1..n -> Seq(Int)]
  BY <1>1
<1>3. Serialized(cs) = FlattenSeq(rows)
  <2>1. DOMAIN cs = 1..n
    OBVIOUS
  <2> QED
    BY <2>1 DEF Serialized
<1> HIDE DEF rows
<1> QED
  BY <1>2, <1>3, FlattenIsInput

(* The challenges of the ciphertexts are scalars.                          *)
LEMMA ChallengeEIs ==
    ASSUME NEW n \in Nat, NEW y \in Scalars, NEW w \in [1..n -> Ciphertexts],
           NEW wp \in [1..n -> Ciphertexts], NEW context \in Seq(Int)
    PROVE  ChallengeE(y, w, wp, context) \in Vectors(n)
<1> DEFINE a == <<9, y>> \o Serialized(w)
           b == a \o Serialized(wp)
           c == b \o context
           bytes == HashToScalar(c)
<1>1. <<9, y>> \in Seq(Int)
  BY ScalarsAreRests
<1>2. Serialized(w) \in Seq(Int) /\ Serialized(wp) \in Seq(Int)
  BY SerializedIs
<1>3. a \in Seq(Int)
  BY <1>1, <1>2, JoinedInput
<1> HIDE DEF a
<1>4. b \in Seq(Int)
  BY <1>2, <1>3, JoinedInput
<1> HIDE DEF b
<1>5. c \in Seq(Int)
  BY <1>4, JoinedInput
<1> HIDE DEF c
<1>6. bytes \in Int
  BY <1>5, HashIs, ScalarsAreRests
<1> HIDE DEF bytes
<1>7. \A i \in 1..n : HashToScalar(<<10, bytes, i>>) \in Scalars
  <2> TAKE i \in 1..n
  <2>1. <<10, bytes, i>> \in Seq(Int)
    BY <1>6
  <2> QED
    BY <2>1, HashIs
<1>8. DOMAIN w = 1..n
  OBVIOUS
<1>9. ChallengeE(y, w, wp, context) = [i \in 1..n |-> HashToScalar(<<10, bytes, i>>)]
  BY <1>8 DEF ChallengeE, bytes, c, b, a
<1> QED
  BY <1>7, <1>9 DEF Vectors

(* The challenge of the proof is a scalar.                                 *)
LEMMA ChallengeVIs ==
    ASSUME NEW n \in Nat, NEW y \in Scalars, NEW t, t.big_b \in Vectors(n),
           t.big_a_prime \in Scalars, t.big_b_prime \in Vectors(n),
           t.big_c_prime \in Scalars, t.big_d_prime \in Scalars,
           t.big_f_prime \in Ciphertexts, NEW context \in Seq(Int)
    PROVE  ChallengeV(y, t, context) \in Scalars
<1> DEFINE a == <<11, y>> \o t.big_b
           b == a \o <<t.big_a_prime>>
           c == b \o t.big_b_prime
           d == c \o <<t.big_c_prime, t.big_d_prime>>
           e == d \o Serialized(<<t.big_f_prime>>)
           f == e \o context
<1>1. /\ <<11, y>> \in Seq(Int) /\ <<t.big_a_prime>> \in Seq(Int)
      /\ <<t.big_c_prime, t.big_d_prime>> \in Seq(Int)
  BY ScalarsAreRests
<1>2. t.big_b \in Seq(Int) /\ t.big_b_prime \in Seq(Int)
  BY ListsAreInput DEF Vectors
<1>3. Serialized(<<t.big_f_prime>>) \in Seq(Int)
  <2>1. <<t.big_f_prime>> \in [1..1 -> Ciphertexts]
    OBVIOUS
  <2> QED
    BY <2>1, SerializedIs
<1>4. a \in Seq(Int)
  BY <1>1, <1>2, JoinedInput
<1> HIDE DEF a
<1>5. b \in Seq(Int)
  BY <1>1, <1>4, JoinedInput
<1> HIDE DEF b
<1>6. c \in Seq(Int)
  BY <1>2, <1>5, JoinedInput
<1> HIDE DEF c
<1>7. d \in Seq(Int)
  BY <1>1, <1>6, JoinedInput
<1> HIDE DEF d
<1>8. e \in Seq(Int)
  BY <1>3, <1>7, JoinedInput
<1> HIDE DEF e
<1>9. f \in Seq(Int)
  BY <1>8, JoinedInput
<1> HIDE DEF f
<1>10. HashToScalar(f) \in Scalars
  BY <1>9, HashIs
<1> QED
  BY <1>10 DEF ChallengeV, f, e, d, c, b, a

(* There is a generator for every ciphertext.                              *)
LEMMA IndGeneratorsAre ==
    ASSUME NEW n \in Nat, NEW label \in Seq(Int)
    PROVE  IndGenerators(n, label) \in Vectors(n)
<1>1. ASSUME NEW i \in 1..n PROVE HashToScalar(<<2, i>> \o label) \in Scalars
  <2>1. <<2, i>> \in Seq(Int)
    OBVIOUS
  <2>2. <<2, i>> \o label \in Seq(Int)
    BY <2>1, JoinedInput
  <2> QED
    BY <2>2, HashIs
<1> QED
  BY <1>1 DEF IndGenerators, Vectors

(* What a mixer draws.                                                     *)
DrawnR(n, place) == RandomScalars(n, Append(place, 1))
DrawnS(n, place) == [i \in 1..n |-> RandomScalars(BallotWidth, place \o <<2, i>>)]

(* What is drawn are scalars, one for every position or entry.             *)
LEMMA DrawnAre ==
    ASSUME NEW n \in Nat, NEW place \in Seq(Int)
    PROVE  /\ \A i \in Nat : /\ RandomScalar(Append(place, i)) \in Scalars
                             /\ RandomScalars(n, Append(place, i)) \in Vectors(n)
                             /\ RandomScalars(BallotWidth, Append(place, i)) \in Vectors(BallotWidth)
           /\ DrawnR(n, place) \in Vectors(n)
           /\ DrawnS(n, place) \in [1..n -> Vectors(BallotWidth)]
<1>1. BallotWidth \in Nat
  BY BallotAssumption
<1>2. \A i \in Nat : Append(place, i) \in Seq(Int)
  OBVIOUS
<1>3. \A i \in Nat : /\ RandomScalar(Append(place, i)) \in Scalars
                     /\ RandomScalars(n, Append(place, i)) \in Vectors(n)
                     /\ RandomScalars(BallotWidth, Append(place, i)) \in Vectors(BallotWidth)
  BY <1>1, <1>2, RandomIs DEF Vectors
<1>4. \A i \in 1..n : RandomScalars(BallotWidth, place \o <<2, i>>) \in Vectors(BallotWidth)
  <2> TAKE i \in 1..n
  <2>1. <<2, i>> \in Seq(Int)
    OBVIOUS
  <2>2. place \o <<2, i>> \in Seq(Int)
    BY <2>1, JoinedInput
  <2> QED
    BY <1>1, <2>2, RandomIs DEF Vectors
<1> QED
  BY <1>3, <1>4 DEF DrawnR, DrawnS

(* The first part of a shuffle, by these names.                            *)
LEMMA PermutationApplied ==
    ASSUME NEW n \in Nat, NEW h, NEW y, NEW p, NEW w \in [1..n -> Ciphertexts], NEW place
    PROVE  ApplyPermutation(h, y, p, w, place)
              = [r |-> DrawnR(n, place), s |-> DrawnS(n, place),
                 u |-> Committed(p, DrawnR(n, place), h),
                 w_prime |-> Mixed(n, y, p, w, DrawnS(n, place))]
<1>1. Len(w) = n
  OBVIOUS
<1> QED
  BY <1>1 DEF ApplyPermutation, DrawnR, DrawnS, Committed, Mixed

(* The proof a mixer gives verifies.                                       *)
LEMMA ShuffleIsVerified ==
    ASSUME NEW n \in Nat \ {0}, NEW h \in Vectors(n), NEW y \in Scalars,
           NEW w \in [1..n -> Ciphertexts], NEW p \in PermutationsOf(n),
           NEW context \in Seq(Int), NEW place \in Seq(Int)
    PROVE  LET mix == Shuffle(h, y, w, p, context, place)
           IN  /\ mix.w_prime = Mixed(n, y, p, w, DrawnS(n, place))
               /\ VerifyShuffle(h, y, w, mix.w_prime, mix.proof, context)
<1> DEFINE W == BallotWidth
           r == DrawnR(n, place)
           s == DrawnS(n, place)
           u == Committed(p, r, h)
           wp == Mixed(n, y, p, w, s)
           e == ChallengeE(y, w, wp, context)
           ep == ApplyInverse(p, e)
           b == RandomScalars(n, Append(place, 3))
           big_b == Bridges(h, b, ep)
           alpha == RandomScalar(Append(place, 4))
           beta == RandomScalars(n, Append(place, 5))
           epsilon == RandomScalars(n, Append(place, 6))
           gamma == RandomScalar(Append(place, 7))
           delta == RandomScalar(Append(place, 8))
           phi == RandomScalars(W, Append(place, 9))
           a_prime == Mul(Exp(generator, alpha), Product(ExpEach(h, epsilon)))
           b_prime == MulEach(ReplExp(generator, beta), ExpEach(Previous(h, big_b), epsilon))
           c_prime == Exp(generator, gamma)
           d_prime == Exp(generator, delta)
           f_prime == ReEncrypt(y, CiphertextProduct(wp, epsilon), TimesAll(Neg(1), phi))
           t == [big_b |-> big_b, big_a_prime |-> a_prime, big_b_prime |-> b_prime,
                 big_c_prime |-> c_prime, big_d_prime |-> d_prime, big_f_prime |-> f_prime,
                 u |-> u]
           v == ChallengeV(y, t, context)
           f == FoldLeft(AddEach, [i \in 1..W |-> 0], [i \in 1..n |-> TimesAll(e[i], s[i])])
           k_a == Add(Times(v, SumOf(TimesEach(r, ep))), alpha)
           k_b == AddEach(TimesAll(v, b), beta)
           k_c == Add(Times(v, SumOf(r)), gamma)
           k_d == Add(Times(v, BridgeExponent(b, ep)), delta)
           k_e == AddEach(TimesAll(v, ep), epsilon)
           k_f == AddEach(TimesAll(v, f), phi)
           proof == [commitments |-> t, k_a |-> k_a, k_b |-> k_b, k_c |-> k_c, k_d |-> k_d,
                     k_e |-> k_e, k_f |-> k_f]
           data == ApplyPermutation(h, y, p, w, place)
           mix == Shuffle(h, y, w, p, context, place)
<1>1. n \in Nat /\ W \in Nat /\ Len(w) = n
  BY BallotAssumption
<1>2. /\ r \in Vectors(n) /\ s \in [1..n -> Vectors(W)]
      /\ b \in Vectors(n) /\ beta \in Vectors(n) /\ epsilon \in Vectors(n) /\ phi \in Vectors(W)
      /\ alpha \in Scalars /\ gamma \in Scalars /\ delta \in Scalars
  BY <1>1, DrawnAre
<1>3. data.r = r /\ data.s = s /\ data.u = u /\ data.w_prime = wp
  <2>1. data = [r |-> r, s |-> s, u |-> u, w_prime |-> wp]
    BY <1>1, PermutationApplied
  <2> HIDE DEF data, r, s, u, wp
  <2> QED
    BY <2>1
<1> HIDE DEF data
<1>4. mix = [w_prime |-> wp, proof |-> proof]
  <2> DEFINE drawn(i) == RandomScalars(n, Append(place, i))
             mixed(R, S, U, WP) ==
                LET challenge == ChallengeE(y, w, WP, context)
                    moved == ApplyInverse(p, challenge)
                    bridges == Bridges(h, drawn(3), moved)
                    commitments ==
                       [big_b |-> bridges,
                        big_a_prime |-> Mul(Exp(generator, alpha), Product(ExpEach(h, drawn(6)))),
                        big_b_prime |-> MulEach(ReplExp(generator, drawn(5)),
                                                ExpEach(Previous(h, bridges), drawn(6))),
                        big_c_prime |-> Exp(generator, gamma),
                        big_d_prime |-> Exp(generator, delta),
                        big_f_prime |-> ReEncrypt(y, CiphertextProduct(WP, drawn(6)),
                                                  TimesAll(Neg(1), phi)),
                        u |-> U]
                    answer == ChallengeV(y, commitments, context)
                    sums == FoldLeft(AddEach, [i \in 1..W |-> 0],
                                     [i \in 1..n |-> TimesAll(challenge[i], S[i])])
                IN  [w_prime |-> WP,
                     proof |->
                        [commitments |-> commitments,
                         k_a |-> Add(Times(answer, SumOf(TimesEach(R, moved))), alpha),
                         k_b |-> AddEach(TimesAll(answer, drawn(3)), drawn(5)),
                         k_c |-> Add(Times(answer, SumOf(R)), gamma),
                         k_d |-> Add(Times(answer, BridgeExponent(drawn(3), moved)), delta),
                         k_e |-> AddEach(TimesAll(answer, moved), drawn(6)),
                         k_f |-> AddEach(TimesAll(answer, sums), phi)]]
  <2>1. mix = mixed(data.r, data.s, data.u, data.w_prime)
    BY <1>1 DEF Shuffle, Permuted, data
  <2>2. mixed(r, s, u, wp) = [w_prime |-> wp, proof |-> proof]
    <3> HIDE DEF r, s, u, wp
    <3> QED
      OBVIOUS
  <2> HIDE DEF mix, mixed, r, s, u, wp, proof
  <2> QED
    BY <1>3, <2>1, <2>2
<1>5. mix.w_prime = wp /\ mix.proof = proof
  <2> HIDE DEF mix, wp, proof
  <2> QED
    BY <1>4
<1> HIDE DEF mix, r, s, b, alpha, beta, epsilon, gamma, delta, phi
<1>6. wp \in [1..n -> Ciphertexts]
  <2>1. IsMixture(n, y, p, w, s, wp)
    BY <1>1, <1>2, MixedIs
  <2> HIDE DEF wp
  <2> QED
    BY <2>1 DEF IsMixture
<1>7. wp = Mixed(n, y, p, w, s)
  OBVIOUS
<1> HIDE DEF wp
<1>8. e \in Vectors(n)
  BY <1>1, <1>6, ChallengeEIs
<1>9. e = ChallengeE(y, w, wp, context)
  OBVIOUS
<1> HIDE DEF e
<1>10. ep \in Vectors(n) /\ ep = ApplyInverse(p, e)
  BY <1>1, <1>8, MovedIs
<1>11. u \in Vectors(n)
  BY <1>1, <1>2, CommittedIs
<1>12. f = WeightedSum(n, W, s, e)
  BY <1>1, <1>2, <1>8, ResponseIs
<1> HIDE DEF ep, f
<1>13. big_b \in Vectors(n) /\ big_b = Bridges(h, b, ep)
  BY <1>2, <1>8, <1>10, FourthEquation
<1> HIDE DEF big_b
<1>14. a_prime \in Scalars /\ c_prime \in Scalars /\ d_prime \in Scalars
  <2>1. c_prime = gamma /\ d_prime = delta /\ Exp(generator, alpha) = alpha
    BY <1>2, PowerOfGenerator
  <2>2. Product(ExpEach(h, epsilon)) = Dot(n, h, epsilon) /\ Dot(n, h, epsilon) \in Scalars
    BY <1>1, <1>2, DotsAre, DotIs
  <2>3. a_prime \in Scalars
    BY <1>2, <2>1, <2>2, Closed DEF Mul
  <2> QED
    BY <1>2, <2>1, <2>3
<1>15. b_prime \in Vectors(n)
  <2> DEFINE q == Previous(h, big_b)
  <2>1. q \in Vectors(n)
    <3>1. h[1] \in Scalars
      BY DEF Vectors
    <3> QED
      BY <1>13, <3>1, PreviousIs
  <2> HIDE DEF q
  <2> DEFINE x == ReplExp(generator, beta)
             z == ExpEach(q, epsilon)
  <2>2. x \in [1..n -> Scalars] /\ z \in [1..n -> Scalars]
    <3>1. 1 \in Scalars /\ generator \in Scalars
      BY <1>2, Closed DEF generator
    <3> QED
      BY <1>1, <1>2, <2>1, <3>1, VectorsAre DEF Vectors
  <2> HIDE DEF x, z
  <2>3. MulEach(x, z) \in [1..n -> Scalars]
    BY <1>1, <1>2, <2>2, VectorsAre
  <2> QED
    BY <2>3 DEF x, z, q, Vectors
<1>16. f_prime \in Ciphertexts
  <2>1. 1 \in Scalars
    BY <1>2, Closed
  <2>2. FifthHolds(y, w, wp, e, ep, epsilon, 1, phi, f)
    BY <1>1, <1>2, <1>6, <1>7, <1>8, <1>10, <1>12, <2>1, FifthEquation
  <2> QED
    BY <2>2 DEF FifthHolds
<1> HIDE DEF u, a_prime, b_prime, c_prime, d_prime, f_prime
<1>17. /\ t.big_b = big_b /\ t.big_a_prime = a_prime /\ t.big_b_prime = b_prime
       /\ t.big_c_prime = c_prime /\ t.big_d_prime = d_prime /\ t.big_f_prime = f_prime
       /\ t.u = u
  OBVIOUS
<1> HIDE DEF t
<1>18. v \in Scalars
  BY <1>1, <1>13, <1>14, <1>15, <1>16, <1>17, ChallengeVIs
<1>19. v = ChallengeV(y, t, context)
  OBVIOUS
<1> HIDE DEF v
<1>20. Mul(Exp(Product(ExpEach(u, e)), v), a_prime)
          = Mul(Exp(generator, k_a), Product(ExpEach(h, k_e)))
  BY <1>1, <1>2, <1>8, <1>10, <1>18, FirstEquation DEF u, a_prime
<1>21. /\ Len(b_prime) = n
       /\ MulEach(DistExp(big_b, v), b_prime)
             = MulEach(ReplExp(generator, k_b), ExpEach(Previous(h, big_b), k_e))
  BY <1>2, <1>10, <1>13, <1>18, SecondEquation DEF b_prime
<1>22. Mul(Exp(Mul(Product(u), Inv(Product(h))), v), c_prime) = Exp(generator, k_c)
  BY <1>1, <1>2, <1>18, ThirdEquation DEF u, c_prime
<1>23. Mul(Exp(Mul(big_b[n], Inv(Exp(h[1], ProductOf(e)))), v), d_prime) = Exp(generator, k_d)
  BY <1>2, <1>8, <1>10, <1>13, <1>18, FourthEquation DEF d_prime
<1>24. CiphertextMul(CiphertextExp(CiphertextProduct(w, e), v), f_prime)
          = ReEncrypt(y, CiphertextProduct(wp, k_e), TimesAll(Neg(1), k_f))
  <2> HIDE DEF k_a, k_b, k_c, k_d, k_e, k_f
  <2>1. CiphertextMul(CiphertextExp(CiphertextProduct(w, e), v),
            ReEncrypt(y, CiphertextProduct(wp, epsilon), TimesAll(Neg(1), phi)))
           = ReEncrypt(y, CiphertextProduct(wp, AddEach(TimesAll(v, ep), epsilon)),
                       TimesAll(Neg(1), AddEach(TimesAll(v, f), phi)))
    <3> HIDE DEF W
    <3>1. /\ n \in Nat /\ s \in [1..n -> Vectors(BallotWidth)] /\ e \in Vectors(n)
          /\ ep = ApplyInverse(p, e) /\ epsilon \in Vectors(n) /\ v \in Scalars
          /\ phi \in Vectors(BallotWidth) /\ wp = Mixed(n, y, p, w, s)
          /\ f = WeightedSum(n, BallotWidth, s, e)
      BY <1>1, <1>2, <1>7, <1>8, <1>10, <1>12, <1>18 DEF W
    <3>2. FifthHolds(y, w, wp, e, ep, epsilon, v, phi, f)
      BY <3>1, FifthEquation
    <3> QED
      BY <3>2 DEF FifthHolds
  <2> QED
    BY <2>1 DEF f_prime, k_e, k_f
<1>25. Len(wp) = n /\ Len(h) = n /\ Len(big_b) = n /\ Len(u) = n
  BY <1>6, <1>11, <1>13 DEF Vectors
<1> HIDE DEF k_a, k_b, k_c, k_d, k_e, k_f
<1>26. /\ proof.commitments = t /\ proof.k_a = k_a /\ proof.k_b = k_b /\ proof.k_c = k_c
       /\ proof.k_d = k_d /\ proof.k_e = k_e /\ proof.k_f = k_f
  OBVIOUS
<1> HIDE DEF proof
<1>27. VerifyShuffle(h, y, w, wp, proof, context)
  BY <1>1, <1>9, <1>17, <1>19, <1>20, <1>21, <1>22, <1>23, <1>24, <1>25, <1>26
     DEF VerifyShuffle
<1> QED
  BY <1>5, <1>27 DEF mix, wp, s

-------------------------------------------------------------------------------
(* What is right at every stage of an election: everything but what is     *)
(* altered or made for something else, and what is computed from that.     *)

(* The fault is one of these kinds, of the i-th ballot, mix or trustee.    *)
FaultyAt(kinds, i) == fault.what \in kinds /\ fault.of = i

ShownFaults == {"Ciphertext", "Randomizers", "CheckContext"}
MixFaults == {"MixOutput", "MixCopy", "MixContext"}
FactorFaults == {"Factor", "FactorContext", "Source"}

(* The kinds that change ballots on their way to the decryption.           *)
BallotFaults == {"Ciphertext", "MixOutput", "MixCopy"}

IsList(s) == Len(s) \in Nat /\ s = [i \in 1..Len(s) |-> s[i]]

CastIsRight(v) ==
    LET sent == EncryptBallot(cast[v].ballot, ElectionPk, ELECTION, v, <<run, 4, v>>)
    IN  /\ cast[v].ballot \in Ballots
        /\ cast[v].randomizers = sent.randomizers
        /\ cast[v].ciphertext.u_b \in Vectors(BallotWidth)
        /\ cast[v].ciphertext.v_b \in Vectors(BallotWidth)
        /\ ~FaultyAt({"Ciphertext"}, v) => cast[v].ciphertext = sent.ciphertext
CastAreRight ==
    /\ IsList(cast) /\ Len(cast) <= NumVoters
    /\ Len(cast) # 0 => KeyGenerated
    /\ \A v \in 1..Len(cast) : CastIsRight(v)

ChecksAreRight ==
    /\ DOMAIN checks = Voters
    /\ \A v \in Voters : checks[v] # None =>
          /\ Len(cast) = NumVoters
          /\ ~FaultyAt(ShownFaults, v) => IsOnly(cast[v].ballot, checks[v].shown)

(* The ballots cast, in another order, encrypted.                          *)
Moved(p) == [j \in 1..NumVoters |-> EncodeBallot(cast[p[j]].ballot)]
IsMix(list) ==
    \E p \in PermutationsOf(NumVoters), s \in [1..NumVoters -> Vectors(BallotWidth)] :
        list = Encrypted(NumVoters, Moved(p), s)

MixVerifies(k, input) ==
    VerifyShuffle(IndGenerators(NumVoters, ShuffleContext(ELECTION)), ElectionPk.pk_b,
                  input, mixes[k].w_prime, mixes[k].proof, ShuffleContext(ELECTION))
MixIsRight(k) ==
    /\ mixes[k] = [w_prime |-> mixes[k].w_prime, proof |-> mixes[k].proof,
                   verdict |-> mixes[k].verdict]
    /\ mixes[k].verdict \in {"Pending", "Signed", "Refused"}
    /\ mixes[k].w_prime \in [1..NumVoters -> Ciphertexts]
    /\ ~FaultyAt(MixFaults, k) => MixVerifies(k, MixInput(k)) /\ mixes[k].verdict # "Refused"
    /\ fault.what \notin BallotFaults => IsMix(mixes[k].w_prime)
MixesAreRight ==
    /\ IsList(mixes)
    /\ Len(mixes) # 0 => Len(cast) = NumVoters
    /\ \A k \in 1..Len(mixes) : MixIsRight(k)

FactorsAreRight ==
    /\ DOMAIN factors = Positions
    /\ \A t \in Positions : factors[t] # None =>
          /\ Len(mixes) = Threshold
          /\ ~FaultyAt(FactorFaults, t) =>
                /\ AreFactors(NumVoters, t, FinalMix, factors[t])
                /\ fault.what # "FactorMissing" => Len(factors[t]) = NumVoters

(* A factor that was combined is not right.                                *)
UsesFaulty(present) == \E i \in DOMAIN present : FaultyAt(FactorFaults, present[i])
BallotsOut(p, len) == [j \in 1..len |-> cast[p[j]].ballot]
PlaintextsAreRight ==
    plaintexts # None =>
        /\ Len(cast) = NumVoters
        /\ fault.what \notin BallotFaults /\ ~UsesFaulty(plaintexts.present) =>
              /\ plaintexts.ok
              /\ \E p \in PermutationsOf(NumVoters), len \in 0..NumVoters :
                    /\ plaintexts.ballots = BallotsOut(p, len)
                    /\ fault.what # "FactorMissing" => len = NumVoters

ElectionIsRight ==
    CastAreRight /\ ChecksAreRight /\ MixesAreRight /\ FactorsAreRight /\ PlaintextsAreRight

(* A list with one entry more.                                             *)
LEMMA AppendIs ==
    ASSUME NEW s, IsList(s), NEW x
    PROVE  /\ IsList(Append(s, x)) /\ Len(Append(s, x)) = Len(s) + 1
           /\ \A i \in 1..Len(s) : Append(s, x)[i] = s[i]
           /\ Append(s, x)[Len(s) + 1] = x
<1> DEFINE n == Len(s)
           S == {s[i] : i \in 1..n} \cup {x}
<1>1. n \in Nat /\ s = [i \in 1..n |-> s[i]]
  BY DEF IsList
<1>2. \A i \in 1..n : s[i] \in S
  OBVIOUS
<1>3. x \in S
  OBVIOUS
<1> HIDE DEF S
<1>4. s \in [1..n -> S]
  BY <1>1, <1>2
<1>5. s \in Seq(S)
  BY <1>1, <1>4, SeqDef
<1> DEFINE t == Append(s, x)
<1>6. /\ t \in Seq(S) /\ Len(t) = n + 1
      /\ \A i \in 1..n : t[i] = s[i]
      /\ t[n + 1] = x
  BY <1>3, <1>5, AppendProperties
<1> HIDE DEF t
<1>7. t = [i \in 1..Len(t) |-> t[i]]
  BY <1>6, LenProperties
<1> QED
  BY <1>1, <1>6, <1>7 DEF IsList, t

(* There are voters, at positions from 1.                                  *)
LEMMA VotersAre == NumVoters \in Nat /\ NumVoters >= 1 /\ Voters = 1..NumVoters
  BY RunsAssumption DEF Voters

(* A fault comes only where there was none.                                *)
Graver == fault' = fault \/ fault = NoFault

(* A fault that is there is not replaced.                                  *)
LEMMA FaultsRemain ==
    ASSUME Graver, NEW kinds, "None" \notin kinds, fault'.what \notin kinds
    PROVE  fault.what \notin kinds
<1>1. NoFault.what = "None"
  BY DEF NoFault
<1> QED
  BY <1>1 DEF Graver

(* Nor is one that is there moved to something else.                       *)
LEMMA FaultsStay ==
    ASSUME Graver, NEW kinds, "None" \notin kinds, NEW i, ~FaultyAt(kinds, i)'
    PROVE  ~FaultyAt(kinds, i)
<1>1. NoFault.what = "None"
  BY DEF NoFault
<1> QED
  BY <1>1 DEF Graver, FaultyAt

(* Where there is no fault after a step there was none before.             *)
LEMMA FaultsWereThere ==
    ASSUME Graver
    PROVE  /\ fault'.what # "FactorMissing" => fault.what # "FactorMissing"
           /\ fault'.what \notin BallotFaults => fault.what \notin BallotFaults
           /\ \A i : /\ ~FaultyAt({"Ciphertext"}, i)' => ~FaultyAt({"Ciphertext"}, i)
                     /\ ~FaultyAt(ShownFaults, i)' => ~FaultyAt(ShownFaults, i)
                     /\ ~FaultyAt(MixFaults, i)' => ~FaultyAt(MixFaults, i)
                     /\ ~FaultyAt(FactorFaults, i)' => ~FaultyAt(FactorFaults, i)
           /\ \A present : ~UsesFaulty(present)' => ~UsesFaulty(present)
<1>1. /\ "None" \notin {"FactorMissing"} /\ "None" \notin BallotFaults
      /\ "None" \notin {"Ciphertext"} /\ "None" \notin ShownFaults
      /\ "None" \notin MixFaults /\ "None" \notin FactorFaults
  BY DEF BallotFaults, ShownFaults, MixFaults, FactorFaults
<1>2. fault'.what \notin {"FactorMissing"} => fault.what \notin {"FactorMissing"}
  BY <1>1, FaultsRemain
<1>3. fault'.what \notin BallotFaults => fault.what \notin BallotFaults
  BY <1>1, FaultsRemain
<1>4. \A i : /\ ~FaultyAt({"Ciphertext"}, i)' => ~FaultyAt({"Ciphertext"}, i)
             /\ ~FaultyAt(ShownFaults, i)' => ~FaultyAt(ShownFaults, i)
             /\ ~FaultyAt(MixFaults, i)' => ~FaultyAt(MixFaults, i)
             /\ ~FaultyAt(FactorFaults, i)' => ~FaultyAt(FactorFaults, i)
  <2> TAKE i
  <2>1. ~FaultyAt({"Ciphertext"}, i)' => ~FaultyAt({"Ciphertext"}, i)
    BY <1>1, FaultsStay
  <2>2. ~FaultyAt(ShownFaults, i)' => ~FaultyAt(ShownFaults, i)
    BY <1>1, FaultsStay DEF ShownFaults, FaultyAt
  <2>3. ~FaultyAt(MixFaults, i)' => ~FaultyAt(MixFaults, i)
    BY <1>1, FaultsStay DEF MixFaults, FaultyAt
  <2>4. ~FaultyAt(FactorFaults, i)' => ~FaultyAt(FactorFaults, i)
    BY <1>1, FaultsStay DEF FactorFaults, FaultyAt
  <2> QED
    BY <2>1, <2>2, <2>3, <2>4
<1>5. \A present : ~UsesFaulty(present)' => ~UsesFaulty(present)
  BY <1>4 DEF UsesFaulty
<1> QED
  BY <1>2, <1>3, <1>4, <1>5

(* The ballots cast are right until another is cast.                       *)
LEMMA CastKept ==
    ASSUME CastAreRight, UNCHANGED <<run, recipients, cast>>, Graver
    PROVE  CastAreRight'
<1>1. ASSUME NEW v, CastIsRight(v)
      PROVE  CastIsRight(v)'
  BY <1>1, FaultsWereThere DEF CastIsRight, ElectionPk
<1> QED
  BY <1>1 DEF CastAreRight, IsList, KeyGenerated, Holds

(* The checks are right until another is made.                             *)
LEMMA ChecksKept ==
    ASSUME ChecksAreRight, UNCHANGED <<cast, checks>>, Graver
    PROVE  ChecksAreRight'
  BY FaultsWereThere DEF ChecksAreRight

(* The mixes are right until one is made or signed.                        *)
LEMMA MixesKept ==
    ASSUME MixesAreRight, UNCHANGED <<run, recipients, cast, mixes>>, Graver
    PROVE  MixesAreRight'
<1>1. ElectionPk' = ElectionPk
  BY DEF ElectionPk
<1>2. \A p : Moved(p)' = Moved(p)
  BY DEF Moved
<1>3. \A n, msg, s : Encrypted(n, msg, s)' = Encrypted(n, msg, s)
  BY <1>1 DEF Encrypted
<1>4. \A list : IsMix(list)' <=> IsMix(list)
  BY <1>1, <1>2 DEF IsMix, Encrypted
<1>5. \A k : MixInput(k)' = MixInput(k)
  BY <1>1 DEF MixInput, Stripped
<1>6. \A k, input : MixVerifies(k, input)' <=> MixVerifies(k, input)
  BY <1>1 DEF MixVerifies
<1>7. \A k : MixIsRight(k) => MixIsRight(k)'
  BY <1>4, <1>5, <1>6, FaultsWereThere DEF MixIsRight
<1> QED
  BY <1>7 DEF MixesAreRight, IsList

(* The factors are right until a trustee posts more.                       *)
LEMMA FactorsKept ==
    ASSUME FactorsAreRight, UNCHANGED <<run, recipients, mixes, factors>>, Graver
    PROVE  FactorsAreRight'
<1>1. FinalMix' = FinalMix
  BY DEF FinalMix
<1>2. \A t, fs : AreFactors(NumVoters, t, FinalMix, fs)' <=> AreFactors(NumVoters, t, FinalMix, fs)
  BY <1>1 DEF AreFactors, FactorsOf
<1> QED
  BY <1>2, FaultsWereThere DEF FactorsAreRight

(* The plaintexts are right once they are computed.                        *)
LEMMA PlaintextsKept ==
    ASSUME PlaintextsAreRight, UNCHANGED <<cast, plaintexts>>, Graver
    PROVE  PlaintextsAreRight'
<1>1. \A p, len : BallotsOut(p, len)' = BallotsOut(p, len)
  BY DEF BallotsOut
<1> QED
  BY <1>1, FaultsWereThere DEF PlaintextsAreRight

(* An action that may fail leaves the election as right as it was.         *)
LEMMA MayFailIsGraver ==
    ASSUME NEW kinds, MayFail(kinds)
    PROVE  Graver
  BY DEF MayFail, Graver

(* In the beginning nothing is cast.                                       *)
LEMMA ElectionIsRightInit == Init => ElectionIsRight
<1> SUFFICES ASSUME Init PROVE ElectionIsRight
  OBVIOUS
<1>1. 1 \in 1..Threshold /\ Threshold \in Nat
  BY DealerIs, VotersAre
<1>2. IsList(<< >>) /\ Len(<< >>) = 0
  <2>1. << >> = [i \in 1..0 |-> << >>[i]]
    OBVIOUS
  <2> QED
    BY <2>1 DEF IsList
<1>3. CastAreRight
  BY <1>1, <1>2, VotersAre DEF Init, CastAreRight
<1>4. ChecksAreRight
  BY DEF Init, ChecksAreRight
<1>5. MixesAreRight
  BY <1>2 DEF Init, MixesAreRight
<1>6. FactorsAreRight
  BY DEF Init, FactorsAreRight
<1>7. PlaintextsAreRight
  BY DEF Init, PlaintextsAreRight
<1> QED
  BY <1>3, <1>4, <1>5, <1>6, <1>7 DEF ElectionIsRight

(* Before all ballots are cast, nothing is checked, mixed or decrypted.    *)
LEMMA NotYetCast ==
    ASSUME ElectionIsRight, Len(cast) # NumVoters
    PROVE  /\ \A v \in Voters : checks[v] = None
           /\ mixes = << >> /\ Len(mixes) = 0
           /\ \A t \in Positions : factors[t] = None
           /\ plaintexts = None
<1>1. Threshold \in Nat /\ Threshold >= 1
  BY DealerIs
<1>2. Len(mixes) = 0
  BY DEF ElectionIsRight, MixesAreRight
<1>3. mixes = << >>
  BY <1>2 DEF ElectionIsRight, MixesAreRight, IsList
<1> QED
  BY <1>1, <1>2, <1>3 DEF ElectionIsRight, ChecksAreRight, FactorsAreRight, PlaintextsAreRight

(* The key is generated once and for all.                                  *)
LEMMA KeyIsComplete ==
    ASSUME KeyInv, KeyGenerated
    PROVE  AllDealt /\ \A t \in Positions : recipients[t] # None
<1>1. 1 \in Positions
  BY DealerIs
<1> QED
  BY <1>1 DEF KeyInv, RecipientsAreRight, KeyGenerated, Holds

(* What is not cast, checked, mixed or decrypted stays right.              *)
LEMMA ElectionStays ==
    ASSUME ElectionIsRight, Graver,
           UNCHANGED <<run, recipients, cast, checks, mixes, factors, plaintexts>>
    PROVE  ElectionIsRight'
  BY CastKept, ChecksKept, MixesKept, FactorsKept, PlaintextsKept DEF ElectionIsRight

(* A dealer posts nothing that a later phase depends on.                   *)
LEMMA RightAfterComputeShares ==
    ASSUME ElectionIsRight, NEW d \in Positions, ComputeShares(d)
    PROVE  ElectionIsRight'
<1>1. Graver
  BY MayFailIsGraver DEF ComputeShares
<1> QED
  BY <1>1, ElectionStays DEF ComputeShares

(* No ballot is cast before the last trustee has its key.                  *)
LEMMA RightAfterComputePublicKey ==
    ASSUME KeyInv, ElectionIsRight, NEW t \in Positions, ComputePublicKey(t)
    PROVE  ElectionIsRight'
<1>1. ~KeyGenerated
  BY KeyIsComplete DEF ComputePublicKey
<1>2. Len(cast) = 0 /\ IsList(cast) /\ NumVoters >= 1 /\ NumVoters \in Nat
  BY <1>1, VotersAre DEF ElectionIsRight, CastAreRight
<1>3. /\ \A v \in Voters : checks[v] = None
      /\ mixes = << >> /\ Len(mixes) = 0
      /\ \A s \in Positions : factors[s] = None
      /\ plaintexts = None
  BY <1>2, NotYetCast
<1>4. UNCHANGED <<cast, checks, mixes, factors, plaintexts>>
  BY DEF ComputePublicKey
<1>5. CastAreRight'
  BY <1>2, <1>4 DEF CastAreRight, IsList
<1>6. ChecksAreRight'
  BY <1>3, <1>4 DEF ElectionIsRight, ChecksAreRight
<1>7. MixesAreRight'
  BY <1>3, <1>4 DEF ElectionIsRight, MixesAreRight, IsList
<1>8. FactorsAreRight'
  BY <1>3, <1>4 DEF ElectionIsRight, FactorsAreRight
<1>9. PlaintextsAreRight'
  BY <1>3, <1>4 DEF PlaintextsAreRight
<1> QED
  BY <1>5, <1>6, <1>7, <1>8, <1>9 DEF ElectionIsRight

(* A ballot encrypted is a pair of vectors, even if it is altered.         *)
LEMMA CiphertextsAre ==
    ASSUME KeyInv, KeyGenerated, NEW v \in Voters, NEW ballot \in Ballots
    PROVE  LET c == EncryptBallot(ballot, ElectionPk, ELECTION, v, <<run, 4, v>>).ciphertext
               d == [c EXCEPT !.v_b = DistExp(@, 2)]
           IN  /\ c.u_b \in Vectors(BallotWidth) /\ c.v_b \in Vectors(BallotWidth)
               /\ d.u_b \in Vectors(BallotWidth) /\ d.v_b \in Vectors(BallotWidth)
<1> DEFINE W == BallotWidth
           pk == ElectionPk
           place == <<run, 4, v>>
           r == RandomScalars(W, Append(place, 0))
           message == EncodeBallot(ballot)
           sent == EncryptBallot(ballot, pk, ELECTION, v, place)
           c == sent.ciphertext
           d == [c EXCEPT !.v_b = DistExp(@, 2)]
<1>1. W \in Nat /\ v \in Int /\ ELECTION \in Int /\ 2 \in Scalars
  BY BallotAssumption, VotersAre, OrderIs DEF ELECTION, Scalars
<1>2. pk.pk_b \in Scalars /\ pk.pk_a \in Scalars
  BY KeysAre
<1>3. place \in Seq(Int)
  BY <1>1 DEF KeyInv, RunIsNumber
<1> HIDE DEF pk, place
<1>4. sent.randomizers = r
  BY DEF EncryptBallot
<1>5. r \in [1..W -> Scalars]
  <2>1. sent.randomizers \in [1..BallotWidth -> Scalars]
    BY <1>1, <1>2, <1>3, BallotIsDisplayed
  <2> QED
    BY <1>4, <2>1
<1>6. message \in [1..W -> Scalars]
  BY EncodeBallotIs
<1>7. /\ c.u_b = ReplExp(generator, r)
      /\ c.v_b = MulEach(message, ReplExp(pk.pk_b, r))
      /\ d.u_b = c.u_b /\ d.v_b = DistExp(c.v_b, 2)
  BY DEF EncryptBallot, NYEncryptWithR
<1> HIDE DEF r, message, c, d
<1>8. ReplExp(generator, r) = r /\ ReplExp(pk.pk_b, r) \in [1..W -> Scalars]
  BY <1>1, <1>2, <1>5, VectorsAre
<1>9. c.v_b \in [1..W -> Scalars]
  BY <1>1, <1>6, <1>7, <1>8, VectorsAre
<1>10. DistExp(c.v_b, 2) \in [1..W -> Scalars]
  BY <1>1, <1>9, VectorsAre
<1> QED
  BY <1>5, <1>7, <1>8, <1>9, <1>10 DEF Vectors, c, d, pk, place

(* The next ballot is encrypted under the key of the election.             *)
LEMMA RightAfterCastBallot ==
    ASSUME KeyInv, ElectionIsRight, NEW v \in Voters, NEW ballot \in Ballots,
           CastBallot(v, ballot)
    PROVE  ElectionIsRight'
<1> DEFINE sent(b, p) == EncryptBallot(b, ElectionPk, ELECTION, p, <<run, 4, p>>)
           altered == Now([what |-> "Ciphertext", of |-> v])
           entry == [ballot |-> ballot, randomizers |-> sent(ballot, v).randomizers,
                     ciphertext |-> IF altered
                                    THEN [sent(ballot, v).ciphertext EXCEPT !.v_b = DistExp(@, 2)]
                                    ELSE sent(ballot, v).ciphertext]
           n == Len(cast)
<1>1. /\ KeyGenerated /\ v = n + 1
      /\ UNCHANGED <<run, dealings, recipients, checks, mixes, factors, plaintexts>>
      /\ Graver
  BY MayFailIsGraver DEF CastBallot
<1>2. altered => FaultyAt({"Ciphertext"}, v)'
  BY DEF Now, FaultyAt
<1>3. cast' = Append(cast, entry)
  BY DEF CastBallot
<1>4. n \in Nat /\ n <= NumVoters /\ IsList(cast) /\ \A p \in 1..n : CastIsRight(p)
  BY DEF ElectionIsRight, CastAreRight, IsList
<1>5. n < NumVoters /\ NumVoters \in Nat
  BY <1>1, <1>4, VotersAre
<1>6. /\ \A p \in Voters : checks[p] = None
      /\ mixes = << >> /\ Len(mixes) = 0
      /\ \A s \in Positions : factors[s] = None
      /\ plaintexts = None
  BY <1>5, NotYetCast
<1>7. /\ entry.ballot = ballot
      /\ entry.randomizers = sent(ballot, v).randomizers
      /\ ~FaultyAt({"Ciphertext"}, v)' => entry.ciphertext = sent(ballot, v).ciphertext
  BY <1>2
<1>71. /\ entry.ciphertext.u_b \in Vectors(BallotWidth)
       /\ entry.ciphertext.v_b \in Vectors(BallotWidth)
  BY <1>1, CiphertextsAre
<1> HIDE DEF entry
<1>8. /\ IsList(cast') /\ Len(cast') = n + 1
      /\ \A i \in 1..n : cast'[i] = cast[i]
      /\ cast'[n + 1] = entry
  BY <1>3, <1>4, AppendIs
<1>9. \A b, p : sent(b, p)' = sent(b, p)
  BY <1>1 DEF ElectionPk
<1>10. \A p \in 1..(n + 1) : CastIsRight(p)'
  <2> TAKE p \in 1..(n + 1)
  <2>1. CASE p \in 1..n
    <3>1. CastIsRight(p) /\ cast'[p] = cast[p]
      BY <1>4, <1>8, <2>1
    <3>2. ElectionPk' = ElectionPk /\ run' = run
      BY <1>1 DEF ElectionPk
    <3> QED
      BY <1>1, <3>1, <3>2, FaultsWereThere DEF CastIsRight
  <2>2. CASE p = v
    <3>1. cast'[p] = entry
      BY <1>1, <1>8, <2>2
    <3>2. ElectionPk' = ElectionPk /\ run' = run
      BY <1>1 DEF ElectionPk
    <3> QED
      BY <1>7, <1>71, <2>2, <3>1, <3>2 DEF CastIsRight
  <2> QED
    BY <1>1, <1>4, <2>1, <2>2
<1>11. CastAreRight'
  <2>1. KeyGenerated'
    BY <1>1 DEF KeyGenerated, Holds
  <2> QED
    BY <1>4, <1>5, <1>8, <1>10, <2>1 DEF CastAreRight
<1>12. ChecksAreRight'
  BY <1>1, <1>6 DEF ElectionIsRight, ChecksAreRight
<1>13. MixesAreRight'
  BY <1>1, <1>6 DEF ElectionIsRight, MixesAreRight, IsList
<1>14. FactorsAreRight'
  BY <1>1, <1>6 DEF ElectionIsRight, FactorsAreRight
<1>15. PlaintextsAreRight'
  BY <1>1, <1>6 DEF PlaintextsAreRight
<1> QED
  BY <1>11, <1>12, <1>13, <1>14, <1>15 DEF ElectionIsRight

(* A ballot cast, as it was encrypted for the trustees.                    *)
CastBallotIs(v) ==
    LET r == cast[v].randomizers
    IN  /\ cast[v].ballot \in Ballots
        /\ r \in Vectors(BallotWidth)
        /\ IsOnly(EGEncrypt(ElectionPk.pk_b, EncodeBallot(cast[v].ballot), r), Stripped[v])
        /\ VerifyCiphertextProof(cast[v].ciphertext, ElectionPk, ELECTION, v)
        /\ IsOnly(cast[v].ballot, DecryptBallot(cast[v].ciphertext, r, ElectionPk, ELECTION, v))

(* A ballot that is right verifies for its voter, and is displayed by a    *)
(* check.                                                                  *)
LEMMA BallotsCastAre ==
    ASSUME KeyInv, CastAreRight, NEW v \in 1..Len(cast), ~FaultyAt({"Ciphertext"}, v)
    PROVE  CastBallotIs(v)
<1> DEFINE sent == EncryptBallot(cast[v].ballot, ElectionPk, ELECTION, v, <<run, 4, v>>)
<1>1. Len(cast) \in Nat /\ v \in Voters /\ v \in Int /\ KeyGenerated
  BY VotersAre DEF CastAreRight, IsList
<1>2. ElectionPk.pk_b \in Scalars /\ ElectionPk.pk_a \in Scalars
  BY <1>1, KeysAre
<1>3. <<run, 4, v>> \in Seq(Int) /\ ELECTION \in Int
  BY <1>1 DEF KeyInv, RunIsNumber, ELECTION
<1>4. /\ cast[v].ballot \in Ballots
      /\ cast[v].randomizers = sent.randomizers
      /\ cast[v].ciphertext = sent.ciphertext
  BY DEF CastAreRight, CastIsRight
<1> DEFINE pk == ElectionPk
           b == cast[v].ballot
           place == <<run, 4, v>>
<1> HIDE DEF pk, place
<1>5. pk.pk_b \in Scalars /\ pk.pk_a \in Scalars /\ place \in Seq(Int)
  BY <1>2, <1>3 DEF pk, place
<1>6. LET s == EncryptBallot(b, pk, ELECTION, v, place)
      IN  /\ s.randomizers \in [1..BallotWidth -> Scalars]
          /\ IsOnly(EGEncrypt(pk.pk_b, EncodeBallot(b), s.randomizers),
                    Strip(pk, s.ciphertext, BallotContext(ELECTION, v)))
          /\ VerifyCiphertextProof(s.ciphertext, pk, ELECTION, v)
          /\ IsOnly(b, DecryptBallot(s.ciphertext, s.randomizers, pk, ELECTION, v))
  BY <1>1, <1>3, <1>4, <1>5, BallotIsDisplayed
<1>7. Stripped[v] = Strip(ElectionPk, cast[v].ciphertext, BallotContext(ELECTION, v))
  BY <1>1 DEF Stripped
<1> QED
  BY <1>4, <1>6, <1>7 DEF CastBallotIs, Vectors, pk, place

(* The key of the check application.                                       *)
LEMMA BcaKeyIs ==
    ASSUME KeyInv
    PROVE  BcaSk \in Scalars /\ BcaPk.pk_b = Exp(generator, BcaSk) /\ BcaPk.pk_a \in Scalars
<1>1. <<run, 5>> \in Seq(Int)
  BY DEF KeyInv, RunIsNumber
<1>2. BcaSk \in Scalars
  BY <1>1, RandomIs DEF BcaSk
<1>3. <<BCA>> \in Seq(Int) /\ <<1>> \in Seq(Int)
  BY DEF BCA
<1>4. <<1>> \o <<BCA>> \in Seq(Int)
  BY <1>3, JoinedInput
<1>5. HashToElement(<<BCA>>) \in Scalars
  BY <1>4, HashIs DEF HashToElement
<1> QED
  BY <1>2, <1>5 DEF BcaPk, Augment

(* What a check displays when it was sent what it should be.               *)
LEMMA CheckDisplays ==
    ASSUME KeyInv, CastAreRight, NEW v \in 1..Len(cast), ~FaultyAt({"Ciphertext"}, v)
    PROVE  LET sent == EncryptRandomizers(cast[v].randomizers, BcaPk,
                            BallotCheckContext(ELECTION, BCA), <<run, 6, v>>)
           IN  IsOnly(cast[v].ballot,
                   UNION {DecryptBallot(cast[v].ciphertext, r, ElectionPk, ELECTION, v) :
                       r \in DecryptRandomizers(sent, BcaPk, BcaSk,
                                 BallotCheckContext(ELECTION, BCA))})
<1> DEFINE rs == cast[v].randomizers
           context == BallotCheckContext(ELECTION, BCA)
           place == <<run, 6, v>>
           sent == EncryptRandomizers(rs, BcaPk, context, place)
           shown(r) == DecryptBallot(cast[v].ciphertext, r, ElectionPk, ELECTION, v)
<1>1. CastBallotIs(v)
  BY BallotsCastAre
<1>2. Len(cast) \in Nat /\ v \in Int
  BY DEF CastAreRight, IsList
<1>3. place \in Seq(Int) /\ context \in Seq(Int)
  BY <1>2 DEF KeyInv, RunIsNumber, BallotCheckContext, ELECTION, BCA
<1>4. rs \in [1..BallotWidth -> Scalars] /\ BallotWidth \in Nat \ {0}
  BY <1>1, BallotAssumption DEF CastBallotIs, Vectors
<1> HIDE DEF rs, context, place
<1>5. IsOnly(rs, DecryptRandomizers(sent, BcaPk, BcaSk, context))
  BY <1>3, <1>4, BcaKeyIs, RandomizersAreDecrypted
<1>6. shown(rs) = {cast[v].ballot}
  BY <1>1 DEF CastBallotIs, IsOnly, rs
<1> HIDE DEF shown, sent
<1>7. UNION {shown(r) : r \in DecryptRandomizers(sent, BcaPk, BcaSk, context)} = {cast[v].ballot}
  BY <1>5, <1>6 DEF IsOnly
<1> QED
  BY <1>7 DEF shown, sent, context, rs, place, IsOnly

(* A check displays the ballot, unless it was sent something else.         *)
LEMMA RightAfterCheckBallot ==
    ASSUME KeyInv, ElectionIsRight, NEW v \in Voters, CheckBallot(v)
    PROVE  ElectionIsRight'
<1>1. /\ Len(cast) = NumVoters /\ DOMAIN checks = Voters
      /\ UNCHANGED <<run, dealings, recipients, cast, mixes, factors, plaintexts>>
      /\ Graver /\ CastAreRight
  BY MayFailIsGraver DEF CheckBallot, ElectionIsRight, ChecksAreRight
<1>2. v \in 1..Len(cast) /\ NumVoters \in Nat
  BY <1>1, VotersAre
<1>3. ASSUME ~FaultyAt(ShownFaults, v)'
      PROVE  IsOnly(cast[v].ballot, checks'[v].shown)
  <2>1. /\ fault' # [what |-> "Randomizers", of |-> v]
        /\ fault' # [what |-> "CheckContext", of |-> v]
    BY <1>3 DEF FaultyAt, ShownFaults
  <2>0. ~FaultyAt({"Ciphertext"}, v)
    <3>1. ~FaultyAt(ShownFaults, v)
      BY <1>1, <1>3, FaultsWereThere
    <3> QED
      BY <3>1 DEF FaultyAt, ShownFaults
  <2> DEFINE display ==
          UNION {DecryptBallot(cast[v].ciphertext, r, ElectionPk, ELECTION, v) :
              r \in DecryptRandomizers(
                        EncryptRandomizers(cast[v].randomizers, BcaPk,
                            BallotCheckContext(ELECTION, BCA), <<run, 6, v>>),
                        BcaPk, BcaSk, BallotCheckContext(ELECTION, BCA))}
  <2>2. ~Now([what |-> "Randomizers", of |-> v]) /\ ~Now([what |-> "CheckContext", of |-> v])
    BY <2>1 DEF Now
  <2>3. checks' = [checks EXCEPT ![v] = [shown |-> display]]
    BY <2>2 DEF CheckBallot
  <2>4. IsOnly(cast[v].ballot, display)
    BY <1>1, <1>2, <2>0, CheckDisplays
  <2> HIDE DEF display
  <2>5. checks'[v] = [shown |-> display]
    BY <1>1, <2>3
  <2>6. checks'[v].shown = display
    BY <2>5
  <2> QED
    BY <2>4, <2>6
<1>4. /\ DOMAIN checks' = Voters
      /\ \A w \in Voters \ {v} : checks'[w] = checks[w]
  BY <1>1 DEF CheckBallot
<1>5. \A w : ~FaultyAt(ShownFaults, w)' => ~FaultyAt(ShownFaults, w)
  BY <1>1, FaultsWereThere
<1>6. ChecksAreRight'
  <2>1. ASSUME NEW w \in Voters, checks'[w] # None, ~FaultyAt(ShownFaults, w)'
        PROVE  IsOnly(cast[w].ballot, checks'[w].shown)
    <3>1. CASE w = v
      BY <1>3, <2>1, <3>1
    <3>2. CASE w # v
      BY <1>4, <1>5, <2>1, <3>2 DEF ElectionIsRight, ChecksAreRight
    <3> QED
      BY <3>1, <3>2
  <2> QED
    BY <1>1, <1>4, <2>1 DEF ChecksAreRight, IsOnly
<1> QED
  BY <1>1, <1>6, CastKept, MixesKept, FactorsKept, PlaintextsKept DEF ElectionIsRight

-------------------------------------------------------------------------------
(* The mixes.                                                              *)

(* What a mixer draws moves every position to another.                     *)
LEMMA MixingsArePermutations ==
    ASSUME NEW p \in Mixings
    PROVE  p \in PermutationsOf(NumVoters)
<1> DEFINE S == 1..NumVoters
<1>1. NumVoters \in Nat /\ Voters = S
  BY VotersAre
<1>2. p \in [S -> S] /\ \A i, j \in S : p[i] = p[j] => i = j
  BY <1>1, MixingsAssumption
<1>3. p \in Injection(S, S)
  BY <1>2 DEF Injection, IsInjective
<1>4. IsFiniteSet(S) /\ 1 \in Int /\ NumVoters \in Int
  BY <1>1, FS_Interval
<1>5. p \in Surjection(S, S)
  BY <1>3, <1>4, FS_Injection
<1> QED
  BY <1>2, <1>5 DEF PermutationsOf, Surjection

Composed(n, p, q) == [j \in 1..n |-> p[q[j]]]
SameOrder(n) == [j \in 1..n |-> j]

(* One permutation after the other is one.                                 *)
LEMMA ComposedIs ==
    ASSUME NEW n \in Nat, NEW p \in PermutationsOf(n), NEW q \in PermutationsOf(n)
    PROVE  Composed(n, p, q) \in PermutationsOf(n) /\ SameOrder(n) \in PermutationsOf(n)
<1> DEFINE c == Composed(n, p, q)
<1>1. /\ \A i \in 1..n : p[i] \in 1..n /\ q[i] \in 1..n
      /\ \A i, j \in 1..n : p[i] = p[j] => i = j
      /\ \A i, j \in 1..n : q[i] = q[j] => i = j
      /\ \A j \in 1..n : \E i \in 1..n : p[i] = j
      /\ \A j \in 1..n : \E i \in 1..n : q[i] = j
  BY DEF PermutationsOf
<1>2. c \in [1..n -> 1..n] /\ \A j \in 1..n : c[j] = p[q[j]]
  BY <1>1 DEF Composed
<1> HIDE DEF c
<1>3. \A i, j \in 1..n : c[i] = c[j] => i = j
  <2> TAKE i, j \in 1..n
  <2> DEFINE k == q[i]
             l == q[j]
  <2>1. k \in 1..n /\ l \in 1..n /\ (k = l => i = j)
    BY <1>1
  <2>2. c[i] = p[k] /\ c[j] = p[l]
    BY <1>2
  <2> HIDE DEF k, l
  <2>3. p[k] = p[l] => k = l
    BY <1>1, <2>1
  <2> QED
    BY <2>1, <2>2, <2>3
<1>4. \A j \in 1..n : \E i \in 1..n : c[i] = j
  <2> TAKE j \in 1..n
  <2>1. PICK k \in 1..n : p[k] = j
    BY <1>1
  <2>2. PICK i \in 1..n : q[i] = k
    BY <1>1
  <2> QED
    BY <1>2, <2>1, <2>2
<1> QED
  BY <1>2, <1>3, <1>4 DEF PermutationsOf, SameOrder, c

(* The exponents of an encryption and a re-encryption add up.              *)
LEMMA EncryptedAgain ==
    ASSUME NEW m \in Scalars, NEW y \in Scalars, NEW s \in Scalars, NEW t \in Scalars
    PROVE  /\ Add(s, Times(1, t)) = Add(s, t)
           /\ Add(Add(m, Times(y, s)), Times(y, t)) = Add(m, Times(y, Add(s, t)))
<1>1. Times(y, s) \in Scalars /\ Times(y, t) \in Scalars
  BY Closed
<1>2. Add(Add(m, Times(y, s)), Times(y, t)) = Add(m, Add(Times(y, s), Times(y, t)))
  BY <1>1, AddAssociates
<1>3. Times(y, Add(s, t)) = Add(Times(y, s), Times(y, t))
  BY Distributes
<1> QED
  BY <1>2, <1>3, Neutral

(* The exponents of a ciphertext encrypted twice.                          *)
Twice(n, p, s, t) == [j \in 1..n |-> AddEach(s[p[j]], t[p[j]])]

(* They are vectors.                                                       *)
LEMMA TwiceIs ==
    ASSUME NEW n \in Nat, NEW p \in PermutationsOf(n),
           NEW s \in [1..n -> Vectors(BallotWidth)], NEW t \in [1..n -> Vectors(BallotWidth)]
    PROVE  /\ Twice(n, p, s, t) \in [1..n -> Vectors(BallotWidth)]
           /\ \A j \in 1..n : Twice(n, p, s, t)[j] =
                 [x \in 1..BallotWidth |-> Add(s[p[j]][x], t[p[j]][x])]
<1>1. ASSUME NEW j \in 1..n
      PROVE  /\ AddEach(s[p[j]], t[p[j]]) = [x \in 1..BallotWidth |-> Add(s[p[j]][x], t[p[j]][x])]
             /\ AddEach(s[p[j]], t[p[j]]) \in Vectors(BallotWidth)
  <2>1. p[j] \in 1..n
    BY DEF PermutationsOf
  <2> DEFINE a == s[p[j]]
             b == t[p[j]]
  <2>2. a \in Vectors(BallotWidth) /\ b \in Vectors(BallotWidth)
    BY <2>1
  <2> HIDE DEF a, b
  <2>3. AddEach(a, b) = [x \in 1..BallotWidth |-> Add(a[x], b[x])]
    BY <2>2 DEF AddEach, Vectors
  <2>4. \A x \in 1..BallotWidth : Add(a[x], b[x]) \in Scalars
    BY <2>2, Closed DEF Vectors
  <2>5. AddEach(a, b) \in Vectors(BallotWidth)
    BY <2>3, <2>4 DEF Vectors
  <2> QED
    BY <2>3, <2>5 DEF a, b
<1> QED
  BY <1>1 DEF Twice

SameEntries(S, a, b) == \A x \in S : a[x] = b[x]

(* Two lists with the same entries are one.                                *)
LEMMA SameVectors ==
    ASSUME NEW S, NEW a \in [S -> Scalars], NEW b \in [S -> Scalars], SameEntries(S, a, b)
    PROVE  a = b
<1>1. a = [x \in S |-> a[x]] /\ b = [x \in S |-> b[x]]
  OBVIOUS
<1>2. [x \in S |-> a[x]] = [x \in S |-> b[x]]
  BY DEF SameEntries
<1> QED
  BY <1>1, <1>2

(* What a mixer makes of encrypted messages.                               *)
EncryptedInOrder(n, p, msg, s, t) ==
    Mixed(n, ElectionPk.pk_b, p, Encrypted(n, msg, s), t)
        = Encrypted(n, [j \in 1..n |-> msg[p[j]]], Twice(n, p, s, t))

(* Mixing what is encrypted encrypts it in another order.                  *)
LEMMA MixedAgain ==
    ASSUME KeyInv, KeyGenerated, NEW n \in Nat, NEW p \in PermutationsOf(n),
           NEW msg \in [1..n -> Vectors(BallotWidth)],
           NEW s \in [1..n -> Vectors(BallotWidth)], NEW t \in [1..n -> Vectors(BallotWidth)]
    PROVE  EncryptedInOrder(n, p, msg, s, t)
<1> DEFINE W == BallotWidth
           w == Encrypted(n, msg, s)
           m == [j \in 1..n |-> msg[p[j]]]
           r == Twice(n, p, s, t)
           a == Mixed(n, JointSecret, p, w, t)
           b == Encrypted(n, m, r)
<1>1. JointSecret \in Scalars /\ ElectionPk.pk_b = JointSecret
  BY KeysAre
<1>2. \A j \in 1..n : p[j] \in 1..n
  BY DEF PermutationsOf
<1>3. m \in [1..n -> Vectors(W)] /\ \A j \in 1..n : m[j] = msg[p[j]]
  BY <1>2
<1>4. /\ r \in [1..n -> Vectors(W)]
      /\ \A j \in 1..n : r[j] = [x \in 1..W |-> Add(s[p[j]][x], t[p[j]][x])]
  BY TwiceIs
<1>5. /\ w \in [1..n -> Ciphertexts]
      /\ \A j \in 1..n : /\ w[j].u = s[j]
                         /\ w[j].v = [x \in 1..W |-> Add(msg[j][x], Times(JointSecret, s[j][x]))]
  BY EncryptedIs
<1> HIDE DEF w, m, r
<1>6. /\ b \in [1..n -> Ciphertexts]
      /\ \A j \in 1..n : /\ b[j].u = r[j]
                         /\ b[j].v = [x \in 1..W |-> Add(m[j][x], Times(JointSecret, r[j][x]))]
  BY <1>3, <1>4, EncryptedIs
<1>7. IsMixture(n, JointSecret, p, w, t, a)
  BY <1>1, <1>5, MixedIs
<1>71. /\ a \in [1..n -> Ciphertexts]
       /\ \A j \in 1..n : \A x \in 1..W :
             /\ a[j].u[x] = Add(w[p[j]].u[x], Times(1, t[p[j]][x]))
             /\ a[j].v[x] = Add(w[p[j]].v[x], Times(JointSecret, t[p[j]][x]))
  BY <1>7 DEF IsMixture
<1> HIDE DEF a, b, W
<1>8. ASSUME NEW j \in 1..n, NEW x \in 1..W
      PROVE  a[j].u[x] = b[j].u[x] /\ a[j].v[x] = b[j].v[x]
  <2> DEFINE i == p[j]
             mm == msg[i][x]
             ss == s[i][x]
             tt == t[i][x]
             rj == r[j]
             mj == m[j]
             wi == w[i]
             bj == b[j]
  <2>1. i \in 1..n
    BY <1>2
  <2>2. wi.u = s[i] /\ wi.v = [z \in 1..W |-> Add(msg[i][z], Times(JointSecret, s[i][z]))]
    BY <1>5, <2>1
  <2>3. rj = [z \in 1..W |-> Add(s[i][z], t[i][z])] /\ mj = msg[i]
    BY <1>3, <1>4
  <2>4. /\ a[j].u[x] = Add(wi.u[x], Times(1, tt))
        /\ a[j].v[x] = Add(wi.v[x], Times(JointSecret, tt))
    BY <1>71
  <2>5. bj.u = rj /\ bj.v = [z \in 1..W |-> Add(mj[z], Times(JointSecret, rj[z]))]
    BY <1>6
  <2>6. mm \in Scalars /\ ss \in Scalars /\ tt \in Scalars
    <3>1. msg[i] \in [1..W -> Scalars] /\ s[i] \in [1..W -> Scalars] /\ t[i] \in [1..W -> Scalars]
      BY <2>1 DEF Vectors, W
    <3> QED
      BY <3>1
  <2> HIDE DEF i, rj, mj, wi, bj
  <2>8. wi.u[x] = ss /\ wi.v[x] = Add(mm, Times(JointSecret, ss))
    BY <2>2
  <2>9. rj[x] = Add(ss, tt) /\ mj[x] = mm
    BY <2>3
  <2>10. bj.u[x] = Add(ss, tt) /\ bj.v[x] = Add(mm, Times(JointSecret, Add(ss, tt)))
    BY <2>5, <2>9
  <2> HIDE DEF mm, ss, tt
  <2>7. /\ Add(ss, Times(1, tt)) = Add(ss, tt)
        /\ Add(Add(mm, Times(JointSecret, ss)), Times(JointSecret, tt))
              = Add(mm, Times(JointSecret, Add(ss, tt)))
    BY <1>1, <2>6, EncryptedAgain
  <2> QED
    BY <2>4, <2>7, <2>8, <2>10 DEF bj
<1>9. \A j \in 1..n : a[j] = b[j]
  <2> TAKE j \in 1..n
  <2> DEFINE c == a[j]
             d == b[j]
  <2>1. c \in Ciphertexts /\ d \in Ciphertexts
    BY <1>6, <1>71
  <2>2. \A x \in 1..W : c.u[x] = d.u[x] /\ c.v[x] = d.v[x]
    BY <1>8
  <2> HIDE DEF c, d
  <2>3. c.u = d.u /\ c.v = d.v
    <3>1. /\ c.u \in [1..W -> Scalars] /\ d.u \in [1..W -> Scalars]
          /\ c.v \in [1..W -> Scalars] /\ d.v \in [1..W -> Scalars]
      BY <2>1 DEF Ciphertexts, Vectors, W
    <3>2. SameEntries(1..W, c.u, d.u) /\ SameEntries(1..W, c.v, d.v)
      BY <2>2 DEF SameEntries
    <3> QED
      BY <3>1, <3>2, SameVectors
  <2>4. c = d
    BY <2>1, <2>3 DEF Ciphertexts
  <2> QED
    BY <2>4 DEF c, d
<1>10. a = b
  BY <1>6, <1>71, <1>9
<1> QED
  BY <1>1, <1>10 DEF a, b, w, m, r, EncryptedInOrder

(* The ballots cast are messages, in any order.                            *)
LEMMA MessagesAre ==
    ASSUME KeyInv, CastAreRight, Len(cast) = NumVoters, NEW p \in PermutationsOf(NumVoters)
    PROVE  /\ KeyGenerated /\ NumVoters \in Nat \ {0}
           /\ Moved(p) \in [1..NumVoters -> Vectors(BallotWidth)]
           /\ \A j \in 1..NumVoters : p[j] \in 1..NumVoters /\ cast[p[j]].ballot \in Ballots
<1>1. NumVoters \in Nat \ {0} /\ KeyGenerated
  BY VotersAre DEF CastAreRight
<1>2. ASSUME NEW j \in 1..NumVoters
      PROVE  /\ p[j] \in 1..NumVoters /\ cast[p[j]].ballot \in Ballots
             /\ EncodeBallot(cast[p[j]].ballot) \in Vectors(BallotWidth)
  <2>1. p[j] \in 1..Len(cast)
    BY DEF PermutationsOf
  <2>2. cast[p[j]].ballot \in Ballots
    BY <2>1 DEF CastAreRight, CastIsRight
  <2> QED
    BY <2>1, <2>2, EncodeBallotIs DEF Vectors
<1> QED
  BY <1>1, <1>2 DEF Moved

(* A mix of a mix is one of the ballots cast.                              *)
LEMMA MixOfMix ==
    ASSUME KeyInv, CastAreRight, Len(cast) = NumVoters, NEW w, IsMix(w),
           NEW p \in PermutationsOf(NumVoters),
           NEW t \in [1..NumVoters -> Vectors(BallotWidth)]
    PROVE  /\ w \in [1..NumVoters -> Ciphertexts]
           /\ IsMix(Mixed(NumVoters, ElectionPk.pk_b, p, w, t))
<1> DEFINE n == NumVoters
<1>1. PICK q \in PermutationsOf(n), s \in [1..n -> Vectors(BallotWidth)] :
         w = Encrypted(n, Moved(q), s)
  BY DEF IsMix
<1>2. /\ KeyGenerated /\ n \in Nat /\ Moved(q) \in [1..n -> Vectors(BallotWidth)]
      /\ \A j \in 1..n : p[j] \in 1..n
  BY MessagesAre
<1> DEFINE c == Composed(n, q, p)
           r == Twice(n, p, s, t)
<1>3. c \in PermutationsOf(n) /\ r \in [1..n -> Vectors(BallotWidth)]
  BY <1>2, ComposedIs, TwiceIs
<1>4. [j \in 1..n |-> Moved(q)[p[j]]] = Moved(c)
  <2>1. \A j \in 1..n : Moved(q)[p[j]] = EncodeBallot(cast[q[p[j]]].ballot)
    BY <1>2 DEF Moved
  <2>2. \A j \in 1..n : c[j] = q[p[j]]
    BY DEF Composed
  <2> HIDE DEF c
  <2>3. Moved(c) = [j \in 1..n |-> EncodeBallot(cast[c[j]].ballot)]
    BY DEF Moved
  <2> QED
    BY <2>1, <2>2, <2>3
<1>5. Mixed(n, ElectionPk.pk_b, p, w, t) = Encrypted(n, Moved(c), r)
  <2> DEFINE msg == Moved(q)
  <2>1. msg \in [1..n -> Vectors(BallotWidth)]
    BY <1>2
  <2>2. Moved(c) = [j \in 1..n |-> msg[p[j]]]
    BY <1>4
  <2> HIDE DEF msg, c
  <2>3. EncryptedInOrder(n, p, msg, s, t)
    BY <1>2, <2>1, MixedAgain
  <2> QED
    BY <1>1, <2>2, <2>3 DEF msg, EncryptedInOrder
<1>6. w \in [1..n -> Ciphertexts]
  BY <1>1, <1>2, EncryptedIs
<1> QED
  BY <1>3, <1>5, <1>6 DEF IsMix

(* What the k-th mixer starts from are ciphertexts.                        *)
LEMMA InputAre ==
    ASSUME CastAreRight, MixesAreRight, Len(cast) = NumVoters,
           NEW k \in 1..(Len(mixes) + 1), \A v \in Voters : Stripped[v] # {}
    PROVE  MixInput(k) \in [1..NumVoters -> Ciphertexts]
<1>1. Len(mixes) \in Nat /\ NumVoters \in Nat /\ Voters = 1..NumVoters
  BY VotersAre DEF MixesAreRight, IsList
<1>2. CASE k > 1
  <2>1. k - 1 \in 1..Len(mixes)
    BY <1>1, <1>2
  <2>2. mixes[k - 1].w_prime \in [1..NumVoters -> Ciphertexts]
    BY <2>1 DEF MixesAreRight, MixIsRight
  <2> QED
    BY <1>2, <2>2 DEF MixInput
<1>3. CASE ~(k > 1)
  <2>1. ASSUME NEW v \in 1..NumVoters
        PROVE  (CHOOSE c \in Stripped[v] : TRUE) \in Ciphertexts
    <3> DEFINE e == [u |-> cast[v].ciphertext.u_b, v |-> cast[v].ciphertext.v_b]
    <3>1. Stripped[v] \subseteq {e} /\ Stripped[v] # {}
      BY <1>1 DEF Stripped, Strip
    <3>2. e \in Ciphertexts
      BY DEF CastAreRight, CastIsRight, Ciphertexts
    <3> HIDE DEF e
    <3> QED
      BY <3>1, <3>2
  <2> QED
    BY <1>1, <1>3, <2>1 DEF MixInput
<1> QED
  BY <1>2, <1>3

(* They are the ballots, if no ballot was altered.                         *)
LEMMA InputIsMix ==
    ASSUME KeyInv, CastAreRight, MixesAreRight, Len(cast) = NumVoters,
           NEW k \in 1..(Len(mixes) + 1), fault.what \notin BallotFaults
    PROVE  IsMix(MixInput(k))
<1>1. Len(mixes) \in Nat
  BY DEF MixesAreRight, IsList
<1>2. CASE k > 1
  <2>1. k - 1 \in 1..Len(mixes)
    BY <1>1, <1>2
  <2>2. IsMix(mixes[k - 1].w_prime)
    BY <2>1 DEF MixesAreRight, MixIsRight
  <2> QED
    BY <1>2, <2>2 DEF MixInput
<1>3. CASE ~(k > 1)
  <2> DEFINE n == NumVoters
             p == SameOrder(n)
             s == [v \in 1..n |-> cast[v].randomizers]
  <2>1. n \in Nat /\ Voters = 1..n
    BY VotersAre
  <2>2. p \in PermutationsOf(n)
    BY <2>1 DEF SameOrder, PermutationsOf
  <2>3. \A v \in 1..n : CastBallotIs(v)
    BY BallotsCastAre DEF FaultyAt, BallotFaults
  <2>4. s \in [1..n -> Vectors(BallotWidth)]
    BY <2>3 DEF CastBallotIs
  <2>5. ASSUME NEW v \in 1..n
        PROVE  (CHOOSE c \in Stripped[v] : TRUE)
                  = EGEncrypt(ElectionPk.pk_b, Moved(p)[v], s[v])
    <3>1. Moved(p)[v] = EncodeBallot(cast[v].ballot)
      BY DEF Moved, SameOrder
    <3>2. Stripped[v] = {EGEncrypt(ElectionPk.pk_b, Moved(p)[v], s[v])}
      BY <2>3, <3>1 DEF CastBallotIs, IsOnly
    <3> QED
      BY <3>2
  <2>6. MixInput(k) = [v \in 1..n |-> CHOOSE c \in Stripped[v] : TRUE]
    BY <1>3, <2>1 DEF MixInput
  <2>7. MixInput(k) = Encrypted(n, Moved(p), s)
    BY <2>5, <2>6 DEF Encrypted
  <2> QED
    BY <2>2, <2>4, <2>7 DEF IsMix
<1> QED
  BY <1>2, <1>3

(* What the generators are made from.                                      *)
LEMMA LabelsAre ==
    ASSUME NEW e \in {ELECTION, ANOTHER}
    PROVE  /\ ShuffleContext(e) \in Seq(Int)
           /\ IndGenerators(NumVoters, ShuffleContext(e)) \in Vectors(NumVoters)
<1>1. ShuffleContext(e) \in Seq(Int)
  BY DEF ShuffleContext, ELECTION, ANOTHER
<1> QED
  BY <1>1, VotersAre, IndGeneratorsAre

(* The k-th mix, made for election e, if nothing is altered.               *)
MixOf(e, k, p) ==
    Shuffle(IndGenerators(NumVoters, ShuffleContext(e)), ElectionPk.pk_b, MixInput(k),
            p, ShuffleContext(e), <<run, 7, k>>)

(* The mix verifies where it was made for, and is one of the ballots.      *)
LEMMA MixOfIs ==
    ASSUME KeyInv, CastAreRight, MixesAreRight, Len(cast) = NumVoters,
           NEW k \in 1..(Len(mixes) + 1), NEW p \in Mixings, NEW e \in {ELECTION, ANOTHER},
           \A v \in Voters : Stripped[v] # {}
    PROVE  /\ MixOf(e, k, p).w_prime \in [1..NumVoters -> Ciphertexts]
           /\ VerifyShuffle(IndGenerators(NumVoters, ShuffleContext(e)),
                            ElectionPk.pk_b, MixInput(k), MixOf(e, k, p).w_prime,
                            MixOf(e, k, p).proof, ShuffleContext(e))
           /\ fault.what \notin BallotFaults => IsMix(MixOf(e, k, p).w_prime)
<1> DEFINE n == NumVoters
           context == ShuffleContext(e)
           h == IndGenerators(n, context)
           y == ElectionPk.pk_b
           w == MixInput(k)
           place == <<run, 7, k>>
           t == DrawnS(n, place)
           mix == Shuffle(h, y, w, p, context, place)
<1>1. n \in Nat \ {0} /\ KeyGenerated
  BY VotersAre DEF CastAreRight
<1>2. y \in Scalars
  BY <1>1, KeysAre
<1>3. p \in PermutationsOf(n)
  BY MixingsArePermutations
<1>4. Len(mixes) \in Nat
  BY DEF MixesAreRight, IsList
<1>5. place \in Seq(Int)
  BY <1>4 DEF KeyInv, RunIsNumber
<1>6. context \in Seq(Int) /\ h \in Vectors(n)
  BY LabelsAre
<1>7. w \in [1..n -> Ciphertexts]
  BY InputAre
<1>8. fault.what \notin BallotFaults => IsMix(w)
  BY InputIsMix
<1> HIDE DEF place, context, h, y, w
<1>9. t \in [1..n -> Vectors(BallotWidth)]
  BY <1>1, <1>5, DrawnAre
<1>10. Mixed(n, y, p, w, t) \in [1..n -> Ciphertexts]
  <2>1. IsMixture(n, y, p, w, t, Mixed(n, y, p, w, t))
    BY <1>1, <1>2, <1>3, <1>7, <1>9, MixedIs
  <2> QED
    BY <2>1 DEF IsMixture
<1>11. fault.what \notin BallotFaults => IsMix(Mixed(n, y, p, w, t))
  BY <1>3, <1>8, <1>9, MixOfMix DEF y
<1>12. /\ mix.w_prime = Mixed(n, y, p, w, t)
       /\ VerifyShuffle(h, y, w, mix.w_prime, mix.proof, context)
  BY <1>1, <1>2, <1>3, <1>5, <1>6, <1>7, ShuffleIsVerified
<1>13. MixOf(e, k, p) = mix
  BY DEF MixOf, place, context, h, y, w
<1> QED
  BY <1>10, <1>11, <1>12, <1>13 DEF place, context, h, y, w

(* A mix that is altered is still a list of ciphertexts.                   *)
LEMMA AlteredMixIs ==
    ASSUME NEW w \in [1..NumVoters -> Ciphertexts]
    PROVE  /\ [w EXCEPT ![1].v = DistExp(@, 2)] \in [1..NumVoters -> Ciphertexts]
           /\ [w EXCEPT ![1] = w[NumVoters]] \in [1..NumVoters -> Ciphertexts]
<1> DEFINE W == BallotWidth
           c == w[1]
<1>1. 1 \in 1..NumVoters /\ NumVoters \in 1..NumVoters
  BY VotersAre
<1>2. c \in Ciphertexts /\ w[NumVoters] \in Ciphertexts
  BY <1>1
<1>3. W \in Nat /\ 2 \in Scalars
  BY BallotAssumption, OrderIs DEF Scalars
<1>4. [w EXCEPT ![1].v = DistExp(@, 2)] = [w EXCEPT ![1] = [c EXCEPT !.v = DistExp(c.v, 2)]]
  BY <1>1
<1> HIDE DEF c
<1>5. c.u \in [1..W -> Scalars] /\ c.v \in [1..W -> Scalars] /\ c = [u |-> c.u, v |-> c.v]
  BY <1>2 DEF Ciphertexts, Vectors
<1> HIDE DEF W
<1>6. DistExp(c.v, 2) \in [1..W -> Scalars]
  BY <1>3, <1>5, VectorsAre
<1>7. [c EXCEPT !.v = DistExp(c.v, 2)] \in Ciphertexts
  BY <1>2, <1>6 DEF Ciphertexts, Vectors, W
<1> QED
  BY <1>1, <1>2, <1>4, <1>7

(* A mix that was not altered verifies.                                    *)
LEMMA RightAfterComputeMix ==
    ASSUME KeyInv, ElectionIsRight, NEW k \in 1..Threshold, NEW p \in Mixings,
           ComputeMix(k, p)
    PROVE  ElectionIsRight'
<1> DEFINE n == Len(mixes)
           e == IF Now([what |-> "MixContext", of |-> k]) THEN ANOTHER ELSE ELECTION
           mix == MixOf(e, k, p)
           w == mix.w_prime
           entry == [w_prime |->
                        IF Now([what |-> "MixOutput", of |-> k])
                        THEN [w EXCEPT ![1].v = DistExp(@, 2)]
                        ELSE IF Now([what |-> "MixCopy", of |-> k])
                        THEN [w EXCEPT ![1] = w[NumVoters]]
                        ELSE w,
                     proof |-> mix.proof, verdict |-> "Pending"]
<1>1. /\ UNCHANGED <<run, dealings, recipients, cast, checks, factors, plaintexts>>
      /\ k = n + 1 /\ Graver
      /\ \A v \in Voters : checks[v] # None /\ Stripped[v] # {}
  BY MayFailIsGraver DEF ComputeMix
<1>2. /\ Now([what |-> "MixOutput", of |-> k])
             => FaultyAt(MixFaults, k)' /\ fault'.what \in BallotFaults
      /\ Now([what |-> "MixCopy", of |-> k])
             => FaultyAt(MixFaults, k)' /\ fault'.what \in BallotFaults
      /\ Now([what |-> "MixContext", of |-> k]) => FaultyAt(MixFaults, k)'
  BY DEF Now, FaultyAt, MixFaults, BallotFaults
<1>3. MixContext(k) = ShuffleContext(e)
  BY DEF MixContext
<1>4. mixes' = Append(mixes, entry)
  <2> DEFINE built(x) == Shuffle(IndGenerators(NumVoters, x), ElectionPk.pk_b, MixInput(k),
                                 p, x, <<run, 7, k>>)
             posted(m) == [w_prime |->
                              IF Now([what |-> "MixOutput", of |-> k])
                              THEN [m.w_prime EXCEPT ![1].v = DistExp(@, 2)]
                              ELSE IF Now([what |-> "MixCopy", of |-> k])
                              THEN [m.w_prime EXCEPT ![1] = m.w_prime[NumVoters]]
                              ELSE m.w_prime,
                           proof |-> m.proof, verdict |-> "Pending"]
  <2>1. mixes' = Append(mixes, posted(built(MixContext(k))))
    BY DEF ComputeMix
  <2>2. mix = built(ShuffleContext(e))
    BY DEF MixOf
  <2>3. entry = posted(mix)
    <3> HIDE DEF mix
    <3> QED
      OBVIOUS
  <2> HIDE DEF built, posted, mix, entry, e
  <2> QED
    BY <1>3, <2>1, <2>2, <2>3
<1>5. /\ n \in Nat /\ n < Threshold /\ Threshold \in Nat /\ IsList(mixes)
      /\ CastAreRight /\ MixesAreRight
      /\ \A j \in 1..n : MixIsRight(j)
  BY <1>1, DealerIs DEF ElectionIsRight, MixesAreRight, IsList
<1>6. Len(cast) = NumVoters
  <2>1. 1 \in Voters
    BY VotersAre
  <2> QED
    BY <1>1, <2>1 DEF ElectionIsRight, ChecksAreRight
<1>7. k \in 1..(n + 1) /\ e \in {ELECTION, ANOTHER}
  BY <1>1, <1>5
<1>8. /\ w \in [1..NumVoters -> Ciphertexts]
      /\ VerifyShuffle(IndGenerators(NumVoters, ShuffleContext(e)), ElectionPk.pk_b,
                       MixInput(k), w, mix.proof, ShuffleContext(e))
      /\ fault.what \notin BallotFaults => IsMix(w)
  <2> HIDE DEF e
  <2> QED
    BY <1>1, <1>5, <1>6, <1>7, MixOfIs
<1>80. ~FaultyAt(MixFaults, k)' => e = ELECTION
  BY <1>2
<1> HIDE DEF mix, e, w
<1>81. /\ [w EXCEPT ![1].v = DistExp(@, 2)] \in [1..NumVoters -> Ciphertexts]
       /\ [w EXCEPT ![1] = w[NumVoters]] \in [1..NumVoters -> Ciphertexts]
  BY <1>8, AlteredMixIs
<1>9. /\ entry.proof = mix.proof /\ entry.verdict = "Pending"
      /\ entry = [w_prime |-> entry.w_prime, proof |-> entry.proof, verdict |-> entry.verdict]
      /\ entry.w_prime \in [1..NumVoters -> Ciphertexts]
      /\ ~FaultyAt(MixFaults, k)' => entry.w_prime = w
      /\ fault'.what \notin BallotFaults => entry.w_prime = w
  BY <1>2, <1>8, <1>81
<1>91. fault'.what \notin BallotFaults => IsMix(entry.w_prime)
  BY <1>1, <1>8, <1>9, FaultsWereThere
<1>92. ~FaultyAt(MixFaults, k)' =>
          VerifyShuffle(IndGenerators(NumVoters, ShuffleContext(ELECTION)), ElectionPk.pk_b,
                        MixInput(k), entry.w_prime, entry.proof, ShuffleContext(ELECTION))
  BY <1>8, <1>80, <1>9
<1> HIDE DEF entry
<1>10. /\ IsList(mixes') /\ Len(mixes') = n + 1
       /\ \A i \in 1..n : mixes'[i] = mixes[i]
       /\ mixes'[n + 1] = entry
  BY <1>4, <1>5, AppendIs
<1>11. /\ ElectionPk' = ElectionPk
       /\ \A list : IsMix(list)' <=> IsMix(list)
  <2>1. ElectionPk' = ElectionPk
    BY <1>1 DEF ElectionPk
  <2>2. \A q : Moved(q)' = Moved(q)
    BY <1>1 DEF Moved
  <2> QED
    BY <2>1, <2>2 DEF IsMix, Encrypted
<1>12. \A j \in 1..(n + 1) : MixInput(j)' = MixInput(j)
  <2> TAKE j \in 1..(n + 1)
  <2>1. CASE j > 1
    <3>1. j - 1 \in 1..n
      BY <1>5, <2>1
    <3>2. mixes'[j - 1] = mixes[j - 1]
      BY <1>10, <3>1
    <3> QED
      BY <2>1, <3>2 DEF MixInput
  <2>2. CASE ~(j > 1)
    <3>1. Stripped' = Stripped
      BY <1>1, <1>11 DEF Stripped
    <3> QED
      BY <2>2, <3>1 DEF MixInput
  <2> QED
    BY <2>1, <2>2
<1>13. \A j \in 1..(n + 1) : MixIsRight(j)'
  <2> TAKE j \in 1..(n + 1)
  <2>1. CASE j \in 1..n
    <3>1. mixes'[j] = mixes[j] /\ MixIsRight(j)
      BY <1>5, <1>10, <2>1
    <3>2. (mixes[j].verdict = mixes'[j].verdict) /\ (MixVerifies(j, MixInput(j)) => MixVerifies(j, MixInput(j))')
      BY <1>11, <1>12, <2>1, <3>1 DEF MixVerifies
    <3> QED
      BY <1>1, <1>11, <3>1, <3>2, FaultsWereThere DEF MixIsRight
  <2>2. CASE j = k
    <3>1. mixes'[j] = entry
      BY <1>1, <1>10, <2>2
    <3>2. ~FaultyAt(MixFaults, k)' => MixVerifies(j, MixInput(j))'
      BY <1>92, <1>11, <1>12, <2>2, <3>1 DEF MixVerifies
    <3>3. fault'.what \notin BallotFaults => IsMix(mixes[j].w_prime)'
      <4>1. \A list : IsMix(list)' <=> IsMix(list)
        BY <1>11
      <4>2. IsMix(entry.w_prime) => IsMix(mixes'[j].w_prime)
        BY <3>1
      <4> QED
        BY <1>91, <4>1, <4>2
    <3> QED
      BY <1>9, <2>2, <3>1, <3>2, <3>3 DEF MixIsRight
  <2> QED
    BY <1>1, <1>5, <2>1, <2>2
<1>14. MixesAreRight'
  BY <1>1, <1>6, <1>10, <1>13 DEF MixesAreRight
<1>15. FactorsAreRight'
  <2>1. \A t \in Positions : factors[t] = None
    BY <1>5 DEF ElectionIsRight, FactorsAreRight
  <2> QED
    BY <1>1, <2>1 DEF ElectionIsRight, FactorsAreRight
<1> QED
  BY <1>1, <1>14, <1>15, CastKept, ChecksKept, PlaintextsKept DEF ElectionIsRight

(* The mix that waits for signatures is signed, if it verifies.            *)
LEMMA RightAfterSignMix ==
    ASSUME KeyInv, ElectionIsRight, SignMix
    PROVE  ElectionIsRight'
<1> DEFINE n == Len(mixes)
           verdict == IF MixVerifies(n, MixInput(n)) THEN "Signed" ELSE "Refused"
           entry == [w_prime |-> mixes[n].w_prime, proof |-> mixes[n].proof,
                     verdict |-> verdict]
<1>1. /\ UNCHANGED <<run, fault, dealings, recipients, cast, checks, factors, plaintexts>>
      /\ n > 0 /\ mixes[n].verdict = "Pending" /\ Graver
  BY DEF SignMix, Graver
<1>2. /\ n \in Nat /\ mixes = [j \in 1..n |-> mixes[j]] /\ n \in 1..n
      /\ \A j \in 1..n : MixIsRight(j)
      /\ Len(cast) = NumVoters
  BY <1>1 DEF ElectionIsRight, MixesAreRight, IsList
<1>3. mixes' = [mixes EXCEPT ![n].verdict = verdict]
  BY DEF SignMix, MixVerifies
<1>31. /\ verdict \in {"Pending", "Signed", "Refused"}
       /\ ~FaultyAt(MixFaults, n) => verdict # "Refused"
  BY <1>2 DEF MixIsRight
<1> HIDE DEF verdict
<1>4. /\ \A j \in 1..n : j # n => mixes'[j] = mixes[j]
      /\ mixes'[n] = [mixes[n] EXCEPT !.verdict = verdict]
      /\ mixes' = [j \in 1..n |-> mixes'[j]]
  BY <1>2, <1>3
<1>5. mixes'[n] = entry
  <2> DEFINE m == mixes[n]
  <2>1. m = [w_prime |-> m.w_prime, proof |-> m.proof, verdict |-> m.verdict]
    BY <1>2 DEF MixIsRight
  <2>2. mixes'[n] = [m EXCEPT !.verdict = verdict]
    BY <1>4
  <2> HIDE DEF m
  <2>3. [m EXCEPT !.verdict = verdict]
           = [w_prime |-> m.w_prime, proof |-> m.proof, verdict |-> verdict]
    BY <2>1
  <2> QED
    BY <2>2, <2>3 DEF m
<1>6. /\ entry.w_prime = mixes[n].w_prime /\ entry.proof = mixes[n].proof
      /\ entry.verdict = verdict
      /\ entry = [w_prime |-> entry.w_prime, proof |-> entry.proof, verdict |-> entry.verdict]
  OBVIOUS
<1> HIDE DEF entry
<1>7. \A j \in 1..n : /\ mixes'[j].w_prime = mixes[j].w_prime
                      /\ mixes'[j].proof = mixes[j].proof
  BY <1>4, <1>5, <1>6
<1>8. /\ ElectionPk' = ElectionPk
      /\ \A list : IsMix(list)' <=> IsMix(list)
  <2>1. ElectionPk' = ElectionPk
    BY <1>1 DEF ElectionPk
  <2>2. \A q : Moved(q)' = Moved(q)
    BY <1>1 DEF Moved
  <2> QED
    BY <2>1, <2>2 DEF IsMix, Encrypted
<1>9. \A j \in 1..n : MixInput(j)' = MixInput(j)
  <2> TAKE j \in 1..n
  <2>1. CASE j > 1
    <3>1. j - 1 \in 1..n
      BY <1>2, <2>1
    <3>2. mixes'[j - 1].w_prime = mixes[j - 1].w_prime
      BY <1>7, <3>1
    <3> QED
      BY <2>1, <3>2 DEF MixInput
  <2>2. CASE ~(j > 1)
    <3>1. Stripped' = Stripped
      BY <1>1, <1>8 DEF Stripped
    <3> QED
      BY <2>2, <3>1 DEF MixInput
  <2> QED
    BY <2>1, <2>2
<1>10. \A j \in 1..n : MixIsRight(j)'
  <2> TAKE j \in 1..n
  <2>1. MixIsRight(j)
    BY <1>2
  <2>2. /\ mixes'[j].verdict \in {"Pending", "Signed", "Refused"}
        /\ ~FaultyAt(MixFaults, j)' => mixes'[j].verdict # "Refused"
        /\ mixes'[j] = [w_prime |-> mixes'[j].w_prime, proof |-> mixes'[j].proof,
                        verdict |-> mixes'[j].verdict]
    BY <1>1, <1>31, <1>4, <1>5, <1>6, <2>1, FaultsWereThere DEF MixIsRight
  <2>3. MixVerifies(j, MixInput(j))' <=> MixVerifies(j, MixInput(j))
    BY <1>7, <1>8, <1>9 DEF MixVerifies
  <2> QED
    BY <1>1, <1>7, <1>8, <2>1, <2>2, <2>3, FaultsWereThere DEF MixIsRight
<1>11. Len(mixes') = n
  BY <1>2, <1>4
<1>12. MixesAreRight'
  BY <1>1, <1>2, <1>4, <1>10, <1>11 DEF MixesAreRight, IsList
<1>13. FactorsAreRight'
  <2>1. ASSUME NEW t \in Positions, factors[t] # None PROVE FinalMix' = FinalMix
    <3>1. n = Threshold
      BY <2>1 DEF ElectionIsRight, FactorsAreRight
    <3> QED
      BY <1>2, <1>7, <3>1 DEF FinalMix
  <2>2. \A t, cs : FactorsOf(t, cs)' = FactorsOf(t, cs)
    BY <1>1 DEF FactorsOf
  <2> QED
    BY <1>1, <1>11, <2>1, <2>2, FaultsWereThere DEF ElectionIsRight, FactorsAreRight, AreFactors
<1> QED
  BY <1>1, <1>12, <1>13, CastKept, ChecksKept, PlaintextsKept DEF ElectionIsRight

-------------------------------------------------------------------------------
(* Decryption.                                                             *)

(* A trustee gives a factor for every ciphertext, or leaves out the last.  *)
LEMMA FactorsOfMixAre ==
    ASSUME NEW n \in Nat \ {0}, NEW t, NEW cs, DOMAIN cs = 1..n
    PROVE  /\ AreFactors(n, t, cs, FactorsOf(t, cs)) /\ Len(FactorsOf(t, cs)) = n
           /\ AreFactors(n, t, cs, Front(FactorsOf(t, cs)))
<1> DEFINE fs == FactorsOf(t, cs)
           S == {fs[j] : j \in 1..n}
<1>1. DOMAIN fs = 1..n /\ fs = [j \in 1..n |-> fs[j]]
  BY DEF FactorsOf, DecryptionFactor
<1>2. \A j \in 1..n : fs[j] \in S
  OBVIOUS
<1> HIDE DEF fs, S
<1>3. fs \in [1..n -> S]
  BY <1>1, <1>2
<1>4. fs \in Seq(S) /\ Len(fs) = n
  BY <1>1, <1>3, SeqDef, LenProperties
<1>5. 1 \in 1..(n + 1) /\ n - 1 \in 0..n /\ n - 1 \in Nat
  OBVIOUS
<1> DEFINE front == SubSeq(fs, 1, n - 1)
<1>6. Len(front) = n - 1 /\ \A j \in 1..(n - 1) : front[j] = fs[j]
  BY <1>4, <1>5
<1>7. Front(fs) = front
  BY <1>4 DEF Front
<1> HIDE DEF front
<1> QED
  BY <1>4, <1>5, <1>6, <1>7 DEF AreFactors, fs

(* What is decrypted.                                                      *)
LEMMA FinalMixIs ==
    ASSUME ElectionIsRight, Len(mixes) = Threshold
    PROVE  /\ DOMAIN FinalMix = 1..NumVoters /\ Len(cast) = NumVoters
           /\ fault.what \notin BallotFaults => IsMix(FinalMix)
<1>1. Threshold \in 1..Len(mixes)
  BY DealerIs
<1>2. MixIsRight(Threshold)
  BY <1>1 DEF ElectionIsRight, MixesAreRight
<1> QED
  BY <1>1, <1>2 DEF ElectionIsRight, MixesAreRight, FinalMix, MixIsRight

(* The factors of one trustee more.                                        *)
LEMMA RightAfterComputePartialDecryptions ==
    ASSUME KeyInv, ElectionIsRight, NEW t \in Positions,
           ComputePartialDecryptions(t)
    PROVE  ElectionIsRight'
<1> DEFINE fs == FactorsOf(t, FinalMix)
           missing == Now([what |-> "FactorMissing", of |-> t])
           wrong == \/ Now([what |-> "Factor", of |-> t])
                    \/ Now([what |-> "FactorContext", of |-> t])
                    \/ Now([what |-> "Source", of |-> t])
<1>1. /\ UNCHANGED <<run, dealings, recipients, cast, checks, mixes, plaintexts>>
      /\ Graver /\ Len(mixes) = Threshold
  BY MayFailIsGraver DEF ComputePartialDecryptions
<1>2. wrong => FaultyAt(FactorFaults, t)'
  BY DEF Now, FaultyAt, FactorFaults
<1>3. \E x : /\ factors' = [factors EXCEPT ![t] = x]
             /\ ~wrong => x = IF missing THEN Front(fs) ELSE fs
  <2>1. CASE wrong
    BY <2>1 DEF ComputePartialDecryptions
  <2>2. CASE ~wrong
    BY <2>2 DEF ComputePartialDecryptions, FactorsOf
  <2> QED
    BY <2>1, <2>2
<1>4. missing => fault'.what = "FactorMissing"
  BY DEF Now
<1> HIDE DEF missing, wrong, fs
<1>5. /\ AreFactors(NumVoters, t, FinalMix, fs) /\ Len(fs) = NumVoters
      /\ AreFactors(NumVoters, t, FinalMix, Front(fs))
  BY <1>1, VotersAre, FinalMixIs, FactorsOfMixAre DEF fs
<1>6. /\ DOMAIN factors' = Positions
      /\ \A s \in Positions : s # t => factors'[s] = factors[s]
      /\ ~FaultyAt(FactorFaults, t)' => factors'[t] = IF missing THEN Front(fs) ELSE fs
  BY <1>2, <1>3 DEF ElectionIsRight, FactorsAreRight
<1>7. /\ fault'.what # "FactorMissing" => fault.what # "FactorMissing"
      /\ \A s : ~FaultyAt(FactorFaults, s)' => ~FaultyAt(FactorFaults, s)
  BY <1>1, FaultsWereThere
<1>8. ASSUME NEW s \in Positions, factors'[s] # None, ~FaultyAt(FactorFaults, s)'
      PROVE  /\ AreFactors(NumVoters, s, FinalMix, factors'[s])
             /\ fault'.what # "FactorMissing" => Len(factors'[s]) = NumVoters
  <2>1. CASE s = t
    BY <1>4, <1>5, <1>6, <1>8, <2>1
  <2>2. CASE s # t
    BY <1>6, <1>7, <1>8, <2>2 DEF ElectionIsRight, FactorsAreRight
  <2> QED
    BY <2>1, <2>2
<1>9. FactorsAreRight'
  <2>1. FinalMix' = FinalMix /\ \A s, cs : FactorsOf(s, cs)' = FactorsOf(s, cs)
    BY <1>1 DEF FinalMix, FactorsOf
  <2> QED
    BY <1>1, <1>6, <1>8, <2>1 DEF FactorsAreRight, AreFactors
<1> QED
  BY <1>1, <1>9, CastKept, ChecksKept, MixesKept, PlaintextsKept DEF ElectionIsRight

(* What comes out of the decryption, unless a factor that is used is not   *)
(* right.                                                                  *)
LEMMA PlaintextsComputed ==
    ASSUME KeyInv, ElectionIsRight, NEW present \in Quorums, ComputePlaintexts(present),
           fault.what \notin BallotFaults, ~UsesFaulty(present)
    PROVE  /\ Len(cast) = NumVoters
           /\ plaintexts'.ok
           /\ \E p \in PermutationsOf(NumVoters), len \in 0..NumVoters :
                 /\ plaintexts'.ballots = BallotsOut(p, len)
                 /\ fault.what # "FactorMissing" => len = NumVoters
<1> DEFINE n == NumVoters
           dfs == [i \in 1..Threshold |-> factors[present[i]]]
           vks == [i \in 1..Threshold |-> VerificationKey(present[i], CheckValues)]
           combined == Combine(FinalMix, dfs, vks, DecryptionContext)
<1>1. /\ UNCHANGED <<run, fault, dealings, recipients, cast, checks, mixes, factors>>
      /\ Graver
      /\ \A t \in Positions : factors[t] # None
  BY DEF ComputePlaintexts, Graver
<1>2. /\ present \in [1..Threshold -> Positions] /\ 1 \in Positions
      /\ Threshold \in Nat
  BY DealerIs DEF Quorums
<1>3. /\ Len(mixes) = Threshold
      /\ \A t \in Positions : ~FaultyAt(FactorFaults, t) =>
            /\ AreFactors(n, t, FinalMix, factors[t])
            /\ fault.what # "FactorMissing" => Len(factors[t]) = n
      /\ \A i \in 1..Threshold : ~FaultyAt(FactorFaults, present[i])
  BY <1>1, <1>2 DEF ElectionIsRight, FactorsAreRight, UsesFaulty
<1>4. IsMix(FinalMix) /\ Len(cast) = n
  BY <1>3, FinalMixIs
<1>5. PICK p \in PermutationsOf(n), s \in [1..n -> Vectors(BallotWidth)] :
         FinalMix = Encrypted(n, Moved(p), s)
  BY <1>4 DEF IsMix
<1>6. /\ KeyGenerated /\ n \in Nat \ {0} /\ Moved(p) \in [1..n -> Vectors(BallotWidth)]
      /\ \A j \in 1..n : p[j] \in 1..n /\ cast[p[j]].ballot \in Ballots
  BY <1>4, MessagesAre DEF ElectionIsRight
<1>7. \A i \in 1..Threshold : /\ AreFactors(n, present[i], FinalMix, dfs[i])
                              /\ vks[i] = VerificationKey(present[i], CheckValues)
                              /\ fault.what # "FactorMissing" => Len(dfs[i]) = n
  BY <1>2, <1>3
<1> HIDE DEF dfs, vks
<1>8. Combines(n, Moved(p), dfs, combined)
  BY <1>5, <1>6, <1>7, CombineIs
<1> HIDE DEF combined
<1>9. PICK len \in 0..n : /\ combined.elements = [j \in 1..len |-> Moved(p)[j]]
                          /\ fault.what # "FactorMissing" => len = n
  BY <1>7, <1>8 DEF Combines
<1> DEFINE decoded == Decoded(combined.elements)
           out == [i \in DOMAIN combined.elements |-> CHOOSE b \in decoded[i] : TRUE]
<1>10. DOMAIN combined.elements = 1..len /\ len \in Nat
  BY <1>9
<1>11. \A j \in 1..len : decoded[j] = {cast[p[j]].ballot}
  <2> TAKE j \in 1..len
  <2>1. j \in 1..n
    BY <1>6
  <2>2. combined.elements[j] = EncodeBallot(cast[p[j]].ballot)
    BY <1>9, <2>1 DEF Moved
  <2>3. DecodeBallot(EncodeBallot(cast[p[j]].ballot)) = {cast[p[j]].ballot}
    BY <1>6, <2>1, EncodeBallotIs
  <2> QED
    BY <1>10, <2>2, <2>3 DEF Decoded
<1>12. out = BallotsOut(p, len)
  BY <1>10, <1>11 DEF BallotsOut
<1>13. plaintexts' = [ok |-> TRUE, present |-> present, ballots |-> out]
  <2>1. combined.ok
    BY <1>8 DEF Combines
  <2>2. ~\E i \in DOMAIN combined.elements : decoded[i] = {}
    BY <1>10, <1>11
  <2> QED
    BY <2>1, <2>2 DEF ComputePlaintexts, combined, dfs, vks
<1> HIDE DEF out, decoded
<1>14. plaintexts'.ok /\ plaintexts'.ballots = out
  BY <1>13
<1> QED
  BY <1>4, <1>9, <1>12, <1>14

(* If the factors used are right, ballots that were cast come out.         *)
LEMMA RightAfterComputePlaintexts ==
    ASSUME KeyInv, ElectionIsRight, NEW present \in Quorums, ComputePlaintexts(present)
    PROVE  ElectionIsRight'
<1>1. /\ UNCHANGED <<run, fault, dealings, recipients, cast, checks, mixes, factors>>
      /\ Graver
      /\ \A t \in Positions : factors[t] # None
  BY DEF ComputePlaintexts, Graver
<1>2. plaintexts'.present = present
  BY DEF ComputePlaintexts
<1>3. Len(cast) = NumVoters
  <2>1. 1 \in Positions
    BY DealerIs
  <2>2. Len(mixes) = Threshold
    BY <1>1, <2>1 DEF ElectionIsRight, FactorsAreRight
  <2> QED
    BY <2>2, FinalMixIs
<1>4. PlaintextsAreRight'
  <2>1. \A p, len : BallotsOut(p, len)' = BallotsOut(p, len)
    BY <1>1 DEF BallotsOut
  <2>2. \A q : UsesFaulty(q)' <=> UsesFaulty(q)
    BY <1>1 DEF UsesFaulty, FaultyAt
  <2>3. fault.what \notin BallotFaults /\ ~UsesFaulty(present) =>
           /\ plaintexts'.ok
           /\ \E p \in PermutationsOf(NumVoters), len \in 0..NumVoters :
                 /\ plaintexts'.ballots = BallotsOut(p, len)
                 /\ fault.what # "FactorMissing" => len = NumVoters
    BY PlaintextsComputed
  <2>4. UsesFaulty(plaintexts.present)' <=> UsesFaulty(present)
    BY <1>1, <1>2 DEF UsesFaulty, FaultyAt
  <2> QED
    BY <1>1, <1>3, <2>1, <2>3, <2>4 DEF PlaintextsAreRight
<1> QED
  BY <1>1, <1>4, CastKept, ChecksKept, MixesKept, FactorsKept DEF ElectionIsRight

-------------------------------------------------------------------------------
(* The invariant, and what it says.                                        *)

(* Every step leaves the election right.                                   *)
LEMMA ElectionIsRightNext ==
    ASSUME KeyInv, ElectionIsRight, [Next]_vars
    PROVE  ElectionIsRight'
<1>1. ASSUME NEW d \in Positions, ComputeShares(d) PROVE ElectionIsRight'
  BY <1>1, RightAfterComputeShares
<1>2. ASSUME NEW t \in Positions, ComputePublicKey(t) PROVE ElectionIsRight'
  BY <1>2, RightAfterComputePublicKey
<1>3. ASSUME NEW v \in Voters, NEW ballot \in Ballots, CastBallot(v, ballot)
      PROVE  ElectionIsRight'
  BY <1>3, RightAfterCastBallot
<1>4. ASSUME NEW v \in Voters, CheckBallot(v) PROVE ElectionIsRight'
  BY <1>4, RightAfterCheckBallot
<1>5. ASSUME NEW k \in 1..Threshold, NEW permutation \in Mixings, ComputeMix(k, permutation)
      PROVE  ElectionIsRight'
  BY <1>5, RightAfterComputeMix
<1>6. ASSUME SignMix PROVE ElectionIsRight'
  BY <1>6, RightAfterSignMix
<1>7. ASSUME NEW t \in Positions, ComputePartialDecryptions(t) PROVE ElectionIsRight'
  BY <1>7, RightAfterComputePartialDecryptions
<1>8. ASSUME NEW present \in Quorums, ComputePlaintexts(present) PROVE ElectionIsRight'
  BY <1>8, RightAfterComputePlaintexts
<1>9. ASSUME UNCHANGED vars PROVE ElectionIsRight'
  <2>1. Graver
    BY <1>9 DEF vars, Graver
  <2> QED
    BY <1>9, <2>1, ElectionStays DEF vars
<1> QED
  BY <1>1, <1>2, <1>3, <1>4, <1>5, <1>6, <1>7, <1>8, <1>9 DEF Next

(* No ballot comes out of the decryption more often than it was cast.      *)
LEMMA BallotsOutWereCast ==
    ASSUME CastAreRight, Len(cast) = NumVoters, NEW p \in PermutationsOf(NumVoters),
           NEW len \in 0..NumVoters, NEW b
    PROVE  Occurrences(b, BallotsOut(p, len)) <= Occurrences(b, BallotsCast)
<1> DEFINE out == BallotsOut(p, len)
           S == {i \in DOMAIN out : out[i] = b}
           T == {i \in DOMAIN BallotsCast : BallotsCast[i] = b}
           f == [i \in S |-> p[i]]
<1>1. NumVoters \in Nat /\ DOMAIN cast = 1..NumVoters
  BY VotersAre DEF CastAreRight, IsList
<1>2. /\ DOMAIN out = 1..len /\ \A i \in 1..len : out[i] = cast[p[i]].ballot
      /\ DOMAIN BallotsCast = 1..NumVoters
      /\ \A v \in 1..NumVoters : BallotsCast[v] = cast[v].ballot
  BY <1>1 DEF BallotsOut, BallotsCast
<1>3. \A i \in S : i \in 1..NumVoters /\ p[i] \in T
  <2> TAKE i \in S
  <2>1. i \in 1..len /\ i \in 1..NumVoters /\ cast[p[i]].ballot = b
    BY <1>1, <1>2
  <2>2. p[i] \in 1..NumVoters
    BY <2>1 DEF PermutationsOf
  <2> QED
    BY <1>2, <2>1, <2>2
<1>4. f \in Injection(S, T)
  <2>1. f \in [S -> T]
    BY <1>3
  <2>2. \A i, j \in S : f[i] = f[j] => i = j
    BY <1>3 DEF PermutationsOf
  <2> QED
    BY <2>1, <2>2 DEF Injection, IsInjective
<1>5. IsFiniteSet(T)
  <2>1. IsFiniteSet(1..NumVoters) /\ T \subseteq 1..NumVoters
    BY <1>1, <1>2, FS_Interval
  <2> QED
    BY <2>1, FS_Subset
<1> HIDE DEF S, T, f
<1>6. Cardinality(S) <= Cardinality(T)
  BY <1>4, <1>5, FS_Injection
<1> QED
  BY <1>6 DEF Occurrences, S, T, out

(* What is right is accepted, whatever else is altered: one direction of   *)
(* CiphertextsVerifyForTheirVoter, ChecksDisplayTheBallotCast,             *)
(* OnlyMixesOfTheInputAreSigned and OnlyRightFactorsAreCombined, and       *)
(* DecryptedBallotsWereCast unless a ballot or a mix was altered.          *)
RightIsAccepted ==
    /\ \A v \in DOMAIN cast : ~FaultyAt({"Ciphertext"}, v) =>
          VerifyCiphertextProof(cast[v].ciphertext, ElectionPk, ELECTION, v)
    /\ \A v \in Voters : checks[v] # None /\ ~FaultyAt(ShownFaults, v) =>
          checks[v].shown = {cast[v].ballot}
    /\ \A k \in DOMAIN mixes : mixes[k].verdict = "Refused" => FaultyAt(MixFaults, k)
    /\ /\ plaintexts # None
       /\ fault.what \notin BallotFaults /\ ~UsesFaulty(plaintexts.present)
       => plaintexts.ok /\ DecryptedBallotsWereCast

(* The invariant says so.                                                  *)
LEMMA RightAreAccepted ==
    ASSUME KeyInv, ElectionIsRight
    PROVE  RightIsAccepted
<1>1. CastAreRight /\ DOMAIN cast = 1..Len(cast)
  BY DEF ElectionIsRight, CastAreRight, IsList
<1>2. \A v \in DOMAIN cast : ~FaultyAt({"Ciphertext"}, v) =>
         VerifyCiphertextProof(cast[v].ciphertext, ElectionPk, ELECTION, v)
  BY <1>1, BallotsCastAre DEF CastBallotIs
<1>3. \A v \in Voters : checks[v] # None /\ ~FaultyAt(ShownFaults, v) =>
         checks[v].shown = {cast[v].ballot}
  BY DEF ElectionIsRight, ChecksAreRight, IsOnly
<1>4. \A k \in DOMAIN mixes : mixes[k].verdict = "Refused" => FaultyAt(MixFaults, k)
  <2>1. DOMAIN mixes = 1..Len(mixes)
    BY DEF ElectionIsRight, MixesAreRight, IsList
  <2> QED
    BY <2>1 DEF ElectionIsRight, MixesAreRight, MixIsRight
<1>5. ASSUME plaintexts # None, fault.what \notin BallotFaults,
             ~UsesFaulty(plaintexts.present)
      PROVE  plaintexts.ok /\ DecryptedBallotsWereCast
  <2>1. PICK p \in PermutationsOf(NumVoters), len \in 0..NumVoters :
           /\ plaintexts.ballots = BallotsOut(p, len)
           /\ fault.what # "FactorMissing" => len = NumVoters
    BY <1>5 DEF ElectionIsRight, PlaintextsAreRight
  <2>2. plaintexts.ok /\ Len(cast) = NumVoters /\ NumVoters \in Nat
    BY <1>5, VotersAre DEF ElectionIsRight, PlaintextsAreRight
  <2>3. Len(plaintexts.ballots) = len
    BY <2>1, <2>2 DEF BallotsOut
  <2>4. \A b \in Ballots : Occurrences(b, plaintexts.ballots) <= Occurrences(b, BallotsCast)
    BY <1>1, <2>1, <2>2, BallotsOutWereCast
  <2>5. fault.what # "FactorMissing" => Len(plaintexts.ballots) = Len(cast)
    BY <2>1, <2>2, <2>3
  <2> QED
    BY <2>2, <2>4, <2>5 DEF DecryptedBallotsWereCast
<1> QED
  BY <1>2, <1>3, <1>4, <1>5 DEF RightIsAccepted

(* A ballot verifies for its voter and is displayed by a check, a mix is   *)
(* signed, and partial decryptions combine to the ballots that were cast,  *)
(* unless that very ballot, mix or partial decryption is altered or made   *)
(* for something else: encrypt_ballot, Shuffler::shuffle and decryption    *)
(* fit strip, Shuffler::verify and combine, for every order of the group,  *)
(* threshold, width of a ballot and randomness.                            *)
THEOREM WhatIsRightIsAccepted == Spec => []RightIsAccepted
<1>1. Init => ElectionIsRight
  BY ElectionIsRightInit
<1>2. KeyInv /\ ElectionIsRight /\ [Next]_vars => ElectionIsRight'
  BY ElectionIsRightNext
<1>3. Spec => []KeyInv
  BY KeyInvHolds
<1>4. KeyInv /\ ElectionIsRight => RightIsAccepted
  BY RightAreAccepted
<1> QED
  BY <1>1, <1>2, <1>3, <1>4, PTL DEF Spec
===============================================================================
