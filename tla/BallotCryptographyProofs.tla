----------------------- MODULE BallotCryptographyProofs -----------------------
(***************************************************************************)
(* Proofs about key generation and secret sharing, for every number of     *)
(* trustees and every threshold the trustees support, every prime group    *)
(* order above them, and all random numbers: the trustees accept exactly   *)
(* the shares that are on the dealer's polynomial, agree on a joint key and*)
(* on verification keys, and any Threshold of them, whatever order they are*)
(* in, hold the secret of the joint key together.                          *)
(*                                                                         *)
(* The sums and products of the algorithms are folds, whose partial        *)
(* results are found first; two sums are then compared modulo the order,   *)
(* term by term.  A recipient compares the polynomial evaluated in the     *)
(* exponent, with powers of its position as integers, with its share,      *)
(* which the dealer evaluated with powers as scalars: they are the same    *)
(* modulo the order, and no power of a position vanishes.                  *)
(*                                                                         *)
(* The order of the group is prime, so scalars are a field, and inverses   *)
(* are powers by Fermat's theorem: the multiples of a scalar are all       *)
(* scalars, in another order, and a product does not depend on the order   *)
(* of its factors.  Lagrange interpolation at 0 gives the power of 0 for   *)
(* the values of a power lower than the number of points: leaving out one  *)
(* of the points gives the interpolated values of a power from those of    *)
(* the one below, and two ways to leave out a point must agree.  The       *)
(* weighted shares of a quorum are then summed up by dealers instead of by *)
(* trustees, and give the first coefficient of every dealer.               *)
(***************************************************************************)
EXTENDS BallotCryptography, FiniteSetTheorems, WellFoundedInduction, TLAPS

-------------------------------------------------------------------------------
(* Induction, over the members of a set.                                   *)

(* A set of numbers that is not empty has a least member.                  *)
LEMMA LeastExists ==
    ASSUME NEW S, S \subseteq Nat, S # {}
    PROVE  \E m \in S : \A k \in S : m <= k
<1> DEFINE R == OpToRel(<, Nat)
<1>1. IsWellFoundedOn(R, Nat)
  BY NatLessThanWellFounded
<1>2. \A x, y : <<y, x>> \in R <=> y \in Nat /\ x \in Nat /\ y < x
  BY DEF OpToRel
<1> HIDE DEF R
<1>3. PICK m \in S : \A k \in S : ~(<<k, m>> \in R)
  BY <1>1, WFMin
<1>4. \A k \in S : ~(k < m)
  BY <1>2, <1>3
<1>5. \A i, j \in Nat : ~(j < i) => i <= j
  OBVIOUS
<1> QED
  BY <1>4, <1>5

(* The numbers are in every set with 0 and, with a number, the next.       *)
LEMMA Induction ==
    ASSUME NEW S, 0 \in S, \A n \in Nat : n \in S => n + 1 \in S
    PROVE  \A n \in Nat : n \in S
<1> DEFINE Rest == {n \in Nat : n \notin S}
<1> SUFFICES ASSUME Rest # {} PROVE FALSE
  OBVIOUS
<1>1. PICK m \in Rest : \A k \in Rest : m <= k
  BY LeastExists
<1>2. m - 1 \in Nat /\ ~(m <= m - 1) /\ m - 1 + 1 = m
  BY <1>1
<1> QED
  BY <1>1, <1>2

-------------------------------------------------------------------------------
(* Arithmetic modulo Order.                                                *)

Same(a, b) == a % Order = b % Order

(* What the proofs use of the order.                                       *)
LEMMA OrderIs == Order \in Nat /\ Order > 256
  BY OrderAssumption

(* Quotient and remainder.                                                 *)
LEMMA DivMod ==
    ASSUME NEW a \in Int
    PROVE  /\ a % Order \in Scalars
           /\ a \div Order \in Int
           /\ a = Order * (a \div Order) + (a % Order)
  BY OrderIs DEF Scalars

(* A number has one remainder.                                             *)
LEMMA UniqueRest ==
    ASSUME NEW q \in Int, NEW r \in Scalars, NEW p \in Int, NEW s \in Scalars,
           Order * q + r = Order * p + s
    PROVE  r = s
  BY OrderIs DEF Scalars

(* How a remainder is recognized.                                          *)
LEMMA RestIs ==
    ASSUME NEW a \in Int, NEW k \in Int, NEW r \in Scalars, a = Order * k + r
    PROVE  a % Order = r
  BY DivMod, UniqueRest, OrderIs DEF Scalars

(* A scalar is its own remainder.                                          *)
LEMMA ScalarsAreRests ==
    ASSUME NEW s \in Scalars
    PROVE  s \in Int /\ s % Order = s
  BY RestIs, OrderIs DEF Scalars

(* The same remainder: the difference is a multiple of the order.          *)
LEMMA SameIff ==
    ASSUME NEW a \in Int, NEW b \in Int
    PROVE  Same(a, b) <=> \E k \in Int : a = b + Order * k
<1>1. ASSUME Same(a, b) PROVE \E k \in Int : a = b + Order * k
  <2>1. a = b + Order * (a \div Order - b \div Order)
    <3>1. a = Order * (a \div Order) + (a % Order) /\ a \div Order \in Int /\ a % Order \in Int
      BY DivMod, OrderIs DEF Scalars
    <3>2. b = Order * (b \div Order) + (b % Order) /\ b \div Order \in Int
      BY DivMod
    <3> QED
      BY <1>1, <3>1, <3>2, OrderIs DEF Same
  <2>2. a \div Order - b \div Order \in Int
    BY DivMod
  <2> QED
    BY <2>1, <2>2
<1>2. ASSUME NEW k \in Int, a = b + Order * k PROVE Same(a, b)
  <2>1. b = Order * (b \div Order) + (b % Order) /\ b \div Order \in Int /\ b % Order \in Scalars
    BY DivMod
  <2>2. a = Order * (b \div Order + k) + (b % Order) /\ b \div Order + k \in Int
    BY <1>2, <2>1, OrderIs DEF Scalars
  <2> QED
    BY <2>1, <2>2, RestIs DEF Same
<1> QED
  BY <1>1, <1>2

(* A remainder is the same as its number.                                  *)
LEMMA SameRest ==
    ASSUME NEW a \in Int
    PROVE  Same(a % Order, a) /\ a % Order \in Int
  BY DivMod, ScalarsAreRests DEF Same

(* Sums of the same are the same, ...                                      *)
LEMMA SameSum ==
    ASSUME NEW a \in Int, NEW b \in Int, NEW c \in Int, NEW d \in Int,
           Same(a, c), Same(b, d)
    PROVE  Same(a + b, c + d)
<1>1. PICK k \in Int : a = c + Order * k
  BY SameIff
<1>2. PICK l \in Int : b = d + Order * l
  BY SameIff
<1>3. a + b = (c + d) + Order * (k + l) /\ k + l \in Int
  BY <1>1, <1>2, OrderIs
<1> QED
  BY <1>3, SameIff

(* ... and so are products.                                                *)
LEMMA SameProduct ==
    ASSUME NEW a \in Int, NEW b \in Int, NEW c \in Int, NEW d \in Int,
           Same(a, c), Same(b, d)
    PROVE  Same(a * b, c * d)
<1>1. PICK k \in Int : a = c + Order * k
  BY SameIff
<1>2. PICK l \in Int : b = d + Order * l
  BY SameIff
<1>3. a * b = c * d + Order * (c * l + k * d + k * (Order * l))
  BY <1>1, <1>2, OrderIs
<1>4. c * l + k * d + k * (Order * l) \in Int
  BY OrderIs
<1> QED
  BY <1>3, <1>4, SameIff

(* The operations of scalars, modulo the order.                            *)
LEMMA AddIs ==
    ASSUME NEW s \in Int, NEW t \in Int
    PROVE  Add(s, t) \in Scalars /\ Same(Add(s, t), s + t)
  BY DivMod, SameRest DEF Add

(* The product of scalars is the rest of the product.                      *)
LEMMA TimesIs ==
    ASSUME NEW s \in Int, NEW t \in Int
    PROVE  Times(s, t) \in Scalars /\ Same(Times(s, t), s * t)
  BY DivMod, SameRest DEF Times

(* The negative of a scalar is a scalar, the rest of the negative.         *)
LEMMA NegIs ==
    ASSUME NEW s \in Int
    PROVE  Neg(s) \in Scalars /\ Same(Neg(s), -s)
<1>1. Order - s \in Int /\ -s \in Int /\ Order - s = -s + Order * 1
  BY OrderIs
<1>2. Same(Order - s, -s)
  BY <1>1, SameIff
<1> QED
  BY <1>1, <1>2, DivMod, SameRest DEF Neg, Same

(* Scalars with the same remainder are equal.                              *)
LEMMA SameScalars ==
    ASSUME NEW s \in Scalars, NEW t \in Scalars
    PROVE  Same(s, t) <=> s = t
  BY ScalarsAreRests DEF Same

-------------------------------------------------------------------------------
(* Sums.                                                                   *)

(* The greatest member of a set of positions, if the last is in it.        *)
LEMMA GreatestIs ==
    ASSUME NEW n \in Nat, NEW S, S \subseteq 1..n, n \in S
    PROVE  Max(S) = n
<1>1. \A x \in S : n >= x
  OBVIOUS
<1>2. \A x \in S : (\A y \in S : x >= y) => x = n
  OBVIOUS
<1> QED
  BY <1>1, <1>2 DEF Max

(* What sums and hashes do with the next number.                           *)
HashStep(h, n) ==
    LET m == (h + n + 4099) % Order
    IN  Times(Times(m, m), m)
Combined(kind, h, n) ==
    CASE kind = "sum" -> Add(h, n)
      [] kind = "product" -> Times(h, n)
      [] kind = "vectors" -> AddEach(h, n)
      [] kind = "ciphertexts" -> CiphertextMul(h, n)
      [] OTHER -> HashStep(h, n)

FoldStep(kind, base, xs, f, S) ==
    IF S = {} THEN base ELSE Combined(kind, f[S \ {Max(S)}], xs[Max(S)])

IsFold(kind, base, xs, n, f) == f = [S \in SUBSET (1..n) |-> FoldStep(kind, base, xs, f, S)]

(* A fold over the positions of a list has a solution.                     *)
LEMMA FoldsExist ==
    ASSUME NEW kind, NEW base, NEW xs
    PROVE  \A n \in Nat : \E f : IsFold(kind, base, xs, n, f)
<1> DEFINE Solved(n) == \E f : f = [S \in SUBSET (1..n) |-> FoldStep(kind, base, xs, f, S)]
           Solvable == {n \in Nat : Solved(n)}
<1> HIDE DEF Solved
<1>1. Solved(0)
  <2> DEFINE f == [S \in SUBSET (1..0) |-> base]
  <2>1. \A S \in SUBSET (1..0) : S = {}
    OBVIOUS
  <2>2. \A S \in SUBSET (1..0) : FoldStep(kind, base, xs, f, S) = base
    BY <2>1 DEF FoldStep
  <2>3. f = [S \in SUBSET (1..0) |-> FoldStep(kind, base, xs, f, S)]
    BY <2>2
  <2> HIDE DEF f
  <2> QED
    BY <2>3 DEF Solved
<1>2. ASSUME NEW n \in Nat, Solved(n)
      PROVE  Solved(n + 1)
  <2>1. PICK f : f = [S \in SUBSET (1..n) |-> FoldStep(kind, base, xs, f, S)]
    BY <1>2 DEF Solved
  <2> DEFINE g == [S \in SUBSET (1..n + 1) |->
                      IF S \subseteq 1..n THEN f[S] ELSE FoldStep(kind, base, xs, f, S)]
  <2>2. \A S \in SUBSET (1..n) : g[S] = f[S] /\ S \in SUBSET (1..n + 1)
    OBVIOUS
  <2>3. \A S \in SUBSET (1..n + 1) : S # {} =>
            S \ {Max(S)} \subseteq 1..n /\ S \ {Max(S)} \in SUBSET (1..n)
    <3> TAKE S \in SUBSET (1..n + 1)
    <3> HAVE S # {}
    <3>1. CASE n + 1 \in S
      <4>1. n + 1 \in Nat /\ S \subseteq 1..n + 1
        OBVIOUS
      <4>2. Max(S) = n + 1
        BY <3>1, <4>1, GreatestIs
      <4>3. \A x \in 1..n + 1 : x # n + 1 => x \in 1..n
        OBVIOUS
      <4> QED
        BY <4>2, <4>3
    <3>2. CASE n + 1 \notin S
      <4>1. \A x \in 1..n + 1 : x # n + 1 => x \in 1..n
        OBVIOUS
      <4>2. S \subseteq 1..n
        BY <3>2, <4>1
      <4> QED
        BY <4>2
    <3> QED
      BY <3>1, <3>2
  <2>4. \A S \in SUBSET (1..n + 1) :
            FoldStep(kind, base, xs, g, S) = FoldStep(kind, base, xs, f, S)
    <3> HIDE DEF g
    <3> QED
      BY <2>2, <2>3 DEF FoldStep
  <2>5. \A S \in SUBSET (1..n) : f[S] = FoldStep(kind, base, xs, f, S)
    BY <2>1
  <2>6. \A S \in SUBSET (1..n + 1) : g[S] = FoldStep(kind, base, xs, g, S)
    BY <2>4, <2>5
  <2>7. g = [S \in SUBSET (1..n + 1) |-> FoldStep(kind, base, xs, g, S)]
    <3>1. g = [S \in SUBSET (1..n + 1) |-> g[S]]
      OBVIOUS
    <3> HIDE DEF g
    <3> QED
      BY <2>6, <3>1
  <2> HIDE DEF g
  <2> QED
    BY <2>7 DEF Solved
<1>3. 0 \in Solvable /\ \A n \in Nat : n \in Solvable => n + 1 \in Solvable
  BY <1>1, <1>2
<1>4. \A n \in Nat : n \in Solvable
  BY <1>3, Induction
<1> QED
  BY <1>4 DEF Solved, IsFold

(* The partial results of a fold.                                          *)
HasParts(kind, base, xs, n, result) ==
    \E f : /\ f[0] = base
           /\ \A i \in 1..n : f[i] = Combined(kind, f[i - 1], xs[i])
           /\ result = f[n]

(* A fold over all positions has partial results.                          *)
LEMMA FoldHasParts ==
    ASSUME NEW kind, NEW base, NEW xs, NEW n \in Nat, NEW F,
           IsFold(kind, base, xs, n, F)
    PROVE  HasParts(kind, base, xs, n, F[1..n])
<1>3. \A S \in SUBSET (1..n) : F[S] = FoldStep(kind, base, xs, F, S)
  BY DEF IsFold
<1> DEFINE f == [i \in 0..n |-> F[1..i]]
<1>4. f[0] = base
  <2>1. 1..0 = {} /\ {} \in SUBSET (1..n) /\ 0 \in 0..n
    OBVIOUS
  <2> QED
    BY <1>3, <2>1 DEF FoldStep
<1>5. ASSUME NEW i \in 1..n PROVE f[i] = Combined(kind, f[i - 1], xs[i])
  <2>1. /\ \A x : x \in 1..i => x \in 1..n
        /\ i \in 1..i
        /\ \A x : x \in (1..i) \ {i} <=> x \in 1..(i - 1)
    OBVIOUS
  <2>4. 1..i \in SUBSET (1..n) /\ 1..i # {} /\ (1..i) \ {i} = 1..(i - 1)
    BY <2>1, Zenon
  <2>2. Max(1..i) = i
    BY GreatestIs
  <2>3. F[1..i] = Combined(kind, F[1..(i - 1)], xs[i])
    BY <1>3, <2>2, <2>4 DEF FoldStep
  <2>5. i \in 0..n /\ i - 1 \in 0..n
    OBVIOUS
  <2> QED
    BY <2>3, <2>5
<1>6. f[n] = F[1..n]
  OBVIOUS
<1> HIDE DEF f
<1> QED
  BY <1>4, <1>5, <1>6 DEF HasParts

(* The partial sums of a list.                                             *)
LEMMA PartialSums ==
    ASSUME NEW n \in Nat, NEW xs, DOMAIN xs = 1..n
    PROVE  \E f : /\ f[0] = 0
                  /\ \A i \in 1..n : f[i] = Add(f[i - 1], xs[i])
                  /\ SumOf(xs) = f[n]
<1> DEFINE Step(f, S) == IF S = {} THEN 0 ELSE Add(f[S \ {Max(S)}], xs[Max(S)])
           F == CHOOSE f : f = [S \in SUBSET (1..n) |-> Step(f, S)]
<1>1. \A f, S : FoldStep("sum", 0, xs, f, S) = Step(f, S)
  BY DEF FoldStep, Combined
<1>2. SumOf(xs) = F[1..n]
  BY DEF SumOf, FoldLeft, MapThenFoldSet
<1> HIDE DEF Step
<1>3. \E f : f = [S \in SUBSET (1..n) |-> Step(f, S)]
  <2>1. PICK f : IsFold("sum", 0, xs, n, f)
    BY FoldsExist
  <2> QED
    BY <1>1, <2>1 DEF IsFold
<1>4. F = [S \in SUBSET (1..n) |-> Step(F, S)]
  BY <1>3, Zenon
<1> HIDE DEF F
<1>5. IsFold("sum", 0, xs, n, F)
  BY <1>1, <1>4 DEF IsFold
<1>6. HasParts("sum", 0, xs, n, F[1..n])
  BY <1>5, FoldHasParts
<1> QED
  BY <1>2, <1>6 DEF HasParts, Combined

(* The partial hashes of a list.                                           *)
IsHashing(n, xs, f) ==
    /\ f[0] = Len(xs)
    /\ \A i \in 1..n : f[i] = HashStep(f[i - 1], xs[i])
    /\ HashToScalar(xs) = f[n]

(* A list of n numbers has n partial hashes, the last the hash of the list. *)
LEMMA PartialHashes ==
    ASSUME NEW n \in Nat, NEW xs, DOMAIN xs = 1..n
    PROVE  \E f : IsHashing(n, xs, f)
<1> DEFINE Step(f, S) ==
               IF S = {} THEN Len(xs) ELSE HashStep(f[S \ {Max(S)}], xs[Max(S)])
           F == CHOOSE f : f = [S \in SUBSET (1..n) |-> Step(f, S)]
<1>1. \A f, S : FoldStep("hash", Len(xs), xs, f, S) = Step(f, S)
  BY DEF FoldStep, Combined
<1>2. HashToScalar(xs) = F[1..n]
  BY DEF HashToScalar, FoldLeft, MapThenFoldSet, HashStep
<1> HIDE DEF Step
<1>3. \E f : f = [S \in SUBSET (1..n) |-> Step(f, S)]
  <2>1. PICK f : IsFold("hash", Len(xs), xs, n, f)
    BY FoldsExist
  <2> QED
    BY <1>1, <2>1 DEF IsFold
<1>4. F = [S \in SUBSET (1..n) |-> Step(F, S)]
  BY <1>3, Zenon
<1> HIDE DEF F
<1>5. IsFold("hash", Len(xs), xs, n, F)
  BY <1>1, <1>4 DEF IsFold
<1>6. HasParts("hash", Len(xs), xs, n, F[1..n])
  BY <1>5, FoldHasParts
<1> QED
  BY <1>2, <1>6 DEF HasParts, Combined, IsHashing

(* If two lists differ at one place by z, their sums differ by z.          *)
LEMMA SumsDiffer ==
    ASSUME NEW n \in Nat, NEW xs \in [1..n -> Int], NEW ys \in [1..n -> Int],
           NEW k \in 1..n, NEW z \in Int, Same(ys[k], xs[k] + z),
           \A i \in 1..n : i # k => Same(ys[i], xs[i])
    PROVE  Same(SumOf(ys), SumOf(xs) + z)
<1>1. PICK f : /\ f[0] = 0
               /\ \A i \in 1..n : f[i] = Add(f[i - 1], xs[i])
               /\ SumOf(xs) = f[n]
  BY PartialSums
<1>2. PICK g : /\ g[0] = 0
               /\ \A i \in 1..n : g[i] = Add(g[i - 1], ys[i])
               /\ SumOf(ys) = g[n]
  BY PartialSums
<1> DEFINE D(i) == IF i < k THEN 0 ELSE z
           Good == {i \in Nat : i <= n =>
                      /\ f[i] \in Scalars /\ g[i] \in Scalars /\ Same(g[i], f[i] + D(i))}
<1>3. 0 \in Good
  <2>1. 0 \in Scalars /\ 0 + 0 = 0 /\ 0 < k
    BY OrderIs DEF Scalars
  <2> QED
    BY <1>1, <1>2, <2>1 DEF Same
<1>4. ASSUME NEW i \in Nat, i \in Good PROVE i + 1 \in Good
  <2> SUFFICES ASSUME i + 1 <= n
               PROVE  /\ f[i + 1] \in Scalars /\ g[i + 1] \in Scalars
                      /\ Same(g[i + 1], f[i + 1] + D(i + 1))
    OBVIOUS
  <2>1. f[i] \in Scalars /\ g[i] \in Scalars /\ Same(g[i], f[i] + D(i))
    BY <1>4
  <2>2. i + 1 \in 1..n /\ i + 1 - 1 = i
    OBVIOUS
  <2>3. xs[i + 1] \in Int /\ ys[i + 1] \in Int /\ f[i] \in Int /\ g[i] \in Int
    BY <2>1, <2>2, ScalarsAreRests
  <2>4. f[i + 1] = Add(f[i], xs[i + 1]) /\ g[i + 1] = Add(g[i], ys[i + 1])
    BY <1>1, <1>2, <2>2
  <2>5. /\ f[i + 1] \in Scalars /\ Same(f[i + 1], f[i] + xs[i + 1])
        /\ g[i + 1] \in Scalars /\ Same(g[i + 1], g[i] + ys[i + 1])
    BY <2>3, <2>4, AddIs
  <2> DEFINE e == IF i + 1 = k THEN z ELSE 0
  <2>6. Same(ys[i + 1], xs[i + 1] + e) /\ e \in Int
    <3>1. CASE i + 1 = k
      BY <3>1
    <3>2. CASE i + 1 # k
      <4>1. e = 0 /\ xs[i + 1] + 0 = xs[i + 1]
        BY <2>3, <3>2
      <4>2. Same(ys[i + 1], xs[i + 1])
        BY <2>2, <3>2
      <4> HIDE DEF e
      <4> QED
        BY <4>1, <4>2
    <3> QED
      BY <3>1, <3>2
  <2>7. D(i) \in Int /\ D(i + 1) \in Int /\ D(i + 1) = D(i) + e
    OBVIOUS
  <2> HIDE DEF e, D
  <2>12. f[i] + D(i) \in Int /\ xs[i + 1] + e \in Int
    BY <2>3, <2>6, <2>7
  <2>8. Same(g[i] + ys[i + 1], (f[i] + D(i)) + (xs[i + 1] + e))
    BY <2>1, <2>3, <2>6, <2>12, SameSum
  <2>9. (f[i] + D(i)) + (xs[i + 1] + e) = (f[i] + xs[i + 1]) + D(i + 1)
    BY <2>3, <2>6, <2>7
  <2>10. f[i + 1] \in Int /\ f[i] + xs[i + 1] \in Int
    BY <2>3, <2>5, ScalarsAreRests
  <2>11. Same(f[i + 1] + D(i + 1), (f[i] + xs[i + 1]) + D(i + 1))
    <3>1. Same(D(i + 1), D(i + 1))
      BY DEF Same
    <3> QED
      BY <2>5, <2>7, <2>10, <3>1, SameSum
  <2> QED
    BY <2>5, <2>8, <2>9, <2>11 DEF Same
<1>5. n \in Good
  <2> HIDE DEF Good
  <2> QED
    BY <1>3, <1>4, Induction
<1>6. D(n) = z
  OBVIOUS
<1> QED
  BY <1>1, <1>2, <1>5, <1>6

(* A sum is a scalar.                                                      *)
LEMMA SumIs ==
    ASSUME NEW n \in Nat, NEW xs \in [1..n -> Int]
    PROVE  SumOf(xs) \in Scalars
<1>1. PICK f : /\ f[0] = 0
               /\ \A i \in 1..n : f[i] = Add(f[i - 1], xs[i])
               /\ SumOf(xs) = f[n]
  BY PartialSums
<1> DEFINE Good == {i \in Nat : i <= n => f[i] \in Scalars}
<1>2. 0 \in Good
  BY <1>1, OrderIs DEF Scalars
<1>3. ASSUME NEW i \in Nat, i \in Good PROVE i + 1 \in Good
  <2> SUFFICES ASSUME i + 1 <= n PROVE f[i + 1] \in Scalars
    OBVIOUS
  <2>1. f[i] \in Int /\ i + 1 \in 1..n /\ xs[i + 1] \in Int /\ i + 1 - 1 = i
    BY <1>3, ScalarsAreRests
  <2>2. f[i + 1] = Add(f[i], xs[i + 1])
    BY <1>1, <2>1
  <2> QED
    BY <2>1, <2>2, AddIs
<1>4. n \in Good
  <2> HIDE DEF Good
  <2> QED
    BY <1>2, <1>3, Induction
<1> QED
  BY <1>1, <1>4

(* If two lists are the same modulo the order, so are their sums.          *)
LEMMA SumsAgree ==
    ASSUME NEW n \in Nat, NEW xs \in [1..n -> Int], NEW ys \in [1..n -> Int],
           \A i \in 1..n : Same(xs[i], ys[i])
    PROVE  SumOf(xs) = SumOf(ys)
<1>1. CASE n = 0
  <2>1. xs = ys
    BY <1>1
  <2> QED
    BY <2>1
<1>2. CASE n # 0
  <2>1. 1 \in 1..n /\ ys[1] + 0 = ys[1] /\ \A i \in 1..n : ys[i] \in Int
    BY <1>2
  <2>2. Same(SumOf(xs), SumOf(ys) + 0)
    BY <2>1, SumsDiffer
  <2>3. SumOf(xs) \in Scalars /\ SumOf(ys) \in Scalars /\ SumOf(ys) + 0 = SumOf(ys)
    BY SumIs, ScalarsAreRests
  <2> QED
    BY <2>2, <2>3, SameScalars
<1> QED
  BY <1>1, <1>2

(* Products of elements are sums of logarithms.                            *)
LEMMA ProductIsSum ==
    ASSUME NEW xs
    PROVE  Product(xs) = SumOf(xs)
  BY DEF Product, SumOf, FoldLeft, MapThenFoldSet, Mul, one

-------------------------------------------------------------------------------
(* Hashes, and random scalars, which are hashes here.                      *)

(* A hash is a scalar.                                                     *)
LEMMA HashIs ==
    ASSUME NEW input \in Seq(Int)
    PROVE  HashToScalar(input) \in Scalars
<1> DEFINE n == Len(input)
<1>1. n \in Nat /\ DOMAIN input = 1..n
  OBVIOUS
<1>0. PICK f : IsHashing(n, input, f)
  <2> HIDE DEF n
  <2> QED
    BY <1>1, PartialHashes
<1>2. /\ f[0] = Len(input)
      /\ \A i \in 1..n : f[i] = HashStep(f[i - 1], input[i])
      /\ HashToScalar(input) = f[n]
  BY <1>0 DEF IsHashing
<1> DEFINE Good == {i \in Nat : i <= n => f[i] \in Int /\ (i # 0 => f[i] \in Scalars)}
<1>3. 0 \in Good
  BY <1>2
<1>4. ASSUME NEW i \in Nat, i \in Good PROVE i + 1 \in Good
  <2> SUFFICES ASSUME i + 1 <= n PROVE f[i + 1] \in Int /\ f[i + 1] \in Scalars
    OBVIOUS
  <2>1. f[i] \in Int /\ i + 1 \in 1..n /\ input[i + 1] \in Int /\ i + 1 - 1 = i
    BY <1>4
  <2>2. f[i + 1] = HashStep(f[i], input[i + 1])
    BY <1>2, <2>1
  <2> DEFINE m == (f[i] + input[i + 1] + 4099) % Order
  <2>3. m \in Int
    <3>1. f[i] + input[i + 1] + 4099 \in Int
      BY <2>1
    <3> QED
      BY <3>1, SameRest
  <2>4. Times(m, m) \in Int
    BY <2>3, TimesIs, ScalarsAreRests
  <2>5. Times(Times(m, m), m) \in Scalars
    BY <2>3, <2>4, TimesIs
  <2> QED
    BY <2>2, <2>5, ScalarsAreRests DEF HashStep
<1>5. n \in Good
  <2> HIDE DEF Good
  <2> QED
    BY <1>1, <1>3, <1>4, Induction
<1>6. n = 0 => f[n] \in Scalars
  BY <1>2, OrderIs DEF Scalars
<1> QED
  BY <1>2, <1>5, <1>6

(* What is drawn at random are scalars.                                    *)
LEMMA RandomIs ==
    ASSUME NEW place \in Seq(Int)
    PROVE  /\ RandomScalar(place) \in Scalars
           /\ \A width \in Nat : RandomScalars(width, place) \in [1..width -> Scalars]
<1>1. ASSUME NEW p \in Seq(Int) PROVE RandomScalar(p) \in Scalars
  <2>1. <<3>> \o p \in Seq(Int)
    OBVIOUS
  <2> QED
    BY <2>1, HashIs DEF RandomScalar
<1>2. ASSUME NEW width \in Nat
      PROVE  RandomScalars(width, place) \in [1..width -> Scalars]
  <2>1. \A i \in 1..width : Append(place, i) \in Seq(Int)
    OBVIOUS
  <2>2. \A i \in 1..width : RandomScalar(Append(place, i)) \in Scalars
    BY <1>1, <2>1
  <2> QED
    BY <2>2 DEF RandomScalars
<1> QED
  BY <1>1, <1>2

-------------------------------------------------------------------------------
(* Powers of a position.                                                   *)

Grown(kind, p, x) == IF kind = "scalar" THEN Times(p, x) ELSE p * x
PowerStep(kind, x, f, j) == IF j = 1 THEN 1 ELSE Grown(kind, f[j - 1], x)
IsPowers(kind, x, n, f) == f = [j \in 1..n |-> PowerStep(kind, x, f, j)]

(* The powers of a number, by either multiplication, are a function.       *)
LEMMA PowersExist ==
    ASSUME NEW kind, NEW x
    PROVE  \A n \in Nat : \E f : IsPowers(kind, x, n, f)
<1> DEFINE Solved(n) == \E f : f = [j \in 1..n |-> PowerStep(kind, x, f, j)]
           Solvable == {n \in Nat : Solved(n)}
<1> HIDE DEF Solved
<1>1. Solved(0)
  <2> DEFINE f == [j \in 1..0 |-> 1]
  <2>1. f = [j \in 1..0 |-> PowerStep(kind, x, f, j)]
    OBVIOUS
  <2> HIDE DEF f
  <2> QED
    BY <2>1 DEF Solved
<1>2. ASSUME NEW n \in Nat, Solved(n)
      PROVE  Solved(n + 1)
  <2>1. PICK f : f = [j \in 1..n |-> PowerStep(kind, x, f, j)]
    BY <1>2 DEF Solved
  <2> DEFINE g == [j \in 1..n + 1 |-> IF j \in 1..n THEN f[j] ELSE PowerStep(kind, x, f, j)]
  <2>2. \A j \in 1..n + 1 : j # 1 => j - 1 \in 1..n /\ j - 1 \in 1..n + 1
    OBVIOUS
  <2>3. \A j \in 1..n + 1 : j # 1 => g[j - 1] = f[j - 1]
    BY <2>2
  <2>4. \A j \in 1..n + 1 : PowerStep(kind, x, g, j) = PowerStep(kind, x, f, j)
    <3> HIDE DEF g
    <3> QED
      BY <2>3 DEF PowerStep
  <2>5. \A j \in 1..n : f[j] = PowerStep(kind, x, f, j)
    BY <2>1
  <2>6. \A j \in 1..n + 1 : g[j] = PowerStep(kind, x, g, j)
    BY <2>4, <2>5
  <2>7. g = [j \in 1..n + 1 |-> PowerStep(kind, x, g, j)]
    <3>1. g = [j \in 1..n + 1 |-> g[j]]
      OBVIOUS
    <3> HIDE DEF g
    <3> QED
      BY <2>6, <3>1
  <2> HIDE DEF g
  <2> QED
    BY <2>7 DEF Solved
<1>3. 0 \in Solvable /\ \A n \in Nat : n \in Solvable => n + 1 \in Solvable
  BY <1>1, <1>2
<1>4. \A n \in Nat : n \in Solvable
  BY <1>3, Induction
<1> QED
  BY <1>4 DEF Solved, IsPowers

(* What the proofs use of the numbers of trustees.                         *)
LEMMA DealerIs ==
    /\ NumTrustees \in Nat /\ NumTrustees >= 1
    /\ Threshold \in Nat /\ Threshold >= 1
    /\ Positions = 1..NumTrustees
    /\ \A p \in Positions : p \in Nat /\ p >= 1 /\ p < Order
    /\ Positions # {}
  BY DealerAssumption, OrderIs DEF Positions

(* The powers the dealer multiplies up.                                    *)
LEMMA ScalarPowersAre ==
    ASSUME NEW x
    PROVE  /\ ScalarPowers(x) = [j \in 1..Threshold |-> ScalarPowers(x)[j]]
           /\ ScalarPowers(x)[1] = 1
           /\ \A j \in 1..Threshold : j # 1 =>
                 ScalarPowers(x)[j] = Times(ScalarPowers(x)[j - 1], x)
<1> DEFINE Step(f, j) == IF j = 1 THEN 1 ELSE Times(f[j - 1], x)
           F == CHOOSE f : f = [j \in 1..Threshold |-> Step(f, j)]
<1>1. \A f, j : PowerStep("scalar", x, f, j) = Step(f, j)
  BY DEF PowerStep, Grown
<1>2. ScalarPowers(x) = F
  BY DEF ScalarPowers
<1> HIDE DEF Step
<1>3. \E f : f = [j \in 1..Threshold |-> Step(f, j)]
  <2>1. PICK f : IsPowers("scalar", x, Threshold, f)
    BY PowersExist, DealerIs
  <2> QED
    BY <1>1, <2>1 DEF IsPowers
<1>4. F = [j \in 1..Threshold |-> Step(F, j)]
  BY <1>3, Zenon
<1> HIDE DEF F
<1>5. \A j \in 1..Threshold : F[j] = Step(F, j)
  BY <1>4
<1>6. 1 \in 1..Threshold
  BY DealerIs
<1>7. F = [j \in 1..Threshold |-> F[j]]
  BY <1>4, <1>5
<1> QED
  BY <1>2, <1>5, <1>6, <1>7 DEF Step

(* The powers the recipient raises to.                                     *)
LEMMA PositionPowersAre ==
    ASSUME NEW x
    PROVE  /\ PositionPowers(x) = [j \in 1..Threshold |-> PositionPowers(x)[j]]
           /\ PositionPowers(x)[1] = 1
           /\ \A j \in 1..Threshold : j # 1 =>
                 PositionPowers(x)[j] = PositionPowers(x)[j - 1] * x
<1> DEFINE Step(f, j) == IF j = 1 THEN 1 ELSE f[j - 1] * x
           F == CHOOSE f : f = [j \in 1..Threshold |-> Step(f, j)]
<1>1. \A f, j : PowerStep("position", x, f, j) = Step(f, j)
  BY DEF PowerStep, Grown
<1>2. PositionPowers(x) = F
  BY DEF PositionPowers
<1> HIDE DEF Step
<1>3. \E f : f = [j \in 1..Threshold |-> Step(f, j)]
  <2>1. PICK f : IsPowers("position", x, Threshold, f)
    BY PowersExist, DealerIs
  <2> QED
    BY <1>1, <2>1 DEF IsPowers
<1>4. F = [j \in 1..Threshold |-> Step(F, j)]
  BY <1>3, Zenon
<1> HIDE DEF F
<1>5. \A j \in 1..Threshold : F[j] = Step(F, j)
  BY <1>4
<1>6. 1 \in 1..Threshold
  BY DealerIs
<1>7. F = [j \in 1..Threshold |-> F[j]]
  BY <1>4, <1>5
<1> QED
  BY <1>2, <1>5, <1>6, <1>7 DEF Step

(* The powers of a position do not vanish modulo Order, and the scalar     *)
(* powers are the same modulo Order.                                       *)
LEMMA PowersAgree ==
    ASSUME NEW p \in Positions
    PROVE  /\ PositionPowers(p) \in [1..Threshold -> 1..(Order - 1)]
           /\ ScalarPowers(p) \in [1..Threshold -> Scalars]
           /\ \A j \in 1..Threshold : Same(ScalarPowers(p)[j], PositionPowers(p)[j])
<1> DEFINE I == PositionPowers(p)
           S == ScalarPowers(p)
<1>10. I = [j \in 1..Threshold |-> I[j]] /\ S = [j \in 1..Threshold |-> S[j]]
  BY PositionPowersAre, ScalarPowersAre
<1>1. /\ I[1] = 1
      /\ \A j \in 1..Threshold : j # 1 => I[j] = I[j - 1] * p
  BY PositionPowersAre
<1>2. /\ S[1] = 1
      /\ \A j \in 1..Threshold : j # 1 => S[j] = Times(S[j - 1], p)
  BY ScalarPowersAre
<1>3. p \in Nat /\ p >= 1 /\ p < Order /\ Threshold \in Nat /\ Threshold >= 1
  BY DealerIs
<1>4. I[Threshold] < Order
  BY DealerAssumption
<1> HIDE DEF I, S
(* The powers are positive, ...                                            *)
<1>5. \A j \in 1..Threshold : I[j] \in Nat /\ I[j] >= 1
  <2> DEFINE Good == {j \in Nat : j + 1 <= Threshold => I[j + 1] \in Nat /\ I[j + 1] >= 1}
  <2>1. 0 \in Good
    BY <1>1
  <2>2. ASSUME NEW j \in Nat, j \in Good PROVE j + 1 \in Good
    <3> SUFFICES ASSUME j + 1 + 1 <= Threshold
                 PROVE  I[j + 1 + 1] \in Nat /\ I[j + 1 + 1] >= 1
      OBVIOUS
    <3>1. I[j + 1] \in Nat /\ I[j + 1] >= 1
      BY <1>3, <2>2
    <3>2. j + 1 + 1 \in 1..Threshold /\ j + 1 + 1 # 1 /\ j + 1 + 1 - 1 = j + 1
      BY <1>3
    <3>3. I[j + 1 + 1] = I[j + 1] * p
      BY <1>1, <3>2
    <3>4. \A a, b \in Nat : a >= 1 /\ b >= 1 => a * b \in Nat /\ a * b >= 1
      OBVIOUS
    <3> QED
      BY <1>3, <3>1, <3>3, <3>4
  <2>3. \A j \in Nat : j \in Good
    <3> HIDE DEF Good
    <3> QED
      BY <2>1, <2>2, Induction
  <2>4. ASSUME NEW j \in 1..Threshold PROVE I[j] \in Nat /\ I[j] >= 1
    <3>1. j - 1 \in Nat /\ j - 1 + 1 = j /\ j <= Threshold
      BY <1>3
    <3>2. j - 1 \in Good
      BY <2>3, <3>1
    <3> QED
      BY <3>1, <3>2
  <2> QED
    BY <2>4
(* ... and none is above the last.                                         *)
<1>6. \A j \in 1..Threshold : I[j] <= I[Threshold]
  <2> DEFINE Good == {k \in Nat : k < Threshold => I[Threshold - k] <= I[Threshold]}
  <2>1. 0 \in Good
    <3>1. Threshold - 0 = Threshold /\ Threshold \in 1..Threshold
      BY <1>3
    <3> QED
      BY <1>5, <3>1
  <2>2. ASSUME NEW k \in Nat, k \in Good PROVE k + 1 \in Good
    <3> SUFFICES ASSUME k + 1 < Threshold
                 PROVE  I[Threshold - (k + 1)] <= I[Threshold]
      OBVIOUS
    <3>1. /\ Threshold - k \in 1..Threshold /\ Threshold - k # 1
          /\ Threshold - k - 1 = Threshold - (k + 1)
          /\ Threshold - (k + 1) \in 1..Threshold /\ Threshold \in 1..Threshold
          /\ k < Threshold
      BY <1>3
    <3>2. I[Threshold - k] = I[Threshold - (k + 1)] * p
      BY <1>1, <3>1
    <3>3. I[Threshold - k] <= I[Threshold]
      BY <2>2, <3>1
    <3>4. \A a, b \in Nat : b >= 1 => a <= a * b
      OBVIOUS
    <3>5. /\ I[Threshold - (k + 1)] \in Nat /\ I[Threshold - k] \in Nat
          /\ I[Threshold] \in Nat
      BY <1>5, <3>1
    <3>6. I[Threshold - (k + 1)] <= I[Threshold - k]
      BY <1>3, <3>2, <3>4, <3>5
    <3> QED
      BY <3>3, <3>5, <3>6
  <2>3. \A k \in Nat : k \in Good
    <3> HIDE DEF Good
    <3> QED
      BY <2>1, <2>2, Induction
  <2>4. ASSUME NEW j \in 1..Threshold PROVE I[j] <= I[Threshold]
    <3>1. Threshold - j \in Nat /\ Threshold - j < Threshold /\ Threshold - (Threshold - j) = j
      BY <1>3
    <3>2. Threshold - j \in Good
      BY <2>3, <3>1
    <3> QED
      BY <3>1, <3>2
  <2> QED
    BY <2>4
<1>7. I \in [1..Threshold -> 1..(Order - 1)]
  <2>1. I = [j \in 1..Threshold |-> I[j]]
    BY <1>10
  <2>2. Threshold \in 1..Threshold
    BY <1>3
  <2>3. \A j \in 1..Threshold : I[j] \in 1..(Order - 1)
    BY <1>4, <1>5, <1>6, <2>2, OrderIs
  <2> QED
    BY <2>1, <2>3
<1>8. \A j \in 1..Threshold : S[j] \in Scalars /\ Same(S[j], I[j])
  <2> DEFINE Good == {j \in Nat : j + 1 <= Threshold =>
                          S[j + 1] \in Scalars /\ Same(S[j + 1], I[j + 1])}
  <2>1. 0 \in Good
    BY <1>1, <1>2, OrderIs DEF Scalars, Same
  <2>2. ASSUME NEW j \in Nat, j \in Good PROVE j + 1 \in Good
    <3> SUFFICES ASSUME j + 1 + 1 <= Threshold
                 PROVE  S[j + 1 + 1] \in Scalars /\ Same(S[j + 1 + 1], I[j + 1 + 1])
      OBVIOUS
    <3>1. S[j + 1] \in Scalars /\ Same(S[j + 1], I[j + 1])
      BY <1>3, <2>2
    <3>2. /\ j + 1 + 1 \in 1..Threshold /\ j + 1 + 1 # 1
          /\ j + 1 + 1 - 1 = j + 1 /\ j + 1 \in 1..Threshold
      BY <1>3
    <3>3. I[j + 1 + 1] = I[j + 1] * p /\ S[j + 1 + 1] = Times(S[j + 1], p)
      BY <1>1, <1>2, <3>2
    <3>4. S[j + 1] \in Int /\ p \in Int /\ I[j + 1] \in Int /\ Same(p, p)
      BY <1>3, <1>5, <3>1, <3>2, ScalarsAreRests DEF Same
    <3>5. Same(S[j + 1] * p, I[j + 1] * p)
      BY <3>1, <3>4, SameProduct
    <3>6. S[j + 1 + 1] \in Scalars /\ Same(S[j + 1 + 1], S[j + 1] * p)
      BY <3>3, <3>4, TimesIs
    <3> QED
      BY <3>3, <3>5, <3>6 DEF Same
  <2>3. \A j \in Nat : j \in Good
    <3> HIDE DEF Good
    <3> QED
      BY <2>1, <2>2, Induction
  <2>4. ASSUME NEW j \in 1..Threshold PROVE S[j] \in Scalars /\ Same(S[j], I[j])
    <3>1. j - 1 \in Nat /\ j - 1 + 1 = j /\ j <= Threshold
      BY <1>3
    <3>2. j - 1 \in Good
      BY <2>3, <3>1
    <3> QED
      BY <3>1, <3>2
  <2> QED
    BY <2>4
<1>9. S \in [1..Threshold -> Scalars]
  <2>1. S = [j \in 1..Threshold |-> S[j]]
    BY <1>10
  <2> QED
    BY <1>8, <2>1
<1> QED
  BY <1>7, <1>8, <1>9 DEF I, S

-------------------------------------------------------------------------------
(* Key generation: the shares of a polynomial and their verification.  A   *)
(* power of the generator is its scalar.                                   *)
LEMMA PowerOfGenerator ==
    ASSUME NEW s \in Scalars
    PROVE  Exp(generator, s) = s
  BY ScalarsAreRests, OrderIs DEF Exp, Times, generator

(* A scalar is not the same when less than the order is added.             *)
LEMMA ShiftedDiffers ==
    ASSUME NEW e \in Scalars, NEW z \in 1..(Order - 1)
    PROVE  ~Same(e, e + z)
<1> SUFFICES ASSUME Same(e, e + z) PROVE FALSE
  OBVIOUS
<1>1. e \in Int /\ z \in Int /\ e + z \in Int
  BY ScalarsAreRests, OrderIs
<1>2. PICK k \in Int : e = (e + z) + Order * k
  BY <1>1, SameIff
<1>3. Order * k \in Int
  BY OrderIs
<1>4. z = -(Order * k)
  BY <1>1, <1>2, <1>3
<1>5. -(Order * k) = Order * (-k)
  BY OrderIs
<1>6. Order * 0 + z = Order * (-k) + 0
  BY <1>1, <1>4, <1>5, OrderIs
<1>7. z \in Scalars /\ 0 \in Scalars /\ -k \in Int /\ 0 \in Int
  BY OrderIs DEF Scalars
<1>8. z = 0
  BY <1>6, <1>7, UniqueRest
<1> QED
  BY <1>8

(* The polynomial of a dealer at a position, from the polynomial and from  *)
(* the checking values.                                                    *)
LEMMA EvalIs ==
    ASSUME NEW polynomial \in [1..Threshold -> Scalars], NEW p \in Positions
    PROVE  /\ Eval(polynomial, p) =
                 SumOf([i \in 1..Threshold |-> Times(polynomial[i], ScalarPowers(p)[i])])
           /\ [i \in 1..Threshold |-> Times(polynomial[i], ScalarPowers(p)[i])]
                 \in [1..Threshold -> Int]
           /\ \A i \in 1..Threshold :
                 Same(Times(polynomial[i], ScalarPowers(p)[i]),
                      polynomial[i] * PositionPowers(p)[i])
           /\ Eval(polynomial, p) \in Scalars
<1> DEFINE S == ScalarPowers(p)
           I == PositionPowers(p)
<1>1. /\ I \in [1..Threshold -> 1..(Order - 1)] /\ S \in [1..Threshold -> Scalars]
      /\ \A j \in 1..Threshold : Same(S[j], I[j])
  BY PowersAgree
<1>2. Eval(polynomial, p) = SumOf([i \in 1..Threshold |-> Times(polynomial[i], S[i])])
  BY DEF Eval, TimesEach
<1> HIDE DEF S, I
<1>3. ASSUME NEW i \in 1..Threshold
      PROVE  /\ Times(polynomial[i], S[i]) \in Int
             /\ Same(Times(polynomial[i], S[i]), polynomial[i] * I[i])
  <2>1. polynomial[i] \in Int /\ S[i] \in Int /\ I[i] \in Int /\ Same(S[i], I[i])
    BY <1>1, ScalarsAreRests
  <2>2. Times(polynomial[i], S[i]) \in Scalars
    BY <2>1, TimesIs
  <2>3. Same(Times(polynomial[i], S[i]), polynomial[i] * S[i])
    BY <2>1, TimesIs
  <2>4. Same(polynomial[i] * S[i], polynomial[i] * I[i])
    BY <2>1, SameProduct DEF Same
  <2> QED
    BY <2>2, <2>3, <2>4, ScalarsAreRests DEF Same
<1>4. [i \in 1..Threshold |-> Times(polynomial[i], S[i])] \in [1..Threshold -> Int]
  BY <1>3
<1>5. SumOf([i \in 1..Threshold |-> Times(polynomial[i], S[i])]) \in Scalars
  BY <1>4, SumIs, DealerIs
<1> QED
  BY <1>2, <1>3, <1>4, <1>5 DEF S, I

(* The same from checking values.                                          *)
LEMMA VkFactorIs ==
    ASSUME NEW cv \in [1..Threshold -> Scalars], NEW p \in Positions
    PROVE  /\ VkFactor(cv, p) =
                 SumOf([i \in 1..Threshold |-> Exp(cv[i], PositionPowers(p)[i])])
           /\ [i \in 1..Threshold |-> Exp(cv[i], PositionPowers(p)[i])]
                 \in [1..Threshold -> Int]
           /\ \A i \in 1..Threshold :
                 Same(Exp(cv[i], PositionPowers(p)[i]), cv[i] * PositionPowers(p)[i])
           /\ VkFactor(cv, p) \in Scalars
<1> DEFINE I == PositionPowers(p)
<1>1. I \in [1..Threshold -> 1..(Order - 1)]
  BY PowersAgree
<1>2. VkFactor(cv, p) = SumOf([i \in 1..Threshold |-> Exp(cv[i], I[i])])
  <2>1. ExpEach(cv, I) = [i \in 1..Threshold |-> Exp(cv[i], I[i])]
    BY DEF ExpEach
  <2> QED
    BY <2>1, ProductIsSum DEF VkFactor
<1> HIDE DEF I
<1>3. ASSUME NEW i \in 1..Threshold
      PROVE  Exp(cv[i], I[i]) \in Int /\ Same(Exp(cv[i], I[i]), cv[i] * I[i])
  <2>1. cv[i] \in Int /\ I[i] \in Int
    BY <1>1, ScalarsAreRests
  <2> QED
    BY <2>1, TimesIs, ScalarsAreRests DEF Exp
<1>4. [i \in 1..Threshold |-> Exp(cv[i], I[i])] \in [1..Threshold -> Int]
  BY <1>3
<1>5. SumOf([i \in 1..Threshold |-> Exp(cv[i], I[i])]) \in Scalars
  BY <1>4, SumIs, DealerIs
<1> QED
  BY <1>2, <1>3, <1>4, <1>5 DEF I

(* The checking values of a polynomial evaluate to its value.              *)
LEMMA CheckingValuesEvaluate ==
    ASSUME NEW polynomial \in [1..Threshold -> Scalars], NEW p \in Positions
    PROVE  VkFactor(polynomial, p) = Eval(polynomial, p)
<1> DEFINE xs == [i \in 1..Threshold |-> Times(polynomial[i], ScalarPowers(p)[i])]
           ys == [i \in 1..Threshold |-> Exp(polynomial[i], PositionPowers(p)[i])]
<1>1. \A i \in 1..Threshold : Same(ys[i], xs[i])
  BY EvalIs, VkFactorIs DEF Same
<1>2. xs \in [1..Threshold -> Int] /\ ys \in [1..Threshold -> Int] /\ Threshold \in Nat
  BY EvalIs, VkFactorIs, DealerIs
<1>3. Eval(polynomial, p) = SumOf(xs) /\ VkFactor(polynomial, p) = SumOf(ys)
  BY EvalIs, VkFactorIs
<1> HIDE DEF xs, ys
<1> QED
  BY <1>1, <1>2, <1>3, SumsAgree

(* One altered checking value shows at every position.                     *)
LEMMA AlteredCheckingValueShows ==
    ASSUME NEW polynomial \in [1..Threshold -> Scalars], NEW p \in Positions,
           NEW cv \in [1..Threshold -> Scalars], NEW k \in 1..Threshold,
           cv[k] = Add(polynomial[k], 1),
           \A i \in 1..Threshold : i # k => cv[i] = polynomial[i]
    PROVE  VkFactor(cv, p) # Eval(polynomial, p)
<1> DEFINE I == PositionPowers(p)
           z == I[k]
           xs == [i \in 1..Threshold |-> Times(polynomial[i], ScalarPowers(p)[i])]
           ys == [i \in 1..Threshold |-> Exp(cv[i], I[i])]
<1>1. xs \in [1..Threshold -> Int] /\ ys \in [1..Threshold -> Int] /\ Threshold \in Nat
  BY EvalIs, VkFactorIs, DealerIs
<1>2. Eval(polynomial, p) = SumOf(xs) /\ VkFactor(cv, p) = SumOf(ys)
  BY EvalIs, VkFactorIs
<1>3. \A i \in 1..Threshold : Same(xs[i], polynomial[i] * I[i]) /\ Same(ys[i], cv[i] * I[i])
  BY EvalIs, VkFactorIs
<1>4. I \in [1..Threshold -> 1..(Order - 1)]
  BY PowersAgree
<1>5. Eval(polynomial, p) \in Scalars
  BY EvalIs
<1> HIDE DEF xs, ys, I
<1>6. \A i \in 1..Threshold : i # k => Same(ys[i], xs[i])
  BY <1>3 DEF Same
<1>7. Same(ys[k], xs[k] + z)
  <2>1. polynomial[k] \in Int /\ cv[k] \in Int /\ z \in Int /\ xs[k] \in Int /\ 1 \in Int
    BY <1>1, <1>4, ScalarsAreRests
  <2>2. polynomial[k] + 1 \in Int /\ polynomial[k] * z \in Int
    BY <2>1
  <2>3. Same(cv[k], polynomial[k] + 1)
    BY <2>1, AddIs
  <2>4. Same(cv[k] * z, (polynomial[k] + 1) * z)
    <3>1. Same(z, z)
      BY DEF Same
    <3> QED
      BY <2>1, <2>2, <2>3, <3>1, SameProduct
  <2>5. (polynomial[k] + 1) * z = polynomial[k] * z + z
    BY <2>1
  <2>6. Same(xs[k] + z, polynomial[k] * z + z)
    <3>1. Same(xs[k], polynomial[k] * z) /\ Same(z, z)
      BY <1>3 DEF Same
    <3> QED
      BY <2>1, <2>2, <3>1, SameSum
  <2>7. Same(ys[k], cv[k] * z)
    BY <1>3
  <2> QED
    BY <2>4, <2>5, <2>6, <2>7 DEF Same
<1>8. z \in 1..(Order - 1) /\ z \in Int
  BY <1>4, OrderIs
<1> HIDE DEF z
<1>9. Same(SumOf(ys), SumOf(xs) + z)
  BY <1>1, <1>6, <1>7, <1>8, SumsDiffer
<1> QED
  BY <1>2, <1>5, <1>8, <1>9, ShiftedDiffers

(* What a recipient accepts.                                               *)
LEMMA ShareVerifies ==
    ASSUME NEW polynomial \in [1..Threshold -> Scalars], NEW p \in Positions
    PROVE  /\ VerifyShare(Eval(polynomial, p), polynomial, p)
           /\ ~VerifyShare(Add(Eval(polynomial, p), 1), polynomial, p)
<1> DEFINE e == Eval(polynomial, p)
<1>1. e \in Scalars /\ VkFactor(polynomial, p) = e
  BY EvalIs, CheckingValuesEvaluate
<1> HIDE DEF e
<1>2. VerifyShare(e, polynomial, p)
  BY <1>1, PowerOfGenerator DEF VerifyShare
<1>3. e \in Int /\ Add(e, 1) \in Scalars /\ Same(Add(e, 1), e + 1)
  BY <1>1, ScalarsAreRests, AddIs
<1>4. 1 \in 1..(Order - 1)
  BY OrderIs
<1>5. Add(e, 1) # e
  BY <1>1, <1>3, <1>4, ShiftedDiffers
<1>6. ~VerifyShare(Add(e, 1), polynomial, p)
  BY <1>1, <1>3, <1>5, PowerOfGenerator DEF VerifyShare
<1> QED
  BY <1>2, <1>6 DEF e

-------------------------------------------------------------------------------
(* A share encrypted to a trustee.                                         *)

(* A trustee decrypts what was encrypted with its key (decrypt_share).     *)
LEMMA ShareIsDecrypted ==
    ASSUME NEW s \in Scalars, NEW sk \in Scalars, NEW place \in Seq(Int)
    PROVE  DecryptShare(EncryptShare(s, Exp(generator, sk), place), sk) = {s}
<1> DEFINE r == RandomScalars(2, place)
           c == EncryptShare(s, Exp(generator, sk), place)
           m == EncodeScalar(s)
           d == EGDecrypt(sk, c)
<1>1. r \in [1..2 -> Scalars]
  BY RandomIs
<1>2. Exp(generator, sk) = sk
  BY PowerOfGenerator
<1>3. /\ m = <<m[1], m[2]>> /\ m[1] = 1 + (s \div 256) /\ m[2] = 1 + (s % 256)
      /\ DOMAIN m = 1..2
  BY DEF EncodeScalar
<1>4. s \in Nat /\ s <= Order - 1
  BY OrderIs DEF Scalars
<1>5. m[1] \in Scalars /\ m[2] \in Scalars
  BY <1>3, <1>4, OrderIs DEF Scalars
<1>6. DOMAIN c.v = 1..2 /\ \A i \in 1..2 : c.v[i] = Add(m[i], Times(sk, r[i]))
  <2>1. c.v = MulEach(m, ReplExp(sk, r))
    BY <1>2 DEF EncryptShare, EGEncrypt
  <2> HIDE DEF c, m, r
  <2>2. \A i \in 1..2 : ReplExp(sk, r)[i] = Times(sk, r[i])
    BY <1>1 DEF ReplExp, Exp
  <2> QED
    BY <1>3, <2>1, <2>2 DEF MulEach, Mul
<1>7. \A i \in 1..2 : c.u[i] = r[i]
  BY <1>1, PowerOfGenerator DEF EncryptShare, EGEncrypt, ReplExp
<1>8. DOMAIN c.u = 1..2
  BY <1>1 DEF EncryptShare, EGEncrypt, ReplExp
<1> HIDE DEF c, m, r
<1>9. DOMAIN d = 1..2 /\ \A i \in 1..2 : d[i] = Add(c.v[i], Times(c.u[i], Neg(sk)))
  BY <1>6, <1>8 DEF EGDecrypt, MulEach, DistExp, Mul, Exp
<1> HIDE DEF d
<1>10. ASSUME NEW i \in 1..2 PROVE d[i] = m[i]
  <2>16. m[i] \in Scalars
    <3>1. i = 1 \/ i = 2
      OBVIOUS
    <3> QED
      BY <1>5, <3>1
  <2>17. m[i] \in Int /\ r[i] \in Int /\ sk \in Int /\ -sk \in Int
    BY <1>1, <2>16, ScalarsAreRests
  <2>18. Neg(sk) \in Int /\ Same(Neg(sk), -sk)
    BY <2>17, NegIs, ScalarsAreRests
  <2>1. /\ m[i] \in Scalars /\ m[i] \in Int /\ r[i] \in Int /\ sk \in Int
        /\ Neg(sk) \in Int /\ -sk \in Int /\ Same(Neg(sk), -sk)
    BY <2>16, <2>17, <2>18
  <2> DEFINE a == Times(sk, r[i])
             b == Times(r[i], Neg(sk))
             w == Add(m[i], a)
  <2>2. d[i] = Add(w, b)
    BY <1>6, <1>7, <1>9
  <2>3. a \in Int /\ Same(a, sk * r[i])
    BY <2>1, TimesIs, ScalarsAreRests
  <2>4. b \in Int /\ Same(b, r[i] * Neg(sk))
    BY <2>1, TimesIs, ScalarsAreRests
  <2>5. Same(r[i] * Neg(sk), r[i] * (-sk))
    <3>1. Same(r[i], r[i])
      BY DEF Same
    <3> QED
      BY <2>1, <3>1, SameProduct
  <2>6. w \in Int /\ Same(w, m[i] + a)
    BY <2>1, <2>3, AddIs, ScalarsAreRests
  <2> HIDE DEF a, b, w
  <2>7. d[i] \in Scalars /\ Same(d[i], w + b)
    BY <2>2, <2>4, <2>6, AddIs
  <2> DEFINE x == sk * r[i]
             y == r[i] * (-sk)
  <2>8. x \in Int /\ y \in Int /\ x + y = 0
    BY <2>1
  <2>9. Same(a, x) /\ Same(b, y)
    BY <2>3, <2>4, <2>5 DEF Same
  <2> HIDE DEF x, y
  <2>10. Same(m[i], m[i])
    BY DEF Same
  <2>19. m[i] + a \in Int /\ m[i] + x \in Int
    BY <2>1, <2>3, <2>8
  <2>11. Same(m[i] + a, m[i] + x)
    BY <2>1, <2>3, <2>8, <2>9, <2>10, SameSum
  <2>12. Same(w, m[i] + x)
    BY <2>6, <2>11 DEF Same
  <2>13. Same(w + b, (m[i] + x) + y)
    BY <2>4, <2>6, <2>8, <2>9, <2>19, <2>12, SameSum
  <2>14. (m[i] + x) + y = m[i]
    BY <2>1, <2>8
  <2>15. Same(d[i], m[i])
    BY <2>7, <2>13, <2>14 DEF Same
  <2> QED
    BY <2>1, <2>7, <2>15, SameScalars
<1>11. d[1] = 1 + (s \div 256) /\ d[2] = 1 + (s % 256)
  BY <1>3, <1>10
<1>12. DecryptShare(c, sk) = DecodeScalar(d)
  BY DEF DecryptShare, d
<1>13. DecodeScalar(d) = {s}
  <2> DEFINE p == <<d[1] - 1, d[2] - 1>>
  <2>1. p[1] = s \div 256 /\ p[2] = s % 256
    BY <1>4, <1>11
  <2> HIDE DEF p
  <2>5. (s \div 256) >= 0 /\ (s % 256) \in 0..255 /\ (s \div 256) <= (Order - 1) \div 256
    BY <1>4, OrderIs
  <2>2. p[1] >= 0 /\ p[2] \in 0..255 /\ p[1] <= (Order - 1) \div 256
    BY <2>1, <2>5
  <2>3. 256 * p[1] + p[2] = s
    BY <1>4, <2>1
  <2>4. DecodeScalar(d) = {t \in {256 * q[1] + q[2] : q \in {q \in {p} :
                            q[1] >= 0 /\ q[2] \in 0..255 /\ q[1] <= (Order - 1) \div 256}} :
                            t \in Scalars}
    BY Zenon DEF DecodeScalar, p
  <2> QED
    BY <2>2, <2>3, <2>4
<1> QED
  BY <1>12, <1>13 DEF c

-------------------------------------------------------------------------------
(* The inductive invariant of key generation.                              *)

ShareFault(d, p) == [what |-> "Share", of |-> d, at |-> p]
ValueFault(d, i) == [what |-> "CheckingValue", of |-> d, at |-> i]

(* What dealer d sends to position p, and the checking values it posts, if *)
(* f is what was altered.                                                  *)
SentShare(d, p, f) ==
    IF f = ShareFault(d, p) THEN Add(Shares(DealtBy(d))[p], 1) ELSE Shares(DealtBy(d))[p]
SentValues(d, f) ==
    [i \in 1..Threshold |->
        IF f = ValueFault(d, i) THEN Mul(CheckingValues(DealtBy(d))[i], generator)
                                ELSE CheckingValues(DealtBy(d))[i]]
Dealing(d, f) ==
    [pairwise_shares |-> [p \in Positions |->
        EncryptShare(SentShare(d, p, f), Exp(generator, TrusteeSk(p)), <<run, 3, d, p>>)],
     check_values |-> SentValues(d, f)]

(* What trustee t makes of what it received.                               *)
Computed(t) ==
    IF \E d \in Positions : Received(t)[d] = {} THEN Refused
    ELSE FromShares(t, [d \in Positions |-> CHOOSE s \in Received(t)[d] : TRUE], CheckValues)

AllDealt == \A d \in Positions : dealings[d] # None

RunIsNumber == run \in Nat
DealingsAreRight ==
    /\ dealings = [d \in Positions |-> dealings[d]]
    /\ \A d \in Positions : dealings[d] # None => dealings[d] = Dealing(d, fault)
FaultIsDealt ==
    /\ fault.what = "Share" =>
          \E d, p \in Positions : fault = ShareFault(d, p) /\ dealings[d] # None
    /\ fault.what = "CheckingValue" =>
          \E d \in Positions, i \in 1..Threshold : fault = ValueFault(d, i) /\ dealings[d] # None
RecipientsAreRight ==
    /\ recipients = [t \in Positions |-> recipients[t]]
    /\ \A t \in Positions : recipients[t] # None => AllDealt /\ recipients[t] = Computed(t)

KeyInv ==
    /\ RunIsNumber
    /\ DealingsAreRight
    /\ FaultIsDealt
    /\ RecipientsAreRight

(* Initially nothing is dealt.                                             *)
LEMMA KeyInvInit == Init => KeyInv
<1> SUFFICES ASSUME Init PROVE KeyInv
  OBVIOUS
<1>1. RunIsNumber
  BY RunsAssumption DEF Init, RunIsNumber
<1>2. DealingsAreRight /\ RecipientsAreRight
  BY DEF Init, DealingsAreRight, RecipientsAreRight
<1>3. FaultIsDealt
  BY DEF Init, NoFault, FaultIsDealt
<1> QED
  BY <1>1, <1>2, <1>3 DEF KeyInv

OtherFaults == {"Ciphertext", "Randomizers", "CheckContext", "MixOutput", "MixCopy",
                "MixContext", "Factor", "FactorContext", "Source", "FactorMissing"}

(* What a step alters that alters neither shares nor checking values.      *)
LEMMA OtherFault ==
    ASSUME NEW faults, MayFail(faults), \A f \in faults : f.what \in OtherFaults
    PROVE  fault' = fault \/ (fault = NoFault /\ fault'.what \in OtherFaults)
  BY DEF MayFail

(* Such a step keeps the invariant.                                        *)
LEMMA KeyInvKept ==
    ASSUME KeyInv, UNCHANGED <<run, dealings, recipients>>,
           fault' = fault \/ (fault = NoFault /\ fault'.what \in OtherFaults)
    PROVE  KeyInv'
<1>7. \A t : Computed(t)' = Computed(t)
  BY DEF Computed, Received, CheckValues, TrusteeSk
<1>1. RunIsNumber' /\ RecipientsAreRight'
  BY <1>7 DEF KeyInv, RunIsNumber, RecipientsAreRight, AllDealt
<1>2. \A d, p : (fault' = ShareFault(d, p)) <=> (fault = ShareFault(d, p))
  BY DEF ShareFault, OtherFaults, NoFault
<1>3. \A d, i : (fault' = ValueFault(d, i)) <=> (fault = ValueFault(d, i))
  BY DEF ValueFault, OtherFaults, NoFault
<1>4. \A d : Dealing(d, fault)' = Dealing(d, fault)
  <2>1. \A d, p : SentShare(d, p, fault)' = SentShare(d, p, fault)
    BY <1>2 DEF SentShare, Shares, DealtBy
  <2>2. \A d : SentValues(d, fault)' = SentValues(d, fault)
    BY <1>3 DEF SentValues, DealtBy
  <2> QED
    BY <2>1, <2>2 DEF Dealing, TrusteeSk
<1>5. DealingsAreRight'
  BY <1>4 DEF KeyInv, DealingsAreRight
<1>6. FaultIsDealt'
  BY <1>2, <1>3 DEF KeyInv, FaultIsDealt, OtherFaults, NoFault
<1> QED
  BY <1>1, <1>5, <1>6 DEF KeyInv

(* A dealer deals what its polynomial gives, or alters it.                 *)
LEMMA KeyInvComputeShares ==
    ASSUME KeyInv, NEW d \in Positions, ComputeShares(d)
    PROVE  KeyInv'
<1> DEFINE faults == [what : {"Share"}, of : {d}, at : Positions]
                     \cup [what : {"CheckingValue"}, of : {d}, at : 1..Threshold]
<1>1. /\ dealings[d] = None /\ MayFail(faults)
      /\ UNCHANGED <<run, recipients>>
  BY DEF ComputeShares
<1>2. fault' = fault \/ (fault = NoFault /\ fault' \in faults)
  BY <1>1 DEF MayFail
<1>3. \A f \in faults : \/ \E p \in Positions : f = ShareFault(d, p)
                        \/ \E i \in 1..Threshold : f = ValueFault(d, i)
  BY DEF ShareFault, ValueFault
<1> HIDE DEF faults
(* What was altered before is not of d, ...                                *)
<1>4. /\ \A p \in Positions : fault # ShareFault(d, p)
      /\ \A i \in 1..Threshold : fault # ValueFault(d, i)
  <2>1. ASSUME NEW p \in Positions, fault = ShareFault(d, p) PROVE FALSE
    <3>1. fault.what = "Share" /\ fault.of = d
      BY <2>1 DEF ShareFault
    <3>2. PICK e \in Positions, q \in Positions : fault = ShareFault(e, q) /\ dealings[e] # None
      BY <3>1 DEF KeyInv, FaultIsDealt
    <3>3. fault.of = e
      BY <3>2 DEF ShareFault
    <3> QED
      BY <1>1, <3>1, <3>2, <3>3
  <2>2. ASSUME NEW i \in 1..Threshold, fault = ValueFault(d, i) PROVE FALSE
    <3>1. fault.what = "CheckingValue" /\ fault.of = d
      BY <2>2 DEF ValueFault
    <3>2. PICK e \in Positions, j \in 1..Threshold :
              fault = ValueFault(e, j) /\ dealings[e] # None
      BY <3>1 DEF KeyInv, FaultIsDealt
    <3>3. fault.of = e
      BY <3>2 DEF ValueFault
    <3> QED
      BY <1>1, <3>1, <3>2, <3>3
  <2> QED
    BY <2>1, <2>2
<1>5. dealings' = [dealings EXCEPT ![d] = Dealing(d, fault')]
  <2>1. \A p \in Positions : Now([what |-> "Share", of |-> d, at |-> p])
                                <=> fault' = ShareFault(d, p)
    BY <1>4 DEF Now, ShareFault
  <2>2. \A i \in 1..Threshold : Now([what |-> "CheckingValue", of |-> d, at |-> i])
                                <=> fault' = ValueFault(d, i)
    BY <1>4 DEF Now, ValueFault
  <2> DEFINE shares == [p \in Positions |->
                 EncryptShare(IF Now([what |-> "Share", of |-> d, at |-> p])
                              THEN Add(Shares(DealtBy(d))[p], 1) ELSE Shares(DealtBy(d))[p],
                              Exp(generator, TrusteeSk(p)), <<run, 3, d, p>>)]
             values == [i \in 1..Threshold |->
                 IF Now([what |-> "CheckingValue", of |-> d, at |-> i])
                 THEN Mul(CheckingValues(DealtBy(d))[i], generator)
                 ELSE CheckingValues(DealtBy(d))[i]]
  <2>3. dealings' = [dealings EXCEPT ![d] = [pairwise_shares |-> shares, check_values |-> values]]
    BY DEF ComputeShares
  <2>4. values = SentValues(d, fault')
    BY <2>2 DEF SentValues
  <2>5. shares = [p \in Positions |-> EncryptShare(SentShare(d, p, fault'),
                             Exp(generator, TrusteeSk(p)), <<run, 3, d, p>>)]
    BY <2>1 DEF SentShare
  <2> QED
    BY <2>3, <2>4, <2>5 DEF Dealing
<1>6. \A e \in Positions : e # d =>
          /\ \A p : (fault' = ShareFault(e, p)) <=> (fault = ShareFault(e, p))
          /\ \A i : (fault' = ValueFault(e, i)) <=> (fault = ValueFault(e, i))
  <2>1. \A e, p : ShareFault(e, p).of = e /\ ValueFault(e, p).of = e
    BY DEF ShareFault, ValueFault
  <2>2. \A e, p : NoFault # ShareFault(e, p) /\ NoFault # ValueFault(e, p)
    BY DEF ShareFault, ValueFault, NoFault
  <2> QED
    BY <1>2, <1>3, <2>1, <2>2
<1>7. \A e \in Positions : Dealing(e, fault)' = Dealing(e, fault')
  BY <1>1 DEF Dealing, SentShare, SentValues, DealtBy, TrusteeSk
<1>8. \A e \in Positions : e # d => Dealing(e, fault') = Dealing(e, fault)
  BY <1>6 DEF Dealing, SentShare, SentValues
<1>9. \A e, f : Dealing(e, f) # None
  <2>1. \A e, f : DOMAIN Dealing(e, f) = {"pairwise_shares", "check_values"}
    BY DEF Dealing
  <2>2. DOMAIN None = {}
    BY DEF None
  <2> QED
    BY <2>1, <2>2
<1>10. dealings = [e \in Positions |-> dealings[e]]
  BY DEF KeyInv, DealingsAreRight
<1>11. /\ dealings' = [e \in Positions |-> dealings'[e]]
       /\ dealings'[d] = Dealing(d, fault')
       /\ \A e \in Positions : e # d => dealings'[e] = dealings[e]
  BY <1>5, <1>10
<1>12. DealingsAreRight'
  <2>1. ASSUME NEW e \in Positions, dealings'[e] # None
        PROVE  dealings'[e] = Dealing(e, fault')
    <3>1. CASE e = d
      BY <1>11, <3>1
    <3>2. CASE e # d
      BY <1>8, <1>11, <2>1, <3>2 DEF KeyInv, DealingsAreRight
    <3> QED
      BY <3>1, <3>2
  <2>2. \A e \in Positions : dealings'[e] # None => dealings'[e] = Dealing(e, fault)'
    BY <1>7, <2>1
  <2> QED
    BY <1>11, <2>2 DEF DealingsAreRight
<1>13. FaultIsDealt'
  <2>1. \A e \in Positions : dealings[e] # None => dealings'[e] # None
    BY <1>1, <1>11
  <2>2. dealings'[d] # None
    BY <1>9, <1>11
  <2>3. CASE fault' = fault
    BY <2>1, <2>3 DEF KeyInv, FaultIsDealt
  <2>4. ASSUME NEW p \in Positions, fault' = ShareFault(d, p) PROVE FaultIsDealt'
    <3>1. fault'.what # "CheckingValue"
      BY <2>4 DEF ShareFault
    <3> QED
      BY <2>2, <2>4, <3>1 DEF FaultIsDealt
  <2>5. ASSUME NEW i \in 1..Threshold, fault' = ValueFault(d, i) PROVE FaultIsDealt'
    <3>1. fault'.what # "Share"
      BY <2>5 DEF ValueFault
    <3> QED
      BY <2>2, <2>5, <3>1 DEF FaultIsDealt
  <2> QED
    BY <1>2, <1>3, <2>3, <2>4, <2>5
<1>14. RecipientsAreRight'
  <2>1. \A t \in Positions : recipients[t] = None
    BY <1>1 DEF KeyInv, RecipientsAreRight, AllDealt
  <2> QED
    BY <1>1, <2>1 DEF KeyInv, RecipientsAreRight
<1>15. RunIsNumber'
  BY <1>1 DEF KeyInv, RunIsNumber
<1> QED
  BY <1>12, <1>13, <1>14, <1>15 DEF KeyInv

(* A trustee computes its key.                                             *)
LEMMA KeyInvComputePublicKey ==
    ASSUME KeyInv, NEW t \in Positions, ComputePublicKey(t)
    PROVE  KeyInv'
<1>1. /\ AllDealt
      /\ recipients' = [recipients EXCEPT ![t] = Computed(t)]
      /\ UNCHANGED <<run, fault, dealings>>
  BY DEF ComputePublicKey, AllDealt, Computed
<1>2. \A s : Computed(s)' = Computed(s)
  BY <1>1 DEF Computed, Received, CheckValues, TrusteeSk
<1>3. AllDealt'
  BY <1>1 DEF AllDealt
<1>4. RecipientsAreRight'
  BY <1>1, <1>2, <1>3 DEF KeyInv, RecipientsAreRight
<1>5. \A d \in Positions : Dealing(d, fault)' = Dealing(d, fault)
  BY <1>1 DEF Dealing, SentShare, SentValues, DealtBy, TrusteeSk
<1>6. RunIsNumber' /\ DealingsAreRight' /\ FaultIsDealt'
  BY <1>1, <1>5 DEF KeyInv, RunIsNumber, DealingsAreRight, FaultIsDealt
<1> QED
  BY <1>4, <1>6 DEF KeyInv

(* The invariant: what a dealer posts is what its polynomial gives, but    *)
(* for what was altered, and what a trustee holds is what it computes from *)
(* the dealings of all.                                                    *)
THEOREM KeyInvHolds == Spec => []KeyInv
<1>1. ASSUME KeyInv, Next PROVE KeyInv'
  <2>1. ASSUME NEW d \in Positions, ComputeShares(d) PROVE KeyInv'
    BY <1>1, <2>1, KeyInvComputeShares
  <2>2. ASSUME NEW t \in Positions, ComputePublicKey(t) PROVE KeyInv'
    BY <1>1, <2>2, KeyInvComputePublicKey
  <2>3. ASSUME NEW v \in Voters, NEW ballot \in Ballots, CastBallot(v, ballot) PROVE KeyInv'
    <3> DEFINE faults == [what : {"Ciphertext"}, of : {v}]
    <3>1. UNCHANGED <<run, dealings, recipients>> /\ MayFail(faults)
      BY <2>3 DEF CastBallot
    <3>2. \A f \in faults : f.what \in OtherFaults
      BY DEF OtherFaults
    <3> HIDE DEF faults
    <3> QED
      BY <1>1, <3>1, <3>2, OtherFault, KeyInvKept
  <2>4. ASSUME NEW v \in Voters, CheckBallot(v) PROVE KeyInv'
    <3> DEFINE faults == [what : {"Randomizers", "CheckContext"}, of : {v}]
    <3>1. UNCHANGED <<run, dealings, recipients>> /\ MayFail(faults)
      BY <2>4 DEF CheckBallot
    <3>2. \A f \in faults : f.what \in OtherFaults
      BY DEF OtherFaults
    <3> HIDE DEF faults
    <3> QED
      BY <1>1, <3>1, <3>2, OtherFault, KeyInvKept
  <2>5. ASSUME NEW k \in 1..Threshold, NEW permutation \in Mixings, ComputeMix(k, permutation)
        PROVE  KeyInv'
    <3> DEFINE faults == [what : {"MixOutput", "MixCopy", "MixContext"}, of : {k}]
    <3>1. UNCHANGED <<run, dealings, recipients>> /\ MayFail(faults)
      BY <2>5 DEF ComputeMix
    <3>2. \A f \in faults : f.what \in OtherFaults
      BY DEF OtherFaults
    <3> HIDE DEF faults
    <3> QED
      BY <1>1, <3>1, <3>2, OtherFault, KeyInvKept
  <2>6. CASE SignMix
    BY <1>1, <2>6, KeyInvKept DEF SignMix
  <2>7. ASSUME NEW t \in Positions, ComputePartialDecryptions(t) PROVE KeyInv'
    <3> DEFINE faults == [what : {"Factor", "FactorContext", "Source", "FactorMissing"}, of : {t}]
    <3>1. UNCHANGED <<run, dealings, recipients>> /\ MayFail(faults)
      BY <2>7 DEF ComputePartialDecryptions
    <3>2. \A f \in faults : f.what \in OtherFaults
      BY DEF OtherFaults
    <3> HIDE DEF faults
    <3> QED
      BY <1>1, <3>1, <3>2, OtherFault, KeyInvKept
  <2>8. ASSUME NEW present \in Quorums, ComputePlaintexts(present) PROVE KeyInv'
    <3>1. UNCHANGED <<run, dealings, recipients, fault>>
      BY <2>8 DEF ComputePlaintexts
    <3> QED
      BY <1>1, <3>1, KeyInvKept
  <2> QED
    BY <1>1, <2>1, <2>2, <2>3, <2>4, <2>5, <2>6, <2>7, <2>8 DEF Next
<1>2. ASSUME KeyInv, UNCHANGED vars PROVE KeyInv'
  BY <1>2, KeyInvKept DEF vars
<1> QED
  BY <1>1, <1>2, KeyInvInit, PTL DEF Spec

-------------------------------------------------------------------------------
(* What the trustees receive and compute.                                  *)

(* Coefficients and secret keys are scalars.                               *)
LEMMA PolynomialIs ==
    ASSUME RunIsNumber, NEW d \in Positions
    PROVE  DealtBy(d) \in [1..Threshold -> Scalars] /\ TrusteeSk(d) \in Scalars
<1>1. d \in Int /\ run \in Int /\ Threshold \in Nat
  BY DealerIs DEF RunIsNumber
<1>2. <<run, 2, d>> \in Seq(Int) /\ <<run, 1, d>> \in Seq(Int)
  BY <1>1
<1> QED
  BY <1>1, <1>2, RandomIs DEF DealtBy, Polynomial, TrusteeSk

(* Powers of the generator are the coefficients, as logarithms.            *)
LEMMA CheckingValuesAre ==
    ASSUME NEW polynomial \in [1..Threshold -> Scalars]
    PROVE  CheckingValues(polynomial) = polynomial
<1>1. \A i \in 1..Threshold : Exp(generator, polynomial[i]) = polynomial[i]
  BY PowerOfGenerator
<1> QED
  BY <1>1 DEF CheckingValues, ReplExp

(* Trustee t gets the share that was sent, and accepts it unless the share *)
(* or a checking value of its dealer was altered.                          *)
LEMMA ReceivedAndVerified ==
    ASSUME KeyInv, AllDealt, NEW t \in Positions, NEW d \in Positions
    PROVE  /\ SentShare(d, t, fault) \in Scalars
           /\ Received(t)[d] = {SentShare(d, t, fault)}
           /\ VerifyShare(SentShare(d, t, fault), CheckValues[d], t)
                <=> /\ fault # ShareFault(d, t)
                    /\ \A i \in 1..Threshold : fault # ValueFault(d, i)
           /\ (\A i \in 1..Threshold : fault # ValueFault(d, i)) => CheckValues[d] = DealtBy(d)
           /\ fault # ShareFault(d, t) => SentShare(d, t, fault) = Eval(DealtBy(d), t)
<1> DEFINE poly == DealtBy(d)
           sent == SentShare(d, t, fault)
           cv == SentValues(d, fault)
<1>1. RunIsNumber /\ dealings[d] = Dealing(d, fault)
  BY DEF KeyInv, DealingsAreRight, AllDealt
<1>2. poly \in [1..Threshold -> Scalars] /\ TrusteeSk(t) \in Scalars
  BY <1>1, PolynomialIs
<1>3. Shares(poly)[t] = Eval(poly, t)
  BY DEF Shares
<1>4. Eval(poly, t) \in Scalars /\ Eval(poly, t) \in Int
  BY <1>2, EvalIs, ScalarsAreRests
<1>5. Add(Eval(poly, t), 1) \in Scalars
  BY <1>4, AddIs
<1>6. /\ fault = ShareFault(d, t) => sent = Add(Eval(poly, t), 1)
      /\ fault # ShareFault(d, t) => sent = Eval(poly, t)
  BY <1>3 DEF SentShare
<1>7. sent \in Scalars
  BY <1>4, <1>5, <1>6
<1>8. Received(t)[d] = {sent}
  <2>1. Received(t)[d] = DecryptShare(Dealing(d, fault).pairwise_shares[t], TrusteeSk(t))
    BY <1>1 DEF Received
  <2>2. Dealing(d, fault).pairwise_shares[t] =
            EncryptShare(sent, Exp(generator, TrusteeSk(t)), <<run, 3, d, t>>)
    BY DEF Dealing
  <2>3. <<run, 3, d, t>> \in Seq(Int)
    <3>1. run \in Int /\ d \in Int /\ t \in Int
      BY <1>1, DealerIs DEF RunIsNumber
    <3> QED
      BY <3>1
  <2> HIDE DEF sent
  <2> QED
    BY <1>2, <1>7, <2>1, <2>2, <2>3, ShareIsDecrypted
<1>9. CheckValues[d] = cv
  BY <1>1 DEF CheckValues, Dealing
<1>10. cv = [i \in 1..Threshold |-> IF fault = ValueFault(d, i) THEN Add(poly[i], 1) ELSE poly[i]]
  BY <1>2, CheckingValuesAre DEF SentValues, Mul, generator
<1>11. cv \in [1..Threshold -> Scalars]
  <2>1. ASSUME NEW i \in 1..Threshold
        PROVE  poly[i] \in Scalars /\ Add(poly[i], 1) \in Scalars
    <3> HIDE DEF poly
    <3>1. poly[i] \in Scalars
      BY <1>2
    <3>2. poly[i] \in Int /\ 1 \in Int
      BY <3>1, ScalarsAreRests
    <3> QED
      BY <3>1, <3>2, AddIs
  <2> HIDE DEF cv, poly
  <2> QED
    BY <1>10, <2>1
<1>12. (\A i \in 1..Threshold : fault # ValueFault(d, i)) => cv = poly
  <2> SUFFICES ASSUME \A i \in 1..Threshold : fault # ValueFault(d, i) PROVE cv = poly
    OBVIOUS
  <2> HIDE DEF cv, poly
  <2>1. cv = [i \in 1..Threshold |-> poly[i]]
    BY <1>10
  <2> QED
    BY <1>2, <2>1
<1> HIDE DEF poly, sent, cv
<1>13. ASSUME fault # ShareFault(d, t), \A i \in 1..Threshold : fault # ValueFault(d, i)
       PROVE  VerifyShare(sent, cv, t)
  BY <1>2, <1>6, <1>12, <1>13, ShareVerifies
<1>14. ASSUME NEW k \in 1..Threshold, fault = ValueFault(d, k)
       PROVE  ~VerifyShare(sent, cv, t)
  <2>1. fault # ShareFault(d, t)
    BY <1>14 DEF ShareFault, ValueFault
  <2>2. \A i \in 1..Threshold : i # k => fault # ValueFault(d, i)
    BY <1>14 DEF ValueFault
  <2>3. cv[k] = Add(poly[k], 1) /\ \A i \in 1..Threshold : i # k => cv[i] = poly[i]
    BY <1>10, <1>14, <2>2
  <2>4. VkFactor(cv, t) # Eval(poly, t)
    BY <1>2, <1>11, <2>3, AlteredCheckingValueShows
  <2>5. sent = Eval(poly, t) /\ Exp(generator, sent) = sent
    BY <1>6, <1>7, <2>1, PowerOfGenerator
  <2> QED
    BY <2>4, <2>5 DEF VerifyShare
<1>15. ASSUME fault = ShareFault(d, t) PROVE ~VerifyShare(sent, cv, t)
  <2>1. \A i \in 1..Threshold : fault # ValueFault(d, i)
    BY <1>15 DEF ShareFault, ValueFault
  <2> QED
    BY <1>2, <1>6, <1>12, <1>15, <2>1, ShareVerifies
<1>16. VerifyShare(sent, cv, t) <=> /\ fault # ShareFault(d, t)
                                    /\ \A i \in 1..Threshold : fault # ValueFault(d, i)
  BY <1>13, <1>14, <1>15
<1> QED
  BY <1>6, <1>7, <1>8, <1>9, <1>12, <1>16 DEF poly, sent

(* When a trustee accepts, and the keys it then holds.                     *)
LEMMA ComputedIs ==
    ASSUME KeyInv, AllDealt, NEW t \in Positions
    PROVE  /\ Computed(t).ok <=> \A d \in Positions :
                  /\ fault # ShareFault(d, t)
                  /\ \A i \in 1..Threshold : fault # ValueFault(d, i)
           /\ Computed(t).ok =>
                  /\ Computed(t).joint_pk = JointPublicKey(CheckValues)
                  /\ Computed(t).sk = SumOf([d \in Positions |-> SentShare(d, t, fault)])
<1> DEFINE received == [d \in Positions |-> CHOOSE s \in Received(t)[d] : TRUE]
           sent == [d \in Positions |-> SentShare(d, t, fault)]
<1>1. \A d \in Positions : Received(t)[d] = {SentShare(d, t, fault)}
  BY ReceivedAndVerified
<1>2. received = sent
  BY <1>1
<1>3. Computed(t) = FromShares(t, received, CheckValues)
  BY <1>1 DEF Computed
<1> HIDE DEF received
<1>4. \A d \in Positions : sent[d] = SentShare(d, t, fault)
  OBVIOUS
<1> HIDE DEF sent
<1>5. Computed(t) = FromShares(t, sent, CheckValues)
  BY <1>2, <1>3
<1>6. Computed(t).ok <=> \A d \in Positions : VerifyShare(sent[d], CheckValues[d], t)
  BY <1>5 DEF FromShares, Refused
<1>7. Computed(t).ok => /\ Computed(t).joint_pk = JointPublicKey(CheckValues)
                        /\ Computed(t).sk = SumOf(sent)
  <2> SUFFICES ASSUME \A d \in Positions : VerifyShare(sent[d], CheckValues[d], t)
               PROVE  /\ Computed(t).joint_pk = JointPublicKey(CheckValues)
                      /\ Computed(t).sk = SumOf(sent)
    BY <1>6
  <2>1. Computed(t) = [ok |-> TRUE,
                       joint_pk |-> JointPublicKey(CheckValues),
                       verification_key |-> VerificationKey(t, CheckValues),
                       sk |-> SumOf(sent)]
    BY <1>5 DEF FromShares
  <2> QED
    BY <2>1
<1>8. Computed(t).ok <=> \A d \in Positions :
                  /\ fault # ShareFault(d, t)
                  /\ \A i \in 1..Threshold : fault # ValueFault(d, i)
  BY <1>4, <1>6, ReceivedAndVerified
<1> QED
  BY <1>7, <1>8 DEF sent

(* A trustee refuses what was altered for it, and nothing else.            *)
LEMMA KeyInvRefuses == KeyInv => AlteredSharesAreRefused
<1> SUFFICES ASSUME KeyInv, NEW t \in Positions, recipients[t] # None
             PROVE  recipients[t].ok <=> /\ fault.what # "CheckingValue"
                                         /\ fault.what = "Share" => fault.at # t
  BY DEF AlteredSharesAreRefused
<1>1. AllDealt /\ recipients[t] = Computed(t)
  BY DEF KeyInv, RecipientsAreRight
<1>2. recipients[t].ok <=> \A d \in Positions :
                  /\ fault # ShareFault(d, t)
                  /\ \A i \in 1..Threshold : fault # ValueFault(d, i)
  BY <1>1, ComputedIs
<1>3. ASSUME recipients[t].ok
      PROVE  /\ fault.what # "CheckingValue"
             /\ fault.what = "Share" => fault.at # t
  <2>1. fault.what # "CheckingValue"
    BY <1>2, <1>3 DEF KeyInv, FaultIsDealt
  <2>2. ASSUME fault.what = "Share", fault.at = t PROVE FALSE
    <3>1. PICK d \in Positions, p \in Positions : fault = ShareFault(d, p)
      BY <2>2 DEF KeyInv, FaultIsDealt
    <3>2. p = t
      BY <2>2, <3>1 DEF ShareFault
    <3> QED
      BY <1>2, <1>3, <3>1, <3>2
  <2> QED
    BY <2>1, <2>2
<1>4. ASSUME fault.what # "CheckingValue", fault.what = "Share" => fault.at # t
      PROVE  recipients[t].ok
  <2>1. \A d \in Positions : fault # ShareFault(d, t)
    BY <1>4 DEF ShareFault
  <2>2. \A d \in Positions : \A i \in 1..Threshold : fault # ValueFault(d, i)
    BY <1>4 DEF ValueFault
  <2> QED
    BY <1>2, <2>1, <2>2
<1> QED
  BY <1>3, <1>4

(* The keys of trustees that have accepted agree.                          *)
LEMMA KeyInvAgrees == KeyInv => KeysAgree
<1> SUFFICES ASSUME KeyInv, KeyGenerated, NEW t \in Positions
             PROVE  /\ recipients[t].joint_pk = Exp(generator, JointSecret)
                    /\ VerificationKey(t, CheckValues) = Exp(generator, recipients[t].sk)
  BY DEF KeysAgree
<1>1. /\ AllDealt /\ recipients[t] = Computed(t) /\ Computed(t).ok
  BY DEF KeyInv, RecipientsAreRight, KeyGenerated, Holds
<1>2. \A d \in Positions : /\ fault # ShareFault(d, t)
                           /\ \A i \in 1..Threshold : fault # ValueFault(d, i)
  BY <1>1, ComputedIs
<1>3. \A d \in Positions : /\ CheckValues[d] = DealtBy(d)
                           /\ SentShare(d, t, fault) = Eval(DealtBy(d), t)
  BY <1>1, <1>2, ReceivedAndVerified
<1>4. \A d \in Positions : DealtBy(d) \in [1..Threshold -> Scalars]
  BY PolynomialIs DEF KeyInv
<1>5. NumTrustees \in Nat /\ Positions = 1..NumTrustees /\ 1 \in 1..Threshold
  BY DealerIs
<1>6. recipients[t].joint_pk = Exp(generator, JointSecret)
  <2> DEFINE firsts == [d \in Positions |-> DealtBy(d)[1]]
  <2>1. firsts \in [1..NumTrustees -> Int]
    BY <1>4, <1>5, ScalarsAreRests
  <2>2. [d \in Positions |-> CheckValues[d][1]] = firsts
    BY <1>3
  <2>3. JointPublicKey(CheckValues) = Product(firsts)
    BY <2>2 DEF JointPublicKey
  <2>4. JointSecret = SumOf(firsts)
    BY DEF JointSecret
  <2> HIDE DEF firsts
  <2>5. JointSecret \in Scalars
    BY <1>5, <2>1, <2>4, SumIs
  <2> QED
    BY <1>1, <2>3, <2>4, <2>5, ComputedIs, ProductIsSum, PowerOfGenerator
<1>7. VerificationKey(t, CheckValues) = Exp(generator, recipients[t].sk)
  <2> DEFINE shares == [d \in Positions |-> Eval(DealtBy(d), t)]
  <2>1. \A d \in Positions : /\ VkFactor(DealtBy(d), t) = Eval(DealtBy(d), t)
                             /\ Eval(DealtBy(d), t) \in Scalars
    BY <1>4, CheckingValuesEvaluate, EvalIs
  <2>2. shares \in [1..NumTrustees -> Int]
    BY <1>5, <2>1, ScalarsAreRests
  <2>3. [d \in Positions |-> VkFactor(CheckValues[d], t)] = shares
    BY <1>3, <2>1
  <2>4. VerificationKey(t, CheckValues) = Product(shares)
    BY <2>3 DEF VerificationKey
  <2>5. [d \in Positions |-> SentShare(d, t, fault)] = shares
    BY <1>3
  <2>6. recipients[t].sk = SumOf(shares)
    BY <1>1, <2>5, ComputedIs
  <2> HIDE DEF shares
  <2>7. SumOf(shares) \in Scalars
    BY <1>5, <2>2, SumIs
  <2> QED
    BY <2>4, <2>6, <2>7, ProductIsSum, PowerOfGenerator
<1> QED
  BY <1>6, <1>7

-------------------------------------------------------------------------------

(* A trustee computes its key from shares exactly if each is the dealer's  *)
(* polynomial at its position and the checking values are those of the     *)
(* polynomial; what is altered for one trustee is refused by that one      *)
(* (get_verifiable_shares, verify_share).                                  *)
THEOREM SharesVerified == Spec => []AlteredSharesAreRefused
  BY KeyInvHolds, KeyInvRefuses, PTL

(* Once all have accepted, all hold the same joint key, the one of the sum *)
(* of the dealers' secrets, and the key with which the others verify the   *)
(* work of a trustee is that of its secret key (from_shares,               *)
(* verification_key).                                                      *)
THEOREM JointKeyAgreed == Spec => []KeysAgree
  BY KeyInvHolds, KeyInvAgrees, PTL
-------------------------------------------------------------------------------
(* Scalars are a ring.                                                     *)

(* Sums and products of scalars are scalars, and so are 0 and 1.           *)
LEMMA Closed ==
    ASSUME NEW s \in Scalars, NEW t \in Scalars
    PROVE  /\ s \in Int
           /\ Add(s, t) \in Scalars /\ Times(s, t) \in Scalars /\ Neg(s) \in Scalars
           /\ 0 \in Scalars /\ 1 \in Scalars
  BY ScalarsAreRests, AddIs, TimesIs, NegIs, OrderIs DEF Scalars

(* The order of the terms, and of the factors, does not matter.            *)
LEMMA Commutes ==
    ASSUME NEW s \in Scalars, NEW t \in Scalars
    PROVE  Add(s, t) = Add(t, s) /\ Times(s, t) = Times(t, s)
<1>1. s \in Int /\ t \in Int
  BY ScalarsAreRests
<1>2. s + t = t + s /\ s * t = t * s
  BY <1>1
<1> QED
  BY <1>2 DEF Add, Times

(* Sums may be bracketed either way.                                       *)
LEMMA AddAssociates ==
    ASSUME NEW r \in Scalars, NEW s \in Scalars, NEW t \in Scalars
    PROVE  Add(Add(r, s), t) = Add(r, Add(s, t))
<1>1. r \in Int /\ s \in Int /\ t \in Int /\ Same(r, r) /\ Same(t, t)
  BY ScalarsAreRests DEF Same
<1>2. /\ Add(r, s) \in Scalars /\ Same(Add(r, s), r + s) /\ r + s \in Int
      /\ Add(s, t) \in Scalars /\ Same(Add(s, t), s + t) /\ s + t \in Int
  BY <1>1, AddIs
<1>3. Add(r, s) \in Int /\ Add(s, t) \in Int
  BY <1>2, ScalarsAreRests
<1>4. Same(Add(r, s) + t, (r + s) + t) /\ Same(r + Add(s, t), r + (s + t))
  BY <1>1, <1>2, <1>3, SameSum
<1>5. (r + s) + t = r + (s + t)
  BY <1>1
<1> QED
  BY <1>4, <1>5 DEF Add, Same

(* Products may be bracketed either way.                                   *)
LEMMA TimesAssociates ==
    ASSUME NEW r \in Scalars, NEW s \in Scalars, NEW t \in Scalars
    PROVE  Times(Times(r, s), t) = Times(r, Times(s, t))
<1>1. r \in Int /\ s \in Int /\ t \in Int /\ Same(r, r) /\ Same(t, t)
  BY ScalarsAreRests DEF Same
<1>2. /\ Times(r, s) \in Scalars /\ Same(Times(r, s), r * s) /\ r * s \in Int
      /\ Times(s, t) \in Scalars /\ Same(Times(s, t), s * t) /\ s * t \in Int
  BY <1>1, TimesIs
<1>3. Times(r, s) \in Int /\ Times(s, t) \in Int
  BY <1>2, ScalarsAreRests
<1>4. Same(Times(r, s) * t, (r * s) * t) /\ Same(r * Times(s, t), r * (s * t))
  BY <1>1, <1>2, <1>3, SameProduct
<1>5. (r * s) * t = r * (s * t)
  BY <1>1
<1> QED
  BY <1>4, <1>5 DEF Times, Same

(* A factor goes to every term of a sum.                                   *)
LEMMA Distributes ==
    ASSUME NEW r \in Scalars, NEW s \in Scalars, NEW t \in Scalars
    PROVE  /\ Times(r, Add(s, t)) = Add(Times(r, s), Times(r, t))
           /\ Times(Add(s, t), r) = Add(Times(s, r), Times(t, r))
<1>1. r \in Int /\ s \in Int /\ t \in Int /\ Same(r, r) /\ Same(t, t)
  BY ScalarsAreRests DEF Same
<1>2. /\ Add(s, t) \in Scalars /\ Same(Add(s, t), s + t) /\ s + t \in Int
      /\ Times(r, s) \in Scalars /\ Same(Times(r, s), r * s) /\ r * s \in Int
      /\ Times(r, t) \in Scalars /\ Same(Times(r, t), r * t) /\ r * t \in Int
  BY <1>1, AddIs, TimesIs
<1>3. Add(s, t) \in Int /\ Times(r, s) \in Int /\ Times(r, t) \in Int
  BY <1>2, ScalarsAreRests
<1>4. Same(r * Add(s, t), r * (s + t))
  BY <1>1, <1>2, <1>3, SameProduct
<1>5. Same(Times(r, s) + Times(r, t), r * s + r * t)
  BY <1>1, <1>2, <1>3, SameSum
<1>6. r * (s + t) = r * s + r * t
  BY <1>1
<1>7. Times(r, Add(s, t)) = Add(Times(r, s), Times(r, t))
  BY <1>4, <1>5, <1>6 DEF Times, Add, Same
<1> QED
  BY <1>2, <1>7, Commutes

(* Neg is the inverse of Add, 0 and 1 are neutral.                         *)
LEMMA Neutral ==
    ASSUME NEW s \in Scalars
    PROVE  /\ Add(s, 0) = s /\ Add(0, s) = s
           /\ Add(s, Neg(s)) = 0 /\ Add(Neg(s), s) = 0
           /\ Times(s, 1) = s /\ Times(1, s) = s
           /\ Times(s, 0) = 0 /\ Times(0, s) = 0
<1>1. s \in Int /\ s % Order = s
  BY ScalarsAreRests
<1>2. 0 \in Scalars /\ 1 \in Scalars /\ Neg(s) \in Scalars
  BY Closed
<1>3. s + 0 = s /\ s * 1 = s /\ s * 0 = 0 /\ 0 % Order = 0
  BY <1>1, <1>2, ScalarsAreRests
<1>4. Add(s, 0) = s /\ Times(s, 1) = s /\ Times(s, 0) = 0
  BY <1>1, <1>3 DEF Add, Times
<1>5. Add(s, Neg(s)) = 0
  <2>4. Same(Neg(s), -s)
    BY <1>1, NegIs
  <2>5. Neg(s) \in Int
    BY <1>2, ScalarsAreRests
  <2>6. -s \in Int /\ s + (-s) = 0
    BY <1>1
  <2>3. Neg(s) \in Int /\ Same(Neg(s), -s) /\ -s \in Int /\ s + (-s) = 0
    BY <2>4, <2>5, <2>6
  <2>1. /\ Neg(s) \in Int /\ Same(Neg(s), -s) /\ -s \in Int /\ s + (-s) = 0
        /\ Same(s, s)
    BY <2>3 DEF Same
  <2>2. Same(s + Neg(s), s + (-s))
    BY <1>1, <2>1, SameSum
  <2> QED
    BY <1>3, <2>1, <2>2 DEF Add, Same
<1> QED
  BY <1>2, <1>4, <1>5, Commutes

(* What is added can be taken away.                                        *)
LEMMA Cancels ==
    ASSUME NEW r \in Scalars, NEW s \in Scalars
    PROVE  /\ Add(Add(r, s), Neg(s)) = r
           /\ Times(r, Neg(s)) = Neg(Times(r, s))
           /\ Neg(s) = Times(Neg(1), s)
<1>1. /\ Neg(s) \in Scalars /\ Times(r, s) \in Scalars /\ Times(r, Neg(s)) \in Scalars
      /\ Neg(1) \in Scalars /\ 1 \in Scalars /\ 0 \in Scalars
      /\ Neg(Times(r, s)) \in Scalars
  BY Closed
<1>2. Add(Add(r, s), Neg(s)) = r
  BY <1>1, AddAssociates, Neutral
(* An inverse is unique.                                                   *)
<1>3. ASSUME NEW a \in Scalars, NEW b \in Scalars, Add(a, b) = 0
      PROVE  b = Neg(a)
  <2>1. Neg(a) \in Scalars
    BY Closed
  <2>2. Add(Add(Neg(a), a), b) = Add(Neg(a), Add(a, b))
    BY <2>1, AddAssociates
  <2> QED
    BY <1>3, <2>1, <2>2, Neutral
<1>4. Add(Times(r, s), Times(r, Neg(s))) = 0
  BY <1>1, Distributes, Neutral
<1>5. Times(Neg(1), s) \in Scalars /\ Add(s, Times(Neg(1), s)) = 0
  <2>1. Add(Times(1, s), Times(Neg(1), s)) = Times(Add(1, Neg(1)), s)
    BY <1>1, Distributes
  <2> QED
    BY <1>1, <2>1, Neutral, Closed
<1> QED
  BY <1>1, <1>2, <1>3, <1>4, <1>5

(* Four terms in any order.                                                *)
LEMMA FourTerms ==
    ASSUME NEW p \in Scalars, NEW q \in Scalars, NEW r \in Scalars, NEW s \in Scalars
    PROVE  Add(Add(p, q), Add(r, s)) = Add(Add(p, r), Add(q, s))
<1>1. Add(p, q) \in Scalars /\ Add(r, s) \in Scalars /\ Add(q, s) \in Scalars
      /\ Add(q, r) \in Scalars /\ Add(p, r) \in Scalars
  BY Closed
<1>2. Add(Add(p, q), Add(r, s)) = Add(p, Add(q, Add(r, s)))
  BY <1>1, AddAssociates
<1>3. Add(q, Add(r, s)) = Add(r, Add(q, s))
  BY <1>1, AddAssociates, Commutes
<1>4. Add(p, Add(r, Add(q, s))) = Add(Add(p, r), Add(q, s))
  BY <1>1, AddAssociates
<1> QED
  BY <1>2, <1>3, <1>4

(* A response k = v x + a to the challenge v answers for x and a: the form *)
(* of all equations below.                                                 *)
LEMMA Responds ==
    ASSUME NEW v \in Scalars, NEW x \in Scalars, NEW a \in Scalars, NEW g \in Scalars
    PROVE  /\ Add(Times(v, x), a) \in Scalars
           /\ Times(g, Add(Times(v, x), a)) = Add(Times(Times(g, x), v), Times(g, a))
<1>1. Times(v, x) \in Scalars /\ Times(g, x) \in Scalars /\ Times(x, v) \in Scalars
  BY Closed
<1>2. Times(g, Add(Times(v, x), a)) = Add(Times(g, Times(v, x)), Times(g, a))
  BY <1>1, Distributes
<1>3. Times(g, Times(v, x)) = Times(Times(g, x), v)
  BY <1>1, TimesAssociates, Commutes
<1> QED
  BY <1>1, <1>2, <1>3, Closed

-------------------------------------------------------------------------------
(* Sums and products of lists.                                             *)

Unit(kind) == IF kind = "sum" THEN 0 ELSE 1
Joined(kind, s, t) == IF kind = "sum" THEN Add(s, t) ELSE Times(s, t)
Total(kind, xs) == IF kind = "sum" THEN SumOf(xs) ELSE ProductOf(xs)

Kinds == {"sum", "product"}

(* Partial results of a sum or product of n terms.                         *)
Parts(kind, n, xs, f) ==
    f[0] = Unit(kind) /\ \A i \in 1..n : f[i] = Joined(kind, f[i - 1], xs[i])

(* What sums and products have in common.                                  *)
LEMMA JoinedIs ==
    ASSUME NEW kind \in Kinds, NEW r \in Scalars, NEW s \in Scalars, NEW t \in Scalars
    PROVE  /\ Unit(kind) \in Scalars /\ Joined(kind, s, t) \in Scalars
           /\ Joined(kind, s, t) = Joined(kind, t, s)
           /\ Joined(kind, Joined(kind, r, s), t) = Joined(kind, r, Joined(kind, s, t))
<1>1. /\ 0 \in Scalars /\ Add(s, t) \in Scalars
      /\ Add(s, t) = Add(t, s) /\ Add(Add(r, s), t) = Add(r, Add(s, t))
  BY Closed, Commutes, AddAssociates
<1>2. /\ 1 \in Scalars /\ Times(s, t) \in Scalars
      /\ Times(s, t) = Times(t, s) /\ Times(Times(r, s), t) = Times(r, Times(s, t))
  BY Closed, Commutes, TimesAssociates
<1>3. CASE kind = "sum"
  BY <1>1, <1>3 DEF Unit, Joined
<1>4. CASE kind = "product"
  BY <1>2, <1>4 DEF Unit, Joined
<1> QED
  BY <1>3, <1>4 DEF Kinds

(* A product is the last of its partial products.                          *)
LEMMA PartialProducts ==
    ASSUME NEW n \in Nat, NEW xs, DOMAIN xs = 1..n
    PROVE  \E f : /\ f[0] = 1
                  /\ \A i \in 1..n : f[i] = Times(f[i - 1], xs[i])
                  /\ ProductOf(xs) = f[n]
<1> DEFINE Step(f, S) == IF S = {} THEN 1 ELSE Times(f[S \ {Max(S)}], xs[Max(S)])
           F == CHOOSE f : f = [S \in SUBSET (1..n) |-> Step(f, S)]
<1>1. \A f, S : FoldStep("product", 1, xs, f, S) = Step(f, S)
  BY DEF FoldStep, Combined
<1>2. ProductOf(xs) = F[1..n]
  BY DEF ProductOf, FoldLeft, MapThenFoldSet
<1> HIDE DEF Step
<1>3. \E f : f = [S \in SUBSET (1..n) |-> Step(f, S)]
  <2>1. PICK f : IsFold("product", 1, xs, n, f)
    BY FoldsExist
  <2> QED
    BY <1>1, <2>1 DEF IsFold
<1>4. F = [S \in SUBSET (1..n) |-> Step(F, S)]
  BY <1>3, Zenon
<1> HIDE DEF F
<1>5. IsFold("product", 1, xs, n, F)
  BY <1>1, <1>4 DEF IsFold
<1>6. HasParts("product", 1, xs, n, F[1..n])
  BY <1>5, FoldHasParts
<1> QED
  BY <1>2, <1>6 DEF HasParts, Combined

(* SumOf and ProductOf are the last of their partial results.              *)
LEMMA TotalHasParts ==
    ASSUME NEW kind \in Kinds, NEW n \in Nat, NEW xs, DOMAIN xs = 1..n
    PROVE  \E f : Parts(kind, n, xs, f) /\ Total(kind, xs) = f[n]
<1>1. CASE kind = "sum"
  BY <1>1, PartialSums DEF Parts, Unit, Joined, Total
<1>2. CASE kind = "product"
  BY <1>2, PartialProducts DEF Parts, Unit, Joined, Total
<1> QED
  BY <1>1, <1>2 DEF Kinds

(* The partial results of equal lists are equal.                           *)
LEMMA PartsAgree ==
    ASSUME NEW kind, NEW n \in Nat, NEW xs, NEW ys, NEW f, NEW g,
           Parts(kind, n, xs, f), Parts(kind, n, ys, g), \A i \in 1..n : xs[i] = ys[i]
    PROVE  f[n] = g[n]
<1> DEFINE Good == {i \in Nat : i <= n => f[i] = g[i]}
<1>1. 0 \in Good
  BY DEF Parts
<1>2. ASSUME NEW i \in Nat, i \in Good PROVE i + 1 \in Good
  <2> SUFFICES ASSUME i + 1 <= n PROVE f[i + 1] = g[i + 1]
    OBVIOUS
  <2>1. i + 1 \in 1..n /\ (i + 1) - 1 = i /\ f[i] = g[i]
    BY <1>2
  <2>2. f[i + 1] = Joined(kind, f[i], xs[i + 1]) /\ g[i + 1] = Joined(kind, g[i], ys[i + 1])
    BY <2>1 DEF Parts
  <2> QED
    BY <2>1, <2>2
<1> HIDE DEF Good
<1>3. \A i \in Nat : i \in Good
  BY <1>1, <1>2, Induction
<1> QED
  BY <1>3 DEF Good

(* The total is the last of any partial results.                           *)
LEMMA TotalIsLast ==
    ASSUME NEW kind \in Kinds, NEW n \in Nat, NEW xs, DOMAIN xs = 1..n,
           NEW f, Parts(kind, n, xs, f)
    PROVE  Total(kind, xs) = f[n]
  BY TotalHasParts, PartsAgree

Shorter(n, xs) == [i \in 1..n |-> xs[i]]

(* The total of one term more.                                             *)
LEMMA TotalOfMore ==
    ASSUME NEW kind \in Kinds, NEW n \in Nat, NEW xs \in [1..(n + 1) -> Scalars]
    PROVE  /\ Shorter(n, xs) \in [1..n -> Scalars]
           /\ Total(kind, xs) = Joined(kind, Total(kind, Shorter(n, xs)), xs[n + 1])
<1>1. PICK f : Parts(kind, n + 1, xs, f) /\ Total(kind, xs) = f[n + 1]
  BY TotalHasParts
<1>2. Parts(kind, n, Shorter(n, xs), f)
  BY <1>1 DEF Parts, Shorter
<1>3. Total(kind, Shorter(n, xs)) = f[n]
  BY <1>2, TotalIsLast DEF Shorter
<1>4. f[n + 1] = Joined(kind, f[(n + 1) - 1], xs[n + 1]) /\ (n + 1) - 1 = n
  BY <1>1 DEF Parts
<1>5. Shorter(n, xs) \in [1..n -> Scalars]
  BY DEF Shorter
<1> QED
  BY <1>1, <1>3, <1>4, <1>5

(* No terms add up to 0, no factors multiply to 1.                         *)
LEMMA TotalOfNone ==
    ASSUME NEW kind \in Kinds, NEW xs, DOMAIN xs = 1..0
    PROVE  Total(kind, xs) = Unit(kind)
<1>1. PICK f : Parts(kind, 0, xs, f) /\ Total(kind, xs) = f[0]
  BY TotalHasParts
<1> QED
  BY <1>1 DEF Parts

(* Totals are scalars.                                                     *)
LEMMA TotalIs ==
    ASSUME NEW kind \in Kinds
    PROVE  \A n \in Nat : \A xs \in [1..n -> Scalars] : Total(kind, xs) \in Scalars
<1> DEFINE Good == {n \in Nat : \A xs \in [1..n -> Scalars] : Total(kind, xs) \in Scalars}
<1>1. 0 \in Good
  <2>1. \A xs \in [1..0 -> Scalars] : Total(kind, xs) = Unit(kind)
    BY TotalOfNone
  <2>2. 0 \in Scalars
    BY OrderIs DEF Scalars
  <2>3. Unit(kind) \in Scalars
    BY <2>2, JoinedIs
  <2> QED
    BY <2>1, <2>3
<1>2. ASSUME NEW n \in Nat, n \in Good PROVE n + 1 \in Good
  <2> SUFFICES ASSUME NEW xs \in [1..(n + 1) -> Scalars] PROVE Total(kind, xs) \in Scalars
    OBVIOUS
  <2>1. Total(kind, Shorter(n, xs)) \in Scalars /\ xs[n + 1] \in Scalars
    BY <1>2, TotalOfMore
  <2> QED
    BY <2>1, TotalOfMore, JoinedIs
<1> HIDE DEF Good
<1>3. \A n \in Nat : n \in Good
  BY <1>1, <1>2, Induction
<1> QED
  BY <1>3 DEF Good

(* The list without its k-th term.                                         *)
Without(n, k, xs) == [i \in 1..n |-> IF i < k THEN xs[i] ELSE xs[i + 1]]

(* Any term may be counted last.                                           *)
LEMMA TakenOut ==
    ASSUME NEW kind \in Kinds
    PROVE  \A n \in Nat : \A xs \in [1..(n + 1) -> Scalars] : \A k \in 1..(n + 1) :
              Total(kind, xs) = Joined(kind, Total(kind, Without(n, k, xs)), xs[k])
<1> DEFINE Good(n) == \A xs \in [1..(n + 1) -> Scalars] : \A k \in 1..(n + 1) :
              Total(kind, xs) = Joined(kind, Total(kind, Without(n, k, xs)), xs[k])
           GoodOnes == {n \in Nat : Good(n)}
<1>1. ASSUME NEW n \in Nat, NEW xs \in [1..(n + 1) -> Scalars]
      PROVE  Total(kind, xs) = Joined(kind, Total(kind, Without(n, n + 1, xs)), xs[n + 1])
  <2>1. Without(n, n + 1, xs) = Shorter(n, xs)
    BY DEF Without, Shorter
  <2> QED
    BY <2>1, TotalOfMore
<1>2. Good(0)
  <2> SUFFICES ASSUME NEW xs \in [1..(0 + 1) -> Scalars], NEW k \in 1..(0 + 1)
               PROVE  Total(kind, xs) = Joined(kind, Total(kind, Without(0, k, xs)), xs[k])
    OBVIOUS
  <2>1. k = 0 + 1
    OBVIOUS
  <2> QED
    BY <1>1, <2>1
<1>3. ASSUME NEW n \in Nat, Good(n) PROVE Good(n + 1)
  <2> SUFFICES ASSUME NEW xs \in [1..((n + 1) + 1) -> Scalars], NEW k \in 1..((n + 1) + 1)
               PROVE  Total(kind, xs) = Joined(kind, Total(kind, Without(n + 1, k, xs)), xs[k])
    OBVIOUS
  <2>1. CASE k = (n + 1) + 1
    BY <1>1, <2>1
  <2>2. CASE k # (n + 1) + 1
    <3> DEFINE m == n + 1
               last == xs[m + 1]
               front == Shorter(m, xs)
               w == Without(m, k, xs)
               u == Without(n, k, front)
    <3>1. m \in Nat /\ k \in 1..m /\ k \in 1..(n + 1)
      BY <2>2
    <3>2. /\ front \in [1..(n + 1) -> Scalars]
          /\ Total(kind, xs) = Joined(kind, Total(kind, front), last)
      BY <3>1, TotalOfMore
    <3>3. Total(kind, front) = Joined(kind, Total(kind, u), front[k])
      BY <1>3, <3>1, <3>2
    <3>4. w \in [1..(n + 1) -> Scalars]
      <4>1. \A i \in 1..(n + 1) : xs[i] \in Scalars /\ xs[i + 1] \in Scalars
        OBVIOUS
      <4> QED
        BY <4>1 DEF Without
    <3>5. Total(kind, w) = Joined(kind, Total(kind, Shorter(n, w)), w[n + 1])
      BY <3>4, TotalOfMore
    <3>6. w[n + 1] = last /\ front[k] = xs[k]
      BY <3>1 DEF Without, Shorter
    <3>7. Shorter(n, w) = u
      <4>1. \A i \in 1..n : Shorter(n, w)[i] = u[i]
        <5> TAKE i \in 1..n
        <5>1. i \in 1..m /\ i + 1 \in 1..m
          OBVIOUS
        <5> QED
          BY <5>1 DEF Without, Shorter
      <4>2. u = [i \in 1..n |-> u[i]] /\ Shorter(n, w) = [i \in 1..n |-> Shorter(n, w)[i]]
        BY DEF Without, Shorter
      <4> HIDE DEF u, w
      <4> QED
        BY <4>1, <4>2
    <3>8. u \in [1..n -> Scalars]
      BY <3>4, <3>7, TotalOfMore
    <3>9. Total(kind, u) \in Scalars /\ xs[k] \in Scalars /\ last \in Scalars
      BY <3>1, <3>8, TotalIs
    <3> HIDE DEF front, w, u, last
    <3>10. Joined(kind, Joined(kind, Total(kind, u), xs[k]), last)
              = Joined(kind, Joined(kind, Total(kind, u), last), xs[k])
      <4>1. /\ Joined(kind, Joined(kind, Total(kind, u), xs[k]), last)
                  = Joined(kind, Total(kind, u), Joined(kind, xs[k], last))
            /\ Joined(kind, Joined(kind, Total(kind, u), last), xs[k])
                  = Joined(kind, Total(kind, u), Joined(kind, last, xs[k]))
            /\ Joined(kind, xs[k], last) = Joined(kind, last, xs[k])
        BY <3>9, JoinedIs
      <4> QED
        BY <4>1
    <3> QED
      BY <3>2, <3>3, <3>5, <3>6, <3>7, <3>10 DEF w
  <2> QED
    BY <2>1, <2>2
<1> HIDE DEF Good
<1>4. 0 \in GoodOnes /\ \A n \in Nat : n \in GoodOnes => n + 1 \in GoodOnes
  BY <1>2, <1>3
<1>5. \A n \in Nat : n \in GoodOnes
  BY <1>4, Induction
<1> QED
  BY <1>5 DEF Good

(* The permutations of 1, ..., n.                                          *)
PermutationsOf(n) ==
    {p \in [1..n -> 1..n] : /\ \A i, j \in 1..n : p[i] = p[j] => i = j
                            /\ \A j \in 1..n : \E i \in 1..n : p[i] = j}

(* Where the last position went, taken out, a permutation remains.         *)
LEMMA PermutationWithout ==
    ASSUME NEW n \in Nat, NEW p \in PermutationsOf(n + 1), NEW k \in 1..(n + 1), p[k] = n + 1
    PROVE  Without(n, k, p) \in PermutationsOf(n)
<1> DEFINE q == Without(n, k, p)
           At(i) == IF i < k THEN i ELSE i + 1
<1>1. /\ p \in [1..(n + 1) -> 1..(n + 1)]
      /\ \A i, j \in 1..(n + 1) : p[i] = p[j] => i = j
      /\ \A j \in 1..(n + 1) : \E i \in 1..(n + 1) : p[i] = j
  BY DEF PermutationsOf
<1>2. \A i \in 1..n : q[i] = p[At(i)] /\ At(i) \in 1..(n + 1) /\ At(i) # k
  BY DEF Without
<1>3. \A i, j \in 1..n : At(i) = At(j) => i = j
  OBVIOUS
<1>4. \A i \in 1..(n + 1) : i # k => \E j \in 1..n : At(j) = i
  <2> TAKE i \in 1..(n + 1)
  <2> HAVE i # k
  <2>1. CASE i < k
    <3>1. i \in 1..n /\ At(i) = i
      BY <2>1
    <3> QED
      BY <3>1
  <2>2. CASE ~(i < k)
    <3>1. i - 1 \in 1..n /\ At(i - 1) = i
      BY <2>2
    <3> QED
      BY <3>1
  <2> QED
    BY <2>1, <2>2
<1> HIDE DEF At
<1>5. \A i \in 1..n : q[i] \in 1..n
  <2> TAKE i \in 1..n
  <2>1. p[At(i)] \in 1..(n + 1) /\ p[At(i)] # n + 1
    BY <1>1, <1>2
  <2>2. p[At(i)] \in 1..n
    BY <2>1
  <2> QED
    BY <1>2, <2>2
<1>6. q \in [1..n -> 1..n]
  <2>1. q = [i \in 1..n |-> q[i]]
    BY DEF Without
  <2> HIDE DEF q
  <2> QED
    BY <1>5, <2>1
<1>7. \A i, j \in 1..n : q[i] = q[j] => i = j
  <2> TAKE i, j \in 1..n
  <2> HAVE q[i] = q[j]
  <2>1. p[At(i)] = p[At(j)] /\ At(i) \in 1..(n + 1) /\ At(j) \in 1..(n + 1)
    BY <1>2
  <2>2. At(i) = At(j)
    BY <1>1, <2>1
  <2> QED
    BY <1>3, <2>2 DEF At
<1>8. \A j \in 1..n : \E i \in 1..n : q[i] = j
  <2> TAKE j \in 1..n
  <2>1. j \in 1..(n + 1) /\ j # n + 1
    OBVIOUS
  <2>2. PICK i \in 1..(n + 1) : p[i] = j
    BY <1>1, <2>1
  <2>3. PICK l \in 1..n : At(l) = i
    BY <1>4, <2>1, <2>2
  <2> QED
    BY <1>2, <2>2, <2>3
<1> HIDE DEF q
<1> QED
  BY <1>6, <1>7, <1>8 DEF PermutationsOf, q

(* A sum or product does not depend on the order of its terms.             *)
LEMMA TotalPermuted ==
    ASSUME NEW kind \in Kinds
    PROVE  \A n \in Nat : \A xs \in [1..n -> Scalars], p \in PermutationsOf(n) :
              Total(kind, [i \in 1..n |-> xs[p[i]]]) = Total(kind, xs)
<1> DEFINE Good(n) == \A xs \in [1..n -> Scalars], p \in PermutationsOf(n) :
              Total(kind, [i \in 1..n |-> xs[p[i]]]) = Total(kind, xs)
           GoodOnes == {n \in Nat : Good(n)}
<1>1. Good(0)
  <2> SUFFICES ASSUME NEW xs \in [1..0 -> Scalars], NEW p \in PermutationsOf(0)
               PROVE  Total(kind, [i \in 1..0 |-> xs[p[i]]]) = Total(kind, xs)
    OBVIOUS
  <2>1. DOMAIN xs = 1..0 /\ DOMAIN [i \in 1..0 |-> xs[p[i]]] = 1..0
    OBVIOUS
  <2> QED
    BY <2>1, TotalOfNone
<1>2. ASSUME NEW n \in Nat, Good(n) PROVE Good(n + 1)
  <2> SUFFICES ASSUME NEW xs \in [1..(n + 1) -> Scalars], NEW p \in PermutationsOf(n + 1)
               PROVE  Total(kind, [i \in 1..(n + 1) |-> xs[p[i]]]) = Total(kind, xs)
    OBVIOUS
  <2> DEFINE ys == [i \in 1..(n + 1) |-> xs[p[i]]]
             front == Shorter(n, xs)
  <2>1. p \in [1..(n + 1) -> 1..(n + 1)]
    BY DEF PermutationsOf
  <2>2. PICK k \in 1..(n + 1) : p[k] = n + 1
    <3>1. n + 1 \in 1..(n + 1)
      OBVIOUS
    <3> QED
      BY <3>1 DEF PermutationsOf
  <2> DEFINE q == Without(n, k, p)
  <2>3. q \in PermutationsOf(n)
    BY <2>2, PermutationWithout
  <2>4. ys \in [1..(n + 1) -> Scalars]
    BY <2>1
  <2>5. Total(kind, ys) = Joined(kind, Total(kind, Without(n, k, ys)), ys[k])
    BY <2>4, TakenOut
  <2>6. ys[k] = xs[n + 1]
    BY <2>2
  <2>7. /\ front \in [1..n -> Scalars]
        /\ Total(kind, xs) = Joined(kind, Total(kind, front), xs[n + 1])
    BY TotalOfMore
  <2>8. Without(n, k, ys) = [i \in 1..n |-> front[q[i]]]
    <3>1. ASSUME NEW i \in 1..n
          PROVE  (IF i < k THEN ys[i] ELSE ys[i + 1]) = front[q[i]]
      <4>1. q[i] = (IF i < k THEN p[i] ELSE p[i + 1]) /\ q[i] \in 1..n
        BY <2>3 DEF PermutationsOf, Without
      <4>2. ys[i] = xs[p[i]] /\ ys[i + 1] = xs[p[i + 1]]
        OBVIOUS
      <4>3. front[q[i]] = xs[q[i]]
        BY <4>1 DEF Shorter
      <4> HIDE DEF ys, front, q
      <4> QED
        BY <4>1, <4>2, <4>3
    <3> HIDE DEF ys, front, q
    <3> QED
      BY <3>1 DEF Without
  <2>9. Total(kind, [i \in 1..n |-> front[q[i]]]) = Total(kind, front)
    BY <1>2, <2>3, <2>7
  <2> HIDE DEF ys, front, q
  <2> QED
    BY <2>5, <2>6, <2>7, <2>8, <2>9 DEF ys
<1> HIDE DEF Good
<1>3. 0 \in GoodOnes /\ \A n \in Nat : n \in GoodOnes => n + 1 \in GoodOnes
  BY <1>1, <1>2
<1>4. \A n \in Nat : n \in GoodOnes
  BY <1>3, Induction
<1> QED
  BY <1>4 DEF Good

(* The sum of sums, and of multiples.                                      *)
LEMMA SumOfSums ==
    \A n \in Nat : \A xs, ys \in [1..n -> Scalars] :
        SumOf([i \in 1..n |-> Add(xs[i], ys[i])]) = Add(SumOf(xs), SumOf(ys))
<1> DEFINE Sums(xs, ys, n) == [i \in 1..n |-> Add(xs[i], ys[i])]
           Good(n) == \A xs, ys \in [1..n -> Scalars] :
                         SumOf(Sums(xs, ys, n)) = Add(SumOf(xs), SumOf(ys))
           GoodOnes == {n \in Nat : Good(n)}
<1>0. \A xs : Total("sum", xs) = SumOf(xs)
  BY DEF Total
<1>1. Good(0)
  <2> SUFFICES ASSUME NEW xs \in [1..0 -> Scalars], NEW ys \in [1..0 -> Scalars]
               PROVE  SumOf(Sums(xs, ys, 0)) = Add(SumOf(xs), SumOf(ys))
    OBVIOUS
  <2>1. DOMAIN xs = 1..0 /\ DOMAIN ys = 1..0 /\ DOMAIN Sums(xs, ys, 0) = 1..0
    OBVIOUS
  <2>2. SumOf(xs) = 0 /\ SumOf(ys) = 0 /\ SumOf(Sums(xs, ys, 0)) = 0
    BY <1>0, <2>1, TotalOfNone DEF Unit, Kinds
  <2>3. 0 \in Scalars
    BY OrderIs DEF Scalars
  <2> QED
    BY <2>2, <2>3, Neutral
<1>2. ASSUME NEW n \in Nat, Good(n) PROVE Good(n + 1)
  <2> SUFFICES ASSUME NEW xs \in [1..(n + 1) -> Scalars], NEW ys \in [1..(n + 1) -> Scalars]
               PROVE  SumOf(Sums(xs, ys, n + 1)) = Add(SumOf(xs), SumOf(ys))
    OBVIOUS
  <2> DEFINE zs == Sums(xs, ys, n + 1)
             x == Shorter(n, xs)
             y == Shorter(n, ys)
  <2>1. zs \in [1..(n + 1) -> Scalars]
    BY Closed
  <2>2. /\ SumOf(zs) = Add(SumOf(Shorter(n, zs)), zs[n + 1])
        /\ SumOf(xs) = Add(SumOf(x), xs[n + 1]) /\ x \in [1..n -> Scalars]
        /\ SumOf(ys) = Add(SumOf(y), ys[n + 1]) /\ y \in [1..n -> Scalars]
    BY <1>0, <2>1, TotalOfMore DEF Joined, Kinds
  <2>3. zs[n + 1] = Add(xs[n + 1], ys[n + 1])
    OBVIOUS
  <2>4. Shorter(n, zs) = Sums(x, y, n)
    BY DEF Shorter
  <2>5. SumOf(Sums(x, y, n)) = Add(SumOf(x), SumOf(y))
    BY <1>2, <2>2
  <2>6. /\ SumOf(x) \in Scalars /\ SumOf(y) \in Scalars
        /\ xs[n + 1] \in Scalars /\ ys[n + 1] \in Scalars
    BY <1>0, <2>2, TotalIs DEF Kinds
  <2> HIDE DEF zs, x, y, Sums
  <2> QED
    BY <2>2, <2>3, <2>4, <2>5, <2>6, FourTerms DEF zs
<1> HIDE DEF Good
<1>3. 0 \in GoodOnes /\ \A n \in Nat : n \in GoodOnes => n + 1 \in GoodOnes
  BY <1>1, <1>2
<1>4. \A n \in Nat : n \in GoodOnes
  BY <1>3, Induction
<1> QED
  BY <1>4 DEF Good

(* A common factor of the terms is one of the sum.                         *)
LEMMA SumOfMultiples ==
    ASSUME NEW s \in Scalars
    PROVE  \A n \in Nat : \A xs \in [1..n -> Scalars] :
              SumOf([i \in 1..n |-> Times(s, xs[i])]) = Times(s, SumOf(xs))
<1> DEFINE Multiples(xs, n) == [i \in 1..n |-> Times(s, xs[i])]
           Good(n) == \A xs \in [1..n -> Scalars] :
                         SumOf(Multiples(xs, n)) = Times(s, SumOf(xs))
           GoodOnes == {n \in Nat : Good(n)}
<1>0. \A xs : Total("sum", xs) = SumOf(xs)
  BY DEF Total
<1>1. Good(0)
  <2> SUFFICES ASSUME NEW xs \in [1..0 -> Scalars]
               PROVE  SumOf(Multiples(xs, 0)) = Times(s, SumOf(xs))
    OBVIOUS
  <2>1. DOMAIN xs = 1..0 /\ DOMAIN Multiples(xs, 0) = 1..0
    OBVIOUS
  <2>2. SumOf(xs) = 0 /\ SumOf(Multiples(xs, 0)) = 0
    BY <1>0, <2>1, TotalOfNone DEF Unit, Kinds
  <2> QED
    BY <2>2, Neutral
<1>2. ASSUME NEW n \in Nat, Good(n) PROVE Good(n + 1)
  <2> SUFFICES ASSUME NEW xs \in [1..(n + 1) -> Scalars]
               PROVE  SumOf(Multiples(xs, n + 1)) = Times(s, SumOf(xs))
    OBVIOUS
  <2> DEFINE zs == Multiples(xs, n + 1)
             x == Shorter(n, xs)
  <2>1. zs \in [1..(n + 1) -> Scalars]
    BY Closed
  <2>2. /\ SumOf(zs) = Add(SumOf(Shorter(n, zs)), zs[n + 1])
        /\ SumOf(xs) = Add(SumOf(x), xs[n + 1]) /\ x \in [1..n -> Scalars]
    BY <1>0, <2>1, TotalOfMore DEF Joined, Kinds
  <2>3. zs[n + 1] = Times(s, xs[n + 1])
    OBVIOUS
  <2>4. Shorter(n, zs) = Multiples(x, n)
    BY DEF Shorter
  <2>5. SumOf(Multiples(x, n)) = Times(s, SumOf(x))
    BY <1>2, <2>2
  <2>6. SumOf(x) \in Scalars /\ xs[n + 1] \in Scalars
    BY <1>0, <2>2, TotalIs DEF Kinds
  <2> HIDE DEF zs, x, Multiples
  <2> QED
    BY <2>2, <2>3, <2>4, <2>5, <2>6, Distributes DEF zs
<1> HIDE DEF Good
<1>3. 0 \in GoodOnes /\ \A n \in Nat : n \in GoodOnes => n + 1 \in GoodOnes
  BY <1>1, <1>2
<1>4. \A n \in Nat : n \in GoodOnes
  BY <1>3, Induction
<1> QED
  BY <1>4 DEF Good

-------------------------------------------------------------------------------
(* Powers.                                                                 *)

Repeated(s, n) == [i \in 1..n |-> s]
NthPower(s, n) == Total("product", Repeated(s, n))

(* The n-th power is the product of n equal factors.                       *)
LEMMA NthPowerIs ==
    ASSUME NEW s \in Scalars
    PROVE  /\ NthPower(s, 0) = 1
           /\ \A n \in Nat : /\ NthPower(s, n) \in Scalars
                             /\ NthPower(s, n + 1) = Times(NthPower(s, n), s)
<1>1. NthPower(s, 0) = 1
  <2>1. DOMAIN Repeated(s, 0) = 1..0
    BY DEF Repeated
  <2> QED
    BY <2>1, TotalOfNone DEF NthPower, Unit, Kinds
<1>2. ASSUME NEW n \in Nat
      PROVE  /\ NthPower(s, n) \in Scalars
             /\ NthPower(s, n + 1) = Times(NthPower(s, n), s)
  <2>1. Repeated(s, n) \in [1..n -> Scalars] /\ Repeated(s, n + 1) \in [1..(n + 1) -> Scalars]
    BY DEF Repeated
  <2>2. Shorter(n, Repeated(s, n + 1)) = Repeated(s, n)
    BY DEF Shorter, Repeated
  <2>3. Repeated(s, n + 1)[n + 1] = s
    BY DEF Repeated
  <2>4. Total("product", Repeated(s, n)) \in Scalars
    BY <2>1, TotalIs DEF Kinds
  <2>5. Total("product", Repeated(s, n + 1))
           = Joined("product", Total("product", Repeated(s, n)), s)
    BY <2>1, <2>2, <2>3, TotalOfMore DEF Kinds
  <2> QED
    BY <2>4, <2>5 DEF NthPower, Joined
<1> QED
  BY <1>1, <1>2

(* The exponents of a product of powers add up.                            *)
LEMMA PowersAdd ==
    ASSUME NEW s \in Scalars, NEW m \in Nat
    PROVE  \A n \in Nat : NthPower(s, m + n) = Times(NthPower(s, m), NthPower(s, n))
<1> DEFINE Good == {n \in Nat : NthPower(s, m + n) = Times(NthPower(s, m), NthPower(s, n))}
<1>1. 0 \in Good
  BY NthPowerIs, Neutral
<1>2. ASSUME NEW n \in Nat, n \in Good PROVE n + 1 \in Good
  <2>1. m + n \in Nat /\ m + (n + 1) = (m + n) + 1
    OBVIOUS
  <2>2. NthPower(s, m + (n + 1)) = Times(Times(NthPower(s, m), NthPower(s, n)), s)
    BY <1>2, <2>1, NthPowerIs
  <2>3. NthPower(s, m) \in Scalars /\ NthPower(s, n) \in Scalars
    BY NthPowerIs
  <2>4. NthPower(s, m + (n + 1)) = Times(NthPower(s, m), Times(NthPower(s, n), s))
    BY <2>2, <2>3, TimesAssociates
  <2> QED
    BY <2>4, NthPowerIs
<1> HIDE DEF Good
<1>3. \A n \in Nat : n \in Good
  BY <1>1, <1>2, Induction
<1> QED
  BY <1>3 DEF Good

(* Squaring and multiplying computes powers.                               *)
SquareOrMore(s, power, i) ==
    IF i = 0 THEN 1
    ELSE LET half == power[i \div 2]
             square == Times(half, half)
         IN  IF i % 2 = 0 THEN square ELSE Times(square, s)

(* Squaring and multiplying gives the power.                               *)
LEMMA PowerIs ==
    ASSUME NEW s \in Scalars, NEW n \in Nat
    PROVE  Power(s, n) = NthPower(s, n)
<1> DEFINE P == CHOOSE f : f = [i \in Nat |-> SquareOrMore(s, f, i)]
           g == [i \in Nat |-> NthPower(s, i)]
<1>1. Power(s, n) = P[n]
  BY DEF Power, SquareOrMore
<1>2. ASSUME NEW i \in Nat, i # 0
      PROVE  /\ i \div 2 \in Nat /\ i \div 2 < i
             /\ i % 2 \in {0, 1} /\ i = (i \div 2 + i \div 2) + (i % 2)
  BY <1>2
<1>3. ASSUME NEW i \in Nat, NEW f, i # 0 => f[i \div 2] = NthPower(s, i \div 2)
      PROVE  SquareOrMore(s, f, i) = NthPower(s, i)
  <2>1. CASE i = 0
    BY <2>1, NthPowerIs DEF SquareOrMore
  <2>2. CASE i # 0
    <3> DEFINE h == i \div 2
    <3>1. h \in Nat /\ i % 2 \in {0, 1} /\ i = (h + h) + (i % 2)
      BY <1>2, <2>2
    <3>2. f[h] = NthPower(s, h)
      BY <1>3, <2>2
    <3>3. SquareOrMore(s, f, i) = IF i % 2 = 0 THEN Times(f[h], f[h])
                                  ELSE Times(Times(f[h], f[h]), s)
      BY <2>2 DEF SquareOrMore
    <3> HIDE DEF h
    <3>4. NthPower(s, h + h) = Times(f[h], f[h]) /\ h + h \in Nat
      BY <3>1, <3>2, PowersAdd
    <3>5. NthPower(s, (h + h) + 1) = Times(Times(f[h], f[h]), s)
      BY <3>4, NthPowerIs
    <3>6. CASE i % 2 = 0
      <4>1. i = h + h
        BY <3>1, <3>6
      <4> QED
        BY <3>3, <3>4, <3>6, <4>1
    <3>7. CASE i % 2 = 1
      <4>1. i = (h + h) + 1
        BY <3>1, <3>7
      <4> QED
        BY <3>3, <3>5, <3>7, <4>1
    <3> QED
      BY <3>1, <3>6, <3>7
  <2> QED
    BY <2>1, <2>2
<1>4. g = [i \in Nat |-> SquareOrMore(s, g, i)]
  <2>1. \A i \in Nat : SquareOrMore(s, g, i) = NthPower(s, i)
    BY <1>2, <1>3
  <2> QED
    BY <2>1
<1>5. P = [i \in Nat |-> SquareOrMore(s, P, i)]
  <2>1. \E f : f = [i \in Nat |-> SquareOrMore(s, f, i)]
    BY <1>4
  <2> HIDE DEF g
  <2> QED
    BY <2>1, Zenon
<1> HIDE DEF P, g
<1> DEFINE Bad == {i \in Nat : P[i] # NthPower(s, i)}
<1>6. Bad = {}
  <2> SUFFICES ASSUME Bad # {} PROVE FALSE
    OBVIOUS
  <2>1. PICK m \in Bad : \A k \in Bad : m <= k
    BY LeastExists
  <2>2. m # 0 => m \div 2 \in Nat /\ ~(m <= m \div 2)
    BY <1>2
  <2>3. m # 0 => P[m \div 2] = NthPower(s, m \div 2)
    BY <2>1, <2>2
  <2>4. P[m] = SquareOrMore(s, P, m)
    BY <1>5
  <2> QED
    BY <1>3, <2>3, <2>4
<1> QED
  BY <1>1, <1>6

-------------------------------------------------------------------------------
(* Scalars are a field.                                                    *)

(* The order is prime: a product vanishes only if a factor does.           *)
LEMMA NoZeroDivisors ==
    ASSUME NEW a \in Scalars, NEW b \in Scalars, a # 0, b # 0
    PROVE  Times(a, b) # 0
<1> DEFINE Killers == {m \in Nat : m # 0 /\ (m * b) % Order = 0}
<1>1. a \in Int /\ b \in Int /\ a \in Nat /\ b \in Nat /\ a < Order /\ 0 \in Scalars
  BY OrderIs DEF Scalars
<1>2. Order \in Killers
  <2>1. Order * b = Order * b + 0 /\ Order * b \in Int
    BY <1>1, OrderIs
  <2>2. (Order * b) % Order = 0
    BY <1>1, <2>1, RestIs
  <2> QED
    BY <2>2, OrderIs
<1>3. PICK m \in Killers : \A k \in Killers : m <= k
  <2>1. Killers \subseteq Nat /\ Killers # {}
    BY <1>2
  <2> HIDE DEF Killers
  <2> QED
    BY <2>1, LeastExists
<1>4. m \in Nat /\ m # 0 /\ (m * b) % Order = 0 /\ m <= Order
  BY <1>2, <1>3
(* The least number that makes b vanish divides the order.                 *)
<1>5. Order % m = 0
  <2> DEFINE k == Order \div m
             r == Order % m
  <2>1. k \in Int /\ r \in Nat /\ r < m /\ Order = m * k + r
    BY <1>4, OrderIs
  <2> HIDE DEF k, r
  <2>2. m * b \in Int /\ m * b = Order * ((m * b) \div Order) + 0 /\ (m * b) \div Order \in Int
    BY <1>1, <1>4, DivMod
  <2> DEFINE j == (m * b) \div Order
  <2>3. r * b = Order * b - k * (m * b)
    <3>1. Order * b = (m * k + r) * b
      BY <2>1
    <3>2. (m * k + r) * b = k * (m * b) + r * b
      BY <1>1, <1>4, <2>1
    <3>3. k * (m * b) \in Int /\ r * b \in Int
      BY <1>1, <1>4, <2>1
    <3> QED
      BY <3>1, <3>2, <3>3
  <2> HIDE DEF j
  <2>4. m * b = Order * j /\ j \in Int
    <3>1. Order * j \in Int
      BY <2>2, OrderIs DEF j
    <3>2. Order * j + 0 = Order * j
      BY <3>1
    <3> QED
      BY <2>2, <3>2 DEF j
  <2>5. r * b = Order * (b - k * j) + 0 /\ b - k * j \in Int /\ r * b \in Int
    <3>1. k * (Order * j) = Order * (k * j) /\ k * j \in Int
      BY <2>1, <2>4, OrderIs
    <3>2. Order * b - Order * (k * j) = Order * (b - k * j)
      BY <1>1, <3>1, OrderIs
    <3> QED
      BY <1>1, <2>1, <2>3, <2>4, <3>1, <3>2, OrderIs
  <2>6. (r * b) % Order = 0
    BY <1>1, <2>5, RestIs
  <2>7. r # 0 => r \in Killers
    BY <2>1, <2>6
  <2>8. r = 0
    BY <1>3, <1>4, <2>1, <2>7
  <2> QED
    BY <2>8 DEF r
<1>6. m # 1
  <2>1. 1 * b = b /\ b % Order = b
    BY <1>1, ScalarsAreRests
  <2> QED
    BY <1>4, <2>1
<1>7. m = Order
  <2>1. m \in 2..(Order - 1) \/ m = Order
    BY <1>4, <1>6, OrderIs
  <2> QED
    BY <1>5, <2>1, OrderAssumption
<1> QED
  <2> SUFFICES ASSUME Times(a, b) = 0 PROVE FALSE
    OBVIOUS
  <2>1. a \in Killers
    BY <1>1 DEF Times
  <2>2. m <= a
    BY <1>3, <2>1
  <2> QED
    BY <1>1, <1>4, <1>7, <2>2

(* A common factor cancels.                                                *)
LEMMA CommonFactor ==
    ASSUME NEW a \in Scalars, NEW b \in Scalars, NEW c \in Scalars,
           a # 0, Times(a, b) = Times(a, c)
    PROVE  b = c
<1> DEFINE d == Add(b, Neg(c))
<1>1. Neg(c) \in Scalars /\ d \in Scalars /\ Times(a, c) \in Scalars
  BY Closed
<1>2. Times(a, d) = Add(Times(a, c), Neg(Times(a, c)))
  BY <1>1, Distributes, Cancels
<1>3. Times(a, d) = 0
  BY <1>1, <1>2, Neutral
<1>4. d = 0
  BY <1>1, <1>3, NoZeroDivisors
<1>5. Add(d, c) = Add(b, Add(Neg(c), c))
  BY <1>1, AddAssociates
<1> QED
  BY <1>4, <1>5, Neutral

(* Products of scalars that are not 0.                                     *)
LEMMA ProductsAreNotZero ==
    \A n \in Nat : \A xs \in [1..n -> Scalars \ {0}] : ProductOf(xs) \in Scalars \ {0}
<1> DEFINE Good(n) == \A xs \in [1..n -> Scalars \ {0}] : ProductOf(xs) \in Scalars \ {0}
           GoodOnes == {n \in Nat : Good(n)}
<1>0. \A xs : Total("product", xs) = ProductOf(xs)
  BY DEF Total
<1>1. Good(0)
  <2> SUFFICES ASSUME NEW xs \in [1..0 -> Scalars \ {0}] PROVE ProductOf(xs) \in Scalars \ {0}
    OBVIOUS
  <2>1. DOMAIN xs = 1..0
    OBVIOUS
  <2>2. ProductOf(xs) = 1
    BY <1>0, <2>1, TotalOfNone DEF Unit, Kinds
  <2> QED
    BY <2>2, OrderIs DEF Scalars
<1>2. ASSUME NEW n \in Nat, Good(n) PROVE Good(n + 1)
  <2> SUFFICES ASSUME NEW xs \in [1..(n + 1) -> Scalars \ {0}]
               PROVE  ProductOf(xs) \in Scalars \ {0}
    OBVIOUS
  <2>1. xs \in [1..(n + 1) -> Scalars]
    OBVIOUS
  <2>2. ProductOf(xs) = Times(ProductOf(Shorter(n, xs)), xs[n + 1])
    BY <1>0, <2>1, TotalOfMore DEF Joined, Kinds
  <2>3. Shorter(n, xs) \in [1..n -> Scalars \ {0}]
    BY DEF Shorter
  <2>4. ProductOf(Shorter(n, xs)) \in Scalars \ {0}
    BY <1>2, <2>3
  <2>5. xs[n + 1] \in Scalars \ {0}
    OBVIOUS
  <2> QED
    BY <2>2, <2>4, <2>5, NoZeroDivisors, Closed
<1> HIDE DEF Good
<1>3. 0 \in GoodOnes /\ \A n \in Nat : n \in GoodOnes => n + 1 \in GoodOnes
  BY <1>1, <1>2
<1>4. \A n \in Nat : n \in GoodOnes
  BY <1>3, Induction
<1> QED
  BY <1>4 DEF Good

(* The product of multiples.                                               *)
LEMMA FourFactors ==
    ASSUME NEW p \in Scalars, NEW q \in Scalars, NEW r \in Scalars, NEW s \in Scalars
    PROVE  Times(Times(p, q), Times(r, s)) = Times(Times(p, r), Times(q, s))
<1>1. /\ Times(p, q) \in Scalars /\ Times(r, s) \in Scalars /\ Times(q, s) \in Scalars
      /\ Times(q, r) \in Scalars /\ Times(p, r) \in Scalars
  BY Closed
<1>2. Times(Times(p, q), Times(r, s)) = Times(p, Times(q, Times(r, s)))
  BY <1>1, TimesAssociates
<1>3. Times(q, Times(r, s)) = Times(r, Times(q, s))
  BY <1>1, TimesAssociates, Commutes
<1>4. Times(p, Times(r, Times(q, s))) = Times(Times(p, r), Times(q, s))
  BY <1>1, TimesAssociates
<1> QED
  BY <1>2, <1>3, <1>4

(* A common factor of n factors is in the product n times.                 *)
LEMMA ProductOfMultiples ==
    ASSUME NEW s \in Scalars
    PROVE  \A n \in Nat : \A xs \in [1..n -> Scalars] :
              ProductOf([i \in 1..n |-> Times(s, xs[i])])
                 = Times(NthPower(s, n), ProductOf(xs))
<1> DEFINE Multiples(xs, n) == [i \in 1..n |-> Times(s, xs[i])]
           Good(n) == \A xs \in [1..n -> Scalars] :
                         ProductOf(Multiples(xs, n)) = Times(NthPower(s, n), ProductOf(xs))
           GoodOnes == {n \in Nat : Good(n)}
<1>0. \A xs : Total("product", xs) = ProductOf(xs)
  BY DEF Total
<1>1. Good(0)
  <2> SUFFICES ASSUME NEW xs \in [1..0 -> Scalars]
               PROVE  ProductOf(Multiples(xs, 0)) = Times(NthPower(s, 0), ProductOf(xs))
    OBVIOUS
  <2>1. DOMAIN xs = 1..0 /\ DOMAIN Multiples(xs, 0) = 1..0
    OBVIOUS
  <2>2. ProductOf(xs) = 1 /\ ProductOf(Multiples(xs, 0)) = 1
    BY <1>0, <2>1, TotalOfNone DEF Unit, Kinds
  <2> QED
    BY <2>2, Neutral, NthPowerIs
<1>2. ASSUME NEW n \in Nat, Good(n) PROVE Good(n + 1)
  <2> SUFFICES ASSUME NEW xs \in [1..(n + 1) -> Scalars]
               PROVE  ProductOf(Multiples(xs, n + 1))
                         = Times(NthPower(s, n + 1), ProductOf(xs))
    OBVIOUS
  <2> DEFINE zs == Multiples(xs, n + 1)
             x == Shorter(n, xs)
  <2>1. zs \in [1..(n + 1) -> Scalars]
    BY Closed
  <2>2. /\ ProductOf(zs) = Times(ProductOf(Shorter(n, zs)), zs[n + 1])
        /\ ProductOf(xs) = Times(ProductOf(x), xs[n + 1]) /\ x \in [1..n -> Scalars]
    BY <1>0, <2>1, TotalOfMore DEF Joined, Kinds
  <2>3. zs[n + 1] = Times(s, xs[n + 1])
    OBVIOUS
  <2>4. Shorter(n, zs) = Multiples(x, n)
    BY DEF Shorter
  <2>5. ProductOf(Multiples(x, n)) = Times(NthPower(s, n), ProductOf(x))
    BY <1>2, <2>2
  <2>6. ProductOf(x) \in Scalars /\ xs[n + 1] \in Scalars /\ NthPower(s, n) \in Scalars
    BY <1>0, <2>2, TotalIs, NthPowerIs DEF Kinds
  <2>7. NthPower(s, n + 1) = Times(NthPower(s, n), s)
    BY NthPowerIs
  <2> HIDE DEF zs, x, Multiples
  <2> QED
    BY <2>2, <2>3, <2>4, <2>5, <2>6, <2>7, FourFactors DEF zs
<1> HIDE DEF Good
<1>3. 0 \in GoodOnes /\ \A n \in Nat : n \in GoodOnes => n + 1 \in GoodOnes
  BY <1>1, <1>2
<1>4. \A n \in Nat : n \in GoodOnes
  BY <1>3, Induction
<1> QED
  BY <1>4 DEF Good

(* Fermat's theorem, by which scalars are inverted: the multiples of a     *)
(* scalar are all scalars, in another order.                               *)
LEMMA InvertIs ==
    ASSUME NEW a \in Scalars, a # 0
    PROVE  Invert(a) \in Scalars /\ Times(a, Invert(a)) = 1 /\ Times(Invert(a), a) = 1
<1> DEFINE n == Order - 1
           xs == [i \in 1..n |-> i]
           p == [i \in 1..n |-> Times(a, i)]
<1>1. n \in Nat /\ Order - 2 \in Nat /\ n = (Order - 2) + 1 /\ 1..n = Scalars \ {0}
  BY OrderIs DEF Scalars
<1>2. xs \in [1..n -> Scalars \ {0}] /\ xs \in [1..n -> Scalars]
  BY <1>1
<1>3. p \in [1..n -> 1..n]
  BY <1>1, Closed, NoZeroDivisors
<1>4. \A i, j \in 1..n : p[i] = p[j] => i = j
  BY <1>1, CommonFactor
<1>5. \A j \in 1..n : \E i \in 1..n : p[i] = j
  <2>2. IsFiniteSet(1..n)
    BY <1>1, FS_Interval
  <2> HIDE DEF p, n
  <2>1. p \in Injection(1..n, 1..n)
    BY <1>3, <1>4 DEF Injection, IsInjective
  <2>3. p \in Surjection(1..n, 1..n)
    BY <2>1, <2>2, FS_Injection
  <2> QED
    BY <2>3 DEF Surjection
<1>6. p \in PermutationsOf(n)
  BY <1>3, <1>4, <1>5 DEF PermutationsOf
<1>7. \A ys : Total("product", ys) = ProductOf(ys)
  BY DEF Total
<1>8. [i \in 1..n |-> xs[p[i]]] = [i \in 1..n |-> Times(a, xs[i])]
  BY <1>3
<1> DEFINE P == ProductOf(xs)
<1> HIDE DEF n, xs, p
<1>9. P = Times(NthPower(a, n), P)
  <2>1. Total("product", [i \in 1..n |-> xs[p[i]]]) = Total("product", xs)
    BY <1>1, <1>2, <1>6, TotalPermuted DEF Kinds
  <2>2. ProductOf([i \in 1..n |-> Times(a, xs[i])]) = Times(NthPower(a, n), P)
    BY <1>1, <1>2, ProductOfMultiples
  <2> QED
    BY <1>7, <1>8, <2>1, <2>2
<1>10. P \in Scalars \ {0}
  BY <1>1, <1>2, ProductsAreNotZero
<1> HIDE DEF P
<1>11. NthPower(a, n) = 1
  <2>1. NthPower(a, n) \in Scalars /\ 1 \in Scalars
    BY <1>1, NthPowerIs, Closed
  <2>2. Times(P, NthPower(a, n)) = Times(P, 1)
    BY <1>9, <1>10, <2>1, Commutes, Neutral
  <2> QED
    BY <1>10, <2>1, <2>2, CommonFactor
<1>12. Invert(a) = NthPower(a, Order - 2) /\ NthPower(a, Order - 2) \in Scalars
  BY <1>1, PowerIs, NthPowerIs DEF Invert
<1>13. Times(NthPower(a, Order - 2), a) = 1
  BY <1>1, <1>11, NthPowerIs
<1> QED
  BY <1>12, <1>13, Commutes

(* The inverse of 1, and of a product.                                     *)
LEMMA InvertOfOne == Invert(1) = 1
<1>1. 1 \in Scalars
  BY OrderIs DEF Scalars
<1>2. Invert(1) \in Scalars /\ Times(1, Invert(1)) = 1
  BY <1>1, InvertIs
<1> QED
  BY <1>2, Neutral

(* One factor of an inverted product cancels.                              *)
LEMMA InvertOfProduct ==
    ASSUME NEW a \in Scalars, NEW b \in Scalars, a # 0, b # 0
    PROVE  Times(b, Invert(Times(a, b))) = Invert(a)
<1>1. Times(a, b) \in Scalars /\ Times(a, b) # 0
  BY Closed, NoZeroDivisors
<1>2. Invert(Times(a, b)) \in Scalars /\ Times(Times(a, b), Invert(Times(a, b))) = 1
  BY <1>1, InvertIs
<1>3. Invert(a) \in Scalars /\ Times(a, Invert(a)) = 1
  BY InvertIs
<1>4. Times(b, Invert(Times(a, b))) \in Scalars
  BY <1>2, Closed
<1>5. Times(a, Times(b, Invert(Times(a, b)))) = Times(a, Invert(a))
  BY <1>2, <1>3, TimesAssociates
<1> QED
  BY <1>3, <1>4, <1>5, CommonFactor

-------------------------------------------------------------------------------
(* Interpolation.                                                          *)

Different(n) == {q \in [1..n -> Scalars] : \A i, j \in 1..n : q[i] = q[j] => i = j}

(* The coefficient of the i-th of n points, by its numerator and           *)
(* denominator.                                                            *)
Numerators(n, q, i) == [j \in 1..n |-> IF j = i THEN 1 ELSE q[j]]
Denominators(n, q, i) == [j \in 1..n |-> IF j = i THEN 1 ELSE Add(q[j], Neg(q[i]))]
Coefficient(n, q, i) ==
    Times(ProductOf(Numerators(n, q, i)), Invert(ProductOf(Denominators(n, q, i))))
Interpolated(n, q, z) == SumOf([i \in 1..n |-> Times(z[i], Coefficient(n, q, i))])

(* The difference of different scalars.                                    *)
LEMMA DifferenceIs ==
    ASSUME NEW s \in Scalars, NEW t \in Scalars
    PROVE  /\ Add(s, Neg(t)) \in Scalars
           /\ Add(s, Neg(t)) = 0 => s = t
           /\ Add(t, Add(s, Neg(t))) = s
           /\ Add(s, Neg(t)) = Neg(Add(t, Neg(s)))
<1>1. /\ Neg(t) \in Scalars /\ Neg(s) \in Scalars /\ Add(s, Neg(t)) \in Scalars
      /\ Add(t, Neg(s)) \in Scalars /\ 0 \in Scalars /\ Neg(1) \in Scalars
  BY Closed
<1>2. Add(t, Add(s, Neg(t))) = s
  <2>1. Add(t, Add(s, Neg(t))) = Add(Add(s, Neg(t)), t)
    BY <1>1, Commutes
  <2>2. Add(Add(s, Neg(t)), t) = Add(s, Add(Neg(t), t))
    BY <1>1, AddAssociates
  <2> QED
    BY <2>1, <2>2, Neutral
<1>3. Add(s, Neg(t)) = 0 => s = t
  BY <1>2, Neutral
<1>4. Add(s, Neg(t)) = Neg(Add(t, Neg(s)))
  <2>1. Neg(Add(t, Neg(s))) = Times(Neg(1), Add(t, Neg(s)))
    BY <1>1, Cancels
  <2>2. Times(Neg(1), Add(t, Neg(s))) = Add(Neg(t), Times(Neg(1), Neg(s)))
    BY <1>1, Distributes, Cancels
  <2>3. Times(Neg(1), Neg(s)) = s
    <3>1. Neg(Neg(s)) = Times(Neg(1), Neg(s)) /\ Neg(Neg(s)) \in Scalars
      BY <1>1, Cancels, Closed
    <3>2. Add(Neg(s), Neg(Neg(s))) = 0 /\ Add(Neg(s), s) = 0
      BY <1>1, Neutral
    <3>3. Add(s, Add(Neg(s), Neg(Neg(s)))) = Add(Add(s, Neg(s)), Neg(Neg(s)))
      BY <1>1, <3>1, AddAssociates
    <3> QED
      BY <3>1, <3>2, <3>3, Neutral
  <2> QED
    BY <1>1, <2>1, <2>2, <2>3, Commutes
<1> QED
  BY <1>1, <1>2, <1>3, <1>4

(* Denominators do not vanish: lagrange does not panic.                    *)
LEMMA CoefficientIs ==
    ASSUME NEW n \in Nat, NEW q \in Different(n), NEW i \in 1..n
    PROVE  /\ Numerators(n, q, i) \in [1..n -> Scalars]
           /\ ProductOf(Numerators(n, q, i)) \in Scalars
           /\ Denominators(n, q, i) \in [1..n -> Scalars \ {0}]
           /\ ProductOf(Denominators(n, q, i)) \in Scalars \ {0}
           /\ Coefficient(n, q, i) \in Scalars
<1>1. \A j \in 1..n : q[j] \in Scalars /\ (q[j] = q[i] => i = j)
  BY DEF Different
<1>2. 1 \in Scalars \ {0}
  BY OrderIs DEF Scalars
<1>3. Numerators(n, q, i) \in [1..n -> Scalars]
  BY <1>1, <1>2 DEF Numerators
<1>4. Denominators(n, q, i) \in [1..n -> Scalars \ {0}]
  <2>1. \A j \in 1..n : j # i => Add(q[j], Neg(q[i])) \in Scalars \ {0}
    BY <1>1, DifferenceIs
  <2> QED
    BY <1>2, <2>1 DEF Denominators
<1>5. Total("product", Numerators(n, q, i)) \in Scalars
  BY <1>3, TotalIs DEF Kinds
<1>6. ProductOf(Numerators(n, q, i)) \in Scalars
  BY <1>5 DEF Total
<1>7. ProductOf(Denominators(n, q, i)) \in Scalars \ {0}
  BY <1>4, ProductsAreNotZero
<1> QED
  BY <1>3, <1>4, <1>6, <1>7, InvertIs, Closed DEF Coefficient

(* One of the points is left out: the coefficients of the others.          *)
LEMMA PointLeftOut ==
    ASSUME NEW n \in Nat, NEW q \in Different(n + 1), NEW k \in 1..(n + 1), NEW m \in 1..n,
           NEW i, i = IF m < k THEN m ELSE m + 1
    PROVE  /\ Without(n, k, q) \in Different(n)
           /\ Times(Add(q[i], Neg(q[k])), Coefficient(n + 1, q, i))
                 = Times(Neg(q[k]), Coefficient(n, Without(n, k, q), m))
<1> DEFINE r == Without(n, k, q)
           At(j) == IF j < k THEN j ELSE j + 1
<1>1. /\ q \in [1..(n + 1) -> Scalars]
      /\ \A h, j \in 1..(n + 1) : q[h] = q[j] => h = j
  BY DEF Different
<1>2. \A j \in 1..n : r[j] = q[At(j)] /\ At(j) \in 1..(n + 1) /\ At(j) # k
  BY DEF Without
<1>3. \A h, j \in 1..n : At(h) = At(j) => h = j
  OBVIOUS
<1>4. At(m) = i /\ i \in 1..(n + 1) /\ i # k
  OBVIOUS
<1>5. r = [j \in 1..n |-> q[At(j)]]
  BY DEF Without
<1> HIDE DEF At, r
<1>6. r \in Different(n)
  <2>1. r \in [1..n -> Scalars]
    BY <1>1, <1>2, <1>5
  <2>2. \A h, j \in 1..n : r[h] = r[j] => h = j
    BY <1>1, <1>2, <1>3
  <2> QED
    BY <2>1, <2>2 DEF Different
<1> DEFINE A == ProductOf(Numerators(n, r, m))
           B == ProductOf(Denominators(n, r, m))
           D == Add(q[k], Neg(q[i]))
<1>7. /\ q[k] \in Scalars /\ q[i] \in Scalars /\ r[m] = q[i]
      /\ A \in Scalars /\ B \in Scalars /\ B # 0
      /\ D \in Scalars /\ D # 0
  <2>1. q[k] \in Scalars /\ q[i] \in Scalars /\ r[m] = q[i] /\ q[k] # q[i]
    BY <1>1, <1>2, <1>4
  <2> QED
    BY <1>6, <2>1, CoefficientIs, DifferenceIs
<1>8. ProductOf(Numerators(n + 1, q, i)) = Times(A, q[k])
  <2> DEFINE N == Numerators(n + 1, q, i)
  <2>1. N \in [1..(n + 1) -> Scalars]
    BY <1>4, CoefficientIs
  <2>2. Total("product", N) = Joined("product", Total("product", Without(n, k, N)), N[k])
    BY <2>1, TakenOut DEF Kinds
  <2>3. N[k] = q[k]
    BY <1>4 DEF Numerators
  <2>4. Without(n, k, N) = Numerators(n, r, m)
    <3>1. Without(n, k, N) = [j \in 1..n |-> N[At(j)]]
      BY DEF Without, At
    <3>2. \A j \in 1..n : N[At(j)] = IF At(j) = i THEN 1 ELSE q[At(j)]
      BY <1>2 DEF Numerators
    <3>3. \A j \in 1..n : At(j) = i <=> j = m
      BY <1>3, <1>4
    <3>4. \A j \in 1..n : N[At(j)] = IF j = m THEN 1 ELSE r[j]
      BY <1>2, <3>2, <3>3
    <3> HIDE DEF N
    <3> QED
      BY <3>1, <3>4 DEF Numerators
  <2> HIDE DEF N
  <2> QED
    BY <2>2, <2>3, <2>4 DEF Total, Joined, N
<1>9. ProductOf(Denominators(n + 1, q, i)) = Times(B, D)
  <2> DEFINE N == Denominators(n + 1, q, i)
  <2>1. N \in [1..(n + 1) -> Scalars]
    BY <1>4, CoefficientIs
  <2>2. Total("product", N) = Joined("product", Total("product", Without(n, k, N)), N[k])
    BY <2>1, TakenOut DEF Kinds
  <2>3. N[k] = D
    BY <1>4 DEF Denominators
  <2>4. Without(n, k, N) = Denominators(n, r, m)
    <3>1. Without(n, k, N) = [j \in 1..n |-> N[At(j)]]
      BY DEF Without, At
    <3>2. \A j \in 1..n : N[At(j)] = IF At(j) = i THEN 1 ELSE Add(q[At(j)], Neg(q[i]))
      BY <1>2 DEF Denominators
    <3>3. \A j \in 1..n : At(j) = i <=> j = m
      BY <1>3, <1>4
    <3>4. \A j \in 1..n : N[At(j)] = IF j = m THEN 1 ELSE Add(r[j], Neg(r[m]))
      BY <1>2, <1>7, <3>2, <3>3
    <3> HIDE DEF N
    <3> QED
      BY <3>1, <3>4 DEF Denominators
  <2> HIDE DEF N
  <2> QED
    BY <2>2, <2>3, <2>4 DEF Total, Joined, N
<1> DEFINE I == Invert(Times(B, D))
<1>10. Coefficient(n + 1, q, i) = Times(Times(A, q[k]), I)
  BY <1>8, <1>9 DEF Coefficient
<1>11. Coefficient(n, r, m) = Times(A, Invert(B))
  BY DEF Coefficient
<1>12. Add(q[i], Neg(q[k])) = Neg(D)
  BY <1>7, DifferenceIs
<1> HIDE DEF A, B, D
<1>13. /\ Times(B, D) \in Scalars /\ Times(B, D) # 0
       /\ I \in Scalars /\ Invert(B) \in Scalars /\ Times(D, I) = Invert(B)
       /\ Times(A, q[k]) \in Scalars /\ Times(q[k], A) = Times(A, q[k])
       /\ Neg(1) \in Scalars /\ Neg(D) = Times(Neg(1), D) /\ Neg(q[k]) = Times(Neg(1), q[k])
  BY <1>7, Closed, NoZeroDivisors, InvertIs, InvertOfProduct, Commutes, Cancels
<1> HIDE DEF I
<1>14. Times(Neg(D), Times(Times(A, q[k]), I))
          = Times(Neg(1), Times(Times(A, q[k]), Invert(B)))
  <2>1. Times(Times(Neg(1), D), Times(Times(A, q[k]), I))
           = Times(Times(Neg(1), Times(A, q[k])), Times(D, I))
    BY <1>7, <1>13, FourFactors
  <2> QED
    BY <1>13, <2>1, TimesAssociates
<1>15. Times(Neg(q[k]), Times(A, Invert(B)))
          = Times(Neg(1), Times(Times(A, q[k]), Invert(B)))
  <2>1. Times(Times(Neg(1), q[k]), Times(A, Invert(B)))
           = Times(Times(Neg(1), A), Times(q[k], Invert(B)))
    BY <1>7, <1>13, FourFactors
  <2>2. Times(Times(Neg(1), A), Times(q[k], Invert(B)))
           = Times(Neg(1), Times(A, Times(q[k], Invert(B))))
    <3>1. Times(q[k], Invert(B)) \in Scalars
      BY <1>7, <1>13, Closed
    <3> QED
      BY <1>7, <1>13, <3>1, TimesAssociates
  <2>3. Times(A, Times(q[k], Invert(B))) = Times(Times(A, q[k]), Invert(B))
    BY <1>7, <1>13, TimesAssociates
  <2> QED
    BY <1>13, <2>1, <2>2, <2>3
<1> QED
  BY <1>6, <1>10, <1>11, <1>12, <1>14, <1>15 DEF r

(* What is interpolated is a scalar.                                       *)
LEMMA InterpolatedIs ==
    ASSUME NEW n \in Nat, NEW q \in Different(n), NEW z \in [1..n -> Scalars]
    PROVE  /\ [i \in 1..n |-> Times(z[i], Coefficient(n, q, i))] \in [1..n -> Scalars]
           /\ Interpolated(n, q, z) \in Scalars
<1>1. [i \in 1..n |-> Times(z[i], Coefficient(n, q, i))] \in [1..n -> Scalars]
  BY CoefficientIs, Closed
<1>2. Total("sum", [i \in 1..n |-> Times(z[i], Coefficient(n, q, i))]) \in Scalars
  BY <1>1, TotalIs DEF Kinds
<1> QED
  BY <1>1, <1>2 DEF Interpolated, Total

(* Values multiplied by their points, interpolated by way of any point.    *)
LEMMA MultipliedByPoints ==
    ASSUME NEW n \in Nat, NEW q \in Different(n + 1), NEW z \in [1..(n + 1) -> Scalars],
           NEW k \in 1..(n + 1)
    PROVE  Interpolated(n + 1, q, [i \in 1..(n + 1) |-> Times(z[i], q[i])])
              = Add(Times(q[k], Interpolated(n + 1, q, z)),
                    Times(Neg(q[k]), Interpolated(n, Without(n, k, q), Without(n, k, z))))
<1> DEFINE N == n + 1
           c(i) == Coefficient(N, q, i)
           t == [i \in 1..N |-> Times(z[i], c(i))]
           delta(i) == Add(q[i], Neg(q[k]))
           d == [i \in 1..N |-> Times(delta(i), t[i])]
           r == Without(n, k, q)
           y == Without(n, k, z)
           s == [m \in 1..n |-> Times(y[m], Coefficient(n, r, m))]
<1>1. N \in Nat /\ k \in 1..N /\ \A i \in 1..N : q[i] \in Scalars /\ z[i] \in Scalars
  BY DEF Different
<1>2. /\ t \in [1..N -> Scalars] /\ \A i \in 1..N : c(i) \in Scalars
      /\ SumOf(t) = Interpolated(N, q, z) /\ SumOf(t) \in Scalars
  <2>0. q \in Different(N) /\ z \in [1..N -> Scalars]
    OBVIOUS
  <2>1. \A i \in 1..N : c(i) \in Scalars
    <3> HIDE DEF N
    <3> QED
      BY <1>1, <2>0, CoefficientIs
  <2>2. Interpolated(N, q, z) \in Scalars
    <3> HIDE DEF N, c, t, delta, d, r, y, s
    <3> QED
      BY <1>1, <2>0, InterpolatedIs
  <2>3. SumOf(t) = Interpolated(N, q, z)
    BY DEF Interpolated
  <2>4. t \in [1..N -> Scalars]
    <3> HIDE DEF N, c
    <3> QED
      BY <1>1, <2>1, Closed
  <2> HIDE DEF N, c, t
  <2> QED
    BY <2>1, <2>2, <2>3, <2>4
<1>3. \A i \in 1..N : delta(i) \in Scalars /\ Add(q[k], delta(i)) = q[i]
  BY <1>1, DifferenceIs
<1>4. \A i \in 1..N : Times(Times(z[i], q[i]), c(i)) = Add(Times(q[k], t[i]), d[i])
  <2> TAKE i \in 1..N
  <2> HIDE DEF c, delta
  <2>1. q[i] \in Scalars /\ z[i] \in Scalars /\ c(i) \in Scalars /\ t[i] \in Scalars
        /\ t[i] = Times(z[i], c(i)) /\ d[i] = Times(delta(i), t[i])
    BY <1>1, <1>2
  <2> HIDE DEF t, d
  <2>2. Times(Times(z[i], q[i]), c(i)) = Times(q[i], t[i])
    BY <2>1, TimesAssociates, Commutes
  <2>3. Times(Add(q[k], delta(i)), t[i]) = Add(Times(q[k], t[i]), Times(delta(i), t[i]))
    BY <1>1, <1>3, <2>1, Distributes
  <2> QED
    BY <1>3, <2>1, <2>2, <2>3
<1>5. d \in [1..N -> Scalars]
  BY <1>2, <1>3, Closed
<1>6. Interpolated(N, q, [i \in 1..N |-> Times(z[i], q[i])])
         = Add(Times(q[k], SumOf(t)), SumOf(d))
  <2> DEFINE e == [i \in 1..N |-> Times(q[k], t[i])]
             w == [i \in 1..N |-> Add(e[i], d[i])]
  <2>1. e \in [1..N -> Scalars]
    BY <1>1, <1>2, Closed
  <2>2. SumOf(e) = Times(q[k], SumOf(t))
    BY <1>1, <1>2, SumOfMultiples
  <2>3. SumOf(w) = Add(SumOf(e), SumOf(d))
    <3> HIDE DEF e, d
    <3> QED
      BY <1>1, <1>5, <2>1, SumOfSums
  <2>4. \A i \in 1..N : Times([j \in 1..N |-> Times(z[j], q[j])][i], c(i)) = w[i]
    BY <1>4
  <2>5. Interpolated(N, q, [i \in 1..N |-> Times(z[i], q[i])])
           = SumOf([i \in 1..N |-> Times([j \in 1..N |-> Times(z[j], q[j])][i], c(i))])
    BY DEF Interpolated
  <2>6. w = [i \in 1..N |-> w[i]]
    OBVIOUS
  <2> HIDE DEF w, c, t, d
  <2>7. [i \in 1..N |-> Times([j \in 1..N |-> Times(z[j], q[j])][i], c(i))] = w
    BY <2>4, <2>6
  <2> QED
    BY <2>2, <2>3, <2>5, <2>7
<1>7. \A m \in 1..n : /\ r \in Different(n)
                      /\ y[m] \in Scalars /\ Coefficient(n, r, m) \in Scalars
                      /\ Without(n, k, d)[m] = Times(Neg(q[k]), s[m])
  <2> TAKE m \in 1..n
  <2> DEFINE i == IF m < k THEN m ELSE m + 1
  <2>1. i \in 1..N /\ y[m] = z[i] /\ Without(n, k, d)[m] = d[i]
    BY DEF Without
  <2>2. /\ r \in Different(n)
        /\ Times(delta(i), c(i)) = Times(Neg(q[k]), Coefficient(n, r, m))
    BY PointLeftOut
  <2>3. d[i] = Times(delta(i), Times(z[i], c(i))) /\ s[m] = Times(z[i], Coefficient(n, r, m))
    BY <2>1
  <2>4. /\ z[i] \in Scalars /\ c(i) \in Scalars /\ delta(i) \in Scalars
        /\ Coefficient(n, r, m) \in Scalars /\ Neg(q[k]) \in Scalars
    BY <1>1, <1>2, <1>3, <2>1, <2>2, CoefficientIs, Closed
  <2> HIDE DEF c, delta, d, s, r, y, i
  <2>5. Times(delta(i), Times(z[i], c(i))) = Times(z[i], Times(delta(i), c(i)))
    BY <2>4, TimesAssociates, Commutes
  <2>6. Times(z[i], Times(Neg(q[k]), Coefficient(n, r, m)))
           = Times(Neg(q[k]), Times(z[i], Coefficient(n, r, m)))
    BY <2>4, TimesAssociates, Commutes
  <2> QED
    BY <2>1, <2>2, <2>3, <2>4, <2>5, <2>6
<1>8. SumOf(d) = Times(Neg(q[k]), SumOf(s))
  <2>1. d[k] = 0
    <3>1. delta(k) = 0 /\ t[k] \in Scalars /\ d[k] = Times(delta(k), t[k])
      BY <1>1, <1>2, Neutral
    <3> HIDE DEF d, t, delta
    <3> QED
      BY <3>1, Neutral
  <2>2. s \in [1..n -> Scalars]
    BY <1>7, Closed
  <2>3. Without(n, k, d) = [m \in 1..n |-> Times(Neg(q[k]), s[m])]
    <3>1. Without(n, k, d) = [m \in 1..n |-> Without(n, k, d)[m]]
      BY DEF Without
    <3> HIDE DEF d, s
    <3> QED
      BY <1>7, <3>1
  <2>4. Neg(q[k]) \in Scalars
    BY <1>1, Closed
  <2>5. SumOf(Without(n, k, d)) = Times(Neg(q[k]), SumOf(s))
    <3> HIDE DEF d, s
    <3> QED
      BY <2>2, <2>3, <2>4, SumOfMultiples
  <2>6. SumOf(s) \in Scalars
    <3>1. Total("sum", s) \in Scalars
      <4> HIDE DEF s
      <4> QED
        BY <2>2, TotalIs DEF Kinds
    <3> QED
      BY <3>1 DEF Total
  <2> HIDE DEF d, s
  <2>7. Total("sum", d) = Joined("sum", Total("sum", Without(n, k, d)), d[k])
    BY <1>5, TakenOut DEF Kinds
  <2>8. SumOf(d) = Add(SumOf(Without(n, k, d)), 0)
    BY <2>1, <2>7 DEF Total, Joined
  <2> QED
    BY <2>4, <2>5, <2>6, <2>8, Neutral, Closed
<1>9. SumOf(s) = Interpolated(n, r, y)
  BY DEF Interpolated
<1> HIDE DEF t, d, s, r, y, c
<1> QED
  BY <1>2, <1>6, <1>8, <1>9 DEF r, y

(* The powers of the points, and what they are interpolated to: the power  *)
(* of 0.                                                                   *)
PointPowers(n, q, k) == [i \in 1..n |-> NthPower(q[i], k)]
PowerOfZero(k) == IF k = 0 THEN 1 ELSE 0

(* The next powers of the points, from those before.                       *)
LEMMA PointPowersAre ==
    ASSUME NEW n \in Nat, NEW q \in [1..n -> Scalars], NEW k \in Nat
    PROVE  /\ PointPowers(n, q, k) \in [1..n -> Scalars]
           /\ PointPowers(n, q, k + 1) = [i \in 1..n |-> Times(PointPowers(n, q, k)[i], q[i])]
           /\ k = 0 => PointPowers(n, q, k) = [i \in 1..n |-> 1]
<1>1. \A i \in 1..n : /\ NthPower(q[i], k) \in Scalars /\ NthPower(q[i], 0) = 1
                      /\ NthPower(q[i], k + 1) = Times(NthPower(q[i], k), q[i])
  BY NthPowerIs
<1>2. \A i \in 1..n : PointPowers(n, q, k)[i] = NthPower(q[i], k)
  BY DEF PointPowers
<1>3. PointPowers(n, q, k + 1) = [i \in 1..n |-> Times(PointPowers(n, q, k)[i], q[i])]
  BY <1>1, <1>2 DEF PointPowers
<1>4. PointPowers(n, q, k) \in [1..n -> Scalars]
  BY <1>1 DEF PointPowers
<1>5. k = 0 => PointPowers(n, q, k) = [i \in 1..n |-> 1]
  BY <1>1 DEF PointPowers
<1> QED
  BY <1>3, <1>4, <1>5

(* n points interpolate the powers below the n-th at 0.  For one point     *)
(* more, two ways to leave out a point agree on the value for constants,   *)
(* and leaving out any gives the higher powers from the lower.             *)
Interpolates(n) == \A q \in Different(n) : \A k \in 0..(n - 1) :
    Interpolated(n, q, PointPowers(n, q, k)) = PowerOfZero(k)

(* One point interpolates a constant.                                      *)
LEMMA OnePoint == Interpolates(1)
<1> SUFFICES ASSUME NEW q \in Different(1)
             PROVE  Interpolated(1, q, PointPowers(1, q, 0)) = 1
  BY DEF Interpolates, PowerOfZero
<1>1. q \in [1..1 -> Scalars] /\ 1 \in Scalars /\ 1 # 0
  BY OrderIs DEF Different, Scalars
<1>2. PointPowers(1, q, 0) = [i \in 1..1 |-> 1]
  BY <1>1, PointPowersAre
<1> DEFINE ones == [i \in 1..1 |-> 1]
<1>3. Numerators(1, q, 1) = ones /\ Denominators(1, q, 1) = ones
  BY DEF Numerators, Denominators
<1>4. ones = Repeated(1, 1)
  BY DEF Repeated
<1>5. ProductOf(ones) = 1
  <2>1. NthPower(1, 0 + 1) = Times(NthPower(1, 0), 1) /\ NthPower(1, 0) = 1
    BY <1>1, NthPowerIs
  <2>2. 0 + 1 = 1 /\ Times(1, 1) = 1
    BY <1>1, Neutral
  <2>3. NthPower(1, 1) = 1
    BY <2>1, <2>2
  <2> HIDE DEF ones
  <2> QED
    BY <1>4, <2>3 DEF NthPower, Total
<1>6. Coefficient(1, q, 1) = 1
  <2> HIDE DEF ones
  <2> QED
    BY <1>1, <1>3, <1>5, InvertOfOne, Neutral DEF Coefficient
<1>7. Interpolated(1, q, ones) = SumOf(ones)
  <2>1. \A i \in 1..1 : Times(ones[i], Coefficient(1, q, i)) = 1
    BY <1>1, <1>6, Neutral
  <2>2. [i \in 1..1 |-> Times(ones[i], Coefficient(1, q, i))] = [i \in 1..1 |-> 1]
    BY <2>1
  <2> QED
    BY <2>2 DEF Interpolated
<1>8. SumOf(ones) = 1
  <2>1. ones \in [1..(0 + 1) -> Scalars]
    BY <1>1
  <2>2. Total("sum", ones) = Joined("sum", Total("sum", Shorter(0, ones)), ones[0 + 1])
    <3> HIDE DEF ones
    <3> QED
      BY <2>1, TotalOfMore DEF Kinds
  <2>3. Total("sum", Shorter(0, ones)) = 0
    <3>1. DOMAIN Shorter(0, ones) = 1..0
      BY DEF Shorter
    <3> HIDE DEF ones
    <3> QED
      BY <3>1, TotalOfNone DEF Unit, Kinds
  <2>4. ones[0 + 1] = 1
    OBVIOUS
  <2>5. Total("sum", ones) = Add(0, 1)
    <3> HIDE DEF ones
    <3> QED
      BY <2>2, <2>3, <2>4 DEF Joined
  <2>6. Add(0, 1) = 1
    BY <1>1, Neutral
  <2> HIDE DEF ones
  <2> QED
    BY <2>5, <2>6 DEF Total
<1> QED
  BY <1>2, <1>7, <1>8

(* What n points interpolate, n + 1 points do, and one power more.         *)
LEMMA OnePointMore ==
    ASSUME NEW n \in Nat, n # 0, Interpolates(n)
    PROVE  Interpolates(n + 1)
<1> DEFINE N == n + 1
<1> SUFFICES ASSUME NEW q \in Different(N)
             PROVE  \A k \in 0..n : Interpolated(N, q, PointPowers(N, q, k)) = PowerOfZero(k)
  BY DEF Interpolates
<1>1. N \in Nat /\ q \in [1..N -> Scalars] /\ \A i, j \in 1..N : q[i] = q[j] => i = j
  BY DEF Different
<1>2. \A k \in Nat : Interpolated(N, q, PointPowers(N, q, k)) \in Scalars
  BY <1>1, PointPowersAre, InterpolatedIs
(* The points without the j-th interpolate.                                *)
<1>3. ASSUME NEW k \in Nat, k < n, NEW j \in 1..N
      PROVE  Interpolated(n, Without(n, j, q), Without(n, j, PointPowers(N, q, k)))
                = PowerOfZero(k)
  <2>1. Without(n, j, q) \in Different(n)
    <3>1. 1 \in 1..n
      OBVIOUS
    <3> DEFINE i == IF 1 < j THEN 1 ELSE 1 + 1
    <3> QED
      BY <3>1, PointLeftOut
  <2>2. Without(n, j, PointPowers(N, q, k)) = PointPowers(n, Without(n, j, q), k)
    <3>1. \A m \in 1..n : m \in 1..N /\ m + 1 \in 1..N
      OBVIOUS
    <3>2. \A m \in 1..N : PointPowers(N, q, k)[m] = NthPower(q[m], k)
      BY DEF PointPowers
    <3>3. \A m \in 1..n :
             (IF m < j THEN PointPowers(N, q, k)[m] ELSE PointPowers(N, q, k)[m + 1])
                = NthPower(IF m < j THEN q[m] ELSE q[m + 1], k)
      BY <3>1, <3>2
    <3>4. \A m \in 1..n : Without(n, j, q)[m] = IF m < j THEN q[m] ELSE q[m + 1]
      BY DEF Without
    <3> HIDE DEF N
    <3> QED
      BY <3>3, <3>4 DEF Without, PointPowers
  <2>3. k \in 0..(n - 1)
    BY <1>3
  <2> QED
    BY <2>1, <2>2, <2>3 DEF Interpolates
<1>4. ASSUME NEW k \in Nat, k < n, NEW j \in 1..N
      PROVE  Interpolated(N, q, PointPowers(N, q, k + 1))
                = Add(Times(q[j], Interpolated(N, q, PointPowers(N, q, k))),
                      Times(Neg(q[j]), PowerOfZero(k)))
  <2>1. /\ PointPowers(N, q, k) \in [1..N -> Scalars]
        /\ PointPowers(N, q, k + 1) = [i \in 1..N |-> Times(PointPowers(N, q, k)[i], q[i])]
    BY <1>1, PointPowersAre
  <2>2. Interpolated(n, Without(n, j, q), Without(n, j, PointPowers(N, q, k)))
           = PowerOfZero(k)
    BY <1>3, <1>4
  <2> QED
    BY <2>1, <2>2, MultipliedByPoints
(* Constants.                                                              *)
<1>5. Interpolated(N, q, PointPowers(N, q, 0)) = 1
  <2> DEFINE c == Interpolated(N, q, PointPowers(N, q, 0))
             value == Interpolated(N, q, PointPowers(N, q, 0 + 1))
  <2>1. c \in Scalars /\ 1 \in Scalars /\ Neg(1) \in Scalars /\ Add(c, Neg(1)) \in Scalars
    BY <1>2, Closed, OrderIs DEF Scalars
  <2>2. \A j \in 1..N : value = Times(Add(c, Neg(1)), q[j])
    <3> TAKE j \in 1..N
    <3>1. q[j] \in Scalars /\ Neg(q[j]) \in Scalars
      BY <1>1, Closed
    <3>2. value = Add(Times(q[j], c), Times(Neg(q[j]), 1))
      BY <1>4 DEF PowerOfZero
    <3>3. Times(Neg(q[j]), 1) = Times(q[j], Neg(1))
      BY <2>1, <3>1, Neutral, Cancels
    <3> HIDE DEF c, value
    <3> QED
      BY <2>1, <3>1, <3>2, <3>3, Distributes, Commutes
  <2>3. 1 \in 1..N /\ 2 \in 1..N /\ q[1] \in Scalars /\ q[2] \in Scalars /\ q[1] # q[2]
    BY <1>1
  <2>4. Times(Add(c, Neg(1)), q[1]) = Times(Add(c, Neg(1)), q[2])
    BY <2>2, <2>3
  <2> HIDE DEF c
  <2>5. Add(c, Neg(1)) = 0
    BY <2>1, <2>3, <2>4, CommonFactor
  <2>6. c = 1
    BY <2>1, <2>5, DifferenceIs
  <2> QED
    BY <2>6 DEF c
(* Higher powers.                                                          *)
<1> DEFINE Good == {k \in Nat : k <= n =>
                      Interpolated(N, q, PointPowers(N, q, k)) = PowerOfZero(k)}
<1>6. 0 \in Good
  BY <1>5 DEF PowerOfZero
<1>7. ASSUME NEW k \in Nat, k \in Good PROVE k + 1 \in Good
  <2> SUFFICES ASSUME k + 1 <= n
               PROVE  Interpolated(N, q, PointPowers(N, q, k + 1)) = PowerOfZero(k + 1)
    OBVIOUS
  <2>1. k < n /\ Interpolated(N, q, PointPowers(N, q, k)) = PowerOfZero(k) /\ N \in 1..N
    BY <1>7
  <2>2. Interpolated(N, q, PointPowers(N, q, k + 1))
           = Add(Times(q[N], PowerOfZero(k)), Times(Neg(q[N]), PowerOfZero(k)))
    BY <1>4, <2>1
  <2>3. q[N] \in Scalars /\ Neg(q[N]) \in Scalars /\ PowerOfZero(k) \in Scalars
    BY <1>1, <2>1, Closed, OrderIs DEF PowerOfZero, Scalars
  <2>4. Times(Add(q[N], Neg(q[N])), PowerOfZero(k)) = 0
    BY <2>3, Neutral
  <2>5. Add(Times(q[N], PowerOfZero(k)), Times(Neg(q[N]), PowerOfZero(k))) = 0
    BY <2>3, <2>4, Distributes
  <2> QED
    BY <2>2, <2>5 DEF PowerOfZero
<1> HIDE DEF Good
<1>8. \A k \in Nat : k \in Good
  BY <1>6, <1>7, Induction
<1> QED
  BY <1>8 DEF Good

(* Any number of different points interpolates the powers below it.        *)
LEMMA PointsInterpolate ==
    ASSUME NEW n \in Nat, n # 0
    PROVE  Interpolates(n)
<1> DEFINE Good == {m \in Nat : Interpolates(m + 1)}
<1>1. 0 \in Good
  BY OnePoint
<1>2. ASSUME NEW m \in Nat, m \in Good PROVE m + 1 \in Good
  BY <1>2, OnePointMore
<1> HIDE DEF Good
<1>3. \A m \in Nat : m \in Good
  BY <1>1, <1>2, Induction
<1>4. n - 1 \in Nat /\ (n - 1) + 1 = n
  OBVIOUS
<1>5. n - 1 \in Good
  BY <1>3, <1>4
<1> QED
  BY <1>4, <1>5 DEF Good

-------------------------------------------------------------------------------
(* Sums of sums.                                                           *)

(* A table is summed up by rows or by columns.                             *)
LEMMA SumsAreScalars ==
    \A n \in Nat : \A xs \in [1..n -> Scalars] : SumOf(xs) \in Scalars
<1>1. \A n \in Nat : \A xs \in [1..n -> Scalars] : Total("sum", xs) \in Scalars
  BY TotalIs DEF Kinds
<1> QED
  BY <1>1 DEF Total

(* Zeros add up to 0.                                                      *)
LEMMA ZerosAddUp == \A n \in Nat : SumOf([i \in 1..n |-> 0]) = 0
<1> TAKE n \in Nat
<1> DEFINE zeros == [i \in 1..n |-> 0]
<1>1. zeros \in [1..n -> Scalars] /\ 0 \in Scalars
  BY OrderIs DEF Scalars
<1>2. SumOf([i \in 1..n |-> Times(0, zeros[i])]) = Times(0, SumOf(zeros))
  <2> HIDE DEF zeros
  <2> QED
    BY <1>1, SumOfMultiples
<1>3. [i \in 1..n |-> Times(0, zeros[i])] = zeros
  BY <1>1, Neutral
<1>4. SumOf(zeros) \in Scalars
  <2> HIDE DEF zeros
  <2> QED
    BY <1>1, SumsAreScalars
<1> QED
  BY <1>2, <1>3, <1>4, Neutral

Column(n, M, j) == [i \in 1..n |-> M[i][j]]

(* A table adds up to the same by rows and by columns.                     *)
LEMMA RowsAndColumns ==
    ASSUME NEW m \in Nat
    PROVE  \A n \in Nat : \A M \in [1..n -> [1..m -> Scalars]] :
              SumOf([i \in 1..n |-> SumOf(M[i])])
                 = SumOf([j \in 1..m |-> SumOf(Column(n, M, j))])
<1> DEFINE Rows(n, M) == [i \in 1..n |-> SumOf(M[i])]
           Columns(n, M) == [j \in 1..m |-> SumOf(Column(n, M, j))]
           Good(n) == \A M \in [1..n -> [1..m -> Scalars]] :
                         SumOf(Rows(n, M)) = SumOf(Columns(n, M))
           GoodOnes == {n \in Nat : Good(n)}
<1>0. \A xs : Total("sum", xs) = SumOf(xs)
  BY DEF Total
<1>1. Good(0)
  <2> SUFFICES ASSUME NEW M \in [1..0 -> [1..m -> Scalars]]
               PROVE  SumOf(Rows(0, M)) = SumOf(Columns(0, M))
    OBVIOUS
  <2>1. DOMAIN Rows(0, M) = 1..0 /\ \A j : DOMAIN Column(0, M, j) = 1..0
    BY DEF Column
  <2>2. SumOf(Rows(0, M)) = 0 /\ \A j : SumOf(Column(0, M, j)) = 0
    BY <1>0, <2>1, TotalOfNone DEF Unit, Kinds
  <2>3. Columns(0, M) = [j \in 1..m |-> 0]
    BY <2>2
  <2> QED
    BY <2>2, <2>3, ZerosAddUp
<1>2. ASSUME NEW n \in Nat, Good(n) PROVE Good(n + 1)
  <2> SUFFICES ASSUME NEW M \in [1..(n + 1) -> [1..m -> Scalars]]
               PROVE  SumOf(Rows(n + 1, M)) = SumOf(Columns(n + 1, M))
    OBVIOUS
  <2> DEFINE L == [i \in 1..n |-> M[i]]
             last == M[n + 1]
             cols == Columns(n, L)
  <2>1. L \in [1..n -> [1..m -> Scalars]] /\ last \in [1..m -> Scalars]
    OBVIOUS
  <2>2. Rows(n + 1, M) \in [1..(n + 1) -> Scalars]
    BY SumsAreScalars
  <2>3. Shorter(n, Rows(n + 1, M)) = Rows(n, L) /\ Rows(n + 1, M)[n + 1] = SumOf(last)
    BY DEF Shorter
  <2>4. SumOf(Rows(n + 1, M)) = Add(SumOf(Rows(n, L)), SumOf(last))
    <3> HIDE DEF Rows, L, last
    <3> QED
      BY <1>0, <2>2, <2>3, TotalOfMore DEF Joined, Kinds
  <2>5. SumOf(Rows(n, L)) = SumOf(cols)
    BY <1>2, <2>1
  <2>6. \A j \in 1..m : /\ SumOf(Column(n + 1, M, j)) = Add(SumOf(Column(n, L, j)), last[j])
                        /\ SumOf(Column(n, L, j)) \in Scalars
    <3> TAKE j \in 1..m
    <3>1. /\ Column(n + 1, M, j) \in [1..(n + 1) -> Scalars]
          /\ Shorter(n, Column(n + 1, M, j)) = Column(n, L, j)
          /\ Column(n + 1, M, j)[n + 1] = last[j]
          /\ Column(n, L, j) \in [1..n -> Scalars]
      BY DEF Column, Shorter
    <3> HIDE DEF L, last
    <3> QED
      BY <1>0, <3>1, TotalOfMore, SumsAreScalars DEF Joined, Kinds
  <2>7. Columns(n + 1, M) = [j \in 1..m |-> Add(cols[j], last[j])]
    BY <2>6
  <2>8. cols \in [1..m -> Scalars]
    BY <2>6
  <2>9. SumOf(Columns(n + 1, M)) = Add(SumOf(cols), SumOf(last))
    <3> HIDE DEF cols, last
    <3> QED
      BY <2>1, <2>7, <2>8, SumOfSums
  <2> QED
    BY <2>4, <2>5, <2>9
<1> HIDE DEF Good
<1>3. 0 \in GoodOnes /\ \A n \in Nat : n \in GoodOnes => n + 1 \in GoodOnes
  BY <1>1, <1>2
<1>4. \A n \in Nat : n \in GoodOnes
  BY <1>3, Induction
<1> QED
  BY <1>4 DEF Good

(* A list with nothing but its first term.                                 *)
LEMMA FirstTermOnly ==
    ASSUME NEW n \in Nat, NEW xs \in [1..(n + 1) -> Scalars],
           \A i \in 1..(n + 1) : i # 1 => xs[i] = 0
    PROVE  SumOf(xs) = xs[1]
<1>1. 1 \in 1..(n + 1) /\ xs[1] \in Scalars
  OBVIOUS
<1>2. Total("sum", xs) = Joined("sum", Total("sum", Without(n, 1, xs)), xs[1])
  BY <1>1, TakenOut DEF Kinds
<1>3. Without(n, 1, xs) = [i \in 1..n |-> 0]
  <2>1. \A i \in 1..n : ~(i < 1) /\ xs[i + 1] = 0
    OBVIOUS
  <2> QED
    BY <2>1 DEF Without
<1>4. SumOf(Without(n, 1, xs)) = 0
  BY <1>3, ZerosAddUp
<1> QED
  BY <1>1, <1>2, <1>4, Neutral DEF Total, Joined

-------------------------------------------------------------------------------
(* Polynomials.                                                            *)

(* The powers of the code, by their number.                                *)
LEMMA ScalarPowersAreNth ==
    ASSUME NEW x \in Scalars
    PROVE  \A j \in 1..Threshold : ScalarPowers(x)[j] = NthPower(x, j - 1)
<1> DEFINE Good == {j \in Nat : j + 1 <= Threshold => ScalarPowers(x)[j + 1] = NthPower(x, j)}
<1>1. 0 \in Good
  BY ScalarPowersAre, NthPowerIs
<1>2. ASSUME NEW j \in Nat, j \in Good PROVE j + 1 \in Good
  <2> SUFFICES ASSUME (j + 1) + 1 <= Threshold
               PROVE  ScalarPowers(x)[(j + 1) + 1] = NthPower(x, j + 1)
    OBVIOUS
  <2>1. (j + 1) + 1 \in 1..Threshold /\ (j + 1) + 1 # 1 /\ ((j + 1) + 1) - 1 = j + 1
        /\ j + 1 <= Threshold
    BY DealerIs
  <2>2. ScalarPowers(x)[(j + 1) + 1] = Times(ScalarPowers(x)[((j + 1) + 1) - 1], x)
    BY <2>1, ScalarPowersAre
  <2>3. ScalarPowers(x)[j + 1] = NthPower(x, j)
    BY <1>2, <2>1
  <2>4. NthPower(x, j + 1) = Times(NthPower(x, j), x)
    BY NthPowerIs
  <2> QED
    BY <2>1, <2>2, <2>3, <2>4
<1> HIDE DEF Good
<1>3. \A j \in Nat : j \in Good
  BY <1>1, <1>2, Induction
<1>4. \A j \in 1..Threshold : j - 1 \in Nat /\ (j - 1) + 1 = j /\ j <= Threshold
  BY DealerIs
<1>5. \A j \in 1..Threshold : j - 1 \in Good
  BY <1>3, <1>4
<1> QED
  BY <1>4, <1>5 DEF Good

(* The values of a polynomial at Threshold points give its value at 0.     *)
LEMMA PolynomialInterpolates ==
    ASSUME NEW a \in [1..Threshold -> Scalars], NEW q \in Different(Threshold)
    PROVE  /\ \A i \in 1..Threshold : Eval(a, q[i]) \in Scalars
           /\ SumOf([i \in 1..Threshold |->
                        Times(Eval(a, q[i]), Coefficient(Threshold, q, i))]) = a[1]
<1> DEFINE T == Threshold
           c == [i \in 1..T |-> Coefficient(T, q, i)]
           P == [i \in 1..T |-> [j \in 1..T |-> NthPower(q[i], j - 1)]]
           terms == [i \in 1..T |-> [j \in 1..T |-> Times(a[j], P[i][j])]]
           M == [i \in 1..T |-> [j \in 1..T |-> Times(c[i], terms[i][j])]]
<1>1. /\ T \in Nat /\ T # 0 /\ T - 1 \in Nat /\ (T - 1) + 1 = T
      /\ q \in [1..T -> Scalars]
      /\ \A j \in 1..T : j - 1 \in Nat /\ j - 1 \in 0..(T - 1) /\ (j - 1 = 0 <=> j = 1)
  BY DealerIs DEF Different
<1>2. /\ \A i \in 1..T : c[i] \in Scalars /\ c[i] = Coefficient(T, q, i)
      /\ \A i, j \in 1..T : /\ P[i][j] \in Scalars /\ P[i][j] = NthPower(q[i], j - 1)
                            /\ terms[i][j] \in Scalars
                            /\ terms[i][j] = Times(a[j], P[i][j])
  BY <1>1, CoefficientIs, NthPowerIs, Closed
<1>3. \A i \in 1..T : /\ terms[i] \in [1..T -> Scalars]
                      /\ M[i] = [j \in 1..T |-> Times(c[i], terms[i][j])]
                      /\ M[i] \in [1..T -> Scalars]
  BY <1>2, Closed
<1> HIDE DEF T
<1>4. \A i \in 1..T : Eval(a, q[i]) = SumOf(terms[i]) /\ SumOf(terms[i]) \in Scalars
  <2> TAKE i \in 1..T
  <2>1. Eval(a, q[i]) = SumOf([j \in DOMAIN a |-> Times(a[j], ScalarPowers(q[i])[j])])
    BY DEF Eval, TimesEach
  <2>2. DOMAIN a = 1..T
    BY DEF T
  <2>3. \A j \in 1..T : Times(a[j], ScalarPowers(q[i])[j]) = terms[i][j]
    <3>1. q[i] \in Scalars
      BY <1>1
    <3>2. \A j \in 1..T : ScalarPowers(q[i])[j] = NthPower(q[i], j - 1)
      BY <3>1, ScalarPowersAreNth DEF T
    <3> HIDE DEF terms, P
    <3> QED
      BY <1>2, <3>2
  <2>4. terms[i] = [j \in 1..T |-> terms[i][j]]
    OBVIOUS
  <2> HIDE DEF terms, P, M
  <2>5. [j \in 1..T |-> Times(a[j], ScalarPowers(q[i])[j])] = terms[i]
    BY <2>3, <2>4
  <2> QED
    BY <1>1, <1>3, <2>1, <2>2, <2>5, SumsAreScalars
<1>5. \A i \in 1..T : Times(Eval(a, q[i]), Coefficient(T, q, i)) = SumOf(M[i])
  <2> TAKE i \in 1..T
  <2> HIDE DEF terms, P, M, c
  <2>1. SumOf(M[i]) = Times(c[i], SumOf(terms[i]))
    <3>1. /\ T \in Nat /\ c[i] \in Scalars /\ terms[i] \in [1..T -> Scalars]
          /\ M[i] = [j \in 1..T |-> Times(c[i], terms[i][j])]
      BY <1>1, <1>2, <1>3
    <3>2. SumOf([j \in 1..T |-> Times(c[i], terms[i][j])]) = Times(c[i], SumOf(terms[i]))
      BY <3>1, SumOfMultiples
    <3> QED
      BY <3>1, <3>2
  <2> QED
    BY <1>2, <1>4, <2>1, Commutes
<1>6. M \in [1..T -> [1..T -> Scalars]]
  BY <1>3
(* Column j is the j-th coefficient times the interpolated power.          *)
<1>7. \A j \in 1..T : SumOf(Column(T, M, j)) = Times(a[j], PowerOfZero(j - 1))
  <2> TAKE j \in 1..T
  <2> DEFINE powers == PointPowers(T, q, j - 1)
             y == [i \in 1..T |-> Times(powers[i], c[i])]
  <2>1. \A i \in 1..T : powers[i] = P[i][j]
    BY <1>2 DEF PointPowers
  <2>2. y \in [1..T -> Scalars]
    <3>1. \A i \in 1..T : powers[i] \in Scalars /\ c[i] \in Scalars
      BY <1>2, <2>1
    <3> HIDE DEF powers, c
    <3>2. \A i \in 1..T : Times(powers[i], c[i]) \in Scalars
      BY <3>1, Closed
    <3> QED
      BY <3>2
  <2>3. SumOf(y) = PowerOfZero(j - 1)
    <3>1. y = [i \in 1..T |-> Times(powers[i], Coefficient(T, q, i))]
      BY <1>2
    <3>2. Interpolates(T)
      BY <1>1, PointsInterpolate
    <3>3. Interpolated(T, q, powers) = PowerOfZero(j - 1)
      BY <1>1, <3>2 DEF Interpolates, T
    <3> HIDE DEF powers, y
    <3> QED
      BY <3>1, <3>3 DEF Interpolated
  <2>4. a[j] \in Scalars
    BY DEF T
  <2>5. \A i \in 1..T : M[i][j] = Times(a[j], y[i])
    <3> TAKE i \in 1..T
    <3>1. M[i][j] = Times(c[i], Times(a[j], P[i][j])) /\ y[i] = Times(P[i][j], c[i])
      BY <1>2, <2>1
    <3> HIDE DEF M, y, c, P, terms
    <3> QED
      BY <1>2, <2>4, <3>1, TimesAssociates, Commutes
  <2>6. Column(T, M, j) = [i \in 1..T |-> Times(a[j], y[i])]
    <3> HIDE DEF M, y
    <3> QED
      BY <2>5 DEF Column
  <2> HIDE DEF M, y
  <2> QED
    BY <1>1, <2>2, <2>3, <2>4, <2>6, SumOfMultiples
<1>8. [i \in 1..T |-> Times(Eval(a, q[i]), Coefficient(T, q, i))]
         = [i \in 1..T |-> SumOf(M[i])]
  <2> HIDE DEF M
  <2> QED
    BY <1>5
<1> DEFINE columns == [j \in 1..T |-> SumOf(Column(T, M, j))]
<1>9. SumOf([i \in 1..T |-> SumOf(M[i])]) = SumOf(columns)
  <2> HIDE DEF M
  <2> QED
    BY <1>1, <1>6, RowsAndColumns
<1>10. /\ columns \in [1..T -> Scalars] /\ columns[1] = a[1]
       /\ \A j \in 1..T : j # 1 => columns[j] = 0
  <2>1. \A j \in 1..T : a[j] \in Scalars /\ columns[j] = Times(a[j], PowerOfZero(j - 1))
    BY <1>7 DEF T
  <2>2. \A j \in 1..T : columns[j] = IF j = 1 THEN a[j] ELSE 0
    <3> HIDE DEF columns
    <3> QED
      BY <1>1, <2>1, Neutral DEF PowerOfZero
  <2>3. 0 \in Scalars /\ 1 \in 1..T
    BY <1>1, OrderIs DEF Scalars
  <2>4. columns = [j \in 1..T |-> columns[j]]
    OBVIOUS
  <2> HIDE DEF columns
  <2> QED
    BY <2>1, <2>2, <2>3, <2>4
<1>11. SumOf(columns) = a[1]
  <2> HIDE DEF columns
  <2> QED
    BY <1>1, <1>10, FirstTermOnly
<1>12. \A i \in 1..T : Eval(a, q[i]) \in Scalars
  BY <1>4
<1> HIDE DEF M, columns, c
<1> QED
  BY <1>8, <1>9, <1>11, <1>12 DEF T

-------------------------------------------------------------------------------
(* The keys of the trustees.                                               *)

(* lagrange computes the coefficients.                                     *)
LEMMA LagrangeIs ==
    ASSUME NEW q \in Quorums
    PROVE  /\ q \in Different(Threshold)
           /\ \A i \in 1..Threshold : Lagrange(q[i], q) = Coefficient(Threshold, q, i)
<1>1. q \in [1..Threshold -> Positions] /\ \A i, j \in 1..Threshold : q[i] = q[j] => i = j
  BY DEF Quorums
<1>2. Positions \subseteq Scalars
  BY DealerIs, OrderIs DEF Scalars
<1>3. q \in Different(Threshold)
  BY <1>1, <1>2 DEF Different
<1>4. ASSUME NEW i \in 1..Threshold
      PROVE  Lagrange(q[i], q) = Coefficient(Threshold, q, i)
  <2>1. [j \in DOMAIN q |-> IF q[j] = q[i] THEN 1 ELSE q[j]] = Numerators(Threshold, q, i)
    BY <1>1, <1>4 DEF Numerators
  <2>2. [j \in DOMAIN q |-> IF q[j] = q[i] THEN 1 ELSE Add(q[j], Neg(q[i]))]
           = Denominators(Threshold, q, i)
    BY <1>1, <1>4 DEF Denominators
  <2> QED
    BY <2>1, <2>2 DEF Lagrange, Coefficient
<1> QED
  BY <1>3, <1>4

(* What a trustee holds is the sum of the dealers' polynomials at its      *)
(* position.                                                               *)
LEMMA SecretKeyIs ==
    ASSUME KeyInv, KeyGenerated, NEW t \in Positions
    PROVE  recipients[t].sk = SumOf([d \in Positions |-> Eval(DealtBy(d), t)])
<1>1. AllDealt /\ recipients[t] = Computed(t) /\ Computed(t).ok
  BY DEF KeyInv, RecipientsAreRight, KeyGenerated, Holds
<1>2. \A d \in Positions : /\ fault # ShareFault(d, t)
                           /\ \A i \in 1..Threshold : fault # ValueFault(d, i)
  BY <1>1, ComputedIs
<1>3. \A d \in Positions : SentShare(d, t, fault) = Eval(DealtBy(d), t)
  BY <1>1, <1>2, ReceivedAndVerified
<1>4. [d \in Positions |-> SentShare(d, t, fault)] = [d \in Positions |-> Eval(DealtBy(d), t)]
  BY <1>3
<1> QED
  BY <1>1, <1>4, ComputedIs

(* The keys of a quorum interpolate: the table of the quorum's weighted    *)
(* shares is summed up by dealers instead of by trustees.                  *)
LEMMA KeyInvInterpolates == KeyInv => SecretsInterpolate
<1> DEFINE T == Threshold
           P == NumTrustees
<1> SUFFICES ASSUME KeyInv, KeyGenerated, NEW q \in Quorums
             PROVE  SumOf([i \in DOMAIN q |-> Times(recipients[q[i]].sk, Lagrange(q[i], q))])
                       = JointSecret
  BY DEF SecretsInterpolate
<1>1. /\ T \in Nat /\ P \in Nat /\ Positions = 1..P
      /\ q \in Different(T) /\ q \in [1..T -> Positions] /\ DOMAIN q = 1..T
  BY DealerIs, LagrangeIs DEF Quorums
<1>2. \A d \in Positions : DealtBy(d) \in [1..T -> Scalars]
  BY PolynomialIs DEF KeyInv
<1> DEFINE c == [i \in 1..T |-> Coefficient(T, q, i)]
           shares == [i \in 1..T |-> [d \in 1..P |-> Eval(DealtBy(d), q[i])]]
           M == [i \in 1..T |-> [d \in 1..P |-> Times(c[i], shares[i][d])]]
           secrets == [d \in 1..P |-> DealtBy(d)[1]]
<1>3. \A i \in 1..T : c[i] \in Scalars /\ c[i] = Coefficient(T, q, i)
  BY <1>1, CoefficientIs
<1>4. \A i \in 1..T : \A d \in 1..P : /\ shares[i][d] \in Scalars
                                      /\ shares[i][d] = Eval(DealtBy(d), q[i])
  BY <1>1, <1>2, PolynomialInterpolates
<1>5. \A i \in 1..T : /\ shares[i] \in [1..P -> Scalars]
                      /\ M[i] = [d \in 1..P |-> Times(c[i], shares[i][d])]
                      /\ M[i] \in [1..P -> Scalars]
  BY <1>3, <1>4, Closed
<1> HIDE DEF T, P
<1>6. \A i \in 1..T : Times(recipients[q[i]].sk, Lagrange(q[i], q)) = SumOf(M[i])
  <2> TAKE i \in 1..T
  <2>1. q[i] \in Positions
    BY <1>1
  <2>2. recipients[q[i]].sk = SumOf(shares[i])
    <3>1. recipients[q[i]].sk = SumOf([d \in Positions |-> Eval(DealtBy(d), q[i])])
      BY <2>1, SecretKeyIs
    <3> QED
      BY <1>1, <3>1
  <2>3. Lagrange(q[i], q) = c[i]
    BY LagrangeIs DEF T
  <2> HIDE DEF shares, M, c
  <2>4. /\ c[i] \in Scalars /\ shares[i] \in [1..P -> Scalars]
        /\ M[i] = [d \in 1..P |-> Times(c[i], shares[i][d])]
    BY <1>3, <1>5
  <2>5. SumOf([d \in 1..P |-> Times(c[i], shares[i][d])]) = Times(c[i], SumOf(shares[i]))
    BY <1>1, <2>4, SumOfMultiples
  <2>6. SumOf(shares[i]) \in Scalars
    BY <1>1, <2>4, SumsAreScalars
  <2> QED
    BY <2>2, <2>3, <2>4, <2>5, <2>6, Commutes
<1>7. [i \in DOMAIN q |-> Times(recipients[q[i]].sk, Lagrange(q[i], q))]
         = [i \in 1..T |-> SumOf(M[i])]
  <2> HIDE DEF M
  <2> QED
    BY <1>1, <1>6
<1>8. \A d \in 1..P : SumOf(Column(T, M, d)) = secrets[d]
  <2> TAKE d \in 1..P
  <2>1. d \in Positions /\ DealtBy(d) \in [1..T -> Scalars]
    BY <1>1, <1>2
  <2>2. \A i \in 1..T : M[i][d] = Times(Eval(DealtBy(d), q[i]), Coefficient(T, q, i))
    <3> TAKE i \in 1..T
    <3>1. M[i][d] = Times(c[i], shares[i][d])
      OBVIOUS
    <3> HIDE DEF M, c, shares
    <3> QED
      BY <1>3, <1>4, <3>1, Commutes
  <2>3. Column(T, M, d)
           = [i \in 1..T |-> Times(Eval(DealtBy(d), q[i]), Coefficient(T, q, i))]
    <3> HIDE DEF M
    <3> QED
      BY <2>2 DEF Column
  <2>4. secrets[d] = DealtBy(d)[1]
    OBVIOUS
  <2> HIDE DEF M, secrets
  <2> QED
    BY <1>1, <2>1, <2>3, <2>4, PolynomialInterpolates DEF T
<1>9. M \in [1..T -> [1..P -> Scalars]]
  BY <1>5
<1>10. SumOf([i \in 1..T |-> SumOf(M[i])]) = SumOf([d \in 1..P |-> SumOf(Column(T, M, d))])
  <2> HIDE DEF M
  <2> QED
    BY <1>1, <1>9, RowsAndColumns
<1>11. [d \in 1..P |-> SumOf(Column(T, M, d))] = secrets
  <2>1. secrets = [d \in 1..P |-> secrets[d]]
    OBVIOUS
  <2> HIDE DEF M, secrets
  <2> QED
    BY <1>8, <2>1
<1>12. JointSecret = SumOf(secrets)
  BY <1>1 DEF JointSecret
<1> HIDE DEF M, secrets
<1> QED
  BY <1>7, <1>10, <1>11, <1>12

-------------------------------------------------------------------------------
(* The theorem.                                                            *)

(* Any Threshold trustees, in any order, hold the secret of the joint key  *)
(* together: their keys, weighted as combine weights their decryption      *)
(* factors, add up to it (get_shares, from_shares, lagrange).              *)
THEOREM QuorumsHoldTheSecret == Spec => []SecretsInterpolate
  BY KeyInvHolds, KeyInvInterpolates, PTL
===============================================================================
