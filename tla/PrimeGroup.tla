------------------------------ MODULE PrimeGroup ------------------------------
(***************************************************************************)
(* A cyclic group of prime order, its scalars, and the random oracle       *)
(* (cryptography/src/traits/groups.rs, as groups/ristretto255 implements   *)
(* it).  An element is represented by its logarithm to the generator, so   *)
(* that a product of elements is a sum here and a power is a product; what *)
(* cannot be computed from elements alone is no concern of this model.     *)
(* Arrays of elements and of scalars are sequences.                        *)
(***************************************************************************)
EXTENDS Integers, Sequences, SequencesExt

CONSTANT Order     \* of the group: a prime, 2 modulo 3

ASSUME OrderAssumption ==
    /\ Order \in Nat
    /\ Order > 256              \* so that an element holds a byte
    /\ Order % 3 = 2
    /\ \A n \in 2..(Order - 1) : Order % n # 0

Scalars == 0..(Order - 1)

Add(s, t) == (s + t) % Order
Neg(s) == (Order - s) % Order
Times(s, t) == (s * t) % Order

(* s to the n-th power                                                     *)
Power(s, n) ==
    LET power[i \in Nat] ==
            IF i = 0 THEN 1
            ELSE LET half == power[i \div 2]
                     square == Times(half, half)
                 IN  IF i % 2 = 0 THEN square ELSE Times(square, s)
    IN  power[n]

(* By Fermat's theorem; the code returns None for 0.                       *)
Invert(s) == Power(s, Order - 2)

SumOf(scalars) == FoldLeft(Add, 0, scalars)
ProductOf(scalars) == FoldLeft(Times, 1, scalars)
TimesAll(s, scalars) == [i \in DOMAIN scalars |-> Times(s, scalars[i])]
AddEach(ss, ts) == [i \in DOMAIN ss |-> Add(ss[i], ts[i])]
TimesEach(ss, ts) == [i \in DOMAIN ss |-> Times(ss[i], ts[i])]

-------------------------------------------------------------------------------
(* Elements.                                                               *)

one == 0
generator == 1
Mul(x, y) == Add(x, y)
Inv(x) == Neg(x)
Exp(x, s) == Times(x, s)

(* Products and inverses of arrays, element by element, and the product of *)
(* all elements of one.                                                    *)
MulEach(xs, ys) == [i \in DOMAIN xs |-> Mul(xs[i], ys[i])]
InvEach(xs) == [i \in DOMAIN xs |-> Inv(xs[i])]
Product(xs) == FoldLeft(Mul, one, xs)

(* dist_exp: all elements to one scalar; repl_exp: one element to each;    *)
(* exp of an array: each element to its own scalar.                        *)
DistExp(xs, s) == [i \in DOMAIN xs |-> Exp(xs[i], s)]
ReplExp(x, ss) == [i \in DOMAIN ss |-> Exp(x, ss[i])]
ExpEach(xs, ss) == [i \in DOMAIN xs |-> Exp(xs[i], ss[i])]

-------------------------------------------------------------------------------
(* The random oracle: a cubic permutation over the numbers of the input.   *)

HashToScalar(input) ==
    FoldLeft(LAMBDA h, n : LET m == (h + n + 4099) % Order
                           IN  Times(Times(m, m), m),
             Len(input), input)
HashToElement(input) == HashToScalar(<<1>> \o input)

(* count generators without known relations                                *)
IndGenerators(count, label) ==
    [i \in 1..count |-> HashToScalar(<<2, i>> \o label)]

(* The random scalars drawn at a place of the program, in one run of it.   *)
RandomScalar(place) == HashToScalar(<<3>> \o place)
RandomScalars(width, place) == [i \in 1..width |-> RandomScalar(Append(place, i))]

(* encode_scalar, decode_scalar: a scalar needs two elements.  Not every   *)
(* pair of elements is the code of a scalar.                               *)
EncodeScalar(s) == <<1 + (s \div 256), 1 + (s % 256)>>
DecodeScalar(xs) ==
    LET parts == {p \in {<<xs[1] - 1, xs[2] - 1>>} :
                     p[1] >= 0 /\ p[2] \in 0..255 /\ p[1] <= (Order - 1) \div 256}
    IN  {s \in {256 * p[1] + p[2] : p \in parts} : s \in Scalars}
===============================================================================
