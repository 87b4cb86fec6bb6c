---------------------------- MODULE DistributedKey ----------------------------
(***************************************************************************)
(* Distributed key generation and threshold decryption                     *)
(* (cryptography/src/dkgd).  A dealer shares a random polynomial among the *)
(* NumTrustees positions 1, 2, ...; a recipient adds up the shares dealt   *)
(* to its position; Threshold recipients decrypt together.                 *)
(***************************************************************************)
EXTENDS SigmaProofs, FiniteSets

CONSTANTS
    NumTrustees,   \* P
    Threshold      \* T

Positions == 1..NumTrustees

(* The powers of a position from 0 to Threshold - 1, as integers.          *)
PositionPowers(position) ==
    LET power[j \in 1..Threshold] == IF j = 1 THEN 1 ELSE power[j - 1] * position
    IN  power

LargestPower == 2147483647  \* 2^31 - 1

(* dealer.rs: CHECK.  The exponents of vk_factor are powers of positions   *)
(* in u32 before they are scalars: the pairs the trustees support stay     *)
(* below 2^31, which the check P < 100 alone does not ensure, and so below *)
(* the order.                                                              *)
ASSUME DealerAssumption ==
    /\ NumTrustees \in 1..99
    /\ Threshold \in 1..NumTrustees
    /\ NumTrustees < Order
    /\ \A position \in Positions :
          /\ PositionPowers(position)[Threshold] <= LargestPower
          /\ PositionPowers(position)[Threshold] < Order

-------------------------------------------------------------------------------
(* dealer.rs                                                               *)

(* The same powers, multiplied up as scalars.                              *)
ScalarPowers(x) ==
    LET power[j \in 1..Threshold] == IF j = 1 THEN 1 ELSE Times(power[j - 1], x)
    IN  power

(* Mutant of Eval: the first coefficient counts like the others.           *)
EvalFromFirst(polynomial, x) == SumOf(TimesEach(polynomial, TimesAll(x, ScalarPowers(x))))

Eval(polynomial, x) == SumOf(TimesEach(polynomial, ScalarPowers(x)))

Polynomial(place) == RandomScalars(Threshold, place)
Shares(polynomial) == [position \in Positions |-> Eval(polynomial, position)]
CheckingValues(polynomial) == ReplExp(generator, polynomial)

-------------------------------------------------------------------------------
(* recipient.rs: keys.                                                     *)

VkFactor(checking_values, position) ==
    Product(ExpEach(checking_values, PositionPowers(position)))

(* The share of every dealer, in the order of its dealings.                *)
VerifyShare(share, checking_values, position) ==
    Exp(generator, share) = VkFactor(checking_values, position)

VerificationKey(position, all_checking_values) ==
    Product([d \in Positions |-> VkFactor(all_checking_values[d], position)])

(* Mutant of JointPublicKey: of the last coefficients.                     *)
JointPublicKeyOfLast(all_checking_values) ==
    Product([d \in Positions |-> all_checking_values[d][Threshold]])

JointPublicKey(all_checking_values) ==
    Product([d \in Positions |-> all_checking_values[d][1]])

(* The recipient, and the joint key, if all shares verify.                 *)
Refused == [ok |-> FALSE]
FromShares(position, shares, all_checking_values) ==
    IF \A d \in Positions : VerifyShare(shares[d], all_checking_values[d], position)
    THEN [ok |-> TRUE,
          joint_pk |-> JointPublicKey(all_checking_values),
          verification_key |-> VerificationKey(position, all_checking_values),
          sk |-> SumOf(shares)]
    ELSE Refused

-------------------------------------------------------------------------------
(* recipient.rs: decryption of ElGamal ciphertexts [u, v].                 *)

DecryptionFactor(recipient, position, ciphertexts, context, place) ==
    [i \in DOMAIN ciphertexts |->
        LET u == ciphertexts[i].u
            value == DistExp(u, recipient.sk)
        IN  [value |-> value,
             source |-> position,
             proof |-> DlogEqProve(recipient.sk, generator, recipient.verification_key,
                                   u, value, context, RandomScalar(Append(place, i)))]]

(* Mutant of Lagrange: the differences are taken the wrong way round.      *)
LagrangeReversed(position, present) ==
    LET numerator == [i \in DOMAIN present |->
                         IF present[i] = position THEN 1 ELSE present[i]]
        denominator == [i \in DOMAIN present |->
                           IF present[i] = position THEN 1
                           ELSE Add(position, Neg(present[i]))]
    IN  Times(ProductOf(numerator), Invert(ProductOf(denominator)))

(* The position itself is passed over, wherever it is among those present. *)
Lagrange(position, present) ==
    LET numerator == [i \in DOMAIN present |->
                         IF present[i] = position THEN 1 ELSE present[i]]
        denominator == [i \in DOMAIN present |->
                           IF present[i] = position THEN 1
                           ELSE Add(present[i], Neg(position))]
    IN  Times(ProductOf(numerator), Invert(ProductOf(denominator)))

(* Mutant of Common: off by one.                                           *)
CommonExclusive(ciphertexts, dfactors, i) ==
    Min({Len(ciphertexts)} \cup {Len(dfactors[k]) : k \in 1..i}) - 1

(* How many ciphertexts the first i lists of factors go with (zip).        *)
Common(ciphertexts, dfactors, i) ==
    Min({Len(ciphertexts)} \cup {Len(dfactors[k]) : k \in 1..i})

(* The i-th of Threshold lists of factors is verified with the i-th key.   *)
(* As many plaintexts come out as the shortest of the lists has factors.   *)
Combine(ciphertexts, dfactors, verification_keys, context) ==
    LET present == [i \in 1..Threshold |-> dfactors[i][1].source]
        lambda == [i \in 1..Threshold |-> Lagrange(present[i], present)]
        count(i) == Common(ciphertexts, dfactors, i)
        divisor(j) ==
            FoldLeft(MulEach, [w \in DOMAIN ciphertexts[j].u |-> one],
                     [i \in 1..Threshold |-> DistExp(dfactors[i][j].value, lambda[i])])
    IN  IF \A i \in 1..Threshold : \A j \in 1..count(i) :
               DlogEqVerify(dfactors[i][j].proof, generator, verification_keys[i],
                            ciphertexts[j].u, dfactors[i][j].value, context)
        THEN [ok |-> TRUE,
              elements |-> [j \in 1..count(Threshold) |->
                                MulEach(ciphertexts[j].v, InvEach(divisor(j)))]]
        ELSE Refused
===============================================================================
