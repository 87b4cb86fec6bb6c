----------------------------- MODULE SigmaProofs ------------------------------
(***************************************************************************)
(* The proofs of cryptography/src/zkp whose challenge is a hash of what is *)
(* proved: equality of discrete logarithms (dlogeq.rs), which comes with   *)
(* every partial decryption, and equality of plaintexts (pleq.rs), which   *)
(* makes a Naor-Yung ciphertext.  Contexts are sequences of numbers.       *)
(***************************************************************************)
EXTENDS PrimeGroup

(* Mutant of DlogEqChallenge: any context will do.                         *)
DlogEqChallengeOfAnyContext(g0, g1, y0, y1, A0, A1, context) ==
    HashToScalar(<<g0>> \o g1 \o <<y0>> \o y1 \o <<A0>> \o A1)

(* Values y0 and y1 over bases g0 and g1, of which the second are arrays.  *)
DlogEqChallenge(g0, g1, y0, y1, A0, A1, context) ==
    HashToScalar(<<g0>> \o g1 \o <<y0>> \o y1 \o <<A0>> \o A1 \o context)

DlogEqProve(x, g0, y0, g1, y1, context, a) ==
    LET A0 == Exp(g0, a)
        A1 == DistExp(g1, a)
        v == DlogEqChallenge(g0, g1, y0, y1, A0, A1, context)
    IN  [big_a_0 |-> A0, big_a_1 |-> A1, k |-> Add(a, Times(v, x))]

DlogEqVerify(proof, g0, y0, g1, y1, context) ==
    LET v == DlogEqChallenge(g0, g1, y0, y1, proof.big_a_0, proof.big_a_1, context)
    IN  /\ Mul(Exp(y0, v), proof.big_a_0) = Exp(g0, proof.k)
        /\ MulEach(DistExp(y1, v), proof.big_a_1) = DistExp(g1, proof.k)

(* Mutant of PlEqChallenge: any context will do.                           *)
PlEqChallengeOfAnyContext(y, z, c, A, context) ==
    HashToScalar(<<generator, y, z>> \o c.u_b \o c.v_b \o c.u_a \o A[1] \o A[2])

(* (u_b, v_b) under the key y and (u_a, v_b) under z hold the same         *)
(* plaintext: u_b and u_a are powers of g and z to the same scalars.       *)
PlEqChallenge(y, z, c, A, context) ==
    HashToScalar(<<generator, y, z>> \o c.u_b \o c.v_b \o c.u_a \o A[1] \o A[2] \o context)

PlEqProve(y, z, c, r, context, a_prime) ==
    LET a == TimesEach(a_prime, r)
        A == <<ReplExp(generator, a), ReplExp(z, a)>>
        v == PlEqChallenge(y, z, c, A, context)
    IN  [big_a |-> A, k |-> AddEach(TimesAll(v, r), a)]

PlEqVerify(y, z, c, context) ==
    LET A == c.proof.big_a
        v == PlEqChallenge(y, z, c, A, context)
    IN  /\ MulEach(DistExp(c.u_b, v), A[1]) = ReplExp(generator, c.proof.k)
        /\ MulEach(DistExp(c.u_a, v), A[2]) = ReplExp(z, c.proof.k)
===============================================================================
