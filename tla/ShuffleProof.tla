----------------------------- MODULE ShuffleProof -----------------------------
(***************************************************************************)
(* The proof that one list of ElGamal ciphertexts is a permutation and     *)
(* re-encryption of another (cryptography/src/zkp/shuffle.rs).  w are the  *)
(* ciphertexts, w_prime the shuffled ones, h the generators, one for each  *)
(* ciphertext, y the key; the names of the commitments and responses are   *)
(* those of the code.                                                      *)
(***************************************************************************)
EXTENDS BallotCryptograms

(* A permutation moves what is at i to permutation[i].                     *)
Apply(permutation, target) ==
    [j \in DOMAIN target |-> target[CHOOSE i \in DOMAIN permutation : permutation[i] = j]]
ApplyInverse(permutation, target) == [j \in DOMAIN target |-> target[permutation[j]]]

CiphertextExp(c, s) == [u |-> DistExp(c.u, s), v |-> DistExp(c.v, s)]
CiphertextMul(c, d) == [u |-> MulEach(c.u, d.u), v |-> MulEach(c.v, d.v)]
CiphertextProduct(cs, exponents) ==
    FoldLeft(CiphertextMul, [u |-> [i \in 1..BallotWidth |-> one],
                             v |-> [i \in 1..BallotWidth |-> one]],
             [i \in DOMAIN cs |-> CiphertextExp(cs[i], exponents[i])])

Serialized(cs) == FlattenSeq([i \in DOMAIN cs |-> cs[i].u \o cs[i].v])

(* apply_permutation: u commits to the permutation, with exponents r; the  *)
(* exponents of the re-encryption are s.                                   *)
ApplyPermutation(h, y, permutation, w, place) ==
    LET n == Len(w)
        r == RandomScalars(n, Append(place, 1))
        s == [i \in 1..n |-> RandomScalars(BallotWidth, place \o <<2, i>>)]
        w_moved == ApplyInverse(permutation, w)
        s_moved == ApplyInverse(permutation, s)
    IN  [r |-> r, s |-> s,
         u |-> MulEach(ReplExp(generator, Apply(permutation, r)), Apply(permutation, h)),
         w_prime |-> [j \in 1..n |-> ReEncrypt(y, w_moved[j], s_moved[j])]]

(* One challenge for every ciphertext.                                     *)
ChallengeE(y, w, w_prime, context) ==
    LET bytes == HashToScalar(<<9, y>> \o Serialized(w) \o Serialized(w_prime) \o context)
    IN  [i \in DOMAIN w |-> HashToScalar(<<10, bytes, i>>)]

ChallengeV(y, t, context) ==
    HashToScalar(<<11, y>> \o t.big_b \o <<t.big_a_prime>> \o t.big_b_prime
                 \o <<t.big_c_prime, t.big_d_prime>>
                 \o Serialized(<<t.big_f_prime>>) \o context)

(* Mutant of Permuted: the challenges follow the permutation.              *)
PermutedForward(permutation, e) == Apply(permutation, e)

(* The challenges in the order of the shuffled ciphertexts.                *)
Permuted(permutation, e) == ApplyInverse(permutation, e)

(* The bridging commitments B_1, ..., B_N, from B_0, the first generator.  *)
Bridges(h, b, e_prime) ==
    LET B[i \in 0..Len(b)] ==
            IF i = 0 THEN h[1]
            ELSE Mul(Exp(generator, b[i]), Exp(B[i - 1], e_prime[i]))
    IN  [i \in 1..Len(b) |-> B[i]]
Previous(h, big_b) == <<h[1]>> \o SubSeq(big_b, 1, Len(big_b) - 1)

(* d_1 = b_1, d_i = b_i + e'_i d_(i-1): the last of them.                  *)
BridgeExponent(b, e_prime) ==
    LET d[i \in 1..Len(b)] ==
            IF i = 1 THEN b[1] ELSE Add(b[i], Times(e_prime[i], d[i - 1]))
    IN  d[Len(b)]

Shuffle(h, y, w, permutation, context, place) ==
    LET n == Len(w)
        data == ApplyPermutation(h, y, permutation, w, place)
        e == ChallengeE(y, w, data.w_prime, context)
        e_prime == Permuted(permutation, e)
        b == RandomScalars(n, Append(place, 3))
        big_b == Bridges(h, b, e_prime)
        alpha == RandomScalar(Append(place, 4))
        beta == RandomScalars(n, Append(place, 5))
        epsilon == RandomScalars(n, Append(place, 6))
        gamma == RandomScalar(Append(place, 7))
        delta == RandomScalar(Append(place, 8))
        phi == RandomScalars(BallotWidth, Append(place, 9))
        t == [big_b |-> big_b,
              big_a_prime |-> Mul(Exp(generator, alpha), Product(ExpEach(h, epsilon))),
              big_b_prime |-> MulEach(ReplExp(generator, beta),
                                      ExpEach(Previous(h, big_b), epsilon)),
              big_c_prime |-> Exp(generator, gamma),
              big_d_prime |-> Exp(generator, delta),
              big_f_prime |-> ReEncrypt(y, CiphertextProduct(data.w_prime, epsilon),
                                        TimesAll(Neg(1), phi)),
              u |-> data.u]
        v == ChallengeV(y, t, context)
        a == SumOf(TimesEach(data.r, e_prime))
        c == SumOf(data.r)
        f == FoldLeft(AddEach, [i \in 1..BallotWidth |-> 0],
                      [i \in 1..n |-> TimesAll(e[i], data.s[i])])
        d == BridgeExponent(b, e_prime)
    IN  [w_prime |-> data.w_prime,
         proof |-> [commitments |-> t,
                    k_a |-> Add(Times(v, a), alpha),
                    k_b |-> AddEach(TimesAll(v, b), beta),
                    k_c |-> Add(Times(v, c), gamma),
                    k_d |-> Add(Times(v, d), delta),
                    k_e |-> AddEach(TimesAll(v, e_prime), epsilon),
                    k_f |-> AddEach(TimesAll(v, f), phi)]]

(* The lists are not empty, and all of one length, and the five equations  *)
(* hold.                                                                   *)
VerifyShuffle(h, y, w, w_prime, proof, context) ==
    LET t == proof.commitments
        e == ChallengeE(y, w, w_prime, context)
        v == ChallengeV(y, t, context)
        big_a == Product(ExpEach(t.u, e))
        big_c == Mul(Product(t.u), Inv(Product(h)))
        big_d == Mul(t.big_b[Len(w)], Inv(Exp(h[1], ProductOf(e))))
        big_f == CiphertextProduct(w, e)
    IN  /\ Len(w) > 0
        /\ \A n \in {Len(w_prime), Len(h), Len(t.big_b), Len(t.big_b_prime), Len(t.u)} :
              n = Len(w)
        /\ Mul(Exp(big_a, v), t.big_a_prime)
              = Mul(Exp(generator, proof.k_a), Product(ExpEach(h, proof.k_e)))
        /\ MulEach(DistExp(t.big_b, v), t.big_b_prime)
              = MulEach(ReplExp(generator, proof.k_b),
                        ExpEach(Previous(h, t.big_b), proof.k_e))
        /\ Mul(Exp(big_c, v), t.big_c_prime) = Exp(generator, proof.k_c)
        /\ Mul(Exp(big_d, v), t.big_d_prime) = Exp(generator, proof.k_d)
        /\ CiphertextMul(CiphertextExp(big_f, v), t.big_f_prime)
              = ReEncrypt(y, CiphertextProduct(w_prime, proof.k_e),
                          TimesAll(Neg(1), proof.k_f))
===============================================================================
