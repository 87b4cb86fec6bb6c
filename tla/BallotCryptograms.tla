-------------------------- MODULE BallotCryptograms ---------------------------
(***************************************************************************)
(* ElGamal and Naor-Yung encryption (cryptography/src/cryptosystem) and    *)
(* what the protocol encrypts with them: ballots, for the trustees;        *)
(* randomizers, for a ballot check application (protocol/src/              *)
(* cryptography.rs); key shares, for a trustee (trustee_cryptography.rs).  *)
(* Ballots, elections, pseudonyms and applications are small numbers.      *)
(***************************************************************************)
EXTENDS SigmaProofs

CONSTANTS
    Ballots,             \* the ballots a voter may cast
    BallotWidth          \* BALLOT_CIPHERTEXT_WIDTH

(* A ballot is a number below the order, so that no two have one encoding. *)
ASSUME BallotAssumption == Ballots \subseteq Scalars /\ BallotWidth \in Nat \ {0}

-------------------------------------------------------------------------------
(* elgamal.rs, naoryung.rs                                                 *)

EGEncrypt(y, message, r) ==
    [u |-> ReplExp(generator, r), v |-> MulEach(message, ReplExp(y, r))]

EGDecrypt(sk, c) == MulEach(c.v, DistExp(c.u, Neg(sk)))

(* No message if r is not the randomness of the ciphertext.                *)
EGDecryptWithR(y, c, r) ==
    {m \in {MulEach(c.v, InvEach(ReplExp(y, r)))} : ReplExp(generator, r) = c.u}

ReEncrypt(y, c, r) ==
    [u |-> MulEach(c.u, ReplExp(generator, r)), v |-> MulEach(c.v, ReplExp(y, r))]

(* The key z of the second component is a hash.                            *)
Augment(y, context) == [pk_b |-> y, pk_a |-> HashToElement(context)]

NYEncryptWithR(pk, message, r, context, a_prime) ==
    LET c == [u_b |-> ReplExp(generator, r),
              v_b |-> MulEach(message, ReplExp(pk.pk_b, r)),
              u_a |-> ReplExp(pk.pk_a, r)]
    IN  [u_b |-> c.u_b, v_b |-> c.v_b, u_a |-> c.u_a,
         proof |-> PlEqProve(pk.pk_b, pk.pk_a, c, r, context, a_prime)]

(* The ElGamal ciphertext, if the proof verifies.                          *)
Strip(pk, c, context) ==
    {eg \in {[u |-> c.u_b, v |-> c.v_b]} : PlEqVerify(pk.pk_b, pk.pk_a, c, context)}

NYDecrypt(pk, sk, c, context) == {EGDecrypt(sk, eg) : eg \in Strip(pk, c, context)}

-------------------------------------------------------------------------------
(* protocol/src/cryptography.rs.  A result is the set of at most one value *)
(* that is Ok.                                                             *)

EncodeBallot(ballot) == [i \in 1..BallotWidth |-> HashToElement(<<4, ballot, i>>)]
DecodeBallot(elements) == {b \in Ballots : EncodeBallot(b) = elements}

BallotContext(election_hash, pseudonym) == <<5, election_hash, pseudonym>>
ShuffleContext(election_hash) == <<6, election_hash>>
PkContext(election_hash) == <<7, election_hash>>

(* Mutant of BallotCheckContext: of the election alone.                    *)
BallotCheckContextOfElection(election_hash, bca) == <<8, election_hash>>

BallotCheckContext(election_hash, bca) == <<8, election_hash, bca>>

(* The cryptogram of the ballot and the randomizers it was made with.      *)
EncryptBallot(ballot, pk, election_hash, pseudonym, place) ==
    LET r == RandomScalars(BallotWidth, Append(place, 0))
    IN  [randomizers |-> r,
         ciphertext |-> NYEncryptWithR(pk, EncodeBallot(ballot), r,
                            BallotContext(election_hash, pseudonym),
                            RandomScalars(BallotWidth, Append(place, 1)))]

VerifyCiphertextProof(c, pk, election_hash, pseudonym) ==
    Strip(pk, c, BallotContext(election_hash, pseudonym)) # {}

DecryptBallot(c, randomizers, pk, election_hash, pseudonym) ==
    UNION {DecodeBallot(m) : m \in
        UNION {EGDecryptWithR(pk.pk_b, eg, randomizers) : eg \in
            Strip(pk, c, BallotContext(election_hash, pseudonym))}}

(* Two elements for every randomizer, under the key of the application.    *)
EncryptRandomizers(randomizers, bca_pk, context, place) ==
    LET elements == FlattenSeq([i \in DOMAIN randomizers |-> EncodeScalar(randomizers[i])])
        width == Len(elements)
    IN  NYEncryptWithR(bca_pk, elements, RandomScalars(width, Append(place, 0)), context,
                       RandomScalars(width, Append(place, 1)))

DecryptRandomizers(c, bca_pk, bca_sk, context) ==
    LET decoded(elements) ==
            [i \in 1..(Len(elements) \div 2) |->
                DecodeScalar(<<elements[2 * i - 1], elements[2 * i]>>)]
    IN  {[i \in DOMAIN d |-> CHOOSE s \in d[i] : TRUE] :
            d \in {d \in {decoded(m) : m \in NYDecrypt(bca_pk, bca_sk, c, context)} :
                       \A i \in DOMAIN d : d[i] # {}}}

-------------------------------------------------------------------------------
(* trustee_cryptography.rs                                                 *)

EncryptShare(share, trustee_pk, place) ==
    EGEncrypt(trustee_pk, EncodeScalar(share), RandomScalars(2, place))

DecryptShare(c, trustee_sk) == DecodeScalar(EGDecrypt(trustee_sk, c))
===============================================================================
