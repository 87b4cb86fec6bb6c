-------------------------- MODULE BallotCryptography --------------------------
(***************************************************************************)
(* The cryptographic life of an election, over the algorithms of the       *)
(* cryptography crate: the trustees share a key, voters encrypt their      *)
(* ballots and have them checked, the trustees mix and decrypt.  Who sends *)
(* what to whom, and when, is the subject of TrusteeProtocol and           *)
(* VotingProtocol; here the data are computed.  In every run at most one   *)
(* datum is not what the algorithm gives: it is altered on its way, or     *)
(* belongs to another voter, election or application.                      *)
(***************************************************************************)
EXTENDS DistributedKey, ShuffleProof

CONSTANTS
    Runs,            \* numbers: the random choices of a run depend on it
    NumVoters,       \* voters, and ballots cast, one each
    Mixings          \* the permutations a mixer may draw

ASSUME RunsAssumption == Runs \subseteq Nat /\ NumVoters \in Nat \ {0}

Voters == 1..NumVoters

(* Permutation::generate shuffles the positions.                           *)
ASSUME MixingsAssumption ==
    Mixings \subseteq {p \in [Voters -> Voters] : \A i, j \in Voters : p[i] = p[j] => i = j}

ELECTION == 1
ANOTHER == 2           \* another election, or another application
BCA == 1

VARIABLES
    run,             \* the run
    fault,           \* what was altered so far, if anything
    dealings,        \* what every dealer posted: KeyShares
    recipients,      \* what every trustee holds after ComputePublicKey
    cast,            \* the ballots in the order cast: Submission, Cast
    checks,          \* for every voter, what the check application displays
    mixes,           \* the mixes: EGCryptograms
    factors,         \* for every trustee: PartialDecryptions
    plaintexts       \* DecryptedBallots

vars == <<run, fault, dealings, recipients, cast, checks, mixes, factors, plaintexts>>

NoFault == [what |-> "None"]
None == << >>

Init ==
    /\ run \in Runs
    /\ fault = NoFault
    /\ dealings = [d \in Positions |-> None]
    /\ recipients = [t \in Positions |-> None]
    /\ cast = << >>
    /\ checks = [v \in Voters |-> None]
    /\ mixes = << >>
    /\ factors = [t \in Positions |-> None]
    /\ plaintexts = None

(* A step may alter its result in one of these ways if none did so before. *)
MayFail(faults) ==
    /\ fault' \in {fault} \cup {f \in faults : fault = NoFault}

(* The fault of this step, as opposed to an earlier one.                   *)
Now(f) == fault' = f /\ fault # f

-------------------------------------------------------------------------------
(* Key generation.                                                         *)

TrusteeSk(t) == RandomScalar(<<run, 1, t>>)
DealtBy(d) == Polynomial(<<run, 2, d>>)

(* action_compute_shares                                                   *)
ComputeShares(d) ==
    LET share(p) == Shares(DealtBy(d))[p]
    IN
    /\ dealings[d] = None
    /\ \A e \in 1..(d - 1) : dealings[e] # None
    /\ MayFail([what : {"Share"}, of : {d}, at : Positions]
               \cup [what : {"CheckingValue"}, of : {d}, at : 1..Threshold])
    /\ dealings' = [dealings EXCEPT ![d] =
          [pairwise_shares |-> [p \in Positions |->
              EncryptShare(IF Now([what |-> "Share", of |-> d, at |-> p])
                           THEN Add(share(p), 1) ELSE share(p),
                           Exp(generator, TrusteeSk(p)), <<run, 3, d, p>>)],
           check_values |-> [i \in 1..Threshold |->
              IF Now([what |-> "CheckingValue", of |-> d, at |-> i])
              THEN Mul(CheckingValues(DealtBy(d))[i], generator)
              ELSE CheckingValues(DealtBy(d))[i]]]]
    /\ UNCHANGED <<run, recipients, cast, checks, mixes, factors, plaintexts>>

CheckValues == [d \in Positions |-> dealings[d].check_values]
Received(t) == [d \in Positions |-> DecryptShare(dealings[d].pairwise_shares[t], TrusteeSk(t))]

(* action_compute_public_key                                               *)
ComputePublicKey(t) ==
    /\ \A d \in Positions : dealings[d] # None
    /\ recipients[t] = None
    /\ \A s \in 1..(t - 1) : recipients[s] # None
    /\ recipients' = [recipients EXCEPT ![t] =
          IF \E d \in Positions : Received(t)[d] = {} THEN Refused
          ELSE FromShares(t, [d \in Positions |-> CHOOSE s \in Received(t)[d] : TRUE],
                          CheckValues)]
    /\ UNCHANGED <<run, fault, dealings, cast, checks, mixes, factors, plaintexts>>

Holds(t) == recipients[t] # None /\ recipients[t].ok
KeyGenerated == \A t \in Positions : Holds(t)
ElectionPk == Augment(recipients[1].joint_pk, PkContext(ELECTION))

-------------------------------------------------------------------------------
(* Voting.                                                                 *)

(* Voter v, the next one, encrypts a ballot.                               *)
CastBallot(v, ballot) ==
    LET e == EncryptBallot(ballot, ElectionPk, ELECTION, v, <<run, 4, v>>)
    IN
    /\ KeyGenerated
    /\ v = Len(cast) + 1
    /\ MayFail([what : {"Ciphertext"}, of : {v}])
    /\ cast' = Append(cast,
          [ballot |-> ballot,
           randomizers |-> e.randomizers,
           ciphertext |-> IF Now([what |-> "Ciphertext", of |-> v])
                          THEN [e.ciphertext EXCEPT !.v_b = DistExp(@, 2)]
                          ELSE e.ciphertext])
    /\ UNCHANGED <<run, dealings, recipients, checks, mixes, factors, plaintexts>>

BcaSk == RandomScalar(<<run, 5>>)
BcaPk == Augment(Exp(generator, BcaSk), <<BCA>>)

(* The voting application sends its randomizers to the check application,  *)
(* which decrypts them and then the ballot.                                *)
CheckBallot(v) ==
    LET of == IF Now([what |-> "Randomizers", of |-> v]) THEN (v % NumVoters) + 1 ELSE v
        for == IF Now([what |-> "CheckContext", of |-> v]) THEN ANOTHER ELSE BCA
        sent == EncryptRandomizers(cast[of].randomizers, BcaPk,
                    BallotCheckContext(ELECTION, for), <<run, 6, v>>)
    IN
    /\ Len(cast) = NumVoters
    /\ mixes = << >>
    /\ checks[v] = None
    /\ \A w \in 1..(v - 1) : checks[w] # None
    /\ MayFail([what : {"Randomizers", "CheckContext"}, of : {v}])
    /\ checks' = [checks EXCEPT ![v] =
          [shown |-> UNION {DecryptBallot(cast[v].ciphertext, r, ElectionPk, ELECTION, v) :
              r \in DecryptRandomizers(sent, BcaPk, BcaSk, BallotCheckContext(ELECTION, BCA))}]]
    /\ UNCHANGED <<run, dealings, recipients, cast, mixes, factors, plaintexts>>

-------------------------------------------------------------------------------
(* Mixing and decryption.                                                  *)

Stripped == [v \in Voters |->
    Strip(ElectionPk, cast[v].ciphertext, BallotContext(ELECTION, v))]
MixInput(k) ==
    IF k > 1 THEN mixes[k - 1].w_prime
    ELSE [v \in Voters |-> CHOOSE c \in Stripped[v] : TRUE]

MixContext(k) == IF Now([what |-> "MixContext", of |-> k])
                 THEN ShuffleContext(ANOTHER) ELSE ShuffleContext(ELECTION)

(* action_compute_mix: the k-th mix, unless a ballot cannot be stripped.   *)
ComputeMix(k, permutation) ==
    LET context == MixContext(k)
        mix == Shuffle(IndGenerators(NumVoters, context), ElectionPk.pk_b, MixInput(k),
                       permutation, context, <<run, 7, k>>)
        w_prime == mix.w_prime
    IN
    /\ \A v \in Voters : checks[v] # None
    /\ k = Len(mixes) + 1
    /\ k <= Threshold
    /\ \A j \in DOMAIN mixes : mixes[j].verdict = "Signed"
    /\ \A v \in Voters : Stripped[v] # {}
    /\ MayFail([what : {"MixOutput", "MixCopy", "MixContext"}, of : {k}])
    /\ mixes' = Append(mixes,
          [w_prime |->
              IF Now([what |-> "MixOutput", of |-> k])
              THEN [w_prime EXCEPT ![1].v = DistExp(@, 2)]
              ELSE IF Now([what |-> "MixCopy", of |-> k])
              THEN [w_prime EXCEPT ![1] = w_prime[NumVoters]]
              ELSE w_prime,
           proof |-> mix.proof,
           verdict |-> "Pending"])
    /\ UNCHANGED <<run, dealings, recipients, cast, checks, factors, plaintexts>>

(* action_sign_mix, of every other trustee alike.                          *)
SignMix ==
    LET k == Len(mixes)
        context == ShuffleContext(ELECTION)
        verified == VerifyShuffle(IndGenerators(NumVoters, context), ElectionPk.pk_b,
                                  MixInput(k), mixes[k].w_prime, mixes[k].proof, context)
    IN
    /\ k > 0
    /\ mixes[k].verdict = "Pending"
    /\ mixes' = [mixes EXCEPT ![k].verdict = IF verified THEN "Signed" ELSE "Refused"]
    /\ UNCHANGED <<run, fault, dealings, recipients, cast, checks, factors, plaintexts>>

FinalMix == mixes[Threshold].w_prime
DecryptionContext == <<ELECTION>>

(* action_compute_partial_decryptions                                      *)
ComputePartialDecryptions(t) ==
    LET context == IF Now([what |-> "FactorContext", of |-> t]) THEN <<ANOTHER>>
                   ELSE DecryptionContext
        fs == DecryptionFactor(recipients[t], t, FinalMix, context, <<run, 8, t>>)
    IN
    /\ Len(mixes) = Threshold
    /\ mixes[Threshold].verdict = "Signed"
    /\ factors[t] = None
    /\ \A s \in 1..(t - 1) : factors[s] # None
    /\ MayFail([what : {"Factor", "FactorContext", "Source", "FactorMissing"}, of : {t}])
    /\ factors' = [factors EXCEPT ![t] =
          IF Now([what |-> "Factor", of |-> t])
          THEN [fs EXCEPT ![1].value = DistExp(@, 2)]
          ELSE IF Now([what |-> "Source", of |-> t])
          THEN [i \in DOMAIN fs |-> [fs[i] EXCEPT !.source = (t % NumTrustees) + 1]]
          ELSE IF Now([what |-> "FactorMissing", of |-> t])
          THEN Front(fs)
          ELSE fs]
    /\ UNCHANGED <<run, dealings, recipients, cast, checks, mixes, plaintexts>>

Decoded(elements) == [i \in DOMAIN elements |-> DecodeBallot(elements[i])]

(* action_compute_plaintexts, with the factors of the trustees present, in *)
(* the order of their messages.                                            *)
ComputePlaintexts(present) ==
    LET combined == Combine(FinalMix, [i \in 1..Threshold |-> factors[present[i]]],
                            [i \in 1..Threshold |-> VerificationKey(present[i], CheckValues)],
                            DecryptionContext)
    IN
    /\ \A t \in Positions : factors[t] # None
    /\ plaintexts = None
    /\ plaintexts' =
          IF ~combined.ok \/ \E i \in DOMAIN combined.elements : Decoded(combined.elements)[i] = {}
          THEN [ok |-> FALSE, present |-> present]
          ELSE [ok |-> TRUE, present |-> present,
                ballots |-> [i \in DOMAIN combined.elements |->
                                CHOOSE b \in Decoded(combined.elements)[i] : TRUE]]
    /\ UNCHANGED <<run, fault, dealings, recipients, cast, checks, mixes, factors>>

Quorums == {s \in [1..Threshold -> Positions] : \A i, j \in 1..Threshold : s[i] = s[j] => i = j}

Next ==
    \/ \E d \in Positions : ComputeShares(d)
    \/ \E t \in Positions : ComputePublicKey(t)
    \/ \E v \in Voters, ballot \in Ballots : CastBallot(v, ballot)
    \/ \E v \in Voters : CheckBallot(v)
    \/ \E k \in 1..Threshold, permutation \in Mixings : ComputeMix(k, permutation)
    \/ SignMix
    \/ \E t \in Positions : ComputePartialDecryptions(t)
    \/ \E present \in Quorums : ComputePlaintexts(present)

Spec == Init /\ [][Next]_vars
-------------------------------------------------------------------------------
(* Properties.                                                             *)

(* A trustee accepts the shares dealt to it exactly when each is the       *)
(* dealer's polynomial at its position and the checking values are those   *)
(* of the polynomial: what is wrong for one trustee is refused by that one *)
(* (Dealer::get_verifiable_shares against Recipient::verify_share).        *)
AlteredSharesAreRefused ==
    \A t \in Positions : recipients[t] # None =>
        (recipients[t].ok <=>
            /\ fault.what # "CheckingValue"
            /\ fault.what = "Share" => fault.at # t)

(* All trustees compute one joint key, and the key that verifies the work  *)
(* of a trustee, computed by the others from the checking values, is that  *)
(* of its secret key (Recipient::from_shares, verification_key).           *)
JointSecret == SumOf([d \in Positions |-> DealtBy(d)[1]])
KeysAgree ==
    KeyGenerated => \A t \in Positions :
        /\ recipients[t].joint_pk = Exp(generator, JointSecret)
        /\ VerificationKey(t, CheckValues) = Exp(generator, recipients[t].sk)

(* The secret keys of any Threshold trustees, in any order, interpolate to *)
(* the secret of the joint key, which nobody holds (lagrange).             *)
SecretsInterpolate ==
    KeyGenerated => \A q \in Quorums :
        SumOf([i \in DOMAIN q |-> Times(recipients[q[i]].sk, Lagrange(q[i], q))])
            = JointSecret

(* The proof in a ballot ciphertext verifies exactly for the voter it was  *)
(* made by, in this election, and not if a part of it has changed: a       *)
(* ballot copied to another voter or another election is recognized        *)
(* (verify_ciphertext_proof, strip, and the contexts they use).            *)
CiphertextsVerifyForTheirVoter ==
    \A v \in DOMAIN cast, p \in Voters, e \in {ELECTION, ANOTHER} :
        VerifyCiphertextProof(cast[v].ciphertext, ElectionPk, e, p) <=>
            p = v /\ e = ELECTION /\ fault # [what |-> "Ciphertext", of |-> v]

(* A ballot check displays the ballot that is in the ciphertext, or        *)
(* nothing: randomizers of another voter, or for another check             *)
(* application, never make it display a ballot                             *)
(* (encrypt_randomizers, decrypt_randomizers, decrypt_ballot).             *)
ChecksDisplayTheBallotCast ==
    \A v \in Voters : checks[v] # None =>
        checks[v].shown =
            IF /\ fault.what \in {"Ciphertext", "Randomizers", "CheckContext"}
               /\ fault.of = v
            THEN {} ELSE {cast[v].ballot}

(* A mix is signed exactly when it is a permutation and re-encryption of   *)
(* its input, proved for this election: not when one ciphertext was        *)
(* replaced, or stands in it twice (Shuffler::shuffle, Shuffler::verify).  *)
OnlyMixesOfTheInputAreSigned ==
    \A k \in DOMAIN mixes : mixes[k].verdict # "Pending" =>
        (mixes[k].verdict = "Refused" <=>
            fault.what \in {"MixOutput", "MixCopy", "MixContext"} /\ fault.of = k)

(* Partial decryptions are combined to ballots exactly when all those used *)
(* are right, are proved for this election and name the trustee they are   *)
(* of; those of trustees not taken part do not matter (combine).           *)
OnlyRightFactorsAreCombined ==
    plaintexts # None =>
        (plaintexts.ok <=>
            ~(/\ fault.what \in {"Factor", "FactorContext", "Source"}
              /\ \E i \in DOMAIN plaintexts.present : plaintexts.present[i] = fault.of))

(* Whichever Threshold trustees decrypt, and however they mixed, the       *)
(* ballots that come out are the ballots that were cast, as often as they  *)
(* were cast.  Only if a trustee gives fewer partial decryptions than      *)
(* there are ciphertexts, ballots are missing; none is added.              *)
Occurrences(ballot, list) == Cardinality({i \in DOMAIN list : list[i] = ballot})
BallotsCast == [v \in DOMAIN cast |-> cast[v].ballot]
DecryptedBallotsWereCast ==
    plaintexts # None /\ plaintexts.ok =>
        /\ \A b \in Ballots : Occurrences(b, plaintexts.ballots) <= Occurrences(b, BallotsCast)
        /\ fault.what # "FactorMissing" => Len(plaintexts.ballots) = Len(cast)
===============================================================================
