---------------------------- MODULE TrusteeMessages ----------------------------
(***************************************************************************)
(* The messages of the trustee protocols (trustee_messages.rs).  A trustee *)
(* is its position in the trustee list of the election, whose first entry, *)
(* at position 0, is the Trustee Administration Server (TAS).              *)
(*                                                                         *)
(* Every message names its originator and its signer; "signed" says        *)
(* whether its signature verifies under the signer's key, and that the     *)
(* signer is in the trustee list.  All messages carry the one manifest,    *)
(* threshold and trustee list of the election.                             *)
(***************************************************************************)
EXTENDS Integers, Sequences, FiniteSets

CONSTANTS
    NumTrustees,    \* trustees of the election, without the TAS
    Threshold       \* trustees that take part in mixing and decryption

(* SetupMsg::sanity_check and TASActor::validate_checkpoint                *)
ASSUME TrusteesAssumption ==
    /\ NumTrustees \in Nat
    /\ Threshold \in 1..NumTrustees

TAS == 0
Trustees == 1..NumTrustees
TrusteeList == 0..NumTrustees

SetupMsg(signer) ==
    [type |-> "Setup", originator |-> TAS, signer |-> signer, signed |-> TRUE]

(* "deal" stands for the random polynomial behind check values and shares. *)
KeySharesMsg(t, deal) ==
    [type |-> "KeyShares", originator |-> t, signer |-> t, signed |-> TRUE,
     deal |-> deal]

(* The joint key is a function of the deals of all trustees.               *)
ElectionPublicKeyMsg(t, key) ==
    [type |-> "ElectionPublicKey", originator |-> t, signer |-> t, signed |-> TRUE,
     key |-> key]

MixInitializationMsg(active_trustees, ballots) ==
    [type |-> "MixInitialization", originator |-> TAS, signer |-> TAS, signed |-> TRUE,
     active_trustees |-> active_trustees, ballots |-> ballots]

(***************************************************************************)
(* A list of ciphertexts is the ballots it encrypts and the mixes it went  *)
(* through, each by a mixer with fresh randomness; the shuffle proof of a  *)
(* mix verifies against the ciphertexts that were mixed and no others.     *)
(***************************************************************************)
Unmixed(ballots) == [ballots |-> ballots, mixes |-> << >>]
Shuffle(ciphertexts, mixer, randomness) ==
    [ciphertexts EXCEPT !.mixes = Append(@, <<mixer, randomness>>)]
VerifyShuffle(input, output) ==
    /\ output.ballots = input.ballots
    /\ output.mixes # << >>
    /\ SubSeq(output.mixes, 1, Len(output.mixes) - 1) = input.mixes

EGCryptogramsMsg(originator, signer, ciphertexts) ==
    [type |-> "EGCryptograms", originator |-> originator, signer |-> signer,
     signed |-> TRUE, ciphertexts |-> ciphertexts]

(* The decryption factors of a trustee, each with a randomized proof.      *)
PartialDecryptionsMsg(t, ciphertexts, randomness) ==
    [type |-> "PartialDecryptions", originator |-> t, signer |-> t, signed |-> TRUE,
     factors_of |-> ciphertexts, proofs |-> randomness]

(* The plaintexts, in the order of the ciphertexts they come from.         *)
DecryptedBallotsMsg(t, ciphertexts) ==
    [type |-> "DecryptedBallots", originator |-> t, signer |-> t, signed |-> TRUE,
     plaintexts_of |-> ciphertexts]

RangeOf(seq) == {seq[i] : i \in DOMAIN seq}

(* The positions of the messages of a type on a board.                     *)
Posted(bb, type) == {i \in DOMAIN bb : bb[i].type = type}
Signers(bb, type) == {bb[i].signer : i \in Posted(bb, type)}
Originators(bb, type) == {bb[i].originator : i \in Posted(bb, type)}
===============================================================================
