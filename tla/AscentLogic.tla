------------------------------ MODULE AscentLogic ------------------------------
(***************************************************************************)
(* The Datalog rules that tell a trustee what to do next                   *)
(* (trustee_application/ascent_logic/): a set M of facts, one for each     *)
(* message on the trustee's board, gives the actions that are due and the  *)
(* conditions under which the protocol must stop.                          *)
(*                                                                         *)
(* A fact is a record [fact, sender, ...].  The configuration hash is left *)
(* out: all the facts are about the one configuration.                     *)
(***************************************************************************)
EXTENDS TrusteeMessages

Facts(M, fact) == {m \in M : m.fact = fact}
Senders(M, fact) == {m.sender : m \in Facts(M, fact)}

(* configuration_valid(cfg, threshold, trustee_count, self)                *)
Configured(M) == Senders(M, "ConfigurationValid")

-------------------------------------------------------------------------------
(* Distributed key generation (dkg.rs).                                    *)

ComputeShares(M) ==
    {[action |-> "ComputeShares", self |-> i] : i \in Configured(M) \ Senders(M, "Shares")}

(* shares_all: the accumulator holds one hash for each trustee.            *)
SharesAll(M) ==
    IF Configured(M) = {} THEN {}
    ELSE {hashes \in [Trustees -> {m.shares : m \in Facts(M, "Shares")}] :
             \A i \in Trustees : [fact |-> "Shares", shares |-> hashes[i], sender |-> i] \in M}

ComputePublicKey(M) ==
    {[action |-> "ComputePublicKey", shares |-> hashes, self |-> i] :
        hashes \in SharesAll(M), i \in Configured(M) \ Senders(M, "PublicKey")}

(* public_keys_all: every trustee computed this key.                       *)
PublicKeysAll(M) ==
    {pk \in {m.pk : m \in Facts(M, "PublicKey")} :
        /\ Configured(M) # {}
        /\ Trustees \subseteq {m.sender : m \in {k \in Facts(M, "PublicKey") : k.pk = pk}}}

-------------------------------------------------------------------------------
(* Mixing (mix.rs).  Mixers are positions 1..Threshold: the list in a      *)
(* Ballots fact assigns the trustee at each position.                      *)

MixingPosition(M, pk, position, self) ==
    \E b \in Facts(M, "Ballots") :
        /\ b.pk = pk
        /\ position \in DOMAIN b.mixing_trustees
        /\ b.mixing_trustees[position] = self

SelectedTrustee(M, pk, self) ==
    \E position \in 1..Threshold : MixingPosition(M, pk, position, self)

(* Mutant of MixSignature: whoever signed it.                              *)
MixSignatureOfAnybody(M, pk, input, output, self) ==
    \E m \in Facts(M, "Mix") \cup Facts(M, "MixSignature") :
        m.pk = pk /\ m.in = input /\ m.out = output

(* mix_signature: computing a mix is signing it.                           *)
MixSignature(M, pk, input, output, self) ==
    \E m \in Facts(M, "Mix") \cup Facts(M, "MixSignature") :
        m.pk = pk /\ m.in = input /\ m.out = output /\ m.sender = self

(* mix_signatures_all: signed at every position up to the threshold.       *)
MixSignaturesAll(M, pk, input, output) ==
    /\ Configured(M) # {}
    /\ \A position \in 1..Threshold : \E self \in 1..Threshold :
          /\ MixingPosition(M, pk, position, self)
          /\ MixSignature(M, pk, input, output, self)

MixComputed(M, pk, input, self) ==
    \E m \in Facts(M, "Mix") : m.pk = pk /\ m.in = input /\ m.sender = self

MixDue(pk, input, self) ==
    [action |-> "ComputeMix", pk |-> pk, in |-> input, self |-> self]

ComputeFirstMix(M) ==
    LET keys == PublicKeysAll(M)
    IN
    {MixDue(a[1].pk, a[1].ciphertexts, a[2]) : a \in
        {a \in Facts(M, "Ballots") \X Configured(M) :
            /\ a[1].pk \in keys
            /\ MixingPosition(M, a[1].pk, 1, a[2])
            /\ ~MixComputed(M, a[1].pk, a[1].ciphertexts, a[2])}}

ComputeNextMix(M) ==
    LET keys == PublicKeysAll(M)
    IN
    {MixDue(a[1].pk, a[1].out, a[2]) : a \in
        {a \in Facts(M, "Mix") \X Configured(M) :
            /\ a[1].pk \in keys
            /\ \E position \in 2..Threshold :
                  /\ MixingPosition(M, a[1].pk, position, a[2])
                  /\ MixingPosition(M, a[1].pk, position - 1, a[1].sender)
            /\ MixSignaturesAll(M, a[1].pk, a[1].in, a[1].out)
            /\ ~MixComputed(M, a[1].pk, a[1].out, a[2])}}

SignMix(M) ==
    LET keys == PublicKeysAll(M)
    IN
    {[action |-> "SignMix", pk |-> a[1].pk, in |-> a[1].in, out |-> a[1].out, self |-> a[2]] : a \in
        {a \in Facts(M, "Mix") \X Configured(M) :
            /\ a[1].pk \in keys
            /\ SelectedTrustee(M, a[1].pk, a[2])
            /\ ~MixSignature(M, a[1].pk, a[1].in, a[1].out, a[2])}}

(* mix_chain: the outputs at a position of a chain of signed mixes from    *)
(* the ballots.                                                            *)
MixChain(M, b) ==
    LET SignedMixes(input, position) ==
            {m.out : m \in {n \in Facts(M, "Mix") :
                /\ n.pk = b.pk
                /\ n.in = input
                /\ MixingPosition(M, b.pk, position, n.sender)
                /\ MixSignaturesAll(M, b.pk, n.in, n.out)}}
        ends[position \in 1..Threshold] ==
            IF position = 1
            THEN IF b.pk \in PublicKeysAll(M) THEN SignedMixes(b.ciphertexts, 1) ELSE {}
            ELSE UNION {SignedMixes(input, position) : input \in ends[position - 1]}
    IN  ends

(* Mutant of MixComplete: one mix before the last.                         *)
MixAlmostComplete(M, b) == MixChain(M, b)[Threshold - 1]

(* mix_complete                                                            *)
MixComplete(M, b) == MixChain(M, b)[Threshold]

-------------------------------------------------------------------------------
(* Decryption (decrypt.rs).                                                *)

ComputePartialDecryptions(M) ==
    {[action |-> "ComputePartialDecryptions", pk |-> a[1].pk, out |-> a[2], self |-> a[3]] : a \in
        UNION {{b} \X MixComplete(M, b) \X
               {i \in Configured(M) \ Senders(M, "PartialDecryptions") :
                    SelectedTrustee(M, b.pk, i)} : b \in Facts(M, "Ballots")}}

(* partial_decryptions_all: one hash for each mixing position.             *)
PartialDecryptionsAll(M) ==
    IF Configured(M) = {} THEN {}
    ELSE {hashes \in [1..Threshold -> {m.decryptions : m \in Facts(M, "PartialDecryptions")}] :
             \A position \in 1..Threshold : \E m \in Facts(M, "PartialDecryptions") :
                 /\ m.decryptions = hashes[position]
                 /\ MixingPosition(M, m.pk, position, m.sender)}

ComputePlaintexts(M) ==
    {[action |-> "ComputePlaintexts", pk |-> a[1].pk, out |-> a[2], decryptions |-> a[3],
      self |-> a[4]] : a \in
        UNION {{a \in {b} \X MixComplete(M, b) \X PartialDecryptionsAll(M) \X Configured(M) :
                  /\ SelectedTrustee(M, b.pk, a[4])
                  /\ ~\E m \in Facts(M, "Plaintexts") :
                        m.pk = b.pk /\ m.in = a[2] /\ m.sender = a[4]} :
               b \in Facts(M, "Ballots")}}

-------------------------------------------------------------------------------
(* The actions due, and the error conditions.                              *)

Actions(M) ==
    ComputeShares(M) \cup ComputePublicKey(M) \cup ComputeFirstMix(M) \cup ComputeNextMix(M)
        \cup SignMix(M) \cup ComputePartialDecryptions(M) \cup ComputePlaintexts(M)

(* Message::collides: two messages in one slot.                            *)
Collides(m, n) ==
    /\ m.fact = n.fact
    /\ m # n
    /\ CASE m.fact = "Ballots" -> TRUE
         [] m.fact = "MixSignature" -> m.sender = n.sender /\ (m.in = n.in \/ m.out = n.out)
         [] OTHER -> m.sender = n.sender

PkMismatch(M) ==
    \E m, n \in Facts(M, "PublicKey") : m.pk # n.pk

(* Two ballots facts collide, so the rules are about the only one.         *)
MixErrors(M) ==
    \/ \E b \in Facts(M, "Ballots") :
          LET chain == MixChain(M, b)
          IN  \/ \E p, q \in 1..Threshold : p # q /\ chain[p] \cap chain[q] # {}
              \/ \E p \in 1..Threshold : b.ciphertexts \in chain[p]
              \/ \E p, q \in DOMAIN b.mixing_trustees :
                    p # q /\ b.mixing_trustees[p] = b.mixing_trustees[q]
    \/ \E m, n \in Facts(M, "Mix") :
          /\ m.pk = n.pk
          /\ \/ m.sender # n.sender /\ (m.in = n.in \/ m.out = n.out)
             \/ m.sender = n.sender /\ (m.in # n.in \/ m.out # n.out)
             \/ /\ m.out = n.in
                /\ \E p, q \in 1..Threshold :
                      /\ MixingPosition(M, m.pk, p, m.sender)
                      /\ MixingPosition(M, m.pk, q, n.sender)
                      /\ p + 1 # q

PlaintextErrors(M) ==
    \/ \E m, n \in Facts(M, "Plaintexts") :
          m.pk = n.pk /\ (m.in # n.in \/ m.plaintexts # n.plaintexts)
    \/ \E m \in Facts(M, "Plaintexts"), b \in Facts(M, "Ballots") :
          b.pk = m.pk /\ MixComplete(M, b) \ {m.in} # {}

Errors(M) ==
    \/ \E m, n \in M : Collides(m, n)
    \/ PkMismatch(M)
    \/ MixErrors(M)
    \/ PlaintextErrors(M)
===============================================================================
