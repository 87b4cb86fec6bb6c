---------------------------- MODULE ElectionCeremony ----------------------------
(***************************************************************************)
(* What the trustees promise an election, without boards, messages and     *)
(* restarts: one key, made of one deal of each trustee; ballots that the   *)
(* chosen trustees mix in turn, the next one after all have signed the mix *)
(* before; and plaintexts, published after all of them have helped to      *)
(* decrypt what the last mix put out.                                      *)
(***************************************************************************)
EXTENDS Integers, Sequences

CONSTANTS
    Trustees,
    Random,     \* the random choices behind a deal or a mix
    Plans       \* [active_trustees, ballots]: who may mix what

VARIABLES
    deals,      \* the <<trustee, deal>> dealt
    keys,       \* the election key, in a set of at most one
    mixing,     \* who mixes what, in a set of at most one
    mixes,      \* the <<mixer, randomness>> of the mixes, one after the other
    signatures, \* the <<mix, trustee>> signed
    decryptors, \* the trustees that sent partial decryptions
    published   \* the mixed ballots whose plaintexts were sent

ceremonyVars == <<deals, keys, mixing, mixes, signatures, decryptors, published>>

DealsOfKey(key) == {<<t, key[t]>> : t \in Trustees}
Mixers(m) == {m.active_trustees[i] : i \in DOMAIN m.active_trustees}

(* A ceremony may resume after key generation.                             *)
Init ==
    /\ \/ keys = {} /\ deals = {}
       \/ \E key \in [Trustees -> Random] : keys = {key} /\ deals = DealsOfKey(key)
    /\ mixing = {} /\ mixes = << >> /\ signatures = {}
    /\ decryptors = {} /\ published = {}

Deal ==
    /\ keys = {}
    /\ \E t \in Trustees, deal \in Random : deals' = deals \cup {<<t, deal>>}
    /\ UNCHANGED <<keys, mixing, mixes, signatures, decryptors, published>>

(* A trustee that dealt twice keeps the others from computing a key.       *)
Agree ==
    /\ keys = {}
    /\ \E key \in [Trustees -> Random] : deals = DealsOfKey(key) /\ keys' = {key}
    /\ UNCHANGED <<deals, mixing, mixes, signatures, decryptors, published>>

StartMixing ==
    /\ mixing = {}
    /\ \E m \in Plans : mixing' = {m}
    /\ UNCHANGED <<deals, keys, mixes, signatures, decryptors, published>>

AllSigned(m, k) == \A t \in Mixers(m) : <<k, t>> \in signatures

(* Mixing is signing.                                                      *)
Mix(m) ==
    LET k == Len(mixes) + 1
    IN  /\ keys # {}
        /\ k \in DOMAIN m.active_trustees
        /\ k > 1 => AllSigned(m, k - 1)
        /\ \E randomness \in Random :
              mixes' = Append(mixes, <<m.active_trustees[k], randomness>>)
        /\ signatures' = signatures \cup {<<k, m.active_trustees[k]>>}
        /\ UNCHANGED <<deals, keys, mixing, decryptors, published>>

Sign(m) ==
    /\ \E k \in DOMAIN mixes, t \in Mixers(m) : signatures' = signatures \cup {<<k, t>>}
    /\ UNCHANGED <<deals, keys, mixing, mixes, decryptors, published>>

FullyMixed(m) == Len(mixes) = Len(m.active_trustees) /\ AllSigned(m, Len(mixes))

Decrypt(m) ==
    /\ FullyMixed(m)
    /\ \E t \in Mixers(m) : decryptors' = decryptors \cup {t}
    /\ UNCHANGED <<deals, keys, mixing, mixes, signatures, published>>

Publish(m) ==
    /\ published = {}
    /\ Mixers(m) \subseteq decryptors
    /\ published' = {[ballots |-> m.ballots, mixes |-> mixes]}
    /\ UNCHANGED <<deals, keys, mixing, mixes, signatures, decryptors>>

Next ==
    \/ Deal \/ Agree \/ StartMixing
    \/ \E m \in mixing : Mix(m) \/ Sign(m) \/ Decrypt(m) \/ Publish(m)

Spec == Init /\ [][Next]_ceremonyVars
===============================================================================
