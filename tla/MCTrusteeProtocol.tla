---------------------------- MODULE MCTrusteeProtocol ----------------------------
(***************************************************************************)
(* Ceremonies of two or three trustees for TLC.                            *)
(***************************************************************************)
EXTENDS TrusteeProtocol

Mix(active) == [active_trustees |-> active, ballots |-> "ballots"]

(* Nothing goes wrong, and the messages arrive one by one.                 *)
Ceremony(start_from, mixing) ==
    [start_from |-> start_from, mixing |-> mixing, max_batch |-> 1,
     update_starts |-> {0}, max_stops |-> 0, max_faults |-> 0, tampering |-> FALSE]

(* Setup and key generation from nothing, by way of overlapping, too late  *)
(* and spoiled updates, with a stop of the TAS and a restart of a trustee. *)
KeysInTrouble ==
    [Ceremony("nothing", {}) EXCEPT !.max_batch = 3, !.update_starts = {-1, 0, 1},
                                    !.max_stops = 1, !.max_faults = 2, !.tampering = TRUE]

(* Mixing and decryption, with a stop or a restart, and perhaps once more  *)
(* with other ballots in the other order; and with two messages at once.   *)
MixedTwice ==
    [Ceremony("keygen", {Mix(<<1, 2>>), [Mix(<<2, 1>>) EXCEPT !.ballots = "other ballots"]})
        EXCEPT !.max_stops = 1, !.max_faults = 1]
MixedInTwos ==
    [Ceremony("keygen", {Mix(<<1, 2>>)})
        EXCEPT !.max_batch = 2, !.max_stops = 1, !.max_faults = 1]

InTrouble == {KeysInTrouble, MixedTwice, MixedInTwos}

Smooth == {Ceremony("setup", {Mix(<<1, 2>>)})}
SetupOnly == {Ceremony("nothing", {})}
KeysOnly == {Ceremony("setup", {})}
MixedInBatches == {[Ceremony("keygen", {Mix(<<1, 2>>)}) EXCEPT !.max_batch = 2]}
MixedByThree == {[Ceremony("keygen", {Mix(<<1, 2, 3>>)}) EXCEPT !.max_batch = 2]}
MixedWithoutSecond == {Ceremony("keygen", {Mix(<<1, 3>>)})}
===============================================================================
