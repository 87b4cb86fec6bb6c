----------------------------- MODULE BulletinBoard -----------------------------
(***************************************************************************)
(* The public bulletin board of the Digital Ballot Box (DBB), the          *)
(* in-memory implementation in digital_ballot_box/bulletin_board.rs: a     *)
(* sequence of bulletins, each carrying the hash of the one before it.     *)
(*                                                                         *)
(* A bulletin is a record [type, contents, timestamp, prev].  The contents *)
(* of a built-in bulletin hold the voter's signed ballot (and, for a cast  *)
(* bulletin, the cast request); those of a custom bulletin are opaque.     *)
(*                                                                         *)
(* This module has no state: the board is the variable "board" of the      *)
(* actor that owns it.                                                     *)
(***************************************************************************)
EXTENDS Integers, Sequences

SUBMISSION == "BallotSubmission"
CAST == "BallotCast"
BUILTIN_BULLETINS == {SUBMISSION, CAST}

(***************************************************************************)
(* SHA3-256 over the serialized bulletin, without collisions: the hash is  *)
(* a term that wraps the bulletin.  NoHash is the empty string that stands *)
(* for "no previous bulletin".                                             *)
(***************************************************************************)
Hash(bulletin) == <<bulletin>>
NoHash == << >>

(* Mutant of LastBulletinHash: the first bulletin instead of the last.     *)
FirstBulletinHash(bb) == IF bb = << >> THEN NoHash ELSE Hash(bb[1])

(* The empty board has no last hash; a bulletin then carries NoHash.       *)
LastBulletinHash(bb) == IF bb = << >> THEN NoHash ELSE Hash(bb[Len(bb)])

(* get_bulletin: the positions a tracker resolves to, none if unknown.     *)
GetBulletin(bb, tracker) == {i \in DOMAIN bb : Hash(bb[i]) = tracker}

(* get_bulletins_by_type_and_pseudonym, as positions on the board.         *)
OfVoter(bb, type, pseudonym) ==
    {i \in DOMAIN bb : /\ bb[i].type = type
                       /\ bb[i].contents.ballot.auth.voter_pseudonym = pseudonym}

HasCiphertext(bb, ciphertext) ==
    \E i \in DOMAIN bb : /\ bb[i].type \in BUILTIN_BULLETINS
                         /\ bb[i].contents.ballot.ciphertext = ciphertext

(* append_bulletin_internal: a bulletin that does not extend the head is   *)
(* refused and the board left as it was.                                   *)
Extends(bb, bulletin) == bulletin.prev = LastBulletinHash(bb)
AppendBulletin(bb, bulletin) ==
    IF Extends(bb, bulletin) THEN Append(bb, bulletin) ELSE bb

ValidateChain(bb) ==
    \A i \in DOMAIN bb :
        bb[i].prev = IF i = 1 THEN NoHash ELSE Hash(bb[i - 1])
================================================================================
