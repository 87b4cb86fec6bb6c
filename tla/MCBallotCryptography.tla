------------------------- MODULE MCBallotCryptography -------------------------
(***************************************************************************)
(* A small election for TLC: 3 ballots, 2 of 3 trustees, a group of order  *)
(* 46337.  A mixer draws a permutation that is not its own inverse, or one *)
(* that moves a part of the list only.                                     *)
(***************************************************************************)
EXTENDS BallotCryptography

CycleOrSwap == {<<2, 3, 1>>, <<1, 3, 2>>}
===============================================================================
