-------------------------- MODULE MCRedisplayHints --------------------------
(* RedisplayHints and CopyRegion for TLC.  Characters are only compared,   *)
(* so they are interchangeable; the anchor and fresh memory hold the same  *)
(* byte (0).                                                               *)
EXTENDS CopyRegion, TLC

Symmetry == Permutations(Char)

(* A text longer than two characters is checked, and not changed further.  *)
TwoCharacters == buf.z <= 3
=============================================================================
