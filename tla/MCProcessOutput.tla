-------------------------- MODULE MCProcessOutput --------------------------
(***************************************************************************)
(* ProcessOutput for TLC.  Characters are interchangeable.                 *)
(***************************************************************************)
EXTENDS ProcessOutput, TLC

Symmetry == Permutations(Char)
=============================================================================
