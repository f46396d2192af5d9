---------------------------- MODULE MCUnwinding ----------------------------
(* Unwinding for TLC: two special forms at a time, two minibuffers.        *)
EXTENDS Unwinding
=============================================================================
