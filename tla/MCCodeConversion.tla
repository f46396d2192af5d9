-------------------------- MODULE MCCodeConversion --------------------------
(* CodeConversion for TLC.                                                 *)
EXTENDS CodeConversion
=============================================================================
