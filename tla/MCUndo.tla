----------------------------- MODULE MCUndo -----------------------------
(* Undo for TLC: a letter and its capital.                                 *)
EXTENDS Undo

Letters == {"a", "A"}
CapitalOf == [c \in Letters |-> "A"]
=============================================================================
