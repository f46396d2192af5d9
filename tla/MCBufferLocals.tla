--------------------------- MODULE MCBufferLocals ---------------------------
(* BufferLocals for TLC: buffers and values are interchangeable.           *)
EXTENDS BufferLocals, TLC

Symmetry == Permutations(Buffer) \union Permutations(Value)
=============================================================================
