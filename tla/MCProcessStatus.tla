--------------------------- MODULE MCProcessStatus ---------------------------
(* ProcessStatus for TLC: two processes, or a process and a connection.    *)
EXTENDS ProcessStatus
=============================================================================
