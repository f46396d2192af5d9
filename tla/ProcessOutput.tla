--------------------------- MODULE ProcessOutput ---------------------------
(***************************************************************************)
(* Output of a subprocess arriving in the buffer of GapBuffer:             *)
(* read_process_output of process.c, for a process with no filter.         *)
(*                                                                         *)
(* Emacs reads output when it waits: between commands, but also while it   *)
(* asks the user a question.  An insertion or deletion in progress is      *)
(* waiting so when prepare_to_modify_buffer asks about a lock; Asks says   *)
(* whether that happens.                                                   *)
(***************************************************************************)
EXTENDS GapBuffer

CONSTANTS ProcMark,  \* the marker at the end of the output so far
          Asks       \* prepare_to_modify_buffer asks the user a question

ASSUME ProcMarkAssumption == ProcMark \in Marker /\ Asks \in BOOLEAN

MarkOrEnd(b) ==
  IF b.mpos[ProcMark] # Nowhere THEN CharPos(b, b.mpos[ProcMark]) ELSE b.zv

(* Mutant of PointAfter: output just before point stays after it. *)
PointAfterStrict(b, n) == IF MarkOrEnd(b) < b.pt THEN b.pt + n ELSE b.pt

(* Where point is put back. *)
PointAfter(b, n) == IF MarkOrEnd(b) <= b.pt THEN b.pt + n ELSE b.pt

(* Mutants of Received: the mark is not set; point is not put back. *)
ReceivedMarkLeft(b, s) ==
  LET there == [b EXCEPT !.pt = MarkOrEnd(b)]
      inserted == InsertAdjusting(there, s, there.pt, pointType)
  IN [inserted EXCEPT !.pt = PointAfter(b, Len(s))]

ReceivedPointLeft(b, s) ==
  LET there == [b EXCEPT !.pt = MarkOrEnd(b)]
      inserted == InsertAdjusting(there, s, there.pt, pointType)
  IN [inserted EXCEPT !.mpos[ProcMark] = BufPos(inserted, inserted.pt)]

Received(b, s) ==
  LET there == [b EXCEPT !.pt = MarkOrEnd(b)]
      inserted == InsertAdjusting(there, s, there.pt, pointType)
  IN [inserted EXCEPT !.mpos[ProcMark] = BufPos(inserted, inserted.pt),
                      !.pt = PointAfter(b, Len(s))]

(* read_process_output.  The insertion is one of GapBuffer's, at the mark, *)
(* which may be outside the accessible range.                              *)
Output(s) ==
  /\ Idle \/ Asks
  /\ buf.z + Len(s) <= MaxPos
  /\ buf' = Received(buf, s)
  /\ UNCHANGED <<pointType, call>>

NextWithOutput == Next \/ \E s \in Strings : Output(s)

SpecWithOutput == Init /\ [][NextWithOutput]_vars

-----------------------------------------------------------------------------
(* Output never moves point in the text: output at or before point leaves  *)
(* what follows point, output after point leaves what precedes it,         *)
(* whatever part of the buffer is accessible and wherever the gap is.      *)
PointKeepsItsPlace ==
  [][\A s \in Strings : Output(s) =>
       IF MarkOrEnd(buf) <= buf.pt
       THEN /\ buf'.z - buf'.pt = buf.z - buf.pt
            /\ \A i \in 0 .. (buf.z - buf.pt - 1) :
                 Fetch(buf', buf'.pt + i) = Fetch(buf, buf.pt + i)
       ELSE /\ buf'.pt = buf.pt
            /\ \A i \in 1 .. (buf.pt - 1) : Fetch(buf', i) = Fetch(buf, i)]_vars

(* Output goes right before the mark, after the output that came before    *)
(* it, so the next output will follow it (process.c:2601-2603).            *)
OutputEndsAtMark ==
  [][\A s \in Strings : Output(s) =>
       /\ MarkOrEnd(buf') = MarkOrEnd(buf) + Len(s)
       /\ \A k \in 1 .. Len(s) : Fetch(buf', MarkOrEnd(buf) + k - 1) = s[k]]_vars

(* insdel.c:408 "Make sure the gap is somewhere in or next to what we are  *)
(* deleting": still so when the deletion happens.                          *)
GapInOrNextToDeletion ==
  call.op = "delete" => call.from <= buf.gpt /\ buf.gpt <= call.to

(* editfns.c:1002, of narrowing: "The rest of the text becomes temporarily *)
(* invisible": output that goes to the rest does not change what is        *)
(* accessible.                                                             *)
Accessible(b) == [i \in 1 .. (b.zv - b.begv) |-> Fetch(b, b.begv + i - 1)]

RestStaysInvisible ==
  [][\A s \in Strings :
       Output(s) /\ (MarkOrEnd(buf) < buf.begv \/ MarkOrEnd(buf) > buf.zv)
         => Accessible(buf') = Accessible(buf)]_vars
=============================================================================
