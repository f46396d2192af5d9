------------------------------- MODULE Undo -------------------------------
(***************************************************************************)
(* The undo records of one buffer: undo.c, the order in which the editing  *)
(* primitives record and count a change, the undo command of simple.el,    *)
(* and the truncation at garbage collection.                               *)
(*                                                                         *)
(* Positions count from 1 as in the buffer.  Point, markers and the gap    *)
(* are left to GapBuffer.  Of MODIFF and save_modified only modified,      *)
(* save_modified < MODIFF, is kept.  Each record carries two ghosts: was,  *)
(* the text before the change, and start, the text at the boundary below.  *)
(***************************************************************************)
EXTENDS Naturals, Sequences, SequencesExt

CONSTANTS Char,        \* the characters
          Upcase,      \* Upcase[c]: c in upper case
          MinSize,     \* undo-threshold
          MaxSize,     \* undo-high-threshold
          SameSecond,    \* two saves may fall into one second
          BetweenUndos, \* process output may arrive between repeated undo commands
          MaxText, MaxUndo, MaxTime  \* bounds: the text, the records, the saves

ASSUME UpcaseAssumption == Upcase \in [Char -> Char]
ASSUME SizeAssumption == MinSize \in Nat /\ MaxSize \in Nat /\ MinSize <= MaxSize
ASSUME ChoicesAssumption == SameSecond \in BOOLEAN /\ BetweenUndos \in BOOLEAN
ASSUME BoundsAssumption == MaxText \in Nat /\ MaxUndo \in Nat /\ MaxTime \in Nat \ {0}

VARIABLES buf,      \* the buffer: see TypeOK
          modtime,  \* its modtime, the second of the last visit or save
          saved,    \* the text of the file
          chain     \* the last command was undo; pending-undo-list

vars == <<buf, modtime, saved, chain>>

Text == UNION { [1 .. n -> Char] : n \in 0 .. MaxText }
Boundary == [kind |-> "boundary"]

Record ==
  {Boundary}
  \union [kind : {"first"}, time : 1 .. MaxTime]
  \union [kind : {"insert"}, beg : Nat, end : Nat, was : Seq(Char), start : Seq(Char)]
  \union [kind : {"delete"}, beg : Nat, str : Seq(Char), was : Seq(Char), start : Seq(Char)]

TypeOK ==
  /\ buf \in [text : Text, begv : Nat, zv : Nat, modified : BOOLEAN, recording : BOOLEAN,
              undo : Seq(Record), start : Seq(Char)]
  /\ 1 <= buf.begv /\ buf.begv <= buf.zv /\ buf.zv <= Len(buf.text) + 1
  /\ ~buf.recording => buf.undo = <<>>
  /\ modtime \in 1 .. MaxTime /\ saved \in Text
  /\ chain \in [on : BOOLEAN, pending : Seq(Record), shared : BOOLEAN]

Unchained == [on |-> FALSE, pending |-> <<>>, shared |-> FALSE]

Init ==
  \E text \in Text :
    /\ buf = [text |-> text, begv |-> 1, zv |-> Len(text) + 1, modified |-> FALSE,
              recording |-> TRUE, undo |-> <<>>, start |-> text]
    /\ modtime = 1 /\ saved = text /\ chain = Unchained

(***************************************************************************)
(* Recording: undo.c.                                                      *)
(***************************************************************************)
Push(b, record) == [b EXCEPT !.undo = <<record>> \o @]

(* Fundo_boundary, at the beginning of a command. *)
UndoBoundary(b) ==
  IF b.undo = <<>> \/ b.undo[1] = Boundary
  THEN [b EXCEPT !.start = b.text]
  ELSE [Push(b, Boundary) EXCEPT !.start = b.text]

RecordFirstChange(b) ==
  IF b.modified THEN b ELSE Push(b, [kind |-> "first", time |-> modtime])

(* Mutant of Continues: any two insertions are combined. *)
ContinuesAnywhere(undo, beg) == undo # <<>> /\ undo[1].kind = "insert"

Continues(undo, beg) == undo # <<>> /\ undo[1].kind = "insert" /\ undo[1].end = beg

(* was: the text without the insertion. *)
RecordInsert(b, beg, n, was) ==
  IF ~b.recording THEN b
  ELSE LET c == RecordFirstChange(b)
       IN IF Continues(c.undo, beg)
          THEN [c EXCEPT !.undo[1].end = beg + n]
          ELSE Push(c, [kind |-> "insert", beg |-> beg, end |-> beg + n,
                        was |-> was, start |-> b.start])

RecordDelete(b, beg, end) ==
  IF ~b.recording THEN b
  ELSE Push(RecordFirstChange(b),
            [kind |-> "delete", beg |-> beg, str |-> SubSeq(b.text, beg, end - 1),
             was |-> b.text, start |-> b.start])

Spliced(text, beg, end, str) ==
  SubSeq(text, 1, beg - 1) \o str \o SubSeq(text, end, Len(text))

(* record_change: both records are made before anything is replaced. *)
RecordChange(b, beg, end) ==
  RecordInsert(RecordDelete(b, beg, end), beg, end - beg, Spliced(b.text, beg, end, <<>>))

(***************************************************************************)
(* The primitives.  MODIFF is counted after recording in insert, del_range *)
(* and casify_region, before in insert-file-contents and                   *)
(* subst-char-in-region: these record no first change.                     *)
(***************************************************************************)
Insert(b, beg, str) ==
  [RecordInsert(b, beg, Len(str), b.text) EXCEPT
     !.text = Spliced(@, beg, beg, str), !.zv = @ + Len(str), !.modified = TRUE]

InsertFileContents(b, beg, str) == Insert([b EXCEPT !.modified = TRUE], beg, str)

DeleteRegion(b, beg, end) ==
  [RecordDelete(b, beg, end) EXCEPT
     !.text = Spliced(@, beg, end, <<>>), !.zv = @ - (end - beg), !.modified = TRUE]

UpcaseRegion(b, beg, end) ==
  [RecordChange(b, beg, end) EXCEPT
     !.text = [i \in DOMAIN @ |-> IF i \in beg .. end - 1 THEN Upcase[@[i]] ELSE @[i]],
     !.modified = TRUE]

SubstAt(b, i, from, to) ==
  IF b.text[i] = from /\ from # to
  THEN [RecordChange(b, i, i + 1) EXCEPT !.text[i] = to]
  ELSE b

(* looked[k]: when k characters from beg on have been looked at. *)
SubstLooked(b, beg, n, from, to) ==
  LET looked[k \in 0 .. n] == IF k = 0 THEN [b EXCEPT !.modified = TRUE]
                             ELSE SubstAt(looked[k - 1], beg + k - 1, from, to)
  IN looked
SubstChar(b, beg, end, from, to) == SubstLooked(b, beg, end - beg, from, to)[end - beg]

(***************************************************************************)
(* primitive-undo, of the records up to a boundary.                        *)
(***************************************************************************)

(* Mutant of Obsolete: saves are not told apart. *)
ObsoleteNever(record) == FALSE

Obsolete(record) == record.time # modtime

UndoRecord(run, record) ==
  LET b == run.buf
      on == [run EXCEPT !.done = @ + 1]
  IN IF run.status # "going" THEN run
     ELSE CASE record.kind = "first" ->
                 IF Obsolete(record) THEN [on EXCEPT !.status = "stopped"]
                 ELSE [on EXCEPT !.buf.modified = FALSE]
            [] record.kind = "insert" ->
                 IF record.beg < b.begv \/ record.end > b.zv THEN [run EXCEPT !.status = "error"]
                 ELSE [on EXCEPT !.buf = DeleteRegion(b, record.beg, record.end)]
            [] record.kind = "delete" ->
                 IF record.beg < b.begv \/ record.beg > b.zv THEN [run EXCEPT !.status = "error"]
                 ELSE [on EXCEPT !.buf = Insert(b, record.beg, record.str)]

(* The number of records above the first boundary. *)
GroupSize(list) ==
  LET at == SelectInSeq(list, LAMBDA r : r = Boundary)
  IN IF at = 0 THEN Len(list) ELSE at - 1

(* run[k]: when k records of the list have been undone. *)
UndoRuns(b, list, n) ==
  LET run[k \in 0 .. n] == IF k = 0 THEN [buf |-> b, status |-> "going", done |-> 0]
                          ELSE UndoRecord(run[k - 1], list[k])
  IN run

(* The run over a group, and what it leaves of the list.  An obsolete first *)
(* change stops it like a boundary does.                                    *)
PrimitiveUndo(b, list) ==
  LET n == GroupSize(list)
      run == UndoRuns(b, list, n)[n]
      used == IF run.status = "stopped" THEN run.done ELSE n + 1
  IN [buf |-> run.buf, error |-> run.status = "error",
      rest |-> SubSeq(list, used + 1, Len(list))]

(***************************************************************************)
(* Actions.  A change starts a command, whose boundary the command loop    *)
(* makes, or continues one.                                                *)
(***************************************************************************)
Become(b) == Len(b.text) <= MaxText /\ Len(b.undo) <= MaxUndo /\ buf' = b

Current == {UndoBoundary(buf)} \union (IF chain.on THEN {} ELSE {buf})
Visible(b) == b.begv .. b.zv

(* Mutant of AfterCommand: the change does not end the repetition of undo. *)
AfterCommandStays == chain

(* Any other command: last-command is not undo when it is done. *)
AfterCommand == Unchained

Edit(b) == Become(b) /\ chain' = AfterCommand /\ UNCHANGED <<modtime, saved>>

TypeChar == \E b \in Current, c \in Char : \E p \in Visible(b) : Edit(Insert(b, p, <<c>>))
ReadFile == \E b \in Current, c \in Char : \E p \in Visible(b) : Edit(InsertFileContents(b, p, <<c>>))

Region(b) == { r \in Visible(b) \X Visible(b) : r[1] < r[2] }
Delete == \E b \in Current : \E r \in Region(b) : Edit(DeleteRegion(b, r[1], r[2]))
Capitals == \E b \in Current : \E r \in Region(b) : Edit(UpcaseRegion(b, r[1], r[2]))
Subst == \E b \in Current, from \in Char, to \in Char :
           \E r \in Region(b) : Edit(SubstChar(b, r[1], r[2], from, to))

Narrow == \E b \in {UndoBoundary(buf)} : \E x, y \in 1 .. Len(b.text) + 1 :
            x <= y /\ Edit([b EXCEPT !.begv = x, !.zv = y])

(* read_process_output inserts without a command.  Output outside the       *)
(* accessible part is left to ProcessOutput.                                *)
ProcessOutput ==
  /\ chain.on => BetweenUndos
  /\ \E c \in Char : \E p \in Visible(buf) : Become(Insert(buf, p, <<c>>))
  /\ UNCHANGED <<modtime, saved, chain>>

SaveBuffer ==
  /\ buf.modified
  /\ Become([UndoBoundary(buf) EXCEPT !.modified = FALSE])
  /\ saved' = buf.text
  /\ modtime' \in {modtime + 1} \union (IF SameSecond THEN {modtime} ELSE {})
  /\ modtime' <= MaxTime
  /\ chain' = AfterCommand

BufferFlushUndo ==
  buf.recording /\ Edit([UndoBoundary(buf) EXCEPT !.recording = FALSE, !.undo = <<>>])

BufferEnableUndo == ~buf.recording /\ Edit([UndoBoundary(buf) EXCEPT !.recording = TRUE])

(* undo-start and the undo-more for the boundary of the undo command. *)
StartList(b) == PrimitiveUndo(b, b.undo).rest

UndoCommand ==
  LET b == UndoBoundary(buf)
      list == IF chain.on THEN chain.pending ELSE StartList(b)
      undone == PrimitiveUndo(b, list)
      started == ~chain.on \/ chain.shared
  IN /\ buf.recording
     /\ IF list = <<>>  \* No further undo information
        THEN Become(b) /\ chain' = Unchained
        ELSE /\ Become(undone.buf)
             /\ chain' = IF undone.error THEN Unchained
                         ELSE [on |-> TRUE, pending |-> undone.rest, shared |-> started]
     /\ UNCHANGED <<modtime, saved>>

(***************************************************************************)
(* truncate_undo_list, called for every buffer at garbage collection.      *)
(***************************************************************************)
Size(record) ==
  CASE record.kind = "boundary" -> 8
    [] record.kind \in {"first", "insert"} -> 16
    [] record.kind = "delete" -> 22 + Len(record.str)

SizeAbove(list, i) == FoldLeft(LAMBDA n, r : n + Size(r), 0, SubSeq(list, 1, i - 1))

(* Mutant of Kept: the cut is one record below the boundary. *)
KeptAndOne(list) ==
  LET at == SelectInSeq(list, LAMBDA r : r = Boundary)
  IN IF at = 0 THEN Len(list) ELSE IF at + 1 > Len(list) THEN Len(list) ELSE at + 1

(* How many records truncation keeps. *)
Kept(list) ==
  LET bounds == { i \in DOMAIN list : list[i] = Boundary }
      over == { i \in bounds : SizeAbove(list, i) > MinSize }
      stop == Min(over)
      before == { i \in bounds : i < stop }
  IN IF over = {} THEN Len(list)
     ELSE IF SizeAbove(list, stop) <= MaxSize THEN stop - 1
     ELSE IF before = {} THEN 0 ELSE Max(before) - 1

(* Cutting the list cuts a pending list that shares the conses cut off. *)
CollectGarbage ==
  LET list == buf.undo
      kept == Kept(list)
      above == Len(list) - Len(chain.pending)
  IN /\ buf.recording /\ kept < Len(list)
     /\ buf' = [buf EXCEPT !.undo = SubSeq(list, 1, kept),
                           !.start = IF kept = 0 THEN buf.text ELSE @]
     /\ chain' = IF ~chain.shared THEN chain
                 ELSE IF kept > above
                 THEN [chain EXCEPT !.pending = SubSeq(@, 1, kept - above)]
                 ELSE [chain EXCEPT !.shared = FALSE]
     /\ UNCHANGED <<modtime, saved>>

Next ==
  \/ TypeChar \/ ReadFile \/ Delete \/ Capitals \/ Subst \/ Narrow
  \/ ProcessOutput \/ SaveBuffer
  \/ BufferFlushUndo \/ BufferEnableUndo
  \/ UndoCommand \/ CollectGarbage

Spec == Init /\ [][Next]_vars

-----------------------------------------------------------------------------
(* The text that undoing a record gives, and the changes of a list.         *)
Undone(text, record) ==
  IF record.kind = "insert" THEN Spliced(text, record.beg, record.end, <<>>)
  ELSE Spliced(text, record.beg, record.beg, record.str)

IsChange(record) == record.kind \in {"insert", "delete"}

(* No change between two places of a list. *)
NextTo(list, k, i) == \A l \in k + 1 .. i - 1 : ~IsChange(list[l])

LeadsBack(text, list) ==
  \A i \in DOMAIN list : IsChange(list[i]) =>
    /\ NextTo(list, 0, i) => Undone(text, list[i]) = list[i].was
    /\ \A k \in 1 .. i - 1 : IsChange(list[k]) /\ NextTo(list, k, i)
                            => Undone(list[k].was, list[i]) = list[i].was

(* The records lead back through every text the buffer had: whatever was    *)
(* recorded, undone, redone and truncated in between.                       *)
RecordsLeadBack == LeadsBack(buf.text, buf.undo)

(* While undo is being repeated, what is left to undo fits the text.        *)
PendingLeadsBack == chain.on => LeadsBack(buf.text, chain.pending)

(* A buffer marked unmodified holds the text of its file, also after        *)
(* undoing past a save.                                                     *)
UnmodifiedIsSaved == ~buf.modified => buf.text = saved

(* What an undo command has to undo, and the last change of that, 0 if it  *)
(* has none.                                                               *)
Undoing == IF chain.on THEN chain.pending ELSE StartList(UndoBoundary(buf))
NextChange == SelectInSeq(SubSeq(Undoing, 1, GroupSize(Undoing)), IsChange)

(* An undo command goes back to the beginning of a command (the comment on  *)
(* undo-boundary), unless it signals an error.                              *)
UndoReachesBoundary ==
  [][chain'.on /\ UndoCommand /\ NextChange # 0 => buf'.text = Undoing[NextChange].start]_vars

(* It does when the file was not saved in between: then no record of it is  *)
(* obsolete.                                                                *)
Outdated(list) == \E i \in 1 .. GroupSize(list) : list[i].kind = "first" /\ Obsolete(list[i])
UnsavedUndoReachesBoundary ==
  [][chain'.on /\ UndoCommand /\ NextChange # 0 /\ ~Outdated(Undoing)
       => buf'.text = Undoing[NextChange].start]_vars
=============================================================================
