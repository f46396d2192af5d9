----------------------------- MODULE GapBuffer -----------------------------
(***************************************************************************)
(* The text of a buffer as insdel.c and marker.c keep it: one block of     *)
(* memory with a gap at position gpt, and markers that hold positions in   *)
(* the memory, gap included.                                               *)
(*                                                                         *)
(* An insertion or deletion is two steps, because the code runs Lisp in    *)
(* the middle: prepare_to_modify_buffer may ask the user about a lock or a *)
(* changed file.  The first step does what the code does before that call  *)
(* and leaves the arguments in the variable call, the second does the      *)
(* rest.  Gap motion stops early, at a multiple of Chunk characters, when  *)
(* the user quits.                                                         *)
(***************************************************************************)
EXTENDS Integers, Sequences

CONSTANTS Char,      \* characters
          Nul, Junk, \* the anchor byte, and what fresh memory holds
          Marker,    \* marker objects
          MaxPos,    \* the largest position a Lisp integer can hold
          InitGap,   \* gap of a new buffer (20 in the code)
          GapExtra,  \* what make_gap adds to a request (2000 in the code)
          Chunk,     \* characters moved between two looks at quit-flag (32000)
          MaxInsert  \* bound: the longest string inserted

ASSUME CharAssumption == Nul \notin Char /\ Junk \notin Char
ASSUME SizeAssumption ==
  /\ MaxPos \in Nat /\ MaxPos >= 1 /\ MaxInsert \in Nat
  /\ InitGap \in Nat /\ GapExtra \in Nat /\ GapExtra >= 1
  /\ Chunk \in Nat /\ Chunk >= 1

VARIABLES buf,       \* the buffer_text structure and its markers' bufpos
          pointType, \* markers of MARKER_POINT_TYPE
          call       \* arguments of the insertion or deletion in progress

vars == <<buf, pointType, call>>

Byte == Char \cup {Nul, Junk}
Nowhere == 0
None == [op |-> "none"]

Strings == UNION {[1 .. n -> Char] : n \in 1 .. MaxInsert}

-----------------------------------------------------------------------------
(* Reading: FETCH_CHAR, marker_position and the inverse, in set-marker.    *)

Fetch(b, p) == b.mem[IF p < b.gpt THEN p ELSE p + b.gap]

Contents(b) == [p \in 1 .. (b.z - 1) |-> Fetch(b, p)]

CharPos(b, i) ==
  IF i > b.gpt + b.gap THEN i - b.gap ELSE IF i > b.gpt THEN b.gpt ELSE i

MarksOf(b) == [m \in Marker |-> CharPos(b, b.mpos[m])]

BufPos(b, p) == IF p > b.gpt THEN p + b.gap ELSE p

-----------------------------------------------------------------------------
(* adjust_markers2: markers in (from, to] move by amount; those beyond the *)
(* interval in the direction of the move, but short of where its end goes, *)
(* are first taken to its near end.                                        *)
AdjustMarkers(mpos, from, to, amount, which) ==
  LET low  == IF amount > 0 THEN to ELSE from + amount
      high == IF amount > 0 THEN to + amount ELSE from + 1
      near == IF amount > 0 THEN high ELSE low
      clamped(i) == IF low < i /\ i < high THEN near ELSE i
      moved(i) == IF from < i /\ i <= to THEN i + amount ELSE i
  IN [m \in Marker |-> IF m \in which THEN moved(clamped(mpos[m])) ELSE mpos[m]]

(* The copying loops: the text from .. to-1 goes to the other side of a    *)
(* gap of g bytes; s goes to address at; the block grows by n bytes.       *)
CopyUp(mem, g, from, to) ==
  [i \in DOMAIN mem |-> IF from + g <= i /\ i < to + g THEN mem[i - g] ELSE mem[i]]

CopyDown(mem, g, from, to) ==
  [i \in DOMAIN mem |-> IF from <= i /\ i < to THEN mem[i + g] ELSE mem[i]]

Store(mem, at, s) ==
  [i \in DOMAIN mem |-> IF at <= i /\ i < at + Len(s) THEN s[i - at + 1] ELSE mem[i]]

Realloc(mem, size, n) ==
  [i \in 1 .. (size + n) |-> IF i <= size THEN mem[i] ELSE Junk]

(* Mutant of GapLeft: the markers stay behind. *)
GapLeftOnly(b, r) == [b EXCEPT !.mem = CopyUp(b.mem, b.gap, r, b.gpt), !.gpt = r]

(* gap_left and gap_right, as far as position r *)
GapLeft(b, r) ==
  [b EXCEPT
     !.mem = CopyUp(b.mem, b.gap, r, b.gpt),
     !.mpos = AdjustMarkers(b.mpos, r, b.gpt, b.gap, Marker),
     !.gpt = r]

GapRight(b, r) ==
  [b EXCEPT
     !.mem = CopyDown(b.mem, b.gap, b.gpt, r),
     !.mpos = AdjustMarkers(b.mpos, b.gpt + b.gap, r + b.gap, -b.gap, Marker),
     !.gpt = r]

MoveGap(b, p) ==
  IF p < b.gpt THEN GapLeft(b, p) ELSE IF p > b.gpt THEN GapRight(b, p) ELSE b

(* Where the loop of gap_left or gap_right on its way to p can notice a    *)
(* quit: before a chunk, or at the end.                                    *)
QuitStops(b, p) ==
  IF p = b.gpt THEN {}
  ELSE {p} \cup {r \in 1 .. b.z :
                   /\ (p < r /\ r <= b.gpt) \/ (b.gpt <= r /\ r < p)
                   /\ (r - b.gpt) % Chunk = 0}

(* make_gap: the new memory is first a gap at the end of the whole space,  *)
(* moved down to the old gap and then joined with it.                      *)
MakeGap(b, increment) ==
  LET new == increment + GapExtra
      size == b.z - 1 + b.gap
      atEnd == [b EXCEPT
                  !.mem = Realloc(b.mem, size, new),
                  !.gpt = b.z + b.gap, !.gap = new]
  IN [GapLeft(atEnd, b.gpt + b.gap) EXCEPT !.gap = new + b.gap, !.gpt = b.gpt]

EnsureGap(b, n) == IF b.gap < n THEN MakeGap(b, n - b.gap) ELSE b

(* The copy into the gap that ends insert2, anchor byte included. *)
FillGap(b, s) ==
  LET n == Len(s) IN
  [b EXCEPT
     !.mem = [Store(b.mem, b.gpt, s) EXCEPT ![b.gpt + n] = Nul],
     !.gap = b.gap - n, !.gpt = b.gpt + n,
     !.zv = b.zv + n, !.z = b.z + n, !.pt = b.pt + n]

(* Mutant of Insert2: no room is made for the anchor. *)
Insert2NoRoom(b, s) == FillGap(EnsureGap(MoveGap(b, b.pt), Len(s)), s)

(* insert2 after prepare_to_modify_buffer *)
Insert2(b, s) == FillGap(EnsureGap(MoveGap(b, b.pt), Len(s) + 1), s)

(* the insertion, and then the markers at the old point that are pushed    *)
InsertAdjusting(b, s, opoint, pushed) ==
  LET after == Insert2(b, s) IN
  [after EXCEPT !.mpos = AdjustMarkers(@, opoint - 1, opoint, Len(s), pushed)]

(* Mutant of CloseText: point in the deleted text goes back with what follows it. *)
CloseTextPoint(b, from, to) ==
  LET numdel == to - from IN
  [b EXCEPT
     !.pt = IF from < b.pt THEN b.pt - numdel ELSE b.pt,
     !.mpos = AdjustMarkers(b.mpos, to + b.gap, to + b.gap, - numdel - b.gap, Marker),
     !.gap = b.gap + numdel, !.zv = b.zv - numdel, !.z = b.z - numdel,
     !.gpt = from]

(* buffer-substring needs from .. to-1 in one piece. *)
GapBefore(b, from, to) == IF from < b.gpt /\ b.gpt < to THEN MoveGap(b, from) ELSE b

(* del_range after prepare_to_modify_buffer and record_delete *)
CloseText(b, from, to) ==
  LET numdel == to - from IN
  [b EXCEPT
     !.pt = IF from < b.pt THEN IF b.pt < to THEN from ELSE b.pt - numdel ELSE b.pt,
     !.mpos = AdjustMarkers(b.mpos, to + b.gap, to + b.gap, - numdel - b.gap, Marker),
     !.gap = b.gap + numdel, !.zv = b.zv - numdel, !.z = b.z - numdel,
     !.gpt = from]

(* insert-file-contents: the file is read straight into the gap. *)
ReadIntoGap(b, s) ==
  LET n == Len(s)
      c == EnsureGap(MoveGap(b, b.pt), n)
  IN [c EXCEPT
        !.mem = Store(c.mem, c.gpt, s),
        !.gap = c.gap - n, !.gpt = c.gpt + n, !.zv = c.zv + n, !.z = c.z + n]

(* subst-char-in-region: old becomes new, in place, on both sides of the gap *)
Replace(mem, addresses, old, new) ==
  [i \in DOMAIN mem |-> IF i \in addresses /\ mem[i] = old THEN new ELSE mem[i]]

Addresses(t, g, from, to) == {IF p < t THEN p ELSE p + g : p \in from .. (to - 1)}

SubstText(b, from, to, old, new) ==
  [b EXCEPT !.mem = Replace(b.mem, Addresses(b.gpt, b.gap, from, to), old, new)]

-----------------------------------------------------------------------------
Init ==
  /\ buf = [mem |-> [i \in 1 .. InitGap |-> Junk], gap |-> InitGap, gpt |-> 1,
            begv |-> 1, pt |-> 1, zv |-> 1, z |-> 1,
            mpos |-> [m \in Marker |-> Nowhere]]
  /\ pointType = {}
  /\ call = None

Idle == call.op = "none"

(* insert, insert_before_markers and insert-after-markers push the markers *)
(* at point that are of the point type, all of them, or none.              *)
Pushes == {"point type", "all", "none"}

Pushed(which) ==
  CASE which = "point type" -> pointType
    [] which = "all" -> Marker
    [] which = "none" -> {}

StartInsert(s, which) ==
  /\ Idle
  /\ Len(s) >= 1 /\ buf.z + Len(s) <= MaxPos
  /\ call' = [op |-> "insert", s |-> s, which |-> which, opoint |-> buf.pt]
  /\ UNCHANGED <<buf, pointType>>

FinishInsert ==
  /\ call.op = "insert"
  /\ buf' = InsertAdjusting(buf, call.s, call.opoint, Pushed(call.which))
  /\ call' = None
  /\ UNCHANGED pointType

(* C-g while the gap moves to point *)
QuitInsert ==
  /\ call.op = "insert"
  /\ \E r \in QuitStops(buf, buf.pt) : buf' = MoveGap(buf, r)
  /\ call' = None
  /\ UNCHANGED pointType

(* Mutant of DeleteTarget: a gap beyond the deleted text is left there. *)
DeleteTargetOneSided(from, to) == IF from > buf.gpt THEN from ELSE buf.gpt

(* The gap must be in or next to what is deleted. *)
DeleteTarget(from, to) ==
  IF from > buf.gpt THEN from ELSE IF to < buf.gpt THEN to ELSE buf.gpt

ClipFrom(from) == IF from < buf.begv THEN buf.begv ELSE from
ClipTo(to) == IF to > buf.zv THEN buf.zv ELSE to

StartDelete(from, to) ==
  /\ Idle
  /\ ClipTo(to) - ClipFrom(from) > 0
  /\ buf' = MoveGap(buf, DeleteTarget(ClipFrom(from), ClipTo(to)))
  /\ call' = [op |-> "delete", from |-> ClipFrom(from), to |-> ClipTo(to)]
  /\ UNCHANGED pointType

(* C-g while the gap moves to the text to be deleted *)
QuitDelete(from, to) ==
  /\ Idle
  /\ ClipTo(to) - ClipFrom(from) > 0
  /\ \E r \in QuitStops(buf, DeleteTarget(ClipFrom(from), ClipTo(to))) : buf' = MoveGap(buf, r)
  /\ UNCHANGED <<pointType, call>>

(* record_delete takes the text out with buffer-substring, which moves the *)
(* gap out of it; a buffer without undo information does not.              *)
FinishDelete ==
  /\ call.op = "delete"
  /\ \E b \in {buf, GapBefore(buf, call.from, call.to)} :
       buf' = CloseText(b, call.from, call.to)
  /\ call' = None
  /\ UNCHANGED pointType

QuitRecordDelete ==
  /\ call.op = "delete"
  /\ call.from < buf.gpt /\ buf.gpt < call.to
  /\ \E r \in QuitStops(buf, call.from) : buf' = MoveGap(buf, r)
  /\ call' = None
  /\ UNCHANGED pointType

(* prepare_to_modify_buffer signals: read-only buffer, or the user yields. *)
AbortCall ==
  /\ call.op \in {"insert", "delete"}
  /\ call' = None
  /\ UNCHANGED <<buf, pointType>>

(* A reader moves the gap out of its way (buffer-substring and others), or *)
(* anyone moves it and is stopped by a quit.                               *)
MoveGapTo(p) ==
  /\ Idle
  /\ p \in buf.begv .. buf.zv
  /\ \/ buf' = MoveGap(buf, p)
     \/ \E r \in QuitStops(buf, p) : buf' = MoveGap(buf, r)
  /\ UNCHANGED <<pointType, call>>

InsertFile(s) ==
  /\ Idle
  /\ Len(s) >= 1 /\ buf.z + Len(s) <= MaxPos
  /\ buf' = ReadIntoGap(buf, s)
  /\ UNCHANGED <<pointType, call>>

SubstChar(from, to, old, new) ==
  /\ Idle
  /\ buf.begv <= from /\ from <= to /\ to <= buf.zv
  /\ buf' = SubstText(buf, from, to, old, new)
  /\ UNCHANGED <<pointType, call>>

GotoChar(p) ==
  /\ Idle
  /\ buf.begv <= p /\ p <= buf.zv
  /\ buf' = [buf EXCEPT !.pt = p]
  /\ UNCHANGED <<pointType, call>>

NarrowToRegion(b, e) ==
  /\ Idle
  /\ 1 <= b /\ b <= e /\ e <= buf.z
  /\ buf' = [buf EXCEPT !.begv = b, !.zv = e,
                        !.pt = IF @ < b THEN b ELSE IF @ > e THEN e ELSE @]
  /\ UNCHANGED <<pointType, call>>

SetMarker(m, p) ==
  /\ Idle
  /\ 1 <= p /\ p <= buf.z
  /\ buf' = [buf EXCEPT !.mpos[m] = BufPos(buf, p)]
  /\ UNCHANGED <<pointType, call>>

UnchainMarker(m) ==
  /\ Idle
  /\ buf' = [buf EXCEPT !.mpos[m] = Nowhere]
  /\ UNCHANGED <<pointType, call>>

SetMarkerType(m, t) ==
  /\ Idle
  /\ pointType' = IF t THEN pointType \cup {m} ELSE pointType \ {m}
  /\ UNCHANGED <<buf, call>>

Next ==
  \/ \E s \in Strings, which \in Pushes : StartInsert(s, which)
  \/ FinishInsert
  \/ QuitInsert
  \/ \E from, to \in 1 .. MaxPos : StartDelete(from, to) \/ QuitDelete(from, to)
  \/ FinishDelete
  \/ QuitRecordDelete
  \/ AbortCall
  \/ \E p \in 1 .. MaxPos : MoveGapTo(p)
  \/ \E s \in Strings : InsertFile(s)
  \/ \E from, to \in 1 .. MaxPos, old, new \in Char : SubstChar(from, to, old, new)
  \/ \E p \in 1 .. MaxPos : GotoChar(p)
  \/ \E b, e \in 1 .. MaxPos : NarrowToRegion(b, e)
  \/ \E m \in Marker, p \in 1 .. MaxPos : SetMarker(m, p)
  \/ \E m \in Marker : UnchainMarker(m)
  \/ \E m \in Marker, t \in BOOLEAN : SetMarkerType(m, t)

Spec == Init /\ [][Next]_vars

-----------------------------------------------------------------------------
Calls ==
  {None}
  \cup [op : {"insert"}, s : Strings, which : Pushes, opoint : Nat]
  \cup [op : {"delete"}, from : Nat, to : Nat]

TypeOK ==
  /\ buf \in [mem : [1 .. (buf.z - 1 + buf.gap) -> Byte], gap : Nat, gpt : Nat,
              begv : Nat, pt : Nat, zv : Nat, z : Nat, mpos : [Marker -> Nat]]
  /\ pointType \subseteq Marker
  /\ call \in Calls

(* The order of the positions that every address computation in buffer.h  *)
(* relies on, and the bound that insert2 checks before it grows the text.  *)
PositionsOrdered ==
  /\ 1 <= buf.begv /\ buf.begv <= buf.pt /\ buf.pt <= buf.zv /\ buf.zv <= buf.z
  /\ 1 <= buf.gpt /\ buf.gpt <= buf.z
  /\ buf.z <= MaxPos

(* No marker is left inside the gap or past the text: marker-position      *)
(* aborts Emacs on the latter, and insertion would give the former a place *)
(* in the middle of the new text.                                          *)
MarkersOutsideGap ==
  \A m \in Marker :
    /\ buf.mpos[m] <= buf.gpt \/ buf.mpos[m] > buf.gpt + buf.gap
    /\ buf.mpos[m] <= buf.z + buf.gap

(* What the user reads is always characters, never the anchor byte, gap    *)
(* leftovers or fresh memory.                                              *)
TextIsCharacters == \A p \in 1 .. (buf.z - 1) : Fetch(buf, p) \in Char

(* When the deletion or insertion that was interrupted by                  *)
(* prepare_to_modify_buffer goes on, what it computed before is still      *)
(* true: the gap is in or next to the deleted text, all of it accessible;  *)
(* opoint is where the insertion will happen, and the text will fit.       *)
CallStillValid ==
  /\ call.op = "delete" =>
       /\ buf.begv <= call.from /\ call.from < call.to /\ call.to <= buf.zv
       /\ call.from <= buf.gpt /\ buf.gpt <= call.to
  /\ call.op = "insert" => call.opoint = buf.pt /\ buf.z + Len(call.s) <= MaxPos

Abstract ==
  INSTANCE TextSpec WITH
    text <- Contents(buf), z <- buf.z, begv <- buf.begv, zv <- buf.zv, pt <- buf.pt,
    mark <- MarksOf(buf)

(* Whatever the gap does, and wherever a quit stops it, the user sees only *)
(* the insertions, deletions and motions of TextSpec, whole or not at all. *)
ImplementsText == Abstract!Spec
=============================================================================
