------------------------------ MODULE TextSpec ------------------------------
(***************************************************************************)
(* What a buffer promises to the Lisp programs that edit it: a text of     *)
(* characters at positions 1 .. z-1, point, the accessible range           *)
(* begv .. zv, and markers that keep their place in the text.  No gap, no  *)
(* memory, no quit.  GapBuffer implements this specification.              *)
(***************************************************************************)
EXTENDS Integers

CONSTANTS Char,     \* characters
          Marker,   \* marker objects
          MaxPos    \* the largest position a Lisp integer can hold

VARIABLES text,      \* position -> character
          z,         \* end of text: one more than the number of characters
          begv, zv,  \* accessible range
          pt,        \* point
          mark,      \* marker -> position, Nowhere if it points nowhere
          pointType  \* the markers that insertion at their place pushes along

vars == <<text, z, begv, zv, pt, mark, pointType>>

Nowhere == 0

Init ==
  /\ z = 1 /\ begv = 1 /\ zv = 1 /\ pt = 1
  /\ text = [p \in 1 .. 0 |-> Nowhere]
  /\ mark = [m \in Marker |-> Nowhere]
  /\ pointType = {}

(* The text with s (of length n) put in before position p. *)
Spliced(p, s, n) ==
  [i \in 1 .. (z - 1 + n) |->
     IF i < p THEN text[i] ELSE IF i < p + n THEN s[i - p + 1] ELSE text[i - n]]

(* Markers after p move with the text they precede; those at p only when  *)
(* they are in the set pushed.                                             *)
MarksAfterInsert(p, n, pushed) ==
  [m \in Marker |->
     IF mark[m] > p \/ (mark[m] = p /\ m \in pushed) THEN mark[m] + n ELSE mark[m]]

(* insert pushes the point-type markers, insert-before-markers all of      *)
(* them, insert-after-markers none.                                        *)
Insert(s, n, pushed) ==
  /\ n >= 1 /\ z + n <= MaxPos
  /\ pt' = pt + n /\ zv' = zv + n /\ z' = z + n
  /\ mark' = MarksAfterInsert(pt, n, pushed)
  /\ text' = Spliced(pt, s, n)
  /\ UNCHANGED <<begv, pointType>>

(* A file's text goes in after point. *)
InsertFile(s, n) ==
  /\ n >= 1 /\ z + n <= MaxPos
  /\ zv' = zv + n /\ z' = z + n /\ pt' = pt
  /\ mark' = MarksAfterInsert(pt, n, {})
  /\ text' = Spliced(pt, s, n)
  /\ UNCHANGED <<begv, pointType>>

(* Where position p is after the text from .. to-1 is gone. *)
Closed(p, from, to) ==
  IF p <= from THEN p ELSE IF p < to THEN from ELSE p - (to - from)

Delete(from, to) ==
  /\ begv <= from /\ from < to /\ to <= zv
  /\ zv' = zv - (to - from) /\ z' = z - (to - from)
  /\ text' = [i \in 1 .. (z - 1 - (to - from)) |->
                IF i < from THEN text[i] ELSE text[i + (to - from)]]
  /\ mark' = [m \in Marker |-> Closed(mark[m], from, to)]
  /\ pt' = Closed(pt, from, to)
  /\ UNCHANGED <<begv, pointType>>

Subst(from, to, old, new) ==
  /\ begv <= from /\ from <= to /\ to <= zv
  /\ UNCHANGED <<z, begv, zv, pt, mark, pointType>>
  /\ text' = [i \in 1 .. (z - 1) |->
                IF from <= i /\ i < to /\ text[i] = old THEN new ELSE text[i]]

Goto(p) ==
  /\ begv <= p /\ p <= zv
  /\ pt' = p
  /\ UNCHANGED <<z, begv, zv, mark, pointType, text>>

Narrow(b, e) ==
  /\ 1 <= b /\ b <= e /\ e <= z
  /\ begv' = b /\ zv' = e
  /\ pt' = IF pt < b THEN b ELSE IF pt > e THEN e ELSE pt
  /\ UNCHANGED <<text, z, mark, pointType>>

SetMarker(m, p) ==
  /\ p = Nowhere \/ (1 <= p /\ p <= z)
  /\ mark' = [mark EXCEPT ![m] = p]
  /\ UNCHANGED <<text, z, begv, zv, pt, pointType>>

SetMarkerType(m, t) ==
  /\ pointType' = IF t THEN pointType \cup {m} ELSE pointType \ {m}
  /\ UNCHANGED <<text, z, begv, zv, pt, mark>>

Next ==
  \/ \E n \in 1 .. MaxPos : \E s \in [1 .. n -> Char], pushed \in {{}, pointType, Marker} :
       Insert(s, n, pushed)
  \/ \E n \in 1 .. MaxPos : \E s \in [1 .. n -> Char] : InsertFile(s, n)
  \/ \E from, to \in 1 .. MaxPos : Delete(from, to)
  \/ \E from, to \in 1 .. MaxPos, old, new \in Char : Subst(from, to, old, new)
  \/ \E p \in 1 .. MaxPos : Goto(p)
  \/ \E b, e \in 1 .. MaxPos : Narrow(b, e)
  \/ \E m \in Marker, p \in 0 .. MaxPos : SetMarker(m, p)
  \/ \E m \in Marker, t \in BOOLEAN : SetMarkerType(m, t)

Spec == Init /\ [][Next]_vars
=============================================================================
