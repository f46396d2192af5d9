--------------------------- MODULE RedisplayHints ---------------------------
(***************************************************************************)
(* What insdel.c tells redisplay about the changes of the current buffer:  *)
(* beg_unchanged and end_unchanged, kept by the motions of the gap, by     *)
(* deletion and by changes in place, but not by insertion; and the         *)
(* redisplay that relies on them.  The changes are those of GapBuffer.     *)
(***************************************************************************)
EXTENDS GapBuffer

VARIABLES hints,     \* [beg |-> beg_unchanged, end |-> end_unchanged]
          fresh,     \* unchanged_modified = MODIFF
          untouched, \* ghost: how much of the text, at its beginning and its
                     \* end, no change has touched since the last redisplay
          misled     \* ghost: the hints were set apart from the gap

hinting == <<hints, fresh, untouched, misled>>

Least(a, b) == IF a < b THEN a ELSE b
Lower(h, beg, end) == [beg |-> Least(h.beg, beg), end |-> Least(h.end, end)]
Before(b) == b.gpt - 1
After(b) == b.z - b.gpt
Everything(b) == [beg |-> b.z - 1, end |-> b.z - 1]

InitHints ==
  /\ Init
  /\ hints = [beg |-> Before(buf), end |-> After(buf)] /\ fresh = TRUE
  /\ untouched = Everything(buf) /\ misled = FALSE

(* Mutant of Motion: where the gap comes from does not count. *)
MotionTo(p) ==
  IF p = buf.gpt THEN hints
  ELSE IF fresh THEN [beg |-> p - 1, end |-> buf.z - p]
  ELSE Lower(hints, p - 1, buf.z - p)

(* gap_left and gap_right on the way to p, before anything is copied.      *)
Motion(p) ==
  IF p = buf.gpt THEN hints
  ELSE IF fresh THEN [beg |-> p - 1, end |-> buf.z - p]
  ELSE IF p < buf.gpt THEN Lower(hints, p - 1, After(buf))
  ELSE Lower(hints, Before(buf), buf.z - p)

(* The gap moves towards p and gets to r.                                  *)
Moved(p, r) ==
  /\ hints' = Motion(p)
  /\ misled' = IF fresh /\ p # buf.gpt THEN p > r ELSE misled
  /\ UNCHANGED <<fresh, untouched>>

(* A change between beg characters and end characters is counted.          *)
Touched(beg, end) == fresh' = FALSE /\ untouched' = Lower(untouched, beg, end)

(* Insertion: of the hints only those of the motion.                       *)
Inserted ==
  /\ hints' = Motion(buf.pt)
  /\ misled' = (misled /\ ~(fresh /\ buf.pt # buf.gpt))
  /\ Touched(buf.pt - 1, buf.z - buf.pt)

Deleted(h, from, to) == Lower(h, from - 1, buf.z - to)

(* modify_region.                                                          *)
Modified(from, to) ==
  IF fresh THEN [beg |-> from - 1, end |-> buf.z - to] ELSE Lower(hints, from - 1, buf.z - to)

Same == UNCHANGED hinting
-----------------------------------------------------------------------------
Insertion == FinishInsert /\ Inserted

(* A character typed at the end of a line is shown at once.                *)
InsertionShown ==
  /\ FinishInsert /\ fresh /\ Len(call.s) = 1
  /\ hints' = [Motion(buf.pt) EXCEPT !.beg = Before(buf')]
  /\ untouched' = Everything(buf') /\ misled' = FALSE /\ UNCHANGED fresh

Reading(s) == InsertFile(s) /\ Inserted

Deletion ==
  /\ FinishDelete
  /\ \E b \in {buf, GapBefore(buf, call.from, call.to)} :
       /\ buf' = CloseText(b, call.from, call.to)
       /\ hints' = Deleted(Motion(b.gpt), call.from, call.to)
       /\ misled' = (misled /\ ~(fresh /\ b.gpt # buf.gpt))
  /\ Touched(call.from - 1, buf.z - call.to)

Substitution(from, to, old, new) ==
  /\ SubstChar(from, to, old, new)
  /\ hints' = Modified(from, to)
  /\ misled' = IF fresh THEN hints'.beg > Before(buf) ELSE misled
  /\ Touched(from - 1, buf.z - to)

GapMotion ==
  \/ \E p \in 1 .. MaxPos : MoveGapTo(p) /\ Moved(p, buf'.gpt)
  \/ \E from, to \in 1 .. MaxPos :
       (StartDelete(from, to) \/ QuitDelete(from, to))
         /\ Moved(DeleteTarget(ClipFrom(from), ClipTo(to)), buf'.gpt)
  \/ QuitInsert /\ Moved(buf.pt, buf'.gpt)
  \/ QuitRecordDelete /\ Moved(call.from, buf'.gpt)

(* redisplay that finishes; it may come while the user is asked a question. *)
Redisplay ==
  /\ hints' = [beg |-> Before(buf), end |-> After(buf)] /\ fresh' = TRUE
  /\ untouched' = Everything(buf) /\ misled' = FALSE
  /\ UNCHANGED vars

(* try_window_id, and then input comes before the screen is updated.       *)
RedisplayPauses ==
  /\ ~fresh /\ hints' = Lower(hints, Before(buf), After(buf))
  /\ UNCHANGED <<vars, fresh, untouched, misled>>

Elsewhere ==
  \/ \E s \in Strings, which \in Pushes : StartInsert(s, which)
  \/ AbortCall
  \/ \E p \in 1 .. MaxPos : GotoChar(p)
  \/ \E b, e \in 1 .. MaxPos : NarrowToRegion(b, e)
  \/ \E m \in Marker, p \in 1 .. MaxPos : SetMarker(m, p)
  \/ \E m \in Marker : UnchainMarker(m)
  \/ \E m \in Marker, t \in BOOLEAN : SetMarkerType(m, t)

NextHints ==
  \/ Insertion \/ InsertionShown \/ Deletion \/ GapMotion \/ Redisplay \/ RedisplayPauses
  \/ \E s \in Strings : Reading(s)
  \/ \E from, to \in 1 .. MaxPos, old, new \in Char : Substitution(from, to, old, new)
  \/ Elsewhere /\ Same

SpecWithHints == InitHints /\ [][NextHints]_<<vars, hinting>>
-----------------------------------------------------------------------------
(* What redisplay takes for unchanged was not changed: the lines it does   *)
(* not draw again show the text there is.                                  *)
Claims == Lower(hints, Before(buf), After(buf))
UnchangedWasUntouched ==
  ~fresh => Claims.beg <= untouched.beg /\ Claims.end <= untouched.end

(* It holds unless the first motion or change since the redisplay left     *)
(* beg_unchanged beyond the gap.                                           *)
UnchangedUnlessMisled == ~misled => UnchangedWasUntouched
=============================================================================
