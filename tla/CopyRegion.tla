----------------------------- MODULE CopyRegion -----------------------------
(***************************************************************************)
(* insert-buffer-substring of editfns.c when the buffer it copies from is  *)
(* the current one: RedisplayHints with one more change of the text.       *)
(*                                                                         *)
(* The text goes in as two insertions, what is before the gap and what is  *)
(* after it, each from an address taken in the buffer's own memory.  If    *)
(* the insertion reallocates that memory, the address is stale.            *)
(***************************************************************************)
EXTENDS RedisplayHints

(* The bytes from an address in memory, as insert copies them.  When it    *)
(* has to make the gap longer first, freed memory may be read.             *)
Copied(b, p, n) ==
  LET there == [k \in 1 .. n |-> Fetch(b, p + k - 1)] IN
  IF b.gap < n + 1 THEN {there, [k \in 1 .. n |-> Junk]} ELSE {there}

(* insert at point, where the gap is, the n characters at p: b itself if   *)
(* there are none.                                                         *)
InsertCopies(b, p, n) ==
  IF n < 1 THEN {b} ELSE {InsertAdjusting(b, s, b.pt, pointType) : s \in Copied(b, p, n)}

(* Mutant of Prepared: the gap is left where it is. *)
PreparedInPlace(b, n) == EnsureGap(b, n)

Prepared(b, n) == EnsureGap(MoveGap(b, b.pt), n)

(* The first insertion moves the gap: the second starts from there. *)
InsertBufferSubstring(beg, end) ==
  /\ Idle /\ UNCHANGED <<pointType, call>>
  /\ buf.begv <= beg /\ beg <= end /\ end <= buf.zv
  /\ buf.z + (end - beg) <= MaxPos
  /\ LET prepared == Prepared(buf, end - beg)
         before == IF beg < prepared.gpt THEN Least(end, prepared.gpt) - beg ELSE 0
     IN \E b \in InsertCopies(prepared, beg, before) :
          LET rest == IF beg < prepared.gpt THEN Least(end, b.gpt) ELSE beg IN
          \E c \in InsertCopies(b, rest, end - rest) : buf' = c

(* Arguments out of range: the gap has been moved and lengthened already.  *)
OutOfRange(beg, end) ==
  /\ Idle
  /\ beg <= end /\ end - beg <= MaxInsert /\ ~ (buf.begv <= beg /\ end <= buf.zv)
  /\ buf' = Prepared(buf, end - beg)
  /\ UNCHANGED <<pointType, call>>

(* The gap motion tells redisplay its part, the insertions theirs.         *)
Copying(beg, end) ==
  \/ beg < end /\ InsertBufferSubstring(beg, end) /\ Inserted
  \/ beg = end /\ InsertBufferSubstring(beg, end) /\ Moved(buf.pt, buf.pt)
  \/ OutOfRange(beg, end) /\ Moved(buf.pt, buf.pt)

(* A region around point, or a gap without a byte to spare, may leave text *)
(* that was never there (RegionIsCopied and InsertionMovesNoGap below).    *)
OneSide(beg, end) == end <= buf.pt \/ buf.pt <= beg
LongGap(beg, end) == Prepared(buf, end - beg).gap > end - beg
CopyingAside(beg, end) == OneSide(beg, end) /\ LongGap(beg, end) /\ Copying(beg, end)

NextWithCopy == NextHints \/ \E beg, end \in 1 .. MaxPos : CopyingAside(beg, end)
SpecWithCopy == InitHints /\ [][NextWithCopy]_<<vars, hinting>>

NextWithEveryCopy == NextHints \/ \E beg, end \in 1 .. MaxPos : Copying(beg, end)
SpecWithEveryCopy == InitHints /\ [][NextWithEveryCopy]_<<vars, hinting>>
-----------------------------------------------------------------------------
InsertedIsRegion(beg, end) ==
  /\ buf'.z = buf.z + (end - beg) /\ buf'.pt = buf.pt + (end - beg)
  /\ \A i \in 1 .. (buf'.z - 1) :
       Fetch(buf', i) =
         IF i < buf.pt THEN Fetch(buf, i)
         ELSE IF i < buf'.pt THEN Fetch(buf, i - buf.pt + beg)
         ELSE Fetch(buf, i - (end - beg))

(* A region on one side of point is copied as it is, if the gap has a byte *)
(* to spare.                                                               *)
OneSideIsCopied ==
  [][\A beg, end \in 1 .. MaxPos :
       InsertBufferSubstring(beg, end) /\ OneSide(beg, end) /\ LongGap(beg, end)
         => InsertedIsRegion(beg, end)]_vars

(* editfns.c:902 "so it matters not if BUF is the current buffer": what is *)
(* inserted is the region, wherever point is in it.                        *)
RegionIsCopied ==
  [][\A beg, end \in 1 .. MaxPos :
       LongGap(beg, end) /\ InsertBufferSubstring(beg, end) => InsertedIsRegion(beg, end)]_vars

(* editfns.c:901 "Now the actual insertion will not do any gap motion":    *)
(* the block is not reallocated after the gap was made long enough.        *)
InsertionMovesNoGap ==
  [][\A beg, end \in 1 .. MaxPos :
       InsertBufferSubstring(beg, end)
         => Len(buf'.mem) = Len(Prepared(buf, end - beg).mem)]_vars
=============================================================================
