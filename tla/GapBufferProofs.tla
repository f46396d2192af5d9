-------------------------- MODULE GapBufferProofs --------------------------
(***************************************************************************)
(* Proofs about the text of a buffer, for every set of characters and      *)
(* markers and every value of the sizes: first lemmas about the operators  *)
(* of GapBuffer, what each does to a buffer, with the invariants and that  *)
(* it implements TextSpec; then the same with the output of subprocesses   *)
(* (ProcessOutput), and with redisplay and copies (CopyRegion).            *)
(***************************************************************************)
EXTENDS ProcessOutput, CopyRegion, SequenceTheorems, TLAPS

(* One buffer that satisfies the invariants of GapBuffer.  The lemmas are  *)
(* about such values, and only the theorems about the variable buf.        *)
Typed(b) ==
  b \in [mem : [1 .. (b.z - 1 + b.gap) -> Byte], gap : Nat, gpt : Nat,
         begv : Nat, pt : Nat, zv : Nat, z : Nat, mpos : [Marker -> Nat]]

GapInText(b) == 1 <= b.gpt /\ b.gpt <= b.z

MarkerOutsideGap(b, i) ==
  (i <= b.gpt \/ i > b.gpt + b.gap) /\ i <= b.z + b.gap

Sound(b) ==
  /\ Typed(b)
  /\ GapInText(b)
  /\ \A m \in Marker : MarkerOutsideGap(b, b.mpos[m])
  /\ \A p \in 1 .. (b.z - 1) : Fetch(b, p) \in Char

(* c shows the user the same as b. *)
SameView(b, c) ==
  /\ c.z = b.z /\ c.begv = b.begv /\ c.zv = b.zv /\ c.pt = b.pt
  /\ \A p \in 1 .. (b.z - 1) : Fetch(c, p) = Fetch(b, p)
  /\ \A m \in Marker : CharPos(c, c.mpos[m]) = CharPos(b, b.mpos[m])

-----------------------------------------------------------------------------
(* The parts of a buffer as values of their own.  The arithmetic below is  *)
(* about a gap of g bytes at position t of a text that ends at z.          *)
Parts(b, mem, g, t, z, mp) ==
  b.mem = mem /\ b.gap = g /\ b.gpt = t /\ b.z = z /\ b.mpos = mp

FetchAt(mem, t, g, p) == mem[IF p < t THEN p ELSE p + g]

CharPosAt(t, g, i) == IF i > t + g THEN i - g ELSE IF i > t THEN t ELSE i

OutsideAt(t, g, z, i) == (i <= t \/ i > t + g) /\ i <= z + g

Memory(mem, g, z) == mem \in [1 .. (z - 1 + g) -> Byte]

Marks(mp, t, g, z) == mp \in [Marker -> Nat] /\ \A m \in Marker : OutsideAt(t, g, z, mp[m])

SameText(mem2, t2, g2, mem, t, g, z) ==
  \A p \in 1 .. (z - 1) : FetchAt(mem2, t2, g2, p) = FetchAt(mem, t, g, p)

SameMarks(mp2, t2, g2, mp, t, g) ==
  \A m \in Marker : CharPosAt(t2, g2, mp2[m]) = CharPosAt(t, g, mp[m])

LEMMA PartsExist ==
  ASSUME NEW b, Sound(b)
  PROVE  \E g, t, z \in Nat : \E mem, mp :
           /\ 1 <= t /\ t <= z
           /\ Memory(mem, g, z) /\ Marks(mp, t, g, z) /\ Parts(b, mem, g, t, z, mp)
<1>1. b.gap \in Nat /\ b.gpt \in Nat /\ b.z \in Nat /\ 1 <= b.gpt /\ b.gpt <= b.z
  BY DEF Sound, Typed, GapInText
<1>2. Memory(b.mem, b.gap, b.z) /\ b.mpos \in [Marker -> Nat]
  BY DEF Sound, Typed, Memory
<1>3. Marks(b.mpos, b.gpt, b.gap, b.z)
  BY <1>2 DEF Sound, Marks, MarkerOutsideGap, OutsideAt
<1>4. Parts(b, b.mem, b.gap, b.gpt, b.z, b.mpos)
  BY DEF Parts
<1> QED
  BY <1>1, <1>2, <1>3, <1>4

(* What the operators on buffers mean in terms of the parts. *)
LEMMA PartsMeaning ==
  ASSUME NEW b, NEW g, NEW t, NEW z, NEW mem, NEW mp, Parts(b, mem, g, t, z, mp)
  PROVE  /\ \A p : Fetch(b, p) = FetchAt(mem, t, g, p)
         /\ \A m \in Marker : /\ CharPos(b, b.mpos[m]) = CharPosAt(t, g, mp[m])
                              /\ MarkerOutsideGap(b, b.mpos[m]) <=> OutsideAt(t, g, z, mp[m])
<1>1. b.mem = mem /\ b.gap = g /\ b.gpt = t /\ b.z = z /\ b.mpos = mp
  BY DEF Parts
<1>2. ASSUME NEW p PROVE Fetch(b, p) = FetchAt(mem, t, g, p)
  BY <1>1 DEF Fetch, FetchAt
<1>3. ASSUME NEW m \in Marker
      PROVE  /\ CharPos(b, b.mpos[m]) = CharPosAt(t, g, mp[m])
             /\ MarkerOutsideGap(b, b.mpos[m]) <=> OutsideAt(t, g, z, mp[m])
  BY <1>1 DEF CharPos, CharPosAt, MarkerOutsideGap, OutsideAt
<1> QED
  BY <1>2, <1>3

(* A buffer made of good parts is sound. *)
Built(c, mem, g, t, begv, pt, zv, z, mp) ==
  /\ c = [mem |-> mem, gap |-> g, gpt |-> t, begv |-> begv, pt |-> pt,
          zv |-> zv, z |-> z, mpos |-> mp]
  /\ begv \in Nat /\ pt \in Nat /\ zv \in Nat

LEMMA SoundFromParts ==
  ASSUME NEW c, NEW g \in Nat, NEW t \in Nat, NEW z \in Nat, 1 <= t, t <= z,
         NEW mem, Memory(mem, g, z), NEW mp, Marks(mp, t, g, z),
         NEW begv, NEW pt, NEW zv, Built(c, mem, g, t, begv, pt, zv, z, mp),
         \A p \in 1 .. (z - 1) : FetchAt(mem, t, g, p) \in Char
  PROVE  Sound(c) /\ Parts(c, mem, g, t, z, mp)
<1>1. Parts(c, mem, g, t, z, mp)
  BY DEF Parts, Built
<1>2. Typed(c)
  BY DEF Typed, Built, Memory, Marks
<1>3. GapInText(c)
  BY <1>1 DEF GapInText, Parts
<1>4. \A m \in Marker : MarkerOutsideGap(c, c.mpos[m])
  BY <1>1, PartsMeaning DEF Marks
<1>5. \A p \in 1 .. (c.z - 1) : Fetch(c, p) \in Char
  <2>1. \A p : Fetch(c, p) = FetchAt(mem, t, g, p)
    BY <1>1, PartsMeaning
  <2>2. c.z = z
    BY <1>1 DEF Parts
  <2> QED
    BY <2>1, <2>2
<1> QED
  BY <1>1, <1>2, <1>3, <1>4, <1>5 DEF Sound

-----------------------------------------------------------------------------
(* Memory after gap_left, gap_right and make_gap, as a function of the     *)
(* memory before.                                                          *)
LEMMA LeftMemory ==
  ASSUME NEW g \in Nat, NEW t \in Nat, NEW z \in Nat, NEW r \in Nat,
         1 <= r, r <= t, t <= z, NEW mem, Memory(mem, g, z),
         NEW new, new = CopyUp(mem, g, r, t)
  PROVE  Memory(new, g, z) /\ SameText(new, r, g, mem, t, g, z)
<1>0. mem \in [1 .. (z - 1 + g) -> Byte]
  BY DEF Memory
<1>1. DOMAIN mem = 1 .. (z - 1 + g)
  BY <1>0
<1>2. ASSUME NEW i \in 1 .. (z - 1 + g)
      PROVE  (IF r + g <= i /\ i < t + g THEN mem[i - g] ELSE mem[i]) \in Byte
  <2>1. r + g <= i => i - g \in 1 .. (z - 1 + g)
    OBVIOUS
  <2> QED
    BY <1>0, <2>1
<1>3. new \in [1 .. (z - 1 + g) -> Byte]
  BY <1>1, <1>2 DEF CopyUp
<1>4. ASSUME NEW p \in 1 .. (z - 1)
      PROVE  FetchAt(new, r, g, p) = FetchAt(mem, t, g, p)
  <2>1. /\ p \in 1 .. (z - 1 + g) /\ p + g \in 1 .. (z - 1 + g) /\ (p + g) - g = p
        /\ p < r => p < t /\ ~ (r + g <= p)
        /\ ~ (p < r) => r + g <= p + g
        /\ p + g < t + g <=> p < t
    OBVIOUS
  <2>2. \A i \in 1 .. (z - 1 + g) :
          new[i] = IF r + g <= i /\ i < t + g THEN mem[i - g] ELSE mem[i]
    BY <1>1 DEF CopyUp
  <2>3. /\ new[p] = IF r + g <= p /\ p < t + g THEN mem[p - g] ELSE mem[p]
        /\ new[p + g] = IF r + g <= p + g /\ p + g < t + g THEN mem[p] ELSE mem[p + g]
    BY <2>1, <2>2
  <2> QED
    BY <2>1, <2>3 DEF FetchAt
<1> QED
  BY <1>3, <1>4 DEF Memory, SameText

LEMMA RightMemory ==
  ASSUME NEW g \in Nat, NEW t \in Nat, NEW z \in Nat, NEW r \in Nat,
         1 <= t, t <= r, r <= z, NEW mem, Memory(mem, g, z),
         NEW new, new = CopyDown(mem, g, t, r)
  PROVE  Memory(new, g, z) /\ SameText(new, r, g, mem, t, g, z)
<1>0. mem \in [1 .. (z - 1 + g) -> Byte]
  BY DEF Memory
<1>1. DOMAIN mem = 1 .. (z - 1 + g)
  BY <1>0
<1>2. ASSUME NEW i \in 1 .. (z - 1 + g)
      PROVE  (IF t <= i /\ i < r THEN mem[i + g] ELSE mem[i]) \in Byte
  <2>1. i < r => i + g \in 1 .. (z - 1 + g)
    OBVIOUS
  <2> QED
    BY <1>0, <2>1
<1>3. new \in [1 .. (z - 1 + g) -> Byte]
  BY <1>1, <1>2 DEF CopyDown
<1>4. ASSUME NEW p \in 1 .. (z - 1)
      PROVE  FetchAt(new, r, g, p) = FetchAt(mem, t, g, p)
  <2>1. /\ p \in 1 .. (z - 1 + g) /\ p + g \in 1 .. (z - 1 + g)
        /\ ~ (p < r) => ~ (p < t) /\ ~ (p + g < r)
        /\ t <= p <=> ~ (p < t)
    OBVIOUS
  <2>2. \A i \in 1 .. (z - 1 + g) :
          new[i] = IF t <= i /\ i < r THEN mem[i + g] ELSE mem[i]
    BY <1>1 DEF CopyDown
  <2>3. /\ new[p] = IF t <= p /\ p < r THEN mem[p + g] ELSE mem[p]
        /\ new[p + g] = IF t <= p + g /\ p + g < r THEN mem[(p + g) + g] ELSE mem[p + g]
    BY <2>1, <2>2
  <2> QED
    BY <2>1, <2>3 DEF FetchAt
<1> QED
  BY <1>3, <1>4 DEF Memory, SameText

LEMMA GrownMemory ==
  ASSUME NEW g \in Nat, NEW t \in Nat, NEW z \in Nat, 1 <= t, t <= z, NEW n \in Nat,
         NEW mem, Memory(mem, g, z),
         NEW old, old = Realloc(mem, z - 1 + g, n),
         NEW new, new = CopyUp(old, n, t + g, z + g)
  PROVE  Memory(new, n + g, z) /\ SameText(new, t, n + g, mem, t, g, z)
<1>0. mem \in [1 .. (z - 1 + g) -> Byte]
  BY DEF Memory
<1>1. DOMAIN old = 1 .. (z - 1 + g + n) /\ z - 1 + g + n = z - 1 + (n + g)
  BY DEF Realloc
<1>2. \A i \in 1 .. (z - 1 + g + n) : old[i] \in Byte
  BY <1>0 DEF Byte, Realloc
<1>3. ASSUME NEW i \in 1 .. (z - 1 + g + n)
      PROVE  (IF t + g + n <= i /\ i < z + g + n THEN old[i - n] ELSE old[i]) \in Byte
  <2>1. t + g + n <= i => i - n \in 1 .. (z - 1 + g + n)
    OBVIOUS
  <2> QED
    BY <1>2, <2>1
<1>4. new \in [1 .. (z - 1 + (n + g)) -> Byte]
  BY <1>1, <1>3 DEF CopyUp
<1>5. ASSUME NEW p \in 1 .. (z - 1)
      PROVE  FetchAt(new, t, n + g, p) = FetchAt(mem, t, g, p)
  <2>1. /\ p \in 1 .. (z - 1 + g + n) /\ p + (n + g) \in 1 .. (z - 1 + g + n)
        /\ p <= z - 1 + g /\ p + g <= z - 1 + g
        /\ p + g \in 1 .. (z - 1 + g + n)
        /\ (p + (n + g)) - n = p + g
        /\ p < t => ~ (t + g + n <= p)
        /\ ~ (p < t) => t + g + n <= p + (n + g)
        /\ p + (n + g) < z + g + n
    OBVIOUS
  <2>2. \A i \in 1 .. (z - 1 + g + n) :
          /\ new[i] = IF t + g + n <= i /\ i < z + g + n THEN old[i - n] ELSE old[i]
          /\ i <= z - 1 + g => old[i] = mem[i]
    BY <1>1 DEF CopyUp, Realloc
  <2> QED
    BY <2>1, <2>2 DEF FetchAt
<1> QED
  BY <1>4, <1>5 DEF Memory, SameText

-----------------------------------------------------------------------------
(* Markers: adjusted to the motion or the growth of the gap, they stay     *)
(* outside it and before the same characters.                              *)
LEMMA LeftMarkers ==
  ASSUME NEW g \in Nat, NEW t \in Nat, NEW z \in Nat, NEW r \in Nat,
         1 <= r, r <= t, t <= z,
         NEW mp, Marks(mp, t, g, z),
         NEW new, new = AdjustMarkers(mp, r, t, g, Marker)
  PROVE  Marks(new, r, g, z) /\ SameMarks(new, r, g, mp, t, g)
<1>1. ASSUME NEW m \in Marker
      PROVE  /\ mp[m] \in Nat /\ OutsideAt(t, g, z, mp[m])
             /\ new[m] = IF r < mp[m] /\ mp[m] <= t THEN mp[m] + g ELSE mp[m]
  BY DEF AdjustMarkers, OutsideAt, Marks
<1>2. ASSUME NEW m \in Marker
      PROVE  new[m] \in Nat /\ OutsideAt(r, g, z, new[m])
  BY <1>1 DEF OutsideAt
<1>3. ASSUME NEW m \in Marker
      PROVE  CharPosAt(r, g, new[m]) = CharPosAt(t, g, mp[m])
  BY <1>1 DEF OutsideAt, CharPosAt
<1>4. new = [m \in Marker |-> new[m]]
  BY DEF AdjustMarkers
<1> QED
  BY <1>2, <1>3, <1>4 DEF Marks, SameMarks

LEMMA RightMarkers ==
  ASSUME NEW g \in Nat, NEW t \in Nat, NEW z \in Nat, NEW r \in Nat,
         1 <= t, t <= r, r <= z,
         NEW mp, Marks(mp, t, g, z),
         NEW new, new = AdjustMarkers(mp, t + g, r + g, -g, Marker)
  PROVE  Marks(new, r, g, z) /\ SameMarks(new, r, g, mp, t, g)
<1>1. ASSUME NEW m \in Marker
      PROVE  /\ mp[m] \in Nat /\ OutsideAt(t, g, z, mp[m])
             /\ new[m] = IF t + g < mp[m] /\ mp[m] <= r + g THEN mp[m] - g ELSE mp[m]
  BY DEF AdjustMarkers, OutsideAt, Marks
<1>2. ASSUME NEW m \in Marker
      PROVE  new[m] \in Nat /\ OutsideAt(r, g, z, new[m])
  BY <1>1 DEF OutsideAt
<1>3. ASSUME NEW m \in Marker
      PROVE  CharPosAt(r, g, new[m]) = CharPosAt(t, g, mp[m])
  BY <1>1 DEF OutsideAt, CharPosAt
<1>4. new = [m \in Marker |-> new[m]]
  BY DEF AdjustMarkers
<1> QED
  BY <1>2, <1>3, <1>4 DEF Marks, SameMarks

LEMMA GrownMarkers ==
  ASSUME NEW g \in Nat, NEW t \in Nat, NEW z \in Nat, 1 <= t, t <= z, NEW n \in Nat, n >= 1,
         NEW mp, Marks(mp, t, g, z),
         NEW new, new = AdjustMarkers(mp, t + g, z + g, n, Marker)
  PROVE  Marks(new, t, n + g, z) /\ SameMarks(new, t, n + g, mp, t, g)
<1>1. ASSUME NEW m \in Marker
      PROVE  /\ mp[m] \in Nat /\ OutsideAt(t, g, z, mp[m])
             /\ new[m] = IF t + g < mp[m] THEN mp[m] + n ELSE mp[m]
  BY DEF AdjustMarkers, OutsideAt, Marks
<1>2. ASSUME NEW m \in Marker
      PROVE  new[m] \in Nat /\ OutsideAt(t, n + g, z, new[m])
  BY <1>1 DEF OutsideAt
<1>3. ASSUME NEW m \in Marker
      PROVE  CharPosAt(t, n + g, new[m]) = CharPosAt(t, g, mp[m])
  BY <1>1 DEF OutsideAt, CharPosAt
<1>4. new = [m \in Marker |-> new[m]]
  BY DEF AdjustMarkers
<1> QED
  BY <1>2, <1>3, <1>4 DEF Marks, SameMarks

-----------------------------------------------------------------------------
(* An insertion takes the first n bytes of the gap for the text s; markers *)
(* after the gap, and those in pushed that are at it, go past the new text. *)
FilledText(mem2, t2, g2, mem, t, g, z, s, n) ==
  \A i \in 1 .. (z - 1 + n) :
     FetchAt(mem2, t2, g2, i) =
       IF i < t THEN FetchAt(mem, t, g, i)
       ELSE IF i < t + n THEN s[i - t + 1] ELSE FetchAt(mem, t, g, i - n)

PushedPos(q, p, n, member) == IF q > p \/ (q = p /\ member) THEN q + n ELSE q

FilledMarks(mp2, t2, g2, mp, t, g, n, pushed) ==
  \A m \in Marker :
     CharPosAt(t2, g2, mp2[m]) = PushedPos(CharPosAt(t, g, mp[m]), t, n, m \in pushed)

LEMMA FilledMarkers ==
  ASSUME NEW g \in Nat, NEW t \in Nat, NEW z \in Nat, 1 <= t, t <= z,
         NEW n \in Nat, n >= 1, n <= g, NEW pushed \in SUBSET Marker,
         NEW mp, Marks(mp, t, g, z),
         NEW new, new = AdjustMarkers(mp, t - 1, t, n, pushed)
  PROVE  /\ Marks(new, t + n, g - n, z + n)
         /\ FilledMarks(new, t + n, g - n, mp, t, g, n, pushed)
<1>1. ASSUME NEW m \in Marker
      PROVE  /\ mp[m] \in Nat /\ OutsideAt(t, g, z, mp[m])
             /\ new[m] = IF m \in pushed /\ mp[m] = t THEN t + n ELSE mp[m]
  BY DEF AdjustMarkers, OutsideAt, Marks
<1>2. ASSUME NEW m \in Marker
      PROVE  new[m] \in Nat /\ OutsideAt(t + n, g - n, z + n, new[m])
  BY <1>1 DEF OutsideAt
<1>3. ASSUME NEW m \in Marker
      PROVE  CharPosAt(t + n, g - n, new[m]) =
               PushedPos(CharPosAt(t, g, mp[m]), t, n, m \in pushed)
  BY <1>1 DEF OutsideAt, CharPosAt, PushedPos
<1>4. new = [m \in Marker |-> new[m]]
  BY DEF AdjustMarkers
<1> QED
  BY <1>2, <1>3, <1>4 DEF Marks, FilledMarks

(* insert-file-contents adjusts no marker. *)
LEMMA FilledMarkersUntouched ==
  ASSUME NEW g \in Nat, NEW t \in Nat, NEW z \in Nat, 1 <= t, t <= z,
         NEW n \in Nat, n <= g, NEW mp, Marks(mp, t, g, z)
  PROVE  /\ Marks(mp, t + n, g - n, z + n)
         /\ FilledMarks(mp, t + n, g - n, mp, t, g, n, {})
<1>1. ASSUME NEW m \in Marker
      PROVE  mp[m] \in Nat /\ OutsideAt(t, g, z, mp[m])
  BY DEF Marks
<1>2. ASSUME NEW m \in Marker
      PROVE  OutsideAt(t + n, g - n, z + n, mp[m])
  BY <1>1 DEF OutsideAt
<1>3. ASSUME NEW m \in Marker
      PROVE  CharPosAt(t + n, g - n, mp[m]) = PushedPos(CharPosAt(t, g, mp[m]), t, n, m \in {})
  BY <1>1 DEF OutsideAt, CharPosAt, PushedPos
<1> QED
  BY <1>2, <1>3 DEF Marks, FilledMarks

LEMMA FilledMemory ==
  ASSUME NEW g \in Nat, NEW t \in Nat, NEW z \in Nat, 1 <= t, t <= z,
         NEW n \in Nat, n <= g, NEW s \in [1 .. n -> Char],
         NEW mem, Memory(mem, g, z), NEW new, Memory(new, g, z),
         \A i \in 1 .. (z - 1 + g) :
            /\ t <= i /\ i < t + n => new[i] = s[i - t + 1]
            /\ i < t \/ t + g <= i => new[i] = mem[i]
  PROVE  /\ Memory(new, g - n, z + n)
         /\ FilledText(new, t + n, g - n, mem, t, g, z, s, n)
<1>1. ASSUME NEW i \in 1 .. (z - 1 + n)
      PROVE  FetchAt(new, t + n, g - n, i) =
               IF i < t THEN FetchAt(mem, t, g, i)
               ELSE IF i < t + n THEN s[i - t + 1] ELSE FetchAt(mem, t, g, i - n)
  <2>1. /\ i < t + n => i \in 1 .. (z - 1 + g)
        /\ ~ (i < t + n) =>
             /\ i + (g - n) \in 1 .. (z - 1 + g) /\ t + g <= i + (g - n)
             /\ (i - n) + g = i + (g - n) /\ ~ (i - n < t)
        /\ i < t => i < t + n
        /\ ~ (i < t) => t <= i
    OBVIOUS
  <2>2. CASE i < t
    BY <2>1, <2>2 DEF FetchAt
  <2>3. CASE ~ (i < t) /\ i < t + n
    BY <2>1, <2>3 DEF FetchAt
  <2>4. CASE ~ (i < t + n)
    <3>1. new[i + (g - n)] = mem[i + (g - n)]
      BY <2>1, <2>4
    <3> QED
      BY <2>1, <2>4, <3>1 DEF FetchAt
  <2> QED
    BY <2>2, <2>3, <2>4
<1>2. z + n - 1 + (g - n) = z - 1 + g
  OBVIOUS
<1> QED
  BY <1>1, <1>2 DEF FilledText, Memory

-----------------------------------------------------------------------------
(* A deletion gives the text from .. to-1 to the gap.  The markers of that *)
(* text, and those at its end, go to its start.                            *)
ClosedText(mem2, t2, g2, mem, t, g, z, from, to) ==
  \A i \in 1 .. (z - (to - from) - 1) :
     FetchAt(mem2, t2, g2, i) =
       IF i < from THEN FetchAt(mem, t, g, i) ELSE FetchAt(mem, t, g, i + (to - from))

ClosedPos(q, from, to) ==
  IF q <= from THEN q ELSE IF q < to THEN from ELSE q - (to - from)

ClosedMarks(mp2, t2, g2, mp, t, g, from, to) ==
  \A m \in Marker : CharPosAt(t2, g2, mp2[m]) = ClosedPos(CharPosAt(t, g, mp[m]), from, to)

LEMMA ClosedMarkers ==
  ASSUME NEW g \in Nat, NEW t \in Nat, NEW z \in Nat, NEW from \in Nat, NEW to \in Nat,
         1 <= from, from <= t, t <= to, to <= z, from < to,
         NEW mp, Marks(mp, t, g, z),
         NEW new, new = AdjustMarkers(mp, to + g, to + g, -(to - from) - g, Marker)
  PROVE  /\ Marks(new, from, g + (to - from), z - (to - from))
         /\ ClosedMarks(new, from, g + (to - from), mp, t, g, from, to)
<1>1. ASSUME NEW m \in Marker
      PROVE  /\ mp[m] \in Nat /\ OutsideAt(t, g, z, mp[m])
             /\ new[m] = IF from < mp[m] /\ mp[m] <= to + g THEN from ELSE mp[m]
  BY DEF AdjustMarkers, OutsideAt, Marks
<1>2. ASSUME NEW m \in Marker
      PROVE  new[m] \in Nat /\ OutsideAt(from, g + (to - from), z - (to - from), new[m])
  BY <1>1 DEF OutsideAt
<1>3. ASSUME NEW m \in Marker
      PROVE  CharPosAt(from, g + (to - from), new[m]) =
               ClosedPos(CharPosAt(t, g, mp[m]), from, to)
  BY <1>1 DEF OutsideAt, CharPosAt, ClosedPos
<1>4. new = [m \in Marker |-> new[m]]
  BY DEF AdjustMarkers
<1> QED
  BY <1>2, <1>3, <1>4 DEF Marks, ClosedMarks

LEMMA ClosedMemory ==
  ASSUME NEW g \in Nat, NEW t \in Nat, NEW z \in Nat, NEW from \in Nat, NEW to \in Nat,
         1 <= from, from <= t, t <= to, to <= z, from < to,
         NEW mem, Memory(mem, g, z)
  PROVE  /\ Memory(mem, g + (to - from), z - (to - from))
         /\ ClosedText(mem, from, g + (to - from), mem, t, g, z, from, to)
<1>1. z - (to - from) - 1 + (g + (to - from)) = z - 1 + g
  OBVIOUS
<1>2. ClosedText(mem, from, g + (to - from), mem, t, g, z, from, to)
  BY DEF ClosedText, FetchAt
<1> QED
  BY <1>1, <1>2 DEF Memory

-----------------------------------------------------------------------------
(* If only the gap, the memory and the markers changed, and every position *)
(* and marker still means the same, the buffer is sound and shows the same. *)
LEMMA SoundSameView ==
  ASSUME NEW b, Sound(b), NEW g, NEW t, NEW z \in Nat, NEW mem, NEW mp,
         Parts(b, mem, g, t, z, mp),
         NEW c, NEW g2 \in Nat, NEW t2 \in Nat, 1 <= t2, t2 <= z, NEW mem2, NEW mp2,
         Memory(mem2, g2, z), Marks(mp2, t2, g2, z),
         Built(c, mem2, g2, t2, b.begv, b.pt, b.zv, z, mp2),
         SameText(mem2, t2, g2, mem, t, g, z), SameMarks(mp2, t2, g2, mp, t, g)
  PROVE  Sound(c) /\ SameView(b, c) /\ c.gap = g2 /\ c.gpt = t2
<1>1. b.z = z
  BY DEF Parts
<1>2. \A p : Fetch(b, p) = FetchAt(mem, t, g, p)
  BY PartsMeaning
<1>3. \A p \in 1 .. (z - 1) : FetchAt(mem2, t2, g2, p) \in Char
  BY <1>1, <1>2 DEF Sound, SameText
<1>4. Sound(c) /\ Parts(c, mem2, g2, t2, z, mp2)
  BY <1>3, SoundFromParts
<1>5. /\ \A p : Fetch(c, p) = FetchAt(mem2, t2, g2, p)
      /\ \A m \in Marker : CharPos(c, c.mpos[m]) = CharPosAt(t2, g2, mp2[m])
  BY <1>4, PartsMeaning
<1>6. \A m \in Marker : CharPos(b, b.mpos[m]) = CharPosAt(t, g, mp[m])
  BY PartsMeaning
<1>7. c.begv = b.begv /\ c.pt = b.pt /\ c.zv = b.zv /\ c.z = z /\ c.gap = g2 /\ c.gpt = t2
  BY DEF Built
<1>8. \A p \in 1 .. (b.z - 1) : Fetch(c, p) = Fetch(b, p)
  BY <1>1, <1>2, <1>5 DEF SameText
<1>9. \A m \in Marker : CharPos(c, c.mpos[m]) = CharPos(b, b.mpos[m])
  BY <1>5, <1>6 DEF SameMarks
<1> QED
  BY <1>1, <1>4, <1>7, <1>8, <1>9 DEF SameView

(* gap_left keeps a sound buffer sound, puts the gap at r, and changes     *)
(* nothing the user sees.                                                  *)
LEMMA GapLeftSound ==
  ASSUME NEW b, Sound(b), NEW r \in Nat, 1 <= r, r <= b.gpt,
         NEW c, c = GapLeft(b, r)
  PROVE  Sound(c) /\ SameView(b, c) /\ c.gap = b.gap /\ c.gpt = r
<1>1. PICK g \in Nat, t \in Nat, z \in Nat : \E mem, mp :
        /\ 1 <= t /\ t <= z
        /\ Memory(mem, g, z) /\ Marks(mp, t, g, z) /\ Parts(b, mem, g, t, z, mp)
  BY PartsExist
<1>2. PICK mem, mp :
        /\ 1 <= t /\ t <= z
        /\ Memory(mem, g, z) /\ Marks(mp, t, g, z) /\ Parts(b, mem, g, t, z, mp)
  BY <1>1
<1>3. r <= t /\ r <= z
  BY <1>2 DEF Parts
<1>4. PICK mem2, mp2 : mem2 = CopyUp(mem, g, r, t) /\ mp2 = AdjustMarkers(mp, r, t, g, Marker)
  OBVIOUS
<1>5. Built(c, mem2, g, r, b.begv, b.pt, b.zv, z, mp2)
  BY <1>2, <1>4 DEF GapLeft, Parts, Sound, Typed, Built
<1>6. Memory(mem2, g, z) /\ SameText(mem2, r, g, mem, t, g, z)
  BY <1>2, <1>3, <1>4, LeftMemory
<1>7. Marks(mp2, r, g, z) /\ SameMarks(mp2, r, g, mp, t, g)
  BY <1>2, <1>3, <1>4, LeftMarkers
<1>8. Sound(c) /\ SameView(b, c) /\ c.gap = g /\ c.gpt = r
  BY <1>2, <1>3, <1>5, <1>6, <1>7, SoundSameView
<1> QED
  BY <1>2, <1>8 DEF Parts

LEMMA GapRightSound ==
  ASSUME NEW b, Sound(b), NEW r \in Nat, b.gpt <= r, r <= b.z,
         NEW c, c = GapRight(b, r)
  PROVE  Sound(c) /\ SameView(b, c) /\ c.gap = b.gap /\ c.gpt = r
<1>1. PICK g \in Nat, t \in Nat, z \in Nat : \E mem, mp :
        /\ 1 <= t /\ t <= z
        /\ Memory(mem, g, z) /\ Marks(mp, t, g, z) /\ Parts(b, mem, g, t, z, mp)
  BY PartsExist
<1>2. PICK mem, mp :
        /\ 1 <= t /\ t <= z
        /\ Memory(mem, g, z) /\ Marks(mp, t, g, z) /\ Parts(b, mem, g, t, z, mp)
  BY <1>1
<1>3. t <= r /\ r <= z /\ 1 <= r
  BY <1>2 DEF Parts
<1>4. PICK mem2, mp2 : mem2 = CopyDown(mem, g, t, r) /\ mp2 = AdjustMarkers(mp, t + g, r + g, -g, Marker)
  OBVIOUS
<1>5. Built(c, mem2, g, r, b.begv, b.pt, b.zv, z, mp2)
  BY <1>2, <1>4 DEF GapRight, Parts, Sound, Typed, Built
<1>6. Memory(mem2, g, z) /\ SameText(mem2, r, g, mem, t, g, z)
  BY <1>2, <1>3, <1>4, RightMemory
<1>7. Marks(mp2, r, g, z) /\ SameMarks(mp2, r, g, mp, t, g)
  BY <1>2, <1>3, <1>4, RightMarkers
<1>8. Sound(c) /\ SameView(b, c) /\ c.gap = g /\ c.gpt = r
  BY <1>2, <1>3, <1>5, <1>6, <1>7, SoundSameView
<1> QED
  BY <1>2, <1>8 DEF Parts

LEMMA MoveGapSound ==
  ASSUME NEW b, Sound(b), NEW p \in Nat, 1 <= p, p <= b.z,
         NEW c, c = MoveGap(b, p)
  PROVE  Sound(c) /\ SameView(b, c) /\ c.gap = b.gap /\ c.gpt = p
<1>1. b.gpt \in Nat /\ b.z \in Nat
  BY DEF Sound, Typed
<1>2. CASE p < b.gpt
  BY <1>1, <1>2, GapLeftSound DEF MoveGap
<1>3. CASE p > b.gpt
  BY <1>1, <1>3, GapRightSound DEF MoveGap
<1>4. CASE p = b.gpt
  BY <1>1, <1>4 DEF MoveGap, SameView
<1> QED
  BY <1>1, <1>2, <1>3, <1>4

(* Wherever a quit stops the gap, it is within the text. *)
LEMMA QuitStopsInText ==
  ASSUME NEW b, Sound(b), NEW p \in Nat, 1 <= p, p <= b.z, NEW r \in QuitStops(b, p)
  PROVE  r \in Nat /\ 1 <= r /\ r <= b.z
<1>1. b.z \in Nat
  BY DEF Sound, Typed
<1> QED
  BY <1>1 DEF QuitStops

(* make_gap lengthens the gap where it is. *)
LEMMA MakeGapSound ==
  ASSUME NEW b, Sound(b), NEW increment \in Nat,
         NEW c, c = MakeGap(b, increment)
  PROVE  Sound(c) /\ SameView(b, c) /\ c.gap = increment + GapExtra + b.gap /\ c.gpt = b.gpt
<1>1. PICK g \in Nat, t \in Nat, z \in Nat : \E mem, mp :
        /\ 1 <= t /\ t <= z
        /\ Memory(mem, g, z) /\ Marks(mp, t, g, z) /\ Parts(b, mem, g, t, z, mp)
  BY PartsExist
<1>2. PICK mem, mp :
        /\ 1 <= t /\ t <= z
        /\ Memory(mem, g, z) /\ Marks(mp, t, g, z) /\ Parts(b, mem, g, t, z, mp)
  BY <1>1
<1>3. PICK n \in Nat : n = increment + GapExtra /\ n >= 1
  BY SizeAssumption
<1>4. PICK old : old = Realloc(mem, z - 1 + g, n)
  OBVIOUS
<1>5. PICK mem2, mp2 : mem2 = CopyUp(old, n, t + g, z + g)
                       /\ mp2 = AdjustMarkers(mp, t + g, z + g, n, Marker)
  OBVIOUS
<1>6. Built(c, mem2, n + g, t, b.begv, b.pt, b.zv, z, mp2)
  <2>1. PICK atEnd : atEnd = [b EXCEPT !.mem = old, !.gpt = z + g, !.gap = n]
    OBVIOUS
  <2>2. c = [GapLeft(atEnd, t + g) EXCEPT !.gap = n + g, !.gpt = t]
    BY <1>2, <1>3, <1>4, <2>1 DEF MakeGap, Parts
  <2>3. atEnd = [mem |-> old, gap |-> n, gpt |-> z + g, begv |-> b.begv, pt |-> b.pt,
                 zv |-> b.zv, z |-> z, mpos |-> mp]
    BY <1>2, <2>1 DEF Parts, Sound, Typed
  <2>4. GapLeft(atEnd, t + g) =
          [mem |-> mem2, gap |-> n, gpt |-> t + g, begv |-> b.begv, pt |-> b.pt,
           zv |-> b.zv, z |-> z, mpos |-> mp2]
    <3>1. /\ atEnd.mem = old /\ atEnd.gap = n /\ atEnd.gpt = z + g /\ atEnd.mpos = mp
      BY <2>3
    <3>2. GapLeft(atEnd, t + g) = [atEnd EXCEPT !.mem = mem2, !.mpos = mp2, !.gpt = t + g]
      BY <1>5, <3>1 DEF GapLeft
    <3> QED
      BY <2>3, <3>2
  <2>5. b.begv \in Nat /\ b.pt \in Nat /\ b.zv \in Nat
    BY DEF Sound, Typed
  <2>6. c = [mem |-> mem2, gap |-> n + g, gpt |-> t, begv |-> b.begv, pt |-> b.pt,
             zv |-> b.zv, z |-> z, mpos |-> mp2]
    <3>1. PICK left : left = GapLeft(atEnd, t + g)
      OBVIOUS
    <3>2. left = [mem |-> mem2, gap |-> n, gpt |-> t + g, begv |-> b.begv, pt |-> b.pt,
                  zv |-> b.zv, z |-> z, mpos |-> mp2]
      BY <2>4, <3>1
    <3>3. c = [left EXCEPT !.gap = n + g, !.gpt = t]
      BY <2>2, <3>1
    <3> QED
      BY <3>2, <3>3
  <2> QED
    BY <2>5, <2>6 DEF Built
<1>7. Memory(mem2, n + g, z) /\ SameText(mem2, t, n + g, mem, t, g, z)
  BY <1>2, <1>4, <1>5, GrownMemory
<1>8. Marks(mp2, t, n + g, z) /\ SameMarks(mp2, t, n + g, mp, t, g)
  BY <1>2, <1>3, <1>5, GrownMarkers
<1>9. n + g \in Nat
  OBVIOUS
<1>10. Sound(c) /\ SameView(b, c) /\ c.gap = n + g /\ c.gpt = t
  BY <1>2, <1>6, <1>7, <1>8, <1>9, SoundSameView
<1> QED
  BY <1>2, <1>3, <1>10 DEF Parts

LEMMA EnsureGapSound ==
  ASSUME NEW b, Sound(b), NEW n \in Nat, NEW c, c = EnsureGap(b, n)
  PROVE  Sound(c) /\ SameView(b, c) /\ c.gap >= n /\ c.gpt = b.gpt
<1>1. b.gap \in Nat
  BY DEF Sound, Typed
<1>2. CASE b.gap < n
  <2>1. n - b.gap \in Nat /\ c = MakeGap(b, n - b.gap)
    BY <1>1, <1>2 DEF EnsureGap
  <2>2. Sound(c) /\ SameView(b, c) /\ c.gap = (n - b.gap) + GapExtra + b.gap /\ c.gpt = b.gpt
    BY <2>1, MakeGapSound
  <2> QED
    BY <1>1, <2>2, SizeAssumption
<1>3. CASE ~ (b.gap < n)
  BY <1>1, <1>3 DEF EnsureGap, SameView
<1> QED
  BY <1>2, <1>3

(* What every insertion does first: the gap at point, and large enough. *)
LEMMA GapAtPoint ==
  ASSUME NEW b, Sound(b), NEW n \in Nat, 1 <= b.pt, b.pt <= b.z,
         NEW c, c = EnsureGap(MoveGap(b, b.pt), n)
  PROVE  Sound(c) /\ SameView(b, c) /\ c.gap >= n /\ c.gpt = b.pt
<1>1. b.pt \in Nat
  BY DEF Sound, Typed
<1>2. PICK d : d = MoveGap(b, b.pt)
  OBVIOUS
<1>3. Sound(d) /\ SameView(b, d) /\ d.gpt = b.pt
  BY <1>1, <1>2, MoveGapSound
<1>4. Sound(c) /\ SameView(d, c) /\ c.gap >= n /\ c.gpt = b.pt
  BY <1>2, <1>3, EnsureGapSound
<1> QED
  BY <1>3, <1>4 DEF SameView

-----------------------------------------------------------------------------
(* Storing s at the start of the gap, with or without the anchor after it, *)
(* touches nothing but the gap.                                            *)
StoredAt(new, mem, g, t, z, s, n) ==
  /\ Memory(new, g, z)
  /\ \A i \in 1 .. (z - 1 + g) :
       /\ t <= i /\ i < t + n => new[i] = s[i - t + 1]
       /\ i < t \/ t + g <= i => new[i] = mem[i]

LEMMA StoredMemory ==
  ASSUME NEW g \in Nat, NEW t \in Nat, NEW z \in Nat, 1 <= t, t <= z,
         NEW n \in Nat, NEW s \in [1 .. n -> Char], NEW mem, Memory(mem, g, z)
  PROVE  /\ n <= g => StoredAt(Store(mem, t, s), mem, g, t, z, s, n)
         /\ n + 1 <= g => StoredAt([Store(mem, t, s) EXCEPT ![t + n] = Nul], mem, g, t, z, s, n)
<1>1. mem \in [1 .. (z - 1 + g) -> Byte] /\ DOMAIN mem = 1 .. (z - 1 + g)
  BY DEF Memory
<1>2. Len(s) = n
  <2>1. s \in Seq(Char)
    BY IsASeq
  <2> QED
    BY <2>1, LenProperties
<1>3. PICK new : new = Store(mem, t, s)
  OBVIOUS
<1>4. /\ DOMAIN new = 1 .. (z - 1 + g)
      /\ new = [i \in DOMAIN new |-> new[i]]
      /\ \A i \in 1 .. (z - 1 + g) :
           new[i] = IF t <= i /\ i < t + n THEN s[i - t + 1] ELSE mem[i]
  BY <1>1, <1>2, <1>3 DEF Store
<1>5. ASSUME NEW i \in 1 .. (z - 1 + g) PROVE new[i] \in Byte
  <2>1. t <= i /\ i < t + n => i - t + 1 \in 1 .. n
    OBVIOUS
  <2> QED
    BY <1>1, <1>4, <2>1 DEF Byte
<1>6. Memory(new, g, z)
  BY <1>4, <1>5 DEF Memory
<1>7. ASSUME NEW i \in 1 .. (z - 1 + g)
      PROVE  /\ t <= i /\ i < t + n => new[i] = s[i - t + 1]
             /\ i < t \/ t + n <= i => new[i] = mem[i]
  BY <1>4
<1>8. n <= g => StoredAt(new, mem, g, t, z, s, n)
  BY <1>6, <1>7 DEF StoredAt
<1>9. ASSUME n + 1 <= g
      PROVE  StoredAt([new EXCEPT ![t + n] = Nul], mem, g, t, z, s, n)
  <2>1. PICK anchored : anchored = [new EXCEPT ![t + n] = Nul]
    OBVIOUS
  <2>2. /\ anchored \in [1 .. (z - 1 + g) -> Byte]
        /\ \A i \in 1 .. (z - 1 + g) : i # t + n => anchored[i] = new[i]
    BY <1>6, <2>1 DEF Memory, Byte
  <2>3. ASSUME NEW i \in 1 .. (z - 1 + g)
        PROVE  (i < t + n \/ t + g <= i) => i # t + n /\ (t + g <= i => t + n <= i)
    BY <1>9
  <2>4. ASSUME NEW i \in 1 .. (z - 1 + g)
        PROVE  /\ t <= i /\ i < t + n => anchored[i] = s[i - t + 1]
               /\ i < t \/ t + g <= i => anchored[i] = mem[i]
    BY <1>7, <2>2, <2>3
  <2> QED
    BY <2>1, <2>2, <2>4 DEF StoredAt, Memory
<1> QED
  BY <1>3, <1>8, <1>9

(* d is b with s, of length n, put in before p and the markers pushed.     *)
TextInserted(b, d, p, s, n, pushed) ==
  /\ d.z = b.z + n /\ d.zv = b.zv + n /\ d.begv = b.begv
  /\ \A i \in 1 .. (b.z - 1 + n) :
       Fetch(d, i) = IF i < p THEN Fetch(b, i)
                     ELSE IF i < p + n THEN s[i - p + 1] ELSE Fetch(b, i - n)
  /\ \A m \in Marker : CharPos(d, d.mpos[m]) = PushedPos(CharPos(b, b.mpos[m]), p, n, m \in pushed)

(* The parts of an insertion: b has the gap at t, at least n long; d is    *)
(* what it becomes when s has gone into the gap.                           *)
InsertionParts(b, mem, g, t, z, mp, s, n, pushed, d, mem2, g2, t2, z2, zv2, pt2, mp2) ==
  /\ 1 <= t /\ t <= z /\ n <= g
  /\ Memory(mem, g, z) /\ Marks(mp, t, g, z) /\ Parts(b, mem, g, t, z, mp)
  /\ s \in [1 .. n -> Char]
  /\ t2 = t + n /\ g2 = g - n /\ z2 = z + n /\ zv2 = b.zv + n
  /\ StoredAt(mem2, mem, g, t, z, s, n)
  /\ Marks(mp2, t2, g2, z2) /\ FilledMarks(mp2, t2, g2, mp, t, g, n, pushed)
  /\ Built(d, mem2, g2, t2, b.begv, pt2, zv2, z2, mp2)

LEMMA InsertedFromParts ==
  ASSUME NEW b, Sound(b), NEW g \in Nat, NEW t \in Nat, NEW z \in Nat, NEW n \in Nat,
         NEW mem, NEW mp, NEW s, NEW pushed, NEW d, NEW mem2, NEW g2, NEW t2, NEW z2,
         NEW zv2, NEW pt2, NEW mp2,
         InsertionParts(b, mem, g, t, z, mp, s, n, pushed, d, mem2, g2, t2, z2, zv2, pt2, mp2)
  PROVE  Sound(d) /\ TextInserted(b, d, t, s, n, pushed) /\ d.pt = pt2
<1>0. /\ 1 <= t /\ t <= z /\ n <= g
      /\ Memory(mem, g, z) /\ Marks(mp, t, g, z) /\ Parts(b, mem, g, t, z, mp)
      /\ s \in [1 .. n -> Char]
      /\ t2 = t + n /\ g2 = g - n /\ z2 = z + n /\ zv2 = b.zv + n
      /\ StoredAt(mem2, mem, g, t, z, s, n)
      /\ Marks(mp2, t2, g2, z2) /\ FilledMarks(mp2, t2, g2, mp, t, g, n, pushed)
      /\ Built(d, mem2, g2, t2, b.begv, pt2, zv2, z2, mp2)
  BY DEF InsertionParts
<1>1. b.z = z
  BY <1>0 DEF Parts
<1>2. Memory(mem2, g2, z2) /\ FilledText(mem2, t2, g2, mem, t, g, z, s, n)
  BY <1>0, FilledMemory DEF StoredAt
<1>3. \A p : Fetch(b, p) = FetchAt(mem, t, g, p)
  BY <1>0, PartsMeaning
<1>4. ASSUME NEW p \in 1 .. (z2 - 1)
      PROVE  FetchAt(mem2, t2, g2, p) \in Char
  <2>1. /\ p \in 1 .. (z - 1 + n)
        /\ p < t => p \in 1 .. (z - 1)
        /\ ~ (p < t) /\ p < t + n => p - t + 1 \in 1 .. n
        /\ ~ (p < t + n) => p - n \in 1 .. (z - 1)
    BY <1>0
  <2>2. \A i \in 1 .. (z - 1) : FetchAt(mem, t, g, i) \in Char
    BY <1>1, <1>3 DEF Sound
  <2> QED
    BY <1>0, <1>2, <2>1, <2>2 DEF FilledText
<1>5. t2 \in Nat /\ g2 \in Nat /\ z2 \in Nat /\ 1 <= t2 /\ t2 <= z2
  BY <1>0
<1>6. Sound(d) /\ Parts(d, mem2, g2, t2, z2, mp2)
  BY <1>0, <1>2, <1>4, <1>5, SoundFromParts
<1>7. /\ \A p : Fetch(d, p) = FetchAt(mem2, t2, g2, p)
      /\ \A m \in Marker : CharPos(d, d.mpos[m]) = CharPosAt(t2, g2, mp2[m])
  BY <1>6, PartsMeaning
<1>8. \A m \in Marker : CharPos(b, b.mpos[m]) = CharPosAt(t, g, mp[m])
  BY <1>0, PartsMeaning
<1>9. d.z = z + n /\ d.zv = b.zv + n /\ d.begv = b.begv /\ d.pt = pt2
  BY <1>0 DEF Built
<1> QED
  BY <1>0, <1>1, <1>2, <1>3, <1>6, <1>7, <1>8, <1>9 DEF TextInserted, FilledText, FilledMarks

(* Point is in the text, accessible or not. *)
PointInText(b) == 1 <= b.pt /\ b.pt <= b.z

(* Point and the accessible range are where they should be. *)
Ordered(b) ==
  1 <= b.begv /\ b.begv <= b.pt /\ b.pt <= b.zv /\ b.zv <= b.z

LEMMA LenOfString ==
  ASSUME NEW n \in Nat, NEW s \in [1 .. n -> Char]
  PROVE  Len(s) = n
<1>1. s \in Seq(Char)
  BY IsASeq
<1> QED
  BY <1>1, LenProperties

(* s went in at point, and point and the gap are after it. *)
InsertedAtPoint(b, d, s, n, pushed) ==
  /\ TextInserted(b, d, b.pt, s, n, pushed)
  /\ d.pt = b.pt + n /\ d.gpt = d.pt

(* insert, insert_before_markers and insert-after-markers *)
LEMMA InsertSound ==
  ASSUME NEW b, Sound(b), PointInText(b),
         NEW n \in Nat, n >= 1, NEW s \in [1 .. n -> Char],
         NEW pushed \in SUBSET Marker,
         NEW opoint, opoint = b.pt, NEW d, d = InsertAdjusting(b, s, opoint, pushed)
  PROVE  Sound(d) /\ InsertedAtPoint(b, d, s, n, pushed)
<1>1. Len(s) = n
  BY LenOfString
<1>2. /\ b.begv \in Nat /\ b.pt \in Nat /\ b.zv \in Nat /\ b.z \in Nat
      /\ 1 <= b.pt /\ b.pt <= b.z
  BY DEF Sound, Typed, PointInText
<1>3. PICK c : c = EnsureGap(MoveGap(b, b.pt), n + 1)
  OBVIOUS
<1>4. Sound(c) /\ SameView(b, c) /\ c.gap >= n + 1 /\ c.gpt = b.pt
  BY <1>2, <1>3, GapAtPoint
<1>5. PICK g \in Nat, t \in Nat, z \in Nat : \E mem, mp :
        /\ 1 <= t /\ t <= z
        /\ Memory(mem, g, z) /\ Marks(mp, t, g, z) /\ Parts(c, mem, g, t, z, mp)
  BY <1>4, PartsExist
<1>6. PICK mem, mp :
        /\ 1 <= t /\ t <= z
        /\ Memory(mem, g, z) /\ Marks(mp, t, g, z) /\ Parts(c, mem, g, t, z, mp)
  BY <1>5
<1>7. t = b.pt /\ z = b.z /\ n + 1 <= g
  BY <1>4, <1>6 DEF Parts, SameView
<1>8. PICK mem2 : mem2 = [Store(mem, t, s) EXCEPT ![t + n] = Nul]
  OBVIOUS
<1>9. PICK mp2 : mp2 = AdjustMarkers(mp, t - 1, t, n, pushed)
  OBVIOUS
<1>10. StoredAt(mem2, mem, g, t, z, s, n)
  BY <1>6, <1>7, <1>8, StoredMemory
<1>11. n <= g
  BY <1>7
<1>v. c.zv \in Nat
  BY <1>2, <1>4 DEF SameView
<1>n. PICK t2, g2, z2, zv2 : t2 = t + n /\ g2 = g - n /\ z2 = z + n /\ zv2 = c.zv + n
  OBVIOUS
<1>12. Marks(mp2, t2, g2, z2) /\ FilledMarks(mp2, t2, g2, mp, t, g, n, pushed)
  BY <1>6, <1>9, <1>11, <1>n, FilledMarkers
<1>13. Built(d, mem2, g2, t2, c.begv, t2, zv2, z2, mp2)
  <2>1. PICK e : e = FillGap(c, s)
    OBVIOUS
  <2>2. d = [e EXCEPT !.mpos = AdjustMarkers(@, opoint - 1, opoint, n, pushed)]
    BY <1>1, <1>3, <2>1 DEF InsertAdjusting, Insert2
  <2>3. c.begv \in Nat /\ c.zv \in Nat /\ c.pt = t
    BY <1>2, <1>4, <1>7 DEF SameView
  <2>4. e = [mem |-> mem2, gap |-> g - n, gpt |-> t + n, begv |-> c.begv, pt |-> t + n,
             zv |-> c.zv + n, z |-> z + n, mpos |-> mp]
    BY <1>1, <1>4, <1>6, <1>8, <2>1, <2>3 DEF FillGap, Parts, Sound, Typed
  <2>5. d = [mem |-> mem2, gap |-> g - n, gpt |-> t + n, begv |-> c.begv, pt |-> t + n,
             zv |-> c.zv + n, z |-> z + n, mpos |-> mp2]
    BY <1>7, <1>9, <2>2, <2>4
  <2>6. t + n \in Nat /\ c.zv + n \in Nat
    BY <2>3
  <2> QED
    BY <1>n, <2>3, <2>5, <2>6 DEF Built
<1>14. Sound(d) /\ TextInserted(c, d, t, s, n, pushed) /\ d.pt = t2
  <2>1. InsertionParts(c, mem, g, t, z, mp, s, n, pushed, d, mem2, g2, t2, z2, zv2, t2, mp2)
    BY <1>6, <1>10, <1>11, <1>n, <1>12, <1>13 DEF InsertionParts
  <2>2. Sound(c)
    BY <1>4
  <2> QED
    BY <2>1, <2>2, InsertedFromParts
<1>15. TextInserted(b, d, t, s, n, pushed)
  <2>1. ASSUME NEW i \in 1 .. (b.z - 1 + n)
        PROVE  Fetch(d, i) = IF i < t THEN Fetch(b, i)
                             ELSE IF i < t + n THEN s[i - t + 1] ELSE Fetch(b, i - n)
    <3>1. (i < t => i \in 1 .. (b.z - 1)) /\ (~ (i < t + n) => i - n \in 1 .. (b.z - 1))
      BY <1>2, <1>6, <1>7
    <3> QED
      BY <1>4, <1>14, <3>1 DEF TextInserted, SameView
  <2> QED
    BY <1>4, <1>14, <2>1 DEF TextInserted, SameView
<1>16. d.gpt = d.pt
  BY <1>13 DEF Built
<1> QED
  BY <1>7, <1>n, <1>14, <1>15, <1>16 DEF InsertedAtPoint

(* insert-file-contents *)
LEMMA ReadSound ==
  ASSUME NEW b, Sound(b), Ordered(b), NEW n \in Nat, n >= 1, NEW s \in [1 .. n -> Char],
         NEW d, d = ReadIntoGap(b, s)
  PROVE  Sound(d) /\ TextInserted(b, d, b.pt, s, n, {}) /\ d.pt = b.pt /\ d.gpt = b.pt + n
<1>1. Len(s) = n
  BY LenOfString
<1>2. /\ b.begv \in Nat /\ b.pt \in Nat /\ b.zv \in Nat /\ b.z \in Nat
      /\ 1 <= b.pt /\ b.pt <= b.z
  BY DEF Sound, Typed, Ordered
<1>3. PICK c : c = EnsureGap(MoveGap(b, b.pt), n)
  OBVIOUS
<1>4. Sound(c) /\ SameView(b, c) /\ c.gap >= n /\ c.gpt = b.pt
  BY <1>2, <1>3, GapAtPoint
<1>5. PICK g \in Nat, t \in Nat, z \in Nat : \E mem, mp :
        /\ 1 <= t /\ t <= z
        /\ Memory(mem, g, z) /\ Marks(mp, t, g, z) /\ Parts(c, mem, g, t, z, mp)
  BY <1>4, PartsExist
<1>6. PICK mem, mp :
        /\ 1 <= t /\ t <= z
        /\ Memory(mem, g, z) /\ Marks(mp, t, g, z) /\ Parts(c, mem, g, t, z, mp)
  BY <1>5
<1>7. t = b.pt /\ z = b.z /\ n <= g
  BY <1>4, <1>6 DEF Parts, SameView
<1>8. PICK mem2 : mem2 = Store(mem, t, s)
  OBVIOUS
<1>10. StoredAt(mem2, mem, g, t, z, s, n)
  BY <1>6, <1>7, <1>8, StoredMemory
<1>v. c.zv \in Nat
  BY <1>2, <1>4 DEF SameView
<1>n. PICK t2, g2, z2, zv2 : t2 = t + n /\ g2 = g - n /\ z2 = z + n /\ zv2 = c.zv + n
  OBVIOUS
<1>12. Marks(mp, t2, g2, z2) /\ FilledMarks(mp, t2, g2, mp, t, g, n, {})
  BY <1>6, <1>7, <1>n, FilledMarkersUntouched
<1>13. Built(d, mem2, g2, t2, c.begv, t, zv2, z2, mp)
  <2>3. c.begv \in Nat /\ c.zv \in Nat /\ c.pt = t
    BY <1>2, <1>4, <1>7 DEF SameView
  <2>4. d = [mem |-> mem2, gap |-> g - n, gpt |-> t + n, begv |-> c.begv, pt |-> t,
             zv |-> c.zv + n, z |-> z + n, mpos |-> mp]
    BY <1>1, <1>3, <1>4, <1>6, <1>8, <2>3 DEF ReadIntoGap, Parts, Sound, Typed
  <2>6. c.zv + n \in Nat
    BY <2>3
  <2> QED
    BY <1>n, <2>3, <2>4, <2>6 DEF Built
<1>14. Sound(d) /\ TextInserted(c, d, t, s, n, {}) /\ d.pt = t
  <2>1. InsertionParts(c, mem, g, t, z, mp, s, n, {}, d, mem2, g2, t2, z2, zv2, t, mp)
    BY <1>6, <1>7, <1>10, <1>n, <1>12, <1>13 DEF InsertionParts
  <2> QED
    BY <1>4, <2>1, InsertedFromParts
<1>15. TextInserted(b, d, t, s, n, {})
  <2>1. ASSUME NEW i \in 1 .. (b.z - 1 + n)
        PROVE  Fetch(d, i) = IF i < t THEN Fetch(b, i)
                             ELSE IF i < t + n THEN s[i - t + 1] ELSE Fetch(b, i - n)
    <3>1. (i < t => i \in 1 .. (b.z - 1)) /\ (~ (i < t + n) => i - n \in 1 .. (b.z - 1))
      BY <1>2, <1>6, <1>7
    <3> QED
      BY <1>4, <1>14, <3>1 DEF TextInserted, SameView
  <2> QED
    BY <1>4, <1>14, <2>1 DEF TextInserted, SameView
<1>16. d.gpt = t2
  BY <1>13 DEF Built
<1> QED
  BY <1>7, <1>n, <1>14, <1>15, <1>16

(* del_range: d is b without from .. to-1, given the gap is there.         *)
TextDeleted(b, d, from, to) ==
  /\ d.z = b.z - (to - from) /\ d.zv = b.zv - (to - from) /\ d.begv = b.begv
  /\ d.pt = ClosedPos(b.pt, from, to)
  /\ \A i \in 1 .. (b.z - (to - from) - 1) :
       Fetch(d, i) = IF i < from THEN Fetch(b, i) ELSE Fetch(b, i + (to - from))
  /\ \A m \in Marker : CharPos(d, d.mpos[m]) = ClosedPos(CharPos(b, b.mpos[m]), from, to)

LEMMA CloseSound ==
  ASSUME NEW b, Sound(b), Ordered(b), NEW from \in Nat, NEW to \in Nat,
         b.begv <= from, from < to, to <= b.zv, from <= b.gpt, b.gpt <= to,
         NEW d, d = CloseText(b, from, to)
  PROVE  Sound(d) /\ TextDeleted(b, d, from, to) /\ d.gpt = from
<1>1. PICK g \in Nat, t \in Nat, z \in Nat : \E mem, mp :
        /\ 1 <= t /\ t <= z
        /\ Memory(mem, g, z) /\ Marks(mp, t, g, z) /\ Parts(b, mem, g, t, z, mp)
  BY PartsExist
<1>2. PICK mem, mp :
        /\ 1 <= t /\ t <= z
        /\ Memory(mem, g, z) /\ Marks(mp, t, g, z) /\ Parts(b, mem, g, t, z, mp)
  BY <1>1
<1>3. PICK k \in Nat : k = to - from /\ k >= 1
  OBVIOUS
<1>4. b.begv \in Nat /\ b.pt \in Nat /\ b.zv \in Nat /\ b.z = z /\ b.gpt = t
  BY <1>2 DEF Sound, Typed, Parts
<1>5. 1 <= from /\ from <= t /\ t <= to /\ to <= z
  BY <1>4 DEF Ordered
<1>6. PICK mp2 : mp2 = AdjustMarkers(mp, to + g, to + g, -(to - from) - g, Marker)
  OBVIOUS
<1>7. /\ Marks(mp2, from, g + (to - from), z - (to - from))
      /\ ClosedMarks(mp2, from, g + (to - from), mp, t, g, from, to)
  BY <1>2, <1>5, <1>6, ClosedMarkers
<1>8. /\ Memory(mem, g + (to - from), z - (to - from))
      /\ ClosedText(mem, from, g + (to - from), mem, t, g, z, from, to)
  BY <1>2, <1>5, ClosedMemory
<1>9. PICK pt \in Nat : pt = ClosedPos(b.pt, from, to)
  BY <1>4 DEF ClosedPos
<1>10. Built(d, mem, g + (to - from), from, b.begv, pt, b.zv - (to - from), z - (to - from), mp2)
  <2>1. (IF from < b.pt THEN IF b.pt < to THEN from ELSE b.pt - (to - from) ELSE b.pt) = pt
    BY <1>4, <1>9 DEF ClosedPos
  <2>2. b.zv - (to - from) \in Nat
    BY <1>4, <1>5
  <2>3. d = [mem |-> mem, gap |-> g + (to - from), gpt |-> from, begv |-> b.begv, pt |-> pt,
             zv |-> b.zv - (to - from), z |-> z - (to - from), mpos |-> mp2]
    BY <1>2, <1>6, <2>1 DEF CloseText, Parts, Sound, Typed
  <2> QED
    BY <1>4, <2>2, <2>3 DEF Built
<1>11. \A p : Fetch(b, p) = FetchAt(mem, t, g, p)
  BY <1>2, PartsMeaning
<1>12. ASSUME NEW i \in 1 .. (z - (to - from) - 1)
       PROVE  FetchAt(mem, from, g + (to - from), i) \in Char
  <2>1. (i < from => i \in 1 .. (z - 1)) /\ i + (to - from) \in 1 .. (z - 1)
    BY <1>5
  <2>2. \A p \in 1 .. (z - 1) : FetchAt(mem, t, g, p) \in Char
    BY <1>4, <1>11 DEF Sound
  <2> QED
    BY <1>8, <2>1, <2>2 DEF ClosedText
<1>13. /\ g + (to - from) \in Nat /\ z - (to - from) \in Nat
       /\ 1 <= from /\ from <= z - (to - from)
  BY <1>5
<1>14. Sound(d) /\ Parts(d, mem, g + (to - from), from, z - (to - from), mp2)
  BY <1>7, <1>8, <1>10, <1>12, <1>13, SoundFromParts
<1>15. /\ \A p : Fetch(d, p) = FetchAt(mem, from, g + (to - from), p)
       /\ \A m \in Marker : CharPos(d, d.mpos[m]) = CharPosAt(from, g + (to - from), mp2[m])
  BY <1>14, PartsMeaning
<1>16. \A m \in Marker : CharPos(b, b.mpos[m]) = CharPosAt(t, g, mp[m])
  BY <1>2, PartsMeaning
<1>17. /\ d.z = z - (to - from) /\ d.zv = b.zv - (to - from) /\ d.begv = b.begv
       /\ d.pt = pt /\ d.gpt = from
  BY <1>10 DEF Built
<1> QED
  BY <1>4, <1>7, <1>8, <1>9, <1>11, <1>14, <1>15, <1>16, <1>17
     DEF TextDeleted, ClosedText, ClosedMarks

Inv ==
  TypeOK /\ PositionsOrdered /\ MarkersOutsideGap /\ TextIsCharacters /\ CallStillValid

(* A buffer as the invariant wants it. *)
Good(b) == Sound(b) /\ Ordered(b) /\ b.z <= MaxPos

LEMMA InvIsGood ==
  Inv <=> Good(buf) /\ pointType \subseteq Marker /\ call \in Calls /\ CallStillValid
BY DEF Inv, TypeOK, PositionsOrdered, MarkersOutsideGap, TextIsCharacters, Good, Sound, Typed,
       Ordered, GapInText, MarkerOutsideGap

LEMMA GoodNumbers ==
  ASSUME NEW b, Good(b)
  PROVE  /\ b.begv \in Nat /\ b.pt \in Nat /\ b.zv \in Nat /\ b.z \in Nat
         /\ b.gpt \in Nat /\ b.gap \in Nat
         /\ 1 <= b.begv /\ b.begv <= b.pt /\ b.pt <= b.zv /\ b.zv <= b.z /\ b.z <= MaxPos
         /\ 1 <= b.gpt /\ b.gpt <= b.z
BY DEF Good, Sound, Typed, Ordered, GapInText

(* Gap motion, to its end or to where a quit stops it. *)
LEMMA MoveGapGood ==
  ASSUME NEW b, Good(b), NEW p \in Nat, 1 <= p, p <= b.z, NEW c, c = MoveGap(b, p)
  PROVE  Good(c) /\ SameView(b, c) /\ c.gpt = p
BY MoveGapSound DEF Good, Ordered, SameView

LEMMA QuitStopGood ==
  ASSUME NEW b, Good(b), NEW p \in Nat, 1 <= p, p <= b.z,
         NEW r \in QuitStops(b, p), NEW c, c = MoveGap(b, r)
  PROVE  Good(c) /\ SameView(b, c)
<1>1. r \in Nat /\ 1 <= r /\ r <= b.z
  BY QuitStopsInText DEF Good
<1> QED
  BY <1>1, MoveGapGood

-----------------------------------------------------------------------------
(* Each operation keeps a buffer good. *)
LEMMA InsertGood ==
  ASSUME NEW b, Good(b), NEW n \in Nat, n >= 1, NEW s \in [1 .. n -> Char],
         b.z + n <= MaxPos, NEW pushed \in SUBSET Marker,
         NEW opoint, opoint = b.pt, NEW d, d = InsertAdjusting(b, s, opoint, pushed)
  PROVE  Good(d) /\ InsertedAtPoint(b, d, s, n, pushed)
<1>1. Sound(d) /\ InsertedAtPoint(b, d, s, n, pushed)
  <2>1. Sound(b) /\ PointInText(b)
    BY GoodNumbers DEF Good, PointInText
  <2> QED
    BY <2>1, InsertSound
<1>2. d.pt = b.pt + n /\ d.z = b.z + n /\ d.zv = b.zv + n /\ d.begv = b.begv
  BY <1>1 DEF InsertedAtPoint, TextInserted
<1>3. 1 <= d.begv /\ d.begv <= d.pt /\ d.pt <= d.zv /\ d.zv <= d.z /\ d.z <= MaxPos
  BY <1>1, <1>2, GoodNumbers
<1> QED
  BY <1>1, <1>3 DEF Good, Ordered

LEMMA ReadGood ==
  ASSUME NEW b, Good(b), NEW n \in Nat, n >= 1, NEW s \in [1 .. n -> Char],
         b.z + n <= MaxPos, NEW d, d = ReadIntoGap(b, s)
  PROVE  Good(d) /\ TextInserted(b, d, b.pt, s, n, {}) /\ d.pt = b.pt /\ d.gpt = b.pt + n
<1>1. Sound(d) /\ TextInserted(b, d, b.pt, s, n, {}) /\ d.pt = b.pt /\ d.gpt = b.pt + n
  BY ReadSound DEF Good
<1>2. d.z = b.z + n /\ d.zv = b.zv + n /\ d.begv = b.begv
  BY <1>1 DEF TextInserted
<1>3. 1 <= d.begv /\ d.begv <= d.pt /\ d.pt <= d.zv /\ d.zv <= d.z /\ d.z <= MaxPos
  BY <1>1, <1>2, GoodNumbers
<1> QED
  BY <1>1, <1>3 DEF Good, Ordered

LEMMA CloseGood ==
  ASSUME NEW b, Good(b), NEW from \in Nat, NEW to \in Nat,
         b.begv <= from, from < to, to <= b.zv, from <= b.gpt, b.gpt <= to,
         NEW d, d = CloseText(b, from, to)
  PROVE  Good(d) /\ TextDeleted(b, d, from, to) /\ d.gpt = from
<1>1. Sound(d) /\ TextDeleted(b, d, from, to) /\ d.gpt = from
  BY CloseSound DEF Good
<1>2. /\ d.z = b.z - (to - from) /\ d.zv = b.zv - (to - from) /\ d.begv = b.begv
      /\ d.pt = ClosedPos(b.pt, from, to)
  BY <1>1 DEF TextDeleted
<1>3. /\ b.begv <= ClosedPos(b.pt, from, to)
      /\ ClosedPos(b.pt, from, to) <= b.zv - (to - from)
  BY GoodNumbers DEF ClosedPos
<1>4. 1 <= d.begv /\ d.begv <= d.pt /\ d.pt <= d.zv /\ d.zv <= d.z /\ d.z <= MaxPos
  BY <1>2, <1>3, GoodNumbers, SizeAssumption
<1> QED
  BY <1>1, <1>4 DEF Good, Ordered

(* The user sees the same text and markers, in a range that may differ. *)
SameTextAndMarks(b, c) ==
  /\ c.z = b.z
  /\ \A p : Fetch(c, p) = Fetch(b, p)
  /\ \A m \in Marker : CharPos(c, c.mpos[m]) = CharPos(b, b.mpos[m])

(* Point and the accessible range change on their own. *)
WithRange(b, begv, pt, zv) == [b EXCEPT !.begv = begv, !.pt = pt, !.zv = zv]

LEMMA FieldsSound ==
  ASSUME NEW b, Sound(b), b.z <= MaxPos, NEW begv \in Nat, NEW pt \in Nat, NEW zv \in Nat,
         1 <= begv, begv <= pt, pt <= zv, zv <= b.z,
         NEW d, d = WithRange(b, begv, pt, zv)
  PROVE  /\ Good(d)
         /\ d.begv = begv /\ d.pt = pt /\ d.zv = zv
         /\ SameTextAndMarks(b, d)
<1>1. /\ d.mem = b.mem /\ d.gap = b.gap /\ d.gpt = b.gpt /\ d.z = b.z /\ d.mpos = b.mpos
      /\ d.begv = begv /\ d.pt = pt /\ d.zv = zv
  BY DEF Sound, Typed, WithRange
<1>2. Typed(d)
  BY <1>1 DEF Sound, Typed, WithRange
<1>3. \A p : Fetch(d, p) = Fetch(b, p)
  BY <1>1 DEF Fetch
<1>4. \A m \in Marker : CharPos(d, d.mpos[m]) = CharPos(b, b.mpos[m])
  BY <1>1 DEF CharPos
<1>5. Sound(d)
  BY <1>1, <1>2, <1>3 DEF Sound, GapInText, MarkerOutsideGap
<1> QED
  BY <1>1, <1>3, <1>4, <1>5 DEF Good, Ordered, SameTextAndMarks

LEMMA FieldsGood ==
  ASSUME NEW b, Good(b), NEW begv \in Nat, NEW pt \in Nat, NEW zv \in Nat,
         1 <= begv, begv <= pt, pt <= zv, zv <= b.z,
         NEW d, d = WithRange(b, begv, pt, zv)
  PROVE  /\ Good(d)
         /\ d.begv = begv /\ d.pt = pt /\ d.zv = zv
         /\ SameTextAndMarks(b, d)
BY FieldsSound DEF Good

(* d is b with marker m at position p. *)
Marked(b, d, m, p) ==
  /\ d.begv = b.begv /\ d.pt = b.pt /\ d.zv = b.zv /\ d.z = b.z
  /\ \A q : Fetch(d, q) = Fetch(b, q)
  /\ \A k \in Marker :
       CharPos(d, d.mpos[k]) = IF k = m THEN p ELSE CharPos(b, b.mpos[k])

WithMarker(b, m, i) == [b EXCEPT !.mpos[m] = i]

LEMMA SetMarkerGood ==
  ASSUME NEW b, Good(b), NEW m \in Marker, NEW p \in Nat, p <= b.z,
         NEW i, i = BufPos(b, p), NEW d, d = WithMarker(b, m, i)
  PROVE  Good(d) /\ Marked(b, d, m, p)
<1>1. i \in Nat /\ MarkerOutsideGap(b, i) /\ CharPos(b, i) = p
  BY GoodNumbers DEF BufPos, MarkerOutsideGap, CharPos
<1>2. /\ d.mem = b.mem /\ d.gap = b.gap /\ d.gpt = b.gpt /\ d.z = b.z
      /\ d.begv = b.begv /\ d.pt = b.pt /\ d.zv = b.zv
      /\ d.mpos = [b.mpos EXCEPT ![m] = i]
  BY DEF Good, Sound, Typed, WithMarker
<1>3. /\ d.mpos \in [Marker -> Nat]
      /\ \A k \in Marker : d.mpos[k] = IF k = m THEN i ELSE b.mpos[k]
  BY <1>1, <1>2 DEF Good, Sound, Typed
<1>4. Typed(d)
  BY <1>2, <1>3 DEF Good, Sound, Typed, WithMarker
<1>5. \A q : Fetch(d, q) = Fetch(b, q)
  BY <1>2 DEF Fetch
<1>6. \A j : CharPos(d, j) = CharPos(b, j) /\ (MarkerOutsideGap(d, j) <=> MarkerOutsideGap(b, j))
  BY <1>2 DEF CharPos, MarkerOutsideGap
<1>7. \A k \in Marker : CharPos(d, d.mpos[k]) = IF k = m THEN p ELSE CharPos(b, b.mpos[k])
  BY <1>1, <1>3, <1>6
<1>8. \A k \in Marker : MarkerOutsideGap(d, d.mpos[k])
  BY <1>1, <1>3, <1>6 DEF Good, Sound
<1>9. Sound(d)
  BY <1>2, <1>4, <1>5, <1>8 DEF Good, Sound, GapInText
<1> QED
  BY <1>2, <1>5, <1>7, <1>9 DEF Good, Ordered, Marked

(* Taking a marker off the chain is giving it position 0. *)
LEMMA UnchainIsSet ==
  ASSUME NEW b, Good(b) PROVE BufPos(b, 0) = Nowhere
BY GoodNumbers DEF BufPos, Nowhere

(* Memory after subst-char-in-region. *)
LEMMA ReplacedAddress ==
  ASSUME NEW g \in Nat, NEW t \in Nat, NEW from \in Nat, NEW to \in Nat, NEW p \in Nat,
         NEW i, i = IF p < t THEN p ELSE p + g
  PROVE  i \in Addresses(t, g, from, to) <=> from <= p /\ p < to
<1>1. ASSUME from <= p, p < to
      PROVE  i \in Addresses(t, g, from, to)
  BY <1>1 DEF Addresses
<1>2. ASSUME i \in Addresses(t, g, from, to)
      PROVE  from <= p /\ p < to
  <2>1. PICK q \in from .. (to - 1) : i = IF q < t THEN q ELSE q + g
    BY <1>2 DEF Addresses
  <2>2. p = q
    BY <2>1
  <2> QED
    BY <2>2
<1> QED
  BY <1>1, <1>2

LEMMA ReplacedMemory ==
  ASSUME NEW g \in Nat, NEW t \in Nat, NEW z \in Nat, 1 <= t, t <= z,
         NEW mem, Memory(mem, g, z),
         NEW from \in Nat, NEW to \in Nat, NEW old \in Char, NEW new \in Char,
         NEW mem2, mem2 = Replace(mem, Addresses(t, g, from, to), old, new)
  PROVE  /\ Memory(mem2, g, z)
         /\ \A p \in 1 .. (z - 1) : FetchAt(mem2, t, g, p) =
              IF from <= p /\ p < to /\ FetchAt(mem, t, g, p) = old THEN new
              ELSE FetchAt(mem, t, g, p)
<1>1. PICK addresses : addresses = Addresses(t, g, from, to)
  OBVIOUS
<1>2. /\ Memory(mem2, g, z)
      /\ \A i \in 1 .. (z - 1 + g) :
           mem2[i] = IF i \in addresses /\ mem[i] = old THEN new ELSE mem[i]
  <2>1. DOMAIN mem = 1 .. (z - 1 + g) /\ \A i \in 1 .. (z - 1 + g) : mem[i] \in Byte
    BY DEF Memory
  <2>2. mem2 = [i \in 1 .. (z - 1 + g) |->
                  IF i \in addresses /\ mem[i] = old THEN new ELSE mem[i]]
    BY <1>1, <2>1 DEF Replace
  <2>3. new \in Byte
    BY DEF Byte
  <2> QED
    BY <2>1, <2>2, <2>3 DEF Memory
<1>3. ASSUME NEW p \in 1 .. (z - 1)
      PROVE  FetchAt(mem2, t, g, p) =
               IF from <= p /\ p < to /\ FetchAt(mem, t, g, p) = old THEN new
               ELSE FetchAt(mem, t, g, p)
  <2>1. PICK i \in 1 .. (z - 1 + g) : i = IF p < t THEN p ELSE p + g
    OBVIOUS
  <2>2. i \in addresses <=> from <= p /\ p < to
    <3>1. p \in Nat
      OBVIOUS
    <3> QED
      BY <1>1, <2>1, <3>1, ReplacedAddress
  <2> QED
    BY <1>2, <2>1, <2>2 DEF FetchAt
<1> QED
  BY <1>2, <1>3

(* d is b with old replaced by new between from and to. *)
Substituted(b, d, from, to, old, new) ==
  /\ d.begv = b.begv /\ d.pt = b.pt /\ d.zv = b.zv /\ d.z = b.z
  /\ \A p \in 1 .. (b.z - 1) :
       Fetch(d, p) = IF from <= p /\ p < to /\ Fetch(b, p) = old THEN new ELSE Fetch(b, p)
  /\ \A m \in Marker : CharPos(d, d.mpos[m]) = CharPos(b, b.mpos[m])

LEMMA SubstGood ==
  ASSUME NEW b, Good(b), NEW from \in Nat, NEW to \in Nat,
         NEW old \in Char, NEW new \in Char, NEW d, d = SubstText(b, from, to, old, new)
  PROVE  Good(d) /\ Substituted(b, d, from, to, old, new)
<1>1. PICK g \in Nat, t \in Nat, z \in Nat : \E mem, mp :
        /\ 1 <= t /\ t <= z
        /\ Memory(mem, g, z) /\ Marks(mp, t, g, z) /\ Parts(b, mem, g, t, z, mp)
  BY PartsExist DEF Good
<1>2. PICK mem, mp :
        /\ 1 <= t /\ t <= z
        /\ Memory(mem, g, z) /\ Marks(mp, t, g, z) /\ Parts(b, mem, g, t, z, mp)
  BY <1>1
<1>3. PICK mem2 : mem2 = Replace(mem, Addresses(t, g, from, to), old, new)
  OBVIOUS
<1>4. /\ Memory(mem2, g, z)
      /\ \A p \in 1 .. (z - 1) : FetchAt(mem2, t, g, p) =
           IF from <= p /\ p < to /\ FetchAt(mem, t, g, p) = old THEN new
           ELSE FetchAt(mem, t, g, p)
  BY <1>2, <1>3, ReplacedMemory
<1>5. Built(d, mem2, g, t, b.begv, b.pt, b.zv, z, mp)
  BY <1>2, <1>3 DEF Parts, Good, Sound, Typed, Built, SubstText
<1>6. b.z = z /\ \A p : Fetch(b, p) = FetchAt(mem, t, g, p)
  BY <1>2, PartsMeaning DEF Parts
<1>7. \A p \in 1 .. (z - 1) : FetchAt(mem2, t, g, p) \in Char
  BY <1>4, <1>6 DEF Good, Sound
<1>8. Sound(d) /\ Parts(d, mem2, g, t, z, mp)
  BY <1>2, <1>4, <1>5, <1>7, SoundFromParts
<1>9. /\ \A p : Fetch(d, p) = FetchAt(mem2, t, g, p)
      /\ \A m \in Marker : CharPos(d, d.mpos[m]) = CharPosAt(t, g, mp[m])
  BY <1>8, PartsMeaning
<1>10. \A m \in Marker : CharPos(b, b.mpos[m]) = CharPosAt(t, g, mp[m])
  BY <1>2, PartsMeaning
<1>11. d.begv = b.begv /\ d.pt = b.pt /\ d.zv = b.zv /\ d.z = b.z
  BY <1>5, <1>6 DEF Built
<1>12. Good(d)
  BY <1>8, <1>11 DEF Good, Ordered
<1>13. \A p \in 1 .. (b.z - 1) :
         Fetch(d, p) = IF from <= p /\ p < to /\ Fetch(b, p) = old THEN new ELSE Fetch(b, p)
  BY <1>4, <1>6, <1>9
<1> QED
  BY <1>9, <1>10, <1>11, <1>12, <1>13 DEF Substituted

-----------------------------------------------------------------------------
(* What each action does to buf, and that the call in progress stays valid. *)
LEMMA InvAfter ==
  Inv' <=> Good(buf') /\ pointType' \subseteq Marker /\ call' \in Calls /\ CallStillValid'
BY DEF Inv, TypeOK, PositionsOrdered, MarkersOutsideGap, TextIsCharacters, Good, Sound, Typed,
       Ordered, GapInText, MarkerOutsideGap

LEMMA IdleAfter ==
  ASSUME Good(buf'), pointType' \subseteq Marker, call' = None
  PROVE  Inv'
<1>1. call' \in Calls /\ CallStillValid'
  BY DEF None, Calls, CallStillValid
<1> QED
  BY <1>1, InvAfter

LEMMA IdleIsNone ==
  ASSUME Inv, Idle PROVE call = None
BY InvIsGood DEF Idle, Calls, None

LEMMA StringOfLength ==
  ASSUME NEW s \in Strings
  PROVE  \E n \in Nat : n >= 1 /\ s \in [1 .. n -> Char] /\ Len(s) = n
<1>1. PICK n \in 1 .. MaxInsert : s \in [1 .. n -> Char]
  BY DEF Strings
<1>2. n \in Nat /\ n >= 1
  BY <1>1, SizeAssumption
<1> QED
  BY <1>1, <1>2, LenOfString

LEMMA StartInsertStep ==
  ASSUME Inv, NEW s \in Strings, NEW which \in Pushes, StartInsert(s, which)
  PROVE  Inv' /\ UNCHANGED <<buf, pointType>>
<1>1. call' \in Calls
  BY InvIsGood, GoodNumbers DEF StartInsert, Calls
<1>2. CallStillValid'
  BY DEF StartInsert, CallStillValid
<1> QED
  BY <1>1, <1>2, InvIsGood, InvAfter DEF StartInsert

LEMMA FinishInsertStep ==
  ASSUME Inv, FinishInsert
  PROVE  /\ Inv' /\ pointType' = pointType
         /\ \E n \in 1 .. MaxPos : \E s \in [1 .. n -> Char], pushed \in {{}, pointType, Marker} :
              /\ buf.z + n <= MaxPos
              /\ InsertedAtPoint(buf, buf', s, n, pushed)
<1>1. call.s \in Strings /\ call.which \in Pushes
  BY InvIsGood DEF FinishInsert, Calls, None
<1>2. PICK n \in Nat : n >= 1 /\ call.s \in [1 .. n -> Char] /\ Len(call.s) = n
  BY <1>1, StringOfLength
<1>3. PICK pushed : pushed = Pushed(call.which)
  OBVIOUS
<1>4. pushed \in {{}, pointType, Marker} /\ pushed \in SUBSET Marker
  BY <1>1, <1>3, InvIsGood DEF Pushes, Pushed
<1>5. call.opoint = buf.pt /\ buf.z + n <= MaxPos
  BY <1>2, InvIsGood DEF FinishInsert, CallStillValid
<1>6. Good(buf') /\ InsertedAtPoint(buf, buf', call.s, n, pushed)
  <2>1. PICK s, opoint : s = call.s /\ opoint = call.opoint
    OBVIOUS
  <2>2. buf' = InsertAdjusting(buf, s, opoint, pushed)
    BY <1>3, <2>1 DEF FinishInsert
  <2>3. Good(buf)
    BY InvIsGood
  <2> QED
    <3>1. n \in Nat /\ n >= 1 /\ s \in [1 .. n -> Char] /\ opoint = buf.pt /\ buf.z + n <= MaxPos
      BY <1>2, <1>5, <2>1
    <3>2. Good(buf') /\ InsertedAtPoint(buf, buf', s, n, pushed)
      BY <1>4, <2>2, <2>3, <3>1, InsertGood
    <3> QED
      BY <2>1, <3>2
<1>7. Inv'
  BY <1>6, InvIsGood, IdleAfter DEF FinishInsert
<1>8. n \in 1 .. MaxPos
  BY <1>2, <1>5, InvIsGood, GoodNumbers, SizeAssumption
<1> QED
  BY <1>2, <1>4, <1>5, <1>6, <1>7, <1>8 DEF FinishInsert

LEMMA QuitInsertStep ==
  ASSUME Inv, QuitInsert
  PROVE  Inv' /\ SameView(buf, buf') /\ pointType' = pointType
<1>1. PICK r \in QuitStops(buf, buf.pt) : buf' = MoveGap(buf, r)
  BY DEF QuitInsert
<1>2. Good(buf)
  BY InvIsGood
<1>3. buf.pt \in Nat /\ 1 <= buf.pt /\ buf.pt <= buf.z
  BY <1>2, GoodNumbers
<1>4. Good(buf') /\ SameView(buf, buf')
  BY <1>1, <1>2, <1>3, QuitStopGood
<1> QED
  BY <1>4, InvIsGood, IdleAfter DEF QuitInsert

LEMMA Clipped ==
  ASSUME NEW b, Good(b), NEW from \in 1 .. MaxPos, NEW to \in 1 .. MaxPos,
         NEW f, f = (IF from < b.begv THEN b.begv ELSE from),
         NEW t, t = (IF to > b.zv THEN b.zv ELSE to),
         t - f > 0,
         NEW p, p = (IF f > b.gpt THEN f ELSE IF t < b.gpt THEN t ELSE b.gpt)
  PROVE  /\ f \in Nat /\ t \in Nat /\ p \in Nat
         /\ b.begv <= f /\ f < t /\ t <= b.zv
         /\ 1 <= p /\ p <= b.z /\ f <= p /\ p <= t
BY GoodNumbers, SizeAssumption

LEMMA StartDeleteStep ==
  ASSUME Inv, NEW from \in 1 .. MaxPos, NEW to \in 1 .. MaxPos, StartDelete(from, to)
  PROVE  Inv' /\ SameView(buf, buf') /\ pointType' = pointType
<1>1. PICK f, t : f = ClipFrom(from) /\ t = ClipTo(to)
  OBVIOUS
<1>2. PICK p : p = DeleteTarget(f, t)
  OBVIOUS
<1>3. Good(buf)
  BY InvIsGood
<1>4. /\ f \in Nat /\ t \in Nat /\ p \in Nat
      /\ buf.begv <= f /\ f < t /\ t <= buf.zv
      /\ 1 <= p /\ p <= buf.z /\ f <= p /\ p <= t
  BY <1>1, <1>2, <1>3, Clipped DEF StartDelete, ClipFrom, ClipTo, DeleteTarget
<1>5. Good(buf') /\ SameView(buf, buf') /\ buf'.gpt = p
  BY <1>1, <1>2, <1>3, <1>4, MoveGapGood DEF StartDelete
<1>6. call' = [op |-> "delete", from |-> f, to |-> t]
  BY <1>1 DEF StartDelete
<1>7. call' \in Calls
  BY <1>4, <1>6 DEF Calls
<1>8. CallStillValid'
  BY <1>4, <1>5, <1>6 DEF CallStillValid, SameView
<1> QED
  BY <1>5, <1>7, <1>8, InvIsGood, InvAfter DEF StartDelete

LEMMA QuitDeleteStep ==
  ASSUME Inv, NEW from \in 1 .. MaxPos, NEW to \in 1 .. MaxPos, QuitDelete(from, to)
  PROVE  Inv' /\ SameView(buf, buf') /\ pointType' = pointType
<1>1. PICK f, t : f = ClipFrom(from) /\ t = ClipTo(to)
  OBVIOUS
<1>2. PICK p : p = DeleteTarget(f, t)
  OBVIOUS
<1>3. Good(buf)
  BY InvIsGood
<1>4. p \in Nat /\ 1 <= p /\ p <= buf.z
  BY <1>1, <1>2, <1>3, Clipped DEF QuitDelete, ClipFrom, ClipTo, DeleteTarget
<1>5. PICK r \in QuitStops(buf, p) : buf' = MoveGap(buf, r)
  BY <1>1, <1>2 DEF QuitDelete
<1>6. Good(buf') /\ SameView(buf, buf')
  BY <1>3, <1>4, <1>5, QuitStopGood
<1> QED
  BY <1>6, InvIsGood, IdleIsNone, IdleAfter DEF QuitDelete

(* The deletion the user sees does not depend on where the gap was. *)
LEMMA DeletedSameView ==
  ASSUME NEW b, Good(b), NEW c, SameView(b, c), NEW d, NEW from \in Nat, NEW to \in Nat,
         1 <= from, from < to, to <= b.z, TextDeleted(c, d, from, to)
  PROVE  TextDeleted(b, d, from, to)
<1>1. PICK z \in Nat : z = b.z /\ z = c.z
  BY GoodNumbers DEF SameView
<1>2. ASSUME NEW i \in 1 .. (z - (to - from) - 1)
      PROVE  Fetch(d, i) = IF i < from THEN Fetch(b, i) ELSE Fetch(b, i + (to - from))
  <2>1. i \in 1 .. (z - 1) /\ i + (to - from) \in 1 .. (z - 1)
    BY <1>1
  <2>2. Fetch(c, i) = Fetch(b, i) /\ Fetch(c, i + (to - from)) = Fetch(b, i + (to - from))
    BY <1>1, <2>1 DEF SameView
  <2> QED
    BY <1>1, <2>2 DEF TextDeleted
<1> QED
  BY <1>1, <1>2 DEF TextDeleted, SameView

LEMMA GapBeforeGood ==
  ASSUME NEW b, Good(b), NEW from \in Nat, NEW to \in Nat, 1 <= from, from < to, to <= b.z,
         from <= b.gpt, b.gpt <= to, NEW c, c = GapBefore(b, from, to)
  PROVE  Good(c) /\ SameView(b, c) /\ from <= c.gpt /\ c.gpt <= to
<1>1. CASE from < b.gpt /\ b.gpt < to
  <2>1. c = MoveGap(b, from) /\ from <= b.z
    BY <1>1, GoodNumbers DEF GapBefore
  <2> QED
    BY <2>1, MoveGapGood
<1>2. CASE ~ (from < b.gpt /\ b.gpt < to)
  <2>1. c = b
    BY <1>2 DEF GapBefore
  <2>2. SameView(b, b)
    BY DEF SameView
  <2> QED
    BY <2>1, <2>2
<1> QED
  BY <1>1, <1>2

LEMMA FinishDeleteStep ==
  ASSUME Inv, FinishDelete
  PROVE  /\ Inv' /\ pointType' = pointType
         /\ \E from, to \in 1 .. MaxPos :
              /\ buf.begv <= from /\ from < to /\ to <= buf.zv
              /\ TextDeleted(buf, buf', from, to)
<1>1. PICK from, to : from = call.from /\ to = call.to
  OBVIOUS
<1>2. from \in Nat /\ to \in Nat
  BY <1>1, InvIsGood DEF FinishDelete, Calls, None
<1>3. buf.begv <= from /\ from < to /\ to <= buf.zv /\ from <= buf.gpt /\ buf.gpt <= to
  BY <1>1, InvIsGood DEF FinishDelete, CallStillValid
<1>4. Good(buf)
  BY InvIsGood
<1>5. PICK b \in {buf, GapBefore(buf, from, to)} : buf' = CloseText(b, from, to)
  BY <1>1 DEF FinishDelete
<1>6. Good(buf') /\ TextDeleted(buf, buf', from, to)
  <2>1. 1 <= from /\ to <= buf.z
    BY <1>2, <1>3, <1>4, GoodNumbers
  <2>2. Good(b) /\ SameView(buf, b) /\ from <= b.gpt /\ b.gpt <= to
    <3>1. CASE b = buf
      BY <1>3, <1>4, <3>1 DEF SameView
    <3>2. CASE b = GapBefore(buf, from, to)
      BY <1>2, <1>3, <1>4, <2>1, <3>2, GapBeforeGood
    <3> QED
      BY <3>1, <3>2
  <2>3. b.begv <= from /\ to <= b.zv
    BY <1>3, <2>2 DEF SameView
  <2>4. Good(buf') /\ TextDeleted(b, buf', from, to)
    BY <1>2, <1>3, <1>5, <2>2, <2>3, CloseGood
  <2> QED
    BY <1>2, <1>3, <1>4, <2>1, <2>2, <2>4, DeletedSameView
<1>7. Inv'
  BY <1>6, InvIsGood, IdleAfter DEF FinishDelete
<1>8. from \in 1 .. MaxPos /\ to \in 1 .. MaxPos
  BY <1>2, <1>3, <1>4, GoodNumbers, SizeAssumption
<1> QED
  BY <1>3, <1>6, <1>7, <1>8 DEF FinishDelete

LEMMA QuitRecordDeleteStep ==
  ASSUME Inv, QuitRecordDelete
  PROVE  Inv' /\ SameView(buf, buf') /\ pointType' = pointType
<1>1. PICK from : from = call.from
  OBVIOUS
<1>2. PICK r \in QuitStops(buf, from) : buf' = MoveGap(buf, r)
  BY <1>1 DEF QuitRecordDelete
<1>3. Good(buf) /\ from \in Nat
  BY <1>1, InvIsGood DEF QuitRecordDelete, Calls, None
<1>4. 1 <= from /\ from <= buf.z
  <2>1. buf.begv <= from /\ from <= buf.gpt
    BY <1>1, InvIsGood DEF QuitRecordDelete, CallStillValid
  <2> QED
    BY <1>3, <2>1, GoodNumbers
<1>5. Good(buf') /\ SameView(buf, buf')
  BY <1>2, <1>3, <1>4, QuitStopGood
<1> QED
  BY <1>5, InvIsGood, IdleAfter DEF QuitRecordDelete

LEMMA AbortCallStep ==
  ASSUME Inv, AbortCall
  PROVE  Inv' /\ UNCHANGED <<buf, pointType>>
BY InvIsGood, IdleAfter DEF AbortCall

LEMMA MoveGapToStep ==
  ASSUME Inv, NEW p \in 1 .. MaxPos, MoveGapTo(p)
  PROVE  Inv' /\ SameView(buf, buf') /\ pointType' = pointType
<1>1. Good(buf)
  BY InvIsGood
<1>2. p \in Nat /\ 1 <= p /\ p <= buf.z
  BY <1>1, GoodNumbers, SizeAssumption DEF MoveGapTo
<1>3. Good(buf') /\ SameView(buf, buf')
  <2>1. CASE buf' = MoveGap(buf, p)
    BY <1>1, <1>2, <2>1, MoveGapGood
  <2>2. CASE \E r \in QuitStops(buf, p) : buf' = MoveGap(buf, r)
    BY <1>1, <1>2, <2>2, QuitStopGood
  <2> QED
    BY <2>1, <2>2 DEF MoveGapTo
<1> QED
  BY <1>3, InvIsGood, IdleIsNone, IdleAfter DEF MoveGapTo

LEMMA InsertFileStep ==
  ASSUME Inv, NEW s \in Strings, InsertFile(s)
  PROVE  /\ Inv' /\ pointType' = pointType
         /\ \E n \in 1 .. MaxPos : \E t \in [1 .. n -> Char] :
              /\ buf.z + n <= MaxPos
              /\ TextInserted(buf, buf', buf.pt, t, n, {})
              /\ buf'.pt = buf.pt /\ buf'.gpt = buf.pt + n
<1>1. PICK n \in Nat : n >= 1 /\ s \in [1 .. n -> Char] /\ Len(s) = n
  BY StringOfLength
<1>2. buf.z + n <= MaxPos /\ Good(buf)
  BY <1>1, InvIsGood DEF InsertFile
<1>3. /\ Good(buf') /\ TextInserted(buf, buf', buf.pt, s, n, {})
      /\ buf'.pt = buf.pt /\ buf'.gpt = buf.pt + n
  BY <1>1, <1>2, ReadGood DEF InsertFile
<1>4. Inv'
  BY <1>3, InvIsGood, IdleIsNone, IdleAfter DEF InsertFile
<1>5. n \in 1 .. MaxPos
  BY <1>1, <1>2, GoodNumbers, SizeAssumption
<1> QED
  BY <1>1, <1>2, <1>3, <1>4, <1>5 DEF InsertFile

LEMMA SubstCharStep ==
  ASSUME Inv, NEW from \in 1 .. MaxPos, NEW to \in 1 .. MaxPos,
         NEW old \in Char, NEW new \in Char, SubstChar(from, to, old, new)
  PROVE  /\ Inv' /\ pointType' = pointType
         /\ Substituted(buf, buf', from, to, old, new)
<1>1. Good(buf) /\ from \in Nat /\ to \in Nat /\ buf' = SubstText(buf, from, to, old, new)
  BY InvIsGood, SizeAssumption DEF SubstChar
<1>2. Good(buf') /\ Substituted(buf, buf', from, to, old, new)
  BY <1>1, SubstGood
<1>3. Inv'
  BY <1>2, InvIsGood, IdleIsNone, IdleAfter DEF SubstChar
<1> QED
  BY <1>2, <1>3 DEF SubstChar

LEMMA GotoCharStep ==
  ASSUME Inv, NEW p \in 1 .. MaxPos, GotoChar(p)
  PROVE  /\ Inv' /\ pointType' = pointType /\ SameTextAndMarks(buf, buf')
         /\ buf'.begv = buf.begv /\ buf'.pt = p /\ buf'.zv = buf.zv
<1>1. Good(buf) /\ p \in Nat
  BY InvIsGood, SizeAssumption
<1>2. buf' = WithRange(buf, buf.begv, p, buf.zv)
  BY <1>1 DEF GotoChar, Good, Sound, Typed, WithRange
<1>3. buf.begv \in Nat /\ buf.zv \in Nat /\ 1 <= buf.begv /\ buf.zv <= buf.z
  BY <1>1, GoodNumbers
<1>4. /\ Good(buf') /\ SameTextAndMarks(buf, buf')
      /\ buf'.begv = buf.begv /\ buf'.pt = p /\ buf'.zv = buf.zv
  <2>1. PICK begv, zv : begv = buf.begv /\ zv = buf.zv
    OBVIOUS
  <2>2. buf' = WithRange(buf, begv, p, zv) /\ begv <= p /\ p <= zv
    BY <1>2, <2>1 DEF GotoChar
  <2> QED
    BY <1>1, <1>3, <2>1, <2>2, FieldsGood
<1> QED
  BY <1>4, InvIsGood, IdleIsNone, IdleAfter DEF GotoChar

LEMMA NarrowStep ==
  ASSUME Inv, NEW b \in 1 .. MaxPos, NEW e \in 1 .. MaxPos, NarrowToRegion(b, e)
  PROVE  /\ Inv' /\ pointType' = pointType /\ SameTextAndMarks(buf, buf')
         /\ buf'.begv = b /\ buf'.zv = e
         /\ buf'.pt = IF buf.pt < b THEN b ELSE IF buf.pt > e THEN e ELSE buf.pt
<1>1. Good(buf) /\ b \in Nat /\ e \in Nat /\ 1 <= b /\ b <= e /\ e <= buf.z
  BY InvIsGood, SizeAssumption DEF NarrowToRegion
<1>2. PICK pt \in Nat :
        /\ pt = IF buf.pt < b THEN b ELSE IF buf.pt > e THEN e ELSE buf.pt
        /\ b <= pt /\ pt <= e
  BY <1>1, GoodNumbers
<1>3. buf' = WithRange(buf, b, pt, e)
  BY <1>1, <1>2 DEF NarrowToRegion, Good, Sound, Typed, WithRange
<1>4. /\ Good(buf') /\ SameTextAndMarks(buf, buf')
      /\ buf'.begv = b /\ buf'.pt = pt /\ buf'.zv = e
  BY <1>1, <1>2, <1>3, FieldsGood
<1> QED
  BY <1>2, <1>4, InvIsGood, IdleIsNone, IdleAfter DEF NarrowToRegion

LEMMA SetMarkerStep ==
  ASSUME Inv, NEW m \in Marker, NEW p \in 1 .. MaxPos, SetMarker(m, p)
  PROVE  Inv' /\ pointType' = pointType /\ Marked(buf, buf', m, p)
<1>1. Good(buf) /\ p \in Nat /\ p <= buf.z
  BY InvIsGood, SizeAssumption DEF SetMarker
<1>2. PICK i : i = BufPos(buf, p)
  OBVIOUS
<1>3. buf' = WithMarker(buf, m, i)
  BY <1>2 DEF SetMarker, WithMarker
<1>4. Good(buf') /\ Marked(buf, buf', m, p)
  BY <1>1, <1>2, <1>3, SetMarkerGood
<1> QED
  BY <1>4, InvIsGood, IdleIsNone, IdleAfter DEF SetMarker

LEMMA UnchainMarkerStep ==
  ASSUME Inv, NEW m \in Marker, UnchainMarker(m)
  PROVE  Inv' /\ pointType' = pointType /\ Marked(buf, buf', m, 0)
<1>1. Good(buf) /\ 0 \in Nat /\ 0 <= buf.z
  BY InvIsGood, GoodNumbers
<1>2. Nowhere = BufPos(buf, 0)
  BY <1>1, UnchainIsSet
<1>3. buf' = WithMarker(buf, m, Nowhere)
  BY DEF UnchainMarker, WithMarker
<1>4. Good(buf') /\ Marked(buf, buf', m, 0)
  BY <1>1, <1>2, <1>3, SetMarkerGood
<1> QED
  BY <1>4, InvIsGood, IdleIsNone, IdleAfter DEF UnchainMarker

LEMMA SetMarkerTypeStep ==
  ASSUME Inv, NEW m \in Marker, NEW t \in BOOLEAN, SetMarkerType(m, t)
  PROVE  Inv' /\ buf' = buf
BY InvIsGood, IdleIsNone, IdleAfter DEF SetMarkerType

-----------------------------------------------------------------------------
(* The invariant. *)
LEMMA InitInv == Init => Inv
<1> SUFFICES ASSUME Init PROVE Inv
  OBVIOUS
<1>1. TypeOK
  <2>1. [i \in 1 .. InitGap |-> Junk] \in [1 .. (1 - 1 + InitGap) -> Byte]
    BY SizeAssumption DEF Byte
  <2>2. [m \in Marker |-> Nowhere] \in [Marker -> Nat]
    BY DEF Nowhere
  <2> QED
    BY <2>1, <2>2, SizeAssumption DEF Init, TypeOK, Calls
<1>2. PositionsOrdered
  BY SizeAssumption DEF Init, PositionsOrdered
<1>3. MarkersOutsideGap
  BY SizeAssumption DEF Init, MarkersOutsideGap, Nowhere
<1>4. TextIsCharacters
  BY DEF Init, TextIsCharacters
<1>5. CallStillValid
  BY DEF Init, CallStillValid, None
<1> QED
  BY <1>1, <1>2, <1>3, <1>4, <1>5 DEF Inv

LEMMA NextInv == Inv /\ [Next]_vars => Inv'
<1> SUFFICES ASSUME Inv, [Next]_vars PROVE Inv'
  OBVIOUS
<1>1. CASE \E s \in Strings, which \in Pushes : StartInsert(s, which)
  BY <1>1, StartInsertStep
<1>2. CASE FinishInsert
  BY <1>2, FinishInsertStep
<1>3. CASE QuitInsert
  BY <1>3, QuitInsertStep
<1>4. CASE \E from, to \in 1 .. MaxPos : StartDelete(from, to) \/ QuitDelete(from, to)
  BY <1>4, StartDeleteStep, QuitDeleteStep
<1>5. CASE FinishDelete
  BY <1>5, FinishDeleteStep
<1>6. CASE AbortCall
  BY <1>6, AbortCallStep
<1>7. CASE \E p \in 1 .. MaxPos : MoveGapTo(p)
  BY <1>7, MoveGapToStep
<1>8. CASE \E s \in Strings : InsertFile(s)
  BY <1>8, InsertFileStep
<1>9. CASE \E from, to \in 1 .. MaxPos, old, new \in Char : SubstChar(from, to, old, new)
  BY <1>9, SubstCharStep
<1>10. CASE \E p \in 1 .. MaxPos : GotoChar(p)
  BY <1>10, GotoCharStep
<1>11. CASE \E b, e \in 1 .. MaxPos : NarrowToRegion(b, e)
  BY <1>11, NarrowStep
<1>12. CASE \E m \in Marker, p \in 1 .. MaxPos : SetMarker(m, p)
  BY <1>12, SetMarkerStep
<1>13. CASE \E m \in Marker : UnchainMarker(m)
  BY <1>13, UnchainMarkerStep
<1>14. CASE \E m \in Marker, t \in BOOLEAN : SetMarkerType(m, t)
  BY <1>14, SetMarkerTypeStep
<1>15. CASE QuitRecordDelete
  BY <1>15, QuitRecordDeleteStep
<1>16. CASE UNCHANGED vars
  BY <1>16, InvIsGood, InvAfter DEF vars, CallStillValid
<1> QED
  BY <1>1, <1>2, <1>3, <1>4, <1>5, <1>6, <1>7, <1>8, <1>9, <1>10, <1>11, <1>12, <1>13, <1>14,
     <1>15, <1>16 DEF Next

LEMMA InvariantHolds == Spec => []Inv
BY InitInv, NextInv, PTL DEF Spec

(* The buffer always has the form the code's address arithmetic takes for  *)
(* granted: sizes, positions and memory agree.                             *)
THEOREM TypeCorrect == Spec => []TypeOK
<1>1. Inv => TypeOK
  BY DEF Inv
<1> QED
  BY <1>1, InvariantHolds, PTL

(* No sequence of edits, narrowings, gap motions and quits puts point, the *)
(* accessible range or the gap out of order or past the largest position.  *)
THEOREM PositionsStayOrdered == Spec => []PositionsOrdered
<1>1. Inv => PositionsOrdered
  BY DEF Inv
<1> QED
  BY <1>1, InvariantHolds, PTL

(* adjust_markers never leaves a marker in the gap or beyond the text.     *)
THEOREM MarkersStayOutsideGap == Spec => []MarkersOutsideGap
<1>1. Inv => MarkersOutsideGap
  BY DEF Inv
<1> QED
  BY <1>1, InvariantHolds, PTL

(* No edit exposes the anchor byte, gap leftovers or fresh memory as text. *)
THEOREM TextStaysCharacters == Spec => []TextIsCharacters
<1>1. Inv => TextIsCharacters
  BY DEF Inv
<1> QED
  BY <1>1, InvariantHolds, PTL

(* An insertion or deletion resumes with the facts it computed before it   *)
(* was interrupted still true.                                             *)
THEOREM CallsStayValid == Spec => []CallStillValid
<1>1. Inv => CallStillValid
  BY DEF Inv
<1> QED
  BY <1>1, InvariantHolds, PTL

-----------------------------------------------------------------------------
(* The refinement: the text and the marks of TextSpec, from a buffer.      *)
LEMMA SameContents ==
  ASSUME NEW b, NEW c, c.z = b.z, \A p \in 1 .. (b.z - 1) : Fetch(c, p) = Fetch(b, p)
  PROVE  Contents(c) = Contents(b)
BY DEF Contents

LEMMA SameMarksOf ==
  ASSUME NEW b, NEW c, \A m \in Marker : CharPos(c, c.mpos[m]) = CharPos(b, b.mpos[m])
  PROVE  MarksOf(c) = MarksOf(b)
BY DEF MarksOf

LEMMA InsertedContents ==
  ASSUME NEW b, Good(b), NEW d, NEW n \in Nat, NEW s, NEW p \in Nat, 1 <= p, p <= b.z,
         NEW pushed, TextInserted(b, d, p, s, n, pushed)
  PROVE  Contents(d) = [i \in 1 .. (b.z - 1 + n) |->
           IF i < p THEN Contents(b)[i]
           ELSE IF i < p + n THEN s[i - p + 1] ELSE Contents(b)[i - n]]
<1>1. PICK z \in Nat : z = b.z
  BY GoodNumbers
<1>2. PICK text : text = Contents(b)
  OBVIOUS
<1>3. \A i \in 1 .. (z - 1) : text[i] = Fetch(b, i)
  BY <1>1, <1>2 DEF Contents
<1>4. \A i \in 1 .. (z - 1 + n) :
        Fetch(d, i) = IF i < p THEN text[i] ELSE IF i < p + n THEN s[i - p + 1] ELSE text[i - n]
  <2>1. ASSUME NEW i \in 1 .. (z - 1 + n)
        PROVE  (i < p => i \in 1 .. (z - 1)) /\ (~ (i < p + n) => i - n \in 1 .. (z - 1))
    BY <1>1
  <2> QED
    BY <1>1, <1>3, <2>1 DEF TextInserted
<1>5. Contents(d) = [i \in 1 .. (z - 1 + n) |-> Fetch(d, i)]
  <2>1. d.z - 1 = z - 1 + n
    BY <1>1 DEF TextInserted
  <2> QED
    BY <2>1 DEF Contents
<1> QED
  BY <1>1, <1>2, <1>4, <1>5

LEMMA InsertedMarks ==
  ASSUME NEW b, NEW d, NEW n, NEW s, NEW p, NEW pushed, TextInserted(b, d, p, s, n, pushed)
  PROVE  MarksOf(d) = [m \in Marker |->
           IF MarksOf(b)[m] > p \/ (MarksOf(b)[m] = p /\ m \in pushed)
           THEN MarksOf(b)[m] + n ELSE MarksOf(b)[m]]
BY DEF TextInserted, MarksOf, PushedPos

LEMMA DeletedContents ==
  ASSUME NEW b, Good(b), NEW d, NEW from \in Nat, NEW to \in Nat,
         1 <= from, from < to, to <= b.z, TextDeleted(b, d, from, to)
  PROVE  Contents(d) = [i \in 1 .. (b.z - 1 - (to - from)) |->
           IF i < from THEN Contents(b)[i] ELSE Contents(b)[i + (to - from)]]
<1>1. PICK z \in Nat : z = b.z
  BY GoodNumbers
<1>2. PICK text : text = Contents(b)
  OBVIOUS
<1>3. \A i \in 1 .. (z - 1) : text[i] = Fetch(b, i)
  BY <1>1, <1>2 DEF Contents
<1>4. \A i \in 1 .. (z - 1 - (to - from)) :
        Fetch(d, i) = IF i < from THEN text[i] ELSE text[i + (to - from)]
  <2>1. ASSUME NEW i \in 1 .. (z - 1 - (to - from))
        PROVE  i \in 1 .. (z - (to - from) - 1) /\ i \in 1 .. (z - 1) /\ i + (to - from) \in 1 .. (z - 1)
    BY <1>1
  <2> QED
    BY <1>1, <1>3, <2>1 DEF TextDeleted
<1>5. Contents(d) = [i \in 1 .. (z - 1 - (to - from)) |-> Fetch(d, i)]
  <2>1. d.z - 1 = z - 1 - (to - from)
    BY <1>1 DEF TextDeleted
  <2> QED
    BY <2>1 DEF Contents
<1> QED
  BY <1>1, <1>2, <1>4, <1>5

LEMMA DeletedMarks ==
  ASSUME NEW b, NEW d, NEW from, NEW to, TextDeleted(b, d, from, to)
  PROVE  MarksOf(d) = [m \in Marker |-> ClosedPos(MarksOf(b)[m], from, to)]
BY DEF TextDeleted, MarksOf

LEMMA SubstitutedContents ==
  ASSUME NEW b, NEW d, NEW from, NEW to, NEW old, NEW new, Substituted(b, d, from, to, old, new)
  PROVE  Contents(d) = [i \in 1 .. (b.z - 1) |->
           IF from <= i /\ i < to /\ Contents(b)[i] = old THEN new ELSE Contents(b)[i]]
BY DEF Substituted, Contents

LEMMA MarkedMarks ==
  ASSUME NEW b, NEW d, NEW m \in Marker, NEW p, Marked(b, d, m, p),
         NEW marks, marks = MarksOf(b)
  PROVE  MarksOf(d) = [marks EXCEPT ![m] = p]
BY DEF Marked, MarksOf

LEMMA UnseenIsStutter ==
  ASSUME SameView(buf, buf'), pointType' = pointType
  PROVE  UNCHANGED Abstract!vars
<1>1. Contents(buf') = Contents(buf) /\ MarksOf(buf') = MarksOf(buf)
  BY SameContents, SameMarksOf DEF SameView
<1> QED
  BY <1>1 DEF Abstract!vars, SameView

LEMMA InsertRefines ==
  ASSUME Inv, NEW n \in 1 .. MaxPos, NEW s \in [1 .. n -> Char],
         NEW pushed \in {{}, pointType, Marker}, buf.z + n <= MaxPos,
         TextInserted(buf, buf', buf.pt, s, n, pushed), pointType' = pointType
  PROVE  /\ buf'.pt = buf.pt + n => Abstract!Next
         /\ buf'.pt = buf.pt /\ pushed = {} => Abstract!Next
<1>1. Good(buf) /\ n \in Nat /\ n >= 1
  BY InvIsGood, SizeAssumption
<1>2. buf.pt \in Nat /\ 1 <= buf.pt /\ buf.pt <= buf.z
  BY <1>1, GoodNumbers
<1>3. Contents(buf') = Abstract!Spliced(buf.pt, s, n)
  BY <1>1, <1>2, InsertedContents DEF Abstract!Spliced
<1>4. MarksOf(buf') = Abstract!MarksAfterInsert(buf.pt, n, pushed)
  BY InsertedMarks DEF Abstract!MarksAfterInsert
<1>5. buf'.z = buf.z + n /\ buf'.zv = buf.zv + n /\ buf'.begv = buf.begv
  BY DEF TextInserted
<1>6. ASSUME buf'.pt = buf.pt + n PROVE Abstract!Next
  <2>1. Abstract!Insert(s, n, pushed)
    BY <1>1, <1>3, <1>4, <1>5, <1>6 DEF Abstract!Insert
  <2> QED
    BY <2>1 DEF Abstract!Next
<1>7. ASSUME buf'.pt = buf.pt, pushed = {} PROVE Abstract!Next
  <2>1. Abstract!InsertFile(s, n)
    BY <1>1, <1>3, <1>4, <1>5, <1>7 DEF Abstract!InsertFile
  <2> QED
    BY <2>1 DEF Abstract!Next
<1> QED
  BY <1>6, <1>7

LEMMA DeleteRefines ==
  ASSUME Inv, NEW from \in 1 .. MaxPos, NEW to \in 1 .. MaxPos,
         buf.begv <= from, from < to, to <= buf.zv,
         TextDeleted(buf, buf', from, to), pointType' = pointType
  PROVE  Abstract!Next
<1>1. Good(buf) /\ from \in Nat /\ to \in Nat /\ 1 <= from /\ to <= buf.z
  BY InvIsGood, GoodNumbers, SizeAssumption
<1>2. Contents(buf') = [i \in 1 .. (buf.z - 1 - (to - from)) |->
        IF i < from THEN Contents(buf)[i] ELSE Contents(buf)[i + (to - from)]]
  BY <1>1, DeletedContents
<1>3. MarksOf(buf') = [m \in Marker |-> Abstract!Closed(MarksOf(buf)[m], from, to)]
  BY DeletedMarks DEF Abstract!Closed, ClosedPos
<1>4. /\ buf'.z = buf.z - (to - from) /\ buf'.zv = buf.zv - (to - from)
      /\ buf'.begv = buf.begv /\ buf'.pt = Abstract!Closed(buf.pt, from, to)
  BY DEF TextDeleted, Abstract!Closed, ClosedPos
<1>5. Abstract!Delete(from, to)
  BY <1>2, <1>3, <1>4 DEF Abstract!Delete
<1> QED
  BY <1>5 DEF Abstract!Next

LEMMA SubstRefines ==
  ASSUME Inv, NEW from \in 1 .. MaxPos, NEW to \in 1 .. MaxPos,
         NEW old \in Char, NEW new \in Char, SubstChar(from, to, old, new),
         Substituted(buf, buf', from, to, old, new), pointType' = pointType
  PROVE  Abstract!Next
<1>1. Contents(buf') = [i \in 1 .. (buf.z - 1) |->
        IF from <= i /\ i < to /\ Contents(buf)[i] = old THEN new ELSE Contents(buf)[i]]
  BY SubstitutedContents
<1>2. MarksOf(buf') = MarksOf(buf)
  BY SameMarksOf DEF Substituted
<1>3. buf'.begv = buf.begv /\ buf'.pt = buf.pt /\ buf'.zv = buf.zv /\ buf'.z = buf.z
  BY DEF Substituted
<1>4. buf.begv <= from /\ from <= to /\ to <= buf.zv
  BY DEF SubstChar
<1>5. Abstract!Subst(from, to, old, new)
  BY <1>1, <1>2, <1>3, <1>4 DEF Abstract!Subst
<1> QED
  BY <1>5 DEF Abstract!Next

LEMMA RangeRefines ==
  ASSUME SameTextAndMarks(buf, buf')
  PROVE  Contents(buf') = Contents(buf) /\ MarksOf(buf') = MarksOf(buf) /\ buf'.z = buf.z
BY SameContents, SameMarksOf DEF SameTextAndMarks

LEMMA MarkRefines ==
  ASSUME NEW m \in Marker, NEW p \in 0 .. MaxPos, p = 0 \/ (1 <= p /\ p <= buf.z),
         Marked(buf, buf', m, p), pointType' = pointType
  PROVE  Abstract!Next
<1>1. Contents(buf') = Contents(buf)
  BY SameContents DEF Marked
<1>2. MarksOf(buf') = [MarksOf(buf) EXCEPT ![m] = p]
  <2>1. PICK marks : marks = MarksOf(buf)
    OBVIOUS
  <2>2. MarksOf(buf') = [marks EXCEPT ![m] = p]
    BY <2>1, MarkedMarks
  <2> QED
    BY <2>1, <2>2
<1>3. buf'.begv = buf.begv /\ buf'.pt = buf.pt /\ buf'.zv = buf.zv /\ buf'.z = buf.z
  BY DEF Marked
<1>4. Abstract!SetMarker(m, p)
  BY <1>1, <1>2, <1>3 DEF Abstract!SetMarker, Abstract!Nowhere
<1> QED
  BY <1>4 DEF Abstract!Next

LEMMA InitRefines == Init => Abstract!Init
<1> SUFFICES ASSUME Init PROVE Abstract!Init
  OBVIOUS
<1>1. buf.z = 1 /\ buf.begv = 1 /\ buf.zv = 1 /\ buf.pt = 1 /\ buf.gpt = 1 /\ buf.gap = InitGap
  BY DEF Init
<1>2. Contents(buf) = [p \in 1 .. 0 |-> Abstract!Nowhere]
  BY <1>1 DEF Contents
<1>3. MarksOf(buf) = [m \in Marker |-> Abstract!Nowhere]
  <2>1. \A m \in Marker : CharPos(buf, buf.mpos[m]) = 0
    BY <1>1, SizeAssumption DEF Init, CharPos, Nowhere
  <2> QED
    BY <2>1 DEF MarksOf, Abstract!Nowhere
<1> QED
  BY <1>1, <1>2, <1>3 DEF Init, Abstract!Init

LEMMA NextRefines == Inv /\ [Next]_vars => [Abstract!Next]_Abstract!vars
<1> SUFFICES ASSUME Inv, [Next]_vars PROVE Abstract!Next \/ UNCHANGED Abstract!vars
  OBVIOUS
<1>1. ASSUME UNCHANGED <<buf, pointType>> PROVE UNCHANGED Abstract!vars
  BY <1>1 DEF Abstract!vars, Contents, MarksOf
<1>2. CASE \E s \in Strings, which \in Pushes : StartInsert(s, which)
  BY <1>1, <1>2, StartInsertStep
<1>3. CASE FinishInsert
  BY <1>3, FinishInsertStep, InsertRefines DEF InsertedAtPoint
<1>4. CASE QuitInsert
  BY <1>4, QuitInsertStep, UnseenIsStutter
<1>5. CASE \E from, to \in 1 .. MaxPos : StartDelete(from, to) \/ QuitDelete(from, to)
  BY <1>5, StartDeleteStep, QuitDeleteStep, UnseenIsStutter
<1>6. CASE FinishDelete
  BY <1>6, FinishDeleteStep, DeleteRefines
<1>7. CASE AbortCall
  BY <1>1, <1>7, AbortCallStep
<1>8. CASE \E p \in 1 .. MaxPos : MoveGapTo(p)
  BY <1>8, MoveGapToStep, UnseenIsStutter
<1>9. CASE \E s \in Strings : InsertFile(s)
  <2>1. \E n \in 1 .. MaxPos : \E t \in [1 .. n -> Char] :
          /\ buf.z + n <= MaxPos
          /\ TextInserted(buf, buf', buf.pt, t, n, {}) /\ buf'.pt = buf.pt /\ pointType' = pointType
    BY <1>9, InsertFileStep
  <2> QED
    BY <2>1, InsertRefines
<1>10. CASE \E from, to \in 1 .. MaxPos, old, new \in Char : SubstChar(from, to, old, new)
  BY <1>10, SubstCharStep, SubstRefines
<1>11. CASE \E p \in 1 .. MaxPos : GotoChar(p)
  <2>1. PICK p \in 1 .. MaxPos : GotoChar(p)
    BY <1>11
  <2>2. Abstract!Goto(p)
    BY <2>1, GotoCharStep, RangeRefines DEF GotoChar, Abstract!Goto
  <2> QED
    BY <2>2 DEF Abstract!Next
<1>12. CASE \E b, e \in 1 .. MaxPos : NarrowToRegion(b, e)
  <2>1. PICK b, e \in 1 .. MaxPos : NarrowToRegion(b, e)
    BY <1>12
  <2>2. Abstract!Narrow(b, e)
    BY <2>1, NarrowStep, RangeRefines DEF NarrowToRegion, Abstract!Narrow
  <2> QED
    BY <2>2 DEF Abstract!Next
<1>13. CASE \E m \in Marker, p \in 1 .. MaxPos : SetMarker(m, p)
  <2>1. PICK m \in Marker, p \in 1 .. MaxPos : SetMarker(m, p)
    BY <1>13
  <2>2. p \in 0 .. MaxPos /\ 1 <= p /\ p <= buf.z
    BY <2>1, SizeAssumption DEF SetMarker
  <2> QED
    BY <2>1, <2>2, SetMarkerStep, MarkRefines
<1>14. CASE \E m \in Marker : UnchainMarker(m)
  <2>1. PICK m \in Marker : UnchainMarker(m)
    BY <1>14
  <2>2. 0 \in 0 .. MaxPos
    BY SizeAssumption
  <2> QED
    BY <2>1, <2>2, UnchainMarkerStep, MarkRefines
<1>15. CASE \E m \in Marker, t \in BOOLEAN : SetMarkerType(m, t)
  <2>1. PICK m \in Marker, t \in BOOLEAN : SetMarkerType(m, t)
    BY <1>15
  <2>2. Abstract!SetMarkerType(m, t)
    BY <2>1 DEF SetMarkerType, Abstract!SetMarkerType, Contents, MarksOf
  <2> QED
    BY <2>2 DEF Abstract!Next
<1>16. CASE QuitRecordDelete
  BY <1>16, QuitRecordDeleteStep, UnseenIsStutter
<1>17. CASE UNCHANGED vars
  BY <1>1, <1>17 DEF vars
<1> QED
  BY <1>2, <1>3, <1>4, <1>5, <1>6, <1>7, <1>8, <1>9, <1>10, <1>11, <1>12, <1>13, <1>14, <1>15,
     <1>16, <1>17 DEF Next

(* The gap buffer, with markers that hold memory positions and gap motion  *)
(* that a quit can stop anywhere, implements the text of TextSpec.         *)
THEOREM GapBufferImplementsText == Spec => ImplementsText
<1>1. Spec => []Inv
  BY InvariantHolds
<1>2. Init => Abstract!Init
  BY InitRefines
<1>3. Inv /\ [Next]_vars => [Abstract!Next]_Abstract!vars
  BY NextRefines
<1> QED
  BY <1>1, <1>2, <1>3, PTL DEF Spec, ImplementsText, Abstract!Spec
-----------------------------------------------------------------------------
(* Subprocess output and the invariants of GapBuffer, for every text, every *)
(* gap and any number of markers.  All of it is about an Emacs that asks   *)
(* the user nothing between the two steps of a change (Asks is FALSE):     *)
(* TLC shows what output does to a change that waits for an answer.        *)

(* Point on its own, wherever in the text it goes. *)
WithPoint(b, p) == [b EXCEPT !.pt = p]

LEMMA PointElsewhere ==
  ASSUME NEW b, Good(b), NEW p \in Nat, 1 <= p, p <= b.z, NEW c, c = WithPoint(b, p)
  PROVE  /\ Sound(c) /\ PointInText(c) /\ c.pt = p
         /\ c.begv = b.begv /\ c.zv = b.zv /\ SameTextAndMarks(b, c)
<1>1. /\ c.mem = b.mem /\ c.gap = b.gap /\ c.gpt = b.gpt /\ c.z = b.z /\ c.mpos = b.mpos
      /\ c.begv = b.begv /\ c.pt = p /\ c.zv = b.zv
  BY DEF Good, Sound, Typed, WithPoint
<1>2. Typed(c)
  BY <1>1 DEF Good, Sound, Typed, WithPoint
<1>3. \A q : Fetch(c, q) = Fetch(b, q)
  BY <1>1 DEF Fetch
<1>4. \A m \in Marker : CharPos(c, c.mpos[m]) = CharPos(b, b.mpos[m])
  BY <1>1 DEF CharPos
<1>5. Sound(c)
  BY <1>1, <1>2, <1>3 DEF Good, Sound, GapInText, MarkerOutsideGap
<1> QED
  BY <1>1, <1>3, <1>4, <1>5 DEF SameTextAndMarks, PointInText

(* Output goes somewhere in the text. *)
LEMMA MarkInText ==
  ASSUME NEW b, Good(b)
  PROVE  MarkOrEnd(b) \in Nat /\ 1 <= MarkOrEnd(b) /\ MarkOrEnd(b) <= b.z
<1>1. PICK i \in Nat : i = b.mpos[ProcMark] /\ MarkerOutsideGap(b, i)
  BY ProcMarkAssumption DEF Good, Sound, Typed
<1>2. i # 0 => CharPos(b, i) \in Nat /\ 1 <= CharPos(b, i) /\ CharPos(b, i) <= b.z
  BY <1>1, GoodNumbers DEF CharPos, MarkerOutsideGap
<1> QED
  BY <1>1, <1>2, GoodNumbers DEF MarkOrEnd, Nowhere

-----------------------------------------------------------------------------
(* What read_process_output does: n characters s go in at p, which is the  *)
(* mark or the end; the mark is after them, and point where it was in the  *)
(* text.                                                                   *)
Arrived(b, d, s, n, p) ==
  /\ d.z = b.z + n /\ d.zv = b.zv + n /\ d.begv = b.begv
  /\ d.pt = IF p <= b.pt THEN b.pt + n ELSE b.pt
  /\ \A i \in 1 .. (b.z - 1 + n) :
       Fetch(d, i) = IF i < p THEN Fetch(b, i)
                     ELSE IF i < p + n THEN s[i - p + 1] ELSE Fetch(b, i - n)
  /\ MarkOrEnd(d) = p + n

LEMMA ReceivedGood ==
  ASSUME NEW b, Good(b), NEW n \in Nat, n >= 1, NEW s \in [1 .. n -> Char],
         b.z + n <= MaxPos, pointType \in SUBSET Marker,
         NEW p, p = MarkOrEnd(b), NEW d, d = Received(b, s)
  PROVE  Good(d) /\ Arrived(b, d, s, n, p)
<1>1. p \in Nat /\ 1 <= p /\ p <= b.z
  BY MarkInText
<1>2. PICK there : there = WithPoint(b, p)
  OBVIOUS
<1>3. /\ Sound(there) /\ PointInText(there) /\ there.pt = p
      /\ there.begv = b.begv /\ there.zv = b.zv /\ SameTextAndMarks(b, there)
  BY <1>1, <1>2, PointElsewhere
<1>4. PICK inserted : inserted = InsertAdjusting(there, s, p, pointType)
  OBVIOUS
<1>5. Sound(inserted) /\ InsertedAtPoint(there, inserted, s, n, pointType)
  BY <1>3, <1>4, InsertSound
<1>6. /\ inserted.z = b.z + n /\ inserted.zv = b.zv + n /\ inserted.begv = b.begv
      /\ inserted.pt = p + n
  BY <1>3, <1>5 DEF InsertedAtPoint, TextInserted, SameTextAndMarks
<1>7. PICK q \in Nat : q = IF p <= b.pt THEN b.pt + n ELSE b.pt
  BY <1>1, GoodNumbers
<1>8. PICK begv \in Nat, zv \in Nat : begv = inserted.begv /\ zv = inserted.zv
  BY <1>6, GoodNumbers
<1>9. PICK e : e = WithRange(inserted, begv, q, zv)
  OBVIOUS
<1>10. /\ Good(e) /\ e.begv = begv /\ e.pt = q /\ e.zv = zv
       /\ SameTextAndMarks(inserted, e)
  <2>1. 1 <= begv /\ begv <= q /\ q <= zv /\ zv <= inserted.z /\ inserted.z <= MaxPos
    BY <1>6, <1>7, <1>8, GoodNumbers
  <2> QED
    BY <1>5, <1>9, <2>1, FieldsSound
<1>11. PICK i : i = BufPos(e, p + n)
  OBVIOUS
<1>12. d = WithMarker(e, ProcMark, i)
  <2>1. Len(s) = n
    BY LenOfString
  <2>2. d = [inserted EXCEPT !.mpos[ProcMark] = BufPos(inserted, p + n), !.pt = q]
    BY <1>2, <1>3, <1>4, <1>6, <1>7, <2>1 DEF Received, PointAfter, WithPoint
  <2>3. e.gpt = inserted.gpt /\ e.gap = inserted.gap
    BY <1>5, <1>9 DEF WithRange, Sound, Typed
  <2>4. BufPos(inserted, p + n) = i
    BY <1>11, <2>3 DEF BufPos
  <2>5. d = [inserted EXCEPT !.mpos[ProcMark] = i, !.pt = q]
    BY <2>2, <2>4
  <2> QED
    BY <1>5, <1>8, <1>9, <2>5 DEF WithMarker, WithRange, Sound, Typed
<1>13. Good(d) /\ Marked(e, d, ProcMark, p + n)
  <2>1. p + n \in Nat /\ p + n <= e.z
    BY <1>1, <1>6, <1>10, GoodNumbers DEF SameTextAndMarks
  <2> QED
    BY <1>10, <1>11, <1>12, <2>1, ProcMarkAssumption, SetMarkerGood
<1>14. ASSUME NEW k \in 1 .. (b.z - 1 + n)
       PROVE  Fetch(d, k) = IF k < p THEN Fetch(b, k)
                            ELSE IF k < p + n THEN s[k - p + 1] ELSE Fetch(b, k - n)
  <2>1. k \in 1 .. (there.z - 1 + n)
    BY <1>3 DEF SameTextAndMarks
  <2>2. Fetch(d, k) = Fetch(inserted, k)
    BY <1>10, <1>13 DEF SameTextAndMarks, Marked
  <2>3. \A j : Fetch(there, j) = Fetch(b, j)
    BY <1>3 DEF SameTextAndMarks
  <2> QED
    BY <1>3, <1>5, <2>1, <2>2, <2>3 DEF InsertedAtPoint, TextInserted
<1>15. MarkOrEnd(d) = p + n
  <2>1. CharPos(d, d.mpos[ProcMark]) = p + n
    BY <1>13, ProcMarkAssumption DEF Marked
  <2>2. d.mpos[ProcMark] # 0
    <3>1. d.mpos[ProcMark] = 0 => CharPos(d, d.mpos[ProcMark]) = 0
      BY <1>13, GoodNumbers DEF CharPos
    <3> QED
      BY <1>1, <2>1, <3>1
  <2> QED
    BY <2>1, <2>2 DEF MarkOrEnd, Nowhere
<1>16. d.z = b.z + n /\ d.zv = b.zv + n /\ d.begv = b.begv /\ d.pt = q
  BY <1>6, <1>8, <1>10, <1>13 DEF Marked, SameTextAndMarks
<1> QED
  BY <1>7, <1>13, <1>14, <1>15, <1>16 DEF Arrived

-----------------------------------------------------------------------------
LEMMA OutputStep ==
  ASSUME Inv, NEW s \in Strings, Output(s)
  PROVE  /\ Good(buf) /\ Good(buf')
         /\ \E n \in Nat : \E p \in Nat :
              /\ n >= 1 /\ Len(s) = n
              /\ p = MarkOrEnd(buf) /\ 1 <= p /\ p <= buf.z
              /\ Arrived(buf, buf', s, n, p)
<1>1. PICK n \in Nat : n >= 1 /\ s \in [1 .. n -> Char] /\ Len(s) = n
  BY StringOfLength
<1>2. Good(buf) /\ pointType \in SUBSET Marker
  BY InvIsGood
<1>3. PICK p \in Nat : p = MarkOrEnd(buf) /\ 1 <= p /\ p <= buf.z
  BY <1>2, MarkInText
<1>4. buf' = Received(buf, s) /\ buf.z + n <= MaxPos
  BY <1>1 DEF Output
<1>5. Good(buf') /\ Arrived(buf, buf', s, n, p)
  BY <1>1, <1>2, <1>3, <1>4, ReceivedGood
<1> QED
  BY <1>1, <1>2, <1>3, <1>5

LEMMA NextOutputInv ==
  ASSUME Asks = FALSE, Inv, [NextWithOutput]_vars
  PROVE  Inv'
<1>1. CASE [Next]_vars
  BY <1>1, NextInv
<1>2. CASE \E s \in Strings : Output(s)
  <2>1. PICK s \in Strings : Output(s)
    BY <1>2
  <2>2. Good(buf') /\ pointType' = pointType /\ call' = call /\ Idle
    BY <2>1, OutputStep DEF Output
  <2>3. call = None
    BY <2>2, IdleIsNone
  <2> QED
    BY <2>2, <2>3, InvIsGood, IdleAfter
<1> QED
  BY <1>1, <1>2 DEF NextWithOutput

LEMMA InvariantUnderOutput == Asks = FALSE => (SpecWithOutput => []Inv)
<1> SUFFICES ASSUME Asks = FALSE PROVE SpecWithOutput => []Inv
  OBVIOUS
<1>1. Init => Inv
  BY InitInv
<1>2. Inv /\ [NextWithOutput]_vars => Inv'
  BY NextOutputInv
<1> QED
  BY <1>1, <1>2, PTL DEF SpecWithOutput

(* Output that arrives between commands, at a mark that may be outside the *)
(* accessible range, leaves the buffer as insdel.c needs it: positions in  *)
(* order, markers outside the gap, characters everywhere, and no call in   *)
(* progress that it could upset.                                           *)
THEOREM OutputKeepsBuffer ==
  Asks = FALSE =>
    (SpecWithOutput =>
       [](TypeOK /\ PositionsOrdered /\ MarkersOutsideGap /\ TextIsCharacters /\ CallStillValid))
<1> SUFFICES ASSUME Asks = FALSE
             PROVE  SpecWithOutput =>
                      [](TypeOK /\ PositionsOrdered /\ MarkersOutsideGap /\ TextIsCharacters
                         /\ CallStillValid)
  OBVIOUS
<1>0. SpecWithOutput => []Inv
  BY InvariantUnderOutput
<1>1. Inv => TypeOK /\ PositionsOrdered /\ MarkersOutsideGap /\ TextIsCharacters /\ CallStillValid
  BY DEF Inv
<1> QED
  BY <1>0, <1>1, PTL

-----------------------------------------------------------------------------
LEMMA PointPlace ==
  ASSUME Inv, NEW s \in Strings, Output(s)
  PROVE  IF MarkOrEnd(buf) <= buf.pt
         THEN /\ buf'.z - buf'.pt = buf.z - buf.pt
              /\ \A i \in 0 .. (buf.z - buf.pt - 1) :
                   Fetch(buf', buf'.pt + i) = Fetch(buf, buf.pt + i)
         ELSE /\ buf'.pt = buf.pt
              /\ \A i \in 1 .. (buf.pt - 1) : Fetch(buf', i) = Fetch(buf, i)
<1>1. PICK n \in Nat, p \in Nat :
        /\ n >= 1 /\ Len(s) = n
        /\ p = MarkOrEnd(buf) /\ 1 <= p /\ p <= buf.z
        /\ Arrived(buf, buf', s, n, p)
  BY OutputStep
<1>2. PICK z \in Nat, pt \in Nat : z = buf.z /\ pt = buf.pt /\ 1 <= pt /\ pt <= z
  BY OutputStep, GoodNumbers
<1>3. /\ buf'.z = z + n
      /\ \A i \in 1 .. (z - 1 + n) :
           Fetch(buf', i) = IF i < p THEN Fetch(buf, i)
                            ELSE IF i < p + n THEN s[i - p + 1] ELSE Fetch(buf, i - n)
  BY <1>1, <1>2 DEF Arrived
<1>4. CASE p <= pt
  <2>1. buf'.pt = pt + n
    BY <1>1, <1>2, <1>4 DEF Arrived
  <2>2. ASSUME NEW i \in 0 .. (z - pt - 1)
        PROVE  Fetch(buf', pt + n + i) = Fetch(buf, pt + i)
    <3>1. i \in Nat /\ pt + i <= z - 1
      BY <1>2
    <3>2. PICK j \in Nat : j = pt + n + i
      BY <3>1
    <3>a. pt \in Nat /\ 1 <= pt /\ p <= pt
      BY <1>2, <1>4
    <3>3. j \in 1 .. (z - 1 + n) /\ j >= p + n /\ j - n = pt + i
      BY <3>a, <3>1, <3>2
    <3>4. ~ (j < p) /\ ~ (j < p + n)
      BY <3>3
    <3>5. Fetch(buf', j) = Fetch(buf, j - n)
      BY <1>3, <3>3, <3>4
    <3> QED
      BY <3>2, <3>3, <3>5
  <2>3. (z + n) - (pt + n) = z - pt
    BY <1>2
  <2> QED
    BY <1>1, <1>2, <1>3, <1>4, <2>1, <2>2, <2>3
<1>5. CASE ~ (p <= pt)
  <2>1. buf'.pt = pt
    BY <1>1, <1>2, <1>5 DEF Arrived
  <2>2. ASSUME NEW i \in 1 .. (pt - 1)
        PROVE  Fetch(buf', i) = Fetch(buf, i)
    <3>1. i \in 1 .. (z - 1 + n) /\ i < p
      BY <1>1, <1>2, <1>5
    <3> QED
      BY <1>3, <3>1
  <2> QED
    BY <1>1, <1>2, <1>5, <2>1, <2>2
<1> QED
  BY <1>4, <1>5

LEMMA MarkPlace ==
  ASSUME Inv, NEW s \in Strings, Output(s)
  PROVE  /\ MarkOrEnd(buf') = MarkOrEnd(buf) + Len(s)
         /\ \A k \in 1 .. Len(s) : Fetch(buf', MarkOrEnd(buf) + k - 1) = s[k]
<1>1. PICK n \in Nat, p \in Nat :
        /\ n >= 1 /\ Len(s) = n
        /\ p = MarkOrEnd(buf) /\ 1 <= p /\ p <= buf.z
        /\ Arrived(buf, buf', s, n, p)
  BY OutputStep
<1>2. PICK z \in Nat : z = buf.z
  BY OutputStep, GoodNumbers
<1>3. \A i \in 1 .. (z - 1 + n) :
        Fetch(buf', i) = IF i < p THEN Fetch(buf, i)
                         ELSE IF i < p + n THEN s[i - p + 1] ELSE Fetch(buf, i - n)
  BY <1>1, <1>2 DEF Arrived
<1>4. ASSUME NEW k \in 1 .. n
      PROVE  Fetch(buf', p + k - 1) = s[k]
  <2>1. /\ p + k - 1 \in 1 .. (z - 1 + n) /\ ~ (p + k - 1 < p) /\ p + k - 1 < p + n
        /\ (p + k - 1) - p + 1 = k
    BY <1>1, <1>2
  <2> QED
    BY <1>3, <2>1
<1>5. MarkOrEnd(buf') = p + n
  BY <1>1 DEF Arrived
<1> QED
  BY <1>1, <1>4, <1>5

(* Output never moves point in the text, for any text, gap, mark and       *)
(* accessible range: read_process_output puts it back on the same          *)
(* character, or at the same distance from the end.                        *)
THEOREM PointKept == Asks = FALSE => (SpecWithOutput => PointKeepsItsPlace)
<1> SUFFICES ASSUME Asks = FALSE PROVE SpecWithOutput => PointKeepsItsPlace
  OBVIOUS
<1>0. SpecWithOutput => []Inv
  BY InvariantUnderOutput
<1>1. ASSUME Inv, [NextWithOutput]_vars
      PROVE  [\A s \in Strings : Output(s) =>
                IF MarkOrEnd(buf) <= buf.pt
                THEN /\ buf'.z - buf'.pt = buf.z - buf.pt
                     /\ \A i \in 0 .. (buf.z - buf.pt - 1) :
                          Fetch(buf', buf'.pt + i) = Fetch(buf, buf.pt + i)
                ELSE /\ buf'.pt = buf.pt
                     /\ \A i \in 1 .. (buf.pt - 1) : Fetch(buf', i) = Fetch(buf, i)]_vars
  BY <1>1, PointPlace
<1> QED
  BY <1>0, <1>1, PTL DEF SpecWithOutput, PointKeepsItsPlace

(* Output is in order: each piece goes right before the mark, and the mark *)
(* is after it when the next arrives.                                      *)
THEOREM OutputInOrder == Asks = FALSE => (SpecWithOutput => OutputEndsAtMark)
<1> SUFFICES ASSUME Asks = FALSE PROVE SpecWithOutput => OutputEndsAtMark
  OBVIOUS
<1>0. SpecWithOutput => []Inv
  BY InvariantUnderOutput
<1>1. ASSUME Inv, [NextWithOutput]_vars
      PROVE  [\A s \in Strings : Output(s) =>
                /\ MarkOrEnd(buf') = MarkOrEnd(buf) + Len(s)
                /\ \A k \in 1 .. Len(s) : Fetch(buf', MarkOrEnd(buf) + k - 1) = s[k]]_vars
  BY <1>1, MarkPlace
<1> QED
  BY <1>0, <1>1, PTL DEF SpecWithOutput, OutputEndsAtMark
-----------------------------------------------------------------------------
(* What insdel.c tells redisplay, and insert-buffer-substring, for every   *)
(* text and gap: the hints do not hide a change, the region is copied as   *)
(* it is, and the user sees only the steps of TextSpec.                    *)

(* Copying is an insertion of the text that is there.                      *)
RegionOf(b, beg, n) == [k \in 1 .. n |-> Fetch(b, beg + k - 1)]

LEMMA PreparedGood ==
  ASSUME NEW b, Good(b), NEW n \in Nat, NEW c, c = Prepared(b, n)
  PROVE  Good(c) /\ SameView(b, c) /\ c.gap >= n /\ c.gpt = b.pt
<1>1. Sound(b) /\ 1 <= b.pt /\ b.pt <= b.z
  BY GoodNumbers DEF Good
<1>2. Sound(c) /\ SameView(b, c) /\ c.gap >= n /\ c.gpt = b.pt
  BY <1>1, GapAtPoint DEF Prepared
<1> QED
  BY <1>2 DEF Good, Ordered, SameView

LEMMA RegionIsText ==
  ASSUME NEW b, Good(b), NEW beg \in Nat, NEW n \in Nat, 1 <= beg, beg + n <= b.z
  PROVE  RegionOf(b, beg, n) \in [1 .. n -> Char]
<1>1. ASSUME NEW k \in 1 .. n PROVE Fetch(b, beg + k - 1) \in Char
  <2>1. beg + k - 1 \in 1 .. (b.z - 1)
    BY GoodNumbers
  <2> QED
    BY <2>1 DEF Good, Sound
<1> QED
  BY <1>1 DEF RegionOf

(* A region before or after point goes in as one piece, from memory that   *)
(* is not freed.                                                           *)
LEMMA OnePiece ==
  ASSUME Inv, NEW beg \in Nat, NEW end \in Nat,
         InsertBufferSubstring(beg, end), OneSide(beg, end), LongGap(beg, end),
         NEW c, c = Prepared(buf, end - beg)
  PROVE  /\ beg <= end /\ 1 <= beg /\ end <= buf.z
         /\ beg = end => buf' = c
         /\ beg < end => buf' = InsertAdjusting(c, RegionOf(c, beg, end - beg), c.pt, pointType)
<1>1. Good(buf)
  BY InvIsGood
<1>2. beg <= end /\ buf.begv <= beg /\ end <= buf.zv /\ 1 <= beg /\ end <= buf.z
  BY <1>1, GoodNumbers DEF InsertBufferSubstring
<1>3. PICK n \in Nat : n = end - beg
  BY <1>2
<1>4. Good(c) /\ SameView(buf, c) /\ c.gpt = buf.pt
  BY <1>1, <1>3, PreparedGood
<1>5. PICK t \in Nat : t = buf.pt /\ t = c.gpt
  BY <1>1, <1>4, GoodNumbers
<1>6. c.gap >= n + 1 /\ c.gap \in Nat
  BY <1>3, <1>4, GoodNumbers DEF LongGap
<1>7. Copied(c, beg, n) = {RegionOf(c, beg, n)}
  <2>1. ~ (c.gap < n + 1)
    BY <1>6
  <2> QED
    BY <2>1 DEF Copied, RegionOf
<1>8. \A b, p : InsertCopies(b, p, 0) = {b}
  BY DEF InsertCopies
<1>9. n >= 1 => InsertCopies(c, beg, n)
                  = {InsertAdjusting(c, RegionOf(c, beg, n), c.pt, pointType)}
  <2>1. ASSUME n >= 1
        PROVE  InsertCopies(c, beg, n) = {InsertAdjusting(c, s, c.pt, pointType) : s \in Copied(c, beg, n)}
    BY <2>1 DEF InsertCopies
  <2> QED
    BY <1>7, <2>1
<1>10. PICK before : before = IF beg < t THEN Least(end, t) - beg ELSE 0
  OBVIOUS
<1>11. PICK b \in InsertCopies(c, beg, before) :
         \E rest : /\ rest = IF beg < t THEN Least(end, b.gpt) ELSE beg
                   /\ buf' \in InsertCopies(b, rest, end - rest)
  BY <1>5, <1>10 DEF InsertBufferSubstring
<1>12. PICK rest : /\ rest = IF beg < t THEN Least(end, b.gpt) ELSE beg
                   /\ buf' \in InsertCopies(b, rest, end - rest)
  BY <1>11
<1>13. CASE end <= t /\ beg < t
  <2>1. before = n
    BY <1>3, <1>10, <1>13 DEF Least
  <2>2. rest = end
    <3>1. CASE n = 0
      <4>1. b = c
        BY <1>8, <1>11, <2>1, <3>1
      <4> QED
        BY <1>5, <1>12, <1>13, <4>1 DEF Least
    <3>2. CASE n >= 1
      <4>1. b = InsertAdjusting(c, RegionOf(c, beg, n), c.pt, pointType)
        BY <1>9, <1>11, <2>1, <3>2
      <4>2. RegionOf(c, beg, n) \in [1 .. n -> Char] /\ c.z + n <= MaxPos
        <5>1. beg + n <= c.z
          BY <1>2, <1>3, <1>4 DEF SameView
        <5>2. RegionOf(c, beg, n) \in [1 .. n -> Char]
          BY <1>2, <1>4, <5>1, RegionIsText
        <5>3. c.z + n <= MaxPos
          BY <1>3, <1>4 DEF InsertBufferSubstring, SameView
        <5> QED
          BY <5>2, <5>3
      <4>3. InsertedAtPoint(c, b, RegionOf(c, beg, n), n, pointType)
        <5>1. PICK s : s = RegionOf(c, beg, n)
          OBVIOUS
        <5>2. pointType \in SUBSET Marker
          BY InvIsGood
        <5>3. InsertedAtPoint(c, b, s, n, pointType)
          BY <1>4, <3>2, <4>1, <4>2, <5>1, <5>2, InsertGood
        <5> QED
          BY <5>1, <5>3
      <4>4. b.gpt = t + n
        BY <1>4, <1>5, <4>3 DEF InsertedAtPoint, SameView
      <4> QED
        BY <1>3, <1>5, <1>12, <1>13, <4>4 DEF Least
    <3> QED
      BY <1>3, <3>1, <3>2
  <2>3. buf' = b
    BY <1>8, <1>12, <2>2
  <2> QED
    BY <1>2, <1>3, <1>8, <1>9, <1>11, <2>1, <2>3
<1>14. CASE ~ (beg < t)
  <2>1. before = 0 /\ rest = beg
    BY <1>10, <1>12, <1>14
  <2>2. b = c
    BY <1>8, <1>11, <2>1
  <2>3. buf' \in InsertCopies(c, beg, n)
    BY <1>3, <1>12, <2>1, <2>2
  <2> QED
    BY <1>2, <1>3, <1>8, <1>9, <2>3
<1> QED
  BY <1>2, <1>5, <1>13, <1>14 DEF OneSide

(* What the region becomes for the user, once the gap is at point.         *)
LEMMA RegionInserted ==
  ASSUME NEW b, Good(b), NEW beg \in Nat, NEW n \in Nat, n >= 1, 1 <= beg, beg + n <= b.z,
         b.z + n <= MaxPos, NEW pushed \in SUBSET Marker,
         NEW c, Good(c), SameView(b, c), NEW s, s = RegionOf(c, beg, n),
         NEW d, d = InsertAdjusting(c, s, c.pt, pushed)
  PROVE  Good(d) /\ InsertedAtPoint(b, d, s, n, pushed) /\ s \in [1 .. n -> Char]
<1>1. s \in [1 .. n -> Char]
  <2>1. beg + n <= c.z
    BY DEF SameView
  <2> QED
    BY <2>1, RegionIsText
<1>2. PICK t \in Nat, z \in Nat : t = b.pt /\ t = c.pt /\ z = b.z /\ z = c.z
  BY GoodNumbers DEF SameView
<1>3. Good(d) /\ InsertedAtPoint(c, d, s, n, pushed)
  <2>1. c.z + n <= MaxPos
    BY DEF SameView
  <2>2. PICK p : p = c.pt
    OBVIOUS
  <2>3. d = InsertAdjusting(c, s, p, pushed)
    BY <2>2
  <2> QED
    BY <1>1, <2>1, <2>2, <2>3, InsertGood
<1>4. ASSUME NEW i \in 1 .. (z - 1 + n)
      PROVE  Fetch(d, i) = IF i < t THEN Fetch(b, i)
                           ELSE IF i < t + n THEN s[i - t + 1] ELSE Fetch(b, i - n)
  <2>1. Fetch(d, i) = IF i < t THEN Fetch(c, i)
                      ELSE IF i < t + n THEN s[i - t + 1] ELSE Fetch(c, i - n)
    BY <1>2, <1>3 DEF InsertedAtPoint, TextInserted
  <2>2. (i < t => i \in 1 .. (z - 1)) /\ (~ (i < t + n) => i - n \in 1 .. (z - 1))
    BY <1>2, GoodNumbers
  <2>3. \A j \in 1 .. (z - 1) : Fetch(c, j) = Fetch(b, j)
    BY <1>2 DEF SameView
  <2> QED
    BY <2>1, <2>2, <2>3
<1>5. /\ d.z = b.z + n /\ d.zv = b.zv + n /\ d.begv = b.begv
      /\ d.pt = b.pt + n /\ d.gpt = d.pt
  BY <1>3 DEF InsertedAtPoint, TextInserted, SameView
<1>6. \A m \in Marker :
        CharPos(d, d.mpos[m]) = PushedPos(CharPos(b, b.mpos[m]), b.pt, n, m \in pushed)
  BY <1>3 DEF InsertedAtPoint, TextInserted, SameView
<1> QED
  BY <1>1, <1>2, <1>3, <1>4, <1>5, <1>6 DEF InsertedAtPoint, TextInserted

LEMMA CopyStep ==
  ASSUME Inv, NEW beg \in 1 .. MaxPos, NEW end \in 1 .. MaxPos,
         InsertBufferSubstring(beg, end), OneSide(beg, end), LongGap(beg, end)
  PROVE  /\ Good(buf) /\ Good(buf') /\ beg <= end /\ end <= buf.z
         /\ beg = end => SameView(buf, buf') /\ buf'.gpt = buf.pt
         /\ beg < end =>
              \E n \in 1 .. MaxPos : \E s \in [1 .. n -> Char] :
                /\ n = end - beg /\ buf.z + n <= MaxPos
                /\ InsertedAtPoint(buf, buf', s, n, pointType)
                /\ \A k \in 1 .. n : s[k] = Fetch(buf, beg + k - 1)
<1>1. Good(buf) /\ pointType \in SUBSET Marker
  BY InvIsGood
<1>2. beg \in Nat /\ end \in Nat /\ 1 <= beg
  BY SizeAssumption
<1>3. PICK c : c = Prepared(buf, end - beg)
  OBVIOUS
<1>4. /\ beg <= end /\ end <= buf.z
      /\ beg = end => buf' = c
      /\ beg < end => buf' = InsertAdjusting(c, RegionOf(c, beg, end - beg), c.pt, pointType)
  BY <1>2, <1>3, OnePiece
<1>5. PICK n \in Nat : n = end - beg
  BY <1>2, <1>4
<1>6. Good(c) /\ SameView(buf, c) /\ c.gpt = buf.pt
  BY <1>1, <1>3, <1>5, PreparedGood
<1>7. CASE beg = end
  BY <1>1, <1>4, <1>6, <1>7
<1>8. CASE beg < end
  <2>1. PICK s : s = RegionOf(c, beg, n)
    OBVIOUS
  <2>2. n >= 1 /\ beg + n <= buf.z /\ buf.z + n <= MaxPos
    BY <1>1, <1>2, <1>4, <1>5, <1>8, GoodNumbers DEF InsertBufferSubstring
  <2>3. buf' = InsertAdjusting(c, s, c.pt, pointType)
    BY <1>4, <1>5, <1>8, <2>1
  <2>4. Good(buf') /\ InsertedAtPoint(buf, buf', s, n, pointType) /\ s \in [1 .. n -> Char]
    BY <1>1, <1>2, <1>6, <2>1, <2>2, <2>3, RegionInserted, ZenonT(40)
  <2>5. ASSUME NEW k \in 1 .. n PROVE s[k] = Fetch(buf, beg + k - 1)
    <3>1. beg + k - 1 \in 1 .. (buf.z - 1)
      BY <1>1, <1>2, <2>2, GoodNumbers
    <3>2. s[k] = Fetch(c, beg + k - 1)
      BY <2>1 DEF RegionOf
    <3> QED
      BY <1>6, <3>1, <3>2 DEF SameView
  <2>6. n \in 1 .. MaxPos
    BY <1>1, <2>2, GoodNumbers, SizeAssumption
  <2> QED
    BY <1>1, <1>4, <1>5, <1>8, <2>2, <2>4, <2>5, <2>6
<1> QED
  BY <1>2, <1>4, <1>7, <1>8

LEMMA OutOfRangeStep ==
  ASSUME Inv, NEW beg \in 1 .. MaxPos, NEW end \in 1 .. MaxPos, OutOfRange(beg, end)
  PROVE  Good(buf') /\ SameView(buf, buf') /\ buf'.gpt = buf.pt
<1>1. end - beg \in Nat /\ Good(buf)
  BY InvIsGood, SizeAssumption DEF OutOfRange
<1> QED
  BY <1>1, PreparedGood DEF OutOfRange
-----------------------------------------------------------------------------
LEMMA OneSideStep ==
  ASSUME Inv, NEW beg \in 1 .. MaxPos, NEW end \in 1 .. MaxPos,
         InsertBufferSubstring(beg, end), OneSide(beg, end), LongGap(beg, end)
  PROVE  InsertedIsRegion(beg, end)
<1>1. PICK t \in Nat, z \in Nat : t = buf.pt /\ z = buf.z /\ 1 <= t /\ t <= z
  BY CopyStep, GoodNumbers
<1>2. beg \in Nat /\ end \in Nat
  BY SizeAssumption
<1>3. CASE beg = end
  <2>1. SameView(buf, buf')
    BY <1>3, CopyStep
  <2>2. buf'.z = z /\ buf'.pt = t
    BY <1>1, <2>1 DEF SameView
  <2>3. end - beg = 0
    BY <1>2, <1>3
  <2>4. ASSUME NEW i \in 1 .. (z - 1)
        PROVE  Fetch(buf', i) = Fetch(buf, i) /\ i - 0 = i
    BY <1>1, <2>1 DEF SameView
  <2> QED
    BY <1>1, <2>2, <2>3, <2>4 DEF InsertedIsRegion
<1>4. CASE beg < end
  <2>1. PICK n \in 1 .. MaxPos : \E s \in [1 .. n -> Char] :
          /\ n = end - beg
          /\ InsertedAtPoint(buf, buf', s, n, pointType)
          /\ \A k \in 1 .. n : s[k] = Fetch(buf, beg + k - 1)
    BY <1>4, CopyStep
  <2>2. PICK s \in [1 .. n -> Char] :
          /\ n = end - beg
          /\ InsertedAtPoint(buf, buf', s, n, pointType)
          /\ \A k \in 1 .. n : s[k] = Fetch(buf, beg + k - 1)
    BY <2>1
  <2>3. /\ buf'.z = z + n /\ buf'.pt = t + n
        /\ \A i \in 1 .. (z - 1 + n) :
             Fetch(buf', i) = IF i < t THEN Fetch(buf, i)
                              ELSE IF i < t + n THEN s[i - t + 1] ELSE Fetch(buf, i - n)
    BY <1>1, <2>2 DEF InsertedAtPoint, TextInserted
  <2>4. ASSUME NEW i \in 1 .. (z - 1 + n)
        PROVE  Fetch(buf', i) =
                 IF i < t THEN Fetch(buf, i)
                 ELSE IF i < t + n THEN Fetch(buf, i - t + beg) ELSE Fetch(buf, i - n)
    <3>1. n \in Nat
      BY SizeAssumption
    <3>2. ASSUME ~ (i < t), i < t + n
          PROVE  s[i - t + 1] = Fetch(buf, i - t + beg)
      <4>1. PICK k : k = i - t + 1
        OBVIOUS
      <4>2. k \in 1 .. n
        <5>1. i \in Int /\ t <= i /\ i < t + n
          BY <1>1, <3>1, <3>2
        <5>2. k \in Int /\ 1 <= k /\ k <= n
          BY <3>1, <4>1, <5>1
        <5> QED
          BY <3>1, <5>2
      <4>3. beg + k - 1 = i - t + beg
        BY <1>1, <1>2, <4>1
      <4> QED
        BY <2>2, <4>1, <4>2, <4>3
    <3> QED
      BY <2>3, <3>2
  <2>5. (z + n) - 1 = z - 1 + n
    BY <1>1, SizeAssumption
  <2> QED
    BY <1>1, <2>2, <2>3, <2>4, <2>5 DEF InsertedIsRegion
<1> QED
  BY <1>2, <1>3, <1>4, CopyStep

-----------------------------------------------------------------------------
(* The hints.                                                              *)
Distances == [beg : Nat, end : Nat]

HintsTyped ==
  hints \in Distances /\ untouched \in Distances /\ fresh \in BOOLEAN /\ misled \in BOOLEAN

(* beg_unchanged is not beyond the gap: insertion relies on it, since it   *)
(* takes down no hint when the gap is at point already.                    *)
NotBeyondGap == misled = FALSE => hints.beg <= Before(buf)

(* What end_unchanged says may be too much, as long as the gap says less.  *)
ChangesSeen ==
  misled = FALSE /\ fresh = FALSE =>
    /\ hints.beg <= untouched.beg
    /\ hints.end <= untouched.end \/ After(buf) <= untouched.end

NothingYet == fresh = TRUE => untouched = Everything(buf)

HintInv == HintsTyped /\ NotBeyondGap /\ ChangesSeen /\ NothingYet

LEMMA HintInvShows == HintInv /\ Good(buf) => UnchangedUnlessMisled
<1> SUFFICES ASSUME HintInv, Good(buf), ~misled, ~fresh
             PROVE  Claims.beg <= untouched.beg /\ Claims.end <= untouched.end
  BY DEF UnchangedUnlessMisled, UnchangedWasUntouched
<1>1. PICK hb \in Nat, he \in Nat, ub \in Nat, ue \in Nat :
        hb = hints.beg /\ he = hints.end /\ ub = untouched.beg /\ ue = untouched.end
  BY DEF HintInv, HintsTyped, Distances
<1>2. PICK t \in Nat, z \in Nat : t = buf.gpt /\ z = buf.z /\ 1 <= t /\ t <= z
  BY GoodNumbers
<1>3. hb <= ub /\ (he <= ue \/ z - t <= ue)
  BY <1>1, <1>2 DEF HintInv, HintsTyped, ChangesSeen, After
<1>4. Least(hb, t - 1) <= ub /\ Least(he, z - t) <= ue
  BY <1>1, <1>2, <1>3 DEF Least
<1> QED
  BY <1>1, <1>2, <1>4 DEF Claims, Lower, Before, After

LEMMA InitHintInv == InitHints => HintInv
<1> SUFFICES ASSUME InitHints PROVE HintInv
  OBVIOUS
<1>1. buf.z = 1 /\ buf.gpt = 1
  BY DEF InitHints, Init
<1>2. Before(buf) = 0 /\ After(buf) = 0 /\ Everything(buf) = [beg |-> 0, end |-> 0]
  BY <1>1 DEF Before, After, Everything
<1>3. /\ hints = [beg |-> 0, end |-> 0] /\ untouched = [beg |-> 0, end |-> 0]
      /\ fresh = TRUE /\ misled = FALSE
  BY <1>2 DEF InitHints
<1>4. HintsTyped
  BY <1>3 DEF HintsTyped, Distances
<1>5. NotBeyondGap /\ ChangesSeen /\ NothingYet
  BY <1>2, <1>3 DEF NotBeyondGap, ChangesSeen, NothingYet
<1> QED
  BY <1>4, <1>5 DEF HintInv

(* l is h, taken down to b and e. *)
Under(l, h, b, e) ==
  l \in Distances /\ l.beg <= b /\ l.end <= e /\ l.beg <= h.beg /\ l.end <= h.end

LEMMA Lowered ==
  ASSUME NEW h \in Distances, NEW b \in Nat, NEW e \in Nat, NEW l, l = Lower(h, b, e)
  PROVE  /\ Under(l, h, b, e)
         /\ \A k \in Nat : k <= b /\ k <= h.beg => k <= l.beg
         /\ \A k \in Nat : k <= e /\ k <= h.end => k <= l.end
<1>1. h.beg \in Nat /\ h.end \in Nat
  BY DEF Distances
<1>2. /\ Least(h.beg, b) \in Nat /\ Least(h.beg, b) <= b /\ Least(h.beg, b) <= h.beg
      /\ \A k \in Nat : k <= b /\ k <= h.beg => k <= Least(h.beg, b)
  BY <1>1 DEF Least
<1>3. /\ Least(h.end, e) \in Nat /\ Least(h.end, e) <= e /\ Least(h.end, e) <= h.end
      /\ \A k \in Nat : k <= e /\ k <= h.end => k <= Least(h.end, e)
  BY <1>1 DEF Least
<1> QED
  BY <1>2, <1>3 DEF Lower, Distances, Under

(* gap_left and gap_right lower the hints, or set them if they are fresh.  *)
LEMMA MotionHints ==
  ASSUME Good(buf), HintsTyped, NEW p \in Nat, 1 <= p, p <= buf.z, NEW m, m = Motion(p)
  PROVE  /\ m \in Distances
         /\ p = buf.gpt => m = hints
         /\ p # buf.gpt /\ fresh = TRUE => m.beg = p - 1 /\ m.end = buf.z - p
         /\ fresh = FALSE => m.beg <= hints.beg /\ m.end <= hints.end
         /\ p < buf.gpt /\ fresh = FALSE => m.beg <= p - 1 /\ m.end <= After(buf)
         /\ p > buf.gpt /\ fresh = FALSE => m.beg <= Before(buf) /\ m.end <= buf.z - p
<1>1. PICK t \in Nat, z \in Nat : t = buf.gpt /\ z = buf.z /\ 1 <= t /\ t <= z
  BY GoodNumbers
<1>2. p - 1 \in Nat /\ z - p \in Nat /\ t - 1 \in Nat /\ z - t \in Nat
  BY <1>1
<1>3. Before(buf) = t - 1 /\ After(buf) = z - t
  BY <1>1 DEF Before, After
<1>4. hints \in Distances /\ hints.beg \in Nat /\ hints.end \in Nat /\ fresh \in BOOLEAN
  BY DEF HintsTyped, Distances
<1>5. CASE p = t
  BY <1>1, <1>4, <1>5 DEF Motion
<1>6. CASE p # t /\ fresh = TRUE
  <2>1. m = [beg |-> p - 1, end |-> z - p]
    BY <1>1, <1>6 DEF Motion
  <2> QED
    BY <1>1, <1>2, <1>6, <2>1 DEF Distances
<1>7. CASE p < t /\ fresh = FALSE
  <2>1. m = Lower(hints, p - 1, z - t)
    BY <1>1, <1>3, <1>7 DEF Motion
  <2>2. PICK b \in Nat, e \in Nat : b = p - 1 /\ e = z - t
    BY <1>2
  <2>3. Under(m, hints, b, e)
    BY <1>4, <2>1, <2>2, Lowered
  <2> QED
    BY <1>1, <1>3, <1>7, <2>2, <2>3 DEF Under
<1>8. CASE p > t /\ fresh = FALSE
  <2>1. m = Lower(hints, t - 1, z - p)
    BY <1>1, <1>3, <1>8 DEF Motion
  <2>2. PICK b \in Nat, e \in Nat : b = t - 1 /\ e = z - p
    BY <1>2
  <2>3. Under(m, hints, b, e)
    BY <1>4, <2>1, <2>2, Lowered
  <2> QED
    BY <1>1, <1>3, <1>8, <2>2, <2>3 DEF Under
<1>9. (p = t \/ p < t \/ p > t) /\ (fresh = TRUE \/ fresh = FALSE)
  BY <1>1, <1>4
<1> QED
  BY <1>5, <1>6, <1>7, <1>8, <1>9

-----------------------------------------------------------------------------
(* What the changes of the text do to the hints.  The gap of buf' is where *)
(* the change was, so its position bounds both hints.                      *)
LEMMA HintInvAfter ==
  ASSUME HintsTyped', Good(buf'),
         misled' = FALSE => hints'.beg <= buf'.gpt - 1,
         misled' = FALSE /\ fresh' = FALSE =>
           /\ hints'.beg <= untouched'.beg
           /\ hints'.end <= untouched'.end \/ buf'.z - buf'.gpt <= untouched'.end,
         fresh' = TRUE => untouched' = [beg |-> buf'.z - 1, end |-> buf'.z - 1]
  PROVE  HintInv'
BY DEF HintInv, NotBeyondGap, ChangesSeen, NothingYet, Before, After, Everything

(* Where the gap is after it moved towards p. *)
Towards(p) ==
  /\ buf'.z = buf.z
  /\ (p <= buf'.gpt /\ buf'.gpt <= buf.gpt) \/ (buf.gpt <= buf'.gpt /\ buf'.gpt <= p)

LEMMA MovedKeeps ==
  ASSUME HintInv, Good(buf), Good(buf'), NEW p \in Nat, 1 <= p, p <= buf.z,
         Towards(p), Moved(p, buf'.gpt)
  PROVE  HintInv'
<1>1. PICK t \in Nat, z \in Nat, r \in Nat :
        /\ t = buf.gpt /\ z = buf.z /\ r = buf'.gpt /\ z = buf'.z
        /\ 1 <= t /\ t <= z /\ 1 <= r /\ r <= z
        /\ (p <= r /\ r <= t) \/ (t <= r /\ r <= p)
  BY GoodNumbers DEF Towards
<1>2. PICK m : m = Motion(p) /\ hints' = m
  BY DEF Moved
<1>3. HintsTyped /\ fresh \in BOOLEAN /\ misled \in BOOLEAN
  BY DEF HintInv, HintsTyped
<1>4. PICK b \in Nat, e \in Nat, ub \in Nat, ue \in Nat :
        b = hints.beg /\ e = hints.end /\ ub = untouched.beg /\ ue = untouched.end
  BY <1>3 DEF HintsTyped, Distances
<1>5. /\ m \in Distances
      /\ p = t => m = hints
      /\ p # t /\ fresh = TRUE => m.beg = p - 1 /\ m.end = z - p
      /\ fresh = FALSE => m.beg <= b /\ m.end <= e
      /\ p < t /\ fresh = FALSE => m.beg <= p - 1 /\ m.end <= z - t
      /\ p > t /\ fresh = FALSE => m.beg <= t - 1 /\ m.end <= z - p
  BY <1>1, <1>2, <1>3, <1>4, MotionHints, ZenonT(40) DEF After, Before
<1>6. PICK mb \in Nat, me \in Nat : mb = m.beg /\ me = m.end
  BY <1>5 DEF Distances
<1>7. /\ misled = FALSE => b <= t - 1
      /\ misled = FALSE /\ fresh = FALSE => b <= ub /\ (e <= ue \/ z - t <= ue)
      /\ fresh = TRUE => untouched = [beg |-> z - 1, end |-> z - 1]
  BY <1>1, <1>4 DEF HintInv, NotBeyondGap, ChangesSeen, NothingYet, Before, After, Everything
<1>8. fresh' = fresh /\ untouched' = untouched
  BY DEF Moved
<1>9. /\ fresh = TRUE /\ p # t => misled' \in BOOLEAN /\ (misled' = FALSE => p <= r)
      /\ ~ (fresh = TRUE /\ p # t) => misled' = misled
  <2>1. CASE fresh = TRUE /\ p # t
    <3>1. misled' = (p > r)
      BY <1>1, <2>1 DEF Moved
    <3>2. (p > r) \in BOOLEAN /\ ((p > r) = FALSE => p <= r)
      BY <1>1
    <3> QED
      BY <2>1, <3>1, <3>2
  <2>2. CASE ~ (fresh = TRUE /\ p # t)
    BY <1>1, <1>3, <2>2 DEF Moved
  <2> QED
    BY <2>1, <2>2
<1>a. misled' \in BOOLEAN /\ (p = t \/ p < t \/ p > t)
  BY <1>1, <1>3, <1>9
<1>10. HintsTyped'
  BY <1>2, <1>3, <1>5, <1>8, <1>a DEF HintsTyped
<1>11. misled' = FALSE => mb <= r - 1
  <2>1. CASE p = t
    BY <1>1, <1>4, <1>5, <1>6, <1>7, <1>9, <2>1
  <2>2. CASE p # t /\ fresh = TRUE
    BY <1>1, <1>5, <1>6, <1>9, <2>2
  <2>3. CASE p < t /\ fresh = FALSE
    BY <1>1, <1>5, <1>6, <2>3
  <2>4. CASE p > t /\ fresh = FALSE
    BY <1>1, <1>5, <1>6, <2>4
  <2> QED
    BY <1>3, <1>a, <2>1, <2>2, <2>3, <2>4
<1>12. misled' = FALSE /\ fresh = FALSE => mb <= ub /\ (me <= ue \/ z - r <= ue)
  <2>1. CASE p = t
    BY <1>1, <1>4, <1>5, <1>6, <1>7, <1>9, <2>1
  <2>3. CASE p < t /\ fresh = FALSE
    BY <1>1, <1>5, <1>6, <1>7, <1>9, <2>3
  <2>4. CASE p > t /\ fresh = FALSE
    BY <1>1, <1>5, <1>6, <1>7, <1>9, <2>4
  <2> QED
    BY <1>3, <1>a, <2>1, <2>3, <2>4
<1> QED
  BY <1>1, <1>2, <1>4, <1>6, <1>7, <1>8, <1>10, <1>11, <1>12, HintInvAfter

(* s, n characters long, went in at point.                                 *)
LEMMA InsertedKeeps ==
  ASSUME HintInv, Good(buf), Good(buf'), NEW n \in Nat, Inserted,
         buf'.z = buf.z + n, buf'.gpt = buf.pt + n
  PROVE  HintInv'
<1>1. PICK t \in Nat, z \in Nat, p \in Nat :
        /\ t = buf.gpt /\ z = buf.z /\ p = buf.pt
        /\ 1 <= t /\ t <= z /\ 1 <= p /\ p <= z
  BY GoodNumbers
<1>2. PICK m : m = Motion(p) /\ hints' = m
  BY <1>1 DEF Inserted
<1>3. HintsTyped /\ fresh \in BOOLEAN /\ misled \in BOOLEAN /\ untouched \in Distances
  BY DEF HintInv, HintsTyped
<1>4. PICK b \in Nat, e \in Nat, ub \in Nat, ue \in Nat :
        b = hints.beg /\ e = hints.end /\ ub = untouched.beg /\ ue = untouched.end
  BY <1>3 DEF HintsTyped, Distances
<1>5. /\ m \in Distances
      /\ p = t => m = hints
      /\ p # t /\ fresh = TRUE => m.beg = p - 1 /\ m.end = z - p
      /\ fresh = FALSE => m.beg <= b /\ m.end <= e
      /\ p < t /\ fresh = FALSE => m.beg <= p - 1 /\ m.end <= z - t
      /\ p > t /\ fresh = FALSE => m.beg <= t - 1 /\ m.end <= z - p
  BY <1>1, <1>2, <1>3, <1>4, MotionHints DEF After, Before
<1>6. PICK mb \in Nat, me \in Nat : mb = m.beg /\ me = m.end
  BY <1>5 DEF Distances
<1>7. /\ misled = FALSE => b <= t - 1
      /\ misled = FALSE /\ fresh = FALSE => b <= ub /\ (e <= ue \/ z - t <= ue)
      /\ fresh = TRUE => untouched = [beg |-> z - 1, end |-> z - 1]
  BY <1>1, <1>4 DEF HintInv, NotBeyondGap, ChangesSeen, NothingYet, Before, After, Everything
<1>8. PICK before \in Nat, after \in Nat : before = p - 1 /\ after = z - p
  BY <1>1
<1>9. PICK u : u = Lower(untouched, before, after) /\ untouched' = u /\ fresh' = FALSE
  BY <1>1, <1>8 DEF Inserted, Touched
<1>10. /\ Under(u, untouched, before, after)
       /\ \A k \in Nat : k <= before /\ k <= ub => k <= u.beg
       /\ \A k \in Nat : k <= after /\ k <= ue => k <= u.end
  BY <1>3, <1>4, <1>8, <1>9, Lowered
<1>11. misled' \in BOOLEAN /\ (misled' = FALSE => misled = FALSE \/ (fresh = TRUE /\ p # t))
  BY <1>1, <1>3 DEF Inserted
<1>12. HintsTyped'
  BY <1>2, <1>5, <1>9, <1>10, <1>11 DEF HintsTyped, Under
<1>13. misled' = FALSE => mb <= before
  <2>1. CASE p = t
    BY <1>1, <1>4, <1>5, <1>6, <1>7, <1>8, <1>11, <2>1
  <2>2. CASE p # t /\ fresh = TRUE
    BY <1>5, <1>6, <1>8, <2>2
  <2>3. CASE p < t /\ fresh = FALSE
    BY <1>5, <1>6, <1>8, <2>3
  <2>4. CASE p > t /\ fresh = FALSE
    BY <1>1, <1>5, <1>6, <1>8, <2>4
  <2>5. p = t \/ p < t \/ p > t
    BY <1>1
  <2> QED
    BY <1>3, <2>1, <2>2, <2>3, <2>4, <2>5
<1>14. misled' = FALSE => mb <= u.beg
  <2>1. CASE fresh = TRUE
    <3>1. ub = z - 1 /\ before <= ub
      BY <1>1, <1>4, <1>7, <1>8, <2>1
    <3> QED
      BY <1>10, <1>13, <3>1
  <2>2. CASE fresh = FALSE
    BY <1>5, <1>6, <1>7, <1>10, <1>11, <1>13, <2>2
  <2> QED
    BY <1>3, <2>1, <2>2
<1>15. misled' = FALSE => after <= u.end \/ me <= u.end
  <2>1. CASE fresh = TRUE
    <3>1. ue = z - 1 /\ after <= ue
      BY <1>1, <1>4, <1>7, <1>8, <2>1
    <3> QED
      BY <1>10, <3>1
  <2>2. CASE fresh = FALSE /\ e <= ue /\ misled = FALSE
    <3>1. me <= e
      BY <1>5, <1>6, <2>2
    <3>2. after <= ue \/ me <= after
      BY <2>2, <3>1
    <3> QED
      BY <1>10, <2>2, <3>1, <3>2
  <2>3. CASE fresh = FALSE /\ z - t <= ue
    <3>1. p >= t => after <= ue
      BY <1>1, <1>8, <2>3
    <3>2. p < t => me <= ue /\ me <= after
      BY <1>1, <1>5, <1>6, <1>8, <2>3
    <3>3. p < t \/ p >= t
      BY <1>1
    <3> QED
      BY <1>10, <3>1, <3>2, <3>3
  <2> QED
    BY <1>3, <1>7, <1>11, <2>1, <2>2, <2>3
<1> QED
  <2>1. buf'.z - buf'.gpt = after /\ buf'.gpt - 1 = before + n
    BY <1>1, <1>8
  <2>2. misled' = FALSE => hints'.beg <= buf'.gpt - 1
    BY <1>2, <1>6, <1>8, <1>13, <2>1
  <2> QED
    BY <1>2, <1>6, <1>9, <1>12, <1>14, <1>15, <2>1, <2>2, HintInvAfter

(* A change between from and to takes both hints down to it.               *)
LEMMA ChangedKeeps ==
  ASSUME HintInv, Good(buf), Good(buf'), NEW from \in Nat, NEW to \in Nat,
         1 <= from, from <= to, to <= buf.z,
         hints'.beg <= from - 1, hints'.end <= buf.z - to, hints' \in Distances,
         misled' \in BOOLEAN, Touched(from - 1, buf.z - to),
         misled' = FALSE => hints'.beg <= buf'.gpt - 1,
         misled' = FALSE /\ fresh = FALSE =>
           /\ hints'.beg <= untouched.beg
           /\ hints'.end <= untouched.end \/ buf'.z - buf'.gpt <= untouched.end
  PROVE  HintInv'
<1>1. PICK z \in Nat, r \in Nat, y \in Nat :
        z = buf.z /\ r = buf'.gpt /\ y = buf'.z /\ r <= y
  BY GoodNumbers
<1>2. PICK hb \in Nat, he \in Nat : hb = hints'.beg /\ he = hints'.end
  BY DEF Distances
<1>3. untouched \in Distances /\ fresh \in BOOLEAN
  BY DEF HintInv, HintsTyped
<1>4. PICK ub \in Nat, ue \in Nat : ub = untouched.beg /\ ue = untouched.end
  BY <1>3 DEF Distances
<1>5. PICK before \in Nat, after \in Nat : before = from - 1 /\ after = z - to
  BY <1>1
<1>6. PICK u : u = Lower(untouched, before, after) /\ untouched' = u /\ fresh' = FALSE
  BY <1>1, <1>5 DEF Touched
<1>7. /\ Under(u, untouched, before, after)
      /\ \A k \in Nat : k <= before /\ k <= ub => k <= u.beg
      /\ \A k \in Nat : k <= after /\ k <= ue => k <= u.end
  BY <1>3, <1>4, <1>5, <1>6, Lowered
<1>8. HintsTyped'
  BY <1>6, <1>7 DEF HintsTyped, Under
<1>9. hb <= before /\ he <= after
  BY <1>1, <1>2, <1>5
<1>10. misled' = FALSE => hb <= u.beg /\ (he <= u.end \/ y - r <= u.end)
  <2>1. CASE fresh = TRUE
    <3>1. untouched = [beg |-> z - 1, end |-> z - 1]
      BY <1>1, <2>1 DEF HintInv, NothingYet, Everything
    <3>2. before <= ub /\ after <= ue
      BY <1>1, <1>4, <1>5, <3>1
    <3> QED
      BY <1>7, <1>9, <3>2
  <2>2. CASE fresh = FALSE /\ misled' = FALSE
    <3>1. PICK g \in Nat : g = y - r
      BY <1>1
    <3>2. hb <= ub /\ (he <= ue \/ g <= ue)
      BY <1>1, <1>2, <1>4, <2>2, <3>1
    <3>3. CASE g <= after
      BY <1>1, <1>7, <1>9, <3>1, <3>2, <3>3
    <3>4. CASE after < g
      <4>1. he <= ue
        BY <1>9, <3>2, <3>4
      <4> QED
        BY <1>7, <1>9, <3>2, <4>1
    <3>5. g <= after \/ after < g
      BY <1>5, <3>1
    <3> QED
      BY <3>3, <3>4, <3>5
  <2> QED
    BY <1>3, <2>1, <2>2
<1> QED
  BY <1>1, <1>2, <1>6, <1>8, <1>10, HintInvAfter

LEMMA DeletionNumbers ==
  ASSUME Inv, Deletion
  PROVE  \E from, to \in Nat : \E b :
           /\ from = call.from /\ to = call.to /\ Good(buf') /\ Good(buf)
           /\ 1 <= from /\ from < to /\ to <= buf.z
           /\ from <= buf.gpt /\ buf.gpt <= to
           /\ b.gpt = buf.gpt \/ b.gpt = from
           /\ buf'.gpt = from /\ buf'.z = buf.z - (to - from)
           /\ hints' = Lower(Motion(b.gpt), from - 1, buf.z - to)
           /\ misled' = (misled /\ ~ (fresh /\ b.gpt # buf.gpt))
<1>1. PICK from, to : from = call.from /\ to = call.to
  OBVIOUS
<1>2. FinishDelete
  BY DEF Deletion
<1>3. from \in Nat /\ to \in Nat
  BY <1>1, <1>2, InvIsGood DEF FinishDelete, Calls, None
<1>4. Good(buf) /\ Good(buf')
  BY <1>2, FinishDeleteStep, InvIsGood, InvAfter
<1>5. buf.begv <= from /\ from < to /\ to <= buf.zv /\ from <= buf.gpt /\ buf.gpt <= to
  BY <1>1, <1>2, InvIsGood DEF FinishDelete, CallStillValid
<1>6. 1 <= from /\ to <= buf.z
  BY <1>3, <1>4, <1>5, GoodNumbers
<1>7. PICK b \in {buf, GapBefore(buf, from, to)} :
        /\ buf' = CloseText(b, from, to)
        /\ hints' = Lower(Motion(b.gpt), from - 1, buf.z - to)
        /\ misled' = (misled /\ ~ (fresh /\ b.gpt # buf.gpt))
  BY <1>1 DEF Deletion, Deleted
<1>8. /\ Good(b) /\ SameView(buf, b) /\ from <= b.gpt /\ b.gpt <= to
      /\ b.gpt = buf.gpt \/ b.gpt = from
  <2>1. CASE b = buf
    BY <1>4, <1>5, <2>1 DEF SameView
  <2>2. CASE b = GapBefore(buf, from, to)
    <3>1. Good(b) /\ SameView(buf, b) /\ from <= b.gpt /\ b.gpt <= to
      BY <1>3, <1>4, <1>5, <1>6, <2>2, GapBeforeGood
    <3>2. CASE from < buf.gpt /\ buf.gpt < to
      <4>1. b = MoveGap(buf, from)
        BY <2>2, <3>2 DEF GapBefore
      <4>2. from <= buf.z
        BY <1>3, <1>4, <1>5, <1>6, GoodNumbers
      <4>3. b.gpt = from
        BY <1>3, <1>4, <1>6, <4>1, <4>2, MoveGapGood
      <4> QED
        BY <3>1, <4>3
    <3>3. CASE ~ (from < buf.gpt /\ buf.gpt < to)
      BY <2>2, <3>1, <3>3 DEF GapBefore
    <3> QED
      BY <3>2, <3>3
  <2> QED
    BY <1>7, <2>1, <2>2
<1>9. buf'.gpt = from /\ buf'.z = buf.z - (to - from)
  <2>1. b.begv <= from /\ to <= b.zv
    BY <1>5, <1>8 DEF SameView
  <2>2. buf'.gpt = from /\ TextDeleted(b, buf', from, to)
    BY <1>3, <1>5, <1>7, <1>8, <2>1, CloseGood
  <2> QED
    BY <1>8, <2>2 DEF TextDeleted, SameView
<1> QED
  BY <1>1, <1>3, <1>4, <1>5, <1>6, <1>7, <1>8, <1>9

LEMMA DeletionKeeps ==
  ASSUME HintInv, Inv, Deletion
  PROVE  HintInv'
<1>1. PICK from \in Nat, to \in Nat : \E b :
        /\ from = call.from /\ to = call.to /\ Good(buf') /\ Good(buf)
        /\ 1 <= from /\ from < to /\ to <= buf.z
        /\ from <= buf.gpt /\ buf.gpt <= to
        /\ b.gpt = buf.gpt \/ b.gpt = from
        /\ buf'.gpt = from /\ buf'.z = buf.z - (to - from)
        /\ hints' = Lower(Motion(b.gpt), from - 1, buf.z - to)
        /\ misled' = (misled /\ ~ (fresh /\ b.gpt # buf.gpt))
  BY DeletionNumbers
<1>2. PICK b :
        /\ from = call.from /\ to = call.to /\ Good(buf') /\ Good(buf)
        /\ 1 <= from /\ from < to /\ to <= buf.z
        /\ from <= buf.gpt /\ buf.gpt <= to
        /\ b.gpt = buf.gpt \/ b.gpt = from
        /\ buf'.gpt = from /\ buf'.z = buf.z - (to - from)
        /\ hints' = Lower(Motion(b.gpt), from - 1, buf.z - to)
        /\ misled' = (misled /\ ~ (fresh /\ b.gpt # buf.gpt))
  BY <1>1
<1>3. PICK t \in Nat, z \in Nat : t = buf.gpt /\ z = buf.z /\ 1 <= t /\ t <= z
  BY <1>2, GoodNumbers
<1>4. PICK p \in Nat : p = b.gpt /\ 1 <= p /\ p <= z /\ (p = t \/ p = from) /\ p <= t
  BY <1>2, <1>3
<1>5. HintsTyped /\ fresh \in BOOLEAN /\ misled \in BOOLEAN
  BY DEF HintInv, HintsTyped
<1>6. PICK m : m = Motion(p)
  OBVIOUS
<1>7. /\ m \in Distances
      /\ p = t => m = hints
      /\ fresh = FALSE => m.beg <= hints.beg /\ m.end <= hints.end
  BY <1>2, <1>3, <1>4, <1>5, <1>6, MotionHints
<1>8. PICK before \in Nat, after \in Nat : before = from - 1 /\ after = z - to
  BY <1>2, <1>3
<1>9. PICK h : h = Lower(m, before, after) /\ hints' = h
  BY <1>2, <1>3, <1>4, <1>6, <1>8
<1>10. Under(h, m, before, after)
  BY <1>7, <1>8, <1>9, Lowered
<1>11. misled' \in BOOLEAN /\ (misled' = FALSE /\ fresh = FALSE => misled = FALSE)
  BY <1>2, <1>5
<1>12. ASSUME misled' = FALSE, fresh = FALSE
       PROVE  /\ hints'.beg <= untouched.beg
              /\ hints'.end <= untouched.end \/ buf'.z - buf'.gpt <= untouched.end
  <2>1. PICK hb \in Nat, he \in Nat, ub \in Nat, ue \in Nat :
          hb = hints.beg /\ he = hints.end /\ ub = untouched.beg /\ ue = untouched.end
    BY <1>5 DEF HintsTyped, Distances
  <2>2. hb <= ub /\ (he <= ue \/ z - t <= ue)
    BY <1>3, <1>11, <1>12, <2>1 DEF HintInv, ChangesSeen, After
  <2>3. PICK mb \in Nat, me \in Nat : mb = m.beg /\ me = m.end /\ mb <= hb /\ me <= he
    BY <1>7, <1>12, <2>1 DEF Distances
  <2>4. PICK xb \in Nat, xe \in Nat : xb = h.beg /\ xe = h.end /\ xb <= mb /\ xe <= me
    BY <1>10, <2>3 DEF Under, Distances
  <2>5. buf'.z - buf'.gpt = after /\ after <= z - t
    BY <1>2, <1>3, <1>8
  <2> QED
    BY <1>3, <1>9, <2>1, <2>2, <2>3, <2>4, <2>5
<1>13. Touched(from - 1, buf.z - to)
  BY <1>2 DEF Deletion
<1>14. hints'.beg <= from - 1 /\ hints'.end <= buf.z - to /\ hints' \in Distances
  BY <1>3, <1>8, <1>9, <1>10 DEF Under
<1>15. from - 1 = buf'.gpt - 1 /\ from <= to
  BY <1>2
<1> QED
  BY <1>2, <1>11, <1>12, <1>13, <1>14, <1>15, ChangedKeeps

LEMMA SubstitutionNumbers ==
  ASSUME Inv, NEW from \in 1 .. MaxPos, NEW to \in 1 .. MaxPos,
         NEW old \in Char, NEW new \in Char, SubstChar(from, to, old, new)
  PROVE  /\ Good(buf) /\ Good(buf') /\ from \in Nat /\ to \in Nat
         /\ 1 <= from /\ from <= to /\ to <= buf.z
         /\ buf'.gpt = buf.gpt /\ buf'.z = buf.z
<1>1. Good(buf) /\ from \in Nat /\ to \in Nat /\ 1 <= from
  BY InvIsGood, SizeAssumption
<1>2. Good(buf')
  BY SubstCharStep, InvAfter
<1>3. buf.begv <= from /\ from <= to /\ to <= buf.zv /\ buf' = SubstText(buf, from, to, old, new)
  BY DEF SubstChar
<1>4. to <= buf.z
  BY <1>1, <1>3, GoodNumbers
<1>5. buf'.gpt = buf.gpt /\ buf'.z = buf.z
  BY <1>1, <1>3 DEF SubstText, Good, Sound, Typed
<1> QED
  BY <1>1, <1>2, <1>3, <1>4, <1>5

LEMMA SubstitutionKeeps ==
  ASSUME HintInv, Inv, NEW from \in 1 .. MaxPos, NEW to \in 1 .. MaxPos,
         NEW old \in Char, NEW new \in Char, Substitution(from, to, old, new)
  PROVE  HintInv'
<1>1. /\ Good(buf) /\ Good(buf') /\ from \in Nat /\ to \in Nat
      /\ 1 <= from /\ from <= to /\ to <= buf.z
      /\ buf'.gpt = buf.gpt /\ buf'.z = buf.z
  BY SubstitutionNumbers DEF Substitution
<1>2. PICK t \in Nat, z \in Nat : t = buf.gpt /\ z = buf.z /\ 1 <= t /\ t <= z
  BY <1>1, GoodNumbers
<1>3. HintsTyped /\ fresh \in BOOLEAN /\ misled \in BOOLEAN /\ hints \in Distances
  BY DEF HintInv, HintsTyped
<1>4. PICK before \in Nat, after \in Nat : before = from - 1 /\ after = z - to
  <2>1. from - 1 \in Nat
    BY <1>1
  <2>2. z - to \in Nat
    BY <1>1, <1>2
  <2> QED
    BY <2>1, <2>2
<1>5. Touched(from - 1, buf.z - to)
  BY DEF Substitution
<1>6. CASE fresh = TRUE
  <2>1. hints' = [beg |-> before, end |-> after]
    BY <1>2, <1>4, <1>6 DEF Substitution, Modified
  <2>2. hints'.beg = before /\ hints'.end = after /\ hints' \in Distances
    BY <1>4, <2>1 DEF Distances
  <2>3. misled' = (before > t - 1)
    BY <1>2, <1>6, <2>2 DEF Substitution, Before
  <2>4. misled' \in BOOLEAN /\ (misled' = FALSE => before <= t - 1)
    <3>1. (before > t - 1) \in BOOLEAN /\ ((before > t - 1) = FALSE => before <= t - 1)
      BY <1>2, <1>4
    <3> QED
      BY <2>3, <3>1
  <2>5. hints'.beg <= from - 1 /\ hints'.end <= buf.z - to
    BY <1>2, <1>4, <2>2
  <2>6. misled' = FALSE => hints'.beg <= buf'.gpt - 1
    BY <1>1, <1>2, <2>2, <2>4
  <2> QED
    BY <1>1, <1>5, <1>6, <2>2, <2>4, <2>5, <2>6, ChangedKeeps
<1>7. CASE fresh = FALSE
  <2>1. PICK h : h = Lower(hints, before, after) /\ hints' = h
    BY <1>2, <1>4, <1>7 DEF Substitution, Modified
  <2>2. Under(h, hints, before, after)
    BY <1>3, <1>4, <2>1, Lowered
  <2>3. misled' = misled
    BY <1>7 DEF Substitution
  <2>4. hints'.beg <= from - 1 /\ hints'.end <= buf.z - to /\ hints' \in Distances
    BY <1>2, <1>4, <2>1, <2>2 DEF Under
  <2>5. PICK hb \in Nat, he \in Nat, ub \in Nat, ue \in Nat, xb \in Nat, xe \in Nat :
          /\ hb = hints.beg /\ he = hints.end /\ ub = untouched.beg /\ ue = untouched.end
          /\ xb = h.beg /\ xe = h.end /\ xb <= hb /\ xe <= he
    BY <1>3, <2>2 DEF HintsTyped, Distances, Under
  <2>6. misled = FALSE => hb <= t - 1 /\ hb <= ub /\ (he <= ue \/ z - t <= ue)
    BY <1>2, <1>7, <2>5 DEF HintInv, NotBeyondGap, ChangesSeen, Before, After
  <2>7. misled = FALSE => xb <= t - 1 /\ xb <= ub /\ (xe <= ue \/ z - t <= ue)
    BY <1>2, <2>5, <2>6
  <2> QED
    BY <1>1, <1>2, <1>3, <1>5, <2>1, <2>3, <2>4, <2>5, <2>7, ChangedKeeps
<1> QED
  BY <1>3, <1>6, <1>7

LEMMA ShownKeeps ==
  ASSUME HintInv, Inv, InsertionShown
  PROVE  HintInv'
<1>1. Good(buf) /\ Good(buf') /\ HintsTyped
  BY FinishInsertStep, InvIsGood, InvAfter DEF InsertionShown, HintInv
<1>2. PICK r \in Nat, y \in Nat, p \in Nat :
        /\ r = buf'.gpt /\ y = buf'.z /\ 1 <= r /\ r <= y
        /\ p = buf.pt /\ 1 <= p /\ p <= buf.z
  BY <1>1, GoodNumbers
<1>3. PICK m : m = Motion(p)
  OBVIOUS
<1>4. m \in Distances
  BY <1>1, <1>2, <1>3, MotionHints
<1>5. PICK h : h = [m EXCEPT !.beg = r - 1] /\ hints' = h
  BY <1>2, <1>3 DEF InsertionShown, Before
<1>6. r - 1 \in Nat /\ y - 1 \in Nat
  BY <1>2
<1>7. h \in Distances /\ h.beg = r - 1
  BY <1>4, <1>5, <1>6 DEF Distances
<1>8. PICK u : u = [beg |-> y - 1, end |-> y - 1] /\ untouched' = u
  BY <1>2 DEF InsertionShown, Everything
<1>9. u \in Distances
  BY <1>6, <1>8 DEF Distances
<1>10. fresh' = fresh /\ fresh = TRUE /\ misled' = FALSE
  BY <1>1 DEF InsertionShown, HintsTyped
<1>11. HintsTyped'
  BY <1>5, <1>7, <1>8, <1>9, <1>10 DEF HintsTyped
<1>12. fresh' = TRUE /\ ~ (fresh' = FALSE) /\ hints'.beg <= buf'.gpt - 1
  BY <1>2, <1>5, <1>6, <1>7, <1>10
<1>13. untouched' = [beg |-> buf'.z - 1, end |-> buf'.z - 1]
  BY <1>2, <1>8
<1> QED
  BY <1>1, <1>11, <1>12, <1>13, HintInvAfter

LEMMA RedisplayKeeps ==
  ASSUME HintInv, Good(buf), Redisplay
  PROVE  HintInv'
<1>1. PICK t \in Nat, z \in Nat : t = buf.gpt /\ z = buf.z /\ 1 <= t /\ t <= z
  BY GoodNumbers
<1>2. t - 1 \in Nat /\ z - t \in Nat /\ z - 1 \in Nat
  BY <1>1
<1>3. buf' = buf
  BY DEF Redisplay, vars
<1>4. PICK h, u : h = [beg |-> t - 1, end |-> z - t] /\ u = [beg |-> z - 1, end |-> z - 1]
  OBVIOUS
<1>5. hints' = h /\ untouched' = u /\ fresh' = TRUE /\ misled' = FALSE
  BY <1>1, <1>4 DEF Redisplay, Before, After, Everything
<1>6. h \in Distances /\ u \in Distances /\ h.beg = t - 1
  BY <1>2, <1>4 DEF Distances
<1>7. HintsTyped'
  BY <1>5, <1>6 DEF HintsTyped
<1>8. Good(buf')
  BY <1>3
<1>9. ~ (fresh' = FALSE) /\ hints'.beg <= buf'.gpt - 1
  BY <1>1, <1>2, <1>3, <1>5, <1>6
<1>10. untouched' = [beg |-> buf'.z - 1, end |-> buf'.z - 1]
  BY <1>1, <1>3, <1>4, <1>5
<1> QED
  BY <1>7, <1>8, <1>9, <1>10, HintInvAfter

LEMMA PausesKeeps ==
  ASSUME HintInv, Good(buf), RedisplayPauses
  PROVE  HintInv'
<1>1. PICK t \in Nat, z \in Nat : t = buf.gpt /\ z = buf.z /\ 1 <= t /\ t <= z
  BY GoodNumbers
<1>2. t - 1 \in Nat /\ z - t \in Nat
  BY <1>1
<1>3. /\ HintsTyped /\ hints \in Distances /\ fresh = FALSE
      /\ buf' = buf /\ fresh' = fresh /\ untouched' = untouched /\ misled' = misled
  BY DEF RedisplayPauses, HintInv, HintsTyped, vars
<1>4. PICK before \in Nat, after \in Nat : before = t - 1 /\ after = z - t
  BY <1>2
<1>5. PICK h : h = Lower(hints, before, after) /\ hints' = h
  BY <1>1, <1>4 DEF RedisplayPauses, Before, After
<1>6. Under(h, hints, before, after)
  BY <1>3, <1>4, <1>5, Lowered
<1>7. HintsTyped'
  BY <1>3, <1>5, <1>6 DEF HintsTyped, Under
<1>8. PICK hb \in Nat, he \in Nat, ub \in Nat, ue \in Nat, xb \in Nat, xe \in Nat :
        /\ hb = hints.beg /\ he = hints.end /\ ub = untouched.beg /\ ue = untouched.end
        /\ xb = h.beg /\ xe = h.end /\ xb <= hb /\ xe <= he
  BY <1>3, <1>6 DEF HintsTyped, Distances, Under
<1>9. misled = FALSE => hb <= t - 1 /\ hb <= ub /\ (he <= ue \/ z - t <= ue)
  BY <1>1, <1>3, <1>8 DEF HintInv, NotBeyondGap, ChangesSeen, Before, After
<1>10. misled = FALSE => xb <= t - 1 /\ xb <= ub /\ (xe <= ue \/ z - t <= ue)
  BY <1>1, <1>8, <1>9
<1> QED
  BY <1>1, <1>3, <1>5, <1>7, <1>8, <1>10, HintInvAfter

(* What neither changes the text nor moves the gap.                        *)
LEMMA ElsewhereStays ==
  ASSUME Inv, Elsewhere
  PROVE  buf'.gpt = buf.gpt /\ buf'.z = buf.z
<1>1. buf \in [mem : [1 .. (buf.z - 1 + buf.gap) -> Byte], gap : Nat, gpt : Nat,
                begv : Nat, pt : Nat, zv : Nat, z : Nat, mpos : [Marker -> Nat]]
  BY DEF Inv, TypeOK
<1> QED
  BY <1>1 DEF Elsewhere, StartInsert, AbortCall, GotoChar, NarrowToRegion, SetMarker,
       UnchainMarker, SetMarkerType

LEMMA SameKeeps ==
  ASSUME HintInv, buf'.gpt = buf.gpt, buf'.z = buf.z, Same
  PROVE  HintInv'
BY DEF Same, hinting, HintInv, HintsTyped, NotBeyondGap, ChangesSeen, NothingYet,
       Before, After, Everything

(* Gap motion to p, or to where a quit stops it.                           *)
LEMMA MotionTowards ==
  ASSUME NEW b, Good(b), NEW p \in Nat, 1 <= p, p <= b.z, NEW c,
         c = MoveGap(b, p) \/ \E r \in QuitStops(b, p) : c = MoveGap(b, r)
  PROVE  /\ c.z = b.z
         /\ (p <= c.gpt /\ c.gpt <= b.gpt) \/ (b.gpt <= c.gpt /\ c.gpt <= p)
<1>1. PICK t \in Nat, z \in Nat : t = b.gpt /\ z = b.z /\ 1 <= t /\ t <= z
  BY GoodNumbers
<1>2. PICK r \in {p} \cup QuitStops(b, p) : c = MoveGap(b, r)
  OBVIOUS
<1>3. r \in Nat /\ 1 <= r /\ r <= b.z
  BY <1>2, QuitStopsInText DEF Good
<1>4. SameView(b, c) /\ c.gpt = r
  BY <1>2, <1>3, MoveGapGood
<1>5. (p <= r /\ r <= t) \/ (t <= r /\ r <= p)
  <2>1. CASE r = p
    BY <1>1, <2>1
  <2>2. CASE r \in QuitStops(b, p) /\ r # p
    BY <1>1, <1>3, <2>2 DEF QuitStops
  <2> QED
    BY <1>2, <2>1, <2>2
<1> QED
  BY <1>1, <1>4, <1>5 DEF SameView

LEMMA GapMotionKeeps ==
  ASSUME HintInv, Inv, GapMotion
  PROVE  HintInv'
<1>1. Good(buf)
  BY InvIsGood
<1>2. ASSUME NEW p \in Nat, 1 <= p, p <= buf.z, Good(buf'), Moved(p, buf'.gpt),
             buf' = MoveGap(buf, p) \/ \E r \in QuitStops(buf, p) : buf' = MoveGap(buf, r)
      PROVE  HintInv'
  <2>1. Towards(p)
    BY <1>1, <1>2, MotionTowards DEF Towards
  <2> QED
    BY <1>1, <1>2, <2>1, MovedKeeps
<1>3. CASE \E p \in 1 .. MaxPos : MoveGapTo(p) /\ Moved(p, buf'.gpt)
  <2>1. PICK p \in 1 .. MaxPos : MoveGapTo(p) /\ Moved(p, buf'.gpt)
    BY <1>3
  <2>2. Good(buf')
    BY <2>1, MoveGapToStep, InvAfter
  <2>3. p \in Nat /\ 1 <= p /\ p <= buf.z
    BY <1>1, <2>1, GoodNumbers, SizeAssumption DEF MoveGapTo
  <2>4. buf' = MoveGap(buf, p) \/ \E r \in QuitStops(buf, p) : buf' = MoveGap(buf, r)
    BY <2>1 DEF MoveGapTo
  <2> QED
    BY <1>2, <2>1, <2>2, <2>3, <2>4
<1>4. CASE \E from, to \in 1 .. MaxPos :
             (StartDelete(from, to) \/ QuitDelete(from, to))
               /\ Moved(DeleteTarget(ClipFrom(from), ClipTo(to)), buf'.gpt)
  <2>1. PICK from \in 1 .. MaxPos, to \in 1 .. MaxPos :
             (StartDelete(from, to) \/ QuitDelete(from, to))
               /\ Moved(DeleteTarget(ClipFrom(from), ClipTo(to)), buf'.gpt)
    BY <1>4
  <2>2. PICK f, t : f = ClipFrom(from) /\ t = ClipTo(to)
    OBVIOUS
  <2>3. PICK p : p = DeleteTarget(f, t)
    OBVIOUS
  <2>4. t - f > 0
    BY <2>1, <2>2 DEF StartDelete, QuitDelete
  <2>5. p \in Nat /\ 1 <= p /\ p <= buf.z
    BY <1>1, <2>2, <2>3, <2>4, Clipped DEF ClipFrom, ClipTo, DeleteTarget
  <2>6. Good(buf')
    BY <2>1, StartDeleteStep, QuitDeleteStep, InvAfter
  <2>7. buf' = MoveGap(buf, p) \/ \E r \in QuitStops(buf, p) : buf' = MoveGap(buf, r)
    BY <2>1, <2>2, <2>3 DEF StartDelete, QuitDelete
  <2>8. Moved(p, buf'.gpt)
    BY <2>1, <2>2, <2>3
  <2> QED
    BY <1>2, <2>5, <2>6, <2>7, <2>8
<1>5. CASE QuitInsert /\ Moved(buf.pt, buf'.gpt)
  <2>1. Good(buf')
    BY <1>5, QuitInsertStep, InvAfter
  <2>2. PICK p \in Nat : p = buf.pt /\ 1 <= p /\ p <= buf.z
    BY <1>1, GoodNumbers
  <2>3. \E r \in QuitStops(buf, p) : buf' = MoveGap(buf, r)
    BY <1>5, <2>2 DEF QuitInsert
  <2>4. Moved(p, buf'.gpt)
    BY <1>5, <2>2
  <2> QED
    BY <1>2, <2>1, <2>2, <2>3, <2>4
<1>6. CASE QuitRecordDelete /\ Moved(call.from, buf'.gpt)
  <2>1. Good(buf')
    BY <1>6, QuitRecordDeleteStep, InvAfter
  <2>2. PICK p : p = call.from
    OBVIOUS
  <2>3. p \in Nat
    BY <1>6, <2>2, InvIsGood DEF QuitRecordDelete, Calls, None
  <2>4. buf.begv <= p /\ p <= buf.gpt
    BY <1>6, <2>2, InvIsGood DEF QuitRecordDelete, CallStillValid
  <2>5. 1 <= p /\ p <= buf.z
    BY <1>1, <2>3, <2>4, GoodNumbers
  <2>6. \E r \in QuitStops(buf, p) : buf' = MoveGap(buf, r)
    BY <1>6, <2>2 DEF QuitRecordDelete
  <2>7. Moved(p, buf'.gpt)
    BY <1>6, <2>2
  <2> QED
    BY <1>2, <2>1, <2>3, <2>5, <2>6, <2>7
<1> QED
  BY <1>3, <1>4, <1>5, <1>6 DEF GapMotion

(* The text changes as in GapBuffer.                                       *)
LEMMA HintsAreText ==
  ASSUME NextHints PROVE [Next]_vars
<1>1. CASE Insertion \/ InsertionShown \/ Deletion
  BY <1>1 DEF Insertion, InsertionShown, Deletion, Next
<1>2. CASE GapMotion
  BY <1>2 DEF GapMotion, Next
<1>3. CASE Redisplay \/ RedisplayPauses
  BY <1>3 DEF Redisplay, RedisplayPauses
<1>4. CASE \E s \in Strings : Reading(s)
  BY <1>4 DEF Reading, Next
<1>5. CASE \E from, to \in 1 .. MaxPos, old, new \in Char : Substitution(from, to, old, new)
  BY <1>5 DEF Substitution, Next
<1>6. CASE Elsewhere
  BY <1>6 DEF Elsewhere, Next
<1> QED
  BY <1>1, <1>2, <1>3, <1>4, <1>5, <1>6 DEF NextHints

LEMMA NextHintsKeeps ==
  ASSUME HintInv, Inv, NextHints
  PROVE  HintInv'
<1>1. Good(buf)
  BY InvIsGood
<1>2. CASE Insertion
  <2>1. Good(buf') /\ Inserted
    BY <1>2, FinishInsertStep, InvAfter DEF Insertion
  <2>2. PICK n \in 1 .. MaxPos : \E s \in [1 .. n -> Char], pushed \in {{}, pointType, Marker} :
          InsertedAtPoint(buf, buf', s, n, pushed)
    BY <1>2, FinishInsertStep DEF Insertion
  <2>3. buf'.z = buf.z + n /\ buf'.gpt = buf.pt + n /\ n \in Nat
    BY <2>2, SizeAssumption DEF InsertedAtPoint, TextInserted
  <2> QED
    BY <1>1, <2>1, <2>3, InsertedKeeps
<1>3. CASE \E s \in Strings : Reading(s)
  <2>1. PICK s \in Strings : InsertFile(s) /\ Inserted
    BY <1>3 DEF Reading
  <2>2. Good(buf')
    BY <2>1, InsertFileStep, InvAfter
  <2>3. PICK n \in 1 .. MaxPos : \E t \in [1 .. n -> Char] :
          TextInserted(buf, buf', buf.pt, t, n, {}) /\ buf'.gpt = buf.pt + n
    BY <2>1, InsertFileStep
  <2>4. buf'.z = buf.z + n /\ buf'.gpt = buf.pt + n /\ n \in Nat
    BY <2>3, SizeAssumption DEF TextInserted
  <2> QED
    BY <1>1, <2>1, <2>2, <2>4, InsertedKeeps
<1>4. CASE \E from, to \in 1 .. MaxPos, old, new \in Char : Substitution(from, to, old, new)
  BY <1>4, SubstitutionKeeps
<1>5. CASE Elsewhere /\ Same
  BY <1>5, ElsewhereStays, SameKeeps
<1> QED
  BY <1>1, <1>2, <1>3, <1>4, <1>5, ShownKeeps, DeletionKeeps, GapMotionKeeps, RedisplayKeeps,
     PausesKeeps DEF NextHints

LEMMA CopyingKeeps ==
  ASSUME HintInv, Inv, NEW beg \in 1 .. MaxPos, NEW end \in 1 .. MaxPos,
         CopyingAside(beg, end)
  PROVE  HintInv' /\ Inv'
<1>1. Good(buf) /\ OneSide(beg, end) /\ LongGap(beg, end)
  BY InvIsGood DEF CopyingAside
<1>2. PICK p \in Nat : p = buf.pt /\ 1 <= p /\ p <= buf.z
  BY <1>1, GoodNumbers
<1>3. Idle /\ pointType' = pointType /\ call' = call
  BY DEF CopyingAside, Copying, InsertBufferSubstring, OutOfRange
<1>4. Good(buf') => Inv'
  BY <1>3, InvIsGood, IdleIsNone, IdleAfter
<1>5. CASE beg < end /\ InsertBufferSubstring(beg, end) /\ Inserted
  <2>1. Good(buf') /\ \E n \in 1 .. MaxPos : \E s \in [1 .. n -> Char] :
          InsertedAtPoint(buf, buf', s, n, pointType)
    BY <1>1, <1>5, CopyStep
  <2>2. PICK n \in 1 .. MaxPos : \E s \in [1 .. n -> Char] :
          InsertedAtPoint(buf, buf', s, n, pointType)
    BY <2>1
  <2>3. buf'.z = buf.z + n /\ buf'.gpt = buf.pt + n /\ n \in Nat
    BY <2>2, SizeAssumption DEF InsertedAtPoint, TextInserted
  <2> QED
    BY <1>1, <1>4, <1>5, <2>1, <2>3, InsertedKeeps
<1>6. ASSUME Good(buf'), SameView(buf, buf'), buf'.gpt = buf.pt, Moved(buf.pt, buf.pt)
      PROVE  HintInv' /\ Inv'
  <2>1. Towards(p)
    <3>1. buf.gpt \in Nat /\ buf'.z = buf.z /\ buf'.gpt = p
      BY <1>1, <1>2, <1>6, GoodNumbers DEF SameView
    <3> QED
      BY <3>1 DEF Towards
  <2>2. Moved(p, buf'.gpt)
    BY <1>2, <1>6
  <2> QED
    BY <1>1, <1>2, <1>4, <1>6, <2>1, <2>2, MovedKeeps
<1>7. CASE beg = end /\ InsertBufferSubstring(beg, end) /\ Moved(buf.pt, buf.pt)
  BY <1>1, <1>6, <1>7, CopyStep
<1>8. CASE OutOfRange(beg, end) /\ Moved(buf.pt, buf.pt)
  BY <1>6, <1>8, OutOfRangeStep
<1> QED
  BY <1>5, <1>7, <1>8 DEF CopyingAside, Copying

LEMMA CopyingRefines ==
  ASSUME Inv, NEW beg \in 1 .. MaxPos, NEW end \in 1 .. MaxPos, CopyingAside(beg, end)
  PROVE  Abstract!Next \/ UNCHANGED Abstract!vars
<1>1. OneSide(beg, end) /\ LongGap(beg, end) /\ pointType' = pointType
  BY DEF CopyingAside, Copying, InsertBufferSubstring, OutOfRange
<1>2. CASE beg < end /\ InsertBufferSubstring(beg, end)
  <2>1. PICK n \in 1 .. MaxPos : \E s \in [1 .. n -> Char] :
          buf.z + n <= MaxPos /\ InsertedAtPoint(buf, buf', s, n, pointType)
    BY <1>1, <1>2, CopyStep
  <2>2. PICK s \in [1 .. n -> Char] :
          buf.z + n <= MaxPos /\ InsertedAtPoint(buf, buf', s, n, pointType)
    BY <2>1
  <2>3. TextInserted(buf, buf', buf.pt, s, n, pointType) /\ buf'.pt = buf.pt + n
    BY <2>2 DEF InsertedAtPoint
  <2> QED
    BY <1>1, <2>2, <2>3, InsertRefines
<1>3. CASE beg = end /\ InsertBufferSubstring(beg, end)
  BY <1>1, <1>3, CopyStep, UnseenIsStutter
<1>4. CASE OutOfRange(beg, end)
  BY <1>1, <1>4, OutOfRangeStep, UnseenIsStutter
<1> QED
  BY <1>2, <1>3, <1>4 DEF CopyingAside, Copying

-----------------------------------------------------------------------------
CopyInv == Inv /\ HintInv

LEMMA CopyInvHolds == SpecWithCopy => []CopyInv
<1>1. InitHints => CopyInv
  BY InitInv, InitHintInv DEF CopyInv, InitHints
<1>2. ASSUME CopyInv, [NextWithCopy]_<<vars, hinting>> PROVE CopyInv'
  <2>1. CASE NextHints
    BY <1>2, <2>1, HintsAreText, NextInv, NextHintsKeeps DEF CopyInv
  <2>2. CASE \E beg, end \in 1 .. MaxPos : CopyingAside(beg, end)
    BY <1>2, <2>2, CopyingKeeps DEF CopyInv
  <2>3. CASE UNCHANGED <<vars, hinting>>
    <3>1. Inv'
      BY <1>2, <2>3, NextInv DEF CopyInv
    <3>2. HintInv'
      BY <1>2, <2>3, SameKeeps DEF CopyInv, Same, vars
    <3> QED
      BY <3>1, <3>2 DEF CopyInv
  <2> QED
    BY <1>2, <2>1, <2>2, <2>3 DEF NextWithCopy
<1> QED
  BY <1>1, <1>2, PTL DEF SpecWithCopy

(* Redisplay draws again every line a change has touched, unless the hints *)
(* were set apart from the gap: beg_unchanged and end_unchanged of         *)
(* insdel.c claim no changed character for unchanged, although insertion   *)
(* itself takes neither of them down.                                      *)
THEOREM HintsHideNothing == SpecWithCopy => []UnchangedUnlessMisled
<1>1. CopyInv => UnchangedUnlessMisled
  BY HintInvShows, InvIsGood DEF CopyInv
<1> QED
  BY <1>1, CopyInvHolds, PTL

(* insert-buffer-substring of a region on one side of point inserts that   *)
(* region, although its addresses are in the memory it changes.            *)
THEOREM RegionsAreCopied == SpecWithCopy => OneSideIsCopied
<1>1. ASSUME CopyInv, [NextWithCopy]_<<vars, hinting>>
      PROVE  [\A beg, end \in 1 .. MaxPos :
                InsertBufferSubstring(beg, end) /\ OneSide(beg, end) /\ LongGap(beg, end)
                  => InsertedIsRegion(beg, end)]_vars
  BY <1>1, OneSideStep DEF CopyInv
<1> QED
  BY <1>1, CopyInvHolds, PTL DEF SpecWithCopy, OneSideIsCopied

(* With file reads, redisplay and region copies, the user still sees only  *)
(* the insertions, deletions and motions of TextSpec.                      *)
THEOREM CopiesImplementText == SpecWithCopy => ImplementsText
<1>1. InitHints => Abstract!Init
  BY InitRefines DEF InitHints
<1>2. ASSUME CopyInv, [NextWithCopy]_<<vars, hinting>>
      PROVE  [Abstract!Next]_Abstract!vars
  <2>1. CASE NextHints
    BY <1>2, <2>1, HintsAreText, NextRefines DEF CopyInv
  <2>2. CASE \E beg, end \in 1 .. MaxPos : CopyingAside(beg, end)
    BY <1>2, <2>2, CopyingRefines DEF CopyInv
  <2>3. CASE UNCHANGED <<vars, hinting>>
    BY <1>2, <2>3, NextRefines DEF CopyInv
  <2> QED
    BY <1>2, <2>1, <2>2, <2>3 DEF NextWithCopy
<1> QED
  BY <1>1, <1>2, CopyInvHolds, PTL DEF SpecWithCopy, ImplementsText, Abstract!Spec
=============================================================================
