------------------------------ MODULE UndoProofs ------------------------------
(***************************************************************************)
(* Proofs about Undo, for any characters, texts, sizes of the undo list    *)
(* and numbers of saves.                                                   *)
(***************************************************************************)
EXTENDS Undo, SequenceTheorems, WellFoundedInduction, TLAPS

-----------------------------------------------------------------------------
(* Texts.                                                                  *)

(* What is before a region of a text, in it and after it.                  *)
Parts(t, a, x, c) ==
  /\ a \in Seq(Char) /\ x \in Seq(Char) /\ c \in Seq(Char)
  /\ t = a \o x \o c

(* The region from beg to end is x.                                        *)
RegionIs(t, beg, end, a, x, c) ==
  /\ Parts(t, a, x, c) /\ Len(a) \in Nat /\ Len(x) \in Nat
  /\ beg = Len(a) + 1 /\ end = Len(a) + Len(x) + 1
  /\ x = SubSeq(t, beg, end - 1)

LEMMA Regrouped ==
  ASSUME NEW u, NEW a \in Seq(Char), NEW x \in Seq(Char), NEW str, NEW c, Parts(u, a \o x, str, c)
  PROVE  Parts(u, a, x \o str, c)
<1>1. str \in Seq(Char) /\ c \in Seq(Char) /\ u = a \o x \o str \o c
  BY DEF Parts
<1>2. (a \o x) \o str = a \o (x \o str)
  BY <1>1, ConcatAssociative, SMTT(30)
<1>3. x \o str \in Seq(Char)
  BY <1>1
<1> QED
  BY <1>1, <1>2, <1>3 DEF Parts

LEMMA PartsAre ==
  ASSUME NEW t, NEW a, NEW x, NEW c, Parts(t, a, x, c)
  PROVE  /\ t \in Seq(Char) /\ Len(t) = Len(a) + Len(x) + Len(c)
         /\ Len(a) \in Nat /\ Len(x) \in Nat /\ Len(c) \in Nat
         /\ \A i \in 1 .. Len(a) : t[i] = a[i]
         /\ \A i \in 1 .. Len(x) : t[Len(a) + i] = x[i]
         /\ \A i \in 1 .. Len(c) : t[Len(a) + Len(x) + i] = c[i]
<1>0. a \in Seq(Char) /\ x \in Seq(Char) /\ c \in Seq(Char) /\ t = a \o x \o c
  BY DEF Parts
<1>1. PICK u : u = a \o x
  OBVIOUS
<1>2. /\ u \in Seq(Char) /\ Len(u) = Len(a) + Len(x)
      /\ Len(a) \in Nat /\ Len(x) \in Nat /\ Len(c) \in Nat
  BY <1>0, <1>1
<1>3. \A i \in 1 .. Len(a) + Len(x) : u[i] = IF i <= Len(a) THEN a[i] ELSE x[i - Len(a)]
  BY <1>0, <1>1
<1>4. t \in Seq(Char) /\ Len(t) = Len(u) + Len(c)
  BY <1>0, <1>1, <1>2
<1>5. \A i \in 1 .. Len(u) + Len(c) : t[i] = IF i <= Len(u) THEN u[i] ELSE c[i - Len(u)]
  BY <1>0, <1>1, <1>2
<1>6. ASSUME NEW i \in 1 .. Len(a) PROVE t[i] = a[i]
  <2>1. i \in 1 .. Len(u) + Len(c) /\ i <= Len(u) /\ i \in 1 .. Len(a) + Len(x) /\ i <= Len(a)
    BY <1>2
  <2> QED
    BY <1>3, <1>5, <2>1
<1>7. ASSUME NEW i \in 1 .. Len(x) PROVE t[Len(a) + i] = x[i]
  <2>1. PICK k \in Nat : k = Len(a) + i /\ k - Len(a) = i
    BY <1>2
  <2>2. k \in 1 .. Len(u) + Len(c) /\ k <= Len(u) /\ k \in 1 .. Len(a) + Len(x) /\ ~(k <= Len(a))
    BY <1>2, <2>1
  <2> QED
    BY <1>3, <1>5, <2>1, <2>2
<1>8. ASSUME NEW i \in 1 .. Len(c) PROVE t[Len(a) + Len(x) + i] = c[i]
  <2>1. PICK k \in Nat : k = Len(a) + Len(x) + i /\ k - Len(u) = i
    BY <1>2
  <2>2. k \in 1 .. Len(u) + Len(c) /\ ~(k <= Len(u))
    BY <1>2, <2>1
  <2> QED
    BY <1>5, <2>1, <2>2
<1> QED
  BY <1>2, <1>4, <1>6, <1>7, <1>8

LEMMA Piece ==
  ASSUME NEW t, NEW m \in Nat, NEW n \in Nat, m <= n + 1, \A i \in m .. n : t[i] \in Char
  PROVE  /\ SubSeq(t, m, n) \in Seq(Char) /\ Len(SubSeq(t, m, n)) = n + 1 - m
         /\ \A i \in 1 .. n + 1 - m : SubSeq(t, m, n)[i] = t[m - 1 + i]
<1>1. m \in Int /\ n \in Int
  OBVIOUS
<1>2. /\ SubSeq(t, m, n) \in Seq(Char)
      /\ Len(SubSeq(t, m, n)) = IF m <= n THEN n - m + 1 ELSE 0
      /\ \A i \in 1 .. n - m + 1 : SubSeq(t, m, n)[i] = t[m + i - 1]
  BY <1>1, SubSeqProperties
<1>3. (IF m <= n THEN n - m + 1 ELSE 0) = n + 1 - m
  OBVIOUS
<1>4. ASSUME NEW i \in 1 .. n + 1 - m PROVE SubSeq(t, m, n)[i] = t[m - 1 + i]
  <2>1. i \in 1 .. n - m + 1 /\ m + i - 1 = m - 1 + i
    OBVIOUS
  <2> QED
    BY <1>2, <2>1
<1> QED
  BY <1>2, <1>3, <1>4

(* What replacing the region gives.                                        *)
LEMMA SplicedParts ==
  ASSUME NEW t, NEW a, NEW x, NEW c, Parts(t, a, x, c), NEW str \in Seq(Char),
         NEW beg, beg = Len(a) + 1, NEW end, end = Len(a) + Len(x) + 1
  PROVE  Parts(Spliced(t, beg, end, str), a, str, c)
<1>0. a \in Seq(Char) /\ x \in Seq(Char) /\ c \in Seq(Char)
  BY DEF Parts
<1>1. PICK la \in Nat, lx \in Nat, lc \in Nat : la = Len(a) /\ lx = Len(x) /\ lc = Len(c)
  BY <1>0
<1>2. /\ t \in Seq(Char) /\ Len(t) = la + lx + lc
      /\ \A i \in 1 .. la : t[i] = a[i]
      /\ \A i \in 1 .. lc : t[la + lx + i] = c[i]
  BY <1>1, PartsAre
<1>3. PICK u : u = SubSeq(t, 1, la) /\ u = a
  <2>1. \A i \in 1 .. la : t[i] \in Char
    BY <1>2
  <2>2. PICK u : u = SubSeq(t, 1, la)
    OBVIOUS
  <2>3. u \in Seq(Char) /\ Len(u) = la + 1 - 1 /\ \A i \in 1 .. la + 1 - 1 : u[i] = t[1 - 1 + i]
    <3>1. 1 \in Nat /\ 1 <= la + 1
      OBVIOUS
    <3> QED
      BY <2>1, <2>2, <3>1, Piece
  <2>4. Len(u) = Len(a) /\ \A i \in 1 .. Len(u) : u[i] = a[i]
    BY <1>1, <1>2, <2>3
  <2> QED
    BY <1>0, <2>2, <2>3, <2>4, SeqEqual
<1>4. PICK v : v = SubSeq(t, la + lx + 1, Len(t)) /\ v = c
  <2>1. PICK m \in Nat, n \in Nat : m = la + lx + 1 /\ n = Len(t) /\ n = la + lx + lc /\ m <= n + 1
    BY <1>2
  <2>2. \A i \in m .. n : t[i] \in Char
    BY <1>2, <2>1
  <2>3. PICK v : v = SubSeq(t, m, n)
    OBVIOUS
  <2>4. v \in Seq(Char) /\ Len(v) = n + 1 - m /\ \A i \in 1 .. n + 1 - m : v[i] = t[m - 1 + i]
    BY <2>1, <2>2, <2>3, Piece
  <2>5. n + 1 - m = lc /\ m - 1 = la + lx
    BY <2>1
  <2>6. Len(v) = Len(c) /\ \A i \in 1 .. Len(v) : v[i] = c[i]
    BY <1>1, <1>2, <2>4, <2>5
  <2> QED
    BY <1>0, <2>1, <2>3, <2>4, <2>6, SeqEqual
<1>5. beg - 1 = la /\ end = la + lx + 1
  BY <1>1
<1>6. Spliced(t, beg, end, str) = u \o str \o v
  BY <1>3, <1>4, <1>5 DEF Spliced
<1> QED
  BY <1>0, <1>3, <1>4, <1>6 DEF Parts

LEMMA Split ==
  ASSUME NEW t \in Seq(Char), NEW beg \in Nat, NEW end \in Nat,
         1 <= beg, beg <= end, end <= Len(t) + 1
  PROVE  \E a, x, c : RegionIs(t, beg, end, a, x, c)
<1>1. PICK n \in Nat : n = Len(t)
  OBVIOUS
<1>2. PICK p \in Nat, q \in Nat : p = beg - 1 /\ q = end - 1 /\ p + 1 = beg /\ q + 1 = end
                                  /\ p <= q /\ q <= n
  BY <1>1
<1>3. \A i \in 1 .. n : t[i] \in Char
  BY <1>1
<1>4. PICK a, x, c : a = SubSeq(t, 1, p) /\ x = SubSeq(t, p + 1, q) /\ c = SubSeq(t, q + 1, n)
  OBVIOUS
<1>5. a \in Seq(Char) /\ Len(a) = p
  <2>1. \A i \in 1 .. p : t[i] \in Char
    BY <1>2, <1>3
  <2>2. 1 \in Nat /\ 1 <= p + 1
    OBVIOUS
  <2>3. a \in Seq(Char) /\ Len(a) = p + 1 - 1
    BY <1>4, <2>1, <2>2, Piece
  <2> QED
    BY <2>3
<1>6. x \in Seq(Char) /\ Len(x) = q - p
  <2>1. \A i \in p + 1 .. q : t[i] \in Char
    BY <1>2, <1>3
  <2>2. p + 1 \in Nat /\ p + 1 <= q + 1 /\ q + 1 - (p + 1) = q - p
    BY <1>2
  <2> QED
    BY <1>4, <2>1, <2>2, Piece
<1>7. c \in Seq(Char)
  <2>1. \A i \in q + 1 .. n : t[i] \in Char
    BY <1>2, <1>3
  <2>2. q + 1 \in Nat /\ q + 1 <= n + 1
    BY <1>2
  <2> QED
    BY <1>4, <2>1, <2>2, Piece
<1>8. a \o x = SubSeq(t, 1, q)
  <2>1. 1 \in 1 .. Len(t) + 1 /\ p \in 1 - 1 .. Len(t) /\ q \in p .. Len(t)
    BY <1>1, <1>2
  <2> QED
    BY <1>4, <2>1, ConcatAdjacentSubSeq
<1>9. a \o x \o c = t
  <2>1. 1 \in 1 .. Len(t) + 1 /\ q \in 1 - 1 .. Len(t) /\ n \in q .. Len(t)
    BY <1>1, <1>2
  <2>2. SubSeq(t, 1, q) \o SubSeq(t, q + 1, n) = SubSeq(t, 1, n)
    BY <2>1, ConcatAdjacentSubSeq
  <2>3. SubSeq(t, 1, n) = t
    BY <1>1, SubSeqFull
  <2> QED
    BY <1>4, <1>8, <2>2, <2>3
<1>10. Parts(t, a, x, c)
  BY <1>5, <1>6, <1>7, <1>9 DEF Parts
<1>11. x = SubSeq(t, beg, end - 1)
  BY <1>2, <1>4
<1>12. Len(a) \in Nat /\ Len(x) \in Nat /\ beg = Len(a) + 1 /\ end = Len(a) + Len(x) + 1
  BY <1>2, <1>5, <1>6
<1>13. RegionIs(t, beg, end, a, x, c)
  BY <1>10, <1>11, <1>12 DEF RegionIs
<1> QED
  BY <1>13, Zenon

Replaced(t, beg, end, str, u) ==
  /\ t \in Seq(Char) /\ beg \in Nat /\ end \in Nat /\ str \in Seq(Char)
  /\ 1 <= beg /\ beg <= end /\ end <= Len(t) + 1
  /\ u = Spliced(t, beg, end, str)

LEMMA SplicedText ==
  ASSUME NEW t, NEW beg, NEW end, NEW str, NEW u, Replaced(t, beg, end, str, u)
  PROVE  u \in Seq(Char) /\ Len(u) = Len(t) + Len(str) - (end - beg)
<1>0. /\ t \in Seq(Char) /\ beg \in Nat /\ end \in Nat /\ str \in Seq(Char)
      /\ 1 <= beg /\ beg <= end /\ end <= Len(t) + 1
      /\ u = Spliced(t, beg, end, str)
  BY DEF Replaced
<1>1. PICK a, x, c :
        /\ Parts(t, a, x, c) /\ Len(a) \in Nat /\ Len(x) \in Nat
        /\ beg = Len(a) + 1 /\ end = Len(a) + Len(x) + 1
  <2>1. t \in Seq(Char) /\ beg \in Nat /\ end \in Nat /\ 1 <= beg /\ beg <= end /\ end <= Len(t) + 1
    BY <1>0
  <2>2. PICK a, x, c : RegionIs(t, beg, end, a, x, c)
    BY <2>1, Split
  <2> QED
    BY <2>2, Zenon DEF RegionIs
<1>2. Parts(u, a, str, c)
  BY <1>0, <1>1, SplicedParts
<1>3. Len(t) = Len(a) + Len(x) + Len(c) /\ Len(c) \in Nat
  BY <1>1, PartsAre
<1>4. u \in Seq(Char) /\ Len(u) = Len(a) + Len(str) + Len(c) /\ Len(str) \in Nat
  BY <1>2, PartsAre
<1>5. PICK lt \in Nat, la \in Nat, lx \in Nat, lc \in Nat, ls \in Nat :
        lt = Len(t) /\ la = Len(a) /\ lx = Len(x) /\ lc = Len(c) /\ ls = Len(str)
  <2>1. Len(t) \in Nat
    BY <1>0
  <2> QED
    BY <1>1, <1>3, <1>4, <2>1, Zenon
<1>6. la + ls + lc = lt + ls - (end - beg)
  BY <1>1, <1>3, <1>5
<1> QED
  BY <1>0, <1>3, <1>4, <1>5, <1>6

(* Taking an insertion out, also together with what is before it.          *)
LEMMA InsertionOut ==
  ASSUME NEW t \in Seq(Char), NEW beg \in Nat, 1 <= beg, beg <= Len(t) + 1,
         NEW str \in Seq(Char), NEW u, u = Spliced(t, beg, beg, str), NEW end, end = beg + Len(str),
         NEW first \in Nat, 1 <= first, first <= beg
  PROVE  Spliced(u, first, end, <<>>) = Spliced(t, first, beg, <<>>)
<1>1. PICK a, x, c :
        /\ Parts(t, a, x, c) /\ Len(a) \in Nat /\ Len(x) \in Nat
        /\ first = Len(a) + 1 /\ beg = Len(a) + Len(x) + 1
  <2>1. t \in Seq(Char) /\ first \in Nat /\ beg \in Nat /\ 1 <= first /\ first <= beg /\ beg <= Len(t) + 1
    OBVIOUS
  <2>2. PICK a, x, c : RegionIs(t, first, beg, a, x, c)
    BY <2>1, Split
  <2> QED
    BY <2>2, Zenon DEF RegionIs
<1>2. a \in Seq(Char) /\ x \in Seq(Char) /\ c \in Seq(Char) /\ t = a \o x \o c /\ <<>> \in Seq(Char)
  BY <1>1 DEF Parts
<1>3. Parts(Spliced(t, first, beg, <<>>), a, <<>>, c)
  BY <1>1, <1>2, SplicedParts
<1>4. PICK b : b = a \o x
  OBVIOUS
<1>5. b \in Seq(Char) /\ Len(b) = Len(a) + Len(x)
  BY <1>2, <1>4
<1>6. Parts(t, b, <<>>, c)
  <2>1. b \o <<>> = b
    BY <1>5, ConcatEmptySeq
  <2> QED
    BY <1>2, <1>4, <1>5, <2>1 DEF Parts
<1>7. Parts(u, b, str, c)
  <2>1. Len(<<>>) = 0
    OBVIOUS
  <2>2. beg = Len(b) + 1 /\ beg = Len(b) + Len(<<>>) + 1
    BY <1>1, <1>5, <2>1
  <2> QED
    BY <1>6, <2>2, SplicedParts
<1>8. PICK y : y = x \o str
  OBVIOUS
<1>9. y \in Seq(Char) /\ Len(y) = Len(x) + Len(str)
  BY <1>2, <1>8
<1>10. Parts(u, a, y, c)
  <2>1. Parts(u, a \o x, str, c)
    BY <1>4, <1>7
  <2> QED
    BY <1>2, <1>8, <2>1, Regrouped
<1>11. end = Len(a) + Len(y) + 1
  <2>1. Len(str) \in Nat
    OBVIOUS
  <2> QED
    BY <1>1, <1>9, <2>1
<1>12. Parts(Spliced(u, first, end, <<>>), a, <<>>, c)
  BY <1>1, <1>2, <1>10, <1>11, SplicedParts
<1> QED
  BY <1>3, <1>12 DEF Parts

LEMMA NothingSpliced ==
  ASSUME NEW t \in Seq(Char), NEW beg \in Nat, 1 <= beg, beg <= Len(t) + 1
  PROVE  Spliced(t, beg, beg, <<>>) = t
<1>1. PICK a, x, c :
        /\ Parts(t, a, x, c) /\ Len(a) \in Nat /\ Len(x) \in Nat
        /\ beg = Len(a) + 1 /\ beg = Len(a) + Len(x) + 1
  <2>1. t \in Seq(Char) /\ beg \in Nat /\ beg \in Nat /\ 1 <= beg /\ beg <= beg /\ beg <= Len(t) + 1
    OBVIOUS
  <2>2. PICK a, x, c : RegionIs(t, beg, beg, a, x, c)
    BY <2>1, Split
  <2> QED
    BY <2>2, Zenon DEF RegionIs
<1>2. x = <<>>
  <2>1. Len(x) = 0
    BY <1>1
  <2> QED
    BY <1>1, <2>1 DEF Parts
<1>3. Parts(Spliced(t, beg, beg, <<>>), a, <<>>, c)
  <2>1. <<>> \in Seq(Char)
    OBVIOUS
  <2> QED
    BY <1>1, <2>1, SplicedParts
<1> QED
  BY <1>1, <1>2, <1>3 DEF Parts

(* Putting a deletion back.                                                *)
Removed(t, beg, end, u, str) ==
  /\ t \in Seq(Char) /\ beg \in Nat /\ end \in Nat
  /\ 1 <= beg /\ beg <= end /\ end <= Len(t) + 1
  /\ u = Spliced(t, beg, end, <<>>) /\ str = SubSeq(t, beg, end - 1)

LEMMA DeletionBack ==
  ASSUME NEW t, NEW beg, NEW end, NEW u, NEW str, Removed(t, beg, end, u, str)
  PROVE  Spliced(u, beg, beg, str) = t /\ str \in Seq(Char) /\ Len(str) = end - beg
<1>0. /\ t \in Seq(Char) /\ beg \in Nat /\ end \in Nat
      /\ 1 <= beg /\ beg <= end /\ end <= Len(t) + 1
      /\ u = Spliced(t, beg, end, <<>>) /\ str = SubSeq(t, beg, end - 1)
  BY DEF Removed
<1>1. PICK a, x, c :
        /\ Parts(t, a, x, c) /\ Len(a) \in Nat /\ Len(x) \in Nat
        /\ beg = Len(a) + 1 /\ end = Len(a) + Len(x) + 1 /\ x = SubSeq(t, beg, end - 1)
  <2>1. t \in Seq(Char) /\ beg \in Nat /\ end \in Nat /\ 1 <= beg /\ beg <= end /\ end <= Len(t) + 1
    BY <1>0
  <2>2. PICK a, x, c : RegionIs(t, beg, end, a, x, c)
    BY <2>1, Split
  <2> QED
    BY <2>2, Zenon DEF RegionIs
<1>2. x \in Seq(Char) /\ <<>> \in Seq(Char) /\ Len(<<>>) = 0
  BY <1>1 DEF Parts
<1>3. Parts(u, a, <<>>, c)
  BY <1>0, <1>1, <1>2, SplicedParts
<1>4. beg = Len(a) + Len(<<>>) + 1
  BY <1>1, <1>2
<1>5. Parts(Spliced(u, beg, beg, x), a, x, c)
  BY <1>0, <1>1, <1>2, <1>3, <1>4, SplicedParts
<1>6. Len(x) = end - beg
  BY <1>1
<1> QED
  BY <1>0, <1>1, <1>2, <1>5, <1>6 DEF Parts

(* Two texts that differ in a region only are the same without it.         *)
LEMMA RegionOut ==
  ASSUME NEW t \in Seq(Char), NEW u \in Seq(Char), Len(u) = Len(t), NEW beg \in Nat,
         NEW end \in Nat, 1 <= beg, beg <= end, end <= Len(t) + 1,
         \A i \in 1 .. Len(t) : i \notin beg .. end - 1 => u[i] = t[i]
  PROVE  Spliced(u, beg, end, <<>>) = Spliced(t, beg, end, <<>>)
<1>1. PICK a, x, c :
        /\ Parts(t, a, x, c) /\ Len(a) \in Nat /\ Len(x) \in Nat
        /\ beg = Len(a) + 1 /\ end = Len(a) + Len(x) + 1
  <2>1. t \in Seq(Char) /\ beg \in Nat /\ end \in Nat /\ 1 <= beg /\ beg <= end /\ end <= Len(t) + 1
    OBVIOUS
  <2>2. PICK a, x, c : RegionIs(t, beg, end, a, x, c)
    BY <2>1, Split
  <2> QED
    BY <2>2, Zenon DEF RegionIs
<1>2. PICK d, y, f :
        /\ Parts(u, d, y, f) /\ Len(d) \in Nat /\ Len(y) \in Nat
        /\ beg = Len(d) + 1 /\ end = Len(d) + Len(y) + 1
  <2>1. u \in Seq(Char) /\ beg \in Nat /\ end \in Nat /\ 1 <= beg /\ beg <= end /\ end <= Len(u) + 1
    OBVIOUS
  <2>2. PICK d, y, f : RegionIs(u, beg, end, d, y, f)
    BY <2>1, Split
  <2> QED
    BY <2>2, Zenon DEF RegionIs
<1>3. /\ Len(t) = Len(a) + Len(x) + Len(c) /\ Len(c) \in Nat
      /\ \A i \in 1 .. Len(a) : t[i] = a[i]
      /\ \A i \in 1 .. Len(c) : t[Len(a) + Len(x) + i] = c[i]
  BY <1>1, PartsAre
<1>4. /\ Len(u) = Len(d) + Len(y) + Len(f) /\ Len(f) \in Nat
      /\ \A i \in 1 .. Len(d) : u[i] = d[i]
      /\ \A i \in 1 .. Len(f) : u[Len(d) + Len(y) + i] = f[i]
  BY <1>2, PartsAre
<1>5. PICK la \in Nat, lx \in Nat, lc \in Nat :
        /\ la = Len(a) /\ la = Len(d) /\ lx = Len(x) /\ lx = Len(y) /\ lc = Len(c) /\ lc = Len(f)
        /\ beg = la + 1 /\ end = la + lx + 1 /\ Len(t) = la + lx + lc
  <2>1. Len(a) = Len(d)
    BY <1>1, <1>2
  <2>2. Len(x) = Len(y)
    BY <1>1, <1>2, <2>1
  <2>3. Len(c) = Len(f)
    BY <1>1, <1>3, <1>4, <2>1, <2>2
  <2> QED
    BY <1>1, <1>3, <2>1, <2>2, <2>3
<1>6. a \in Seq(Char) /\ c \in Seq(Char) /\ d \in Seq(Char) /\ f \in Seq(Char) /\ <<>> \in Seq(Char)
  BY <1>1, <1>2 DEF Parts
<1>7. a = d
  <2>1. \A i \in 1 .. la : i \in 1 .. Len(t) /\ i \notin beg .. end - 1
    BY <1>5
  <2>2. \A i \in 1 .. Len(a) : a[i] = d[i]
    BY <1>3, <1>4, <1>5, <2>1
  <2> QED
    BY <1>5, <1>6, <2>2, SeqEqual
<1>8. c = f
  <2>1. \A i \in 1 .. lc : la + lx + i \in 1 .. Len(t) /\ la + lx + i \notin beg .. end - 1
    BY <1>5
  <2>2. ASSUME NEW i \in 1 .. Len(c) PROVE c[i] = f[i]
    <3>1. u[la + lx + i] = t[la + lx + i]
      BY <1>5, <2>1
    <3>2. t[la + lx + i] = c[i] /\ u[la + lx + i] = f[i]
      BY <1>3, <1>4, <1>5
    <3> QED
      BY <3>1, <3>2
  <2> QED
    BY <1>5, <1>6, <2>2, SeqEqual
<1>9. Parts(Spliced(t, beg, end, <<>>), a, <<>>, c)
  BY <1>1, <1>6, SplicedParts
<1>10. Parts(Spliced(u, beg, end, <<>>), d, <<>>, f)
  BY <1>2, <1>6, SplicedParts
<1> QED
  BY <1>7, <1>8, <1>9, <1>10 DEF Parts

-----------------------------------------------------------------------------
(* Records and lists of them.                                              *)

(* The records that are made: regions lie the right way round.             *)
Records ==
  {r \in Record : /\ r.kind = "insert" => 1 <= r.beg /\ r.beg <= r.end
                  /\ r.kind = "delete" => 1 <= r.beg}

LEMMA RecordIs ==
  ASSUME NEW r \in Records
  PROVE  /\ r \in Record /\ r.kind \in {"boundary", "first", "insert", "delete"}
         /\ r.kind = "boundary" <=> r = Boundary
         /\ r.kind = "first" => r.time \in 1 .. MaxTime
         /\ r.kind = "insert" => /\ r.beg \in Nat /\ r.end \in Nat /\ 1 <= r.beg /\ r.beg <= r.end
                                 /\ r.was \in Seq(Char) /\ r.start \in Seq(Char)
         /\ r.kind = "delete" => /\ r.beg \in Nat /\ 1 <= r.beg /\ r.str \in Seq(Char)
                                 /\ r.was \in Seq(Char) /\ r.start \in Seq(Char)
BY DEF Records, Record, Boundary

LEMMA RecordsMade ==
  /\ Boundary \in Records /\ Boundary.kind = "boundary"
  /\ \A time \in 1 .. MaxTime : [kind |-> "first", time |-> time] \in Records
  /\ \A beg \in Nat, end \in Nat, was \in Seq(Char), start \in Seq(Char) :
       1 <= beg /\ beg <= end =>
         [kind |-> "insert", beg |-> beg, end |-> end, was |-> was, start |-> start] \in Records
  /\ \A beg \in Nat, str \in Seq(Char), was \in Seq(Char), start \in Seq(Char) :
       1 <= beg =>
         [kind |-> "delete", beg |-> beg, str |-> str, was |-> was, start |-> start] \in Records
BY DEF Records, Record, Boundary

LEMMA Pushed ==
  ASSUME NEW list \in Seq(Records), NEW r \in Records, NEW p, p = <<r>> \o list
  PROVE  /\ p \in Seq(Records) /\ Len(p) = Len(list) + 1 /\ Len(list) \in Nat /\ p[1] = r
         /\ \A i \in 1 .. Len(list) : p[i + 1] = list[i]
OBVIOUS

LEMMA Below ==
  ASSUME NEW list \in Seq(Records), NEW k \in 0 .. Len(list), NEW p,
         p = SubSeq(list, k + 1, Len(list))
  PROVE  /\ p \in Seq(Records) /\ Len(p) = Len(list) - k /\ Len(list) \in Nat
         /\ \A i \in 1 .. Len(p) : p[i] = list[k + i]
<1>1. PICK n \in Nat : n = Len(list)
  OBVIOUS
<1>2. PICK m \in Int : m = k + 1 /\ k = m - 1 /\ k \in Nat /\ k <= n
  BY <1>1
<1>3. \A i \in m .. n : list[i] \in Records
  BY <1>1, <1>2
<1>4. /\ SubSeq(list, m, n) \in Seq(Records)
      /\ Len(SubSeq(list, m, n)) = IF m <= n THEN n - m + 1 ELSE 0
      /\ \A i \in 1 .. n - m + 1 : SubSeq(list, m, n)[i] = list[m + i - 1]
  BY <1>3, SubSeqProperties
<1>5. p = SubSeq(list, m, n)
  BY <1>1, <1>2
<1>6. Len(p) = n - k
  BY <1>2, <1>4, <1>5
<1>7. ASSUME NEW i \in 1 .. Len(p) PROVE p[i] = list[k + i]
  <2>1. i \in 1 .. n - m + 1 /\ m + i - 1 = k + i
    BY <1>2, <1>6
  <2> QED
    BY <1>4, <1>5, <2>1
<1> QED
  BY <1>1, <1>4, <1>5, <1>6, <1>7

LEMMA Above ==
  ASSUME NEW list \in Seq(Records), NEW k \in 0 .. Len(list), NEW p, p = SubSeq(list, 1, k)
  PROVE  p \in Seq(Records) /\ Len(p) = k /\ \A i \in 1 .. k : p[i] = list[i]
<1>1. PICK n \in Nat : n = Len(list)
  OBVIOUS
<1>2. k \in Nat /\ k <= n /\ k \in Int /\ 1 \in Int
  BY <1>1
<1>3. \A i \in 1 .. k : list[i] \in Records
  BY <1>1, <1>2
<1>4. /\ SubSeq(list, 1, k) \in Seq(Records)
      /\ Len(SubSeq(list, 1, k)) = IF 1 <= k THEN k - 1 + 1 ELSE 0
      /\ \A i \in 1 .. k - 1 + 1 : SubSeq(list, 1, k)[i] = list[1 + i - 1]
  BY <1>2, <1>3, SubSeqProperties
<1>5. Len(p) = k
  BY <1>2, <1>4
<1>6. ASSUME NEW i \in 1 .. k PROVE p[i] = list[i]
  <2>1. i \in 1 .. k - 1 + 1 /\ 1 + i - 1 = i
    BY <1>2
  <2> QED
    BY <1>4, <2>1
<1> QED
  BY <1>4, <1>5, <1>6

-----------------------------------------------------------------------------
(* The texts that a list leads back through: path[i] is the one before     *)
(* record i is undone.                                                     *)

Step(t, r, u) == IF IsChange(r) THEN u = r.was /\ u = Undone(t, r) ELSE u = t

Path(path, text, list) ==
  /\ path[1] = text
  /\ \A i \in 1 .. Len(list) : Step(path[i], list[i], path[i + 1])

(* No two saves in a second and no output between undos.                   *)
Careful == ~SameSecond /\ ~BetweenUndos

(* record_change marks a second first change, when the text is without the  *)
(* region: it stands between the records of insertion and deletion.         *)
Twice(list, i) ==
  /\ 1 < i /\ i < Len(list)
  /\ list[i - 1].kind = "insert" /\ list[i + 1].kind = "delete"
  /\ list[i - 1].beg = list[i + 1].beg

(* At a first change that is not obsolete the text is that of the file.     *)
MeetsAt(path, list, m, s, i) ==
  list[i].kind = "first" =>
    list[i].time <= m /\ (list[i].time = m => path[i] = s \/ Twice(list, i))
Meets(path, list, m, s) == \A i \in 1 .. Len(list) : MeetsAt(path, list, m, s, i)

(* A group ends above a boundary or at the end of the list; its changes     *)
(* were made since the text that is reached there.                          *)
GroupEnds(list, i, e) ==
  /\ \A j \in i .. e - 1 : list[j].kind # "boundary"
  /\ e <= Len(list) => list[e].kind = "boundary"
StartsFrom(path, list, i, start) ==
  \A e \in i .. Len(list) + 1 : GroupEnds(list, i, e) => path[e] = start
Starts(path, list) ==
  \A i \in 1 .. Len(list) : IsChange(list[i]) => StartsFrom(path, list, i, list[i].start)

Fits(path, text, list, m, s) ==
  Path(path, text, list) /\ (Careful => Meets(path, list, m, s)) /\ Starts(path, list)

Holds(text, list, start, m, s) ==
  \E path : Fits(path, text, list, m, s) /\ StartsFrom(path, list, 1, start)

(* One more text at the front.                                             *)
Longer(u, path) == [i \in Nat |-> IF i = 1 THEN u ELSE path[i - 1]]

LEMMA LongerIs ==
  ASSUME NEW v, NEW w
  PROVE  Longer(v, w)[1] = v /\ \A k \in Nat : k # 0 => Longer(v, w)[k + 1] = w[k]
<1>1. PICK q : q = Longer(v, w)
  OBVIOUS
<1>2. q[1] = v
  BY <1>1 DEF Longer
<1>3. ASSUME NEW k \in Nat, k # 0 PROVE q[k + 1] = w[k]
  <2>1. PICK j \in Nat : j = k + 1 /\ j # 1 /\ j - 1 = k
    BY <1>3
  <2> QED
    BY <1>1, <2>1 DEF Longer
<1> QED
  BY <1>1, <1>2, <1>3

(* A list below k records more, and the texts it leads back through.       *)
Shift(list, path, k, p, q) ==
  /\ list \in Seq(Records) /\ p \in Seq(Records) /\ k \in Nat /\ Len(p) = Len(list) + k
  /\ \A i \in 1 .. Len(list) : p[i + k] = list[i]
  /\ \A i \in 1 .. Len(list) + 1 : q[i + k] = path[i]

(* Record r is pushed, and text u comes first.                             *)
Pushes(list, path, r, u, p, q) ==
  /\ list \in Seq(Records) /\ r \in Records
  /\ p = <<r>> \o list /\ q = Longer(u, path)

LEMMA PushShift ==
  ASSUME NEW list, NEW r, NEW p, NEW u, NEW path, NEW q, Pushes(list, path, r, u, p, q)
  PROVE  Shift(list, path, 1, p, q) /\ q[1] = u /\ p[1] = r /\ Len(list) \in Nat
<1>0. list \in Seq(Records) /\ r \in Records /\ p = <<r>> \o list /\ q = Longer(u, path)
  BY DEF Pushes
<1>1. /\ p \in Seq(Records) /\ Len(p) = Len(list) + 1 /\ Len(list) \in Nat /\ p[1] = r
      /\ \A j \in 1 .. Len(list) : p[j + 1] = list[j]
  BY <1>0, Pushed
<1>2. q[1] = u /\ \A j \in Nat : j # 0 => q[j + 1] = path[j]
  <2>1. Longer(u, path)[1] = u /\ \A j \in Nat : j # 0 => Longer(u, path)[j + 1] = path[j]
    BY LongerIs
  <2> QED
    BY <1>0, <2>1
<1>3. \A i \in 1 .. Len(list) + 1 : i \in Nat /\ i # 0
  BY <1>1
<1> QED
  BY <1>0, <1>1, <1>2, <1>3 DEF Shift

(* Pushing a record: the texts, the first changes and the groups.          *)
LEMMA PathPushed ==
  ASSUME NEW list, NEW r, NEW p, NEW t, NEW u, NEW path, NEW q, Pushes(list, path, r, u, p, q),
         Path(path, t, list), Step(u, r, t)
  PROVE  Path(q, u, p)
<1>1. Shift(list, path, 1, p, q) /\ q[1] = u /\ p[1] = r /\ Len(list) \in Nat
  BY PushShift
<1>2. /\ Len(p) = Len(list) + 1
      /\ \A i \in 1 .. Len(list) : p[i + 1] = list[i]
      /\ \A i \in 1 .. Len(list) + 1 : q[i + 1] = path[i]
  BY <1>1 DEF Shift
<1>3. path[1] = t /\ \A i \in 1 .. Len(list) : Step(path[i], list[i], path[i + 1])
  BY DEF Path
<1>4. Step(q[1], p[1], q[1 + 1])
  <2>1. 1 \in 1 .. Len(list) + 1
    BY <1>1
  <2>2. q[1 + 1] = path[1]
    BY <1>2, <2>1
  <2> QED
    BY <1>1, <1>3, <2>2
<1>5. ASSUME NEW i \in 1 .. Len(list) PROVE Step(q[i + 1], p[i + 1], q[(i + 1) + 1])
  <2>1. i \in 1 .. Len(list) + 1 /\ i + 1 \in 1 .. Len(list) + 1
    BY <1>1
  <2>2. q[i + 1] = path[i] /\ q[(i + 1) + 1] = path[i + 1] /\ p[i + 1] = list[i]
    BY <1>2, <2>1
  <2> QED
    BY <1>3, <2>2
<1>6. ASSUME NEW i \in 1 .. Len(p) PROVE Step(q[i], p[i], q[i + 1])
  <2>1. CASE i = 1
    BY <1>4, <2>1
  <2>2. CASE i # 1
    <3>1. PICK j \in 1 .. Len(list) : i = j + 1
      <4>1. i - 1 \in 1 .. Len(list) /\ i = (i - 1) + 1
        BY <1>1, <1>2, <2>2
      <4> QED
        BY <4>1
    <3> QED
      BY <1>5, <3>1
  <2> QED
    BY <2>1, <2>2
<1> QED
  BY <1>1, <1>6 DEF Path

LEMMA MeetsShift ==
  ASSUME NEW list, NEW path, NEW k, NEW p, NEW q, Shift(list, path, k, p, q), NEW m, NEW s
  PROVE  \A i \in 1 .. Len(list) : MeetsAt(path, list, m, s, i) => MeetsAt(q, p, m, s, i + k)
<1>1. /\ Len(p) = Len(list) + k /\ Len(list) \in Nat /\ k \in Nat
      /\ \A j \in 1 .. Len(list) : p[j + k] = list[j]
      /\ \A i \in 1 .. Len(list) + 1 : q[i + k] = path[i]
  BY DEF Shift
<1>3. ASSUME NEW i \in 1 .. Len(list), MeetsAt(path, list, m, s, i)
      PROVE  MeetsAt(q, p, m, s, i + k)
  <2>1. q[i + k] = path[i] /\ p[i + k] = list[i]
    BY <1>1
  <2>2. ASSUME Twice(list, i) PROVE Twice(p, i + k)
    <3>1. /\ 1 < i /\ i < Len(list)
          /\ list[i - 1].kind = "insert" /\ list[i + 1].kind = "delete"
          /\ list[i - 1].beg = list[i + 1].beg
      BY <2>2 DEF Twice
    <3>2. PICK j \in 1 .. Len(list) : j = i - 1 /\ j + k = (i + k) - 1
      BY <1>1, <3>1
    <3>3. p[(i + k) - 1] = list[i - 1]
      BY <1>1, <3>2
    <3>4. PICK l \in 1 .. Len(list) : l = i + 1 /\ l + k = (i + k) + 1
      BY <1>1, <3>1
    <3>5. p[(i + k) + 1] = list[i + 1]
      BY <1>1, <3>4
    <3>6. 1 < i + k /\ i + k < Len(p)
      BY <1>1, <3>1
    <3> QED
      BY <3>1, <3>3, <3>5, <3>6 DEF Twice
  <2> QED
    BY <1>3, <2>1, <2>2 DEF MeetsAt
<1> QED
  BY <1>3

LEMMA GroupShift ==
  ASSUME NEW list, NEW path, NEW k, NEW p, NEW q, Shift(list, path, k, p, q),
         NEW i \in 1 .. Len(list) + 1, NEW f \in i .. Len(list) + 1
  PROVE  GroupEnds(list, i, f) <=> GroupEnds(p, i + k, f + k)
<1>1. /\ Len(list) \in Nat /\ k \in Nat /\ Len(p) = Len(list) + k
      /\ \A j \in 1 .. Len(list) : p[j + k] = list[j]
  BY DEF Shift
<1>2. i \in Nat /\ f \in Nat /\ i <= f /\ 1 <= i /\ f <= Len(list) + 1
  BY <1>1
<1>3. (\A j \in i .. f - 1 : list[j].kind # "boundary")
        <=> (\A j \in i + k .. (f + k) - 1 : p[j].kind # "boundary")
  <2>1. ASSUME \A j \in i .. f - 1 : list[j].kind # "boundary", NEW j \in i + k .. (f + k) - 1
        PROVE  p[j].kind # "boundary"
    <3>1. PICK l \in 1 .. Len(list) : j = l + k /\ l \in i .. f - 1
      <4>1. j - k \in 1 .. Len(list) /\ j = (j - k) + k /\ j - k \in i .. f - 1
        BY <1>1, <1>2
      <4> QED
        BY <4>1
    <3> QED
      BY <1>1, <2>1, <3>1
  <2>2. ASSUME \A j \in i + k .. (f + k) - 1 : p[j].kind # "boundary", NEW j \in i .. f - 1
        PROVE  list[j].kind # "boundary"
    <3>1. j \in 1 .. Len(list) /\ j + k \in i + k .. (f + k) - 1
      BY <1>1, <1>2
    <3> QED
      BY <1>1, <2>2, <3>1
  <2> QED
    BY <2>1, <2>2
<1>4. (f <= Len(list) => list[f].kind = "boundary")
        <=> (f + k <= Len(p) => p[f + k].kind = "boundary")
  <2>1. f <= Len(list) <=> f + k <= Len(p)
    BY <1>1, <1>2
  <2>2. f <= Len(list) => f \in 1 .. Len(list)
    BY <1>1, <1>2
  <2>3. f <= Len(list) => p[f + k] = list[f]
    BY <1>1, <2>2
  <2> QED
    BY <2>1, <2>3
<1> QED
  BY <1>3, <1>4 DEF GroupEnds

LEMMA StartsShift ==
  ASSUME NEW list, NEW path, NEW k, NEW p, NEW q, Shift(list, path, k, p, q), NEW start,
         NEW i \in 1 .. Len(list) + 1
  PROVE  StartsFrom(path, list, i, start) <=> StartsFrom(q, p, i + k, start)
<1>1. /\ Len(list) \in Nat /\ k \in Nat /\ Len(p) = Len(list) + k
      /\ \A j \in 1 .. Len(list) + 1 : q[j + k] = path[j]
  BY DEF Shift
<1>2. \A f \in i .. Len(list) + 1 :
        (GroupEnds(list, i, f) <=> GroupEnds(p, i + k, f + k)) /\ q[f + k] = path[f]
  <2>1. \A f \in i .. Len(list) + 1 : GroupEnds(list, i, f) <=> GroupEnds(p, i + k, f + k)
    BY GroupShift
  <2>2. \A f \in i .. Len(list) + 1 : f \in 1 .. Len(list) + 1
    BY <1>1
  <2> QED
    BY <1>1, <2>1, <2>2
<1>3. \A f \in i .. Len(list) + 1 : f + k \in i + k .. Len(p) + 1
  BY <1>1
<1>4. \A e \in i + k .. Len(p) + 1 : \E f \in i .. Len(list) + 1 : e = f + k
  <2>1. ASSUME NEW e \in i + k .. Len(p) + 1 PROVE \E f \in i .. Len(list) + 1 : e = f + k
    <3>1. e - k \in i .. Len(list) + 1 /\ e = (e - k) + k
      BY <1>1
    <3> QED
      BY <3>1
  <2> QED
    BY <2>1
<1> QED
  BY <1>2, <1>3, <1>4 DEF StartsFrom

(* A record other than a boundary belongs to the group that is open.       *)
LEMMA StartsPushed ==
  ASSUME NEW list, NEW r, NEW p, NEW u, NEW path, NEW q, Pushes(list, path, r, u, p, q),
         NEW start, Starts(path, list), StartsFrom(path, list, 1, start),
         r.kind # "boundary", IsChange(r) => r.start = start
  PROVE  Starts(q, p) /\ StartsFrom(q, p, 1, start)
<1>1. Shift(list, path, 1, p, q) /\ q[1] = u /\ p[1] = r /\ Len(list) \in Nat
  BY PushShift
<1>2. Len(p) = Len(list) + 1
  BY <1>1 DEF Shift
<1>3. StartsFrom(q, p, 1 + 1, start)
  <2>1. 1 \in 1 .. Len(list) + 1
    BY <1>1
  <2> QED
    BY <1>1, <2>1, StartsShift
<1>4. StartsFrom(q, p, 1, start)
  <2>1. ASSUME NEW e \in 1 .. Len(p) + 1, GroupEnds(p, 1, e) PROVE q[e] = start
    <3>1. e # 1
      BY <1>1, <1>2, <2>1 DEF GroupEnds
    <3>2. e \in 1 + 1 .. Len(p) + 1
      BY <3>1
    <3>3. GroupEnds(p, 1 + 1, e)
      <4>1. \A j \in 1 + 1 .. e - 1 : j \in 1 .. e - 1
        OBVIOUS
      <4> QED
        BY <2>1, <4>1 DEF GroupEnds
    <3> QED
      BY <1>3, <3>2, <3>3 DEF StartsFrom
  <2> QED
    BY <2>1 DEF StartsFrom
<1>5. ASSUME NEW i \in 1 .. Len(p), IsChange(p[i]) PROVE StartsFrom(q, p, i, p[i].start)
  <2>1. CASE i = 1
    BY <1>1, <1>4, <1>5, <2>1
  <2>2. CASE i # 1
    <3>1. PICK j \in 1 .. Len(list) : i = j + 1
      <4>1. i - 1 \in 1 .. Len(list) /\ i = (i - 1) + 1
        BY <1>1, <1>2, <2>2
      <4> QED
        BY <4>1
    <3>2. p[i] = list[j]
      BY <1>1, <3>1 DEF Shift
    <3>3. StartsFrom(path, list, j, list[j].start)
      BY <1>5, <3>2 DEF Starts
    <3>4. j \in 1 .. Len(list) + 1
      BY <1>1
    <3> QED
      BY <1>1, <3>1, <3>2, <3>3, <3>4, StartsShift
  <2> QED
    BY <2>1, <2>2
<1> QED
  BY <1>4, <1>5 DEF Starts

(* A boundary opens a group.                                               *)
LEMMA StartsBounded ==
  ASSUME NEW list, NEW p, NEW u, NEW path, NEW q, Pushes(list, path, Boundary, u, p, q),
         Starts(path, list)
  PROVE  Starts(q, p) /\ StartsFrom(q, p, 1, u)
<1>0. Boundary \in Records /\ Boundary.kind = "boundary"
  BY RecordsMade
<1>1. Shift(list, path, 1, p, q) /\ q[1] = u /\ p[1] = Boundary /\ Len(list) \in Nat
  BY <1>0, PushShift
<1>2. Len(p) = Len(list) + 1
  BY <1>1 DEF Shift
<1>3. StartsFrom(q, p, 1, u)
  <2>1. ASSUME NEW e \in 1 .. Len(p) + 1, GroupEnds(p, 1, e) PROVE e = 1
    <3>1. e # 1 => 1 \in 1 .. e - 1
      OBVIOUS
    <3> QED
      BY <1>0, <1>1, <2>1, <3>1 DEF GroupEnds
  <2> QED
    BY <1>1, <2>1 DEF StartsFrom
<1>4. ASSUME NEW i \in 1 .. Len(p), IsChange(p[i]) PROVE StartsFrom(q, p, i, p[i].start)
  <2>1. i # 1
    BY <1>0, <1>1, <1>4 DEF IsChange
  <2>2. PICK j \in 1 .. Len(list) : i = j + 1
    <3>1. i - 1 \in 1 .. Len(list) /\ i = (i - 1) + 1
      BY <1>1, <1>2, <2>1
    <3> QED
      BY <3>1
  <2>3. p[i] = list[j]
    BY <1>1, <2>2 DEF Shift
  <2>4. StartsFrom(path, list, j, list[j].start)
    BY <1>4, <2>3 DEF Starts
  <2>5. j \in 1 .. Len(list) + 1
    BY <1>1
  <2> QED
    BY <1>1, <2>2, <2>3, <2>4, <2>5, StartsShift
<1> QED
  BY <1>3, <1>4 DEF Starts

-----------------------------------------------------------------------------
(* The list of a buffer holds after each kind of recording.                *)

LEMMA BoundaryHolds ==
  ASSUME NEW list \in Seq(Records), NEW t, NEW start, NEW m, NEW s, Holds(t, list, start, m, s)
  PROVE  /\ Holds(t, <<Boundary>> \o list, t, m, s)
         /\ list = <<>> \/ list[1] = Boundary => Holds(t, list, t, m, s)
<1>1. PICK path : Fits(path, t, list, m, s) /\ StartsFrom(path, list, 1, start)
  BY DEF Holds
<1>2. Path(path, t, list) /\ (Careful => Meets(path, list, m, s)) /\ Starts(path, list)
  BY <1>1 DEF Fits
<1>3. Boundary \in Records /\ Boundary.kind = "boundary"
  BY RecordsMade
<1>4. Holds(t, <<Boundary>> \o list, t, m, s)
  <2>1. PICK p, q : Pushes(list, path, Boundary, t, p, q) /\ p = <<Boundary>> \o list
    BY <1>3 DEF Pushes
  <2>2. Path(q, t, p)
    <3>1. Step(t, Boundary, t)
      BY <1>3 DEF Step, IsChange
    <3> QED
      BY <1>2, <2>1, <3>1, PathPushed
  <2>3. Starts(q, p) /\ StartsFrom(q, p, 1, t)
    BY <1>2, <2>1, StartsBounded
  <2>4. ASSUME Careful PROVE Meets(q, p, m, s)
    <3>1. Shift(list, path, 1, p, q) /\ p[1] = Boundary /\ Len(list) \in Nat
      BY <2>1, PushShift
    <3>2. Len(p) = Len(list) + 1
      BY <3>1 DEF Shift
    <3>3. MeetsAt(q, p, m, s, 1)
      BY <1>3, <3>1 DEF MeetsAt
    <3>4. \A i \in 1 .. Len(list) : MeetsAt(q, p, m, s, i + 1)
      BY <1>2, <2>4, <3>1, MeetsShift DEF Meets
    <3>5. \A i \in 1 .. Len(p) : i = 1 \/ (i - 1 \in 1 .. Len(list) /\ (i - 1) + 1 = i)
      BY <3>1, <3>2
    <3> QED
      BY <3>3, <3>4, <3>5 DEF Meets
  <2>5. Fits(q, t, p, m, s)
    BY <2>2, <2>3, <2>4 DEF Fits
  <2> QED
    BY <2>1, <2>3, <2>5 DEF Holds
<1>5. ASSUME list = <<>> \/ list[1] = Boundary PROVE Holds(t, list, t, m, s)
  <2>1. ASSUME NEW e \in 1 .. Len(list) + 1, GroupEnds(list, 1, e) PROVE path[e] = t
    <3>1. e = 1
      <4>1. CASE list = <<>>
        BY <4>1
      <4>2. CASE list[1] = Boundary
        <5>1. e # 1 => 1 \in 1 .. e - 1
          OBVIOUS
        <5> QED
          BY <1>3, <2>1, <4>2, <5>1 DEF GroupEnds
      <4> QED
        BY <1>5, <4>1, <4>2
    <3> QED
      BY <1>2, <3>1 DEF Path
  <2>2. StartsFrom(path, list, 1, t)
    BY <2>1 DEF StartsFrom
  <2> QED
    BY <1>1, <2>2 DEF Holds
<1> QED
  BY <1>4, <1>5

(* The last record is a deletion at beg.                                   *)
OnDelete(list, beg) == list # <<>> /\ list[1].kind = "delete" /\ list[1].beg = beg

(* The record of a change, after that of a first change when the buffer is  *)
(* not modified: the text is then that of the file, or what record_change   *)
(* has between its two records.                                            *)
WithFirst(list, modified, m, r) ==
  <<r>> \o (IF modified THEN list ELSE <<[kind |-> "first", time |-> m]>> \o list)

LEMMA ChangeHolds ==
  ASSUME NEW list \in Seq(Records), NEW t, NEW u, NEW start, NEW m \in 1 .. MaxTime, NEW s,
         Holds(t, list, start, m, s), NEW r \in Records, IsChange(r),
         r.was = t, r.start = start, Undone(u, r) = t, NEW modified \in BOOLEAN,
         Careful /\ ~modified => t = s \/ (r.kind = "insert" /\ OnDelete(list, r.beg))
  PROVE  Holds(u, WithFirst(list, modified, m, r), start, m, s)
<1>1. PICK path : Fits(path, t, list, m, s) /\ StartsFrom(path, list, 1, start)
  BY DEF Holds
<1>2. Path(path, t, list) /\ (Careful => Meets(path, list, m, s)) /\ Starts(path, list)
  BY <1>1 DEF Fits
<1>3. Step(u, r, t) /\ r.kind # "boundary" /\ r.kind # "first"
  BY DEF Step, IsChange
<1>4. CASE modified
  <2>1. PICK p, q : Pushes(list, path, r, u, p, q) /\ p = WithFirst(list, modified, m, r)
    BY <1>4 DEF Pushes, WithFirst
  <2>2. Path(q, u, p)
    BY <1>2, <1>3, <2>1, PathPushed
  <2>3. Starts(q, p) /\ StartsFrom(q, p, 1, start)
    BY <1>1, <1>2, <1>3, <2>1, StartsPushed
  <2>4. ASSUME Careful PROVE Meets(q, p, m, s)
    <3>1. Shift(list, path, 1, p, q) /\ p[1] = r /\ Len(list) \in Nat
      BY <2>1, PushShift
    <3>2. Len(p) = Len(list) + 1
      BY <3>1 DEF Shift
    <3>3. MeetsAt(q, p, m, s, 1)
      BY <1>3, <3>1 DEF MeetsAt
    <3>4. \A i \in 1 .. Len(list) : MeetsAt(q, p, m, s, i + 1)
      BY <1>2, <2>4, <3>1, MeetsShift DEF Meets
    <3>5. \A i \in 1 .. Len(p) : i = 1 \/ (i - 1 \in 1 .. Len(list) /\ (i - 1) + 1 = i)
      BY <3>1, <3>2
    <3> QED
      BY <3>3, <3>4, <3>5 DEF Meets
  <2> QED
    BY <2>1, <2>2, <2>3, <2>4 DEF Fits, Holds
<1>5. CASE ~modified
  <2>1. PICK f \in Records : f = [kind |-> "first", time |-> m]
    BY RecordsMade
  <2>2. f.kind = "first" /\ f.time = m
    BY <2>1
  <2>3. PICK l, o : Pushes(list, path, f, t, l, o) /\ l = <<f>> \o list
    BY DEF Pushes
  <2>4. Shift(list, path, 1, l, o) /\ l[1] = f /\ o[1] = t /\ Len(list) \in Nat
    BY <2>3, PushShift
  <2>5. Len(l) = Len(list) + 1 /\ l \in Seq(Records) /\ \A i \in 1 .. Len(list) : l[i + 1] = list[i]
    BY <2>4 DEF Shift
  <2>6. Path(o, t, l)
    <3>1. Step(t, f, t)
      BY <2>2 DEF Step, IsChange
    <3> QED
      BY <1>2, <2>3, <3>1, PathPushed
  <2>7. Starts(o, l) /\ StartsFrom(o, l, 1, start)
    <3>1. f.kind # "boundary" /\ ~IsChange(f)
      BY <2>2 DEF IsChange
    <3> QED
      BY <1>1, <1>2, <2>3, <3>1, StartsPushed
  <2>8. PICK p, q : Pushes(l, o, r, u, p, q) /\ p = WithFirst(list, modified, m, r)
    BY <1>5, <2>1, <2>3, <2>5 DEF Pushes, WithFirst
  <2>9. Path(q, u, p)
    BY <1>3, <2>6, <2>8, PathPushed
  <2>10. Starts(q, p) /\ StartsFrom(q, p, 1, start)
    BY <1>3, <2>7, <2>8, StartsPushed
  <2>11. ASSUME Careful PROVE Meets(q, p, m, s)
    <3>1. Shift(l, o, 1, p, q) /\ p[1] = r
      BY <2>8, PushShift
    <3>2. /\ Len(p) = Len(list) + 2 /\ \A i \in 1 .. Len(l) : p[i + 1] = l[i]
          /\ \A i \in 1 .. Len(l) + 1 : q[i + 1] = o[i]
      BY <2>4, <2>5, <3>1 DEF Shift
    <3>3. MeetsAt(q, p, m, s, 1)
      BY <1>3, <3>1 DEF MeetsAt
    <3>4. p[2] = f /\ q[2] = t
      <4>1. 1 \in 1 .. Len(l) /\ 1 \in 1 .. Len(l) + 1 /\ 1 + 1 = 2
        BY <2>4, <2>5
      <4> QED
        BY <2>4, <3>2, <4>1
    <3>5. t = s \/ Twice(p, 2)
      <4>1. ASSUME r.kind = "insert", OnDelete(list, r.beg) PROVE Twice(p, 2)
        <5>1. list[1].kind = "delete" /\ list[1].beg = r.beg /\ list # <<>>
          BY <4>1 DEF OnDelete
        <5>2. 1 \in 1 .. Len(list)
          BY <5>1
        <5>3. PICK n \in 1 .. Len(l) : n = 1 + 1 /\ n = 2 /\ l[n] = list[1]
          BY <2>5, <5>2
        <5>4. PICK k : k = n + 1 /\ k = 2 + 1 /\ p[k] = list[1]
          BY <3>2, <5>3
        <5>5. 1 < 2 /\ 2 < Len(p) /\ 2 - 1 = 1
          BY <3>2, <5>2
        <5> QED
          BY <3>1, <4>1, <5>1, <5>4, <5>5 DEF Twice
      <4> QED
        BY <1>5, <2>11, <4>1
    <3>6. MeetsAt(q, p, m, s, 2)
      <4>1. m <= m
        OBVIOUS
      <4> QED
        BY <2>2, <3>4, <3>5, <4>1 DEF MeetsAt
    <3>7. \A i \in 1 .. Len(list) : MeetsAt(o, l, m, s, i + 1)
      BY <1>2, <2>4, <2>11, MeetsShift DEF Meets
    <3>8. \A i \in 1 .. Len(list) : MeetsAt(q, p, m, s, (i + 1) + 1)
      <4>1. \A i \in 1 .. Len(l) : MeetsAt(o, l, m, s, i) => MeetsAt(q, p, m, s, i + 1)
        BY <3>1, MeetsShift
      <4>2. \A i \in 1 .. Len(list) : i + 1 \in 1 .. Len(l)
        BY <2>4, <2>5
      <4> QED
        BY <3>7, <4>1, <4>2
    <3>9. \A i \in 1 .. Len(p) :
            i = 1 \/ i = 2 \/ (i - 2 \in 1 .. Len(list) /\ ((i - 2) + 1) + 1 = i)
      BY <2>4, <3>2
    <3> QED
      BY <3>3, <3>6, <3>8, <3>9 DEF Meets
  <2> QED
    BY <2>8, <2>9, <2>10, <2>11 DEF Fits, Holds
<1> QED
  BY <1>4, <1>5

(* Lengthening the insertion on top.                                       *)
LEMMA LongerInsertionHolds ==
  ASSUME NEW list \in Seq(Records), NEW t, NEW u, NEW start, NEW m, NEW s,
         Holds(t, list, start, m, s), list # <<>>, list[1].kind = "insert",
         NEW r \in Records, r.kind = "insert", r.beg = list[1].beg, r.was = list[1].was,
         r.start = list[1].start, Undone(t, list[1]) = list[1].was => Undone(u, r) = r.was,
         NEW p \in Seq(Records), Len(p) = Len(list), p[1] = r,
         \A i \in 2 .. Len(list) : p[i] = list[i]
  PROVE  Holds(u, p, start, m, s)
<1>0. Len(list) \in Nat /\ 1 \in 1 .. Len(list)
  OBVIOUS
<1>1. PICK path : Fits(path, t, list, m, s) /\ StartsFrom(path, list, 1, start)
  BY DEF Holds
<1>2. Path(path, t, list) /\ (Careful => Meets(path, list, m, s)) /\ Starts(path, list)
  BY <1>1 DEF Fits
<1>3. PICK q : q = [i \in Nat |-> IF i = 1 THEN u ELSE path[i]]
  OBVIOUS
<1>4. q[1] = u /\ \A i \in Nat : i # 1 => q[i] = path[i]
  BY <1>3
<1>5. path[1] = t /\ \A i \in 1 .. Len(list) : Step(path[i], list[i], path[i + 1])
  BY <1>2 DEF Path
<1>6. \A i \in 1 .. Len(list) : p[i].kind = list[i].kind /\ p[i].beg = list[i].beg
                              /\ p[i].start = list[i].start
  <2>1. \A i \in 1 .. Len(list) : i = 1 \/ i \in 2 .. Len(list)
    OBVIOUS
  <2> QED
    BY <2>1
<1>7. ASSUME NEW i \in 1 .. Len(p) PROVE Step(q[i], p[i], q[i + 1])
  <2>1. i \in Nat /\ i + 1 \in Nat /\ i + 1 # 1
    BY <1>0
  <2>2. Step(path[i], list[i], path[i + 1]) /\ q[i + 1] = path[i + 1]
    BY <1>4, <1>5, <2>1
  <2>3. CASE i = 1
    <3>1. path[1 + 1] = list[1].was /\ list[1].was = Undone(t, list[1])
      BY <1>5, <2>2, <2>3 DEF Step, IsChange
    <3> QED
      BY <1>4, <2>2, <2>3, <3>1 DEF Step, IsChange
  <2>4. CASE i # 1
    <3>1. p[i] = list[i] /\ q[i] = path[i]
      <4>1. i \in 2 .. Len(list)
        BY <1>0, <2>4
      <4> QED
        BY <1>4, <2>1, <2>4, <4>1
    <3> QED
      BY <2>2, <3>1
  <2> QED
    BY <2>3, <2>4
<1>8. Path(q, u, p)
  BY <1>4, <1>7 DEF Path
<1>9. ASSUME Careful PROVE Meets(q, p, m, s)
  <2>1. ASSUME NEW i \in 1 .. Len(p) PROVE MeetsAt(q, p, m, s, i)
    <3>1. CASE i = 1
      BY <3>1 DEF MeetsAt
    <3>2. CASE i # 1
      <4>1. p[i] = list[i] /\ q[i] = path[i]
        <5>1. i \in 2 .. Len(list) /\ i \in Nat
          BY <1>0, <3>2
        <5> QED
          BY <1>4, <3>2, <5>1
      <4>2. MeetsAt(path, list, m, s, i)
        BY <1>2, <1>9 DEF Meets
      <4>3. ASSUME Twice(list, i) PROVE Twice(p, i)
        <5>1. 1 < i /\ i < Len(list)
          BY <4>3 DEF Twice
        <5>2. i - 1 \in 1 .. Len(list) /\ i + 1 \in 1 .. Len(list)
          BY <1>0, <5>1
        <5> QED
          BY <1>6, <4>3, <5>1, <5>2 DEF Twice
      <4> QED
        BY <4>1, <4>2, <4>3 DEF MeetsAt
    <3> QED
      BY <3>1, <3>2
  <2> QED
    BY <2>1 DEF Meets
<1>10. ASSUME NEW i \in 1 .. Len(p), NEW e \in i .. Len(p) + 1, GroupEnds(p, i, e)
       PROVE  GroupEnds(list, i, e) /\ q[e] = path[e]
  <2>1. e # 1
    <3>1. e = 1 => p[e].kind = "insert"
      OBVIOUS
    <3>2. e = 1 => e <= Len(p)
      BY <1>0
    <3> QED
      BY <1>10, <3>1, <3>2 DEF GroupEnds
  <2>2. \A j \in i .. e - 1 : j \in 1 .. Len(list)
    BY <1>0
  <2>3. e <= Len(list) => e \in 1 .. Len(list)
    BY <1>0
  <2>4. e \in Nat
    BY <1>0
  <2> QED
    BY <1>4, <1>6, <1>10, <2>1, <2>2, <2>3, <2>4 DEF GroupEnds
<1>11. Starts(q, p) /\ StartsFrom(q, p, 1, start)
  <2>1. ASSUME NEW i \in 1 .. Len(p), IsChange(p[i]) PROVE StartsFrom(q, p, i, p[i].start)
    <3>1. StartsFrom(path, list, i, list[i].start)
      BY <1>2, <1>6, <2>1 DEF Starts, IsChange
    <3> QED
      BY <1>6, <1>10, <3>1 DEF StartsFrom
  <2>2. StartsFrom(q, p, 1, start)
    BY <1>0, <1>1, <1>10 DEF StartsFrom
  <2> QED
    BY <2>1, <2>2 DEF Starts
<1> QED
  BY <1>8, <1>9, <1>11 DEF Fits, Holds

-----------------------------------------------------------------------------
(* Buffers, and what recording does to them.                               *)

Buffers == [text : Seq(Char), begv : Nat, zv : Nat, modified : BOOLEAN, recording : BOOLEAN,
            undo : Seq(Records), start : Seq(Char)]
Recordable(b) == b \in Buffers /\ (~b.recording => b.undo = <<>>)
OnlyUndo(b, c) ==
  /\ c.text = b.text /\ c.begv = b.begv /\ c.zv = b.zv /\ c.modified = b.modified
  /\ c.recording = b.recording /\ c.start = b.start

(* list has records above those of old.                                    *)
On(list, old) ==
  /\ Len(old) < Len(list)
  /\ \A i \in 1 .. Len(old) : list[(Len(list) - Len(old)) + i] = old[i]

LEMMA OnPushed ==
  ASSUME NEW list \in Seq(Records), NEW r \in Records, NEW old \in Seq(Records), On(list, old),
         NEW p, p = <<r>> \o list
  PROVE  On(p, old)
<1>1. /\ Len(p) = Len(list) + 1 /\ Len(list) \in Nat
      /\ \A i \in 1 .. Len(list) : p[i + 1] = list[i]
  BY Pushed
<1>2. PICK n \in Nat, l \in Nat : n = Len(old) /\ l = Len(list)
  BY <1>1
<1>3. n < l /\ \A i \in 1 .. n : list[(l - n) + i] = old[i]
  BY <1>2 DEF On
<1>4. ASSUME NEW i \in 1 .. n PROVE p[((l + 1) - n) + i] = old[i]
  <2>1. n < l
    BY <1>3
  <2>2. (l - n) + i \in 1 .. l /\ ((l - n) + i) + 1 = ((l + 1) - n) + i
    BY <2>1
  <2>3. PICK j \in 1 .. l : j = (l - n) + i /\ j + 1 = ((l + 1) - n) + i
    BY <2>2
  <2> QED
    BY <1>1, <1>2, <1>3, <2>3
<1> QED
  BY <1>1, <1>2, <1>3, <1>4 DEF On

LEMMA OnChanged ==
  ASSUME NEW list \in Seq(Records), NEW old \in Seq(Records), On(list, old),
         NEW p, Len(p) = Len(list), \A i \in 2 .. Len(list) : p[i] = list[i]
  PROVE  On(p, old)
<1>1. PICK n \in Nat, l \in Nat : n = Len(old) /\ l = Len(list)
  OBVIOUS
<1>2. n < l /\ \A i \in 1 .. n : list[(l - n) + i] = old[i]
  BY <1>1 DEF On
<1>3. \A i \in 1 .. n : (l - n) + i \in 2 .. l
  BY <1>2
<1> QED
  BY <1>1, <1>2, <1>3 DEF On

LEMMA WithFirstIs ==
  ASSUME NEW list \in Seq(Records), NEW r \in Records, NEW m \in 1 .. MaxTime,
         NEW modified \in BOOLEAN, NEW p, p = WithFirst(list, modified, m, r)
  PROVE  /\ p \in Seq(Records) /\ p # <<>> /\ p[1] = r
         /\ \A old \in Seq(Records) : On(list, old) => On(p, old)
<1>1. PICK l : l = IF modified THEN list ELSE <<[kind |-> "first", time |-> m]>> \o list
  OBVIOUS
<1>2. PICK f \in Records : f = [kind |-> "first", time |-> m]
  BY RecordsMade
<1>3. l \in Seq(Records) /\ \A old \in Seq(Records) : On(list, old) => On(l, old)
  <2>1. CASE modified
    BY <1>1, <2>1
  <2>2. CASE ~modified
    <3>1. l = <<f>> \o list
      BY <1>1, <1>2, <2>2
    <3> QED
      BY <3>1, Pushed, OnPushed
  <2> QED
    BY <2>1, <2>2
<1>4. p = <<r>> \o l
  BY <1>1 DEF WithFirst
<1>5. p \in Seq(Records) /\ Len(p) = Len(l) + 1 /\ Len(l) \in Nat /\ p[1] = r
  BY <1>3, <1>4, Pushed
<1>6. \A old \in Seq(Records) : On(l, old) => On(p, old)
  BY <1>3, <1>4, OnPushed
<1>7. p # <<>>
  BY <1>5
<1> QED
  BY <1>3, <1>5, <1>6, <1>7

LEMMA PushedChange ==
  ASSUME NEW b, Recordable(b), modtime \in 1 .. MaxTime, NEW r \in Records,
         NEW c, c = Push(RecordFirstChange(b), r)
  PROVE  /\ OnlyUndo(b, c) /\ c \in Buffers /\ c.undo = WithFirst(b.undo, b.modified, modtime, r)
<1>1. b \in Buffers
  BY DEF Recordable
<1>2. PICK f \in Records : f = [kind |-> "first", time |-> modtime]
  BY RecordsMade
<1>3. CASE b.modified
  <2>1. c = [b EXCEPT !.undo = <<r>> \o @]
    BY <1>3 DEF Push, RecordFirstChange
  <2>2. <<r>> \o b.undo \in Seq(Records)
    BY <1>1 DEF Buffers
  <2>3. c = [b EXCEPT !.undo = <<r>> \o b.undo]
    BY <1>1, <2>1 DEF Buffers
  <2> QED
    BY <1>1, <1>3, <2>2, <2>3 DEF Buffers, OnlyUndo, WithFirst
<1>4. CASE ~b.modified
  <2>1. PICK l \in Seq(Records) : l = <<f>> \o b.undo
    <3>1. b.undo \in Seq(Records)
      BY <1>1 DEF Buffers
    <3>2. <<f>> \o b.undo \in Seq(Records)
      BY <3>1
    <3> QED
      BY <3>2
  <2>2. RecordFirstChange(b) = [b EXCEPT !.undo = l]
    BY <1>1, <1>2, <1>4, <2>1 DEF Push, RecordFirstChange, Buffers
  <2>3. c = [b EXCEPT !.undo = <<r>> \o l]
    BY <1>1, <2>2 DEF Push, Buffers
  <2>4. <<r>> \o l \in Seq(Records)
    BY <2>1
  <2> QED
    BY <1>1, <1>2, <1>4, <2>1, <2>3, <2>4 DEF Buffers, OnlyUndo, WithFirst
<1> QED
  BY <1>3, <1>4

(* The text of an unmodified buffer is that of the file.                   *)
Clean(b, s) == Careful /\ ~b.modified => b.text = s

LEMMA RecordDeleteIs ==
  ASSUME NEW b, Recordable(b), modtime \in 1 .. MaxTime, NEW beg \in Nat, NEW end \in Nat,
         1 <= beg, beg <= end, end <= Len(b.text) + 1, NEW c, c = RecordDelete(b, beg, end)
  PROVE  /\ OnlyUndo(b, c) /\ Recordable(c)
         /\ b.recording => OnDelete(c.undo, beg)
         /\ \A old \in Seq(Records) : On(b.undo, old) => On(c.undo, old)
         /\ \A s : b.recording /\ Clean(b, s) /\ Holds(b.text, b.undo, b.start, modtime, s)
              => Holds(Spliced(b.text, beg, end, <<>>), c.undo, b.start, modtime, s)
<1>1. b \in Buffers /\ (~b.recording => b.undo = <<>>)
  BY DEF Recordable
<1>2. /\ b.text \in Seq(Char) /\ b.undo \in Seq(Records) /\ b.start \in Seq(Char)
      /\ b.modified \in BOOLEAN /\ b.recording \in BOOLEAN
  BY <1>1 DEF Buffers
<1>3. CASE ~b.recording
  <2>1. c = b
    BY <1>3 DEF RecordDelete
  <2> QED
    BY <1>3, <2>1 DEF OnlyUndo
<1>4. CASE b.recording
  <2>1. PICK str : str = SubSeq(b.text, beg, end - 1)
    OBVIOUS
  <2>2. PICK u : u = Spliced(b.text, beg, end, <<>>)
    OBVIOUS
  <2>3. Spliced(u, beg, beg, str) = b.text /\ str \in Seq(Char)
    <3>1. PICK t \in Seq(Char) : t = b.text
      BY <1>2
    <3>2. /\ u = Spliced(t, beg, end, <<>>) /\ str = SubSeq(t, beg, end - 1) /\ end <= Len(t) + 1
          /\ t \in Seq(Char) /\ beg \in Nat /\ end \in Nat /\ 1 <= beg /\ beg <= end
      BY <2>1, <2>2, <3>1
    <3>3. Removed(t, beg, end, u, str)
      BY <3>2, Zenon DEF Removed
    <3>4. Spliced(u, beg, beg, str) = t /\ str \in Seq(Char)
      BY <3>3, DeletionBack
    <3> QED
      BY <3>1, <3>4
  <2>4. PICK r : r = [kind |-> "delete", beg |-> beg, str |-> str,
                      was |-> b.text, start |-> b.start]
    OBVIOUS
  <2>5. r \in Records
    BY <1>2, <2>3, <2>4, RecordsMade
  <2>6. r.kind = "delete" /\ r.beg = beg /\ r.str = str /\ r.was = b.text /\ r.start = b.start
    BY <2>4
  <2>7. c = Push(RecordFirstChange(b), r)
    BY <1>4, <2>1, <2>4 DEF RecordDelete
  <2>8. OnlyUndo(b, c) /\ c \in Buffers /\ c.undo = WithFirst(b.undo, b.modified, modtime, r)
    BY <2>5, <2>7, PushedChange
  <2>9. /\ c.undo # <<>> /\ c.undo[1] = r
        /\ \A old \in Seq(Records) : On(b.undo, old) => On(c.undo, old)
    BY <1>2, <2>5, <2>8, WithFirstIs
  <2>10. Recordable(c)
    BY <1>4, <2>8 DEF Recordable, OnlyUndo
  <2>11. OnDelete(c.undo, beg)
    BY <2>6, <2>9 DEF OnDelete
  <2>12. ASSUME NEW s, Clean(b, s), Holds(b.text, b.undo, b.start, modtime, s)
         PROVE  Holds(u, c.undo, b.start, modtime, s)
    <3>1. IsChange(r) /\ Undone(u, r) = b.text
      BY <2>3, <2>6 DEF IsChange, Undone
    <3>2. Careful /\ ~b.modified => b.text = s
      BY <2>12 DEF Clean
    <3> QED
      BY <1>2, <2>5, <2>6, <2>8, <2>12, <3>1, <3>2, ChangeHolds
  <2> QED
    BY <2>2, <2>8, <2>9, <2>10, <2>11, <2>12
<1> QED
  BY <1>2, <1>3, <1>4

(* u is t with n characters inserted at beg.                               *)
Inserted(t, u, beg, n) ==
  /\ Spliced(u, beg, beg + n, <<>>) = t
  /\ \A first \in Nat : 1 <= first /\ first <= beg =>
       Spliced(u, first, beg + n, <<>>) = Spliced(t, first, beg, <<>>)

LEMMA RecordInsertIs ==
  ASSUME NEW b, Recordable(b), modtime \in 1 .. MaxTime, NEW beg \in Nat, NEW n \in Nat,
         1 <= beg, NEW t \in Seq(Char), NEW c, c = RecordInsert(b, beg, n, t)
  PROVE  /\ OnlyUndo(b, c) /\ Recordable(c)
         /\ \A old \in Seq(Records) : On(b.undo, old) => On(c.undo, old)
         /\ \A s, u : /\ b.recording /\ Holds(t, b.undo, b.start, modtime, s)
                      /\ Inserted(t, u, beg, n)
                      /\ Careful /\ ~b.modified => t = s \/ OnDelete(b.undo, beg)
              => Holds(u, c.undo, b.start, modtime, s)
<1>1. b \in Buffers /\ (~b.recording => b.undo = <<>>)
  BY DEF Recordable
<1>2. /\ b.undo \in Seq(Records) /\ b.start \in Seq(Char)
      /\ b.modified \in BOOLEAN /\ b.recording \in BOOLEAN
  BY <1>1 DEF Buffers
<1>3. CASE ~b.recording
  <2>1. c = b
    BY <1>3 DEF RecordInsert
  <2> QED
    BY <1>3, <2>1 DEF OnlyUndo
<1>4. PICK d : d = RecordFirstChange(b)
  OBVIOUS
<1>5. CASE b.recording /\ Continues(d.undo, beg)
  <2>1. b.modified
    <3>1. ASSUME ~b.modified PROVE FALSE
      <4>1. d.undo = <<[kind |-> "first", time |-> modtime]>> \o b.undo
        BY <1>1, <1>4, <3>1 DEF RecordFirstChange, Push, Buffers
      <4>2. d.undo[1] = [kind |-> "first", time |-> modtime]
        BY <1>2, <4>1
      <4> QED
        BY <1>5, <4>2 DEF Continues
    <3> QED
      BY <1>2, <3>1
  <2>2. d = b
    BY <1>4, <2>1 DEF RecordFirstChange
  <2>3. PICK list \in Seq(Records) : list = b.undo
    BY <1>2
  <2>4. list # <<>> /\ list[1].kind = "insert" /\ list[1].end = beg
    BY <1>5, <2>2, <2>3 DEF Continues
  <2>5. PICK o \in Records : o = list[1]
    BY <2>3, <2>4
  <2>6. /\ o.beg \in Nat /\ 1 <= o.beg /\ o.beg <= beg /\ o.was \in Seq(Char)
        /\ o.start \in Seq(Char) /\ o.kind = "insert" /\ o.end = beg
    BY <2>4, <2>5, RecordIs
  <2>7. o = [kind |-> "insert", beg |-> o.beg, end |-> o.end, was |-> o.was, start |-> o.start]
    BY <2>6 DEF Records, Record, Boundary
  <2>8. PICK r : r = [o EXCEPT !.end = beg + n]
    OBVIOUS
  <2>9. r = [kind |-> "insert", beg |-> o.beg, end |-> beg + n, was |-> o.was, start |-> o.start]
    BY <2>7, <2>8
  <2>10. r \in Records
    <3>1. beg + n \in Nat /\ o.beg <= beg + n
      BY <2>6
    <3> QED
      BY <2>6, <2>9, <3>1, RecordsMade
  <2>11. r.kind = "insert" /\ r.beg = o.beg /\ r.end = beg + n /\ r.was = o.was /\ r.start = o.start
    BY <2>9
  <2>12. PICK p : p = [list EXCEPT ![1] = r]
    OBVIOUS
  <2>13. c = [b EXCEPT !.undo[1].end = beg + n]
    BY <1>4, <1>5, <2>2 DEF RecordInsert
  <2>14. c = [b EXCEPT !.undo = p]
    BY <1>1, <2>3, <2>5, <2>8, <2>12, <2>13 DEF Buffers
  <2>15. /\ p \in Seq(Records) /\ Len(p) = Len(list) /\ p[1] = r
         /\ \A i \in 2 .. Len(list) : p[i] = list[i]
    BY <2>4, <2>10, <2>12
  <2>16. c \in Buffers /\ OnlyUndo(b, c) /\ c.undo = p
    BY <1>1, <2>14, <2>15 DEF Buffers, OnlyUndo
  <2>17. Recordable(c)
    BY <1>5, <2>16 DEF Recordable, OnlyUndo
  <2>18. \A old \in Seq(Records) : On(b.undo, old) => On(c.undo, old)
    BY <2>3, <2>15, <2>16, OnChanged
  <2>19. ASSUME NEW s, NEW u, Holds(t, b.undo, b.start, modtime, s), Inserted(t, u, beg, n)
         PROVE  Holds(u, c.undo, b.start, modtime, s)
    <3>1. Undone(t, list[1]) = list[1].was => Undone(u, r) = r.was
      <4>1. Undone(t, list[1]) = Spliced(t, o.beg, beg, <<>>)
        BY <2>5, <2>6 DEF Undone
      <4>2. Undone(u, r) = Spliced(u, o.beg, beg + n, <<>>)
        BY <2>11 DEF Undone
      <4>3. Spliced(u, o.beg, beg + n, <<>>) = Spliced(t, o.beg, beg, <<>>)
        BY <2>6, <2>19 DEF Inserted
      <4> QED
        BY <2>5, <2>11, <4>1, <4>2, <4>3
    <3>2. /\ r.beg = list[1].beg /\ r.was = list[1].was /\ r.start = list[1].start
          /\ Holds(t, list, b.start, modtime, s)
      BY <2>3, <2>5, <2>11, <2>19
    <3>3. Holds(u, p, b.start, modtime, s)
      BY <2>4, <2>10, <2>11, <2>15, <3>1, <3>2, LongerInsertionHolds
    <3> QED
      BY <2>16, <3>3
  <2> QED
    BY <2>16, <2>17, <2>18, <2>19
<1>6. CASE b.recording /\ ~Continues(d.undo, beg)
  <2>1. PICK r : r = [kind |-> "insert", beg |-> beg, end |-> beg + n, was |-> t,
                      start |-> b.start]
    OBVIOUS
  <2>2. r \in Records
    <3>1. beg + n \in Nat /\ beg <= beg + n
      OBVIOUS
    <3> QED
      BY <1>2, <2>1, <3>1, RecordsMade
  <2>3. r.kind = "insert" /\ r.beg = beg /\ r.end = beg + n /\ r.was = t /\ r.start = b.start
    BY <2>1
  <2>4. c = Push(RecordFirstChange(b), r)
    BY <1>4, <1>6, <2>1 DEF RecordInsert
  <2>5. OnlyUndo(b, c) /\ c \in Buffers /\ c.undo = WithFirst(b.undo, b.modified, modtime, r)
    BY <2>2, <2>4, PushedChange
  <2>6. \A old \in Seq(Records) : On(b.undo, old) => On(c.undo, old)
    BY <1>2, <2>2, <2>5, WithFirstIs
  <2>7. Recordable(c)
    BY <1>6, <2>5 DEF Recordable, OnlyUndo
  <2>8. ASSUME NEW s, NEW u, Holds(t, b.undo, b.start, modtime, s), Inserted(t, u, beg, n),
               Careful /\ ~b.modified => t = s \/ OnDelete(b.undo, beg)
        PROVE  Holds(u, c.undo, b.start, modtime, s)
    <3>1. IsChange(r) /\ Undone(u, r) = t
      BY <2>3, <2>8 DEF IsChange, Undone, Inserted
    <3>2. Careful /\ ~b.modified => t = s \/ (r.kind = "insert" /\ OnDelete(b.undo, r.beg))
      BY <2>3, <2>8
    <3> QED
      BY <1>2, <2>2, <2>3, <2>5, <2>8, <3>1, <3>2, ChangeHolds
  <2> QED
    BY <2>5, <2>6, <2>7, <2>8
<1> QED
  BY <1>2, <1>3, <1>5, <1>6

-----------------------------------------------------------------------------
(* The primitives.                                                         *)

Sane(b) ==
  Recordable(b) /\ 1 <= b.begv /\ b.begv <= b.zv /\ b.zv <= Len(b.text) + 1
Good(b, s) == Sane(b) /\ (b.recording => Holds(b.text, b.undo, b.start, modtime, s))

LEMMA SaneIs ==
  ASSUME NEW b, Sane(b)
  PROVE  /\ b \in Buffers /\ b.text \in Seq(Char) /\ b.begv \in Nat /\ b.zv \in Nat
         /\ b.modified \in BOOLEAN /\ b.recording \in BOOLEAN /\ b.undo \in Seq(Records)
         /\ b.start \in Seq(Char) /\ Recordable(b) /\ Len(b.text) \in Nat
         /\ 1 <= b.begv /\ b.begv <= b.zv /\ b.zv <= Len(b.text) + 1
         /\ ~b.recording => b.undo = <<>>
BY DEF Sane, Recordable, Buffers

LEMMA InsertedText ==
  ASSUME NEW t \in Seq(Char), NEW beg \in Nat, 1 <= beg, beg <= Len(t) + 1,
         NEW str \in Seq(Char), NEW u, u = Spliced(t, beg, beg, str), NEW n, n = Len(str)
  PROVE  Inserted(t, u, beg, n)
<1>1. \A first \in Nat : 1 <= first /\ first <= beg =>
        Spliced(u, first, beg + n, <<>>) = Spliced(t, first, beg, <<>>)
  <2>1. PICK end : end = beg + n /\ end = beg + Len(str)
    OBVIOUS
  <2>2. ASSUME NEW first \in Nat, 1 <= first, first <= beg
        PROVE  Spliced(u, first, end, <<>>) = Spliced(t, first, beg, <<>>)
    BY <2>1, <2>2, InsertionOut
  <2> QED
    BY <2>1, <2>2
<1>2. Spliced(t, beg, beg, <<>>) = t
  BY NothingSpliced
<1>3. Spliced(u, beg, beg + n, <<>>) = t
  BY <1>1, <1>2
<1> QED
  BY <1>1, <1>3 DEF Inserted

LEMMA InsertIs ==
  ASSUME NEW b, NEW s, Good(b, s), modtime \in 1 .. MaxTime, NEW beg \in b.begv .. b.zv,
         NEW str \in Seq(Char), Clean(b, s) \/ OnDelete(b.undo, beg), NEW c, c = Insert(b, beg, str)
  PROVE  /\ Good(c, s) /\ c.modified /\ c.recording = b.recording /\ c.begv = b.begv
         /\ c.zv = b.zv + Len(str) /\ c.text = Spliced(b.text, beg, beg, str)
         /\ c.start = b.start
         /\ \A old \in Seq(Records) : On(b.undo, old) => On(c.undo, old)
<1>1. Sane(b) /\ (b.recording => Holds(b.text, b.undo, b.start, modtime, s))
  BY DEF Good
<1>2. /\ b \in Buffers /\ b.text \in Seq(Char) /\ b.begv \in Nat /\ b.zv \in Nat
      /\ b.modified \in BOOLEAN /\ b.recording \in BOOLEAN /\ b.undo \in Seq(Records)
      /\ b.start \in Seq(Char) /\ Recordable(b) /\ Len(b.text) \in Nat
      /\ 1 <= b.begv /\ b.begv <= b.zv /\ b.zv <= Len(b.text) + 1
  BY <1>1, SaneIs
<1>3. beg \in Nat /\ 1 <= beg /\ beg <= Len(b.text) + 1
  BY <1>2
<1>4. PICK n \in Nat : n = Len(str)
  OBVIOUS
<1>5. PICK t, u : t \in Seq(Char) /\ t = b.text /\ u = Spliced(t, beg, beg, str)
  BY <1>2
<1>6. u \in Seq(Char) /\ Len(u) = Len(b.text) + n
  <2>1. u \in Seq(Char) /\ Len(u) = Len(t) + Len(str) - (beg - beg)
    <3>1. Replaced(t, beg, beg, str, u)
      BY <1>3, <1>5 DEF Replaced
    <3> QED
      BY <3>1, SplicedText
  <2> QED
    BY <1>2, <1>4, <1>5, <2>1
<1>7. Inserted(t, u, beg, n)
  BY <1>3, <1>4, <1>5, InsertedText
<1>8. PICK d : d = RecordInsert(b, beg, n, t)
  OBVIOUS
<1>9. /\ OnlyUndo(b, d) /\ Recordable(d)
      /\ \A old \in Seq(Records) : On(b.undo, old) => On(d.undo, old)
      /\ b.recording => Holds(u, d.undo, b.start, modtime, s)
  <2>1. Careful /\ ~b.modified => t = s \/ OnDelete(b.undo, beg)
    BY <1>5 DEF Clean
  <2> QED
    BY <1>1, <1>2, <1>3, <1>5, <1>7, <1>8, <2>1, RecordInsertIs
<1>10. c = [d EXCEPT !.text = u, !.zv = b.zv + n, !.modified = TRUE]
  BY <1>4, <1>5, <1>8, <1>9 DEF Insert, OnlyUndo
<1>11. d \in Buffers /\ (~d.recording => d.undo = <<>>)
  BY <1>9 DEF Recordable
<1>12. /\ c \in Buffers /\ c.text = u /\ c.zv = b.zv + n /\ c.modified = TRUE /\ c.begv = b.begv
       /\ c.recording = b.recording /\ c.undo = d.undo /\ c.start = b.start
  <2>1. PICK zv \in Nat : zv = b.zv + n
    BY <1>2
  <2> QED
    BY <1>6, <1>9, <1>10, <1>11, <2>1 DEF Buffers, OnlyUndo
<1>13. Sane(c)
  <2>1. 1 <= c.begv /\ c.begv <= c.zv /\ c.zv <= Len(c.text) + 1
    <3>1. PICK begv \in Nat, zv \in Nat, l \in Nat :
            begv = b.begv /\ zv = b.zv /\ l = Len(b.text)
      BY <1>2
    <3>2. 1 <= begv /\ begv <= zv /\ zv <= l + 1
      BY <1>2, <3>1
    <3>3. 1 <= begv /\ begv <= zv + n /\ zv + n <= (l + n) + 1
      BY <3>2
    <3>4. c.begv = begv /\ c.zv = zv + n /\ Len(c.text) = l + n
      BY <1>6, <1>12, <3>1
    <3> QED
      BY <3>3, <3>4
  <2> QED
    BY <1>9, <1>11, <1>12, <2>1 DEF Sane, Recordable, OnlyUndo
<1>14. Good(c, s)
  BY <1>9, <1>12, <1>13 DEF Good
<1> QED
  BY <1>4, <1>5, <1>9, <1>12, <1>14

LEMMA DeleteRegionIs ==
  ASSUME NEW b, NEW s, Good(b, s), modtime \in 1 .. MaxTime, NEW beg \in Nat, NEW end \in Nat,
         b.begv <= beg, beg <= end, end <= b.zv, Clean(b, s), NEW c, c = DeleteRegion(b, beg, end)
  PROVE  /\ Good(c, s) /\ c.modified /\ c.recording = b.recording /\ c.begv = b.begv
         /\ beg <= c.zv /\ c.text = Spliced(b.text, beg, end, <<>>) /\ c.start = b.start
         /\ b.recording => OnDelete(c.undo, beg)
         /\ \A old \in Seq(Records) : On(b.undo, old) => On(c.undo, old)
<1>1. Sane(b) /\ (b.recording => Holds(b.text, b.undo, b.start, modtime, s))
  BY DEF Good
<1>2. /\ b \in Buffers /\ b.text \in Seq(Char) /\ b.begv \in Nat /\ b.zv \in Nat
      /\ b.modified \in BOOLEAN /\ b.recording \in BOOLEAN /\ b.undo \in Seq(Records)
      /\ b.start \in Seq(Char) /\ Recordable(b) /\ Len(b.text) \in Nat
      /\ 1 <= b.begv /\ b.begv <= b.zv /\ b.zv <= Len(b.text) + 1
  BY <1>1, SaneIs
<1>3. 1 <= beg /\ end <= Len(b.text) + 1
  BY <1>2
<1>4. PICK t, u : t \in Seq(Char) /\ t = b.text /\ u = Spliced(t, beg, end, <<>>)
  BY <1>2
<1>5. u \in Seq(Char) /\ Len(u) = Len(b.text) - (end - beg)
  <2>1. <<>> \in Seq(Char) /\ Len(<<>>) = 0 /\ end <= Len(t) + 1
    BY <1>3, <1>4
  <2>2. u \in Seq(Char) /\ Len(u) = Len(t) + Len(<<>>) - (end - beg)
    <3>1. Replaced(t, beg, end, <<>>, u)
      BY <1>3, <1>4, <2>1 DEF Replaced
    <3> QED
      BY <3>1, SplicedText
  <2> QED
    BY <1>2, <1>4, <2>1, <2>2
<1>6. PICK d : d = RecordDelete(b, beg, end)
  OBVIOUS
<1>7. /\ OnlyUndo(b, d) /\ Recordable(d)
      /\ b.recording => OnDelete(d.undo, beg)
      /\ \A old \in Seq(Records) : On(b.undo, old) => On(d.undo, old)
      /\ b.recording => Holds(u, d.undo, b.start, modtime, s)
  <2>1. \A r : b.recording /\ Clean(b, r) /\ Holds(b.text, b.undo, b.start, modtime, r)
              => Holds(Spliced(b.text, beg, end, <<>>), d.undo, b.start, modtime, r)
    BY <1>2, <1>3, <1>6, RecordDeleteIs
  <2>2. /\ OnlyUndo(b, d) /\ Recordable(d)
        /\ b.recording => OnDelete(d.undo, beg)
        /\ \A old \in Seq(Records) : On(b.undo, old) => On(d.undo, old)
    BY <1>2, <1>3, <1>6, RecordDeleteIs
  <2> QED
    BY <1>1, <1>4, <2>1, <2>2
<1>8. c = [d EXCEPT !.text = u, !.zv = b.zv - (end - beg), !.modified = TRUE]
  BY <1>4, <1>6, <1>7 DEF DeleteRegion, OnlyUndo
<1>9. d \in Buffers /\ (~d.recording => d.undo = <<>>)
  BY <1>7 DEF Recordable
<1>10. PICK zv \in Nat : zv = b.zv - (end - beg) /\ beg <= zv
  <2>1. b.zv - (end - beg) \in Nat /\ beg <= b.zv - (end - beg)
    BY <1>2
  <2> QED
    BY <2>1
<1>11. /\ c \in Buffers /\ c.text = u /\ c.zv = zv /\ c.modified = TRUE /\ c.begv = b.begv
       /\ c.recording = b.recording /\ c.undo = d.undo /\ c.start = b.start
  BY <1>2, <1>5, <1>7, <1>8, <1>9, <1>10 DEF Buffers, OnlyUndo
<1>12. Sane(c)
  <2>1. 1 <= c.begv /\ c.begv <= c.zv /\ c.zv <= Len(c.text) + 1
    <3>1. 1 <= b.begv /\ b.begv <= zv
      BY <1>2, <1>10
    <3>2. PICK l \in Nat, m \in Nat : l = Len(b.text) /\ m = Len(u) /\ m = l - (end - beg)
      <4>1. Len(b.text) \in Nat /\ Len(u) \in Nat
        BY <1>2, <1>5
      <4> QED
        BY <1>5, <4>1
    <3>3. zv <= m + 1
      BY <1>2, <1>10, <3>2, SMTT(30)
    <3> QED
      BY <1>11, <3>1, <3>2, <3>3
  <2> QED
    BY <1>7, <1>9, <1>11, <2>1 DEF Sane, Recordable, OnlyUndo
<1>13. Good(c, s)
  BY <1>7, <1>11, <1>12 DEF Good
<1> QED
  BY <1>4, <1>7, <1>10, <1>11, <1>13

Alike(b, c) == c.recording = b.recording /\ c.begv = b.begv /\ c.zv = b.zv

(* record_change, with any text that differs in the region only.           *)
Redone(b, beg, end, u, d, c) ==
  /\ beg \in Nat /\ end \in Nat /\ 1 <= beg /\ beg <= end /\ end <= Len(b.text) + 1
  /\ u \in Seq(Char) /\ Len(u) = Len(b.text)
  /\ \A i \in 1 .. Len(b.text) : i \notin beg .. end - 1 => u[i] = b.text[i]
  /\ d = RecordChange(b, beg, end) /\ c = [d EXCEPT !.text = u, !.modified = TRUE]

LEMMA RecordChangeIs ==
  ASSUME NEW b, NEW s, Good(b, s), Clean(b, s), modtime \in 1 .. MaxTime, NEW beg, NEW end,
         NEW u, NEW d, NEW c, Redone(b, beg, end, u, d, c)
  PROVE  /\ Good(c, s) /\ c.modified /\ Alike(b, c)
         /\ d \in Buffers /\ OnlyUndo(b, d)
<1>0. /\ beg \in Nat /\ end \in Nat /\ 1 <= beg /\ beg <= end /\ end <= Len(b.text) + 1
      /\ u \in Seq(Char) /\ Len(u) = Len(b.text)
      /\ \A i \in 1 .. Len(b.text) : i \notin beg .. end - 1 => u[i] = b.text[i]
      /\ d = RecordChange(b, beg, end) /\ c = [d EXCEPT !.text = u, !.modified = TRUE]
  BY DEF Redone
<1>1. Sane(b) /\ (b.recording => Holds(b.text, b.undo, b.start, modtime, s))
  BY DEF Good
<1>2. /\ b \in Buffers /\ b.text \in Seq(Char) /\ b.begv \in Nat /\ b.zv \in Nat
      /\ b.modified \in BOOLEAN /\ b.recording \in BOOLEAN /\ b.undo \in Seq(Records)
      /\ b.start \in Seq(Char) /\ Recordable(b) /\ Len(b.text) \in Nat
      /\ 1 <= b.begv /\ b.begv <= b.zv /\ b.zv <= Len(b.text) + 1
  BY <1>1, SaneIs
<1>3. PICK o \in Seq(Char) : o = b.text
  BY <1>2
<1>4. PICK t : t = Spliced(o, beg, end, <<>>)
  OBVIOUS
<1>5. t \in Seq(Char) /\ Len(t) = Len(o) - (end - beg)
  <2>1. <<>> \in Seq(Char) /\ Len(<<>>) = 0 /\ end <= Len(o) + 1
    BY <1>0, <1>3
  <2>2. t \in Seq(Char) /\ Len(t) = Len(o) + Len(<<>>) - (end - beg)
    <3>1. Replaced(o, beg, end, <<>>, t)
      BY <1>0, <1>4, <2>1 DEF Replaced
    <3> QED
      BY <3>1, SplicedText
  <2> QED
    BY <1>0, <1>2, <1>3, <2>1, <2>2
<1>6. t = Spliced(u, beg, end, <<>>)
  <2>1. Len(u) = Len(o) /\ end <= Len(o) + 1
        /\ \A i \in 1 .. Len(o) : i \notin beg .. end - 1 => u[i] = o[i]
    BY <1>0, <1>3
  <2>2. Spliced(u, beg, end, <<>>) = Spliced(o, beg, end, <<>>)
    BY <1>0, <2>1, RegionOut
  <2> QED
    BY <1>4, <2>2
<1>7. PICK n \in Nat : n = end - beg /\ beg + n = end
  BY <1>0
<1>8. Inserted(t, u, beg, n)
  <2>1. PICK str : str = SubSeq(u, beg, end - 1)
    OBVIOUS
  <2>2. Removed(u, beg, end, t, str)
    BY <1>0, <1>3, <1>6, <2>1 DEF Removed
  <2>3. Spliced(t, beg, beg, str) = u /\ str \in Seq(Char) /\ Len(str) = n
    BY <1>7, <2>2, DeletionBack
  <2>4. beg <= Len(t) + 1
    BY <1>0, <1>2, <1>3, <1>5
  <2> QED
    BY <1>0, <1>5, <2>3, <2>4, InsertedText
<1>9. PICK e : e = RecordDelete(b, beg, end)
  OBVIOUS
<1>10. /\ OnlyUndo(b, e) /\ Recordable(e)
       /\ b.recording => OnDelete(e.undo, beg)
       /\ b.recording => Holds(t, e.undo, b.start, modtime, s)
  <2>1. \A r : b.recording /\ Clean(b, r) /\ Holds(b.text, b.undo, b.start, modtime, r)
              => Holds(Spliced(b.text, beg, end, <<>>), e.undo, b.start, modtime, r)
    BY <1>0, <1>2, <1>9, RecordDeleteIs
  <2>2. OnlyUndo(b, e) /\ Recordable(e) /\ (b.recording => OnDelete(e.undo, beg))
    BY <1>0, <1>2, <1>9, RecordDeleteIs
  <2> QED
    BY <1>1, <1>3, <1>4, <2>1, <2>2
<1>11. d = RecordInsert(e, beg, n, t)
  BY <1>0, <1>3, <1>4, <1>7, <1>9 DEF RecordChange
<1>12. /\ OnlyUndo(e, d) /\ Recordable(d)
       /\ e.recording => Holds(u, d.undo, e.start, modtime, s)
  <2>1. OnlyUndo(e, d) /\ Recordable(d)
    BY <1>0, <1>5, <1>10, <1>11, RecordInsertIs
  <2>2. \A r, v : /\ e.recording /\ Holds(t, e.undo, e.start, modtime, r)
                  /\ Inserted(t, v, beg, n)
                  /\ Careful /\ ~e.modified => t = r \/ OnDelete(e.undo, beg)
              => Holds(v, d.undo, e.start, modtime, r)
    BY <1>0, <1>5, <1>10, <1>11, RecordInsertIs
  <2>3. ASSUME e.recording PROVE Holds(u, d.undo, e.start, modtime, s)
    <3>1. b.recording /\ e.start = b.start
      BY <1>10, <2>3 DEF OnlyUndo
    <3> QED
      BY <1>8, <1>10, <2>2, <2>3, <3>1
  <2> QED
    BY <2>1, <2>3
<1>13. d \in Buffers /\ (~d.recording => d.undo = <<>>)
  BY <1>12 DEF Recordable
<1>14. /\ d.text = b.text /\ d.modified = b.modified
       /\ c \in Buffers /\ c.text = u /\ c.zv = b.zv /\ c.modified = TRUE /\ c.begv = b.begv
       /\ c.recording = b.recording /\ c.undo = d.undo /\ c.start = b.start
       /\ e.recording = b.recording /\ d.recording = b.recording /\ e.start = b.start
  BY <1>0, <1>10, <1>12, <1>13 DEF Buffers, OnlyUndo
<1>15. Sane(c)
  <2>1. 1 <= c.begv /\ c.begv <= c.zv /\ c.zv <= Len(c.text) + 1
    BY <1>0, <1>2, <1>14
  <2> QED
    BY <1>13, <1>14, <2>1 DEF Sane, Recordable
<1>16. Good(c, s)
  BY <1>12, <1>14, <1>15 DEF Good
<1> QED
  <2>1. OnlyUndo(b, d)
    BY <1>10, <1>12 DEF OnlyUndo
  <2> QED
    BY <1>13, <1>14, <1>16, <2>1 DEF Alike

-----------------------------------------------------------------------------
(* The functions that go through a region and through a list.              *)

LEMMA Least ==
  ASSUME NEW T, T \subseteq Nat, T # {}
  PROVE  \E x \in T : \A y \in T : x <= y
<1>1. IsWellFoundedOn(OpToRel(<, Nat), Nat)
  BY NatLessThanWellFounded, Zenon
<1>2. \E x \in T : \A y \in T : ~(<<y, x>> \in OpToRel(<, Nat))
  BY <1>1, WFMin, Zenon
<1>3. PICK x \in T : \A y \in T : ~(<<y, x>> \in OpToRel(<, Nat))
  BY <1>2, Zenon
<1>4. ASSUME NEW y \in T PROVE ~(y < x)
  BY <1>3, Zenon DEF OpToRel
<1> QED
  BY <1>4

(* A set of numbers with 0 and with the successors of its members up to n. *)
LEMMA AllReached ==
  ASSUME NEW R, NEW n \in Nat, 0 \in R, \A k \in 0 .. n - 1 : k \in R => k + 1 \in R
  PROVE  \A k \in 0 .. n : k \in R
<1>1. SUFFICES ASSUME NEW k \in 0 .. n, k \notin R PROVE FALSE
  OBVIOUS
<1>2. PICK T : T = {j \in 0 .. n : j \notin R}
  OBVIOUS
<1>3. T \subseteq Nat /\ T # {}
  BY <1>1, <1>2
<1>4. PICK x \in T : \A y \in T : x <= y
  BY <1>3, Least
<1>5. x \in 0 .. n /\ x \notin R
  BY <1>2
<1>6. x # 0
  BY <1>5
<1>7. x - 1 \in 0 .. n - 1 /\ (x - 1) + 1 = x
  BY <1>5, <1>6
<1>8. x - 1 \notin R
  BY <1>5, <1>7
<1>9. x - 1 \in 0 .. n
  BY <1>7
<1>10. x - 1 \in T
  BY <1>2, <1>8, <1>9
<1> QED
  BY <1>4, <1>5, <1>10

IsLooked(g, b, beg, n, from, to) ==
  g = [k \in 0 .. n |-> IF k = 0 THEN [b EXCEPT !.modified = TRUE]
                        ELSE SubstAt(g[k - 1], beg + k - 1, from, to)]

LEMMA LookedExists ==
  ASSUME NEW b, NEW beg, NEW n \in Nat, NEW from, NEW to
  PROVE  \E g : IsLooked(g, b, beg, n, from, to)
<1>1. PICK R : R = {k \in Nat : \E g : IsLooked(g, b, beg, k, from, to)}
  OBVIOUS
<1>2. 0 \in R
  <2>1. PICK g : g = [k \in 0 .. 0 |-> [b EXCEPT !.modified = TRUE]]
    OBVIOUS
  <2>2. g = [k \in 0 .. 0 |-> IF k = 0 THEN [b EXCEPT !.modified = TRUE]
                              ELSE SubstAt(g[k - 1], beg + k - 1, from, to)]
    BY <2>1
  <2>3. IsLooked(g, b, beg, 0, from, to)
    BY <2>2 DEF IsLooked
  <2> QED
    BY <1>1, <2>3
<1>3. ASSUME NEW k \in 0 .. n - 1, k \in R PROVE k + 1 \in R
  <2>1. PICK g : IsLooked(g, b, beg, k, from, to)
    BY <1>1, <1>3
  <2>2. PICK m \in Nat : m = k + 1 /\ m # 0 /\ m - 1 = k /\ 0 .. m = (0 .. k) \union {m} /\ m \notin 0 .. k
    OBVIOUS
  <2>3. PICK x : x = SubstAt(g[k], beg + m - 1, from, to)
    OBVIOUS
  <2>4. PICK h : h = [j \in 0 .. m |-> IF j = m THEN x ELSE g[j]]
    OBVIOUS
  <2>5. DOMAIN h = 0 .. m /\ h[m] = x /\ \A j \in 0 .. k : h[j] = g[j]
    BY <2>2, <2>4
  <2>6. ASSUME NEW j \in 0 .. m
        PROVE  h[j] = IF j = 0 THEN [b EXCEPT !.modified = TRUE]
                      ELSE SubstAt(h[j - 1], beg + j - 1, from, to)
    <3>1. CASE j = m
      <4>1. h[m - 1] = g[k]
        BY <2>2, <2>5
      <4> QED
        BY <2>2, <2>3, <2>5, <3>1, <4>1
    <3>2. CASE j # m
      <4>1. j \in 0 .. k
        BY <2>2, <3>2
      <4>2. g[j] = IF j = 0 THEN [b EXCEPT !.modified = TRUE]
                   ELSE SubstAt(g[j - 1], beg + j - 1, from, to)
        BY <2>1, <4>1 DEF IsLooked
      <4>3. j # 0 => h[j - 1] = g[j - 1]
        <5>1. j # 0 => j - 1 \in 0 .. k
          BY <4>1
        <5> QED
          BY <2>5, <5>1
      <4> QED
        BY <2>5, <4>1, <4>2, <4>3
    <3> QED
      BY <3>1, <3>2
  <2>7. IsLooked(h, b, beg, m, from, to)
    BY <2>4, <2>6 DEF IsLooked
  <2> QED
    BY <1>1, <2>2, <2>7
<1>4. n \in R
  BY <1>2, <1>3, AllReached
<1> QED
  BY <1>1, <1>4

LEMMA SubstLookedIs ==
  ASSUME NEW b, NEW beg, NEW n \in Nat, NEW from, NEW to, NEW g,
         g = SubstLooked(b, beg, n, from, to)
  PROVE  IsLooked(g, b, beg, n, from, to)
<1>1. g = CHOOSE f : IsLooked(f, b, beg, n, from, to)
  BY DEF SubstLooked, IsLooked
<1> QED
  BY <1>1, LookedExists

LEMMA SubstAtIs ==
  ASSUME NEW b, NEW s, Good(b, s), b.modified, modtime \in 1 .. MaxTime, NEW i \in Nat,
         b.begv <= i, i < b.zv, NEW from, NEW to \in Char, NEW c, c = SubstAt(b, i, from, to)
  PROVE  /\ Good(c, s) /\ c.modified /\ c.recording = b.recording
         /\ c.begv = b.begv /\ c.zv = b.zv
<1>1. /\ b \in Buffers /\ b.text \in Seq(Char) /\ b.begv \in Nat /\ b.zv \in Nat
      /\ b.undo \in Seq(Records) /\ Recordable(b) /\ Len(b.text) \in Nat
      /\ 1 <= b.begv /\ b.begv <= b.zv /\ b.zv <= Len(b.text) + 1
  BY SaneIs DEF Good
<1>2. CASE ~(b.text[i] = from /\ from # to)
  BY <1>2 DEF SubstAt
<1>3. CASE b.text[i] = from /\ from # to
  <2>1. PICK end \in Nat : end = i + 1
    OBVIOUS
  <2>2. 1 <= i /\ i <= end /\ end <= Len(b.text) + 1
    BY <1>1, <2>1
  <2>3. PICK u : u = [b.text EXCEPT ![i] = to]
    OBVIOUS
  <2>4. u \in Seq(Char) /\ Len(u) = Len(b.text)
    BY <1>1, <2>3
  <2>5. PICK d : d = RecordChange(b, i, end)
    OBVIOUS
  <2>6. PICK e : e = [d EXCEPT !.text = u, !.modified = TRUE]
    OBVIOUS
  <2>7. Redone(b, i, end, u, d, e)
    <3>1. \A j \in 1 .. Len(b.text) : j \notin i .. end - 1 => j # i
      BY <2>1
    <3>2. \A j \in 1 .. Len(b.text) : j \notin i .. end - 1 => u[j] = b.text[j]
      BY <1>1, <2>3, <3>1
    <3> QED
      BY <2>2, <2>4, <2>5, <2>6, <3>2 DEF Redone
  <2>8. Clean(b, s)
    BY DEF Clean
  <2>9. /\ Good(e, s) /\ e.modified /\ e.recording = b.recording /\ e.begv = b.begv
        /\ e.zv = b.zv
        /\ d \in Buffers /\ d.text = b.text /\ d.modified = b.modified
    <3>1. Good(e, s) /\ e.modified /\ Alike(b, e) /\ d \in Buffers /\ OnlyUndo(b, d)
      BY <2>7, <2>8, RecordChangeIs
    <3> QED
      BY <3>1 DEF Alike, OnlyUndo
  <2>11. c = [d EXCEPT !.text[i] = to]
    BY <1>3, <2>1, <2>5 DEF SubstAt
  <2>12. c = e
    <3>1. e = [d EXCEPT !.text = u]
      <4>1. d.modified = TRUE
        BY <2>9
      <4> QED
        BY <2>6, <2>9, <4>1 DEF Buffers
    <3>2. c = [d EXCEPT !.text = u]
      BY <2>3, <2>9, <2>11 DEF Buffers
    <3> QED
      BY <3>1, <3>2
  <2> QED
    BY <2>9, <2>12
<1> QED
  BY <1>2, <1>3

LEMMA SubstCharIs ==
  ASSUME NEW b, NEW s, Good(b, s), modtime \in 1 .. MaxTime, NEW beg \in Nat, NEW end \in Nat,
         b.begv <= beg, beg < end, end <= b.zv, NEW from, NEW to \in Char,
         NEW c, c = SubstChar(b, beg, end, from, to)
  PROVE  Good(c, s) /\ c.modified
<1>1. /\ b \in Buffers /\ b.text \in Seq(Char) /\ b.begv \in Nat /\ b.zv \in Nat
      /\ b.undo \in Seq(Records) /\ Recordable(b) /\ Len(b.text) \in Nat
      /\ 1 <= b.begv /\ b.begv <= b.zv /\ b.zv <= Len(b.text) + 1
  BY SaneIs DEF Good
<1>2. PICK n \in Nat : n = end - beg /\ beg + n = end
  OBVIOUS
<1>3. PICK g : g = SubstLooked(b, beg, n, from, to)
  OBVIOUS
<1>4. IsLooked(g, b, beg, n, from, to)
  BY <1>3, SubstLookedIs
<1>5. DEFINE Fine(d) == /\ Good(d, s) /\ d.modified /\ d.begv = b.begv /\ d.zv = b.zv
<1>6. PICK R : R = {k \in 0 .. n : Fine(g[k])}
  OBVIOUS
<1>7. 0 \in R
  <2>1. PICK d : d = [b EXCEPT !.modified = TRUE]
    OBVIOUS
  <2>2. g[0] = d
    BY <1>4, <2>1 DEF IsLooked
  <2>3. /\ d \in Buffers /\ d.text = b.text /\ d.begv = b.begv /\ d.zv = b.zv /\ d.modified = TRUE
        /\ d.recording = b.recording /\ d.undo = b.undo /\ d.start = b.start
    BY <1>1, <2>1 DEF Buffers
  <2>4. Good(d, s)
    BY <2>3 DEF Good, Sane, Recordable
  <2>5. 0 \in 0 .. n
    OBVIOUS
  <2> QED
    BY <1>6, <2>2, <2>3, <2>4, <2>5
<1>8. ASSUME NEW k \in 0 .. n - 1, k \in R PROVE k + 1 \in R
  <2>1. PICK d : d = g[k]
    OBVIOUS
  <2>2. Good(d, s) /\ d.modified /\ d.begv = b.begv /\ d.zv = b.zv
    BY <1>6, <1>8, <2>1
  <2>3. PICK m \in 0 .. n, i \in Nat : m = k + 1 /\ m # 0 /\ m - 1 = k /\ i = beg + k /\ i = beg + m - 1
    <3>1. k + 1 \in 0 .. n /\ k + 1 # 0 /\ (k + 1) - 1 = k /\ beg + k \in Nat /\ beg + k = beg + (k + 1) - 1
      OBVIOUS
    <3> QED
      BY <3>1
  <2>4. PICK e : e = SubstAt(d, i, from, to)
    OBVIOUS
  <2>5. g[m] = e
    BY <1>4, <2>1, <2>3, <2>4 DEF IsLooked
  <2>6. d.begv <= i /\ i < d.zv
    BY <1>1, <1>2, <2>2, <2>3
  <2>7. Good(e, s) /\ e.modified /\ e.begv = d.begv /\ e.zv = d.zv
    BY <2>2, <2>4, <2>6, SubstAtIs
  <2> QED
    BY <1>6, <2>2, <2>3, <2>5, <2>7
<1>9. n \in R
  <2>1. \A k \in 0 .. n : k \in R
    <3> HIDE DEF Fine
    <3> QED
      BY <1>7, <1>8, AllReached
  <2> QED
    BY <2>1
<1>10. c = g[n]
  BY <1>2, <1>3 DEF SubstChar
<1> QED
  BY <1>6, <1>9, <1>10

LEMMA UpcaseRegionIs ==
  ASSUME NEW b, NEW s, Good(b, s), Clean(b, s), modtime \in 1 .. MaxTime, NEW beg \in Nat,
         NEW end \in Nat, b.begv <= beg, beg < end, end <= b.zv,
         NEW c, c = UpcaseRegion(b, beg, end)
  PROVE  Good(c, s) /\ c.modified
<1>1. /\ b \in Buffers /\ b.text \in Seq(Char) /\ b.begv \in Nat /\ b.zv \in Nat
      /\ b.undo \in Seq(Records) /\ Recordable(b) /\ Len(b.text) \in Nat
      /\ 1 <= b.begv /\ b.begv <= b.zv /\ b.zv <= Len(b.text) + 1
  BY SaneIs DEF Good
<1>2. 1 <= beg /\ beg <= end /\ end <= Len(b.text) + 1
  BY <1>1
<1>3. PICK u : u = [i \in DOMAIN b.text |-> IF i \in beg .. end - 1 THEN Upcase[b.text[i]] ELSE b.text[i]]
  OBVIOUS
<1>4. DOMAIN b.text = 1 .. Len(b.text) /\ \A i \in 1 .. Len(b.text) : b.text[i] \in Char
  BY <1>1
<1>5. \A i \in 1 .. Len(b.text) :
        /\ u[i] = IF i \in beg .. end - 1 THEN Upcase[b.text[i]] ELSE b.text[i]
        /\ u[i] \in Char
  BY <1>3, <1>4, UpcaseAssumption
<1>6. DOMAIN u = 1 .. Len(b.text)
  BY <1>3, <1>4
<1>7. u \in [1 .. Len(b.text) -> Char]
  BY <1>3, <1>4, <1>5
<1>8. u \in Seq(Char) /\ Len(u) = Len(b.text)
  BY <1>1, <1>7
<1>9. PICK d : d = RecordChange(b, beg, end)
  OBVIOUS
<1>10. PICK e : e = [d EXCEPT !.text = u, !.modified = TRUE]
  OBVIOUS
<1>11. Redone(b, beg, end, u, d, e)
  BY <1>2, <1>5, <1>8, <1>9, <1>10 DEF Redone
<1>12. Good(e, s) /\ e.modified /\ d \in Buffers /\ OnlyUndo(b, d)
  BY <1>11, RecordChangeIs
<1>13. c = [d EXCEPT !.text = u, !.modified = TRUE]
  BY <1>3, <1>9, <1>12 DEF UpcaseRegion, OnlyUndo
<1> QED
  BY <1>10, <1>12, <1>13

-----------------------------------------------------------------------------
(* Parts of a list.                                                        *)

(* What is below a record other than an insertion, and what is below all.  *)
LEMMA SuffixFits ==
  ASSUME NEW list \in Seq(Records), NEW path, NEW t, NEW m, NEW s, Fits(path, t, list, m, s),
         NEW k \in 0 .. Len(list), k = 0 \/ k = Len(list) \/ list[k].kind # "insert",
         NEW p, p = SubSeq(list, k + 1, Len(list)), NEW u, u = path[k + 1]
  PROVE  \E q : Fits(q, u, p, m, s)
<1>1. Path(path, t, list) /\ (Careful => Meets(path, list, m, s)) /\ Starts(path, list)
  BY DEF Fits
<1>2. /\ p \in Seq(Records) /\ Len(p) = Len(list) - k /\ Len(list) \in Nat
      /\ \A i \in 1 .. Len(p) : p[i] = list[k + i]
  BY Below
<1>3. k \in Nat /\ Len(p) \in Nat /\ Len(list) = Len(p) + k
  BY <1>2
<1>4. PICK q : q = [i \in Nat |-> path[i + k]]
  OBVIOUS
<1>5. \A i \in Nat : q[i] = path[i + k]
  BY <1>4
<1>6. Shift(p, q, k, list, path)
  <2>1. \A i \in 1 .. Len(p) : list[i + k] = p[i]
    <3>1. \A i \in 1 .. Len(p) : i + k = k + i
      BY <1>3
    <3> QED
      BY <1>2, <3>1
  <2>2. \A i \in 1 .. Len(p) + 1 : path[i + k] = q[i]
    <3>1. \A i \in 1 .. Len(p) + 1 : i \in Nat
      BY <1>3
    <3> QED
      BY <1>5, <3>1
  <2> QED
    BY <1>2, <1>3, <2>1, <2>2 DEF Shift
<1>7. /\ \A i \in 1 .. Len(p) : list[i + k] = p[i]
      /\ \A i \in 1 .. Len(p) + 1 : path[i + k] = q[i]
  BY <1>6 DEF Shift
<1>8. Path(q, u, p)
  <2>1. q[1] = u
    <3>1. 1 + k = k + 1
      BY <1>3
    <3> QED
      BY <1>5, <3>1
  <2>2. ASSUME NEW i \in 1 .. Len(p) PROVE Step(q[i], p[i], q[i + 1])
    <3>1. PICK j \in 1 .. Len(list) : j = i + k
      BY <1>3
    <3>2. i \in 1 .. Len(p) + 1 /\ i + 1 \in 1 .. Len(p) + 1 /\ (i + 1) + k = j + 1
      BY <1>3, <3>1
    <3>3. list[j] = p[i] /\ path[j] = q[i] /\ path[j + 1] = q[i + 1]
      BY <1>7, <3>1, <3>2
    <3>4. Step(path[j], list[j], path[j + 1])
      BY <1>1 DEF Path
    <3> QED
      BY <3>3, <3>4
  <2> QED
    BY <2>1, <2>2 DEF Path
<1>9. ASSUME Careful PROVE Meets(q, p, m, s)
  <2>1. ASSUME NEW i \in 1 .. Len(p) PROVE MeetsAt(q, p, m, s, i)
    <3>1. PICK j \in 1 .. Len(list) : j = i + k
      BY <1>3
    <3>2. MeetsAt(path, list, m, s, j)
      BY <1>1, <1>9 DEF Meets
    <3>3. i \in 1 .. Len(p) + 1
      BY <1>3
    <3>4. list[j] = p[i] /\ path[j] = q[i]
      BY <1>7, <3>1, <3>3
    <3>5. ASSUME Twice(list, j) PROVE Twice(p, i)
      <4>1. /\ 1 < j /\ j < Len(list)
            /\ list[j - 1].kind = "insert" /\ list[j + 1].kind = "delete"
            /\ list[j - 1].beg = list[j + 1].beg
        BY <3>5 DEF Twice
      <4>2. i # 1
        <5>1. i = 1 => k # 0 /\ k = j - 1 /\ k # Len(list)
          BY <1>3, <3>1, <4>1
        <5> QED
          BY <4>1, <5>1
      <4>3. PICK h \in 1 .. Len(p) : h = i - 1 /\ h + k = j - 1
        <5>1. i - 1 \in 1 .. Len(p) /\ (i - 1) + k = j - 1
          BY <1>3, <3>1, <4>2
        <5> QED
          BY <5>1
      <4>4. PICK l \in 1 .. Len(p) : l = i + 1 /\ l + k = j + 1
        <5>1. i + 1 \in 1 .. Len(p) /\ (i + 1) + k = j + 1
          BY <1>3, <3>1, <4>1
        <5> QED
          BY <5>1
      <4>5. p[i - 1] = list[j - 1] /\ p[i + 1] = list[j + 1]
        BY <1>7, <4>3, <4>4
      <4>6. 1 < i /\ i < Len(p)
        BY <1>3, <4>3, <4>4
      <4> QED
        BY <4>1, <4>5, <4>6 DEF Twice
    <3> QED
      BY <3>2, <3>4, <3>5 DEF MeetsAt
  <2> QED
    BY <2>1 DEF Meets
<1>10. Starts(q, p)
  <2>1. ASSUME NEW i \in 1 .. Len(p), IsChange(p[i]) PROVE StartsFrom(q, p, i, p[i].start)
    <3>1. PICK j \in 1 .. Len(list) : j = i + k
      BY <1>3
    <3>2. list[j] = p[i] /\ i \in 1 .. Len(p) + 1
      BY <1>3, <1>7, <3>1
    <3>3. StartsFrom(path, list, j, p[i].start)
      BY <1>1, <2>1, <3>2 DEF Starts
    <3>4. PICK start : start = p[i].start
      OBVIOUS
    <3>5. StartsFrom(path, list, i + k, start)
      BY <3>1, <3>3, <3>4
    <3>6. StartsFrom(q, p, i, start) <=> StartsFrom(path, list, i + k, start)
      BY <1>6, <3>2, StartsShift
    <3> QED
      BY <3>4, <3>5, <3>6
  <2> QED
    BY <2>1 DEF Starts
<1> QED
  BY <1>8, <1>9, <1>10 DEF Fits

(* What is above a boundary.                                               *)
LEMMA PrefixStarts ==
  ASSUME NEW list \in Seq(Records), NEW k \in 0 .. Len(list),
         k = Len(list) \/ list[k + 1].kind = "boundary", NEW p, p = SubSeq(list, 1, k),
         NEW path, NEW i \in 1 .. k, NEW start, StartsFrom(path, list, i, start)
  PROVE  StartsFrom(path, p, i, start)
<1>1. p \in Seq(Records) /\ Len(p) = k /\ \A j \in 1 .. k : p[j] = list[j]
  BY Above
<1>2. PICK n \in Nat : n = Len(list)
  OBVIOUS
<1>3. k \in Nat /\ k <= n /\ \A j \in 1 .. k : j \in 1 .. n
  BY <1>2
<1>4. ASSUME NEW e \in i .. k + 1, GroupEnds(p, i, e) PROVE path[e] = start
  <2>1. (\A j \in i .. e - 1 : p[j].kind # "boundary") /\ (e <= k => p[e].kind = "boundary")
    BY <1>1, <1>4 DEF GroupEnds
  <2>2. \A j \in i .. e - 1 : j \in 1 .. k
    BY <1>3
  <2>3. e <= n => list[e].kind = "boundary"
    <3>1. CASE e <= k
      <4>1. e \in 1 .. k
        BY <1>3, <3>1
      <4> QED
        BY <1>1, <2>1, <3>1, <4>1
    <3>2. CASE e = k + 1
      BY <1>2, <1>3, <3>2
    <3>3. e <= k \/ e = k + 1
      <4>1. i \in Int /\ k \in Int
        BY <1>3
      <4> QED
        BY <4>1
    <3> QED
      BY <3>1, <3>2, <3>3
  <2>4. GroupEnds(list, i, e)
    BY <1>1, <1>2, <2>1, <2>2, <2>3 DEF GroupEnds
  <2>5. e \in i .. n + 1
    BY <1>3
  <2> QED
    BY <1>2, <2>4, <2>5 DEF StartsFrom
<1> QED
  BY <1>1, <1>4 DEF StartsFrom

LEMMA PrefixFits ==
  ASSUME NEW list \in Seq(Records), NEW path, NEW t, NEW m, NEW s, Fits(path, t, list, m, s),
         NEW k \in 0 .. Len(list), k = 0 \/ k = Len(list) \/ list[k + 1].kind = "boundary",
         NEW p, p = SubSeq(list, 1, k)
  PROVE  /\ Fits(path, t, p, m, s)
         /\ k = 0 => StartsFrom(path, p, 1, t)
<1>1. Path(path, t, list) /\ (Careful => Meets(path, list, m, s)) /\ Starts(path, list)
  BY DEF Fits
<1>2. p \in Seq(Records) /\ Len(p) = k /\ \A i \in 1 .. k : p[i] = list[i]
  BY Above
<1>3. PICK n \in Nat : n = Len(list)
  OBVIOUS
<1>4. k \in Nat /\ k <= n /\ \A i \in 1 .. k : i \in 1 .. n
  BY <1>3
<1>5. Path(path, t, p)
  BY <1>1, <1>2, <1>3, <1>4 DEF Path
<1>6. ASSUME Careful PROVE Meets(path, p, m, s)
  <2>1. ASSUME NEW i \in 1 .. k PROVE MeetsAt(path, p, m, s, i)
    <3>1. MeetsAt(path, list, m, s, i) /\ p[i] = list[i]
      BY <1>1, <1>2, <1>3, <1>4, <1>6 DEF Meets
    <3>2. ASSUME Twice(list, i) PROVE Twice(p, i)
      <4>1. /\ 1 < i /\ i < n
            /\ list[i - 1].kind = "insert" /\ list[i + 1].kind = "delete"
            /\ list[i - 1].beg = list[i + 1].beg
        BY <1>3, <3>2 DEF Twice
      <4>2. i # k
        BY <1>3, <1>4, <4>1
      <4>3. i - 1 \in 1 .. k /\ i + 1 \in 1 .. k
        BY <1>4, <4>1, <4>2
      <4>4. p[i - 1] = list[i - 1] /\ p[i + 1] = list[i + 1] /\ i < k
        BY <1>2, <4>2, <4>3
      <4> QED
        BY <1>2, <4>1, <4>4 DEF Twice
    <3> QED
      BY <3>1, <3>2 DEF MeetsAt
  <2> QED
    BY <1>2, <2>1 DEF Meets
<1>8. Starts(path, p)
  <2>1. ASSUME NEW i \in 1 .. k, IsChange(p[i]) PROVE StartsFrom(path, p, i, p[i].start)
    <3>1. StartsFrom(path, list, i, p[i].start)
      BY <1>1, <1>2, <1>3, <1>4, <2>1 DEF Starts
    <3>2. k = Len(list) \/ list[k + 1].kind = "boundary"
      BY <1>4
    <3> QED
      BY <3>1, <3>2, PrefixStarts
  <2> QED
    BY <1>2, <2>1 DEF Starts
<1>10. k = 0 => StartsFrom(path, p, 1, t)
  <2>1. ASSUME k = 0, NEW e \in 1 .. Len(p) + 1 PROVE e = 1
    BY <1>2, <2>1
  <2> QED
    BY <1>1, <2>1 DEF StartsFrom, Path
<1> QED
  BY <1>5, <1>6, <1>8, <1>10 DEF Fits

(* The first index of a list with a property.                              *)
LEMMA MinIs ==
  ASSUME NEW T, T \subseteq Nat, T # {}
  PROVE  Min(T) \in T /\ \A i \in T : Min(T) <= i
<1>1. \E x \in T : \A y \in T : x <= y
  BY Least
<1>2. Min(T) = CHOOSE x \in T : \A y \in T : x <= y
  BY DEF Min
<1> QED
  BY <1>1, <1>2

LEMMA GroupSizeIs ==
  ASSUME NEW list \in Seq(Records), NEW n, n = GroupSize(list)
  PROVE  /\ n \in 0 .. Len(list) /\ \A i \in 1 .. n : list[i].kind # "boundary"
         /\ n < Len(list) => list[n + 1].kind = "boundary"
<1>1. PICK T : T = {i \in 1 .. Len(list) : list[i] = Boundary}
  OBVIOUS
<1>2. PICK at : at = IF T # {} THEN Min(T) ELSE 0
  OBVIOUS
<1>3. n = IF at = 0 THEN Len(list) ELSE at - 1
  BY <1>1, <1>2 DEF GroupSize, SelectInSeq
<1>4. \A i \in 1 .. Len(list) : list[i].kind = "boundary" <=> i \in T
  <2>1. \A i \in 1 .. Len(list) : list[i] \in Records
    OBVIOUS
  <2>2. \A i \in 1 .. Len(list) : list[i].kind = "boundary" <=> list[i] = Boundary
    BY <2>1, RecordIs
  <2> QED
    BY <1>1, <2>2
<1>5. CASE T = {}
  BY <1>2, <1>3, <1>4, <1>5
<1>6. CASE T # {}
  <2>1. T \subseteq Nat
    BY <1>1
  <2>2. at \in T /\ \A i \in T : at <= i
    BY <1>2, <1>6, <2>1, MinIs
  <2>3. at \in 1 .. Len(list)
    BY <1>1, <2>2
  <2>4. n = at - 1 /\ n + 1 = at /\ n \in 0 .. Len(list)
    BY <1>3, <2>3
  <2>5. ASSUME NEW i \in 1 .. n PROVE list[i].kind # "boundary"
    <3>1. i \in 1 .. Len(list) /\ ~(at <= i)
      BY <2>3, <2>4
    <3> QED
      BY <1>4, <2>2, <3>1
  <2>6. list[at].kind = "boundary"
    BY <1>4, <2>2, <2>3
  <2> QED
    BY <2>4, <2>5, <2>6
<1> QED
  BY <1>5, <1>6

-----------------------------------------------------------------------------
(* primitive-undo.                                                         *)

IsRun(g, b, list, n) ==
  g = [k \in 0 .. n |-> IF k = 0 THEN [buf |-> b, status |-> "going", done |-> 0]
                        ELSE UndoRecord(g[k - 1], list[k])]

LEMMA RunExists ==
  ASSUME NEW b, NEW list, NEW n \in Nat
  PROVE  \E g : IsRun(g, b, list, n)
<1>1. PICK R : R = {k \in Nat : \E g : IsRun(g, b, list, k)}
  OBVIOUS
<1>2. PICK z : z = [buf |-> b, status |-> "going", done |-> 0]
  OBVIOUS
<1>3. 0 \in R
  <2>1. PICK g : g = [k \in 0 .. 0 |-> z]
    OBVIOUS
  <2>2. g = [k \in 0 .. 0 |-> IF k = 0 THEN z ELSE UndoRecord(g[k - 1], list[k])]
    BY <2>1
  <2>3. IsRun(g, b, list, 0)
    BY <1>2, <2>2 DEF IsRun
  <2> QED
    BY <1>1, <2>3
<1>4. ASSUME NEW k \in 0 .. n - 1, k \in R PROVE k + 1 \in R
  <2>1. PICK g : IsRun(g, b, list, k)
    BY <1>1, <1>4
  <2>2. PICK m \in Nat : m = k + 1 /\ m # 0 /\ m - 1 = k /\ 0 .. m = (0 .. k) \union {m} /\ m \notin 0 .. k
    OBVIOUS
  <2>3. PICK x : x = UndoRecord(g[k], list[m])
    OBVIOUS
  <2>4. PICK h : h = [j \in 0 .. m |-> IF j = m THEN x ELSE g[j]]
    OBVIOUS
  <2>5. DOMAIN h = 0 .. m /\ h[m] = x /\ \A j \in 0 .. k : h[j] = g[j]
    BY <2>2, <2>4
  <2>6. ASSUME NEW j \in 0 .. m PROVE h[j] = IF j = 0 THEN z ELSE UndoRecord(h[j - 1], list[j])
    <3>1. CASE j = m
      <4>1. h[m - 1] = g[k]
        BY <2>2, <2>5
      <4> QED
        BY <2>2, <2>3, <2>5, <3>1, <4>1
    <3>2. CASE j # m
      <4>1. j \in 0 .. k
        BY <2>2, <3>2
      <4>2. g[j] = IF j = 0 THEN z ELSE UndoRecord(g[j - 1], list[j])
        BY <1>2, <2>1, <4>1 DEF IsRun
      <4>3. j # 0 => h[j - 1] = g[j - 1]
        <5>1. j # 0 => j - 1 \in 0 .. k
          BY <4>1
        <5> QED
          BY <2>5, <5>1
      <4> QED
        BY <2>5, <4>1, <4>2, <4>3
    <3> QED
      BY <3>1, <3>2
  <2>7. IsRun(h, b, list, m)
    BY <1>2, <2>4, <2>6 DEF IsRun
  <2> QED
    BY <1>1, <2>2, <2>7
<1>5. n \in R
  <2>1. \A k \in 0 .. n : k \in R
    BY <1>3, <1>4, AllReached
  <2> QED
    BY <2>1
<1> QED
  BY <1>1, <1>5

LEMMA UndoRunsIs ==
  ASSUME NEW b, NEW list, NEW n \in Nat, NEW g, g = UndoRuns(b, list, n)
  PROVE  IsRun(g, b, list, n)
<1>1. g = CHOOSE f : IsRun(f, b, list, n)
  BY DEF UndoRuns, IsRun
<1> QED
  BY <1>1, RunExists

(* Undoing one record.                                                     *)
RunOf(b, status, done) == [buf |-> b, status |-> status, done |-> done]

LEMMA UndoRecordIs ==
  ASSUME NEW b, b \in Buffers, NEW status, NEW done, NEW run, run = RunOf(b, status, done),
         NEW r \in Records, r.kind # "boundary", NEW e, e = UndoRecord(run, r)
  PROVE  /\ status # "going" => e = run
         /\ status = "going" /\ r.kind = "first" =>
              IF Obsolete(r) THEN e = RunOf(b, "stopped", done + 1)
              ELSE e = RunOf([b EXCEPT !.modified = FALSE], "going", done + 1)
         /\ status = "going" /\ r.kind = "insert" =>
              IF r.beg < b.begv \/ r.end > b.zv THEN e = RunOf(b, "error", done)
              ELSE e = RunOf(DeleteRegion(b, r.beg, r.end), "going", done + 1)
         /\ status = "going" /\ r.kind = "delete" =>
              IF r.beg < b.begv \/ r.beg > b.zv THEN e = RunOf(b, "error", done)
              ELSE e = RunOf(Insert(b, r.beg, r.str), "going", done + 1)
<1>1. run.buf = b /\ run.status = status /\ run.done = done
  BY DEF RunOf
<1>2. [run EXCEPT !.done = @ + 1] = RunOf(b, status, done + 1)
  BY DEF RunOf
<1>3. status # "going" => e = run
  BY <1>1 DEF UndoRecord
<1>4. ASSUME status = "going", r.kind = "first"
      PROVE  IF Obsolete(r) THEN e = RunOf(b, "stopped", done + 1)
             ELSE e = RunOf([b EXCEPT !.modified = FALSE], "going", done + 1)
  BY <1>1, <1>4 DEF UndoRecord, RunOf
<1>5. ASSUME status = "going", r.kind = "insert"
      PROVE  IF r.beg < b.begv \/ r.end > b.zv THEN e = RunOf(b, "error", done)
             ELSE e = RunOf(DeleteRegion(b, r.beg, r.end), "going", done + 1)
  BY <1>1, <1>5 DEF UndoRecord, RunOf
<1>6. ASSUME status = "going", r.kind = "delete"
      PROVE  IF r.beg < b.begv \/ r.beg > b.zv THEN e = RunOf(b, "error", done)
             ELSE e = RunOf(Insert(b, r.beg, r.str), "going", done + 1)
  BY <1>1, <1>6 DEF UndoRecord, RunOf
<1> QED
  BY <1>3, <1>4, <1>5, <1>6

(* The list that is undone: path is where it leads back through, when it    *)
(* fits the text.                                                          *)
Runs(list, path, n, s) ==
  /\ list \in Seq(Records) /\ n \in 0 .. Len(list)
  /\ \A i \in 1 .. n : list[i].kind # "boundary"
  /\ n < Len(list) => list[n + 1].kind = "boundary"
  /\ ~BetweenUndos => Path(path, path[1], list)
  /\ Careful => Meets(path, list, modtime, s)

(* The first of two first changes has been undone: the deletion is next.   *)
Midway(b, list, k) ==
  /\ k < Len(list) /\ list[k + 1].kind = "delete" /\ OnDelete(b.undo, list[k + 1].beg)
  /\ b.begv <= list[k + 1].beg /\ list[k + 1].beg <= b.zv
AfterInsert(b, list, k) ==
  k # 0 /\ list[k].kind = "insert" =>
    OnDelete(b.undo, list[k].beg) /\ b.begv <= list[k].beg /\ list[k].beg <= b.zv

Going(b, list, path, k, s) ==
  /\ ~BetweenUndos => b.text = path[k + 1]
  /\ Clean(b, s) \/ Midway(b, list, k)
  /\ AfterInsert(b, list, k)
Stopped(b, list, path, done, k, s) ==
  /\ done \in 1 .. k /\ list[done].kind = "first" /\ Obsolete(list[done])
  /\ ~BetweenUndos => b.text = path[done + 1]
  /\ Clean(b, s)

(* After k records, from buffer b.                                         *)
InRun(b, run, list, path, k, s) ==
  \E c, status, done :
    /\ run = RunOf(c, status, done)
    /\ Good(c, s) /\ c.recording /\ c.start = b.start
    /\ \A old \in Seq(Records) : On(b.undo, old) => On(c.undo, old)
    /\ \/ status = "going" /\ done = k /\ Going(c, list, path, k, s)
       \/ status = "stopped" /\ Stopped(c, list, path, done, k, s)
       \/ status = "error" /\ Clean(c, s)

LEMMA RunStep ==
  ASSUME NEW list, NEW path, NEW n, NEW s, Runs(list, path, n, s), modtime \in 1 .. MaxTime,
         NEW k \in 0 .. n - 1, NEW b, NEW run, InRun(b, run, list, path, k, s),
         NEW e, e = UndoRecord(run, list[k + 1])
  PROVE  InRun(b, e, list, path, k + 1, s)
<1>1. /\ list \in Seq(Records) /\ n \in 0 .. Len(list)
      /\ \A i \in 1 .. n : list[i].kind # "boundary"
      /\ ~BetweenUndos => Path(path, path[1], list)
      /\ Careful => Meets(path, list, modtime, s)
  BY DEF Runs
<1>2. k \in Nat /\ k + 1 \in 1 .. n /\ k + 1 \in 1 .. Len(list) /\ Len(list) \in Nat
  BY <1>1
<1>3. PICK m \in 1 .. Len(list) : m = k + 1 /\ m # 0 /\ m \in Nat
  BY <1>2
<1>4. PICK r \in Records : r = list[m]
  BY <1>1
<1>5. /\ r.kind \in {"first", "insert", "delete"}
      /\ r.kind = "insert" => r.beg \in Nat /\ r.end \in Nat /\ 1 <= r.beg /\ r.beg <= r.end
      /\ r.kind = "delete" => r.beg \in Nat /\ r.str \in Seq(Char)
  <2>1. r.kind # "boundary"
    BY <1>1, <1>2, <1>3, <1>4
  <2> QED
    BY <2>1, RecordIs
<1>6. ~BetweenUndos => Step(path[m], r, path[m + 1])
  BY <1>1, <1>3, <1>4 DEF Path
<1>7. PICK c, status, done :
        /\ run = RunOf(c, status, done)
        /\ Good(c, s) /\ c.recording /\ c.start = b.start
        /\ \A old \in Seq(Records) : On(b.undo, old) => On(c.undo, old)
        /\ \/ status = "going" /\ done = k /\ Going(c, list, path, k, s)
           \/ status = "stopped" /\ Stopped(c, list, path, done, k, s)
           \/ status = "error" /\ Clean(c, s)
  BY DEF InRun
<1>8. /\ c \in Buffers /\ c.begv \in Nat /\ c.zv \in Nat /\ 1 <= c.begv /\ c.begv <= c.zv
      /\ c.undo \in Seq(Records)
  BY <1>7, SaneIs DEF Good
<1>9. /\ status # "going" => e = run
      /\ status = "going" /\ r.kind = "first" =>
           IF Obsolete(r) THEN e = RunOf(c, "stopped", done + 1)
           ELSE e = RunOf([c EXCEPT !.modified = FALSE], "going", done + 1)
      /\ status = "going" /\ r.kind = "insert" =>
           IF r.beg < c.begv \/ r.end > c.zv THEN e = RunOf(c, "error", done)
           ELSE e = RunOf(DeleteRegion(c, r.beg, r.end), "going", done + 1)
      /\ status = "going" /\ r.kind = "delete" =>
           IF r.beg < c.begv \/ r.beg > c.zv THEN e = RunOf(c, "error", done)
           ELSE e = RunOf(Insert(c, r.beg, r.str), "going", done + 1)
  <2>1. e = UndoRecord(run, r) /\ r.kind # "boundary"
    BY <1>3, <1>4, <1>5
  <2> QED
    BY <1>7, <1>8, <2>1, UndoRecordIs
<1>10. CASE status # "going"
  <2>1. e = run
    BY <1>9, <1>10
  <2>2. \A i \in 1 .. k : i \in 1 .. k + 1
    BY <1>2
  <2>3. Stopped(c, list, path, done, k, s) => Stopped(c, list, path, done, k + 1, s)
    BY <2>2 DEF Stopped
  <2> QED
    BY <1>7, <1>10, <2>1, <2>3 DEF InRun
<1>11. CASE status = "going"
  <2>1. /\ done = k /\ (~BetweenUndos => c.text = path[m])
        /\ Clean(c, s) \/ Midway(c, list, k)
        /\ AfterInsert(c, list, k)
    BY <1>3, <1>7, <1>11 DEF Going
  <2>2. Midway(c, list, k) => r.kind = "delete" /\ OnDelete(c.undo, r.beg)
                              /\ c.begv <= r.beg /\ r.beg <= c.zv
    BY <1>3, <1>4 DEF Midway
  <2>3. done + 1 = m
    BY <1>3, <2>1
  <2>4. CASE r.kind = "first"
    <3>1. ~BetweenUndos => path[m + 1] = path[m]
      BY <1>6, <2>4 DEF Step, IsChange
    <3>2. Clean(c, s)
      BY <2>1, <2>2, <2>4
    <3>3. CASE Obsolete(r)
      <4>1. e = RunOf(c, "stopped", m)
        BY <1>9, <1>11, <2>3, <2>4, <3>3
      <4>2. Stopped(c, list, path, m, k + 1, s)
        BY <1>3, <1>4, <2>1, <2>4, <3>1, <3>2, <3>3 DEF Stopped
      <4> QED
        BY <1>7, <4>1, <4>2 DEF InRun
    <3>4. CASE ~Obsolete(r)
      <4>1. PICK d : d = [c EXCEPT !.modified = FALSE]
        OBVIOUS
      <4>2. e = RunOf(d, "going", m)
        BY <1>9, <1>11, <2>3, <2>4, <3>4, <4>1
      <4>3. /\ d \in Buffers /\ d.text = c.text /\ d.begv = c.begv /\ d.zv = c.zv
            /\ d.modified = FALSE /\ d.recording = c.recording /\ d.undo = c.undo
            /\ d.start = c.start
        BY <1>8, <4>1 DEF Buffers
      <4>4. Good(d, s)
        BY <1>7, <4>3 DEF Good, Sane, Recordable
      <4>5. AfterInsert(d, list, m)
        BY <1>4, <2>4 DEF AfterInsert
      <4>6. Clean(d, s) \/ Midway(d, list, m)
        <5>1. ASSUME Careful PROVE d.text = s \/ Midway(d, list, m)
          <6>1. MeetsAt(path, list, modtime, s, m)
            BY <1>1, <5>1 DEF Meets
          <6>2. path[m] = s \/ Twice(list, m)
            BY <1>4, <2>4, <3>4, <6>1 DEF MeetsAt, Obsolete
          <6>3. c.text = path[m]
            BY <2>1, <5>1 DEF Careful
          <6>4. ASSUME Twice(list, m) PROVE Midway(d, list, m)
            <7>1. /\ 1 < m /\ m < Len(list)
                  /\ list[m - 1].kind = "insert" /\ list[m + 1].kind = "delete"
                  /\ list[m - 1].beg = list[m + 1].beg
              BY <6>4 DEF Twice
            <7>2. m - 1 = k /\ k # 0
              BY <1>2, <1>3, <7>1
            <7>3. /\ OnDelete(c.undo, list[k].beg) /\ c.begv <= list[k].beg
                  /\ list[k].beg <= c.zv
              BY <2>1, <7>1, <7>2 DEF AfterInsert
            <7> QED
              BY <4>3, <7>1, <7>2, <7>3 DEF Midway
          <6> QED
            BY <4>3, <6>2, <6>3, <6>4
        <5> QED
          BY <5>1 DEF Clean
      <4>7. Going(d, list, path, k + 1, s)
        BY <1>3, <2>1, <3>1, <4>3, <4>5, <4>6 DEF Going
      <4> QED
        BY <1>3, <1>7, <4>2, <4>3, <4>4, <4>7 DEF InRun
    <3> QED
      BY <3>3, <3>4
  <2>5. CASE r.kind = "insert"
    <3>1. Clean(c, s)
      BY <2>1, <2>2, <2>5
    <3>2. CASE r.beg < c.begv \/ r.end > c.zv
      <4>1. e = RunOf(c, "error", done)
        BY <1>9, <1>11, <2>5, <3>2
      <4> QED
        BY <1>7, <3>1, <4>1 DEF InRun
    <3>3. CASE ~(r.beg < c.begv \/ r.end > c.zv)
      <4>1. PICK d : d = DeleteRegion(c, r.beg, r.end)
        OBVIOUS
      <4>2. e = RunOf(d, "going", m)
        BY <1>9, <1>11, <2>3, <2>5, <3>3, <4>1
      <4>3. PICK beg \in Nat, end \in Nat :
              beg = r.beg /\ end = r.end /\ c.begv <= beg /\ beg <= end /\ end <= c.zv
        BY <1>5, <1>8, <2>5, <3>3
      <4>4. /\ Good(d, s) /\ d.modified /\ d.recording = c.recording /\ d.begv = c.begv
            /\ beg <= d.zv /\ d.text = Spliced(c.text, beg, end, <<>>) /\ d.start = c.start
            /\ c.recording => OnDelete(d.undo, beg)
            /\ \A old \in Seq(Records) : On(c.undo, old) => On(d.undo, old)
        <5>1. Good(c, s) /\ Clean(c, s)
          BY <1>7, <3>1
        <5>2. /\ Good(d, s) /\ d.modified /\ d.recording = c.recording /\ d.begv = c.begv
              /\ beg <= d.zv
          BY <4>1, <4>3, <5>1, DeleteRegionIs
        <5>3. d.text = Spliced(c.text, beg, end, <<>>) /\ d.start = c.start
          BY <4>1, <4>3, <5>1, DeleteRegionIs
        <5>4. c.recording => OnDelete(d.undo, beg)
          BY <4>1, <4>3, <5>1, DeleteRegionIs
        <5>5. \A old \in Seq(Records) : On(c.undo, old) => On(d.undo, old)
          BY <4>1, <4>3, <5>1, DeleteRegionIs
        <5> QED
          BY <5>2, <5>3, <5>4, <5>5
      <4>5. AfterInsert(d, list, m)
        BY <1>4, <1>7, <4>3, <4>4 DEF AfterInsert
      <4>6. ~BetweenUndos => d.text = path[m + 1]
        BY <1>6, <2>1, <2>5, <4>3, <4>4 DEF Step, IsChange, Undone
      <4>7. Going(d, list, path, k + 1, s)
        BY <1>3, <4>4, <4>5, <4>6 DEF Going, Clean
      <4> QED
        BY <1>3, <1>7, <4>2, <4>4, <4>7 DEF InRun
    <3> QED
      BY <3>2, <3>3
  <2>6. CASE r.kind = "delete"
    <3>1. CASE r.beg < c.begv \/ r.beg > c.zv
      <4>1. e = RunOf(c, "error", done)
        BY <1>9, <1>11, <2>6, <3>1
      <4>2. Clean(c, s)
        BY <1>5, <1>8, <2>1, <2>2, <2>6, <3>1
      <4> QED
        BY <1>7, <4>1, <4>2 DEF InRun
    <3>2. CASE ~(r.beg < c.begv \/ r.beg > c.zv)
      <4>1. PICK d : d = Insert(c, r.beg, r.str)
        OBVIOUS
      <4>2. e = RunOf(d, "going", m)
        BY <1>9, <1>11, <2>3, <2>6, <3>2, <4>1
      <4>3. PICK beg \in c.begv .. c.zv, str \in Seq(Char) : beg = r.beg /\ str = r.str
        BY <1>5, <1>8, <2>6, <3>2
      <4>4. Clean(c, s) \/ OnDelete(c.undo, beg)
        BY <2>1, <2>2, <4>3
      <4>5. /\ Good(d, s) /\ d.modified /\ d.recording = c.recording
            /\ d.text = Spliced(c.text, beg, beg, str) /\ d.start = c.start
            /\ \A old \in Seq(Records) : On(c.undo, old) => On(d.undo, old)
        <5>1. Good(c, s)
          BY <1>7
        <5>2. Good(d, s) /\ d.modified /\ d.recording = c.recording
          BY <4>1, <4>3, <4>4, <5>1, InsertIs
        <5>3. d.text = Spliced(c.text, beg, beg, str) /\ d.start = c.start
          BY <4>1, <4>3, <4>4, <5>1, InsertIs
        <5>4. \A old \in Seq(Records) : On(c.undo, old) => On(d.undo, old)
          BY <4>1, <4>3, <4>4, <5>1, InsertIs
        <5> QED
          BY <5>2, <5>3, <5>4
      <4>6. AfterInsert(d, list, m)
        BY <1>4, <2>6 DEF AfterInsert
      <4>7. ~BetweenUndos => d.text = path[m + 1]
        BY <1>6, <2>1, <2>6, <4>3, <4>5 DEF Step, IsChange, Undone
      <4>8. Going(d, list, path, k + 1, s)
        BY <1>3, <4>5, <4>6, <4>7 DEF Going, Clean
      <4> QED
        BY <1>3, <1>7, <4>2, <4>5, <4>8 DEF InRun
    <3> QED
      BY <3>1, <3>2
  <2> QED
    BY <1>5, <2>4, <2>5, <2>6
<1> QED
  BY <1>10, <1>11

(* What is left to undo is below a record other than an insertion.         *)
Leaves(u, list, path) ==
  \E used \in 0 .. Len(list) :
    /\ u.rest = SubSeq(list, used + 1, Len(list))
    /\ used = 0 \/ used = Len(list) \/ list[used].kind # "insert"
    /\ ~BetweenUndos /\ ~u.error => u.buf.text = path[used + 1]

LEMMA PrimitiveUndoIs ==
  ASSUME NEW b, NEW s, Good(b, s), Clean(b, s), b.recording, modtime \in 1 .. MaxTime,
         NEW list \in Seq(Records), NEW path,
         ~BetweenUndos => Fits(path, b.text, list, modtime, s),
         NEW u, u = PrimitiveUndo(b, list)
  PROVE  /\ Good(u.buf, s) /\ Clean(u.buf, s) /\ u.buf.recording
         /\ \A old \in Seq(Records) : On(b.undo, old) => On(u.buf.undo, old)
         /\ u.error \in BOOLEAN
         /\ Leaves(u, list, path)
         /\ ~BetweenUndos /\ ~u.error /\ ~Outdated(list) => u.buf.text = path[GroupSize(list) + 1]
<1>1. PICK n : n = GroupSize(list)
  OBVIOUS
<1>2. /\ n \in 0 .. Len(list) /\ \A i \in 1 .. n : list[i].kind # "boundary"
      /\ n < Len(list) => list[n + 1].kind = "boundary"
  BY <1>1, GroupSizeIs
<1>3. PICK l \in Nat : l = Len(list) /\ n \in Nat /\ n <= l
  BY <1>2
<1>4. ~BetweenUndos => Path(path, path[1], list) /\ path[1] = b.text
  BY DEF Fits, Path
<1>5. Careful => Meets(path, list, modtime, s)
  BY DEF Fits, Careful
<1>6. Runs(list, path, n, s)
  BY <1>2, <1>4, <1>5 DEF Runs
<1>7. PICK g : g = UndoRuns(b, list, n)
  OBVIOUS
<1>8. IsRun(g, b, list, n)
  BY <1>3, <1>7, UndoRunsIs
<1>9. \A k \in 0 .. n : InRun(b, g[k], list, path, k, s)
  <2>1. PICK R : R = {k \in 0 .. n : InRun(b, g[k], list, path, k, s)}
    OBVIOUS
  <2>2. 0 \in R
    <3>1. 0 \in 0 .. n
      BY <1>3
    <3>2. g[0] = RunOf(b, "going", 0)
      BY <1>8, <3>1 DEF IsRun, RunOf
    <3>3. Going(b, list, path, 0, s)
      BY <1>4 DEF Going, AfterInsert
    <3>4. InRun(b, g[0], list, path, 0, s)
      BY <3>2, <3>3 DEF InRun
    <3> QED
      BY <2>1, <3>1, <3>4
  <2>3. ASSUME NEW k \in 0 .. n - 1, k \in R PROVE k + 1 \in R
    <3>1. PICK m \in 0 .. n : m = k + 1 /\ m # 0 /\ m - 1 = k
      BY <1>3
    <3>2. g[m] = UndoRecord(g[k], list[m])
      BY <1>8, <3>1 DEF IsRun
    <3>3. InRun(b, g[k], list, path, k, s)
      BY <2>1, <2>3
    <3>4. InRun(b, g[m], list, path, k + 1, s)
      BY <1>6, <3>1, <3>2, <3>3, RunStep
    <3> QED
      BY <2>1, <3>1, <3>4
  <2>4. \A k \in 0 .. n : k \in R
    BY <1>3, <2>2, <2>3, AllReached
  <2> QED
    BY <2>1, <2>4
<1>10. PICK c, status, done :
         /\ g[n] = RunOf(c, status, done)
         /\ Good(c, s) /\ c.recording /\ c.start = b.start
         /\ \A old \in Seq(Records) : On(b.undo, old) => On(c.undo, old)
         /\ \/ status = "going" /\ done = n /\ Going(c, list, path, n, s)
            \/ status = "stopped" /\ Stopped(c, list, path, done, n, s)
            \/ status = "error" /\ Clean(c, s)
  <2>1. InRun(b, g[n], list, path, n, s)
    BY <1>3, <1>9
  <2> QED
    BY <2>1 DEF InRun
<1>11. g[n].buf = c /\ g[n].status = status /\ g[n].done = done
  BY <1>10 DEF RunOf
<1>12. PICK used : used = IF status = "stopped" THEN done ELSE n + 1
  OBVIOUS
<1>13. /\ u.buf = c /\ (u.error <=> status = "error") /\ u.error \in BOOLEAN
       /\ u.rest = SubSeq(list, used + 1, Len(list))
  BY <1>1, <1>7, <1>11, <1>12 DEF PrimitiveUndo
<1>14. status = "going" => Clean(c, s) /\ (~BetweenUndos => c.text = path[n + 1])
  <2>1. ~Midway(c, list, n)
    BY <1>2 DEF Midway
  <2> QED
    BY <1>10, <2>1 DEF Going
<1>15. Clean(c, s)
  BY <1>10, <1>14 DEF Stopped
<1>16. \E k \in 0 .. Len(list) :
         /\ u.rest = SubSeq(list, k + 1, Len(list))
         /\ k = 0 \/ k = Len(list) \/ list[k].kind # "insert"
         /\ ~BetweenUndos /\ ~u.error => c.text = path[k + 1]
  <2>1. CASE status = "stopped"
    <3>1. done \in 1 .. n /\ list[done].kind = "first" /\ (~BetweenUndos => c.text = path[done + 1])
      BY <1>10, <2>1 DEF Stopped
    <3>2. done \in 0 .. Len(list) /\ used = done
      BY <1>3, <1>12, <2>1, <3>1
    <3> QED
      BY <1>13, <3>1, <3>2
  <2>2. CASE status # "stopped" /\ n < l
    <3>1. used = n + 1 /\ used \in 0 .. Len(list) /\ used \in 1 .. Len(list)
      BY <1>3, <1>12, <2>2
    <3>2. list[used].kind = "boundary"
      BY <1>2, <1>3, <2>2, <3>1
    <3>3. ~BetweenUndos => path[used + 1] = path[used]
      BY <1>4, <3>1, <3>2 DEF Path, Step, IsChange
    <3>4. ~BetweenUndos /\ ~u.error => c.text = path[used + 1]
      BY <1>10, <1>13, <1>14, <2>2, <3>1, <3>3
    <3> QED
      BY <1>13, <3>1, <3>2, <3>4
  <2>3. CASE status # "stopped" /\ n = l
    <3>1. used = l + 1
      BY <1>12, <2>3
    <3>2. SubSeq(list, used + 1, l) = SubSeq(list, l + 1, l)
      <4>1. used + 1 \in Int /\ l + 1 \in Int /\ l \in Int /\ l < used + 1 /\ l < l + 1
        BY <1>3, <3>1
      <4>2. SubSeq(list, used + 1, l) = <<>>
        BY <4>1, SubSeqEmpty
      <4>3. SubSeq(list, l + 1, l) = <<>>
        BY <4>1, SubSeqEmpty
      <4> QED
        BY <4>2, <4>3
    <3>3. ~BetweenUndos /\ ~u.error => c.text = path[l + 1]
      BY <1>10, <1>13, <1>14, <2>3
    <3>4. l \in 0 .. Len(list)
      BY <1>3
    <3> QED
      BY <1>3, <1>13, <3>2, <3>3, <3>4
  <2> QED
    BY <1>3, <2>1, <2>2, <2>3
<1>17. ASSUME ~BetweenUndos, ~u.error, ~Outdated(list) PROVE c.text = path[GroupSize(list) + 1]
  <2>1. status # "stopped"
    <3>1. status = "stopped" => done \in 1 .. n /\ list[done].kind = "first" /\ Obsolete(list[done])
      BY <1>10 DEF Stopped
    <3> QED
      BY <1>1, <1>17, <3>1 DEF Outdated
  <2> QED
    BY <1>1, <1>10, <1>13, <1>14, <1>17, <2>1
<1> QED
  BY <1>10, <1>13, <1>15, <1>16, <1>17 DEF Leaves

-----------------------------------------------------------------------------
(* What the actions do to a good buffer.                                   *)

LEMMA EmptyHolds ==
  ASSUME NEW t, NEW m, NEW s
  PROVE  Holds(t, <<>>, t, m, s)
<1>1. PICK path : path = [i \in Nat |-> t]
  OBVIOUS
<1>2. PICK list : list = <<>>
  OBVIOUS
<1>3. Len(list) = 0
  BY <1>2
<1>4. path[1] = t
  BY <1>1
<1>5. Path(path, t, list)
  BY <1>3, <1>4 DEF Path
<1>6. Meets(path, list, m, s) /\ Starts(path, list)
  BY <1>3 DEF Meets, Starts
<1>7. StartsFrom(path, list, 1, t)
  <2>1. \A e \in 1 .. Len(list) + 1 : e = 1
    BY <1>3
  <2> QED
    BY <1>4, <2>1 DEF StartsFrom
<1> QED
  BY <1>2, <1>5, <1>6, <1>7 DEF Holds, Fits

LEMMA BoundaryIs ==
  ASSUME NEW b, NEW s, Good(b, s), Clean(b, s), NEW c, c = UndoBoundary(b)
  PROVE  /\ Good(c, s) /\ Clean(c, s) /\ c.text = b.text /\ c.start = b.text
         /\ c.modified = b.modified /\ c.recording = b.recording
         /\ \A old \in Seq(Records) : On(b.undo, old) => On(c.undo, old)
         /\ c.undo = <<>> \/ c.undo[1] = Boundary
<1>1. /\ b \in Buffers /\ b.text \in Seq(Char) /\ b.begv \in Nat /\ b.zv \in Nat
      /\ b.modified \in BOOLEAN /\ b.recording \in BOOLEAN /\ b.undo \in Seq(Records)
      /\ Len(b.text) \in Nat /\ 1 <= b.begv /\ b.begv <= b.zv /\ b.zv <= Len(b.text) + 1
      /\ ~b.recording => b.undo = <<>>
  BY SaneIs DEF Good
<1>2. b.recording => Holds(b.text, b.undo, b.start, modtime, s)
  BY DEF Good
<1>3. CASE b.undo = <<>> \/ b.undo[1] = Boundary
  <2>1. c = [b EXCEPT !.start = b.text]
    BY <1>3 DEF UndoBoundary
  <2>2. /\ c \in Buffers /\ c.text = b.text /\ c.begv = b.begv /\ c.zv = b.zv
        /\ c.modified = b.modified /\ c.recording = b.recording
        /\ c.undo = b.undo /\ c.start = b.text
    BY <1>1, <2>1 DEF Buffers
  <2>3. c.recording => Holds(c.text, c.undo, c.start, modtime, s)
    BY <1>1, <1>2, <1>3, <2>2, BoundaryHolds
  <2>4. Sane(c)
    BY <1>1, <2>2 DEF Sane, Recordable
  <2> QED
    BY <1>3, <2>2, <2>3, <2>4 DEF Good, Clean
<1>4. CASE ~(b.undo = <<>> \/ b.undo[1] = Boundary)
  <2>1. PICK p : p = <<Boundary>> \o b.undo
    OBVIOUS
  <2>2. p \in Seq(Records) /\ p[1] = Boundary
    BY <1>1, <2>1, RecordsMade, Pushed
  <2>3. c = [b EXCEPT !.undo = p, !.start = b.text]
    BY <1>1, <1>4, <2>1 DEF UndoBoundary, Push, Buffers
  <2>4. /\ c \in Buffers /\ c.text = b.text /\ c.begv = b.begv /\ c.zv = b.zv
        /\ c.modified = b.modified /\ c.recording = b.recording
        /\ c.undo = p /\ c.start = b.text
    BY <1>1, <2>2, <2>3 DEF Buffers
  <2>5. c.recording => Holds(c.text, c.undo, c.start, modtime, s)
    BY <1>1, <1>2, <2>1, <2>4, BoundaryHolds
  <2>6. b.recording
    BY <1>1, <1>4
  <2>7. Sane(c)
    BY <1>1, <2>4, <2>6 DEF Sane, Recordable
  <2>8. \A old \in Seq(Records) : On(b.undo, old) => On(c.undo, old)
    BY <1>1, <2>1, <2>4, RecordsMade, OnPushed
  <2> QED
    BY <2>2, <2>4, <2>5, <2>7, <2>8 DEF Good, Clean
<1> QED
  BY <1>3, <1>4

(* undo-start: the boundary of the command is skipped.                     *)
LEMMA StartListIs ==
  ASSUME NEW b, b.undo \in Seq(Records), b.undo = <<>> \/ b.undo[1] = Boundary,
         NEW list, list = StartList(b)
  PROVE  /\ list \in Seq(Records) /\ list = SubSeq(b.undo, 2, Len(b.undo))
         /\ b.undo = <<>> => list = <<>>
         /\ b.undo # <<>> => On(b.undo, list) /\ 1 \in 0 .. Len(b.undo)
<1>1. PICK old : old = b.undo /\ old \in Seq(Records) /\ Len(old) \in Nat
  OBVIOUS
<1>2. PICK n : n = GroupSize(old)
  OBVIOUS
<1>3. n = 0
  <2>1. n \in 0 .. Len(old) /\ \A i \in 1 .. n : old[i].kind # "boundary"
    BY <1>1, <1>2, GroupSizeIs
  <2>2. old = <<>> => Len(old) = 0
    BY <1>1
  <2>3. old # <<>> => old[1].kind = "boundary"
    BY <1>1, RecordsMade
  <2>4. n # 0 => 1 \in 1 .. n
    BY <1>1, <2>1
  <2> QED
    BY <1>1, <2>1, <2>2, <2>3, <2>4
<1>4. PICK g : g = UndoRuns(b, old, 0)
  OBVIOUS
<1>5. g[0] = [buf |-> b, status |-> "going", done |-> 0]
  <2>1. IsRun(g, b, old, 0)
    BY <1>4, UndoRunsIs
  <2>2. 0 \in 0 .. 0
    OBVIOUS
  <2> QED
    BY <2>1, <2>2 DEF IsRun
<1>6. list = SubSeq(old, 0 + 1 + 1, Len(old))
  BY <1>1, <1>2, <1>3, <1>4, <1>5 DEF StartList, PrimitiveUndo
<1>7. list = SubSeq(old, 2, Len(old)) /\ list = SubSeq(old, 1 + 1, Len(old))
  BY <1>6
<1>8. CASE old = <<>>
  <2>1. Len(old) = 0
    BY <1>8
  <2>2. list = <<>>
    BY <1>7, <2>1, SubSeqEmpty
  <2> QED
    BY <1>1, <1>7, <1>8, <2>2
<1>9. CASE old # <<>>
  <2>1. 1 \in 0 .. Len(old)
    BY <1>1, <1>9
  <2>2. /\ list \in Seq(Records) /\ Len(list) = Len(old) - 1
        /\ \A i \in 1 .. Len(list) : list[i] = old[1 + i]
    BY <1>1, <1>7, <2>1, Below
  <2>3. Len(list) < Len(old) /\ Len(old) - Len(list) = 1
    BY <1>1, <2>1, <2>2
  <2>4. On(old, list)
    BY <2>2, <2>3 DEF On
  <2> QED
    BY <1>1, <1>7, <1>9, <2>1, <2>2, <2>4
<1> QED
  BY <1>8, <1>9

LEMMA OnSuffix ==
  ASSUME NEW list \in Seq(Records), NEW old \in Seq(Records), On(list, old),
         NEW k \in 0 .. Len(old), NEW p, p = SubSeq(old, k + 1, Len(old))
  PROVE  p \in Seq(Records) /\ On(list, p)
<1>1. /\ p \in Seq(Records) /\ Len(p) = Len(old) - k /\ Len(old) \in Nat
      /\ \A i \in 1 .. Len(p) : p[i] = old[k + i]
  BY Below
<1>2. Len(list) \in Nat
  OBVIOUS
<1>3. /\ Len(old) < Len(list)
      /\ \A i \in 1 .. Len(old) : list[(Len(list) - Len(old)) + i] = old[i]
  BY DEF On
<1>4. Len(p) < Len(list)
  BY <1>1, <1>2, <1>3
<1>5. ASSUME NEW i \in 1 .. Len(p) PROVE list[(Len(list) - Len(p)) + i] = p[i]
  <2>1. PICK j \in 1 .. Len(old) : j = k + i /\ (Len(list) - Len(old)) + j = (Len(list) - Len(p)) + i
    <3>1. PICK lo \in Nat, ll \in Nat, lp \in Nat : lo = Len(old) /\ ll = Len(list) /\ lp = Len(p)
      <4>1. Len(p) \in Nat
        BY <1>1
      <4> QED
        BY <1>1, <1>2, <4>1, Zenon
    <3>2. lp = lo - k /\ k \in 0 .. lo /\ i \in 1 .. lp
      BY <1>1, <3>1
    <3>3. k + i \in 1 .. lo /\ (ll - lo) + (k + i) = (ll - lp) + i
      BY <3>2
    <3> QED
      BY <3>1, <3>3
  <2>2. p[i] = old[j]
    BY <1>1, <2>1
  <2>3. list[(Len(list) - Len(old)) + j] = old[j]
    BY <1>3
  <2> QED
    BY <2>1, <2>2, <2>3
<1> QED
  BY <1>1, <1>4, <1>5 DEF On

(* A greatest member.                                                      *)
LEMMA MaxIs ==
  ASSUME NEW T, T \subseteq Nat, T # {}, NEW n \in Nat, \A x \in T : x <= n
  PROVE  Max(T) \in T
<1>1. PICK D : D = {d \in Nat : \E x \in T : d = n - x}
  OBVIOUS
<1>2. D \subseteq Nat /\ D # {}
  <2>1. PICK x : x \in T
    OBVIOUS
  <2>2. x \in Nat /\ x <= n
    BY <2>1
  <2>3. n - x \in Nat
    BY <2>2
  <2> QED
    BY <1>1, <2>1, <2>3
<1>3. PICK d \in D : \A e \in D : d <= e
  BY <1>2, Least
<1>4. PICK x \in T : d = n - x /\ x \in Nat
  BY <1>1, <1>3
<1>5. ASSUME NEW y \in T PROVE x >= y
  <2>1. y \in Nat /\ n - y \in D
    BY <1>1
  <2>2. d <= n - y
    BY <1>3, <2>1
  <2> QED
    BY <1>4, <2>1, <2>2
<1>6. Max(T) = CHOOSE z \in T : \A y \in T : z >= y
  BY DEF Max
<1> QED
  BY <1>4, <1>5, <1>6

(* The list is cut above a boundary.                                       *)
LEMMA KeptIs ==
  ASSUME NEW list \in Seq(Records), NEW k, k = Kept(list)
  PROVE  k \in 0 .. Len(list) /\ (k # 0 /\ k < Len(list) => list[k + 1].kind = "boundary")
<1>1. PICK bounds : bounds = {i \in DOMAIN list : list[i] = Boundary}
  OBVIOUS
<1>2. bounds \subseteq Nat /\ \A i \in bounds : i \in 1 .. Len(list) /\ list[i].kind = "boundary"
  BY <1>1, RecordsMade
<1>3. PICK over : over = {i \in bounds : SizeAbove(list, i) > MinSize}
  OBVIOUS
<1>4. PICK stop : stop = Min(over)
  OBVIOUS
<1>5. PICK before : before = {i \in bounds : i < stop}
  OBVIOUS
<1>6. PICK small \in BOOLEAN : small <=> SizeAbove(list, stop) <= MaxSize
  OBVIOUS
<1>7. k = IF over = {} THEN Len(list) ELSE IF small THEN stop - 1
          ELSE IF before = {} THEN 0 ELSE Max(before) - 1
  BY <1>1, <1>3, <1>4, <1>5, <1>6 DEF Kept
<1>8. ASSUME NEW i \in bounds, k = i - 1
      PROVE  k \in 0 .. Len(list) /\ list[k + 1].kind = "boundary"
  <2>1. i \in 1 .. Len(list) /\ list[i].kind = "boundary" /\ i = k + 1
    BY <1>2, <1>8
  <2> QED
    BY <1>8, <2>1
<1>9. over # {} => stop \in bounds
  <2>1. over \subseteq Nat /\ over \subseteq bounds
    BY <1>2, <1>3
  <2> QED
    BY <1>4, <2>1, MinIs
<1>10. before # {} => Max(before) \in bounds
  <2>1. before \subseteq Nat /\ before \subseteq bounds
    BY <1>2, <1>5
  <2>2. PICK n \in Nat : n = Len(list)
    OBVIOUS
  <2>3. \A x \in before : x <= n
    BY <1>2, <2>1, <2>2
  <2> QED
    BY <2>1, <2>2, <2>3, MaxIs
<1> QED
  BY <1>7, <1>8, <1>9, <1>10

-----------------------------------------------------------------------------
(* The inductive invariant: the records lead back from the text, and, while *)
(* undo is repeated and no output comes between, so do those pending, which *)
(* are below those that undoing has added.                                  *)

InvOf(b, m, s, ch) ==
  /\ m \in 1 .. MaxTime /\ s \in Text
  /\ Sane(b) /\ Len(b.text) <= MaxText
  /\ b.recording => Holds(b.text, b.undo, b.start, m, s)
  /\ Clean(b, s)
  /\ ch \in [on : BOOLEAN, pending : Seq(Records), shared : BOOLEAN]
  /\ ~BetweenUndos /\ ch.on => \E path : Fits(path, b.text, ch.pending, m, s)
  /\ ch.shared => On(b.undo, ch.pending)

Inv == InvOf(buf, modtime, saved, chain)

LEMMA InvIs ==
  ASSUME Inv
  PROVE  /\ modtime \in 1 .. MaxTime /\ saved \in Text
         /\ Good(buf, saved) /\ Clean(buf, saved) /\ Len(buf.text) <= MaxText
         /\ chain \in [on : BOOLEAN, pending : Seq(Records), shared : BOOLEAN]
         /\ chain.on \in BOOLEAN /\ chain.pending \in Seq(Records) /\ chain.shared \in BOOLEAN
         /\ ~BetweenUndos /\ chain.on =>
              \E path : Fits(path, buf.text, chain.pending, modtime, saved)
         /\ chain.shared => On(buf.undo, chain.pending)
BY DEF Inv, InvOf, Good

LEMMA TextIs ==
  /\ \A t : t \in Text <=> t \in Seq(Char) /\ Len(t) <= MaxText
<1>1. MaxText \in Nat
  BY BoundsAssumption
<1>2. ASSUME NEW t \in Text PROVE t \in Seq(Char) /\ Len(t) <= MaxText
  <2>1. PICK n \in 0 .. MaxText : t \in [1 .. n -> Char]
    BY DEF Text
  <2>2. n \in Nat /\ n <= MaxText
    BY <1>1, <2>1
  <2>3. t \in Seq(Char) /\ Len(t) = n
    BY <2>1, <2>2
  <2> QED
    BY <2>2, <2>3
<1>3. ASSUME NEW t \in Seq(Char), Len(t) <= MaxText PROVE t \in Text
  <2>1. PICK n \in Nat : n = Len(t)
    OBVIOUS
  <2>2. n \in 0 .. MaxText /\ t \in [1 .. n -> Char]
    BY <1>1, <1>3, <2>1
  <2> QED
    BY <2>2 DEF Text
<1> QED
  BY <1>2, <1>3

(* A buffer as it should be, with nothing pending.                         *)
LEMMA EditKeeps ==
  ASSUME Inv, NEW c, Good(c, saved), Clean(c, saved), Edit(c)
  PROVE  Inv'
<1>1. /\ buf' = c /\ Len(c.text) <= MaxText /\ modtime' = modtime /\ saved' = saved
      /\ chain' = Unchained
  BY DEF Edit, Become, AfterCommand
<1>2. modtime \in 1 .. MaxTime /\ saved \in Text
  BY InvIs
<1>3. /\ Unchained \in [on : BOOLEAN, pending : Seq(Records), shared : BOOLEAN]
      /\ ~Unchained.on /\ ~Unchained.shared
  BY DEF Unchained
<1>4. InvOf(c, modtime, saved, Unchained)
  BY <1>1, <1>2, <1>3 DEF InvOf, Good
<1> QED
  BY <1>1, <1>4 DEF Inv

LEMMA CurrentIs ==
  ASSUME Inv, NEW b \in Current
  PROVE  /\ Good(b, saved) /\ Clean(b, saved) /\ modtime \in 1 .. MaxTime
         /\ b.begv \in Nat /\ b.zv \in Nat /\ 1 <= b.begv /\ b.begv <= b.zv
<1>1. modtime \in 1 .. MaxTime /\ Good(buf, saved) /\ Clean(buf, saved)
  BY InvIs
<1>2. b = buf \/ b = UndoBoundary(buf)
  BY DEF Current
<1>3. Good(b, saved) /\ Clean(b, saved)
  BY <1>1, <1>2, BoundaryIs
<1> QED
  BY <1>1, <1>3, SaneIs DEF Good

LEMMA TypeCharKeeps == ASSUME Inv, TypeChar PROVE Inv'
<1>1. PICK b, c, p :
        b \in Current /\ c \in Char /\ p \in Visible(b) /\ Edit(Insert(b, p, <<c>>))
  BY DEF TypeChar
<1>2. Good(b, saved) /\ Clean(b, saved) /\ modtime \in 1 .. MaxTime
  BY <1>1, CurrentIs
<1>3. p \in b.begv .. b.zv /\ <<c>> \in Seq(Char)
  BY <1>1 DEF Visible
<1>4. PICK d : d = Insert(b, p, <<c>>)
  OBVIOUS
<1>5. Good(d, saved) /\ d.modified
  BY <1>2, <1>3, <1>4, InsertIs
<1> QED
  BY <1>1, <1>4, <1>5, EditKeeps DEF Clean

LEMMA ReadFileKeeps == ASSUME Inv, ReadFile PROVE Inv'
<1>1. PICK b, c, p :
        b \in Current /\ c \in Char /\ p \in Visible(b) /\ Edit(InsertFileContents(b, p, <<c>>))
  BY DEF ReadFile
<1>2. Good(b, saved) /\ modtime \in 1 .. MaxTime
  BY <1>1, CurrentIs
<1>3. p \in b.begv .. b.zv /\ <<c>> \in Seq(Char)
  BY <1>1 DEF Visible
<1>4. PICK a : a = [b EXCEPT !.modified = TRUE]
  OBVIOUS
<1>5. Good(a, saved) /\ Clean(a, saved) /\ a.begv = b.begv /\ a.zv = b.zv
  <2>1. b \in Buffers /\ Sane(b)
    BY <1>2 DEF Good, Sane, Recordable
  <2>2. /\ a \in Buffers /\ a.text = b.text /\ a.begv = b.begv /\ a.zv = b.zv /\ a.modified
        /\ a.recording = b.recording /\ a.undo = b.undo /\ a.start = b.start
    BY <1>4, <2>1 DEF Buffers
  <2> QED
    BY <1>2, <2>1, <2>2 DEF Good, Sane, Recordable, Clean
<1>6. PICK d : d = Insert(a, p, <<c>>)
  OBVIOUS
<1>7. p \in a.begv .. a.zv
  BY <1>3, <1>5
<1>8. Good(d, saved) /\ d.modified
  BY <1>2, <1>3, <1>5, <1>6, <1>7, InsertIs
<1>9. Edit(d)
  BY <1>1, <1>4, <1>6 DEF InsertFileContents
<1> QED
  BY <1>8, <1>9, EditKeeps DEF Clean

LEMMA RegionOf ==
  ASSUME Inv, NEW b \in Current, NEW r \in Region(b)
  PROVE  \E beg \in Nat, end \in Nat :
           r[1] = beg /\ r[2] = end /\ b.begv <= beg /\ beg < end /\ end <= b.zv
<1>1. b.begv \in Nat /\ b.zv \in Nat
  BY CurrentIs
<1>2. r \in (b.begv .. b.zv) \X (b.begv .. b.zv) /\ r[1] < r[2]
  BY DEF Region, Visible
<1> QED
  BY <1>1, <1>2

LEMMA DeleteKeeps == ASSUME Inv, Delete PROVE Inv'
<1>1. PICK b, r : b \in Current /\ r \in Region(b) /\ Edit(DeleteRegion(b, r[1], r[2]))
  BY DEF Delete
<1>2. Good(b, saved) /\ Clean(b, saved) /\ modtime \in 1 .. MaxTime
  BY <1>1, CurrentIs
<1>3. PICK beg \in Nat, end \in Nat :
        r[1] = beg /\ r[2] = end /\ b.begv <= beg /\ beg < end /\ end <= b.zv
  BY <1>1, RegionOf
<1>4. PICK d : d = DeleteRegion(b, beg, end)
  OBVIOUS
<1>5. Good(d, saved) /\ d.modified
  BY <1>2, <1>3, <1>4, DeleteRegionIs
<1> QED
  BY <1>1, <1>3, <1>4, <1>5, EditKeeps DEF Clean

LEMMA CapitalsKeeps == ASSUME Inv, Capitals PROVE Inv'
<1>1. PICK b, r : b \in Current /\ r \in Region(b) /\ Edit(UpcaseRegion(b, r[1], r[2]))
  BY DEF Capitals
<1>2. Good(b, saved) /\ Clean(b, saved) /\ modtime \in 1 .. MaxTime
  BY <1>1, CurrentIs
<1>3. PICK beg \in Nat, end \in Nat :
        r[1] = beg /\ r[2] = end /\ b.begv <= beg /\ beg < end /\ end <= b.zv
  BY <1>1, RegionOf
<1>4. PICK d : d = UpcaseRegion(b, beg, end)
  OBVIOUS
<1>5. Good(d, saved) /\ d.modified
  BY <1>2, <1>3, <1>4, UpcaseRegionIs
<1> QED
  BY <1>1, <1>3, <1>4, <1>5, EditKeeps DEF Clean

LEMMA SubstKeeps == ASSUME Inv, Subst PROVE Inv'
<1>1. PICK b, from, to, r :
        /\ b \in Current /\ from \in Char /\ to \in Char /\ r \in Region(b)
        /\ Edit(SubstChar(b, r[1], r[2], from, to))
  BY DEF Subst
<1>2. Good(b, saved) /\ modtime \in 1 .. MaxTime
  BY <1>1, CurrentIs
<1>3. PICK beg \in Nat, end \in Nat :
        r[1] = beg /\ r[2] = end /\ b.begv <= beg /\ beg < end /\ end <= b.zv
  BY <1>1, RegionOf
<1>4. PICK d : d = SubstChar(b, beg, end, from, to)
  OBVIOUS
<1>5. Good(d, saved) /\ d.modified
  BY <1>1, <1>2, <1>3, <1>4, SubstCharIs
<1> QED
  BY <1>1, <1>3, <1>4, <1>5, EditKeeps DEF Clean

LEMMA NarrowKeeps == ASSUME Inv, Narrow PROVE Inv'
<1>1. PICK b : b = UndoBoundary(buf)
  OBVIOUS
<1>2. Good(b, saved) /\ Clean(b, saved)
  BY <1>1, InvIs, BoundaryIs
<1>3. PICK x \in 1 .. Len(b.text) + 1, y \in 1 .. Len(b.text) + 1 :
        x <= y /\ Edit([b EXCEPT !.begv = x, !.zv = y])
  BY <1>1 DEF Narrow
<1>4. b \in Buffers /\ Sane(b) /\ Len(b.text) \in Nat
  BY <1>2, SaneIs DEF Good
<1>5. PICK d : d = [b EXCEPT !.begv = x, !.zv = y]
  OBVIOUS
<1>6. x \in Nat /\ y \in Nat /\ 1 <= x /\ x <= y /\ y <= Len(b.text) + 1
  BY <1>3, <1>4
<1>7. /\ d \in Buffers /\ d.text = b.text /\ d.begv = x /\ d.zv = y /\ d.modified = b.modified
      /\ d.recording = b.recording /\ d.undo = b.undo /\ d.start = b.start
  BY <1>4, <1>5, <1>6 DEF Buffers
<1>8. Good(d, saved) /\ Clean(d, saved)
  BY <1>2, <1>4, <1>6, <1>7 DEF Good, Sane, Recordable, Clean
<1> QED
  BY <1>3, <1>5, <1>8, EditKeeps

LEMMA BufferFlushUndoKeeps == ASSUME Inv, BufferFlushUndo PROVE Inv'
<1>1. PICK b : b = UndoBoundary(buf)
  OBVIOUS
<1>2. Good(b, saved) /\ Clean(b, saved)
  BY <1>1, InvIs, BoundaryIs
<1>3. PICK d : d = [b EXCEPT !.recording = FALSE, !.undo = <<>>]
  OBVIOUS
<1>4. b \in Buffers /\ Sane(b)
  BY <1>2, SaneIs DEF Good
<1>5. /\ d \in Buffers /\ d.text = b.text /\ d.begv = b.begv /\ d.zv = b.zv
      /\ d.modified = b.modified /\ d.recording = FALSE /\ d.undo = <<>>
  <2>0. <<>> \in Seq(Records)
    OBVIOUS
  <2>1. PICK none : none = <<>> /\ none \in Seq(Records)
    BY <2>0, Zenon
  <2>2. d = [b EXCEPT !.recording = FALSE, !.undo = none]
    BY <1>3, <2>1
  <2> QED
    BY <1>4, <2>1, <2>2 DEF Buffers
<1>6. Good(d, saved) /\ Clean(d, saved)
  BY <1>2, <1>4, <1>5 DEF Good, Sane, Recordable, Clean
<1>7. Edit(d)
  BY <1>1, <1>3 DEF BufferFlushUndo
<1> QED
  BY <1>6, <1>7, EditKeeps

LEMMA BufferEnableUndoKeeps == ASSUME Inv, BufferEnableUndo PROVE Inv'
<1>1. PICK b : b = UndoBoundary(buf)
  OBVIOUS
<1>2. Good(b, saved) /\ Clean(b, saved) /\ b.start = b.text /\ b.recording = buf.recording
  BY <1>1, InvIs, BoundaryIs
<1>3. PICK d : d = [b EXCEPT !.recording = TRUE]
  OBVIOUS
<1>4. b \in Buffers /\ Sane(b) /\ b.undo = <<>>
  BY <1>2, SaneIs DEF Good, BufferEnableUndo
<1>5. /\ d \in Buffers /\ d.text = b.text /\ d.begv = b.begv /\ d.zv = b.zv
      /\ d.modified = b.modified /\ d.recording = TRUE /\ d.undo = <<>> /\ d.start = b.text
  BY <1>2, <1>3, <1>4 DEF Buffers
<1>6. Holds(d.text, d.undo, d.start, modtime, saved)
  BY <1>5, EmptyHolds
<1>7. Good(d, saved) /\ Clean(d, saved)
  BY <1>2, <1>4, <1>5, <1>6 DEF Good, Sane, Recordable, Clean
<1>8. Edit(d)
  BY <1>1, <1>3 DEF BufferEnableUndo
<1> QED
  BY <1>7, <1>8, EditKeeps

LEMMA ProcessOutputKeeps == ASSUME Inv, ProcessOutput PROVE Inv'
<1>1. PICK c \in Char, p \in Visible(buf) : Become(Insert(buf, p, <<c>>))
  BY DEF ProcessOutput
<1>2. (chain.on => BetweenUndos) /\ modtime' = modtime /\ saved' = saved /\ chain' = chain
  BY DEF ProcessOutput
<1>3. /\ modtime \in 1 .. MaxTime /\ saved \in Text /\ Good(buf, saved) /\ Clean(buf, saved)
      /\ chain \in [on : BOOLEAN, pending : Seq(Records), shared : BOOLEAN]
      /\ chain.pending \in Seq(Records) /\ chain.shared => On(buf.undo, chain.pending)
  BY InvIs
<1>4. p \in buf.begv .. buf.zv /\ <<c>> \in Seq(Char)
  BY DEF Visible
<1>5. PICK d : d = Insert(buf, p, <<c>>)
  OBVIOUS
<1>6. /\ Good(d, saved) /\ d.modified
      /\ \A old \in Seq(Records) : On(buf.undo, old) => On(d.undo, old)
  BY <1>3, <1>4, <1>5, InsertIs
<1>7. buf' = d /\ Len(d.text) <= MaxText
  BY <1>1, <1>5 DEF Become
<1>8. chain.shared => On(d.undo, chain.pending)
  BY <1>3, <1>6
<1>9. InvOf(d, modtime, saved, chain)
  BY <1>2, <1>3, <1>6, <1>7, <1>8 DEF InvOf, Good, Clean
<1> QED
  BY <1>2, <1>7, <1>9 DEF Inv

(* A save tells the first changes before it apart, in another second.      *)
LEMMA SaveHolds ==
  ASSUME NEW list \in Seq(Records), NEW t, NEW start, NEW m \in Nat, NEW s,
         Holds(t, list, start, m, s), NEW n \in Nat, Careful => m < n, NEW v
  PROVE  Holds(t, list, start, n, v)
<1>1. PICK path : Fits(path, t, list, m, s) /\ StartsFrom(path, list, 1, start)
  BY DEF Holds
<1>2. ASSUME Careful, NEW i \in 1 .. Len(list) PROVE MeetsAt(path, list, n, v, i)
  <2>1. MeetsAt(path, list, m, s, i)
    BY <1>1, <1>2 DEF Fits, Meets
  <2>2. list[i].kind = "first" => list[i].time \in 1 .. MaxTime
    <3>1. list[i] \in Records
      OBVIOUS
    <3> QED
      BY <3>1, RecordIs
  <2>3. list[i].kind = "first" => list[i].time <= n /\ list[i].time # n
    <3>1. list[i].kind = "first" => list[i].time \in Nat /\ list[i].time <= m
      BY <2>1, <2>2, BoundsAssumption DEF MeetsAt
    <3> QED
      BY <1>2, <3>1
  <2> QED
    BY <2>3 DEF MeetsAt
<1>3. Fits(path, t, list, n, v)
  BY <1>1, <1>2 DEF Fits, Meets
<1> QED
  BY <1>1, <1>3 DEF Holds

LEMMA SaveBufferKeeps == ASSUME Inv, SaveBuffer PROVE Inv'
<1>1. PICK b : b = UndoBoundary(buf)
  OBVIOUS
<1>2. /\ modtime \in 1 .. MaxTime /\ modtime \in Nat /\ saved \in Text /\ MaxTime \in Nat
      /\ Good(buf, saved) /\ Clean(buf, saved) /\ Len(buf.text) <= MaxText
  BY InvIs, BoundsAssumption
<1>3. Good(b, saved) /\ b.text = buf.text
  BY <1>1, <1>2, BoundaryIs
<1>4. PICK d : d = [b EXCEPT !.modified = FALSE]
  OBVIOUS
<1>5. b \in Buffers /\ Sane(b) /\ b.text \in Seq(Char) /\ b.undo \in Seq(Records)
  BY <1>3, SaneIs DEF Good
<1>6. /\ d \in Buffers /\ d.text = b.text /\ d.begv = b.begv /\ d.zv = b.zv /\ ~d.modified
      /\ d.recording = b.recording /\ d.undo = b.undo /\ d.start = b.start
  BY <1>4, <1>5 DEF Buffers
<1>7. Sane(d)
  BY <1>5, <1>6 DEF Sane, Recordable
<1>8. /\ buf' = d /\ saved' = buf.text /\ modtime' <= MaxTime /\ chain' = Unchained
      /\ modtime' = modtime + 1 \/ (SameSecond /\ modtime' = modtime)
  BY <1>1, <1>4 DEF SaveBuffer, Become, AfterCommand
<1>9. PICK n \in Nat : n = modtime'
  BY <1>2, <1>8
<1>10. n \in 1 .. MaxTime /\ (Careful => modtime < n)
  BY <1>2, <1>8, <1>9 DEF Careful
<1>11. b.recording => Holds(b.text, b.undo, b.start, n, buf.text)
  BY <1>2, <1>3, <1>5, <1>10, SaveHolds DEF Good
<1>12. buf.text \in Text
  BY <1>2, <1>3, <1>5, TextIs
<1>13. /\ Unchained \in [on : BOOLEAN, pending : Seq(Records), shared : BOOLEAN]
       /\ ~Unchained.on /\ ~Unchained.shared
  BY DEF Unchained
<1>14. Clean(d, buf.text)
  BY <1>3, <1>6 DEF Clean
<1>15. InvOf(d, n, buf.text, Unchained)
  BY <1>2, <1>3, <1>6, <1>7, <1>10, <1>11, <1>12, <1>13, <1>14 DEF InvOf
<1> QED
  BY <1>8, <1>9, <1>15 DEF Inv

(* What an undo command starts from.                                       *)
LEMMA UndoingIs ==
  ASSUME Inv, buf.recording, NEW b, b = UndoBoundary(buf), NEW list, list = Undoing,
         list # <<>>
  PROVE  /\ list \in Seq(Records)
         /\ ~chain.on \/ chain.shared => On(b.undo, list)
         /\ \E path : ~BetweenUndos => Fits(path, b.text, list, modtime, saved)
<1>1. /\ Good(buf, saved) /\ Clean(buf, saved) /\ chain.on \in BOOLEAN
      /\ chain.pending \in Seq(Records) /\ chain.shared \in BOOLEAN
      /\ ~BetweenUndos /\ chain.on =>
           \E path : Fits(path, buf.text, chain.pending, modtime, saved)
      /\ chain.shared => On(buf.undo, chain.pending)
  BY InvIs
<1>2. /\ Good(b, saved) /\ b.text = buf.text /\ b.recording
      /\ \A old \in Seq(Records) : On(buf.undo, old) => On(b.undo, old)
      /\ b.undo = <<>> \/ b.undo[1] = Boundary
  BY <1>1, BoundaryIs
<1>3. CASE chain.on
  <2>1. list = chain.pending
    BY <1>3 DEF Undoing
  <2>2. chain.shared => On(b.undo, list)
    BY <1>1, <1>2, <2>1
  <2>3. \E path : ~BetweenUndos => Fits(path, b.text, list, modtime, saved)
    BY <1>1, <1>2, <1>3, <2>1
  <2> QED
    BY <1>1, <1>3, <2>1, <2>2, <2>3
<1>4. CASE ~chain.on
  <2>1. PICK old : old = b.undo /\ old \in Seq(Records) /\ Len(old) \in Nat
    BY <1>2, SaneIs DEF Good
  <2>2. list = StartList(b)
    BY <1>4 DEF Undoing
  <2>3. /\ list \in Seq(Records) /\ list = SubSeq(old, 2, Len(old))
        /\ old = <<>> => list = <<>>
        /\ old # <<>> => On(old, list) /\ 1 \in 0 .. Len(old)
    BY <1>2, <2>1, <2>2, StartListIs
  <2>4. old # <<>> /\ 1 \in 0 .. Len(old) /\ On(old, list)
    BY <2>3
  <2>5. Holds(b.text, old, b.start, modtime, saved)
    BY <1>2, <2>1 DEF Good
  <2>6. PICK path : Fits(path, b.text, old, modtime, saved)
    BY <2>5 DEF Holds
  <2>7. old[1].kind = "boundary"
    BY <1>2, <2>1, <2>4, RecordsMade
  <2>8. PICK u : u = path[1 + 1] /\ u = b.text
    <3>1. Path(path, b.text, old) /\ 1 \in 1 .. Len(old)
      BY <2>1, <2>4, <2>6 DEF Fits
    <3> QED
      BY <2>7, <3>1 DEF Path, Step, IsChange
  <2>9. list = SubSeq(old, 1 + 1, Len(old))
    BY <2>3
  <2>10. \E q : Fits(q, u, list, modtime, saved)
    BY <2>1, <2>4, <2>6, <2>7, <2>8, <2>9, SuffixFits
  <2> QED
    BY <2>1, <2>3, <2>4, <2>8, <2>10
<1> QED
  BY <1>1, <1>3, <1>4

LEMMA UndoCommandKeeps == ASSUME Inv, UndoCommand PROVE Inv'
<1>1. PICK b : b = UndoBoundary(buf)
  OBVIOUS
<1>2. PICK list : list = Undoing
  OBVIOUS
<1>3. PICK u : u = PrimitiveUndo(b, list)
  OBVIOUS
<1>4. PICK started \in BOOLEAN : started <=> ~chain.on \/ chain.shared
  OBVIOUS
<1>5. /\ buf.recording /\ modtime' = modtime /\ saved' = saved
      /\ IF list = <<>> THEN Become(b) /\ chain' = Unchained
         ELSE /\ Become(u.buf)
              /\ chain' = IF u.error THEN Unchained
                          ELSE [on |-> TRUE, pending |-> u.rest, shared |-> started]
  <2>1. chain.on \in BOOLEAN /\ chain.shared \in BOOLEAN
    BY InvIs
  <2>2. started = (~chain.on \/ chain.shared)
    BY <1>4, <2>1
  <2> QED
    BY <1>1, <1>2, <1>3, <2>2 DEF UndoCommand, Undoing
<1>6. /\ modtime \in 1 .. MaxTime /\ saved \in Text
      /\ Good(buf, saved) /\ Clean(buf, saved)
  BY InvIs
<1>7. Good(b, saved) /\ Clean(b, saved) /\ b.recording
  BY <1>1, <1>5, <1>6, BoundaryIs
<1>8. CASE list = <<>>
  <2>1. Edit(b)
    BY <1>5, <1>8 DEF Edit, AfterCommand
  <2> QED
    BY <1>7, <2>1, EditKeeps
<1>9. CASE list # <<>>
  <2>1. /\ list \in Seq(Records) /\ (started => On(b.undo, list))
        /\ \E path : ~BetweenUndos => Fits(path, b.text, list, modtime, saved)
    BY <1>1, <1>2, <1>4, <1>5, <1>9, UndoingIs
  <2>2. PICK path : ~BetweenUndos => Fits(path, b.text, list, modtime, saved)
    BY <2>1
  <2>3. /\ Good(u.buf, saved) /\ Clean(u.buf, saved)
        /\ \A old \in Seq(Records) : On(b.undo, old) => On(u.buf.undo, old)
        /\ Leaves(u, list, path)
    <3>1. list \in Seq(Records) /\ modtime \in 1 .. MaxTime
      BY <1>6, <2>1
    <3>2. Good(u.buf, saved) /\ Clean(u.buf, saved)
      BY <1>3, <1>7, <2>2, <3>1, PrimitiveUndoIs
    <3>3. \A old \in Seq(Records) : On(b.undo, old) => On(u.buf.undo, old)
      BY <1>3, <1>7, <2>2, <3>1, PrimitiveUndoIs
    <3>4. Leaves(u, list, path)
      BY <1>3, <1>7, <2>2, <3>1, PrimitiveUndoIs
    <3> QED
      BY <3>2, <3>3, <3>4
  <2>4. CASE u.error
    <3>1. Edit(u.buf)
      BY <1>5, <1>9, <2>4 DEF Edit, AfterCommand
    <3> QED
      BY <2>3, <3>1, EditKeeps
  <2>5. CASE ~u.error
    <3>1. PICK used \in 0 .. Len(list) :
            /\ u.rest = SubSeq(list, used + 1, Len(list))
            /\ used = 0 \/ used = Len(list) \/ list[used].kind # "insert"
            /\ ~BetweenUndos => u.buf.text = path[used + 1]
      BY <2>3, <2>5 DEF Leaves
    <3>2. PICK rest : rest = u.rest
      OBVIOUS
    <3>3. PICK c : c = u.buf
      OBVIOUS
    <3>4. rest \in Seq(Records)
      BY <2>1, <3>1, <3>2, Below
    <3>5. started => On(c.undo, rest)
      <4>1. c.undo \in Seq(Records)
        BY <2>3, <3>3, SaneIs DEF Good
      <4>2. started => On(c.undo, list)
        BY <2>1, <2>3, <3>3
      <4> QED
        BY <2>1, <3>1, <3>2, <4>1, <4>2, OnSuffix
    <3>6. ~BetweenUndos => \E q : Fits(q, c.text, rest, modtime, saved)
      <4>1. PICK v : v = path[used + 1]
        OBVIOUS
      <4>2. ~BetweenUndos => \E q : Fits(q, v, rest, modtime, saved)
        BY <2>1, <2>2, <3>1, <3>2, <4>1, SuffixFits
      <4> QED
        BY <3>1, <3>3, <4>1, <4>2
    <3>7. PICK ch : ch = [on |-> TRUE, pending |-> rest, shared |-> started]
      OBVIOUS
    <3>8. /\ ch \in [on : BOOLEAN, pending : Seq(Records), shared : BOOLEAN]
          /\ ch.pending = rest /\ ch.shared = started
      BY <3>4, <3>7
    <3>9. buf' = c /\ Len(c.text) <= MaxText /\ chain' = ch
      BY <1>5, <1>9, <2>5, <3>2, <3>3, <3>7 DEF Become
    <3>10. InvOf(c, modtime, saved, ch)
      BY <1>6, <2>3, <3>3, <3>5, <3>6, <3>8, <3>9 DEF InvOf, Good
    <3> QED
      BY <1>5, <3>9, <3>10 DEF Inv
  <2> QED
    BY <2>4, <2>5
<1> QED
  BY <1>8, <1>9

LEMMA CollectGarbageKeeps == ASSUME Inv, CollectGarbage PROVE Inv'
<1>1. PICK list : list = buf.undo
  OBVIOUS
<1>2. PICK kept : kept = Kept(list)
  OBVIOUS
<1>3. PICK old : old = chain.pending
  OBVIOUS
<1>4. /\ modtime \in 1 .. MaxTime /\ saved \in Text
      /\ Good(buf, saved) /\ Clean(buf, saved) /\ Len(buf.text) <= MaxText
      /\ chain \in [on : BOOLEAN, pending : Seq(Records), shared : BOOLEAN]
      /\ chain.on \in BOOLEAN /\ old \in Seq(Records) /\ chain.shared \in BOOLEAN
      /\ ~BetweenUndos /\ chain.on => \E path : Fits(path, buf.text, old, modtime, saved)
      /\ chain.shared => On(list, old)
  BY <1>1, <1>3, InvIs
<1>5. PICK p : p = SubSeq(list, 1, kept)
  OBVIOUS
<1>6. PICK d : d = [buf EXCEPT !.undo = p, !.start = IF kept = 0 THEN buf.text ELSE @]
  OBVIOUS
<1>7. /\ buf.recording /\ kept < Len(list) /\ buf' = d
      /\ modtime' = modtime /\ saved' = saved
      /\ chain' = IF ~chain.shared THEN chain
                  ELSE IF kept > Len(list) - Len(old)
                  THEN [chain EXCEPT !.pending = SubSeq(@, 1, kept - (Len(list) - Len(old)))]
                  ELSE [chain EXCEPT !.shared = FALSE]
  BY <1>1, <1>2, <1>3, <1>5, <1>6 DEF CollectGarbage
<1>8. /\ buf \in Buffers /\ Sane(buf) /\ list \in Seq(Records) /\ Len(list) \in Nat
      /\ buf.text \in Seq(Char) /\ buf.start \in Seq(Char) /\ Len(old) \in Nat
  BY <1>1, <1>4, SaneIs DEF Good
<1>9. kept \in 0 .. Len(list) /\ (kept # 0 => list[kept + 1].kind = "boundary")
  BY <1>2, <1>7, <1>8, KeptIs
<1>10. p \in Seq(Records) /\ Len(p) = kept /\ \A i \in 1 .. kept : p[i] = list[i]
  BY <1>5, <1>8, <1>9, Above
<1>11. PICK start \in Seq(Char) : start = IF kept = 0 THEN buf.text ELSE buf.start
  BY <1>8
<1>12. /\ d \in Buffers /\ d.text = buf.text /\ d.begv = buf.begv /\ d.zv = buf.zv
       /\ d.modified = buf.modified /\ d.recording /\ d.undo = p /\ d.start = start
  BY <1>6, <1>7, <1>8, <1>10, <1>11 DEF Buffers
<1>13. Sane(d) /\ Clean(d, saved)
  BY <1>4, <1>8, <1>12 DEF Sane, Recordable, Clean
<1>14. Holds(buf.text, p, start, modtime, saved)
  <2>1. PICK path : /\ Fits(path, buf.text, list, modtime, saved)
                    /\ StartsFrom(path, list, 1, buf.start)
    BY <1>1, <1>4, <1>7 DEF Good, Holds
  <2>2. /\ Fits(path, buf.text, p, modtime, saved)
        /\ kept # 0 => StartsFrom(path, p, 1, buf.start)
        /\ kept = 0 => StartsFrom(path, p, 1, buf.text)
    <3>1. kept = 0 \/ kept = Len(list) \/ list[kept + 1].kind = "boundary"
      BY <1>9
    <3>2. kept \in 0 .. Len(list) /\ list \in Seq(Records)
      BY <1>8, <1>9
    <3>3. Fits(path, buf.text, p, modtime, saved)
      BY <1>5, <2>1, <3>1, <3>2, PrefixFits
    <3>4. kept # 0 => StartsFrom(path, p, 1, buf.start)
      <4>1. kept # 0 => 1 \in 1 .. kept
        BY <1>9
      <4> QED
        BY <1>5, <2>1, <3>1, <3>2, <4>1, PrefixStarts
    <3>5. kept = 0 => StartsFrom(path, p, 1, buf.text)
      BY <1>5, <2>1, <3>1, <3>2, PrefixFits
    <3> QED
      BY <3>3, <3>4, <3>5
  <2>3. StartsFrom(path, p, 1, start)
    BY <1>11, <2>1, <2>2
  <2> QED
    BY <2>2, <2>3 DEF Holds
<1>15. CASE ~chain.shared
  <2>1. chain' = chain
    BY <1>7, <1>15
  <2>2. InvOf(d, modtime, saved, chain)
    BY <1>3, <1>4, <1>12, <1>13, <1>14, <1>15 DEF InvOf
  <2> QED
    BY <1>7, <2>1, <2>2 DEF Inv
<1>16. CASE chain.shared /\ ~(kept > Len(list) - Len(old))
  <2>1. PICK ch : ch = [chain EXCEPT !.shared = FALSE]
    OBVIOUS
  <2>2. /\ ch \in [on : BOOLEAN, pending : Seq(Records), shared : BOOLEAN]
        /\ ch.on = chain.on /\ ch.pending = old /\ ~ch.shared
    BY <1>3, <1>4, <2>1
  <2>3. InvOf(d, modtime, saved, ch)
    BY <1>4, <1>12, <1>13, <1>14, <2>2 DEF InvOf
  <2> QED
    BY <1>7, <1>16, <2>1, <2>3 DEF Inv
<1>17. CASE chain.shared /\ kept > Len(list) - Len(old)
  <2>1. PICK k : k = kept - (Len(list) - Len(old))
    OBVIOUS
  <2>2. /\ Len(old) < Len(list)
        /\ \A i \in 1 .. Len(old) : list[(Len(list) - Len(old)) + i] = old[i]
    BY <1>4, <1>17 DEF On
  <2>3. /\ k \in 0 .. Len(old) /\ k + 1 \in 1 .. Len(old) /\ k < kept /\ kept # 0
        /\ kept - k = Len(list) - Len(old)
        /\ (Len(list) - Len(old)) + (k + 1) = kept + 1
    <3>1. PICK l \in Nat, o \in Nat : l = Len(list) /\ o = Len(old)
      BY <1>8
    <3>2. kept \in 0 .. l /\ kept < l /\ o < l /\ kept > l - o /\ k = kept - (l - o)
      BY <1>7, <1>9, <1>17, <2>1, <2>2, <3>1
    <3>3. /\ k \in 0 .. o /\ k + 1 \in 1 .. o /\ k < kept /\ kept # 0 /\ kept - k = l - o
          /\ (l - o) + (k + 1) = kept + 1
      BY <3>2
    <3> QED
      BY <3>1, <3>3
  <2>4. old[k + 1].kind = "boundary"
    BY <1>9, <2>2, <2>3
  <2>5. PICK q : q = SubSeq(old, 1, k)
    OBVIOUS
  <2>6. q \in Seq(Records) /\ Len(q) = k /\ \A i \in 1 .. k : q[i] = old[i]
    BY <1>4, <2>3, <2>5, Above
  <2>7. ~BetweenUndos /\ chain.on => \E path : Fits(path, buf.text, q, modtime, saved)
    BY <1>4, <2>3, <2>4, <2>5, PrefixFits
  <2>8. On(p, q)
    <3>1. ASSUME NEW i \in 1 .. k PROVE p[(kept - k) + i] = q[i]
      <4>1. i \in 1 .. Len(old) /\ (kept - k) + i \in 1 .. kept
        BY <1>8, <1>9, <2>3
      <4>2. p[(kept - k) + i] = list[(kept - k) + i]
        BY <1>10, <4>1
      <4>3. list[(Len(list) - Len(old)) + i] = old[i]
        BY <2>2, <4>1
      <4> QED
        BY <2>3, <2>6, <4>2, <4>3
    <3> QED
      BY <1>10, <2>3, <2>6, <3>1 DEF On
  <2>9. PICK ch : ch = [chain EXCEPT !.pending = q]
    OBVIOUS
  <2>10. /\ ch \in [on : BOOLEAN, pending : Seq(Records), shared : BOOLEAN]
         /\ ch.on = chain.on /\ ch.pending = q
    BY <1>4, <2>6, <2>9
  <2>11. chain' = ch
    BY <1>3, <1>7, <1>17, <2>1, <2>5, <2>9
  <2>12. InvOf(d, modtime, saved, ch)
    BY <1>4, <1>12, <1>13, <1>14, <2>7, <2>8, <2>10 DEF InvOf
  <2> QED
    BY <1>7, <2>11, <2>12 DEF Inv
<1> QED
  BY <1>15, <1>16, <1>17

LEMMA InitInv == ASSUME Init PROVE Inv
<1>1. PICK text : text \in Text /\ saved = text /\ modtime = 1 /\ chain = Unchained
        /\ buf = [text |-> text, begv |-> 1, zv |-> Len(text) + 1, modified |-> FALSE,
                  recording |-> TRUE, undo |-> <<>>, start |-> text]
  BY DEF Init
<1>2. text \in Seq(Char) /\ Len(text) <= MaxText /\ Len(text) \in Nat
  BY <1>1, TextIs
<1>3. PICK none : none = <<>> /\ none \in Seq(Records)
  <2>1. <<>> \in Seq(Records)
    OBVIOUS
  <2> QED
    BY <2>1, Zenon
<1>4. /\ buf \in Buffers /\ buf.text = text /\ buf.begv = 1 /\ buf.zv = Len(text) + 1
      /\ buf.undo = none /\ buf.start = text /\ buf.recording
  BY <1>1, <1>2, <1>3 DEF Buffers
<1>5. Sane(buf) /\ Clean(buf, saved)
  BY <1>1, <1>2, <1>4 DEF Sane, Recordable, Clean
<1>6. Holds(buf.text, buf.undo, buf.start, modtime, saved)
  BY <1>3, <1>4, EmptyHolds
<1>7. /\ chain \in [on : BOOLEAN, pending : Seq(Records), shared : BOOLEAN]
      /\ ~chain.on /\ ~chain.shared
  BY <1>1 DEF Unchained
<1>8. modtime \in 1 .. MaxTime /\ saved \in Text
  BY <1>1, BoundsAssumption
<1> QED
  BY <1>2, <1>4, <1>5, <1>6, <1>7, <1>8 DEF Inv, InvOf

LEMMA NextInv == ASSUME Inv, [Next]_vars PROVE Inv'
<1>1. CASE UNCHANGED vars
  BY <1>1 DEF vars, Inv
<1>2. CASE Next
  BY <1>2, TypeCharKeeps, ReadFileKeeps, DeleteKeeps, CapitalsKeeps, SubstKeeps, NarrowKeeps,
     ProcessOutputKeeps, SaveBufferKeeps, BufferFlushUndoKeeps, BufferEnableUndoKeeps,
     UndoCommandKeeps, CollectGarbageKeeps DEF Next
<1> QED
  BY <1>1, <1>2

-----------------------------------------------------------------------------
(* What the invariant says.                                                *)

(* Between changes the text stays.                                         *)
LEMMA Still ==
  ASSUME NEW path, NEW list \in Seq(Records), NEW t, Path(path, t, list), NEW k \in Nat,
         NEW i \in 1 .. Len(list), k < i, NextTo(list, k, i)
  PROVE  path[i] = path[k + 1]
<1>1. PICK n \in Nat : n = i - (k + 1) /\ k + 1 + n = i
  OBVIOUS
<1>2. PICK R : R = {j \in 0 .. n : path[k + 1 + j] = path[k + 1]}
  OBVIOUS
<1>3. 0 \in R
  BY <1>2
<1>4. ASSUME NEW j \in 0 .. n - 1, j \in R PROVE j + 1 \in R
  <2>1. PICK l \in Nat : l = k + 1 + j /\ l + 1 = k + 1 + (j + 1)
    OBVIOUS
  <2>2. l \in k + 1 .. i - 1 /\ l \in 1 .. Len(list)
    BY <1>1, <2>1
  <2>3. path[l + 1] = path[l]
    BY <2>2 DEF Path, Step, NextTo
  <2>4. path[k + 1 + (j + 1)] = path[k + 1]
    BY <1>2, <1>4, <2>1, <2>3
  <2> QED
    BY <1>2, <2>4
<1>5. \A j \in 0 .. n : j \in R
  BY <1>3, <1>4, AllReached
<1> QED
  BY <1>1, <1>2, <1>5

LEMMA FitsLeadsBack ==
  ASSUME NEW path, NEW list \in Seq(Records), NEW t, NEW m, NEW s, Fits(path, t, list, m, s)
  PROVE  LeadsBack(t, list)
<1>1. /\ Path(path, t, list) /\ path[1] = t
      /\ \A i \in 1 .. Len(list) : Step(path[i], list[i], path[i + 1])
  BY DEF Fits, Path
<1>2. ASSUME NEW i \in 1 .. Len(list), IsChange(list[i])
      PROVE  path[i + 1] = list[i].was /\ Undone(path[i], list[i]) = list[i].was
  BY <1>1, <1>2 DEF Step
<1>3. ASSUME NEW i \in DOMAIN list, IsChange(list[i]), NextTo(list, 0, i)
      PROVE  Undone(t, list[i]) = list[i].was
  <2>1. i \in 1 .. Len(list) /\ 0 \in Nat /\ 0 < i
    OBVIOUS
  <2>2. path[i] = path[0 + 1]
    BY <1>1, <1>3, <2>1, Still
  <2> QED
    BY <1>1, <1>2, <1>3, <2>1, <2>2
<1>4. ASSUME NEW i \in DOMAIN list, IsChange(list[i]), NEW k \in 1 .. i - 1,
             IsChange(list[k]), NextTo(list, k, i)
      PROVE  Undone(list[k].was, list[i]) = list[i].was
  <2>1. i \in 1 .. Len(list) /\ k \in Nat /\ k < i /\ k \in 1 .. Len(list)
    OBVIOUS
  <2>2. path[i] = path[k + 1]
    BY <1>1, <1>4, <2>1, Still
  <2> QED
    BY <1>2, <1>4, <2>1, <2>2
<1> QED
  BY <1>3, <1>4 DEF LeadsBack

LEMMA InvLeadsBack == ASSUME Inv PROVE RecordsLeadBack
<1>1. PICK t, list : t = buf.text /\ list = buf.undo
  OBVIOUS
<1>2. list \in Seq(Records) /\ (~buf.recording => list = <<>>)
  BY <1>1, InvIs, SaneIs DEF Good
<1>3. CASE list = <<>>
  <2>1. \A i \in DOMAIN list : FALSE
    BY <1>3
  <2>2. LeadsBack(t, list)
    BY <2>1 DEF LeadsBack
  <2> QED
    BY <1>1, <2>2 DEF RecordsLeadBack
<1>4. CASE list # <<>>
  <2>1. Holds(t, list, buf.start, modtime, saved)
    BY <1>1, <1>2, <1>4, InvIs DEF Good
  <2>2. LeadsBack(t, list)
    BY <1>2, <2>1, FitsLeadsBack DEF Holds
  <2> QED
    BY <1>1, <2>2 DEF RecordsLeadBack
<1> QED
  BY <1>3, <1>4

LEMMA InvPending == ASSUME Inv, ~BetweenUndos PROVE PendingLeadsBack
<1>1. chain.pending \in Seq(Records)
      /\ (chain.on => \E path : Fits(path, buf.text, chain.pending, modtime, saved))
  BY InvIs
<1> QED
  BY <1>1, FitsLeadsBack DEF PendingLeadsBack

LEMMA InvType == ASSUME Inv PROVE TypeOK
<1>1. /\ modtime \in 1 .. MaxTime /\ saved \in Text /\ Sane(buf) /\ Len(buf.text) <= MaxText
      /\ chain \in [on : BOOLEAN, pending : Seq(Records), shared : BOOLEAN]
  BY InvIs DEF Good
<1>2. /\ buf \in Buffers /\ buf.text \in Seq(Char) /\ buf.undo \in Seq(Records)
      /\ 1 <= buf.begv /\ buf.begv <= buf.zv /\ buf.zv <= Len(buf.text) + 1
      /\ ~buf.recording => buf.undo = <<>>
  BY <1>1, SaneIs
<1>3. buf.text \in Text
  BY <1>1, <1>2, TextIs
<1>4. Seq(Records) \subseteq Seq(Record)
  <2>1. Records \subseteq Record
    BY DEF Records
  <2> QED
    BY <2>1
<1>5. buf.undo \in Seq(Record)
  BY <1>2, <1>4
<1>6. buf \in [text : Text, begv : Nat, zv : Nat, modified : BOOLEAN, recording : BOOLEAN,
               undo : Seq(Record), start : Seq(Char)]
  BY <1>2, <1>3, <1>5 DEF Buffers
<1>7. chain \in [on : BOOLEAN, pending : Seq(Record), shared : BOOLEAN]
  BY <1>1, <1>4
<1> QED
  BY <1>1, <1>2, <1>6, <1>7 DEF TypeOK

(* What an undo command that has a change to undo goes back to.            *)
LEMMA UndoReaches ==
  ASSUME Inv, ~BetweenUndos, chain'.on, UndoCommand, NextChange # 0, ~Outdated(Undoing)
  PROVE  buf'.text = Undoing[NextChange].start
<1>1. PICK b : b = UndoBoundary(buf)
  OBVIOUS
<1>2. PICK list : list = Undoing
  OBVIOUS
<1>3. PICK u : u = PrimitiveUndo(b, list)
  OBVIOUS
<1>4. buf.recording
  BY DEF UndoCommand
<1>5. list # <<>> /\ buf' = u.buf /\ ~u.error
  BY <1>1, <1>2, <1>3 DEF UndoCommand, Undoing, Become, Unchained
<1>6. /\ modtime \in 1 .. MaxTime /\ Good(buf, saved) /\ Clean(buf, saved)
  BY InvIs
<1>7. Good(b, saved) /\ Clean(b, saved) /\ b.recording
  BY <1>1, <1>4, <1>6, BoundaryIs
<1>8. /\ list \in Seq(Records)
      /\ \E path : ~BetweenUndos => Fits(path, b.text, list, modtime, saved)
  BY <1>1, <1>2, <1>4, <1>5, UndoingIs
<1>9. PICK path : Fits(path, b.text, list, modtime, saved)
  BY <1>8
<1>10. PICK n : n = GroupSize(list)
  OBVIOUS
<1>11. ~Outdated(list)
  BY <1>2
<1>12. u.buf.text = path[n + 1]
  <2>1. u.buf.text = path[GroupSize(list) + 1]
    BY <1>3, <1>5, <1>6, <1>7, <1>8, <1>9, <1>11, PrimitiveUndoIs
  <2> QED
    BY <1>10, <2>1
<1>13. /\ n \in 0 .. Len(list) /\ \A i \in 1 .. n : list[i].kind # "boundary"
       /\ n < Len(list) => list[n + 1].kind = "boundary"
  BY <1>8, <1>10, GroupSizeIs
<1>14. PICK j : j = NextChange
  OBVIOUS
<1>15. j \in 1 .. n /\ IsChange(list[j])
  <2>1. PICK g : g = SubSeq(list, 1, n)
    OBVIOUS
  <2>2. g \in Seq(Records) /\ Len(g) = n /\ \A i \in 1 .. n : g[i] = list[i]
    BY <1>8, <1>13, <2>1, Above
  <2>3. PICK T : T = {i \in 1 .. Len(g) : IsChange(g[i])}
    OBVIOUS
  <2>4. j = IF T # {} THEN Min(T) ELSE 0
    BY <1>2, <1>10, <1>14, <2>1, <2>3 DEF NextChange, SelectInSeq
  <2>5. T # {} /\ j = Min(T)
    BY <1>14, <2>4
  <2>6. T \subseteq Nat
    BY <2>3
  <2>7. j \in T
    BY <2>5, <2>6, MinIs
  <2> QED
    BY <2>2, <2>3, <2>7
<1>16. j \in 1 .. Len(list)
  BY <1>13, <1>15
<1>17. StartsFrom(path, list, j, list[j].start)
  BY <1>9, <1>15, <1>16 DEF Fits, Starts
<1>18. n + 1 \in j .. Len(list) + 1 /\ GroupEnds(list, j, n + 1)
  <2>1. PICK l \in Nat : l = Len(list) /\ n \in 0 .. l /\ j \in 1 .. n
    BY <1>13, <1>15
  <2>2. n + 1 \in j .. l + 1 /\ (n + 1 <= l => n < l) /\ \A i \in j .. (n + 1) - 1 : i \in 1 .. n
    BY <2>1
  <2> QED
    BY <1>13, <2>1, <2>2 DEF GroupEnds
<1>19. path[n + 1] = list[j].start
  BY <1>17, <1>18 DEF StartsFrom
<1> QED
  BY <1>2, <1>5, <1>12, <1>14, <1>19

-----------------------------------------------------------------------------
LEMMA Invariance == Spec => []Inv
<1>1. Init => Inv
  BY InitInv
<1>2. Inv /\ [Next]_vars => Inv'
  BY NextInv
<1> QED
  BY <1>1, <1>2, PTL DEF Spec

(* The buffer, its accessible part and its undo list, the file's time and  *)
(* text and the pending list are always what they should be.               *)
THEOREM Typed == Spec => []TypeOK
<1>1. Inv => TypeOK
  BY InvType
<1> QED
  BY <1>1, Invariance, PTL

(* record_insert, record_delete and record_change record what it takes to  *)
(* lead back through every text the buffer had since the oldest record     *)
(* that garbage collection left: whatever was typed, read, deleted,        *)
(* capitalised, substituted, put in by a process, undone and redone.       *)
THEOREM AlwaysLeadsBack == Spec => []RecordsLeadBack
<1>1. Inv => RecordsLeadBack
  BY InvLeadsBack
<1> QED
  BY <1>1, Invariance, PTL

(* While undo is being repeated, pending-undo-list fits the text, also     *)
(* when truncate_undo_list cuts the conses it shares; unless process       *)
(* output may come between two undo commands, when it need not.            *)
THEOREM PendingAlwaysLeadsBack ==
  ASSUME ~BetweenUndos PROVE Spec => []PendingLeadsBack
<1>1. Inv => PendingLeadsBack
  BY InvPending
<1> QED
  BY <1>1, Invariance, PTL

(* A buffer that primitive-undo or anything else marked unmodified holds   *)
(* the text of its file, when the first changes of two saves can be told   *)
(* apart and no output comes between two undo commands.                    *)
THEOREM UnmodifiedAlwaysSaved ==
  ASSUME ~SameSecond, ~BetweenUndos PROVE Spec => []UnmodifiedIsSaved
<1>1. Inv => UnmodifiedIsSaved
  BY InvIs DEF Clean, Careful, UnmodifiedIsSaved
<1> QED
  BY <1>1, Invariance, PTL

(* An undo command goes back to the text at the beginning of a command,    *)
(* undo-boundary's promise, when no first change it meets is obsolete.     *)
THEOREM UndoAlwaysReaches ==
  ASSUME ~BetweenUndos PROVE Spec => UnsavedUndoReachesBoundary
<1>1. Inv /\ [Next]_vars
        => [chain'.on /\ UndoCommand /\ NextChange # 0 /\ ~Outdated(Undoing)
              => buf'.text = Undoing[NextChange].start]_vars
  BY UndoReaches
<1> QED
  BY <1>1, Invariance, PTL DEF Spec, UnsavedUndoReachesBoundary
=============================================================================
