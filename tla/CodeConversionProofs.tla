------------------------- MODULE CodeConversionProofs -------------------------
(***************************************************************************)
(* Proofs about CodeConversion, for texts of any length and pieces of any  *)
(* size.                                                                   *)
(*                                                                         *)
(* First, that pieces do not matter: converters do not look at what they   *)
(* have put out (Lock, Twin).  Then one character: a reader that has read  *)
(* all a writer wrote stays in step with it (InStep, Boundary, Adds).      *)
(* Then a text and its file (Told, Begun, Ended), and the invariant of     *)
(* Spec (Converting).  The results are at the end.                         *)
(***************************************************************************)
EXTENDS CodeConversion, SequenceTheorems, FiniteSetTheorems, WellFoundedInduction, TLAPS

-----------------------------------------------------------------------------
(* Counting.                                                               *)

LEMMA Least ==
  ASSUME NEW T, T \subseteq Nat, T # {}
  PROVE  \E x \in T : \A y \in T : x <= y
<1>1. IsWellFoundedOn(OpToRel(<, Nat), Nat)
  BY NatLessThanWellFounded, Zenon
<1>2. \E x \in T : \A y \in T : ~(<<y, x>> \in OpToRel(<, Nat))
  BY <1>1, WFMin, Zenon
<1>3. PICK x \in T : \A y \in T : ~(<<y, x>> \in OpToRel(<, Nat))
  BY <1>2, Zenon
<1>4. ASSUME NEW y \in T PROVE ~(y < x)
  BY <1>3, Zenon DEF OpToRel
<1> QED
  BY <1>4

(* A set of numbers with 0 and with the successors of its members up to n. *)
LEMMA AllReached ==
  ASSUME NEW R, NEW n \in Nat, 0 \in R, \A k \in 0 .. n - 1 : k \in R => k + 1 \in R
  PROVE  \A k \in 0 .. n : k \in R
<1>1. SUFFICES ASSUME NEW k \in 0 .. n, k \notin R PROVE FALSE
  OBVIOUS
<1>2. PICK T : T = {j \in 0 .. n : j \notin R}
  OBVIOUS
<1>3. T \subseteq Nat /\ T # {}
  BY <1>1, <1>2
<1>4. PICK x \in T : \A y \in T : x <= y
  BY <1>3, Least
<1>5. x \in 0 .. n /\ x \notin R
  BY <1>2
<1>6. x # 0
  BY <1>5
<1>7. x - 1 \in 0 .. n - 1 /\ (x - 1) + 1 = x
  BY <1>5, <1>6
<1>8. x - 1 \notin R
  BY <1>5, <1>7
<1>9. x - 1 \in T /\ x - 1 < x
  BY <1>2, <1>5, <1>7, <1>8
<1> QED
  BY <1>4, <1>5, <1>9

-----------------------------------------------------------------------------
(* Runs of decode over bytes: f[i] is coding_type after i of them.         *)

PutRun(f, s, b, n) == f[0] = s /\ \A i \in 1 .. n : f[i] = Put(f[i - 1], b[i])
IsPut(f, s, b, n) == f = [i \in 0 .. n |-> IF i = 0 THEN s ELSE Put(f[i - 1], b[i])]

LEMMA PutExists ==
  ASSUME NEW s, NEW b, NEW n \in Nat
  PROVE  \E f : IsPut(f, s, b, n)
<1>1. PICK R : R = {k \in Nat : \E f : IsPut(f, s, b, k)}
  OBVIOUS
<1>2. 0 \in R
  <2>1. PICK f : f = [k \in 0 .. 0 |-> s]
    OBVIOUS
  <2>2. f = [k \in 0 .. 0 |-> IF k = 0 THEN s ELSE Put(f[k - 1], b[k])]
    BY <2>1
  <2> QED
    BY <1>1, <2>2 DEF IsPut
<1>3. ASSUME NEW k \in 0 .. n - 1, k \in R PROVE k + 1 \in R
  <2>1. PICK f : IsPut(f, s, b, k)
    BY <1>1, <1>3
  <2>2. PICK m \in Nat : /\ m = k + 1 /\ m # 0 /\ m - 1 = k /\ m \notin 0 .. k
                         /\ 0 .. m = (0 .. k) \union {m}
    OBVIOUS
  <2>3. PICK x : x = Put(f[k], b[m])
    OBVIOUS
  <2>4. PICK h : h = [j \in 0 .. m |-> IF j = m THEN x ELSE f[j]]
    OBVIOUS
  <2>5. h[m] = x /\ \A j \in 0 .. k : h[j] = f[j]
    BY <2>2, <2>4
  <2>6. ASSUME NEW j \in 0 .. m PROVE h[j] = IF j = 0 THEN s ELSE Put(h[j - 1], b[j])
    <3>1. CASE j = m
      <4>1. h[m - 1] = f[k]
        BY <2>2, <2>5
      <4> QED
        BY <2>2, <2>3, <2>5, <3>1, <4>1
    <3>2. CASE j # m
      <4>1. j \in 0 .. k
        BY <2>2, <3>2
      <4>2. f[j] = IF j = 0 THEN s ELSE Put(f[j - 1], b[j])
        BY <2>1, <4>1 DEF IsPut
      <4>3. j # 0 => h[j - 1] = f[j - 1]
        <5>1. j # 0 => j - 1 \in 0 .. k
          BY <4>1
        <5> QED
          BY <2>5, <5>1
      <4> QED
        BY <2>5, <4>1, <4>2, <4>3
    <3> QED
      BY <3>1, <3>2
  <2>7. IsPut(h, s, b, m)
    BY <2>4, <2>6 DEF IsPut
  <2> QED
    BY <1>1, <2>2, <2>7
<1>4. \A k \in 0 .. n : k \in R
  BY <1>2, <1>3, AllReached
<1> QED
  BY <1>1, <1>4

LEMMA PutAllRuns ==
  ASSUME NEW s, NEW b, Len(b) \in Nat
  PROVE  \E f : PutRun(f, s, b, Len(b)) /\ PutAll(s, b) = f[Len(b)]
<1>1. PICK n \in Nat : n = Len(b)
  OBVIOUS
<1>2. PICK f : f = CHOOSE g : IsPut(g, s, b, n)
  OBVIOUS
<1>3. IsPut(f, s, b, n)
  BY <1>2, PutExists
<1>4. PutAll(s, b) = f[n]
  BY <1>1, <1>2 DEF PutAll, IsPut
<1>5. f[0] = s
  BY <1>3 DEF IsPut
<1>6. ASSUME NEW i \in 1 .. n PROVE f[i] = Put(f[i - 1], b[i])
  BY <1>3 DEF IsPut
<1> QED
  BY <1>1, <1>4, <1>5, <1>6 DEF PutRun

(* There is only one run, so that one found gives what decode returns.     *)
LEMMA PutRunsAgree ==
  ASSUME NEW s, NEW b, NEW n \in Nat, NEW f, NEW g, PutRun(f, s, b, n), PutRun(g, s, b, n)
  PROVE  f[n] = g[n]
<1>1. PICK R : R = {k \in 0 .. n : f[k] = g[k]}
  OBVIOUS
<1>2. 0 \in R
  BY <1>1 DEF PutRun
<1>3. ASSUME NEW k \in 0 .. n - 1, k \in R PROVE k + 1 \in R
  <2>1. PICK m \in 1 .. n : m = k + 1 /\ m - 1 = k
    OBVIOUS
  <2>2. f[m] = Put(f[m - 1], b[m]) /\ g[m] = Put(g[m - 1], b[m])
    BY DEF PutRun
  <2>3. f[k] = g[k]
    BY <1>1, <1>3
  <2> QED
    BY <1>1, <2>1, <2>2, <2>3
<1>4. \A k \in 0 .. n : k \in R
  BY <1>2, <1>3, AllReached
<1> QED
  BY <1>1, <1>4

LEMMA PutAllIs ==
  ASSUME NEW s, NEW b, NEW n \in Nat, n = Len(b), NEW f, PutRun(f, s, b, n)
  PROVE  PutAll(s, b) = f[n]
  BY PutAllRuns, PutRunsAgree

LEMMA PutAllNone ==
  ASSUME NEW s
  PROVE  PutAll(s, <<>>) = s
<1>1. PICK b : b = <<>>
  OBVIOUS
<1>2. Len(b) = 0
  BY <1>1
<1>3. PICK f : PutRun(f, s, b, Len(b)) /\ PutAll(s, b) = f[Len(b)]
  BY <1>2, PutAllRuns
<1> QED
  BY <1>1, <1>2, <1>3 DEF PutRun

LEMMA PutAllOne ==
  ASSUME NEW s, NEW c
  PROVE  PutAll(s, << c >>) = Put(s, c)
<1>1. PICK b : b = << c >>
  OBVIOUS
<1>2. Len(b) = 1 /\ b[1] = c
  BY <1>1
<1>3. PICK f : PutRun(f, s, b, Len(b)) /\ PutAll(s, b) = f[Len(b)]
  BY <1>2, PutAllRuns
<1>4. f[0] = s /\ f[1] = Put(f[1 - 1], b[1])
  BY <1>2, <1>3 DEF PutRun
<1> QED
  BY <1>1, <1>2, <1>3, <1>4

LEMMA PutAllJoined ==
  ASSUME NEW s, NEW X, NEW a \in Seq(X), NEW b \in Seq(X)
  PROVE  PutAll(s, a \o b) = PutAll(PutAll(s, a), b)
<1>1. PICK n \in Nat, m \in Nat : n = Len(a) /\ m = Len(b)
  OBVIOUS
<1>2. PICK c : c = a \o b
  OBVIOUS
<1>3. /\ Len(c) = n + m
      /\ \A i \in 1 .. n : c[i] = a[i]
      /\ \A i \in 1 .. m : c[n + i] = b[i]
  <2>1. /\ Len(c) = n + m
        /\ \A i \in 1 .. n + m : c[i] = IF i <= n THEN a[i] ELSE b[i - n]
    BY <1>1, <1>2
  <2>2. ASSUME NEW i \in 1 .. n PROVE c[i] = a[i]
    BY <2>1
  <2>3. ASSUME NEW i \in 1 .. m PROVE c[n + i] = b[i]
    <3>1. PICK k \in 1 .. n + m : k = n + i /\ ~(k <= n) /\ k - n = i
      OBVIOUS
    <3> QED
      BY <2>1, <3>1
  <2> QED
    BY <2>1, <2>2, <2>3
<1>4. PICK f : PutRun(f, s, a, n) /\ PutAll(s, a) = f[n]
  BY <1>1, PutAllRuns
<1>5. PICK q : q = f[n]
  OBVIOUS
<1>6. PICK g : PutRun(g, q, b, m) /\ PutAll(q, b) = g[m]
  BY <1>1, PutAllRuns
<1>7. PICK h : h = [i \in 0 .. n + m |-> IF i <= n THEN f[i] ELSE g[i - n]]
  OBVIOUS
<1>8. (\A i \in 0 .. n : h[i] = f[i]) /\ (\A i \in 0 .. m : h[n + i] = g[i])
  <2>1. ASSUME NEW i \in 0 .. n PROVE h[i] = f[i]
    BY <1>7
  <2>2. ASSUME NEW i \in 0 .. m PROVE h[n + i] = g[i]
    <3>1. CASE i = 0
      BY <1>5, <1>6, <2>1, <3>1 DEF PutRun
    <3>2. CASE i # 0
      <4>1. PICK k \in 0 .. n + m : k = n + i /\ ~(k <= n) /\ k - n = i
        BY <3>2
      <4> QED
        BY <1>7, <4>1
    <3> QED
      BY <3>1, <3>2
  <2> QED
    BY <2>1, <2>2
<1>9. ASSUME NEW i \in 1 .. n + m PROVE h[i] = Put(h[i - 1], c[i])
  <2>1. CASE i <= n
    <3>1. i \in 1 .. n /\ i \in 0 .. n /\ i - 1 \in 0 .. n
      BY <2>1
    <3> QED
      BY <1>3, <1>4, <1>8, <3>1 DEF PutRun
  <2>2. CASE ~(i <= n)
    <3>1. PICK k \in 1 .. m : i = n + k /\ i - 1 = n + (k - 1) /\ k \in 0 .. m /\ k - 1 \in 0 .. m
      <4>1. i - n \in 1 .. m /\ i = n + (i - n) /\ i - 1 = n + ((i - n) - 1)
        BY <2>2
      <4> QED
        BY <4>1
    <3>2. h[n + k] = g[k] /\ h[n + (k - 1)] = g[k - 1] /\ c[n + k] = b[k]
      BY <1>3, <1>8, <3>1
    <3> QED
      BY <1>6, <3>1, <3>2 DEF PutRun
  <2> QED
    BY <2>1, <2>2
<1>10. PutRun(h, s, c, n + m)
  <2>1. h[0] = s
    BY <1>4, <1>8 DEF PutRun
  <2> QED
    BY <1>9, <2>1 DEF PutRun
<1>11. PutAll(s, c) = h[n + m]
  BY <1>3, <1>10, PutAllIs
<1> QED
  BY <1>2, <1>4, <1>5, <1>6, <1>8, <1>11

-----------------------------------------------------------------------------
(* The same for encode.                                                    *)

GetRun(f, s, b, n) == f[0] = s /\ \A i \in 1 .. n : f[i] = Get(f[i - 1], b[i])
IsGet(f, s, b, n) == f = [i \in 0 .. n |-> IF i = 0 THEN s ELSE Get(f[i - 1], b[i])]

LEMMA GetExists ==
  ASSUME NEW s, NEW b, NEW n \in Nat
  PROVE  \E f : IsGet(f, s, b, n)
<1>1. PICK R : R = {k \in Nat : \E f : IsGet(f, s, b, k)}
  OBVIOUS
<1>2. 0 \in R
  <2>1. PICK f : f = [k \in 0 .. 0 |-> s]
    OBVIOUS
  <2>2. f = [k \in 0 .. 0 |-> IF k = 0 THEN s ELSE Get(f[k - 1], b[k])]
    BY <2>1
  <2> QED
    BY <1>1, <2>2 DEF IsGet
<1>3. ASSUME NEW k \in 0 .. n - 1, k \in R PROVE k + 1 \in R
  <2>1. PICK f : IsGet(f, s, b, k)
    BY <1>1, <1>3
  <2>2. PICK m \in Nat : /\ m = k + 1 /\ m # 0 /\ m - 1 = k /\ m \notin 0 .. k
                         /\ 0 .. m = (0 .. k) \union {m}
    OBVIOUS
  <2>3. PICK x : x = Get(f[k], b[m])
    OBVIOUS
  <2>4. PICK h : h = [j \in 0 .. m |-> IF j = m THEN x ELSE f[j]]
    OBVIOUS
  <2>5. h[m] = x /\ \A j \in 0 .. k : h[j] = f[j]
    BY <2>2, <2>4
  <2>6. ASSUME NEW j \in 0 .. m PROVE h[j] = IF j = 0 THEN s ELSE Get(h[j - 1], b[j])
    <3>1. CASE j = m
      <4>1. h[m - 1] = f[k]
        BY <2>2, <2>5
      <4> QED
        BY <2>2, <2>3, <2>5, <3>1, <4>1
    <3>2. CASE j # m
      <4>1. j \in 0 .. k
        BY <2>2, <3>2
      <4>2. f[j] = IF j = 0 THEN s ELSE Get(f[j - 1], b[j])
        BY <2>1, <4>1 DEF IsGet
      <4>3. j # 0 => h[j - 1] = f[j - 1]
        <5>1. j # 0 => j - 1 \in 0 .. k
          BY <4>1
        <5> QED
          BY <2>5, <5>1
      <4> QED
        BY <2>5, <4>1, <4>2, <4>3
    <3> QED
      BY <3>1, <3>2
  <2>7. IsGet(h, s, b, m)
    BY <2>4, <2>6 DEF IsGet
  <2> QED
    BY <1>1, <2>2, <2>7
<1>4. \A k \in 0 .. n : k \in R
  BY <1>2, <1>3, AllReached
<1> QED
  BY <1>1, <1>4

LEMMA GetAllRuns ==
  ASSUME NEW s, NEW b, Len(b) \in Nat
  PROVE  \E f : GetRun(f, s, b, Len(b)) /\ GetAll(s, b) = f[Len(b)]
<1>1. PICK n \in Nat : n = Len(b)
  OBVIOUS
<1>2. PICK f : f = CHOOSE g : IsGet(g, s, b, n)
  OBVIOUS
<1>3. IsGet(f, s, b, n)
  BY <1>2, GetExists
<1>4. GetAll(s, b) = f[n]
  BY <1>1, <1>2 DEF GetAll, IsGet
<1>5. f[0] = s
  BY <1>3 DEF IsGet
<1>6. ASSUME NEW i \in 1 .. n PROVE f[i] = Get(f[i - 1], b[i])
  BY <1>3 DEF IsGet
<1> QED
  BY <1>1, <1>4, <1>5, <1>6 DEF GetRun

(* There is only one run, so that one found gives what encode returns.     *)
LEMMA GetRunsAgree ==
  ASSUME NEW s, NEW b, NEW n \in Nat, NEW f, NEW g, GetRun(f, s, b, n), GetRun(g, s, b, n)
  PROVE  f[n] = g[n]
<1>1. PICK R : R = {k \in 0 .. n : f[k] = g[k]}
  OBVIOUS
<1>2. 0 \in R
  BY <1>1 DEF GetRun
<1>3. ASSUME NEW k \in 0 .. n - 1, k \in R PROVE k + 1 \in R
  <2>1. PICK m \in 1 .. n : m = k + 1 /\ m - 1 = k
    OBVIOUS
  <2>2. f[m] = Get(f[m - 1], b[m]) /\ g[m] = Get(g[m - 1], b[m])
    BY DEF GetRun
  <2>3. f[k] = g[k]
    BY <1>1, <1>3
  <2> QED
    BY <1>1, <2>1, <2>2, <2>3
<1>4. \A k \in 0 .. n : k \in R
  BY <1>2, <1>3, AllReached
<1> QED
  BY <1>1, <1>4

LEMMA GetAllIs ==
  ASSUME NEW s, NEW b, NEW n \in Nat, n = Len(b), NEW f, GetRun(f, s, b, n)
  PROVE  GetAll(s, b) = f[n]
  BY GetAllRuns, GetRunsAgree

LEMMA GetAllNone ==
  ASSUME NEW s
  PROVE  GetAll(s, <<>>) = s
<1>1. PICK b : b = <<>>
  OBVIOUS
<1>2. Len(b) = 0
  BY <1>1
<1>3. PICK f : GetRun(f, s, b, Len(b)) /\ GetAll(s, b) = f[Len(b)]
  BY <1>2, GetAllRuns
<1> QED
  BY <1>1, <1>2, <1>3 DEF GetRun

LEMMA GetAllOne ==
  ASSUME NEW s, NEW c
  PROVE  GetAll(s, << c >>) = Get(s, c)
<1>1. PICK b : b = << c >>
  OBVIOUS
<1>2. Len(b) = 1 /\ b[1] = c
  BY <1>1
<1>3. PICK f : GetRun(f, s, b, Len(b)) /\ GetAll(s, b) = f[Len(b)]
  BY <1>2, GetAllRuns
<1>4. f[0] = s /\ f[1] = Get(f[1 - 1], b[1])
  BY <1>2, <1>3 DEF GetRun
<1> QED
  BY <1>1, <1>2, <1>3, <1>4

LEMMA GetAllJoined ==
  ASSUME NEW s, NEW X, NEW a \in Seq(X), NEW b \in Seq(X)
  PROVE  GetAll(s, a \o b) = GetAll(GetAll(s, a), b)
<1>1. PICK n \in Nat, m \in Nat : n = Len(a) /\ m = Len(b)
  OBVIOUS
<1>2. PICK c : c = a \o b
  OBVIOUS
<1>3. /\ Len(c) = n + m
      /\ \A i \in 1 .. n : c[i] = a[i]
      /\ \A i \in 1 .. m : c[n + i] = b[i]
  <2>1. /\ Len(c) = n + m
        /\ \A i \in 1 .. n + m : c[i] = IF i <= n THEN a[i] ELSE b[i - n]
    BY <1>1, <1>2
  <2>2. ASSUME NEW i \in 1 .. n PROVE c[i] = a[i]
    BY <2>1
  <2>3. ASSUME NEW i \in 1 .. m PROVE c[n + i] = b[i]
    <3>1. PICK k \in 1 .. n + m : k = n + i /\ ~(k <= n) /\ k - n = i
      OBVIOUS
    <3> QED
      BY <2>1, <3>1
  <2> QED
    BY <2>1, <2>2, <2>3
<1>4. PICK f : GetRun(f, s, a, n) /\ GetAll(s, a) = f[n]
  BY <1>1, GetAllRuns
<1>5. PICK q : q = f[n]
  OBVIOUS
<1>6. PICK g : GetRun(g, q, b, m) /\ GetAll(q, b) = g[m]
  BY <1>1, GetAllRuns
<1>7. PICK h : h = [i \in 0 .. n + m |-> IF i <= n THEN f[i] ELSE g[i - n]]
  OBVIOUS
<1>8. (\A i \in 0 .. n : h[i] = f[i]) /\ (\A i \in 0 .. m : h[n + i] = g[i])
  <2>1. ASSUME NEW i \in 0 .. n PROVE h[i] = f[i]
    BY <1>7
  <2>2. ASSUME NEW i \in 0 .. m PROVE h[n + i] = g[i]
    <3>1. CASE i = 0
      BY <1>5, <1>6, <2>1, <3>1 DEF GetRun
    <3>2. CASE i # 0
      <4>1. PICK k \in 0 .. n + m : k = n + i /\ ~(k <= n) /\ k - n = i
        BY <3>2
      <4> QED
        BY <1>7, <4>1
    <3> QED
      BY <3>1, <3>2
  <2> QED
    BY <2>1, <2>2
<1>9. ASSUME NEW i \in 1 .. n + m PROVE h[i] = Get(h[i - 1], c[i])
  <2>1. CASE i <= n
    <3>1. i \in 1 .. n /\ i \in 0 .. n /\ i - 1 \in 0 .. n
      BY <2>1
    <3> QED
      BY <1>3, <1>4, <1>8, <3>1 DEF GetRun
  <2>2. CASE ~(i <= n)
    <3>1. PICK k \in 1 .. m : i = n + k /\ i - 1 = n + (k - 1) /\ k \in 0 .. m /\ k - 1 \in 0 .. m
      <4>1. i - n \in 1 .. m /\ i = n + (i - n) /\ i - 1 = n + ((i - n) - 1)
        BY <2>2
      <4> QED
        BY <4>1
    <3>2. h[n + k] = g[k] /\ h[n + (k - 1)] = g[k - 1] /\ c[n + k] = b[k]
      BY <1>3, <1>8, <3>1
    <3> QED
      BY <1>6, <3>1, <3>2 DEF GetRun
  <2> QED
    BY <2>1, <2>2
<1>10. GetRun(h, s, c, n + m)
  <2>1. h[0] = s
    BY <1>4, <1>8 DEF GetRun
  <2> QED
    BY <1>9, <2>1 DEF GetRun
<1>11. GetAll(s, c) = h[n + m]
  BY <1>3, <1>10, GetAllIs
<1> QED
  BY <1>2, <1>4, <1>5, <1>6, <1>8, <1>11

-----------------------------------------------------------------------------
(* Charsets and coding systems.                                            *)

Charsets == {"ascii", "latin", "hebrew", "kana", "jp", "jp2", "kr"}
Raised == {"A0", "latin+", "hebrew+", "kana+", "jp+", "jp2+", "kr+"}
Visible == {"LF", "CR", "SP", "B", "C", "B+", "C+", "CMP", "S"}
Signs == {"ESC", "CSI", "SI", "SO", "SS2", "SS3", "(", ")", "*", "+", ",", "-", ".", "/", "$", "[", "]",
          "0", "1", "2", "A", "D", "H", "I", "J", "N", "O", "@"}
Bytes == Charsets \union Raised \union Visible \union Signs
Slots == 0 .. 3
Graphics == [Slots -> Charsets \union {Inv}]

LEMMA CharsetsAre ==
  DOMAIN Set = Charsets /\ Lead = Charsets \ {"ascii"} /\ Inv \notin Charsets
<1>1. DOMAIN Set = Charsets
  BY DEF Set, Charsets
<1>2. Lead = Charsets \ {"ascii"}
  BY <1>1 DEF Lead
<1>3. Inv \notin Charsets
  BY DEF Charsets, Inv
<1> QED
  BY <1>1, <1>2, <1>3

LEMMA BytesAre ==
  /\ Charsets \subseteq Bytes /\ Raised \subseteq Bytes /\ Visible \subseteq Bytes /\ Signs \subseteq Bytes
  /\ Lead \subseteq Bytes
BY CharsetsAre DEF Bytes

LEMMA SetIs ==
  /\ /\ Set["ascii"].type = "94" /\ Set["ascii"].final = "B" /\ Set["ascii"].bytes = 1
     /\ Set["ascii"].graphic = 0 /\ Set["ascii"].rtl = FALSE /\ Set["ascii"].raised = "A0"
  /\ /\ Set["latin"].type = "96" /\ Set["latin"].final = "A" /\ Set["latin"].bytes = 1
     /\ Set["latin"].graphic = 1 /\ Set["latin"].rtl = FALSE /\ Set["latin"].raised = "latin+"
  /\ /\ Set["hebrew"].type = "96" /\ Set["hebrew"].final = "H" /\ Set["hebrew"].bytes = 1
     /\ Set["hebrew"].graphic = 1 /\ Set["hebrew"].rtl = TRUE /\ Set["hebrew"].raised = "hebrew+"
  /\ /\ Set["kana"].type = "94" /\ Set["kana"].final = "I" /\ Set["kana"].bytes = 1
     /\ Set["kana"].graphic = 1 /\ Set["kana"].rtl = FALSE /\ Set["kana"].raised = "kana+"
  /\ /\ Set["jp"].type = "94N" /\ Set["jp"].final = "B" /\ Set["jp"].bytes = 2
     /\ Set["jp"].graphic = 0 /\ Set["jp"].rtl = FALSE /\ Set["jp"].raised = "jp+"
  /\ /\ Set["jp2"].type = "94N" /\ Set["jp2"].final = "D" /\ Set["jp2"].bytes = 2
     /\ Set["jp2"].graphic = 0 /\ Set["jp2"].rtl = FALSE /\ Set["jp2"].raised = "jp2+"
  /\ /\ Set["kr"].type = "94N" /\ Set["kr"].final = "C" /\ Set["kr"].bytes = 2
     /\ Set["kr"].graphic = 0 /\ Set["kr"].rtl = FALSE /\ Set["kr"].raised = "kr+"
BY DEF Set, Charset

LEMMA CharsetFields ==
  ASSUME NEW lc \in Charsets
  PROVE  /\ Set[lc].type \in {"94", "96", "94N"} /\ Set[lc].final \in Bytes
         /\ Set[lc].bytes \in {1, 2} /\ Set[lc].graphic \in {0, 1} /\ Set[lc].rtl \in BOOLEAN
         /\ Set[lc].raised \in Raised
<1>2. /\ "A0" \in Raised /\ "latin+" \in Raised /\ "hebrew+" \in Raised /\ "kana+" \in Raised
      /\ "jp+" \in Raised /\ "jp2+" \in Raised /\ "kr+" \in Raised
  BY DEF Raised
<1>3. /\ "A" \in Bytes /\ "B" \in Bytes /\ "C" \in Bytes /\ "D" \in Bytes /\ "H" \in Bytes
      /\ "I" \in Bytes
  BY DEF Bytes, Visible, Signs
<1>4. CASE lc \in {"ascii", "latin"}
  BY <1>2, <1>3, <1>4, SetIs, ZenonT(60)
<1>5. CASE lc \in {"hebrew", "kana"}
  BY <1>2, <1>3, <1>5, SetIs, ZenonT(60)
<1>6. CASE lc \in {"jp", "jp2", "kr"}
  BY <1>2, <1>3, <1>6, SetIs, ZenonT(60)
<1> QED
  BY <1>4, <1>5, <1>6 DEF Charsets

(* What the coding systems have in common.                                 *)
Plausible(y) ==
  /\ y.type \in {"iso", "sjis", "autoconv"} /\ y.g \in Graphics /\ y.announced \in SUBSET Slots
  /\ y.ends \in SUBSET AnyEnd
Regular(y) ==
  /\ y.g[0] = "ascii" /\ "ascii-eol" \in y.flags
  /\ "seven" \in y.flags => y.g[3] = Inv
  /\ "ascii-cntl" \notin y.flags => "seven" \notin y.flags /\ y.g[1] # Inv

Filling(x) == x \in Charsets \union {Inv}
Ends(x) == x \in SUBSET AnyEnd
SomeSlots(x) == x \in SUBSET Slots

LEMMA IsoIs ==
  ASSUME NEW g1, Filling(g1), NEW g2, Filling(g2), NEW g3, Filling(g3), NEW announced,
         SomeSlots(announced), NEW flags, NEW ends, Ends(ends),
         NEW y, y = Iso(g1, g2, g3, announced, flags, ends)
  PROVE  /\ Plausible(y) /\ y.type = "iso" /\ y.flags = flags
         /\ y.g[0] = "ascii" /\ y.g[1] = g1 /\ y.g[3] = g3
<1>1. PICK g : g = [i \in 0 .. 3 |-> <<"ascii", g1, g2, g3>>[i + 1]]
  OBVIOUS
<1>2. g[0] = "ascii" /\ g[1] = g1 /\ g[2] = g2 /\ g[3] = g3
  BY <1>1
<1>3. ASSUME NEW i \in 0 .. 3 PROVE g[i] \in Charsets \union {Inv}
  <2>1. i = 0 \/ i = 1 \/ i = 2 \/ i = 3
    OBVIOUS
  <2> QED
    BY <1>2, <2>1 DEF Charsets, Filling
<1>4. g \in Graphics
  BY <1>1, <1>3 DEF Graphics, Slots
<1> QED
  BY <1>1, <1>2, <1>4 DEF Iso, Plausible, Ends, SomeSlots

Names == {"iso_2022_jp", "oldjis", "ctext", "euc_japan", "iso_2022_kr", "ss2_8", "ss2_7", "lock",
          "ss3_7", "sjis", "autoconv"}

LEMMA SystemIs ==
  /\ DOMAIN System = Names
  /\ \A c \in {"iso_2022_jp", "oldjis"} : \E flags :
       /\ System[c] = Iso(Inv, Inv, Inv, {}, flags, AnyEnd)
       /\ "ascii-eol" \in flags /\ "ascii-cntl" \in flags
  /\ System["ctext"] = Iso("latin", Inv, Inv, {}, {"ascii-eol"}, {"LF"})
  /\ System["euc_japan"] = Iso("jp", "kana", "jp2", {}, {"short", "ascii-eol", "ascii-cntl"}, AnyEnd)
  /\ System["iso_2022_kr"] =
       Iso("kr", Inv, Inv, {1}, {"ascii-eol", "ascii-cntl", "seven", "lock-shift"}, {"LF"})
  /\ \A c \in {"ss2_8", "ss2_7"} : \E flags :
       /\ System[c] = Iso(Inv, "ascii", Inv, {}, flags, AnyEnd)
       /\ "ascii-eol" \in flags /\ "ascii-cntl" \in flags
  /\ System["lock"] =
       Iso("ascii", Inv, Inv, {}, {"ascii-eol", "ascii-cntl", "seven", "lock-shift"}, AnyEnd)
  /\ \E flags : System["ss3_7"] = Iso(Inv, Inv, "ascii", {}, flags, AnyEnd)
  /\ System["sjis"] = [Iso(Inv, Inv, Inv, {}, {}, AnyEnd) EXCEPT !.type = "sjis"]
  /\ System["autoconv"] = [Iso(Inv, Inv, Inv, {}, {}, AnyEnd) EXCEPT !.type = "autoconv"]
BY DEF System, Names

LEMMA SystemsArePlausible ==
  ASSUME NEW c \in DOMAIN System
  PROVE  Plausible(System[c]) /\ (System[c].type = "iso" /\ c # "ss3_7" => Regular(System[c]))
<1>1. SomeSlots({}) /\ SomeSlots({1}) /\ Ends(AnyEnd) /\ Ends({"LF"}) /\ Filling(Inv)
  BY DEF SomeSlots, Ends, Filling, Slots, AnyEnd
<1>2. Filling("latin") /\ Filling("jp") /\ Filling("jp2") /\ Filling("kana") /\ Filling("kr")
      /\ Filling("ascii")
  BY DEF Filling, Charsets
<1>3. PICK y : y = System[c]
  OBVIOUS
<1>4. CASE c \in {"iso_2022_jp", "oldjis"}
  <2>1. PICK flags : y = Iso(Inv, Inv, Inv, {}, flags, AnyEnd) /\ "ascii-eol" \in flags /\ "ascii-cntl" \in flags
    BY <1>1, <1>3, <1>4, SystemIs
  <2>2. /\ Plausible(y) /\ y.type = "iso" /\ y.flags = flags /\ y.g[0] = "ascii" /\ y.g[3] = Inv
    BY <1>1, <2>1, IsoIs
  <2> QED
    BY <1>1, <1>3, <2>1, <2>2 DEF Regular
<1>5. CASE c = "ctext"
  <2>1. PICK flags, ends : /\ y = Iso("latin", Inv, Inv, {}, flags, ends) /\ flags = {"ascii-eol"}
                           /\ Ends(ends)
    BY <1>1, <1>2, <1>3, <1>5, SystemIs
  <2>2. /\ Plausible(y) /\ y.type = "iso" /\ y.flags = flags /\ y.g[0] = "ascii"
        /\ y.g[1] = "latin"
    BY <1>1, <1>2, <2>1, IsoIs
  <2> QED
    BY <1>3, <2>1, <2>2 DEF Regular, Inv
<1>6. CASE c = "euc_japan"
  <2>1. PICK flags : /\ y = Iso("jp", "kana", "jp2", {}, flags, AnyEnd)
                     /\ flags = {"short", "ascii-eol", "ascii-cntl"}
    BY <1>1, <1>3, <1>6, SystemIs
  <2>2. Plausible(y) /\ y.type = "iso" /\ y.flags = flags /\ y.g[0] = "ascii"
    BY <1>1, <1>2, <2>1, IsoIs
  <2> QED
    BY <1>3, <2>1, <2>2 DEF Regular
<1>7. CASE c = "iso_2022_kr"
  <2>1. PICK flags, ends, announced :
          /\ y = Iso("kr", Inv, Inv, announced, flags, ends) /\ SomeSlots(announced)
          /\ flags = {"ascii-eol", "ascii-cntl", "seven", "lock-shift"} /\ Ends(ends)
    BY <1>1, <1>2, <1>3, <1>7, SystemIs
  <2>2. Plausible(y) /\ y.type = "iso" /\ y.flags = flags /\ y.g[0] = "ascii" /\ y.g[3] = Inv
    BY <1>1, <1>2, <2>1, IsoIs
  <2> QED
    BY <1>1, <1>3, <2>1, <2>2 DEF Regular
<1>8. CASE c \in {"ss2_8", "ss2_7"}
  <2>1. PICK flags : /\ y = Iso(Inv, "ascii", Inv, {}, flags, AnyEnd)
                     /\ "ascii-eol" \in flags /\ "ascii-cntl" \in flags
    BY <1>1, <1>3, <1>8, SystemIs
  <2>2. /\ Plausible(y) /\ y.type = "iso" /\ y.flags = flags /\ y.g[0] = "ascii" /\ y.g[3] = Inv
    BY <1>1, <1>2, <2>1, IsoIs
  <2> QED
    BY <1>1, <1>3, <2>1, <2>2 DEF Regular
<1>9. CASE c = "lock"
  <2>1. PICK flags : /\ y = Iso("ascii", Inv, Inv, {}, flags, AnyEnd)
                     /\ flags = {"ascii-eol", "ascii-cntl", "seven", "lock-shift"}
    BY <1>1, <1>3, <1>9, SystemIs
  <2>2. /\ Plausible(y) /\ y.type = "iso" /\ y.flags = flags /\ y.g[0] = "ascii" /\ y.g[3] = Inv
    BY <1>1, <1>2, <2>1, IsoIs
  <2> QED
    BY <1>1, <1>3, <2>1, <2>2 DEF Regular
<1>10. CASE c = "ss3_7"
  <2>1. PICK flags : y = Iso(Inv, Inv, "ascii", {}, flags, AnyEnd)
    BY <1>1, <1>3, <1>10, SystemIs
  <2>2. Plausible(y)
    BY <1>1, <1>2, <2>1, IsoIs
  <2> QED
    BY <1>3, <1>10, <2>2
<1>11. PICK z : z = Iso(Inv, Inv, Inv, {}, {}, AnyEnd)
  OBVIOUS
<1>12. Plausible(z)
  BY <1>1, <1>11, IsoIs
<1>13. CASE c = "sjis"
  <2>1. y = [z EXCEPT !.type = "sjis"]
    BY <1>1, <1>3, <1>11, <1>13, SystemIs
  <2> QED
    BY <1>3, <1>11, <1>12, <2>1 DEF Plausible, Iso
<1>14. CASE c = "autoconv"
  <2>1. y = [z EXCEPT !.type = "autoconv"]
    BY <1>1, <1>3, <1>11, <1>14, SystemIs
  <2> QED
    BY <1>3, <1>11, <1>12, <2>1 DEF Plausible, Iso
<1> QED
  BY <1>4, <1>5, <1>6, <1>7, <1>8, <1>9, <1>10, <1>13, <1>14, SystemIs DEF Names

-----------------------------------------------------------------------------
(* Writers: coding_type while it decodes.  Two that Lock differ only in    *)
(* what the second one has written before, p, and stay so: decode does not *)
(* look at what it has written.                                            *)

Marks == {"no", "lead", "ascii", "nonascii"}
Writers == [code : DOMAIN System, eol : AnyEnd, g : Graphics, announce : SUBSET Slots, in : Slots,
            shifted : BOOLEAN, rtl : BOOLEAN, cmp : Marks, ch : Seq(Bytes), out : Seq(Bytes)]
Lock(s, q, p) ==
  /\ s \in Writers /\ q \in Writers /\ p \in Seq(Bytes)
  /\ q.code = s.code /\ q.eol = s.eol /\ q.g = s.g /\ q.announce = s.announce /\ q.in = s.in
  /\ q.shifted = s.shifted /\ q.rtl = s.rtl /\ q.cmp = s.cmp /\ q.ch = s.ch
  /\ q.out = p \o s.out

LEMMA WriterFields ==
  ASSUME NEW s \in Writers
  PROVE  /\ s.code \in DOMAIN System /\ s.eol \in AnyEnd /\ s.g \in Graphics
         /\ s.announce \in SUBSET Slots /\ s.in \in Slots /\ s.shifted \in BOOLEAN
         /\ s.rtl \in BOOLEAN /\ s.cmp \in Marks /\ s.ch \in Seq(Bytes) /\ s.out \in Seq(Bytes)
BY DEF Writers

LEMMA SameWriter ==
  ASSUME NEW s \in Writers, NEW q \in Writers, q.code = s.code, q.eol = s.eol, q.g = s.g,
         q.announce = s.announce, q.in = s.in, q.shifted = s.shifted, q.rtl = s.rtl,
         q.cmp = s.cmp, q.ch = s.ch, q.out = s.out
  PROVE  q = s
BY DEF Writers

LEMMA Associates ==
  ASSUME NEW a \in Seq(Bytes), NEW b \in Seq(Bytes), NEW c \in Seq(Bytes)
  PROVE  (a \o b) \o c = a \o (b \o c) /\ a \o b \in Seq(Bytes) /\ (a \o b) \o c \in Seq(Bytes)
OBVIOUS

LEMMA LockEmit ==
  ASSUME NEW s, NEW q, NEW p, Lock(s, q, p), NEW b \in Seq(Bytes)
  PROVE  Lock(Emit(s, b), Emit(q, b), p)
<1>1. s \in Writers /\ q \in Writers /\ p \in Seq(Bytes) /\ q.out = p \o s.out
  BY DEF Lock
<1>2. PICK o \in Seq(Bytes) : o = s.out
  BY <1>1, WriterFields
<1>0. p \in Seq(Bytes) /\ q.out = p \o o
  BY <1>1, <1>2
<1>3. /\ (p \o o) \o b = p \o (o \o b) /\ o \o b \in Seq(Bytes)
      /\ (p \o o) \o b \in Seq(Bytes)
  BY <1>0, Associates
<1>4. PICK x : x = o \o b
  OBVIOUS
<1>5. PICK y : y = (p \o o) \o b
  OBVIOUS
<1>6. Emit(s, b) = [s EXCEPT !.out = x] /\ Emit(q, b) = [q EXCEPT !.out = y]
  BY <1>0, <1>2, <1>4, <1>5 DEF Emit
<1>7. y = p \o x /\ x \in Seq(Bytes) /\ y \in Seq(Bytes)
  BY <1>3, <1>4, <1>5
<1> QED
  BY <1>6, <1>7 DEF Lock, Writers

LEMMA LockSet ==
  ASSUME NEW s, NEW q, NEW p, Lock(s, q, p)
  PROVE  /\ \A x \in Slots : Lock([s EXCEPT !.in = x], [q EXCEPT !.in = x], p)
         /\ \A x \in BOOLEAN : Lock([s EXCEPT !.shifted = x], [q EXCEPT !.shifted = x], p)
         /\ \A x \in BOOLEAN : Lock([s EXCEPT !.rtl = x], [q EXCEPT !.rtl = x], p)
         /\ \A x \in Marks : Lock([s EXCEPT !.cmp = x], [q EXCEPT !.cmp = x], p)
         /\ \A x \in Seq(Bytes) : Lock([s EXCEPT !.ch = x], [q EXCEPT !.ch = x], p)
         /\ \A x \in Graphics : Lock([s EXCEPT !.g = x], [q EXCEPT !.g = x], p)
         /\ \A x \in SUBSET Slots : Lock([s EXCEPT !.announce = x], [q EXCEPT !.announce = x], p)
<1>1. ASSUME NEW x \in Slots PROVE Lock([s EXCEPT !.in = x], [q EXCEPT !.in = x], p)
  BY DEF Lock, Writers
<1>2. ASSUME NEW x \in BOOLEAN PROVE Lock([s EXCEPT !.shifted = x], [q EXCEPT !.shifted = x], p)
  BY DEF Lock, Writers
<1>3. ASSUME NEW x \in BOOLEAN PROVE Lock([s EXCEPT !.rtl = x], [q EXCEPT !.rtl = x], p)
  BY DEF Lock, Writers
<1>4. ASSUME NEW x \in Marks PROVE Lock([s EXCEPT !.cmp = x], [q EXCEPT !.cmp = x], p)
  BY DEF Lock, Writers
<1>5. ASSUME NEW x \in Seq(Bytes) PROVE Lock([s EXCEPT !.ch = x], [q EXCEPT !.ch = x], p)
  BY DEF Lock, Writers
<1>6. ASSUME NEW x \in Graphics PROVE Lock([s EXCEPT !.g = x], [q EXCEPT !.g = x], p)
  BY DEF Lock, Writers
<1>7. ASSUME NEW x \in SUBSET Slots PROVE Lock([s EXCEPT !.announce = x], [q EXCEPT !.announce = x], p)
  BY DEF Lock, Writers
<1> QED
  BY <1>1, <1>2, <1>3, <1>4, <1>5, <1>6, <1>7

LEMMA SignsAre ==
  /\ "ESC" \in Bytes /\ "CSI" \in Bytes /\ "SI" \in Bytes /\ "SO" \in Bytes /\ "SS2" \in Bytes
  /\ "SS3" \in Bytes /\ "(" \in Bytes /\ ")" \in Bytes /\ "*" \in Bytes /\ "+" \in Bytes
  /\ "," \in Bytes /\ "-" \in Bytes /\ "." \in Bytes /\ "/" \in Bytes /\ "$" \in Bytes
  /\ "[" \in Bytes /\ "]" \in Bytes /\ "0" \in Bytes /\ "1" \in Bytes /\ "2" \in Bytes
  /\ "J" \in Bytes /\ "N" \in Bytes /\ "O" \in Bytes /\ "@" \in Bytes /\ "S" \in Bytes
  /\ "LF" \in Bytes /\ "CR" \in Bytes /\ "SP" \in Bytes /\ "B" \in Bytes /\ "C" \in Bytes
  /\ "B+" \in Bytes /\ "C+" \in Bytes /\ "CMP" \in Bytes /\ "A0" \in Bytes
BY DEF Bytes, Signs, Visible, Raised

LEMMA ShortSequences ==
  ASSUME NEW a \in Bytes, NEW b \in Bytes, NEW c \in Bytes, NEW d \in Bytes
  PROVE  /\ <<>> \in Seq(Bytes) /\ << a >> \in Seq(Bytes) /\ << a, b >> \in Seq(Bytes)
         /\ << a, b, c >> \in Seq(Bytes) /\ << a, b, c, d >> \in Seq(Bytes)
OBVIOUS

LEMMA SignSequences ==
  /\ <<"SI">> \in Seq(Bytes) /\ <<"SO">> \in Seq(Bytes) /\ <<"ESC", "N">> \in Seq(Bytes)
  /\ <<"SS2">> \in Seq(Bytes) /\ <<"SS3">> \in Seq(Bytes) /\ <<"ESC", "[">> \in Seq(Bytes)
  /\ <<"CSI">> \in Seq(Bytes) /\ <<"0", "]">> \in Seq(Bytes) /\ <<"]">> \in Seq(Bytes)
  /\ <<"2", "]">> \in Seq(Bytes) /\ <<"ESC", "0">> \in Seq(Bytes) /\ <<"ESC", "1">> \in Seq(Bytes)
  /\ <<"ESC">> \in Seq(Bytes) /\ <<"LF">> \in Seq(Bytes) /\ <<"CR">> \in Seq(Bytes)
  /\ <<"CR", "LF">> \in Seq(Bytes) /\ <<"CMP">> \in Seq(Bytes) /\ <<"$">> \in Seq(Bytes)
<1>1. ASSUME NEW a \in Bytes, NEW b \in Bytes
      PROVE  << a >> \in Seq(Bytes) /\ << a, b >> \in Seq(Bytes)
  OBVIOUS
<1>2. /\ <<"SI">> \in Seq(Bytes) /\ <<"SO">> \in Seq(Bytes) /\ <<"SS2">> \in Seq(Bytes)
      /\ <<"SS3">> \in Seq(Bytes) /\ <<"CSI">> \in Seq(Bytes) /\ <<"]">> \in Seq(Bytes)
      /\ <<"ESC">> \in Seq(Bytes) /\ <<"LF">> \in Seq(Bytes) /\ <<"CR">> \in Seq(Bytes)
      /\ <<"CMP">> \in Seq(Bytes) /\ <<"$">> \in Seq(Bytes)
  BY <1>1, SignsAre, Zenon
<1>3. /\ <<"ESC", "N">> \in Seq(Bytes) /\ <<"ESC", "[">> \in Seq(Bytes)
      /\ <<"0", "]">> \in Seq(Bytes) /\ <<"2", "]">> \in Seq(Bytes) /\ <<"ESC", "0">> \in Seq(Bytes)
      /\ <<"ESC", "1">> \in Seq(Bytes) /\ <<"CR", "LF">> \in Seq(Bytes)
  BY <1>1, SignsAre, Zenon
<1> QED
  BY <1>2, <1>3

LEMMA WhenIs ==
  ASSUME NEW b \in Seq(Bytes), NEW x
  PROVE  When(x, b) \in Seq(Bytes)
BY DEF When

LEMMA LowHigh ==
  ASSUME NEW c \in Bytes
  PROVE  Low(c) \in Bytes /\ High(c) \in Bytes
BY SignsAre, Zenon DEF Low, High

LEMMA Slot ==
  ASSUME NEW g \in Slots
  PROVE  g = 0 \/ g = 1 \/ g = 2 \/ g = 3
BY DEF Slots

(* The bytes between ESC and the final one.                                *)
LEMMA InterIs ==
  /\ Inter94[0 + 1] = "(" /\ Inter94[1 + 1] = ")" /\ Inter94[2 + 1] = "*" /\ Inter94[3 + 1] = "+"
  /\ Inter96[0 + 1] = "," /\ Inter96[1 + 1] = "-" /\ Inter96[2 + 1] = "." /\ Inter96[3 + 1] = "/"
BY DEF Inter94, Inter96

LEMMA InterBytes ==
  ASSUME NEW g \in Slots
  PROVE  Inter94[g + 1] \in Bytes /\ Inter96[g + 1] \in Bytes
<1>1. g = 0 \/ g = 1 \/ g = 2 \/ g = 3
  BY Slot
<1> QED
  BY <1>1, InterIs, SignsAre, Zenon

(* A designation is ESC, what stands between, and the final byte.          *)
Between(s, lc, g) ==
  CASE Set[lc].type = "94" -> <<Inter94[g + 1]>>
    [] Set[lc].type = "96" -> <<Inter96[g + 1]>>
    [] OTHER -> IF g = 0 /\ Flag(s, "short") /\ lc = "jp" THEN <<"$">> ELSE <<"$", Inter94[g + 1]>>
Ending(s, lc) ==
  IF lc = "ascii" /\ Flag(s, "use-roman") THEN "J"
  ELSE IF lc = "jp" /\ Flag(s, "use-oldjis") THEN "@" ELSE Set[lc].final

LEMMA DesignationIs ==
  ASSUME NEW s, NEW lc \in Charsets, NEW g \in Slots
  PROVE  /\ Designation(s, lc, g) = (<<"ESC">> \o Between(s, lc, g)) \o << Ending(s, lc) >>
         /\ Between(s, lc, g) \in Seq(Bytes) /\ Ending(s, lc) \in Bytes
         /\ Designation(s, lc, g) \in Seq(Bytes)
<1>1. Inter94[g + 1] \in Bytes /\ Inter96[g + 1] \in Bytes
  BY InterBytes
<1>2. PICK a \in Bytes : a = Inter94[g + 1]
  BY <1>1
<1>3. PICK b \in Bytes : b = Inter96[g + 1]
  BY <1>1
<1>4. << a >> \in Seq(Bytes) /\ << b >> \in Seq(Bytes) /\ <<"$">> \in Seq(Bytes) /\ <<"$", a>> \in Seq(Bytes)
      /\ <<"ESC">> \in Seq(Bytes)
  BY SignsAre, ShortSequences, Zenon
<1>5. Between(s, lc, g) \in Seq(Bytes)
  BY <1>2, <1>3, <1>4, CharsetFields DEF Between
<1>6. Ending(s, lc) \in Bytes
  BY SignsAre, CharsetFields, Zenon DEF Ending
<1>7. << Ending(s, lc) >> \in Seq(Bytes)
  BY <1>6, ShortSequences
<1>8. Designation(s, lc, g) = (<<"ESC">> \o Between(s, lc, g)) \o << Ending(s, lc) >>
  BY DEF Designation, Between, Ending
<1> QED
  BY <1>4, <1>5, <1>6, <1>7, <1>8, Associates

LEMMA LockSame ==
  ASSUME NEW s, NEW q, NEW p, Lock(s, q, p)
  PROVE  /\ s \in Writers /\ q \in Writers /\ System[q.code] = System[s.code]
         /\ \A f : Flag(q, f) = Flag(s, f)
         /\ \A lc, g : Designation(q, lc, g) = Designation(s, lc, g)
<1>1. s \in Writers /\ q \in Writers /\ System[q.code] = System[s.code]
  BY DEF Lock
<1>2. ASSUME NEW f PROVE Flag(q, f) = Flag(s, f)
  BY <1>1 DEF Flag
<1>3. ASSUME NEW lc, NEW g PROVE Designation(q, lc, g) = Designation(s, lc, g)
  BY <1>2, Zenon DEF Designation
<1> QED
  BY <1>1, <1>2, <1>3

LEMMA LockSend ==
  ASSUME NEW s, NEW q, NEW p, Lock(s, q, p), NEW lc \in Charsets, NEW g \in Slots
  PROVE  /\ Lock([s EXCEPT !.g[g] = lc], [q EXCEPT !.g[g] = lc], p)
         /\ [s EXCEPT !.g[g] = lc].g[g] = lc
<1>1. s \in Writers /\ q \in Writers /\ q.g = s.g
  BY DEF Lock
<1>2. s.g \in Graphics
  BY <1>1, WriterFields
<1>3. PICK x : x = [s.g EXCEPT ![g] = lc]
  OBVIOUS
<1>4. x \in Graphics /\ x[g] = lc
  BY <1>2, <1>3 DEF Graphics
<1>5. [s EXCEPT !.g[g] = lc] = [s EXCEPT !.g = x] /\ [q EXCEPT !.g[g] = lc] = [q EXCEPT !.g = x]
  BY <1>1, <1>3
<1>6. [s EXCEPT !.g = x].g = x
  BY <1>1 DEF Writers
<1> QED
  BY <1>4, <1>5, <1>6, LockSet

LEMMA LockDesignate ==
  ASSUME NEW s, NEW q, NEW p, Lock(s, q, p), NEW lc \in Charsets, NEW g \in Slots
  PROVE  Lock(Designate(s, lc, g), Designate(q, lc, g), p)
<1>1. PICK b \in Seq(Bytes) : b = When(s.g[g] # lc, Designation(s, lc, g))
  BY DesignationIs, WhenIs
<1>2. b = When(q.g[g] # lc, Designation(q, lc, g))
  <2>1. \A x, y : Designation(q, x, y) = Designation(s, x, y)
    BY LockSame
  <2>2. q.g = s.g
    BY DEF Lock
  <2> QED
    BY <1>1, <2>1, <2>2
<1>3. Lock(Emit(s, b), Emit(q, b), p)
  BY LockEmit
<1>4. Lock([Emit(s, b) EXCEPT !.g[g] = lc], [Emit(q, b) EXCEPT !.g[g] = lc], p)
  BY <1>3, LockSend
<1> QED
  BY <1>1, <1>2, <1>4 DEF Designate

LEMMA LockShiftIn ==
  ASSUME NEW s, NEW q, NEW p, Lock(s, q, p)
  PROVE  Lock(ShiftIn(s), ShiftIn(q), p)
<1>1. <<"SI">> \in Seq(Bytes)
  BY SignSequences
<1>2. PICK b \in Seq(Bytes) : b = When(s.shifted, <<"SI">>)
  BY <1>1, WhenIs
<1>3. b = When(q.shifted, <<"SI">>)
  BY <1>2 DEF Lock
<1>4. Lock(Emit(s, b), Emit(q, b), p)
  BY LockEmit
<1> QED
  BY <1>2, <1>3, <1>4, LockSet DEF ShiftIn

LEMMA LockIn ==
  ASSUME NEW s, NEW q, NEW p, Lock(s, q, p), NEW g \in Slots
  PROVE  Lock(In(s, g), In(q, g), p)
BY LockSet DEF In

LEMMA LockToG0 ==
  ASSUME NEW s, NEW q, NEW p, Lock(s, q, p), NEW lc \in Charsets
  PROVE  Lock(ToG0(s, lc), ToG0(q, lc), p)
<1>1. 0 \in Slots
  BY DEF Slots
<1> QED
  BY <1>1, LockShiftIn, LockDesignate, LockIn DEF ToG0

LEMMA LockToG1 ==
  ASSUME NEW s, NEW q, NEW p, Lock(s, q, p), NEW lc \in Charsets
  PROVE  Lock(ToG1(s, lc), ToG1(q, lc), p)
<1>1. 1 \in Slots
  BY DEF Slots
<1> QED
  BY <1>1, LockShiftIn, LockDesignate, LockIn DEF ToG1

LEMMA LockLockingShift ==
  ASSUME NEW s, NEW q, NEW p, Lock(s, q, p), NEW lc \in Charsets
  PROVE  Lock(LockingShift(s, lc), LockingShift(q, lc), p)
<1>1. 1 \in Slots /\ <<"SO">> \in Seq(Bytes)
  BY SignSequences DEF Slots
<1>2. PICK b \in Seq(Bytes) : b = When(~s.shifted, <<"SO">>)
  BY <1>1, WhenIs
<1>3. b = When(~q.shifted, <<"SO">>)
  BY <1>2 DEF Lock
<1>4. Lock(In(Designate(s, lc, 1), 1), In(Designate(q, lc, 1), 1), p)
  BY <1>1, LockDesignate, LockIn
<1>5. Lock(Emit(In(Designate(s, lc, 1), 1), b), Emit(In(Designate(q, lc, 1), 1), b), p)
  BY <1>4, LockEmit
<1> QED
  BY <1>2, <1>3, <1>5, LockSet DEF LockingShift

LEMMA LockSingleShifts ==
  ASSUME NEW s, NEW q, NEW p, Lock(s, q, p), NEW lc \in Charsets
  PROVE  /\ Lock(SingleShift2(s, lc), SingleShift2(q, lc), p)
         /\ Lock(SingleShift3(s, lc), SingleShift3(q, lc), p)
<1>1. 2 \in Slots /\ 3 \in Slots
  BY DEF Slots
<1>2. <<"ESC", "N">> \in Seq(Bytes) /\ <<"SS2">> \in Seq(Bytes) /\ <<"SS3">> \in Seq(Bytes)
  BY SignSequences
<1>3. PICK b \in Seq(Bytes) : b = IF Flag(s, "seven") THEN <<"ESC", "N">> ELSE <<"SS2">>
  BY <1>2
<1>4. PICK c \in Seq(Bytes) : c = IF Flag(s, "seven") THEN <<"ESC", "N">> ELSE <<"SS3">>
  BY <1>2
<1>5. /\ b = IF Flag(q, "seven") THEN <<"ESC", "N">> ELSE <<"SS2">>
      /\ c = IF Flag(q, "seven") THEN <<"ESC", "N">> ELSE <<"SS3">>
  BY <1>3, <1>4, LockSame
<1>6. /\ Lock(Emit(Designate(s, lc, 2), b), Emit(Designate(q, lc, 2), b), p)
      /\ Lock(Emit(Designate(s, lc, 3), c), Emit(Designate(q, lc, 3), c), p)
  BY <1>1, LockDesignate, LockEmit
<1> QED
  BY <1>1, <1>3, <1>4, <1>5, <1>6, LockIn DEF SingleShift2, SingleShift3

LEMMA CsiIs ==
  ASSUME NEW s
  PROVE  Csi(s) \in Seq(Bytes)
<1>1. <<"ESC", "[">> \in Seq(Bytes) /\ <<"CSI">> \in Seq(Bytes)
  BY SignSequences
<1> QED
  BY <1>1 DEF Csi

LEMMA LockLeftToRight ==
  ASSUME NEW s, NEW q, NEW p, Lock(s, q, p)
  PROVE  Lock(LeftToRight(s), LeftToRight(q), p)
<1>1. <<"0", "]">> \in Seq(Bytes) /\ <<"]">> \in Seq(Bytes) /\ Csi(s) \in Seq(Bytes)
  BY SignSequences, CsiIs
<1>2. PICK d \in Seq(Bytes) : d = IF Flag(s, "seven") THEN <<"0", "]">> ELSE <<"]">>
  BY <1>1
<1>3. d = IF Flag(q, "seven") THEN <<"0", "]">> ELSE <<"]">>
  BY <1>2, LockSame
<1>4. Csi(q) = Csi(s) /\ Csi(s) \o d \in Seq(Bytes)
  BY <1>1, LockSame, Associates DEF Csi
<1>5. PICK b \in Seq(Bytes) : b = When(s.rtl, Csi(s) \o d)
  BY <1>4, WhenIs
<1>6. b = When(q.rtl, Csi(q) \o d)
  BY <1>4, <1>5 DEF Lock
<1>7. Lock(Emit(s, b), Emit(q, b), p)
  BY LockEmit
<1> QED
  BY <1>2, <1>3, <1>5, <1>6, <1>7, LockSet DEF LeftToRight

LEMMA LockRightToLeft ==
  ASSUME NEW s, NEW q, NEW p, Lock(s, q, p)
  PROVE  Lock(RightToLeft(s), RightToLeft(q), p)
<1>1. PICK d \in Seq(Bytes) : d = <<"2", "]">>
  BY SignSequences
<1>2. Csi(s) \in Seq(Bytes) /\ Csi(q) = Csi(s)
  BY CsiIs, LockSame DEF Csi
<1>3. Csi(s) \o d \in Seq(Bytes)
  BY <1>2, Associates
<1>4. PICK b \in Seq(Bytes) : b = When(~s.rtl, Csi(s) \o d)
  BY <1>3, WhenIs
<1>5. b = When(~q.rtl, Csi(q) \o d)
  BY <1>2, <1>4 DEF Lock
<1>6. Lock(Emit(s, b), Emit(q, b), p)
  BY LockEmit
<1> QED
  BY <1>1, <1>4, <1>5, <1>6, LockSet DEF RightToLeft

LEMMA LockAnnounced ==
  ASSUME NEW s, NEW q, NEW p, Lock(s, q, p), NEW g \in Slots
  PROVE  Lock(Announced(s, g), Announced(q, g), p)
<1>1. s \in Writers /\ q \in Writers /\ q.g = s.g /\ q.announce = s.announce
  BY DEF Lock
<1>2. s.g \in Graphics /\ s.announce \in SUBSET Slots
  BY <1>1, WriterFields
<1>3. PICK x : x = [s.g EXCEPT ![g] = IF g \in s.announce THEN Inv ELSE @]
  OBVIOUS
<1>4. x \in Graphics
  BY <1>2, <1>3 DEF Graphics
<1>5. PICK y \in SUBSET Slots : y = s.announce \ {g}
  BY <1>2
<1>6. PICK s1, q1 : s1 = [s EXCEPT !.g = x] /\ q1 = [q EXCEPT !.g = x]
  OBVIOUS
<1>7. Lock(s1, q1, p)
  BY <1>4, <1>6, LockSet
<1>8. /\ Announced(s, g) = [s1 EXCEPT !.announce = y]
      /\ Announced(q, g) = [q1 EXCEPT !.announce = y]
  BY <1>1, <1>3, <1>5, <1>6 DEF Announced, Writers
<1>9. Lock([s1 EXCEPT !.announce = y], [q1 EXCEPT !.announce = y], p)
  BY <1>7, LockSet
<1> QED
  BY <1>8, <1>9

LEMMA LockGraphic ==
  ASSUME NEW s, NEW q, NEW p, Lock(s, q, p), NEW lc \in Charsets
  PROVE  Lock(Graphic(s, lc), Graphic(q, lc), p)
<1>1. \A g : Home(q, lc, g) = Home(s, lc, g)
  BY LockSame DEF Home, Lock
<1>2. Flag(q, "seven") = Flag(s, "seven") /\ Flag(q, "lock-shift") = Flag(s, "lock-shift") /\ q.g = s.g
  BY LockSame DEF Lock
<1>3. \A g \in Slots : Lock(Announced(s, g), Announced(q, g), p)
  BY LockAnnounced
<1>4. 0 \in Slots /\ 1 \in Slots /\ 2 \in Slots /\ 3 \in Slots
  BY DEF Slots
<1>5. \A s1, q1 : Lock(s1, q1, p) => /\ Lock(ToG0(s1, lc), ToG0(q1, lc), p)
                                     /\ Lock(ToG1(s1, lc), ToG1(q1, lc), p)
                                     /\ Lock(LockingShift(s1, lc), LockingShift(q1, lc), p)
                                     /\ Lock(SingleShift2(s1, lc), SingleShift2(q1, lc), p)
                                     /\ Lock(SingleShift3(s1, lc), SingleShift3(q1, lc), p)
  BY LockToG0, LockToG1, LockLockingShift, LockSingleShifts
<1>6. CASE Home(s, lc, 0)
  <2>1. /\ Graphic(s, lc) = ToG0(Announced(s, 0), lc)
        /\ Graphic(q, lc) = ToG0(Announced(q, 0), lc)
    BY <1>1, <1>6 DEF Graphic
  <2> QED
    BY <1>3, <1>4, <1>5, <2>1
<1>7. CASE ~Home(s, lc, 0) /\ Home(s, lc, 1)
  <2>1. \E g \in 0 .. 1 : Home(s, lc, g)
    BY <1>7
  <2>2. \E g \in 0 .. 2 : Home(s, lc, g)
    BY <1>7
  <2>3. /\ Graphic(s, lc) = IF Flag(s, "seven") THEN LockingShift(Announced(s, 1), lc)
                                                ELSE ToG1(Announced(s, 1), lc)
        /\ Graphic(q, lc) = IF Flag(s, "seven") THEN LockingShift(Announced(q, 1), lc)
                                                ELSE ToG1(Announced(q, 1), lc)
    BY <1>1, <1>2, <1>7, <2>1, <2>2 DEF Graphic
  <2> QED
    BY <1>3, <1>4, <1>5, <2>3
<1>8. CASE ~(\E g \in 0 .. 1 : Home(s, lc, g)) /\ Home(s, lc, 2)
  <2>1. ~Home(s, lc, 0) /\ ~Home(s, lc, 1) /\ \E g \in 0 .. 2 : Home(s, lc, g)
    BY <1>8
  <2>2. /\ Graphic(s, lc) = SingleShift2(Announced(s, 2), lc)
        /\ Graphic(q, lc) = SingleShift2(Announced(q, 2), lc)
    BY <1>1, <1>8, <2>1 DEF Graphic
  <2> QED
    BY <1>3, <1>4, <1>5, <2>2
<1>9. CASE ~(\E g \in 0 .. 2 : Home(s, lc, g)) /\ Home(s, lc, 3)
  <2>1. ~Home(s, lc, 0) /\ ~Home(s, lc, 1) /\ ~Home(s, lc, 2)
    BY <1>9
  <2>2. ~\E g \in 0 .. 1 : Home(s, lc, g)
    BY <1>9
  <2>3. /\ Graphic(s, lc) = SingleShift3(Announced(s, 3), lc)
        /\ Graphic(q, lc) = SingleShift3(Announced(q, 3), lc)
    BY <1>1, <1>9, <2>1, <2>2 DEF Graphic
  <2> QED
    BY <1>3, <1>4, <1>5, <2>3
<1>10. CASE ~Home(s, lc, 0) /\ ~Home(s, lc, 1) /\ ~Home(s, lc, 2) /\ ~Home(s, lc, 3)
  <2>1. Graphic(s, lc) =
          IF Set[lc].graphic = 0 THEN ToG0(s, lc)
          ELSE IF s.g[1] # Inv /\ ~Flag(s, "seven") THEN ToG1(s, lc)
          ELSE IF s.g[1] # Inv /\ Flag(s, "lock-shift") THEN LockingShift(s, lc)
          ELSE IF s.g[2] # Inv THEN SingleShift2(s, lc)
          ELSE IF s.g[3] # Inv THEN SingleShift3(s, lc)
          ELSE ToG0(s, lc)
    BY <1>10, Zenon DEF Graphic
  <2>2. Graphic(q, lc) =
          IF Set[lc].graphic = 0 THEN ToG0(q, lc)
          ELSE IF s.g[1] # Inv /\ ~Flag(s, "seven") THEN ToG1(q, lc)
          ELSE IF s.g[1] # Inv /\ Flag(s, "lock-shift") THEN LockingShift(q, lc)
          ELSE IF s.g[2] # Inv THEN SingleShift2(q, lc)
          ELSE IF s.g[3] # Inv THEN SingleShift3(q, lc)
          ELSE ToG0(q, lc)
    BY <1>1, <1>2, <1>10, Zenon DEF Graphic
  <2> QED
    BY <1>5, <2>1, <2>2
<1>11. (\E g \in 0 .. 1 : Home(s, lc, g)) <=> Home(s, lc, 0) \/ Home(s, lc, 1)
  <2>1. ASSUME NEW g \in 0 .. 1, Home(s, lc, g) PROVE Home(s, lc, 0) \/ Home(s, lc, 1)
    <3>1. g = 0 \/ g = 1
      OBVIOUS
    <3> QED
      BY <2>1, <3>1
  <2> QED
    BY <2>1
<1>12. (\E g \in 0 .. 2 : Home(s, lc, g)) <=> Home(s, lc, 0) \/ Home(s, lc, 1) \/ Home(s, lc, 2)
  <2>1. ASSUME NEW g \in 0 .. 2, Home(s, lc, g)
        PROVE  Home(s, lc, 0) \/ Home(s, lc, 1) \/ Home(s, lc, 2)
    <3>1. g = 0 \/ g = 1 \/ g = 2
      OBVIOUS
    <3> QED
      BY <2>1, <3>1
  <2> QED
    BY <2>1
<1> QED
  BY <1>6, <1>7, <1>8, <1>9, <1>10, <1>11, <1>12

LEMMA LockEndComposite ==
  ASSUME NEW s, NEW q, NEW p, Lock(s, q, p)
  PROVE  Lock(EndComposite(s), EndComposite(q), p)
<1>1. <<"ESC", "1">> \in Seq(Bytes) /\ "no" \in Marks
  BY SignSequences DEF Marks
<1>2. PICK b \in Seq(Bytes) : b = When(s.cmp # "no", <<"ESC", "1">>)
  BY <1>1, WhenIs
<1>3. b = When(q.cmp # "no", <<"ESC", "1">>)
  BY <1>2 DEF Lock
<1>4. Lock(Emit(s, b), Emit(q, b), p)
  BY LockEmit
<1>5. Lock([Emit(s, b) EXCEPT !.cmp = "no"], [Emit(q, b) EXCEPT !.cmp = "no"], p)
  BY <1>1, <1>4, LockSet
<1> QED
  BY <1>2, <1>3, <1>5 DEF EndComposite

LEMMA SystemFields ==
  ASSUME NEW c \in DOMAIN System
  PROVE  /\ System[c].g \in Graphics /\ System[c].announced \in SUBSET Slots
         /\ System[c].type \in {"iso", "sjis", "autoconv"} /\ System[c].ends \in SUBSET AnyEnd
         /\ \A g \in Slots : System[c].g[g] # Inv => System[c].g[g] \in Charsets
<1>1. Plausible(System[c])
  BY SystemsArePlausible
<1>2. System[c].g \in Graphics
  BY <1>1 DEF Plausible
<1>3. \A g \in Slots : System[c].g[g] # Inv => System[c].g[g] \in Charsets
  BY <1>2 DEF Graphics
<1> QED
  BY <1>1, <1>3 DEF Plausible

LEMMA LockRestored ==
  ASSUME NEW s, NEW q, NEW p, Lock(s, q, p), NEW g \in Slots
  PROVE  Lock(Restored(s, g), Restored(q, g), p)
<1>1. s \in Writers /\ System[q.code] = System[s.code]
  BY LockSame
<1>2. s.code \in DOMAIN System
  BY <1>1, WriterFields
<1>3. PICK x : x = System[s.code].g[g]
  OBVIOUS
<1>4. x # Inv => x \in Charsets
  BY <1>2, <1>3, SystemFields
<1>5. x # Inv => Lock(Designate(s, x, g), Designate(q, x, g), p)
  BY <1>4, LockDesignate
<1> QED
  BY <1>1, <1>3, <1>5 DEF Restored

LEMMA LockReset ==
  ASSUME NEW s, NEW q, NEW p, Lock(s, q, p)
  PROVE  Lock(Reset(s), Reset(q), p)
<1>1. 0 \in Slots /\ 1 \in Slots /\ 2 \in Slots /\ 3 \in Slots
  BY DEF Slots
<1>2. PICK s1, q1 : s1 = ShiftIn(EndComposite(LeftToRight(s))) /\ q1 = ShiftIn(EndComposite(LeftToRight(q)))
  OBVIOUS
<1>3. Lock(s1, q1, p)
  BY <1>2, LockLeftToRight, LockEndComposite, LockShiftIn
<1>4. Lock(Restored(s1, 0), Restored(q1, 0), p)
  BY <1>1, <1>3, LockRestored
<1>5. Lock(Restored(Restored(s1, 0), 1), Restored(Restored(q1, 0), 1), p)
  BY <1>1, <1>4, LockRestored
<1>6. Lock(Restored(Restored(Restored(s1, 0), 1), 2), Restored(Restored(Restored(q1, 0), 1), 2), p)
  BY <1>1, <1>5, LockRestored
<1>7. Lock(Restored(Restored(Restored(Restored(s1, 0), 1), 2), 3),
           Restored(Restored(Restored(Restored(q1, 0), 1), 2), 3), p)
  BY <1>1, <1>6, LockRestored
<1> QED
  BY <1>1, <1>2, <1>7, LockIn DEF Reset

LEMMA LineEndIs ==
  ASSUME NEW end \in AnyEnd
  PROVE  LineEnd(end) \in Seq(Bytes)
<1>1. <<"LF">> \in Seq(Bytes) /\ <<"CR", "LF">> \in Seq(Bytes) /\ <<"CR">> \in Seq(Bytes)
  BY SignSequences
<1>2. end = "LF" \/ end = "CRLF" \/ end = "CR"
  BY DEF AnyEnd
<1> QED
  BY <1>1, <1>2 DEF LineEnd

LEMMA LockPutAscii ==
  ASSUME NEW s, NEW q, NEW p, Lock(s, q, p), NEW c \in Bytes
  PROVE  Lock(PutAscii(s, c), PutAscii(q, c), p)
<1>1. /\ 0 \in Slots /\ "ascii" \in Charsets /\ "lead" \in Marks /\ <<>> \in Seq(Bytes)
      /\ << c >> \in Seq(Bytes)
  BY DEF Slots, Charsets, Marks
<1>2. /\ \A f : Flag(q, f) = Flag(s, f)
      /\ s.eol \in AnyEnd /\ q.eol = s.eol
  BY LockSame, WriterFields DEF Lock
<1>3. PICK s1, q1 : s1 = [s EXCEPT !.ch = <<>>] /\ q1 = [q EXCEPT !.ch = <<>>]
  OBVIOUS
<1>4. Lock(s1, q1, p)
  BY <1>1, <1>3, LockSet
<1>5. PICK s2, q2 : s2 = LeftToRight(s1) /\ q2 = LeftToRight(q1)
  OBVIOUS
<1>6. Lock(s2, q2, p)
  BY <1>4, <1>5, LockLeftToRight
<1>7. PICK A : A = (c \in {"B", "C"} \/ Flag(s, "ascii-cntl"))
  OBVIOUS
<1>8. PICK s3, q3 : /\ s3 = IF A THEN Designate(ShiftIn(s2), "ascii", 0) ELSE s2
                    /\ q3 = IF A THEN Designate(ShiftIn(q2), "ascii", 0) ELSE q2
  OBVIOUS
<1>9. Lock(s3, q3, p)
  BY <1>1, <1>6, <1>8, LockShiftIn, LockDesignate
<1>10. PICK E : E = (c = "LF" /\ Flag(s, "ascii-eol"))
  OBVIOUS
<1>11. PICK s4, q4 : s4 = (IF E THEN Reset(s3) ELSE s3) /\ q4 = (IF E THEN Reset(q3) ELSE q3)
  OBVIOUS
<1>12. Lock(s4, q4, p)
  BY <1>9, <1>11, LockReset
<1>13. PICK b \in Seq(Bytes) : b = IF c = "LF" THEN LineEnd(s.eol) ELSE << c >>
  BY <1>1, <1>2, LineEndIs
<1>14. PICK s5, q5 : s5 = In(Emit(s4, b), 0) /\ q5 = In(Emit(q4, b), 0)
  OBVIOUS
<1>15. Lock(s5, q5, p)
  BY <1>1, <1>12, <1>14, LockEmit, LockIn
<1>16. PutAscii(s, c) = IF s5.cmp = "ascii" THEN [s5 EXCEPT !.cmp = "lead"] ELSE s5
  BY <1>3, <1>5, <1>7, <1>8, <1>10, <1>11, <1>13, <1>14 DEF PutAscii
<1>17. PutAscii(q, c) = IF q5.cmp = "ascii" THEN [q5 EXCEPT !.cmp = "lead"] ELSE q5
  BY <1>2, <1>3, <1>5, <1>7, <1>8, <1>10, <1>11, <1>13, <1>14 DEF PutAscii
<1>18. q5.cmp = s5.cmp
  BY <1>15 DEF Lock
<1>19. Lock([s5 EXCEPT !.cmp = "lead"], [q5 EXCEPT !.cmp = "lead"], p)
  BY <1>1, <1>15, LockSet
<1> QED
  BY <1>15, <1>16, <1>17, <1>18, <1>19

LEMMA LockPutLead ==
  ASSUME NEW s, NEW q, NEW p, Lock(s, q, p), NEW lc \in Charsets
  PROVE  Lock(PutLead(s, lc), PutLead(q, lc), p)
<1>1. "nonascii" \in Marks /\ <<>> \in Seq(Bytes)
  BY DEF Marks
<1>2. PICK s1, q1 : /\ s1 = IF Set[lc].rtl THEN RightToLeft(s) ELSE LeftToRight(s)
                    /\ q1 = IF Set[lc].rtl THEN RightToLeft(q) ELSE LeftToRight(q)
  OBVIOUS
<1>3. Lock(s1, q1, p)
  BY <1>2, LockLeftToRight, LockRightToLeft
<1>4. PICK s2, q2 : s2 = [s1 EXCEPT !.ch = <<>>] /\ q2 = [q1 EXCEPT !.ch = <<>>]
  OBVIOUS
<1>5. Lock(s2, q2, p)
  BY <1>1, <1>3, <1>4, LockSet
<1>6. PICK s3, q3 : s3 = Graphic(s2, lc) /\ q3 = Graphic(q2, lc)
  OBVIOUS
<1>7. Lock(s3, q3, p)
  BY <1>5, <1>6, LockGraphic
<1>8. /\ PutLead(s, lc) = IF s3.cmp = "lead" THEN [s3 EXCEPT !.cmp = "nonascii"] ELSE s3
      /\ PutLead(q, lc) = IF q3.cmp = "lead" THEN [q3 EXCEPT !.cmp = "nonascii"] ELSE q3
  BY <1>2, <1>4, <1>6 DEF PutLead
<1>9. q3.cmp = s3.cmp
  BY <1>7 DEF Lock
<1>10. Lock([s3 EXCEPT !.cmp = "nonascii"], [q3 EXCEPT !.cmp = "nonascii"], p)
  BY <1>1, <1>7, LockSet
<1> QED
  BY <1>7, <1>8, <1>9, <1>10

(* The bytes of a character, of which the graphic set takes the high bit.  *)
Mask(s, b) == IF s.in = 0 \/ Flag(s, "seven") THEN Low(b) ELSE b
Held(s, c) == [i \in 1 .. Len(s.ch) |-> Mask(s, s.ch[i])] \o << Mask(s, c) >>
Whole(s) == Set[s.g[s.in]].bytes = 1 \/ s.ch # <<>>

LEMMA HeldIs ==
  ASSUME NEW s \in Writers, NEW c \in Bytes
  PROVE  Held(s, c) \in Seq(Bytes)
<1>1. PICK h \in Seq(Bytes) : h = s.ch
  BY WriterFields
<1>2. ASSUME NEW b \in Bytes PROVE Mask(s, b) \in Bytes
  BY LowHigh DEF Mask
<1>3. PICK k : k = [i \in 1 .. Len(h) |-> Mask(s, h[i])]
  OBVIOUS
<1>4. ASSUME NEW i \in 1 .. Len(h) PROVE Mask(s, h[i]) \in Bytes
  <2>1. h[i] \in Bytes
    OBVIOUS
  <2> QED
    BY <1>2, <2>1
<1>5. k \in [1 .. Len(h) -> Bytes]
  BY <1>3, <1>4
<1>6. k \in Seq(Bytes)
  BY <1>5
<1>7. PICK x \in Bytes : x = Mask(s, c)
  BY <1>2
<1>8. k \o << x >> \in Seq(Bytes)
  BY <1>6
<1> QED
  BY <1>1, <1>3, <1>7, <1>8 DEF Held

LEMMA LockPutPosition ==
  ASSUME NEW s, NEW q, NEW p, Lock(s, q, p), NEW c \in Bytes
  PROVE  Lock(PutPosition(s, c), PutPosition(q, c), p)
<1>1. "lead" \in Marks /\ <<>> \in Seq(Bytes) /\ << c >> \in Seq(Bytes)
  BY DEF Marks
<1>2. q.in = s.in /\ q.g = s.g /\ q.ch = s.ch /\ q.cmp = s.cmp /\ s \in Writers
  BY DEF Lock
<1>3. \A b : Mask(q, b) = Mask(s, b)
  BY <1>2, LockSame DEF Mask
<1>4. PICK b \in Seq(Bytes) : b = Held(s, c)
  BY <1>2, HeldIs
<1>5. b = Held(q, c)
  <2>1. [i \in 1 .. Len(s.ch) |-> Mask(s, s.ch[i])] = [i \in 1 .. Len(s.ch) |-> Mask(q, s.ch[i])]
    BY <1>3
  <2>2. Mask(q, c) = Mask(s, c)
    BY <1>3
  <2> QED
    BY <1>2, <1>4, <2>1, <2>2 DEF Held
<1>6. Whole(q) = Whole(s)
  BY <1>2 DEF Whole
<1>7. Lock([s EXCEPT !.ch = << c >>], [q EXCEPT !.ch = << c >>], p)
  BY <1>1, LockSet
<1>8. PICK s1, q1 : s1 = [s EXCEPT !.ch = <<>>] /\ q1 = [q EXCEPT !.ch = <<>>]
  OBVIOUS
<1>9. Lock(s1, q1, p)
  BY <1>1, <1>8, LockSet
<1>10. PICK s2, q2 : s2 = Emit(s1, b) /\ q2 = Emit(q1, b)
  OBVIOUS
<1>11. Lock(s2, q2, p)
  BY <1>9, <1>10, LockEmit
<1>12. Lock([s2 EXCEPT !.cmp = "lead"], [q2 EXCEPT !.cmp = "lead"], p)
  BY <1>1, <1>11, LockSet
<1>13. PutPosition(s, c) = IF ~Whole(s) THEN [s EXCEPT !.ch = << c >>]
                           ELSE IF s.cmp = "nonascii" THEN [s2 EXCEPT !.cmp = "lead"] ELSE s2
  BY <1>4, <1>8, <1>10, Zenon DEF PutPosition, Held, Mask, Whole
<1>14. PutPosition(q, c) = IF ~Whole(q) THEN [q EXCEPT !.ch = << c >>]
                           ELSE IF q.cmp = "nonascii" THEN [q2 EXCEPT !.cmp = "lead"] ELSE q2
  BY <1>5, <1>8, <1>10, Zenon DEF PutPosition, Held, Mask, Whole
<1> QED
  BY <1>2, <1>6, <1>7, <1>11, <1>12, <1>13, <1>14

LEMMA LockPutByte ==
  ASSUME NEW s, NEW q, NEW p, Lock(s, q, p), NEW c \in Bytes
  PROVE  Lock(PutByte(s, c), PutByte(q, c), p)
<1>1. <<"ESC", "0">> \in Seq(Bytes) /\ "lead" \in Marks /\ <<>> \in Seq(Bytes)
  BY SignSequences DEF Marks
<1>2. c \in Lead => c \in Charsets
  BY CharsetsAre
<1>3. PICK s1, q1 : s1 = Emit(s, <<"ESC", "0">>) /\ q1 = Emit(q, <<"ESC", "0">>)
  OBVIOUS
<1>4. PICK s2, q2 : s2 = [s1 EXCEPT !.ch = <<>>] /\ q2 = [q1 EXCEPT !.ch = <<>>]
  OBVIOUS
<1>5. Lock(s2, q2, p)
  BY <1>1, <1>3, <1>4, LockEmit, LockSet
<1>6. Lock([s2 EXCEPT !.cmp = "lead"], [q2 EXCEPT !.cmp = "lead"], p)
  BY <1>1, <1>5, LockSet
<1>7. /\ [Emit(s, <<"ESC", "0">>) EXCEPT !.ch = <<>>, !.cmp = "lead"] = [s2 EXCEPT !.cmp = "lead"]
      /\ [Emit(q, <<"ESC", "0">>) EXCEPT !.ch = <<>>, !.cmp = "lead"] = [q2 EXCEPT !.cmp = "lead"]
  BY <1>3, <1>4
<1> QED
  BY <1>2, <1>6, <1>7, LockPutAscii, LockPutLead, LockPutPosition DEF PutByte

LEMMA BareIs ==
  ASSUME NEW s, NEW c \in Bytes
  PROVE  Bare(s, c) \in Bytes
<1>1. ASSUME c \in RaisedLead PROVE Lowered(c) \in Bytes
  <2>1. PICK lc \in Lead : Set[lc].raised = c
    BY <1>1 DEF RaisedLead
  <2>2. Lowered(c) \in Lead
    BY <2>1 DEF Lowered
  <2> QED
    BY <2>2, BytesAre
<1> QED
  BY <1>1, LowHigh DEF Bare

LEMMA LockPutIso ==
  ASSUME NEW s, NEW q, NEW p, Lock(s, q, p), NEW c \in Bytes
  PROVE  Lock(PutIso(s, c), PutIso(q, c), p)
<1>1. "ascii" \in Marks
  BY DEF Marks
<1>2. q.cmp = s.cmp
  BY DEF Lock
<1>3. PICK b \in Bytes : b = Bare(s, c)
  BY BareIs
<1>4. b = Bare(q, c)
  BY <1>2, <1>3 DEF Bare
<1>5. PICK s1, q1 : /\ s1 = IF s.cmp = "lead" /\ c \notin RaisedLead THEN EndComposite(s) ELSE s
                    /\ q1 = IF q.cmp = "lead" /\ c \notin RaisedLead THEN EndComposite(q) ELSE q
  OBVIOUS
<1>6. Lock(s1, q1, p)
  BY <1>2, <1>5, LockEndComposite
<1>7. Lock(PutByte(s1, b), PutByte(q1, b), p)
  BY <1>6, LockPutByte
<1>8. Lock([s EXCEPT !.cmp = "ascii"], [q EXCEPT !.cmp = "ascii"], p)
  BY <1>1, LockSet
<1> QED
  BY <1>2, <1>3, <1>4, <1>5, <1>7, <1>8 DEF PutIso

LEMMA LockPutSjis ==
  ASSUME NEW s, NEW q, NEW p, Lock(s, q, p), NEW c \in Bytes
  PROVE  Lock(PutSjis(s, c), PutSjis(q, c), p)
<1>1. PICK low \in Bytes : low = Low(c)
  BY LowHigh
<1>2. /\ <<>> \in Seq(Bytes) /\ << c >> \in Seq(Bytes) /\ <<"S", low>> \in Seq(Bytes)
  <2>1. PICK b \in Bytes : b = "S"
    BY SignsAre, Zenon
  <2>2. <<b, low>> \in Seq(Bytes)
    OBVIOUS
  <2> QED
    BY <2>1, <2>2
<1>3. q.ch = s.ch /\ q.eol = s.eol /\ s.eol \in AnyEnd
  BY WriterFields DEF Lock
<1>4. PICK s1, q1 : s1 = [s EXCEPT !.ch = <<>>] /\ q1 = [q EXCEPT !.ch = <<>>]
  OBVIOUS
<1>5. Lock(s1, q1, p)
  BY <1>2, <1>4, LockSet
<1>6. PICK b \in Seq(Bytes) : b = IF c = "LF" THEN LineEnd(s.eol) ELSE << c >>
  BY <1>2, <1>3, LineEndIs
<1>7. /\ Lock(Emit(s1, b), Emit(q1, b), p)
      /\ Lock(Emit(s1, << c >>), Emit(q1, << c >>), p)
      /\ Lock(Emit(s1, <<"S", low>>), Emit(q1, <<"S", low>>), p)
  BY <1>2, <1>5, LockEmit
<1>8. Lock([s EXCEPT !.ch = << c >>], [q EXCEPT !.ch = << c >>], p)
  BY <1>2, LockSet
<1>9. CASE c \in Ascii
  <2>1. c \notin Lead
    BY <1>9, CharsetsAre DEF Ascii, Cntl, Charsets
  <2>2. PutSjis(s, c) = Emit(s1, b) /\ PutSjis(q, c) = Emit(q1, b)
    BY <1>3, <1>4, <1>6, <1>9, <2>1 DEF PutSjis
  <2> QED
    BY <1>7, <2>2
<1>10. CASE c \in Lead
  <2>1. c \notin Ascii
    BY <1>10, CharsetsAre DEF Ascii, Cntl, Charsets
  <2>2. /\ PutSjis(s, c) = [s EXCEPT !.ch = IF c \in {"kana", "jp"} THEN << c >> ELSE <<>>]
        /\ PutSjis(q, c) = [q EXCEPT !.ch = IF c \in {"kana", "jp"} THEN << c >> ELSE <<>>]
    BY <1>10, <2>1 DEF PutSjis
  <2> QED
    BY <1>4, <1>5, <1>8, <2>2
<1>11. CASE c \notin Ascii /\ c \notin Lead
  <2>1. <<>> # <<"kana">> /\ <<>> # <<"jp">> /\ <<"kana">> # <<"jp">>
    OBVIOUS
  <2>2. CASE s.ch = <<>>
    <3>1. PutSjis(s, c) = s /\ PutSjis(q, c) = q
      BY <1>3, <1>11, <2>1, <2>2 DEF PutSjis
    <3> QED
      BY <3>1
  <2>3. CASE s.ch = <<"kana">>
    <3>1. PutSjis(s, c) = Emit(s1, << c >>) /\ PutSjis(q, c) = Emit(q1, << c >>)
      BY <1>3, <1>4, <1>11, <2>1, <2>3 DEF PutSjis
    <3> QED
      BY <1>7, <3>1
  <2>4. CASE s.ch = <<"jp">>
    <3>1. PutSjis(s, c) = [s EXCEPT !.ch = << c >>] /\ PutSjis(q, c) = [q EXCEPT !.ch = << c >>]
      BY <1>3, <1>11, <2>1, <2>4 DEF PutSjis
    <3> QED
      BY <1>8, <3>1
  <2>5. CASE s.ch # <<>> /\ s.ch # <<"kana">> /\ s.ch # <<"jp">>
    <3>1. PutSjis(s, c) = Emit(s1, <<"S", low>>) /\ PutSjis(q, c) = Emit(q1, <<"S", low>>)
      BY <1>1, <1>3, <1>4, <1>11, <2>5 DEF PutSjis
    <3> QED
      BY <1>7, <3>1
  <2> QED
    BY <2>2, <2>3, <2>4, <2>5
<1> QED
  BY <1>9, <1>10, <1>11

LEMMA LockPut ==
  ASSUME NEW s, NEW q, NEW p, Lock(s, q, p), NEW c \in Bytes \union {"END"}
  PROVE  Lock(Put(s, c), Put(q, c), p)
<1>1. /\ q.ch = s.ch /\ q.eol = s.eol /\ s.eol \in AnyEnd /\ System[q.code] = System[s.code]
      /\ s.code \in DOMAIN System
  BY WriterFields, LockSame DEF Lock
<1>2. CASE c = "END"
  <2>1. Put(s, c) = PutEnd(s) /\ Put(q, c) = PutEnd(q)
    BY <1>2 DEF Put
  <2> QED
    BY <1>1, <2>1, LockReset DEF PutEnd
<1>3. CASE c # "END"
  <2>1. c \in Bytes
    BY <1>3
  <2>2. << c >> \in Seq(Bytes)
    BY <2>1
  <2>3. PICK b \in Seq(Bytes) : b = IF c = "LF" THEN LineEnd(s.eol) ELSE << c >>
    BY <1>1, <2>2, LineEndIs
  <2>4. Lock(Emit(s, b), Emit(q, b), p)
    BY LockEmit
  <2>5. CASE System[s.code].type = "iso"
    BY <1>1, <1>3, <2>1, <2>5, LockPutIso DEF Put
  <2>6. CASE System[s.code].type = "sjis"
    BY <1>1, <1>3, <2>1, <2>6, LockPutSjis DEF Put
  <2>7. CASE System[s.code].type = "autoconv"
    <3>1. Put(s, c) = Emit(s, b) /\ Put(q, c) = Emit(q, b)
      BY <1>1, <1>3, <2>3, <2>7 DEF Put
    <3> QED
      BY <2>4, <3>1
  <2> QED
    BY <1>1, <2>5, <2>6, <2>7, SystemFields
<1> QED
  BY <1>2, <1>3

LEMMA LockPutAll ==
  ASSUME NEW s, NEW q, NEW p, Lock(s, q, p), NEW b \in Seq(Bytes \union {"END"})
  PROVE  Lock(PutAll(s, b), PutAll(q, b), p)
<1>1. PICK n \in Nat : n = Len(b)
  OBVIOUS
<1>2. PICK f : PutRun(f, s, b, n) /\ PutAll(s, b) = f[n]
  BY <1>1, PutAllRuns
<1>3. PICK g : PutRun(g, q, b, n) /\ PutAll(q, b) = g[n]
  BY <1>1, PutAllRuns
<1>4. PICK R : R = {i \in 0 .. n : Lock(f[i], g[i], p)}
  OBVIOUS
<1>5. 0 \in R
  BY <1>2, <1>3, <1>4 DEF PutRun
<1>6. ASSUME NEW i \in 0 .. n - 1, i \in R PROVE i + 1 \in R
  <2>1. PICK k \in 1 .. n : k = i + 1 /\ k - 1 = i
    OBVIOUS
  <2>2. f[k] = Put(f[i], b[k]) /\ g[k] = Put(g[i], b[k]) /\ b[k] \in Bytes \union {"END"}
    BY <1>1, <1>2, <1>3, <2>1 DEF PutRun
  <2>3. Lock(f[i], g[i], p)
    BY <1>4, <1>6
  <2>4. Lock(f[k], g[k], p)
    BY <2>2, <2>3, LockPut
  <2> QED
    BY <1>4, <2>1, <2>4
<1>7. \A i \in 0 .. n : i \in R
  BY <1>5, <1>6, AllReached
<1>8. Lock(f[n], g[n], p)
  BY <1>4, <1>7
<1> QED
  BY <1>2, <1>3, <1>8

-----------------------------------------------------------------------------
(* The same for readers.  e and f are the line ends each of them takes the *)
(* file to have: where there is none yet, they need not be the same.       *)

Readers == [code : DOMAIN System, eol : AnyEnd \union {"auto"}, g : Graphics, esc : Seq(Bytes),
            single : {0, 2, 3}, shifted : BOOLEAN, rtl : BOOLEAN, cmp : BOOLEAN, cr : BOOLEAN,
            ch : Seq(Bytes), out : Seq(Bytes)]
Twin(s, q, p, e, f) ==
  /\ s \in Readers /\ q \in Readers /\ p \in Seq(Bytes)
  /\ q.code = s.code /\ q.g = s.g /\ q.esc = s.esc /\ q.single = s.single
  /\ q.shifted = s.shifted /\ q.rtl = s.rtl /\ q.cmp = s.cmp /\ q.cr = s.cr /\ q.ch = s.ch
  /\ q.out = p \o s.out
  /\ s.eol = e /\ q.eol = f

LEMMA ReaderFields ==
  ASSUME NEW s \in Readers
  PROVE  /\ s.code \in DOMAIN System /\ s.eol \in AnyEnd \union {"auto"} /\ s.g \in Graphics
         /\ s.esc \in Seq(Bytes) /\ s.single \in {0, 2, 3} /\ s.shifted \in BOOLEAN
         /\ s.rtl \in BOOLEAN /\ s.cmp \in BOOLEAN /\ s.cr \in BOOLEAN /\ s.ch \in Seq(Bytes)
         /\ s.out \in Seq(Bytes)
BY DEF Readers

LEMMA SameReader ==
  ASSUME NEW s \in Readers, NEW q \in Readers, q.code = s.code, q.eol = s.eol, q.g = s.g,
         q.esc = s.esc, q.single = s.single, q.shifted = s.shifted, q.rtl = s.rtl,
         q.cmp = s.cmp, q.cr = s.cr, q.ch = s.ch, q.out = s.out
  PROVE  q = s
BY DEF Readers

LEMMA TwinEmit ==
  ASSUME NEW s, NEW q, NEW p, NEW e, NEW f, Twin(s, q, p, e, f), NEW b \in Seq(Bytes)
  PROVE  Twin(Emit(s, b), Emit(q, b), p, e, f)
<1>1. s \in Readers /\ q \in Readers /\ p \in Seq(Bytes) /\ q.out = p \o s.out
  BY DEF Twin
<1>2. PICK o \in Seq(Bytes) : o = s.out
  BY <1>1, ReaderFields
<1>0. p \in Seq(Bytes) /\ q.out = p \o o
  BY <1>1, <1>2
<1>3. /\ (p \o o) \o b = p \o (o \o b) /\ o \o b \in Seq(Bytes)
      /\ (p \o o) \o b \in Seq(Bytes)
  BY <1>0, Associates
<1>4. PICK x : x = o \o b
  OBVIOUS
<1>5. PICK y : y = (p \o o) \o b
  OBVIOUS
<1>6. Emit(s, b) = [s EXCEPT !.out = x] /\ Emit(q, b) = [q EXCEPT !.out = y]
  BY <1>0, <1>2, <1>4, <1>5 DEF Emit
<1>7. y = p \o x /\ x \in Seq(Bytes) /\ y \in Seq(Bytes)
  BY <1>3, <1>4, <1>5
<1> QED
  BY <1>6, <1>7 DEF Twin, Readers

LEMMA TwinSet ==
  ASSUME NEW s, NEW q, NEW p, NEW e, NEW f, Twin(s, q, p, e, f)
  PROVE  /\ \A x \in {0, 2, 3} : Twin([s EXCEPT !.single = x], [q EXCEPT !.single = x], p, e, f)
         /\ \A x \in BOOLEAN : Twin([s EXCEPT !.shifted = x], [q EXCEPT !.shifted = x], p, e, f)
         /\ \A x \in BOOLEAN : Twin([s EXCEPT !.rtl = x], [q EXCEPT !.rtl = x], p, e, f)
         /\ \A x \in BOOLEAN : Twin([s EXCEPT !.cmp = x], [q EXCEPT !.cmp = x], p, e, f)
         /\ \A x \in BOOLEAN : Twin([s EXCEPT !.cr = x], [q EXCEPT !.cr = x], p, e, f)
         /\ \A x \in Seq(Bytes) : Twin([s EXCEPT !.ch = x], [q EXCEPT !.ch = x], p, e, f)
         /\ \A x \in Seq(Bytes) : Twin([s EXCEPT !.esc = x], [q EXCEPT !.esc = x], p, e, f)
         /\ \A x \in Graphics : Twin([s EXCEPT !.g = x], [q EXCEPT !.g = x], p, e, f)
<1>1. ASSUME NEW x \in {0, 2, 3} PROVE Twin([s EXCEPT !.single = x], [q EXCEPT !.single = x], p, e, f)
  BY DEF Twin, Readers
<1>2. ASSUME NEW x \in BOOLEAN PROVE Twin([s EXCEPT !.shifted = x], [q EXCEPT !.shifted = x], p, e, f)
  BY DEF Twin, Readers
<1>3. ASSUME NEW x \in BOOLEAN PROVE Twin([s EXCEPT !.rtl = x], [q EXCEPT !.rtl = x], p, e, f)
  BY DEF Twin, Readers
<1>4. ASSUME NEW x \in BOOLEAN PROVE Twin([s EXCEPT !.cmp = x], [q EXCEPT !.cmp = x], p, e, f)
  BY DEF Twin, Readers
<1>5. ASSUME NEW x \in BOOLEAN PROVE Twin([s EXCEPT !.cr = x], [q EXCEPT !.cr = x], p, e, f)
  BY DEF Twin, Readers
<1>6. ASSUME NEW x \in Seq(Bytes) PROVE Twin([s EXCEPT !.ch = x], [q EXCEPT !.ch = x], p, e, f)
  BY DEF Twin, Readers
<1>7. ASSUME NEW x \in Seq(Bytes) PROVE Twin([s EXCEPT !.esc = x], [q EXCEPT !.esc = x], p, e, f)
  BY DEF Twin, Readers
<1>8. ASSUME NEW x \in Graphics PROVE Twin([s EXCEPT !.g = x], [q EXCEPT !.g = x], p, e, f)
  BY DEF Twin, Readers
<1> QED
  BY <1>1, <1>2, <1>3, <1>4, <1>5, <1>6, <1>7, <1>8

LEMMA LowsAre ==
  ASSUME NEW h \in Seq(Bytes)
  PROVE  [i \in 1 .. Len(h) |-> Low(h[i])] \in Seq(Bytes)
<1>1. PICK k : k = [i \in 1 .. Len(h) |-> Low(h[i])]
  OBVIOUS
<1>2. ASSUME NEW i \in 1 .. Len(h) PROVE Low(h[i]) \in Bytes
  <2>1. h[i] \in Bytes
    OBVIOUS
  <2> QED
    BY <2>1, LowHigh
<1>3. k \in [1 .. Len(h) -> Bytes]
  BY <1>1, <1>2
<1>4. k \in Seq(Bytes)
  BY <1>3
<1> QED
  BY <1>1, <1>4

LEMMA TwinFlush ==
  ASSUME NEW s, NEW q, NEW p, NEW e, NEW f, Twin(s, q, p, e, f)
  PROVE  Twin(Flush(s), Flush(q), p, e, f)
<1>1. q.ch = s.ch /\ s \in Readers /\ <<>> \in Seq(Bytes)
  BY DEF Twin
<1>2. s.ch \in Seq(Bytes)
  BY <1>1, ReaderFields
<1>3. PICK b \in Seq(Bytes) : b = [i \in 1 .. Len(s.ch) |-> Low(s.ch[i])]
  BY <1>2, LowsAre
<1>4. b = [i \in 1 .. Len(q.ch) |-> Low(q.ch[i])]
  BY <1>1, <1>3
<1>5. PICK s1, q1 : s1 = [s EXCEPT !.ch = <<>>] /\ q1 = [q EXCEPT !.ch = <<>>]
  OBVIOUS
<1>6. Twin(s1, q1, p, e, f)
  BY <1>1, <1>5, TwinSet
<1>7. Twin(Emit(s1, b), Emit(q1, b), p, e, f)
  BY <1>6, TwinEmit
<1> QED
  BY <1>3, <1>4, <1>5, <1>7 DEF Flush

LEMMA TwinGetControl ==
  ASSUME NEW s, NEW q, NEW p, NEW e, NEW f, Twin(s, q, p, e, f), NEW c \in Bytes,
         e = f \/ c \notin Cntl
  PROVE  Twin(GetControl(s, c), GetControl(q, c), p, e, f)
<1>1. /\ q.single = s.single /\ q.cr = s.cr /\ q.g = s.g /\ s.eol = e /\ q.eol = f
      /\ s.single \in {0, 2, 3}
  BY ReaderFields DEF Twin
<1>2. PICK x : x = (s.cr /\ c # "LF")
  OBVIOUS
<1>3. PICK cut \in Seq(Bytes) :
        cut = CASE s.single = 2 -> <<"SO">> [] s.single = 3 -> <<"SI">>
                [] s.single = 0 /\ x -> <<"CR">> [] OTHER -> <<>>
  <2>1. <<"SO">> \in Seq(Bytes) /\ <<"SI">> \in Seq(Bytes) /\ <<"CR">> \in Seq(Bytes) /\ <<>> \in Seq(Bytes)
    BY SignSequences
  <2> QED
    BY <1>1, <2>1
<1>4. PICK s1, q1 : s1 = Emit(Flush(s), cut) /\ q1 = Emit(Flush(q), cut)
  OBVIOUS
<1>5. Twin(s1, q1, p, e, f)
  BY <1>4, TwinFlush, TwinEmit
<1>6. PICK s2, q2 : s2 = [s1 EXCEPT !.single = 0] /\ q2 = [q1 EXCEPT !.single = 0]
  OBVIOUS
<1>7. Twin(s2, q2, p, e, f)
  BY <1>5, <1>6, TwinSet
<1>8. PICK s3, q3 : s3 = [s2 EXCEPT !.cr = FALSE] /\ q3 = [q2 EXCEPT !.cr = FALSE]
  OBVIOUS
<1>9. Twin(s3, q3, p, e, f)
  BY <1>7, <1>8, TwinSet
<1>10. /\ s3 = [Emit(Flush(s), cut) EXCEPT !.single = 0, !.cr = FALSE]
       /\ q3 = [Emit(Flush(q), cut) EXCEPT !.single = 0, !.cr = FALSE]
  BY <1>4, <1>6, <1>8
<1>11. /\ Twin([s3 EXCEPT !.esc = <<"ESC">>], [q3 EXCEPT !.esc = <<"ESC">>], p, e, f)
       /\ Twin([s3 EXCEPT !.esc = <<"ESC", "[">>], [q3 EXCEPT !.esc = <<"ESC", "[">>], p, e, f)
  BY <1>9, TwinSet, SignSequences
<1>12. /\ Twin([s3 EXCEPT !.shifted = (c = "SO")], [q3 EXCEPT !.shifted = (c = "SO")], p, e, f)
       /\ Twin([s3 EXCEPT !.cr = TRUE], [q3 EXCEPT !.cr = TRUE], p, e, f)
  BY <1>9, TwinSet
<1>13. /\ Twin([s3 EXCEPT !.single = 2], [q3 EXCEPT !.single = 2], p, e, f)
       /\ Twin([s3 EXCEPT !.single = 3], [q3 EXCEPT !.single = 3], p, e, f)
  BY <1>9, TwinSet
<1>14. Twin(Emit(s3, <<"LF">>), Emit(q3, <<"LF">>), p, e, f)
  BY <1>9, TwinEmit, SignSequences
<1>15. << c >> \in Seq(Bytes)
  OBVIOUS
<1>16. Twin(Emit(s3, << c >>), Emit(q3, << c >>), p, e, f)
  BY <1>9, <1>15, TwinEmit
<1>17. c = "CR" => f = e
  BY DEF Cntl
<1>18. GetControl(s, c) =
         CASE c = "ESC" -> [s3 EXCEPT !.esc = <<"ESC">>]
           [] c = "CSI" -> [s3 EXCEPT !.esc = <<"ESC", "[">>]
           [] c \in {"SO", "SI"} /\ s.g[1] # Inv -> [s3 EXCEPT !.shifted = (c = "SO")]
           [] c = "SS2" /\ s.g[2] # Inv -> [s3 EXCEPT !.single = 2]
           [] c = "SS3" /\ s.g[3] # Inv -> [s3 EXCEPT !.single = 3]
           [] c = "CR" /\ e = "CR" -> Emit(s3, <<"LF">>)
           [] c = "CR" /\ e = "CRLF" -> [s3 EXCEPT !.cr = TRUE]
           [] OTHER -> Emit(s3, << c >>)
  BY <1>1, <1>2, <1>3, <1>10, Zenon DEF GetControl
<1>19. GetControl(q, c) =
         CASE c = "ESC" -> [q3 EXCEPT !.esc = <<"ESC">>]
           [] c = "CSI" -> [q3 EXCEPT !.esc = <<"ESC", "[">>]
           [] c \in {"SO", "SI"} /\ s.g[1] # Inv -> [q3 EXCEPT !.shifted = (c = "SO")]
           [] c = "SS2" /\ s.g[2] # Inv -> [q3 EXCEPT !.single = 2]
           [] c = "SS3" /\ s.g[3] # Inv -> [q3 EXCEPT !.single = 3]
           [] c = "CR" /\ f = "CR" -> Emit(q3, <<"LF">>)
           [] c = "CR" /\ f = "CRLF" -> [q3 EXCEPT !.cr = TRUE]
           [] OTHER -> Emit(q3, << c >>)
  BY <1>1, <1>2, <1>3, <1>10, Zenon DEF GetControl
<1> QED
  BY <1>11, <1>12, <1>13, <1>14, <1>16, <1>17, <1>18, <1>19

(* A line end that was kept is settled before anything else.               *)
Settled(s) == [IF s.cr THEN Emit(s, <<"CR">>) ELSE s EXCEPT !.cr = FALSE]

LEMMA TwinSettled ==
  ASSUME NEW s, NEW q, NEW p, NEW e, NEW f, Twin(s, q, p, e, f)
  PROVE  Twin(Settled(s), Settled(q), p, e, f)
<1>1. q.cr = s.cr
  BY DEF Twin
<1>2. PICK s1, q1 : /\ s1 = IF s.cr THEN Emit(s, <<"CR">>) ELSE s
                    /\ q1 = IF s.cr THEN Emit(q, <<"CR">>) ELSE q
  OBVIOUS
<1>3. Twin(s1, q1, p, e, f)
  BY <1>2, TwinEmit, SignSequences
<1>4. Twin([s1 EXCEPT !.cr = FALSE], [q1 EXCEPT !.cr = FALSE], p, e, f)
  BY <1>3, TwinSet
<1> QED
  BY <1>1, <1>2, <1>4 DEF Settled

(* The charset of a byte.                                                  *)
SetFor(s, c) == s.g[IF s.single # 0 THEN s.single ELSE IF s.shifted \/ c \notin Ascii THEN 1 ELSE 0]
CharsetFor(s, c) ==
  IF SetFor(s, c) = Inv \/ (c = "SP" /\ Set[SetFor(s, c)].type \in {"94", "94N"}) THEN "ascii"
  ELSE SetFor(s, c)
LeadFor(s, c) == << IF s.cmp THEN Set[CharsetFor(s, c)].raised ELSE CharsetFor(s, c) >>

LEMMA CharsetForIs ==
  ASSUME NEW s \in Readers, NEW c
  PROVE  CharsetFor(s, c) \in Charsets /\ LeadFor(s, c) \in Seq(Bytes)
<1>1. s.g \in Graphics /\ s.single \in {0, 2, 3}
  BY ReaderFields
<1>2. SetFor(s, c) \in Charsets \union {Inv}
  BY <1>1 DEF SetFor, Graphics, Slots
<1>3. "ascii" \in Charsets
  BY DEF Charsets
<1>4. PICK lc \in Charsets : lc = CharsetFor(s, c)
  BY <1>2, <1>3 DEF CharsetFor
<1>5. lc \in Bytes /\ Set[lc].raised \in Bytes
  BY CharsetFields, BytesAre
<1>6. PICK b \in Bytes : b = IF s.cmp THEN Set[lc].raised ELSE lc
  BY <1>5
<1>7. << b >> \in Seq(Bytes)
  OBVIOUS
<1> QED
  BY <1>4, <1>6, <1>7 DEF LeadFor

LEMMA GetGraphicIs ==
  ASSUME NEW s, NEW c, NEW lc, lc = CharsetFor(s, c)
  PROVE  /\ lc = "ascii" =>
              GetGraphic(s, c) = Emit([Flush(Settled(s)) EXCEPT !.single = 0],
                                      IF s.cmp THEN <<"A0", High(c)>> ELSE <<Low(c)>>)
         /\ lc # "ascii" /\ Set[lc].bytes = 1 =>
              GetGraphic(s, c) = Emit([Flush(Settled(s)) EXCEPT !.single = 0],
                                      LeadFor(s, c) \o <<High(c)>>)
         /\ lc # "ascii" /\ Set[lc].bytes = 2 /\ s.ch = <<>> =>
              GetGraphic(s, c) = [Settled(s) EXCEPT !.ch = << c >>]
         /\ lc # "ascii" /\ Set[lc].bytes = 2 /\ s.ch # <<>> =>
              GetGraphic(s, c) = Emit([Settled(s) EXCEPT !.ch = <<>>, !.single = 0],
                                      LeadFor(s, c) \o <<High(s.ch[1]), High(c)>>)
<1>1. PICK G1, G2, G3, G4, n :
        /\ G1 = Emit([Flush(Settled(s)) EXCEPT !.single = 0],
                     IF s.cmp THEN <<"A0", High(c)>> ELSE <<Low(c)>>)
        /\ G2 = Emit([Flush(Settled(s)) EXCEPT !.single = 0], LeadFor(s, c) \o <<High(c)>>)
        /\ G3 = [Settled(s) EXCEPT !.ch = << c >>]
        /\ G4 = Emit([Settled(s) EXCEPT !.ch = <<>>, !.single = 0],
                     LeadFor(s, c) \o <<High(s.ch[1]), High(c)>>)
        /\ n = Set[lc].bytes
  OBVIOUS
<1>2. GetGraphic(s, c) = CASE lc = "ascii" -> G1
                           [] lc # "ascii" /\ n = 1 -> G2
                           [] lc # "ascii" /\ n = 2 /\ s.ch = <<>> -> G3
                           [] OTHER -> G4
  BY <1>1, Zenon DEF GetGraphic, Settled, CharsetFor, SetFor, LeadFor
<1>3. /\ lc = "ascii" => GetGraphic(s, c) = G1
      /\ lc # "ascii" /\ n = 1 => GetGraphic(s, c) = G2
      /\ lc # "ascii" /\ n = 2 /\ s.ch = <<>> => GetGraphic(s, c) = G3
      /\ lc # "ascii" /\ n = 2 /\ s.ch # <<>> => GetGraphic(s, c) = G4
  BY <1>2
<1> QED
  BY <1>1, <1>3, Zenon

LEMMA TwinGetGraphic ==
  ASSUME NEW s, NEW q, NEW p, NEW e, NEW f, Twin(s, q, p, e, f), NEW c \in Bytes
  PROVE  Twin(GetGraphic(s, c), GetGraphic(q, c), p, e, f)
<1>1. /\ q.single = s.single /\ q.cr = s.cr /\ q.g = s.g /\ q.ch = s.ch /\ q.cmp = s.cmp
      /\ q.shifted = s.shifted /\ s \in Readers
  BY DEF Twin
<1>2. CharsetFor(q, c) = CharsetFor(s, c) /\ LeadFor(q, c) = LeadFor(s, c)
  BY <1>1 DEF CharsetFor, SetFor, LeadFor
<1>3. PICK lc \in Charsets, lead \in Seq(Bytes) : lc = CharsetFor(s, c) /\ lead = LeadFor(s, c)
  BY <1>1, CharsetForIs
<1>4. PICK rs, rq : rs = Settled(s) /\ rq = Settled(q)
  OBVIOUS
<1>5. Twin(rs, rq, p, e, f)
  BY <1>4, TwinSettled
<1>6. PICK fs, fq : fs = [Flush(rs) EXCEPT !.single = 0] /\ fq = [Flush(rq) EXCEPT !.single = 0]
  OBVIOUS
<1>7. Twin(fs, fq, p, e, f)
  BY <1>5, <1>6, TwinFlush, TwinSet
<1>8. PICK low \in Bytes, high \in Bytes : low = Low(c) /\ high = High(c)
  BY LowHigh
<1>9. /\ <<>> \in Seq(Bytes) /\ << c >> \in Seq(Bytes) /\ << low >> \in Seq(Bytes)
      /\ << high >> \in Seq(Bytes)
  OBVIOUS
<1>10. PICK A0 \in Bytes : A0 = "A0"
  BY SignsAre, Zenon
<1>11. <<A0, high>> \in Seq(Bytes) /\ lead \o << high >> \in Seq(Bytes)
  BY <1>9, Associates
<1>12. PICK b \in Seq(Bytes) : b = IF s.cmp THEN <<A0, high>> ELSE << low >>
  BY <1>9, <1>11
<1>13. /\ Twin(Emit(fs, b), Emit(fq, b), p, e, f)
       /\ Twin(Emit(fs, lead \o << high >>), Emit(fq, lead \o << high >>), p, e, f)
  BY <1>7, <1>11, TwinEmit
<1>14. Twin([rs EXCEPT !.ch = << c >>], [rq EXCEPT !.ch = << c >>], p, e, f)
  BY <1>5, <1>9, TwinSet
<1>0. lc = CharsetFor(s, c) /\ lc = CharsetFor(q, c)
  BY <1>2, <1>3
<1>15. CASE lc = "ascii"
  <2>1. GetGraphic(s, c) = Emit([Flush(Settled(s)) EXCEPT !.single = 0],
                                IF s.cmp THEN <<"A0", High(c)>> ELSE <<Low(c)>>)
    BY <1>0, <1>15, GetGraphicIs, Zenon
  <2>2. GetGraphic(q, c) = Emit([Flush(Settled(q)) EXCEPT !.single = 0],
                                IF q.cmp THEN <<"A0", High(c)>> ELSE <<Low(c)>>)
    BY <1>0, <1>15, GetGraphicIs, Zenon
  <2>3. b = (IF s.cmp THEN <<"A0", High(c)>> ELSE <<Low(c)>>)
        /\ b = (IF q.cmp THEN <<"A0", High(c)>> ELSE <<Low(c)>>)
    BY <1>1, <1>8, <1>10, <1>12
  <2>4. GetGraphic(s, c) = Emit(fs, b) /\ GetGraphic(q, c) = Emit(fq, b)
    BY <1>4, <1>6, <2>1, <2>2, <2>3, Zenon
  <2> QED
    BY <1>13, <2>4
<1>16. CASE lc # "ascii" /\ Set[lc].bytes = 1
  <2>1. /\ GetGraphic(s, c) = Emit([Flush(Settled(s)) EXCEPT !.single = 0],
                                   LeadFor(s, c) \o <<High(c)>>)
        /\ GetGraphic(q, c) = Emit([Flush(Settled(q)) EXCEPT !.single = 0],
                                   LeadFor(q, c) \o <<High(c)>>)
    BY <1>0, <1>16, GetGraphicIs, Zenon
  <2>2. /\ GetGraphic(s, c) = Emit(fs, lead \o << high >>)
        /\ GetGraphic(q, c) = Emit(fq, lead \o << high >>)
    BY <1>2, <1>3, <1>4, <1>6, <1>8, <2>1, Zenon
  <2> QED
    BY <1>13, <2>2
<1>17. CASE lc # "ascii" /\ Set[lc].bytes = 2 /\ s.ch = <<>>
  <2>0. q.ch = <<>>
    BY <1>1, <1>17
  <2>1. /\ GetGraphic(s, c) = [rs EXCEPT !.ch = << c >>]
        /\ GetGraphic(q, c) = [rq EXCEPT !.ch = << c >>]
    BY <1>0, <1>4, <1>17, <2>0, GetGraphicIs, ZenonT(60)
  <2> QED
    BY <1>14, <2>1
<1>18. CASE lc # "ascii" /\ Set[lc].bytes = 2 /\ s.ch # <<>>
  <2>1. PICK h \in Seq(Bytes) : h = s.ch
    BY <1>1, ReaderFields
  <2>2. h[1] \in Bytes
    BY <1>18, <2>1
  <2>3. PICK first \in Bytes : first = High(h[1])
    BY <2>2, LowHigh
  <2>4. <<first, high>> \in Seq(Bytes)
    OBVIOUS
  <2>5. lead \o <<first, high>> \in Seq(Bytes)
    BY <2>4, Associates
  <2>6. PICK s1, q1 : s1 = [rs EXCEPT !.ch = <<>>] /\ q1 = [rq EXCEPT !.ch = <<>>]
    OBVIOUS
  <2>7. Twin(s1, q1, p, e, f)
    BY <1>5, <1>9, <2>6, TwinSet
  <2>8. PICK s2, q2 : s2 = [s1 EXCEPT !.single = 0] /\ q2 = [q1 EXCEPT !.single = 0]
    OBVIOUS
  <2>9. Twin(s2, q2, p, e, f)
    BY <2>7, <2>8, TwinSet
  <2>10. Twin(Emit(s2, lead \o <<first, high>>), Emit(q2, lead \o <<first, high>>), p, e, f)
    BY <2>5, <2>9, TwinEmit
  <2>11. /\ s2 = [Settled(s) EXCEPT !.ch = <<>>, !.single = 0]
         /\ q2 = [Settled(q) EXCEPT !.ch = <<>>, !.single = 0]
    BY <1>4, <2>6, <2>8
  <2>13. q.ch # <<>>
    BY <1>1, <1>18
  <2>14. /\ GetGraphic(s, c) = Emit([Settled(s) EXCEPT !.ch = <<>>, !.single = 0],
                                    LeadFor(s, c) \o <<High(s.ch[1]), High(c)>>)
         /\ GetGraphic(q, c) = Emit([Settled(q) EXCEPT !.ch = <<>>, !.single = 0],
                                    LeadFor(q, c) \o <<High(q.ch[1]), High(c)>>)
    BY <1>0, <1>18, <2>13, GetGraphicIs, ZenonT(60)
  <2>12. /\ GetGraphic(s, c) = Emit(s2, lead \o <<first, high>>)
         /\ GetGraphic(q, c) = Emit(q2, lead \o <<first, high>>)
    BY <1>1, <1>2, <1>3, <1>8, <2>1, <2>3, <2>11, <2>14, Zenon
  <2> QED
    BY <2>10, <2>12
<1> QED
  BY <1>15, <1>16, <1>17, <1>18, CharsetFields

(* The charset that a final byte names is one there is, or invalid.        *)
LEMMA NamedIs ==
  ASSUME NEW e, NEW c
  PROVE  Named(e, c) \in Charsets \union {Inv}
<1>1. ASSUME NEW type PROVE Final(type, c) \in Charsets \union {Inv}
  <2>1. "ascii" \in Charsets /\ "jp" \in Charsets
    BY DEF Charsets
  <2>2. CASE \E lc \in DOMAIN Set : Set[lc].type = type /\ Set[lc].final = c
    <3>1. (CHOOSE lc \in DOMAIN Set : Set[lc].type = type /\ Set[lc].final = c) \in Charsets
      BY <2>2, CharsetsAre
    <3> QED
      BY <2>1, <3>1 DEF Final
  <2>3. CASE ~\E lc \in DOMAIN Set : Set[lc].type = type /\ Set[lc].final = c
    BY <2>1, <2>3 DEF Final
  <2> QED
    BY <2>2, <2>3
<1> QED
  BY <1>1 DEF Named

LEMMA TwinGetByte ==
  ASSUME NEW s, NEW q, NEW p, NEW e, NEW f, Twin(s, q, p, e, f), NEW c \in Bytes,
         e = f \/ c \notin Cntl
  PROVE  Twin(GetByte(s, c), GetByte(q, c), p, e, f)
BY TwinGetControl, TwinGetGraphic DEF GetByte

LEMMA TwinGetEscape ==
  ASSUME NEW s, NEW q, NEW p, NEW e, NEW f, Twin(s, q, p, e, f), NEW c \in Bytes,
         e = f \/ c \notin Cntl, s.esc # <<>>
  PROVE  Twin(GetEscape(s, c), GetEscape(q, c), p, e, f)
<1>1. q.esc = s.esc /\ q.g = s.g /\ s \in Readers /\ q \in Readers
  BY DEF Twin
<1>2. PICK h \in Seq(Bytes) : h = s.esc /\ h # <<>>
  BY <1>1, ReaderFields
<1>3. PICK t \in Seq(Bytes) : t = Tail(h)
  <2>1. Tail(h) \in Seq(Bytes)
    BY <1>2
  <2> QED
    BY <2>1
<1>4. <<>> \in Seq(Bytes) /\ Append(h, c) \in Seq(Bytes) /\ <<"CMP">> \in Seq(Bytes)
  BY SignSequences
<1>5. PICK s1, q1 : s1 = [s EXCEPT !.esc = <<>>] /\ q1 = [q EXCEPT !.esc = <<>>]
  OBVIOUS
<1>6. Twin(s1, q1, p, e, f)
  BY <1>4, <1>5, TwinSet
<1>7. Twin([s EXCEPT !.esc = Append(h, c)], [q EXCEPT !.esc = Append(h, c)], p, e, f)
  BY <1>4, TwinSet
<1>8. /\ Twin([s1 EXCEPT !.single = 2], [q1 EXCEPT !.single = 2], p, e, f)
      /\ Twin([s1 EXCEPT !.single = 3], [q1 EXCEPT !.single = 3], p, e, f)
  BY <1>6, TwinSet
<1>9. PICK s2, q2 : s2 = Emit(s1, <<"CMP">>) /\ q2 = Emit(q1, <<"CMP">>)
  OBVIOUS
<1>10. Twin(s2, q2, p, e, f)
  BY <1>4, <1>6, <1>9, TwinEmit
<1>11. Twin([s2 EXCEPT !.cmp = TRUE], [q2 EXCEPT !.cmp = TRUE], p, e, f)
  BY <1>10, TwinSet
<1>12. /\ Twin([s1 EXCEPT !.cmp = FALSE], [q1 EXCEPT !.cmp = FALSE], p, e, f)
       /\ Twin([s1 EXCEPT !.rtl = (t = <<"[", "2">>)], [q1 EXCEPT !.rtl = (t = <<"[", "2">>)], p, e, f)
  BY <1>6, TwinSet
<1>13. Twin(Emit(s1, h), Emit(q1, h), p, e, f)
  BY <1>6, TwinEmit
<1>14. Twin(GetByte(Emit(s1, h), c), GetByte(Emit(q1, h), c), p, e, f)
  BY <1>13, TwinGetByte
<1>15. Named(t, c) # Inv =>
         Twin([s1 EXCEPT !.g[InterGraphic(t)] = Named(t, c)],
              [q1 EXCEPT !.g[InterGraphic(t)] = Named(t, c)], p, e, f)
  <2>1. ASSUME Named(t, c) # Inv
        PROVE  Twin([s1 EXCEPT !.g[InterGraphic(t)] = Named(t, c)],
                    [q1 EXCEPT !.g[InterGraphic(t)] = Named(t, c)], p, e, f)
    <3>1. PICK i, lc : i = InterGraphic(t) /\ lc = Named(t, c) /\ lc \in Charsets
      BY <2>1, NamedIs
    <3>2. s1.g \in Graphics /\ q1.g = s1.g /\ s1 \in Readers /\ q1 \in Readers
      BY <1>6, ReaderFields DEF Twin
    <3>3. PICK x : x = [s1.g EXCEPT ![i] = lc]
      OBVIOUS
    <3>4. x \in Graphics
      BY <3>1, <3>2, <3>3 DEF Graphics
    <3>5. [s1 EXCEPT !.g[i] = lc] = [s1 EXCEPT !.g = x] /\ [q1 EXCEPT !.g[i] = lc] = [q1 EXCEPT !.g = x]
      BY <3>2, <3>3
    <3>6. Twin([s1 EXCEPT !.g = x], [q1 EXCEPT !.g = x], p, e, f)
      BY <1>6, <3>4, TwinSet
    <3> QED
      BY <3>1, <3>5, <3>6
  <2> QED
    BY <2>1
<1>16. GetEscape(s, c) =
         CASE Append(t, c) \in Unfinished -> [s EXCEPT !.esc = Append(h, c)]
           [] Named(t, c) # Inv -> [s1 EXCEPT !.g[InterGraphic(t)] = Named(t, c)]
           [] t = <<>> /\ c = "N" /\ s.g[2] # Inv -> [s1 EXCEPT !.single = 2]
           [] t = <<>> /\ c = "O" /\ s.g[3] # Inv -> [s1 EXCEPT !.single = 3]
           [] t = <<>> /\ c = "0" -> [s2 EXCEPT !.cmp = TRUE]
           [] t = <<>> /\ c = "1" -> [s1 EXCEPT !.cmp = FALSE]
           [] t # <<>> /\ t[1] = "[" /\ c = "]" -> [s1 EXCEPT !.rtl = (t = <<"[", "2">>)]
           [] OTHER -> GetByte(Emit(s1, h), c)
  BY <1>2, <1>3, <1>5, <1>9, Zenon DEF GetEscape
<1>17. GetEscape(q, c) =
         CASE Append(t, c) \in Unfinished -> [q EXCEPT !.esc = Append(h, c)]
           [] Named(t, c) # Inv -> [q1 EXCEPT !.g[InterGraphic(t)] = Named(t, c)]
           [] t = <<>> /\ c = "N" /\ s.g[2] # Inv -> [q1 EXCEPT !.single = 2]
           [] t = <<>> /\ c = "O" /\ s.g[3] # Inv -> [q1 EXCEPT !.single = 3]
           [] t = <<>> /\ c = "0" -> [q2 EXCEPT !.cmp = TRUE]
           [] t = <<>> /\ c = "1" -> [q1 EXCEPT !.cmp = FALSE]
           [] t # <<>> /\ t[1] = "[" /\ c = "]" -> [q1 EXCEPT !.rtl = (t = <<"[", "2">>)]
           [] OTHER -> GetByte(Emit(q1, h), c)
  BY <1>1, <1>2, <1>3, <1>5, <1>9, Zenon DEF GetEscape
<1> QED
  BY <1>7, <1>8, <1>11, <1>12, <1>14, <1>15, <1>16, <1>17

LEMMA TwinGetLineEnd ==
  ASSUME NEW s, NEW q, NEW p, NEW e, NEW f, Twin(s, q, p, e, f), NEW c \in Bytes,
         e = f \/ c \notin Cntl
  PROVE  Twin(GetLineEnd(s, c), GetLineEnd(q, c), p, e, f)
<1>1. q.cr = s.cr /\ s.eol = e /\ q.eol = f /\ (c = "CR" => f = e)
  BY DEF Twin, Cntl
<1>2. PICK x : x = (s.cr /\ c # "LF")
  OBVIOUS
<1>3. PICK s1, q1 : /\ s1 = IF x THEN Emit(s, <<"CR">>) ELSE s
                    /\ q1 = IF x THEN Emit(q, <<"CR">>) ELSE q
  OBVIOUS
<1>4. Twin(s1, q1, p, e, f)
  BY <1>3, TwinEmit, SignSequences
<1>5. PICK s2, q2 : s2 = [s1 EXCEPT !.cr = FALSE] /\ q2 = [q1 EXCEPT !.cr = FALSE]
  OBVIOUS
<1>6. Twin(s2, q2, p, e, f)
  BY <1>4, <1>5, TwinSet
<1>7. << c >> \in Seq(Bytes)
  OBVIOUS
<1>8. /\ Twin(Emit(s, <<"LF">>), Emit(q, <<"LF">>), p, e, f)
      /\ Twin(Emit(s, << c >>), Emit(q, << c >>), p, e, f)
  BY <1>7, TwinEmit, SignSequences
<1>9. Twin([s EXCEPT !.cr = TRUE], [q EXCEPT !.cr = TRUE], p, e, f)
  BY TwinSet
<1>10. GetLineEnd(s, c) =
         CASE c = "CR" /\ e = "CR" -> Emit(s, <<"LF">>)
           [] c = "CR" /\ e = "CRLF" /\ s.cr -> Emit(s, << c >>)
           [] c = "CR" /\ e = "CRLF" /\ ~s.cr -> [s EXCEPT !.cr = TRUE]
           [] c = "CR" /\ e \notin {"CR", "CRLF"} -> Emit(s, << c >>)
           [] OTHER -> s2
  BY <1>1, <1>2, <1>3, <1>5, Zenon DEF GetLineEnd
<1>11. GetLineEnd(q, c) =
         CASE c = "CR" /\ f = "CR" -> Emit(q, <<"LF">>)
           [] c = "CR" /\ f = "CRLF" /\ s.cr -> Emit(q, << c >>)
           [] c = "CR" /\ f = "CRLF" /\ ~s.cr -> [q EXCEPT !.cr = TRUE]
           [] c = "CR" /\ f \notin {"CR", "CRLF"} -> Emit(q, << c >>)
           [] OTHER -> q2
  BY <1>1, <1>2, <1>3, <1>5, Zenon DEF GetLineEnd
<1> QED
  BY <1>1, <1>6, <1>8, <1>9, <1>10, <1>11

LEMMA TwinGetPlain ==
  ASSUME NEW s, NEW q, NEW p, NEW e, NEW f, Twin(s, q, p, e, f), NEW c \in Bytes,
         e = f \/ c \notin Cntl
  PROVE  Twin(GetPlain(s, c), GetPlain(q, c), p, e, f)
<1>1. << c >> \in Seq(Bytes)
  OBVIOUS
<1>2. Twin(GetLineEnd(s, c), GetLineEnd(q, c), p, e, f)
  BY TwinGetLineEnd
<1>3. Twin(Emit(GetLineEnd(s, c), << c >>), Emit(GetLineEnd(q, c), << c >>), p, e, f)
  BY <1>1, <1>2, TwinEmit
<1> QED
  BY <1>2, <1>3 DEF GetPlain

LEMMA TwinGetSjis ==
  ASSUME NEW s, NEW q, NEW p, NEW e, NEW f, Twin(s, q, p, e, f), NEW c \in Bytes,
         e = f \/ c \notin Cntl
  PROVE  Twin(GetSjis(s, c), GetSjis(q, c), p, e, f)
<1>1. q.ch = s.ch
  BY DEF Twin
<1>2. PICK high \in Bytes, jp \in Bytes, b1 \in Bytes, kana \in Bytes :
        high = High(c) /\ jp = "jp" /\ b1 = "B+" /\ kana = "kana"
  <2>1. "jp" \in Bytes /\ "kana" \in Bytes /\ "B+" \in Bytes /\ High(c) \in Bytes
    BY SignsAre, LowHigh, BytesAre, Zenon DEF Charsets
  <2> QED
    BY <2>1
<1>3. <<>> \in Seq(Bytes) /\ << c >> \in Seq(Bytes) /\ <<jp, b1, high>> \in Seq(Bytes)
      /\ <<kana, c>> \in Seq(Bytes)
  OBVIOUS
<1>4. PICK s1, q1 : s1 = [s EXCEPT !.ch = <<>>] /\ q1 = [q EXCEPT !.ch = <<>>]
  OBVIOUS
<1>5. Twin(s1, q1, p, e, f)
  BY <1>3, <1>4, TwinSet
<1>6. Twin(Emit(s1, <<jp, b1, high>>), Emit(q1, <<jp, b1, high>>), p, e, f)
  BY <1>3, <1>5, TwinEmit
<1>7. PICK s2, q2 : s2 = GetLineEnd(s, c) /\ q2 = GetLineEnd(q, c)
  OBVIOUS
<1>8. Twin(s2, q2, p, e, f)
  BY <1>7, TwinGetLineEnd
<1>9. Twin([s2 EXCEPT !.ch = << c >>], [q2 EXCEPT !.ch = << c >>], p, e, f)
  BY <1>3, <1>8, TwinSet
<1>10. PICK b \in Seq(Bytes) : b = IF c \in Ascii THEN << c >> ELSE <<kana, c>>
  BY <1>3
<1>11. Twin(Emit(s2, b), Emit(q2, b), p, e, f)
  BY <1>8, TwinEmit
<1>12. GetSjis(s, c) = CASE s.ch # <<>> -> Emit(s1, <<jp, b1, high>>)
                         [] s.ch = <<>> /\ c = "CR" -> s2
                         [] s.ch = <<>> /\ c = "S" -> [s2 EXCEPT !.ch = << c >>]
                         [] OTHER -> Emit(s2, b)
  BY <1>2, <1>4, <1>7, <1>10, Zenon DEF GetSjis
<1>13. GetSjis(q, c) = CASE s.ch # <<>> -> Emit(q1, <<jp, b1, high>>)
                         [] s.ch = <<>> /\ c = "CR" -> q2
                         [] s.ch = <<>> /\ c = "S" -> [q2 EXCEPT !.ch = << c >>]
                         [] OTHER -> Emit(q2, b)
  BY <1>1, <1>2, <1>4, <1>7, <1>10, Zenon DEF GetSjis
<1> QED
  BY <1>6, <1>8, <1>9, <1>11, <1>12, <1>13

LEMMA TwinGet ==
  ASSUME NEW s, NEW q, NEW p, NEW e, NEW f, Twin(s, q, p, e, f), NEW c \in Bytes,
         e = f \/ c \notin Cntl
  PROVE  Twin(Get(s, c), Get(q, c), p, e, f)
<1>1. q.esc = s.esc /\ q.code = s.code
  BY DEF Twin
<1>2. Twin(GetIso(s, c), GetIso(q, c), p, e, f)
  BY <1>1, TwinGetEscape, TwinGetByte DEF GetIso
<1>3. Twin(GetSjis(s, c), GetSjis(q, c), p, e, f) /\ Twin(GetPlain(s, c), GetPlain(q, c), p, e, f)
  BY TwinGetSjis, TwinGetPlain
<1> QED
  BY <1>1, <1>2, <1>3 DEF Get

LEMMA TwinGetAll ==
  ASSUME NEW s, NEW q, NEW p, NEW e, NEW f, Twin(s, q, p, e, f), NEW b \in Seq(Bytes),
         e = f \/ \A i \in 1 .. Len(b) : b[i] \notin Cntl
  PROVE  Twin(GetAll(s, b), GetAll(q, b), p, e, f)
<1>1. PICK n \in Nat : n = Len(b)
  OBVIOUS
<1>2. PICK h : GetRun(h, s, b, n) /\ GetAll(s, b) = h[n]
  BY <1>1, GetAllRuns
<1>3. PICK g : GetRun(g, q, b, n) /\ GetAll(q, b) = g[n]
  BY <1>1, GetAllRuns
<1>4. PICK R : R = {i \in 0 .. n : Twin(h[i], g[i], p, e, f)}
  OBVIOUS
<1>5. 0 \in R
  BY <1>2, <1>3, <1>4 DEF GetRun
<1>6. ASSUME NEW i \in 0 .. n - 1, i \in R PROVE i + 1 \in R
  <2>1. PICK k \in 1 .. n : k = i + 1 /\ k - 1 = i
    OBVIOUS
  <2>2. h[k] = Get(h[i], b[k]) /\ g[k] = Get(g[i], b[k]) /\ b[k] \in Bytes
    BY <1>1, <1>2, <1>3, <2>1 DEF GetRun
  <2>3. Twin(h[i], g[i], p, e, f)
    BY <1>4, <1>6
  <2>4. Twin(h[k], g[k], p, e, f)
    BY <1>1, <2>2, <2>3, TwinGet
  <2> QED
    BY <1>4, <2>1, <2>4
<1>7. \A i \in 0 .. n : i \in R
  BY <1>5, <1>6, AllReached
<1>8. Twin(h[n], g[n], p, e, f)
  BY <1>4, <1>7
<1> QED
  BY <1>2, <1>3, <1>8

-----------------------------------------------------------------------------
(* What a reader makes of what writers write.  It is calm between          *)
(* characters; the text it stands for has the \r that may still be part of *)
(* a line end.                                                             *)

Calm(r0) ==
  /\ r0 \in Readers /\ r0.esc = <<>> /\ r0.ch = <<>> /\ r0.single = 0
  /\ r0.cr => r0.eol = "CRLF"
ReadText(r0) == r0.out \o When(r0.cr, <<"CR">>)

LEMMA Nothing ==
  ASSUME NEW o \in Seq(Bytes)
  PROVE  o \o <<>> = o /\ <<>> \o o = o /\ <<>> \in Seq(Bytes)
OBVIOUS

LEMMA SettledIs ==
  ASSUME NEW r0 \in Readers, NEW z, z = Settled(r0)
  PROVE  /\ z \in Readers /\ z.cr = FALSE /\ z.out = ReadText(r0) /\ ReadText(z) = ReadText(r0)
         /\ z.code = r0.code /\ z.eol = r0.eol /\ z.g = r0.g /\ z.esc = r0.esc
         /\ z.single = r0.single /\ z.shifted = r0.shifted /\ z.rtl = r0.rtl /\ z.cmp = r0.cmp
         /\ z.ch = r0.ch
<1>1. PICK o \in Seq(Bytes) : o = r0.out
  BY ReaderFields
<1>2. PICK x \in Seq(Bytes) : x = o \o <<"CR">>
  BY SignSequences, Associates
<1>3. r0.cr \in BOOLEAN
  BY ReaderFields
<1>4. ReadText(r0) = IF r0.cr THEN x ELSE o
  BY <1>1, <1>2, <1>3, Nothing DEF ReadText, When
<1>5. z = IF r0.cr THEN [[r0 EXCEPT !.out = x] EXCEPT !.cr = FALSE] ELSE [r0 EXCEPT !.cr = FALSE]
  BY <1>1, <1>2, <1>3 DEF Settled, Emit
<1>6. /\ z \in Readers /\ z.cr = FALSE /\ z.out = ReadText(r0)
      /\ z.code = r0.code /\ z.eol = r0.eol /\ z.g = r0.g /\ z.esc = r0.esc
      /\ z.single = r0.single /\ z.shifted = r0.shifted /\ z.rtl = r0.rtl /\ z.cmp = r0.cmp
      /\ z.ch = r0.ch
  <2>1. PICK y \in Readers : y = IF r0.cr THEN [r0 EXCEPT !.out = x] ELSE r0
    BY DEF Readers
  <2>2. /\ y.out = ReadText(r0) /\ y.code = r0.code /\ y.eol = r0.eol /\ y.g = r0.g
        /\ y.esc = r0.esc /\ y.single = r0.single /\ y.shifted = r0.shifted /\ y.rtl = r0.rtl
        /\ y.cmp = r0.cmp /\ y.ch = r0.ch
    BY <1>1, <1>4, <2>1 DEF Readers
  <2>3. z = [y EXCEPT !.cr = FALSE]
    BY <1>3, <1>5, <2>1
  <2> QED
    BY <2>2, <2>3 DEF Readers
<1>7. ReadText(z) = z.out
  <2>1. PICK y \in Seq(Bytes) : y = z.out
    BY <1>6, ReaderFields
  <2> QED
    BY <1>6, <2>1, Nothing DEF ReadText, When
<1> QED
  BY <1>6, <1>7

LEMMA SettledCalm ==
  ASSUME NEW r0, Calm(r0)
  PROVE  Calm(Settled(r0)) /\ Settled(Settled(r0)) = Settled(r0)
<1>1. PICK z : z = Settled(r0)
  OBVIOUS
<1>2. r0 \in Readers
  BY DEF Calm
<1>3. /\ z \in Readers /\ z.cr = FALSE /\ z.esc = r0.esc /\ z.single = r0.single /\ z.ch = r0.ch
  BY <1>1, <1>2, SettledIs
<1>4. Calm(z)
  BY <1>3 DEF Calm
<1>5. Settled(z) = [z EXCEPT !.cr = FALSE]
  BY <1>3 DEF Settled
<1>6. [z EXCEPT !.cr = FALSE] = z
  BY <1>3 DEF Readers
<1> QED
  BY <1>1, <1>4, <1>5, <1>6

LEMMA FlushNothing ==
  ASSUME NEW r0 \in Readers, r0.ch = <<>>
  PROVE  Flush(r0) = r0
<1>1. PICK o \in Seq(Bytes) : o = r0.out
  BY ReaderFields
<1>2. [i \in 1 .. Len(r0.ch) |-> Low(r0.ch[i])] = <<>>
  OBVIOUS
<1>3. [r0 EXCEPT !.ch = <<>>] = r0
  BY DEF Readers
<1>4. Emit(r0, <<>>) = [r0 EXCEPT !.out = o]
  BY <1>1, Nothing DEF Emit
<1>5. [r0 EXCEPT !.out = o] = r0
  BY <1>1 DEF Readers
<1> QED
  BY <1>2, <1>3, <1>4, <1>5 DEF Flush

LEMMA ControlIs ==
  ASSUME NEW r0, Calm(r0), NEW c, NEW z, z = IF c = "LF" THEN [r0 EXCEPT !.cr = FALSE] ELSE Settled(r0)
  PROVE  GetControl(r0, c) =
           CASE c = "ESC" -> [z EXCEPT !.esc = <<"ESC">>]
             [] c = "CSI" -> [z EXCEPT !.esc = <<"ESC", "[">>]
             [] c \in {"SO", "SI"} /\ r0.g[1] # Inv -> [z EXCEPT !.shifted = (c = "SO")]
             [] c = "SS2" /\ r0.g[2] # Inv -> [z EXCEPT !.single = 2]
             [] c = "SS3" /\ r0.g[3] # Inv -> [z EXCEPT !.single = 3]
             [] c = "CR" /\ r0.eol = "CR" -> Emit(z, <<"LF">>)
             [] c = "CR" /\ r0.eol = "CRLF" -> [z EXCEPT !.cr = TRUE]
             [] OTHER -> Emit(z, << c >>)
<1>1. r0 \in Readers /\ r0.single = 0 /\ r0.ch = <<>>
  BY DEF Calm
<1>2. PICK o \in Seq(Bytes) : o = r0.out
  BY <1>1, ReaderFields
<1>3. r0.cr \in BOOLEAN
  BY <1>1, ReaderFields
<1>4. PICK cut : cut = CASE r0.single = 2 -> <<"SO">> [] r0.single = 3 -> <<"SI">>
                         [] r0.single = 0 /\ r0.cr /\ c # "LF" -> <<"CR">> [] OTHER -> <<>>
  OBVIOUS
<1>5. cut = IF r0.cr /\ c # "LF" THEN <<"CR">> ELSE <<>>
  BY <1>1, <1>4
<1>6. Flush(r0) = r0
  BY <1>1, FlushNothing
<1>7. [Emit(r0, cut) EXCEPT !.single = 0, !.cr = FALSE] = z
  <2>1. CASE r0.cr /\ c # "LF"
    <3>1. Emit(r0, cut) \in Readers /\ Emit(r0, cut).single = 0
      <4>1. PICK x \in Seq(Bytes) : x = o \o <<"CR">>
        BY SignSequences, Associates
      <4>2. Emit(r0, cut) = [r0 EXCEPT !.out = x]
        BY <1>2, <1>5, <2>1, <4>1 DEF Emit
      <4> QED
        BY <1>1, <4>2 DEF Readers
    <3>2. PICK y \in Readers : y = Emit(r0, cut) /\ y.single = 0
      BY <3>1
    <3>3. [y EXCEPT !.single = 0, !.cr = FALSE] = [y EXCEPT !.cr = FALSE]
      BY <3>2 DEF Readers
    <3>4. z = [y EXCEPT !.cr = FALSE]
      BY <1>5, <2>1, <3>2 DEF Settled
    <3> QED
      BY <3>2, <3>3, <3>4
  <2>2. CASE ~(r0.cr /\ c # "LF")
    <3>1. Emit(r0, cut) = [r0 EXCEPT !.out = o]
      BY <1>2, <1>5, <2>2, Nothing DEF Emit
    <3>2. [r0 EXCEPT !.out = o] = r0
      BY <1>1, <1>2 DEF Readers
    <3>3. [r0 EXCEPT !.single = 0, !.cr = FALSE] = [r0 EXCEPT !.cr = FALSE]
      BY <1>1 DEF Readers
    <3>4. z = [r0 EXCEPT !.cr = FALSE]
      BY <1>3, <2>2 DEF Settled
    <3> QED
      BY <3>1, <3>2, <3>3, <3>4
  <2> QED
    BY <2>1, <2>2
<1>8. [Emit(Flush(r0), cut) EXCEPT !.single = 0, !.cr = FALSE] = z
  BY <1>6, <1>7, Zenon
<1> QED
  BY <1>4, <1>8, Zenon DEF GetControl

(* Escape sequences.                                                       *)

LEMMA InterAre ==
  /\ {Inter94[i] : i \in 1 .. 4} = {"(", ")", "*", "+"}
  /\ Inter = {"(", ")", "*", "+", ",", "-", ".", "/"}
<1>1. {Inter94[i] : i \in 1 .. 4} = {"(", ")", "*", "+"}
  <2>1. Inter94[1] = "(" /\ Inter94[2] = ")" /\ Inter94[3] = "*" /\ Inter94[4] = "+"
    BY DEF Inter94
  <2>2. \A i \in 1 .. 4 : i = 1 \/ i = 2 \/ i = 3 \/ i = 4
    OBVIOUS
  <2>3. 1 \in 1 .. 4 /\ 2 \in 1 .. 4 /\ 3 \in 1 .. 4 /\ 4 \in 1 .. 4
    OBVIOUS
  <2> QED
    BY <2>1, <2>2, <2>3
<1>2. {Inter96[i] : i \in 1 .. 4} = {",", "-", ".", "/"}
  <2>1. Inter96[1] = "," /\ Inter96[2] = "-" /\ Inter96[3] = "." /\ Inter96[4] = "/"
    BY DEF Inter96
  <2>2. \A i \in 1 .. 4 : i = 1 \/ i = 2 \/ i = 3 \/ i = 4
    OBVIOUS
  <2>3. 1 \in 1 .. 4 /\ 2 \in 1 .. 4 /\ 3 \in 1 .. 4 /\ 4 \in 1 .. 4
    OBVIOUS
  <2> QED
    BY <2>1, <2>2, <2>3, ZenonT(60)
<1> QED
  BY <1>1, <1>2, Zenon DEF Inter

LEMMA UnfinishedAre ==
  ASSUME NEW x \in Seq(Bytes)
  PROVE  x \in Unfinished <=> \/ Len(x) = 1 /\ x[1] \in Inter \union {"$", "["}
                              \/ Len(x) = 2 /\ x[1] = "[" /\ x[2] \in {"0", "1", "2"}
                              \/ Len(x) = 2 /\ x[1] = "$" /\ x[2] \in Inter
<1>1. ASSUME x \in Unfinished
      PROVE  \/ Len(x) = 1 /\ x[1] \in Inter \union {"$", "["}
             \/ Len(x) = 2 /\ x[1] = "[" /\ x[2] \in {"0", "1", "2"}
             \/ Len(x) = 2 /\ x[1] = "$" /\ x[2] \in Inter
  <2>1. CASE x \in {<<"$">>, <<"[">>, <<"[", "0">>, <<"[", "1">>, <<"[", "2">>}
    BY <2>1
  <2>2. CASE x \in {<<i>> : i \in Inter}
    BY <2>2
  <2>3. CASE x \in {<<"$", i>> : i \in Inter}
    BY <2>3
  <2> QED
    BY <1>1, <2>1, <2>2, <2>3 DEF Unfinished
<1>2. ASSUME Len(x) = 1 PROVE x = << x[1] >>
  BY <1>2
<1>3. ASSUME Len(x) = 2 PROVE x = << x[1], x[2] >>
  BY <1>3
<1>4. ASSUME Len(x) = 1, x[1] \in Inter \union {"$", "["} PROVE x \in Unfinished
  <2>1. x = << x[1] >>
    BY <1>2, <1>4
  <2> QED
    BY <1>4, <2>1 DEF Unfinished
<1>5. ASSUME Len(x) = 2, x[1] = "[", x[2] \in {"0", "1", "2"} PROVE x \in Unfinished
  <2>1. x = << "[", x[2] >>
    BY <1>3, <1>5
  <2> QED
    BY <1>5, <2>1 DEF Unfinished
<1>6. ASSUME Len(x) = 2, x[1] = "$", x[2] \in Inter PROVE x \in Unfinished
  <2>1. x = << "$", x[2] >>
    BY <1>3, <1>6
  <2> QED
    BY <1>6, <2>1 DEF Unfinished
<1> QED
  BY <1>1, <1>4, <1>5, <1>6

LEMMA AppendIs ==
  ASSUME NEW e \in Seq(Bytes), NEW c \in Bytes
  PROVE  \E x \in Seq(Bytes) : /\ x = Append(e, c) /\ Len(x) = Len(e) + 1 /\ x[Len(e) + 1] = c
                               /\ \A i \in 1 .. Len(e) : x[i] = e[i]
<1>1. Append(e, c) \in Seq(Bytes)
  OBVIOUS
<1>2. PICK x \in Seq(Bytes) : x = Append(e, c)
  BY <1>1
<1>3. Len(x) = Len(e) + 1 /\ x[Len(e) + 1] = c /\ \A i \in 1 .. Len(e) : x[i] = e[i]
  BY <1>2
<1> QED
  BY <1>2, <1>3

Escaping(z, e) == [z EXCEPT !.esc = <<"ESC">> \o e]

LEMMA Escaped ==
  ASSUME NEW e \in Seq(Bytes), NEW c \in Bytes, NEW h, h = <<"ESC">> \o e
  PROVE  /\ Tail(h) = e /\ h # <<>> /\ Append(h, c) = <<"ESC">> \o Append(e, c)
         /\ h \in Seq(Bytes) /\ Append(e, c) \in Seq(Bytes)
<1>1. h \in Seq(Bytes) /\ Len(h) = Len(e) + 1 /\ \A i \in 1 .. Len(e) : h[i + 1] = e[i]
  BY SignSequences
<1>2. Tail(h) = e
  <2>1. Tail(h) \in Seq(Bytes) /\ Len(Tail(h)) = Len(e) /\ \A i \in 1 .. Len(e) : Tail(h)[i] = h[i + 1]
    BY <1>1
  <2> QED
    BY <1>1, <2>1, SeqEqual
<1>3. Append(h, c) = <<"ESC">> \o Append(e, c)
  <2>1. Append(h, c) = h \o << c >> /\ Append(e, c) = e \o << c >> /\ << c >> \in Seq(Bytes)
    BY <1>1
  <2>2. (<<"ESC">> \o e) \o << c >> = <<"ESC">> \o (e \o << c >>)
    BY <2>1, SignSequences, Associates
  <2> QED
    BY <2>1, <2>2
<1> QED
  BY <1>1, <1>2, <1>3

LEMMA EscapeIs ==
  ASSUME NEW z, Calm(z), System[z.code].type = "iso", NEW e \in Seq(Bytes), NEW c \in Bytes
  PROVE  Get(Escaping(z, e), c) =
         CASE Append(e, c) \in Unfinished -> Escaping(z, Append(e, c))
           [] Named(e, c) # Inv -> [z EXCEPT !.g[InterGraphic(e)] = Named(e, c)]
           [] e = <<>> /\ c = "N" /\ z.g[2] # Inv -> [z EXCEPT !.single = 2]
           [] e = <<>> /\ c = "O" /\ z.g[3] # Inv -> [z EXCEPT !.single = 3]
           [] e = <<>> /\ c = "0" -> [Emit(z, <<"CMP">>) EXCEPT !.cmp = TRUE]
           [] e = <<>> /\ c = "1" -> [z EXCEPT !.cmp = FALSE]
           [] e # <<>> /\ e[1] = "[" /\ c = "]" -> [z EXCEPT !.rtl = (e = <<"[", "2">>)]
           [] OTHER -> GetByte(Emit(z, <<"ESC">> \o e), c)
<1>1. z \in Readers /\ z.esc = <<>>
  BY DEF Calm
<1>2. PICK h : h = <<"ESC">> \o e
  OBVIOUS
<1>3. /\ Tail(h) = e /\ h # <<>> /\ Append(h, c) = <<"ESC">> \o Append(e, c) /\ h \in Seq(Bytes)
  BY <1>2, Escaped
<1>4. PICK x : x = [z EXCEPT !.esc = h]
  OBVIOUS
<1>5. x = Escaping(z, e)
  BY <1>2, <1>4 DEF Escaping
<1>6. x.code = z.code /\ x.esc = h /\ x.g = z.g
  BY <1>1, <1>4 DEF Readers
<1>7. Get(x, c) = GetEscape(x, c)
  BY <1>3, <1>6 DEF Get, GetIso
<1>8. [x EXCEPT !.esc = <<>>] = z
  BY <1>1, <1>4 DEF Readers
<1>9. [x EXCEPT !.esc = Append(@, c)] = Escaping(z, Append(e, c))
  BY <1>1, <1>3, <1>4, <1>6 DEF Escaping, Readers
<1> QED
  BY <1>2, <1>3, <1>5, <1>6, <1>7, <1>8, <1>9, Zenon DEF GetEscape

LEMMA NamedByIntermediate ==
  ASSUME NEW e \in Seq(Bytes), NEW c \in Bytes
  PROVE  /\ e = <<>> => Named(e, c) = Inv
         /\ e # <<>> /\ e # <<"$">> /\ e[Len(e)] \notin Inter => Named(e, c) = Inv
         /\ Append(e, c) \in Unfinished => Named(e, c) = Inv
<1>1. <<>> # <<"$">>
  OBVIOUS
<1>2. e = <<>> => Named(e, c) = Inv
  BY <1>1 DEF Named
<1>3. e # <<>> /\ e # <<"$">> /\ e[Len(e)] \notin Inter => Named(e, c) = Inv
  BY DEF Named, Last
<1>4. ASSUME Append(e, c) \in Unfinished, e # <<>> PROVE Named(e, c) = Inv
  <2>1. PICK x \in Seq(Bytes) : /\ x = Append(e, c) /\ Len(x) = Len(e) + 1 /\ x[Len(e) + 1] = c
                                /\ \A i \in 1 .. Len(e) : x[i] = e[i]
    BY AppendIs
  <2>2. Len(x) = Len(e) + 1 /\ x[Len(e) + 1] = c /\ \A i \in 1 .. Len(e) : x[i] = e[i]
    BY <2>1
  <2>3. Len(e) # 0
    BY <1>4
  <2>8. x \in Unfinished /\ Len(e) \in Nat
    BY <1>4, <2>1
  <2>9. \/ Len(x) = 1 /\ x[1] \in Inter \union {"$", "["}
        \/ Len(x) = 2 /\ x[1] = "[" /\ x[2] \in {"0", "1", "2"}
        \/ Len(x) = 2 /\ x[1] = "$" /\ x[2] \in Inter
    BY <2>8, UnfinishedAre
  <2>4. \/ Len(x) = 2 /\ x[1] = "[" /\ x[2] \in {"0", "1", "2"}
        \/ Len(x) = 2 /\ x[1] = "$" /\ x[2] \in Inter
    BY <2>2, <2>3, <2>8, <2>9
  <2>5. Len(e) = 1 /\ e[1] = x[1] /\ x[2] = c
    <3>1. PICK n \in Nat : n = Len(e)
      BY <2>8
    <3>2. n + 1 = 2
      BY <2>2, <2>4, <3>1
    <3>3. n = 1
      BY <3>2
    <3> QED
      BY <2>2, <3>1, <3>3
  <2>6. CASE x[1] = "["
    <3>2. e[1] \notin Inter /\ e[1] # "$"
      BY <2>5, <2>6, InterAre, Zenon
    <3>1. e[1] \notin Inter /\ e # <<"$">>
      BY <3>2
    <3> QED
      BY <1>3, <1>4, <2>5, <3>1
  <2>7. CASE x[1] = "$"
    <3>1. c \in Inter /\ x[1] # "["
      BY <2>2, <2>4, <2>5, <2>7
    <3>2. c \notin {"@", "A", "B"}
      BY <3>1, InterAre, Zenon
    <3>3. e = <<"$">>
      BY <2>5, <2>7
    <3> QED
      BY <3>2, <3>3 DEF Named
  <2> QED
    BY <2>4, <2>6, <2>7
<1> QED
  BY <1>2, <1>3, <1>4

LEMMA EscapeGoesOn ==
  ASSUME NEW z, Calm(z), System[z.code].type = "iso", NEW e \in Seq(Bytes), NEW c \in Bytes,
         Append(e, c) \in Unfinished
  PROVE  Get(Escaping(z, e), c) = Escaping(z, Append(e, c))
<1>1. Named(e, c) = Inv
  BY NamedByIntermediate
<1>2. PICK x \in Seq(Bytes) : x = Append(e, c) /\ Len(x) = Len(e) + 1 /\ x[Len(e) + 1] = c
  BY AppendIs
<1>3. Len(x) = Len(e) + 1 /\ x[Len(e) + 1] = c
  BY <1>2
<1>4. c \in Inter \union {"$", "["} \/ (e # <<>> /\ c \in {"0", "1", "2"})
  <2>1. Len(e) \in Nat /\ x \in Unfinished /\ (e = <<>> => Len(e) = 0)
    BY <1>2
  <2>2. \/ Len(x) = 1 /\ x[1] \in Inter \union {"$", "["}
        \/ Len(x) = 2 /\ x[1] = "[" /\ x[2] \in {"0", "1", "2"}
        \/ Len(x) = 2 /\ x[1] = "$" /\ x[2] \in Inter
    BY <2>1, UnfinishedAre
  <2>3. CASE Len(x) = 1
    <3>1. Len(e) = 0
      BY <1>3, <2>1, <2>3
    <3> QED
      BY <1>3, <2>2, <2>3, <3>1
  <2>4. CASE Len(x) = 2
    <3>2. PICK n \in Nat : n = Len(e)
      BY <2>1
    <3>3. n + 1 = 2
      BY <1>3, <2>4, <3>2
    <3>4. n = 1
      BY <3>3
    <3>1. Len(e) = 1 /\ x[2] = c /\ e # <<>>
      BY <1>3, <2>1, <3>2, <3>4
    <3> QED
      BY <2>2, <2>4, <3>1
  <2> QED
    BY <2>2, <2>3, <2>4
<1>5. c \notin {"N", "O", "]"} /\ (e = <<>> => c \notin {"0", "1"})
  BY <1>4, InterAre, Zenon
<1> QED
  BY <1>1, <1>5, EscapeIs

LEMMA EscapeNames ==
  ASSUME NEW z, Calm(z), System[z.code].type = "iso", NEW e \in Seq(Bytes), NEW c \in Bytes,
         Append(e, c) \notin Unfinished, Named(e, c) # Inv, c # "]"
  PROVE  Get(Escaping(z, e), c) = [z EXCEPT !.g[InterGraphic(e)] = Named(e, c)]
<1>1. e # <<>>
  BY NamedByIntermediate
<1> QED
  BY <1>1, EscapeIs

LEMMA EscapeOfOne ==
  ASSUME NEW z, Calm(z), System[z.code].type = "iso"
  PROVE  /\ z.g[2] # Inv => Get(Escaping(z, <<>>), "N") = [z EXCEPT !.single = 2]
         /\ Get(Escaping(z, <<>>), "0") = [Emit(z, <<"CMP">>) EXCEPT !.cmp = TRUE]
         /\ Get(Escaping(z, <<>>), "1") = [z EXCEPT !.cmp = FALSE]
<1>1. PICK e \in Seq(Bytes) : e = <<>>
  <2>1. <<>> \in Seq(Bytes)
    OBVIOUS
  <2> QED
    BY <2>1
<1>2. ASSUME NEW c \in Bytes, c \notin Inter \union {"$", "["}
      PROVE  Append(e, c) \notin Unfinished /\ Named(e, c) = Inv
  <2>1. PICK x \in Seq(Bytes) : x = Append(e, c) /\ Len(x) = Len(e) + 1 /\ x[Len(e) + 1] = c
    BY AppendIs
  <2>2. Len(x) = 1 /\ x[1] = c
    BY <1>1, <2>1
  <2>3. x \notin Unfinished
    BY <1>2, <2>2, UnfinishedAre
  <2> QED
    BY <1>1, <2>1, <2>3, NamedByIntermediate
<1>3. /\ "N" \in Bytes /\ "0" \in Bytes /\ "1" \in Bytes
      /\ "N" \notin Inter \union {"$", "["} /\ "0" \notin Inter \union {"$", "["}
      /\ "1" \notin Inter \union {"$", "["}
  BY SignsAre, InterAre, Zenon
<1>4. z.g[2] # Inv => Get(Escaping(z, e), "N") = [z EXCEPT !.single = 2]
  BY <1>1, <1>2, <1>3, EscapeIs
<1>5. Get(Escaping(z, e), "0") = [Emit(z, <<"CMP">>) EXCEPT !.cmp = TRUE]
  BY <1>1, <1>2, <1>3, EscapeIs
<1>6. Get(Escaping(z, e), "1") = [z EXCEPT !.cmp = FALSE]
  BY <1>1, <1>2, <1>3, EscapeIs
<1> QED
  BY <1>1, <1>4, <1>5, <1>6

LEMMA EscapeTurns ==
  ASSUME NEW z, Calm(z), System[z.code].type = "iso", NEW e \in Seq(Bytes), e # <<>>, e[1] = "[",
         e[Len(e)] \notin Inter
  PROVE  Get(Escaping(z, e), "]") = [z EXCEPT !.rtl = (e = <<"[", "2">>)]
<1>1. PICK c \in Bytes : c = "]"
  BY SignsAre, Zenon
<1>2. PICK x \in Seq(Bytes) : x = Append(e, c) /\ Len(x) = Len(e) + 1 /\ x[Len(e) + 1] = c
  BY AppendIs
<1>3. Len(x) = Len(e) + 1 /\ x[Len(e) + 1] = c
  BY <1>2
<1>4. c \notin Inter \union {"$", "[", "0", "1", "2"}
  BY <1>1, InterAre, Zenon
<1>5. x \notin Unfinished
  BY <1>3, <1>4, UnfinishedAre
<1>6. Named(e, c) = Inv
  BY NamedByIntermediate
<1> QED
  BY <1>1, <1>2, <1>5, <1>6, EscapeIs

LEMMA FinalsDiffer ==
  ASSUME NEW lc \in Charsets, NEW x \in Charsets, Set[x].type = Set[lc].type, Set[x].final = Set[lc].final
  PROVE  x = lc
<1>1. CASE lc \in {"ascii", "kana"}
  BY <1>1, SetIs DEF Charsets
<1>2. CASE lc \in {"latin", "hebrew"}
  BY <1>2, SetIs DEF Charsets
<1>3. CASE lc \in {"jp", "jp2", "kr"}
  BY <1>3, SetIs DEF Charsets
<1> QED
  BY <1>1, <1>2, <1>3 DEF Charsets

LEMMA FinalIs ==
  ASSUME NEW s, NEW lc \in Charsets
  PROVE  Final(Set[lc].type, Ending(s, lc)) = lc
<1>1. Set[lc].final \notin {"J", "@"}
  BY SetIs DEF Charsets
<1>2. Final(Set[lc].type, Set[lc].final) = lc
  <2>1. PICK type, c : type = Set[lc].type /\ c = Set[lc].final
    OBVIOUS
  <2>2. lc \in DOMAIN Set /\ Set[lc].type = type /\ Set[lc].final = c
    BY <2>1, CharsetsAre
  <2>3. \A x \in DOMAIN Set : Set[x].type = type /\ Set[x].final = c => x = lc
    BY <2>1, CharsetsAre, FinalsDiffer
  <2>4. (CHOOSE x \in DOMAIN Set : Set[x].type = type /\ Set[x].final = c) = lc
    BY <2>2, <2>3
  <2>5. Final(type, c) = lc
    BY <1>1, <2>1, <2>2, <2>4 DEF Final
  <2> QED
    BY <2>1, <2>5
<1>3. Ending(s, lc) = Set[lc].final
      \/ (lc = "ascii" /\ Ending(s, lc) = "J") \/ (lc = "jp" /\ Ending(s, lc) = "@")
  BY DEF Ending
<1>4. Final("94", "J") = "ascii" /\ Final("94N", "@") = "jp"
  BY DEF Final
<1> QED
  BY <1>2, <1>3, <1>4, SetIs

LEMMA InterGraphicIs ==
  ASSUME NEW e \in Seq(Bytes), e # <<"$">>, NEW g \in Slots,
         e[Len(e)] \in {Inter94[g + 1], Inter96[g + 1]}
  PROVE  InterGraphic(e) = g
<1>1. PICK i : i = e[Len(e)]
  OBVIOUS
<1>2. g = 0 \/ g = 1 \/ g = 2 \/ g = 3
  BY Slot
<1>3. ASSUME NEW k \in 0 .. 3, i \in {Inter94[k + 1], Inter96[k + 1]} PROVE k = g
  <2>1. k = 0 \/ k = 1 \/ k = 2 \/ k = 3
    OBVIOUS
  <2>2. CASE g = 0
    BY <1>1, <1>3, <2>1, <2>2, InterIs, Zenon
  <2>3. CASE g = 1
    BY <1>1, <1>3, <2>1, <2>3, InterIs, Zenon
  <2>4. CASE g = 2
    BY <1>1, <1>3, <2>1, <2>4, InterIs, Zenon
  <2>5. CASE g = 3
    BY <1>1, <1>3, <2>1, <2>5, InterIs, Zenon
  <2> QED
    BY <1>2, <2>2, <2>3, <2>4, <2>5
<1>4. g \in 0 .. 3
  BY DEF Slots
<1>5. InterGraphic(e) = CHOOSE k \in 0 .. 3 : i \in {Inter94[k + 1], Inter96[k + 1]}
  BY <1>1 DEF InterGraphic, Last
<1> QED
  BY <1>1, <1>3, <1>4, <1>5

LEMMA Intermediates ==
  ASSUME NEW g \in Slots, NEW i, i \in {Inter94[g + 1], Inter96[g + 1]}
  PROVE  /\ i \in Inter /\ i \in Bytes /\ i # "$" /\ i # "["
         /\ i \in {Inter94[k] : k \in 1 .. 4} <=> i = Inter94[g + 1]
<1>1. g = 0 \/ g = 1 \/ g = 2 \/ g = 3
  BY Slot
<1>2. i \in Inter /\ i # "$" /\ i # "["
  BY <1>1, InterIs, InterAre, Zenon
<1>3. i \in Bytes
  BY InterBytes
<1>4. i \in {Inter94[k] : k \in 1 .. 4} <=> i = Inter94[g + 1]
  BY <1>1, InterIs, InterAre, Zenon
<1> QED
  BY <1>2, <1>3, <1>4

(* What stands between tells the graphic set and the type of the charset.  *)
LEMMA NamedByBetween ==
  ASSUME NEW s, NEW lc \in Charsets, NEW g \in Slots, NEW e, e = Between(s, lc, g),
         NEW c, c = Ending(s, lc)
  PROVE  /\ e \in Seq(Bytes) /\ c \in Bytes /\ c # "]"
         /\ Named(e, c) = lc /\ InterGraphic(e) = g
         /\ Append(e, c) \notin Unfinished
         /\ \/ Len(e) = 1 /\ e[1] \in Inter \union {"$"}
            \/ Len(e) = 2 /\ e[1] = "$" /\ e[2] \in Inter
<1>1. e \in Seq(Bytes) /\ c \in Bytes
  BY DesignationIs
<1>2. c \in {"A", "B", "C", "D", "H", "I", "J", "@"}
  BY SetIs DEF Ending, Charsets
<1>3. Final(Set[lc].type, c) = lc
  BY FinalIs
<1>4. PICK a, b : a = Inter94[g + 1] /\ b = Inter96[g + 1]
  OBVIOUS
<1>5. PICK F : F = {Inter94[k] : k \in 1 .. 4}
  OBVIOUS
<1>6. /\ a \in Inter /\ b \in Inter /\ a \in F /\ b \notin F /\ a # "$" /\ b # "$"
  <2>1. a # b
    <3>1. g = 0 \/ g = 1 \/ g = 2 \/ g = 3
      BY Slot
    <3> QED
      BY <1>4, <3>1, InterIs, Zenon
  <2> QED
    BY <1>4, <1>5, <2>1, Intermediates
<1>7. PICK x \in Seq(Bytes) : /\ x = Append(e, c) /\ Len(x) = Len(e) + 1 /\ x[Len(e) + 1] = c
                              /\ \A i \in 1 .. Len(e) : x[i] = e[i]
  BY <1>1, AppendIs
<1>8. ASSUME Len(e) = 1 \/ Len(e) = 2 PROVE x \notin Unfinished
  <2>1. c \notin Inter \union {"0", "1", "2"}
    BY <1>2, InterAre, Zenon
  <2>2. CASE Len(e) = 1
    <3>1. Len(x) = 2 /\ x[2] = c
      BY <1>7, <2>2
    <3> QED
      BY <2>1, <3>1, UnfinishedAre
  <2>3. CASE Len(e) = 2
    <3>1. Len(x) = 3
      BY <1>7, <2>3
    <3> QED
      BY <3>1, UnfinishedAre, SMTT(40)
  <2> QED
    BY <1>8, <2>2, <2>3
<1>9. CASE Set[lc].type = "94"
  <2>1. e = << a >>
    BY <1>4, <1>9 DEF Between
  <2>2. Len(e) = 1 /\ e[1] = a /\ e # <<>> /\ e # <<"$">>
    BY <1>6, <2>1
  <2>3. Last(e) = a
    BY <2>2 DEF Last
  <2>4. InterType(e) = "94"
    BY <1>5, <1>6, <2>2, <2>3 DEF InterType
  <2>5. Named(e, c) = lc
    BY <1>3, <1>6, <1>9, <2>2, <2>3, <2>4 DEF Named
  <2>6. InterGraphic(e) = g
    BY <1>1, <1>4, <2>2, InterGraphicIs
  <2> QED
    BY <1>1, <1>2, <1>6, <1>7, <1>8, <2>2, <2>5, <2>6
<1>10. CASE Set[lc].type = "96"
  <2>1. e = << b >>
    BY <1>4, <1>10 DEF Between
  <2>2. Len(e) = 1 /\ e[1] = b /\ e # <<>> /\ e # <<"$">>
    BY <1>6, <2>1
  <2>3. Last(e) = b
    BY <2>2 DEF Last
  <2>4. InterType(e) = "96"
    BY <1>5, <1>6, <2>2, <2>3 DEF InterType
  <2>5. Named(e, c) = lc
    BY <1>3, <1>6, <1>10, <2>2, <2>3, <2>4 DEF Named
  <2>6. InterGraphic(e) = g
    BY <1>1, <1>4, <2>2, InterGraphicIs
  <2> QED
    BY <1>1, <1>2, <1>6, <1>7, <1>8, <2>2, <2>5, <2>6
<1>11. CASE Set[lc].type = "94N"
  <2>1. e = (IF g = 0 /\ Flag(s, "short") /\ lc = "jp" THEN <<"$">> ELSE <<"$", a>>)
    BY <1>4, <1>11 DEF Between
  <2>2. CASE g = 0 /\ Flag(s, "short") /\ lc = "jp"
    <3>1. e = <<"$">> /\ Len(e) = 1 /\ e[1] = "$"
      BY <2>1, <2>2
    <3>2. c \in {"@", "B"}
      BY <2>2, SetIs DEF Ending
    <3>3. Named(e, c) = lc
      BY <1>3, <1>11, <3>1, <3>2 DEF Named
    <3>4. InterGraphic(e) = g
      BY <2>2, <3>1 DEF InterGraphic
    <3> QED
      BY <1>1, <1>2, <1>7, <1>8, <3>1, <3>3, <3>4
  <2>3. CASE ~(g = 0 /\ Flag(s, "short") /\ lc = "jp")
    <3>1. e = <<"$", a>>
      BY <2>1, <2>3
    <3>2. Len(e) = 2 /\ e[1] = "$" /\ e[2] = a /\ e # <<>> /\ e # <<"$">>
      BY <3>1
    <3>3. Last(e) = a
      BY <3>2 DEF Last
    <3>4. InterType(e) = "94N"
      BY <1>5, <1>6, <3>2, <3>3 DEF InterType
    <3>5. Named(e, c) = lc
      BY <1>3, <1>6, <1>11, <3>2, <3>3, <3>4 DEF Named
    <3>6. InterGraphic(e) = g
      BY <1>1, <1>4, <3>2, InterGraphicIs
    <3> QED
      BY <1>1, <1>2, <1>6, <1>7, <1>8, <3>2, <3>5, <3>6
  <2> QED
    BY <2>2, <2>3
<1> QED
  BY <1>9, <1>10, <1>11, CharsetFields

LEMMA GetAllParts ==
  ASSUME NEW s, NEW a \in Seq(Bytes), NEW b \in Seq(Bytes)
  PROVE  GetAll(s, a \o b) = GetAll(GetAll(s, a), b)
<1>1. \A X : \A x \in Seq(X), y \in Seq(X) : GetAll(s, x \o y) = GetAll(GetAll(s, x), y)
  BY GetAllJoined
<1> QED
  BY <1>1, Zenon

LEMMA TwoJoined ==
  ASSUME NEW a \in Bytes, NEW b \in Bytes
  PROVE  /\ << a >> \o << b >> = <<a, b>> /\ Append(<< a >>, b) = <<a, b>> /\ Append(<<>>, a) = << a >>
         /\ << a >> \in Seq(Bytes) /\ <<a, b>> \in Seq(Bytes)
<1>1. PICK x, y, z, u : x = << a >> /\ y = << b >> /\ z = <<a, b>> /\ u = <<>>
  OBVIOUS
<1>2. x \in Seq(Bytes) /\ y \in Seq(Bytes) /\ z \in Seq(Bytes) /\ u \in Seq(Bytes)
  BY <1>1
<1>6. Len(x) = 1 /\ x[1] = a /\ Len(y) = 1 /\ y[1] = b
  BY <1>1
<1>7. ASSUME NEW v \in Seq(Bytes), Len(v) = 2 PROVE v = << v[1], v[2] >>
  BY <1>7
<1>3. x \o y = z
  <2>1. x \o y \in Seq(Bytes)
    BY <1>2
  <2>2. PICK v \in Seq(Bytes) : v = x \o y
    BY <2>1
  <2>3. Len(v) = 2 /\ v[1] = a /\ v[2] = b
    <3>1. /\ Len(v) = Len(x) + Len(y)
          /\ \A i \in 1 .. Len(x) + Len(y) : v[i] = IF i <= Len(x) THEN x[i] ELSE y[i - Len(x)]
      BY <1>2, <2>2
    <3>2. Len(v) = 1 + 1 /\ \A i \in 1 .. 1 + 1 : v[i] = IF i <= 1 THEN x[i] ELSE y[i - 1]
      BY <1>6, <3>1
    <3>3. v[1] = x[1] /\ v[2] = y[2 - 1]
      BY <3>2
    <3> QED
      BY <1>6, <3>2, <3>3
  <2> QED
    BY <1>1, <1>7, <2>2, <2>3
<1>4. Append(x, b) = z
  <2>1. PICK v \in Seq(Bytes) : v = Append(x, b) /\ Len(v) = Len(x) + 1 /\ v[Len(x) + 1] = b
                                /\ \A i \in 1 .. Len(x) : v[i] = x[i]
    BY <1>2, AppendIs
  <2>2. Len(v) = 2 /\ v[1] = a /\ v[2] = b
    BY <1>6, <2>1
  <2> QED
    BY <1>1, <1>7, <2>1, <2>2
<1>5. Append(u, a) = x
  BY <1>1, <1>2
<1> QED
  BY <1>1, <1>2, <1>3, <1>4, <1>5

LEMMA GetAllTwo ==
  ASSUME NEW s, NEW a \in Bytes, NEW b \in Bytes
  PROVE  GetAll(s, <<a, b>>) = Get(Get(s, a), b)
<1>1. PICK x \in Seq(Bytes), y \in Seq(Bytes) : x = << a >> /\ y = << b >>
  BY TwoJoined
<1>2. x \o y = <<a, b>>
  BY <1>1, TwoJoined
<1>3. GetAll(s, x \o y) = GetAll(GetAll(s, x), y)
  BY GetAllParts
<1>4. GetAll(s, x) = Get(s, a)
  BY <1>1, GetAllOne
<1>5. GetAll(Get(s, a), y) = Get(Get(s, a), b)
  BY <1>1, GetAllOne
<1> QED
  BY <1>2, <1>3, <1>4, <1>5

LEMMA ReadEscape ==
  ASSUME NEW r0, Calm(r0), System[r0.code].type = "iso"
  PROVE  /\ Get(r0, "ESC") = Escaping(Settled(r0), <<>>)
         /\ Get(r0, "CSI") = Escaping(Settled(r0), <<"[">>)
<1>1. r0.esc = <<>>
  BY DEF Calm
<1>2. ASSUME NEW c \in Controls PROVE Get(r0, c) = GetControl(r0, c)
  BY <1>1, <1>2 DEF Get, GetIso, GetByte
<1>3. "ESC" \in Controls /\ "CSI" \in Controls
  BY DEF Controls
<1>4. PICK z : z = Settled(r0)
  OBVIOUS
<1>5. GetControl(r0, "ESC") = [z EXCEPT !.esc = <<"ESC">>]
  BY <1>4, ControlIs
<1>6. GetControl(r0, "CSI") = [z EXCEPT !.esc = <<"ESC", "[">>]
  BY <1>4, ControlIs, ZenonT(60)
<1>7. <<"ESC">> \o <<>> = <<"ESC">> /\ <<"ESC">> \o <<"[">> = <<"ESC", "[">>
  BY Nothing, TwoJoined, SignsAre, SignSequences, Zenon
<1> QED
  BY <1>2, <1>3, <1>4, <1>5, <1>6, <1>7 DEF Escaping

LEMMA ReadDesignation ==
  ASSUME NEW r0, Calm(r0), System[r0.code].type = "iso",
         NEW s, NEW lc \in Charsets, NEW g \in Slots
  PROVE  GetAll(r0, Designation(s, lc, g)) = [Settled(r0) EXCEPT !.g[g] = lc]
<1>1. PICK z : z = Settled(r0)
  OBVIOUS
<1>2. Calm(z) /\ z.code = r0.code
  BY <1>1, SettledCalm, SettledIs DEF Calm
<1>3. PICK e \in Seq(Bytes), c \in Bytes : e = Between(s, lc, g) /\ c = Ending(s, lc)
  BY DesignationIs
<1>4. /\ c # "]" /\ Named(e, c) = lc /\ InterGraphic(e) = g /\ Append(e, c) \notin Unfinished
      /\ \/ Len(e) = 1 /\ e[1] \in Inter \union {"$"}
         \/ Len(e) = 2 /\ e[1] = "$" /\ e[2] \in Inter
  BY <1>3, NamedByBetween
<1>5. GetAll(r0, <<"ESC">>) = Escaping(z, <<>>)
  BY <1>1, ReadEscape, GetAllOne
<1>6. GetAll(Escaping(z, <<>>), e) = Escaping(z, e)
  <2>1. ASSUME NEW a \in Bytes, a \in Inter \union {"$"} PROVE Get(Escaping(z, <<>>), a) = Escaping(z, << a >>)
    <3>1. PICK n \in Seq(Bytes) : n = <<>>
      <4>1. <<>> \in Seq(Bytes)
        OBVIOUS
      <4> QED
        BY <4>1
    <3>2. Append(n, a) = << a >> /\ << a >> \in Seq(Bytes)
      BY <3>1
    <3>3. << a >> \in Unfinished
      <4>1. Len(<< a >>) = 1 /\ << a >>[1] = a
        OBVIOUS
      <4> QED
        BY <2>1, <3>2, <4>1, UnfinishedAre
    <3>4. Append(n, a) \in Unfinished
      BY <3>2, <3>3
    <3>5. Get(Escaping(z, n), a) = Escaping(z, Append(n, a))
      BY <1>2, <3>4, EscapeGoesOn
    <3> QED
      BY <3>1, <3>2, <3>5
  <2>2. CASE Len(e) = 1
    <3>0. e[1] \in Bytes
      <4>1. 1 \in 1 .. Len(e)
        BY <2>2
      <4> QED
        BY <4>1
    <3>1. PICK a \in Bytes : a = e[1]
      BY <3>0
    <3>2. e = << a >> /\ a \in Inter \union {"$"}
      BY <1>4, <2>2, <3>1
    <3>3. GetAll(Escaping(z, <<>>), << a >>) = Get(Escaping(z, <<>>), a)
      BY GetAllOne
    <3> QED
      BY <2>1, <3>2, <3>3
  <2>3. CASE Len(e) = 2
    <3>0. e[1] \in Bytes /\ e[2] \in Bytes
      <4>1. 1 \in 1 .. Len(e) /\ 2 \in 1 .. Len(e)
        BY <2>3
      <4> QED
        BY <4>1
    <3>1. PICK a \in Bytes, b \in Bytes : a = e[1] /\ b = e[2]
      BY <3>0
    <3>2. e = <<a, b>> /\ a = "$" /\ b \in Inter
      BY <1>4, <2>3, <3>1
    <3>3. GetAll(Escaping(z, <<>>), <<a, b>>) = Get(Get(Escaping(z, <<>>), a), b)
      BY GetAllTwo
    <3>4. Get(Escaping(z, <<>>), a) = Escaping(z, << a >>)
      BY <2>1, <3>2
    <3>5. PICK k \in Seq(Bytes) : k = << a >>
      <4>1. << a >> \in Seq(Bytes)
        OBVIOUS
      <4> QED
        BY <4>1
    <3>6. Append(k, b) = e
      BY <3>2, <3>5, TwoJoined
    <3>7. Append(k, b) \in Unfinished
      BY <2>3, <3>1, <3>2, <3>6, UnfinishedAre
    <3>8. Get(Escaping(z, k), b) = Escaping(z, Append(k, b))
      BY <1>2, <3>7, EscapeGoesOn
    <3> QED
      BY <3>2, <3>3, <3>4, <3>5, <3>6, <3>8
  <2> QED
    BY <1>4, <2>2, <2>3
<1>7. Get(Escaping(z, e), c) = [z EXCEPT !.g[g] = lc]
  <2>1. lc # Inv
    BY CharsetsAre
  <2> QED
    BY <1>2, <1>4, <2>1, EscapeNames
<1>8. <<"ESC">> \in Seq(Bytes) /\ << c >> \in Seq(Bytes) /\ <<"ESC">> \o e \in Seq(Bytes)
  BY SignSequences
<1>9. Designation(s, lc, g) = (<<"ESC">> \o e) \o << c >>
  BY <1>3, DesignationIs
<1>10. GetAll(r0, (<<"ESC">> \o e) \o << c >>) = GetAll(GetAll(r0, <<"ESC">> \o e), << c >>)
  BY <1>8, GetAllParts
<1>11. GetAll(r0, <<"ESC">> \o e) = Escaping(z, e)
  <2>1. GetAll(r0, <<"ESC">> \o e) = GetAll(GetAll(r0, <<"ESC">>), e)
    BY <1>8, GetAllParts
  <2> QED
    BY <1>5, <1>6, <2>1
<1>12. GetAll(Escaping(z, e), << c >>) = Get(Escaping(z, e), c)
  BY GetAllOne
<1> QED
  BY <1>1, <1>7, <1>9, <1>10, <1>11, <1>12

-----------------------------------------------------------------------------
(* A writer and the reader of what it has written.  Between characters     *)
(* they agree on the designations, shifts and directions, and the rest of  *)
(* what a writer keeps allows it to go on.                                 *)

Quiet == Bytes \ Cntl
Seen(s) == GetAll(NewReader(s.code, s.eol), s.out)
Sound(s) ==
  /\ \A g \in 1 .. 3 : System[s.code].g[g] = Inv => s.g[g] = Inv
  /\ s.shifted => s.g[1] # Inv /\ Flag(s, "seven")
  /\ ~Flag(s, "ascii-cntl") => s.g[1] # Inv /\ s.g[0] # Inv /\ Set[s.g[0]].type # "96"
Agreeing(s, z) ==
  /\ Calm(z) /\ z.code = s.code /\ z.eol = s.eol /\ z.g = s.g
  /\ z.shifted = s.shifted /\ z.rtl = s.rtl /\ z.cmp = (s.cmp # "no")
InStep(s) ==
  /\ s \in Writers /\ System[s.code].type = "iso" /\ s.code # "ss3_7" /\ s.ch = <<>>
  /\ Agreeing(s, Seen(s)) /\ Sound(s)

(* v has written what tells a reader t after what s had written.           *)
Says(s, v, t) ==
  /\ InStep(v) /\ v.code = s.code /\ v.eol = s.eol
  /\ \E d \in Seq(Quiet) : v.out = s.out \o d
  /\ ReadText(Seen(v)) = ReadText(Seen(s)) \o t
Silent(s, v) == Says(s, v, <<>>)

LEMMA QuietSigns ==
  /\ "ESC" \in Quiet /\ "CSI" \in Quiet /\ "SI" \in Quiet /\ "SO" \in Quiet /\ "SS2" \in Quiet
  /\ "SS3" \in Quiet /\ "[" \in Quiet /\ "]" \in Quiet /\ "0" \in Quiet /\ "1" \in Quiet
  /\ "2" \in Quiet /\ "N" \in Quiet /\ "SP" \in Quiet /\ "B" \in Quiet /\ "C" \in Quiet
  /\ "B+" \in Quiet /\ "C+" \in Quiet /\ "S" \in Quiet /\ "$" \in Quiet
BY SignsAre, Zenon DEF Quiet, Cntl

LEMMA QuietOnes ==
  ASSUME NEW a \in Quiet, NEW b \in Quiet
  PROVE  << a >> \in Seq(Quiet) /\ << a, b >> \in Seq(Quiet) /\ <<>> \in Seq(Quiet)
OBVIOUS

LEMMA QuietJoined ==
  ASSUME NEW a \in Seq(Quiet), NEW b \in Seq(Quiet)
  PROVE  a \o b \in Seq(Quiet) /\ a \in Seq(Bytes)
<1>1. a \in Seq(Bytes)
  <2>1. \A i \in 1 .. Len(a) : a[i] \in Bytes
    BY DEF Quiet
  <2>2. a \in [1 .. Len(a) -> Bytes] /\ Len(a) \in Nat
    BY <2>1
  <2> QED
    BY <2>2
<1> QED
  BY <1>1

LEMMA QuietDesignation ==
  ASSUME NEW s, NEW lc \in Charsets, NEW g \in Slots
  PROVE  Designation(s, lc, g) \in Seq(Quiet)
<1>1. PICK e \in Seq(Bytes), c \in Bytes : e = Between(s, lc, g) /\ c = Ending(s, lc)
  BY DesignationIs
<1>2. c \in Quiet
  <2>1. c \in {"A", "B", "C", "D", "H", "I", "J", "@"}
    BY <1>1, SetIs DEF Ending, Charsets
  <2> QED
    BY <2>1 DEF Quiet, Cntl
<1>3. \/ Len(e) = 1 /\ e[1] \in Inter \union {"$"}
      \/ Len(e) = 2 /\ e[1] = "$" /\ e[2] \in Inter
  BY <1>1, NamedByBetween
<1>4. \A x \in Inter \union {"$"} : x \notin Cntl
  BY InterAre, Zenon DEF Cntl
<1>5. ASSUME NEW i \in 1 .. Len(e) PROVE e[i] \in Quiet
  <2>1. e[i] \in Bytes
    OBVIOUS
  <2>2. e[i] \in Inter \union {"$"}
    BY <1>3
  <2> QED
    BY <1>4, <2>1, <2>2 DEF Quiet
<1>6. e \in Seq(Quiet)
  <2>1. e \in [1 .. Len(e) -> Quiet] /\ Len(e) \in Nat
    BY <1>5
  <2> QED
    BY <2>1
<1>7. <<"ESC">> \in Seq(Quiet) /\ << c >> \in Seq(Quiet)
  BY <1>2, QuietSigns, QuietOnes
<1>8. (<<"ESC">> \o e) \o << c >> \in Seq(Quiet)
  BY <1>6, <1>7, QuietJoined
<1> QED
  BY <1>1, <1>8, DesignationIs

LEMMA SeenAfter ==
  ASSUME NEW s \in Writers, NEW v \in Writers, NEW b \in Seq(Bytes), v.code = s.code, v.eol = s.eol,
         v.out = s.out \o b
  PROVE  Seen(v) = GetAll(Seen(s), b)
<1>1. PICK o \in Seq(Bytes) : o = s.out
  BY WriterFields
<1>2. PICK z : z = NewReader(s.code, s.eol)
  OBVIOUS
<1>3. GetAll(z, o \o b) = GetAll(GetAll(z, o), b)
  BY GetAllParts
<1> QED
  BY <1>1, <1>2, <1>3 DEF Seen

LEMMA Steps ==
  ASSUME NEW s, InStep(s), NEW v \in Writers, v.code = s.code, v.eol = s.eol, v.ch = <<>>, Sound(v),
         NEW b \in Seq(Quiet), v.out = s.out \o b,
         NEW z, z = GetAll(Seen(s), b), Agreeing(v, z),
         NEW t, ReadText(z) = ReadText(Seen(s)) \o t
  PROVE  Says(s, v, t)
<1>1. s \in Writers /\ System[s.code].type = "iso" /\ s.code # "ss3_7"
  BY DEF InStep
<1>2. b \in Seq(Bytes)
  BY QuietJoined
<1>3. Seen(v) = z
  BY <1>1, <1>2, SeenAfter
<1>4. InStep(v)
  BY <1>1, <1>3 DEF InStep
<1> QED
  BY <1>3, <1>4 DEF Says

LEMMA SeenText ==
  ASSUME NEW s, InStep(s)
  PROVE  /\ ReadText(Seen(s)) \in Seq(Bytes) /\ Seen(s) \in Readers
         /\ ReadText(Seen(s)) \o <<>> = ReadText(Seen(s))
         /\ s \in Writers /\ s.out \in Seq(Bytes) /\ s.out \o <<>> = s.out
<1>1. PICK z \in Readers : z = Seen(s)
  BY DEF InStep, Agreeing, Calm
<1>2. z.out \in Seq(Bytes) /\ When(z.cr, <<"CR">>) \in Seq(Bytes)
  BY ReaderFields, WhenIs, SignSequences
<1>3. ReadText(z) \in Seq(Bytes)
  BY <1>2, Associates DEF ReadText
<1>4. s \in Writers /\ s.out \in Seq(Bytes)
  BY WriterFields DEF InStep
<1> QED
  BY <1>1, <1>3, <1>4, Nothing

LEMMA SaysThen ==
  ASSUME NEW s, NEW v, NEW x, NEW t \in Seq(Bytes), NEW u \in Seq(Bytes), InStep(s),
         Says(s, v, t), Says(v, x, u)
  PROVE  Says(s, x, t \o u)
<1>0. \A a, b, c \in Seq(Bytes) : (a \o b) \o c = a \o (b \o c)
  BY Associates, SMTT(40)
<1>1. PICK o \in Seq(Bytes) : o = s.out
  BY SeenText
<1>2. PICK d \in Seq(Quiet) : v.out = o \o d
  BY <1>1 DEF Says
<1>3. PICK e \in Seq(Quiet) : x.out = v.out \o e
  BY DEF Says
<1>4. d \in Seq(Bytes) /\ e \in Seq(Bytes) /\ d \o e \in Seq(Quiet)
  BY QuietJoined
<1>5. x.out = s.out \o (d \o e)
  <2>1. (o \o d) \o e = o \o (d \o e)
    BY <1>0, <1>4, Zenon
  <2> QED
    BY <1>1, <1>2, <1>3, <2>1, Zenon
<1>6. PICK p \in Seq(Bytes) : p = ReadText(Seen(s))
  BY SeenText
<1>7. ReadText(Seen(x)) = (p \o t) \o u
  BY <1>6 DEF Says
<1>8. ReadText(Seen(x)) = ReadText(Seen(s)) \o (t \o u)
  BY <1>6, <1>7, Associates
<1>9. InStep(x) /\ x.code = s.code /\ x.eol = s.eol
  BY DEF Says
<1> QED
  BY <1>4, <1>5, <1>8, <1>9 DEF Says

LEMMA SilentThen ==
  ASSUME NEW s, NEW v, NEW x, NEW t \in Seq(Bytes), InStep(s)
  PROVE  /\ Silent(s, v) /\ Says(v, x, t) => Says(s, x, t)
         /\ Silent(s, v) /\ Silent(v, x) => Silent(s, x)
         /\ Says(s, v, t) /\ Silent(v, x) => Says(s, x, t)
<1>1. <<>> \in Seq(Bytes) /\ <<>> \o t = t /\ t \o <<>> = t
  BY Nothing
<1>2. PICK n \in Seq(Bytes) : n = <<>> /\ n \o t = t /\ t \o n = t /\ n \o n = n
  BY <1>1, Nothing
<1>3. ASSUME Silent(s, v), Says(v, x, t) PROVE Says(s, x, t)
  <2>1. Says(s, v, n)
    BY <1>2, <1>3 DEF Silent
  <2>2. Says(s, x, n \o t)
    BY <1>3, <2>1, SaysThen
  <2> QED
    BY <1>2, <2>2
<1>4. ASSUME Silent(s, v), Silent(v, x) PROVE Silent(s, x)
  <2>1. Says(s, v, n) /\ Says(v, x, n)
    BY <1>2, <1>4 DEF Silent
  <2>2. Says(s, x, n \o n)
    BY <2>1, SaysThen
  <2> QED
    BY <1>2, <2>2 DEF Silent
<1>5. ASSUME Says(s, v, t), Silent(v, x) PROVE Says(s, x, t)
  <2>1. Says(v, x, n)
    BY <1>2, <1>5 DEF Silent
  <2>2. Says(s, x, t \o n)
    BY <1>5, <2>1, SaysThen
  <2> QED
    BY <1>2, <2>2
<1> QED
  BY <1>3, <1>4, <1>5

(* Where nothing is written. *)
LEMMA SilentSame ==
  ASSUME NEW s, InStep(s), NEW v \in Writers, v.code = s.code, v.eol = s.eol, v.ch = s.ch, v.g = s.g,
         v.shifted = s.shifted, v.rtl = s.rtl, (v.cmp # "no") = (s.cmp # "no"), v.out = s.out
  PROVE  Silent(s, v)
<1>1. s.ch = <<>> /\ Agreeing(s, Seen(s)) /\ Sound(s)
  BY DEF InStep
<1>2. Sound(v)
  BY <1>1 DEF Sound, Flag
<1>3. Agreeing(v, Seen(s))
  BY <1>1 DEF Agreeing
<1>4. PICK n \in Seq(Quiet) : n = <<>>
  BY QuietOnes, QuietSigns
<1>5. v.out = s.out \o n
  BY <1>4, SeenText
<1>6. Seen(s) = GetAll(Seen(s), n)
  BY <1>4, GetAllNone
<1>7. ReadText(Seen(s)) = ReadText(Seen(s)) \o n
  BY <1>4, SeenText
<1>8. Says(s, v, n)
  BY <1>1, <1>2, <1>3, <1>5, <1>6, <1>7, Steps
<1> QED
  BY <1>4, <1>8 DEF Silent

-----------------------------------------------------------------------------
(* What is written for the reader alone.                                   *)

LEMMA WriterEmit ==
  ASSUME NEW s \in Writers, NEW b \in Seq(Bytes), NEW v, v = Emit(s, b)
  PROVE  /\ v \in Writers /\ v.out = s.out \o b /\ v.code = s.code /\ v.eol = s.eol /\ v.g = s.g
         /\ v.announce = s.announce /\ v.in = s.in /\ v.shifted = s.shifted /\ v.rtl = s.rtl
         /\ v.cmp = s.cmp /\ v.ch = s.ch
<1>1. PICK o \in Seq(Bytes) : o = s.out
  BY WriterFields
<1>2. PICK x \in Seq(Bytes) : x = o \o b
  BY Associates
<1>3. v = [s EXCEPT !.out = x]
  BY <1>1, <1>2 DEF Emit
<1> QED
  BY <1>1, <1>2, <1>3 DEF Writers

LEMMA ReaderEmit ==
  ASSUME NEW s \in Readers, NEW b \in Seq(Bytes), NEW v, v = Emit(s, b)
  PROVE  /\ v \in Readers /\ v.out = s.out \o b /\ v.code = s.code /\ v.eol = s.eol /\ v.g = s.g
         /\ v.esc = s.esc /\ v.single = s.single /\ v.shifted = s.shifted /\ v.rtl = s.rtl
         /\ v.cmp = s.cmp /\ v.ch = s.ch /\ v.cr = s.cr
<1>1. PICK o \in Seq(Bytes) : o = s.out
  BY ReaderFields
<1>2. PICK x \in Seq(Bytes) : x = o \o b
  BY Associates
<1>3. v = [s EXCEPT !.out = x]
  BY <1>1, <1>2 DEF Emit
<1> QED
  BY <1>1, <1>2, <1>3 DEF Readers

LEMMA GetsControl ==
  ASSUME NEW r0, Calm(r0), System[r0.code].type = "iso", NEW c \in Controls
  PROVE  Get(r0, c) = GetControl(r0, c)
<1>1. r0.esc = <<>>
  BY DEF Calm
<1> QED
  BY <1>1 DEF Get, GetIso, GetByte

LEMMA GetShifts ==
  ASSUME NEW r0, Calm(r0), System[r0.code].type = "iso", NEW y, y = Settled(r0)
  PROVE  /\ r0.g[1] # Inv => Get(r0, "SI") = [y EXCEPT !.shifted = FALSE]
         /\ r0.g[1] # Inv => Get(r0, "SO") = [y EXCEPT !.shifted = TRUE]
         /\ r0.g[2] # Inv => Get(r0, "SS2") = [y EXCEPT !.single = 2]
         /\ r0.g[3] # Inv => Get(r0, "SS3") = [y EXCEPT !.single = 3]
<1>1. "SI" \in Controls /\ "SO" \in Controls /\ "SS2" \in Controls /\ "SS3" \in Controls
  BY DEF Controls
<1>0. ASSUME NEW c, c \in {"SI", "SO"}, r0.g[1] # Inv
      PROVE  GetControl(r0, c) = [y EXCEPT !.shifted = (c = "SO")]
  <2>1. c # "LF" /\ c # "ESC" /\ c # "CSI"
    BY <1>0
  <2>2. y = IF c = "LF" THEN [r0 EXCEPT !.cr = FALSE] ELSE Settled(r0)
    BY <2>1
  <2> QED
    BY <1>0, <2>1, <2>2, ControlIs
<1>2. r0.g[1] # Inv => GetControl(r0, "SI") = [y EXCEPT !.shifted = FALSE]
  <2>1. ("SI" = "SO") = FALSE
    OBVIOUS
  <2> QED
    BY <1>0, <2>1, Zenon
<1>3. r0.g[1] # Inv => GetControl(r0, "SO") = [y EXCEPT !.shifted = TRUE]
  <2>1. ("SO" = "SO") = TRUE
    OBVIOUS
  <2> QED
    BY <1>0, <2>1, Zenon
<1>4. r0.g[2] # Inv => GetControl(r0, "SS2") = [y EXCEPT !.single = 2]
  BY ControlIs, ZenonT(60)
<1>5. r0.g[3] # Inv => GetControl(r0, "SS3") = [y EXCEPT !.single = 3]
  BY ControlIs, ZenonT(60)
<1> QED
  BY <1>1, <1>2, <1>3, <1>4, <1>5, GetsControl

(* What s is in step with: the reader, and it once the \r is settled.      *)
LEMMA Following ==
  ASSUME NEW s, InStep(s), NEW y, y = Settled(Seen(s))
  PROVE  /\ Calm(Seen(s)) /\ System[Seen(s).code].type = "iso" /\ Seen(s).g = s.g
         /\ Seen(s).code = s.code /\ Seen(s).eol = s.eol
         /\ Calm(y) /\ System[y.code].type = "iso" /\ y.code = s.code /\ y.eol = s.eol /\ y.g = s.g
         /\ y.shifted = s.shifted /\ y.rtl = s.rtl /\ y.cmp = (s.cmp # "no") /\ y.cr = FALSE
         /\ y.out = ReadText(Seen(s)) /\ y.out \in Seq(Bytes) /\ y \in Readers
         /\ y.esc = <<>> /\ y.ch = <<>> /\ y.single = 0
<1>1. PICK z : z = Seen(s)
  OBVIOUS
<1>2. /\ Calm(z) /\ z.code = s.code /\ z.eol = s.eol /\ z.g = s.g
      /\ z.shifted = s.shifted /\ z.rtl = s.rtl /\ z.cmp = (s.cmp # "no")
      /\ System[s.code].type = "iso" /\ y = Settled(z)
  BY <1>1 DEF InStep, Agreeing
<1>3. z \in Readers
  BY <1>2 DEF Calm
<1>4. /\ y \in Readers /\ y.cr = FALSE /\ y.out = ReadText(z) /\ y.code = z.code /\ y.eol = z.eol
      /\ y.g = z.g /\ y.shifted = z.shifted /\ y.rtl = z.rtl /\ y.cmp = z.cmp
  BY <1>2, <1>3, SettledIs
<1>5. Calm(y)
  BY <1>2, SettledCalm
<1>6. y.out \in Seq(Bytes)
  BY <1>4, ReaderFields
<1>7. y.esc = <<>> /\ y.ch = <<>> /\ y.single = 0
  BY <1>5 DEF Calm
<1> QED
  BY <1>1, <1>2, <1>4, <1>5, <1>6, <1>7

LEMMA Transmits ==
  ASSUME NEW s, InStep(s), NEW v \in Writers, v.code = s.code, v.eol = s.eol, v.ch = <<>>, Sound(v),
         NEW b \in Seq(Quiet), v.out = s.out \o b,
         NEW y, y = Settled(Seen(s)),
         NEW z, z = GetAll(Seen(s), b), z \in Readers, z.esc = <<>>, z.single = 0, z.ch = <<>>,
         z.cr = FALSE, z.code = y.code, z.eol = y.eol, z.out = y.out,
         z.g = v.g, z.shifted = v.shifted, z.rtl = v.rtl, z.cmp = (v.cmp # "no")
  PROVE  Silent(s, v)
<1>1. y.code = s.code /\ y.eol = s.eol /\ y.out = ReadText(Seen(s)) /\ y.out \in Seq(Bytes)
  BY Following
<1>2. Agreeing(v, z)
  BY <1>1 DEF Agreeing, Calm
<1>3. PICK n \in Seq(Bytes) : n = <<>>
  <2>1. <<>> \in Seq(Bytes)
    OBVIOUS
  <2> QED
    BY <2>1
<1>4. z.out \o <<>> = z.out
  BY <1>1, Nothing
<1>5. ReadText(z) = z.out
  BY <1>4 DEF ReadText, When
<1>6. ReadText(z) = ReadText(Seen(s)) \o n
  BY <1>1, <1>3, <1>4, <1>5
<1>7. Says(s, v, n)
  BY <1>2, <1>6, Steps
<1> QED
  BY <1>3, <1>7 DEF Silent

LEMMA ShiftInSilent ==
  ASSUME NEW s, InStep(s), NEW v, v = ShiftIn(s)
  PROVE  /\ Silent(s, v) /\ v.shifted = FALSE
         /\ v.g = s.g /\ v.announce = s.announce /\ v.in = s.in /\ v.rtl = s.rtl /\ v.cmp = s.cmp
<1>1. s \in Writers /\ s.ch = <<>> /\ Sound(s)
  BY DEF InStep
<1>2. PICK b : b = When(s.shifted, <<"SI">>)
  OBVIOUS
<1>3. s.shifted \in BOOLEAN /\ (b = IF s.shifted THEN <<"SI">> ELSE <<>>)
  BY <1>1, <1>2, WriterFields DEF When
<1>4. b \in Seq(Quiet)
  BY <1>3, QuietSigns, QuietOnes
<1>5. b \in Seq(Bytes)
  BY <1>4, QuietJoined
<1>6. PICK x : x = Emit(s, b)
  OBVIOUS
<1>7. /\ x \in Writers /\ x.out = s.out \o b /\ x.code = s.code /\ x.eol = s.eol /\ x.g = s.g
      /\ x.announce = s.announce /\ x.in = s.in /\ x.rtl = s.rtl /\ x.cmp = s.cmp /\ x.ch = s.ch
  BY <1>1, <1>5, <1>6, WriterEmit
<1>8. v = [x EXCEPT !.shifted = FALSE]
  BY <1>2, <1>6 DEF ShiftIn
<1>9. /\ v \in Writers /\ v.out = s.out \o b /\ v.code = s.code /\ v.eol = s.eol /\ v.g = s.g
      /\ v.announce = s.announce /\ v.in = s.in /\ v.rtl = s.rtl /\ v.cmp = s.cmp /\ v.ch = s.ch
      /\ v.shifted = FALSE
  BY <1>7, <1>8 DEF Writers
<1>10. Sound(v)
  BY <1>1, <1>9 DEF Sound, Flag
<1>11. PICK y : y = Settled(Seen(s))
  OBVIOUS
<1>12. CASE s.shifted
  <2>1. b = <<"SI">>
    BY <1>3, <1>12
  <2>2. y.g[1] # Inv /\ Seen(s).g[1] # Inv
    BY <1>1, <1>11, <1>12, Following, ZenonT(60) DEF Sound
  <2>3. Get(Seen(s), "SI") = [y EXCEPT !.shifted = FALSE]
    <3>1. Calm(Seen(s)) /\ System[Seen(s).code].type = "iso"
      BY Following
    <3> QED
      BY <1>11, <2>2, <3>1, GetShifts, Zenon
  <2>5. GetAll(Seen(s), b) = [y EXCEPT !.shifted = FALSE]
    BY <2>1, <2>3, GetAllOne
  <2>6. PICK z : z = [y EXCEPT !.shifted = FALSE]
    OBVIOUS
  <2>7. /\ y \in Readers /\ y.esc = <<>> /\ y.single = 0 /\ y.ch = <<>> /\ y.cr = FALSE /\ y.g = s.g
        /\ y.rtl = s.rtl /\ y.cmp = (s.cmp # "no")
    BY <1>11, Following
  <2>8. /\ z \in Readers /\ z.esc = <<>> /\ z.single = 0 /\ z.ch = <<>> /\ z.cr = FALSE /\ z.code = y.code
        /\ z.eol = y.eol /\ z.out = y.out /\ z.g = v.g /\ z.shifted = v.shifted /\ z.rtl = v.rtl
        /\ z.cmp = (v.cmp # "no")
    BY <1>9, <2>6, <2>7 DEF Readers
  <2>9. v.ch = <<>> /\ z = GetAll(Seen(s), b)
    BY <1>1, <1>9, <2>5, <2>6
  <2>10. Silent(s, v)
    BY <1>4, <1>9, <1>10, <1>11, <2>8, <2>9, Transmits, ZenonT(60)
  <2> QED
    BY <1>9, <2>10
<1>13. CASE ~s.shifted
  <2>1. b = <<>> /\ s.shifted = FALSE
    BY <1>3, <1>13
  <2>2. v.out = s.out
    BY <1>9, <2>1, SeenText
  <2>3. Silent(s, v)
    BY <1>9, <2>1, <2>2, SilentSame
  <2> QED
    BY <1>9, <2>3
<1> QED
  BY <1>3, <1>12, <1>13

(* A writer about to designate g forgets what is there if that was only    *)
(* announced.                                                              *)
Ahead(s, a, g) ==
  /\ a \in Writers /\ a.code = s.code /\ a.eol = s.eol /\ a.in = s.in /\ a.shifted = s.shifted
  /\ a.rtl = s.rtl /\ a.cmp = s.cmp /\ a.ch = s.ch /\ a.out = s.out
  /\ \A h \in Slots \ {g} : a.g[h] = s.g[h]
  /\ a.g[g] \in {s.g[g], Inv}

LEMMA DesignateIs ==
  ASSUME NEW s \in Writers, NEW lc \in Charsets, NEW g \in Slots
  PROVE  \E v \in Writers :
           /\ v = Designate(s, lc, g) /\ v.g = [s.g EXCEPT ![g] = lc]
           /\ v.out = s.out \o When(s.g[g] # lc, Designation(s, lc, g))
           /\ v.code = s.code /\ v.eol = s.eol /\ v.announce = s.announce /\ v.in = s.in
           /\ v.shifted = s.shifted /\ v.rtl = s.rtl /\ v.cmp = s.cmp /\ v.ch = s.ch
<1>1. PICK b \in Seq(Bytes) : b = When(s.g[g] # lc, Designation(s, lc, g))
  BY DesignationIs, WhenIs
<1>2. PICK x : x = Emit(s, b)
  OBVIOUS
<1>3. /\ x \in Writers /\ x.out = s.out \o b /\ x.code = s.code /\ x.eol = s.eol /\ x.g = s.g
      /\ x.announce = s.announce /\ x.in = s.in /\ x.shifted = s.shifted /\ x.rtl = s.rtl
      /\ x.cmp = s.cmp /\ x.ch = s.ch
  BY <1>2, WriterEmit
<1>4. PICK h : h = [s.g EXCEPT ![g] = lc]
  OBVIOUS
<1>5. h \in Graphics
  BY <1>4, WriterFields DEF Graphics
<1>6. PICK v : v = [x EXCEPT !.g = h]
  OBVIOUS
<1>7. v = Designate(s, lc, g)
  BY <1>1, <1>2, <1>3, <1>4, <1>6 DEF Designate
<1>8. /\ v \in Writers /\ v.g = h /\ v.out = x.out /\ v.code = x.code /\ v.eol = x.eol
      /\ v.announce = x.announce /\ v.in = x.in /\ v.shifted = x.shifted /\ v.rtl = x.rtl
      /\ v.cmp = x.cmp /\ v.ch = x.ch
  BY <1>3, <1>5, <1>6 DEF Writers
<1> QED
  BY <1>1, <1>3, <1>4, <1>7, <1>8

LEMMA ReaderSent ==
  ASSUME NEW y \in Readers, NEW lc \in Charsets, NEW g \in Slots
  PROVE  \E z \in Readers :
           /\ z = [y EXCEPT !.g[g] = lc]
           /\ z.g = [y.g EXCEPT ![g] = lc] /\ z.code = y.code /\ z.eol = y.eol
           /\ z.esc = y.esc /\ z.single = y.single /\ z.shifted = y.shifted /\ z.rtl = y.rtl
           /\ z.cmp = y.cmp /\ z.cr = y.cr /\ z.ch = y.ch /\ z.out = y.out
<1>1. PICK h : h = [y.g EXCEPT ![g] = lc]
  OBVIOUS
<1>2. h \in Graphics
  BY <1>1, ReaderFields DEF Graphics
<1>3. PICK z : z = [y EXCEPT !.g = h]
  OBVIOUS
<1>4. z = [y EXCEPT !.g[g] = lc]
  BY <1>1, <1>3
<1>5. /\ z \in Readers /\ z.g = h /\ z.code = y.code /\ z.eol = y.eol
      /\ z.esc = y.esc /\ z.single = y.single /\ z.shifted = y.shifted /\ z.rtl = y.rtl
      /\ z.cmp = y.cmp /\ z.cr = y.cr /\ z.ch = y.ch /\ z.out = y.out
  BY <1>2, <1>3 DEF Readers
<1> QED
  BY <1>1, <1>4, <1>5

LEMMA SoundSent ==
  ASSUME NEW s \in Writers, Sound(s), NEW lc \in Charsets, NEW g \in Slots, NEW v \in Writers,
         v.code = s.code, v.g = [s.g EXCEPT ![g] = lc], v.shifted = s.shifted,
         g # 0 => System[s.code].g[g] # Inv,
         g = 0 /\ ~Flag(s, "ascii-cntl") => Set[lc].type # "96"
  PROVE  Sound(v)
<1>1. s.g \in Graphics /\ lc # Inv
  BY WriterFields, CharsetsAre
<1>2. v.g[g] = lc /\ \A h \in Slots : h # g => v.g[h] = s.g[h]
  BY <1>1 DEF Graphics
<1>3. \A f : Flag(v, f) = Flag(s, f)
  BY DEF Flag
<1>4. 0 \in Slots /\ 1 \in Slots
  BY DEF Slots
<1>5. ASSUME NEW h \in 1 .. 3, System[v.code].g[h] = Inv PROVE v.g[h] = Inv
  <2>1. h \in Slots /\ h # 0
    BY DEF Slots
  <2>2. s.g[h] = Inv
    BY <1>5 DEF Sound
  <2>3. h # g
    BY <1>5, <2>1
  <2> QED
    BY <1>2, <2>1, <2>2, <2>3
<1>6. v.shifted => v.g[1] # Inv /\ Flag(v, "seven")
  <2>1. s.shifted => s.g[1] # Inv /\ Flag(s, "seven")
    BY DEF Sound
  <2> QED
    BY <1>1, <1>2, <1>3, <1>4, <2>1
<1>7. ASSUME ~Flag(v, "ascii-cntl")
      PROVE  v.g[1] # Inv /\ v.g[0] # Inv /\ Set[v.g[0]].type # "96"
  <2>1. ~Flag(s, "ascii-cntl")
    BY <1>3, <1>7
  <2>2. s.g[1] # Inv /\ s.g[0] # Inv /\ Set[s.g[0]].type # "96"
    BY <2>1 DEF Sound
  <2>3. v.g[1] # Inv
    BY <1>1, <1>2, <1>4, <2>2
  <2>4. CASE g = 0
    BY <1>1, <1>2, <2>1, <2>3, <2>4
  <2>5. CASE g # 0
    BY <1>2, <1>4, <2>2, <2>3, <2>5
  <2> QED
    BY <2>4, <2>5
<1> QED
  BY <1>5, <1>6, <1>7 DEF Sound

LEMMA DesignateSilent ==
  ASSUME NEW s, InStep(s), NEW lc \in Charsets, NEW g \in Slots, NEW a, Ahead(s, a, g),
         g # 0 => System[s.code].g[g] # Inv,
         g = 0 /\ ~Flag(s, "ascii-cntl") => Set[lc].type # "96"
  PROVE  \E v : /\ v = Designate(a, lc, g)
                /\ Silent(s, v) /\ v.g = [s.g EXCEPT ![g] = lc] /\ v.g[g] = lc
                /\ v.announce = a.announce /\ v.in = s.in /\ v.shifted = s.shifted
                /\ v.rtl = s.rtl /\ v.cmp = s.cmp
<1>1. s \in Writers /\ s.ch = <<>> /\ Sound(s)
  BY DEF InStep
<1>2. a \in Writers /\ s.g \in Graphics /\ a.g \in Graphics
  BY <1>1, WriterFields DEF Ahead
<1>3. PICK b : b = When(a.g[g] # lc, Designation(a, lc, g))
  OBVIOUS
<1>4. PICK v \in Writers :
        /\ v = Designate(a, lc, g) /\ v.g = [a.g EXCEPT ![g] = lc]
        /\ v.out = a.out \o When(a.g[g] # lc, Designation(a, lc, g))
        /\ v.code = a.code /\ v.eol = a.eol /\ v.announce = a.announce /\ v.in = a.in
        /\ v.shifted = a.shifted /\ v.rtl = a.rtl /\ v.cmp = a.cmp /\ v.ch = a.ch
  BY <1>2, DesignateIs, ZenonT(60)
<1>5. PICK h : h = [s.g EXCEPT ![g] = lc]
  OBVIOUS
<1>6. h = [a.g EXCEPT ![g] = lc] /\ h[g] = lc
  BY <1>2, <1>5 DEF Graphics, Ahead
<1>7. /\ v.g = h /\ v.out = s.out \o b /\ v.code = s.code /\ v.eol = s.eol /\ v.in = s.in
      /\ v.shifted = s.shifted /\ v.rtl = s.rtl /\ v.cmp = s.cmp /\ v.ch = <<>> /\ v \in Writers
      /\ v.announce = a.announce /\ v = Designate(a, lc, g)
  BY <1>1, <1>3, <1>4, <1>6 DEF Ahead
<1>8. Sound(v)
  BY <1>1, <1>5, <1>7, SoundSent, Zenon
<1>9. PICK y : y = Settled(Seen(s))
  OBVIOUS
<1>10. CASE a.g[g] # lc
  <2>1. b = Designation(a, lc, g)
    BY <1>3, <1>10 DEF When
  <2>2. b \in Seq(Quiet)
    BY <2>1, QuietDesignation
  <2>3. /\ y \in Readers /\ y.esc = <<>> /\ y.single = 0 /\ y.ch = <<>> /\ y.cr = FALSE /\ y.g = s.g
        /\ y.rtl = s.rtl /\ y.cmp = (s.cmp # "no") /\ y.shifted = s.shifted
    BY <1>9, Following
  <2>4. PICK z \in Readers :
           /\ z = [y EXCEPT !.g[g] = lc]
           /\ z.g = [y.g EXCEPT ![g] = lc] /\ z.code = y.code /\ z.eol = y.eol
           /\ z.esc = y.esc /\ z.single = y.single /\ z.shifted = y.shifted /\ z.rtl = y.rtl
           /\ z.cmp = y.cmp /\ z.cr = y.cr /\ z.ch = y.ch /\ z.out = y.out
    BY <2>3, ReaderSent
  <2>5. GetAll(Seen(s), b) = z
    <3>1. Calm(Seen(s)) /\ System[Seen(s).code].type = "iso"
      BY Following
    <3>2. GetAll(Seen(s), Designation(a, lc, g)) = [Settled(Seen(s)) EXCEPT !.g[g] = lc]
      BY <3>1, ReadDesignation
    <3> QED
      BY <1>9, <2>1, <2>4, <3>2
  <2>7. /\ z \in Readers /\ z.esc = <<>> /\ z.single = 0 /\ z.ch = <<>> /\ z.cr = FALSE
        /\ z.code = y.code /\ z.eol = y.eol /\ z.out = y.out /\ z.g = v.g /\ z.shifted = v.shifted
        /\ z.rtl = v.rtl /\ z.cmp = (v.cmp # "no") /\ z = GetAll(Seen(s), b)
    BY <1>5, <1>7, <2>3, <2>4, <2>5
  <2>8. Silent(s, v)
    BY <1>7, <1>8, <1>9, <2>2, <2>7, Transmits, ZenonT(60)
  <2> QED
    BY <1>5, <1>6, <1>7, <2>8
<1>11. CASE a.g[g] = lc
  <2>1. b = <<>>
    BY <1>3, <1>11 DEF When
  <2>2. s.g[g] = lc
    BY <1>11, CharsetsAre DEF Ahead
  <2>3. h = s.g
    BY <1>2, <1>5, <2>2 DEF Graphics
  <2>4. v.out = s.out
    BY <1>7, <2>1, SeenText
  <2>5. Silent(s, v)
    BY <1>1, <1>5, <1>7, <2>3, <2>4, SilentSame
  <2> QED
    BY <1>5, <1>6, <1>7, <2>5
<1> QED
  BY <1>10, <1>11

LEMMA AheadSelf ==
  ASSUME NEW s \in Writers, NEW g \in Slots
  PROVE  Ahead(s, s, g)
BY DEF Ahead

LEMMA AheadAnnounced ==
  ASSUME NEW s \in Writers, NEW g \in Slots
  PROVE  Ahead(s, Announced(s, g), g)
<1>1. s.g \in Graphics /\ s.announce \in SUBSET Slots
  BY WriterFields
<1>2. PICK h : h = [s.g EXCEPT ![g] = IF g \in s.announce THEN Inv ELSE @]
  OBVIOUS
<1>3. /\ h \in Graphics /\ (\A k \in Slots \ {g} : h[k] = s.g[k]) /\ h[g] \in {s.g[g], Inv}
  BY <1>1, <1>2 DEF Graphics
<1>4. PICK n \in SUBSET Slots : n = s.announce \ {g}
  BY <1>1
<1>5. PICK a : a = Announced(s, g)
  OBVIOUS
<1>6. a = [[s EXCEPT !.g = h] EXCEPT !.announce = n]
  BY <1>2, <1>4, <1>5 DEF Announced, Writers
<1>7. a \in Writers /\ a.g = h /\ a.code = s.code /\ a.eol = s.eol /\ a.in = s.in
  BY <1>3, <1>6 DEF Writers
<1>8. a.shifted = s.shifted /\ a.rtl = s.rtl /\ a.cmp = s.cmp /\ a.ch = s.ch /\ a.out = s.out
  BY <1>6 DEF Writers
<1> QED
  BY <1>3, <1>5, <1>7, <1>8 DEF Ahead

LEMMA AheadShiftIn ==
  ASSUME NEW s, InStep(s), NEW g \in Slots, NEW a, Ahead(s, a, g)
  PROVE  Ahead(ShiftIn(s), ShiftIn(a), g)
<1>1. PICK b \in Seq(Bytes) : b = When(s.shifted, <<"SI">>)
  BY WhenIs, SignSequences
<1>2. PICK x, z : x = Emit(s, b) /\ z = Emit(a, b)
  OBVIOUS
<1>3. s \in Writers /\ a \in Writers /\ a.shifted = s.shifted
  BY DEF Ahead, InStep
<1>4. /\ x \in Writers /\ x.out = s.out \o b /\ x.code = s.code /\ x.eol = s.eol /\ x.g = s.g
      /\ x.in = s.in /\ x.rtl = s.rtl /\ x.cmp = s.cmp /\ x.ch = s.ch
  BY <1>2, <1>3, WriterEmit
<1>5. /\ z \in Writers /\ z.out = a.out \o b /\ z.code = a.code /\ z.eol = a.eol /\ z.g = a.g
      /\ z.in = a.in /\ z.rtl = a.rtl /\ z.cmp = a.cmp /\ z.ch = a.ch
  BY <1>2, <1>3, WriterEmit
<1>6. PICK x2, z2 : x2 = ShiftIn(s) /\ z2 = ShiftIn(a)
  OBVIOUS
<1>7. x2 = [x EXCEPT !.shifted = FALSE] /\ z2 = [z EXCEPT !.shifted = FALSE]
  BY <1>1, <1>2, <1>3, <1>6 DEF ShiftIn
<1>8. /\ x2.out = x.out /\ x2.code = x.code /\ x2.eol = x.eol /\ x2.g = x.g
      /\ x2.in = x.in /\ x2.rtl = x.rtl /\ x2.cmp = x.cmp /\ x2.ch = x.ch /\ x2.shifted = FALSE
  BY <1>4, <1>7 DEF Writers
<1>9. /\ z2.out = z.out /\ z2.code = z.code /\ z2.eol = z.eol /\ z2.g = z.g
      /\ z2.in = z.in /\ z2.rtl = z.rtl /\ z2.cmp = z.cmp /\ z2.ch = z.ch /\ z2.shifted = FALSE
      /\ z2 \in Writers
  BY <1>5, <1>7 DEF Writers
<1> QED
  BY <1>4, <1>5, <1>6, <1>8, <1>9, ZenonT(60) DEF Ahead

(* The direction of the text.                                              *)
LEMMA ReadCsi ==
  ASSUME NEW r0, Calm(r0), System[r0.code].type = "iso", NEW s
  PROVE  GetAll(r0, Csi(s)) = Escaping(Settled(r0), <<"[">>)
<1>1. PICK y : y = Settled(r0)
  OBVIOUS
<1>2. Calm(y) /\ y.code = r0.code
  BY <1>1, SettledCalm, SettledIs DEF Calm
<1>3. Get(r0, "ESC") = Escaping(y, <<>>) /\ Get(r0, "CSI") = Escaping(y, <<"[">>)
  BY <1>1, ReadEscape
<1>4. PICK n \in Seq(Bytes), c \in Bytes : n = <<>> /\ c = "["
  <2>1. <<>> \in Seq(Bytes)
    OBVIOUS
  <2> QED
    BY <2>1, SignsAre, Zenon
<1>5. Append(n, c) = << c >> /\ << c >> \in Seq(Bytes)
  BY <1>4, TwoJoined
<1>6. PICK x \in Seq(Bytes) : x = << c >>
  BY <1>5
<1>7. Len(x) = 1 /\ x[1] = c
  BY <1>6
<1>8. x \in Unfinished
  BY <1>4, <1>7, UnfinishedAre
<1>9. Append(n, c) \in Unfinished
  BY <1>5, <1>6, <1>8
<1>10. Get(Escaping(y, n), c) = Escaping(y, Append(n, c))
  BY <1>2, <1>9, EscapeGoesOn
<1>11. PICK a \in Bytes : a = "ESC"
  BY SignsAre, Zenon
<1>12. GetAll(r0, <<a, c>>) = Get(Get(r0, a), c)
  BY GetAllTwo
<1>13. GetAll(r0, <<"ESC", "[">>) = Escaping(y, <<"[">>)
  BY <1>3, <1>4, <1>5, <1>10, <1>11, <1>12
<1>14. GetAll(r0, <<"CSI">>) = Escaping(y, <<"[">>)
  BY <1>3, GetAllOne
<1> QED
  BY <1>1, <1>13, <1>14 DEF Csi

LEMMA ReadTurn ==
  ASSUME NEW y, Calm(y), System[y.code].type = "iso"
  PROVE  /\ GetAll(Escaping(y, <<"[">>), <<"]">>) = [y EXCEPT !.rtl = FALSE]
         /\ GetAll(Escaping(y, <<"[">>), <<"0", "]">>) = [y EXCEPT !.rtl = FALSE]
         /\ GetAll(Escaping(y, <<"[">>), <<"2", "]">>) = [y EXCEPT !.rtl = TRUE]
<1>1. PICK a \in Bytes : a = "["
  BY SignsAre, Zenon
<1>2. PICK e \in Seq(Bytes) : e = << a >>
  BY TwoJoined
<1>3. e # <<>> /\ e[1] = "[" /\ Len(e) = 1 /\ e[Len(e)] = "["
  BY <1>1, <1>2
<1>4. "[" \notin Inter /\ "0" \notin Inter /\ "2" \notin Inter
  BY InterAre, Zenon
<1>5. Get(Escaping(y, e), "]") = [y EXCEPT !.rtl = (e = <<"[", "2">>)]
  <2>1. e # <<>> /\ e[1] = "[" /\ e[Len(e)] \notin Inter
    BY <1>3, <1>4
  <2> QED
    BY <2>1, EscapeTurns, Zenon
<1>6. (e = <<"[", "2">>) = FALSE
  <2>1. Len(<<"[", "2">>) = 2
    OBVIOUS
  <2> QED
    BY <1>3, <2>1
<1>7. GetAll(Escaping(y, e), <<"]">>) = [y EXCEPT !.rtl = FALSE]
  BY <1>5, <1>6, GetAllOne, Zenon
<1>8. ASSUME NEW c \in Bytes, c \in {"0", "2"}
      PROVE  GetAll(Escaping(y, e), <<c, "]">>) = [y EXCEPT !.rtl = (c = "2")]
  <2>1. PICK x \in Seq(Bytes) : x = <<a, c>>
    BY TwoJoined
  <2>2. Len(x) = 2 /\ x[1] = a /\ x[2] = c
    BY <2>1
  <2>3. Append(e, c) = x
    BY <1>2, <2>1, TwoJoined
  <2>4. x \in Unfinished
    BY <1>1, <1>8, <2>2, UnfinishedAre
  <2>5. Get(Escaping(y, e), c) = Escaping(y, x)
    BY <2>3, <2>4, EscapeGoesOn
  <2>6. x # <<>> /\ x[1] = "[" /\ x[Len(x)] \notin Inter
    <3>1. x # <<>>
      BY <2>1
    <3>2. x[Len(x)] = c /\ c \notin Inter
      BY <1>4, <1>8, <2>2
    <3> QED
      BY <1>1, <2>2, <3>1, <3>2
  <2>7. Get(Escaping(y, x), "]") = [y EXCEPT !.rtl = (x = <<"[", "2">>)]
    BY <2>6, EscapeTurns
  <2>8. (x = <<"[", "2">>) = (c = "2")
    BY <1>1, <2>1
  <2>9. PICK d \in Bytes : d = "]"
    BY SignsAre, Zenon
  <2>10. GetAll(Escaping(y, e), <<c, d>>) = Get(Get(Escaping(y, e), c), d)
    BY GetAllTwo
  <2> QED
    BY <2>5, <2>7, <2>8, <2>9, <2>10, Zenon
<1>9. "0" \in Bytes /\ "2" \in Bytes
  BY SignsAre, Zenon
<1>10. ("0" = "2") = FALSE /\ ("2" = "2") = TRUE
  OBVIOUS
<1>11. GetAll(Escaping(y, e), <<"0", "]">>) = [y EXCEPT !.rtl = FALSE]
  BY <1>8, <1>9, <1>10, Zenon
<1>12. GetAll(Escaping(y, e), <<"2", "]">>) = [y EXCEPT !.rtl = TRUE]
  BY <1>8, <1>9, <1>10, Zenon
<1> QED
  BY <1>1, <1>2, <1>7, <1>11, <1>12

(* A turn to the other direction: d is what stands after the introducer.   *)
Turns(d, rtl) ==
  \A y : Calm(y) /\ System[y.code].type = "iso" =>
           GetAll(Escaping(y, <<"[">>), d) = [y EXCEPT !.rtl = rtl]

LEMMA TurnSilent ==
  ASSUME NEW s, InStep(s), NEW rtl \in BOOLEAN, NEW d \in Seq(Quiet), Turns(d, rtl)
  PROVE  \E v : /\ v = [Emit(s, Csi(s) \o d) EXCEPT !.rtl = rtl] /\ Silent(s, v)
                /\ v.rtl = rtl /\ v.g = s.g /\ v.announce = s.announce /\ v.in = s.in
                /\ v.shifted = s.shifted /\ v.cmp = s.cmp
<1>1. s \in Writers /\ s.ch = <<>> /\ Sound(s)
  BY DEF InStep
<1>2. Csi(s) \in Seq(Quiet)
  <2>1. <<"ESC", "[">> \in Seq(Quiet) /\ <<"CSI">> \in Seq(Quiet)
    BY QuietSigns, QuietOnes
  <2> QED
    BY <2>1 DEF Csi
<1>3. PICK c \in Seq(Quiet) : c = Csi(s)
  BY <1>2
<1>4. c \in Seq(Bytes) /\ d \in Seq(Bytes) /\ c \o d \in Seq(Quiet)
  BY QuietJoined
<1>5. PICK b \in Seq(Quiet) : b = c \o d
  BY <1>4
<1>6. b \in Seq(Bytes)
  BY QuietJoined
<1>7. PICK x : x = Emit(s, b)
  OBVIOUS
<1>8. /\ x \in Writers /\ x.out = s.out \o b /\ x.code = s.code /\ x.eol = s.eol /\ x.g = s.g
      /\ x.announce = s.announce /\ x.in = s.in /\ x.shifted = s.shifted /\ x.cmp = s.cmp /\ x.ch = s.ch
  BY <1>1, <1>6, <1>7, WriterEmit
<1>9. PICK v : v = [x EXCEPT !.rtl = rtl]
  OBVIOUS
<1>10. /\ v \in Writers /\ v.out = s.out \o b /\ v.code = s.code /\ v.eol = s.eol /\ v.g = s.g
       /\ v.announce = s.announce /\ v.in = s.in /\ v.shifted = s.shifted /\ v.cmp = s.cmp
       /\ v.ch = <<>> /\ v.rtl = rtl
  BY <1>1, <1>8, <1>9 DEF Writers
<1>11. Sound(v)
  BY <1>1, <1>10 DEF Sound, Flag
<1>12. PICK y : y = Settled(Seen(s))
  OBVIOUS
<1>13. GetAll(Seen(s), b) = [y EXCEPT !.rtl = rtl]
  <2>1. GetAll(Seen(s), c \o d) = GetAll(GetAll(Seen(s), c), d)
    BY <1>4, GetAllParts
  <2>2. Calm(Seen(s)) /\ System[Seen(s).code].type = "iso"
    BY Following
  <2>3. GetAll(Seen(s), c) = Escaping(y, <<"[">>)
    BY <1>3, <1>12, <2>2, ReadCsi
  <2>4. Calm(y) /\ System[y.code].type = "iso"
    BY <1>12, Following
  <2> QED
    BY <1>5, <2>1, <2>3, <2>4 DEF Turns
<1>14. PICK z : z = [y EXCEPT !.rtl = rtl]
  OBVIOUS
<1>15. /\ y \in Readers /\ y.esc = <<>> /\ y.single = 0 /\ y.ch = <<>> /\ y.cr = FALSE /\ y.g = s.g
       /\ y.shifted = s.shifted /\ y.cmp = (s.cmp # "no")
  BY <1>12, Following
<1>16. /\ z \in Readers /\ z.esc = <<>> /\ z.single = 0 /\ z.ch = <<>> /\ z.cr = FALSE /\ z.code = y.code
       /\ z.eol = y.eol /\ z.out = y.out /\ z.g = v.g /\ z.shifted = v.shifted /\ z.rtl = v.rtl
       /\ z.cmp = (v.cmp # "no")
  BY <1>10, <1>14, <1>15 DEF Readers
<1>17. z = GetAll(Seen(s), b)
  BY <1>13, <1>14
<1>18. Silent(s, v)
  BY <1>10, <1>11, <1>12, <1>16, <1>17, Transmits, Zenon
<1>19. v = [Emit(s, Csi(s) \o d) EXCEPT !.rtl = rtl]
  BY <1>3, <1>5, <1>7, <1>9
<1> QED
  BY <1>10, <1>18, <1>19

LEMMA LeftToRightSilent ==
  ASSUME NEW s, InStep(s)
  PROVE  \E v : /\ v = LeftToRight(s) /\ Silent(s, v) /\ v.rtl = FALSE
                /\ v.g = s.g /\ v.announce = s.announce /\ v.in = s.in
                /\ v.shifted = s.shifted /\ v.cmp = s.cmp
<1>1. s \in Writers /\ s.out \o <<>> = s.out /\ s.rtl \in BOOLEAN
  <2>1. s \in Writers
    BY DEF InStep
  <2> QED
    BY <2>1, SeenText, WriterFields
<1>2. PICK d : d = IF Flag(s, "seven") THEN <<"0", "]">> ELSE <<"]">>
  OBVIOUS
<1>3. d \in Seq(Quiet)
  <2>1. <<"0", "]">> \in Seq(Quiet) /\ <<"]">> \in Seq(Quiet)
    BY QuietSigns, QuietOnes
  <2> QED
    BY <1>2, <2>1
<1>4. Turns(d, FALSE)
  BY <1>2, ReadTurn DEF Turns
<1>5. LeftToRight(s) = [Emit(s, When(s.rtl, Csi(s) \o d)) EXCEPT !.rtl = FALSE]
  BY <1>2 DEF LeftToRight
<1>6. CASE s.rtl = TRUE
  <2>1. LeftToRight(s) = [Emit(s, Csi(s) \o d) EXCEPT !.rtl = FALSE]
    BY <1>5, <1>6 DEF When
  <2>2. PICK v : /\ v = [Emit(s, Csi(s) \o d) EXCEPT !.rtl = FALSE] /\ Silent(s, v)
                 /\ v.rtl = FALSE /\ v.g = s.g /\ v.announce = s.announce /\ v.in = s.in
                 /\ v.shifted = s.shifted /\ v.cmp = s.cmp
    BY <1>3, <1>4, TurnSilent
  <2> QED
    BY <2>1, <2>2
<1>7. CASE s.rtl = FALSE
  <2>1. When(s.rtl, Csi(s) \o d) = <<>>
    BY <1>7 DEF When
  <2>2. LeftToRight(s) = [Emit(s, <<>>) EXCEPT !.rtl = FALSE]
    BY <1>5, <2>1
  <2>3. LeftToRight(s) = s
    BY <1>1, <1>7, <2>2 DEF Emit, Writers
  <2>4. Silent(s, s)
    BY <1>1, SilentSame
  <2> QED
    BY <1>7, <2>3, <2>4
<1> QED
  BY <1>1, <1>6, <1>7

LEMMA RightToLeftSilent ==
  ASSUME NEW s, InStep(s)
  PROVE  \E v : /\ v = RightToLeft(s) /\ Silent(s, v) /\ v.rtl = TRUE
                /\ v.g = s.g /\ v.announce = s.announce /\ v.in = s.in
                /\ v.shifted = s.shifted /\ v.cmp = s.cmp
<1>1. s \in Writers /\ s.out \o <<>> = s.out /\ s.rtl \in BOOLEAN
  <2>1. s \in Writers
    BY DEF InStep
  <2> QED
    BY <2>1, SeenText, WriterFields
<1>2. PICK d : d = <<"2", "]">>
  OBVIOUS
<1>3. d \in Seq(Quiet)
  BY <1>2, QuietSigns, QuietOnes
<1>4. Turns(d, TRUE)
  BY <1>2, ReadTurn DEF Turns
<1>5. RightToLeft(s) = [Emit(s, When(~s.rtl, Csi(s) \o d)) EXCEPT !.rtl = TRUE]
  BY <1>2 DEF RightToLeft
<1>6. CASE s.rtl = FALSE
  <2>1. RightToLeft(s) = [Emit(s, Csi(s) \o d) EXCEPT !.rtl = TRUE]
    BY <1>5, <1>6 DEF When
  <2>2. PICK v : /\ v = [Emit(s, Csi(s) \o d) EXCEPT !.rtl = TRUE] /\ Silent(s, v)
                 /\ v.rtl = TRUE /\ v.g = s.g /\ v.announce = s.announce /\ v.in = s.in
                 /\ v.shifted = s.shifted /\ v.cmp = s.cmp
    BY <1>3, <1>4, TurnSilent
  <2> QED
    BY <2>1, <2>2
<1>7. CASE s.rtl = TRUE
  <2>1. When(~s.rtl, Csi(s) \o d) = <<>>
    BY <1>7 DEF When
  <2>2. RightToLeft(s) = [Emit(s, <<>>) EXCEPT !.rtl = TRUE]
    BY <1>5, <2>1
  <2>3. RightToLeft(s) = s
    BY <1>1, <1>7, <2>2 DEF Emit, Writers
  <2>4. Silent(s, s)
    BY <1>1, SilentSame
  <2> QED
    BY <1>7, <2>3, <2>4
<1> QED
  BY <1>1, <1>6, <1>7

LEMMA EndCompositeSilent ==
  ASSUME NEW s, InStep(s)
  PROVE  \E v : /\ v = EndComposite(s) /\ Silent(s, v) /\ v.cmp = "no"
                /\ v.g = s.g /\ v.announce = s.announce /\ v.in = s.in
                /\ v.shifted = s.shifted /\ v.rtl = s.rtl
<1>1. s \in Writers /\ s.out \o <<>> = s.out /\ s.ch = <<>> /\ Sound(s)
  BY SeenText DEF InStep
<1>2. PICK y : y = Settled(Seen(s))
  OBVIOUS
<1>3. CASE s.cmp # "no"
  <2>1. PICK b : b = <<"ESC", "1">>
    OBVIOUS
  <2>2. b \in Seq(Quiet)
    BY <2>1, QuietSigns, QuietOnes
  <2>3. b \in Seq(Bytes)
    BY <2>2, QuietJoined
  <2>4. PICK x : x = Emit(s, b)
    OBVIOUS
  <2>5. /\ x \in Writers /\ x.out = s.out \o b /\ x.code = s.code /\ x.eol = s.eol /\ x.g = s.g
        /\ x.announce = s.announce /\ x.in = s.in /\ x.shifted = s.shifted /\ x.rtl = s.rtl
        /\ x.ch = s.ch
    BY <1>1, <2>3, <2>4, WriterEmit
  <2>6. PICK v : v = [x EXCEPT !.cmp = "no"]
    OBVIOUS
  <2>7. v = EndComposite(s)
    BY <1>3, <2>1, <2>4, <2>6 DEF EndComposite, When
  <2>8. /\ v \in Writers /\ v.out = s.out \o b /\ v.code = s.code /\ v.eol = s.eol /\ v.g = s.g
        /\ v.announce = s.announce /\ v.in = s.in /\ v.shifted = s.shifted /\ v.rtl = s.rtl
        /\ v.ch = <<>> /\ v.cmp = "no"
    <3>1. "no" \in Marks
      BY DEF Marks
    <3> QED
      BY <1>1, <2>5, <2>6, <3>1 DEF Writers
  <2>9. Sound(v)
    BY <1>1, <2>8 DEF Sound, Flag
  <2>10. PICK z : z = [y EXCEPT !.cmp = FALSE]
    OBVIOUS
  <2>11. z = GetAll(Seen(s), b)
    <3>1. Calm(Seen(s)) /\ System[Seen(s).code].type = "iso" /\ Calm(y) /\ System[y.code].type = "iso"
      BY <1>2, Following
    <3>2. Get(Seen(s), "ESC") = Escaping(y, <<>>)
      BY <1>2, <3>1, ReadEscape
    <3>3. Get(Escaping(y, <<>>), "1") = z
      BY <2>10, <3>1, EscapeOfOne
    <3>4. PICK c \in Bytes, e \in Bytes : c = "ESC" /\ e = "1"
      BY SignsAre, Zenon
    <3>5. GetAll(Seen(s), <<c, e>>) = Get(Get(Seen(s), c), e)
      BY GetAllTwo
    <3> QED
      BY <2>1, <3>2, <3>3, <3>4, <3>5
  <2>12. /\ y \in Readers /\ y.esc = <<>> /\ y.single = 0 /\ y.ch = <<>> /\ y.cr = FALSE /\ y.g = s.g
         /\ y.shifted = s.shifted /\ y.rtl = s.rtl
    BY <1>2, Following
  <2>13. /\ z \in Readers /\ z.esc = <<>> /\ z.single = 0 /\ z.ch = <<>> /\ z.cr = FALSE /\ z.code = y.code
         /\ z.eol = y.eol /\ z.out = y.out /\ z.g = v.g /\ z.shifted = v.shifted /\ z.rtl = v.rtl
         /\ z.cmp = FALSE
    BY <2>8, <2>10, <2>12 DEF Readers
  <2>14. z.cmp = (v.cmp # "no")
    BY <2>8, <2>13
  <2>15. Silent(s, v)
    BY <1>2, <2>2, <2>8, <2>9, <2>11, <2>13, <2>14, Transmits, Zenon
  <2> QED
    BY <2>7, <2>8, <2>15
<1>4. CASE s.cmp = "no"
  <2>1. EndComposite(s) = [Emit(s, <<>>) EXCEPT !.cmp = "no"]
    BY <1>4 DEF EndComposite, When
  <2>2. EndComposite(s) = s
    <3>1. Emit(s, <<>>) = s
      BY <1>1 DEF Emit, Writers
    <3>2. [s EXCEPT !.cmp = "no"] = s
      BY <1>1, <1>4 DEF Writers
    <3> QED
      BY <2>1, <3>1, <3>2
  <2>3. Silent(s, s)
    BY <1>1, SilentSame
  <2> QED
    BY <1>4, <2>2, <2>3
<1> QED
  BY <1>3, <1>4

LEMMA InSilent ==
  ASSUME NEW s, InStep(s), NEW g \in Slots
  PROVE  \E v : /\ v = In(s, g) /\ Silent(s, v) /\ v.in = g /\ v.g = s.g /\ v.announce = s.announce
                /\ v.cmp = s.cmp /\ v.shifted = s.shifted /\ v.rtl = s.rtl
<1>1. s \in Writers
  BY DEF InStep
<1>2. PICK v : v = In(s, g)
  OBVIOUS
<1>3. /\ v \in Writers /\ v.code = s.code /\ v.eol = s.eol /\ v.ch = s.ch /\ v.g = s.g
      /\ v.shifted = s.shifted /\ v.rtl = s.rtl /\ v.cmp = s.cmp /\ v.out = s.out
      /\ v.in = g /\ v.announce = s.announce
  BY <1>1, <1>2 DEF In, Writers
<1>4. (v.cmp # "no") = (s.cmp # "no")
  BY <1>3
<1>5. Silent(s, v)
  BY <1>3, <1>4, SilentSame, Zenon
<1> QED
  BY <1>2, <1>3, <1>5

LEMMA RestoredSilent ==
  ASSUME NEW s, InStep(s), NEW g \in Slots
  PROVE  \E v : /\ v = Restored(s, g) /\ Silent(s, v) /\ v.g[g] = System[s.code].g[g]
                /\ (\A h \in Slots \ {g} : v.g[h] = s.g[h])
                /\ v.in = s.in /\ v.shifted = s.shifted /\ v.rtl = s.rtl /\ v.cmp = s.cmp
<1>1. s \in Writers /\ s.code \in DOMAIN System /\ Sound(s) /\ s.g \in Graphics
  BY WriterFields DEF InStep
<1>2. Regular(System[s.code])
  BY <1>1, SystemsArePlausible DEF InStep
<1>3. PICK lc : lc = System[s.code].g[g]
  OBVIOUS
<1>4. CASE lc = Inv
  <2>1. Restored(s, g) = s
    BY <1>3, <1>4 DEF Restored
  <2>2. g \in 1 .. 3
    <3>1. System[s.code].g[0] = "ascii" /\ "ascii" # Inv
      BY <1>2 DEF Regular, Inv
    <3>2. g # 0
      BY <1>3, <1>4, <3>1
    <3> QED
      BY <3>2 DEF Slots
  <2>3. s.g[g] = Inv
    BY <1>1, <1>3, <1>4, <2>2 DEF Sound
  <2>4. Silent(s, s)
    BY <1>1, SilentSame
  <2> QED
    BY <1>3, <1>4, <2>1, <2>3, <2>4
<1>5. CASE lc # Inv
  <2>1. lc \in Charsets
    BY <1>1, <1>3, <1>5, SystemFields
  <2>2. Restored(s, g) = Designate(s, lc, g)
    BY <1>3, <1>5 DEF Restored
  <2>3. Ahead(s, s, g)
    BY <1>1, AheadSelf
  <2>4. g = 0 => Set[lc].type # "96"
    BY <1>2, <1>3, SetIs DEF Regular
  <2>5. PICK v : /\ v = Designate(s, lc, g)
                /\ Silent(s, v) /\ v.g = [s.g EXCEPT ![g] = lc] /\ v.g[g] = lc
                /\ v.announce = s.announce /\ v.in = s.in /\ v.shifted = s.shifted
                /\ v.rtl = s.rtl /\ v.cmp = s.cmp
    BY <1>3, <1>5, <2>1, <2>3, <2>4, DesignateSilent, SMTT(20)
  <2>6. \A h \in Slots \ {g} : v.g[h] = s.g[h]
    BY <1>1, <2>5 DEF Graphics
  <2> QED
    BY <1>3, <2>2, <2>5, <2>6
<1> QED
  BY <1>4, <1>5

LEMMA SilentMeans ==
  ASSUME NEW s, NEW v, Silent(s, v)
  PROVE  InStep(v) /\ v.code = s.code /\ v.eol = s.eol /\ (\A f : Flag(v, f) = Flag(s, f))
BY DEF Silent, Says, Flag

LEMMA ResetSilent ==
  ASSUME NEW s, InStep(s)
  PROVE  \E v : /\ v = Reset(s) /\ Silent(s, v) /\ v.g = System[s.code].g
                /\ v.shifted = FALSE /\ v.rtl = FALSE /\ v.cmp = "no" /\ v.in = 0
<1>1. PICK a : a = LeftToRight(s) /\ Silent(s, a) /\ a.rtl = FALSE
  BY LeftToRightSilent
<1>2. InStep(a) /\ a.code = s.code
  BY <1>1, SilentMeans
<1>3. PICK b : b = EndComposite(a) /\ Silent(a, b) /\ b.cmp = "no" /\ b.rtl = a.rtl
  BY <1>2, EndCompositeSilent
<1>4. InStep(b) /\ b.code = a.code
  BY <1>3, SilentMeans
<1>5. PICK c : c = ShiftIn(b)
  OBVIOUS
<1>6. Silent(b, c) /\ c.shifted = FALSE /\ c.rtl = b.rtl /\ c.cmp = b.cmp
  BY <1>4, <1>5, ShiftInSilent
<1>7. InStep(c) /\ c.code = b.code
  BY <1>6, SilentMeans
<1>8. 0 \in Slots /\ 1 \in Slots /\ 2 \in Slots /\ 3 \in Slots
  BY DEF Slots
<1>9. PICK d0 : /\ d0 = Restored(c, 0) /\ Silent(c, d0) /\ d0.g[0] = System[c.code].g[0]
                /\ d0.shifted = c.shifted /\ d0.rtl = c.rtl /\ d0.cmp = c.cmp
  BY <1>7, <1>8, RestoredSilent
<1>10. InStep(d0) /\ d0.code = c.code
  BY <1>9, SilentMeans
<1>11. PICK d1 : /\ d1 = Restored(d0, 1) /\ Silent(d0, d1) /\ d1.g[1] = System[d0.code].g[1]
                 /\ (\A h \in Slots \ {1} : d1.g[h] = d0.g[h])
                 /\ d1.shifted = d0.shifted /\ d1.rtl = d0.rtl /\ d1.cmp = d0.cmp
  BY <1>8, <1>10, RestoredSilent
<1>12. InStep(d1) /\ d1.code = d0.code
  BY <1>11, SilentMeans
<1>13. PICK d2 : /\ d2 = Restored(d1, 2) /\ Silent(d1, d2) /\ d2.g[2] = System[d1.code].g[2]
                 /\ (\A h \in Slots \ {2} : d2.g[h] = d1.g[h])
                 /\ d2.shifted = d1.shifted /\ d2.rtl = d1.rtl /\ d2.cmp = d1.cmp
  BY <1>8, <1>12, RestoredSilent
<1>14. InStep(d2) /\ d2.code = d1.code
  BY <1>13, SilentMeans
<1>15. PICK d3 : /\ d3 = Restored(d2, 3) /\ Silent(d2, d3) /\ d3.g[3] = System[d2.code].g[3]
                 /\ (\A h \in Slots \ {3} : d3.g[h] = d2.g[h])
                 /\ d3.shifted = d2.shifted /\ d3.rtl = d2.rtl /\ d3.cmp = d2.cmp
  BY <1>8, <1>14, RestoredSilent
<1>16. InStep(d3) /\ d3.code = d2.code
  BY <1>15, SilentMeans
<1>17. PICK v : /\ v = In(d3, 0) /\ Silent(d3, v) /\ v.in = 0 /\ v.g = d3.g
                /\ v.cmp = d3.cmp /\ v.shifted = d3.shifted /\ v.rtl = d3.rtl
  BY <1>8, <1>16, InSilent
<1>18. v = Reset(s)
  BY <1>1, <1>3, <1>5, <1>9, <1>11, <1>13, <1>15, <1>17 DEF Reset
<1>19. Silent(s, v)
  <2>0. \A s1, s2, s3 : InStep(s1) /\ Silent(s1, s2) /\ Silent(s2, s3) => Silent(s1, s3)
    BY SilentThen, SignSequences
  <2>1. Silent(s, c)
    BY <1>1, <1>2, <1>3, <1>6, <2>0
  <2>2. Silent(s, d1)
    BY <2>0, <2>1, <1>9, <1>11
  <2>3. Silent(s, d3)
    BY <2>0, <2>2, <1>13, <1>15
  <2> QED
    BY <2>0, <2>3, <1>17
<1>20. v.g = System[s.code].g
  <2>1. PICK h : h = System[s.code].g
    OBVIOUS
  <2>2. s.code \in DOMAIN System /\ v \in Writers
    BY <1>17, SilentMeans, WriterFields DEF InStep
  <2>3. v.g \in Graphics /\ h \in Graphics
    BY <2>1, <2>2, SystemFields, WriterFields
  <2>4. /\ d0.g[0] = h[0] /\ d1.g[1] = h[1] /\ d2.g[2] = h[2] /\ d3.g[3] = h[3]
    BY <1>2, <1>4, <1>7, <1>9, <1>10, <1>11, <1>12, <1>13, <1>14, <1>15, <2>1
  <2>5. /\ d3.g[2] = d2.g[2] /\ d3.g[1] = d2.g[1] /\ d2.g[1] = d1.g[1]
        /\ d3.g[0] = d2.g[0] /\ d2.g[0] = d1.g[0] /\ d1.g[0] = d0.g[0]
    BY <1>11, <1>13, <1>15 DEF Slots
  <2>6. ASSUME NEW k \in Slots PROVE v.g[k] = h[k]
    <3>1. k = 0 \/ k = 1 \/ k = 2 \/ k = 3
      BY Slot
    <3> QED
      BY <1>17, <2>4, <2>5, <3>1
  <2> QED
    BY <2>1, <2>3, <2>6 DEF Graphics
<1> QED
  BY <1>1, <1>3, <1>6, <1>9, <1>11, <1>13, <1>15, <1>17, <1>18, <1>19, <1>20

(* After that the reader is as it was at first, but for what it has read.  *)
LEMMA FreshReader ==
  ASSUME NEW v, InStep(v), v.g = System[v.code].g, v.shifted = FALSE, v.rtl = FALSE, v.cmp = "no"
  PROVE  Seen(v) = [NewReader(v.code, v.eol) EXCEPT !.out = Seen(v).out, !.cr = Seen(v).cr]
<1>1. PICK z : z = Seen(v)
  OBVIOUS
<1>2. /\ z \in Readers /\ z.esc = <<>> /\ z.ch = <<>> /\ z.single = 0 /\ z.code = v.code
      /\ z.eol = v.eol /\ z.g = System[v.code].g /\ z.shifted = FALSE /\ z.rtl = FALSE
      /\ z.cmp = FALSE
  BY <1>1 DEF InStep, Agreeing, Calm
<1>3. PICK o, cr : o = z.out /\ cr = z.cr
  OBVIOUS
<1>4. PICK q : q = [NewReader(v.code, v.eol) EXCEPT !.out = o, !.cr = cr]
  OBVIOUS
<1>5. z = q
  <2>1. z = [code |-> z.code, eol |-> z.eol, g |-> z.g, esc |-> z.esc, single |-> z.single,
             shifted |-> z.shifted, rtl |-> z.rtl, cmp |-> z.cmp, cr |-> z.cr, ch |-> z.ch,
             out |-> z.out]
    BY <1>2 DEF Readers
  <2>2. q = [code |-> v.code, eol |-> v.eol, g |-> System[v.code].g, esc |-> <<>>, single |-> 0,
             shifted |-> FALSE, rtl |-> FALSE, cmp |-> FALSE, cr |-> cr, ch |-> <<>>, out |-> o]
    BY <1>4 DEF NewReader
  <2> QED
    BY <1>2, <1>3, <2>1, <2>2
<1> QED
  BY <1>1, <1>3, <1>4, <1>5

(* A writer that has read a leading byte, and what its reader is ready for. *)
Single(v) == IF v.in \in {2, 3} THEN v.in ELSE 0
Poised(v, lc) ==
  /\ v \in Writers /\ System[v.code].type = "iso" /\ v.code # "ss3_7" /\ v.ch = <<>>
  /\ Sound(v) /\ v.g[v.in] = lc
  /\ v.in = 0 => v.shifted = FALSE
  /\ v.in = 1 => (v.shifted <=> Flag(v, "seven"))
  /\ v.in = 3 => ~Flag(v, "seven")
  /\ \E z \in Readers :
       /\ z = Seen(v) /\ z.esc = <<>> /\ z.ch = <<>> /\ z.single = Single(v)
       /\ z.cr => z.eol = "CRLF"
       /\ z.code = v.code /\ z.eol = v.eol /\ z.g = v.g /\ z.shifted = v.shifted /\ z.rtl = v.rtl
       /\ z.cmp = (v.cmp # "no")
Ready(s, v, lc) ==
  /\ Poised(v, lc) /\ v.code = s.code /\ v.eol = s.eol /\ v.cmp = s.cmp
  /\ \E d \in Seq(Quiet) : v.out = s.out \o d
  /\ ReadText(Seen(v)) = ReadText(Seen(s))

LEMMA SilentReady ==
  ASSUME NEW s, InStep(s), NEW v, Silent(s, v), v.cmp = s.cmp, v.in \in {0, 1},
         v.in = 0 => v.shifted = FALSE, v.in = 1 => (v.shifted <=> Flag(v, "seven"))
  PROVE  Ready(s, v, v.g[v.in])
<1>1. InStep(v) /\ v.code = s.code /\ v.eol = s.eol /\ \E d \in Seq(Quiet) : v.out = s.out \o d
  BY DEF Silent, Says
<1>2. PICK z \in Readers :
       /\ z = Seen(v) /\ z.esc = <<>> /\ z.ch = <<>> /\ z.single = 0
       /\ z.cr => z.eol = "CRLF"
       /\ z.code = v.code /\ z.eol = v.eol /\ z.g = v.g /\ z.shifted = v.shifted /\ z.rtl = v.rtl
       /\ z.cmp = (v.cmp # "no")
  BY <1>1 DEF InStep, Agreeing, Calm
<1>3. Single(v) = 0 /\ v.in # 3
  BY DEF Single
<1>4. Poised(v, v.g[v.in])
  BY <1>1, <1>2, <1>3 DEF Poised, InStep
<1>5. ReadText(Seen(v)) = ReadText(Seen(s))
  <2>1. ReadText(Seen(v)) = ReadText(Seen(s)) \o <<>>
    BY DEF Silent, Says
  <2> QED
    BY <2>1, SeenText
<1> QED
  BY <1>1, <1>4, <1>5 DEF Ready

LEMMA SilentThenReady ==
  ASSUME NEW s, InStep(s), NEW a, Silent(s, a), a.cmp = s.cmp, NEW v, NEW lc, Ready(a, v, lc)
  PROVE  Ready(s, v, lc)
<1>0. \A p, q, t \in Seq(Bytes) : (p \o q) \o t = p \o (q \o t)
  BY Associates
<1>1. PICK o \in Seq(Bytes) : o = s.out
  BY SeenText
<1>2. PICK d \in Seq(Quiet) : a.out = o \o d
  BY <1>1 DEF Silent, Says
<1>3. PICK e \in Seq(Quiet) : v.out = a.out \o e
  BY DEF Ready
<1>4. d \in Seq(Bytes) /\ e \in Seq(Bytes) /\ d \o e \in Seq(Quiet)
  BY QuietJoined
<1>5. (o \o d) \o e = o \o (d \o e)
  BY <1>0, <1>4, Zenon
<1>6. v.out = s.out \o (d \o e)
  BY <1>1, <1>2, <1>3, <1>5, Zenon
<1>7. ReadText(Seen(a)) = ReadText(Seen(s))
  <2>1. ReadText(Seen(a)) = ReadText(Seen(s)) \o <<>>
    BY DEF Silent, Says
  <2> QED
    BY <2>1, SeenText
<1>8. a.code = s.code /\ a.eol = s.eol
  BY DEF Silent, Says
<1> QED
  BY <1>4, <1>6, <1>7, <1>8 DEF Ready

LEMMA ToG0Ready ==
  ASSUME NEW s, InStep(s), NEW lc \in Charsets, NEW a, Ahead(s, a, 0),
         ~Flag(s, "ascii-cntl") => Set[lc].type # "96"
  PROVE  Ready(s, ToG0(a, lc), lc)
<1>1. 0 \in Slots
  BY DEF Slots
<1>2. PICK x : x = ShiftIn(s)
  OBVIOUS
<1>3. Silent(s, x) /\ x.shifted = FALSE /\ x.cmp = s.cmp
  BY <1>2, ShiftInSilent
<1>4. PICK y : y = ShiftIn(a)
  OBVIOUS
<1>5. Ahead(x, y, 0)
  BY <1>1, <1>2, <1>4, AheadShiftIn
<1>6. ~Flag(x, "ascii-cntl") => Set[lc].type # "96"
  BY <1>3, SilentMeans
<1>7. InStep(x)
  BY <1>3, SilentMeans
<1>8. PICK d : /\ d = Designate(y, lc, 0) /\ Silent(x, d) /\ d.g[0] = lc
               /\ d.shifted = x.shifted /\ d.cmp = x.cmp
  <2>1. PICK g \in Slots : g = 0
    BY <1>1
  <2>2. /\ Ahead(x, y, g) /\ (g # 0 => System[x.code].g[g] # Inv)
        /\ g = 0 /\ ~Flag(x, "ascii-cntl") => Set[lc].type # "96"
    BY <1>5, <1>6, <2>1
  <2>3. \E v : /\ v = Designate(y, lc, g)
               /\ Silent(x, v) /\ v.g = [x.g EXCEPT ![g] = lc] /\ v.g[g] = lc
               /\ v.announce = y.announce /\ v.in = x.in /\ v.shifted = x.shifted
               /\ v.rtl = x.rtl /\ v.cmp = x.cmp
    BY <1>7, <2>2, DesignateSilent
  <2> QED
    BY <2>1, <2>3
<1>9. InStep(d)
  BY <1>8, SilentMeans
<1>10. PICK v : /\ v = In(d, 0) /\ Silent(d, v) /\ v.in = 0 /\ v.g = d.g
                /\ v.cmp = d.cmp /\ v.shifted = d.shifted
  BY <1>1, <1>9, InSilent
<1>11. v = ToG0(a, lc)
  BY <1>4, <1>8, <1>10 DEF ToG0
<1>12. Silent(s, v)
  <2>0. \A s1, s2, s3 : InStep(s1) /\ Silent(s1, s2) /\ Silent(s2, s3) => Silent(s1, s3)
    BY SilentThen, SignSequences
  <2> QED
    BY <1>3, <1>7, <1>8, <1>10, <2>0
<1>13. v.g[v.in] = lc /\ v.cmp = s.cmp /\ v.shifted = FALSE /\ v.in \in {0, 1} /\ v.in # 1
  BY <1>3, <1>8, <1>10
<1>14. Ready(s, v, v.g[v.in])
  BY <1>12, <1>13, SilentReady
<1> QED
  BY <1>11, <1>13, <1>14

LEMMA ToG1Ready ==
  ASSUME NEW s, InStep(s), NEW lc \in Charsets, NEW a, Ahead(s, a, 1),
         System[s.code].g[1] # Inv, ~Flag(s, "seven")
  PROVE  Ready(s, ToG1(a, lc), lc)
<1>1. 1 \in Slots /\ 1 # 0
  BY DEF Slots
<1>2. PICK x : x = ShiftIn(s)
  OBVIOUS
<1>3. Silent(s, x) /\ x.shifted = FALSE /\ x.cmp = s.cmp
  BY <1>2, ShiftInSilent
<1>4. PICK y : y = ShiftIn(a)
  OBVIOUS
<1>5. Ahead(x, y, 1)
  BY <1>1, <1>2, <1>4, AheadShiftIn
<1>6. InStep(x) /\ System[x.code].g[1] # Inv
  BY <1>3, SilentMeans
<1>8. PICK d : /\ d = Designate(y, lc, 1) /\ Silent(x, d) /\ d.g[1] = lc
               /\ d.shifted = x.shifted /\ d.cmp = x.cmp
  <2>1. PICK g \in Slots : g = 1
    BY <1>1
  <2>2. /\ Ahead(x, y, g) /\ (g # 0 => System[x.code].g[g] # Inv)
        /\ g = 0 /\ ~Flag(x, "ascii-cntl") => Set[lc].type # "96"
    BY <1>5, <1>6, <2>1
  <2>3. \E v : /\ v = Designate(y, lc, g)
               /\ Silent(x, v) /\ v.g = [x.g EXCEPT ![g] = lc] /\ v.g[g] = lc
               /\ v.announce = y.announce /\ v.in = x.in /\ v.shifted = x.shifted
               /\ v.rtl = x.rtl /\ v.cmp = x.cmp
    BY <1>6, <2>2, DesignateSilent
  <2> QED
    BY <2>1, <2>3
<1>9. InStep(d)
  BY <1>8, SilentMeans
<1>10. PICK v : /\ v = In(d, 1) /\ Silent(d, v) /\ v.in = 1 /\ v.g = d.g
                /\ v.cmp = d.cmp /\ v.shifted = d.shifted
  BY <1>1, <1>9, InSilent
<1>11. v = ToG1(a, lc)
  BY <1>4, <1>8, <1>10 DEF ToG1
<1>12. Silent(s, v)
  <2>0. \A s1, s2, s3 : InStep(s1) /\ Silent(s1, s2) /\ Silent(s2, s3) => Silent(s1, s3)
    BY SilentThen, SignSequences
  <2> QED
    BY <1>3, <1>6, <1>8, <1>10, <2>0
<1>13. v.g[v.in] = lc /\ v.cmp = s.cmp /\ v.shifted = FALSE /\ v.in \in {0, 1} /\ v.in # 0
  BY <1>3, <1>8, <1>10
<1>14. ~Flag(v, "seven")
  BY <1>12, SilentMeans
<1>15. (v.shifted <=> Flag(v, "seven"))
  BY <1>13, <1>14 DEF Flag
<1>16. Ready(s, v, v.g[v.in])
  BY <1>12, <1>13, <1>15, SilentReady
<1> QED
  BY <1>11, <1>13, <1>16

LEMMA LockingShiftReady ==
  ASSUME NEW s, InStep(s), NEW lc \in Charsets, NEW a, Ahead(s, a, 1),
         System[s.code].g[1] # Inv, Flag(s, "seven")
  PROVE  Ready(s, LockingShift(a, lc), lc)
<1>1. PICK g \in Slots : g = 1
  BY DEF Slots
<1>2. PICK d : /\ d = Designate(a, lc, g)
               /\ Silent(s, d) /\ d.g = [s.g EXCEPT ![g] = lc] /\ d.g[g] = lc
               /\ d.announce = a.announce /\ d.in = s.in /\ d.shifted = s.shifted
               /\ d.rtl = s.rtl /\ d.cmp = s.cmp
  <2>1. /\ Ahead(s, a, g) /\ (g # 0 => System[s.code].g[g] # Inv)
        /\ g = 0 /\ ~Flag(s, "ascii-cntl") => Set[lc].type # "96"
    BY <1>1
  <2> QED
    BY <2>1, DesignateSilent
<1>3. InStep(d)
  BY <1>2, SilentMeans
<1>4. PICK x : /\ x = In(d, g) /\ Silent(d, x) /\ x.in = g /\ x.g = d.g
               /\ x.cmp = d.cmp /\ x.shifted = d.shifted
  BY <1>3, InSilent
<1>5. InStep(x) /\ a.shifted = x.shifted
  BY <1>2, <1>4, SilentMeans DEF Ahead
<1>6. x \in Writers /\ Sound(x) /\ x.out \o <<>> = x.out /\ x.ch = <<>> /\ x.shifted \in BOOLEAN
  BY <1>5, SeenText, WriterFields DEF InStep
<1>7. PICK b : b = When(~x.shifted, <<"SO">>)
  OBVIOUS
<1>8. b = IF x.shifted THEN <<>> ELSE <<"SO">>
  BY <1>6, <1>7 DEF When
<1>9. b \in Seq(Quiet)
  BY <1>8, QuietSigns, QuietOnes
<1>10. b \in Seq(Bytes)
  BY <1>9, QuietJoined
<1>11. PICK e : e = Emit(x, b)
  OBVIOUS
<1>12. /\ e \in Writers /\ e.out = x.out \o b /\ e.code = x.code /\ e.eol = x.eol /\ e.g = x.g
       /\ e.in = x.in /\ e.rtl = x.rtl /\ e.cmp = x.cmp /\ e.ch = x.ch
  BY <1>6, <1>10, <1>11, WriterEmit
<1>13. PICK v : v = [e EXCEPT !.shifted = TRUE]
  OBVIOUS
<1>14. v = LockingShift(a, lc)
  BY <1>1, <1>2, <1>4, <1>5, <1>7, <1>11, <1>13 DEF LockingShift
<1>15. /\ v \in Writers /\ v.out = x.out \o b /\ v.code = x.code /\ v.eol = x.eol /\ v.g = x.g
       /\ v.in = x.in /\ v.rtl = x.rtl /\ v.cmp = x.cmp /\ v.ch = <<>> /\ v.shifted = TRUE
  BY <1>6, <1>12, <1>13 DEF Writers
<1>16. Flag(x, "seven") /\ Flag(v, "seven")
  BY <1>2, <1>3, <1>4, <1>15, SilentMeans DEF Flag
<1>17. x.g[1] # Inv
  BY <1>1, <1>2, <1>4, CharsetsAre
<1>18. Sound(v)
  BY <1>6, <1>15, <1>16, <1>17 DEF Sound, Flag
<1>19. Silent(x, v)
  <2>1. CASE x.shifted = TRUE
    <3>1. b = <<>>
      BY <1>8, <2>1
    <3>2. v.out = x.out
      BY <1>6, <1>15, <3>1
    <3> QED
      BY <1>5, <1>6, <1>15, <2>1, <3>2, SilentSame
  <2>2. CASE x.shifted = FALSE
    <3>1. b = <<"SO">>
      BY <1>8, <2>2
    <3>2. PICK y : y = Settled(Seen(x))
      OBVIOUS
    <3>3. /\ y \in Readers /\ y.esc = <<>> /\ y.single = 0 /\ y.ch = <<>> /\ y.cr = FALSE /\ y.g = x.g
          /\ y.rtl = x.rtl /\ y.cmp = (x.cmp # "no")
      BY <1>5, <3>2, Following
    <3>4. Get(Seen(x), "SO") = [y EXCEPT !.shifted = TRUE]
      <4>1. Calm(Seen(x)) /\ System[Seen(x).code].type = "iso" /\ Seen(x).g[1] # Inv
        BY <1>5, <1>17, Following
      <4> QED
        BY <3>2, <4>1, GetShifts, Zenon
    <3>5. PICK z : z = [y EXCEPT !.shifted = TRUE]
      OBVIOUS
    <3>6. z = GetAll(Seen(x), b)
      BY <3>1, <3>4, <3>5, GetAllOne
    <3>7. /\ z \in Readers /\ z.esc = <<>> /\ z.single = 0 /\ z.ch = <<>> /\ z.cr = FALSE
          /\ z.code = y.code /\ z.eol = y.eol /\ z.out = y.out /\ z.g = v.g
          /\ z.shifted = v.shifted /\ z.rtl = v.rtl /\ z.cmp = (v.cmp # "no")
      BY <1>15, <3>3, <3>5 DEF Readers
    <3> QED
      BY <1>5, <1>9, <1>15, <1>18, <3>2, <3>6, <3>7, Transmits, Zenon
  <2> QED
    BY <1>6, <2>1, <2>2
<1>20. Silent(s, v)
  <2>0. \A s1, s2, s3 : InStep(s1) /\ Silent(s1, s2) /\ Silent(s2, s3) => Silent(s1, s3)
    BY SilentThen, SignSequences
  <2> QED
    BY <1>2, <1>3, <1>4, <1>19, <2>0
<1>21. v.g[v.in] = lc /\ v.cmp = s.cmp /\ v.in \in {0, 1} /\ v.in # 0
  <2>1. v.in = g /\ v.cmp = s.cmp
    BY <1>2, <1>4, <1>15
  <2>2. v.g = d.g /\ d.g[g] = lc
    BY <1>2, <1>4, <1>15, Zenon
  <2>3. v.g[v.in] = lc
    BY <2>1, <2>2, Zenon
  <2> QED
    BY <1>1, <2>1, <2>3
<1>22. (v.shifted <=> Flag(v, "seven"))
  BY <1>15, <1>16 DEF Flag
<1>23. Ready(s, v, v.g[v.in])
  BY <1>20, <1>21, <1>22, SilentReady
<1> QED
  BY <1>14, <1>21, <1>23

(* A single shift: the reader expects one character from G2 or G3.         *)
LEMMA SingleShiftReady ==
  ASSUME NEW s, InStep(s), NEW lc \in Charsets, NEW g \in {2, 3}, NEW a, Ahead(s, a, g),
         System[s.code].g[g] # Inv,
         NEW v, v = IF g = 2 THEN SingleShift2(a, lc) ELSE SingleShift3(a, lc)
  PROVE  Ready(s, v, lc)
<1>0. g \in Slots /\ g # 0
  BY DEF Slots
<1>1. s.code \in DOMAIN System /\ System[s.code].type = "iso" /\ s.code # "ss3_7"
  BY WriterFields DEF InStep
<1>2. g = 3 => ~Flag(s, "seven")
  <2>1. Regular(System[s.code])
    BY <1>1, SystemsArePlausible
  <2> QED
    BY <2>1 DEF Regular, Flag
<1>3. PICK x : /\ x = Designate(a, lc, g)
               /\ Silent(s, x) /\ x.g = [s.g EXCEPT ![g] = lc] /\ x.g[g] = lc
               /\ x.announce = a.announce /\ x.in = s.in /\ x.shifted = s.shifted
               /\ x.rtl = s.rtl /\ x.cmp = s.cmp
  BY <1>0, DesignateSilent
<1>4. /\ InStep(x) /\ x.code = s.code /\ x.eol = s.eol /\ x.g[g] = lc /\ x.cmp = s.cmp
      /\ \A f : Flag(x, f) = Flag(s, f)
  BY <1>3, SilentMeans
<1>5. x \in Writers /\ Sound(x) /\ x.ch = <<>> /\ lc # Inv
  BY <1>4, CharsetsAre DEF InStep
<1>6. \A f : Flag(a, f) = Flag(s, f)
  BY DEF Ahead, Flag
<1>7. PICK b : b = IF Flag(s, "seven") THEN <<"ESC", "N">> ELSE IF g = 2 THEN <<"SS2">> ELSE <<"SS3">>
  OBVIOUS
<1>8. b \in Seq(Quiet)
  <2>1. <<"ESC", "N">> \in Seq(Quiet) /\ <<"SS2">> \in Seq(Quiet) /\ <<"SS3">> \in Seq(Quiet)
    BY QuietSigns, QuietOnes
  <2> QED
    BY <1>7, <2>1
<1>9. b \in Seq(Bytes)
  BY <1>8, QuietJoined
<1>10. PICK e : e = Emit(x, b)
  OBVIOUS
<1>11. /\ e \in Writers /\ e.out = x.out \o b /\ e.code = x.code /\ e.eol = x.eol /\ e.g = x.g
       /\ e.shifted = x.shifted /\ e.rtl = x.rtl /\ e.cmp = x.cmp /\ e.ch = x.ch
  BY <1>5, <1>9, <1>10, WriterEmit
<1>12. v = In(e, g)
  <2>1. CASE g = 2
    BY <1>3, <1>6, <1>7, <1>10, <2>1 DEF SingleShift2
  <2>2. CASE g = 3
    BY <1>3, <1>6, <1>7, <1>10, <2>2 DEF SingleShift3
  <2> QED
    BY <2>1, <2>2
<1>13. /\ v \in Writers /\ v.out = x.out \o b /\ v.code = x.code /\ v.eol = x.eol /\ v.g = x.g
       /\ v.shifted = x.shifted /\ v.rtl = x.rtl /\ v.cmp = x.cmp /\ v.ch = <<>> /\ v.in = g
  BY <1>0, <1>5, <1>11, <1>12 DEF In, Writers
<1>14. Sound(v)
  BY <1>5, <1>13 DEF Sound, Flag
<1>15. PICK y : y = Settled(Seen(x))
  OBVIOUS
<1>16. /\ y \in Readers /\ y.esc = <<>> /\ y.single = 0 /\ y.ch = <<>> /\ y.cr = FALSE /\ y.g = x.g
       /\ y.shifted = x.shifted /\ y.rtl = x.rtl /\ y.cmp = (x.cmp # "no")
       /\ y.code = x.code /\ y.eol = x.eol /\ y.out = ReadText(Seen(x))
       /\ Calm(y) /\ System[y.code].type = "iso"
  BY <1>4, <1>15, Following, ZenonT(60)
<1>17. /\ Calm(Seen(x)) /\ System[Seen(x).code].type = "iso" /\ Seen(x).g[g] # Inv /\ y.g[g] # Inv
  BY <1>4, <1>5, <1>16, Following
<1>18. PICK z : z = [y EXCEPT !.single = g]
  OBVIOUS
<1>19. GetAll(Seen(x), b) = z
  <2>1. CASE Flag(s, "seven")
    <3>1. g = 2 /\ b = <<"ESC", "N">>
      BY <1>2, <1>7, <2>1
    <3>2. Get(Seen(x), "ESC") = Escaping(y, <<>>)
      BY <1>15, <1>17, ReadEscape
    <3>3. Get(Escaping(y, <<>>), "N") = z
      BY <1>16, <1>17, <1>18, <3>1, EscapeOfOne
    <3>4. PICK c \in Bytes, d \in Bytes : c = "ESC" /\ d = "N"
      BY SignsAre, Zenon
    <3>5. GetAll(Seen(x), <<c, d>>) = Get(Get(Seen(x), c), d)
      BY GetAllTwo
    <3> QED
      BY <3>1, <3>2, <3>3, <3>4, <3>5
  <2>2. CASE ~Flag(s, "seven") /\ g = 2
    <3>1. b = <<"SS2">>
      BY <1>7, <2>2
    <3>2. Get(Seen(x), "SS2") = z
      BY <1>15, <1>17, <1>18, <2>2, GetShifts
    <3> QED
      BY <3>1, <3>2, GetAllOne
  <2>3. CASE ~Flag(s, "seven") /\ g = 3
    <3>1. b = <<"SS3">>
      BY <1>7, <2>3
    <3>2. Get(Seen(x), "SS3") = z
      BY <1>15, <1>17, <1>18, <2>3, GetShifts
    <3> QED
      BY <3>1, <3>2, GetAllOne
  <2> QED
    BY <2>1, <2>2, <2>3
<1>20. Seen(v) = z
  BY <1>5, <1>9, <1>13, <1>19, SeenAfter
<1>21. /\ z \in Readers /\ z.esc = <<>> /\ z.single = g /\ z.ch = <<>> /\ z.cr = FALSE
       /\ z.code = v.code /\ z.eol = v.eol /\ z.g = v.g /\ z.shifted = v.shifted /\ z.rtl = v.rtl
       /\ z.cmp = (v.cmp # "no") /\ z.out = y.out
  BY <1>13, <1>16, <1>18 DEF Readers
<1>22. Single(v) = g /\ v.in # 0 /\ v.in # 1 /\ v.g[v.in] = lc
  BY <1>0, <1>4, <1>13 DEF Single
<1>23. v.in = 3 => ~Flag(v, "seven")
  BY <1>2, <1>4, <1>13 DEF Flag
<1>24. System[v.code].type = "iso" /\ v.code # "ss3_7"
  BY <1>1, <1>4, <1>13
<1>25. Poised(v, lc)
  BY <1>13, <1>14, <1>20, <1>21, <1>22, <1>23, <1>24 DEF Poised
<1>26. ReadText(Seen(v)) = ReadText(Seen(x))
  <2>1. PICK o \in Seq(Bytes) : o = y.out
    BY <1>16, ReaderFields
  <2>2. ReadText(z) = z.out
    BY <1>21, <2>1, Nothing DEF ReadText, When
  <2> QED
    BY <1>16, <1>20, <1>21, <2>2
<1>27. Ready(x, v, lc)
  BY <1>8, <1>13, <1>25, <1>26 DEF Ready
<1> QED
  BY <1>3, <1>4, <1>27, SilentThenReady

LEMMA GraphicReady ==
  ASSUME NEW s, InStep(s), NEW lc \in Lead
  PROVE  Ready(s, Graphic(s, lc), lc)
<1>1. s \in Writers /\ s.code \in DOMAIN System /\ Sound(s) /\ s.g \in Graphics
  BY WriterFields DEF InStep
<1>2. Regular(System[s.code])
  BY <1>1, SystemsArePlausible DEF InStep
<1>3. lc \in Charsets /\ lc # "ascii" /\ lc # Inv
  BY CharsetsAre
<1>4. 0 \in Slots /\ 1 \in Slots /\ 2 \in Slots /\ 3 \in Slots
  BY DEF Slots
<1>5. \A g \in Slots : Ahead(s, s, g) /\ Ahead(s, Announced(s, g), g)
  BY <1>1, AheadSelf, AheadAnnounced
<1>6. \A g \in 1 .. 3 : s.g[g] # Inv => System[s.code].g[g] # Inv
  BY <1>1 DEF Sound
<1>7. \A g \in 1 .. 3 : Home(s, lc, g) => System[s.code].g[g] # Inv
  BY <1>3, <1>6 DEF Home
<1>8. CASE Home(s, lc, 0)
  <2>1. Graphic(s, lc) = ToG0(Announced(s, 0), lc)
    BY <1>8 DEF Graphic
  <2>2. lc = s.g[0]
    BY <1>2, <1>3, <1>8 DEF Home, Regular
  <2>3. ~Flag(s, "ascii-cntl") => Set[lc].type # "96"
    BY <1>1, <2>2 DEF Sound
  <2> QED
    BY <1>3, <1>4, <1>5, <2>1, <2>3, ToG0Ready
<1>9. CASE ~Home(s, lc, 0) /\ Home(s, lc, 1)
  <2>1. \E g \in 0 .. 1 : Home(s, lc, g)
    BY <1>9
  <2>2. \E g \in 0 .. 2 : Home(s, lc, g)
    BY <1>9
  <2>3. Graphic(s, lc) = IF Flag(s, "seven") THEN LockingShift(Announced(s, 1), lc)
                                             ELSE ToG1(Announced(s, 1), lc)
    BY <1>9, <2>1, <2>2 DEF Graphic
  <2>4. System[s.code].g[1] # Inv
    BY <1>7, <1>9
  <2> QED
    BY <1>3, <1>4, <1>5, <2>3, <2>4, ToG1Ready, LockingShiftReady
<1>10. CASE ~(\E g \in 0 .. 1 : Home(s, lc, g)) /\ Home(s, lc, 2)
  <2>1. ~Home(s, lc, 0) /\ ~Home(s, lc, 1) /\ \E g \in 0 .. 2 : Home(s, lc, g)
    BY <1>10
  <2>2. Graphic(s, lc) = SingleShift2(Announced(s, 2), lc)
    BY <1>10, <2>1 DEF Graphic
  <2>3. System[s.code].g[2] # Inv
    BY <1>7, <1>10
  <2>4. PICK g \in {2, 3} : g = 2
    OBVIOUS
  <2>5. Ahead(s, Announced(s, g), g) /\ System[s.code].g[g] # Inv
    BY <1>4, <1>5, <2>3, <2>4
  <2>6. Graphic(s, lc) = IF g = 2 THEN SingleShift2(Announced(s, g), lc) ELSE SingleShift3(Announced(s, g), lc)
    BY <2>2, <2>4
  <2> QED
    BY <1>3, <2>5, <2>6, SingleShiftReady
<1>11. CASE ~(\E g \in 0 .. 2 : Home(s, lc, g)) /\ Home(s, lc, 3)
  <2>1. ~Home(s, lc, 0) /\ ~Home(s, lc, 1) /\ ~Home(s, lc, 2)
    BY <1>11
  <2>2. ~\E g \in 0 .. 1 : Home(s, lc, g)
    BY <1>11
  <2>3. Graphic(s, lc) = SingleShift3(Announced(s, 3), lc)
    BY <1>11, <2>1, <2>2 DEF Graphic
  <2>4. System[s.code].g[3] # Inv
    BY <1>7, <1>11
  <2>5. PICK g \in {2, 3} : g = 3
    OBVIOUS
  <2>6. Ahead(s, Announced(s, g), g) /\ System[s.code].g[g] # Inv
    BY <1>4, <1>5, <2>4, <2>5
  <2>7. Graphic(s, lc) = IF g = 2 THEN SingleShift2(Announced(s, g), lc) ELSE SingleShift3(Announced(s, g), lc)
    BY <2>3, <2>5
  <2> QED
    BY <1>3, <2>6, <2>7, SingleShiftReady
<1>12. CASE ~Home(s, lc, 0) /\ ~Home(s, lc, 1) /\ ~Home(s, lc, 2) /\ ~Home(s, lc, 3)
  <2>1. Graphic(s, lc) =
          IF Set[lc].graphic = 0 THEN ToG0(s, lc)
          ELSE IF s.g[1] # Inv /\ ~Flag(s, "seven") THEN ToG1(s, lc)
          ELSE IF s.g[1] # Inv /\ Flag(s, "lock-shift") THEN LockingShift(s, lc)
          ELSE IF s.g[2] # Inv THEN SingleShift2(s, lc)
          ELSE IF s.g[3] # Inv THEN SingleShift3(s, lc)
          ELSE ToG0(s, lc)
    BY <1>12, Zenon DEF Graphic
  <2>2. CASE Set[lc].graphic = 0
    <3>1. Set[lc].type # "96"
      BY <1>3, <2>2, SetIs DEF Charsets
    <3> QED
      BY <1>3, <1>4, <1>5, <2>1, <2>2, <3>1, ToG0Ready
  <2>3. CASE Set[lc].graphic # 0 /\ s.g[1] # Inv /\ ~Flag(s, "seven")
    <3>1. Graphic(s, lc) = ToG1(s, lc) /\ System[s.code].g[1] # Inv
      BY <1>6, <2>1, <2>3
    <3> QED
      BY <1>3, <1>4, <1>5, <2>3, <3>1, ToG1Ready
  <2>4. CASE Set[lc].graphic # 0 /\ s.g[1] # Inv /\ Flag(s, "seven") /\ Flag(s, "lock-shift")
    <3>1. Graphic(s, lc) = LockingShift(s, lc) /\ System[s.code].g[1] # Inv
      BY <1>6, <2>1, <2>4
    <3> QED
      BY <1>3, <1>4, <1>5, <2>4, <3>1, LockingShiftReady
  <2>5. CASE Set[lc].graphic # 0 /\ ~(s.g[1] # Inv /\ (~Flag(s, "seven") \/ Flag(s, "lock-shift")))
    <3>0. Graphic(s, lc) = IF s.g[2] # Inv THEN SingleShift2(s, lc)
                           ELSE IF s.g[3] # Inv THEN SingleShift3(s, lc) ELSE ToG0(s, lc)
      BY <2>1, <2>5
    <3>1. CASE s.g[2] # Inv
      <4>1. PICK g \in {2, 3} : g = 2
        OBVIOUS
      <4>2. Ahead(s, s, g) /\ System[s.code].g[g] # Inv
        BY <1>4, <1>5, <1>6, <3>1, <4>1
      <4>3. Graphic(s, lc) = IF g = 2 THEN SingleShift2(s, lc) ELSE SingleShift3(s, lc)
        BY <3>0, <3>1, <4>1
      <4> QED
        BY <1>3, <4>2, <4>3, SingleShiftReady
    <3>2. CASE s.g[2] = Inv /\ s.g[3] # Inv
      <4>1. PICK g \in {2, 3} : g = 3
        OBVIOUS
      <4>2. Ahead(s, s, g) /\ System[s.code].g[g] # Inv
        BY <1>4, <1>5, <1>6, <3>2, <4>1
      <4>3. Graphic(s, lc) = IF g = 2 THEN SingleShift2(s, lc) ELSE SingleShift3(s, lc)
        BY <3>0, <3>2, <4>1
      <4> QED
        BY <1>3, <4>2, <4>3, SingleShiftReady
    <3>3. CASE s.g[2] = Inv /\ s.g[3] = Inv
      <4>1. Graphic(s, lc) = ToG0(s, lc)
        BY <3>0, <3>3
      <4>2. Flag(s, "ascii-cntl")
        <5>1. ~Flag(s, "ascii-cntl") => s.g[1] # Inv
          BY <1>1 DEF Sound
        <5>2. ~Flag(s, "ascii-cntl") => ~Flag(s, "seven")
          BY <1>2 DEF Regular, Flag
        <5> QED
          BY <2>5, <5>1, <5>2
      <4> QED
        BY <1>3, <1>4, <1>5, <4>1, <4>2, ToG0Ready
    <3> QED
      BY <3>1, <3>2, <3>3
  <2> QED
    BY <2>2, <2>3, <2>4, <2>5
<1>13. (\E g \in 0 .. 1 : Home(s, lc, g)) => Home(s, lc, 0) \/ Home(s, lc, 1)
  <2>1. ASSUME NEW g \in 0 .. 1, Home(s, lc, g) PROVE Home(s, lc, 0) \/ Home(s, lc, 1)
    <3>1. g = 0 \/ g = 1
      OBVIOUS
    <3> QED
      BY <2>1, <3>1
  <2> QED
    BY <2>1
<1>14. (\E g \in 0 .. 2 : Home(s, lc, g)) => Home(s, lc, 0) \/ Home(s, lc, 1) \/ Home(s, lc, 2)
  <2>1. ASSUME NEW g \in 0 .. 2, Home(s, lc, g)
        PROVE  Home(s, lc, 0) \/ Home(s, lc, 1) \/ Home(s, lc, 2)
    <3>1. g = 0 \/ g = 1 \/ g = 2
      OBVIOUS
    <3> QED
      BY <2>1, <3>1
  <2> QED
    BY <2>1
<1> QED
  BY <1>8, <1>9, <1>10, <1>11, <1>12, <1>13, <1>14

-----------------------------------------------------------------------------
(* Characters: what the reader makes of each is what was to be written.    *)

Led(s, v, lc) ==
  /\ Poised(v, lc) /\ v.code = s.code /\ v.eol = s.eol
  /\ v.cmp = IF s.cmp = "lead" THEN "nonascii" ELSE s.cmp
  /\ \E d \in Seq(Quiet) : v.out = s.out \o d
  /\ ReadText(Seen(v)) = ReadText(Seen(s))

LEMMA PutLeadLed ==
  ASSUME NEW s, InStep(s), NEW lc \in Lead
  PROVE  Led(s, PutLead(s, lc), lc)
<1>1. PICK a : a = IF Set[lc].rtl THEN RightToLeft(s) ELSE LeftToRight(s)
  OBVIOUS
<1>2. Silent(s, a) /\ a.cmp = s.cmp
  <2>1. CASE Set[lc].rtl
    BY <1>1, <2>1, RightToLeftSilent
  <2>2. CASE ~Set[lc].rtl
    BY <1>1, <2>2, LeftToRightSilent
  <2> QED
    BY <2>1, <2>2
<1>3. InStep(a)
  BY <1>2, SilentMeans
<1>4. a \in Writers /\ a.ch = <<>>
  BY <1>3 DEF InStep
<1>5. [a EXCEPT !.ch = <<>>] = a
  BY <1>4 DEF Writers
<1>6. PICK p : p = Graphic(a, lc)
  OBVIOUS
<1>7. Ready(a, p, lc)
  BY <1>3, <1>6, GraphicReady
<1>8. Ready(s, p, lc)
  BY <1>2, <1>7, SilentThenReady
<1>9. PICK v : v = IF p.cmp = "lead" THEN [p EXCEPT !.cmp = "nonascii"] ELSE p
  OBVIOUS
<1>10. v = PutLead(s, lc)
  BY <1>1, <1>5, <1>6, <1>9, Zenon DEF PutLead
<1>11. p \in Writers /\ Poised(p, lc) /\ p.cmp = s.cmp /\ p.code = s.code /\ p.eol = s.eol
  BY <1>8 DEF Ready, Poised
<1>12. /\ v \in Writers /\ v.code = p.code /\ v.eol = p.eol /\ v.g = p.g /\ v.in = p.in
       /\ v.shifted = p.shifted /\ v.rtl = p.rtl /\ v.ch = p.ch /\ v.out = p.out
       /\ v.cmp = IF s.cmp = "lead" THEN "nonascii" ELSE s.cmp
  <2>1. "nonascii" \in Marks
    BY DEF Marks
  <2> QED
    BY <1>9, <1>11, <2>1 DEF Writers
<1>13. (v.cmp # "no") = (p.cmp # "no")
  BY <1>11, <1>12
<1>14. Seen(v) = Seen(p) /\ Single(v) = Single(p) /\ \A f : Flag(v, f) = Flag(p, f)
  BY <1>12 DEF Seen, Single, Flag
<1>15. Sound(v)
  BY <1>11, <1>12, <1>14 DEF Poised, Sound
<1>16. Poised(v, lc)
  BY <1>11, <1>12, <1>13, <1>14, <1>15 DEF Poised
<1>17. (\E d \in Seq(Quiet) : v.out = s.out \o d) /\ ReadText(Seen(v)) = ReadText(Seen(s))
  BY <1>8, <1>12, <1>14 DEF Ready
<1> QED
  BY <1>10, <1>11, <1>12, <1>16, <1>17 DEF Led

(* A byte as it is written, and as a reader that is ready for it takes it. *)
LEMMA MaskedIs ==
  ASSUME NEW lc \in Lead, NEW s, Poised(s, lc), NEW c \in {"B+", "C+"}, NEW m, m = Mask(s, c),
         NEW z \in Readers, z.g = s.g, z.shifted = s.shifted, z.single = Single(s)
  PROVE  m \in Quiet /\ m \in Bytes /\ m \notin Controls /\ High(m) = c /\ CharsetFor(z, m) = lc
<1>1. m \in {"B", "C", "B+", "C+"} /\ m = IF s.in = 0 \/ Flag(s, "seven") THEN Low(c) ELSE c
  BY DEF Mask, Low
<1>2. High(m) = c
  <2>1. High("B") = "B+" /\ High("C") = "C+" /\ High("B+") = "B+" /\ High("C+") = "C+"
    BY DEF High
  <2>2. Low("B+") = "B" /\ Low("C+") = "C"
    BY DEF Low
  <2> QED
    BY <1>1, <2>1, <2>2
<1>3. m \in Quiet /\ m \in Bytes /\ m \notin Controls
  BY <1>1, QuietSigns, SignsAre, Zenon DEF Controls, Cntl
<1>4. s.in \in Slots /\ s.g[s.in] = lc /\ s.shifted \in BOOLEAN
  BY WriterFields DEF Poised
<1>5. s.in = 0 \/ s.in = 1 \/ s.in = 2 \/ s.in = 3
  BY <1>4, Slot
<1>6. "B" \in Ascii /\ "C" \in Ascii /\ "B+" \notin Ascii /\ "C+" \notin Ascii
  BY DEF Ascii, Cntl
<1>7. SetFor(z, m) = lc
  <2>1. CASE s.in = 0
    <3>1. m \in Ascii /\ z.shifted = FALSE /\ z.single = 0
      BY <1>1, <1>6, <2>1 DEF Poised, Single, Low
    <3> QED
      BY <1>4, <2>1, <3>1 DEF SetFor
  <2>2. CASE s.in = 1
    <3>1. z.single = 0 /\ (z.shifted <=> Flag(s, "seven"))
      BY <2>2 DEF Poised, Single
    <3>2. z.shifted \/ m \notin Ascii
      BY <1>1, <1>6, <2>2, <3>1
    <3> QED
      BY <1>4, <2>2, <3>1, <3>2 DEF SetFor
  <2>3. CASE s.in \in {2, 3}
    <3>1. z.single = s.in /\ z.single # 0
      BY <2>3 DEF Single
    <3> QED
      BY <1>4, <3>1 DEF SetFor
  <2> QED
    BY <1>5, <2>1, <2>2, <2>3
<1>8. lc # Inv /\ m # "SP"
  BY <1>1, CharsetsAre
<1>9. CharsetFor(z, m) = lc
  BY <1>7, <1>8 DEF CharsetFor
<1> QED
  BY <1>2, <1>3, <1>9

(* The bytes of a character are sent, and the reader takes them for it.    *)
MarkAfter(s) == IF s.cmp = "nonascii" THEN "lead" ELSE s.cmp
Sent(s, b) == IF s.cmp = "nonascii" THEN [Emit(s, b) EXCEPT !.cmp = "lead"] ELSE Emit(s, b)

Takes(z, b, x) == GetAll(z, b) = Emit([Settled(z) EXCEPT !.single = 0], x)

LEMMA Delivered ==
  ASSUME NEW lc, NEW s, Poised(s, lc), NEW b \in Seq(Quiet), NEW x \in Seq(Bytes), Takes(Seen(s), b, x)
  PROVE  \E v : v = Sent(s, b) /\ Says(s, v, x) /\ v.cmp = MarkAfter(s)
<1>1. s \in Writers /\ System[s.code].type = "iso" /\ s.code # "ss3_7" /\ s.ch = <<>> /\ Sound(s)
  BY DEF Poised
<1>2. b \in Seq(Bytes)
  BY QuietJoined
<1>3. PICK e : e = Emit(s, b)
  OBVIOUS
<1>4. /\ e \in Writers /\ e.out = s.out \o b /\ e.code = s.code /\ e.eol = s.eol /\ e.g = s.g
      /\ e.announce = s.announce /\ e.in = s.in /\ e.shifted = s.shifted /\ e.rtl = s.rtl
      /\ e.cmp = s.cmp /\ e.ch = s.ch
  <2>1. s \in Writers
    BY <1>1
  <2>2. \A v : v = Emit(s, b) =>
           /\ v \in Writers /\ v.out = s.out \o b /\ v.code = s.code /\ v.eol = s.eol /\ v.g = s.g
           /\ v.announce = s.announce /\ v.in = s.in /\ v.shifted = s.shifted /\ v.rtl = s.rtl
           /\ v.cmp = s.cmp /\ v.ch = s.ch
    BY <1>2, <2>1, WriterEmit
  <2> QED
    BY <1>3, <2>2
<1>5. PICK v : v = Sent(s, b)
  OBVIOUS
<1>6. v = IF s.cmp = "nonascii" THEN [e EXCEPT !.cmp = "lead"] ELSE e
  BY <1>3, <1>5 DEF Sent
<1>7. /\ v \in Writers /\ v.out = s.out \o b /\ v.code = s.code /\ v.eol = s.eol /\ v.g = s.g
      /\ v.shifted = s.shifted /\ v.rtl = s.rtl /\ v.cmp = MarkAfter(s) /\ v.ch = <<>>
  <2>1. "lead" \in Marks
    BY DEF Marks
  <2> QED
    BY <1>1, <1>4, <1>6, <2>1 DEF Writers, MarkAfter
<1>8. Sound(v)
  BY <1>1, <1>7 DEF Sound, Flag
<1>9. PICK z \in Readers :
       /\ z = Seen(s) /\ z.esc = <<>> /\ z.ch = <<>>
       /\ z.code = s.code /\ z.eol = s.eol /\ z.g = s.g /\ z.shifted = s.shifted /\ z.rtl = s.rtl
       /\ z.cmp = (s.cmp # "no")
  BY DEF Poised
<1>10. PICK y : y = Settled(z)
  OBVIOUS
<1>11. /\ y \in Readers /\ y.cr = FALSE /\ y.out = ReadText(z) /\ y.code = z.code /\ y.eol = z.eol
       /\ y.g = z.g /\ y.esc = z.esc /\ y.shifted = z.shifted /\ y.rtl = z.rtl /\ y.cmp = z.cmp
       /\ y.ch = z.ch
  BY <1>10, SettledIs
<1>12. PICK y0 : y0 = [y EXCEPT !.single = 0]
  OBVIOUS
<1>13. /\ y0 \in Readers /\ y0.cr = FALSE /\ y0.out = y.out /\ y0.code = y.code /\ y0.eol = y.eol
       /\ y0.g = y.g /\ y0.esc = y.esc /\ y0.shifted = y.shifted /\ y0.rtl = y.rtl /\ y0.cmp = y.cmp
       /\ y0.ch = y.ch /\ y0.single = 0
  BY <1>11, <1>12 DEF Readers
<1>14. PICK y1 : y1 = Emit(y0, x)
  OBVIOUS
<1>15. /\ y1 \in Readers /\ y1.out = y0.out \o x /\ y1.code = y0.code /\ y1.eol = y0.eol
       /\ y1.g = y0.g /\ y1.esc = y0.esc /\ y1.single = y0.single /\ y1.shifted = y0.shifted
       /\ y1.rtl = y0.rtl /\ y1.cmp = y0.cmp /\ y1.ch = y0.ch /\ y1.cr = y0.cr
  <2>1. y0 \in Readers
    BY <1>13
  <2>2. \A q : q = Emit(y0, x) =>
           /\ q \in Readers /\ q.out = y0.out \o x /\ q.code = y0.code /\ q.eol = y0.eol /\ q.g = y0.g
           /\ q.esc = y0.esc /\ q.single = y0.single /\ q.shifted = y0.shifted /\ q.rtl = y0.rtl
           /\ q.cmp = y0.cmp /\ q.ch = y0.ch /\ q.cr = y0.cr
    BY <2>1, ReaderEmit
  <2> QED
    BY <1>14, <2>2
<1>16. y1 = GetAll(Seen(s), b)
  BY <1>9, <1>10, <1>12, <1>14 DEF Takes
<1>17. Seen(v) = y1
  BY <1>1, <1>2, <1>7, <1>16, SeenAfter
<1>18. (v.cmp # "no") = (s.cmp # "no")
  BY <1>7 DEF MarkAfter
<1>19. Agreeing(v, y1)
  BY <1>7, <1>9, <1>11, <1>13, <1>15, <1>18 DEF Agreeing, Calm
<1>20. InStep(v)
  BY <1>1, <1>7, <1>8, <1>17, <1>19 DEF InStep
<1>21. ReadText(Seen(v)) = ReadText(Seen(s)) \o x
  <2>1. y1.out \in Seq(Bytes) /\ y1.cr = FALSE
    BY <1>13, <1>15, ReaderFields
  <2>2. ReadText(y1) = y1.out
    BY <2>1, Nothing DEF ReadText, When
  <2> QED
    BY <1>9, <1>11, <1>13, <1>15, <1>17, <2>2
<1>22. Says(s, v, x)
  BY <1>7, <1>20, <1>21 DEF Says
<1> QED
  BY <1>5, <1>7, <1>22

(* The leading byte a reader gives a character of lc. *)
LeadOf(s, lc) == IF s.cmp # "no" THEN Set[lc].raised ELSE lc

LEMMA LeadForIs ==
  ASSUME NEW s, NEW lc, NEW m, NEW z, CharsetFor(z, m) = lc, z.cmp = (s.cmp # "no")
  PROVE  LeadFor(z, m) = << LeadOf(s, lc) >>
BY DEF LeadFor, LeadOf

LEMMA LeadOfIs ==
  ASSUME NEW s, NEW lc \in Lead
  PROVE  LeadOf(s, lc) \in Bytes
BY CharsetsAre, CharsetFields, BytesAre DEF LeadOf

LEMMA PositionSays ==
  ASSUME NEW lc \in Lead, Set[lc].bytes = 1, NEW s, Poised(s, lc), NEW c \in {"B+", "C+"}
  PROVE  \E v : v = PutPosition(s, c) /\ Says(s, v, << LeadOf(s, lc), c >>) /\ v.cmp = MarkAfter(s)
<1>1. s \in Writers /\ s.ch = <<>> /\ s.g[s.in] = lc /\ Whole(s)
  BY DEF Poised, Whole
<1>2. PICK m : m = Mask(s, c)
  OBVIOUS
<1>3. PICK z \in Readers :
       /\ z = Seen(s) /\ z.esc = <<>> /\ z.ch = <<>> /\ z.single = Single(s)
       /\ z.code = s.code /\ z.g = s.g /\ z.shifted = s.shifted /\ z.cmp = (s.cmp # "no")
  BY DEF Poised
<1>4. m \in Quiet /\ m \in Bytes /\ m \notin Controls /\ High(m) = c /\ CharsetFor(z, m) = lc
  BY <1>2, <1>3, MaskedIs
<1>5. PICK b : b = << m >>
  OBVIOUS
<1>6. b \in Seq(Quiet)
  BY <1>4, <1>5, QuietOnes
<1>7. Held(s, c) = b
  <2>1. PICK h : h = [i \in 1 .. Len(s.ch) |-> Mask(s, s.ch[i])]
    OBVIOUS
  <2>2. h = <<>>
    BY <1>1, <2>1
  <2>3. <<>> \o b = b
    BY <1>5
  <2> QED
    BY <1>2, <1>5, <2>1, <2>2, <2>3 DEF Held
<1>8. PICK x : x = << LeadOf(s, lc), c >>
  OBVIOUS
<1>9. c \in Bytes /\ LeadOf(s, lc) \in Bytes
  BY SignsAre, LeadOfIs, Zenon
<1>10. x \in Seq(Bytes) /\ << LeadOf(s, lc) >> \o << c >> = x
  BY <1>8, <1>9, TwoJoined
<1>11. GetAll(z, b) = Emit([Settled(z) EXCEPT !.single = 0], x)
  <2>1. GetAll(z, b) = Get(z, m)
    BY <1>5, GetAllOne
  <2>2. Get(z, m) = GetGraphic(z, m)
    <3>1. System[z.code].type = "iso"
      BY <1>3 DEF Poised
    <3> QED
      BY <1>3, <1>4, <3>1 DEF Get, GetIso, GetByte
  <2>3. lc # "ascii"
    BY CharsetsAre
  <2>4. GetGraphic(z, m) = Emit([Flush(Settled(z)) EXCEPT !.single = 0], LeadFor(z, m) \o << High(m) >>)
    BY <1>4, <2>3, GetGraphicIs, Zenon
  <2>5. LeadFor(z, m) \o << High(m) >> = x
    BY <1>3, <1>4, <1>10, LeadForIs
  <2>6. Flush(Settled(z)) = Settled(z)
    <3>1. PICK y : y = Settled(z)
      OBVIOUS
    <3>2. y \in Readers /\ y.ch = z.ch
      BY <3>1, SettledIs
    <3> QED
      BY <1>3, <3>1, <3>2, FlushNothing
  <2> QED
    BY <2>1, <2>2, <2>4, <2>5, <2>6
<1>12. PICK v : v = Sent(s, b) /\ Says(s, v, x) /\ v.cmp = MarkAfter(s)
  <2>1. Takes(Seen(s), b, x)
    BY <1>3, <1>11 DEF Takes
  <2> QED
    BY <1>6, <1>10, <2>1, Delivered
<1>13. [s EXCEPT !.ch = <<>>] = s
  BY <1>1 DEF Writers
<1>14. PutPosition(s, c) = v
  <2>1. PutPosition(s, c) =
          LET put == Emit([s EXCEPT !.ch = <<>>], Held(s, c))
          IN  IF ~Whole(s) THEN [s EXCEPT !.ch = <<c>>]
              ELSE IF s.cmp = "nonascii" THEN [put EXCEPT !.cmp = "lead"] ELSE put
    BY DEF PutPosition, Held, Whole, Mask
  <2>2. PutPosition(s, c) = IF s.cmp = "nonascii" THEN [Emit(s, b) EXCEPT !.cmp = "lead"] ELSE Emit(s, b)
    BY <1>1, <1>7, <1>13, <2>1
  <2> QED
    BY <1>12, <2>2 DEF Sent
<1> QED
  BY <1>8, <1>12, <1>14
LEMMA ThreeJoined ==
  ASSUME NEW a \in Bytes, NEW b \in Bytes, NEW c \in Bytes
  PROVE  << a, b, c >> \in Seq(Bytes) /\ << a >> \o << b, c >> = << a, b, c >>
<1>1. PICK x \in Seq(Bytes), y \in Seq(Bytes), z \in Seq(Bytes) : x = << a >> /\ y = << b, c >> /\ z = << a, b, c >>
  <2>1. << a >> \in Seq(Bytes) /\ << b, c >> \in Seq(Bytes) /\ << a, b, c >> \in Seq(Bytes)
    OBVIOUS
  <2> QED
    BY <2>1
<1>2. Len(x) = 1 /\ x[1] = a /\ Len(y) = 2 /\ y[1] = b /\ y[2] = c
  BY <1>1
<1>3. ASSUME NEW v \in Seq(Bytes), Len(v) = 3 PROVE v = << v[1], v[2], v[3] >>
  BY <1>3
<1>4. PICK v \in Seq(Bytes) : v = x \o y
  BY Associates
<1>5. /\ Len(v) = Len(x) + Len(y)
      /\ \A i \in 1 .. Len(x) + Len(y) : v[i] = IF i <= Len(x) THEN x[i] ELSE y[i - Len(x)]
  BY <1>4
<1>6. Len(v) = 1 + 2 /\ \A i \in 1 .. 1 + 2 : v[i] = IF i <= 1 THEN x[i] ELSE y[i - 1]
  BY <1>2, <1>5
<1>7. Len(v) = 3 /\ v[1] = a /\ v[2] = b /\ v[3] = c
  BY <1>2, <1>6
<1> QED
  BY <1>1, <1>3, <1>4, <1>7

LEMMA PositionsSay ==
  ASSUME NEW lc \in Lead, Set[lc].bytes = 2, NEW s, Poised(s, lc),
         NEW c1 \in {"B+", "C+"}, NEW c2 \in {"B+", "C+"}
  PROVE  \E v : /\ v = PutPosition(PutPosition(s, c1), c2)
                /\ Says(s, v, << LeadOf(s, lc), c1, c2 >>) /\ v.cmp = MarkAfter(s)
<1>1. s \in Writers /\ s.ch = <<>> /\ s.g[s.in] = lc /\ ~Whole(s)
  BY DEF Poised, Whole
<1>2. PICK m1, m2 : m1 = Mask(s, c1) /\ m2 = Mask(s, c2)
  OBVIOUS
<1>3. PICK z \in Readers :
       /\ z = Seen(s) /\ z.esc = <<>> /\ z.ch = <<>> /\ z.single = Single(s)
       /\ z.code = s.code /\ z.g = s.g /\ z.shifted = s.shifted /\ z.cmp = (s.cmp # "no")
  BY DEF Poised
<1>4. /\ m1 \in Quiet /\ m1 \in Bytes /\ m1 \notin Controls /\ High(m1) = c1 /\ CharsetFor(z, m1) = lc
      /\ m2 \in Quiet /\ m2 \in Bytes /\ m2 \notin Controls /\ High(m2) = c2
  BY <1>2, <1>3, MaskedIs
<1>5. PICK b : b = << m1, m2 >>
  OBVIOUS
<1>6. b \in Seq(Quiet)
  BY <1>4, <1>5, QuietOnes
<1>7. PICK s1 : s1 = [s EXCEPT !.ch = << c1 >>]
  OBVIOUS
<1>8. /\ s1.ch = << c1 >> /\ s1.code = s.code /\ s1.in = s.in /\ s1.g = s.g /\ s1.cmp = s.cmp
      /\ [s1 EXCEPT !.ch = <<>>] = s
  BY <1>1, <1>7 DEF Writers
<1>9. Held(s1, c2) = b /\ Whole(s1)
  <2>1. Mask(s1, c1) = m1 /\ Mask(s1, c2) = m2
    BY <1>2, <1>8 DEF Mask, Flag
  <2>2. PICK h : h = [i \in 1 .. Len(s1.ch) |-> Mask(s1, s1.ch[i])]
    OBVIOUS
  <2>3. PICK one : one = << c1 >>
    OBVIOUS
  <2>4. h = [i \in 1 .. 1 |-> Mask(s1, c1)]
    <3>1. Len(one) = 1 /\ \A i \in 1 .. 1 : one[i] = c1
      BY <2>3
    <3>2. s1.ch = one
      BY <1>8, <2>3
    <3> QED
      BY <2>2, <3>1, <3>2
  <2>5. h = << m1 >>
    BY <2>1, <2>4
  <2>6. << m1 >> \o << m2 >> = << m1, m2 >>
    BY <1>4, TwoJoined
  <2>7. s1.ch # <<>>
    BY <1>8
  <2> QED
    BY <1>5, <2>1, <2>2, <2>5, <2>6, <2>7 DEF Held, Whole
<1>10. PICK x : x = << LeadOf(s, lc), c1, c2 >>
  OBVIOUS
<1>11. c1 \in Bytes /\ c2 \in Bytes /\ LeadOf(s, lc) \in Bytes
  BY SignsAre, LeadOfIs, Zenon
<1>12. x \in Seq(Bytes) /\ << LeadOf(s, lc) >> \o << c1, c2 >> = x
  <2>1. PICK u \in Bytes : u = LeadOf(s, lc)
    BY <1>11
  <2>2. << u, c1, c2 >> \in Seq(Bytes) /\ << u >> \o << c1, c2 >> = << u, c1, c2 >>
    BY <1>11, ThreeJoined
  <2> QED
    BY <1>10, <2>1, <2>2
<1>13. GetAll(z, b) = Emit([Settled(z) EXCEPT !.single = 0], x)
  <2>0. \A y : y \in Readers /\ y.esc = <<>> /\ y.code = z.code =>
                 Get(y, m1) = GetGraphic(y, m1) /\ Get(y, m2) = GetGraphic(y, m2)
    <3>1. System[z.code].type = "iso"
      BY <1>3 DEF Poised
    <3> QED
      BY <1>4, <3>1 DEF Get, GetIso, GetByte
  <2>1. lc # "ascii"
    BY CharsetsAre
  <2>2. PICK y : y = Settled(z)
    OBVIOUS
  <2>3. /\ y \in Readers /\ y.cr = FALSE /\ y.code = z.code /\ y.g = z.g /\ y.esc = z.esc
        /\ y.single = z.single /\ y.shifted = z.shifted /\ y.cmp = z.cmp /\ y.ch = z.ch
    BY <2>2, SettledIs
  <2>4. GetGraphic(z, m1) = [y EXCEPT !.ch = << m1 >>]
    <3>1. CharsetFor(z, m1) = lc => GetGraphic(z, m1) = [Settled(z) EXCEPT !.ch = << m1 >>]
      <4>1. z.ch = <<>>
        BY <1>3
      <4> QED
        BY <2>1, <4>1, GetGraphicIs, Zenon
    <3> QED
      BY <1>4, <2>2, <3>1
  <2>5. PICK y1 : y1 = [y EXCEPT !.ch = << m1 >>]
    OBVIOUS
  <2>6. /\ y1 \in Readers /\ y1.cr = FALSE /\ y1.code = z.code /\ y1.g = z.g /\ y1.esc = z.esc
        /\ y1.single = z.single /\ y1.shifted = z.shifted /\ y1.cmp = z.cmp /\ y1.ch = << m1 >>
    <3>1. << m1 >> \in Seq(Bytes)
      BY <1>4, TwoJoined
    <3> QED
      BY <2>3, <2>5, <3>1 DEF Readers
  <2>7. m2 \in Quiet /\ CharsetFor(y1, m2) = lc
    <3>1. y1.g = s.g /\ y1.shifted = s.shifted /\ y1.single = Single(s)
      BY <1>3, <2>6
    <3> QED
      BY <1>2, <2>6, <3>1, MaskedIs
  <2>8. Settled(y1) = y1
    <3>1. [y1 EXCEPT !.cr = FALSE] = y1
      BY <2>6 DEF Readers
    <3> QED
      BY <2>6, <3>1 DEF Settled
  <2>9. GetGraphic(y1, m2) = Emit([y1 EXCEPT !.ch = <<>>, !.single = 0],
                                  LeadFor(y1, m2) \o << High(y1.ch[1]), High(m2) >>)
    <3>1. y1.ch # <<>>
      BY <2>6
    <3> QED
      BY <2>1, <2>7, <2>8, <3>1, GetGraphicIs, ZenonT(60)
  <2>10. y1.ch[1] = m1
    BY <2>6
  <2>11. LeadFor(y1, m2) = << LeadOf(s, lc) >>
    <3>1. y1.cmp = (s.cmp # "no")
      BY <1>3, <2>6
    <3> QED
      BY <2>7, <3>1, LeadForIs
  <2>12. [y1 EXCEPT !.ch = <<>>, !.single = 0] = [y EXCEPT !.single = 0]
    <3>1. [y1 EXCEPT !.ch = <<>>] = y
      BY <1>3, <2>3, <2>5 DEF Readers
    <3>2. [y1 EXCEPT !.ch = <<>>, !.single = 0] = [[y1 EXCEPT !.ch = <<>>] EXCEPT !.single = 0]
      BY <2>6 DEF Readers
    <3> QED
      BY <3>1, <3>2
  <2>13. GetGraphic(y1, m2) = Emit([y EXCEPT !.single = 0], x)
    BY <1>4, <1>12, <2>9, <2>10, <2>11, <2>12
  <2>14. GetAll(z, b) = Get(Get(z, m1), m2)
    BY <1>4, <1>5, GetAllTwo
  <2>15. Get(z, m1) = y1 /\ Get(y1, m2) = GetGraphic(y1, m2)
    BY <1>3, <2>0, <2>4, <2>5, <2>6
  <2> QED
    BY <2>2, <2>13, <2>14, <2>15
<1>14. PICK v : v = Sent(s, b) /\ Says(s, v, x) /\ v.cmp = MarkAfter(s)
  <2>1. Takes(Seen(s), b, x)
    BY <1>3, <1>13 DEF Takes
  <2> QED
    BY <1>6, <1>12, <2>1, Delivered
<1>15. PutPosition(s, c1) = s1
  <2>1. PutPosition(s, c1) =
          LET put == Emit([s EXCEPT !.ch = <<>>], Held(s, c1))
          IN  IF ~Whole(s) THEN [s EXCEPT !.ch = <<c1>>]
              ELSE IF s.cmp = "nonascii" THEN [put EXCEPT !.cmp = "lead"] ELSE put
    BY DEF PutPosition, Held, Whole, Mask
  <2> QED
    BY <1>1, <1>7, <2>1
<1>16. PutPosition(s1, c2) = v
  <2>1. PutPosition(s1, c2) =
          LET put == Emit([s1 EXCEPT !.ch = <<>>], Held(s1, c2))
          IN  IF ~Whole(s1) THEN [s1 EXCEPT !.ch = <<c2>>]
              ELSE IF s1.cmp = "nonascii" THEN [put EXCEPT !.cmp = "lead"] ELSE put
    BY DEF PutPosition, Held, Whole, Mask
  <2>2. PutPosition(s1, c2) = IF s.cmp = "nonascii" THEN [Emit(s, b) EXCEPT !.cmp = "lead"] ELSE Emit(s, b)
    BY <1>8, <1>9, <2>1
  <2> QED
    BY <1>14, <2>2 DEF Sent
<1> QED
  BY <1>10, <1>14, <1>15, <1>16

(* After a leading byte, what is said after it is said after what was said *)
(* before it.                                                              *)
LEMMA LedThen ==
  ASSUME NEW s, InStep(s), NEW p, NEW lc, Led(s, p, lc), NEW v, NEW t, Says(p, v, t)
  PROVE  Says(s, v, t)
<1>0. \A a, b, c \in Seq(Bytes) : (a \o b) \o c = a \o (b \o c)
  BY Associates
<1>1. PICK o \in Seq(Bytes) : o = s.out
  BY SeenText
<1>2. PICK d \in Seq(Quiet) : p.out = o \o d
  BY <1>1 DEF Led
<1>3. PICK e \in Seq(Quiet) : v.out = p.out \o e
  BY DEF Says
<1>4. d \in Seq(Bytes) /\ e \in Seq(Bytes) /\ d \o e \in Seq(Quiet)
  BY QuietJoined
<1>5. (o \o d) \o e = o \o (d \o e)
  BY <1>0, <1>4, Zenon
<1>6. v.out = s.out \o (d \o e)
  BY <1>1, <1>2, <1>3, <1>5, Zenon
<1>7. InStep(v) /\ v.code = s.code /\ v.eol = s.eol /\ ReadText(Seen(v)) = ReadText(Seen(s)) \o t
  BY DEF Says, Led
<1> QED
  BY <1>4, <1>6, <1>7 DEF Says

-----------------------------------------------------------------------------
(* ASCII: what is written before it.                                       *)
Prepared(s, c) ==
  IF c \in {"B", "C"} \/ Flag(s, "ascii-cntl") THEN Designate(ShiftIn(LeftToRight(s)), "ascii", 0)
  ELSE LeftToRight(s)

LEMMA PreparedSilent ==
  ASSUME NEW s, InStep(s), NEW c
  PROVE  \E a : /\ a = Prepared(s, c) /\ Silent(s, a) /\ a.cmp = s.cmp
                /\ a.rtl = FALSE /\ a.shifted = FALSE
                /\ a.g[0] \in Charsets /\ Set[a.g[0]].type # "96"
                /\ c \in {"B", "C"} => a.g[0] = "ascii"
<1>1. PICK d : d = LeftToRight(s) /\ Silent(s, d) /\ d.rtl = FALSE /\ d.cmp = s.cmp
  BY LeftToRightSilent
<1>2. InStep(d) /\ d.code = s.code /\ \A f : Flag(d, f) = Flag(s, f)
  BY <1>1, SilentMeans
<1>3. d \in Writers /\ Sound(d) /\ d.g \in Graphics /\ d.shifted \in BOOLEAN /\ d.code \in DOMAIN System
  BY <1>2, WriterFields DEF InStep
<1>4. CASE c \in {"B", "C"} \/ Flag(s, "ascii-cntl")
  <2>1. PICK e : e = ShiftIn(d)
    OBVIOUS
  <2>2. Silent(d, e) /\ e.shifted = FALSE /\ e.rtl = d.rtl /\ e.cmp = d.cmp
    BY <1>2, <2>1, ShiftInSilent
  <2>3. InStep(e) /\ e \in Writers
    BY <2>2, SilentMeans DEF InStep
  <2>4. PICK g \in Slots : g = 0
    BY DEF Slots
  <2>5. PICK lc \in Charsets : lc = "ascii" /\ Set[lc].type # "96"
    BY SetIs DEF Charsets
  <2>6. PICK a : /\ a = Designate(e, lc, g)
                 /\ Silent(e, a) /\ a.g = [e.g EXCEPT ![g] = lc] /\ a.g[g] = lc
                 /\ a.announce = e.announce /\ a.in = e.in /\ a.shifted = e.shifted
                 /\ a.rtl = e.rtl /\ a.cmp = e.cmp
    <3>1. /\ Ahead(e, e, g) /\ (g # 0 => System[e.code].g[g] # Inv)
          /\ g = 0 /\ ~Flag(e, "ascii-cntl") => Set[lc].type # "96"
      BY <2>3, <2>4, <2>5, AheadSelf
    <3> QED
      BY <2>3, <3>1, DesignateSilent, SMTT(20)
  <2>7. Silent(s, a)
    <3>0. \A s1, s2, s3 : InStep(s1) /\ Silent(s1, s2) /\ Silent(s2, s3) => Silent(s1, s3)
      BY SilentThen, SignSequences
    <3> QED
      BY <1>1, <1>2, <2>2, <2>6, <3>0
  <2>8. a = Prepared(s, c)
    BY <1>1, <1>4, <2>1, <2>4, <2>5, <2>6 DEF Prepared
  <2>9. a.g[0] = "ascii" /\ a.shifted = FALSE /\ a.rtl = FALSE /\ a.cmp = s.cmp
    BY <1>1, <2>2, <2>4, <2>5, <2>6
  <2>10. a.g[0] \in Charsets /\ Set[a.g[0]].type # "96"
    BY <2>5, <2>9
  <2> QED
    BY <2>7, <2>8, <2>9, <2>10
<1>5. CASE ~(c \in {"B", "C"} \/ Flag(s, "ascii-cntl"))
  <2>1. d = Prepared(s, c)
    BY <1>1, <1>5 DEF Prepared
  <2>2. ~Flag(d, "ascii-cntl")
    BY <1>2, <1>5
  <2>3. Regular(System[d.code])
    BY <1>2, <1>3, SystemsArePlausible DEF InStep
  <2>4. ~Flag(d, "seven")
    BY <2>2, <2>3 DEF Regular, Flag
  <2>5. d.shifted = FALSE /\ d.g[0] # Inv /\ Set[d.g[0]].type # "96"
    BY <1>3, <2>2, <2>4 DEF Sound
  <2>6. d.g[0] \in Charsets
    BY <1>3, <2>5 DEF Graphics, Slots
  <2> QED
    BY <1>1, <1>5, <2>1, <2>5, <2>6
<1> QED
  BY <1>4, <1>5

LEMMA PutAsciiIs ==
  ASSUME NEW s \in Writers, s.ch = <<>>, NEW c, NEW a, a = Prepared(s, c),
         NEW x, x = IF c = "LF" /\ Flag(s, "ascii-eol") THEN Reset(a) ELSE a,
         NEW v, v = In(Emit(x, IF c = "LF" THEN LineEnd(s.eol) ELSE << c >>), 0)
  PROVE  PutAscii(s, c) = IF v.cmp = "ascii" THEN [v EXCEPT !.cmp = "lead"] ELSE v
<1>1. [s EXCEPT !.ch = <<>>] = s
  BY DEF Writers
<1> QED
  BY <1>1 DEF PutAscii, Prepared

LEMMA EmitIn ==
  ASSUME NEW a \in Writers, NEW b \in Seq(Bytes)
  PROVE  In(Emit(a, b), 0) = Emit(In(a, 0), b)
<1>1. PICK o \in Seq(Bytes) : o = a.out
  BY WriterFields
<1>2. PICK x : x = o \o b
  OBVIOUS
<1>3. Emit(a, b) = [a EXCEPT !.out = x] /\ In(a, 0).out = o
  BY <1>1, <1>2 DEF Emit, In, Writers
<1>4. Emit(In(a, 0), b) = [In(a, 0) EXCEPT !.out = x]
  BY <1>2, <1>3 DEF Emit
<1>5. [In(a, 0) EXCEPT !.out = x] = In([a EXCEPT !.out = x], 0)
  BY DEF In, Writers
<1> QED
  BY <1>3, <1>4, <1>5

AsciiText(s, c) == IF s.cmp # "no" THEN << "A0", High(c) >> ELSE << c >>

LEMMA AsciiSays ==
  ASSUME NEW s, InStep(s), s.cmp \in {"no", "ascii"}, NEW c \in {"B", "C", "SP"}, c = "SP" => s.cmp = "no"
  PROVE  \E v : /\ v = PutAscii(s, c) /\ Says(s, v, AsciiText(s, c))
                /\ v.cmp = IF s.cmp = "ascii" THEN "lead" ELSE s.cmp
<1>1. PICK a : /\ a = Prepared(s, c) /\ Silent(s, a) /\ a.cmp = s.cmp
               /\ a.rtl = FALSE /\ a.shifted = FALSE
               /\ a.g[0] \in Charsets /\ Set[a.g[0]].type # "96"
               /\ c \in {"B", "C"} => a.g[0] = "ascii"
  BY PreparedSilent
<1>2. InStep(a) /\ a \in Writers /\ s \in Writers /\ s.ch = <<>>
  BY <1>1, SilentMeans DEF InStep
<1>3. PICK g \in Slots : g = 0
  BY DEF Slots
<1>4. PICK a0 : /\ a0 = In(a, g) /\ Silent(a, a0) /\ a0.in = g /\ a0.g = a.g /\ a0.announce = a.announce
                /\ a0.cmp = a.cmp /\ a0.shifted = a.shifted /\ a0.rtl = a.rtl
  BY <1>2, InSilent
<1>5. Ready(a, a0, a0.g[a0.in])
  <2>1. a0.in \in {0, 1} /\ a0.in # 1 /\ a0.shifted = FALSE
    BY <1>1, <1>3, <1>4
  <2> QED
    BY <1>2, <1>4, <2>1, SilentReady
<1>6. PICK lc : lc = a0.g[a0.in]
  OBVIOUS
<1>7. Poised(a0, lc) /\ a0.in = 0 /\ a0.g[0] = lc
  BY <1>3, <1>4, <1>5, <1>6 DEF Ready
<1>8. PICK z \in Readers :
       /\ z = Seen(a0) /\ z.esc = <<>> /\ z.ch = <<>> /\ z.single = 0
       /\ z.code = a0.code /\ z.g = a0.g /\ z.shifted = FALSE /\ z.cmp = (s.cmp # "no")
  BY <1>1, <1>4, <1>7 DEF Poised, Single
<1>9. c \in Ascii /\ c \notin Controls /\ c \in Bytes /\ c \in Quiet
  BY QuietSigns, SignsAre, Zenon DEF Ascii, Controls, Cntl
<1>10. CharsetFor(z, c) = "ascii"
  <2>1. SetFor(z, c) = a.g[0]
    BY <1>3, <1>4, <1>8, <1>9 DEF SetFor
  <2>2. CASE c = "SP"
    <3>1. Set[a.g[0]].type \in {"94", "94N"}
      BY <1>1, CharsetFields
    <3> QED
      BY <2>1, <2>2, <3>1 DEF CharsetFor
  <2>3. CASE c \in {"B", "C"}
    <3>1. SetFor(z, c) = "ascii" /\ c # "SP" /\ "ascii" # Inv
      BY <1>1, <2>1, <2>3 DEF Inv
    <3> QED
      BY <3>1 DEF CharsetFor
  <2> QED
    BY <2>2, <2>3
<1>11. PICK x \in Seq(Bytes) : x = AsciiText(s, c)
  <2>1. "A0" \in Bytes /\ High(c) \in Bytes
    BY <1>9, SignsAre, LowHigh, Zenon
  <2>2. << "A0", High(c) >> \in Seq(Bytes) /\ << c >> \in Seq(Bytes)
    BY <1>9, <2>1, TwoJoined
  <2> QED
    BY <2>2 DEF AsciiText
<1>12. Low(c) = c
  BY DEF Low
<1>13. PICK b : b = << c >>
  OBVIOUS
<1>14. b \in Seq(Quiet) /\ b \in Seq(Bytes)
  BY <1>9, <1>13, QuietOnes, TwoJoined
<1>15. Takes(Seen(a0), b, x)
  <2>1. GetAll(z, b) = Get(z, c)
    BY <1>13, GetAllOne
  <2>2. Get(z, c) = GetGraphic(z, c)
    <3>1. System[z.code].type = "iso"
      BY <1>7, <1>8 DEF Poised
    <3> QED
      BY <1>8, <1>9, <3>1 DEF Get, GetIso, GetByte
  <2>3. GetGraphic(z, c) = Emit([Flush(Settled(z)) EXCEPT !.single = 0],
                                IF z.cmp THEN <<"A0", High(c)>> ELSE <<Low(c)>>)
    BY <1>10, GetGraphicIs, Zenon
  <2>4. (IF z.cmp THEN <<"A0", High(c)>> ELSE <<Low(c)>>) = x
    BY <1>8, <1>11, <1>12 DEF AsciiText
  <2>5. Flush(Settled(z)) = Settled(z)
    <3>1. PICK y : y = Settled(z)
      OBVIOUS
    <3>2. y \in Readers /\ y.ch = z.ch
      BY <3>1, SettledIs
    <3> QED
      BY <1>8, <3>1, <3>2, FlushNothing
  <2> QED
    BY <1>8, <2>1, <2>2, <2>3, <2>4, <2>5 DEF Takes
<1>16. PICK v0 : v0 = Sent(a0, b) /\ Says(a0, v0, x) /\ v0.cmp = MarkAfter(a0)
  BY <1>7, <1>14, <1>15, Delivered
<1>17. a0.cmp = s.cmp /\ s.cmp # "nonascii"
  BY <1>1, <1>4
<1>18. v0 = Emit(a0, b) /\ v0.cmp = s.cmp
  BY <1>16, <1>17 DEF Sent, MarkAfter
<1>19. Says(s, v0, x)
  <2>0. \A s1, s2, s3 : InStep(s1) /\ Silent(s1, s2) /\ Says(s2, s3, x) => Says(s1, s3, x)
    BY SilentThen
  <2>1. Says(a, v0, x)
    BY <1>2, <1>4, <1>16, <2>0
  <2> QED
    BY <1>1, <2>0, <2>1
<1>20. PICK v : v = IF v0.cmp = "ascii" THEN [v0 EXCEPT !.cmp = "lead"] ELSE v0
  OBVIOUS
<1>21. PutAscii(s, c) = v
  <2>1. c # "LF"
    OBVIOUS
  <2>2. v0 = In(Emit(a, << c >>), 0)
    BY <1>2, <1>3, <1>4, <1>13, <1>14, <1>18, EmitIn
  <2>3. /\ a = IF c = "LF" /\ Flag(s, "ascii-eol") THEN Reset(a) ELSE a
        /\ v0 = In(Emit(a, IF c = "LF" THEN LineEnd(s.eol) ELSE << c >>), 0)
    BY <2>1, <2>2
  <2> QED
    BY <1>1, <1>2, <1>20, <2>3, PutAsciiIs
<1>22. CASE s.cmp = "ascii"
  <2>1. v = [v0 EXCEPT !.cmp = "lead"]
    BY <1>18, <1>20, <1>22
  <2>2. InStep(v0) /\ v0 \in Writers /\ v0.cmp # "no" /\ "lead" \in Marks
    BY <1>18, <1>19, <1>22 DEF Says, InStep, Marks
  <2>3. /\ v \in Writers /\ v.code = v0.code /\ v.eol = v0.eol /\ v.ch = v0.ch /\ v.g = v0.g
        /\ v.shifted = v0.shifted /\ v.rtl = v0.rtl /\ v.out = v0.out /\ v.cmp = "lead"
    BY <2>1, <2>2 DEF Writers
  <2>4. Silent(v0, v)
    <3>1. (v.cmp # "no") = (v0.cmp # "no")
      BY <2>2, <2>3
    <3> QED
      BY <2>2, <2>3, <3>1, SilentSame
  <2>5. Says(s, v, x)
    BY <1>19, <2>4, SilentThen
  <2> QED
    BY <1>11, <1>21, <1>22, <2>3, <2>5
<1>23. CASE s.cmp # "ascii"
  <2>1. v = v0
    BY <1>18, <1>20, <1>23
  <2> QED
    BY <1>11, <1>18, <1>19, <1>21, <1>23, <2>1
<1> QED
  BY <1>22, <1>23

(* Line ends. *)
LEMMA ReadsLineEnd ==
  ASSUME NEW z, Calm(z), System[z.code].type = "iso", NEW e, e = z.eol, e \in AnyEnd
  PROVE  GetAll(z, LineEnd(e)) = Emit(Settled(z), <<"LF">>)
<1>1. PICK y : y = Settled(z)
  OBVIOUS
<1>2. y \in Readers /\ y.cr = FALSE /\ y.eol = z.eol /\ y.code = z.code /\ Calm(y) /\ z \in Readers
  BY <1>1, SettledIs, SettledCalm DEF Calm
<1>3. "LF" \in Controls /\ "CR" \in Controls
  BY DEF Controls, Cntl
<1>4. [y EXCEPT !.cr = FALSE] = y
  BY <1>2 DEF Readers
<1>5. ASSUME NEW q, Calm(q), [q EXCEPT !.cr = FALSE] = y, q.code = z.code
      PROVE  Get(q, "LF") = Emit(y, <<"LF">>)
  <2>1. PICK u : u = IF "LF" = "LF" THEN [q EXCEPT !.cr = FALSE] ELSE Settled(q)
    OBVIOUS
  <2>2. u = y
    BY <1>5, <2>1
  <2>3. PICK c : c = "LF"
    OBVIOUS
  <2>4. /\ c # "ESC" /\ c # "CSI" /\ c \notin {"SO", "SI"} /\ c # "SS2" /\ c # "SS3" /\ c # "CR"
        /\ u = IF c = "LF" THEN [q EXCEPT !.cr = FALSE] ELSE Settled(q)
    BY <2>1, <2>3
  <2>5. GetControl(q, c) =
           CASE c = "ESC" -> [u EXCEPT !.esc = <<"ESC">>]
             [] c = "CSI" -> [u EXCEPT !.esc = <<"ESC", "[">>]
             [] c \in {"SO", "SI"} /\ q.g[1] # Inv -> [u EXCEPT !.shifted = (c = "SO")]
             [] c = "SS2" /\ q.g[2] # Inv -> [u EXCEPT !.single = 2]
             [] c = "SS3" /\ q.g[3] # Inv -> [u EXCEPT !.single = 3]
             [] c = "CR" /\ q.eol = "CR" -> Emit(u, <<"LF">>)
             [] c = "CR" /\ q.eol = "CRLF" -> [u EXCEPT !.cr = TRUE]
             [] OTHER -> Emit(u, << c >>)
    BY <1>5, <2>4, ControlIs
  <2>6. GetControl(q, c) = Emit(u, << c >>)
    BY <2>4, <2>5
  <2>7. Get(q, "LF") = GetControl(q, "LF")
    BY <1>3, <1>5, GetsControl
  <2> QED
    BY <2>2, <2>3, <2>6, <2>7
<1>6. /\ e = "CR" => Get(z, "CR") = Emit(y, <<"LF">>)
      /\ e = "CRLF" => Get(z, "CR") = [y EXCEPT !.cr = TRUE]
  <2>3. PICK c : c = "CR"
    OBVIOUS
  <2>4. /\ c # "ESC" /\ c # "CSI" /\ c \notin {"SO", "SI"} /\ c # "SS2" /\ c # "SS3"
        /\ y = IF c = "LF" THEN [z EXCEPT !.cr = FALSE] ELSE Settled(z)
    BY <1>1, <2>3
  <2>5. GetControl(z, c) =
           CASE c = "ESC" -> [y EXCEPT !.esc = <<"ESC">>]
             [] c = "CSI" -> [y EXCEPT !.esc = <<"ESC", "[">>]
             [] c \in {"SO", "SI"} /\ z.g[1] # Inv -> [y EXCEPT !.shifted = (c = "SO")]
             [] c = "SS2" /\ z.g[2] # Inv -> [y EXCEPT !.single = 2]
             [] c = "SS3" /\ z.g[3] # Inv -> [y EXCEPT !.single = 3]
             [] c = "CR" /\ z.eol = "CR" -> Emit(y, <<"LF">>)
             [] c = "CR" /\ z.eol = "CRLF" -> [y EXCEPT !.cr = TRUE]
             [] OTHER -> Emit(y, << c >>)
    BY <2>4, ControlIs
  <2>6. Get(z, "CR") = GetControl(z, "CR")
    BY <1>3, GetsControl
  <2> QED
    BY <2>3, <2>4, <2>5, <2>6
<1>7. CASE e = "LF"
  <2>1. [z EXCEPT !.cr = FALSE] = y
    <3>1. z.cr = FALSE
      BY <1>7, ReaderFields DEF Calm
    <3>2. [z EXCEPT !.cr = FALSE] = z
      BY <1>2, <3>1 DEF Readers
    <3> QED
      BY <1>1, <3>1, <3>2 DEF Settled
  <2>2. Get(z, "LF") = Emit(y, <<"LF">>)
    BY <1>5, <2>1
  <2>3. LineEnd(e) = <<"LF">>
    BY <1>7 DEF LineEnd
  <2> QED
    BY <1>1, <2>2, <2>3, GetAllOne
<1>8. CASE e = "CR"
  <2>3. LineEnd(e) = <<"CR">>
    BY <1>8 DEF LineEnd
  <2> QED
    BY <1>1, <1>6, <1>8, <2>3, GetAllOne
<1>9. CASE e = "CRLF"
  <2>1. PICK q : q = [y EXCEPT !.cr = TRUE]
    OBVIOUS
  <2>2. Calm(q) /\ [q EXCEPT !.cr = FALSE] = y /\ q.code = z.code
    <3>1. q \in Readers /\ q.esc = <<>> /\ q.ch = <<>> /\ q.single = 0 /\ q.eol = y.eol /\ q.code = y.code
      BY <1>2, <2>1 DEF Calm, Readers
    <3>2. [q EXCEPT !.cr = FALSE] = y
      BY <1>2, <2>1 DEF Readers
    <3> QED
      BY <1>2, <1>9, <3>1, <3>2 DEF Calm
  <2>3. Get(q, "LF") = Emit(y, <<"LF">>)
    BY <1>5, <2>2
  <2>4. LineEnd(e) = <<"CR", "LF">>
    BY <1>9 DEF LineEnd
  <2>5. PICK a \in Bytes, b \in Bytes : a = "CR" /\ b = "LF"
    BY SignsAre, Zenon
  <2>6. GetAll(z, << a, b >>) = Get(Get(z, a), b)
    BY GetAllTwo
  <2>7. Get(z, a) = q
    BY <1>6, <1>9, <2>1, <2>5
  <2>8. GetAll(z, << a, b >>) = Emit(y, <<"LF">>)
    BY <2>3, <2>5, <2>6, <2>7
  <2> QED
    BY <1>1, <2>4, <2>5, <2>8
<1> QED
  BY <1>7, <1>8, <1>9 DEF AnyEnd

LEMMA ReadsCR ==
  ASSUME NEW z, Calm(z), System[z.code].type = "iso", NEW e, e = z.eol, e \in {"LF", "CRLF"}
  PROVE  Get(z, "CR") = IF e = "CRLF" THEN [Settled(z) EXCEPT !.cr = TRUE] ELSE Emit(Settled(z), <<"CR">>)
<1>1. PICK y : y = Settled(z)
  OBVIOUS
<1>2. PICK c : c = "CR"
  OBVIOUS
<1>3. /\ c # "ESC" /\ c # "CSI" /\ c \notin {"SO", "SI"} /\ c # "SS2" /\ c # "SS3"
      /\ y = IF c = "LF" THEN [z EXCEPT !.cr = FALSE] ELSE Settled(z)
  BY <1>1, <1>2
<1>4. GetControl(z, c) =
         CASE c = "ESC" -> [y EXCEPT !.esc = <<"ESC">>]
           [] c = "CSI" -> [y EXCEPT !.esc = <<"ESC", "[">>]
           [] c \in {"SO", "SI"} /\ z.g[1] # Inv -> [y EXCEPT !.shifted = (c = "SO")]
           [] c = "SS2" /\ z.g[2] # Inv -> [y EXCEPT !.single = 2]
           [] c = "SS3" /\ z.g[3] # Inv -> [y EXCEPT !.single = 3]
           [] c = "CR" /\ z.eol = "CR" -> Emit(y, <<"LF">>)
           [] c = "CR" /\ z.eol = "CRLF" -> [y EXCEPT !.cr = TRUE]
           [] OTHER -> Emit(y, << c >>)
  BY <1>3, ControlIs
<1>5. Get(z, "CR") = GetControl(z, "CR")
  <2>1. "CR" \in Controls
    BY DEF Controls, Cntl
  <2> QED
    BY <2>1, GetsControl
<1>6. z.eol # "CR" /\ (z.eol = "CRLF" <=> e = "CRLF")
  OBVIOUS
<1>7. GetControl(z, c) = IF e = "CRLF" THEN [y EXCEPT !.cr = TRUE] ELSE Emit(y, << c >>)
  BY <1>2, <1>3, <1>4, <1>6
<1> QED
  BY <1>1, <1>2, <1>5, <1>7

Finishes(s, v, e, t) ==
  /\ InStep(v) /\ v.cmp = "no" /\ v.code = s.code /\ v.eol = s.eol
  /\ \E d \in Seq(Quiet) : v.out = (s.out \o d) \o e
  /\ ReadText(Seen(v)) = ReadText(Seen(s)) \o t
Resembles(z, y) ==
  /\ Calm(z) /\ z.code = y.code /\ z.eol = y.eol /\ z.g = y.g /\ z.shifted = y.shifted
  /\ z.rtl = y.rtl /\ z.cmp = y.cmp
Lands(y, e, t) == Resembles(GetAll(y, e), y) /\ ReadText(GetAll(y, e)) = ReadText(y) \o t

LEMMA FinishIs ==
  ASSUME NEW s, InStep(s), NEW a, Silent(s, a), a.cmp = "no", NEW e \in Seq(Bytes), NEW t,
         Lands(Seen(a), e, t)
  PROVE  \E v : /\ v = In(Emit(a, e), 0) /\ Finishes(s, v, e, t) /\ Seen(v) = GetAll(Seen(a), e)
                /\ v.g = a.g /\ v.shifted = a.shifted /\ v.rtl = a.rtl
<1>1. /\ InStep(a) /\ a.code = s.code /\ a.eol = s.eol
      /\ \E d \in Seq(Quiet) : a.out = s.out \o d
      /\ ReadText(Seen(a)) = ReadText(Seen(s)) \o <<>>
  BY DEF Silent, Says
<1>2. ReadText(Seen(a)) = ReadText(Seen(s))
  BY <1>1, SeenText
<1>3. /\ a \in Writers /\ System[a.code].type = "iso" /\ a.code # "ss3_7" /\ a.ch = <<>>
      /\ Agreeing(a, Seen(a)) /\ Sound(a)
  BY <1>1 DEF InStep
<1>4. PICK z : z = GetAll(Seen(a), e)
  OBVIOUS
<1>5. PICK x : x = Emit(a, e)
  OBVIOUS
<1>6. /\ x \in Writers /\ x.out = a.out \o e /\ x.code = a.code /\ x.eol = a.eol /\ x.g = a.g
      /\ x.announce = a.announce /\ x.in = a.in /\ x.shifted = a.shifted /\ x.rtl = a.rtl
      /\ x.cmp = a.cmp /\ x.ch = a.ch
  <2>1. \A v : v = Emit(a, e) =>
           /\ v \in Writers /\ v.out = a.out \o e /\ v.code = a.code /\ v.eol = a.eol /\ v.g = a.g
           /\ v.announce = a.announce /\ v.in = a.in /\ v.shifted = a.shifted /\ v.rtl = a.rtl
           /\ v.cmp = a.cmp /\ v.ch = a.ch
    BY <1>3, WriterEmit
  <2> QED
    BY <1>5, <2>1
<1>7. PICK v : v = In(x, 0)
  OBVIOUS
<1>8. /\ v \in Writers /\ v.out = a.out \o e /\ v.code = a.code /\ v.eol = a.eol /\ v.g = a.g
      /\ v.shifted = a.shifted /\ v.rtl = a.rtl /\ v.cmp = "no" /\ v.ch = <<>>
  <2>1. 0 \in Slots
    BY DEF Slots
  <2> QED
    BY <1>3, <1>6, <1>7, <2>1 DEF In, Writers
<1>9. Seen(v) = z
  BY <1>3, <1>4, <1>8, SeenAfter
<1>10. Agreeing(v, z)
  BY <1>3, <1>4, <1>8 DEF Agreeing, Resembles, Lands
<1>11. Sound(v)
  BY <1>3, <1>8 DEF Sound, Flag
<1>12. InStep(v)
  BY <1>3, <1>8, <1>9, <1>10, <1>11 DEF InStep
<1>13. Finishes(s, v, e, t)
  BY <1>1, <1>2, <1>4, <1>8, <1>9, <1>12 DEF Finishes, Lands
<1> QED
  BY <1>4, <1>5, <1>7, <1>8, <1>9, <1>13

Started(c, e, o, cr) == [NewReader(c, e) EXCEPT !.out = o, !.cr = cr]
Fresh(c, e, o) == [NewReader(c, e) EXCEPT !.out = o]

LEMMA NewReaderHas ==
  ASSUME NEW c, NEW e, NEW o
  PROVE  Started(c, e, o, FALSE) = Fresh(c, e, o)
<1>1. PICK q : q = NewReader(c, e)
  OBVIOUS
<1>2. q = [code |-> c, eol |-> e, g |-> System[c].g, esc |-> <<>>, single |-> 0, shifted |-> FALSE,
           rtl |-> FALSE, cmp |-> FALSE, cr |-> FALSE, ch |-> <<>>, out |-> <<>>]
  BY <1>1 DEF NewReader
<1>3. PICK x, y : x = [q EXCEPT !.out = o, !.cr = FALSE] /\ y = [q EXCEPT !.out = o]
  BY Zenon
<1>4. x = y
  <2>1. x = [code |-> c, eol |-> e, g |-> System[c].g, esc |-> <<>>, single |-> 0, shifted |-> FALSE,
             rtl |-> FALSE, cmp |-> FALSE, cr |-> FALSE, ch |-> <<>>, out |-> o]
    BY <1>2, <1>3
  <2>2. y = [code |-> c, eol |-> e, g |-> System[c].g, esc |-> <<>>, single |-> 0, shifted |-> FALSE,
             rtl |-> FALSE, cmp |-> FALSE, cr |-> FALSE, ch |-> <<>>, out |-> o]
    BY <1>2, <1>3
  <2> QED
    BY <2>1, <2>2
<1> QED
  BY <1>1, <1>3, <1>4 DEF Started, Fresh

LEMMA LineFeedPut ==
  ASSUME NEW s, InStep(s), s.cmp = "no"
  PROVE  \E v : /\ v = PutAscii(s, "LF") /\ Finishes(s, v, LineEnd(s.eol), <<"LF">>)
                /\ Seen(v) = [NewReader(v.code, v.eol) EXCEPT !.out = Seen(v).out]
<1>1. PICK c : c = "LF"
  OBVIOUS
<1>2. PICK a : /\ a = Prepared(s, c) /\ Silent(s, a) /\ a.cmp = s.cmp
  BY PreparedSilent, ZenonT(60)
<1>3. InStep(a) /\ s \in Writers /\ s.ch = <<>> /\ s.eol \in AnyEnd /\ s.code \in DOMAIN System
  BY <1>2, SilentMeans, WriterFields DEF InStep
<1>4. PICK x : /\ x = Reset(a) /\ Silent(a, x) /\ x.g = System[a.code].g
               /\ x.shifted = FALSE /\ x.rtl = FALSE /\ x.cmp = "no" /\ x.in = 0
  BY <1>3, ResetSilent
<1>5. Silent(s, x) /\ InStep(x) /\ x.code = s.code /\ x.eol = s.eol /\ a.code = s.code
  <2>1. \A s1, s2, s3 : InStep(s1) /\ Silent(s1, s2) /\ Silent(s2, s3) => Silent(s1, s3)
    BY SilentThen, SignSequences
  <2> QED
    BY <1>2, <1>4, <2>1, SilentMeans
<1>6. PICK e \in Seq(Bytes) : e = LineEnd(s.eol)
  BY <1>3, LineEndIs
<1>7. PICK y : y = Settled(Seen(x))
  OBVIOUS
<1>8. /\ Calm(Seen(x)) /\ System[Seen(x).code].type = "iso" /\ Seen(x).eol = s.eol
      /\ Seen(x) \in Readers /\ Calm(y) /\ y \in Readers
      /\ y.code = Seen(x).code /\ y.eol = Seen(x).eol /\ y.g = Seen(x).g
      /\ y.shifted = Seen(x).shifted /\ y.rtl = Seen(x).rtl /\ y.cmp = Seen(x).cmp
      /\ y.out = ReadText(Seen(x)) /\ y.cr = FALSE
  <2>1. Calm(Seen(x)) /\ System[Seen(x).code].type = "iso" /\ Seen(x).eol = x.eol
    BY <1>5, Following
  <2>2. Seen(x) \in Readers
    BY <2>1 DEF Calm
  <2>3. Calm(y)
    BY <1>7, <2>1, SettledCalm
  <2> QED
    BY <1>5, <1>7, <2>1, <2>2, <2>3, SettledIs
<1>9. PICK n \in Seq(Bytes) : n = <<"LF">>
  BY SignSequences
<1>10. PICK z : z = Emit(y, n)
  OBVIOUS
<1>11. /\ z \in Readers /\ z.out = y.out \o n /\ z.code = y.code /\ z.eol = y.eol /\ z.g = y.g
       /\ z.esc = y.esc /\ z.single = y.single /\ z.shifted = y.shifted /\ z.rtl = y.rtl
       /\ z.cmp = y.cmp /\ z.ch = y.ch /\ z.cr = y.cr
  <2>1. \A v : v = Emit(y, n) =>
           /\ v \in Readers /\ v.out = y.out \o n /\ v.code = y.code /\ v.eol = y.eol /\ v.g = y.g
           /\ v.esc = y.esc /\ v.single = y.single /\ v.shifted = y.shifted /\ v.rtl = y.rtl
           /\ v.cmp = y.cmp /\ v.ch = y.ch /\ v.cr = y.cr
    BY <1>8, ReaderEmit
  <2> QED
    BY <1>10, <2>1
<1>12. z = GetAll(Seen(x), e)
  BY <1>3, <1>6, <1>7, <1>8, <1>9, <1>10, ReadsLineEnd
<1>13. Resembles(z, Seen(x))
  BY <1>8, <1>11 DEF Resembles, Calm
<1>14. ReadText(z) = ReadText(Seen(x)) \o n
  <2>1. z.out \in Seq(Bytes) /\ z.cr = FALSE
    BY <1>8, <1>11, ReaderFields
  <2>2. ReadText(z) = z.out
    BY <2>1, Nothing DEF ReadText, When
  <2> QED
    BY <1>8, <1>11, <2>2
<1>15. PICK v : /\ v = In(Emit(x, e), 0) /\ Finishes(s, v, e, n) /\ Seen(v) = GetAll(Seen(x), e)
                /\ v.g = x.g /\ v.shifted = x.shifted /\ v.rtl = x.rtl
  <2>1. Lands(Seen(x), e, n)
    BY <1>12, <1>13, <1>14 DEF Lands
  <2> QED
    BY <1>4, <1>5, <2>1, FinishIs
<1>16. PutAscii(s, c) = v
  <2>1. Flag(s, "ascii-eol")
    <3>1. Regular(System[s.code])
      BY <1>3, SystemsArePlausible DEF InStep
    <3> QED
      BY <3>1 DEF Regular, Flag
  <2>2. /\ x = IF c = "LF" /\ Flag(s, "ascii-eol") THEN Reset(a) ELSE a
        /\ v = In(Emit(x, IF c = "LF" THEN LineEnd(s.eol) ELSE << c >>), 0)
    BY <1>1, <1>4, <1>6, <1>15, <2>1
  <2>3. PutAscii(s, c) = IF v.cmp = "ascii" THEN [v EXCEPT !.cmp = "lead"] ELSE v
    BY <1>2, <1>3, <2>2, PutAsciiIs
  <2>4. v.cmp = "no"
    BY <1>15 DEF Finishes
  <2> QED
    BY <2>3, <2>4
<1>17. Seen(v) = [NewReader(v.code, v.eol) EXCEPT !.out = Seen(v).out]
  <2>1. InStep(v) /\ v.cmp = "no" /\ v.code = s.code
    BY <1>15 DEF Finishes
  <2>2. v.g = System[v.code].g /\ v.shifted = FALSE /\ v.rtl = FALSE
    BY <1>4, <1>5, <1>15, <2>1
  <2>3. Seen(v) = [NewReader(v.code, v.eol) EXCEPT !.out = Seen(v).out, !.cr = Seen(v).cr]
    BY <2>1, <2>2, FreshReader, Zenon
  <2>4. Seen(v).cr = FALSE
    BY <1>8, <1>11, <1>12, <1>15
  <2>5. PICK o : o = Seen(v).out
    OBVIOUS
  <2> QED
    <3>1. Started(v.code, v.eol, o, FALSE) = Fresh(v.code, v.eol, o)
      BY NewReaderHas
    <3> QED
      BY <2>3, <2>4, <2>5, <3>1 DEF Started, Fresh
<1> QED
  BY <1>1, <1>6, <1>9, <1>15, <1>16, <1>17

LEMMA ReturnPut ==
  ASSUME NEW s, InStep(s), s.cmp = "no", s.eol # "CR"
  PROVE  \E v : v = PutAscii(s, "CR") /\ Finishes(s, v, <<"CR">>, <<"CR">>)
<1>1. PICK c : c = "CR"
  OBVIOUS
<1>2. PICK x : /\ x = Prepared(s, c) /\ Silent(s, x) /\ x.cmp = s.cmp
  BY PreparedSilent, ZenonT(60)
<1>3. InStep(x) /\ s \in Writers /\ s.ch = <<>> /\ s.eol \in AnyEnd
  BY <1>2, SilentMeans, WriterFields DEF InStep
<1>5. x.code = s.code /\ x.eol = s.eol
  BY <1>2, SilentMeans
<1>7. PICK y : y = Settled(Seen(x))
  OBVIOUS
<1>8. /\ Calm(Seen(x)) /\ System[Seen(x).code].type = "iso" /\ Seen(x).eol = s.eol
      /\ Seen(x) \in Readers /\ Calm(y) /\ y \in Readers
      /\ y.code = Seen(x).code /\ y.eol = Seen(x).eol /\ y.g = Seen(x).g
      /\ y.shifted = Seen(x).shifted /\ y.rtl = Seen(x).rtl /\ y.cmp = Seen(x).cmp
      /\ y.out = ReadText(Seen(x)) /\ y.cr = FALSE
  <2>1. Calm(Seen(x)) /\ System[Seen(x).code].type = "iso" /\ Seen(x).eol = x.eol
    BY <1>3, Following
  <2>2. Seen(x) \in Readers
    BY <2>1 DEF Calm
  <2>3. Calm(y)
    BY <1>7, <2>1, SettledCalm
  <2> QED
    BY <1>5, <1>7, <2>1, <2>2, <2>3, SettledIs, ZenonT(60)
<1>9. PICK e \in Seq(Bytes) : e = <<"CR">>
  BY SignSequences
<1>10. PICK z : z = Get(Seen(x), c)
  OBVIOUS
<1>11. z = IF s.eol = "CRLF" THEN [y EXCEPT !.cr = TRUE] ELSE Emit(y, e)
  <2>1. s.eol \in {"LF", "CRLF"}
    BY <1>3 DEF AnyEnd
  <2>2. Get(Seen(x), "CR") = IF s.eol = "CRLF" THEN [Settled(Seen(x)) EXCEPT !.cr = TRUE]
                             ELSE Emit(Settled(Seen(x)), <<"CR">>)
    BY <1>8, <2>1, ReadsCR
  <2> QED
    BY <1>1, <1>7, <1>9, <1>10, <2>2
<1>12. z = GetAll(Seen(x), e)
  BY <1>1, <1>9, <1>10, GetAllOne
<1>13. Resembles(z, Seen(x)) /\ ReadText(z) = ReadText(Seen(x)) \o e
  <2>1. CASE s.eol = "CRLF"
    <3>1. /\ z \in Readers /\ z.cr = TRUE /\ z.out = y.out /\ z.code = y.code /\ z.eol = y.eol
          /\ z.g = y.g /\ z.esc = y.esc /\ z.single = y.single /\ z.shifted = y.shifted
          /\ z.rtl = y.rtl /\ z.cmp = y.cmp /\ z.ch = y.ch
      BY <1>8, <1>11, <2>1 DEF Readers
    <3>2. Resembles(z, Seen(x))
      BY <1>8, <2>1, <3>1 DEF Resembles, Calm
    <3>3. ReadText(z) = y.out \o e
      BY <1>9, <3>1 DEF ReadText, When
    <3> QED
      BY <1>8, <3>2, <3>3
  <2>2. CASE s.eol # "CRLF"
    <3>1. /\ z \in Readers /\ z.out = y.out \o e /\ z.code = y.code /\ z.eol = y.eol /\ z.g = y.g
          /\ z.esc = y.esc /\ z.single = y.single /\ z.shifted = y.shifted /\ z.rtl = y.rtl
          /\ z.cmp = y.cmp /\ z.ch = y.ch /\ z.cr = y.cr
      <4>1. \A v : v = Emit(y, e) =>
               /\ v \in Readers /\ v.out = y.out \o e /\ v.code = y.code /\ v.eol = y.eol /\ v.g = y.g
               /\ v.esc = y.esc /\ v.single = y.single /\ v.shifted = y.shifted /\ v.rtl = y.rtl
               /\ v.cmp = y.cmp /\ v.ch = y.ch /\ v.cr = y.cr
        BY <1>8, ReaderEmit
      <4> QED
        BY <1>11, <2>2, <4>1
    <3>2. Resembles(z, Seen(x))
      BY <1>8, <3>1 DEF Resembles, Calm
    <3>3. ReadText(z) = z.out
      <4>1. z.out \in Seq(Bytes) /\ z.cr = FALSE
        BY <1>8, <3>1, ReaderFields
      <4> QED
        BY <4>1, Nothing DEF ReadText, When
    <3> QED
      BY <1>8, <3>1, <3>2, <3>3
  <2> QED
    BY <2>1, <2>2
<1>15. PICK v : v = In(Emit(x, e), 0) /\ Finishes(s, v, e, e)
  <2>1. Lands(Seen(x), e, e)
    BY <1>12, <1>13 DEF Lands
  <2>2. \E v : /\ v = In(Emit(x, e), 0) /\ Finishes(s, v, e, e) /\ Seen(v) = GetAll(Seen(x), e)
                /\ v.g = x.g /\ v.shifted = x.shifted /\ v.rtl = x.rtl
    BY <1>2, <2>1, FinishIs
  <2> QED
    BY <2>2
<1>16. PutAscii(s, c) = v
  <2>2. /\ x = IF c = "LF" /\ Flag(s, "ascii-eol") THEN Reset(x) ELSE x
        /\ v = In(Emit(x, IF c = "LF" THEN LineEnd(s.eol) ELSE << c >>), 0)
    BY <1>1, <1>9, <1>15
  <2>3. PutAscii(s, c) = IF v.cmp = "ascii" THEN [v EXCEPT !.cmp = "lead"] ELSE v
    BY <1>2, <1>3, <2>2, PutAsciiIs
  <2>4. v.cmp = "no"
    BY <1>15 DEF Finishes
  <2> QED
    BY <2>3, <2>4
<1> QED
  BY <1>1, <1>9, <1>15, <1>16

-----------------------------------------------------------------------------
(* Characters, a byte after the other.                                     *)
LEMMA PutAllParts ==
  ASSUME NEW s, NEW a \in Seq(Bytes), NEW b \in Seq(Bytes)
  PROVE  PutAll(s, a \o b) = PutAll(PutAll(s, a), b)
BY PutAllJoined

LEMMA PutAllTwo ==
  ASSUME NEW s, NEW a \in Bytes, NEW b \in Bytes
  PROVE  PutAll(s, << a, b >>) = Put(Put(s, a), b)
<1>1. PICK x \in Seq(Bytes), y \in Seq(Bytes) : x = << a >> /\ y = << b >> /\ x \o y = << a, b >>
  BY TwoJoined
<1>2. PutAll(s, x \o y) = PutAll(PutAll(s, x), y)
  BY PutAllParts
<1>3. PutAll(s, x) = Put(s, a)
  BY <1>1, PutAllOne
<1>4. PutAll(Put(s, a), y) = Put(Put(s, a), b)
  BY <1>1, PutAllOne
<1> QED
  BY <1>1, <1>2, <1>3, <1>4

LEMMA PutsIso ==
  ASSUME NEW s, System[s.code].type = "iso", NEW c, c # "END"
  PROVE  Put(s, c) = PutIso(s, c)
BY DEF Put

LEMMA PutsInside ==
  ASSUME NEW s, System[s.code].type = "iso", s.cmp \notin {"lead", "ascii"}, NEW c, c # "END"
  PROVE  Put(s, c) = PutByte(s, c)
<1>1. Put(s, c) = PutIso(s, c)
  BY PutsIso
<1>2. s.cmp # "lead" /\ s.cmp # "ascii"
  OBVIOUS
<1>3. Bare(s, c) = c
  BY <1>2 DEF Bare
<1> QED
  BY <1>1, <1>2, <1>3 DEF PutIso

LEMMA PutsBare ==
  ASSUME NEW s, InStep(s), s.cmp \in {"no", "lead"}, NEW c, c \notin RaisedLead, c # "A0", c # "END"
  PROVE  \E a : Put(s, c) = PutByte(a, c) /\ Silent(s, a) /\ a.cmp = "no"
<1>1. Put(s, c) = PutIso(s, c)
  <2>1. System[s.code].type = "iso"
    BY DEF InStep
  <2> QED
    BY <2>1, PutsIso
<1>2. Bare(s, c) = c
  <2>1. ~(s.cmp = "lead" /\ c \in RaisedLead) /\ s.cmp # "ascii"
    OBVIOUS
  <2> QED
    BY <2>1 DEF Bare
<1>3. CASE s.cmp = "lead"
  <2>1. PICK a : a = EndComposite(s) /\ Silent(s, a) /\ a.cmp = "no"
    BY EndCompositeSilent
  <2>2. Put(s, c) = PutByte(a, c)
    BY <1>1, <1>2, <1>3, <2>1 DEF PutIso
  <2> QED
    BY <2>1, <2>2
<1>4. CASE s.cmp = "no"
  <2>1. Put(s, c) = PutByte(s, c)
    BY <1>1, <1>2, <1>4 DEF PutIso
  <2>2. Silent(s, s)
    <3>1. s \in Writers
      BY DEF InStep
    <3> QED
      BY <3>1, SilentSame
  <2> QED
    BY <1>4, <2>1, <2>2
<1> QED
  BY <1>3, <1>4

LEMMA RaisedIs ==
  /\ RaisedLead = {"latin+", "hebrew+", "kana+", "jp+", "jp2+", "kr+"}
  /\ \A lc \in Lead : Set[lc].raised \in RaisedLead /\ Lowered(Set[lc].raised) = lc
<1>1. Lead = {"latin", "hebrew", "kana", "jp", "jp2", "kr"}
  BY CharsetsAre DEF Charsets
<1>2. RaisedLead = {"latin+", "hebrew+", "kana+", "jp+", "jp2+", "kr+"}
  <2>1. \A x : x \in RaisedLead <=> \E lc \in Lead : x = Set[lc].raised
    BY DEF RaisedLead
  <2> QED
    BY <1>1, <2>1, SetIs
<1>3. ASSUME NEW lc \in Lead PROVE Set[lc].raised \in RaisedLead /\ Lowered(Set[lc].raised) = lc
  <2>1. Set[lc].raised \in RaisedLead
    BY DEF RaisedLead
  <2>2. \A x \in Lead : Set[x].raised = Set[lc].raised => x = lc
    BY <1>1, SetIs
  <2>3. PICK u : u = Set[lc].raised
    OBVIOUS
  <2>4. Lowered(u) = CHOOSE x \in Lead : Set[x].raised = u
    BY DEF Lowered
  <2>5. Lowered(u) \in Lead /\ Set[Lowered(u)].raised = u
    BY <2>3, <2>4
  <2> QED
    BY <2>1, <2>2, <2>3, <2>5
<1> QED
  BY <1>2, <1>3

(* What is not a leading byte. *)
LEMMA Kinds ==
  /\ \A lc \in Lead : /\ lc \notin Ascii /\ lc # "CMP" /\ lc \notin RaisedLead /\ lc # "A0"
                      /\ lc # "END" /\ lc \in Bytes /\ Set[lc].raised # "A0" /\ Set[lc].raised # "END"
                      /\ Set[lc].raised \in Bytes
  /\ \A c \in {"B+", "C+"} : /\ c \notin Ascii /\ c # "CMP" /\ c \notin Lead /\ c # "A0" /\ c # "END"
                             /\ c \in Bytes /\ c \notin RaisedLead
  /\ \A c \in Ascii : c \notin RaisedLead /\ c # "A0" /\ c # "END" /\ c \in Bytes
  /\ "CMP" \notin Ascii /\ "CMP" \notin RaisedLead /\ "CMP" # "A0" /\ "CMP" # "END"
  /\ "A0" # "END" /\ "CMP" \in Bytes /\ "A0" \in Bytes
<1>1. Lead = {"latin", "hebrew", "kana", "jp", "jp2", "kr"}
  BY CharsetsAre DEF Charsets
<1>2. RaisedLead = {"latin+", "hebrew+", "kana+", "jp+", "jp2+", "kr+"}
  BY RaisedIs
<1>3. Ascii = {"LF", "CR", "SP", "B", "C"}
  BY DEF Ascii, Cntl
<1>4. \A lc \in Lead : lc \in Bytes /\ Set[lc].raised \in Bytes /\ Set[lc].raised \in RaisedLead
  BY CharsetsAre, BytesAre, CharsetFields, RaisedIs
<1>5. "LF" \in Bytes /\ "CR" \in Bytes /\ "SP" \in Bytes /\ "B" \in Bytes /\ "C" \in Bytes
      /\ "B+" \in Bytes /\ "C+" \in Bytes /\ "CMP" \in Bytes /\ "A0" \in Bytes
  BY SignsAre, Zenon
<1>6. \A lc \in Lead : lc \notin Ascii /\ lc # "CMP" /\ lc \notin RaisedLead /\ lc # "A0" /\ lc # "END"
  BY <1>1, <1>2, <1>3
<1>7. \A x \in RaisedLead : x # "A0" /\ x # "END"
  BY <1>2
<1>8. \A c \in {"B+", "C+"} : c \notin Ascii /\ c # "CMP" /\ c \notin Lead /\ c # "A0" /\ c # "END"
                              /\ c \notin RaisedLead
  BY <1>1, <1>2, <1>3
<1>9. \A c \in Ascii : c \notin RaisedLead /\ c # "A0" /\ c # "END"
  BY <1>2, <1>3
<1>10. "CMP" \notin Ascii /\ "CMP" \notin RaisedLead
  BY <1>2, <1>3
<1>11. \A c \in {"B+", "C+"} : c \in Bytes
  BY <1>5
<1>12. \A c \in Ascii : c \in Bytes
  BY <1>3, <1>5
<1> QED
  BY <1>4, <1>5, <1>6, <1>7, <1>8, <1>9, <1>10, <1>11, <1>12

(* The positions of a letter, after its leading byte. *)
Positions(lc) == IF Set[lc].bytes = 1 THEN <<"B+">> ELSE <<"B+", "C+">>

LEMMA PutsPosition ==
  ASSUME NEW s, System[s.code].type = "iso", s.cmp \notin {"lead", "ascii"}, NEW c \in {"B+", "C+"}
  PROVE  Put(s, c) = PutPosition(s, c)
<1>1. c \notin Ascii /\ c # "CMP" /\ c \notin Lead /\ c # "END"
  BY Kinds
<1>2. Put(s, c) = PutByte(s, c)
  BY <1>1, PutsInside
<1> QED
  BY <1>1, <1>2 DEF PutByte

LEMMA FirstPosition ==
  ASSUME NEW lc, Set[lc].bytes = 2, NEW s, Poised(s, lc), NEW c
  PROVE  PutPosition(s, c).code = s.code /\ PutPosition(s, c).cmp = s.cmp
<1>1. s \in Writers /\ s.ch = <<>> /\ s.g[s.in] = lc /\ ~Whole(s)
  BY DEF Poised, Whole
<1>2. PutPosition(s, c) =
        LET put == Emit([s EXCEPT !.ch = <<>>], Held(s, c))
        IN  IF ~Whole(s) THEN [s EXCEPT !.ch = <<c>>]
            ELSE IF s.cmp = "nonascii" THEN [put EXCEPT !.cmp = "lead"] ELSE put
  BY DEF PutPosition, Held, Whole, Mask
<1>3. PutPosition(s, c) = [s EXCEPT !.ch = << c >>]
  BY <1>1, <1>2
<1> QED
  BY <1>1, <1>3 DEF Writers

LEMMA PositionsAre ==
  ASSUME NEW lc \in Lead
  PROVE  /\ Positions(lc) \in Seq(Bytes) /\ Set[lc].bytes \in {1, 2}
         /\ \A x \in Bytes : << x >> \o Positions(lc) = IF Set[lc].bytes = 1 THEN << x, "B+" >>
                                                                        ELSE << x, "B+", "C+" >>
<1>1. Set[lc].bytes \in {1, 2}
  BY CharsetsAre, CharsetFields
<1>2. PICK b \in Bytes, c \in Bytes : b = "B+" /\ c = "C+"
  BY SignsAre, Zenon
<1>3. << b >> \in Seq(Bytes) /\ << b, c >> \in Seq(Bytes)
  BY TwoJoined
<1>4. \A x \in Bytes : << x >> \o << b >> = << x, b >> /\ << x >> \o << b, c >> = << x, b, c >>
  BY TwoJoined, ThreeJoined, Zenon
<1> QED
  BY <1>1, <1>2, <1>3, <1>4 DEF Positions

LEMMA PositionsRead ==
  ASSUME NEW lc \in Lead, NEW p, Poised(p, lc), p.cmp \in {"no", "nonascii"}
  PROVE  \E v : /\ v = PutAll(p, Positions(lc)) /\ Says(p, v, << LeadOf(p, lc) >> \o Positions(lc))
                /\ v.cmp = MarkAfter(p)
<1>1. PICK b \in Bytes, c \in Bytes : b = "B+" /\ c = "C+"
  BY SignsAre, Zenon
<1>2. LeadOf(p, lc) \in Bytes
  BY LeadOfIs
<1>3. << LeadOf(p, lc) >> \o Positions(lc) = IF Set[lc].bytes = 1 THEN << LeadOf(p, lc), b >>
                                             ELSE << LeadOf(p, lc), b, c >>
  BY <1>1, <1>2, PositionsAre
<1>4. System[p.code].type = "iso" /\ p.cmp \notin {"lead", "ascii"}
  BY DEF Poised
<1>5. Put(p, b) = PutPosition(p, b)
  BY <1>1, <1>4, PutsPosition
<1>6. CASE Set[lc].bytes = 1
  <2>1. PICK v : v = PutPosition(p, b) /\ Says(p, v, << LeadOf(p, lc), b >>) /\ v.cmp = MarkAfter(p)
    <3>1. b \in {"B+", "C+"}
      BY <1>1
    <3> QED
      BY <1>6, <3>1, PositionSays
  <2>2. PutAll(p, Positions(lc)) = v
    BY <1>1, <1>5, <1>6, <2>1, PutAllOne DEF Positions
  <2> QED
    BY <1>3, <1>6, <2>1, <2>2
<1>7. CASE Set[lc].bytes = 2
  <2>1. PICK v : /\ v = PutPosition(PutPosition(p, b), c)
                 /\ Says(p, v, << LeadOf(p, lc), b, c >>) /\ v.cmp = MarkAfter(p)
    <3>1. b \in {"B+", "C+"} /\ c \in {"B+", "C+"}
      BY <1>1
    <3> QED
      BY <1>7, <3>1, PositionsSay
  <2>2. PICK q : q = PutPosition(p, b)
    OBVIOUS
  <2>3. q.code = p.code /\ q.cmp = p.cmp
    BY <1>7, <2>2, FirstPosition
  <2>4. Put(q, c) = PutPosition(q, c)
    BY <1>1, <1>4, <2>3, PutsPosition
  <2>5. PutAll(p, << b, c >>) = Put(Put(p, b), c)
    BY PutAllTwo
  <2>6. PutAll(p, Positions(lc)) = v
    BY <1>1, <1>5, <1>7, <2>1, <2>2, <2>4, <2>5 DEF Positions
  <2>7. << LeadOf(p, lc) >> \o Positions(lc) = << LeadOf(p, lc), b, c >>
    BY <1>3, <1>7
  <2> QED
    BY <2>1, <2>6, <2>7
<1> QED
  BY <1>6, <1>7, PositionsAre

(* A leading byte and what follows it, whether the byte is written as it   *)
(* is or raised.                                                           *)
LEMMA LetterRead ==
  ASSUME NEW s, InStep(s), NEW lc \in Lead, s.cmp \in {"no", "lead"}, NEW x,
         x = (IF s.cmp = "no" THEN lc ELSE Set[lc].raised), Put(s, x) = PutLead(s, lc)
  PROVE  \E v : /\ v = PutAll(s, << x >> \o Positions(lc)) /\ Says(s, v, << x >> \o Positions(lc))
                /\ v.cmp = s.cmp
<1>1. PICK p : p = PutLead(s, lc)
  OBVIOUS
<1>2. Led(s, p, lc)
  BY <1>1, PutLeadLed
<1>3. Poised(p, lc) /\ p.cmp = IF s.cmp = "lead" THEN "nonascii" ELSE s.cmp
  BY <1>2 DEF Led
<1>4. PICK v : /\ v = PutAll(p, Positions(lc)) /\ Says(p, v, << LeadOf(p, lc) >> \o Positions(lc))
               /\ v.cmp = MarkAfter(p)
  <2>1. p.cmp \in {"no", "nonascii"}
    BY <1>3
  <2> QED
    BY <1>3, <2>1, PositionsRead
<1>5. LeadOf(p, lc) = x /\ v.cmp = s.cmp
  BY <1>3, <1>4 DEF LeadOf, MarkAfter
<1>6. Says(p, v, << x >> \o Positions(lc))
  BY <1>4, <1>5
<1>7. Says(s, v, << x >> \o Positions(lc))
  BY <1>2, <1>6, LedThen
<1>8. x \in Bytes
  BY Kinds
<1>9. << x >> \in Seq(Bytes) /\ Positions(lc) \in Seq(Bytes)
  BY <1>8, TwoJoined, PositionsAre
<1>10. PutAll(s, << x >> \o Positions(lc)) = PutAll(PutAll(s, << x >>), Positions(lc))
  BY <1>9, PutAllParts
<1>11. PutAll(s, << x >>) = p
  BY <1>1, PutAllOne
<1> QED
  BY <1>4, <1>5, <1>7, <1>10, <1>11

LEMMA LetterIs ==
  ASSUME NEW lc \in Lead
  PROVE  Letter[lc] = << lc >> \o Positions(lc)
<1>1. << lc >> \o Positions(lc) = IF Set[lc].bytes = 1 THEN << lc, "B+" >> ELSE << lc, "B+", "C+" >>
  BY Kinds, PositionsAre
<1>2. lc \in {"latin", "hebrew", "kana", "jp", "jp2", "kr"}
  BY CharsetsAre DEF Charsets
<1>3. Letter[lc] = IF lc \in {"latin", "hebrew", "kana"} THEN << lc, "B+" >> ELSE << lc, "B+", "C+" >>
  <2>1. CASE lc \in {"latin", "hebrew", "kana"}
    BY <2>1 DEF Letter
  <2>2. CASE lc \in {"jp", "jp2", "kr"}
    BY <2>2 DEF Letter
  <2> QED
    BY <1>2, <2>1, <2>2
<1>4. Set[lc].bytes = IF lc \in {"latin", "hebrew", "kana"} THEN 1 ELSE 2
  BY <1>2, SetIs
<1> QED
  <2>1. CASE lc \in {"latin", "hebrew", "kana"}
    BY <1>1, <1>3, <1>4, <2>1
  <2>2. CASE lc \notin {"latin", "hebrew", "kana"}
    <3>1. Set[lc].bytes # 1
      BY <1>4, <2>2
    <3> QED
      BY <1>1, <1>3, <2>2, <3>1
  <2> QED
    BY <2>1, <2>2

LEMMA PlainLetter ==
  ASSUME NEW s, InStep(s), s.cmp \in {"no", "lead"}, NEW lc \in Lead
  PROVE  \E v : v = PutAll(s, Letter[lc]) /\ Says(s, v, Letter[lc]) /\ v.cmp = "no"
<1>0. lc \notin RaisedLead /\ lc # "A0" /\ lc # "END" /\ lc \notin Ascii /\ lc # "CMP" /\ lc \in Bytes
  BY Kinds
<1>1. PICK a : Put(s, lc) = PutByte(a, lc) /\ Silent(s, a) /\ a.cmp = "no"
  BY <1>0, PutsBare
<1>2. InStep(a) /\ System[a.code].type = "iso"
  BY <1>1, SilentMeans DEF InStep
<1>3. PutByte(a, lc) = PutLead(a, lc)
  BY <1>0 DEF PutByte
<1>4. Put(a, lc) = PutByte(a, lc)
  BY <1>0, <1>1, <1>2, PutsInside
<1>5. PICK v : /\ v = PutAll(a, << lc >> \o Positions(lc)) /\ Says(a, v, << lc >> \o Positions(lc))
               /\ v.cmp = a.cmp
  <2>1. /\ a.cmp \in {"no", "lead"} /\ lc = (IF a.cmp = "no" THEN lc ELSE Set[lc].raised)
        /\ Put(a, lc) = PutLead(a, lc)
    BY <1>1, <1>3, <1>4
  <2> QED
    BY <1>2, <2>1, LetterRead
<1>6. << lc >> \in Seq(Bytes) /\ Positions(lc) \in Seq(Bytes)
  BY <1>0, TwoJoined, PositionsAre
<1>7. PutAll(s, << lc >> \o Positions(lc)) = v
  <2>1. \A q : PutAll(q, << lc >> \o Positions(lc)) = PutAll(PutAll(q, << lc >>), Positions(lc))
    BY <1>6, PutAllParts
  <2>2. PutAll(s, << lc >>) = Put(s, lc) /\ PutAll(a, << lc >>) = Put(a, lc)
    BY PutAllOne
  <2> QED
    BY <1>1, <1>4, <1>5, <2>1, <2>2
<1>8. PICK t \in Seq(Bytes) : t = Letter[lc] /\ t = << lc >> \o Positions(lc)
  <2>1. << lc >> \o Positions(lc) \in Seq(Bytes)
    BY <1>6, Associates
  <2> QED
    BY <2>1, LetterIs
<1>9. Says(s, v, t)
  <2>1. Says(a, v, t)
    BY <1>5, <1>8
  <2> QED
    BY <1>1, <2>1, SilentThen
<1> QED
  BY <1>1, <1>5, <1>7, <1>8, <1>9

LEMMA RaisedLetter ==
  ASSUME NEW s, InStep(s), s.cmp = "lead", NEW lc \in Lead
  PROVE  \E v : /\ v = PutAll(s, << Set[lc].raised >> \o Positions(lc))
                /\ Says(s, v, << Set[lc].raised >> \o Positions(lc)) /\ v.cmp = "lead"
<1>1. PICK x : x = Set[lc].raised
  OBVIOUS
<1>2. x \in RaisedLead /\ Lowered(x) = lc /\ x # "A0" /\ x # "END"
  BY <1>1, RaisedIs, Kinds
<1>3. lc \notin Ascii /\ lc # "CMP"
  BY Kinds
<1>4. System[s.code].type = "iso"
  BY DEF InStep
<1>5. Put(s, x) = PutIso(s, x)
  BY <1>2, <1>4, PutsIso
<1>6. Bare(s, x) = lc
  <2>1. /\ s.cmp = "lead" /\ x \in RaisedLead
        /\ s.cmp # "ascii"
    BY <1>2
  <2> QED
    BY <1>2, <2>1 DEF Bare
<1>7. PutIso(s, x) = PutByte(s, lc)
  BY <1>2, <1>6 DEF PutIso
<1>8. Put(s, x) = PutLead(s, lc)
  BY <1>3, <1>5, <1>7 DEF PutByte
<1>9. \E v : /\ v = PutAll(s, << x >> \o Positions(lc)) /\ Says(s, v, << x >> \o Positions(lc))
             /\ v.cmp = s.cmp
  <2>1. s.cmp \in {"no", "lead"} /\ x = (IF s.cmp = "no" THEN lc ELSE Set[lc].raised)
    BY <1>1
  <2> QED
    BY <1>8, <2>1, LetterRead
<1> QED
  BY <1>1, <1>9

LEMMA RaisedAscii ==
  ASSUME NEW s, InStep(s), s.cmp = "lead", NEW c \in {"B+", "C+"}
  PROVE  \E v : v = PutAll(s, << "A0", c >>) /\ Says(s, v, << "A0", c >>) /\ v.cmp = "lead"
<1>1. System[s.code].type = "iso" /\ s \in Writers
  BY DEF InStep
<1>2. PICK x \in Bytes : x = "A0" /\ x # "END"
  BY Kinds
<1>3. PICK k : k = [s EXCEPT !.cmp = "ascii"]
  OBVIOUS
<1>4. Put(s, x) = k
  <2>1. Put(s, x) = PutIso(s, x)
    BY <1>1, <1>2, PutsIso
  <2> QED
    BY <1>2, <1>3, <2>1 DEF PutIso
<1>5. /\ k \in Writers /\ k.code = s.code /\ k.eol = s.eol /\ k.ch = s.ch /\ k.g = s.g
      /\ k.shifted = s.shifted /\ k.rtl = s.rtl /\ k.out = s.out /\ k.cmp = "ascii"
  <2>1. "ascii" \in Marks
    BY DEF Marks
  <2> QED
    BY <1>1, <1>3, <2>1 DEF Writers
<1>6. Silent(s, k)
  <2>1. (k.cmp # "no") = (s.cmp # "no")
    BY <1>5
  <2> QED
    BY <1>5, <2>1, SilentSame
<1>7. InStep(k)
  BY <1>6, SilentMeans
<1>8. PICK b : b = Low(c)
  OBVIOUS
<1>9. b \in {"B", "C", "SP"} /\ b \in {"B", "C"} /\ b # "SP" /\ High(b) = c /\ b \in Ascii
  BY <1>8 DEF Low, High, Ascii
<1>10. c # "END" /\ c \in Bytes
  BY Kinds
<1>11. Put(k, c) = PutAscii(k, b)
  <2>1. Put(k, c) = PutIso(k, c)
    BY <1>1, <1>5, <1>10, PutsIso
  <2>2. Bare(k, c) = b
    <3>1. k.cmp # "lead" /\ k.cmp = "ascii"
      BY <1>5
    <3> QED
      BY <1>8, <3>1 DEF Bare
  <2>3. PutIso(k, c) = PutByte(k, b)
    BY <1>5, <2>2 DEF PutIso
  <2> QED
    BY <1>9, <2>1, <2>3 DEF PutByte
<1>12. PICK v : v = PutAscii(k, b) /\ Says(k, v, AsciiText(k, b)) /\ v.cmp = "lead"
  <2>1. k.cmp \in {"no", "ascii"} /\ (b = "SP" => k.cmp = "no")
    BY <1>5, <1>9
  <2>2. \E v : /\ v = PutAscii(k, b) /\ Says(k, v, AsciiText(k, b))
               /\ v.cmp = IF k.cmp = "ascii" THEN "lead" ELSE k.cmp
    BY <1>7, <1>9, <2>1, AsciiSays
  <2> QED
    BY <1>5, <2>2
<1>13. AsciiText(k, b) = << x, c >>
  BY <1>2, <1>5, <1>9 DEF AsciiText
<1>14. PICK t \in Seq(Bytes) : t = << x, c >>
  BY <1>10, TwoJoined
<1>15. Says(s, v, t)
  <2>1. Says(k, v, t)
    BY <1>12, <1>13, <1>14
  <2> QED
    BY <1>6, <2>1, SilentThen
<1>16. PutAll(s, << x, c >>) = v
  BY <1>4, <1>10, <1>11, <1>12, PutAllTwo
<1> QED
  BY <1>2, <1>12, <1>14, <1>15, <1>16

LEMMA BeginComposite ==
  ASSUME NEW s, InStep(s), s.cmp \in {"no", "lead"}
  PROVE  \E v : v = Put(s, "CMP") /\ Says(s, v, <<"CMP">>) /\ v.cmp = "lead"
<1>1. PICK a : Put(s, "CMP") = PutByte(a, "CMP") /\ Silent(s, a) /\ a.cmp = "no"
  BY Kinds, PutsBare
<1>2. InStep(a) /\ a \in Writers /\ a.ch = <<>> /\ Sound(a)
  BY <1>1, SilentMeans DEF InStep
<1>3. PICK b \in Seq(Quiet) : b = <<"ESC", "0">>
  BY QuietSigns, QuietOnes
<1>4. b \in Seq(Bytes)
  BY QuietJoined
<1>5. PICK x : x = Emit(a, b)
  OBVIOUS
<1>6. /\ x \in Writers /\ x.out = a.out \o b /\ x.code = a.code /\ x.eol = a.eol /\ x.g = a.g
      /\ x.shifted = a.shifted /\ x.rtl = a.rtl /\ x.ch = a.ch
  <2>1. \A v : v = Emit(a, b) =>
           /\ v \in Writers /\ v.out = a.out \o b /\ v.code = a.code /\ v.eol = a.eol /\ v.g = a.g
           /\ v.announce = a.announce /\ v.in = a.in /\ v.shifted = a.shifted /\ v.rtl = a.rtl
           /\ v.cmp = a.cmp /\ v.ch = a.ch
    BY <1>2, <1>4, WriterEmit
  <2> QED
    BY <1>5, <2>1
<1>7. PICK v : v = [x EXCEPT !.ch = <<>>, !.cmp = "lead"]
  OBVIOUS
<1>8. /\ v \in Writers /\ v.out = a.out \o b /\ v.code = a.code /\ v.eol = a.eol /\ v.g = a.g
      /\ v.shifted = a.shifted /\ v.rtl = a.rtl /\ v.ch = <<>> /\ v.cmp = "lead"
  <2>1. "lead" \in Marks /\ <<>> \in Seq(Bytes)
    BY DEF Marks
  <2> QED
    BY <1>6, <1>7, <2>1 DEF Writers
<1>9. Put(s, "CMP") = v
  <2>1. "CMP" \notin Ascii
    BY Kinds
  <2> QED
    BY <1>1, <1>3, <1>5, <1>7, <2>1 DEF PutByte
<1>10. Sound(v)
  BY <1>2, <1>8 DEF Sound, Flag
<1>11. PICK y : y = Settled(Seen(a))
  OBVIOUS
<1>12. /\ Calm(Seen(a)) /\ System[Seen(a).code].type = "iso"
       /\ Calm(y) /\ System[y.code].type = "iso" /\ y.code = a.code /\ y.eol = a.eol /\ y.g = a.g
       /\ y.shifted = a.shifted /\ y.rtl = a.rtl /\ y.cr = FALSE
       /\ y.out = ReadText(Seen(a)) /\ y.out \in Seq(Bytes) /\ y \in Readers
       /\ y.esc = <<>> /\ y.ch = <<>> /\ y.single = 0
  <2>1. InStep(a)
    BY <1>2
  <2>2. \A q : q = Settled(Seen(a)) =>
          /\ Calm(Seen(a)) /\ System[Seen(a).code].type = "iso" /\ Seen(a).g = a.g
          /\ Seen(a).code = a.code /\ Seen(a).eol = a.eol
          /\ Calm(q) /\ System[q.code].type = "iso" /\ q.code = a.code /\ q.eol = a.eol /\ q.g = a.g
          /\ q.shifted = a.shifted /\ q.rtl = a.rtl /\ q.cmp = (a.cmp # "no") /\ q.cr = FALSE
          /\ q.out = ReadText(Seen(a)) /\ q.out \in Seq(Bytes) /\ q \in Readers
          /\ q.esc = <<>> /\ q.ch = <<>> /\ q.single = 0
    BY <2>1, Following
  <2> QED
    BY <1>11, <2>2
<1>13. PICK n \in Seq(Bytes) : n = <<"CMP">>
  BY SignSequences
<1>14. PICK u : u = Emit(y, n)
  OBVIOUS
<1>15. /\ u \in Readers /\ u.out = y.out \o n /\ u.code = y.code /\ u.eol = y.eol /\ u.g = y.g
       /\ u.esc = y.esc /\ u.single = y.single /\ u.shifted = y.shifted /\ u.rtl = y.rtl
       /\ u.ch = y.ch /\ u.cr = y.cr
  <2>1. \A q : q = Emit(y, n) =>
           /\ q \in Readers /\ q.out = y.out \o n /\ q.code = y.code /\ q.eol = y.eol /\ q.g = y.g
           /\ q.esc = y.esc /\ q.single = y.single /\ q.shifted = y.shifted /\ q.rtl = y.rtl
           /\ q.cmp = y.cmp /\ q.ch = y.ch /\ q.cr = y.cr
    BY <1>12, ReaderEmit
  <2> QED
    BY <1>14, <2>1
<1>16. PICK z : z = [u EXCEPT !.cmp = TRUE]
  OBVIOUS
<1>17. /\ z \in Readers /\ z.out = y.out \o n /\ z.code = y.code /\ z.eol = y.eol /\ z.g = y.g
       /\ z.esc = y.esc /\ z.single = y.single /\ z.shifted = y.shifted /\ z.rtl = y.rtl
       /\ z.cmp = TRUE /\ z.ch = y.ch /\ z.cr = y.cr
  BY <1>15, <1>16 DEF Readers
<1>18. z = GetAll(Seen(a), b)
  <2>1. Get(Seen(a), "ESC") = Escaping(y, <<>>)
    BY <1>11, <1>12, ReadEscape
  <2>2. Get(Escaping(y, <<>>), "0") = z
    BY <1>12, <1>13, <1>14, <1>16, EscapeOfOne
  <2>3. PICK c \in Bytes, d \in Bytes : c = "ESC" /\ d = "0"
    BY SignsAre, Zenon
  <2>4. GetAll(Seen(a), <<c, d>>) = Get(Get(Seen(a), c), d)
    BY GetAllTwo
  <2> QED
    BY <1>3, <2>1, <2>2, <2>3, <2>4
<1>19. Agreeing(v, z)
  <2>1. (v.cmp # "no") = TRUE
    BY <1>8
  <2> QED
    BY <1>8, <1>12, <1>17, <2>1 DEF Agreeing, Calm
<1>20. ReadText(z) = ReadText(Seen(a)) \o n
  <2>1. z.out \in Seq(Bytes) /\ z.cr = FALSE
    BY <1>12, <1>17, ReaderFields
  <2>2. ReadText(z) = z.out
    BY <2>1, Nothing DEF ReadText, When
  <2> QED
    BY <1>12, <1>17, <2>2
<1>21. Says(a, v, n)
  BY <1>2, <1>8, <1>10, <1>18, <1>19, <1>20, Steps
<1>22. Says(s, v, n)
  BY <1>1, <1>21, SilentThen
<1> QED
  BY <1>8, <1>9, <1>13, <1>22

LEMMA FiveJoined ==
  ASSUME NEW x1 \in Bytes, NEW x2 \in Bytes, NEW x3 \in Bytes, NEW x4 \in Bytes, NEW x5 \in Bytes
  PROVE  (<< x1 >> \o << x2, x3 >>) \o << x4, x5 >> = << x1, x2, x3, x4, x5 >>
<1>1. PICK x \in Seq(Bytes), y \in Seq(Bytes) : x = << x1, x2, x3 >> /\ y = << x4, x5 >>
  <2>1. << x1, x2, x3 >> \in Seq(Bytes) /\ << x4, x5 >> \in Seq(Bytes)
    OBVIOUS
  <2> QED
    BY <2>1
<1>2. Len(x) = 3 /\ x[1] = x1 /\ x[2] = x2 /\ x[3] = x3 /\ Len(y) = 2 /\ y[1] = x4 /\ y[2] = x5
  BY <1>1
<1>3. ASSUME NEW v \in Seq(Bytes), Len(v) = 5 PROVE v = << v[1], v[2], v[3], v[4], v[5] >>
  BY <1>3
<1>4. PICK v \in Seq(Bytes) : v = x \o y
  BY Associates
<1>5. /\ Len(v) = Len(x) + Len(y)
      /\ \A i \in 1 .. Len(x) + Len(y) : v[i] = IF i <= Len(x) THEN x[i] ELSE y[i - Len(x)]
  BY <1>4
<1>6. Len(v) = 3 + 2 /\ \A i \in 1 .. 3 + 2 : v[i] = IF i <= 3 THEN x[i] ELSE y[i - 3]
  BY <1>2, <1>5
<1>7. Len(v) = 5 /\ v[1] = x1 /\ v[2] = x2 /\ v[3] = x3 /\ v[4] = x4 /\ v[5] = x5
  BY <1>2, <1>6
<1>8. << x1 >> \o << x2, x3 >> = x
  BY <1>1, ThreeJoined
<1> QED
  BY <1>1, <1>3, <1>4, <1>7, <1>8

LEMMA SixJoined ==
  ASSUME NEW x1 \in Bytes, NEW x2 \in Bytes, NEW x3 \in Bytes, NEW x4 \in Bytes, NEW x5 \in Bytes,
         NEW x6 \in Bytes
  PROVE  (<< x1 >> \o << x2, x3 >>) \o << x4, x5, x6 >> = << x1, x2, x3, x4, x5, x6 >>
<1>1. PICK x \in Seq(Bytes), y \in Seq(Bytes) : x = << x1, x2, x3 >> /\ y = << x4, x5, x6 >>
  <2>1. << x1, x2, x3 >> \in Seq(Bytes) /\ << x4, x5, x6 >> \in Seq(Bytes)
    OBVIOUS
  <2> QED
    BY <2>1
<1>2. /\ Len(x) = 3 /\ x[1] = x1 /\ x[2] = x2 /\ x[3] = x3
      /\ Len(y) = 3 /\ y[1] = x4 /\ y[2] = x5 /\ y[3] = x6
  BY <1>1
<1>3. ASSUME NEW v \in Seq(Bytes), Len(v) = 6 PROVE v = << v[1], v[2], v[3], v[4], v[5], v[6] >>
  BY <1>3
<1>4. PICK v \in Seq(Bytes) : v = x \o y
  BY Associates
<1>5. /\ Len(v) = Len(x) + Len(y)
      /\ \A i \in 1 .. Len(x) + Len(y) : v[i] = IF i <= Len(x) THEN x[i] ELSE y[i - Len(x)]
  BY <1>4
<1>6. Len(v) = 3 + 3 /\ \A i \in 1 .. 3 + 3 : v[i] = IF i <= 3 THEN x[i] ELSE y[i - 3]
  BY <1>2, <1>5
<1>7. Len(v) = 6 /\ v[1] = x1 /\ v[2] = x2 /\ v[3] = x3 /\ v[4] = x4 /\ v[5] = x5 /\ v[6] = x6
  BY <1>2, <1>6
<1>8. << x1 >> \o << x2, x3 >> = x
  BY <1>1, ThreeJoined
<1> QED
  BY <1>1, <1>3, <1>4, <1>7, <1>8

LEMMA LatinComposite ==
  ASSUME NEW s, InStep(s), s.cmp \in {"no", "lead"}, NEW t, t = <<"CMP", "latin+", "B+", "A0", "C+">>
  PROVE  \E v : v = PutAll(s, t) /\ Says(s, v, t) /\ v.cmp = "lead"
<1>1. PICK a : a = Put(s, "CMP") /\ Says(s, a, <<"CMP">>) /\ a.cmp = "lead"
  BY BeginComposite
<1>2. PICK lc \in Lead : lc = "latin" /\ Set[lc].raised = "latin+" /\ Set[lc].bytes = 1
  BY CharsetsAre, SetIs DEF Charsets
<1>3. PICK p \in Seq(Bytes) : p = << Set[lc].raised >> \o Positions(lc) /\ p = <<"latin+", "B+">>
  <2>1. Set[lc].raised \in Bytes
    BY Kinds
  <2>2. << Set[lc].raised >> \o Positions(lc) = << Set[lc].raised, "B+" >>
    BY <1>2, <2>1, PositionsAre
  <2>3. << Set[lc].raised >> \in Seq(Bytes)
    BY <2>1, TwoJoined
  <2>4. << Set[lc].raised >> \o Positions(lc) \in Seq(Bytes)
    BY <2>3, PositionsAre, Associates
  <2> QED
    BY <1>2, <2>2, <2>4
<1>4. PICK b : b = PutAll(a, p) /\ Says(a, b, p) /\ b.cmp = "lead"
  <2>1. InStep(a)
    BY <1>1 DEF Says
  <2> QED
    BY <1>1, <1>3, <2>1, RaisedLetter
<1>5. PICK q \in Seq(Bytes) : q = <<"A0", "C+">>
  <2>1. "A0" \in Bytes /\ "C+" \in Bytes
    BY SignsAre, Zenon
  <2> QED
    BY <2>1, TwoJoined
<1>6. PICK v : v = PutAll(b, q) /\ Says(b, v, q) /\ v.cmp = "lead"
  <2>1. InStep(b)
    BY <1>4 DEF Says
  <2>2. PICK c \in {"B+", "C+"} : c = "C+"
    OBVIOUS
  <2>3. \E v : v = PutAll(b, << "A0", c >>) /\ Says(b, v, << "A0", c >>) /\ v.cmp = "lead"
    BY <1>4, <2>1, RaisedAscii
  <2> QED
    BY <1>5, <2>2, <2>3
<1>7. PICK n \in Seq(Bytes) : n = <<"CMP">>
  BY SignSequences
<1>8. t = (n \o p) \o q
  <2>1. "CMP" \in Bytes /\ "latin+" \in Bytes /\ "B+" \in Bytes /\ "A0" \in Bytes /\ "C+" \in Bytes
    BY SignsAre, BytesAre, Zenon DEF Raised
  <2>2. PICK x1 \in Bytes, x2 \in Bytes, x3 \in Bytes, x4 \in Bytes, x5 \in Bytes :
          x1 = "CMP" /\ x2 = "latin+" /\ x3 = "B+" /\ x4 = "A0" /\ x5 = "C+"
    BY <2>1
  <2>3. (<< x1 >> \o << x2, x3 >>) \o << x4, x5 >> = << x1, x2, x3, x4, x5 >>
    BY FiveJoined
  <2>4. n = << x1 >> /\ p = << x2, x3 >> /\ q = << x4, x5 >> /\ t = << x1, x2, x3, x4, x5 >>
    BY <1>3, <1>5, <1>7, <2>2
  <2> QED
    BY <2>3, <2>4
<1>9. n \o p \in Seq(Bytes)
  BY Associates
<1>10. PutAll(s, t) = v
  <2>1. PutAll(s, n) = a
    BY <1>1, <1>7, PutAllOne
  <2>2. PutAll(s, n \o p) = b
    BY <1>4, <2>1, PutAllParts
  <2>3. PutAll(s, (n \o p) \o q) = PutAll(PutAll(s, n \o p), q)
    BY <1>9, PutAllParts
  <2> QED
    BY <1>6, <1>8, <2>2, <2>3
<1>11. Says(s, v, t)
  <2>1. Says(s, a, n)
    BY <1>1, <1>7
  <2>2. Says(s, b, n \o p)
    BY <1>4, <2>1, SaysThen
  <2>3. Says(s, v, (n \o p) \o q)
    BY <1>6, <1>9, <2>2, SaysThen
  <2> QED
    BY <1>8, <2>3
<1> QED
  BY <1>6, <1>10, <1>11

LEMMA KanjiComposite ==
  ASSUME NEW s, InStep(s), s.cmp \in {"no", "lead"}, NEW t, t = <<"CMP", "A0", "B+", "jp+", "B+", "C+">>
  PROVE  \E v : v = PutAll(s, t) /\ Says(s, v, t) /\ v.cmp = "lead"
<1>1. PICK a : a = Put(s, "CMP") /\ Says(s, a, <<"CMP">>) /\ a.cmp = "lead"
  BY BeginComposite
<1>2. PICK lc \in Lead : lc = "jp" /\ Set[lc].raised = "jp+" /\ Set[lc].bytes = 2
  BY CharsetsAre, SetIs DEF Charsets
<1>3. PICK q \in Seq(Bytes) : q = << Set[lc].raised >> \o Positions(lc) /\ q = <<"jp+", "B+", "C+">>
  <2>1. Set[lc].raised \in Bytes
    BY Kinds
  <2>2. << Set[lc].raised >> \o Positions(lc) = << Set[lc].raised, "B+", "C+" >>
    <3>1. Set[lc].bytes # 1
      BY <1>2
    <3> QED
      BY <2>1, <3>1, PositionsAre
  <2>3. << Set[lc].raised >> \in Seq(Bytes)
    BY <2>1, TwoJoined
  <2>4. << Set[lc].raised >> \o Positions(lc) \in Seq(Bytes)
    BY <2>3, PositionsAre, Associates
  <2> QED
    BY <1>2, <2>2, <2>4
<1>4. PICK p \in Seq(Bytes) : p = <<"A0", "B+">>
  <2>1. "A0" \in Bytes /\ "B+" \in Bytes
    BY SignsAre, Zenon
  <2> QED
    BY <2>1, TwoJoined
<1>5. PICK b : b = PutAll(a, p) /\ Says(a, b, p) /\ b.cmp = "lead"
  <2>1. InStep(a)
    BY <1>1 DEF Says
  <2>2. PICK c \in {"B+", "C+"} : c = "B+"
    OBVIOUS
  <2>3. \E v : v = PutAll(a, << "A0", c >>) /\ Says(a, v, << "A0", c >>) /\ v.cmp = "lead"
    BY <1>1, <2>1, RaisedAscii
  <2> QED
    BY <1>4, <2>2, <2>3
<1>6. PICK v : v = PutAll(b, q) /\ Says(b, v, q) /\ v.cmp = "lead"
  <2>1. InStep(b)
    BY <1>5 DEF Says
  <2> QED
    BY <1>3, <1>5, <2>1, RaisedLetter
<1>7. PICK n \in Seq(Bytes) : n = <<"CMP">>
  BY SignSequences
<1>8. t = (n \o p) \o q
  <2>1. "CMP" \in Bytes /\ "jp+" \in Bytes /\ "B+" \in Bytes /\ "A0" \in Bytes /\ "C+" \in Bytes
    BY SignsAre, BytesAre, Zenon DEF Raised
  <2>2. PICK x1 \in Bytes, x2 \in Bytes, x3 \in Bytes, x4 \in Bytes, x5 \in Bytes, x6 \in Bytes :
          x1 = "CMP" /\ x2 = "A0" /\ x3 = "B+" /\ x4 = "jp+" /\ x5 = "B+" /\ x6 = "C+"
    BY <2>1
  <2>3. (<< x1 >> \o << x2, x3 >>) \o << x4, x5, x6 >> = << x1, x2, x3, x4, x5, x6 >>
    BY SixJoined
  <2>4. n = << x1 >> /\ p = << x2, x3 >> /\ q = << x4, x5, x6 >> /\ t = << x1, x2, x3, x4, x5, x6 >>
    BY <1>3, <1>4, <1>7, <2>2
  <2> QED
    BY <2>3, <2>4
<1>9. n \o p \in Seq(Bytes)
  BY Associates
<1>10. PutAll(s, t) = v
  <2>1. PutAll(s, n) = a
    BY <1>1, <1>7, PutAllOne
  <2>2. PutAll(s, n \o p) = b
    BY <1>5, <2>1, PutAllParts
  <2>3. PutAll(s, (n \o p) \o q) = PutAll(PutAll(s, n \o p), q)
    BY <1>9, PutAllParts
  <2> QED
    BY <1>6, <1>8, <2>2, <2>3
<1>11. Says(s, v, t)
  <2>1. Says(s, a, n)
    BY <1>1, <1>7
  <2>2. Says(s, b, n \o p)
    BY <1>5, <2>1, SaysThen
  <2>3. Says(s, v, (n \o p) \o q)
    BY <1>6, <1>9, <2>2, SaysThen
  <2> QED
    BY <1>8, <2>3
<1> QED
  BY <1>6, <1>10, <1>11

LEMMA PlainAscii ==
  ASSUME NEW s, InStep(s), s.cmp \in {"no", "lead"}, NEW c \in Ascii
  PROVE  \E a : Put(s, c) = PutAscii(a, c) /\ Silent(s, a) /\ a.cmp = "no"
<1>1. c \notin RaisedLead /\ c # "A0" /\ c # "END"
  BY Kinds
<1>2. PICK a : Put(s, c) = PutByte(a, c) /\ Silent(s, a) /\ a.cmp = "no"
  BY <1>1, PutsBare
<1>3. PutByte(a, c) = PutAscii(a, c)
  BY DEF PutByte
<1> QED
  BY <1>2, <1>3

LEMMA PlainSign ==
  ASSUME NEW s, InStep(s), s.cmp \in {"no", "lead"}, NEW c \in {"B", "SP"}
  PROVE  \E v : v = PutAll(s, << c >>) /\ Says(s, v, << c >>) /\ v.cmp = "no"
<1>1. c \in Ascii /\ c \in Bytes /\ c \in {"B", "C", "SP"}
  BY SignsAre, Zenon DEF Ascii
<1>2. PICK a : Put(s, c) = PutAscii(a, c) /\ Silent(s, a) /\ a.cmp = "no"
  BY <1>1, PlainAscii
<1>3. InStep(a)
  BY <1>2, SilentMeans
<1>4. PICK v : v = PutAscii(a, c) /\ Says(a, v, AsciiText(a, c)) /\ v.cmp = "no"
  <2>1. a.cmp \in {"no", "ascii"} /\ (c = "SP" => a.cmp = "no")
    BY <1>2
  <2>2. \E v : /\ v = PutAscii(a, c) /\ Says(a, v, AsciiText(a, c))
               /\ v.cmp = IF a.cmp = "ascii" THEN "lead" ELSE a.cmp
    BY <1>1, <1>3, <2>1, AsciiSays
  <2> QED
    BY <1>2, <2>2
<1>5. PICK t \in Seq(Bytes) : t = << c >>
  BY <1>1, TwoJoined
<1>6. Says(a, v, t)
  <2>1. AsciiText(a, c) = << c >>
    BY <1>2 DEF AsciiText
  <2> QED
    BY <1>4, <1>5, <2>1
<1>7. Says(s, v, t)
  BY <1>2, <1>6, SilentThen
<1> QED
  BY <1>2, <1>4, <1>5, <1>7, PutAllOne

LEMMA PlainEnd ==
  ASSUME NEW s, InStep(s), s.cmp \in {"no", "lead"}
  PROVE  /\ \E v : /\ v = PutAll(s, <<"LF">>) /\ Finishes(s, v, LineEnd(s.eol), <<"LF">>)
                   /\ Seen(v) = [NewReader(v.code, v.eol) EXCEPT !.out = Seen(v).out]
         /\ s.eol # "CR" => \E v : v = PutAll(s, <<"CR">>) /\ Finishes(s, v, <<"CR">>, <<"CR">>)
<1>0. ASSUME NEW a, NEW v, NEW e, NEW t, Silent(s, a), Finishes(a, v, e, t)
      PROVE  Finishes(s, v, e, t)
  <2>1. PICK o \in Seq(Bytes) : o = s.out
    BY SeenText
  <2>2. /\ InStep(a) /\ a.code = s.code /\ a.eol = s.eol
        /\ ReadText(Seen(a)) = ReadText(Seen(s)) \o <<>>
    BY <1>0 DEF Silent, Says
  <2>3. ReadText(Seen(a)) = ReadText(Seen(s))
    BY <2>2, SeenText
  <2>4. PICK d \in Seq(Quiet) : a.out = o \o d
    BY <1>0, <2>1 DEF Silent, Says
  <2>5. PICK f \in Seq(Quiet) : v.out = (a.out \o f) \o e
    BY <1>0 DEF Finishes
  <2>6. d \in Seq(Bytes) /\ f \in Seq(Bytes) /\ d \o f \in Seq(Quiet)
    BY QuietJoined
  <2>7. (o \o d) \o f = o \o (d \o f)
    BY <2>6, Associates
  <2>8. v.out = (s.out \o (d \o f)) \o e
    BY <2>1, <2>4, <2>5, <2>7, Zenon
  <2> QED
    BY <1>0, <2>2, <2>3, <2>6, <2>8 DEF Finishes
<1>1. "LF" \in Ascii /\ "CR" \in Ascii
  BY DEF Ascii, Cntl
<1>2. \E v : /\ v = PutAll(s, <<"LF">>) /\ Finishes(s, v, LineEnd(s.eol), <<"LF">>)
             /\ Seen(v) = [NewReader(v.code, v.eol) EXCEPT !.out = Seen(v).out]
  <2>1. PICK a : Put(s, "LF") = PutAscii(a, "LF") /\ Silent(s, a) /\ a.cmp = "no"
    BY <1>1, PlainAscii
  <2>2. InStep(a) /\ a.eol = s.eol
    BY <2>1, SilentMeans
  <2>3. PICK v : /\ v = PutAscii(a, "LF") /\ Finishes(a, v, LineEnd(a.eol), <<"LF">>)
                 /\ Seen(v) = [NewReader(v.code, v.eol) EXCEPT !.out = Seen(v).out]
    BY <2>1, <2>2, LineFeedPut
  <2>4. Finishes(s, v, LineEnd(s.eol), <<"LF">>)
    BY <1>0, <2>1, <2>2, <2>3
  <2> QED
    BY <2>1, <2>3, <2>4, PutAllOne
<1>3. ASSUME s.eol # "CR" PROVE \E v : v = PutAll(s, <<"CR">>) /\ Finishes(s, v, <<"CR">>, <<"CR">>)
  <2>1. PICK a : Put(s, "CR") = PutAscii(a, "CR") /\ Silent(s, a) /\ a.cmp = "no"
    BY <1>1, PlainAscii
  <2>2. InStep(a) /\ a.eol # "CR"
    BY <1>3, <2>1, SilentMeans
  <2>3. PICK v : v = PutAscii(a, "CR") /\ Finishes(a, v, <<"CR">>, <<"CR">>)
    BY <2>1, <2>2, ReturnPut
  <2>4. Finishes(s, v, <<"CR">>, <<"CR">>)
    BY <1>0, <2>1, <2>3
  <2> QED
    BY <2>1, <2>3, <2>4, PutAllOne
<1> QED
  BY <1>2, <1>3


EndOf(c, e) == IF c = <<"LF">> THEN LineEnd(e) ELSE IF c = <<"CR">> THEN <<"CR">> ELSE <<>>
Blank(z) ==
  /\ z.g = System[z.code].g /\ z.esc = <<>> /\ z.single = 0 /\ z.shifted = FALSE
  /\ z.rtl = FALSE /\ z.cmp = FALSE /\ z.ch = <<>>
Boundary(s) ==
  /\ s \in Writers /\ s.ch = <<>> /\ s.code # "ss3_7"
  /\ Calm(Seen(s)) /\ Seen(s).code = s.code /\ Seen(s).eol = s.eol
  /\ IF System[s.code].type = "iso" THEN InStep(s) /\ s.cmp \in {"no", "lead"} ELSE Blank(Seen(s))
Adds(s, v, c) ==
  /\ Boundary(v) /\ v.code = s.code /\ v.eol = s.eol
  /\ \E d \in Seq(Quiet) : v.out = (s.out \o d) \o EndOf(c, s.eol)
  /\ ReadText(Seen(v)) = ReadText(Seen(s)) \o c
  /\ c = <<"LF">> => Seen(v) = Fresh(v.code, v.eol, Seen(v).out)

LEMMA InStepBoundary ==
  ASSUME NEW v, InStep(v), v.cmp \in {"no", "lead"}
  PROVE  Boundary(v)
<1>1. /\ v \in Writers /\ System[v.code].type = "iso" /\ v.code # "ss3_7" /\ v.ch = <<>>
      /\ Agreeing(v, Seen(v))
  BY DEF InStep
<1>2. Calm(Seen(v)) /\ Seen(v).code = v.code /\ Seen(v).eol = v.eol
  BY <1>1 DEF Agreeing
<1> QED
  BY <1>1, <1>2 DEF Boundary

LEMMA SaysAdds ==
  ASSUME NEW s, InStep(s), NEW v, NEW c, Says(s, v, c), v.cmp \in {"no", "lead"},
         c # <<"LF">>, c # <<"CR">>
  PROVE  Adds(s, v, c)
<1>1. InStep(v) /\ v.code = s.code /\ v.eol = s.eol /\ ReadText(Seen(v)) = ReadText(Seen(s)) \o c
  BY DEF Says
<1>2. PICK d \in Seq(Quiet) : v.out = s.out \o d
  BY DEF Says
<1>3. s.out \o d \in Seq(Bytes)
  BY <1>2, QuietJoined, SeenText, Associates
<1>4. (s.out \o d) \o <<>> = s.out \o d
  BY <1>3, Nothing
<1>5. EndOf(c, s.eol) = <<>>
  BY DEF EndOf
<1>6. v.out = (s.out \o d) \o EndOf(c, s.eol)
  BY <1>2, <1>4, <1>5
<1>7. Boundary(v)
  BY <1>1, InStepBoundary
<1> QED
  BY <1>1, <1>6, <1>7 DEF Adds

LEMMA IsoCharacters ==
  ASSUME NEW k, System[k].type = "iso", NEW c \in Characters(k)
  PROVE  \/ c \in {<<"LF">>, <<"CR">>, <<"B">>, <<"SP">>}
         \/ \E lc \in Lead : c = Letter[lc]
         \/ c = <<"CMP", "latin+", "B+", "A0", "C+">>
         \/ c = <<"CMP", "A0", "B+", "jp+", "B+", "C+">>
<1>1. Characters(k) = Plain \union ({Letter[lc] : lc \in Lead} \union Composite)
  BY DEF Characters
<1>2. CASE c \in Plain
  BY <1>2 DEF Plain
<1>3. CASE c \in {Letter[lc] : lc \in Lead}
  BY <1>3
<1>4. CASE c \in Composite
  BY <1>4 DEF Composite
<1> QED
  BY <1>1, <1>2, <1>3, <1>4

LEMMA Distinct ==
  /\ \A lc \in Lead : Letter[lc] # <<"LF">> /\ Letter[lc] # <<"CR">>
  /\ <<"CMP", "latin+", "B+", "A0", "C+">> # <<"LF">> /\ <<"CMP", "latin+", "B+", "A0", "C+">> # <<"CR">>
  /\ <<"CMP", "A0", "B+", "jp+", "B+", "C+">> # <<"LF">>
  /\ <<"CMP", "A0", "B+", "jp+", "B+", "C+">> # <<"CR">>
  /\ <<"B">> # <<"LF">> /\ <<"B">> # <<"CR">> /\ <<"SP">> # <<"LF">> /\ <<"SP">> # <<"CR">>
  /\ <<"CR">> # <<"LF">>
<1>1. ASSUME NEW lc \in Lead PROVE Letter[lc] # <<"LF">> /\ Letter[lc] # <<"CR">>
  <2>1. lc \in Bytes /\ Set[lc].bytes \in {1, 2}
    BY Kinds, PositionsAre
  <2>2. Letter[lc] = IF Set[lc].bytes = 1 THEN << lc, "B+" >> ELSE << lc, "B+", "C+" >>
    BY <2>1, LetterIs, PositionsAre
  <2>3. Len(Letter[lc]) # 1
    BY <2>2
  <2> QED
    BY <2>3
<1>2. \A a, b, c, d, e, f, g : << a, b, c, d, e >> # << g >> /\ << a, b, c, d, e, f >> # << g >>
  OBVIOUS
<1>3. /\ <<"B">> # <<"LF">> /\ <<"B">> # <<"CR">> /\ <<"SP">> # <<"LF">> /\ <<"SP">> # <<"CR">>
      /\ <<"CR">> # <<"LF">>
  OBVIOUS
<1> QED
  BY <1>1, <1>2, <1>3

LEMMA FinishesAdds ==
  ASSUME NEW s, InStep(s), NEW v, NEW c, Finishes(s, v, EndOf(c, s.eol), c),
         c = <<"LF">> => Seen(v) = [NewReader(v.code, v.eol) EXCEPT !.out = Seen(v).out]
  PROVE  Adds(s, v, c)
<1>1. /\ InStep(v) /\ v.cmp = "no" /\ v.code = s.code /\ v.eol = s.eol
      /\ \E d \in Seq(Quiet) : v.out = (s.out \o d) \o EndOf(c, s.eol)
      /\ ReadText(Seen(v)) = ReadText(Seen(s)) \o c
  BY DEF Finishes
<1>2. Boundary(v)
  BY <1>1, InStepBoundary
<1>3. c = <<"LF">> => Seen(v) = Fresh(v.code, v.eol, Seen(v).out)
  BY DEF Fresh
<1> QED
  BY <1>1, <1>2, <1>3 DEF Adds

LEMMA IsoAdds ==
  ASSUME NEW s, Boundary(s), System[s.code].type = "iso", NEW c \in Characters(s.code),
         s.eol = "CR" => c # <<"CR">>
  PROVE  \E v : v = PutAll(s, c) /\ Adds(s, v, c)
<1>1. InStep(s) /\ s.cmp \in {"no", "lead"}
  BY DEF Boundary
<1>2. CASE c = <<"LF">>
  <2>1. PICK v : /\ v = PutAll(s, <<"LF">>) /\ Finishes(s, v, LineEnd(s.eol), <<"LF">>)
                 /\ Seen(v) = [NewReader(v.code, v.eol) EXCEPT !.out = Seen(v).out]
    BY <1>1, PlainEnd
  <2>2. EndOf(c, s.eol) = LineEnd(s.eol)
    BY <1>2 DEF EndOf
  <2>3. Finishes(s, v, EndOf(c, s.eol), c)
    BY <1>2, <2>1, <2>2
  <2> QED
    BY <1>1, <1>2, <2>1, <2>3, FinishesAdds
<1>3. CASE c = <<"CR">>
  <2>1. PICK v : v = PutAll(s, <<"CR">>) /\ Finishes(s, v, <<"CR">>, <<"CR">>)
    BY <1>1, <1>3, PlainEnd
  <2>2. EndOf(c, s.eol) = <<"CR">> /\ c # <<"LF">>
    BY <1>3, Distinct DEF EndOf
  <2>3. Finishes(s, v, EndOf(c, s.eol), c)
    BY <1>3, <2>1, <2>2
  <2> QED
    BY <1>1, <1>3, <2>1, <2>2, <2>3, FinishesAdds
<1>4. CASE c = <<"B">> \/ c = <<"SP">>
  <2>1. PICK v : v = PutAll(s, c) /\ Says(s, v, c) /\ v.cmp = "no"
    BY <1>1, <1>4, PlainSign
  <2>2. c # <<"LF">> /\ c # <<"CR">>
    BY <1>4, Distinct
  <2> QED
    BY <1>1, <2>1, <2>2, SaysAdds
<1>5. CASE \E lc \in Lead : c = Letter[lc]
  <2>1. PICK lc \in Lead : c = Letter[lc]
    BY <1>5
  <2>2. \E v : v = PutAll(s, Letter[lc]) /\ Says(s, v, Letter[lc]) /\ v.cmp = "no"
    BY <1>1, PlainLetter
  <2>3. PICK v : v = PutAll(s, c) /\ Says(s, v, c) /\ v.cmp = "no"
    BY <2>1, <2>2
  <2>4. c # <<"LF">> /\ c # <<"CR">>
    BY <2>1, Distinct
  <2> QED
    BY <1>1, <2>3, <2>4, SaysAdds
<1>6. CASE c = <<"CMP", "latin+", "B+", "A0", "C+">> \/ c = <<"CMP", "A0", "B+", "jp+", "B+", "C+">>
  <2>1. \E v : v = PutAll(s, c) /\ Says(s, v, c) /\ v.cmp = "lead"
    BY <1>1, <1>6, LatinComposite, KanjiComposite
  <2>3. PICK v : v = PutAll(s, c) /\ Says(s, v, c) /\ v.cmp = "lead"
    BY <2>1
  <2>4. c # <<"LF">> /\ c # <<"CR">>
    BY <1>6, Distinct
  <2> QED
    BY <1>1, <2>3, <2>4, SaysAdds
<1> QED
  BY <1>2, <1>3, <1>4, <1>5, <1>6, IsoCharacters

(* Shift-JIS and ASCII: what the reader makes of a byte between characters. *)
LEMMA OtherReads ==
  ASSUME NEW z, Calm(z), NEW y, y = Settled(z), System[z.code].type \in {"sjis", "autoconv"}
  PROVE  /\ Get(z, "LF") = Emit([z EXCEPT !.cr = FALSE], <<"LF">>)
         /\ z.eol = "CR" => Get(z, "CR") = Emit(z, <<"LF">>)
         /\ z.eol = "CRLF" => Get(z, "CR") = IF z.cr THEN Emit(z, <<"CR">>) ELSE [z EXCEPT !.cr = TRUE]
         /\ z.eol \notin {"CR", "CRLF"} => Get(z, "CR") = Emit(z, <<"CR">>)
         /\ System[z.code].type = "sjis" => /\ Get(z, "B+") = Emit(y, <<"kana", "B+">>)
                                            /\ Get(z, "S") = [y EXCEPT !.ch = <<"S">>]
<1>1. z.ch = <<>>
  BY DEF Calm
<1>2. \A b : b # "LF" /\ b # "CR" => GetLineEnd(z, b) = y
  BY DEF GetLineEnd, Settled
<1>3. GetLineEnd(z, "LF") = [z EXCEPT !.cr = FALSE]
  BY DEF GetLineEnd
<1>4. /\ z.eol = "CR" => GetLineEnd(z, "CR") = Emit(z, <<"LF">>)
      /\ z.eol = "CRLF" => GetLineEnd(z, "CR") = IF z.cr THEN Emit(z, <<"CR">>) ELSE [z EXCEPT !.cr = TRUE]
      /\ z.eol \notin {"CR", "CRLF"} => GetLineEnd(z, "CR") = Emit(z, <<"CR">>)
  BY DEF GetLineEnd
<1>5. CASE System[z.code].type = "sjis"
  <2>1. \A b : Get(z, b) = GetSjis(z, b)
    BY <1>5 DEF Get
  <2>2. GetSjis(z, "CR") = GetLineEnd(z, "CR")
    BY <1>1 DEF GetSjis
  <2>3. GetSjis(z, "S") = [y EXCEPT !.ch = <<"S">>]
    BY <1>1, <1>2 DEF GetSjis
  <2>5. GetSjis(z, "LF") = Emit([z EXCEPT !.cr = FALSE], <<"LF">>)
    BY <1>1, <1>3 DEF GetSjis, Ascii, Cntl
  <2>6. GetSjis(z, "B+") = Emit(y, <<"kana", "B+">>)
    BY <1>1, <1>2 DEF GetSjis, Ascii, Cntl
  <2> QED
    BY <1>4, <2>1, <2>2, <2>3, <2>5, <2>6
<1>6. CASE System[z.code].type = "autoconv"
  <2>1. \A b : Get(z, b) = GetPlain(z, b)
    BY <1>6 DEF Get
  <2>2. GetPlain(z, "CR") = GetLineEnd(z, "CR")
    BY DEF GetPlain
  <2>5. GetPlain(z, "LF") = Emit([z EXCEPT !.cr = FALSE], <<"LF">>)
    BY <1>3 DEF GetPlain
  <2> QED
    BY <1>4, <1>6, <2>1, <2>2, <2>5
<1> QED
  BY <1>5, <1>6

LEMMA OtherReadsSign ==
  ASSUME NEW z, Calm(z), System[z.code].type \in {"sjis", "autoconv"}, NEW b \in {"B", "SP"}
  PROVE  Get(z, b) = Emit(Settled(z), << b >>)
<1>1. z.ch = <<>>
  BY DEF Calm
<1>2. b # "LF" /\ b # "CR" /\ b # "S" /\ b \in Ascii
  BY DEF Ascii
<1>3. GetLineEnd(z, b) = Settled(z)
  BY <1>2 DEF GetLineEnd, Settled
<1>4. GetSjis(z, b) = Emit(Settled(z), << b >>)
  BY <1>1, <1>2, <1>3 DEF GetSjis
<1>5. GetPlain(z, b) = Emit(Settled(z), << b >>)
  BY <1>2, <1>3 DEF GetPlain
<1> QED
  BY <1>4, <1>5 DEF Get

(* The writer then, whose charsets never change. *)
LEMMA OtherStep ==
  ASSUME NEW s, Boundary(s), System[s.code].type # "iso", NEW c,
         NEW v \in Writers, v.code = s.code, v.eol = s.eol, v.ch = <<>>,
         NEW d \in Seq(Quiet), EndOf(c, s.eol) \in Seq(Bytes), v.out = (s.out \o d) \o EndOf(c, s.eol),
         NEW z, z = GetAll(Seen(s), d \o EndOf(c, s.eol)), Calm(z), Resembles(z, Seen(s)),
         ReadText(z) = ReadText(Seen(s)) \o c, c = <<"LF">> => z.cr = FALSE
  PROVE  Adds(s, v, c)
<1>1. /\ s \in Writers /\ s.ch = <<>> /\ s.code # "ss3_7"
      /\ Calm(Seen(s)) /\ Seen(s).code = s.code /\ Seen(s).eol = s.eol /\ Blank(Seen(s))
  BY DEF Boundary
<1>2. PICK e \in Seq(Bytes) : e = EndOf(c, s.eol)
  OBVIOUS
<1>3. d \in Seq(Bytes) /\ s.out \in Seq(Bytes)
  BY <1>1, QuietJoined, WriterFields
<1>4. v.out = s.out \o (d \o e) /\ d \o e \in Seq(Bytes)
  BY <1>2, <1>3, Associates, ZenonT(60)
<1>5. Seen(v) = z
  BY <1>1, <1>2, <1>4, SeenAfter
<1>6. Blank(z) /\ z.code = s.code /\ z.eol = s.eol
  BY <1>1 DEF Blank, Resembles, Calm
<1>7. Boundary(v)
  BY <1>1, <1>5, <1>6 DEF Boundary
<1>8. ASSUME c = <<"LF">> PROVE z = Fresh(v.code, v.eol, z.out)
  <2>1. z.cr = FALSE /\ z \in Readers
    BY <1>8 DEF Calm
  <2>2. PICK q : q = Fresh(v.code, v.eol, z.out)
    OBVIOUS
  <2>3. q = [code |-> v.code, eol |-> v.eol, g |-> System[v.code].g, esc |-> <<>>, single |-> 0,
             shifted |-> FALSE, rtl |-> FALSE, cmp |-> FALSE, cr |-> FALSE, ch |-> <<>>, out |-> z.out]
    BY <2>2 DEF Fresh, NewReader
  <2>4. z = [code |-> z.code, eol |-> z.eol, g |-> z.g, esc |-> z.esc, single |-> z.single,
             shifted |-> z.shifted, rtl |-> z.rtl, cmp |-> z.cmp, cr |-> z.cr, ch |-> z.ch,
             out |-> z.out]
    BY <2>1 DEF Readers
  <2> QED
    BY <1>6, <2>1, <2>2, <2>3, <2>4 DEF Blank
<1> QED
  BY <1>1, <1>2, <1>5, <1>7, <1>8 DEF Adds

Reached(x, z, t) ==
  x \in Readers /\ Calm(x) /\ Resembles(x, z) /\ ReadText(x) = ReadText(z) \o t

LEMMA EmitReached ==
  ASSUME NEW z, Calm(z), z.cr = FALSE, NEW t \in Seq(Bytes), NEW x, x = Emit(z, t)
  PROVE  Reached(x, z, t) /\ x.cr = FALSE
<1>1. z \in Readers /\ z.out \in Seq(Bytes)
  BY ReaderFields DEF Calm
<1>2. /\ x \in Readers /\ x.out = z.out \o t /\ x.code = z.code /\ x.eol = z.eol /\ x.g = z.g
      /\ x.esc = z.esc /\ x.single = z.single /\ x.shifted = z.shifted /\ x.rtl = z.rtl
      /\ x.cmp = z.cmp /\ x.ch = z.ch /\ x.cr = z.cr
  <2>1. \A v : v = Emit(z, t) =>
           /\ v \in Readers /\ v.out = z.out \o t /\ v.code = z.code /\ v.eol = z.eol /\ v.g = z.g
           /\ v.esc = z.esc /\ v.single = z.single /\ v.shifted = z.shifted /\ v.rtl = z.rtl
           /\ v.cmp = z.cmp /\ v.ch = z.ch /\ v.cr = z.cr
    BY <1>1, ReaderEmit
  <2> QED
    BY <2>1
<1>3. Calm(x) /\ Resembles(x, z)
  BY <1>2 DEF Calm, Resembles
<1>4. ReadText(x) = x.out /\ ReadText(z) = z.out
  <2>1. x.out \in Seq(Bytes)
    BY <1>2, ReaderFields
  <2> QED
    BY <1>1, <1>2, <2>1, Nothing DEF ReadText, When
<1> QED
  BY <1>2, <1>3, <1>4 DEF Reached

LEMMA ReachedSettled ==
  ASSUME NEW z, Calm(z), NEW y, y = Settled(z), NEW x, NEW t, Reached(x, y, t)
  PROVE  Reached(x, z, t)
<1>1. z \in Readers
  BY DEF Calm
<1>2. /\ y.code = z.code /\ y.eol = z.eol /\ y.g = z.g /\ y.shifted = z.shifted /\ y.rtl = z.rtl
      /\ y.cmp = z.cmp /\ ReadText(y) = ReadText(z)
  BY <1>1, SettledIs
<1> QED
  BY <1>2 DEF Reached, Resembles

LEMMA OtherReadsSigns ==
  ASSUME NEW z, Calm(z), System[z.code].type \in {"sjis", "autoconv"}, NEW b \in {"B", "SP"}
  PROVE  \E x : x = GetAll(z, << b >>) /\ Reached(x, z, << b >>)
<1>1. PICK y : y = Settled(z)
  OBVIOUS
<1>2. Calm(y) /\ y.cr = FALSE
  BY <1>1, SettledCalm, SettledIs DEF Calm
<1>3. PICK t \in Seq(Bytes) : t = << b >>
  BY SignsAre, TwoJoined, Zenon
<1>4. PICK x : x = Emit(y, t)
  OBVIOUS
<1>5. Reached(x, y, t)
  BY <1>2, <1>4, EmitReached
<1>6. x = GetAll(z, << b >>)
  <2>1. GetAll(z, << b >>) = Get(z, b)
    BY GetAllOne
  <2>2. Get(z, b) = Emit(y, << b >>)
    BY <1>1, OtherReadsSign
  <2> QED
    BY <1>3, <1>4, <2>1, <2>2
<1> QED
  BY <1>1, <1>3, <1>5, <1>6, ReachedSettled

LEMMA OtherReadsLineEnd ==
  ASSUME NEW z, Calm(z), System[z.code].type \in {"sjis", "autoconv"}, z.eol \in AnyEnd
  PROVE  \E x : x = GetAll(z, LineEnd(z.eol)) /\ Reached(x, z, <<"LF">>) /\ x.cr = FALSE
<1>1. PICK t \in Seq(Bytes) : t = <<"LF">>
  BY SignSequences
<1>2. z \in Readers /\ z.cr \in BOOLEAN /\ z.out \in Seq(Bytes)
  BY ReaderFields DEF Calm
<1>3. CASE z.eol = "LF" \/ z.eol = "CR"
  <2>1. z.cr = FALSE
    BY <1>2, <1>3 DEF Calm
  <2>2. [z EXCEPT !.cr = FALSE] = z
    BY <1>2, <2>1 DEF Readers
  <2>3. Get(z, "LF") = Emit([z EXCEPT !.cr = FALSE], <<"LF">>)
    BY OtherReads
  <2>4. z.eol = "CR" => Get(z, "CR") = Emit(z, <<"LF">>)
    BY OtherReads
  <2>5. PICK x : x = Emit(z, t)
    OBVIOUS
  <2>6. Reached(x, z, t) /\ x.cr = FALSE
    BY <2>1, <2>5, EmitReached
  <2>7. GetAll(z, LineEnd(z.eol)) = x
    <3>1. CASE z.eol = "LF"
      <4>1. LineEnd(z.eol) = <<"LF">>
        BY <3>1 DEF LineEnd
      <4>2. GetAll(z, <<"LF">>) = Get(z, "LF")
        BY GetAllOne
      <4> QED
        BY <1>1, <2>2, <2>3, <2>5, <4>1, <4>2
    <3>2. CASE z.eol = "CR"
      <4>1. LineEnd(z.eol) = <<"CR">>
        BY <3>2 DEF LineEnd
      <4>2. GetAll(z, <<"CR">>) = Get(z, "CR")
        BY GetAllOne
      <4> QED
        BY <1>1, <2>4, <2>5, <3>2, <4>1, <4>2
    <3> QED
      BY <1>3, <3>1, <3>2
  <2> QED
    BY <1>1, <2>6, <2>7
<1>4. CASE z.eol = "CRLF"
  <2>1. LineEnd(z.eol) = <<"CR", "LF">>
    BY <1>4 DEF LineEnd
  <2>2. PICK a : a = Get(z, "CR")
    OBVIOUS
  <2>3. GetAll(z, <<"CR", "LF">>) = Get(a, "LF")
    <3>1. "CR" \in Bytes /\ "LF" \in Bytes
      BY SignsAre, Zenon
    <3>2. GetAll(z, <<"CR", "LF">>) = Get(Get(z, "CR"), "LF")
      BY <3>1, GetAllTwo
    <3> QED
      BY <2>2, <3>2
  <2>4. PICK y : y = Settled(z)
    OBVIOUS
  <2>5. PICK n \in Seq(Bytes) : n = <<"CR">>
    BY SignSequences
  <2>6. a = IF z.cr THEN Emit(z, <<"CR">>) ELSE [z EXCEPT !.cr = TRUE]
    BY <1>4, <2>2, OtherReads
  <2>7. /\ a \in Readers /\ a.code = z.code /\ a.eol = z.eol /\ a.g = z.g /\ a.esc = z.esc
        /\ a.single = z.single /\ a.shifted = z.shifted /\ a.rtl = z.rtl /\ a.cmp = z.cmp
        /\ a.ch = z.ch /\ a.cr = TRUE /\ a.out = ReadText(z)
    <3>1. CASE z.cr = TRUE
      <4>1. \A v : v = Emit(z, n) =>
               /\ v \in Readers /\ v.out = z.out \o n /\ v.code = z.code /\ v.eol = z.eol /\ v.g = z.g
               /\ v.esc = z.esc /\ v.single = z.single /\ v.shifted = z.shifted /\ v.rtl = z.rtl
               /\ v.cmp = z.cmp /\ v.ch = z.ch /\ v.cr = z.cr
        BY <1>2, ReaderEmit
      <4>2. a = Emit(z, n)
        BY <2>5, <2>6, <3>1
      <4>3. ReadText(z) = z.out \o n
        BY <2>5, <3>1 DEF ReadText, When
      <4> QED
        BY <3>1, <4>1, <4>2, <4>3
    <3>2. CASE z.cr = FALSE
      <4>1. a = [z EXCEPT !.cr = TRUE]
        BY <2>6, <3>2
      <4>2. ReadText(z) = z.out
        BY <1>2, <3>2, Nothing DEF ReadText, When
      <4> QED
        BY <1>2, <4>1, <4>2 DEF Readers
    <3> QED
      BY <1>2, <3>1, <3>2
  <2>8. Calm(a)
    BY <1>4, <2>7 DEF Calm
  <2>9. PICK b : b = [a EXCEPT !.cr = FALSE]
    OBVIOUS
  <2>10. /\ b \in Readers /\ b.code = z.code /\ b.eol = z.eol /\ b.g = z.g /\ b.esc = z.esc
         /\ b.single = z.single /\ b.shifted = z.shifted /\ b.rtl = z.rtl /\ b.cmp = z.cmp
         /\ b.ch = z.ch /\ b.cr = FALSE /\ b.out = ReadText(z)
    BY <2>7, <2>9 DEF Readers
  <2>11. Calm(b) /\ Resembles(b, z)
    BY <2>10 DEF Calm, Resembles
  <2>12. PICK x : x = Emit(b, t)
    OBVIOUS
  <2>13. Reached(x, b, t) /\ x.cr = FALSE
    BY <2>10, <2>11, <2>12, EmitReached
  <2>14. x = Get(a, "LF")
    <3>1. Get(a, "LF") = Emit([a EXCEPT !.cr = FALSE], <<"LF">>)
      <4>1. System[a.code].type \in {"sjis", "autoconv"}
        BY <2>7
      <4> QED
        BY <2>8, <4>1, OtherReads
    <3> QED
      BY <1>1, <2>9, <2>12, <3>1
  <2>15. ReadText(b) = ReadText(z)
    <3>1. b.out \in Seq(Bytes)
      BY <2>10, ReaderFields
    <3> QED
      BY <2>10, <3>1, Nothing DEF ReadText, When
  <2>16. Reached(x, z, t)
    BY <2>11, <2>13, <2>15 DEF Reached, Resembles
  <2> QED
    BY <1>1, <2>1, <2>3, <2>13, <2>14, <2>16
<1> QED
  BY <1>3, <1>4 DEF AnyEnd

LEMMA OtherReadsReturn ==
  ASSUME NEW z, Calm(z), System[z.code].type \in {"sjis", "autoconv"}, z.eol \in {"LF", "CRLF"}
  PROVE  \E x : x = GetAll(z, <<"CR">>) /\ Reached(x, z, <<"CR">>)
<1>1. PICK n \in Seq(Bytes) : n = <<"CR">>
  BY SignSequences
<1>2. z \in Readers /\ z.cr \in BOOLEAN /\ z.out \in Seq(Bytes)
  BY ReaderFields DEF Calm
<1>3. PICK x : x = GetAll(z, <<"CR">>)
  OBVIOUS
<1>4. x = Get(z, "CR")
  BY <1>3, GetAllOne
<1>5. CASE z.eol = "CRLF" /\ z.cr = FALSE
  <2>1. x = [z EXCEPT !.cr = TRUE]
    BY <1>4, <1>5, OtherReads
  <2>2. /\ x \in Readers /\ x.code = z.code /\ x.eol = z.eol /\ x.g = z.g /\ x.esc = z.esc
        /\ x.single = z.single /\ x.shifted = z.shifted /\ x.rtl = z.rtl /\ x.cmp = z.cmp
        /\ x.ch = z.ch /\ x.cr = TRUE /\ x.out = z.out
    BY <1>2, <2>1 DEF Readers
  <2>3. Calm(x) /\ Resembles(x, z)
    BY <1>5, <2>2 DEF Calm, Resembles
  <2>4. ReadText(z) = z.out /\ ReadText(x) = z.out \o n
    BY <1>1, <1>2, <1>5, <2>2, Nothing DEF ReadText, When
  <2> QED
    BY <1>1, <1>3, <2>2, <2>3, <2>4 DEF Reached
<1>6. CASE z.eol = "CRLF" /\ z.cr = TRUE
  <2>1. x = Emit(z, n)
    <3>1. Get(z, "CR") = IF z.cr THEN Emit(z, <<"CR">>) ELSE [z EXCEPT !.cr = TRUE]
      BY <1>6, OtherReads
    <3> QED
      BY <1>1, <1>4, <1>6, <3>1
  <2>2. /\ x \in Readers /\ x.out = z.out \o n /\ x.code = z.code /\ x.eol = z.eol /\ x.g = z.g
        /\ x.esc = z.esc /\ x.single = z.single /\ x.shifted = z.shifted /\ x.rtl = z.rtl
        /\ x.cmp = z.cmp /\ x.ch = z.ch /\ x.cr = z.cr
    <3>1. \A v : v = Emit(z, n) =>
             /\ v \in Readers /\ v.out = z.out \o n /\ v.code = z.code /\ v.eol = z.eol /\ v.g = z.g
             /\ v.esc = z.esc /\ v.single = z.single /\ v.shifted = z.shifted /\ v.rtl = z.rtl
             /\ v.cmp = z.cmp /\ v.ch = z.ch /\ v.cr = z.cr
      BY <1>2, ReaderEmit
    <3> QED
      BY <2>1, <3>1
  <2>3. Calm(x) /\ Resembles(x, z)
    BY <1>6, <2>2 DEF Calm, Resembles
  <2>4. ReadText(z) = z.out \o n /\ ReadText(x) = (z.out \o n) \o n
    BY <1>1, <1>6, <2>2 DEF ReadText, When
  <2> QED
    BY <1>1, <1>3, <2>2, <2>3, <2>4 DEF Reached
<1>7. CASE z.eol = "LF"
  <2>1. z.cr = FALSE
    BY <1>2, <1>7 DEF Calm
  <2>2. x = Emit(z, n)
    <3>1. z.eol \notin {"CR", "CRLF"}
      BY <1>7
    <3>2. Get(z, "CR") = Emit(z, <<"CR">>)
      BY <3>1, OtherReads
    <3> QED
      BY <1>1, <1>4, <3>2
  <2> QED
    BY <1>1, <1>3, <2>1, <2>2, EmitReached
<1> QED
  BY <1>2, <1>5, <1>6, <1>7

LEMMA OtherPuts ==
  ASSUME NEW s \in Writers, s.ch = <<>>, System[s.code].type \in {"sjis", "autoconv"}, NEW c \in Ascii
  PROVE  PutAll(s, << c >>) = Emit(s, IF c = "LF" THEN LineEnd(s.eol) ELSE << c >>)
<1>1. c # "END"
  BY Kinds
<1>5. c \notin Lead
  BY Kinds
<1>2. [s EXCEPT !.ch = <<>>] = s
  BY DEF Writers
<1>3. PutSjis(s, c) = Emit(s, IF c = "LF" THEN LineEnd(s.eol) ELSE << c >>)
  BY <1>2, <1>5 DEF PutSjis
<1>4. Put(s, c) = Emit(s, IF c = "LF" THEN LineEnd(s.eol) ELSE << c >>)
  BY <1>1, <1>3 DEF Put
<1> QED
  BY <1>4, PutAllOne

LEMMA OtherPlain ==
  ASSUME NEW s, Boundary(s), System[s.code].type \in {"sjis", "autoconv"},
         NEW d \in Seq(Quiet), NEW e \in Seq(Bytes), NEW v, v = Emit(s, d \o e), NEW c,
         EndOf(c, s.eol) = e, NEW z, z = GetAll(Seen(s), d \o e), Reached(z, Seen(s), c),
         c = <<"LF">> => z.cr = FALSE
  PROVE  Adds(s, v, c)
<1>1. s \in Writers /\ s.ch = <<>> /\ s.out \in Seq(Bytes) /\ d \in Seq(Bytes) /\ d \o e \in Seq(Bytes)
  BY WriterFields, QuietJoined, Associates DEF Boundary
<1>2. /\ v \in Writers /\ v.out = s.out \o (d \o e) /\ v.code = s.code /\ v.eol = s.eol
      /\ v.ch = s.ch
  <2>2. PICK f \in Seq(Bytes) : f = d \o e
    BY <1>1
  <2>1. \A x : x = Emit(s, f) =>
           /\ x \in Writers /\ x.out = s.out \o f /\ x.code = s.code /\ x.eol = s.eol /\ x.g = s.g
           /\ x.announce = s.announce /\ x.in = s.in /\ x.shifted = s.shifted /\ x.rtl = s.rtl
           /\ x.cmp = s.cmp /\ x.ch = s.ch
    BY <1>1, WriterEmit
  <2> QED
    BY <2>1, <2>2
<1>3. v.out = (s.out \o d) \o EndOf(c, s.eol)
  <2>1. (s.out \o d) \o e = s.out \o (d \o e)
    <3>1. \A a, b, f \in Seq(Bytes) : (a \o b) \o f = a \o (b \o f)
      BY Associates, SMTT(20)
    <3>2. s.out \in Seq(Bytes) /\ d \in Seq(Bytes) /\ e \in Seq(Bytes)
      BY <1>1
    <3> QED
      BY <3>1, <3>2
  <2> QED
    BY <1>2, <2>1
<1>4. z = GetAll(Seen(s), d \o EndOf(c, s.eol)) /\ EndOf(c, s.eol) \in Seq(Bytes)
  OBVIOUS
<1>5. Calm(z) /\ Resembles(z, Seen(s)) /\ ReadText(z) = ReadText(Seen(s)) \o c
  BY DEF Reached
<1>6. System[s.code].type # "iso"
  OBVIOUS
<1> QED
  BY <1>1, <1>2, <1>3, <1>4, <1>5, <1>6, OtherStep

LEMMA OtherSeen ==
  ASSUME NEW s, Boundary(s)
  PROVE  /\ Calm(Seen(s)) /\ System[Seen(s).code].type = System[s.code].type /\ Seen(s).eol = s.eol
         /\ s \in Writers /\ s.ch = <<>> /\ s.eol \in AnyEnd /\ s.out \in Seq(Bytes)
         /\ s.code \in DOMAIN System /\ Seen(s) \in Readers /\ ReadText(Seen(s)) \in Seq(Bytes)
<1>1. Calm(Seen(s)) /\ Seen(s).code = s.code /\ Seen(s).eol = s.eol /\ s \in Writers /\ s.ch = <<>>
  BY DEF Boundary
<1>2. Seen(s) \in Readers
  BY <1>1 DEF Calm
<1>3. Seen(s).out \in Seq(Bytes) /\ Seen(s).cr \in BOOLEAN
  BY <1>2, ReaderFields
<1>4. ReadText(Seen(s)) \in Seq(Bytes)
  BY <1>3, SignSequences, Nothing, Associates DEF ReadText, When
<1> QED
  BY <1>1, <1>2, <1>4, WriterFields

LEMMA OtherSigns ==
  ASSUME NEW s, Boundary(s), System[s.code].type \in {"sjis", "autoconv"}, NEW b \in {"B", "SP"}
  PROVE  \E v : v = PutAll(s, << b >>) /\ Adds(s, v, << b >>)
<1>1. b \in Ascii /\ b # "LF" /\ b \in Quiet /\ b \in Bytes
  BY QuietSigns DEF Ascii, Quiet
<1>2. PICK t : t = << b >>
  OBVIOUS
<1>3. t \in Seq(Quiet) /\ t \in Seq(Bytes) /\ <<>> \in Seq(Bytes) /\ t \o <<>> = t
  BY <1>1, <1>2, QuietOnes, QuietJoined, Nothing
<1>4. PICK v : v = PutAll(s, t)
  OBVIOUS
<1>5. v = Emit(s, t \o <<>>)
  BY <1>1, <1>2, <1>3, <1>4, OtherSeen, OtherPuts
<1>6. PICK x : x = GetAll(Seen(s), t) /\ Reached(x, Seen(s), t)
  <2>1. Calm(Seen(s)) /\ System[Seen(s).code].type \in {"sjis", "autoconv"}
    BY OtherSeen
  <2>2. \E x : x = GetAll(Seen(s), << b >>) /\ Reached(x, Seen(s), << b >>)
    BY <2>1, OtherReadsSigns
  <2> QED
    BY <1>2, <2>2
<1>7. t # <<"LF">> /\ t # <<"CR">> /\ EndOf(t, s.eol) = <<>>
  BY <1>2, Distinct DEF EndOf
<1>8. Adds(s, v, t)
  BY <1>3, <1>5, <1>6, <1>7, OtherPlain
<1> QED
  BY <1>2, <1>4, <1>8

LEMMA OtherLineFeed ==
  ASSUME NEW s, Boundary(s), System[s.code].type \in {"sjis", "autoconv"}
  PROVE  \E v : v = PutAll(s, <<"LF">>) /\ Adds(s, v, <<"LF">>)
<1>1. "LF" \in Ascii
  BY DEF Ascii, Cntl
<1>2. PICK e \in Seq(Bytes) : e = LineEnd(s.eol)
  BY OtherSeen, LineEndIs
<1>3. <<>> \in Seq(Quiet) /\ <<>> \o e = e
  BY <1>2, QuietSigns, QuietOnes, Nothing
<1>4. PICK v : v = PutAll(s, <<"LF">>)
  OBVIOUS
<1>5. v = Emit(s, <<>> \o e)
  <2>1. PutAll(s, <<"LF">>) = Emit(s, IF "LF" = "LF" THEN LineEnd(s.eol) ELSE <<"LF">>)
    BY <1>1, OtherSeen, OtherPuts
  <2> QED
    BY <1>2, <1>3, <1>4, <2>1
<1>6. PICK x : x = GetAll(Seen(s), e) /\ Reached(x, Seen(s), <<"LF">>) /\ x.cr = FALSE
  <2>1. Calm(Seen(s)) /\ System[Seen(s).code].type \in {"sjis", "autoconv"} /\ Seen(s).eol = s.eol
        /\ s.eol \in AnyEnd
    BY OtherSeen
  <2>2. \E x : x = GetAll(Seen(s), LineEnd(Seen(s).eol)) /\ Reached(x, Seen(s), <<"LF">>) /\ x.cr = FALSE
    BY <2>1, OtherReadsLineEnd
  <2> QED
    BY <1>2, <2>1, <2>2
<1>7. EndOf(<<"LF">>, s.eol) = e
  BY <1>2 DEF EndOf
<1>8. Adds(s, v, <<"LF">>)
  BY <1>2, <1>3, <1>5, <1>6, <1>7, OtherPlain
<1> QED
  BY <1>4, <1>8

LEMMA OtherReturn ==
  ASSUME NEW s, Boundary(s), System[s.code].type \in {"sjis", "autoconv"}, s.eol # "CR"
  PROVE  \E v : v = PutAll(s, <<"CR">>) /\ Adds(s, v, <<"CR">>)
<1>1. "CR" \in Ascii
  BY DEF Ascii, Cntl
<1>2. PICK e \in Seq(Bytes) : e = <<"CR">>
  BY SignSequences
<1>3. <<>> \in Seq(Quiet) /\ <<>> \o e = e
  BY <1>2, QuietSigns, QuietOnes, Nothing
<1>4. PICK v : v = PutAll(s, e)
  OBVIOUS
<1>5. v = Emit(s, <<>> \o e)
  <2>1. PutAll(s, <<"CR">>) = Emit(s, IF "CR" = "LF" THEN LineEnd(s.eol) ELSE <<"CR">>)
    BY <1>1, OtherSeen, OtherPuts
  <2> QED
    BY <1>2, <1>3, <1>4, <2>1
<1>6. PICK x : x = GetAll(Seen(s), e) /\ Reached(x, Seen(s), e)
  <2>1. Calm(Seen(s)) /\ System[Seen(s).code].type \in {"sjis", "autoconv"} /\ Seen(s).eol = s.eol
        /\ s.eol \in AnyEnd
    BY OtherSeen
  <2>2. Seen(s).eol \in {"LF", "CRLF"}
    BY <2>1 DEF AnyEnd
  <2>3. \E x : x = GetAll(Seen(s), <<"CR">>) /\ Reached(x, Seen(s), <<"CR">>)
    BY <2>1, <2>2, OtherReadsReturn
  <2> QED
    BY <1>2, <2>3
<1>7. EndOf(e, s.eol) = e /\ e # <<"LF">>
  BY <1>2, Distinct DEF EndOf
<1>8. Adds(s, v, e)
  BY <1>2, <1>3, <1>5, <1>6, <1>7, OtherPlain
<1> QED
  BY <1>2, <1>4, <1>8

LEMMA SjisPuts ==
  ASSUME NEW s \in Writers, s.ch = <<>>, System[s.code].type = "sjis"
  PROVE  /\ PutAll(s, <<"kana", "B+">>) = Emit(s, <<"B+">>)
         /\ PutAll(s, <<"jp", "B+", "C+">>) = Emit(s, <<"S", "C">>)
<1>1. /\ "kana" \in Lead /\ "jp" \in Lead /\ "kana" \notin Ascii /\ "jp" \notin Ascii
      /\ "B+" \notin Lead /\ "B+" \notin Ascii /\ "C+" \notin Lead /\ "C+" \notin Ascii
      /\ "kana" \in Bytes /\ "jp" \in Bytes /\ "B+" \in Bytes /\ "C+" \in Bytes
  BY CharsetsAre, BytesAre, SignsAre, Zenon DEF Charsets, Ascii, Cntl
<1>2. PICK a, b : a = [s EXCEPT !.ch = <<"kana">>] /\ b = [s EXCEPT !.ch = <<"jp">>]
  OBVIOUS
<1>3. PICK d : d = [b EXCEPT !.ch = <<"B+">>]
  OBVIOUS
<1>4. /\ a.ch = <<"kana">> /\ b.ch = <<"jp">> /\ d.ch = <<"B+">>
      /\ a.code = s.code /\ b.code = s.code /\ d.code = s.code
      /\ [a EXCEPT !.ch = <<>>] = s /\ [d EXCEPT !.ch = <<>>] = s
  BY <1>2, <1>3 DEF Writers
<1>5. \A q, c : System[q.code].type = "sjis" /\ c # "END" => Put(q, c) = PutSjis(q, c)
  BY DEF Put
<1>6. Put(s, "kana") = a /\ Put(s, "jp") = b
  BY <1>1, <1>2, <1>5 DEF PutSjis
<1>7. Put(a, "B+") = Emit(s, <<"B+">>)
  <2>1. PutSjis(a, "B+") = Emit([a EXCEPT !.ch = <<>>], <<"B+">>)
    BY <1>1, <1>4 DEF PutSjis
  <2> QED
    BY <1>4, <1>5, <2>1
<1>8. Put(b, "B+") = d
  <2>1. PutSjis(b, "B+") = [b EXCEPT !.ch = <<"B+">>]
    BY <1>1, <1>4 DEF PutSjis
  <2> QED
    BY <1>3, <1>4, <1>5, <2>1
<1>9. Put(d, "C+") = Emit(s, <<"S", "C">>)
  <2>1. Low("C+") = "C"
    BY DEF Low
  <2>2. PutSjis(d, "C+") = Emit([d EXCEPT !.ch = <<>>], <<"S", Low("C+")>>)
    BY <1>1, <1>4 DEF PutSjis
  <2> QED
    BY <1>4, <1>5, <2>1, <2>2
<1>10. PutAll(s, <<"kana", "B+">>) = Emit(s, <<"B+">>)
  <2>1. PutAll(s, <<"kana", "B+">>) = Put(Put(s, "kana"), "B+")
    BY <1>1, PutAllTwo
  <2> QED
    BY <1>6, <1>7, <2>1
<1>11. PutAll(s, <<"jp", "B+", "C+">>) = Emit(s, <<"S", "C">>)
  <2>1. PICK x \in Bytes, y \in Bytes, z \in Bytes : x = "jp" /\ y = "B+" /\ z = "C+"
    BY <1>1
  <2>2. << x, y, z >> = << x >> \o << y, z >> /\ << x >> \in Seq(Bytes) /\ << y, z >> \in Seq(Bytes)
    BY ThreeJoined, TwoJoined
  <2>3. PutAll(s, << x, y, z >>) = PutAll(PutAll(s, << x >>), << y, z >>)
    BY <2>2, PutAllParts, ZenonT(60)
  <2>4. PutAll(s, << x >>) = Put(s, x)
    BY PutAllOne
  <2>5. PutAll(b, << y, z >>) = Put(Put(b, y), z)
    BY PutAllTwo
  <2> QED
    BY <1>6, <1>8, <1>9, <2>1, <2>3, <2>4, <2>5
<1> QED
  BY <1>10, <1>11

LEMMA SjisReads ==
  ASSUME NEW z, Calm(z), System[z.code].type = "sjis"
  PROVE  /\ \E x : x = GetAll(z, <<"B+">>) /\ Reached(x, z, <<"kana", "B+">>)
         /\ \E x : x = GetAll(z, <<"S", "C">>) /\ Reached(x, z, <<"jp", "B+", "C+">>)
<1>1. PICK y : y = Settled(z)
  OBVIOUS
<1>2. Calm(y) /\ y.cr = FALSE /\ y \in Readers /\ y.code = z.code /\ y.ch = <<>>
  BY <1>1, SettledCalm, SettledIs DEF Calm
<1>3. "kana" \in Bytes /\ "jp" \in Bytes /\ "B+" \in Bytes /\ "C+" \in Bytes /\ "S" \in Bytes /\ "C" \in Bytes
  BY BytesAre, SignsAre, Zenon DEF Charsets
<1>4. PICK t \in Seq(Bytes) : t = <<"kana", "B+">>
  BY <1>3, TwoJoined
<1>5. PICK u \in Seq(Bytes) : u = <<"jp", "B+", "C+">>
  BY <1>3, ShortSequences
<1>6. Get(z, "B+") = Emit(y, t) /\ Get(z, "S") = [y EXCEPT !.ch = <<"S">>]
  BY <1>1, <1>4, OtherReads
<1>7. PICK q : q = [y EXCEPT !.ch = <<"S">>]
  OBVIOUS
<1>8. q.ch = <<"S">> /\ q.code = z.code /\ [q EXCEPT !.ch = <<>>] = y
  BY <1>2, <1>7 DEF Readers
<1>9. Get(q, "C") = Emit(y, u)
  <2>1. q.ch # <<>>
    BY <1>8
  <2>2. GetSjis(q, "C") = Emit([q EXCEPT !.ch = <<>>], <<"jp", "B+", High("C")>>)
    BY <2>1 DEF GetSjis
  <2>3. High("C") = "C+"
    BY DEF High
  <2>4. Get(q, "C") = GetSjis(q, "C")
    BY <1>8 DEF Get
  <2> QED
    BY <1>5, <1>8, <2>2, <2>3, <2>4
<1>10. PICK x1, x2 : x1 = Emit(y, t) /\ x2 = Emit(y, u)
  OBVIOUS
<1>11. Reached(x1, z, t) /\ Reached(x2, z, u)
  BY <1>1, <1>2, <1>10, EmitReached, ReachedSettled
<1>12. x1 = GetAll(z, <<"B+">>)
  <2>1. GetAll(z, <<"B+">>) = Get(z, "B+")
    BY GetAllOne
  <2> QED
    BY <1>6, <1>10, <2>1
<1>13. x2 = GetAll(z, <<"S", "C">>)
  <2>1. GetAll(z, <<"S", "C">>) = Get(Get(z, "S"), "C")
    BY <1>3, GetAllTwo
  <2> QED
    BY <1>6, <1>7, <1>9, <1>10, <2>1
<1> QED
  BY <1>4, <1>5, <1>11, <1>12, <1>13

LEMMA SjisLetter ==
  ASSUME NEW s, Boundary(s), System[s.code].type = "sjis", NEW c, NEW b,
         \/ c = <<"kana", "B+">> /\ b = <<"B+">>
         \/ c = <<"jp", "B+", "C+">> /\ b = <<"S", "C">>
  PROVE  \E v : v = PutAll(s, c) /\ Adds(s, v, c)
<1>1. b \in Seq(Quiet) /\ b \in Seq(Bytes) /\ <<>> \in Seq(Bytes) /\ b \o <<>> = b
  <2>1. b \in Seq(Quiet)
    BY QuietSigns, QuietOnes
  <2> QED
    BY <2>1, QuietJoined, Nothing
<1>2. PICK v : v = PutAll(s, c)
  OBVIOUS
<1>3. v = Emit(s, b \o <<>>)
  <2>1. s \in Writers /\ s.ch = <<>>
    BY OtherSeen
  <2>2. PutAll(s, <<"kana", "B+">>) = Emit(s, <<"B+">>) /\ PutAll(s, <<"jp", "B+", "C+">>) = Emit(s, <<"S", "C">>)
    BY <2>1, SjisPuts
  <2> QED
    BY <1>1, <1>2, <2>2
<1>4. PICK x : x = GetAll(Seen(s), b) /\ Reached(x, Seen(s), c)
  <2>1. Calm(Seen(s)) /\ System[Seen(s).code].type = "sjis"
    BY OtherSeen
  <2>2. /\ \E x : x = GetAll(Seen(s), <<"B+">>) /\ Reached(x, Seen(s), <<"kana", "B+">>)
        /\ \E x : x = GetAll(Seen(s), <<"S", "C">>) /\ Reached(x, Seen(s), <<"jp", "B+", "C+">>)
    BY <2>1, SjisReads
  <2> QED
    BY <2>2
<1>5. c # <<"LF">> /\ c # <<"CR">> /\ EndOf(c, s.eol) = <<>>
  <2>1. Len(c) # 1
    OBVIOUS
  <2>2. c # <<"LF">> /\ c # <<"CR">>
    BY <2>1
  <2> QED
    BY <2>2 DEF EndOf
<1>6. Adds(s, v, c)
  BY <1>1, <1>3, <1>4, <1>5, OtherPlain
<1> QED
  BY <1>2, <1>6

LEMMA CharacterAdds ==
  ASSUME NEW s, Boundary(s), NEW c \in Characters(s.code), s.eol = "CR" => c # <<"CR">>
  PROVE  \E v : v = PutAll(s, c) /\ Adds(s, v, c)
<1>1. System[s.code].type \in {"iso", "sjis", "autoconv"}
  BY OtherSeen, SystemFields
<1>2. CASE System[s.code].type = "iso"
  BY <1>2, IsoAdds
<1>3. CASE System[s.code].type \in {"sjis", "autoconv"}
  <2>1. c \in Plain \union (IF System[s.code].type = "sjis" THEN {Letter["kana"], Letter["jp"]} ELSE {})
    BY <1>3 DEF Characters
  <2>2. CASE c = <<"LF">>
    BY <1>3, <2>2, OtherLineFeed
  <2>3. CASE c = <<"CR">>
    <3>1. s.eol # "CR"
      BY <2>3
    <3> QED
      BY <1>3, <2>3, <3>1, OtherReturn
  <2>4. CASE c = <<"B">>
    BY <1>3, <2>4, OtherSigns
  <2>5. CASE c = <<"SP">>
    BY <1>3, <2>5, OtherSigns
  <2>6. CASE System[s.code].type = "sjis" /\ c \in {Letter["kana"], Letter["jp"]}
    <3>1. Letter["kana"] = <<"kana", "B+">> /\ Letter["jp"] = <<"jp", "B+", "C+">>
      BY DEF Letter
    <3> QED
      BY <2>6, <3>1, SjisLetter
  <2> QED
    BY <2>1, <2>2, <2>3, <2>4, <2>5, <2>6 DEF Plain
<1> QED
  BY <1>1, <1>2, <1>3

LEMMA EndAdds ==
  ASSUME NEW s, Boundary(s)
  PROVE  \E v : v = Put(s, "END") /\ Adds(s, v, <<>>)
<1>1. Put(s, "END") = PutEnd(s)
  BY DEF Put
<1>2. s.ch = <<>> /\ System[s.code].type \in {"iso", "sjis", "autoconv"}
  BY OtherSeen, SystemFields
<1>3. CASE System[s.code].type = "iso"
  <2>1. InStep(s)
    BY <1>3 DEF Boundary
  <2>2. PICK v : v = Reset(s) /\ Silent(s, v) /\ v.cmp = "no"
    BY <2>1, ResetSilent
  <2>3. PICK c : c = <<>>
    OBVIOUS
  <2>4. c # <<"LF">> /\ c # <<"CR">>
    BY <2>3
  <2>5. Adds(s, v, c)
    BY <2>1, <2>2, <2>3, <2>4, SaysAdds DEF Silent
  <2>6. v = Put(s, "END")
    BY <1>1, <1>2, <1>3, <2>2 DEF PutEnd
  <2> QED
    BY <2>3, <2>5, <2>6
<1>4. CASE System[s.code].type # "iso"
  <2>1. s = Put(s, "END")
    BY <1>1, <1>4 DEF PutEnd
  <2>2. s.out \in Seq(Bytes) /\ ReadText(Seen(s)) \in Seq(Bytes)
    BY OtherSeen
  <2>3. PICK c : c = <<>>
    OBVIOUS
  <2>4. c # <<"LF">> /\ c # <<"CR">> /\ EndOf(c, s.eol) = c /\ c \in Seq(Quiet)
    BY <2>3, QuietSigns, QuietOnes DEF EndOf
  <2>5. s.out = (s.out \o c) \o EndOf(c, s.eol) /\ ReadText(Seen(s)) = ReadText(Seen(s)) \o c
    BY <2>2, <2>3, <2>4, Nothing
  <2>6. Adds(s, s, c)
    BY <2>4, <2>5 DEF Adds
  <2> QED
    BY <2>1, <2>3, <2>6
<1> QED
  BY <1>3, <1>4

LEMMA NewWriterIs ==
  ASSUME NEW c \in DOMAIN System, NEW e \in AnyEnd, NEW s, s = NewWriter(c, e)
  PROVE  /\ s \in Writers /\ s.code = c /\ s.eol = e /\ s.g = System[c].g /\ s.shifted = FALSE
         /\ s.rtl = FALSE /\ s.cmp = "no" /\ s.ch = <<>> /\ s.out = <<>>
<1>1. System[c].g \in Graphics /\ System[c].announced \in SUBSET Slots
  BY SystemFields
<1>2. <<>> \in Seq(Bytes) /\ 0 \in Slots /\ "no" \in Marks
  BY Nothing DEF Slots, Marks
<1>3. s = [code |-> c, eol |-> e, g |-> System[c].g, announce |-> System[c].announced, in |-> 0,
           shifted |-> FALSE, rtl |-> FALSE, cmp |-> "no", ch |-> <<>>, out |-> <<>>]
  BY DEF NewWriter
<1> QED
  BY <1>1, <1>2, <1>3 DEF Writers

LEMMA NewReaderIs ==
  ASSUME NEW c \in DOMAIN System, NEW e \in AnyEnd \union {"auto"}, NEW z, z = NewReader(c, e)
  PROVE  /\ z \in Readers /\ z.code = c /\ z.eol = e /\ Blank(z) /\ z.cr = FALSE /\ z.out = <<>>
         /\ Calm(z) /\ ReadText(z) = <<>>
<1>1. System[c].g \in Graphics
  BY SystemFields
<1>2. <<>> \in Seq(Bytes) /\ <<>> \o <<>> = <<>>
  BY Nothing
<1>3. z = [code |-> c, eol |-> e, g |-> System[c].g, esc |-> <<>>, single |-> 0, shifted |-> FALSE,
           rtl |-> FALSE, cmp |-> FALSE, cr |-> FALSE, ch |-> <<>>, out |-> <<>>]
  BY DEF NewReader
<1>4. /\ z \in Readers /\ z.code = c /\ z.eol = e /\ Blank(z) /\ z.cr = FALSE /\ z.out = <<>>
  BY <1>1, <1>2, <1>3 DEF Readers, Blank
<1>5. Calm(z)
  BY <1>4 DEF Calm, Blank
<1>6. ReadText(z) = <<>>
  BY <1>2, <1>4 DEF ReadText, When
<1> QED
  BY <1>4, <1>5, <1>6

LEMMA Beginning ==
  ASSUME NEW c \in DOMAIN System, c # "ss3_7", NEW e \in AnyEnd
  PROVE  \E s : /\ s = NewWriter(c, e) /\ Boundary(s) /\ s.code = c /\ s.eol = e /\ s.out = <<>>
                /\ Seen(s) = NewReader(c, e) /\ ReadText(Seen(s)) = <<>>
<1>1. PICK s, z : s = NewWriter(c, e) /\ z = NewReader(c, e)
  OBVIOUS
<1>2. /\ s \in Writers /\ s.code = c /\ s.eol = e /\ s.g = System[c].g /\ s.shifted = FALSE
      /\ s.rtl = FALSE /\ s.cmp = "no" /\ s.ch = <<>> /\ s.out = <<>>
  <2>1. \A x : x = NewWriter(c, e) =>
           /\ x \in Writers /\ x.code = c /\ x.eol = e /\ x.g = System[c].g /\ x.shifted = FALSE
           /\ x.rtl = FALSE /\ x.cmp = "no" /\ x.ch = <<>> /\ x.out = <<>>
    BY NewWriterIs
  <2> QED
    BY <1>1, <2>1
<1>3. /\ z \in Readers /\ z.code = c /\ z.eol = e /\ Blank(z) /\ z.cr = FALSE /\ z.out = <<>>
      /\ Calm(z) /\ ReadText(z) = <<>>
  <2>1. e \in AnyEnd \union {"auto"}
    OBVIOUS
  <2>2. \A x : x = NewReader(c, e) =>
           /\ x \in Readers /\ x.code = c /\ x.eol = e /\ Blank(x) /\ x.cr = FALSE /\ x.out = <<>>
           /\ Calm(x) /\ ReadText(x) = <<>>
    BY <2>1, NewReaderIs, ZenonT(60)
  <2> QED
    BY <1>1, <2>2
<1>4. Seen(s) = z
  BY <1>1, <1>2, GetAllNone DEF Seen
<1>5. ASSUME System[c].type = "iso" PROVE InStep(s)
  <2>1. Regular(System[c])
    BY <1>5, SystemsArePlausible
  <2>2. Agreeing(s, z)
    BY <1>2, <1>3 DEF Agreeing, Blank
  <2>3. Sound(s)
    <3>1. Set["ascii"].type = "94" /\ Inv # "ascii"
      BY SetIs DEF Inv
    <3> QED
      BY <1>2, <2>1, <3>1 DEF Sound, Regular, Flag
  <2> QED
    BY <1>2, <1>4, <1>5, <2>2, <2>3 DEF InStep
<1>6. Boundary(s)
  BY <1>2, <1>3, <1>4, <1>5 DEF Boundary
<1> QED
  BY <1>1, <1>2, <1>3, <1>4, <1>6

UpTo(s, j, x) == {i \in 1 .. j : s[i] = x}
EndByte(e) == IF e = "CR" THEN "CR" ELSE "LF"

LEMMA Parted ==
  ASSUME NEW a \in Seq(Bytes), NEW b \in Seq(Bytes)
  PROVE  /\ a \o b \in Seq(Bytes) /\ Len(a) \in Nat /\ Len(b) \in Nat /\ Len(a \o b) = Len(a) + Len(b)
         /\ \A i \in 1 .. Len(a) : (a \o b)[i] = a[i]
         /\ \A i \in 1 .. Len(b) : (a \o b)[Len(a) + i] = b[i]
         /\ \A i \in 1 .. Len(a \o b) : i <= Len(a) \/ \E j \in 1 .. Len(b) : i = Len(a) + j
<1>1. a \o b \in Seq(Bytes) /\ Len(a) \in Nat /\ Len(b) \in Nat /\ Len(a \o b) = Len(a) + Len(b)
  OBVIOUS
<1>2. \A i \in 1 .. Len(a) : (a \o b)[i] = a[i]
  OBVIOUS
<1>3. \A i \in 1 .. Len(b) : (a \o b)[Len(a) + i] = b[i]
  OBVIOUS
<1>4. ASSUME NEW i \in 1 .. Len(a \o b) PROVE i <= Len(a) \/ \E j \in 1 .. Len(b) : i = Len(a) + j
  <2>1. CASE i > Len(a)
    <3>1. i - Len(a) \in 1 .. Len(b) /\ i = Len(a) + (i - Len(a))
      BY <1>1, <2>1
    <3> QED
      BY <3>1
  <2> QED
    BY <1>1, <2>1
<1> QED
  BY <1>1, <1>2, <1>3, <1>4

LEMMA UpToFinite ==
  ASSUME NEW s, NEW j \in Nat, NEW x
  PROVE  IsFiniteSet(UpTo(s, j, x)) /\ Cardinality(UpTo(s, j, x)) \in Nat
<1>1. IsFiniteSet(1 .. j)
  BY FS_Interval
<1>2. UpTo(s, j, x) \subseteq 1 .. j
  BY DEF UpTo
<1> QED
  BY <1>1, <1>2, FS_Subset, FS_CardinalityType

LEMMA NoMore ==
  ASSUME NEW a \in Seq(Bytes), NEW b \in Seq(Bytes), NEW x, \A i \in 1 .. Len(b) : b[i] # x
  PROVE  UpTo(a \o b, Len(a \o b), x) = UpTo(a, Len(a), x)
<1>1. PICK o : o = a \o b
  OBVIOUS
<1>2. /\ Len(a) \in Nat /\ Len(b) \in Nat /\ Len(o) = Len(a) + Len(b)
      /\ \A i \in 1 .. Len(a) : o[i] = a[i]
      /\ \A i \in 1 .. Len(b) : o[Len(a) + i] = b[i]
      /\ \A i \in 1 .. Len(o) : i <= Len(a) \/ \E j \in 1 .. Len(b) : i = Len(a) + j
  BY <1>1, Parted
<1>3. ASSUME NEW i \in 1 .. Len(o), o[i] = x PROVE i \in 1 .. Len(a) /\ a[i] = x
  <2>1. CASE i <= Len(a)
    BY <1>2, <1>3, <2>1
  <2>2. CASE \E j \in 1 .. Len(b) : i = Len(a) + j
    BY <1>2, <1>3, <2>2
  <2> QED
    BY <1>2, <2>1, <2>2
<1>4. ASSUME NEW i \in 1 .. Len(a), a[i] = x PROVE i \in 1 .. Len(o) /\ o[i] = x
  BY <1>2, <1>4
<1> QED
  BY <1>1, <1>3, <1>4 DEF UpTo

LEMMA OneMore ==
  ASSUME NEW a \in Seq(Bytes), NEW x \in Bytes
  PROVE  \E o : /\ o = a \o << x >>
                /\ o \in Seq(Bytes) /\ Len(o) = Len(a) + 1 /\ o[Len(o)] = x /\ Len(a) \in Nat
                /\ \A i \in 1 .. Len(a) : o[i] = a[i]
                /\ Cardinality(UpTo(o, Len(o), x)) = Cardinality(UpTo(a, Len(a), x)) + 1
<1>0. PICK o : o = a \o << x >>
  OBVIOUS
<1>1. /\ o \in Seq(Bytes) /\ Len(o) = Len(a) + 1 /\ o[Len(o)] = x /\ Len(a) \in Nat
      /\ \A i \in 1 .. Len(a) : o[i] = a[i]
  BY <1>0
<1>2. UpTo(o, Len(o), x) = UpTo(a, Len(a), x) \union {Len(o)}
  <2>1. ASSUME NEW i \in 1 .. Len(o), o[i] = x PROVE i = Len(o) \/ (i \in 1 .. Len(a) /\ a[i] = x)
    BY <1>1, <2>1
  <2>2. ASSUME NEW i \in 1 .. Len(a), a[i] = x PROVE i \in 1 .. Len(o) /\ o[i] = x
    BY <1>1, <2>2
  <2>3. Len(o) \in 1 .. Len(o)
    BY <1>1
  <2> QED
    BY <1>1, <2>1, <2>2, <2>3 DEF UpTo
<1>3. Len(o) \notin UpTo(a, Len(a), x)
  BY <1>1 DEF UpTo
<1> QED
  <2>1. IsFiniteSet(UpTo(a, Len(a), x))
    BY <1>1, UpToFinite
  <2>2. Cardinality(UpTo(a, Len(a), x) \union {Len(o)}) = Cardinality(UpTo(a, Len(a), x)) + 1
    BY <1>3, <2>1, FS_AddElement
  <2> QED
    BY <1>0, <1>1, <1>2, <2>2

LEMMA SamePrefix ==
  ASSUME NEW a \in Seq(Bytes), NEW b \in Seq(Bytes), NEW j \in 0 .. Len(a)
  PROVE  /\ SubSeq(a \o b, 1, j) = SubSeq(a, 1, j)
         /\ \A x : UpTo(a \o b, j, x) = UpTo(a, j, x)
<1>1. PICK o : o = a \o b
  OBVIOUS
<1>2. /\ o \in Seq(Bytes) /\ Len(a) \in Nat /\ Len(b) \in Nat /\ Len(o) = Len(a) + Len(b)
      /\ \A i \in 1 .. Len(a) : o[i] = a[i]
  BY <1>1, Parted
<1>3. \A i \in 1 .. j : o[i] = a[i]
  BY <1>2
<1>4. \A x : UpTo(o, j, x) = UpTo(a, j, x)
  BY <1>3 DEF UpTo
<1>5. SubSeq(o, 1, j) = SubSeq(a, 1, j)
  <2>1. SubSeq(o, 1, j) = [i \in 1 .. j |-> o[i]]
    BY <1>2
  <2>2. SubSeq(a, 1, j) = [i \in 1 .. j |-> a[i]]
    BY <1>2
  <2> QED
    BY <1>3, <2>1, <2>2
<1> QED
  BY <1>1, <1>4, <1>5

LEMMA WholeIs ==
  ASSUME NEW a \in Seq(Bytes)
  PROVE  SubSeq(a, 1, Len(a)) = a
<1>1. Len(a) \in Nat /\ a = [i \in 1 .. Len(a) |-> a[i]]
  OBVIOUS
<1>2. SubSeq(a, 1, Len(a)) = [i \in 1 .. Len(a) |-> a[i]]
  BY <1>1
<1> QED
  BY <1>1, <1>2

LEMMA LineEndParts ==
  ASSUME NEW e \in AnyEnd
  PROVE  /\ EndByte(e) \in Bytes /\ Last(LineEnd(e)) = EndByte(e) /\ LineEnd(e) \in Seq(Bytes)
         /\ \E p \in Seq(Bytes) : /\ LineEnd(e) = p \o << EndByte(e) >>
                                  /\ \A i \in 1 .. Len(p) : p[i] # EndByte(e)
<1>1. EndByte(e) \in Bytes /\ "CR" \in Bytes
  BY SignsAre, Zenon DEF EndByte
<1>2. LineEnd(e) \in Seq(Bytes)
  BY LineEndIs
<1>3. CASE e # "CRLF"
  <2>1. LineEnd(e) = << EndByte(e) >>
    BY <1>3 DEF LineEnd, EndByte, AnyEnd
  <2>2. Last(LineEnd(e)) = EndByte(e)
    BY <2>1 DEF Last
  <2>3. PICK p \in Seq(Bytes) : p = <<>>
    <3>1. <<>> \in Seq(Bytes)
      OBVIOUS
    <3> QED
      BY <3>1
  <2>4. LineEnd(e) = p \o << EndByte(e) >>
    BY <1>1, <2>1, <2>3
  <2>5. \A i \in 1 .. Len(p) : p[i] # EndByte(e)
    BY <2>3
  <2> QED
    BY <1>1, <1>2, <2>2, <2>3, <2>4, <2>5
<1>4. CASE e = "CRLF"
  <2>1. LineEnd(e) = <<"CR", "LF">> /\ EndByte(e) = "LF"
    BY <1>4 DEF LineEnd, EndByte
  <2>2. Last(LineEnd(e)) = EndByte(e)
    BY <2>1 DEF Last
  <2>3. PICK p \in Seq(Bytes) : p = <<"CR">>
    BY SignSequences
  <2>4. LineEnd(e) = p \o << EndByte(e) >>
    BY <2>1, <2>3
  <2>5. \A i \in 1 .. Len(p) : p[i] # EndByte(e)
    BY <2>1, <2>3
  <2> QED
    BY <1>1, <1>2, <2>2, <2>4, <2>5
<1> QED
  BY <1>3, <1>4

Clean(o, e) ==
  /\ e = "LF" => \A i \in 1 .. Len(o) : o[i] # "CR"
  /\ e = "CR" => \A i \in 1 .. Len(o) : o[i] # "LF"
  /\ e = "CRLF" => \A i \in 1 .. Len(o) : /\ o[i] = "LF" => i > 1 /\ o[i - 1] = "CR"
                                          /\ o[i] = "CR" => i < Len(o) /\ o[i + 1] = "LF"

LEMMA CleanQuiet ==
  ASSUME NEW o \in Seq(Bytes), NEW e \in AnyEnd, Clean(o, e), NEW d \in Seq(Quiet)
  PROVE  Clean(o \o d, e)
<1>1. d \in Seq(Bytes) /\ Len(d) \in Nat
  BY QuietJoined
<1>2. PICK u : u = o \o d
  OBVIOUS
<1>3. /\ Len(o) \in Nat /\ Len(d) \in Nat /\ Len(u) = Len(o) + Len(d)
      /\ \A i \in 1 .. Len(o) : u[i] = o[i]
      /\ \A i \in 1 .. Len(d) : u[Len(o) + i] = d[i]
      /\ \A i \in 1 .. Len(u) : i <= Len(o) \/ \E j \in 1 .. Len(d) : i = Len(o) + j
  BY <1>1, <1>2, Parted
<1>4. \A i \in 1 .. Len(d) : d[i] # "LF" /\ d[i] # "CR"
  BY <1>1 DEF Quiet, Cntl
<1>5. \A i \in 1 .. Len(u) : u[i] = "LF" \/ u[i] = "CR" => i \in 1 .. Len(o) /\ u[i] = o[i]
  <2>1. ASSUME NEW i \in 1 .. Len(u), u[i] = "LF" \/ u[i] = "CR" PROVE i \in 1 .. Len(o) /\ u[i] = o[i]
    <3>1. CASE i <= Len(o)
      BY <1>3, <3>1
    <3>2. CASE \E j \in 1 .. Len(d) : i = Len(o) + j
      BY <1>3, <1>4, <2>1, <3>2
    <3> QED
      BY <1>3, <3>1, <3>2
  <2> QED
    BY <2>1
<1>6. CASE e = "CRLF"
  <2>1. ASSUME NEW i \in 1 .. Len(u), u[i] = "LF" PROVE i > 1 /\ u[i - 1] = "CR"
    <3>1. i \in 1 .. Len(o) /\ o[i] = "LF"
      BY <1>5, <2>1
    <3>2. i > 1 /\ o[i - 1] = "CR"
      BY <1>6, <3>1 DEF Clean
    <3>3. i - 1 \in 1 .. Len(o)
      BY <1>3, <3>1, <3>2
    <3> QED
      BY <1>3, <3>2, <3>3
  <2>2. ASSUME NEW i \in 1 .. Len(u), u[i] = "CR" PROVE i < Len(u) /\ u[i + 1] = "LF"
    <3>1. i \in 1 .. Len(o) /\ o[i] = "CR"
      BY <1>5, <2>2
    <3>2. i < Len(o) /\ o[i + 1] = "LF"
      BY <1>6, <3>1 DEF Clean
    <3>3. i + 1 \in 1 .. Len(o)
      BY <1>3, <3>1, <3>2
    <3> QED
      BY <1>3, <3>2, <3>3
  <2> QED
    BY <1>2, <1>6, <2>1, <2>2 DEF Clean
<1>7. CASE e = "LF" \/ e = "CR"
  BY <1>2, <1>5, <1>7 DEF Clean
<1> QED
  BY <1>6, <1>7 DEF AnyEnd

LEMMA CleanLine ==
  ASSUME NEW o \in Seq(Bytes), NEW e \in AnyEnd, Clean(o, e)
  PROVE  Clean(o \o LineEnd(e), e)
<1>1. PICK d \in Seq(Bytes) : d = LineEnd(e)
  BY LineEndIs
<1>2. PICK u : u = o \o d
  OBVIOUS
<1>3. /\ Len(o) \in Nat /\ Len(d) \in Nat /\ Len(u) = Len(o) + Len(d)
      /\ \A i \in 1 .. Len(o) : u[i] = o[i]
      /\ \A i \in 1 .. Len(d) : u[Len(o) + i] = d[i]
      /\ \A i \in 1 .. Len(u) : i <= Len(o) \/ \E j \in 1 .. Len(d) : i = Len(o) + j
  BY <1>1, <1>2, Parted
<1>4. CASE e = "CRLF"
  <2>1. d = <<"CR", "LF">>
    BY <1>1, <1>4 DEF LineEnd
  <2>2. /\ Len(d) = 2 /\ d[1] = "CR" /\ d[2] = "LF" /\ "CR" # "LF"
    BY <2>1
  <2>3. u[Len(o) + 1] = "CR" /\ u[Len(o) + 2] = "LF" /\ Len(u) = Len(o) + 2
    BY <1>3, <2>2
  <2>4. \A i \in 1 .. Len(u) : i \in 1 .. Len(o) \/ i = Len(o) + 1 \/ i = Len(o) + 2
    <3>1. Len(o) \in Nat /\ Len(u) = Len(o) + 2
      BY <1>3, <2>3
    <3> QED
      BY <3>1
  <2>5. ASSUME NEW i \in 1 .. Len(o)
        PROVE  /\ u[i] = "LF" => i > 1 /\ u[i - 1] = "CR"
               /\ u[i] = "CR" => i < Len(u) /\ u[i + 1] = "LF"
    <3>1. /\ o[i] = "LF" => i > 1 /\ o[i - 1] = "CR"
          /\ o[i] = "CR" => i < Len(o) /\ o[i + 1] = "LF"
      BY <1>4 DEF Clean
    <3>2. ASSUME u[i] = "LF" PROVE i > 1 /\ u[i - 1] = "CR"
      <4>1. i > 1 /\ o[i - 1] = "CR" /\ i - 1 \in 1 .. Len(o)
        BY <1>3, <3>1, <3>2
      <4> QED
        BY <1>3, <4>1
    <3>3. ASSUME u[i] = "CR" PROVE i < Len(u) /\ u[i + 1] = "LF"
      <4>1. i < Len(o) /\ o[i + 1] = "LF" /\ i + 1 \in 1 .. Len(o)
        BY <1>3, <3>1, <3>3
      <4> QED
        BY <1>3, <4>1
    <3> QED
      BY <3>2, <3>3
  <2>6. ASSUME NEW i \in 1 .. Len(u)
        PROVE  /\ u[i] = "LF" => i > 1 /\ u[i - 1] = "CR"
               /\ u[i] = "CR" => i < Len(u) /\ u[i + 1] = "LF"
    <3>1. CASE i \in 1 .. Len(o)
      BY <2>5, <3>1
    <3>2. CASE i = Len(o) + 1
      BY <1>3, <2>2, <2>3, <3>2
    <3>3. CASE i = Len(o) + 2
      <4>1. i - 1 = Len(o) + 1 /\ i > 1
        BY <1>3, <3>3
      <4> QED
        BY <2>2, <2>3, <3>3, <4>1
    <3> QED
      BY <2>4, <3>1, <3>2, <3>3
  <2> QED
    BY <1>1, <1>2, <1>4, <2>6 DEF Clean
<1>5. CASE e = "LF" \/ e = "CR"
  <2>1. d = << e >>
    BY <1>1, <1>5 DEF LineEnd
  <2>2. Len(d) = 1 /\ d[1] = e
    BY <2>1
  <2>3. \A i \in 1 .. Len(u) : (i \in 1 .. Len(o) /\ u[i] = o[i]) \/ u[i] = e
    BY <1>3, <2>2
  <2>4. CASE e = "LF"
    BY <1>1, <1>2, <2>3, <2>4 DEF Clean
  <2>5. CASE e = "CR"
    BY <1>1, <1>2, <2>3, <2>5 DEF Clean
  <2> QED
    BY <1>5, <2>4, <2>5
<1> QED
  BY <1>4, <1>5 DEF AnyEnd

LineAt(s, t, i, k) ==
  /\ t[k] = "LF"
  /\ Cardinality(UpTo(t, k, "LF")) = Cardinality(UpTo(s.out, i, EndByte(s.eol)))
  /\ GetAll(NewReader(s.code, s.eol), SubSeq(s.out, 1, i)) = Fresh(s.code, s.eol, SubSeq(t, 1, k))
Lined(s, t) ==
  \A i \in 1 .. Len(s.out) : s.out[i] = EndByte(s.eol) => \E k \in 1 .. Len(t) : LineAt(s, t, i, k)
Counted(s, t) ==
  Cardinality(UpTo(t, Len(t), "LF")) = Cardinality(UpTo(s.out, Len(s.out), EndByte(s.eol)))
Told(s, t) ==
  /\ Boundary(s) /\ t \in Seq(Bytes) /\ ReadText(Seen(s)) = t
  /\ Counted(s, t) /\ Lined(s, t)
  /\ (\A k \in 1 .. Len(t) : t[k] # "CR") => Clean(s.out, s.eol)

(* How much is written for a character, by the byte that ends the lines.  *)
LEMMA AddsParts ==
  ASSUME NEW s, Boundary(s), NEW v, NEW c, Adds(s, v, c), s.eol = "CR" => c # <<"CR">>,
         NEW x, x = EndByte(s.eol)
  PROVE  \E f \in Seq(Bytes) : /\ \A i \in 1 .. Len(f) : f[i] # x
                               /\ s.out \o f \in Seq(Bytes)
                               /\ v.out = IF c = <<"LF">> THEN (s.out \o f) \o << x >> ELSE s.out \o f
<1>1. PICK d \in Seq(Quiet) : v.out = (s.out \o d) \o EndOf(c, s.eol)
  BY DEF Adds
<1>2. s.out \in Seq(Bytes) /\ s.eol \in AnyEnd
  BY OtherSeen
<1>3. d \in Seq(Bytes) /\ \A i \in 1 .. Len(d) : d[i] # x
  BY <1>1, QuietJoined DEF Quiet, Cntl, EndByte
<1>4. PICK o \in Seq(Bytes) : o = s.out
  BY <1>2
<1>5. \A a, b, e \in Seq(Bytes) : (a \o b) \o e = a \o (b \o e) /\ a \o b \in Seq(Bytes)
  BY Associates, ZenonT(60)
<1>6. ASSUME NEW p \in Seq(Bytes), \A i \in 1 .. Len(p) : p[i] # x
      PROVE  d \o p \in Seq(Bytes) /\ \A i \in 1 .. Len(d \o p) : (d \o p)[i] # x
  <2>1. PICK f : f = d \o p
    OBVIOUS
  <2>2. /\ f \in Seq(Bytes) /\ Len(d) \in Nat
        /\ \A i \in 1 .. Len(d) : f[i] = d[i]
        /\ \A i \in 1 .. Len(p) : f[Len(d) + i] = p[i]
        /\ \A i \in 1 .. Len(f) : i <= Len(d) \/ \E j \in 1 .. Len(p) : i = Len(d) + j
    BY <1>3, <2>1, Parted
  <2>3. ASSUME NEW i \in 1 .. Len(f) PROVE f[i] # x
    BY <1>3, <1>6, <2>2, SMTT(40)
  <2> QED
    BY <2>1, <2>2, <2>3
<1>7. CASE c = <<"LF">>
  <2>1. EndOf(c, s.eol) = LineEnd(s.eol)
    BY <1>7 DEF EndOf
  <2>2. PICK p \in Seq(Bytes) : LineEnd(s.eol) = p \o << x >> /\ \A i \in 1 .. Len(p) : p[i] # x
    BY <1>2, LineEndParts
  <2>3. x \in Bytes /\ << x >> \in Seq(Bytes)
    <3>1. EndByte(s.eol) \in Bytes
      BY <1>2, LineEndParts
    <3> QED
      BY <3>1, TwoJoined
  <2>4. PICK f : f = d \o p
    OBVIOUS
  <2>5. f \in Seq(Bytes) /\ \A i \in 1 .. Len(f) : f[i] # x
    BY <1>6, <2>2, <2>4
  <2>6. v.out = (o \o d) \o (p \o << x >>)
    BY <1>1, <1>4, <2>1, <2>2
  <2>7. (o \o d) \o (p \o << x >>) = ((o \o d) \o p) \o << x >>
    BY <1>3, <1>5, <2>2, <2>3
  <2>8. (o \o d) \o p = o \o f /\ o \o f \in Seq(Bytes)
    BY <1>3, <1>5, <2>2, <2>4, <2>5, ZenonT(60)
  <2>9. v.out = (s.out \o f) \o << x >> /\ s.out \o f \in Seq(Bytes)
    BY <1>4, <2>6, <2>7, <2>8
  <2> QED
    BY <1>7, <2>5, <2>9
<1>8. CASE c # <<"LF">>
  <2>1. PICK p \in Seq(Bytes) : p = EndOf(c, s.eol) /\ \A i \in 1 .. Len(p) : p[i] # x
    <3>1. CASE c = <<"CR">>
      <4>1. PICK p \in Seq(Bytes) : p = <<"CR">>
        BY SignSequences
      <4>2. x = "LF" /\ "LF" # "CR"
        BY <3>1 DEF EndByte
      <4>3. p = EndOf(c, s.eol)
        BY <1>8, <3>1, <4>1 DEF EndOf
      <4>4. Len(p) = 1 /\ p[1] = "CR"
        BY <4>1
      <4>5. \A i \in 1 .. Len(p) : p[i] # x
        BY <4>2, <4>4
      <4> QED
        BY <4>3, <4>5
    <3>2. CASE c # <<"CR">>
      <4>1. EndOf(c, s.eol) = <<>>
        BY <1>8, <3>2 DEF EndOf
      <4>2. <<>> \in Seq(Bytes)
        OBVIOUS
      <4>3. PICK p \in Seq(Bytes) : p = <<>>
        BY <4>2
      <4>4. \A i \in 1 .. Len(p) : p[i] # x
        BY <4>3
      <4> QED
        BY <4>1, <4>3, <4>4
    <3> QED
      BY <3>1, <3>2
  <2>4. PICK f : f = d \o p
    OBVIOUS
  <2>5. f \in Seq(Bytes) /\ \A i \in 1 .. Len(f) : f[i] # x
    BY <1>6, <2>1, <2>4
  <2>6. (o \o d) \o p = o \o f /\ o \o f \in Seq(Bytes)
    BY <1>3, <1>5, <2>1, <2>4, <2>5
  <2>7. v.out = s.out \o f /\ s.out \o f \in Seq(Bytes)
    BY <1>1, <1>4, <2>1, <2>6
  <2> QED
    BY <1>8, <2>5, <2>7
<1> QED
  BY <1>7, <1>8

LEMMA LineKept ==
  ASSUME NEW s, NEW t \in Seq(Bytes), NEW c \in Seq(Bytes), NEW v, NEW f \in Seq(Bytes),
         s.out \in Seq(Bytes), v.out = s.out \o f, v.code = s.code, v.eol = s.eol,
         NEW i \in 1 .. Len(s.out), NEW k \in 1 .. Len(t), LineAt(s, t, i, k)
  PROVE  LineAt(v, t \o c, i, k) /\ k \in 1 .. Len(t \o c)
<1>1. PICK o \in Seq(Bytes) : o = s.out
  OBVIOUS
<1>2. PICK u : u = t \o c
  OBVIOUS
<1>3. Len(o) \in Nat /\ Len(t) \in Nat /\ i \in 0 .. Len(o) /\ k \in 0 .. Len(t)
  BY <1>1
<1>4. v.out = o \o f
  BY <1>1
<1>5. SubSeq(v.out, 1, i) = SubSeq(o, 1, i) /\ (\A x : UpTo(v.out, i, x) = UpTo(o, i, x))
  BY <1>3, <1>4, SamePrefix
<1>6. SubSeq(u, 1, k) = SubSeq(t, 1, k) /\ (\A x : UpTo(u, k, x) = UpTo(t, k, x))
  BY <1>2, <1>3, SamePrefix
<1>7. u[k] = t[k] /\ k \in 1 .. Len(u)
  <2>1. /\ Len(u) = Len(t) + Len(c) /\ Len(c) \in Nat
        /\ \A j \in 1 .. Len(t) : u[j] = t[j]
    BY <1>2, Parted
  <2> QED
    BY <1>3, <2>1
<1>8. LineAt(v, u, i, k)
  BY <1>1, <1>5, <1>6, <1>7 DEF LineAt
<1> QED
  BY <1>2, <1>7, <1>8

LEMMA ToldClean ==
  ASSUME NEW s, NEW t, Told(s, t), NEW v, NEW c \in Seq(Bytes), Adds(s, v, c),
         \A k \in 1 .. Len(t \o c) : (t \o c)[k] # "CR"
  PROVE  Clean(v.out, v.eol)
<1>1. t \in Seq(Bytes) /\ Boundary(s) /\ v.eol = s.eol
  BY DEF Told, Adds
<1>2. s.out \in Seq(Bytes) /\ s.eol \in AnyEnd
  BY <1>1, OtherSeen
<1>3. PICK u : u = t \o c
  OBVIOUS
<1>4. /\ Len(t) \in Nat /\ Len(c) \in Nat /\ Len(u) = Len(t) + Len(c)
      /\ \A i \in 1 .. Len(t) : u[i] = t[i]
      /\ \A i \in 1 .. Len(c) : u[Len(t) + i] = c[i]
  BY <1>1, <1>3, Parted
<1>5. \A k \in 1 .. Len(u) : u[k] # "CR"
  BY <1>3
<1>6. \A k \in 1 .. Len(t) : t[k] # "CR"
  BY <1>4, <1>5
<1>7. Clean(s.out, s.eol)
  BY <1>6 DEF Told
<1>8. c # <<"CR">>
  <2>1. ASSUME c = <<"CR">> PROVE FALSE
    <3>1. Len(c) = 1 /\ c[1] = "CR"
      BY <2>1
    <3>2. u[Len(t) + 1] = "CR" /\ Len(t) + 1 \in 1 .. Len(u)
      BY <1>4, <3>1
    <3> QED
      BY <1>5, <3>2
  <2> QED
    BY <2>1
<1>9. PICK d \in Seq(Quiet) : v.out = (s.out \o d) \o EndOf(c, s.eol)
  BY DEF Adds
<1>10. PICK o : o = s.out \o d
  OBVIOUS
<1>11. o \in Seq(Bytes) /\ Clean(o, s.eol)
  <2>1. Clean(o, s.eol)
    BY <1>2, <1>7, <1>10, CleanQuiet
  <2>2. d \in Seq(Bytes)
    BY QuietJoined
  <2> QED
    BY <1>2, <1>10, <2>1, <2>2, Parted
<1>12. CASE c = <<"LF">>
  <2>1. v.out = o \o LineEnd(s.eol)
    BY <1>9, <1>10, <1>12 DEF EndOf
  <2> QED
    BY <1>1, <1>2, <1>11, <2>1, CleanLine
<1>13. CASE c # <<"LF">>
  <2>1. v.out = o \o <<>>
    BY <1>8, <1>9, <1>10, <1>13 DEF EndOf
  <2>2. v.out = o
    BY <1>11, <2>1, Nothing
  <2> QED
    BY <1>1, <1>11, <2>2
<1> QED
  BY <1>12, <1>13

LEMMA ToldAdds ==
  ASSUME NEW s, NEW t, Told(s, t), NEW v, NEW c \in Seq(Bytes), Adds(s, v, c),
         s.eol = "CR" => c # <<"CR">>, c = <<"LF">> \/ (\A i \in 1 .. Len(c) : c[i] # "LF")
  PROVE  Told(v, t \o c)
<1>1. /\ Boundary(s) /\ t \in Seq(Bytes) /\ ReadText(Seen(s)) = t /\ Counted(s, t) /\ Lined(s, t)
  BY DEF Told
<1>2. /\ Boundary(v) /\ v.code = s.code /\ v.eol = s.eol /\ ReadText(Seen(v)) = t \o c
      /\ c = <<"LF">> => Seen(v) = Fresh(v.code, v.eol, Seen(v).out)
  BY <1>1 DEF Adds
<1>3. PICK x : x = EndByte(s.eol)
  OBVIOUS
<1>4. s.out \in Seq(Bytes) /\ s.eol \in AnyEnd /\ v.out \in Seq(Bytes) /\ x \in Bytes
  BY <1>1, <1>2, <1>3, OtherSeen, LineEndParts
<1>5. PICK f \in Seq(Bytes) : /\ \A i \in 1 .. Len(f) : f[i] # x
                              /\ s.out \o f \in Seq(Bytes)
                              /\ v.out = IF c = <<"LF">> THEN (s.out \o f) \o << x >> ELSE s.out \o f
  BY <1>1, <1>3, AddsParts
<1>6. PICK o \in Seq(Bytes) : o = s.out \o f
  BY <1>5
<1>7. PICK u : u = t \o c
  OBVIOUS
<1>8. u \in Seq(Bytes)
  BY <1>1, <1>7, Parted
<1>9. UpTo(o, Len(o), x) = UpTo(s.out, Len(s.out), x)
  BY <1>4, <1>5, <1>6, NoMore, ZenonT(60)
<1>10. /\ Len(s.out) \in Nat /\ Len(f) \in Nat /\ Len(o) = Len(s.out) + Len(f)
       /\ \A i \in 1 .. Len(o) : o[i] = x => i \in 1 .. Len(s.out) /\ s.out[i] = x
  <2>1. /\ Len(s.out) \in Nat /\ Len(f) \in Nat /\ Len(o) = Len(s.out) + Len(f)
    BY <1>4, <1>6, Parted
  <2>2. \A i : i \in UpTo(o, Len(o), x) <=> i \in UpTo(s.out, Len(s.out), x)
    BY <1>9
  <2> QED
    BY <2>1, <2>2 DEF UpTo
<1>14. (\A k \in 1 .. Len(u) : u[k] # "CR") => Clean(v.out, v.eol)
  <2>1. (\A k \in 1 .. Len(t \o c) : (t \o c)[k] # "CR") => Clean(v.out, v.eol)
    BY ToldClean
  <2> QED
    BY <1>7, <2>1
<1>15. ReadText(Seen(v)) = u
  BY <1>2, <1>7
<1>11. CASE c = <<"LF">>
  <2>1. v.out = o \o << x >> /\ u = t \o <<"LF">> /\ "LF" \in Bytes
    BY <1>5, <1>6, <1>7, <1>11, SignsAre, Zenon
  <2>2. /\ Len(v.out) = Len(o) + 1 /\ v.out[Len(v.out)] = x /\ Len(o) \in Nat
        /\ \A i \in 1 .. Len(o) : v.out[i] = o[i]
        /\ Cardinality(UpTo(v.out, Len(v.out), x)) = Cardinality(UpTo(o, Len(o), x)) + 1
    <3>1. \E q : /\ q = o \o << x >>
                 /\ q \in Seq(Bytes) /\ Len(q) = Len(o) + 1 /\ q[Len(q)] = x /\ Len(o) \in Nat
                 /\ \A i \in 1 .. Len(o) : q[i] = o[i]
                 /\ Cardinality(UpTo(q, Len(q), x)) = Cardinality(UpTo(o, Len(o), x)) + 1
      BY <1>4, OneMore
    <3> QED
      BY <2>1, <3>1
  <2>3. /\ Len(u) = Len(t) + 1 /\ u[Len(u)] = "LF" /\ Len(t) \in Nat
        /\ Cardinality(UpTo(u, Len(u), "LF")) = Cardinality(UpTo(t, Len(t), "LF")) + 1
    <3>2. PICK y \in Bytes : y = "LF"
      BY <2>1
    <3>1. \E q : /\ q = t \o << y >>
                 /\ q \in Seq(Bytes) /\ Len(q) = Len(t) + 1 /\ q[Len(q)] = y /\ Len(t) \in Nat
                 /\ \A i \in 1 .. Len(t) : q[i] = t[i]
                 /\ Cardinality(UpTo(q, Len(q), y)) = Cardinality(UpTo(t, Len(t), y)) + 1
      BY <1>1, OneMore
    <3> QED
      BY <2>1, <3>1, <3>2
  <2>4. Cardinality(UpTo(u, Len(u), "LF")) = Cardinality(UpTo(v.out, Len(v.out), x))
    BY <1>1, <1>3, <1>9, <2>2, <2>3 DEF Counted
  <2>5. Counted(v, u)
    BY <1>2, <1>3, <2>4 DEF Counted
  <2>6. LineAt(v, u, Len(v.out), Len(u))
    <3>1. SubSeq(v.out, 1, Len(v.out)) = v.out /\ SubSeq(u, 1, Len(u)) = u
      BY <1>4, <1>8, WholeIs
    <3>2. PICK z : z = Seen(v)
      OBVIOUS
    <3>3. z = Fresh(v.code, v.eol, z.out)
      BY <1>2, <1>11, <3>2
    <3>4. z \in Readers /\ z.out \in Seq(Bytes)
      <4>1. Calm(Seen(v))
        BY <1>2 DEF Boundary
      <4> QED
        BY <3>2, <4>1, ReaderFields DEF Calm
    <3>5. z.cr = FALSE
      <4>1. PICK y : y = z.out
        OBVIOUS
      <4>2. Fresh(v.code, v.eol, y).cr = FALSE
        BY DEF Fresh, NewReader
      <4> QED
        BY <3>3, <4>1, <4>2
    <3>6. z.out = u
      <4>1. ReadText(z) = z.out
        BY <3>4, <3>5, Nothing DEF ReadText, When
      <4> QED
        BY <1>2, <1>7, <3>2, <4>1
    <3>7. GetAll(NewReader(v.code, v.eol), v.out) = Fresh(v.code, v.eol, u)
      <4>1. GetAll(NewReader(v.code, v.eol), v.out) = z
        BY <3>2 DEF Seen
      <4> QED
        BY <3>3, <3>6, <4>1
    <3>8. EndByte(v.eol) = x
      BY <1>2, <1>3
    <3> QED
      BY <2>3, <2>4, <3>1, <3>7, <3>8 DEF LineAt
  <2>7. PICK g \in Seq(Bytes) : v.out = s.out \o g
    <3>1. << x >> \in Seq(Bytes) /\ (s.out \o f) \o << x >> = s.out \o (f \o << x >>)
          /\ f \o << x >> \in Seq(Bytes)
      <4>1. << x >> \in Seq(Bytes)
        BY <1>4, TwoJoined
      <4>2. PICK p \in Seq(Bytes), y \in Seq(Bytes) : p = s.out /\ y = << x >>
        BY <1>4, <4>1
      <4>3. (p \o f) \o y = p \o (f \o y) /\ f \o y \in Seq(Bytes)
        BY Associates, SMTT(40)
      <4> QED
        BY <4>2, <4>3
    <3> QED
      BY <1>6, <2>1, <3>1
  <2>8. ASSUME NEW i \in 1 .. Len(v.out), v.out[i] = x PROVE \E k \in 1 .. Len(u) : LineAt(v, u, i, k)
    <3>1. CASE i = Len(v.out)
      <4>1. Len(u) \in 1 .. Len(u)
        BY <2>3
      <4> QED
        BY <2>6, <3>1, <4>1
    <3>2. CASE i # Len(v.out)
      <4>1. i \in 1 .. Len(o)
        BY <2>2, <3>2
      <4>2. i \in 1 .. Len(s.out) /\ s.out[i] = x
        BY <1>10, <2>2, <2>8, <4>1
      <4>3. PICK k \in 1 .. Len(t) : LineAt(s, t, i, k)
        BY <1>1, <1>3, <4>2 DEF Lined
      <4>4. LineAt(v, t \o c, i, k) /\ k \in 1 .. Len(t \o c)
        BY <1>1, <1>2, <1>4, <2>7, <4>2, <4>3, LineKept
      <4> QED
        BY <1>7, <4>4
    <3> QED
      BY <3>1, <3>2
  <2>9. Lined(v, u)
    BY <1>2, <1>3, <2>8 DEF Lined
  <2> QED
    BY <1>2, <1>7, <1>8, <1>14, <1>15, <2>5, <2>9 DEF Told
<1>12. CASE c # <<"LF">>
  <2>1. v.out = o
    BY <1>5, <1>6, <1>12
  <2>2. UpTo(u, Len(u), "LF") = UpTo(t, Len(t), "LF")
    <3>1. \A i \in 1 .. Len(c) : c[i] # "LF"
      BY <1>12
    <3> QED
      BY <1>1, <1>7, <3>1, NoMore
  <2>3. Counted(v, u)
    BY <1>1, <1>2, <1>3, <1>9, <2>1, <2>2 DEF Counted
  <2>4. ASSUME NEW i \in 1 .. Len(v.out), v.out[i] = x PROVE \E k \in 1 .. Len(u) : LineAt(v, u, i, k)
    <3>1. i \in 1 .. Len(s.out) /\ s.out[i] = x
      BY <1>10, <2>1, <2>4
    <3>2. PICK k \in 1 .. Len(t) : LineAt(s, t, i, k)
      BY <1>1, <1>3, <3>1 DEF Lined
    <3>3. LineAt(v, t \o c, i, k) /\ k \in 1 .. Len(t \o c)
      BY <1>1, <1>2, <1>4, <1>6, <2>1, <3>1, <3>2, LineKept
    <3> QED
      BY <1>7, <3>3
  <2>5. Lined(v, u)
    BY <1>2, <1>3, <2>4 DEF Lined
  <2> QED
    BY <1>2, <1>7, <1>8, <1>14, <1>15, <2>3, <2>5 DEF Told
<1> QED
  BY <1>11, <1>12

IsFlat(f, s, n) == f = [i \in 1 .. n |-> IF i = 1 THEN s[i] ELSE f[i - 1] \o s[i]]

LEMMA FlatExists ==
  ASSUME NEW s, NEW n \in Nat
  PROVE  \E f : IsFlat(f, s, n)
<1>0. PICK R : R = {k \in Nat : \E f : IsFlat(f, s, k)}
  OBVIOUS
<1>1. \A k : k \in R <=> k \in Nat /\ \E f : IsFlat(f, s, k)
  BY <1>0
<1>2. 0 \in R
  <2>1. PICK f : f = [i \in 1 .. 0 |-> s]
    OBVIOUS
  <2>2. f = [i \in 1 .. 0 |-> IF i = 1 THEN s[i] ELSE f[i - 1] \o s[i]]
    BY <2>1
  <2> QED
    BY <1>1, <2>2 DEF IsFlat
<1>3. ASSUME NEW k \in 0 .. n - 1, k \in R PROVE k + 1 \in R
  <2>1. PICK f : IsFlat(f, s, k)
    BY <1>1, <1>3
  <2>2. PICK m \in Nat : /\ m = k + 1 /\ m # 0 /\ m - 1 = k /\ m \notin 1 .. k
                         /\ 1 .. m = (1 .. k) \union {m}
    OBVIOUS
  <2>3. PICK x : x = IF m = 1 THEN s[m] ELSE f[k] \o s[m]
    OBVIOUS
  <2>4. PICK h : h = [j \in 1 .. m |-> IF j = m THEN x ELSE f[j]]
    OBVIOUS
  <2>5. m \in 1 .. m /\ h[m] = x /\ \A j \in 1 .. k : h[j] = f[j]
    BY <2>2, <2>4
  <2>6. ASSUME NEW j \in 1 .. m PROVE h[j] = IF j = 1 THEN s[j] ELSE h[j - 1] \o s[j]
    <3>1. CASE j = m
      <4>1. m # 1 => h[m - 1] = f[k]
        <5>1. m # 1 => m - 1 \in 1 .. k
          BY <2>2
        <5> QED
          BY <2>2, <2>5, <5>1
      <4> QED
        BY <2>2, <2>3, <2>5, <3>1, <4>1
    <3>2. CASE j # m
      <4>1. j \in 1 .. k
        BY <2>2, <3>2
      <4>2. f[j] = IF j = 1 THEN s[j] ELSE f[j - 1] \o s[j]
        BY <2>1, <4>1 DEF IsFlat
      <4>3. j # 1 => h[j - 1] = f[j - 1]
        <5>1. j # 1 => j - 1 \in 1 .. k
          BY <4>1
        <5> QED
          BY <2>5, <5>1
      <4> QED
        BY <2>5, <4>1, <4>2, <4>3
    <3> QED
      BY <3>1, <3>2
  <2>7. IsFlat(h, s, m)
    BY <2>4, <2>6 DEF IsFlat
  <2> QED
    BY <1>1, <2>2, <2>7
<1>4. \A k \in 0 .. n : k \in R
  BY <1>2, <1>3, AllReached
<1> QED
  BY <1>1, <1>4

LEMMA FlattenIs ==
  ASSUME NEW X, NEW n \in Nat, NEW s \in [1 .. n -> X], \A x \in X : \E Y : x \in Seq(Y)
  PROVE  \E g : /\ g[0] = <<>> /\ \A i \in 1 .. n : g[i] = g[i - 1] \o s[i]
                /\ FlattenSeq(s) = g[n]
<1>1. s \in Seq(X) /\ Len(s) = n
  OBVIOUS
<1>2. PICK f : f = CHOOSE q : IsFlat(q, s, n)
  OBVIOUS
<1>3. IsFlat(f, s, n)
  BY <1>2, FlatExists
<1>4. n # 0 => FlattenSeq(s) = f[n]
  BY <1>1, <1>2 DEF FlattenSeq, IsFlat
<1>5. n = 0 => FlattenSeq(s) = <<>>
  BY <1>1 DEF FlattenSeq
<1>6. PICK g : g = [i \in 0 .. n |-> IF i = 0 THEN <<>> ELSE f[i]]
  OBVIOUS
<1>7. g[0] = <<>> /\ \A i \in 1 .. n : g[i] = f[i]
  BY <1>6
<1>8. ASSUME NEW i \in 1 .. n PROVE g[i] = g[i - 1] \o s[i]
  <2>1. f[i] = IF i = 1 THEN s[i] ELSE f[i - 1] \o s[i]
    BY <1>3 DEF IsFlat
  <2>2. CASE i = 1
    <3>1. PICK Y : s[1] \in Seq(Y)
      BY <2>2
    <3>2. <<>> \o s[1] = s[1]
      BY <3>1
    <3> QED
      BY <1>7, <2>1, <2>2, <3>2
  <2>3. CASE i # 1
    <3>1. i - 1 \in 1 .. n
      BY <2>3
    <3> QED
      BY <1>7, <2>1, <2>3, <3>1
  <2> QED
    BY <2>2, <2>3
<1>9. FlattenSeq(s) = g[n]
  BY <1>4, <1>5, <1>7
<1> QED
  BY <1>7, <1>8, <1>9

OneSign(c) ==
  /\ c \in Seq(Bytes)
  /\ c = <<"LF">> \/ (\A i \in 1 .. Len(c) : c[i] # "LF")
  /\ c = <<"CR">> \/ (\A i \in 1 .. Len(c) : c[i] # "CR")

LEMMA CharacterBytes ==
  ASSUME NEW k \in DOMAIN System, NEW c \in Characters(k)
  PROVE  OneSign(c)
<1>1. ASSUME NEW lc \in Lead PROVE OneSign(Letter[lc])
  <2>1. PICK p \in Bytes, q \in Bytes : p = "B+" /\ q = "C+"
    BY SignsAre, Zenon
  <2>2. lc \in Bytes /\ lc # "LF" /\ lc # "CR"
    BY Kinds DEF Ascii, Cntl
  <2>3. Letter[lc] = IF Set[lc].bytes = 1 THEN << lc, p >> ELSE << lc, p, q >>
    BY <2>1, <2>2, LetterIs, PositionsAre
  <2>4. << lc, p >> \in Seq(Bytes) /\ << lc, p, q >> \in Seq(Bytes)
    BY <2>2, ShortSequences
  <2>5. \A i \in 1 .. 2 : << lc, p >>[i] # "LF" /\ << lc, p >>[i] # "CR"
    BY <2>1, <2>2
  <2>6. \A i \in 1 .. 3 : << lc, p, q >>[i] # "LF" /\ << lc, p, q >>[i] # "CR"
    BY <2>1, <2>2
  <2>7. Len(<< lc, p >>) = 2 /\ Len(<< lc, p, q >>) = 3
    OBVIOUS
  <2> QED
    BY <2>3, <2>4, <2>5, <2>6, <2>7 DEF OneSign
<1>2. ASSUME NEW b \in {"LF", "CR", "B", "SP"}, c = << b >> PROVE OneSign(c)
  <2>1. b \in Bytes
    BY SignsAre, Zenon
  <2>2. c \in Seq(Bytes) /\ Len(c) = 1 /\ c[1] = b
    BY <1>2, <2>1
  <2>3. b # "LF" => \A i \in 1 .. Len(c) : c[i] # "LF"
    BY <2>2
  <2>4. b # "CR" => \A i \in 1 .. Len(c) : c[i] # "CR"
    BY <2>2
  <2> QED
    BY <1>2, <2>2, <2>3, <2>4 DEF OneSign
<1>3. CASE c = <<"CMP", "latin+", "B+", "A0", "C+">>
  <2>1. /\ "CMP" \in Bytes /\ "latin+" \in Bytes /\ "B+" \in Bytes /\ "A0" \in Bytes /\ "C+" \in Bytes
    BY DEF Bytes, Visible, Raised
  <2>2. c \in Seq(Bytes) /\ Len(c) = 5
    BY <1>3, <2>1
  <2>3. \A i \in 1 .. 5 : c[i] # "LF" /\ c[i] # "CR"
    BY <1>3
  <2> QED
    BY <2>2, <2>3 DEF OneSign
<1>4. CASE c = <<"CMP", "A0", "B+", "jp+", "B+", "C+">>
  <2>1. /\ "CMP" \in Bytes /\ "jp+" \in Bytes /\ "B+" \in Bytes /\ "A0" \in Bytes /\ "C+" \in Bytes
    BY DEF Bytes, Visible, Raised
  <2>2. c \in Seq(Bytes) /\ Len(c) = 6
    BY <1>4, <2>1
  <2>3. \A i \in 1 .. 6 : c[i] # "LF" /\ c[i] # "CR"
    BY <1>4
  <2> QED
    BY <2>2, <2>3 DEF OneSign
<1>5. CASE System[k].type = "iso"
  <2>1. \/ c \in {<<"LF">>, <<"CR">>, <<"B">>, <<"SP">>}
        \/ \E lc \in Lead : c = Letter[lc]
        \/ c = <<"CMP", "latin+", "B+", "A0", "C+">>
        \/ c = <<"CMP", "A0", "B+", "jp+", "B+", "C+">>
    BY <1>5, IsoCharacters
  <2> QED
    BY <1>1, <1>2, <1>3, <1>4, <2>1
<1>6. CASE System[k].type # "iso"
  <2>1. c \in Plain \union {Letter["kana"], Letter["jp"]}
    BY <1>6 DEF Characters
  <2>2. "kana" \in Lead /\ "jp" \in Lead
    BY CharsetsAre DEF Charsets
  <2> QED
    BY <1>1, <1>2, <2>1, <2>2 DEF Plain
<1> QED
  BY <1>5, <1>6

NoReturn(t) == \A i \in 1 .. Len(t) : t[i] # "CR"
Begun(s, k, e, t) == s = PutAll(NewWriter(k, e), t) /\ Told(s, t) /\ s.code = k /\ s.eol = e

LEMMA ToldBegins ==
  ASSUME NEW k \in DOMAIN System, k # "ss3_7", NEW e \in AnyEnd
  PROVE  \E s : Begun(s, k, e, <<>>)
<1>1. PICK s : /\ s = NewWriter(k, e) /\ Boundary(s) /\ s.code = k /\ s.eol = e /\ s.out = <<>>
               /\ Seen(s) = NewReader(k, e) /\ ReadText(Seen(s)) = <<>>
  BY Beginning
<1>2. PICK t \in Seq(Bytes) : t = <<>>
  <2>1. <<>> \in Seq(Bytes)
    OBVIOUS
  <2> QED
    BY <2>1
<1>3. Len(t) = 0 /\ 1 .. Len(t) = {}
  BY <1>2
<1>4. Counted(s, t) /\ Lined(s, t) /\ Clean(s.out, s.eol)
  <2>1. \A x : UpTo(t, Len(t), x) = {}
    BY <1>3 DEF UpTo
  <2> QED
    BY <1>1, <1>2, <1>3, <2>1 DEF Counted, Lined, Clean
<1>5. Told(s, t)
  BY <1>1, <1>2, <1>4 DEF Told
<1> QED
  BY <1>1, <1>2, <1>5, PutAllNone DEF Begun

LEMMA TextTold ==
  ASSUME NEW k \in DOMAIN System, k # "ss3_7", NEW e \in AnyEnd, NEW n \in Nat,
         NEW cs \in [1 .. n -> Characters(k)], NEW t, t = FlattenSeq(cs), e = "CR" => NoReturn(t)
  PROVE  t \in Seq(Bytes) /\ \E s : Begun(s, k, e, t)
<1>1. PICK g : /\ g[0] = <<>> /\ \A i \in 1 .. n : g[i] = g[i - 1] \o cs[i]
               /\ FlattenSeq(cs) = g[n]
  <2>1. \A x \in Characters(k) : \E Y : x \in Seq(Y)
    BY CharacterBytes DEF OneSign
  <2> QED
    BY <2>1, FlattenIs
<1>2. PICK R : R = {i \in 0 .. n : g[i] \in Seq(Bytes)
                                  /\ ((e = "CR" => NoReturn(g[i])) => \E s : Begun(s, k, e, g[i]))}
  OBVIOUS
<1>3. 0 \in R
  <2>1. g[0] \in Seq(Bytes)
    BY <1>1, Nothing
  <2>2. \E s : Begun(s, k, e, g[0])
    BY <1>1, ToldBegins
  <2> QED
    BY <1>2, <2>1, <2>2
<1>4. ASSUME NEW i \in 0 .. n - 1, i \in R PROVE i + 1 \in R
  <2>1. PICK m \in 1 .. n : m = i + 1 /\ m - 1 = i /\ m \in 0 .. n
    OBVIOUS
  <2>2. PICK a \in Seq(Bytes) : a = g[i]
    BY <1>2, <1>4
  <2>3. PICK c \in Characters(k) : c = cs[m]
    OBVIOUS
  <2>4. OneSign(c) /\ c \in Seq(Bytes)
    BY CharacterBytes DEF OneSign
  <2>5. PICK b : b = a \o c
    OBVIOUS
  <2>6. g[m] = b
    BY <1>1, <2>1, <2>2, <2>3, <2>5
  <2>7. /\ b \in Seq(Bytes) /\ Len(b) = Len(a) + Len(c) /\ Len(a) \in Nat /\ Len(c) \in Nat
        /\ \A j \in 1 .. Len(a) : b[j] = a[j]
        /\ \A j \in 1 .. Len(c) : b[Len(a) + j] = c[j]
    BY <2>4, <2>5, Parted
  <2>8. ASSUME e = "CR" => NoReturn(b) PROVE \E v : Begun(v, k, e, b)
    <3>1. e = "CR" => NoReturn(a)
      BY <2>7, <2>8 DEF NoReturn
    <3>2. e = "CR" => c # <<"CR">>
      <4>1. ASSUME e = "CR", c = <<"CR">> PROVE FALSE
        <5>1. Len(c) = 1 /\ c[1] = "CR"
          BY <4>1
        <5>2. b[Len(a) + 1] = "CR" /\ Len(a) + 1 \in 1 .. Len(b)
          BY <2>7, <5>1
        <5> QED
          BY <2>8, <4>1, <5>2 DEF NoReturn
      <4> QED
        BY <4>1
    <3>3. PICK s : Begun(s, k, e, a)
      BY <1>2, <1>4, <2>2, <3>1
    <3>4. s = PutAll(NewWriter(k, e), a) /\ Told(s, a) /\ s.code = k /\ s.eol = e
      BY <3>3 DEF Begun
    <3>5. PICK v : v = PutAll(s, c) /\ Adds(s, v, c)
      <4>1. Boundary(s) /\ c \in Characters(s.code) /\ (s.eol = "CR" => c # <<"CR">>)
        BY <3>2, <3>4 DEF Told
      <4> QED
        BY <4>1, CharacterAdds
    <3>6. v = PutAll(NewWriter(k, e), b)
      BY <2>4, <2>5, <3>4, <3>5, PutAllParts
    <3>7. Told(v, b)
      <4>1. (s.eol = "CR" => c # <<"CR">>) /\ (c = <<"LF">> \/ (\A j \in 1 .. Len(c) : c[j] # "LF"))
        BY <2>4, <3>2, <3>4 DEF OneSign
      <4>2. Told(v, a \o c)
        BY <2>4, <3>4, <3>5, <4>1, ToldAdds
      <4> QED
        BY <2>5, <4>2
    <3>8. v.code = k /\ v.eol = e
      BY <3>4, <3>5 DEF Adds
    <3> QED
      BY <3>6, <3>7, <3>8 DEF Begun
  <2> QED
    BY <1>2, <2>1, <2>6, <2>7, <2>8
<1>5. \A i \in 0 .. n : i \in R
  BY <1>3, <1>4, AllReached
<1>6. n \in R
  BY <1>5
<1> QED
  BY <1>1, <1>2, <1>6

(* The whole file: the text and the end.                                   *)
Ended(s, k, e, t) ==
  s = PutAll(NewWriter(k, e), t \o <<"END">>) /\ Told(s, t) /\ s.code = k /\ s.eol = e

LEMMA FileTold ==
  ASSUME NEW k, NEW e, NEW t \in Seq(Bytes), NEW s, Begun(s, k, e, t)
  PROVE  \E v : Ended(v, k, e, t)
<1>1. s = PutAll(NewWriter(k, e), t) /\ Told(s, t) /\ s.code = k /\ s.eol = e
  BY DEF Begun
<1>2. PICK v : v = Put(s, "END") /\ Adds(s, v, <<>>)
  BY <1>1, EndAdds DEF Told
<1>3. v = PutAll(NewWriter(k, e), t \o <<"END">>)
  <2>1. PICK X : X = Bytes \union {"END"}
    OBVIOUS
  <2>2. PICK a \in Seq(X), b \in Seq(X) : a = t /\ b = <<"END">>
    <3>1. t \in Seq(X)
      BY <2>1
    <3>2. "END" \in X
      BY <2>1
    <3>3. <<"END">> \in Seq(X)
      BY <3>2
    <3> QED
      BY <3>1, <3>3
  <2>3. PICK q : q = NewWriter(k, e)
    OBVIOUS
  <2>4. PutAll(q, a \o b) = PutAll(PutAll(q, a), b)
    BY PutAllJoined
  <2>5. PutAll(s, <<"END">>) = v
    BY <1>2, PutAllOne
  <2> QED
    BY <1>1, <2>2, <2>3, <2>4, <2>5
<1>4. PICK c \in Seq(Bytes) : c = <<>>
  BY Nothing
<1>5. Told(v, t)
  <2>1. (s.eol = "CR" => c # <<"CR">>) /\ (c = <<"LF">> \/ (\A j \in 1 .. Len(c) : c[j] # "LF"))
    BY <1>4
  <2>2. Told(v, t \o c)
    BY <1>1, <1>2, <1>4, <2>1, ToldAdds
  <2> QED
    BY <1>4, <2>2, Nothing
<1> QED
  BY <1>1, <1>2, <1>3, <1>5 DEF Ended, Adds

LEMMA CutIs ==
  ASSUME NEW a \in Seq(Bytes), NEW i \in 0 .. Len(a), NEW j \in i .. Len(a)
  PROVE  /\ SubSeq(a, i + 1, j) \in Seq(Bytes) /\ Len(SubSeq(a, i + 1, j)) = j - i
         /\ \A k \in 1 .. j - i : SubSeq(a, i + 1, j)[k] = a[i + k]
<1>1. Len(a) \in Nat /\ i \in Nat /\ j \in Nat /\ i <= j /\ j <= Len(a)
  OBVIOUS
<1>2. PICK u : u = SubSeq(a, i + 1, j)
  OBVIOUS
<1>3. u = [k \in 1 .. j - i |-> a[i + k]]
  <2>1. u = [k \in 1 .. (j - (i + 1) + 1) |-> a[(i + 1) + k - 1]]
    BY <1>1, <1>2
  <2>2. j - (i + 1) + 1 = j - i /\ \A k \in 1 .. j - i : (i + 1) + k - 1 = i + k
    BY <1>1
  <2> QED
    BY <2>1, <2>2
<1>4. j - i \in Nat /\ \A k \in 1 .. j - i : a[i + k] \in Bytes
  BY <1>1
<1>5. u \in Seq(Bytes) /\ Len(u) = j - i
  BY <1>3, <1>4
<1> QED
  BY <1>2, <1>3, <1>5

LEMMA CutJoined ==
  ASSUME NEW a \in Seq(Bytes), NEW i \in 0 .. Len(a), NEW j \in i .. Len(a), NEW k \in j .. Len(a)
  PROVE  SubSeq(a, i + 1, k) = SubSeq(a, i + 1, j) \o SubSeq(a, j + 1, k)
<1>1. Len(a) \in Nat /\ i \in Nat /\ j \in Nat /\ k \in Nat /\ i <= j /\ j <= k /\ k <= Len(a)
  OBVIOUS
<1>2. PICK u, x, y : u = SubSeq(a, i + 1, k) /\ x = SubSeq(a, i + 1, j) /\ y = SubSeq(a, j + 1, k)
  OBVIOUS
<1>3. u \in Seq(Bytes) /\ Len(u) = k - i /\ \A m \in 1 .. k - i : u[m] = a[i + m]
  <2>1. k \in i .. Len(a)
    BY <1>1
  <2> QED
    BY <1>2, <2>1, CutIs
<1>4. x \in Seq(Bytes) /\ Len(x) = j - i /\ \A m \in 1 .. j - i : x[m] = a[i + m]
  BY <1>2, CutIs
<1>5. y \in Seq(Bytes) /\ Len(y) = k - j /\ \A m \in 1 .. k - j : y[m] = a[j + m]
  <2>1. j \in 0 .. Len(a)
    BY <1>1
  <2> QED
    BY <1>2, <2>1, CutIs
<1>6. PICK v : v = x \o y
  OBVIOUS
<1>7. /\ v \in Seq(Bytes) /\ Len(v) = Len(x) + Len(y)
      /\ \A m \in 1 .. Len(x) : v[m] = x[m]
      /\ \A m \in 1 .. Len(y) : v[Len(x) + m] = y[m]
  BY <1>4, <1>5, <1>6, Parted
<1>8. Len(v) = Len(u)
  BY <1>1, <1>3, <1>4, <1>5, <1>7, SMTT(20)
<1>9. ASSUME NEW m \in 1 .. k - i PROVE v[m] = u[m]
  <2>1. CASE m <= j - i
    <3>1. m \in 1 .. j - i /\ m \in 1 .. Len(x)
      BY <1>1, <1>4, <2>1
    <3>2. v[m] = x[m]
      BY <1>7, <3>1
    <3>3. x[m] = a[i + m]
      BY <1>4, <3>1
    <3> QED
      BY <1>3, <3>2, <3>3
  <2>2. CASE m > j - i
    <3>1. PICK q \in 1 .. k - j : q = m - (j - i)
      BY <1>1, <2>2
    <3>2. (j - i) + q = m /\ j + q = i + m
      BY <1>1, <3>1
    <3>3. v[m] = y[q]
      BY <1>4, <1>5, <1>7, <3>1, <3>2
    <3>4. y[q] = a[i + m]
      BY <1>5, <3>1, <3>2
    <3> QED
      BY <1>3, <3>3, <3>4
  <2> QED
    BY <1>1, <2>1, <2>2
<1>10. v = u
  <2>1. u = [m \in 1 .. Len(u) |-> u[m]] /\ v = [m \in 1 .. Len(v) |-> v[m]]
    BY <1>3, <1>7
  <2> QED
    BY <1>3, <1>8, <1>9, <2>1
<1> QED
  BY <1>2, <1>6, <1>10

LEMMA Cancelled ==
  ASSUME NEW a \in Seq(Bytes), NEW b \in Seq(Bytes), NEW c \in Seq(Bytes), a \o b = a \o c
  PROVE  b = c
<1>1. PICK u, v : u = a \o b /\ v = a \o c
  OBVIOUS
<1>2. /\ Len(a) \in Nat /\ Len(b) \in Nat /\ Len(u) = Len(a) + Len(b)
      /\ \A i \in 1 .. Len(b) : u[Len(a) + i] = b[i]
  BY <1>1, Parted
<1>3. /\ Len(c) \in Nat /\ Len(v) = Len(a) + Len(c)
      /\ \A i \in 1 .. Len(c) : v[Len(a) + i] = c[i]
  BY <1>1, Parted
<1>4. u = v
  BY <1>1
<1>5. Len(b) = Len(c)
  BY <1>2, <1>3, <1>4
<1>6. \A i \in 1 .. Len(b) : b[i] = c[i]
  BY <1>2, <1>3, <1>4, <1>5
<1>7. b = [i \in 1 .. Len(b) |-> b[i]] /\ c = [i \in 1 .. Len(c) |-> c[i]]
  OBVIOUS
<1> QED
  BY <1>5, <1>6, <1>7

LEMMA TwinSelf ==
  ASSUME NEW z \in Readers, NEW p, NEW q, q = [z EXCEPT !.out = <<>>], p = z.out
  PROVE  Twin(q, z, p, z.eol, z.eol) /\ q.out = <<>>
<1>1. z.out \in Seq(Bytes) /\ z.out \o <<>> = z.out /\ <<>> \in Seq(Bytes)
  BY ReaderFields, Nothing
<1> QED
  BY <1>1 DEF Twin, Readers

LEMMA GetAllReaders ==
  ASSUME NEW z \in Readers, NEW b \in Seq(Bytes)
  PROVE  \E d \in Seq(Bytes) : GetAll(z, b) \in Readers /\ GetAll(z, b).out = z.out \o d
<1>1. PICK q : q = [z EXCEPT !.out = <<>>]
  OBVIOUS
<1>2. PICK p : p = z.out
  OBVIOUS
<1>3. Twin(q, z, p, z.eol, z.eol)
  BY <1>1, <1>2, TwinSelf
<1>4. PICK e : e = z.eol
  OBVIOUS
<1>5. Twin(GetAll(q, b), GetAll(z, b), p, e, e)
  BY <1>3, <1>4, TwinGetAll
<1>6. GetAll(q, b).out \in Seq(Bytes)
  BY <1>5, ReaderFields DEF Twin
<1> QED
  BY <1>2, <1>5, <1>6 DEF Twin

LEMMA SeenEnds ==
  ASSUME NEW s, NEW t, Told(s, t), s.eol = "CRLF" /\ t # <<>> => Last(t) # "CR"
  PROVE  Seen(s).out = t /\ Seen(s) \in Readers
<1>1. PICK z : z = Seen(s)
  OBVIOUS
<1>2. Calm(z) /\ z.eol = s.eol /\ ReadText(z) = t
  BY <1>1 DEF Told, Boundary
<1>3. z \in Readers /\ z.out \in Seq(Bytes) /\ z.cr \in BOOLEAN
  BY <1>2, ReaderFields DEF Calm
<1>4. CASE z.cr = TRUE
  <2>1. s.eol = "CRLF"
    BY <1>2, <1>4 DEF Calm
  <2>2. t = z.out \o <<"CR">>
    BY <1>2, <1>4 DEF ReadText, When
  <2>3. Len(t) = Len(z.out) + 1 /\ t[Len(t)] = "CR" /\ t # <<>>
    BY <1>3, <2>2
  <2> QED
    BY <2>1, <2>3 DEF Last
<1>5. CASE z.cr = FALSE
  BY <1>1, <1>2, <1>3, <1>5, Nothing DEF ReadText, When
<1> QED
  BY <1>3, <1>4, <1>5

LEMMA NewReaderGives ==
  ASSUME NEW c \in DOMAIN System, NEW e \in AnyEnd \union {"auto"}
  PROVE  \E x : x = NewReader(c, e) /\ x \in Readers /\ x.eol = e /\ x.out = <<>> /\ x.code = c
<1>1. \A x : x = NewReader(c, e) =>
         /\ x \in Readers /\ x.code = c /\ x.eol = e /\ Blank(x) /\ x.cr = FALSE /\ x.out = <<>>
         /\ Calm(x) /\ ReadText(x) = <<>>
  BY NewReaderIs, ZenonT(60)
<1> QED
  BY <1>1

(* The lines from the i-th byte of the file, which ends a line.            *)
LEMMA LinesRead ==
  ASSUME NEW s, NEW t, Told(s, t), s.eol = "CRLF" /\ t # <<>> => Last(t) # "CR",
         NEW i \in 1 .. Len(s.out), NEW k \in 1 .. Len(t), LineAt(s, t, i, k)
  PROVE  GetAll(NewReader(s.code, s.eol), SubSeq(s.out, i + 1, Len(s.out))).out = SubSeq(t, k + 1, Len(t))
<1>1. t \in Seq(Bytes) /\ Boundary(s)
  BY DEF Told
<1>2. s.out \in Seq(Bytes) /\ s.eol \in AnyEnd /\ s.code \in DOMAIN System
  BY <1>1, OtherSeen
<1>3. PICK o \in Seq(Bytes) : o = s.out
  BY <1>2
<1>4. PICK z : z = NewReader(s.code, s.eol)
  OBVIOUS
<1>5. z \in Readers /\ z.eol = s.eol /\ z.out = <<>>
  <2>1. PICK e \in AnyEnd : e = s.eol
    BY <1>2
  <2>2. PICK c \in DOMAIN System : c = s.code
    BY <1>2
  <2>3. PICK x : x = NewReader(c, e) /\ x \in Readers /\ x.eol = e /\ x.out = <<>> /\ x.code = c
    BY <2>1, <2>2, NewReaderGives
  <2>4. z = NewReader(c, e)
    BY <1>4, <2>1, <2>2
  <2> QED
    BY <2>1, <2>3, <2>4
<1>6. Len(o) \in Nat /\ Len(t) \in Nat /\ i \in 0 .. Len(o) /\ k \in 0 .. Len(t)
      /\ Len(o) \in i .. Len(o) /\ Len(t) \in k .. Len(t) /\ 0 \in 0 .. Len(o) /\ 0 \in 0 .. Len(t)
  BY <1>3
<1>7. PICK a, b : a = SubSeq(o, 1, i) /\ b = SubSeq(o, i + 1, Len(o))
  OBVIOUS
<1>8. a \in Seq(Bytes) /\ b \in Seq(Bytes) /\ o = a \o b
  <2>1. a = SubSeq(o, 0 + 1, i) /\ i \in 0 .. Len(o)
    BY <1>6, <1>7
  <2>2. a \in Seq(Bytes) /\ b \in Seq(Bytes)
    BY <1>6, <1>7, <2>1, CutIs
  <2>3. SubSeq(o, 0 + 1, Len(o)) = SubSeq(o, 0 + 1, i) \o SubSeq(o, i + 1, Len(o))
    BY <1>6, CutJoined
  <2>4. SubSeq(o, 0 + 1, Len(o)) = o
    BY WholeIs
  <2> QED
    BY <1>7, <2>1, <2>2, <2>3, <2>4, Zenon
<1>9. PICK p, x : p = SubSeq(t, 1, k) /\ x = SubSeq(t, k + 1, Len(t))
  BY Zenon
<1>10. p \in Seq(Bytes) /\ x \in Seq(Bytes) /\ t = p \o x
  <2>1. p = SubSeq(t, 0 + 1, k)
    BY <1>9
  <2>2. p \in Seq(Bytes) /\ x \in Seq(Bytes)
    BY <1>1, <1>6, <1>9, <2>1, CutIs
  <2>3. SubSeq(t, 0 + 1, Len(t)) = SubSeq(t, 0 + 1, k) \o SubSeq(t, k + 1, Len(t))
    BY <1>1, <1>6, CutJoined
  <2>4. SubSeq(t, 0 + 1, Len(t)) = t
    BY <1>1, WholeIs
  <2> QED
    BY <1>9, <2>1, <2>2, <2>3, <2>4, Zenon
<1>11. PICK y : y = Fresh(s.code, s.eol, p)
  OBVIOUS
<1>12. GetAll(z, a) = y
  BY <1>3, <1>4, <1>7, <1>9, <1>11 DEF LineAt
<1>13. Seen(s) = GetAll(y, b)
  <2>1. GetAll(z, a \o b) = GetAll(GetAll(z, a), b)
    BY <1>8, GetAllParts
  <2> QED
    BY <1>3, <1>4, <1>8, <1>12, <2>1 DEF Seen
<1>14. y = [z EXCEPT !.out = p]
  BY <1>4, <1>11 DEF Fresh
<1>15. Twin(z, y, p, s.eol, s.eol)
  <2>1. p \o <<>> = p
    BY <1>10, Nothing
  <2> QED
    BY <1>5, <1>10, <1>14, <2>1 DEF Twin, Readers
<1>16. PICK e : e = s.eol
  OBVIOUS
<1>17. Twin(GetAll(z, b), GetAll(y, b), p, e, e)
  BY <1>8, <1>15, <1>16, TwinGetAll
<1>18. PICK q : q = GetAll(z, b).out
  OBVIOUS
<1>19. q \in Seq(Bytes) /\ Seen(s).out = p \o q
  BY <1>13, <1>17, <1>18, ReaderFields DEF Twin
<1>20. p \o q = p \o x
  BY <1>10, <1>19, SeenEnds
<1>21. q = x
  BY <1>10, <1>19, <1>20, Cancelled
<1> QED
  BY <1>3, <1>4, <1>7, <1>9, <1>18, <1>21
-----------------------------------------------------------------------------
(* The line that so many line feeds end is one.                            *)

LEMMA UpToGrows ==
  ASSUME NEW s, NEW x, NEW i \in Nat, NEW j \in Nat, i < j, s[j] = x
  PROVE  Cardinality(UpTo(s, i, x)) < Cardinality(UpTo(s, j, x))
<1>1. PICK A : A = UpTo(s, i, x)
  OBVIOUS
<1>2. PICK B : B = UpTo(s, j, x)
  OBVIOUS
<1>3. A \subseteq B /\ j \in B /\ j \notin A
  BY <1>1, <1>2 DEF UpTo
<1>4. IsFiniteSet(A) /\ Cardinality(A) \in Nat /\ IsFiniteSet(B) /\ Cardinality(B) \in Nat
  BY <1>1, <1>2, UpToFinite
<1>5. IsFiniteSet(A \union {j}) /\ Cardinality(A \union {j}) = Cardinality(A) + 1
  BY <1>3, <1>4, FS_AddElement
<1>6. A \union {j} \subseteq B
  BY <1>3
<1>7. Cardinality(A \union {j}) <= Cardinality(B)
  BY <1>4, <1>6, FS_Subset
<1> QED
  BY <1>1, <1>2, <1>4, <1>5, <1>7

LEMMA CountIs ==
  ASSUME NEW t \in Seq(Bytes), NEW j \in 0 .. Len(t), NEW x
  PROVE  Count(SubSeq(t, 1, j), x) = Cardinality(UpTo(t, j, x))
<1>1. PICK u : u = SubSeq(t, 0 + 1, j)
  OBVIOUS
<1>2. 0 \in 0 .. Len(t) /\ j - 0 = j /\ j \in Nat
  OBVIOUS
<1>3. Len(u) = j - 0 /\ \A k \in 1 .. j - 0 : u[k] = t[0 + k]
  BY <1>1, <1>2, CutIs
<1>4. Len(u) = j /\ \A k \in 1 .. j : u[k] = t[k]
  BY <1>2, <1>3
<1>5. {k \in 1 .. Len(u) : u[k] = x} = {k \in 1 .. j : t[k] = x}
  BY <1>4
<1>6. u = SubSeq(t, 1, j)
  BY <1>1
<1> QED
  BY <1>5, <1>6 DEF Count, UpTo

LEMMA LineFound ==
  ASSUME NEW t \in Seq(Bytes), NEW k \in 1 .. Len(t), t[k] = "LF",
         NEW n, n = Cardinality(UpTo(t, k, "LF"))
  PROVE  (CHOOSE j \in 1 .. Len(t) : t[j] = "LF" /\ Count(SubSeq(t, 1, j), "LF") = n) = k
<1>1. \A j \in 1 .. Len(t) : Count(SubSeq(t, 1, j), "LF") = Cardinality(UpTo(t, j, "LF"))
  BY CountIs
<1>2. ASSUME NEW j \in 1 .. Len(t), t[j] = "LF", Count(SubSeq(t, 1, j), "LF") = n PROVE j = k
  <2>1. Cardinality(UpTo(t, j, "LF")) = Cardinality(UpTo(t, k, "LF"))
    BY <1>1, <1>2
  <2>2. j \in Nat /\ k \in Nat
    OBVIOUS
  <2>3. Cardinality(UpTo(t, j, "LF")) \in Nat
    BY <2>2, UpToFinite
  <2>4. CASE j < k
    BY <2>1, <2>2, <2>3, <2>4, UpToGrows
  <2>5. CASE k < j
    BY <1>2, <2>1, <2>2, <2>3, <2>5, UpToGrows
  <2> QED
    BY <2>2, <2>4, <2>5
<1>3. k \in 1 .. Len(t) /\ t[k] = "LF" /\ Count(SubSeq(t, 1, k), "LF") = n
  BY <1>1
<1> QED
  BY <1>2, <1>3

-----------------------------------------------------------------------------
(* eol_detect.                                                             *)

LEMMA NoEndFound ==
  ASSUME NEW p, \A i \in 1 .. Len(p) : p[i] \notin Cntl
  PROVE  FirstEnd(p) = "auto"
BY DEF FirstEnd

LEMMA EndFound ==
  ASSUME NEW p, Len(p) \in Nat, NEW m \in 1 .. Len(p), p[m] \in Cntl
  PROVE  \E i \in 1 .. Len(p) :
           /\ p[i] \in Cntl /\ \A k \in 1 .. Len(p) : p[k] \in Cntl => i <= k
           /\ FirstEnd(p) = IF p[i] = "LF" THEN "LF"
                            ELSE IF i < Len(p) /\ p[i + 1] = "LF" THEN "CRLF" ELSE "CR"
<1>1. PICK E : E = {i \in 1 .. Len(p) : p[i] \in Cntl}
  OBVIOUS
<1>2. E \subseteq Nat /\ E # {}
  BY <1>1
<1>3. \E j \in E : \A k \in E : j <= k
  BY <1>2, Least
<1>4. PICK i : i = CHOOSE j \in E : \A k \in E : j <= k
  OBVIOUS
<1>5. i \in E /\ \A k \in E : i <= k
  BY <1>3, <1>4
<1>6. FirstEnd(p) = IF p[i] = "LF" THEN "LF"
                    ELSE IF i < Len(p) /\ p[i + 1] = "LF" THEN "CRLF" ELSE "CR"
  BY <1>1, <1>2, <1>4 DEF FirstEnd
<1> QED
  BY <1>1, <1>5, <1>6

(* Found in a piece that is not cut within the first line end, and that    *)
(* follows what had none, it is the line end of the file.                  *)
CutIn(o, m, p) == o[m] = "CR" /\ m < Len(o) /\ o[m + 1] = "LF" /\ FirstEnd(p) = "CR"
Detects(p, n, e) == (FirstEnd(p) = "auto" /\ \A q \in 1 .. n : p[q] \notin Cntl) \/ FirstEnd(p) = e

Unmet(o, e, i, j) ==
  Clean(o, e) /\ (i = 0 \/ o[i] = EndByte(e)) /\ \A q \in i + 1 .. j : o[q] \notin Cntl

LEMMA DetectsEnd ==
  ASSUME NEW o \in Seq(Bytes), NEW e \in AnyEnd, NEW i \in 0 .. Len(o), NEW j \in i .. Len(o),
         Unmet(o, e, i, j), NEW n \in 1 .. Len(o) - j
  PROVE  \E p : p = SubSeq(o, j + 1, j + n) /\ (~CutIn(o, j + n, p) => Detects(p, n, e))
<1>0. PICK p : p = SubSeq(o, j + 1, j + n)
  OBVIOUS
<1> Clean(o, e) /\ (i = 0 \/ o[i] = EndByte(e)) /\ \A q \in i + 1 .. j : o[q] \notin Cntl
  BY DEF Unmet
<1> SUFFICES ASSUME ~CutIn(o, j + n, p) PROVE Detects(p, n, e)
  BY <1>0
<1>1. Len(o) \in Nat /\ i \in Nat /\ j \in Nat /\ n \in Nat /\ i <= j /\ j + n <= Len(o) /\ n >= 1
  OBVIOUS
<1>2. Len(p) = n /\ \A q \in 1 .. n : p[q] = o[j + q]
  <2>1. j \in 0 .. Len(o) /\ j + n \in j .. Len(o) /\ (j + n) - j = n
    BY <1>1
  <2>2. PICK m \in j .. Len(o) : m = j + n
    BY <2>1
  <2>3. PICK u : u = SubSeq(o, j + 1, m)
    OBVIOUS
  <2>4. Len(u) = m - j /\ \A q \in 1 .. m - j : u[q] = o[j + q]
    BY <2>1, <2>2, <2>3, CutIs
  <2>5. u = p /\ m - j = n
    BY <1>0, <2>1, <2>2, <2>3
  <2> QED
    BY <2>4, <2>5
<1>3. CASE \A q \in 1 .. n : p[q] \notin Cntl
  BY <1>2, <1>3, NoEndFound DEF Detects
<1>4. CASE \E q \in 1 .. n : p[q] \in Cntl
  <2>1. PICK q \in 1 .. n :
           /\ p[q] \in Cntl /\ \A k \in 1 .. n : p[k] \in Cntl => q <= k
           /\ FirstEnd(p) = IF p[q] = "LF" THEN "LF"
                            ELSE IF q < n /\ p[q + 1] = "LF" THEN "CRLF" ELSE "CR"
    <3>1. PICK m \in 1 .. n : p[m] \in Cntl
      BY <1>4
    <3>2. m \in 1 .. Len(p) /\ Len(p) \in Nat
      BY <1>1, <1>2, <3>1
    <3>3. \E k \in 1 .. Len(p) :
           /\ p[k] \in Cntl /\ \A l \in 1 .. Len(p) : p[l] \in Cntl => k <= l
           /\ FirstEnd(p) = IF p[k] = "LF" THEN "LF"
                            ELSE IF k < Len(p) /\ p[k + 1] = "LF" THEN "CRLF" ELSE "CR"
      BY <3>1, <3>2, EndFound
    <3> QED
      BY <1>2, <3>3
  <2>2. PICK x \in 1 .. Len(o) : x = j + q
    BY <1>1
  <2>3. o[x] = p[q] /\ o[x] \in {"LF", "CR"} /\ x > i
    BY <1>1, <1>2, <2>1, <2>2 DEF Cntl
  <2>4. ASSUME NEW y \in i + 1 .. x - 1 PROVE o[y] \notin Cntl
    <3>1. CASE y <= j
      BY <1>1, <3>1
    <3>2. CASE y > j
      <4>1. PICK k \in 1 .. n : y = j + k /\ k < q
        BY <1>1, <2>2, <3>2
      <4>2. p[k] = o[y]
        BY <1>2, <4>1
      <4>3. k \in Nat /\ q \in Nat /\ ~(q <= k)
        BY <1>1, <4>1
      <4>4. p[k] \notin Cntl
        BY <2>1, <4>1, <4>3
      <4> QED
        BY <4>2, <4>4
    <3> QED
      BY <1>1, <3>1, <3>2
  <2>5. q < n => x + 1 = j + (q + 1) /\ q + 1 \in 1 .. n /\ x + 1 \in 1 .. Len(o)
    BY <1>1, <2>2
  <2>6. q < n => p[q + 1] = o[x + 1]
    BY <1>2, <2>5
  <2>7. CASE e = "LF"
    BY <2>1, <2>2, <2>3, <2>7 DEF Clean, Detects
  <2>8. CASE e = "CR"
    <3>1. o[x] # "LF" /\ (q < n => o[x + 1] # "LF")
      BY <2>2, <2>5, <2>8 DEF Clean
    <3> QED
      BY <2>1, <2>3, <2>6, <2>8, <3>1 DEF Detects
  <2>9. CASE e = "CRLF"
    <3>1. /\ o[x] = "LF" => x > 1 /\ o[x - 1] = "CR"
          /\ o[x] = "CR" => x < Len(o) /\ o[x + 1] = "LF"
      BY <2>2, <2>9 DEF Clean
    <3>2. o[x] # "LF"
      <4>1. SUFFICES ASSUME o[x] = "LF" PROVE FALSE
        OBVIOUS
      <4>2. x > 1 /\ o[x - 1] = "CR"
        BY <3>1, <4>1
      <4>3. CASE x - 1 = i
        <5>1. i # 0 /\ EndByte(e) = "LF"
          BY <1>1, <2>2, <2>9, <4>2, <4>3 DEF EndByte
        <5> QED
          BY <4>2, <4>3, <5>1
      <4>4. CASE x - 1 # i
        <5>1. x - 1 \in i + 1 .. x - 1
          BY <1>1, <2>2, <2>3, <4>4
        <5> QED
          BY <2>4, <4>2, <5>1 DEF Cntl
      <4> QED
        BY <4>3, <4>4
    <3>3. p[q] = "CR" /\ x < Len(o) /\ o[x + 1] = "LF"
      BY <2>3, <3>1, <3>2
    <3>4. CASE q < n
      BY <2>1, <2>6, <2>9, <3>3, <3>4 DEF Detects
    <3>5. CASE q = n
      <4>1. FirstEnd(p) = "CR"
        BY <1>1, <2>1, <3>3, <3>5
      <4>2. x = j + n
        BY <2>2, <3>5
      <4> QED
        BY <2>3, <3>3, <4>1, <4>2 DEF CutIn
    <3> QED
      BY <1>1, <2>1, <3>4, <3>5
  <2> QED
    BY <2>7, <2>8, <2>9 DEF AnyEnd, Detects
<1> QED
  BY <1>3, <1>4
-----------------------------------------------------------------------------
(* One piece.  Given is what decode was given of a text when m bytes of it *)
(* were written, in one piece.                                             *)

Given(t, m) == IF m < Len(t) \/ t = <<>> THEN SubSeq(t, 1, m) ELSE t \o <<"END">>

LEMMA GivenMore ==
  ASSUME NEW t \in Seq(Bytes), NEW m \in 0 .. Len(t), NEW n \in 1 .. Len(t) - m
  PROVE  \E a, b : /\ a = SubSeq(t, 1, m) /\ b = SubSeq(t, m + 1, m + n) \o When(m + n = Len(t), <<"END">>)
                   /\ a \in Seq(Bytes \union {"END"}) /\ b \in Seq(Bytes \union {"END"})
                   /\ Given(t, m) = a /\ Given(t, m + n) = a \o b
<1>1. Len(t) \in Nat /\ m \in Nat /\ n \in Nat /\ m + n <= Len(t) /\ m < Len(t) /\ n >= 1
  OBVIOUS
<1>2. PICK j \in m .. Len(t) : j = m + n
  BY <1>1
<1>3. PICK a : a = SubSeq(t, 0 + 1, m)
  OBVIOUS
<1>4. PICK d : d = SubSeq(t, m + 1, j)
  OBVIOUS
<1>5. PICK c : c = SubSeq(t, 0 + 1, j)
  OBVIOUS
<1>6. 0 \in 0 .. Len(t) /\ m \in 0 .. Len(t) /\ j \in 0 .. Len(t)
  BY <1>1
<1>7. a \in Seq(Bytes) /\ d \in Seq(Bytes) /\ c \in Seq(Bytes)
  BY <1>3, <1>4, <1>5, <1>6, CutIs
<1>8. c = a \o d
  BY <1>3, <1>4, <1>5, <1>6, CutJoined
<1>9. Given(t, m) = a
  BY <1>1, <1>3 DEF Given
<1>10. a \in Seq(Bytes \union {"END"}) /\ d \in Seq(Bytes \union {"END"})
  BY <1>7
<1>11. PICK w0 : w0 = When(m + n = Len(t), <<"END">>)
  OBVIOUS
<1>12. PICK b : b = d \o w0
  OBVIOUS
<1>13. b \in Seq(Bytes \union {"END"}) /\ Given(t, j) = a \o b
  <2>1. CASE j < Len(t)
    <3>1. Given(t, j) = c
      BY <1>5, <2>1 DEF Given
    <3>2. w0 = <<>>
      BY <1>1, <1>2, <1>11, <2>1 DEF When
    <3>3. b = d
      BY <1>7, <1>12, <3>2, Nothing
    <3> QED
      BY <1>8, <1>10, <3>1, <3>3
  <2>2. CASE j = Len(t)
    <3>1. w0 = <<"END">>
      BY <1>2, <1>11, <2>2 DEF When
    <3>2. w0 \in Seq(Bytes \union {"END"})
      BY <3>1
    <3>3. c = t
      BY <1>5, <2>2, WholeIs
    <3>4. t # <<>>
      BY <1>1
    <3>5. Given(t, j) = c \o w0
      BY <2>2, <3>1, <3>3, <3>4 DEF Given
    <3>6. \A X : \A u, v, y \in Seq(X) : (u \o v) \o y = u \o (v \o y)
      BY SMTT(40)
    <3>7. (a \o d) \o w0 = a \o (d \o w0)
      BY <1>10, <3>2, <3>6
    <3>8. d \o w0 \in Seq(Bytes \union {"END"})
      BY <1>10, <3>2
    <3> QED
      BY <1>8, <1>12, <3>5, <3>7, <3>8
  <2> QED
    BY <2>1, <2>2
<1>14. a = SubSeq(t, 1, m) /\ b = SubSeq(t, m + 1, m + n) \o When(m + n = Len(t), <<"END">>)
  BY <1>2, <1>3, <1>4, <1>11, <1>12
<1>15. Given(t, m + n) = a \o b
  BY <1>2, <1>13
<1> QED
  BY <1>9, <1>10, <1>13, <1>14, <1>15

Piece(t, m, n) == SubSeq(t, m + 1, m + n) \o When(m + n = Len(t), <<"END">>)
GoesOn(s, t, m, p, f) ==
  Lock(Kept(p), PutAll(s, Given(t, m)), f \o p.out) /\ Kept(p).out = <<>> /\ f \o p.out \in Seq(Bytes)

LEMMA WritesOn ==
  ASSUME NEW s, NEW t \in Seq(Bytes), NEW m \in 0 .. Len(t), NEW n \in 1 .. Len(t) - m,
         NEW x, NEW f, Lock(x, PutAll(s, Given(t, m)), f), x.out = <<>>
  PROVE  \E p : p = PutAll(x, Piece(t, m, n)) /\ GoesOn(s, t, m + n, p, f)
<1>0. PICK p : p = PutAll(x, SubSeq(t, m + 1, m + n) \o When(m + n = Len(t), <<"END">>))
  OBVIOUS
<1>1. PICK a, b : /\ a = SubSeq(t, 1, m) /\ b = SubSeq(t, m + 1, m + n) \o When(m + n = Len(t), <<"END">>)
                  /\ a \in Seq(Bytes \union {"END"}) /\ b \in Seq(Bytes \union {"END"})
                  /\ Given(t, m) = a /\ Given(t, m + n) = a \o b
  BY GivenMore
<1>2. PICK y : y = PutAll(s, a)
  OBVIOUS
<1>3. Lock(x, y, f)
  BY <1>1, <1>2
<1>4. p = PutAll(x, b)
  BY <1>0, <1>1
<1>5. PICK q : q = PutAll(y, b)
  OBVIOUS
<1>6. Lock(p, q, f)
  <2>1. \A v \in Seq(Bytes \union {"END"}) : Lock(PutAll(x, v), PutAll(y, v), f)
    BY <1>3, LockPutAll
  <2> QED
    BY <1>1, <1>4, <1>5, <2>1
<1>7. q = PutAll(s, Given(t, m + n))
  <2>1. PICK X : X = Bytes \union {"END"}
    OBVIOUS
  <2>2. a \in Seq(X) /\ b \in Seq(X)
    BY <1>1, <2>1
  <2>3. PutAll(s, a \o b) = PutAll(PutAll(s, a), b)
    BY <2>2, PutAllJoined
  <2> QED
    BY <1>1, <1>2, <1>5, <2>3
<1>8. p \in Writers /\ q \in Writers /\ f \in Seq(Bytes) /\ q.out = f \o p.out
  BY <1>6 DEF Lock
<1>9. p.out \in Seq(Bytes)
  BY <1>8, WriterFields
<1>10. PICK h : h = f \o p.out
  OBVIOUS
<1>11. h \in Seq(Bytes) /\ h \o <<>> = h /\ <<>> \in Seq(Bytes)
  BY <1>8, <1>9, <1>10, Nothing
<1>12. PICK k : k = Kept(p)
  OBVIOUS
<1>13. k = [p EXCEPT !.out = <<>>]
  BY <1>12 DEF Kept
<1>14. k \in Writers /\ k.out = <<>>
  BY <1>8, <1>11, <1>13 DEF Writers
<1>15. q.out = h \o k.out
  BY <1>8, <1>10, <1>11, <1>14
<1>16. /\ k.code = p.code /\ k.eol = p.eol /\ k.g = p.g /\ k.announce = p.announce /\ k.in = p.in
       /\ k.shifted = p.shifted /\ k.rtl = p.rtl /\ k.cmp = p.cmp /\ k.ch = p.ch
  BY <1>8, <1>13 DEF Writers
<1>17. Lock(k, q, h)
  BY <1>6, <1>11, <1>14, <1>15, <1>16 DEF Lock
<1>18. Lock(Kept(p), PutAll(s, Given(t, m + n)), f \o p.out) /\ Kept(p).out = <<>> /\ f \o p.out \in Seq(Bytes)
  BY <1>7, <1>10, <1>11, <1>12, <1>14, <1>17
<1> QED
  BY <1>0, <1>18 DEF Piece, GoesOn

ReadOn(z, o, i, j, k, d, e, y) ==
  Twin(Kept(y), GetAll(z, SubSeq(o, i + 1, j)), k \o y.out, d, e) /\ Kept(y).out = <<>>

LEMMA ReadsOn ==
  ASSUME NEW z, NEW o \in Seq(Bytes), NEW i \in 0 .. Len(o), NEW j \in i .. Len(o), NEW n \in 1 .. Len(o) - j,
         NEW x, NEW k, NEW d, NEW e, Twin(x, GetAll(z, SubSeq(o, i + 1, j)), k, d, e), x.out = <<>>,
         d = e \/ (\A q \in j + 1 .. j + n : o[q] \notin Cntl)
  PROVE  \E y : y = GetAll(x, SubSeq(o, j + 1, j + n)) /\ ReadOn(z, o, i, j + n, k, d, e, y)
<1>0. PICK y : y = GetAll(x, SubSeq(o, j + 1, j + n))
  OBVIOUS
<1>1. Len(o) \in Nat /\ i \in Nat /\ j \in Nat /\ n \in Nat /\ i <= j /\ j + n <= Len(o) /\ n >= 1
  OBVIOUS
<1>2. PICK m \in j .. Len(o) : m = j + n
  BY <1>1
<1>3. PICK a : a = SubSeq(o, i + 1, j)
  OBVIOUS
<1>4. PICK b : b = SubSeq(o, j + 1, m)
  OBVIOUS
<1>5. j \in 0 .. Len(o) /\ m - j = n
  BY <1>1, <1>2
<1>6. a \in Seq(Bytes) /\ b \in Seq(Bytes) /\ Len(b) = n /\ \A q \in 1 .. n : b[q] = o[j + q]
  BY <1>3, <1>4, <1>5, CutIs
<1>7. SubSeq(o, i + 1, m) = a \o b
  BY <1>3, <1>4, <1>5, CutJoined
<1>8. d = e \/ \A q \in 1 .. Len(b) : b[q] \notin Cntl
  <2>1. ASSUME NEW q \in 1 .. n PROVE j + q \in j + 1 .. j + n /\ b[q] = o[j + q]
    BY <1>1, <1>6
  <2> QED
    BY <1>6, <2>1
<1>9. PICK g : g = GetAll(z, a)
  OBVIOUS
<1>10. Twin(x, g, k, d, e) /\ y = GetAll(x, b)
  BY <1>0, <1>2, <1>3, <1>4, <1>9
<1>11. PICK h : h = GetAll(g, b)
  OBVIOUS
<1>12. Twin(y, h, k, d, e)
  BY <1>6, <1>8, <1>10, <1>11, TwinGetAll
<1>13. h = GetAll(z, SubSeq(o, i + 1, j + n))
  <2>1. GetAll(z, a \o b) = GetAll(GetAll(z, a), b)
    BY <1>6, GetAllParts
  <2> QED
    BY <1>2, <1>7, <1>9, <1>11, <2>1
<1>14. y \in Readers /\ h \in Readers /\ k \in Seq(Bytes) /\ h.out = k \o y.out /\ y.eol = d
  BY <1>12 DEF Twin
<1>15. y.out \in Seq(Bytes)
  BY <1>14, ReaderFields
<1>16. PICK v : v = k \o y.out
  OBVIOUS
<1>17. v \in Seq(Bytes) /\ v \o <<>> = v /\ <<>> \in Seq(Bytes)
  BY <1>14, <1>15, <1>16, Nothing
<1>18. PICK l : l = Kept(y)
  OBVIOUS
<1>19. l = [y EXCEPT !.out = <<>>]
  BY <1>18 DEF Kept
<1>20. l \in Readers /\ l.out = <<>>
  BY <1>14, <1>17, <1>19 DEF Readers
<1>21. /\ l.code = y.code /\ l.g = y.g /\ l.esc = y.esc /\ l.single = y.single
       /\ l.shifted = y.shifted /\ l.rtl = y.rtl /\ l.cmp = y.cmp /\ l.cr = y.cr /\ l.ch = y.ch
       /\ l.eol = y.eol
  BY <1>14, <1>19 DEF Readers
<1>22. h.out = v \o l.out
  BY <1>14, <1>16, <1>17, <1>20
<1>23. Twin(l, h, v, d, e)
  BY <1>12, <1>17, <1>20, <1>21, <1>22 DEF Twin
<1> QED
  BY <1>0, <1>13, <1>16, <1>18, <1>20, <1>23 DEF ReadOn
-----------------------------------------------------------------------------
(* The invariant.                                                          *)

(* A text of characters of the coding system that the line ends of the     *)
(* file can tell apart.                                                    *)
Chosen ==
  /\ code \in DOMAIN System /\ eol \in AnyEnd /\ text \in Seq(Bytes)
  /\ \E v : Ended(v, code, eol, text)
  /\ eol = "CRLF" /\ text # <<>> => Last(text) # "CR"

(* What was written in pieces is what would be written in one piece.       *)
Wrote ==
  /\ written \in 0 .. Len(text) /\ w.out = <<>> /\ file \in Seq(Bytes)
  /\ \E v : Begun(v, code, eol, text)
  /\ Lock(w, PutAll(NewWriter(code, eol), Given(text, written)), file)

(* What is read in pieces is what would be read in one piece by somebody   *)
(* who knows the line ends, as long as they are detected when first met.   *)
Reads ==
  /\ phase \in {"write", "read", "end"}
  /\ phase = "write" => readFrom = 0
  /\ phase # "write" => written = Len(text) /\ readFrom \in LineStarts /\ read \in readFrom .. Len(file)
  /\ phase # "write" => r.out = <<>> /\ Twin(r, GetAll(NewReader(code, eol), SubSeq(file, readFrom + 1, read)), back, r.eol, eol)
  /\ phase # "write" => \/ r.eol = eol
                        \/ /\ r.eol = "auto" /\ NoReturn(text)
                           /\ \A q \in readFrom + 1 .. read : file[q] \notin Cntl
  /\ phase = "end" => read = Len(file)

Converting == Chosen /\ Wrote /\ Reads

LEMMA NewWriterGives ==
  ASSUME NEW c \in DOMAIN System, NEW e \in AnyEnd
  PROVE  \E x : x = NewWriter(c, e) /\ x \in Writers /\ x.out = <<>>
<1>1. \A x : x = NewWriter(c, e) =>
         /\ x \in Writers /\ x.code = c /\ x.eol = e /\ x.g = System[c].g /\ x.shifted = FALSE
         /\ x.rtl = FALSE /\ x.cmp = "no" /\ x.ch = <<>> /\ x.out = <<>>
  BY NewWriterIs
<1> QED
  BY <1>1

LEMMA InitConverting ==
  ASSUME "ss3_7" \notin Systems, ~LastCR, Init
  PROVE  Converting
<1>1. code \in DOMAIN System /\ code # "ss3_7" /\ System[code].ends \subseteq AnyEnd
  BY SystemsAssumption, SystemFields DEF Init
<1>2. PICK c : c = code
  OBVIOUS
<1>3. PICK e \in AnyEnd : e = eol
  BY <1>1 DEF Init
<1>4. PICK t : t = text
  OBVIOUS
<1>5. e = "CR" => NoReturn(t)
  BY <1>3, <1>4 DEF Init, HasCR, NoReturn
<1>6. PICK n \in Nat : \E cs \in [1 .. n -> Characters(c)] : t = FlattenSeq(cs)
  BY <1>2, <1>4, BoundsAssumption DEF Init
<1>7. PICK cs \in [1 .. n -> Characters(c)] : t = FlattenSeq(cs)
  BY <1>6
<1>8. t \in Seq(Bytes) /\ \E s : Begun(s, c, e, t)
  <2>1. c \in DOMAIN System /\ c # "ss3_7"
    BY <1>1, <1>2
  <2> QED
    BY <1>3, <1>5, <1>6, <1>7, <2>1, TextTold
<1>9. \E v : Ended(v, c, e, t)
  <2>1. PICK s : Begun(s, c, e, t)
    BY <1>8
  <2> QED
    BY <1>8, <2>1, FileTold
<1>10. Chosen
  BY <1>1, <1>2, <1>3, <1>4, <1>8, <1>9 DEF Chosen, Init
<1>11. Wrote
  <2>1. PICK s : s = NewWriter(c, e)
    OBVIOUS
  <2>2. c \in DOMAIN System
    BY <1>1, <1>2
  <2>3. s \in Writers /\ s.out = <<>>
    BY <1>3, <2>1, <2>2, NewWriterGives
  <2>4. Given(t, 0) = <<>>
    <3>1. SubSeq(t, 1, 0) = <<>>
      BY <1>8
    <3>2. Len(t) \in Nat /\ (0 < Len(t) \/ t = <<>>)
      BY <1>8
    <3> QED
      BY <3>1, <3>2 DEF Given
  <2>5. PutAll(s, <<>>) = s
    BY PutAllNone
  <2>6. <<>> \in Seq(Bytes) /\ <<>> \o <<>> = <<>>
    BY Nothing
  <2>7. Lock(s, s, <<>>)
    BY <2>3, <2>6 DEF Lock
  <2>8. w = s /\ file = <<>> /\ written = 0
    BY <1>2, <1>3, <2>1 DEF Init
  <2>9. 0 \in 0 .. Len(t)
    BY <1>8
  <2>10. Lock(w, PutAll(NewWriter(code, eol), Given(text, written)), file)
    BY <1>2, <1>3, <1>4, <2>1, <2>4, <2>5, <2>7, <2>8
  <2> QED
    BY <1>2, <1>3, <1>4, <1>8, <2>3, <2>6, <2>8, <2>9, <2>10 DEF Wrote
<1>12. Reads
  BY DEF Init, Reads
<1> QED
  BY <1>10, <1>11, <1>12 DEF Converting

LEMMA WriteKeeps ==
  ASSUME Converting, NEW n \in 1 .. MaxPiece, WritePiece(n)
  PROVE  Converting'
<1>1. PICK t \in Seq(Bytes) : t = text
  BY DEF Converting, Chosen
<1>2. PICK m \in 0 .. Len(t) : m = written
  BY <1>1 DEF Converting, Wrote
<1>3. n \in Nat /\ n >= 1
  BY BoundsAssumption
<1>4. n \in 1 .. Len(t) - m
  BY <1>1, <1>2, <1>3 DEF WritePiece
<1>5. PICK s : s = NewWriter(code, eol)
  OBVIOUS
<1>6. PICK f, x : f = file /\ x = w
  OBVIOUS
<1>7. Lock(x, PutAll(s, Given(t, m)), f) /\ x.out = <<>>
  BY <1>1, <1>2, <1>5, <1>6 DEF Converting, Wrote
<1>8. PICK p : p = PutAll(x, Piece(t, m, n)) /\ GoesOn(s, t, m + n, p, f)
  BY <1>1, <1>2, <1>4, <1>7, WritesOn
<1>9. w' = Kept(p) /\ file' = f \o p.out /\ written' = m + n
  BY <1>1, <1>2, <1>6, <1>8 DEF WritePiece, Piece
<1>10. /\ Lock(Kept(p), PutAll(s, Given(t, m + n)), f \o p.out) /\ Kept(p).out = <<>>
       /\ f \o p.out \in Seq(Bytes)
  BY <1>8 DEF GoesOn
<1>11. code' = code /\ eol' = eol /\ text' = text /\ readFrom' = readFrom /\ phase' = phase /\ phase = "write"
  BY DEF WritePiece
<1>12. Chosen'
  BY <1>11 DEF Converting, Chosen
<1>13. m + n \in 0 .. Len(t)
  BY <1>1, <1>3, <1>4
<1>14. Wrote'
  BY <1>1, <1>5, <1>9, <1>10, <1>11, <1>13 DEF Converting, Wrote
<1>15. Reads'
  BY <1>11 DEF Converting, Reads
<1> QED
  BY <1>12, <1>14, <1>15 DEF Converting

(* The whole file is what one writer wrote of the text.                    *)
LEMMA FileIs ==
  ASSUME Converting, written = Len(text)
  PROVE  \E v : Told(v, text) /\ v.code = code /\ v.eol = eol /\ v.out = file
<1>1. PICK t \in Seq(Bytes) : t = text
  BY DEF Converting, Chosen
<1>2. PICK s : s = NewWriter(code, eol)
  OBVIOUS
<1>3. PICK v : v = PutAll(s, Given(t, Len(t))) /\ Told(v, t) /\ v.code = code /\ v.eol = eol
  <2>1. CASE t = <<>>
    <3>1. Given(t, Len(t)) = t
      BY <1>1, <2>1, WholeIs DEF Given
    <3> QED
      BY <1>1, <1>2, <3>1 DEF Converting, Wrote, Begun
  <2>2. CASE t # <<>>
    <3>1. Given(t, Len(t)) = t \o <<"END">>
      BY <1>1, <2>2 DEF Given
    <3> QED
      BY <1>1, <1>2, <3>1 DEF Converting, Chosen, Ended
  <2> QED
    BY <2>1, <2>2
<1>4. Lock(w, v, file) /\ w.out = <<>> /\ file \in Seq(Bytes)
  BY <1>1, <1>2, <1>3 DEF Converting, Wrote
<1>5. v.out = file
  BY <1>4, Nothing DEF Lock
<1> QED
  BY <1>1, <1>3, <1>5
-----------------------------------------------------------------------------
(* Reading keeps it.                                                       *)

LEMMA LineStartsAre ==
  ASSUME Chosen
  PROVE  LineStarts = {0} \union {i \in 1 .. Len(file) : file[i] = EndByte(eol)}
<1>1. Last(LineEnd(eol)) = EndByte(eol)
  BY LineEndParts DEF Chosen
<1> QED
  BY <1>1 DEF LineStarts

LEMMA NothingCut ==
  ASSUME NEW o \in Seq(Bytes), NEW i \in 0 .. Len(o)
  PROVE  SubSeq(o, i + 1, i) = <<>>
<1>1. PICK u : u = SubSeq(o, i + 1, i)
  OBVIOUS
<1>2. i \in i .. Len(o) /\ i - i = 0
  OBVIOUS
<1>3. u \in Seq(Bytes) /\ Len(u) = 0
  BY <1>1, <1>2, CutIs
<1> QED
  BY <1>1, <1>3

LEMMA OpenKeeps ==
  ASSUME Converting, NEW start \in LineStarts, NEW end \in {eol, "auto"}, OpenFile(start, end)
  PROVE  Converting'
<1>1. PICK o \in Seq(Bytes) : o = file
  BY DEF Converting, Wrote
<1>2. PICK c \in DOMAIN System : c = code
  BY DEF Converting, Chosen
<1>3. PICK e \in AnyEnd : e = eol
  BY DEF Converting, Chosen
<1>4. PICK d \in AnyEnd \union {"auto"} : d = end
  BY <1>3
<1>5. PICK x : x = NewReader(c, d) /\ x \in Readers /\ x.eol = d /\ x.out = <<>> /\ x.code = c
  BY NewReaderGives, <1>2, <1>4
<1>6. e \in AnyEnd \union {"auto"}
  BY <1>3
<1>7. PICK z : z = NewReader(c, e) /\ z \in Readers /\ z.eol = e /\ z.out = <<>> /\ z.code = c
  BY NewReaderGives, <1>2, <1>6
<1>8. PICK i \in 0 .. Len(o) : i = start
  BY <1>1, LineStartsAre DEF Converting
<1>9. GetAll(z, SubSeq(o, i + 1, i)) = z
  BY <1>1, <1>8, NothingCut, GetAllNone
<1>10. Twin(x, z, <<>>, d, e)
  <2>1. /\ z.code = x.code /\ z.g = x.g /\ z.esc = x.esc /\ z.single = x.single
        /\ z.shifted = x.shifted /\ z.rtl = x.rtl /\ z.cmp = x.cmp /\ z.cr = x.cr /\ z.ch = x.ch
    BY <1>5, <1>7 DEF NewReader
  <2>2. <<>> \in Seq(Bytes) /\ <<>> \o <<>> = <<>>
    BY Nothing
  <2> QED
    BY <1>5, <1>7, <2>1, <2>2 DEF Twin
<1>11. d = e \/ (d = "auto" /\ NoReturn(text))
  BY <1>3, <1>4 DEF OpenFile, HasCR, NoReturn
<1>12. /\ code' = code /\ eol' = eol /\ text' = text /\ written' = written /\ w' = w /\ file' = file
       /\ readFrom' = i /\ read' = i /\ back' = <<>> /\ r' = x /\ phase' = "read" /\ written = Len(text)
  BY <1>2, <1>4, <1>5, <1>8 DEF OpenFile
<1>13. LineStarts' = LineStarts
  BY <1>12 DEF LineStarts
<1>14. Chosen' /\ Wrote'
  BY <1>12 DEF Converting, Chosen, Wrote
<1>15. GetAll(NewReader(code', eol'), SubSeq(file', readFrom' + 1, read')) = z
  BY <1>1, <1>2, <1>3, <1>7, <1>9, <1>12
<1>16. r'.out = <<>> /\ Twin(r', z, back', r'.eol, eol')
  BY <1>3, <1>5, <1>10, <1>12
<1>17. r'.eol = eol' \/ (r'.eol = "auto" /\ NoReturn(text') /\ \A q \in readFrom' + 1 .. read' : file'[q] \notin Cntl)
  <2>1. i + 1 .. i = {}
    OBVIOUS
  <2> QED
    BY <1>3, <1>5, <1>11, <1>12, <2>1
<1>18. written' = Len(text') /\ readFrom' \in LineStarts' /\ read' \in readFrom' .. Len(file')
  BY <1>1, <1>8, <1>12, <1>13
<1>19. Reads'
  BY <1>12, <1>15, <1>16, <1>17, <1>18 DEF Reads
<1> QED
  BY <1>14, <1>19 DEF Converting

(* The reader that has looked for the line end in a piece: d is the line   *)
(* end it now takes the file to have.                                      *)
LEMMA DetectedIs ==
  ASSUME Converting, ~CutLineEnd, NEW n \in 1 .. MaxPiece, ReadPiece(n),
         NEW p, p = SubSeq(file, read + 1, read + n), NEW z, NEW k, Twin(r, z, k, r.eol, eol)
  PROVE  \E d : /\ Twin(Detected(r, p), z, k, d, eol) /\ Detected(r, p).out = r.out
                /\ \/ d = eol
                   \/ /\ d = "auto" /\ NoReturn(text)
                      /\ \A q \in readFrom + 1 .. read + n : file[q] \notin Cntl
<1>1. phase = "read" /\ read + n <= Len(file) /\ ~CutsLineEnd(n)
  BY DEF ReadPiece
<1>2. eol \in AnyEnd /\ "auto" \notin AnyEnd
  BY DEF Converting, Chosen, AnyEnd
<1>3. CASE r.eol = eol
  <2>1. Detected(r, p) = r
    BY <1>2, <1>3 DEF Detected
  <2> QED
    BY <1>3, <2>1
<1>4. CASE /\ r.eol = "auto" /\ NoReturn(text)
           /\ \A q \in readFrom + 1 .. read : file[q] \notin Cntl
  <2>1. PICK o \in Seq(Bytes) : o = file
    BY DEF Converting, Wrote
  <2>2. PICK i \in 0 .. Len(o) : i = readFrom /\ (i = 0 \/ o[i] = EndByte(eol))
    <3>1. readFrom \in LineStarts
      BY <1>1 DEF Converting, Reads
    <3>2. Chosen
      BY DEF Converting
    <3>3. readFrom \in {0} \union {l \in 1 .. Len(o) : o[l] = EndByte(eol)}
      BY <2>1, <3>1, <3>2, LineStartsAre
    <3>4. Len(o) \in Nat
      BY <2>1
    <3> QED
      BY <3>3, <3>4
  <2>3. PICK j \in i .. Len(o) : j = read
    BY <1>1, <2>1, <2>2 DEF Converting, Reads
  <2>4. n \in Nat /\ n >= 1
    BY BoundsAssumption
  <2>5. n \in 1 .. Len(o) - j
    BY <1>1, <2>1, <2>3, <2>4
  <2>6. Clean(o, eol)
    <3>1. PICK v : Told(v, text) /\ v.eol = eol /\ v.out = file
      BY <1>1, FileIs DEF Converting, Reads
    <3> QED
      BY <1>4, <2>1, <3>1 DEF Told, NoReturn
  <2>7. ~CutIn(o, j + n, p)
    BY <1>1, <1>4, <2>1, <2>3 DEF CutsLineEnd, CutIn
  <2>8. p = SubSeq(o, j + 1, j + n)
    BY <2>1, <2>3
  <2>9. \A q \in i + 1 .. j : o[q] \notin Cntl
    BY <1>4, <2>1, <2>2, <2>3
  <2>10. PICK e \in AnyEnd : e = eol
    BY <1>2
  <2>11. Unmet(o, e, i, j)
    BY <2>2, <2>6, <2>9, <2>10 DEF Unmet
  <2>12. (FirstEnd(p) = "auto" /\ \A q \in 1 .. n : p[q] \notin Cntl) \/ FirstEnd(p) = e
    <3>1. PICK u : u = SubSeq(o, j + 1, j + n) /\ (~CutIn(o, j + n, u) => Detects(u, n, e))
      BY <2>1, <2>2, <2>3, <2>5, <2>10, <2>11, DetectsEnd
    <3> QED
      BY <2>7, <2>8, <3>1 DEF Detects
  <2>13. PICK y : y = Detected(r, p)
    OBVIOUS
  <2>14. y = [r EXCEPT !.eol = FirstEnd(p)]
    BY <1>4, <2>13 DEF Detected
  <2>15. r \in Readers
    BY DEF Twin
  <2>16. CASE FirstEnd(p) = e
    <3>1. y \in Readers /\ y.out = r.out /\ y.eol = e
      BY <2>10, <2>14, <2>15, <2>16 DEF Readers
    <3>2. /\ y.code = r.code /\ y.g = r.g /\ y.esc = r.esc /\ y.single = r.single
          /\ y.shifted = r.shifted /\ y.rtl = r.rtl /\ y.cmp = r.cmp /\ y.cr = r.cr /\ y.ch = r.ch
      BY <2>14, <2>15 DEF Readers
    <3>3. Twin(y, z, k, e, eol)
      BY <3>1, <3>2 DEF Twin
    <3> QED
      BY <2>10, <2>13, <3>1, <3>3
  <2>17. CASE FirstEnd(p) = "auto" /\ \A q \in 1 .. n : p[q] \notin Cntl
    <3>1. y = r
      BY <1>4, <2>14, <2>15, <2>17 DEF Readers
    <3>2. ASSUME NEW q \in i + 1 .. j + n PROVE o[q] \notin Cntl
      <4>1. Len(o) \in Nat /\ i \in Nat /\ j \in Nat /\ n \in Nat /\ i <= j
        BY <2>1, <2>2, <2>3, <2>4
      <4>2. CASE q <= j
        BY <2>9, <4>1, <4>2
      <4>3. CASE q > j
        <5>1. PICK l \in 1 .. n : q = j + l
          BY <4>1, <4>3
        <5>2. j \in 0 .. Len(o) /\ j + n \in j .. Len(o) /\ (j + n) - j = n
          BY <2>5, <4>1, <2>3
        <5>3. PICK m \in j .. Len(o) : m = j + n
          BY <5>2
        <5>4. PICK u : u = SubSeq(o, j + 1, m)
          OBVIOUS
        <5>5. \A h \in 1 .. m - j : u[h] = o[j + h]
          BY <2>1, <5>2, <5>3, <5>4, CutIs
        <5>6. p[l] = o[q]
          BY <2>8, <5>1, <5>2, <5>3, <5>4, <5>5
        <5> QED
          BY <2>17, <5>1, <5>6
      <4> QED
        BY <4>1, <4>2, <4>3
    <3>3. \A q \in readFrom + 1 .. read + n : file[q] \notin Cntl
      BY <2>1, <2>2, <2>3, <3>2
    <3> QED
      BY <1>4, <2>13, <3>1, <3>3
  <2> QED
    BY <2>12, <2>16, <2>17
<1> QED
  BY <1>1, <1>3, <1>4 DEF Converting, Reads

LEMMA ReadKeeps ==
  ASSUME Converting, ~CutLineEnd, NEW n \in 1 .. MaxPiece, ReadPiece(n)
  PROVE  Converting'
<1>1. PICK o \in Seq(Bytes) : o = file
  BY DEF Converting, Wrote
<1>2. phase = "read" /\ read + n <= Len(file)
  BY DEF ReadPiece
<1>3. PICK i \in 0 .. Len(o) : i = readFrom
  BY <1>1, <1>2, LineStartsAre DEF Converting, Reads
<1>4. PICK j \in i .. Len(o) : j = read
  BY <1>1, <1>2, <1>3 DEF Converting, Reads
<1>5. n \in Nat /\ n >= 1
  BY BoundsAssumption
<1>6. n \in 1 .. Len(o) - j
  BY <1>1, <1>2, <1>4, <1>5
<1>7. PICK z : z = NewReader(code, eol)
  OBVIOUS
<1>8. PICK k : k = back
  OBVIOUS
<1>9. Twin(r, GetAll(z, SubSeq(o, i + 1, j)), k, r.eol, eol) /\ r.out = <<>>
  BY <1>1, <1>2, <1>3, <1>4, <1>7, <1>8 DEF Converting, Reads
<1>10. PICK p : p = SubSeq(o, j + 1, j + n)
  OBVIOUS
<1>11. PICK x : x = Detected(r, p)
  OBVIOUS
<1>12. PICK d : /\ Twin(x, GetAll(z, SubSeq(o, i + 1, j)), k, d, eol) /\ x.out = r.out
                /\ \/ d = eol
                   \/ /\ d = "auto" /\ NoReturn(text)
                      /\ \A q \in readFrom + 1 .. read + n : file[q] \notin Cntl
  <2>1. p = SubSeq(file, read + 1, read + n)
    BY <1>1, <1>4, <1>10
  <2> QED
    BY <1>9, <1>11, <2>1, DetectedIs
<1>13. PICK e : e = eol
  OBVIOUS
<1>14. d = e \/ \A q \in j + 1 .. j + n : o[q] \notin Cntl
  <2>1. j + 1 .. j + n \subseteq readFrom + 1 .. read + n
    BY <1>1, <1>3, <1>4, <1>5
  <2> QED
    BY <1>1, <1>12, <1>13, <2>1
<1>15. Twin(x, GetAll(z, SubSeq(o, i + 1, j)), k, d, e) /\ x.out = <<>>
  BY <1>9, <1>12, <1>13
<1>16. PICK y : y = GetAll(x, SubSeq(o, j + 1, j + n)) /\ ReadOn(z, o, i, j + n, k, d, e, y)
  BY <1>1, <1>3, <1>4, <1>6, <1>14, <1>15, ReadsOn
<1>17. r' = Kept(y) /\ back' = k \o y.out /\ read' = j + n
  BY <1>1, <1>4, <1>8, <1>10, <1>11, <1>16 DEF ReadPiece
<1>18. /\ code' = code /\ eol' = eol /\ text' = text /\ written' = written /\ w' = w /\ file' = file
       /\ readFrom' = readFrom /\ phase' = phase
  BY DEF ReadPiece
<1>19. LineStarts' = LineStarts
  BY <1>18 DEF LineStarts
<1>20. Chosen' /\ Wrote'
  BY <1>18 DEF Converting, Chosen, Wrote
<1>21. Twin(r', GetAll(z, SubSeq(o, i + 1, j + n)), back', d, e) /\ r'.out = <<>>
  BY <1>16, <1>17 DEF ReadOn
<1>22. r'.eol = d
  BY <1>21 DEF Twin
<1>23. r'.out = <<>> /\ Twin(r', GetAll(NewReader(code', eol'), SubSeq(file', readFrom' + 1, read')), back', r'.eol, eol')
  BY <1>1, <1>3, <1>7, <1>13, <1>17, <1>18, <1>21, <1>22
<1>24. r'.eol = eol' \/ (r'.eol = "auto" /\ NoReturn(text') /\ \A q \in readFrom' + 1 .. read' : file'[q] \notin Cntl)
  BY <1>4, <1>12, <1>17, <1>18, <1>22
<1>25. written' = Len(text') /\ readFrom' \in LineStarts' /\ read' \in readFrom' .. Len(file')
  <2>1. written = Len(text) /\ readFrom \in LineStarts
    BY <1>2 DEF Converting, Reads
  <2>2. j + n \in i .. Len(o)
    BY <1>1, <1>3, <1>4, <1>5, <1>6
  <2> QED
    BY <1>1, <1>3, <1>17, <1>18, <1>19, <2>1, <2>2
<1>26. Reads'
  BY <1>2, <1>18, <1>23, <1>24, <1>25 DEF Reads
<1> QED
  BY <1>20, <1>26 DEF Converting

LEMMA EndKeeps ==
  ASSUME Converting, ReadNothing
  PROVE  Converting'
<1>1. /\ code' = code /\ eol' = eol /\ text' = text /\ written' = written /\ w' = w /\ file' = file
      /\ readFrom' = readFrom /\ read' = read /\ r' = r /\ back' = back
      /\ phase = "read" /\ phase' = "end" /\ read = Len(file)
  BY DEF ReadNothing
<1>2. LineStarts' = LineStarts
  BY <1>1 DEF LineStarts
<1>3. Chosen' /\ Wrote'
  BY <1>1 DEF Converting, Chosen, Wrote
<1>4. Reads'
  BY <1>1, <1>2 DEF Converting, Reads
<1> QED
  BY <1>3, <1>4 DEF Converting

LEMMA StutterKeeps ==
  ASSUME Converting, UNCHANGED vars
  PROVE  Converting'
BY DEF Converting, Chosen, Wrote, Reads, LineStarts, vars

LEMMA NextKeeps ==
  ASSUME Converting, ~CutLineEnd, [Next]_vars
  PROVE  Converting'
<1>1. ASSUME NEW n \in 1 .. MaxPiece, WritePiece(n) PROVE Converting'
  BY <1>1, WriteKeeps
<1>2. ASSUME NEW start \in LineStarts, NEW end \in {eol, "auto"}, OpenFile(start, end) PROVE Converting'
  BY <1>2, OpenKeeps
<1>3. ASSUME NEW n \in 1 .. MaxPiece, ReadPiece(n) PROVE Converting'
  BY <1>3, ReadKeeps
<1>4. CASE ReadNothing
  BY <1>4, EndKeeps
<1>5. CASE UNCHANGED vars
  BY <1>5, StutterKeeps
<1> QED
  BY <1>1, <1>2, <1>3, <1>4, <1>5 DEF Next
-----------------------------------------------------------------------------
(* What was asked for is what is read in one piece.                        *)

LEMMA AskedWhole ==
  ASSUME Converting, written = Len(text), readFrom = 0
  PROVE  Asked = GetAll(NewReader(code, eol), SubSeq(file, readFrom + 1, Len(file))).out
<1>1. {i \in LineStarts : i # 0 /\ i <= readFrom} = {}
  <2>1. \A i \in LineStarts : i \in Nat
    BY LineStartsAre DEF Converting
  <2> QED
    BY <2>1
<1>2. Asked = text
  BY <1>1, FS_EmptySet DEF Asked
<1>3. PICK v : Told(v, text) /\ v.code = code /\ v.eol = eol /\ v.out = file
  BY FileIs
<1>4. Seen(v).out = text
  BY <1>3, SeenEnds DEF Converting, Chosen
<1>5. SubSeq(file, readFrom + 1, Len(file)) = file
  <2>1. readFrom + 1 = 1
    OBVIOUS
  <2>2. SubSeq(file, 1, Len(file)) = file
    BY WholeIs DEF Converting, Wrote
  <2> QED
    BY <2>1, <2>2
<1> QED
  BY <1>2, <1>3, <1>4, <1>5 DEF Seen

LEMMA AskedLines ==
  ASSUME Converting, written = Len(text), readFrom \in LineStarts, readFrom # 0
  PROVE  Asked = GetAll(NewReader(code, eol), SubSeq(file, readFrom + 1, Len(file))).out
<1>1. PICK v : Told(v, text) /\ v.code = code /\ v.eol = eol /\ v.out = file
  BY FileIs
<1>2. PICK o \in Seq(Bytes) : o = file
  BY DEF Converting, Wrote
<1>3. PICK t \in Seq(Bytes) : t = text
  BY DEF Converting, Chosen
<1>4. Chosen
  BY DEF Converting
<1>5. LineStarts = {0} \union {l \in 1 .. Len(o) : o[l] = EndByte(eol)}
  BY <1>2, <1>4, LineStartsAre
<1>6. PICK i \in 1 .. Len(o) : i = readFrom /\ o[i] = EndByte(eol)
  BY <1>5
<1>7. Len(o) \in Nat /\ i \in Nat /\ i >= 1 /\ i <= Len(o)
  BY <1>6
<1>8. PICK n : n = Cardinality(UpTo(o, i, EndByte(eol)))
  OBVIOUS
<1>9. {l \in LineStarts : l # 0 /\ l <= readFrom} = UpTo(o, i, EndByte(eol))
  <2>1. {l \in LineStarts : l # 0 /\ l <= i} = {l \in 1 .. i : o[l] = EndByte(eol)}
    BY <1>5, <1>7
  <2> QED
    BY <1>6, <2>1 DEF UpTo
<1>10. n # 0
  <2>1. i \in UpTo(o, i, EndByte(eol))
    BY <1>6, <1>7 DEF UpTo
  <2>2. IsFiniteSet(UpTo(o, i, EndByte(eol)))
    BY <1>7, UpToFinite
  <2> QED
    BY <1>8, <2>1, <2>2, FS_EmptySet
<1>11. PICK k \in 1 .. Len(t) : LineAt(v, t, i, k)
  BY <1>1, <1>2, <1>3, <1>6 DEF Told, Lined
<1>12. t[k] = "LF" /\ n = Cardinality(UpTo(t, k, "LF"))
  BY <1>1, <1>2, <1>8, <1>11 DEF LineAt
<1>13. (CHOOSE j \in 1 .. Len(t) : t[j] = "LF" /\ Count(SubSeq(t, 1, j), "LF") = n) = k
  BY <1>3, <1>11, <1>12, LineFound
<1>14. Asked = SubSeq(t, k + 1, Len(t))
  <2>1. Asked = LET l == CHOOSE j \in 1 .. Len(t) : t[j] = "LF" /\ Count(SubSeq(t, 1, j), "LF") = n
                IN  SubSeq(t, l + 1, Len(t))
    BY <1>3, <1>8, <1>9, <1>10 DEF Asked
  <2> QED
    BY <1>13, <2>1
<1>15. GetAll(NewReader(v.code, v.eol), SubSeq(v.out, i + 1, Len(v.out))).out = SubSeq(t, k + 1, Len(t))
  <2>1. Told(v, t) /\ (v.eol = "CRLF" /\ t # <<>> => Last(t) # "CR")
    BY <1>1, <1>3, <1>4 DEF Chosen
  <2>2. i \in 1 .. Len(v.out)
    BY <1>1, <1>2, <1>6
  <2> QED
    BY <1>11, <2>1, <2>2, LinesRead
<1> QED
  BY <1>1, <1>6, <1>14, <1>15

LEMMA PrefixIs ==
  ASSUME NEW a \in Seq(Bytes), NEW b \in Seq(Bytes)
  PROVE  IsPrefix(a, a \o b)
<1>1. PICK c : c = a \o b
  OBVIOUS
<1>2. c \in Seq(Bytes) /\ Len(a) \in Nat /\ Len(b) \in Nat /\ Len(c) = Len(a) + Len(b)
  BY <1>1, Parted
<1>3. SubSeq(c, 1, Len(a)) = SubSeq(a, 1, Len(a))
  <2>1. Len(a) \in 0 .. Len(a)
    BY <1>2
  <2> QED
    BY <1>1, <2>1, SamePrefix
<1>4. Len(a) <= Len(c)
  BY <1>2
<1> QED
  BY <1>1, <1>3, <1>4 DEF IsPrefix

LEMMA ConvertingAgrees ==
  ASSUME Converting, phase # "write"
  PROVE  Agrees
<1>1. PICK o \in Seq(Bytes) : o = file
  BY DEF Converting, Wrote
<1>2. /\ written = Len(text) /\ readFrom \in LineStarts /\ read \in readFrom .. Len(o) /\ r.out = <<>>
      /\ phase = "end" => read = Len(o)
  BY <1>1 DEF Converting, Reads
<1>3. PICK i \in 0 .. Len(o) : i = readFrom
  BY <1>1, <1>2, LineStartsAre DEF Converting
<1>4. PICK j \in i .. Len(o) : j = read
  BY <1>2, <1>3
<1>5. PICK z : z = NewReader(code, eol)
  OBVIOUS
<1>6. PICK a : a = SubSeq(o, i + 1, j)
  OBVIOUS
<1>7. PICK b : b = SubSeq(o, j + 1, Len(o))
  OBVIOUS
<1>8. Len(o) \in Nat /\ Len(o) \in j .. Len(o) /\ j \in 0 .. Len(o)
  BY <1>1, <1>3, <1>4
<1>9. a \in Seq(Bytes) /\ b \in Seq(Bytes) /\ Len(b) = Len(o) - j
  BY <1>6, <1>7, <1>8, CutIs
<1>10. SubSeq(o, i + 1, Len(o)) = a \o b
  BY <1>6, <1>7, <1>8, CutJoined
<1>11. PICK q : q = GetAll(z, a)
  OBVIOUS
<1>12. Twin(r, q, back, r.eol, eol)
  BY <1>1, <1>3, <1>4, <1>5, <1>6, <1>11 DEF Converting, Reads
<1>13. q \in Readers /\ back \in Seq(Bytes) /\ q.out = back
  BY <1>2, <1>12, Nothing DEF Twin
<1>14. Asked = GetAll(z, a \o b).out
  <2>1. CASE readFrom = 0
    BY <1>1, <1>2, <1>3, <1>5, <1>10, <2>1, AskedWhole
  <2>2. CASE readFrom # 0
    BY <1>1, <1>2, <1>3, <1>5, <1>10, <2>2, AskedLines
  <2> QED
    BY <2>1, <2>2
<1>15. Asked = GetAll(q, b).out
  BY <1>9, <1>11, <1>14, GetAllParts
<1>16. PICK d \in Seq(Bytes) : GetAll(q, b).out = q.out \o d
  BY <1>9, <1>13, GetAllReaders
<1>17. IsPrefix(back, Asked)
  BY <1>13, <1>15, <1>16, PrefixIs
<1>18. CASE phase = "end"
  <2>1. b = <<>>
    BY <1>2, <1>4, <1>8, <1>9, <1>18
  <2>2. Asked = q.out
    BY <1>15, <2>1, GetAllNone
  <2> QED
    BY <1>13, <1>18, <2>2 DEF Agrees
<1>19. CASE phase # "end"
  BY <1>17, <1>19 DEF Agrees
<1> QED
  BY <1>18, <1>19

-----------------------------------------------------------------------------
(* The results.                                                            *)

(* Between pieces the writer is where it would be had it been given the    *)
(* text so far in one piece, and so is the reader with the file (e_write,  *)
(* fileio.c, and insert-file-contents).                                    *)
THEOREM AlwaysConverting ==
  ASSUME "ss3_7" \notin Systems, ~CutLineEnd, ~LastCR
  PROVE  Spec => []Converting
<1>1. Init => Converting
  BY InitConverting
<1>2. Converting /\ [Next]_vars => Converting'
  BY NextKeeps
<1> QED
  BY <1>1, <1>2, PTL DEF Spec

(* ReadsBack: a file that was written in any pieces and is read from its   *)
(* beginning in any other pieces, by somebody who knows its line ends or   *)
(* detects them, is the text again (encode and decode, codeconv.c).        *)
THEOREM AlwaysReadsBack ==
  ASSUME "ss3_7" \notin Systems, ~CutLineEnd, ~LastCR
  PROVE  Spec => []ReadsBack
<1>1. Converting => ReadsBack
  BY ConvertingAgrees DEF ReadsBack
<1> QED
  BY <1>1, AlwaysConverting, PTL

(* LinesStandAlone: read from the beginning of one of its lines, the file  *)
(* gives the lines of the text from there (ascii-eol, mule.el 509).        *)
THEOREM LinesAlwaysStandAlone ==
  ASSUME "ss3_7" \notin Systems, ~CutLineEnd, ~LastCR
  PROVE  Spec => []LinesStandAlone
<1>1. Converting => LinesStandAlone
  BY ConvertingAgrees DEF LinesStandAlone, Converting, Reads
<1> QED
  BY <1>1, AlwaysConverting, PTL
=============================================================================
