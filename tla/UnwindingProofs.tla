-------------------------- MODULE UnwindingProofs --------------------------
(***************************************************************************)
(* Proofs about Unwinding, for any depth of the C stack, of specpdl, of    *)
(* special forms and of minibuffers.                                       *)
(***************************************************************************)
EXTENDS Unwinding, FiniteSetTheorems, SequenceTheorems, NaturalsInduction,
        WellFoundedInduction, TLAPS

Catching == {"catch", "case", "loop"}
Handling == {"case", "loop"}
Kinds == Catching \union
         {"let", "protect", "form", "edit", "entry", "read", "unbind", "throw"}
Tags == {"", "tag", "exit", "top", "all", "error", "quit", "abort", "killed"}

Elems(s) == {s[i] : i \in DOMAIN s}

-----------------------------------------------------------------------------
(* Places on the stack.                                                    *)

(* How many entries of specpdl belong to a frame.                          *)
Own(kind) ==
  IF kind \in {"let", "protect", "edit", "entry"} THEN 1 ELSE IF kind = "read" THEN 2 ELSE 0

(* The length of specpdl when a frame began; for unbind_to the one it goes *)
(* down to, and an unwind form begins when its entry has been taken.       *)
Start(f) ==
  IF f.kind = "unbind" THEN f.x ELSE IF f.kind = "form" THEN f.pdl - 1 ELSE f.pdl

(* What of a frame, and of the registers above the last one, the argument  *)
(* is about.                                                               *)
Place(f) ==
  [kind |-> f.kind, x |-> f.x, on |-> (f.kind = "throw" /\ f.on), next |-> f.next,
   handlers |-> f.handlers, start |-> Start(f)]
Registers(catches, handlers, depth) ==
  [kind |-> "now", x |-> 0, on |-> FALSE, next |-> catches, handlers |-> handlers,
   start |-> depth]
PlacesOf(stack, catches, handlers, depth) ==
  [i \in 1 .. Len(stack) + 1 |->
     IF i = Len(stack) + 1 THEN Registers(catches, handlers, depth) ELSE Place(stack[i])]
Places == PlacesOf(cstack, catchlist, handlerlist, Len(specpdl))

Position ==
  [kind : Kinds \union {"now"}, x : Nat, on : BOOLEAN, next : Seq(Nat), handlers : Seq(Nat),
   start : Nat]

(* The catches a place can throw to, each with those beyond it; the        *)
(* handlers are those among them that handle conditions.                   *)
Lists(p, j) ==
  /\ \A c \in Elems(p[j].next) :
       c \in 1 .. j - 1 /\ p[c].kind \in Catching /\ Elems(p[c].next) \subseteq Elems(p[j].next)
  /\ Elems(p[j].handlers) = {c \in Elems(p[j].next) : p[c].kind \in Handling}
  /\ \A c \in Elems(p[j].next) :
       c = Head(p[j].next) \/ c \in Elems(p[Head(p[j].next)].next)
  /\ j >= 2 => 1 \in Elems(p[j].next)

(* With no throw below, they are all there are.                            *)
Whole(p, j) ==
  (\A i \in 1 .. j - 1 : p[i].kind # "throw")
    => Elems(p[j].next) = {i \in 1 .. j - 1 : p[i].kind \in Catching}

(* As long as a catch can be thrown to, specpdl is not cut below it.       *)
Floor(p, j) == \A c \in Elems(p[j].next) : \A i \in c .. j : p[c].start <= p[i].start

(* Without a throw in between specpdl grows.                               *)
Grows(p, j) ==
  \A i \in 1 .. j : (\A l \in i .. j - 1 : p[l].kind # "throw") => p[i].start <= p[j].start

Sound(p, j) == Lists(p, j) /\ Whole(p, j) /\ Floor(p, j) /\ Grows(p, j)

(* What a place hands on to the one above it.                              *)
Keeps(p, i) ==
  p[i].kind \notin {"unbind", "throw"} =>
    /\ p[i + 1].next = IF p[i].kind \in Catching THEN <<i>> \o p[i].next ELSE p[i].next
    /\ p[i + 1].handlers = IF p[i].kind \in Handling THEN <<i>> \o p[i].handlers
                           ELSE p[i].handlers
    /\ p[i + 1].start = p[i].start + Own(p[i].kind)
Unbinds(p, i) ==
  p[i].kind = "unbind" =>
    /\ p[i + 1].next = p[i].next /\ p[i + 1].handlers = p[i].handlers
    /\ p[i].start <= p[i + 1].start
Throws(p, i) ==
  p[i].kind = "throw" =>
    /\ p[i].x \in Elems(p[i + 1].next)
    /\ \/ p[i + 1].next = p[i].next /\ p[i + 1].handlers = p[i].handlers
       \/ \E c \in Elems(p[i].next) :
            p[i + 1].next = p[c].next /\ p[i + 1].handlers = p[c].handlers
    /\ p[Head(p[i + 1].next)].start <= p[i + 1].start
    /\ p[i].on => p[i + 1].start = p[Head(p[i + 1].next)].start
Chain(p, i) == Keeps(p, i) /\ Unbinds(p, i) /\ Throws(p, i)

-----------------------------------------------------------------------------
(* Elements of sequences.                                                  *)
LEMMA ElemsIs ==
  ASSUME NEW s \in Seq(Nat), NEW v
  PROVE  v \in Elems(s) <=> \E k \in 1 .. Len(s) : v = s[k]
<1>1. DOMAIN s = 1 .. Len(s)
  OBVIOUS
<1> QED
  BY <1>1 DEF Elems

LEMMA ElemsOfCons ==
  ASSUME NEW s \in Seq(Nat), NEW m \in Nat, NEW t, t = <<m>> \o s
  PROVE  t \in Seq(Nat) /\ Elems(t) = {m} \union Elems(s) /\ t # <<>> /\ Head(t) = m
<1>1. t \in Seq(Nat) /\ Len(t) = Len(s) + 1 /\ Len(s) \in Nat
  OBVIOUS
<1>2. \A k \in 1 .. Len(s) + 1 : t[k] = IF k = 1 THEN m ELSE s[k - 1]
  OBVIOUS
<1>3. ASSUME NEW v \in Elems(s) PROVE v \in Elems(t)
  <2>1. PICK k \in 1 .. Len(s) : v = s[k]
    BY ElemsIs
  <2>2. k + 1 \in 1 .. Len(s) + 1 /\ t[k + 1] = s[k]
    BY <1>1, <1>2, <2>1
  <2> QED
    BY <1>1, <2>1, <2>2, ElemsIs
<1>4. m \in Elems(t)
  <2>1. 1 \in 1 .. Len(t) /\ t[1] = m
    BY <1>1, <1>2
  <2> QED
    BY <1>1, <2>1, ElemsIs
<1>5. ASSUME NEW v \in Elems(t) PROVE v = m \/ v \in Elems(s)
  <2>1. PICK k \in 1 .. Len(t) : v = t[k]
    BY <1>1, ElemsIs
  <2>2. CASE k = 1
    BY <1>2, <2>1, <2>2
  <2>3. CASE k # 1
    <3>1. k - 1 \in 1 .. Len(s) /\ t[k] = s[k - 1]
      BY <1>1, <1>2, <2>1, <2>3
    <3> QED
      BY <2>1, <3>1, ElemsIs
  <2> QED
    BY <2>2, <2>3
<1>6. Elems(t) = {m} \union Elems(s)
  BY <1>3, <1>4, <1>5
<1>7. t # <<>> /\ Head(t) = m
  BY <1>1, <1>2
<1> QED
  BY <1>1, <1>6, <1>7

LEMMA ElemsHead ==
  ASSUME NEW s \in Seq(Nat), NEW c \in Elems(s)
  PROVE  Head(s) \in Elems(s) /\ c \in Nat
<1>1. PICK k \in 1 .. Len(s) : c = s[k]
  BY ElemsIs
<1>2. 1 \in 1 .. Len(s) /\ Head(s) = s[1]
  BY <1>1
<1> QED
  BY <1>1, <1>2, ElemsIs

LEMMA PlaceTypes ==
  ASSUME NEW n \in Nat, NEW p \in [1 .. n + 1 -> Position], NEW j \in 1 .. n + 1
  PROVE  /\ p[j].kind \in Kinds \union {"now"} /\ p[j].x \in Nat /\ p[j].on \in BOOLEAN
         /\ p[j].next \in Seq(Nat) /\ p[j].handlers \in Seq(Nat) /\ p[j].start \in Nat
BY DEF Position

-----------------------------------------------------------------------------
(* From one place to the next.                                             *)
LEMMA ListsExtend ==
  ASSUME NEW n \in Nat, NEW p \in [1 .. n + 1 -> Position], NEW m \in 1 .. n,
         p[1].kind \in Catching, \A j \in 1 .. m : Lists(p, j), Chain(p, m)
  PROVE  Lists(p, m + 1)
<1>1. /\ m \in Nat /\ m + 1 \in 1 .. n + 1 /\ m >= 1
      /\ \A j \in 1 .. n + 1 : p[j].next \in Seq(Nat) /\ p[j].handlers \in Seq(Nat)
  BY DEF Position
<1>2. Lists(p, m)
  OBVIOUS
<1>3. PICK l, h : l = p[m].next /\ h = p[m].handlers /\ l \in Seq(Nat) /\ h \in Seq(Nat)
  BY <1>1
<1>4. PICK k : k = p[m].kind
  OBVIOUS
<1>5. CASE k \in Catching
  <2>1. /\ p[m + 1].next = <<m>> \o l
        /\ p[m + 1].handlers = IF k \in Handling THEN <<m>> \o h ELSE h
    BY <1>3, <1>4, <1>5 DEF Chain, Keeps, Catching
  <2>2. Elems(p[m + 1].next) = {m} \union Elems(l) /\ Head(p[m + 1].next) = m
    <3>1. PICK t : t = <<m>> \o l
      OBVIOUS
    <3>2. Elems(t) = {m} \union Elems(l) /\ Head(t) = m
      BY <1>1, <1>3, <3>1, ElemsOfCons
    <3> QED
      BY <2>1, <3>1, <3>2
  <2>3. Elems(p[m + 1].handlers) = IF k \in Handling THEN {m} \union Elems(h) ELSE Elems(h)
    BY <1>1, <1>3, <2>1, ElemsOfCons
  <2>4. \A c \in Elems(p[m + 1].next) :
          c \in 1 .. m /\ p[c].kind \in Catching /\ Elems(p[c].next) \subseteq Elems(p[m + 1].next)
    BY <1>1, <1>2, <1>3, <1>4, <1>5, <2>2 DEF Lists
  <2>5. Elems(p[m + 1].handlers) = {c \in Elems(p[m + 1].next) : p[c].kind \in Handling}
    BY <1>2, <1>3, <1>4, <2>2, <2>3 DEF Lists
  <2>6. 1 \in Elems(p[m + 1].next)
    BY <1>1, <1>2, <1>3, <2>2 DEF Lists
  <2> QED
    BY <1>1, <1>3, <2>2, <2>4, <2>5, <2>6 DEF Lists
<1>6. m = 1 => k \in Catching
  BY <1>4
<1>7. CASE k # "throw" /\ k \notin Catching
  <2>1. p[m + 1].next = l /\ p[m + 1].handlers = h
    BY <1>3, <1>4, <1>7 DEF Chain, Keeps, Unbinds, Handling, Catching
  <2>2. \A c : c \in 1 .. m - 1 => c \in 1 .. m
    BY <1>1
  <2> QED
    BY <1>1, <1>2, <1>3, <1>6, <1>7, <2>1, <2>2 DEF Lists
<1>8. CASE k = "throw"
  <2>1. CASE p[m + 1].next = l /\ p[m + 1].handlers = h
    <3>1. \A c : c \in 1 .. m - 1 => c \in 1 .. m
      BY <1>1
    <3> QED
      BY <1>1, <1>2, <1>3, <1>6, <1>8, <2>1, <3>1 DEF Lists, Catching
  <2>2. CASE \E c \in Elems(l) : p[m + 1].next = p[c].next /\ p[m + 1].handlers = p[c].handlers
    <3>1. PICK c \in Elems(l) : p[m + 1].next = p[c].next /\ p[m + 1].handlers = p[c].handlers
      BY <2>2
    <3>2. c \in 1 .. m - 1
      BY <1>2, <1>3 DEF Lists
    <3>3. Lists(p, c) /\ c \in 1 .. m
      BY <1>1, <3>2
    <3>4. p[m].x \in Elems(p[c].next)
      BY <1>4, <1>8, <3>1 DEF Chain, Throws
    <3>5. c >= 2
      BY <3>2, <3>3, <3>4 DEF Lists
    <3>6. \A d : d \in 1 .. c - 1 => d \in 1 .. m
      BY <1>1, <3>2
    <3> QED
      BY <1>1, <3>1, <3>3, <3>5, <3>6 DEF Lists
  <2> QED
    BY <1>3, <1>4, <1>8, <2>1, <2>2 DEF Chain, Throws
<1> QED
  BY <1>5, <1>7, <1>8

LEMMA WholeExtends ==
  ASSUME NEW n \in Nat, NEW p \in [1 .. n + 1 -> Position], NEW m \in 1 .. n,
         Whole(p, m), Chain(p, m)
  PROVE  Whole(p, m + 1)
<1>1. m \in Nat /\ p[m].next \in Seq(Nat) /\ m + 1 - 1 = m
  BY DEF Position
<1> SUFFICES ASSUME \A i \in 1 .. m : p[i].kind # "throw"
             PROVE  Elems(p[m + 1].next) = {i \in 1 .. m : p[i].kind \in Catching}
  BY <1>1 DEF Whole
<1>2. m \in 1 .. m /\ \A i : i \in 1 .. m <=> i \in 1 .. m - 1 \/ i = m
  BY <1>1
<1>3. Elems(p[m].next) = {i \in 1 .. m - 1 : p[i].kind \in Catching}
  BY <1>2 DEF Whole
<1>4. CASE p[m].kind \in Catching
  <2>1. p[m + 1].next = <<m>> \o p[m].next
    BY <1>4 DEF Chain, Keeps, Catching
  <2>2. Elems(p[m + 1].next) = {m} \union Elems(p[m].next)
    BY <1>1, <2>1, ElemsOfCons
  <2> QED
    BY <1>2, <1>3, <1>4, <2>2
<1>5. CASE p[m].kind \notin Catching
  <2>1. p[m].kind # "throw"
    BY <1>2
  <2>2. p[m + 1].next = p[m].next
    BY <1>5, <2>1 DEF Chain, Keeps, Unbinds
  <2> QED
    BY <1>2, <1>3, <1>5, <2>2
<1> QED
  BY <1>4, <1>5

LEMMA OwnNat == \A kind : Own(kind) \in Nat
BY DEF Own

(* specpdl is not cut below what begins a place, but by a throw.           *)
LEMMA StartGrows ==
  ASSUME NEW n \in Nat, NEW p \in [1 .. n + 1 -> Position], NEW m \in 1 .. n, Chain(p, m),
         p[m].kind # "throw"
  PROVE  p[m].start <= p[m + 1].start
<1>1. p[m].start \in Nat /\ p[m + 1].start \in Nat
  BY DEF Position
<1>2. CASE p[m].kind = "unbind"
  BY <1>2 DEF Chain, Unbinds
<1>3. CASE p[m].kind # "unbind"
  <2>1. p[m + 1].start = p[m].start + Own(p[m].kind)
    BY <1>3 DEF Chain, Keeps
  <2>2. PICK w \in Nat : w = Own(p[m].kind)
    BY OwnNat
  <2> QED
    BY <1>1, <2>1, <2>2
<1> QED
  BY <1>2, <1>3

LEMMA FloorExtends ==
  ASSUME NEW n \in Nat, NEW p \in [1 .. n + 1 -> Position], NEW m \in 1 .. n,
         Lists(p, m + 1), \A j \in 1 .. m : Lists(p, j) /\ Floor(p, j), Chain(p, m)
  PROVE  Floor(p, m + 1)
<1>1. /\ m \in Nat /\ m + 1 \in 1 .. n + 1 /\ m >= 1 /\ m \in 1 .. m
      /\ \A j \in 1 .. n + 1 : p[j].next \in Seq(Nat) /\ p[j].start \in Nat
  BY PlaceTypes
<1>2. ASSUME NEW c \in Elems(p[m + 1].next) PROVE c \in 1 .. m
  BY <1>1 DEF Lists
<1>3. ASSUME NEW c \in Elems(p[m + 1].next), NEW i \in c .. m
      PROVE  p[c].start <= p[i].start
  <2>1. CASE c = m
    <3>1. i = m
      BY <1>1, <2>1
    <3> QED
      BY <1>1, <2>1, <3>1
  <2>2. CASE c # m
    <3>1. c \in Elems(p[m].next)
      <4>1. CASE p[m].kind \in Catching
        <5>1. p[m + 1].next = <<m>> \o p[m].next
          BY <4>1 DEF Chain, Keeps, Catching
        <5>2. m \in 1 .. n + 1 /\ p[m].next \in Seq(Nat)
          BY <1>1
        <5>3. Elems(p[m + 1].next) = {m} \union Elems(p[m].next)
          BY <1>1, <5>1, <5>2, ElemsOfCons
        <5> QED
          BY <2>2, <5>3
      <4>2. CASE p[m].kind \notin Catching /\ p[m].kind # "throw"
        <5>1. p[m + 1].next = p[m].next
          BY <4>2 DEF Chain, Keeps, Unbinds
        <5> QED
          BY <5>1
      <4>3. CASE p[m].kind = "throw"
        <5>1. \/ p[m + 1].next = p[m].next
              \/ \E d \in Elems(p[m].next) : p[m + 1].next = p[d].next
          BY <4>3 DEF Chain, Throws
        <5>2. \A d \in Elems(p[m].next) : Elems(p[d].next) \subseteq Elems(p[m].next)
          BY <1>1 DEF Lists
        <5> QED
          BY <5>1, <5>2
      <4> QED
        BY <4>1, <4>2, <4>3
    <3> QED
      BY <1>1, <3>1 DEF Floor
  <2> QED
    BY <2>1, <2>2
<1>4. ASSUME NEW c \in Elems(p[m + 1].next) PROVE p[c].start <= p[m + 1].start
  <2>1. PICK sc \in Nat, sm \in Nat, s1 \in Nat :
          sc = p[c].start /\ sm = p[m].start /\ s1 = p[m + 1].start
    <3>1. c \in 1 .. n + 1 /\ m \in 1 .. n + 1
      BY <1>1, <1>2
    <3> QED
      BY <1>1, <3>1
  <2>2. sc <= sm
    <3>1. m \in c .. m
      BY <1>1, <1>2
    <3> QED
      BY <1>3, <2>1, <3>1
  <2>3. CASE p[m].kind # "throw"
    BY <2>1, <2>2, <2>3, StartGrows, SMTT(30)
  <2>4. CASE p[m].kind = "throw"
    <3>1. PICK d : d = Head(p[m + 1].next)
      OBVIOUS
    <3>2. d \in Elems(p[m + 1].next) /\ p[d].start <= s1
      BY <1>1, <2>1, <2>4, <3>1, ElemsHead DEF Chain, Throws
    <3>3. d \in 1 .. m /\ p[d].start \in Nat
      BY <1>1, <1>2, <3>2
    <3>4. c = d \/ c \in Elems(p[d].next)
      BY <3>1 DEF Lists
    <3>5. CASE c = d
      BY <2>1, <3>2, <3>5
    <3>6. CASE c \in Elems(p[d].next)
      <4>1. Lists(p, d) /\ Floor(p, d)
        BY <3>3
      <4>2. d \in c .. d
        BY <3>3, <3>6, <4>1 DEF Lists
      <4>3. sc <= p[d].start
        BY <2>1, <3>6, <4>1, <4>2 DEF Floor
      <4> QED
        BY <2>1, <3>2, <3>3, <4>3
    <3> QED
      BY <3>4, <3>5, <3>6
  <2> QED
    BY <2>3, <2>4
<1>5. \A c \in 1 .. m : \A i : i \in c .. m + 1 => i \in c .. m \/ i = m + 1
  BY <1>1
<1> QED
  BY <1>2, <1>3, <1>4, <1>5 DEF Floor

LEMMA GrowsExtends ==
  ASSUME NEW n \in Nat, NEW p \in [1 .. n + 1 -> Position], NEW m \in 1 .. n,
         Grows(p, m), Chain(p, m)
  PROVE  Grows(p, m + 1)
<1>1. m \in Nat /\ m + 1 - 1 = m /\ \A j \in 1 .. n + 1 : p[j].start \in Nat
  BY DEF Position
<1>0. PICK k \in Nat : k = m + 1 /\ k - 1 = m
  BY <1>1
<1> SUFFICES ASSUME NEW i \in 1 .. k, \A l \in i .. k - 1 : p[l].kind # "throw"
             PROVE  p[i].start <= p[k].start
  BY <1>0, Zenon DEF Grows
<1> SUFFICES ASSUME i \in 1 .. m + 1, \A l \in i .. m : p[l].kind # "throw"
             PROVE  p[i].start <= p[m + 1].start
  BY <1>0
<1>2. CASE i = m + 1
  BY <1>1, <1>2
<1>3. CASE i # m + 1
  <2>1. i \in 1 .. m /\ m \in i .. m /\ \A l : l \in i .. m - 1 => l \in i .. m
    BY <1>1, <1>3
  <2>2. p[i].start <= p[m].start
    BY <2>1 DEF Grows
  <2>3. p[m].start <= p[m + 1].start
    BY <2>1, StartGrows
  <2> QED
    BY <1>1, <2>1, <2>2, <2>3
<1> QED
  BY <1>2, <1>3

LEMMA SoundExtends ==
  ASSUME NEW n \in Nat, NEW p \in [1 .. n + 1 -> Position], NEW m \in 1 .. n,
         p[1].kind \in Catching, \A j \in 1 .. m : Sound(p, j), Chain(p, m)
  PROVE  \A j \in 1 .. m + 1 : Sound(p, j)
<1>1. m \in 1 .. m /\ \A j : j \in 1 .. m + 1 => j \in 1 .. m \/ j = m + 1
  OBVIOUS
<1>2. Lists(p, m + 1)
  BY ListsExtend DEF Sound
<1>3. Floor(p, m + 1)
  BY <1>2, FloorExtends DEF Sound
<1>4. Whole(p, m + 1) /\ Grows(p, m + 1)
  BY <1>1, WholeExtends, GrowsExtends DEF Sound
<1> QED
  BY <1>1, <1>2, <1>3, <1>4 DEF Sound

-----------------------------------------------------------------------------
(* From one stack to the next: what is below m stays, and so do the        *)
(* registers it began with.                                                *)
Handed(p, q, m) ==
  q[m].next = p[m].next /\ q[m].handlers = p[m].handlers /\ q[m].start = p[m].start
Same(p, q, m) == (\A i \in 1 .. m - 1 : q[i] = p[i]) /\ Handed(p, q, m)

Control(p, n) ==
  /\ p \in [1 .. n + 1 -> Position] /\ p[1].kind \in Catching
  /\ \A j \in 1 .. n + 1 : Sound(p, j)
  /\ \A i \in 1 .. n : Chain(p, i)

LEMMA SoundSame ==
  ASSUME NEW n \in Nat, NEW p \in [1 .. n + 1 -> Position], NEW q, NEW m \in 1 .. n + 1,
         Same(p, q, m), NEW j \in 1 .. m, Sound(p, j)
  PROVE  Sound(q, j)
<1>1. /\ \A i \in 1 .. j - 1 : q[i] = p[i]
      /\ q[j].next = p[j].next /\ q[j].handlers = p[j].handlers /\ q[j].start = p[j].start
  BY DEF Same, Handed
<1>2. j \in 1 .. j /\ Sound(p, j)
  OBVIOUS
<1>3. \A i \in 1 .. j : q[i].start = p[i].start
  BY <1>1
<1>4. \A c \in Elems(p[j].next) : c \in 1 .. j - 1
  BY <1>2 DEF Sound, Lists
<1>5. Lists(q, j)
  <2>1. ASSUME NEW c \in Elems(q[j].next)
        PROVE  /\ c \in 1 .. j - 1 /\ q[c].kind \in Catching
               /\ Elems(q[c].next) \subseteq Elems(q[j].next)
    BY <1>1, <1>2, <2>1 DEF Sound, Lists
  <2>2. Elems(q[j].handlers) = {c \in Elems(q[j].next) : q[c].kind \in Handling}
    BY <1>1, <1>2, <1>4 DEF Sound, Lists
  <2>3. ASSUME NEW c \in Elems(q[j].next), c # Head(q[j].next)
        PROVE  c \in Elems(q[Head(q[j].next)].next)
    <3>1. PICK h : h = Head(p[j].next)
      OBVIOUS
    <3>2. c \in Elems(p[h].next)
      BY <1>1, <1>2, <2>3, <3>1 DEF Sound, Lists
    <3>3. h \in Elems(p[j].next)
      <4>1. j \in 1 .. n + 1
        OBVIOUS
      <4>2. p[j].next \in Seq(Nat) /\ c \in Elems(p[j].next)
        BY <1>1, <4>1, <2>3, PlaceTypes
      <4> QED
        BY <3>1, <4>2, ElemsHead
    <3>4. q[h] = p[h]
      BY <1>1, <1>4, <3>3
    <3> QED
      BY <1>1, <3>1, <3>2, <3>4
  <2> QED
    BY <1>1, <1>2, <2>1, <2>2, <2>3 DEF Sound, Lists
<1>6. Whole(q, j)
  BY <1>1, <1>2 DEF Sound, Whole
<1>7. Floor(q, j)
  BY <1>1, <1>2, <1>3, <1>4 DEF Sound, Floor
<1>8. Grows(q, j)
  <2>1. ASSUME NEW i \in 1 .. j, \A l \in i .. j - 1 : q[l].kind # "throw"
        PROVE  q[i].start <= q[j].start
    <3>1. \A l \in i .. j - 1 : l \in 1 .. j - 1
      BY <2>1
    <3> QED
      BY <1>1, <1>2, <1>3, <2>1, <3>1 DEF Sound, Grows
  <2> QED
    BY <2>1 DEF Grows
<1> QED
  BY <1>5, <1>6, <1>7, <1>8 DEF Sound

LEMMA ChainSame ==
  ASSUME NEW n \in Nat, NEW p \in [1 .. n + 1 -> Position], NEW q, NEW m \in 1 .. n + 1,
         Same(p, q, m), NEW i \in 1 .. m - 1, Lists(p, i), Lists(p, i + 1), Chain(p, i)
  PROVE  Chain(q, i)
<1>1. /\ q[i] = p[i] /\ q[i + 1].start = p[i + 1].start
      /\ q[i + 1].next = p[i + 1].next /\ q[i + 1].handlers = p[i + 1].handlers
  <2>1. i + 1 \in 1 .. m - 1 \/ i + 1 = m
    OBVIOUS
  <2> QED
    BY <2>1 DEF Same, Handed
<1>2. \A c \in 1 .. i : q[c] = p[c]
  BY DEF Same
<1>3. Keeps(q, i) /\ Unbinds(q, i)
  BY <1>1 DEF Chain, Keeps, Unbinds
<1>4. ASSUME p[i].kind = "throw" PROVE Throws(q, i)
  <2>1. PICK h : h = Head(p[i + 1].next)
    OBVIOUS
  <2>2. h \in 1 .. i
    <3>1. p[i].x \in Elems(p[i + 1].next) /\ i + 1 \in 1 .. n + 1
      BY <1>4 DEF Chain, Throws
    <3>2. p[i + 1].next \in Seq(Nat)
      BY <3>1, PlaceTypes
    <3>3. h \in Elems(p[i + 1].next)
      BY <2>1, <3>1, <3>2, ElemsHead
    <3> QED
      BY <3>3 DEF Lists
  <2>3. q[h] = p[h]
    BY <1>2, <2>2
  <2>4. \A c \in Elems(p[i].next) : q[c] = p[c]
    BY <1>2 DEF Lists
  <2> QED
    BY <1>1, <1>4, <2>1, <2>3, <2>4 DEF Chain, Throws
<1> QED
  BY <1>1, <1>3, <1>4 DEF Chain, Throws

(* A step that pushes up to three places from m on keeps all of it.        *)
LEMMA ControlKept ==
  ASSUME NEW n \in Nat, NEW p, Control(p, n), NEW k \in Nat, NEW q \in [1 .. k + 1 -> Position],
         q[1].kind \in Catching, NEW m \in 1 .. n + 1, m <= k + 1, k <= m + 2, Same(p, q, m),
         \A i \in m .. k : Chain(q, i)
  PROVE  Control(q, k)
<1>1. p \in [1 .. n + 1 -> Position]
  BY DEF Control
<1>2. \A j \in 1 .. m : Sound(q, j)
  BY <1>1, SoundSame DEF Control
<1>3. \A i \in 1 .. k : Chain(q, i)
  <2>1. ASSUME NEW i \in 1 .. m - 1 PROVE Chain(q, i)
    <3>1. i \in 1 .. n /\ i \in 1 .. n + 1 /\ i + 1 \in 1 .. n + 1
      OBVIOUS
    <3>2. Lists(p, i) /\ Lists(p, i + 1) /\ Chain(p, i)
      BY <3>1 DEF Control, Sound
    <3> QED
      BY <1>1, <3>2, ChainSame
  <2>2. \A i : i \in 1 .. k => i \in 1 .. m - 1 \/ i \in m .. k
    OBVIOUS
  <2> QED
    BY <2>1, <2>2
<1>4. ASSUME NEW j \in 1 .. k, \A i \in 1 .. j : Sound(q, i)
      PROVE  \A i \in 1 .. j + 1 : Sound(q, i)
  BY <1>3, <1>4, SoundExtends
<1>5. \A j \in 1 .. k + 1 : Sound(q, j)
  <2>1. CASE k + 1 = m
    BY <1>2, <2>1
  <2>2. CASE k = m
    BY <1>2, <1>4, <2>2
  <2>3. CASE k = m + 1
    <3>1. m \in 1 .. k /\ k \in 1 .. k
      BY <2>3
    <3> QED
      BY <1>2, <1>4, <2>3, <3>1
  <2>4. CASE k = m + 2
    <3>1. m \in 1 .. k /\ m + 1 \in 1 .. k /\ k \in 1 .. k /\ m + 1 + 1 = k
      BY <2>4
    <3>2. \A i \in 1 .. m + 1 : Sound(q, i)
      BY <1>2, <1>4, <3>1
    <3>3. \A i \in 1 .. k : Sound(q, i)
      BY <1>4, <3>1, <3>2
    <3> QED
      BY <1>4, <3>1, <3>3
  <2>5. k + 1 = m \/ k = m \/ k = m + 1 \/ k = m + 2
    OBVIOUS
  <2> QED
    BY <2>1, <2>2, <2>3, <2>4, <2>5
<1> QED
  BY <1>3, <1>5 DEF Control

-----------------------------------------------------------------------------
(* What specpdl would restore.                                             *)
Which(s, n, kind) == {i \in 1 .. n : s[i].kind = kind}
Tally(s, n, kind) == Cardinality(Which(s, n, kind))

(* command_loop_level without the edits whose saved buffer was killed.     *)
Depth == command_loop_level - lost
Counts == command_loop_level \in Int /\ lost \in Int

(* The variables that specpdl restores, with specpdl.                      *)
Bindings ==
  [pdl |-> specpdl, value |-> value, shown |-> shown, prompt |-> prompt, saved |-> saved,
   edits |-> Depth, reads |-> minibuf_level]

(* The register that entries of a kind restore, when specpdl has been cut  *)
(* to k of them.                                                           *)
Sees(pdl, kind, now, k, v) ==
  \/ (\A i \in k + 1 .. Len(pdl) : pdl[i].kind # kind) /\ v = now
  \/ \E i \in k + 1 .. Len(pdl) :
       pdl[i].kind = kind /\ pdl[i].old = v /\ \A l \in k + 1 .. i - 1 : pdl[l].kind # kind

Restores(b, k, r) ==
  /\ r.edits = Tally(b.pdl, k, "edit") /\ r.reads = Tally(b.pdl, k, "minibuf")
  /\ Sees(b.pdl, "let", b.value, k, r.value)
  /\ Sees(b.pdl, "windows", b.shown, k, r.shown)
  /\ r.reads <= b.reads /\ r.prompt = IF r.reads = b.reads THEN b.prompt ELSE b.saved[r.reads]

Current(b) ==
  [edits |-> b.edits, reads |-> b.reads, value |-> b.value, shown |-> b.shown,
   prompt |-> b.prompt]

(* What fits the frames below a place: the levels, the value of the        *)
(* innermost let, and prompt and contents of the innermost minibuffer.     *)
InnermostIs(p, j, kind, i) ==
  /\ i = 0 \/ (i \in 1 .. j - 1 /\ p[i].kind = kind)
  /\ \A l \in i + 1 .. j - 1 : p[l].kind # kind
Fits(p, j, r) ==
  /\ r.edits = Tally(p, j - 1, "edit") /\ r.reads = Tally(p, j - 1, "read")
  /\ \E i \in 0 .. j - 1 : InnermostIs(p, j, "let", i) /\ r.value = IF i = 0 THEN 0 ELSE p[i].x
  /\ InnermostIs(p, j, "read", r.prompt) /\ (r.prompt # 0 => r.shown = p[r.prompt].x)

(* The prompt is in a frame below, of a minibuffer that may be unwinding.  *)
Alive(p, j, r) ==
  r.prompt = 0 \/ (r.prompt \in 1 .. j - 1 /\ p[r.prompt].kind \in {"read", "unbind"})

Clear(p, j) == \A i \in 1 .. j - 1 : p[i].kind \notin {"unbind", "throw"}
Right(p, j, r) == Alive(p, j, r) /\ (Clear(p, j) => Fits(p, j, r))

(* The entries below a place are those it began with.                      *)
Firm(p, n, j) == \A l \in j .. n + 1 : p[j].start <= p[l].start

(* However much more is undone, the prompt restored is alive there.        *)
Held(p, b, j, depth) == \A d \in 0 .. depth : \E r : Restores(b, d, r) /\ Alive(p, j, r)

(* Undoing what is above a place restores what fits it.                    *)
Back(p, n, b, j) ==
  Firm(p, n, j) => /\ \E r : Restores(b, p[j].start, r) /\ Right(p, j, r)
                   /\ Held(p, b, j, p[j].start)

-----------------------------------------------------------------------------
LEMMA TallySame ==
  ASSUME NEW s, NEW t, NEW n \in Nat, NEW kind, \A i \in 1 .. n : s[i].kind = t[i].kind
  PROVE  Tally(s, n, kind) = Tally(t, n, kind)
<1>1. Which(s, n, kind) = Which(t, n, kind)
  BY DEF Which
<1> QED
  BY <1>1 DEF Tally

Agree(s, t, n) == \A i \in 1 .. n : t[i] = s[i]

LEMMA TallyPrefix ==
  ASSUME NEW s, NEW t, NEW n \in Nat, Agree(s, t, n)
  PROVE  \A d \in Nat : \A kind : d <= n => Tally(t, d, kind) = Tally(s, d, kind)
<1>1. ASSUME NEW d \in Nat, NEW kind, d <= n PROVE Which(t, d, kind) = Which(s, d, kind)
  <2>1. \A i \in 1 .. d : t[i] = s[i]
    BY <1>1 DEF Agree
  <2> QED
    BY <2>1 DEF Which
<1> QED
  BY <1>1 DEF Tally

LEMMA TallyNat ==
  ASSUME NEW s, NEW n \in Nat, NEW kind
  PROVE  Tally(s, n, kind) \in Nat /\ IsFiniteSet(Which(s, n, kind))
<1>1. IsFiniteSet(1 .. n)
  BY FS_Interval
<1>2. Which(s, n, kind) \in SUBSET (1 .. n)
  BY DEF Which
<1>3. IsFiniteSet(Which(s, n, kind))
  BY <1>1, <1>2, FS_Subset
<1> QED
  BY <1>3, FS_CardinalityType DEF Tally

LEMMA TallyNext ==
  ASSUME NEW s, NEW n \in Nat, NEW kind
  PROVE  Tally(s, n + 1, kind) = IF s[n + 1].kind = kind THEN Tally(s, n, kind) + 1
                                 ELSE Tally(s, n, kind)
<1>1. IsFiniteSet(Which(s, n, kind))
  BY TallyNat
<1>2. n + 1 \notin Which(s, n, kind)
  BY DEF Which
<1>3. Which(s, n + 1, kind) = IF s[n + 1].kind = kind THEN Which(s, n, kind) \union {n + 1}
                              ELSE Which(s, n, kind)
  BY DEF Which
<1>4. Cardinality(Which(s, n, kind) \union {n + 1}) = Cardinality(Which(s, n, kind)) + 1
  BY <1>1, <1>2, FS_AddElement
<1> QED
  BY <1>3, <1>4 DEF Tally

LEMMA TallyGrows ==
  ASSUME NEW s, NEW n \in Nat, NEW m \in Nat, m <= n, NEW kind
  PROVE  Tally(s, m, kind) <= Tally(s, n, kind)
<1>1. IsFiniteSet(Which(s, n, kind))
  BY TallyNat
<1>2. Which(s, m, kind) \in SUBSET Which(s, n, kind)
  BY DEF Which
<1> QED
  BY <1>1, <1>2, FS_Subset DEF Tally

(* Undoing nothing gives what is.                                          *)
LEMMA SeesNow ==
  ASSUME NEW pdl, Len(pdl) \in Nat, NEW kind, NEW now, NEW v
  PROVE  Sees(pdl, kind, now, Len(pdl), v) <=> v = now
BY DEF Sees

(* A step keeps what specpdl restores below m, where it is firm.           *)
LEMMA FirmKept ==
  ASSUME NEW n \in Nat, NEW p \in [1 .. n + 1 -> Position], NEW k \in Nat,
         NEW q \in [1 .. k + 1 -> Position], NEW m \in 1 .. n + 1, m <= k + 1, Same(p, q, m),
         \A l \in m + 1 .. n + 1 : \E i \in m .. k + 1 : q[i].start <= p[l].start,
         NEW j \in 1 .. m, Firm(q, k, j)
  PROVE  Firm(p, n, j)
<1>1. \A i \in 1 .. m : q[i].start = p[i].start
  BY DEF Same, Handed
<1>2. ASSUME NEW l \in j .. n + 1 PROVE p[j].start <= p[l].start
  <2>1. CASE l \in j .. m
    <3>1. l \in j .. k + 1 /\ l \in 1 .. m
      BY <2>1
    <3> QED
      BY <1>1, <3>1 DEF Firm
  <2>2. CASE l \in m + 1 .. n + 1
    <3>1. PICK i \in m .. k + 1 : q[i].start <= p[l].start
      BY <2>2
    <3>2. i \in j .. k + 1 /\ i \in 1 .. k + 1 /\ j \in 1 .. k + 1 /\ l \in 1 .. n + 1
      BY <2>2, <3>1
    <3>3. q[j].start <= q[i].start /\ q[j].start = p[j].start
      BY <1>1, <3>2 DEF Firm
    <3>4. q[j].start \in Nat /\ q[i].start \in Nat /\ p[l].start \in Nat
      BY <3>2, PlaceTypes
    <3> QED
      BY <3>1, <3>3, <3>4
  <2> QED
    BY <2>1, <2>2
<1> QED
  BY <1>2 DEF Firm

LEMMA RightSame ==
  ASSUME NEW p, NEW q, NEW j \in Nat, j >= 1, \A i \in 1 .. j - 1 : q[i] = p[i], NEW r, Right(p, j, r)
  PROVE  Right(q, j, r)
<1>1. \A kind : Tally(q, j - 1, kind) = Tally(p, j - 1, kind)
  BY TallySame
<1>2. Alive(q, j, r)
  BY DEF Right, Alive
<1>3. Clear(q, j) => Clear(p, j)
  BY DEF Clear
<1>4. \A kind : \A i \in Nat : InnermostIs(p, j, kind, i) => InnermostIs(q, j, kind, i)
  BY DEF InnermostIs
<1>5. ASSUME Fits(p, j, r) PROVE Fits(q, j, r)
  <2>1. PICK i \in 0 .. j - 1 :
          InnermostIs(p, j, "let", i) /\ r.value = IF i = 0 THEN 0 ELSE p[i].x
    BY <1>5 DEF Fits
  <2>2. InnermostIs(q, j, "let", i) /\ r.value = IF i = 0 THEN 0 ELSE q[i].x
    BY <1>4, <2>1 DEF InnermostIs
  <2>3. InnermostIs(q, j, "read", r.prompt) /\ (r.prompt # 0 => r.shown = q[r.prompt].x)
    BY <1>5 DEF Fits, InnermostIs
  <2> QED
    BY <1>1, <1>5, <2>2, <2>3 DEF Fits
<1> QED
  BY <1>2, <1>3, <1>5 DEF Right

LEMMA BackKept ==
  ASSUME NEW n \in Nat, NEW p \in [1 .. n + 1 -> Position], NEW k \in Nat,
         NEW q \in [1 .. k + 1 -> Position], NEW m \in 1 .. n + 1, m <= k + 1, Same(p, q, m),
         \A l \in m + 1 .. n + 1 : \E i \in m .. k + 1 : q[i].start <= p[l].start,
         NEW b, NEW c,
         \A d \in Nat : \A r :
           d <= p[m].start /\ d <= p[n + 1].start /\ d <= q[k + 1].start /\ Restores(b, d, r)
             => Restores(c, d, r),
         NEW j \in 1 .. m, Back(p, n, b, j)
  PROVE  Back(q, k, c, j)
<1> SUFFICES ASSUME Firm(q, k, j)
             PROVE  /\ \E r : Restores(c, q[j].start, r) /\ Right(q, j, r)
                    /\ Held(q, c, j, q[j].start)
  BY DEF Back
<1>1. Firm(p, n, j)
  BY FirmKept
<1>2. PICK r : Restores(b, p[j].start, r) /\ Right(p, j, r)
  BY <1>1 DEF Back
<1>3. \A i \in 1 .. j - 1 : q[i] = p[i]
  BY DEF Same
<1>4. Right(q, j, r)
  BY <1>2, <1>3, RightSame
<1>5. PICK d \in Nat : d = p[j].start /\ q[j].start = d
  <2>1. j \in 1 .. n + 1 /\ p[j].start \in Nat
    BY PlaceTypes
  <2>2. q[j].start = p[j].start
    BY <2>1 DEF Same, Handed
  <2> QED
    BY <2>1, <2>2
<1>6. d <= p[n + 1].start /\ d <= q[k + 1].start /\ d <= p[m].start
  BY <1>1, <1>5 DEF Firm
<1>7. Restores(c, d, r)
  BY <1>2, <1>5, <1>6
<1>8. ASSUME NEW e \in 0 .. d PROVE \E u : Restores(c, e, u) /\ Alive(q, j, u)
  <2>1. PICK u : Restores(b, e, u) /\ Alive(p, j, u)
    BY <1>1, <1>5, <1>8 DEF Back, Held
  <2>2. Alive(q, j, u)
    BY <1>3, <2>1 DEF Alive
  <2>3. e \in Nat /\ e <= p[n + 1].start /\ e <= q[k + 1].start /\ e <= p[m].start
    <3>1. j \in 1 .. n + 1 /\ m \in 1 .. n + 1 /\ n + 1 \in 1 .. n + 1 /\ k + 1 \in 1 .. k + 1
      OBVIOUS
    <3>2. p[n + 1].start \in Nat /\ p[m].start \in Nat /\ q[k + 1].start \in Nat
      BY <3>1, PlaceTypes
    <3> QED
      BY <1>6, <3>2, SMTT(30)
  <2>4. Restores(c, e, u)
    BY <2>1, <2>3
  <2> QED
    BY <2>2, <2>4
<1> QED
  BY <1>4, <1>5, <1>7, <1>8 DEF Held

-----------------------------------------------------------------------------
(* specbind, record_unwind_protect and what unbind_to undoes.              *)
Entries == [kind : {"let", "form", "edit", "windows", "minibuf"}, old : Nat]

BindingsTyped(b) ==
  /\ b.pdl \in Seq(Entries) /\ b.value \in Nat /\ b.shown \in Nat /\ b.prompt \in Nat
  /\ b.edits \in Nat /\ b.reads \in 0 .. MaxMinibuf /\ b.saved \in [0 .. MaxMinibuf - 1 -> Nat]

(* The levels count entries, and when a minibuffer's entry is undone the   *)
(* window shows that minibuffer.                                           *)
Counted(b) ==
  /\ b.edits = Tally(b.pdl, Len(b.pdl), "edit") /\ b.reads = Tally(b.pdl, Len(b.pdl), "minibuf")
  /\ \A k \in 1 .. Len(b.pdl) :
       b.pdl[k].kind = "minibuf"
         => Sees(b.pdl, "windows", b.shown, k, Tally(b.pdl, k - 1, "minibuf"))

LEMMA RestoresNow ==
  ASSUME NEW b, BindingsTyped(b), Counted(b), NEW r
  PROVE  /\ Restores(b, Len(b.pdl), Current(b))
         /\ Restores(b, Len(b.pdl), r) => /\ r.edits = b.edits /\ r.reads = b.reads
                                         /\ r.value = b.value /\ r.shown = b.shown
                                         /\ r.prompt = b.prompt
<1>1. Len(b.pdl) \in Nat /\ b.reads \in Nat
  BY DEF BindingsTyped
<1> QED
  BY <1>1, SeesNow DEF Restores, Counted, Current

LEMMA AppendIs ==
  ASSUME NEW S, NEW s \in Seq(S), NEW e \in S, NEW t, t = Append(s, e)
  PROVE  /\ t \in Seq(S) /\ Len(s) \in Nat /\ Len(t) = Len(s) + 1 /\ t[Len(s) + 1] = e
         /\ \A i \in 1 .. Len(s) : t[i] = s[i]
OBVIOUS

LEMMA FrontIs ==
  ASSUME NEW S, NEW s \in Seq(S), Len(s) >= 1, NEW t, t = Front(s)
  PROVE  /\ t \in Seq(S) /\ Len(s) \in Nat /\ Len(t) = Len(s) - 1
         /\ \A i \in 1 .. Len(s) - 1 : t[i] = s[i]
<1>1. PICK n \in Nat : n = Len(s)
  OBVIOUS
<1>2. t = SubSeq(s, 1, n - 1) /\ n - 1 \in Nat
  BY <1>1 DEF Front
<1>3. \A i \in 1 .. n - 1 : s[i] \in S
  BY <1>1
<1>4. t = [i \in 1 .. n - 1 |-> s[i]]
  BY <1>1, <1>2
<1>5. t \in Seq(S) /\ Len(t) = n - 1
  BY <1>2, <1>3, <1>4
<1> QED
  BY <1>1, <1>4, <1>5

LEMMA SeesPush ==
  ASSUME NEW s, NEW t, NEW n \in Nat, Len(s) = n, Len(t) = n + 1, \A i \in 1 .. n : t[i] = s[i],
         NEW kind, NEW now, NEW then,
         IF t[n + 1].kind = kind THEN t[n + 1].old = now ELSE then = now,
         NEW d \in Nat, d <= n, NEW v, Sees(s, kind, now, d, v)
  PROVE  Sees(t, kind, then, d, v)
<1>1. \A i : i \in d + 1 .. n + 1 <=> i \in d + 1 .. n \/ i = n + 1
  OBVIOUS
<1>2. \A i \in d + 1 .. n : t[i] = s[i]
  OBVIOUS
<1>3. CASE \E i \in d + 1 .. n : s[i].kind = kind /\ s[i].old = v
                               /\ \A l \in d + 1 .. i - 1 : s[l].kind # kind
  <2>1. PICK i \in d + 1 .. n : s[i].kind = kind /\ s[i].old = v
                               /\ \A l \in d + 1 .. i - 1 : s[l].kind # kind
    BY <1>3
  <2>2. i \in d + 1 .. n + 1 /\ t[i].kind = kind /\ t[i].old = v
    BY <1>2, <2>1
  <2>3. \A l \in d + 1 .. i - 1 : t[l].kind # kind
    BY <1>2, <2>1
  <2> QED
    BY <2>2, <2>3 DEF Sees
<1>4. CASE (\A i \in d + 1 .. n : s[i].kind # kind) /\ v = now
  <2>1. \A i \in d + 1 .. n : t[i].kind # kind
    BY <1>2, <1>4
  <2>2. CASE t[n + 1].kind = kind
    <3>1. n + 1 \in d + 1 .. n + 1 /\ n + 1 - 1 = n
      OBVIOUS
    <3> QED
      BY <1>4, <2>1, <2>2, <3>1 DEF Sees
  <2>3. CASE t[n + 1].kind # kind
    BY <1>1, <1>4, <2>1, <2>3 DEF Sees
  <2> QED
    BY <2>2, <2>3
<1> QED
  BY <1>3, <1>4 DEF Sees

LEMMA SeesPop ==
  ASSUME NEW s, NEW t, NEW n \in Nat, Len(s) = n + 1, Len(t) = n, \A i \in 1 .. n : t[i] = s[i],
         NEW kind, NEW now, NEW then,
         IF s[n + 1].kind = kind THEN then = s[n + 1].old ELSE then = now,
         NEW d \in Nat, d <= n, NEW v, Sees(s, kind, now, d, v)
  PROVE  Sees(t, kind, then, d, v)
<1>1. \A i : i \in d + 1 .. n + 1 <=> i \in d + 1 .. n \/ i = n + 1
  OBVIOUS
<1>2. \A i \in d + 1 .. n : t[i] = s[i]
  OBVIOUS
<1>3. CASE \E i \in d + 1 .. n + 1 : s[i].kind = kind /\ s[i].old = v
                               /\ \A l \in d + 1 .. i - 1 : s[l].kind # kind
  <2>1. PICK i \in d + 1 .. n + 1 : s[i].kind = kind /\ s[i].old = v
                               /\ \A l \in d + 1 .. i - 1 : s[l].kind # kind
    BY <1>3
  <2>2. CASE i = n + 1
    <3>1. i - 1 = n /\ then = v
      BY <2>1, <2>2
    <3>2. \A l \in d + 1 .. n : t[l].kind # kind
      BY <1>2, <2>1, <3>1
    <3> QED
      BY <3>1, <3>2 DEF Sees
  <2>3. CASE i \in d + 1 .. n
    <3>1. t[i].kind = kind /\ t[i].old = v
      BY <1>2, <2>1, <2>3
    <3>2. \A l \in d + 1 .. i - 1 : t[l].kind # kind
      BY <1>2, <2>1, <2>3
    <3> QED
      BY <2>3, <3>1, <3>2 DEF Sees
  <2> QED
    BY <1>1, <2>2, <2>3
<1>4. CASE (\A i \in d + 1 .. n + 1 : s[i].kind # kind) /\ v = now
  <2>1. n + 1 \in d + 1 .. n + 1 /\ then = now
    BY <1>4
  <2> QED
    BY <1>1, <1>2, <1>4, <2>1 DEF Sees
<1> QED
  BY <1>3, <1>4 DEF Sees

(* A new entry restores what was.                                          *)
LEMMA PushKept ==
  ASSUME NEW b, NEW c, BindingsTyped(b), BindingsTyped(c), Counted(b), NEW e \in Entries,
         c.pdl = Append(b.pdl, e), e.kind # "minibuf",
         IF e.kind = "let" THEN e.old = b.value ELSE c.value = b.value,
         e.kind = "windows" => e.old = b.shown, c.shown = b.shown,
         c.edits = IF e.kind = "edit" THEN b.edits + 1 ELSE b.edits,
         c.reads = b.reads, c.prompt = b.prompt, \A l \in 0 .. b.reads - 1 : c.saved[l] = b.saved[l]
  PROVE  /\ Counted(c)
         /\ \A d \in Nat : \A r : d <= Len(b.pdl) /\ Restores(b, d, r) => Restores(c, d, r)
<1>0. PICK n \in Nat : n = Len(b.pdl)
  BY DEF BindingsTyped
<1>1. PICK s, t : s = b.pdl /\ t = c.pdl /\ n = Len(s)
  BY <1>0
<1>2. Len(t) = n + 1 /\ t[n + 1] = e /\ \A i \in 1 .. n : t[i] = s[i]
  BY <1>1, AppendIs DEF BindingsTyped
<1>3. \A d \in Nat : \A kind : d <= n => Tally(t, d, kind) = Tally(s, d, kind)
  <2>1. Agree(s, t, n)
    BY <1>2 DEF Agree
  <2> QED
    BY <2>1, TallyPrefix
<1>4. ASSUME NEW d \in Nat, d <= n, NEW v
      PROVE  /\ Sees(s, "let", b.value, d, v) => Sees(t, "let", c.value, d, v)
             /\ Sees(s, "windows", b.shown, d, v) => Sees(t, "windows", c.shown, d, v)
  BY <1>1, <1>2, <1>4, SeesPush
<1>5. ASSUME NEW d \in Nat, NEW r, d <= n, Restores(b, d, r) PROVE Restores(c, d, r)
  <2>1. r.reads \in Nat /\ b.reads \in Nat
    BY <1>5, TallyNat DEF Restores, BindingsTyped
  <2>2. r.reads # b.reads => c.saved[r.reads] = b.saved[r.reads]
    BY <1>5, <2>1 DEF Restores
  <2> QED
    BY <1>1, <1>3, <1>4, <1>5, <2>2 DEF Restores
<1>6. \A kind : Tally(t, n + 1, kind) = IF e.kind = kind THEN Tally(s, n, kind) + 1
                                     ELSE Tally(s, n, kind)
  BY <1>2, <1>3, TallyNext
<1>7. c.edits = Tally(t, n + 1, "edit") /\ c.reads = Tally(t, n + 1, "minibuf")
  BY <1>1, <1>6 DEF Counted
<1>8. ASSUME NEW k \in 1 .. n + 1, t[k].kind = "minibuf"
      PROVE  Sees(t, "windows", c.shown, k, Tally(t, k - 1, "minibuf"))
  <2>1. k \in 1 .. n /\ s[k].kind = "minibuf"
    BY <1>2, <1>8
  <2>2. Tally(t, k - 1, "minibuf") = Tally(s, k - 1, "minibuf")
    BY <1>3, <2>1
  <2> QED
    BY <1>1, <1>4, <2>1, <2>2 DEF Counted
<1> QED
  BY <1>1, <1>2, <1>5, <1>7, <1>8 DEF Counted

(* The entry of a minibuffer comes on top of the one for the windows.      *)
LEMMA PushMinibufKept ==
  ASSUME NEW b, NEW c, BindingsTyped(b), BindingsTyped(c), Counted(b), NEW e \in Entries,
         c.pdl = Append(b.pdl, e), e.kind = "minibuf",
         Len(b.pdl) >= 1, b.pdl[Len(b.pdl)].kind = "windows",
         c.value = b.value, c.shown = b.reads, c.edits = b.edits, c.reads = b.reads + 1,
         c.saved = b.saved, b.saved[b.reads] = b.prompt
  PROVE  /\ Counted(c)
         /\ \A d \in Nat : \A r : d <= Len(b.pdl) - 1 /\ Restores(b, d, r) => Restores(c, d, r)
         /\ \E r : Restores(c, Len(b.pdl), r) /\ r.prompt = b.prompt
<1>0. PICK n \in Nat : n = Len(b.pdl)
  BY DEF BindingsTyped
<1>1. PICK s, t : s = b.pdl /\ t = c.pdl /\ n = Len(s)
  BY <1>0
<1>2. /\ Len(t) = n + 1 /\ t[n + 1] = e /\ \A i \in 1 .. n : t[i] = s[i]
      /\ n >= 1 /\ s[n].kind = "windows"
  BY <1>1, AppendIs DEF BindingsTyped
<1>3. \A d \in Nat : \A kind : d <= n => Tally(t, d, kind) = Tally(s, d, kind)
  <2>1. Agree(s, t, n)
    BY <1>2 DEF Agree
  <2> QED
    BY <2>1, TallyPrefix
<1>4. ASSUME NEW d \in Nat, d <= n, NEW v, Sees(s, "let", b.value, d, v)
      PROVE  Sees(t, "let", c.value, d, v)
  BY <1>1, <1>2, <1>4, SeesPush, ZenonT(30)
<1>5. ASSUME NEW d \in Nat, d <= n - 1, NEW v, Sees(s, "windows", b.shown, d, v)
      PROVE  Sees(t, "windows", c.shown, d, v)
  <2>1. n \in d + 1 .. n
    BY <1>5
  <2>2. PICK i \in d + 1 .. n : s[i].kind = "windows" /\ s[i].old = v
                               /\ \A l \in d + 1 .. i - 1 : s[l].kind # "windows"
    BY <1>1, <1>2, <1>5, <2>1 DEF Sees
  <2>3. i \in d + 1 .. n + 1 /\ t[i].kind = "windows" /\ t[i].old = v
    BY <1>2, <2>2
  <2>4. \A l \in d + 1 .. i - 1 : t[l].kind # "windows"
    BY <1>2, <2>2
  <2> QED
    BY <1>2, <2>3, <2>4 DEF Sees
<1>6. ASSUME NEW d \in Nat, NEW r, d <= n - 1, Restores(b, d, r) PROVE Restores(c, d, r)
  <2>1. r.reads \in Nat /\ b.reads \in Nat /\ r.reads <= b.reads
    BY <1>6, TallyNat DEF Restores, BindingsTyped
  <2>2. r.prompt = c.saved[r.reads] /\ r.reads # c.reads /\ r.reads <= c.reads
    BY <1>6, <2>1 DEF Restores
  <2>3. d <= n
    BY <1>6
  <2>4. /\ r.edits = Tally(t, d, "edit") /\ r.reads = Tally(t, d, "minibuf")
        /\ Sees(t, "let", c.value, d, r.value) /\ Sees(t, "windows", c.shown, d, r.shown)
    BY <1>1, <1>3, <1>4, <1>5, <1>6, <2>3 DEF Restores
  <2> QED
    BY <1>1, <2>2, <2>4 DEF Restores
<1>7. \A kind : Tally(t, n + 1, kind) = IF e.kind = kind THEN Tally(s, n, kind) + 1
                                     ELSE Tally(s, n, kind)
  BY <1>2, <1>3, TallyNext
<1>8. c.edits = Tally(t, n + 1, "edit") /\ c.reads = Tally(t, n + 1, "minibuf")
  BY <1>1, <1>7 DEF Counted
<1>9. ASSUME NEW k \in 1 .. n + 1, t[k].kind = "minibuf"
      PROVE  Sees(t, "windows", c.shown, k, Tally(t, k - 1, "minibuf"))
  <2>1. CASE k = n + 1
    <3>1. Tally(t, k - 1, "minibuf") = b.reads
      BY <1>1, <1>3, <2>1 DEF Counted
    <3> QED
      BY <1>2, <2>1, <3>1 DEF Sees
  <2>2. CASE k # n + 1
    <3>1. k \in 1 .. n /\ s[k].kind = "minibuf" /\ k # n /\ k - 1 \in Nat /\ k - 1 <= n
      BY <1>2, <1>9, <2>2
    <3>2. k \in Nat /\ k <= n - 1
      BY <3>1
    <3>3. Tally(t, k - 1, "minibuf") = Tally(s, k - 1, "minibuf")
      BY <1>3, <3>1
    <3> QED
      BY <1>1, <1>5, <3>1, <3>2, <3>3 DEF Counted
  <2> QED
    BY <2>1, <2>2
<1>10. \E r : Restores(c, n, r) /\ r.prompt = b.prompt
  <2>1. PICK r : r = [edits |-> c.edits, reads |-> b.reads, value |-> c.value,
                      shown |-> c.shown, prompt |-> b.prompt]
    OBVIOUS
  <2>2. /\ r.edits = Tally(t, n, "edit") /\ r.reads = Tally(t, n, "minibuf")
    <3>1. b.edits = Tally(s, n, "edit") /\ b.reads = Tally(s, n, "minibuf")
      BY <1>1 DEF Counted
    <3> QED
      BY <1>3, <2>1, <3>1
  <2>3. \A kind, now : kind # "minibuf" => Sees(t, kind, now, n, now)
    <3>1. \A i \in n + 1 .. n + 1 : i = n + 1
      OBVIOUS
    <3> QED
      BY <1>2, <3>1 DEF Sees
  <2>4. r.reads \in Nat /\ r.reads <= c.reads /\ r.reads # c.reads
    BY <2>1 DEF BindingsTyped
  <2> QED
    BY <1>1, <2>1, <2>2, <2>3, <2>4 DEF Restores
<1> QED
  BY <1>1, <1>2, <1>6, <1>8, <1>9, <1>10 DEF Counted

(* Undoing an entry restores what the entries below it would have.         *)
LEMMA PopKept ==
  ASSUME NEW b, NEW c, BindingsTyped(b), Counted(b), Len(b.pdl) >= 1, c.pdl = Front(b.pdl),
         NEW e, e = b.pdl[Len(b.pdl)],
         IF e.kind = "let" THEN c.value = e.old ELSE c.value = b.value,
         IF e.kind = "windows" THEN c.shown = e.old ELSE c.shown = b.shown,
         c.edits = IF e.kind = "edit" THEN b.edits - 1 ELSE b.edits,
         c.reads = IF e.kind = "minibuf" THEN b.reads - 1 ELSE b.reads,
         c.prompt = IF e.kind = "minibuf" THEN b.saved[b.reads - 1] ELSE b.prompt,
         c.saved = b.saved
  PROVE  /\ Counted(c) /\ BindingsTyped(c)
         /\ e.kind = "minibuf" => b.reads >= 1 /\ b.shown = b.reads - 1
         /\ \A d \in Nat : \A r : d <= Len(b.pdl) - 1 /\ Restores(b, d, r) => Restores(c, d, r)
<1>0. PICK n \in Nat : n + 1 = Len(b.pdl)
  <2>1. Len(b.pdl) \in Nat
    BY DEF BindingsTyped
  <2>2. Len(b.pdl) - 1 \in Nat /\ Len(b.pdl) - 1 + 1 = Len(b.pdl)
    BY <2>1
  <2> QED
    BY <2>2
<1>1. PICK s, t : s = b.pdl /\ t = c.pdl /\ n + 1 = Len(s)
  BY <1>0
<1>2. /\ Len(t) = n /\ s[n + 1] = e /\ \A i \in 1 .. n : t[i] = s[i]
      /\ t \in Seq(Entries) /\ e \in Entries
  <2>1. n + 1 - 1 = n /\ s \in Seq(Entries) /\ n + 1 \in 1 .. Len(s)
    BY <1>1 DEF BindingsTyped
  <2> QED
    BY <1>1, <2>1, FrontIs
<1>3. \A d \in Nat : \A kind : d <= n => Tally(t, d, kind) = Tally(s, d, kind)
  <2>1. Agree(s, t, n)
    BY <1>2 DEF Agree
  <2> QED
    BY <2>1, TallyPrefix
<1>4. ASSUME NEW d \in Nat, d <= n, NEW v
      PROVE  /\ Sees(s, "let", b.value, d, v) => Sees(t, "let", c.value, d, v)
             /\ Sees(s, "windows", b.shown, d, v) => Sees(t, "windows", c.shown, d, v)
  <2>1. IF s[n + 1].kind = "let" THEN c.value = s[n + 1].old ELSE c.value = b.value
    BY <1>2
  <2>2. IF s[n + 1].kind = "windows" THEN c.shown = s[n + 1].old ELSE c.shown = b.shown
    BY <1>2
  <2> QED
    BY <1>1, <1>2, <1>4, <2>1, <2>2, SeesPop
<1>5. \A kind : Tally(s, n + 1, kind) = IF e.kind = kind THEN Tally(s, n, kind) + 1
                                     ELSE Tally(s, n, kind)
  BY <1>2, TallyNext
<1>6. b.edits = Tally(s, n + 1, "edit") /\ b.reads = Tally(s, n + 1, "minibuf")
  BY <1>1 DEF Counted
<1>7. PICK te \in Nat, tr \in Nat : te = Tally(s, n, "edit") /\ tr = Tally(s, n, "minibuf")
  BY TallyNat
<1>8. /\ c.edits = te /\ c.reads = tr
      /\ b.edits = (IF e.kind = "edit" THEN te + 1 ELSE te)
      /\ b.reads = (IF e.kind = "minibuf" THEN tr + 1 ELSE tr)
  BY <1>5, <1>6, <1>7
<1>9. c.reads \in 0 .. MaxMinibuf /\ b.reads \in Nat
  BY <1>7, <1>8, UnwindingAssumption DEF BindingsTyped
<1>10. BindingsTyped(c)
  <2>1. c.prompt \in Nat
    <3>1. CASE e.kind = "minibuf"
      <4>1. b.reads - 1 \in 0 .. MaxMinibuf - 1
        BY <1>7, <1>8, <3>1, UnwindingAssumption DEF BindingsTyped
      <4> QED
        BY <3>1, <4>1 DEF BindingsTyped
    <3>2. CASE e.kind # "minibuf"
      BY <3>2 DEF BindingsTyped
    <3> QED
      BY <3>1, <3>2
  <2> QED
    BY <1>1, <1>2, <1>7, <1>8, <1>9, <2>1 DEF BindingsTyped, Entries
<1>11. ASSUME NEW d \in Nat, NEW r, d <= n, Restores(b, d, r) PROVE Restores(c, d, r)
  <2>1. r.reads \in Nat /\ r.reads <= tr
    BY <1>1, <1>7, <1>11, TallyNat, TallyGrows DEF Restores
  <2>2. r.prompt = IF r.reads = c.reads THEN c.prompt ELSE c.saved[r.reads]
    <3>1. CASE e.kind = "minibuf"
      <4>1. r.reads # b.reads /\ b.reads - 1 = tr
        BY <1>7, <1>8, <2>1, <3>1
      <4> QED
        BY <1>8, <1>11, <3>1, <4>1 DEF Restores
    <3>2. CASE e.kind # "minibuf"
      BY <1>11, <3>2 DEF Restores
    <3> QED
      BY <3>1, <3>2
  <2> QED
    BY <1>1, <1>3, <1>4, <1>8, <1>11, <2>1, <2>2 DEF Restores
<1>12. ASSUME NEW k \in 1 .. n, t[k].kind = "minibuf"
       PROVE  Sees(t, "windows", c.shown, k, Tally(t, k - 1, "minibuf"))
  <2>1. s[k].kind = "minibuf" /\ k \in 1 .. n + 1
    BY <1>2, <1>12
  <2>2. Tally(t, k - 1, "minibuf") = Tally(s, k - 1, "minibuf")
    BY <1>3
  <2> QED
    BY <1>1, <1>4, <2>1, <2>2 DEF Counted
<1>13. Counted(c)
  BY <1>1, <1>2, <1>3, <1>7, <1>8, <1>12 DEF Counted
<1>14. ASSUME e.kind = "minibuf" PROVE b.reads >= 1 /\ b.shown = b.reads - 1
  <2>1. n + 1 \in 1 .. n + 1 /\ n + 1 - 1 = n
    OBVIOUS
  <2>2. Sees(s, "windows", b.shown, n + 1, tr)
    BY <1>1, <1>2, <1>7, <1>14, <2>1 DEF Counted
  <2>3. b.shown = tr
    BY <1>1, <2>2, SeesNow
  <2> QED
    BY <1>7, <1>8, <1>14, <2>3
<1>15. n = Len(b.pdl) - 1
  BY <1>0
<1>16. \A d \in Nat : \A r : d <= Len(b.pdl) - 1 /\ Restores(b, d, r) => Restores(c, d, r)
  BY <1>11, <1>15
<1> QED
  BY <1>10, <1>13, <1>14, <1>16

-----------------------------------------------------------------------------
(* The whole state.                                                        *)
FrameT ==
  [kind : Kinds, tag : Tags, pdl : Nat, next : Seq(Nat), handlers : Seq(Nat), x : Nat,
   on : BOOLEAN]

(* What the code makes of a frame from the start, and what is next to it.  *)
Marked(st, i) ==
  /\ st[i].kind = "form" => st[i].pdl >= 1
  /\ st[i].kind = "entry" => ~st[i].on /\ (i < Len(st) => st[i + 1].kind = "throw")
  /\ st[i].kind = "loop" => i >= 2 /\ st[i - 1].kind = "catch"
  /\ st[i].tag = "top" => i = 1
  /\ st[i].kind = "catch" /\ st[i].tag = "exit" => i >= 4 /\ st[i - 1].kind \in {"edit", "read"}
  /\ i = 1 => st[i].kind = "catch" /\ st[i].tag = "top"
  /\ i = 2 => st[i].kind = "loop"
Stack(st) == st \in Seq(FrameT) /\ Len(st) >= 1 /\ \A i \in 1 .. Len(st) : Marked(st, i)

(* A minibuffer at a place: its entries, its level, and its text.          *)
Reading(p, n, b, st, tx, i) ==
  st[i].kind \in {"entry", "read"} /\ Firm(p, n, i + 1) =>
    /\ b.pdl[p[i].start + 1].kind = "windows" /\ Tally(b.pdl, p[i].start, "minibuf") = st[i].x
    /\ st[i].kind = "read" => b.pdl[p[i].start + 2].kind = "minibuf" /\ tx[st[i].x] = st[i].on
Entering(st, b) ==
  st[Len(st)].kind = "entry" => b.reads < MaxMinibuf /\ b.saved[b.reads] = b.prompt

Texts == [0 .. MaxMinibuf - 1 -> BOOLEAN]
Typed(st, ca, ha, b, tx) ==
  /\ Stack(st) /\ ca \in Seq(Nat) /\ ha \in Seq(Nat) /\ BindingsTyped(b) /\ tx \in Texts
  /\ Counted(b) /\ Entering(st, b)
Sensible(p, n, b, st, tx) ==
  /\ Control(p, n) /\ \A j \in 1 .. n + 1 : Back(p, n, b, j)
  /\ \A i \in 1 .. n : Reading(p, n, b, st, tx, i)
Good(st, ca, ha, b, tx) ==
  /\ Typed(st, ca, ha, b, tx)
  /\ Sensible(PlacesOf(st, ca, ha, Len(b.pdl)), Len(st), b, st, tx)

Laid(p, n, st, ca, ha, depth) ==
  /\ n = Len(st) /\ n \in Nat /\ n >= 1 /\ p \in [1 .. n + 1 -> Position]
  /\ \A i \in 1 .. n : p[i] = Place(st[i]) /\ st[i] \in FrameT
  /\ p[n + 1].next = ca /\ p[n + 1].handlers = ha /\ p[n + 1].start = depth
  /\ p[n + 1].kind = "now"

LEMMA PlacesAre ==
  ASSUME NEW st, Stack(st), NEW ca \in Seq(Nat), NEW ha \in Seq(Nat), NEW depth \in Nat
  PROVE  Laid(PlacesOf(st, ca, ha, depth), Len(st), st, ca, ha, depth)
<1>0. PICK n, p : n = Len(st) /\ p = PlacesOf(st, ca, ha, depth)
  OBVIOUS
<1>1. n \in Nat /\ n >= 1
  BY <1>0 DEF Stack
<1>2. /\ \A i \in 1 .. n : p[i] = Place(st[i])
      /\ p[n + 1] = Registers(ca, ha, depth) /\ DOMAIN p = 1 .. n + 1
      /\ p = [i \in 1 .. n + 1 |-> p[i]]
  BY <1>0, <1>1 DEF PlacesOf
<1>3. \A i \in 1 .. n : st[i] \in FrameT
  BY <1>0 DEF Stack
<1>4. ASSUME NEW i \in 1 .. n PROVE Place(st[i]) \in Position
  <2>1. PICK f \in FrameT : f = st[i]
    BY <1>3
  <2>2. Start(f) \in Nat
    <3>1. f.kind = "form" => f.pdl >= 1
      BY <1>0, <2>1 DEF Stack, Marked
    <3>2. f.pdl \in Nat /\ f.x \in Nat
      BY DEF FrameT
    <3> QED
      BY <3>1, <3>2 DEF Start
  <2> QED
    BY <2>1, <2>2 DEF Place, Position, FrameT
<1>5. Registers(ca, ha, depth) \in Position
  BY DEF Registers, Position
<1>6. \A i \in 1 .. n + 1 : p[i] \in Position
  <2>1. \A i \in 1 .. n + 1 : i \in 1 .. n \/ i = n + 1
    BY <1>1
  <2> QED
    BY <1>2, <1>4, <1>5, <2>1
<1>7. p \in [1 .. n + 1 -> Position]
  BY <1>2, <1>6
<1>8. \A i \in 1 .. n : p[i] = Place(st[i]) /\ st[i] \in FrameT
  BY <1>2, <1>3
<1>9. PICK r : r = p[n + 1]
  OBVIOUS
<1>10. /\ r = Registers(ca, ha, depth) /\ r.next = ca /\ r.handlers = ha /\ r.start = depth
       /\ r.kind = "now"
  BY <1>2, <1>9 DEF Registers
<1> QED
  BY <1>0, <1>1, <1>7, <1>8, <1>9, <1>10 DEF Laid

(* The fields of a place.                                                  *)
LEMMA PlaceIs ==
  ASSUME NEW f
  PROVE  /\ Place(f).kind = f.kind /\ Place(f).x = f.x /\ Place(f).next = f.next
         /\ Place(f).handlers = f.handlers /\ Place(f).start = Start(f)
         /\ Place(f).on = (f.kind = "throw" /\ f.on)
BY DEF Place

(* What a step keeps that leaves the stack below m alone, and of specpdl   *)
(* and the levels what the places below m began with.                      *)
Low(p, m, b, c) == {d \in Nat : d <= p[m].start /\ d <= Len(b.pdl) /\ d <= Len(c.pdl)}
Undoes(b, c, d) ==
  (\A r : Restores(b, d, r) => Restores(c, d, r)) /\ (d >= 1 => c.pdl[d] = b.pdl[d])

Kept(p, m, b, c, tx, tx2) ==
  \A d \in Low(p, m, b, c) :
    /\ Undoes(b, c, d) /\ Tally(c.pdl, d, "minibuf") = Tally(b.pdl, d, "minibuf")
    /\ Tally(b.pdl, d, "minibuf") <= MaxMinibuf
    /\ \A l \in 0 .. MaxMinibuf - 1 : tx2[l] # tx[l] => Tally(b.pdl, d, "minibuf") <= l

LEMMA ReadingKept ==
  ASSUME NEW n \in Nat, NEW p \in [1 .. n + 1 -> Position], NEW k \in Nat,
         NEW q \in [1 .. k + 1 -> Position], NEW m \in 1 .. n + 1, m <= k + 1, Same(p, q, m),
         \A l \in m + 1 .. n + 1 : \E i \in m .. k + 1 : q[i].start <= p[l].start,
         NEW b, NEW c, p[n + 1].start = Len(b.pdl), q[k + 1].start = Len(c.pdl),
         NEW st, NEW st2, NEW tx, NEW tx2, Kept(p, m, b, c, tx, tx2),
         NEW i \in 1 .. m - 1, st2[i] = st[i], p[i] = Place(st[i]), st[i].x \in Nat,
         st[i].kind \notin {"throw", "unbind"}, Chain(p, i), Reading(p, n, b, st, tx, i)
  PROVE  Reading(q, k, c, st2, tx2, i)
<1> SUFFICES ASSUME st[i].kind \in {"entry", "read"}, Firm(q, k, i + 1)
             PROVE  /\ c.pdl[q[i].start + 1].kind = "windows"
                    /\ Tally(c.pdl, q[i].start, "minibuf") = st[i].x
                    /\ st[i].kind = "read" => c.pdl[q[i].start + 2].kind = "minibuf"
                                              /\ tx2[st[i].x] = st[i].on
  BY DEF Reading
<1>1. i + 1 \in 1 .. m /\ i \in 1 .. n + 1 /\ i + 1 \in 1 .. n + 1 /\ m \in 1 .. n + 1
  OBVIOUS
<1>2. Firm(p, n, i + 1)
  BY <1>1, FirmKept
<1>3. PICK s \in Nat : s = p[i].start
  BY <1>1, PlaceTypes
<1>4. q[i].start = s /\ p[i].kind = st[i].kind
  BY <1>3, PlaceIs DEF Same
<1>5. p[i + 1].start = s + Own(st[i].kind) /\ q[i + 1].start = p[i + 1].start
  <2>1. p[i + 1].start = s + Own(st[i].kind)
    BY <1>3, <1>4 DEF Chain, Keeps
  <2>2. i + 1 = m \/ i + 1 \in 1 .. m - 1
    BY <1>1
  <2> QED
    BY <2>1, <2>2 DEF Same, Handed
<1>6. PICK w \in 1 .. 2 : w = Own(st[i].kind) /\ (st[i].kind = "read" => w = 2)
  BY DEF Own
<1>7. s + w <= p[m].start /\ s + w <= Len(b.pdl) /\ s + w <= Len(c.pdl)
  <2>1. m \in i + 1 .. n + 1 /\ n + 1 \in i + 1 .. n + 1 /\ k + 1 \in i + 1 .. k + 1
    BY <1>1, SMTT(30)
  <2> QED
    BY <1>2, <1>5, <1>6, <2>1 DEF Firm
<1>8. \A d \in Nat : d <= s + w => d \in Low(p, m, b, c)
  <2>1. p[m].start \in Nat /\ Len(b.pdl) \in Nat /\ Len(c.pdl) \in Nat
    <3>1. n + 1 \in 1 .. n + 1 /\ k + 1 \in 1 .. k + 1
      OBVIOUS
    <3>2. p[m].start \in Nat
      BY <1>1, PlaceTypes
    <3>3. p[n + 1].start \in Nat
      BY <3>1, PlaceTypes
    <3>4. q[k + 1].start \in Nat
      BY <3>1, PlaceTypes
    <3> QED
      BY <3>2, <3>3, <3>4
  <2>2. PICK pm \in Nat, lb \in Nat, lc \in Nat :
          pm = p[m].start /\ lb = Len(b.pdl) /\ lc = Len(c.pdl)
    BY <2>1
  <2>3. ASSUME NEW d \in Nat, d <= s + w PROVE d <= pm /\ d <= lb /\ d <= lc
    <3>1. PICK t \in Nat : t = s + w
      BY <1>3, <1>6, SMTT(30)
    <3>2. t <= pm /\ t <= lb /\ t <= lc
      BY <1>7, <2>2, <3>1
    <3>3. d <= t
      BY <2>3, <3>1
    <3> QED
      BY <3>2, <3>3
  <2> QED
    BY <2>2, <2>3 DEF Low
<1>9. s \in Low(p, m, b, c) /\ s + 1 \in Low(p, m, b, c) /\ s + w \in Low(p, m, b, c)
  <2>1. PICK t \in Nat, u \in Nat : t = s + w /\ u = s + 1 /\ s <= t /\ u <= t /\ t <= t
    BY <1>3, <1>6, SMTT(30)
  <2>2. \A d \in Nat : d <= t => d \in Low(p, m, b, c)
    BY <1>8, <2>1
  <2> QED
    BY <2>1, <2>2
<1>10. c.pdl[s + 1] = b.pdl[s + 1] /\ c.pdl[s + w] = b.pdl[s + w]
  <2>1. s + 1 >= 1 /\ s + w >= 1
    BY <1>3, <1>6
  <2>2. Undoes(b, c, s + 1) /\ Undoes(b, c, s + w)
    BY <1>9 DEF Kept
  <2> QED
    BY <2>1, <2>2 DEF Undoes
<1>11. /\ b.pdl[s + 1].kind = "windows" /\ Tally(b.pdl, s, "minibuf") = st[i].x
       /\ st[i].kind = "read" => b.pdl[s + 2].kind = "minibuf" /\ tx[st[i].x] = st[i].on
  BY <1>2, <1>3 DEF Reading
<1>12. Tally(c.pdl, s, "minibuf") = st[i].x
  BY <1>9, <1>11 DEF Kept
<1>13. ASSUME st[i].kind = "read" PROVE tx2[st[i].x] = st[i].on
  <2>1. w = 2 /\ b.pdl[s + 2].kind = "minibuf" /\ tx[st[i].x] = st[i].on
    BY <1>6, <1>11, <1>13
  <2>2. PICK y \in Nat : y = st[i].x
    OBVIOUS
  <2>3. Tally(b.pdl, s + 1, "minibuf") = y /\ Tally(b.pdl, s + 1 + 1, "minibuf") = y + 1
    <3>1. s + 1 \in Nat /\ s + 1 + 1 = s + 2
      OBVIOUS
    <3>2. PICK u : u = b.pdl
      OBVIOUS
    <3>3. u[s + 1].kind = "windows" /\ u[s + 1 + 1].kind = "minibuf" /\ Tally(u, s, "minibuf") = y
      BY <1>11, <2>1, <2>2, <3>1, <3>2
    <3>4. "windows" # "minibuf"
      OBVIOUS
    <3>5. Tally(u, s + 1, "minibuf") = y
      BY <1>3, <3>3, <3>4, TallyNext, SMTT(30)
    <3>6. Tally(u, s + 1 + 1, "minibuf") = Tally(u, s + 1, "minibuf") + 1
      BY <3>1, <3>3, TallyNext
    <3> QED
      BY <3>2, <3>5, <3>6
  <2>4. s + 1 + 1 = s + w
    BY <2>1
  <2>5. ~(Tally(b.pdl, s + w, "minibuf") <= y)
    BY <2>2, <2>3, <2>4
  <2>6. y \in 0 .. MaxMinibuf - 1
    <3>1. y + 1 <= MaxMinibuf
      BY <1>9, <2>3, <2>4 DEF Kept
    <3> QED
      BY <2>2, <3>1, UnwindingAssumption
  <2> QED
    BY <1>9, <2>1, <2>2, <2>5, <2>6 DEF Kept
<1> QED
  BY <1>4, <1>6, <1>10, <1>11, <1>12, <1>13

(* A step that takes everything from m on away and puts up to three frames *)
(* there.                                                                  *)
Step(st, b, tx, p, n, st2, c, tx2, q, k, m) ==
  /\ m \in 1 .. n + 1 /\ m <= k + 1 /\ k <= m + 2
  /\ \A i \in 1 .. m - 1 : st2[i] = st[i]
  /\ Handed(p, q, m) /\ \A i \in m .. k : Chain(q, i)
  /\ \A l \in m + 1 .. n + 1 : \E i \in m .. k + 1 : q[i].start <= p[l].start
  /\ \A d \in Low(p, m, b, c) : Undoes(b, c, d)
  /\ \A l \in 0 .. MaxMinibuf - 1 :
       tx2[l] # tx[l] => \A d \in Low(p, m, b, c) : Tally(c.pdl, d, "minibuf") <= l
  /\ \A j \in m + 1 .. k + 1 : Back(q, k, c, j)
  /\ \A i \in m .. k : Reading(q, k, c, st2, tx2, i)

LEMMA StepKept ==
  ASSUME NEW st, NEW ca, NEW ha, NEW b, NEW tx, Good(st, ca, ha, b, tx),
         NEW st2, NEW ca2, NEW ha2, NEW c, NEW tx2, Typed(st2, ca2, ha2, c, tx2),
         NEW m,
         Step(st, b, tx, PlacesOf(st, ca, ha, Len(b.pdl)), Len(st),
              st2, c, tx2, PlacesOf(st2, ca2, ha2, Len(c.pdl)), Len(st2), m)
  PROVE  Good(st2, ca2, ha2, c, tx2)
<1>1. PICK n, k, p, q : /\ n = Len(st) /\ p = PlacesOf(st, ca, ha, Len(b.pdl))
                        /\ k = Len(st2) /\ q = PlacesOf(st2, ca2, ha2, Len(c.pdl))
  OBVIOUS
<1>2. /\ Typed(st, ca, ha, b, tx) /\ Sensible(p, n, b, st, tx)
      /\ Step(st, b, tx, p, n, st2, c, tx2, q, k, m)
  BY <1>1 DEF Good
<1>3. /\ Stack(st) /\ ca \in Seq(Nat) /\ ha \in Seq(Nat) /\ Len(b.pdl) \in Nat
      /\ Stack(st2) /\ ca2 \in Seq(Nat) /\ ha2 \in Seq(Nat) /\ Len(c.pdl) \in Nat
  <2>1. b.pdl \in Seq(Entries) /\ c.pdl \in Seq(Entries)
    BY <1>2 DEF Typed, BindingsTyped
  <2> QED
    BY <1>2, <2>1 DEF Typed
<1>4. /\ n \in Nat /\ n >= 1 /\ p \in [1 .. n + 1 -> Position]
      /\ \A i \in 1 .. n : p[i] = Place(st[i]) /\ st[i] \in FrameT
      /\ p[n + 1].start = Len(b.pdl)
  <2>1. Laid(p, n, st, ca, ha, Len(b.pdl))
    BY <1>1, <1>3, PlacesAre
  <2> QED
    BY <2>1 DEF Laid
<1>5. /\ k \in Nat /\ k >= 1 /\ q \in [1 .. k + 1 -> Position]
      /\ \A i \in 1 .. k : q[i] = Place(st2[i])
      /\ q[k + 1].start = Len(c.pdl)
  <2>1. Laid(q, k, st2, ca2, ha2, Len(c.pdl))
    BY <1>1, <1>3, PlacesAre
  <2> QED
    BY <2>1 DEF Laid
<1>6. /\ m \in 1 .. n + 1 /\ m <= k + 1 /\ k <= m + 2 /\ Handed(p, q, m)
      /\ \A i \in 1 .. m - 1 : st2[i] = st[i]
      /\ \A i \in m .. k : Chain(q, i)
      /\ \A l \in m + 1 .. n + 1 : \E i \in m .. k + 1 : q[i].start <= p[l].start
  BY <1>2 DEF Step
<1>7. Same(p, q, m)
  <2>1. \A i \in 1 .. m - 1 : i \in 1 .. n /\ i \in 1 .. k
    BY <1>4, <1>5, <1>6
  <2>2. \A i \in 1 .. m - 1 : q[i] = p[i]
    BY <1>4, <1>5, <1>6, <2>1
  <2> QED
    BY <1>6, <2>2 DEF Same
<1>8. Control(p, n) /\ \A j \in 1 .. n + 1 : Back(p, n, b, j)
  BY <1>2 DEF Sensible
<1>9. q[1].kind \in Catching
  <2>1. 1 \in 1 .. k
    BY <1>5
  <2>2. st2[1].kind = "catch"
    BY <1>1, <1>3, <2>1 DEF Stack, Marked
  <2> QED
    BY <1>5, <2>1, <2>2, PlaceIs DEF Catching
<1>10. Control(q, k)
  BY <1>4, <1>5, <1>6, <1>7, <1>8, <1>9, ControlKept
<1>11. \A d \in Low(p, m, b, c) : Undoes(b, c, d)
  BY <1>2 DEF Step
<1>12. ASSUME NEW j \in 1 .. m PROVE Back(q, k, c, j)
  <2>1. j \in 1 .. n + 1
    BY <1>4, <1>6
  <2>2. Back(p, n, b, j)
    BY <1>8, <2>1
  <2>3. \A d \in Nat : \A r :
           d <= p[m].start /\ d <= p[n + 1].start /\ d <= q[k + 1].start /\ Restores(b, d, r)
             => Restores(c, d, r)
    BY <1>4, <1>5, <1>11 DEF Low, Undoes
  <2> QED
    BY <1>4, <1>5, <1>6, <1>7, <2>2, <2>3, BackKept
<1>13. \A j \in 1 .. k + 1 : Back(q, k, c, j)
  <2>1. \A j \in 1 .. k + 1 : j \in 1 .. m \/ j \in m + 1 .. k + 1
    BY <1>5, <1>6
  <2>2. \A j \in m + 1 .. k + 1 : Back(q, k, c, j)
    BY <1>2 DEF Step
  <2> QED
    BY <1>12, <2>1, <2>2
<1>14. ASSUME NEW d \in Low(p, m, b, c)
       PROVE  Tally(c.pdl, d, "minibuf") = Tally(b.pdl, d, "minibuf")
  <2>1. d \in Nat /\ d <= p[m].start /\ d <= Len(b.pdl) /\ d <= Len(c.pdl)
    BY <1>14 DEF Low
  <2>2. PICK pm \in Nat, lb \in Nat, lc \in Nat :
          pm = p[m].start /\ lb = Len(b.pdl) /\ lc = Len(c.pdl)
    <3>1. p[m].start \in Nat
      BY <1>4, <1>6, PlaceTypes
    <3> QED
      BY <1>3, <3>1
  <2>3. ASSUME NEW e \in 1 .. d PROVE (c.pdl)[e] = (b.pdl)[e]
    <3>1. e \in Nat /\ e >= 1 /\ e <= pm /\ e <= lb /\ e <= lc
      BY <2>1, <2>2
    <3>2. e \in Low(p, m, b, c)
      BY <2>2, <3>1 DEF Low
    <3> QED
      BY <1>11, <3>1, <3>2 DEF Undoes
  <2>4. Agree(b.pdl, c.pdl, d)
    BY <2>3 DEF Agree
  <2> QED
    BY <2>1, <2>4, TallyPrefix
<1>15. \A l \in 0 .. MaxMinibuf - 1 :
         tx2[l] # tx[l] => \A d \in Low(p, m, b, c) : Tally(b.pdl, d, "minibuf") <= l
  BY <1>2, <1>14 DEF Step
<1>16. ASSUME NEW i \in 1 .. m - 1 PROVE Reading(q, k, c, st2, tx2, i)
  <2>1. i \in 1 .. n /\ st2[i] = st[i] /\ p[i] = Place(st[i]) /\ st[i].x \in Nat
    BY <1>4, <1>6 DEF FrameT
  <2>2. Reading(p, n, b, st, tx, i) /\ Chain(p, i)
    BY <1>2, <1>8, <2>1 DEF Sensible, Control
  <2>3. CASE st[i].kind \in {"throw", "unbind"}
    BY <2>1, <2>3 DEF Reading
  <2>4. CASE st[i].kind \notin {"throw", "unbind"}
    <3>1. ASSUME NEW d \in Low(p, m, b, c) PROVE Tally(b.pdl, d, "minibuf") <= MaxMinibuf
      <4>1. d \in Nat /\ d <= Len(b.pdl)
        BY <3>1 DEF Low
      <4>2. Tally(b.pdl, d, "minibuf") <= Tally(b.pdl, Len(b.pdl), "minibuf")
        BY <1>3, <4>1, TallyGrows
      <4>3. b.reads = Tally(b.pdl, Len(b.pdl), "minibuf") /\ b.reads \in 0 .. MaxMinibuf
        BY <1>2 DEF Typed, Counted, BindingsTyped
      <4>4. Tally(b.pdl, d, "minibuf") \in Nat
        BY <4>1, TallyNat
      <4> QED
        BY <4>2, <4>3, <4>4, UnwindingAssumption
    <3>2. Kept(p, m, b, c, tx, tx2)
      BY <1>11, <1>14, <1>15, <3>1 DEF Kept
    <3> QED
      BY <1>4, <1>5, <1>6, <1>7, <2>1, <2>2, <2>4, <3>2, ReadingKept
  <2> QED
    BY <2>3, <2>4
<1>17. \A i \in 1 .. k : Reading(q, k, c, st2, tx2, i)
  <2>1. \A i \in 1 .. k : i \in 1 .. m - 1 \/ i \in m .. k
    BY <1>5, <1>6
  <2>2. \A i \in m .. k : Reading(q, k, c, st2, tx2, i)
    BY <1>2 DEF Step
  <2> QED
    BY <1>16, <2>1, <2>2
<1> QED
  BY <1>1, <1>10, <1>13, <1>17 DEF Good, Sensible

-----------------------------------------------------------------------------
(* What a frame does to what fits the frames below it.                     *)
Follows(f, i, r, t) ==
  /\ t.edits = IF f.kind = "edit" THEN r.edits + 1 ELSE r.edits
  /\ t.reads = IF f.kind = "read" THEN r.reads + 1 ELSE r.reads
  /\ t.value = IF f.kind = "let" THEN f.x ELSE r.value
  /\ t.prompt = IF f.kind = "read" THEN i ELSE r.prompt
  /\ t.shown = IF f.kind = "read" THEN f.x ELSE r.shown
Alike(r, t) ==
  /\ t.edits = r.edits /\ t.reads = r.reads /\ t.value = r.value /\ t.prompt = r.prompt
  /\ t.shown = r.shown

LEMMA RightAlike ==
  ASSUME NEW p, NEW j, NEW r, NEW t, Right(p, j, r), Alike(r, t)
  PROVE  Right(p, j, t)
BY DEF Right, Alive, Fits, Alike

LEMMA RightNext ==
  ASSUME NEW p, NEW j \in Nat, j >= 1, NEW r, NEW t, Right(p, j, r), Follows(p[j], j, r, t)
  PROVE  Right(p, j + 1, t)
<1>1. j + 1 - 1 = j /\ \A i : i \in 1 .. j <=> i \in 1 .. j - 1 \/ i = j
  OBVIOUS
<1>2. Alive(p, j + 1, t)
  <2>1. CASE p[j].kind = "read"
    BY <1>1, <2>1 DEF Follows, Alive
  <2>2. CASE p[j].kind # "read"
    BY <1>1, <2>2 DEF Follows, Alive, Right
  <2> QED
    BY <2>1, <2>2
<1>3. ASSUME Clear(p, j + 1) PROVE Fits(p, j + 1, t)
  <2>1. Clear(p, j)
    BY <1>1, <1>3 DEF Clear
  <2>2. Fits(p, j, r)
    BY <2>1 DEF Right
  <2>3. \A kind : Tally(p, j, kind) = IF p[j].kind = kind THEN Tally(p, j - 1, kind) + 1
                                   ELSE Tally(p, j - 1, kind)
    <3>1. PICK i \in Nat : i + 1 = j
      <4>1. j - 1 \in Nat /\ j - 1 + 1 = j
        OBVIOUS
      <4> QED
        BY <4>1
    <3>2. j - 1 = i
      BY <3>1
    <3> QED
      BY <3>1, <3>2, TallyNext
  <2>4. t.edits = Tally(p, j, "edit") /\ t.reads = Tally(p, j, "read")
    BY <2>2, <2>3 DEF Fits, Follows
  <2>5. \A kind : p[j].kind = kind => InnermostIs(p, j + 1, kind, j)
    BY <1>1 DEF InnermostIs
  <2>6. ASSUME NEW kind, NEW i, i \in Nat, p[j].kind # kind, InnermostIs(p, j, kind, i)
        PROVE  InnermostIs(p, j + 1, kind, i)
    <3>1. \A l \in i + 1 .. j : l \in i + 1 .. j - 1 \/ l = j
      BY <2>6
    <3> QED
      BY <1>1, <2>6, <3>1 DEF InnermostIs
  <2>7. \E i \in 0 .. j : InnermostIs(p, j + 1, "let", i) /\ t.value = IF i = 0 THEN 0 ELSE p[i].x
    <3>1. CASE p[j].kind = "let"
      <4>1. j \in 0 .. j /\ j # 0
        OBVIOUS
      <4> QED
        BY <2>5, <3>1, <4>1 DEF Follows
    <3>2. CASE p[j].kind # "let"
      <4>1. PICK i \in 0 .. j - 1 : InnermostIs(p, j, "let", i)
                                   /\ r.value = IF i = 0 THEN 0 ELSE p[i].x
        BY <2>2 DEF Fits
      <4>2. i \in Nat /\ i \in 0 .. j
        BY <4>1
      <4> QED
        BY <2>6, <3>2, <4>1, <4>2 DEF Follows
    <3> QED
      BY <3>1, <3>2
  <2>8. InnermostIs(p, j + 1, "read", t.prompt) /\ (t.prompt # 0 => t.shown = p[t.prompt].x)
    <3>1. CASE p[j].kind = "read"
      BY <2>5, <3>1 DEF Follows
    <3>2. CASE p[j].kind # "read"
      <4>1. r.prompt \in Nat
        BY <2>2 DEF Fits, InnermostIs
      <4> QED
        BY <2>2, <2>6, <3>2, <4>1 DEF Follows, Fits
    <3> QED
      BY <3>1, <3>2
  <2> QED
    BY <1>1, <2>4, <2>7, <2>8 DEF Fits
<1> QED
  BY <1>2, <1>3 DEF Right

(* A prompt stays alive as long as the frames below do.                    *)
Stays(p, q, j) ==
  \A i \in 1 .. j - 1 : p[i].kind \in {"read", "unbind"} => q[i].kind \in {"read", "unbind"}

LEMMA HeldUp ==
  ASSUME NEW p, NEW q, NEW j \in Nat, NEW l \in Nat, j <= l, Stays(p, q, j),
         NEW b, NEW c, NEW depth \in Nat, Held(p, b, j, depth),
         \A d \in 0 .. depth : Undoes(b, c, d)
  PROVE  Held(q, c, l, depth)
<1>1. \A i : i \in 1 .. j - 1 => i \in 1 .. l - 1
  OBVIOUS
<1>2. ASSUME NEW r, Alive(p, j, r) PROVE Alive(q, l, r)
  BY <1>1, <1>2 DEF Alive, Stays
<1> QED
  BY <1>2 DEF Held, Undoes

LEMMA HeldNow ==
  ASSUME NEW q, NEW b, BindingsTyped(b), Counted(b), NEW l, NEW depth \in Nat,
         Held(q, b, l, depth), Len(b.pdl) <= depth + 1, Alive(q, l, Current(b))
  PROVE  Held(q, b, l, Len(b.pdl))
<1>1. Len(b.pdl) \in Nat
  BY DEF BindingsTyped
<1>2. \A d \in 0 .. Len(b.pdl) : d \in 0 .. depth \/ d = Len(b.pdl)
  BY <1>1
<1>3. Restores(b, Len(b.pdl), Current(b))
  BY RestoresNow
<1> QED
  BY <1>2, <1>3 DEF Held

-----------------------------------------------------------------------------
(* Stacks of frames.                                                       *)
LEMMA StackPush ==
  ASSUME NEW st, Stack(st), NEW f \in FrameT, NEW t, t = Append(st, f), NEW n, n = Len(st),
         Marked(t, n + 1), st[n].kind = "entry" => f.kind = "throw"
  PROVE  Stack(t)
<1>1. /\ n \in Nat /\ n >= 1 /\ t \in Seq(FrameT) /\ Len(t) = n + 1 /\ t[n + 1] = f
      /\ \A i \in 1 .. n : t[i] = st[i]
  BY AppendIs DEF Stack
<1>2. ASSUME NEW i \in 1 .. n PROVE Marked(t, i)
  <2>1. Marked(st, i) /\ t[i] = st[i]
    BY <1>1 DEF Stack
  <2>2. i >= 2 => t[i - 1] = st[i - 1]
    BY <1>1
  <2>3. t[i].kind = "entry" => ~t[i].on /\ t[i + 1].kind = "throw"
    <3>1. CASE i = n
      BY <1>1, <2>1, <3>1 DEF Marked
    <3>2. CASE i # n
      <4>1. i + 1 \in 1 .. n /\ i < n
        BY <1>1, <3>2
      <4> QED
        BY <1>1, <2>1, <4>1 DEF Marked
    <3> QED
      BY <3>1, <3>2
  <2> QED
    BY <2>1, <2>2, <2>3 DEF Marked
<1>3. \A i \in 1 .. n + 1 : i \in 1 .. n \/ i = n + 1
  BY <1>1
<1> QED
  BY <1>1, <1>2, <1>3 DEF Stack

LEMMA StackCut ==
  ASSUME NEW st, Stack(st), NEW m \in 1 .. Len(st), NEW t, t = SubSeq(st, 1, m)
  PROVE  Stack(t) /\ Len(t) = m /\ \A i \in 1 .. m : t[i] = st[i]
<1>1. PICK n \in Nat : n = Len(st) /\ m \in 1 .. n
  BY DEF Stack
<1>2. t = [i \in 1 .. m |-> st[i]]
  BY <1>1 DEF Stack
<1>3. \A i \in 1 .. m : st[i] \in FrameT
  BY <1>1 DEF Stack
<1>4. t \in Seq(FrameT) /\ Len(t) = m
  BY <1>1, <1>2, <1>3
<1>5. \A i \in 1 .. m : t[i] = st[i]
  BY <1>2
<1>6. ASSUME NEW i \in 1 .. m PROVE Marked(t, i)
  <2>1. Marked(st, i) /\ t[i] = st[i] /\ (i < m => t[i + 1] = st[i + 1])
        /\ (i >= 2 => t[i - 1] = st[i - 1])
    BY <1>1, <1>5 DEF Stack
  <2>2. i < m => i < n
    BY <1>1
  <2> QED
    BY <1>1, <1>4, <2>1, <2>2 DEF Marked
<1> QED
  BY <1>4, <1>5, <1>6 DEF Stack

-----------------------------------------------------------------------------
(* Steps.                                                                  *)
LEMMA ListsBelow ==
  ASSUME NEW p, NEW j, Lists(p, j), NEW h \in Elems(p[j].next)
  PROVE  h \in 1 .. j - 1 /\ p[h].kind \in Catching /\ Elems(p[h].next) \subseteq Elems(p[j].next)
BY DEF Lists

LEMMA RightAt ==
  ASSUME NEW p, NEW n \in Nat, NEW b, BindingsTyped(b), Counted(b), NEW j, Back(p, n, b, j),
         Firm(p, n, j), p[j].start = Len(b.pdl)
  PROVE  Right(p, j, Current(b)) /\ Held(p, b, j, Len(b.pdl))
<1>1. PICK r : Restores(b, Len(b.pdl), r) /\ Right(p, j, r)
  BY DEF Back
<1>2. Alike(r, Current(b))
  BY <1>1, RestoresNow DEF Alike, Current
<1> QED
  BY <1>1, <1>2, RightAlike DEF Back

LEMMA BackAt ==
  ASSUME NEW q, NEW k \in Nat, NEW c, BindingsTyped(c), Counted(c), NEW j,
         q[j].start = Len(c.pdl), Right(q, j, Current(c)), Held(q, c, j, Len(c.pdl))
  PROVE  Back(q, k, c, j)
BY RestoresNow DEF Back

(* What Good says of the places.                                           *)
LEMMA GoodIs ==
  ASSUME NEW st, NEW ca, NEW ha, NEW b, NEW tx, Good(st, ca, ha, b, tx), NEW n, NEW p,
         n = Len(st), p = PlacesOf(st, ca, ha, Len(b.pdl))
  PROVE  /\ Laid(p, n, st, ca, ha, Len(b.pdl)) /\ Len(b.pdl) \in Nat
         /\ Typed(st, ca, ha, b, tx) /\ Sensible(p, n, b, st, tx)
         /\ Right(p, n + 1, Current(b)) /\ Held(p, b, n + 1, Len(b.pdl))
<1>1. Typed(st, ca, ha, b, tx) /\ Sensible(p, n, b, st, tx)
  BY DEF Good
<1>2. Len(b.pdl) \in Nat
  <2>1. b.pdl \in Seq(Entries)
    BY <1>1 DEF Typed, BindingsTyped
  <2> QED
    BY <2>1
<1>3. Laid(p, n, st, ca, ha, Len(b.pdl))
  BY <1>1, <1>2, PlacesAre DEF Typed
<1>4. n \in Nat /\ p[n + 1].start = Len(b.pdl)
  BY <1>3 DEF Laid
<1>5. n + 1 \in 1 .. n + 1 /\ \A l \in n + 1 .. n + 1 : l = n + 1
  BY <1>4
<1>6. Firm(p, n, n + 1)
  BY <1>2, <1>4, <1>5 DEF Firm
<1>7. Back(p, n, b, n + 1)
  BY <1>1, <1>5 DEF Sensible
<1> QED
  BY <1>1, <1>2, <1>3, <1>4, <1>6, <1>7, RightAt DEF Typed

(* A frame is pushed.                                                      *)
Pushes(n, ca, ha, b, f, c) ==
  /\ f \in FrameT /\ Start(f) = Len(b.pdl) /\ f.next = ca /\ f.handlers = ha
  /\ \A d \in 0 .. Len(b.pdl) : Undoes(b, c, d)
  /\ Len(b.pdl) <= Len(c.pdl) /\ Len(c.pdl) <= Len(b.pdl) + 1
  /\ Follows(f, n + 1, Current(b), Current(c))

LEMMA PushKeeps ==
  ASSUME NEW st, NEW ca, NEW ha, NEW b, NEW tx, Good(st, ca, ha, b, tx), NEW f, NEW st2,
         st2 = Append(st, f), NEW ca2, NEW ha2, NEW c, Typed(st2, ca2, ha2, c, tx),
         NEW n, n = Len(st), Pushes(n, ca, ha, b, f, c), NEW q,
         q = PlacesOf(st2, ca2, ha2, Len(c.pdl)), Chain(q, n + 1),
         Reading(q, n + 1, c, st2, tx, n + 1)
  PROVE  Good(st2, ca2, ha2, c, tx)
<1>1. PICK p : p = PlacesOf(st, ca, ha, Len(b.pdl))
  OBVIOUS
<1>2. /\ Laid(p, n, st, ca, ha, Len(b.pdl)) /\ Len(b.pdl) \in Nat
      /\ Typed(st, ca, ha, b, tx) /\ Right(p, n + 1, Current(b))
      /\ Held(p, b, n + 1, Len(b.pdl))
  BY <1>1, GoodIs
<1>3. /\ n \in Nat /\ n >= 1 /\ p \in [1 .. n + 1 -> Position]
      /\ \A i \in 1 .. n : p[i] = Place(st[i]) /\ st[i] \in FrameT
      /\ p[n + 1].next = ca /\ p[n + 1].handlers = ha /\ p[n + 1].start = Len(b.pdl)
  BY <1>2 DEF Laid
<1>4. /\ Len(st2) = n + 1 /\ st2[n + 1] = f /\ \A i \in 1 .. n : st2[i] = st[i]
      /\ Len(c.pdl) \in Nat /\ ca2 \in Seq(Nat) /\ ha2 \in Seq(Nat) /\ BindingsTyped(c)
      /\ Counted(c) /\ Stack(st2)
  <2>1. st \in Seq(FrameT) /\ f \in FrameT /\ c.pdl \in Seq(Entries)
    BY <1>2 DEF Typed, Stack, Pushes, BindingsTyped
  <2>2. Len(c.pdl) \in Nat
    BY <2>1
  <2> QED
    BY <2>1, <2>2, AppendIs DEF Typed
<1>5. Laid(q, n + 1, st2, ca2, ha2, Len(c.pdl))
  BY <1>4, PlacesAre
<1>6. /\ q \in [1 .. n + 1 + 1 -> Position] /\ \A i \in 1 .. n + 1 : q[i] = Place(st2[i])
      /\ q[n + 1 + 1].start = Len(c.pdl)
  BY <1>5 DEF Laid
<1>7. \A i \in 1 .. n : q[i] = p[i]
  <2>1. \A i \in 1 .. n : i \in 1 .. n + 1
    BY <1>3
  <2> QED
    BY <1>3, <1>4, <1>6, <2>1
<1>8. /\ q[n + 1].start = Len(b.pdl) /\ q[n + 1].next = ca /\ q[n + 1].handlers = ha
      /\ q[n + 1].kind = f.kind /\ q[n + 1].x = f.x
  <2>1. n + 1 \in 1 .. n + 1
    BY <1>3
  <2>2. q[n + 1] = Place(f)
    BY <1>4, <1>6, <2>1
  <2> QED
    BY <2>2, PlaceIs DEF Pushes
<1>9. Handed(p, q, n + 1)
  BY <1>3, <1>8 DEF Handed
<1>10. Right(q, n + 1 + 1, Current(c))
  <2>1. n + 1 \in Nat /\ n + 1 >= 1 /\ n + 1 - 1 = n
    BY <1>3
  <2>2. Right(q, n + 1, Current(b))
    <3>1. PICK j \in Nat : j = n + 1 /\ j >= 1
      BY <2>1
    <3>2. \A i \in 1 .. j - 1 : q[i] = p[i]
      BY <1>7, <2>1, <3>1
    <3>3. Right(p, j, Current(b))
      BY <1>2, <3>1
    <3>4. Right(q, j, Current(b))
      BY <3>1, <3>2, <3>3, RightSame, ZenonT(30)
    <3> QED
      BY <3>1, <3>4
  <2>3. Follows(q[n + 1], n + 1, Current(b), Current(c))
    BY <1>8 DEF Follows, Pushes
  <2> QED
    BY <2>1, <2>2, <2>3, RightNext
<1>11. Held(q, c, n + 1 + 1, Len(c.pdl))
  <2>1. n + 1 - 1 = n /\ n + 1 <= n + 1 + 1 /\ n + 1 \in Nat /\ n + 1 + 1 \in Nat
    BY <1>3
  <2>2. Stays(p, q, n + 1)
    BY <1>7, <2>1 DEF Stays
  <2>3. Held(q, c, n + 1 + 1, Len(b.pdl))
    BY <1>2, <2>1, <2>2, HeldUp DEF Pushes
  <2>4. Alive(q, n + 1 + 1, Current(c))
    BY <1>10 DEF Right
  <2> QED
    BY <1>2, <1>4, <2>3, <2>4, HeldNow DEF Pushes
<1>12. Back(q, n + 1, c, n + 1 + 1)
  BY <1>3, <1>4, <1>6, <1>10, <1>11, BackAt
<1>13. Step(st, b, tx, p, n, st2, c, tx, q, n + 1, n + 1)
  <2>1. /\ n + 1 \in 1 .. n + 1 /\ n + 1 <= n + 1 + 1 /\ n + 1 <= n + 1 + 2
        /\ n + 1 - 1 = n /\ \A i : i \in n + 1 .. n + 1 => i = n + 1
        /\ \A l : l \notin n + 1 + 1 .. n + 1
        /\ \A j : j \in n + 1 + 1 .. n + 1 + 1 => j = n + 1 + 1
    BY <1>3
  <2>2. \A d \in Low(p, n + 1, b, c) : Undoes(b, c, d)
    BY <1>2, <1>3 DEF Low, Pushes
  <2> QED
    BY <1>4, <1>9, <1>12, <2>1, <2>2 DEF Step
<1> QED
  BY <1>1, <1>4, <1>13, StepKept

(* A form, a level or what waits for a minibuffer.                         *)
Plain(n, ca, ha, b, f, ca2, ha2, c) ==
  /\ f.kind \notin {"throw", "unbind", "read"}
  /\ ca2 = (IF f.kind \in Catching THEN <<n + 1>> \o ca ELSE ca)
  /\ ha2 = (IF f.kind \in Handling THEN <<n + 1>> \o ha ELSE ha)
  /\ Len(c.pdl) = Len(b.pdl) + Own(f.kind)
  /\ f.kind = "entry" => /\ c.pdl[Len(b.pdl) + 1].kind = "windows"
                         /\ Tally(c.pdl, Len(b.pdl), "minibuf") = f.x
                         /\ c.reads < MaxMinibuf /\ c.saved[c.reads] = c.prompt

LEMMA ConsTyped ==
  ASSUME NEW s \in Seq(Nat), NEW m \in Nat
  PROVE  <<m>> \o s \in Seq(Nat)
OBVIOUS

LEMMA PlainKept ==
  ASSUME NEW st, NEW ca, NEW ha, NEW b, NEW tx, Good(st, ca, ha, b, tx), NEW f, NEW st2,
         st2 = Append(st, f), NEW ca2, NEW ha2, NEW c, BindingsTyped(c), Counted(c),
         NEW n, n = Len(st), Pushes(n, ca, ha, b, f, c), Plain(n, ca, ha, b, f, ca2, ha2, c),
         Marked(st2, n + 1), st[n].kind # "entry"
  PROVE  Good(st2, ca2, ha2, c, tx)
<1>1. Typed(st, ca, ha, b, tx) /\ f \in FrameT
  BY DEF Good, Pushes
<1>2. /\ Stack(st2) /\ n \in Nat /\ n >= 1 /\ Len(st2) = n + 1 /\ st2[n + 1] = f
      /\ ca \in Seq(Nat) /\ ha \in Seq(Nat) /\ tx \in Texts
  <2>1. /\ Stack(st) /\ ca \in Seq(Nat) /\ ha \in Seq(Nat) /\ tx \in Texts
        /\ st \in Seq(FrameT) /\ Len(st) >= 1
    BY <1>1 DEF Typed, Stack
  <2>2. n \in Nat /\ n >= 1 /\ Len(st2) = n + 1 /\ st2[n + 1] = f
    BY <1>1, <2>1, AppendIs
  <2>3. Stack(st2)
    BY <1>1, <2>1, StackPush
  <2> QED
    BY <2>1, <2>2, <2>3
<1>3. n + 1 \in Nat /\ <<n + 1>> \o ca \in Seq(Nat) /\ <<n + 1>> \o ha \in Seq(Nat)
  <2>1. n + 1 \in Nat
    BY <1>2
  <2> QED
    BY <1>2, <2>1, ConsTyped
<1>4. ca2 \in Seq(Nat) /\ ha2 \in Seq(Nat)
  <2>1. ca2 \in {ca, <<n + 1>> \o ca} /\ ha2 \in {ha, <<n + 1>> \o ha}
    BY DEF Plain
  <2> QED
    BY <1>2, <1>3, <2>1
<1>5. Entering(st2, c)
  BY <1>2 DEF Entering, Plain
<1>6. Typed(st2, ca2, ha2, c, tx)
  BY <1>2, <1>4, <1>5 DEF Typed
<1>7. PICK q : q = PlacesOf(st2, ca2, ha2, Len(c.pdl))
  OBVIOUS
<1>8. Len(c.pdl) \in Nat
  <2>1. c.pdl \in Seq(Entries)
    BY DEF BindingsTyped
  <2> QED
    BY <2>1
<1>9. Laid(q, n + 1, st2, ca2, ha2, Len(c.pdl))
  BY <1>2, <1>4, <1>7, <1>8, PlacesAre
<1>10. /\ q[n + 1] = Place(f) /\ q[n + 1 + 1].next = ca2 /\ q[n + 1 + 1].handlers = ha2
       /\ q[n + 1 + 1].start = Len(c.pdl)
  <2>1. n + 1 \in 1 .. n + 1
    BY <1>2
  <2> QED
    BY <1>2, <1>9, <2>1 DEF Laid
<1>11. /\ q[n + 1].kind = f.kind /\ q[n + 1].next = ca /\ q[n + 1].handlers = ha
       /\ q[n + 1].start = Len(b.pdl)
  BY <1>10, PlaceIs DEF Pushes
<1>12. Chain(q, n + 1)
  BY <1>10, <1>11 DEF Chain, Keeps, Unbinds, Throws, Plain
<1>13. Reading(q, n + 1, c, st2, tx, n + 1)
  BY <1>2, <1>11 DEF Reading, Plain
<1> QED
  BY <1>6, <1>7, <1>12, <1>13, PushKeeps

LEMMA UndoesSelf == \A b, d : Undoes(b, b, d)
BY DEF Undoes

LEMMA ThrowKept ==
  ASSUME NEW st, NEW ca, NEW ha, NEW b, NEW tx, Good(st, ca, ha, b, tx), NEW f \in FrameT,
         NEW st2, st2 = Append(st, f), f.kind = "throw", f.tag # "top", ~f.on,
         f.pdl = Len(b.pdl), f.next = ca, f.handlers = ha, f.x \in Elems(ca), Len(st) >= 2
  PROVE  Good(st2, ca, ha, b, tx)
<1>1. PICK n, p : n = Len(st) /\ p = PlacesOf(st, ca, ha, Len(b.pdl))
  OBVIOUS
<1>2. /\ Laid(p, n, st, ca, ha, Len(b.pdl)) /\ Len(b.pdl) \in Nat
      /\ Typed(st, ca, ha, b, tx) /\ Sensible(p, n, b, st, tx)
  BY <1>1, GoodIs
<1>3. /\ n \in Nat /\ n >= 2 /\ ca \in Seq(Nat) /\ ha \in Seq(Nat) /\ Stack(st)
      /\ st \in Seq(FrameT) /\ tx \in Texts /\ BindingsTyped(b) /\ Counted(b)
  BY <1>1, <1>2 DEF Laid, Typed, Stack
<1>4. st2[n + 1] = f /\ Len(st2) = n + 1 /\ \A i \in 1 .. n : st2[i] = st[i]
  BY <1>1, <1>3, AppendIs
<1>5. Marked(st2, n + 1)
  <2>1. n + 1 # 1 /\ n + 1 # 2 /\ ~(n + 1 < n + 1)
    BY <1>3
  <2> QED
    BY <1>4, <2>1 DEF Marked
<1>6. Stack(st2)
  BY <1>1, <1>3, <1>5, StackPush
<1>7. Typed(st2, ca, ha, b, tx)
  <2>1. Entering(st2, b)
    BY <1>4 DEF Entering
  <2> QED
    BY <1>3, <1>6, <2>1 DEF Typed
<1>8. PICK q : q = PlacesOf(st2, ca, ha, Len(b.pdl))
  OBVIOUS
<1>9. Laid(q, n + 1, st2, ca, ha, Len(b.pdl))
  BY <1>2, <1>3, <1>4, <1>6, <1>8, PlacesAre
<1>10. /\ q[n + 1] = Place(f) /\ q[n + 1 + 1].next = ca /\ q[n + 1 + 1].handlers = ha
       /\ q[n + 1 + 1].start = Len(b.pdl) /\ \A i \in 1 .. n : q[i] = p[i]
       /\ p[n + 1].start = Len(b.pdl) /\ p[n + 1].next = ca
  <2>1. \A i \in 1 .. n : i \in 1 .. n + 1
    BY <1>3
  <2>2. n + 1 \in 1 .. n + 1
    BY <1>3
  <2> QED
    BY <1>2, <1>4, <1>9, <2>1, <2>2 DEF Laid
<1>11. /\ q[n + 1].kind = "throw" /\ q[n + 1].next = ca /\ q[n + 1].handlers = ha
       /\ q[n + 1].x = f.x /\ ~q[n + 1].on
  <2>1. PICK g : g = q[n + 1] /\ g = Place(f)
    BY <1>10
  <2>2. /\ g.kind = f.kind /\ g.next = f.next /\ g.handlers = f.handlers /\ g.x = f.x
        /\ g.on = (f.kind = "throw" /\ f.on)
    BY <2>1, PlaceIs
  <2> QED
    BY <2>1, <2>2, ZenonT(30)
<1>12. Head(ca) \in 1 .. n /\ p[Head(ca)].start <= Len(b.pdl)
  <2>1. Lists(p, n + 1) /\ Floor(p, n + 1)
    <3>1. n + 1 \in 1 .. n + 1
      BY <1>3
    <3> QED
      BY <1>2, <3>1 DEF Sensible, Control, Sound
  <2>2. PICK h : h = Head(ca) /\ h \in Elems(p[n + 1].next)
    BY <1>3, <1>10, ElemsHead
  <2>3. h \in 1 .. n
    <3>1. PICK j \in Nat : j = n + 1 /\ j - 1 = n
      BY <1>3
    <3>2. Lists(p, j) /\ h \in Elems(p[j].next)
      BY <2>1, <2>2, <3>1
    <3> QED
      BY <3>1, <3>2, ListsBelow
  <2>4. n + 1 \in h .. n + 1
    BY <1>3, <2>3
  <2>5. p[h].start <= p[n + 1].start
    BY <2>1, <2>2, <2>4 DEF Floor
  <2> QED
    BY <1>10, <2>2, <2>3, <2>5
<1>13. Chain(q, n + 1)
  BY <1>10, <1>11, <1>12 DEF Chain, Keeps, Unbinds, Throws
<1>14. Reading(q, n + 1, b, st2, tx, n + 1)
  BY <1>4 DEF Reading
<1>15. Pushes(n, ca, ha, b, f, b)
  <2>1. Start(f) = Len(b.pdl)
    BY DEF Start
  <2>2. Follows(f, n + 1, Current(b), Current(b))
    BY DEF Follows
  <2> QED
    BY <1>2, <2>1, <2>2, UndoesSelf DEF Pushes
<1> QED
  BY <1>1, <1>7, <1>8, <1>13, <1>14, <1>15, PushKeeps

(* A return or a longjmp to where specpdl is what it was.                  *)
LEMMA CutKeeps ==
  ASSUME NEW st, NEW ca, NEW ha, NEW b, NEW tx, Good(st, ca, ha, b, tx), NEW n, NEW p,
         n = Len(st), p = PlacesOf(st, ca, ha, Len(b.pdl)), NEW m \in 2 .. n,
         p[m].start = Len(b.pdl), Firm(p, n, m), st[m].kind # "throw", NEW st2,
         st2 = SubSeq(st, 1, m - 1), NEW ca2, NEW ha2, ca2 = st[m].next, ha2 = st[m].handlers
  PROVE  Good(st2, ca2, ha2, b, tx)
<1>1. /\ Laid(p, n, st, ca, ha, Len(b.pdl)) /\ Len(b.pdl) \in Nat
      /\ Typed(st, ca, ha, b, tx) /\ Sensible(p, n, b, st, tx)
  BY GoodIs
<1>2. /\ n \in Nat /\ Stack(st) /\ tx \in Texts /\ BindingsTyped(b) /\ Counted(b)
      /\ st[m] \in FrameT /\ p[m] = Place(st[m])
  <2>1. m \in 1 .. n
    BY <1>1 DEF Laid
  <2> QED
    BY <1>1, <2>1 DEF Laid, Typed
<1>3. PICK k \in Nat : k = m - 1 /\ k + 1 = m /\ k \in 1 .. n /\ k < n /\ m - 1 = k
  BY <1>2
<1>4. Stack(st2) /\ Len(st2) = k /\ \A i \in 1 .. k : st2[i] = st[i]
  <2>1. k \in 1 .. Len(st) /\ st2 = SubSeq(st, 1, k)
    BY <1>3
  <2> QED
    BY <1>2, <2>1, StackCut
<1>5. ca2 \in Seq(Nat) /\ ha2 \in Seq(Nat)
  BY <1>2 DEF FrameT
<1>6. Typed(st2, ca2, ha2, b, tx)
  <2>1. st[k].kind # "entry"
    <3>1. Marked(st, k) /\ k < Len(st)
      BY <1>2, <1>3 DEF Stack
    <3> QED
      BY <1>3, <3>1 DEF Marked
  <2>2. k \in 1 .. k
    BY <1>3
  <2>3. st2[Len(st2)].kind # "entry"
    BY <1>4, <2>1, <2>2
  <2> QED
    BY <1>2, <1>4, <1>5, <2>3 DEF Typed, Entering
<1>7. PICK q : q = PlacesOf(st2, ca2, ha2, Len(b.pdl))
  OBVIOUS
<1>8. Laid(q, k, st2, ca2, ha2, Len(b.pdl))
  BY <1>1, <1>4, <1>5, <1>7, PlacesAre
<1>9. q[m].next = ca2 /\ q[m].handlers = ha2 /\ q[m].start = Len(b.pdl)
  BY <1>3, <1>8 DEF Laid
<1>10. Handed(p, q, m)
  BY <1>2, <1>9, PlaceIs DEF Handed
<1>11. Step(st, b, tx, p, n, st2, b, tx, q, k, m)
  <2>1. /\ m \in 1 .. n + 1 /\ m <= k + 1 /\ k <= m + 2 /\ \A i : i \notin m .. k
        /\ \A j : j \notin m + 1 .. k + 1
    BY <1>2, <1>3
  <2>2. ASSUME NEW l \in m + 1 .. n + 1 PROVE \E i \in m .. k + 1 : q[i].start <= p[l].start
    <3>1. l \in m .. n + 1 /\ m \in m .. k + 1
      BY <1>2, <1>3, <2>2
    <3>2. q[m].start <= p[l].start
      BY <1>9, <3>1 DEF Firm
    <3> QED
      BY <3>1, <3>2
  <2> QED
    BY <1>3, <1>4, <1>10, <2>1, <2>2, UndoesSelf DEF Step
<1> QED
  BY <1>4, <1>6, <1>7, <1>11, StepKept

(* The frame on top is another one.                                        *)
Swapped(st, t, f, n) ==
  n \in Nat /\ n = Len(st) /\ Len(t) = n /\ t[n] = f /\ \A i \in 1 .. n - 1 : t[i] = st[i]

LEMMA SwappedIs ==
  ASSUME NEW st \in Seq(FrameT), Len(st) >= 1, NEW f \in FrameT
  PROVE  Swapped(st, Append(Front(st), f), f, Len(st))
<1>1. PICK n \in Nat : n = Len(st) /\ n - 1 + 1 = n
  OBVIOUS
<1>2. PICK s, t : s = Front(st) /\ t = Append(s, f)
  OBVIOUS
<1>3. s \in Seq(FrameT) /\ Len(s) = n - 1 /\ \A i \in 1 .. n - 1 : s[i] = st[i]
  BY <1>1, <1>2, FrontIs
<1>4. Len(t) = n /\ t[n] = f /\ \A i \in 1 .. n - 1 : t[i] = s[i]
  BY <1>1, <1>2, <1>3, AppendIs
<1> QED
  BY <1>1, <1>2, <1>3, <1>4 DEF Swapped

LEMMA StackReplace ==
  ASSUME NEW st, Stack(st), NEW n, NEW f \in FrameT, NEW t, Swapped(st, t, f, n), n >= 2,
         t = Append(Front(st), f), Marked(t, n), st[n - 1].kind = "entry" => f.kind = "throw"
  PROVE  Stack(t)
<1>1. n \in Nat /\ n = Len(st)
  BY DEF Swapped
<1>2. PICK k \in Nat : k = n - 1 /\ k \in 1 .. Len(st) /\ n = k + 1
  BY <1>1
<1>3. PICK s : s = SubSeq(st, 1, k) /\ t = Append(s, f)
  BY <1>1, <1>2 DEF Front
<1>4. Stack(s) /\ Len(s) = k /\ \A i \in 1 .. k : s[i] = st[i]
  BY <1>2, <1>3, StackCut
<1>5. Marked(t, k + 1)
  BY <1>2
<1>6. s[k].kind = "entry" => f.kind = "throw"
  BY <1>2, <1>4
<1> QED
  BY <1>3, <1>4, <1>5, <1>6, StackPush

LEMMA RightUnclear ==
  ASSUME NEW q, NEW j, NEW i \in 1 .. j - 1, q[i].kind \in {"unbind", "throw"}, NEW r,
         Alive(q, j, r)
  PROVE  Right(q, j, r)
BY DEF Right, Clear

(* unbind_to begins in place of a form, an edit or a minibuffer.           *)
LEMMA ToUnbindKeeps ==
  ASSUME NEW st, NEW ca, NEW ha, NEW b, NEW tx, Good(st, ca, ha, b, tx), NEW n, n = Len(st),
         st[n].kind \in {"let", "protect", "edit", "read"}, NEW f \in FrameT,
         f.kind = "unbind", f.tag # "top", f.next = ca, f.handlers = ha, f.x = st[n].pdl, NEW st2,
         st2 = Append(Front(st), f)
  PROVE  Good(st2, ca, ha, b, tx)
<1>1. PICK p : p = PlacesOf(st, ca, ha, Len(b.pdl))
  OBVIOUS
<1>2. /\ Laid(p, n, st, ca, ha, Len(b.pdl)) /\ Len(b.pdl) \in Nat
      /\ Typed(st, ca, ha, b, tx) /\ Sensible(p, n, b, st, tx)
      /\ Right(p, n + 1, Current(b)) /\ Held(p, b, n + 1, Len(b.pdl))
  BY <1>1, GoodIs
<1>3. /\ n \in Nat /\ n >= 1 /\ Stack(st) /\ tx \in Texts /\ BindingsTyped(b) /\ Counted(b)
      /\ ca \in Seq(Nat) /\ ha \in Seq(Nat) /\ p \in [1 .. n + 1 -> Position]
      /\ p[n + 1].start = Len(b.pdl) /\ p[n + 1].next = ca /\ p[n + 1].handlers = ha
      /\ \A i \in 1 .. n : p[i] = Place(st[i]) /\ st[i] \in FrameT
  BY <1>2 DEF Laid, Typed
<1>4. n >= 3 /\ st[n - 1].kind # "entry"
  <2>1. n \in 1 .. n /\ (n = 1 \/ n = 2 \/ n >= 3)
    <3>1. n \in Nat /\ n >= 1
      BY <1>3
    <3> QED
      BY <3>1
  <2>2. Marked(st, n)
    BY <1>3, <2>1 DEF Stack
  <2>3. n # 1 /\ n # 2
    BY <2>2 DEF Marked
  <2>4. n >= 3 /\ n - 1 \in 1 .. n /\ n - 1 < n /\ n - 1 + 1 = n
    BY <1>3, <2>1, <2>3
  <2>5. Marked(st, n - 1)
    BY <1>3, <2>4 DEF Stack
  <2> QED
    BY <2>4, <2>5 DEF Marked
<1>5. Stack(st2) /\ Len(st2) = n /\ st2[n] = f /\ \A i \in 1 .. n - 1 : st2[i] = st[i]
  <2>1. Swapped(st, st2, f, n)
    <3>1. st \in Seq(FrameT) /\ Len(st) >= 1
      BY <1>3, <1>4 DEF Stack
    <3> QED
      BY <3>1, SwappedIs
  <2>2. Marked(st2, n)
    <3>1. n # 1 /\ n # 2
      BY <1>4
    <3> QED
      BY <2>1, <3>1 DEF Marked, Swapped
  <2>3. n >= 2
    BY <1>3, <1>4
  <2>4. Stack(st2)
    BY <1>3, <1>4, <2>1, <2>2, <2>3, StackReplace
  <2> QED
    BY <2>1, <2>4 DEF Swapped
<1>6. Typed(st2, ca, ha, b, tx)
  <2>1. Entering(st2, b)
    BY <1>5 DEF Entering
  <2> QED
    BY <1>3, <1>5, <2>1 DEF Typed
<1>7. PICK q : q = PlacesOf(st2, ca, ha, Len(b.pdl))
  OBVIOUS
<1>8. Laid(q, n, st2, ca, ha, Len(b.pdl))
  BY <1>2, <1>3, <1>5, <1>6, <1>7, PlacesAre DEF Typed
<1>9. n \in 1 .. n /\ n \in 1 .. n + 1 /\ n + 1 \in 1 .. n + 1 /\ \A i \in 1 .. n - 1 : i \in 1 .. n
  BY <1>3
<1>10. /\ q[n] = Place(f) /\ p[n] = Place(st[n]) /\ \A i \in 1 .. n - 1 : q[i] = p[i]
       /\ q[n + 1].start = Len(b.pdl) /\ q[n + 1].next = ca /\ q[n + 1].handlers = ha
  BY <1>3, <1>5, <1>8, <1>9 DEF Laid
<1>11. /\ q[n].kind = "unbind" /\ q[n].next = ca /\ q[n].handlers = ha /\ q[n].start = st[n].pdl
       /\ p[n].kind = st[n].kind /\ p[n].start = st[n].pdl
  BY <1>10, PlaceIs DEF Start
<1>12. p[n].next = ca /\ p[n].handlers = ha /\ p[n].start <= Len(b.pdl)
  <2>1. Chain(p, n)
    BY <1>2, <1>9 DEF Sensible, Control
  <2>2. p[n].kind \notin {"throw", "unbind"} \union Catching
    BY <1>11 DEF Catching
  <2>3. p[n].next = ca /\ p[n].handlers = ha
    BY <1>3, <2>1, <2>2 DEF Chain, Keeps, Catching, Handling
  <2>4. p[n].start <= p[n + 1].start
    BY <1>3, <1>9, <2>1, <2>2, StartGrows
  <2> QED
    BY <1>3, <2>3, <2>4
<1>13. Handed(p, q, n)
  BY <1>11, <1>12 DEF Handed
<1>14. Chain(q, n)
  BY <1>10, <1>11, <1>12 DEF Chain, Keeps, Unbinds, Throws
<1>15. Stays(p, q, n + 1)
  <2>1. n + 1 - 1 = n /\ \A i \in 1 .. n : i \in 1 .. n - 1 \/ i = n
    BY <1>3
  <2> QED
    BY <1>10, <1>11, <2>1 DEF Stays
<1>16. Right(q, n + 1, Current(b))
  <2>1. PICK j : j = n + 1 /\ n \in 1 .. j - 1
    BY <1>3
  <2>2. Alive(q, j, Current(b))
    BY <1>2, <1>15, <2>1 DEF Right, Alive, Stays
  <2> QED
    BY <1>11, <2>1, <2>2, RightUnclear
<1>17. Held(q, b, n + 1, Len(b.pdl))
  <2>1. n + 1 \in Nat /\ n + 1 <= n + 1
    BY <1>3
  <2> QED
    BY <1>2, <1>15, <2>1, UndoesSelf, HeldUp
<1>18. Back(q, n, b, n + 1)
  BY <1>3, <1>10, <1>16, <1>17, BackAt
<1>19. Step(st, b, tx, p, n, st2, b, tx, q, n, n)
  <2>1. /\ n <= n + 1 /\ n <= n + 2 /\ \A i : i \in n .. n => i = n
        /\ \A i : i \in n + 1 .. n + 1 => i = n + 1
    BY <1>3
  <2>2. \A l \in n + 1 .. n + 1 : \E i \in n .. n + 1 : q[i].start <= p[l].start
    <3>1. n + 1 \in n .. n + 1 /\ q[n + 1].start <= p[n + 1].start
      BY <1>2, <1>3, <1>10
    <3> QED
      BY <2>1, <3>1
  <2>3. Reading(q, n, b, st2, tx, n)
    BY <1>5 DEF Reading
  <2> QED
    BY <1>5, <1>9, <1>13, <1>14, <1>18, <2>1, <2>2, <2>3, UndoesSelf DEF Step
<1> QED
  BY <1>1, <1>5, <1>6, <1>7, <1>19, StepKept

(* unbind_to undoes an entry.                                              *)
LEMMA UnbindKeeps ==
  ASSUME NEW st, NEW ca, NEW ha, NEW b, NEW tx, Good(st, ca, ha, b, tx), NEW n, n = Len(st),
         st[n].kind = "unbind", NEW c, BindingsTyped(c), Counted(c), st[n].x <= Len(c.pdl),
         Len(b.pdl) = Len(c.pdl) + 1, \A d \in 0 .. Len(c.pdl) : Undoes(b, c, d),
         NEW tx2 \in Texts, \A l \in 0 .. MaxMinibuf - 1 : tx2[l] # tx[l] => c.reads <= l
  PROVE  Good(st, ca, ha, c, tx2)
<1>1. PICK p : p = PlacesOf(st, ca, ha, Len(b.pdl))
  OBVIOUS
<1>2. /\ Laid(p, n, st, ca, ha, Len(b.pdl)) /\ Len(b.pdl) \in Nat
      /\ Typed(st, ca, ha, b, tx) /\ Sensible(p, n, b, st, tx)
      /\ Held(p, b, n + 1, Len(b.pdl))
  BY <1>1, GoodIs
<1>3. /\ n \in Nat /\ n >= 1 /\ Stack(st)
      /\ ca \in Seq(Nat) /\ ha \in Seq(Nat) /\ p \in [1 .. n + 1 -> Position]
      /\ p[n + 1].start = Len(b.pdl) /\ p[n + 1].next = ca /\ p[n + 1].handlers = ha
      /\ \A i \in 1 .. n : p[i] = Place(st[i]) /\ st[i] \in FrameT
  BY <1>2 DEF Laid, Typed
<1>4. PICK depth \in Nat : depth = Len(c.pdl) /\ Len(b.pdl) = depth + 1
  <2>1. c.pdl \in Seq(Entries)
    BY DEF BindingsTyped
  <2>2. Len(c.pdl) \in Nat
    BY <2>1
  <2> QED
    BY <2>2
<1>5. Typed(st, ca, ha, c, tx2)
  <2>1. Entering(st, c)
    BY DEF Entering
  <2> QED
    BY <1>3, <2>1 DEF Typed
<1>6. PICK q : q = PlacesOf(st, ca, ha, Len(c.pdl))
  OBVIOUS
<1>7. Laid(q, n, st, ca, ha, Len(c.pdl))
  BY <1>3, <1>4, <1>6, PlacesAre
<1>8. n \in 1 .. n /\ n \in 1 .. n + 1 /\ n + 1 \in 1 .. n + 1 /\ \A i \in 1 .. n - 1 : i \in 1 .. n
  BY <1>3
<1>9. /\ \A i \in 1 .. n : q[i] = p[i]
      /\ q[n + 1].start = depth /\ q[n + 1].next = ca /\ q[n + 1].handlers = ha
  BY <1>3, <1>4, <1>7 DEF Laid
<1>10. p[n].kind = "unbind" /\ p[n].start = st[n].x /\ q[n] = p[n]
  BY <1>3, <1>8, <1>9, PlaceIs DEF Start
<1>11. p[n].next = ca /\ p[n].handlers = ha
  <2>1. Chain(p, n)
    BY <1>2, <1>8 DEF Sensible, Control
  <2> QED
    BY <1>3, <1>10, <2>1 DEF Chain, Unbinds
<1>12. Handed(p, q, n)
  BY <1>10 DEF Handed
<1>13. Chain(q, n)
  BY <1>4, <1>9, <1>10, <1>11 DEF Chain, Keeps, Unbinds, Throws
<1>14. Stays(p, q, n + 1)
  <2>1. n + 1 - 1 = n
    BY <1>3
  <2> QED
    BY <1>9, <2>1 DEF Stays
<1>15. Held(q, c, n + 1, depth)
  <2>1. n + 1 \in Nat /\ n + 1 <= n + 1
    BY <1>3
  <2>2. Held(p, b, n + 1, depth)
    <3>1. \A d \in 0 .. depth : d \in 0 .. depth + 1
      OBVIOUS
    <3> QED
      BY <1>2, <1>4, <3>1 DEF Held
  <2>3. \A d \in 0 .. depth : Undoes(b, c, d)
    BY <1>4
  <2> QED
    BY <1>14, <2>1, <2>2, <2>3, HeldUp
<1>16. Right(q, n + 1, Current(c))
  <2>1. PICK j : j = n + 1 /\ n \in 1 .. j - 1
    BY <1>3
  <2>2. PICK r : Restores(c, depth, r) /\ Alive(q, j, r)
    <3>1. depth \in 0 .. depth
      OBVIOUS
    <3> QED
      BY <1>15, <2>1, <3>1 DEF Held
  <2>3. Alive(q, j, Current(c))
    <3>1. r.prompt = c.prompt
      BY <1>4, <2>2, RestoresNow
    <3> QED
      BY <2>2, <3>1 DEF Alive, Current
  <2> QED
    BY <1>10, <2>1, <2>3, RightUnclear
<1>17. Back(q, n, c, n + 1)
  BY <1>3, <1>4, <1>9, <1>15, <1>16, BackAt
<1>18. Step(st, b, tx, p, n, st, c, tx2, q, n, n)
  <2>1. /\ n <= n + 1 /\ n <= n + 2 /\ \A i : i \in n .. n => i = n
        /\ \A i : i \in n + 1 .. n + 1 => i = n + 1
    BY <1>3
  <2>2. \A l \in n + 1 .. n + 1 : \E i \in n .. n + 1 : q[i].start <= p[l].start
    <3>1. n + 1 \in n .. n + 1 /\ q[n + 1].start <= p[n + 1].start
      BY <1>3, <1>4, <1>9
    <3> QED
      BY <2>1, <3>1
  <2>3. Reading(q, n, c, st, tx2, n)
    BY DEF Reading
  <2>4. \A d \in Low(p, n, b, c) : d \in 0 .. Len(c.pdl)
    BY <1>4 DEF Low
  <2>5. ASSUME NEW l \in 0 .. MaxMinibuf - 1, tx2[l] # tx[l], NEW d \in Low(p, n, b, c)
        PROVE  Tally(c.pdl, d, "minibuf") <= l
    <3>1. l \in Nat /\ c.reads <= l /\ d \in Nat /\ d <= depth
      BY <1>4, <2>4, <2>5
    <3>2. Tally(c.pdl, d, "minibuf") <= Tally(c.pdl, depth, "minibuf")
      BY <3>1, TallyGrows
    <3>3. PICK u, w : /\ u = Tally(c.pdl, d, "minibuf") /\ w = Tally(c.pdl, depth, "minibuf")
                      /\ u \in Nat /\ w \in Nat /\ u <= w
      BY <3>1, <3>2, TallyNat
    <3>4. w <= l
      BY <1>4, <3>1, <3>3 DEF Counted
    <3> QED
      BY <3>1, <3>3, <3>4
  <2> QED
    BY <1>8, <1>12, <1>13, <1>17, <2>1, <2>2, <2>3, <2>4, <2>5 DEF Step
<1> QED
  BY <1>1, <1>3, <1>5, <1>6, <1>18, StepKept

(* What becomes of an entry, and of the bindings.                          *)
Enters(g, f) ==
  /\ g.kind = "entry" /\ f.kind = "read" /\ f.tag # "top" /\ ~f.on /\ f.next = g.next
  /\ f.handlers = g.handlers /\ f.pdl = g.pdl /\ f.x = g.x
Fills(n, b, c, e) ==
  /\ e.kind = "minibuf" /\ c.pdl = Append(b.pdl, e) /\ c.value = b.value /\ c.shown = b.reads
  /\ c.edits = b.edits /\ c.reads = b.reads + 1 /\ c.saved = b.saved /\ c.prompt = n

(* A minibuffer is entered: the frame that waited for one reads.           *)
LEMMA EnterKeeps ==
  ASSUME NEW st, NEW ca, NEW ha, NEW b, NEW tx, Good(st, ca, ha, b, tx), NEW n, n = Len(st),
         NEW f \in FrameT, Enters(st[n], f), NEW st2, st2 = Append(Front(st), f),
         NEW c, BindingsTyped(c), NEW e \in Entries, Fills(n, b, c, e),
         NEW tx2, tx2 = [tx EXCEPT ![b.reads] = FALSE]
  PROVE  Good(st2, ca, ha, c, tx2)
<1>0. /\ st[n].kind = "entry" /\ f.kind = "read" /\ f.tag # "top" /\ ~f.on
      /\ f.next = st[n].next /\ f.handlers = st[n].handlers /\ f.pdl = st[n].pdl /\ f.x = st[n].x
      /\ e.kind = "minibuf" /\ c.pdl = Append(b.pdl, e) /\ c.value = b.value /\ c.shown = b.reads
      /\ c.edits = b.edits /\ c.reads = b.reads + 1 /\ c.saved = b.saved /\ c.prompt = n
  BY DEF Enters, Fills
<1> USE <1>0
<1>1. PICK p : p = PlacesOf(st, ca, ha, Len(b.pdl))
  OBVIOUS
<1>2. /\ Laid(p, n, st, ca, ha, Len(b.pdl)) /\ Len(b.pdl) \in Nat
      /\ Typed(st, ca, ha, b, tx) /\ Sensible(p, n, b, st, tx)
      /\ Right(p, n + 1, Current(b)) /\ Held(p, b, n + 1, Len(b.pdl))
  BY <1>1, GoodIs
<1>3. /\ n \in Nat /\ n >= 1 /\ Stack(st) /\ tx \in Texts /\ BindingsTyped(b) /\ Counted(b)
      /\ ca \in Seq(Nat) /\ ha \in Seq(Nat) /\ p \in [1 .. n + 1 -> Position]
      /\ p[n + 1].start = Len(b.pdl) /\ p[n + 1].next = ca /\ p[n + 1].handlers = ha
      /\ \A i \in 1 .. n : p[i] = Place(st[i]) /\ st[i] \in FrameT
  BY <1>2 DEF Laid, Typed
<1>4. n >= 3 /\ st[n - 1].kind # "entry"
  <2>1. n \in 1 .. n /\ (n = 1 \/ n = 2 \/ n >= 3)
    <3>1. n \in Nat /\ n >= 1
      BY <1>3
    <3> QED
      BY <3>1
  <2>2. Marked(st, n)
    BY <1>3, <2>1 DEF Stack
  <2>3. n # 1 /\ n # 2
    BY <2>2 DEF Marked
  <2>4. n >= 3 /\ n - 1 \in 1 .. n /\ n - 1 < n /\ n - 1 + 1 = n
    BY <1>3, <2>1, <2>3, SMTT(30)
  <2>5. Marked(st, n - 1)
    BY <1>3, <2>4 DEF Stack
  <2> QED
    BY <2>4, <2>5 DEF Marked
<1>5. Stack(st2) /\ Len(st2) = n /\ st2[n] = f /\ \A i \in 1 .. n - 1 : st2[i] = st[i]
  <2>1. Swapped(st, st2, f, n)
    <3>1. st \in Seq(FrameT) /\ Len(st) >= 1
      BY <1>3, <1>4 DEF Stack
    <3> QED
      BY <3>1, SwappedIs
  <2>2. Marked(st2, n)
    <3>1. n # 1 /\ n # 2
      BY <1>4
    <3> QED
      BY <2>1, <3>1 DEF Marked, Swapped
  <2>3. n >= 2
    BY <1>3, <1>4
  <2>4. Stack(st2)
    BY <1>3, <1>4, <2>1, <2>2, <2>3, StackReplace
  <2> QED
    BY <2>1, <2>4 DEF Swapped
<1>6. n \in 1 .. n /\ n \in 1 .. n + 1 /\ n + 1 \in 1 .. n + 1 /\ \A i \in 1 .. n - 1 : i \in 1 .. n
  BY <1>3
<1>7. PICK s \in Nat : s = p[n].start
  BY <1>3, <1>6, PlaceTypes
<1>8. /\ p[n].kind = "entry" /\ p[n].next = st[n].next /\ p[n].handlers = st[n].handlers
      /\ st[n].pdl = s
  <2>1. p[n] = Place(st[n])
    BY <1>3, <1>6
  <2>2. Start(st[n]) = st[n].pdl
    BY DEF Start
  <2> QED
    BY <1>7, <2>1, <2>2, PlaceIs
<1>9. st[n].next = ca /\ st[n].handlers = ha /\ Len(b.pdl) = s + 1
  <2>1. Chain(p, n)
    BY <1>2, <1>6 DEF Sensible, Control
  <2> QED
    BY <1>3, <1>7, <1>8, <2>1 DEF Chain, Keeps, Catching, Handling, Own
<1>10. /\ (b.pdl)[s + 1].kind = "windows" /\ Tally(b.pdl, s, "minibuf") = st[n].x
  <2>1. Firm(p, n, n + 1)
    BY <1>2, <1>3 DEF Firm
  <2>2. Reading(p, n, b, st, tx, n)
    BY <1>2, <1>6 DEF Sensible
  <2> QED
    BY <1>7, <2>1, <2>2 DEF Reading
<1>11. b.reads = st[n].x /\ b.edits = Tally(b.pdl, s, "edit") /\ b.reads < MaxMinibuf
       /\ b.saved[b.reads] = b.prompt
  <2>1. PICK u : u = b.pdl
    OBVIOUS
  <2>2. u[s + 1].kind = "windows" /\ "windows" # "minibuf" /\ "windows" # "edit"
    BY <1>10, <2>1
  <2>3. /\ Tally(u, s + 1, "minibuf") = Tally(u, s, "minibuf")
        /\ Tally(u, s + 1, "edit") = Tally(u, s, "edit")
    <3>1. \A kind : u[s + 1].kind # kind => Tally(u, s + 1, kind) = Tally(u, s, kind)
      BY <1>7, TallyNext
    <3> QED
      BY <2>2, <3>1
  <2>4. b.reads < MaxMinibuf /\ b.saved[b.reads] = b.prompt
    BY <1>2 DEF Typed, Entering
  <2> QED
    BY <1>3, <1>9, <1>10, <2>1, <2>3, <2>4 DEF Counted
<1>12. /\ Counted(c) /\ Len(c.pdl) = s + 2 /\ (c.pdl)[s + 2] = e
       /\ \A d \in 1 .. s + 1 : (c.pdl)[d] = (b.pdl)[d]
       /\ \A d \in Nat : \A r : d <= s /\ Restores(b, d, r) => Restores(c, d, r)
       /\ \E r : Restores(c, s + 1, r) /\ r.prompt = b.prompt
  <2>1. b.pdl \in Seq(Entries) /\ s + 1 + 1 = s + 2 /\ s + 1 >= 1 /\ s + 1 - 1 = s
    <3>1. b.pdl \in Seq(Entries)
      BY <1>3 DEF BindingsTyped
    <3>2. s + 1 + 1 = s + 2 /\ s + 1 >= 1 /\ s + 1 - 1 = s
      BY <1>7
    <3> QED
      BY <3>1, <3>2
  <2>2. Len(c.pdl) = s + 2 /\ (c.pdl)[s + 2] = e /\ \A d \in 1 .. s + 1 : (c.pdl)[d] = (b.pdl)[d]
    BY <1>9, <2>1, AppendIs
  <2>3. Len(b.pdl) >= 1 /\ b.pdl[Len(b.pdl)].kind = "windows"
    BY <1>9, <1>10, <2>1
  <2>4. /\ Counted(c)
        /\ \A d \in Nat : \A r : d <= Len(b.pdl) - 1 /\ Restores(b, d, r) => Restores(c, d, r)
        /\ \E r : Restores(c, Len(b.pdl), r) /\ r.prompt = b.prompt
    <3>1. BindingsTyped(b) /\ Counted(b) /\ b.saved[b.reads] = b.prompt
      BY <1>3, <1>11
    <3> QED
      BY <2>3, <3>1, PushMinibufKept, ZenonT(30)
  <2> QED
    BY <1>9, <2>1, <2>2, <2>4
<1>13. Typed(st2, ca, ha, c, tx2)
  <2>1. Entering(st2, c)
    BY <1>5 DEF Entering
  <2>2. tx2 \in Texts
    BY <1>3 DEF Texts
  <2> QED
    BY <1>3, <1>5, <1>12, <2>1, <2>2 DEF Typed
<1>14. PICK q : q = PlacesOf(st2, ca, ha, Len(c.pdl))
  OBVIOUS
<1>15. Laid(q, n, st2, ca, ha, Len(c.pdl)) /\ Len(c.pdl) \in Nat
  <2>1. Len(c.pdl) \in Nat
    BY <1>7, <1>12
  <2>2. PICK depth \in Nat : depth = Len(c.pdl)
    BY <2>1
  <2>3. /\ Stack(st2) /\ ca \in Seq(Nat) /\ ha \in Seq(Nat) /\ Len(st2) = n
        /\ q = PlacesOf(st2, ca, ha, depth)
    BY <1>3, <1>5, <1>14, <2>2
  <2>4. Laid(q, n, st2, ca, ha, depth)
    BY <2>2, <2>3, PlacesAre
  <2> QED
    BY <2>2, <2>4
<1>16. /\ q[n] = Place(f) /\ \A i \in 1 .. n - 1 : q[i] = p[i]
       /\ q[n + 1].start = s + 2 /\ q[n + 1].next = ca /\ q[n + 1].handlers = ha
  BY <1>3, <1>5, <1>6, <1>12, <1>15 DEF Laid
<1>17. /\ q[n].kind = "read" /\ q[n].next = ca /\ q[n].handlers = ha /\ q[n].start = s
       /\ q[n].x = st[n].x
  <2>1. PICK g : g = q[n] /\ g = Place(f)
    BY <1>16
  <2>2. /\ g.kind = f.kind /\ g.next = f.next /\ g.handlers = f.handlers /\ g.x = f.x
        /\ g.start = f.pdl
    BY <2>1, PlaceIs DEF Start
  <2> QED
    BY <1>8, <1>9, <2>1, <2>2, ZenonT(30)
<1>18. Handed(p, q, n)
  BY <1>7, <1>8, <1>9, <1>17 DEF Handed
<1>19. Chain(q, n)
  BY <1>16, <1>17 DEF Chain, Keeps, Unbinds, Throws, Catching, Handling, Own
<1>20. PICK z : Restores(b, s, z) /\ Right(p, n, z) /\ Held(p, b, n, s)
  <2>1. Firm(p, n, n)
    <3>1. \A l \in n .. n + 1 : l = n \/ l = n + 1
      BY <1>3
    <3>2. p[n].start <= p[n].start /\ p[n].start <= p[n + 1].start
      <4>1. p[n].start = s /\ p[n + 1].start = s + 1
        BY <1>3, <1>7, <1>9
      <4> QED
        BY <1>7, <4>1
    <3> QED
      BY <3>1, <3>2 DEF Firm
  <2>2. Back(p, n, b, n)
    BY <1>2, <1>6 DEF Sensible
  <2> QED
    BY <1>7, <2>1, <2>2 DEF Back
<1>21. z.reads = b.reads /\ z.edits = b.edits /\ z.value = b.value
  <2>1. z.reads = b.reads /\ z.edits = b.edits
    BY <1>10, <1>11, <1>20 DEF Restores
  <2>2. Sees(b.pdl, "let", b.value, s, z.value)
    BY <1>20 DEF Restores
  <2>3. \A i \in s + 1 .. Len(b.pdl) : b.pdl[i].kind # "let"
    <3>1. \A i \in s + 1 .. s + 1 : i = s + 1
      BY <1>7
    <3>2. "windows" # "let"
      OBVIOUS
    <3> QED
      BY <1>9, <1>10, <3>1, <3>2
  <2> QED
    BY <2>1, <2>2, <2>3 DEF Sees
<1>22. Right(q, n + 1, Current(c))
  <2>1. Right(q, n, z)
    BY <1>3, <1>16, <1>20, RightSame
  <2>2. Follows(q[n], n, z, Current(c))
    BY <1>11, <1>17, <1>21 DEF Follows, Current
  <2> QED
    BY <1>3, <2>1, <2>2, RightNext
<1>23. Stays(p, q, n) /\ Stays(p, q, n + 1)
  <2>1. n + 1 - 1 = n /\ \A i \in 1 .. n : i \in 1 .. n - 1 \/ i = n
    BY <1>3
  <2>2. p[n].kind \notin {"read", "unbind"}
    BY <1>8
  <2>3. \A i \in 1 .. n : p[i].kind \in {"read", "unbind"} => q[i].kind \in {"read", "unbind"}
    BY <1>16, <2>1, <2>2
  <2> QED
    BY <1>16, <2>1, <2>3 DEF Stays
<1>24. Held(q, c, n + 1, s)
  <2>1. n + 1 \in Nat /\ n <= n + 1
    BY <1>3
  <2>2. \A d \in 0 .. s : Undoes(b, c, d)
    <3>1. ASSUME NEW d \in 0 .. s PROVE Undoes(b, c, d)
      <4>1. d \in Nat /\ d <= s /\ (d >= 1 => d \in 1 .. s + 1)
        BY <1>7
      <4> QED
        BY <1>12, <4>1 DEF Undoes
    <3> QED
      BY <3>1
  <2> QED
    BY <1>3, <1>7, <1>20, <1>23, <2>1, <2>2, HeldUp
<1>25. Held(q, c, n + 1, s + 1)
  <2>1. PICK r : Restores(c, s + 1, r) /\ r.prompt = b.prompt
    BY <1>12
  <2>2. Alive(q, n + 1, r)
    <3>1. Alive(p, n + 1, r)
      BY <1>2, <2>1 DEF Right, Alive, Current
    <3> QED
      BY <1>23, <3>1 DEF Alive, Stays
  <2>3. \A d \in 0 .. s + 1 : d \in 0 .. s \/ d = s + 1
    BY <1>7
  <2> QED
    BY <1>24, <2>1, <2>2, <2>3 DEF Held
<1>26. Held(q, c, n + 1, Len(c.pdl))
  <2>1. s + 1 \in Nat /\ Len(c.pdl) <= s + 1 + 1
    BY <1>7, <1>12, SMTT(30)
  <2>2. Alive(q, n + 1, Current(c))
    BY <1>22 DEF Right
  <2> QED
    BY <1>12, <1>25, <2>1, <2>2, HeldNow
<1>27. Back(q, n, c, n + 1)
  BY <1>3, <1>12, <1>16, <1>22, <1>26, BackAt
<1>28. Reading(q, n, c, st2, tx2, n)
  <2>1. s + 1 \in 1 .. s + 1
    BY <1>7
  <2>2. (c.pdl)[s + 1].kind = "windows" /\ (c.pdl)[s + 2].kind = "minibuf"
    BY <1>10, <1>12, <2>1
  <2>3. Tally(c.pdl, s, "minibuf") = st[n].x
    <3>1. Agree(b.pdl, c.pdl, s + 1)
      BY <1>12 DEF Agree
    <3>2. s \in Nat /\ s + 1 \in Nat /\ s <= s + 1
      BY <1>7
    <3> QED
      BY <1>10, <3>1, <3>2, TallyPrefix
  <2>4. tx2[st[n].x] = FALSE
    <3>1. b.reads \in 0 .. MaxMinibuf - 1
      BY <1>3, <1>11, UnwindingAssumption DEF BindingsTyped
    <3> QED
      BY <1>3, <1>11, <3>1 DEF Texts
  <2>5. f.on = FALSE
    BY DEF FrameT
  <2> QED
    BY <1>5, <1>17, <2>2, <2>3, <2>4, <2>5, ZenonT(30) DEF Reading
<1>29. \A d \in Low(p, n, b, c) : d \in Nat /\ d <= s
  BY <1>7 DEF Low
<1>30. Step(st, b, tx, p, n, st2, c, tx2, q, n, n)
  <2>1. /\ n <= n + 1 /\ n <= n + 2 /\ \A i : i \in n .. n => i = n
        /\ \A i : i \in n + 1 .. n + 1 => i = n + 1
    BY <1>3
  <2>2. \A l \in n + 1 .. n + 1 : \E i \in n .. n + 1 : q[i].start <= p[l].start
    <3>1. n \in n .. n + 1 /\ q[n].start <= p[n + 1].start
      BY <1>3, <1>7, <1>9, <1>17
    <3> QED
      BY <2>1, <3>1
  <2>3. ASSUME NEW d \in Low(p, n, b, c) PROVE Undoes(b, c, d)
    <3>1. d \in Nat /\ d <= s /\ (d >= 1 => d \in 1 .. s + 1)
      BY <1>7, <1>29
    <3> QED
      BY <1>12, <3>1 DEF Undoes
  <2>4. ASSUME NEW l \in 0 .. MaxMinibuf - 1, tx2[l] # tx[l], NEW d \in Low(p, n, b, c)
        PROVE  Tally(c.pdl, d, "minibuf") <= l
    <3>1. l = b.reads
      BY <1>3, <2>4 DEF Texts
    <3>2. d \in Nat /\ d <= s /\ s + 1 \in Nat /\ d <= s + 1
      BY <1>7, <1>29
    <3>3. Agree(b.pdl, c.pdl, s + 1)
      BY <1>12 DEF Agree
    <3>4. Tally(c.pdl, d, "minibuf") = Tally(b.pdl, d, "minibuf")
      BY <3>2, <3>3, TallyPrefix
    <3>5. Tally(b.pdl, d, "minibuf") <= Tally(b.pdl, s, "minibuf")
      BY <1>7, <3>2, TallyGrows
    <3> QED
      BY <1>10, <1>11, <3>1, <3>4, <3>5
  <2> QED
    BY <1>5, <1>6, <1>18, <1>19, <1>27, <1>28, <2>1, <2>2, <2>3, <2>4 DEF Step
<1> QED
  BY <1>1, <1>5, <1>13, <1>14, <1>30, StepKept

(* A throw is on top: where it may go.                                     *)
Thrown(p, n, st, ca, ha, b, h) ==
  /\ n >= 3 /\ h \in Elems(ca) /\ st[n].x \in Elems(ca) /\ p[h].start <= Len(b.pdl)
  /\ st[n].on => p[h].start = Len(b.pdl)
  /\ \A c \in Elems(ca) :
       /\ c \in 1 .. n - 1 /\ Firm(p, n, c) /\ p[c].start \in Nat /\ p[c].start = st[c].pdl
       /\ p[c].next = st[c].next /\ p[c].handlers = st[c].handlers /\ st[c].kind \in Catching
  /\ \/ ca = p[n].next /\ ha = p[n].handlers
     \/ \E c \in Elems(p[n].next) : ca = p[c].next /\ ha = p[c].handlers
  /\ \A c \in Elems(p[n].next) : c \in 1 .. n - 1 /\ Elems(p[c].next) \subseteq Elems(p[n].next)

LEMMA ThrowIs ==
  ASSUME NEW st, NEW ca, NEW ha, NEW b, NEW tx, Good(st, ca, ha, b, tx), NEW n, n = Len(st),
         NEW p, p = PlacesOf(st, ca, ha, Len(b.pdl)), st[n].kind = "throw", NEW h, h = Head(ca)
  PROVE  Thrown(p, n, st, ca, ha, b, h)
<1>1. /\ Laid(p, n, st, ca, ha, Len(b.pdl)) /\ Len(b.pdl) \in Nat
      /\ Typed(st, ca, ha, b, tx) /\ Sensible(p, n, b, st, tx)
  BY GoodIs
<1>2. /\ n \in Nat /\ n >= 1 /\ Stack(st) /\ ca \in Seq(Nat) /\ ha \in Seq(Nat)
      /\ p \in [1 .. n + 1 -> Position]
      /\ p[n + 1].start = Len(b.pdl) /\ p[n + 1].next = ca /\ p[n + 1].handlers = ha
      /\ \A i \in 1 .. n : p[i] = Place(st[i]) /\ st[i] \in FrameT
  BY <1>1 DEF Laid, Typed
<1>3. n >= 3
  <2>1. n \in 1 .. n /\ (n = 1 \/ n = 2 \/ n >= 3)
    <3>1. n \in Nat /\ n >= 1
      BY <1>2
    <3> QED
      BY <3>1
  <2>2. Marked(st, n)
    BY <1>2, <2>1 DEF Stack
  <2>3. n # 1 /\ n # 2
    BY <2>2 DEF Marked
  <2> QED
    BY <2>1, <2>3
<1>4. n \in 1 .. n /\ n \in 1 .. n + 1 /\ n + 1 \in 1 .. n + 1
  BY <1>2
<1>5. p[n].kind = "throw" /\ p[n].x = st[n].x /\ p[n].on = st[n].on
  <2>1. p[n] = Place(st[n]) /\ st[n].on \in BOOLEAN
    BY <1>2, <1>4 DEF FrameT
  <2> QED
    BY <2>1, PlaceIs
<1>6. Throws(p, n)
  BY <1>1, <1>4 DEF Sensible, Control, Chain
<1>7. /\ st[n].x \in Elems(ca) /\ p[h].start <= Len(b.pdl)
      /\ st[n].on => p[h].start = Len(b.pdl)
  BY <1>2, <1>5, <1>6 DEF Throws
<1>8. \/ ca = p[n].next /\ ha = p[n].handlers
      \/ \E c \in Elems(p[n].next) : ca = p[c].next /\ ha = p[c].handlers
  BY <1>2, <1>5, <1>6 DEF Throws
<1>9. h \in Elems(ca)
  BY <1>2, <1>7, ElemsHead
<1>10. Sound(p, n) /\ Sound(p, n + 1)
  BY <1>1, <1>4 DEF Sensible, Control
<1>11. ASSUME NEW c \in Elems(ca)
       PROVE  /\ c \in 1 .. n - 1 /\ Firm(p, n, c) /\ p[c].start \in Nat /\ p[c].start = st[c].pdl
              /\ p[c].next = st[c].next /\ p[c].handlers = st[c].handlers
              /\ st[c].kind \in Catching
  <2>1. PICK j \in Nat : j = n + 1 /\ j - 1 = n
    BY <1>2
  <2>2. Lists(p, j) /\ c \in Elems(p[j].next)
    BY <1>2, <1>10, <2>1 DEF Sound
  <2>3. c \in 1 .. n /\ p[c].kind \in Catching
    BY <2>1, <2>2, ListsBelow
  <2>4. c # n
    BY <1>5, <2>3 DEF Catching
  <2>5. c \in 1 .. n - 1 /\ c \in 1 .. n + 1
    BY <1>2, <2>3, <2>4
  <2>6. p[c] = Place(st[c])
    BY <1>2, <2>3
  <2>7. st[c].kind \in Catching /\ p[c].next = st[c].next /\ p[c].handlers = st[c].handlers
    BY <2>3, <2>6, PlaceIs
  <2>8. p[c].start = st[c].pdl
    BY <2>6, <2>7, PlaceIs DEF Start, Catching
  <2>9. p[c].start \in Nat
    BY <1>2, <2>5, PlaceTypes
  <2>10. Firm(p, n, c)
    BY <1>2, <1>10 DEF Sound, Floor, Firm
  <2> QED
    BY <2>5, <2>7, <2>8, <2>9, <2>10
<1>12. ASSUME NEW c \in Elems(p[n].next)
       PROVE  c \in 1 .. n - 1 /\ Elems(p[c].next) \subseteq Elems(p[n].next)
  BY <1>10, ListsBelow DEF Sound
<1> QED
  BY <1>3, <1>7, <1>8, <1>9, <1>11, <1>12 DEF Thrown

LEMMA AliveUp ==
  ASSUME NEW p, NEW q, NEW j \in Nat, NEW l \in Nat, j <= l, Stays(p, q, j), NEW r, Alive(p, j, r)
  PROVE  Alive(q, l, r)
<1>1. \A i : i \in 1 .. j - 1 => i \in 1 .. l - 1
  OBVIOUS
<1> QED
  BY <1>1 DEF Alive, Stays

(* The throw goes past a catch.                                            *)
LEMMA DropKeeps ==
  ASSUME NEW st, NEW ca, NEW ha, NEW b, NEW tx, Good(st, ca, ha, b, tx), NEW n, n = Len(st),
         st[n].kind = "throw", st[n].on, NEW h, h = Head(ca), h # st[n].x,
         NEW f \in FrameT, f.kind = "throw", f.tag # "top", ~f.on, f.pdl = st[n].pdl,
         f.next = st[n].next, f.handlers = st[n].handlers, f.x = st[n].x,
         NEW st2, st2 = Append(Front(st), f), NEW ca2, ca2 = st[h].next,
         NEW ha2, ha2 = st[h].handlers
  PROVE  Good(st2, ca2, ha2, b, tx)
<1>1. PICK p : p = PlacesOf(st, ca, ha, Len(b.pdl))
  OBVIOUS
<1>2. /\ Laid(p, n, st, ca, ha, Len(b.pdl)) /\ Len(b.pdl) \in Nat
      /\ Typed(st, ca, ha, b, tx) /\ Sensible(p, n, b, st, tx)
      /\ Right(p, n + 1, Current(b)) /\ Held(p, b, n + 1, Len(b.pdl))
      /\ Thrown(p, n, st, ca, ha, b, h)
  BY <1>1, GoodIs, ThrowIs
<1>3. /\ n \in Nat /\ n >= 1 /\ Stack(st) /\ tx \in Texts /\ BindingsTyped(b) /\ Counted(b)
      /\ ca \in Seq(Nat) /\ ha \in Seq(Nat) /\ p \in [1 .. n + 1 -> Position]
      /\ p[n + 1].start = Len(b.pdl) /\ p[n + 1].next = ca /\ p[n + 1].handlers = ha
      /\ \A i \in 1 .. n : p[i] = Place(st[i]) /\ st[i] \in FrameT
  BY <1>2 DEF Laid, Typed
<1>4. n \in 1 .. n /\ n \in 1 .. n + 1 /\ n + 1 \in 1 .. n + 1 /\ \A i \in 1 .. n - 1 : i \in 1 .. n
  BY <1>3
<1>5. /\ n >= 3 /\ h \in 1 .. n - 1 /\ h \in Elems(ca) /\ p[h].start = Len(b.pdl)
      /\ ca2 = p[h].next /\ ha2 = p[h].handlers
  BY <1>2 DEF Thrown
<1>6. Stack(st2) /\ Len(st2) = n /\ st2[n] = f /\ \A i \in 1 .. n - 1 : st2[i] = st[i]
  <2>1. Swapped(st, st2, f, n)
    <3>1. st \in Seq(FrameT) /\ Len(st) >= 1
      BY <1>3 DEF Stack
    <3> QED
      BY <3>1, SwappedIs
  <2>2. Marked(st2, n)
    <3>1. n # 1 /\ n # 2
      BY <1>5
    <3> QED
      BY <2>1, <3>1 DEF Marked, Swapped
  <2>3. n >= 2
    BY <1>3, <1>5
  <2>4. Stack(st2)
    BY <1>3, <2>1, <2>2, <2>3, StackReplace
  <2> QED
    BY <2>1, <2>4 DEF Swapped
<1>7. ca2 \in Seq(Nat) /\ ha2 \in Seq(Nat)
  <2>1. st[h] \in FrameT
    BY <1>3, <1>4, <1>5
  <2> QED
    BY <2>1 DEF FrameT
<1>8. Typed(st2, ca2, ha2, b, tx)
  <2>1. Entering(st2, b)
    BY <1>6 DEF Entering
  <2> QED
    BY <1>3, <1>6, <1>7, <2>1 DEF Typed
<1>9. PICK q : q = PlacesOf(st2, ca2, ha2, Len(b.pdl))
  OBVIOUS
<1>10. Laid(q, n, st2, ca2, ha2, Len(b.pdl))
  BY <1>2, <1>6, <1>7, <1>9, PlacesAre, ZenonT(30)
<1>11. /\ q[n] = Place(f) /\ p[n] = Place(st[n]) /\ \A i \in 1 .. n - 1 : q[i] = p[i]
       /\ q[n + 1].start = Len(b.pdl) /\ q[n + 1].next = ca2 /\ q[n + 1].handlers = ha2
  BY <1>3, <1>4, <1>6, <1>10 DEF Laid
<1>12. Start(f) = f.pdl /\ Start(st[n]) = st[n].pdl
  BY DEF Start
<1>13. /\ q[n].kind = "throw" /\ q[n].next = p[n].next /\ q[n].handlers = p[n].handlers
       /\ q[n].start = p[n].start /\ q[n].x = st[n].x /\ ~q[n].on
  <2>1. /\ q[n].kind = f.kind /\ q[n].next = f.next /\ q[n].handlers = f.handlers
        /\ q[n].start = f.pdl /\ q[n].x = f.x
    BY <1>11, <1>12, PlaceIs
  <2>2. q[n].on = (f.kind = "throw" /\ f.on)
    BY <1>11, PlaceIs
  <2>3. /\ p[n].next = st[n].next /\ p[n].handlers = st[n].handlers /\ p[n].start = st[n].pdl
    BY <1>11, <1>12, PlaceIs
  <2> QED
    BY <2>1, <2>2, <2>3
<1>14. Handed(p, q, n)
  BY <1>13 DEF Handed
<1>15. Lists(p, h) /\ Floor(p, h)
  <2>1. h \in 1 .. n + 1
    BY <1>3, <1>5
  <2> QED
    BY <1>2, <2>1 DEF Sensible, Control, Sound
<1>16. q[n].x \in Elems(ca2)
  <2>1. Lists(p, n + 1)
    BY <1>2, <1>4 DEF Sensible, Control, Sound
  <2>2. st[n].x \in Elems(p[n + 1].next)
    BY <1>2, <1>3 DEF Thrown
  <2>3. st[n].x = Head(p[n + 1].next) \/ st[n].x \in Elems(p[Head(p[n + 1].next)].next)
    BY <2>1, <2>2 DEF Lists
  <2> QED
    BY <1>3, <1>5, <1>13, <2>3
<1>17. \E c \in Elems(q[n].next) : ca2 = q[c].next /\ ha2 = q[c].handlers
  <2>1. h \in Elems(p[n].next)
    <3>1. CASE ca = p[n].next
      BY <1>5, <3>1
    <3>2. CASE \E c \in Elems(p[n].next) : ca = p[c].next
      BY <1>2, <1>5, <3>2 DEF Thrown
    <3> QED
      BY <1>2, <3>1, <3>2 DEF Thrown
  <2> QED
    BY <1>5, <1>11, <1>13, <2>1, ZenonT(30)
<1>18. q[Head(ca2)].start <= Len(b.pdl)
  <2>1. PICK g : g = Head(ca2)
    OBVIOUS
  <2>2. g \in Elems(ca2)
    BY <1>7, <1>16, <2>1, ElemsHead
  <2>3. g \in 1 .. h - 1
    <3>1. g \in Elems(p[h].next)
      BY <1>5, <2>2
    <3> QED
      BY <1>15, <3>1, ListsBelow
  <2>4. g \in 1 .. n - 1 /\ h \in g .. h
    <3>1. PICK k \in Nat : k = n - 1 /\ h \in 1 .. k /\ n - 1 = k
      BY <1>3, <1>5
    <3>2. g \in Nat /\ h \in Nat /\ g >= 1 /\ g <= h /\ h <= k
      BY <2>3, <3>1
    <3> QED
      BY <3>1, <3>2
  <2>5. p[g].start <= p[h].start
    BY <1>5, <1>15, <2>2, <2>4 DEF Floor
  <2> QED
    BY <1>5, <1>11, <2>1, <2>4, <2>5
<1>19. Chain(q, n)
  BY <1>11, <1>13, <1>16, <1>17, <1>18 DEF Chain, Keeps, Unbinds, Throws
<1>20. Stays(p, q, n + 1)
  <2>1. n + 1 - 1 = n /\ \A i \in 1 .. n : i \in 1 .. n - 1 \/ i = n
    BY <1>3
  <2>2. p[n].kind \notin {"read", "unbind"}
    BY <1>11, PlaceIs
  <2>3. \A i \in 1 .. n : p[i].kind \in {"read", "unbind"} => q[i].kind \in {"read", "unbind"}
    BY <1>11, <2>1, <2>2
  <2> QED
    BY <2>1, <2>3 DEF Stays
<1>21. n + 1 \in Nat /\ n + 1 <= n + 1
  BY <1>3
<1>22. Right(q, n + 1, Current(b))
  <2>1. PICK j : j = n + 1 /\ n \in 1 .. j - 1 /\ j \in Nat /\ j <= j
    BY <1>3
  <2>2. Alive(q, j, Current(b))
    BY <1>2, <1>20, <2>1, AliveUp DEF Right
  <2> QED
    BY <1>13, <2>1, <2>2, RightUnclear
<1>23. Held(q, b, n + 1, Len(b.pdl))
  BY <1>2, <1>20, <1>21, UndoesSelf, HeldUp
<1>24. Back(q, n, b, n + 1)
  BY <1>3, <1>11, <1>22, <1>23, BackAt
<1>25. Step(st, b, tx, p, n, st2, b, tx, q, n, n)
  <2>1. /\ n <= n + 1 /\ n <= n + 2 /\ \A i : i \in n .. n => i = n
        /\ \A i : i \in n + 1 .. n + 1 => i = n + 1
    BY <1>3
  <2>2. \A l \in n + 1 .. n + 1 : \E i \in n .. n + 1 : q[i].start <= p[l].start
    <3>1. n + 1 \in n .. n + 1 /\ q[n + 1].start <= p[n + 1].start
      BY <1>2, <1>3, <1>11
    <3> QED
      BY <2>1, <3>1
  <2>3. Reading(q, n, b, st2, tx, n)
    BY <1>6 DEF Reading
  <2> QED
    BY <1>4, <1>6, <1>14, <1>19, <1>24, <2>1, <2>2, <2>3, UndoesSelf DEF Step
<1> QED
  BY <1>1, <1>6, <1>8, <1>9, <1>25, StepKept

(* The bindings made since a catch are undone on the way past it.          *)
LEMMA UnwindKeeps ==
  ASSUME NEW st, NEW ca, NEW ha, NEW b, NEW tx, Good(st, ca, ha, b, tx), NEW n, n = Len(st),
         st[n].kind = "throw", NEW h, h = Head(ca),
         NEW f \in FrameT, f.kind = "throw", f.tag # "top", f.on, f.pdl = st[n].pdl,
         f.next = st[n].next, f.handlers = st[n].handlers, f.x = st[n].x,
         NEW g \in FrameT, g.kind = "unbind", g.tag # "top", g.next = ca, g.handlers = ha,
         g.x = st[h].pdl, NEW s, s = Append(Front(st), f), NEW st2, st2 = Append(s, g)
  PROVE  Good(st2, ca, ha, b, tx)
<1>1. PICK p : p = PlacesOf(st, ca, ha, Len(b.pdl))
  OBVIOUS
<1>2. /\ Laid(p, n, st, ca, ha, Len(b.pdl)) /\ Len(b.pdl) \in Nat
      /\ Typed(st, ca, ha, b, tx) /\ Sensible(p, n, b, st, tx)
      /\ Right(p, n + 1, Current(b)) /\ Held(p, b, n + 1, Len(b.pdl))
      /\ Thrown(p, n, st, ca, ha, b, h)
  BY <1>1, GoodIs, ThrowIs
<1>3. /\ n \in Nat /\ n >= 1 /\ Stack(st) /\ tx \in Texts /\ BindingsTyped(b) /\ Counted(b)
      /\ ca \in Seq(Nat) /\ ha \in Seq(Nat) /\ p \in [1 .. n + 1 -> Position]
      /\ p[n + 1].start = Len(b.pdl) /\ p[n + 1].next = ca /\ p[n + 1].handlers = ha
      /\ \A i \in 1 .. n : p[i] = Place(st[i]) /\ st[i] \in FrameT
  BY <1>2 DEF Laid, Typed
<1>4. PICK k \in Nat : k = n + 1 /\ k - 1 = n
  BY <1>3
<1>5. /\ n \in 1 .. n /\ n \in 1 .. k /\ k \in 1 .. k /\ \A i \in 1 .. n - 1 : i \in 1 .. n
      /\ k + 1 \in 1 .. k + 1 /\ \A i \in 1 .. n : i \in 1 .. k
      /\ \A i \in n .. k : i = n \/ i = k
      /\ \A i \in 1 .. k : i \in 1 .. n - 1 \/ i = n \/ i = k
  BY <1>3, <1>4
<1>6. PICK depth \in Nat : depth = p[h].start /\ depth = st[h].pdl /\ depth <= Len(b.pdl)
  BY <1>2 DEF Thrown
<1>7. n >= 3 /\ h \in 1 .. n - 1 /\ h \in Elems(ca) /\ Firm(p, n, h)
  BY <1>2 DEF Thrown
<1>8. Stack(s) /\ Len(s) = n /\ s[n] = f /\ \A i \in 1 .. n - 1 : s[i] = st[i]
  <2>1. Swapped(st, s, f, n)
    <3>1. st \in Seq(FrameT) /\ Len(st) >= 1
      BY <1>3 DEF Stack
    <3> QED
      BY <3>1, SwappedIs
  <2>2. Marked(s, n)
    <3>1. n # 1 /\ n # 2
      BY <1>7
    <3> QED
      BY <2>1, <3>1 DEF Marked, Swapped
  <2>3. n >= 2
    BY <1>3, <1>7
  <2>4. Stack(s)
    BY <1>3, <2>1, <2>2, <2>3, StackReplace
  <2> QED
    BY <2>1, <2>4 DEF Swapped
<1>9. Len(st2) = k /\ st2[k] = g /\ \A i \in 1 .. n : st2[i] = s[i]
  <2>1. s \in Seq(FrameT)
    BY <1>8 DEF Stack
  <2> QED
    BY <1>4, <1>8, <2>1, AppendIs
<1>10. Stack(st2)
  <2>1. Marked(st2, k)
    <3>1. k # 1 /\ k # 2
      BY <1>4, <1>7
    <3> QED
      BY <1>9, <3>1 DEF Marked
  <2>2. Marked(st2, n + 1) /\ s[n].kind # "entry"
    BY <1>4, <1>8, <2>1
  <2> QED
    BY <1>8, <2>2, StackPush
<1>11. st2[n] = f /\ \A i \in 1 .. n - 1 : st2[i] = st[i]
  BY <1>5, <1>8, <1>9
<1>12. Typed(st2, ca, ha, b, tx)
  <2>1. Entering(st2, b)
    BY <1>9 DEF Entering
  <2> QED
    BY <1>3, <1>10, <2>1 DEF Typed
<1>13. PICK q : q = PlacesOf(st2, ca, ha, Len(b.pdl))
  OBVIOUS
<1>14. Laid(q, k, st2, ca, ha, Len(b.pdl))
  BY <1>2, <1>3, <1>9, <1>10, <1>13, PlacesAre
<1>15. /\ q[n] = Place(f) /\ q[k] = Place(g) /\ p[n] = Place(st[n])
       /\ q[k + 1].start = Len(b.pdl) /\ q[k + 1].next = ca /\ q[k + 1].handlers = ha
  <2>1. \A i \in 1 .. k : q[i] = Place(st2[i])
    BY <1>14 DEF Laid
  <2>2. q[k + 1].start = Len(b.pdl) /\ q[k + 1].next = ca /\ q[k + 1].handlers = ha
    BY <1>14 DEF Laid
  <2>3. q[n] = Place(st2[n]) /\ q[k] = Place(st2[k]) /\ p[n] = Place(st[n])
    BY <1>3, <1>5, <2>1
  <2> QED
    BY <1>9, <1>11, <2>2, <2>3
<1>16. \A i \in 1 .. n - 1 : q[i] = p[i]
  <2>1. ASSUME NEW i \in 1 .. n - 1 PROVE q[i] = p[i]
    <3>1. st2[i] = st[i] /\ i \in 1 .. k /\ i \in 1 .. n
      BY <1>5, <1>11
    <3>2. q[i] = Place(st2[i]) /\ p[i] = Place(st[i])
      BY <1>3, <1>14, <3>1 DEF Laid
    <3> QED
      BY <3>1, <3>2
  <2> QED
    BY <2>1
<1>17. Start(f) = f.pdl /\ Start(st[n]) = st[n].pdl /\ Start(g) = g.x
  BY DEF Start
<1>18. /\ q[n].kind = "throw" /\ q[n].next = p[n].next /\ q[n].handlers = p[n].handlers
       /\ q[n].start = p[n].start /\ q[n].x = st[n].x
  <2>1. /\ q[n].kind = f.kind /\ q[n].next = f.next /\ q[n].handlers = f.handlers
        /\ q[n].start = f.pdl /\ q[n].x = f.x
    BY <1>15, <1>17, PlaceIs
  <2>2. /\ p[n].next = st[n].next /\ p[n].handlers = st[n].handlers /\ p[n].start = st[n].pdl
    BY <1>15, <1>17, PlaceIs
  <2> QED
    BY <2>1, <2>2
<1>19. /\ q[k].kind = "unbind" /\ q[k].next = ca /\ q[k].handlers = ha /\ q[k].start = depth
  BY <1>6, <1>15, <1>17, PlaceIs
<1>20. Handed(p, q, n)
  BY <1>18 DEF Handed
<1>21. q[h] = p[h]
  BY <1>7, <1>16
<1>22. Chain(q, n)
  <2>1. \/ ca = p[n].next /\ ha = p[n].handlers
        \/ \E c \in Elems(p[n].next) : ca = q[c].next /\ ha = q[c].handlers
    <3>1. \A c \in Elems(p[n].next) : q[c] = p[c]
      BY <1>2, <1>16 DEF Thrown
    <3> QED
      BY <1>2, <3>1, SMTT(30) DEF Thrown
  <2>2. q[n].x \in Elems(ca)
    BY <1>2, <1>18 DEF Thrown
  <2>3. q[n + 1] = q[k]
    BY <1>4
  <2>4. q[Head(ca)].start = depth /\ depth <= depth
    <3>1. q[h].start = depth
      BY <1>6, <1>21
    <3> QED
      BY <3>1
  <2>5. q[n + 1].next = ca /\ q[n + 1].handlers = ha /\ q[n + 1].start = depth
    BY <1>19, <2>3
  <2>7. /\ q[n].x \in Elems(q[n + 1].next)
        /\ \/ q[n + 1].next = q[n].next /\ q[n + 1].handlers = q[n].handlers
           \/ \E c \in Elems(q[n].next) :
                q[n + 1].next = q[c].next /\ q[n + 1].handlers = q[c].handlers
    BY <1>18, <2>1, <2>2, <2>5
  <2>8. q[Head(q[n + 1].next)].start = depth
    BY <2>4, <2>5
  <2>9. Throws(q, n)
    BY <2>4, <2>5, <2>7, <2>8 DEF Throws
  <2> QED
    BY <1>18, <2>9 DEF Chain, Keeps, Unbinds
<1>23. Chain(q, k)
  BY <1>6, <1>15, <1>19 DEF Chain, Keeps, Unbinds, Throws
<1>24. Stays(p, q, h) /\ Stays(p, q, k)
  <2>1. p[n].kind \notin {"read", "unbind"}
    BY <1>15, PlaceIs
  <2>2. \A i \in 1 .. k - 1 : i \in 1 .. n - 1 \/ i = n
    BY <1>4, <1>5
  <2>3. \A i \in 1 .. h - 1 : i \in 1 .. n - 1
    BY <1>3, <1>7, SMTT(30)
  <2> QED
    BY <1>16, <2>1, <2>2, <2>3 DEF Stays
<1>25. h \in Nat /\ h <= k /\ k <= k + 1 /\ k + 1 \in Nat /\ n \in 1 .. k - 1 /\ n \in 1 .. k + 1 - 1
  BY <1>3, <1>4, <1>7
<1>26. Back(q, k, b, k)
  <2>1. h \in 1 .. n + 1
    BY <1>3, <1>7
  <2>2. Back(p, n, b, h)
    BY <1>2, <2>1 DEF Sensible
  <2>3. PICK r : Restores(b, depth, r) /\ Right(p, h, r) /\ Held(p, b, h, depth)
    BY <1>6, <1>7, <2>2 DEF Back
  <2>4. Alive(q, k, r)
    BY <1>24, <1>25, <2>3, AliveUp DEF Right
  <2>5. Right(q, k, r)
    BY <1>18, <1>25, <2>4, RightUnclear
  <2>6. Held(q, b, k, depth)
    BY <1>24, <1>25, <2>3, UndoesSelf, HeldUp
  <2> QED
    BY <1>19, <2>3, <2>5, <2>6 DEF Back
<1>27. Back(q, k, b, k + 1)
  <2>1. Right(p, k, Current(b)) /\ Held(p, b, k, Len(b.pdl))
    BY <1>2, <1>4
  <2>2. Stays(p, q, k)
    BY <1>24
  <2>3. Alive(q, k + 1, Current(b))
    BY <1>25, <2>1, <2>2, AliveUp DEF Right
  <2>4. Right(q, k + 1, Current(b))
    <3>1. PICK j : j = k + 1 /\ n \in 1 .. j - 1
      BY <1>25
    <3> QED
      BY <1>18, <2>3, <3>1, RightUnclear
  <2>5. Held(q, b, k + 1, Len(b.pdl))
    BY <1>2, <1>25, <2>1, <2>2, UndoesSelf, HeldUp
  <2> QED
    BY <1>3, <1>15, <2>4, <2>5, BackAt
<1>28. Step(st, b, tx, p, n, st2, b, tx, q, k, n)
  <2>1. /\ n \in 1 .. n + 1 /\ n <= k + 1 /\ k <= n + 2 /\ \A i \in n + 1 .. n + 1 : i = k
        /\ \A i \in n + 1 .. k + 1 : i = k \/ i = k + 1
    <3>1. \A i \in k .. k + 1 : i = k \/ i = k + 1
      BY <1>4
    <3>2. n \in 1 .. n + 1 /\ n <= k + 1 /\ k <= n + 2 /\ \A i \in k .. k : i = k
      BY <1>3, <1>4
    <3> QED
      BY <1>4, <3>1, <3>2
  <2>2. \A l \in n + 1 .. n + 1 : \E i \in n .. k + 1 : q[i].start <= p[l].start
    <3>1. k + 1 \in n .. k + 1 /\ q[k + 1].start <= p[n + 1].start
      BY <1>2, <1>3, <1>4, <1>15
    <3> QED
      BY <1>4, <2>1, <3>1
  <2>3. Reading(q, k, b, st2, tx, n) /\ Reading(q, k, b, st2, tx, k)
    BY <1>9, <1>11 DEF Reading
  <2>4. (\A i \in n .. k : Chain(q, i)) /\ \A i \in n .. k : Reading(q, k, b, st2, tx, i)
    BY <1>5, <1>22, <1>23, <2>3
  <2>5. \A j \in n + 1 .. k + 1 : Back(q, k, b, j)
    BY <1>26, <1>27, <2>1
  <2> QED
    BY <1>11, <1>20, <2>1, <2>2, <2>4, <2>5, UndoesSelf DEF Step
<1> QED
  BY <1>1, <1>9, <1>12, <1>13, <1>28, StepKept, ZenonT(30)

(* Steps that change nothing of the places.                                *)
Unmoved(st, st2, n) ==
  n = Len(st) /\ n \in Nat /\ Len(st2) = n /\ \A i \in 1 .. n : Place(st2[i]) = Place(st[i])

LEMMA UnmovedPlaces ==
  ASSUME NEW st, NEW st2, NEW n, Unmoved(st, st2, n), NEW ca, NEW ha, NEW depth
  PROVE  PlacesOf(st2, ca, ha, depth) = PlacesOf(st, ca, ha, depth)
<1>1. /\ n = Len(st) /\ n \in Nat /\ Len(st2) = n
      /\ \A i \in 1 .. n + 1 : i # n + 1 => i \in 1 .. n
  BY DEF Unmoved
<1>2. \A i \in 1 .. n + 1 : i # n + 1 => Place(st2[i]) = Place(st[i])
  BY <1>1 DEF Unmoved
<1> QED
  BY <1>1, <1>2 DEF PlacesOf

LEMMA ExceptIs ==
  ASSUME NEW S, NEW s \in Seq(S), NEW m \in 1 .. Len(s), NEW g \in S, NEW t, t = [s EXCEPT ![m] = g]
  PROVE  /\ t \in Seq(S) /\ Len(t) = Len(s) /\ t[m] = g
         /\ \A i \in 1 .. Len(s) : i # m => t[i] = s[i]
OBVIOUS

LEMMA RetagKeeps ==
  ASSUME NEW st, NEW ca, NEW ha, NEW b, NEW tx, Good(st, ca, ha, b, tx), NEW n, n = Len(st),
         st[n].kind \in {"edit", "read"}, NEW tag \in Tags, tag # "top", NEW st2,
         st2 = [st EXCEPT ![n].tag = tag]
  PROVE  Good(st2, ca, ha, b, tx)
<1>1. PICK p : p = PlacesOf(st, ca, ha, Len(b.pdl))
  OBVIOUS
<1>2. /\ Laid(p, n, st, ca, ha, Len(b.pdl)) /\ Typed(st, ca, ha, b, tx)
      /\ Sensible(p, n, b, st, tx)
  BY <1>1, GoodIs
<1>3. /\ n \in Nat /\ n >= 1 /\ Stack(st) /\ tx \in Texts /\ BindingsTyped(b) /\ Counted(b)
      /\ ca \in Seq(Nat) /\ ha \in Seq(Nat) /\ st \in Seq(FrameT)
      /\ \A i \in 1 .. n : st[i] \in FrameT
  BY <1>2 DEF Laid, Typed, Stack
<1>4. PICK f, g : f = st[n] /\ f \in FrameT /\ n \in 1 .. n /\ g = [f EXCEPT !.tag = tag]
  BY <1>3
<1>5. /\ g \in FrameT /\ g.kind = f.kind /\ g.tag = tag /\ g.pdl = f.pdl /\ g.next = f.next
      /\ g.handlers = f.handlers /\ g.x = f.x /\ g.on = f.on
  BY <1>4 DEF FrameT
<1>6. DOMAIN st = 1 .. n
  BY <1>3
<1>7. st2 = [st EXCEPT ![n] = g]
  BY <1>4
<1>8. st2 \in Seq(FrameT) /\ Len(st2) = n /\ st2[n] = g
  BY <1>3, <1>4, <1>5, <1>7
<1>9. \A i \in 1 .. n : i # n => st2[i] = st[i]
  BY <1>6, <1>7
<1>10. \A i \in 1 .. n : /\ st2[i].kind = st[i].kind /\ st2[i].pdl = st[i].pdl
                         /\ st2[i].next = st[i].next /\ st2[i].handlers = st[i].handlers
                         /\ st2[i].x = st[i].x /\ st2[i].on = st[i].on
  BY <1>4, <1>5, <1>8, <1>9
<1>11. Unmoved(st, st2, n)
  <2>1. \A i \in 1 .. n : Start(st2[i]) = Start(st[i])
    BY <1>10 DEF Start
  <2> QED
    BY <1>3, <1>8, <1>10, <2>1, ZenonT(30) DEF Unmoved, Place
<1>12. Stack(st2)
  <2>1. n # 1 /\ n # 2
    <3>1. Marked(st, n)
      BY <1>3, <1>4 DEF Stack
    <3> QED
      BY <1>4, <3>1 DEF Marked
  <2>2. ASSUME NEW i \in 1 .. n PROVE Marked(st2, i)
    <3>1. Marked(st, i)
      BY <1>3 DEF Stack
    <3>2. i >= 2 => i - 1 \in 1 .. n
      OBVIOUS
    <3>3. i < n => i + 1 \in 1 .. n
      BY <1>3
    <3>4. CASE i = n
      BY <1>4, <1>5, <1>8, <2>1, <3>4 DEF Marked
    <3>5. CASE i # n
      <4>1. st2[i] = st[i]
        BY <1>9, <3>5
      <4>2. i >= 2 => st2[i - 1].kind = st[i - 1].kind
        BY <1>10, <3>2
      <4>3. i < n => st2[i + 1].kind = st[i + 1].kind
        BY <1>10, <3>3
      <4> QED
        BY <1>8, <3>1, <4>1, <4>2, <4>3 DEF Marked
    <3> QED
      BY <3>4, <3>5
  <2> QED
    BY <1>3, <1>8, <2>2 DEF Stack
<1>13. Typed(st2, ca, ha, b, tx)
  <2>1. Entering(st2, b)
    BY <1>4, <1>5, <1>8 DEF Entering
  <2> QED
    BY <1>3, <1>12, <2>1 DEF Typed
<1>14. Sensible(p, n, b, st2, tx)
  <2>1. \A i \in 1 .. n : Reading(p, n, b, st, tx, i)
    BY <1>2 DEF Sensible
  <2>2. \A i \in 1 .. n : Reading(p, n, b, st2, tx, i)
    BY <1>10, <2>1 DEF Reading
  <2> QED
    BY <1>2, <2>2 DEF Sensible
<1>15. p = PlacesOf(st2, ca, ha, Len(b.pdl))
  BY <1>1, <1>11, UnmovedPlaces
<1> QED
  BY <1>8, <1>13, <1>14, <1>15 DEF Good

(* A command in a minibuffer inserts something.                            *)
LEMMA TypeKeeps ==
  ASSUME NEW st, NEW ca, NEW ha, NEW b, NEW tx, Good(st, ca, ha, b, tx), NEW n, n = Len(st),
         n > 2, st[n].kind = "loop", NEW f, f = st[n - 2], f.kind = "read", NEW g \in FrameT,
         g.kind = "read", g.tag = f.tag, g.pdl = f.pdl, g.next = f.next,
         g.handlers = f.handlers, g.x = f.x, g.on = TRUE,
         NEW st2, st2 = [st EXCEPT ![n - 2] = g], NEW tx2, tx2 = [tx EXCEPT ![b.shown] = TRUE]
  PROVE  Good(st2, ca, ha, b, tx2)
<1>1. PICK p : p = PlacesOf(st, ca, ha, Len(b.pdl))
  OBVIOUS
<1>2. /\ Laid(p, n, st, ca, ha, Len(b.pdl)) /\ Typed(st, ca, ha, b, tx)
      /\ Sensible(p, n, b, st, tx)
  BY <1>1, GoodIs
<1>3. /\ n \in Nat /\ n >= 1 /\ Stack(st) /\ tx \in Texts /\ BindingsTyped(b) /\ Counted(b)
      /\ ca \in Seq(Nat) /\ ha \in Seq(Nat) /\ st \in Seq(FrameT)
      /\ \A i \in 1 .. n : st[i] \in FrameT /\ p[i] = Place(st[i])
      /\ p \in [1 .. n + 1 -> Position] /\ p[n + 1].start = Len(b.pdl)
  BY <1>2 DEF Laid, Typed, Stack
<1>4. PICK m \in Nat : m + 2 = n /\ m = n - 2 /\ m >= 1
  <2>1. n - 2 \in Nat /\ n - 2 + 2 = n /\ n - 2 >= 1
    BY <1>3
  <2> QED
    BY <2>1
<1>5. m \in 1 .. n /\ m + 1 \in 1 .. n /\ n \in 1 .. n /\ m + 1 + 1 = n /\ n - 1 = m + 1
      /\ m + 1 \in 1 .. n + 1 /\ m \in 1 .. n + 1
  BY <1>4
<1>6. f = st[m] /\ f \in FrameT /\ f.kind = "read"
  BY <1>3, <1>4, <1>5
<1>7. /\ g.kind = f.kind /\ g.tag = f.tag /\ g.pdl = f.pdl /\ g.next = f.next
      /\ g.handlers = f.handlers /\ g.x = f.x /\ g.on = TRUE
  BY <1>6
<1>8. DOMAIN st = 1 .. n
  BY <1>3
<1>9. st2 = [st EXCEPT ![m] = g]
  BY <1>4
<1>10. /\ st2 \in Seq(FrameT) /\ Len(st2) = n /\ st2[m] = g
       /\ \A i \in 1 .. n : i # m => st2[i] = st[i]
  <2>1. m \in 1 .. Len(st) /\ g \in FrameT /\ st \in Seq(FrameT)
    BY <1>3, <1>5
  <2>2. /\ st2 \in Seq(FrameT) /\ Len(st2) = Len(st) /\ st2[m] = g
        /\ \A i \in 1 .. Len(st) : i # m => st2[i] = st[i]
    BY <1>9, <2>1, ExceptIs
  <2> QED
    BY <2>2
<1>11. \A i \in 1 .. n : i # m => st2[i] = st[i]
  BY <1>10
<1>12. \A i \in 1 .. n : /\ st2[i].kind = st[i].kind /\ st2[i].pdl = st[i].pdl
                         /\ st2[i].next = st[i].next /\ st2[i].handlers = st[i].handlers
                         /\ st2[i].x = st[i].x /\ st2[i].tag = st[i].tag
                         /\ st[i].kind # "read" => st2[i].on = st[i].on
  <2>1. ASSUME NEW i \in 1 .. n, i = m
        PROVE  /\ st2[i].kind = st[i].kind /\ st2[i].pdl = st[i].pdl
               /\ st2[i].next = st[i].next /\ st2[i].handlers = st[i].handlers
               /\ st2[i].x = st[i].x /\ st2[i].tag = st[i].tag /\ st[i].kind = "read"
    <3>1. st2[i] = g /\ st[i] = f
      BY <1>6, <1>10, <2>1
    <3> QED
      BY <1>6, <1>7, <3>1
  <2> QED
    BY <1>11, <2>1
<1>13. Unmoved(st, st2, n)
  <2>1. ASSUME NEW i \in 1 .. n PROVE Place(st2[i]) = Place(st[i])
    <3>1. Start(st2[i]) = Start(st[i])
      BY <1>12 DEF Start
    <3>2. (st2[i].kind = "throw" /\ st2[i].on) = (st[i].kind = "throw" /\ st[i].on)
      <4>1. CASE st[i].kind = "read"
        BY <1>12, <4>1
      <4>2. CASE st[i].kind # "read"
        BY <1>12, <4>2
      <4> QED
        BY <4>1, <4>2
    <3> QED
      BY <1>12, <3>1, <3>2 DEF Place
  <2> QED
    BY <1>3, <1>10, <2>1 DEF Unmoved
<1>14. Stack(st2)
  <2>1. ASSUME NEW i \in 1 .. n PROVE Marked(st2, i)
    <3>1. Marked(st, i)
      BY <1>3 DEF Stack
    <3>2. i >= 2 => i - 1 \in 1 .. n
      OBVIOUS
    <3>3. i < n => i + 1 \in 1 .. n
      BY <1>3
    <3>4. i >= 2 => st2[i - 1].kind = st[i - 1].kind
      BY <1>12, <3>2
    <3>5. i < n => st2[i + 1].kind = st[i + 1].kind
      BY <1>12, <3>3
    <3>6. /\ st2[i].kind = st[i].kind /\ st2[i].pdl = st[i].pdl /\ st2[i].tag = st[i].tag
          /\ st[i].kind # "read" => st2[i].on = st[i].on
      BY <1>12
    <3> QED
      BY <1>10, <3>1, <3>4, <3>5, <3>6 DEF Marked
  <2> QED
    BY <1>3, <1>10, <2>1 DEF Stack
<1>15. Typed(st2, ca, ha, b, tx2)
  <2>1. Entering(st2, b)
    <3>1. st2[n].kind = st[n].kind
      BY <1>5, <1>12
    <3> QED
      BY <1>10, <3>1 DEF Entering
  <2>2. tx2 \in Texts
    BY <1>3 DEF Texts
  <2> QED
    BY <1>3, <1>14, <2>1, <2>2 DEF Typed
<1>16. /\ \A i \in 1 .. n : Chain(p, i) /\ Reading(p, n, b, st, tx, i)
       /\ \A i \in 1 .. n : p[i].kind = st[i].kind
  BY <1>2, <1>3, PlaceIs DEF Sensible, Control
<1>17. st[m + 1].kind = "catch"
  <2>1. Marked(st, n)
    BY <1>3, <1>5 DEF Stack
  <2> QED
    BY <1>5, <2>1 DEF Marked
<1>18. PICK s \in Nat : s = p[m].start
  BY <1>3, <1>5, PlaceTypes
<1>19. p[m + 1].start = s + 2 /\ p[n].start = s + 2 /\ Len(b.pdl) = s + 2
  <2>1. p[m + 1].start = s + 2
    <3>1. Keeps(p, m) /\ p[m].kind = "read"
      BY <1>5, <1>6, <1>16 DEF Chain
    <3> QED
      BY <1>18, <3>1 DEF Keeps, Own
  <2>2. p[n].start = s + 2
    <3>1. Keeps(p, m + 1) /\ p[m + 1].kind = "catch"
      BY <1>5, <1>16, <1>17 DEF Chain
    <3>2. p[m + 1 + 1].start = p[m + 1].start + 0
      BY <3>1 DEF Keeps, Own
    <3> QED
      BY <1>5, <1>18, <2>1, <3>2
  <2>3. p[n + 1].start = s + 2
    <3>1. Keeps(p, n) /\ p[n].kind = "loop"
      BY <1>5, <1>16 DEF Chain
    <3>2. p[n + 1].start = p[n].start + 0
      BY <3>1 DEF Keeps, Own
    <3> QED
      BY <1>18, <2>2, <3>2
  <2> QED
    BY <1>3, <2>1, <2>2, <2>3
<1>20. Firm(p, n, m + 1)
  <2>1. \A l \in m + 1 .. n + 1 : l = m + 1 \/ l = n \/ l = n + 1
    BY <1>4
  <2>2. s + 2 <= s + 2
    BY <1>18
  <2> QED
    BY <1>3, <1>19, <2>1, <2>2 DEF Firm
<1>21. /\ b.pdl[s + 1].kind = "windows" /\ b.pdl[s + 2].kind = "minibuf"
       /\ Tally(b.pdl, s, "minibuf") = f.x
  <2>1. Reading(p, n, b, st, tx, m) /\ st[m].kind = "read" /\ st[m].x = f.x
    BY <1>5, <1>6, <1>16
  <2>2. p[m].start = s
    BY <1>18
  <2> QED
    BY <1>20, <2>1, <2>2, Zenon DEF Reading
<1>22. Tally(b.pdl, s + 1, "minibuf") = f.x /\ Tally(b.pdl, s + 2, "minibuf") = f.x + 1
  <2>1. PICK u : u = b.pdl /\ u[s + 1].kind = "windows" /\ u[s + 2].kind = "minibuf"
    BY <1>21
  <2>2. Tally(u, s + 1, "minibuf") = Tally(u, s, "minibuf")
    <3>1. \A kind : u[s + 1].kind # kind => Tally(u, s + 1, kind) = Tally(u, s, kind)
      BY <1>18, TallyNext, SMTT(30)
    <3>2. u[s + 1].kind # "minibuf"
      BY <2>1
    <3> QED
      BY <3>1, <3>2
  <2>3. Tally(u, s + 2, "minibuf") = Tally(u, s + 1, "minibuf") + 1
    <3>1. PICK w \in Nat : w = s + 1 /\ w + 1 = s + 2
      BY <1>18
    <3>2. \A kind : u[w + 1].kind = kind => Tally(u, w + 1, kind) = Tally(u, w, kind) + 1
      BY TallyNext
    <3> QED
      BY <2>1, <3>1, <3>2
  <2> QED
    BY <1>21, <2>1, <2>2, <2>3
<1>23. b.shown = f.x /\ f.x \in 0 .. MaxMinibuf - 1
  <2>1. s + 2 \in 1 .. Len(b.pdl) /\ s + 2 - 1 = s + 1
    <3>1. PICK l : l = Len(b.pdl) /\ l = s + 2
      BY <1>19
    <3>2. s + 2 \in 1 .. s + 2 /\ s + 2 - 1 = s + 1
      BY <1>18
    <3> QED
      BY <3>1, <3>2
  <2>2. Sees(b.pdl, "windows", b.shown, s + 2, f.x)
    <3>1. b.pdl[s + 2].kind = "minibuf" /\ Tally(b.pdl, s + 1, "minibuf") = f.x
      BY <1>21, <1>22
    <3>2. Counted(b)
      BY <1>3
    <3>3. PICK k \in 1 .. Len(b.pdl) : k = s + 2 /\ k - 1 = s + 1
      BY <2>1
    <3>4. Sees(b.pdl, "windows", b.shown, k, Tally(b.pdl, k - 1, "minibuf"))
      <4>1. b.pdl[k].kind = "minibuf"
        BY <3>1, <3>3
      <4> QED
        BY <3>2, <4>1, ZenonT(30) DEF Counted
    <3> QED
      BY <3>1, <3>3, <3>4, ZenonT(30)
  <2>3. b.shown = f.x
    <3>1. ~ \E i \in s + 2 + 1 .. Len(b.pdl) : TRUE
      BY <1>18, <1>19, SMTT(30)
    <3>2. \A i : i \notin s + 2 + 1 .. Len(b.pdl)
      BY <3>1
    <3> QED
      BY <2>2, <3>2, Zenon DEF Sees
  <2>4. b.reads = f.x + 1 /\ b.reads \in 0 .. MaxMinibuf
    BY <1>3, <1>19, <1>22 DEF Counted, BindingsTyped
  <2>5. f.x \in Nat
    BY <1>6 DEF FrameT
  <2> QED
    BY <2>3, <2>4, <2>5, UnwindingAssumption
<1>24. tx2[f.x] = TRUE /\ \A l \in 0 .. MaxMinibuf - 1 : l # f.x => tx2[l] = tx[l]
  BY <1>3, <1>23 DEF Texts
<1>25. ASSUME NEW i \in 1 .. n PROVE Reading(p, n, b, st2, tx2, i)
  <2>1. Reading(p, n, b, st, tx, i)
    BY <1>16
  <2>2. CASE i = m
    <3>1. st2[i] = g /\ p[i].start = s /\ g.x = f.x /\ g.on = TRUE
      BY <1>7, <1>10, <1>18, <2>2
    <3>2. tx2[g.x] = g.on
      BY <1>24, <3>1
    <3> QED
      BY <1>21, <3>1, <3>2 DEF Reading
  <2>3. CASE i # m /\ st[i].kind # "read"
    BY <1>11, <2>1, <2>3 DEF Reading
  <2>4. CASE i # m /\ st[i].kind = "read"
    <3> SUFFICES ASSUME Firm(p, n, i + 1) PROVE Reading(p, n, b, st2, tx2, i)
      BY <1>11, <2>4 DEF Reading
    <3>1. i # n /\ i # m + 1
      BY <1>17, <2>4
    <3>2. i \in Nat /\ i + 1 \in 1 .. n + 1 /\ m \in i + 1 .. n + 1 /\ i \in 1 .. n + 1
      BY <1>4, <2>4, <3>1
    <3>3. PICK r \in Nat : r = p[i].start
      BY <1>3, <3>2, PlaceTypes
    <3>4. p[i + 1].start = r + 2
      <4>1. Keeps(p, i) /\ p[i].kind = "read"
        BY <1>16, <2>4 DEF Chain
      <4> QED
        BY <3>3, <4>1 DEF Keeps, Own
    <3>5. r + 2 <= s
      BY <1>18, <3>2, <3>4 DEF Firm
    <3>6. /\ b.pdl[r + 2].kind = "minibuf" /\ Tally(b.pdl, r, "minibuf") = st[i].x
          /\ b.pdl[r + 1].kind = "windows" /\ tx[st[i].x] = st[i].on
      BY <2>1, <2>4, <3>3 DEF Reading
    <3>7. Tally(b.pdl, r + 2, "minibuf") = Tally(b.pdl, r + 1, "minibuf") + 1
      <4>1. PICK w \in Nat : w = r + 1 /\ w + 1 = r + 2
        BY <3>3
      <4>2. PICK u : u = b.pdl
        OBVIOUS
      <4>3. \A kind : u[w + 1].kind = kind => Tally(u, w + 1, kind) = Tally(u, w, kind) + 1
        BY TallyNext
      <4> QED
        BY <3>6, <4>1, <4>2, <4>3
    <3>8. /\ Tally(b.pdl, r, "minibuf") <= Tally(b.pdl, r + 1, "minibuf")
          /\ Tally(b.pdl, r + 2, "minibuf") <= Tally(b.pdl, s, "minibuf")
      <4>1. r + 1 \in Nat /\ r + 2 \in Nat /\ r <= r + 1 /\ r + 2 <= s
        <5>1. r \in Nat
          BY <3>3
        <5> QED
          BY <3>5, <5>1
      <4> QED
        BY <1>18, <3>3, <3>5, <4>1, TallyGrows
    <3>9. PICK x0, x1, x2 : /\ x0 = Tally(b.pdl, r, "minibuf") /\ x0 \in Nat
                            /\ x1 = Tally(b.pdl, r + 1, "minibuf") /\ x1 \in Nat
                            /\ x2 = Tally(b.pdl, r + 2, "minibuf") /\ x2 \in Nat
      <4>1. r \in Nat /\ r + 1 \in Nat /\ r + 2 \in Nat
        BY <3>3, SMTT(30)
      <4>2. /\ Tally(b.pdl, r, "minibuf") \in Nat /\ Tally(b.pdl, r + 1, "minibuf") \in Nat
            /\ Tally(b.pdl, r + 2, "minibuf") \in Nat
        BY <4>1, TallyNat, ZenonT(30)
      <4> QED
        BY <4>2
    <3>10. x2 = x1 + 1 /\ x0 <= x1 /\ x2 <= f.x
      BY <1>21, <3>7, <3>8, <3>9
    <3>11. x0 \in 0 .. MaxMinibuf - 1 /\ x0 # f.x
      <4>1. PICK M \in Nat : M = MaxMinibuf
        BY UnwindingAssumption
      <4>2. PICK x \in 0 .. M - 1 : x = f.x
        BY <1>23, <4>1
      <4>3. x1 + 1 <= x /\ x0 <= x1
        BY <3>10, <4>2
      <4>4. x0 <= M - 1 /\ x0 # x
        <5>1. x \in Nat /\ x <= M - 1 /\ x0 \in Nat /\ x1 \in Nat
          BY <3>9, <4>2
        <5> QED
          BY <4>1, <4>3, <5>1
      <4> QED
        BY <3>9, <4>1, <4>2, <4>4
    <3>12. tx2[st[i].x] = st[i].on
      BY <1>24, <3>6, <3>9, <3>11
    <3>13. st2[i] = st[i]
      BY <1>11, <2>4
    <3> QED
      BY <3>3, <3>6, <3>12, <3>13 DEF Reading
  <2> QED
    BY <2>2, <2>3, <2>4
<1>26. Sensible(p, n, b, st2, tx2)
  BY <1>2, <1>25 DEF Sensible
<1>27. p = PlacesOf(st2, ca, ha, Len(b.pdl))
  BY <1>1, <1>13, UnmovedPlaces
<1> QED
  BY <1>10, <1>15, <1>26, <1>27 DEF Good


LEMMA TagsAre ==
  /\ "" \in Tags /\ "tag" \in Tags /\ "exit" \in Tags /\ "all" \in Tags /\ "error" \in Tags
  /\ "quit" \in Tags /\ "abort" \in Tags /\ "top" \in Tags /\ "killed" \in Tags
BY Zenon DEF Tags

(* A frame that leaves the registers alone.                                *)
LEMMA SameFollows ==
  ASSUME NEW f, f.kind \notin {"edit", "read", "let"}, NEW i, NEW r
  PROVE  Follows(f, i, r, r)
BY DEF Follows

LEMMA PlainSame ==
  ASSUME NEW st, NEW ca, NEW ha, NEW b, NEW tx, Good(st, ca, ha, b, tx), NEW f \in FrameT, NEW st2,
         st2 = Append(st, f), f.kind \in {"catch", "case", "loop"}, f.pdl = Len(b.pdl),
         f.next = ca, f.handlers = ha, NEW n, n = Len(st), Marked(st2, n + 1),
         st[n].kind # "entry", NEW ca2, ca2 = <<n + 1>> \o ca, NEW ha2,
         ha2 = IF f.kind = "catch" THEN ha ELSE <<n + 1>> \o ha
  PROVE  Good(st2, ca2, ha2, b, tx)
<1>1. BindingsTyped(b) /\ Counted(b)
  BY DEF Good, Typed
<1>2. Len(b.pdl) \in Nat
  <2>1. b.pdl \in Seq(Entries)
    BY <1>1 DEF BindingsTyped
  <2> QED
    BY <2>1
<1>3. Pushes(n, ca, ha, b, f, b)
  <2>1. Follows(f, n + 1, Current(b), Current(b))
    BY SameFollows
  <2>2. Start(f) = Len(b.pdl)
    BY DEF Start
  <2>3. \A d \in 0 .. Len(b.pdl) : Undoes(b, b, d)
    BY UndoesSelf
  <2> QED
    BY <1>2, <2>1, <2>2, <2>3 DEF Pushes
<1>4. Plain(n, ca, ha, b, f, ca2, ha2, b)
  <2>1. Own(f.kind) = 0
    BY DEF Own
  <2>2. Len(b.pdl) = Len(b.pdl) + Own(f.kind)
    BY <1>2, <2>1
  <2> QED
    BY <2>2 DEF Plain, Catching, Handling
<1> QED
  BY <1>1, <1>3, <1>4, PlainKept

(* A command loop begins.                                                  *)
LEMMA LoopKeeps ==
  ASSUME NEW st, NEW ca, NEW ha, NEW b, NEW tx, Good(st, ca, ha, b, tx), NEW n, n = Len(st),
         st[n].kind \in {"edit", "read"}, NEW st2,
         st2 = st \o <<CatchAt("exit", Len(b.pdl), ca, ha), LoopAt(Len(b.pdl), <<n + 1>> \o ca, ha)>>
  PROVE  Good(st2, <<n + 2, n + 1>> \o ca, <<n + 2>> \o ha, b, tx)
<1>1. Typed(st, ca, ha, b, tx)
  BY DEF Good
<1>2. /\ st \in Seq(FrameT) /\ ca \in Seq(Nat) /\ ha \in Seq(Nat) /\ Stack(st)
      /\ b.pdl \in Seq(Entries) /\ Len(st) >= 1
  BY <1>1 DEF Typed, Stack, BindingsTyped
<1>3. n \in Nat /\ n >= 1 /\ n \in 1 .. n /\ Len(b.pdl) \in Nat
  BY <1>2
<1>4. n >= 3
  <2>1. Marked(st, n)
    BY <1>2, <1>3 DEF Stack
  <2>2. n # 1 /\ n # 2
    BY <2>1 DEF Marked
  <2> QED
    BY <1>3, <2>2
<1>5. PICK depth \in Nat, k \in Nat : depth = Len(b.pdl) /\ k = n + 1 /\ k + 1 = n + 2 /\ k - 1 = n
  BY <1>3
<1>6. PICK cb : cb = <<k>> \o ca /\ cb \in Seq(Nat)
  BY <1>2, <1>5, ConsTyped
<1>7. PICK f : f = CatchAt("exit", depth, ca, ha)
  OBVIOUS
<1>8. /\ f.kind = "catch" /\ f.tag = "exit" /\ f.pdl = depth /\ f.next = ca /\ f.handlers = ha
      /\ f \in FrameT
  BY <1>2, <1>7, TagsAre DEF CatchAt, FrameT, Kinds, Catching
<1>9. PICK g : g = LoopAt(depth, cb, ha)
  OBVIOUS
<1>10. /\ g.kind = "loop" /\ g.tag = "all" /\ g.pdl = depth /\ g.next = cb /\ g.handlers = ha
       /\ g \in FrameT
  BY <1>2, <1>6, <1>9, TagsAre DEF LoopAt, FrameT, Kinds, Catching
<1>11. PICK s : s = Append(st, f)
  OBVIOUS
<1>12. s \in Seq(FrameT) /\ Len(s) = k /\ s[k] = f /\ s[n] = st[n]
  BY <1>2, <1>3, <1>5, <1>8, <1>11, AppendIs
<1>13. Marked(s, k)
  <2>1. k >= 4 /\ k # 1 /\ k # 2
    BY <1>4, <1>5
  <2> QED
    BY <1>5, <1>8, <1>12, <2>1 DEF Marked
<1>14. Good(s, cb, ha, b, tx)
  <2>1. cb = <<n + 1>> \o ca /\ ha = (IF f.kind = "catch" THEN ha ELSE <<n + 1>> \o ha)
    BY <1>5, <1>6, <1>8
  <2>2. Marked(s, n + 1) /\ st[n].kind # "entry" /\ f.kind \in {"catch", "case", "loop"}
    BY <1>5, <1>8, <1>13
  <2>3. f.pdl = Len(b.pdl)
    BY <1>5, <1>8
  <2> QED
    BY <1>8, <1>11, <2>1, <2>2, <2>3, PlainSame
<1>15. PICK t : t = Append(s, g)
  OBVIOUS
<1>16. Len(t) = k + 1 /\ t[k + 1] = g /\ t[k] = f
  <2>1. k \in 1 .. k
    BY <1>4, <1>5
  <2> QED
    BY <1>10, <1>12, <1>15, <2>1, AppendIs
<1>17. Marked(t, k + 1)
  <2>1. k + 1 # 1 /\ k + 1 # 2 /\ k + 1 >= 2 /\ k + 1 - 1 = k
    BY <1>4, <1>5
  <2> QED
    BY <1>8, <1>10, <1>16, <2>1 DEF Marked
<1>18. Good(t, <<k + 1>> \o cb, <<k + 1>> \o ha, b, tx)
  <2>1. <<k + 1>> \o ha = (IF g.kind = "catch" THEN ha ELSE <<k + 1>> \o ha)
    BY <1>10
  <2>2. s[k].kind # "entry" /\ g.kind \in {"catch", "case", "loop"} /\ g.pdl = Len(b.pdl)
    BY <1>5, <1>8, <1>10, <1>12
  <2> QED
    BY <1>10, <1>12, <1>14, <1>15, <1>17, <2>1, <2>2, PlainSame
<1>19. t = st2
  <2>1. st2 = st \o <<f, g>>
    BY <1>5, <1>6, <1>7, <1>9
  <2>2. Append(Append(st, f), g) = st \o <<f, g>>
    BY <1>2, <1>8, <1>10
  <2> QED
    BY <1>11, <1>15, <2>1, <2>2
<1>20. <<k + 1>> \o cb = <<n + 2, n + 1>> \o ca
  <2>1. <<k + 1>> \o (<<k>> \o ca) = <<k + 1, k>> \o ca
    BY <1>2
  <2> QED
    BY <1>5, <1>6, <2>1
<1> QED
  BY <1>5, <1>18, <1>19, <1>20

(* A new entry: what it undoes.                                            *)
LEMMA EntryUndoes ==
  ASSUME NEW b, NEW c, BindingsTyped(b), NEW e \in Entries, c.pdl = Append(b.pdl, e),
         \A d \in Nat : \A r : d <= Len(b.pdl) /\ Restores(b, d, r) => Restores(c, d, r)
  PROVE  /\ \A d \in 0 .. Len(b.pdl) : Undoes(b, c, d)
         /\ Len(c.pdl) = Len(b.pdl) + 1 /\ Len(b.pdl) \in Nat /\ c.pdl[Len(b.pdl) + 1] = e
         /\ Agree(b.pdl, c.pdl, Len(b.pdl))
<1>1. /\ Len(b.pdl) \in Nat /\ Len(c.pdl) = Len(b.pdl) + 1 /\ c.pdl[Len(b.pdl) + 1] = e
      /\ \A i \in 1 .. Len(b.pdl) : c.pdl[i] = b.pdl[i]
  <2>1. b.pdl \in Seq(Entries)
    BY DEF BindingsTyped
  <2> QED
    BY <2>1, AppendIs
<1>2. ASSUME NEW d \in 0 .. Len(b.pdl) PROVE Undoes(b, c, d)
  <2>1. d \in Nat /\ d <= Len(b.pdl) /\ (d >= 1 => d \in 1 .. Len(b.pdl))
    BY <1>1
  <2> QED
    BY <1>1, <2>1 DEF Undoes
<1> QED
  BY <1>1, <1>2 DEF Agree


(* A frame with an entry in specpdl is pushed.                             *)
Opens(b, c, f, e) ==
  /\ f.kind \in {"let", "protect", "edit", "entry"} /\ e \in Entries
  /\ c.pdl = Append(b.pdl, e)
  /\ e.kind = (IF f.kind = "protect" THEN "form"
               ELSE IF f.kind = "entry" THEN "windows" ELSE f.kind)
  /\ e.kind = "let" => e.old = b.value
  /\ e.kind = "windows" => e.old = b.shown
  /\ c.value = (IF f.kind = "let" THEN f.x ELSE b.value) /\ c.shown = b.shown
  /\ c.edits = (IF f.kind = "edit" THEN b.edits + 1 ELSE b.edits) /\ c.reads = b.reads
  /\ c.prompt = b.prompt /\ \A l \in 0 .. b.reads - 1 : c.saved[l] = b.saved[l]
  /\ f.kind = "entry" => /\ f.x = b.reads /\ ~f.on /\ b.reads < MaxMinibuf
                         /\ c.saved[b.reads] = b.prompt

LEMMA EntryKeeps ==
  ASSUME NEW st, NEW ca, NEW ha, NEW b, NEW tx, Good(st, ca, ha, b, tx), NEW f \in FrameT, NEW st2,
         st2 = Append(st, f), f.pdl = Len(b.pdl), f.next = ca, f.handlers = ha, f.tag # "top",
         NEW n, n = Len(st), n >= 2, st[n].kind # "entry", NEW c, BindingsTyped(c), NEW e,
         Opens(b, c, f, e)
  PROVE  Good(st2, ca, ha, c, tx)
<1>0. /\ f.kind \in {"let", "protect", "edit", "entry"} /\ e \in Entries
      /\ c.pdl = Append(b.pdl, e)
      /\ e.kind = (IF f.kind = "protect" THEN "form"
                   ELSE IF f.kind = "entry" THEN "windows" ELSE f.kind)
      /\ e.kind = "let" => e.old = b.value
      /\ e.kind = "windows" => e.old = b.shown
      /\ c.value = (IF f.kind = "let" THEN f.x ELSE b.value) /\ c.shown = b.shown
      /\ c.edits = (IF f.kind = "edit" THEN b.edits + 1 ELSE b.edits) /\ c.reads = b.reads
      /\ c.prompt = b.prompt /\ \A l \in 0 .. b.reads - 1 : c.saved[l] = b.saved[l]
      /\ f.kind = "entry" => /\ f.x = b.reads /\ ~f.on /\ b.reads < MaxMinibuf
                             /\ c.saved[b.reads] = b.prompt
  BY DEF Opens
<1>1. BindingsTyped(b) /\ Counted(b) /\ Stack(st)
  BY DEF Good, Typed
<1>2. Counted(c) /\ \A d \in Nat : \A r : d <= Len(b.pdl) /\ Restores(b, d, r) => Restores(c, d, r)
  <2>1. e.kind # "minibuf" /\ e \in Entries /\ c.pdl = Append(b.pdl, e)
    BY <1>0
  <2>2. IF e.kind = "let" THEN e.old = b.value ELSE c.value = b.value
    BY <1>0
  <2>3. c.edits = IF e.kind = "edit" THEN b.edits + 1 ELSE b.edits
    BY <1>0
  <2>4. /\ e.kind = "windows" => e.old = b.shown
        /\ c.shown = b.shown /\ c.reads = b.reads /\ c.prompt = b.prompt
        /\ \A l \in 0 .. b.reads - 1 : c.saved[l] = b.saved[l]
    BY <1>0
  <2> QED
    BY <1>1, <2>1, <2>2, <2>3, <2>4, PushKept
<1>3. PICK depth \in Nat : depth = Len(b.pdl)
  <2>1. Len(b.pdl) \in Nat
    BY <1>0, <1>1, <1>2, EntryUndoes
  <2> QED
    BY <2>1
<1>4. /\ \A d \in 0 .. depth : Undoes(b, c, d)
      /\ Len(c.pdl) = depth + 1 /\ c.pdl[depth + 1] = e /\ Agree(b.pdl, c.pdl, depth)
  BY <1>0, <1>1, <1>2, <1>3, EntryUndoes
<1>5. Pushes(n, ca, ha, b, f, c)
  <2>1. Follows(f, n + 1, Current(b), Current(c))
    BY <1>0 DEF Follows, Current
  <2>2. Start(f) = Len(b.pdl)
    BY <1>0 DEF Start
  <2>3. depth <= depth + 1 /\ depth + 1 <= depth + 1
    OBVIOUS
  <2> QED
    BY <1>3, <1>4, <2>1, <2>2, <2>3 DEF Pushes
<1>6. Plain(n, ca, ha, b, f, ca, ha, c)
  <2>1. Own(f.kind) = 1 /\ Len(c.pdl) = Len(b.pdl) + 1
    BY <1>0, <1>3, <1>4 DEF Own
  <2>2. CASE f.kind = "entry"
    <3>1. Tally(c.pdl, depth, "minibuf") = Tally(b.pdl, depth, "minibuf")
      <4>1. depth <= depth
        OBVIOUS
      <4> QED
        BY <1>4, <4>1, TallyPrefix
    <3>2. Tally(b.pdl, depth, "minibuf") = b.reads
      BY <1>1, <1>3 DEF Counted
    <3> QED
      BY <1>0, <1>3, <1>4, <2>1, <2>2, <3>1, <3>2 DEF Plain, Catching, Handling
  <2>3. CASE f.kind # "entry"
    BY <1>0, <2>1, <2>3 DEF Plain, Catching, Handling
  <2> QED
    BY <2>2, <2>3
<1>7. Marked(st2, n + 1)
  <2>1. n \in Nat /\ Len(st2) = n + 1 /\ st2[n + 1] = f
    <3>1. st \in Seq(FrameT)
      BY <1>1 DEF Stack
    <3> QED
      BY <3>1, AppendIs
  <2>2. n + 1 # 1 /\ n + 1 # 2 /\ ~(n + 1 < n + 1)
    BY <2>1
  <2> QED
    BY <1>0, <2>1, <2>2 DEF Marked
<1> QED
  BY <1>2, <1>5, <1>6, <1>7, PlainKept


(* The invariant of the whole specification.                               *)
Sane ==
  /\ Good(cstack, catchlist, handlerlist, Bindings, text)
  /\ Here >= 2 /\ quit_flag \in BOOLEAN

(* What follows of the variables.                                          *)
Told(n, b) ==
  /\ n = Here /\ n \in Nat /\ n >= 2 /\ b = Bindings
  /\ Stack(cstack) /\ cstack \in Seq(FrameT) /\ Top = cstack[n] /\ Top \in FrameT /\ Marked(cstack, n)
  /\ catchlist \in Seq(Nat) /\ handlerlist \in Seq(Nat) /\ text \in Texts
  /\ BindingsTyped(b) /\ Counted(b) /\ Entering(cstack, b)
  /\ specpdl \in Seq(Entries) /\ Len(specpdl) \in Nat
  /\ value \in Nat /\ shown \in Nat /\ prompt \in Nat /\ Depth \in Nat
  /\ minibuf_level \in 0 .. MaxMinibuf /\ saved \in [0 .. MaxMinibuf - 1 -> Nat]
  /\ b.pdl = specpdl /\ b.value = value /\ b.shown = shown /\ b.prompt = prompt
  /\ b.saved = saved /\ b.edits = Depth /\ b.reads = minibuf_level

LEMMA SaneIs ==
  ASSUME Sane
  PROVE  Told(Here, Bindings)
<1>1. PICK b : b = Bindings
  OBVIOUS
<1>2. /\ b.pdl = specpdl /\ b.value = value /\ b.shown = shown /\ b.prompt = prompt
      /\ b.saved = saved /\ b.edits = Depth /\ b.reads = minibuf_level
  BY <1>1 DEF Bindings
<1>3. /\ Stack(cstack) /\ catchlist \in Seq(Nat) /\ handlerlist \in Seq(Nat) /\ BindingsTyped(b)
      /\ text \in Texts /\ Counted(b) /\ Entering(cstack, b)
  BY <1>1 DEF Sane, Good, Typed
<1>4. /\ specpdl \in Seq(Entries)
      /\ value \in Nat /\ shown \in Nat /\ prompt \in Nat /\ Depth \in Nat
      /\ minibuf_level \in 0 .. MaxMinibuf /\ saved \in [0 .. MaxMinibuf - 1 -> Nat]
  BY <1>2, <1>3 DEF BindingsTyped
<1>5. Len(specpdl) \in Nat
  BY <1>4
<1>6. cstack \in Seq(FrameT) /\ \A i \in 1 .. Len(cstack) : Marked(cstack, i)
  BY <1>3 DEF Stack
<1>7. Here \in Nat /\ Here >= 2 /\ Here \in 1 .. Len(cstack)
  BY <1>6 DEF Sane, Here
<1>8. Top = cstack[Here] /\ Top \in FrameT /\ Marked(cstack, Here)
  BY <1>6, <1>7 DEF Top, Here
<1> QED
  BY <1>1, <1>2, <1>3, <1>4, <1>5, <1>6, <1>7, <1>8 DEF Told

(* And of the next state.                                                  *)
LEMMA NextBindings ==
  ASSUME NEW c, c = Bindings'
  PROVE  /\ c.pdl = specpdl' /\ c.value = value' /\ c.shown = shown' /\ c.prompt = prompt'
         /\ c.saved = saved' /\ c.edits = Depth' /\ c.reads = minibuf_level'
BY DEF Bindings

LEMMA NoTag == "" \in Tags /\ "" # "top" /\ "" # "exit"
BY Zenon DEF Tags

(* A new frame.                                                            *)
New(f, kind, x) ==
  /\ f \in FrameT /\ f.kind = kind /\ f.x = x /\ f.pdl = Len(specpdl) /\ f.next = catchlist
  /\ f.handlers = handlerlist /\ f.on = FALSE /\ f.tag # "top" /\ f.tag # "exit"

LEMMA FrameIs ==
  ASSUME Sane, NEW kind \in Kinds, NEW tag \in Tags, tag # "top", tag # "exit", NEW x \in Nat
  PROVE  New(Frame(kind, tag, x), kind, x)
<1>1. PICK f : f = Frame(kind, tag, x)
  OBVIOUS
<1>2. catchlist \in Seq(Nat) /\ handlerlist \in Seq(Nat) /\ Len(specpdl) \in Nat
  BY SaneIs DEF Told
<1>3. /\ f.kind = kind /\ f.x = x /\ f.pdl = Len(specpdl) /\ f.next = catchlist
      /\ f.handlers = handlerlist /\ f.on = FALSE /\ f.tag = tag
  BY <1>1 DEF Frame
<1>4. f \in FrameT
  BY <1>1, <1>2 DEF Frame, FrameT
<1> QED
  BY <1>1, <1>3, <1>4 DEF New

LEMMA PlainFrame ==
  ASSUME Sane, NEW kind \in Kinds, NEW x \in Nat
  PROVE  New(Frame(kind, "", x), kind, x)
BY NoTag, FrameIs, Zenon

LEMMA PushIs ==
  ASSUME NEW f, Push(<<f>>), Sane
  PROVE  cstack' = Append(cstack, f)
<1>1. cstack \in Seq(FrameT)
  BY SaneIs DEF Told
<1> QED
  BY <1>1 DEF Push


LEMMA SaneNext ==
  ASSUME NEW st, st = cstack', NEW ca, ca = catchlist', NEW ha, ha = handlerlist', NEW c,
         c = Bindings', NEW tx, tx = text', Good(st, ca, ha, c, tx), Len(st) >= 2,
         quit_flag' \in BOOLEAN
  PROVE  Sane'
BY DEF Sane, Here

LEMMA TypedNext ==
  ASSUME NEW c, c = Bindings', specpdl' \in Seq(Entries), value' \in Nat, shown' \in Nat,
         prompt' \in Nat, Depth' \in Nat, minibuf_level' \in 0 .. MaxMinibuf,
         saved' \in [0 .. MaxMinibuf - 1 -> Nat]
  PROVE  BindingsTyped(c)
BY NextBindings DEF BindingsTyped

LEMMA EvaluatingIs ==
  ASSUME Sane, Evaluating
  PROVE  Top.kind # "entry"
BY DEF Evaluating

LEMMA EntryIs ==
  ASSUME NEW kind \in {"let", "form", "edit", "windows", "minibuf"}, NEW old \in Nat
  PROVE  Entry(kind, old) \in Entries /\ Entry(kind, old).kind = kind /\ Entry(kind, old).old = old
BY DEF Entry, Entries

(* let.                                                                    *)
LEMMA LetKeeps ==
  ASSUME Sane, Let
  PROVE  Sane'
<1>1. PICK n, b : n = Here /\ b = Bindings /\ Told(n, b)
  BY SaneIs
<1>2. PICK f : f = Frame("let", "", value')
  OBVIOUS
<1>3. value' = Len(specpdl) + 1 /\ specpdl' = Append(specpdl, Entry("let", value))
  BY DEF Let
<1>4. value' \in Nat
  BY <1>1, <1>3 DEF Told
<1>5. New(f, "let", value')
  <2>1. PICK x \in Nat : x = value'
    BY <1>4
  <2>2. "let" \in Kinds
    BY DEF Kinds
  <2>3. f = Frame("let", "", x)
    BY <1>2, <2>1, Zenon
  <2>4. New(f, "let", x)
    BY <2>2, <2>3, PlainFrame, Zenon
  <2> QED
    BY <2>1, <2>4
<1>6. cstack' = Append(cstack, f)
  <2>1. Push(<<f>>)
    BY <1>2, Zenon DEF Let
  <2> QED
    BY <2>1, PushIs
<1>7. /\ catchlist' = catchlist /\ handlerlist' = handlerlist /\ quit_flag' = quit_flag
      /\ Depth' = Depth /\ minibuf_level' = minibuf_level
      /\ prompt' = prompt /\ saved' = saved /\ shown' = shown /\ text' = text /\ Evaluating
  BY DEF Let, lists, levels, minibuf, Depth
<1>8. PICK e : e = Entry("let", value) /\ e \in Entries /\ e.kind = "let" /\ e.old = value
  BY <1>1, EntryIs DEF Told
<1>9. PICK c : c = Bindings'
  OBVIOUS
<1>10. specpdl' = Append(specpdl, e) /\ specpdl' \in Seq(Entries)
  BY <1>1, <1>3, <1>8 DEF Told
<1>11. BindingsTyped(c)
  BY <1>1, <1>4, <1>7, <1>9, <1>10, TypedNext DEF Told
<1>12. /\ c.pdl = Append(b.pdl, e) /\ c.value = f.x /\ c.shown = b.shown /\ c.edits = b.edits
       /\ c.reads = b.reads /\ c.prompt = b.prompt /\ c.saved = b.saved /\ e.old = b.value
  BY <1>1, <1>5, <1>7, <1>8, <1>9, <1>10, NextBindings DEF Told, New
<1>13. PICK st2 : st2 = cstack'
  OBVIOUS
<1>14. Good(st2, catchlist, handlerlist, c, text)
  <2>1. /\ Good(cstack, catchlist, handlerlist, b, text) /\ n = Len(cstack) /\ n >= 2
        /\ cstack[n].kind # "entry"
    BY <1>1, <1>7 DEF Sane, Told, Evaluating, Here
  <2>2. /\ f \in FrameT /\ f.kind = "let" /\ f.pdl = Len(b.pdl) /\ f.next = catchlist
        /\ f.handlers = handlerlist /\ f.tag # "top"
    BY <1>1, <1>5 DEF New, Told
  <2> QED
    <3>1. Opens(b, c, f, e)
      BY <1>8, <1>12, <2>2 DEF Opens
    <3> QED
      BY <1>6, <1>11, <1>13, <2>1, <2>2, <3>1, EntryKeeps
<1> QED
  <2>1. Len(st2) >= 2 /\ quit_flag' \in BOOLEAN
    BY <1>1, <1>5, <1>6, <1>7, <1>13 DEF Told, Here, Sane, New
  <2> QED
    BY <1>7, <1>9, <1>13, <1>14, <2>1, SaneNext


LEMMA FormGood ==
  ASSUME Sane, Evaluating, NEW kind \in {"let", "protect", "edit", "entry"}, NEW x, NEW f,
         New(f, kind, x), NEW e \in Entries, NEW c, BindingsTyped(c), c.pdl = Append(specpdl, e),
         e.kind = (IF kind = "protect" THEN "form" ELSE IF kind = "entry" THEN "windows" ELSE kind),
         e.kind = "let" => e.old = value, e.kind = "windows" => e.old = shown,
         c.value = (IF kind = "let" THEN x ELSE value), c.shown = shown,
         c.edits = (IF kind = "edit" THEN Depth + 1 ELSE Depth),
         c.reads = minibuf_level, c.prompt = prompt,
         \A l \in 0 .. minibuf_level - 1 : c.saved[l] = saved[l],
         kind = "entry" => /\ x = minibuf_level /\ minibuf_level < MaxMinibuf
                           /\ c.saved[minibuf_level] = prompt
  PROVE  Good(Append(cstack, f), catchlist, handlerlist, c, text)
<1>1. PICK n, b : n = Here /\ b = Bindings /\ Told(n, b)
  BY SaneIs
<1>2. /\ Good(cstack, catchlist, handlerlist, b, text) /\ n = Len(cstack) /\ n >= 2
      /\ cstack[n].kind # "entry"
  BY <1>1 DEF Sane, Told, Evaluating, Here
<1>3. /\ f \in FrameT /\ f.kind = kind /\ f.pdl = Len(b.pdl) /\ f.next = catchlist
      /\ f.handlers = handlerlist /\ f.tag # "top" /\ f.x = x /\ ~f.on
  BY <1>1 DEF New, Told
<1>4. /\ c.pdl = Append(b.pdl, e) /\ b.value = value /\ b.shown = shown
      /\ b.edits = Depth /\ b.reads = minibuf_level /\ b.prompt = prompt
  BY <1>1 DEF Told
<1>5. PICK st2 : st2 = Append(cstack, f)
  OBVIOUS
<1>6. Opens(b, c, f, e)
  <2>1. b.saved = saved
    BY <1>1 DEF Told
  <2> QED
    BY <1>3, <1>4, <2>1 DEF Opens
<1>7. Good(st2, catchlist, handlerlist, c, text)
  BY <1>2, <1>3, <1>4, <1>5, <1>6, EntryKeeps
<1> QED
  BY <1>5, <1>7

(* unwind-protect.                                                         *)
LEMMA UnwindProtectKeeps ==
  ASSUME Sane, UnwindProtect
  PROVE  Sane'
<1>1. PICK n, b : n = Here /\ b = Bindings /\ Told(n, b)
  BY SaneIs
<1>2. PICK f : f = Frame("protect", "", 0)
  OBVIOUS
<1>3. New(f, "protect", 0)
  <2>1. "protect" \in Kinds /\ 0 \in Nat
    BY DEF Kinds
  <2> QED
    BY <1>2, <2>1, PlainFrame, Zenon
<1>4. cstack' = Append(cstack, f)
  <2>1. Push(<<f>>)
    BY <1>2, Zenon DEF UnwindProtect
  <2> QED
    BY <2>1, PushIs
<1>5. /\ catchlist' = catchlist /\ handlerlist' = handlerlist /\ quit_flag' = quit_flag
      /\ value' = value
      /\ Depth' = Depth /\ minibuf_level' = minibuf_level
      /\ prompt' = prompt /\ saved' = saved /\ shown' = shown /\ text' = text /\ Evaluating
      /\ specpdl' = Append(specpdl, Entry("form", 0))
  BY DEF UnwindProtect, lists, levels, minibuf, Depth
<1>6. PICK e : e = Entry("form", 0) /\ e \in Entries /\ e.kind = "form"
  BY EntryIs
<1>7. PICK c : c = Bindings'
  OBVIOUS
<1>8. specpdl' = Append(specpdl, e) /\ specpdl' \in Seq(Entries)
  BY <1>1, <1>5, <1>6 DEF Told
<1>9. BindingsTyped(c)
  BY <1>1, <1>5, <1>7, <1>8, TypedNext DEF Told
<1>10. /\ c.pdl = Append(specpdl, e) /\ c.value = value /\ c.shown = shown
       /\ c.edits = Depth /\ c.reads = minibuf_level /\ c.prompt = prompt
       /\ c.saved = saved
  BY <1>5, <1>7, <1>8, NextBindings
<1>11. PICK st2 : st2 = Append(cstack, f)
  OBVIOUS
<1>12. Good(st2, catchlist, handlerlist, c, text)
  BY <1>3, <1>5, <1>6, <1>9, <1>10, <1>11, FormGood
<1> QED
  <2>1. Len(st2) >= 2 /\ quit_flag' \in BOOLEAN
    BY <1>1, <1>3, <1>5, <1>11 DEF Told, Here, Sane, New
  <2> QED
    BY <1>4, <1>5, <1>7, <1>11, <1>12, <2>1, SaneNext

LEMMA SameBindings ==
  ASSUME UNCHANGED <<specpdl, value, shown, prompt, saved, levels>>
  PROVE  Bindings' = Bindings
BY DEF Bindings, levels, Depth

(* A catch or a condition-case is pushed.                                  *)
LEMMA CatchGood ==
  ASSUME Sane, Evaluating, NEW kind \in {"catch", "case"}, NEW f, New(f, kind, 0), NEW st2,
         st2 = Append(cstack, f), NEW n, n = Here, NEW b, b = Bindings, NEW ca2,
         ca2 = <<n + 1>> \o catchlist, NEW ha2,
         ha2 = IF kind = "catch" THEN handlerlist ELSE <<n + 1>> \o handlerlist
  PROVE  Good(st2, ca2, ha2, b, text) /\ Len(st2) >= 2
<1>1. Told(n, b)
  BY SaneIs
<1>2. /\ Good(cstack, catchlist, handlerlist, b, text) /\ n = Len(cstack) /\ n >= 2 /\ n \in Nat
      /\ cstack[n].kind # "entry" /\ cstack \in Seq(FrameT)
  BY <1>1 DEF Sane, Told, Evaluating, Here
<1>3. /\ f \in FrameT /\ f.kind = kind /\ f.pdl = Len(b.pdl) /\ f.next = catchlist
      /\ f.handlers = handlerlist /\ f.tag # "top" /\ f.tag # "exit"
  BY <1>1 DEF New, Told
<1>4. Len(st2) = n + 1 /\ st2[n + 1] = f
  BY <1>2, <1>3, AppendIs
<1>5. Marked(st2, n + 1)
  <2>1. n + 1 # 1 /\ n + 1 # 2
    BY <1>2
  <2> QED
    BY <1>3, <1>4, <2>1 DEF Marked
<1>6. Good(st2, ca2, ha2, b, text)
  BY <1>2, <1>3, <1>5, PlainSame, ZenonT(30)
<1> QED
  BY <1>2, <1>4, <1>6

LEMMA CatchKeeps ==
  ASSUME Sane, Catch
  PROVE  Sane'
<1>1. PICK n, b : n = Here /\ b = Bindings
  OBVIOUS
<1>2. PICK f : f = Frame("catch", "tag", 0)
  OBVIOUS
<1>3. New(f, "catch", 0)
  <2>1. "catch" \in Kinds /\ 0 \in Nat /\ "tag" # "top" /\ "tag" # "exit"
    BY DEF Kinds, Catching
  <2> QED
    BY <1>2, <2>1, TagsAre, FrameIs, Zenon
<1>4. cstack' = Append(cstack, f)
  <2>1. Push(<<f>>)
    BY <1>2 DEF Catch
  <2> QED
    BY <2>1, PushIs
<1>5. /\ catchlist' = <<n + 1>> \o catchlist /\ handlerlist' = handlerlist
      /\ quit_flag' = quit_flag /\ text' = text /\ Evaluating
      /\ UNCHANGED <<specpdl, value, shown, prompt, saved, levels>>
  BY <1>1 DEF Catch, minibuf
<1>6. PICK st2, ca2 : st2 = Append(cstack, f) /\ ca2 = <<n + 1>> \o catchlist
  OBVIOUS
<1>7. Good(st2, ca2, handlerlist, b, text) /\ Len(st2) >= 2
  BY <1>1, <1>3, <1>5, <1>6, CatchGood
<1>8. b = Bindings'
  BY <1>1, <1>5, SameBindings
<1>9. quit_flag' \in BOOLEAN
  BY <1>5 DEF Sane
<1> QED
  BY <1>4, <1>5, <1>6, <1>7, <1>8, <1>9, SaneNext

LEMMA ConditionCaseKeeps ==
  ASSUME Sane, NEW condition \in {"error", "quit"}, ConditionCase(condition)
  PROVE  Sane'
<1>1. PICK n, b : n = Here /\ b = Bindings
  OBVIOUS
<1>2. PICK f : f = Frame("case", condition, 0)
  OBVIOUS
<1>3. New(f, "case", 0)
  <2>1. "case" \in Kinds /\ 0 \in Nat /\ condition # "top" /\ condition # "exit"
    BY DEF Kinds, Catching
  <2>2. condition \in Tags
    BY TagsAre
  <2> QED
    BY <1>2, <2>1, <2>2, FrameIs, Zenon
<1>4. cstack' = Append(cstack, f)
  <2>1. Push(<<f>>)
    BY <1>2 DEF ConditionCase
  <2> QED
    BY <2>1, PushIs
<1>5. /\ catchlist' = <<n + 1>> \o catchlist /\ handlerlist' = <<n + 1>> \o handlerlist
      /\ quit_flag' = quit_flag /\ text' = text /\ Evaluating
      /\ UNCHANGED <<specpdl, value, shown, prompt, saved, levels>>
  BY <1>1 DEF ConditionCase, minibuf
<1>6. PICK st2, ca2, ha2 : /\ st2 = Append(cstack, f) /\ ca2 = <<n + 1>> \o catchlist
                           /\ ha2 = <<n + 1>> \o handlerlist
  OBVIOUS
<1>7. Good(st2, ca2, ha2, b, text) /\ Len(st2) >= 2
  BY <1>1, <1>3, <1>5, <1>6, CatchGood
<1>8. b = Bindings'
  BY <1>1, <1>5, SameBindings
<1>9. quit_flag' \in BOOLEAN
  BY <1>5 DEF Sane
<1> QED
  BY <1>4, <1>5, <1>6, <1>7, <1>8, <1>9, SaneNext


LEMMA RecursiveEditKeeps ==
  ASSUME Sane, Counts, RecursiveEdit
  PROVE  Sane'
<1>1. PICK n, b : n = Here /\ b = Bindings /\ Told(n, b)
  BY SaneIs
<1>2. PICK f : f = Frame("edit", "", 0)
  OBVIOUS
<1>3. New(f, "edit", 0)
  <2>1. "edit" \in Kinds /\ 0 \in Nat
    BY DEF Kinds
  <2> QED
    BY <1>2, <2>1, PlainFrame, Zenon
<1>4. PICK st : st = Append(cstack, f)
  OBVIOUS
<1>5. CommandLoop(st, Len(specpdl) + 1)
  BY <1>2, <1>4, Zenon DEF RecursiveEdit
<1>6. /\ quit_flag' = quit_flag /\ value' = value
      /\ Depth' = Depth + 1 /\ minibuf_level' = minibuf_level
      /\ prompt' = prompt /\ saved' = saved /\ shown' = shown /\ text' = text /\ Evaluating
      /\ specpdl' = Append(specpdl, Entry("edit", 0))
  <2>1. command_loop_level' = command_loop_level + 1 /\ lost' = lost
    BY DEF RecursiveEdit
  <2>2. Depth' = Depth + 1
    BY <2>1 DEF Counts, Depth
  <2> QED
    BY <2>2 DEF RecursiveEdit, minibuf
<1>7. PICK e : e = Entry("edit", 0) /\ e \in Entries /\ e.kind = "edit"
  BY EntryIs
<1>8. PICK c : c = Bindings'
  OBVIOUS
<1>9. specpdl' = Append(specpdl, e) /\ specpdl' \in Seq(Entries) /\ Len(specpdl') = Len(specpdl) + 1
  BY <1>1, <1>6, <1>7 DEF Told
<1>10. BindingsTyped(c)
  BY <1>1, <1>6, <1>8, <1>9, TypedNext DEF Told
<1>11. /\ c.pdl = Append(specpdl, e) /\ c.value = value /\ c.shown = shown
       /\ c.edits = Depth + 1 /\ c.reads = minibuf_level /\ c.prompt = prompt
       /\ c.saved = saved /\ Len(c.pdl) = Len(specpdl) + 1
  BY <1>6, <1>8, <1>9, NextBindings
<1>12. Good(st, catchlist, handlerlist, c, text)
  BY <1>3, <1>4, <1>6, <1>7, <1>10, <1>11, FormGood
<1>13. PICK k, depth : k = Len(st) /\ depth = Len(c.pdl)
  OBVIOUS
<1>14. k \in Nat /\ k >= 3 /\ st[k].kind = "edit" /\ st \in Seq(FrameT)
  <2>1. cstack \in Seq(FrameT) /\ f \in FrameT /\ n = Len(cstack) /\ n >= 2 /\ f.kind = "edit"
    BY <1>1, <1>3 DEF Told, New, Here
  <2> QED
    BY <1>4, <1>13, <2>1, AppendIs
<1>15. PICK st2 : st2 = st \o <<CatchAt("exit", depth, catchlist, handlerlist),
                               LoopAt(depth, <<k + 1>> \o catchlist, handlerlist)>>
  OBVIOUS
<1>16. /\ cstack' = st2 /\ catchlist' = <<k + 2, k + 1>> \o catchlist
       /\ handlerlist' = <<k + 2>> \o handlerlist
  BY <1>5, <1>11, <1>13, <1>15 DEF CommandLoop
<1>17. PICK ca2, ha2 : ca2 = <<k + 2, k + 1>> \o catchlist /\ ha2 = <<k + 2>> \o handlerlist
  OBVIOUS
<1>18. Good(st2, ca2, ha2, c, text)
  BY <1>12, <1>13, <1>14, <1>15, <1>17, LoopKeeps
<1> QED
  <2>1. Len(st2) >= 2
    BY <1>14, <1>15, <1>13
  <2>2. quit_flag' \in BOOLEAN
    BY <1>6 DEF Sane
  <2> QED
    BY <1>6, <1>8, <1>16, <1>17, <1>18, <2>1, <2>2, SaneNext

LEMMA BeginReadKeeps ==
  ASSUME Sane, BeginRead
  PROVE  Sane'
<1>1. PICK n, b : n = Here /\ b = Bindings /\ Told(n, b)
  BY SaneIs
<1>2. PICK f : f = Frame("entry", "", minibuf_level)
  OBVIOUS
<1>3. minibuf_level \in Nat /\ minibuf_level < MaxMinibuf
  <2>1. minibuf_level < MaxMinibuf
    BY DEF BeginRead
  <2>2. minibuf_level \in 0 .. MaxMinibuf
    BY <1>1 DEF Told
  <2> QED
    BY <2>1, <2>2
<1>4. New(f, "entry", minibuf_level)
  <2>1. "entry" \in Kinds
    BY DEF Kinds
  <2> QED
    BY <1>2, <1>3, <2>1, PlainFrame, Zenon
<1>5. cstack' = Append(cstack, f)
  <2>1. Push(<<f>>)
    BY <1>2, Zenon DEF BeginRead
  <2> QED
    BY <2>1, PushIs
<1>6. /\ catchlist' = catchlist /\ handlerlist' = handlerlist /\ quit_flag' = quit_flag
      /\ value' = value
      /\ Depth' = Depth /\ minibuf_level' = minibuf_level
      /\ prompt' = prompt /\ shown' = shown /\ text' = text /\ Evaluating
      /\ saved' = [saved EXCEPT ![minibuf_level] = prompt]
      /\ specpdl' = Append(specpdl, Entry("windows", shown))
  BY DEF BeginRead, lists, levels, SavedPrompt, Depth
<1>7. PICK e : e = Entry("windows", shown) /\ e \in Entries /\ e.kind = "windows" /\ e.old = shown
  BY <1>1, EntryIs DEF Told
<1>8. /\ saved' \in [0 .. MaxMinibuf - 1 -> Nat] /\ saved'[minibuf_level] = prompt
      /\ \A l \in 0 .. minibuf_level - 1 : saved'[l] = saved[l]
  <2>1. PICK M \in Nat, k \in Nat : M = MaxMinibuf /\ k = minibuf_level /\ k < M
    BY <1>3, UnwindingAssumption
  <2>2. saved \in [0 .. M - 1 -> Nat] /\ prompt \in Nat /\ k \in 0 .. M - 1
    BY <1>1, <2>1 DEF Told
  <2>3. \A l \in 0 .. k - 1 : l \in 0 .. M - 1 /\ l # k
    BY <2>1
  <2>4. saved' = [saved EXCEPT ![k] = prompt]
    BY <1>6, <2>1
  <2> QED
    BY <2>1, <2>2, <2>3, <2>4
<1>9. PICK c : c = Bindings'
  OBVIOUS
<1>10. specpdl' = Append(specpdl, e) /\ specpdl' \in Seq(Entries)
  BY <1>1, <1>6, <1>7 DEF Told
<1>11. BindingsTyped(c)
  BY <1>1, <1>6, <1>8, <1>9, <1>10, TypedNext DEF Told
<1>12. /\ c.pdl = Append(specpdl, e) /\ c.value = value /\ c.shown = shown
       /\ c.edits = Depth /\ c.reads = minibuf_level /\ c.prompt = prompt
       /\ c.saved[minibuf_level] = prompt /\ \A l \in 0 .. minibuf_level - 1 : c.saved[l] = saved[l]
  BY <1>6, <1>8, <1>9, <1>10, NextBindings
<1>13. PICK st2 : st2 = Append(cstack, f)
  OBVIOUS
<1>14. Good(st2, catchlist, handlerlist, c, text)
  BY <1>3, <1>4, <1>6, <1>7, <1>11, <1>12, <1>13, FormGood
<1> QED
  <2>1. Len(st2) >= 2 /\ quit_flag' \in BOOLEAN
    BY <1>1, <1>4, <1>6, <1>13 DEF Told, Here, Sane, New
  <2> QED
    BY <1>5, <1>6, <1>9, <1>13, <1>14, <2>1, SaneNext

-----------------------------------------------------------------------------
(* Throws.                                                                 *)

(* A set of natural numbers that is not empty has a least element.         *)
LEMMA Least ==
  ASSUME NEW T, T \subseteq Nat, T # {}
  PROVE  \E x \in T : \A y \in T : x <= y
<1>1. IsWellFoundedOn(OpToRel(<, Nat), Nat)
  BY NatLessThanWellFounded, Zenon
<1>2. \E x \in T : \A y \in T : ~(<<y, x>> \in OpToRel(<, Nat))
  BY <1>1, WFMin, Zenon
<1>3. PICK x \in T : \A y \in T : ~(<<y, x>> \in OpToRel(<, Nat))
  BY <1>2, Zenon
<1>4. ASSUME NEW y \in T PROVE ~(y < x)
  BY <1>3, Zenon DEF OpToRel
<1> QED
  BY <1>4

(* The first element of a list whose index is in a set.                    *)
LEMMA FirstIndex ==
  ASSUME NEW W, W \subseteq Nat \ {0}, W # {}
  PROVE  \E i \in W : \A j \in 1 .. i - 1 : j \notin W
<1>1. PICK i \in W : \A j \in W : i <= j
  BY Least
<1> QED
  BY <1>1

LEMMA CatchForIs ==
  ASSUME Sane, NEW tag
  PROVE  /\ CatchFor(tag) # 0 => CatchFor(tag) \in Elems(catchlist)
         /\ (\E v \in Elems(catchlist) : cstack[v].kind = "catch" /\ cstack[v].tag = tag)
              => CatchFor(tag) \in Elems(catchlist)
<1> DEFINE P(i) == cstack[catchlist[i]].kind = "catch" /\ cstack[catchlist[i]].tag = tag
           W == {i \in DOMAIN catchlist : P(i)}
<1>1. catchlist \in Seq(Nat)
  BY SaneIs DEF Told
<1>2. DOMAIN catchlist \subseteq Nat \ {0}
  BY <1>1
<1>3. CatchFor(tag) = IF \E i \in DOMAIN catchlist : P(i)
                      THEN catchlist[CHOOSE i \in DOMAIN catchlist :
                                       P(i) /\ \A j \in 1 .. i - 1 : ~P(j)]
                      ELSE 0
  BY DEF CatchFor, First
<1>4. ASSUME \E i \in DOMAIN catchlist : P(i) PROVE CatchFor(tag) \in Elems(catchlist)
  <2>1. \E i \in W : \A j \in 1 .. i - 1 : j \notin W
    <3>1. W # {} /\ W \subseteq Nat \ {0}
      BY <1>2, <1>4
    <3> HIDE DEF W
    <3> QED
      BY <3>1, FirstIndex
  <2>2. \A i \in DOMAIN catchlist : \A j \in 1 .. i - 1 : j \in DOMAIN catchlist
    BY <1>1
  <2>3. \E i \in DOMAIN catchlist : P(i) /\ \A j \in 1 .. i - 1 : ~P(j)
    BY <2>1, <2>2
  <2> HIDE DEF P
  <2>4. PICK i \in DOMAIN catchlist : CatchFor(tag) = catchlist[i]
    BY <1>3, <1>4, <2>3
  <2> QED
    BY <2>4 DEF Elems
<1>5. ASSUME NEW v \in Elems(catchlist), cstack[v].kind = "catch" /\ cstack[v].tag = tag
      PROVE  \E i \in DOMAIN catchlist : P(i)
  BY <1>5 DEF Elems
<1>6. CatchFor(tag) # 0 => \E i \in DOMAIN catchlist : P(i)
  BY <1>3
<1> QED
  BY <1>4, <1>5, <1>6

LEMMA HandlerForIs ==
  ASSUME Sane, NEW condition
  PROVE  HandlerFor(condition) # 0 => HandlerFor(condition) \in Elems(handlerlist)
<1> DEFINE P(i) == cstack[handlerlist[i]].tag \in {condition, "all"}
           W == {i \in DOMAIN handlerlist : P(i)}
<1>1. handlerlist \in Seq(Nat)
  BY SaneIs DEF Told
<1>2. DOMAIN handlerlist \subseteq Nat \ {0}
  BY <1>1
<1>3. HandlerFor(condition) = IF \E i \in DOMAIN handlerlist : P(i)
                              THEN handlerlist[CHOOSE i \in DOMAIN handlerlist :
                                                 P(i) /\ \A j \in 1 .. i - 1 : ~P(j)]
                              ELSE 0
  BY DEF HandlerFor, First
<1>4. ASSUME \E i \in DOMAIN handlerlist : P(i) PROVE HandlerFor(condition) \in Elems(handlerlist)
  <2>1. \E i \in W : \A j \in 1 .. i - 1 : j \notin W
    <3>1. W # {} /\ W \subseteq Nat \ {0}
      BY <1>2, <1>4
    <3> HIDE DEF W
    <3> QED
      BY <3>1, FirstIndex
  <2>2. \A i \in DOMAIN handlerlist : \A j \in 1 .. i - 1 : j \in DOMAIN handlerlist
    BY <1>1
  <2>3. \E i \in DOMAIN handlerlist : P(i) /\ \A j \in 1 .. i - 1 : ~P(j)
    BY <2>1, <2>2
  <2> HIDE DEF P
  <2>4. PICK i \in DOMAIN handlerlist : HandlerFor(condition) = handlerlist[i]
    BY <1>3, <1>4, <2>3
  <2> QED
    BY <2>4 DEF Elems
<1>5. HandlerFor(condition) # 0 => \E i \in DOMAIN handlerlist : P(i)
  BY <1>3
<1> QED
  BY <1>4, <1>5


LEMMA ThrowsTo ==
  ASSUME Sane
  PROVE  /\ CatchFor("top") \in Elems(catchlist)
         /\ \A condition : HandlerFor(condition) # 0 => HandlerFor(condition) \in Elems(catchlist)
         /\ Elems(catchlist) \subseteq Nat
<1>1. PICK n, b, p : /\ n = Here /\ b = Bindings /\ Told(n, b)
                     /\ p = PlacesOf(cstack, catchlist, handlerlist, Len(b.pdl))
  BY SaneIs
<1>2. n \in Nat /\ n >= 2 /\ n = Len(cstack) /\ catchlist \in Seq(Nat)
  BY <1>1 DEF Told, Here
<1>3. Laid(p, n, cstack, catchlist, handlerlist, Len(b.pdl)) /\ Sensible(p, n, b, cstack, text)
  BY <1>1, <1>2, GoodIs DEF Sane
<1>4. PICK j \in Nat : j = n + 1 /\ j - 1 = n /\ j >= 2 /\ j \in 1 .. n + 1
  BY <1>2
<1>5. Lists(p, j)
  BY <1>3, <1>4 DEF Sensible, Control, Sound
<1>6. p[j].next = catchlist /\ p[j].handlers = handlerlist
  BY <1>3, <1>4 DEF Laid
<1>7. Elems(handlerlist) \subseteq Elems(catchlist) /\ 1 \in Elems(catchlist)
  BY <1>4, <1>5, <1>6 DEF Lists
<1>8. cstack[1].kind = "catch" /\ cstack[1].tag = "top"
  <2>1. Marked(cstack, 1)
    <3>1. 1 \in 1 .. Len(cstack)
      BY <1>2
    <3> QED
      BY <1>1, <3>1 DEF Told, Stack
  <2> QED
    BY <2>1 DEF Marked
<1>9. CatchFor("top") \in Elems(catchlist)
  BY <1>7, <1>8, CatchForIs
<1>10. \A condition : HandlerFor(condition) # 0 => HandlerFor(condition) \in Elems(catchlist)
  BY <1>7, HandlerForIs
<1>11. Elems(catchlist) \subseteq Nat
  BY <1>2, ElemsHead
<1> QED
  BY <1>9, <1>10, <1>11

LEMMA ThrowPushed ==
  ASSUME Sane, NEW tag \in Tags, tag # "top", tag # "exit", NEW x \in Elems(catchlist),
         NEW f, f = Frame("throw", tag, x), Push(<<f>>),
         UNCHANGED <<specpdl, lists, value, levels, minibuf>>, quit_flag' \in BOOLEAN
  PROVE  Sane'
<1>1. PICK n, b : n = Here /\ b = Bindings /\ Told(n, b)
  BY SaneIs
<1>2. New(f, "throw", x)
  <2>1. "throw" \in Kinds /\ x \in Nat
    BY ThrowsTo DEF Kinds
  <2> QED
    BY <2>1, FrameIs
<1>3. cstack' = Append(cstack, f)
  BY PushIs
<1>4. catchlist' = catchlist /\ handlerlist' = handlerlist /\ text' = text /\ b = Bindings'
  BY <1>1, SameBindings DEF lists, minibuf
<1>5. PICK st2 : st2 = Append(cstack, f)
  OBVIOUS
<1>6. Good(cstack, catchlist, handlerlist, b, text) /\ Len(cstack) >= 2 /\ cstack \in Seq(FrameT)
  BY <1>1 DEF Sane, Told, Here
<1>7. /\ f \in FrameT /\ f.kind = "throw" /\ f.tag # "top" /\ ~f.on /\ f.pdl = Len(b.pdl)
      /\ f.next = catchlist /\ f.handlers = handlerlist /\ f.x \in Elems(catchlist)
  BY <1>1, <1>2 DEF New, Told
<1>8. Good(st2, catchlist, handlerlist, b, text)
  BY <1>5, <1>6, <1>7, ThrowKept
<1>9. Len(st2) >= 2
  BY <1>5, <1>6, <1>7
<1> QED
  BY <1>3, <1>4, <1>5, <1>8, <1>9, SaneNext

LEMMA SignalledKeeps ==
  ASSUME Sane, NEW condition \in {"error", "quit"}, Signalled(condition),
         UNCHANGED <<specpdl, lists, value, levels, minibuf>>, quit_flag' \in BOOLEAN
  PROVE  Sane'
<1>1. PICK x : x = IF HandlerFor(condition) = 0 THEN CatchFor("top") ELSE HandlerFor(condition)
  OBVIOUS
<1>2. x \in Elems(catchlist)
  BY <1>1, ThrowsTo
<1>3. PICK f : f = Frame("throw", condition, x)
  OBVIOUS
<1>4. Push(<<f>>)
  BY <1>1, <1>3 DEF Signalled
<1>5. condition \in Tags /\ condition # "top" /\ condition # "exit"
  BY TagsAre
<1> QED
  BY <1>2, <1>3, <1>4, <1>5, ThrowPushed

LEMMA SignalKeeps ==
  ASSUME Sane, Signal
  PROVE  Sane'
<1>1. Signalled("error") /\ UNCHANGED <<specpdl, lists, value, levels, minibuf>>
      /\ quit_flag' = quit_flag
  BY DEF Signal
<1>2. quit_flag' \in BOOLEAN
  BY <1>1 DEF Sane
<1> QED
  BY <1>1, <1>2, SignalledKeeps

LEMMA QuitKeeps ==
  ASSUME Sane, Quit \/ QuitEntry
  PROVE  Sane'
<1>1. Signalled("quit") /\ UNCHANGED <<specpdl, lists, value, levels, minibuf>>
      /\ quit_flag' = FALSE
  BY DEF Quit, QuitEntry
<1> QED
  BY <1>1, SignalledKeeps

LEMMA ThrowKeeps ==
  ASSUME Sane, NEW tag, NEW what \in Tags, what # "top", what # "exit", Throw(tag, what)
  PROVE  Sane'
<1>1. UNCHANGED <<specpdl, lists, value, levels, minibuf>> /\ quit_flag' \in BOOLEAN
  BY DEF Throw, Sane
<1>2. CASE CatchFor(tag) = 0
  <2>1. Signalled("error")
    BY <1>2 DEF Throw
  <2> QED
    BY <1>1, <2>1, SignalledKeeps
<1>3. CASE CatchFor(tag) # 0
  <2>1. PICK x, f : x = CatchFor(tag) /\ f = Frame("throw", what, x)
    OBVIOUS
  <2>2. Push(<<f>>)
    BY <1>3, <2>1 DEF Throw
  <2>3. x \in Elems(catchlist)
    BY <1>3, <2>1, CatchForIs
  <2> QED
    BY <1>1, <2>1, <2>2, <2>3, ThrowPushed
<1> QED
  BY <1>2, <1>3

LEMMA ControlGKeeps ==
  ASSUME Sane, ControlG
  PROVE  Sane'
<1>1. /\ cstack' = cstack /\ catchlist' = catchlist /\ handlerlist' = handlerlist /\ text' = text
      /\ Bindings' = Bindings /\ quit_flag' \in BOOLEAN
  BY SameBindings DEF ControlG, lists, minibuf
<1> QED
  BY <1>1 DEF Sane, Here

-----------------------------------------------------------------------------
(* Returns.                                                                *)

(* unbind_to begins.                                                       *)
LEMMA UnbindingIs ==
  ASSUME Sane, NEW pdl \in Nat
  PROVE  /\ Unbinding(pdl) \in FrameT /\ Unbinding(pdl).kind = "unbind"
         /\ Unbinding(pdl).next = catchlist /\ Unbinding(pdl).handlers = handlerlist
         /\ Unbinding(pdl).x = pdl /\ Unbinding(pdl).tag # "top"
<1>1. PICK g : g = Frame("unbind", "", pdl)
  OBVIOUS
<1>2. New(g, "unbind", pdl)
  <2>1. "unbind" \in Kinds
    BY DEF Kinds
  <2> QED
    BY <1>1, <2>1, PlainFrame, Zenon
<1>3. Unbinding(pdl) = [g EXCEPT !.on = quit_flag]
  BY <1>1, Zenon DEF Unbinding
<1>4. quit_flag \in BOOLEAN
  BY DEF Sane
<1>5. PICK f : f = [g EXCEPT !.on = quit_flag]
  OBVIOUS
<1>6. /\ f \in FrameT /\ f.kind = g.kind /\ f.next = g.next /\ f.handlers = g.handlers
      /\ f.x = g.x /\ f.tag = g.tag
  BY <1>2, <1>4, <1>5 DEF New, FrameT
<1> QED
  BY <1>2, <1>3, <1>5, <1>6 DEF New

LEMMA InsteadUnbinds ==
  ASSUME Sane, Top.kind \in {"let", "protect", "edit", "read"}, Instead(Unbinding(Top.pdl)),
         UNCHANGED <<specpdl, lists, value, levels, minibuf>>, quit_flag' \in BOOLEAN
  PROVE  Sane'
<1>1. PICK n, b : n = Here /\ b = Bindings /\ Told(n, b)
  BY SaneIs
<1>2. PICK f : f = Unbinding(Top.pdl)
  OBVIOUS
<1>3. /\ Good(cstack, catchlist, handlerlist, b, text) /\ n = Len(cstack) /\ n \in Nat /\ n >= 2
      /\ cstack \in Seq(FrameT) /\ cstack[n] = Top /\ Top \in FrameT
  BY <1>1 DEF Sane, Told, Here
<1>4. /\ f \in FrameT /\ f.kind = "unbind" /\ f.next = catchlist /\ f.handlers = handlerlist
      /\ f.x = Top.pdl /\ f.tag # "top"
  <2>1. Top.pdl \in Nat
    BY <1>3 DEF FrameT
  <2> QED
    BY <1>2, <2>1, UnbindingIs
<1>5. PICK st2 : st2 = Append(Front(cstack), f)
  OBVIOUS
<1>6. cstack' = st2
  BY <1>2, <1>5 DEF Instead
<1>7. Good(st2, catchlist, handlerlist, b, text)
  <2>1. cstack[n].kind \in {"let", "protect", "edit", "read"} /\ f.x = cstack[n].pdl
    BY <1>3, <1>4
  <2> QED
    BY <1>3, <1>4, <1>5, <2>1, ToUnbindKeeps
<1>8. Len(st2) >= 2
  <2>1. Swapped(cstack, st2, f, n)
    BY <1>3, <1>4, <1>5, SwappedIs
  <2> QED
    BY <1>3, <2>1 DEF Swapped
<1>9. catchlist' = catchlist /\ handlerlist' = handlerlist /\ text' = text /\ b = Bindings'
  BY <1>1, SameBindings DEF lists, minibuf
<1> QED
  BY <1>6, <1>7, <1>8, <1>9, SaneNext

LEMMA ReturnToUnbindKeeps ==
  ASSUME Sane, ReturnToUnbind
  PROVE  Sane'
BY InsteadUnbinds DEF ReturnToUnbind

LEMMA LeaveLoopKeeps ==
  ASSUME Sane, LeaveLoop
  PROVE  Sane'
<1>1. UNCHANGED <<specpdl, lists, value, levels, minibuf>> /\ Top.kind \in {"edit", "read"}
  BY DEF LeaveLoop
<1>2. CASE Top.tag = "abort"
  <2>1. Signalled("quit") /\ quit_flag' \in BOOLEAN
    BY <1>2 DEF LeaveLoop, Sane
  <2> QED
    BY <1>1, <2>1, SignalledKeeps
<1>3. CASE Top.tag # "abort"
  <2>1. Instead(Unbinding(Top.pdl)) /\ quit_flag' \in BOOLEAN
    BY <1>3 DEF LeaveLoop
  <2> QED
    BY <1>1, <2>1, InsteadUnbinds
<1> QED
  BY <1>2, <1>3


(* What the frame on top passes on.                                        *)
LEMMA PassedOn ==
  ASSUME Sane, NEW n, n = Here, NEW b, b = Bindings, NEW p,
         p = PlacesOf(cstack, catchlist, handlerlist, Len(b.pdl)),
         Top.kind \in {"catch", "case", "form", "unbind"}
  PROVE  /\ Top.kind # "case" => handlerlist = Top.handlers
         /\ Top.kind \in {"form", "unbind"} => catchlist = Top.next
         /\ Top.kind # "unbind" => p[n].start = Len(b.pdl)
         /\ Top.kind = "unbind" => p[n].start = Top.x /\ Top.x <= Len(b.pdl)
         /\ Firm(p, n, n)
<1>1. Told(n, b)
  BY SaneIs
<1>2. n \in Nat /\ n >= 2 /\ n = Len(cstack) /\ Top = cstack[n]
  BY <1>1 DEF Told, Here
<1>3. /\ Laid(p, n, cstack, catchlist, handlerlist, Len(b.pdl)) /\ Sensible(p, n, b, cstack, text)
      /\ Len(b.pdl) \in Nat
  BY <1>2, GoodIs DEF Sane
<1>4. n \in 1 .. n /\ n \in 1 .. n + 1
  BY <1>2
<1>5. /\ p[n] = Place(Top) /\ p[n + 1].next = catchlist /\ p[n + 1].handlers = handlerlist
      /\ p[n + 1].start = Len(b.pdl) /\ p \in [1 .. n + 1 -> Position]
  BY <1>2, <1>3, <1>4 DEF Laid
<1>6. /\ p[n].kind = Top.kind /\ p[n].next = Top.next /\ p[n].handlers = Top.handlers
      /\ p[n].start = Start(Top)
  BY <1>5, PlaceIs
<1>7. p[n].start \in Nat
  BY <1>4, <1>5, PlaceTypes
<1>8. Keeps(p, n) /\ Unbinds(p, n)
  BY <1>3, <1>4 DEF Sensible, Control, Chain
<1>9. CASE Top.kind # "unbind"
  <2>1. Own(Top.kind) = 0 /\ p[n].kind \notin {"unbind", "throw"}
    BY <1>6, <1>9 DEF Own
  <2>2. p[n + 1].start = p[n].start + 0
    BY <1>6, <1>8, <2>1 DEF Keeps
  <2>3. p[n].start = Len(b.pdl)
    BY <1>3, <1>5, <1>7, <2>2
  <2>4. Top.kind # "case" => handlerlist = Top.handlers
    BY <1>5, <1>6, <1>8, <2>1 DEF Keeps, Handling
  <2>5. Top.kind = "form" => catchlist = Top.next
    BY <1>5, <1>6, <1>8, <2>1 DEF Keeps, Catching
  <2>6. Firm(p, n, n)
    <3>1. \A l \in n .. n + 1 : l = n \/ l = n + 1
      BY <1>2
    <3> QED
      BY <1>3, <1>5, <2>3, <3>1 DEF Firm
  <2> QED
    BY <1>9, <2>3, <2>4, <2>5, <2>6
<1>10. CASE Top.kind = "unbind"
  <2>1. handlerlist = Top.handlers /\ catchlist = Top.next /\ p[n].start <= Len(b.pdl)
    BY <1>5, <1>6, <1>8, <1>10 DEF Unbinds
  <2>2. p[n].start = Top.x
    BY <1>6, <1>10 DEF Start
  <2>3. Firm(p, n, n)
    <3>1. \A l \in n .. n + 1 : l = n \/ l = n + 1
      BY <1>2
    <3>2. p[n].start <= p[n].start
      BY <1>7
    <3> QED
      BY <1>5, <2>1, <3>1, <3>2 DEF Firm
  <2> QED
    BY <1>10, <2>1, <2>2, <2>3
<1> QED
  BY <1>9, <1>10

(* A cut of the stack that leaves the command loop there.                  *)
LEMMA CutNext ==
  ASSUME Sane, NEW n, n = Here, NEW b, b = Bindings, NEW p,
         p = PlacesOf(cstack, catchlist, handlerlist, Len(b.pdl)), NEW m \in 3 .. n,
         p[m].start = Len(b.pdl), Firm(p, n, m), cstack[m].kind # "throw",
         NEW st2, st2 = SubSeq(cstack, 1, m - 1)
  PROVE  Good(st2, cstack[m].next, cstack[m].handlers, b, text) /\ Len(st2) >= 2
         /\ Stack(st2) /\ Len(st2) = m - 1 /\ \A i \in 1 .. m - 1 : st2[i] = cstack[i]
<1>1. Told(n, b)
  BY SaneIs
<1>2. /\ n \in Nat /\ n >= 2 /\ n = Len(cstack) /\ Stack(cstack) /\ m \in 2 .. n
      /\ Good(cstack, catchlist, handlerlist, b, text)
  BY <1>1 DEF Told, Here, Sane
<1>3. Good(st2, cstack[m].next, cstack[m].handlers, b, text)
  BY <1>2, CutKeeps, ZenonT(30)
<1>4. PICK k \in Nat : k = m - 1 /\ k \in 1 .. Len(cstack) /\ k >= 2
  BY <1>2
<1>5. Stack(st2) /\ Len(st2) = k /\ \A i \in 1 .. k : st2[i] = cstack[i]
  BY <1>2, <1>4, StackCut, ZenonT(30)
<1> QED
  BY <1>3, <1>4, <1>5

LEMMA PopKeeps ==
  ASSUME Sane, Top.kind \in {"catch", "case", "form", "unbind"}, Top.kind = "catch" => Top.tag = "tag",
         Top.kind = "unbind" => Len(specpdl) <= Top.x, Pop, catchlist' = Top.next,
         handlerlist' = Top.handlers, UNCHANGED <<specpdl, value, levels, minibuf>>,
         quit_flag' \in BOOLEAN
  PROVE  Sane'
<1>1. PICK n, b, p : /\ n = Here /\ b = Bindings /\ Told(n, b)
                     /\ p = PlacesOf(cstack, catchlist, handlerlist, Len(b.pdl))
  BY SaneIs
<1>2. n \in Nat /\ n >= 2 /\ n = Len(cstack) /\ Top = cstack[n] /\ Marked(cstack, n) /\ b.pdl = specpdl
      /\ Len(b.pdl) \in Nat /\ Top.x \in Nat
  BY <1>1 DEF Told, Here, FrameT
<1>3. n >= 3
  <2>1. n # 2
    BY <1>2 DEF Marked
  <2> QED
    BY <1>2, <2>1
<1>4. p[n].start = Len(b.pdl) /\ Firm(p, n, n)
  <2>1. Firm(p, n, n) /\ (Top.kind # "unbind" => p[n].start = Len(b.pdl))
        /\ (Top.kind = "unbind" => p[n].start = Top.x /\ Top.x <= Len(b.pdl))
    BY <1>1, PassedOn
  <2> QED
    BY <1>2, <2>1
<1>5. PICK st2 : st2 = SubSeq(cstack, 1, n - 1)
  OBVIOUS
<1>6. n \in 3 .. n
  BY <1>2, <1>3
<1>7. Good(st2, Top.next, Top.handlers, b, text) /\ Len(st2) >= 2
  BY <1>1, <1>2, <1>4, <1>5, <1>6, CutNext
<1>8. cstack' = st2
  BY <1>2, <1>5 DEF Pop, Front
<1>9. text' = text /\ b = Bindings'
  BY <1>1, SameBindings DEF minibuf
<1> QED
  BY <1>7, <1>8, <1>9, SaneNext

LEMMA ReturnFromCatchKeeps ==
  ASSUME Sane, ReturnFromCatch
  PROVE  Sane'
<1>1. /\ Top.kind \in {"catch", "case"} /\ (Top.kind = "catch" => Top.tag = "tag") /\ Pop
      /\ catchlist' = Top.next /\ UNCHANGED <<specpdl, value, levels, minibuf>>
      /\ quit_flag' = quit_flag
  BY DEF ReturnFromCatch, Is
<1>2. handlerlist' = Top.handlers
  <2>1. Top.kind # "case" => handlerlist = Top.handlers
    BY <1>1, PassedOn
  <2> QED
    BY <1>1, <2>1 DEF ReturnFromCatch, HandlersAfter, Is
<1>3. quit_flag' \in BOOLEAN
  BY <1>1 DEF Sane
<1> QED
  BY <1>1, <1>2, <1>3, PopKeeps

LEMMA ReturnFromFormKeeps ==
  ASSUME Sane, ReturnFromForm
  PROVE  Sane'
<1>1. /\ Top.kind = "form" /\ Pop /\ catchlist' = catchlist /\ handlerlist' = handlerlist
      /\ UNCHANGED <<specpdl, value, levels, minibuf>> /\ quit_flag' = quit_flag
  BY DEF ReturnFromForm, Is, lists
<1>2. handlerlist = Top.handlers /\ catchlist = Top.next
  BY <1>1, PassedOn
<1>3. quit_flag' \in BOOLEAN
  BY <1>1 DEF Sane
<1> QED
  BY <1>1, <1>2, <1>3, PopKeeps

LEMMA UnboundKeeps ==
  ASSUME Sane, Unbound
  PROVE  Sane'
<1>1. /\ Top.kind = "unbind" /\ Pop /\ catchlist' = catchlist /\ handlerlist' = handlerlist
      /\ UNCHANGED <<specpdl, value, levels, minibuf>> /\ quit_flag' = (quit_flag \/ Top.on)
      /\ Len(specpdl) <= Top.x
  BY DEF Unbound, Is, lists, QuitAfter
<1>2. handlerlist = Top.handlers /\ catchlist = Top.next
  BY <1>1, PassedOn
<1>3. quit_flag' \in BOOLEAN
  BY <1>1
<1> QED
  BY <1>1, <1>2, <1>3, PopKeeps

-----------------------------------------------------------------------------
(* unbind_to.                                                              *)
Closes(b, c, e) ==
  /\ c.pdl = Front(b.pdl) /\ c.saved = b.saved
  /\ IF e.kind = "let" THEN c.value = e.old ELSE c.value = b.value
  /\ IF e.kind = "windows" THEN c.shown = e.old ELSE c.shown = b.shown
  /\ c.edits = IF e.kind = "edit" THEN b.edits - 1 ELSE b.edits
  /\ c.reads = IF e.kind = "minibuf" THEN b.reads - 1 ELSE b.reads
  /\ c.prompt = IF e.kind = "minibuf" THEN b.saved[b.reads - 1] ELSE b.prompt

LEMMA UnbindGood ==
  ASSUME Sane, NEW kind, Unbind(kind), NEW b, b = Bindings, NEW e, e = specpdl[Len(specpdl)],
         NEW c, Closes(b, c, e), NEW tx2,
         tx2 = IF kind = "minibuf" THEN [text EXCEPT ![shown] = FALSE] ELSE text
  PROVE  /\ Good(cstack, catchlist, handlerlist, c, tx2) /\ Len(c.pdl) + 1 = Len(specpdl)
         /\ BindingsTyped(c) /\ Counted(c) /\ Len(c.pdl) \in Nat
<1>1. PICK n : n = Here /\ Told(n, b)
  BY SaneIs
<1>2. /\ n = Len(cstack) /\ Good(cstack, catchlist, handlerlist, b, text) /\ text \in Texts
      /\ cstack[n].kind = "unbind" /\ cstack[n].x < Len(specpdl) /\ e.kind = kind
      /\ specpdl' = Front(specpdl) /\ cstack[n].x \in Nat
  BY <1>1 DEF Told, Here, Sane, Unbind, Is, FrameT
<1>3. /\ BindingsTyped(b) /\ Counted(b) /\ b.pdl = specpdl /\ specpdl \in Seq(Entries)
      /\ b.shown = shown /\ b.reads = minibuf_level
  BY <1>1 DEF Told
<1>4. PICK k \in Nat : k = Len(specpdl) - 1 /\ Len(specpdl) = k + 1 /\ k + 1 >= 1
  <2>1. PICK u, x : u = Len(specpdl) /\ x = cstack[n].x
    OBVIOUS
  <2>2. u \in Nat /\ x \in Nat /\ x < u
    BY <1>2, <1>3, <2>1
  <2>3. PICK k \in Nat : k = u - 1 /\ u = k + 1 /\ k + 1 >= 1
    BY <2>2
  <2> QED
    BY <2>1, <2>3
<1>5. Len(c.pdl) = k /\ \A i \in 1 .. k : c.pdl[i] = b.pdl[i]
  <2>1. c.pdl = Front(specpdl) /\ Len(specpdl) >= 1
    BY <1>3, <1>4 DEF Closes
  <2>2. Len(c.pdl) = Len(specpdl) - 1 /\ \A i \in 1 .. Len(specpdl) - 1 : c.pdl[i] = specpdl[i]
    BY <1>3, <2>1, FrontIs
  <2> QED
    BY <1>3, <1>4, <2>2
<1>6. /\ Counted(c) /\ BindingsTyped(c)
      /\ e.kind = "minibuf" => b.reads >= 1 /\ b.shown = b.reads - 1
      /\ \A d \in Nat : \A r : d <= Len(b.pdl) - 1 /\ Restores(b, d, r) => Restores(c, d, r)
  <2>1. Len(b.pdl) >= 1 /\ e = b.pdl[Len(b.pdl)]
    BY <1>3, <1>4
  <2>2. /\ c.pdl = Front(b.pdl) /\ c.saved = b.saved
        /\ IF e.kind = "let" THEN c.value = e.old ELSE c.value = b.value
        /\ IF e.kind = "windows" THEN c.shown = e.old ELSE c.shown = b.shown
        /\ c.edits = IF e.kind = "edit" THEN b.edits - 1 ELSE b.edits
        /\ c.reads = IF e.kind = "minibuf" THEN b.reads - 1 ELSE b.reads
        /\ c.prompt = IF e.kind = "minibuf" THEN b.saved[b.reads - 1] ELSE b.prompt
    BY DEF Closes
  <2> QED
    BY <1>3, <2>1, <2>2, PopKept
<1>7. ASSUME NEW d \in 0 .. Len(c.pdl) PROVE Undoes(b, c, d)
  <2>1. d \in Nat /\ d <= k /\ (d >= 1 => d \in 1 .. k)
    BY <1>5
  <2> QED
    BY <1>3, <1>4, <1>5, <1>6, <2>1 DEF Undoes
<1>8. tx2 \in Texts /\ \A l \in 0 .. MaxMinibuf - 1 : tx2[l] # text[l] => c.reads <= l
  <2>1. CASE kind = "minibuf"
    <3>1. c.reads = shown
      BY <1>2, <1>3, <1>6, <2>1 DEF Closes
    <3>2. tx2 \in Texts /\ \A l \in 0 .. MaxMinibuf - 1 : tx2[l] # text[l] => l = shown
      BY <1>2, <2>1 DEF Texts
    <3>3. \A l \in 0 .. MaxMinibuf - 1 : l <= l
      BY UnwindingAssumption
    <3> QED
      BY <3>1, <3>2, <3>3
  <2>2. CASE kind # "minibuf"
    BY <1>2, <2>2
  <2> QED
    BY <2>1, <2>2
<1>9. Good(cstack, catchlist, handlerlist, c, tx2)
  <2>1. cstack[n].x <= Len(c.pdl) /\ Len(b.pdl) = Len(c.pdl) + 1
    BY <1>2, <1>3, <1>4, <1>5
  <2> QED
    BY <1>2, <1>6, <1>7, <1>8, <2>1, UnbindKeeps
<1> QED
  BY <1>4, <1>5, <1>6, <1>9


LEMMA UnbindStays ==
  ASSUME Sane, NEW kind, Unbind(kind), NEW b, b = Bindings, NEW e, e = specpdl[Len(specpdl)],
         NEW c, c = Bindings', Closes(b, c, e), UNCHANGED <<cstack, lists, quit_flag>>,
         text' = IF kind = "minibuf" THEN [text EXCEPT ![shown] = FALSE] ELSE text
  PROVE  Sane'
<1>1. PICK tx2 : tx2 = IF kind = "minibuf" THEN [text EXCEPT ![shown] = FALSE] ELSE text
  OBVIOUS
<1>2. Good(cstack, catchlist, handlerlist, c, tx2)
  BY <1>1, UnbindGood
<1>3. /\ cstack' = cstack /\ catchlist' = catchlist /\ handlerlist' = handlerlist /\ text' = tx2
      /\ quit_flag' = quit_flag
  BY <1>1 DEF lists
<1>4. Len(cstack) >= 2 /\ quit_flag' \in BOOLEAN
  BY <1>3 DEF Sane, Here
<1> QED
  BY <1>2, <1>3, <1>4, SaneNext

(* The entry that is taken, and the variables that it leaves alone.        *)
LEMMA UnbindIs ==
  ASSUME Sane, NEW kind, Unbind(kind), NEW b, b = Bindings, NEW e, e = specpdl[Len(specpdl)],
         NEW c, c = Bindings'
  PROVE  /\ e.kind = kind /\ c.pdl = Front(b.pdl) /\ c.saved = saved' /\ b.saved = saved
         /\ c.value = value' /\ b.value = value /\ c.shown = shown' /\ b.shown = shown
         /\ c.edits = Depth' /\ b.edits = Depth
         /\ c.reads = minibuf_level' /\ b.reads = minibuf_level
         /\ c.prompt = prompt' /\ b.prompt = prompt
<1>1. Told(Here, b)
  BY SaneIs
<1>2. e.kind = kind /\ specpdl' = Front(specpdl)
  BY DEF Unbind
<1> QED
  BY <1>1, <1>2, NextBindings DEF Told

LEMMA UnbindLetKeeps ==
  ASSUME Sane, UnbindLet
  PROVE  Sane'
<1>1. PICK kind, b, c, e : kind = "let" /\ b = Bindings /\ c = Bindings' /\ e = specpdl[Len(specpdl)]
  OBVIOUS
<1>2. /\ Unbind(kind) /\ value' = e.old /\ UNCHANGED <<cstack, lists, quit_flag>>
      /\ Depth' = Depth /\ minibuf_level' = minibuf_level
      /\ prompt' = prompt /\ saved' = saved /\ shown' = shown /\ text' = text
  BY <1>1 DEF UnbindLet, levels, minibuf, Depth
<1>3. Closes(b, c, e)
  <2>1. /\ e.kind = kind /\ c.pdl = Front(b.pdl) /\ c.saved = saved' /\ b.saved = saved
        /\ c.value = value' /\ b.value = value /\ c.shown = shown' /\ b.shown = shown
        /\ c.edits = Depth' /\ b.edits = Depth
        /\ c.reads = minibuf_level' /\ b.reads = minibuf_level
        /\ c.prompt = prompt' /\ b.prompt = prompt
    BY <1>1, <1>2, UnbindIs
  <2> QED
    BY <1>1, <1>2, <2>1 DEF Closes
<1> QED
  BY <1>1, <1>2, <1>3, UnbindStays

LEMMA UnbindEditKeeps ==
  ASSUME Sane, Counts, UnbindEdit
  PROVE  Sane'
<1>1. PICK kind, b, c, e : kind = "edit" /\ b = Bindings /\ c = Bindings' /\ e = specpdl[Len(specpdl)]
  OBVIOUS
<1>2. /\ Unbind(kind) /\ value' = value /\ UNCHANGED <<cstack, lists, quit_flag>>
      /\ Depth' = Depth - 1 /\ minibuf_level' = minibuf_level
      /\ prompt' = prompt /\ saved' = saved /\ shown' = shown /\ text' = text
  BY <1>1 DEF UnbindEdit, minibuf, Counts, Depth
<1>3. Closes(b, c, e)
  <2>1. /\ e.kind = kind /\ c.pdl = Front(b.pdl) /\ c.saved = saved' /\ b.saved = saved
        /\ c.value = value' /\ b.value = value /\ c.shown = shown' /\ b.shown = shown
        /\ c.edits = Depth' /\ b.edits = Depth
        /\ c.reads = minibuf_level' /\ b.reads = minibuf_level
        /\ c.prompt = prompt' /\ b.prompt = prompt
    BY <1>1, <1>2, UnbindIs
  <2> QED
    BY <1>1, <1>2, <2>1 DEF Closes
<1> QED
  BY <1>1, <1>2, <1>3, UnbindStays

LEMMA UnbindWindowsKeeps ==
  ASSUME Sane, UnbindWindows
  PROVE  Sane'
<1>1. PICK kind, b, c, e :
        kind = "windows" /\ b = Bindings /\ c = Bindings' /\ e = specpdl[Len(specpdl)]
  OBVIOUS
<1>2. /\ Unbind(kind) /\ value' = value /\ UNCHANGED <<cstack, lists, quit_flag>>
      /\ Depth' = Depth /\ minibuf_level' = minibuf_level
      /\ prompt' = prompt /\ saved' = saved /\ shown' = e.old /\ text' = text
  BY <1>1 DEF UnbindWindows, levels, Depth
<1>3. Closes(b, c, e)
  <2>1. /\ e.kind = kind /\ c.pdl = Front(b.pdl) /\ c.saved = saved' /\ b.saved = saved
        /\ c.value = value' /\ b.value = value /\ c.shown = shown' /\ b.shown = shown
        /\ c.edits = Depth' /\ b.edits = Depth
        /\ c.reads = minibuf_level' /\ b.reads = minibuf_level
        /\ c.prompt = prompt' /\ b.prompt = prompt
    BY <1>1, <1>2, UnbindIs
  <2> QED
    BY <1>1, <1>2, <2>1 DEF Closes
<1> QED
  BY <1>1, <1>2, <1>3, UnbindStays

LEMMA UnbindMinibufKeeps ==
  ASSUME Sane, UnbindMinibuf
  PROVE  Sane'
<1>1. PICK kind, b, c, e :
        kind = "minibuf" /\ b = Bindings /\ c = Bindings' /\ e = specpdl[Len(specpdl)]
  OBVIOUS
<1>2. /\ Unbind(kind) /\ value' = value /\ UNCHANGED <<cstack, lists, quit_flag>>
      /\ Depth' = Depth /\ minibuf_level' = minibuf_level - 1
      /\ prompt' = saved[minibuf_level - 1] /\ saved' = saved /\ shown' = shown
      /\ text' = [text EXCEPT ![shown] = FALSE]
  BY <1>1 DEF UnbindMinibuf, Depth
<1>3. Closes(b, c, e)
  <2>1. /\ e.kind = kind /\ c.pdl = Front(b.pdl) /\ c.saved = saved' /\ b.saved = saved
        /\ c.value = value' /\ b.value = value /\ c.shown = shown' /\ b.shown = shown
        /\ c.edits = Depth' /\ b.edits = Depth
        /\ c.reads = minibuf_level' /\ b.reads = minibuf_level
        /\ c.prompt = prompt' /\ b.prompt = prompt
    BY <1>1, <1>2, UnbindIs
  <2> QED
    BY <1>1, <1>2, <2>1 DEF Closes
<1> QED
  BY <1>1, <1>2, <1>3, UnbindStays

(* An unwind function that is called, with its entry gone.                 *)
LEMMA FormKeeps ==
  ASSUME Sane, NEW kind, kind # "minibuf", Unbind(kind), NEW b, b = Bindings,
         NEW e, e = specpdl[Len(specpdl)], NEW c, c = Bindings', Closes(b, c, e),
         NEW f, New(f, "form", 0), Push(<<f>>), UNCHANGED <<lists, quit_flag>>, text' = text
  PROVE  Sane'
<1>1. PICK n : n = Here /\ Told(n, b)
  BY SaneIs
<1>2. PICK st2 : st2 = Append(cstack, f)
  OBVIOUS
<1>3. cstack' = st2
  BY <1>2, PushIs
<1>4. /\ Good(cstack, catchlist, handlerlist, c, text) /\ Len(c.pdl) + 1 = Len(specpdl)
      /\ BindingsTyped(c) /\ Counted(c) /\ Len(c.pdl) \in Nat
  <2>1. PICK tx2 : tx2 = IF kind = "minibuf" THEN [text EXCEPT ![shown] = FALSE] ELSE text
    OBVIOUS
  <2>2. Good(cstack, catchlist, handlerlist, c, tx2)
    BY <2>1, UnbindGood
  <2>3. Len(c.pdl) + 1 = Len(specpdl) /\ Len(c.pdl) \in Nat
    BY <2>1, UnbindGood
  <2>4. BindingsTyped(c) /\ Counted(c)
    BY <2>1, UnbindGood
  <2>5. tx2 = text
    BY <2>1
  <2> QED
    BY <2>2, <2>3, <2>4, <2>5
<1>5. f \in FrameT /\ f.kind = "form" /\ f.pdl = Len(c.pdl) + 1 /\ f.tag # "top" /\ f.tag # "exit"
      /\ f.next = catchlist /\ f.handlers = handlerlist
  BY <1>4 DEF New
<1>6. n = Len(cstack) /\ n >= 2 /\ n \in Nat /\ cstack[n].kind = "unbind" /\ cstack \in Seq(FrameT)
  BY <1>1 DEF Told, Here, Unbind, Is
<1>7. st2[n + 1] = f /\ Len(st2) = n + 1
  BY <1>2, <1>5, <1>6, AppendIs
<1>8. Marked(st2, n + 1)
  <2>1. n + 1 # 1 /\ n + 1 # 2 /\ f.pdl >= 1
    BY <1>4, <1>5, <1>6
  <2> QED
    BY <1>5, <1>7, <2>1 DEF Marked
<1>9. Pushes(n, catchlist, handlerlist, c, f, c)
  <2>1. Start(f) = Len(c.pdl)
    BY <1>4, <1>5 DEF Start
  <2>2. Follows(f, n + 1, Current(c), Current(c))
    BY <1>5, SameFollows
  <2>3. Len(c.pdl) <= Len(c.pdl) /\ Len(c.pdl) <= Len(c.pdl) + 1
    BY <1>4
  <2> QED
    BY <1>5, <2>1, <2>2, <2>3, UndoesSelf DEF Pushes
<1>10. Plain(n, catchlist, handlerlist, c, f, catchlist, handlerlist, c)
  <2>1. f.kind \notin {"throw", "unbind", "read", "entry"} \union Catching \union Handling
    BY <1>5 DEF Catching, Handling
  <2>2. Len(c.pdl) = Len(c.pdl) + Own(f.kind)
    BY <1>4, <1>5 DEF Own
  <2> QED
    BY <2>1, <2>2 DEF Plain
<1>11. Good(st2, catchlist, handlerlist, c, text)
  <2>1. cstack[n].kind # "entry"
    BY <1>6
  <2> QED
    BY <1>2, <1>4, <1>6, <1>8, <1>9, <1>10, <2>1, PlainKept
<1> QED
  <2>1. Len(st2) >= 2
    BY <1>6, <1>7
  <2>2. quit_flag' \in BOOLEAN /\ catchlist' = catchlist /\ handlerlist' = handlerlist
    BY DEF Sane, lists
  <2> QED
    BY <1>1, <1>3, <1>11, <2>1, <2>2, SaneNext

LEMMA UnbindFormKeeps ==
  ASSUME Sane, UnbindForm
  PROVE  Sane'
<1>1. PICK kind, b, c, e : kind = "form" /\ b = Bindings /\ c = Bindings' /\ e = specpdl[Len(specpdl)]
  OBVIOUS
<1>2. /\ Unbind(kind) /\ UNCHANGED <<value, lists, quit_flag>>
      /\ Depth' = Depth /\ minibuf_level' = minibuf_level
      /\ prompt' = prompt /\ saved' = saved /\ shown' = shown /\ text' = text
  BY <1>1 DEF UnbindForm, levels, minibuf, Depth
<1>3. Closes(b, c, e)
  <2>1. /\ e.kind = kind /\ c.pdl = Front(b.pdl) /\ c.saved = saved' /\ b.saved = saved
        /\ c.value = value' /\ b.value = value /\ c.shown = shown' /\ b.shown = shown
        /\ c.edits = Depth' /\ b.edits = Depth
        /\ c.reads = minibuf_level' /\ b.reads = minibuf_level
        /\ c.prompt = prompt' /\ b.prompt = prompt
    BY <1>1, <1>2, UnbindIs
  <2> QED
    BY <1>1, <1>2, <2>1 DEF Closes
<1>4. PICK f : f = Frame("form", "", 0)
  OBVIOUS
<1>5. New(f, "form", 0)
  <2>1. "form" \in Kinds /\ 0 \in Nat
    BY DEF Kinds
  <2> QED
    BY <1>4, <2>1, PlainFrame, Zenon
<1>6. Push(<<f>>)
  BY <1>4, Zenon DEF UnbindForm
<1> QED
  BY <1>1, <1>2, <1>3, <1>5, <1>6, FormKeeps

LEMMA UnbindEditKilledKeeps ==
  ASSUME Sane, Counts, UnbindEditKilled
  PROVE  Sane'
<1>1. PICK kind, b, c, e : kind = "edit" /\ b = Bindings /\ c = Bindings' /\ e = specpdl[Len(specpdl)]
  OBVIOUS
<1>2. /\ Unbind(kind) /\ UNCHANGED <<value, lists, quit_flag>>
      /\ Depth' = Depth - 1 /\ minibuf_level' = minibuf_level
      /\ prompt' = prompt /\ saved' = saved /\ shown' = shown /\ text' = text
  BY <1>1 DEF UnbindEditKilled, minibuf, Counts, Depth
<1>3. Closes(b, c, e)
  <2>1. /\ e.kind = kind /\ c.pdl = Front(b.pdl) /\ c.saved = saved' /\ b.saved = saved
        /\ c.value = value' /\ b.value = value /\ c.shown = shown' /\ b.shown = shown
        /\ c.edits = Depth' /\ b.edits = Depth
        /\ c.reads = minibuf_level' /\ b.reads = minibuf_level
        /\ c.prompt = prompt' /\ b.prompt = prompt
    BY <1>1, <1>2, UnbindIs
  <2> QED
    BY <1>1, <1>2, <2>1 DEF Closes
<1>4. PICK f : f = Frame("form", "killed", 0)
  OBVIOUS
<1>5. New(f, "form", 0)
  <2>1. "form" \in Kinds /\ 0 \in Nat
    BY DEF Kinds
  <2>2. "killed" \in Tags /\ "killed" # "top" /\ "killed" # "exit"
    BY TagsAre
  <2> QED
    BY <1>4, <2>1, <2>2, FrameIs, Zenon
<1>6. Push(<<f>>)
  BY <1>4, Zenon DEF UnbindEditKilled
<1> QED
  BY <1>1, <1>2, <1>3, <1>5, <1>6, FormKeeps


LEMMA TypeInputKeeps ==
  ASSUME Sane, TypeInput
  PROVE  Sane'
<1>1. PICK n, b : n = Here /\ b = Bindings /\ Told(n, b)
  BY SaneIs
<1>2. /\ Top.kind = "loop" /\ n > 2 /\ cstack[n - 2].kind = "read"
      /\ text' = [text EXCEPT ![shown] = TRUE] /\ cstack' = [cstack EXCEPT ![n - 2].on = TRUE]
      /\ UNCHANGED <<specpdl, lists, value, quit_flag, levels>> /\ prompt' = prompt
      /\ saved' = saved /\ shown' = shown
  BY <1>1 DEF TypeInput, Is
<1>3. n = Len(cstack) /\ n \in Nat /\ cstack \in Seq(FrameT) /\ Top = cstack[n] /\ b.shown = shown
  BY <1>1 DEF Told, Here
<1>4. PICK f, g : f = cstack[n - 2] /\ g = [f EXCEPT !.on = TRUE]
  OBVIOUS
<1>5. n - 2 \in 1 .. Len(cstack)
  BY <1>2, <1>3
<1>6. f \in FrameT
  BY <1>3, <1>4, <1>5
<1>7. /\ g \in FrameT /\ g.kind = f.kind /\ g.tag = f.tag /\ g.pdl = f.pdl /\ g.next = f.next
      /\ g.handlers = f.handlers /\ g.x = f.x /\ g.on = TRUE
  BY <1>4, <1>6 DEF FrameT
<1>8. PICK st2, tx2 : st2 = [cstack EXCEPT ![n - 2] = g] /\ tx2 = [text EXCEPT ![b.shown] = TRUE]
  OBVIOUS
<1>9. cstack' = st2
  BY <1>2, <1>4, <1>8, Zenon
<1>10. Good(st2, catchlist, handlerlist, b, tx2)
  <2>1. Good(cstack, catchlist, handlerlist, b, text)
    BY <1>1 DEF Sane
  <2>2. n > 2 /\ cstack[n].kind = "loop" /\ f.kind = "read" /\ g.kind = "read"
    BY <1>2, <1>3, <1>4, <1>7
  <2>3. n = Len(cstack) /\ f = cstack[n - 2]
    BY <1>3, <1>4
  <2> QED
    BY <1>7, <1>8, <2>1, <2>2, <2>3, TypeKeeps
<1>11. Len(st2) >= 2
  <2>1. Len(st2) = Len(cstack)
    BY <1>3, <1>5, <1>7, <1>8, ExceptIs
  <2> QED
    BY <1>2, <1>3, <2>1
<1>12. /\ catchlist' = catchlist /\ handlerlist' = handlerlist /\ text' = tx2 /\ quit_flag' \in BOOLEAN
       /\ Bindings' = b
  <2>1. text' = tx2
    BY <1>2, <1>3, <1>8
  <2>2. Bindings' = Bindings
    BY <1>2, SameBindings
  <2> QED
    BY <1>1, <1>2, <2>1, <2>2 DEF lists, Sane
<1> QED
  <2>1. Good(cstack', catchlist', handlerlist', Bindings', text') /\ Len(cstack') >= 2
    BY <1>9, <1>10, <1>11, <1>12
  <2> QED
    BY <1>12, <2>1, SaneNext

LEMMA ThrowIsOn ==
  ASSUME Sane, Is("throw"), NEW n, n = Here
  PROVE  /\ n \in Nat /\ n >= 3 /\ n = Len(cstack) /\ cstack[n] \in FrameT /\ Top = cstack[n]
         /\ Top.kind = "throw" /\ Top.tag # "top" /\ cstack \in Seq(FrameT)
         /\ Head(catchlist) \in Elems(catchlist) /\ Top.x \in Elems(catchlist)
         /\ \A c \in Elems(catchlist) : c \in 1 .. n - 1 /\ cstack[c] \in FrameT
<1>1. PICK b : b = Bindings /\ Told(n, b)
  BY SaneIs
<1>2. n \in Nat /\ n = Len(cstack) /\ Top = cstack[n] /\ cstack \in Seq(FrameT) /\ Marked(cstack, n)
      /\ cstack[n] \in FrameT
  BY <1>1 DEF Told, Here
<1>3. Top.kind = "throw"
  BY DEF Is
<1>4. PICK p, h : p = PlacesOf(cstack, catchlist, handlerlist, Len(b.pdl)) /\ h = Head(catchlist)
  OBVIOUS
<1>5. Thrown(p, n, cstack, catchlist, handlerlist, b, h)
  <2>1. Good(cstack, catchlist, handlerlist, b, text)
    BY <1>1 DEF Sane
  <2> QED
    BY <1>2, <1>3, <1>4, <2>1, ThrowIs
<1>6. n >= 3 /\ h \in Elems(catchlist) /\ Top.x \in Elems(catchlist)
      /\ \A c \in Elems(catchlist) : c \in 1 .. n - 1
  BY <1>2, <1>5 DEF Thrown
<1>7. Top.tag # "top"
  <2>1. n # 1
    BY <1>2, <1>6
  <2> QED
    BY <1>2, <2>1 DEF Marked
<1>8. \A c \in Elems(catchlist) : cstack[c] \in FrameT
  <2>1. \A c \in 1 .. n - 1 : c \in 1 .. Len(cstack)
    BY <1>2
  <2> QED
    BY <1>2, <1>6, <2>1
<1> QED
  BY <1>2, <1>3, <1>4, <1>6, <1>7, <1>8

LEMMA DropCatchKeeps ==
  ASSUME Sane, DropCatch
  PROVE  Sane'
<1>1. PICK n, b, h : n = Here /\ b = Bindings /\ h = Head(catchlist)
  OBVIOUS
<1>2. PICK f : f = [Top EXCEPT !.on = FALSE]
  OBVIOUS
<1>3. /\ Is("throw") /\ Top.on /\ h # Top.x /\ handlerlist' = cstack[h].handlers
      /\ catchlist' = cstack[h].next /\ cstack' = Append(Front(cstack), f)
      /\ UNCHANGED <<specpdl, value, quit_flag, levels, minibuf>>
  BY <1>1, <1>2 DEF DropCatch, Instead
<1>4. /\ n \in Nat /\ n >= 3 /\ n = Len(cstack) /\ cstack[n] \in FrameT /\ Top = cstack[n]
      /\ Top.kind = "throw" /\ Top.tag # "top" /\ cstack \in Seq(FrameT)
  BY <1>1, <1>3, ThrowIsOn
<1>5. /\ f \in FrameT /\ f.kind = Top.kind /\ f.tag = Top.tag /\ f.pdl = Top.pdl /\ f.next = Top.next
      /\ f.handlers = Top.handlers /\ f.x = Top.x /\ f.on = FALSE
  BY <1>2, <1>4 DEF FrameT
<1>6. PICK st2, ca2, ha2 : /\ st2 = Append(Front(cstack), f) /\ ca2 = cstack[h].next
                           /\ ha2 = cstack[h].handlers
  OBVIOUS
<1>7. Good(st2, ca2, ha2, b, text)
  <2>1. Good(cstack, catchlist, handlerlist, b, text)
    BY <1>1 DEF Sane
  <2>2. cstack[n].kind = "throw" /\ cstack[n].on /\ h # cstack[n].x
    BY <1>3, <1>4
  <2> QED
    BY <1>1, <1>4, <1>5, <1>6, <2>1, <2>2, DropKeeps
<1>8. Len(st2) >= 2
  <2>1. Swapped(cstack, st2, f, n)
    BY <1>4, <1>5, <1>6, SwappedIs
  <2> QED
    BY <1>4, <2>1 DEF Swapped
<1>9. Bindings' = b /\ text' = text /\ quit_flag' \in BOOLEAN
  <2>1. Bindings' = Bindings
    BY <1>3, SameBindings DEF minibuf
  <2> QED
    BY <1>1, <1>3, <2>1 DEF Sane, minibuf
<1> QED
  BY <1>3, <1>6, <1>7, <1>8, <1>9, SaneNext

LEMMA UnwindCatchKeeps ==
  ASSUME Sane, UnwindCatch
  PROVE  Sane'
<1>1. PICK n, b, h : n = Here /\ b = Bindings /\ h = Head(catchlist)
  OBVIOUS
<1>2. PICK f, g : f = [Top EXCEPT !.on = TRUE] /\ g = Unbinding(cstack[h].pdl)
  OBVIOUS
<1>3. /\ Is("throw") /\ quit_flag' = FALSE /\ cstack' = Front(cstack) \o <<f, g>>
      /\ UNCHANGED <<specpdl, lists, value, levels, minibuf>>
  BY <1>1, <1>2 DEF UnwindCatch
<1>4. /\ n \in Nat /\ n >= 3 /\ n = Len(cstack) /\ cstack[n] \in FrameT /\ Top = cstack[n]
      /\ Top.kind = "throw" /\ Top.tag # "top" /\ cstack \in Seq(FrameT) /\ cstack[h] \in FrameT
  BY <1>1, <1>3, ThrowIsOn
<1>5. /\ f \in FrameT /\ f.kind = Top.kind /\ f.tag = Top.tag /\ f.pdl = Top.pdl /\ f.next = Top.next
      /\ f.handlers = Top.handlers /\ f.x = Top.x /\ f.on = TRUE
  BY <1>2, <1>4 DEF FrameT
<1>6. /\ g \in FrameT /\ g.kind = "unbind" /\ g.next = catchlist /\ g.handlers = handlerlist
      /\ g.x = cstack[h].pdl /\ g.tag # "top"
  <2>1. PICK d \in Nat : d = cstack[h].pdl
    BY <1>4 DEF FrameT
  <2>2. g = Unbinding(d)
    BY <1>2, <2>1
  <2> QED
    BY <2>1, <2>2, UnbindingIs
<1>7. PICK s, st2 : s = Append(Front(cstack), f) /\ st2 = Append(s, g)
  OBVIOUS
<1>8. Good(st2, catchlist, handlerlist, b, text)
  <2>1. Good(cstack, catchlist, handlerlist, b, text)
    BY <1>1 DEF Sane
  <2>2. cstack[n].kind = "throw"
    BY <1>4
  <2> QED
    BY <1>1, <1>4, <1>5, <1>6, <1>7, <2>1, <2>2, UnwindKeeps, ZenonT(30)
<1>9. PICK u : u = Front(cstack) /\ u \in Seq(FrameT) /\ Len(u) \in Nat /\ Len(u) >= 1
  <2>1. PICK u : u = Front(cstack)
    OBVIOUS
  <2>2. u \in Seq(FrameT) /\ Len(u) = Len(cstack) - 1
    <3>1. Len(cstack) >= 1
      BY <1>4
    <3> QED
      BY <1>4, <2>1, <3>1, FrontIs
  <2> QED
    BY <1>4, <2>1, <2>2
<1>10. cstack' = st2 /\ Len(st2) >= 2
  <2>1. s = Append(u, f) /\ cstack' = u \o <<f, g>>
    BY <1>3, <1>7, <1>9
  <2>2. Append(Append(u, f), g) = u \o <<f, g>> /\ Len(u \o <<f, g>>) = Len(u) + 2
    BY <1>5, <1>6, <1>9
  <2> QED
    BY <1>7, <1>9, <2>1, <2>2
<1>11. /\ Bindings' = b /\ text' = text /\ quit_flag' \in BOOLEAN /\ catchlist' = catchlist
       /\ handlerlist' = handlerlist
  <2>1. Bindings' = Bindings
    BY <1>3, SameBindings DEF minibuf
  <2> QED
    BY <1>1, <1>3, <2>1 DEF minibuf, lists
<1> QED
  BY <1>8, <1>10, <1>11, SaneNext


LEMMA EnterMinibufferKeeps ==
  ASSUME Sane, EnterMinibuffer
  PROVE  Sane'
<1>1. PICK n, b : n = Here /\ b = Bindings /\ Told(n, b)
  BY SaneIs
<1>2. PICK f, st : f = [Top EXCEPT !.kind = "read"] /\ st = Append(Front(cstack), f)
  OBVIOUS
<1>3. /\ Top.kind = "entry" /\ shown' = minibuf_level
      /\ text' = [text EXCEPT ![minibuf_level] = FALSE] /\ minibuf_level' = minibuf_level + 1
      /\ specpdl' = Append(specpdl, Entry("minibuf", 0)) /\ prompt' = n
      /\ CommandLoop(st, Len(specpdl) + 1) /\ value' = value /\ quit_flag' = quit_flag
      /\ Depth' = Depth /\ saved' = saved
  BY <1>1, <1>2 DEF EnterMinibuffer, Is, LevelIn, WithUnwind, Depth
<1>4. /\ n \in Nat /\ n >= 2 /\ n = Len(cstack) /\ cstack \in Seq(FrameT) /\ cstack[n] = Top
      /\ Top \in FrameT /\ Marked(cstack, n) /\ b.reads = minibuf_level /\ b.pdl = specpdl
      /\ b.value = value /\ b.edits = Depth /\ b.saved = saved
      /\ specpdl \in Seq(Entries) /\ Entering(cstack, b) /\ BindingsTyped(b)
  BY <1>1 DEF Told, Here
<1>5. b.reads < MaxMinibuf /\ Top.tag # "top" /\ ~Top.on
  <2>1. n # 1 /\ n # 2
    BY <1>3, <1>4 DEF Marked
  <2>2. ~Top.on /\ Top.tag # "top"
    BY <1>3, <1>4, <2>1 DEF Marked
  <2> QED
    BY <1>3, <1>4, <2>2 DEF Entering
<1>6. /\ f \in FrameT /\ f.kind = "read" /\ f.tag = Top.tag /\ f.pdl = Top.pdl /\ f.next = Top.next
      /\ f.handlers = Top.handlers /\ f.x = Top.x /\ f.on = Top.on
  BY <1>2, <1>4 DEF FrameT, Kinds
<1>7. PICK e : e = Entry("minibuf", 0) /\ e \in Entries /\ e.kind = "minibuf"
  BY EntryIs
<1>8. PICK c : c = Bindings'
  OBVIOUS
<1>9. specpdl' = Append(specpdl, e) /\ specpdl' \in Seq(Entries) /\ Len(specpdl') = Len(specpdl) + 1
  BY <1>3, <1>4, <1>7
<1>10. /\ c.pdl = Append(b.pdl, e) /\ c.value = b.value /\ c.shown = b.reads /\ c.edits = b.edits
       /\ c.reads = b.reads + 1 /\ c.saved = b.saved /\ c.prompt = n
       /\ Len(c.pdl) = Len(specpdl) + 1
  BY <1>3, <1>4, <1>8, <1>9, NextBindings
<1>11. BindingsTyped(c)
  <2>1. b.reads + 1 \in 0 .. MaxMinibuf /\ b.reads \in Nat
    BY <1>4, <1>5, UnwindingAssumption, SMTT(30) DEF BindingsTyped
  <2>2. c.pdl \in Seq(Entries)
    BY <1>4, <1>9, <1>10
  <2> QED
    BY <1>4, <1>10, <2>1, <2>2 DEF BindingsTyped
<1>12. PICK tx2 : tx2 = [text EXCEPT ![b.reads] = FALSE]
  OBVIOUS
<1>13. Good(st, catchlist, handlerlist, c, tx2)
  <2>1. Good(cstack, catchlist, handlerlist, b, text)
    BY <1>1 DEF Sane
  <2>2. Enters(cstack[n], f)
    BY <1>3, <1>4, <1>5, <1>6 DEF Enters
  <2>3. st = Append(Front(cstack), f) /\ f \in FrameT /\ n = Len(cstack)
    BY <1>2, <1>4, <1>6
  <2>4. Fills(n, b, c, e)
    BY <1>7, <1>10 DEF Fills
  <2>5. e \in Entries
    BY <1>7
  <2> QED
    BY <1>11, <1>12, <2>1, <2>2, <2>3, <2>4, <2>5, EnterKeeps
<1>14. Len(st) = n /\ st[n] = f /\ st \in Seq(FrameT)
  <2>1. Swapped(cstack, st, f, n)
    BY <1>2, <1>4, <1>6, SwappedIs
  <2>2. Len(cstack) >= 1
    BY <1>4
  <2>3. Front(cstack) \in Seq(FrameT)
    BY <1>4, <2>2, FrontIs
  <2>4. st \in Seq(FrameT)
    BY <1>2, <1>6, <2>3, AppendIs
  <2> QED
    BY <1>4, <2>1, <2>4 DEF Swapped
<1>15. PICK depth : depth = Len(c.pdl)
  OBVIOUS
<1>16. PICK st2 : st2 = st \o <<CatchAt("exit", depth, catchlist, handlerlist),
                               LoopAt(depth, <<n + 1>> \o catchlist, handlerlist)>>
  OBVIOUS
<1>17. /\ cstack' = st2 /\ catchlist' = <<n + 2, n + 1>> \o catchlist
       /\ handlerlist' = <<n + 2>> \o handlerlist
  BY <1>3, <1>10, <1>14, <1>15, <1>16 DEF CommandLoop
<1>18. PICK ca2, ha2 : ca2 = <<n + 2, n + 1>> \o catchlist /\ ha2 = <<n + 2>> \o handlerlist
  OBVIOUS
<1>19. Good(st2, ca2, ha2, c, tx2)
  <2>1. st[n].kind \in {"edit", "read"} /\ n = Len(st)
    BY <1>6, <1>14
  <2> QED
    BY <1>13, <1>15, <1>16, <1>18, <2>1, LoopKeeps
<1> QED
  <2>1. Len(st2) >= 2
    BY <1>4, <1>14, <1>16
  <2>2. quit_flag' \in BOOLEAN
    BY <1>3 DEF Sane
  <2>3. text' = tx2
    BY <1>3, <1>4, <1>12
  <2> QED
    BY <1>8, <1>17, <1>18, <1>19, <2>1, <2>2, <2>3, SaneNext

-----------------------------------------------------------------------------
(* The target of a throw that lands.                                       *)
LEMMA LandingIs ==
  ASSUME Sane, Landing, NEW n, n = Here, NEW b, b = Bindings, NEW p,
         p = PlacesOf(cstack, catchlist, handlerlist, Len(b.pdl)), NEW x, x = Top.x
  PROVE  /\ Told(n, b) /\ n \in Nat /\ n = Len(cstack) /\ n >= 3 /\ x \in 1 .. n - 1
         /\ p[x].start = Len(b.pdl) /\ Firm(p, n, x) /\ x \in 1 .. n /\ Target = cstack[x]
         /\ Target \in FrameT /\ Marked(cstack, x) /\ p[x].start = Target.pdl
         /\ p[x].next = Target.next /\ p[x].handlers = Target.handlers
         /\ Target.kind \in Catching /\ Top.tag \in Tags /\ Top.tag # "top"
<1>1. Told(n, b)
  BY SaneIs
<1>2. Is("throw") /\ Top.on /\ Head(catchlist) = x
  BY DEF Landing
<1>3. /\ n \in Nat /\ n >= 3 /\ n = Len(cstack) /\ cstack[n] \in FrameT /\ Top = cstack[n]
      /\ Top.kind = "throw" /\ Top.tag # "top" /\ x \in Elems(catchlist)
      /\ x \in 1 .. n - 1 /\ cstack[x] \in FrameT
  BY <1>2, ThrowIsOn
<1>4. Thrown(p, n, cstack, catchlist, handlerlist, b, x)
  <2>1. Good(cstack, catchlist, handlerlist, b, text)
    BY DEF Sane
  <2> QED
    BY <1>2, <1>3, <2>1, ThrowIs
<1>5. /\ p[x].start = Len(b.pdl) /\ Firm(p, n, x) /\ p[x].start = cstack[x].pdl
      /\ p[x].next = cstack[x].next /\ p[x].handlers = cstack[x].handlers
      /\ cstack[x].kind \in Catching
  BY <1>2, <1>3, <1>4 DEF Thrown
<1>6. x \in 1 .. n /\ Target = cstack[x]
  BY <1>3 DEF Target
<1>7. Marked(cstack, x)
  BY <1>1, <1>3, <1>6 DEF Told, Stack
<1>8. Top.tag \in Tags
  BY <1>3 DEF FrameT
<1> QED
  BY <1>1, <1>3, <1>5, <1>6, <1>7, <1>8

(* What is left below the target.                                          *)
LEMMA LandingCuts ==
  ASSUME Sane, Landing, Target.kind # "loop" \/ Top.x >= 3, Target.tag # "top", NEW b, b = Bindings
  PROVE  /\ Good(Below, Target.next, Target.handlers, b, text) /\ Len(Below) >= 2 /\ Stack(Below)
         /\ Len(Below) = Top.x - 1 /\ Top.x \in Nat /\ Top.x >= 3 /\ Marked(cstack, Top.x)
         /\ \A i \in 1 .. Top.x - 1 : Below[i] = cstack[i]
<1>1. PICK n, p, x : /\ n = Here /\ p = PlacesOf(cstack, catchlist, handlerlist, Len(b.pdl))
                     /\ x = Top.x
  OBVIOUS
<1>2. /\ n \in Nat /\ n = Len(cstack) /\ n >= 3 /\ x \in 1 .. n - 1
      /\ p[x].start = Len(b.pdl) /\ Firm(p, n, x) /\ x \in 1 .. n /\ Target = cstack[x]
      /\ Marked(cstack, x) /\ Target.kind \in Catching
  BY <1>1, LandingIs
<1>3. x \in 3 .. n
  <2>1. x # 1 /\ x # 2
    BY <1>1, <1>2 DEF Marked
  <2> QED
    BY <1>2, <2>1
<1>4. cstack[x].kind # "throw"
  BY <1>2 DEF Catching
<1>5. Below = SubSeq(cstack, 1, x - 1)
  BY <1>1 DEF Below
<1>6. PICK st2 : st2 = Below
  OBVIOUS
<1>7. /\ Good(st2, cstack[x].next, cstack[x].handlers, b, text) /\ Len(st2) >= 2
      /\ Stack(st2) /\ Len(st2) = x - 1 /\ \A i \in 1 .. x - 1 : st2[i] = cstack[i]
  <2>1. st2 = SubSeq(cstack, 1, x - 1)
    BY <1>5, <1>6
  <2>2. p[x].start = Len(b.pdl) /\ Firm(p, n, x)
    BY <1>2
  <2>3. Good(st2, cstack[x].next, cstack[x].handlers, b, text)
    BY <1>1, <1>3, <1>4, <2>1, <2>2, CutNext
  <2>4. Stack(st2)
    BY <1>1, <1>3, <1>4, <2>1, <2>2, CutNext
  <2>5. Len(st2) >= 2 /\ Len(st2) = x - 1
    BY <1>1, <1>3, <1>4, <2>1, <2>2, CutNext
  <2>6. \A i \in 1 .. x - 1 : st2[i] = cstack[i]
    BY <1>1, <1>3, <1>4, <2>1, <2>2, CutNext
  <2> QED
    BY <2>3, <2>4, <2>5, <2>6
<1>8. x \in Nat /\ x >= 3
  BY <1>3
<1> QED
  BY <1>1, <1>2, <1>6, <1>7, <1>8


LEMMA LandAtCatchKeeps ==
  ASSUME Sane, LandAtCatch
  PROVE  Sane'
<1>1. PICK b, x, m, t : b = Bindings /\ x = Top.x /\ m = x - 1 /\ t = Top.tag
  OBVIOUS
<1>2. /\ Landing /\ Target.kind = "catch" /\ Target.tag # "top" /\ handlerlist' = Target.handlers
      /\ catchlist' = Target.next /\ UNCHANGED <<specpdl, value, quit_flag, levels, minibuf>>
  BY DEF LandAtCatch
<1>3. PICK st : st = Below
  OBVIOUS
<1>4. /\ Good(st, Target.next, Target.handlers, b, text) /\ Len(st) >= 2 /\ Stack(st)
      /\ Len(st) = m /\ x \in Nat /\ x >= 3 /\ Marked(cstack, x)
      /\ \A i \in 1 .. m : st[i] = cstack[i]
  <2>1. Target.kind # "loop" \/ Top.x >= 3
    BY <1>2
  <2>2. /\ Good(Below, Target.next, Target.handlers, b, text) /\ Len(Below) >= 2 /\ Stack(Below)
        /\ Len(Below) = Top.x - 1 /\ Top.x \in Nat /\ Top.x >= 3 /\ Marked(cstack, Top.x)
        /\ \A i \in 1 .. Top.x - 1 : Below[i] = cstack[i]
    BY <1>1, <1>2, <2>1, LandingCuts
  <2> QED
    BY <1>1, <1>3, <2>2
<1>5. Target = cstack[x] /\ t \in Tags /\ t # "top"
  BY <1>1, <1>2, LandingIs
<1>6. Bindings' = b /\ text' = text /\ quit_flag' \in BOOLEAN
  <2>1. Bindings' = Bindings
    BY <1>2, SameBindings DEF minibuf
  <2> QED
    BY <1>1, <1>2, <2>1 DEF Sane, minibuf
<1>7. CASE Target.tag # "exit"
  <2>1. cstack' = st
    BY <1>3, <1>7 DEF LandAtCatch
  <2> QED
    BY <1>2, <1>4, <1>6, <2>1, SaneNext
<1>8. CASE Target.tag = "exit"
  <2>1. m \in 1 .. Len(st) /\ st[m].kind \in {"edit", "read"} /\ st \in Seq(FrameT)
    <3>1. m \in 1 .. m /\ m = x - 1
      BY <1>1, <1>4
    <3>2. cstack[x - 1].kind \in {"edit", "read"}
      BY <1>2, <1>4, <1>5, <1>8 DEF Marked
    <3>3. st \in Seq(FrameT)
      BY <1>4 DEF Stack
    <3> QED
      BY <1>4, <3>1, <3>2, <3>3
  <2>2. PICK g : g = [st[m] EXCEPT !.tag = t]
    OBVIOUS
  <2>3. g \in FrameT
    <3>1. st[m] \in FrameT
      BY <2>1
    <3> QED
      BY <1>5, <2>2, <3>1 DEF FrameT
  <2>4. PICK st2 : st2 = [st EXCEPT ![m].tag = t]
    OBVIOUS
  <2>5. st2 = [st EXCEPT ![m] = g]
    BY <2>2, <2>4, Zenon
  <2>6. Len(st2) = Len(st)
    BY <2>1, <2>3, <2>5, ExceptIs
  <2>7. cstack' = st2
    BY <1>1, <1>3, <1>8, <2>4, Zenon DEF LandAtCatch
  <2>8. Good(st2, Target.next, Target.handlers, b, text)
    <3>1. Good(st, Target.next, Target.handlers, b, text) /\ m = Len(st)
      BY <1>4
    <3> QED
      BY <1>5, <2>1, <2>4, <3>1, RetagKeeps, Zenon
  <2>9. Len(st2) >= 2
    BY <1>4, <2>6
  <2> QED
    BY <1>2, <1>6, <2>7, <2>8, <2>9, SaneNext
<1> QED
  BY <1>7, <1>8

LEMMA LandAtCaseKeeps ==
  ASSUME Sane, LandAtCase
  PROVE  Sane'
<1>1. PICK b, x, m : b = Bindings /\ x = Top.x /\ m = x - 1
  OBVIOUS
<1>2. PICK f : f = [Target EXCEPT !.kind = "let", !.x = value']
  OBVIOUS
<1>3. PICK st, st2 : st = Below /\ st2 = Append(st, f)
  OBVIOUS
<1>4. /\ Landing /\ Target.kind = "case" /\ handlerlist' = Target.handlers
      /\ catchlist' = Target.next /\ value' = Len(specpdl) + 1
      /\ specpdl' = Append(specpdl, Entry("let", value)) /\ cstack' = st2
      /\ quit_flag' = quit_flag /\ Depth' = Depth
      /\ minibuf_level' = minibuf_level
      /\ prompt' = prompt /\ saved' = saved /\ shown' = shown /\ text' = text
  BY <1>2, <1>3 DEF LandAtCase, levels, minibuf, Depth
<1>5. PICK n : n = Here /\ Told(n, b)
  BY <1>1, SaneIs
<1>6. /\ x \in 1 .. n - 1 /\ Target = cstack[x] /\ Target \in FrameT /\ Marked(cstack, x)
      /\ Target.pdl = Len(b.pdl) /\ n \in Nat /\ n = Len(cstack)
  BY <1>1, <1>4, <1>5, LandingIs
<1>7. Target.tag # "top"
  <2>1. x # 1
    BY <1>4, <1>6 DEF Marked
  <2> QED
    BY <1>6, <2>1 DEF Marked
<1>8. /\ Good(st, Target.next, Target.handlers, b, text) /\ Len(st) >= 2 /\ Stack(st)
      /\ Len(st) = m /\ x \in Nat /\ x >= 3
      /\ \A i \in 1 .. m : st[i] = cstack[i]
  <2>1. Target.kind # "loop" \/ Top.x >= 3
    BY <1>4
  <2>2. /\ Good(Below, Target.next, Target.handlers, b, text) /\ Len(Below) >= 2 /\ Stack(Below)
        /\ Len(Below) = Top.x - 1 /\ Top.x \in Nat /\ Top.x >= 3
        /\ \A i \in 1 .. Top.x - 1 : Below[i] = cstack[i]
    BY <1>1, <1>4, <1>7, <2>1, LandingCuts
  <2> QED
    BY <1>1, <1>3, <2>2
<1>9. PICK e : e = Entry("let", value) /\ e \in Entries /\ e.kind = "let" /\ e.old = value
  <2>1. value \in Nat
    BY <1>5 DEF Told
  <2> QED
    BY <2>1, EntryIs
<1>10. PICK c : c = Bindings'
  OBVIOUS
<1>11. /\ b.pdl = specpdl /\ b.value = value /\ b.shown = shown /\ b.prompt = prompt /\ b.saved = saved
       /\ b.edits = Depth /\ b.reads = minibuf_level /\ specpdl \in Seq(Entries)
       /\ Len(specpdl) \in Nat
  BY <1>5 DEF Told
<1>12. specpdl' = Append(specpdl, e) /\ specpdl' \in Seq(Entries) /\ value' \in Nat
  BY <1>4, <1>9, <1>11
<1>13. /\ c.pdl = Append(b.pdl, e) /\ c.value = value' /\ c.shown = b.shown /\ c.edits = b.edits
       /\ c.reads = b.reads /\ c.prompt = b.prompt /\ c.saved = b.saved
  BY <1>4, <1>10, <1>11, <1>12, NextBindings
<1>14. BindingsTyped(c)
  BY <1>4, <1>5, <1>10, <1>12, TypedNext DEF Told
<1>15. /\ f \in FrameT /\ f.kind = "let" /\ f.x = value' /\ f.pdl = Len(b.pdl)
       /\ f.next = Target.next /\ f.handlers = Target.handlers /\ f.tag # "top"
  <2>1. "let" \in Kinds
    BY DEF Kinds
  <2> QED
    BY <1>2, <1>6, <1>7, <1>12, <2>1 DEF FrameT
<1>16. Opens(b, c, f, e)
  BY <1>9, <1>11, <1>13, <1>15 DEF Opens
<1>17. m >= 2 /\ m = Len(st) /\ st[m].kind # "entry"
  <2>1. m \in Nat /\ m >= 2 /\ m < n /\ m \in 1 .. m /\ m + 1 = x /\ m \in 1 .. Len(cstack)
    BY <1>1, <1>6, <1>8
  <2>2. Marked(cstack, m)
    BY <1>5, <2>1 DEF Told, Stack
  <2>3. cstack[m].kind # "entry"
    BY <1>4, <1>6, <2>1, <2>2 DEF Marked
  <2> QED
    BY <1>8, <2>1, <2>3
<1>18. Good(st2, Target.next, Target.handlers, c, text)
  BY <1>3, <1>8, <1>14, <1>15, <1>16, <1>17, EntryKeeps
<1> QED
  <2>1. Len(st2) >= 2
    <3>1. st \in Seq(FrameT)
      BY <1>8 DEF Stack
    <3> QED
      BY <1>3, <1>8, <1>15, <3>1, AppendIs
  <2>2. quit_flag' \in BOOLEAN
    BY <1>4 DEF Sane
  <2> QED
    BY <1>4, <1>10, <1>18, <2>1, <2>2, SaneNext


(* The command loop that goes on.                                          *)
LEMMA LoopGoesOn ==
  ASSUME Sane, Landing, Target.kind = "loop" \/ Target.tag = "top", NEW n, n = Here,
         NEW b, b = Bindings, NEW p, p = PlacesOf(cstack, catchlist, handlerlist, Len(b.pdl)),
         NEW y, y = IF Target.kind = "loop" THEN Top.x ELSE 2
  PROVE  /\ y \in 2 .. n /\ n \in Nat /\ n = Len(cstack) /\ cstack[y].kind = "loop"
         /\ cstack[y] \in FrameT /\ p[y].start = Len(b.pdl) /\ Firm(p, n, y)
<1>1. PICK x : x = Top.x
  OBVIOUS
<1>2. /\ Told(n, b) /\ n \in Nat /\ n = Len(cstack) /\ n >= 3 /\ x \in 1 .. n - 1
      /\ p[x].start = Len(b.pdl) /\ Firm(p, n, x) /\ x \in 1 .. n /\ Target = cstack[x]
      /\ Target \in FrameT /\ Marked(cstack, x)
  BY <1>1, LandingIs
<1>3. CASE Target.kind = "loop"
  <2>1. y = x
    BY <1>1, <1>3
  <2>2. x >= 2
    BY <1>2, <1>3 DEF Marked
  <2> QED
    BY <1>2, <1>3, <2>1, <2>2
<1>4. CASE Target.kind # "loop"
  <2>1. y = 2 /\ x = 1
    BY <1>2, <1>4 DEF Marked
  <2>2. 2 \in 1 .. n /\ 1 \in 1 .. n
    BY <1>2
  <2>3. Marked(cstack, 2) /\ Marked(cstack, 1) /\ cstack[2] \in FrameT
    BY <1>2, <2>2 DEF Told, Stack
  <2>4. cstack[2].kind = "loop" /\ cstack[1].kind = "catch"
    BY <2>3 DEF Marked
  <2>5. Laid(p, n, cstack, catchlist, handlerlist, Len(b.pdl)) /\ Sensible(p, n, b, cstack, text)
    BY <1>2, GoodIs DEF Sane
  <2>6. p[1].kind = "catch" /\ Keeps(p, 1) /\ p[1].start = Len(b.pdl)
    <3>1. p[1] = Place(cstack[1])
      BY <2>2, <2>5 DEF Laid
    <3>2. Keeps(p, 1)
      BY <2>2, <2>5 DEF Sensible, Control, Chain
    <3> QED
      BY <1>2, <2>1, <2>4, <3>1, <3>2, PlaceIs
  <2>7. p[2].start = Len(b.pdl)
    <3>1. p[1 + 1].start = p[1].start + Own(p[1].kind)
      BY <2>6 DEF Keeps
    <3>2. Own(p[1].kind) = 0
      BY <2>6 DEF Own
    <3>3. Len(b.pdl) \in Nat
      BY <1>2, GoodIs DEF Sane
    <3> QED
      BY <2>6, <3>1, <3>2, <3>3
  <2>8. Firm(p, n, 2)
    <3>1. \A l \in 2 .. n + 1 : l \in 1 .. n + 1
      BY <1>2
    <3>2. \A l \in 1 .. n + 1 : p[1].start <= p[l].start
      BY <1>2, <2>1 DEF Firm
    <3> QED
      BY <2>6, <2>7, <3>1, <3>2 DEF Firm
  <2>9. 2 \in 2 .. n
    BY <1>2
  <2> QED
    BY <1>2, <2>1, <2>3, <2>4, <2>7, <2>8, <2>9
<1> QED
  BY <1>3, <1>4

LEMMA LandAtLoopKeeps ==
  ASSUME Sane, LandAtLoop
  PROVE  Sane'
<1>1. PICK n, b, p, y :
        /\ n = Here /\ b = Bindings /\ p = PlacesOf(cstack, catchlist, handlerlist, Len(b.pdl))
        /\ y = IF Target.kind = "loop" THEN Top.x ELSE 2
  OBVIOUS
<1>2. /\ Landing /\ (Target.kind = "loop" \/ Target.tag = "top")
      /\ quit_flag' = (quit_flag /\ Target.kind # "loop") /\ cstack' = SubSeq(cstack, 1, y)
      /\ catchlist' = <<y>> \o cstack[y].next /\ handlerlist' = <<y>> \o cstack[y].handlers
      /\ UNCHANGED <<specpdl, value, levels, minibuf>>
  BY <1>1 DEF LandAtLoop
<1>3. /\ y \in 2 .. n /\ n \in Nat /\ n = Len(cstack) /\ cstack[y].kind = "loop"
      /\ cstack[y] \in FrameT /\ p[y].start = Len(b.pdl) /\ Firm(p, n, y)
  BY <1>1, <1>2, LoopGoesOn
<1>4. Told(n, b) /\ Good(cstack, catchlist, handlerlist, b, text)
  BY <1>1, SaneIs DEF Sane
<1>5. PICK m \in Nat : m = y - 1 /\ m + 1 = y /\ m \in 1 .. Len(cstack) /\ y \in 1 .. Len(cstack)
                       /\ m \in 1 .. y /\ m >= 1 /\ m \in 1 .. m
  BY <1>3
<1>6. PICK st : st = SubSeq(cstack, 1, m)
  OBVIOUS
<1>7. Stack(st) /\ Len(st) = m /\ \A i \in 1 .. m : st[i] = cstack[i]
  BY <1>4, <1>5, <1>6, StackCut DEF Told
<1>8. PICK f, ca, ha : f = cstack[y] /\ ca = f.next /\ ha = f.handlers
  OBVIOUS
<1>9. Good(st, ca, ha, b, text)
  <2>1. st = SubSeq(cstack, 1, y - 1) /\ ca = cstack[y].next /\ ha = cstack[y].handlers
    BY <1>5, <1>6, <1>8
  <2>2. cstack[y].kind # "throw"
    BY <1>3
  <2> QED
    BY <1>1, <1>3, <1>4, <2>1, <2>2, CutKeeps
<1>10. PICK st2 : st2 = SubSeq(cstack, 1, y)
  OBVIOUS
<1>11. Stack(st2) /\ Len(st2) = y /\ \A i \in 1 .. y : st2[i] = cstack[i]
  BY <1>4, <1>5, <1>10, StackCut DEF Told
<1>12. st2 = Append(st, f)
  <2>1. PICK t : t = Append(st, f)
    OBVIOUS
  <2>2. st \in Seq(FrameT) /\ st2 \in Seq(FrameT) /\ f \in FrameT
    BY <1>3, <1>7, <1>8, <1>11 DEF Stack
  <2>3. t \in Seq(FrameT) /\ Len(t) = m + 1 /\ t[m + 1] = f /\ \A i \in 1 .. m : t[i] = st[i]
    BY <1>7, <2>1, <2>2, AppendIs
  <2>4. ASSUME NEW i \in 1 .. y PROVE st2[i] = t[i]
    <3>1. i \in 1 .. m \/ i = m + 1
      BY <1>5
    <3> QED
      BY <1>5, <1>7, <1>8, <1>11, <2>3, <3>1
  <2>5. Len(st2) = Len(t)
    BY <1>5, <1>11, <2>3
  <2> QED
    BY <1>11, <2>1, <2>2, <2>3, <2>4, <2>5
<1>13. Marked(st2, y) /\ Marked(cstack, y)
  BY <1>4, <1>5, <1>11 DEF Stack, Told
<1>14. st[m].kind # "entry"
  <2>1. cstack[y - 1].kind = "catch"
    BY <1>3, <1>13 DEF Marked
  <2> QED
    BY <1>5, <1>7, <2>1
<1>15. /\ f \in FrameT /\ f.kind = "loop" /\ f.pdl = Len(b.pdl) /\ f.next = ca /\ f.handlers = ha
  <2>1. f \in FrameT /\ f.kind = "loop" /\ f.next = ca /\ f.handlers = ha
    BY <1>3, <1>8
  <2>2. Laid(p, n, cstack, catchlist, handlerlist, Len(b.pdl))
    BY <1>1, <1>3, <1>4, GoodIs
  <2>3. p[y] = Place(f)
    BY <1>3, <1>5, <1>8, <2>2 DEF Laid
  <2>4. Start(f) = f.pdl
    BY <2>1 DEF Start
  <2> QED
    BY <1>3, <2>1, <2>3, <2>4, PlaceIs
<1>16. PICK ca2, ha2 : ca2 = <<m + 1>> \o ca /\ ha2 = <<m + 1>> \o ha
  OBVIOUS
<1>17. Good(st2, ca2, ha2, b, text)
  <2>1. ha2 = IF f.kind = "catch" THEN ha ELSE <<m + 1>> \o ha
    BY <1>15, <1>16
  <2>2. Marked(st2, m + 1) /\ m = Len(st) /\ f.kind \in {"catch", "case", "loop"}
    BY <1>5, <1>7, <1>13, <1>15
  <2> QED
    BY <1>9, <1>12, <1>14, <1>15, <1>16, <2>1, <2>2, PlainSame
<1>18. Bindings' = b /\ text' = text /\ quit_flag' \in BOOLEAN
  <2>1. Bindings' = Bindings
    BY <1>2, SameBindings DEF minibuf
  <2>2. quit_flag' \in BOOLEAN /\ text' = text
    BY <1>2 DEF minibuf
  <2> QED
    BY <1>1, <2>1, <2>2
<1> QED
  <2>1. cstack' = st2 /\ catchlist' = ca2 /\ handlerlist' = ha2
    BY <1>2, <1>5, <1>8, <1>10, <1>16
  <2>2. Len(st2) >= 2
    BY <1>3, <1>11
  <2> QED
    BY <1>17, <1>18, <2>1, <2>2, SaneNext

-----------------------------------------------------------------------------
(* The invariant of the specification.                                     *)
LEMMA NextKeeps ==
  ASSUME Sane, Counts, Next
  PROVE  Sane'
<1>1. CASE Enter
  <2>1. CASE Let
    BY <2>1, LetKeeps
  <2>2. CASE UnwindProtect
    BY <2>2, UnwindProtectKeeps
  <2>3. CASE Catch
    BY <2>3, CatchKeeps
  <2>4. CASE \E c \in {"error", "quit"} : ConditionCase(c)
    BY <2>4, ConditionCaseKeeps
  <2>5. CASE RecursiveEdit
    BY <2>5, RecursiveEditKeeps
  <2>6. CASE BeginRead
    BY <2>6, BeginReadKeeps
  <2>7. CASE QuitEntry
    BY <2>7, QuitKeeps
  <2>8. CASE EnterMinibuffer
    BY <2>8, EnterMinibufferKeeps
  <2>9. CASE TypeInput
    BY <2>9, TypeInputKeeps
  <2> QED
    BY <1>1, <2>1, <2>2, <2>3, <2>4, <2>5, <2>6, <2>7, <2>8, <2>9 DEF Enter
<1>2. CASE Leave
  BY <1>2, ReturnToUnbindKeeps, ReturnFromCatchKeeps, ReturnFromFormKeeps, LeaveLoopKeeps DEF Leave
<1>3. CASE Jump
  <2>1. CASE Signal
    BY <2>1, SignalKeeps
  <2>2. CASE Quit
    BY <2>2, QuitKeeps
  <2>3. CASE \E tag : Throw(tag, "") \/ Throw(tag, "abort")
    <3>1. PICK tag, what : Throw(tag, what) /\ what \in {"", "abort"}
      BY <2>3, Zenon
    <3>2. what \in Tags /\ what # "top" /\ what # "exit"
      BY <3>1, NoTag, TagsAre, Zenon
    <3> QED
      BY <3>1, <3>2, ThrowKeeps
  <2> QED
    BY <1>3, <2>1, <2>2, <2>3, Zenon DEF Jump
<1>4. CASE Undo
  BY <1>4, UnbindLetKeeps, UnbindFormKeeps, UnbindEditKeeps, UnbindEditKilledKeeps,
     UnbindWindowsKeeps, UnbindMinibufKeeps, UnboundKeeps DEF Undo
<1>5. CASE Land
  BY <1>5, UnwindCatchKeeps, DropCatchKeeps, LandAtCatchKeeps, LandAtCaseKeeps,
     LandAtLoopKeeps DEF Land
<1>6. CASE ControlG
  BY <1>6, ControlGKeeps
<1> QED
  BY <1>1, <1>2, <1>3, <1>4, <1>5, <1>6 DEF Next

LEMMA StutterKeeps ==
  ASSUME Sane, UNCHANGED vars
  PROVE  Sane'
<1>1. /\ cstack' = cstack /\ catchlist' = catchlist /\ handlerlist' = handlerlist
      /\ quit_flag' = quit_flag /\ text' = text
      /\ UNCHANGED <<specpdl, value, shown, prompt, saved, levels>>
  BY DEF vars, lists, minibuf
<1>2. Bindings' = Bindings
  BY <1>1, SameBindings
<1>3. Good(cstack, catchlist, handlerlist, Bindings, text) /\ Len(cstack) >= 2 /\ quit_flag' \in BOOLEAN
  BY <1>1 DEF Sane, Here
<1> QED
  BY <1>1, <1>2, <1>3, SaneNext


(* The first two frames.                                                   *)
LEMMA FirstFrames ==
  ASSUME NEW st, st = <<CatchAt("top", 0, <<>>, <<>>), LoopAt(0, << 1 >>, <<>>)>>
  PROVE  /\ Stack(st) /\ Len(st) = 2
         /\ st[1].kind = "catch" /\ st[1].x = 0 /\ st[1].next = <<>> /\ st[1].handlers = <<>>
         /\ st[1].pdl = 0
         /\ st[2].kind = "loop" /\ st[2].x = 0 /\ st[2].next = << 1 >> /\ st[2].handlers = <<>>
         /\ st[2].pdl = 0
<1>1. PICK f, g : f = CatchAt("top", 0, <<>>, <<>>) /\ g = LoopAt(0, << 1 >>, <<>>)
  OBVIOUS
<1>2. "catch" \in Kinds /\ "loop" \in Kinds
  BY DEF Kinds, Catching
<1>3. /\ f \in FrameT /\ f.kind = "catch" /\ f.tag = "top" /\ f.pdl = 0 /\ f.next = <<>>
      /\ f.handlers = <<>> /\ f.x = 0
  <2>1. f = [kind |-> "catch", tag |-> "top", pdl |-> 0, next |-> <<>>, handlers |-> <<>>, x |-> 0,
             on |-> FALSE]
    BY <1>1 DEF CatchAt
  <2>2. PICK l \in Seq(Nat) : l = <<>>
    <3>1. <<>> \in Seq(Nat)
      OBVIOUS
    <3> QED
      BY <3>1
  <2>3. "top" \in Tags
    BY TagsAre
  <2>4. [kind |-> "catch", tag |-> "top", pdl |-> 0, next |-> l, handlers |-> l, x |-> 0,
         on |-> FALSE] \in FrameT
    BY <1>2, <2>3 DEF FrameT
  <2>5. f \in FrameT
    BY <2>1, <2>2, <2>4
  <2> QED
    BY <2>1, <2>5
<1>4. /\ g \in FrameT /\ g.kind = "loop" /\ g.tag = "all" /\ g.pdl = 0 /\ g.next = << 1 >>
      /\ g.handlers = <<>> /\ g.x = 0
  <2>1. g = [kind |-> "loop", tag |-> "all", pdl |-> 0, next |-> << 1 >>, handlers |-> <<>>, x |-> 0,
             on |-> FALSE]
    BY <1>1 DEF LoopAt
  <2>2. PICK l \in Seq(Nat), m \in Seq(Nat) : l = <<>> /\ m = << 1 >>
    <3>1. <<>> \in Seq(Nat)
      OBVIOUS
    <3>2. << 1 >> \in Seq(Nat)
      OBVIOUS
    <3> QED
      BY <3>1, <3>2
  <2>3. "all" \in Tags
    BY TagsAre
  <2>4. [kind |-> "loop", tag |-> "all", pdl |-> 0, next |-> m, handlers |-> l, x |-> 0,
         on |-> FALSE] \in FrameT
    BY <1>2, <2>3 DEF FrameT
  <2>5. g \in FrameT
    BY <2>1, <2>2, <2>4
  <2> QED
    BY <2>1, <2>5
<1>5. st = <<f, g>>
  BY <1>1
<1>6. st \in Seq(FrameT) /\ Len(st) = 2 /\ st[1] = f /\ st[2] = g
  BY <1>3, <1>4, <1>5
<1>7. ASSUME NEW i \in 1 .. 2 PROVE Marked(st, i)
  <2>1. i = 1 \/ i = 2
    OBVIOUS
  <2>2. CASE i = 1
    BY <1>3, <1>6, <2>2 DEF Marked
  <2>3. CASE i = 2
    <3>1. i - 1 = 1
      BY <2>3
    <3> QED
      BY <1>3, <1>4, <1>6, <2>3, <3>1 DEF Marked
  <2> QED
    BY <2>1, <2>2, <2>3
<1>8. Stack(st)
  BY <1>6, <1>7 DEF Stack
<1> QED
  BY <1>3, <1>4, <1>6, <1>8

(* The bindings that there are at first.                                   *)
Fresh(b) ==
  /\ b.pdl = <<>> /\ b.value = 0 /\ b.shown = 0 /\ b.prompt = 0 /\ b.edits = 0 /\ b.reads = 0
  /\ b.saved \in [0 .. MaxMinibuf - 1 -> Nat]

LEMMA TallyNone ==
  ASSUME NEW s, NEW n \in Nat, NEW kind, \A i \in 1 .. n : s[i].kind # kind
  PROVE  Tally(s, n, kind) = 0
<1>1. Which(s, n, kind) = {}
  BY DEF Which
<1> QED
  BY <1>1, FS_EmptySet DEF Tally

LEMMA FreshIs ==
  ASSUME NEW b, Fresh(b)
  PROVE  BindingsTyped(b) /\ Counted(b) /\ Len(b.pdl) = 0
<1>1. b.pdl \in Seq(Entries) /\ Len(b.pdl) = 0
  BY DEF Fresh
<1>2. \A i \in 1 .. 0 : FALSE
  OBVIOUS
<1>3. \A kind : Tally(b.pdl, 0, kind) = 0
  BY <1>2, TallyNone
<1>4. BindingsTyped(b)
  BY <1>1, UnwindingAssumption DEF Fresh, BindingsTyped
<1> QED
  BY <1>1, <1>2, <1>3, <1>4 DEF Fresh, Counted

LEMMA NothingRestored ==
  ASSUME NEW b, Fresh(b), NEW p, NEW n \in Nat, NEW j \in Nat, j >= 1,
         \A i \in 1 .. j - 1 : p[i].kind \in Catching, p[j].start = 0
  PROVE  Back(p, n, b, j)
<1>1. BindingsTyped(b) /\ Counted(b) /\ Len(b.pdl) = 0
  BY FreshIs
<1>2. PICK r : r = Current(b)
  OBVIOUS
<1>3. r.edits = 0 /\ r.reads = 0 /\ r.value = 0 /\ r.shown = 0 /\ r.prompt = 0
  BY <1>2 DEF Current, Fresh
<1>4. Restores(b, 0, r)
  BY <1>1, <1>2, RestoresNow
<1>5. PICK m \in Nat : m = j - 1
  OBVIOUS
<1>6. \A i \in 1 .. m : p[i].kind \notin {"edit", "read", "let"}
  BY <1>5 DEF Catching
<1>7. Tally(p, m, "edit") = 0 /\ Tally(p, m, "read") = 0
  BY <1>6, TallyNone
<1>8. InnermostIs(p, j, "let", 0) /\ InnermostIs(p, j, "read", 0)
  <2>1. \A l \in 0 + 1 .. j - 1 : p[l].kind \notin {"edit", "read", "let"}
    BY <1>5, <1>6
  <2> QED
    BY <2>1 DEF InnermostIs
<1>9. Fits(p, j, r)
  <2>1. 0 \in 0 .. j - 1
    BY <1>5
  <2> QED
    BY <1>3, <1>5, <1>7, <1>8, <2>1 DEF Fits
<1>10. Alive(p, j, r)
  BY <1>3 DEF Alive
<1>11. Right(p, j, r)
  BY <1>9, <1>10 DEF Right
<1>12. Held(p, b, j, 0)
  <2>1. \A d \in 0 .. 0 : d = 0
    OBVIOUS
  <2> QED
    BY <1>4, <1>10, <2>1 DEF Held
<1> QED
  BY <1>4, <1>11, <1>12 DEF Back

LEMMA FirstGood ==
  ASSUME NEW st, st = <<CatchAt("top", 0, <<>>, <<>>), LoopAt(0, << 1 >>, <<>>)>>, NEW b, Fresh(b),
         NEW tx \in Texts, NEW ca, ca = <<2, 1>>, NEW ha, ha = << 2 >>
  PROVE  Good(st, ca, ha, b, tx)
<1>1. /\ Stack(st) /\ Len(st) = 2
      /\ st[1].kind = "catch" /\ st[1].x = 0 /\ st[1].next = <<>> /\ st[1].handlers = <<>>
      /\ st[1].pdl = 0
      /\ st[2].kind = "loop" /\ st[2].x = 0 /\ st[2].next = << 1 >> /\ st[2].handlers = <<>>
      /\ st[2].pdl = 0
  BY FirstFrames
<1>2. BindingsTyped(b) /\ Counted(b) /\ Len(b.pdl) = 0
  BY FreshIs
<1>3. Typed(st, ca, ha, b, tx)
  <2>1. ca \in Seq(Nat) /\ ha \in Seq(Nat)
    OBVIOUS
  <2>2. Entering(st, b)
    BY <1>1 DEF Entering
  <2> QED
    BY <1>1, <1>2, <2>1, <2>2 DEF Typed
<1>4. PICK p : p = PlacesOf(st, ca, ha, 0)
  OBVIOUS
<1>5. Laid(p, 2, st, ca, ha, 0)
  <2>1. ca \in Seq(Nat) /\ ha \in Seq(Nat) /\ 0 \in Nat
    OBVIOUS
  <2> QED
    BY <1>1, <1>4, <2>1, PlacesAre
<1>6. p[1] = Place(st[1]) /\ p[2] = Place(st[2])
  <2>1. 1 \in 1 .. 2 /\ 2 \in 1 .. 2
    OBVIOUS
  <2> QED
    BY <1>5, <2>1 DEF Laid
<1>7. /\ p[1].kind = "catch" /\ p[1].next = <<>> /\ p[1].handlers = <<>> /\ p[1].start = 0
      /\ p[2].kind = "loop" /\ p[2].next = << 1 >> /\ p[2].handlers = <<>> /\ p[2].start = 0
  <2>1. Start(st[1]) = 0 /\ Start(st[2]) = 0
    BY <1>1 DEF Start
  <2> QED
    BY <1>1, <1>6, <2>1, PlaceIs
<1>8. p[3].kind = "now" /\ p[3].next = <<2, 1>> /\ p[3].handlers = << 2 >> /\ p[3].start = 0
      /\ p \in [1 .. 3 -> Position]
  BY <1>5 DEF Laid
<1>9. \A j \in 1 .. 3 : j = 1 \/ j = 2 \/ j = 3
  OBVIOUS
<1>10. Chain(p, 1)
  <2>1. p[1 + 1] = p[2] /\ << 1 >> \o p[1].next = << 1 >>
    BY <1>7
  <2>2. Own(p[1].kind) = 0 /\ p[1].kind \in Catching /\ p[1].kind \notin Handling
    BY <1>7 DEF Own, Catching, Handling
  <2>3. Keeps(p, 1)
    BY <1>7, <2>1, <2>2 DEF Keeps
  <2> QED
    BY <1>7, <2>3 DEF Chain, Unbinds, Throws
<1>11. Chain(p, 2)
  <2>1. p[2 + 1] = p[3] /\ << 2 >> \o p[2].next = <<2, 1>> /\ << 2 >> \o p[2].handlers = << 2 >>
    <3>1. << 2 >> \o << 1 >> = <<2, 1>>
      <4>1. PICK s : s = << 2 >> \o << 1 >>
        OBVIOUS
      <4>2. s \in Seq(Nat) /\ Len(s) = 2
        BY <4>1
      <4>3. s[1] = 2 /\ s[2] = 1
        BY <4>1
      <4>4. s = <<s[1], s[2]>>
        BY <4>2
      <4> QED
        BY <4>1, <4>3, <4>4
    <3>2. << 2 >> \o <<>> = << 2 >>
      OBVIOUS
    <3> QED
      BY <1>7, <3>1, <3>2
  <2>2. Own(p[2].kind) = 0 /\ p[2].kind \in Catching /\ p[2].kind \in Handling
    BY <1>7 DEF Own, Catching, Handling
  <2>3. Keeps(p, 2)
    BY <1>7, <1>8, <2>1, <2>2 DEF Keeps
  <2> QED
    BY <1>7, <2>3 DEF Chain, Unbinds, Throws
<1>12. Sound(p, 1)
  <2>1. Elems(p[1].next) = {} /\ Elems(p[1].handlers) = {}
    BY <1>7 DEF Elems
  <2>2. Lists(p, 1) /\ Floor(p, 1)
    BY <2>1 DEF Lists, Floor
  <2>3. Whole(p, 1)
    BY <2>1 DEF Whole
  <2>4. Grows(p, 1)
    <3>1. \A i \in 1 .. 1 : i = 1
      OBVIOUS
    <3>2. 0 <= 0
      OBVIOUS
    <3> QED
      BY <1>7, <3>1, <3>2 DEF Grows
  <2> QED
    BY <2>2, <2>3, <2>4 DEF Sound
<1>13. \A j \in 1 .. 3 : Sound(p, j)
  <2>1. p[1].kind \in Catching
    BY <1>7 DEF Catching
  <2>2. p \in [1 .. 2 + 1 -> Position]
    BY <1>8
  <2>3. \A j \in 1 .. 1 : Sound(p, j)
    BY <1>12
  <2>4. \A j \in 1 .. 1 + 1 : Sound(p, j)
    <3>1. 1 \in 1 .. 2 /\ 2 \in Nat
      OBVIOUS
    <3> QED
      BY <1>10, <2>1, <2>2, <2>3, <3>1, SoundExtends
  <2>5. \A j \in 1 .. 2 : Sound(p, j)
    BY <2>4
  <2>6. \A j \in 1 .. 2 + 1 : Sound(p, j)
    <3>1. 2 \in 1 .. 2 /\ 2 \in Nat
      OBVIOUS
    <3> QED
      BY <1>11, <2>1, <2>2, <2>5, <3>1, SoundExtends
  <2> QED
    BY <2>6
<1>14. Control(p, 2)
  <2>1. \A i \in 1 .. 2 : Chain(p, i)
    <3>1. \A i \in 1 .. 2 : i = 1 \/ i = 2
      OBVIOUS
    <3> QED
      BY <1>10, <1>11, <3>1
  <2>2. \A j \in 1 .. 2 + 1 : Sound(p, j)
    BY <1>13
  <2>3. p[1].kind \in Catching /\ p \in [1 .. 2 + 1 -> Position]
    BY <1>7, <1>8 DEF Catching
  <2> QED
    BY <2>1, <2>2, <2>3 DEF Control
<1>15. ASSUME NEW j \in 1 .. 3 PROVE Back(p, 2, b, j)
  <2>1. j \in Nat /\ j >= 1 /\ 2 \in Nat
    OBVIOUS
  <2>2. p[j].start = 0
    BY <1>7, <1>8, <1>9
  <2>3. \A i \in 1 .. j - 1 : p[i].kind \in Catching
    <3>1. \A i \in 1 .. j - 1 : i = 1 \/ i = 2
      BY <1>9
    <3>2. p[1].kind \in Catching /\ p[2].kind \in Catching
      BY <1>7 DEF Catching
    <3> QED
      BY <3>1, <3>2
  <2> QED
    BY <2>1, <2>2, <2>3, NothingRestored
<1>16. ASSUME NEW i \in 1 .. 2 PROVE Reading(p, 2, b, st, tx, i)
  <2>1. i = 1 \/ i = 2
    OBVIOUS
  <2>2. st[i].kind \notin {"entry", "read"}
    BY <1>1, <2>1
  <2> QED
    BY <2>2 DEF Reading
<1>17. Sensible(p, 2, b, st, tx)
  <2>1. \A j \in 1 .. 2 + 1 : Back(p, 2, b, j)
    BY <1>15
  <2> QED
    BY <1>14, <1>16, <2>1 DEF Sensible
<1> QED
  BY <1>1, <1>2, <1>3, <1>4, <1>17 DEF Good

LEMMA InitSane == Init => Sane
<1> SUFFICES ASSUME Init PROVE Sane
  OBVIOUS
<1>1. PICK st, ca, ha : st = cstack /\ ca = catchlist /\ ha = handlerlist
  OBVIOUS
<1>2. /\ st = <<CatchAt("top", 0, <<>>, <<>>), LoopAt(0, << 1 >>, <<>>)>> /\ ca = <<2, 1>> /\ ha = << 2 >>
      /\ specpdl = <<>> /\ value = 0 /\ quit_flag = FALSE /\ Depth = 0
      /\ minibuf_level = 0 /\ prompt = 0 /\ shown = 0
      /\ saved = [i \in 0 .. MaxMinibuf - 1 |-> 0] /\ text = [i \in 0 .. MaxMinibuf - 1 |-> FALSE]
  BY <1>1 DEF Init, Depth
<1>3. PICK b : b = Bindings
  OBVIOUS
<1>4. Fresh(b)
  <2>1. saved \in [0 .. MaxMinibuf - 1 -> Nat]
    BY <1>2
  <2> QED
    BY <1>2, <1>3, <2>1 DEF Bindings, Fresh
<1>5. text \in Texts
  BY <1>2 DEF Texts
<1>6. Good(st, ca, ha, b, text)
  BY <1>2, <1>4, <1>5, FirstGood
<1>7. Len(st) = 2
  BY <1>2, FirstFrames
<1>8. Good(cstack, catchlist, handlerlist, Bindings, text)
  BY <1>1, <1>3, <1>6
<1>9. Len(cstack) >= 2
  BY <1>1, <1>7
<1>10. quit_flag \in BOOLEAN
  BY <1>2
<1> QED
  BY <1>8, <1>9, <1>10 DEF Sane, Here


-----------------------------------------------------------------------------
(* The results.                                                            *)

(* The levels are counted up and down by one.                              *)
LEMMA NextCounts ==
  ASSUME Counts, [Next]_vars
  PROVE  Counts'
<1>1. CASE UNCHANGED levels
  BY <1>1 DEF Counts, levels
<1>2. CASE RecursiveEdit \/ UnbindEdit \/ UnbindEditKilled
  <2>1. CASE RecursiveEdit
    <3>1. command_loop_level' = command_loop_level + 1 /\ lost' = lost
      BY <2>1 DEF RecursiveEdit
    <3> QED
      BY <3>1 DEF Counts
  <2>2. CASE UnbindEdit
    BY <2>2 DEF UnbindEdit, Counts
  <2>3. CASE UnbindEditKilled
    <3>1. command_loop_level' = command_loop_level /\ lost' = lost + 1
      BY <2>3 DEF UnbindEditKilled
    <3> QED
      BY <3>1 DEF Counts
  <2> QED
    BY <1>2, <2>1, <2>2, <2>3
<1>3. CASE EnterMinibuffer \/ UnbindMinibuf
  BY <1>3 DEF EnterMinibuffer, UnbindMinibuf, Counts
<1>4. ASSUME Enter, ~RecursiveEdit, ~EnterMinibuffer PROVE UNCHANGED levels
  BY <1>4 DEF Enter, Let, UnwindProtect, Catch, ConditionCase, BeginRead, QuitEntry, TypeInput
<1>5. ASSUME Leave PROVE UNCHANGED levels
  BY <1>5 DEF Leave, ReturnToUnbind, ReturnFromCatch, ReturnFromForm, LeaveLoop
<1>6. ASSUME Jump PROVE UNCHANGED levels
  <2>1. \A tag, what : Throw(tag, what) => UNCHANGED levels
    BY DEF Throw
  <2>2. Signal \/ Quit => UNCHANGED levels
    BY DEF Signal, Quit
  <2> QED
    BY <1>6, <2>1, <2>2, Zenon DEF Jump
<1>7. ASSUME Undo, ~UnbindEdit, ~UnbindEditKilled, ~UnbindMinibuf PROVE UNCHANGED levels
  BY <1>7 DEF Undo, UnbindLet, UnbindForm, UnbindWindows, Unbound
<1>8. ASSUME Land PROVE UNCHANGED levels
  BY <1>8 DEF Land, UnwindCatch, DropCatch, LandAtCatch, LandAtCase, LandAtLoop
<1>9. ASSUME ControlG \/ UNCHANGED vars PROVE UNCHANGED levels
  BY <1>9 DEF ControlG, vars
<1> QED
  BY <1>1, <1>2, <1>3, <1>4, <1>5, <1>6, <1>7, <1>8, <1>9 DEF Next

THEOREM AlwaysCounts == Spec => []Counts
<1>1. Init => Counts
  BY DEF Init, Counts
<1>2. Counts /\ [Next]_vars => Counts'
  BY NextCounts
<1> QED
  BY <1>1, <1>2, PTL DEF Spec

(* The invariant: what every place on the stack has, however it is left.   *)
(* The recursive edits are counted by command_loop_level without those     *)
(* whose saved buffer was killed.                                          *)
THEOREM AlwaysSane == Spec => []Sane
<1>1. Init => Sane
  BY InitSane
<1>2. Sane /\ Counts /\ [Next]_vars => Sane'
  BY NextKeeps, StutterKeeps
<1> QED
  BY <1>1, <1>2, AlwaysCounts, PTL DEF Spec

(* What it says of the places.                                             *)
Seen(p, n, b) ==
  /\ n = Here /\ n \in Nat /\ n = Len(cstack) /\ b = Bindings /\ Told(n, b)
  /\ Sensible(p, n, b, cstack, text) /\ Right(p, n + 1, Current(b))
  /\ p \in [1 .. n + 1 -> Position]
  /\ \A i \in 1 .. n : /\ p[i].kind = cstack[i].kind /\ p[i].x = cstack[i].x
                       /\ cstack[i] \in FrameT
  /\ p[n + 1].next = catchlist /\ p[n + 1].handlers = handlerlist

LEMMA SeenIs ==
  ASSUME Sane
  PROVE  \E n, b, p : Seen(p, n, b)
<1>1. PICK n, b, p : /\ n = Here /\ b = Bindings /\ Told(n, b)
                     /\ p = PlacesOf(cstack, catchlist, handlerlist, Len(b.pdl))
  BY SaneIs
<1>2. n \in Nat /\ n = Len(cstack)
  BY <1>1 DEF Told, Here
<1>3. Good(cstack, catchlist, handlerlist, b, text)
  BY <1>1 DEF Sane
<1>4. /\ Laid(p, n, cstack, catchlist, handlerlist, Len(b.pdl))
      /\ Sensible(p, n, b, cstack, text) /\ Right(p, n + 1, Current(b))
  BY <1>1, <1>2, <1>3, GoodIs
<1>5. /\ \A i \in 1 .. n : p[i] = Place(cstack[i]) /\ cstack[i] \in FrameT
      /\ p[n + 1].next = catchlist /\ p[n + 1].handlers = handlerlist
      /\ p \in [1 .. n + 1 -> Position]
  BY <1>4 DEF Laid
<1>6. \A i \in 1 .. n : p[i].kind = cstack[i].kind /\ p[i].x = cstack[i].x
  BY <1>5, PlaceIs
<1> QED
  BY <1>1, <1>2, <1>4, <1>5, <1>6 DEF Seen

LEMMA ListsFit ==
  ASSUME Sane
  PROVE  ListsFitStack
<1>1. PICK n, b, p : Seen(p, n, b)
  BY SeenIs
<1>2. /\ n = Here /\ n \in Nat /\ \A i \in 1 .. n : p[i].kind = cstack[i].kind
      /\ p[n + 1].next = catchlist /\ p[n + 1].handlers = handlerlist
  BY <1>1 DEF Seen
<1>3. Lists(p, n + 1) /\ Whole(p, n + 1)
  <2>1. n + 1 \in 1 .. n + 1
    BY <1>2
  <2> QED
    BY <1>1, <2>1 DEF Seen, Sensible, Control, Sound
<1>4. PICK m \in Nat : m = n + 1 /\ m - 1 = n
  BY <1>2
<1>5. /\ \A c \in Elems(catchlist) : c \in 1 .. n /\ p[c].kind \in Catching
      /\ Elems(handlerlist) = {c \in Elems(catchlist) : p[c].kind \in Handling}
  BY <1>2, <1>3, <1>4 DEF Lists
<1>6. (\A i \in 1 .. n : p[i].kind # "throw")
        => Elems(catchlist) = {i \in 1 .. n : p[i].kind \in Catching}
  BY <1>2, <1>3, <1>4 DEF Whole
<1>7. /\ Elems(catchlist) \subseteq Frames(Catching)
      /\ Elems(handlerlist) \subseteq Frames(Handling)
  BY <1>2, <1>5 DEF Frames
<1>8. ASSUME Frames({"throw"}) = {}
      PROVE  Elems(catchlist) = Frames(Catching) /\ Elems(handlerlist) = Frames(Handling)
  <2>1. \A i \in 1 .. n : p[i].kind # "throw"
    BY <1>2, <1>8 DEF Frames
  <2>2. Elems(catchlist) = Frames(Catching)
    BY <1>2, <1>6, <2>1 DEF Frames
  <2>3. Elems(handlerlist) = Frames(Handling)
    BY <1>2, <1>5, <2>2 DEF Frames, Catching, Handling
  <2> QED
    BY <2>2, <2>3
<1> QED
  BY <1>7, <1>8 DEF ListsFitStack, Elems, Catching, Handling

(* Nothing is going on: what is restored fits the frames.                  *)
LEMMA SettledFits ==
  ASSUME Sane, Settled, NEW n, NEW b, NEW p, Seen(p, n, b)
  PROVE  Fits(p, n + 1, Current(b)) /\ \A i \in 1 .. n : p[i].kind \notin {"throw", "unbind"}
<1>1. n = Here /\ n \in Nat /\ \A i \in 1 .. n : p[i].kind = cstack[i].kind
  BY DEF Seen
<1>2. \A i \in 1 .. n : p[i].kind \notin {"throw", "unbind"}
  BY <1>1 DEF Settled, Frames
<1>3. Clear(p, n + 1)
  <2>1. PICK m : m = n + 1 /\ m - 1 = n
    BY <1>1
  <2>2. Clear(p, m)
    BY <1>2, <2>1 DEF Clear
  <2> QED
    BY <2>1, <2>2
<1> QED
  BY <1>2, <1>3 DEF Seen, Right

LEMMA LevelsFit ==
  ASSUME Sane, Counts
  PROVE  LevelsFitStack
<1> SUFFICES ASSUME Settled
             PROVE  /\ command_loop_level = Cardinality(Frames({"edit"})) + lost
                    /\ minibuf_level = Cardinality(Frames({"read"}))
  BY DEF LevelsFitStack
<1>1. PICK n, b, p : Seen(p, n, b)
  BY SeenIs
<1>2. /\ n = Here /\ n \in Nat /\ \A i \in 1 .. n : p[i].kind = cstack[i].kind
      /\ b.edits = Depth /\ b.reads = minibuf_level /\ n + 1 - 1 = n
  BY <1>1 DEF Seen, Told
<1>3. Fits(p, n + 1, Current(b))
  BY <1>1, SettledFits
<1>4. b.edits = Tally(p, n, "edit") /\ b.reads = Tally(p, n, "read")
  BY <1>2, <1>3 DEF Fits, Current
<1>5. Which(p, n, "edit") = Frames({"edit"}) /\ Which(p, n, "read") = Frames({"read"})
  BY <1>2 DEF Which, Frames
<1>6. PICK k : k = Cardinality(Frames({"edit"})) /\ command_loop_level - lost = k
  BY <1>2, <1>4, <1>5 DEF Tally, Depth
<1>7. command_loop_level = k + lost
  BY <1>6 DEF Counts
<1> QED
  BY <1>2, <1>4, <1>5, <1>6, <1>7 DEF Tally

LEMMA InnermostFound ==
  ASSUME NEW n, NEW p, NEW b, Seen(p, n, b), NEW kind, NEW i \in 0 .. n,
         InnermostIs(p, n + 1, kind, i)
  PROVE  Innermost({kind}) = i
<1>1. n = Here /\ n \in Nat /\ (\A l \in 1 .. n : p[l].kind = cstack[l].kind) /\ n + 1 - 1 = n
  BY DEF Seen
<1>2. /\ i = 0 \/ (i \in 1 .. n /\ p[i].kind = kind)
      /\ \A l \in i + 1 .. n : p[l].kind # kind
  BY <1>1 DEF InnermostIs
<1>3. Frames({kind}) = {l \in 1 .. n : p[l].kind = kind}
  BY <1>1 DEF Frames
<1>4. \A l \in Frames({kind}) : l <= i /\ l >= 1 /\ l \in Nat
  <2>1. \A l \in 1 .. n : ~(l \in i + 1 .. n) => l <= i /\ l >= 1
    BY <1>1
  <2> QED
    BY <1>2, <1>3, <2>1
<1>5. CASE i = 0
  <2>1. \A l \in Frames({kind}) : FALSE
    BY <1>4, <1>5
  <2> QED
    BY <1>5, <2>1 DEF Innermost
<1>6. CASE i # 0
  <2>1. i \in Frames({kind})
    BY <1>2, <1>3, <1>6
  <2>2. \A l \in Frames({kind}) : (\A j \in Frames({kind}) : j <= l) => l = i
    BY <1>4, <2>1
  <2>3. \A j \in Frames({kind}) : j <= i
    BY <1>4
  <2> QED
    BY <2>1, <2>2, <2>3 DEF Innermost
<1> QED
  BY <1>5, <1>6

LEMMA ScopeFits ==
  ASSUME Sane
  PROVE  ScopeFitsStack
<1> SUFFICES ASSUME Settled
             PROVE  value = IF Innermost({"let"}) = 0 THEN 0 ELSE cstack[Innermost({"let"})].x
  BY DEF ScopeFitsStack
<1>1. PICK n, b, p : Seen(p, n, b)
  BY SeenIs
<1>2. /\ n \in Nat /\ n + 1 - 1 = n /\ b.value = value /\ \A l \in 1 .. n : p[l].x = cstack[l].x
  BY <1>1 DEF Seen, Told
<1>3. Fits(p, n + 1, Current(b))
  BY <1>1, SettledFits
<1>4. PICK i \in 0 .. n : /\ InnermostIs(p, n + 1, "let", i)
                          /\ value = IF i = 0 THEN 0 ELSE p[i].x
  BY <1>2, <1>3 DEF Fits, Current
<1>5. Innermost({"let"}) = i
  BY <1>1, <1>4, InnermostFound
<1>6. i # 0 => i \in 1 .. n
  BY <1>2
<1> QED
  BY <1>2, <1>4, <1>5, <1>6

LEMMA PromptAlive ==
  ASSUME Sane
  PROVE  PromptIsAlive
<1>1. PICK n, b, p : Seen(p, n, b)
  BY SeenIs
<1>2. /\ n = Here /\ n \in Nat /\ n + 1 - 1 = n /\ b.prompt = prompt
      /\ \A l \in 1 .. n : p[l].kind = cstack[l].kind
  BY <1>1 DEF Seen, Told
<1>3. Alive(p, n + 1, Current(b))
  BY <1>1 DEF Seen, Right
<1>4. prompt = 0 \/ (prompt \in 1 .. n /\ p[prompt].kind \in {"read", "unbind"})
  BY <1>2, <1>3 DEF Alive, Current
<1>5. prompt = 0 \/ (prompt <= Here /\ cstack[prompt].kind \in {"read", "unbind"})
  <2>1. \A l \in 1 .. n : l <= n
    BY <1>2
  <2> QED
    BY <1>2, <1>4, <2>1
<1>6. ASSUME Settled PROVE prompt = Innermost({"read"})
  <2>1. Fits(p, n + 1, Current(b))
    BY <1>1, <1>6, SettledFits
  <2>2. InnermostIs(p, n + 1, "read", prompt)
    BY <1>2, <2>1 DEF Fits, Current
  <2>3. prompt \in 0 .. n
    <3>1. 0 \in 0 .. n /\ \A l \in 1 .. n : l \in 0 .. n
      BY <1>2
    <3> QED
      BY <1>4, <3>1
  <2> QED
    BY <1>1, <2>2, <2>3, InnermostFound
<1> QED
  BY <1>5, <1>6 DEF PromptIsAlive

LEMMA InputKept ==
  ASSUME Sane
  PROVE  InputIsKept
<1> SUFFICES ASSUME Settled
             PROVE  /\ \A i \in Frames({"read"}) : text[cstack[i].x] = cstack[i].on
                    /\ Innermost({"read"}) # 0 => shown = cstack[Innermost({"read"})].x
  BY DEF InputIsKept
<1>1. PICK n, b, p : Seen(p, n, b)
  BY SeenIs
<1>2. /\ n = Here /\ n \in Nat /\ b.shown = shown /\ b.prompt = prompt
      /\ \A l \in 1 .. n : p[l].kind = cstack[l].kind /\ p[l].x = cstack[l].x
  BY <1>1 DEF Seen, Told
<1>3. Fits(p, n + 1, Current(b)) /\ \A i \in 1 .. n : p[i].kind # "throw"
  BY <1>1, SettledFits
<1>4. ASSUME NEW i \in Frames({"read"}) PROVE text[cstack[i].x] = cstack[i].on
  <2>1. i \in 1 .. n /\ cstack[i].kind = "read"
    BY <1>2 DEF Frames
  <2>2. ASSUME NEW l \in i + 1 .. n + 1 PROVE p[i + 1].start <= p[l].start
    <3>1. l \in 1 .. n + 1 /\ i + 1 \in 1 .. l /\ \A k \in i + 1 .. l - 1 : k \in 1 .. n
      BY <1>2, <2>1
    <3>2. Grows(p, l)
      BY <1>1, <3>1 DEF Seen, Sensible, Control, Sound
    <3> QED
      BY <1>3, <3>1, <3>2 DEF Grows
  <2>3. Firm(p, n, i + 1)
    BY <2>2 DEF Firm
  <2>4. Reading(p, n, b, cstack, text, i)
    BY <1>1, <2>1 DEF Seen, Sensible
  <2> QED
    BY <2>1, <2>3, <2>4 DEF Reading
<1>5. ASSUME Innermost({"read"}) # 0 PROVE shown = cstack[Innermost({"read"})].x
  <2>1. prompt = Innermost({"read"})
    BY PromptAlive DEF PromptIsAlive
  <2>2. shown = p[prompt].x
    BY <1>2, <1>3, <1>5, <2>1 DEF Fits, Current
  <2>3. prompt \in 1 .. n
    <3>1. prompt \in Nat
      BY <1>1 DEF Seen, Told
    <3>2. prompt <= Here
      BY <1>5, <2>1, PromptAlive DEF PromptIsAlive
    <3> QED
      BY <1>2, <1>5, <2>1, <3>1, <3>2
  <2> QED
    BY <1>2, <2>1, <2>2, <2>3
<1> QED
  BY <1>4, <1>5

(* The lists of catches and handlers, and the levels, describe the C       *)
(* stack, at every depth and however its frames are left: longjmp never    *)
(* goes to a frame that has returned, and command_loop_level is too high   *)
(* by the recursive edits whose saved buffer was killed and no others.     *)
THEOREM RegistersAlwaysFit == Spec => []RegistersFitStack
<1>1. Sane /\ Counts => RegistersFitStack
  BY ListsFit, LevelsFit DEF RegistersFitStack
<1> QED
  BY <1>1, AlwaysSane, AlwaysCounts, PTL

(* unbind_to gives a variable the value of the innermost let that is still *)
(* being executed.                                                         *)
THEOREM ScopeAlwaysFits == Spec => []ScopeFitsStack
<1>1. Sane => ScopeFitsStack
  BY ScopeFits
<1> QED
  BY <1>1, AlwaysSane, PTL

(* minibuf_prompt, which is on the C stack of read_minibuf, is never used  *)
(* after that has gone.                                                    *)
THEOREM PromptAlwaysAlive == Spec => []PromptIsAlive
<1>1. Sane => PromptIsAlive
  BY PromptAlive
<1> QED
  BY <1>1, AlwaysSane, PTL

(* What was typed in a minibuffer survives the ones inside it, in whatever *)
(* way they are left.                                                      *)
THEOREM InputAlwaysKept == Spec => []InputIsKept
<1>1. Sane => InputIsKept
  BY InputKept
<1> QED
  BY <1>1, AlwaysSane, PTL


-----------------------------------------------------------------------------
(* The quit that is put aside.                                             *)
LEMMA StillPending ==
  ASSUME NEW n, n = Here, NEW k, k = Len(cstack)', Pending,
         quit_flag => quit_flag' \/ (\E i \in 1 .. k : cstack'[i].kind = "unbind" /\ cstack'[i].on),
         \A i \in 1 .. n : cstack[i].kind = "unbind" /\ cstack[i].on
           => quit_flag' \/ (i \in 1 .. k /\ cstack'[i].kind = "unbind" /\ cstack'[i].on)
  PROVE  Pending'
<1>1. Pending' = (quit_flag' \/ \E i \in 1 .. k : cstack'[i].kind = "unbind" /\ cstack'[i].on)
  BY DEF Pending, Frames, Here
<1>2. CASE quit_flag
  BY <1>1, <1>2
<1>3. CASE ~quit_flag
  <2>1. PICK i \in 1 .. n : cstack[i].kind = "unbind" /\ cstack[i].on
    BY <1>3 DEF Pending, Frames
  <2> QED
    BY <1>1, <2>1
<1> QED
  BY <1>2, <1>3

(* Frames are pushed, and the quit flag is left alone.                     *)
LEMMA PushPends ==
  ASSUME Sane, NEW f, Push(<<f>>), quit_flag' = quit_flag, Pending
  PROVE  Pending'
<1>1. PICK n, k, s : n = Here /\ k = Len(cstack)' /\ s = cstack'
  OBVIOUS
<1>2. n \in Nat /\ n = Len(cstack) /\ cstack \in Seq(FrameT)
  BY <1>1, SaneIs DEF Told, Here
<1>3. s = Append(cstack, f)
  BY <1>1, PushIs
<1>4. k = n + 1 /\ \A i \in 1 .. n : s[i] = cstack[i]
  BY <1>1, <1>2, <1>3
<1>5. \A i \in 1 .. n : i \in 1 .. k
  BY <1>2, <1>4
<1> QED
  BY <1>1, <1>4, <1>5, StillPending

LEMMA SamePends ==
  ASSUME cstack' = cstack, quit_flag => quit_flag', Pending
  PROVE  Pending'
<1>1. PICK n, k : n = Here /\ k = Len(cstack)'
  OBVIOUS
<1>2. n = k
  BY <1>1 DEF Here
<1> QED
  BY <1>1, <1>2, StillPending

(* The frame on top is left or replaced.                                   *)
LEMMA TopPends ==
  ASSUME Sane, NEW n, n = Here, NEW s, s = cstack', n - 1 <= Len(s), \A i \in 1 .. n - 1 : s[i] = cstack[i],
         Top.kind = "unbind" /\ Top.on => quit_flag',
         quit_flag => quit_flag' \/ (\E i \in 1 .. Len(s) : s[i].kind = "unbind" /\ s[i].on),
         Len(s) \in Nat, Pending
  PROVE  Pending'
<1>1. PICK k : k = Len(s) /\ k \in Nat /\ k = Len(cstack)'
  OBVIOUS
<1>2. n \in Nat /\ Top = cstack[n] /\ n - 1 <= k
  BY <1>1, SaneIs DEF Told
<1>3. ASSUME NEW i \in 1 .. n, cstack[i].kind = "unbind" /\ cstack[i].on
      PROVE  quit_flag' \/ (i \in 1 .. k /\ s[i].kind = "unbind" /\ s[i].on)
  <2>1. CASE i = n
    BY <1>2, <1>3, <2>1
  <2>2. CASE i # n
    <3>1. i \in 1 .. n - 1 /\ i \in 1 .. k
      BY <1>1, <1>2, <2>2
    <3> QED
      BY <1>3, <3>1
  <2> QED
    BY <2>1, <2>2
<1>4. quit_flag => quit_flag' \/ (\E i \in 1 .. k : s[i].kind = "unbind" /\ s[i].on)
  BY <1>1
<1> QED
  BY <1>1, <1>3, <1>4, StillPending

LEMMA PopPends ==
  ASSUME Sane, Pop, quit_flag => quit_flag', Top.kind = "unbind" /\ Top.on => quit_flag', Pending
  PROVE  Pending'
<1>1. PICK n, s : n = Here /\ s = cstack'
  OBVIOUS
<1>2. n \in Nat /\ n = Len(cstack) /\ cstack \in Seq(FrameT) /\ n >= 2
  BY <1>1, SaneIs DEF Told, Here
<1>3. s = Front(cstack)
  BY <1>1 DEF Pop
<1>4. Len(s) = n - 1 /\ \A i \in 1 .. n - 1 : s[i] = cstack[i]
  <2>1. Len(cstack) >= 1
    BY <1>2
  <2> QED
    BY <1>2, <1>3, <2>1, FrontIs
<1>5. n - 1 <= Len(s) /\ Len(s) \in Nat
  BY <1>2, <1>4
<1> QED
  BY <1>1, <1>4, <1>5, TopPends

LEMMA InsteadPends ==
  ASSUME Sane, NEW f \in FrameT, Instead(f), Top.kind # "unbind",
         quit_flag => quit_flag' \/ (f.kind = "unbind" /\ f.on), Pending
  PROVE  Pending'
<1>1. PICK n, s : n = Here /\ s = cstack'
  OBVIOUS
<1>2. n \in Nat /\ n = Len(cstack) /\ cstack \in Seq(FrameT) /\ n >= 2
  BY <1>1, SaneIs DEF Told, Here
<1>3. s = Append(Front(cstack), f)
  BY <1>1 DEF Instead
<1>4. Len(s) = n /\ s[n] = f /\ \A i \in 1 .. n - 1 : s[i] = cstack[i]
  BY <1>2, <1>3, SwappedIs DEF Swapped
<1>5. n - 1 <= Len(s) /\ Len(s) \in Nat /\ n \in 1 .. Len(s)
  BY <1>2, <1>4
<1> QED
  BY <1>1, <1>4, <1>5, TopPends

LEMMA UnbindingOn ==
  ASSUME Sane, NEW pdl
  PROVE  Unbinding(pdl).on = quit_flag
<1>1. PICK g : g = Frame("unbind", "", pdl)
  OBVIOUS
<1>2. PICK f : f = [g EXCEPT !.on = quit_flag]
  OBVIOUS
<1>3. Unbinding(pdl) = f
  BY <1>1, <1>2, Zenon DEF Unbinding
<1>4. PICK kind, tag : g = Frame(kind, tag, pdl)
  BY <1>1, Zenon
<1>5. f.on = quit_flag
  BY <1>2, <1>4 DEF Frame
<1> QED
  BY <1>3, <1>5

LEMMA ToUnbindPends ==
  ASSUME Sane, Top.kind \in {"let", "protect", "edit", "read"}, Instead(Unbinding(Top.pdl)), Pending
  PROVE  Pending'
<1>1. PICK f : f = Unbinding(Top.pdl)
  OBVIOUS
<1>2. Top.pdl \in Nat
  BY SaneIs DEF Told, FrameT
<1>3. f \in FrameT /\ f.kind = "unbind" /\ f.on = quit_flag
  BY <1>1, <1>2, UnbindingIs, UnbindingOn
<1> QED
  BY <1>1, <1>3, InsteadPends

LEMMA LoopPends ==
  ASSUME Sane, NEW st \in Seq(FrameT), NEW pdl, CommandLoop(st, pdl), quit_flag' = quit_flag,
         Len(st) >= Here - 1, \A i \in 1 .. Here - 1 : st[i] = cstack[i],
         Top.kind # "unbind", Pending
  PROVE  Pending'
<1>1. PICK n, s, f, g :
        /\ n = Here /\ s = cstack' /\ f = CatchAt("exit", pdl, catchlist, handlerlist)
        /\ g = LoopAt(pdl, <<Len(st) + 1>> \o catchlist, handlerlist)
  OBVIOUS
<1>2. s = st \o <<f, g>>
  BY <1>1 DEF CommandLoop
<1>3. n \in Nat /\ n >= 2
  BY <1>1, SaneIs DEF Told
<1>4. Len(s) = Len(st) + 2 /\ Len(st) \in Nat /\ \A i \in 1 .. Len(st) : s[i] = st[i]
  BY <1>2
<1>5. n - 1 <= Len(s) /\ Len(s) \in Nat /\ \A i \in 1 .. n - 1 : i \in 1 .. Len(st)
  BY <1>1, <1>3, <1>4
<1>6. \A i \in 1 .. n - 1 : s[i] = cstack[i]
  BY <1>1, <1>4, <1>5
<1> QED
  BY <1>1, <1>5, <1>6, TopPends


LEMMA EnterPends ==
  ASSUME Sane, Enter, ~QuitEntry, Pending
  PROVE  Pending'
<1>1. CASE Let \/ UnwindProtect \/ Catch \/ (\E c \in {"error", "quit"} : ConditionCase(c)) \/ BeginRead
  <2>1. quit_flag' = quit_flag
    BY <1>1 DEF Let, UnwindProtect, Catch, ConditionCase, BeginRead
  <2>2. PICK f : Push(<<f>>)
    BY <1>1, Zenon DEF Let, UnwindProtect, Catch, ConditionCase, BeginRead
  <2> QED
    BY <2>1, <2>2, PushPends
<1>2. CASE RecursiveEdit
  <2>1. PICK n, f : n = Here /\ f = Frame("edit", "", 0)
    OBVIOUS
  <2>2. n = Len(cstack) /\ n \in Nat /\ cstack \in Seq(FrameT)
    BY <2>1, SaneIs DEF Told, Here
  <2>3. f \in FrameT
    <3>1. "edit" \in Kinds /\ 0 \in Nat
      BY DEF Kinds
    <3>2. New(f, "edit", 0)
      BY <2>1, <3>1, PlainFrame, Zenon
    <3> QED
      BY <3>2 DEF New
  <2>4. PICK st : st = Append(cstack, f)
    OBVIOUS
  <2>5. CommandLoop(st, Len(specpdl) + 1)
    BY <1>2, <2>1, <2>4, Zenon DEF RecursiveEdit
  <2>6. st \in Seq(FrameT) /\ Len(st) >= n - 1 /\ \A i \in 1 .. n - 1 : st[i] = cstack[i]
    BY <2>2, <2>3, <2>4
  <2>7. quit_flag' = quit_flag /\ Top.kind # "unbind"
    BY <1>2 DEF RecursiveEdit, Evaluating
  <2> QED
    BY <2>1, <2>5, <2>6, <2>7, LoopPends
<1>3. CASE EnterMinibuffer
  <2>1. PICK n, f : n = Here /\ f = [Top EXCEPT !.kind = "read"]
    OBVIOUS
  <2>2. n = Len(cstack) /\ n \in Nat /\ n >= 2 /\ cstack \in Seq(FrameT) /\ Top \in FrameT
    BY <2>1, SaneIs DEF Told, Here
  <2>3. f \in FrameT
    BY <2>1, <2>2 DEF FrameT, Kinds
  <2>4. PICK u, st : u = Front(cstack) /\ st = Append(u, f)
    OBVIOUS
  <2>5. CommandLoop(st, Len(specpdl) + 1) /\ quit_flag' = quit_flag /\ Top.kind = "entry"
    BY <1>3, <2>1, <2>4 DEF EnterMinibuffer, Is
  <2>6. st \in Seq(FrameT)
    <3>1. u \in Seq(FrameT)
      <4>1. Len(cstack) >= 1
        BY <2>2
      <4> QED
        BY <2>2, <2>4, <4>1, FrontIs
    <3> QED
      BY <2>3, <2>4, <3>1
  <2>7. Len(st) >= n - 1 /\ \A i \in 1 .. n - 1 : st[i] = cstack[i]
    BY <2>2, <2>3, <2>4, SwappedIs DEF Swapped
  <2> QED
    BY <2>1, <2>5, <2>6, <2>7, LoopPends
<1>4. CASE TypeInput
  <2>1. PICK n, m, h, g : n = Here /\ m = n - 2 /\ h = cstack[m] /\ g = [h EXCEPT !.on = TRUE]
    OBVIOUS
  <2>2. /\ n > 2 /\ cstack[m].kind = "read" /\ quit_flag' = quit_flag
        /\ cstack' = [cstack EXCEPT ![m].on = TRUE]
    BY <1>4, <2>1 DEF TypeInput
  <2>3. n = Len(cstack) /\ n \in Nat /\ cstack \in Seq(FrameT)
    BY <2>1, SaneIs DEF Told, Here
  <2>4. PICK s : s = [cstack EXCEPT ![m] = g]
    OBVIOUS
  <2>5. cstack' = s
    BY <2>1, <2>2, <2>4, Zenon
  <2>6. n > 2 /\ cstack[m].kind = "read" /\ quit_flag' = quit_flag
    BY <2>2
  <2>7. m \in 1 .. n
    BY <2>1, <2>3, <2>6
  <2>8. g \in FrameT
    <3>1. h \in FrameT
      BY <2>1, <2>3, <2>7
    <3> QED
      BY <2>1, <3>1 DEF FrameT
  <2>9. Len(s) = n /\ \A i \in 1 .. n : i # m => s[i] = cstack[i]
    BY <2>3, <2>4, <2>7, <2>8, ExceptIs
  <2> QED
    BY <2>1, <2>5, <2>6, <2>9, StillPending
<1> QED
  BY <1>1, <1>2, <1>3, <1>4 DEF Enter

LEMMA LeavePends ==
  ASSUME Sane, Leave, Pending
  PROVE  Pending'
<1>1. CASE ReturnToUnbind
  BY <1>1, ToUnbindPends DEF ReturnToUnbind
<1>2. CASE ReturnFromCatch \/ ReturnFromForm
  <2>1. Pop /\ quit_flag' = quit_flag /\ Top.kind # "unbind"
    BY <1>2 DEF ReturnFromCatch, ReturnFromForm, Is
  <2> QED
    BY <2>1, PopPends
<1>3. CASE LeaveLoop
  <2>1. CASE Top.tag = "abort"
    <3>1. quit_flag' = quit_flag
      BY <1>3, <2>1 DEF LeaveLoop
    <3>2. PICK f : Push(<<f>>)
      BY <1>3, <2>1, Zenon DEF LeaveLoop, Signalled
    <3> QED
      BY <3>1, <3>2, PushPends
  <2>2. CASE Top.tag # "abort"
    BY <1>3, <2>2, ToUnbindPends DEF LeaveLoop
  <2> QED
    BY <2>1, <2>2
<1> QED
  BY <1>1, <1>2, <1>3 DEF Leave

LEMMA JumpPends ==
  ASSUME Sane, Jump, ~Quit, Pending
  PROVE  Pending'
<1>1. PICK f : Push(<<f>>)
  BY Zenon DEF Jump, Signal, Throw, Signalled
<1>2. quit_flag' = quit_flag
  <2>1. CASE Signal
    BY <2>1 DEF Signal
  <2>2. CASE \E tag, what : Throw(tag, what)
    BY <2>2 DEF Throw
  <2> QED
    BY <2>1, <2>2, Zenon DEF Jump
<1> QED
  BY <1>1, <1>2, PushPends

LEMMA UndoPends ==
  ASSUME Sane, Undo, Pending
  PROVE  Pending'
<1>1. CASE UnbindLet \/ UnbindEdit \/ UnbindWindows \/ UnbindMinibuf
  <2>1. cstack' = cstack /\ quit_flag' = quit_flag
    BY <1>1 DEF UnbindLet, UnbindEdit, UnbindWindows, UnbindMinibuf
  <2> QED
    BY <2>1, SamePends
<1>2. CASE UnbindForm \/ UnbindEditKilled
  <2>1. quit_flag' = quit_flag
    BY <1>2 DEF UnbindForm, UnbindEditKilled
  <2>2. PICK f : Push(<<f>>)
    BY <1>2, Zenon DEF UnbindForm, UnbindEditKilled
  <2> QED
    BY <2>1, <2>2, PushPends
<1>3. CASE Unbound
  <2>1. Pop /\ quit_flag' = (quit_flag \/ Top.on)
    BY <1>3 DEF Unbound, QuitAfter
  <2> QED
    BY <2>1, PopPends
<1> QED
  BY <1>1, <1>2, <1>3 DEF Undo

(* A frame that is cut off or left alone, when a throw lands.              *)
LEMMA CutPends ==
  ASSUME Sane, Landing, ~LeavesPutAside, quit_flag => quit_flag', Pending,
         NEW k \in Nat, k = Len(cstack'), Top.x - 1 <= k, Target.kind # "unbind",
         \A i \in 1 .. Top.x - 1 :
           /\ cstack'[i].kind = cstack[i].kind
           /\ cstack[i].kind = "unbind" => cstack'[i] = cstack[i]
  PROVE  Pending'
<1>1. PICK n, x : n = Here /\ x = Top.x
  OBVIOUS
<1>2. n \in Nat /\ x \in 1 .. n - 1 /\ Target = cstack[x]
  BY <1>1, LandingIs
<1>3. ASSUME NEW i \in 1 .. n, cstack[i].kind = "unbind" /\ cstack[i].on
      PROVE  i \in 1 .. k /\ cstack'[i].kind = "unbind" /\ cstack'[i].on
  <2>1. i \in Frames({"unbind"})
    BY <1>1, <1>3 DEF Frames
  <2>2. ~(i > x)
    BY <1>1, <1>3, <2>1 DEF LeavesPutAside
  <2>3. i # x
    BY <1>2, <1>3
  <2>4. i \in 1 .. x - 1 /\ i \in 1 .. k
    BY <1>1, <1>2, <2>2, <2>3
  <2> QED
    BY <1>1, <1>3, <2>4
<1> QED
  BY <1>1, <1>3, StillPending

LEMMA LandPends ==
  ASSUME Sane, Land, ~(LandAtLoop /\ Target.kind = "loop"), ~LeavesPutAside, Pending
  PROVE  Pending'
<1>1. CASE UnwindCatch
  <2>1. PICK n, f, g, u : /\ n = Here /\ f = [Top EXCEPT !.on = TRUE]
                          /\ g = Unbinding(cstack[Head(catchlist)].pdl) /\ u = Front(cstack)
    OBVIOUS
  <2>2. Is("throw") /\ cstack' = u \o <<f, g>>
    BY <1>1, <2>1 DEF UnwindCatch
  <2>3. /\ n \in Nat /\ n >= 3 /\ n = Len(cstack) /\ cstack \in Seq(FrameT) /\ Top.kind = "throw"
        /\ cstack[Head(catchlist)] \in FrameT
    BY <2>1, <2>2, ThrowIsOn
  <2>4. g.kind = "unbind" /\ g.on = quit_flag
    <3>1. cstack[Head(catchlist)].pdl \in Nat
      BY <2>3 DEF FrameT
    <3> QED
      BY <2>1, <3>1, UnbindingIs, UnbindingOn
  <2>5. u \in Seq(FrameT) /\ Len(u) = n - 1 /\ \A i \in 1 .. n - 1 : u[i] = cstack[i]
    <3>1. Len(cstack) >= 1
      BY <2>3
    <3> QED
      BY <2>1, <2>3, <3>1, FrontIs
  <2>6. PICK s : s = u \o <<f, g>>
    OBVIOUS
  <2>7. /\ Len(s) = n + 1 /\ s[n + 1] = g /\ \A i \in 1 .. n - 1 : s[i] = u[i]
    BY <2>3, <2>5, <2>6
  <2>8. n - 1 <= Len(s) /\ Len(s) \in Nat /\ n + 1 \in 1 .. Len(s)
    BY <2>3, <2>7
  <2>9. /\ \A i \in 1 .. n - 1 : s[i] = cstack[i]
        /\ quit_flag => \E i \in 1 .. Len(s) : s[i].kind = "unbind" /\ s[i].on
    BY <2>4, <2>5, <2>7, <2>8
  <2> QED
    BY <2>1, <2>2, <2>3, <2>6, <2>8, <2>9, TopPends
<1>2. CASE DropCatch
  <2>1. PICK f : f = [Top EXCEPT !.on = FALSE]
    OBVIOUS
  <2>2. Is("throw") /\ Instead(f) /\ quit_flag' = quit_flag
    BY <1>2, <2>1 DEF DropCatch
  <2>3. Top \in FrameT /\ Top.kind = "throw"
    BY <2>2, ThrowIsOn
  <2>4. f \in FrameT
    BY <2>1, <2>3 DEF FrameT
  <2> QED
    BY <2>2, <2>3, <2>4, InsteadPends
<1>3. CASE LandAtCatch
  <2>1. PICK x, m, st : x = Top.x /\ m = x - 1 /\ st = Below
    OBVIOUS
  <2>2. /\ Landing /\ Target.kind = "catch" /\ Target.tag # "top" /\ quit_flag' = quit_flag
        /\ cstack' = IF Target.tag = "exit" THEN [st EXCEPT ![m].tag = Top.tag] ELSE st
    BY <1>3, <2>1 DEF LandAtCatch
  <2>3. /\ Stack(st) /\ Len(st) = m /\ x \in Nat /\ x >= 3 /\ Marked(cstack, x)
        /\ \A i \in 1 .. m : st[i] = cstack[i]
    BY <2>1, <2>2, LandingCuts
  <2>4. Target = cstack[x] /\ Top.tag \in Tags
    BY <2>1, <2>2, LandingIs
  <2>5. CASE Target.tag # "exit"
    <3>1. PICK k \in Nat : k = Len(cstack') /\ k = m
      BY <2>1, <2>2, <2>3, <2>5
    <3>2. \A i \in 1 .. m : cstack'[i] = cstack[i]
      BY <2>2, <2>3, <2>5
    <3>3. Top.x - 1 <= k
      BY <2>1, <2>3, <3>1
    <3> QED
      BY <2>1, <2>2, <3>1, <3>2, <3>3, CutPends
  <2>6. CASE Target.tag = "exit"
    <3>1. m \in 1 .. Len(st) /\ st \in Seq(FrameT) /\ st[m].kind \in {"edit", "read"}
      <4>1. m \in 1 .. m /\ m = x - 1
        BY <2>1, <2>3
      <4>2. cstack[x - 1].kind \in {"edit", "read"}
        BY <2>2, <2>3, <2>4, <2>6 DEF Marked
      <4> QED
        BY <2>3, <4>1, <4>2 DEF Stack
    <3>2. PICK g : g = [st[m] EXCEPT !.tag = Top.tag]
      OBVIOUS
    <3>3. st[m] \in FrameT
      BY <3>1
    <3>4. g \in FrameT /\ g.kind = st[m].kind
      BY <2>4, <3>2, <3>3 DEF FrameT
    <3>5. PICK st2 : st2 = [st EXCEPT ![m] = g]
      OBVIOUS
    <3>6. cstack' = st2
      BY <2>2, <2>6, <3>2, <3>5, Zenon
    <3>7. Len(st2) = Len(st) /\ st2[m] = g /\ \A i \in 1 .. Len(st) : i # m => st2[i] = st[i]
      BY <3>1, <3>4, <3>5, ExceptIs
    <3>8. PICK k \in Nat : k = Len(cstack') /\ k = m
      BY <2>1, <2>3, <3>6, <3>7
    <3>9. \A i \in 1 .. m : st2[i].kind = cstack[i].kind
                            /\ (cstack[i].kind = "unbind" => st2[i] = cstack[i])
      BY <2>3, <3>1, <3>4, <3>7
    <3>10. Top.x - 1 <= k
      BY <2>1, <2>3, <3>8
    <3>11. \A i \in 1 .. m : cstack'[i].kind = cstack[i].kind
                             /\ (cstack[i].kind = "unbind" => cstack'[i] = cstack[i])
      BY <3>6, <3>9
    <3> QED
      BY <2>1, <2>2, <3>8, <3>10, <3>11, CutPends
  <2> QED
    BY <2>5, <2>6
<1>4. CASE LandAtCase
  <2>1. PICK x, m, st, g : /\ x = Top.x /\ m = x - 1 /\ st = Below
                           /\ g = [Target EXCEPT !.kind = "let", !.x = value']
    OBVIOUS
  <2>2. /\ Landing /\ Target.kind = "case" /\ quit_flag' = quit_flag
        /\ cstack' = Append(st, g)
    BY <1>4, <2>1, Zenon DEF LandAtCase
  <2>3. Target.tag # "top"
    <3>1. Target = cstack[x] /\ Marked(cstack, x)
      BY <2>1, <2>2, LandingIs
    <3> QED
      BY <2>2, <3>1 DEF Marked
  <2>4. /\ Stack(st) /\ Len(st) = m /\ x \in Nat /\ x >= 3
        /\ \A i \in 1 .. m : st[i] = cstack[i]
    BY <2>1, <2>2, <2>3, LandingCuts
  <2>5. st \in Seq(FrameT)
    BY <2>4 DEF Stack
  <2>6. PICK k \in Nat : k = Len(cstack') /\ k = m + 1
    BY <2>1, <2>2, <2>4, <2>5
  <2>7. \A i \in 1 .. m : cstack'[i] = cstack[i]
    BY <2>1, <2>2, <2>4, <2>5
  <2>8. Top.x - 1 <= k
    BY <2>1, <2>4, <2>6
  <2> QED
    BY <2>1, <2>2, <2>6, <2>7, <2>8, CutPends
<1>5. CASE LandAtLoop
  <2>1. PICK n, y : n = Here /\ y = IF Target.kind = "loop" THEN Top.x ELSE 2
    OBVIOUS
  <2>2. /\ Landing /\ Target.kind # "loop" /\ Target.tag = "top" /\ quit_flag' = quit_flag
        /\ cstack' = SubSeq(cstack, 1, 2) /\ y = 2
    <3>1. quit_flag \in BOOLEAN
      BY DEF Sane
    <3> QED
      BY <1>5, <2>1, <3>1 DEF LandAtLoop
  <2>3. /\ n \in Nat /\ n = Len(cstack) /\ n >= 3 /\ Top.x \in 1 .. n - 1
        /\ Target = cstack[Top.x] /\ Marked(cstack, Top.x) /\ Target.kind \in Catching
        /\ cstack \in Seq(FrameT)
    BY <2>1, <2>2, LandingIs DEF Told
  <2>4. Top.x = 1
    BY <2>2, <2>3 DEF Marked
  <2>5. PICK k \in Nat : k = Len(cstack') /\ k = 2
    BY <2>2, <2>3
  <2>6. Top.x - 1 <= k /\ ~(1 <= Top.x - 1) /\ Target.kind # "unbind"
    BY <2>3, <2>4, <2>5 DEF Catching
  <2>7. \A i \in 1 .. Top.x - 1 : FALSE
    BY <2>4
  <2> QED
    BY <2>2, <2>5, <2>6, <2>7, CutPends
<1> QED
  BY <1>1, <1>2, <1>3, <1>4, <1>5 DEF Land

(* A C-g that was typed stays pending, also while unbind_to has put it     *)
(* aside, until QUIT signals it or the command loop has handled an error;  *)
(* only a throw that leaves the unwind form for which unbind_to has put it *)
(* aside loses it.                                                         *)
THEOREM QuitAlwaysKept == Spec => QuitIsKept
<1>1. ASSUME Sane, [Next]_vars, Pending, ~Pending'
      PROVE  Quit \/ QuitEntry \/ (LandAtLoop /\ Target.kind = "loop") \/ LeavesPutAside
  <2>1. CASE Enter
    BY <1>1, <2>1, EnterPends
  <2>2. CASE Leave
    BY <1>1, <2>2, LeavePends
  <2>3. CASE Jump
    BY <1>1, <2>3, JumpPends
  <2>4. CASE Undo
    BY <1>1, <2>4, UndoPends
  <2>5. CASE Land
    BY <1>1, <2>5, LandPends
  <2>6. CASE ControlG
    BY <1>1, <2>6 DEF ControlG, Pending
  <2>7. CASE UNCHANGED vars
    <3>1. cstack' = cstack /\ quit_flag' = quit_flag
      BY <2>7 DEF vars
    <3> QED
      BY <1>1, <3>1, SamePends
  <2> QED
    BY <1>1, <2>1, <2>2, <2>3, <2>4, <2>5, <2>6, <2>7 DEF Next
<1>2. Sane /\ [Next]_vars
        => [Pending /\ ~Pending'
              => Quit \/ QuitEntry \/ (LandAtLoop /\ Target.kind = "loop") \/ LeavesPutAside]_vars
  BY <1>1
<1> QED
  BY <1>2, AlwaysSane, PTL DEF Spec, QuitIsKept
=============================================================================
