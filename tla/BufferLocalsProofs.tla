------------------------- MODULE BufferLocalsProofs -------------------------
(***************************************************************************)
(* Proofs about BufferLocals: its types, that it implements LocalValues,   *)
(* what C code sees after a switch and what a let puts back, for any       *)
(* buffers and values and any number of bindings.                          *)
(*                                                                         *)
(* The argument: CacheFits ties the cell to the alists, so that the values *)
(* of the buffers (Own) and of the rest (Rest) can be read off any state.  *)
(* Lemmas named for the helpers of BufferLocals say what each does to Own  *)
(* and Rest; one lemma per action says the same of the action; from these  *)
(* follow the steps of the refinement and of the other properties.         *)
(***************************************************************************)
EXTENDS BufferLocals, SequenceTheorems, TLAPS

(* The types of the cell and of the cell with the elements.                *)
Cell == [type : {"plain", "some", "auto"}, real : Value, buffer : Buffer \union {Nobody},
         element : Element, default : Value]
Together == [cell : Cell, own : SUBSET Buffer, elem : [Buffer -> Value]]

(* What the cell caches is what the alists say: the element cached is the  *)
(* one of the buffer cached, unless the cell has to look again; a default  *)
(* value that is cached is the default value.                              *)
CacheFits(s) ==
  /\ s.cell.type = "plain" => s.own = {} /\ s.cell.element = Default
  /\ s.cell.element \in Buffer => s.cell.element \in s.own
  /\ s.cell.type # "plain" /\ s.cell.element = Default => s.cell.real = s.cell.default
  /\ s.cell.type # "plain" /\ s.cell.buffer \in Buffer
       => s.cell.element = ElementFor(s, s.cell.buffer)
  /\ s.cell.buffer = Nobody => s.cell.element \in {Default, Dead}

Good(s) == s \in Together /\ CacheFits(s)

(* What each buffer has of its own, and what the others see.               *)
Own(s) == [b \in Buffer |-> IF b \notin s.own THEN Absent
                            ELSE IF s.cell.element = b THEN s.cell.real ELSE s.elem[b]]
Rest(s) == IF s.cell.type = "plain" THEN s.cell.real ELSE s.cell.default

-----------------------------------------------------------------------------
(* The names that are no buffers, and the absent value.                    *)
LEMMA NamesDiffer ==
  /\ Absent \notin Value /\ Default \notin Buffer /\ Dead \notin Buffer /\ Nobody \notin Buffer
  /\ Default # Dead
BY LocalsAssumption DEF Default, Dead

(* The types of the parts.                                                 *)
LEMMA Parts ==
  ASSUME NEW s \in Together
  PROVE  /\ s.cell \in Cell /\ s.own \subseteq Buffer /\ s.elem \in [Buffer -> Value]
         /\ s.cell.type \in {"plain", "some", "auto"} /\ s.cell.real \in Value
         /\ s.cell.buffer \in Buffer \union {Nobody} /\ s.cell.element \in Element
         /\ s.cell.default \in Value
         /\ \A b \in Buffer : s.elem[b] \in Value
BY DEF Together, Cell

(* A buffer sees its own value or, if it has none, the rest's.             *)
LEMMA SeenIsOwnOrRest ==
  ASSUME NEW s, Good(s), NEW b \in Buffer
  PROVE  /\ SeenIn(s)[b] = IF b \in s.own THEN Own(s)[b] ELSE Rest(s)
         /\ SeenIn(s)[b] \in Value
         /\ b \in s.own <=> Own(s)[b] # Absent
         /\ Rest(s) \in Value
<1>1. s \in Together /\ CacheFits(s)
  BY DEF Good
<1>2. CASE b \in s.own
  BY <1>1, <1>2, Parts, NamesDiffer DEF SeenIn, Own, Rest, CacheFits, ElementFor
<1>3. CASE b \notin s.own
  BY <1>1, <1>3, Parts, NamesDiffer DEF SeenIn, Own, Rest, CacheFits, ElementFor
<1> QED
  BY <1>2, <1>3

(* One buffer's own value is all that differs.                             *)
OwnDiffers(s, t, b, v) ==
  \A c \in Buffer : Own(t)[c] = IF c = b THEN v ELSE Own(s)[c]

LEMMA OwnBecomes ==
  ASSUME NEW s, NEW t, NEW b \in Buffer, NEW v, OwnDiffers(s, t, b, v)
  PROVE  Own(t) = [Own(s) EXCEPT ![b] = v]
<1>1. PICK f : f = Own(s)
  OBVIOUS
<1>2. PICK g : g = Own(t)
  OBVIOUS
<1>3. DOMAIN f = Buffer /\ f = [c \in Buffer |-> f[c]] /\ g = [c \in Buffer |-> g[c]]
  BY <1>1, <1>2 DEF Own
<1>4. \A c \in Buffer : g[c] = IF c = b THEN v ELSE f[c]
  BY <1>1, <1>2 DEF OwnDiffers
<1>5. g = [f EXCEPT ![b] = v]
  BY <1>3, <1>4
<1> QED
  BY <1>1, <1>2, <1>5

(* Swapping out changes one element at most, and the default value never:  *)
(* it was cached as it is.                                                 *)
LEMMA SwapOutParts ==
  ASSUME NEW s, Good(s)
  PROVE  /\ SwapOut(s) \in Together
         /\ SwapOut(s).own = s.own
         /\ SwapOut(s).cell.type = s.cell.type
         /\ s.cell.type # "plain" => SwapOut(s).cell = s.cell
         /\ SwapOut(s).elem = [b \in Buffer |-> IF s.cell.element = b THEN s.cell.real ELSE s.elem[b]]
<1>1. s \in Together /\ CacheFits(s)
  BY DEF Good
<1> USE NamesDiffer, Parts, <1>1
<1>2. CASE s.cell.element = Default
  <2>1. SwapOut(s) = [s EXCEPT !.cell.default = s.cell.real]
    BY <1>2 DEF SwapOut
  <2>2. s.elem = [b \in Buffer |-> IF s.cell.element = b THEN s.cell.real ELSE s.elem[b]]
    BY <1>2 DEF Together
  <2> QED
    BY <2>1, <2>2, <1>2 DEF Together, Cell, CacheFits
<1>3. CASE s.cell.element \in Buffer
  <2>1. SwapOut(s) = [s EXCEPT !.elem[s.cell.element] = s.cell.real]
    BY <1>3 DEF SwapOut
  <2> QED
    BY <2>1, <1>3 DEF Together
<1>4. CASE s.cell.element = Dead
  <2>1. SwapOut(s) = s
    BY <1>4 DEF SwapOut
  <2> QED
    BY <2>1, <1>4 DEF Together
<1> QED
  BY <1>2, <1>3, <1>4 DEF Element

(* The cell as Loaded leaves it, when it has to look.                      *)
LEMMA LoadedParts ==
  ASSUME NEW s, Good(s), NEW b \in Buffer, s.cell.type # "plain", s.cell.buffer # b
  PROVE  LET t == Loaded(s, b)
         IN  /\ t \in Together /\ t.own = s.own
             /\ t.elem = [c \in Buffer |-> IF s.cell.element = c THEN s.cell.real ELSE s.elem[c]]
             /\ t.cell.type = s.cell.type /\ t.cell.default = s.cell.default
             /\ t.cell.buffer = b /\ t.cell.element = ElementFor(s, b)
             /\ t.cell.real = IF b \in s.own THEN t.elem[b] ELSE s.cell.default
<1>1. s \in Together /\ CacheFits(s)
  BY DEF Good
<1>2. PICK out \in Together : out = SwapOut(s)
  BY SwapOutParts
<1>3. PICK e \in Element : e = ElementFor(s, b)
  BY DEF ElementFor, Element
<1>4. Loaded(s, b) = [out EXCEPT !.cell.buffer = b, !.cell.element = e,
                         !.cell.real = IF e = Default THEN out.cell.default ELSE out.elem[b]]
  BY <1>2, <1>3 DEF Loaded
<1>5. /\ out.own = s.own /\ out.cell = s.cell
      /\ out.elem = [c \in Buffer |-> IF s.cell.element = c THEN s.cell.real ELSE s.elem[c]]
  BY <1>2, SwapOutParts
<1>6. e = Default <=> b \notin s.own
  BY <1>3, NamesDiffer DEF ElementFor
<1>7. PICK v \in Value : v = IF e = Default THEN out.cell.default ELSE out.elem[b]
  BY <1>2, Parts
<1>8. Loaded(s, b) = [out EXCEPT !.cell.buffer = b, !.cell.element = e, !.cell.real = v]
  BY <1>4, <1>7
<1>9. PICK t : t = Loaded(s, b)
  OBVIOUS
<1>10. /\ t \in Together /\ t.own = out.own /\ t.elem = out.elem
       /\ t.cell.type = out.cell.type /\ t.cell.default = out.cell.default
       /\ t.cell.buffer = b /\ t.cell.element = e /\ t.cell.real = v
  <2>1. out.cell \in Cell
    BY <1>2 DEF Together
  <2>2. PICK c : c = [out.cell EXCEPT !.buffer = b, !.element = e, !.real = v]
    OBVIOUS
  <2>3. /\ c \in Cell /\ c.buffer = b /\ c.element = e /\ c.real = v
        /\ c.type = out.cell.type /\ c.default = out.cell.default
    BY <1>3, <1>7, <2>1, <2>2 DEF Cell
  <2>4. t = [out EXCEPT !.cell = c]
    BY <1>2, <1>8, <1>9, <2>2 DEF Together
  <2> QED
    BY <1>2, <2>3, <2>4 DEF Together
<1> QED
  BY <1>3, <1>5, <1>6, <1>7, <1>9, <1>10

(* Loading the cell for a buffer changes what no buffer sees, and          *)
(* REALVALUE becomes what the buffer sees.                                 *)
LEMMA LoadedMeans ==
  ASSUME NEW s, Good(s), NEW b \in Buffer
  PROVE  LET t == Loaded(s, b)
         IN  /\ Good(t) /\ Own(t) = Own(s) /\ Rest(t) = Rest(s)
             /\ t.own = s.own /\ t.cell.type = s.cell.type
             /\ t.cell.real = SeenIn(s)[b]
             /\ t.cell.type # "plain" => t.cell.buffer = b /\ t.cell.element = ElementFor(s, b)
<1>1. s \in Together /\ CacheFits(s)
  BY DEF Good
<1>2. CASE s.cell.type = "plain" \/ s.cell.buffer = b
  <2>1. Loaded(s, b) = s
    BY <1>2 DEF Loaded
  <2>2. s.cell.real = SeenIn(s)[b]
    BY <1>1, <1>2 DEF SeenIn, CacheFits
  <2> QED
    BY <1>1, <1>2, <2>1, <2>2 DEF CacheFits
<1>3. CASE s.cell.type # "plain" /\ s.cell.buffer # b
  <2>1. PICK t : t = Loaded(s, b)
    OBVIOUS
  <2>2. /\ t \in Together /\ t.own = s.own
        /\ t.elem = [c \in Buffer |-> IF s.cell.element = c THEN s.cell.real ELSE s.elem[c]]
        /\ t.cell.type = s.cell.type /\ t.cell.default = s.cell.default
        /\ t.cell.buffer = b /\ t.cell.element = ElementFor(s, b)
        /\ t.cell.real = IF b \in s.own THEN t.elem[b] ELSE s.cell.default
    BY <2>1, <1>3, LoadedParts
  <2>3. CacheFits(t)
    BY <2>2, <1>3, NamesDiffer DEF CacheFits, ElementFor
  <2>4. Rest(t) = Rest(s)
    BY <2>2, <1>3 DEF Rest
  <2>5. ASSUME NEW c \in Buffer
        PROVE  Own(t)[c] = Own(s)[c]
    BY <2>2, NamesDiffer DEF Own, ElementFor
  <2>6. Own(t) = Own(s)
    BY <2>5 DEF Own
  <2>7. t.cell.real = SeenIn(s)[b]
    BY <2>2, <1>3, <1>1, NamesDiffer DEF SeenIn, ElementFor, CacheFits
  <2> QED
    BY <2>1, <2>2, <2>3, <2>4, <2>6, <2>7, <1>3 DEF Good
<1> QED
  BY <1>2, <1>3

(* t is s with x stored for buffer b.                                      *)
StoredIn(s, b, x, t) ==
  /\ t \in Together
  /\ t.own = IF s.cell.type = "auto" THEN s.own \union {b} ELSE s.own
  /\ t.cell.type = s.cell.type /\ t.cell.buffer = b
  /\ t.cell.real = x
  /\ t.cell.element = ElementFor(t, b)
  /\ t.cell.default = IF b \in t.own THEN s.cell.default ELSE x
  /\ \A c \in Buffer \ {b} :
       t.elem[c] = IF s.cell.element = c THEN s.cell.real ELSE s.elem[c]

(* The cell as Stored leaves it, when it is a list.                        *)
LEMMA StoredParts ==
  ASSUME NEW s, Good(s), NEW b \in Buffer, NEW x \in Value, s.cell.type # "plain",
         NEW t, t = Stored(s, b, x)
  PROVE  StoredIn(s, b, x, t)
<1>1. s \in Together /\ CacheFits(s)
  BY DEF Good
<1>2. PICK in : in = Encached(s, b)
  OBVIOUS
<1>3. Stored(s, b, x) = [in EXCEPT !.cell.real = x,
                      !.cell.default = IF in.cell.element = Default THEN x ELSE @]
  BY <1>2 DEF Stored
<1>4. /\ in \in Together
      /\ in.own = IF s.cell.type = "auto" THEN s.own \union {b} ELSE s.own
      /\ in.cell.type = s.cell.type /\ in.cell.buffer = b
      /\ in.cell.element = ElementFor(in, b)
      /\ in.cell.default = s.cell.default
      /\ \A c \in Buffer \ {b} :
           in.elem[c] = IF s.cell.element = c THEN s.cell.real ELSE s.elem[c]
  <2>1. CASE s.cell.type = "some" /\ s.cell.buffer = b
    <3>1. in = s
      BY <1>2, <2>1 DEF Encached
    <3> QED
      BY <3>1, <2>1, <1>1, Parts, NamesDiffer DEF CacheFits, ElementFor
  <2>2. CASE ~(s.cell.type = "some" /\ s.cell.buffer = b)
    <3>1. PICK out \in Together : out = SwapOut(s)
      BY SwapOutParts
    <3>2. PICK new \in BOOLEAN : new = (s.cell.type = "auto" /\ b \notin s.own)
      OBVIOUS
    <3>3. PICK e \in Element : e = IF new THEN b ELSE ElementFor(s, b)
      BY DEF ElementFor, Element
    <3>4. PICK o \in SUBSET Buffer : o = IF new THEN out.own \union {b} ELSE out.own
      BY <3>1, Parts
    <3>5. PICK v \in Value : v = IF new THEN s.cell.real ELSE out.elem[b]
      BY <3>1, <1>1, Parts
    <3>6. in = [out EXCEPT !.cell.buffer = b, !.own = IF new THEN @ \union {b} ELSE @,
                           !.elem[b] = IF new THEN s.cell.real ELSE @, !.cell.element = e]
      BY <1>2, <2>2, <3>1, <3>2, <3>3 DEF Encached
    <3>7. in = [out EXCEPT !.cell.buffer = b, !.own = o, !.elem[b] = v, !.cell.element = e]
      BY <3>6, <3>4, <3>5, <3>1 DEF Together
    <3>8. /\ out.own = s.own /\ out.cell = s.cell
          /\ out.elem = [c \in Buffer |-> IF s.cell.element = c THEN s.cell.real ELSE s.elem[c]]
      BY <3>1, SwapOutParts
    <3>9. /\ in \in Together /\ in.own = o /\ in.cell.type = s.cell.type /\ in.cell.buffer = b
          /\ in.cell.element = e /\ in.cell.default = s.cell.default
          /\ in.elem = [out.elem EXCEPT ![b] = v]
      BY <3>1, <3>7, <3>8 DEF Together, Cell
    <3>10. o = IF s.cell.type = "auto" THEN s.own \union {b} ELSE s.own
      BY <3>4, <3>2, <3>8
    <3>11. e = ElementFor(in, b)
      BY <3>3, <3>2, <3>9, <3>10 DEF ElementFor
    <3> QED
      BY <3>8, <3>9, <3>10, <3>11
  <2> QED
    BY <2>1, <2>2
<1>5. PICK d \in Value : d = IF in.cell.element = Default THEN x ELSE in.cell.default
  BY <1>4, Parts
<1>7. t = [in EXCEPT !.cell.real = x, !.cell.default = d]
  BY <1>3, <1>4, <1>5 DEF Together, Cell
<1>8. /\ t \in Together /\ t.own = in.own /\ t.elem = in.elem
      /\ t.cell.type = in.cell.type /\ t.cell.buffer = in.cell.buffer
      /\ t.cell.element = in.cell.element /\ t.cell.real = x /\ t.cell.default = d
  <2>1. in.cell \in Cell
    BY <1>4 DEF Together
  <2>2. PICK c : c = [in.cell EXCEPT !.real = x, !.default = d]
    OBVIOUS
  <2>3. /\ c \in Cell /\ c.buffer = in.cell.buffer /\ c.element = in.cell.element
        /\ c.real = x /\ c.type = in.cell.type /\ c.default = d
    BY <1>5, <2>1, <2>2 DEF Cell
  <2>4. t = [in EXCEPT !.cell = c]
    BY <1>4, <1>7, <2>2 DEF Together
  <2> QED
    BY <1>4, <2>3, <2>4 DEF Together
<1>9. in.cell.element = Default <=> b \notin in.own
  BY <1>4, NamesDiffer DEF ElementFor
<1>10. t.cell.element = ElementFor(t, b)
  BY <1>8, <1>4 DEF ElementFor
<1> QED
  BY <1>4, <1>5, <1>8, <1>9, <1>10 DEF StoredIn

(* set gives the buffer its value if it has one of its own or is to have   *)
(* one, and all others without one the value if not.                       *)
LEMMA StoredMeans ==
  ASSUME NEW s, Good(s), NEW b \in Buffer, NEW x \in Value
  PROVE  LET t == Stored(s, b, x)
         IN  /\ Good(t) /\ t.cell.type = s.cell.type
             /\ t.own = IF s.cell.type = "auto" THEN s.own \union {b} ELSE s.own
             /\ t.cell.element \in Buffer => t.cell.element = b
             /\ IF s.cell.type = "auto" \/ b \in s.own
                THEN Own(t) = [Own(s) EXCEPT ![b] = x] /\ Rest(t) = Rest(s)
                ELSE Own(t) = Own(s) /\ Rest(t) = x
<1>1. s \in Together /\ CacheFits(s)
  BY DEF Good
<1>2. PICK t : t = Stored(s, b, x)
  OBVIOUS
<1>3. CASE s.cell.type = "plain"
  <2>1. t = [s EXCEPT !.cell.real = x]
    BY <1>2, <1>3 DEF Stored
  <2>2. /\ t \in Together /\ t.own = s.own /\ t.elem = s.elem
        /\ t.cell.type = s.cell.type /\ t.cell.buffer = s.cell.buffer
        /\ t.cell.element = s.cell.element /\ t.cell.real = x /\ t.cell.default = s.cell.default
    BY <1>1, <2>1 DEF Together, Cell
  <2>3. s.own = {} /\ s.cell.element = Default
    BY <1>1, <1>3 DEF CacheFits
  <2>4. CacheFits(t)
    BY <1>1, <1>3, <2>2 DEF CacheFits, ElementFor
  <2>5. Own(t) = Own(s)
    BY <2>2, <2>3 DEF Own
  <2> QED
    BY <1>2, <1>3, <2>2, <2>3, <2>4, <2>5, NamesDiffer DEF Good, Rest
<1>4. CASE s.cell.type # "plain"
  <2>1. /\ t \in Together
        /\ t.own = IF s.cell.type = "auto" THEN s.own \union {b} ELSE s.own
        /\ t.cell.type = s.cell.type /\ t.cell.buffer = b
        /\ t.cell.real = x
        /\ t.cell.element = ElementFor(t, b)
        /\ t.cell.default = IF b \in t.own THEN s.cell.default ELSE x
        /\ \A c \in Buffer \ {b} :
             t.elem[c] = IF s.cell.element = c THEN s.cell.real ELSE s.elem[c]
    <3>1. StoredIn(s, b, x, t)
      BY <1>2, <1>4, StoredParts
    <3> QED
      BY <3>1 DEF StoredIn
  <2>2. CacheFits(t)
    BY <1>4, <2>1, NamesDiffer DEF CacheFits, ElementFor
  <2>3. t.cell.element \in Buffer => t.cell.element = b
    BY <2>1, NamesDiffer DEF ElementFor
  <2>4. b \in t.own <=> s.cell.type = "auto" \/ b \in s.own
    BY <2>1
  <2>5. Rest(t) = IF b \in t.own THEN Rest(s) ELSE x
    BY <2>1, <1>4 DEF Rest
  <2>6. ASSUME NEW c \in Buffer, c # b
        PROVE  Own(t)[c] = Own(s)[c]
    BY <2>1, <2>3, <2>6 DEF Own
  <2>7. Own(t)[b] = IF b \in t.own THEN x ELSE Absent
    BY <2>1, <2>3 DEF Own, ElementFor
  <2>8. CASE b \in t.own
    <3>1. Own(t) = [Own(s) EXCEPT ![b] = x]
      BY <2>6, <2>7, <2>8 DEF Own
    <3> QED
      BY <1>2, <2>1, <2>2, <2>3, <2>4, <2>5, <2>8, <3>1 DEF Good
  <2>9. CASE b \notin t.own
    <3>1. Own(s)[b] = Absent
      BY <2>4, <2>9 DEF Own
    <3>2. Own(t) = Own(s)
      BY <2>6, <2>7, <2>9, <3>1 DEF Own
    <3> QED
      BY <1>2, <2>1, <2>2, <2>3, <2>4, <2>5, <2>9, <3>2 DEF Good
  <2> QED
    BY <2>8, <2>9
<1> QED
  BY <1>3, <1>4

(* set-default changes what the rest sees and no buffer's own value, even  *)
(* when the default value is what is cached.                               *)
LEMMA DefaultStoredMeans ==
  ASSUME NEW s, Good(s), NEW x \in Value
  PROVE  LET t == DefaultStored(s, x)
         IN  /\ Good(t) /\ t.cell.type = s.cell.type /\ t.own = s.own
             /\ t.cell.element = s.cell.element
             /\ Own(t) = Own(s) /\ Rest(t) = x
<1>1. s \in Together /\ CacheFits(s)
  BY DEF Good
<1>2. PICK t : t = DefaultStored(s, x)
  OBVIOUS
<1>3. PICK v \in Value : v = IF s.cell.type = "plain" \/ s.cell.element = Default THEN x ELSE s.cell.real
  BY <1>1, Parts
<1>4. PICK d \in Value : d = IF s.cell.type = "plain" THEN s.cell.default ELSE x
  BY <1>1, Parts
<1>5. PICK c : c = [s.cell EXCEPT !.real = v, !.default = d]
  OBVIOUS
<1>6. /\ c \in Cell /\ c.type = s.cell.type /\ c.buffer = s.cell.buffer
      /\ c.element = s.cell.element /\ c.real = v /\ c.default = d
  BY <1>1, <1>3, <1>4, <1>5, Parts DEF Cell
<1>7. t = [s EXCEPT !.cell = c]
  <2>1. s.cell \in Cell
    BY <1>1, Parts
  <2>2. CASE s.cell.type = "plain"
    <3>1. t = [s EXCEPT !.cell = [s.cell EXCEPT !.real = x]]
      BY <1>1, <1>2, <2>2 DEF DefaultStored, Together
    <3>2. c = [s.cell EXCEPT !.real = x]
      BY <1>3, <1>4, <1>5, <2>1, <2>2 DEF Cell
    <3> QED
      BY <3>1, <3>2
  <2>3. CASE s.cell.type # "plain"
    <3>1. t = [s EXCEPT !.cell = [s.cell EXCEPT !.default = x, !.real = v]]
      BY <1>1, <1>2, <1>3, <2>1, <2>3 DEF DefaultStored, Together, Cell
    <3>2. c = [s.cell EXCEPT !.default = x, !.real = v]
      BY <1>3, <1>4, <1>5, <2>1, <2>3 DEF Cell
    <3> QED
      BY <3>1, <3>2
  <2> QED
    BY <2>2, <2>3
<1>8. t \in Together /\ t.cell = c /\ t.own = s.own /\ t.elem = s.elem
  BY <1>1, <1>6, <1>7 DEF Together
<1>9. CacheFits(t)
  BY <1>1, <1>3, <1>4, <1>6, <1>8 DEF CacheFits, ElementFor
<1>10. Rest(t) = x
  BY <1>3, <1>4, <1>6, <1>8 DEF Rest
<1>11. Own(t) = Own(s)
  <2>1. ASSUME NEW b \in Buffer
        PROVE  Own(t)[b] = Own(s)[b]
    <3>1. b \in s.own /\ s.cell.element = b => v = s.cell.real
      BY <1>1, <1>3, NamesDiffer DEF CacheFits
    <3> QED
      BY <1>6, <1>8, <3>1 DEF Own
  <2> QED
    BY <2>1 DEF Own
<1> QED
  BY <1>2, <1>6, <1>8, <1>9, <1>10, <1>11 DEF Good

(* A cell made into a list keeps its value as the default one.             *)
LEMMA ListedMeans ==
  ASSUME NEW s, Good(s), s.cell.type = "plain",
         NEW type \in {"some", "auto"}, NEW b \in Buffer \union {Nobody}
  PROVE  LET t == Listed(s, type, b)
         IN  /\ Good(t) /\ t.cell.type = type /\ t.own = {}
             /\ t.cell.element = Default
             /\ Own(t) = Own(s) /\ Rest(t) = Rest(s)
<1>1. s \in Together /\ CacheFits(s) /\ s.own = {}
  BY DEF Good, CacheFits
<1>2. PICK t : t = Listed(s, type, b)
  OBVIOUS
<1>3. PICK c : c = [s.cell EXCEPT !.type = type, !.buffer = b, !.element = Default,
                                  !.default = s.cell.real]
  OBVIOUS
<1>4. /\ c \in Cell /\ c.type = type /\ c.buffer = b /\ c.element = Default
      /\ c.default = s.cell.real /\ c.real = s.cell.real
  BY <1>1, <1>3, Parts DEF Cell, Element
<1>5. t = [s EXCEPT !.cell = c]
  BY <1>1, <1>2, <1>3 DEF Listed, Together
<1>6. t \in Together /\ t.cell = c /\ t.own = s.own /\ t.elem = s.elem
  BY <1>1, <1>4, <1>5 DEF Together
<1>7. CacheFits(t)
  BY <1>1, <1>4, <1>6, NamesDiffer DEF CacheFits, ElementFor
<1>8. Own(t) = Own(s) /\ Rest(t) = Rest(s)
  BY <1>1, <1>4, <1>6 DEF Own, Rest
<1> QED
  BY <1>1, <1>2, <1>4, <1>6, <1>7, <1>8 DEF Good

(* make-variable-buffer-local gives no buffer a value.                     *)
LEMMA AutoMeans ==
  ASSUME NEW s, Good(s), NEW b \in Buffer,
         NEW t, t = IF s.cell.type = "plain" THEN Listed(s, "auto", b)
                    ELSE [s EXCEPT !.cell.type = "auto"]
  PROVE  /\ Good(t) /\ t.cell.type = "auto" /\ t.own = s.own
         /\ t.cell.element = s.cell.element
         /\ Own(t) = Own(s) /\ Rest(t) = Rest(s)
<1>1. s \in Together /\ CacheFits(s)
  BY DEF Good
<1>2. CASE s.cell.type = "plain"
  <2>1. s.own = {} /\ s.cell.element = Default
    BY <1>1, <1>2 DEF CacheFits
  <2>2. t = Listed(s, "auto", b)
    BY <1>2
  <2> QED
    BY <1>2, <2>1, <2>2, ListedMeans
<1>3. CASE s.cell.type # "plain"
  <2>1. PICK c : c = [s.cell EXCEPT !.type = "auto"]
    OBVIOUS
  <2>2. /\ c \in Cell /\ c.type = "auto" /\ c.buffer = s.cell.buffer
        /\ c.element = s.cell.element /\ c.default = s.cell.default /\ c.real = s.cell.real
    BY <1>1, <2>1, Parts DEF Cell
  <2>3. t = [s EXCEPT !.cell = c]
    BY <1>1, <1>3, <2>1 DEF Together
  <2>4. t \in Together /\ t.cell = c /\ t.own = s.own /\ t.elem = s.elem
    BY <1>1, <2>2, <2>3 DEF Together
  <2>5. CacheFits(t)
    BY <1>1, <1>3, <2>2, <2>4 DEF CacheFits, ElementFor
  <2>6. Own(t) = Own(s) /\ Rest(t) = Rest(s)
    BY <1>3, <2>2, <2>4 DEF Own, Rest
  <2> QED
    BY <2>2, <2>4, <2>5, <2>6 DEF Good
<1> QED
  BY <1>2, <1>3

(* Forgetting the buffer leaves the rest of the cell.                      *)
LEMMA ForgottenParts ==
  ASSUME NEW s \in Together, NEW b \in Buffer, NEW t, t = Forgotten(s, b)
  PROVE  /\ t \in Together /\ t.own = s.own /\ t.elem = s.elem
         /\ t.cell.type = s.cell.type /\ t.cell.real = s.cell.real
         /\ t.cell.element = s.cell.element /\ t.cell.default = s.cell.default
         /\ t.cell.buffer = IF s.cell.buffer = b THEN Nobody ELSE s.cell.buffer
<1>1. PICK c : c = [s.cell EXCEPT !.buffer = Nobody]
  OBVIOUS
<1>2. /\ c \in Cell /\ c.type = s.cell.type /\ c.buffer = Nobody
      /\ c.element = s.cell.element /\ c.default = s.cell.default /\ c.real = s.cell.real
  BY <1>1, Parts DEF Cell
<1>3. CASE s.cell.buffer = b
  <2>1. t = [s EXCEPT !.cell = c]
    BY <1>1, <1>3 DEF Forgotten, Together
  <2> QED
    BY <1>2, <1>3, <2>1 DEF Together
<1>4. CASE s.cell.buffer # b
  <2>1. t = s
    BY <1>4 DEF Forgotten
  <2> QED
    BY <1>4, <2>1
<1> QED
  BY <1>3, <1>4

(* Removing the element leaves the rest of the cell.                       *)
LEMMA RemovedParts ==
  ASSUME NEW s \in Together, NEW b \in Buffer, NEW t, t = Removed(s, b)
  PROVE  /\ t \in Together /\ t.own = s.own \ {b} /\ t.elem = s.elem
         /\ t.cell.type = s.cell.type /\ t.cell.real = s.cell.real
         /\ t.cell.buffer = s.cell.buffer /\ t.cell.default = s.cell.default
         /\ t.cell.element = IF s.cell.element = b THEN Dead ELSE s.cell.element
<1>1. PICK e \in Element : e = IF s.cell.element = b THEN Dead ELSE s.cell.element
  BY Parts DEF Element
<1>2. PICK c : c = [s.cell EXCEPT !.element = e]
  OBVIOUS
<1>3. /\ c \in Cell /\ c.type = s.cell.type /\ c.buffer = s.cell.buffer
      /\ c.element = e /\ c.default = s.cell.default /\ c.real = s.cell.real
  BY <1>1, <1>2, Parts DEF Cell
<1>4. t = [s EXCEPT !.own = s.own \ {b}, !.cell = c]
  BY <1>1, <1>2 DEF Removed, Together
<1>5. t \in Together /\ t.own = s.own \ {b} /\ t.cell = c /\ t.elem = s.elem
  BY <1>3, <1>4 DEF Together
<1> QED
  BY <1>1, <1>3, <1>5

(* make-local-variable, from the cell as it is.                            *)
CellList(s) == IF s.cell.type = "plain" THEN Listed(s, "some", Nobody) ELSE s
MadeLocal(s, l, b) ==
  IF b \in s.own THEN l
  ELSE Forgotten([l EXCEPT !.own = @ \union {b}, !.elem[b] = l.cell.default], b)

(* The buffer gets the value it saw as its own.                            *)
LEMMA LocalMeans ==
  ASSUME NEW s, Good(s), s.cell.type # "auto", NEW b \in Buffer,
         NEW l, l = CellList(s), NEW t, t = MadeLocal(s, l, b)
  PROVE  /\ Good(t) /\ t.cell.type = "some" /\ t.own = s.own \union {b}
         /\ t.cell.element = s.cell.element
         /\ Own(t) = [Own(s) EXCEPT ![b] = SeenIn(s)[b]] /\ Rest(t) = Rest(s)
<1>1. s \in Together /\ CacheFits(s)
  BY DEF Good
<1>2. /\ Good(l) /\ l.cell.type = "some" /\ l.own = s.own /\ l.cell.element = s.cell.element
      /\ Own(l) = Own(s) /\ Rest(l) = Rest(s)
  <2>1. CASE s.cell.type = "plain"
    <3>1. s.own = {} /\ s.cell.element = Default
      BY <1>1, <2>1 DEF CacheFits
    <3>2. l = Listed(s, "some", Nobody)
      BY <2>1 DEF CellList
    <3> QED
      BY <2>1, <3>1, <3>2, ListedMeans
  <2>2. CASE s.cell.type # "plain"
    BY <1>1, <2>2, Parts DEF CellList
  <2> QED
    BY <2>1, <2>2
<1>3. l \in Together /\ CacheFits(l) /\ l.cell.default \in Value
  BY <1>2, Parts DEF Good
<1>4. CASE b \in s.own
  <2>1. t = l /\ s.own \union {b} = s.own
    BY <1>4 DEF MadeLocal
  <2>2. SeenIn(s)[b] = Own(s)[b]
    BY <1>4, SeenIsOwnOrRest
  <2>3. Own(s) = [Own(s) EXCEPT ![b] = SeenIn(s)[b]]
    BY <2>2 DEF Own
  <2> QED
    BY <1>2, <2>1, <2>3
<1>5. CASE b \notin s.own
  <2>1. PICK k : k = [l EXCEPT !.own = @ \union {b}, !.elem[b] = l.cell.default]
    OBVIOUS
  <2>2. /\ k \in Together /\ k.cell = l.cell /\ k.own = l.own \union {b}
        /\ k.elem = [l.elem EXCEPT ![b] = l.cell.default]
    BY <1>3, <2>1 DEF Together
  <2>3. t = Forgotten(k, b)
    BY <1>5, <2>1 DEF MadeLocal
  <2>4. /\ t \in Together /\ t.own = k.own /\ t.elem = k.elem
        /\ t.cell.type = k.cell.type /\ t.cell.real = k.cell.real
        /\ t.cell.element = k.cell.element /\ t.cell.default = k.cell.default
        /\ t.cell.buffer = IF k.cell.buffer = b THEN Nobody ELSE k.cell.buffer
    BY <2>2, <2>3, ForgottenParts
  <2>5. /\ t.own = l.own \union {b}
        /\ t.elem[b] = l.cell.default
        /\ \A c \in Buffer \ {b} : t.elem[c] = l.elem[c]
        /\ t.cell.type = l.cell.type /\ t.cell.real = l.cell.real
        /\ t.cell.element = l.cell.element /\ t.cell.default = l.cell.default
        /\ t.cell.buffer = IF l.cell.buffer = b THEN Nobody ELSE l.cell.buffer
    <3>1. PICK f : f = l.elem
      OBVIOUS
    <3>2. f \in [Buffer -> Value]
      BY <1>3, <3>1, Parts
    <3>3. t.elem = [f EXCEPT ![b] = l.cell.default]
      BY <2>2, <2>4, <3>1
    <3>4. t.elem[b] = l.cell.default /\ \A c \in Buffer \ {b} : t.elem[c] = f[c]
      BY <3>2, <3>3
    <3>5. t.own = l.own \union {b} /\ t.cell.type = l.cell.type /\ t.cell.real = l.cell.real
      BY <2>2, <2>4
    <3>6. t.cell.element = l.cell.element /\ t.cell.default = l.cell.default
      BY <2>2, <2>4
    <3>7. t.cell.buffer = IF l.cell.buffer = b THEN Nobody ELSE l.cell.buffer
      BY <2>2, <2>4
    <3> QED
      BY <3>1, <3>4, <3>5, <3>6, <3>7
  <2>6. l.own = s.own /\ b \notin l.own
    BY <1>2, <1>5
  <2>7. CacheFits(t)
    <3>1. t.cell.element \in Buffer => t.cell.element \in t.own
      BY <1>3, <2>5 DEF CacheFits
    <3>2. t.cell.type # "plain" /\ t.cell.element = Default => t.cell.real = t.cell.default
      BY <1>3, <2>5 DEF CacheFits
    <3>3. t.cell.buffer \in Buffer => t.cell.element = ElementFor(t, t.cell.buffer)
      BY <1>2, <1>3, <2>5, NamesDiffer DEF CacheFits, ElementFor
    <3>4. t.cell.buffer = Nobody => t.cell.element \in {Default, Dead}
      BY <1>2, <1>3, <2>5, <2>6, NamesDiffer DEF CacheFits, ElementFor
    <3> QED
      BY <1>2, <2>5, <3>1, <3>2, <3>3, <3>4 DEF CacheFits
  <2>8. Rest(t) = Rest(s)
    BY <1>2, <2>5 DEF Rest
  <2>9. SeenIn(s)[b] = l.cell.default
    <3>1. SeenIn(s)[b] = Rest(s)
      BY <1>5, SeenIsOwnOrRest
    <3> QED
      BY <3>1, <1>2 DEF Rest
  <2>10. Own(t)[b] = SeenIn(s)[b]
    <3>1. l.cell.element # b
      BY <1>3, <2>6 DEF CacheFits
    <3> QED
      BY <2>5, <2>9, <3>1 DEF Own
  <2>11. ASSUME NEW c \in Buffer, c # b
         PROVE  Own(t)[c] = Own(s)[c]
    <3>1. /\ c \in t.own <=> c \in l.own
          /\ t.elem[c] = l.elem[c] /\ t.cell.element = l.cell.element /\ t.cell.real = l.cell.real
      BY <2>5, <2>11
    <3>2. Own(t)[c] = Own(l)[c]
      BY <3>1 DEF Own
    <3> QED
      BY <3>2, <1>2
  <2>12. Own(t) = [Own(s) EXCEPT ![b] = SeenIn(s)[b]]
    <3>1. PICK v : v = SeenIn(s)[b]
      OBVIOUS
    <3>2. OwnDiffers(s, t, b, v)
      BY <2>10, <2>11, <3>1 DEF OwnDiffers
    <3>3. Own(t) = [Own(s) EXCEPT ![b] = v]
      BY <3>2, OwnBecomes
    <3> QED
      BY <3>1, <3>3
  <2> QED
    BY <1>2, <2>2, <2>4, <2>5, <2>7, <2>8, <2>12 DEF Good
<1> QED
  BY <1>4, <1>5

(* kill-local-variable takes the buffer's own value and no other's.        *)
LEMMA KilledMeans ==
  ASSUME NEW s, Good(s), s.cell.type # "plain", NEW b \in Buffer,
         NEW t, t = Forgotten(Removed(s, b), b)
  PROVE  /\ Good(t) /\ t.cell.type = s.cell.type /\ t.own = s.own \ {b}
         /\ t.cell.element \in Buffer => t.cell.element = s.cell.element
         /\ Own(t) = [Own(s) EXCEPT ![b] = Absent] /\ Rest(t) = Rest(s)
<1>1. s \in Together /\ CacheFits(s)
  BY DEF Good
<1>2. PICK r : r = Removed(s, b)
  OBVIOUS
<1>3. /\ r \in Together /\ r.own = s.own \ {b} /\ r.elem = s.elem
      /\ r.cell.type = s.cell.type /\ r.cell.real = s.cell.real
      /\ r.cell.buffer = s.cell.buffer /\ r.cell.default = s.cell.default
      /\ r.cell.element = IF s.cell.element = b THEN Dead ELSE s.cell.element
  BY <1>1, <1>2, RemovedParts
<1>4. /\ t \in Together /\ t.own = r.own /\ t.elem = r.elem
      /\ t.cell.type = r.cell.type /\ t.cell.real = r.cell.real
      /\ t.cell.element = r.cell.element /\ t.cell.default = r.cell.default
      /\ t.cell.buffer = IF r.cell.buffer = b THEN Nobody ELSE r.cell.buffer
  BY <1>2, <1>3, ForgottenParts
<1>5. CacheFits(t)
  BY <1>1, <1>3, <1>4, NamesDiffer DEF CacheFits, ElementFor
<1>6. Rest(t) = Rest(s)
  BY <1>3, <1>4 DEF Rest
<1>7. ASSUME NEW c \in Buffer
      PROVE  Own(t)[c] = IF c = b THEN Absent ELSE Own(s)[c]
  BY <1>3, <1>4, NamesDiffer DEF Own
<1>8. Own(t) = [Own(s) EXCEPT ![b] = Absent]
  <2>1. OwnDiffers(s, t, b, Absent)
    BY <1>7 DEF OwnDiffers
  <2> QED
    BY <2>1, OwnBecomes
<1> QED
  BY <1>3, <1>4, <1>5, <1>6, <1>8, NamesDiffer DEF Good

(* kill-all-local-variables makes the cell hold the default value first.   *)
Uncached(s, b) ==
  IF b \in s.own /\ s.cell.buffer = b
  THEN [s EXCEPT !.cell.element = Default, !.cell.real = s.cell.default] ELSE s

(* kill-all-local-variables does the same.                                 *)
LEMMA KilledAllMeans ==
  ASSUME NEW s, Good(s), NEW b \in Buffer,
         NEW k, k = Uncached(s, b), NEW t, t = Removed(k, b)
  PROVE  /\ Good(t) /\ t.cell.type = s.cell.type /\ t.own = s.own \ {b}
         /\ t.cell.element \in Buffer => t.cell.element = s.cell.element
         /\ Own(t) = [Own(s) EXCEPT ![b] = Absent] /\ Rest(t) = Rest(s)
<1>1. s \in Together /\ CacheFits(s)
  BY DEF Good
<1>2. PICK cached \in BOOLEAN : cached = (b \in s.own /\ s.cell.buffer = b)
  OBVIOUS
<1>3. /\ k \in Together /\ k.own = s.own /\ k.elem = s.elem
      /\ k.cell.type = s.cell.type /\ k.cell.buffer = s.cell.buffer
      /\ k.cell.default = s.cell.default
      /\ k.cell.element = IF cached THEN Default ELSE s.cell.element
      /\ k.cell.real = IF cached THEN s.cell.default ELSE s.cell.real
  <2>1. CASE cached
    <3>1. PICK c : c = [s.cell EXCEPT !.element = Default, !.real = s.cell.default]
      OBVIOUS
    <3>2. /\ c \in Cell /\ c.type = s.cell.type /\ c.buffer = s.cell.buffer
          /\ c.element = Default /\ c.default = s.cell.default /\ c.real = s.cell.default
      BY <1>1, <3>1, Parts DEF Cell, Element
    <3>3. k = [s EXCEPT !.cell = c]
      BY <1>1, <1>2, <2>1, <3>1 DEF Together, Uncached
    <3> QED
      BY <1>1, <2>1, <3>2, <3>3 DEF Together
  <2>2. CASE ~cached
    BY <1>1, <1>2, <2>2 DEF Uncached
  <2> QED
    BY <2>1, <2>2
<1>4. /\ t \in Together /\ t.own = k.own \ {b} /\ t.elem = k.elem
      /\ t.cell.type = k.cell.type /\ t.cell.real = k.cell.real
      /\ t.cell.buffer = k.cell.buffer /\ t.cell.default = k.cell.default
      /\ t.cell.element = IF k.cell.element = b THEN Dead ELSE k.cell.element
  BY <1>3, RemovedParts
<1>5. cached => s.cell.type # "plain" /\ s.cell.element = b
  BY <1>1, <1>2 DEF CacheFits, ElementFor
<1>6. CacheFits(t)
  <2>1. CASE cached
    BY <1>1, <1>2, <1>3, <1>4, <1>5, <2>1, NamesDiffer DEF CacheFits, ElementFor
  <2>2. CASE ~cached
    <3>1. /\ t.own = s.own \ {b} /\ t.cell.type = s.cell.type /\ t.cell.buffer = s.cell.buffer
          /\ t.cell.real = s.cell.real /\ t.cell.default = s.cell.default
          /\ t.cell.element = IF s.cell.element = b THEN Dead ELSE s.cell.element
      BY <1>3, <1>4, <2>2
    <3>2. ~(b \in s.own /\ s.cell.buffer = b)
      BY <1>2, <2>2
    <3> QED
      BY <1>1, <3>1, <3>2, NamesDiffer DEF CacheFits, ElementFor
  <2> QED
    BY <2>1, <2>2
<1>7. Rest(t) = Rest(s)
  BY <1>3, <1>4, <1>5 DEF Rest
<1>8. ASSUME NEW c \in Buffer
      PROVE  Own(t)[c] = IF c = b THEN Absent ELSE Own(s)[c]
  BY <1>3, <1>4, <1>5, NamesDiffer DEF Own
<1>9. Own(t) = [Own(s) EXCEPT ![b] = Absent]
  <2>1. OwnDiffers(s, t, b, Absent)
    BY <1>8 DEF OwnDiffers
  <2> QED
    BY <2>1, OwnBecomes
<1> QED
  BY <1>3, <1>4, <1>6, <1>7, <1>9, NamesDiffer DEF Good

(* Copying REALVALUE into the element it is for changes nothing.           *)
LEMMA CopiedMeans ==
  ASSUME NEW s, Good(s), NEW b \in Buffer, s.cell.type # "plain" => s.cell.element = ElementFor(s, b),
         NEW t, t = [s EXCEPT !.elem[b] = s.cell.real], b \in s.own
  PROVE  /\ Good(t) /\ t.cell = s.cell /\ t.own = s.own
         /\ Own(t) = Own(s) /\ Rest(t) = Rest(s)
         /\ t.elem[b] = Own(s)[b]
<1>1. s \in Together /\ CacheFits(s) /\ s.cell.real \in Value
  BY Parts DEF Good
<1>2. t \in Together /\ t.cell = s.cell /\ t.own = s.own /\ t.elem = [s.elem EXCEPT ![b] = s.cell.real]
  BY <1>1 DEF Together
<1>3. s.cell.element = b /\ s.elem \in [Buffer -> Value]
  BY <1>1, Parts DEF CacheFits, ElementFor
<1>4. Own(t) = Own(s) /\ t.elem[b] = Own(s)[b]
  BY <1>2, <1>3 DEF Own
<1>5. CacheFits(t) /\ Rest(t) = Rest(s)
  BY <1>1, <1>2 DEF CacheFits, Rest, ElementFor
<1> QED
  BY <1>2, <1>4, <1>5 DEF Good
-----------------------------------------------------------------------------
(* A variable of C never holds the own value of a buffer that is not       *)
(* current.                                                                *)
Ours == forwarded /\ cell.element \in Buffer => cell.element = current

(* The invariant of the cell.                                              *)
Fine == current \in Buffer /\ forwarded \in BOOLEAN /\ Good(State) /\ Ours

(* A step that keeps it and leads to these values.                         *)
Changes(o, r, w, type) ==
  /\ Good(State)' /\ Ours'
  /\ Own(State)' = o /\ Rest(State)' = r /\ own' = w /\ cell'.type = type

(* The parts of the current state.                                         *)
LEMMA FineParts ==
  ASSUME Fine
  PROVE  /\ State \in Together /\ Good(State)
         /\ State.cell = cell /\ State.own = own /\ State.elem = elem
BY DEF Fine, Good, State

(* The next state of the cell is what it becomes.                          *)
LEMMA BecomesIs ==
  ASSUME NEW t, Good(t), Becomes(t)
  PROVE  State' = t
BY DEF Becomes, State, Good, Together

(* What is left to show of a step: the cell fits, and is the current       *)
(* buffer's.                                                               *)
LEMMA BecomesChanges ==
  ASSUME NEW t, Good(t), Becomes(t), UNCHANGED forwarded,
         forwarded /\ t.cell.element \in Buffer => t.cell.element = current'
  PROVE  Changes(Own(t), Rest(t), t.own, t.cell.type)
<1>1. State' = t
  BY BecomesIs
<1>2. Good(State)' /\ Own(State)' = Own(t) /\ Rest(State)' = Rest(t)
  <2>1. Good(State)' <=> Good(t)
    BY <1>1 DEF Good, CacheFits, ElementFor
  <2>2. Own(State)' = Own(t)
    BY <1>1 DEF Own
  <2>3. Rest(State)' = Rest(t)
    BY <1>1 DEF Rest
  <2> QED
    BY <2>1, <2>2, <2>3
<1>3. cell' = t.cell /\ own' = t.own
  BY DEF Becomes
<1>4. Ours'
  BY <1>3 DEF Ours
<1> QED
  BY <1>2, <1>3, <1>4 DEF Changes

(* Reading changes nothing and reads what the current buffer sees.         *)
LEMMA SymbolValueChanges ==
  ASSUME Fine, SymbolValue
  PROVE  /\ Changes(Own(State), Rest(State), own, cell.type)
         /\ got' = SeenIn(State)[current]
<1>1. PICK t : t = Loaded(State, current)
  OBVIOUS
<1>2. current \in Buffer /\ Good(State) /\ State.cell = cell /\ State.own = own
  BY FineParts DEF Fine
<1>3. /\ Good(t) /\ Own(t) = Own(State) /\ Rest(t) = Rest(State)
      /\ t.own = State.own /\ t.cell.type = State.cell.type
      /\ t.cell.real = SeenIn(State)[current]
      /\ t.cell.type # "plain" => t.cell.buffer = current /\ t.cell.element = ElementFor(State, current)
  BY <1>1, <1>2, LoadedMeans
<1>4. Becomes(t) /\ UNCHANGED forwarded /\ current' = current /\ got' = cell'.real
  BY <1>1 DEF SymbolValue
<1>5. t.cell.element \in Buffer => t.cell.element = current
  BY <1>3, NamesDiffer DEF Good, CacheFits, ElementFor
<1>6. Changes(Own(t), Rest(t), t.own, t.cell.type)
  BY <1>3, <1>4, <1>5, BecomesChanges
<1> QED
  BY <1>2, <1>3, <1>4, <1>6 DEF Becomes

(* Switching changes nothing, and C then has what the new buffer sees.     *)
LEMMA SetBufferChanges ==
  ASSUME Fine, NEW b \in Buffer, SetBuffer(b)
  PROVE  /\ Changes(Own(State), Rest(State), own, cell.type)
         /\ forwarded /\ ~Adrift(b) => cell'.real = SeenIn(State)[b]
<1>1. PICK t : t = IF MustRefer(b) THEN Loaded(State, b) ELSE State
  OBVIOUS
<1>2. current \in Buffer /\ Good(State) /\ State.cell = cell /\ State.own = own
  BY FineParts DEF Fine
<1>3. Becomes(t) /\ UNCHANGED forwarded /\ current' = b
  BY <1>1 DEF SetBuffer
<1>4. CASE MustRefer(b)
  <2>1. t = Loaded(State, b)
    BY <1>1, <1>4
  <2>2. /\ Good(t) /\ Own(t) = Own(State) /\ Rest(t) = Rest(State)
        /\ t.own = State.own /\ t.cell.type = State.cell.type
        /\ t.cell.real = SeenIn(State)[b]
        /\ t.cell.type # "plain" => t.cell.buffer = b /\ t.cell.element = ElementFor(State, b)
    BY <1>2, <2>1, LoadedMeans
  <2>3. t.cell.element \in Buffer => t.cell.element = b
    BY <2>2, NamesDiffer DEF Good, CacheFits, ElementFor
  <2>4. Changes(Own(t), Rest(t), t.own, t.cell.type)
    BY <2>2, <2>3, <1>3, BecomesChanges
  <2> QED
    BY <1>2, <1>3, <2>2, <2>4 DEF Becomes
<1>5. CASE ~MustRefer(b)
  <2>1. t = State
    BY <1>1, <1>5
  <2>2. forwarded => b \notin own /\ current \notin own
    BY <1>5 DEF MustRefer
  <2>3. forwarded => t.cell.element \notin Buffer
    BY <2>1, <2>2, <1>2 DEF Fine, Ours, Good, CacheFits
  <2>4. Changes(Own(t), Rest(t), t.own, t.cell.type)
    BY <2>1, <2>3, <1>2, <1>3, BecomesChanges
  <2>5. ASSUME forwarded, ~Adrift(b)
        PROVE  cell.real = SeenIn(State)[b]
    <3>1. SeenIn(State)[b] = Rest(State)
      BY <1>2, <2>2, <2>5, SeenIsOwnOrRest
    <3>2. CASE cell.type = "plain"
      BY <1>2, <3>1, <3>2 DEF Rest
    <3>3. CASE cell.type # "plain"
      <4>1. cell.buffer \in Buffer
        BY <1>2, <2>2, <2>5, <3>3, Parts DEF Good, Adrift
      <4>2. cell.element = Default
        BY <1>2, <2>1, <2>3, <2>5, <3>3, <4>1 DEF Good, CacheFits, ElementFor
      <4> QED
        BY <1>2, <3>1, <3>3, <4>2 DEF Rest, Good, CacheFits
    <3> QED
      BY <3>2, <3>3
  <2>6. cell' = cell
    BY <1>2, <1>3, <2>1 DEF Becomes
  <2> QED
    BY <1>2, <2>1, <2>4, <2>5, <2>6
<1> QED
  BY <1>4, <1>5

(* The alist's element read is the buffer's own value, because the one     *)
(* that is cached is copied first.                                         *)
LEMMA BufferLocalVariablesChanges ==
  ASSUME Fine, NEW b \in Buffer, BufferLocalVariables(b)
  PROVE  /\ Changes(Own(State), Rest(State), own, cell.type)
         /\ got' = Own(State)[b]
<1>1. PICK s : s = Loaded(State, current)
  OBVIOUS
<1>2. current \in Buffer /\ Good(State) /\ State.cell = cell /\ State.own = own
  BY FineParts DEF Fine
<1>3. /\ Good(s) /\ Own(s) = Own(State) /\ Rest(s) = Rest(State)
      /\ s.own = State.own /\ s.cell.type = State.cell.type
      /\ s.cell.real = SeenIn(State)[current]
      /\ s.cell.type # "plain" => s.cell.buffer = current /\ s.cell.element = ElementFor(State, current)
  BY <1>1, <1>2, LoadedMeans
<1>4. s.cell.element \in Buffer => s.cell.element = current
  BY <1>3, NamesDiffer DEF Good, CacheFits, ElementFor
<1>5. PICK t : t = IF b = current THEN [s EXCEPT !.elem[b] = s.cell.real] ELSE s
  OBVIOUS
<1>6. /\ b \in own /\ Becomes(t) /\ got' = elem'[b]
      /\ UNCHANGED forwarded /\ current' = current
  BY <1>1, <1>5 DEF BufferLocalVariables
<1>7. Good(t) /\ t.cell = s.cell /\ t.own = s.own /\ Own(t) = Own(s) /\ Rest(t) = Rest(s)
      /\ t.elem[b] = Own(s)[b]
  <2>1. CASE b = current
    <3>1. t = [s EXCEPT !.elem[b] = s.cell.real]
      BY <1>5, <2>1
    <3>2. s.cell.type # "plain" => s.cell.element = ElementFor(s, b)
      BY <1>3, <2>1 DEF ElementFor
    <3>3. b \in s.own
      BY <1>2, <1>3, <1>6
    <3> QED
      BY <1>3, <3>1, <3>2, <3>3, CopiedMeans
  <2>2. CASE b # current
    <3>1. t = s
      BY <1>5, <2>2
    <3> QED
      BY <1>2, <1>3, <1>4, <1>6, <2>2, <3>1 DEF Own
  <2> QED
    BY <2>1, <2>2
<1>8. Changes(Own(t), Rest(t), t.own, t.cell.type)
  BY <1>4, <1>6, <1>7, BecomesChanges
<1>9. got' = t.elem[b]
  BY <1>6 DEF Becomes
<1> QED
  BY <1>2, <1>3, <1>7, <1>8, <1>9

(* set-default.                                                            *)
LEMMA SetDefaultChanges ==
  ASSUME Fine, NEW x \in Value, SetDefault(x)
  PROVE  Changes(Own(State), x, own, cell.type)
<1>1. PICK t : t = DefaultStored(State, x)
  OBVIOUS
<1>2. current \in Buffer /\ Good(State) /\ State.cell = cell /\ State.own = own
  BY FineParts DEF Fine
<1>3. /\ Good(t) /\ t.cell.type = State.cell.type /\ t.own = State.own
      /\ t.cell.element = State.cell.element
      /\ Own(t) = Own(State) /\ Rest(t) = x
  BY <1>1, <1>2, DefaultStoredMeans
<1>4. Becomes(t) /\ UNCHANGED forwarded /\ current' = current
  BY <1>1 DEF SetDefault
<1>5. Changes(Own(t), Rest(t), t.own, t.cell.type)
  BY <1>2, <1>3, <1>4, BecomesChanges DEF Fine, Ours
<1> QED
  BY <1>2, <1>3, <1>5

(* make-variable-buffer-local.                                             *)
LEMMA MakeVariableBufferLocalChanges ==
  ASSUME Fine, MakeVariableBufferLocal
  PROVE  Changes(Own(State), Rest(State), own, "auto")
<1>1. PICK t : t = IF State.cell.type = "plain" THEN Listed(State, "auto", current)
                   ELSE [State EXCEPT !.cell.type = "auto"]
  OBVIOUS
<1>2. current \in Buffer /\ Good(State) /\ State.cell = cell /\ State.own = own
  BY FineParts DEF Fine
<1>3. /\ Good(t) /\ t.cell.type = "auto" /\ t.own = State.own
      /\ t.cell.element = State.cell.element
      /\ Own(t) = Own(State) /\ Rest(t) = Rest(State)
  BY <1>1, <1>2, AutoMeans
<1>4. Becomes(t) /\ UNCHANGED forwarded /\ current' = current
  BY <1>1, <1>2 DEF MakeVariableBufferLocal
<1>5. Changes(Own(t), Rest(t), t.own, t.cell.type)
  BY <1>2, <1>3, <1>4, BecomesChanges DEF Fine, Ours
<1> QED
  BY <1>2, <1>3, <1>5

(* make-local-variable.                                                    *)
LEMMA MakeLocalVariableChanges ==
  ASSUME Fine, MakeLocalVariable
  PROVE  Changes([Own(State) EXCEPT ![current] = SeenIn(State)[current]], Rest(State),
                 own \union {current}, "some")
<1>1. PICK l : l = CellList(State)
  OBVIOUS
<1>2. current \in Buffer /\ Good(State) /\ State.cell = cell /\ State.own = own
  BY FineParts DEF Fine
<1>3. PICK t : t = MadeLocal(State, l, current)
  OBVIOUS
<1>4. Becomes(t) /\ UNCHANGED forwarded /\ current' = current /\ State.cell.type # "auto"
  BY <1>1, <1>2, <1>3 DEF MakeLocalVariable, CellList, MadeLocal
<1>5. /\ Good(t) /\ t.cell.type = "some" /\ t.own = State.own \union {current}
      /\ t.cell.element = State.cell.element
      /\ Own(t) = [Own(State) EXCEPT ![current] = SeenIn(State)[current]] /\ Rest(t) = Rest(State)
  BY <1>1, <1>2, <1>3, <1>4, LocalMeans
<1>6. Changes(Own(t), Rest(t), t.own, t.cell.type)
  BY <1>2, <1>4, <1>5, BecomesChanges DEF Fine, Ours
<1> QED
  BY <1>2, <1>5, <1>6

(* kill-local-variable.                                                    *)
LEMMA KillLocalVariableChanges ==
  ASSUME Fine, KillLocalVariable
  PROVE  Changes([Own(State) EXCEPT ![current] = Absent], Rest(State), own \ {current}, cell.type)
<1>1. PICK t : t = Forgotten(Removed(State, current), current)
  OBVIOUS
<1>2. current \in Buffer /\ Good(State) /\ State.cell = cell /\ State.own = own
  BY FineParts DEF Fine
<1>3. Becomes(t) /\ UNCHANGED forwarded /\ current' = current /\ State.cell.type # "plain"
  BY <1>1, <1>2 DEF KillLocalVariable
<1>4. /\ Good(t) /\ t.cell.type = State.cell.type /\ t.own = State.own \ {current}
      /\ t.cell.element \in Buffer => t.cell.element = State.cell.element
      /\ Own(t) = [Own(State) EXCEPT ![current] = Absent] /\ Rest(t) = Rest(State)
  BY <1>1, <1>2, <1>3, KilledMeans
<1>5. Changes(Own(t), Rest(t), t.own, t.cell.type)
  BY <1>2, <1>3, <1>4, BecomesChanges DEF Fine, Ours
<1> QED
  BY <1>2, <1>4, <1>5

(* kill-all-local-variables.                                               *)
LEMMA KillAllLocalVariablesChanges ==
  ASSUME Fine, KillAllLocalVariables
  PROVE  Changes([Own(State) EXCEPT ![current] = Absent], Rest(State), own \ {current}, cell.type)
<1>1. PICK k : k = Uncached(State, current)
  OBVIOUS
<1>2. current \in Buffer /\ Good(State) /\ State.cell = cell /\ State.own = own
  BY FineParts DEF Fine
<1>3. PICK t : t = Removed(k, current)
  OBVIOUS
<1>4. Becomes(t) /\ UNCHANGED forwarded /\ current' = current
  BY <1>1, <1>2, <1>3 DEF KillAllLocalVariables, Uncached
<1>5. /\ Good(t) /\ t.cell.type = State.cell.type /\ t.own = State.own \ {current}
      /\ t.cell.element \in Buffer => t.cell.element = State.cell.element
      /\ Own(t) = [Own(State) EXCEPT ![current] = Absent] /\ Rest(t) = Rest(State)
  BY <1>1, <1>2, <1>3, KilledAllMeans
<1>6. Changes(Own(t), Rest(t), t.own, t.cell.type)
  BY <1>2, <1>4, <1>5, BecomesChanges DEF Fine, Ours
<1> QED
  BY <1>2, <1>5, <1>6

(* The current buffer's own value changes, or the rest's.                  *)
Assigns(x) ==
  IF cell.type = "auto" \/ current \in own
  THEN Changes([Own(State) EXCEPT ![current] = x], Rest(State),
               IF cell.type = "auto" THEN own \union {current} ELSE own, cell.type)
  ELSE Changes(Own(State), x, own, cell.type)

(* Storing assigns, also after a load.                                     *)
LEMMA StoredChanges ==
  ASSUME Fine, NEW s, Good(s), Own(s) = Own(State), Rest(s) = Rest(State),
         s.own = own, s.cell.type = cell.type,
         NEW x \in Value, NEW t, t = Stored(s, current, x), Becomes(t),
         UNCHANGED forwarded, current' = current
  PROVE  Assigns(x)
<1>1. current \in Buffer
  BY DEF Fine
<1>2. /\ Good(t) /\ t.cell.type = s.cell.type
      /\ t.own = IF s.cell.type = "auto" THEN s.own \union {current} ELSE s.own
      /\ t.cell.element \in Buffer => t.cell.element = current
      /\ IF s.cell.type = "auto" \/ current \in s.own
         THEN Own(t) = [Own(s) EXCEPT ![current] = x] /\ Rest(t) = Rest(s)
         ELSE Own(t) = Own(s) /\ Rest(t) = x
  BY <1>1, StoredMeans
<1>3. Changes(Own(t), Rest(t), t.own, t.cell.type)
  BY <1>2, BecomesChanges
<1> QED
  BY <1>2, <1>3 DEF Assigns

(* set.                                                                    *)
LEMMA SetChanges ==
  ASSUME Fine, NEW x \in Value, Set(x)
  PROVE  Assigns(x)
<1>1. PICK t : t = Stored(State, current, x)
  OBVIOUS
<1>2. Becomes(t) /\ UNCHANGED forwarded /\ current' = current
  BY <1>1 DEF Set
<1>3. Good(State) /\ State.own = own /\ State.cell.type = cell.type
  BY FineParts
<1> QED
  BY <1>1, <1>2, <1>3, StoredChanges

(* A binding remembers what the current buffer sees.                       *)
LEMMA RestoredIsSeen ==
  ASSUME Fine
  PROVE  ValueToRestore(State) = SeenIn(State)[current]
<1>1. Good(State) /\ current \in Buffer
  BY FineParts DEF Fine
<1> QED
  BY <1>1, LoadedMeans DEF ValueToRestore

(* specbind assigns and pushes what was seen.                              *)
LEMMA BindChanges ==
  ASSUME Fine, NEW x \in Value, Bind(x)
  PROVE  /\ Assigns(x)
         /\ specpdl' = Append(specpdl, [old |-> SeenIn(State)[current], buffer |-> current,
                                        before |-> SeenIn(State)])
<1>1. PICK s : s = Loaded(State, current)
  OBVIOUS
<1>2. PICK t : t = Stored(s, current, x)
  OBVIOUS
<1>3. Becomes(t) /\ UNCHANGED forwarded /\ current' = current
  BY <1>1, <1>2 DEF Bind
<1>4. Good(State) /\ State.own = own /\ State.cell.type = cell.type /\ current \in Buffer
  BY FineParts DEF Fine
<1>5. /\ Good(s) /\ Own(s) = Own(State) /\ Rest(s) = Rest(State)
      /\ s.own = own /\ s.cell.type = cell.type
  BY <1>1, <1>4, LoadedMeans
<1>6. Assigns(x)
  BY <1>2, <1>3, <1>5, StoredChanges
<1> QED
  BY <1>6, RestoredIsSeen DEF Bind

(* unbind_to assigns what was remembered.                                  *)
LEMMA UnbindChanges ==
  ASSUME Fine, Unbind, NEW x \in Value, x = specpdl[Len(specpdl)].old
  PROVE  Assigns(x)
<1>1. PICK t : t = Stored(State, current, x)
  OBVIOUS
<1>2. Becomes(t) /\ UNCHANGED forwarded /\ current' = current
  BY <1>1 DEF Unbind
<1>3. Good(State) /\ State.own = own /\ State.cell.type = cell.type
  BY FineParts
<1> QED
  BY <1>1, <1>2, <1>3, StoredChanges
-----------------------------------------------------------------------------
(* The bindings' types, and the values they are to put back.               *)
Binding == [old : Value, buffer : Buffer, before : [Buffer -> Value] \union {<<>>}]

Bindings == specpdl \in Seq(Binding) /\ Len(specpdl) <= MaxBound

Olds(q) == [i \in DOMAIN q |-> q[i].old]
Voided(q) == [i \in DOMAIN q |-> [q[i] EXCEPT !.before = <<>>]]

(* Voiding changes no value to put back.                                   *)
LEMMA VoidedIs ==
  ASSUME NEW q \in Seq(Binding)
  PROVE  /\ Voided(q) \in Seq(Binding) /\ Len(Voided(q)) = Len(q)
         /\ DOMAIN Voided(q) = DOMAIN q
         /\ \A i \in DOMAIN q : /\ Voided(q)[i].before = <<>> /\ Voided(q)[i].old = q[i].old
                                /\ Voided(q)[i].buffer = q[i].buffer
         /\ Olds(Voided(q)) = Olds(q)
<1>1. DOMAIN q = 1 .. Len(q) /\ Len(q) \in Nat /\ \A i \in 1 .. Len(q) : q[i] \in Binding
  OBVIOUS
<1>2. PICK v : v = Voided(q)
  OBVIOUS
<1>3. /\ v = [i \in 1 .. Len(q) |-> v[i]]
      /\ \A i \in 1 .. Len(q) : v[i] = [q[i] EXCEPT !.before = <<>>]
  BY <1>1, <1>2 DEF Voided
<1>4. ASSUME NEW i \in 1 .. Len(q)
      PROVE  /\ v[i] \in Binding /\ v[i].before = <<>> /\ v[i].old = q[i].old
             /\ v[i].buffer = q[i].buffer
  <2>1. q[i] \in Binding
    BY <1>1
  <2>2. v[i] = [q[i] EXCEPT !.before = <<>>]
    BY <1>3
  <2> QED
    BY <2>1, <2>2 DEF Binding
<1>5. v \in [1 .. Len(q) -> Binding]
  BY <1>3, <1>4
<1>6. v \in Seq(Binding) /\ Len(v) = Len(q) /\ DOMAIN v = DOMAIN q
  BY <1>1, <1>5
<1>7. Olds(v) = Olds(q)
  BY <1>1, <1>4, <1>6 DEF Olds
<1> QED
  BY <1>1, <1>2, <1>4, <1>6, <1>7

(* The values to put back are a sequence as long.                          *)
LEMMA OldsIs ==
  ASSUME NEW q \in Seq(Binding)
  PROVE  /\ Olds(q) \in Seq(Value) /\ Len(Olds(q)) = Len(q) /\ Len(q) \in Nat
         /\ \A i \in 1 .. Len(q) : Olds(q)[i] = q[i].old
<1>1. DOMAIN q = 1 .. Len(q) /\ Len(q) \in Nat /\ \A i \in 1 .. Len(q) : q[i] \in Binding
  OBVIOUS
<1>2. \A i \in 1 .. Len(q) : q[i].old \in Value
  BY <1>1 DEF Binding
<1>3. Olds(q) = [i \in 1 .. Len(q) |-> q[i].old]
  BY <1>1 DEF Olds
<1>4. Olds(q) \in [1 .. Len(q) -> Value]
  BY <1>2, <1>3
<1> QED
  BY <1>1, <1>3, <1>4

(* The values of one more binding.                                         *)
LEMMA OldsOfAppend ==
  ASSUME NEW q \in Seq(Binding), NEW e \in Binding
  PROVE  Olds(Append(q, e)) = Append(Olds(q), e.old)
<1>1. Olds(q) \in Seq(Value) /\ Len(Olds(q)) = Len(q)
  BY OldsIs
<1>2. DOMAIN Append(q, e) = 1 .. Len(q) + 1 /\ DOMAIN Append(Olds(q), e.old) = 1 .. Len(q) + 1
  BY <1>1
<1>3. ASSUME NEW i \in 1 .. Len(q) + 1
      PROVE  Append(q, e)[i].old = Append(Olds(q), e.old)[i]
  <2>1. CASE i = Len(q) + 1
    BY <1>1, <2>1
  <2>2. CASE i \in 1 .. Len(q)
    <3>1. Append(q, e)[i] = q[i] /\ Append(Olds(q), e.old)[i] = Olds(q)[i]
      BY <1>1, <2>2
    <3> QED
      BY <2>2, <3>1, OldsIs
  <2>3. i = Len(q) + 1 \/ i \in 1 .. Len(q)
    BY OldsIs
  <2> QED
    BY <2>1, <2>2, <2>3
<1>4. PICK f : f = Append(Olds(q), e.old)
  OBVIOUS
<1>5. f = [i \in 1 .. Len(q) + 1 |-> f[i]]
  BY <1>1, <1>2, <1>4
<1> QED
  BY <1>2, <1>3, <1>4, <1>5 DEF Olds

(* The values of one binding less.                                         *)
LEMMA OldsOfFront ==
  ASSUME NEW q \in Seq(Binding), q # <<>>
  PROVE  LET r == SubSeq(q, 1, Len(q) - 1)
         IN  /\ r \in Seq(Binding) /\ Len(r) = Len(q) - 1
             /\ \A i \in 1 .. Len(q) - 1 : r[i] = q[i]
             /\ Olds(r) = SubSeq(Olds(q), 1, Len(q) - 1)
             /\ Len(Olds(q)) = Len(q) /\ Olds(q) # <<>> /\ Olds(q)[Len(q)] = q[Len(q)].old
<1>1. PICK n \in Nat : n + 1 = Len(q)
  BY EmptySeq
<1>2. PICK r : r = SubSeq(q, 1, n)
  OBVIOUS
<1>3. r \in Seq(Binding) /\ Len(r) = n /\ \A i \in 1 .. n : r[i] = q[i]
  BY <1>1, <1>2, SubSeqProperties
<1>4. Olds(q) \in Seq(Value) /\ Len(Olds(q)) = Len(q)
  BY OldsIs
<1>5. PICK f : f = SubSeq(Olds(q), 1, n)
  OBVIOUS
<1>6. f \in Seq(Value) /\ Len(f) = n /\ \A i \in 1 .. n : f[i] = Olds(q)[i]
  BY <1>1, <1>4, <1>5, SubSeqProperties
<1>7. f = [i \in 1 .. n |-> f[i]]
  BY <1>6
<1>8. \A i \in 1 .. n : f[i] = r[i].old
  <2>1. \A i \in 1 .. n : i \in 1 .. Len(q)
    BY <1>1
  <2>2. \A i \in 1 .. n : Olds(q)[i] = q[i].old
    BY <2>1, OldsIs
  <2> QED
    BY <1>3, <1>6, <2>2
<1>9. Olds(r) = f
  BY <1>3, <1>7, <1>8 DEF Olds
<1>10. Olds(q) # <<>> /\ Olds(q)[Len(q)] = q[Len(q)].old
  BY <1>1, <1>4, OldsIs, EmptySeq
<1>11. n = Len(q) - 1
  BY <1>1
<1> QED
  BY <1>2, <1>3, <1>4, <1>5, <1>9, <1>10, <1>11
-----------------------------------------------------------------------------
(* The invariant that implies TypeOK.                                      *)
Basic == Fine /\ Bindings /\ got \in Value \union {Absent}

(* Steps keep the cell's invariant.                                        *)
LEMMA ChangesFine ==
  ASSUME NEW o, NEW r, NEW w, NEW type, Changes(o, r, w, type),
         current' \in Buffer, forwarded' \in BOOLEAN
  PROVE  Fine'
BY DEF Fine, Changes

(* Assignments do, too.                                                    *)
LEMMA AssignsFine ==
  ASSUME Fine, NEW x, Assigns(x), UNCHANGED <<current, forwarded>>
  PROVE  Fine'
<1>1. PICK o, r, w, type : Changes(o, r, w, type)
  BY DEF Assigns
<1> QED
  BY <1>1, ChangesFine DEF Fine

(* Assigning outside bindings voids what they saw and leaves their values. *)
LEMMA AssignedKeepsBindings ==
  ASSUME Bindings, Assigned
  PROVE  Bindings' /\ Olds(specpdl)' = Olds(specpdl)
         /\ \A i \in DOMAIN specpdl' : specpdl'[i].before = <<>>
<1>1. specpdl' = Voided(specpdl)
  BY DEF Assigned, Voided
<1> QED
  BY <1>1, VoidedIs DEF Bindings

(* specbind adds what the current buffer sees.                             *)
LEMMA BindKeepsBindings ==
  ASSUME Basic, NEW x \in Value, Bind(x)
  PROVE  /\ Bindings'
         /\ Olds(specpdl)' = Append(Olds(specpdl), SeenIn(State)[current])
<1>1. PICK e : e = [old |-> SeenIn(State)[current], buffer |-> current, before |-> SeenIn(State)]
  OBVIOUS
<1>2. SeenIn(State) \in [Buffer -> Value]
  <2>1. \A b \in Buffer : SeenIn(State)[b] \in Value
    BY FineParts, SeenIsOwnOrRest DEF Basic
  <2> QED
    BY <2>1 DEF SeenIn
<1>3. e \in Binding /\ e.old = SeenIn(State)[current]
  BY <1>1, <1>2 DEF Binding, Basic, Fine
<1>4. specpdl' = Append(specpdl, e)
  BY <1>1, BindChanges DEF Basic
<1>5. specpdl \in Seq(Binding) /\ Len(specpdl) < MaxBound /\ MaxBound \in Nat
  BY LocalsAssumption DEF Basic, Bindings, Bind
<1> QED
  BY <1>3, <1>4, <1>5, OldsOfAppend DEF Bindings

(* unbind_to takes the last value.                                         *)
LEMMA UnbindKeepsBindings ==
  ASSUME Basic, Unbind
  PROVE  /\ Bindings'
         /\ Olds(specpdl)' = SubSeq(Olds(specpdl), 1, Len(specpdl) - 1)
         /\ specpdl[Len(specpdl)] \in Binding
<1>1. specpdl \in Seq(Binding) /\ specpdl # <<>> /\ Len(specpdl) <= MaxBound /\ MaxBound \in Nat
  BY LocalsAssumption DEF Basic, Bindings, Unbind
<1>2. PICK rest : rest = SubSeq(specpdl, 1, Len(specpdl) - 1)
  OBVIOUS
<1>3. /\ rest \in Seq(Binding) /\ Len(rest) = Len(specpdl) - 1
      /\ Olds(rest) = SubSeq(Olds(specpdl), 1, Len(specpdl) - 1)
  BY <1>1, <1>2, OldsOfFront
<1>4. specpdl' = rest \/ specpdl' = Voided(rest)
  BY <1>2 DEF Unbind, Voided
<1>5. specpdl' \in Seq(Binding) /\ Len(specpdl') = Len(rest) /\ Olds(specpdl') = Olds(rest)
  BY <1>3, <1>4, VoidedIs
<1>6. specpdl[Len(specpdl)] \in Binding /\ Len(rest) <= MaxBound
  BY <1>1, <1>3, EmptySeq
<1> QED
  BY <1>3, <1>5, <1>6 DEF Bindings

(* A plain variable fits.                                                  *)
LEMMA BasicInit == Init => Basic
<1> SUFFICES ASSUME Init
             PROVE  Basic
  OBVIOUS
<1>1. PICK v \in Value :
        /\ cell = [type |-> "plain", real |-> v, buffer |-> Nobody, element |-> Default, default |-> v]
        /\ elem = [b \in Buffer |-> v]
  BY DEF Init
<1>2. own = {} /\ specpdl = <<>> /\ got = Absent /\ current \in Buffer /\ forwarded \in BOOLEAN
  BY DEF Init
<1>3. State \in Together
  <2>1. cell \in Cell
    BY <1>1 DEF Cell, Element
  <2> QED
    BY <1>1, <1>2, <2>1 DEF State, Together
<1>4. CacheFits(State)
  BY <1>1, <1>2, NamesDiffer DEF CacheFits, State, ElementFor
<1>5. Ours
  BY <1>1, NamesDiffer DEF Ours
<1>6. Bindings
  BY <1>2, LocalsAssumption DEF Bindings
<1> QED
  BY <1>2, <1>3, <1>4, <1>5, <1>6 DEF Basic, Fine, Good

(* Every operation keeps the invariant.                                    *)
LEMMA BasicStep == Basic /\ [Next]_vars => Basic'
<1> SUFFICES ASSUME Basic, [Next]_vars
             PROVE  Basic'
  OBVIOUS
<1>1. Fine /\ Bindings /\ got \in Value \union {Absent} /\ current \in Buffer /\ forwarded \in BOOLEAN
  BY DEF Basic, Fine
<1>2. ASSUME NEW b \in Buffer
      PROVE  SeenIn(State)[b] \in Value /\ Rest(State) \in Value
             /\ Own(State)[b] \in Value \union {Absent}
  BY <1>1, FineParts, SeenIsOwnOrRest
<1>3. CASE SymbolValue
  <2>1. UNCHANGED <<current, forwarded, specpdl>>
    BY <1>3 DEF SymbolValue
  <2>2. Fine' /\ got' \in Value
    BY <1>1, <1>2, <1>3, <2>1, SymbolValueChanges, ChangesFine
  <2> QED
    BY <1>1, <2>1, <2>2 DEF Basic, Bindings
<1>4. CASE DefaultValue
  <2>1. UNCHANGED <<current, forwarded, cell, own, elem, specpdl>> /\ got' = Rest(State)
    BY <1>1, <1>4, FineParts DEF DefaultValue, Rest
  <2> QED
    BY <1>1, <1>2, <2>1 DEF Basic, Bindings, Fine, Ours, State
<1>5. ASSUME NEW b \in Buffer, BufferLocalVariables(b)
      PROVE  Basic'
  <2>1. UNCHANGED <<current, forwarded, specpdl>>
    BY <1>5 DEF BufferLocalVariables
  <2>2. Fine' /\ got' \in Value \union {Absent}
    BY <1>1, <1>2, <1>5, <2>1, BufferLocalVariablesChanges, ChangesFine
  <2> QED
    BY <1>1, <2>1, <2>2 DEF Basic, Bindings
<1>6. ASSUME NEW b \in Buffer, SetBuffer(b)
      PROVE  Basic'
  <2>1. current' = b /\ UNCHANGED <<forwarded, specpdl, got>>
    BY <1>6 DEF SetBuffer
  <2>2. Fine'
    BY <1>1, <1>6, <2>1, SetBufferChanges, ChangesFine
  <2> QED
    BY <1>1, <2>1, <2>2 DEF Basic, Bindings
<1>7. ASSUME NEW x \in Value, Set(x)
      PROVE  Basic'
  <2>1. Assigned /\ UNCHANGED <<current, forwarded, got>>
    BY <1>7 DEF Set
  <2>2. Fine'
    BY <1>1, <1>7, <2>1, SetChanges, AssignsFine
  <2> QED
    BY <1>1, <2>1, <2>2, AssignedKeepsBindings DEF Basic
<1>8. ASSUME NEW x \in Value, SetDefault(x)
      PROVE  Basic'
  <2>1. Assigned /\ UNCHANGED <<current, forwarded, got>>
    BY <1>8 DEF SetDefault
  <2>2. Fine'
    BY <1>1, <1>8, <2>1, SetDefaultChanges, ChangesFine
  <2> QED
    BY <1>1, <2>1, <2>2, AssignedKeepsBindings DEF Basic
<1>9. ASSUME NEW x \in Value, Bind(x)
      PROVE  Basic'
  <2>1. UNCHANGED <<current, forwarded, got>>
    BY <1>9 DEF Bind
  <2>2. Fine'
    BY <1>1, <1>9, <2>1, BindChanges, AssignsFine
  <2> QED
    BY <1>1, <1>9, <2>1, <2>2, BindKeepsBindings DEF Basic
<1>10. CASE Unbind
  <2>1. UNCHANGED <<current, forwarded, got>>
    BY <1>10 DEF Unbind
  <2>2. specpdl[Len(specpdl)].old \in Value
    BY <1>10, UnbindKeepsBindings DEF Binding
  <2>3. Fine'
    BY <1>1, <1>10, <2>1, <2>2, UnbindChanges, AssignsFine
  <2> QED
    BY <1>1, <1>10, <2>1, <2>3, UnbindKeepsBindings DEF Basic
<1>11. CASE MakeVariableBufferLocal
  <2>1. Assigned /\ UNCHANGED <<current, forwarded, got>>
    BY <1>11 DEF MakeVariableBufferLocal
  <2>2. Fine'
    BY <1>1, <1>11, <2>1, MakeVariableBufferLocalChanges, ChangesFine
  <2> QED
    BY <1>1, <2>1, <2>2, AssignedKeepsBindings DEF Basic
<1>12. CASE MakeLocalVariable
  <2>1. Assigned /\ UNCHANGED <<current, forwarded, got>>
    BY <1>12 DEF MakeLocalVariable
  <2>2. Fine'
    BY <1>1, <1>12, <2>1, MakeLocalVariableChanges, ChangesFine
  <2> QED
    BY <1>1, <2>1, <2>2, AssignedKeepsBindings DEF Basic
<1>13. CASE KillLocalVariable
  <2>1. Assigned /\ UNCHANGED <<current, forwarded, got>>
    BY <1>13 DEF KillLocalVariable
  <2>2. Fine'
    BY <1>1, <1>13, <2>1, KillLocalVariableChanges, ChangesFine
  <2> QED
    BY <1>1, <2>1, <2>2, AssignedKeepsBindings DEF Basic
<1>14. CASE KillAllLocalVariables
  <2>1. Assigned /\ UNCHANGED <<current, forwarded, got>>
    BY <1>14 DEF KillAllLocalVariables
  <2>2. Fine'
    BY <1>1, <1>14, <2>1, KillAllLocalVariablesChanges, ChangesFine
  <2> QED
    BY <1>1, <2>1, <2>2, AssignedKeepsBindings DEF Basic
<1>15. CASE UNCHANGED vars
  BY <1>15 DEF Basic, Fine, Bindings, Ours, State, vars
<1> QED
  BY <1>3, <1>4, <1>5, <1>6, <1>7, <1>8, <1>9, <1>10, <1>11, <1>12, <1>13, <1>14, <1>15 DEF Next

(* The invariant has TypeOK in it.                                         *)
LEMMA BasicIsTypeOK == Basic => TypeOK
<1> SUFFICES ASSUME Basic
             PROVE  TypeOK
  OBVIOUS
<1>1. Fine /\ Bindings /\ got \in Value \union {Absent}
  BY DEF Basic
<1>2. /\ State \in Together /\ CacheFits(State)
      /\ State.cell = cell /\ State.own = own /\ State.elem = elem
  BY <1>1, FineParts DEF Good
<1>3. cell \in Cell /\ own \subseteq Buffer /\ elem \in [Buffer -> Value]
  BY <1>2, Parts
<1>4. /\ cell.element \in Buffer => cell.element \in own
      /\ cell.type # "plain" /\ cell.element = Default => cell.real = cell.default
  BY <1>2 DEF CacheFits
<1> QED
  BY <1>1, <1>3, <1>4 DEF TypeOK, Cell, Fine, Bindings, Binding

(* The cell's cache always fits the alists (data.c, whatever the order of  *)
(* the operations).                                                        *)
THEOREM BasicHolds == Spec => []Basic
BY BasicInit, BasicStep, PTL DEF Spec

(* TypeOK always holds, with what it says of the cell: the element cached  *)
(* is in its alist, and a default value cached is the default value.       *)
THEOREM TypesAreKept == Spec => []TypeOK
BY BasicHolds, BasicIsTypeOK, PTL
-----------------------------------------------------------------------------
(* The refinement mapping in the terms of the lemmas.                      *)
LEMMA Mapping ==
  /\ local = Own(State) /\ default = Rest(State) /\ bound = Olds(specpdl)
BY DEF local, default, bound, Own, Rest, State, Olds

(* An assignment is the promise's.                                         *)
LEMMA PromiseAssign ==
  ASSUME Fine, NEW x, Assigns(x)
  PROVE  Promise!Assign(x) /\ auto' = auto
<1>1. current \in own <=> local[current] # Absent
  BY FineParts, SeenIsOwnOrRest, Mapping DEF Fine
<1>2. /\ IF auto \/ local[current] # Absent
         THEN Own(State)' = [Own(State) EXCEPT ![current] = x] /\ Rest(State)' = Rest(State)
         ELSE Rest(State)' = x /\ Own(State)' = Own(State)
      /\ auto' = auto
  BY <1>1 DEF Assigns, Changes, auto
<1>3. local' = Own(State)' /\ default' = Rest(State)'
  BY DEF local, default, Own, Rest, State
<1> QED
  BY <1>2, <1>3, Mapping DEF Promise!Assign

(* What the current buffer sees is what the promise says.                  *)
LEMMA SeenMapped ==
  ASSUME Fine
  PROVE  /\ Promise!Seen(current) = SeenIn(State)[current]
         /\ SeenIn(State)[current] \in Value
<1>1. /\ SeenIn(State)[current] = IF current \in own THEN Own(State)[current] ELSE Rest(State)
      /\ current \in own <=> Own(State)[current] # Absent
      /\ SeenIn(State)[current] \in Value
  BY FineParts, SeenIsOwnOrRest DEF Fine
<1> QED
  BY <1>1, Mapping DEF Promise!Seen

(* At first no buffer has a value of its own.                              *)
LEMMA InitMapped == Init => Promise!Init
<1> SUFFICES ASSUME Init
             PROVE  Promise!Init
  OBVIOUS
<1>1. PICK v \in Value :
        cell = [type |-> "plain", real |-> v, buffer |-> Nobody, element |-> Default, default |-> v]
  BY DEF Init
<1>2. own = {} /\ specpdl = <<>> /\ got = Absent /\ current \in Buffer
  BY DEF Init
<1>3. local = [b \in Buffer |-> Absent]
  BY <1>2 DEF local
<1>4. bound = <<>>
  BY <1>2 DEF bound
<1>5. default \in Value /\ auto = FALSE
  BY <1>1 DEF default, auto
<1> QED
  BY <1>2, <1>3, <1>4, <1>5 DEF Promise!Init

(* Every operation is one of the promise's, or shows nothing.              *)
LEMMA NextMapped == Basic /\ [Next]_vars => [Promise!Next]_<<current, local, default, auto, bound, got>>
<1> SUFFICES ASSUME Basic, [Next]_vars
             PROVE  Promise!Next \/ UNCHANGED <<current, local, default, auto, bound, got>>
  OBVIOUS
<1>1. Fine /\ Bindings /\ current \in Buffer
  BY DEF Basic, Fine
<1>2. local' = Own(State)' /\ default' = Rest(State)' /\ bound' = Olds(specpdl)'
  BY DEF local, default, bound, Own, Rest, State, Olds
<1>3. ASSUME NEW o, NEW r, NEW w, NEW type, Changes(o, r, w, type)
      PROVE  local' = o /\ default' = r /\ auto' = (type = "auto")
  BY <1>2, <1>3 DEF Changes, auto
<1>4. specpdl' = specpdl => bound' = bound
  BY DEF bound
<1>5. Assigned => bound' = bound
  BY <1>1, <1>2, AssignedKeepsBindings, Mapping
<1>6. CASE SymbolValue
  <2>1. UNCHANGED <<current, specpdl>> /\ got' = SeenIn(State)[current]
    BY <1>1, <1>6, SymbolValueChanges DEF SymbolValue
  <2>2. UNCHANGED <<local, default, auto>>
    BY <1>1, <1>3, <1>6, SymbolValueChanges, Mapping DEF auto
  <2>3. Promise!Read(Promise!Seen(current))
    BY <1>1, <1>4, <2>1, <2>2, SeenMapped DEF Promise!Read
  <2> QED
    BY <2>3 DEF Promise!Next
<1>7. CASE DefaultValue
  <2>1. UNCHANGED <<current, cell, own, elem, specpdl>> /\ got' = default
    BY <1>7 DEF DefaultValue, default
  <2>2. Promise!Read(default)
    BY <1>4, <2>1 DEF Promise!Read, local, default, auto
  <2> QED
    BY <2>2 DEF Promise!Next
<1>8. ASSUME NEW b \in Buffer, BufferLocalVariables(b)
      PROVE  Promise!Next
  <2>1. UNCHANGED <<current, specpdl>> /\ got' = local[b]
    BY <1>1, <1>8, BufferLocalVariablesChanges, Mapping DEF BufferLocalVariables
  <2>2. UNCHANGED <<local, default, auto>>
    BY <1>1, <1>3, <1>8, BufferLocalVariablesChanges, Mapping DEF auto
  <2>3. Promise!Read(local[b])
    BY <1>4, <2>1, <2>2 DEF Promise!Read
  <2> QED
    BY <2>3 DEF Promise!Next
<1>9. ASSUME NEW b \in Buffer, SetBuffer(b)
      PROVE  Promise!Next
  <2>1. current' = b /\ UNCHANGED <<specpdl, got>>
    BY <1>9 DEF SetBuffer
  <2>2. UNCHANGED <<local, default, auto>>
    BY <1>1, <1>3, <1>9, SetBufferChanges, Mapping DEF auto
  <2>3. Promise!SwitchTo(b)
    BY <1>4, <2>1, <2>2 DEF Promise!SwitchTo
  <2> QED
    BY <2>3 DEF Promise!Next
<1>10. ASSUME NEW x \in Value, Set(x)
       PROVE  Promise!Next
  <2>1. Assigned /\ UNCHANGED <<current, got>>
    BY <1>10 DEF Set
  <2>2. Promise!Set(x)
    BY <1>1, <1>5, <1>10, <2>1, SetChanges, PromiseAssign DEF Promise!Set
  <2> QED
    BY <2>2 DEF Promise!Next
<1>11. ASSUME NEW x \in Value, SetDefault(x)
       PROVE  Promise!Next
  <2>1. Assigned /\ UNCHANGED <<current, got>>
    BY <1>11 DEF SetDefault
  <2>2. local' = local /\ default' = x /\ auto' = auto
    BY <1>1, <1>3, <1>11, SetDefaultChanges, Mapping DEF auto
  <2>3. Promise!SetDefault(x)
    BY <1>5, <2>1, <2>2 DEF Promise!SetDefault
  <2> QED
    BY <2>3 DEF Promise!Next
<1>12. ASSUME NEW x \in Value, Bind(x)
       PROVE  Promise!Next
  <2>1. UNCHANGED <<current, got>> /\ Len(specpdl) < MaxBound
    BY <1>12 DEF Bind
  <2>2. bound' = Append(bound, Promise!Seen(current))
    BY <1>1, <1>2, <1>12, BindKeepsBindings, SeenMapped, Mapping
  <2>3. Len(bound) = Len(specpdl)
    BY <1>1, OldsIs, Mapping DEF Bindings
  <2>4. Promise!Assign(x) /\ auto' = auto
    BY <1>1, <1>12, BindChanges, PromiseAssign
  <2>5. Promise!Bind(x)
    BY <2>1, <2>2, <2>3, <2>4 DEF Promise!Bind
  <2> QED
    BY <2>5 DEF Promise!Next
<1>13. CASE Unbind
  <2>1. UNCHANGED <<current, got>> /\ specpdl # <<>>
    BY <1>13 DEF Unbind
  <2>2. /\ Len(bound) = Len(specpdl) /\ bound # <<>>
        /\ bound[Len(bound)] = specpdl[Len(specpdl)].old
    BY <1>1, <2>1, OldsOfFront, Mapping DEF Bindings
  <2>3. bound' = SubSeq(bound, 1, Len(bound) - 1)
    BY <1>2, <1>13, <2>2, UnbindKeepsBindings, Mapping
  <2>4. bound[Len(bound)] \in Value
    BY <1>13, <2>2, UnbindKeepsBindings DEF Binding
  <2>5. Promise!Assign(bound[Len(bound)]) /\ auto' = auto
    BY <1>1, <1>13, <2>2, <2>4, UnbindChanges, PromiseAssign
  <2>6. Promise!Unbind
    BY <2>1, <2>2, <2>3, <2>5 DEF Promise!Unbind
  <2> QED
    BY <2>6 DEF Promise!Next
<1>14. CASE MakeVariableBufferLocal
  <2>1. Assigned /\ UNCHANGED <<current, got>>
    BY <1>14 DEF MakeVariableBufferLocal
  <2>2. local' = local /\ default' = default /\ auto' = TRUE
    BY <1>1, <1>3, <1>14, MakeVariableBufferLocalChanges, Mapping
  <2>3. Promise!MakeAuto
    BY <1>5, <2>1, <2>2 DEF Promise!MakeAuto
  <2> QED
    BY <2>3 DEF Promise!Next
<1>15. CASE MakeLocalVariable
  <2>1. Assigned /\ UNCHANGED <<current, got>> /\ auto = FALSE
    BY <1>15 DEF MakeLocalVariable, auto
  <2>2. local' = [local EXCEPT ![current] = Promise!Seen(current)] /\ default' = default /\ auto' = FALSE
    <3>1. Changes([Own(State) EXCEPT ![current] = SeenIn(State)[current]], Rest(State),
                  own \union {current}, "some")
      BY <1>1, <1>15, MakeLocalVariableChanges
    <3>2. /\ local' = [Own(State) EXCEPT ![current] = SeenIn(State)[current]]
          /\ default' = Rest(State) /\ auto' = ("some" = "auto")
      BY <1>3, <3>1
    <3>3. auto' = FALSE
      BY <3>1 DEF Changes, auto
    <3> QED
      BY <1>1, <3>2, <3>3, SeenMapped, Mapping
  <2>3. Promise!MakeLocal
    BY <1>5, <2>1, <2>2 DEF Promise!MakeLocal
  <2> QED
    BY <2>3 DEF Promise!Next
<1>16. CASE KillLocalVariable
  <2>1. Assigned /\ UNCHANGED <<current, got>>
    BY <1>16 DEF KillLocalVariable
  <2>2. local' = [local EXCEPT ![current] = Absent] /\ default' = default /\ auto' = auto
    BY <1>1, <1>3, <1>16, KillLocalVariableChanges, Mapping DEF auto
  <2>3. Promise!KillLocal
    BY <1>5, <2>1, <2>2 DEF Promise!KillLocal
  <2> QED
    BY <2>3 DEF Promise!Next
<1>17. CASE KillAllLocalVariables
  <2>1. Assigned /\ UNCHANGED <<current, got>>
    BY <1>17 DEF KillAllLocalVariables
  <2>2. local' = [local EXCEPT ![current] = Absent] /\ default' = default /\ auto' = auto
    BY <1>1, <1>3, <1>17, KillAllLocalVariablesChanges, Mapping DEF auto
  <2>3. Promise!KillLocal
    BY <1>5, <2>1, <2>2 DEF Promise!KillLocal
  <2> QED
    BY <2>3 DEF Promise!Next
<1>18. CASE UNCHANGED vars
  BY <1>18 DEF vars, local, default, auto, bound
<1> QED
  BY <1>6, <1>7, <1>8, <1>9, <1>10, <1>11, <1>12, <1>13, <1>14, <1>15, <1>16, <1>17, <1>18 DEF Next

(* The value cells with their cache implement LocalValues: every buffer    *)
(* has the value the documentation of buffer-local variables says, for any *)
(* buffers and values.                                                     *)
THEOREM CacheDoesNotShow == Spec => ImplementsLocals
<1>1. Basic /\ [Next]_vars => Basic'
  BY BasicStep
<1> QED
  BY BasicInit, InitMapped, NextMapped, <1>1, PTL DEF Spec, ImplementsLocals, Promise!Spec
-----------------------------------------------------------------------------
(* What a buffer sees after a step.                                        *)
LEMMA SeenNext ==
  ASSUME NEW o, NEW r, NEW w, NEW type, Changes(o, r, w, type), NEW b \in Buffer
  PROVE  SeenIn(State)'[b] = IF b \in w THEN o[b] ELSE r
<1>1. PICK s : s = State'
  OBVIOUS
<1>2. Good(s) /\ Own(s) = o /\ Rest(s) = r /\ s.own = w
  BY <1>1 DEF Changes, Good, CacheFits, ElementFor, Own, Rest, State
<1>3. SeenIn(s)[b] = IF b \in s.own THEN Own(s)[b] ELSE Rest(s)
  BY <1>2, SeenIsOwnOrRest
<1>4. SeenIn(State)' = SeenIn(s)
  BY <1>1 DEF SeenIn, ElementFor
<1> QED
  BY <1>2, <1>3, <1>4

(* What a buffer sees.                                                     *)
LEMMA SeenNow ==
  ASSUME Fine, NEW b \in Buffer
  PROVE  SeenIn(State)[b] = IF b \in own THEN Own(State)[b] ELSE Rest(State)
BY FineParts, SeenIsOwnOrRest

(* If no values change, all buffers see what they saw.                     *)
LEMMA SeenKept ==
  ASSUME Fine, Changes(Own(State), Rest(State), own, cell.type)
  PROVE  SeenIn(State)' = SeenIn(State)
<1>1. \A b \in Buffer : SeenIn(State)'[b] = SeenIn(State)[b]
  BY SeenNow, SeenNext
<1> QED
  BY <1>1 DEF SeenIn

(* A switch of buffers loads the cell when it has to.                      *)
LEMMA CSeesSwitchStep ==
  Basic /\ [Next]_vars =>
    [\A b \in Buffer :
       SetBuffer(b) /\ forwarded /\ ~Adrift(b) => cell'.real = SeenIn(State)'[b]]_vars
<1> SUFFICES ASSUME Basic, NEW b \in Buffer, SetBuffer(b), forwarded, ~Adrift(b)
             PROVE  cell'.real = SeenIn(State)'[b]
  OBVIOUS
<1>1. /\ Changes(Own(State), Rest(State), own, cell.type)
      /\ cell'.real = SeenIn(State)[b]
  BY SetBufferChanges DEF Basic
<1> QED
  BY <1>1, SeenKept DEF Basic

(* After every switch of buffers a variable of C holds the value of the    *)
(* buffer switched to: set_buffer_internal's test is enough, except when   *)
(* kill-local-variable left a cell that names no buffer and the variable   *)
(* is local in neither of the two buffers (Adrift); then the old value     *)
(* stays.                                                                  *)
THEOREM CSeesItsBuffer == Spec => CSeesSwitch
<1>1. Basic /\ [Next]_vars => Basic'
  BY BasicStep
<1> QED
  BY BasicInit, CSeesSwitchStep, <1>1, PTL DEF Spec, CSeesSwitch
-----------------------------------------------------------------------------
(* What all buffers saw when the next binding was made, or see now.        *)
Now(i) == IF i = Len(specpdl) THEN SeenIn(State) ELSE specpdl[i + 1].before

(* Why undoing a binding in its buffer gives all buffers back what they    *)
(* saw: nothing but the binding has changed values since.                  *)
Undoes(i) ==
  LET e == specpdl[i]
  IN  e.before # <<>> =>
        /\ i < Len(specpdl) => specpdl[i + 1].before # <<>>
        /\ e.old = e.before[e.buffer]
        /\ cell.type = "auto" => e.buffer \in own
        /\ e.buffer \in own => \A c \in Buffer \ {e.buffer} : Now(i)[c] = e.before[c]
        /\ e.buffer \notin own =>
             \A c \in Buffer : IF c \in own THEN Now(i)[c] = e.before[c] ELSE e.before[c] = e.old

Stack == \A i \in DOMAIN specpdl : Undoes(i)

(* Steps that change no values.                                            *)
LEMMA QuietStack ==
  ASSUME Basic, Stack, Changes(Own(State), Rest(State), own, cell.type), UNCHANGED specpdl
  PROVE  Stack'
<1>1. SeenIn(State)' = SeenIn(State) /\ own' = own /\ cell'.type = cell.type
  BY SeenKept DEF Basic, Changes
<1>2. ASSUME NEW i \in DOMAIN specpdl
      PROVE  Undoes(i)'
  <2>1. Undoes(i)
    BY DEF Stack
  <2>2. Now(i)' = Now(i)
    BY <1>1 DEF Now
  <2> QED
    BY <1>1, <2>1, <2>2 DEF Undoes
<1> QED
  BY <1>2 DEF Stack

(* Nothing is promised of void bindings.                                   *)
LEMMA VoidStack ==
  ASSUME \A i \in DOMAIN specpdl' : specpdl'[i].before = <<>>
  PROVE  Stack'
BY DEF Stack, Undoes

(* What an assignment lets the buffers see.                                *)
LEMMA AssignsSeen ==
  ASSUME Fine, NEW x, Assigns(x)
  PROVE  /\ own' = IF cell.type = "auto" THEN own \union {current} ELSE own
         /\ cell'.type = cell.type
         /\ \A c \in own \ {current} : SeenIn(State)'[c] = SeenIn(State)[c]
         /\ current \in own' => \A c \in Buffer \ {current} : SeenIn(State)'[c] = SeenIn(State)[c]
         /\ current \in own' => SeenIn(State)'[current] = x
         /\ current \notin own' => \A c \in Buffer \ own : SeenIn(State)'[c] = x
<1>1. own \subseteq Buffer /\ current \in Buffer /\ Own(State) = [b \in Buffer |-> Own(State)[b]]
  BY FineParts, Parts DEF Fine, Own
<1>2. PICK f : f = Own(State)
  OBVIOUS
<1>3. CASE cell.type = "auto" \/ current \in own
  <2>1. PICK w : w = IF cell.type = "auto" THEN own \union {current} ELSE own
    OBVIOUS
  <2>2. Changes([f EXCEPT ![current] = x], Rest(State), w, cell.type)
    BY <1>2, <1>3, <2>1 DEF Assigns
  <2>3. own' = w /\ cell'.type = cell.type /\ current \in own'
    BY <1>3, <2>1, <2>2 DEF Changes
  <2>4. PICK g : g = [f EXCEPT ![current] = x]
    OBVIOUS
  <2>5. g[current] = x /\ \A c \in Buffer \ {current} : g[c] = f[c]
    BY <1>1, <1>2, <2>4
  <2>6. ASSUME NEW c \in Buffer
        PROVE  SeenIn(State)'[c] = IF c \in w THEN g[c] ELSE Rest(State)
    BY <2>2, <2>4, SeenNext
  <2>7. ASSUME NEW c \in Buffer
        PROVE  SeenIn(State)[c] = IF c \in own THEN f[c] ELSE Rest(State)
    BY <1>2, SeenNow
  <2>8. \A c \in Buffer \ {current} : SeenIn(State)'[c] = SeenIn(State)[c]
    BY <2>1, <2>5, <2>6, <2>7
  <2>9. SeenIn(State)'[current] = x
    BY <1>1, <2>3, <2>5, <2>6
  <2> QED
    BY <1>1, <2>1, <2>3, <2>8, <2>9
<1>4. CASE ~(cell.type = "auto" \/ current \in own)
  <2>1. Changes(f, x, own, cell.type)
    BY <1>2, <1>4 DEF Assigns
  <2>2. own' = own /\ cell'.type = cell.type
    BY <2>1 DEF Changes
  <2>3. ASSUME NEW c \in Buffer
        PROVE  SeenIn(State)'[c] = IF c \in own THEN f[c] ELSE x
    BY <2>1, SeenNext
  <2>4. ASSUME NEW c \in Buffer
        PROVE  SeenIn(State)[c] = IF c \in own THEN f[c] ELSE Rest(State)
    BY <1>2, SeenNow
  <2> QED
    BY <1>1, <1>4, <2>2, <2>3, <2>4
<1> QED
  BY <1>3, <1>4

(* A binding can be undone, and those below it once it is.                 *)
LEMMA BindStack ==
  ASSUME Basic, Stack, NEW x \in Value, Bind(x)
  PROVE  Stack'
<1>1. PICK e : e = [old |-> SeenIn(State)[current], buffer |-> current, before |-> SeenIn(State)]
  OBVIOUS
<1>2. specpdl' = Append(specpdl, e) /\ Assigns(x) /\ Fine
  BY <1>1, BindChanges DEF Basic
<1>3. PICK n \in Nat : n = Len(specpdl)
  BY DEF Basic, Bindings
<1>4. /\ Len(specpdl') = n + 1 /\ DOMAIN specpdl' = 1 .. n + 1 /\ DOMAIN specpdl = 1 .. n
      /\ specpdl'[n + 1] = e /\ \A i \in 1 .. n : specpdl'[i] = specpdl[i]
  BY <1>2, <1>3 DEF Basic, Bindings
<1>5. /\ own' = IF cell.type = "auto" THEN own \union {current} ELSE own
      /\ cell'.type = cell.type
      /\ \A c \in own \ {current} : SeenIn(State)'[c] = SeenIn(State)[c]
      /\ current \in own' => \A c \in Buffer \ {current} : SeenIn(State)'[c] = SeenIn(State)[c]
  BY <1>2, AssignsSeen
<1>6. Undoes(n + 1)'
  <2>1. Now(n + 1)' = SeenIn(State)'
    BY <1>4 DEF Now
  <2>2. ASSUME NEW c \in Buffer, c \notin own, current \notin own
        PROVE  SeenIn(State)[c] = SeenIn(State)[current]
    BY <1>2, <2>2, SeenNow DEF Fine
  <2>3. \A c \in own : c # current => SeenIn(State)'[c] = SeenIn(State)[c]
    BY <1>5
  <2>4. e.before = SeenIn(State) /\ e.buffer = current /\ e.old = SeenIn(State)[current]
    BY <1>1
  <2> QED
    BY <1>3, <1>4, <1>5, <2>1, <2>2, <2>3, <2>4 DEF Undoes
<1>7. ASSUME NEW i \in 1 .. n
      PROVE  Undoes(i)'
  <2>1. Undoes(i) /\ specpdl'[i] = specpdl[i]
    BY <1>4 DEF Stack
  <2>2. Now(i)' = Now(i)
    <3>1. CASE i = n
      BY <1>1, <1>3, <1>4, <3>1 DEF Now
    <3>2. CASE i # n
      BY <1>3, <1>4, <3>2 DEF Now
    <3> QED
      BY <3>1, <3>2
  <2>3. i < n + 1 /\ (i < n => specpdl'[i + 1] = specpdl[i + 1]) /\ (~(i < n) => i = n)
    BY <1>4
  <2>4. SeenIn(State) # <<>>
    <3>1. current \in DOMAIN SeenIn(State)
      BY DEF SeenIn, Basic, Fine
    <3> QED
      BY <3>1
  <2>5. specpdl[i].before # <<>> => specpdl'[i + 1].before # <<>>
    BY <1>1, <1>3, <1>4, <2>1, <2>3, <2>4 DEF Undoes
  <2>6. specpdl[i].before # <<>> => (specpdl[i].buffer \in own' <=> specpdl[i].buffer \in own)
    BY <1>5, <2>1 DEF Undoes
  <2>7. specpdl[i].before # <<>> /\ specpdl[i].buffer \notin own => own' = own
    BY <1>5, <2>1 DEF Undoes
  <2> QED
    BY <1>4, <1>5, <2>1, <2>2, <2>5, <2>6, <2>7 DEF Undoes
<1> QED
  BY <1>4, <1>6, <1>7 DEF Stack

(* Undone in its buffer, a binding leaves what all buffers saw.            *)
LEMMA UnbindRestores ==
  ASSUME Basic, Stack, Unbind,
         NEW e, e = specpdl[Len(specpdl)], e.buffer = current, e.before # <<>>
  PROVE  SeenIn(State)' = e.before /\ own' = own /\ cell'.type = cell.type
<1>1. e \in Binding /\ specpdl # <<>> /\ Len(specpdl) \in DOMAIN specpdl
  BY UnbindKeepsBindings, EmptySeq DEF Basic, Bindings, Unbind
<1>2. Undoes(Len(specpdl)) /\ Now(Len(specpdl)) = SeenIn(State)
  BY <1>1 DEF Stack, Now
<1>3. Assigns(e.old) /\ Fine
  BY <1>1, UnbindChanges DEF Basic, Binding
<1>4. own' = own
  BY <1>2, <1>3, AssignsSeen DEF Undoes
<1>5. e.before = [c \in Buffer |-> e.before[c]]
  BY <1>1 DEF Binding
<1>6. SeenIn(State)' = [c \in Buffer |-> SeenIn(State)'[c]]
  BY DEF SeenIn
<1>7. ASSUME NEW c \in Buffer
      PROVE  SeenIn(State)'[c] = e.before[c]
  <2>1. CASE current \in own
    BY <1>2, <1>3, <1>4, <2>1, AssignsSeen DEF Undoes
  <2>2. CASE current \notin own
    BY <1>2, <1>3, <1>4, <2>2, AssignsSeen DEF Undoes
  <2> QED
    BY <2>1, <2>2
<1> QED
  BY <1>3, <1>4, <1>5, <1>6, <1>7, AssignsSeen

(* The bindings below can then be undone.                                  *)
LEMMA UnbindStack ==
  ASSUME Basic, Stack, Unbind
  PROVE  Stack'
<1>1. PICK e : e = specpdl[Len(specpdl)]
  OBVIOUS
<1>2. PICK rest : rest = SubSeq(specpdl, 1, Len(specpdl) - 1)
  OBVIOUS
<1>3. PICK n \in Nat : n + 1 = Len(specpdl)
  BY EmptySeq DEF Basic, Bindings, Unbind
<1>4. specpdl \in Seq(Binding) /\ DOMAIN specpdl = 1 .. n + 1
  BY <1>3 DEF Basic, Bindings
<1>5. rest \in Seq(Binding) /\ Len(rest) = n /\ \A i \in 1 .. n : rest[i] = specpdl[i]
  BY <1>2, <1>3, OldsOfFront DEF Basic, Bindings, Unbind
<1>6. CASE e.buffer = current /\ e.before # <<>>
  <2>1. specpdl' = rest
    BY <1>1, <1>2, <1>6 DEF Unbind
  <2>2. SeenIn(State)' = e.before /\ own' = own /\ cell'.type = cell.type
    BY <1>1, <1>6, UnbindRestores
  <2>3. ASSUME NEW i \in 1 .. n
        PROVE  Undoes(i)'
    <3>1. Undoes(i) /\ specpdl'[i] = specpdl[i]
      BY <1>4, <1>5, <2>1 DEF Stack
    <3>2. Now(i)' = Now(i)
      <4>1. CASE i = n
        BY <1>1, <1>3, <1>5, <2>1, <2>2, <4>1 DEF Now
      <4>2. CASE i # n
        BY <1>3, <1>5, <2>1, <4>2 DEF Now
      <4> QED
        BY <4>1, <4>2
    <3>3. i < Len(specpdl) /\ (i < Len(specpdl') => specpdl'[i + 1] = specpdl[i + 1])
      BY <1>3, <1>5, <2>1
    <3> QED
      BY <2>2, <3>1, <3>2, <3>3 DEF Undoes
  <2>4. DOMAIN specpdl' = 1 .. n
    BY <1>5, <2>1
  <2> QED
    BY <2>3, <2>4 DEF Stack
<1>7. CASE ~(e.buffer = current /\ e.before # <<>>)
  <2>1. specpdl' = Voided(rest)
    BY <1>1, <1>2, <1>7 DEF Unbind, Voided
  <2>2. \A i \in DOMAIN specpdl' : specpdl'[i].before = <<>>
    BY <1>5, <2>1, VoidedIs
  <2> QED
    BY <2>2, VoidStack
<1> QED
  BY <1>6, <1>7

(* No bindings.                                                            *)
LEMMA StackInit == Init => Stack
BY DEF Init, Stack

(* Every operation keeps Stack.                                            *)
LEMMA StackStep == Basic /\ Stack /\ [Next]_vars => Stack'
<1> SUFFICES ASSUME Basic, Stack, [Next]_vars
             PROVE  Stack'
  OBVIOUS
<1>1. Fine /\ Bindings
  BY DEF Basic
<1>2. Assigned => Stack'
  BY <1>1, AssignedKeepsBindings, VoidStack
<1>3. CASE SymbolValue
  BY <1>1, <1>3, SymbolValueChanges, QuietStack DEF SymbolValue
<1>4. CASE DefaultValue \/ UNCHANGED vars
  <2>1. UNCHANGED <<cell, own, elem, specpdl>>
    BY <1>4 DEF DefaultValue, vars
  <2> QED
    BY <2>1 DEF Stack, Undoes, Now, State
<1>5. ASSUME NEW b \in Buffer, BufferLocalVariables(b) \/ SetBuffer(b)
      PROVE  Stack'
  BY <1>1, <1>5, BufferLocalVariablesChanges, SetBufferChanges, QuietStack
     DEF BufferLocalVariables, SetBuffer
<1>6. ASSUME NEW x \in Value, Set(x) \/ SetDefault(x) \/ Bind(x)
      PROVE  Stack'
  BY <1>2, <1>6, BindStack DEF Set, SetDefault
<1>7. CASE \/ MakeVariableBufferLocal \/ MakeLocalVariable
           \/ KillLocalVariable \/ KillAllLocalVariables
  BY <1>2, <1>7
     DEF MakeVariableBufferLocal, MakeLocalVariable, KillLocalVariable, KillAllLocalVariables
<1> QED
  BY <1>3, <1>4, <1>5, <1>6, <1>7, UnbindStack DEF Next

(* A step of unbind_to.                                                    *)
LEMMA LetRestoresStep ==
  Basic /\ Stack /\ [Next]_vars =>
    [LET last == specpdl[Len(specpdl)]
     IN  Unbind /\ last.buffer = current /\ last.before # <<>>
           => SeenIn(State)' = last.before]_vars
BY UnbindRestores

(* A let undone in the buffer it was made in, with nothing assigned in     *)
(* between but by lets undone before, leaves every buffer with the value   *)
(* it saw before.                                                          *)
THEOREM LetPutsBack == Spec => LetRestores
<1>1. Basic /\ [Next]_vars => Basic'
  BY BasicStep
<1>2. Basic /\ Stack /\ [Next]_vars => Stack'
  BY StackStep
<1> QED
  BY BasicInit, StackInit, LetRestoresStep, <1>1, <1>2, PTL DEF Spec, LetRestores
=============================================================================
