------------------------ MODULE ProcessStatusProofs ------------------------
(***************************************************************************)
(* Proofs about ProcessStatus, for any processes, connections and filters, *)
(* any depth of the stack and any number of operations and reads.          *)
(*                                                                         *)
(* The argument: the frames below the running one are where C calls Lisp   *)
(* or the walk (Stacked): only a process with a filter is drained there,   *)
(* and a status is converted there by nobody.  So a process whose status   *)
(* is stored is marked, or its frame runs, or a throw has left that frame  *)
(* (Marked); what Drain has found empty stays so until Report closes the   *)
(* channel, unless the handler marks the process again (Drained), for a    *)
(* process whose end Emacs knows of sends no more (Dead).                  *)
(***************************************************************************)
EXTENDS ProcessStatus, SequenceTheorems, TLAPS

(* How many frames more the function of a frame may put on the stack.      *)
Need(f) ==
  IF f.at \in WaitPlaces THEN (IF f.kbd = TRUE THEN 2 ELSE 1)
  ELSE IF f.at \in {"walk", "drain", "tell", "report", "restore"} THEN 1 ELSE 0

(* wait_reading_process_input looks at a status of the process it waits    *)
(* for.                                                                    *)
Names(f, place) == place = "status" => f.p \in Proc

(* What a frame is like: there is room above it, a wait for a key is the   *)
(* one of the top level, the bottom is Lisp or that wait, and every other  *)
(* place is about a process.                                               *)
Fits(f, depth) ==
  /\ f \in Frame /\ depth + Need(f) <= MaxDepth
  /\ f.at \in WaitPlaces /\ f.kbd = TRUE => f.now = FALSE /\ f.p = None
  /\ depth = 1 => f.at = "lisp" \/ (f.at \in WaitPlaces /\ f.kbd = TRUE)
  /\ f.at \notin WaitPlaces \union {"lisp", "walk"} => f.p \in Proc
  /\ Names(f, f.at)

(* The frames below the running one.                                       *)
Beneath(f) == f.at \notin {"clear", "tell", "report"} /\ (f.at = "drain" => f.p \in Filtered)

Stacked ==
  /\ stack \in Seq(Frame) /\ Len(stack) >= 1
  /\ \A i \in 1 .. Len(stack) : Fits(stack[i], Len(stack) - i + 1)
  /\ \A i \in 2 .. Len(stack) :
       Beneath(stack[i]) \/ (i = 2 /\ stack[2].at = "report" /\ Is("clear"))

Moved(f, place, set, now) == [f EXCEPT !.at = place, !.set = set, !.now = now]
(* The frames that a step makes of the running one, and the stack of a     *)
(* call.                                                                   *)
Going(f, place) == [f EXCEPT !.at = place]
Calls(f, g) == stack' = <<f, g>> \o Tail(stack)
Under(f, g) == Beneath(g) \/ (g.at = "report" /\ f.at = "clear")
Placed(f, place, set) == [f EXCEPT !.at = place, !.set = set]
NowFits(f, now) == f.kbd = TRUE => now = FALSE

(* The frames that are about to convert or tell a status of p.             *)
Holds(f, p) == f.at \in {"drain", "tell", "clear"} /\ f.p = p
Held(p) == \E i \in 1 .. Len(stack) : Holds(stack[i], p)
Used == {stack[i] : i \in 1 .. Len(stack)}
HeldBelow(p) == \E i \in 2 .. Len(stack) : Holds(stack[i], p)
-----------------------------------------------------------------------------
LEMMA FrameParts ==
  ASSUME NEW f \in Frame
  PROVE  /\ f.at \in Places \union WaitPlaces /\ f.p \in Proc \union {None}
         /\ f.at \in WaitPlaces => f.kbd \in BOOLEAN /\ f.now \in BOOLEAN /\ f.set \subseteq Proc
BY DEF Frame, Places, WaitPlaces

LEMMA PlainFrame ==
  ASSUME NEW place \in Places, NEW p \in Proc \union {None}
  PROVE  /\ At(place, p) \in Frame /\ At(place, p).at = place /\ At(place, p).p = p
         /\ At(place, p).at \notin WaitPlaces
BY DEF Frame, At, Places, WaitPlaces

LEMMA PlacedPlain ==
  ASSUME NEW f \in Frame, f.at \in Places, NEW place \in Places,
         NEW g, g = [f EXCEPT !.at = place]
  PROVE  g \in Frame /\ g.at = place /\ g.p = f.p /\ g.at \notin WaitPlaces
BY DEF Frame, Places, WaitPlaces

LEMMA PlacedWaitSame ==
  ASSUME NEW f \in Frame, f.at \in WaitPlaces, NEW place \in WaitPlaces
  PROVE  /\ [f EXCEPT !.at = place] = [f EXCEPT !.at = place, !.set = f.set, !.now = f.now]
         /\ \A set : [f EXCEPT !.at = place, !.set = set]
                       = [f EXCEPT !.at = place, !.set = set, !.now = f.now]
BY DEF Frame, Places, WaitPlaces
-----------------------------------------------------------------------------
LEMMA TopFits ==
  ASSUME Stacked
  PROVE  /\ Fits(Top, Len(stack)) /\ Top \in Frame /\ Len(stack) \in Nat \ {0}
         /\ \A p : Held(p) <=> HeldBelow(p) \/ Holds(Top, p)
         /\ \A p : HeldBelow(p) => p \in Frames({"drain"})
<1>1. 1 \in 1 .. Len(stack) /\ Len(stack) \in Nat \ {0}
  BY DEF Stacked
<1>2. Fits(Top, Len(stack))
  BY <1>1 DEF Stacked, Top
<1>3. \A p : Held(p) <=> HeldBelow(p) \/ Holds(Top, p)
  BY <1>1 DEF Held, HeldBelow, Top
<1>4. \A p : HeldBelow(p) => p \in Frames({"drain"})
  BY DEF HeldBelow, Holds, Stacked, Beneath, Frames
<1> QED
  BY <1>1, <1>2, <1>3, <1>4 DEF Fits

(* There is a frame below.                                                 *)
MayPop ==
  \/ Top.at # "lisp" /\ (Top.at \in WaitPlaces => Top.kbd = FALSE)
  \/ Len(stack) > 1

(* What each way to change the stack does to the frames.                   *)
LEMMA PopKeeps ==
  ASSUME Stacked, Pop, MayPop
  PROVE  /\ Stacked' /\ \A p : HeldBelow(p) => Held(p)'
         /\ Len(stack) > 1 /\ Len(stack)' = Len(stack) - 1 /\ Top' = stack[2]
         /\ \A i \in 1 .. Len(stack)' : stack'[i] = stack[i + 1]
         /\ ~Is("clear") => Beneath(Top')
         /\ Used' \subseteq Used
<1>1. PICK n \in Nat : n + 1 = Len(stack) /\ stack \in Seq(Frame)
  BY DEF Stacked
<1>2. n >= 1
  <2>1. Fits(Top, Len(stack))
    BY TopFits
  <2>2. Len(stack) = 1 => Top.at = "lisp" \/ (Top.at \in WaitPlaces /\ Top.kbd = TRUE)
    BY <2>1 DEF Fits
  <2>3. Len(stack) # 1
    BY <2>2 DEF MayPop
  <2> QED
    BY <1>1, <2>3
<1>3. stack' \in Seq(Frame) /\ Len(stack') = n /\ \A i \in 1 .. n : stack'[i] = stack[i + 1]
  BY <1>1, <1>2 DEF Pop
<1>4. \A i \in 1 .. n : Fits(stack'[i], n - i + 1)
  <2>1. ASSUME NEW i \in 1 .. n
        PROVE  Fits(stack[i + 1], n - i + 1)
    <3>1. i + 1 \in 1 .. Len(stack) /\ Len(stack) - (i + 1) + 1 = n - i + 1
      BY <1>1
    <3> QED
      BY <3>1 DEF Stacked
  <2> QED
    BY <1>3, <2>1
<1>5. \A i \in 2 .. n : Beneath(stack'[i])
  <2>1. ASSUME NEW i \in 2 .. n
        PROVE  Beneath(stack[i + 1])
    <3>1. i + 1 \in 2 .. Len(stack) /\ i + 1 # 2
      BY <1>1
    <3> QED
      BY <3>1 DEF Stacked
  <2> QED
    BY <1>3, <2>1
<1>6. ASSUME NEW p, HeldBelow(p)
      PROVE  Held(p)'
  <2>1. PICK i \in 2 .. n + 1 : Holds(stack[i], p)
    BY <1>1, <1>6 DEF HeldBelow
  <2>2. PICK j \in 1 .. n : j + 1 = i
    BY <1>2, <2>1
  <2> QED
    BY <1>3, <2>1, <2>2 DEF Held
<1>7. Top' = stack[2] /\ (~Is("clear") => Beneath(stack[2]))
  BY <1>1, <1>2, <1>3 DEF Top, Stacked
<1>8. Used' \subseteq Used
  <2>1. \A i \in 1 .. n : i + 1 \in 1 .. Len(stack)
    BY <1>1
  <2> QED
    BY <1>3, <2>1 DEF Used
<1>9. Stacked'
  BY <1>1, <1>2, <1>3, <1>4, <1>5 DEF Stacked
<1> QED
  BY <1>1, <1>2, <1>3, <1>6, <1>7, <1>8, <1>9

LEMMA GoToKeeps ==
  ASSUME Stacked, NEW f, Fits(f, Len(stack)), GoTo(f), ~Is("clear")
  PROVE  /\ Stacked' /\ Top' = f /\ Len(stack)' = Len(stack)
         /\ \A p : HeldBelow(p) \/ Holds(f, p) => Held(p)'
         /\ \A i \in 2 .. Len(stack) : stack'[i] = stack[i]
         /\ Used' \subseteq Used \union {f}
<1>1. PICK n \in Nat : n = Len(stack) /\ n >= 1
  BY TopFits
<1>2. stack \in Seq(Frame) /\ f \in Frame
  BY DEF Stacked, Fits
<1>3. /\ stack' \in Seq(Frame) /\ Len(stack') = n /\ stack'[1] = f
      /\ \A i \in 2 .. n : stack'[i] = stack[i]
  BY <1>1, <1>2 DEF GoTo
<1>4. Top' = f
  BY <1>3 DEF Top
<1>5. \A i \in 1 .. n : Fits(stack'[i], n - i + 1)
  <2>1. \A i \in 1 .. n : i = 1 \/ i \in 2 .. n
    BY <1>1
  <2>2. n - 1 + 1 = n
    BY <1>1
  <2>3. \A i \in 1 .. n : Fits(stack[i], n - i + 1)
    BY <1>1 DEF Stacked
  <2> QED
    BY <1>1, <1>3, <2>1, <2>2, <2>3
<1>6. \A i \in 2 .. n : Beneath(stack'[i])
  BY <1>1, <1>3 DEF Stacked
<1>7. \A p : HeldBelow(p) \/ Holds(f, p) => Held(p)'
  BY <1>1, <1>3 DEF HeldBelow, Held
<1>8. Used' \subseteq Used \union {f}
  <2>1. \A i \in 1 .. n : i = 1 \/ i \in 2 .. n
    BY <1>1
  <2> QED
    BY <1>1, <1>3, <2>1 DEF Used
<1> QED
  BY <1>1, <1>3, <1>4, <1>5, <1>6, <1>7, <1>8 DEF Stacked

LEMMA PushKeeps ==
  ASSUME Stacked, NEW f, Fits(f, Len(stack) + 1), Push(f), Beneath(Top)
  PROVE  /\ Stacked' /\ Top' = f /\ Len(stack)' = Len(stack) + 1
         /\ \A p : Held(p) \/ Holds(f, p) => Held(p)'
         /\ \A i \in 1 .. Len(stack) : stack'[i + 1] = stack[i]
         /\ Used' \subseteq Used \union {f}
<1>1. PICK n \in Nat : n = Len(stack) /\ n >= 1 /\ stack \in Seq(Frame) /\ f \in Frame
  BY DEF Stacked, Fits
<1>2. /\ stack' \in Seq(Frame) /\ Len(stack') = n + 1 /\ stack'[1] = f
      /\ \A i \in 1 .. n : stack'[i + 1] = stack[i]
      /\ \A i \in 2 .. n + 1 : stack'[i] = stack[i - 1]
  BY <1>1 DEF Push
<1>3. Top' = f
  BY <1>2 DEF Top
<1>4. ASSUME NEW i \in 1 .. n + 1
      PROVE  Fits(stack'[i], n + 1 - i + 1)
  <2>1. CASE i = 1
    BY <1>1, <1>2, <2>1
  <2>2. CASE i # 1
    <3>1. i - 1 \in 1 .. Len(stack) /\ Len(stack) - (i - 1) + 1 = n + 1 - i + 1
      BY <1>1, <2>2
    <3>2. Fits(stack[i - 1], Len(stack) - (i - 1) + 1)
      BY <3>1 DEF Stacked
    <3> QED
      BY <1>2, <2>2, <3>1, <3>2
  <2> QED
    BY <2>1, <2>2
<1>5. ASSUME NEW i \in 2 .. n + 1
      PROVE  Beneath(stack'[i])
  <2>1. CASE i = 2
    BY <1>1, <1>2, <2>1 DEF Top
  <2>2. CASE i # 2
    <3>1. i - 1 \in 2 .. Len(stack)
      BY <1>1, <2>2
    <3>2. Beneath(stack[i - 1])
      BY <3>1 DEF Stacked, Beneath, Is
    <3> QED
      BY <1>2, <3>2
  <2> QED
    BY <2>1, <2>2
<1>6. \A p : Held(p) \/ Holds(f, p) => Held(p)'
  BY <1>1, <1>2 DEF Held
<1>7. Used' \subseteq Used \union {f}
  <2>1. \A i \in 1 .. n + 1 : i = 1 \/ (i \in 2 .. n + 1 /\ i - 1 \in 1 .. n)
    BY <1>1
  <2> QED
    BY <1>1, <1>2, <2>1 DEF Used
<1> QED
  BY <1>1, <1>2, <1>3, <1>4, <1>5, <1>6, <1>7 DEF Stacked

LEMMA CallKeeps ==
  ASSUME Stacked, NEW f, NEW g, Calls(f, g), Fits(g, Len(stack)), Fits(f, Len(stack) + 1),
         Under(f, g), ~Is("clear")
  PROVE  /\ Stacked' /\ Top' = f /\ Len(stack)' = Len(stack) + 1 /\ stack'[2] = g
         /\ \A p : HeldBelow(p) \/ Holds(g, p) \/ Holds(f, p) => Held(p)'
         /\ Used' \subseteq Used \union {f, g}
<1>1. PICK n \in Nat : n = Len(stack) /\ n >= 1
  BY TopFits
<1>2. stack \in Seq(Frame) /\ f \in Frame /\ g \in Frame
  BY DEF Stacked, Fits
<1>3. stack' = <<f, g>> \o Tail(stack)
  BY DEF Calls
<1>4. /\ stack' \in Seq(Frame) /\ Len(stack') = n + 1 /\ stack'[1] = f /\ stack'[2] = g
      /\ \A i \in 3 .. n + 1 : stack'[i] = stack[i - 1]
      /\ \A i \in 2 .. n : stack'[i + 1] = stack[i]
  <2>1. PICK t : t = Tail(stack)
    OBVIOUS
  <2>2. t \in Seq(Frame) /\ Len(t) = n - 1 /\ \A i \in 1 .. n - 1 : t[i] = stack[i + 1]
    BY <1>1, <1>2, <2>1
  <2>3. stack' = <<f, g>> \o t
    BY <1>3, <2>1
  <2>4. /\ stack' \in Seq(Frame) /\ Len(stack') = n + 1 /\ stack'[1] = f /\ stack'[2] = g
        /\ \A i \in 3 .. n + 1 : stack'[i] = t[i - 2]
    BY <1>1, <1>2, <2>2, <2>3
  <2>5. ASSUME NEW i \in 3 .. n + 1
        PROVE  stack'[i] = stack[i - 1]
    <3>1. i - 2 \in 1 .. n - 1 /\ (i - 2) + 1 = i - 1
      BY <1>1
    <3> QED
      BY <2>2, <2>4, <3>1
  <2>6. ASSUME NEW i \in 2 .. n
        PROVE  stack'[i + 1] = stack[i]
    <3>1. i + 1 \in 3 .. n + 1 /\ (i + 1) - 1 = i
      BY <1>1
    <3> QED
      BY <2>5, <3>1
  <2> QED
    BY <2>4, <2>5, <2>6
<1>5. Top' = f /\ (Is("clear")' <=> f.at = "clear")
  BY <1>4 DEF Top, Is
<1>6. ASSUME NEW i \in 1 .. n + 1
      PROVE  Fits(stack'[i], n + 1 - i + 1)
  <2>1. CASE i = 1
    BY <1>1, <1>4, <2>1
  <2>2. CASE i = 2
    <3>1. n + 1 - i + 1 = n
      BY <1>1, <2>2
    <3> QED
      BY <1>1, <1>4, <2>2, <3>1
  <2>3. CASE i > 2
    <3>1. i - 1 \in 1 .. Len(stack) /\ Len(stack) - (i - 1) + 1 = n + 1 - i + 1 /\ i \in 3 .. n + 1
      BY <1>1, <2>3
    <3>2. Fits(stack[i - 1], Len(stack) - (i - 1) + 1)
      BY <3>1 DEF Stacked
    <3> QED
      BY <1>4, <3>1, <3>2
  <2> QED
    BY <2>1, <2>2, <2>3
<1>7. ASSUME NEW i \in 3 .. n + 1
      PROVE  Beneath(stack'[i])
  <2>1. i - 1 \in 2 .. Len(stack)
    BY <1>1
  <2>2. Beneath(stack[i - 1])
    BY <2>1 DEF Stacked
  <2> QED
    BY <1>4, <2>2
<1>8. \A i \in 2 .. n + 1 : Beneath(stack'[i]) \/ (i = 2 /\ stack'[2].at = "report" /\ Is("clear")')
  BY <1>4, <1>5, <1>7 DEF Under
<1>9. ASSUME NEW p, HeldBelow(p) \/ Holds(g, p) \/ Holds(f, p)
      PROVE  Held(p)'
  <2>1. CASE HeldBelow(p)
    <3>1. PICK i \in 2 .. n : Holds(stack[i], p)
      BY <1>1, <2>1 DEF HeldBelow
    <3>2. i + 1 \in 1 .. Len(stack') /\ stack'[i + 1] = stack[i]
      BY <1>4
    <3> QED
      BY <3>1, <3>2 DEF Held
  <2>2. CASE Holds(g, p) \/ Holds(f, p)
    <3>1. 1 \in 1 .. Len(stack') /\ 2 \in 1 .. Len(stack')
      BY <1>1, <1>4
    <3> QED
      BY <1>4, <2>2, <3>1 DEF Held
  <2> QED
    BY <1>9, <2>1, <2>2
<1>10. Stacked'
  BY <1>1, <1>4, <1>6, <1>8 DEF Stacked
<1>11. Used' \subseteq Used \union {f, g}
  <2>1. \A i \in 1 .. n + 1 : i = 1 \/ i = 2 \/ (i \in 3 .. n + 1 /\ i - 1 \in 1 .. n)
    BY <1>1
  <2> QED
    BY <1>1, <1>4, <2>1 DEF Used
<1> QED
  BY <1>1, <1>4, <1>5, <1>9, <1>10, <1>11

LEMMA PushTwoKeeps ==
  ASSUME Stacked, NEW f, NEW g, Fits(f, Len(stack) + 2), Fits(g, Len(stack) + 1),
         stack' = <<f, g>> \o stack, Beneath(Top), Beneath(g)
  PROVE  /\ Stacked' /\ Top' = f /\ Len(stack)' = Len(stack) + 2 /\ stack'[2] = g
         /\ \A p : Held(p) => Held(p)'
         /\ Used' \subseteq Used \union {f, g}
<1>1. PICK n \in Nat : n = Len(stack) /\ n >= 1
  BY TopFits
<1>2. stack \in Seq(Frame) /\ f \in Frame /\ g \in Frame
  BY DEF Stacked, Fits
<1>3. /\ stack' \in Seq(Frame) /\ Len(stack') = n + 2 /\ stack'[1] = f /\ stack'[2] = g
      /\ \A i \in 3 .. n + 2 : stack'[i] = stack[i - 2]
      /\ \A i \in 1 .. n : stack'[i + 2] = stack[i]
  BY <1>1, <1>2
<1>4. Top' = f
  BY <1>3 DEF Top
<1>5. ASSUME NEW i \in 1 .. n + 2
      PROVE  Fits(stack'[i], n + 2 - i + 1)
  <2>1. CASE i = 1
    <3>1. n + 2 - i + 1 = n + 2
      BY <1>1, <2>1
    <3> QED
      BY <1>1, <1>3, <2>1, <3>1
  <2>2. CASE i = 2
    <3>1. n + 2 - i + 1 = n + 1
      BY <1>1, <2>2
    <3> QED
      BY <1>1, <1>3, <2>2, <3>1
  <2>3. CASE i > 2
    <3>1. i - 2 \in 1 .. Len(stack) /\ Len(stack) - (i - 2) + 1 = n + 2 - i + 1 /\ i \in 3 .. n + 2
      BY <1>1, <2>3
    <3>2. Fits(stack[i - 2], Len(stack) - (i - 2) + 1)
      BY <3>1 DEF Stacked
    <3> QED
      BY <1>3, <3>1, <3>2
  <2>4. i = 1 \/ i = 2 \/ i > 2
    BY <1>1
  <2> QED
    BY <2>1, <2>2, <2>3, <2>4
<1>6. ASSUME NEW i \in 3 .. n + 2
      PROVE  Beneath(stack'[i])
  <2>1. CASE i = 3
    BY <1>1, <1>3, <2>1 DEF Top
  <2>2. CASE i > 3
    <3>1. i - 2 \in 2 .. Len(stack)
      BY <1>1, <2>2
    <3>2. Beneath(stack[i - 2])
      BY <3>1 DEF Stacked, Beneath, Is
    <3> QED
      BY <1>3, <3>2
  <2>3. i = 3 \/ i > 3
    BY <1>1
  <2> QED
    BY <2>1, <2>2, <2>3
<1>7. \A i \in 2 .. n + 2 : Beneath(stack'[i])
  BY <1>3, <1>6
<1>8. ASSUME NEW p, Held(p)
      PROVE  Held(p)'
  <2>1. PICK i \in 1 .. n : Holds(stack[i], p)
    BY <1>1, <1>8 DEF Held
  <2>2. i + 2 \in 1 .. Len(stack') /\ stack'[i + 2] = stack[i]
    BY <1>3
  <2> QED
    BY <2>1, <2>2 DEF Held
<1>9. Used' \subseteq Used \union {f, g}
  <2>1. \A i \in 1 .. n + 2 : i = 1 \/ i = 2 \/ (i \in 3 .. n + 2 /\ i - 2 \in 1 .. n)
    BY <1>1
  <2> QED
    BY <1>1, <1>3, <2>1 DEF Used
<1> QED
  BY <1>1, <1>3, <1>4, <1>5, <1>7, <1>8, <1>9 DEF Stacked

LEMMA TopLevelKeeps ==
  ASSUME stack' = TopLevel
  PROVE  Stacked' /\ Len(stack)' = 1 /\ Top'.at = "top" /\ \A f \in Used' : f.set = {}
<1>1. PICK f : f = Wait(TRUE, FALSE, None)
  OBVIOUS
<1>2. /\ f \in Frame /\ f.at = "top" /\ f.at \in WaitPlaces /\ f.p = None
      /\ f.kbd = TRUE /\ f.now = FALSE /\ f.set = {}
  BY <1>1, NoneAssumption DEF Wait, Frame, WaitPlaces
<1>3. stack' = <<f>>
  BY <1>1 DEF TopLevel
<1>4. Need(f) = 2
  BY <1>2 DEF Need
<1>5. Fits(f, 1)
  BY <1>2, <1>4, BoundsAssumption DEF Fits, Names
<1>6. stack' \in Seq(Frame) /\ Len(stack') = 1 /\ stack'[1] = f /\ Top' = f
  BY <1>2, <1>3 DEF Top
<1> QED
  BY <1>2, <1>5, <1>6 DEF Stacked, Used
-----------------------------------------------------------------------------
LEMMA PlacedFits ==
  ASSUME NEW f, NEW depth \in Nat \ {0}, Fits(f, depth),
         f.at \in {"drain", "tell", "report"} \/ (f.at = "walk" /\ f.p # None),
         NEW place \in {"drain", "tell", "report", "restore"},
         NEW g, g = [f EXCEPT !.at = place]
  PROVE  Fits(g, depth) /\ g.at = place /\ g.p = f.p /\ g.p \in Proc /\ depth > 1
         /\ depth + 1 <= MaxDepth
<1>1. f \in Frame /\ f.at \in Places /\ place \in Places /\ f.at \notin WaitPlaces
  BY DEF Fits, Places, WaitPlaces
<1>2. g \in Frame /\ g.at = place /\ g.p = f.p /\ g.at \notin WaitPlaces
  BY <1>1, PlacedPlain
<1>3. f.p \in Proc /\ depth # 1 /\ Need(f) = 1 /\ Need(g) = 1
  BY <1>1, <1>2, FrameParts DEF Fits, Need
<1> QED
  BY <1>2, <1>3 DEF Fits, Names

LEMMA PlacedWaitFits ==
  ASSUME NEW f, NEW depth \in Nat \ {0}, Fits(f, depth), f.at \in WaitPlaces,
         NEW place \in WaitPlaces, NEW set \in SUBSET Proc, NEW now \in BOOLEAN,
         NowFits(f, now), Names(f, place), NEW g, g = Moved(f, place, set, now)
  PROVE  Fits(g, depth) /\ g.at = place /\ g.p = f.p /\ g.set = set /\ g.kbd = f.kbd /\ Beneath(g)
<1>1. f \in Frame
  BY DEF Fits
<1>2. /\ g \in Frame /\ g.at = place /\ g.p = f.p /\ g.at \in WaitPlaces
      /\ g.kbd = f.kbd /\ g.now = now /\ g.set = set
  BY <1>1 DEF Frame, Places, WaitPlaces, Moved
<1>3. Need(g) = Need(f)
  BY <1>2 DEF Need
<1>4. Fits(g, depth)
  BY <1>2, <1>3 DEF Fits, WaitPlaces, NowFits, Names
<1>5. Beneath(g)
  BY <1>2 DEF Beneath, WaitPlaces
<1> QED
  BY <1>2, <1>4, <1>5

LEMMA WaitIs ==
  ASSUME NEW f, NEW depth \in Nat \ {0}, Fits(f, depth), f.at \in WaitPlaces
  PROVE  /\ f.kbd \in BOOLEAN /\ f.now \in BOOLEAN /\ f.set \in SUBSET Proc
         /\ f.p \in Proc \union {None}
         /\ f.kbd = TRUE => f.now = FALSE /\ f.p = None
         /\ depth + 1 <= MaxDepth
         /\ f.kbd = TRUE => depth + 2 <= MaxDepth
         /\ f.kbd = FALSE => depth > 1
<1>1. f \in Frame /\ depth + Need(f) <= MaxDepth /\ (f.kbd = TRUE => f.now = FALSE /\ f.p = None)
      /\ (depth = 1 => f.kbd = TRUE)
  BY DEF Fits, WaitPlaces
<1>2. f.kbd \in BOOLEAN /\ f.now \in BOOLEAN /\ f.set \in SUBSET Proc /\ f.p \in Proc \union {None}
  BY <1>1, FrameParts
<1>3. Need(f) = IF f.kbd = TRUE THEN 2 ELSE 1
  BY DEF Need
<1>4. depth + 1 <= MaxDepth /\ (f.kbd = TRUE => depth + 2 <= MaxDepth)
  BY <1>1, <1>2, <1>3, BoundsAssumption
<1>5. f.kbd = FALSE => depth > 1
  BY <1>1
<1> QED
  BY <1>1, <1>2, <1>4, <1>5
-----------------------------------------------------------------------------
(* The inductive invariant: types, and what is not sent counts with what   *)
(* is not read; the stack; and what the header says of statuses.           *)
Data ==
  /\ life \in [Proc -> {"unborn", "run", "stop", "dead"}]
  /\ mute \subseteq Proc /\ unreported \subseteq Proc /\ input_wait_mask \subseteq Proc
  /\ output \in [Proc -> Nat] /\ unsent \in [Proc -> Nat]
  /\ \A p \in Proc : output[p] + unsent[p] <= MaxOutput
  /\ blocked \in BOOLEAN
  /\ status \in [Proc -> {"run", "stop"} \union Ended]
  /\ raw_status \in [Proc -> {None, "stop", "exit"}]
  /\ changed \subseteq Proc /\ news \in BOOLEAN
  /\ infd \in [Proc -> BOOLEAN] /\ sentinel \in [Proc -> BOOLEAN]
  /\ ops \in 0 .. MaxOps

Listed == alist \in Seq(Proc) /\ behind \in [Proc -> Proc \union {None}]

Marked == \A p \in Proc \ lost : raw_status[p] # None => p \in changed \/ Held(p)

DrainedAt(p) ==
  infd[p] /\ p \notin changed /\ (status[p] \in Ended \/ raw_status[p] = "exit") => output[p] = 0

Drained ==
  /\ Is("tell") \/ Is("report") => DrainedAt(Top.p)
  /\ Is("clear") /\ Len(stack) >= 2 /\ stack[2].at = "report" => DrainedAt(stack[2].p)

Dead == \A p \in Proc : infd[p] /\ (status[p] \in Ended \/ raw_status[p] = "exit") => life[p] = "dead"

(* Nothing is known of a process before it is started.                     *)
Unborn ==
  \A p \in Proc : life[p] = "unborn" =>
    /\ ~infd[p] /\ status[p] = "run" /\ raw_status[p] = None
    /\ p \notin unreported /\ p \notin input_wait_mask

(* A wait is about processes that were started.                            *)
SetsBorn == \A f \in Used : f.at \in WaitPlaces => \A p \in f.set : life[p] # "unborn"

Inv == Data /\ Listed /\ Stacked /\ Marked /\ Drained /\ Dead /\ Unborn /\ SetsBorn

(* A step of that kind: whoever is lost remains so, or is marked again.    *)
Lasting == lost \subseteq lost' \union changed'

(* None is no string that is a status, by its use. *)
LEMMA NoneDiffers == None # "stop" /\ None # "exit" /\ None = "none" /\ None \notin Proc
BY NoneAssumption DEF None

(* The operators on Vprocess_alist.                                        *)
LEMMA FirstIs ==
  ASSUME NEW list \in Seq(Proc)
  PROVE  First(list) \in Proc \union {None}
BY DEF First

LEMMA CdrIs ==
  ASSUME Listed, NEW p \in Proc
  PROVE  Cdr(p) \in Proc \union {None}
<1>1. CASE InList(p)
  <2>1. Position(p) \in DOMAIN alist
    BY <1>1 DEF InList, Position
  <2>2. PICK i \in 1 .. Len(alist) : i = Position(p)
    BY <2>1 DEF Listed
  <2>3. SubSeq(alist, i + 1, Len(alist)) \in Seq(Proc)
    BY <2>2 DEF Listed
  <2> QED
    BY <1>1, <2>2, <2>3, FirstIs DEF Cdr
<1>2. CASE ~InList(p)
  BY <1>2 DEF Cdr, Listed
<1> QED
  BY <1>1, <1>2

LEMMA RemoveKeeps ==
  ASSUME Listed, Data, NEW p \in Proc, Remove(p)
  PROVE  /\ Listed'
         /\ infd' = [infd EXCEPT ![p] = FALSE] /\ input_wait_mask' = input_wait_mask \ {p}
<1>1. Cdr(p) \in Proc \union {None}
  BY CdrIs
<1>2. alist' \in Seq(Proc)
  <2>1. CASE InList(p)
    <3>1. Position(p) \in DOMAIN alist
      BY <2>1 DEF InList, Position
    <3>2. PICK i \in 1 .. Len(alist) : i = Position(p)
      BY <3>1 DEF Listed
    <3>3. SubSeq(alist, 1, i - 1) \in Seq(Proc) /\ SubSeq(alist, i + 1, Len(alist)) \in Seq(Proc)
      BY <3>2 DEF Listed
    <3> QED
      BY <2>1, <3>2, <3>3 DEF Remove
  <2>2. CASE ~InList(p)
    BY <2>2 DEF Remove, Listed
  <2> QED
    BY <2>1, <2>2
<1> QED
  BY <1>1, <1>2 DEF Remove, Deactivate, Listed

(* From what the parts of the invariant follow in the next state.          *)
LEMMA DrainedElsewhere ==
  ASSUME Top'.at \notin {"tell", "report", "clear"}
  PROVE  Drained'
BY DEF Drained, Is

LEMMA SetsBornFrom ==
  ASSUME SetsBorn, \A p \in Proc : life[p] # "unborn" => life'[p] # "unborn", NEW N,
         Used' \subseteq Used \union N, Used \subseteq Frame,
         \A f \in N : f.at \in WaitPlaces => f.set \subseteq Proc /\ \A p \in f.set : life[p] # "unborn"
  PROVE  SetsBorn'
<1>1. \A f \in Used : f.at \in WaitPlaces => f.set \subseteq Proc
  BY FrameParts
<1> QED
  BY <1>1 DEF SetsBorn

LEMMA UsedFrames ==
  ASSUME Stacked
  PROVE  Used \subseteq Frame /\ Top \in Used
BY DEF Stacked, Used, Top
-----------------------------------------------------------------------------
LEMMA InvParts ==
  ASSUME Inv
  PROVE  /\ Data /\ Listed /\ Stacked /\ Marked /\ Drained /\ Dead /\ Unborn /\ SetsBorn
         /\ Len(stack) \in Nat \ {0} /\ Top \in Frame /\ Fits(Top, Len(stack))
         /\ Used \subseteq Frame /\ Top \in Used /\ MaxDepth \in Nat
         /\ \A q : Held(q) <=> HeldBelow(q) \/ Holds(Top, q)
         /\ \A q : HeldBelow(q) => q \in Frames({"drain"})
BY TopFits, UsedFrames, BoundsAssumption DEF Inv

(* The processes that Drained is about.                                    *)
LEMMA DrainedIsOf ==
  ASSUME Inv
  PROVE  /\ Is("tell") \/ Is("report") \/ Is("clear") => Top.p \in Proc
         /\ Len(stack) >= 2 /\ stack[2].at = "report" => stack[2].p \in Proc
<1>1. "tell" \notin WaitPlaces /\ "report" \notin WaitPlaces /\ "clear" \notin WaitPlaces
  BY DEF WaitPlaces
<1>2. Is("tell") \/ Is("report") \/ Is("clear") => Top.p \in Proc
  BY <1>1, InvParts DEF Fits, Is
<1>3. Len(stack) >= 2 => Fits(stack[2], Len(stack) - 2 + 1)
  BY InvParts DEF Stacked
<1> QED
  BY <1>1, <1>2, <1>3 DEF Fits

LEMMA TopWaits ==
  ASSUME Inv, Top.at \in WaitPlaces
  PROVE  /\ Top.kbd \in BOOLEAN /\ Top.now \in BOOLEAN /\ Top.set \in SUBSET Proc
         /\ Top.p \in Proc \union {None}
         /\ Top.kbd = TRUE => Top.now = FALSE /\ Top.p = None
         /\ Len(stack) + 1 <= MaxDepth
         /\ Top.kbd = TRUE => Len(stack) + 2 <= MaxDepth
         /\ Top.kbd = FALSE => Len(stack) > 1
         /\ \A q \in Top.set : q \in Proc /\ life[q] # "unborn"
<1>1. PICK f : f = Top
  OBVIOUS
<1>2. PICK n \in Nat \ {0} : n = Len(stack)
  BY InvParts
<1>3. Fits(f, n) /\ f.at \in WaitPlaces
  BY <1>1, <1>2, InvParts
<1>4. /\ f.kbd \in BOOLEAN /\ f.now \in BOOLEAN /\ f.set \in SUBSET Proc
      /\ f.p \in Proc \union {None}
      /\ f.kbd = TRUE => f.now = FALSE /\ f.p = None
      /\ n + 1 <= MaxDepth
      /\ f.kbd = TRUE => n + 2 <= MaxDepth
      /\ f.kbd = FALSE => n > 1
  BY <1>3, WaitIs
<1>5. \A q \in Top.set : q \in Proc /\ life[q] # "unborn"
  BY <1>1, <1>4, InvParts DEF SetsBorn
<1> QED
  BY <1>1, <1>2, <1>4, <1>5

LEMMA TopMoves ==
  ASSUME Inv, Top.at \in WaitPlaces,
         NEW place \in WaitPlaces, NEW set \in SUBSET Proc, NEW now \in BOOLEAN, NowFits(Top, now),
         Names(Top, place),
         NEW f, f = Moved(Top, place, set, now)
  PROVE  /\ Fits(f, Len(stack)) /\ f.at = place /\ f.p = Top.p /\ f.set = set
         /\ f.kbd = Top.kbd /\ Beneath(f)
<1>1. PICK t : t = Top
  OBVIOUS
<1>2. PICK n \in Nat \ {0} : n = Len(stack)
  BY InvParts
<1>3. Fits(t, n) /\ t.at \in WaitPlaces /\ NowFits(t, now) /\ Names(t, place)
  BY <1>1, <1>2, InvParts
<1>4. f = Moved(t, place, set, now)
  BY <1>1
<1>5. Fits(f, n) /\ f.at = place /\ f.p = t.p /\ f.set = set /\ f.kbd = t.kbd /\ Beneath(f)
  BY <1>3, <1>4, PlacedWaitFits
<1> QED
  BY <1>1, <1>2, <1>5

(* Top at another place, and with another set.                             *)
LEMMA TopPlaced ==
  ASSUME Inv, Top.at \in WaitPlaces, NEW place \in WaitPlaces, NEW set \in SUBSET Proc,
         Names(Top, place), NEW f, f = Placed(Top, place, set)
  PROVE  /\ Fits(f, Len(stack)) /\ f.at = place /\ f.p = Top.p /\ f.set = set
         /\ f.kbd = Top.kbd /\ Beneath(f)
<1>1. PICK now \in BOOLEAN : now = Top.now /\ NowFits(Top, now)
  BY TopWaits DEF NowFits
<1>2. f = Moved(Top, place, set, now)
  BY <1>1, InvParts, PlacedWaitSame DEF Moved, Placed
<1> QED
  BY <1>1, <1>2, TopMoves

LEMMA TopPlacedSame ==
  ASSUME Inv, Top.at \in WaitPlaces, NEW place \in WaitPlaces
  PROVE  Top.set \in SUBSET Proc /\ [Top EXCEPT !.at = place] = Placed(Top, place, Top.set)
BY InvParts, TopWaits, PlacedWaitSame DEF Placed

(* Steps of the kernel leave all but its view. *)
LEMMA KernelKeeps ==
  ASSUME Inv, Lasting, NEW p \in Proc, Send(p) \/ Exit(p) \/ Stop(p) \/ CloseOutput(p)
  PROVE  Inv'
<1>1. /\ UNCHANGED <<blocked, alist, behind, status, raw_status, changed, news, infd,
                     input_wait_mask, sentinel, stack, ops>>
  BY DEF Send, Exit, Stop, CloseOutput, Unchanging, cells, ticks, channels
<1>2. Data'
  <2>1. CASE Send(p)
    <3>0. unsent[p] \in Nat /\ output[p] \in Nat /\ output[p] + unsent[p] <= MaxOutput
          /\ unsent[p] > 0 /\ unsent \in [Proc -> Nat] /\ output \in [Proc -> Nat]
      BY <2>1 DEF Send, Inv, Data
    <3>1. PICK n \in Nat : n + 1 = unsent[p]
      BY <3>0
    <3>2. PICK m \in Nat : m = output[p] + 1
      BY <3>0
    <3>3. unsent' = [unsent EXCEPT ![p] = n] /\ output' = [output EXCEPT ![p] = m]
      <4>1. n = unsent[p] - 1
        BY <3>1
      <4> QED
        BY <2>1, <3>2, <4>1 DEF Send
    <3>4. output' \in [Proc -> Nat] /\ unsent' \in [Proc -> Nat]
      BY <3>0, <3>3
    <3>5. m + n <= MaxOutput
      BY <3>0, <3>1, <3>2, BoundsAssumption
    <3>6. \A q \in Proc : output'[q] + unsent'[q] <= MaxOutput
      BY <3>0, <3>3, <3>5 DEF Inv, Data
    <3>7. UNCHANGED <<life, mute, unreported>>
      BY <2>1 DEF Send
    <3> QED
      BY <1>1, <3>4, <3>6, <3>7 DEF Inv, Data
  <2>2. CASE Exit(p)
    BY <1>1, <2>2 DEF Inv, Data, Exit
  <2>3. CASE Stop(p) \/ CloseOutput(p)
    BY <1>1, <2>3 DEF Inv, Data, Stop, CloseOutput
  <2> QED
    BY <2>1, <2>2, <2>3
<1>3. \A q \in Proc : /\ life'[q] = life[q] \/ (q = p /\ life[q] # "unborn" /\ life[q] # "dead")
                      /\ life[q] # "unborn" => life'[q] # "unborn"
                      /\ q \in unreported' => q \in unreported \/ life'[q] # "unborn"
  <2>1. CASE Send(p) \/ CloseOutput(p)
    BY <2>1 DEF Send, CloseOutput
  <2>2. CASE Exit(p)
    BY <2>2 DEF Exit, Inv, Data
  <2>3. CASE Stop(p)
    BY <2>3 DEF Stop, Inv, Data
  <2> QED
    BY <2>1, <2>2, <2>3
<1>4. Dead'
  <2>1. \A q \in Proc : life[q] = "dead" => life'[q] = "dead"
    BY <1>3
  <2> QED
    BY <1>1, <2>1 DEF Inv, Dead
<1>5. Unborn'
  <2>1. \A q \in Proc : life'[q] = "unborn" => life[q] = "unborn"
    BY <1>3
  <2> QED
    BY <1>1, <1>3, <2>1 DEF Inv, Unborn
<1>6. SetsBorn'
  <2>1. Used' = Used
    BY <1>1 DEF Used
  <2>2. \A q \in Proc : life[q] # "unborn" => life'[q] # "unborn"
    BY <1>3
  <2>3. \A f \in Used : f.at \in WaitPlaces => f.set \subseteq Proc
    BY InvParts, FrameParts
  <2> QED
    BY <2>1, <2>2, <2>3 DEF Inv, SetsBorn
<1>7. Listed' /\ Stacked' /\ Marked'
  BY <1>1 DEF Inv, Listed, Stacked, Is, Top, Marked, Held, Lasting
<1>8. Drained'
  <2>1. ASSUME NEW q, DrainedAt(q)
        PROVE  DrainedAt(q)'
    <3>1. CASE Send(p) /\ q = p
      BY <1>1, <2>1, <3>1 DEF DrainedAt, Send, Inv, Dead
    <3>2. CASE Send(p) /\ q # p
      <4>1. output'[q] = output[q]
        BY <3>2 DEF Send, Inv, Data
      <4> QED
        BY <1>1, <2>1, <4>1 DEF DrainedAt
    <3>3. CASE ~Send(p)
      BY <1>1, <2>1, <3>3 DEF DrainedAt, Exit, Stop, CloseOutput
    <3> QED
      BY <3>1, <3>2, <3>3
  <2>2. UNCHANGED <<Top, stack>>
    BY <1>1 DEF Top
  <2> QED
    BY <2>1, <2>2 DEF Inv, Drained, Is
<1> QED
  BY <1>2, <1>4, <1>5, <1>6, <1>7, <1>8 DEF Inv

(* The handler: what it stores it marks, and what it interrupts goes on.   *)
LEMMA SigchldKeeps ==
  ASSUME Inv, Lasting, NEW p \in Proc, Sigchld(p)
  PROVE  Inv'
<1>1. /\ UNCHANGED <<life, mute, output, unsent, blocked, alist, behind, status, infd, sentinel, ops>>
      /\ p \in unreported /\ unreported' = unreported \ {p} /\ life[p] # "unborn"
  BY DEF Sigchld, cells, Inv, Unborn
<1>2. /\ changed \subseteq changed' /\ changed' \subseteq changed \union {p}
      /\ input_wait_mask' \subseteq input_wait_mask
      /\ news' \in BOOLEAN
      /\ \/ UNCHANGED <<changed, raw_status>>
         \/ /\ p \in changed'
            /\ raw_status' = [raw_status EXCEPT ![p] = IF life[p] = "dead" THEN "exit" ELSE "stop"]
  BY DEF Sigchld, Mark, ticks, MaskAfterDeath, Inv, Data
<1>3. Data'
  BY <1>1, <1>2 DEF Inv, Data
<1>4. \A q \in Proc : \/ raw_status'[q] = raw_status[q]
                      \/ /\ q = p /\ q \in changed' /\ raw_status'[q] \in {"stop", "exit"}
                         /\ raw_status'[q] = "exit" => life[q] = "dead"
  BY <1>2 DEF Inv, Data
<1>5. Dead'
  BY <1>1, <1>4, NoneDiffers DEF Inv, Dead
<1>6. Unborn'
  BY <1>1, <1>2, <1>4 DEF Inv, Unborn
<1>7. CASE Is("sleep") /\ ~Top.now
  <2>1. GoTo([Top EXCEPT !.at = "top"])
    BY <1>7 DEF Sigchld, Place
  <2>2. Top.at = "sleep" /\ Top.at \in WaitPlaces /\ "top" \in WaitPlaces /\ Names(Top, "top")
    BY <1>7 DEF Is, WaitPlaces, Names
  <2>3. PICK set \in SUBSET Proc : set = Top.set
    BY <2>2, TopWaits
  <2>5. PICK f : f = [Top EXCEPT !.at = "top"]
    OBVIOUS
  <2>4. f = Placed(Top, "top", set)
    BY <2>2, <2>3, <2>5, TopPlacedSame
  <2>6. Fits(f, Len(stack)) /\ f.at = "top" /\ f.p = Top.p /\ f.set = Top.set
    BY <2>2, <2>3, <2>4, TopPlaced
  <2>7. /\ Stacked' /\ Top' = f
        /\ \A q : HeldBelow(q) \/ Holds(f, q) => Held(q)'
        /\ Used' \subseteq Used \union {f}
    BY <2>1, <2>2, <2>5, <2>6, InvParts, GoToKeeps DEF Is
  <2>8. Drained'
    BY <2>6, <2>7, DrainedElsewhere
  <2>9. \A q : Held(q) => Held(q)'
    BY <2>2, <2>7, InvParts DEF Holds
  <2>10. Marked'
    BY <1>2, <1>4, <2>9 DEF Inv, Marked, Lasting
  <2>11. SetsBorn'
    <3>1. \A q \in f.set : q \in Proc /\ life[q] # "unborn"
      BY <2>2, <2>6, TopWaits
    <3>2. \A q \in Proc : life[q] # "unborn" => life'[q] # "unborn"
      BY <1>1
    <3> QED
      BY <2>7, <3>1, <3>2, InvParts, SetsBornFrom
  <2> QED
    BY <1>1, <1>3, <1>5, <1>6, <2>7, <2>8, <2>10, <2>11 DEF Inv, Listed
<1>8. CASE ~(Is("sleep") /\ ~Top.now)
  <2>1. stack' = stack
    BY <1>8 DEF Sigchld
  <2>2. Stacked' /\ Top' = Top
    BY <2>1 DEF Inv, Stacked, Is, Top
  <2>3. Drained'
    <3>1. \A q \in Proc : DrainedAt(q) => DrainedAt(q)'
      BY <1>1, <1>2, <1>4 DEF DrainedAt
    <3> QED
      BY <2>1, <2>2, <3>1, DrainedIsOf DEF Inv, Drained, Is
  <2>4. Marked'
    BY <1>2, <1>4, <2>1 DEF Inv, Marked, Held, Lasting
  <2>5. SetsBorn'
    BY <1>1, <2>1 DEF Inv, SetsBorn, Used
  <2> QED
    BY <1>1, <1>3, <1>5, <1>6, <2>2, <2>3, <2>4, <2>5 DEF Inv, Listed
<1> QED
  BY <1>7, <1>8
-----------------------------------------------------------------------------
(* What each way of moving the stack does, for a state in Inv.             *)
LifeGoesOn == \A p \in Proc : life[p] # "unborn" => life'[p] # "unborn"
Born(f) == f.at \in WaitPlaces => f.set \subseteq Proc /\ \A p \in f.set : life[p] # "unborn"
Telling(f) == f.at \in {"tell", "report", "clear"}

LEMMA Popped ==
  ASSUME Inv, Pop, LifeGoesOn, ~Is("clear"), MayPop
  PROVE  /\ Stacked' /\ SetsBorn' /\ ~Telling(Top')
         /\ \A q : HeldBelow(q) => Held(q)'
<1>1. /\ Stacked' /\ Beneath(Top') /\ Used' \subseteq Used
      /\ \A q : HeldBelow(q) => Held(q)'
  BY InvParts, PopKeeps
<1>2. SetsBorn'
  <2>1. PICK N : N = {}
    OBVIOUS
  <2>2. /\ Used' \subseteq Used \union N
        /\ \A f \in N : f.at \in WaitPlaces => f.set \subseteq Proc /\ \A p \in f.set : life[p] # "unborn"
    BY <1>1, <2>1
  <2> QED
    BY <2>2, InvParts, SetsBornFrom DEF LifeGoesOn
<1> QED
  BY <1>1, <1>2 DEF Telling, Beneath

LEMMA Gone ==
  ASSUME Inv, NEW f, Fits(f, Len(stack)), GoTo(f), ~Is("clear"), LifeGoesOn, Born(f)
  PROVE  /\ Stacked' /\ SetsBorn' /\ Top' = f
         /\ \A q : HeldBelow(q) \/ Holds(f, q) => Held(q)'
<1>1. /\ Stacked' /\ Top' = f /\ Used' \subseteq Used \union {f}
      /\ \A q : HeldBelow(q) \/ Holds(f, q) => Held(q)'
  BY InvParts, GoToKeeps
<1>2. SetsBorn'
  BY <1>1, InvParts, SetsBornFrom DEF LifeGoesOn, Born
<1> QED
  BY <1>1, <1>2

LEMMA Pushed ==
  ASSUME Inv, NEW f, Fits(f, Len(stack) + 1), Push(f), Beneath(Top), LifeGoesOn, Born(f)
  PROVE  /\ Stacked' /\ SetsBorn' /\ Top' = f /\ stack'[2] = Top
         /\ \A q : Held(q) \/ Holds(f, q) => Held(q)'
<1>1. /\ Stacked' /\ Top' = f /\ Used' \subseteq Used \union {f}
      /\ \A q : Held(q) \/ Holds(f, q) => Held(q)'
      /\ \A i \in 1 .. Len(stack) : stack'[i + 1] = stack[i]
  BY InvParts, PushKeeps
<1>2. SetsBorn'
  BY <1>1, InvParts, SetsBornFrom DEF LifeGoesOn, Born
<1>3. stack'[2] = Top
  <2>1. 1 \in 1 .. Len(stack) /\ 1 + 1 = 2
    BY InvParts
  <2> QED
    BY <1>1, <2>1 DEF Top
<1> QED
  BY <1>1, <1>2, <1>3

LEMMA Called ==
  ASSUME Inv, NEW f, NEW g, Calls(f, g), Fits(g, Len(stack)), Fits(f, Len(stack) + 1),
         Under(f, g), ~Is("clear"),
         LifeGoesOn, Born(f), Born(g)
  PROVE  /\ Stacked' /\ SetsBorn' /\ Top' = f /\ stack'[2] = g
         /\ \A q : HeldBelow(q) \/ Holds(g, q) \/ Holds(f, q) => Held(q)'
<1>1. /\ Stacked' /\ Top' = f /\ stack'[2] = g /\ Used' \subseteq Used \union {f, g}
      /\ \A q : HeldBelow(q) \/ Holds(g, q) \/ Holds(f, q) => Held(q)'
  BY InvParts, CallKeeps
<1>2. PICK N : N = {f, g}
  OBVIOUS
<1>3. \A h \in N : h.at \in WaitPlaces => h.set \subseteq Proc /\ \A p \in h.set : life[p] # "unborn"
  BY <1>2 DEF Born
<1>4. SetsBorn'
  BY <1>1, <1>2, <1>3, InvParts, SetsBornFrom DEF LifeGoesOn
<1> QED
  BY <1>1, <1>4

LEMMA Thrown ==
  ASSUME stack' = TopLevel
  PROVE  Stacked' /\ SetsBorn' /\ ~Telling(Top')
<1>1. Stacked' /\ Top'.at = "top" /\ \A f \in Used' : f.set = {}
  BY TopLevelKeeps
<1> QED
  BY <1>1 DEF SetsBorn, Telling

LEMMA LispIs ==
  ASSUME Inv, Is("lisp")
  PROVE  /\ Beneath(Top) /\ ~Telling(Top) /\ ~Is("clear") /\ Top.at \notin WaitPlaces
         /\ \A q : Held(q) => HeldBelow(q)
BY InvParts DEF Is, Beneath, Telling, Holds, WaitPlaces

LEMMA LispFits ==
  ASSUME NEW depth \in Nat, depth <= MaxDepth
  PROVE  Fits(Lisp, depth) /\ Lisp.at = "lisp" /\ Born(Lisp) /\ \A q : ~Holds(Lisp, q)
<1>1. "lisp" \in Places /\ None \in Proc \union {None} /\ Lisp = At("lisp", None)
  BY DEF Places, Lisp
<1>2. Lisp \in Frame /\ Lisp.at = "lisp" /\ Lisp.at \notin WaitPlaces
  BY <1>1, PlainFrame
<1>3. Fits(Lisp, depth)
  BY <1>2, BoundsAssumption DEF Fits, Need, Names
<1> QED
  BY <1>2, <1>3 DEF Born, Holds

LEMMA WalkFits ==
  ASSUME NEW p \in Proc \union {None}, NEW depth \in Nat, depth > 1, depth + 1 <= MaxDepth,
         NEW f, f = At("walk", p)
  PROVE  Fits(f, depth) /\ f.at = "walk" /\ f.p = p /\ Born(f) /\ ~Telling(f) /\ Beneath(f)
         /\ \A q : ~Holds(f, q)
<1>1. "walk" \in Places
  BY DEF Places
<1>2. f \in Frame /\ f.at = "walk" /\ f.p = p /\ f.at \notin WaitPlaces
  BY <1>1, PlainFrame
<1>3. Fits(f, depth)
  BY <1>2 DEF Fits, Need, Names
<1> QED
  BY <1>2, <1>3 DEF Born, Holds, Telling, Beneath

LEMMA LeafFits ==
  ASSUME NEW p \in Proc, NEW depth \in Nat, depth > 1, depth <= MaxDepth,
         NEW place \in {"clear", "delete", "continue", "write"}, NEW f, f = At(place, p)
  PROVE  Fits(f, depth) /\ f.at = place /\ f.p = p /\ Born(f)
<1>1. place \in Places
  BY DEF Places
<1>2. f \in Frame /\ f.at = place /\ f.p = p /\ f.at \notin WaitPlaces
  BY <1>1, PlainFrame
<1>3. Fits(f, depth)
  BY <1>2, BoundsAssumption DEF Fits, Need, Names
<1> QED
  BY <1>2, <1>3 DEF Born

LEMMA OperationIs ==
  ASSUME Inv, Operation
  PROVE  /\ Is("lisp") /\ ops' \in 0 .. MaxOps
         /\ Room => Len(stack) + 1 \in Nat /\ Len(stack) + 1 > 1 /\ Len(stack) + 4 <= MaxDepth
BY InvParts, BoundsAssumption DEF Operation, Data, Room

(* A throw to the top level loses what the frames below have held.         *)
LEMMA LeaveLoses ==
  ASSUME Inv, Leave, \A q : Held(q) => HeldBelow(q)
  PROVE  \A q \in Proc \ lost' : Held(q) => q \in changed'
BY InvParts DEF Leave

(* Steps that change only the stack and what it does not depend on.        *)
Still ==
  UNCHANGED <<life, mute, unreported, output, unsent, cells, status, raw_status, changed, channels>>

LEMMA QuietKeeps ==
  ASSUME Inv, Lasting, Still, blocked' \in BOOLEAN, news' \in BOOLEAN, sentinel' \in [Proc -> BOOLEAN],
         ops' \in 0 .. MaxOps, Stacked', SetsBorn', ~Telling(Top'),
         \A q \in Proc \ lost' : Held(q) => Held(q)' \/ q \in changed'
  PROVE  Inv'
<1>1. Data' /\ Listed' /\ Dead' /\ Unborn'
  BY DEF Still, cells, channels, Inv, Data, Listed, Dead, Unborn
<1>2. Marked'
  BY DEF Still, Inv, Marked, Lasting
<1>3. Drained'
  BY DrainedElsewhere DEF Telling
<1> QED
  BY <1>1, <1>2, <1>3 DEF Inv

LEMMA StillIs ==
  ASSUME Inv
  PROVE  /\ Still => LifeGoesOn
         /\ blocked \in BOOLEAN /\ news \in BOOLEAN /\ sentinel \in [Proc -> BOOLEAN]
         /\ ops \in 0 .. MaxOps
BY DEF Still, LifeGoesOn, Inv, Data
-----------------------------------------------------------------------------
(* The steps that only move the stack.                                     *)
LEMMA LispKeeps ==
  ASSUME Inv, Lasting, NEW p \in Proc, CannotFork(p) \/ SetSentinel(p) \/ SendString(p)
  PROVE  Inv'
<1>1. Still /\ LifeGoesOn
  BY StillIs DEF CannotFork, SetSentinel, SendString, Still, kernel, ticks
<1>2. CASE CannotFork(p)
  <2>1. Operation /\ Error /\ blocked' = TRUE /\ UNCHANGED <<news, sentinel>>
    BY <1>2 DEF CannotFork, ticks
  <2>2. CASE stack' = stack
    <3>1. Stacked' /\ SetsBorn' /\ Top' = Top /\ \A q : Held(q) => Held(q)'
      BY <1>1, <2>2, InvParts DEF Stacked, Is, Top, SetsBorn, Used, Held, Still
    <3> QED
      BY <1>1, <2>1, <3>1, OperationIs, StillIs, LispIs, QuietKeeps
  <2>3. CASE Leave
    <3>1. \A q \in Proc \ lost' : Held(q) => q \in changed'
      BY <2>1, <2>3, OperationIs, LispIs, LeaveLoses
    <3> QED
      BY <1>1, <2>1, <2>3, <3>1, OperationIs, StillIs, Thrown, QuietKeeps DEF Leave
  <2> QED
    BY <2>1, <2>2, <2>3 DEF Error
<1>3. CASE SetSentinel(p)
  <2>1. /\ Is("lisp") /\ UNCHANGED <<blocked, news, stack, ops>>
        /\ sentinel' = [sentinel EXCEPT ![p] = TRUE]
    BY <1>3 DEF SetSentinel, ticks
  <2>2. Stacked' /\ SetsBorn' /\ Top' = Top /\ \A q : Held(q) => Held(q)'
    BY <1>1, <2>1, InvParts DEF Stacked, Is, Top, SetsBorn, Used, Held, Still
  <2>3. sentinel' \in [Proc -> BOOLEAN]
    BY <2>1, StillIs
  <2> QED
    BY <1>1, <2>1, <2>2, <2>3, StillIs, LispIs, QuietKeeps
<1>4. CASE SendString(p)
  <2>1. Operation /\ Room /\ Push(At("write", p)) /\ UNCHANGED <<blocked, news, sentinel>>
    BY <1>4 DEF SendString, ticks
  <2>2. PICK f : f = At("write", p)
    OBVIOUS
  <2>3. Fits(f, Len(stack) + 1) /\ f.at = "write" /\ Born(f)
    <3>1. PICK n \in Nat : n = Len(stack) + 1 /\ n > 1 /\ n <= MaxDepth
      BY <2>1, OperationIs, InvParts
    <3>2. Fits(f, n) /\ f.at = "write" /\ Born(f)
      BY <2>2, <3>1, LeafFits
    <3> QED
      BY <3>1, <3>2
  <2>4. Stacked' /\ SetsBorn' /\ Top' = f /\ \A q : Held(q) => Held(q)'
    BY <1>1, <2>1, <2>2, <2>3, OperationIs, LispIs, Pushed
  <2>5. ~Telling(Top')
    BY <2>3, <2>4 DEF Telling
  <2> QED
    BY <1>1, <2>1, <2>4, <2>5, OperationIs, StillIs, QuietKeeps
<1> QED
  BY <1>2, <1>3, <1>4

LEMMA AcceptKeeps ==
  ASSUME Inv, Lasting, NEW p \in Proc \union {None}, Accept(p)
  PROVE  Inv'
<1>1. Still /\ LifeGoesOn
  BY StillIs DEF Accept, Still, kernel, ticks
<1>2. /\ Operation /\ Room /\ Push(Wait(FALSE, p = None, p)) /\ UNCHANGED <<blocked, news, sentinel>>
  BY DEF Accept, ticks
<1>3. PICK now \in BOOLEAN : now = (p = None)
  OBVIOUS
<1>4. PICK f : f = Wait(FALSE, now, p)
  OBVIOUS
<1>5. /\ f \in Frame /\ f.at = "top" /\ f.at \in WaitPlaces /\ f.p = p
      /\ f.kbd = FALSE /\ f.now = now /\ f.set = {}
  BY <1>4 DEF Wait, Frame, WaitPlaces
<1>6. Need(f) = 1
  BY <1>5 DEF Need
<1>7. Fits(f, Len(stack) + 1)
  <2>1. Len(stack) + 1 + 1 <= MaxDepth /\ Len(stack) + 1 # 1
    BY <1>2, OperationIs, InvParts
  <2> QED
    BY <1>5, <1>6, <2>1 DEF Fits, Names
<1>8. Born(f) /\ Push(f)
  BY <1>2, <1>3, <1>4, <1>5 DEF Born
<1>9. Stacked' /\ SetsBorn' /\ Top' = f /\ \A q : Held(q) => Held(q)'
  BY <1>1, <1>2, <1>7, <1>8, OperationIs, LispIs, Pushed
<1>10. ~Telling(Top')
  BY <1>5, <1>9 DEF Telling
<1> QED
  BY <1>1, <1>2, <1>9, <1>10, OperationIs, StillIs, QuietKeeps

LEMMA LeavingKeeps ==
  ASSUME Inv, Lasting, Throw \/ Return
  PROVE  Inv'
<1>1. Still /\ LifeGoesOn /\ UNCHANGED <<blocked, news, sentinel>> /\ ops' \in 0 .. MaxOps
  BY StillIs, OperationIs DEF Throw, Return, Still, kernel, ticks
<1>2. Is("lisp") /\ (Leave \/ (Len(stack) = 1 /\ stack' = TopLevel) \/ (Len(stack) # 1 /\ Pop))
  BY DEF Throw, Return, Operation
<1>3. CASE Leave
  <2>1. \A q \in Proc \ lost' : Held(q) => q \in changed'
    BY <1>2, <1>3, LispIs, LeaveLoses
  <2> QED
    BY <1>1, <1>3, <2>1, StillIs, Thrown, QuietKeeps DEF Leave
<1>5. CASE Len(stack) = 1 /\ stack' = TopLevel
  <2>1. \A q : ~HeldBelow(q)
    BY <1>5 DEF HeldBelow
  <2>2. \A q : ~Held(q)
    BY <1>2, <2>1, LispIs
  <2>3. Stacked' /\ SetsBorn' /\ ~Telling(Top')
    BY <1>5, Thrown
  <2> QED
    BY <1>1, <2>2, <2>3, StillIs, QuietKeeps
<1>4. CASE Len(stack) # 1 /\ Pop
  <2>1. Len(stack) > 1
    <3>1. PICK n \in Nat \ {0} : n = Len(stack)
      BY InvParts
    <3>2. n > 1
      BY <1>4, <3>1
    <3> QED
      BY <3>1, <3>2
  <2>2. Stacked' /\ SetsBorn' /\ ~Telling(Top') /\ \A q : HeldBelow(q) => Held(q)'
    BY <1>1, <1>2, <1>4, <2>1, LispIs, Popped DEF MayPop
  <2> QED
    BY <1>1, <1>2, <2>2, StillIs, LispIs, QuietKeeps
<1> QED
  BY <1>2, <1>3, <1>4, <1>5

LEMMA WrittenKeeps ==
  ASSUME Inv, Lasting, Written
  PROVE  Inv'
<1>1. Still /\ LifeGoesOn /\ UNCHANGED <<blocked, news, sentinel, ops>> /\ Is("write") /\ Pop
  BY StillIs DEF Written, Still, kernel, ticks
<1>2. Top.at # "lisp" /\ Top.at \notin WaitPlaces /\ ~Is("clear")
  BY <1>1 DEF Is, WaitPlaces
<1>3. Stacked' /\ SetsBorn' /\ ~Telling(Top') /\ \A q : HeldBelow(q) => Held(q)'
  BY <1>1, <1>2, Popped DEF MayPop
<1>4. \A q : Held(q) => HeldBelow(q)
  BY <1>1, InvParts DEF Holds, Is
<1> QED
  BY <1>1, <1>3, <1>4, StillIs, QuietKeeps

LEMMA WalkIs ==
  ASSUME Inv, Top.at \in {"walk", "drain", "tell", "report", "restore"}
  PROVE  /\ Len(stack) > 1 /\ Len(stack) + 1 <= MaxDepth /\ ~Is("clear")
         /\ Top.at # "lisp" /\ Top.at \notin WaitPlaces
         /\ Top.p \in Proc \union {None}
         /\ ~Is("walk") => Top.p \in Proc
<1>1. PICK n \in Nat \ {0} : n = Len(stack)
  BY InvParts
<1>2. Top.at # "lisp" /\ Top.at \notin WaitPlaces /\ ~Is("clear")
  BY DEF Is, WaitPlaces
<1>3. Fits(Top, n) /\ Need(Top) = 1
  BY <1>1, <1>2, InvParts DEF Need
<1>4. n # 1 /\ n + 1 <= MaxDepth /\ Top \in Frame
  BY <1>2, <1>3 DEF Fits
<1>5. Top.at # "walk" => Top.p \in Proc
  BY <1>2, <1>3 DEF Fits
<1>6. Top.p \in Proc \union {None}
  BY <1>4, FrameParts
<1> QED
  BY <1>1, <1>2, <1>4, <1>5, <1>6 DEF Is

LEMMA NotifiedKeeps ==
  ASSUME Inv, Lasting, Notified \/ PassBy
  PROVE  Inv'
<1>1. Still /\ LifeGoesOn /\ UNCHANGED <<blocked, sentinel, ops>> /\ news' \in BOOLEAN /\ Is("walk")
  BY StillIs DEF Notified, PassBy, Still, kernel, ticks
<1>2. /\ Len(stack) > 1 /\ Len(stack) + 1 <= MaxDepth /\ ~Is("clear")
      /\ Top.p \in Proc \union {None} /\ Len(stack) \in Nat
  BY <1>1, WalkIs, InvParts DEF Is
<1>3. \A q : Held(q) => HeldBelow(q)
  BY <1>1, InvParts DEF Holds, Is
<1>4. Stacked' /\ SetsBorn' /\ ~Telling(Top') /\ \A q : HeldBelow(q) => Held(q)'
  <2>1. CASE Notified
    BY <1>1, <1>2, <2>1, Popped DEF Notified, MayPop
  <2>2. CASE PassBy
    <3>1. PICK f : f = At("walk", Cdr(Top.p))
      OBVIOUS
    <3>2. Top.p \in Proc /\ GoTo(f)
      BY <1>2, <2>2, <3>1 DEF PassBy
    <3>3. Cdr(Top.p) \in Proc \union {None}
      BY <3>2, InvParts, CdrIs
    <3>4. Fits(f, Len(stack)) /\ Born(f) /\ ~Telling(f)
      BY <1>2, <3>1, <3>3, WalkFits
    <3> QED
      BY <1>1, <1>2, <3>2, <3>4, Gone
  <2> QED
    BY <2>1, <2>2
<1> QED
  BY <1>1, <1>3, <1>4, StillIs, QuietKeeps

LEMMA WaitNeverTells ==
  ASSUME NEW f, f.at \in WaitPlaces
  PROVE  ~Telling(f) /\ f.at # "lisp" /\ f.at # "clear" /\ \A q : ~Holds(f, q)
BY DEF Telling, WaitPlaces, Holds

(* A waiting frame goes on to another place.                               *)
LEMMA WaitGoes ==
  ASSUME Inv, Top.at \in WaitPlaces, NEW place \in WaitPlaces, NEW set \in SUBSET Proc,
         \A q \in set : life[q] # "unborn", GoTo(Placed(Top, place, set)), LifeGoesOn,
         Names(Top, place)
  PROVE  /\ Stacked' /\ SetsBorn' /\ ~Telling(Top')
         /\ \A q : Held(q) => Held(q)'
<1>1. PICK f : f = Placed(Top, place, set)
  OBVIOUS
<1>2. Fits(f, Len(stack)) /\ f.at = place /\ f.set = set
  BY <1>1, TopPlaced
<1>3. Born(f) /\ ~Telling(f) /\ ~Is("clear") /\ \A q : Held(q) => HeldBelow(q)
  BY <1>2, WaitNeverTells, InvParts DEF Born, Is
<1>4. Stacked' /\ SetsBorn' /\ Top' = f /\ \A q : HeldBelow(q) => Held(q)'
  BY <1>1, <1>2, <1>3, Gone
<1> QED
  BY <1>3, <1>4

LEMMA WaitGoesSame ==
  ASSUME Inv, Top.at \in WaitPlaces, NEW place \in WaitPlaces, Place(place), LifeGoesOn,
         Names(Top, place)
  PROVE  /\ Stacked' /\ SetsBorn' /\ ~Telling(Top')
         /\ \A q : Held(q) => Held(q)'
<1>1. PICK set \in SUBSET Proc : set = Top.set /\ \A q \in set : life[q] # "unborn"
  BY TopWaits
<1>2. GoTo(Placed(Top, place, set))
  BY <1>1, TopPlacedSame DEF Place
<1> QED
  BY <1>1, <1>2, WaitGoes

LEMMA WaitEnds ==
  ASSUME Inv, Top.at \in WaitPlaces, Top.kbd = FALSE, Pop, LifeGoesOn
  PROVE  /\ Stacked' /\ SetsBorn' /\ ~Telling(Top')
         /\ \A q : Held(q) => Held(q)'
<1>1. Len(stack) > 1 /\ ~Is("clear") /\ \A q : Held(q) => HeldBelow(q)
  BY TopWaits, WaitNeverTells, InvParts DEF Is
<1>2. Stacked' /\ SetsBorn' /\ ~Telling(Top') /\ \A q : HeldBelow(q) => Held(q)'
  BY <1>1, Popped DEF MayPop
<1> QED
  BY <1>1, <1>2

LEMMA WaitTopMoves ==
  ASSUME Inv, WaitTop, LifeGoesOn
  PROVE  /\ Stacked' /\ SetsBorn' /\ ~Telling(Top')
         /\ \A q : Held(q) => Held(q)'
<1>1. /\ Top.at = "top" /\ Top.at \in WaitPlaces /\ "check" \in WaitPlaces
      /\ "status" \in WaitPlaces /\ Names(Top, "check")
  BY DEF WaitTop, Is, WaitPlaces, Names
<1>2. CASE Top.kbd = TRUE /\ CallFrom("check", At("walk", First(alist)))
  <2>1. PICK n \in Nat : n = Len(stack) + 1 /\ n > 1 /\ n + 1 <= MaxDepth
    <3>1. Len(stack) \in Nat \ {0} /\ Len(stack) + 2 <= MaxDepth /\ MaxDepth \in Nat
      BY <1>1, <1>2, TopWaits, InvParts
    <3> QED
      BY <3>1
  <2>2. PICK f : f = At("walk", First(alist))
    OBVIOUS
  <2>3. First(alist) \in Proc \union {None}
    BY InvParts, FirstIs DEF Listed
  <2>4. Fits(f, n) /\ Born(f) /\ ~Telling(f)
    BY <2>1, <2>2, <2>3, WalkFits
  <2>5. PICK set \in SUBSET Proc : set = Top.set /\ \A q \in set : life[q] # "unborn"
    BY <1>1, TopWaits
  <2>6. PICK g : g = Going(Top, "check")
    OBVIOUS
  <2>7. g = Placed(Top, "check", set)
    BY <1>1, <2>5, <2>6, TopPlacedSame DEF Going
  <2>8. Fits(g, Len(stack)) /\ g.at = "check" /\ g.set = set /\ Beneath(g)
    BY <1>1, <2>7, TopPlaced
  <2>9. Born(g) /\ Under(f, g) /\ ~Is("clear") /\ \A q : Held(q) => HeldBelow(q)
    BY <1>1, <2>5, <2>8, InvParts, WaitNeverTells DEF Born, Under, Is
  <2>10. Calls(f, g) /\ Fits(f, Len(stack) + 1)
    BY <1>2, <2>1, <2>2, <2>4, <2>6 DEF CallFrom, Calls, Going
  <2>11. Stacked' /\ SetsBorn' /\ Top' = f /\ \A q : HeldBelow(q) => Held(q)'
    BY <2>4, <2>8, <2>9, <2>10, Called
  <2> QED
    BY <2>4, <2>9, <2>11
<1>3. CASE Place("check")
  BY <1>1, <1>3, WaitGoesSame
<1>4. CASE Top.p # None /\ Place("status")
  <2>1. Names(Top, "status")
    BY <1>1, <1>4, TopWaits DEF Names
  <2> QED
    BY <1>1, <1>4, <2>1, WaitGoesSame
<1>5. Top.kbd \in BOOLEAN
  BY <1>1, TopWaits
<1> QED
  BY <1>2, <1>3, <1>4, <1>5 DEF WaitTop

LEMMA WaitCheckMoves ==
  ASSUME Inv, WaitCheck, LifeGoesOn
  PROVE  /\ Stacked' /\ SetsBorn' /\ ~Telling(Top')
         /\ \A q : Held(q) => Held(q)'
<1>1. /\ Top.at = "check" /\ Top.at \in WaitPlaces /\ "sleep" \in WaitPlaces
      /\ Names(Top, "sleep")
  BY DEF WaitCheck, Is, WaitPlaces, Names
<1>2. CASE Top.p # None /\ Pop
  BY <1>1, <1>2, TopWaits, WaitEnds
<1>3. CASE GoTo([Top EXCEPT !.at = "sleep", !.set = input_wait_mask])
  <2>1. PICK set \in SUBSET Proc : set = input_wait_mask /\ \A q \in set : life[q] # "unborn"
    BY DEF Inv, Data, Unborn
  <2>2. GoTo(Placed(Top, "sleep", set))
    BY <1>3, <2>1 DEF Placed
  <2> QED
    BY <1>1, <2>1, <2>2, WaitGoes
<1> QED
  BY <1>2, <1>3 DEF WaitCheck

LEMMA WokenMoves ==
  ASSUME Inv, Woken, LifeGoesOn
  PROVE  /\ Stacked' /\ SetsBorn' /\ ~Telling(Top')
         /\ \A q : Held(q) => Held(q)'
<1>1. /\ Top.at = "sleep" /\ Top.at \in WaitPlaces /\ "scan" \in WaitPlaces
      /\ "top" \in WaitPlaces /\ Names(Top, "scan") /\ Names(Top, "top")
  BY DEF Woken, Is, WaitPlaces, Names
<1>2. \A q \in Top.set : q \in Proc /\ life[q] # "unborn"
  BY <1>1, TopWaits
<1>3. PICK ready : ready = {p \in Top.set : Readable(p)}
  OBVIOUS
<1>4. CASE GoTo([Top EXCEPT !.at = "scan", !.set = ready])
  <2>1. ready \in SUBSET Proc /\ \A q \in ready : life[q] # "unborn"
    BY <1>2, <1>3
  <2>2. GoTo(Placed(Top, "scan", ready))
    BY <1>4 DEF Placed
  <2> QED
    BY <1>1, <2>1, <2>2, WaitGoes
<1>5. CASE Top.now = TRUE /\ Pop
  <2>1. Top.kbd = FALSE
    BY <1>1, <1>5, TopWaits
  <2> QED
    BY <1>1, <1>5, <2>1, WaitEnds
<1>6. CASE GoTo([Top EXCEPT !.at = "top", !.set = {}])
  <2>1. PICK set \in SUBSET Proc : set = {}
    OBVIOUS
  <2>2. GoTo(Placed(Top, "top", set)) /\ \A q \in set : life[q] # "unborn"
    BY <1>6, <2>1 DEF Placed
  <2> QED
    BY <1>1, <2>2, WaitGoes
<1>7. Top.now \in BOOLEAN
  BY <1>1, TopWaits
<1> QED
  BY <1>3, <1>4, <1>5, <1>6, <1>7 DEF Woken

LEMMA KeyMoves ==
  ASSUME Inv, Key, LifeGoesOn
  PROVE  /\ Stacked' /\ SetsBorn' /\ ~Telling(Top')
         /\ \A q : Held(q) => Held(q)'
<1>1. Top.at = "sleep" /\ Top.at \in WaitPlaces /\ GoTo(Lisp)
  BY DEF Key, Is, WaitPlaces
<1>2. PICK n \in Nat : n = Len(stack) /\ n <= MaxDepth
  <2>1. Len(stack) \in Nat /\ Len(stack) + 1 <= MaxDepth /\ MaxDepth \in Nat
    BY <1>1, TopWaits, InvParts
  <2> QED
    BY <2>1
<1>3. Fits(Lisp, n) /\ Lisp.at = "lisp" /\ Born(Lisp)
  BY <1>2, LispFits
<1>4. ~Is("clear") /\ \A q : Held(q) => HeldBelow(q)
  BY <1>1, WaitNeverTells, InvParts DEF Is
<1>5. Stacked' /\ SetsBorn' /\ Top' = Lisp /\ \A q : HeldBelow(q) => Held(q)'
  BY <1>1, <1>2, <1>3, <1>4, Gone
<1>6. ~Telling(Top')
  BY <1>3, <1>5 DEF Telling
<1> QED
  BY <1>4, <1>5, <1>6

LEMMA ScannedMoves ==
  ASSUME Inv, Scanned, LifeGoesOn
  PROVE  /\ Stacked' /\ SetsBorn' /\ ~Telling(Top')
         /\ \A q : Held(q) => Held(q)'
<1>1. /\ Top.at \in WaitPlaces /\ "top" \in WaitPlaces /\ Place("top") /\ Names(Top, "top")
  BY DEF Scanned, Is, WaitPlaces, Names
<1> QED
  BY <1>1, WaitGoesSame

LEMMA WaitKeeps ==
  ASSUME Inv, Lasting, WaitTop \/ WaitCheck \/ Woken \/ Key \/ Scanned
  PROVE  Inv'
<1>1. Still /\ LifeGoesOn /\ UNCHANGED <<blocked, news, sentinel, ops>>
  BY StillIs DEF WaitTop, WaitCheck, Woken, Key, Scanned, Still, kernel, ticks
<1>2. /\ Stacked' /\ SetsBorn' /\ ~Telling(Top')
      /\ \A q : Held(q) => Held(q)'
  BY <1>1, WaitTopMoves, WaitCheckMoves, WokenMoves, KeyMoves, ScannedMoves
<1> QED
  BY <1>1, <1>2, StillIs, QuietKeeps
-----------------------------------------------------------------------------
(* The conversion of a stored status, in its two steps.                    *)
LEMMA ConvertKeeps ==
  ASSUME Inv, NEW p \in Proc, raw_status[p] # None, Convert(p), ops' \in 0 .. MaxOps,
         UNCHANGED <<kernel, blocked, cells, raw_status, ticks, channels, sentinel>>
  PROVE  /\ Data' /\ Listed' /\ Dead' /\ Unborn' /\ LifeGoesOn
         /\ \A q \in Proc : DrainedAt(q) => DrainedAt(q)'
<1>1. UNCHANGED <<life, mute, unreported, output, unsent, blocked, alist, behind, raw_status,
                  changed, news, infd, input_wait_mask, sentinel>>
  BY DEF kernel, cells, ticks, channels
<1>2. raw_status[p] \in {"stop", "exit"} /\ status' = [status EXCEPT ![p] = raw_status[p]]
  BY DEF Inv, Data, Convert
<1>3. \A q \in Proc : status'[q] = status[q] \/ (q = p /\ status'[q] = raw_status[q])
  BY <1>2 DEF Inv, Data
<1>4. Data' /\ Listed'
  BY <1>1, <1>2 DEF Inv, Data, Ended, Listed
<1>5. Dead'
  BY <1>1, <1>2, <1>3 DEF Inv, Dead, Ended
<1>6. Unborn'
  BY <1>1, <1>3 DEF Inv, Unborn
<1>7. \A q \in Proc : DrainedAt(q) => DrainedAt(q)'
  BY <1>1, <1>2, <1>3 DEF DrainedAt, Ended
<1> QED
  BY <1>1, <1>4, <1>5, <1>6, <1>7 DEF LifeGoesOn

LEMMA ProcessStatusKeeps ==
  ASSUME Inv, Lasting, NEW p \in Proc, ProcessStatus(p)
  PROVE  Inv'
<1>1. /\ Operation /\ Room /\ Push(At("clear", p)) /\ raw_status[p] # None /\ Convert(p)
      /\ UNCHANGED <<kernel, blocked, cells, raw_status, ticks, channels, sentinel>>
  BY DEF ProcessStatus
<1>2. /\ Data' /\ Listed' /\ Dead' /\ Unborn' /\ LifeGoesOn
  BY <1>1, OperationIs, ConvertKeeps
<1>3. PICK f : f = At("clear", p)
  OBVIOUS
<1>4. Fits(f, Len(stack) + 1) /\ f.at = "clear" /\ f.p = p /\ Born(f)
  <2>1. PICK n \in Nat : n = Len(stack) + 1 /\ n > 1 /\ n <= MaxDepth
    BY <1>1, OperationIs, InvParts
  <2>2. Fits(f, n) /\ f.at = "clear" /\ f.p = p /\ Born(f)
    BY <1>3, <2>1, LeafFits
  <2> QED
    BY <2>1, <2>2
<1>5. /\ Stacked' /\ SetsBorn' /\ Top' = f /\ stack'[2] = Top
      /\ \A q : Held(q) => Held(q)'
  BY <1>1, <1>2, <1>3, <1>4, OperationIs, LispIs, Pushed
<1>6. Drained'
  <2>1. Top.at = "lisp"
    BY <1>1, OperationIs DEF Is
  <2> QED
    BY <1>4, <1>5, <2>1 DEF Drained, Is
<1>7. Marked'
  BY <1>1, <1>5 DEF Inv, Marked, ticks, Lasting
<1> QED
  BY <1>2, <1>5, <1>6, <1>7 DEF Inv

LEMMA WaitStatusKeeps ==
  ASSUME Inv, Lasting, WaitStatus
  PROVE  Inv'
<1>1. /\ Top.at = "status" /\ Top.at \in WaitPlaces /\ "check" \in WaitPlaces
      /\ UNCHANGED <<kernel, blocked, cells, raw_status, ticks, channels, sentinel, ops>>
  BY DEF WaitStatus, Is, WaitPlaces
<1>2. CASE Place("check") /\ UNCHANGED status
  <2>1. Still /\ LifeGoesOn /\ UNCHANGED <<blocked, news, sentinel, ops>>
    BY <1>1, <1>2, StillIs DEF Still, kernel, ticks
  <2>2. /\ Stacked' /\ SetsBorn' /\ ~Telling(Top')
        /\ \A q : Held(q) => Held(q)'
    BY <1>1, <1>2, <2>1, WaitGoesSame DEF Names
  <2> QED
    BY <2>1, <2>2, StillIs, QuietKeeps
<1>3. CASE raw_status[Top.p] # None /\ Convert(Top.p) /\ CallFrom("check", At("clear", Top.p))
  <2>1. PICK p \in Proc : p = Top.p
    BY <1>1, InvParts DEF Fits, Names
  <2>2. /\ Data' /\ Listed' /\ Dead' /\ Unborn' /\ LifeGoesOn
    BY <1>1, <1>3, <2>1, StillIs, ConvertKeeps
  <2>3. PICK f : f = At("clear", p)
    OBVIOUS
  <2>4. Fits(f, Len(stack) + 1) /\ f.at = "clear" /\ f.p = p /\ Born(f)
    <3>1. PICK n \in Nat : n = Len(stack) + 1 /\ n > 1 /\ n <= MaxDepth
      BY <1>1, TopWaits, InvParts
    <3>2. Fits(f, n) /\ f.at = "clear" /\ f.p = p /\ Born(f)
      BY <2>3, <3>1, LeafFits
    <3> QED
      BY <3>1, <3>2
  <2>5. PICK set \in SUBSET Proc : set = Top.set /\ \A q \in set : life[q] # "unborn"
    BY <1>1, TopWaits
  <2>6. PICK g : g = Going(Top, "check")
    OBVIOUS
  <2>7. g = Placed(Top, "check", set) /\ Names(Top, "check")
    BY <1>1, <2>5, <2>6, TopPlacedSame DEF Going, Names
  <2>8. Fits(g, Len(stack)) /\ g.at = "check" /\ g.set = set /\ Beneath(g)
    BY <1>1, <2>7, TopPlaced
  <2>9. Born(g) /\ Under(f, g) /\ ~Is("clear") /\ \A q : Held(q) => HeldBelow(q)
    BY <1>1, <2>5, <2>8, InvParts, WaitNeverTells DEF Born, Under, Is
  <2>10. Calls(f, g)
    BY <1>3, <2>1, <2>3, <2>6 DEF CallFrom, Calls, Going
  <2>11. /\ Stacked' /\ SetsBorn' /\ Top' = f /\ stack'[2] = g
         /\ \A q : HeldBelow(q) => Held(q)'
    BY <2>2, <2>4, <2>8, <2>9, <2>10, Called
  <2>12. Drained'
    BY <2>4, <2>8, <2>11 DEF Drained, Is
  <2>13. Marked'
    BY <1>1, <2>9, <2>11 DEF Inv, Marked, ticks, Lasting
  <2> QED
    BY <2>2, <2>11, <2>12, <2>13 DEF Inv
<1> QED
  BY <1>2, <1>3 DEF WaitStatus

LEMMA TellKeeps ==
  ASSUME Inv, Lasting, Tell
  PROVE  Inv'
<1>1. /\ Is("tell") /\ Top.at = "tell"
      /\ UNCHANGED <<kernel, blocked, cells, raw_status, ticks, channels, sentinel, ops>>
  BY DEF Tell, Is
<1>2. /\ Len(stack) > 1 /\ Len(stack) + 1 <= MaxDepth /\ Len(stack) \in Nat /\ ~Is("clear")
      /\ Top.p \in Proc
  BY <1>1, WalkIs, InvParts DEF Is
<1>3. PICK p \in Proc : p = Top.p
  BY <1>2
<1>4. PICK g : g = Going(Top, "report")
  OBVIOUS
<1>5. /\ Fits(g, Len(stack)) /\ g.at = "report" /\ g.p = p /\ Born(g)
  <2>1. PICK t : t = Top
    OBVIOUS
  <2>2. PICK n \in Nat \ {0} : n = Len(stack) /\ Fits(t, n)
    BY <2>1, InvParts
  <2>3. Fits(g, n) /\ g.at = "report" /\ g.p = t.p
    BY <1>1, <1>4, <2>1, <2>2, PlacedFits DEF Going
  <2>4. Born(g)
    BY <2>3 DEF Born, WaitPlaces
  <2> QED
    BY <1>3, <2>1, <2>2, <2>3, <2>4
<1>6. DrainedAt(p)
  BY <1>1, <1>3 DEF Inv, Drained
<1>7. \A q : Held(q) => HeldBelow(q) \/ q = p
  BY <1>3, InvParts DEF Holds
<1>8. CASE raw_status[p] = None /\ GoTo(g) /\ UNCHANGED status
  <2>1. UNCHANGED <<life, mute, unreported, output, unsent, blocked, alist, behind, status,
                    raw_status, changed, news, infd, input_wait_mask, sentinel, ops>>
    BY <1>1, <1>8 DEF kernel, cells, ticks, channels
  <2>2. LifeGoesOn /\ Data' /\ Listed' /\ Dead' /\ Unborn'
    BY <2>1 DEF LifeGoesOn, Inv, Data, Listed, Dead, Unborn
  <2>3. Stacked' /\ SetsBorn' /\ Top' = g /\ \A q : HeldBelow(q) => Held(q)'
    BY <1>2, <1>5, <1>8, <2>2, Gone
  <2>4. Drained'
    <3>1. DrainedAt(p)'
      BY <1>6, <2>1 DEF DrainedAt
    <3> QED
      BY <1>5, <2>3, <3>1 DEF Drained, Is
  <2>5. Marked'
    BY <1>7, <1>8, <2>1, <2>3 DEF Inv, Marked, Lasting
  <2> QED
    BY <2>2, <2>3, <2>4, <2>5 DEF Inv
<1>9. CASE raw_status[p] # None /\ Convert(p) /\ CallFrom("report", At("clear", p))
  <2>1. /\ Data' /\ Listed' /\ Dead' /\ Unborn' /\ LifeGoesOn
        /\ \A q \in Proc : DrainedAt(q) => DrainedAt(q)'
    BY <1>1, <1>9, StillIs, ConvertKeeps
  <2>2. PICK f : f = At("clear", p)
    OBVIOUS
  <2>3. Fits(f, Len(stack) + 1) /\ f.at = "clear" /\ f.p = p /\ Born(f)
    <3>1. PICK n \in Nat : n = Len(stack) + 1 /\ n > 1 /\ n <= MaxDepth
      BY <1>2
    <3>2. Fits(f, n) /\ f.at = "clear" /\ f.p = p /\ Born(f)
      BY <2>2, <3>1, LeafFits
    <3> QED
      BY <3>1, <3>2
  <2>4. Under(f, g) /\ Holds(f, p)
    BY <1>5, <2>3 DEF Under, Holds
  <2>5. Calls(f, g)
    BY <1>4, <1>9, <2>2 DEF CallFrom, Calls, Going
  <2>6. /\ Stacked' /\ SetsBorn' /\ Top' = f /\ stack'[2] = g
        /\ \A q : HeldBelow(q) \/ Holds(f, q) => Held(q)'
    BY <1>2, <1>5, <2>1, <2>3, <2>4, <2>5, Called
  <2>7. Drained'
    <3>1. DrainedAt(p)'
      BY <1>6, <2>1
    <3> QED
      BY <1>5, <2>3, <2>6, <3>1 DEF Drained, Is
  <2>8. Marked'
    BY <1>1, <1>7, <2>4, <2>6 DEF Inv, Marked, ticks, Lasting
  <2> QED
    BY <2>1, <2>6, <2>7, <2>8 DEF Inv
<1> QED
  BY <1>3, <1>4, <1>8, <1>9 DEF Tell, Place, Going

LEMMA ClearKeeps ==
  ASSUME Inv, Lasting, Clear
  PROVE  Inv'
<1>1. /\ Is("clear") /\ Top.at = "clear" /\ Pop
      /\ raw_status' = [raw_status EXCEPT ![Top.p] = None]
      /\ UNCHANGED <<life, mute, unreported, output, unsent, blocked, alist, behind, status,
                     changed, news, infd, input_wait_mask, sentinel, ops>>
  BY DEF Clear, Is, kernel, cells, ticks, channels
<1>2. PICK p \in Proc : p = Top.p
  BY <1>1, DrainedIsOf
<1>3. MayPop
  BY <1>1 DEF MayPop, WaitPlaces
<1>4. /\ Stacked' /\ \A q : HeldBelow(q) => Held(q)'
      /\ Len(stack) > 1 /\ Top' = stack[2] /\ Used' \subseteq Used
  BY <1>1, <1>3, InvParts, PopKeeps
<1>5. \A q \in Proc : raw_status'[q] = IF q = p THEN None ELSE raw_status[q]
  BY <1>1, <1>2 DEF Inv, Data
<1>6. Data' /\ Listed' /\ Dead' /\ Unborn'
  <2>1. Data' /\ Listed'
    BY <1>1, <1>2 DEF Inv, Data, Listed
  <2>2. Dead' /\ Unborn'
    BY <1>1, <1>5, NoneDiffers DEF Inv, Dead, Unborn
  <2> QED
    BY <2>1, <2>2
<1>7. SetsBorn'
  BY <1>1, <1>4 DEF Inv, SetsBorn
<1>8. Marked'
  <2>1. \A q : Held(q) => HeldBelow(q) \/ q = p
    BY <1>2, InvParts DEF Holds
  <2>2. ASSUME NEW q \in Proc \ lost', raw_status'[q] # None
        PROVE  q \in changed' \/ Held(q)'
    <3>1. q # p /\ raw_status[q] # None
      BY <1>5, <2>2
    <3>2. q \in lost \/ q \in changed \/ Held(q)
      BY <3>1 DEF Inv, Marked
    <3>3. CASE Held(q)
      BY <1>4, <2>1, <3>1, <3>3
    <3> QED
      BY <1>1, <2>2, <3>2, <3>3 DEF Lasting
  <2> QED
    BY <2>2 DEF Marked
<1>9. Drained'
  <2>1. stack[2].at = "report" \/ Beneath(stack[2])
    BY <1>4, InvParts DEF Stacked
  <2>2. CASE Beneath(stack[2])
    BY <1>4, <2>2, DrainedElsewhere DEF Beneath
  <2>3. CASE stack[2].at = "report"
    <3>1. PICK q \in Proc : q = stack[2].p
      BY <1>4, <2>3, DrainedIsOf, InvParts
    <3>2. DrainedAt(q)
      BY <1>1, <1>4, <2>3, <3>1, InvParts DEF Drained
    <3>3. DrainedAt(q)'
      BY <1>1, <1>5, <3>2, NoneDiffers DEF DrainedAt
    <3> QED
      BY <1>4, <2>3, <3>1, <3>3 DEF Drained, Is
  <2> QED
    BY <2>1, <2>2, <2>3
<1> QED
  BY <1>4, <1>6, <1>7, <1>8, <1>9 DEF Inv
-----------------------------------------------------------------------------
(* The operations on processes.                                            *)
LEMMA StartKeeps ==
  ASSUME Inv, Lasting, NEW p \in Proc, Start(p)
  PROVE  Inv'
<1>1. /\ Is("lisp") /\ life[p] = "unborn" /\ life' = [life EXCEPT ![p] = "run"]
      /\ alist' = <<p>> \o alist /\ infd' = [infd EXCEPT ![p] = TRUE]
      /\ input_wait_mask' = input_wait_mask \union {p} /\ blocked' \in BOOLEAN
      /\ UNCHANGED <<mute, unreported, output, unsent, behind, status, raw_status, changed, news,
                     sentinel, stack, ops>>
  BY DEF Start, ticks
<1>2. Data' /\ Listed'
  BY <1>1 DEF Inv, Data, Listed
<1>3. \A q \in Proc : (q = p /\ life'[q] = "run") \/ (q # p /\ life'[q] = life[q] /\ infd'[q] = infd[q])
  BY <1>1 DEF Inv, Data
<1>4. status[p] = "run" /\ raw_status[p] = None
  BY <1>1 DEF Inv, Unborn
<1>5. Dead'
  BY <1>1, <1>3, <1>4, NoneDiffers DEF Inv, Dead, Ended
<1>6. Unborn'
  BY <1>1, <1>3 DEF Inv, Unborn
<1>7. Stacked' /\ Top' = Top
  BY <1>1 DEF Inv, Stacked, Is, Top
<1>8. SetsBorn'
  <2>1. Used' = Used
    BY <1>1 DEF Used
  <2>2. \A q \in Proc : life[q] # "unborn" => life'[q] # "unborn"
    BY <1>3
  <2>3. \A f \in Used : f.at \in WaitPlaces => f.set \subseteq Proc
    BY InvParts, FrameParts
  <2> QED
    BY <2>1, <2>2, <2>3 DEF Inv, SetsBorn
<1>9. Marked'
  BY <1>1 DEF Inv, Marked, Held, Lasting
<1>10. Drained'
  BY <1>1, <1>7, DrainedElsewhere DEF Is
<1> QED
  BY <1>2, <1>5, <1>6, <1>7, <1>8, <1>9, <1>10 DEF Inv

LEMMA SettlesMarked ==
  ASSUME Inv, Lasting, NEW p \in Proc, raw_status' = [raw_status EXCEPT ![p] = None],
         changed \subseteq changed',
         \A q \in Proc \ lost' : q # p /\ Held(q) => Held(q)' \/ q \in changed'
  PROVE  Marked' /\ raw_status' \in [Proc -> {None, "stop", "exit"}]
<1>1. raw_status' \in [Proc -> {None, "stop", "exit"}]
      /\ \A q \in Proc : raw_status'[q] = IF q = p THEN None ELSE raw_status[q]
  BY DEF Inv, Data
<1>2. Marked'
  BY <1>1 DEF Inv, Marked, Lasting
<1> QED
  BY <1>1, <1>2

LEMMA TwoPushed ==
  ASSUME Inv, Is("lisp"), Room, LifeGoesOn, NEW p \in Proc, NEW place \in {"delete", "continue"},
         stack' = <<At("walk", First(alist)), At(place, p)>> \o stack
  PROVE  /\ Stacked' /\ SetsBorn' /\ Top'.at = "walk"
         /\ \A q : Held(q) => Held(q)'
<1>1. PICK f : f = At("walk", First(alist))
  OBVIOUS
<1>2. PICK g : g = At(place, p)
  OBVIOUS
<1>3. Len(stack) \in Nat \ {0} /\ Len(stack) + 4 <= MaxDepth /\ MaxDepth \in Nat
  BY InvParts DEF Room
<1>4. First(alist) \in Proc \union {None}
  BY InvParts, FirstIs DEF Listed
<1>5. Fits(f, Len(stack) + 2) /\ f.at = "walk" /\ Born(f)
  <2>1. PICK n \in Nat : n = Len(stack) + 2 /\ n > 1 /\ n + 1 <= MaxDepth
    BY <1>3
  <2>2. Fits(f, n) /\ f.at = "walk" /\ Born(f)
    BY <1>1, <1>4, <2>1, WalkFits
  <2> QED
    BY <2>1, <2>2
<1>6. Fits(g, Len(stack) + 1) /\ g.at = place /\ Born(g) /\ Beneath(g)
  <2>1. PICK n \in Nat : n = Len(stack) + 1 /\ n > 1 /\ n <= MaxDepth
    BY <1>3
  <2>2. Fits(g, n) /\ g.at = place /\ Born(g)
    BY <1>2, <2>1, LeafFits
  <2>3. Beneath(g)
    BY <2>2 DEF Beneath
  <2> QED
    BY <2>1, <2>2, <2>3
<1>7. stack' = <<f, g>> \o stack /\ Beneath(Top)
  BY <1>1, <1>2, LispIs
<1>8. /\ Stacked' /\ Top' = f /\ Used' \subseteq Used \union {f, g}
      /\ \A q : Held(q) => Held(q)'
  BY <1>5, <1>6, <1>7, InvParts, PushTwoKeeps
<1>9. \A h \in {f, g} : h.at \in WaitPlaces => h.set \subseteq Proc /\ \A q \in h.set : life[q] # "unborn"
  BY <1>5, <1>6 DEF Born
<1>10. SetsBorn'
  BY <1>8, <1>9, InvParts, SetsBornFrom DEF LifeGoesOn
<1> QED
  BY <1>5, <1>8, <1>10

LEMMA ContinueKeeps ==
  ASSUME Inv, Lasting, NEW p \in Proc, Continue(p)
  PROVE  Inv'
<1>1. /\ Operation /\ Room /\ infd[p] /\ p \notin Net
      /\ raw_status' = [raw_status EXCEPT ![p] = None]
      /\ status' = [status EXCEPT ![p] = "run"]
      /\ changed' = changed \union {p} /\ news' = TRUE
      /\ stack' = <<At("walk", First(alist)), At("continue", p)>> \o stack
      /\ UNCHANGED <<life, mute, unreported, output, unsent, blocked, alist, behind, infd,
                     input_wait_mask, sentinel>>
  BY DEF Continue, Mark, kernel, cells, channels
<1>2. Data' /\ Listed'
  BY <1>1, OperationIs DEF Inv, Data, Listed
<1>3. \A q \in Proc : /\ raw_status'[q] = (IF q = p THEN None ELSE raw_status[q])
                      /\ status'[q] = (IF q = p THEN "run" ELSE status[q])
  BY <1>1 DEF Inv, Data
<1>4. Dead'
  BY <1>1, <1>3, NoneDiffers DEF Inv, Dead, Ended
<1>5. Unborn'
  BY <1>1, <1>3 DEF Inv, Unborn
<1>6. /\ Stacked' /\ SetsBorn' /\ Top'.at = "walk" /\ \A q : Held(q) => Held(q)'
  BY <1>1, OperationIs, TwoPushed DEF LifeGoesOn
<1>7. Marked'
  BY <1>1, <1>6, SettlesMarked
<1>8. Drained'
  BY <1>6, DrainedElsewhere
<1> QED
  BY <1>2, <1>4, <1>5, <1>6, <1>7, <1>8 DEF Inv

LEMMA DeleteKeeps ==
  ASSUME Inv, Lasting, NEW p \in Proc, Delete(p)
  PROVE  Inv'
<1>1. /\ Operation /\ Room /\ life[p] # "unborn"
      /\ raw_status' = [raw_status EXCEPT ![p] = None]
      /\ UNCHANGED <<mute, output, unsent, blocked, sentinel>>
  BY DEF Delete
<1>2. \A q \in Proc : raw_status'[q] = IF q = p THEN None ELSE raw_status[q]
  BY <1>1 DEF Inv, Data
<1>3. CASE p \notin Net /\ infd[p]
  <2>1. /\ life' = [life EXCEPT ![p] = "dead"]
        /\ unreported' \subseteq unreported \union {p}
        /\ changed' = changed \union {p} /\ news' = TRUE
        /\ status' = [status EXCEPT ![p] = "signal"]
        /\ stack' = <<At("walk", First(alist)), At("delete", p)>> \o stack
        /\ UNCHANGED <<alist, behind, infd, input_wait_mask>>
    BY <1>3 DEF Delete, Die, Mark, cells, channels
  <2>2. Data' /\ Listed'
    BY <1>1, <2>1, OperationIs DEF Inv, Data, Listed, Ended
  <2>3. \A q \in Proc : /\ life'[q] = (IF q = p THEN "dead" ELSE life[q])
                        /\ status'[q] = (IF q = p THEN "signal" ELSE status[q])
    BY <2>1 DEF Inv, Data
  <2>4. Dead'
    BY <1>2, <2>1, <2>3 DEF Inv, Dead
  <2>5. Unborn' /\ LifeGoesOn
    BY <1>2, <2>1, <2>3 DEF Inv, Unborn, LifeGoesOn
  <2>6. /\ Stacked' /\ SetsBorn' /\ Top'.at = "walk" /\ \A q : Held(q) => Held(q)'
    BY <1>1, <2>1, <2>5, OperationIs, TwoPushed
  <2>7. Marked'
    BY <1>1, <2>1, <2>6, SettlesMarked
  <2>8. Drained'
    BY <2>6, DrainedElsewhere
  <2> QED
    BY <2>2, <2>4, <2>5, <2>6, <2>7, <2>8 DEF Inv
<1>4. CASE ~(p \notin Net /\ infd[p])
  <2>1. /\ Remove(p) /\ UNCHANGED <<life, unreported, stack>>
        /\ \/ changed' = changed \union {p} /\ news' = TRUE /\ status' = [status EXCEPT ![p] = "closed"]
           \/ UNCHANGED <<changed, news, status>>
    BY <1>4 DEF Delete, Mark, ticks
  <2>2. /\ Listed'
        /\ infd' = [infd EXCEPT ![p] = FALSE] /\ input_wait_mask' = input_wait_mask \ {p}
    BY <2>1, InvParts, RemoveKeeps
  <2>3. Data'
    BY <1>1, <2>1, <2>2, OperationIs DEF Inv, Data, Ended
  <2>4. \A q \in Proc : q = p \/ (status'[q] = status[q] /\ infd'[q] = infd[q])
    BY <2>1, <2>2 DEF Inv, Data
  <2>5. ~infd'[p]
    BY <2>2 DEF Inv, Data
  <2>6. Dead'
    BY <1>2, <2>1, <2>4, <2>5 DEF Inv, Dead
  <2>7. Unborn'
    BY <1>1, <1>2, <2>1, <2>2, <2>4 DEF Inv, Unborn
  <2>8. /\ Stacked' /\ SetsBorn' /\ Top' = Top /\ \A q : Held(q) => Held(q)'
    BY <2>1 DEF Inv, Stacked, SetsBorn, Used, Top, Held, Is
  <2>9. Marked'
    BY <1>1, <2>1, <2>8, SettlesMarked
  <2>10. Drained'
    BY <1>1, <2>8, OperationIs, DrainedElsewhere DEF Is
  <2> QED
    BY <2>2, <2>3, <2>6, <2>7, <2>8, <2>9, <2>10 DEF Inv
<1> QED
  BY <1>3, <1>4

LEMMA FinishDeleteKeeps ==
  ASSUME Inv, Lasting, FinishDelete
  PROVE  Inv'
<1>1. /\ Top.at = "delete" /\ Remove(Top.p) /\ Pop
      /\ UNCHANGED <<life, mute, unreported, output, unsent, blocked, status, raw_status,
                     changed, news, sentinel, ops>>
  BY DEF FinishDelete, Is, kernel, ticks
<1>2. PICK p \in Proc : p = Top.p
  BY <1>1, InvParts DEF Fits, WaitPlaces
<1>3. /\ Listed'
      /\ infd' = [infd EXCEPT ![p] = FALSE] /\ input_wait_mask' = input_wait_mask \ {p}
  BY <1>1, <1>2, InvParts, RemoveKeeps
<1>4. \A q \in Proc : infd'[q] => infd[q]
  BY <1>3 DEF Inv, Data
<1>5. Data' /\ Dead' /\ Unborn' /\ LifeGoesOn
  BY <1>1, <1>3, <1>4 DEF Inv, Data, Dead, Unborn, LifeGoesOn
<1>6. Top.at # "lisp" /\ Top.at \notin WaitPlaces /\ ~Is("clear") /\ \A q : Held(q) => HeldBelow(q)
  BY <1>1, InvParts DEF WaitPlaces, Is, Holds
<1>7. Stacked' /\ SetsBorn' /\ ~Telling(Top') /\ \A q : HeldBelow(q) => Held(q)'
  BY <1>1, <1>5, <1>6, Popped DEF MayPop
<1>8. Marked' /\ Drained'
  BY <1>1, <1>6, <1>7, DrainedElsewhere DEF Inv, Marked, Telling, Lasting
<1> QED
  BY <1>3, <1>5, <1>7, <1>8 DEF Inv

LEMMA FinishContinueKeeps ==
  ASSUME Inv, Lasting, FinishContinue
  PROVE  Inv'
<1>1. /\ Top.at = "continue" /\ Pop
      /\ \/ UNCHANGED <<life, unreported>>
         \/ /\ life[Top.p] = "stop" /\ life' = [life EXCEPT ![Top.p] = "run"]
            /\ unreported' = unreported \ {Top.p}
      /\ UNCHANGED <<mute, output, unsent, blocked, alist, behind, status, raw_status, changed,
                     news, infd, input_wait_mask, sentinel, ops>>
  BY DEF FinishContinue, Is, cells, ticks, channels
<1>2. PICK p \in Proc : p = Top.p
  BY <1>1, InvParts DEF Fits, WaitPlaces
<1>3. \A q \in Proc : life'[q] = life[q] \/ (life[q] = "stop" /\ life'[q] = "run")
  BY <1>1, <1>2 DEF Inv, Data
<1>4. Data' /\ Listed' /\ unreported' \subseteq unreported
  BY <1>1, <1>2 DEF Inv, Data, Listed
<1>5. Dead' /\ Unborn' /\ LifeGoesOn
  BY <1>1, <1>3, <1>4 DEF Inv, Dead, Unborn, LifeGoesOn
<1>6. Top.at # "lisp" /\ Top.at \notin WaitPlaces /\ ~Is("clear") /\ \A q : Held(q) => HeldBelow(q)
  BY <1>1, InvParts DEF WaitPlaces, Is, Holds
<1>7. Stacked' /\ SetsBorn' /\ ~Telling(Top') /\ \A q : HeldBelow(q) => Held(q)'
  BY <1>1, <1>5, <1>6, Popped DEF MayPop
<1>8. Marked' /\ Drained'
  BY <1>1, <1>6, <1>7, DrainedElsewhere DEF Inv, Marked, Telling, Lasting
<1> QED
  BY <1>4, <1>5, <1>7, <1>8 DEF Inv

LEMMA BrokenPipeKeeps ==
  ASSUME Inv, Lasting, BrokenPipe
  PROVE  Inv'
<1>1. /\ Top.at = "write" /\ life[Top.p] = "dead"
      /\ raw_status' = [raw_status EXCEPT ![Top.p] = None]
      /\ status' = [status EXCEPT ![Top.p] = "closed"]
      /\ changed' = changed \union {Top.p} /\ news' = TRUE
      /\ infd' = [infd EXCEPT ![Top.p] = FALSE] /\ input_wait_mask' = input_wait_mask \ {Top.p}
      /\ Pop \/ Leave
      /\ UNCHANGED <<life, mute, unreported, output, unsent, blocked, alist, behind, sentinel, ops>>
  BY DEF BrokenPipe, Is, Mark, Deactivate, kernel, cells
<1>2. PICK p \in Proc : p = Top.p
  BY <1>1, InvParts DEF Fits, WaitPlaces
<1>3. Data' /\ Listed'
  BY <1>1, <1>2 DEF Inv, Data, Listed, Ended
<1>4. \A q \in Proc : q = p \/ (status'[q] = status[q] /\ infd'[q] = infd[q] /\ raw_status'[q] = raw_status[q])
  BY <1>1, <1>2 DEF Inv, Data
<1>5. Dead' /\ Unborn' /\ LifeGoesOn
  BY <1>1, <1>2, <1>4 DEF Inv, Dead, Unborn, LifeGoesOn
<1>6. /\ Top.at # "lisp" /\ Top.at \notin WaitPlaces /\ ~Is("clear")
      /\ \A q : Held(q) => HeldBelow(q)
  BY <1>1, InvParts DEF WaitPlaces, Is, Holds
<1>7. /\ Stacked' /\ SetsBorn' /\ ~Telling(Top')
      /\ \A q \in Proc \ lost' : Held(q) => Held(q)' \/ q \in changed'
  <2>1. CASE Pop
    BY <1>1, <1>5, <1>6, <2>1, Popped DEF MayPop
  <2>2. CASE Leave
    BY <1>6, <2>2, Thrown, LeaveLoses DEF Leave
  <2> QED
    BY <1>1, <2>1, <2>2
<1>8. Marked'
  BY <1>1, <1>2, <1>7, SettlesMarked
<1>9. Drained'
  BY <1>7, DrainedElsewhere DEF Telling
<1> QED
  BY <1>3, <1>5, <1>7, <1>8, <1>9 DEF Inv
-----------------------------------------------------------------------------
(* The walk.                                                               *)
LEMMA WalkGoes ==
  ASSUME Inv, Top.at \in {"drain", "tell", "report"} \/ (Top.at = "walk" /\ Top.p # None),
         NEW place \in {"drain", "tell", "report", "restore"}, NEW g, g = Going(Top, place)
  PROVE  /\ Fits(g, Len(stack)) /\ g.at = place /\ g.p = Top.p /\ g.p \in Proc /\ Born(g)
         /\ Len(stack) + 1 <= MaxDepth
<1>1. PICK t : t = Top
  OBVIOUS
<1>2. PICK n \in Nat \ {0} : n = Len(stack) /\ Fits(t, n)
  BY <1>1, InvParts
<1>3. Fits(g, n) /\ g.at = place /\ g.p = t.p /\ g.p \in Proc /\ n + 1 <= MaxDepth
  BY <1>1, <1>2, PlacedFits DEF Going
<1>4. Born(g)
  BY <1>3 DEF Born, WaitPlaces
<1> QED
  BY <1>1, <1>2, <1>3, <1>4

LEMMA VisitKeeps ==
  ASSUME Inv, Lasting, Visit
  PROVE  Inv'
<1>1. /\ Is("walk") /\ Top.at = "walk" /\ Top.p # None
      /\ changed' = changed \ {Top.p} /\ Place(NextToVisit(Top.p))
      /\ UNCHANGED <<life, mute, unreported, output, unsent, blocked, alist, behind, status,
                     raw_status, news, infd, input_wait_mask, sentinel, ops>>
  BY DEF Visit, Is, kernel, cells, channels
<1>2. PICK p \in Proc : p = Top.p
  BY <1>1, WalkIs
<1>3. PICK place \in {"drain", "tell"} : place = NextToVisit(p) /\ (place = "tell" => ~infd[p])
  BY DEF NextToVisit
<1>4. PICK g : g = Going(Top, place)
  OBVIOUS
<1>5. Fits(g, Len(stack)) /\ g.at = place /\ g.p = p /\ Born(g)
  BY <1>1, <1>2, <1>4, WalkGoes
<1>6. GoTo(g) /\ ~Is("clear")
  BY <1>1, <1>2, <1>3, <1>4 DEF Place, Going, Is
<1>7. Data' /\ Listed' /\ Dead' /\ Unborn' /\ LifeGoesOn
  BY <1>1 DEF Inv, Data, Listed, Dead, Unborn, LifeGoesOn
<1>8. Stacked' /\ SetsBorn' /\ Top' = g /\ \A q : HeldBelow(q) \/ Holds(g, q) => Held(q)'
  BY <1>5, <1>6, <1>7, Gone
<1>9. Holds(g, p) /\ \A q : Held(q) => HeldBelow(q)
  BY <1>1, <1>5, InvParts DEF Holds
<1>10. Marked'
  BY <1>1, <1>2, <1>8, <1>9 DEF Inv, Marked, Lasting
<1>11. Drained'
  BY <1>1, <1>3, <1>5, <1>8 DEF Drained, DrainedAt, Is
<1> QED
  BY <1>7, <1>8, <1>10, <1>11 DEF Inv

(* What a read does to the stack: the frame goes on, under a filter's if   *)
(* the process has one.                                                    *)
LEMMA ReadMoves ==
  ASSUME Inv, NEW p \in Proc, NEW g, Fits(g, Len(stack)), Born(g), ~Telling(g), ~Is("clear"),
         p \in Filtered => Beneath(g), ReadOutput(p, g), LifeGoesOn, Len(stack) + 1 <= MaxDepth
  PROVE  /\ Stacked' /\ SetsBorn' /\ ~Telling(Top')
         /\ \A q : HeldBelow(q) \/ Holds(g, q) => Held(q)'
<1>1. PICK t \in Seq(Frame) : t = Tail(stack)
  <2>1. stack \in Seq(Frame) /\ Len(stack) >= 1
    BY InvParts DEF Stacked
  <2>2. stack # <<>>
    BY <2>1
  <2> QED
    BY <2>1, <2>2, HeadTailProperties
<1>2. g \in Frame
  BY DEF Fits
<1>3. CASE p \notin Filtered
  <2>1. stack' = <<>> \o <<g>> \o t
    BY <1>1, <1>3 DEF ReadOutput
  <2>2. GoTo(g)
    BY <1>1, <1>2, <2>1 DEF GoTo
  <2> QED
    BY <2>2, Gone
<1>4. CASE p \in Filtered
  <2>1. PICK n \in Nat : n = Len(stack) + 1 /\ n <= MaxDepth
    BY InvParts
  <2>2. PICK f : f = Lisp
    OBVIOUS
  <2>3. Fits(f, n) /\ Born(f) /\ f.at = "lisp" /\ \A q : ~Holds(f, q)
    BY <2>1, <2>2, LispFits
  <2>4. f \in Frame
    BY <2>3 DEF Fits
  <2>5. stack' = <<f>> \o <<g>> \o t
    BY <1>1, <1>4, <2>2 DEF ReadOutput
  <2>6. Calls(f, g) /\ Under(f, g) /\ Fits(f, Len(stack) + 1)
    BY <1>1, <1>2, <1>4, <2>1, <2>3, <2>4, <2>5 DEF Calls, Under
  <2>7. Stacked' /\ SetsBorn' /\ Top' = f /\ \A q : HeldBelow(q) \/ Holds(g, q) => Held(q)'
    BY <2>3, <2>6, Called
  <2> QED
    BY <2>3, <2>7 DEF Telling
<1> QED
  BY <1>3, <1>4

LEMMA ReadKeeps ==
  ASSUME Inv, NEW p \in Proc, output[p] > 0, output' = [output EXCEPT ![p] = @ - 1],
         UNCHANGED <<life, mute, unreported, unsent, blocked, cells, status, raw_status, ticks,
                     channels, sentinel, ops>>
  PROVE  Data' /\ Listed' /\ Dead' /\ Unborn' /\ LifeGoesOn
<1>1. UNCHANGED <<life, mute, unreported, unsent, blocked, alist, behind, status, raw_status,
                  changed, news, infd, input_wait_mask, sentinel, ops>>
  BY DEF cells, ticks, channels
<1>2. output \in [Proc -> Nat] /\ unsent \in [Proc -> Nat] /\ output[p] + unsent[p] <= MaxOutput
  BY DEF Inv, Data
<1>3. PICK n \in Nat : n = output[p] - 1
  BY <1>2
<1>4. output' = [output EXCEPT ![p] = n]
  BY <1>3
<1>5. output' \in [Proc -> Nat] /\ n + unsent[p] <= MaxOutput
  BY <1>2, <1>3, <1>4, BoundsAssumption
<1>6. \A q \in Proc : output'[q] + unsent[q] <= MaxOutput
  BY <1>2, <1>4, <1>5 DEF Inv, Data
<1>7. Data'
  BY <1>1, <1>5, <1>6 DEF Inv, Data
<1> QED
  BY <1>1, <1>7 DEF Inv, Listed, Dead, Unborn, LifeGoesOn

LEMMA DrainKeeps ==
  ASSUME Inv, Lasting, Drain
  PROVE  Inv'
<1>1. /\ Top.at = "drain" /\ Is("drain")
      /\ UNCHANGED <<life, mute, unreported, unsent, blocked, cells, status, raw_status, ticks,
                     channels, sentinel, ops>>
  BY DEF Drain, Is
<1>2. PICK p \in Proc : p = Top.p
  BY <1>1, WalkIs DEF Is
<1>3. /\ ~Is("clear") /\ Len(stack) + 1 <= MaxDepth
      /\ \A q : Held(q) => HeldBelow(q) \/ q = p
  BY <1>1, <1>2, WalkIs, InvParts DEF Holds
<1>4. CASE ReadsMore(p) /\ ReadOutput(p, Top)
  <2>1. infd[p] = TRUE /\ output[p] > 0 /\ output' = [output EXCEPT ![p] = @ - 1]
    BY <1>4 DEF ReadsMore, ReadOutput, Inv, Data
  <2>2. Data' /\ Listed' /\ Dead' /\ Unborn' /\ LifeGoesOn
    BY <1>1, <2>1, ReadKeeps
  <2>3. PICK g : g = Top
    OBVIOUS
  <2>4. /\ Fits(g, Len(stack)) /\ Born(g) /\ ~Telling(g) /\ Holds(g, p)
        /\ p \in Filtered => Beneath(g)
    BY <1>1, <1>2, <2>3, InvParts DEF Born, Telling, Holds, Beneath, WaitPlaces
  <2>5. /\ Stacked' /\ SetsBorn' /\ ~Telling(Top')
        /\ \A q : HeldBelow(q) \/ Holds(g, q) => Held(q)'
    BY <1>3, <1>4, <2>2, <2>3, <2>4, ReadMoves
  <2>6. Marked'
    BY <1>1, <1>3, <2>4, <2>5 DEF Inv, Marked, ticks, Lasting
  <2>7. Drained'
    BY <2>5, DrainedElsewhere DEF Telling
  <2> QED
    BY <2>2, <2>5, <2>6, <2>7 DEF Inv
<1>5. CASE ~ReadsMore(p) /\ Place("tell") /\ UNCHANGED output
  <2>1. UNCHANGED <<life, mute, unreported, output, unsent, blocked, alist, behind, status,
                    raw_status, changed, news, infd, input_wait_mask, sentinel, ops>>
    BY <1>1, <1>5 DEF cells, ticks, channels
  <2>2. Data' /\ Listed' /\ Dead' /\ Unborn' /\ LifeGoesOn
    BY <2>1 DEF Inv, Data, Listed, Dead, Unborn, LifeGoesOn
  <2>3. PICK g : g = Going(Top, "tell")
    OBVIOUS
  <2>4. Fits(g, Len(stack)) /\ g.at = "tell" /\ g.p = p /\ Born(g)
    BY <1>1, <1>2, <2>3, WalkGoes
  <2>5. GoTo(g) /\ Holds(g, p)
    BY <1>5, <2>3, <2>4 DEF Place, Going, Holds
  <2>6. Stacked' /\ SetsBorn' /\ Top' = g /\ \A q : HeldBelow(q) \/ Holds(g, q) => Held(q)'
    BY <1>3, <2>2, <2>4, <2>5, Gone
  <2>7. Marked'
    BY <1>3, <2>1, <2>5, <2>6 DEF Inv, Marked, Lasting
  <2>8. Drained'
    <3>1. infd[p] => output[p] = 0
      <4>1. output[p] \in Nat
        BY DEF Inv, Data
      <4> QED
        BY <1>5, <4>1 DEF ReadsMore
    <3>2. DrainedAt(p)'
      BY <2>1, <3>1 DEF DrainedAt
    <3> QED
      BY <2>4, <2>6, <3>2 DEF Drained, Is
  <2> QED
    BY <2>2, <2>6, <2>7, <2>8 DEF Inv
<1> QED
  BY <1>2, <1>4, <1>5 DEF Drain

(* Where the terminal is read, the drain goes on under the filter.         *)
LEMMA DrainTerminalKeeps ==
  ASSUME Inv, Lasting, DrainTerminal
  PROVE  Inv'
<1>1. /\ Top.at = "drain" /\ Is("drain") /\ Top.p \in Filtered /\ Push(Lisp)
      /\ Still /\ LifeGoesOn /\ UNCHANGED <<blocked, news, sentinel, ops>>
  BY StillIs DEF DrainTerminal, Is, Push, Still, kernel, ticks
<1>2. PICK n \in Nat : n = Len(stack) + 1 /\ n <= MaxDepth
  BY <1>1, WalkIs, InvParts
<1>3. PICK f : f = Lisp
  OBVIOUS
<1>4. Fits(f, n) /\ f.at = "lisp" /\ Born(f)
  BY <1>2, <1>3, LispFits
<1>5. Fits(f, Len(stack) + 1) /\ Push(f) /\ Beneath(Top)
  BY <1>1, <1>2, <1>3, <1>4 DEF Beneath
<1>6. Stacked' /\ SetsBorn' /\ Top' = f /\ \A q : Held(q) => Held(q)'
  BY <1>1, <1>4, <1>5, Pushed
<1>7. ~Telling(Top')
  BY <1>4, <1>6 DEF Telling
<1> QED
  BY <1>1, <1>6, <1>7, StillIs, QuietKeeps

(* The end of the step that goes to the next process of the list.          *)
LEMMA WalkGoesOn ==
  ASSUME Inv, Top.at \in {"report", "restore"}, GoTo(At("walk", Cdr(Top.p))), LifeGoesOn
  PROVE  /\ Stacked' /\ SetsBorn' /\ ~Telling(Top')
         /\ \A q : HeldBelow(q) => Held(q)'
<1>1. PICK f : f = At("walk", Cdr(Top.p))
  OBVIOUS
<1>2. /\ Len(stack) > 1 /\ Len(stack) + 1 <= MaxDepth /\ ~Is("clear") /\ Len(stack) \in Nat
      /\ Top.p \in Proc
  BY WalkIs, InvParts DEF Is
<1>3. Cdr(Top.p) \in Proc \union {None}
  BY <1>2, InvParts, CdrIs
<1>4. Fits(f, Len(stack)) /\ Born(f) /\ ~Telling(f)
  BY <1>1, <1>2, <1>3, WalkFits
<1> QED
  BY <1>1, <1>2, <1>4, Gone

LEMMA RestoreKeeps ==
  ASSUME Inv, Lasting, Restore
  PROVE  Inv'
<1>1. /\ Top.at = "restore" /\ Is("restore") /\ GoTo(At("walk", Cdr(Top.p)))
      /\ sentinel' = [sentinel EXCEPT ![Top.p] = TRUE] /\ UNCHANGED <<blocked, news, ops>> /\ Still
  BY DEF Restore, Is, Still, kernel, ticks
<1>2. LifeGoesOn /\ sentinel' \in [Proc -> BOOLEAN]
  BY <1>1, StillIs
<1>3. /\ Stacked' /\ SetsBorn' /\ ~Telling(Top')
      /\ \A q : HeldBelow(q) => Held(q)'
  BY <1>1, <1>2, WalkGoesOn
<1>4. \A q : Held(q) => HeldBelow(q)
  BY <1>1, InvParts DEF Holds
<1> QED
  BY <1>1, <1>2, <1>3, <1>4, StillIs, QuietKeeps

LEMMA ReportData ==
  ASSUME Inv, Report
  PROVE  /\ Data' /\ Listed' /\ Dead' /\ Unborn' /\ LifeGoesOn
         /\ UNCHANGED <<raw_status, changed>>
<1>1. /\ Is("report") /\ Top.at = "report"
      /\ sentinel' = [sentinel EXCEPT ![Top.p] = FALSE]
      /\ UNCHANGED <<life, mute, unreported, output, unsent, blocked, status, raw_status, changed,
                     news, ops>>
  BY DEF Report, Is, kernel, ticks
<1>2. PICK p \in Proc : p = Top.p
  BY <1>1, DrainedIsOf
<1>3. \/ UNCHANGED <<alist, behind, infd, input_wait_mask>>
      \/ Remove(p)
      \/ Deactivate(p) /\ UNCHANGED <<alist, behind>>
  BY <1>2 DEF Report, cells, channels
<1>4. /\ Listed' /\ infd' \in [Proc -> BOOLEAN] /\ input_wait_mask' \subseteq input_wait_mask
      /\ \A q \in Proc : infd'[q] => infd[q]
  <2>1. CASE UNCHANGED <<alist, behind, infd, input_wait_mask>>
    BY <2>1 DEF Inv, Listed, Data
  <2>2. CASE Remove(p)
    <3>1. /\ Listed'
          /\ infd' = [infd EXCEPT ![p] = FALSE] /\ input_wait_mask' = input_wait_mask \ {p}
      BY <2>2, InvParts, RemoveKeeps
    <3> QED
      BY <3>1 DEF Inv, Data
  <2>3. CASE Deactivate(p) /\ UNCHANGED <<alist, behind>>
    BY <2>3 DEF Inv, Listed, Data, Deactivate
  <2> QED
    BY <1>3, <2>1, <2>2, <2>3
<1>5. Data'
  BY <1>1, <1>4 DEF Inv, Data
<1> QED
  BY <1>1, <1>4, <1>5 DEF Inv, Dead, Unborn, LifeGoesOn

LEMMA ReportKeeps ==
  ASSUME Inv, Lasting, Report
  PROVE  Inv'
<1>1. /\ Data' /\ Listed' /\ Dead' /\ Unborn' /\ LifeGoesOn
      /\ UNCHANGED <<raw_status, changed>>
  BY ReportData
<1>2. /\ Top.at = "report" /\ Is("report")
      /\ CallFrom("restore", Lisp) \/ GoTo(At("walk", Cdr(Top.p)))
  BY DEF Report, Is
<1>3. \A q : Held(q) => HeldBelow(q)
  BY <1>2, InvParts DEF Holds
<1>4. /\ Stacked' /\ SetsBorn' /\ ~Telling(Top')
      /\ \A q : HeldBelow(q) => Held(q)'
  <2>1. CASE GoTo(At("walk", Cdr(Top.p)))
    BY <1>1, <1>2, <2>1, WalkGoesOn
  <2>2. CASE CallFrom("restore", Lisp)
    <3>1. PICK g : g = Going(Top, "restore")
      OBVIOUS
    <3>2. Fits(g, Len(stack)) /\ g.at = "restore" /\ Born(g) /\ Len(stack) + 1 <= MaxDepth
      BY <1>2, <3>1, WalkGoes
    <3>3. PICK n \in Nat : n = Len(stack) + 1 /\ n <= MaxDepth
      BY <3>2, InvParts
    <3>4. PICK f : f = Lisp
      OBVIOUS
    <3>5. Fits(f, n) /\ Born(f) /\ f.at = "lisp"
      BY <3>3, <3>4, LispFits
    <3>6. Calls(f, g) /\ Under(f, g) /\ ~Is("clear")
      BY <1>2, <2>2, <3>1, <3>2, <3>4 DEF CallFrom, Calls, Going, Under, Beneath, Is
    <3>7. Stacked' /\ SetsBorn' /\ Top' = f /\ \A q : HeldBelow(q) => Held(q)'
      BY <1>1, <3>2, <3>3, <3>5, <3>6, Called
    <3> QED
      BY <3>5, <3>7 DEF Telling
  <2> QED
    BY <1>2, <2>1, <2>2
<1>5. Marked' /\ Drained'
  BY <1>1, <1>3, <1>4, DrainedElsewhere DEF Inv, Marked, Telling, Lasting
<1> QED
  BY <1>1, <1>4, <1>5 DEF Inv

LEMMA ScanKeeps ==
  ASSUME Inv, Lasting, NEW p \in Proc, Scan(p)
  PROVE  Inv'
<1>1. /\ Top.at = "scan" /\ Top.at \in WaitPlaces /\ p \in Top.set
      /\ UNCHANGED <<life, mute, unreported, unsent, blocked, cells, raw_status, sentinel, ops>>
  BY DEF Scan, Is, WaitPlaces
<1>2. PICK now \in BOOLEAN : now = (Top.now \/ p = Top.p)
  OBVIOUS
<1>3. PICK set \in SUBSET Proc : set = Top.set \ {p} /\ \A q \in set : life[q] # "unborn"
  BY <1>1, TopWaits
<1>4. NowFits(Top, now) /\ Names(Top, "scan") /\ Names(Top, "top") /\ life[p] # "unborn"
  BY <1>1, <1>2, TopWaits, NoneAssumption DEF NowFits, Names
<1>5. ~Is("clear") /\ \A q : Held(q) => HeldBelow(q)
  BY <1>1, WaitNeverTells, InvParts DEF Is
<1>6. PICK next : next = [Top EXCEPT !.set = @ \ {p}, !.now = @ \/ p = Top.p]
  OBVIOUS
<1>7. /\ next = Moved(Top, "scan", set, now)
      /\ [next EXCEPT !.at = "top", !.set = {}] = Moved(Top, "top", {}, now)
  BY <1>1, <1>2, <1>3, <1>6, InvParts DEF Moved, Frame, Places, WaitPlaces
<1>8. "top" \in WaitPlaces /\ "scan" \in WaitPlaces
  BY DEF WaitPlaces
<1>9. CASE output[p] > 0 /\ ReadOutput(p, [next EXCEPT !.at = "top", !.set = {}])
           /\ UNCHANGED <<status, ticks, channels>>
  <2>1. output' = [output EXCEPT ![p] = @ - 1]
    BY <1>9 DEF ReadOutput
  <2>2. Data' /\ Listed' /\ Dead' /\ Unborn' /\ LifeGoesOn
    BY <1>1, <1>9, <2>1, ReadKeeps
  <2>3. PICK empty \in SUBSET Proc : empty = {}
    OBVIOUS
  <2>4. PICK g : g = Moved(Top, "top", empty, now)
    OBVIOUS
  <2>5. Fits(g, Len(stack)) /\ g.at = "top" /\ g.set = empty /\ Beneath(g)
    BY <1>1, <1>4, <1>8, <2>4, TopMoves
  <2>6. Born(g) /\ ~Telling(g)
    BY <2>3, <2>5 DEF Born, Telling
  <2>7. ReadOutput(p, g) /\ Len(stack) + 1 <= MaxDepth
    BY <1>1, <1>7, <1>9, <2>3, <2>4, TopWaits
  <2>8. /\ Stacked' /\ SetsBorn' /\ ~Telling(Top')
        /\ \A q : HeldBelow(q) => Held(q)'
    BY <1>5, <2>2, <2>5, <2>6, <2>7, ReadMoves
  <2>9. Marked' /\ Drained'
    BY <1>1, <1>5, <1>9, <2>8, DrainedElsewhere DEF Inv, Marked, Telling, ticks, Lasting
  <2> QED
    BY <2>2, <2>8, <2>9 DEF Inv
<1>10. CASE GoTo(next) /\ UNCHANGED output
            /\ \/ /\ Mark(p) /\ Deactivate(p)
                  /\ status' = [status EXCEPT ![p] = IF @ = "run" THEN "closed" ELSE @]
               \/ UNCHANGED <<status, ticks, channels>>
  <2>1. /\ changed \subseteq changed' /\ changed' \subseteq changed \union {p} /\ news' \in BOOLEAN
        /\ status' \in [Proc -> {"run", "stop"} \union Ended] /\ infd' \in [Proc -> BOOLEAN]
        /\ input_wait_mask' \subseteq input_wait_mask
    <3>1. CASE /\ Mark(p) /\ Deactivate(p)
               /\ status' = [status EXCEPT ![p] = IF @ = "run" THEN "closed" ELSE @]
      <4>1. PICK new : new = IF status[p] = "run" THEN "closed" ELSE status[p]
        OBVIOUS
      <4>2. new \in {"run", "stop"} \union Ended /\ status' = [status EXCEPT ![p] = new]
        BY <3>1, <4>1 DEF Inv, Data, Ended
      <4>3. status' \in [Proc -> {"run", "stop"} \union Ended]
        BY <4>2 DEF Inv, Data
      <4> QED
        BY <3>1, <4>3 DEF Inv, Data, Mark, Deactivate
    <3>2. CASE UNCHANGED <<status, ticks, channels>>
      BY <3>2 DEF Inv, Data, ticks, channels
    <3> QED
      BY <1>10, <3>1, <3>2
  <2>2. \A q \in Proc : \/ status'[q] = status[q] /\ infd'[q] = infd[q]
                        \/ q = p /\ ~infd'[q]
    BY <1>10 DEF Inv, Data, Deactivate, channels
  <2>3. Data' /\ Listed'
    BY <1>1, <1>10, <2>1 DEF Inv, Data, Listed, cells
  <2>4. Dead' /\ Unborn' /\ LifeGoesOn
    BY <1>1, <1>4, <2>1, <2>2 DEF Inv, Dead, Unborn, LifeGoesOn
  <2>5. Fits(next, Len(stack)) /\ next.at = "scan" /\ next.set = set
    BY <1>1, <1>4, <1>7, <1>8, TopMoves
  <2>6. Born(next) /\ ~Telling(next)
    BY <1>3, <2>5 DEF Born, Telling
  <2>7. Stacked' /\ SetsBorn' /\ Top' = next /\ \A q : HeldBelow(q) => Held(q)'
    BY <1>5, <1>10, <2>4, <2>5, <2>6, Gone
  <2>8. Marked' /\ Drained'
    BY <1>1, <1>5, <2>1, <2>6, <2>7, DrainedElsewhere DEF Inv, Marked, Telling, Lasting
  <2> QED
    BY <2>3, <2>4, <2>7, <2>8 DEF Inv
<1> QED
  BY <1>6, <1>9, <1>10 DEF Scan
-----------------------------------------------------------------------------
LEMMA InvInit ==
  ASSUME Init
  PROVE  Inv
<1>1. PICK f : f = Lisp
  OBVIOUS
<1>2. Fits(f, 1) /\ f.at = "lisp" /\ Born(f) /\ \A q : ~Holds(f, q)
  BY <1>1, BoundsAssumption, LispFits
<1>3. f \in Frame /\ stack = <<f>>
  BY <1>1, <1>2 DEF Fits, Init
<1>4. stack \in Seq(Frame) /\ Len(stack) = 1 /\ stack[1] = f
  BY <1>3
<1>5. Stacked
  BY <1>2, <1>4 DEF Stacked
<1>6. SetsBorn /\ Drained
  BY <1>2, <1>4 DEF SetsBorn, Used, Born, Drained, Is, Top
<1>7. Data /\ Listed
  <2>1. /\ life \in [Proc -> {"unborn", "run", "stop", "dead"}]
        /\ status \in [Proc -> {"run", "stop"} \union Ended]
        /\ raw_status \in [Proc -> {None, "stop", "exit"}]
        /\ infd \in [Proc -> BOOLEAN] /\ sentinel \in [Proc -> BOOLEAN]
        /\ behind \in [Proc -> Proc \union {None}]
    BY DEF Init
  <2>2. /\ output \in [Proc -> Nat] /\ unsent \in [Proc -> Nat]
        /\ \A p \in Proc : output[p] + unsent[p] <= MaxOutput
    BY BoundsAssumption DEF Init
  <2>3. alist \in Seq(Proc) /\ ops \in 0 .. MaxOps
    BY BoundsAssumption DEF Init
  <2>4. /\ mute \subseteq Proc /\ unreported \subseteq Proc /\ input_wait_mask \subseteq Proc
        /\ changed \subseteq Proc /\ blocked \in BOOLEAN /\ news \in BOOLEAN
    BY DEF Init
  <2> QED
    BY <2>1, <2>2, <2>3, <2>4 DEF Data, Listed
<1>8. Marked /\ Dead /\ Unborn
  BY DEF Init, Marked, Dead, Unborn
<1> QED
  BY <1>5, <1>6, <1>7, <1>8 DEF Inv

(* What every step does to lost.                                           *)
LEMMA LostLasts ==
  ASSUME Inv, [Next]_vars
  PROVE  Lasting /\ (lost \subseteq Proc => lost' \subseteq Proc)
<1>1. Frames({"drain"}) \subseteq Proc
  <2> SUFFICES ASSUME NEW i \in 1 .. Len(stack), stack[i].at = "drain" PROVE stack[i].p \in Proc
    BY InvParts DEF Frames, Stacked
  <2>1. Fits(stack[i], Len(stack) - i + 1)
    BY InvParts DEF Stacked
  <2> QED
    BY <2>1 DEF Fits, WaitPlaces
<1>2. CASE lost' = lost
  BY <1>2 DEF Lasting
<1>3. CASE \E p \in Proc : lost' = lost \ {p} /\ changed' = changed \union {p}
  BY <1>3 DEF Lasting
<1>4. CASE Leave
  BY <1>1, <1>4 DEF Lasting, Leave
<1>5. CASE UNCHANGED vars
  BY <1>2, <1>5 DEF vars, ticks
<1>6. CASE LispStep
  BY <1>2, <1>3, <1>4, <1>6 DEF LispStep, Start, CannotFork, Error, SetSentinel, ProcessStatus,
     Delete, Continue, SendString, Accept, Throw, Return, Mark, ticks
<1>7. CASE Inside
  <2>1. CASE BrokenPipe
    <3>1. Top.p \in Proc
      BY <2>1, InvParts DEF BrokenPipe, Is, Fits, WaitPlaces
    <3> QED
      BY <1>3, <1>4, <2>1, <3>1 DEF BrokenPipe, Mark
  <2> QED
    BY <1>2, <1>7, <2>1 DEF Inside, Clear, FinishDelete, FinishContinue, Written, ticks
<1>8. CASE Notify
  BY <1>2, <1>8 DEF Notify, Notified, PassBy, Visit, Drain, DrainTerminal, Tell, Report, Restore, ticks
<1>9. CASE Waiting \/ Key
  BY <1>2, <1>3, <1>9 DEF Waiting, WaitTop, WaitStatus, WaitCheck, Woken, Scanned, Scan, Key, Mark,
     ticks
<1>10. CASE \E q \in Proc : Send(q) \/ Exit(q) \/ Stop(q) \/ CloseOutput(q) \/ Sigchld(q)
  BY <1>2, <1>3, <1>10 DEF Send, Exit, Stop, CloseOutput, Sigchld, Mark, Unchanging, ticks
<1> QED
  BY <1>5, <1>6, <1>7, <1>8, <1>9, <1>10 DEF Next, Emacs

LEMMA InvStep ==
  ASSUME Inv, [Next]_vars
  PROVE  Inv'
<1>0. Lasting
  BY LostLasts
<1>1. CASE UNCHANGED vars
  <2>1. UNCHANGED <<life, mute, unreported, output, unsent, blocked, alist, behind, status,
                    raw_status, changed, news, lost, infd, input_wait_mask, sentinel, stack, ops>>
    BY <1>1 DEF vars, kernel, cells, ticks, channels
  <2> QED
    BY <2>1 DEF Inv, Data, Listed, Stacked, Marked, Drained, Dead, Unborn, SetsBorn, DrainedAt,
                Used, Held, Is, Top
<1>2. CASE LispStep
  BY <1>0, <1>2, StartKeeps, LispKeeps, ProcessStatusKeeps, DeleteKeeps, ContinueKeeps, AcceptKeeps,
     LeavingKeeps DEF LispStep
<1>3. CASE Inside
  BY <1>0, <1>3, ClearKeeps, FinishDeleteKeeps, FinishContinueKeeps, WrittenKeeps, BrokenPipeKeeps
     DEF Inside
<1>4. CASE Notify
  BY <1>0, <1>4, NotifiedKeeps, VisitKeeps, DrainKeeps, DrainTerminalKeeps, TellKeeps, ReportKeeps,
     RestoreKeeps DEF Notify
<1>5. CASE Waiting \/ Key
  BY <1>0, <1>5, WaitKeeps, WaitStatusKeeps, ScanKeeps DEF Waiting
<1>6. CASE \E p \in Proc : Send(p) \/ Exit(p) \/ Stop(p) \/ CloseOutput(p) \/ Sigchld(p)
  BY <1>0, <1>6, KernelKeeps, SigchldKeeps
<1> QED
  BY <1>1, <1>2, <1>3, <1>4, <1>5, <1>6 DEF Next, Emacs

LEMMA InvHolds == Spec => []Inv /\ [](lost \subseteq Proc)
<1>1. Init => Inv /\ lost \subseteq Proc
  BY InvInit DEF Init
<1>2. Inv /\ lost \subseteq Proc /\ [Next]_vars => Inv' /\ (lost \subseteq Proc)'
  BY InvStep, LostLasts
<1> QED
  BY <1>1, <1>2, PTL DEF Spec
-----------------------------------------------------------------------------
(* Every state is of the types declared: no C function is ever called from *)
(* more frames than the bound leaves room for, and no read is of output    *)
(* that has not been sent.                                                 *)
THEOREM TypesAreKept == Spec => []TypeOK
<1>1. Inv /\ lost \subseteq Proc => TypeOK
  <2> SUFFICES ASSUME Inv, lost \subseteq Proc PROVE TypeOK
    OBVIOUS
  <2>1. output \in [Proc -> 0 .. MaxOutput] /\ unsent \in [Proc -> 0 .. MaxOutput]
    <3>1. \A p \in Proc : output[p] \in 0 .. MaxOutput /\ unsent[p] \in 0 .. MaxOutput
      <4>1. ASSUME NEW p \in Proc
            PROVE  output[p] \in 0 .. MaxOutput /\ unsent[p] \in 0 .. MaxOutput
        <5>1. output[p] \in Nat /\ unsent[p] \in Nat /\ output[p] + unsent[p] <= MaxOutput
          BY DEF Inv, Data
        <5> QED
          BY <5>1, BoundsAssumption
      <4> QED
        BY <4>1
    <3> QED
      BY <3>1 DEF Inv, Data
  <2>2. Len(stack) \in 1 .. MaxDepth
    <3>1. PICK n \in Nat \ {0} : n = Len(stack) /\ n + Need(Top) <= MaxDepth
      BY InvParts DEF Fits
    <3>2. Need(Top) \in {0, 1, 2}
      BY DEF Need
    <3> QED
      BY <3>1, <3>2, BoundsAssumption
  <2> QED
    BY <2>1, <2>2 DEF Inv, Data, Listed, Stacked, TypeOK
<1> QED
  BY <1>1, InvHolds, PTL

(* A status that the handler of SIGCHLD has stored is not forgotten before *)
(* it is converted: the process is marked or its frame in the walk runs,   *)
(* unless a filter which that frame called threw out of it (status_notify, *)
(* update_status).                                                         *)
THEOREM NoStatusIsForgotten == Spec => []StoredIsMarked
<1>1. Inv => StoredIsMarked
  <2> SUFFICES ASSUME Inv, NEW p \in Proc, raw_status[p] # None, p \notin changed \union lost
               PROVE  p \in Frames({"drain", "tell", "clear"})
    BY DEF StoredIsMarked
  <2>1. PICK i \in 1 .. Len(stack) : Holds(stack[i], p)
    BY DEF Inv, Marked, Held
  <2>2. i \in DOMAIN stack
    BY DEF Inv, Stacked
  <2> QED
    BY <2>1, <2>2 DEF Holds, Frames
<1> QED
  BY <1>1, InvHolds, PTL

(* While a process is told, only that step closes a channel.               *)
LEMMA OnlyReportCloses ==
  ASSUME Inv, [Next]_vars, NEW p \in Proc, Is("report"), Top.p = p, infd[p], ~infd'[p]
  PROVE  status[p] \in Ended
<1>1. infd' # infd
  OBVIOUS
<1>2. CASE Report
  BY <1>1, <1>2 DEF Report, channels
<1>3. CASE UNCHANGED vars
  BY <1>1, <1>3 DEF vars, channels
<1>4. CASE LispStep
  BY <1>4 DEF LispStep, Start, CannotFork, SetSentinel, ProcessStatus, Delete, Continue, SendString,
              Accept, Throw, Return, Operation, Is
<1>5. CASE Inside
  BY <1>5 DEF Inside, Clear, FinishDelete, FinishContinue, Written, BrokenPipe, Is
<1>6. CASE Notify /\ ~Report
  BY <1>6 DEF Notify, Notified, PassBy, Visit, Drain, DrainTerminal, Tell, Restore, Is
<1>7. CASE Waiting \/ Key
  BY <1>7 DEF Waiting, WaitTop, WaitStatus, WaitCheck, Woken, Scanned, Scan, Key, Is
<1>8. CASE \E q \in Proc : Send(q) \/ Exit(q) \/ Stop(q) \/ CloseOutput(q) \/ Sigchld(q)
  BY <1>1, <1>8 DEF Send, Exit, Stop, CloseOutput, Sigchld, Unchanging, channels
<1> QED
  BY <1>2, <1>3, <1>4, <1>5, <1>6, <1>7, <1>8 DEF Next, Emacs

(* What a process that ended has sent is read before its channel is        *)
(* closed (status_notify, read_process_output).                            *)
THEOREM OutputIsReadFirst == Spec => OutputReadBeforeClosing
<1>1. ASSUME Inv, [Next]_vars, NEW p \in Proc, Is("report"), Top.p = p, infd[p], ~infd'[p],
             p \notin changed
      PROVE  output[p] = 0
  <2>1. DrainedAt(p)
    BY <1>1 DEF Inv, Drained
  <2>2. status[p] \in Ended
    BY <1>1, OnlyReportCloses
  <2> QED
    BY <1>1, <2>1, <2>2 DEF DrainedAt
<1>2. Inv /\ [Next]_vars =>
        \A p \in Proc : Is("report") /\ Top.p = p /\ infd[p] /\ ~infd'[p] /\ p \notin changed
                          => output[p] = 0
  BY <1>1
<1> QED
  BY <1>2, InvHolds, PTL DEF Spec, OutputReadBeforeClosing

(* How a step may change the channels and the mask.                        *)
LEMMA ChannelsChange ==
  ASSUME Inv, [Next]_vars
  PROVE  \/ infd' = infd /\ input_wait_mask' \subseteq input_wait_mask
         \/ \E p \in Proc : Deactivate(p)
         \/ \E p \in Proc : infd' = [infd EXCEPT ![p] = TRUE]
                            /\ input_wait_mask' = input_wait_mask \union {p}
<1>1. CASE UNCHANGED vars
  BY <1>1 DEF vars, channels
<1>2. CASE \E p \in Proc : Delete(p)
  BY <1>2 DEF Delete, Remove, channels
<1>3. CASE LispStep /\ ~\E p \in Proc : Delete(p)
  BY <1>3 DEF LispStep, Start, CannotFork, SetSentinel, ProcessStatus, Continue, SendString,
              Accept, Throw, Return, channels
<1>4. CASE FinishDelete
  <2>1. Top.at = "delete" /\ Remove(Top.p)
    BY <1>4 DEF FinishDelete, Is
  <2>2. Top.p \in Proc
    BY <2>1, InvParts DEF Fits, WaitPlaces
  <2> QED
    BY <2>1, <2>2 DEF Remove
<1>5. CASE BrokenPipe
  <2>1. Top.at = "write" /\ Deactivate(Top.p)
    BY <1>5 DEF BrokenPipe, Is
  <2>2. Top.p \in Proc
    BY <2>1, InvParts DEF Fits, WaitPlaces
  <2> QED
    BY <2>1, <2>2
<1>6. CASE Clear \/ FinishContinue \/ Written
  BY <1>6 DEF Clear, FinishContinue, Written, channels
<1>7. CASE Report
  <2>1. Top.p \in Proc
    BY <1>7, DrainedIsOf DEF Report
  <2> QED
    BY <1>7, <2>1 DEF Report, Remove, channels
<1>8. CASE Notify /\ ~Report
  BY <1>8 DEF Notify, Notified, PassBy, Visit, Drain, DrainTerminal, Tell, Restore, channels
<1>9. CASE Waiting \/ Key
  BY <1>9 DEF Waiting, WaitTop, WaitStatus, WaitCheck, Woken, Scanned, Scan, Key, channels
<1>10. CASE \E q \in Proc : Send(q) \/ Exit(q) \/ Stop(q) \/ CloseOutput(q) \/ Sigchld(q)
  BY <1>10 DEF Send, Exit, Stop, CloseOutput, Sigchld, MaskAfterDeath, Unchanging, channels
<1> QED
  BY <1>1, <1>2, <1>3, <1>4, <1>5, <1>6, <1>7, <1>8, <1>9, <1>10 DEF Next, Emacs, Inside

(* select is never given the channel of a process that is closed: it would *)
(* fail with EBADF, on which Emacs aborts (deactivate_process, the handler *)
(* of SIGCHLD, wait_reading_process_input).                                *)
THEOREM MaskStaysOpen == Spec => []MaskIsOpen
<1>1. Init => MaskIsOpen
  BY DEF Init, MaskIsOpen
<1>2. Inv /\ MaskIsOpen /\ [Next]_vars => MaskIsOpen'
  <2> SUFFICES ASSUME Inv, MaskIsOpen, [Next]_vars PROVE MaskIsOpen'
    OBVIOUS
  <2>1. \/ infd' = infd /\ input_wait_mask' \subseteq input_wait_mask
        \/ \E p \in Proc : Deactivate(p)
        \/ \E p \in Proc : infd' = [infd EXCEPT ![p] = TRUE] /\ input_wait_mask' = input_wait_mask \union {p}
    BY ChannelsChange
  <2> QED
    BY <2>1 DEF MaskIsOpen, Deactivate, Inv, Data
<1> QED
  BY <1>1, <1>2, InvHolds, PTL DEF Spec
=============================================================================
