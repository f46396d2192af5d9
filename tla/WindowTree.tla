----------------------------- MODULE WindowTree -----------------------------
(***************************************************************************)
(* The tree of windows of window.c: splitting, deletion, resizing with its *)
(* cascade of deletions, changes of the screen's size, and the             *)
(* configurations that save-window-excursion and the minibuffer put back.  *)
(*                                                                         *)
(* A window is a number; Minibuf is the minibuffer window, whose prev is   *)
(* the root of the tree.  A combination is a window with children, above   *)
(* each other (in child.v, vchild) or side by side (in child.h, hchild).   *)
(* beg and size give its place on either axis: top and height are those of *)
(* "v", left and width those of "h".  As set_window_height and             *)
(* set_window_width are the same function of two axes, so they are here.   *)
(*                                                                         *)
(* The operators take and return a record s of the four things they        *)
(* change: win, sel (selected_window), level (minibuf_level) and stranded. *)
(*                                                                         *)
(* Commands are given windows on the screen, unless OffScreen.  The code   *)
(* does not look: it takes any window with a buffer, as Lisp may have kept *)
(* one that was deleted, and as the selected window may be (stranded).     *)
(*                                                                         *)
(* Left out: the markers start and pointm of a window, killed buffers, the *)
(* choice of a window by display-buffer, delete-window of a window gone    *)
(* already (unshow_buffer aborts), the Lisp of select-window-hook, which   *)
(* delete-window runs too, and a window-min-height changed while Emacs     *)
(* runs.                                                                   *)
(***************************************************************************)
EXTENDS Integers, Sequences, FiniteSets, SequencesExt

CONSTANTS MaxWindows,    \* bound on the windows in use, the minibuffer's among them
          Screens,       \* the sizes [v, h] the screen may have
          MinHeight, MinWidth,   \* window-min-height, window-min-width
          MaxDelta,      \* bound on the argument of enlarge-window
          MaxSaved,      \* bound on configurations saved within each other
          OffScreen      \* whether commands are given windows that are off the screen

ASSUME WindowConstants ==
  /\ MaxWindows \in Nat /\ MaxWindows > 1
  /\ MinHeight >= 2 /\ MinWidth \in Nat
  /\ \A z \in Screens : z.v > MinHeight /\ z.h >= MinWidth
  /\ OffScreen \in BOOLEAN

VARIABLES win,       \* the windows
          selected,  \* selected_window
          stranded,  \* whether it has gone from the screen, in the two ways known
          level,     \* minibuf_level
          saved,     \* configurations to be put back, the innermost last
          screen     \* screen_height and screen_width

vars == <<win, selected, stranded, level, saved, screen>>

Nil     == 0
Minibuf == 1
Windows == 1..MaxWindows
Axes    == {"v", "h"}
Across(d) == IF d = "v" THEN "h" ELSE "v"

Unused == [next |-> Nil, prev |-> Nil, parent |-> Nil, buffer |-> FALSE,
           child |-> [d \in Axes |-> Nil],
           beg   |-> [d \in Axes |-> 0],  size |-> [d \in Axes |-> 0]]

\* MINSIZE of change_window_height, and the minimum of set_window_height.
Least(d, w) == CASE d = "h" -> MinWidth
                 [] w = Minibuf -> 1
                 [] OTHER -> MinHeight

Root(s) == s.win[Minibuf].prev
Combination(s, w) == \E d \in Axes : s.win[w].child[d] # Nil
FirstChild(s, w) == IF s.win[w].child.h # Nil THEN s.win[w].child.h ELSE s.win[w].child.v

RECURSIVE Inside(_, _, _)
Inside(s, x, w) == x # Nil /\ (x = w \/ Inside(s, s.win[x].parent, w))

-----------------------------------------------------------------------------
\* next-window.  count says whether the minibuffer window is one to stop at.

RECURSIVE FirstLeaf(_, _), After(_, _), NextWindow(_, _, _)
FirstLeaf(s, w) == IF Combination(s, w) THEN FirstLeaf(s, FirstChild(s, w)) ELSE w
After(s, w) ==
  LET p == s.win[w]
  IN  IF p.next # Nil THEN p.next
      ELSE IF p.parent # Nil THEN After(s, p.parent)
      ELSE p.prev
NextWindow(s, w, count) ==
  LET n == FirstLeaf(s, After(s, w))
  IN  IF n = Minibuf /\ ~count THEN NextWindow(s, n, count) ELSE n

-----------------------------------------------------------------------------
\* Replacement and deletion, and the sizes they pass on to the relatives.

\* replace_window: new takes the place of old.
Replaced(s, old, new) ==
  LET o == s.win[old]
      par == IF o.parent = Nil THEN Unused ELSE s.win[o.parent]
  IN  [s EXCEPT !.win = [x \in Windows |->
         CASE x = new ->
                [s.win[x] EXCEPT !.beg = o.beg, !.size = o.size, !.next = o.next,
                                 !.prev = o.prev, !.parent = o.parent]
           [] x # new /\ x = o.next -> [s.win[x] EXCEPT !.prev = new]
           [] x # new /\ x = o.prev -> [s.win[x] EXCEPT !.next = new]
           [] x # new /\ x = o.parent ->
                [par EXCEPT !.child = [d \in Axes |->
                   IF par.child[d] = old THEN new ELSE par.child[d]]]
           [] OTHER -> s.win[x]]]

\* Where a child's edge goes when a combination of old lines becomes one of new.
Scaled(pos, new, old) == (2 * pos * new + old) \div (2 * old)

Unlinked(s, w) ==
  LET p == s.win[w]
  IN  [s EXCEPT !.win = [x \in Windows |->
         CASE x = p.next -> [s.win[x] EXCEPT !.prev = p.prev]
           [] x = p.prev -> [s.win[x] EXCEPT !.next = p.next]
           [] x = p.parent ->
                [s.win[x] EXCEPT !.child = [d \in Axes |->
                   IF s.win[x].child[d] = w THEN p.next ELSE s.win[x].child[d]]]
           [] OTHER -> s.win[x]]]

\* select-window, of any window with a buffer.
Selecting(s, w) == [s EXCEPT !.sel = w, !.stranded = FALSE]

\* delete-window selects another window first if it is the selected one that
\* goes; of a combination it looks only at the window that goes itself, and
\* the selected window inside is stranded.
DeselectedNever(s, w) == s   \* mutant
Deselected(s, w) ==
  IF w = s.sel THEN Selecting(s, NextWindow(s, w, s.level > 0))
  ELSE [s EXCEPT !.stranded = @ \/ Inside(s, s.sel, w)]

RECURSIVE SetSize(_, _, _, _, _), Placed(_, _, _, _, _, _, _, _),
          Pruned(_, _, _), Alongside(_, _, _, _, _, _), Deleted(_, _)

\* The siblings use the space of the window that went.
Stretched(s, d, par, by) ==
  IF s.win[par].child[d] = Nil THEN s
  ELSE SetSize([s EXCEPT !.win[par].size[d] = @ - by], d, par, s.win[par].size[d], TRUE)

Deleted(s, w) ==
  LET p   == s.win[w]
      par == p.parent
      s1  == Unlinked(Deselected(s, w), w)
      s2  == Stretched(Stretched(s1, "v", par, p.size.v), "h", par, p.size.h)
      one == FirstChild(s2, par)
  IN  IF par = Nil THEN s
      ELSE IF s2.win[one].next = Nil THEN Replaced(s2, par, one) ELSE s2

\* set_window_height and set_window_width.
TooSmallByOne(s, d, w, size) == s.win[w].parent # Nil /\ size < Least(d, w) - 1  \* mutant
TooSmall(s, d, w, size) == s.win[w].parent # Nil /\ size < Least(d, w)
SetSize(s, d, w, size, nodelete) ==
  LET old == s.win[w].size[d]
      s1  == [s EXCEPT !.win[w].size[d] = size]
      beg == s.win[w].beg[d]
      s2  == Placed(s1, d, s.win[w].child[d], beg, beg, 0, size, old)
  IN  IF ~nodelete /\ TooSmall(s, d, w, size) THEN Deleted(s, w)
      ELSE IF s.win[w].child[Across(d)] # Nil
           THEN Alongside(s1, d, s.win[w].child[Across(d)], beg, size, nodelete)
      ELSE IF s.win[w].child[d] = Nil THEN s1
      ELSE IF nodelete THEN s2
      ELSE Pruned(s2, d, s2.win[w].child[d])

\* Children across the axis all take the size of the combination ...
Alongside(s, d, c, beg, size, nodelete) ==
  IF c = Nil THEN s
  ELSE LET s1 == SetSize([s EXCEPT !.win[c].beg[d] = beg], d, c, size, nodelete)
       IN  Alongside(s1, d, s1.win[c].next, beg, size, nodelete)

\* ... those along it share it in proportion, none deleted in this loop ...
Placed(s, d, c, beg, last, olast, size, old) ==
  IF c = Nil THEN s
  ELSE LET opos == olast + s.win[c].size[d]
           pos  == Scaled(opos, size, old)
           s1   == SetSize([s EXCEPT !.win[c].beg[d] = last], d, c, pos + beg - last, TRUE)
       IN  Placed(s1, d, s1.win[c].next, beg, pos + beg, opos, size, old)

\* ... but in the next.  A deleted child still leads on, and a last child that
\* has taken the place of the combination leads on to the combination's sibling.
Pruned(s, d, c) ==
  IF c = Nil THEN s
  ELSE LET s1 == SetSize(s, d, c, s.win[c].size[d], FALSE)
       IN  Pruned(s1, d, s1.win[c].next)

-----------------------------------------------------------------------------
\* split-window, with the combination that make_dummy_parent puts above.

DummyParent(s, w, new, d) ==
  LET t == Replaced([s EXCEPT !.win[new] = s.win[w]], w, new)
  IN  [t EXCEPT !.win[w].next = Nil, !.win[w].prev = Nil, !.win[w].parent = new,
                !.win[w].child = [x \in Axes |-> Nil],
                !.win[new].buffer = FALSE, !.win[new].child[d] = w]

Split(s, w, d, size, new) ==
  LET p == s.win[w]
      t == [s EXCEPT !.win[new] =
              [p EXCEPT !.prev = w, !.beg[d] = p.beg[d] + size, !.size[d] = p.size[d] - size],
            !.win[w].next = new, !.win[w].size[d] = size]
  IN  IF p.next = Nil THEN t ELSE [t EXCEPT !.win[p.next].prev = new]

-----------------------------------------------------------------------------
\* change_window_height: the selected window, or the combination around it
\* that has relatives on this axis, grows by delta lines.

RECURSIVE Resized(_, _, _)
Resized(s, d, w) ==
  LET par == s.win[w].parent
  IN  IF par = Nil \/ s.win[par].child[d] # Nil THEN w ELSE Resized(s, d, par)

Growth(s, d, w, delta) ==
  LET p   == s.win[w]
      rel == IF p.next # Nil THEN p.next ELSE p.prev
      max == IF p.parent # Nil THEN s.win[p.parent].size[d] - p.size[d]
             ELSE s.win[rel].size[d] - Least(d, rel)
  IN  IF delta > max THEN max ELSE delta

Gives(s, d, w, delta) == w # Nil /\ s.win[w].size[d] - delta >= Least(d, w)

TakenFromNext(s, d, w, delta) ==
  LET n  == s.win[w].next
      s1 == SetSize(s, d, n, s.win[n].size[d] - delta, FALSE)
      s2 == SetSize(s1, d, w, s1.win[w].size[d] + delta, FALSE)
      m  == s2.win[w].next
      s3 == [s2 EXCEPT !.win[m].beg[d] = @ + delta]
  IN  SetSize(s3, d, m, s3.win[m].size[d], FALSE)

TakenFromPrev(s, d, w, delta) ==
  LET n  == s.win[w].prev
      s1 == SetSize(s, d, n, s.win[n].size[d] - delta, FALSE)
      s2 == [s1 EXCEPT !.win[w].beg[d] = @ - delta]
  IN  SetSize(s2, d, w, s2.win[w].size[d] + delta, FALSE)

\* Window and parent grow together by more, and the parent shrinks back.
Squeezed(s, d, w, delta) ==
  LET par  == s.win[w].parent
      all  == s.win[par].size[d]
      size == s.win[w].size[d]
      more == IF all <= size + delta THEN 2 * all * all
              ELSE (delta * all * 100) \div ((all - size - delta) * 100)
      s1   == [s EXCEPT !.win[par].size[d] = all + more]
      s2   == SetSize(s1, d, w, size + more, FALSE)
  IN  SetSize(s2, d, par, all, FALSE)

ChangeSize(s, d, delta) ==
  LET w == Resized(s, d, s.sel)
      g == Growth(s, d, w, delta)
  IN  IF s.win[w].size[d] + delta < Least(d, w) THEN Deleted(s, w)
      ELSE IF Gives(s, d, s.win[w].next, g) THEN TakenFromNext(s, d, w, g)
      ELSE IF Gives(s, d, s.win[w].prev, g) THEN TakenFromPrev(s, d, w, g)
      ELSE Squeezed(s, d, w, g)

\* change_screen_size_1.
ScreenChanged(s, from, to) ==
  LET tall == [SetSize(s, "v", Root(s), to.v - 1, FALSE) EXCEPT !.win[Minibuf].beg.v = to.v - 1]
      s1   == IF from.v = to.v THEN s ELSE SetSize(tall, "v", Minibuf, 1, FALSE)
      wide == SetSize(s1, "h", Root(s1), to.h, FALSE)
  IN  IF from.h = to.h THEN s1 ELSE SetSize(wide, "h", Minibuf, to.h, FALSE)

-----------------------------------------------------------------------------
\* Configurations.

RECURSIVE Listed(_, _)
\* A window with those within and those after it, as save_window_save lists them.
Listed(s, w) ==
  IF w = Nil THEN <<>>
  ELSE <<w>> \o Listed(s, s.win[w].child.v) \o Listed(s, s.win[w].child.h)
             \o Listed(s, s.win[w].next)

Shown(s)  == Range(Listed(s, Root(s)))
Leaves(s) == {w \in Shown(s) : ~Combination(s, w)}

\* What the user sees of w and the windows after it, whatever their numbers.
RECURSIVE Picture(_, _)
Picture(s, w) ==
  IF w = Nil THEN <<>>
  ELSE <<[buffer |-> s.win[w].buffer, beg |-> s.win[w].beg, size |-> s.win[w].size,
          selected |-> w = s.sel,
          children |-> [d \in Axes |-> Picture(s, s.win[w].child[d])]]>>
       \o Picture(s, s.win[w].next)

\* current-window-configuration; picture is the history of the property below.
Configuration(s, entry) ==
  [current |-> s.sel, stranded |-> s.stranded, screen |-> screen, minibuffer |-> entry,
   picture |-> Picture(s, Root(s)),
   windows |-> LET list == Listed(s, Root(s))
               IN  [i \in DOMAIN list |->
                      LET p == s.win[list[i]]
                      IN  [window |-> list[i], prev |-> p.prev, parent |-> p.parent,
                           buffer |-> p.buffer, beg |-> p.beg, size |-> p.size]]]

\* Whether a combination was one of windows above each other is not saved:
\* it is told from the first child's width.
Saved(c, w) == CHOOSE p \in Range(c) : p.window = w
FirstIn(c, w) == {p \in Range(c) : p.parent = w /\ p.prev = Nil}
ChildrenByEdge(c, w) ==   \* mutant: told from the left edge
  [d \in Axes |->
     IF \E p \in FirstIn(c, w) : (p.beg.h = Saved(c, w).beg.h) <=> (d = "v")
     THEN (CHOOSE p \in FirstIn(c, w) : TRUE).window ELSE Nil]

ChildrenIn(c, w) ==
  [d \in Axes |->
     IF \E p \in FirstIn(c, w) : (p.size.h = Saved(c, w).size.h) <=> (d = "v")
     THEN (CHOOSE p \in FirstIn(c, w) : TRUE).window ELSE Nil]
Reinstalled(s, c) ==
  LET after(w) == {p \in Range(c) : p.prev = w}
  IN  [s EXCEPT !.win = [w \in Windows |->
         IF \A p \in Range(c) : p.window # w THEN s.win[w]
         ELSE LET p == Saved(c, w)
              IN  [next |-> IF after(w) = {} THEN Nil
                            ELSE (CHOOSE q \in after(w) : TRUE).window,
                   prev |-> p.prev, parent |-> p.parent, buffer |-> p.buffer,
                   child |-> ChildrenIn(c, w), beg |-> p.beg, size |-> p.size]]]

\* set-window-configuration.  The saved window is selected at the end, after
\* the screen has got its size back, and that may have deleted it.
Restored(s, config) ==
  LET s1 == Reinstalled(ScreenChanged(s, screen, config.screen), config.windows)
      s2 == ScreenChanged(s1, config.screen, screen)
  IN  [Selecting(s2, config.current) EXCEPT !.stranded =
         config.stranded \/ (config.screen # screen /\ config.current \notin Leaves(s2))]

-----------------------------------------------------------------------------
\* The system.

RECURSIVE Reached(_, _)
Reached(s, seen) ==
  LET more == {x \in UNION {{s.win[w].next, s.win[w].prev, s.win[w].parent}
                            \cup {s.win[w].child[d] : d \in Axes} : w \in seen} : x # Nil}
  IN  IF more \subseteq seen THEN seen ELSE Reached(s, seen \cup more)

\* A window nothing leads to is garbage, unless a configuration holds it, and
\* of those it holds every field.  Numbers only tell windows apart: each step
\* gives them anew, in the order of the tree and then of the configurations.
Held(configs) == FlattenSeq([i \in DOMAIN configs |->
                   [k \in DOMAIN configs[i].windows |-> configs[i].windows[k].window]])
RECURSIVE Distinct(_)
Distinct(list) ==
  IF list = <<>> THEN <<>>
  ELSE <<Head(list)>> \o Distinct(SelectSeq(Tail(list), LAMBDA w : w # Head(list)))

InOrder(s, configs) ==
  LET known == Distinct(<<Minibuf>> \o Listed(s, Root(s)) \o Held(configs))
      more  == {w \in Windows : s.win[w] # Unused} \ Range(known)
  IN  known \o SetToSortSeq(more, <)

Now == [win |-> win, sel |-> selected, level |-> level, stranded |-> stranded]

Renumbered(s, configs, order) ==
  LET number == [w \in Range(order) |-> CHOOSE i \in DOMAIN order : order[i] = w]
                @@ (Nil :> Nil)
      N(w) == number[w]
  IN  [win |-> [i \in Windows |->
                  IF i \notin DOMAIN order THEN Unused
                  ELSE LET p == s.win[order[i]]
                       IN  IF p = Unused THEN p
                           ELSE [p EXCEPT !.next = N(@), !.prev = N(@), !.parent = N(@),
                                          !.child = [d \in Axes |-> N(@[d])]]],
       sel |-> N(s.sel),
       configs |-> [i \in DOMAIN configs |->
                      [configs[i] EXCEPT !.current = N(@),
                         !.windows = [k \in DOMAIN @ |->
                            [@[k] EXCEPT !.window = N(@), !.prev = N(@), !.parent = N(@)]]]]]

Swept(s, configs) ==
  LET used == Reached(s, {Minibuf, s.sel}
                         \cup {c.current : c \in {x \in Range(configs) : x.stranded}})
  IN  [s EXCEPT !.win = [w \in Windows |-> IF w \in used THEN s.win[w] ELSE Unused]]

\* Braces so that each is worked out once.
Becomes(s, configs) ==
  \E done \in {s} : \E t \in {Swept(done, configs)} :
  \E r \in {Renumbered(t, configs, InOrder(t, configs))} :
    /\ win' = r.win
    /\ selected' = r.sel
    /\ stranded' = t.stranded
    /\ level' = t.level
    /\ saved' = r.configs

Free(s) == {w \in Windows : s.win[w] = Unused} \ Range(Held(saved))
Newest(set) == CHOOSE w \in set : \A x \in set : w <= x

InitWindow(beg, size) == [Unused EXCEPT !.beg.v = beg, !.size = size, !.buffer = TRUE]
Init ==
  /\ screen \in Screens
  /\ win = [w \in Windows |->
       CASE w = Minibuf -> [InitWindow(screen.v - 1, [v |-> 1, h |-> screen.h])
                            EXCEPT !.prev = 2]
         [] w = 2 -> [InitWindow(0, [v |-> screen.v - 1, h |-> screen.h])
                      EXCEPT !.next = Minibuf]
         [] OTHER -> Unused]
  /\ selected = 2 /\ stranded = FALSE /\ level = 0 /\ saved = <<>>

\* The windows that commands are given.
Given == IF OffScreen THEN {w \in Windows : win[w].buffer} ELSE Leaves(Now)

SplitWindow(w, d, size) ==
  /\ w # Minibuf
  /\ size >= Least(d, w) /\ size + Least(d, w) <= win[w].size[d]
  /\ Cardinality(Free(Now)) >= 2
  /\ LET par == win[w].parent
         s == IF par = Nil \/ win[par].child[d] = Nil
              THEN DummyParent(Now, w, Newest(Free(Now)), d) ELSE Now
     IN  Becomes(Split(s, w, d, size, Newest(Free(s))), saved)
  /\ UNCHANGED screen

DeleteWindow(w) ==
  /\ w \in Leaves(Now) /\ win[w].parent # Nil
  /\ Becomes(Deleted(Now, w), saved)
  /\ UNCHANGED screen

\* window_loop: the next window is fetched before this one goes.
RECURSIVE WindowLoop(_, _, _)
WindowLoop(s, w, doomed) ==
  LET n == NextWindow(s, w, TRUE)
      t == IF w \in doomed THEN Deleted(s, w) ELSE s
  IN  IF n = Minibuf THEN t ELSE WindowLoop(t, n, doomed)

DeleteOtherWindows(w) ==
  /\ Becomes(WindowLoop(Now, Minibuf, Leaves(Now) \ {w, Minibuf}), saved)
  /\ UNCHANGED screen

\* The windows that show a buffer may be any; the last of all stays, and shows
\* another.
DeleteWindowsOn(showing) ==
  /\ Becomes(WindowLoop(Now, Minibuf, showing), saved)
  /\ UNCHANGED screen

EnlargeWindow(d, delta) ==
  /\ selected \in Given
  /\ d = "v" \/ win[Resized(Now, d, selected)].parent # Nil
  /\ Becomes(ChangeSize(Now, d, delta), saved)
  /\ UNCHANGED screen

SelectWindow(w) ==
  /\ Becomes(Selecting(Now, w), saved)
  /\ UNCHANGED screen

ChangeScreenSize(z) ==
  /\ Becomes(ScreenChanged(Now, screen, z), saved)
  /\ screen' = z

\* save-window-excursion, and read_minibuf, which then selects the minibuffer.
SaveWindowExcursion ==
  /\ Len(saved) < MaxSaved
  /\ Becomes(Now, Append(saved, Configuration(Now, FALSE)))
  /\ UNCHANGED screen

ReadMinibuf ==
  /\ Len(saved) < MaxSaved
  /\ selected # Minibuf
  /\ Becomes([Selecting(Now, Minibuf) EXCEPT !.level = @ + 1],
             Append(saved, Configuration(Now, TRUE)))
  /\ UNCHANGED screen

\* The unwinding of either.
SetWindowConfiguration ==
  /\ saved # <<>>
  /\ LET config == saved[Len(saved)]
         s == [Now EXCEPT !.level = @ - (IF config.minibuffer THEN 1 ELSE 0)]
     IN  Becomes(Restored(s, config), SubSeq(saved, 1, Len(saved) - 1))
  /\ UNCHANGED screen

Next ==
  \/ \E w \in Given :
       \/ \E d \in Axes, size \in 1..screen.v + screen.h : SplitWindow(w, d, size)
       \/ DeleteWindow(w)
       \/ DeleteOtherWindows(w)
       \/ SelectWindow(w)
  \/ \E showing \in SUBSET (Leaves(Now) \ {Minibuf}) : DeleteWindowsOn(showing)
  \/ \E d \in Axes, delta \in -MaxDelta..MaxDelta : EnlargeWindow(d, delta)
  \/ \E z \in Screens : ChangeScreenSize(z)
  \/ SaveWindowExcursion
  \/ ReadMinibuf
  \/ SetWindowConfiguration

Spec == Init /\ [][Next]_vars

-----------------------------------------------------------------------------
\* Properties.

\* The children of w in order.
RECURSIVE Chain(_, _)
Chain(s, c) == IF c = Nil THEN <<>> ELSE <<c>> \o Chain(s, s.win[c].next)
Children(s, w, d) == Chain(s, s.win[w].child[d])

\* Each window fills the place its combination has for it.
Fills(s, c, w, d) ==
  /\ s.win[c].parent = w
  /\ \A a \in Axes \ {d} : s.win[c].beg[a] = s.win[w].beg[a] /\ s.win[c].size[a] = s.win[w].size[a]

Tiled(s, w, d) ==
  LET c == Children(s, w, d)
      p == s.win[w]
      End(x) == s.win[x].beg[d] + s.win[x].size[d]
  IN  /\ Len(c) >= 2
      /\ \A i \in DOMAIN c : Fills(s, c[i], w, d)
      /\ s.win[c[1]].prev = Nil /\ s.win[c[1]].beg[d] = p.beg[d]
      /\ \A i \in 1..Len(c)-1 : s.win[c[i+1]].prev = c[i] /\ s.win[c[i+1]].beg[d] = End(c[i])
      /\ End(c[Len(c)]) = p.beg[d] + p.size[d]

\* The windows tile the screen: combinations and their children agree on
\* parents, neighbours and places, through every rounding and every cascade of
\* deletions; none is smaller than the minimum (set_window_height: "Now delete
\* any children that became too small"); and, as window.h says, "Of the fields
\* vchild, hchild and buffer, only one is non-nil."
TreeTiles ==
  LET s == Now
      r == Root(s)
      m == win[Minibuf]
  IN  /\ win[r].parent = Nil /\ win[r].prev = Nil /\ win[r].next = Minibuf
      /\ m.parent = Nil /\ m.next = Nil /\ m.size.v >= 1
      /\ \A w \in {r, Minibuf} : win[w].beg.h = 0 /\ win[w].size.h = screen.h
      /\ win[r].beg.v = 0 /\ m.beg.v = win[r].size.v /\ m.beg.v + m.size.v = screen.v
      /\ \A w \in Shown(s) :
           /\ \A d \in Axes : win[w].size[d] >= Least(d, w)
           /\ Cardinality({d \in Axes : win[w].child[d] # Nil})
                + (IF win[w].buffer THEN 1 ELSE 0) = 1
           /\ \A d \in Axes : win[w].child[d] # Nil => Tiled(s, w, d)

\* The selected window is one on the screen, so that commands act on text the
\* user sees, through every deletion, cascade and change of the screen's size,
\* but for two ways: a combination goes for its size with the selected window
\* inside, or a configuration is put back on a screen that has become too small
\* for its selected window; and it is back when another is selected.
SelectedIsShown == selected \in Leaves(Now) \/ stranded

\* The same without the exceptions.
SelectedIsAlwaysShown == selected \in Leaves(Now)

\* set-window-configuration puts back the windows, places and buffers of the
\* time of saving, deleted and collapsed though they may be, when the screen
\* has the size it had.
RestoresWhatWasSaved ==
  [][Len(saved') < Len(saved) /\ saved[Len(saved)].screen = screen
       => Picture(Now, Root(Now))' = saved[Len(saved)].picture]_vars
\* change_window_height: "Delta1 was calculated so this makes this window the
\* desired size, taking it all out of the siblings", when none of them goes.
Count == Len(Listed(Now, Root(Now)))
GrowsAsAsked ==
  [][\A d \in Axes, delta \in 1..MaxDelta :
       LET w == Resized(Now, d, selected)
       IN  /\ EnlargeWindow(d, delta) /\ Count' = Count
           /\ win[w].parent # Nil /\ Growth(Now, d, w, delta) = delta
           => (win[Resized(Now, d, selected)].size[d])' = win[w].size[d] + delta]_vars
=============================================================================
