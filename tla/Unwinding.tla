----------------------------- MODULE Unwinding -----------------------------
(***************************************************************************)
(* Non-local control in the C core: the stack of bindings and unwind forms *)
(* (specpdl), catches and condition handlers of eval.c, the recursive      *)
(* command loops of keyboard.c and the minibuffers of minibuf.c that are   *)
(* built on them.                                                          *)
(*                                                                         *)
(* cstack is the C stack, the outermost function first.  catchlist and     *)
(* handlerlist are lists of structures in it, given by their positions;    *)
(* longjmp cuts it.  Lisp evaluated in any frame may bind, catch, throw,   *)
(* signal, return or enter another level at any time.                      *)
(***************************************************************************)
EXTENDS Naturals, Sequences, FiniteSets

CONSTANTS MaxStack,    \* frames on the C stack
          MaxBindings, \* entries of specpdl
          MaxForms,    \* special forms being evaluated
          MaxMinibuf,  \* minibuffers in use
          MaxLost      \* recursive edits whose saved buffer is killed

ASSUME UnwindingAssumption ==
  /\ MaxStack \in Nat /\ MaxBindings \in Nat /\ MaxForms \in Nat /\ MaxMinibuf \in Nat
  /\ MaxLost \in Nat

VARIABLES cstack, specpdl, catchlist, handlerlist,
          value,      \* of a Lisp variable
          quit_flag, command_loop_level, minibuf_level,
          lost,       \* edits left without taking command_loop_level back
          prompt,     \* minibuf_prompt: the frame it is allocated in, or 0
          saved,      \* the prompts in minibuf_save_vector
          shown,      \* the number of the minibuffer that minibuf_window shows
          text        \* whether there is input in each minibuffer

lists   == <<catchlist, handlerlist>>
levels  == <<command_loop_level, minibuf_level, lost>>
minibuf == <<prompt, saved, shown, text>>
vars    == <<cstack, specpdl, lists, value, quit_flag, levels, minibuf>>

(* Frames.  pdl is the depth of specpdl at entry; tag what a catch or a    *)
(* handler is for; next and handlers are the lists at entry.  x is the     *)
(* value a let binds, the end of an unwinding, or a level; on tells of a   *)
(* minibuffer that something was typed, of unbind_to that quit_flag was    *)
(* set, of unbind_catch that it has unbound.  The tag of a form is that    *)
(* of an unwind function that fails.                                       *)
Frame(kind, tag, x) ==
  [kind |-> kind, tag |-> tag, pdl |-> Len(specpdl), next |-> catchlist,
   handlers |-> handlerlist, x |-> x, on |-> FALSE]
Entry(kind, old) == [kind |-> kind, old |-> old]

Here == Len(cstack)
Top == cstack[Here]
Is(kind) == Top.kind = kind
Front(s) == SubSeq(s, 1, Len(s) - 1)
Push(frames) == cstack' = cstack \o frames
Pop == cstack' = Front(cstack)
Instead(frame) == cstack' = Append(Front(cstack), frame)

Frames(kinds) == {i \in 1 .. Here : cstack[i].kind \in kinds}

(* Room for more, with a throw, an unwinding and an unwind form on top.    *)
Room(frames, entries) == Here + frames + 3 <= MaxStack /\ Len(specpdl) + entries <= MaxBindings
RoomForForm(entries) ==
  /\ Room(1, entries)
  /\ Cardinality({i \in Frames({"let", "protect", "case", "catch"}) : cstack[i].tag \notin {"exit", "top"}})
       < MaxForms

(* command_loop: the catch, and the condition handler of command_loop_2.   *)
CatchAt(tag, pdl, next, handlers) ==
  [kind |-> "catch", tag |-> tag, pdl |-> pdl, next |-> next, handlers |-> handlers, x |-> 0,
   on |-> FALSE]
LoopAt(pdl, next, handlers) ==
  [kind |-> "loop", tag |-> "all", pdl |-> pdl, next |-> next, handlers |-> handlers, x |-> 0,
   on |-> FALSE]

TypeOK ==
  /\ Here \in 1 .. MaxStack /\ Len(specpdl) <= MaxBindings
  /\ \A i \in 1 .. Here :
       cstack[i].kind \in {"loop", "catch", "case", "let", "protect", "form", "edit", "entry",
                           "read", "unbind", "throw"}
  /\ catchlist \in Seq(1 .. Here) /\ handlerlist \in Seq(1 .. Here)
  /\ value \in 0 .. MaxBindings + 1 /\ quit_flag \in BOOLEAN
  /\ command_loop_level \in 0 .. MaxBindings + MaxLost /\ minibuf_level \in 0 .. MaxMinibuf
  /\ lost \in 0 .. MaxLost
  /\ prompt \in 0 .. MaxStack
  /\ saved \in [0 .. MaxMinibuf - 1 -> 0 .. MaxStack]
  /\ shown \in 0 .. MaxMinibuf - 1 /\ text \in [0 .. MaxMinibuf - 1 -> BOOLEAN]

Init ==
  /\ cstack = <<CatchAt("top", 0, <<>>, <<>>), LoopAt(0, <<1>>, <<>>)>>
  /\ specpdl = <<>> /\ catchlist = <<2, 1>> /\ handlerlist = <<2>>
  /\ value = 0 /\ quit_flag = FALSE
  /\ command_loop_level = 0 /\ minibuf_level = 0 /\ lost = 0
  /\ prompt = 0 /\ saved = [i \in 0 .. MaxMinibuf - 1 |-> 0] /\ shown = 0
  /\ text = [i \in 0 .. MaxMinibuf - 1 |-> FALSE]
-----------------------------------------------------------------------------
(* recursive_edit_unwind, when Fset_buffer finds its buffer killed.        *)
Failing == Is("form") /\ Top.tag = "killed"

Evaluating == Top.kind \in {"loop", "catch", "case", "let", "protect", "form"} /\ ~Failing

(* let: specbind, for a value that tells the bindings apart.               *)
Let ==
  /\ Evaluating /\ RoomForForm(1)
  /\ value' = Len(specpdl) + 1
  /\ specpdl' = Append(specpdl, Entry("let", value))
  /\ Push(<<Frame("let", "", value')>>)
  /\ UNCHANGED <<lists, quit_flag, levels, minibuf>>

UnwindProtect ==
  /\ Evaluating /\ RoomForForm(1)
  /\ specpdl' = Append(specpdl, Entry("form", 0))
  /\ Push(<<Frame("protect", "", 0)>>)
  /\ UNCHANGED <<lists, value, quit_flag, levels, minibuf>>

Catch ==
  /\ Evaluating /\ RoomForForm(0)
  /\ catchlist' = <<Here + 1>> \o catchlist
  /\ Push(<<Frame("catch", "tag", 0)>>)
  /\ UNCHANGED <<specpdl, handlerlist, value, quit_flag, levels, minibuf>>

ConditionCase(condition) ==
  /\ Evaluating /\ RoomForForm(1)
  /\ catchlist' = <<Here + 1>> \o catchlist /\ handlerlist' = <<Here + 1>> \o handlerlist
  /\ Push(<<Frame("case", condition, 0)>>)
  /\ UNCHANGED <<specpdl, value, quit_flag, levels, minibuf>>

(* Mutant of Unbinding: a binding is left. *)
UnbindingLess(pdl) == [Frame("unbind", "", pdl + 1) EXCEPT !.on = quit_flag]

(* unbind_to puts quit_flag aside.                                         *)
Unbinding(pdl) == [Frame("unbind", "", pdl) EXCEPT !.on = quit_flag]

(* The body of a let or an unwind-protect returns.                         *)
ReturnToUnbind ==
  /\ Top.kind \in {"let", "protect"}
  /\ Instead(Unbinding(Top.pdl)) /\ quit_flag' = FALSE
  /\ UNCHANGED <<specpdl, lists, value, levels, minibuf>>

(* handlerlist = h.next, of the condition-case that returns.               *)
HandlersAfter == IF Is("case") THEN Top.handlers ELSE handlerlist

ReturnFromCatch ==
  /\ Is("case") \/ (Is("catch") /\ Top.tag = "tag")
  /\ catchlist' = Top.next /\ handlerlist' = HandlersAfter
  /\ Pop
  /\ UNCHANGED <<specpdl, value, quit_flag, levels, minibuf>>

ReturnFromForm ==
  /\ Is("form") /\ ~Failing /\ Pop
  /\ UNCHANGED <<specpdl, lists, value, quit_flag, levels, minibuf>>
-----------------------------------------------------------------------------
(* unbind_to, an entry at a time.                                          *)
Unbind(kind) ==
  /\ Is("unbind") /\ Len(specpdl) > Top.x
  /\ specpdl[Len(specpdl)].kind = kind
  /\ specpdl' = Front(specpdl)

UnbindLet ==
  /\ Unbind("let") /\ value' = specpdl[Len(specpdl)].old
  /\ UNCHANGED <<cstack, lists, quit_flag, levels, minibuf>>

(* The unwind forms are Lisp like any other.                               *)
UnbindForm ==
  /\ Unbind("form") /\ Push(<<Frame("form", "", 0)>>)
  /\ UNCHANGED <<lists, value, quit_flag, levels, minibuf>>

(* recursive_edit_unwind goes back to the buffer that was current, if the  *)
(* selected window showed another one.                                     *)
UnbindEdit ==
  /\ Unbind("edit") /\ command_loop_level' = command_loop_level - 1
  /\ UNCHANGED <<cstack, lists, value, quit_flag, minibuf_level, lost, minibuf>>

(* That buffer was killed during the edit: an error (Signal) instead, with *)
(* the entry gone and the level left as it is.                             *)
UnbindEditKilled ==
  /\ Unbind("edit") /\ lost < MaxLost /\ Here + 4 <= MaxStack
  /\ lost' = lost + 1
  /\ Push(<<Frame("form", "killed", 0)>>)
  /\ UNCHANGED <<lists, value, quit_flag, command_loop_level, minibuf_level, minibuf>>

(* Fset_window_configuration.                                              *)
UnbindWindows ==
  /\ Unbind("windows") /\ shown' = specpdl[Len(specpdl)].old
  /\ UNCHANGED <<cstack, lists, value, quit_flag, levels, prompt, saved, text>>

(* read_minibuf_unwind erases what the minibuffer window shows.            *)
UnbindMinibuf ==
  /\ Unbind("minibuf")
  /\ text' = [text EXCEPT ![shown] = FALSE]
  /\ minibuf_level' = minibuf_level - 1 /\ prompt' = saved[minibuf_level - 1]
  /\ UNCHANGED <<cstack, lists, value, quit_flag, command_loop_level, lost, saved, shown>>

(* Mutant of QuitAfter: the quit that was put aside is dropped. *)
QuitDropped(frame) == quit_flag

QuitAfter(frame) == quit_flag \/ frame.on

Unbound ==
  /\ Is("unbind") /\ Len(specpdl) <= Top.x
  /\ quit_flag' = QuitAfter(Top) /\ Pop
  /\ UNCHANGED <<specpdl, lists, value, levels, minibuf>>
-----------------------------------------------------------------------------
(* The innermost catch for a tag, or handler for a condition; 0 if none.   *)
First(list, P(_)) ==
  IF \E i \in DOMAIN list : P(cstack[list[i]])
  THEN list[CHOOSE i \in DOMAIN list :
              P(cstack[list[i]]) /\ \A j \in 1 .. i - 1 : ~P(cstack[list[j]])]
  ELSE 0

CatchFor(tag) == First(catchlist, LAMBDA f : f.kind = "catch" /\ f.tag = tag)
HandlerFor(condition) == First(handlerlist, LAMBDA f : f.tag \in {condition, "all"})

(* Fsignal, or without a handler a throw to top level.                     *)
Signalled(condition) ==
  Push(<<Frame("throw", condition, IF HandlerFor(condition) = 0 THEN CatchFor("top")
                                   ELSE HandlerFor(condition))>>)

Signal ==
  /\ Evaluating \/ Failing
  /\ Here + 3 <= MaxStack /\ Signalled("error")
  /\ UNCHANGED <<specpdl, lists, value, quit_flag, levels, minibuf>>

(* Fthrow: to exit, also for exit-recursive-edit and abort-recursive-edit. *)
Throw(tag, what) ==
  /\ Evaluating /\ Here + 3 <= MaxStack
  /\ IF CatchFor(tag) = 0 THEN Signalled("error")
     ELSE Push(<<Frame("throw", what, CatchFor(tag))>>)
  /\ UNCHANGED <<specpdl, lists, value, quit_flag, levels, minibuf>>

ControlG ==
  /\ ~quit_flag /\ quit_flag' = TRUE
  /\ UNCHANGED <<cstack, specpdl, lists, value, levels, minibuf>>

(* QUIT.                                                                   *)
Quit ==
  /\ Evaluating /\ Here + 3 <= MaxStack /\ quit_flag /\ quit_flag' = FALSE
  /\ Signalled("quit")
  /\ UNCHANGED <<specpdl, lists, value, levels, minibuf>>

(* unbind_catch: for each catch up to the one thrown to, its bindings are  *)
(* undone, then it and its handlers are taken from the lists.              *)
UnwindCatch ==
  /\ Is("throw") /\ ~Top.on /\ quit_flag' = FALSE
  /\ cstack' = Front(cstack) \o <<[Top EXCEPT !.on = TRUE],
                                  Unbinding(cstack[Head(catchlist)].pdl)>>
  /\ UNCHANGED <<specpdl, lists, value, levels, minibuf>>

DropCatch ==
  /\ Is("throw") /\ Top.on /\ Head(catchlist) # Top.x
  /\ handlerlist' = cstack[Head(catchlist)].handlers
  /\ catchlist' = cstack[Head(catchlist)].next
  /\ Instead([Top EXCEPT !.on = FALSE])
  /\ UNCHANGED <<specpdl, value, quit_flag, levels, minibuf>>

(* The last one: longjmp.  A catch returns; that of a command loop to the  *)
(* function that called it, with what was thrown.                          *)
Landing == Is("throw") /\ Top.on /\ Head(catchlist) = Top.x
Target == cstack[Top.x]
Below == SubSeq(cstack, 1, Top.x - 1)

LandAtCatch ==
  /\ Landing /\ Target.kind = "catch" /\ Target.tag # "top"
  /\ handlerlist' = Target.handlers /\ catchlist' = Target.next
  /\ cstack' = IF Target.tag = "exit"
               THEN [Below EXCEPT ![Top.x - 1].tag = Top.tag] ELSE Below
  /\ UNCHANGED <<specpdl, value, quit_flag, levels, minibuf>>

(* The handler of a condition-case, with its variable bound.               *)
LandAtCase ==
  /\ Landing /\ Target.kind = "case"
  /\ handlerlist' = Target.handlers /\ catchlist' = Target.next
  /\ value' = Len(specpdl) + 1
  /\ specpdl' = Append(specpdl, Entry("let", value))
  /\ cstack' = Append(Below, [Target EXCEPT !.kind = "let", !.x = value'])
  /\ UNCHANGED <<quit_flag, levels, minibuf>>

(* cmd_error, and the command loop goes on; or it starts again from top.   *)
LandAtLoop ==
  /\ Landing /\ (Target.kind = "loop" \/ Target.tag = "top")
  /\ quit_flag' = (quit_flag /\ Target.kind # "loop")
  /\ LET loop == IF Target.kind = "loop" THEN Top.x ELSE 2
     IN  /\ cstack' = SubSeq(cstack, 1, loop)
         /\ catchlist' = <<loop>> \o cstack[loop].next
         /\ handlerlist' = <<loop>> \o cstack[loop].handlers
  /\ UNCHANGED <<specpdl, value, levels, minibuf>>
-----------------------------------------------------------------------------
(* A command loop in a frame that has just been pushed.                    *)
CommandLoop(frame, pdl) ==
  /\ cstack' = frame \o <<CatchAt("exit", pdl, catchlist, handlerlist),
                          LoopAt(pdl, <<Len(frame) + 1>> \o catchlist, handlerlist)>>
  /\ catchlist' = <<Len(frame) + 2, Len(frame) + 1>> \o catchlist
  /\ handlerlist' = <<Len(frame) + 2>> \o handlerlist

RecursiveEdit ==
  /\ Evaluating /\ Room(3, 1)
  /\ command_loop_level' = command_loop_level + 1
  /\ specpdl' = Append(specpdl, Entry("edit", 0))
  /\ CommandLoop(Append(cstack, Frame("edit", "", 0)), Len(specpdl) + 1)
  /\ UNCHANGED <<value, quit_flag, minibuf_level, lost, minibuf>>

(* Mutant of SavedPrompt: saved a level too far in. *)
SavedPromptInner == [saved EXCEPT ![IF minibuf_level = 0 THEN 0 ELSE minibuf_level - 1] = prompt]

SavedPrompt == [saved EXCEPT ![minibuf_level] = prompt]

(* read_minibuf, to where it looks for a minibuffer; there it may quit.    *)
BeginRead ==
  /\ Evaluating /\ Room(3, 2) /\ minibuf_level < MaxMinibuf
  /\ saved' = SavedPrompt
  /\ specpdl' = Append(specpdl, Entry("windows", shown))
  /\ Push(<<Frame("entry", "", minibuf_level)>>)
  /\ UNCHANGED <<lists, value, quit_flag, levels, prompt, shown, text>>

QuitEntry ==
  /\ Is("entry") /\ quit_flag /\ minibuf_level > 0 /\ quit_flag' = FALSE
  /\ Signalled("quit")
  /\ UNCHANGED <<specpdl, lists, value, levels, minibuf>>

(* Mutant of WithUnwind: the windows would be restored before the          *)
(* minibuffer is erased. *)
WithUnwindFirst == Front(specpdl) \o <<Entry("minibuf", 0), specpdl[Len(specpdl)]>>

WithUnwind == Append(specpdl, Entry("minibuf", 0))

(* Mutant of LevelIn: forgotten when minibuffers are nested. *)
LevelInOnce == 1

LevelIn == minibuf_level + 1

EnterMinibuffer ==
  /\ Is("entry")
  /\ shown' = minibuf_level /\ text' = [text EXCEPT ![minibuf_level] = FALSE]
  /\ minibuf_level' = LevelIn /\ specpdl' = WithUnwind
  /\ prompt' = Here
  /\ CommandLoop(Append(Front(cstack), [Top EXCEPT !.kind = "read"]), Len(specpdl) + 1)
  /\ UNCHANGED <<value, quit_flag, command_loop_level, lost, saved>>

(* A command in a minibuffer's command loop inserts something.             *)
TypeInput ==
  /\ Is("loop") /\ Here > 2 /\ cstack[Here - 2].kind = "read"
  /\ text' = [text EXCEPT ![shown] = TRUE]
  /\ cstack' = [cstack EXCEPT ![Here - 2].on = TRUE]
  /\ UNCHANGED <<specpdl, lists, value, quit_flag, levels, prompt, saved, shown>>

(* The command loop has returned, and so do the recursive edit and the     *)
(* minibuffer; after an abort they quit.                                   *)
LeaveLoop ==
  /\ Top.kind \in {"edit", "read"}
  /\ IF Top.tag = "abort"
     THEN Signalled("quit") /\ UNCHANGED quit_flag
     ELSE Instead(Unbinding(Top.pdl)) /\ quit_flag' = FALSE
  /\ UNCHANGED <<specpdl, lists, value, levels, minibuf>>
-----------------------------------------------------------------------------
Enter == Let \/ UnwindProtect \/ Catch \/ (\E c \in {"error", "quit"} : ConditionCase(c))
         \/ RecursiveEdit \/ BeginRead \/ QuitEntry \/ EnterMinibuffer \/ TypeInput
Leave == ReturnToUnbind \/ ReturnFromCatch \/ ReturnFromForm \/ LeaveLoop
Jump  == Signal \/ Quit \/ Throw("tag", "") \/ Throw("top", "") \/ Throw("exit", "")
         \/ Throw("exit", "abort")
Undo  == UnbindLet \/ UnbindForm \/ UnbindEdit \/ UnbindEditKilled \/ UnbindWindows
         \/ UnbindMinibuf \/ Unbound
Land  == UnwindCatch \/ DropCatch \/ LandAtCatch \/ LandAtCase \/ LandAtLoop

Next == Enter \/ Leave \/ Jump \/ Undo \/ Land \/ ControlG

Spec == Init /\ [][Next]_vars
-----------------------------------------------------------------------------
Settled == Frames({"throw", "unbind"}) = {}
Innermost(kinds) == IF Frames(kinds) = {} THEN 0
                    ELSE CHOOSE i \in Frames(kinds) : \A j \in Frames(kinds) : j <= i

(* The lists never lead to a frame that is gone, not even while one throw  *)
(* overtakes another; with no throw going on, they lead to all there are.  *)
ListsFitStack ==
  LET In(list, kinds) == {list[i] : i \in DOMAIN list} \subseteq Frames(kinds)
      All(list, kinds) == {list[i] : i \in DOMAIN list} = Frames(kinds)
  IN  /\ In(catchlist, {"catch", "case", "loop"}) /\ In(handlerlist, {"case", "loop"})
      /\ Frames({"throw"}) = {} =>
           All(catchlist, {"catch", "case", "loop"}) /\ All(handlerlist, {"case", "loop"})

(* The levels count the recursive edits and minibuffers being executed,    *)
(* however they and those inside them were left; command_loop_level is too *)
(* high by those whose saved buffer was killed, and by no others.          *)
LevelsFitStack ==
  Settled => /\ command_loop_level = Cardinality(Frames({"edit"})) + lost
             /\ minibuf_level = Cardinality(Frames({"read"}))

(* "The current depth in recursive edits" (doc string of recursion-depth). *)
DepthIsTold ==
  Settled => command_loop_level + minibuf_level = Cardinality(Frames({"edit", "read"}))

(* The registers of the evaluator and of the command loop describe the C   *)
(* stack, however its frames were left.                                    *)
RegistersFitStack == ListsFitStack /\ LevelsFitStack

(* Dynamic scope: a variable has the value that the innermost let still    *)
(* being executed gave it, however those inside it were left.              *)
ScopeFitsStack ==
  Settled => value = IF Innermost({"let"}) = 0 THEN 0 ELSE cstack[Innermost({"let"})].x

(* minibuf_prompt never points into a frame that is gone, and it is the    *)
(* innermost minibuffer's.                                                 *)
PromptIsAlive ==
  /\ prompt = 0 \/ (prompt <= Here /\ cstack[prompt].kind \in {"read", "unbind"})
  /\ Settled => prompt = Innermost({"read"})

(* What was typed in an outer minibuffer is still there when an inner one  *)
(* has been left, in whatever way, and the window shows the right one.     *)
InputIsKept ==
  Settled => /\ \A i \in Frames({"read"}) : text[cstack[i].x] = cstack[i].on
             /\ Innermost({"read"}) # 0 => shown = cstack[Innermost({"read"})].x

(* A C-g that unbind_to has put aside is pending too.                      *)
Pending == quit_flag \/ \E i \in Frames({"unbind"}) : cstack[i].on

(* A throw leaves an unwind form, and the unbind_to that has put a quit    *)
(* aside for it: longjmp forgets that quit.                                *)
LeavesPutAside == Landing /\ \E i \in Frames({"unbind"}) : i > Top.x /\ cstack[i].on

(* A pending C-g is taken by nothing but QUIT, and the command loop when   *)
(* it has handled an error, except one forgotten in that way.              *)
QuitIsKept ==
  [][Pending /\ ~Pending'
       => Quit \/ QuitEntry \/ (LandAtLoop /\ Target.kind = "loop") \/ LeavesPutAside]_vars

(* The same without the exception.                                         *)
NoQuitIsLost ==
  [][Pending /\ ~Pending' => Quit \/ QuitEntry \/ (LandAtLoop /\ Target.kind = "loop")]_vars
=============================================================================
