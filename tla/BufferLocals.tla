---------------------------- MODULE BufferLocals ----------------------------
(***************************************************************************)
(* One Lisp variable that may be buffer-local: data.c, with the switching  *)
(* of buffers of buffer.c and the bindings of eval.c.                      *)
(*                                                                         *)
(* The value cell of such a variable is a list (REALVALUE BUFFER           *)
(* CURRENT-ALIST-ELEMENT . DEFAULT-VALUE) that caches the value for the    *)
(* buffer that used it last.  REALVALUE may be a variable of C, which C    *)
(* code reads without asking which buffer it holds the value for.          *)
(***************************************************************************)
EXTENDS Naturals, Sequences

CONSTANTS Buffer, Value,
          Absent,    \* no value
          Nobody,    \* no buffer: nil
          MaxBound   \* bindings in effect

(* An alist element is named by its buffer.  One that has been taken out   *)
(* of its alist is dead; the default cell is an element, too.              *)
Default == "default"
Dead == "dead"
Element == Buffer \union {Default, Dead}

ASSUME LocalsAssumption ==
  Absent \notin Value /\ {Nobody, Default, Dead} \cap Buffer = {} /\ MaxBound \in Nat

VARIABLES current,    \* current_buffer
          forwarded,  \* REALVALUE is a variable of C
          cell,       \* the value cell
          own,        \* the buffers whose local_var_alist has an element for the variable
          elem,       \* the values in those elements
          specpdl,    \* the bindings
          got         \* what was read last

vars == <<current, forwarded, cell, own, elem, specpdl, got>>

(* A variable that is not buffer-local has only a real value; the default  *)
(* value is never behind what is cached of it.                             *)
TypeOK ==
  /\ current \in Buffer /\ forwarded \in BOOLEAN
  /\ cell \in [type : {"plain", "some", "auto"}, real : Value, buffer : Buffer \union {Nobody},
               element : Element, default : Value]
  /\ cell.element \in Buffer => cell.element \in own
  /\ cell.type # "plain" /\ cell.element = Default => cell.real = cell.default
  /\ own \subseteq Buffer /\ elem \in [Buffer -> Value]
  /\ specpdl \in Seq([old : Value, buffer : Buffer,
                      before : [Buffer -> Value] \union {<<>>}])
  /\ Len(specpdl) <= MaxBound
  /\ got \in Value \union {Absent}

Init ==
  /\ current \in Buffer /\ forwarded \in BOOLEAN
  /\ \E v \in Value :
       /\ cell = [type |-> "plain", real |-> v, buffer |-> Nobody, element |-> Default, default |-> v]
       /\ elem = [b \in Buffer |-> v]
  /\ own = {} /\ specpdl = <<>> /\ got = Absent
-----------------------------------------------------------------------------
(* The cell and the elements together.                                     *)
State == [cell |-> cell, own |-> own, elem |-> elem]
Becomes(s) == cell' = s.cell /\ own' = s.own /\ elem' = s.elem

(* REALVALUE is put back into the element it was taken from.               *)
SwapOut(s) ==
  IF s.cell.element = Default THEN [s EXCEPT !.cell.default = s.cell.real]
  ELSE IF s.cell.element \in Buffer THEN [s EXCEPT !.elem[s.cell.element] = s.cell.real]
  ELSE s

(* assq in the local_var_alist of b.                                       *)
ElementFor(s, b) == IF b \in s.own THEN b ELSE Default

(* Mutant of Loaded: what was cached is not put back. *)
LoadedOver(s, b) ==
  IF s.cell.type = "plain" \/ s.cell.buffer = b THEN s
  ELSE LET e == ElementFor(s, b)
       IN  [s EXCEPT !.cell.buffer = b, !.cell.element = e,
                     !.cell.real = IF e = Default THEN s.cell.default ELSE s.elem[b]]

(* symbol-value: the cell is made to hold the value for the buffer.        *)
Loaded(s, b) ==
  IF s.cell.type = "plain" \/ s.cell.buffer = b THEN s
  ELSE LET out == SwapOut(s)
           e == ElementFor(s, b)
       IN  [out EXCEPT !.cell.buffer = b, !.cell.element = e,
                       !.cell.real = IF e = Default THEN out.cell.default ELSE out.elem[b]]

(* set.  A variable that becomes local when set gets its element here; it  *)
(* looks for the buffer in the element, never finds it, and so swaps every *)
(* time.                                                                   *)
Encached(s, b) ==
  IF s.cell.type = "some" /\ s.cell.buffer = b THEN s
  ELSE LET out == SwapOut(s)
           new == s.cell.type = "auto" /\ b \notin s.own
       IN  [out EXCEPT !.cell.buffer = b,
                       !.own = IF new THEN @ \union {b} ELSE @,
                       !.elem[b] = IF new THEN s.cell.real ELSE @,
                       !.cell.element = IF new THEN b ELSE ElementFor(s, b)]

Stored(s, b, x) ==
  IF s.cell.type = "plain" THEN [s EXCEPT !.cell.real = x]
  ELSE LET in == Encached(s, b)
       IN  [in EXCEPT !.cell.real = x,
                      !.cell.default = IF in.cell.element = Default THEN x ELSE @]

DefaultStored(s, x) ==
  IF s.cell.type = "plain" THEN [s EXCEPT !.cell.real = x]
  ELSE [s EXCEPT !.cell.default = x,
                 !.cell.real = IF s.cell.element = Default THEN x ELSE @]

(* The variable's cell becomes such a list.                                *)
Listed(s, type, b) ==
  [s EXCEPT !.cell.type = type, !.cell.buffer = b, !.cell.element = Default,
            !.cell.default = s.cell.real]

(* Look once again for the buffer's value.                                 *)
Forgotten(s, b) == IF s.cell.buffer = b THEN [s EXCEPT !.cell.buffer = Nobody] ELSE s

(* Its element is taken out of the buffer's alist.                         *)
Removed(s, b) ==
  [s EXCEPT !.own = @ \ {b}, !.cell.element = IF @ = b THEN Dead ELSE @]
-----------------------------------------------------------------------------
(* What all buffers see, for the properties.                               *)
SeenIn(s) ==
  [b \in Buffer |->
     LET e == ElementFor(s, b)
     IN  IF s.cell.type = "plain" \/ s.cell.element = e THEN s.cell.real
         ELSE IF e = Default THEN s.cell.default ELSE s.elem[b]]

(* Assigning or making local makes what bindings found before them void.               *)
Assigned == specpdl' = [i \in DOMAIN specpdl |-> [specpdl[i] EXCEPT !.before = <<>>]]

SymbolValue ==
  /\ Becomes(Loaded(State, current)) /\ got' = cell'.real
  /\ UNCHANGED <<current, forwarded, specpdl>>

DefaultValue ==
  /\ got' = IF cell.type = "plain" THEN cell.real ELSE cell.default
  /\ UNCHANGED <<current, forwarded, cell, own, elem, specpdl>>

(* buffer-local-variables refers to the variable, then copies the alist.   *)
BufferLocalVariables(b) ==
  /\ b \in own
  /\ LET s == Loaded(State, current)
     IN  Becomes(IF b = current THEN [s EXCEPT !.elem[b] = s.cell.real] ELSE s)
  /\ got' = elem'[b]
  /\ UNCHANGED <<current, forwarded, specpdl>>

Set(x) ==
  /\ Becomes(Stored(State, current, x)) /\ Assigned
  /\ UNCHANGED <<current, forwarded, got>>

SetDefault(x) ==
  /\ Becomes(DefaultStored(State, x)) /\ Assigned
  /\ UNCHANGED <<current, forwarded, got>>

MakeVariableBufferLocal ==
  /\ Becomes(IF cell.type = "plain" THEN Listed(State, "auto", current)
             ELSE [State EXCEPT !.cell.type = "auto"])
  /\ Assigned
  /\ UNCHANGED <<current, forwarded, got>>

MakeLocalVariable ==
  /\ cell.type # "auto"
  /\ LET s == IF cell.type = "plain" THEN Listed(State, "some", Nobody) ELSE State
     IN  Becomes(IF current \in own THEN s
                 ELSE Forgotten([s EXCEPT !.own = @ \union {current},
                                          !.elem[current] = s.cell.default], current))
  /\ Assigned
  /\ UNCHANGED <<current, forwarded, got>>

KillLocalVariable ==
  /\ cell.type # "plain"
  /\ Becomes(Forgotten(Removed(State, current), current)) /\ Assigned
  /\ UNCHANGED <<current, forwarded, got>>

KillAllLocalVariables ==
  /\ LET s == IF current \in own /\ cell.buffer = current
              THEN [State EXCEPT !.cell.element = Default, !.cell.real = cell.default]
              ELSE State
     IN  Becomes(Removed(s, current))
  /\ Assigned
  /\ UNCHANGED <<current, forwarded, got>>

(* Mutant of MustRefer: only the next buffer's variables are looked at.    *)
MustReferNext(b) == forwarded /\ b \in own

(* set_buffer_internal refers to the variables of C that are local in the  *)
(* next or the previous buffer.                                            *)
MustRefer(b) == forwarded /\ (b \in own \/ current \in own)

SetBuffer(b) ==
  /\ b # current /\ current' = b
  /\ Becomes(IF MustRefer(b) THEN Loaded(State, b) ELSE State)
  /\ UNCHANGED <<forwarded, specpdl, got>>

(* Mutant of ValueToRestore: REALVALUE, whichever buffer it is for.        *)
ValueCached(s) == s.cell.real

ValueToRestore(s) == Loaded(s, current).cell.real

(* specbind.                                                               *)
Bind(x) ==
  /\ Len(specpdl) < MaxBound
  /\ LET s == Loaded(State, current)
     IN  /\ specpdl' = Append(specpdl, [old |-> ValueToRestore(State), buffer |-> current,
                                        before |-> SeenIn(State)])
         /\ Becomes(Stored(s, current, x))
  /\ UNCHANGED <<current, forwarded, got>>

(* unbind_to, one binding: the value is stored for the buffer that happens *)
(* to be current.                                                          *)
Unbind ==
  /\ specpdl # <<>>
  /\ LET last == specpdl[Len(specpdl)]
         rest == SubSeq(specpdl, 1, Len(specpdl) - 1)
     IN  /\ Becomes(Stored(State, current, last.old))
         /\ specpdl' = IF last.buffer = current /\ last.before # <<>> THEN rest
                       ELSE [i \in DOMAIN rest |-> [rest[i] EXCEPT !.before = <<>>]]
  /\ UNCHANGED <<current, forwarded, got>>

Next ==
  \/ SymbolValue \/ DefaultValue \/ Unbind
  \/ MakeVariableBufferLocal \/ MakeLocalVariable \/ KillLocalVariable \/ KillAllLocalVariables
  \/ \E b \in Buffer : SetBuffer(b) \/ BufferLocalVariables(b)
  \/ \E x \in Value : Set(x) \/ SetDefault(x) \/ Bind(x)

Spec == Init /\ [][Next]_vars
-----------------------------------------------------------------------------
(* What the documentation speaks of, in terms of the cell and the alists.  *)
local ==
  [b \in Buffer |-> IF b \notin own THEN Absent
                    ELSE IF cell.element = b THEN cell.real ELSE elem[b]]
default == IF cell.type = "plain" THEN cell.real ELSE cell.default
auto == cell.type = "auto"
bound == [i \in DOMAIN specpdl |-> specpdl[i].old]

(* The cache does not show: every buffer has the value the documentation   *)
(* says, whatever order buffers and the default are used in.               *)
Promise == INSTANCE LocalValues
ImplementsLocals == Promise!Spec

(* The cell names no buffer, after kill-local-variable, and the variable   *)
(* is local neither in the buffer left nor in the next: nothing refers to  *)
(* it.                                                                     *)
Adrift(b) == cell.type # "plain" /\ cell.buffer = Nobody /\ {b, current} \cap own = {}

(* C code reads a variable of C without going through the cell: after      *)
(* every switch it holds the value of the buffer switched to, unless       *)
(* kill-local-variable left a cell that still has to look for its buffer   *)
(* and set_buffer_internal has no reason to refer to it (Adrift).          *)
CSeesSwitch ==
  [][\A b \in Buffer :
       SetBuffer(b) /\ forwarded /\ ~Adrift(b) => cell'.real = SeenIn(State)'[b]]_vars

(* data.c 851 of kill-local-variable: "From now on the default value will  *)
(* apply in this buffer", also for C code.                                 *)
KilledIsGone ==
  [][KillLocalVariable /\ forwarded => cell'.real = SeenIn(State)'[current']]_vars

(* A binding undone in the buffer it was made in, with nothing assigned in *)
(* between, leaves every buffer with the value it saw before.              *)
LetRestores ==
  [][LET last == specpdl[Len(specpdl)]
     IN  Unbind /\ last.buffer = current /\ last.before # <<>>
           => SeenIn(State)' = last.before]_vars

(* The same wherever it is undone.                                         *)
LetRestoresAnywhere ==
  [][Unbind /\ specpdl[Len(specpdl)].before # <<>>
       => SeenIn(State)' = specpdl[Len(specpdl)].before]_vars
=============================================================================
