--------------------------- MODULE ProcessStatus ---------------------------
(***************************************************************************)
(* The subprocesses of process.c: the handler of SIGCHLD, which may run    *)
(* between any two steps, the loop that waits for input, the report of     *)
(* changes of status (status_notify) and the Lisp code that filters,       *)
(* sentinels and commands run in the middle of those.                      *)
(*                                                                         *)
(* C functions call each other and Lisp, which calls them again: stack is  *)
(* the C stack, the running function first.  Output is counted in reads.   *)
(***************************************************************************)
EXTENDS Naturals, Sequences, FiniteSets

CONSTANTS Proc,       \* the processes that may be started
          Net,        \* those that are network connections
          Filtered,   \* those with a filter
          Watched,    \* those that may be given a sentinel
          MaxOutput,  \* reads of output a process may give rise to
          MaxOps,     \* operations Lisp may do on processes
          MaxDepth,   \* frames on the stack
          ForkFails,  \* vfork may fail
          delete_exited_processes

ASSUME ProcAssumption == Net \subseteq Proc /\ Filtered \subseteq Proc /\ Watched \subseteq Proc
ASSUME BoundsAssumption == MaxOutput \in Nat /\ MaxOps \in Nat /\ MaxDepth \in Nat /\ MaxDepth >= 3
ASSUME ChoiceAssumption == ForkFails \in BOOLEAN /\ delete_exited_processes \in BOOLEAN

None == "none"
ASSUME NoneAssumption == None \notin Proc

VARIABLES life,         \* the kernel's view: "unborn", "run", "stop" or "dead"
          mute,         \* processes whose end of the channel is closed
          unreported,   \* processes whose change wait3 has not returned yet
          output,       \* output sent and not read
          unsent,       \* output the process may still send
          blocked,      \* SIGCHLD is blocked
          alist,        \* Vprocess_alist
          behind,       \* the cdr of a cell deleted from it
          status, raw_status, infd, sentinel, input_wait_mask,
          changed,      \* the processes whose tick is not their update_tick
          news,         \* process_tick is not the global update_tick
          lost,         \* ghost: those whose tick a walk took, to be left by a throw
          stack,
          ops           \* operations done

kernel   == <<life, mute, unreported, output, unsent>>
ticks    == <<changed, news, lost>>   \* the counters are only compared for equality
cells    == <<alist, behind>>
channels == <<infd, input_wait_mask>>
vars == <<kernel, blocked, cells, status, raw_status, ticks, channels, sentinel,
          stack, ops>>

Ended == {"exit", "signal", "closed"}

(* Frames.  A wait is for a key (kbd), for output of a process (for) or,   *)
(* with now, for nothing.                                                  *)
At(place, p) == [at |-> place, p |-> p]
Wait(kbd, now, p) == [at |-> "top", p |-> p, kbd |-> kbd, now |-> now, set |-> {}]
Lisp == At("lisp", None)
WaitPlaces == {"top", "status", "check", "sleep", "scan"}
Places == {"lisp", "walk", "drain", "tell", "report", "restore", "clear", "delete", "continue",
           "write"}
Frame == [at : Places, p : Proc \union {None}]
         \union [at : WaitPlaces, p : Proc \union {None}, kbd : BOOLEAN, now : BOOLEAN,
                 set : SUBSET Proc]

Top == stack[1]
Is(place) == Top.at = place
Push(frame) == stack' = <<frame>> \o stack
Pop == stack' = Tail(stack)
GoTo(frame) == stack' = <<frame>> \o Tail(stack)
Place(place) == GoTo([Top EXCEPT !.at = place])
CallFrom(place, frame) == stack' = <<frame, [Top EXCEPT !.at = place]>> \o Tail(stack)
Room == Len(stack) + 4 <= MaxDepth   \* for an operation, a walk, a sentinel and Clear
TopLevel == <<Wait(TRUE, FALSE, None)>>

TypeOK ==
  /\ life \in [Proc -> {"unborn", "run", "stop", "dead"}]
  /\ mute \subseteq Proc /\ unreported \subseteq Proc /\ input_wait_mask \subseteq Proc
  /\ output \in [Proc -> 0 .. MaxOutput] /\ unsent \in [Proc -> 0 .. MaxOutput]
  /\ blocked \in BOOLEAN
  /\ alist \in Seq(Proc) /\ behind \in [Proc -> Proc \union {None}]
  /\ status \in [Proc -> {"run", "stop"} \union Ended]
  /\ raw_status \in [Proc -> {None, "stop", "exit"}]
  /\ changed \subseteq Proc /\ news \in BOOLEAN /\ lost \subseteq Proc
  /\ infd \in [Proc -> BOOLEAN] /\ sentinel \in [Proc -> BOOLEAN]
  /\ stack \in Seq(Frame) /\ Len(stack) \in 1 .. MaxDepth
  /\ ops \in 0 .. MaxOps

Init ==
  /\ life = [p \in Proc |-> "unborn"] /\ mute = {} /\ unreported = {}
  /\ output = [p \in Proc |-> 0] /\ unsent = [p \in Proc |-> MaxOutput]
  /\ blocked = FALSE /\ alist = <<>> /\ behind = [p \in Proc |-> None]
  /\ status = [p \in Proc |-> "run"] /\ raw_status = [p \in Proc |-> None]
  /\ changed = {} /\ news = FALSE /\ lost = {}
  /\ infd = [p \in Proc |-> FALSE] /\ sentinel = [p \in Proc |-> FALSE]
  /\ input_wait_mask = {}
  /\ stack = <<Lisp>>
  /\ ops = 0
-----------------------------------------------------------------------------
(* Vprocess_alist.  A walk holds a cell, which remove_process may take out *)
(* of the list: its cdr then stays what it was.                            *)
InList(p) == \E i \in DOMAIN alist : alist[i] = p
First(list) == IF list = <<>> THEN None ELSE Head(list)
Position(p) == CHOOSE i \in DOMAIN alist : alist[i] = p
Cdr(p) == IF InList(p) THEN First(SubSeq(alist, Position(p) + 1, Len(alist))) ELSE behind[p]

(* Mutant of Mark: only the global tick. *)
MarkNews(p) == news' = TRUE /\ UNCHANGED changed

(* ++process_tick, for p->tick.                                            *)
Mark(p) == changed' = changed \union {p} /\ news' = TRUE

(* Mutant of Deactivate: the mask keeps the channel. *)
DeactivateKeepingMask(p) == infd' = [infd EXCEPT ![p] = FALSE] /\ UNCHANGED input_wait_mask

Deactivate(p) == infd' = [infd EXCEPT ![p] = FALSE] /\ input_wait_mask' = input_wait_mask \ {p}

Remove(p) ==
  /\ alist' = IF InList(p)
              THEN SubSeq(alist, 1, Position(p) - 1) \o SubSeq(alist, Position(p) + 1, Len(alist))
              ELSE alist
  /\ behind' = [behind EXCEPT ![p] = Cdr(p)]
  /\ Deactivate(p)

(* update_status converts the raw status, then clears it: two steps.       *)
Convert(p) == status' = [status EXCEPT ![p] = raw_status[p]]

Clear ==
  /\ Is("clear") /\ raw_status' = [raw_status EXCEPT ![Top.p] = None] /\ Pop
  /\ UNCHANGED <<kernel, blocked, cells, status, ticks, channels, sentinel, ops>>

(* select's answer for a channel: something to read, or its end.  A mask   *)
(* bit of a closed channel would be EBADF, on which Emacs aborts.          *)
Readable(p) == output[p] > 0 \/ life[p] = "dead" \/ p \in mute
-----------------------------------------------------------------------------
(* What processes and connections do by themselves.                        *)
Unchanging == <<blocked, cells, status, raw_status, ticks, channels, sentinel, stack, ops>>

Send(p) ==
  /\ life[p] = "run" /\ p \notin mute /\ unsent[p] > 0
  /\ unsent' = [unsent EXCEPT ![p] = @ - 1]
  /\ output' = [output EXCEPT ![p] = @ + 1]
  /\ UNCHANGED <<life, mute, unreported, Unchanging>>

Exit(p) ==
  /\ life[p] \in {"run", "stop"}
  /\ life' = [life EXCEPT ![p] = "dead"]
  /\ unreported' = IF p \in Net THEN unreported ELSE unreported \union {p}
  /\ UNCHANGED <<mute, output, unsent, Unchanging>>

(* By stop-process, or by a signal of somebody else.                       *)
Stop(p) ==
  /\ p \notin Net /\ life[p] = "run"
  /\ life' = [life EXCEPT ![p] = "stop"] /\ unreported' = unreported \union {p}
  /\ UNCHANGED <<mute, output, unsent, Unchanging>>

CloseOutput(p) ==
  /\ p \notin Net /\ life[p] = "run" /\ p \notin mute
  /\ mute' = mute \union {p}
  /\ UNCHANGED <<life, unreported, output, unsent, Unchanging>>
-----------------------------------------------------------------------------
(* Mutant of MaskAfterDeath: the channel stays. *)
MaskAsItWas(p) == input_wait_mask

(* The channel of a dead process is no longer waited for.                  *)
MaskAfterDeath(p) == IF life[p] = "dead" THEN input_wait_mask \ {p} ELSE input_wait_mask

(* The handler: the status is only stored, and the walk told by the ticks  *)
(* that there is news.  It interrupts select.  A process that is not in    *)
(* the list, or not its own, is taken for the synchronous one.             *)
Sigchld(p) ==
  /\ ~blocked /\ p \in unreported
  /\ unreported' = unreported \ {p}
  /\ IF InList(p)
     THEN /\ Mark(p) /\ lost' = lost \ {p}
          /\ raw_status' = [raw_status EXCEPT ![p] = IF life[p] = "dead" THEN "exit" ELSE "stop"]
          /\ input_wait_mask' = MaskAfterDeath(p)
     ELSE UNCHANGED <<ticks, raw_status, input_wait_mask>>
  /\ IF Is("sleep") /\ ~Top.now THEN Place("top") ELSE UNCHANGED stack
  /\ UNCHANGED <<life, mute, output, unsent, blocked, cells, status, infd, sentinel, ops>>
-----------------------------------------------------------------------------
(* What Lisp does: a command, a filter or a sentinel.                      *)
Operation == Is("lisp") /\ ops < MaxOps /\ ops' = ops + 1

(* A throw to the top level, maybe from a filter that a walk has called.   *)
Frames(places) == {stack[i].p : i \in {j \in DOMAIN stack : stack[j].at \in places}}
Leave ==
  /\ stack' = TopLevel
  /\ lost' = (lost \union Frames({"drain"})) \ changed'

(* An error is caught by the Lisp code, or ends at the top level.          *)
Error == (stack' = stack /\ UNCHANGED lost) \/ Leave

(* start-process and open-network-stream; SIGCHLD is blocked meanwhile.    *)
Start(p) ==
  /\ Is("lisp") /\ life[p] = "unborn"
  /\ life' = [life EXCEPT ![p] = "run"]
  /\ alist' = <<p>> \o alist
  /\ infd' = [infd EXCEPT ![p] = TRUE] /\ input_wait_mask' = input_wait_mask \union {p}
  /\ blocked' = (blocked /\ p \in Net)
  /\ UNCHANGED <<mute, unreported, output, unsent, behind, status, raw_status, ticks, sentinel,
                 stack, ops>>

(* create_process when vfork fails: SIGCHLD stays blocked.                 *)
CannotFork(p) ==
  /\ ForkFails /\ life[p] = "unborn" /\ p \notin Net
  /\ blocked' = TRUE
  /\ UNCHANGED <<kernel, cells, status, raw_status, changed, news, channels, sentinel>>
  /\ Operation /\ Error

SetSentinel(p) ==
  /\ p \in Watched /\ Is("lisp") /\ infd[p] /\ status[p] = "run" /\ ~sentinel[p]
  /\ sentinel' = [sentinel EXCEPT ![p] = TRUE]
  /\ UNCHANGED <<kernel, blocked, cells, status, raw_status, ticks, channels, stack, ops>>

ProcessStatus(p) ==
  /\ Operation /\ Room /\ raw_status[p] # None
  /\ Convert(p) /\ Push(At("clear", p))
  /\ UNCHANGED <<kernel, blocked, cells, raw_status, ticks, channels, sentinel>>

Die(p) ==
  /\ life' = [life EXCEPT ![p] = "dead"]
  /\ unreported' = IF life[p] = "dead" THEN unreported ELSE unreported \union {p}

(* delete-process, up to status_notify if the process is active.           *)
Delete(p) ==
  /\ Operation /\ Room /\ life[p] # "unborn"
  /\ raw_status' = [raw_status EXCEPT ![p] = None]
  /\ IF p \notin Net /\ infd[p]
     THEN /\ Die(p) /\ Mark(p) /\ lost' = lost \ {p}
          /\ status' = [status EXCEPT ![p] = "signal"]
          /\ stack' = <<At("walk", First(alist)), At("delete", p)>> \o stack
          /\ UNCHANGED <<cells, channels>>
     ELSE /\ Remove(p)
          /\ IF p \in Net
             THEN Mark(p) /\ lost' = lost \ {p} /\ status' = [status EXCEPT ![p] = "closed"]
             ELSE UNCHANGED <<ticks, status>>
          /\ UNCHANGED <<life, unreported, stack>>
  /\ UNCHANGED <<mute, output, unsent, blocked, sentinel>>

FinishDelete ==
  /\ Is("delete") /\ Remove(Top.p) /\ Pop
  /\ UNCHANGED <<kernel, blocked, status, raw_status, ticks, sentinel, ops>>

(* continue-process tells the new status before it sends the signal.       *)
Continue(p) ==
  /\ Operation /\ Room /\ infd[p] /\ p \notin Net
  /\ raw_status' = [raw_status EXCEPT ![p] = None]
  /\ status' = [status EXCEPT ![p] = "run"]
  /\ Mark(p) /\ lost' = lost \ {p}
  /\ stack' = <<At("walk", First(alist)), At("continue", p)>> \o stack
  /\ UNCHANGED <<kernel, blocked, cells, channels, sentinel>>

FinishContinue ==
  /\ Is("continue") /\ Pop
  /\ IF life[Top.p] = "stop"
     THEN life' = [life EXCEPT ![Top.p] = "run"] /\ unreported' = unreported \ {Top.p}
     ELSE UNCHANGED <<life, unreported>>
  /\ UNCHANGED <<mute, output, unsent, blocked, cells, status, raw_status, ticks, channels,
                 sentinel, ops>>

(* process-send-string: the status is looked at, then the text written.    *)
SendString(p) ==
  /\ Operation /\ Room /\ life[p] # "unborn" /\ raw_status[p] = None /\ status[p] = "run"
  /\ Push(At("write", p))
  /\ UNCHANGED <<kernel, blocked, cells, status, raw_status, ticks, channels, sentinel>>

Written ==
  /\ Is("write") /\ life[Top.p] # "dead" /\ Pop
  /\ UNCHANGED <<kernel, blocked, cells, status, raw_status, ticks, channels, sentinel, ops>>

(* SIGPIPE: send_process_trap jumps back, the process is closed.           *)
BrokenPipe ==
  LET p == Top.p
  IN  /\ Is("write") /\ life[p] = "dead"
      /\ raw_status' = [raw_status EXCEPT ![p] = None]
      /\ status' = [status EXCEPT ![p] = "closed"]
      /\ Mark(p) /\ Deactivate(p)
      /\ (Pop /\ lost' = lost \ {p}) \/ Leave
      /\ UNCHANGED <<kernel, blocked, cells, sentinel, ops>>

(* accept-process-output, for one process or for whatever there is.        *)
Accept(p) ==
  /\ Operation /\ Room /\ (p # None => life[p] # "unborn")
  /\ Push(Wait(FALSE, p = None, p))
  /\ UNCHANGED <<kernel, blocked, cells, status, raw_status, ticks, channels, sentinel>>

Throw ==
  /\ Operation /\ Len(stack) > 1
  /\ UNCHANGED <<kernel, blocked, cells, status, raw_status, changed, news, channels, sentinel>>
  /\ Leave

Return ==
  /\ Is("lisp") /\ IF Len(stack) = 1 THEN stack' = TopLevel ELSE Pop
  /\ UNCHANGED <<kernel, blocked, cells, status, raw_status, ticks, channels, sentinel, ops>>
-----------------------------------------------------------------------------
(* status_notify: a walk over the list as it is at each step.              *)
Notified ==
  /\ Is("walk") /\ Top.p = None
  /\ news' = FALSE /\ Pop
  /\ UNCHANGED <<kernel, blocked, cells, status, raw_status, changed, lost, channels, sentinel, ops>>

PassBy ==
  /\ Is("walk") /\ Top.p # None /\ Top.p \notin changed
  /\ GoTo(At("walk", Cdr(Top.p)))
  /\ UNCHANGED <<kernel, blocked, cells, status, raw_status, ticks, channels, sentinel, ops>>

(* Mutant of NextToVisit: the status is told at once. *)
NextAtOnce(p) == "tell"

NextToVisit(p) == IF infd[p] THEN "drain" ELSE "tell"

Visit ==
  /\ Is("walk") /\ Top.p # None /\ Top.p \in changed
  /\ changed' = changed \ {Top.p}
  /\ Place(NextToVisit(Top.p))
  /\ UNCHANGED <<kernel, blocked, cells, status, raw_status, news, lost, channels, sentinel, ops>>

(* read_process_output inserts the text, or calls the filter.              *)
ReadOutput(p, frame) ==
  /\ output' = [output EXCEPT ![p] = @ - 1]
  /\ stack' = (IF p \in Filtered THEN <<Lisp>> ELSE <<>>) \o <<frame>> \o Tail(stack)

ReadsMore(p) == infd[p] /\ output[p] > 0

(* What remains to be read.  The descriptor is looked up for every read:   *)
(* it is 0 if the filter has deleted the process, and may have no more.    *)
Drain ==
  /\ Is("drain")
  /\ IF ReadsMore(Top.p)
     THEN ReadOutput(Top.p, Top)
     ELSE Place("tell") /\ UNCHANGED output
  /\ UNCHANGED <<life, mute, unreported, unsent, blocked, cells, status, raw_status, ticks,
                 channels, sentinel, ops>>

(* Descriptor 0 is Emacs's terminal (process.c 3294): what the user types  *)
(* is given to the filter of the process deleted, as often as he types.    *)
DrainTerminal ==
  /\ Is("drain") /\ Top.p \in Filtered /\ ~infd[Top.p]
  /\ stack' = <<Lisp>> \o stack
  /\ UNCHANGED <<kernel, blocked, cells, status, raw_status, ticks, channels, sentinel, ops>>

Tell ==
  /\ Is("tell")
  /\ IF raw_status[Top.p] # None
     THEN Convert(Top.p) /\ CallFrom("report", At("clear", Top.p))
     ELSE Place("report") /\ UNCHANGED status
  /\ UNCHANGED <<kernel, blocked, cells, raw_status, ticks, channels, sentinel, ops>>

(* An ended process is closed, then its sentinel called, or a message      *)
(* inserted.  While a sentinel runs its process has none.                  *)
Report ==
  LET p == Top.p
  IN  /\ Is("report")
      /\ IF status[p] \notin Ended THEN UNCHANGED <<cells, channels>>
         ELSE IF delete_exited_processes THEN Remove(p)
         ELSE Deactivate(p) /\ UNCHANGED cells
      /\ sentinel' = [sentinel EXCEPT ![p] = FALSE]
      /\ IF sentinel[p] THEN CallFrom("restore", Lisp) ELSE GoTo(At("walk", Cdr(p)))
      /\ UNCHANGED <<kernel, blocked, status, raw_status, ticks, ops>>

Restore ==
  /\ Is("restore")
  /\ sentinel' = [sentinel EXCEPT ![Top.p] = TRUE]
  /\ GoTo(At("walk", Cdr(Top.p)))
  /\ UNCHANGED <<kernel, blocked, cells, status, raw_status, ticks, channels, ops>>
-----------------------------------------------------------------------------
(* wait_reading_process_input.  It tells news only when it waits for a key *)
(* and no channel has anything to read.                                    *)
WaitTop ==
  /\ Is("top")
  /\ IF Top.kbd /\ news /\ (\A p \in input_wait_mask : ~Readable(p))
     THEN CallFrom("check", At("walk", First(alist)))
     ELSE Place(IF Top.p = None THEN "check" ELSE "status")
  /\ UNCHANGED <<kernel, blocked, cells, status, raw_status, ticks, channels, sentinel, ops>>

WaitStatus ==
  /\ Is("status")
  /\ IF raw_status[Top.p] # None
     THEN Convert(Top.p) /\ CallFrom("check", At("clear", Top.p))
     ELSE Place("check") /\ UNCHANGED status
  /\ UNCHANGED <<kernel, blocked, cells, raw_status, ticks, channels, sentinel, ops>>

(* No waiting for a process that does not run; else select.                *)
WaitCheck ==
  /\ Is("check")
  /\ IF Top.p # None /\ status[Top.p] # "run"
     THEN Pop
     ELSE GoTo([Top EXCEPT !.at = "sleep", !.set = input_wait_mask])
  /\ UNCHANGED <<kernel, blocked, cells, status, raw_status, ticks, channels, sentinel, ops>>

Woken ==
  LET ready == {p \in Top.set : Readable(p)}
  IN  /\ Is("sleep")
      /\ IF ready # {} THEN GoTo([Top EXCEPT !.at = "scan", !.set = ready])
         ELSE IF Top.now THEN Pop
         ELSE GoTo([Top EXCEPT !.at = "top", !.set = {}])   \* a hundred seconds have passed
      /\ UNCHANGED <<kernel, blocked, cells, status, raw_status, ticks, channels, sentinel, ops>>

Key ==
  /\ Is("sleep") /\ Top.kbd /\ GoTo(Lisp)
  /\ UNCHANGED <<kernel, blocked, cells, status, raw_status, ticks, channels, sentinel, ops>>

Scanned ==
  /\ Is("scan") /\ Top.set = {} /\ Place("top")
  /\ UNCHANGED <<kernel, blocked, cells, status, raw_status, ticks, channels, sentinel, ops>>

(* The end of a process's channel is ignored: SIGCHLD will tell.  The end  *)
(* of a connection is the end of it.                                       *)
Scan(p) ==
  LET next == [Top EXCEPT !.set = @ \ {p}, !.now = @ \/ p = Top.p]
  IN  /\ Is("scan") /\ p \in Top.set
      /\ IF output[p] > 0
         THEN /\ ReadOutput(p, [next EXCEPT !.at = "top", !.set = {}])
              /\ UNCHANGED <<status, ticks, channels>>
         ELSE /\ GoTo(next) /\ UNCHANGED output
              /\ IF p \in Net
                 THEN /\ Mark(p) /\ lost' = lost \ {p} /\ Deactivate(p)
                      /\ status' = [status EXCEPT ![p] = IF @ = "run" THEN "closed" ELSE @]
                 ELSE UNCHANGED <<status, ticks, channels>>
      /\ UNCHANGED <<life, mute, unreported, unsent, blocked, cells, raw_status, sentinel, ops>>
-----------------------------------------------------------------------------
LispStep ==
  \/ \E p \in Proc : \/ Start(p) \/ CannotFork(p) \/ SetSentinel(p) \/ ProcessStatus(p)
                     \/ Delete(p) \/ Continue(p) \/ SendString(p)
  \/ \E p \in Proc \union {None} : Accept(p)
  \/ Throw \/ Return
Inside == Clear \/ FinishDelete \/ FinishContinue \/ Written \/ BrokenPipe
Notify == Notified \/ PassBy \/ Visit \/ Drain \/ DrainTerminal \/ Tell \/ Report \/ Restore
Waiting == WaitTop \/ WaitStatus \/ WaitCheck \/ Woken \/ Scanned \/ \E p \in Proc : Scan(p)
Emacs == LispStep \/ Inside \/ Notify \/ Waiting

Next ==
  \/ Emacs \/ Key
  \/ \E p \in Proc : Send(p) \/ Exit(p) \/ Stop(p) \/ CloseOutput(p) \/ Sigchld(p)

Spec == Init /\ [][Next]_vars

(* Emacs goes on running, its Lisp code returns, signals are delivered,    *)
(* and the user does not type a key whenever there is output to read, nor  *)
(* for ever into the terminal read in place of a process; that read ends.  *)
FairSpec == /\ Spec /\ WF_vars(Emacs) /\ SF_vars(Woken) /\ SF_vars(Drain)
            /\ \A p \in Proc : WF_vars(Sigchld(p))
-----------------------------------------------------------------------------
(* select is never asked about a closed channel: it would fail with EBADF, *)
(* on which wait_reading_process_input aborts.                             *)
MaskIsOpen == \A p \in input_wait_mask : infd[p]

(* A status the handler has stored is never forgotten by the ticks: until  *)
(* it is converted the process is marked, or the walk is about to tell it, *)
(* unless a filter that this walk has called throws out of it (lost).      *)
StoredIsMarked ==
  \A p \in Proc : raw_status[p] # None =>
     p \in changed \union lost \/ p \in Frames({"drain", "tell", "clear"})

(* delete-process makes Emacs forget the process at once (process.c 708):  *)
(* nothing is told of a process that is not in the list.                   *)
DeletedIsForgotten == Is("report") => InList(Top.p)

(* A process whose end the walk tells is closed with nothing left to read, *)
(* unless a signal came since the walk took its tick.                      *)
OutputReadBeforeClosing ==
  [][\A p \in Proc : Is("report") /\ Top.p = p /\ infd[p] /\ ~infd'[p]
                       /\ p \notin changed => output[p] = 0]_vars

(* update_tick counts the events that the user or a sentinel has been told *)
(* of (process.c 325): when it agrees with process_tick, none is left.      *)
NothingLeftUntold == ~news => \A i \in DOMAIN alist : alist[i] \notin changed

(* Whatever is marked while no walk is going on is told, unless Emacs is   *)
(* kept busy by a channel at its end or Lisp waits for a process, or a     *)
(* filter that the walk has called throws out of it.                       *)
NoWalk == Frames({"walk", "drain", "tell", "report", "restore"}) = {}
KeptBusy == \E p \in input_wait_mask : p \in mute \/ (life[p] = "dead" /\ blocked)
WaitsInLisp == Is("sleep") /\ ~Top.kbd /\ ~Top.now
ChangesAreTold ==
  \A p \in Proc :
     (InList(p) /\ p \in changed /\ news /\ NoWalk)
       ~> ((Is("report") /\ Top.p = p) \/ ~InList(p) \/ p \in lost
           \/ KeptBusy \/ WaitsInLisp)
=============================================================================
