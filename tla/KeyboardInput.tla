--------------------------- MODULE KeyboardInput ---------------------------
(***************************************************************************)
(* The keyboard of keyboard.c with interrupt input: the handler of SIGIO   *)
(* puts the characters of the terminal into kbd_buffer and acts on a C-g;  *)
(* the main program takes characters out, and sleeps when there are none.  *)
(* The handler runs between any two statements of the main program (pc);   *)
(* it may also jump back to read_command_char.                             *)
(***************************************************************************)
EXTENDS Naturals, Sequences

CONSTANTS Key, Quit,   \* ordinary characters and C-g
          Junk,        \* what fresh memory holds
          Size,        \* sizeof kbd_buffer
          MaxTyped,    \* characters typed in a behaviour
          Torn         \* signals may come inside the statements that take a character

ASSUME KeysAssumption == Quit \notin Key /\ Junk \notin Key \union {Quit}
ASSUME SizeAssumption == Size \in Nat \ {0} /\ MaxTyped \in Nat /\ Torn \in BOOLEAN

VARIABLES tty,          \* typed and not read by Emacs
          typed,        \* how many were typed
          interrupts,   \* SIGIO is enabled: not between reset_ and init_sys_modes
          mem, kbd_ptr, kbd_count, input_pending,
          quit_flag, immediate_quit, inhibit_quit, waiting_for_input,
          clear_word,   \* input_available_clear_word points to the timeout
          timeout,      \* the timeout is a hundred seconds, not zero
          pc, c,        \* the place in the main program, and its register
          aborted       \* Fsignal was called where it aborts

terminal == <<tty, typed, interrupts>>
buffer   == <<mem, kbd_ptr, kbd_count, input_pending>>
quits    == <<quit_flag, immediate_quit, inhibit_quit>>
wait     == <<waiting_for_input, clear_word, timeout>>
vars     == <<terminal, buffer, quits, wait, pc, c, aborted>>

Char == Key \union {Quit, Junk}
PC == {"command", "read", "loop", "flag", "gobble", "still", "limit", "arm", "waiting", "armed",
       "count", "select", "sleep", "clear", "pending", "take", "fetch", "advance", "got"}

TypeOK ==
  /\ tty \in Seq(Key \union {Quit}) /\ typed \in 0 .. MaxTyped /\ interrupts \in BOOLEAN
  /\ mem \in [0 .. Size - 1 -> Char]
  /\ kbd_ptr \in 0 .. Size /\ kbd_count \in 0 .. Size /\ input_pending \in BOOLEAN
  /\ quit_flag \in BOOLEAN /\ immediate_quit \in BOOLEAN /\ inhibit_quit \in BOOLEAN
  /\ waiting_for_input \in BOOLEAN /\ clear_word \in BOOLEAN /\ timeout \in BOOLEAN
  /\ pc \in PC /\ c \in Char /\ aborted \in BOOLEAN

Init ==
  /\ tty = <<>> /\ typed = 0 /\ interrupts = TRUE
  /\ mem = [i \in 0 .. Size - 1 |-> Junk] /\ kbd_ptr = 0 /\ kbd_count = 0
  /\ input_pending = FALSE
  /\ quit_flag = FALSE /\ immediate_quit = FALSE /\ inhibit_quit = FALSE
  /\ waiting_for_input = FALSE /\ clear_word = FALSE /\ timeout = FALSE
  /\ pc = "read" /\ c = Junk /\ aborted = FALSE

Type(k) ==
  /\ typed < MaxTyped
  /\ typed' = typed + 1 /\ tty' = Append(tty, k)
  /\ UNCHANGED <<interrupts, buffer, quits, wait, pc, c, aborted>>
-----------------------------------------------------------------------------
(* kbd_buffer_store_char for each character before the first C-g of what   *)
(* one read returned: what is left is moved to the front, then the         *)
(* characters are stored as long as there is room.                         *)
Plain(chars) ==
  SubSeq(chars, 1, IF \E i \in DOMAIN chars : chars[i] = Quit
                   THEN (CHOOSE i \in DOMAIN chars :
                           chars[i] = Quit /\ \A j \in 1 .. i - 1 : chars[j] # Quit) - 1
                   ELSE Len(chars))

Least(a, b) == IF a < b THEN a ELSE b

(* Mutant of StoreChars: what is left is not moved. *)
StoreCharsUnmoved(keys) ==
  IF keys = <<>> THEN UNCHANGED <<mem, kbd_ptr, kbd_count>>
  ELSE /\ kbd_count' = Least(kbd_count + Len(keys), Size)
       /\ kbd_ptr' = 0
       /\ mem' = [i \in 0 .. Size - 1 |->
                    IF kbd_count <= i /\ i < kbd_count + Len(keys) THEN keys[i - kbd_count + 1]
                    ELSE mem[i]]

StoreChars(keys) ==
  IF keys = <<>> THEN UNCHANGED <<mem, kbd_ptr, kbd_count>>
  ELSE /\ kbd_count' = Least(kbd_count + Len(keys), Size)
       /\ kbd_ptr' = 0
       /\ mem' = [i \in 0 .. Size - 1 |->
                    IF i < kbd_count THEN mem[kbd_ptr + i]
                    ELSE IF i < kbd_count + Len(keys) THEN keys[i - kbd_count + 1]
                    ELSE mem[i]]

(* Mutant of ThrowToRead: waiting_for_input stays set. *)
ThrowStillWaiting ==
  /\ clear_word' = FALSE /\ input_pending' = FALSE /\ UNCHANGED waiting_for_input
  /\ pc' = "got" /\ c' = Quit

(* quit_throw_to_read_command_char: C-g is what read_command_char returns. *)
ThrowToRead ==
  /\ waiting_for_input' = FALSE /\ clear_word' = FALSE /\ input_pending' = FALSE
  /\ pc' = "got" /\ c' = Quit

(* Fsignal with quit: the command is left, for the command loop.           *)
SignalQuit ==
  /\ immediate_quit' = FALSE /\ inhibit_quit' = FALSE
  /\ aborted' = (aborted \/ waiting_for_input)
  /\ pc' = "read" /\ c' = Junk

(* The handler: it wakes select, empties the terminal, and on C-g signals, *)
(* throws to the reader or sets quit_flag (interrupt_signal).  Characters  *)
(* typed closely behind a C-g are not looked at.                           *)
InputAvailable(resume) ==
  LET keys == Plain(tty)
      quit == keys # tty
  IN  /\ StoreChars(keys)
      /\ tty' = <<>> /\ UNCHANGED <<typed, interrupts>>
      /\ IF ~quit
         THEN /\ timeout' = (timeout /\ ~clear_word) /\ pc' = resume
              /\ UNCHANGED <<input_pending, quits, waiting_for_input, clear_word, c, aborted>>
         ELSE IF immediate_quit /\ ~inhibit_quit
         THEN SignalQuit /\ UNCHANGED <<input_pending, quit_flag, wait>>
         ELSE /\ quit_flag' = TRUE
              /\ UNCHANGED <<immediate_quit, inhibit_quit, aborted>>
              /\ IF waiting_for_input
                 THEN ThrowToRead /\ UNCHANGED timeout
                 ELSE /\ timeout' = (timeout /\ ~clear_word) /\ pc' = resume
                      /\ UNCHANGED <<input_pending, waiting_for_input, clear_word, c>>

(* SIGIO; it interrupts select.                                            *)
Sigio ==
  /\ interrupts /\ tty # <<>> /\ (~Torn => pc \notin {"fetch", "advance"})
  /\ InputAvailable(IF pc = "sleep" THEN "clear" ELSE pc)
-----------------------------------------------------------------------------
(* A command, as far as it has to do with input.                           *)
InCommand == pc = "command"

BeginImmediate ==
  /\ InCommand /\ ~immediate_quit /\ ~quit_flag
  /\ immediate_quit' = TRUE
  /\ UNCHANGED <<terminal, buffer, quit_flag, inhibit_quit, wait, pc, c, aborted>>

EndImmediate ==
  /\ InCommand /\ immediate_quit /\ immediate_quit' = FALSE
  /\ UNCHANGED <<terminal, buffer, quit_flag, inhibit_quit, wait, pc, c, aborted>>

BindInhibitQuit ==
  /\ InCommand /\ ~immediate_quit /\ inhibit_quit' = ~inhibit_quit
  /\ UNCHANGED <<terminal, buffer, quit_flag, immediate_quit, wait, pc, c, aborted>>

(* QUIT.                                                                   *)
CheckQuit ==
  /\ InCommand /\ quit_flag /\ ~inhibit_quit /\ interrupts
  /\ quit_flag' = FALSE /\ SignalQuit
  /\ UNCHANGED <<terminal, buffer, wait>>

(* input-pending-p; sit-for, which does nothing when input is pending.     *)
DetectInputPending ==
  /\ InCommand /\ input_pending' = (input_pending \/ kbd_count > 0 \/ quit_flag)
  /\ UNCHANGED <<terminal, mem, kbd_ptr, kbd_count, quits, wait, pc, c, aborted>>

(* The end of wait_reading_process_input for sit-for: clear_input_pending. *)
SitForReturns ==
  /\ InCommand /\ input_pending' = FALSE
  /\ UNCHANGED <<terminal, mem, kbd_ptr, kbd_count, quits, wait, pc, c, aborted>>

DiscardInput ==
  /\ InCommand /\ ~immediate_quit
  /\ quit_flag' = FALSE /\ tty' = <<>> /\ kbd_count' = 0 /\ input_pending' = FALSE
  /\ UNCHANGED <<typed, interrupts, mem, kbd_ptr, immediate_quit, inhibit_quit, wait, pc, c, aborted>>

(* reset_sys_modes and init_sys_modes, around a suspension.                *)
SysModes ==
  /\ InCommand /\ ~immediate_quit /\ interrupts' = ~interrupts
  /\ UNCHANGED <<tty, typed, buffer, quits, wait, pc, c, aborted>>

EndCommand ==
  /\ InCommand /\ ~immediate_quit /\ ~inhibit_quit /\ interrupts
  /\ pc' = "read" /\ UNCHANGED <<terminal, buffer, quits, wait, c, aborted>>
-----------------------------------------------------------------------------
(* read_command_char, kbd_buffer_read_command_char and the wait for a key  *)
(* in wait_reading_process_input.                                          *)
At(place, next) == pc = place /\ pc' = next

(* Redisplay, unless input is pending; then the setjmp.                    *)
ReadCommandChar ==
  /\ At("read", "loop") /\ input_pending' = (input_pending \/ kbd_count > 0 \/ quit_flag)
  /\ UNCHANGED <<terminal, mem, kbd_ptr, kbd_count, quits, wait, c, aborted>>

TestCount ==
  /\ At("loop", IF kbd_count > 0 THEN "take" ELSE "flag")
  /\ UNCHANGED <<terminal, buffer, quits, wait, c, aborted>>

TestFlag ==
  /\ pc = "flag"
  /\ IF quit_flag THEN ThrowToRead
     ELSE pc' = "gobble" /\ UNCHANGED <<waiting_for_input, clear_word, input_pending, c>>
  /\ UNCHANGED <<terminal, mem, kbd_ptr, kbd_count, quits, timeout, aborted>>

(* gobble_input: the handler is called for input that came without SIGIO.  *)
GobbleInput ==
  /\ pc = "gobble"
  /\ IF tty # <<>> THEN InputAvailable("still")
     ELSE pc' = "still" /\ UNCHANGED <<terminal, buffer, quits, wait, c, aborted>>

StillNone ==
  /\ At("still", IF kbd_count > 0 THEN "loop" ELSE "limit")
  /\ UNCHANGED <<terminal, buffer, quits, wait, c, aborted>>

SetTimeout ==
  /\ At("limit", "arm") /\ timeout' = TRUE
  /\ UNCHANGED <<terminal, buffer, quits, waiting_for_input, clear_word, c, aborted>>

(* set_waiting_for_input, a statement at a time.                           *)
SetClearWord ==
  /\ At("arm", "waiting") /\ clear_word' = TRUE
  /\ UNCHANGED <<terminal, buffer, quits, waiting_for_input, timeout, c, aborted>>

SetWaiting ==
  /\ At("waiting", "armed") /\ waiting_for_input' = TRUE
  /\ UNCHANGED <<terminal, buffer, quits, clear_word, timeout, c, aborted>>

TestFlagAgain ==
  /\ pc = "armed"
  /\ IF quit_flag THEN ThrowToRead
     ELSE pc' = "count" /\ UNCHANGED <<waiting_for_input, clear_word, input_pending, c>>
  /\ UNCHANGED <<terminal, mem, kbd_ptr, kbd_count, quits, timeout, aborted>>

(* Mutant of CountBeforeSelect: characters are not counted again. *)
NoCountBeforeSelect ==
  /\ At("count", "select")
  /\ UNCHANGED <<terminal, buffer, quits, wait, c, aborted>>

CountBeforeSelect ==
  /\ At("count", IF kbd_count > 0 THEN "clear" ELSE "select")
  /\ UNCHANGED <<terminal, buffer, quits, wait, c, aborted>>

Select ==
  /\ At("select", IF timeout THEN "sleep" ELSE "clear")
  /\ UNCHANGED <<terminal, buffer, quits, wait, c, aborted>>

(* Output of a process, or a hundred seconds.                              *)
WakeUp ==
  /\ At("sleep", "clear")
  /\ UNCHANGED <<terminal, buffer, quits, wait, c, aborted>>

ClearWaiting ==
  /\ At("clear", "pending") /\ waiting_for_input' = FALSE /\ clear_word' = FALSE
  /\ UNCHANGED <<terminal, buffer, quits, timeout, c, aborted>>

(* Mutant of ReturnOrWait: only what was known to be pending ends the wait. *)
ReturnIfNoticed ==
  /\ At("pending", IF input_pending THEN "loop" ELSE "limit")
  /\ UNCHANGED <<terminal, buffer, quits, wait, c, aborted>>

ReturnOrWait ==
  LET pending == input_pending \/ kbd_count > 0 \/ quit_flag
  IN  /\ At("pending", IF pending THEN "loop" ELSE "limit")
      /\ input_pending' = pending
      /\ UNCHANGED <<terminal, mem, kbd_ptr, kbd_count, quits, wait, c, aborted>>

(* Taking a character: three statements.                                   *)
CountDown ==
  /\ At("take", "fetch")
  /\ kbd_count' = kbd_count - 1 /\ input_pending' = (kbd_count > 1)
  /\ UNCHANGED <<terminal, mem, kbd_ptr, quits, wait, c, aborted>>

FetchChar ==
  /\ At("fetch", "advance") /\ c' = mem[kbd_ptr]
  /\ UNCHANGED <<terminal, buffer, quits, wait, aborted>>

Advance ==
  /\ At("advance", "got") /\ kbd_ptr' = kbd_ptr + 1
  /\ UNCHANGED <<terminal, mem, kbd_count, input_pending, quits, wait, c, aborted>>

(* read_key_sequence clears quit_flag and the command starts.              *)
StartCommand ==
  /\ At("got", "command") /\ quit_flag' = FALSE /\ c' = Junk
  /\ UNCHANGED <<terminal, buffer, immediate_quit, inhibit_quit, wait, aborted>>
-----------------------------------------------------------------------------
Command == BeginImmediate \/ EndImmediate \/ BindInhibitQuit \/ CheckQuit \/ DetectInputPending
           \/ SitForReturns \/ DiscardInput \/ SysModes \/ EndCommand
Waiting == SetTimeout \/ SetClearWord \/ SetWaiting \/ TestFlagAgain \/ CountBeforeSelect
           \/ Select \/ ClearWaiting \/ ReturnOrWait
Reading == ReadCommandChar \/ TestCount \/ TestFlag \/ GobbleInput \/ StillNone
           \/ CountDown \/ FetchChar \/ Advance \/ StartCommand
Next == (\E k \in Key \union {Quit} : Type(k)) \/ Sigio \/ WakeUp \/ Command \/ Waiting \/ Reading

Spec == Init /\ [][Next]_vars

(* The main program runs on, commands end, SIGIO is delivered.  Nothing    *)
(* else need ever wake it.                                                 *)
FairSpec == Spec /\ WF_vars(Waiting \/ Reading) /\ WF_vars(Sigio) /\ SF_vars(EndCommand)
                 /\ WF_vars(EndImmediate) /\ WF_vars(InCommand /\ ~interrupts /\ SysModes)
                 /\ WF_vars(InCommand /\ inhibit_quit /\ BindInhibitQuit)
-----------------------------------------------------------------------------
(* Emacs is never asleep in select with a character or a C-g it has        *)
(* noticed: whatever moment the signal came at, it prevents the sleep.     *)
NoSleepOverInput == pc = "sleep" => kbd_count = 0 /\ ~quit_flag

(* Fsignal is never called while waiting_for_input is set: it would abort. *)
NeverAborts == ~aborted

(* The reader's view; the character being taken is taken at once.          *)
Taking == pc \in {"fetch", "advance"}
queue == [i \in 1 .. kbd_count |-> mem[kbd_ptr + i - (IF Taking THEN 0 ELSE 1)]]
got == IF pc = "fetch" THEN mem[kbd_ptr]
       ELSE IF pc \in {"advance", "got"} THEN c ELSE "idle"
Promise == INSTANCE KeyQueue
ImplementsQueue == Promise!Spec

(* When input comes while Emacs reads a key, or came before, it gets one,  *)
(* even with no output of processes and no timeout to wake it.             *)
InputIsRead ==
  (pc \notin {"command", "got"} /\ (kbd_count > 0 \/ tty # <<>> \/ quit_flag)) ~> pc = "got"
=============================================================================
