------------------------ MODULE KeyboardInputProofs ------------------------
(***************************************************************************)
(* For any characters, any size of kbd_buffer and any number of signals:   *)
(* Emacs does not sleep over input, signals only where it may, and gives   *)
(* its reader the queue of KeyQueue.                                       *)
(*                                                                         *)
(* The argument for the sleep: between set_waiting_for_input and           *)
(* clear_waiting_for_input (Armed) a C-g throws, so quit_flag stays off    *)
(* once it was tested, and other input sets the timeout to zero; so what   *)
(* comes after kbd_count was tested makes select return (Awake).  Nothing  *)
(* signals there, as immediate_quit is only set in a command (Marked).     *)
(* The queue needs more: the handler does not come between the statements  *)
(* that take a character, so what is in use ends inside the buffer.        *)
(***************************************************************************)
EXTENDS KeyboardInput, SequenceTheorems, WellFoundedInduction, TLAPS

(* Where waiting_for_input is set. *)
Armed == {"armed", "count", "select", "sleep", "clear"}

(* Types of what decides about sleeping. *)
Counted ==
  /\ tty \in Seq(Key \union {Quit}) /\ kbd_count \in 0 .. Size /\ pc \in PC
  /\ quit_flag \in BOOLEAN /\ immediate_quit \in BOOLEAN /\ inhibit_quit \in BOOLEAN
  /\ waiting_for_input \in BOOLEAN /\ clear_word \in BOOLEAN /\ timeout \in BOOLEAN
  /\ input_pending \in BOOLEAN /\ aborted \in BOOLEAN /\ interrupts \in BOOLEAN

(* The marks the main program leaves for the handler fit its place. *)
Marked ==
  /\ waiting_for_input <=> pc \in Armed
  /\ clear_word <=> pc \in Armed \union {"waiting"}
  /\ immediate_quit => pc = "command"

(* Past a test of quit_flag or kbd_count, what was tested still holds, or *)
(* select will not sleep.                                                 *)
Awake ==
  /\ pc \in Armed \ {"armed"} => ~quit_flag
  /\ pc = "select" /\ timeout => kbd_count = 0
  /\ pc = "sleep" => kbd_count = 0
  /\ pc = "take" => kbd_count > 0

(* The invariant behind NoSleepOverInput and NeverAborts. *)
Waking == Counted /\ Marked /\ Awake /\ ~aborted

(* The characters in use, with the one being taken, are inside kbd_buffer. *)
InBuffer ==
  /\ typed \in 0 .. MaxTyped
  /\ mem \in [0 .. Size - 1 -> Char] /\ c \in Char
  /\ kbd_ptr \in Nat /\ kbd_ptr + kbd_count <= Size
  /\ Taking => kbd_ptr + kbd_count < Size

USE KeysAssumption, SizeAssumption

(* A set of natural numbers that is not empty has a least element.          *)
LEMMA LeastElement ==
  ASSUME NEW T, T \subseteq Nat, T # {}
  PROVE  \E x \in T : \A y \in T : x <= y
<1>1. IsWellFoundedOn(OpToRel(<, Nat), Nat)
  BY NatLessThanWellFounded, Zenon
<1>2. \E x \in T : \A y \in T : ~(<<y, x>> \in OpToRel(<, Nat))
  BY <1>1, WFMin, Zenon
<1>3. PICK x \in T : \A y \in T : ~(<<y, x>> \in OpToRel(<, Nat))
  BY <1>2, Zenon
<1>4. ASSUME NEW y \in T PROVE ~(y < x)
  BY <1>3, Zenon DEF OpToRel
<1>5. QED BY <1>4

(* The characters before the first C-g are ordinary, and they are all of    *)
(* them when there is no C-g.                                               *)
LEMMA PlainIsKeys ==
  ASSUME NEW chars \in Seq(Key \union {Quit})
  PROVE  Plain(chars) \in Seq(Key) /\ Len(Plain(chars)) <= Len(chars)
<1>1. CASE \A i \in DOMAIN chars : chars[i] # Quit
  <2>1. Plain(chars) = SubSeq(chars, 1, Len(chars))
    BY <1>1 DEF Plain
  <2>2. \A i \in 1 .. Len(chars) : chars[i] \in Key
    BY <1>1
  <2>3. QED
    BY <2>1, <2>2, SubSeqProperties, LenProperties
<1>2. CASE \E i \in DOMAIN chars : chars[i] = Quit
  <2> DEFINE T == {i \in DOMAIN chars : chars[i] = Quit}
             First(i) == chars[i] = Quit /\ \A j \in 1 .. i - 1 : chars[j] # Quit
  <2>1. T \subseteq Nat /\ T # {}
    BY <1>2
  <2>2. PICK x \in T : \A y \in T : x <= y
    BY <2>1, LeastElement
  <2>3. x \in DOMAIN chars /\ First(x)
    BY <2>2
  <2>4. PICK f : f = CHOOSE i \in DOMAIN chars : First(i)
    OBVIOUS
  <2>5. f \in DOMAIN chars /\ First(f)
    BY <2>3, <2>4
  <2>6. Plain(chars) = SubSeq(chars, 1, f - 1)
    BY <1>2, <2>4 DEF Plain
  <2>7. f \in 1 .. Len(chars) /\ \A i \in 1 .. f - 1 : chars[i] \in Key
    BY <2>5
  <2>8. QED
    BY <2>6, <2>7, SubSeqProperties, LenProperties
<1>3. QED BY <1>1, <1>2

(* What the handler does to the count, wherever it comes from.              *)
LEMMA StoreCharsCounts ==
  ASSUME NEW keys \in Seq(Key), kbd_count \in 0 .. Size, StoreChars(keys)
  PROVE  kbd_count' \in 0 .. Size /\ kbd_count' >= kbd_count
BY DEF StoreChars, Least

(* The invariant holds when Emacs begins to read.                           *)
LEMMA InitWaking == Init => Waking
BY DEF Init, Waking, Counted, Marked, Awake, Armed, PC

(* A character typed.                                                       *)
LEMMA TypeWaking ==
  ASSUME Waking, NEW k \in Key \union {Quit}, Type(k)
  PROVE  Waking'
BY DEF Type, Waking, Counted, Marked, Awake, buffer, quits, wait

(* The handler, from the statements that may call it or be interrupted.     *)
LEMMA HandlerWaking ==
  ASSUME Waking, NEW resume, InputAvailable(resume),
         resume = pc \/ (pc = "sleep" /\ resume = "clear") \/ (pc = "gobble" /\ resume = "still"),
         pc # "sleep" \/ resume = "clear"
  PROVE  Waking'
<1> DEFINE keys == Plain(tty)
<1>1. keys \in Seq(Key)
  BY PlainIsKeys DEF Waking, Counted
<1>2. kbd_count' \in 0 .. Size /\ kbd_count' >= kbd_count
  BY <1>1, StoreCharsCounts DEF InputAvailable, Waking, Counted
<1>3. tty' \in Seq(Key \union {Quit}) /\ interrupts' = interrupts
  BY DEF InputAvailable
<1>4. CASE keys = tty
  BY <1>2, <1>3, <1>4 DEF InputAvailable, Waking, Counted, Marked, Awake, Armed, PC, quits
<1>5. CASE keys # tty /\ immediate_quit /\ ~inhibit_quit
  BY <1>2, <1>3, <1>5 DEF InputAvailable, SignalQuit, Waking, Counted, Marked, Awake, Armed, PC, wait
<1>6. CASE keys # tty /\ ~(immediate_quit /\ ~inhibit_quit) /\ waiting_for_input
  BY <1>2, <1>3, <1>6 DEF InputAvailable, ThrowToRead, Waking, Counted, Marked, Awake, Armed, PC
<1>7. CASE keys # tty /\ ~(immediate_quit /\ ~inhibit_quit) /\ ~waiting_for_input
  <2>1. /\ quit_flag' = TRUE /\ pc' = resume /\ timeout' = (timeout /\ ~clear_word)
        /\ UNCHANGED <<immediate_quit, inhibit_quit, aborted, input_pending, waiting_for_input,
                      clear_word, c>>
    BY <1>7 DEF InputAvailable
  <2>2. pc \notin Armed /\ resume \notin Armed
    BY <1>7 DEF Waking, Marked, Armed
  <2>3. Counted'
    BY <1>2, <1>3, <2>1 DEF Waking, Counted, PC
  <2>4. Marked' /\ Awake'
    BY <1>2, <2>1, <2>2 DEF Waking, Counted, Marked, Awake, Armed
  <2>5. QED
    BY <2>1, <2>3, <2>4 DEF Waking
<1>8. QED BY <1>4, <1>5, <1>6, <1>7

(* A signal, in select or anywhere else.                                    *)
LEMMA SigioWaking ==
  ASSUME Waking, Sigio
  PROVE  Waking'
<1>1. PICK resume : resume = (IF pc = "sleep" THEN "clear" ELSE pc)
  OBVIOUS
<1>2. InputAvailable(resume)
  BY <1>1 DEF Sigio
<1>3. QED
  BY <1>1, <1>2, HandlerWaking

(* Commands run with waiting_for_input off; they may signal.                *)
LEMMA CommandWaking ==
  ASSUME Waking, Command
  PROVE  Waking'
<1> USE DEF Waking, Counted, Marked, Awake, Armed, PC, InCommand, terminal, buffer, quits, wait
<1>1. CASE BeginImmediate
  BY <1>1 DEF BeginImmediate
<1>2. CASE EndImmediate
  BY <1>2 DEF EndImmediate
<1>3. CASE BindInhibitQuit
  BY <1>3 DEF BindInhibitQuit
<1>4. CASE CheckQuit
  <2>1. ~waiting_for_input
    BY <1>4 DEF CheckQuit
  <2>2. ~aborted'
    BY <1>4, <2>1 DEF CheckQuit, SignalQuit
  <2>3. QED
    BY <1>4, <2>2 DEF CheckQuit, SignalQuit
<1>5. CASE DetectInputPending
  BY <1>5 DEF DetectInputPending
<1>6. CASE SitForReturns
  BY <1>6 DEF SitForReturns
<1>7. CASE DiscardInput
  <2>1. Counted'
    <3>1. tty' \in Seq(Key \union {Quit}) /\ kbd_count' \in 0 .. Size
      BY <1>7 DEF DiscardInput
    <3>2. QED
      BY <1>7, <3>1 DEF DiscardInput
  <2>2. Marked' /\ Awake' /\ ~aborted'
    BY <1>7 DEF DiscardInput
  <2>3. QED
    BY <2>1, <2>2
<1>8. CASE SysModes
  BY <1>8 DEF SysModes
<1>9. CASE EndCommand
  BY <1>9 DEF EndCommand
<1>10. QED BY <1>1, <1>2, <1>3, <1>4, <1>5, <1>6, <1>7, <1>8, <1>9 DEF Command

(* The wait: set_waiting_for_input, the tests, select, clear_waiting_for_input. *)
LEMMA WaitingWaking ==
  ASSUME Waking, Waiting \/ WakeUp
  PROVE  Waking'
<1> USE DEF Waking, Counted, Marked, Awake, Armed, PC, At, terminal, buffer, quits, wait
<1>1. CASE SetTimeout
  BY <1>1 DEF SetTimeout
<1>2. CASE SetClearWord
  BY <1>2 DEF SetClearWord
<1>3. CASE SetWaiting
  BY <1>3 DEF SetWaiting
<1>4. CASE TestFlagAgain
  BY <1>4 DEF TestFlagAgain, ThrowToRead
<1>5. CASE CountBeforeSelect
  BY <1>5 DEF CountBeforeSelect
<1>6. CASE Select
  BY <1>6 DEF Select
<1>7. CASE WakeUp
  BY <1>7 DEF WakeUp
<1>8. CASE ClearWaiting
  BY <1>8 DEF ClearWaiting
<1>9. CASE ReturnOrWait
  BY <1>9 DEF ReturnOrWait
<1>10. QED BY <1>1, <1>2, <1>3, <1>4, <1>5, <1>6, <1>7, <1>8, <1>9 DEF Waiting

(* The reader of characters around the wait.                                *)
LEMMA ReadingWaking ==
  ASSUME Waking, Reading
  PROVE  Waking'
<1>1. CASE GobbleInput /\ tty # <<>>
  BY <1>1, HandlerWaking DEF GobbleInput
<1> USE DEF Waking, Counted, Marked, Awake, Armed, PC, At, terminal, buffer, quits, wait
<1>2. CASE GobbleInput /\ tty = <<>>
  BY <1>2 DEF GobbleInput
<1>3. CASE ReadCommandChar
  BY <1>3 DEF ReadCommandChar
<1>4. CASE TestCount
  BY <1>4 DEF TestCount
<1>5. CASE TestFlag
  BY <1>5 DEF TestFlag, ThrowToRead
<1>6. CASE StillNone
  BY <1>6 DEF StillNone
<1>7. CASE CountDown
  BY <1>7 DEF CountDown
<1>8. CASE FetchChar
  BY <1>8 DEF FetchChar
<1>9. CASE Advance
  BY <1>9 DEF Advance
<1>10. CASE StartCommand
  BY <1>10 DEF StartCommand
<1>11. QED BY <1>1, <1>2, <1>3, <1>4, <1>5, <1>6, <1>7, <1>8, <1>9, <1>10 DEF Reading

(* Every step keeps the invariant.                                          *)
LEMMA StepWaking == Waking /\ [Next]_vars => Waking'
<1> SUFFICES ASSUME Waking, [Next]_vars PROVE Waking'
  OBVIOUS
<1>1. CASE UNCHANGED vars
  BY <1>1 DEF vars, terminal, buffer, quits, wait, Waking, Counted, Marked, Awake
<1>2. CASE Next
  BY <1>2, TypeWaking, SigioWaking, CommandWaking, WaitingWaking, ReadingWaking DEF Next
<1>3. QED BY <1>1, <1>2

(* Emacs is never asleep in select with a character stored or a C-g         *)
(* noticed, wherever between two statements of wait_reading_process_input   *)
(* the signal came, inside the taking of a character too.                   *)
THEOREM NeverAsleepOverInput == Spec => []NoSleepOverInput
<1>1. Waking => NoSleepOverInput
  BY DEF Waking, Counted, Awake, Armed, NoSleepOverInput
<1>2. QED
  BY InitWaking, StepWaking, <1>1, PTL DEF Spec

(* No quit reaches Fsignal while waiting_for_input is set, where it aborts. *)
THEOREM SignalsAreAllowed == Spec => []NeverAborts
<1>1. Waking => NeverAborts
  BY DEF Waking, NeverAborts
<1>2. QED
  BY InitWaking, StepWaking, <1>1, PTL DEF Spec

(* The characters in use stay inside kbd_buffer, when no signal comes       *)
(* between the statements that take one.                                    *)
LEMMA StoreCharsFits ==
  ASSUME NEW keys \in Seq(Key), StoreChars(keys), kbd_count \in 0 .. Size, kbd_ptr \in Nat,
         kbd_ptr + kbd_count <= Size, mem \in [0 .. Size - 1 -> Char]
  PROVE  /\ mem' \in [0 .. Size - 1 -> Char]
         /\ kbd_ptr' \in Nat /\ kbd_ptr' + kbd_count' <= Size
<1>1. CASE keys = <<>>
  BY <1>1 DEF StoreChars
<1>2. CASE keys # <<>>
  <2>1. kbd_ptr' = 0 /\ kbd_count' = Least(kbd_count + Len(keys), Size)
    BY <1>2 DEF StoreChars
  <2>2. kbd_count' <= Size
    BY <2>1 DEF Least
  <2>3. \A i \in 1 .. Len(keys) : keys[i] \in Char
    BY DEF Char
  <2>4. mem' \in [0 .. Size - 1 -> Char]
    <3>1. ASSUME NEW i \in 0 .. Size - 1
          PROVE  (IF i < kbd_count THEN mem[kbd_ptr + i]
                  ELSE IF i < kbd_count + Len(keys) THEN keys[i - kbd_count + 1]
                  ELSE mem[i]) \in Char
      <4>1. CASE i < kbd_count
        BY <4>1
      <4>2. CASE ~(i < kbd_count) /\ i < kbd_count + Len(keys)
        BY <4>2, <2>3
      <4>3. CASE ~(i < kbd_count) /\ ~(i < kbd_count + Len(keys))
        BY <4>3
      <4>4. QED BY <4>1, <4>2, <4>3
    <3>2. QED
      BY <1>2, <3>1 DEF StoreChars
  <2>5. QED BY <2>1, <2>2, <2>4
<1>3. QED BY <1>1, <1>2

(* The invariant behind TypeOK and the refinement. *)
Typed == Waking /\ InBuffer

(* It holds when Emacs begins to read.                                      *)
LEMMA InitTyped == Init => Typed
<1>1. Init => InBuffer
  BY DEF Init, InBuffer, Taking, Char
<1>2. QED BY <1>1, InitWaking DEF Typed

(* The handler leaves the characters in use inside the buffer.              *)
LEMMA HandlerInBuffer ==
  ASSUME Typed, NEW resume, InputAvailable(resume), ~Taking, resume \notin {"fetch", "advance"}
  PROVE  InBuffer'
<1> DEFINE keys == Plain(tty)
<1>1. keys \in Seq(Key)
  BY PlainIsKeys DEF Typed, Waking, Counted
<1>2. /\ mem' \in [0 .. Size - 1 -> Char]
      /\ kbd_ptr' \in Nat /\ kbd_ptr' + kbd_count' <= Size
  BY <1>1, StoreCharsFits DEF InputAvailable, Typed, Waking, Counted, InBuffer
<1>3. c' \in Char /\ typed' \in 0 .. MaxTyped /\ kbd_count' \in Nat
  BY <1>1, StoreCharsCounts DEF InputAvailable, SignalQuit, ThrowToRead, Typed, Waking, Counted,
     InBuffer, Char
<1>4. pc' \notin {"fetch", "advance"}
  BY DEF InputAvailable, SignalQuit, ThrowToRead
<1>5. QED
  BY <1>2, <1>3, <1>4 DEF InBuffer, Taking

(* So does every step.                                                      *)
LEMMA StepInBuffer ==
  ASSUME ~Torn, Typed, Next
  PROVE  InBuffer'
<1> USE DEF Typed, InBuffer, Taking, InCommand, At, terminal, buffer, quits, wait
<1>1. ASSUME NEW k \in Key \union {Quit}, Type(k) PROVE InBuffer'
  BY <1>1 DEF Type, Waking, Counted
<1>2. CASE Sigio
  <2>1. PICK resume : resume = (IF pc = "sleep" THEN "clear" ELSE pc)
    OBVIOUS
  <2>2. InputAvailable(resume) /\ pc \notin {"fetch", "advance"}
    BY <1>2, <2>1 DEF Sigio
  <2>3. QED
    BY <2>1, <2>2, HandlerInBuffer
<1>3. CASE GobbleInput /\ tty # <<>>
  BY <1>3, HandlerInBuffer DEF GobbleInput
<1>4. CASE GobbleInput /\ tty = <<>>
  BY <1>4 DEF GobbleInput
<1>5. CASE BeginImmediate \/ EndImmediate \/ BindInhibitQuit
  BY <1>5 DEF BeginImmediate, EndImmediate, BindInhibitQuit
<1>6. CASE CheckQuit
  BY <1>6 DEF CheckQuit, SignalQuit, Char
<1>7. CASE DetectInputPending \/ SitForReturns \/ SysModes \/ EndCommand
  BY <1>7 DEF DetectInputPending, SitForReturns, SysModes, EndCommand
<1>8. CASE DiscardInput
  BY <1>8 DEF DiscardInput, Waking, Counted
<1>9. CASE SetTimeout \/ SetClearWord \/ SetWaiting \/ ClearWaiting \/ ReturnOrWait
  BY <1>9 DEF SetTimeout, SetClearWord, SetWaiting, ClearWaiting, ReturnOrWait
<1>10. CASE TestFlagAgain \/ TestFlag
  BY <1>10 DEF TestFlagAgain, TestFlag, ThrowToRead, Char
<1>11. CASE CountBeforeSelect \/ Select \/ WakeUp
  BY <1>11 DEF CountBeforeSelect, Select, WakeUp
<1>12. CASE ReadCommandChar \/ TestCount \/ StillNone
  BY <1>12 DEF ReadCommandChar, TestCount, StillNone
<1>13. CASE CountDown
  BY <1>13 DEF CountDown, Waking, Counted, Awake
<1>14. CASE FetchChar
  BY <1>14 DEF FetchChar, Waking, Counted
<1>15. CASE Advance
  BY <1>15 DEF Advance, Waking, Counted
<1>16. CASE StartCommand
  BY <1>16 DEF StartCommand, Char
<1>17. QED
  BY <1>1, <1>2, <1>3, <1>4, <1>5, <1>6, <1>7, <1>8, <1>9, <1>10, <1>11, <1>12, <1>13, <1>14,
     <1>15, <1>16 DEF Next, Command, Waiting, Reading

(* Every step keeps the whole invariant.                                    *)
LEMMA StepTyped ==
  ASSUME ~Torn
  PROVE  Typed /\ [Next]_vars => Typed'
<1>1. Typed /\ UNCHANGED vars => InBuffer'
  BY DEF Typed, InBuffer, Taking, vars, terminal, buffer, quits, wait
<1>2. QED
  BY <1>1, StepInBuffer, StepWaking DEF Typed

(* Types are kept: kbd_ptr and kbd_count stay in the range of kbd_buffer,   *)
(* if no signal comes while a character is taken.                           *)
THEOREM TypesAreKept ==
  ASSUME ~Torn
  PROVE  Spec => []TypeOK
<1>1. Typed => TypeOK
  BY DEF Typed, Waking, Counted, InBuffer, TypeOK
<1>2. Typed /\ [Next]_vars => Typed'
  BY StepTyped
<1>3. QED
  BY InitTyped, <1>1, <1>2, PTL DEF Spec

(* What KeyQueue makes of a queue when keys are stored.                     *)
Stored(q, keys) ==
  SubSeq(q \o keys, 1, IF Len(q) + Len(keys) > Size THEN Size ELSE Len(q) + Len(keys))

(* The queue is a sequence, its characters those in use.                    *)
QueueShape ==
  /\ queue \in Seq(Char) /\ Len(queue) = kbd_count
  /\ ~Taking => \A i \in 1 .. kbd_count : queue[i] = mem[kbd_ptr + i - 1]
  /\ Taking => \A i \in 1 .. kbd_count : queue[i] = mem[kbd_ptr + i]

(* The invariant gives the queue this shape, in every state.                *)
LEMMA QueueIsSequence == Typed => QueueShape
<1> SUFFICES ASSUME Typed PROVE QueueShape
  OBVIOUS
<1> USE DEF QueueShape
<1>0. kbd_count \in Nat /\ kbd_ptr \in Nat
  BY DEF Typed, Waking, Counted, InBuffer
<1>1. CASE Taking
  <2>1. queue = [i \in 1 .. kbd_count |-> mem[kbd_ptr + i]]
    BY <1>0, <1>1 DEF queue
  <2>2. \A i \in 1 .. kbd_count : mem[kbd_ptr + i] \in Char
    BY <1>0, <1>1 DEF Typed, InBuffer
  <2>3. QED
    BY <1>0, <1>1, <2>1, <2>2
<1>2. CASE ~Taking
  <2>1. queue = [i \in 1 .. kbd_count |-> mem[kbd_ptr + i - 1]]
    BY <1>0, <1>2 DEF queue
  <2>2. \A i \in 1 .. kbd_count : mem[kbd_ptr + i - 1] \in Char
    BY <1>0, <1>2 DEF Typed, InBuffer
  <2>3. QED
    BY <1>0, <1>2, <2>1, <2>2
<1>3. QED BY <1>1, <1>2

(* The same of the state after a step.                                      *)
LEMMA QueueIsSequenceNext == Typed' => QueueShape'
BY QueueIsSequence, PTL

(* StoreChars puts the characters at the end of the queue, as far as there  *)
(* is room.                                                                 *)
LEMMA StoreCharsAppends ==
  ASSUME NEW keys \in Seq(Key), Typed, Typed', ~Taking, ~Taking', StoreChars(keys)
  PROVE  queue' = Stored(queue, keys)
<1>1. /\ queue \in Seq(Char) /\ Len(queue) = kbd_count
      /\ \A i \in 1 .. kbd_count : queue[i] = mem[kbd_ptr + i - 1]
  BY QueueIsSequence DEF QueueShape
<1>2. /\ queue' \in Seq(Char) /\ Len(queue') = kbd_count'
      /\ \A i \in 1 .. kbd_count' : queue'[i] = mem'[kbd_ptr' + i - 1]
  BY QueueIsSequenceNext DEF QueueShape
<1>3. keys \in Seq(Char) /\ kbd_count \in 0 .. Size /\ kbd_ptr \in Nat /\ Len(keys) \in Nat
  BY SeqMonotonic, LenProperties DEF Char, Typed, Waking, Counted, InBuffer
<1>4. CASE keys = <<>>
  <2>1. queue' = queue
    BY <1>1, <1>2, <1>4, SeqEqual DEF StoreChars
  <2>2. queue \o keys = queue
    BY <1>1, <1>4, ConcatEmptySeq
  <2>3. Stored(queue, keys) = SubSeq(queue, 1, Len(queue))
    BY <1>1, <1>3, <1>4, <2>2 DEF Stored
  <2>4. QED BY <1>1, <2>1, <2>3, SubSeqFull
<1>5. CASE keys # <<>>
  <2> DEFINE n == IF Len(queue) + Len(keys) > Size THEN Size ELSE Len(queue) + Len(keys)
  <2>0. PICK all : all = queue \o keys
    OBVIOUS
  <2>1. /\ all \in Seq(Char) /\ Len(all) = kbd_count + Len(keys)
        /\ \A i \in 1 .. kbd_count + Len(keys) :
             all[i] = IF i <= kbd_count THEN queue[i] ELSE keys[i - kbd_count]
    <3>1. /\ all \in Seq(Char) /\ Len(all) = Len(queue) + Len(keys)
          /\ \A i \in 1 .. Len(queue) + Len(keys) :
               all[i] = IF i <= Len(queue) THEN queue[i] ELSE keys[i - Len(queue)]
      BY <1>1, <1>3, <2>0, ConcatProperties
    <3>2. QED BY <1>1, <3>1
  <2>2. n \in 0 .. Len(all) /\ kbd_count' = n /\ kbd_ptr' = 0
    <3>1. kbd_count' = Least(kbd_count + Len(keys), Size) /\ kbd_ptr' = 0
      BY <1>5 DEF StoreChars
    <3>2. QED BY <1>1, <1>3, <2>1, <3>1 DEF Least
  <2>3. /\ SubSeq(all, 1, n) \in Seq(Char) /\ Len(SubSeq(all, 1, n)) = n
        /\ \A i \in 1 .. n : SubSeq(all, 1, n)[i] = all[i]
    BY <2>1, <2>2, SubSeqProperties
  <2>4. ASSUME NEW i \in 1 .. n
        PROVE  queue'[i] = all[i]
    <3>1. i - 1 \in 0 .. Size - 1 /\ i \in 1 .. kbd_count + Len(keys)
      BY <1>1, <1>3
    <3>2. queue'[i] = mem'[i - 1]
      BY <1>2, <2>2
    <3>3. mem'[i - 1] = IF i - 1 < kbd_count THEN mem[kbd_ptr + (i - 1)]
                        ELSE IF i - 1 < kbd_count + Len(keys) THEN keys[(i - 1) - kbd_count + 1]
                        ELSE mem[i - 1]
      BY <1>5, <3>1 DEF StoreChars
    <3>4. CASE i <= kbd_count
      BY <1>1, <1>3, <2>1, <3>1, <3>2, <3>3, <3>4
    <3>5. CASE i > kbd_count
      BY <1>1, <1>3, <2>1, <3>1, <3>2, <3>3, <3>5
    <3>6. QED BY <1>3, <3>4, <3>5
  <2>5. queue' = SubSeq(all, 1, n)
    BY <1>2, <2>2, <2>3, <2>4, SeqEqual
  <2>6. QED BY <2>0, <2>5 DEF Stored
<1>6. QED BY <1>4, <1>5

(* What is beyond the size of the buffer makes no difference.               *)
LEMMA StoredIsCut ==
  ASSUME NEW q \in Seq(Char), Len(q) <= Size, NEW keys \in Seq(Key)
  PROVE  \E few \in Promise!Typed : Stored(q, keys) = Stored(q, few)
<1>1. CASE Len(keys) <= Size
  <2>1. keys \in [1 .. Len(keys) -> Key] /\ Len(keys) \in 0 .. Size
    BY <1>1, LenProperties
  <2>2. QED BY <2>1 DEF Promise!Typed
<1>2. CASE Len(keys) > Size
  <2>0. PICK few : few = SubSeq(keys, 1, Size)
    OBVIOUS
  <2>1. /\ few \in Seq(Key) /\ Len(few) = Size
        /\ \A i \in 1 .. Size : few[i] = keys[i]
    BY <1>2, <2>0, SubSeqProperties, ElementOfSeq
  <2>2. few \in Promise!Typed
    <3>1. few \in [1 .. Size -> Key]
      BY <2>1, LenProperties
    <3>2. QED BY <3>1 DEF Promise!Typed
  <2>3. keys \in Seq(Char) /\ few \in Seq(Char)
    BY <2>1, SeqMonotonic DEF Char
  <2>4. Stored(q, keys) = SubSeq(q \o keys, 1, Size) /\ Stored(q, few) = SubSeq(q \o few, 1, Size)
    BY <1>2, <2>1, LenProperties DEF Stored
  <2>5. /\ q \o keys \in Seq(Char) /\ Len(q \o keys) = Len(q) + Len(keys)
        /\ \A i \in 1 .. Len(q) + Len(keys) :
             (q \o keys)[i] = IF i <= Len(q) THEN q[i] ELSE keys[i - Len(q)]
    BY <2>3, ConcatProperties
  <2>6. /\ q \o few \in Seq(Char) /\ Len(q \o few) = Len(q) + Size
        /\ \A i \in 1 .. Len(q) + Size :
             (q \o few)[i] = IF i <= Len(q) THEN q[i] ELSE few[i - Len(q)]
    <3>1. /\ q \o few \in Seq(Char) /\ Len(q \o few) = Len(q) + Len(few)
          /\ \A i \in 1 .. Len(q) + Len(few) :
               (q \o few)[i] = IF i <= Len(q) THEN q[i] ELSE few[i - Len(q)]
      BY <2>3, ConcatProperties
    <3>2. QED BY <2>1, <3>1
  <2>7. ASSUME NEW i \in 1 .. Size
        PROVE  (q \o keys)[i] = (q \o few)[i]
    <3>1. Len(q) \in Nat /\ Len(keys) \in Nat
      BY LenProperties
    <3>2. CASE i <= Len(q)
      BY <1>2, <2>5, <2>6, <3>1, <3>2
    <3>3. CASE i > Len(q)
      <4>1. i - Len(q) \in 1 .. Size
        BY <3>1, <3>3
      <4>2. (q \o keys)[i] = keys[i - Len(q)]
        BY <1>2, <2>5, <3>1, <3>3
      <4>3. (q \o few)[i] = few[i - Len(q)]
        BY <2>6, <3>1, <3>3
      <4>4. QED BY <2>1, <4>1, <4>2, <4>3
    <3>4. i <= Len(q) \/ i > Len(q)
      BY <3>1
    <3>5. QED BY <3>2, <3>3, <3>4, Zenon
  <2>8. QED
    <3> DEFINE s == SubSeq(q \o keys, 1, Size)
               t == SubSeq(q \o few, 1, Size)
    <3>0. Len(q) \in Nat /\ Len(keys) \in Nat
      BY LenProperties
    <3>1. s \in Seq(Char) /\ Len(s) = Size /\ \A i \in 1 .. Size : s[i] = (q \o keys)[i]
      BY <1>2, <2>5, <3>0, SubSeqProperties, ElementOfSeq
    <3>2. t \in Seq(Char) /\ Len(t) = Size /\ \A i \in 1 .. Size : t[i] = (q \o few)[i]
      BY <2>6, <3>0, SubSeqProperties, ElementOfSeq
    <3>3. s = t
      BY <2>7, <3>1, <3>2, SeqEqual
    <3>4. QED BY <2>2, <2>4, <3>3
<1>3. QED BY <1>1, <1>2, LenProperties

(* The queue is empty at first.                                             *)
LEMMA InitRefines == Init => Promise!Init
BY DEF Init, Promise!Init, queue, got, Taking, Promise!Idle

(* The handler stores in the queue, and hands a C-g over.                   *)
LEMMA HandlerRefines ==
  ASSUME Typed, Typed', NEW resume, InputAvailable(resume), ~Taking, resume \notin {"fetch", "advance"},
         resume = pc \/ (pc = "sleep" /\ resume = "clear") \/ (pc = "gobble" /\ resume = "still")
  PROVE  Promise!Next
<1>0. PICK keys : keys = Plain(tty)
  OBVIOUS
<1>1. keys \in Seq(Key) /\ StoreChars(keys)
  BY <1>0, PlainIsKeys DEF InputAvailable, Typed, Waking, Counted
<1>2. pc' \notin {"fetch", "advance"}
  BY DEF InputAvailable, SignalQuit, ThrowToRead
<1>3. queue' = Stored(queue, keys)
  BY <1>1, <1>2, StoreCharsAppends DEF Taking
<1>4. PICK few \in Promise!Typed : queue' = Stored(queue, few)
  <2>1. queue \in Seq(Char) /\ Len(queue) <= Size
    BY QueueIsSequence DEF QueueShape, Typed, Waking, Counted
  <2>2. QED BY <1>1, <1>3, <2>1, StoredIsCut
<1>5. CASE keys = tty
  <2>1. got' = got
    BY <1>0, <1>5 DEF InputAvailable, got, Taking
  <2>2. Promise!Store(few)
    BY <1>4, <2>1 DEF Promise!Store, Stored
  <2>3. QED BY <2>2 DEF Promise!Next
<1>6. CASE keys # tty /\ immediate_quit /\ ~inhibit_quit
  <2>1. pc = "command" /\ pc' = "read"
    BY <1>0, <1>6 DEF InputAvailable, SignalQuit, Typed, Waking, Marked
  <2>2. got' = got
    BY <2>1 DEF got, Taking
  <2>3. Promise!Store(few)
    BY <1>4, <2>2 DEF Promise!Store, Stored
  <2>4. QED BY <2>3 DEF Promise!Next
<1>7. CASE keys # tty /\ ~(immediate_quit /\ ~inhibit_quit) /\ waiting_for_input
  <2>1. pc \in Armed /\ pc' = "got" /\ c' = Quit
    BY <1>0, <1>7 DEF InputAvailable, ThrowToRead, Typed, Waking, Marked
  <2>2. got = Promise!Idle /\ got' = Quit
    BY <2>1 DEF got, Taking, Armed, Promise!Idle
  <2>3. Promise!TakeQuit(few)
    BY <1>4, <2>2 DEF Promise!TakeQuit, Stored
  <2>4. QED BY <2>3 DEF Promise!Next
<1>8. CASE keys # tty /\ ~(immediate_quit /\ ~inhibit_quit) /\ ~waiting_for_input
  <2>1. pc' = resume /\ c' = c
    BY <1>0, <1>8 DEF InputAvailable
  <2>2. got' = got
    BY <2>1 DEF got, Taking
  <2>3. Promise!Store(few)
    BY <1>4, <2>2 DEF Promise!Store, Stored
  <2>4. QED BY <2>3 DEF Promise!Next
<1>9. QED BY <1>5, <1>6, <1>7, <1>8

(* A step that moves between places where no character is being taken, and  *)
(* leaves the characters alone, is no step of the queue.                    *)
Outside == {"command", "read", "loop", "flag", "gobble", "still", "limit", "arm", "waiting", "armed",
            "count", "select", "sleep", "clear", "pending", "take"}

LEMMA StutterOutside ==
  ASSUME pc \in Outside, pc' \in Outside, UNCHANGED <<mem, kbd_ptr, kbd_count>>
  PROVE  UNCHANGED <<queue, got>>
BY DEF queue, got, Taking, Outside

(* A C-g noticed by the main program is handed over like one the handler    *)
(* sees.                                                                    *)
LEMMA ThrowRefines ==
  ASSUME Typed, pc \in Outside, ThrowToRead, UNCHANGED <<mem, kbd_ptr, kbd_count>>
  PROVE  Promise!Next
<1>1. pc' = "got" /\ c' = Quit
  BY DEF ThrowToRead
<1>2. queue' = queue
  BY <1>1 DEF queue, Taking, Outside
<1>3. got = Promise!Idle /\ got' = Quit
  BY <1>1 DEF got, Taking, Outside, Promise!Idle
<1>4. queue \in Seq(Char) /\ Len(queue) <= Size /\ <<>> \in Seq(Key)
  BY QueueIsSequence DEF QueueShape, Typed, Waking, Counted
<1>5. Stored(queue, <<>>) = queue
  BY <1>4, ConcatEmptySeq, SubSeqFull, LenProperties, EmptySeq DEF Stored
<1>6. PICK few \in Promise!Typed : queue' = Stored(queue, few)
  BY <1>2, <1>4, <1>5, StoredIsCut
<1>7. Promise!TakeQuit(few)
  BY <1>3, <1>6 DEF Promise!TakeQuit, Stored
<1>8. QED BY <1>7 DEF Promise!Next

(* Taking a character takes the first of the queue.                         *)
LEMMA CountDownRefines ==
  ASSUME Typed, Typed', CountDown
  PROVE  Promise!Take
<1>1. /\ pc = "take" /\ pc' = "fetch" /\ kbd_count' = kbd_count - 1 /\ kbd_count > 0
      /\ UNCHANGED <<mem, kbd_ptr>>
  BY DEF CountDown, At, Typed, Waking, Awake
<1>2. /\ queue \in Seq(Char) /\ Len(queue) = kbd_count
      /\ \A i \in 1 .. kbd_count : queue[i] = mem[kbd_ptr + i - 1]
  BY <1>1, QueueIsSequence DEF QueueShape, Taking
<1>3. /\ queue' \in Seq(Char) /\ Len(queue') = kbd_count'
      /\ \A i \in 1 .. kbd_count' : queue'[i] = mem'[kbd_ptr' + i]
  BY <1>1, QueueIsSequenceNext DEF QueueShape, Taking
<1>4. kbd_count \in Nat /\ kbd_ptr \in Nat
  BY DEF Typed, Waking, Counted, InBuffer
<1>5. queue # <<>>
  BY <1>1, <1>2, <1>4, EmptySeq
<1>6. got = Promise!Idle /\ got' = mem[kbd_ptr]
  BY <1>1 DEF got, Taking, Promise!Idle
<1>7. got' = Head(queue)
  BY <1>1, <1>2, <1>4, <1>5, <1>6
<1>8. queue' = Tail(queue)
  <2>1. /\ Tail(queue) \in Seq(Char) /\ Len(Tail(queue)) = kbd_count - 1
        /\ \A i \in 1 .. kbd_count - 1 : Tail(queue)[i] = queue[i + 1]
    BY <1>2, <1>5, HeadTailProperties
  <2>2. ASSUME NEW i \in 1 .. kbd_count - 1
        PROVE  queue'[i] = Tail(queue)[i]
    <3>1. i \in 1 .. kbd_count' /\ i + 1 \in 1 .. kbd_count /\ kbd_ptr + (i + 1) - 1 = kbd_ptr + i
      BY <1>1, <1>4
    <3>2. queue'[i] = mem[kbd_ptr + i]
      BY <1>1, <1>3, <3>1
    <3>3. queue[i + 1] = mem[kbd_ptr + i]
      BY <1>2, <3>1
    <3>4. QED BY <2>1, <3>2, <3>3
  <2>3. QED BY <1>1, <1>3, <2>1, <2>2, SeqEqual
<1>9. QED BY <1>5, <1>6, <1>7, <1>8 DEF Promise!Take

(* Each step is one of the queue, or none.                                  *)
LEMMA StepRefines ==
  ASSUME ~Torn, Typed, Next
  PROVE  Promise!Next \/ UNCHANGED <<queue, got>>
<1>0. Typed'
  BY StepTyped
<1> USE DEF InCommand, At, terminal, buffer, quits, wait
<1>1. ASSUME NEW k \in Key \union {Quit}, Type(k)
      PROVE  UNCHANGED <<queue, got>>
  BY <1>1 DEF Type, queue, got, Taking
<1>2. CASE Sigio
  <2>1. PICK resume : resume = (IF pc = "sleep" THEN "clear" ELSE pc)
    OBVIOUS
  <2>2. InputAvailable(resume) /\ pc \notin {"fetch", "advance"}
    BY <1>2, <2>1 DEF Sigio
  <2>3. QED
    BY <1>0, <2>1, <2>2, HandlerRefines DEF Taking
<1>3. CASE GobbleInput /\ tty # <<>>
  BY <1>0, <1>3, HandlerRefines DEF GobbleInput, Taking
<1>4. CASE GobbleInput /\ tty = <<>>
  BY <1>4, StutterOutside DEF GobbleInput, Outside
<1>5. CASE BeginImmediate \/ EndImmediate \/ BindInhibitQuit \/ SysModes
  BY <1>5, StutterOutside DEF BeginImmediate, EndImmediate, BindInhibitQuit, SysModes, Outside
<1>6. CASE CheckQuit
  BY <1>6, StutterOutside DEF CheckQuit, SignalQuit, Outside
<1>7. CASE DetectInputPending \/ SitForReturns \/ EndCommand
  BY <1>7, StutterOutside DEF DetectInputPending, SitForReturns, EndCommand, Outside
<1>8. CASE DiscardInput
  <2>1. queue' = <<>> /\ UNCHANGED got
    BY <1>8 DEF DiscardInput, queue, got, Taking
  <2>2. QED
    BY <2>1 DEF Promise!Discard, Promise!Next
<1>9. CASE SetTimeout \/ SetClearWord \/ SetWaiting \/ ClearWaiting \/ ReturnOrWait
  BY <1>9, StutterOutside
     DEF SetTimeout, SetClearWord, SetWaiting, ClearWaiting, ReturnOrWait, Outside
<1>10. CASE (TestFlagAgain \/ TestFlag) /\ quit_flag
  BY <1>10, ThrowRefines DEF TestFlagAgain, TestFlag, Outside
<1>11. CASE (TestFlagAgain \/ TestFlag) /\ ~quit_flag
  BY <1>11, StutterOutside DEF TestFlagAgain, TestFlag, Outside
<1>12. CASE CountBeforeSelect \/ Select \/ WakeUp
  BY <1>12, StutterOutside DEF CountBeforeSelect, Select, WakeUp, Outside
<1>13. CASE ReadCommandChar \/ TestCount \/ StillNone
  BY <1>13, StutterOutside DEF ReadCommandChar, TestCount, StillNone, Outside
<1>14. CASE CountDown
  BY <1>0, <1>14, CountDownRefines DEF Promise!Next
<1>15. CASE FetchChar
  BY <1>15 DEF FetchChar, queue, got, Taking
<1>16. CASE Advance
  <2>1. /\ pc = "advance" /\ pc' = "got" /\ kbd_ptr' = kbd_ptr + 1 /\ c' = c
        /\ UNCHANGED <<mem, kbd_count>>
    BY <1>16 DEF Advance
  <2>2. got' = got
    BY <2>1 DEF got, Taking
  <2>3. QueueShape /\ QueueShape'
    BY <1>0, QueueIsSequence, QueueIsSequenceNext
  <2>4. Taking /\ ~Taking' /\ kbd_ptr \in Nat /\ kbd_count \in Nat
    BY <2>1 DEF Taking, Typed, Waking, Counted, InBuffer
  <2>5. \A i \in 1 .. kbd_count : queue'[i] = queue[i]
    BY <2>1, <2>3, <2>4 DEF QueueShape
  <2>6. queue' = queue
    BY <2>1, <2>3, <2>5, SeqEqual DEF QueueShape
  <2>7. QED BY <2>2, <2>6
<1>17. CASE StartCommand
  <2>1. /\ pc = "got" /\ pc' = "command" /\ got = c /\ got' = "idle"
        /\ UNCHANGED <<mem, kbd_ptr, kbd_count>>
    BY <1>17 DEF StartCommand, got, Taking
  <2>2. queue' = queue
    BY <2>1 DEF queue, Taking
  <2>3. QED
    BY <2>1, <2>2 DEF Promise!Command, Promise!Idle, Promise!Next
<1>18. QED
  BY <1>1, <1>2, <1>3, <1>4, <1>5, <1>6, <1>7, <1>8, <1>9, <1>10, <1>11, <1>12, <1>13, <1>14,
     <1>15, <1>16, <1>17 DEF Next, Command, Waiting, Reading

(* What the reader of the keyboard gets, with SIGIO at any statement but    *)
(* those that take a character, is what KeyQueue promises: the characters   *)
(* in the order typed, each once, but for what is dropped by a full buffer, *)
(* discard-input or a C-g.                                                  *)
THEOREM KeyboardImplementsQueue ==
  ASSUME ~Torn
  PROVE  Spec => ImplementsQueue
<1>1. Typed /\ [Next]_vars => Typed'
  BY StepTyped
<1>2. Typed /\ [Next]_vars => [Promise!Next]_<<queue, got>>
  <2>1. Typed /\ UNCHANGED vars => UNCHANGED <<queue, got>>
    BY DEF vars, terminal, buffer, quits, wait, queue, got, Taking
  <2>2. QED BY <2>1, StepRefines
<1>3. QED
  BY InitTyped, InitRefines, <1>1, <1>2, PTL DEF Spec, ImplementsQueue, Promise!Spec
=============================================================================
