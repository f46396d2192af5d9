------------------------------ MODULE KeyQueue ------------------------------
(* What a reader of the keyboard is promised: the characters come in the   *)
(* order they were typed, each once; they are dropped when the queue is    *)
(* full, or when they follow a C-g at once; and a C-g may be read instead. *)
EXTENDS Naturals, Sequences

CONSTANTS Key,    \* the ordinary characters
          Quit,   \* C-g
          Size    \* sizeof kbd_buffer

VARIABLES queue,  \* stored and not read
          got     \* the character read last, or Idle while a command runs

Idle == "idle"

Init == queue = <<>> /\ got = Idle

Store(keys) ==
  /\ queue' = SubSeq(queue \o keys, 1,
                     IF Len(queue) + Len(keys) > Size THEN Size ELSE Len(queue) + Len(keys))
  /\ UNCHANGED got

Take == got = Idle /\ queue # <<>> /\ got' = Head(queue) /\ queue' = Tail(queue)

(* A C-g is returned at once, what came before it in the same read stored. *)
TakeQuit(keys) ==
  /\ got = Idle /\ got' = Quit
  /\ queue' = SubSeq(queue \o keys, 1,
                     IF Len(queue) + Len(keys) > Size THEN Size ELSE Len(queue) + Len(keys))

Discard == queue' = <<>> /\ UNCHANGED got
Command == got # Idle /\ got' = Idle /\ UNCHANGED queue

Typed == UNION {[1 .. n -> Key] : n \in 0 .. Size}
Next == (\E keys \in Typed : Store(keys) \/ TakeQuit(keys)) \/ Take \/ Discard \/ Command

Spec == Init /\ [][Next]_<<queue, got>>
=============================================================================
