---------------------------- MODULE LocalValues ----------------------------
(* A variable as its documentation tells of it: some buffers have a value  *)
(* of their own, the others see the default value.                         *)
EXTENDS Naturals, Sequences

CONSTANTS Buffer, Value, Absent, MaxBound

VARIABLES current,  \* the current buffer
          local,    \* each buffer's own value, or Absent
          default,
          auto,     \* setting it gives the current buffer a value of its own
          bound,    \* the values let-bindings have to put back
          got       \* what was read last

Init ==
  /\ current \in Buffer /\ local = [b \in Buffer |-> Absent] /\ default \in Value
  /\ auto = FALSE /\ bound = <<>> /\ got = Absent

Seen(b) == IF local[b] = Absent THEN default ELSE local[b]

Assign(x) ==
  IF auto \/ local[current] # Absent
  THEN local' = [local EXCEPT ![current] = x] /\ UNCHANGED default
  ELSE default' = x /\ UNCHANGED local

Set(x)        == Assign(x) /\ UNCHANGED <<current, auto, bound, got>>
SetDefault(x) == default' = x /\ UNCHANGED <<current, local, auto, bound, got>>
Read(x)       == got' = x /\ UNCHANGED <<current, local, default, auto, bound>>
SwitchTo(b)   == current' = b /\ UNCHANGED <<local, default, auto, bound, got>>
MakeAuto      == auto' = TRUE /\ UNCHANGED <<current, local, default, bound, got>>
MakeLocal ==
  local' = [local EXCEPT ![current] = Seen(current)] /\ UNCHANGED <<current, default, auto, bound, got>>
KillLocal ==
  local' = [local EXCEPT ![current] = Absent] /\ UNCHANGED <<current, default, auto, bound, got>>

Bind(x) ==
  /\ Len(bound) < MaxBound /\ bound' = Append(bound, Seen(current))
  /\ Assign(x) /\ UNCHANGED <<current, auto, got>>
Unbind ==
  /\ bound # <<>> /\ bound' = SubSeq(bound, 1, Len(bound) - 1)
  /\ Assign(bound[Len(bound)]) /\ UNCHANGED <<current, auto, got>>

Next ==
  \/ \E x \in Value : Set(x) \/ SetDefault(x) \/ Bind(x)
  \/ \E b \in Buffer : SwitchTo(b) \/ Read(local[b])
  \/ Read(Seen(current)) \/ Read(default)
  \/ MakeAuto \/ MakeLocal \/ KillLocal \/ Unbind

Spec == Init /\ [][Next]_<<current, local, default, auto, bound, got>>
=============================================================================
