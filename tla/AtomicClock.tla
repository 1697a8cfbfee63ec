----------------------------- MODULE AtomicClock -----------------------------
(***************************************************************************)
(* What the clock of polo-core promises its callers: tick and observe      *)
(* behave as if each took effect in one indivisible step on one timestamp. *)
(* HLC.tla, which follows the load / compute / compare-exchange loops of   *)
(* clock.rs step by step, implements this module.                          *)
(***************************************************************************)
EXTENDS HlcTime, Sequences

CONSTANTS
  Phys          \* The wall-clock readings and received physical parts.

VARIABLES
  state,        \* The clock word.
  epoch,        \* How often the process has been restarted.
  history       \* The completed calls, in the order they took effect.

Received == [phys : Phys, logi : Logical]

Calls == [op : {"tick", "observe"}, epoch : Nat, recv : Hlc, ts : Hlc]

Zero == [phys |-> 0, logi |-> 0]

Tick ==
  \E w \in Phys :
    /\ ~Saturated(w, state)
    /\ state' = TickValue(w, state)
    /\ history' = Append(history, [op |-> "tick", epoch |-> epoch,
                                   recv |-> Zero, ts |-> state'])
    /\ UNCHANGED epoch

Observe ==
  \E w \in Phys, recv \in Received :
    /\ Acceptable(w, recv)
    /\ state' = ObserveValue(w, recv, state)
    /\ history' = Append(history, [op |-> "observe", epoch |-> epoch,
                                   recv |-> recv, ts |-> state'])
    /\ UNCHANGED epoch

Restart ==
  \E w \in Phys :
    /\ state' = [phys |-> w, logi |-> 0]
    /\ epoch' = epoch + 1
    /\ UNCHANGED history

Init ==
  /\ state \in [phys : Phys, logi : {0}]
  /\ epoch = 0
  /\ history = << >>

Next == Restart \/ Tick \/ Observe

vars == <<state, epoch, history>>

Spec == Init /\ [][Next]_vars
=============================================================================
