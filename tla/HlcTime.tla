------------------------------- MODULE HlcTime -------------------------------
(***************************************************************************)
(* The hybrid logical timestamp of polo-core (src/pkg/polo-core/src/       *)
(* clock.rs) as a value: its layout, its order, and the two functions that *)
(* compute a new timestamp.  In the code a timestamp is one u64, physical  *)
(* milliseconds shifted left by LOGICAL_BITS over a logical counter; here  *)
(* it is a record, and Encode is the packing.                              *)
(***************************************************************************)
EXTENDS Integers

CONSTANTS
  LogicalMax,   \* u16::MAX in the code: the largest logical counter.
  MaxDrift      \* MAX_DRIFT_MS: how far ahead a received timestamp may be.

ASSUME LogicalMaxAssumption == LogicalMax \in Nat
ASSUME MaxDriftAssumption   == MaxDrift \in Nat

Logical == 0 .. LogicalMax

Hlc == [phys : Nat, logi : Logical]

\* Hlc::from_parts: the logical counter in the low bits.
Encode(h) == h.phys * (LogicalMax + 1) + h.logi

Before(a, b) == \/ a.phys < b.phys
                \/ a.phys = b.phys /\ a.logi < b.logi

AtMost(a, b) == a = b \/ Before(a, b)

Larger(m, n) == IF m > n THEN m ELSE n

\* Mutant of SaturatingSucc: u16::wrapping_add(1).
WrappingSucc(n) == IF n < LogicalMax THEN n + 1 ELSE 0

\* u16::saturating_add(1).
SaturatingSucc(n) == IF n < LogicalMax THEN n + 1 ELSE LogicalMax

\* A tick that has read w and cur must spin: the counter is used up and the
\* wall clock has not passed the physical part.
Saturated(w, cur) == w <= cur.phys /\ cur.logi = LogicalMax

\* Mutant of TickValue: the wall clock always wins.
TickValueOfWall(w, cur) ==
  [phys |-> w, logi |-> IF w = cur.phys THEN cur.logi + 1 ELSE 0]

\* What a tick that does not spin tries to install.
TickValue(w, cur) ==
  IF w > cur.phys THEN [phys |-> w, logi |-> 0]
                  ELSE [phys |-> cur.phys, logi |-> cur.logi + 1]

\* What observe tries to install: the largest physical part, and one more
\* than the logical counters that came with it.
ObserveValue(w, recv, cur) ==
  LET top == Larger(w, Larger(recv.phys, cur.phys))
  IN  [phys |-> top,
       logi |->
         CASE top = recv.phys /\ top = cur.phys
                -> SaturatingSucc(Larger(recv.logi, cur.logi))
           [] top = recv.phys /\ top # cur.phys -> SaturatingSucc(recv.logi)
           [] top # recv.phys /\ top = cur.phys -> SaturatingSucc(cur.logi)
           [] OTHER -> 0]

\* The drift check of observe.
Acceptable(w, recv) == recv.phys <= w + MaxDrift
=============================================================================
