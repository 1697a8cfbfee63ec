--------------------------------- MODULE HLC ---------------------------------
(***************************************************************************)
(* The lock-free clock of polo-core, src/pkg/polo-core/src/clock.rs.       *)
(*                                                                         *)
(* Threads run Clock::tick and Clock::observe on one shared atomic word.   *)
(* Every access to something shared is a step of its own: reading the wall *)
(* clock, loading the word, and the compare-exchange.  The wall clock is   *)
(* the environment's and moves both ways.  Restart is the end of a process *)
(* and the Clock::new of the next one, which starts from the wall clock    *)
(* alone.                                                                  *)
(***************************************************************************)
EXTENDS HlcTime, Sequences

CONSTANTS
  Threads,      \* Callers of the clock.
  Phys,         \* The values the wall clock, and a remote clock, can show.
  MaxCalls,     \* Bound: calls started.
  MaxRestarts   \* Bound: restarts.

ASSUME PhysAssumption == Phys \subseteq Nat /\ Phys # {}

VARIABLES
  wall,         \* Utc::now().timestamp_millis()
  state,        \* Clock.state: the atomic word.
  pc,           \* Where each thread is in its call.
  seen,         \* Its wall_ms.
  cur,          \* Its cur: the word as it loaded it.
  recv,         \* observe's argument.
  started,      \* Counts calls, for the bound.
  epoch,        \* Counts restarts.
  history       \* Completed calls, in the order of their compare-exchange.

local == <<pc, seen, cur, recv>>
vars == <<wall, state, pc, seen, cur, recv, started, epoch, history>>

Received == [phys : Phys, logi : Logical]
Calls == [op : {"tick", "observe"}, epoch : Nat, recv : Hlc, ts : Hlc]
Zero == [phys |-> 0, logi |-> 0]

TickPcs == {"tick_wall", "tick_load", "tick_cas"}
ObservePcs == {"observe_wall", "observe_load", "observe_cas"}

TypeOK ==
  /\ wall \in Phys
  /\ state \in Hlc
  /\ pc \in [Threads -> {"idle"} \cup TickPcs \cup ObservePcs]
  /\ seen \in [Threads -> Nat]
  /\ cur \in [Threads -> Hlc]
  /\ recv \in [Threads -> Hlc]
  /\ started \in Nat
  /\ epoch \in Nat
  /\ history \in Seq(Calls)

Goto(t, from, to) ==
  /\ pc[t] = from
  /\ pc' = [pc EXCEPT ![t] = to]

\* A call is over: its locals are gone.
Return(t, from) ==
  /\ Goto(t, from, "idle")
  /\ seen' = [seen EXCEPT ![t] = 0]
  /\ cur' = [cur EXCEPT ![t] = Zero]
  /\ recv' = [recv EXCEPT ![t] = Zero]

\* Clock::new, for the first process.
Init ==
  /\ wall \in Phys
  /\ state = [phys |-> wall, logi |-> 0]
  /\ pc = [t \in Threads |-> "idle"]
  /\ seen = [t \in Threads |-> 0]
  /\ cur = [t \in Threads |-> Zero]
  /\ recv = [t \in Threads |-> Zero]
  /\ started = 0
  /\ epoch = 0
  /\ history = << >>

-----------------------------------------------------------------------------
(* Clock::tick                                                             *)

CallTick(t) ==
  /\ started < MaxCalls
  /\ Goto(t, "idle", "tick_wall")
  /\ started' = started + 1
  /\ UNCHANGED <<wall, state, seen, cur, recv, epoch, history>>

\* let wall_ms = Utc::now()
TickReadWall(t) ==
  /\ Goto(t, "tick_wall", "tick_load")
  /\ seen' = [seen EXCEPT ![t] = wall]
  /\ UNCHANGED <<wall, state, cur, recv, started, epoch, history>>

\* Mutant of TickLoad: the counter is not checked for overflow.
TickLoadUnchecked(t) ==
  /\ Goto(t, "tick_load", "tick_cas")
  /\ cur' = [cur EXCEPT ![t] = state]
  /\ UNCHANGED <<wall, state, seen, recv, started, epoch, history>>

\* let cur = self.state.load(), and a value to install.
TickLoad(t) ==
  /\ ~Saturated(seen[t], state)
  /\ Goto(t, "tick_load", "tick_cas")
  /\ cur' = [cur EXCEPT ![t] = state]
  /\ UNCHANGED <<wall, state, seen, recv, started, epoch, history>>

\* Mutant of TickSpin: the loop does not read the wall clock again.
TickSpinBlind(t) ==
  /\ Saturated(seen[t], state)
  /\ Goto(t, "tick_load", "tick_load")
  /\ UNCHANGED <<wall, state, seen, cur, recv, started, epoch, history>>

\* The logical counter is used up: spin_loop(), and read the wall clock again.
TickSpin(t) ==
  /\ Saturated(seen[t], state)
  /\ Goto(t, "tick_load", "tick_wall")
  /\ UNCHANGED <<wall, state, seen, cur, recv, started, epoch, history>>

\* Mutant of TickInstall: a plain store in place of the compare-exchange.
TickStore(t) ==
  /\ state' = TickValue(seen[t], cur[t])
  /\ history' = Append(history, [op |-> "tick", epoch |-> epoch,
                                 recv |-> Zero, ts |-> state'])
  /\ Return(t, "tick_cas")
  /\ UNCHANGED <<wall, started, epoch>>

\* compare_exchange succeeds: install the value and return it.
TickInstall(t) ==
  /\ state = cur[t]
  /\ state' = TickValue(seen[t], cur[t])
  /\ history' = Append(history, [op |-> "tick", epoch |-> epoch,
                                 recv |-> Zero, ts |-> state'])
  /\ Return(t, "tick_cas")
  /\ UNCHANGED <<wall, started, epoch>>

\* compare_exchange fails: start over, with a new reading of the wall clock.
TickRetry(t) ==
  /\ state # cur[t]
  /\ Goto(t, "tick_cas", "tick_wall")
  /\ UNCHANGED <<wall, state, seen, cur, recv, started, epoch, history>>

-----------------------------------------------------------------------------
(* Clock::observe                                                          *)

CallObserve(t) ==
  /\ started < MaxCalls
  /\ Goto(t, "idle", "observe_wall")
  /\ \E h \in Received : recv' = [recv EXCEPT ![t] = h]
  /\ started' = started + 1
  /\ UNCHANGED <<wall, state, seen, cur, epoch, history>>

\* The wall clock is read once, outside the loop.
ObserveReadWall(t) ==
  /\ Acceptable(wall, recv[t])
  /\ Goto(t, "observe_wall", "observe_load")
  /\ seen' = [seen EXCEPT ![t] = wall]
  /\ UNCHANGED <<wall, state, cur, recv, started, epoch, history>>

\* Err(ExcessiveDrift)
ObserveReject(t) ==
  /\ ~Acceptable(wall, recv[t])
  /\ Return(t, "observe_wall")
  /\ UNCHANGED <<wall, state, started, epoch, history>>

ObserveLoad(t) ==
  /\ Goto(t, "observe_load", "observe_cas")
  /\ cur' = [cur EXCEPT ![t] = state]
  /\ UNCHANGED <<wall, state, seen, recv, started, epoch, history>>

\* Mutant of ObserveInstall: a plain store in place of the compare-exchange.
ObserveStore(t) ==
  /\ state' = ObserveValue(seen[t], recv[t], cur[t])
  /\ history' = Append(history, [op |-> "observe", epoch |-> epoch,
                                 recv |-> recv[t], ts |-> state'])
  /\ Return(t, "observe_cas")
  /\ UNCHANGED <<wall, started, epoch>>

ObserveInstall(t) ==
  /\ state = cur[t]
  /\ state' = ObserveValue(seen[t], recv[t], cur[t])
  /\ history' = Append(history, [op |-> "observe", epoch |-> epoch,
                                 recv |-> recv[t], ts |-> state'])
  /\ Return(t, "observe_cas")
  /\ UNCHANGED <<wall, started, epoch>>

ObserveRetry(t) ==
  /\ state # cur[t]
  /\ Goto(t, "observe_cas", "observe_load")
  /\ UNCHANGED <<wall, state, seen, cur, recv, started, epoch, history>>

-----------------------------------------------------------------------------
(* The environment                                                         *)

\* The wall clock runs on, or is stepped back.
WallMoves ==
  /\ \E w \in Phys : w # wall /\ wall' = w
  /\ UNCHANGED <<state, local, started, epoch, history>>

\* The process dies, with every call in it, and Clock::new runs again.
Restart ==
  /\ epoch < MaxRestarts
  /\ epoch' = epoch + 1
  /\ state' = [phys |-> wall, logi |-> 0]
  /\ pc' = [t \in Threads |-> "idle"]
  /\ seen' = [t \in Threads |-> 0]
  /\ cur' = [t \in Threads |-> Zero]
  /\ recv' = [t \in Threads |-> Zero]
  /\ UNCHANGED <<wall, started, history>>

TickStep(t) ==
  \/ TickReadWall(t)
  \/ TickLoad(t)
  \/ TickSpin(t)
  \/ TickInstall(t)
  \/ TickRetry(t)

ObserveStep(t) ==
  \/ ObserveReadWall(t)
  \/ ObserveReject(t)
  \/ ObserveLoad(t)
  \/ ObserveInstall(t)
  \/ ObserveRetry(t)

Next ==
  \/ \E t \in Threads : \/ CallTick(t) \/ CallObserve(t)
                        \/ TickStep(t) \/ ObserveStep(t)
  \/ WallMoves
  \/ Restart

Spec == Init /\ [][Next]_vars

\* A thread inside a call is scheduled; nothing is assumed of the wall clock.
FairSpec == Spec /\ \A t \in Threads : WF_vars(TickStep(t) \/ ObserveStep(t))

-----------------------------------------------------------------------------
(* Properties                                                              *)

\* A tick returns a timestamp later than that of every call of the same process
\* that took effect before it, and later than every timestamp observe was
\* given (clock.rs:15-16; core_tests.rs clock_concurrent_monotonic and
\* clock_observe_advances).  Two ticks therefore never agree.
TicksIncrease ==
  \A i, j \in 1 .. Len(history) :
    (/\ i < j
     /\ history[j].op = "tick"
     /\ history[i].epoch = history[j].epoch)
      => /\ Before(history[i].ts, history[j].ts)
         /\ Before(history[i].recv, history[j].ts)

LaterOrFull(a, b) == Before(a, b) \/ (a = b /\ a.logi = LogicalMax)

\* An observe, too, returns a later timestamp than every call of the process before it
\* and than the one it was given, as long as the counter has room: only a
\* timestamp whose counter is full is ever returned again, and none is
\* undercut (clock.rs:127-136).
ObservesIncrease ==
  \A j \in 1 .. Len(history) : history[j].op = "observe" =>
    /\ LaterOrFull(history[j].recv, history[j].ts)
    /\ \A i \in 1 .. j - 1 :
         history[i].epoch = history[j].epoch => LaterOrFull(history[i].ts, history[j].ts)

\* The word never runs behind a timestamp it has handed out in this process,
\* so that Clock::now is an upper bound of what this process has written.
NowIsUpperBound ==
  \A i \in 1 .. Len(history) :
    history[i].epoch = epoch => AtMost(history[i].ts, state)

\* Between restarts the word never moves back, whatever the wall clock does.
NeverBack == [][epoch' = epoch => AtMost(state, state')]_vars

\* A thread whose call never ends is one that found the counter used up,
\* and the wall clock not past the word, again and again: losing the
\* compare-exchange to other threads cannot keep a call from returning for ever
\* once no new calls arrive.
CallsReturn ==
  \A t \in Threads :
    \/ []<>(pc[t] = "idle")
    \/ <>[](state.logi = LogicalMax) /\ []<>(wall <= state.phys)

\* The loops implement indivisible calls.
Atomic == INSTANCE AtomicClock
ImplementsAtomic == Atomic!Spec
=============================================================================
