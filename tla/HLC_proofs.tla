------------------------------ MODULE HLC_proofs ------------------------------
(***************************************************************************)
(* Proofs about HLC: its type invariant, that ticks increase in the order  *)
(* in which they take effect, and that the loops implement AtomicClock.    *)
(***************************************************************************)
EXTENDS HLC, TLAPS

USE LogicalMaxAssumption, MaxDriftAssumption, PhysAssumption

-----------------------------------------------------------------------------
(* Timestamps *)

\* Later is always greater (clock.rs:15-16): the packed timestamps compare as
\* the pairs do, because the logical part never reaches into the physical one.
THEOREM EncodeOrder ==
  ASSUME NEW a \in Hlc, NEW b \in Hlc
  PROVE  Before(a, b) <=> Encode(a) < Encode(b)
<1> DEFINE M == LogicalMax + 1
<1>0. /\ M \in Nat /\ M > 0
      /\ a.phys \in Nat /\ b.phys \in Nat
      /\ a.logi \in 0 .. M - 1 /\ b.logi \in 0 .. M - 1
      /\ Encode(a) = a.phys * M + a.logi
      /\ Encode(b) = b.phys * M + b.logi
  BY DEF Hlc, Logical, Encode
<1> HIDE DEF M
<1>1. ASSUME NEW p \in Nat, NEW q \in Nat, p < q
      PROVE  p * M + M <= q * M
  <2>1. PICK d \in Nat : q = p + 1 + d
    <3>1. q - p - 1 \in Nat /\ q = p + 1 + (q - p - 1)
      BY <1>1
    <3> QED BY <3>1
  <2>2. q * M = p * M + M + d * M
    BY <2>1, <1>0
  <2>3. d * M \in Nat /\ p * M \in Nat
    BY <1>0
  <2> QED BY <2>2, <2>3, <1>0
<1> DEFINE pa == a.phys * M
           pb == b.phys * M
<1>2. pa \in Nat /\ pb \in Nat
  BY <1>0
<1>3. /\ a.phys < b.phys => pa + M <= pb
      /\ b.phys < a.phys => pb + M <= pa
      /\ a.phys = b.phys => pa = pb
  BY <1>0, <1>1
<1>4. Encode(a) = pa + a.logi /\ Encode(b) = pb + b.logi
  BY <1>0
<1> HIDE DEF pa, pb
<1>5. CASE a.phys < b.phys
  BY <1>0, <1>2, <1>3, <1>4, <1>5 DEF Before
<1>6. CASE b.phys < a.phys
  BY <1>0, <1>2, <1>3, <1>4, <1>6 DEF Before
<1>7. CASE a.phys = b.phys
  BY <1>0, <1>2, <1>3, <1>4, <1>7 DEF Before
<1> QED BY <1>0, <1>5, <1>6, <1>7

LEMMA BeforeTransitive ==
  ASSUME NEW a \in Hlc, NEW b \in Hlc, NEW c \in Hlc
  PROVE  /\ AtMost(a, b) /\ Before(b, c) => Before(a, c)
         /\ AtMost(a, b) /\ AtMost(b, c) => AtMost(a, c)
         /\ AtMost(a, b) /\ LaterOrFull(b, c) => LaterOrFull(a, c)
BY DEF Hlc, Logical, Before, AtMost, LaterOrFull

LEMMA TickValueLater ==
  ASSUME NEW w \in Nat, NEW c \in Hlc, ~Saturated(w, c)
  PROVE  TickValue(w, c) \in Hlc /\ Before(c, TickValue(w, c))
BY DEF Hlc, Logical, Before, TickValue, Saturated

LEMMA ObserveValueBounds ==
  ASSUME NEW w \in Nat, NEW r \in Hlc, NEW c \in Hlc
  PROVE  /\ ObserveValue(w, r, c) \in Hlc
         /\ AtMost(c, ObserveValue(w, r, c))
         /\ AtMost(r, ObserveValue(w, r, c))
<1> DEFINE top == Larger(w, Larger(r.phys, c.phys))
           v == ObserveValue(w, r, c)
<1>1. /\ top \in Nat /\ r.phys \in Nat /\ c.phys \in Nat
      /\ r.phys <= top /\ c.phys <= top
      /\ r.logi \in Logical /\ c.logi \in Logical
  BY DEF Larger, Hlc
<1>2. \A l \in Logical : SaturatingSucc(l) \in Logical /\ l <= SaturatingSucc(l)
  BY DEF SaturatingSucc, Logical
<1>3. /\ Larger(r.logi, c.logi) \in Logical
      /\ r.logi <= Larger(r.logi, c.logi) /\ c.logi <= Larger(r.logi, c.logi)
  BY <1>1 DEF Larger, Logical
<1>4. v.phys = top
  BY DEF ObserveValue
<1>5. /\ v.logi \in Logical
      /\ r.phys = top => r.logi <= v.logi
      /\ c.phys = top => c.logi <= v.logi
  <2> HIDE DEF top
  <2>0. v.logi = CASE top = r.phys /\ top = c.phys
                        -> SaturatingSucc(Larger(r.logi, c.logi))
                   [] top = r.phys /\ top # c.phys -> SaturatingSucc(r.logi)
                   [] top # r.phys /\ top = c.phys -> SaturatingSucc(c.logi)
                   [] OTHER -> 0
    BY DEF ObserveValue, top
  <2> HIDE DEF v
  <2>1. CASE top = r.phys /\ top = c.phys
    <3>1. v.logi = SaturatingSucc(Larger(r.logi, c.logi))
      BY <2>0, <2>1
    <3> QED BY <3>1, <1>1, <1>2, <1>3 DEF Logical
  <2>2. CASE top = r.phys /\ top # c.phys
    BY <2>0, <2>2, <1>1, <1>2 DEF Logical
  <2>3. CASE top # r.phys /\ top = c.phys
    BY <2>0, <2>3, <1>1, <1>2 DEF Logical
  <2>4. CASE top # r.phys /\ top # c.phys
    BY <2>0, <2>4, <1>1 DEF Logical
  <2> QED BY <2>1, <2>2, <2>3, <2>4
<1>6. v = [phys |-> v.phys, logi |-> v.logi]
  BY DEF ObserveValue
<1>7. v \in Hlc
  BY <1>1, <1>4, <1>5, <1>6 DEF Hlc
<1> HIDE DEF v, top
<1>8. AtMost(c, v) /\ AtMost(r, v)
  BY <1>1, <1>4, <1>5, <1>7 DEF AtMost, Before, Hlc, Logical
<1> QED BY <1>7, <1>8 DEF v

\* An observed timestamp is later than the word and than the one received, or its
\* counter has saturated at their value.
LEMMA ObserveValueLater ==
  ASSUME NEW w \in Nat, NEW r \in Hlc, NEW c \in Hlc
  PROVE  /\ LaterOrFull(c, ObserveValue(w, r, c))
         /\ LaterOrFull(r, ObserveValue(w, r, c))
<1> DEFINE top == Larger(w, Larger(r.phys, c.phys))
           v == ObserveValue(w, r, c)
<1>1. /\ top \in Nat /\ r.phys \in Nat /\ c.phys \in Nat
      /\ r.phys <= top /\ c.phys <= top
      /\ r.logi \in Logical /\ c.logi \in Logical
  BY DEF Larger, Hlc
<1>2. \A l, m \in Logical : l <= m =>
        /\ SaturatingSucc(m) \in Logical
        /\ l < SaturatingSucc(m) \/ (SaturatingSucc(m) = LogicalMax /\ l = LogicalMax)
  BY DEF SaturatingSucc, Logical
<1>3. /\ Larger(r.logi, c.logi) \in Logical
      /\ r.logi <= Larger(r.logi, c.logi) /\ c.logi <= Larger(r.logi, c.logi)
  BY <1>1 DEF Larger, Logical
<1>4. v.phys = top /\ v \in Hlc
  BY ObserveValueBounds DEF ObserveValue
<1>5. /\ r.phys = top => r.logi < v.logi \/ (v.logi = LogicalMax /\ r.logi = LogicalMax)
      /\ c.phys = top => c.logi < v.logi \/ (v.logi = LogicalMax /\ c.logi = LogicalMax)
  <2> HIDE DEF top
  <2>0. v.logi = CASE top = r.phys /\ top = c.phys
                        -> SaturatingSucc(Larger(r.logi, c.logi))
                   [] top = r.phys /\ top # c.phys -> SaturatingSucc(r.logi)
                   [] top # r.phys /\ top = c.phys -> SaturatingSucc(c.logi)
                   [] OTHER -> 0
    BY DEF ObserveValue, top
  <2> HIDE DEF v
  <2>1. CASE top = r.phys /\ top = c.phys
    <3>1. v.logi = SaturatingSucc(Larger(r.logi, c.logi))
      BY <2>0, <2>1
    <3> QED BY <3>1, <1>1, <1>2, <1>3
  <2>2. CASE top = r.phys /\ top # c.phys
    <3>1. v.logi = SaturatingSucc(r.logi)
      BY <2>0, <2>2
    <3> QED BY <3>1, <2>2, <1>1, <1>2 DEF Logical
  <2>3. CASE top # r.phys /\ top = c.phys
    <3>1. v.logi = SaturatingSucc(c.logi)
      BY <2>0, <2>3
    <3> QED BY <3>1, <2>3, <1>1, <1>2 DEF Logical
  <2>4. CASE top # r.phys /\ top # c.phys
    BY <2>4
  <2> QED BY <2>1, <2>2, <2>3, <2>4
<1> HIDE DEF v, top
<1>6. ASSUME NEW a \in Hlc, a.phys <= top,
             a.phys = top => a.logi < v.logi \/ (v.logi = LogicalMax /\ a.logi = LogicalMax)
      PROVE  LaterOrFull(a, v)
  BY <1>1, <1>4, <1>6 DEF LaterOrFull, Before, Hlc, Logical
<1> QED BY <1>1, <1>5, <1>6 DEF v
-----------------------------------------------------------------------------
(* Type correctness *)

LEMMA HistoryGrows ==
  ASSUME history \in Seq(Calls), NEW c \in Calls, history' = Append(history, c)
  PROVE  /\ history' \in Seq(Calls)
         /\ Len(history') = Len(history) + 1
         /\ \A i \in 1 .. Len(history) : history'[i] = history[i]
         /\ history'[Len(history) + 1] = c
OBVIOUS

\* What a thread holds while it is inside a loop.  TypeOK needs it: a tick about
\* to install a value has found room for it in the logical counter.
LoopInv ==
  \A t \in Threads :
    /\ pc[t] \in {"tick_load", "tick_cas", "observe_load", "observe_cas"}
         => seen[t] \in Phys
    /\ pc[t] = "tick_cas" => ~Saturated(seen[t], cur[t])
    /\ pc[t] \in ObservePcs => recv[t] \in Received
    /\ pc[t] \in {"observe_load", "observe_cas"} => Acceptable(seen[t], recv[t])

LEMMA LoopInductive == TypeOK /\ LoopInv /\ [Next]_vars => (TypeOK /\ LoopInv)'
<1> SUFFICES ASSUME TypeOK, LoopInv, [Next]_vars
             PROVE  (TypeOK /\ LoopInv)'
  OBVIOUS
<1> USE DEF TypeOK, LoopInv
<1>z. Zero \in Hlc
  BY DEF Zero, Hlc, Logical
<1>p. Phys \subseteq Nat /\ Received \subseteq Hlc
  BY DEF Received, Hlc
<1>1. ASSUME NEW t \in Threads, CallTick(t)
      PROVE  (TypeOK /\ LoopInv)'
  BY <1>1 DEF CallTick, Goto, TickPcs, ObservePcs
<1>2. ASSUME NEW t \in Threads, CallObserve(t)
      PROVE  (TypeOK /\ LoopInv)'
  BY <1>2, <1>p DEF CallObserve, Goto, ObservePcs
<1>3. ASSUME NEW t \in Threads, TickReadWall(t)
      PROVE  (TypeOK /\ LoopInv)'
  BY <1>3, <1>p DEF TickReadWall, Goto, TickPcs, ObservePcs
<1>4. ASSUME NEW t \in Threads, TickLoad(t)
      PROVE  (TypeOK /\ LoopInv)'
  BY <1>4 DEF TickLoad, Goto, TickPcs, ObservePcs
<1>5. ASSUME NEW t \in Threads, TickSpin(t) \/ TickRetry(t)
      PROVE  (TypeOK /\ LoopInv)'
  BY <1>5 DEF TickSpin, TickRetry, Goto, TickPcs, ObservePcs
<1>6. ASSUME NEW t \in Threads, TickInstall(t)
      PROVE  (TypeOK /\ LoopInv)'
  <2>1. state' \in Hlc
    BY <1>6, TickValueLater DEF TickInstall, Return, Goto
  <2>2. history' \in Seq(Calls)
    BY <1>6, <1>z, <2>1, HistoryGrows DEF TickInstall, Calls
  <2> QED
    BY <1>6, <1>z, <2>1, <2>2 DEF TickInstall, Return, Goto, ObservePcs
<1>7. ASSUME NEW t \in Threads, ObserveReadWall(t)
      PROVE  (TypeOK /\ LoopInv)'
  BY <1>7, <1>p DEF ObserveReadWall, Goto, ObservePcs
<1>8. ASSUME NEW t \in Threads, ObserveReject(t)
      PROVE  (TypeOK /\ LoopInv)'
  BY <1>8, <1>z DEF ObserveReject, Return, Goto, ObservePcs
<1>9. ASSUME NEW t \in Threads, ObserveLoad(t) \/ ObserveRetry(t)
      PROVE  (TypeOK /\ LoopInv)'
  BY <1>9 DEF ObserveLoad, ObserveRetry, Goto, ObservePcs
<1>10. ASSUME NEW t \in Threads, ObserveInstall(t)
       PROVE  (TypeOK /\ LoopInv)'
  <2>1. state' \in Hlc
    BY <1>10, ObserveValueBounds DEF ObserveInstall, Return, Goto
  <2>2. history' \in Seq(Calls)
    BY <1>10, <2>1, HistoryGrows DEF ObserveInstall, Calls
  <2> QED
    BY <1>10, <1>z, <2>1, <2>2 DEF ObserveInstall, Return, Goto, ObservePcs
<1>11. ASSUME WallMoves
       PROVE  (TypeOK /\ LoopInv)'
  BY <1>11 DEF WallMoves, local
<1>12. ASSUME Restart
       PROVE  (TypeOK /\ LoopInv)'
  BY <1>12, <1>p, <1>z DEF Restart, Hlc, Logical, ObservePcs
<1>13. CASE UNCHANGED vars
  BY <1>13 DEF vars
<1> QED
  BY <1>1, <1>2, <1>3, <1>4, <1>5, <1>6, <1>7, <1>8, <1>9, <1>10, <1>11,
     <1>12, <1>13 DEF Next, TickStep, ObserveStep

LEMMA LoopInvariant == Spec => [](TypeOK /\ LoopInv)
<1>1. Init => TypeOK /\ LoopInv
  BY DEF Init, TypeOK, LoopInv, Hlc, Logical, Zero, ObservePcs
<1> QED BY <1>1, LoopInductive, PTL DEF Spec

\* Every variable keeps its type, for any number of threads and any counter.
THEOREM TypeCorrect == Spec => []TypeOK
BY LoopInvariant, PTL

-----------------------------------------------------------------------------
(* Monotonicity *)

\* All a completed call has told anyone lies at or behind the word, as long as
\* the process that completed it runs.
HistoryInv ==
  /\ \A i \in 1 .. Len(history) :
       /\ history[i].epoch <= epoch
       /\ history[i].epoch = epoch => /\ AtMost(history[i].ts, state)
                                      /\ AtMost(history[i].recv, state)
  /\ TicksIncrease
  /\ ObservesIncrease

\* A step either leaves the word and the history alone, or installs a later word
\* and records the call that did, or starts a new process.
LEMMA StepShape ==
  ASSUME TypeOK, LoopInv, [Next]_vars
  PROVE  \/ UNCHANGED <<state, epoch, history>>
         \/ Restart
         \/ \E t \in Threads : TickInstall(t) \/ ObserveInstall(t)
BY DEF Next, vars, TickStep, ObserveStep, CallTick, CallObserve, TickReadWall,
       TickLoad, TickSpin, TickRetry, ObserveReadWall, ObserveReject,
       ObserveLoad, ObserveRetry, WallMoves

\* The word moves forward with every call that takes effect, and strictly so
\* with a tick; the call's argument is behind the new word too.
LEMMA InstallAdvances ==
  ASSUME TypeOK, LoopInv, NEW t \in Threads, TickInstall(t) \/ ObserveInstall(t)
  PROVE  \E c \in Calls :
           /\ history' = Append(history, c)
           /\ epoch' = epoch /\ c.epoch = epoch
           /\ state' \in Hlc /\ c.ts = state'
           /\ AtMost(state, state') /\ AtMost(c.recv, state')
           /\ c.op = "tick" => Before(state, state')
           /\ c.op = "observe" => LaterOrFull(state, state') /\ LaterOrFull(c.recv, state')
<1>z. Zero \in Hlc
  BY DEF Zero, Hlc, Logical
<1>1. CASE TickInstall(t)
  <2> DEFINE c == [op |-> "tick", epoch |-> epoch, recv |-> Zero, ts |-> state']
  <2>1. state' \in Hlc /\ Before(state, state')
    BY <1>1, TickValueLater DEF TickInstall, Return, Goto, TypeOK, LoopInv
  <2>2. AtMost(state, state') /\ AtMost(Zero, state')
    BY <2>1 DEF AtMost, Before, Zero, Hlc, Logical
  <2>3. c \in Calls
    BY <2>1, <1>z DEF Calls, TypeOK
  <2> QED
    BY <1>1, <2>1, <2>2, <2>3 DEF TickInstall
<1>2. CASE ObserveInstall(t)
  <2> DEFINE c == [op |-> "observe", epoch |-> epoch, recv |-> recv[t], ts |-> state']
  <2>1. state' \in Hlc /\ AtMost(state, state') /\ AtMost(recv[t], state')
    BY <1>2, ObserveValueBounds DEF ObserveInstall, TypeOK
  <2>2. LaterOrFull(state, state') /\ LaterOrFull(recv[t], state')
    BY <1>2, ObserveValueLater DEF ObserveInstall, TypeOK
  <2>3. c \in Calls
    BY <2>1 DEF Calls, TypeOK
  <2> QED
    BY <1>2, <2>1, <2>2, <2>3 DEF ObserveInstall
<1> QED BY <1>1, <1>2

LEMMA HistoryInductive ==
  TypeOK /\ LoopInv /\ HistoryInv /\ [Next]_vars => HistoryInv'
<1> SUFFICES ASSUME TypeOK, LoopInv, HistoryInv, [Next]_vars
             PROVE  HistoryInv'
  OBVIOUS
<1>0. /\ history \in Seq(Calls) /\ epoch \in Nat /\ state \in Hlc
      /\ \A i \in 1 .. Len(history) : history[i] \in Calls
  BY DEF TypeOK
<1>1. CASE UNCHANGED <<state, epoch, history>>
  BY <1>1 DEF HistoryInv, TicksIncrease, ObservesIncrease
<1>2. CASE Restart
  <2>1. history' = history /\ epoch' = epoch + 1
    BY <1>2 DEF Restart
  <2>2. \A i \in 1 .. Len(history) :
          history[i].epoch \in Nat /\ history[i].epoch <= epoch
    BY <1>0 DEF Calls, HistoryInv
  <2>3. \A i \in 1 .. Len(history) :
          history[i].epoch <= epoch' /\ history[i].epoch # epoch'
    BY <1>0, <2>1, <2>2
  <2>4. TicksIncrease' /\ ObservesIncrease'
    BY <2>1 DEF HistoryInv, TicksIncrease, ObservesIncrease
  <2> QED BY <2>1, <2>3, <2>4 DEF HistoryInv
<1>3. ASSUME NEW t \in Threads, TickInstall(t) \/ ObserveInstall(t)
      PROVE  HistoryInv'
  <2>1. PICK c \in Calls :
           /\ history' = Append(history, c)
           /\ epoch' = epoch /\ c.epoch = epoch
           /\ state' \in Hlc /\ c.ts = state'
           /\ AtMost(state, state') /\ AtMost(c.recv, state')
           /\ c.op = "tick" => Before(state, state')
           /\ c.op = "observe" => LaterOrFull(state, state') /\ LaterOrFull(c.recv, state')
    BY <1>3, InstallAdvances
  <2> DEFINE n == Len(history)
  <2>2. /\ n \in Nat /\ Len(history') = n + 1
        /\ \A i \in 1 .. n : history'[i] = history[i]
        /\ history'[n + 1] = c
    <3>1. history' = Append(history, c)
      BY <2>1
    <3>2. Len(history) \in Nat
      BY <1>0
    <3> QED
      BY <1>0, <3>1, <3>2, HistoryGrows
  <2>3. \A i \in 1 .. n : history[i].ts \in Hlc /\ history[i].recv \in Hlc
    BY <1>0 DEF Calls
  <2> HIDE DEF n
  <2>4. ASSUME NEW i \in 1 .. n
        PROVE  /\ history'[i].epoch <= epoch'
               /\ history'[i].epoch = epoch' => /\ AtMost(history'[i].ts, state')
                                                /\ AtMost(history'[i].recv, state')
    BY <1>0, <2>1, <2>2, <2>3, BeforeTransitive DEF HistoryInv, n
  <2>5. \A i \in 1 .. n + 1 :
          /\ history'[i].epoch <= epoch'
          /\ history'[i].epoch = epoch' => /\ AtMost(history'[i].ts, state')
                                           /\ AtMost(history'[i].recv, state')
    <3>1. AtMost(c.ts, state') /\ c.epoch <= epoch'
      BY <2>1, <1>0 DEF AtMost
    <3> QED BY <2>1, <2>2, <2>4, <3>1
  <2>6. ASSUME NEW i \in 1 .. n + 1, NEW j \in 1 .. n + 1, i < j,
               history'[j].op = "tick", history'[i].epoch = history'[j].epoch
        PROVE  /\ Before(history'[i].ts, history'[j].ts)
               /\ Before(history'[i].recv, history'[j].ts)
    <3>1. CASE j = n + 1
      <4>1. i \in 1 .. n /\ history'[i] = history[i] /\ history'[j] = c
        BY <2>2, <2>6, <3>1
      <4>2. history[i].epoch = epoch
        BY <2>1, <2>6, <4>1
      <4>3. AtMost(history[i].ts, state) /\ AtMost(history[i].recv, state)
        BY <4>1, <4>2 DEF HistoryInv, n
      <4>4. Before(state, state') /\ history'[j].ts = state'
        BY <2>1, <2>6, <4>1
      <4> QED
        BY <1>0, <2>1, <2>3, <4>1, <4>3, <4>4, BeforeTransitive
    <3>2. CASE j # n + 1
      <4>1. i \in 1 .. n /\ j \in 1 .. n
        BY <2>2, <2>6, <3>2
      <4> QED
        BY <2>2, <2>6, <4>1 DEF HistoryInv, TicksIncrease, n
    <3> QED BY <3>1, <3>2
  <2>7. ASSUME NEW j \in 1 .. n + 1, history'[j].op = "observe"
        PROVE  /\ LaterOrFull(history'[j].recv, history'[j].ts)
               /\ \A i \in 1 .. j - 1 : history'[i].epoch = history'[j].epoch
                                        => LaterOrFull(history'[i].ts, history'[j].ts)
    <3>1. CASE j = n + 1
      <4>1. history'[j] = c /\ LaterOrFull(state, state') /\ LaterOrFull(c.recv, state')
        BY <2>1, <2>2, <2>7, <3>1
      <4>2. ASSUME NEW i \in 1 .. j - 1, history'[i].epoch = history'[j].epoch
            PROVE  LaterOrFull(history'[i].ts, state')
        <5>1. i \in 1 .. n /\ history'[i] = history[i] /\ history[i].epoch = epoch
          BY <2>1, <2>2, <3>1, <4>1, <4>2
        <5>2. AtMost(history[i].ts, state)
          BY <5>1 DEF HistoryInv, n
        <5> QED BY <1>0, <2>1, <2>3, <4>1, <5>1, <5>2, BeforeTransitive
      <4> QED BY <2>1, <4>1, <4>2
    <3>2. CASE j # n + 1
      <4>1. j \in 1 .. n /\ \A i \in 1 .. j - 1 : i \in 1 .. n
        BY <2>2, <3>2
      <4> QED
        BY <2>2, <2>7, <4>1 DEF HistoryInv, ObservesIncrease, n
    <3> QED BY <3>1, <3>2
  <2> QED
    BY <2>2, <2>5, <2>6, <2>7 DEF HistoryInv, TicksIncrease, ObservesIncrease
<1> QED BY <1>1, <1>2, <1>3, StepShape

LEMMA HistoryInvariant == Spec => []HistoryInv
<1>1. Init => HistoryInv
  BY DEF Init, HistoryInv, TicksIncrease, ObservesIncrease
<1> QED BY <1>1, LoopInvariant, HistoryInductive, PTL DEF Spec

\* Ticks increase in the order in which they take effect, and are later than
\* everything observe was given before: no two ticks of a process agree.
THEOREM TicksIncreaseAlways == Spec => []TicksIncrease
<1>1. HistoryInv => TicksIncrease
  BY DEF HistoryInv
<1> QED BY <1>1, HistoryInvariant, PTL

\* An observe returns a later timestamp than it was given and than every call before
\* it, or one whose counter is full.
THEOREM ObservesIncreaseAlways == Spec => []ObservesIncrease
<1>1. HistoryInv => ObservesIncrease
  BY DEF HistoryInv
<1> QED BY <1>1, HistoryInvariant, PTL

\* Clock::now bounds every timestamp handed out by the running process.
THEOREM NowBoundsHistory == Spec => []NowIsUpperBound
<1>1. HistoryInv => NowIsUpperBound
  BY DEF HistoryInv, NowIsUpperBound
<1> QED BY <1>1, HistoryInvariant, PTL

\* Only a restart moves the word back.
THEOREM WordNeverBack == Spec => NeverBack
<1>1. TypeOK /\ LoopInv /\ [Next]_vars
        => [epoch' = epoch => AtMost(state, state')]_vars
  <2> SUFFICES ASSUME TypeOK, LoopInv, [Next]_vars, epoch' = epoch
               PROVE  AtMost(state, state')
    OBVIOUS
  <2>1. CASE UNCHANGED <<state, epoch, history>>
    BY <2>1 DEF AtMost
  <2>2. CASE Restart
    BY <2>2 DEF Restart, TypeOK
  <2>3. ASSUME NEW t \in Threads, TickInstall(t) \/ ObserveInstall(t)
        PROVE  AtMost(state, state')
    BY <2>3, InstallAdvances
  <2> QED BY <2>1, <2>2, <2>3, StepShape
<1> QED BY <1>1, LoopInvariant, PTL DEF Spec, NeverBack

-----------------------------------------------------------------------------
(* Refinement *)

\* The loops implement indivisible calls: a successful compare-exchange is the
\* step at which a call takes effect, and every other step is a stutter.
THEOREM LoopsImplementAtomicClock == Spec => ImplementsAtomic
<1>1. Init => Atomic!Init
  BY DEF Init, Atomic!Init
<1>2. TypeOK /\ LoopInv /\ [Next]_vars => [Atomic!Next]_Atomic!vars
  <2> SUFFICES ASSUME TypeOK, LoopInv, [Next]_vars
               PROVE  [Atomic!Next]_Atomic!vars
    OBVIOUS
  <2> USE DEF Atomic!Next, Atomic!vars
  <2>1. CASE UNCHANGED <<state, epoch, history>>
    BY <2>1
  <2>2. CASE Restart
    BY <2>2 DEF Restart, Atomic!Restart, TypeOK
  <2>3. ASSUME NEW t \in Threads, TickInstall(t)
        PROVE  Atomic!Tick
    BY <2>3 DEF TickInstall, Return, Goto, LoopInv, Atomic!Tick, Atomic!Saturated,
       Saturated, Atomic!TickValue, TickValue, Atomic!Zero, Zero
  <2>4. ASSUME NEW t \in Threads, ObserveInstall(t)
        PROVE  Atomic!Observe
    <3>1. seen[t] \in Phys /\ recv[t] \in Received /\ Acceptable(seen[t], recv[t])
      BY <2>4 DEF ObserveInstall, Return, Goto, LoopInv, ObservePcs
    <3> QED
      BY <2>4, <3>1 DEF ObserveInstall, Atomic!Observe, Received, Atomic!Received,
         Atomic!Logical, Logical, Acceptable, Atomic!Acceptable, ObserveValue,
         Atomic!ObserveValue, Larger, Atomic!Larger, SaturatingSucc,
         Atomic!SaturatingSucc
  <2> QED BY <2>1, <2>2, <2>3, <2>4, StepShape
<1> QED
  BY <1>1, <1>2, LoopInvariant, PTL DEF Spec, ImplementsAtomic, Atomic!Spec
=============================================================================
