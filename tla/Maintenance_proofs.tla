------------------------- MODULE Maintenance_proofs -------------------------
(***************************************************************************)
(* Proofs about Maintenance: its steps are steps of Ledger, so that what   *)
(* is proved of Ledger holds with jobs as well; and retention spares the   *)
(* latest versions and the young facts, and leaves no more than its        *)
(* policy says, whatever other requests do; and each accepted line of a    *)
(* dump has one copy, however often and by however many at once it is      *)
(* restored.                                                               *)
(***************************************************************************)
EXTENDS Maintenance, Ledger_proofs

-----------------------------------------------------------------------------
(* Steps of jobs are steps of Ledger *)

LEMMA RetentionJob ==
  ASSUME JobsTypeOK, NEW r \in Requests, RetentionOf(r)
  PROVE  job[r] \in Retaining
BY DEF JobsTypeOK, RetentionOf, NoJob, Dumping, Restoring

LEMMA RetentionStepIsLedgers ==
  ASSUME JobsTypeOK, TypeOK, RetentionConsistent, NEW r \in Requests, RetentionStep(r)
  PROVE  [Next]_vars
<1>1. ASSUME RetractNext(r)
      PROVE  Call(r)
  <2>1. PICK f \in job[r].todo : CallRetract(r, f.id, job[r].ns, job[r].branch)
    BY <1>1 DEF RetractNext
  <2>2. RetentionOf(r)
    BY <1>1 DEF RetractNext, RetentionOf
  <2>3. job[r] \in Retaining
    BY <2>2, RetentionJob
  <2>4. job[r].ns \in Namespaces /\ job[r].branch \in Branches /\ f \in Fact
    BY <2>3 DEF Retaining
  <2>5. f.id \in 0 .. nextId - 1
    BY <2>2, <2>4 DEF RetentionConsistent, Careful, Fact, TypeOK, StoreTypeOK
  <2> QED BY <2>1, <2>4, <2>5 DEF Call
<1>2. ASSUME Purge(r)
      PROVE  Administer
  <2>1. job[r] \in Retaining
    BY <1>2, RetentionJob DEF Purge, RetentionOf
  <2>2. job[r].cutoff \in Cutoffs \cup {None} /\ job[r].branch \in Branches \cup {None}
    BY <2>1 DEF Retaining
  <2> QED BY <1>2, <2>2 DEF Purge, Administer
<1>3. ASSUME \/ ListBranches(r) \/ ListEntities(r) \/ ListAttrs(r)
             \/ Inspect(r) \/ InspectPanics(r) \/ Retained(r)
      PROVE  UNCHANGED vars
  BY <1>3 DEF ListBranches, ListEntities, ListAttrs, Inspect, InspectPanics, Retained
<1>4. ASSUME Retracted(r) \/ RetractFailed(r)
      PROVE  Step(r)
  BY <1>4 DEF Retracted, RetractFailed, Step
<1> QED BY <1>1, <1>2, <1>3, <1>4 DEF RetentionStep, Next

LEMMA BackupStepIsLedgers ==
  ASSUME NEW r \in Requests, BackupStep(r)
  PROVE  [Next]_vars
<1>1. ASSUME RestoreLine(r)
      PROVE  Call(r)
  BY <1>1 DEF RestoreLine, Call
<1>2. ASSUME RestoreTick(r) \/ Recorded(r)
      PROVE  Step(r)
  BY <1>2 DEF RestoreTick, Recorded, Step
<1>3. ASSUME DumpBranches(r) \/ DumpBranch(r) \/ Dumped(r) \/ SkipLine(r) \/ Restored(r)
      PROVE  UNCHANGED vars
  BY <1>3 DEF DumpBranches, DumpBranch, Dumped, SkipLine, Restored
<1> QED BY <1>1, <1>2, <1>3 DEF BackupStep, Next

LEMMA StepIsLedgers ==
  ASSUME JobsTypeOK, TypeOK, RetentionConsistent, [MaintenanceNext]_allVars
  PROVE  [Next]_vars
<1>1. ASSUME NEW r \in Requests, CallJob(r)
      PROVE  UNCHANGED vars
  BY <1>1 DEF CallJob, CallRetention, CallDump, CallRestore, StartJob
<1>2. ASSUME NEW r \in Requests, Request(r)
      PROVE  Next
  BY <1>2 DEF Request, Next
<1>3. CASE UNCHANGED allVars
  BY <1>3 DEF allVars
<1> QED
  BY <1>1, <1>2, <1>3, RetentionStepIsLedgers, BackupStepIsLedgers DEF MaintenanceNext, Next

-----------------------------------------------------------------------------
(* Types *)

Jobs == {NoJob} \cup Retaining \cup Dumping \cup Restoring

LEMMA BecomeKeepsType ==
  ASSUME JobsTypeOK, NEW r \in Requests, NEW j \in Jobs, Become(r, j)
  PROVE  JobsTypeOK'
BY DEF JobsTypeOK, Jobs, Become

LEMMA RetentionKeepsType ==
  ASSUME JobsTypeOK, TypeOK, RetentionConsistent, NEW r \in Requests, RetentionStep(r)
  PROVE  JobsTypeOK'
<1>1. job[r] \in Retaining
  BY RetentionJob DEF RetentionStep, RetentionOf, ListBranches, ListEntities, ListAttrs,
     Inspect, InspectPanics, RetractNext, Retracted, RetractFailed, Purge, Retained
<1>2. SUFFICES \E j \in Retaining : Become(r, j)
  BY <1>2, BecomeKeepsType DEF Jobs
<1>3. ASSUME ListBranches(r)
      PROVE  \E j \in Retaining : Become(r, j)
  <2>1. BranchesOf(job[r].ns) \subseteq Branches
    BY DEF BranchesOf
  <2> QED BY <1>1, <1>3, <2>1 DEF ListBranches, Retaining
<1>4. ASSUME ListEntities(r)
      PROVE  \E j \in Retaining : Become(r, j)
  <2>1. PICK b \in job[r].branches : Become(r, [job[r] EXCEPT
          !.branch = b, !.branches = @ \ {b},
          !.entities = {EntityOf[k] : k \in {x \in Keys : Live(job[r].ns, b, x) # {}}}])
    BY <1>4 DEF ListEntities
  <2>2. b \in Branches
    BY <1>1 DEF Retaining
  <2> QED BY <1>1, <2>1, <2>2 DEF Retaining
<1>5. ASSUME ListAttrs(r)
      PROVE  \E j \in Retaining : Become(r, j)
  BY <1>1, <1>5 DEF ListAttrs, Retaining
<1>6. ASSUME Inspect(r)
      PROVE  \E j \in Retaining : Become(r, j)
  <2>1. PICK k \in job[r].keys, now \in Readings(job[r].policy) :
          LET hist == History(job[r].ns, job[r].branch, k)
              cutoff == AgeCutoff(now, job[r].policy.max_age)
          IN  Become(r, [job[r] EXCEPT
                !.at = "retract", !.now = now, !.cutoff = cutoff, !.keys = @ \ {k},
                !.todo = {f \in hist : Eligible(f, hist, job[r].policy, cutoff)
                                         /\ ~f.retracted},
                !.inspected = @ \cup hist])
    BY <1>6 DEF Inspect
  <2>2. /\ now \in Walls \cup {None}
        /\ AgeCutoff(now, job[r].policy.max_age) \in Cutoffs \cup {None}
    <3>1. job[r].policy \in Retentions
      BY <1>1 DEF Retaining
    <3> QED BY <2>1, <3>1, AgeAssumption DEF AgeCutoff, Readings
  <2>3. History(job[r].ns, job[r].branch, k) \subseteq Fact
    BY DEF History, TypeOK, StoreTypeOK
  <2> QED BY <1>1, <2>1, <2>2, <2>3 DEF Retaining
<1>7. ASSUME RetractNext(r)
      PROVE  \E j \in Retaining : Become(r, j)
  <2>1. PICK f \in job[r].todo :
          Become(r, [job[r] EXCEPT !.at = "retracting", !.fact = f, !.todo = @ \ {f}])
    BY <1>7 DEF RetractNext
  <2>2. f \in Fact
    BY <1>1 DEF Retaining
  <2> QED BY <1>1, <2>1, <2>2 DEF Retaining
<1>8. ASSUME Retracted(r)
      PROVE  \E j \in Retaining : Become(r, j)
  <2>1. job[r].fact \in Fact
    BY <1>8 DEF Retracted, RetentionConsistent, Careful, RetentionOf
  <2> QED BY <1>1, <1>8, <2>1 DEF Retracted, Retaining
<1>9. ASSUME RetractFailed(r) \/ Purge(r) \/ Retained(r) \/ InspectPanics(r)
      PROVE  \E j \in Retaining : Become(r, j)
  BY <1>1, <1>9 DEF RetractFailed, Purge, Retained, InspectPanics, Retaining
<1> QED BY <1>3, <1>4, <1>5, <1>6, <1>7, <1>8, <1>9 DEF RetentionStep

LEMMA BackupKeepsType ==
  ASSUME JobsTypeOK, TypeOK, NEW r \in Requests, BackupStep(r)
  PROVE  JobsTypeOK'
<1>1. ASSUME DumpBranches(r)
      PROVE  JobsTypeOK'
  <2>1. job[r] \in Dumping /\ BranchesOf(job[r].ns) \subseteq Branches
    BY <1>1 DEF DumpBranches, JobsTypeOK, NoJob, Retaining, Restoring, BranchesOf
  <2>2. [job[r] EXCEPT !.at = "dump", !.branches = BranchesOf(job[r].ns)] \in Dumping
    BY <2>1 DEF Dumping
  <2> QED BY <1>1, <2>2, BecomeKeepsType DEF DumpBranches, Jobs
<1>2. ASSUME DumpBranch(r)
      PROVE  JobsTypeOK'
  <2>1. job[r] \in Dumping
    BY <1>2 DEF DumpBranch, JobsTypeOK, NoJob, Retaining, Restoring
  <2>2. PICK b \in job[r].branches :
          LET found == {f \in facts : f.ns = job[r].ns /\ f.branch = b}
          IN  Become(r, [job[r] EXCEPT !.branches = @ \ {b},
                           !.lines = IF found = {} THEN @ ELSE Append(@, found)])
    BY <1>2 DEF DumpBranch
  <2> DEFINE found == {f \in facts : f.ns = job[r].ns /\ f.branch = b}
             lines == IF found = {} THEN job[r].lines ELSE Append(job[r].lines, found)
  <2>3. found \in SUBSET Fact
    BY DEF TypeOK, StoreTypeOK
  <2> HIDE DEF found
  <2>4. lines \in Seq(SUBSET Fact)
    BY <2>1, <2>3 DEF Dumping
  <2>5. Become(r, [job[r] EXCEPT !.branches = @ \ {b}, !.lines = lines])
    BY <2>2 DEF found
  <2> HIDE DEF lines
  <2>6. [job[r] EXCEPT !.branches = @ \ {b}, !.lines = lines] \in Dumping
    BY <2>1, <2>4 DEF Dumping
  <2> QED BY <2>5, <2>6, BecomeKeepsType DEF Jobs
<1>3. ASSUME Dumped(r)
      PROVE  JobsTypeOK'
  <2>1. job[r] \in Dumping
    BY <1>3 DEF Dumped, JobsTypeOK, NoJob, Retaining, Restoring
  <2>2. job[r].lines \in Seq(SUBSET Fact)
    BY <2>1 DEF Dumping
  <2> QED BY <1>3, <2>2 DEF Dumped, JobsTypeOK
<1>4. ASSUME job[r].at \in {"restore", "recording"}
      PROVE  job[r] \in Restoring
  BY <1>4 DEF JobsTypeOK, NoJob, Retaining, Dumping
<1>5. ASSUME NEW f, job[r].at = "restore", job[r].lines # << >>
      PROVE  Rest(job[r].lines, f) \in Seq(SUBSET Fact)
  <2>1. job[r].lines \in Seq(SUBSET Fact)
    BY <1>4, <1>5 DEF Restoring
  <2>2. Tail(job[r].lines) \in Seq(SUBSET Fact)
    BY <1>5, <2>1
  <2>3. [job[r].lines EXCEPT ![1] = @ \ {f}] \in Seq(SUBSET Fact)
    BY <1>5, <2>1
  <2> QED BY <2>2, <2>3 DEF Rest
<1>6. ASSUME RestoreLine(r)
      PROVE  JobsTypeOK'
  <2>1. PICK f : Become(r, [job[r] EXCEPT !.at = "recording", !.lines = Rest(@, f)])
    BY <1>6 DEF RestoreLine
  <2>2. job[r] \in Restoring /\ Rest(job[r].lines, f) \in Seq(SUBSET Fact)
    BY <1>4, <1>5, <1>6 DEF RestoreLine
  <2>3. [job[r] EXCEPT !.at = "recording", !.lines = Rest(@, f)] \in Restoring
    BY <2>2 DEF Restoring
  <2> QED BY <2>1, <2>3, BecomeKeepsType DEF Jobs
<1>7. ASSUME SkipLine(r)
      PROVE  JobsTypeOK'
  <2>1. PICK f : Become(r, [job[r] EXCEPT !.lines = Rest(@, f)])
    BY <1>7 DEF SkipLine
  <2>2. job[r] \in Restoring /\ Rest(job[r].lines, f) \in Seq(SUBSET Fact)
    BY <1>4, <1>5, <1>7 DEF SkipLine
  <2>3. [job[r] EXCEPT !.lines = Rest(@, f)] \in Restoring
    BY <2>2 DEF Restoring
  <2> QED BY <2>1, <2>3, BecomeKeepsType DEF Jobs
<1>8. ASSUME RestoreTick(r)
      PROVE  JobsTypeOK'
  BY <1>8 DEF RestoreTick, jobVars, JobsTypeOK
<1>9. ASSUME Recorded(r)
      PROVE  JobsTypeOK'
  <2>1. [job[r] EXCEPT !.at = "restore"] \in Restoring
    BY <1>4, <1>9 DEF Recorded, Restoring
  <2> QED BY <1>9, <2>1, BecomeKeepsType DEF Recorded, Jobs
<1>10. ASSUME Restored(r)
       PROVE  JobsTypeOK'
  <2>1. [job[r] EXCEPT !.at = "restored"] \in Restoring
    BY <1>4, <1>10 DEF Restored, Restoring
  <2> QED BY <1>10, <2>1, BecomeKeepsType DEF Restored, Jobs
<1> QED
  BY <1>1, <1>2, <1>3, <1>6, <1>7, <1>8, <1>9, <1>10 DEF BackupStep

LEMMA CallJobKeepsType ==
  ASSUME JobsTypeOK, NEW r \in Requests, CallJob(r)
  PROVE  JobsTypeOK'
<1>1. ASSUME NEW j \in Jobs, StartJob(r, j)
      PROVE  JobsTypeOK'
  BY <1>1 DEF StartJob, JobsTypeOK, Jobs
<1>2. ASSUME NEW n \in Namespaces, NEW policy \in Retentions, CallRetention(r, n, policy)
      PROVE  JobsTypeOK'
  <2>1. policy.branches \subseteq Branches
    BY RetentionsAssumption
  <2>2. [at |-> IF policy.branches = {} THEN "list_branches" ELSE "next",
         ns |-> n, policy |-> policy, branches |-> policy.branches,
         entities |-> {}, keys |-> {}, branch |-> Main, now |-> None,
         cutoff |-> None, todo |-> {}, fact |-> None, inspected |-> {}, retracted |-> {}] \in Retaining
    BY <2>1, NamesAssumption DEF Retaining
  <2> QED BY <1>1, <1>2, <2>2 DEF CallRetention, Jobs
<1>3. ASSUME NEW n \in Namespaces, CallDump(r, n)
      PROVE  JobsTypeOK'
  <2>1. [at |-> "dump_branches", ns |-> n, branches |-> {}, lines |-> << >>] \in Dumping
    BY DEF Dumping
  <2> QED BY <1>1, <1>3, <2>1 DEF CallDump, Jobs
<1>4. ASSUME NEW n \in Namespaces, CallRestore(r, n)
      PROVE  JobsTypeOK'
  <2>1. [at |-> "restore", ns |-> n, dump |-> backup, lines |-> backup] \in Restoring
    BY DEF Restoring, JobsTypeOK
  <2> QED BY <1>1, <1>4, <2>1 DEF CallRestore, Jobs
<1> QED BY <1>2, <1>3, <1>4 DEF CallJob

LEMMA JobsKeepType ==
  ASSUME JobsTypeOK, TypeOK, RetentionConsistent, [MaintenanceNext]_allVars
  PROVE  JobsTypeOK'
<1>1. CASE UNCHANGED jobVars
  BY <1>1 DEF jobVars, JobsTypeOK
<1>2. CASE UNCHANGED allVars
  BY <1>1, <1>2 DEF allVars
<1> QED
  BY <1>1, <1>2, CallJobKeepsType, RetentionKeepsType, BackupKeepsType
     DEF MaintenanceNext, Request

-----------------------------------------------------------------------------
(* Retention spares the latest *)

LEMMA MoreToCount ==
  ASSUME NEW S, NEW T, S \subseteq T, IsFiniteSet(T), NEW n \in Nat, Cardinality(S) >= n
  PROVE  Cardinality(T) >= n
<1>1. IsFiniteSet(S) /\ Cardinality(S) <= Cardinality(T)
  BY FS_Subset
<1> QED BY <1>1, FS_CardinalityType

LEMMA RetentionPolicy ==
  ASSUME NEW j \in Retaining
  PROVE  j.policy.max_versions \in Nat \cup {None}
<1>1. j.policy \in Retentions
  BY DEF Retaining
<1> QED BY <1>1, RetentionsAssumption

\* What a job has read only grows, so what it has spared stays spared.
LEMMA SparedStays ==
  ASSUME NEW r \in Requests, NEW f, Spared(r, f), job[r] \in Retaining,
         job'[r].policy = job[r].policy,
         job[r].inspected \subseteq job'[r].inspected, IsFiniteSet(job'[r].inspected)
  PROVE  Spared(r, f)'
<1> DEFINE Later(S) == {g \in S \ {f} : g.branch = f.branch /\ g.key = f.key /\ g.ts >= f.ts}
<1>1. Later(job[r].inspected) \subseteq Later(job'[r].inspected)
  OBVIOUS
<1>2. IsFiniteSet(Later(job'[r].inspected))
  BY FS_Subset
<1>3. job[r].policy.max_versions \in Nat \cup {None}
  BY RetentionPolicy
<1>4. ASSUME job[r].policy.max_versions # None
      PROVE  Cardinality(Later(job'[r].inspected)) >= job[r].policy.max_versions
  <2>1. Cardinality(Later(job[r].inspected)) >= job[r].policy.max_versions
    BY <1>4 DEF Spared
  <2> QED BY <1>1, <1>2, <1>3, <1>4, <2>1, MoreToCount
<1> QED BY <1>4 DEF Spared

\* A step that reads and holds nothing new.
LEMMA CarefulStays ==
  ASSUME JobsTypeOK, TypeOK, [Next]_vars, NEW r \in Requests, RetentionOf(r), Careful(r),
         job'[r].policy = job[r].policy, job'[r].inspected = job[r].inspected,
         job'[r].todo \subseteq job[r].todo,
         \A f \in job'[r].retracted : Spared(r, f),
         job'[r].at = "retracting" => job'[r].fact \in Fact /\ Spared(r, job'[r].fact)
  PROVE  Careful(r)'
<1>1. job[r] \in Retaining
  BY RetentionJob
<1>2. IsFiniteSet(job'[r].inspected)
  BY DEF Careful
<1>3. ASSUME NEW f, Spared(r, f)
      PROVE  Spared(r, f)'
  BY <1>1, <1>2, <1>3, SparedStays
<1>4. ASSUME NEW f \in job'[r].todo
      PROVE  f.id < nextId' /\ Spared(r, f)
  <2>1. f \in Fact /\ f.id < nextId /\ Spared(r, f)
    BY <1>1, <1>4 DEF Careful, Retaining
  <2> QED BY <2>1, IdsGrow DEF Fact
<1> QED BY <1>2, <1>3, <1>4 DEF Careful

LEMMA InspectIsCareful ==
  ASSUME JobsTypeOK, TypeOK, Consistent, RetentionConsistent, [Next]_vars,
         NEW r \in Requests, Inspect(r)
  PROVE  Careful(r)'
<1>1. job[r] \in Retaining /\ Careful(r)
  BY RetentionJob DEF Inspect, RetentionOf, RetentionConsistent
<1>2. PICK k \in job[r].keys, now \in Readings(job[r].policy) :
        LET hist == History(job[r].ns, job[r].branch, k)
            cutoff == AgeCutoff(now, job[r].policy.max_age)
        IN  Become(r, [job[r] EXCEPT
              !.at = "retract", !.now = now, !.cutoff = cutoff, !.keys = @ \ {k},
              !.todo = {f \in hist : Eligible(f, hist, job[r].policy, cutoff)
                                       /\ ~f.retracted},
              !.inspected = @ \cup hist])
  BY DEF Inspect
<1> DEFINE hist == History(job[r].ns, job[r].branch, k)
           cutoff == AgeCutoff(now, job[r].policy.max_age)
           todo == {f \in hist : Eligible(f, hist, job[r].policy, cutoff) /\ ~f.retracted}
<1>3. /\ job'[r].at = "retract" /\ job'[r].policy = job[r].policy
      /\ job'[r].todo = todo /\ job'[r].retracted = job[r].retracted
      /\ job'[r].inspected = job[r].inspected \cup hist
  BY <1>1, <1>2 DEF Become, JobsTypeOK, Retaining
<1>4. hist \subseteq facts /\ \A f \in hist : f.branch = job[r].branch /\ f.key = k
  BY DEF History
<1> HIDE DEF hist
<1>5. IsFiniteSet(hist) /\ IsFiniteSet(job'[r].inspected)
  <2>1. IsFiniteSet(hist)
    BY <1>4, FS_Subset DEF RetentionConsistent
  <2>2. IsFiniteSet(job[r].inspected)
    BY <1>1 DEF Careful
  <2>3. IsFiniteSet(job[r].inspected \cup hist)
    BY <2>1, <2>2, FS_Union
  <2> QED BY <1>3, <2>1, <2>3
<1>6. ASSUME NEW f \in todo
      PROVE  f.id < nextId' /\ Spared(r, f)'
  <2>1. f \in facts /\ f \in Fact /\ f.id < nextId
    BY <1>4 DEF Consistent, TxConsistent, IdsBehind, TypeOK, StoreTypeOK
  <2>2. f.id < nextId'
    BY <2>1, IdsGrow DEF Fact
  <2> DEFINE later == {g \in job'[r].inspected \ {f} :
                         g.branch = f.branch /\ g.key = f.key /\ g.ts >= f.ts}
  <2>3. Newer(f, hist) \subseteq later
    <3>1. ASSUME NEW g \in Newer(f, hist)
          PROVE  g \in later
      <4>1. g \in hist /\ g \in Fact /\ (g.ts > f.ts \/ (g.ts = f.ts /\ g.id > f.id))
        BY <1>4 DEF Newer, TypeOK, StoreTypeOK
      <4>2. g # f /\ g.ts >= f.ts
        BY <2>1, <4>1 DEF Fact
      <4> QED BY <1>3, <1>4, <4>1, <4>2
    <3> QED BY <3>1
  <2>4. IsFiniteSet(later)
    BY <1>5, FS_Subset
  <2> HIDE DEF later
  <2>5. ASSUME job[r].policy.max_versions # None
        PROVE  Cardinality(later) >= job[r].policy.max_versions
    <3>1. Cardinality(Newer(f, hist)) >= job[r].policy.max_versions
      BY <2>5 DEF Eligible
    <3>2. job[r].policy.max_versions \in Nat
      BY <1>1, <2>5, RetentionPolicy
    <3> QED BY <2>3, <2>4, <3>1, <3>2, MoreToCount
  <2> QED BY <1>3, <2>2, <2>5 DEF Spared, later
<1>7. ASSUME NEW f \in job'[r].retracted
      PROVE  Spared(r, f)'
  <2>1. Spared(r, f)
    BY <1>1, <1>3, <1>7 DEF Careful
  <2> QED BY <1>1, <1>3, <1>5, <2>1, SparedStays
<1> QED BY <1>3, <1>5, <1>6, <1>7 DEF Careful

LEMMA RetentionStepIsCareful ==
  ASSUME JobsTypeOK, TypeOK, Consistent, RetentionConsistent, [Next]_vars,
         NEW r \in Requests, RetentionStep(r)
  PROVE  Careful(r)'
<1>1. RetentionOf(r)
  BY DEF RetentionStep, RetentionOf, ListBranches, ListEntities, ListAttrs,
     Inspect, InspectPanics, RetractNext, Retracted, RetractFailed, Purge, Retained
<1>2. job[r] \in Retaining /\ Careful(r)
  BY <1>1, RetentionJob DEF RetentionConsistent
<1> DEFINE Untouched ==
      /\ job'[r].policy = job[r].policy /\ job'[r].inspected = job[r].inspected
      /\ job'[r].todo = job[r].todo /\ job'[r].retracted = job[r].retracted
      /\ job'[r].at # "retracting"
<1>3. ASSUME ListBranches(r) \/ ListEntities(r) \/ ListAttrs(r)
      PROVE  Untouched
  <2>1. CASE ListBranches(r)
    BY <1>2, <2>1 DEF ListBranches, Become, JobsTypeOK, Retaining
  <2>2. CASE ListEntities(r)
    BY <1>2, <2>2 DEF ListEntities, Become, JobsTypeOK, Retaining
  <2>3. CASE ListAttrs(r)
    BY <1>2, <2>3 DEF ListAttrs, Become, JobsTypeOK, Retaining
  <2> QED BY <1>3, <2>1, <2>2, <2>3
<1>4. ASSUME RetractFailed(r) \/ Purge(r) \/ Retained(r) \/ InspectPanics(r)
      PROVE  Untouched
  BY <1>2, <1>4 DEF RetractFailed, Purge, Retained, InspectPanics, Become, JobsTypeOK,
     Retaining
<1>5. CASE \/ ListBranches(r) \/ ListEntities(r) \/ ListAttrs(r)
           \/ RetractFailed(r) \/ Purge(r) \/ Retained(r) \/ InspectPanics(r)
  <2>1. Untouched
    BY <1>3, <1>5, <1>4
  <2>2. \A f \in job'[r].retracted : Spared(r, f)
    BY <1>2, <2>1 DEF Careful
  <2> QED BY <1>1, <1>2, <2>1, <2>2, CarefulStays
<1>6. CASE RetractNext(r)
  <2>1. PICK f \in job[r].todo :
          Become(r, [job[r] EXCEPT !.at = "retracting", !.fact = f, !.todo = @ \ {f}])
    BY <1>6 DEF RetractNext
  <2>2. /\ job'[r].policy = job[r].policy /\ job'[r].inspected = job[r].inspected
        /\ job'[r].todo \subseteq job[r].todo /\ job'[r].retracted = job[r].retracted
        /\ job'[r].fact = f
    BY <1>2, <2>1 DEF Become, JobsTypeOK, Retaining
  <2>3. f \in Fact /\ Spared(r, f) /\ \A g \in job'[r].retracted : Spared(r, g)
    BY <1>2, <2>2 DEF Careful, Retaining
  <2> QED BY <1>1, <1>2, <2>2, <2>3, CarefulStays
<1>7. CASE Retracted(r)
  <2>1. /\ job'[r].policy = job[r].policy /\ job'[r].inspected = job[r].inspected
        /\ job'[r].todo = job[r].todo /\ job'[r].at # "retracting"
        /\ job'[r].retracted = job[r].retracted \cup {job[r].fact}
    BY <1>2, <1>7 DEF Retracted, Become, JobsTypeOK, Retaining
  <2>2. \A g \in job'[r].retracted : Spared(r, g)
    BY <1>2, <1>7, <2>1 DEF Retracted, Careful
  <2> QED BY <1>1, <1>2, <2>1, <2>2, CarefulStays
<1> QED BY <1>5, <1>6, <1>7, InspectIsCareful DEF RetentionStep

\* A step of a job is no other job's, ...
LEMMA OtherJobsStay ==
  ASSUME JobsTypeOK, NEW r \in Requests, RetentionStep(r) \/ BackupStep(r) \/ CallJob(r),
         NEW q \in Requests, q # r
  PROVE  job'[q] = job[q]
<1>1. CASE RetentionStep(r)
  BY <1>1 DEF RetentionStep, ListBranches, ListEntities, ListAttrs, Inspect,
     InspectPanics, RetractNext, Retracted, RetractFailed, Purge, Retained, Become, JobsTypeOK
<1>2. CASE BackupStep(r)
  BY <1>2 DEF BackupStep, DumpBranches, DumpBranch, Dumped, RestoreLine, SkipLine,
     RestoreTick, jobVars, Recorded, Restored, Become, JobsTypeOK
<1>3. CASE CallJob(r)
  BY <1>3 DEF CallJob, CallRetention, CallDump, CallRestore, StartJob, JobsTypeOK
<1> QED BY <1>1, <1>2, <1>3

\* ... and a dump or restore stays one.
LEMMA BackupIsNoRetention ==
  ASSUME JobsTypeOK, NEW r \in Requests, BackupStep(r)
  PROVE  ~RetentionOf(r) /\ ~RetentionOf(r)'
<1>1. job[r].at \in {"dump_branches", "dump", "restore", "recording"}
  BY DEF BackupStep, DumpBranches, DumpBranch, Dumped, RestoreLine, SkipLine,
     RestoreTick, Recorded, Restored
<1>2. job[r] \in Dumping \cup Restoring
  BY <1>1 DEF JobsTypeOK, NoJob, Retaining
<1> DEFINE Elsewhere ==
      \/ job'[r].at \in {"none", "dump", "restore", "recording", "restored"}
      \/ job'[r] = job[r]
<1>3. ASSUME DumpBranches(r) \/ DumpBranch(r) \/ Dumped(r)
      PROVE  Elsewhere
  <2>1. job[r] \in Dumping
    BY <1>3, <1>2 DEF DumpBranches, DumpBranch, Dumped, Restoring
  <2>2. CASE DumpBranches(r)
    BY <2>1, <2>2 DEF DumpBranches, Become, JobsTypeOK, Dumping
  <2>3. CASE DumpBranch(r)
    BY <2>1, <2>3 DEF DumpBranch, Become, JobsTypeOK, Dumping
  <2>4. CASE Dumped(r)
    BY <2>4 DEF Dumped, JobsTypeOK, NoJob
  <2> QED BY <1>3, <2>2, <2>3, <2>4
<1>4. ASSUME \/ RestoreLine(r) \/ SkipLine(r) \/ RestoreTick(r)
             \/ Recorded(r) \/ Restored(r)
      PROVE  Elsewhere
  <2>1. job[r] \in Restoring
    BY <1>4, <1>2 DEF RestoreLine, SkipLine, RestoreTick, Recorded, Restored, Dumping
  <2>2. CASE RestoreLine(r) \/ SkipLine(r)
    <3>1. CASE RestoreLine(r)
      BY <2>1, <3>1 DEF RestoreLine, Become, JobsTypeOK, Restoring
    <3>2. CASE SkipLine(r)
      <4>1. PICK f : Become(r, [job[r] EXCEPT !.lines = Rest(@, f)])
        BY <3>2 DEF SkipLine
      <4>2. job[r].at = "restore"
        BY <3>2 DEF SkipLine
      <4> QED BY <2>1, <4>1, <4>2 DEF Become, JobsTypeOK, Restoring
    <3> QED BY <2>2, <3>1, <3>2
  <2>3. CASE RestoreTick(r)
    BY <2>3 DEF RestoreTick, jobVars
  <2>4. CASE Recorded(r) \/ Restored(r)
    BY <2>1, <2>4 DEF Recorded, Restored, Become, JobsTypeOK, Restoring
  <2> QED BY <1>4, <2>2, <2>3, <2>4
<1>5. Elsewhere
  BY <1>3, <1>4 DEF BackupStep
<1> QED BY <1>1, <1>5 DEF RetentionOf

LEMMA JobsKeepConsistent ==
  ASSUME JobsTypeOK, TypeOK, Consistent, RetentionConsistent, [MaintenanceNext]_allVars
  PROVE  RetentionConsistent'
<1>1. [Next]_vars
  BY StepIsLedgers
<1>2. IsFiniteSet(facts')
  BY <1>1, FactsStayFinite DEF RetentionConsistent
<1>3. ASSUME NEW q \in Requests, job'[q] = job[q], RetentionOf(q)'
      PROVE  Careful(q)'
  <2>1. RetentionOf(q) /\ Careful(q)
    BY <1>3 DEF RetentionOf, RetentionConsistent
  <2>2. /\ \A f \in job'[q].retracted : Spared(q, f)
        /\ job'[q].at = "retracting" => job'[q].fact \in Fact /\ Spared(q, job'[q].fact)
    BY <1>3, <2>1 DEF Careful
  <2> QED BY <1>1, <1>3, <2>1, <2>2, CarefulStays
<1>4. SUFFICES ASSUME NEW q \in Requests, RetentionOf(q)'
               PROVE  Careful(q)'
  BY <1>2 DEF RetentionConsistent
<1>5. ASSUME NEW r \in Requests, RetentionStep(r)
      PROVE  Careful(q)'
  <2>1. q # r => job'[q] = job[q]
    BY <1>5 DEF RetentionStep, ListBranches, ListEntities, ListAttrs, Inspect,
       InspectPanics, RetractNext, Retracted, RetractFailed, Purge, Retained, Become, JobsTypeOK
  <2> QED BY <1>1, <1>3, <1>4, <1>5, <2>1, RetentionStepIsCareful
<1>6. ASSUME NEW r \in Requests, BackupStep(r)
      PROVE  Careful(q)'
  <2>1. q # r => job'[q] = job[q]
    BY <1>6, OtherJobsStay
  <2>2. q # r
    BY <1>4, <1>6, BackupIsNoRetention
  <2> QED BY <1>3, <1>4, <2>1, <2>2
<1>7. ASSUME NEW r \in Requests, CallJob(r)
      PROVE  Careful(q)'
  <2>1. q # r => job'[q] = job[q]
    BY <1>7 DEF CallJob, CallRetention, CallDump, CallRestore, StartJob, JobsTypeOK
  <2>2. ASSUME NEW n, NEW policy, CallRetention(r, n, policy)
        PROVE  Careful(r)'
    <3>1. /\ job'[r].inspected = {} /\ job'[r].todo = {} /\ job'[r].retracted = {}
          /\ job'[r].at # "retracting"
      BY <2>2 DEF CallRetention, StartJob, JobsTypeOK
    <3> QED BY <3>1, FS_EmptySet DEF Careful
  <2>3. ASSUME NEW n, CallDump(r, n) \/ CallRestore(r, n)
        PROVE  ~RetentionOf(r)'
    BY <2>3 DEF CallDump, CallRestore, StartJob, JobsTypeOK, RetentionOf
  <2> QED BY <1>3, <1>4, <1>7, <2>1, <2>2, <2>3 DEF CallJob
<1>8. CASE UNCHANGED jobVars
  BY <1>3, <1>4, <1>8 DEF jobVars
<1>9. CASE UNCHANGED allVars
  BY <1>8, <1>9 DEF allVars
<1> QED BY <1>5, <1>6, <1>7, <1>8, <1>9 DEF MaintenanceNext, Request

LEMMA InitJobs ==
  ASSUME MaintenanceInit
  PROVE  JobsTypeOK /\ RetentionConsistent /\ RetentionExact
<1>1. JobsTypeOK
  BY DEF MaintenanceInit, JobsTypeOK
<1>2. IsFiniteSet(facts)
  BY FS_EmptySet DEF MaintenanceInit, Init, StoreInit
<1>3. \A r \in Requests : ~RetentionOf(r)
  BY DEF MaintenanceInit, RetentionOf, NoJob
<1> QED BY <1>1, <1>2, <1>3 DEF RetentionConsistent, RetentionExact

-----------------------------------------------------------------------------
(* What a step does to facts and requests that others rely on *)

\* A fact that is stored after a step was there before it, is new, or is the closed form
\* of one that was live.
LEMMA FactsAfter ==
  ASSUME TypeOK, TxConsistent, [Next]_vars, NEW g \in facts'
  PROVE  \/ g \in facts
         \/ g.id = nextId /\ nextId' = nextId + 1 /\ \E r \in Requests : RecordNew(r)
         \/ g.retracted /\ \E f \in facts : /\ f.id = g.id /\ f.ts = g.ts /\ f.branch = g.branch
                                            /\ f.key = g.key /\ f.value = g.value
<1>1. ASSUME NEW r \in Requests, RecordNew(r), g \notin facts
      PROVE  g.id = nextId /\ nextId' = nextId + 1
  BY <1>1, RecordAdds
<1>2. ASSUME NEW r \in Requests, Retract(r), g \notin facts
      PROVE  g.retracted /\ \E f \in facts : /\ f.id = g.id /\ f.ts = g.ts /\ f.branch = g.branch
                                             /\ f.key = g.key /\ f.value = g.value
  <2>1. PICK f \in facts, h \in Fact :
          /\ h.retracted /\ f.id = h.id /\ f.ts = h.ts /\ f.branch = h.branch
          /\ f.key = h.key /\ f.value = h.value /\ facts' = (facts \ {f}) \cup {h}
    BY <1>2, RetractCloses
  <2> QED BY <1>2, <2>1
<1>3. ASSUME NEW before, NEW scope, Gc(before, scope)
      PROVE  g \in facts
  BY <1>3 DEF Gc, StoreGc
<1> QED BY <1>1, <1>2, <1>3, FactsStep

\* What was known of a fact that has been read stays known.
LEMMA ReadStays ==
  ASSUME TypeOK, TxConsistent, [Next]_vars, NEW f \in Fact, f.id < nextId,
         \A g \in facts : g.id = f.id => g.ts = f.ts
  PROVE  /\ f.id < nextId'
         /\ \A g \in facts' : g.id = f.id => g.ts = f.ts
         /\ f \in facts' /\ ~f.retracted => f \in facts
<1>1. /\ nextId \in Nat /\ nextId' \in Nat /\ nextId' >= nextId /\ f.id \in Nat
  BY IdsGrow DEF Fact
<1>2. ASSUME NEW g \in facts', g.id = f.id
      PROVE  g.ts = f.ts
  BY <1>1, <1>2, FactsAfter
<1>3. ASSUME f \in facts', ~f.retracted
      PROVE  f \in facts
  BY <1>1, <1>3, FactsAfter
<1> QED BY <1>1, <1>2, <1>3

\* A request is moved on by its own steps only.
LEMMA OtherRequestsStay ==
  ASSUME TypeOK, NEW r \in Requests, Call(r) \/ Step(r), NEW q \in Requests, q # r
  PROVE  req'[q] = req[q]
<1>1. req \in [Requests -> Stages]
  BY DEF TypeOK, LedgerTypeOK
<1>2. CASE Call(r)
  BY <1>1, <1>2 DEF Call, CallRecord, CallBulk, CallRetract, CallFork, Begin
<1>3. CASE Step(r)
  BY <1>1, <1>3 DEF Step, TickRecord, RecordNew, RecordDuplicate, Retract, RetractNotFound,
     Fork, ForkRejected, Stored, End
<1> QED BY <1>2, <1>3

LEMMA AdministerKeepsRequests == Administer => req' = req
BY DEF Administer, DeleteBranch, CreateNamespace, Gc, PutTag, DeleteTag, OneStep

\* While a job waits for its retraction, nobody else moves its request on.
LEMMA JobKeepsRequest ==
  ASSUME JobsTypeOK, TypeOK, [MaintenanceNext]_allVars, NEW q \in Requests,
         job'[q] = job[q], job[q].at = "retracting"
  PROVE  req'[q] = req[q]
<1>1. CASE Administer
  BY <1>1, AdministerKeepsRequests
<1>2. CASE UNCHANGED allVars
  BY <1>2 DEF allVars, vars, ledger
<1>3. ASSUME NEW r \in Requests, Request(r)
      PROVE  req'[q] = req[q]
  <2>1. q # r /\ (Call(r) \/ Step(r))
    BY <1>3 DEF Request, Free
  <2> QED BY <2>1, OtherRequestsStay
<1>4. ASSUME NEW r \in Requests, CallJob(r)
      PROVE  req'[q] = req[q]
  BY <1>4 DEF CallJob, CallRetention, CallDump, CallRestore, StartJob, vars, ledger
<1>5. ASSUME NEW r \in Requests, BackupStep(r)
      PROVE  req'[q] = req[q]
  <2>1. q # r
    BY <1>5, BackupIsNoRetention DEF RetentionOf
  <2>2. Call(r) \/ Step(r) \/ UNCHANGED vars
    BY <1>5 DEF BackupStep, DumpBranches, DumpBranch, Dumped, RestoreLine, SkipLine,
       RestoreTick, Recorded, Restored, Call, Step
  <2> QED BY <2>1, <2>2, OtherRequestsStay DEF vars, ledger
<1>6. ASSUME NEW r \in Requests, RetentionStep(r)
      PROVE  req'[q] = req[q]
  <2>1. CASE q = r
    <3>1. Retracted(r) \/ RetractFailed(r)
      BY <1>6, <2>1 DEF RetentionStep, ListBranches, ListEntities, ListAttrs, Inspect,
         InspectPanics, RetractNext, Purge, Retained
    <3>2. job[r] \in Retaining
      BY <2>1, RetentionJob DEF RetentionOf
    <3>3. job'[r].at \in {"retract", "failed"}
      BY <3>1, <3>2 DEF Retracted, RetractFailed, Become, JobsTypeOK, Retaining
    <3> QED BY <2>1, <3>3
  <2>2. CASE q # r
    <3>1. ASSUME RetractNext(r)
          PROVE  req'[q] = req[q]
      BY <2>2, <3>1 DEF RetractNext, CallRetract, Begin, TypeOK, LedgerTypeOK
    <3>2. ASSUME Retracted(r) \/ RetractFailed(r)
          PROVE  Step(r)
      BY <3>2 DEF Retracted, RetractFailed, Step
    <3>3. ASSUME Purge(r)
          PROVE  req'[q] = req[q]
      BY <3>3 DEF Purge, Gc, OneStep
    <3>4. ASSUME \/ ListBranches(r) \/ ListEntities(r) \/ ListAttrs(r)
                 \/ Inspect(r) \/ InspectPanics(r) \/ Retained(r)
          PROVE  req'[q] = req[q]
      BY <3>4 DEF ListBranches, ListEntities, ListAttrs, Inspect, InspectPanics, Retained,
         vars, ledger
    <3> QED BY <1>6, <2>2, <3>1, <3>2, <3>3, <3>4, OtherRequestsStay DEF RetentionStep
  <2> QED BY <2>1, <2>2
<1> QED BY <1>1, <1>2, <1>3, <1>4, <1>5, <1>6 DEF MaintenanceNext

-----------------------------------------------------------------------------
(* Retention retracts what is too old or too much, and all of it *)

\* In a set of facts with different ids, one comes before all others.
LEMMA FirstExists ==
  ASSUME NEW S \in SUBSET Fact, S # {}, \A f, g \in S : f.id = g.id => f = g
  PROVE  \E f \in S : S \ {f} \subseteq Newer(f, S)
<1>1. \A f \in S : f.ts \in Nat /\ f.id \in Nat
  BY DEF Fact
<1> DEFINE Ts == {f.ts : f \in S}
<1>2. PICK ts \in Ts : \A t \in Ts : ts <= t
  <2>1. Ts \in SUBSET Nat /\ Ts # {}
    BY <1>1
  <2> HIDE DEF Ts
  <2> QED BY <2>1, LeastNat
<1> DEFINE Ids == {f.id : f \in {g \in S : g.ts = ts}}
<1>3. PICK id \in Ids : \A i \in Ids : id <= i
  <2>1. Ids \in SUBSET Nat /\ Ids # {}
    BY <1>1
  <2> HIDE DEF Ids
  <2> QED BY <2>1, LeastNat
<1>4. PICK f \in S : f.ts = ts /\ f.id = id
  OBVIOUS
<1>5. ASSUME NEW g \in S, g # f
      PROVE  g \in Newer(f, S)
  <2>1. g.ts \in Nat /\ f.ts \in Nat /\ g.id \in Nat /\ f.id \in Nat
    BY <1>1
  <2>2. f.ts <= g.ts /\ g.id # f.id
    BY <1>2, <1>4, <1>5
  <2>3. g.ts = f.ts => f.id <= g.id
    BY <1>3, <1>4
  <2> QED BY <2>1, <2>2, <2>3 DEF Newer
<1> QED BY <1>4, <1>5

\* No more than n facts have fewer than n newer ones.
LEMMA LatestAreFew ==
  ASSUME NEW S \in SUBSET Fact, IsFiniteSet(S), \A f, g \in S : f.id = g.id => f = g,
         NEW n \in Nat, NEW T \in SUBSET S, \A f \in T : Cardinality(Newer(f, S)) < n
  PROVE  Cardinality(T) <= n
<1>1. IsFiniteSet(T) /\ Cardinality(T) \in Nat
  BY FS_Subset, FS_CardinalityType
<1>2. CASE T = {}
  BY <1>2, FS_EmptySet
<1>3. CASE T # {}
  <2>1. PICK f \in T : T \ {f} \subseteq Newer(f, T)
    BY <1>3, FirstExists
  <2>2. Newer(f, T) \subseteq Newer(f, S) /\ Newer(f, S) \subseteq S
    BY DEF Newer
  <2>3. /\ IsFiniteSet(Newer(f, S)) /\ Cardinality(Newer(f, S)) \in Nat
        /\ Cardinality(T \ {f}) <= Cardinality(Newer(f, S))
    <3>1. IsFiniteSet(Newer(f, S)) /\ T \ {f} \subseteq Newer(f, S)
      BY <2>1, <2>2, FS_Subset
    <3> QED BY <3>1, FS_Subset, FS_CardinalityType
  <2>4. Cardinality(T \ {f}) = Cardinality(T) - 1
    BY <1>1, FS_RemoveElement
  <2>5. Cardinality(Newer(f, S)) < n
    OBVIOUS
  <2> QED BY <1>1, <2>3, <2>4, <2>5
<1> QED BY <1>2, <1>3

Exact(r) == Remembers(r) /\ Aged(r) /\ Bounded(r)

\* What a step leaves out of Due must be live no more.
LEMMA BoundedStays ==
  ASSUME JobsTypeOK, TypeOK, TxConsistent, [Next]_vars, NEW r \in Requests,
         job[r] \in Retaining, IsFiniteSet(job[r].inspected), Remembers(r), Bounded(r),
         job'[r].policy = job[r].policy, job'[r].inspected = job[r].inspected,
         job[r].at = "failed" => job'[r].at = "failed",
         job'[r].at # "failed" =>
           \A f \in Due(r) : f \in Due(r)' \/ f.retracted \/ f \notin facts'
  PROVE  Bounded(r)'
<1>1. SUFFICES ASSUME ByVersions(job[r].policy), job'[r].at # "failed",
                      NEW b \in Branches, NEW k \in Keys
               PROVE  Cardinality((StillLive(r, b, k) \ Due(r))') <= job[r].policy.max_versions
  BY DEF Bounded
<1> DEFINE before == StillLive(r, b, k) \ Due(r)
           after == (StillLive(r, b, k) \ Due(r))'
<1>2. after \subseteq before
  <2>1. SUFFICES ASSUME NEW f \in after
                 PROVE  f \in before
    OBVIOUS
  <2>2. /\ f \in job[r].inspected /\ f \in facts' /\ ~f.retracted
        /\ f.branch = b /\ f.key = k /\ f \notin Due(r)'
    BY DEF StillLive
  <2>3. f \in Fact
    BY <2>2 DEF Retaining
  <2>4. f \in facts
    BY <2>2, <2>3, ReadStays DEF Remembers
  <2>5. f \notin Due(r)
    BY <1>1, <2>2
  <2> QED BY <2>2, <2>4, <2>5 DEF StillLive
<1>3. Cardinality(before) <= job[r].policy.max_versions
  BY <1>1 DEF Bounded
<1>4. IsFiniteSet(before)
  <2>1. before \subseteq job[r].inspected
    BY DEF StillLive
  <2> QED BY <2>1, FS_Subset
<1>5. job[r].policy.max_versions \in Nat
  BY <1>1, RetentionPolicy DEF ByVersions
<1> HIDE DEF before, after
<1>6. Cardinality(after) <= Cardinality(before) /\ Cardinality(after) \in Nat
      /\ Cardinality(before) \in Nat
  BY <1>2, <1>4, FS_Subset, FS_CardinalityType
<1> QED BY <1>3, <1>5, <1>6 DEF after

\* A step that reads nothing new.
LEMMA ExactStays ==
  ASSUME JobsTypeOK, TypeOK, TxConsistent, [Next]_vars, NEW r \in Requests,
         job[r] \in Retaining, Careful(r), Exact(r),
         job'[r].ns = job[r].ns, job'[r].policy = job[r].policy,
         job'[r].inspected = job[r].inspected,
         job[r].at = "failed" => job'[r].at = "failed",
         Due(r)' \subseteq Due(r),
         job'[r].at # "failed" =>
           \A f \in Due(r) : f \in Due(r)' \/ f.retracted \/ f \notin facts',
         job'[r].at \in {"list_branches", "next", "retained"} => job'[r].todo = {},
         job'[r].at \in {"retract", "retracting"} =>
           /\ job[r].at \in {"retract", "retracting"}
           /\ job'[r].now = job[r].now /\ job'[r].cutoff = job[r].cutoff,
         job'[r].at = "retracting" => req'[r].op = "retracting" /\ req'[r].fact = job'[r].fact.id
  PROVE  Exact(r)'
<1>1. Bounded(r)'
  BY BoundedStays DEF Exact, Careful
<1>2. Remembers(r)'
  <2>1. Due(r)' \subseteq job'[r].inspected
    BY DEF Exact, Remembers
  <2>2. ASSUME NEW f \in job'[r].inspected
        PROVE  /\ f.ns = job'[r].ns /\ f.id < nextId'
               /\ \A g \in facts' : g.id = f.id => g.ts = f.ts
    <3>1. /\ f \in Fact /\ f.ns = job[r].ns /\ f.id < nextId
          /\ \A g \in facts : g.id = f.id => g.ts = f.ts
      BY DEF Retaining, Exact, Remembers
    <3> QED BY <3>1, ReadStays
  <2> QED BY <2>1, <2>2 DEF Remembers
<1>3. Aged(r)'
  BY DEF Exact, Aged, Readings, AgeCutoff
<1> QED BY <1>1, <1>2, <1>3 DEF Exact

\* Of what is read together, no more is spared than may be kept; of the same key nothing
\* has been read elsewhere that is still there.
LEMMA InspectIsExact ==
  ASSUME JobsTypeOK, TypeOK, Consistent, RetentionConsistent, [Next]_vars,
         NEW r \in Requests, Exact(r), Inspect(r)
  PROVE  Exact(r)'
<1>0. /\ job[r] \in Retaining /\ Careful(r) /\ job[r].at = "next"
      /\ facts' = facts /\ nextId' = nextId /\ facts \subseteq Fact /\ nextId \in Nat
  BY RetentionJob
     DEF Inspect, RetentionOf, RetentionConsistent, vars, store, TypeOK, StoreTypeOK
<1>1. PICK k \in job[r].keys, now \in Readings(job[r].policy) :
        LET hist == History(job[r].ns, job[r].branch, k)
            cutoff == AgeCutoff(now, job[r].policy.max_age)
        IN  Become(r, [job[r] EXCEPT
              !.at = "retract", !.now = now, !.cutoff = cutoff, !.keys = @ \ {k},
              !.todo = {f \in hist : Eligible(f, hist, job[r].policy, cutoff)
                                       /\ ~f.retracted},
              !.inspected = @ \cup hist])
  BY DEF Inspect
<1>2. PICK hist : hist = History(job[r].ns, job[r].branch, k)
  OBVIOUS
<1>3. PICK cutoff : cutoff = AgeCutoff(now, job[r].policy.max_age)
  OBVIOUS
<1>4. PICK todo : todo = {f \in hist : Eligible(f, hist, job[r].policy, cutoff) /\ ~f.retracted}
  OBVIOUS
<1>5. /\ job'[r].at = "retract" /\ job'[r].policy = job[r].policy /\ job'[r].ns = job[r].ns
      /\ job'[r].now = now /\ job'[r].cutoff = cutoff
      /\ job'[r].todo = todo /\ job'[r].inspected = job[r].inspected \cup hist
  BY <1>0, <1>1, <1>2, <1>3, <1>4 DEF Become, JobsTypeOK, Retaining
<1>6. hist = {f \in facts : f.ns = job[r].ns /\ f.branch = job[r].branch /\ f.key = k}
  BY <1>2 DEF History
<1>7. /\ \A f \in facts : f.id < nextId
      /\ \A f, g \in facts : f.id = g.id => f = g
  BY DEF Consistent, TxConsistent, IdsBehind, IdsUnique
<1>8. Due(r) = {} /\ Due(r)' = todo
  BY <1>0, <1>5 DEF Exact, Remembers, Due
<1>9. Remembers(r)'
  <2>1. ASSUME NEW f \in job'[r].inspected
        PROVE  /\ f.ns = job[r].ns /\ f.id < nextId
               /\ \A g \in facts : g.id = f.id => g.ts = f.ts
    BY <1>5, <1>6, <1>7 DEF Exact, Remembers
  <2>2. todo \subseteq job'[r].inspected
    BY <1>4, <1>5
  <2> QED BY <1>0, <1>5, <1>8, <2>1, <2>2 DEF Remembers
<1>10. Aged(r)'
  <2>1. \A f \in todo : cutoff # None => f.ts < cutoff
    BY <1>4 DEF Eligible
  <2>2. now \in Readings(job'[r].policy) /\ cutoff = AgeCutoff(now, job'[r].policy.max_age)
    BY <1>1, <1>3, <1>5
  <2> QED BY <1>5, <1>8, <2>1, <2>2 DEF Aged, Readings, AgeCutoff
<1>11. Bounded(r)'
  <2>1. SUFFICES ASSUME ByVersions(job[r].policy), NEW b \in Branches, NEW x \in Keys
                 PROVE  Cardinality((StillLive(r, b, x) \ Due(r))') <= job[r].policy.max_versions
    BY <1>5 DEF Bounded, ByVersions
  <2>2. PICK after : after = (StillLive(r, b, x) \ Due(r))'
    OBVIOUS
  <2>3. after = {f \in (job[r].inspected \cup hist) \cap facts :
                   f.branch = b /\ f.key = x /\ ~f.retracted /\ f \notin todo}
    BY <1>0, <1>5, <1>8, <2>2 DEF StillLive
  <2>4. job[r].policy.max_versions \in Nat
    BY <1>0, <2>1, RetentionPolicy DEF ByVersions
  <2>5. CASE b = job[r].branch /\ x = k
    <3>1. \A f \in job[r].inspected : f.ns = job[r].ns
      BY DEF Exact, Remembers
    <3>2. after \subseteq hist
      BY <1>6, <2>3, <2>5, <3>1
    <3>3. cutoff = None
      BY <1>3, <2>1 DEF ByVersions, AgeCutoff
    <3>4. hist \in SUBSET Fact /\ IsFiniteSet(hist) /\ \A f, g \in hist : f.id = g.id => f = g
      <4>1. hist \subseteq facts /\ IsFiniteSet(facts)
        BY <1>6 DEF RetentionConsistent
      <4> QED BY <1>0, <1>7, <4>1, FS_Subset
    <3>5. ASSUME NEW f \in after
          PROVE  Cardinality(Newer(f, hist)) < job[r].policy.max_versions
      <4>1. ~Eligible(f, hist, job[r].policy, cutoff)
        BY <1>4, <2>3, <3>2
      <4>2. ~(Cardinality(Newer(f, hist)) >= job[r].policy.max_versions)
        BY <2>1, <3>3, <4>1 DEF Eligible, ByVersions
      <4>3. Cardinality(Newer(f, hist)) \in Nat
        <5>1. Newer(f, hist) \subseteq hist
          BY DEF Newer
        <5> QED BY <3>4, <5>1, FS_Subset, FS_CardinalityType
      <4> QED BY <2>4, <4>2, <4>3
    <3>6. after \in SUBSET hist
      BY <3>2
    <3> QED BY <2>2, <2>4, <3>4, <3>5, <3>6, LatestAreFew
  <2>6. CASE ~(b = job[r].branch /\ x = k)
    <3>1. after = StillLive(r, b, x) \ Due(r)
      BY <1>4, <1>6, <1>8, <2>3, <2>6 DEF StillLive
    <3> QED BY <1>0, <2>1, <2>2, <3>1 DEF Exact, Bounded
  <2> QED BY <2>5, <2>6
<1> QED BY <1>9, <1>10, <1>11 DEF Exact

LEMMA RetentionStepIsExact ==
  ASSUME JobsTypeOK, TypeOK, Consistent, RetentionConsistent, [Next]_vars,
         NEW r \in Requests, Exact(r), RetentionStep(r)
  PROVE  Exact(r)'
<1>1. RetentionOf(r)
  BY DEF RetentionStep, RetentionOf, ListBranches, ListEntities, ListAttrs,
     Inspect, InspectPanics, RetractNext, Retracted, RetractFailed, Purge, Retained
<1>2. job[r] \in Retaining /\ Careful(r) /\ TxConsistent
  BY <1>1, RetentionJob DEF RetentionConsistent, Consistent
<1> DEFINE Kept == /\ job'[r].ns = job[r].ns /\ job'[r].policy = job[r].policy
                   /\ job'[r].inspected = job[r].inspected
<1>3. ASSUME \/ ListBranches(r) \/ ListEntities(r) \/ ListAttrs(r)
             \/ Purge(r) \/ Retained(r)
      PROVE  /\ Kept /\ job'[r].todo = job[r].todo /\ job[r].at \in {"list_branches", "next", "retract"}
             /\ job'[r].at \in {"next", "retained"} /\ job[r].todo = {}
  <2>1. CASE ListBranches(r)
    BY <1>2, <2>1 DEF ListBranches, Become, JobsTypeOK, Retaining, Exact, Remembers
  <2>2. CASE ListEntities(r)
    BY <1>2, <2>2 DEF ListEntities, Become, JobsTypeOK, Retaining, Exact, Remembers
  <2>3. CASE ListAttrs(r)
    BY <1>2, <2>3 DEF ListAttrs, Become, JobsTypeOK, Retaining, Exact, Remembers
  <2>4. CASE Purge(r)
    BY <1>2, <2>4 DEF Purge, Become, JobsTypeOK, Retaining
  <2>5. CASE Retained(r)
    BY <1>2, <2>5 DEF Retained, Become, JobsTypeOK, Retaining, Exact, Remembers
  <2> QED BY <1>3, <2>1, <2>2, <2>3, <2>4, <2>5
<1>4. CASE \/ ListBranches(r) \/ ListEntities(r) \/ ListAttrs(r)
           \/ Purge(r) \/ Retained(r)
  <2>1. Due(r) = {} /\ Due(r)' = {}
    BY <1>3, <1>4 DEF Due
  <2> QED BY <1>2, <1>3, <1>4, <2>1, ExactStays
<1>5. CASE RetractFailed(r) \/ InspectPanics(r)
  <2>1. Kept /\ job'[r].at = "failed" /\ job'[r].todo = job[r].todo
    BY <1>2, <1>5 DEF RetractFailed, InspectPanics, Become, JobsTypeOK, Retaining
  <2>2. Due(r)' \subseteq Due(r)
    BY <2>1 DEF Due
  <2> QED BY <1>2, <2>1, <2>2, ExactStays
<1>6. CASE RetractNext(r)
  <2>1. PICK f \in job[r].todo :
          /\ CallRetract(r, f.id, job[r].ns, job[r].branch)
          /\ Become(r, [job[r] EXCEPT !.at = "retracting", !.fact = f, !.todo = @ \ {f}])
    BY <1>6 DEF RetractNext
  <2>2. /\ Kept /\ job[r].at = "retract" /\ job'[r].at = "retracting" /\ job'[r].fact = f
        /\ job'[r].todo = job[r].todo \ {f}
        /\ job'[r].now = job[r].now /\ job'[r].cutoff = job[r].cutoff
    BY <1>2, <1>6, <2>1 DEF RetractNext, Become, JobsTypeOK, Retaining
  <2>3. Due(r)' = Due(r)
    BY <2>2 DEF Due
  <2>4. req'[r].op = "retracting" /\ req'[r].fact = f.id
    BY <2>1 DEF CallRetract, Begin, TypeOK, LedgerTypeOK
  <2> QED BY <1>2, <2>2, <2>3, <2>4, ExactStays
<1>7. CASE Retracted(r)
  <2>1. /\ Kept /\ job[r].at = "retracting" /\ job'[r].at = "retract"
        /\ job'[r].todo = job[r].todo
        /\ job'[r].now = job[r].now /\ job'[r].cutoff = job[r].cutoff
    BY <1>2, <1>7 DEF Retracted, Become, JobsTypeOK, Retaining
  <2>2. Due(r)' = job[r].todo /\ Due(r) = job[r].todo \cup {job[r].fact}
    BY <2>1 DEF Due
  <2>3. job[r].fact.retracted \/ job[r].fact \notin facts'
    <3>1. PICK f \in facts, g \in Fact :
            /\ f.id = req[r].fact /\ g.retracted /\ facts' = (facts \ {f}) \cup {g}
      BY <1>7, RetractCloses DEF Retracted
    <3>2. req[r].fact = job[r].fact.id
      BY <2>1 DEF Exact, Remembers
    <3>3. \A h \in facts : h.id = f.id => h = f
      BY DEF Consistent, TxConsistent, IdsUnique
    <3> QED BY <3>1, <3>2, <3>3
  <2> QED BY <1>2, <2>1, <2>2, <2>3, ExactStays
<1> QED BY <1>4, <1>5, <1>6, <1>7, InspectIsExact DEF RetentionStep

LEMMA JobsKeepExact ==
  ASSUME JobsTypeOK, TypeOK, Consistent, RetentionConsistent, RetentionExact,
         [MaintenanceNext]_allVars
  PROVE  RetentionExact'
<1>1. [Next]_vars /\ TxConsistent
  BY StepIsLedgers DEF Consistent
<1>2. SUFFICES ASSUME NEW q \in Requests, RetentionOf(q)'
               PROVE  Exact(q)'
  BY DEF RetentionExact, Exact
<1>3. ASSUME job'[q] = job[q]
      PROVE  Exact(q)'
  <2>1. RetentionOf(q) /\ Careful(q) /\ Exact(q) /\ job[q] \in Retaining
    BY <1>2, <1>3, RetentionJob DEF RetentionOf, RetentionConsistent, RetentionExact, Exact
  <2>2. Due(q)' = Due(q)
    BY <1>3 DEF Due
  <2>3. job[q].at = "retracting" => req'[q] = req[q]
    BY <1>3, JobKeepsRequest
  <2>4. /\ job[q].at \in {"list_branches", "next", "retained"} => job[q].todo = {}
        /\ job[q].at = "retracting" => req[q].op = "retracting" /\ req[q].fact = job[q].fact.id
    BY <2>1 DEF Exact, Remembers
  <2> QED BY <1>1, <1>3, <2>1, <2>2, <2>3, <2>4, ExactStays
<1>4. ASSUME NEW r \in Requests, RetentionStep(r)
      PROVE  Exact(q)'
  <2>1. CASE q = r
    <3>1. Exact(r)
      BY <1>4 DEF RetentionExact, Exact, RetentionStep, RetentionOf, ListBranches,
         ListEntities, ListAttrs, Inspect, InspectPanics, RetractNext, Retracted,
         RetractFailed, Purge, Retained
    <3> QED BY <1>1, <1>4, <2>1, <3>1, RetentionStepIsExact
  <2>2. CASE q # r
    BY <1>3, <1>4, <2>2, OtherJobsStay
  <2> QED BY <2>1, <2>2
<1>5. ASSUME NEW r \in Requests, BackupStep(r)
      PROVE  Exact(q)'
  BY <1>2, <1>3, <1>5, OtherJobsStay, BackupIsNoRetention
<1>6. ASSUME NEW r \in Requests, CallJob(r)
      PROVE  Exact(q)'
  <2>1. CASE q # r
    BY <1>3, <1>6, <2>1, OtherJobsStay
  <2>2. ASSUME q = r, NEW n, NEW policy \in Retentions, CallRetention(r, n, policy)
        PROVE  Exact(q)'
    <3>1. /\ job'[r].inspected = {} /\ job'[r].todo = {} /\ job'[r].policy = policy
          /\ job'[r].at \in {"list_branches", "next"}
      BY <2>2 DEF CallRetention, StartJob, JobsTypeOK
    <3>2. Due(r)' = {} /\ \A b, k : StillLive(r, b, k)' = {}
      BY <3>1 DEF Due, StillLive
    <3>3. policy.max_versions \in Nat \cup {None}
      BY RetentionsAssumption
    <3>4. Cardinality({} \ {}) = 0
      BY FS_EmptySet
    <3>5. Bounded(r)'
      BY <3>1, <3>2, <3>3, <3>4 DEF Bounded, ByVersions
    <3> QED BY <2>2, <3>1, <3>2, <3>5 DEF Exact, Remembers, Aged
  <2>3. ASSUME NEW n, CallDump(r, n) \/ CallRestore(r, n)
        PROVE  ~RetentionOf(r)'
    BY <2>3 DEF CallDump, CallRestore, StartJob, JobsTypeOK, RetentionOf
  <2> QED BY <1>2, <1>6, <2>1, <2>2, <2>3 DEF CallJob
<1>7. CASE UNCHANGED jobVars
  BY <1>3, <1>7 DEF jobVars
<1>8. CASE UNCHANGED allVars
  BY <1>7, <1>8 DEF allVars
<1> QED BY <1>4, <1>5, <1>6, <1>7, <1>8 DEF MaintenanceNext, Request

-----------------------------------------------------------------------------
(* What holds always *)

MaintenanceInv == TypeOK /\ Consistent /\ JobsTypeOK /\ RetentionConsistent /\ RetentionExact

LEMMA MaintenanceInductive == MaintenanceSpec => []MaintenanceInv
<1>1. MaintenanceInit => MaintenanceInv
  BY InitConsistent, InitJobs DEF MaintenanceInit, MaintenanceInv
<1>2. MaintenanceInv /\ [MaintenanceNext]_allVars => MaintenanceInv'
  BY StepIsLedgers, ConsistentStep, JobsKeepType, JobsKeepConsistent, JobsKeepExact
     DEF MaintenanceInv
<1> QED BY <1>1, <1>2, PTL DEF MaintenanceSpec

\* Jobs keep their types; in particular what a retention retracts on is always a
\* branch, and what it retracts a fact.
THEOREM JobsTypeCorrect == MaintenanceSpec => []JobsTypeOK
<1>1. MaintenanceInv => JobsTypeOK
  BY DEF MaintenanceInv
<1> QED BY <1>1, MaintenanceInductive, PTL

\* Retention, dump and restore do nothing to the store that requests of Ledger could
\* not do: every theorem about Ledger holds with jobs as well.
THEOREM JobsAreRequests == MaintenanceSpec => Spec
<1>1. MaintenanceInit => Init
  BY DEF MaintenanceInit
<1>2. MaintenanceInv /\ [MaintenanceNext]_allVars => [Next]_vars
  BY StepIsLedgers DEF MaintenanceInv
<1> QED BY <1>1, <1>2, MaintenanceInductive, PTL DEF MaintenanceSpec, Spec

\* However many requests write, retract and purge meanwhile, a retention by number
\* of versions retracts only what it has seen enough later versions of.
THEOREM RetentionSparesLatestAlways == MaintenanceSpec => []RetentionSparesLatest
<1>1. MaintenanceInv => RetentionSparesLatest
  BY DEF MaintenanceInv, RetentionConsistent, Careful, RetentionSparesLatest
<1> QED BY <1>1, MaintenanceInductive, PTL

\* However many requests write, retract and purge between its scans and its retractions,
\* a retention by number of versions leaves no more live facts of a key, of those
\* that it has read, than that number.
THEOREM RetentionBoundsAlways == MaintenanceSpec => []RetentionBounds
<1>1. ASSUME MaintenanceInv, NEW r \in Requests, job[r].at = "retained",
             ByVersions(job[r].policy), NEW b \in Branches, NEW k \in Keys
      PROVE  Cardinality(StillLive(r, b, k)) <= job[r].policy.max_versions
  <2>1. Remembers(r) /\ Bounded(r)
    BY <1>1 DEF MaintenanceInv, RetentionExact, RetentionOf
  <2>2. Due(r) = {}
    BY <1>1, <2>1 DEF Remembers, Due
  <2>3. StillLive(r, b, k) \ Due(r) = StillLive(r, b, k)
    BY <2>2
  <2> QED BY <1>1, <2>1, <2>3 DEF Bounded
<1>2. MaintenanceInv => RetentionBounds
  BY <1>1 DEF RetentionBounds
<1> QED BY <1>2, MaintenanceInductive, PTL

LEMMA RemainderIsLess ==
  ASSUME NEW x \in Nat, NEW w \in Nat \ {0}
  PROVE  x % w \in Nat /\ x % w <= x
<1> DEFINE q == x \div w
           m == x % w
<1>1. q \in Nat /\ m \in Nat /\ x = w * q + m
  OBVIOUS
<1> HIDE DEF q, m
<1>2. w * q \in Nat
  BY <1>1
<1>3. m \in Nat /\ m <= x
  BY <1>1, <1>2
<1> QED BY <1>3 DEF m

\* A cutoff that did not wrap around lies before the age.
LEMMA CutoffBeforeAge ==
  ASSUME NEW now \in Nat, NEW age \in Nat, age # None, now >= age
  PROVE  AgeCutoff(now, age) \in Nat /\ AgeCutoff(now, age) + age <= now
<1>1. now - age \in Nat /\ Word \in Nat \ {0}
  BY AgeAssumption
<1>2. (now - age) % Word \in Nat /\ (now - age) % Word <= now - age
  BY <1>1, RemainderIsLess
<1> QED BY <1>2 DEF AgeCutoff

\* Whatever is written while it runs, and although its cutoff is in another unit than the
\* timestamps, a retention by age neither retracts nor purges what is younger than
\* the age, unless the cutoff has wrapped around.
THEOREM AgeSparesAlways == MaintenanceSpec => AgeSpares
<1> DEFINE Spares ==
      \A r \in Requests :
        (Retracted(r) \/ Purge(r)) /\ job[r].policy.max_age # None
          /\ job[r].now >= job[r].policy.max_age
        => \A f \in facts \ facts' : Millis(f.ts) + job[r].policy.max_age < job[r].now
<1>1. ASSUME MaintenanceInv, NEW r \in Requests, Retracted(r) \/ Purge(r),
             job[r].policy.max_age # None, job[r].now >= job[r].policy.max_age,
             NEW f \in facts \ facts'
      PROVE  Millis(f.ts) + job[r].policy.max_age < job[r].now
  <2> DEFINE age == job[r].policy.max_age
             now == job[r].now
             cutoff == job[r].cutoff
  <2>1. RetentionOf(r) /\ job[r].at \in {"retract", "retracting"}
    BY <1>1 DEF Retracted, Purge, RetentionOf
  <2>2. job[r] \in Retaining /\ Remembers(r) /\ Aged(r)
    BY <1>1, <2>1, RetentionJob DEF MaintenanceInv, RetentionExact
  <2>3. job[r].policy \in Retentions
    BY <2>2 DEF Retaining
  <2>4. age \in Nat
    BY <1>1, <2>3, RetentionsAssumption
  <2>5. now \in Nat /\ cutoff = AgeCutoff(now, age) /\ cutoff \in Cutoffs
    BY <1>1, <2>1, <2>2, <2>3, AgeAssumption DEF Aged, Readings
  <2>6. cutoff # None
    BY <2>5, LedgerAssumption
  <2>7. f \in Fact /\ f.ts \in Nat
    BY <1>1 DEF MaintenanceInv, TypeOK, StoreTypeOK, Fact
  <2>8. f.ts < cutoff
    <3>1. CASE Purge(r)
      <4>1. facts' = facts \ Purgeable(cutoff, job[r].branch)
        BY <3>1 DEF Purge, Gc, StoreGc
      <4> QED BY <2>6, <4>1 DEF Purgeable
    <3>2. CASE Retracted(r)
      <4>1. PICK h \in facts, g \in Fact :
              h.id = req[r].fact /\ facts' = (facts \ {h}) \cup {g}
        BY <1>1, <3>2, RetractCloses DEF Retracted, MaintenanceInv
      <4>2. f = h
        BY <4>1
      <4>3. job[r].at = "retracting" /\ req[r].fact = job[r].fact.id
        BY <2>2, <3>2 DEF Retracted, Remembers
      <4>4. job[r].fact \in Due(r) /\ job[r].fact \in job[r].inspected
        BY <2>2, <4>3 DEF Due, Remembers
      <4>5. job[r].fact.ts < cutoff
        BY <2>1, <2>2, <2>6, <4>4 DEF Aged
      <4>6. f.ts = job[r].fact.ts
        BY <2>2, <4>1, <4>2, <4>3, <4>4 DEF Remembers
      <4> QED BY <4>5, <4>6
    <3> QED BY <1>1, <3>1, <3>2
  <2>9. cutoff \in Nat /\ cutoff + age <= now
    BY <1>1, <2>4, <2>5, CutoffBeforeAge
  <2>10. Millis(f.ts) \in Nat /\ Millis(f.ts) <= f.ts
    BY <2>7, MillisBelowTicks, TicksPerMsAssumption DEF Millis
  <2> HIDE DEF age, now, cutoff
  <2>11. Millis(f.ts) + age < now
    BY <2>4, <2>5, <2>7, <2>8, <2>9, <2>10
  <2> QED BY <2>11 DEF age, now
<1>2. MaintenanceInv => Spares
  BY <1>1
<1>3. MaintenanceInv /\ [MaintenanceNext]_allVars => [Spares]_allVars
  BY <1>2
<1> QED BY <1>3, MaintenanceInductive, PTL DEF MaintenanceSpec, AgeSpares

-----------------------------------------------------------------------------
(* Lines *)

LEMMA LinesOfAppend ==
  ASSUME NEW S, NEW s \in Seq(S), NEW e \in S
  PROVE  Lines(Append(s, e)) = Lines(s) \cup e
<1>1. /\ DOMAIN Append(s, e) = 1 .. Len(s) + 1 /\ DOMAIN s = 1 .. Len(s) /\ Len(s) \in Nat
      /\ \A i \in 1 .. Len(s) : Append(s, e)[i] = s[i]
      /\ Append(s, e)[Len(s) + 1] = e
  OBVIOUS
<1>2. \A i \in DOMAIN Append(s, e) : i \in DOMAIN s \/ i = Len(s) + 1
  BY <1>1
<1>3. \A i \in DOMAIN s : i \in DOMAIN Append(s, e)
  BY <1>1
<1>4. Len(s) + 1 \in DOMAIN Append(s, e)
  BY <1>1
<1> QED BY <1>1, <1>2, <1>3, <1>4 DEF Lines

LEMMA NoLines == Lines(<< >>) = {}
BY DEF Lines

\* Reading a line takes it, and no other, from those that are left.
LEMMA LinesOfRest ==
  ASSUME NEW S, NEW s \in Seq(SUBSET S), s # << >>, NEW f \in s[1]
  PROVE  /\ f \in Lines(s)
         /\ Lines(Rest(s, f)) \subseteq Lines(s)
         /\ \A g \in Lines(s) : g = f \/ g \in Lines(Rest(s, f))
<1>1. Len(s) \in Nat /\ DOMAIN s = 1 .. Len(s) /\ 1 \in DOMAIN s
  OBVIOUS
<1>2. f \in Lines(s)
  BY <1>1 DEF Lines
<1>3. CASE s[1] = {f}
  <2>1. /\ Rest(s, f) = Tail(s) /\ DOMAIN Tail(s) = 1 .. Len(s) - 1
        /\ \A i \in DOMAIN Tail(s) : Tail(s)[i] = s[i + 1]
    BY <1>1, <1>3 DEF Rest
  <2>2. \A i \in DOMAIN Tail(s) : i + 1 \in DOMAIN s
    BY <1>1, <2>1
  <2>3. Lines(Rest(s, f)) \subseteq Lines(s)
    BY <2>1, <2>2 DEF Lines
  <2>4. ASSUME NEW g \in Lines(s), g # f
        PROVE  g \in Lines(Rest(s, f))
    <3>1. PICK i \in DOMAIN s : g \in s[i]
      BY DEF Lines
    <3>2. i # 1
      BY <1>3, <2>4, <3>1
    <3>3. i - 1 \in DOMAIN Tail(s) /\ (i - 1) + 1 = i
      BY <1>1, <2>1, <3>1, <3>2
    <3>4. Tail(s)[i - 1] = s[i]
      BY <2>1, <3>3
    <3> QED BY <2>1, <3>1, <3>3, <3>4 DEF Lines
  <2> QED BY <1>2, <2>3, <2>4
<1>4. CASE s[1] # {f}
  <2>1. /\ DOMAIN Rest(s, f) = DOMAIN s /\ Rest(s, f)[1] = s[1] \ {f}
        /\ \A i \in DOMAIN s : i # 1 => Rest(s, f)[i] = s[i]
    BY <1>1, <1>4 DEF Rest
  <2>2. Lines(Rest(s, f)) \subseteq Lines(s)
    <3>1. \A i \in DOMAIN s : Rest(s, f)[i] \subseteq s[i]
      BY <2>1
    <3> QED BY <2>1, <3>1 DEF Lines
  <2>3. ASSUME NEW g \in Lines(s), g # f
        PROVE  g \in Lines(Rest(s, f))
    <3>1. PICK i \in DOMAIN s : g \in s[i]
      BY DEF Lines
    <3>2. g \in Rest(s, f)[i]
      BY <2>1, <2>3, <3>1
    <3> QED BY <2>1, <3>1, <3>2 DEF Lines
  <2> QED BY <1>2, <2>2, <2>3
<1> QED BY <1>3, <1>4

-----------------------------------------------------------------------------
(* What a step of one request leaves of the others *)

LEMMA NotMine ==
  ASSUME JobsTypeOK, TypeOK, NEW r \in Requests,
         Request(r) \/ CallJob(r) \/ RetentionStep(r) \/ BackupStep(r),
         NEW q \in Requests, q # r
  PROVE  job'[q] = job[q] /\ req'[q] = req[q]
<1>1. CASE Request(r)
  <2>1. job' = job /\ (Call(r) \/ Step(r))
    BY <1>1 DEF Request, jobVars
  <2> QED BY <2>1, OtherRequestsStay
<1>2. CASE CallJob(r)
  <2>1. req' = req
    BY <1>2 DEF CallJob, CallRetention, CallDump, CallRestore, StartJob, vars, ledger
  <2> QED BY <1>2, <2>1, OtherJobsStay
<1>3. CASE RetentionStep(r)
  <2>1. ASSUME RetractNext(r)
        PROVE  req'[q] = req[q]
    BY <2>1 DEF RetractNext, CallRetract, Begin, TypeOK, LedgerTypeOK
  <2>2. ASSUME Retracted(r) \/ RetractFailed(r)
        PROVE  Step(r)
    BY <2>2 DEF Retracted, RetractFailed, Step
  <2>3. ASSUME Purge(r)
        PROVE  req' = req
    BY <2>3 DEF Purge, Gc, OneStep
  <2>4. ASSUME \/ ListBranches(r) \/ ListEntities(r) \/ ListAttrs(r)
               \/ Inspect(r) \/ InspectPanics(r) \/ Retained(r)
        PROVE  req' = req
    BY <2>4 DEF ListBranches, ListEntities, ListAttrs, Inspect, InspectPanics, Retained,
       vars, ledger
  <2>5. req'[q] = req[q]
    BY <1>3, <2>1, <2>2, <2>3, <2>4, OtherRequestsStay DEF RetentionStep
  <2> QED BY <1>3, <2>5, OtherJobsStay
<1>4. CASE BackupStep(r)
  <2>1. Call(r) \/ Step(r) \/ req' = req
    BY <1>4 DEF BackupStep, DumpBranches, DumpBranch, Dumped, RestoreLine, SkipLine,
       RestoreTick, Recorded, Restored, Call, Step, vars, ledger
  <2>2. req'[q] = req[q]
    BY <2>1, OtherRequestsStay
  <2> QED BY <1>4, <2>2, OtherJobsStay
<1> QED BY <1>1, <1>2, <1>3, <1>4

\* Namespaces are only added.
LEMMA NamespacesStay ==
  ASSUME [Next]_vars
  PROVE  \A n \in DOMAIN namespaces : n \in DOMAIN namespaces' /\ namespaces'[n] = namespaces[n]
<1>1. ASSUME Administer
      PROVE  \/ namespaces' = namespaces
             \/ \E n, info : n \notin DOMAIN namespaces /\ namespaces' = With(namespaces, n, info)
  BY <1>1 DEF Administer, DeleteBranch, StoreDeleteBranch, CreateNamespace,
     StoreCreateNamespace, Gc, StoreGc, PutTag, StorePutTag, DeleteTag, StoreDeleteTag
<1>2. ASSUME NEW r \in Requests, Call(r) \/ Step(r)
      PROVE  namespaces' = namespaces
  <2>1. CASE Call(r)
    BY <2>1 DEF Call, CallRecord, CallBulk, CallRetract, CallFork, NewTx, store
  <2>2. CASE Step(r)
    BY <2>2 DEF Step, TickRecord, NewTx, RecordNew, StoreRecordNew, RecordDuplicate,
       StoreRecordDuplicate, Retract, StoreRetract, RetractNotFound, Fork,
       StoreCreateBranch, ForkRejected, store
  <2> QED BY <1>2, <2>1, <2>2
<1>3. CASE UNCHANGED vars
  BY <1>3 DEF vars, store
<1>4. CASE \E n, info : n \notin DOMAIN namespaces /\ namespaces' = With(namespaces, n, info)
  BY <1>4 DEF With
<1> QED BY <1>1, <1>2, <1>3, <1>4 DEF Next

\* A line that is accepted now has been accepted before.
LEMMA AcceptedBefore ==
  ASSUME [Next]_vars, NEW q \in Requests,
         job'[q].dump = job[q].dump, job'[q].ns = job[q].ns
  PROVE  Acceptable(job[q].ns, job[q].dump)' \subseteq Acceptable(job[q].ns, job[q].dump)
<1>1. SUFFICES ASSUME NEW f \in Acceptable(job[q].ns, job[q].dump)'
               PROVE  f \in Acceptable(job[q].ns, job[q].dump)
  OBVIOUS
<1>2. PICK spec : spec = RestoreSpec(job[q].ns, f)
  OBVIOUS
<1>3. f \in Lines(job[q].dump) /\ RangeOK(spec.valid) /\ SchemaOK(spec)'
  BY <1>1, <1>2 DEF Acceptable, RestoreSpec, RangeOK, SchemaOK, Lines
<1>4. SchemaOK(spec)
  BY <1>3, NamespacesStay DEF SchemaOK
<1> QED BY <1>2, <1>3, <1>4 DEF Acceptable

\* Only a record with a key changes the keys, and it answers.
LEMMA KeysStep ==
  ASSUME TypeOK, TxConsistent, [Next]_vars
  PROVE  /\ replies \subseteq replies'
         /\ \/ idem_cache' = idem_cache
            \/ \E r \in Requests : RecordNew(r) /\ Params(r).idem # None
<1>1. ASSUME NEW r \in Requests, RecordNew(r), Params(r).idem = None
      PROVE  idem_cache' = idem_cache /\ replies \subseteq replies'
  BY <1>1 DEF RecordNew, StoreRecordNew, Reply
<1>2. ASSUME NEW r \in Requests, RecordNew(r)
      PROVE  replies \subseteq replies'
  BY <1>2 DEF RecordNew, Reply
<1>3. ASSUME NEW r \in Requests, RecordDuplicate(r)
      PROVE  idem_cache' = idem_cache /\ replies \subseteq replies'
  BY <1>3 DEF RecordDuplicate, Reply, StoreRecordDuplicate, store
<1>4. ASSUME NEW r \in Requests, Call(r) \/ (Step(r) /\ ~RecordNew(r) /\ ~RecordDuplicate(r))
      PROVE  idem_cache' = idem_cache /\ replies' = replies
  <2>1. CASE Call(r)
    BY <2>1 DEF Call, CallRecord, CallBulk, CallRetract, CallFork, Begin, NewTx, store
  <2>2. CASE Step(r) /\ ~RecordNew(r) /\ ~RecordDuplicate(r)
    BY <2>2 DEF Step, TickRecord, NewTx, Retract, StoreRetract, RetractNotFound, Fork,
       StoreCreateBranch, ForkRejected, store
  <2> QED BY <1>4, <2>1, <2>2
<1>5. CASE Administer
  BY <1>5 DEF Administer, DeleteBranch, StoreDeleteBranch, CreateNamespace,
     StoreCreateNamespace, Gc, StoreGc, PutTag, StorePutTag, DeleteTag, StoreDeleteTag, OneStep
<1>6. CASE UNCHANGED vars
  BY <1>6 DEF vars, store, ledger
<1> QED BY <1>1, <1>2, <1>3, <1>4, <1>5, <1>6 DEF Next

-----------------------------------------------------------------------------
(* What is held *)

LEMMA DumpJob ==
  ASSUME JobsTypeOK, NEW r \in Requests, DumpOf(r)
  PROVE  job[r] \in Dumping
BY DEF JobsTypeOK, DumpOf, NoJob, Retaining, Restoring

LEMMA RestoreJob ==
  ASSUME JobsTypeOK, NEW r \in Requests, RestoreOf(r)
  PROVE  job[r] \in Restoring
BY DEF JobsTypeOK, RestoreOf, NoJob, Retaining, Dumping

LEMMA RetentionStays ==
  ASSUME JobsTypeOK, NEW r \in Requests, RetentionStep(r)
  PROVE  RetentionOf(r) /\ RetentionOf(r)'
<1>1. job[r] \in Retaining
  BY RetentionJob DEF RetentionStep, RetentionOf, ListBranches, ListEntities, ListAttrs,
     Inspect, InspectPanics, RetractNext, Retracted, RetractFailed, Purge, Retained
<1>2. CASE ListBranches(r) \/ ListEntities(r) \/ ListAttrs(r)
  <2>1. CASE ListBranches(r)
    BY <1>1, <2>1 DEF ListBranches, Become, JobsTypeOK, Retaining, RetentionOf
  <2>2. CASE ListEntities(r)
    BY <1>1, <2>2 DEF ListEntities, Become, JobsTypeOK, Retaining, RetentionOf
  <2>3. CASE ListAttrs(r)
    BY <1>1, <2>3 DEF ListAttrs, Become, JobsTypeOK, Retaining, RetentionOf
  <2> QED BY <1>2, <2>1, <2>2, <2>3
<1>3. CASE Inspect(r)
  BY <1>1, <1>3 DEF Inspect, Become, JobsTypeOK, Retaining, RetentionOf
<1>4. CASE RetractNext(r)
  <2>1. /\ job[r].at = "retract"
        /\ \E f \in job[r].todo :
             job' = [job EXCEPT ![r] = [job[r] EXCEPT !.at = "retracting", !.fact = f,
                                                     !.todo = @ \ {f}]]
    BY <1>4 DEF RetractNext, Become
  <2>2. job'[r].at = "retracting"
    BY <1>1, <2>1 DEF JobsTypeOK, Retaining
  <2> QED BY <2>1, <2>2 DEF RetentionOf
<1>5. CASE InspectPanics(r) \/ Retracted(r) \/ RetractFailed(r) \/ Purge(r) \/ Retained(r)
  <2>1. CASE InspectPanics(r)
    BY <1>1, <2>1 DEF InspectPanics, Become, JobsTypeOK, Retaining, RetentionOf
  <2>2. CASE Retracted(r)
    BY <1>1, <2>2 DEF Retracted, Become, JobsTypeOK, Retaining, RetentionOf
  <2>3. CASE RetractFailed(r)
    BY <1>1, <2>3 DEF RetractFailed, Become, JobsTypeOK, Retaining, RetentionOf
  <2>4. CASE Purge(r)
    BY <1>1, <2>4 DEF Purge, Become, JobsTypeOK, Retaining, RetentionOf
  <2>5. CASE Retained(r)
    BY <1>1, <2>5 DEF Retained, Become, JobsTypeOK, Retaining, RetentionOf
  <2> QED BY <1>5, <2>1, <2>2, <2>3, <2>4, <2>5
<1> QED BY <1>2, <1>3, <1>4, <1>5 DEF RetentionStep

\* A dump reads stored facts, and ...
LEMMA DumpAfter ==
  ASSUME JobsTypeOK, TypeOK, NEW r \in Requests, BackupStep(r), DumpOf(r)'
  PROVE  DumpOf(r) /\ Lines(job'[r].lines) \subseteq Lines(job[r].lines) \cup facts
<1>1. CASE DumpBranches(r)
  <2>1. DumpOf(r)
    BY <1>1 DEF DumpBranches, DumpOf
  <2>2. job'[r].lines = job[r].lines
    BY <1>1, <2>1, DumpJob DEF DumpBranches, Become, JobsTypeOK, Dumping
  <2> QED BY <2>1, <2>2
<1>2. CASE DumpBranch(r)
  <2>1. DumpOf(r) /\ job[r] \in Dumping
    BY <1>2, DumpJob DEF DumpBranch, DumpOf
  <2>2. PICK b \in job[r].branches :
          LET found == {f \in facts : f.ns = job[r].ns /\ f.branch = b}
          IN  Become(r, [job[r] EXCEPT !.branches = @ \ {b},
                           !.lines = IF found = {} THEN @ ELSE Append(@, found)])
    BY <1>2 DEF DumpBranch
  <2>3. PICK found : found = {f \in facts : f.ns = job[r].ns /\ f.branch = b}
    OBVIOUS
  <2>4. job'[r].lines = IF found = {} THEN job[r].lines ELSE Append(job[r].lines, found)
    BY <2>1, <2>2, <2>3 DEF Become, JobsTypeOK, Dumping
  <2>5. found \subseteq facts /\ found \in SUBSET Fact /\ job[r].lines \in Seq(SUBSET Fact)
    BY <2>1, <2>3 DEF Dumping, TypeOK, StoreTypeOK
  <2>6. Lines(Append(job[r].lines, found)) = Lines(job[r].lines) \cup found
    BY <2>5, LinesOfAppend
  <2> QED BY <2>1, <2>4, <2>5, <2>6
<1>3. CASE Dumped(r)
  BY <1>3 DEF Dumped, JobsTypeOK, NoJob, DumpOf
<1>4. CASE \/ RestoreLine(r) \/ SkipLine(r) \/ RestoreTick(r)
           \/ Recorded(r) \/ Restored(r)
  <2>1. RestoreOf(r) /\ job[r] \in Restoring
    BY <1>4, RestoreJob DEF RestoreLine, SkipLine, RestoreTick, Recorded, Restored, RestoreOf
  <2>2. job'[r].at \in {"restore", "recording", "restored"}
    <3>1. CASE RestoreLine(r)
      BY <2>1, <3>1 DEF RestoreLine, Become, JobsTypeOK, Restoring
    <3>2. CASE SkipLine(r)
      <4>1. PICK f : Become(r, [job[r] EXCEPT !.lines = Rest(@, f)])
        BY <3>2 DEF SkipLine
      <4> QED BY <2>1, <4>1 DEF Become, JobsTypeOK, Restoring, RestoreOf
    <3>3. CASE RestoreTick(r)
      BY <3>3 DEF RestoreTick, jobVars
    <3>4. CASE Recorded(r) \/ Restored(r)
      BY <2>1, <3>4 DEF Recorded, Restored, Become, JobsTypeOK, Restoring
    <3> QED BY <1>4, <3>1, <3>2, <3>3, <3>4
  <2> QED BY <2>2 DEF DumpOf
<1> QED BY <1>1, <1>2, <1>3, <1>4 DEF BackupStep

\* ... a restore keeps the dump that it has been given.
LEMMA RestoreAfter ==
  ASSUME JobsTypeOK, NEW r \in Requests, BackupStep(r), RestoreOf(r)'
  PROVE  RestoreOf(r) /\ job'[r].dump = job[r].dump /\ job'[r].ns = job[r].ns
<1>1. CASE DumpBranches(r) \/ DumpBranch(r) \/ Dumped(r)
  <2>1. CASE Dumped(r)
    BY <2>1 DEF Dumped, JobsTypeOK, NoJob, RestoreOf
  <2>2. CASE DumpBranches(r) \/ DumpBranch(r)
    <3>1. DumpOf(r) /\ job[r] \in Dumping
      BY <2>2, DumpJob DEF DumpBranches, DumpBranch, DumpOf
    <3>2. CASE DumpBranches(r)
      BY <3>1, <3>2 DEF DumpBranches, Become, JobsTypeOK, Dumping, RestoreOf
    <3>3. CASE DumpBranch(r)
      BY <3>1, <3>3 DEF DumpBranch, Become, JobsTypeOK, Dumping, RestoreOf
    <3> QED BY <2>2, <3>2, <3>3
  <2> QED BY <1>1, <2>1, <2>2
<1>2. CASE \/ RestoreLine(r) \/ SkipLine(r) \/ RestoreTick(r)
           \/ Recorded(r) \/ Restored(r)
  <2>1. RestoreOf(r) /\ job[r] \in Restoring
    BY <1>2, RestoreJob DEF RestoreLine, SkipLine, RestoreTick, Recorded, Restored, RestoreOf
  <2>2. CASE RestoreLine(r)
    BY <2>1, <2>2 DEF RestoreLine, Become, JobsTypeOK, Restoring
  <2>3. CASE SkipLine(r)
    <3>1. PICK f : Become(r, [job[r] EXCEPT !.lines = Rest(@, f)])
      BY <2>3 DEF SkipLine
    <3> QED BY <2>1, <3>1 DEF Become, JobsTypeOK, Restoring
  <2>4. CASE RestoreTick(r)
    BY <2>1, <2>4 DEF RestoreTick, jobVars
  <2>5. CASE Recorded(r) \/ Restored(r)
    BY <2>1, <2>5 DEF Recorded, Restored, Become, JobsTypeOK, Restoring
  <2> QED BY <1>2, <2>1, <2>2, <2>3, <2>4, <2>5
<1> QED BY <1>1, <1>2 DEF BackupStep

LEMMA CallJobAfter ==
  ASSUME JobsTypeOK, NEW r \in Requests, CallJob(r)
  PROVE  /\ RetentionOf(r)' \/ DumpOf(r)' \/ RestoreOf(r)'
         /\ DumpOf(r)' => job'[r].lines = << >>
         /\ RestoreOf(r)' => /\ job'[r].at = "restore"
                             /\ job'[r].dump = backup /\ job'[r].lines = backup
<1>1. ASSUME NEW n, NEW policy, CallRetention(r, n, policy)
      PROVE  RetentionOf(r)' /\ ~DumpOf(r)' /\ ~RestoreOf(r)'
  BY <1>1 DEF CallRetention, StartJob, JobsTypeOK, DumpOf, RestoreOf, RetentionOf
<1>2. ASSUME NEW n, CallDump(r, n)
      PROVE  DumpOf(r)' /\ ~RestoreOf(r)' /\ job'[r].lines = << >>
  BY <1>2 DEF CallDump, StartJob, JobsTypeOK, DumpOf, RestoreOf
<1>3. ASSUME NEW n, CallRestore(r, n)
      PROVE  /\ RestoreOf(r)' /\ ~DumpOf(r)' /\ job'[r].at = "restore"
             /\ job'[r].dump = backup /\ job'[r].lines = backup
  BY <1>3 DEF CallRestore, StartJob, JobsTypeOK, DumpOf, RestoreOf
<1> QED BY <1>1, <1>2, <1>3 DEF CallJob

\* Each kind of step either leaves the job of a request alone or is its own.
LEMMA JobStep ==
  ASSUME JobsTypeOK, [MaintenanceNext]_allVars, NEW q \in Requests
  PROVE  job'[q] = job[q] \/ CallJob(q) \/ RetentionStep(q) \/ BackupStep(q)
<1>1. CASE UNCHANGED jobVars
  BY <1>1 DEF jobVars
<1>2. CASE UNCHANGED allVars
  BY <1>2 DEF allVars, jobVars
<1>3. ASSUME NEW r \in Requests, CallJob(r) \/ RetentionStep(r) \/ BackupStep(r), q # r
      PROVE  job'[q] = job[q]
  BY <1>3, OtherJobsStay
<1> QED BY <1>1, <1>2, <1>3 DEF MaintenanceNext, Request

\* Nothing is held after a step that was not held before it, or has just been stored.
LEMMA HeldStep ==
  ASSUME JobsTypeOK, TypeOK, [MaintenanceNext]_allVars
  PROVE  Held' \subseteq Held \cup facts'
<1>1. Lines(backup') \subseteq Held
  <2>1. ASSUME NEW r \in Requests, Dumped(r)
        PROVE  Lines(backup') \subseteq Held
    BY <2>1 DEF Dumped, Held, DumpOf
  <2>2. (\E r \in Requests : Dumped(r)) \/ backup' = backup
    <3>1. ASSUME NEW r \in Requests, BackupStep(r), ~Dumped(r)
          PROVE  backup' = backup
      BY <3>1 DEF BackupStep, DumpBranches, DumpBranch, RestoreLine, SkipLine, RestoreTick,
         Recorded, Restored, Become, jobVars
    <3>2. ASSUME NEW r \in Requests, RetentionStep(r) \/ CallJob(r) \/ Request(r)
          PROVE  backup' = backup
      BY <3>2 DEF RetentionStep, ListBranches, ListEntities, ListAttrs, Inspect,
         InspectPanics, RetractNext, Retracted, RetractFailed, Purge, Retained, Become,
         CallJob, CallRetention, CallDump, CallRestore, StartJob, Request, jobVars
    <3> QED BY <3>1, <3>2 DEF MaintenanceNext, allVars, jobVars
  <2>3. CASE backup' = backup
    BY <2>3 DEF Held
  <2> QED BY <2>1, <2>2, <2>3
<1>2. ASSUME NEW q \in Requests, DumpOf(q)'
      PROVE  Lines(job'[q].lines) \subseteq Held
  <2>1. CASE job'[q] = job[q]
    BY <1>2, <2>1 DEF DumpOf, Held
  <2>2. CASE CallJob(q)
    BY <1>2, <2>2, CallJobAfter, NoLines
  <2>3. CASE RetentionStep(q)
    BY <1>2, <2>3, RetentionStays DEF RetentionOf, DumpOf
  <2>4. CASE BackupStep(q)
    BY <1>2, <2>4, DumpAfter DEF Held
  <2> QED BY <2>1, <2>2, <2>3, <2>4, JobStep
<1>3. ASSUME NEW q \in Requests, RestoreOf(q)'
      PROVE  Lines(job'[q].dump) \subseteq Held
  <2>1. CASE job'[q] = job[q]
    BY <1>3, <2>1 DEF RestoreOf, Held
  <2>2. CASE CallJob(q)
    BY <1>3, <2>2, CallJobAfter DEF Held
  <2>3. CASE RetentionStep(q)
    BY <1>3, <2>3, RetentionStays DEF RetentionOf, RestoreOf
  <2>4. CASE BackupStep(q)
    BY <1>3, <2>4, RestoreAfter DEF Held
  <2> QED BY <2>1, <2>2, <2>3, <2>4, JobStep
<1> QED
  BY <1>1, <1>2, <1>3 DEF Held

LEMMA HeldAreFacts ==
  ASSUME JobsTypeOK, TypeOK
  PROVE  Held \subseteq Fact
<1>1. ASSUME NEW dump \in Seq(SUBSET Fact)
      PROVE  Lines(dump) \subseteq Fact
  BY <1>1 DEF Lines
<1>2. Lines(backup) \subseteq Fact /\ facts \subseteq Fact
  BY <1>1 DEF JobsTypeOK, TypeOK, StoreTypeOK
<1>3. ASSUME NEW q \in Requests, DumpOf(q)
      PROVE  Lines(job[q].lines) \subseteq Fact
  BY <1>1, <1>3, DumpJob DEF Dumping
<1>4. ASSUME NEW q \in Requests, RestoreOf(q)
      PROVE  Lines(job[q].dump) \subseteq Fact
  BY <1>1, <1>4, RestoreJob DEF Restoring
<1> QED BY <1>2, <1>3, <1>4 DEF Held

\* What is held after a step stands for something held before it, or is new.
LEMMA HeldAfter ==
  ASSUME JobsTypeOK, TypeOK, TxConsistent, [Next]_vars, [MaintenanceNext]_allVars,
         NEW g \in Held'
  PROVE  \/ \E f \in Held : f.id = g.id /\ Alike(f, g)
         \/ g \in facts' /\ g.id = nextId /\ nextId' = nextId + 1
<1>1. CASE g \in Held
  BY <1>1 DEF Alike
<1>2. CASE g \in facts'
  <2>1. facts \subseteq Held
    BY DEF Held
  <2> QED BY <1>2, <2>1, FactsAfter DEF Alike
<1> QED BY <1>1, <1>2, HeldStep

LEMMA HeldStaysAlike ==
  ASSUME JobsTypeOK, TypeOK, TxConsistent, TxConsistent', [Next]_vars,
         [MaintenanceNext]_allVars, HeldAlike
  PROVE  HeldAlike'
<1>1. /\ nextId \in Nat /\ nextId' \in Nat /\ nextId' >= nextId
      /\ \A f \in Held : f.id \in Nat /\ f.id < nextId
  BY IdsGrow, HeldAreFacts DEF HeldAlike, Fact
<1>2. ASSUME NEW f \in Held'
      PROVE  f.id < nextId'
  BY <1>1, <1>2, HeldAfter
<1>3. ASSUME NEW f \in Held', NEW g \in Held', f.id = g.id
      PROVE  Alike(f, g)
  <2>1. CASE f \in facts' /\ g \in facts'
    BY <1>3, <2>1 DEF TxConsistent, IdsUnique, Alike
  <2>2. CASE (\E h \in Held : h.id = f.id /\ Alike(h, f)) /\ (\E h \in Held : h.id = g.id /\ Alike(h, g))
    <3>1. PICK h \in Held : h.id = f.id /\ Alike(h, f)
      BY <2>2
    <3>2. PICK i \in Held : i.id = g.id /\ Alike(i, g)
      BY <2>2
    <3>3. Alike(h, i)
      BY <1>3, <3>1, <3>2 DEF HeldAlike
    <3> QED BY <3>1, <3>2, <3>3 DEF Alike
  <2>3. /\ (\E h \in Held : h.id = f.id /\ Alike(h, f)) \/ (f \in facts' /\ f.id = nextId)
        /\ (\E h \in Held : h.id = g.id /\ Alike(h, g)) \/ (g \in facts' /\ g.id = nextId)
    BY HeldAfter
  <2>4. \A h \in Held : h.id # nextId
    BY <1>1
  <2> QED BY <1>3, <2>1, <2>2, <2>3, <2>4
<1>4. (\A f \in Held : f.id < nextId)'
  BY <1>2
<1>5. (\A f, g \in Held : f.id = g.id => Alike(f, g))'
  BY <1>3 DEF Alike
<1> QED BY <1>4, <1>5 DEF HeldAlike

-----------------------------------------------------------------------------
(* What a key stands for *)

\* Whoever records under a number is a restore, at one of its lines.
LEMMA NumbersAreLines ==
  ASSUME JobsTypeOK, TypeOK, TxConsistent, RetentionExact, RestoreConsistent, ClientKeys,
         NEW r \in Requests, req[r].op = "storing", Params(r).idem \in Nat
  PROVE  /\ RestoreOf(r) /\ job[r].at = "recording" /\ Len(req[r].specs) = 1
         /\ \E f \in Lines(job[r].dump) :
              /\ req[r].specs[1] = RestoreSpec(job[r].ns, f) /\ Params(r).idem = f.id
              /\ Params(r).key = f.key /\ Params(r).value = f.value
              /\ Params(r).branch = f.branch
<1>1. /\ req[r].specs \in Seq(RecordSpec) /\ req[r].specs # << >>
      /\ Head(req[r].specs) = req[r].specs[1] /\ 1 \in DOMAIN req[r].specs
  <2>1. req[r].specs \in Seq(RecordSpec) /\ req[r].specs # << >>
    BY ParamsType DEF TxConsistent
  <2> QED BY <2>1
<1>2. /\ Params(r).idem = req[r].specs[1].idem /\ Params(r).key = req[r].specs[1].key
      /\ Params(r).value = req[r].specs[1].value
      /\ Params(r).branch = req[r].specs[1].branch
  BY <1>1 DEF Params
<1>3. ~Free(r)
  BY <1>1, <1>2 DEF ClientKeys
<1>4. job[r].at # "retracting"
  BY DEF RetentionExact, RetentionOf, Remembers
<1>5. job[r].at = "recording"
  BY <1>3, <1>4 DEF RestoreConsistent, Waiting, Idle
<1>6. RestoreOf(r) /\ RestoreOnCourse(r)
  BY <1>5 DEF RestoreOf, RestoreConsistent
<1>7. PICK f \in Lines(job[r].dump) : LineOf(r) = RestoreSpec(job[r].ns, f)
  BY <1>5, <1>6 DEF RestoreOnCourse
<1>8. LineOf(r) = req[r].specs[1] /\ Len(req[r].specs) = 1
  BY <1>5, <1>6 DEF LineOf, RestoreOnCourse
<1>9. LET spec == RestoreSpec(job[r].ns, f)
      IN  spec.idem = f.id /\ spec.key = f.key /\ spec.value = f.value /\ spec.branch = f.branch
  BY DEF RestoreSpec
<1>10. /\ req[r].specs[1] = RestoreSpec(job[r].ns, f) /\ Params(r).idem = f.id
       /\ Params(r).key = f.key /\ Params(r).value = f.value
       /\ Params(r).branch = f.branch
  BY <1>2, <1>7, <1>8, <1>9
<1> QED BY <1>5, <1>6, <1>8, <1>10

LEMMA CopiesStayAlike ==
  ASSUME JobsTypeOK, TypeOK, TxConsistent, RetentionExact, RestoreConsistent, ClientKeys,
         [Next]_vars, [MaintenanceNext]_allVars
  PROVE  CopiesAlike'
<1>1. /\ nextId \in Nat /\ nextId' \in Nat /\ nextId' >= nextId
      /\ \A f \in Held : f.id \in Nat /\ f.id < nextId
      /\ \A k \in DOMAIN idem_cache : idem_cache[k].fact \in Nat /\ idem_cache[k].fact < nextId
      /\ \A k \in DOMAIN idem_cache : k \in Nat => k < nextId
      /\ \A k \in DOMAIN idem_cache : \E a \in replies : a.key = k
      /\ facts \subseteq Held
  <2>1. Held \subseteq Fact /\ facts \subseteq Held
    BY HeldAreFacts DEF Held
  <2>2. \A k \in DOMAIN idem_cache : idem_cache[k].fact \in Nat
    BY DEF TypeOK, StoreTypeOK
  <2> QED BY <2>1, <2>2, IdsGrow DEF RestoreConsistent, HeldAlike, CopiesAlike, Fact
<1>2. \A f \in Held' : f.id \in Nat
  BY <1>1, HeldAfter
\* A key that was there still stands for the same.
<1>3. ASSUME NEW f \in Held', NEW g \in facts', f.id \in DOMAIN idem_cache,
             g.id = idem_cache[f.id].fact
      PROVE  Alike(g, f)
  <2>1. f.id \in Nat /\ f.id < nextId /\ g.id < nextId
    BY <1>1, <1>3, HeldAfter
  <2>2. PICK h \in Held : h.id = f.id /\ Alike(h, f)
    BY <1>1, <1>3, <2>1, HeldAfter
  <2>3. PICK i \in facts : i.id = g.id /\ Alike(i, g)
    BY <1>1, <2>1, FactsAfter DEF Alike
  <2>4. Alike(i, h)
    BY <1>3, <2>2, <2>3 DEF RestoreConsistent, CopiesAlike
  <2> QED BY <2>2, <2>3, <2>4 DEF Alike
<1>4. CASE idem_cache' = idem_cache
  <2>1. ASSUME NEW k \in DOMAIN idem_cache'
        PROVE  /\ idem_cache'[k].fact < nextId' /\ (k \in Nat => k < nextId')
               /\ \E a \in replies' : a.key = k
    BY <1>1, <1>4, <2>1, KeysStep
  <2>2. ASSUME NEW f \in Held', NEW g \in facts',
               f.id \in DOMAIN idem_cache' /\ g.id = idem_cache'[f.id].fact
        PROVE  Alike(g, f)
    BY <1>3, <1>4, <2>2
  <2> QED BY <2>1, <2>2 DEF CopiesAlike, Alike
<1>5. ASSUME NEW r \in Requests, RecordNew(r), Params(r).idem # None
      PROVE  CopiesAlike'
  <2>1. PICK key : key = Params(r).idem
    OBVIOUS
  <2>2. /\ idem_cache' = With(idem_cache, key, [fact |-> nextId, tx |-> Params(r).tx])
        /\ nextId' = nextId + 1 /\ req[r].op = "storing"
    BY <1>5, <2>1 DEF RecordNew, StoreRecordNew
  <2>3. /\ DOMAIN idem_cache' = DOMAIN idem_cache \cup {key}
        /\ idem_cache'[key].fact = nextId
        /\ \A k \in DOMAIN idem_cache : k # key => idem_cache'[k] = idem_cache[k]
    BY <2>2 DEF With
  <2>4. \E a \in replies' : a.key = key
    <3>1. replies' = replies \cup {[key |-> k, fact |-> nextId, tx |-> req[r].tx] :
                                       k \in {key} \ {None}}
      BY <1>5, <2>1 DEF RecordNew, Reply
    <3>2. key \in {key} \ {None}
      BY <1>5, <2>1
    <3>3. [key |-> key, fact |-> nextId, tx |-> req[r].tx] \in replies'
      BY <3>1, <3>2
    <3> QED BY <3>3
  <2>5. key \in Nat => \E f \in Held : /\ f.id = key /\ Params(r).key = f.key
                                       /\ Params(r).value = f.value
                                       /\ Params(r).branch = f.branch
    <3>1. ASSUME RestoreOf(r)
          PROVE  Lines(job[r].dump) \subseteq Held
      BY <3>1 DEF Held
    <3> QED BY <2>1, <2>2, <3>1, NumbersAreLines
  <2>6. ASSUME NEW k \in DOMAIN idem_cache'
        PROVE  /\ idem_cache'[k].fact < nextId' /\ (k \in Nat => k < nextId')
               /\ \E a \in replies' : a.key = k
    <3>1. CASE k = key
      BY <1>1, <2>2, <2>3, <2>4, <2>5, <3>1
    <3>2. CASE k # key
      <4>1. k \in DOMAIN idem_cache /\ idem_cache'[k] = idem_cache[k]
        BY <2>3, <2>6, <3>2
      <4>2. \E a \in replies' : a.key = k
        BY <1>1, <4>1, KeysStep
      <4> QED BY <1>1, <2>2, <4>1, <4>2
    <3> QED BY <3>1, <3>2
  <2>7. ASSUME NEW f \in Held', NEW g \in facts',
               f.id \in DOMAIN idem_cache' /\ g.id = idem_cache'[f.id].fact
        PROVE  Alike(g, f)
    <3>1. CASE f.id # key
      BY <1>3, <2>3, <2>7, <3>1
    <3>2. CASE f.id = key
      <4>1. PICK h \in Held : /\ h.id = key /\ Params(r).key = h.key
                              /\ Params(r).value = h.value /\ Params(r).branch = h.branch
        BY <1>2, <2>5, <3>2
      <4>2. f.id < nextId /\ g.id = nextId
        BY <1>1, <2>3, <2>7, <3>2, <4>1
      <4>3. PICK i \in Held : i.id = f.id /\ Alike(i, f)
        BY <1>1, <4>2, HeldAfter
      <4>4. Alike(i, h)
        BY <3>2, <4>1, <4>3 DEF RestoreConsistent, HeldAlike
      <4>5. Alike(g, h)
        <5>1. PICK nf \in Fact : nf = NewFact(Params(r), nextId) /\ facts' = facts \cup {nf}
          BY <1>5, RecordAdds
        <5>2. g = nf
          BY <1>1, <4>2, <5>1
        <5> QED BY <4>1, <5>1, <5>2 DEF NewFact, Alike
      <4> QED BY <4>3, <4>4, <4>5 DEF Alike
    <3> QED BY <3>1, <3>2
  <2> QED BY <2>6, <2>7 DEF CopiesAlike, Alike
<1> QED BY <1>4, <1>5, KeysStep

LEMMA KeysStay ==
  ASSUME TypeOK, TxConsistent, [Next]_vars
  PROVE  DOMAIN idem_cache \subseteq DOMAIN idem_cache'
<1>1. ASSUME NEW r \in Requests, RecordNew(r), Params(r).idem # None
      PROVE  DOMAIN idem_cache \subseteq DOMAIN idem_cache'
  BY <1>1 DEF RecordNew, StoreRecordNew, With
<1> QED BY <1>1, KeysStep

-----------------------------------------------------------------------------
(* The course of a restore *)

\* What a step does to a request of which neither the job nor the place in it changes.
LEMMA CourseStays ==
  ASSUME TypeOK, TxConsistent, [Next]_vars, NEW q \in Requests, RestoreOnCourse(q),
         job'[q].dump = job[q].dump, job'[q].ns = job[q].ns,
         job'[q].lines = job[q].lines, job'[q].at = job[q].at,
         job[q].at = "recording" =>
           /\ req'[q].op = "checked" \/ (req'[q].op = "storing" /\ Len(req'[q].specs) = 1)
           /\ LineOf(q)' = LineOf(q)
  PROVE  RestoreOnCourse(q)'
<1>1. DOMAIN idem_cache \subseteq DOMAIN idem_cache'
  BY KeysStay
<1>2. ASSUME NEW f \in Acceptable(job[q].ns, job[q].dump)'
      PROVE  \/ f \in Lines(job'[q].lines) \/ f.id \in DOMAIN idem_cache'
             \/ job'[q].at = "recording" /\ LineOf(q)'.idem = f.id
  <2>1. f \in Acceptable(job[q].ns, job[q].dump)
    BY <1>2, AcceptedBefore
  <2> QED BY <1>1, <2>1 DEF RestoreOnCourse
<1>3. \/ job'[q].at # "recording"
      \/ \E f \in Lines(job'[q].dump) : LineOf(q)' = RestoreSpec(job'[q].ns, f)
  BY DEF RestoreOnCourse
<1>4. /\ Lines(job'[q].lines) \subseteq Lines(job'[q].dump)
      /\ job'[q].at = "restored" => job'[q].lines = << >>
  BY DEF RestoreOnCourse
<1> QED BY <1>2, <1>3, <1>4 DEF RestoreOnCourse

\* A restore has just been started.
LEMMA CallJobOnCourse ==
  ASSUME JobsTypeOK, NEW q \in Requests, CallJob(q)
  PROVE  Waiting(q)' /\ (RestoreOf(q)' => RestoreOnCourse(q)')
<1>1. req[q] = Idle /\ req' = req
  BY DEF CallJob, CallRetention, CallDump, CallRestore, StartJob, vars, ledger
<1>2. ASSUME RestoreOf(q)'
      PROVE  RestoreOnCourse(q)'
  <2>1. job'[q].at = "restore" /\ job'[q].dump = backup /\ job'[q].lines = backup
    BY <1>2, CallJobAfter
  <2>2. \A f \in Acceptable(job[q].ns, job[q].dump)' : f \in Lines(job'[q].lines)
    BY <2>1 DEF Acceptable
  <2> QED BY <2>1, <2>2 DEF RestoreOnCourse
<1> QED BY <1>1, <1>2 DEF Waiting

\* A retention waits for no request but its retraction.
LEMMA RetentionWaits ==
  ASSUME JobsTypeOK, TypeOK, NEW q \in Requests, Waiting(q), RetentionStep(q)
  PROVE  Waiting(q)'
<1>1. req \in [Requests -> Stages] /\ job[q] \in Retaining
  BY RetentionStays, RetentionJob DEF TypeOK, LedgerTypeOK
<1>2. CASE \/ ListBranches(q) \/ ListEntities(q) \/ ListAttrs(q)
           \/ Inspect(q) \/ InspectPanics(q) \/ Purge(q) \/ Retained(q)
  <2>1. job[q].at \in {"list_branches", "next", "retract"}
    BY <1>2 DEF ListBranches, ListEntities, ListAttrs, Inspect, InspectPanics, Purge, Retained
  <2>2. req' = req
    BY <1>2 DEF ListBranches, ListEntities, ListAttrs, Inspect, InspectPanics, Purge,
       Retained, vars, ledger, Gc, OneStep
  <2> QED BY <2>1, <2>2 DEF Waiting, Free
<1>3. CASE RetractNext(q)
  <2>1. job'[q].at = "retracting"
    BY <1>1, <1>3 DEF RetractNext, Become, JobsTypeOK, Retaining
  <2> QED BY <2>1 DEF Waiting
<1>4. CASE Retracted(q) \/ RetractFailed(q)
  <2>1. req'[q] = Idle
    BY <1>1, <1>4 DEF Retracted, RetractFailed, Retract, RetractNotFound, End
  <2> QED BY <2>1 DEF Waiting
<1> QED BY <1>2, <1>3, <1>4 DEF RetentionStep

LEMMA DumpWaits ==
  ASSUME JobsTypeOK, NEW q \in Requests, Waiting(q),
         DumpBranches(q) \/ DumpBranch(q) \/ Dumped(q)
  PROVE  Waiting(q)'
<1>1. job[q].at \in {"dump_branches", "dump"} /\ req' = req
  BY DEF DumpBranches, DumpBranch, Dumped, vars, ledger
<1> QED BY <1>1 DEF Waiting, Free

LEMMA LineReadOnCourse ==
  ASSUME JobsTypeOK, TypeOK, TxConsistent, [Next]_vars, NEW q \in Requests,
         RestoreOnCourse(q), RestoreLine(q)
  PROVE  Waiting(q)' /\ RestoreOnCourse(q)'
<1>1. job[q] \in Restoring /\ job[q].at = "restore" /\ job[q].lines # << >>
  BY RestoreJob DEF RestoreLine, RestoreOf
<1>2. PICK f \in Newest(job[q].lines[1]) :
        /\ CallRecord(q, RestoreSpec(job[q].ns, f))
        /\ Become(q, [job[q] EXCEPT !.at = "recording", !.lines = Rest(@, f)])
  BY DEF RestoreLine
<1>3. /\ job'[q].at = "recording" /\ job'[q].dump = job[q].dump /\ job'[q].ns = job[q].ns
      /\ job'[q].lines = Rest(job[q].lines, f)
  BY <1>1, <1>2 DEF Become, JobsTypeOK, Restoring
<1>4. /\ f \in Lines(job[q].lines)
      /\ Lines(job'[q].lines) \subseteq Lines(job[q].lines)
      /\ \A g \in Lines(job[q].lines) : g = f \/ g \in Lines(job'[q].lines)
  <2>1. f \in job[q].lines[1] /\ job[q].lines \in Seq(SUBSET Fact)
    BY <1>1, <1>2 DEF Newest, Restoring
  <2> QED BY <1>1, <1>3, <2>1, LinesOfRest
<1>5. req'[q] = [op |-> "checked", spec |-> RestoreSpec(job[q].ns, f)]
  BY <1>2 DEF CallRecord, Begin, TypeOK, LedgerTypeOK
<1>6. LineOf(q)' = RestoreSpec(job[q].ns, f) /\ LineOf(q)'.idem = f.id
  BY <1>5 DEF LineOf, RestoreSpec
<1>7. ASSUME NEW g \in Acceptable(job[q].ns, job[q].dump)'
      PROVE  \/ g \in Lines(job'[q].lines) \/ g.id \in DOMAIN idem_cache'
             \/ job'[q].at = "recording" /\ LineOf(q)'.idem = g.id
  <2>1. g \in Acceptable(job[q].ns, job[q].dump)
    BY <1>3, <1>7, AcceptedBefore
  <2>2. g \in Lines(job[q].lines) \/ g.id \in DOMAIN idem_cache
    BY <1>1, <2>1 DEF RestoreOnCourse
  <2> QED BY <1>3, <1>4, <1>6, <2>2, KeysStay
<1>8. /\ Lines(job'[q].lines) \subseteq Lines(job'[q].dump)
      /\ \E g \in Lines(job'[q].dump) : LineOf(q)' = RestoreSpec(job'[q].ns, g)
      /\ req'[q].op = "checked"
  BY <1>3, <1>4, <1>5, <1>6 DEF RestoreOnCourse
<1> QED BY <1>3, <1>7, <1>8 DEF RestoreOnCourse, Waiting

LEMMA LineSkippedOnCourse ==
  ASSUME JobsTypeOK, TypeOK, TxConsistent, [Next]_vars, NEW q \in Requests,
         RestoreOnCourse(q), Waiting(q), SkipLine(q)
  PROVE  Waiting(q)' /\ RestoreOnCourse(q)'
<1>1. job[q] \in Restoring /\ job[q].at = "restore" /\ job[q].lines # << >> /\ req' = req
  BY RestoreJob DEF SkipLine, RestoreOf, vars, ledger
<1>2. PICK f \in Newest(job[q].lines[1]) :
        /\ ~(RangeOK(RestoreSpec(job[q].ns, f).valid) /\ SchemaOK(RestoreSpec(job[q].ns, f)))
        /\ Become(q, [job[q] EXCEPT !.lines = Rest(@, f)])
  BY DEF SkipLine
<1>3. /\ job'[q].at = "restore" /\ job'[q].dump = job[q].dump /\ job'[q].ns = job[q].ns
      /\ job'[q].lines = Rest(job[q].lines, f)
  BY <1>1, <1>2 DEF Become, JobsTypeOK, Restoring
<1>4. /\ Lines(job'[q].lines) \subseteq Lines(job[q].lines)
      /\ \A g \in Lines(job[q].lines) : g = f \/ g \in Lines(job'[q].lines)
  <2>1. f \in job[q].lines[1] /\ job[q].lines \in Seq(SUBSET Fact)
    BY <1>1, <1>2 DEF Newest, Restoring
  <2> QED BY <1>1, <1>3, <2>1, LinesOfRest
<1>5. f \notin Acceptable(job[q].ns, job[q].dump)
  BY <1>2 DEF Acceptable
<1>6. ASSUME NEW g \in Acceptable(job[q].ns, job[q].dump)'
      PROVE  g \in Lines(job'[q].lines) \/ g.id \in DOMAIN idem_cache'
  <2>1. g \in Acceptable(job[q].ns, job[q].dump)
    BY <1>3, <1>6, AcceptedBefore
  <2>2. g \in Lines(job[q].lines) \/ g.id \in DOMAIN idem_cache
    BY <1>1, <2>1 DEF RestoreOnCourse
  <2> QED BY <1>4, <1>5, <2>1, <2>2, KeysStay
<1>7. Lines(job'[q].lines) \subseteq Lines(job'[q].dump)
  BY <1>3, <1>4 DEF RestoreOnCourse
<1>8. Waiting(q)'
  BY <1>1, <1>3 DEF Waiting, Free
<1> QED BY <1>3, <1>6, <1>7, <1>8 DEF RestoreOnCourse

LEMMA TickOnCourse ==
  ASSUME JobsTypeOK, TypeOK, TxConsistent, [Next]_vars, NEW q \in Requests,
         RestoreOnCourse(q), RestoreTick(q)
  PROVE  Waiting(q)' /\ RestoreOnCourse(q)'
<1>1. job' = job /\ job[q].at = "recording" /\ req[q].op = "checked"
  BY DEF RestoreTick, jobVars, TickRecord
<1>2. req'[q].op = "storing" /\ req'[q].specs = <<req[q].spec>>
  BY DEF RestoreTick, TickRecord, TypeOK, LedgerTypeOK
<1>3. Len(req'[q].specs) = 1 /\ LineOf(q)' = LineOf(q)
  BY <1>1, <1>2 DEF LineOf
<1>4. RestoreOnCourse(q)'
  BY <1>1, <1>2, <1>3, CourseStays
<1> QED BY <1>1, <1>4 DEF Waiting

LEMMA LineRecordedOnCourse ==
  ASSUME JobsTypeOK, TypeOK, TxConsistent, [Next]_vars, NEW q \in Requests,
         RestoreOnCourse(q), Recorded(q)
  PROVE  Waiting(q)' /\ RestoreOnCourse(q)'
<1>1. job[q] \in Restoring /\ job[q].at = "recording" /\ req[q].op = "storing"
  BY RestoreJob DEF Recorded, RestoreOf, RecordNew, RecordDuplicate
<1>2. /\ job'[q].at = "restore" /\ job'[q].dump = job[q].dump /\ job'[q].ns = job[q].ns
      /\ job'[q].lines = job[q].lines
  BY <1>1 DEF Recorded, Become, JobsTypeOK, Restoring
<1>3. req'[q] = Idle
  <2>1. Len(req[q].specs) = 1
    BY <1>1 DEF RestoreOnCourse
  <2> QED BY <2>1 DEF Recorded, RecordNew, RecordDuplicate, Stored, TypeOK, LedgerTypeOK
<1>4. LineOf(q).idem = Params(q).idem
  <2>1. Head(req[q].specs) = req[q].specs[1]
    BY <1>1, ParamsType DEF TxConsistent
  <2> QED BY <1>1, <2>1 DEF LineOf, Params
<1>5. Params(q).idem # None => Params(q).idem \in DOMAIN idem_cache'
  <2>1. ASSUME RecordNew(q), Params(q).idem # None
        PROVE  Params(q).idem \in DOMAIN idem_cache'
    BY <2>1 DEF RecordNew, StoreRecordNew, With
  <2>2. ASSUME RecordDuplicate(q)
        PROVE  Params(q).idem \in DOMAIN idem_cache'
    BY <2>2 DEF RecordDuplicate, StoreRecordDuplicate, IsDuplicate, store
  <2> QED BY <2>1, <2>2 DEF Recorded
<1>6. ASSUME NEW g \in Acceptable(job[q].ns, job[q].dump)'
      PROVE  g \in Lines(job'[q].lines) \/ g.id \in DOMAIN idem_cache'
  <2>1. g \in Acceptable(job[q].ns, job[q].dump)
    BY <1>2, <1>6, AcceptedBefore
  <2>2. g.id # None
    <3>1. g \in Held
      BY <1>1, <2>1 DEF Acceptable, Held, RestoreOf
    <3> QED BY <3>1, HeldAreFacts, NoneAssumption DEF Fact
  <2>3. \/ g \in Lines(job[q].lines) \/ g.id \in DOMAIN idem_cache
        \/ Params(q).idem = g.id
    BY <1>4, <2>1 DEF RestoreOnCourse
  <2> QED BY <1>2, <1>5, <2>2, <2>3, KeysStay
<1>7. Lines(job'[q].lines) \subseteq Lines(job'[q].dump)
  BY <1>2 DEF RestoreOnCourse
<1> QED BY <1>2, <1>3, <1>6, <1>7 DEF RestoreOnCourse, Waiting

LEMMA EndOnCourse ==
  ASSUME JobsTypeOK, TypeOK, TxConsistent, [Next]_vars, NEW q \in Requests,
         RestoreOnCourse(q), Restored(q)
  PROVE  Waiting(q)' /\ RestoreOnCourse(q)'
<1>1. job[q] \in Restoring /\ job[q].at = "restore" /\ job[q].lines = << >>
  BY RestoreJob DEF Restored, RestoreOf
<1>2. /\ job'[q].at = "restored" /\ job'[q].dump = job[q].dump /\ job'[q].ns = job[q].ns
      /\ job'[q].lines = << >>
  BY <1>1 DEF Restored, Become, JobsTypeOK, Restoring
<1>3. ASSUME NEW g \in Acceptable(job[q].ns, job[q].dump)'
      PROVE  g.id \in DOMAIN idem_cache'
  <2>1. g \in Acceptable(job[q].ns, job[q].dump)
    BY <1>2, <1>3, AcceptedBefore
  <2>2. g.id \in DOMAIN idem_cache
    BY <1>1, <2>1, NoLines DEF RestoreOnCourse
  <2> QED BY <2>2, KeysStay
<1> QED BY <1>2, <1>3, NoLines DEF RestoreOnCourse, Waiting, Free

LEMMA OthersOnCourse ==
  ASSUME TypeOK, TxConsistent, [Next]_vars, NEW q \in Requests,
         Waiting(q) /\ (RestoreOf(q) => RestoreOnCourse(q)),
         job'[q] = job[q], req'[q] = req[q]
  PROVE  Waiting(q)' /\ (RestoreOf(q)' => RestoreOnCourse(q)')
<1>1. Waiting(q)'
  BY DEF Waiting, Free
<1>2. ASSUME RestoreOf(q)'
      PROVE  RestoreOnCourse(q)'
  <2>1. RestoreOnCourse(q)
    BY <1>2 DEF RestoreOf
  <2>2. LineOf(q)' = LineOf(q)
    BY DEF LineOf
  <2>3. job[q].at = "recording" =>
          req[q].op = "checked" \/ (req[q].op = "storing" /\ Len(req[q].specs) = 1)
    BY <2>1 DEF RestoreOnCourse
  <2> QED BY <2>1, <2>2, <2>3, CourseStays
<1> QED BY <1>1, <1>2

LEMMA RestoreStep ==
  ASSUME MaintenanceInv, RestoreConsistent, ClientKeys, [MaintenanceNext]_allVars
  PROVE  RestoreConsistent'
<1>1. /\ TypeOK /\ TxConsistent /\ JobsTypeOK /\ RetentionConsistent /\ RetentionExact
      /\ [Next]_vars
  BY StepIsLedgers DEF MaintenanceInv, Consistent
<1>2. TxConsistent'
  BY <1>1, ConsistentStep DEF MaintenanceInv, Consistent
<1>3. HeldAlike'
  BY <1>1, <1>2, HeldStaysAlike DEF RestoreConsistent
<1>4. CopiesAlike'
  BY <1>1, CopiesStayAlike
<1>5. ASSUME NEW q \in Requests
      PROVE  Waiting(q)' /\ (RestoreOf(q)' => RestoreOnCourse(q)')
  <2>1. Waiting(q) /\ (RestoreOf(q) => RestoreOnCourse(q))
    BY DEF RestoreConsistent
  <2>2. CASE UNCHANGED allVars \/ (Administer /\ UNCHANGED jobVars)
    <3>1. job' = job /\ req' = req
      BY <2>2, AdministerKeepsRequests DEF allVars, jobVars, vars, ledger
    <3> QED BY <1>1, <2>1, <3>1, OthersOnCourse
  <2>3. ASSUME NEW r \in Requests, q # r,
               Request(r) \/ CallJob(r) \/ RetentionStep(r) \/ BackupStep(r)
        PROVE  Waiting(q)' /\ (RestoreOf(q)' => RestoreOnCourse(q)')
    <3>1. job'[q] = job[q] /\ req'[q] = req[q]
      BY <1>1, <2>3, NotMine
    <3> QED BY <1>1, <2>1, <3>1, OthersOnCourse
  <2>4. CASE Request(q)
    <3>1. job' = job /\ Free(q)
      BY <2>4 DEF Request, jobVars
    <3>2. RestoreOf(q)' => RestoreOf(q) /\ job[q].at = "restored"
      BY <3>1 DEF RestoreOf, Free
    <3>3. RestoreOf(q)' => RestoreOnCourse(q)'
      BY <1>1, <2>1, <3>1, <3>2, CourseStays
    <3> QED BY <3>1, <3>3 DEF Waiting, Free
  <2>5. CASE CallJob(q)
    BY <1>1, <2>5, CallJobOnCourse
  <2>6. CASE RetentionStep(q)
    <3>1. ~RestoreOf(q)'
      BY <1>1, <2>6, RetentionStays DEF RetentionOf, RestoreOf
    <3> QED BY <1>1, <2>1, <2>6, <3>1, RetentionWaits
  <2>7. CASE DumpBranches(q) \/ DumpBranch(q) \/ Dumped(q)
    <3>1. ~RestoreOf(q)
      BY <2>7 DEF RestoreOf, DumpBranches, DumpBranch, Dumped
    <3>2. ~RestoreOf(q)'
      BY <1>1, <2>7, <3>1, RestoreAfter DEF BackupStep
    <3> QED BY <1>1, <2>1, <2>7, <3>2, DumpWaits
  <2>8. CASE RestoreLine(q) \/ SkipLine(q) \/ RestoreTick(q) \/ Recorded(q) \/ Restored(q)
    <3>1. RestoreOf(q)
      BY <2>8 DEF RestoreOf, RestoreLine, SkipLine, RestoreTick, Recorded, Restored
    <3> QED
      BY <1>1, <2>1, <2>8, <3>1, LineReadOnCourse, LineSkippedOnCourse, TickOnCourse,
         LineRecordedOnCourse, EndOnCourse
  <2> QED
    BY <2>2, <2>3, <2>4, <2>5, <2>6, <2>7, <2>8 DEF MaintenanceNext, BackupStep
<1> QED BY <1>3, <1>4, <1>5 DEF RestoreConsistent

-----------------------------------------------------------------------------
(* What holds always *)

LEMMA InitRestore ==
  ASSUME MaintenanceInit
  PROVE  RestoreConsistent /\ RepliesCached
<1>1. /\ facts = {} /\ DOMAIN idem_cache = {} /\ replies = {} /\ backup = << >>
      /\ \A r \in Requests : job[r] = NoJob
  BY DEF MaintenanceInit, Init, StoreInit
<1>2. \A r \in Requests : Free(r) /\ ~DumpOf(r) /\ ~RestoreOf(r)
  BY <1>1 DEF Free, DumpOf, RestoreOf, NoJob
<1>3. Held = {}
  BY <1>1, <1>2, NoLines DEF Held
<1> QED
  BY <1>1, <1>2, <1>3 DEF RestoreConsistent, HeldAlike, CopiesAlike, Waiting, RepliesCached

\* When a restore is done each accepted line of its dump has exactly one copy, of the
\* same key, value and branch, however often and by however many at once the dump was
\* restored and whatever else was written or purged.  The hypothesis is about clients: the
\* store takes a key of theirs that reads like a fact id for that of a restored line.
THEOREM RestoredOnceAlways == MaintenanceSpec /\ []ClientKeys => []RestoredOnce
<1>1. MaintenanceInit => RestoreConsistent /\ RepliesCached
  BY InitRestore
<1>2. MaintenanceInv /\ ClientKeys /\ RestoreConsistent /\ RepliesCached
        /\ [MaintenanceNext]_allVars
      => RestoreConsistent' /\ RepliesCached'
  <2>1. MaintenanceInv /\ [MaintenanceNext]_allVars /\ RepliesCached => RepliesCached'
    BY StepIsLedgers, RepliesCachedStep DEF MaintenanceInv
  <2> QED BY <2>1, RestoreStep
<1>3. ASSUME MaintenanceInv, RestoreConsistent, RepliesCached,
             NEW r \in Requests, job[r].at = "restored",
             NEW f \in Acceptable(job[r].ns, job[r].dump)
      PROVE  /\ f.id \in DOMAIN idem_cache
             /\ {a.fact : a \in {x \in replies : x.key = f.id}} = {idem_cache[f.id].fact}
             /\ \A g \in facts : g.id = idem_cache[f.id].fact => Alike(g, f)
  <2>1. f.id \in DOMAIN idem_cache
    BY <1>3, NoLines DEF RestoreConsistent, RestoreOf, RestoreOnCourse
  <2>2. {a.fact : a \in {x \in replies : x.key = f.id}} = {idem_cache[f.id].fact}
    <3>1. ASSUME NEW a \in replies, a.key = f.id
          PROVE  a.fact = idem_cache[f.id].fact
      <4>1. idem_cache[f.id] = [fact |-> a.fact, tx |-> a.tx]
        BY <1>3, <3>1 DEF RepliesCached
      <4> QED BY <4>1
    <3>2. \E a \in replies : a.key = f.id
      BY <1>3, <2>1 DEF RestoreConsistent, CopiesAlike
    <3> QED BY <3>1, <3>2
  <2>3. f \in Held
    BY <1>3 DEF Acceptable, Held, RestoreOf
  <2> QED BY <1>3, <2>1, <2>2, <2>3 DEF RestoreConsistent, CopiesAlike
<1>4. MaintenanceInv /\ RestoreConsistent /\ RepliesCached => RestoredOnce
  BY <1>3 DEF RestoredOnce
<1> QED BY <1>1, <1>2, <1>4, MaintenanceInductive, PTL DEF MaintenanceSpec
=============================================================================
