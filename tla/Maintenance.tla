----------------------------- MODULE Maintenance -----------------------------
(***************************************************************************)
(* The long jobs of polo among the requests of Ledger: apply_retention of  *)
(* src/pkg/polo-core/src/db.rs, and the dump and restore handlers of       *)
(* src/internal/polo-server/src/api/backup.rs.                             *)
(*                                                                         *)
(* A job is a request that calls the Db many times: it lists, scans,       *)
(* retracts and records fact by fact, purges, and keeps what it has read   *)
(* while other requests run in between.  job holds its locals.             *)
(***************************************************************************)
EXTENDS Ledger

CONSTANTS
  EntityOf,     \* The entity of each key.
  Retentions,   \* The retention policies a job is started with.
  Walls,        \* What the wall clock may read, in milliseconds.
  Word,         \* 2^64 in the code: the values of a u64.
  MaxJobs       \* Bound: jobs started.

ASSUME EntityAssumption == DOMAIN EntityOf = Keys

ASSUME RetentionsAssumption ==
  Retentions \subseteq [max_versions : Nat \cup {None}, max_age : Nat \cup {None},
                        only_retracted : BOOLEAN, branches : SUBSET Branches]

\* The cutoff of a retention: milliseconds, in a u64.
AgeCutoff(now, age) == IF age = None THEN None ELSE (now - age) % Word

\* Some(age) and Some(id) are never None.
ASSUME NoneAssumption == None \notin Nat

\* A retention hands its cutoff to gc, which takes any u64.
ASSUME AgeAssumption ==
  /\ Walls \subseteq Nat /\ Word \in Nat \ {0}
  /\ \A now \in Walls, policy \in Retentions :
       policy.max_age # None => AgeCutoff(now, policy.max_age) \in Cutoffs

VARIABLES
  job,          \* What job each request runs.
  jobs,         \* Counts jobs, for the bound.
  backup        \* The last dump: for each branch the facts, newest first.

jobVars == <<job, jobs, backup>>
allVars == <<vars, jobVars>>

NoJob == [at |-> "none"]

\* The locals of each job; at is the place it has reached.
Retaining ==
  [at : {"list_branches", "next", "retract", "retracting", "retained", "failed"},
   ns : Namespaces, policy : Retentions, branches : SUBSET Branches,
   entities : SUBSET {EntityOf[k] : k \in Keys}, keys : SUBSET Keys,
   branch : Branches, now : Walls \cup {None}, cutoff : Cutoffs \cup {None},
   todo : SUBSET Fact, fact : Fact \cup {None},
   inspected : SUBSET Fact, retracted : SUBSET Fact]
Dumping == [at : {"dump_branches", "dump"}, ns : Namespaces,
            branches : SUBSET Branches, lines : Seq(SUBSET Fact)]
Restoring == [at : {"restore", "recording", "restored"}, ns : Namespaces,
              dump : Seq(SUBSET Fact), lines : Seq(SUBSET Fact)]

JobsTypeOK ==
  /\ job \in [Requests -> {NoJob} \cup Retaining \cup Dumping \cup Restoring]
  /\ jobs \in Nat
  /\ backup \in Seq(SUBSET Fact)

MaintenanceInit ==
  /\ Init
  /\ job = [r \in Requests |-> NoJob]
  /\ jobs = 0
  /\ backup = << >>

\* The request runs no job, or none any more.
Free(r) == job[r].at \in {"none", "retained", "failed", "restored"}

StartJob(r, j) ==
  /\ Free(r) /\ req[r] = Idle /\ jobs < MaxJobs
  /\ jobs' = jobs + 1
  /\ job' = [job EXCEPT ![r] = j]
  /\ UNCHANGED <<vars, backup>>

\* The job goes on as j.
Become(r, j) ==
  /\ job' = [job EXCEPT ![r] = j]
  /\ UNCHANGED <<jobs, backup>>

\* Mutant of BranchesOf: the keys of the map, with the namespace.
BranchesOfMap(n) == {k \in DOMAIN branches : k[1] = n}

\* list_branches
BranchesOf(n) == {b \in Branches : <<n, b>> \in DOMAIN branches}

\* A scan that includes retracted facts.
History(n, b, k) == {f \in facts : f.ns = n /\ f.branch = b /\ f.key = k}

-----------------------------------------------------------------------------
(* Db::apply_retention                                                     *)

\* branch, cutoff and fact are read only once they have been set.  now is a history: the
\* wall clock that the cutoff was computed from, where there is an age.
CallRetention(r, n, policy) ==
  StartJob(r, [at |-> IF policy.branches = {} THEN "list_branches" ELSE "next",
               ns |-> n, policy |-> policy, branches |-> policy.branches,
               entities |-> {}, keys |-> {}, branch |-> Main, now |-> None, cutoff |-> None,
               todo |-> {}, fact |-> None, inspected |-> {}, retracted |-> {}])

ListBranches(r) ==
  /\ job[r].at = "list_branches"
  /\ Become(r, [job[r] EXCEPT !.at = "next", !.branches = BranchesOf(job[r].ns)])
  /\ UNCHANGED vars

\* list_entities of the next branch: those that have facts not retracted.
ListEntities(r) ==
  /\ job[r].at = "next" /\ job[r].keys = {} /\ job[r].entities = {}
  /\ \E b \in job[r].branches :
       Become(r, [job[r] EXCEPT
         !.branch = b, !.branches = @ \ {b},
         !.entities = {EntityOf[k] : k \in {x \in Keys : Live(job[r].ns, b, x) # {}}}])
  /\ UNCHANGED vars

\* list_attrs of the next entity, which may find nothing left of it.
ListAttrs(r) ==
  /\ job[r].at = "next" /\ job[r].keys = {}
  /\ \E e \in job[r].entities :
       Become(r, [job[r] EXCEPT
         !.entities = @ \ {e},
         !.keys = {k \in Keys : EntityOf[k] = e /\ Live(job[r].ns, job[r].branch, k) # {}}])
  /\ UNCHANGED vars

\* Mutant of Newer: the history is gone through newest first.
NewerReversed(f, hist) == {g \in hist : g.ts < f.ts \/ (g.ts = f.ts /\ g.id < f.id)}

\* What comes after a fact once the history is sorted oldest first; the sort is
\* stable, and leaves equal timestamps in insertion order.
Newer(f, hist) == {g \in hist : g.ts > f.ts \/ (g.ts = f.ts /\ g.id > f.id)}

\* Mutant of Eligible: one version too many is spared.
EligibleButOne(f, hist, policy, cutoff) ==
  /\ policy.only_retracted => f.retracted
  /\ cutoff # None => f.ts < cutoff
  /\ policy.max_versions # None => Cardinality(Newer(f, hist)) > policy.max_versions

\* Mutant of Eligible: a fact must be as young as the age.
EligibleYoung(f, hist, policy, cutoff) ==
  /\ policy.only_retracted => f.retracted
  /\ cutoff # None => f.ts >= cutoff
  /\ policy.max_versions # None => Cardinality(Newer(f, hist)) >= policy.max_versions

\* The age is compared with the raw timestamp.
Eligible(f, hist, policy, cutoff) ==
  /\ policy.only_retracted => f.retracted
  /\ cutoff # None => f.ts < cutoff
  /\ policy.max_versions # None => Cardinality(Newer(f, hist)) >= policy.max_versions

Readings(policy) == IF policy.max_age = None THEN {None} ELSE Walls

\* The scan of the next attribute, and what of it is to be retracted.  Where integers
\* are not checked an age that reaches back before 1970 wraps around.
Inspect(r) ==
  /\ job[r].at = "next"
  /\ \E k \in job[r].keys, now \in Readings(job[r].policy) :
       LET hist == History(job[r].ns, job[r].branch, k)
           cutoff == AgeCutoff(now, job[r].policy.max_age)
       IN  Become(r, [job[r] EXCEPT
             !.at = "retract", !.now = now, !.cutoff = cutoff, !.keys = @ \ {k},
             !.todo = {f \in hist : Eligible(f, hist, job[r].policy, cutoff) /\ ~f.retracted},
             !.inspected = @ \cup hist])
  /\ UNCHANGED vars

\* Where they are checked, as in a debug build, the subtraction panics.
InspectPanics(r) ==
  /\ job[r].at = "next" /\ job[r].keys # {}
  /\ job[r].policy.max_age # None
  /\ \E now \in Walls : now < job[r].policy.max_age
  /\ Become(r, [job[r] EXCEPT !.at = "failed"])
  /\ UNCHANGED vars

\* self.retract of the oldest that is left.
RetractNext(r) ==
  /\ job[r].at = "retract"
  /\ \E f \in job[r].todo :
       /\ Newer(f, job[r].todo) = job[r].todo \ {f}
       /\ CallRetract(r, f.id, job[r].ns, job[r].branch)
       /\ Become(r, [job[r] EXCEPT !.at = "retracting", !.fact = f, !.todo = @ \ {f}])

Retracted(r) ==
  /\ job[r].at = "retracting"
  /\ Retract(r)
  /\ Become(r, [job[r] EXCEPT !.at = "retract", !.retracted = @ \cup {job[r].fact}])

\* Somebody retracted it first: the job ends here, with an error.
RetractFailed(r) ==
  /\ job[r].at = "retracting"
  /\ RetractNotFound(r)
  /\ Become(r, [job[r] EXCEPT !.at = "failed"])

\* store.gc of the whole branch, in all namespaces, after each attribute.
Purge(r) ==
  /\ job[r].at = "retract"
  /\ job[r].todo = {}
  /\ Gc(job[r].cutoff, job[r].branch)
  /\ Become(r, [job[r] EXCEPT !.at = "next"])

Retained(r) ==
  /\ job[r].at = "next"
  /\ job[r].keys = {} /\ job[r].entities = {} /\ job[r].branches = {}
  /\ Become(r, [job[r] EXCEPT !.at = "retained"])
  /\ UNCHANGED vars

-----------------------------------------------------------------------------
(* dump_namespace and restore_namespace                                    *)

CallDump(r, n) ==
  StartJob(r, [at |-> "dump_branches", ns |-> n, branches |-> {}, lines |-> << >>])

DumpBranches(r) ==
  /\ job[r].at = "dump_branches"
  /\ Become(r, [job[r] EXCEPT !.at = "dump", !.branches = BranchesOf(job[r].ns)])
  /\ UNCHANGED vars

\* The scan of one branch.
DumpBranch(r) ==
  /\ job[r].at = "dump"
  /\ \E b \in job[r].branches :
       LET found == {f \in facts : f.ns = job[r].ns /\ f.branch = b}
       IN  Become(r, [job[r] EXCEPT !.branches = @ \ {b},
                                         !.lines = IF found = {} THEN @ ELSE Append(@, found)])
  /\ UNCHANGED vars

\* The answer is the file.
Dumped(r) ==
  /\ job[r].at = "dump" /\ job[r].branches = {}
  /\ backup' = job[r].lines
  /\ job' = [job EXCEPT ![r] = NoJob]
  /\ UNCHANGED <<vars, jobs>>

\* The lines of a file that are left once f has been read.
Rest(lines, f) ==
  IF lines[1] = {f} THEN Tail(lines) ELSE [lines EXCEPT ![1] = @ \ {f}]

CallRestore(r, n) ==
  /\ backup # << >>
  /\ StartJob(r, [at |-> "restore", ns |-> n, dump |-> backup, lines |-> backup])

\* Mutant of RestoreSpec: every line is written under a key of its transaction.
RestoreSpecByTx(n, f) ==
  [ns |-> n, branch |-> f.branch, key |-> f.key, value |-> f.value,
   valid |-> [from |-> f.from, to |-> f.to], idem |-> f.tx]

\* A line as arguments of record: its id is the idempotency key.
RestoreSpec(n, f) ==
  [ns |-> n, branch |-> f.branch, key |-> f.key, value |-> f.value,
   valid |-> [from |-> f.from, to |-> f.to], idem |-> f.id]

\* The lines of a dump are read in its order, newest first.
RestoreLine(r) ==
  /\ job[r].at = "restore" /\ job[r].lines # << >>
  /\ \E f \in Newest(job[r].lines[1]) :
       /\ RestoreSpec(job[r].ns, f) \in RecordSpec
       /\ CallRecord(r, RestoreSpec(job[r].ns, f))
       /\ Become(r, [job[r] EXCEPT !.at = "recording", !.lines = Rest(@, f)])

\* record refuses the line, and it is counted as skipped.
SkipLine(r) ==
  /\ job[r].at = "restore" /\ job[r].lines # << >>
  /\ \E f \in Newest(job[r].lines[1]) :
       LET spec == RestoreSpec(job[r].ns, f)
       IN  /\ ~(RangeOK(spec.valid) /\ SchemaOK(spec))
           /\ Become(r, [job[r] EXCEPT !.lines = Rest(@, f)])
  /\ UNCHANGED vars

RestoreTick(r) ==
  /\ job[r].at = "recording"
  /\ TickRecord(r)
  /\ UNCHANGED jobVars

\* Imported, or skipped as a duplicate.
Recorded(r) ==
  /\ job[r].at = "recording"
  /\ RecordNew(r) \/ RecordDuplicate(r)
  /\ Become(r, [job[r] EXCEPT !.at = "restore"])

Restored(r) ==
  /\ job[r].at = "restore" /\ job[r].lines = << >>
  /\ Become(r, [job[r] EXCEPT !.at = "restored"])
  /\ UNCHANGED vars

-----------------------------------------------------------------------------

RetentionStep(r) ==
  \/ ListBranches(r) \/ ListEntities(r) \/ ListAttrs(r)
  \/ Inspect(r) \/ InspectPanics(r)
  \/ RetractNext(r) \/ Retracted(r) \/ RetractFailed(r) \/ Purge(r)
  \/ Retained(r)

BackupStep(r) ==
  \/ DumpBranches(r) \/ DumpBranch(r) \/ Dumped(r)
  \/ RestoreLine(r) \/ SkipLine(r) \/ RestoreTick(r) \/ Recorded(r)
  \/ Restored(r)

CallJob(r) ==
  \/ \E n \in Namespaces, policy \in Retentions : CallRetention(r, n, policy)
  \/ \E n \in Namespaces : CallDump(r, n) \/ CallRestore(r, n)

\* A request that runs no job is one of Ledger's.
Request(r) ==
  /\ Free(r)
  /\ Call(r) \/ Step(r)
  /\ UNCHANGED jobVars

MaintenanceNext ==
  \/ Administer /\ UNCHANGED jobVars
  \/ \E r \in Requests :
       Request(r) \/ CallJob(r) \/ RetentionStep(r) \/ BackupStep(r)

MaintenanceSpec == MaintenanceInit /\ [][MaintenanceNext]_allVars

-----------------------------------------------------------------------------
(* Properties                                                              *)

RetentionOf(r) ==
  job[r].at \in {"list_branches", "next", "retract", "retracting", "retained", "failed"}

ByVersions(policy) ==
  policy.max_versions # None /\ policy.max_age = None /\ ~policy.only_retracted

\* The facts of a key that a retention has read and that are live now.
StillLive(r, b, k) ==
  {f \in job[r].inspected \cap facts : f.branch = b /\ f.key = k /\ ~f.retracted}

\* Of what a retention by number of versions has read, no more live facts of a key
\* than that number are left at its end, whoever retracted the others
\* and whatever a gc purged since (db.rs:358-377).
RetentionBounds ==
  \A r \in Requests :
    job[r].at = "retained" /\ ByVersions(job[r].policy)
    => \A b \in Branches, k \in Keys :
         Cardinality(StillLive(r, b, k)) <= job[r].policy.max_versions

Spared(r, f) ==
  job[r].policy.max_versions # None =>
    Cardinality({g \in job[r].inspected \ {f} :
                   g.branch = f.branch /\ g.key = f.key /\ g.ts >= f.ts})
      >= job[r].policy.max_versions

\* A retention by number of versions retracts no fact unless it has seen that many
\* others of the same key which are not older, although it forgets what the
\* facts it goes through look like by now (db.rs:349-368).
RetentionSparesLatest ==
  \A r \in Requests : RetentionOf(r) => \A f \in job[r].retracted : Spared(r, f)

\* A retention by age neither retracts nor purges a fact that is younger than the age,
\* although it compares milliseconds with raw timestamps and other requests write
\* while it runs.  Excepted is an age that reaches back before 1970, which
\* wraps around to a cutoff that everything is older than (db.rs:345-347, 360, 389).
AgeSpares ==
  [][\A r \in Requests :
       (Retracted(r) \/ Purge(r)) /\ job[r].policy.max_age # None
         /\ job[r].now >= job[r].policy.max_age
       => \A f \in facts \ facts' : Millis(f.ts) + job[r].policy.max_age < job[r].now]_allVars

Lines(dump) == UNION {dump[i] : i \in DOMAIN dump}

\* The lines of a dump that record accepts in the namespace n.
Acceptable(n, dump) ==
  {f \in Lines(dump) : RangeOK(RestoreSpec(n, f).valid) /\ SchemaOK(RestoreSpec(n, f))}

Alike(f, g) == f.key = g.key /\ f.value = g.value /\ f.branch = g.branch

\* When a restore is done each line of the dump that is accepted has exactly one copy, of
\* the same key, value and branch, however often and by however many at once it
\* was restored; the copy may have been purged, but not replaced.  That holds as long as
\* clients use no fact id as a key of their own (backup.rs:81-111, memory.rs:88-96).
RestoredOnce ==
  \A r \in Requests : job[r].at = "restored" =>
    \A f \in Acceptable(job[r].ns, job[r].dump) :
      /\ f.id \in DOMAIN idem_cache
      /\ {a.fact : a \in {x \in replies : x.key = f.id}} = {idem_cache[f.id].fact}
      /\ \A g \in facts : g.id = idem_cache[f.id].fact => Alike(g, f)

-----------------------------------------------------------------------------
(* The inductive invariant                                                 *)

\* What a retention has read is finite, has been given its identifiers, and is
\* enough to spare the latest of whatever it still holds.
Careful(r) ==
  /\ IsFiniteSet(job[r].inspected)
  /\ \A f \in job[r].todo : f.id < nextId /\ Spared(r, f)
  /\ job[r].at = "retracting" => job[r].fact \in Fact /\ Spared(r, job[r].fact)
  /\ \A f \in job[r].retracted : Spared(r, f)

RetentionConsistent ==
  /\ IsFiniteSet(facts)
  /\ \A r \in Requests : RetentionOf(r) => Careful(r)

\* What a retention still has to retract.
Due(r) == job[r].todo \cup {f \in {job[r].fact} : job[r].at = "retracting"}

\* What a retention has read is still what it was, or has been retracted or purged, and
\* its request is the one it waits for.
Remembers(r) ==
  /\ Due(r) \subseteq job[r].inspected
  /\ \A f \in job[r].inspected :
       f.ns = job[r].ns /\ f.id < nextId /\ \A g \in facts : g.id = f.id => g.ts = f.ts
  /\ job[r].at \in {"list_branches", "next", "retained"} => job[r].todo = {}
  /\ job[r].at = "retracting" => req[r].op = "retracting" /\ req[r].fact = job[r].fact.id

\* It retracts what is older than the cutoff that it read the clock for, ...
Aged(r) ==
  job[r].at \in {"retract", "retracting"} =>
    /\ job[r].now \in Readings(job[r].policy)
    /\ job[r].cutoff = AgeCutoff(job[r].now, job[r].policy.max_age)
    /\ \A f \in Due(r) : job[r].cutoff # None => f.ts < job[r].cutoff

\* ... and what is too much of what it has read.
Bounded(r) ==
  ByVersions(job[r].policy) /\ job[r].at # "failed" =>
    \A b \in Branches, k \in Keys :
      Cardinality(StillLive(r, b, k) \ Due(r)) <= job[r].policy.max_versions

RetentionExact ==
  \A r \in Requests : RetentionOf(r) => Remembers(r) /\ Aged(r) /\ Bounded(r)

\* Clients use no identifier of a fact as an idempotency key.
ClientKeys ==
  \A r \in Requests : Free(r) =>
    /\ req[r].op = "checked" => req[r].spec.idem \notin Nat
    /\ req[r].op = "storing" =>
         \A i \in DOMAIN req[r].specs : req[r].specs[i].idem \notin Nat

DumpOf(r) == job[r].at \in {"dump_branches", "dump"}
RestoreOf(r) == job[r].at \in {"restore", "recording", "restored"}

\* Facts, and copies of what were facts, that may be dumped or restored yet.
Held ==
  facts \cup Lines(backup)
    \cup (UNION {Lines(job[r].lines) : r \in {q \in Requests : DumpOf(q)}})
    \cup (UNION {Lines(job[r].dump) : r \in {q \in Requests : RestoreOf(q)}})

\* An identifier stands for one key, value and branch, whatever became of its fact, ...
HeldAlike ==
  /\ \A f \in Held : f.id < nextId
  /\ \A f, g \in Held : f.id = g.id => Alike(f, g)

\* ... and so does the copy that is stored for it as an idempotency key.
CopiesAlike ==
  /\ \A k \in DOMAIN idem_cache :
       idem_cache[k].fact < nextId /\ (k \in Nat => k < nextId) /\ \E a \in replies : a.key = k
  /\ \A f \in Held, g \in facts :
       f.id \in DOMAIN idem_cache /\ g.id = idem_cache[f.id].fact => Alike(g, f)

\* The line that a restore is recording.
LineOf(r) == IF req[r].op = "checked" THEN req[r].spec ELSE req[r].specs[1]

\* A restore has recorded what it has read, except for the line it is at.
RestoreOnCourse(r) ==
  /\ Lines(job[r].lines) \subseteq Lines(job[r].dump)
  /\ job[r].at = "restored" => job[r].lines = << >>
  /\ job[r].at = "recording" =>
       /\ req[r].op = "checked" \/ (req[r].op = "storing" /\ Len(req[r].specs) = 1)
       /\ \E f \in Lines(job[r].dump) : LineOf(r) = RestoreSpec(job[r].ns, f)
  /\ \A f \in Acceptable(job[r].ns, job[r].dump) :
       \/ f \in Lines(job[r].lines) \/ f.id \in DOMAIN idem_cache
       \/ job[r].at = "recording" /\ LineOf(r).idem = f.id

\* A job that waits for no request has none.
Waiting(r) ==
  ~Free(r) /\ job[r].at \notin {"retracting", "recording"} => req[r] = Idle

RestoreConsistent ==
  /\ HeldAlike /\ CopiesAlike
  /\ \A r \in Requests : Waiting(r) /\ (RestoreOf(r) => RestoreOnCourse(r))

-----------------------------------------------------------------------------
(* What the documentation says and the code does not do                    *)

\* CHANGELOG.md:27: apply_retention applies a policy across a namespace.  What it purges
\* belongs to this namespace.
RetentionInNamespace ==
  [][\A r \in Requests : Purge(r) => \A f \in facts \ facts' : f.ns = job[r].ns]_allVars

\* backup.rs:6: restoring to a fresh namespace is a clean import.  Where nobody else
\* writes, the restored namespace answers for each key as the dumped one did.
RestoreAnswers ==
  \A r \in Requests, b \in Branches, k \in Keys :
    /\ job[r].at = "restored"
    /\ \A f \in facts : f.ns = job[r].ns => \E a \in replies : a.fact = f.id
    => LET dumped == {f \in Lines(job[r].dump) : f.branch = b /\ f.key = k /\ ~f.retracted}
       IN  {f.value : f \in Newest(Live(job[r].ns, b, k))}
             = {f.value : f \in Newest(dumped)}
=============================================================================
