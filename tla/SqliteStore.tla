----------------------------- MODULE SqliteStore -----------------------------
(***************************************************************************)
(* The SQLite store of polo, src/internal/polo-store/src/sqlite.rs.  Its   *)
(* tables have the shape of MemoryStore's state, and one mutex holds off   *)
(* other calls until a call returns.  But a call that writes several       *)
(* tables does so in as many statements, each committed on its own: no     *)
(* BEGIN is ever sent.  A statement that fails (a full disk, an I/O error) *)
(* or a process that dies leaves what the earlier statements wrote.        *)
(***************************************************************************)
EXTENDS MemoryStore

CONSTANTS
  Writes,       \* What record is called with.
  Retractions,  \* What retract is called with.
  Forks,        \* The fork_at of create_branch.
  Cutoffs,      \* The before_ms of gc.
  TxIds,        \* What put_tag is called with.
  Word,         \* 2^64 in the code: the values of a u64.
  MaxCalls,     \* Bound: calls.
  MaxFaults     \* Bound: crashes and failed statements.

ASSUME WordAssumption == Word \in Nat /\ Cutoffs \subseteq 0 .. Word - 1 /\ None \notin Cutoffs

ASSUME CallsAssumption ==
  /\ Writes \subseteq [ns : Namespaces, branch : Branches, key : Keys, value : Values,
                       from : Nat, to : Nat \cup {Open}, idem : IdemKeys \cup {None},
                       ts : Nat, tx : Nat]
  /\ Retractions \subseteq [ns : Namespaces, branch : Branches, ts : Nat, tx : Nat]
  /\ Forks \subseteq Nat /\ TxIds \subseteq Nat

VARIABLES
  phase,        \* The database file: "closed", "seeding" or "open".
  job,          \* What the holder of the mutex still has to do.
  calls,        \* Counts calls, for the bound.
  faults,       \* Counts crashes and failed statements.
  replies,      \* History: the answers record has given.
  keyed,        \* History: the facts written for each idempotency key.
  torn,         \* History: a fault has cut a call short.
  shown         \* History: the tables when the mutex was last released, and
                \* until a call was cut short.

tables == store
vars == <<tables, phase, job, calls, faults, replies, keyed, torn, shown>>

NoJob == [next |-> "none"]

\* INSERT OR IGNORE
Keep(f, k, v) == IF k \in DOMAIN f THEN f ELSE With(f, k, v)

\* The tables, with these branches and namespaces; as they are; and once seeded.
TablesWith(bs, ns) ==
  [facts |-> facts, transactions |-> transactions, branches |-> bs, namespaces |-> ns,
   idem_cache |-> idem_cache, tags |-> tags, nextId |-> nextId]
Tables == TablesWith(branches, namespaces)
Seeded == TablesWith(Keep(branches, <<DefaultNs, Main>>, Root),
                     Keep(namespaces, DefaultNs, DefaultInfo))

\* What is left to do, by the statement that comes next.
Recording == [next : {"transaction", "head", "key"}, p : Writes, fact : Nat]
Retracting == [next : {"retract transaction", "retract head"}, p : Retractions]
Creating == [next : {"main branch"}, ns : Namespaces]
Collecting == [next : {"gc transactions"}]

TypeOK ==
  /\ StoreTypeOK
  /\ phase \in {"closed", "seeding", "open"}
  /\ job \in {NoJob} \cup Recording \cup Retracting \cup Creating \cup Collecting
  /\ calls \in Nat /\ faults \in Nat
  /\ replies \subseteq [key : IdemKeys \cup {None}, fact : Nat, tx : Nat]
  /\ keyed \subseteq IdemKeys \X Nat
  /\ torn \in BOOLEAN

\* A file that does not exist yet.  What it will show is the seed.
Init ==
  /\ facts = {} /\ transactions = {}
  /\ branches = [k \in {} |-> Root] /\ namespaces = [n \in {} |-> DefaultInfo]
  /\ idem_cache = [k \in {} |-> 0] /\ tags = [l \in {} |-> 0]
  /\ nextId = 1
  /\ phase = "closed" /\ job = NoJob
  /\ calls = 0 /\ faults = 0 /\ replies = {} /\ keyed = {} /\ torn = FALSE
  /\ shown = Seeded

-----------------------------------------------------------------------------
(* Opening the database: run_migrations                                    *)

\* Mutant of SeedNamespace: a file that has the namespace counts as seeded.
SeedOnce ==
  /\ phase = "closed"
  /\ phase' = IF DefaultNs \in DOMAIN namespaces THEN "open" ELSE "seeding"
  /\ namespaces' = Keep(namespaces, DefaultNs, DefaultInfo)
  /\ UNCHANGED <<facts, transactions, branches, idem_cache, tags, nextId,
                 job, calls, faults, replies, keyed, torn, shown>>

SeedNamespace ==
  /\ phase = "closed" /\ phase' = "seeding"
  /\ namespaces' = Keep(namespaces, DefaultNs, DefaultInfo)
  /\ UNCHANGED <<facts, transactions, branches, idem_cache, tags, nextId,
                 job, calls, faults, replies, keyed, torn, shown>>

\* Tables that no call has been cut short in are what a reader sees.
Show == shown' = IF torn' THEN shown ELSE Tables'

SeedBranch ==
  /\ phase = "seeding" /\ phase' = "open"
  /\ branches' = Keep(branches, <<DefaultNs, Main>>, Root)
  /\ UNCHANGED <<facts, transactions, namespaces, idem_cache, tags, nextId,
                 job, calls, faults, replies, keyed, torn>>
  /\ Show

-----------------------------------------------------------------------------
(* The mutex                                                               *)

\* A call takes the mutex.
Enter ==
  /\ phase = "open" /\ job = NoJob /\ calls < MaxCalls
  /\ calls' = calls + 1
  /\ UNCHANGED <<phase, faults>>

\* A later statement of the call that holds it.
At(statement) ==
  /\ job.next = statement
  /\ UNCHANGED <<phase, calls, faults>>

GoOn(j) == job' = j /\ UNCHANGED <<torn, shown>>

\* The call returns and releases the mutex.
Leave == job' = NoJob /\ UNCHANGED torn /\ Show

Answer(p, fact, tx) ==
  replies' = replies \cup {[key |-> p.idem, fact |-> fact, tx |-> tx]}

-----------------------------------------------------------------------------
(* record: up to four statements                                           *)

RecordHit(p) ==
  /\ Enter
  /\ IsDuplicate(p)
  /\ Answer(p, idem_cache[p.idem].fact, idem_cache[p.idem].tx)
  /\ UNCHANGED <<tables, keyed>>
  /\ Leave

\* INSERT INTO facts
RecordFact(p) ==
  /\ Enter
  /\ ~IsDuplicate(p)
  /\ facts' = facts \cup {NewFact(p, nextId)}
  /\ nextId' = nextId + 1
  /\ keyed' = keyed \cup ({p.idem} \ {None}) \X {nextId}
  /\ UNCHANGED <<transactions, branches, namespaces, idem_cache, tags, replies>>
  /\ GoOn([next |-> "transaction", p |-> p, fact |-> nextId])

\* Mutant of RecordTransaction: ON CONFLICT DO NOTHING.
RecordTransactionOnce ==
  /\ At("transaction")
  /\ transactions' = transactions \cup
       {t \in {[id |-> job.p.tx, ns |-> job.p.ns, branch |-> job.p.branch,
                ts |-> job.p.ts, count |-> 1]} : \A u \in transactions : u.id # t.id}
  /\ UNCHANGED <<facts, branches, namespaces, idem_cache, tags, nextId, replies, keyed>>
  /\ GoOn([job EXCEPT !.next = "head"])

\* INSERT INTO transactions ... ON CONFLICT(id) DO UPDATE
RecordTransaction ==
  /\ At("transaction")
  /\ transactions' = TransactionsAfter(job.p)
  /\ UNCHANGED <<facts, branches, namespaces, idem_cache, tags, nextId, replies, keyed>>
  /\ GoOn([job EXCEPT !.next = "head"])

\* Mutants of RecordHead: the answer is given before the key is stored; a key is
\* stored whether or not there is one.
RecordHeadAnswers ==
  /\ At("head")
  /\ branches' = BranchesAfter(job.p.ns, job.p.branch, job.p.tx)
  /\ UNCHANGED <<facts, transactions, namespaces, idem_cache, tags, nextId, keyed>>
  /\ Answer(job.p, job.fact, job.p.tx)
  /\ IF job.p.idem = None THEN Leave ELSE GoOn([job EXCEPT !.next = "key"])

RecordHeadAndKey ==
  /\ At("head")
  /\ branches' = BranchesAfter(job.p.ns, job.p.branch, job.p.tx)
  /\ UNCHANGED <<facts, transactions, namespaces, idem_cache, tags, nextId, keyed,
                 replies>>
  /\ GoOn([job EXCEPT !.next = "key"])

\* UPDATE branches: the last statement, unless there is a key to store.
RecordHead ==
  /\ At("head")
  /\ branches' = BranchesAfter(job.p.ns, job.p.branch, job.p.tx)
  /\ UNCHANGED <<facts, transactions, namespaces, idem_cache, tags, nextId, keyed>>
  /\ \/ /\ job.p.idem = None
        /\ Answer(job.p, job.fact, job.p.tx)
        /\ Leave
     \/ /\ job.p.idem # None
        /\ UNCHANGED replies
        /\ GoOn([job EXCEPT !.next = "key"])

\* INSERT OR REPLACE INTO idempotency_cache
RecordKey ==
  /\ At("key")
  /\ idem_cache' = With(idem_cache, job.p.idem, [fact |-> job.fact, tx |-> job.p.tx])
  /\ Answer(job.p, job.fact, job.p.tx)
  /\ UNCHANGED <<facts, transactions, branches, namespaces, tags, nextId, keyed>>
  /\ Leave

-----------------------------------------------------------------------------
(* retract: three statements                                               *)

\* valid_to_ms becomes the raw timestamp, not its milliseconds.
RetractFact(id, p) ==
  /\ Enter
  /\ \A t \in transactions : t.id # p.tx   \* TxId::new
  /\ \E f \in Retractable(id, p) :
       facts' = (facts \ {f}) \cup {[f EXCEPT !.retracted = TRUE, !.to = p.ts]}
  /\ UNCHANGED <<transactions, branches, namespaces, idem_cache, tags, nextId,
                 replies, keyed>>
  /\ GoOn([next |-> "retract transaction", p |-> p])

RetractTransaction ==
  /\ At("retract transaction")
  /\ transactions' = transactions \cup {[id |-> job.p.tx, ns |-> job.p.ns,
                        branch |-> job.p.branch, ts |-> job.p.ts, count |-> 1]}
  /\ UNCHANGED <<facts, branches, namespaces, idem_cache, tags, nextId, replies, keyed>>
  /\ GoOn([job EXCEPT !.next = "retract head"])

RetractHead ==
  /\ At("retract head")
  /\ branches' = BranchesAfter(job.p.ns, job.p.branch, job.p.tx)
  /\ UNCHANGED <<facts, transactions, namespaces, idem_cache, tags, nextId,
                 replies, keyed>>
  /\ Leave

-----------------------------------------------------------------------------
(* create_namespace and gc: two statements                                 *)

CreateNamespaceRow(n, info) ==
  /\ Enter
  /\ n \notin DOMAIN namespaces
  /\ namespaces' = With(namespaces, n, info)
  /\ UNCHANGED <<facts, transactions, branches, idem_cache, tags, nextId,
                 replies, keyed>>
  /\ GoOn([next |-> "main branch", ns |-> n])

CreateNamespaceMain ==
  /\ At("main branch")
  /\ branches' = With(branches, <<job.ns, Main>>, Root)
  /\ UNCHANGED <<facts, transactions, namespaces, idem_cache, tags, nextId,
                 replies, keyed>>
  /\ Leave

\* as i64: SQLite's integers are signed.
AsI64(v) == IF v < Word \div 2 THEN v ELSE v - Word

GcFacts(before, scope) ==
  /\ Enter
  /\ facts' = facts \ Purgeable(IF before = None THEN None ELSE AsI64(before), scope)
  /\ UNCHANGED <<transactions, branches, namespaces, idem_cache, tags, nextId,
                 replies, keyed>>
  /\ GoOn([next |-> "gc transactions"])

\* Mutant of GcTransactions: only live facts hold their transaction.
GcTransactionsByLiveFacts ==
  /\ At("gc transactions")
  /\ transactions' = {t \in transactions : \E f \in facts : f.tx = t.id /\ ~f.retracted}
  /\ UNCHANGED <<facts, branches, namespaces, idem_cache, tags, nextId,
                 replies, keyed>>
  /\ Leave

\* DELETE FROM transactions WHERE id NOT IN (SELECT DISTINCT tx_id FROM facts)
GcTransactions ==
  /\ At("gc transactions")
  /\ transactions' = {t \in transactions : \E f \in facts : f.tx = t.id}
  /\ UNCHANGED <<facts, branches, namespaces, idem_cache, tags, nextId,
                 replies, keyed>>
  /\ Leave

-----------------------------------------------------------------------------
(* Calls of one statement                                                  *)

OneStatement == Enter /\ UNCHANGED <<replies, keyed>> /\ Leave

CreateBranch(n, b, parent, at) == StoreCreateBranch(n, b, parent, at) /\ OneStatement

DeleteBranch(n, b) == StoreDeleteBranch(n, b) /\ OneStatement

PutTag(label, tx) == StorePutTag(label, tx) /\ OneStatement

DeleteTag(label) == StoreDeleteTag(label) /\ OneStatement

-----------------------------------------------------------------------------
(* Faults                                                                  *)

Fault == faults < MaxFaults /\ faults' = faults + 1

\* The next statement fails: map_err and ? return, and the mutex is released.
StatementFails ==
  /\ Fault
  /\ job # NoJob
  /\ job' = NoJob /\ torn' = TRUE
  /\ UNCHANGED <<tables, phase, calls, replies, keyed, shown>>

\* The process ends; the next one opens the file again.
Crash ==
  /\ Fault
  /\ phase \in {"seeding", "open"} /\ phase' = "closed"
  /\ job' = NoJob /\ torn' = (torn \/ job # NoJob)
  /\ UNCHANGED <<tables, calls, replies, keyed, shown>>

Call ==
  \/ \E p \in Writes : RecordHit(p) \/ RecordFact(p)
  \/ \E p \in Retractions, f \in facts : RetractFact(f.id, p)
  \/ \E n \in Namespaces, b, parent \in Branches, at \in Forks :
       CreateBranch(n, b, parent, at)
  \/ \E n \in Namespaces, b \in Branches : DeleteBranch(n, b)
  \/ \E n \in Namespaces, info \in NamespaceInfo : CreateNamespaceRow(n, info)
  \/ \E before \in Cutoffs \cup {None}, scope \in Branches \cup {None} :
       GcFacts(before, scope)
  \/ \E label \in Labels, tx \in TxIds : PutTag(label, tx)
  \/ \E label \in Labels : DeleteTag(label)

Statement ==
  \/ RecordTransaction \/ RecordHead \/ RecordKey
  \/ RetractTransaction \/ RetractHead
  \/ CreateNamespaceMain \/ GcTransactions

Next ==
  \/ SeedNamespace \/ SeedBranch
  \/ Call \/ Statement
  \/ StatementFails \/ Crash

Spec == Init /\ [][Next]_vars

-----------------------------------------------------------------------------
(* Properties                                                              *)

\* An answer to record was given after its last statement: whatever fails or
\* dies later, the key answers the same again and the fact, for as long as it
\* is there, has its transaction (sqlite.rs:255-313).
AnswersHold ==
  \A a \in replies :
    /\ a.key # None => /\ a.key \in DOMAIN idem_cache
                       /\ idem_cache[a.key] = [fact |-> a.fact, tx |-> a.tx]
    /\ (\E f \in facts : f.id = a.fact) => \E t \in transactions : t.id = a.tx

Orphans == {f \in facts : ~\E t \in transactions : t.id = f.tx}
Mainless == {n \in DOMAIN namespaces : <<n, Main>> \notin DOMAIN branches}
Running == IF job = NoJob /\ phase # "seeding" THEN 0 ELSE 1

\* Each fault leaves at most one fact without a transaction, or one namespace
\* without main: damage neither spreads nor grows by itself, and gc
\* makes no more of it (sqlite.rs:255-300, 748-760, 1068-1075).
DamageBounded == Cardinality(Orphans) + Cardinality(Mainless) <= faults + Running

\* A key is used for as many facts as there were faults, and one more.
RetriesBounded ==
  \A k \in IdemKeys : Cardinality({x \in keyed : x[1] = k}) <= faults + 1

\* However often the file is opened, and wherever the process dies while it is
\* being seeded, an open database has the default namespace with its
\* main branch, as a root (sqlite.rs:121-134).
DefaultSeeded ==
  phase = "open" =>
    /\ DefaultNs \in DOMAIN namespaces
    /\ <<DefaultNs, Main>> \in DOMAIN branches
    /\ branches[<<DefaultNs, Main>>].parent = None

\* A retracted fact, with the milliseconds of the timestamp that sqlite keeps.
InMillis(f) == IF f.retracted THEN [f EXCEPT !.to = Millis(@)] ELSE f

\* What a reader was shown, and what the tables hold, as MemoryStore would hold it.
Shown == {InMillis(f) : f \in shown.facts}
InMemory == {InMillis(f) : f \in facts}

\* As long as no fault cuts a call short, the statements under the mutex are one step,
\* the step MemoryStore takes, and a restart between calls changes nothing, up to the
\* unit in which the end of a retracted fact is kept (conformance.rs:1-2).
Atomic == INSTANCE AtomicStore WITH
  facts <- Shown, transactions <- shown.transactions,
  branches <- shown.branches, namespaces <- shown.namespaces,
  idem_cache <- shown.idem_cache, tags <- shown.tags, nextId <- shown.nextId
ImplementsAtomic == Atomic!Spec

-----------------------------------------------------------------------------
(* The inductive invariant                                                 *)

\* A record that is under way has a new key, and its fact is not yet told of.
RecordInv ==
  job \in Recording =>
    /\ ~IsDuplicate(job.p)
    /\ job.fact < nextId
    /\ \A f \in facts : f.id = job.fact => f.tx = job.p.tx
    /\ job.next # "transaction" => \E t \in transactions : t.id = job.p.tx
    /\ job.next = "key" => job.p.idem # None

\* Identifiers are used once, and a key answers what has been answered before.
AnswersInv ==
  /\ \A f \in facts : f.id < nextId
  /\ \A a \in replies :
       a.fact < nextId /\ \A f \in facts : f.id = a.fact => f.tx = a.tx
  /\ \A k \in DOMAIN idem_cache :
       [key |-> k, fact |-> idem_cache[k].fact, tx |-> idem_cache[k].tx] \in replies

SeedInv ==
  /\ phase # "closed" => DefaultNs \in DOMAIN namespaces
  /\ phase = "open" => <<DefaultNs, Main>> \in DOMAIN branches
  /\ <<DefaultNs, Main>> \in DOMAIN branches => branches[<<DefaultNs, Main>>].parent = None
  /\ phase # "open" => job = NoJob

\* A key has as many facts as there were faults, one more once it is stored or is
\* about to be.
KeyTaken(k) == k \in DOMAIN idem_cache \/ (job \in Recording /\ job.p.idem = k)
KeyedInv ==
  /\ IsFiniteSet(keyed)
  /\ \A k \in IdemKeys :
       Cardinality({x \in keyed : x[1] = k}) <= faults + IF KeyTaken(k) THEN 1 ELSE 0

\* Damage, with the namespaces whose main a client has forked anew, and what the
\* call that is under way is about to repair.
Rootless == {n \in DOMAIN namespaces :
               <<n, Main>> \in DOMAIN branches => branches[<<n, Main>>].parent # None}
MendedFacts ==
  {f \in Orphans : job \in Recording /\ job.next = "transaction" /\ f.tx = job.p.tx}
MendedNamespaces ==
  {n \in Rootless : (job \in Creating /\ n = job.ns) \/ (phase = "seeding" /\ n = DefaultNs)}
DamageInv ==
  /\ IsFiniteSet(Orphans) /\ IsFiniteSet(Rootless)
  /\ Cardinality(Orphans) + Cardinality(Rootless) <= faults + Running
  /\ Cardinality(Orphans \ MendedFacts) + Cardinality(Rootless \ MendedNamespaces) <= faults

\* How far the tables are ahead of what was shown, for each statement that may come
\* next, as long as no call was cut short.
Ahead(r) ==
  /\ InMemory = Shown \cup {NewFact(r.p, r.fact)}
  /\ shown.nextId = r.fact /\ nextId = r.fact + 1
  /\ transactions = IF r.next = "transaction" THEN shown.transactions
                    ELSE Atomic!TransactionsAfter(r.p)
  /\ branches = IF r.next # "key" THEN shown.branches
                ELSE Atomic!BranchesAfter(r.p.ns, r.p.branch, r.p.tx)
  /\ namespaces = shown.namespaces /\ idem_cache = shown.idem_cache /\ tags = shown.tags

AheadByRetract(r) ==
  /\ \E f \in Shown : /\ f \in Atomic!Retractable(f.id, r.p)
                      /\ InMemory = (Shown \ {f}) \cup {Closed(f, r.p.ts)}
  /\ transactions =
       IF r.next = "retract transaction" THEN shown.transactions
       ELSE shown.transactions \cup {[id |-> r.p.tx, ns |-> r.p.ns, branch |-> r.p.branch,
                                     ts |-> r.p.ts, count |-> 1]}
  /\ branches = shown.branches /\ namespaces = shown.namespaces
  /\ idem_cache = shown.idem_cache /\ tags = shown.tags /\ nextId = shown.nextId

AheadByNamespace(r) ==
  /\ r.ns \notin DOMAIN shown.namespaces
  /\ \E info \in NamespaceInfo : namespaces = With(shown.namespaces, r.ns, info)
  /\ InMemory = Shown /\ transactions = shown.transactions /\ branches = shown.branches
  /\ idem_cache = shown.idem_cache /\ tags = shown.tags /\ nextId = shown.nextId

AheadByGc ==
  /\ \E before \in Cutoffs \cup {None}, scope \in Branches \cup {None} :
       InMemory = Shown \ Atomic!Purgeable(before, scope)
  /\ transactions = shown.transactions /\ branches = shown.branches
  /\ namespaces = shown.namespaces /\ idem_cache = shown.idem_cache
  /\ tags = shown.tags /\ nextId = shown.nextId

ShownInv ==
  ~torn =>
    /\ job = NoJob => shown = IF phase = "open" THEN Tables ELSE Seeded
    /\ job \in Recording => Ahead(job)
    /\ job \in Retracting => AheadByRetract(job)
    /\ job \in Creating => AheadByNamespace(job)
    /\ job \in Collecting => AheadByGc

SqliteInv ==
  TypeOK /\ RecordInv /\ AnswersInv /\ AnswersHold /\ SeedInv /\ KeyedInv /\ DamageInv
=============================================================================
