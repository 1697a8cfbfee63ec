------------------------------- MODULE Ledger -------------------------------
(***************************************************************************)
(* The Db of polo-core, src/pkg/polo-core/src/db.rs, on a MemoryStore, as  *)
(* concurrent requests drive it.                                           *)
(*                                                                         *)
(* An operation that writes takes its timestamp from the clock first and   *)
(* reaches the store, under the store's lock, in a later step: other       *)
(* requests run in between.  The clock is the one AtomicClock describes,   *)
(* one number that only grows; req holds what each request carries from    *)
(* one step to the next.                                                   *)
(***************************************************************************)
EXTENDS MemoryStore, Sequences

CONSTANTS
  Requests,     \* Identities of concurrent requests.
  Times,        \* Bound: the timestamps the clock can show.
  MaxJump,      \* Bound: how far one tick moves the clock.
  MaxBulk,      \* Bound: the longest bulk.
  MaxCalls,     \* Bound: operations started.
  Intervals,    \* The valid_from, valid_to pairs callers give.
  Cutoffs,      \* The before_ms values a gc is given.
  TxIds         \* The transaction ids a tag is given.

ASSUME LedgerAssumption ==
  /\ Times \subseteq Nat /\ MaxJump \in Nat
  /\ Intervals \subseteq [from : Nat, to : Nat \cup {Open}]
  /\ TxIds \subseteq Nat
  /\ Cutoffs \subseteq Nat /\ None \notin Cutoffs

VARIABLES
  clock,        \* Db.clock
  req,          \* What each request is doing.
  calls,        \* Counts operations, for the bound.
  replies       \* Every answer to a record with an idempotency key.

ledger == <<clock, req, calls, replies>>
vars == <<store, ledger>>

Idle == [op |-> "idle"]

\* RecordParams, before the clock has been read.
RecordSpec == [ns : Namespaces, branch : Branches, key : Keys, value : Values,
               valid : Intervals, idem : IdemKeys \cup {None}]
\* BulkSpec, with the namespace and branch of the bulk: it has no key.
BulkSpec == {spec \in RecordSpec : spec.idem = None}
Checked == [op : {"checked"}, spec : RecordSpec]
Storing == [op : {"storing"}, specs : Seq(RecordSpec), ts : Nat, tx : Nat]
Retracting == [op : {"retracting"}, fact : Nat, ns : Namespaces,
               branch : Branches, ts : Nat, tx : Nat]
Forking == [op : {"forking"}, ns : Namespaces, branch : Branches,
            parent : Branches, ts : Nat]
Stages == {Idle} \cup Checked \cup Storing \cup Retracting \cup Forking

LedgerTypeOK ==
  /\ clock \in Nat
  /\ req \in [Requests -> Stages]
  /\ calls \in Nat
  /\ replies \subseteq [key : IdemKeys, fact : Nat, tx : Nat]

TypeOK == StoreTypeOK /\ LedgerTypeOK

Init ==
  /\ StoreInit
  /\ clock = 0
  /\ req = [r \in Requests |-> Idle]
  /\ calls = 0
  /\ replies = {}

\* Mutant of Tick: a tick may return the last timestamp again.
TickAgain(ts) ==
  /\ ts >= clock /\ ts <= clock + MaxJump
  /\ clock' = ts

\* self.clock.tick() has returned ts.
Tick(ts) ==
  /\ ts > clock /\ ts <= clock + MaxJump
  /\ clock' = ts

Begin(r, stage) ==
  /\ req[r] = Idle /\ calls < MaxCalls
  /\ req' = [req EXCEPT ![r] = stage]
  /\ calls' = calls + 1

End(r) == req' = [req EXCEPT ![r] = Idle]

NewTx == /\ nextId' = nextId + 1
         /\ UNCHANGED <<facts, transactions, branches, namespaces, idem_cache, tags>>

-----------------------------------------------------------------------------
(* Db::record and Db::bulk_record                                          *)

RangeOK(span) == span.to = Open \/ span.to > span.from

\* Only a namespace that exists, and has a schema, has a say.
SchemaOK(spec) ==
  spec.ns \in DOMAIN namespaces
    => Conforms(namespaces[spec.ns].schema, spec.key, spec.value)

\* The valid-time and schema checks.  What fails them changes nothing.
CallRecord(r, spec) ==
  /\ RangeOK(spec.valid)
  /\ SchemaOK(spec)
  /\ Begin(r, [op |-> "checked", spec |-> spec])
  /\ UNCHANGED <<store, clock, replies>>

TickRecord(r) ==
  /\ req[r].op = "checked"
  /\ \E ts \in Times :
       /\ Tick(ts)
       /\ req' = [req EXCEPT ![r] = [op |-> "storing", specs |-> <<req[r].spec>>,
                                     ts |-> ts, tx |-> nextId]]
  /\ NewTx
  /\ UNCHANGED <<calls, replies>>

\* One timestamp and one transaction for all specs, and no checks.
CallBulk(r, specs) ==
  /\ \A i, j \in DOMAIN specs : /\ specs[i].ns = specs[j].ns
                                /\ specs[i].branch = specs[j].branch
  /\ \E ts \in Times :
       /\ Tick(ts)
       /\ Begin(r, [op |-> "storing", specs |-> specs, ts |-> ts, tx |-> nextId])
  /\ NewTx
  /\ UNCHANGED replies

\* What the next store.record of the request is given.
Params(r) ==
  LET spec == Head(req[r].specs)
  IN  [ns |-> spec.ns, branch |-> spec.branch, key |-> spec.key,
       value |-> spec.value, from |-> spec.valid.from, to |-> spec.valid.to,
       idem |-> spec.idem, ts |-> req[r].ts, tx |-> req[r].tx]

Reply(p, fact, tx) ==
  replies' = replies \cup {[key |-> k, fact |-> fact, tx |-> tx] : k \in {p.idem} \ {None}}

\* On to the next spec of a bulk, or done.
Stored(r) ==
  req' = [req EXCEPT ![r] = IF Len(req[r].specs) = 1 THEN Idle
                            ELSE [req[r] EXCEPT !.specs = Tail(req[r].specs)]]

RecordNew(r) ==
  /\ req[r].op = "storing"
  /\ StoreRecordNew(Params(r))
  /\ Reply(Params(r), nextId, req[r].tx)
  /\ Stored(r)
  /\ UNCHANGED <<clock, calls>>

RecordDuplicate(r) ==
  /\ req[r].op = "storing"
  /\ StoreRecordDuplicate(Params(r))
  /\ LET hit == idem_cache[Params(r).idem]
     IN  Reply(Params(r), hit.fact, hit.tx)
  /\ Stored(r)
  /\ UNCHANGED <<clock, calls>>

-----------------------------------------------------------------------------
(* Db::retract                                                             *)

CallRetract(r, id, ns, branch) ==
  /\ \E ts \in Times :
       /\ Tick(ts)
       /\ Begin(r, [op |-> "retracting", fact |-> id, ns |-> ns,
                    branch |-> branch, ts |-> ts, tx |-> nextId])
  /\ NewTx
  /\ UNCHANGED replies

Retract(r) ==
  /\ req[r].op = "retracting"
  /\ StoreRetract(req[r].fact, req[r])
  /\ End(r)
  /\ UNCHANGED <<clock, calls, replies>>

\* FactNotFound: no such fact, or somebody retracted it first.
RetractNotFound(r) ==
  /\ req[r].op = "retracting"
  /\ Retractable(req[r].fact, req[r]) = {}
  /\ End(r)
  /\ UNCHANGED <<store, clock, calls, replies>>

-----------------------------------------------------------------------------
(* Branches and namespaces                                                 *)

CallFork(r, ns, branch, parent) ==
  /\ \E ts \in Times :
       /\ Tick(ts)
       /\ Begin(r, [op |-> "forking", ns |-> ns, branch |-> branch,
                    parent |-> parent, ts |-> ts])
  /\ UNCHANGED <<store, replies>>

Fork(r) ==
  /\ req[r].op = "forking"
  /\ StoreCreateBranch(req[r].ns, req[r].branch, req[r].parent, req[r].ts)
  /\ End(r)
  /\ UNCHANGED <<clock, calls, replies>>

\* NamespaceNotFound or BranchExists.
ForkRejected(r) ==
  /\ req[r].op = "forking"
  /\ ~CanFork(req[r].ns, req[r].branch)
  /\ End(r)
  /\ UNCHANGED <<store, clock, calls, replies>>

\* The operations below are one store call; calls counts them for the bound.
OneStep ==
  /\ calls < MaxCalls
  /\ calls' = calls + 1
  /\ UNCHANGED <<clock, req, replies>>

DeleteBranch(ns, branch) == StoreDeleteBranch(ns, branch) /\ OneStep

CreateNamespace(ns, info) == StoreCreateNamespace(ns, info) /\ OneStep

Gc(before, scope) == StoreGc(before, scope) /\ OneStep

PutTag(label, tx) == StorePutTag(label, tx) /\ OneStep

DeleteTag(label) == StoreDeleteTag(label) /\ OneStep

-----------------------------------------------------------------------------

\* An empty bulk is refused.
Bulks == UNION {[1 .. n -> BulkSpec] : n \in 1 .. MaxBulk}

Step(r) ==
  \/ TickRecord(r)
  \/ RecordNew(r)
  \/ RecordDuplicate(r)
  \/ Retract(r)
  \/ RetractNotFound(r)
  \/ Fork(r)
  \/ ForkRejected(r)

\* A retraction may name any identifier that has been given out, and 0, which is none.
Call(r) ==
  \/ \E spec \in RecordSpec : CallRecord(r, spec)
  \/ \E specs \in Bulks : CallBulk(r, specs)
  \/ \E id \in 0 .. nextId - 1, n \in Namespaces, b \in Branches : CallRetract(r, id, n, b)
  \/ \E n \in Namespaces, b, parent \in Branches : CallFork(r, n, b, parent)

Administer ==
  \/ \E n \in Namespaces, b \in Branches : DeleteBranch(n, b)
  \/ \E n \in Namespaces, info \in NamespaceInfo : CreateNamespace(n, info)
  \/ \E before \in Cutoffs \cup {None}, scope \in Branches \cup {None} : Gc(before, scope)
  \/ \E label \in Labels, tx \in TxIds : PutTag(label, tx)
  \/ \E label \in Labels : DeleteTag(label)

Next == Administer \/ \E r \in Requests : Call(r) \/ Step(r)

Spec == Init /\ [][Next]_vars

-----------------------------------------------------------------------------
(* Properties                                                              *)

\* Every stored fact belongs to a recorded transaction of its own namespace,
\* branch and timestamp, although gc purges transactions
\* while bulks are half done (memory.rs:117-131, 543-547).
TxRecorded ==
  \A f \in facts : \E t \in transactions :
    t.id = f.tx /\ t.ts = f.ts /\ t.ns = f.ns /\ t.branch = f.branch

\* A transaction counts at least the facts that are stored under it, even when gc
\* purged its row between two facts of a bulk (memory.rs:118-119).
CountCovers ==
  \A t \in transactions : t.count >= Cardinality({f \in facts : f.tx = t.id})

\* Timestamps tell transactions apart and never lie ahead of the clock, so
\* that reading at Clock::now (facts.rs:154) misses no committed fact and which
\* fact is the newest does not depend on the order of commits.
Timestamps ==
  /\ \A t \in transactions : t.ts <= clock
  /\ \A f \in facts : f.ts <= clock
  /\ \A t, u \in transactions : (t.ts = u.ts \/ t.id = u.id) => t = u

\* However requests race and whatever gc removes, all answers to one
\* idempotency key name the same fact and transaction (memory.rs:88-96).
RetrySafe ==
  \A a, b \in replies : a.key = b.key => a = b

\* An existing namespace always has its main branch, as a root, and roots are not
\* deleted (memory.rs:282-284, 323-334).
RootsKept ==
  \A n \in DOMAIN namespaces :
    <<n, Main>> \in DOMAIN branches /\ branches[<<n, Main>>].parent = None

\* The head of a branch is never a transaction of another branch, although branches
\* are deleted and created again while writes to them are under way.
HeadOnBranch ==
  \A k \in DOMAIN branches, t \in transactions :
    t.id = branches[k].head => <<t.ns, t.branch>> = k

\* A live fact survives every step, and only a retraction may change it; a
\* retracted fact is frozen until gc removes it (db.rs:131-153, memory.rs:158).
FactsPermanent ==
  [][\A f \in facts :
       \/ f \in facts'
       \/ f.retracted /\ \A g \in facts' : g.id # f.id
       \/ ~f.retracted /\ \E g \in facts' :
            /\ g.retracted
            /\ g = [f EXCEPT !.retracted = TRUE, !.to = g.to]]_vars

\* The requests that have a timestamp and facts still to store.
InFlight == {r \in Requests : req[r].op = "storing"}

\* What as-of answers about a time that is past only changes because a request
\* whose timestamp was taken before that time commits late, or because the
\* answer itself is retracted (db.rs:205-226).
PastAnswers ==
  [][\A n \in Namespaces, b \in Branches, k \in Keys, at \in Times :
       LET old == Asof(n, b, k, at)
           new == Asof(n, b, k, at)'
       IN  (at <= clock /\ new # old) =>
             \/ /\ new \cap facts = {}
                /\ \E r \in InFlight, f \in new : req[r].ts <= at /\ f.tx = req[r].tx
             \/ \E f \in old, g \in facts' : g.id = f.id /\ g.retracted]_vars

\* gc with an age cutoff never removes a fact as young as the cutoff
\* (memory.rs:529; gc.rs:8).
GcSparesYoung ==
  [][\A before \in Cutoffs, scope \in Branches \cup {None} :
       Gc(before, scope) =>
         \A f \in facts \ facts' : f.retracted /\ Millis(f.ts) < before]_vars

-----------------------------------------------------------------------------
(* The inductive invariant                                                 *)

\* The requests that hold a timestamp and still have to write under it.
Pending == {r \in Requests : req[r].op \in {"storing", "retracting"}}

\* What makes the properties above inductive.  A transaction id that a request
\* holds has been given out, belongs to no other request, and is in the store only
\* as what a half-done bulk of this very request has put there.
IdsBehind ==
  /\ \A f \in facts : f.id < nextId
  /\ \A t \in transactions : t.id \in 1 .. nextId - 1
  /\ \A r \in Pending : req[r].tx \in 1 .. nextId - 1
  /\ \A k \in DOMAIN branches : branches[k].head < nextId

IdsUnique ==
  /\ \A f, g \in facts : f.id = g.id => f = g
  /\ \A t, u \in transactions : t.id = u.id => t = u
  /\ \A r, q \in Pending : req[r].tx = req[q].tx => r = q

BulkOnOneBranch ==
  \A r \in InFlight :
    /\ 1 \in DOMAIN req[r].specs
    /\ \A i, j \in DOMAIN req[r].specs :
         /\ req[r].specs[i].ns = req[r].specs[j].ns
         /\ req[r].specs[i].branch = req[r].specs[j].branch

PendingApart ==
  /\ \A r \in Pending, t \in transactions : t.id = req[r].tx =>
       /\ r \in InFlight /\ t.ts = req[r].ts
       /\ t.ns = req[r].specs[1].ns /\ t.branch = req[r].specs[1].branch
  /\ \A r \in Pending, k \in DOMAIN branches : branches[k].head = req[r].tx =>
       r \in InFlight /\ k = <<req[r].specs[1].ns, req[r].specs[1].branch>>

TxConsistent ==
  /\ IdsBehind
  /\ IdsUnique
  /\ BulkOnOneBranch
  /\ PendingApart
  /\ TxRecorded
  /\ HeadOnBranch

\* The same of timestamps, which are behind the clock.  Apart, because it rests on all
\* timestamps coming from the one clock, and the rest does not.
TimesBehind ==
  /\ \A f \in facts : f.ts <= clock
  /\ \A t \in transactions : t.ts <= clock
  /\ \A r \in Pending : req[r].ts <= clock

TimesUnique ==
  /\ \A t, u \in transactions : t.ts = u.ts => t = u
  /\ \A r, q \in Pending : req[r].ts = req[q].ts => r = q
  /\ \A r \in Pending, t \in transactions : t.ts = req[r].ts => t.id = req[r].tx

TimesConsistent == TimesBehind /\ TimesUnique

Consistent == TxConsistent /\ TimesConsistent

-----------------------------------------------------------------------------
(* What the documentation says and the code does not do                    *)

\* CHANGELOG.md:74: schemas enforce the type of each attribute.
SchemaEnforced ==
  \A f \in facts :
    f.ns \in DOMAIN namespaces => Conforms(namespaces[f.ns].schema, f.key, f.value)
=============================================================================
