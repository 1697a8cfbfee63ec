----------------------------- MODULE MemoryStore -----------------------------
(***************************************************************************)
(* The in-memory store of polo, src/internal/polo-store/src/memory.rs: its *)
(* State and the operations of the Store trait on it.  Each operation runs *)
(* under the one RwLock of the store and is therefore one step.  Modules   *)
(* that say who calls the operations, and when, extend this one.           *)
(*                                                                         *)
(* An (entity, attr) pair is a key, a value is its type (all that schemas  *)
(* look at), and authors, messages and caused_by are left out.  The store  *)
(* keeps facts in a vector in insertion order; here they are a set, and    *)
(* the order is that of their ids.                                         *)
(***************************************************************************)
EXTENDS Integers, FiniteSets

CONSTANTS
  Namespaces, Branches, Keys, Values,
  IdemKeys,     \* Idempotency keys.
  Labels,       \* Tag labels.
  Schemas,      \* The schemas a namespace can be created with.
  Policies,     \* The merge policies a namespace can be created with.
  DefaultNs,    \* Namespace::default()
  Main,         \* BranchName::main()
  None,         \* Option::None, for idempotency keys and parents.
  TicksPerMs    \* 2^16 in the code: timestamps in one millisecond.

ASSUME NamesAssumption ==
  /\ DefaultNs \in Namespaces /\ Main \in Branches
  /\ None \notin IdemKeys \cup Branches
ASSUME PoliciesAssumption ==
  /\ Policies \subseteq {"last_write_wins", "first_write_wins", "error_on_conflict"}
  /\ "last_write_wins" \in Policies
ASSUME TicksPerMsAssumption == TicksPerMs \in Nat \ {0}

VARIABLES
  facts, transactions, branches, namespaces, idem_cache, tags,
  nextId        \* FactId::new and TxId::new: the next unused identifier.

store == <<facts, transactions, branches, namespaces, idem_cache, tags, nextId>>

NoSchema == [attrs |-> << >>, strict |-> FALSE]
DefaultInfo == [policy |-> "last_write_wins", schema |-> NoSchema]
Open == -1      \* valid_to: None
NoTx == 0       \* head_tx: None

Fact == [id : Nat, ns : Namespaces, branch : Branches, key : Keys,
         value : Values, from : Nat, to : Nat \cup {Open}, ts : Nat, tx : Nat,
         retracted : BOOLEAN]
Transaction == [id : Nat, ns : Namespaces, branch : Branches, ts : Nat,
                count : Nat]
BranchInfo == [parent : Branches \cup {None}, forkAt : Nat, head : Nat]
NamespaceInfo == [policy : Policies, schema : Schemas \cup {NoSchema}]

BranchKeys == Namespaces \X Branches

\* Functions that grow and shrink, as the hash maps do.
With(f, k, v) == [x \in DOMAIN f \cup {k} |-> IF x = k THEN v ELSE f[x]]
Without(f, k) == [x \in DOMAIN f \ {k} |-> f[x]]

StoreTypeOK ==
  /\ facts \subseteq Fact
  /\ transactions \subseteq Transaction
  /\ DOMAIN branches \subseteq BranchKeys
  /\ branches \in [DOMAIN branches -> BranchInfo]
  /\ DOMAIN namespaces \subseteq Namespaces
  /\ namespaces \in [DOMAIN namespaces -> NamespaceInfo]
  /\ DOMAIN idem_cache \subseteq IdemKeys
  /\ idem_cache \in [DOMAIN idem_cache -> [fact : Nat, tx : Nat]]
  /\ DOMAIN tags \subseteq Labels
  /\ tags \in [DOMAIN tags -> Nat]
  /\ nextId \in Nat \ {0}

Root == [parent |-> None, forkAt |-> 0, head |-> NoTx]

\* Schema::validate: a listed attribute takes values of its type, and an
\* unlisted one anything unless the schema is strict.
Conforms(schema, key, value) ==
  IF key \in DOMAIN schema.attrs THEN schema.attrs[key] \in {"any", value}
                                 ELSE ~schema.strict

\* Hlc::to_datetime, in milliseconds.
Millis(ts) == ts \div TicksPerMs

StoreInit ==
  /\ facts = {}
  /\ transactions = {}
  /\ branches = [k \in {<<DefaultNs, Main>>} |-> Root]
  /\ namespaces = [n \in {DefaultNs} |-> DefaultInfo]
  /\ idem_cache = [k \in {} |-> 0]
  /\ tags = [l \in {} |-> 0]
  /\ nextId = 1

-----------------------------------------------------------------------------
(* Reading                                                                 *)

ValidAt(f, at) == f.from <= at /\ (f.to = Open \/ at < f.to)

\* Mutant of Live: retracted facts are not left out.
LiveOrRetracted(ns, branch, key) ==
  {f \in facts : f.ns = ns /\ f.branch = branch /\ f.key = key}

\* The facts of a scan that leaves retracted facts out.
Live(ns, branch, key) ==
  {f \in facts : f.ns = ns /\ f.branch = branch /\ f.key = key /\ ~f.retracted}

\* Mutant of NewerThan: among equal timestamps the last written is the newest.
NewerThanLast(f, g) == f.ts > g.ts \/ (f.ts = g.ts /\ f.id > g.id)

\* sort_by tx_time, newest first, is stable: insertion order breaks ties.
NewerThan(f, g) == f.ts > g.ts \/ (f.ts = g.ts /\ f.id < g.id)

\* take(1) of what the scan sorted: a set of at most one fact.
Newest(S) == {f \in S : \A g \in S \ {f} : NewerThan(f, g)}

\* Db::asof
Asof(ns, branch, key, at) == Newest({f \in Live(ns, branch, key) : f.ts <= at})

\* Db::effective
Effective(ns, branch, key, at) ==
  Newest({f \in Live(ns, branch, key) : ValidAt(f, at)})

-----------------------------------------------------------------------------
(* Writing                                                                 *)

\* Mutant of BranchesAfter: the branch is looked up by its name alone.
BranchesAfterByName(ns, branch, tx) ==
  [k \in DOMAIN branches |->
     IF k[2] = branch THEN [branches[k] EXCEPT !.head = tx] ELSE branches[k]]

\* head_tx of the branch, if the branch exists.
BranchesAfter(ns, branch, tx) ==
  [k \in DOMAIN branches |->
     IF k = <<ns, branch>> THEN [branches[k] EXCEPT !.head = tx] ELSE branches[k]]

NewFact(p, id) ==
  [id |-> id, ns |-> p.ns, branch |-> p.branch, key |-> p.key,
   value |-> p.value, from |-> p.from, to |-> p.to, ts |-> p.ts, tx |-> p.tx,
   retracted |-> FALSE]

\* Mutant of TransactionsAfter: the facts after the first are not counted.
TransactionsUncounted(p) ==
  IF \E t \in transactions : t.id = p.tx THEN transactions
  ELSE transactions \cup {[id |-> p.tx, ns |-> p.ns, branch |-> p.branch,
                           ts |-> p.ts, count |-> 1]}

\* The transaction row is created with its first fact and counts the others.
TransactionsAfter(p) ==
  IF \E t \in transactions : t.id = p.tx
  THEN {IF t.id = p.tx THEN [t EXCEPT !.count = @ + 1] ELSE t : t \in transactions}
  ELSE transactions \cup {[id |-> p.tx, ns |-> p.ns, branch |-> p.branch,
                           ts |-> p.ts, count |-> 1]}

\* Mutant of IsDuplicate: a key counts only within its own transaction.
IsDuplicateInTx(p) == p.idem \in DOMAIN idem_cache /\ idem_cache[p.idem].tx = p.tx

IsDuplicate(p) == p.idem \in DOMAIN idem_cache

\* Mutant of StoreRecordNew: the cache is written without asking for a key.
StoreRecordNoKey(p) ==
  /\ ~IsDuplicate(p)
  /\ facts' = facts \cup {NewFact(p, nextId)}
  /\ transactions' = TransactionsAfter(p)
  /\ branches' = BranchesAfter(p.ns, p.branch, p.tx)
  /\ idem_cache' = With(idem_cache, p.idem, [fact |-> nextId, tx |-> p.tx])
  /\ nextId' = nextId + 1
  /\ UNCHANGED <<namespaces, tags>>

StoreRecordNew(p) ==
  /\ ~IsDuplicate(p)
  /\ facts' = facts \cup {NewFact(p, nextId)}
  /\ transactions' = TransactionsAfter(p)
  /\ branches' = BranchesAfter(p.ns, p.branch, p.tx)
  /\ idem_cache' = IF p.idem = None THEN idem_cache
                   ELSE With(idem_cache, p.idem, [fact |-> nextId, tx |-> p.tx])
  /\ nextId' = nextId + 1
  /\ UNCHANGED <<namespaces, tags>>

\* The key has been used: answer with what it recorded then.
StoreRecordDuplicate(p) ==
  /\ IsDuplicate(p)
  /\ UNCHANGED store

Retractable(id, p) ==
  {f \in facts : f.id = id /\ ~f.retracted /\ f.ns = p.ns /\ f.branch = p.branch}

Closed(f, ts) == [f EXCEPT !.retracted = TRUE, !.to = Millis(ts)]

StoreRetract(id, p) ==
  \E f \in Retractable(id, p) :
    /\ facts' = (facts \ {f}) \cup {Closed(f, p.ts)}
    /\ transactions' = transactions \cup {[id |-> p.tx, ns |-> p.ns,
                          branch |-> p.branch, ts |-> p.ts, count |-> 1]}
    /\ branches' = BranchesAfter(p.ns, p.branch, p.tx)
    /\ UNCHANGED <<namespaces, idem_cache, tags, nextId>>

\* The namespace must exist; the parent is not looked up.
CanFork(ns, branch) ==
  ns \in DOMAIN namespaces /\ <<ns, branch>> \notin DOMAIN branches

\* Mutant of StoreCreateBranch: a new branch takes over the head of its parent.
StoreForkWithHead(ns, branch, parent, at) ==
  /\ CanFork(ns, branch)
  /\ branches' = With(branches, <<ns, branch>>,
                      [parent |-> parent, forkAt |-> at,
                       head |-> IF <<ns, parent>> \in DOMAIN branches
                                THEN branches[<<ns, parent>>].head ELSE NoTx])
  /\ UNCHANGED <<facts, transactions, namespaces, idem_cache, tags, nextId>>

StoreCreateBranch(ns, branch, parent, at) ==
  /\ CanFork(ns, branch)
  /\ branches' = With(branches, <<ns, branch>>,
                      [parent |-> parent, forkAt |-> at, head |-> NoTx])
  /\ UNCHANGED <<facts, transactions, namespaces, idem_cache, tags, nextId>>

\* Mutant of StoreDeleteBranch: roots are deleted like any other branch.
StoreDeleteAnyBranch(ns, branch) ==
  /\ <<ns, branch>> \in DOMAIN branches
  /\ branches' = Without(branches, <<ns, branch>>)
  /\ UNCHANGED <<facts, transactions, namespaces, idem_cache, tags, nextId>>

\* A root branch stays; the facts of a deleted branch stay too.
StoreDeleteBranch(ns, branch) ==
  /\ <<ns, branch>> \in DOMAIN branches
  /\ branches[<<ns, branch>>].parent # None
  /\ branches' = Without(branches, <<ns, branch>>)
  /\ UNCHANGED <<facts, transactions, namespaces, idem_cache, tags, nextId>>

StoreCreateNamespace(ns, info) ==
  /\ ns \notin DOMAIN namespaces
  /\ namespaces' = With(namespaces, ns, info)
  /\ branches' = With(branches, <<ns, Main>>, Root)
  /\ UNCHANGED <<facts, transactions, idem_cache, tags, nextId>>

\* Mutants of Purgeable: live facts go too; facts go at any age.
PurgeableLive(before, scope) ==
  {f \in facts : /\ before = None \/ f.ts < before
                 /\ scope = None \/ f.branch = scope}

PurgeableAnyAge(before, scope) ==
  {f \in facts : f.retracted /\ (scope = None \/ f.branch = scope)}

\* before_ms is compared with the raw timestamp.
Purgeable(before, scope) ==
  {f \in facts : /\ f.retracted
                 /\ before = None \/ f.ts < before
                 /\ scope = None \/ f.branch = scope}

\* Mutants of StoreGc: only live facts hold their transaction; the keys of purged
\* facts are forgotten with them.
StoreGcByLiveFacts(before, scope) ==
  /\ facts' = facts \ Purgeable(before, scope)
  /\ transactions' = {t \in transactions :
                        \E f \in facts' : f.tx = t.id /\ ~f.retracted}
  /\ UNCHANGED <<branches, namespaces, idem_cache, tags, nextId>>

StoreGcOfKeys(before, scope) ==
  /\ facts' = facts \ Purgeable(before, scope)
  /\ transactions' = {t \in transactions : \E f \in facts' : f.tx = t.id}
  /\ LET kept == {k \in DOMAIN idem_cache : \E f \in facts' : f.id = idem_cache[k].fact}
     IN  idem_cache' = [k \in kept |-> idem_cache[k]]
  /\ UNCHANGED <<branches, namespaces, tags, nextId>>

\* Facts go, and then every transaction no remaining fact names.
StoreGc(before, scope) ==
  /\ facts' = facts \ Purgeable(before, scope)
  /\ transactions' = {t \in transactions : \E f \in facts' : f.tx = t.id}
  /\ UNCHANGED <<branches, namespaces, idem_cache, tags, nextId>>

StorePutTag(label, tx) ==
  /\ tags' = With(tags, label, tx)
  /\ UNCHANGED <<facts, transactions, branches, namespaces, idem_cache, nextId>>

StoreDeleteTag(label) ==
  /\ label \in DOMAIN tags
  /\ tags' = Without(tags, label)
  /\ UNCHANGED <<facts, transactions, branches, namespaces, idem_cache, nextId>>
=============================================================================
