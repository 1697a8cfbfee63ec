---------------------------- MODULE Ledger_proofs ----------------------------
(***************************************************************************)
(* Proofs about Ledger: its type invariant; that facts and transactions    *)
(* fit together and are told apart by their timestamps, however requests   *)
(* interleave; that retries agree; what a step may do to a fact; that the  *)
(* counts of the transactions cover their facts; and when an answer about  *)
(* the past may change.                                                    *)
(***************************************************************************)
EXTENDS Ledger, TLAPS, SequenceTheorems, FiniteSetTheorems

-----------------------------------------------------------------------------
(* The maps of the store *)

LEMMA BranchesAfterType ==
  ASSUME StoreTypeOK, NEW n, NEW b, NEW tx \in Nat
  PROVE  /\ DOMAIN BranchesAfter(n, b, tx) = DOMAIN branches
         /\ BranchesAfter(n, b, tx) \in [DOMAIN branches -> BranchInfo]
BY DEF BranchesAfter, StoreTypeOK, BranchInfo

\* What store.record and store.retract are given.
RecordParams ==
  [ns : Namespaces, branch : Branches, key : Keys, value : Values, from : Nat,
   to : Nat \cup {Open}, idem : IdemKeys \cup {None}, ts : Nat, tx : Nat]

LEMMA RecordKeepsType ==
  ASSUME StoreTypeOK, NEW p \in RecordParams, StoreRecordNew(p)
  PROVE  StoreTypeOK'
<1> USE DEF StoreTypeOK, RecordParams
<1>1. facts' \subseteq Fact
  <2>1. NewFact(p, nextId) \in Fact
    BY DEF NewFact, Fact
  <2> QED BY <2>1 DEF StoreRecordNew
<1>2. transactions' \subseteq Transaction
  <2>1. ASSUME NEW t \in transactions
        PROVE  [t EXCEPT !.count = @ + 1] \in Transaction
    BY DEF Transaction
  <2>2. [id |-> p.tx, ns |-> p.ns, branch |-> p.branch, ts |-> p.ts, count |-> 1]
          \in Transaction
    BY DEF Transaction
  <2> QED BY <2>1, <2>2 DEF StoreRecordNew, TransactionsAfter
<1>3. DOMAIN branches' \subseteq BranchKeys /\ branches' \in [DOMAIN branches' -> BranchInfo]
  BY BranchesAfterType DEF StoreRecordNew
<1>4. /\ DOMAIN idem_cache' \subseteq IdemKeys
      /\ idem_cache' \in [DOMAIN idem_cache' -> [fact : Nat, tx : Nat]]
  <2>1. CASE p.idem = None
    BY <2>1 DEF StoreRecordNew
  <2>2. CASE p.idem # None
    <3>1. p.idem \in IdemKeys /\ [fact |-> nextId, tx |-> p.tx] \in [fact : Nat, tx : Nat]
      BY <2>2
    <3>2. idem_cache' = With(idem_cache, p.idem, [fact |-> nextId, tx |-> p.tx])
      BY <2>2 DEF StoreRecordNew
    <3>3. DOMAIN idem_cache \subseteq IdemKeys
      OBVIOUS
    <3>4. idem_cache \in [DOMAIN idem_cache -> [fact : Nat, tx : Nat]]
      OBVIOUS
    <3> HIDE DEF StoreTypeOK, RecordParams
    <3> QED BY ONLY <3>1, <3>2, <3>3, <3>4 DEF With
  <2> QED BY <2>1, <2>2
<1> QED
  BY <1>1, <1>2, <1>3, <1>4 DEF StoreRecordNew

LEMMA RetractKeepsType ==
  ASSUME StoreTypeOK, NEW p \in Retracting, NEW id, StoreRetract(id, p)
  PROVE  StoreTypeOK'
<1> USE DEF StoreTypeOK
<1>1. PICK f \in Retractable(id, p) :
        /\ facts' = (facts \ {f}) \cup {Closed(f, p.ts)}
        /\ transactions' = transactions \cup {[id |-> p.tx, ns |-> p.ns,
                               branch |-> p.branch, ts |-> p.ts, count |-> 1]}
        /\ branches' = BranchesAfter(p.ns, p.branch, p.tx)
        /\ UNCHANGED <<namespaces, idem_cache, tags, nextId>>
  BY DEF StoreRetract
<1>2. f \in Fact
  BY <1>1 DEF Retractable
<1>3. Millis(p.ts) \in Nat
  BY TicksPerMsAssumption DEF Millis, Retracting
<1>4. Closed(f, p.ts) \in Fact
  BY <1>2, <1>3 DEF Closed, Fact
<1>5. facts' \subseteq Fact
  BY <1>1, <1>4
<1>6. transactions' \subseteq Transaction
  BY <1>1 DEF Transaction, Retracting
<1>7. DOMAIN branches' \subseteq BranchKeys /\ branches' \in [DOMAIN branches' -> BranchInfo]
  BY <1>1, BranchesAfterType DEF Retracting
<1> QED BY <1>1, <1>5, <1>6, <1>7

LEMMA CreateBranchKeepsType ==
  ASSUME StoreTypeOK, NEW n \in Namespaces, NEW b \in Branches,
         NEW parent \in Branches, NEW at \in Nat, StoreCreateBranch(n, b, parent, at)
  PROVE  StoreTypeOK'
<1>1. /\ DOMAIN branches' \subseteq BranchKeys
      /\ branches' \in [DOMAIN branches' -> BranchInfo]
  <2>1. [parent |-> parent, forkAt |-> at, head |-> NoTx] \in BranchInfo
    BY DEF BranchInfo, NoTx
  <2>2. <<n, b>> \in BranchKeys
    BY DEF BranchKeys
  <2> QED BY <2>1, <2>2 DEF StoreCreateBranch, StoreTypeOK, With
<1> QED BY <1>1 DEF StoreCreateBranch, StoreTypeOK

LEMMA CreateNamespaceKeepsType ==
  ASSUME StoreTypeOK, NEW n \in Namespaces, NEW info \in NamespaceInfo,
         StoreCreateNamespace(n, info)
  PROVE  StoreTypeOK'
<1>1. /\ DOMAIN branches' \subseteq BranchKeys
      /\ branches' \in [DOMAIN branches' -> BranchInfo]
  <2>1. Root \in BranchInfo
    BY DEF BranchInfo, NoTx, Root
  <2>2. <<n, Main>> \in BranchKeys
    BY NamesAssumption DEF BranchKeys
  <2> QED BY <2>1, <2>2 DEF StoreCreateNamespace, StoreTypeOK, With
<1>2. /\ DOMAIN namespaces' \subseteq Namespaces
      /\ namespaces' \in [DOMAIN namespaces' -> NamespaceInfo]
  BY DEF StoreCreateNamespace, StoreTypeOK, With
<1> QED BY <1>1, <1>2 DEF StoreCreateNamespace, StoreTypeOK

LEMMA AdministerKeepsType ==
  ASSUME TypeOK, Administer
  PROVE  TypeOK'
<1>0. StoreTypeOK /\ LedgerTypeOK
  BY DEF TypeOK
<1>1. ASSUME OneStep
      PROVE  LedgerTypeOK'
  BY <1>0, <1>1 DEF OneStep, LedgerTypeOK
<1>2. ASSUME NEW n \in Namespaces, NEW b \in Branches, DeleteBranch(n, b)
      PROVE  TypeOK'
  <2>1. StoreTypeOK'
    BY <1>0, <1>2 DEF DeleteBranch, StoreDeleteBranch, StoreTypeOK, Without
  <2> QED BY <1>1, <1>2, <2>1 DEF DeleteBranch, TypeOK
<1>3. ASSUME NEW n \in Namespaces, NEW info \in NamespaceInfo, CreateNamespace(n, info)
      PROVE  TypeOK'
  BY <1>0, <1>1, <1>3, CreateNamespaceKeepsType DEF CreateNamespace, TypeOK
<1>4. ASSUME NEW before, NEW scope, Gc(before, scope)
      PROVE  TypeOK'
  <2>1. StoreTypeOK'
    BY <1>0, <1>4 DEF Gc, StoreGc, StoreTypeOK
  <2> QED BY <1>1, <1>4, <2>1 DEF Gc, TypeOK
<1>5. ASSUME NEW l \in Labels, NEW tx \in TxIds, PutTag(l, tx)
      PROVE  TypeOK'
  <2>1. tx \in Nat
    BY LedgerAssumption
  <2>2. StoreTypeOK'
    BY <1>0, <1>5, <2>1 DEF PutTag, StorePutTag, StoreTypeOK, With
  <2> QED BY <1>1, <1>5, <2>2 DEF PutTag, TypeOK
<1>6. ASSUME NEW l \in Labels, DeleteTag(l)
      PROVE  TypeOK'
  <2>1. StoreTypeOK'
    BY <1>0, <1>6 DEF DeleteTag, StoreDeleteTag, StoreTypeOK, Without
  <2> QED BY <1>1, <1>6, <2>1 DEF DeleteTag, TypeOK
<1> QED BY <1>2, <1>3, <1>4, <1>5, <1>6 DEF Administer

\* The timestamp and the transaction id a request takes.
LEMMA TickType ==
  ASSUME NEW ts \in Times, Tick(ts)
  PROVE  clock' = ts /\ ts \in Nat
BY LedgerAssumption DEF Tick

LEMMA NewTxKeepsType ==
  ASSUME StoreTypeOK, NewTx
  PROVE  StoreTypeOK'
BY DEF StoreTypeOK, NewTx

LEMMA BulksAreSequences ==
  ASSUME NEW specs \in Bulks
  PROVE  specs \in Seq(RecordSpec) /\ specs # << >>
<1>1. PICK n \in 1 .. MaxBulk : specs \in [1 .. n -> BulkSpec]
  BY DEF Bulks
<1>2. n \in Nat /\ n > 0
  BY <1>1
<1>3. specs \in [1 .. n -> RecordSpec]
  BY <1>1 DEF BulkSpec
<1>4. specs \in Seq(RecordSpec)
  BY <1>2, <1>3, SeqDef
<1>5. specs # << >>
  <2>1. DOMAIN specs = 1 .. n /\ 1 \in 1 .. n
    BY <1>2, <1>3
  <2>2. DOMAIN << >> = {}
    OBVIOUS
  <2> QED BY <2>1, <2>2
<1> QED BY <1>4, <1>5

LEMMA BeginKeepsType ==
  ASSUME LedgerTypeOK, NEW r \in Requests, NEW s \in Stages, Begin(r, s)
  PROVE  req' \in [Requests -> Stages] /\ calls' \in Nat
BY DEF LedgerTypeOK, Begin

LEMMA CallKeepsType ==
  ASSUME TypeOK, NEW r \in Requests, Call(r)
  PROVE  TypeOK'
<1>0. StoreTypeOK /\ LedgerTypeOK /\ nextId \in Nat
  BY DEF TypeOK, StoreTypeOK
<1>1. ASSUME NEW spec \in RecordSpec, CallRecord(r, spec)
      PROVE  TypeOK'
  <2>1. [op |-> "checked", spec |-> spec] \in Stages
    BY DEF Stages, Checked
  <2>2. req' \in [Requests -> Stages] /\ calls' \in Nat
    BY <1>0, <1>1, <2>1, BeginKeepsType DEF CallRecord
  <2>3. StoreTypeOK'
    BY <1>0, <1>1 DEF CallRecord, StoreTypeOK, store
  <2> QED BY <1>0, <1>1, <2>2, <2>3 DEF CallRecord, TypeOK, LedgerTypeOK
<1>2. ASSUME NEW specs \in Bulks, CallBulk(r, specs)
      PROVE  TypeOK'
  <2>1. PICK ts \in Times :
          /\ Tick(ts)
          /\ Begin(r, [op |-> "storing", specs |-> specs, ts |-> ts, tx |-> nextId])
    BY <1>2 DEF CallBulk
  <2>2. ts \in Nat /\ clock' = ts
    BY <2>1, TickType
  <2>3. [op |-> "storing", specs |-> specs, ts |-> ts, tx |-> nextId] \in Stages
    BY <1>0, <2>2, BulksAreSequences DEF Stages, Storing
  <2>4. req' \in [Requests -> Stages] /\ calls' \in Nat
    BY <1>0, <2>1, <2>3, BeginKeepsType
  <2>5. StoreTypeOK'
    BY <1>0, <1>2, NewTxKeepsType DEF CallBulk
  <2> QED BY <1>0, <1>2, <2>2, <2>4, <2>5 DEF CallBulk, TypeOK, LedgerTypeOK
<1>3. ASSUME NEW id \in 0 .. nextId - 1, NEW n \in Namespaces, NEW b \in Branches,
             CallRetract(r, id, n, b)
      PROVE  TypeOK'
  <2>1. PICK ts \in Times :
          /\ Tick(ts)
          /\ Begin(r, [op |-> "retracting", fact |-> id, ns |-> n,
                       branch |-> b, ts |-> ts, tx |-> nextId])
    BY <1>3 DEF CallRetract
  <2>2. ts \in Nat /\ clock' = ts
    BY <2>1, TickType
  <2>3. id \in Nat
    BY <1>0 DEF StoreTypeOK, Fact
  <2>4. [op |-> "retracting", fact |-> id, ns |-> n, branch |-> b,
         ts |-> ts, tx |-> nextId] \in Stages
    BY <1>0, <2>2, <2>3 DEF Stages, Retracting
  <2>5. req' \in [Requests -> Stages] /\ calls' \in Nat
    BY <1>0, <2>1, <2>4, BeginKeepsType
  <2>6. StoreTypeOK'
    BY <1>0, <1>3, NewTxKeepsType DEF CallRetract
  <2> QED BY <1>0, <1>3, <2>2, <2>5, <2>6 DEF CallRetract, TypeOK, LedgerTypeOK
<1>4. ASSUME NEW n \in Namespaces, NEW b \in Branches, NEW parent \in Branches,
             CallFork(r, n, b, parent)
      PROVE  TypeOK'
  <2>1. PICK ts \in Times :
          /\ Tick(ts)
          /\ Begin(r, [op |-> "forking", ns |-> n, branch |-> b,
                       parent |-> parent, ts |-> ts])
    BY <1>4 DEF CallFork
  <2>2. ts \in Nat /\ clock' = ts
    BY <2>1, TickType
  <2>3. [op |-> "forking", ns |-> n, branch |-> b, parent |-> parent, ts |-> ts]
          \in Stages
    BY <2>2 DEF Stages, Forking
  <2>4. req' \in [Requests -> Stages] /\ calls' \in Nat
    BY <1>0, <2>1, <2>3, BeginKeepsType
  <2>5. StoreTypeOK'
    BY <1>0, <1>4 DEF CallFork, StoreTypeOK, store
  <2> QED BY <1>0, <1>4, <2>2, <2>4, <2>5 DEF CallFork, TypeOK, LedgerTypeOK
<1> QED BY <1>1, <1>2, <1>3, <1>4 DEF Call

\* Which record a request's stage is, by its op.
LEMMA StageOf ==
  ASSUME LedgerTypeOK, NEW r \in Requests
  PROVE  /\ req[r] \in Stages
         /\ req[r].op = "checked" => req[r] \in Checked
         /\ req[r].op = "storing" => req[r] \in Storing
         /\ req[r].op = "retracting" => req[r] \in Retracting
         /\ req[r].op = "forking" => req[r] \in Forking
<1>1. req[r] \in Stages
  BY DEF LedgerTypeOK
<1> QED BY <1>1 DEF Stages, Idle, Checked, Storing, Retracting, Forking

LEMMA ParamsType ==
  ASSUME TypeOK, BulkOnOneBranch, NEW r \in Requests, req[r].op = "storing"
  PROVE  /\ req[r].specs \in Seq(RecordSpec) /\ req[r].specs # << >>
         /\ Params(r) \in RecordParams
         /\ Params(r).ts = req[r].ts /\ Params(r).tx = req[r].tx
         /\ Params(r).ns = req[r].specs[1].ns
         /\ Params(r).branch = req[r].specs[1].branch
<1>1. req[r] \in Storing
  BY StageOf DEF TypeOK
<1>2. req[r].specs \in Seq(RecordSpec) /\ req[r].ts \in Nat /\ req[r].tx \in Nat
  BY <1>1 DEF Storing
<1>3. req[r].specs # << >>
  BY <1>2 DEF BulkOnOneBranch, InFlight
<1>4. Head(req[r].specs) \in RecordSpec /\ Head(req[r].specs) = req[r].specs[1]
  BY <1>2, <1>3
<1>5. \A span \in Intervals : span.from \in Nat /\ span.to \in Nat \cup {Open}
  BY LedgerAssumption
<1>6. Params(r) \in RecordParams
  BY <1>2, <1>4, <1>5 DEF Params, RecordParams, RecordSpec
<1> QED BY <1>2, <1>3, <1>4, <1>6 DEF Params

LEMMA StoredKeepsType ==
  ASSUME TypeOK, BulkOnOneBranch, NEW r \in Requests, req[r].op = "storing", Stored(r)
  PROVE  req' \in [Requests -> Stages]
<1>1. req[r] \in Storing /\ req \in [Requests -> Stages] /\ req[r].specs # << >>
  BY StageOf, ParamsType DEF TypeOK, LedgerTypeOK
<1>2. Tail(req[r].specs) \in Seq(RecordSpec)
  BY <1>1 DEF Storing
<1>3. [req[r] EXCEPT !.specs = Tail(req[r].specs)] \in Storing
  BY <1>1, <1>2 DEF Storing
<1>4. Idle \in Stages
  BY DEF Stages
<1> QED BY <1>1, <1>3, <1>4 DEF Stored, Stages

LEMMA StepKeepsType ==
  ASSUME TypeOK, BulkOnOneBranch, NEW r \in Requests, Step(r)
  PROVE  TypeOK'
<1>0. StoreTypeOK /\ LedgerTypeOK /\ nextId \in Nat /\ Idle \in Stages
  BY DEF TypeOK, StoreTypeOK, Stages
<1>1. CASE TickRecord(r)
  <2>1. PICK ts \in Times :
          /\ Tick(ts)
          /\ req' = [req EXCEPT ![r] = [op |-> "storing", specs |-> <<req[r].spec>>,
                                        ts |-> ts, tx |-> nextId]]
    BY <1>1 DEF TickRecord
  <2>2. ts \in Nat /\ clock' = ts
    BY <2>1, TickType
  <2>3. req[r].spec \in RecordSpec
    BY <1>0, <1>1, StageOf DEF TickRecord, Checked
  <2>4. [op |-> "storing", specs |-> <<req[r].spec>>, ts |-> ts, tx |-> nextId] \in Stages
    BY <1>0, <2>2, <2>3 DEF Stages, Storing
  <2>5. req' \in [Requests -> Stages]
    BY <1>0, <2>1, <2>4 DEF LedgerTypeOK
  <2>6. StoreTypeOK'
    BY <1>0, <1>1, NewTxKeepsType DEF TickRecord
  <2> QED BY <1>0, <1>1, <2>2, <2>5, <2>6 DEF TickRecord, TypeOK, LedgerTypeOK
<1>2. CASE RecordNew(r)
  <2>1. StoreTypeOK'
    BY <1>0, <1>2, ParamsType, RecordKeepsType DEF RecordNew
  <2>2. req' \in [Requests -> Stages]
    BY <1>2, StoredKeepsType DEF RecordNew
  <2>3. replies' \subseteq [key : IdemKeys, fact : Nat, tx : Nat]
    <3>1. Params(r) \in RecordParams /\ req[r].tx \in Nat
      BY <1>0, <1>2, ParamsType, StageOf DEF RecordNew, Storing
    <3> QED BY <1>0, <1>2, <3>1 DEF RecordNew, Reply, LedgerTypeOK, RecordParams
  <2> QED BY <1>0, <1>2, <2>1, <2>2, <2>3 DEF RecordNew, TypeOK, LedgerTypeOK
<1>3. CASE RecordDuplicate(r)
  <2>1. StoreTypeOK'
    BY <1>0, <1>3 DEF RecordDuplicate, StoreRecordDuplicate, StoreTypeOK, store
  <2>2. req' \in [Requests -> Stages]
    BY <1>3, StoredKeepsType DEF RecordDuplicate
  <2>3. replies' \subseteq [key : IdemKeys, fact : Nat, tx : Nat]
    <3>1. Params(r).idem \in DOMAIN idem_cache /\ DOMAIN idem_cache \subseteq IdemKeys
      BY <1>0, <1>3 DEF RecordDuplicate, StoreRecordDuplicate, IsDuplicate, StoreTypeOK
    <3>2. idem_cache[Params(r).idem] \in [fact : Nat, tx : Nat]
      BY <1>0, <3>1 DEF StoreTypeOK
    <3> QED BY <1>0, <1>3, <3>1, <3>2 DEF RecordDuplicate, Reply, LedgerTypeOK
  <2> QED BY <1>0, <1>3, <2>1, <2>2, <2>3 DEF RecordDuplicate, TypeOK, LedgerTypeOK
<1>4. CASE Retract(r)
  <2>1. req[r] \in Retracting
    BY <1>0, <1>4, StageOf DEF Retract
  <2>2. StoreTypeOK'
    BY <1>0, <1>4, <2>1, RetractKeepsType DEF Retract
  <2> QED BY <1>0, <1>4, <2>2 DEF Retract, End, TypeOK, LedgerTypeOK
<1>5. CASE RetractNotFound(r) \/ ForkRejected(r)
  <2>1. StoreTypeOK'
    BY <1>0, <1>5 DEF RetractNotFound, ForkRejected, StoreTypeOK, store
  <2> QED
    BY <1>0, <1>5, <2>1 DEF RetractNotFound, ForkRejected, End, TypeOK, LedgerTypeOK
<1>6. CASE Fork(r)
  <2>1. req[r] \in Forking
    BY <1>0, <1>6, StageOf DEF Fork
  <2>2. StoreTypeOK'
    BY <1>0, <1>6, <2>1, CreateBranchKeepsType DEF Fork, Forking
  <2> QED BY <1>0, <1>6, <2>2 DEF Fork, End, TypeOK, LedgerTypeOK
<1> QED BY <1>1, <1>2, <1>3, <1>4, <1>5, <1>6 DEF Step

LEMMA TypeStep == TypeOK /\ BulkOnOneBranch /\ [Next]_vars => TypeOK'
<1> SUFFICES ASSUME TypeOK, BulkOnOneBranch, [Next]_vars
             PROVE  TypeOK'
  OBVIOUS
<1>1. CASE UNCHANGED vars
  BY <1>1 DEF vars, store, ledger, TypeOK, StoreTypeOK, LedgerTypeOK
<1> QED
  BY <1>1, AdministerKeepsType, CallKeepsType, StepKeepsType DEF Next

-----------------------------------------------------------------------------
(* Facts, transactions and pending requests fit together                   *)

\* Request q goes on with what it had, or with fewer specs, or stops.
GoesOn(q) ==
  q \in Pending' =>
    /\ q \in Pending
    /\ req'[q].op = req[q].op /\ req'[q].ts = req[q].ts /\ req'[q].tx = req[q].tx
    /\ req'[q].op = "storing" =>
         /\ 1 \in DOMAIN req'[q].specs
         /\ \A i \in DOMAIN req'[q].specs :
              /\ req'[q].specs[i].ns = req[q].specs[1].ns
              /\ req'[q].specs[i].branch = req[q].specs[1].branch

LEMMA FirstSpec ==
  ASSUME TypeOK, BulkOnOneBranch, NEW q \in Requests, req[q].op = "storing"
  PROVE  /\ req[q].specs # << >> /\ 1 \in DOMAIN req[q].specs
         /\ \A i \in DOMAIN req[q].specs :
              /\ req[q].specs[i].ns = req[q].specs[1].ns
              /\ req[q].specs[i].branch = req[q].specs[1].branch
BY ParamsType DEF BulkOnOneBranch, InFlight

LEMMA SameRequestGoesOn ==
  ASSUME TypeOK, BulkOnOneBranch, NEW q \in Requests,
         req'[q] = req[q] \/ req'[q].op \in {"idle", "checked", "forking"}
  PROVE  GoesOn(q)
BY FirstSpec DEF GoesOn, Pending

LEMMA StoredGoesOn ==
  ASSUME TypeOK, BulkOnOneBranch, NEW r \in Requests, req[r].op = "storing", Stored(r)
  PROVE  \A q \in Requests : GoesOn(q)
<1>1. /\ req[r] \in Storing /\ req \in [Requests -> Stages]
      /\ req[r].specs \in Seq(RecordSpec) /\ req[r].specs # << >>
  BY StageOf, ParamsType DEF TypeOK, LedgerTypeOK
<1>2. ASSUME NEW q \in Requests, q # r
      PROVE  GoesOn(q)
  BY <1>1, <1>2, SameRequestGoesOn DEF Stored
<1>3. GoesOn(r)
  <2>1. CASE Len(req[r].specs) = 1
    <3>1. req'[r].op = "idle"
      BY <1>1, <2>1 DEF Stored, Idle
    <3> QED BY <3>1, SameRequestGoesOn
  <2>2. CASE Len(req[r].specs) # 1
    <3> DEFINE s == req[r].specs
    <3>1. req'[r] = [req[r] EXCEPT !.specs = Tail(s)]
      BY <1>1, <2>2 DEF Stored
    <3>2. /\ req'[r].op = req[r].op /\ req'[r].ts = req[r].ts
          /\ req'[r].tx = req[r].tx /\ req'[r].specs = Tail(s)
      BY <1>1, <3>1 DEF Storing
    <3>3. /\ Tail(s) \in Seq(RecordSpec) /\ Len(Tail(s)) = Len(s) - 1
          /\ \A i \in 1 .. Len(s) - 1 : Tail(s)[i] = s[i + 1]
      BY <1>1
    <3>4. 1 \in DOMAIN Tail(s)
      <4>1. 1 \in 1 .. Len(s) /\ Len(s) \in Nat
        BY <1>1, FirstSpec
      <4>2. DOMAIN Tail(s) = 1 .. Len(s) - 1
        BY <3>3
      <4> DEFINE n == Len(s)
      <4>3. n \in Nat /\ n >= 1 /\ n # 1 /\ DOMAIN Tail(s) = 1 .. n - 1
        BY <2>2, <4>1, <4>2
      <4> HIDE DEF n
      <4> QED BY <4>3
    <3>5. ASSUME NEW i \in DOMAIN Tail(s)
          PROVE  Tail(s)[i].ns = s[1].ns /\ Tail(s)[i].branch = s[1].branch
      <4>1. i \in 1 .. Len(s) - 1 /\ i + 1 \in DOMAIN s /\ Tail(s)[i] = s[i + 1]
        BY <1>1, <3>3
      <4> QED BY <4>1, FirstSpec
    <3>6. r \in Pending
      BY DEF Pending
    <3> QED BY <3>2, <3>4, <3>5, <3>6 DEF GoesOn
  <2> QED BY <2>1, <2>2
<1> QED BY <1>2, <1>3

\* What a step carries over: timestamps rest on identifiers, not the other way round.
Carried == TxConsistent' /\ (TimesConsistent => TimesConsistent')

\* Nothing is added to the store, and no request takes a timestamp.
LEMMA NothingAdded ==
  ASSUME TypeOK, TxConsistent,
         facts' \subseteq facts, transactions' \subseteq transactions, TxRecorded',
         \A k \in DOMAIN branches' :
           \/ branches'[k].head = NoTx
           \/ k \in DOMAIN branches /\ branches'[k].head = branches[k].head,
         nextId' = nextId, clock' \in Nat, clock' >= clock,
         \A q \in Requests : GoesOn(q)
  PROVE  Carried
<1>0. /\ nextId \in Nat \ {0} /\ clock \in Nat
      /\ \A f \in facts : f.id \in Nat /\ f.ts \in Nat
      /\ \A t \in transactions : t.id \in Nat /\ t.ts \in Nat
      /\ Pending' \subseteq Pending /\ Pending \subseteq Requests
      /\ InFlight' \subseteq InFlight /\ InFlight \subseteq Requests
      /\ \A q \in Pending : req[q].ts \in Nat /\ req[q].tx \in Nat
  <2>1. \A q \in Pending : req[q].ts \in Nat /\ req[q].tx \in Nat
    BY StageOf DEF TypeOK, Pending, Storing, Retracting
  <2>2. Pending' \subseteq Pending /\ InFlight' \subseteq InFlight
    BY DEF GoesOn, Pending, InFlight
  <2> QED
    BY <2>1, <2>2 DEF TypeOK, StoreTypeOK, LedgerTypeOK, Fact, Transaction,
       Pending, InFlight
<1>1. \A q \in Pending' : req'[q].ts = req[q].ts /\ req'[q].tx = req[q].tx
  BY <1>0 DEF GoesOn
<1>2. \A q \in InFlight' :
        /\ 1 \in DOMAIN req'[q].specs
        /\ \A i \in DOMAIN req'[q].specs :
             /\ req'[q].specs[i].ns = req[q].specs[1].ns
             /\ req'[q].specs[i].branch = req[q].specs[1].branch
  BY <1>0 DEF GoesOn, Pending, InFlight
<1>4. IdsBehind'
  BY <1>0, <1>1 DEF TxConsistent, IdsBehind, NoTx
<1>5. IdsUnique'
  BY <1>0, <1>1 DEF TxConsistent, IdsUnique
<1>6. BulkOnOneBranch'
  BY <1>2 DEF BulkOnOneBranch
<1>7. PendingApart'
  <2>1. ASSUME NEW r \in Pending', NEW t \in transactions',
               t.id = req'[r].tx
        PROVE  /\ r \in InFlight' /\ t.ts = req'[r].ts
               /\ t.ns = req'[r].specs[1].ns /\ t.branch = req'[r].specs[1].branch
    <3>1. /\ r \in InFlight /\ t.ts = req[r].ts
          /\ t.ns = req[r].specs[1].ns /\ t.branch = req[r].specs[1].branch
      BY <1>0, <1>1, <2>1 DEF TxConsistent, PendingApart
    <3>2. r \in InFlight'
      BY <1>0, <2>1, <3>1 DEF GoesOn, InFlight
    <3> QED BY <1>1, <1>2, <2>1, <3>1, <3>2
  <2>2. ASSUME NEW r \in Pending', NEW k \in DOMAIN branches',
               branches'[k].head = req'[r].tx
        PROVE  r \in InFlight' /\ k = <<req'[r].specs[1].ns, req'[r].specs[1].branch>>
    <3>1. req'[r].tx # NoTx
      BY <1>0, <1>1 DEF TxConsistent, IdsBehind, NoTx
    <3>2. k \in DOMAIN branches /\ branches[k].head = req[r].tx
      BY <1>1, <2>2, <3>1
    <3>3. r \in InFlight /\ k = <<req[r].specs[1].ns, req[r].specs[1].branch>>
      BY <1>0, <3>2 DEF TxConsistent, PendingApart
    <3>4. r \in InFlight'
      BY <1>0, <2>2, <3>3 DEF GoesOn, InFlight
    <3> QED BY <1>2, <3>3, <3>4
  <2> QED BY <2>1, <2>2 DEF PendingApart
<1>8. HeadOnBranch'
  BY <1>0 DEF TxConsistent, HeadOnBranch, IdsBehind, NoTx
<1>9. ASSUME TimesConsistent
      PROVE  TimesConsistent'
  BY <1>0, <1>1, <1>9 DEF TimesConsistent, TimesBehind, TimesUnique
<1> QED BY <1>4, <1>5, <1>6, <1>7, <1>8, <1>9 DEF TxConsistent, Carried

\* A request that was not pending takes a timestamp and a transaction id.
LEMMA TakesTimestamp ==
  ASSUME TypeOK, TxConsistent, NEW r \in Requests, r \notin Pending,
         NEW stage \in Storing \cup Retracting,
         clock' \in Nat, clock' > clock, stage.ts = clock', stage.tx = nextId, NewTx,
         req' = [req EXCEPT ![r] = stage],
         stage.op = "storing" =>
           /\ 1 \in DOMAIN stage.specs
           /\ \A i, j \in DOMAIN stage.specs :
                /\ stage.specs[i].ns = stage.specs[j].ns
                /\ stage.specs[i].branch = stage.specs[j].branch
  PROVE  Carried
<1>0. /\ nextId \in Nat \ {0} /\ nextId' = nextId + 1 /\ clock \in Nat
      /\ facts' = facts /\ transactions' = transactions /\ branches' = branches
      /\ \A f \in facts : f.id \in Nat /\ f.ts \in Nat
      /\ \A t \in transactions : t.id \in Nat /\ t.ts \in Nat
      /\ \A k \in DOMAIN branches : branches[k].head \in Nat
      /\ req'[r] = stage
      /\ \A q \in Requests : q # r => req'[q] = req[q]
  BY DEF TypeOK, StoreTypeOK, LedgerTypeOK, Fact, Transaction, BranchInfo, NewTx
<1>1. /\ Pending' \subseteq Pending \cup {r} /\ Pending \subseteq Requests
      /\ InFlight' \ {r} = InFlight \ {r}
      /\ r \in InFlight' => stage.op = "storing"
      /\ \A q \in Pending : req[q].ts \in Nat /\ req[q].tx \in Nat
  <2>1. \A q \in Pending : req[q].ts \in Nat /\ req[q].tx \in Nat
    BY StageOf DEF TypeOK, Pending, Storing, Retracting
  <2> QED BY <2>1, <1>0 DEF Pending, InFlight
<1>2. IdsBehind'
  BY <1>0, <1>1 DEF TxConsistent, IdsBehind
<1>3. IdsUnique'
  BY <1>0, <1>1 DEF TxConsistent, IdsUnique, IdsBehind
<1>4. BulkOnOneBranch'
  BY <1>0, <1>1 DEF TxConsistent, BulkOnOneBranch, InFlight
<1>5. PendingApart'
  BY <1>0, <1>1 DEF TxConsistent, PendingApart, IdsBehind
<1>6. TxRecorded' /\ HeadOnBranch'
  BY <1>0 DEF TxConsistent, TxRecorded, HeadOnBranch
<1>7. ASSUME TimesConsistent
      PROVE  TimesConsistent'
  <2>1. TimesBehind'
    BY <1>0, <1>1, <1>7 DEF TimesConsistent, TimesBehind
  <2>2. TimesUnique'
    BY <1>0, <1>1, <1>7 DEF TimesConsistent, TimesBehind, TimesUnique
  <2> QED BY <2>1, <2>2 DEF TimesConsistent
<1> QED BY <1>2, <1>3, <1>4, <1>5, <1>6, <1>7 DEF TxConsistent, Carried

SameRow(t, u) == t.id = u.id /\ t.ts = u.ts /\ t.ns = u.ns /\ t.branch = u.branch

\* Somebody writes under a transaction: facts stay in their transactions or belong to
\* this one, whose row exists afterwards.
WritesUnder(tx, ts, n, b) ==
  /\ \A q \in Pending : req[q].tx = tx =>
       /\ req[q].ts = ts
       /\ q \in InFlight => n = req[q].specs[1].ns /\ b = req[q].specs[1].branch
       /\ q \notin InFlight => q \notin Pending'
  /\ \A k \in DOMAIN branches : branches[k].head = tx => k = <<n, b>>
  /\ \A g \in facts' : g.id < nextId'
  /\ \A f, g \in facts' : f.id = g.id => f = g
  /\ \A g \in facts' :
       \/ \E f \in facts : /\ f.tx = g.tx /\ f.ts = g.ts
                           /\ f.ns = g.ns /\ f.branch = g.branch
       \/ g.tx = tx /\ g.ts = ts /\ g.ns = n /\ g.branch = b
  /\ \A t \in transactions : \E u \in transactions' : SameRow(t, u)
  /\ \A u \in transactions' :
       \/ \E t \in transactions : SameRow(t, u)
       \/ u.id = tx /\ u.ts = ts /\ u.ns = n /\ u.branch = b
  /\ \E u \in transactions' : u.id = tx /\ u.ts = ts /\ u.ns = n /\ u.branch = b
  /\ \A t, u \in transactions' : t.id = u.id => t = u
  /\ branches' = BranchesAfter(n, b, tx)

LEMMA Commits ==
  ASSUME TypeOK, TxConsistent, StoreTypeOK',
         NEW tx \in 1 .. nextId - 1, NEW ts, NEW n, NEW b,
         WritesUnder(tx, ts, n, b),
         \A q \in Requests : GoesOn(q),
         nextId' >= nextId
  PROVE  TxConsistent'
<1> USE DEF WritesUnder
<1>0. /\ nextId \in Nat \ {0} /\ nextId' \in Nat /\ tx \in Nat /\ tx < nextId
      /\ \A f \in facts' : f.id \in Nat
      /\ \A t \in transactions : t.id \in Nat
      /\ \A k \in DOMAIN branches : branches[k].head \in Nat
  BY DEF TypeOK, StoreTypeOK, Fact, Transaction, BranchInfo
<1>1. /\ Pending' \subseteq Pending /\ Pending \subseteq Requests
      /\ InFlight' \subseteq InFlight /\ InFlight \subseteq Pending
      /\ Pending' \cap InFlight \subseteq InFlight'
      /\ \A q \in Pending : req[q].tx \in Nat
      /\ \A q \in Pending' : req'[q].ts = req[q].ts /\ req'[q].tx = req[q].tx
      /\ \A q \in InFlight' :
           /\ 1 \in DOMAIN req'[q].specs
           /\ \A i \in DOMAIN req'[q].specs :
                /\ req'[q].specs[i].ns = req[q].specs[1].ns
                /\ req'[q].specs[i].branch = req[q].specs[1].branch
  <2>1. \A q \in Pending : req[q].tx \in Nat
    BY StageOf DEF TypeOK, Pending, Storing, Retracting
  <2> QED BY <2>1 DEF GoesOn, Pending, InFlight
<1>2. /\ DOMAIN branches' = DOMAIN branches
      /\ \A k \in DOMAIN branches :
           branches'[k].head = IF k = <<n, b>> THEN tx ELSE branches[k].head
  <2>1. branches \in [DOMAIN branches -> BranchInfo]
    BY DEF TypeOK, StoreTypeOK
  <2> QED BY <2>1 DEF BranchesAfter, BranchInfo
<1>3. IdsBehind'
  <2>1. \A u \in transactions' : u.id \in 1 .. nextId' - 1
    BY <1>0 DEF TxConsistent, IdsBehind, SameRow
  <2>2. \A q \in Pending' : req'[q].tx \in 1 .. nextId' - 1
    BY <1>0, <1>1 DEF TxConsistent, IdsBehind
  <2>3. \A k \in DOMAIN branches' : branches'[k].head < nextId'
    BY <1>0, <1>2 DEF TxConsistent, IdsBehind
  <2> QED BY <2>1, <2>2, <2>3 DEF IdsBehind
<1>4. IdsUnique'
  BY <1>1 DEF TxConsistent, IdsUnique
<1>5. BulkOnOneBranch'
  BY <1>1 DEF BulkOnOneBranch
<1>6. PendingApart'
  <2>1. ASSUME NEW q \in Pending', NEW u \in transactions', u.id = req'[q].tx
        PROVE  /\ q \in InFlight' /\ u.ts = req'[q].ts
               /\ u.ns = req'[q].specs[1].ns /\ u.branch = req'[q].specs[1].branch
    <3>1. CASE \E t \in transactions : SameRow(t, u)
      BY <1>1, <2>1, <3>1 DEF TxConsistent, PendingApart, SameRow
    <3>2. CASE u.id = tx /\ u.ts = ts /\ u.ns = n /\ u.branch = b
      BY <1>1, <2>1, <3>2
    <3> QED BY <3>1, <3>2
  <2>2. ASSUME NEW q \in Pending', NEW k \in DOMAIN branches',
               branches'[k].head = req'[q].tx
        PROVE  q \in InFlight' /\ k = <<req'[q].specs[1].ns, req'[q].specs[1].branch>>
    <3>1. CASE k = <<n, b>>
      BY <1>1, <1>2, <2>2, <3>1
    <3>2. CASE k # <<n, b>>
      <4>1. k \in DOMAIN branches /\ branches[k].head = req[q].tx
        BY <1>1, <1>2, <2>2, <3>2
      <4>2. q \in InFlight /\ k = <<req[q].specs[1].ns, req[q].specs[1].branch>>
        BY <1>1, <4>1 DEF TxConsistent, PendingApart
      <4>3. q \in InFlight' /\ 1 \in DOMAIN req'[q].specs
        BY <1>1, <4>2
      <4> QED BY <1>1, <4>2, <4>3
    <3> QED BY <3>1, <3>2
  <2> QED BY <2>1, <2>2 DEF PendingApart
<1>7. TxRecorded'
  BY DEF TxConsistent, TxRecorded, SameRow
<1>8. HeadOnBranch'
  <2>1. ASSUME NEW k \in DOMAIN branches', NEW u \in transactions',
               u.id = branches'[k].head
        PROVE  <<u.ns, u.branch>> = k
    <3>1. CASE k = <<n, b>>
      BY <1>2, <2>1, <3>1
    <3>2. CASE k # <<n, b>>
      <4>1. u.id = branches[k].head /\ k \in DOMAIN branches
        BY <1>2, <2>1, <3>2
      <4>2. CASE \E t \in transactions : SameRow(t, u)
        BY <4>1, <4>2 DEF TxConsistent, HeadOnBranch, SameRow
      <4>3. CASE u.id = tx
        BY <3>2, <4>1, <4>3
      <4> QED BY <4>2, <4>3
    <3> QED BY <3>1, <3>2
  <2> QED BY <2>1 DEF HeadOnBranch
<1> QED BY <1>3, <1>4, <1>5, <1>6, <1>7, <1>8 DEF TxConsistent

\* And its timestamp is one that the clock gave to this transaction alone.
LEMMA CommitsInTime ==
  ASSUME TypeOK, TimesConsistent, NEW r \in Pending,
         \A q \in Requests : GoesOn(q),
         clock' = clock,
         \A g \in facts' : (\E f \in facts : f.ts = g.ts) \/ g.ts = req[r].ts,
         \A u \in transactions' :
           \/ \E t \in transactions : SameRow(t, u)
           \/ u.id = req[r].tx /\ u.ts = req[r].ts,
         \A t, u \in transactions' : t.id = u.id => t = u
  PROVE  TimesConsistent'
<1>1. /\ Pending' \subseteq Pending
      /\ \A q \in Pending' : req'[q].ts = req[q].ts /\ req'[q].tx = req[q].tx
  BY DEF GoesOn, Pending
<1>2. TimesBehind'
  BY <1>1 DEF TimesConsistent, TimesBehind, SameRow
<1>3. ASSUME NEW t \in transactions', NEW u \in transactions', t.ts = u.ts
      PROVE  t = u
  <2>1. t.id = u.id
    BY <1>3 DEF TimesConsistent, TimesUnique, SameRow
  <2> QED BY <2>1
<1>4. ASSUME NEW q \in Pending', NEW u \in transactions', u.ts = req'[q].ts
      PROVE  u.id = req'[q].tx
  <2>1. CASE \E t \in transactions : SameRow(t, u)
    BY <1>1, <1>4, <2>1 DEF TimesConsistent, TimesUnique, SameRow
  <2>2. CASE u.id = req[r].tx /\ u.ts = req[r].ts
    <3>1. q \in Pending /\ req'[q].tx = req[q].tx /\ req[q].ts = req[r].ts
      BY <1>1, <1>4, <2>2
    <3>2. q = r
      BY <3>1 DEF TimesConsistent, TimesUnique
    <3> QED BY <2>2, <3>1, <3>2
  <2> QED BY <2>1, <2>2
<1>5. TimesUnique'
  BY <1>1, <1>3, <1>4 DEF TimesConsistent, TimesUnique
<1> QED BY <1>2, <1>5 DEF TimesConsistent

\* What a pending request knows of its transaction.
LEMMA Owns ==
  ASSUME TxConsistent, NEW r \in Pending
  PROVE  /\ req[r].tx \in 1 .. nextId - 1
         /\ \A q \in Pending : req[q].tx = req[r].tx => q = r
         /\ \A k \in DOMAIN branches : branches[k].head = req[r].tx =>
              r \in InFlight /\ k = <<req[r].specs[1].ns, req[r].specs[1].branch>>
BY DEF TxConsistent, IdsBehind, IdsUnique, PendingApart

\* The rows after a record: the row of the transaction is there, and the others are
\* as they were.
LEMMA RowsAfter ==
  ASSUME StoreTypeOK, TxConsistent, NEW p,
         \A t \in transactions : t.id = p.tx =>
           t.ts = p.ts /\ t.ns = p.ns /\ t.branch = p.branch,
         transactions' = TransactionsAfter(p)
  PROVE  /\ \A t \in transactions : \E u \in transactions' : SameRow(t, u)
         /\ \A u \in transactions' :
              \/ \E t \in transactions : SameRow(t, u)
              \/ u.id = p.tx /\ u.ts = p.ts /\ u.ns = p.ns /\ u.branch = p.branch
         /\ \E u \in transactions' :
              u.id = p.tx /\ u.ts = p.ts /\ u.ns = p.ns /\ u.branch = p.branch
         /\ \A t, u \in transactions' : t.id = u.id => t = u
<1>0. /\ transactions \subseteq Transaction
      /\ \A t, u \in transactions : t.id = u.id => t = u
  BY DEF StoreTypeOK, TxConsistent, IdsUnique
<1>1. CASE \E t \in transactions : t.id = p.tx
  <2> DEFINE Bump(t) == IF t.id = p.tx THEN [t EXCEPT !.count = @ + 1] ELSE t
  <2>1. transactions' = {Bump(t) : t \in transactions}
    BY <1>1 DEF TransactionsAfter
  <2>2. \A t \in transactions : SameRow(t, Bump(t))
    BY <1>0 DEF SameRow, Transaction
  <2> HIDE DEF Bump
  <2>3. \A t \in transactions : \E u \in transactions' : SameRow(t, u)
    BY <2>1, <2>2
  <2>4. \A u \in transactions' : \E t \in transactions : u = Bump(t) /\ SameRow(t, u)
    BY <2>1, <2>2
  <2>5. \A t, u \in transactions' : t.id = u.id => t = u
    BY <1>0, <2>4 DEF SameRow
  <2> QED BY <1>0, <1>1, <2>3, <2>4, <2>5 DEF SameRow
<1>2. CASE ~\E t \in transactions : t.id = p.tx
  <2> DEFINE row == [id |-> p.tx, ns |-> p.ns, branch |-> p.branch,
                     ts |-> p.ts, count |-> 1]
  <2>1. transactions' = transactions \cup {row}
    BY <1>2 DEF TransactionsAfter
  <2>2. row.id = p.tx /\ row.ts = p.ts /\ row.ns = p.ns /\ row.branch = p.branch
    OBVIOUS
  <2> HIDE DEF row
  <2> QED BY <1>0, <1>2, <2>1, <2>2 DEF SameRow
<1> QED BY <1>1, <1>2

LEMMA RecordNewConsistent ==
  ASSUME TypeOK, TxConsistent, NEW r \in Requests, RecordNew(r)
  PROVE  Carried
<1> DEFINE p == Params(r)
           nf == NewFact(p, nextId)
<1>0. /\ req[r].op = "storing" /\ StoreRecordNew(p) /\ Stored(r)
      /\ UNCHANGED <<clock, calls>>
  BY DEF RecordNew
<1>1. r \in Pending /\ r \in InFlight
  BY <1>0 DEF Pending, InFlight
<1>2. /\ p \in RecordParams /\ p.ts = req[r].ts /\ p.tx = req[r].tx
      /\ p.ns = req[r].specs[1].ns /\ p.branch = req[r].specs[1].branch
  BY <1>0, ParamsType DEF TxConsistent
<1>3. StoreTypeOK' /\ StoreTypeOK
  BY <1>0, <1>2, RecordKeepsType DEF TypeOK
<1>4. /\ facts' = facts \cup {nf} /\ nextId' = nextId + 1 /\ nextId \in Nat
      /\ branches' = BranchesAfter(p.ns, p.branch, p.tx)
      /\ transactions' = TransactionsAfter(p)
  BY <1>0, <1>3 DEF StoreRecordNew, StoreTypeOK
<1>5. /\ nf.id = nextId /\ nf.tx = p.tx /\ nf.ts = p.ts
      /\ nf.ns = p.ns /\ nf.branch = p.branch
  BY DEF NewFact
<1> HIDE DEF p, nf
<1>6. /\ \A g \in facts' : g.id < nextId'
      /\ \A f, g \in facts' : f.id = g.id => f = g
  <2>1. \A f \in facts : f.id \in Nat /\ f.id < nextId
    BY <1>3 DEF StoreTypeOK, Fact, TxConsistent, IdsBehind
  <2> QED BY <1>4, <1>5, <2>1 DEF TxConsistent, IdsUnique
<1>7. /\ \A t \in transactions : \E u \in transactions' : SameRow(t, u)
      /\ \A u \in transactions' :
           \/ \E t \in transactions : SameRow(t, u)
           \/ u.id = p.tx /\ u.ts = p.ts /\ u.ns = p.ns /\ u.branch = p.branch
      /\ \E u \in transactions' :
           u.id = p.tx /\ u.ts = p.ts /\ u.ns = p.ns /\ u.branch = p.branch
      /\ \A t, u \in transactions' : t.id = u.id => t = u
  <2>1. \A t \in transactions : t.id = p.tx =>
          t.ts = p.ts /\ t.ns = p.ns /\ t.branch = p.branch
    BY <1>1, <1>2 DEF TxConsistent, PendingApart
  <2> QED BY <1>3, <1>4, <2>1, RowsAfter
<1>8. \A q \in Requests : GoesOn(q)
  BY <1>0, StoredGoesOn DEF TxConsistent
<1>9. \A g \in facts' :
        \/ \E f \in facts : /\ f.tx = g.tx /\ f.ts = g.ts
                            /\ f.ns = g.ns /\ f.branch = g.branch
        \/ g.tx = p.tx /\ g.ts = p.ts /\ g.ns = p.ns /\ g.branch = p.branch
  BY <1>4, <1>5
<1>10. nextId' >= nextId /\ clock' = clock
  BY <1>0, <1>4
<1>11. /\ p.tx \in 1 .. nextId - 1
       /\ \A q \in Pending : req[q].tx = p.tx => q = r
       /\ \A k \in DOMAIN branches : branches[k].head = p.tx => k = <<p.ns, p.branch>>
  BY <1>1, <1>2, Owns
<1>12. \A q \in Pending : req[q].tx = p.tx =>
         /\ req[q].ts = p.ts
         /\ q \in InFlight => p.ns = req[q].specs[1].ns /\ p.branch = req[q].specs[1].branch
         /\ q \notin InFlight => q \notin Pending'
  BY <1>1, <1>2, <1>11
<1>13. TxConsistent'
  <2>1. WritesUnder(p.tx, p.ts, p.ns, p.branch)
    BY <1>4, <1>6, <1>7, <1>9, <1>11, <1>12 DEF WritesUnder
  <2> QED BY <1>3, <1>8, <1>10, <1>11, <2>1, Commits
<1>14. ASSUME TimesConsistent
       PROVE  TimesConsistent'
  BY <1>1, <1>2, <1>7, <1>8, <1>9, <1>10, <1>14, CommitsInTime
<1> QED BY <1>13, <1>14 DEF Carried

LEMMA RetractConsistent ==
  ASSUME TypeOK, TxConsistent, NEW r \in Requests, Retract(r)
  PROVE  Carried
<1> DEFINE p == req[r]
           row == [id |-> p.tx, ns |-> p.ns, branch |-> p.branch, ts |-> p.ts,
                   count |-> 1]
<1>0. req[r].op = "retracting" /\ StoreRetract(p.fact, p) /\ End(r)
      /\ UNCHANGED <<clock, calls>>
  BY DEF Retract
<1>1. p \in Retracting /\ StoreTypeOK
  BY <1>0, StageOf DEF TypeOK
<1>2. r \in Pending /\ r \notin InFlight
  BY <1>0 DEF Pending, InFlight
<1>3. StoreTypeOK'
  BY <1>0, <1>1, RetractKeepsType
<1>4. PICK f \in Retractable(p.fact, p) :
        /\ facts' = (facts \ {f}) \cup {Closed(f, p.ts)}
        /\ transactions' = transactions \cup {row}
        /\ branches' = BranchesAfter(p.ns, p.branch, p.tx)
        /\ nextId' = nextId
  BY <1>0 DEF StoreRetract
<1>5. f \in facts /\ f \in Fact
  BY <1>1, <1>4 DEF Retractable, StoreTypeOK
<1> DEFINE g == Closed(f, p.ts)
<1>6. /\ g.id = f.id /\ g.tx = f.tx /\ g.ts = f.ts
      /\ g.ns = f.ns /\ g.branch = f.branch
  BY <1>5 DEF Closed, Fact
<1>7. row.id = p.tx /\ row.ts = p.ts /\ row.ns = p.ns /\ row.branch = p.branch
  OBVIOUS
<1> HIDE DEF g, row
<1>8. facts' = (facts \ {f}) \cup {g} /\ transactions' = transactions \cup {row}
  BY <1>4 DEF g, row
<1>9. /\ \A h \in facts' : h.id < nextId'
      /\ \A h, k \in facts' : h.id = k.id => h = k
  BY <1>4, <1>5, <1>6, <1>8 DEF TxConsistent, IdsUnique, IdsBehind
<1>10. \A h \in facts' : \E k \in facts : /\ k.tx = h.tx /\ k.ts = h.ts
                                         /\ k.ns = h.ns /\ k.branch = h.branch
  BY <1>5, <1>6, <1>8
<1>11. /\ \A t \in transactions : \E u \in transactions' : SameRow(t, u)
       /\ \A u \in transactions' :
            \/ \E t \in transactions : SameRow(t, u)
            \/ u.id = p.tx /\ u.ts = p.ts /\ u.ns = p.ns /\ u.branch = p.branch
       /\ \E u \in transactions' :
            u.id = p.tx /\ u.ts = p.ts /\ u.ns = p.ns /\ u.branch = p.branch
  BY <1>7, <1>8 DEF SameRow
<1>12. \A t, u \in transactions' : t.id = u.id => t = u
  <2>1. \A t \in transactions : t.id # p.tx
    BY <1>2 DEF TxConsistent, PendingApart
  <2> QED BY <1>7, <1>8, <2>1 DEF TxConsistent, IdsUnique
<1>13. req'[r] = Idle /\ \A q \in Requests : q # r => req'[q] = req[q]
  BY <1>0 DEF End, TypeOK, LedgerTypeOK
<1>14. \A q \in Requests : GoesOn(q)
  BY <1>13, SameRequestGoesOn DEF TxConsistent, Idle
<1>15. r \notin Pending'
  BY <1>13 DEF Pending, Idle
<1>16. nextId' >= nextId /\ clock' = clock
  BY <1>0, <1>1, <1>4 DEF StoreTypeOK
<1>17. /\ p.tx \in 1 .. nextId - 1
       /\ \A q \in Pending : req[q].tx = p.tx => q = r
       /\ \A k \in DOMAIN branches : branches[k].head # p.tx
  BY <1>2, Owns
<1>18. TxConsistent'
  <2>1. WritesUnder(p.tx, p.ts, p.ns, p.branch)
    <3>1. \A h \in facts' :
            \/ \E k \in facts : /\ k.tx = h.tx /\ k.ts = h.ts
                                /\ k.ns = h.ns /\ k.branch = h.branch
            \/ h.tx = p.tx /\ h.ts = p.ts /\ h.ns = p.ns /\ h.branch = p.branch
      BY <1>10
    <3> QED BY <1>2, <1>4, <1>9, <1>11, <1>12, <1>15, <1>17, <3>1 DEF WritesUnder
  <2> QED BY <1>3, <1>14, <1>16, <1>17, <2>1, Commits
<1>19. ASSUME TimesConsistent
       PROVE  TimesConsistent'
  BY <1>2, <1>10, <1>11, <1>12, <1>14, <1>16, <1>19, CommitsInTime
<1> QED BY <1>18, <1>19 DEF Carried

LEMMA StepConsistent ==
  ASSUME TypeOK, TxConsistent, TypeOK', NEW r \in Requests, Step(r)
  PROVE  Carried
<1>0. BulkOnOneBranch /\ req \in [Requests -> Stages] /\ clock \in Nat /\ clock' \in Nat
      /\ nextId \in Nat /\ TxRecorded
  BY DEF TxConsistent, TypeOK, LedgerTypeOK, StoreTypeOK
<1>1. CASE TickRecord(r)
  <2>1. PICK ts \in Times :
          /\ Tick(ts)
          /\ req' = [req EXCEPT ![r] = [op |-> "storing", specs |-> <<req[r].spec>>,
                                        ts |-> ts, tx |-> nextId]]
    BY <1>1 DEF TickRecord
  <2> DEFINE stage == [op |-> "storing", specs |-> <<req[r].spec>>,
                       ts |-> ts, tx |-> nextId]
  <2>2. ts \in Nat /\ clock' = ts /\ clock' > clock
    BY <2>1, TickType DEF Tick
  <2>3. req[r].spec \in RecordSpec
    BY <1>1, StageOf DEF TypeOK, TickRecord, Checked
  <2>4. stage \in Storing
    BY <1>0, <2>2, <2>3 DEF Storing
  <2>5. r \notin Pending /\ NewTx
    BY <1>1 DEF TickRecord, Pending
  <2>6. /\ stage.op = "storing" /\ stage.ts = clock' /\ stage.tx = nextId
        /\ 1 \in DOMAIN stage.specs
        /\ \A i, j \in DOMAIN stage.specs : stage.specs[i] = stage.specs[j]
    BY <2>2
  <2>7. req' = [req EXCEPT ![r] = stage]
    BY <2>1
  <2> HIDE DEF stage
  <2> QED BY <1>0, <2>2, <2>4, <2>5, <2>6, <2>7, TakesTimestamp
<1>2. CASE RecordNew(r)
  BY <1>2, RecordNewConsistent
<1>3. CASE RecordDuplicate(r)
  <2>1. \A q \in Requests : GoesOn(q)
    BY <1>0, <1>3, StoredGoesOn DEF RecordDuplicate
  <2>2. UNCHANGED <<facts, transactions, branches, nextId, clock>>
    BY <1>3 DEF RecordDuplicate, StoreRecordDuplicate, store
  <2> QED BY <1>0, <2>1, <2>2, NothingAdded DEF TxRecorded
<1>4. CASE Retract(r)
  BY <1>4, RetractConsistent
<1>5. CASE RetractNotFound(r) \/ ForkRejected(r)
  <2>1. \A q \in Requests : req'[q] = req[q] \/ req'[q].op = "idle"
    BY <1>0, <1>5 DEF RetractNotFound, ForkRejected, End, Idle
  <2>2. UNCHANGED <<facts, transactions, branches, nextId, clock>>
    BY <1>5 DEF RetractNotFound, ForkRejected, store
  <2> QED BY <1>0, <2>1, <2>2, NothingAdded, SameRequestGoesOn DEF TxRecorded
<1>6. CASE Fork(r)
  <2>1. \A q \in Requests : req'[q] = req[q] \/ req'[q].op = "idle"
    BY <1>0, <1>6 DEF Fork, End, Idle
  <2>2. UNCHANGED <<facts, transactions, nextId, clock>>
    BY <1>6 DEF Fork, StoreCreateBranch
  <2>3. \A k \in DOMAIN branches' :
          \/ branches'[k].head = NoTx
          \/ k \in DOMAIN branches /\ branches'[k].head = branches[k].head
    BY <1>6 DEF Fork, StoreCreateBranch, With
  <2> QED BY <1>0, <2>1, <2>2, <2>3, NothingAdded, SameRequestGoesOn DEF TxRecorded
<1> QED BY <1>1, <1>2, <1>3, <1>4, <1>5, <1>6 DEF Step

LEMMA CallConsistent ==
  ASSUME TypeOK, TxConsistent, NEW r \in Requests, Call(r)
  PROVE  Carried
<1>0. /\ BulkOnOneBranch /\ TxRecorded
      /\ req \in [Requests -> Stages] /\ clock \in Nat /\ nextId \in Nat
  BY DEF TxConsistent, TypeOK, LedgerTypeOK, StoreTypeOK
<1>1. ASSUME NEW spec \in RecordSpec, CallRecord(r, spec)
      PROVE  Carried
  <2>1. \A q \in Requests : req'[q] = req[q] \/ req'[q].op = "checked"
    BY <1>0, <1>1 DEF CallRecord, Begin
  <2>2. UNCHANGED <<facts, transactions, branches, nextId, clock>>
    BY <1>1 DEF CallRecord, store
  <2> QED BY <1>0, <2>1, <2>2, NothingAdded, SameRequestGoesOn DEF TxRecorded
<1>2. ASSUME NEW specs \in Bulks, CallBulk(r, specs)
      PROVE  Carried
  <2>1. PICK ts \in Times :
          /\ Tick(ts)
          /\ Begin(r, [op |-> "storing", specs |-> specs, ts |-> ts, tx |-> nextId])
    BY <1>2 DEF CallBulk
  <2> DEFINE stage == [op |-> "storing", specs |-> specs, ts |-> ts, tx |-> nextId]
  <2>2. ts \in Nat /\ clock' = ts /\ clock' > clock
    BY <2>1, TickType DEF Tick
  <2>3. specs \in Seq(RecordSpec) /\ 1 \in DOMAIN specs
    BY BulksAreSequences
  <2>4. stage \in Storing
    BY <1>0, <2>2, <2>3 DEF Storing
  <2>5. r \notin Pending /\ NewTx /\ req' = [req EXCEPT ![r] = stage]
    <3>1. req[r] = Idle /\ req' = [req EXCEPT ![r] = stage]
      BY <2>1 DEF Begin
    <3>2. req[r].op = "idle"
      BY <3>1 DEF Idle
    <3>3. r \notin Pending
      BY <3>2 DEF Pending
    <3> QED BY <1>2, <3>1, <3>3 DEF CallBulk
  <2>6. /\ stage.ts = clock' /\ stage.tx = nextId
        /\ 1 \in DOMAIN stage.specs
        /\ \A i, j \in DOMAIN stage.specs :
             /\ stage.specs[i].ns = stage.specs[j].ns
             /\ stage.specs[i].branch = stage.specs[j].branch
    BY <1>2, <2>2, <2>3 DEF CallBulk
  <2> HIDE DEF stage
  <2> QED BY <1>0, <2>2, <2>4, <2>5, <2>6, TakesTimestamp
<1>3. ASSUME NEW id \in Nat, NEW n \in Namespaces, NEW b \in Branches,
             CallRetract(r, id, n, b)
      PROVE  Carried
  <2>1. PICK ts \in Times :
          /\ Tick(ts)
          /\ Begin(r, [op |-> "retracting", fact |-> id, ns |-> n,
                       branch |-> b, ts |-> ts, tx |-> nextId])
    BY <1>3 DEF CallRetract
  <2> DEFINE stage == [op |-> "retracting", fact |-> id, ns |-> n,
                       branch |-> b, ts |-> ts, tx |-> nextId]
  <2>2. ts \in Nat /\ clock' = ts /\ clock' > clock
    BY <2>1, TickType DEF Tick
  <2>3. stage \in Retracting
    BY <1>0, <2>2 DEF Retracting
  <2>4. r \notin Pending /\ NewTx /\ req' = [req EXCEPT ![r] = stage]
    <3>1. req[r] = Idle /\ req' = [req EXCEPT ![r] = stage]
      BY <2>1 DEF Begin
    <3>2. req[r].op = "idle"
      BY <3>1 DEF Idle
    <3>3. r \notin Pending
      BY <3>2 DEF Pending
    <3> QED BY <1>3, <3>1, <3>3 DEF CallRetract
  <2>5. stage.ts = clock' /\ stage.tx = nextId /\ stage.op # "storing"
    BY <2>2
  <2> HIDE DEF stage
  <2> QED BY <1>0, <2>2, <2>3, <2>4, <2>5, TakesTimestamp
<1>4. ASSUME NEW n \in Namespaces, NEW b \in Branches, NEW parent \in Branches,
             CallFork(r, n, b, parent)
      PROVE  Carried
  <2>1. PICK ts \in Times :
          /\ Tick(ts)
          /\ Begin(r, [op |-> "forking", ns |-> n, branch |-> b,
                       parent |-> parent, ts |-> ts])
    BY <1>4 DEF CallFork
  <2>2. clock' \in Nat /\ clock' >= clock
    BY <1>0, <2>1, TickType DEF Tick
  <2>3. \A q \in Requests : req'[q] = req[q] \/ req'[q].op = "forking"
    BY <1>0, <2>1 DEF Begin
  <2>4. UNCHANGED <<facts, transactions, branches, nextId>>
    BY <1>4 DEF CallFork, store
  <2> QED BY <1>0, <2>2, <2>3, <2>4, NothingAdded, SameRequestGoesOn DEF TxRecorded
<1> QED BY <1>1, <1>2, <1>3, <1>4 DEF Call

LEMMA AdministerConsistent ==
  ASSUME TypeOK, TxConsistent, Administer
  PROVE  Carried
<1>0. /\ TxRecorded /\ BulkOnOneBranch /\ clock \in Nat
      /\ UNCHANGED <<clock, req, nextId>>
  BY DEF TxConsistent, TypeOK, LedgerTypeOK, Administer, OneStep,
     DeleteBranch, StoreDeleteBranch, CreateNamespace, StoreCreateNamespace,
     Gc, StoreGc, PutTag, StorePutTag, DeleteTag, StoreDeleteTag
<1>1. \A q \in Requests : GoesOn(q)
  BY <1>0, SameRequestGoesOn
<1>2. ASSUME NEW n, NEW b, DeleteBranch(n, b)
      PROVE  Carried
  <2>1. /\ UNCHANGED <<facts, transactions>>
        /\ \A k \in DOMAIN branches' :
             k \in DOMAIN branches /\ branches'[k].head = branches[k].head
    BY <1>2 DEF DeleteBranch, StoreDeleteBranch, Without
  <2> QED BY <1>0, <1>1, <2>1, NothingAdded DEF TxRecorded
<1>3. ASSUME NEW n, NEW info, CreateNamespace(n, info)
      PROVE  Carried
  <2>1. /\ UNCHANGED <<facts, transactions>>
        /\ \A k \in DOMAIN branches' :
             \/ branches'[k].head = NoTx
             \/ k \in DOMAIN branches /\ branches'[k].head = branches[k].head
    BY <1>3 DEF CreateNamespace, StoreCreateNamespace, With, Root
  <2> QED BY <1>0, <1>1, <2>1, NothingAdded DEF TxRecorded
<1>4. ASSUME NEW before, NEW scope, Gc(before, scope)
      PROVE  Carried
  <2>1. /\ facts' \subseteq facts /\ UNCHANGED branches
        /\ transactions' = {t \in transactions : \E f \in facts' : f.tx = t.id}
    BY <1>4 DEF Gc, StoreGc
  <2>2. TxRecorded'
    BY <1>0, <2>1 DEF TxRecorded
  <2> QED BY <1>0, <1>1, <2>1, <2>2, NothingAdded
<1>5. ASSUME UNCHANGED <<facts, transactions, branches>>
      PROVE  Carried
  BY <1>0, <1>1, <1>5, NothingAdded DEF TxRecorded
<1> QED
  BY <1>2, <1>3, <1>4, <1>5 DEF Administer, PutTag, StorePutTag, DeleteTag, StoreDeleteTag

LEMMA InitConsistent == Init => TypeOK /\ Consistent
<1> SUFFICES ASSUME StoreInit, clock = 0, req = [r \in Requests |-> Idle],
                    calls = 0, replies = {}
             PROVE  TypeOK /\ Consistent
  BY DEF Init
<1>1. StoreTypeOK
  <2>1. /\ DefaultNs \in Namespaces /\ <<DefaultNs, Main>> \in BranchKeys
        /\ Root \in BranchInfo
        /\ DefaultInfo \in NamespaceInfo
    BY NamesAssumption, PoliciesAssumption
       DEF BranchKeys, BranchInfo, Root, NoTx, NamespaceInfo, DefaultInfo
  <2>2. /\ DOMAIN branches \subseteq BranchKeys
        /\ branches \in [DOMAIN branches -> BranchInfo]
    BY <2>1 DEF StoreInit
  <2>3. /\ DOMAIN namespaces \subseteq Namespaces
        /\ namespaces \in [DOMAIN namespaces -> NamespaceInfo]
    BY <2>1 DEF StoreInit
  <2> QED BY <2>2, <2>3 DEF StoreInit, StoreTypeOK
<1>2. LedgerTypeOK
  BY DEF LedgerTypeOK, Stages
<1>3. Pending = {} /\ InFlight = {}
  BY DEF Pending, InFlight, Idle
<1>4. facts = {} /\ transactions = {} /\ nextId = 1
      /\ \A k \in DOMAIN branches : branches[k].head = 0
  BY DEF StoreInit, Root, NoTx
<1>5. IdsBehind /\ IdsUnique /\ BulkOnOneBranch /\ PendingApart
  BY <1>3, <1>4 DEF IdsBehind, IdsUnique, BulkOnOneBranch, PendingApart
<1>6. TxRecorded /\ HeadOnBranch
  BY <1>4 DEF TxRecorded, HeadOnBranch
<1>7. TimesConsistent
  BY <1>3, <1>4 DEF TimesConsistent, TimesBehind, TimesUnique
<1> QED BY <1>1, <1>2, <1>5, <1>6, <1>7 DEF TypeOK, TxConsistent, Consistent

LEMMA CarriedStep ==
  ASSUME TypeOK, TxConsistent, [Next]_vars
  PROVE  TypeOK' /\ Carried
<1>1. TypeOK'
  BY TypeStep DEF TxConsistent
<1>2. CASE UNCHANGED vars
  <2>1. /\ UNCHANGED <<facts, transactions, branches, nextId, clock>>
        /\ \A q \in Requests : req'[q] = req[q]
    BY <1>2 DEF vars, store, ledger
  <2>2. BulkOnOneBranch /\ TxRecorded /\ clock \in Nat
    BY DEF TxConsistent, TypeOK, LedgerTypeOK
  <2>3. \A q \in Requests : GoesOn(q)
    BY <2>1, <2>2, SameRequestGoesOn
  <2>4. TxRecorded' /\ clock' \in Nat /\ clock' >= clock
    BY <2>1, <2>2 DEF TxRecorded
  <2>5. /\ facts' \subseteq facts /\ transactions' \subseteq transactions
        /\ nextId' = nextId
        /\ \A k \in DOMAIN branches' :
             k \in DOMAIN branches /\ branches'[k].head = branches[k].head
    BY <2>1
  <2> QED BY <1>1, <2>3, <2>4, <2>5, NothingAdded
<1> QED
  BY <1>1, <1>2, AdministerConsistent, CallConsistent, StepConsistent DEF Next

LEMMA ConsistentStep == TypeOK /\ Consistent /\ [Next]_vars => TypeOK' /\ Consistent'
BY CarriedStep DEF Consistent, Carried

LEMMA Inductive == Spec => [](TypeOK /\ Consistent)
<1>1. Init => TypeOK /\ Consistent
  BY InitConsistent
<1>2. TypeOK /\ Consistent /\ [Next]_vars => (TypeOK /\ Consistent)'
  BY ConsistentStep
<1> QED BY <1>1, <1>2, PTL DEF Spec

-----------------------------------------------------------------------------
(* What holds always                                                       *)

\* Every variable keeps its type, whatever requests and administrators do.
THEOREM TypeCorrect == Spec => []TypeOK
BY Inductive, PTL

\* The inductive invariant itself: what pending requests hold is behind the
\* clock and the id generator, is theirs alone, and agrees with the store.
THEOREM ConsistentAlways == Spec => []Consistent
BY Inductive, PTL

\* No stored fact ever lacks its transaction: neither a gc in the middle of
\* a bulk nor a retraction that races with it leaves one behind.
THEOREM TxRecordedAlways == Spec => []TxRecorded
<1>1. Consistent => TxRecorded
  BY DEF Consistent, TxConsistent
<1> QED BY <1>1, Inductive, PTL

\* A branch never has a head that was written to another branch, although the
\* store sets heads by name and branches come and go.
THEOREM HeadOnBranchAlways == Spec => []HeadOnBranch
<1>1. Consistent => HeadOnBranch
  BY DEF Consistent, TxConsistent
<1> QED BY <1>1, Inductive, PTL

\* Timestamps identify transactions and are never ahead of the clock, although
\* they are committed in any order.
THEOREM TimestampsAlways == Spec => []Timestamps
<1>1. Consistent => Timestamps
  BY DEF Consistent, TxConsistent, IdsUnique, TimesConsistent, TimesBehind, TimesUnique,
     Timestamps
<1> QED BY <1>1, Inductive, PTL

-----------------------------------------------------------------------------
(* What no step does to a fact                                             *)

\* No step of any request or administrator changes a fact except by retracting
\* it once, and none removes a fact that has not been retracted.
THEOREM FactsPermanentAlways == Spec => FactsPermanent
<1> DEFINE Kept ==
      \A f \in facts :
        \/ f \in facts'
        \/ f.retracted /\ \A g \in facts' : g.id # f.id
        \/ ~f.retracted /\ \E g \in facts' :
             /\ g.retracted
             /\ g = [f EXCEPT !.retracted = TRUE, !.to = g.to]
<1>1. ASSUME TypeOK, Consistent, [Next]_vars
      PROVE  Kept
  <2>1. CASE facts \subseteq facts'
    BY <2>1
  <2>2. ASSUME NEW r \in Requests, Retract(r)
        PROVE  Kept
    <3>1. PICK h \in Retractable(req[r].fact, req[r]) :
            facts' = (facts \ {h}) \cup {Closed(h, req[r].ts)}
      BY <2>2 DEF Retract, StoreRetract
    <3>2. h \in Fact /\ ~h.retracted
      BY <1>1, <3>1 DEF Retractable, TypeOK, StoreTypeOK
    <3> DEFINE g == Closed(h, req[r].ts)
    <3>3. g.retracted /\ g = [h EXCEPT !.retracted = TRUE, !.to = g.to]
      BY <3>2 DEF Closed, Fact
    <3> HIDE DEF g
    <3>4. g \in facts' /\ \A f \in facts : f # h => f \in facts'
      BY <3>1 DEF g
    <3> QED BY <3>2, <3>3, <3>4
  <2>3. ASSUME NEW before, NEW scope, Gc(before, scope)
        PROVE  Kept
    <3>1. facts' = facts \ Purgeable(before, scope)
      BY <2>3 DEF Gc, StoreGc
    <3>2. \A f \in Purgeable(before, scope) : f.retracted
      BY DEF Purgeable
    <3>3. \A f, g \in facts : f.id = g.id => f = g
      BY <1>1 DEF Consistent, TxConsistent, IdsUnique
    <3> QED BY <3>1, <3>2, <3>3
  <2>4. ASSUME NEW r \in Requests, Step(r), ~Retract(r)
        PROVE  facts \subseteq facts'
    BY <2>4 DEF Step, TickRecord, NewTx, RecordNew, StoreRecordNew, RecordDuplicate,
       StoreRecordDuplicate, RetractNotFound, Fork, StoreCreateBranch, ForkRejected, store
  <2>5. ASSUME NEW r \in Requests, Call(r)
        PROVE  facts \subseteq facts'
    BY <2>5 DEF Call, CallRecord, CallBulk, CallRetract, CallFork, NewTx, store
  <2>6. ASSUME Administer
        PROVE  facts \subseteq facts' \/ \E before, scope : Gc(before, scope)
    BY <2>6 DEF Administer, DeleteBranch, StoreDeleteBranch, CreateNamespace,
       StoreCreateNamespace, PutTag, StorePutTag, DeleteTag, StoreDeleteTag
  <2>7. ASSUME UNCHANGED vars
        PROVE  facts \subseteq facts'
    BY <2>7 DEF vars, store
  <2> QED BY <1>1, <2>1, <2>2, <2>3, <2>4, <2>5, <2>6, <2>7 DEF Next
<1>2. TypeOK /\ Consistent /\ [Next]_vars => [Kept]_vars
  BY <1>1
<1> QED BY <1>2, Inductive, PTL DEF Spec, FactsPermanent

LEMMA MillisBelowTicks ==
  ASSUME NEW ts \in Nat
  PROVE  Millis(ts) <= ts
<1> DEFINE ms == ts \div TicksPerMs
<1>1. TicksPerMs \in Nat \ {0}
  BY TicksPerMsAssumption
<1>2. ms \in Nat /\ TicksPerMs * ms <= ts
  BY <1>1
<1> HIDE DEF ms
<1>3. ms <= TicksPerMs * ms
  BY <1>1, <1>2
<1>4. TicksPerMs * ms \in Nat
  BY <1>1, <1>2
<1>5. ms <= ts
  BY <1>2, <1>3, <1>4
<1> QED BY <1>5 DEF Millis, ms

\* Although gc compares milliseconds with ticks it errs on the safe side: it never
\* purges a fact that is live, or as young as the cutoff.
THEOREM GcSparesYoungAlways == Spec => GcSparesYoung
<1> DEFINE Spares ==
      \A before \in Cutoffs, scope \in Branches \cup {None} :
        Gc(before, scope) =>
          \A f \in facts \ facts' : f.retracted /\ Millis(f.ts) < before
<1>1. ASSUME TypeOK, NEW before \in Cutoffs, NEW scope, Gc(before, scope),
             NEW f \in facts \ facts'
      PROVE  f.retracted /\ Millis(f.ts) < before
  <2>1. f \in Purgeable(before, scope)
    BY <1>1 DEF Gc, StoreGc
  <2>2. f.retracted /\ f.ts < before /\ before \in Nat
    BY <2>1, LedgerAssumption DEF Purgeable
  <2>3. f.ts \in Nat
    BY <1>1 DEF TypeOK, StoreTypeOK, Fact
  <2>4. Millis(f.ts) \in Nat /\ Millis(f.ts) <= f.ts
    BY <2>3, MillisBelowTicks, TicksPerMsAssumption DEF Millis
  <2> QED BY <2>2, <2>3, <2>4
<1>2. TypeOK => Spares
  BY <1>1
<1>3. TypeOK /\ [Next]_vars => [Spares]_vars
  BY <1>2
<1> QED BY <1>3, Inductive, PTL DEF Spec, GcSparesYoung

-----------------------------------------------------------------------------
(* Retries and roots                                                       *)

\* Every answer given for a key is the one the store still has for it.
RepliesCached ==
  \A a \in replies : /\ a.key \in DOMAIN idem_cache
                     /\ idem_cache[a.key] = [fact |-> a.fact, tx |-> a.tx]

LEMMA RepliesCachedStep ==
  ASSUME TypeOK, Consistent, RepliesCached, [Next]_vars
  PROVE  RepliesCached'
<1>1. CASE UNCHANGED <<replies, idem_cache>>
  BY <1>1 DEF RepliesCached
<1>2. ASSUME NEW r \in Requests, RecordNew(r)
      PROVE  RepliesCached'
  <2> DEFINE p == Params(r)
  <2>1. /\ p.idem \notin DOMAIN idem_cache /\ p.tx = req[r].tx
        /\ idem_cache' = IF p.idem = None THEN idem_cache
                         ELSE With(idem_cache, p.idem, [fact |-> nextId, tx |-> p.tx])
        /\ replies' = replies \cup
             {[key |-> k, fact |-> nextId, tx |-> req[r].tx] : k \in {p.idem} \ {None}}
    BY <1>2 DEF RecordNew, StoreRecordNew, IsDuplicate, Reply, Params
  <2> HIDE DEF p
  <2>2. CASE p.idem = None
    BY <2>1, <2>2 DEF RepliesCached
  <2>3. CASE p.idem # None
    <3>1. replies' = replies \cup {[key |-> p.idem, fact |-> nextId, tx |-> p.tx]}
      BY <2>1, <2>3
    <3>2. /\ DOMAIN idem_cache' = DOMAIN idem_cache \cup {p.idem}
          /\ idem_cache'[p.idem] = [fact |-> nextId, tx |-> p.tx]
          /\ \A k \in DOMAIN idem_cache : idem_cache'[k] = idem_cache[k]
      BY <2>1, <2>3 DEF With
    <3>3. ASSUME NEW a \in replies'
          PROVE  /\ a.key \in DOMAIN idem_cache'
                 /\ idem_cache'[a.key] = [fact |-> a.fact, tx |-> a.tx]
      <4>1. CASE a \in replies
        BY <3>2, <4>1 DEF RepliesCached
      <4>2. CASE a = [key |-> p.idem, fact |-> nextId, tx |-> p.tx]
        <5>1. a.key = p.idem /\ a.fact = nextId /\ a.tx = p.tx
          BY <4>2
        <5> QED BY <3>2, <5>1
      <4> QED BY <3>1, <4>1, <4>2
    <3> QED BY <3>3 DEF RepliesCached
  <2> QED BY <2>2, <2>3
<1>3. ASSUME NEW r \in Requests, RecordDuplicate(r)
      PROVE  RepliesCached'
  <2> DEFINE k == Params(r).idem
  <2>1. /\ k \in DOMAIN idem_cache /\ idem_cache' = idem_cache
        /\ replies' \subseteq replies \cup
             {[key |-> k, fact |-> idem_cache[k].fact, tx |-> idem_cache[k].tx]}
    BY <1>3 DEF RecordDuplicate, StoreRecordDuplicate, IsDuplicate, Reply, store
  <2> HIDE DEF k
  <2>2. idem_cache[k] \in [fact : Nat, tx : Nat]
    BY <2>1 DEF TypeOK, StoreTypeOK
  <2>3. [fact |-> idem_cache[k].fact, tx |-> idem_cache[k].tx] = idem_cache[k]
    BY <2>2
  <2>4. ASSUME NEW a \in replies'
        PROVE  /\ a.key \in DOMAIN idem_cache
               /\ idem_cache[a.key] = [fact |-> a.fact, tx |-> a.tx]
    <3>1. CASE a \in replies
      BY <3>1 DEF RepliesCached
    <3>2. CASE a = [key |-> k, fact |-> idem_cache[k].fact, tx |-> idem_cache[k].tx]
      <4>1. a.key = k /\ a.fact = idem_cache[k].fact /\ a.tx = idem_cache[k].tx
        BY <3>2
      <4> QED BY <2>1, <2>3, <4>1
    <3> QED BY <2>1, <3>1, <3>2
  <2> QED BY <2>1, <2>4 DEF RepliesCached
<1>4. ASSUME NEW r \in Requests, Step(r), ~RecordNew(r), ~RecordDuplicate(r)
      PROVE  UNCHANGED <<replies, idem_cache>>
  BY <1>4 DEF Step, TickRecord, NewTx, Retract, StoreRetract, RetractNotFound, Fork,
     StoreCreateBranch, ForkRejected, store
<1>5. ASSUME NEW r \in Requests, Call(r)
      PROVE  UNCHANGED <<replies, idem_cache>>
  BY <1>5 DEF Call, CallRecord, CallBulk, CallRetract, CallFork, NewTx, store
<1>6. ASSUME Administer
      PROVE  UNCHANGED <<replies, idem_cache>>
  BY <1>6 DEF Administer, OneStep, DeleteBranch, StoreDeleteBranch, CreateNamespace,
     StoreCreateNamespace, Gc, StoreGc, PutTag, StorePutTag, DeleteTag, StoreDeleteTag
<1>7. ASSUME UNCHANGED vars
      PROVE  UNCHANGED <<replies, idem_cache>>
  BY <1>7 DEF vars, store, ledger
<1> QED BY <1>1, <1>2, <1>3, <1>4, <1>5, <1>6, <1>7 DEF Next

\* Whatever else happens between a call and its retries, they are all
\* answered with the same fact and transaction.
THEOREM RetrySafeAlways == Spec => []RetrySafe
<1>1. Init => RepliesCached
  BY DEF Init, RepliesCached
<1>2. TypeOK /\ Consistent /\ RepliesCached /\ [Next]_vars => RepliesCached'
  BY RepliesCachedStep
<1>3. TypeOK /\ RepliesCached => RetrySafe
  <2> SUFFICES ASSUME TypeOK, RepliesCached, NEW a \in replies, NEW b \in replies,
                      a.key = b.key
               PROVE  a = b
    BY DEF RetrySafe
  <2>1. [fact |-> a.fact, tx |-> a.tx] = [fact |-> b.fact, tx |-> b.tx]
    BY DEF RepliesCached
  <2>2. a.fact = b.fact /\ a.tx = b.tx
    BY <2>1
  <2>3. a \in [key : IdemKeys, fact : Nat, tx : Nat] /\ b \in [key : IdemKeys, fact : Nat, tx : Nat]
    BY DEF TypeOK, LedgerTypeOK
  <2> QED BY <2>2, <2>3
<1> QED BY <1>1, <1>2, <1>3, Inductive, PTL DEF Spec

LEMMA RootsKeptStep ==
  ASSUME TypeOK, RootsKept, [Next]_vars
  PROVE  RootsKept'
<1>1. CASE UNCHANGED <<namespaces, branches>>
  BY <1>1 DEF RootsKept
<1>2. ASSUME UNCHANGED namespaces, DOMAIN branches \subseteq DOMAIN branches',
             \A k \in DOMAIN branches : branches'[k].parent = branches[k].parent
      PROVE  RootsKept'
  BY <1>2 DEF RootsKept
<1>3. ASSUME NEW n, NEW b, NEW tx
      PROVE  /\ DOMAIN BranchesAfter(n, b, tx) = DOMAIN branches
             /\ \A k \in DOMAIN branches :
                  BranchesAfter(n, b, tx)[k].parent = branches[k].parent
  <2>1. branches \in [DOMAIN branches -> BranchInfo]
    BY DEF TypeOK, StoreTypeOK
  <2> QED BY <2>1 DEF BranchesAfter, BranchInfo
<1>4. ASSUME NEW r \in Requests, RecordNew(r) \/ Retract(r)
      PROVE  RootsKept'
  BY <1>2, <1>3, <1>4 DEF RecordNew, StoreRecordNew, Retract, StoreRetract
<1>5. ASSUME NEW r \in Requests, Fork(r)
      PROVE  RootsKept'
  BY <1>2, <1>5 DEF Fork, StoreCreateBranch, CanFork, With
<1>6. ASSUME NEW n, NEW b, DeleteBranch(n, b)
      PROVE  RootsKept'
  BY <1>6 DEF DeleteBranch, StoreDeleteBranch, Without, RootsKept
<1>7. ASSUME NEW n, NEW info, CreateNamespace(n, info)
      PROVE  RootsKept'
  BY <1>7 DEF CreateNamespace, StoreCreateNamespace, With, Root, RootsKept
<1>8. ASSUME NEW r \in Requests, Step(r), ~RecordNew(r), ~Retract(r), ~Fork(r)
      PROVE  UNCHANGED <<namespaces, branches>>
  BY <1>8 DEF Step, TickRecord, NewTx, RecordDuplicate, StoreRecordDuplicate,
     RetractNotFound, ForkRejected, store
<1>9. ASSUME NEW r \in Requests, Call(r)
      PROVE  UNCHANGED <<namespaces, branches>>
  BY <1>9 DEF Call, CallRecord, CallBulk, CallRetract, CallFork, NewTx, store
<1>10. ASSUME Administer
       PROVE  \/ UNCHANGED <<namespaces, branches>>
              \/ \E n, b : DeleteBranch(n, b)
              \/ \E n, info : CreateNamespace(n, info)
  BY <1>10 DEF Administer, Gc, StoreGc, PutTag, StorePutTag, DeleteTag, StoreDeleteTag
<1>11. ASSUME UNCHANGED vars
       PROVE  UNCHANGED <<namespaces, branches>>
  BY <1>11 DEF vars, store
<1> QED BY <1>1, <1>4, <1>5, <1>6, <1>7, <1>8, <1>9, <1>10, <1>11 DEF Next

\* Every namespace has its main branch, as a root, from its creation on: no
\* sequence of forks and deletions takes it away.
THEOREM RootsKeptAlways == Spec => []RootsKept
<1>1. Init => RootsKept
  BY DEF Init, StoreInit, RootsKept, Root
<1>2. TypeOK /\ RootsKept /\ [Next]_vars => RootsKept'
  BY RootsKeptStep
<1> QED BY <1>1, <1>2, Inductive, PTL DEF Spec

-----------------------------------------------------------------------------
(* Finite sets                                                             *)

LEMMA SizeIsNat ==
  ASSUME NEW S, IsFiniteSet(S)
  PROVE  Cardinality(S) \in Nat
BY FS_CardinalityType

LEMMA OneMore ==
  ASSUME NEW S, NEW x, IsFiniteSet(S)
  PROVE  /\ IsFiniteSet(S \cup {x})
         /\ Cardinality(S \cup {x}) \in Nat /\ Cardinality(S) \in Nat
         /\ Cardinality(S \cup {x}) <= Cardinality(S) + 1
<1> DEFINE T == S \cup {x}
<1>1. IsFiniteSet(T) /\ Cardinality(T) = IF x \in S THEN Cardinality(S) ELSE Cardinality(S) + 1
  BY FS_AddElement
<1> HIDE DEF T
<1>2. Cardinality(S) \in Nat
  BY SizeIsNat
<1>3. Cardinality(T) \in Nat /\ Cardinality(T) <= Cardinality(S) + 1
  BY <1>1, <1>2
<1> QED BY <1>1, <1>2, <1>3 DEF T

\* Without an induction rule to cite: the intervals 0 .. n are well ordered by inclusion.
LEMMA LeastNat ==
  ASSUME NEW T \in SUBSET Nat, T # {}
  PROVE  \E n \in T : \A m \in T : n <= m
<1> DEFINE Downs == {0 .. n : n \in T}
<1>1. IsWellFoundedOn(StrictSubsetOrdering(Nat), FiniteSubsetsOf(Nat))
  BY FS_StrictSubsetOrderingWellFounded
<1>2. Downs \subseteq FiniteSubsetsOf(Nat)
  <2> SUFFICES ASSUME NEW n \in T
               PROVE  0 .. n \in FiniteSubsetsOf(Nat)
    OBVIOUS
  <2>1. n \in Nat /\ 0 \in Int /\ n \in Int
    OBVIOUS
  <2>2. IsFiniteSet(0 .. n)
    BY <2>1, FS_Interval
  <2>3. 0 .. n \in SUBSET Nat
    BY <2>1
  <2> QED BY <2>2, <2>3 DEF FiniteSubsetsOf
<1>3. Downs # {}
  OBVIOUS
<1>4. PICK D \in Downs : \A E \in Downs : <<E, D>> \notin StrictSubsetOrdering(Nat)
  <2> HIDE DEF Downs
  <2> QED BY <1>1, <1>2, <1>3, WFMin
<1>5. PICK n \in T : D = 0 .. n
  OBVIOUS
<1>6. ASSUME NEW m \in T, m < n
      PROVE  FALSE
  <2>1. m \in Nat /\ n \in Nat
    OBVIOUS
  <2>2. n \in 0 .. n /\ n \notin 0 .. m /\ 0 .. m \subseteq 0 .. n
    BY <1>6, <2>1
  <2>3. 0 .. m \in SUBSET Nat /\ 0 .. n \in SUBSET Nat /\ 0 .. m \in Downs
    BY <2>1
  <2>4. <<0 .. m, 0 .. n>> \in StrictSubsetOrdering(Nat)
    BY <2>2, <2>3 DEF StrictSubsetOrdering
  <2> QED BY <1>4, <1>5, <2>3, <2>4
<1> QED BY <1>6

-----------------------------------------------------------------------------
(* What a step does to the store                                           *)

LEMMA IdsGrow ==
  ASSUME TypeOK, [Next]_vars
  PROVE  nextId \in Nat /\ nextId' \in Nat /\ nextId' >= nextId
<1>1. nextId \in Nat
  BY DEF TypeOK, StoreTypeOK
<1>2. CASE UNCHANGED vars
  BY <1>1, <1>2 DEF vars, store
<1>3. ASSUME Administer
      PROVE  nextId' = nextId
  BY <1>3 DEF Administer, DeleteBranch, StoreDeleteBranch, CreateNamespace,
     StoreCreateNamespace, Gc, StoreGc, PutTag, StorePutTag, DeleteTag, StoreDeleteTag
<1>4. ASSUME NEW r \in Requests, Call(r)
      PROVE  nextId' \in {nextId, nextId + 1}
  BY <1>4 DEF Call, CallRecord, CallBulk, CallRetract, CallFork, NewTx, store
<1>5. ASSUME NEW r \in Requests, Step(r)
      PROVE  nextId' \in {nextId, nextId + 1}
  BY <1>5 DEF Step, TickRecord, NewTx, RecordNew, StoreRecordNew, RecordDuplicate,
     StoreRecordDuplicate, Retract, StoreRetract, RetractNotFound, Fork,
     StoreCreateBranch, ForkRejected, store
<1> QED BY <1>1, <1>2, <1>3, <1>4, <1>5 DEF Next

\* Three actions touch the facts or the transactions.
LEMMA FactsStep ==
  ASSUME [Next]_vars
  PROVE  \/ facts' = facts /\ transactions' = transactions
         \/ \E r \in Requests : RecordNew(r)
         \/ \E r \in Requests : Retract(r)
         \/ \E before \in Cutoffs \cup {None}, scope \in Branches \cup {None} :
              Gc(before, scope)
<1> DEFINE Same == facts' = facts /\ transactions' = transactions
<1>1. ASSUME NEW r \in Requests, Step(r), ~RecordNew(r), ~Retract(r)
      PROVE  Same
  BY <1>1 DEF Step, TickRecord, NewTx, RecordDuplicate, StoreRecordDuplicate,
     RetractNotFound, Fork, StoreCreateBranch, ForkRejected, store
<1>2. ASSUME NEW r \in Requests, Call(r)
      PROVE  Same
  BY <1>2 DEF Call, CallRecord, CallBulk, CallRetract, CallFork, NewTx, store
<1>3. ASSUME Administer
      PROVE  \/ Same
             \/ \E before \in Cutoffs \cup {None}, scope \in Branches \cup {None} :
                  Gc(before, scope)
  BY <1>3 DEF Administer, DeleteBranch, StoreDeleteBranch, CreateNamespace,
     StoreCreateNamespace, PutTag, StorePutTag, DeleteTag, StoreDeleteTag
<1>4. CASE UNCHANGED vars
  BY <1>4 DEF vars, store
<1> QED BY <1>1, <1>2, <1>3, <1>4 DEF Next

\* The fact a record adds is new, and is the only one.
LEMMA RecordAdds ==
  ASSUME TypeOK, TxConsistent, NEW r \in Requests, RecordNew(r)
  PROVE  \E nf \in Fact :
           /\ nf = NewFact(Params(r), nextId) /\ nf \notin facts
           /\ facts' = facts \cup {nf}
           /\ nf.id = nextId /\ nf.tx = req[r].tx /\ nf.ts = req[r].ts
           /\ ~nf.retracted
           /\ transactions' = TransactionsAfter(Params(r))
           /\ nextId' = nextId + 1
<1> DEFINE p == Params(r)
           nf == NewFact(p, nextId)
<1>1. p \in RecordParams /\ p.ts = req[r].ts /\ p.tx = req[r].tx
  BY ParamsType DEF RecordNew, TxConsistent
<1>2. nextId \in Nat
  BY DEF TypeOK, StoreTypeOK
<1>3. nf \in Fact /\ nf.id = nextId /\ nf.tx = p.tx /\ nf.ts = p.ts /\ ~nf.retracted
  BY <1>1, <1>2 DEF NewFact, Fact, RecordParams
<1>4. /\ facts' = facts \cup {nf} /\ transactions' = TransactionsAfter(p)
      /\ nextId' = nextId + 1
  BY DEF RecordNew, StoreRecordNew
<1>5. nf \notin facts
  BY <1>2, <1>3 DEF TxConsistent, IdsBehind
<1> HIDE DEF p, nf
<1> QED BY <1>1, <1>3, <1>4, <1>5 DEF nf, p

\* A retraction puts a closed fact in the place of a live one.
LEMMA RetractCloses ==
  ASSUME TypeOK, NEW r \in Requests, Retract(r)
  PROVE  \E f \in facts, g \in Fact :
           /\ f \in Fact /\ ~f.retracted /\ f.id = req[r].fact
           /\ f.ns = req[r].ns /\ f.branch = req[r].branch
           /\ g = Closed(f, req[r].ts) /\ g.retracted /\ g.id = f.id
           /\ g.tx = f.tx /\ g.ts = f.ts /\ g.ns = f.ns /\ g.branch = f.branch
           /\ g.key = f.key /\ g.value = f.value
           /\ facts' = (facts \ {f}) \cup {g}
<1>1. PICK f \in Retractable(req[r].fact, req[r]) :
        facts' = (facts \ {f}) \cup {Closed(f, req[r].ts)}
  BY DEF Retract, StoreRetract
<1>2. f \in facts /\ f \in Fact /\ ~f.retracted /\ f.id = req[r].fact
  BY <1>1 DEF Retractable, TypeOK, StoreTypeOK
<1>3. f.ns = req[r].ns /\ f.branch = req[r].branch
  BY <1>1 DEF Retractable
<1>4. Millis(req[r].ts) \in Nat
  <2>1. req[r].ts \in Nat
    BY StageOf DEF TypeOK, Retract, Retracting
  <2> QED BY <2>1, TicksPerMsAssumption DEF Millis
<1> DEFINE g == Closed(f, req[r].ts)
<1>5. /\ g \in Fact /\ g.retracted /\ g.id = f.id
      /\ g.tx = f.tx /\ g.ts = f.ts /\ g.ns = f.ns /\ g.branch = f.branch
      /\ g.key = f.key /\ g.value = f.value
  BY <1>2, <1>4 DEF Closed, Fact
<1> HIDE DEF g
<1>6. facts' = (facts \ {f}) \cup {g}
  BY <1>1 DEF g
<1> QED BY <1>2, <1>3, <1>5, <1>6 DEF g

LEMMA FactsStayFinite ==
  ASSUME IsFiniteSet(facts), [Next]_vars
  PROVE  IsFiniteSet(facts')
<1>1. ASSUME NEW r \in Requests, RecordNew(r)
      PROVE  IsFiniteSet(facts')
  <2>1. facts' = facts \cup {NewFact(Params(r), nextId)}
    BY <1>1 DEF RecordNew, StoreRecordNew
  <2> QED BY <2>1, FS_AddElement
<1>2. ASSUME NEW r \in Requests, Retract(r)
      PROVE  IsFiniteSet(facts')
  <2>1. PICK f : facts' = (facts \ {f}) \cup {Closed(f, req[r].ts)}
    BY <1>2 DEF Retract, StoreRetract
  <2>2. IsFiniteSet(facts \ {f})
    BY FS_Subset
  <2> QED BY <2>1, <2>2, FS_AddElement
<1>3. ASSUME NEW before, NEW scope, Gc(before, scope)
      PROVE  IsFiniteSet(facts')
  <2>1. facts' \in SUBSET facts
    BY <1>3 DEF Gc, StoreGc
  <2> QED BY <2>1, FS_Subset
<1> QED BY <1>1, <1>2, <1>3, FactsStep

-----------------------------------------------------------------------------
(* Counts                                                                  *)

FactsOf(tx) == {f \in facts : f.tx = tx}

LEMMA RecordCounts ==
  ASSUME TypeOK, TxConsistent, IsFiniteSet(facts), CountCovers,
         NEW r \in Requests, RecordNew(r)
  PROVE  CountCovers'
<1> DEFINE p == Params(r)
<1>1. PICK nf \in Fact :
        /\ facts' = facts \cup {nf} /\ nf.tx = p.tx
        /\ transactions' = TransactionsAfter(p)
  <2>1. p.tx = req[r].tx
    BY ParamsType DEF RecordNew, TxConsistent
  <2> QED BY <2>1, RecordAdds
<1> HIDE DEF p
<1> SUFFICES ASSUME NEW u \in transactions'
             PROVE  u.count >= Cardinality(FactsOf(u.id)')
  BY DEF CountCovers, FactsOf
<1>2. /\ IsFiniteSet(FactsOf(u.id)) /\ Cardinality(FactsOf(u.id)) \in Nat
      /\ \A t \in transactions : t \in Transaction
      /\ \A t \in transactions : t.count >= Cardinality(FactsOf(t.id))
  <2>1. FactsOf(u.id) \in SUBSET facts
    BY DEF FactsOf
  <2> QED
    BY <2>1, FS_Subset, FS_CardinalityType DEF CountCovers, FactsOf, TypeOK, StoreTypeOK
<1>3. CASE u.id # p.tx
  <2>1. FactsOf(u.id)' = FactsOf(u.id)
    BY <1>1, <1>3 DEF FactsOf
  <2>2. u \in transactions
    BY <1>1, <1>2, <1>3 DEF TransactionsAfter, Transaction
  <2> QED BY <1>2, <2>1, <2>2
<1>4. CASE u.id = p.tx
  <2>1. FactsOf(u.id)' = FactsOf(u.id) \cup {nf}
    BY <1>1, <1>4 DEF FactsOf
  <2>2. Cardinality(FactsOf(u.id)') <= Cardinality(FactsOf(u.id)) + 1
    BY <1>2, <2>1, OneMore
  <2>3. CASE \E t \in transactions : t.id = p.tx
    <3>1. PICK t \in transactions :
            u = IF t.id = p.tx THEN [t EXCEPT !.count = @ + 1] ELSE t
      BY <1>1, <2>3 DEF TransactionsAfter
    <3>2. t.id = p.tx /\ t.count \in Nat /\ u.count = t.count + 1
      BY <1>2, <1>4, <3>1 DEF Transaction
    <3>3. t.count >= Cardinality(FactsOf(u.id))
      BY <1>2, <1>4, <3>2
    <3>4. Cardinality(FactsOf(u.id)') \in Nat
      BY <1>2, <2>1, OneMore
    <3> QED BY <1>2, <2>2, <3>2, <3>3, <3>4
  <2>4. CASE \A t \in transactions : t.id # p.tx
    <3>1. FactsOf(u.id) = {}
      BY <1>4, <2>4 DEF FactsOf, TxConsistent, TxRecorded
    <3>2. u.count = 1
      BY <1>1, <1>4, <2>4 DEF TransactionsAfter
    <3>3. Cardinality(FactsOf(u.id)') = 1
      BY <2>1, <3>1, FS_Singleton
    <3> QED BY <3>2, <3>3
  <2> QED BY <2>3, <2>4
<1> QED BY <1>3, <1>4

LEMMA RetractCounts ==
  ASSUME TypeOK, TxConsistent, IsFiniteSet(facts), CountCovers,
         NEW r \in Requests, Retract(r)
  PROVE  CountCovers'
<1>1. PICK f \in facts, g \in Fact : g.tx = f.tx /\ facts' = (facts \ {f}) \cup {g}
  BY RetractCloses
<1> DEFINE row == [id |-> req[r].tx, ns |-> req[r].ns, branch |-> req[r].branch,
                   ts |-> req[r].ts, count |-> 1]
<1>2. transactions' = transactions \cup {row}
  BY DEF Retract, StoreRetract
<1>3. row.id = req[r].tx /\ row.count = 1
  OBVIOUS
<1> HIDE DEF row
<1> SUFFICES ASSUME NEW u \in transactions'
             PROVE  u.count >= Cardinality(FactsOf(u.id)')
  BY DEF CountCovers, FactsOf
<1>4. CASE u \in transactions
  <2>1. /\ IsFiniteSet(FactsOf(u.id)) /\ Cardinality(FactsOf(u.id)) \in Nat
        /\ u.count \in Nat /\ u.count >= Cardinality(FactsOf(u.id))
    <3>1. FactsOf(u.id) \in SUBSET facts
      BY DEF FactsOf
    <3> QED BY <1>4, <3>1, FS_Subset, FS_CardinalityType
            DEF CountCovers, FactsOf, TypeOK, StoreTypeOK, Transaction
  <2>2. CASE f.tx # u.id
    <3>1. FactsOf(u.id)' = FactsOf(u.id)
      BY <1>1, <2>2 DEF FactsOf
    <3> QED BY <2>1, <3>1
  <2>3. CASE f.tx = u.id
    <3> DEFINE rest == FactsOf(u.id) \ {f}
    <3>1. FactsOf(u.id)' = rest \cup {g} /\ f \in FactsOf(u.id)
      BY <1>1, <2>3 DEF FactsOf
    <3>2. IsFiniteSet(rest) /\ Cardinality(rest) = Cardinality(FactsOf(u.id)) - 1
      BY <2>1, <3>1, FS_RemoveElement
    <3>3. /\ Cardinality(rest \cup {g}) \in Nat
          /\ Cardinality(rest \cup {g}) <= Cardinality(rest) + 1
      BY <3>2, OneMore
    <3> HIDE DEF rest
    <3> QED BY <2>1, <3>1, <3>2, <3>3
  <2> QED BY <2>2, <2>3
<1>5. CASE u = row
  <2>1. r \in Pending /\ r \notin InFlight
    BY DEF Retract, Pending, InFlight
  <2>2. \A t \in transactions : t.id # req[r].tx
    BY <2>1 DEF TxConsistent, PendingApart
  <2>3. \A h \in facts : h.tx # req[r].tx
    BY <2>2 DEF TxConsistent, TxRecorded
  <2>4. FactsOf(u.id)' = {}
    BY <1>1, <1>3, <1>5, <2>3 DEF FactsOf
  <2> QED BY <1>3, <1>5, <2>4, FS_EmptySet
<1> QED BY <1>2, <1>4, <1>5

LEMMA GcCounts ==
  ASSUME TypeOK, IsFiniteSet(facts), CountCovers, NEW before, NEW scope, Gc(before, scope)
  PROVE  CountCovers'
<1> SUFFICES ASSUME NEW u \in transactions'
             PROVE  u.count >= Cardinality(FactsOf(u.id)')
  BY DEF CountCovers, FactsOf
<1>1. u \in transactions /\ facts' \subseteq facts
  BY DEF Gc, StoreGc
<1>2. FactsOf(u.id)' \in SUBSET FactsOf(u.id) /\ FactsOf(u.id) \in SUBSET facts
  BY <1>1 DEF FactsOf
<1>3. /\ IsFiniteSet(FactsOf(u.id)) /\ IsFiniteSet(FactsOf(u.id)')
      /\ Cardinality(FactsOf(u.id)') <= Cardinality(FactsOf(u.id))
  BY <1>2, FS_Subset
<1>4. /\ Cardinality(FactsOf(u.id)') \in Nat /\ Cardinality(FactsOf(u.id)) \in Nat
      /\ u.count \in Nat /\ u.count >= Cardinality(FactsOf(u.id))
  BY <1>1, <1>3, FS_CardinalityType
     DEF CountCovers, FactsOf, TypeOK, StoreTypeOK, Transaction
<1> QED BY <1>3, <1>4

\* A transaction never counts fewer facts than are stored under it: gc purges the
\* row of a half-done bulk only with the last of its facts, and the next one of the
\* bulk counts from one again.
THEOREM CountCoversAlways == Spec => []CountCovers
<1>1. Init => IsFiniteSet(facts) /\ CountCovers
  BY FS_EmptySet DEF Init, StoreInit, CountCovers
<1>2. TypeOK /\ Consistent /\ IsFiniteSet(facts) /\ CountCovers /\ [Next]_vars
        => IsFiniteSet(facts)' /\ CountCovers'
  <2> SUFFICES ASSUME TypeOK, Consistent, IsFiniteSet(facts), CountCovers, [Next]_vars
               PROVE  IsFiniteSet(facts') /\ CountCovers'
    OBVIOUS
  <2>1. IsFiniteSet(facts') /\ TxConsistent
    BY FactsStayFinite DEF Consistent
  <2>2. CASE facts' = facts /\ transactions' = transactions
    BY <2>2 DEF CountCovers
  <2> QED BY <2>1, <2>2, FactsStep, RecordCounts, RetractCounts, GcCounts
<1> QED BY <1>1, <1>2, Inductive, PTL DEF Spec

-----------------------------------------------------------------------------
(* Answers about the past                                                  *)

\* Facts with different ids are ordered by age, ...
LEMMA NewerIsTotal ==
  ASSUME NEW f \in Fact, NEW g \in Fact, f.id # g.id
  PROVE  NewerThan(f, g) \/ NewerThan(g, f)
BY DEF NewerThan, Fact

LEMMA NewerIsAsymmetric ==
  ASSUME NEW f \in Fact, NEW g \in Fact, NewerThan(f, g)
  PROVE  ~NewerThan(g, f)
BY DEF NewerThan, Fact

LEMMA NewerIsTransitive ==
  ASSUME NEW f \in Fact, NEW g \in Fact, NEW h \in Fact,
         NewerThan(f, g), NewerThan(g, h)
  PROVE  NewerThan(f, h)
BY DEF NewerThan, Fact

\* ... there is an oldest one wherever there is one, ...
LEMMA OldestExists ==
  ASSUME NEW S \in SUBSET Fact, S # {}, \A f, g \in S : f.id = g.id => f = g,
         NEW bound \in Nat, \A f \in S : f.id <= bound
  PROVE  \E f \in S : \A g \in S \ {f} : NewerThan(g, f)
<1>1. \A f \in S : f.ts \in Nat /\ f.id \in Nat
  BY DEF Fact
<1> DEFINE Ts == {f.ts : f \in S}
<1>2. PICK ts \in Ts : \A t \in Ts : ts <= t
  <2>1. Ts \in SUBSET Nat /\ Ts # {}
    BY <1>1
  <2> HIDE DEF Ts
  <2> QED BY <2>1, LeastNat
<1> DEFINE E == {f \in S : f.ts = ts}
           Ages == {bound - f.id : f \in E}
<1>3. PICK a \in Ages : \A x \in Ages : a <= x
  <2>1. Ages \in SUBSET Nat /\ Ages # {}
    BY <1>1
  <2> HIDE DEF Ages
  <2> QED BY <2>1, LeastNat
<1>4. PICK f \in E : a = bound - f.id
  OBVIOUS
<1>5. ASSUME NEW g \in S, g # f
      PROVE  NewerThan(g, f)
  <2>1. g.ts \in Nat /\ f.ts \in Nat /\ f.ts = ts /\ f.ts <= g.ts /\ g.id # f.id
    BY <1>1, <1>2, <1>5
  <2>2. CASE g.ts = f.ts
    <3>1. bound - f.id <= bound - g.id
      BY <1>3, <1>4, <2>1, <2>2
    <3>2. f.id \in Nat /\ g.id \in Nat
      BY <1>1
    <3> QED BY <2>1, <2>2, <3>1, <3>2 DEF NewerThan
  <2>3. CASE g.ts # f.ts
    BY <2>1, <2>3 DEF NewerThan
  <2> QED BY <2>2, <2>3
<1> QED BY <1>5

\* ... so the newest of a set changes with one more element only to that element, ...
LEMMA NewestWithOneMore ==
  ASSUME NEW S \in SUBSET Fact, NEW x \in Fact, \A f \in S : f.id # x.id
  PROVE  \/ Newest(S \cup {x}) = {x}
         \/ Newest(S \cup {x}) = Newest(S)
<1> DEFINE T == S \cup {x}
<1>1. CASE x \in Newest(T)
  <2>1. ASSUME NEW f \in Newest(T), f # x
        PROVE  FALSE
    <3>1. f \in Fact /\ NewerThan(f, x) /\ NewerThan(x, f)
      BY <1>1, <2>1 DEF Newest
    <3> QED BY <3>1, NewerIsAsymmetric
  <2> QED BY <1>1, <2>1
<1>2. CASE x \notin Newest(T)
  <2>1. PICK g \in S : ~NewerThan(x, g)
    BY <1>2 DEF Newest
  <2>2. NewerThan(g, x) /\ g \in Fact
    BY <2>1, NewerIsTotal
  <2>3. ASSUME NEW f \in Newest(S)
        PROVE  f \in Newest(T)
    <3>1. f \in Fact /\ \A h \in S \ {f} : NewerThan(f, h)
      BY <2>3 DEF Newest
    <3>2. f = g \/ NewerThan(f, g)
      BY <2>1, <3>1
    <3>3. NewerThan(f, x)
      BY <2>2, <3>1, <3>2, NewerIsTransitive
    <3> QED BY <2>3, <3>1, <3>3 DEF Newest
  <2>4. Newest(T) \subseteq Newest(S)
    BY <1>2 DEF Newest
  <2> QED BY <2>3, <2>4
<1> QED BY <1>1, <1>2

\* ... and with one fewer only if the newest goes.
LEMMA NewestWithOneLess ==
  ASSUME NEW S \in SUBSET Fact, NEW x \in S, x \notin Newest(S),
         \A f, g \in S : f.id = g.id => f = g
  PROVE  Newest(S \ {x}) = Newest(S)
<1> DEFINE T == S \ {x}
<1>1. S = T \cup {x} /\ \A f \in T : f.id # x.id
  OBVIOUS
<1>2. Newest(T \cup {x}) = {x} \/ Newest(T \cup {x}) = Newest(T)
  BY <1>1, NewestWithOneMore
<1> HIDE DEF T
<1>3. Newest(S) # {x}
  OBVIOUS
<1> QED BY <1>1, <1>2, <1>3 DEF T

\* What an answer at the time at is chosen from.
Known(n, b, k, at) == {f \in Live(n, b, k) : f.ts <= at}

LEMMA RecordKeepsAnswers ==
  ASSUME TypeOK, TxConsistent, NEW r \in Requests, RecordNew(r),
         NEW n \in Namespaces, NEW b \in Branches, NEW k \in Keys, NEW at \in Times,
         Asof(n, b, k, at)' # Asof(n, b, k, at)
  PROVE  /\ Asof(n, b, k, at)' \cap facts = {}
         /\ \E q \in InFlight, f \in Asof(n, b, k, at)' :
              req[q].ts <= at /\ f.tx = req[q].tx
<1> DEFINE A == Known(n, b, k, at)
<1>1. PICK nf \in Fact :
        /\ nf \notin facts /\ facts' = facts \cup {nf}
        /\ nf.id = nextId /\ nf.tx = req[r].tx /\ nf.ts = req[r].ts
  BY RecordAdds
<1>2. A \in SUBSET Fact /\ \A f \in A : f.id # nf.id
  <2>1. facts \subseteq Fact /\ nextId \in Nat
    BY DEF TypeOK, StoreTypeOK
  <2>2. \A f \in facts : f.id < nextId
    BY DEF TxConsistent, IdsBehind
  <2>3. \A f \in facts : f.id # nf.id
    BY <1>1, <2>1, <2>2
  <2> QED BY <2>1, <2>3 DEF Known, Live
<1>3. \/ A' = A
      \/ A' = (A \cup {nf}) /\ nf.ts <= at
  BY <1>1 DEF Known, Live
<1>4. Asof(n, b, k, at) = Newest(A) /\ Asof(n, b, k, at)' = Newest(A')
  BY DEF Asof, Known, Newest
<1>5. Asof(n, b, k, at)' = {nf} /\ nf.ts <= at
  BY <1>2, <1>3, <1>4, NewestWithOneMore
<1>6. r \in InFlight
  BY DEF RecordNew, InFlight
<1> HIDE DEF A
<1> QED BY <1>1, <1>5, <1>6

LEMMA RetractKeepsAnswers ==
  ASSUME TypeOK, TxConsistent, NEW r \in Requests, Retract(r),
         NEW n \in Namespaces, NEW b \in Branches, NEW k \in Keys, NEW at \in Times,
         Asof(n, b, k, at)' # Asof(n, b, k, at)
  PROVE  \E f \in Asof(n, b, k, at), g \in facts' : g.id = f.id /\ g.retracted
<1> DEFINE A == Known(n, b, k, at)
<1>1. PICK h \in facts, g \in Fact :
        /\ g.retracted /\ g.id = h.id /\ facts' = (facts \ {h}) \cup {g}
  BY RetractCloses
<1>2. A \in SUBSET Fact /\ \A e, f \in A : e.id = f.id => e = f
  BY DEF TypeOK, StoreTypeOK, TxConsistent, IdsUnique, Known, Live
<1>3. A' = A \ {h}
  BY <1>1 DEF Known, Live
<1>4. Asof(n, b, k, at) = Newest(A) /\ Asof(n, b, k, at)' = Newest(A')
  BY DEF Asof, Known, Newest
<1> HIDE DEF A
<1>5. h \in A
  BY <1>3, <1>4
<1>6. h \in Newest(A)
  BY <1>2, <1>3, <1>4, <1>5, NewestWithOneLess
<1> QED BY <1>1, <1>4, <1>6

\* However requests interleave, the answer to a question about a time that is past
\* changes only when a request that took its timestamp before that time commits,
\* or when the answer itself is retracted; gc never changes it.
THEOREM PastAnswersAlways == Spec => PastAnswers
<1> DEFINE Keeps ==
      \A n \in Namespaces, b \in Branches, k \in Keys, at \in Times :
        LET old == Asof(n, b, k, at)
            new == Asof(n, b, k, at)'
        IN  (at <= clock /\ new # old) =>
              \/ /\ new \cap facts = {}
                 /\ \E r \in InFlight, f \in new : req[r].ts <= at /\ f.tx = req[r].tx
              \/ \E f \in old, g \in facts' : g.id = f.id /\ g.retracted
<1>1. ASSUME TypeOK, Consistent, [Next]_vars
      PROVE  Keeps
  <2> SUFFICES ASSUME NEW n \in Namespaces, NEW b \in Branches, NEW k \in Keys,
                      NEW at \in Times, Asof(n, b, k, at)' # Asof(n, b, k, at)
               PROVE  \/ /\ Asof(n, b, k, at)' \cap facts = {}
                         /\ \E r \in InFlight, f \in Asof(n, b, k, at)' :
                              req[r].ts <= at /\ f.tx = req[r].tx
                      \/ \E f \in Asof(n, b, k, at), g \in facts' :
                           g.id = f.id /\ g.retracted
    OBVIOUS
  <2>0. TypeOK /\ TxConsistent
    BY <1>1 DEF Consistent
  <2>1. Live(n, b, k)' # Live(n, b, k)
    BY DEF Asof, Newest
  <2>2. facts' # facts
    BY <2>1 DEF Live
  <2>3. ASSUME NEW before, NEW scope, Gc(before, scope)
        PROVE  FALSE
    <3>1. facts' = facts \ Purgeable(before, scope)
      BY <2>3 DEF Gc, StoreGc
    <3> QED BY <2>1, <3>1 DEF Live, Purgeable
  <2>4. \/ \E r \in Requests : RecordNew(r)
        \/ \E r \in Requests : Retract(r)
    BY <1>1, <2>2, <2>3, FactsStep
  <2> QED BY <2>0, <2>4, RecordKeepsAnswers, RetractKeepsAnswers
<1>2. TypeOK /\ Consistent /\ [Next]_vars => [Keeps]_vars
  BY <1>1
<1> QED BY <1>2, Inductive, PTL DEF Spec, PastAnswers

=============================================================================
