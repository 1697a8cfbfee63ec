-------------------------- MODULE SqliteStore_proofs --------------------------
(***************************************************************************)
(* Proofs about SqliteStore: its type invariant; that an open database is  *)
(* seeded; that answers to record hold whatever fails or dies later; how   *)
(* often a key can be used; how far damage goes; and that calls which no   *)
(* fault cuts short are steps of AtomicStore.  And about SqliteReads: that *)
(* its scan answers what the scan of MemoryStore answers, and that         *)
(* listings and scans agree, whatever faults have left behind.             *)
(***************************************************************************)
EXTENDS SqliteReads, Reads_proofs

-----------------------------------------------------------------------------
(* Types of the tables *)

LEMMA WithType ==
  ASSUME NEW D, NEW R, NEW f, DOMAIN f \subseteq D, f \in [DOMAIN f -> R],
         NEW k \in D, NEW v \in R
  PROVE  /\ DOMAIN With(f, k, v) \subseteq D
         /\ With(f, k, v) \in [DOMAIN With(f, k, v) -> R]
BY DEF With

LEMMA WithoutType ==
  ASSUME NEW D, NEW R, NEW f, DOMAIN f \subseteq D, f \in [DOMAIN f -> R], NEW k
  PROVE  /\ DOMAIN Without(f, k) \subseteq D
         /\ Without(f, k) \in [DOMAIN Without(f, k) -> R]
BY DEF Without

LEMMA BranchesAfterType ==
  ASSUME StoreTypeOK, NEW n, NEW b, NEW tx \in Nat
  PROVE  /\ DOMAIN BranchesAfter(n, b, tx) = DOMAIN branches
         /\ BranchesAfter(n, b, tx) \in [DOMAIN branches -> BranchInfo]
BY DEF BranchesAfter, StoreTypeOK, BranchInfo

LEMMA RootType ==
  /\ Root \in BranchInfo
  /\ \A n \in Namespaces, b \in Branches : <<n, b>> \in BranchKeys
  /\ DefaultInfo \in NamespaceInfo
BY PoliciesAssumption DEF Root, BranchInfo, NoTx, BranchKeys, DefaultInfo, NamespaceInfo

LEMMA WriteType ==
  ASSUME NEW p \in Writes
  PROVE  /\ p.ns \in Namespaces /\ p.branch \in Branches /\ p.key \in Keys
         /\ p.value \in Values /\ p.from \in Nat /\ p.to \in Nat \cup {Open}
         /\ p.idem \in IdemKeys \cup {None} /\ p.ts \in Nat /\ p.tx \in Nat
         /\ \A id \in Nat : NewFact(p, id) \in Fact
<1>1. /\ p.ns \in Namespaces /\ p.branch \in Branches /\ p.key \in Keys
      /\ p.value \in Values /\ p.from \in Nat /\ p.to \in Nat \cup {Open}
      /\ p.idem \in IdemKeys \cup {None} /\ p.ts \in Nat /\ p.tx \in Nat
  BY CallsAssumption
<1> QED BY <1>1 DEF NewFact, Fact

LEMMA RetractionType ==
  ASSUME NEW p \in Retractions
  PROVE  p.ns \in Namespaces /\ p.branch \in Branches /\ p.ts \in Nat /\ p.tx \in Nat
BY CallsAssumption

LEMMA TransactionsAfterType ==
  ASSUME transactions \subseteq Transaction, NEW p \in Writes
  PROVE  TransactionsAfter(p) \subseteq Transaction
<1>1. [id |-> p.tx, ns |-> p.ns, branch |-> p.branch, ts |-> p.ts, count |-> 1] \in Transaction
  BY WriteType DEF Transaction
<1>2. \A t \in transactions : [t EXCEPT !.count = @ + 1] \in Transaction
  BY DEF Transaction
<1> QED BY <1>1, <1>2 DEF TransactionsAfter

\* Which record the job is, by its next statement.
LEMMA JobOf ==
  ASSUME TypeOK
  PROVE  /\ job.next \in {"transaction", "head", "key"} => job \in Recording
         /\ job.next \in {"retract transaction", "retract head"} => job \in Retracting
         /\ job.next = "main branch" => job \in Creating
         /\ job.next = "gc transactions" => job \in Collecting
         /\ job \in Recording =>
              job.p \in Writes /\ job.fact \in Nat /\ job.next \in {"transaction", "head", "key"}
         /\ job \in Retracting =>
              job.p \in Retractions /\ job.next \in {"retract transaction", "retract head"}
         /\ job \in Creating => job.ns \in Namespaces /\ job.next = "main branch"
         /\ job \in Collecting => job.next = "gc transactions"
         /\ NoJob \notin Recording \cup Retracting \cup Creating \cup Collecting
<1>1. job \in {NoJob} \cup Recording \cup Retracting \cup Creating \cup Collecting
  BY DEF TypeOK
<1>2. NoJob.next = "none"
  BY DEF NoJob
<1>3. job \in Recording =>
        job.p \in Writes /\ job.fact \in Nat /\ job.next \in {"transaction", "head", "key"}
  BY DEF Recording
<1>4. job \in Retracting =>
        job.p \in Retractions /\ job.next \in {"retract transaction", "retract head"}
  BY DEF Retracting
<1>5. job \in Creating => job.ns \in Namespaces /\ job.next = "main branch"
  BY DEF Creating
<1>6. job \in Collecting => job.next = "gc transactions"
  BY DEF Collecting
<1>7. NoJob \notin Recording \cup Retracting \cup Creating \cup Collecting
  BY <1>2 DEF Recording, Retracting, Creating, Collecting
<1> QED BY <1>1, <1>2, <1>3, <1>4, <1>5, <1>6, <1>7

-----------------------------------------------------------------------------
(* Types, for each kind of step *)

OpenTypeOK ==
  /\ phase \in {"closed", "seeding", "open"} /\ calls \in Nat /\ faults \in Nat
  /\ replies \subseteq [key : IdemKeys \cup {None}, fact : Nat, tx : Nat]
  /\ keyed \subseteq IdemKeys \X Nat
  /\ torn \in BOOLEAN

JobTypeOK == job \in {NoJob} \cup Recording \cup Retracting \cup Creating \cup Collecting

LEMMA TypeParts == TypeOK <=> StoreTypeOK /\ OpenTypeOK /\ JobTypeOK
BY DEF TypeOK, OpenTypeOK, JobTypeOK

LEMMA CallKeepsOpenType ==
  ASSUME OpenTypeOK, Enter, UNCHANGED <<replies, keyed, torn>>
  PROVE  OpenTypeOK'
BY DEF OpenTypeOK, Enter

LEMMA StatementKeepsOpenType ==
  ASSUME OpenTypeOK, UNCHANGED <<phase, calls, faults, replies, keyed, torn>>
  PROVE  OpenTypeOK'
BY DEF OpenTypeOK

LEMMA SeedKeepsType ==
  ASSUME TypeOK, SeedNamespace \/ SeedBranch
  PROVE  TypeOK'
<1>1. CASE SeedNamespace
  <2>1. DOMAIN namespaces' \subseteq Namespaces /\ namespaces' \in [DOMAIN namespaces' -> NamespaceInfo]
    BY <1>1, WithType, RootType, NamesAssumption DEF SeedNamespace, Keep, TypeOK, StoreTypeOK
  <2> QED BY <1>1, <2>1 DEF SeedNamespace, TypeOK, StoreTypeOK
<1>2. CASE SeedBranch
  <2>1. <<DefaultNs, Main>> \in BranchKeys /\ Root \in BranchInfo
    BY RootType, NamesAssumption
  <2>2. DOMAIN branches' \subseteq BranchKeys /\ branches' \in [DOMAIN branches' -> BranchInfo]
    BY <1>2, <2>1, WithType DEF SeedBranch, Keep, TypeOK, StoreTypeOK
  <2> QED BY <1>2, <2>2 DEF SeedBranch, TypeOK, StoreTypeOK
<1> QED BY <1>1, <1>2

LEMMA RecordCallKeepsType ==
  ASSUME TypeOK, NEW p \in Writes, RecordHit(p) \/ RecordFact(p)
  PROVE  TypeOK'
<1>0. StoreTypeOK /\ OpenTypeOK /\ nextId \in Nat \ {0} /\ p.idem \in IdemKeys \cup {None}
  BY TypeParts, WriteType DEF StoreTypeOK
<1>1. CASE RecordHit(p)
  <2>1. p.idem \in IdemKeys /\ idem_cache[p.idem] \in [fact : Nat, tx : Nat]
    BY <1>0, <1>1 DEF RecordHit, IsDuplicate, StoreTypeOK
  <2>2. replies' \subseteq [key : IdemKeys \cup {None}, fact : Nat, tx : Nat]
    BY <1>0, <1>1, <2>1 DEF RecordHit, Answer, OpenTypeOK
  <2>3. StoreTypeOK'
    BY <1>0, <1>1 DEF RecordHit, tables, store, StoreTypeOK
  <2>4. OpenTypeOK'
    BY <1>0, <1>1, <2>2 DEF RecordHit, Enter, Leave, OpenTypeOK
  <2>5. JobTypeOK'
    BY <1>1 DEF RecordHit, Leave, JobTypeOK, NoJob
  <2> QED BY <2>3, <2>4, <2>5 DEF TypeOK, OpenTypeOK, JobTypeOK
<1>2. CASE RecordFact(p)
  <2>1. NewFact(p, nextId) \in Fact
    BY <1>0, WriteType
  <2>2. StoreTypeOK'
    <3>1. facts' \subseteq Fact /\ nextId' \in Nat \ {0}
      BY <1>0, <1>2, <2>1 DEF RecordFact, StoreTypeOK
    <3> QED BY <1>0, <1>2, <3>1 DEF RecordFact, StoreTypeOK
  <2>3. keyed' \subseteq IdemKeys \X Nat
    BY <1>0, <1>2 DEF RecordFact, OpenTypeOK
  <2>4. OpenTypeOK'
    BY <1>0, <1>2, <2>3 DEF RecordFact, Enter, GoOn, OpenTypeOK
  <2>5. JobTypeOK'
    BY <1>0, <1>2 DEF RecordFact, GoOn, JobTypeOK, Recording
  <2> QED BY <2>2, <2>4, <2>5 DEF TypeOK, OpenTypeOK, JobTypeOK
<1> QED BY <1>1, <1>2

LEMMA OtherCallKeepsType ==
  ASSUME TypeOK, Call, ~\E p \in Writes : RecordHit(p) \/ RecordFact(p)
  PROVE  TypeOK'
<1>0. StoreTypeOK /\ OpenTypeOK
  BY TypeParts
<1>1. ASSUME NEW p \in Retractions, NEW id, RetractFact(id, p)
      PROVE  TypeOK'
  <2>1. PICK f \in Retractable(id, p) :
          facts' = (facts \ {f}) \cup {[f EXCEPT !.retracted = TRUE, !.to = p.ts]}
    BY <1>1 DEF RetractFact
  <2>2. f \in Fact
    BY <1>0, <2>1 DEF Retractable, StoreTypeOK
  <2>3. [f EXCEPT !.retracted = TRUE, !.to = p.ts] \in Fact
    BY <2>2, RetractionType DEF Fact
  <2>4. StoreTypeOK'
    BY <1>0, <1>1, <2>1, <2>3 DEF RetractFact, StoreTypeOK
  <2>5. OpenTypeOK'
    BY <1>0, <1>1, CallKeepsOpenType DEF RetractFact, GoOn
  <2>6. JobTypeOK'
    BY <1>1 DEF RetractFact, GoOn, JobTypeOK, Retracting
  <2> QED BY <2>4, <2>5, <2>6 DEF TypeOK, OpenTypeOK, JobTypeOK
<1>2. ASSUME NEW n \in Namespaces, NEW info \in NamespaceInfo, CreateNamespaceRow(n, info)
      PROVE  TypeOK'
  <2>1. DOMAIN namespaces' \subseteq Namespaces /\ namespaces' \in [DOMAIN namespaces' -> NamespaceInfo]
    BY <1>0, <1>2, WithType DEF CreateNamespaceRow, StoreTypeOK
  <2>2. StoreTypeOK'
    BY <1>0, <1>2, <2>1 DEF CreateNamespaceRow, StoreTypeOK
  <2>3. OpenTypeOK'
    BY <1>0, <1>2, CallKeepsOpenType DEF CreateNamespaceRow, GoOn
  <2>4. JobTypeOK'
    BY <1>2 DEF CreateNamespaceRow, GoOn, JobTypeOK, Creating
  <2> QED BY <2>2, <2>3, <2>4 DEF TypeOK, OpenTypeOK, JobTypeOK
<1>3. ASSUME NEW before, NEW scope, GcFacts(before, scope)
      PROVE  TypeOK'
  <2>1. StoreTypeOK'
    BY <1>0, <1>3 DEF GcFacts, StoreTypeOK
  <2>2. OpenTypeOK'
    BY <1>0, <1>3, CallKeepsOpenType DEF GcFacts, GoOn
  <2>3. JobTypeOK'
    BY <1>3 DEF GcFacts, GoOn, JobTypeOK, Collecting
  <2> QED BY <2>1, <2>2, <2>3 DEF TypeOK, OpenTypeOK, JobTypeOK
<1>4. ASSUME OneStatement
      PROVE  OpenTypeOK' /\ JobTypeOK'
  BY <1>0, <1>4 DEF OneStatement, Enter, Leave, OpenTypeOK, JobTypeOK, NoJob
<1>5. ASSUME NEW n \in Namespaces, NEW b \in Branches, NEW parent \in Branches,
             NEW at \in Forks, CreateBranch(n, b, parent, at)
      PROVE  TypeOK'
  <2>1. [parent |-> parent, forkAt |-> at, head |-> NoTx] \in BranchInfo /\ <<n, b>> \in BranchKeys
    BY CallsAssumption, RootType DEF BranchInfo, NoTx
  <2>2. DOMAIN branches' \subseteq BranchKeys /\ branches' \in [DOMAIN branches' -> BranchInfo]
    BY <1>0, <1>5, <2>1, WithType DEF CreateBranch, StoreCreateBranch, StoreTypeOK
  <2>3. StoreTypeOK'
    BY <1>0, <1>5, <2>2 DEF CreateBranch, StoreCreateBranch, StoreTypeOK
  <2> QED BY <1>4, <1>5, <2>3 DEF CreateBranch, TypeOK, OpenTypeOK, JobTypeOK
<1>6. ASSUME NEW n, NEW b, DeleteBranch(n, b)
      PROVE  TypeOK'
  <2>1. DOMAIN branches' \subseteq BranchKeys /\ branches' \in [DOMAIN branches' -> BranchInfo]
    BY <1>0, <1>6, WithoutType DEF DeleteBranch, StoreDeleteBranch, StoreTypeOK
  <2>2. StoreTypeOK'
    BY <1>0, <1>6, <2>1 DEF DeleteBranch, StoreDeleteBranch, StoreTypeOK
  <2> QED BY <1>4, <1>6, <2>2 DEF DeleteBranch, TypeOK, OpenTypeOK, JobTypeOK
<1>7. ASSUME NEW l \in Labels, NEW tx \in TxIds, PutTag(l, tx)
      PROVE  TypeOK'
  <2>1. DOMAIN tags' \subseteq Labels /\ tags' \in [DOMAIN tags' -> Nat]
    BY <1>0, <1>7, CallsAssumption, WithType DEF PutTag, StorePutTag, StoreTypeOK
  <2>2. StoreTypeOK'
    BY <1>0, <1>7, <2>1 DEF PutTag, StorePutTag, StoreTypeOK
  <2> QED BY <1>4, <1>7, <2>2 DEF PutTag, TypeOK, OpenTypeOK, JobTypeOK
<1>8. ASSUME NEW l \in Labels, DeleteTag(l)
      PROVE  TypeOK'
  <2>1. DOMAIN tags' \subseteq Labels /\ tags' \in [DOMAIN tags' -> Nat]
    BY <1>0, <1>8, WithoutType DEF DeleteTag, StoreDeleteTag, StoreTypeOK
  <2>2. StoreTypeOK'
    BY <1>0, <1>8, <2>1 DEF DeleteTag, StoreDeleteTag, StoreTypeOK
  <2> QED BY <1>4, <1>8, <2>2 DEF DeleteTag, TypeOK, OpenTypeOK, JobTypeOK
<1> QED BY <1>1, <1>2, <1>3, <1>5, <1>6, <1>7, <1>8 DEF Call

LEMMA StatementKeepsType ==
  ASSUME TypeOK, RecordInv, Statement
  PROVE  TypeOK'
<1>0. StoreTypeOK /\ OpenTypeOK /\ transactions \subseteq Transaction
  BY TypeParts DEF StoreTypeOK
<1>1. CASE RecordTransaction
  <2>1. job \in Recording /\ job.p \in Writes
    BY <1>1, JobOf DEF RecordTransaction, At
  <2>2. transactions' \subseteq Transaction
    BY <1>0, <1>1, <2>1, TransactionsAfterType DEF RecordTransaction
  <2>3. StoreTypeOK'
    BY <1>0, <1>1, <2>2 DEF RecordTransaction, StoreTypeOK
  <2>4. OpenTypeOK'
    BY <1>0, <1>1, StatementKeepsOpenType DEF RecordTransaction, At, GoOn
  <2>5. job' \in Recording
    BY <1>1, <2>1 DEF RecordTransaction, GoOn, Recording
  <2> QED BY <2>3, <2>4, <2>5 DEF TypeOK, OpenTypeOK
<1>2. CASE RecordHead
  <2>1. job \in Recording /\ job.p \in Writes /\ job.fact \in Nat
    BY <1>2, JobOf DEF RecordHead, At
  <2>2. DOMAIN branches' \subseteq BranchKeys /\ branches' \in [DOMAIN branches' -> BranchInfo]
    BY <1>0, <1>2, <2>1, WriteType, BranchesAfterType DEF RecordHead, StoreTypeOK
  <2>3. StoreTypeOK'
    BY <1>0, <1>2, <2>2 DEF RecordHead, StoreTypeOK
  <2>4. replies' \subseteq [key : IdemKeys \cup {None}, fact : Nat, tx : Nat]
    BY <1>0, <1>2, <2>1, WriteType DEF RecordHead, Answer, OpenTypeOK
  <2>5. OpenTypeOK'
    BY <1>0, <1>2, <2>4 DEF RecordHead, At, GoOn, Leave, OpenTypeOK
  <2>6. job' = NoJob \/ job' \in Recording
    BY <1>2, <2>1 DEF RecordHead, GoOn, Leave, Recording
  <2> QED BY <2>3, <2>5, <2>6 DEF TypeOK, OpenTypeOK
<1>3. CASE RecordKey
  <2>1. job \in Recording /\ job.next = "key" /\ job.p \in Writes /\ job.fact \in Nat
    BY <1>3, JobOf DEF RecordKey, At
  <2>2. job.p.idem \in IdemKeys /\ job.p.tx \in Nat
    BY <2>1, WriteType DEF RecordInv
  <2> DEFINE reply == [fact |-> job.fact, tx |-> job.p.tx]
             replyType == [fact : Nat, tx : Nat]
  <2>3. /\ reply \in replyType /\ idem_cache' = With(idem_cache, job.p.idem, reply)
        /\ DOMAIN idem_cache \subseteq IdemKeys
        /\ idem_cache \in [DOMAIN idem_cache -> replyType]
    BY <1>0, <1>3, <2>1, <2>2 DEF RecordKey, StoreTypeOK
  <2> HIDE DEF reply, replyType
  <2>4. /\ DOMAIN idem_cache' \subseteq IdemKeys
        /\ idem_cache' \in [DOMAIN idem_cache' -> replyType]
    BY <2>2, <2>3, WithType
  <2>5. StoreTypeOK'
    BY <1>0, <1>3, <2>4 DEF RecordKey, StoreTypeOK, replyType
  <2>6. replies' \subseteq [key : IdemKeys \cup {None}, fact : Nat, tx : Nat]
    BY <1>0, <1>3, <2>1, <2>2 DEF RecordKey, Answer, OpenTypeOK
  <2>7. OpenTypeOK'
    BY <1>0, <1>3, <2>6 DEF RecordKey, At, Leave, OpenTypeOK
  <2>8. job' = NoJob
    BY <1>3 DEF RecordKey, Leave
  <2> QED BY <2>5, <2>7, <2>8 DEF TypeOK, OpenTypeOK
<1>4. CASE RetractTransaction \/ RetractHead
  <2>1. job \in Retracting /\ job.p \in Retractions
    BY <1>4, JobOf DEF RetractTransaction, RetractHead, At
  <2>2. CASE RetractTransaction
    <3>1. [id |-> job.p.tx, ns |-> job.p.ns, branch |-> job.p.branch, ts |-> job.p.ts,
           count |-> 1] \in Transaction
      BY <2>1, RetractionType DEF Transaction
    <3>2. StoreTypeOK'
      BY <1>0, <2>2, <3>1 DEF RetractTransaction, StoreTypeOK
    <3>3. OpenTypeOK'
      BY <1>0, <2>2, StatementKeepsOpenType DEF RetractTransaction, At, GoOn
    <3>4. job' \in Retracting
      BY <2>1, <2>2 DEF RetractTransaction, GoOn, Retracting
    <3> QED BY <3>2, <3>3, <3>4 DEF TypeOK, OpenTypeOK
  <2>3. CASE RetractHead
    <3>1. DOMAIN branches' \subseteq BranchKeys /\ branches' \in [DOMAIN branches' -> BranchInfo]
      BY <1>0, <2>1, <2>3, RetractionType, BranchesAfterType DEF RetractHead, StoreTypeOK
    <3>2. StoreTypeOK'
      BY <1>0, <2>3, <3>1 DEF RetractHead, StoreTypeOK
    <3>3. OpenTypeOK'
      BY <1>0, <2>3, StatementKeepsOpenType DEF RetractHead, At, Leave
    <3>4. job' = NoJob
      BY <2>3 DEF RetractHead, Leave
    <3> QED BY <3>2, <3>3, <3>4 DEF TypeOK, OpenTypeOK
  <2> QED BY <1>4, <2>2, <2>3
<1>5. CASE CreateNamespaceMain
  <2>1. <<job.ns, Main>> \in BranchKeys /\ Root \in BranchInfo
    BY <1>5, JobOf, RootType, NamesAssumption DEF CreateNamespaceMain, At
  <2>2. DOMAIN branches' \subseteq BranchKeys /\ branches' \in [DOMAIN branches' -> BranchInfo]
    BY <1>0, <1>5, <2>1, WithType DEF CreateNamespaceMain, StoreTypeOK
  <2>3. StoreTypeOK'
    BY <1>0, <1>5, <2>2 DEF CreateNamespaceMain, StoreTypeOK
  <2>4. OpenTypeOK'
    BY <1>0, <1>5, StatementKeepsOpenType DEF CreateNamespaceMain, At, Leave
  <2>5. job' = NoJob
    BY <1>5 DEF CreateNamespaceMain, Leave
  <2> QED BY <2>3, <2>4, <2>5 DEF TypeOK, OpenTypeOK
<1>6. CASE GcTransactions
  <2>1. StoreTypeOK'
    BY <1>0, <1>6 DEF GcTransactions, StoreTypeOK
  <2>2. OpenTypeOK'
    BY <1>0, <1>6, StatementKeepsOpenType DEF GcTransactions, At, Leave
  <2>3. job' = NoJob
    BY <1>6 DEF GcTransactions, Leave
  <2> QED BY <2>1, <2>2, <2>3 DEF TypeOK, OpenTypeOK
<1> QED BY <1>1, <1>2, <1>3, <1>4, <1>5, <1>6 DEF Statement

LEMMA TypeStep ==
  ASSUME TypeOK, RecordInv, [Next]_vars
  PROVE  TypeOK'
<1>1. CASE StatementFails \/ Crash
  <2>1. UNCHANGED store /\ job' = NoJob
    BY <1>1 DEF StatementFails, Crash, tables
  <2>2. OpenTypeOK'
    <3>1. torn' \in BOOLEAN
      <4>1. torn' = TRUE \/ torn' = (torn \/ job # NoJob)
        BY <1>1 DEF StatementFails, Crash
      <4> QED BY <4>1
    <3>2. /\ phase' \in {phase, "closed"} /\ faults' = faults + 1
          /\ UNCHANGED <<calls, replies, keyed>>
      BY <1>1 DEF StatementFails, Crash, Fault
    <3> QED BY <3>1, <3>2, TypeParts DEF OpenTypeOK
  <2>3. StoreTypeOK'
    BY <2>1, TypeParts DEF store, StoreTypeOK
  <2> QED BY <2>1, <2>2, <2>3 DEF TypeOK, OpenTypeOK
<1>2. CASE UNCHANGED vars
  BY <1>2 DEF vars, tables, store, TypeOK, StoreTypeOK
<1> QED
  BY <1>1, <1>2, SeedKeepsType, RecordCallKeepsType, OtherCallKeepsType, StatementKeepsType
     DEF Next

-----------------------------------------------------------------------------
(* Seeding *)

LEMMA SeedStep ==
  ASSUME TypeOK, SeedInv, [Next]_vars
  PROVE  SeedInv'
<1> DEFINE main == <<DefaultNs, Main>>
           Rooted(bs) == main \in DOMAIN bs /\ bs[main].parent = None
<1>0. /\ StoreTypeOK /\ phase \in {"closed", "seeding", "open"}
      /\ \A k \in DOMAIN branches : branches[k] \in BranchInfo
  BY TypeParts DEF OpenTypeOK, StoreTypeOK
<1>1. ASSUME phase = "open", phase' = "open", DefaultNs \in DOMAIN namespaces', Rooted(branches')
      PROVE  SeedInv'
  BY <1>1 DEF SeedInv
<1>2. phase = "open" => Rooted(branches) /\ DefaultNs \in DOMAIN namespaces
  BY DEF SeedInv
<1>3. ASSUME NEW n, NEW b, NEW tx, Rooted(branches)
      PROVE  Rooted(BranchesAfter(n, b, tx))
  BY <1>0, <1>3 DEF BranchesAfter, BranchInfo
<1>4. CASE SeedNamespace
  BY <1>4 DEF SeedNamespace, SeedInv, Keep, With
<1>5. CASE SeedBranch
  <2>1. Rooted(branches')
    BY <1>5 DEF SeedBranch, SeedInv, Keep, With, Root
  <2> QED BY <1>5, <2>1 DEF SeedBranch, SeedInv
<1>6. CASE Call
  <2>1. phase = "open" /\ phase' = "open"
    BY <1>6 DEF Call, RecordHit, RecordFact, RetractFact, CreateBranch, DeleteBranch,
       CreateNamespaceRow, GcFacts, PutTag, DeleteTag, OneStatement, Enter
  <2>2. ASSUME NEW n, NEW b, NEW parent, NEW at, CreateBranch(n, b, parent, at)
        PROVE  Rooted(branches') /\ namespaces' = namespaces
    BY <1>2, <2>1, <2>2 DEF CreateBranch, StoreCreateBranch, CanFork, With
  <2>3. ASSUME NEW n, NEW b, DeleteBranch(n, b)
        PROVE  Rooted(branches') /\ namespaces' = namespaces
    BY <1>2, <2>1, <2>3 DEF DeleteBranch, StoreDeleteBranch, Without
  <2>4. ASSUME NEW n, NEW info, CreateNamespaceRow(n, info)
        PROVE  branches' = branches /\ DOMAIN namespaces \subseteq DOMAIN namespaces'
    BY <2>4 DEF CreateNamespaceRow, With
  <2>5. \/ UNCHANGED <<branches, namespaces>>
        \/ \E n, b, parent, at : CreateBranch(n, b, parent, at)
        \/ \E n, b : DeleteBranch(n, b)
        \/ \E n, info : CreateNamespaceRow(n, info)
    BY <1>6 DEF Call, RecordHit, RecordFact, RetractFact, GcFacts, PutTag, DeleteTag,
       StorePutTag, StoreDeleteTag, tables, store
  <2> QED BY <1>1, <1>2, <2>1, <2>2, <2>3, <2>4, <2>5
<1>7. CASE Statement
  <2>1. phase = "open" /\ phase' = "open"
    <3>1. job # NoJob
      BY <1>7, JobOf DEF Statement, RecordTransaction, RecordHead, RecordKey,
         RetractTransaction, RetractHead, CreateNamespaceMain, GcTransactions, At, NoJob
    <3>2. phase' = phase
      BY <1>7 DEF Statement, RecordTransaction, RecordHead, RecordKey, RetractTransaction,
         RetractHead, CreateNamespaceMain, GcTransactions, At
    <3> QED BY <3>1, <3>2 DEF SeedInv
  <2>2. namespaces' = namespaces
    BY <1>7 DEF Statement, RecordTransaction, RecordHead, RecordKey, RetractTransaction,
       RetractHead, CreateNamespaceMain, GcTransactions
  <2>3. \/ branches' = branches
        \/ \E n, b, tx : branches' = BranchesAfter(n, b, tx)
        \/ branches' = With(branches, <<job.ns, Main>>, Root)
    BY <1>7 DEF Statement, RecordTransaction, RecordHead, RecordKey, RetractTransaction,
       RetractHead, CreateNamespaceMain, GcTransactions
  <2>4. CASE branches' = With(branches, <<job.ns, Main>>, Root)
    BY <1>1, <1>2, <2>1, <2>2, <2>4 DEF With, Root
  <2>5. CASE \E n, b, tx : branches' = BranchesAfter(n, b, tx)
    BY <1>1, <1>2, <1>3, <2>1, <2>2, <2>5
  <2> QED BY <1>1, <1>2, <2>1, <2>2, <2>3, <2>4, <2>5
<1>8. CASE StatementFails \/ Crash
  <2>1. job' = NoJob /\ UNCHANGED <<branches, namespaces>> /\ phase' \in {phase, "closed"}
    BY <1>8 DEF StatementFails, Crash, tables, store
  <2> QED BY <2>1 DEF SeedInv
<1>9. CASE UNCHANGED vars
  BY <1>9 DEF vars, tables, store, SeedInv
<1> QED BY <1>4, <1>5, <1>6, <1>7, <1>8, <1>9 DEF Next

-----------------------------------------------------------------------------
(* Answers *)

Answering == RecordInv /\ AnswersInv /\ AnswersHold

LEMMA TransactionsAfterIds ==
  ASSUME transactions \subseteq Transaction, NEW p
  PROVE  /\ \A t \in transactions : \E u \in TransactionsAfter(p) : u.id = t.id
         /\ \E u \in TransactionsAfter(p) : u.id = p.tx
<1>1. CASE \E t \in transactions : t.id = p.tx
  <2>1. \A t \in transactions : [t EXCEPT !.count = @ + 1].id = t.id
    BY DEF Transaction
  <2>2. \A t \in transactions :
          \E u \in TransactionsAfter(p) : u.id = t.id
    BY <1>1, <2>1 DEF TransactionsAfter
  <2> QED BY <1>1, <2>2
<1>2. CASE ~\E t \in transactions : t.id = p.tx
  <2> DEFINE new == [id |-> p.tx, ns |-> p.ns, branch |-> p.branch, ts |-> p.ts, count |-> 1]
  <2>1. TransactionsAfter(p) = transactions \cup {new} /\ new.id = p.tx
    BY <1>2 DEF TransactionsAfter
  <2> HIDE DEF new
  <2> QED BY <2>1
<1> QED BY <1>1, <1>2

\* A step that is no record's, writes no fact, and drops no transaction that a fact names.
LEMMA NoNews ==
  ASSUME TypeOK, Answering, replies' = replies, idem_cache' = idem_cache, nextId' = nextId,
         job' \notin Recording,
         \A f \in facts' : \E g \in facts : g.id = f.id /\ g.tx = f.tx,
         \A t \in transactions :
           (\E f \in facts : f.tx = t.id) => \E u \in transactions' : u.id = t.id
  PROVE  Answering'
<1>1. RecordInv'
  BY DEF RecordInv
<1>2. AnswersInv'
  BY DEF Answering, AnswersInv
<1>3. AnswersHold'
  <2> SUFFICES ASSUME NEW a \in replies, NEW f \in facts', f.id = a.fact
               PROVE  \E u \in transactions' : u.id = a.tx
    BY DEF AnswersHold, Answering
  <2>1. PICK g \in facts : g.id = f.id /\ g.tx = f.tx
    OBVIOUS
  <2>2. g.id = a.fact
    BY <2>1
  <2>3. g.tx = a.tx
    <3>1. AnswersInv
      BY DEF Answering
    <3> QED BY <2>2, <3>1 DEF AnswersInv
  <2>4. PICK t \in transactions : t.id = a.tx
    <3>1. AnswersHold
      BY DEF Answering
    <3>2. (\E h \in facts : h.id = a.fact) => \E t \in transactions : t.id = a.tx
      BY <3>1 DEF AnswersHold
    <3> QED BY <2>2, <3>2
  <2>5. g.tx = t.id
    BY <2>3, <2>4
  <2>6. \E u \in transactions' : u.id = t.id
    BY <2>5
  <2> QED BY <2>4, <2>6
<1> QED BY <1>1, <1>2, <1>3 DEF Answering

LEMMA AnswersHoldOn ==
  ASSUME AnswersHold, replies' = replies, idem_cache' = idem_cache,
         \A f \in facts', a \in replies : f.id = a.fact => f \in facts,
         \A t \in transactions : \E u \in transactions' : u.id = t.id
  PROVE  AnswersHold'
<1>1. ASSUME NEW a \in replies, a.key # None
      PROVE  a.key \in DOMAIN idem_cache' /\ idem_cache'[a.key] = [fact |-> a.fact, tx |-> a.tx]
  BY <1>1 DEF AnswersHold
<1>2. ASSUME NEW a \in replies, NEW f \in facts', f.id = a.fact
      PROVE  \E u \in transactions' : u.id = a.tx
  <2>1. PICK t \in transactions : t.id = a.tx
    BY <1>2 DEF AnswersHold
  <2> QED BY <2>1
<1> QED BY <1>1, <1>2 DEF AnswersHold

LEMMA RecordAnswering ==
  ASSUME TypeOK, Answering, NEW p \in Writes, RecordHit(p) \/ RecordFact(p)
  PROVE  Answering'
<1>0. facts \subseteq Fact /\ nextId \in Nat /\ replies \subseteq [key : IdemKeys \cup {None}, fact : Nat, tx : Nat]
  BY DEF TypeOK, StoreTypeOK
<1>1. CASE RecordHit(p)
  <2>1. [key |-> p.idem, fact |-> idem_cache[p.idem].fact, tx |-> idem_cache[p.idem].tx] \in replies
    BY <1>1 DEF RecordHit, IsDuplicate, Answering, AnswersInv
  <2>2. replies' = replies /\ UNCHANGED store /\ job' = NoJob
    BY <1>1, <2>1 DEF RecordHit, Answer, Leave, tables
  <2> QED BY <2>2, JobOf, NoNews DEF store
<1>2. CASE RecordFact(p)
  <2> DEFINE new == NewFact(p, nextId)
  <2>1. /\ facts' = facts \cup {new} /\ nextId' = nextId + 1
        /\ UNCHANGED <<replies, transactions, idem_cache>>
        /\ job' = [next |-> "transaction", p |-> p, fact |-> nextId]
        /\ ~IsDuplicate(p)
    BY <1>2 DEF RecordFact, GoOn
  <2>2. new.id = nextId /\ new.tx = p.tx
    BY DEF NewFact
  <2>3. \A f \in facts : f.id \in Nat /\ f.id < nextId
    BY <1>0 DEF Fact, Answering, AnswersInv
  <2>4. \A a \in replies : a.fact \in Nat /\ a.fact < nextId
    BY <1>0 DEF Answering, AnswersInv
  <2> HIDE DEF new
  <2>5. RecordInv'
    <3>1. job'.p = p /\ job'.fact = nextId /\ job'.next = "transaction"
      BY <2>1
    <3>2. \A f \in facts' : f.id = nextId => f.tx = p.tx
      BY <1>0, <2>1, <2>2, <2>3
    <3>3. ~IsDuplicate(p)'
      BY <2>1 DEF IsDuplicate
    <3> QED BY <1>0, <2>1, <3>1, <3>2, <3>3 DEF RecordInv, IsDuplicate
  <2>6. AnswersInv'
    BY <1>0, <2>1, <2>2, <2>3, <2>4 DEF Answering, AnswersInv
  <2>7. AnswersHold'
    <3>1. \A f \in facts', a \in replies : f.id = a.fact => f \in facts
      BY <1>0, <2>1, <2>2, <2>4
    <3> QED BY <2>1, <3>1, AnswersHoldOn DEF Answering
  <2> QED BY <2>5, <2>6, <2>7 DEF Answering
<1> QED BY <1>1, <1>2

LEMMA RecordStatementAnswering ==
  ASSUME TypeOK, Answering, RecordTransaction \/ RecordHead \/ RecordKey
  PROVE  Answering'
<1>0. /\ job \in Recording /\ job.p \in Writes /\ job.fact \in Nat
      /\ job.next \in {"transaction", "head", "key"}
      /\ transactions \subseteq Transaction /\ nextId \in Nat
  BY JobOf DEF RecordTransaction, RecordHead, RecordKey, At, TypeOK, StoreTypeOK
<1>1. /\ ~IsDuplicate(job.p) /\ job.fact < nextId
      /\ \A f \in facts : f.id = job.fact => f.tx = job.p.tx
  BY <1>0 DEF Answering, RecordInv
<1>2. CASE RecordTransaction
  <2>1. /\ transactions' = TransactionsAfter(job.p) /\ job' = [job EXCEPT !.next = "head"]
        /\ UNCHANGED <<facts, idem_cache, nextId, replies>>
    BY <1>2 DEF RecordTransaction, GoOn
  <2>2. job'.p = job.p /\ job'.fact = job.fact /\ job'.next = "head"
    BY <1>0, <2>1 DEF Recording
  <2>3. /\ \A t \in transactions : \E u \in transactions' : u.id = t.id
        /\ \E u \in transactions' : u.id = job.p.tx
    BY <1>0, <2>1, TransactionsAfterIds
  <2>4. RecordInv'
    BY <1>1, <2>1, <2>2, <2>3 DEF RecordInv, IsDuplicate
  <2>5. AnswersInv'
    BY <2>1 DEF Answering, AnswersInv
  <2>6. AnswersHold'
    BY <2>1, <2>3, AnswersHoldOn DEF Answering
  <2> QED BY <2>4, <2>5, <2>6 DEF Answering
<1>3. ASSUME NEW a, a.key = None, a.fact = job.fact, a.tx = job.p.tx,
             RecordHead, replies' = replies \cup {a}, job' = NoJob
      PROVE  Answering'
  <2>1. UNCHANGED <<facts, idem_cache, nextId, transactions>> /\ job.next = "head"
    BY <1>3 DEF RecordHead, At
  <2>2. \E t \in transactions : t.id = job.p.tx
    BY <1>0, <2>1 DEF Answering, RecordInv
  <2>3. RecordInv'
    BY <1>3, JobOf DEF RecordInv
  <2>4. AnswersInv'
    BY <1>1, <1>3, <2>1 DEF Answering, AnswersInv
  <2>5. AnswersHold'
    BY <1>3, <2>1, <2>2 DEF Answering, AnswersHold
  <2> QED BY <2>3, <2>4, <2>5 DEF Answering
<1>4. CASE RecordHead
  <2>1. UNCHANGED <<facts, idem_cache, nextId, transactions>> /\ job.next = "head"
    BY <1>4 DEF RecordHead, At
  <2>2. CASE job.p.idem = None
    <3>1. replies' = replies \cup {[key |-> None, fact |-> job.fact, tx |-> job.p.tx]} /\ job' = NoJob
      BY <1>4, <2>2 DEF RecordHead, Answer, Leave
    <3> QED BY <1>3, <1>4, <3>1
  <2>3. CASE job.p.idem # None
    <3>1. replies' = replies /\ job' = [job EXCEPT !.next = "key"]
      BY <1>4, <2>3 DEF RecordHead, GoOn
    <3>2. job'.p = job.p /\ job'.fact = job.fact /\ job'.next = "key"
      BY <1>0, <3>1 DEF Recording
    <3>3. \E t \in transactions : t.id = job.p.tx
      BY <1>0, <2>1 DEF Answering, RecordInv
    <3>4. RecordInv'
      BY <1>1, <2>1, <2>3, <3>2, <3>3 DEF RecordInv, IsDuplicate
    <3>5. AnswersInv' /\ AnswersHold'
      BY <2>1, <3>1 DEF Answering, AnswersInv, AnswersHold
    <3> QED BY <3>4, <3>5 DEF Answering
  <2> QED BY <2>2, <2>3
<1>5. CASE RecordKey
  <2> DEFINE k == job.p.idem
             v == [fact |-> job.fact, tx |-> job.p.tx]
             a == [key |-> k, fact |-> job.fact, tx |-> job.p.tx]
  <2>1. /\ UNCHANGED <<facts, nextId, transactions>> /\ job.next = "key" /\ job' = NoJob
        /\ idem_cache' = With(idem_cache, k, v) /\ replies' = replies \cup {a}
    BY <1>5 DEF RecordKey, At, Answer, Leave
  <2>2. k # None /\ k \notin DOMAIN idem_cache /\ \E t \in transactions : t.id = job.p.tx
    BY <1>0, <1>1, <2>1 DEF Answering, RecordInv, IsDuplicate
  <2>3. /\ DOMAIN idem_cache' = DOMAIN idem_cache \cup {k} /\ idem_cache'[k] = v
        /\ \A l \in DOMAIN idem_cache : idem_cache'[l] = idem_cache[l]
    BY <2>1, <2>2 DEF With
  <2>4. /\ v.fact = job.fact /\ v.tx = job.p.tx
        /\ a.key = k /\ a.fact = job.fact /\ a.tx = job.p.tx
        /\ [key |-> k, fact |-> v.fact, tx |-> v.tx] = a
        /\ [fact |-> a.fact, tx |-> a.tx] = v
    OBVIOUS
  <2>5. RecordInv'
    BY <2>1, JobOf DEF RecordInv
  <2> HIDE DEF k, v, a
  <2>6. AnswersInv'
    <3>1. \A l \in DOMAIN idem_cache' :
            [key |-> l, fact |-> idem_cache'[l].fact, tx |-> idem_cache'[l].tx] \in replies'
      BY <2>1, <2>3, <2>4 DEF Answering, AnswersInv
    <3> QED BY <1>1, <2>1, <2>4, <3>1 DEF Answering, AnswersInv
  <2>7. AnswersHold'
    <3>1. \A b \in replies :
            b.key # None => /\ b.key \in DOMAIN idem_cache'
                            /\ idem_cache'[b.key] = [fact |-> b.fact, tx |-> b.tx]
      BY <2>3 DEF Answering, AnswersHold
    <3> QED BY <2>1, <2>2, <2>3, <2>4, <3>1 DEF Answering, AnswersHold
  <2> QED BY <2>5, <2>6, <2>7 DEF Answering
<1> QED BY <1>2, <1>4, <1>5

LEMMA AnsweringStep ==
  ASSUME TypeOK, Answering, [Next]_vars
  PROVE  Answering'
<1>0. facts \subseteq Fact
  BY DEF TypeOK, StoreTypeOK
<1>1. CASE UNCHANGED <<facts, transactions, idem_cache, nextId, replies, job>>
  BY <1>1 DEF Answering, RecordInv, AnswersInv, AnswersHold, IsDuplicate
<1>2. ASSUME UNCHANGED <<facts, transactions, idem_cache, nextId, replies>>, job' \notin Recording
      PROVE  Answering'
  BY <1>2, NoNews
<1>3. ASSUME NEW p \in Retractions, NEW id, RetractFact(id, p)
      PROVE  Answering'
  <2>1. PICK f \in Retractable(id, p) :
          facts' = (facts \ {f}) \cup {[f EXCEPT !.retracted = TRUE, !.to = p.ts]}
    BY <1>3 DEF RetractFact
  <2>2. f \in facts /\ f \in Fact
    BY <1>0, <2>1 DEF Retractable
  <2> DEFINE g == [f EXCEPT !.retracted = TRUE, !.to = p.ts]
  <2>3. g.id = f.id /\ g.tx = f.tx
    BY <2>2 DEF Fact
  <2> HIDE DEF g
  <2>4. \A h \in facts' : \E i \in facts : i.id = h.id /\ i.tx = h.tx
    BY <2>1, <2>2, <2>3 DEF g
  <2>5. /\ UNCHANGED <<replies, idem_cache, nextId, transactions>>
        /\ job'.next = "retract transaction"
    BY <1>3 DEF RetractFact, GoOn
  <2>6. job' \notin Recording
    BY <2>5 DEF Recording
  <2> QED BY <2>4, <2>5, <2>6, NoNews
<1>4. ASSUME NEW n, NEW info, CreateNamespaceRow(n, info)
      PROVE  Answering'
  BY <1>2, <1>4 DEF CreateNamespaceRow, GoOn, Recording
<1>5. ASSUME NEW before, NEW scope, GcFacts(before, scope)
      PROVE  Answering'
  <2>1. /\ facts' \subseteq facts /\ UNCHANGED <<replies, idem_cache, nextId, transactions>>
        /\ job'.next = "gc transactions"
    BY <1>5 DEF GcFacts, GoOn
  <2>2. job' \notin Recording
    BY <2>1 DEF Recording
  <2> QED BY <2>1, <2>2, NoNews
<1>6. ASSUME OneStatement, UNCHANGED <<facts, transactions, idem_cache, nextId>>
      PROVE  Answering'
  BY <1>2, <1>6, JobOf DEF OneStatement, Leave
<1>7. CASE Call
  <2>1. ASSUME NEW n, NEW b, NEW parent, NEW at, CreateBranch(n, b, parent, at)
        PROVE  Answering'
    BY <1>6, <2>1 DEF CreateBranch, StoreCreateBranch
  <2>2. ASSUME NEW n, NEW b, DeleteBranch(n, b)
        PROVE  Answering'
    BY <1>6, <2>2 DEF DeleteBranch, StoreDeleteBranch
  <2>3. ASSUME NEW l, NEW tx, PutTag(l, tx)
        PROVE  Answering'
    BY <1>6, <2>3 DEF PutTag, StorePutTag
  <2>4. ASSUME NEW l, DeleteTag(l)
        PROVE  Answering'
    BY <1>6, <2>4 DEF DeleteTag, StoreDeleteTag
  <2> QED BY <1>3, <1>4, <1>5, <1>7, <2>1, <2>2, <2>3, <2>4, RecordAnswering DEF Call
<1>8. CASE RetractTransaction \/ RetractHead
  <2>1. job' \notin Recording
    <3>1. job \in Retracting
      BY <1>8, JobOf DEF RetractTransaction, RetractHead, At
    <3>2. job'.next \in {"retract head", "none"}
      <4>1. CASE RetractTransaction
        BY <3>1, <4>1 DEF RetractTransaction, GoOn, Retracting
      <4>2. CASE RetractHead
        BY <4>2 DEF RetractHead, Leave, NoJob
      <4> QED BY <1>8, <4>1, <4>2
    <3> QED BY <3>2 DEF Recording
  <2>2. /\ UNCHANGED <<facts, replies, idem_cache, nextId>>
        /\ transactions \subseteq transactions'
    BY <1>8 DEF RetractTransaction, RetractHead
  <2> QED BY <2>1, <2>2, NoNews
<1>9. CASE GcTransactions
  <2>1. /\ UNCHANGED <<facts, replies, idem_cache, nextId>> /\ job' = NoJob
        /\ transactions' = {t \in transactions : \E f \in facts : f.tx = t.id}
    BY <1>9 DEF GcTransactions, Leave
  <2> QED BY <2>1, JobOf, NoNews
<1>10. CASE CreateNamespaceMain \/ StatementFails \/ Crash
  <2>1. UNCHANGED <<facts, transactions, idem_cache, nextId, replies>> /\ job' = NoJob
    BY <1>10 DEF CreateNamespaceMain, StatementFails, Crash, Leave, tables, store
  <2> QED BY <1>2, <2>1, JobOf
<1>11. CASE SeedNamespace \/ SeedBranch \/ UNCHANGED vars
  BY <1>1, <1>11 DEF SeedNamespace, SeedBranch, vars, tables, store
<1> QED BY <1>7, <1>8, <1>9, <1>10, <1>11, RecordStatementAnswering DEF Next, Statement

-----------------------------------------------------------------------------
(* How often a key is used *)

\* A key stays taken, or there was a fault.
LEMMA KeyedStays ==
  ASSUME TypeOK, KeyedInv, keyed' = keyed,
         \/ faults' = faults + 1
         \/ faults' = faults /\ \A k \in IdemKeys : KeyTaken(k) => KeyTaken(k)'
  PROVE  KeyedInv'
<1> DEFINE of(k) == {x \in keyed : x[1] = k}
<1>1. faults \in Nat /\ IsFiniteSet(keyed)
  BY DEF TypeOK, KeyedInv
<1>2. ASSUME NEW k \in IdemKeys
      PROVE  Cardinality(of(k)) <= faults' + IF KeyTaken(k)' THEN 1 ELSE 0
  <2>1. of(k) \subseteq keyed
    OBVIOUS
  <2>2. Cardinality(of(k)) \in Nat
    BY <1>1, <2>1, FS_Subset, FS_CardinalityType
  <2>3. Cardinality(of(k)) <= faults + IF KeyTaken(k) THEN 1 ELSE 0
    BY DEF KeyedInv
  <2> HIDE DEF of
  <2> QED BY <1>1, <2>2, <2>3
<1> QED BY <1>1, <1>2 DEF KeyedInv

LEMMA RecordFactKeyed ==
  ASSUME TypeOK, KeyedInv, NEW p \in Writes, RecordFact(p)
  PROVE  KeyedInv'
<1> DEFINE new == [next |-> "transaction", p |-> p, fact |-> nextId]
<1>1. /\ faults \in Nat /\ IsFiniteSet(keyed) /\ faults' = faults /\ job = NoJob /\ job' = new
      /\ idem_cache' = idem_cache /\ p.idem \notin DOMAIN idem_cache
      /\ keyed' = keyed \cup ({p.idem} \ {None}) \X {nextId}
  BY DEF TypeOK, KeyedInv, RecordFact, IsDuplicate, GoOn, Enter
<1>2. job \notin Recording /\ job' \in Recording /\ job'.p = p
  <2>1. nextId \in Nat
    BY DEF TypeOK, StoreTypeOK
  <2> QED BY <1>1, <2>1, JobOf DEF Recording
<1>3. \A k : KeyTaken(k) <=> k \in DOMAIN idem_cache
  BY <1>2 DEF KeyTaken
<1>4. \A k : KeyTaken(k)' <=> k \in DOMAIN idem_cache \/ k = p.idem
  BY <1>1, <1>2 DEF KeyTaken
<1> HIDE DEF new
<1>5. CASE p.idem = None
  <2>1. keyed' = keyed
    BY <1>1, <1>5
  <2> QED BY <1>1, <1>3, <1>4, <2>1, KeyedStays
<1>6. CASE p.idem # None
  <2> DEFINE x == <<p.idem, nextId>>
  <2>1. keyed' = keyed \cup {x} /\ x[1] = p.idem
    BY <1>1, <1>6
  <2> HIDE DEF x
  <2>2. IsFiniteSet(keyed')
    BY <1>1, <2>1, FS_AddElement
  <2>3. ASSUME NEW k \in IdemKeys
        PROVE  Cardinality({y \in keyed' : y[1] = k}) <= faults + IF KeyTaken(k)' THEN 1 ELSE 0
    <3> DEFINE before == {y \in keyed : y[1] = k}
               after == {y \in keyed' : y[1] = k}
    <3>1. IsFiniteSet(before) /\ Cardinality(before) \in Nat
      <4>1. before \subseteq keyed
        OBVIOUS
      <4> QED BY <1>1, <4>1, FS_Subset, FS_CardinalityType
    <3>2. Cardinality(before) <= faults + IF KeyTaken(k) THEN 1 ELSE 0
      BY DEF KeyedInv
    <3>3. after = IF k = p.idem THEN before \cup {x} ELSE before
      BY <2>1
    <3> HIDE DEF before, after
    <3>4. CASE k = p.idem
      <4>1. Cardinality(before \cup {x}) \in {Cardinality(before), Cardinality(before) + 1}
        BY <3>1, FS_AddElement
      <4>2. ~KeyTaken(k) /\ KeyTaken(k)'
        BY <1>1, <1>3, <1>4, <3>4
      <4>3. Cardinality(before) <= faults /\ Cardinality(after) <= faults + 1
        BY <1>1, <3>1, <3>2, <3>3, <3>4, <4>1, <4>2
      <4> QED BY <4>2, <4>3 DEF after
    <3>5. CASE k # p.idem
      <4>1. KeyTaken(k)' <=> KeyTaken(k)
        BY <1>3, <1>4, <3>5
      <4>2. Cardinality(after) <= faults + IF KeyTaken(k)' THEN 1 ELSE 0
        BY <3>2, <3>3, <3>5, <4>1
      <4> QED BY <4>2 DEF after
    <3> QED BY <3>4, <3>5
  <2> QED BY <1>1, <2>2, <2>3 DEF KeyedInv
<1> QED BY <1>5, <1>6

LEMMA KeyedStep ==
  ASSUME TypeOK, RecordInv, KeyedInv, [Next]_vars
  PROVE  KeyedInv'
<1>1. ASSUME NEW p \in Writes, RecordHit(p)
      PROVE  KeyedInv'
  <2>1. UNCHANGED <<keyed, faults, idem_cache>> /\ job = NoJob
    BY <1>1 DEF RecordHit, Enter, tables, store
  <2>2. \A k : KeyTaken(k) => KeyTaken(k)'
    BY <2>1, JobOf DEF KeyTaken
  <2> QED BY <2>1, <2>2, KeyedStays
<1>2. ASSUME UNCHANGED <<keyed, faults, idem_cache>>, job \notin Recording
      PROVE  KeyedInv'
  BY <1>2, KeyedStays DEF KeyTaken
<1>3. CASE Call /\ ~\E p \in Writes : RecordFact(p)
  <2>1. job = NoJob
    BY <1>3 DEF Call, RecordHit, RetractFact, CreateBranch, DeleteBranch,
       CreateNamespaceRow, GcFacts, PutTag, DeleteTag, OneStatement, Enter
  <2>2. UNCHANGED <<keyed, faults>>
    BY <1>3 DEF Call, RecordHit, RetractFact, CreateBranch, DeleteBranch,
       CreateNamespaceRow, GcFacts, PutTag, DeleteTag, OneStatement, Enter
  <2>3. idem_cache' = idem_cache
    BY <1>3 DEF Call, RecordHit, RetractFact, CreateBranch, DeleteBranch,
       CreateNamespaceRow, GcFacts, PutTag, DeleteTag, StoreCreateBranch,
       StoreDeleteBranch, StorePutTag, StoreDeleteTag, tables, store
  <2> QED BY <1>2, <2>1, <2>2, <2>3, JobOf
<1>4. CASE RecordTransaction
  <2>1. /\ UNCHANGED <<keyed, faults, idem_cache>> /\ job \in Recording
        /\ job' = [job EXCEPT !.next = "head"]
    BY <1>4, JobOf DEF RecordTransaction, At, GoOn
  <2>2. job' \in Recording /\ job'.p = job.p
    BY <2>1 DEF Recording
  <2> QED BY <2>1, <2>2, KeyedStays DEF KeyTaken
<1>5. CASE RecordHead
  <2>1. UNCHANGED <<keyed, faults, idem_cache>> /\ job \in Recording
    BY <1>5, JobOf DEF RecordHead, At
  <2>2. CASE job.p.idem = None
    <3>1. \A k \in IdemKeys : k # job.p.idem
      BY <2>2, NamesAssumption
    <3> QED BY <2>1, <3>1, KeyedStays DEF KeyTaken
  <2>3. CASE job.p.idem # None
    <3>1. job' = [job EXCEPT !.next = "key"]
      BY <1>5, <2>3 DEF RecordHead, GoOn
    <3>2. job' \in Recording /\ job'.p = job.p
      BY <2>1, <3>1 DEF Recording
    <3> QED BY <2>1, <3>2, KeyedStays DEF KeyTaken
  <2> QED BY <2>2, <2>3
<1>6. CASE RecordKey
  <2>1. /\ UNCHANGED <<keyed, faults>> /\ job \in Recording
        /\ DOMAIN idem_cache' = DOMAIN idem_cache \cup {job.p.idem}
    BY <1>6, JobOf DEF RecordKey, At, With
  <2> QED BY <2>1, KeyedStays DEF KeyTaken
<1>7. CASE RetractTransaction \/ RetractHead \/ CreateNamespaceMain \/ GcTransactions
  <2>1. job \notin Recording
    BY <1>7 DEF RetractTransaction, RetractHead, CreateNamespaceMain, GcTransactions, At, Recording
  <2>2. UNCHANGED <<keyed, faults, idem_cache>>
    BY <1>7 DEF RetractTransaction, RetractHead, CreateNamespaceMain, GcTransactions, At
  <2> QED BY <1>2, <2>1, <2>2
<1>8. CASE StatementFails \/ Crash
  BY <1>8, KeyedStays DEF StatementFails, Crash, Fault
<1>9. CASE SeedNamespace \/ SeedBranch \/ UNCHANGED vars
  <2>1. UNCHANGED <<keyed, faults, idem_cache, job>>
    BY <1>9 DEF SeedNamespace, SeedBranch, vars, tables, store
  <2> QED BY <2>1, KeyedStays DEF KeyTaken
<1> QED
  BY <1>1, <1>3, <1>4, <1>5, <1>6, <1>7, <1>8, <1>9, RecordFactKeyed DEF Next, Call, Statement

-----------------------------------------------------------------------------
(* Damage *)

LEMMA SizeOfPart ==
  ASSUME NEW S, IsFiniteSet(S), NEW T, T \subseteq S
  PROVE  /\ IsFiniteSet(T) /\ Cardinality(S) \in Nat /\ Cardinality(T) \in Nat
         /\ Cardinality(T) <= Cardinality(S)
BY FS_Subset, FS_CardinalityType

LEMMA SizeWithOneMore ==
  ASSUME NEW S, IsFiniteSet(S), NEW x, NEW T, T \subseteq S \cup {x}
  PROVE  /\ IsFiniteSet(T) /\ Cardinality(S) \in Nat /\ Cardinality(T) \in Nat
         /\ Cardinality(T) <= Cardinality(S) + 1
<1>1. /\ IsFiniteSet(S \cup {x}) /\ Cardinality(S) \in Nat
      /\ Cardinality(S \cup {x}) \in {Cardinality(S), Cardinality(S) + 1}
  BY FS_AddElement, FS_CardinalityType
<1>2. IsFiniteSet(T) /\ Cardinality(T) \in Nat /\ Cardinality(T) <= Cardinality(S \cup {x})
  BY <1>1, SizeOfPart
<1> QED BY <1>1, <1>2

\* The sizes that DamageInv is about.
LEMMA DamageSizes ==
  ASSUME TypeOK, DamageInv
  PROVE  /\ faults \in Nat /\ Running \in {0, 1}
         /\ IsFiniteSet(Orphans \ MendedFacts) /\ IsFiniteSet(Rootless \ MendedNamespaces)
         /\ Cardinality(Orphans) \in Nat /\ Cardinality(Orphans \ MendedFacts) \in Nat
         /\ Cardinality(Rootless) \in Nat /\ Cardinality(Rootless \ MendedNamespaces) \in Nat
<1>1. faults \in Nat /\ Running \in {0, 1}
  BY DEF TypeOK, Running
<1>2. /\ Orphans \ MendedFacts \subseteq Orphans /\ Rootless \ MendedNamespaces \subseteq Rootless
      /\ IsFiniteSet(Orphans) /\ IsFiniteSet(Rootless)
  BY DEF DamageInv
<1> QED BY <1>1, <1>2, SizeOfPart

\* A step after which what was about to be repaired is, and nothing is broken.
LEMMA NothingBroken ==
  ASSUME TypeOK, DamageInv, faults' = faults, IsFiniteSet(Orphans'),
         Cardinality(Orphans') <= Cardinality(Orphans \ MendedFacts),
         Rootless' \subseteq Rootless \ MendedNamespaces
  PROVE  DamageInv'
<1>1. Cardinality(Orphans \ MendedFacts) + Cardinality(Rootless \ MendedNamespaces) <= faults
  BY DEF DamageInv
<1>2. /\ IsFiniteSet(Rootless') /\ Cardinality(Rootless') \in Nat
      /\ Cardinality(Rootless') <= Cardinality(Rootless \ MendedNamespaces)
  BY DamageSizes, SizeOfPart
<1>3. /\ Cardinality(Orphans') \in Nat
      /\ Cardinality((Orphans \ MendedFacts)') \in Nat
      /\ Cardinality((Orphans \ MendedFacts)') <= Cardinality(Orphans')
  BY SizeOfPart
<1>4. /\ Cardinality((Rootless \ MendedNamespaces)') \in Nat
      /\ Cardinality((Rootless \ MendedNamespaces)') <= Cardinality(Rootless')
  BY <1>2, SizeOfPart
<1>5. Running' \in {0, 1}
  BY DEF Running
<1>6. /\ Cardinality(Orphans') + Cardinality(Rootless') <= faults' + Running'
      /\ Cardinality((Orphans \ MendedFacts)') + Cardinality((Rootless \ MendedNamespaces)')
           <= faults'
  BY <1>1, <1>2, <1>3, <1>4, <1>5, DamageSizes
<1> QED BY <1>2, <1>6 DEF DamageInv

\* A fault leaves what is under way as it is.
LEMMA FaultBreaks ==
  ASSUME TypeOK, DamageInv, faults' = faults + 1,
         Orphans' \subseteq Orphans, Rootless' \subseteq Rootless
  PROVE  DamageInv'
<1>1. /\ Cardinality(Orphans) + Cardinality(Rootless) <= faults + Running
      /\ IsFiniteSet(Orphans) /\ IsFiniteSet(Rootless)
  BY DEF DamageInv
<1>2. /\ IsFiniteSet(Orphans') /\ Cardinality(Orphans') \in Nat
      /\ Cardinality(Orphans') <= Cardinality(Orphans)
  BY <1>1, SizeOfPart
<1>3. /\ IsFiniteSet(Rootless') /\ Cardinality(Rootless') \in Nat
      /\ Cardinality(Rootless') <= Cardinality(Rootless)
  BY <1>1, SizeOfPart
<1>4. /\ Cardinality((Orphans \ MendedFacts)') \in Nat
      /\ Cardinality((Orphans \ MendedFacts)') <= Cardinality(Orphans')
  BY <1>2, SizeOfPart
<1>5. /\ Cardinality((Rootless \ MendedNamespaces)') \in Nat
      /\ Cardinality((Rootless \ MendedNamespaces)') <= Cardinality(Rootless')
  BY <1>3, SizeOfPart
<1>6. Running' \in {0, 1}
  BY DEF Running
<1>7. /\ Cardinality(Orphans') + Cardinality(Rootless') <= faults' + Running'
      /\ Cardinality((Orphans \ MendedFacts)') + Cardinality((Rootless \ MendedNamespaces)')
           <= faults'
  BY <1>1, <1>2, <1>3, <1>4, <1>5, <1>6, DamageSizes
<1> QED BY <1>2, <1>3, <1>7 DEF DamageInv

\* The first statement of a call leaves one fact or one namespace for a later one to repair.
LEMMA CallBreaks ==
  ASSUME TypeOK, DamageInv, faults' = faults, Running' = 1,
         \/ /\ \E x : /\ Orphans' \subseteq (Orphans \ MendedFacts) \cup {x}
                      /\ (Orphans \ MendedFacts)' \subseteq Orphans \ MendedFacts
            /\ Rootless' \subseteq Rootless \ MendedNamespaces
         \/ /\ Orphans' \subseteq Orphans \ MendedFacts
            /\ \E n : /\ Rootless' \subseteq (Rootless \ MendedNamespaces) \cup {n}
                      /\ (Rootless \ MendedNamespaces)' \subseteq Rootless \ MendedNamespaces
  PROVE  DamageInv'
<1>1. Cardinality(Orphans \ MendedFacts) + Cardinality(Rootless \ MendedNamespaces) <= faults
  BY DEF DamageInv
<1>2. CASE /\ \E x : /\ Orphans' \subseteq (Orphans \ MendedFacts) \cup {x}
                     /\ (Orphans \ MendedFacts)' \subseteq Orphans \ MendedFacts
           /\ Rootless' \subseteq Rootless \ MendedNamespaces
  <2>1. PICK x : /\ Orphans' \subseteq (Orphans \ MendedFacts) \cup {x}
                 /\ (Orphans \ MendedFacts)' \subseteq Orphans \ MendedFacts
    BY <1>2
  <2>2. /\ IsFiniteSet(Orphans') /\ Cardinality(Orphans') \in Nat
        /\ Cardinality(Orphans') <= Cardinality(Orphans \ MendedFacts) + 1
    BY <2>1, DamageSizes, SizeWithOneMore
  <2>3. /\ Cardinality((Orphans \ MendedFacts)') \in Nat
        /\ Cardinality((Orphans \ MendedFacts)') <= Cardinality(Orphans \ MendedFacts)
    BY <2>1, DamageSizes, SizeOfPart
  <2>4. /\ IsFiniteSet(Rootless') /\ Cardinality(Rootless') \in Nat
        /\ Cardinality(Rootless') <= Cardinality(Rootless \ MendedNamespaces)
    BY <1>2, DamageSizes, SizeOfPart
  <2>5. /\ Cardinality((Rootless \ MendedNamespaces)') \in Nat
        /\ Cardinality((Rootless \ MendedNamespaces)') <= Cardinality(Rootless')
    BY <2>4, SizeOfPart
  <2>6. /\ Cardinality(Orphans') + Cardinality(Rootless') <= faults' + Running'
        /\ Cardinality((Orphans \ MendedFacts)') + Cardinality((Rootless \ MendedNamespaces)')
             <= faults'
    BY <1>1, <2>2, <2>3, <2>4, <2>5, DamageSizes
  <2> QED BY <2>2, <2>4, <2>6 DEF DamageInv
<1>3. CASE /\ Orphans' \subseteq Orphans \ MendedFacts
           /\ \E n : /\ Rootless' \subseteq (Rootless \ MendedNamespaces) \cup {n}
                     /\ (Rootless \ MendedNamespaces)' \subseteq Rootless \ MendedNamespaces
  <2>1. PICK n : /\ Rootless' \subseteq (Rootless \ MendedNamespaces) \cup {n}
                 /\ (Rootless \ MendedNamespaces)' \subseteq Rootless \ MendedNamespaces
    BY <1>3
  <2>2. /\ IsFiniteSet(Rootless') /\ Cardinality(Rootless') \in Nat
        /\ Cardinality(Rootless') <= Cardinality(Rootless \ MendedNamespaces) + 1
    BY <2>1, DamageSizes, SizeWithOneMore
  <2>3. /\ Cardinality((Rootless \ MendedNamespaces)') \in Nat
        /\ Cardinality((Rootless \ MendedNamespaces)') <= Cardinality(Rootless \ MendedNamespaces)
    BY <2>1, DamageSizes, SizeOfPart
  <2>4. /\ IsFiniteSet(Orphans') /\ Cardinality(Orphans') \in Nat
        /\ Cardinality(Orphans') <= Cardinality(Orphans \ MendedFacts)
    BY <1>3, DamageSizes, SizeOfPart
  <2>5. /\ Cardinality((Orphans \ MendedFacts)') \in Nat
        /\ Cardinality((Orphans \ MendedFacts)') <= Cardinality(Orphans')
    BY <2>4, SizeOfPart
  <2>6. /\ Cardinality(Orphans') + Cardinality(Rootless') <= faults' + Running'
        /\ Cardinality((Orphans \ MendedFacts)') + Cardinality((Rootless \ MendedNamespaces)')
             <= faults'
    BY <1>1, <2>2, <2>3, <2>4, <2>5, DamageSizes
  <2> QED BY <2>2, <2>4, <2>6 DEF DamageInv
<1> QED BY <1>2, <1>3

\* Between calls of an open database, nothing is under way.
LEMMA NothingMended ==
  ASSUME TypeOK, job = NoJob, phase # "seeding"
  PROVE  MendedFacts = {} /\ MendedNamespaces = {}
<1>1. job \notin Recording \cup Creating
  BY JobOf
<1> QED BY <1>1 DEF MendedFacts, MendedNamespaces

\* A statement that leaves no more orphans, and every root where it is.
LEMMA RootsStay ==
  ASSUME namespaces' = namespaces,
         \A n \in DOMAIN namespaces :
           <<n, Main>> \in DOMAIN branches /\ branches[<<n, Main>>].parent = None =>
             <<n, Main>> \in DOMAIN branches' /\ branches'[<<n, Main>>].parent = None
  PROVE  Rootless' \subseteq Rootless
BY DEF Rootless

LEMMA HeadsKeepRoots ==
  ASSUME TypeOK, namespaces' = namespaces, NEW n, NEW b, NEW tx,
         branches' = BranchesAfter(n, b, tx)
  PROVE  Rootless' \subseteq Rootless
<1>1. \A k \in DOMAIN branches : branches[k] \in BranchInfo
  BY DEF TypeOK, StoreTypeOK
<1>2. DOMAIN branches' = DOMAIN branches
  BY DEF BranchesAfter
<1>3. \A k \in DOMAIN branches : branches'[k].parent = branches[k].parent
  BY <1>1 DEF BranchesAfter, BranchInfo
<1> QED BY <1>2, <1>3, RootsStay

LEMMA CallDamage ==
  ASSUME TypeOK, SeedInv, DamageInv, Call
  PROVE  DamageInv'
<1>1. job = NoJob /\ phase = "open" /\ phase' = "open" /\ faults' = faults
  BY DEF Call, RecordHit, RecordFact, RetractFact, CreateBranch, DeleteBranch,
     CreateNamespaceRow, GcFacts, PutTag, DeleteTag, OneStatement, Enter
<1>2. MendedFacts = {} /\ MendedNamespaces = {}
  BY <1>1, NothingMended
<1>3. IsFiniteSet(Orphans)
  BY DEF DamageInv
<1>4. ASSUME UNCHANGED <<facts, transactions>>, Rootless' \subseteq Rootless
      PROVE  DamageInv'
  <2>1. Orphans' = Orphans
    BY <1>4 DEF Orphans
  <2>2. Cardinality(Orphans') <= Cardinality(Orphans \ MendedFacts)
    <3>1. Orphans \ MendedFacts = Orphans' /\ Cardinality(Orphans') \in Nat
      BY <1>2, <1>3, <2>1, SizeOfPart
    <3> QED BY <3>1
  <2> QED BY <1>1, <1>2, <1>3, <1>4, <2>1, <2>2, NothingBroken
<1>5. ASSUME UNCHANGED <<branches, namespaces>>
      PROVE  Rootless' = Rootless
  BY <1>5 DEF Rootless
<1>6. ASSUME NEW p \in Writes, RecordHit(p)
      PROVE  DamageInv'
  BY <1>4, <1>5, <1>6 DEF RecordHit, tables, store
<1>7. ASSUME NEW p \in Writes, RecordFact(p)
      PROVE  DamageInv'
  <2>1. PICK x : x = NewFact(p, nextId)
    OBVIOUS
  <2>2. /\ facts' = facts \cup {x} /\ UNCHANGED <<transactions, branches, namespaces>>
        /\ job' = [next |-> "transaction", p |-> p, fact |-> nextId] /\ x.tx = p.tx
    BY <1>7, <2>1 DEF RecordFact, GoOn, NewFact
  <2>3. job'.next = "transaction" /\ job'.p = p /\ job' \in Recording
    BY <2>2 DEF TypeOK, StoreTypeOK, Recording
  <2>4. Orphans' \subseteq Orphans \cup {x}
    BY <2>2 DEF Orphans
  <2>5. x \in Orphans' => x \in MendedFacts'
    BY <2>2, <2>3 DEF MendedFacts
  <2>6. Running' = 1
    BY <2>3, <2>2 DEF Running, NoJob
  <2> QED BY <1>1, <1>2, <1>5, <2>2, <2>4, <2>5, <2>6, CallBreaks
<1>8. ASSUME NEW p \in Retractions, NEW id, RetractFact(id, p)
      PROVE  DamageInv'
  <2>1. PICK f \in Retractable(id, p) :
          facts' = (facts \ {f}) \cup {[f EXCEPT !.retracted = TRUE, !.to = p.ts]}
    BY <1>8 DEF RetractFact
  <2>2. PICK g : g = [f EXCEPT !.retracted = TRUE, !.to = p.ts]
    OBVIOUS
  <2>3. f \in facts /\ g.tx = f.tx /\ facts' = (facts \ {f}) \cup {g}
    BY <2>1, <2>2 DEF TypeOK, StoreTypeOK, Fact, Retractable
  <2>4. UNCHANGED <<transactions, branches, namespaces>>
    BY <1>8 DEF RetractFact
  <2>5. IsFiniteSet(Orphans') /\ Cardinality(Orphans') <= Cardinality(Orphans)
    <3>1. CASE f \in Orphans
      <4>1. Orphans' \subseteq (Orphans \ {f}) \cup {g}
        BY <2>3, <2>4 DEF Orphans
      <4>2. /\ IsFiniteSet(Orphans \ {f}) /\ Cardinality(Orphans) \in Nat
            /\ Cardinality(Orphans \ {f}) = Cardinality(Orphans) - 1
        BY <1>3, <3>1, FS_RemoveElement, FS_CardinalityType
      <4>3. IsFiniteSet(Orphans') /\ Cardinality(Orphans') \in Nat
            /\ Cardinality(Orphans') <= Cardinality(Orphans \ {f}) + 1
        BY <4>1, <4>2, SizeWithOneMore
      <4> QED BY <4>2, <4>3
    <3>2. CASE f \notin Orphans
      <4>1. Orphans' \subseteq Orphans
        BY <2>3, <2>4, <3>2 DEF Orphans
      <4> QED BY <1>3, <4>1, SizeOfPart
    <3> QED BY <3>1, <3>2
  <2>6. Orphans \ MendedFacts = Orphans
    BY <1>2
  <2> QED BY <1>1, <1>2, <1>5, <2>4, <2>5, <2>6, NothingBroken
<1>9. ASSUME NEW n, NEW b, NEW parent \in Branches, NEW at, CreateBranch(n, b, parent, at)
      PROVE  DamageInv'
  <2>1. parent # None
    BY NamesAssumption
  <2>2. /\ <<n, b>> \notin DOMAIN branches
        /\ branches' = With(branches, <<n, b>>, [parent |-> parent, forkAt |-> at, head |-> NoTx])
        /\ UNCHANGED <<facts, transactions, namespaces>>
    BY <1>9 DEF CreateBranch, StoreCreateBranch, CanFork
  <2>3. \A k \in DOMAIN branches : k \in DOMAIN branches' /\ branches'[k] = branches[k]
    BY <2>2 DEF With
  <2> QED BY <1>4, <2>2, <2>3, RootsStay
<1>10. ASSUME NEW n, NEW b, DeleteBranch(n, b)
       PROVE  DamageInv'
  <2>1. /\ branches[<<n, b>>].parent # None
        /\ branches' = Without(branches, <<n, b>>)
        /\ UNCHANGED <<facts, transactions, namespaces>>
    BY <1>10 DEF DeleteBranch, StoreDeleteBranch
  <2>2. \A k \in DOMAIN branches \ {<<n, b>>} :
          k \in DOMAIN branches' /\ branches'[k] = branches[k]
    BY <2>1 DEF Without
  <2> QED BY <1>4, <2>1, <2>2, RootsStay
<1>11. ASSUME NEW n \in Namespaces, NEW info, CreateNamespaceRow(n, info)
       PROVE  DamageInv'
  <2>1. /\ namespaces' = With(namespaces, n, info) /\ job' = [next |-> "main branch", ns |-> n]
        /\ UNCHANGED <<facts, transactions, branches>>
    BY <1>11 DEF CreateNamespaceRow, GoOn
  <2>2. job'.next = "main branch" /\ job'.ns = n /\ job' \in Creating
    BY <2>1 DEF Creating
  <2>3. Rootless' \subseteq Rootless \cup {n}
    BY <2>1 DEF Rootless, With
  <2>4. n \in Rootless' => n \in MendedNamespaces'
    BY <2>2 DEF MendedNamespaces
  <2>5. Orphans' = Orphans
    BY <2>1 DEF Orphans
  <2>6. Running' = 1
    BY <2>1, <2>2 DEF Running, NoJob
  <2>7. /\ Rootless' \subseteq (Rootless \ MendedNamespaces) \cup {n}
        /\ (Rootless \ MendedNamespaces)' \subseteq Rootless \ MendedNamespaces
        /\ Orphans' \subseteq Orphans \ MendedFacts
    BY <1>2, <2>3, <2>4, <2>5
  <2> QED BY <1>1, <2>6, <2>7, CallBreaks
<1>12. ASSUME NEW before, NEW scope, GcFacts(before, scope)
       PROVE  DamageInv'
  <2>1. facts' \subseteq facts /\ UNCHANGED <<transactions, branches, namespaces>>
    BY <1>12 DEF GcFacts
  <2>2. Orphans' \subseteq Orphans
    BY <2>1 DEF Orphans
  <2>3. IsFiniteSet(Orphans') /\ Cardinality(Orphans') <= Cardinality(Orphans)
    BY <1>3, <2>2, SizeOfPart
  <2>4. Orphans \ MendedFacts = Orphans
    BY <1>2
  <2> QED BY <1>1, <1>2, <1>5, <2>1, <2>3, <2>4, NothingBroken
<1>13. ASSUME NEW l, NEW tx, PutTag(l, tx)
       PROVE  DamageInv'
  BY <1>4, <1>5, <1>13 DEF PutTag, StorePutTag
<1>14. ASSUME NEW l, DeleteTag(l)
       PROVE  DamageInv'
  BY <1>4, <1>5, <1>14 DEF DeleteTag, StoreDeleteTag
<1> QED
  BY <1>6, <1>7, <1>8, <1>9, <1>10, <1>11, <1>12, <1>13, <1>14 DEF Call

LEMMA StatementDamage ==
  ASSUME TypeOK, SeedInv, DamageInv, Statement
  PROVE  DamageInv'
<1>1. phase = "open" /\ job # NoJob /\ faults' = faults
  <2>1. job # NoJob
    BY JobOf DEF Statement, RecordTransaction, RecordHead, RecordKey,
       RetractTransaction, RetractHead, CreateNamespaceMain, GcTransactions, At, NoJob
  <2>2. faults' = faults
    BY DEF Statement, RecordTransaction, RecordHead, RecordKey,
       RetractTransaction, RetractHead, CreateNamespaceMain, GcTransactions, At
  <2> QED BY <2>1, <2>2 DEF SeedInv
<1>2. IsFiniteSet(Orphans \ MendedFacts)
  BY DamageSizes
<1>3. ASSUME Orphans' \subseteq Orphans \ MendedFacts,
             Rootless' \subseteq Rootless \ MendedNamespaces
      PROVE  DamageInv'
  BY <1>1, <1>2, <1>3, SizeOfPart, NothingBroken
<1>4. job \notin Creating => MendedNamespaces = {}
  BY <1>1 DEF MendedNamespaces
<1>5. job.next # "transaction" => MendedFacts = {}
  BY DEF MendedFacts
<1>6. CASE RecordTransaction
  <2>1. /\ job \in Recording /\ job.next = "transaction" /\ job \notin Creating
        /\ transactions' = TransactionsAfter(job.p)
        /\ UNCHANGED <<facts, branches, namespaces>>
    BY <1>6, JobOf DEF RecordTransaction, At
  <2>2. /\ \A t \in transactions : \E u \in transactions' : u.id = t.id
        /\ \E u \in transactions' : u.id = job.p.tx
    BY <2>1, TransactionsAfterIds DEF TypeOK, StoreTypeOK
  <2>3. Orphans' \subseteq Orphans \ MendedFacts
    BY <2>1, <2>2 DEF Orphans, MendedFacts
  <2>4. Rootless' = Rootless
    BY <2>1 DEF Rootless
  <2> QED BY <1>3, <1>4, <2>1, <2>3, <2>4
<1>7. CASE RecordHead \/ RetractHead
  <2>1. /\ job \notin Creating /\ job.next # "transaction" /\ UNCHANGED <<facts, transactions, namespaces>>
        /\ branches' = BranchesAfter(job.p.ns, job.p.branch, job.p.tx)
    BY <1>7, JobOf DEF RecordHead, RetractHead, At
  <2>2. Orphans' = Orphans
    BY <2>1 DEF Orphans
  <2> QED BY <1>3, <1>4, <1>5, <2>1, <2>2, HeadsKeepRoots
<1>8. CASE RecordKey \/ RetractTransaction \/ GcTransactions
  <2>1. job \notin Creating /\ job.next # "transaction" /\ UNCHANGED <<facts, branches, namespaces>>
    BY <1>8, JobOf DEF RecordKey, RetractTransaction, GcTransactions, At
  <2>2. Orphans' \subseteq Orphans
    <3>1. \A f \in facts, t \in transactions : f.tx = t.id => t \in transactions'
      BY <1>8 DEF RecordKey, RetractTransaction, GcTransactions
    <3> QED BY <2>1, <3>1 DEF Orphans
  <2>3. Rootless' = Rootless
    BY <2>1 DEF Rootless
  <2> QED BY <1>3, <1>4, <1>5, <2>1, <2>2, <2>3
<1>9. CASE CreateNamespaceMain
  <2>1. /\ job \in Creating /\ job.next # "transaction"
        /\ UNCHANGED <<facts, transactions, namespaces>>
        /\ branches' = With(branches, <<job.ns, Main>>, Root)
    BY <1>9, JobOf DEF CreateNamespaceMain, At
  <2>2. Orphans' = Orphans
    BY <2>1 DEF Orphans
  <2>3. Rootless' \subseteq Rootless \ {job.ns}
    BY <2>1 DEF Rootless, With, Root
  <2>4. MendedNamespaces \subseteq {job.ns}
    BY <1>1 DEF MendedNamespaces
  <2> QED BY <1>3, <1>5, <2>1, <2>2, <2>3, <2>4
<1> QED BY <1>6, <1>7, <1>8, <1>9 DEF Statement

LEMMA DamageStep ==
  ASSUME TypeOK, SeedInv, DamageInv, [Next]_vars
  PROVE  DamageInv'
<1>1. CASE SeedNamespace
  <2>1. /\ phase = "closed" /\ phase' = "seeding" /\ job = NoJob
        /\ namespaces' = Keep(namespaces, DefaultNs, DefaultInfo)
        /\ UNCHANGED <<facts, transactions, branches, faults>>
    BY <1>1 DEF SeedNamespace, SeedInv
  <2>2. MendedFacts = {} /\ MendedNamespaces = {}
    BY <2>1, NothingMended
  <2>3. Orphans' = Orphans
    BY <2>1 DEF Orphans
  <2>4. Rootless' \subseteq Rootless \cup {DefaultNs}
    BY <2>1 DEF Rootless, Keep, With
  <2>5. DefaultNs \in Rootless' => DefaultNs \in MendedNamespaces'
    BY <2>1 DEF MendedNamespaces
  <2>6. Running' = 1
    BY <2>1 DEF Running
  <2>7. /\ Rootless' \subseteq (Rootless \ MendedNamespaces) \cup {DefaultNs}
        /\ (Rootless \ MendedNamespaces)' \subseteq Rootless \ MendedNamespaces
        /\ Orphans' \subseteq Orphans \ MendedFacts
    BY <2>2, <2>3, <2>4, <2>5
  <2> QED BY <2>1, <2>6, <2>7, CallBreaks
<1>2. CASE SeedBranch
  <2>1. /\ phase = "seeding" /\ job = NoJob
        /\ branches' = Keep(branches, <<DefaultNs, Main>>, Root)
        /\ UNCHANGED <<facts, transactions, namespaces, faults>>
    BY <1>2 DEF SeedBranch, SeedInv
  <2>2. MendedFacts = {} /\ MendedNamespaces \subseteq {DefaultNs}
    BY <2>1, JobOf DEF MendedFacts, MendedNamespaces
  <2>3. Orphans' = Orphans
    BY <2>1 DEF Orphans
  <2>4. Rootless' \subseteq Rootless \ {DefaultNs}
    BY <2>1 DEF Rootless, Keep, With, Root, SeedInv
  <2>5. IsFiniteSet(Orphans') /\ Cardinality(Orphans') <= Cardinality(Orphans \ MendedFacts)
    <3>1. Orphans' \subseteq Orphans \ MendedFacts
      BY <2>2, <2>3
    <3> QED BY <3>1, DamageSizes, SizeOfPart
  <2> QED BY <2>1, <2>2, <2>4, <2>5, NothingBroken
<1>3. CASE StatementFails \/ Crash
  <2>1. faults' = faults + 1 /\ UNCHANGED <<facts, transactions, branches, namespaces>>
    BY <1>3 DEF StatementFails, Crash, Fault, tables, store
  <2>2. Orphans' = Orphans /\ Rootless' = Rootless
    BY <2>1 DEF Orphans, Rootless
  <2> QED BY <2>1, <2>2, FaultBreaks
<1>4. CASE UNCHANGED vars
  BY <1>4 DEF vars, tables, store, DamageInv, Orphans, Rootless, Running, MendedFacts,
     MendedNamespaces
<1> QED BY <1>1, <1>2, <1>3, <1>4, CallDamage, StatementDamage DEF Next

-----------------------------------------------------------------------------
(* What holds always *)

LEMMA InitSqlite ==
  ASSUME Init
  PROVE  SqliteInv
<1>1. TypeOK
  <2>1. StoreTypeOK
    BY DEF Init, StoreTypeOK
  <2>2. OpenTypeOK
    BY DEF Init, OpenTypeOK
  <2>3. JobTypeOK
    BY DEF Init, JobTypeOK
  <2> QED BY <2>1, <2>2, <2>3, TypeParts
<1>2. RecordInv /\ SeedInv
  BY <1>1, JobOf DEF Init, RecordInv, SeedInv
<1>3. AnswersInv /\ AnswersHold
  BY DEF Init, AnswersInv, AnswersHold
<1>4. KeyedInv
  <2>1. \A k : {x \in keyed : x[1] = k} = {}
    BY DEF Init
  <2>2. IsFiniteSet({}) /\ Cardinality({}) = 0
    BY FS_EmptySet
  <2> QED BY <2>1, <2>2 DEF Init, KeyedInv
<1>5. DamageInv
  <2>1. Orphans = {} /\ Rootless = {}
    BY DEF Init, Orphans, Rootless
  <2>2. IsFiniteSet({}) /\ Cardinality({}) = 0
    BY FS_EmptySet
  <2>3. Orphans \ MendedFacts = {} /\ Rootless \ MendedNamespaces = {}
    BY <2>1
  <2>4. faults = 0 /\ Running \in {0, 1}
    BY DEF Init, Running
  <2> QED BY <2>1, <2>2, <2>3, <2>4 DEF DamageInv
<1> QED BY <1>1, <1>2, <1>3, <1>4, <1>5 DEF SqliteInv

LEMMA SqliteStep ==
  ASSUME SqliteInv, [Next]_vars
  PROVE  SqliteInv'
BY TypeStep, SeedStep, AnsweringStep, KeyedStep, DamageStep DEF SqliteInv, Answering

LEMMA SqliteInductive == Spec => []SqliteInv
<1>1. Init => SqliteInv
  BY InitSqlite
<1>2. SqliteInv /\ [Next]_vars => SqliteInv'
  BY SqliteStep
<1> QED BY <1>1, <1>2, PTL DEF Spec

\* The tables and what is left of a call keep their types, whatever fails or dies.
THEOREM TypeCorrect == Spec => []TypeOK
<1>1. SqliteInv => TypeOK
  BY DEF SqliteInv
<1> QED BY <1>1, SqliteInductive, PTL

\* However often the file is opened and wherever the process dies, an open database
\* has the default namespace with its main branch, as a root.
THEOREM DefaultSeededAlways == Spec => []DefaultSeeded
<1>1. SqliteInv => DefaultSeeded
  BY DEF SqliteInv, SeedInv, DefaultSeeded
<1> QED BY <1>1, SqliteInductive, PTL

\* An answer to record holds whatever fails or dies later: the key keeps its answer and
\* the fact, while it is stored, its transaction.
THEOREM AnswersHoldAlways == Spec => []AnswersHold
<1>1. SqliteInv => AnswersHold
  BY DEF SqliteInv
<1> QED BY <1>1, SqliteInductive, PTL

\* A key is used for one fact, and one more for each fault.
THEOREM RetriesBoundedAlways == Spec => []RetriesBounded
<1>1. ASSUME SqliteInv, NEW k \in IdemKeys
      PROVE  Cardinality({x \in keyed : x[1] = k}) <= faults + 1
  <2> DEFINE of == {x \in keyed : x[1] = k}
  <2>1. faults \in Nat /\ IsFiniteSet(keyed) /\ of \subseteq keyed
    BY <1>1 DEF SqliteInv, TypeOK, KeyedInv
  <2>2. Cardinality(of) \in Nat
    BY <2>1, FS_Subset, FS_CardinalityType
  <2>3. Cardinality(of) <= faults + IF KeyTaken(k) THEN 1 ELSE 0
    BY <1>1 DEF SqliteInv, KeyedInv
  <2> HIDE DEF of
  <2>4. Cardinality(of) <= faults + 1
    BY <2>1, <2>2, <2>3
  <2> QED BY <2>4 DEF of
<1>2. SqliteInv => RetriesBounded
  BY <1>1 DEF RetriesBounded
<1> QED BY <1>2, SqliteInductive, PTL

\* However calls fail and processes die, there is at most one fact without its transaction
\* or namespace without its main branch for each fault, and one for the call under way.
THEOREM DamageBoundedAlways == Spec => []DamageBounded
<1>1. ASSUME SqliteInv
      PROVE  DamageBounded
  <2>1. TypeOK /\ DamageInv
    BY <1>1 DEF SqliteInv
  <2>2. Mainless \subseteq Rootless
    BY DEF Mainless, Rootless
  <2>3. IsFiniteSet(Rootless) /\ Cardinality(Orphans) + Cardinality(Rootless) <= faults + Running
    BY <2>1 DEF DamageInv
  <2>4. Cardinality(Mainless) \in Nat /\ Cardinality(Mainless) <= Cardinality(Rootless)
    BY <2>2, <2>3, SizeOfPart
  <2> QED BY <2>1, <2>3, <2>4, DamageSizes DEF DamageBounded
<1> QED BY <1>1, SqliteInductive, PTL

-----------------------------------------------------------------------------
(* Calls that no fault cuts short are steps of AtomicStore *)

\* Cutoffs that stay what they are as an i64.
LowCutoffs == \A before \in Cutoffs : before < Word \div 2

LEMMA NoJobIsNone ==
  NoJob \notin Recording /\ NoJob \notin Retracting /\ NoJob \notin Creating
    /\ NoJob \notin Collecting
<1>1. NoJob.next = "none"
  BY DEF NoJob
<1> QED BY <1>1 DEF Recording, Retracting, Creating, Collecting

LEMMA InMillisKeeps ==
  ASSUME NEW f \in Fact
  PROVE  /\ InMillis(f).id = f.id /\ InMillis(f).ns = f.ns /\ InMillis(f).branch = f.branch
         /\ InMillis(f).ts = f.ts /\ InMillis(f).tx = f.tx
         /\ InMillis(f).retracted = f.retracted
         /\ ~f.retracted => InMillis(f) = f
BY DEF InMillis, Fact

LEMMA TablesShown ==
  ASSUME shown = Tables
  PROVE  /\ Shown = InMemory /\ shown.transactions = transactions
         /\ shown.branches = branches /\ shown.namespaces = namespaces
         /\ shown.idem_cache = idem_cache /\ shown.tags = tags /\ shown.nextId = nextId
BY DEF Tables, TablesWith, Shown, InMemory

LEMMA TablesShownNext ==
  ASSUME shown' = Tables'
  PROVE  /\ Shown' = InMemory' /\ shown'.transactions = transactions'
         /\ shown'.branches = branches' /\ shown'.namespaces = namespaces'
         /\ shown'.idem_cache = idem_cache' /\ shown'.tags = tags' /\ shown'.nextId = nextId'
BY DEF Tables, TablesWith, Shown, InMemory

LEMMA NothingShown ==
  ASSUME shown' = shown
  PROVE  UNCHANGED Atomic!store
BY DEF Atomic!store, Shown

\* The mutex is released after a call that no fault has cut short.
LEMMA Leaving ==
  ASSUME ~torn, Leave, phase' = "open"
  PROVE  shown' = Tables' /\ ShownInv'
<1>1. job' = NoJob /\ shown' = Tables' /\ ~torn'
  BY DEF Leave, Show
<1> QED BY <1>1, NoJobIsNone DEF ShownInv

\* Before a call, what is shown is what the tables hold.
LEMMA Entering ==
  ASSUME ShownInv, ~torn, Enter
  PROVE  shown = Tables /\ job = NoJob /\ phase' = "open"
BY DEF ShownInv, Enter

\* Once a fault has cut a call short, nothing more is shown.
LEMMA TornStays ==
  ASSUME torn, [Next]_vars
  PROVE  torn' /\ shown' = shown
<1>1. ASSUME Leave
      PROVE  torn' /\ shown' = shown
  BY <1>1 DEF Leave, Show
<1>2. CASE Call
  BY <1>1, <1>2 DEF Call, RecordHit, RecordFact, RetractFact, CreateBranch, DeleteBranch,
     CreateNamespaceRow, GcFacts, PutTag, DeleteTag, OneStatement, GoOn
<1>3. CASE Statement
  BY <1>1, <1>3 DEF Statement, RecordTransaction, RecordHead, RecordKey, RetractTransaction,
     RetractHead, CreateNamespaceMain, GcTransactions, GoOn
<1>4. CASE SeedNamespace \/ SeedBranch \/ StatementFails \/ Crash \/ UNCHANGED vars
  BY <1>4 DEF SeedNamespace, SeedBranch, Show, StatementFails, Crash, vars
<1> QED BY <1>2, <1>3, <1>4 DEF Next

\* A call that is under way shows nothing yet.
LEMMA GoingOn ==
  ASSUME GoOn(job'), ~torn, job' # NoJob,
         job' \in Recording => Ahead(job)',
         job' \in Retracting => AheadByRetract(job)',
         job' \in Creating => AheadByNamespace(job)',
         job' \in Collecting => AheadByGc'
  PROVE  ShownInv' /\ UNCHANGED Atomic!store
<1>1. UNCHANGED <<torn, shown>>
  BY DEF GoOn
<1> QED BY <1>1, NothingShown DEF ShownInv

\* The classes of jobs do not overlap.
LEMMA OneJob ==
  ASSUME NEW j
  PROVE  /\ j \in Recording => j \notin Retracting \cup Creating \cup Collecting \cup {NoJob}
         /\ j \in Retracting => j \notin Recording \cup Creating \cup Collecting \cup {NoJob}
         /\ j \in Creating => j \notin Recording \cup Retracting \cup Collecting \cup {NoJob}
         /\ j \in Collecting => j \notin Recording \cup Retracting \cup Creating \cup {NoJob}
<1>1. NoJob.next = "none"
  BY DEF NoJob
<1>2. /\ j \in Recording => j.next \in {"transaction", "head", "key"}
      /\ j \in Retracting => j.next \in {"retract transaction", "retract head"}
      /\ j \in Creating => j.next = "main branch"
      /\ j \in Collecting => j.next = "gc transactions"
  BY DEF Recording, Retracting, Creating, Collecting
<1> QED BY <1>1, <1>2

-----------------------------------------------------------------------------
(* Opening and ending *)

LEMMA InitShown ==
  ASSUME Init
  PROVE  ShownInv /\ Atomic!StoreInit
<1>1. /\ shown = Seeded /\ facts = {} /\ transactions = {}
      /\ branches = [k \in {} |-> Root] /\ namespaces = [n \in {} |-> DefaultInfo]
      /\ idem_cache = [k \in {} |-> 0] /\ tags = [l \in {} |-> 0] /\ nextId = 1
      /\ phase = "closed" /\ job = NoJob
  BY DEF Init
<1>2. /\ Keep(branches, <<DefaultNs, Main>>, Root) = [k \in {<<DefaultNs, Main>>} |-> Root]
      /\ Keep(namespaces, DefaultNs, DefaultInfo) = [n \in {DefaultNs} |-> DefaultInfo]
  BY <1>1 DEF Keep, With
<1>3. /\ shown.facts = {} /\ shown.transactions = {} /\ shown.nextId = 1
      /\ shown.branches = [k \in {<<DefaultNs, Main>>} |-> Root]
      /\ shown.namespaces = [n \in {DefaultNs} |-> DefaultInfo]
      /\ shown.idem_cache = [k \in {} |-> 0] /\ shown.tags = [l \in {} |-> 0]
  BY <1>1, <1>2 DEF Seeded, TablesWith
<1>5. ShownInv
  BY <1>1, NoJobIsNone DEF ShownInv
<1>6. Shown = {}
  BY <1>3 DEF Shown
<1>7. Atomic!StoreInit
  BY <1>3, <1>6 DEF Atomic!StoreInit, Atomic!Root, Atomic!DefaultInfo, Atomic!NoSchema,
     Atomic!NoTx, Root, DefaultInfo, NoSchema, NoTx
<1> QED BY <1>5, <1>7

LEMMA SeedShown ==
  ASSUME SeedInv, ShownInv, ~torn, SeedNamespace \/ SeedBranch
  PROVE  ShownInv' /\ UNCHANGED Atomic!store
<1>1. job = NoJob /\ job' = NoJob /\ shown = Seeded /\ ~torn'
  BY DEF SeedInv, ShownInv, SeedNamespace, SeedBranch
<1>2. CASE SeedNamespace
  <2>1. Keep(namespaces', DefaultNs, DefaultInfo) = Keep(namespaces, DefaultNs, DefaultInfo)
    BY <1>2 DEF SeedNamespace, Keep, With
  <2>2. Seeded' = Seeded /\ shown' = shown /\ phase' = "seeding"
    BY <1>2, <2>1 DEF SeedNamespace, Seeded, Tables, TablesWith
  <2> QED BY <1>1, <2>2, NoJobIsNone, NothingShown DEF ShownInv
<1>3. CASE SeedBranch
  <2>1. /\ phase' = "open" /\ shown' = Tables'
        /\ branches' = Keep(branches, <<DefaultNs, Main>>, Root)
        /\ UNCHANGED <<facts, transactions, namespaces, idem_cache, tags, nextId>>
    BY <1>1, <1>3 DEF SeedBranch, Show
  <2>2. Keep(namespaces, DefaultNs, DefaultInfo) = namespaces
    BY <1>3 DEF SeedInv, SeedBranch, Keep
  <2>3. Tables' = Seeded
    BY <2>1, <2>2 DEF Tables, TablesWith, Seeded
  <2> QED BY <1>1, <2>1, <2>3, NoJobIsNone, NothingShown DEF ShownInv
<1> QED BY <1>2, <1>3

LEMMA FaultShown ==
  ASSUME SeedInv, ShownInv, ~torn, StatementFails \/ Crash
  PROVE  ShownInv' /\ UNCHANGED Atomic!store
<1>1. shown' = shown
  BY DEF StatementFails, Crash
<1>2. CASE torn'
  BY <1>1, <1>2, NothingShown DEF ShownInv
<1>3. CASE ~torn'
  <2>1. /\ job = NoJob /\ job' = NoJob /\ phase' = "closed" /\ phase \in {"seeding", "open"}
        /\ UNCHANGED <<facts, transactions, branches, namespaces, idem_cache, tags, nextId>>
    BY <1>3 DEF StatementFails, Crash, tables, store
  <2>2. phase = "open" => Seeded = Tables
    BY DEF SeedInv, Keep, Tables, TablesWith, Seeded
  <2>3. shown = Seeded
    BY <2>1, <2>2 DEF ShownInv
  <2>4. Seeded' = Seeded
    BY <2>1 DEF Seeded, Tables, TablesWith
  <2> QED BY <1>1, <2>1, <2>3, <2>4, NoJobIsNone, NothingShown DEF ShownInv
<1> QED BY <1>2, <1>3

-----------------------------------------------------------------------------
(* record *)

LEMMA AtomicHelpers ==
  ASSUME transactions = shown.transactions, branches = shown.branches
  PROVE  /\ \A p : TransactionsAfter(p) = Atomic!TransactionsAfter(p)
         /\ \A n, b, tx : BranchesAfter(n, b, tx) = Atomic!BranchesAfter(n, b, tx)
BY DEF TransactionsAfter, Atomic!TransactionsAfter, BranchesAfter, Atomic!BranchesAfter

LEMMA RecordFactShown ==
  ASSUME TypeOK, ShownInv, ~torn, NEW p \in Writes, RecordFact(p)
  PROVE  ShownInv' /\ UNCHANGED Atomic!store
<1> DEFINE f == NewFact(p, nextId)
           new == [next |-> "transaction", p |-> p, fact |-> nextId]
<1>1. /\ facts' = facts \cup {f} /\ nextId' = nextId + 1 /\ job' = new
      /\ UNCHANGED <<transactions, branches, namespaces, idem_cache, tags, torn, shown>>
  BY DEF RecordFact, GoOn
<1>2. /\ shown = Tables /\ nextId \in Nat
  BY Entering DEF RecordFact, TypeOK, StoreTypeOK
<1>3. new.next = "transaction" /\ new.p = p /\ new.fact = nextId /\ new \in Recording
  BY <1>2 DEF Recording
<1>4. f \in Fact /\ ~f.retracted
  BY <1>2, WriteType DEF NewFact
<1>5. InMillis(f) = f
  BY <1>4, InMillisKeeps
<1> HIDE DEF new
<1>6. InMemory' = Shown' \cup {NewFact(job'.p, job'.fact)}
  <2>1. InMemory' = InMemory \cup {InMillis(f)}
    BY <1>1 DEF InMemory, InMillis
  <2>2. Shown' = Shown
    BY <1>1 DEF Shown
  <2> QED BY <1>1, <1>2, <1>3, <1>5, <2>1, <2>2, TablesShown
<1>7. Ahead(job)'
  BY <1>1, <1>2, <1>3, <1>6, TablesShown DEF Ahead
<1>8. GoOn(job') /\ job' \in Recording
  BY <1>1, <1>3 DEF GoOn
<1> QED BY <1>7, <1>8, OneJob, GoingOn

LEMMA RecordTransactionShown ==
  ASSUME TypeOK, ShownInv, ~torn, RecordTransaction
  PROVE  ShownInv' /\ UNCHANGED Atomic!store
<1>1. /\ job \in Recording /\ job.next = "transaction" /\ job' = [job EXCEPT !.next = "head"]
      /\ transactions' = TransactionsAfter(job.p)
      /\ UNCHANGED <<facts, branches, namespaces, idem_cache, tags, nextId, torn, shown>>
  BY JobOf DEF RecordTransaction, At, GoOn
<1>2. job' \in Recording /\ job'.next = "head" /\ job'.p = job.p /\ job'.fact = job.fact
  BY <1>1 DEF Recording
<1>3. Ahead(job)
  BY <1>1 DEF ShownInv
<1>4. transactions' = Atomic!TransactionsAfter(job.p)
  BY <1>1, <1>3, AtomicHelpers DEF Ahead
<1>5. InMemory' = InMemory /\ Shown' = Shown
  BY <1>1 DEF InMemory, Shown
<1>6. Atomic!TransactionsAfter(job.p)' = Atomic!TransactionsAfter(job.p)
  BY <1>1, <1>2 DEF Atomic!TransactionsAfter
<1>7. Ahead(job)'
  BY <1>1, <1>2, <1>3, <1>4, <1>5, <1>6 DEF Ahead
<1>8. GoOn(job')
  BY <1>1 DEF GoOn
<1> QED BY <1>2, <1>7, <1>8, OneJob, GoingOn

\* The last statement of a record: the whole record becomes visible.
LEMMA RecordShown ==
  ASSUME TypeOK, RecordInv, Ahead(job), job \in Recording, shown' = Tables',
         UNCHANGED <<facts, namespaces, tags, nextId>>,
         transactions' = Atomic!TransactionsAfter(job.p),
         branches' = Atomic!BranchesAfter(job.p.ns, job.p.branch, job.p.tx),
         idem_cache' = IF job.p.idem = None THEN idem_cache
                       ELSE With(idem_cache, job.p.idem,
                                 [fact |-> job.fact, tx |-> job.p.tx])
  PROVE  Atomic!StoreRecordNew(job.p)
<1>1. InMemory' = InMemory
  BY DEF InMemory
<1>2. Shown' = Shown \cup {NewFact(job.p, job.fact)}
  BY <1>1, TablesShownNext DEF Ahead
<1>3. Atomic!NewFact(job.p, job.fact) = NewFact(job.p, job.fact)
  BY DEF Atomic!NewFact, NewFact
<1>4. ~Atomic!IsDuplicate(job.p)
  BY DEF RecordInv, IsDuplicate, Atomic!IsDuplicate, Ahead
<1>5. \A k, v : Atomic!With(shown.idem_cache, k, v) = With(shown.idem_cache, k, v)
  BY DEF Atomic!With, With
<1>6. /\ shown'.idem_cache = IF job.p.idem = None THEN shown.idem_cache
                             ELSE Atomic!With(shown.idem_cache, job.p.idem,
                                              [fact |-> shown.nextId, tx |-> job.p.tx])
      /\ shown'.nextId = shown.nextId + 1
      /\ shown'.namespaces = shown.namespaces /\ shown'.tags = shown.tags
  BY <1>5, TablesShownNext DEF Ahead
<1>7. Shown' = Shown \cup {Atomic!NewFact(job.p, shown.nextId)}
  BY <1>2, <1>3 DEF Ahead
<1> QED BY <1>4, <1>6, <1>7, TablesShownNext DEF Atomic!StoreRecordNew

LEMMA RecordHeadShown ==
  ASSUME TypeOK, RecordInv, SeedInv, ShownInv, ~torn, RecordHead
  PROVE  ShownInv' /\ [Atomic!Next]_(Atomic!store)
<1>1. /\ job \in Recording /\ job.next = "head" /\ phase' = phase
      /\ branches' = BranchesAfter(job.p.ns, job.p.branch, job.p.tx)
      /\ UNCHANGED <<facts, transactions, namespaces, idem_cache, tags, nextId>>
  BY JobOf DEF RecordHead, At
<1>2. Ahead(job) /\ phase = "open" /\ job.p \in Writes
  BY <1>1, OneJob, JobOf DEF ShownInv, SeedInv
<1>3. branches' = Atomic!BranchesAfter(job.p.ns, job.p.branch, job.p.tx)
  <2>1. branches = shown.branches
    BY <1>1, <1>2 DEF Ahead
  <2> QED BY <1>1, <2>1 DEF BranchesAfter, Atomic!BranchesAfter
<1>4. transactions' = Atomic!TransactionsAfter(job.p)
  BY <1>1, <1>2 DEF Ahead
<1>5. CASE job.p.idem = None
  <2>1. Leave
    BY <1>5 DEF RecordHead
  <2>2. shown' = Tables' /\ ShownInv'
    BY <1>1, <1>2, <2>1, Leaving
  <2>3. Atomic!StoreRecordNew(job.p)
    BY <1>1, <1>2, <1>3, <1>4, <1>5, <2>2, RecordShown
  <2> QED BY <1>2, <2>2, <2>3 DEF Atomic!Next
<1>6. CASE job.p.idem # None
  <2>1. job' = [job EXCEPT !.next = "key"] /\ UNCHANGED <<torn, shown>>
    BY <1>6 DEF RecordHead, GoOn
  <2>2. job' \in Recording /\ job'.next = "key" /\ job'.p = job.p /\ job'.fact = job.fact
    BY <1>1, <2>1 DEF Recording
  <2>3. InMemory' = InMemory /\ Shown' = Shown
    BY <1>1, <2>1 DEF InMemory, Shown
  <2>4. /\ Atomic!TransactionsAfter(job.p)' = Atomic!TransactionsAfter(job.p)
        /\ Atomic!BranchesAfter(job.p.ns, job.p.branch, job.p.tx)'
             = Atomic!BranchesAfter(job.p.ns, job.p.branch, job.p.tx)
    BY <2>1, <2>2 DEF Atomic!TransactionsAfter, Atomic!BranchesAfter
  <2>5. Ahead(job)'
    BY <1>1, <1>2, <1>3, <1>4, <2>1, <2>2, <2>3, <2>4 DEF Ahead
  <2>6. GoOn(job')
    BY <2>1 DEF GoOn
  <2> QED BY <2>2, <2>5, <2>6, OneJob, GoingOn
<1> QED BY <1>5, <1>6

LEMMA RecordKeyShown ==
  ASSUME TypeOK, RecordInv, SeedInv, ShownInv, ~torn, RecordKey
  PROVE  ShownInv' /\ [Atomic!Next]_(Atomic!store)
<1>1. /\ job \in Recording /\ job.next = "key" /\ phase' = phase
      /\ idem_cache' = With(idem_cache, job.p.idem, [fact |-> job.fact, tx |-> job.p.tx])
      /\ UNCHANGED <<facts, transactions, branches, namespaces, tags, nextId>> /\ Leave
  BY JobOf DEF RecordKey, At
<1>2. Ahead(job) /\ phase = "open" /\ job.p \in Writes /\ job.p.idem # None
  BY <1>1, OneJob, JobOf DEF ShownInv, SeedInv, RecordInv
<1>3. shown' = Tables' /\ ShownInv'
  BY <1>1, <1>2, Leaving
<1>4. /\ branches' = Atomic!BranchesAfter(job.p.ns, job.p.branch, job.p.tx)
      /\ transactions' = Atomic!TransactionsAfter(job.p)
  BY <1>1, <1>2 DEF Ahead
<1>5. Atomic!StoreRecordNew(job.p)
  BY <1>1, <1>2, <1>3, <1>4, RecordShown
<1> QED BY <1>2, <1>3, <1>5 DEF Atomic!Next

-----------------------------------------------------------------------------
(* retract *)

LEMMA RetractFactShown ==
  ASSUME TypeOK, ShownInv, ~torn, NEW p \in Retractions, NEW id, RetractFact(id, p)
  PROVE  ShownInv' /\ UNCHANGED Atomic!store
<1> DEFINE new == [next |-> "retract transaction", p |-> p]
<1>1. PICK f \in Retractable(id, p) :
        facts' = (facts \ {f}) \cup {[f EXCEPT !.retracted = TRUE, !.to = p.ts]}
  BY DEF RetractFact
<1>2. /\ job' = new /\ shown = Tables
      /\ UNCHANGED <<transactions, branches, namespaces, idem_cache, tags, nextId, torn, shown>>
  BY Entering DEF RetractFact, GoOn
<1>3. new.next = "retract transaction" /\ new.p = p /\ new \in Retracting
  BY DEF Retracting
<1> HIDE DEF new
<1>4. facts \subseteq Fact /\ f \in facts /\ f \in Fact /\ ~f.retracted
  BY <1>1 DEF TypeOK, StoreTypeOK, Retractable
<1>5. InMillis(f) = f /\ f \in InMemory
  BY <1>4, InMillisKeeps DEF InMemory
<1>6. {InMillis(g) : g \in facts \ {f}} = InMemory \ {f}
  <2>1. ASSUME NEW g \in facts, InMillis(g) = f
        PROVE  g = f
    <3>1. ~g.retracted
      BY <1>4, <2>1, InMillisKeeps
    <3> QED BY <1>4, <2>1, <3>1, InMillisKeeps
  <2> QED BY <1>5, <2>1 DEF InMemory
<1> DEFINE g == [f EXCEPT !.retracted = TRUE, !.to = p.ts]
<1>7. InMillis(g) = Closed(f, p.ts)
  BY <1>4 DEF InMillis, Closed, Fact
<1> HIDE DEF g
<1>8. InMemory' = (InMemory \ {f}) \cup {Closed(f, p.ts)}
  <2>1. InMemory' = {InMillis(h) : h \in facts \ {f}} \cup {InMillis(g)}
    BY <1>1 DEF InMemory, InMillis, g
  <2> QED BY <1>6, <1>7, <2>1
<1>9. Shown = InMemory /\ Shown' = Shown
  BY <1>2, TablesShown DEF Shown
<1>10. f \in Atomic!Retractable(f.id, p)' /\ f \in Shown'
  <2>1. f.ns = p.ns /\ f.branch = p.branch
    BY <1>1 DEF Retractable
  <2> QED BY <1>4, <1>5, <1>9, <2>1 DEF Atomic!Retractable
<1>11. AheadByRetract(job)'
  BY <1>2, <1>3, <1>8, <1>9, <1>10, TablesShown DEF AheadByRetract
<1>12. GoOn(job') /\ job' \in Retracting
  BY <1>2, <1>3 DEF GoOn
<1> QED BY <1>11, <1>12, OneJob, GoingOn

LEMMA RetractTransactionShown ==
  ASSUME TypeOK, ShownInv, ~torn, RetractTransaction
  PROVE  ShownInv' /\ UNCHANGED Atomic!store
<1>1. /\ job \in Retracting /\ job.next = "retract transaction"
      /\ job' = [job EXCEPT !.next = "retract head"]
      /\ transactions' = transactions \cup {[id |-> job.p.tx, ns |-> job.p.ns,
                              branch |-> job.p.branch, ts |-> job.p.ts, count |-> 1]}
      /\ UNCHANGED <<facts, branches, namespaces, idem_cache, tags, nextId, torn, shown>>
  BY JobOf DEF RetractTransaction, At, GoOn
<1>2. job' \in Retracting /\ job'.next = "retract head" /\ job'.p = job.p
  BY <1>1 DEF Retracting
<1>3. AheadByRetract(job)
  BY <1>1, OneJob DEF ShownInv
<1>4. InMemory' = InMemory /\ Shown' = Shown
  BY <1>1 DEF InMemory, Shown
<1>5. PICK f \in Shown : /\ f \in Atomic!Retractable(f.id, job.p)
                         /\ InMemory = (Shown \ {f}) \cup {Closed(f, job.p.ts)}
  BY <1>3 DEF AheadByRetract
<1>6. f \in Atomic!Retractable(f.id, job.p)'
  BY <1>2, <1>4, <1>5 DEF Atomic!Retractable
<1>7. AheadByRetract(job)'
  BY <1>1, <1>2, <1>3, <1>4, <1>5, <1>6 DEF AheadByRetract
<1>8. GoOn(job')
  BY <1>1 DEF GoOn
<1> QED BY <1>2, <1>7, <1>8, OneJob, GoingOn

LEMMA RetractHeadShown ==
  ASSUME TypeOK, SeedInv, ShownInv, ~torn, RetractHead
  PROVE  ShownInv' /\ [Atomic!Next]_(Atomic!store)
<1>1. /\ job \in Retracting /\ job.next = "retract head" /\ phase' = phase
      /\ branches' = BranchesAfter(job.p.ns, job.p.branch, job.p.tx)
      /\ UNCHANGED <<facts, transactions, namespaces, idem_cache, tags, nextId>> /\ Leave
  BY JobOf DEF RetractHead, At
<1>2. AheadByRetract(job) /\ phase = "open" /\ job.p \in Retractions
  BY <1>1, OneJob, JobOf DEF ShownInv, SeedInv
<1>3. shown' = Tables' /\ ShownInv'
  BY <1>1, <1>2, Leaving
<1>4. PICK f \in Shown : /\ f \in Atomic!Retractable(f.id, job.p)
                         /\ InMemory = (Shown \ {f}) \cup {Closed(f, job.p.ts)}
  BY <1>2 DEF AheadByRetract
<1>5. Shown' = (Shown \ {f}) \cup {Atomic!Closed(f, job.p.ts)}
  <2>1. InMemory' = InMemory
    BY <1>1 DEF InMemory
  <2>2. Atomic!Closed(f, job.p.ts) = Closed(f, job.p.ts)
    BY DEF Atomic!Closed, Closed, Atomic!Millis, Millis
  <2> QED BY <1>3, <1>4, <2>1, <2>2, TablesShownNext
<1>6. shown'.branches = Atomic!BranchesAfter(job.p.ns, job.p.branch, job.p.tx)
  <2>1. branches = shown.branches
    BY <1>1, <1>2 DEF AheadByRetract
  <2> QED BY <1>1, <1>3, <2>1, TablesShownNext DEF BranchesAfter, Atomic!BranchesAfter
<1>7. /\ shown'.transactions =
           shown.transactions \cup {[id |-> job.p.tx, ns |-> job.p.ns, branch |-> job.p.branch,
                                     ts |-> job.p.ts, count |-> 1]}
      /\ shown'.namespaces = shown.namespaces /\ shown'.idem_cache = shown.idem_cache
      /\ shown'.tags = shown.tags /\ shown'.nextId = shown.nextId
  BY <1>1, <1>2, <1>3, TablesShownNext DEF AheadByRetract
<1>8. Atomic!StoreRetract(f.id, job.p)
  BY <1>4, <1>5, <1>6, <1>7 DEF Atomic!StoreRetract
<1> QED BY <1>2, <1>3, <1>8 DEF Atomic!Next

-----------------------------------------------------------------------------
(* create_namespace and gc *)

LEMMA CreateNamespaceRowShown ==
  ASSUME ShownInv, ~torn, NEW n \in Namespaces, NEW info \in NamespaceInfo,
         CreateNamespaceRow(n, info)
  PROVE  ShownInv' /\ UNCHANGED Atomic!store
<1> DEFINE new == [next |-> "main branch", ns |-> n]
<1>1. /\ job' = new /\ shown = Tables /\ n \notin DOMAIN namespaces
      /\ namespaces' = With(namespaces, n, info)
      /\ UNCHANGED <<facts, transactions, branches, idem_cache, tags, nextId, torn, shown>>
  BY Entering DEF CreateNamespaceRow, GoOn
<1>2. new.ns = n /\ new \in Creating
  BY DEF Creating
<1> HIDE DEF new
<1>3. InMemory' = InMemory /\ Shown' = Shown
  BY <1>1 DEF InMemory, Shown
<1>4. AheadByNamespace(job)'
  BY <1>1, <1>2, <1>3, TablesShown DEF AheadByNamespace, With, NamespaceInfo
<1>5. GoOn(job') /\ job' \in Creating
  BY <1>1, <1>2 DEF GoOn
<1> QED BY <1>4, <1>5, OneJob, GoingOn

LEMMA CreateNamespaceMainShown ==
  ASSUME TypeOK, SeedInv, ShownInv, ~torn, CreateNamespaceMain
  PROVE  ShownInv' /\ [Atomic!Next]_(Atomic!store)
<1>1. /\ job \in Creating /\ phase' = phase
      /\ branches' = With(branches, <<job.ns, Main>>, Root)
      /\ UNCHANGED <<facts, transactions, namespaces, idem_cache, tags, nextId>> /\ Leave
  BY JobOf DEF CreateNamespaceMain, At
<1>2. AheadByNamespace(job) /\ phase = "open" /\ job.ns \in Namespaces
  BY <1>1, OneJob, JobOf DEF ShownInv, SeedInv
<1>3. shown' = Tables' /\ ShownInv'
  BY <1>1, <1>2, Leaving
<1>4. InMemory' = InMemory
  BY <1>1 DEF InMemory
<1>5. PICK info \in NamespaceInfo : namespaces = With(shown.namespaces, job.ns, info)
  BY <1>2 DEF AheadByNamespace
<1>6. /\ Atomic!With(shown.namespaces, job.ns, info) = With(shown.namespaces, job.ns, info)
      /\ Atomic!With(shown.branches, <<job.ns, Main>>, Atomic!Root)
           = With(shown.branches, <<job.ns, Main>>, Root)
  BY DEF Atomic!With, With, Atomic!Root, Root, Atomic!NoTx, NoTx
<1>7. Atomic!StoreCreateNamespace(job.ns, info)
  BY <1>1, <1>2, <1>3, <1>4, <1>5, <1>6, TablesShownNext
     DEF AheadByNamespace, Atomic!StoreCreateNamespace
<1>8. info \in Atomic!NamespaceInfo
  BY DEF Atomic!NamespaceInfo, NamespaceInfo, Atomic!NoSchema, NoSchema
<1> QED BY <1>2, <1>3, <1>7, <1>8 DEF Atomic!Next

LEMMA GcFactsShown ==
  ASSUME TypeOK, ShownInv, LowCutoffs, ~torn, NEW before \in Cutoffs \cup {None},
         NEW scope \in Branches \cup {None}, GcFacts(before, scope)
  PROVE  ShownInv' /\ UNCHANGED Atomic!store
<1> DEFINE new == [next |-> "gc transactions"]
           gone == Purgeable(before, scope)
<1>1. (IF before = None THEN None ELSE AsI64(before)) = before
  BY DEF LowCutoffs, AsI64
<1>2. /\ job' = new /\ shown = Tables /\ facts' = facts \ gone
      /\ UNCHANGED <<transactions, branches, namespaces, idem_cache, tags, nextId, torn, shown>>
  BY <1>1, Entering DEF GcFacts, GoOn
<1>3. new \in Collecting
  BY DEF Collecting
<1> HIDE DEF new
<1>4. facts \subseteq Fact
  BY DEF TypeOK, StoreTypeOK
<1>5. Shown = InMemory /\ Shown' = Shown
  BY <1>2, TablesShown DEF Shown
<1>6. \A f \in facts : f \in gone <=> InMillis(f) \in Atomic!Purgeable(before, scope)
  <2>1. \A f \in facts : InMillis(f) \in Shown
    BY <1>5 DEF InMemory
  <2> QED BY <1>4, <2>1, InMillisKeeps DEF Purgeable, Atomic!Purgeable
<1> HIDE DEF gone
<1>7. InMemory' = Shown \ Atomic!Purgeable(before, scope)
  <2>1. InMemory' = {InMillis(f) : f \in facts \ gone}
    BY <1>2 DEF InMemory, InMillis
  <2> QED BY <1>5, <1>6, <2>1 DEF InMemory
<1>8. Atomic!Purgeable(before, scope)' = Atomic!Purgeable(before, scope)
  BY <1>5 DEF Atomic!Purgeable
<1>9. AheadByGc'
  BY <1>2, <1>5, <1>7, <1>8, TablesShown DEF AheadByGc
<1>10. GoOn(job') /\ job' \in Collecting
  BY <1>2, <1>3 DEF GoOn
<1> QED BY <1>9, <1>10, OneJob, GoingOn

LEMMA GcTransactionsShown ==
  ASSUME TypeOK, SeedInv, ShownInv, ~torn, GcTransactions
  PROVE  ShownInv' /\ [Atomic!Next]_(Atomic!store)
<1>1. /\ job \in Collecting /\ phase' = phase
      /\ transactions' = {t \in transactions : \E f \in facts : f.tx = t.id}
      /\ UNCHANGED <<facts, branches, namespaces, idem_cache, tags, nextId>> /\ Leave
  BY JobOf DEF GcTransactions, At
<1>2. AheadByGc /\ phase = "open" /\ facts \subseteq Fact
  BY <1>1, OneJob DEF ShownInv, SeedInv, TypeOK, StoreTypeOK
<1>3. shown' = Tables' /\ ShownInv'
  BY <1>1, <1>2, Leaving
<1>4. PICK before \in Cutoffs \cup {None}, scope \in Branches \cup {None} :
        InMemory = Shown \ Atomic!Purgeable(before, scope)
  BY <1>2 DEF AheadByGc
<1>5. Shown' = InMemory
  <2>1. InMemory' = InMemory
    BY <1>1 DEF InMemory
  <2> QED BY <1>3, <2>1, TablesShownNext
<1>6. \A t : (\E f \in facts : f.tx = t.id) <=> (\E f \in Shown' : f.tx = t.id)
  BY <1>2, <1>5, InMillisKeeps DEF InMemory
<1>7. shown'.transactions = {t \in shown.transactions : \E f \in Shown' : f.tx = t.id}
  <2>1. transactions = shown.transactions /\ shown'.transactions = transactions'
    BY <1>2, <1>3, TablesShownNext DEF AheadByGc
  <2> QED BY <1>1, <1>6, <2>1
<1>8. /\ shown'.branches = shown.branches /\ shown'.namespaces = shown.namespaces
      /\ shown'.idem_cache = shown.idem_cache /\ shown'.tags = shown.tags
      /\ shown'.nextId = shown.nextId
  BY <1>1, <1>2, <1>3, TablesShownNext DEF AheadByGc
<1>9. Atomic!StoreGc(before, scope)
  BY <1>4, <1>5, <1>7, <1>8 DEF Atomic!StoreGc
<1> QED BY <1>3, <1>9 DEF Atomic!Next

-----------------------------------------------------------------------------
(* Calls of one statement, and every step *)

LEMMA OneStatementShown ==
  ASSUME ShownInv, ~torn, OneStatement
  PROVE  shown = Tables /\ shown' = Tables' /\ ShownInv'
BY Entering, Leaving DEF OneStatement

LEMMA RecordHitShown ==
  ASSUME ShownInv, ~torn, NEW p, RecordHit(p)
  PROVE  ShownInv' /\ UNCHANGED Atomic!store
<1>1. shown = Tables /\ phase' = "open"
  BY Entering DEF RecordHit
<1>2. shown' = Tables' /\ ShownInv'
  BY <1>1, Leaving DEF RecordHit
<1>3. Tables' = Tables
  BY DEF RecordHit, Tables, TablesWith, tables, store
<1> QED BY <1>1, <1>2, <1>3, NothingShown

LEMMA CallShown ==
  ASSUME TypeOK, ShownInv, LowCutoffs, ~torn, Call
  PROVE  ShownInv' /\ [Atomic!Next]_(Atomic!store)
<1>1. ASSUME NEW n \in Namespaces, NEW b \in Branches, NEW parent \in Branches,
             NEW at \in Forks, CreateBranch(n, b, parent, at)
      PROVE  ShownInv' /\ Atomic!Next
  <2>1. shown = Tables /\ shown' = Tables' /\ ShownInv'
    BY <1>1, OneStatementShown DEF CreateBranch
  <2>2. InMemory' = InMemory
    BY <1>1 DEF CreateBranch, StoreCreateBranch, InMemory
  <2>3. Atomic!StoreCreateBranch(n, b, parent, at)
    BY <1>1, <2>1, <2>2, TablesShown, TablesShownNext
       DEF CreateBranch, StoreCreateBranch, Atomic!StoreCreateBranch, CanFork, Atomic!CanFork,
       With, Atomic!With, NoTx, Atomic!NoTx
  <2> QED BY <2>1, <2>3 DEF Atomic!Next
<1>2. ASSUME NEW n \in Namespaces, NEW b \in Branches, DeleteBranch(n, b)
      PROVE  ShownInv' /\ Atomic!Next
  <2>1. shown = Tables /\ shown' = Tables' /\ ShownInv'
    BY <1>2, OneStatementShown DEF DeleteBranch
  <2>2. InMemory' = InMemory
    BY <1>2 DEF DeleteBranch, StoreDeleteBranch, InMemory
  <2>3. Atomic!StoreDeleteBranch(n, b)
    BY <1>2, <2>1, <2>2, TablesShown, TablesShownNext
       DEF DeleteBranch, StoreDeleteBranch, Atomic!StoreDeleteBranch, Without, Atomic!Without
  <2> QED BY <2>1, <2>3 DEF Atomic!Next
<1>3. ASSUME NEW l \in Labels, NEW tx \in TxIds, PutTag(l, tx)
      PROVE  ShownInv' /\ Atomic!Next
  <2>1. shown = Tables /\ shown' = Tables' /\ ShownInv'
    BY <1>3, OneStatementShown DEF PutTag
  <2>2. InMemory' = InMemory
    BY <1>3 DEF PutTag, StorePutTag, InMemory
  <2>3. Atomic!StorePutTag(l, tx)
    BY <1>3, <2>1, <2>2, TablesShown, TablesShownNext
       DEF PutTag, StorePutTag, Atomic!StorePutTag, With, Atomic!With
  <2> QED BY <2>1, <2>3 DEF Atomic!Next
<1>4. ASSUME NEW l \in Labels, DeleteTag(l)
      PROVE  ShownInv' /\ Atomic!Next
  <2>1. shown = Tables /\ shown' = Tables' /\ ShownInv'
    BY <1>4, OneStatementShown DEF DeleteTag
  <2>2. InMemory' = InMemory
    BY <1>4 DEF DeleteTag, StoreDeleteTag, InMemory
  <2>3. Atomic!StoreDeleteTag(l)
    BY <1>4, <2>1, <2>2, TablesShown, TablesShownNext
       DEF DeleteTag, StoreDeleteTag, Atomic!StoreDeleteTag, Without, Atomic!Without
  <2> QED BY <2>1, <2>3 DEF Atomic!Next
<1> QED
  BY <1>1, <1>2, <1>3, <1>4, RecordHitShown, RecordFactShown, RetractFactShown,
     CreateNamespaceRowShown, GcFactsShown DEF Call

LEMMA ShownStep ==
  ASSUME SqliteInv, ShownInv, LowCutoffs, [Next]_vars
  PROVE  ShownInv' /\ [Atomic!Next]_(Atomic!store)
<1> USE DEF SqliteInv
<1>1. CASE torn
  BY <1>1, TornStays, NothingShown DEF ShownInv
<1>2. CASE ~torn /\ Call
  BY <1>2, CallShown
<1>3. CASE ~torn /\ Statement
  BY <1>3, RecordTransactionShown, RecordHeadShown, RecordKeyShown, RetractTransactionShown,
     RetractHeadShown, CreateNamespaceMainShown, GcTransactionsShown DEF Statement
<1>4. CASE ~torn /\ (SeedNamespace \/ SeedBranch)
  BY <1>4, SeedShown
<1>5. CASE ~torn /\ (StatementFails \/ Crash)
  BY <1>5, FaultShown
<1>6. CASE UNCHANGED vars
  <2>1. UNCHANGED <<facts, transactions, branches, namespaces, idem_cache, tags, nextId,
                    phase, job, torn, shown>>
    BY <1>6 DEF vars, tables, store
  <2>2. UNCHANGED <<Shown, InMemory, Tables, Seeded>>
    BY <2>1 DEF Shown, InMemory, Tables, Seeded, TablesWith
  <2>3. /\ \A p : Atomic!TransactionsAfter(p)' = Atomic!TransactionsAfter(p)
        /\ \A n, b, tx : Atomic!BranchesAfter(n, b, tx)' = Atomic!BranchesAfter(n, b, tx)
    BY <2>1 DEF Atomic!TransactionsAfter, Atomic!BranchesAfter
  <2>4. /\ \A id, p : Atomic!Retractable(id, p)' = Atomic!Retractable(id, p)
        /\ \A before, scope : Atomic!Purgeable(before, scope)' = Atomic!Purgeable(before, scope)
    BY <2>2 DEF Atomic!Retractable, Atomic!Purgeable
  <2>5. /\ Ahead(job)' = Ahead(job) /\ AheadByNamespace(job)' = AheadByNamespace(job)
    BY <2>1, <2>2, <2>3 DEF Ahead, AheadByNamespace
  <2>6. AheadByRetract(job)' = AheadByRetract(job)
    BY <2>1, <2>2, <2>4 DEF AheadByRetract
  <2>7. AheadByGc' = AheadByGc
    BY <2>1, <2>2, <2>4 DEF AheadByGc
  <2>8. ShownInv'
    BY <2>1, <2>2, <2>5, <2>6, <2>7 DEF ShownInv
  <2> QED BY <2>1, <2>8, NothingShown
<1> QED BY <1>1, <1>2, <1>3, <1>4, <1>5, <1>6 DEF Next

\* As long as no fault cuts a call short, the statements of a call are one step of a store,
\* the last of them: nothing in between is seen, and neither opening the file nor a crash
\* between calls changes what is.
THEOREM CallsImplementAtomicStore ==
  ASSUME LowCutoffs
  PROVE  Spec => ImplementsAtomic
<1>1. Init => SqliteInv /\ ShownInv /\ Atomic!StoreInit
  BY InitSqlite, InitShown
<1>2. SqliteInv /\ ShownInv /\ [Next]_vars => SqliteInv' /\ ShownInv' /\ [Atomic!Next]_(Atomic!store)
  BY SqliteStep, ShownStep
<1> QED BY <1>1, <1>2, PTL DEF Spec, ImplementsAtomic, Atomic!Spec

-----------------------------------------------------------------------------
(* What a step does to facts and transactions *)

Ended(f, ts) == [f EXCEPT !.retracted = TRUE, !.to = ts]

FactsStep ==
  \/ facts' \subseteq facts
  \/ \E p \in Writes : facts' = facts \cup {NewFact(p, nextId)}
  \/ \E p \in Retractions, f \in facts : facts' = (facts \ {f}) \cup {Ended(f, p.ts)}

Under(t, p) == p.tx = t.id /\ p.ns = t.ns /\ p.branch = t.branch

TransactionsStep ==
  /\ \A t \in transactions' :
       \/ \E u \in transactions : u.id = t.id /\ u.ns = t.ns /\ u.branch = t.branch
       \/ \E p \in Writes \cup Retractions : Under(t, p)
  /\ IsFiniteSet(transactions) => IsFiniteSet(transactions')

LEMMA TransactionsAfterStep ==
  ASSUME transactions \subseteq Transaction, NEW p \in Writes,
         transactions' = TransactionsAfter(p)
  PROVE  TransactionsStep
<1>1. CASE \E t \in transactions : t.id = p.tx
  <2> DEFINE row(u) == IF u.id = p.tx THEN [u EXCEPT !.count = @ + 1] ELSE u
             after == [u \in transactions |-> row(u)]
  <2>4. transactions' = {row(u) : u \in transactions}
    BY <1>1 DEF TransactionsAfter
  <2>5. after \in Surjection(transactions, transactions')
    BY <2>4 DEF Surjection
  <2>6. IsFiniteSet(transactions) => IsFiniteSet(transactions')
    BY <2>5, FS_Surjection
  <2> HIDE DEF after
  <2> SUFFICES ASSUME NEW t \in transactions'
               PROVE  \E u \in transactions : u.id = t.id /\ u.ns = t.ns /\ u.branch = t.branch
    BY <2>6 DEF TransactionsStep
  <2>1. PICK u \in transactions : t = IF u.id = p.tx THEN [u EXCEPT !.count = @ + 1] ELSE u
    BY <1>1 DEF TransactionsAfter
  <2>2. u \in Transaction
    OBVIOUS
  <2>3. t.id = u.id /\ t.ns = u.ns /\ t.branch = u.branch
    BY <2>1, <2>2 DEF Transaction
  <2> QED BY <2>3
<1>2. CASE ~\E t \in transactions : t.id = p.tx
  <2> DEFINE row == [id |-> p.tx, ns |-> p.ns, branch |-> p.branch, ts |-> p.ts, count |-> 1]
  <2>1. transactions' = transactions \cup {row}
    BY <1>2 DEF TransactionsAfter
  <2>2. Under(row, p)
    BY DEF Under
  <2> HIDE DEF row
  <2>3. IsFiniteSet(transactions) => IsFiniteSet(transactions')
    BY <2>1, FS_AddElement
  <2> QED BY <2>1, <2>2, <2>3 DEF TransactionsStep
<1> QED BY <1>1, <1>2

LEMMA RowsStep ==
  ASSUME TypeOK, [Next]_vars
  PROVE  FactsStep /\ TransactionsStep
<1>0. transactions \subseteq Transaction
  BY DEF TypeOK, StoreTypeOK
<1>1. ASSUME UNCHANGED transactions
      PROVE  TransactionsStep
  BY <1>1 DEF TransactionsStep
<1>2. ASSUME NEW p \in Writes, RecordHit(p) \/ RecordFact(p)
      PROVE  FactsStep /\ TransactionsStep
  <2>1. UNCHANGED transactions
    BY <1>2 DEF RecordHit, RecordFact, tables, store
  <2>2. FactsStep
    BY <1>2 DEF RecordHit, RecordFact, tables, store, FactsStep
  <2> QED BY <1>1, <2>1, <2>2
<1>3. ASSUME NEW p \in Retractions, NEW id, RetractFact(id, p)
      PROVE  FactsStep /\ TransactionsStep
  <2>1. PICK f \in Retractable(id, p) : facts' = (facts \ {f}) \cup {Ended(f, p.ts)}
    BY <1>3 DEF RetractFact, Ended
  <2>2. f \in facts
    BY DEF Retractable
  <2>3. UNCHANGED transactions
    BY <1>3 DEF RetractFact
  <2> QED BY <1>1, <2>1, <2>2, <2>3 DEF FactsStep
<1>4. ASSUME facts' \subseteq facts, UNCHANGED transactions
      PROVE  FactsStep /\ TransactionsStep
  BY <1>1, <1>4 DEF FactsStep
<1>5. CASE Call
  <2>1. ASSUME NEW n, NEW b, NEW parent, NEW at, CreateBranch(n, b, parent, at)
        PROVE  FactsStep /\ TransactionsStep
    BY <1>4, <2>1 DEF CreateBranch, StoreCreateBranch
  <2>2. ASSUME NEW n, NEW b, DeleteBranch(n, b)
        PROVE  FactsStep /\ TransactionsStep
    BY <1>4, <2>2 DEF DeleteBranch, StoreDeleteBranch
  <2>3. ASSUME NEW l, NEW tx, PutTag(l, tx)
        PROVE  FactsStep /\ TransactionsStep
    BY <1>4, <2>3 DEF PutTag, StorePutTag
  <2>4. ASSUME NEW l, DeleteTag(l)
        PROVE  FactsStep /\ TransactionsStep
    BY <1>4, <2>4 DEF DeleteTag, StoreDeleteTag
  <2>5. ASSUME NEW n, NEW info, CreateNamespaceRow(n, info)
        PROVE  FactsStep /\ TransactionsStep
    BY <1>4, <2>5 DEF CreateNamespaceRow
  <2>6. ASSUME NEW before, NEW scope, GcFacts(before, scope)
        PROVE  FactsStep /\ TransactionsStep
    BY <1>4, <2>6 DEF GcFacts
  <2> QED BY <1>2, <1>3, <1>5, <2>1, <2>2, <2>3, <2>4, <2>5, <2>6 DEF Call
<1>6. CASE RecordTransaction
  <2>1. job \in Recording
    BY <1>6, JobOf DEF RecordTransaction, At
  <2>2. job.p \in Writes
    BY <2>1 DEF Recording
  <2>3. UNCHANGED facts /\ transactions' = TransactionsAfter(job.p)
    BY <1>6 DEF RecordTransaction
  <2> QED BY <1>0, <2>2, <2>3, TransactionsAfterStep DEF FactsStep
<1>7. CASE RetractTransaction
  <2>1. job \in Retracting
    BY <1>7, JobOf DEF RetractTransaction, At
  <2>2. job.p \in Retractions
    BY <2>1 DEF Retracting
  <2> DEFINE row == [id |-> job.p.tx, ns |-> job.p.ns, branch |-> job.p.branch,
                     ts |-> job.p.ts, count |-> 1]
  <2>3. UNCHANGED facts /\ transactions' = transactions \cup {row}
    BY <1>7 DEF RetractTransaction
  <2>4. Under(row, job.p)
    BY DEF Under
  <2> HIDE DEF row
  <2>5. IsFiniteSet(transactions) => IsFiniteSet(transactions')
    BY <2>3, FS_AddElement
  <2> QED BY <2>2, <2>3, <2>4, <2>5 DEF FactsStep, TransactionsStep
<1>8. CASE GcTransactions
  <2>1. UNCHANGED facts /\ transactions' \subseteq transactions
    BY <1>8 DEF GcTransactions
  <2>2. IsFiniteSet(transactions) => IsFiniteSet(transactions')
    BY <2>1, FS_Subset
  <2> QED BY <2>1, <2>2 DEF FactsStep, TransactionsStep
<1>9. CASE RecordHead \/ RecordKey \/ RetractHead \/ CreateNamespaceMain
  BY <1>4, <1>9 DEF RecordHead, RecordKey, RetractHead, CreateNamespaceMain
<1>10. CASE SeedNamespace \/ SeedBranch \/ StatementFails \/ Crash \/ UNCHANGED vars
  BY <1>4, <1>10 DEF SeedNamespace, SeedBranch, StatementFails, Crash, vars, tables, store
<1> QED BY <1>5, <1>6, <1>7, <1>8, <1>9, <1>10 DEF Next, Statement

LEMMA ReadsStep ==
  ASSUME SqliteInv, ReadsInv, [Next]_vars
  PROVE  ReadsInv'
<1>0. /\ TypeOK /\ facts \subseteq Fact /\ nextId \in Nat
      /\ \A f \in facts : f.id < nextId
  BY DEF SqliteInv, TypeOK, StoreTypeOK, AnswersInv
<1>1. FactsStep /\ TransactionsStep
  BY <1>0, RowsStep
<1>2. /\ (\A t \in transactions : \E p \in Writes \cup Retractions : Under(t, p))'
      /\ IsFiniteSet(transactions')
  <2>1. ASSUME NEW t \in transactions'
        PROVE  \E p \in Writes \cup Retractions : Under(t, p)
    BY <1>1, <2>1 DEF TransactionsStep, ReadsInv, Under
  <2>2. IsFiniteSet(transactions')
    BY <1>1 DEF TransactionsStep, ReadsInv
  <2> QED BY <2>1, <2>2 DEF Under
<1>3. CASE facts' \subseteq facts
  <2>1. IsFiniteSet(facts')
    BY <1>3, FS_Subset DEF ReadsInv
  <2> QED BY <1>2, <1>3, <2>1 DEF ReadsInv, Under
<1>4. ASSUME NEW p \in Writes, facts' = facts \cup {NewFact(p, nextId)}
      PROVE  ReadsInv'
  <2> DEFINE g == NewFact(p, nextId)
  <2>1. /\ g.id = nextId /\ g.tx = p.tx /\ g.ns = p.ns /\ g.branch = p.branch /\ g.to = p.to
    BY DEF NewFact
  <2>2. g.to = Open \/ g.to <= MaxDate
    BY <2>1, DatesAssumption
  <2> HIDE DEF g
  <2>3. facts' = facts \cup {g}
    BY <1>4 DEF g
  <2>4. IsFiniteSet(facts')
    BY <2>3, FS_AddElement DEF ReadsInv
  <2>5. \A f \in facts : f.id # g.id
    BY <1>0, <2>1 DEF Fact
  <2>6. \A f, h \in facts' : f.id = h.id => f = h
    BY <2>3, <2>5 DEF ReadsInv
  <2> QED BY <1>2, <2>1, <2>2, <2>3, <2>4, <2>6 DEF ReadsInv, Under
<1>5. ASSUME NEW p \in Retractions, NEW f \in facts,
             facts' = (facts \ {f}) \cup {Ended(f, p.ts)}
      PROVE  ReadsInv'
  <2> DEFINE g == Ended(f, p.ts)
  <2>1. /\ g.id = f.id /\ g.tx = f.tx /\ g.ns = f.ns /\ g.branch = f.branch /\ g.retracted
    BY <1>0 DEF Ended, Fact
  <2> HIDE DEF g
  <2>2. facts' = (facts \ {f}) \cup {g}
    BY <1>5 DEF g
  <2>3. IsFiniteSet(facts')
    BY <2>2, FS_AddElement, FS_RemoveElement DEF ReadsInv
  <2>4. \A h, k \in facts' : h.id = k.id => h = k
    BY <2>1, <2>2 DEF ReadsInv
  <2> QED BY <1>2, <2>1, <2>2, <2>3, <2>4 DEF ReadsInv, Under
<1> QED BY <1>1, <1>3, <1>4, <1>5 DEF FactsStep

LEMMA ReadsInductive == Spec => [](SqliteInv /\ ReadsInv)
<1>1. Init => ReadsInv
  BY FS_EmptySet DEF Init, ReadsInv
<1>2. SqliteInv /\ ReadsInv /\ [Next]_vars => ReadsInv'
  BY ReadsStep
<1> QED BY <1>1, <1>2, SqliteInductive, PTL DEF Spec

-----------------------------------------------------------------------------
(* Sequences of rows *)

LEMMA SeqsOf ==
  ASSUME NEW S, IsFiniteSet(S), NEW s \in SetToSeqs(S)
  PROVE  /\ Cardinality(S) \in Nat /\ s \in [1 .. Cardinality(S) -> S]
         /\ s \in Seq(S) /\ Len(s) = Cardinality(S)
         /\ \A i, j \in 1 .. Cardinality(S) : i # j => s[i] # s[j]
<1>1. Cardinality(S) \in Nat
  BY FS_CardinalityType
<1>2. /\ s \in [1 .. Cardinality(S) -> S]
      /\ \A i, j \in 1 .. Cardinality(S) : i # j => s[i] # s[j]
  BY DEF SetToSeqs
<1> QED BY <1>1, <1>2

LEMMA SeqsMeet ==
  ASSUME NEW S, IsFiniteSet(S), NEW s \in SetToSeqs(S), NEW f \in S
  PROVE  \E i \in 1 .. Cardinality(S) : s[i] = f
<1> DEFINE n == Cardinality(S)
<1>1. n \in Nat /\ s \in Injection(1 .. n, S)
  BY SeqsOf DEF Injection, IsInjective
<1>2. IsFiniteSet(1 .. n) /\ Cardinality(1 .. n) = n
  <2>1. IsFiniteSet(1 .. n) /\ Cardinality(1 .. n) = IF 1 > n THEN 0 ELSE n - 1 + 1
    BY <1>1, FS_Interval
  <2> QED BY <1>1, <2>1
<1>3. s \in Surjection(1 .. n, S)
  BY <1>1, <1>2, FS_Injection
<1> QED BY <1>3 DEF Surjection

-----------------------------------------------------------------------------
(* What a statement selects *)

\* Where the placeholders are, and what they are bound to.
AttrAt(q) == IF q.entity = None THEN 3 ELSE 4
AsofAt(q) == IF q.attr = None THEN AttrAt(q) ELSE AttrAt(q) + 1
AtAt(q) == IF q.asof = None THEN AsofAt(q) ELSE AsofAt(q) + 1

Pushed(r, v) == r \o Given(v)

\* s is r, whose length is n, with what v adds to it.
Extends(s, r, n, v, V) ==
  /\ s \in Seq(V)
  /\ v = None => Len(s) = n
  /\ v # None => Len(s) = n + 1 /\ s[n + 1] = v
  /\ \A k \in 1 .. n : s[k] = r[k]

LEMMA Push ==
  ASSUME NEW V, NEW r \in Seq(V), NEW v, v = None \/ v \in V, NEW s, s = Pushed(r, v),
         NEW n \in Nat, Len(r) = n
  PROVE  Extends(s, r, n, v, V)
<1>1. CASE v = None
  <2>1. Given(v) = << >>
    BY <1>1 DEF Given
  <2>2. r \o << >> = r
    OBVIOUS
  <2> QED BY <1>1, <2>1, <2>2 DEF Pushed, Extends
<1>2. CASE v # None
  <2>1. Given(v) = <<v>> /\ v \in V
    BY <1>2 DEF Given
  <2>2. <<v>> \in Seq(V) /\ Len(<<v>>) = 1 /\ <<v>>[1] = v
    BY <2>1
  <2>3. r \o <<v>> \in Seq(V) /\ Len(r \o <<v>>) = Len(r) + 1
    BY <2>2
  <2>4. \A k \in 1 .. Len(r) : (r \o <<v>>)[k] = r[k]
    BY <2>2
  <2>5. (r \o <<v>>)[Len(r) + 1] = v
    BY <2>2
  <2> QED BY <1>2, <2>1, <2>3, <2>4, <2>5 DEF Pushed, Extends
<1> QED BY <1>1, <1>2

LEMMA BoundTo ==
  ASSUME NEW q \in ScanQueries
  PROVE  /\ Binds(q)[1] = q.ns /\ Binds(q)[2] = q.branch
         /\ q.entity # None => Binds(q)[3] = q.entity
         /\ q.attr # None => Binds(q)[AttrAt(q)] = q.attr
         /\ q.asof # None => Binds(q)[AsofAt(q)] = AsI64(q.asof)
         /\ q.at # None => Binds(q)[AtAt(q)] = q.at
<1> DEFINE asof == IF q.asof = None THEN None ELSE AsI64(q.asof)
           V == {q.ns, q.branch, q.entity, q.attr, asof, q.at}
           d == <<q.ns, q.branch>>
           f == Pushed(d, q.entity)
           g == Pushed(f, q.attr)
           h == Pushed(g, asof)
           b == Pushed(h, q.at)
<1>1. asof = None <=> q.asof = None
  <2> SUFFICES ASSUME q.asof # None
               PROVE  AsI64(q.asof) # None
    OBVIOUS
  <2>1. q.asof \in Int /\ Word \in Int
    BY WordAssumption DEF ScanQueries
  <2>2. AsI64(q.asof) \in Int
    BY <2>1 DEF AsI64
  <2> QED BY <2>2, NoneAssumption
<1>2. Binds(q) = b
  BY DEF Binds, Pushed
<1>3. q.entity \in V /\ q.attr \in V /\ asof \in V /\ q.at \in V
  OBVIOUS
<1>4. d \in Seq(V) /\ Len(d) = 2 /\ d[1] = q.ns /\ d[2] = q.branch
  OBVIOUS
<1>5. q.asof # None => asof = AsI64(q.asof)
  OBVIOUS
<1> HIDE DEF V, d, asof, f, g, h, b
<1>6. /\ AttrAt(q) \in 3 .. 4 /\ (q.entity # None => AttrAt(q) = 4)
      /\ (q.entity = None => AttrAt(q) = 3)
      /\ AsofAt(q) \in AttrAt(q) .. 5 /\ (q.attr # None => AsofAt(q) = AttrAt(q) + 1)
      /\ (q.attr = None => AsofAt(q) = AttrAt(q))
      /\ AtAt(q) \in AsofAt(q) .. 6 /\ (q.asof # None => AtAt(q) = AsofAt(q) + 1)
      /\ (q.asof = None => AtAt(q) = AsofAt(q))
  BY DEF AttrAt, AsofAt, AtAt
<1>7. /\ f \in Seq(V) /\ Len(f) = AttrAt(q) - 1
      /\ q.entity # None => f[3] = q.entity
      /\ f[1] = q.ns /\ f[2] = q.branch
  <2> DEFINE n == 2
  <2>0. n \in Nat /\ Len(d) = n /\ n = 2 /\ n + 1 = 3
    BY <1>4
  <2> HIDE DEF n
  <2>00. f = Pushed(d, q.entity)
    BY DEF f
  <2>1. Extends(f, d, n, q.entity, V)
    BY <1>3, <1>4, <2>0, <2>00, Push
  <2>2. f \in Seq(V) /\ f[1] = q.ns /\ f[2] = q.branch
    <3>1. f \in Seq(V) /\ \A k \in 1 .. n : f[k] = d[k]
      BY <2>1 DEF Extends
    <3>2. 1 \in 1 .. n /\ 2 \in 1 .. n
      BY <2>0
    <3> QED BY <1>4, <3>1, <3>2
  <2>3. q.entity = None => Len(f) = AttrAt(q) - 1
    BY <1>6, <2>0, <2>1 DEF Extends
  <2>4. ASSUME q.entity # None
        PROVE  Len(f) = AttrAt(q) - 1 /\ f[3] = q.entity
    <3>1. Len(f) = n + 1 /\ f[n + 1] = q.entity
      BY <2>1, <2>4 DEF Extends
    <3>2. AttrAt(q) - 1 = n + 1
      BY <1>6, <2>0, <2>4
    <3> QED BY <2>0, <3>1, <3>2
  <2> QED BY <2>2, <2>3, <2>4
<1>8. /\ g \in Seq(V) /\ Len(g) = AsofAt(q) - 1
      /\ q.attr # None => g[AttrAt(q)] = q.attr
      /\ \A k \in 1 .. AttrAt(q) - 1 : g[k] = f[k]
  <2> DEFINE n == AttrAt(q) - 1
  <2>0. n \in Nat /\ Len(f) = n /\ AttrAt(q) = n + 1
    BY <1>6, <1>7
  <2> HIDE DEF n
  <2>00. g = Pushed(f, q.attr)
    BY DEF g
  <2>1. Extends(g, f, n, q.attr, V)
    BY <1>3, <1>7, <2>0, <2>00, Push
  <2> QED BY <1>6, <2>0, <2>1 DEF Extends
<1>9. /\ h \in Seq(V) /\ Len(h) = AtAt(q) - 1
      /\ q.asof # None => h[AsofAt(q)] = AsI64(q.asof)
      /\ \A k \in 1 .. AsofAt(q) - 1 : h[k] = g[k]
  <2> DEFINE n == AsofAt(q) - 1
  <2>0. n \in Nat /\ Len(g) = n /\ AsofAt(q) = n + 1
    BY <1>6, <1>8
  <2> HIDE DEF n
  <2>00. h = Pushed(g, asof)
    BY DEF h
  <2>1. Extends(h, g, n, asof, V)
    BY <1>3, <1>8, <2>0, <2>00, Push
  <2> QED BY <1>1, <1>5, <1>6, <2>0, <2>1 DEF Extends
<1>10. /\ q.at # None => b[AtAt(q)] = q.at
       /\ \A k \in 1 .. AtAt(q) - 1 : b[k] = h[k]
  <2> DEFINE n == AtAt(q) - 1
  <2>0. n \in Nat /\ Len(h) = n /\ AtAt(q) = n + 1
    BY <1>6, <1>9
  <2> HIDE DEF n
  <2>00. b = Pushed(h, q.at)
    BY DEF b
  <2>1. Extends(b, h, n, q.at, V)
    BY <1>3, <1>9, <2>0, <2>00, Push
  <2> QED BY <2>0, <2>1 DEF Extends
<1>11. \A k \in 1 .. AsofAt(q) - 1 : b[k] = g[k]
  BY <1>6, <1>9, <1>10
<1>12. \A k \in 1 .. AttrAt(q) - 1 : b[k] = f[k]
  BY <1>6, <1>8, <1>11
<1>13. b[1] = q.ns /\ b[2] = q.branch /\ (q.entity # None => b[3] = q.entity)
  BY <1>6, <1>7, <1>12
<1>14. q.attr # None => b[AttrAt(q)] = q.attr
  BY <1>6, <1>8, <1>11
<1>15. q.asof # None => b[AsofAt(q)] = AsI64(q.asof)
  BY <1>6, <1>9, <1>10
<1> QED BY <1>2, <1>10, <1>13, <1>14, <1>15

\* The rows that a statement is meant to select.
Asked(q, row) ==
  /\ row.ns = q.ns /\ row.branch = q.branch
  /\ q.entity = None \/ row.key[1] = q.entity
  /\ q.attr = None \/ row.key[2] = q.attr
  /\ q.retracted \/ ~row.retracted
  /\ q.asof = None \/ row.ts <= AsI64(q.asof)
  /\ q.at = None \/ (row.from <= q.at /\ (row.to = Open \/ row.to > q.at))

\* A clause is there exactly when its option is given, and its placeholder is its own.
LEMMA ClausesOf ==
  ASSUME NEW q \in ScanQueries, NEW c
  PROVE  c \in Clauses(q) <=>
           \/ q.entity # None /\ c = [test |-> "entity", idx |-> 3]
           \/ q.attr # None /\ c = [test |-> "attr", idx |-> AttrAt(q)]
           \/ ~q.retracted /\ c = [test |-> "live", idx |-> 0]
           \/ q.asof # None /\ c = [test |-> "asof", idx |-> AsofAt(q)]
           \/ q.at # None /\ c = [test |-> "at", idx |-> AtAt(q)]
<1> DEFINE entity == [test |-> "entity", idx |-> 3]
           attr == [test |-> "attr", idx |-> AttrAt(q)]
           live == [test |-> "live", idx |-> 0]
           asof == [test |-> "asof", idx |-> AsofAt(q)]
           at == [test |-> "at", idx |-> AtAt(q)]
<1>1. Clauses(q) = (IF q.entity # None THEN {entity} ELSE {})
                     \cup (IF q.attr # None THEN {attr} ELSE {})
                     \cup (IF ~q.retracted THEN {live} ELSE {})
                     \cup (IF q.asof # None THEN {asof} ELSE {})
                     \cup (IF q.at # None THEN {at} ELSE {})
  BY DEF Clauses, AttrAt, AsofAt, AtAt
<1> HIDE DEF entity, attr, live, asof, at
<1>2. c \in Clauses(q) <=>
        \/ q.entity # None /\ c = entity
        \/ q.attr # None /\ c = attr
        \/ ~q.retracted /\ c = live
        \/ q.asof # None /\ c = asof
        \/ q.at # None /\ c = at
  BY <1>1
<1> QED BY <1>2 DEF entity, attr, live, asof, at

LEMMA ClauseHolds ==
  ASSUME NEW q \in ScanQueries, NEW row, NEW c \in Clauses(q)
  PROVE  LET v == IF c.idx = 0 THEN None ELSE Binds(q)[c.idx]
         IN  Holds(c.test, row, v) <=>
               CASE c.test = "entity" -> row.key[1] = q.entity
                 [] c.test = "attr" -> row.key[2] = q.attr
                 [] c.test = "live" -> ~row.retracted
                 [] c.test = "asof" -> row.ts <= AsI64(q.asof)
                 [] c.test = "at" -> row.from <= q.at /\ (row.to = Open \/ row.to > q.at)
<1> DEFINE v == IF c.idx = 0 THEN None ELSE Binds(q)[c.idx]
<1>1. AttrAt(q) # 0 /\ AsofAt(q) # 0 /\ AtAt(q) # 0
  BY DEF AttrAt, AsofAt, AtAt
<1>2. /\ c.test = "entity" => v = q.entity
      /\ c.test = "attr" => v = q.attr
      /\ c.test = "asof" => v = AsI64(q.asof)
      /\ c.test = "at" => v = q.at
  BY <1>1, BoundTo, ClausesOf
<1>3. c.test \in {"entity", "attr", "live", "asof", "at"}
  BY ClausesOf
<1> HIDE DEF v
<1>4. Holds(c.test, row, v) <=>
               CASE c.test = "entity" -> row.key[1] = q.entity
                 [] c.test = "attr" -> row.key[2] = q.attr
                 [] c.test = "live" -> ~row.retracted
                 [] c.test = "asof" -> row.ts <= AsI64(q.asof)
                 [] c.test = "at" -> row.from <= q.at /\ (row.to = Open \/ row.to > q.at)
  BY <1>2, <1>3 DEF Holds
<1> QED BY <1>4 DEF v

LEMMA RowsAsked ==
  ASSUME NEW q \in ScanQueries
  PROVE  Rows(q) = {row \in facts : Asked(q, row)}
<1> SUFFICES ASSUME NEW row \in facts
             PROVE  row \in Rows(q) <=> Asked(q, row)
  BY DEF Rows
<1> DEFINE v(c) == IF c.idx = 0 THEN None ELSE Binds(q)[c.idx]
<1>1. row \in Rows(q) <=> /\ row.ns = q.ns /\ row.branch = q.branch
                          /\ \A c \in Clauses(q) : Holds(c.test, row, v(c))
  BY BoundTo DEF Rows
<1>2. \A c \in Clauses(q) : Holds(c.test, row, v(c)) <=>
               CASE c.test = "entity" -> row.key[1] = q.entity
                 [] c.test = "attr" -> row.key[2] = q.attr
                 [] c.test = "live" -> ~row.retracted
                 [] c.test = "asof" -> row.ts <= AsI64(q.asof)
                 [] c.test = "at" -> row.from <= q.at /\ (row.to = Open \/ row.to > q.at)
  BY ClauseHolds
<1> HIDE DEF v
<1>3. (\A c \in Clauses(q) : Holds(c.test, row, v(c))) <=>
        /\ q.entity # None => row.key[1] = q.entity
        /\ q.attr # None => row.key[2] = q.attr
        /\ ~q.retracted => ~row.retracted
        /\ q.asof # None => row.ts <= AsI64(q.asof)
        /\ q.at # None => row.from <= q.at /\ (row.to = Open \/ row.to > q.at)
  <2>1. ASSUME \A c \in Clauses(q) : Holds(c.test, row, v(c))
        PROVE  /\ q.entity # None => row.key[1] = q.entity
               /\ q.attr # None => row.key[2] = q.attr
               /\ ~q.retracted => ~row.retracted
               /\ q.asof # None => row.ts <= AsI64(q.asof)
               /\ q.at # None => row.from <= q.at /\ (row.to = Open \/ row.to > q.at)
    <3>1. /\ q.entity # None => \E c \in Clauses(q) : c.test = "entity"
          /\ q.attr # None => \E c \in Clauses(q) : c.test = "attr"
          /\ ~q.retracted => \E c \in Clauses(q) : c.test = "live"
          /\ q.asof # None => \E c \in Clauses(q) : c.test = "asof"
          /\ q.at # None => \E c \in Clauses(q) : c.test = "at"
      <4>1. \A t, i : [test |-> t, idx |-> i].test = t
        OBVIOUS
      <4> QED BY <4>1, ClausesOf
    <3> QED BY <1>2, <2>1, <3>1
  <2>2. ASSUME q.entity # None => row.key[1] = q.entity,
               q.attr # None => row.key[2] = q.attr,
               ~q.retracted => ~row.retracted,
               q.asof # None => row.ts <= AsI64(q.asof),
               q.at # None => row.from <= q.at /\ (row.to = Open \/ row.to > q.at),
               NEW c \in Clauses(q)
        PROVE  Holds(c.test, row, v(c))
    <3>1. /\ c.test = "entity" => q.entity # None
          /\ c.test = "attr" => q.attr # None
          /\ c.test = "live" => ~q.retracted
          /\ c.test = "asof" => q.asof # None
          /\ c.test = "at" => q.at # None
          /\ c.test \in {"entity", "attr", "live", "asof", "at"}
      BY ClausesOf
    <3> QED BY <1>2, <2>2, <3>1
  <2> QED BY <2>1, <2>2
<1> QED BY <1>1, <1>3 DEF Asked

-----------------------------------------------------------------------------
(* Listings *)

LEMMA NothingFound ==
  /\ NewestFirst({}) = {<< >>}
  /\ Read(<< >>) = << >>
<1>1. SetToSeqs({}) = {<< >>}
  <2>1. Cardinality({}) = 0
    BY FS_EmptySet
  <2>2. 1 .. 0 = {} /\ 0 \in Nat
    OBVIOUS
  <2>3. SetToSeqs({}) = {f \in [1 .. 0 -> {}] : \A i, j \in 1 .. 0 : i # j => f[i] # f[j]}
    BY <2>1 DEF SetToSeqs
  <2>4. ASSUME NEW f \in [1 .. 0 -> {}]
        PROVE  f = << >>
    <3>1. f \in Seq({}) /\ Len(f) = 0
      OBVIOUS
    <3> QED BY <3>1, EmptySeq
  <2>5. << >> \in [1 .. 0 -> {}]
    <3>1. << >> \in Seq({}) /\ Len(<< >>) = 0
      OBVIOUS
    <3> QED BY <3>1, LenProperties
  <2> QED BY <2>2, <2>3, <2>4, <2>5
<1>2. NewestFirst({}) = {<< >>}
  BY <1>1 DEF NewestFirst
<1>3. Read(<< >>) = << >>
  BY DEF Read
<1> QED BY <1>2, <1>3

\* A scan without a page has an empty answer exactly when no row is selected.
LEMMA ScanFinds ==
  ASSUME IsFiniteSet(facts), NEW q, q.limit = None, q.offset = None
  PROVE  SqlScan(q) # {<< >>} <=> Rows(q) # {}
<1>0. Skip(q) = 0 /\ Rows(q) \in SUBSET facts
  BY DEF Skip, Rows
<1>1. IsFiniteSet(Rows(q))
  BY <1>0, FS_Subset
<1>2. SqlScan(q) = {Read(Page(s, 0, None)) : s \in NewestFirst(Rows(q))}
  BY <1>0 DEF SqlScan
<1>3. CASE Rows(q) = {}
  <2>1. Page(<< >>, 0, None) = << >>
    <3>1. << >> \in Seq({})
      OBVIOUS
    <3> QED BY <3>1, WholePage
  <2>2. {Read(Page(s, 0, None)) : s \in {<< >>}} = {<< >>}
    BY <2>1, NothingFound
  <2> QED BY <1>2, <1>3, <2>2, NothingFound
<1>4. CASE Rows(q) # {}
  <2> SUFFICES ASSUME SqlScan(q) = {<< >>}
               PROVE  FALSE
    BY <1>4
  <2>1. PICK s \in NewestFirst(Rows(q)) : Read(Page(s, 0, None)) = << >>
    BY <1>2
  <2>2. s \in Seq(Rows(q)) /\ Len(s) = Cardinality(Rows(q)) /\ DOMAIN s = 1 .. Len(s)
    BY <1>1, SeqsOf DEF NewestFirst
  <2>3. Page(s, 0, None) = s
    BY <2>2, WholePage
  <2>4. Cardinality(Rows(q)) \in Nat \ {0}
    BY <1>1, <1>4, FS_EmptySet, FS_CardinalityType
  <2>5. DOMAIN Read(s) = 1 .. Len(s)
    BY <2>2 DEF Read
  <2>6. 1 \in DOMAIN Read(s)
    BY <2>2, <2>4, <2>5
  <2> QED BY <2>1, <2>3, <2>6
<1> QED BY <1>3, <1>4

LEMMA EntityListed ==
  ASSUME StoreTypeOK, IsFiniteSet(facts), NEW n \in Namespaces, NEW b \in Branches,
         NEW k \in Keys
  PROVE  LET q == [ScanAll(n, b) EXCEPT !.entity = k[1]]
         IN  /\ k[1] \in SqlEntities(n, b) <=> SqlScan(q) # {<< >>}
             /\ k[2] \in SqlAttrs(n, b, k[1]) <=> SqlScan([q EXCEPT !.attr = k[2]]) # {<< >>}
<1> DEFINE q == [ScanAll(n, b) EXCEPT !.entity = k[1]]
           p == [q EXCEPT !.attr = k[2]]
<1>1. k[1] \in Nat /\ k[2] \in Nat /\ k[1] # None /\ k[2] # None
  BY KeysAssumption, NoneAssumption
<1> DEFINE r == ScanAll(n, b)
<1>2. /\ r \in ScanQueries /\ r.ns = n /\ r.branch = b /\ r.attr = None /\ r.retracted = FALSE
      /\ r.asof = None /\ r.at = None /\ r.limit = None /\ r.offset = None
  BY DEF ScanAll, ScanQueries
<1> HIDE DEF r
<1>3. /\ q \in ScanQueries /\ q.ns = n /\ q.branch = b /\ q.entity = k[1] /\ q.attr = None
      /\ q.retracted = FALSE /\ q.asof = None /\ q.at = None /\ q.limit = None
      /\ q.offset = None
  <2>1. q = [r EXCEPT !.entity = k[1]]
    BY DEF r
  <2> HIDE DEF q
  <2> QED BY <1>1, <1>2, <2>1 DEF ScanQueries
<1> HIDE DEF q
<1>4. /\ p \in ScanQueries /\ p.ns = n /\ p.branch = b /\ p.entity = k[1] /\ p.attr = k[2]
      /\ p.retracted = FALSE /\ p.asof = None /\ p.at = None /\ p.limit = None
      /\ p.offset = None
  BY <1>1, <1>3 DEF ScanQueries
<1> HIDE DEF p
<1>5. /\ Rows(q) = {row \in facts : row.ns = n /\ row.branch = b /\ row.key[1] = k[1]
                                                /\ ~row.retracted}
      /\ Rows(p) = {row \in facts : row.ns = n /\ row.branch = b /\ row.key[1] = k[1]
                                      /\ row.key[2] = k[2] /\ ~row.retracted}
  BY <1>1, <1>3, <1>4, RowsAsked DEF Asked
<1>6. k[1] \in SqlEntities(n, b) <=> Rows(q) # {}
  BY <1>5 DEF SqlEntities
<1>7. k[2] \in SqlAttrs(n, b, k[1]) <=> Rows(p) # {}
  BY <1>5 DEF SqlAttrs
<1>8. SqlScan(q) # {<< >>} <=> Rows(q) # {}
  BY <1>3, ScanFinds
<1>9. SqlScan(p) # {<< >>} <=> Rows(p) # {}
  BY <1>4, ScanFinds
<1> QED BY <1>6, <1>7, <1>8, <1>9 DEF q, p

LEMMA FactFound ==
  ASSUME ReadsInv, NEW f \in facts, ~f.retracted
  PROVE  GetFact(f.id) = {f}
<1>1. {row \in facts : row.id = f.id} = {f}
  BY DEF ReadsInv
<1>2. RowToFact(f) = f
  BY DEF ReadsInv, RowToFact
<1>3. GetFact(f.id) = {RowToFact(row) : row \in {f}}
  BY <1>1 DEF GetFact
<1> QED BY <1>2, <1>3

LEMMA TransactionListed ==
  ASSUME SqliteInv, ReadsInv, NEW n, NEW b, NEW a \in replies, NEW txs \in SqlTx(n, b, None),
         NEW f \in facts, f.id = a.fact, f.ns = n, f.branch = b
  PROVE  \E i \in DOMAIN txs : txs[i].id = a.tx
<1> DEFINE S == {t \in transactions : t.ns = n /\ t.branch = b}
<1>1. f.tx = a.tx /\ \E t \in transactions : t.id = a.tx
  BY DEF SqliteInv, AnswersInv, AnswersHold
<1>2. PICK t \in transactions : t.id = a.tx
  BY <1>1
<1>3. PICK p \in Writes : p.tx = f.tx /\ p.ns = f.ns /\ p.branch = f.branch
  BY DEF ReadsInv
<1>4. PICK w \in Writes \cup Retractions : w.tx = t.id /\ w.ns = t.ns /\ w.branch = t.branch
  BY DEF ReadsInv
<1>5. t \in S
  BY <1>1, <1>2, <1>3, <1>4, TxIdsAssumption
<1>6. IsFiniteSet(S)
  BY FS_Subset DEF ReadsInv
<1>7. PICK s \in NewestFirst(S) : txs = Page(s, 0, None)
  BY DEF SqlTx
<1> HIDE DEF S
<1>8. s \in SetToSeqs(S)
  BY <1>7 DEF NewestFirst
<1>9. s \in Seq(S) /\ DOMAIN s = 1 .. Cardinality(S)
  BY <1>6, <1>8, SeqsOf
<1>10. txs = s
  BY <1>7, <1>9, WholePage
<1>11. PICK i \in 1 .. Cardinality(S) : s[i] = t
  BY <1>5, <1>6, <1>8, SeqsMeet
<1> QED BY <1>2, <1>9, <1>10, <1>11

\* Whatever faults have left behind, reading is consistent: an entity and an attribute
\* are listed exactly when a scan for them finds a fact, get_fact gives a
\* fact that is not retracted as it was written, and a transaction that an answer named
\* is listed as long as one of its facts is stored
\* (sqlite.rs:1137-1197, 371-390, 792-840).
THEOREM ListsAgreeAlways == Spec => []ListsAgree
<1>1. SqliteInv /\ ReadsInv => ListsAgree
  <2> SUFFICES ASSUME SqliteInv, ReadsInv, NEW n \in Namespaces, NEW b \in Branches
               PROVE  /\ \A k \in Keys :
                           LET q == [ScanAll(n, b) EXCEPT !.entity = k[1]]
                           IN  /\ k[1] \in SqlEntities(n, b) <=> SqlScan(q) # {<< >>}
                               /\ k[2] \in SqlAttrs(n, b, k[1])
                                    <=> SqlScan([q EXCEPT !.attr = k[2]]) # {<< >>}
                      /\ \A f \in facts : ~f.retracted => GetFact(f.id) = {f}
                      /\ \A a \in replies, txs \in SqlTx(n, b, None) :
                           (\E f \in facts : f.id = a.fact /\ f.ns = n /\ f.branch = b)
                             => \E i \in DOMAIN txs : txs[i].id = a.tx
    BY DEF ListsAgree
  <2>1. StoreTypeOK /\ IsFiniteSet(facts)
    BY DEF SqliteInv, TypeOK, ReadsInv
  <2>2. \A k \in Keys :
          LET q == [ScanAll(n, b) EXCEPT !.entity = k[1]]
          IN  /\ k[1] \in SqlEntities(n, b) <=> SqlScan(q) # {<< >>}
              /\ k[2] \in SqlAttrs(n, b, k[1]) <=> SqlScan([q EXCEPT !.attr = k[2]]) # {<< >>}
    BY <2>1, EntityListed
  <2>3. \A f \in facts : ~f.retracted => GetFact(f.id) = {f}
    BY FactFound
  <2>4. \A a \in replies, txs \in SqlTx(n, b, None) :
          (\E f \in facts : f.id = a.fact /\ f.ns = n /\ f.branch = b)
            => \E i \in DOMAIN txs : txs[i].id = a.tx
    BY TransactionListed
  <2> QED BY <2>2, <2>3, <2>4
<1> QED BY <1>1, ReadsInductive, PTL

-----------------------------------------------------------------------------
(* The answer of a scan *)

\* What v and w have at one place, s and t have at one place.
Beside(v, w, s, t) ==
  \A i \in 1 .. Len(v) : \E j \in 1 .. Len(s) : v[i] = s[j] /\ w[i] = t[j]

\* The same page of two sequences of one length.
LEMMA SamePage ==
  ASSUME NEW T, NEW U, NEW s \in Seq(T), NEW t \in Seq(U), Len(s) = Len(t),
         NEW offset \in Nat, NEW limit \in Nat \cup {None}
  PROVE  /\ Page(s, offset, limit) \in Seq(T) /\ Page(t, offset, limit) \in Seq(U)
         /\ Len(Page(s, offset, limit)) = Len(Page(t, offset, limit))
         /\ Beside(Page(s, offset, limit), Page(t, offset, limit), s, t)
<1> DEFINE e == IF limit = None \/ offset + limit > Len(s) THEN Len(s) ELSE offset + limit
           m == offset + 1
<1>1. Page(s, offset, limit) = SubSeq(s, m, e) /\ Page(t, offset, limit) = SubSeq(t, m, e)
  BY DEF Page
<1>2. e \in Nat /\ m \in Nat /\ e <= Len(s) /\ 1 <= m
  <2>1. Len(s) \in Nat
    OBVIOUS
  <2>2. CASE limit = None
    BY <2>1, <2>2
  <2>3. CASE limit # None
    BY <2>1, <2>3
  <2> QED BY <2>2, <2>3
<1> HIDE DEF e, m
<1>3. CASE e < m
  <2>1. SubSeq(s, m, e) = << >> /\ SubSeq(t, m, e) = << >>
    BY <1>2, <1>3
  <2> QED BY <1>1, <2>1, EmptySeq DEF Beside
<1>4. CASE m <= e
  <2>1. /\ SubSeq(s, m, e) \in Seq(T) /\ SubSeq(t, m, e) \in Seq(U)
        /\ Len(SubSeq(s, m, e)) = e - m + 1 /\ Len(SubSeq(t, m, e)) = e - m + 1
    BY <1>2, <1>4
  <2>2. ASSUME NEW i \in 1 .. e - m + 1
        PROVE  \E j \in 1 .. Len(s) : SubSeq(s, m, e)[i] = s[j] /\ SubSeq(t, m, e)[i] = t[j]
    <3>1. m + i - 1 \in 1 .. Len(s)
      BY <1>2, <1>4
    <3>2. SubSeq(s, m, e)[i] = s[m + i - 1]
      BY <1>2, <1>4
    <3>3. SubSeq(t, m, e)[i] = t[m + i - 1]
      BY <1>2, <1>4
    <3> QED BY <3>1, <3>2, <3>3
  <2> QED BY <1>1, <2>1, <2>2 DEF Beside
<1> QED BY <1>2, <1>3, <1>4

LEMMA NoPage ==
  ASSUME NEW offset \in Nat, NEW limit \in Nat \cup {None}
  PROVE  Page(<< >>, offset, limit) = << >>
<1> DEFINE e == IF limit = None \/ offset + limit > 0 THEN 0 ELSE offset + limit
<1>1. Page(<< >>, offset, limit) = SubSeq(<< >>, offset + 1, e)
  <2>1. Len(<< >>) = 0
    OBVIOUS
  <2> QED BY <2>1 DEF Page
<1>2. e = 0
  OBVIOUS
<1> HIDE DEF e
<1> QED BY <1>1, <1>2, SubSeqEmpty

\* What MemoryStore selects of what it shows is what the statement selects.
LEMMA MatchesAsked ==
  ASSUME NEW q \in ScanQueries, ~EndsMixedUp(q), ~TimeTurned(q), NEW row \in Fact
  PROVE  Matches(q, InMillis(row)) <=> Asked(q, row)
<1>1. /\ InMillis(row).id = row.id /\ InMillis(row).ns = row.ns
      /\ InMillis(row).branch = row.branch /\ InMillis(row).ts = row.ts
      /\ InMillis(row).retracted = row.retracted
      /\ ~row.retracted => InMillis(row) = row
  BY InMillisKeeps
<1>2. InMillis(row).key = row.key
  BY DEF InMillis, Fact
<1>3. q.asof # None => AsI64(q.asof) = q.asof
  <2> SUFFICES ASSUME q.asof # None
               PROVE  AsI64(q.asof) = q.asof
    OBVIOUS
  <2>1. q.asof \in Int /\ Word \div 2 \in Int
    BY WordAssumption DEF ScanQueries
  <2>2. ~(q.asof >= Word \div 2)
    BY DEF TimeTurned
  <2>3. q.asof < Word \div 2
    BY <2>1, <2>2
  <2> QED BY <2>3 DEF AsI64
<1>4. ASSUME q.at # None
      PROVE  Matches(q, InMillis(row)) <=> Asked(q, row)
  <2>1. ~q.retracted
    BY <1>4 DEF EndsMixedUp
  <2>2. CASE row.retracted
    BY <1>1, <2>1, <2>2 DEF Matches, Asked
  <2>3. CASE ~row.retracted
    BY <1>1, <1>3, <2>3 DEF Matches, Asked, ValidAt
  <2> QED BY <2>2, <2>3
<1>5. ASSUME q.at = None
      PROVE  Matches(q, InMillis(row)) <=> Asked(q, row)
  BY <1>1, <1>2, <1>3, <1>5 DEF Matches, Asked
<1> QED BY <1>4, <1>5

\* A row reads as MemoryStore shows it, up to the end of a retracted fact.
LEMMA ReadsBack ==
  ASSUME NEW row \in Fact, row.retracted \/ row.to = Open \/ row.to <= MaxDate
  PROVE  LET f == InMillis(row)
         IN  RowToFact(row) = IF f.retracted THEN [f EXCEPT !.to = RowToFact(row).to] ELSE f
<1>1. CASE ~row.retracted
  BY <1>1, InMillisKeeps DEF RowToFact
<1>2. CASE row.retracted
  <2>1. InMillis(row).retracted /\ InMillis(row) = [row EXCEPT !.to = Millis(row.to)]
    BY <1>2, InMillisKeeps DEF InMillis
  <2>2. \A a, b : [[row EXCEPT !.to = a] EXCEPT !.to = b] = [row EXCEPT !.to = b]
    BY DEF Fact
  <2>3. [row EXCEPT !.to = row.to] = row
    BY DEF Fact
  <2>4. RowToFact(row) = [row EXCEPT !.to = RowToFact(row).to]
    <3>1. [row EXCEPT !.to = 0].to = 0
      BY DEF Fact
    <3> QED BY <2>3, <3>1 DEF RowToFact
  <2> QED BY <2>1, <2>2, <2>4
<1> QED BY <1>1, <1>2

\* What MemoryStore selects of what it shows.
Selected(q) == {f \in InMemory : Matches(q, f)}

\* Any set of rows can be sorted, and so can what it is shown as.
LEMMA RowsSortable ==
  ASSUME ReadsInv, facts \subseteq Fact, NEW R, R \subseteq facts
  PROVE  Sortable(R)
<1>1. IsFiniteSet(R)
  BY FS_Subset DEF ReadsInv
<1> QED BY <1>1 DEF Sortable, ReadsInv, Fact

LEMMA ShownRows ==
  ASSUME ReadsInv, facts \subseteq Fact, NEW R, R \subseteq facts,
         NEW M, M = {InMillis(row) : row \in R}
  PROVE  Sortable(M) /\ Cardinality(M) = Cardinality(R)
<1> DEFINE show == [row \in R |-> InMillis(row)]
<1>1. \A row \in R : InMillis(row).id = row.id /\ InMillis(row).ts = row.ts /\ row \in Fact
  BY InMillisKeeps
<1>2. show \in [R -> M] /\ \A f \in M : \E row \in R : show[row] = f
  OBVIOUS
<1>3. \A r, s \in R : show[r] = show[s] => r = s
  BY <1>1 DEF ReadsInv
<1>4. IsFiniteSet(R)
  BY FS_Subset DEF ReadsInv
<1>5. \A f \in M : f.ts \in Nat /\ f.id \in Nat
  BY <1>1 DEF Fact
<1>6. \A f, g \in M : f.id = g.id => f = g
  BY <1>1 DEF ReadsInv
<1> HIDE DEF show
<1>7. show \in Bijection(R, M)
  BY <1>2, <1>3 DEF Bijection, Injection, IsInjective, Surjection
<1>8. IsFiniteSet(M) /\ Cardinality(M) = Cardinality(R)
  BY <1>4, <1>7, FS_Bijection DEF ExistsBijection
<1> QED BY <1>5, <1>6, <1>8 DEF Sortable

LEMMA SelectedShown ==
  ASSUME facts \subseteq Fact, NEW q \in ScanQueries, ~EndsMixedUp(q), ~TimeTurned(q)
  PROVE  Selected(q) = {InMillis(row) : row \in Rows(q)}
<1>1. \A row \in facts : Matches(q, InMillis(row)) <=> Asked(q, row)
  BY MatchesAsked
<1>2. Rows(q) = {row \in facts : Asked(q, row)}
  BY RowsAsked
<1> QED BY <1>1, <1>2 DEF Selected, InMemory

\* The rows in the order in which MemoryStore has them are one of the orders SQL allows.
LEMMA OrderAllowed ==
  ASSUME NEW R, Sortable(R), \A row \in R : row \in Fact,
         NEW M, M = {InMillis(row) : row \in R}, Sortable(M), Cardinality(M) = Cardinality(R),
         NEW mem, Sorts(mem, M, Newer(M))
  PROVE  \E rows \in NewestFirst(R) :
           \A i \in 1 .. Cardinality(R) : rows[i] \in R /\ mem[i] = InMillis(rows[i])
<1> DEFINE n == Cardinality(R)
           rows == [i \in 1 .. n |-> CHOOSE row \in R : InMillis(row) = mem[i]]
<1>1. /\ n \in Nat /\ mem \in [1 .. n -> M]
      /\ \A i, j \in 1 .. n : i # j => mem[i] # mem[j]
      /\ \A i, j \in 1 .. n : i < j => NewerThan(mem[i], mem[j])
  BY NewestRows
<1>2. \A i \in 1 .. n : rows[i] \in R /\ mem[i] = InMillis(rows[i])
  <2> SUFFICES ASSUME NEW i \in 1 .. n
               PROVE  rows[i] \in R /\ mem[i] = InMillis(rows[i])
    OBVIOUS
  <2>1. \E row \in R : InMillis(row) = mem[i]
    BY <1>1
  <2> QED BY <2>1
<1>3. rows \in [1 .. n -> R] /\ DOMAIN rows = 1 .. n
  BY <1>2
<1> HIDE DEF rows
<1>4. \A i, j \in 1 .. n : i # j => rows[i] # rows[j]
  BY <1>1, <1>2
<1>5. rows \in SetToSeqs(R)
  BY <1>3, <1>4 DEF SetToSeqs
<1>6. ASSUME NEW i \in 1 .. n, NEW j \in 1 .. n, i < j
      PROVE  rows[i].ts >= rows[j].ts
  <2>1. mem[i].ts > mem[j].ts \/ mem[i].ts = mem[j].ts
    BY <1>1, <1>6 DEF NewerThan
  <2>2. /\ mem[i].ts = rows[i].ts /\ mem[j].ts = rows[j].ts
        /\ rows[i].ts \in Nat /\ rows[j].ts \in Nat
    BY <1>2, InMillisKeeps DEF Fact
  <2> QED BY <2>1, <2>2
<1>7. rows \in NewestFirst(R)
  BY <1>3, <1>5, <1>6 DEF NewestFirst
<1> QED BY <1>2, <1>7

\* Among the answers SQLite may give is the one of MemoryStore.
LEMMA ScanAnswered ==
  ASSUME ReadsInv, facts \subseteq Fact, NEW q \in ScanQueries, ~EndsMixedUp(q), ~TimeTurned(q)
  PROVE  \E rows \in SqlScan(q) : SameRows(ScanOf(InMemory, q), rows)
<1> DEFINE R == Rows(q)
           M == Selected(q)
           mem == InOrder(M)
           n == Cardinality(R)
           offset == Skip(q)
           limit == q.limit
<1>1. R \subseteq facts /\ M = {InMillis(row) : row \in R}
  BY SelectedShown DEF Rows
<1>2. Sortable(R) /\ Sortable(M) /\ Cardinality(M) = n
  BY <1>1, RowsSortable, ShownRows
<1>3. Sorts(mem, M, Newer(M))
  BY <1>2, ScanSorts
<1>4. offset \in Nat /\ limit \in Nat \cup {None}
  BY DEF Skip, ScanQueries
<1>5. ScanOf(InMemory, q) = Page(mem, offset, limit)
  BY DEF ScanOf, Selected
<1>6. SqlScan(q) = {Read(Page(s, offset, limit)) : s \in NewestFirst(R)}
  BY DEF SqlScan
<1> HIDE DEF R, M, mem, offset, limit
<1>7. PICK rows \in NewestFirst(R) :
        \A i \in 1 .. n : rows[i] \in R /\ mem[i] = InMillis(rows[i])
  BY <1>1, <1>2, <1>3, OrderAllowed
<1>8. mem \in Seq(M) /\ Len(mem) = n /\ rows \in Seq(R) /\ Len(rows) = n
  BY <1>2, <1>3, <1>7, NewestRows, SeqsOf DEF NewestFirst, Sortable
<1> DEFINE v == Page(mem, offset, limit)
           w == Page(rows, offset, limit)
<1>9. v \in Seq(M) /\ w \in Seq(R) /\ Len(v) = Len(w) /\ Beside(v, w, mem, rows)
  BY <1>4, <1>8, SamePage
<1> HIDE DEF v, w, n
<1>10. DOMAIN v = 1 .. Len(v) /\ DOMAIN w = 1 .. Len(v) /\ Len(v) \in Nat
  BY <1>9, LenProperties
<1>11. /\ DOMAIN Read(w) = 1 .. Len(v) /\ Len(Read(w)) = Len(v)
       /\ \A i \in 1 .. Len(v) : Read(w)[i] = RowToFact(w[i])
  BY <1>10 DEF Read
<1>12. ASSUME NEW i \in 1 .. Len(v)
       PROVE  Read(w)[i] = IF v[i].retracted THEN [v[i] EXCEPT !.to = Read(w)[i].to] ELSE v[i]
  <2>1. PICK j \in 1 .. n : v[i] = mem[j] /\ w[i] = rows[j]
    BY <1>8, <1>9, <1>12 DEF Beside
  <2>2. w[i] \in facts /\ v[i] = InMillis(w[i])
    BY <1>1, <1>7, <2>1
  <2>3. w[i] \in Fact /\ (w[i].retracted \/ w[i].to = Open \/ w[i].to <= MaxDate)
    BY <2>2 DEF ReadsInv
  <2> QED BY <1>11, <2>2, <2>3, ReadsBack
<1>13. SameRows(v, Read(w))
  BY <1>10, <1>11, <1>12 DEF SameRows
<1>14. Read(w) \in SqlScan(q)
  BY <1>6, <1>7 DEF w
<1> QED BY <1>5, <1>13, <1>14 DEF v

\* A time beyond the range of an i64 is negative, and finds nothing.
LEMMA TurnedFindsNothing ==
  ASSUME facts \subseteq Fact, NEW q \in ScanQueries, TimeTurned(q)
  PROVE  SqlScan(q) = {<< >>}
<1>1. q.asof # None /\ AsI64(q.asof) < 0
  <2>1. q.asof \in 0 .. Word - 1 /\ Word \in Nat /\ Word \div 2 \in Int
    BY WordAssumption DEF TimeTurned, ScanQueries
  <2>2. q.asof # None /\ ~(q.asof < Word \div 2)
    BY <2>1 DEF TimeTurned
  <2>3. AsI64(q.asof) = q.asof - Word
    BY <2>2 DEF AsI64
  <2> QED BY <2>1, <2>2, <2>3
<1>2. \A row \in facts : ~Asked(q, row)
  <2> SUFFICES ASSUME NEW row \in facts, row.ts <= AsI64(q.asof)
               PROVE  FALSE
    BY <1>1 DEF Asked
  <2>1. row.ts \in Nat /\ AsI64(q.asof) \in Int
    BY WordAssumption, <1>1 DEF Fact, AsI64, ScanQueries
  <2> QED BY <1>1, <2>1
<1>3. Rows(q) = {}
  BY <1>2, RowsAsked
<1>4. Skip(q) \in Nat /\ q.limit \in Nat \cup {None}
  BY DEF Skip, ScanQueries
<1>5. Read(Page(<< >>, Skip(q), q.limit)) = << >>
  BY <1>4, NoPage, NothingFound
<1>6. SqlScan(q) = {Read(Page(s, Skip(q), q.limit)) : s \in {<< >>}}
  BY <1>3, NothingFound DEF SqlScan
<1> QED BY <1>5, <1>6

\* Without two facts of one timestamp, there is one answer.
LEMMA OneAnswer ==
  ASSUME ReadsInv, facts \subseteq Fact, NEW q,
         \A r, s \in Rows(q) : r.ts = s.ts => r = s
  PROVE  Cardinality(SqlScan(q)) = 1
<1> DEFINE R == Rows(q)
<1>1. R \subseteq facts
  BY DEF Rows
<1>2. Sortable(R)
  BY <1>1, RowsSortable
<1> HIDE DEF R
<1>3. ASSUME NEW s \in NewestFirst(R)
      PROVE  Sorts(s, R, Newer(R))
  <2>1. /\ s \in SetToSeqs(R) /\ s \in [1 .. Cardinality(R) -> R]
        /\ \A i, j \in 1 .. Cardinality(R) : i # j => s[i] # s[j]
    BY <1>2, SeqsOf DEF NewestFirst, Sortable
  <2>2. ASSUME NEW i \in DOMAIN s, NEW j \in DOMAIN s, i < j
        PROVE  NewerThan(s[i], s[j])
    <3>1. s[i] \in R /\ s[j] \in R /\ s[i] # s[j]
      <4>1. i \in 1 .. Cardinality(R) /\ j \in 1 .. Cardinality(R) /\ i # j
        BY <2>1, <2>2
      <4> QED BY <2>1, <4>1
    <3>2. s[i].ts >= s[j].ts
      BY <2>2 DEF NewestFirst
    <3>3. s[i].ts # s[j].ts
      BY <3>1 DEF R
    <3>4. s[i].ts \in Nat /\ s[j].ts \in Nat
      BY <1>2, <3>1 DEF Sortable
    <3> QED BY <3>2, <3>3, <3>4 DEF NewerThan
  <2>3. \A x \in R : \E i \in 1 .. Cardinality(R) : s[i] = x
    BY <1>2, <2>1, SeqsMeet DEF Sortable
  <2>4. DOMAIN s = 1 .. Cardinality(R)
    BY <2>1
  <2>5. \A i, j \in 1 .. Cardinality(R) : i < j => <<s[i], s[j]>> \in Newer(R)
    BY <2>1, <2>2, <2>4 DEF Newer
  <2> QED BY <2>1, <2>3, <2>5 DEF Sorts
<1>4. InOrder(R) \in NewestFirst(R)
  <2> DEFINE s == InOrder(R)
  <2>1. Sorts(s, R, Newer(R))
    BY <1>2, ScanSorts
  <2> HIDE DEF s
  <2>2. /\ s \in [1 .. Cardinality(R) -> R]
        /\ \A i, j \in 1 .. Cardinality(R) : i # j => s[i] # s[j]
        /\ \A i, j \in 1 .. Cardinality(R) : i < j => NewerThan(s[i], s[j])
    BY <1>2, <2>1, NewestRows
  <2>3. \A f, g \in R : NewerThan(f, g) => f.ts >= g.ts
    BY <1>2 DEF Sortable, NewerThan
  <2>4. s \in SetToSeqs(R)
    BY <2>2 DEF SetToSeqs
  <2>5. s \in NewestFirst(R)
    BY <2>2, <2>3, <2>4 DEF NewestFirst
  <2> QED BY <2>5 DEF s
<1>5. NewestFirst(R) = {InOrder(R)}
  <2>1. \A s \in NewestFirst(R) : s = InOrder(R)
    BY <1>2, <1>3, <1>4, NewerLinear, SortUnique
  <2> QED BY <1>4, <2>1
<1>6. SqlScan(q) = {Read(Page(s, Skip(q), q.limit)) : s \in {InOrder(R)}}
  BY <1>5 DEF SqlScan, R
<1>7. SqlScan(q) = {Read(Page(InOrder(R), Skip(q), q.limit))}
  BY <1>6
<1> QED BY <1>7, FS_Singleton

\* Whatever conditions a scan combines, every placeholder is bound to the value of its
\* own clause, whatever faults have left behind: SQLite may answer what
\* MemoryStore answers, and nothing else unless two of the facts have
\* one timestamp (sqlite.rs:392-470, memory.rs:194-220, conformance.rs:1-2).
THEOREM ScanAgreesAlways == Spec => []ScanAgrees
<1>1. SqliteInv /\ ReadsInv => ScanAgrees
  <2> SUFFICES ASSUME SqliteInv, ReadsInv, NEW q \in Scans, ~EndsMixedUp(q)
               PROVE  /\ IF TimeTurned(q) THEN SqlScan(q) = {<< >>}
                         ELSE \E rows \in SqlScan(q) : SameRows(ScanOf(InMemory, q), rows)
                      /\ (\A r, s \in Rows(q) : r.ts = s.ts => r = s)
                           => Cardinality(SqlScan(q)) = 1
    BY DEF ScanAgrees
  <2>1. facts \subseteq Fact /\ q \in ScanQueries
    BY ScansAssumption DEF SqliteInv, TypeOK, StoreTypeOK
  <2>2. TimeTurned(q) => SqlScan(q) = {<< >>}
    BY <2>1, TurnedFindsNothing
  <2>3. ~TimeTurned(q) => \E rows \in SqlScan(q) : SameRows(ScanOf(InMemory, q), rows)
    BY <2>1, ScanAnswered
  <2>4. (\A r, s \in Rows(q) : r.ts = s.ts => r = s) => Cardinality(SqlScan(q)) = 1
    BY <2>1, OneAnswer
  <2> QED BY <2>2, <2>3, <2>4
<1> QED BY <1>1, ReadsInductive, PTL
=============================================================================
