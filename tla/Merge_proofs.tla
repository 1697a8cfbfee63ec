---------------------------- MODULE Merge_proofs ----------------------------
(***************************************************************************)
(* Proofs about Merge.  A merge takes its timestamp from a clock of its    *)
(* own, so only that part of Ledger's invariant carries over that is about *)
(* transaction ids: each merge owns the one it has made, as requests do.   *)
(***************************************************************************)
EXTENDS Merge, Ledger_proofs

-----------------------------------------------------------------------------
(* The inductive invariant                                                 *)

Sourcing == [at : {"source"}, ns : Namespaces, source : Branches, target : Branches]
Targeting == [at : {"target"}, ns : Namespaces, target : Branches,
              found : SUBSET Fact, todo : SUBSET Fact]
Choosing == [at : {"policy"}, ns : Namespaces, target : Branches,
             found : SUBSET Fact, todo : SUBSET Fact, there : SUBSET Fact]
Deciding == [at : {"facts", "aborted", "merged"}, ns : Namespaces, target : Branches,
             found : SUBSET Fact, todo : SUBSET Fact, there : SUBSET Fact,
             ts : Nat, tx : Nat, policy : Policies]
MergeStages == {Unmerged} \cup Sourcing \cup Targeting \cup Choosing \cup Deciding

MergeTypeOK == merge \in [Mergers -> MergeStages]

\* A transaction id that a merge has made belongs to no request and to no other merge,
\* and is in the store only on the branch and at the timestamp of the merge.
Apart(m) ==
  /\ merge[m].tx \in 1 .. nextId - 1
  /\ \A r \in Pending : req[r].tx # merge[m].tx
  /\ \A l \in Writing : merge[l].tx = merge[m].tx => l = m
  /\ \A t \in transactions : t.id = merge[m].tx =>
       t.ts = merge[m].ts /\ t.ns = merge[m].ns /\ t.branch = merge[m].target
  /\ \A k \in DOMAIN branches : branches[k].head = merge[m].tx =>
       k = <<merge[m].ns, merge[m].target>>

\* What a scan returned, at some time before.
AsScanned(S) ==
  /\ IsFiniteSet(S)
  /\ \A f \in S : f.id < nextId
  /\ \A f, g \in S : f.id = g.id => f = g

\* The facts of the source are gone through from the newest to the oldest.
InOrder(m) ==
  /\ AsScanned(merge[m].found)
  /\ merge[m].todo \subseteq merge[m].found
  /\ \A f \in merge[m].found \ merge[m].todo, g \in merge[m].todo : NewerThan(f, g)

\* TargetKept, of one merge.
Kept(m) ==
  merge[m].policy # "last_write_wins"
    => \A f \in Written(m), t \in merge[m].there : f.key # t.key

Mine(m, k) == {f \in Written(m) : f.key = k}
Done(m, k) == {f \in merge[m].found \ merge[m].todo : f.key = k}

\* There are no more facts in S than in D, and if as many, they answer the same.
AnswersLike(S, D) ==
  /\ Cardinality(S) <= Cardinality(D)
  /\ Cardinality(S) = Cardinality(D) =>
       \A f \in Newest(S), g \in Newest(D) : f.value = g.value

\* MergeCarriesNewest, of a merge that is under way.
Carries(m, k) ==
  (\A t \in merge[m].there : t.key # k) => AnswersLike(Mine(m, k), Done(m, k))

Begun == {"target", "policy", "facts", "aborted", "merged"}

MergerOK(m) ==
  /\ merge[m].at \in Begun => InOrder(m)
  /\ merge[m].at \in Begun \ {"target"} => AsScanned(merge[m].there)
  /\ merge[m].at = "merged" => merge[m].todo = {}
  /\ m \in Writing => Apart(m) /\ Kept(m) /\ \A k \in Keys : Carries(m, k)

MergeInv ==
  /\ TypeOK /\ TxConsistent /\ IsFiniteSet(facts)
  /\ MergeTypeOK
  /\ \A m \in Mergers : MergerOK(m)

-----------------------------------------------------------------------------
(* What requests do to a transaction that none of them holds               *)

LEMMA PendingStep ==
  ASSUME TypeOK, TxConsistent, [Next]_vars, NEW q \in Pending'
  PROVE  \/ q \in Pending /\ req'[q].tx = req[q].tx
         \/ req'[q].tx = nextId
<1> DEFINE Goal == (q \in Pending /\ req'[q].tx = req[q].tx) \/ req'[q].tx = nextId
<1>0. req \in [Requests -> Stages] /\ q \in Requests
  BY DEF TypeOK, LedgerTypeOK, Pending
<1>1. CASE req' = req
  BY <1>1 DEF Pending
<1>2. ASSUME NEW r \in Requests, NEW stage, req' = [req EXCEPT ![r] = stage],
             stage.op \in {"storing", "retracting"} => stage.tx = nextId
      PROVE  Goal
  <2>1. CASE q # r
    BY <1>0, <1>2, <2>1 DEF Pending
  <2>2. CASE q = r
    <3>1. req'[q] = stage
      BY <1>0, <1>2, <2>2
    <3> QED BY <1>2, <3>1 DEF Pending
  <2> QED BY <2>1, <2>2
<1>3. ASSUME NEW r \in Requests, Call(r)
      PROVE  Goal
  <2>0. ASSUME NEW stage, Begin(r, stage),
               stage.op \in {"storing", "retracting"} => stage.tx = nextId
        PROVE  Goal
    BY <1>2, <2>0 DEF Begin
  <2> HIDE DEF Goal
  <2>1. ASSUME NEW spec \in RecordSpec, CallRecord(r, spec)
        PROVE  Goal
    BY <2>0, <2>1 DEF CallRecord
  <2>2. ASSUME NEW specs \in Bulks, CallBulk(r, specs)
        PROVE  Goal
    BY <2>0, <2>2 DEF CallBulk
  <2>3. ASSUME NEW id, NEW n, NEW b, CallRetract(r, id, n, b)
        PROVE  Goal
    BY <2>0, <2>3 DEF CallRetract
  <2>4. ASSUME NEW n, NEW b, NEW parent, CallFork(r, n, b, parent)
        PROVE  Goal
    BY <2>0, <2>4 DEF CallFork
  <2> QED BY <1>3, <2>1, <2>2, <2>3, <2>4 DEF Call
<1>4. ASSUME NEW r \in Requests, TickRecord(r)
      PROVE  Goal
  <2>1. \E stage : /\ req' = [req EXCEPT ![r] = stage]
                   /\ stage.op \in {"storing", "retracting"} => stage.tx = nextId
    BY <1>4 DEF TickRecord
  <2> QED BY <1>2, <2>1
<1>5. ASSUME NEW r \in Requests, RecordNew(r) \/ RecordDuplicate(r)
      PROVE  Goal
  <2>1. GoesOn(q)
    BY <1>0, <1>5, StoredGoesOn DEF TxConsistent, RecordNew, RecordDuplicate
  <2> QED BY <2>1 DEF GoesOn
<1>6. ASSUME NEW r \in Requests, End(r)
      PROVE  Goal
  <2>1. Idle.op \notin {"storing", "retracting"}
    BY DEF Idle
  <2> QED BY <1>2, <1>6, <2>1 DEF End
<1>7. ASSUME NEW r \in Requests, Step(r)
      PROVE  Goal
  BY <1>4, <1>5, <1>6, <1>7 DEF Step, Retract, RetractNotFound, Fork, ForkRejected
<1>8. ASSUME Administer \/ UNCHANGED vars
      PROVE  req' = req
  BY <1>8 DEF Administer, DeleteBranch, CreateNamespace, Gc, PutTag, DeleteTag,
     OneStep, vars, ledger
<1> QED BY <1>1, <1>3, <1>7, <1>8 DEF Next

LEMMA HeadsStep ==
  ASSUME TypeOK, TxConsistent, [Next]_vars, NEW k \in DOMAIN branches'
  PROVE  \/ branches'[k].head = NoTx
         \/ k \in DOMAIN branches /\ branches'[k].head = branches[k].head
         \/ \E r \in Pending : branches'[k].head = req[r].tx
<1> DEFINE Goal == \/ branches'[k].head = NoTx
                   \/ k \in DOMAIN branches /\ branches'[k].head = branches[k].head
                   \/ \E r \in Pending : branches'[k].head = req[r].tx
<1>0. branches \in [DOMAIN branches -> BranchInfo]
  BY DEF TypeOK, StoreTypeOK
<1>1. CASE branches' = branches
  BY <1>1
<1>2. ASSUME NEW r \in Pending, NEW n, NEW b, branches' = BranchesAfter(n, b, req[r].tx)
      PROVE  Goal
  BY <1>0, <1>2 DEF BranchesAfter, BranchInfo
<1>3. ASSUME NEW n, NEW b, branches' = Without(branches, <<n, b>>)
      PROVE  Goal
  BY <1>3 DEF Without
<1>4. ASSUME NEW key, NEW info, branches' = With(branches, key, info), info.head = NoTx
      PROVE  Goal
  BY <1>4 DEF With
<1>5. ASSUME NEW r \in Requests, RecordNew(r)
      PROVE  Goal
  <2>1. r \in Pending /\ Params(r).tx = req[r].tx
    BY <1>5, ParamsType DEF RecordNew, Pending, TxConsistent
  <2> QED BY <1>2, <1>5, <2>1 DEF RecordNew, StoreRecordNew
<1>6. ASSUME NEW r \in Requests, Retract(r)
      PROVE  Goal
  BY <1>2, <1>6 DEF Retract, StoreRetract, Pending
<1>7. ASSUME NEW r \in Requests, Fork(r)
      PROVE  Goal
  BY <1>4, <1>7 DEF Fork, StoreCreateBranch
<1>8. ASSUME NEW r \in Requests, Step(r), ~RecordNew(r), ~Retract(r), ~Fork(r)
      PROVE  branches' = branches
  BY <1>8 DEF Step, TickRecord, NewTx, RecordDuplicate, StoreRecordDuplicate,
     RetractNotFound, ForkRejected, store
<1>9. ASSUME NEW r \in Requests, Call(r)
      PROVE  branches' = branches
  BY <1>9 DEF Call, CallRecord, CallBulk, CallRetract, CallFork, NewTx, store
<1>10. ASSUME Administer
       PROVE  Goal
  <2>1. Root.head = NoTx
    BY DEF Root
  <2> QED
    BY <1>1, <1>3, <1>4, <1>10, <2>1 DEF Administer, DeleteBranch, StoreDeleteBranch,
       CreateNamespace, StoreCreateNamespace, Gc, StoreGc, PutTag, StorePutTag,
       DeleteTag, StoreDeleteTag
<1>11. ASSUME UNCHANGED vars
       PROVE  branches' = branches
  BY <1>11 DEF vars, store
<1> QED BY <1>1, <1>5, <1>6, <1>7, <1>8, <1>9, <1>10, <1>11 DEF Next

LEMMA RowsStep ==
  ASSUME TypeOK, TxConsistent, [Next]_vars, NEW u \in transactions'
  PROVE  \/ \E t \in transactions : SameRow(t, u)
         \/ \E r \in Pending : u.id = req[r].tx
<1>0. transactions \subseteq Transaction
  BY DEF TypeOK, StoreTypeOK
<1>1. CASE u \in transactions
  BY <1>1 DEF SameRow
<1>2. ASSUME NEW r \in Requests, RecordNew(r)
      PROVE  \/ \E t \in transactions : SameRow(t, u)
             \/ \E q \in Pending : u.id = req[q].tx
  <2>1. r \in Pending /\ Params(r).tx = req[r].tx /\ transactions' = TransactionsAfter(Params(r))
    BY <1>2, ParamsType DEF RecordNew, StoreRecordNew, Pending, TxConsistent
  <2> QED BY <1>0, <2>1 DEF TransactionsAfter, SameRow, Transaction
<1>3. ASSUME NEW r \in Requests, Retract(r)
      PROVE  u \in transactions \/ (r \in Pending /\ u.id = req[r].tx)
  BY <1>3 DEF Retract, StoreRetract, Pending
<1>4. ASSUME NEW before, NEW scope, Gc(before, scope)
      PROVE  u \in transactions
  BY <1>4 DEF Gc, StoreGc
<1> QED BY <1>1, <1>2, <1>3, <1>4, FactsStep

\* The facts of a transaction that no request holds stay, or one of them is closed, or
\* gc removes some.
FactsKept(x) ==
  \/ FactsOf(x)' \subseteq FactsOf(x)
  \/ \E f \in FactsOf(x), g \in Fact :
       /\ f \in Fact /\ g.id = f.id /\ g.ts = f.ts /\ g.key = f.key /\ g.value = f.value
       /\ FactsOf(x)' = (FactsOf(x) \ {f}) \cup {g}

LEMMA FactsOfOthers ==
  ASSUME TypeOK, TxConsistent, [Next]_vars, NEW x, \A r \in Pending : req[r].tx # x
  PROVE  FactsKept(x)
<1>1. ASSUME NEW r \in Requests, RecordNew(r)
      PROVE  FactsOf(x)' = FactsOf(x)
  <2>1. \E nf \in Fact : nf.tx = req[r].tx /\ facts' = facts \cup {nf}
    BY <1>1, RecordAdds
  <2>2. r \in Pending
    BY <1>1 DEF RecordNew, Pending
  <2> QED BY <2>1, <2>2 DEF FactsOf
<1>2. ASSUME NEW r \in Requests, Retract(r)
      PROVE  FactsKept(x)
  <2>1. PICK f \in facts, g \in Fact :
          /\ f \in Fact /\ g.id = f.id /\ g.tx = f.tx /\ g.ts = f.ts
          /\ g.key = f.key /\ g.value = f.value
          /\ facts' = (facts \ {f}) \cup {g}
    BY <1>2, RetractCloses
  <2>2. CASE f.tx = x
    <3>1. f \in FactsOf(x) /\ FactsOf(x)' = (FactsOf(x) \ {f}) \cup {g}
      BY <2>1, <2>2 DEF FactsOf
    <3> QED BY <2>1, <3>1 DEF FactsKept
  <2>3. CASE f.tx # x
    <3>1. FactsOf(x)' = FactsOf(x)
      BY <2>1, <2>3 DEF FactsOf
    <3> QED BY <3>1 DEF FactsKept
  <2> QED BY <2>2, <2>3
<1>3. ASSUME NEW before, NEW scope, Gc(before, scope)
      PROVE  FactsOf(x)' \subseteq FactsOf(x)
  BY <1>3 DEF Gc, StoreGc, FactsOf
<1>4. facts' = facts => FactsOf(x)' = FactsOf(x)
  BY DEF FactsOf
<1> QED BY <1>1, <1>2, <1>3, <1>4, FactsStep DEF FactsKept

-----------------------------------------------------------------------------
(* A merge that does not move                                              *)

\* What others leave alone of a transaction.
Undisturbed(x) ==
  /\ \A r \in Pending' : req'[r].tx # x
  /\ \A u \in transactions' : u.id = x => \E t \in transactions : SameRow(t, u)
  /\ \A k \in DOMAIN branches' : branches'[k].head = x =>
       k \in DOMAIN branches /\ branches[k].head = x
  /\ FactsKept(x)

LEMMA LedgerLeavesAlone ==
  ASSUME TypeOK, TxConsistent, [Next]_vars,
         NEW x \in 1 .. nextId - 1, \A r \in Pending : req[r].tx # x
  PROVE  Undisturbed(x)
<1>1. nextId \in Nat /\ x # nextId /\ x # NoTx
  BY DEF TypeOK, StoreTypeOK, NoTx
<1>2. \A r \in Pending' : req'[r].tx # x
  BY <1>1, PendingStep
<1>3. \A u \in transactions' : u.id = x => \E t \in transactions : SameRow(t, u)
  BY RowsStep
<1>4. \A k \in DOMAIN branches' : branches'[k].head = x =>
        k \in DOMAIN branches /\ branches[k].head = x
  BY <1>1, HeadsStep
<1> QED BY <1>2, <1>3, <1>4, FactsOfOthers DEF Undisturbed

LEMMA NothingLeavesAlone ==
  ASSUME UNCHANGED <<facts, transactions, branches, req>>, NEW x,
         \A r \in Pending : req[r].tx # x
  PROVE  Undisturbed(x)
BY DEF Undisturbed, Pending, FactsKept, FactsOf, SameRow

LEMMA AsScannedStays ==
  ASSUME NEW S \in SUBSET Fact, AsScanned(S),
         nextId \in Nat, nextId' \in Nat, nextId' >= nextId
  PROVE  /\ IsFiniteSet(S)
         /\ \A f \in S : f.id < nextId'
         /\ \A f, g \in S : f.id = g.id => f = g
BY DEF AsScanned, Fact

\* Facts that are closed or purged take nothing from what answers for the rest.
LEMMA FewerAnswerAlike ==
  ASSUME NEW S \in SUBSET Fact, IsFiniteSet(S), \A f, g \in S : f.id = g.id => f = g,
         NEW T,
         \/ T \subseteq S
         \/ \E f \in S, g \in Fact :
              /\ g.id = f.id /\ g.ts = f.ts /\ g.value = f.value
              /\ T = (S \ {f}) \cup {g}
  PROVE  /\ Cardinality(S) \in Nat /\ Cardinality(T) \in Nat
         /\ Cardinality(T) <= Cardinality(S)
         /\ Cardinality(T) = Cardinality(S) =>
              \A e \in Newest(T) : \E d \in Newest(S) : d.value = e.value
<1>0. Cardinality(S) \in Nat
  BY SizeIsNat
<1>1. CASE T \subseteq S
  <2>1. /\ IsFiniteSet(T) /\ Cardinality(T) <= Cardinality(S)
        /\ Cardinality(S) = Cardinality(T) => S = T
    BY <1>1, FS_Subset
  <2>2. Cardinality(T) \in Nat
    BY <2>1, SizeIsNat
  <2> QED BY <1>0, <2>1, <2>2
<1>2. ASSUME NEW f \in S, NEW g \in Fact,
             g.id = f.id, g.ts = f.ts, g.value = f.value, T = (S \ {f}) \cup {g}
      PROVE  /\ Cardinality(T) \in Nat /\ Cardinality(T) <= Cardinality(S)
             /\ \A e \in Newest(T) : \E d \in Newest(S) : d.value = e.value
  <2>1. Cardinality(T) \in Nat /\ Cardinality(T) <= Cardinality(S)
    <3>1. IsFiniteSet(S \ {f}) /\ Cardinality(S \ {f}) = Cardinality(S) - 1
      BY FS_RemoveElement
    <3>2. Cardinality(T) \in Nat /\ Cardinality(T) <= Cardinality(S \ {f}) + 1
      BY <1>2, <3>1, OneMore
    <3> QED BY <1>0, <3>1, <3>2
  <2>2. ASSUME NEW e \in Newest(T)
        PROVE  \E d \in Newest(S) : d.value = e.value
    <3>1. e \in T /\ \A d \in T \ {e} : NewerThan(e, d)
      BY <2>2 DEF Newest
    <3>2. CASE e = g
      <4>1. \A d \in S \ {f} : d \in T /\ d # g
        BY <1>2
      <4>2. \A d \in S \ {f} : NewerThan(f, d)
        BY <1>2, <3>1, <3>2, <4>1 DEF NewerThan
      <4> QED BY <1>2, <3>2, <4>2 DEF Newest
    <3>3. CASE e # g
      <4>1. e \in S /\ NewerThan(e, g)
        BY <1>2, <3>1, <3>3
      <4>2. NewerThan(e, f)
        BY <1>2, <4>1 DEF NewerThan
      <4>3. \A d \in S \ {e} : NewerThan(e, d)
        BY <1>2, <3>1, <4>2
      <4> QED BY <4>1, <4>3 DEF Newest
    <3> QED BY <3>2, <3>3
  <2> QED BY <2>1, <2>2
<1> QED BY <1>0, <1>1, <1>2

\* A merge that stays where it is keeps its part of the invariant while requests and
\* other merges go on.
LEMMA Unmoved ==
  ASSUME MergeInv, NEW m \in Mergers, merge'[m] = merge[m],
         nextId' \in Nat, nextId' >= nextId,
         \A l \in Writing' : \/ l \in Writing /\ merge'[l].tx = merge[l].tx
                             \/ merge'[l].tx = nextId,
         m \in Writing => Undisturbed(merge[m].tx)
  PROVE  MergerOK(m)'
<1>0. /\ MergerOK(m) /\ merge[m] \in MergeStages
      /\ nextId \in Nat /\ facts \subseteq Fact /\ IsFiniteSet(facts)
      /\ \A f, g \in facts : f.id = g.id => f = g
  BY DEF MergeInv, MergeTypeOK, TypeOK, StoreTypeOK, TxConsistent, IdsUnique
<1>1. ASSUME merge[m].at \in Begun
      PROVE  InOrder(m)'
  <2>1. merge[m].found \in SUBSET Fact /\ InOrder(m)
    BY <1>0, <1>1 DEF MergerOK, MergeStages, Unmerged, Sourcing, Targeting, Choosing,
       Deciding, Begun
  <2>2. AsScanned(merge[m].found)'
    BY <1>0, <2>1, AsScannedStays DEF InOrder, AsScanned
  <2> QED BY <2>1, <2>2 DEF InOrder, NewerThan
<1>2. ASSUME merge[m].at \in Begun \ {"target"}
      PROVE  AsScanned(merge[m].there)'
  <2>1. merge[m].there \in SUBSET Fact /\ AsScanned(merge[m].there)
    BY <1>0, <1>2 DEF MergerOK, MergeStages, Unmerged, Sourcing, Targeting, Choosing,
       Deciding, Begun
  <2> QED BY <1>0, <2>1, AsScannedStays DEF AsScanned
<1>3. ASSUME m \in Writing
      PROVE  Apart(m)' /\ Kept(m)' /\ \A k \in Keys : Carries(m, k)'
  <2> DEFINE x == merge[m].tx
  <2>0. Apart(m) /\ Kept(m) /\ (\A k \in Keys : Carries(m, k)) /\ Undisturbed(x)
    BY <1>0, <1>3 DEF MergerOK
  <2>1. Apart(m)'
    <3>1. x \in 1 .. nextId' - 1 /\ x # nextId
      BY <1>0, <2>0 DEF Apart
    <3>2. \A l \in Writing' : merge'[l].tx = x => l = m
      BY <2>0, <3>1 DEF Apart
    <3> QED BY <2>0, <3>1, <3>2 DEF Apart, Undisturbed, SameRow
  <2>2. Written(m) = FactsOf(x) /\ Written(m)' = FactsOf(x)'
    BY DEF Written, FactsOf
  <2>3. FactsOf(x) \subseteq facts /\ FactsKept(x)
    BY <2>0 DEF FactsOf, Undisturbed
  <2>4. \A g \in Written(m)' : \E f \in Written(m) : f.key = g.key
    BY <2>2, <2>3 DEF FactsKept
  <2>5. Kept(m)'
    BY <2>0, <2>4 DEF Kept
  <2>6. ASSUME NEW k \in Keys, \A t \in merge[m].there : t.key # k
        PROVE  AnswersLike(Mine(m, k)', Done(m, k))
    <3> DEFINE S == Mine(m, k)
               T == Mine(m, k)'
               D == Done(m, k)
    <3>1. /\ S \in SUBSET Fact /\ S \in SUBSET facts /\ IsFiniteSet(S)
          /\ \A f, g \in S : f.id = g.id => f = g
      <4>1. S \in SUBSET facts
        BY <2>2, <2>3 DEF Mine
      <4>2. IsFiniteSet(S)
        BY <1>0, <4>1, FS_Subset
      <4> QED BY <1>0, <4>1, <4>2
    <3>2. \/ T \subseteq S
          \/ \E f \in S, g \in Fact :
               /\ g.id = f.id /\ g.ts = f.ts /\ g.value = f.value
               /\ T = (S \ {f}) \cup {g}
      <4>1. CASE FactsOf(x)' \subseteq FactsOf(x)
        BY <2>2, <4>1 DEF Mine
      <4>2. ASSUME NEW f \in FactsOf(x), NEW g \in Fact,
                   g.id = f.id, g.ts = f.ts, g.key = f.key, g.value = f.value,
                   FactsOf(x)' = (FactsOf(x) \ {f}) \cup {g}
            PROVE  \/ T \subseteq S
                   \/ f \in S /\ T = (S \ {f}) \cup {g}
        <5>1. CASE f.key = k
          BY <2>2, <4>2, <5>1 DEF Mine
        <5>2. CASE f.key # k
          BY <2>2, <4>2, <5>2 DEF Mine
        <5> QED BY <5>1, <5>2
      <4> HIDE DEF S, T
      <4> QED BY <2>3, <4>1, <4>2 DEF FactsKept
    <3>3. Cardinality(D) \in Nat
      <4>1. IsFiniteSet(merge[m].found)
        BY <1>0, <1>3 DEF MergerOK, InOrder, AsScanned, Writing, Begun
      <4>2. D \in SUBSET merge[m].found
        BY DEF Done
      <4> QED BY <4>1, <4>2, FS_Subset, SizeIsNat
    <3>4. /\ Cardinality(S) <= Cardinality(D)
          /\ Cardinality(S) = Cardinality(D) =>
               \A f \in Newest(S), g \in Newest(D) : f.value = g.value
      BY <2>0, <2>6 DEF Carries, AnswersLike
    <3> HIDE DEF S, T, D
    <3>5. /\ Cardinality(S) \in Nat /\ Cardinality(T) \in Nat
          /\ Cardinality(T) <= Cardinality(S)
          /\ Cardinality(T) = Cardinality(S) =>
               \A e \in Newest(T) : \E d \in Newest(S) : d.value = e.value
      BY <3>1, <3>2, FewerAnswerAlike
    <3>6. ASSUME Cardinality(T) = Cardinality(D), NEW e \in Newest(T), NEW g \in Newest(D)
          PROVE  e.value = g.value
      <4>1. Cardinality(T) = Cardinality(S) /\ Cardinality(S) = Cardinality(D)
        BY <3>3, <3>4, <3>5, <3>6
      <4> QED BY <3>4, <3>5, <3>6, <4>1
    <3>7. AnswersLike(T, D)
      BY <3>3, <3>4, <3>5, <3>6 DEF AnswersLike
    <3> QED BY <3>7 DEF T, D
  <2>7. \A k \in Keys : Done(m, k)' = Done(m, k)
    BY DEF Done
  <2>8. ASSUME NEW k \in Keys
        PROVE  Carries(m, k)'
    BY <2>6, <2>7 DEF Carries, AnswersLike, Newest, NewerThan
  <2> QED BY <2>1, <2>5, <2>8
<1>4. m \in Writing' <=> m \in Writing
  BY DEF Writing
<1> QED BY <1>0, <1>1, <1>2, <1>3, <1>4 DEF MergerOK

-----------------------------------------------------------------------------
(* The steps of requests, and those of a merge that write nothing          *)

LEMMA LedgerStepKeeps ==
  ASSUME MergeInv, [Next]_vars, UNCHANGED mergeVars
  PROVE  MergeInv'
<1>0. /\ TypeOK /\ TxConsistent /\ IsFiniteSet(facts) /\ MergeTypeOK
      /\ \A m \in Mergers : MergerOK(m)
      /\ merge' = merge
  BY DEF MergeInv, mergeVars
<1>1. TypeOK' /\ TxConsistent' /\ IsFiniteSet(facts)' /\ MergeTypeOK'
  BY <1>0, CarriedStep, FactsStayFinite DEF Carried, MergeTypeOK, MergeStages, Sourcing,
     Targeting, Choosing, Deciding, Unmerged, Fact
<1>2. nextId' \in Nat /\ nextId' >= nextId
  BY <1>0, IdsGrow
<1>3. ASSUME NEW m \in Writing
      PROVE  Undisturbed(merge[m].tx)
  <2>1. Apart(m)
    BY <1>0 DEF MergerOK, Writing
  <2> QED BY <1>0, <2>1, LedgerLeavesAlone DEF Apart
<1>4. \A l \in Writing' : l \in Writing /\ merge'[l].tx = merge[l].tx
  BY <1>0 DEF Writing
<1>5. ASSUME NEW m \in Mergers
      PROVE  MergerOK(m)'
  BY <1>0, <1>2, <1>3, <1>4, Unmoved
<1> QED BY <1>1, <1>5 DEF MergeInv

\* One merge moves, and what the others have written is left alone.
LEMMA OneMoves ==
  ASSUME MergeInv, NEW m \in Mergers, NEW stage \in MergeStages, Goto(m, stage),
         TypeOK', TxConsistent', IsFiniteSet(facts'),
         nextId' \in Nat, nextId' >= nextId,
         \A l \in Writing \ {m} : Undisturbed(merge[l].tx),
         m \in Writing' => \/ m \in Writing /\ stage.tx = merge[m].tx
                           \/ stage.tx = nextId,
         MergerOK(m)'
  PROVE  MergeInv'
<1>0. /\ merge \in [Mergers -> MergeStages]
      /\ merge' = [merge EXCEPT ![m] = stage]
  BY DEF MergeInv, MergeTypeOK, Goto
<1>1. merge' \in [Mergers -> MergeStages] /\ merge'[m] = stage
      /\ \A l \in Mergers \ {m} : merge'[l] = merge[l]
  BY <1>0
<1>2. MergeTypeOK'
  BY <1>1 DEF MergeTypeOK, MergeStages, Sourcing, Targeting, Choosing, Deciding,
     Unmerged, Fact
<1>3. \A l \in Writing' : \/ l \in Writing /\ merge'[l].tx = merge[l].tx
                          \/ merge'[l].tx = nextId
  BY <1>1 DEF Writing
<1>4. ASSUME NEW l \in Mergers \ {m}
      PROVE  MergerOK(l)'
  BY <1>1, <1>3, Unmoved
<1> QED BY <1>2, <1>4 DEF MergeInv

\* The store and the requests stand still.
LEMMA QuietMove ==
  ASSUME MergeInv, NEW m \in Mergers, NEW stage \in MergeStages, Goto(m, stage),
         UNCHANGED vars,
         m \in Writing' => m \in Writing /\ stage.tx = merge[m].tx,
         MergerOK(m)'
  PROVE  MergeInv'
<1>1. TypeOK /\ TxConsistent /\ IsFiniteSet(facts) /\ nextId \in Nat
  BY DEF MergeInv, TypeOK, StoreTypeOK
<1>2. TypeOK' /\ TxConsistent'
  BY <1>1, CarriedStep DEF Carried
<1>3. UNCHANGED <<facts, transactions, branches, nextId, req>>
  BY DEF vars, store, ledger
<1>4. ASSUME NEW l \in Writing \ {m}
      PROVE  Undisturbed(merge[l].tx)
  <2>1. Apart(l)
    BY DEF MergeInv, MergerOK, Writing
  <2> QED BY <1>3, <2>1, NothingLeavesAlone DEF Apart
<1> QED BY <1>1, <1>2, <1>3, <1>4, OneMoves

\* Which record a merge is, by where it stands.
LEMMA MergeAt ==
  ASSUME MergeTypeOK, NEW m \in Mergers
  PROVE  /\ merge[m] \in MergeStages
         /\ merge[m].at = "source" => merge[m] \in Sourcing
         /\ merge[m].at = "target" => merge[m] \in Targeting
         /\ merge[m].at = "policy" => merge[m] \in Choosing
         /\ merge[m].at \in {"facts", "aborted", "merged"} => merge[m] \in Deciding
<1>1. merge[m] \in MergeStages
  BY DEF MergeTypeOK
<1> QED BY <1>1 DEF MergeStages, Unmerged, Sourcing, Targeting, Choosing, Deciding

LEMMA ScanIsScan ==
  ASSUME TypeOK, TxConsistent, IsFiniteSet(facts), NEW n, NEW b
  PROVE  Scan(n, b) \in SUBSET Fact /\ AsScanned(Scan(n, b))
<1>1. Scan(n, b) \in SUBSET facts
  BY DEF Scan
<1>2. IsFiniteSet(Scan(n, b))
  BY <1>1, FS_Subset
<1> QED BY <1>1, <1>2 DEF AsScanned, TypeOK, StoreTypeOK, TxConsistent, IdsBehind, IdsUnique

LEMMA BeforeWriting ==
  ASSUME MergeInv, NEW m \in Mergers,
         \/ \E n \in Namespaces, s, t \in Branches : CallMerge(m, n, s, t)
         \/ ScanSource(m) \/ ScanTarget(m) \/ Refuse(m) \/ Forget(m)
  PROVE  MergeInv'
<1>0. /\ TypeOK /\ TxConsistent /\ IsFiniteSet(facts) /\ MergeTypeOK /\ MergerOK(m)
      /\ merge \in [Mergers -> MergeStages]
  BY DEF MergeInv, MergeTypeOK
<1>1. ASSUME NEW stage \in MergeStages, Goto(m, stage), UNCHANGED vars,
             stage.at \notin {"facts", "aborted", "merged"}, MergerOK(m)'
      PROVE  MergeInv'
  <2>1. m \notin Writing'
    BY <1>0, <1>1 DEF Goto, Writing
  <2> QED BY <1>1, <2>1, QuietMove
<1>2. ASSUME NEW stage, Goto(m, stage), stage.at \in {"idle", "source"}
      PROVE  MergerOK(m)'
  BY <1>0, <1>2 DEF Goto, MergerOK, Begun, Writing
<1>3. ASSUME NEW n \in Namespaces, NEW s \in Branches, NEW t \in Branches,
             CallMerge(m, n, s, t)
      PROVE  MergeInv'
  <2> DEFINE stage == [at |-> "source", ns |-> n, source |-> s, target |-> t]
  <2>1. stage \in MergeStages /\ stage.at = "source"
    BY DEF MergeStages, Sourcing
  <2>2. Goto(m, stage) /\ UNCHANGED vars
    BY <1>3 DEF CallMerge
  <2> HIDE DEF stage
  <2> QED BY <1>1, <1>2, <2>1, <2>2
<1>4. ASSUME Refuse(m) \/ Forget(m)
      PROVE  MergeInv'
  <2>1. Unmerged \in MergeStages /\ Unmerged.at = "idle"
    BY DEF MergeStages, Unmerged
  <2>2. Goto(m, Unmerged) /\ UNCHANGED vars
    BY <1>4 DEF Refuse, Forget
  <2> QED BY <1>1, <1>2, <2>1, <2>2
<1>5. ASSUME ScanSource(m)
      PROVE  MergeInv'
  <2>0. PICK found : found = Scan(merge[m].ns, merge[m].source)
    OBVIOUS
  <2> DEFINE stage == [at |-> "target", ns |-> merge[m].ns, target |-> merge[m].target,
                       found |-> found, todo |-> found]
  <2>1. merge[m] \in Sourcing /\ Goto(m, stage) /\ UNCHANGED vars
    BY <1>0, <1>5, <2>0, MergeAt DEF ScanSource
  <2>2. found \in SUBSET Fact /\ AsScanned(found)
    BY <1>0, <2>0, ScanIsScan
  <2>3. stage \in MergeStages /\ stage.at = "target"
    BY <2>1, <2>2 DEF MergeStages, Sourcing, Targeting
  <2>4. merge'[m] = stage /\ nextId' = nextId
    BY <1>0, <2>1 DEF Goto, vars, store
  <2>5. stage.found = found /\ stage.todo = found
    OBVIOUS
  <2> HIDE DEF stage
  <2>6. AsScanned(found)'
    BY <2>2, <2>4 DEF AsScanned
  <2>7. MergerOK(m)'
    <3>1. InOrder(m)'
      BY <2>4, <2>5, <2>6 DEF InOrder, AsScanned
    <3> QED BY <2>3, <2>4, <3>1 DEF MergerOK, Writing
  <2> QED BY <1>1, <2>1, <2>3, <2>7
<1>6. ASSUME ScanTarget(m)
      PROVE  MergeInv'
  <2>0. PICK there : there = Scan(merge[m].ns, merge[m].target)
    OBVIOUS
  <2> DEFINE stage == [at |-> "policy", ns |-> merge[m].ns, target |-> merge[m].target,
                       found |-> merge[m].found, todo |-> merge[m].todo, there |-> there]
  <2>1. merge[m] \in Targeting /\ Goto(m, stage) /\ UNCHANGED vars
    BY <1>0, <1>6, <2>0, MergeAt DEF ScanTarget
  <2>2. there \in SUBSET Fact /\ AsScanned(there)
    BY <1>0, <2>0, ScanIsScan
  <2>3. stage \in MergeStages /\ stage.at = "policy"
    BY <2>1, <2>2 DEF MergeStages, Targeting, Choosing
  <2>4. merge'[m] = stage /\ nextId' = nextId
    BY <1>0, <2>1 DEF Goto, vars, store
  <2>5. stage.found = merge[m].found /\ stage.todo = merge[m].todo /\ stage.there = there
    OBVIOUS
  <2> HIDE DEF stage
  <2>6. AsScanned(there)' /\ InOrder(m)
    BY <1>0, <1>6, <2>2, <2>4 DEF AsScanned, MergerOK, Begun, ScanTarget
  <2>7. MergerOK(m)'
    <3>1. InOrder(m)'
      BY <2>4, <2>5, <2>6 DEF InOrder, AsScanned, NewerThan
    <3>2. AsScanned(merge[m].there)'
      BY <2>4, <2>5, <2>6 DEF AsScanned
    <3> QED BY <2>3, <2>4, <3>1, <3>2 DEF MergerOK, Writing
  <2> QED BY <1>1, <2>1, <2>3, <2>7
<1> QED BY <1>3, <1>4, <1>5, <1>6

LEMMA PrepareKeeps ==
  ASSUME MergeInv, NEW m \in Mergers, Prepare(m)
  PROVE  MergeInv'
<1>0. /\ TypeOK /\ TxConsistent /\ IsFiniteSet(facts) /\ MergeTypeOK /\ MergerOK(m)
      /\ nextId \in Nat \ {0} /\ facts \subseteq Fact /\ transactions \subseteq Transaction
      /\ merge \in [Mergers -> MergeStages]
      /\ merge[m] \in Choosing
  BY MergeAt DEF MergeInv, MergeTypeOK, TypeOK, StoreTypeOK, Prepare
<1>1. /\ nextId' = nextId + 1 /\ req' = req /\ clock' = clock
      /\ facts' = facts /\ transactions' = transactions /\ branches' = branches
  BY DEF Prepare, NewTx, ledger
<1>2. TypeOK'
  BY <1>0, NewTxKeepsType DEF Prepare, TypeOK, LedgerTypeOK, ledger
<1>3. /\ \A f \in facts : f.id < nextId /\ f.tx < nextId /\ f.id \in Nat /\ f.tx \in Nat
      /\ \A t \in transactions : t.id \in 1 .. nextId - 1
      /\ \A r \in Pending : req[r].tx \in 1 .. nextId - 1
      /\ \A k \in DOMAIN branches : branches[k].head < nextId
  <2>1. \A t \in transactions : t.id \in 1 .. nextId - 1
    BY <1>0 DEF TxConsistent, IdsBehind
  <2>2. \A f \in facts : f.tx < nextId
    BY <1>0, <2>1 DEF TxConsistent, TxRecorded
  <2> QED BY <1>0, <2>1, <2>2 DEF TxConsistent, IdsBehind, Fact
<1>4. TxConsistent'
  <2>1. Pending' = Pending /\ InFlight' = InFlight
    BY <1>1 DEF Pending, InFlight
  <2>2. IdsBehind'
    <3>1. \A k \in DOMAIN branches : branches[k].head \in Nat
      BY <1>0 DEF TypeOK, StoreTypeOK, BranchInfo
    <3> QED BY <1>0, <1>1, <1>3, <2>1, <3>1 DEF IdsBehind
  <2> QED
    BY <1>0, <1>1, <2>1, <2>2 DEF TxConsistent, IdsUnique, BulkOnOneBranch, PendingApart,
       TxRecorded, HeadOnBranch
<1>5. PICK ts \in Times :
        Goto(m, [at |-> "facts", ns |-> merge[m].ns, target |-> merge[m].target,
                 found |-> merge[m].found, todo |-> merge[m].todo,
                 there |-> merge[m].there, ts |-> ts, tx |-> nextId,
                 policy |-> namespaces[merge[m].ns].policy])
  BY DEF Prepare
<1> DEFINE stage == [at |-> "facts", ns |-> merge[m].ns, target |-> merge[m].target,
                     found |-> merge[m].found, todo |-> merge[m].todo,
                     there |-> merge[m].there, ts |-> ts, tx |-> nextId,
                     policy |-> namespaces[merge[m].ns].policy]
<1>6. stage \in MergeStages
  <2>1. ts \in Nat
    BY LedgerAssumption
  <2>2. namespaces[merge[m].ns].policy \in Policies
    BY <1>0 DEF Prepare, TypeOK, StoreTypeOK, NamespaceInfo
  <2> QED BY <1>0, <2>1, <2>2 DEF MergeStages, Choosing, Deciding
<1>7. /\ stage.at = "facts" /\ stage.tx = nextId
      /\ stage.found = merge[m].found /\ stage.todo = merge[m].todo
      /\ stage.there = merge[m].there
  OBVIOUS
<1> HIDE DEF stage
<1>8. /\ merge'[m] = stage /\ \A l \in Mergers \ {m} : merge'[l] = merge[l]
      /\ Goto(m, stage)
  BY <1>0, <1>5 DEF Goto, stage
<1>9. ASSUME NEW l \in Writing
      PROVE  merge[l].tx \in 1 .. nextId - 1 /\ Undisturbed(merge[l].tx)
  <2>1. Apart(l)
    BY DEF MergeInv, MergerOK, Writing
  <2> QED BY <1>1, <2>1, NothingLeavesAlone DEF Apart
<1>10. InOrder(m)'
  <2>1. InOrder(m) /\ merge[m].found \in SUBSET Fact
    BY <1>0 DEF MergerOK, Begun, Choosing
  <2>2. AsScanned(merge[m].found)'
    <3>1. \A f \in merge[m].found : f.id < nextId'
      BY <1>0, <1>1, <2>1, AsScannedStays DEF InOrder
    <3> QED BY <1>7, <1>8, <2>1, <3>1 DEF InOrder, AsScanned
  <2> QED BY <1>7, <1>8, <2>1, <2>2 DEF InOrder, AsScanned, NewerThan
<1>11. AsScanned(merge[m].there)' /\ merge'[m].there = merge[m].there
  <2>1. AsScanned(merge[m].there) /\ merge[m].there \in SUBSET Fact
    BY <1>0 DEF MergerOK, Begun, Choosing
  <2>2. AsScanned(merge[m].there)'
    <3>1. \A f \in merge[m].there : f.id < nextId'
      BY <1>0, <1>1, <2>1, AsScannedStays
    <3> QED BY <1>7, <1>8, <2>1, <3>1 DEF AsScanned
  <2> QED BY <1>7, <1>8, <2>2
<1>12. Apart(m)'
  <2>1. \A l \in Writing' : l = m \/ (l \in Writing /\ merge'[l] = merge[l])
    BY <1>8 DEF Writing
  <2>2. \A l \in Writing' : merge'[l].tx = nextId => l = m
    BY <1>0, <1>9, <2>1
  <2>3. Pending' = Pending
    BY <1>1 DEF Pending
  <2> QED BY <1>0, <1>1, <1>3, <1>7, <1>8, <2>2, <2>3 DEF Apart
<1>13. Written(m)' = {}
  BY <1>0, <1>1, <1>3, <1>7, <1>8 DEF Written
<1>14. Kept(m)'
  BY <1>13 DEF Kept
<1>15. ASSUME NEW k \in Keys
       PROVE  Carries(m, k)'
  <2>1. Mine(m, k)' = {} /\ Newest({}) = {}
    BY <1>13 DEF Mine, Newest
  <2>2. Cardinality(Done(m, k)') \in Nat
    <3>1. IsFiniteSet(merge[m].found)
      BY <1>0 DEF MergerOK, Begun, Choosing, InOrder, AsScanned
    <3>2. Done(m, k)' \in SUBSET merge[m].found
      BY <1>7, <1>8 DEF Done
    <3> QED BY <3>1, <3>2, FS_Subset, SizeIsNat
  <2>3. Cardinality(Mine(m, k)') = 0 /\ Newest(Mine(m, k))' = {}
    BY <2>1, FS_EmptySet DEF Newest
  <2> QED BY <2>2, <2>3 DEF Carries, AnswersLike
<1>16. MergerOK(m)'
  BY <1>7, <1>8, <1>10, <1>11, <1>12, <1>14, <1>15 DEF MergerOK
<1> QED BY <1>0, <1>1, <1>2, <1>4, <1>6, <1>7, <1>8, <1>9, <1>16, OneMoves

-----------------------------------------------------------------------------
(* The loop over the facts of the source                                   *)

\* A fact that was passed over had something of its key in the way, so that for keys
\* of which the target had nothing the work done is the same.
LEMMA PassesOver ==
  ASSUME MergeInv, NEW m \in Mergers, merge[m] \in Deciding, NEW stage \in Deciding,
         Goto(m, stage), UNCHANGED vars,
         stage.ns = merge[m].ns, stage.target = merge[m].target,
         stage.found = merge[m].found, stage.there = merge[m].there,
         stage.ts = merge[m].ts, stage.tx = merge[m].tx, stage.policy = merge[m].policy,
         stage.todo \subseteq merge[m].todo,
         \A f \in merge[m].todo \ stage.todo : \A g \in stage.todo : NewerThan(f, g),
         \A f \in merge[m].todo \ stage.todo : \E t \in merge[m].there : t.key = f.key,
         stage.at = "merged" => stage.todo = {}
  PROVE  MergeInv'
<1>0. /\ merge \in [Mergers -> MergeStages] /\ m \in Writing /\ MergerOK(m)
      /\ stage \in MergeStages
  BY DEF MergeInv, MergeTypeOK, Writing, Deciding, MergeStages
<1>1. /\ InOrder(m) /\ AsScanned(merge[m].there)
      /\ Apart(m) /\ Kept(m) /\ \A k \in Keys : Carries(m, k)
  BY <1>0 DEF MergerOK, Begun, Writing
<1>2. /\ merge'[m] = stage /\ \A l \in Mergers \ {m} : merge'[l] = merge[l]
      /\ UNCHANGED <<facts, transactions, branches, nextId, req>>
  BY <1>0 DEF Goto, vars, store, ledger
<1>3. InOrder(m)'
  BY <1>1, <1>2 DEF InOrder, AsScanned, NewerThan
<1>4. AsScanned(merge[m].there)'
  BY <1>1, <1>2 DEF AsScanned
<1>5. Apart(m)'
  BY <1>0, <1>1, <1>2 DEF Apart, Pending, Writing
<1>6. Written(m)' = Written(m)
  BY <1>2 DEF Written
<1>7. Kept(m)'
  BY <1>1, <1>2, <1>6 DEF Kept
<1>8. ASSUME NEW k \in Keys
      PROVE  Carries(m, k)'
  <2>1. Mine(m, k)' = Mine(m, k)
    BY <1>6 DEF Mine
  <2>2. (\A t \in merge[m].there : t.key # k) => Done(m, k)' = Done(m, k)
    BY <1>1, <1>2 DEF Done, InOrder
  <2> QED BY <1>1, <1>2, <2>1, <2>2 DEF Carries, AnswersLike, Newest, NewerThan
<1>9. MergerOK(m)'
  BY <1>2, <1>3, <1>4, <1>5, <1>7, <1>8 DEF MergerOK
<1> QED BY <1>0, <1>9, QuietMove

\* A key that the target had something of has an entry in the index.
LEMMA IndexFinds ==
  ASSUME MergeInv, NEW m \in Mergers, merge[m] \in Deciding,
         NEW f, NEW t \in merge[m].there, t.key = f.key
  PROVE  InTheWay(m, f) # {}
<1> DEFINE S == {u \in merge[m].there : u.key = f.key}
<1>1. MergerOK(m) /\ nextId \in Nat /\ merge[m].there \in SUBSET Fact
  BY DEF MergeInv, TypeOK, StoreTypeOK, Deciding
<1>2. AsScanned(merge[m].there)
  BY <1>1 DEF MergerOK, Begun, Deciding
<1>3. /\ S \in SUBSET Fact /\ S # {}
      /\ \A u, v \in S : u.id = v.id => u = v
      /\ \A u \in S : u.id <= nextId
  BY <1>1, <1>2 DEF AsScanned, Fact
<1>4. PICK e \in S : \A u \in S \ {e} : NewerThan(u, e)
  <2> HIDE DEF S
  <2> QED BY <1>1, <1>3, OldestExists
<1>5. e \in Index(merge[m].there) /\ e.key = f.key
  BY <1>4 DEF Index
<1> QED BY <1>5 DEF InTheWay

LEMMA SkipKeeps ==
  ASSUME MergeInv, NEW m \in Mergers, Skip(m)
  PROVE  MergeInv'
<1>0. merge[m] \in Deciding /\ merge[m].at = "facts" /\ UNCHANGED vars
  BY MergeAt DEF Skip, MergeInv
<1>1. PICK f \in Newest(merge[m].todo) :
        ~SourceWins(m, f) /\ Goto(m, [merge[m] EXCEPT !.todo = @ \ {f}])
  BY DEF Skip
<1> DEFINE stage == [merge[m] EXCEPT !.todo = @ \ {f}]
<1>2. /\ stage \in Deciding /\ stage.at = "facts"
      /\ stage.ns = merge[m].ns /\ stage.target = merge[m].target
      /\ stage.found = merge[m].found /\ stage.there = merge[m].there
      /\ stage.ts = merge[m].ts /\ stage.tx = merge[m].tx
      /\ stage.policy = merge[m].policy
      /\ stage.todo = merge[m].todo \ {f}
  BY <1>0 DEF Deciding
<1>3. Goto(m, stage)
  BY <1>1
<1> HIDE DEF stage
<1>4. \A g \in merge[m].todo \ {f} : NewerThan(f, g)
  BY <1>1 DEF Newest
<1>5. \E t \in merge[m].there : t.key = f.key
  BY <1>1 DEF SourceWins, InTheWay, Index
<1> QED BY <1>0, <1>2, <1>3, <1>4, <1>5, PassesOver

LEMMA StopKeeps ==
  ASSUME MergeInv, NEW m \in Mergers, Abort(m) \/ Finish(m)
  PROVE  MergeInv'
<1>0. merge[m] \in Deciding /\ UNCHANGED vars
  BY MergeAt DEF Abort, Finish, MergeInv
<1>1. PICK at \in {"aborted", "merged"} :
        /\ Goto(m, [merge[m] EXCEPT !.at = at])
        /\ at = "merged" => merge[m].todo = {}
  BY DEF Abort, Finish
<1> DEFINE stage == [merge[m] EXCEPT !.at = at]
<1>2. /\ stage \in Deciding /\ stage.at = at
      /\ stage.ns = merge[m].ns /\ stage.target = merge[m].target
      /\ stage.found = merge[m].found /\ stage.there = merge[m].there
      /\ stage.ts = merge[m].ts /\ stage.tx = merge[m].tx
      /\ stage.policy = merge[m].policy
      /\ stage.todo = merge[m].todo
  BY <1>0 DEF Deciding
<1>3. Goto(m, stage)
  BY <1>1
<1> HIDE DEF stage
<1> QED BY <1>0, <1>1, <1>2, <1>3, PassesOver

\* One more fact is applied: it is older than those before it, as the one written for
\* it has a higher id than those written before it.
LEMMA OneMoreAnswersAlike ==
  ASSUME NEW S \in SUBSET Fact, NEW D \in SUBSET Fact, IsFiniteSet(S), IsFiniteSet(D),
         NEW s \in Fact, NEW d \in Fact, s.value = d.value,
         \A f \in S : f.id < s.id /\ f.ts = s.ts,
         \A f \in D : f.id # d.id /\ NewerThan(f, d),
         AnswersLike(S, D)
  PROVE  AnswersLike(S \cup {s}, D \cup {d})
<1>0. \A f \in S : f.id \in Nat /\ s.id \in Nat /\ f.ts \in Nat
  BY DEF Fact
<1>1. s \notin S /\ d \notin D
  BY <1>0
<1>2. /\ Cardinality(S) \in Nat /\ Cardinality(D) \in Nat
      /\ Cardinality(S \cup {s}) = Cardinality(S) + 1
      /\ Cardinality(D \cup {d}) = Cardinality(D) + 1
  BY <1>1, FS_AddElement, SizeIsNat
<1>3. CASE Cardinality(S) # Cardinality(D)
  BY <1>2, <1>3 DEF AnswersLike
<1>4. CASE Cardinality(S) = Cardinality(D) /\ D = {}
  <2>1. Cardinality(S) = 0
    BY <1>4, FS_EmptySet
  <2>2. S = {}
    BY <2>1, FS_EmptySet
  <2> QED BY <1>2, <1>4, <2>2 DEF Newest, AnswersLike
<1>5. CASE Cardinality(S) = Cardinality(D) /\ D # {}
  <2>1. S # {}
    BY <1>5, FS_EmptySet
  <2>2. Newest(S \cup {s}) = Newest(S)
    <3>1. ASSUME Newest(S \cup {s}) = {s}
          PROVE  FALSE
      <4>1. PICK f \in S : TRUE
        BY <2>1
      <4>2. NewerThan(s, f)
        BY <1>1, <3>1, <4>1 DEF Newest
      <4> QED BY <1>0, <4>1, <4>2 DEF NewerThan
    <3>2. \A f \in S : f.id # s.id
      BY <1>0
    <3> QED BY <3>1, <3>2, NewestWithOneMore
  <2>3. Newest(D \cup {d}) = Newest(D)
    <3>1. ASSUME Newest(D \cup {d}) = {d}
          PROVE  FALSE
      <4>1. PICK f \in D : TRUE
        BY <1>5
      <4>2. NewerThan(d, f) /\ NewerThan(f, d)
        BY <1>1, <3>1, <4>1 DEF Newest
      <4> QED BY <4>1, <4>2, NewerIsAsymmetric
    <3> QED BY <3>1, NewestWithOneMore
  <2>4. Cardinality(S \cup {s}) <= Cardinality(D \cup {d})
    BY <1>2, <1>5
  <2>5. \A f \in Newest(S \cup {s}), g \in Newest(D \cup {d}) : f.value = g.value
    BY <1>5, <2>2, <2>3 DEF AnswersLike
  <2> QED BY <2>4, <2>5 DEF AnswersLike
<1> QED BY <1>3, <1>4, <1>5

LEMMA ApplyKeeps ==
  ASSUME MergeInv, NEW m \in Mergers, Apply(m)
  PROVE  MergeInv'
<1>0. /\ TypeOK /\ StoreTypeOK /\ TxConsistent /\ IsFiniteSet(facts) /\ MergerOK(m)
      /\ merge \in [Mergers -> MergeStages]
      /\ merge[m] \in Deciding /\ merge[m].at = "facts" /\ m \in Writing
      /\ nextId \in Nat /\ facts \subseteq Fact
      /\ UNCHANGED ledger
  BY MergeAt DEF Apply, MergeInv, MergeTypeOK, TypeOK, StoreTypeOK, Writing
<1>1. /\ InOrder(m) /\ AsScanned(merge[m].there)
      /\ Apart(m) /\ Kept(m) /\ \A k \in Keys : Carries(m, k)
  BY <1>0 DEF MergerOK, Begun
<1>2. PICK f \in Newest(merge[m].todo) :
        /\ SourceWins(m, f)
        /\ StoreRecordNew([ns |-> merge[m].ns, branch |-> merge[m].target,
                           key |-> f.key, value |-> f.value, from |-> f.from,
                           to |-> f.to, idem |-> None, ts |-> merge[m].ts,
                           tx |-> merge[m].tx])
        /\ Goto(m, [merge[m] EXCEPT !.todo = @ \ {f}])
  BY DEF Apply
<1>3. PICK p : p = [ns |-> merge[m].ns, branch |-> merge[m].target,
                    key |-> f.key, value |-> f.value, from |-> f.from,
                    to |-> f.to, idem |-> None, ts |-> merge[m].ts,
                    tx |-> merge[m].tx]
  OBVIOUS
<1>4. f \in Fact /\ f \in merge[m].todo /\ \A g \in merge[m].todo \ {f} : NewerThan(f, g)
  BY <1>0, <1>2 DEF Newest, Deciding
<1>5. /\ p \in RecordParams
      /\ p.ns = merge[m].ns /\ p.branch = merge[m].target
      /\ p.ts = merge[m].ts /\ p.tx = merge[m].tx
      /\ p.key = f.key /\ p.value = f.value
  BY <1>0, <1>3, <1>4 DEF RecordParams, Fact, Deciding
<1>6. StoreRecordNew(p)
  BY <1>2, <1>3
<1>7. /\ StoreTypeOK' /\ nextId' = nextId + 1
      /\ transactions' = TransactionsAfter(p)
      /\ branches' = BranchesAfter(p.ns, p.branch, p.tx)
  BY <1>0, <1>5, <1>6, RecordKeepsType DEF StoreRecordNew
<1>8. PICK nf \in Fact :
        /\ facts' = facts \cup {nf} /\ nf.id = nextId
        /\ nf.tx = p.tx /\ nf.ts = p.ts /\ nf.ns = p.ns /\ nf.branch = p.branch
        /\ nf.key = p.key /\ nf.value = p.value
  <2> DEFINE g == NewFact(p, nextId)
  <2>1. /\ g \in Fact /\ g.id = nextId
        /\ g.tx = p.tx /\ g.ts = p.ts /\ g.ns = p.ns /\ g.branch = p.branch
        /\ g.key = p.key /\ g.value = p.value
    BY <1>0, <1>5 DEF NewFact, Fact, RecordParams
  <2>2. facts' = facts \cup {g}
    BY <1>6 DEF StoreRecordNew
  <2> HIDE DEF g
  <2> QED BY <2>1, <2>2
<1>9. TypeOK' /\ IsFiniteSet(facts')
  BY <1>0, <1>7, <1>8, FS_AddElement DEF TypeOK, LedgerTypeOK, ledger
<1>10. /\ req' = req /\ Pending' = Pending /\ InFlight' = InFlight
       /\ \A q \in Pending : req[q].tx # p.tx
  BY <1>0, <1>1, <1>5 DEF ledger, Pending, InFlight, Apart
<1>11. /\ \A t \in transactions : \E u \in transactions' : SameRow(t, u)
       /\ \A u \in transactions' :
            \/ \E t \in transactions : SameRow(t, u)
            \/ u.id = p.tx /\ u.ts = p.ts /\ u.ns = p.ns /\ u.branch = p.branch
       /\ \E u \in transactions' :
            u.id = p.tx /\ u.ts = p.ts /\ u.ns = p.ns /\ u.branch = p.branch
       /\ \A t, u \in transactions' : t.id = u.id => t = u
  <2>1. \A t \in transactions : t.id = p.tx =>
          t.ts = p.ts /\ t.ns = p.ns /\ t.branch = p.branch
    BY <1>1, <1>5 DEF Apart
  <2> QED BY <1>0, <1>7, <2>1, RowsAfter
<1>12. \A k \in DOMAIN branches : branches[k].head = p.tx => k = <<p.ns, p.branch>>
  BY <1>1, <1>5 DEF Apart
<1>13. \A g \in facts : g.id < nextId /\ g.id \in Nat
  BY <1>0 DEF TxConsistent, IdsBehind, Fact
<1>14. TxConsistent'
  <2>1. \A q \in Requests : GoesOn(q)
    BY <1>0, <1>10, SameRequestGoesOn DEF TxConsistent
  <2>2. /\ \A g \in facts' : g.id < nextId'
        /\ \A g, h \in facts' : g.id = h.id => g = h
    BY <1>0, <1>7, <1>8, <1>13 DEF TxConsistent, IdsUnique
  <2>3. \A g \in facts' :
          \/ \E h \in facts : /\ h.tx = g.tx /\ h.ts = g.ts
                              /\ h.ns = g.ns /\ h.branch = g.branch
          \/ g.tx = p.tx /\ g.ts = p.ts /\ g.ns = p.ns /\ g.branch = p.branch
    BY <1>8
  <2>4. WritesUnder(p.tx, p.ts, p.ns, p.branch)
    BY <1>7, <1>10, <1>11, <1>12, <2>2, <2>3 DEF WritesUnder
  <2>5. p.tx \in 1 .. nextId - 1 /\ nextId' >= nextId
    BY <1>0, <1>1, <1>5, <1>7 DEF Apart
  <2> QED BY <1>0, <1>7, <2>1, <2>4, <2>5, Commits
<1>15. /\ DOMAIN branches' = DOMAIN branches
       /\ \A k \in DOMAIN branches :
            branches'[k].head = IF k = <<p.ns, p.branch>> THEN p.tx ELSE branches[k].head
  <2>1. branches \in [DOMAIN branches -> BranchInfo]
    BY <1>0 DEF StoreTypeOK
  <2> QED BY <1>7, <2>1 DEF BranchesAfter, BranchInfo
<1>16. ASSUME NEW l \in Writing \ {m}
       PROVE  Undisturbed(merge[l].tx)
  <2>1. /\ merge[l].tx # p.tx
        /\ \A r \in Pending : req[r].tx # merge[l].tx
    <3>1. Apart(l)
      BY DEF MergeInv, MergerOK, Writing
    <3> QED BY <1>0, <1>5, <3>1 DEF Apart
  <2>2. FactsOf(merge[l].tx)' \subseteq FactsOf(merge[l].tx)
    <3>1. PICK x : x = merge[l].tx
      OBVIOUS
    <3>2. {g \in facts' : g.tx = x} \subseteq {g \in facts : g.tx = x}
      BY <1>8, <2>1, <3>1
    <3>3. merge'[l] = merge[l]
      BY <1>0, <1>2 DEF Goto, Writing
    <3> QED BY <3>1, <3>2, <3>3 DEF FactsOf
  <2>3. FactsKept(merge[l].tx)
    BY <2>2 DEF FactsKept
  <2> QED BY <1>10, <1>11, <1>15, <2>1, <2>3 DEF Undisturbed, SameRow
<1> DEFINE stage == [merge[m] EXCEPT !.todo = @ \ {f}]
<1>17. /\ stage \in Deciding /\ stage.at = "facts"
       /\ stage.ns = merge[m].ns /\ stage.target = merge[m].target
       /\ stage.found = merge[m].found /\ stage.there = merge[m].there
       /\ stage.ts = merge[m].ts /\ stage.tx = merge[m].tx
       /\ stage.policy = merge[m].policy
       /\ stage.todo = merge[m].todo \ {f}
  BY <1>0 DEF Deciding
<1>18. Goto(m, stage)
  BY <1>2
<1> HIDE DEF stage
<1>19. merge'[m] = stage /\ \A l \in Mergers \ {m} : merge'[l] = merge[l]
  BY <1>0, <1>18 DEF Goto
<1>20. InOrder(m)'
  <2>1. /\ \A g \in merge[m].found : g.id < nextId /\ g.id \in Nat
        /\ \A g, h \in merge[m].found : g.id = h.id => g = h
        /\ IsFiniteSet(merge[m].found)
    BY <1>0, <1>1 DEF InOrder, AsScanned, Deciding, Fact
  <2>2. AsScanned(merge[m].found)'
    BY <1>0, <1>7, <1>17, <1>19, <2>1 DEF AsScanned
  <2>3. \A g \in stage.found \ stage.todo : g = f \/ g \in merge[m].found \ merge[m].todo
    BY <1>17
  <2>4. \A g \in stage.found \ stage.todo, h \in stage.todo : NewerThan(g, h)
    BY <1>1, <1>4, <1>17, <2>3 DEF InOrder
  <2> QED BY <1>1, <1>17, <1>19, <2>2, <2>4 DEF InOrder, NewerThan
<1>21. AsScanned(merge[m].there)'
  <2>1. \A g \in merge[m].there : g.id < nextId /\ g.id \in Nat
    BY <1>0, <1>1 DEF AsScanned, Deciding, Fact
  <2> QED BY <1>0, <1>1, <1>7, <1>17, <1>19, <2>1 DEF AsScanned
<1>22. Apart(m)'
  <2>1. \A l \in Writing' : merge'[l].tx = p.tx => l = m
    BY <1>1, <1>5, <1>19 DEF Apart, Writing
  <2>2. \A u \in transactions' : u.id = p.tx =>
          u.ts = p.ts /\ u.ns = p.ns /\ u.branch = p.branch
    BY <1>11
  <2>3. \A k \in DOMAIN branches' : branches'[k].head = p.tx => k = <<p.ns, p.branch>>
    BY <1>12, <1>15
  <2>4. p.tx \in 1 .. nextId' - 1
    BY <1>0, <1>1, <1>5, <1>7 DEF Apart
  <2> QED BY <1>5, <1>10, <1>17, <1>19, <2>1, <2>2, <2>3, <2>4 DEF Apart
<1>23. Written(m)' = Written(m) \cup {nf}
  BY <1>5, <1>8, <1>17, <1>19 DEF Written
<1>24. Kept(m)'
  <2>1. ASSUME merge[m].policy # "last_write_wins", NEW t \in merge[m].there
        PROVE  t.key # f.key
    <3>1. InTheWay(m, f) = {}
      BY <1>2, <2>1 DEF SourceWins
    <3> QED BY <1>0, <3>1, IndexFinds
  <2> QED BY <1>1, <1>5, <1>8, <1>17, <1>19, <1>23, <2>1 DEF Kept
<1>25. ASSUME NEW k \in Keys
       PROVE  Carries(m, k)'
  <2>1. CASE f.key # k
    <3>1. Mine(m, k)' = Mine(m, k)
      BY <1>5, <1>8, <1>23, <2>1 DEF Mine
    <3>2. Done(m, k)' = Done(m, k)
      BY <1>17, <1>19, <2>1 DEF Done
    <3>3. Carries(m, k)
      BY <1>1
    <3> QED BY <1>17, <1>19, <3>1, <3>2, <3>3 DEF Carries, AnswersLike, Newest, NewerThan
  <2>2. CASE f.key = k /\ \A t \in merge[m].there : t.key # k
    <3>1. PICK S : S = Mine(m, k)
      OBVIOUS
    <3>2. PICK D : D = Done(m, k)
      OBVIOUS
    <3>3. S \in SUBSET Fact /\ IsFiniteSet(S)
      <4>1. S \in SUBSET facts
        BY <3>1 DEF Mine, Written
      <4> QED BY <1>0, <4>1, FS_Subset
    <3>4. D \in SUBSET Fact /\ IsFiniteSet(D)
      <4>1. D \in SUBSET merge[m].found
        BY <3>2 DEF Done
      <4> QED BY <1>0, <1>1, <4>1, FS_Subset DEF InOrder, AsScanned, Deciding
    <3>5. \A g \in S : g.id < nf.id /\ g.ts = nf.ts
      <4>1. \A g \in S : g \in facts /\ g.tx = p.tx
        BY <1>5, <3>1 DEF Mine, Written
      <4>2. \A g \in S : g.ts = p.ts
        BY <1>0, <1>1, <1>5, <4>1 DEF TxConsistent, TxRecorded, Apart
      <4> QED BY <1>8, <1>13, <4>1, <4>2
    <3>6. \A g \in D : g.id # f.id /\ NewerThan(g, f)
      <4>1. \A g \in D : /\ g \in merge[m].found /\ f \in merge[m].found
                         /\ g # f /\ NewerThan(g, f)
        BY <1>1, <1>4, <3>2 DEF Done, InOrder
      <4> QED BY <1>1, <4>1 DEF InOrder, AsScanned
    <3>7. AnswersLike(S, D)
      BY <1>1, <2>2, <3>1, <3>2 DEF Carries
    <3>8. Mine(m, k)' = S \cup {nf}
      BY <1>5, <1>8, <1>23, <2>2, <3>1 DEF Mine
    <3>9. Done(m, k)' = D \cup {f}
      <4>1. f \in merge[m].found
        BY <1>1, <1>4 DEF InOrder
      <4> QED BY <1>17, <1>19, <2>2, <3>2, <4>1 DEF Done
    <3>10. nf.value = f.value
      BY <1>5, <1>8
    <3>11. AnswersLike(S \cup {nf}, D \cup {f})
      BY <1>4, <3>3, <3>4, <3>5, <3>6, <3>7, <3>10, OneMoreAnswersAlike
    <3> QED BY <3>8, <3>9, <3>11 DEF Carries, AnswersLike, Newest, NewerThan
  <2>3. CASE \E t \in merge[m].there : t.key = k
    BY <1>17, <1>19, <2>3 DEF Carries
  <2> QED BY <2>1, <2>2, <2>3
<1>26. MergerOK(m)'
  BY <1>17, <1>19, <1>20, <1>21, <1>22, <1>24, <1>25 DEF MergerOK
<1> QED
  BY <1>0, <1>7, <1>9, <1>14, <1>16, <1>17, <1>18, <1>26, OneMoves DEF MergeStages

-----------------------------------------------------------------------------
(* What holds always                                                       *)

LEMMA MergeStepKeeps ==
  ASSUME MergeInv, [MergeNext]_allVars
  PROVE  MergeInv'
<1>1. ASSUME NEW m \in Mergers, MergeStep(m)
      PROVE  MergeInv'
  BY <1>1, BeforeWriting, PrepareKeeps, ApplyKeeps, SkipKeeps, StopKeeps DEF MergeStep
<1>2. CASE Next /\ UNCHANGED mergeVars
  BY <1>2, LedgerStepKeeps
<1>3. CASE UNCHANGED allVars
  BY <1>3, LedgerStepKeeps DEF allVars
<1> QED BY <1>1, <1>2, <1>3 DEF MergeNext

LEMMA MergeInductive == MergeSpec => []MergeInv
<1>1. ASSUME MergeInit
      PROVE  MergeInv
  <2>1. TypeOK /\ TxConsistent /\ IsFiniteSet(facts)
    BY <1>1, InitConsistent, FS_EmptySet DEF MergeInit, Consistent, Init, StoreInit
  <2>2. \A m \in Mergers : merge[m].at = "idle"
    BY <1>1 DEF MergeInit, Unmerged
  <2>3. MergeTypeOK
    BY <1>1 DEF MergeInit, MergeTypeOK, MergeStages
  <2>4. \A m \in Mergers : MergerOK(m)
    BY <2>2 DEF MergerOK, Begun, Writing
  <2> QED BY <2>1, <2>3, <2>4 DEF MergeInv
<1>2. MergeInv /\ [MergeNext]_allVars => MergeInv'
  BY MergeStepKeeps
<1> QED BY <1>1, <1>2, PTL DEF MergeSpec

\* Every variable keeps its type, merges included.
THEOREM MergeTypeCorrect == MergeSpec => [](TypeOK /\ MergeTypeOK)
<1>1. MergeInv => TypeOK /\ MergeTypeOK
  BY DEF MergeInv
<1> QED BY <1>1, MergeInductive, PTL

\* A merge whose transaction row gc purges half-way leaves no fact without one, although
\* its timestamp comes from a clock that agrees with no other.
THEOREM MergeTxRecordedAlways == MergeSpec => []TxRecorded
<1>1. MergeInv => TxRecorded
  BY DEF MergeInv, TxConsistent
<1> QED BY <1>1, MergeInductive, PTL

\* Nor does a merge ever make a transaction the head of a branch it was not written to.
THEOREM MergeHeadOnBranchAlways == MergeSpec => []HeadOnBranch
<1>1. MergeInv => HeadOnBranch
  BY DEF MergeInv, TxConsistent
<1> QED BY <1>1, MergeInductive, PTL

\* Unless the policy is last-write-wins, a merge adds nothing to a key of which its scan
\* found something in the target, however many merges and requests run beside it.
THEOREM TargetKeptAlways == MergeSpec => []TargetKept
<1>1. MergeInv => TargetKept
  BY DEF MergeInv, MergerOK, Kept, TargetKept, Writing
<1> QED BY <1>1, MergeInductive, PTL

\* For a key of which the target had nothing, what a finished merge wrote answers as the
\* newest fact of the source does, unless some of it has been purged since: it is
\* the order of writing that decides between facts of one timestamp.
THEOREM MergeCarriesNewestAlways == MergeSpec => []MergeCarriesNewest
<1>1. ASSUME MergeInv
      PROVE  MergeCarriesNewest
  <2> SUFFICES ASSUME NEW m \in Merged, NEW k \in Keys,
                      \A t \in merge[m].there : t.key # k,
                      Cardinality({f \in Written(m) : f.key = k})
                        = Cardinality({f \in merge[m].found : f.key = k}),
                      NEW f \in Newest({e \in Written(m) : e.key = k}),
                      NEW g \in Newest({e \in merge[m].found : e.key = k})
               PROVE  f.value = g.value
    BY DEF MergeCarriesNewest
  <2>1. m \in Mergers /\ m \in Writing /\ merge[m].at = "merged" /\ MergerOK(m)
    BY <1>1 DEF MergeInv, Merged, Writing
  <2>2. merge[m].todo = {} /\ Carries(m, k)
    BY <2>1 DEF MergerOK
  <2>3. /\ Mine(m, k) = {e \in Written(m) : e.key = k}
        /\ Done(m, k) = {e \in merge[m].found : e.key = k}
    BY <2>2 DEF Mine, Done
  <2> QED BY <2>2, <2>3 DEF Carries, AnswersLike
<1> QED BY <1>1, MergeInductive, PTL

\* Wherever two branches hold facts of a key they differ in the oldest, for facts are
\* compared with their ids: diff misses no key that answers differently.
THEOREM DiffMissesNothingAlways == MergeSpec => []DiffMissesNothing
<1>1. ASSUME MergeInv
      PROVE  DiffMissesNothing
  <2>1. ASSUME NEW n, NEW s, NEW t, NEW k \in Keys, s # t,
               NEW g \in Live(n, s, k)
        PROVE  {f \in Index(Scan(n, s)) : f.key = k} # {f \in Index(Scan(n, t)) : f.key = k}
    <3>0. TypeOK /\ TxConsistent /\ IsFiniteSet(facts) /\ nextId \in Nat
      BY <1>1 DEF MergeInv, TypeOK, StoreTypeOK
    <3> DEFINE S == {f \in Scan(n, s) : f.key = k}
    <3>1. S \in SUBSET Fact /\ S # {}
      BY <3>0, <2>1, ScanIsScan DEF Live, Scan
    <3>2. /\ \A e, f \in S : e.id = f.id => e = f
          /\ \A f \in S : f.id <= nextId
      BY <3>0, <3>1, ScanIsScan DEF AsScanned, Fact
    <3>3. PICK e \in S : \A f \in S \ {e} : NewerThan(f, e)
      <4> HIDE DEF S
      <4> QED BY <3>0, <3>1, <3>2, OldestExists
    <3>4. e \in Index(Scan(n, s)) /\ e.key = k
      BY <3>3 DEF Index
    <3>5. e \notin Index(Scan(n, t))
      BY <2>1 DEF Index, Scan
    <3> QED BY <3>4, <3>5
  <2> SUFFICES ASSUME NEW n \in Namespaces, NEW s \in Branches, NEW t \in Branches,
                      NEW k \in Keys \ Diff(n, s, t)
               PROVE  {f.value : f \in Newest(Live(n, s, k))}
                        = {f.value : f \in Newest(Live(n, t, k))}
    BY DEF DiffMissesNothing
  <2>2. CASE s = t
    BY <2>2
  <2>3. CASE s # t
    <3>1. {f \in Index(Scan(n, s)) : f.key = k} = {f \in Index(Scan(n, t)) : f.key = k}
      BY DEF Diff
    <3>2. Live(n, s, k) = {} /\ Live(n, t, k) = {}
      BY <2>1, <2>3, <3>1
    <3> QED BY <3>2
  <2> QED BY <2>2, <2>3
<1> QED BY <1>1, MergeInductive, PTL

=============================================================================
