----------------------------- MODULE AtomicStore -----------------------------
(***************************************************************************)
(* What a Store promises (pkg/polo-core/src/lib.rs): each of its calls     *)
(* that writes takes effect in one step, the one MemoryStore takes.        *)
(***************************************************************************)
EXTENDS MemoryStore

CONSTANTS
  Writes,       \* What record is called with.
  Retractions,  \* What retract is called with.
  Forks,        \* The fork_at of create_branch.
  Cutoffs,      \* The before_ms of gc.
  TxIds         \* What put_tag is called with.

Next ==
  \/ \E p \in Writes : StoreRecordNew(p)
  \/ \E p \in Retractions, f \in facts : StoreRetract(f.id, p)
  \/ \E n \in Namespaces, b, parent \in Branches, at \in Forks :
       StoreCreateBranch(n, b, parent, at)
  \/ \E n \in Namespaces, b \in Branches : StoreDeleteBranch(n, b)
  \/ \E n \in Namespaces, info \in NamespaceInfo : StoreCreateNamespace(n, info)
  \/ \E before \in Cutoffs \cup {None}, scope \in Branches \cup {None} :
       StoreGc(before, scope)
  \/ \E label \in Labels, tx \in TxIds : StorePutTag(label, tx)
  \/ \E label \in Labels : StoreDeleteTag(label)

Spec == StoreInit /\ [][Next]_store
=============================================================================
