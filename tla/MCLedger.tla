------------------------------ MODULE MCLedger ------------------------------
(* Ledger for TLC: the values of the constants that a .cfg cannot write, and *)
(* bounds on what meets what.                                                *)
EXTENDS Ledger, TLC

CONSTANT Value        \* The type MCTyped asks of every value.

MCIntervals == {[from |-> 0, to |-> Open]}
MCTyped == {[attrs |-> [k \in Keys |-> Value], strict |-> TRUE]}
MCTimes == 0 .. 6
Sym == Permutations(Requests)

Place(spec) == <<spec.ns, spec.branch>>

\* Where a request writes, and with which key.
Places(r) ==
  CASE req[r].op = "checked" -> {Place(req[r].spec)}
    [] req[r].op = "storing" -> {Place(spec) : spec \in {req[r].specs[i] : i \in DOMAIN req[r].specs}}
    [] req[r].op \in {"retracting", "forking"} -> {Place(req[r])}
    [] OTHER -> {}

KeyInUse(r) ==
  \/ req[r].op = "checked" /\ req[r].spec.idem # None
  \/ req[r].op = "storing" /\ \E i \in DOMAIN req[r].specs : req[r].specs[i].idem # None

\* Everything stays on one branch of one namespace, and no label is put ...
OneBranch ==
  /\ DOMAIN branches = {<<DefaultNs, Main>>}
  /\ \A f \in facts : Place(f) = <<DefaultNs, Main>>
  /\ \A r \in Requests : Places(r) \subseteq {<<DefaultNs, Main>>}
  /\ DOMAIN tags = {}

\* ... or branches and namespaces come and go, among single writes without a key.
NoBulksOrKeys ==
  /\ DOMAIN idem_cache = {}
  /\ \A t \in transactions : t.count = 1
  /\ \A r \in Requests : ~KeyInUse(r) /\ (req[r].op = "storing" => Len(req[r].specs) = 1)

OneBranchOrNoBulks == OneBranch \/ NoBulksOrKeys
=============================================================================
