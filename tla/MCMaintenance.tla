---------------------------- MODULE MCMaintenance ----------------------------
(* Maintenance for TLC: the values of the constants that a .cfg cannot       *)
(* write, and bounds on who does what.                                       *)
EXTENDS Maintenance, TLC

CONSTANTS
  Worker,       \* The request that writes and retracts facts.
  Copy          \* The namespace that dumps are restored to.

MCEntityOf == [k \in Keys |-> "entity"]
MCTimes == 0 .. 5
MCIdemKeys == 2 .. 6

\* A fact that is retracted in the first millisecond has an interval record refuses.
MCIntervals == {[from |-> 1, to |-> Open]}
MCByVersions ==
  [max_versions : {1}, max_age : {None}, only_retracted : {FALSE}, branches : {{}}]
MCRetentions ==
  MCByVersions \cup [max_versions : {None}, max_age : {1, 4}, only_retracted : BOOLEAN,
                    branches : {Branches}]
Symmetry == Permutations(Values)

\* The worker writes and retracts in the default namespace, with open intervals and
\* without idempotency keys, until there is a dump.  The first job is a
\* retention of another request, or a dump, which is then restored to the copy by
\* any request.
WhoDoesWhat ==
  /\ Copy \notin DOMAIN namespaces
  /\ Cardinality({f \in facts : f.ns = DefaultNs}) <= 3
  /\ \A r \in Requests :
       /\ req[r].op # "forking"
       /\ Free(r) =>
            /\ req[r].op \in {"idle", "storing", "retracting"}
            /\ req[r].op # "idle" => r = Worker /\ backup = << >>
            /\ req[r].op = "retracting" =>
                 req[r].ns = DefaultNs /\ \E f \in facts : f.id = req[r].fact
            /\ req[r].op = "storing" =>
                 \A i \in DOMAIN req[r].specs : /\ req[r].specs[i].ns = DefaultNs
                                                /\ req[r].specs[i].valid.to = Open
       /\ RetentionOf(r) => r # Worker /\ job[r].ns = DefaultNs /\ jobs = 1
       /\ job[r].at = "dump_branches" => job[r].ns = DefaultNs /\ jobs = 1
       /\ job[r].at = "restore" => job[r].ns = Copy
=============================================================================
