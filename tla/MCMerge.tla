------------------------------- MODULE MCMerge -------------------------------
(* Merge for TLC: the values of the constants that a .cfg cannot write, and  *)
(* bounds on who does what.                                                  *)
EXTENDS Merge

CONSTANTS Plain, Email, Early, Late

MCIntervals == {[from |-> 0, to |-> Open]}
MCTimes == 0 .. 3

\* Only the namespace that has a policy of its own is used.
InOther ==
  /\ \A f \in facts : f.ns # DefaultNs
  /\ \A r \in Requests : req[r].op = "storing" => req[r].specs[1].ns # DefaultNs
  /\ \A m \in Mergers : merge[m] # Unmerged => merge[m].ns # DefaultNs

\* Facts are written by bulks: single plain ones in main, up to two different ones in the
\* branch that is merged into main.  Only one key has two values.  A
\* retraction names a fact of its branch.
SideIntoMain ==
  /\ \A r \in Requests :
       /\ req[r].op \in {"idle", "storing", "retracting"}
       /\ req[r].op = "storing" =>
            \A i \in DOMAIN req[r].specs :
              /\ req[r].specs[i].branch = Main =>
                   Len(req[r].specs) = 1 /\ req[r].specs[i].value = Plain
              /\ req[r].specs[i].key = Email => req[r].specs[i].value = Plain
              /\ \A j \in 1 .. i - 1 : req[r].specs[i] # req[r].specs[j]
       /\ req[r].op = "retracting" =>
            \E f \in facts : /\ f.id = req[r].fact
                             /\ <<f.ns, f.branch>> = <<req[r].ns, req[r].branch>>
  /\ \A m \in Mergers : merge[m] # Unmerged => merge[m].target = Main
  /\ \A m \in Mergers : merge[m].at = "source" => merge[m].source # Main
  /\ \A m \in Mergers : merge[m].at = "facts" => merge[m].ts \in {Early, Late}
=============================================================================
