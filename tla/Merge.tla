-------------------------------- MODULE Merge --------------------------------
(***************************************************************************)
(* Merging branches: the merge of the Store trait, which memory.rs and     *)
(* sqlite.rs write out alike, among the requests of Ledger.                *)
(*                                                                         *)
(* A merge holds no lock: it scans one branch, scans the other, looks up   *)
(* the policy and then calls record for one fact after the other.  Its     *)
(* timestamp does not come from the clock of the Db but from a clock made  *)
(* for the occasion, which knows nothing of the timestamps given out.      *)
(***************************************************************************)
EXTENDS Ledger

CONSTANTS
  Mergers,      \* Identities of concurrent merges.
  MaxMerges     \* Bound: merges started.

VARIABLES
  merge,        \* What each merge is doing.
  merges        \* Counts merges, for the bound.

mergeVars == <<merge, merges>>
allVars == <<vars, mergeVars>>

Unmerged == [at |-> "idle"]

MergeInit ==
  /\ Init
  /\ merge = [m \in Mergers |-> Unmerged]
  /\ merges = 0

Goto(m, stage) == merge' = [merge EXCEPT ![m] = stage]

CallMerge(m, n, source, target) ==
  /\ merge[m] = Unmerged /\ merges < MaxMerges
  /\ merges' = merges + 1
  /\ Goto(m, [at |-> "source", ns |-> n, source |-> source, target |-> target])
  /\ UNCHANGED vars

\* The facts of a branch that are not retracted, as a scan returns them.
Scan(n, b) == {f \in facts : f.ns = n /\ f.branch = b /\ ~f.retracted}

ScanSource(m) ==
  /\ merge[m].at = "source"
  /\ LET found == Scan(merge[m].ns, merge[m].source)
     IN  Goto(m, [at |-> "target", ns |-> merge[m].ns, target |-> merge[m].target,
                  found |-> found, todo |-> found])
  /\ UNCHANGED <<vars, merges>>

ScanTarget(m) ==
  /\ merge[m].at = "target"
  /\ Goto(m, [at |-> "policy", ns |-> merge[m].ns, target |-> merge[m].target,
              found |-> merge[m].found, todo |-> merge[m].todo,
              there |-> Scan(merge[m].ns, merge[m].target)])
  /\ UNCHANGED <<vars, merges>>

\* get_namespace, TxId::new, and Clock::new().tick(): any timestamp at all.
Prepare(m) ==
  /\ merge[m].at = "policy"
  /\ merge[m].ns \in DOMAIN namespaces
  /\ \E ts \in Times :
       Goto(m, [at |-> "facts", ns |-> merge[m].ns, target |-> merge[m].target,
                found |-> merge[m].found, todo |-> merge[m].todo,
                there |-> merge[m].there, ts |-> ts, tx |-> nextId,
                policy |-> namespaces[merge[m].ns].policy])
  /\ NewTx
  /\ UNCHANGED <<ledger, merges>>

\* NamespaceNotFound
Refuse(m) ==
  /\ merge[m].at = "policy"
  /\ merge[m].ns \notin DOMAIN namespaces
  /\ Goto(m, Unmerged)
  /\ UNCHANGED <<vars, merges>>

\* A scan is newest first, and collecting it into a map by key keeps what
\* comes last: the oldest fact of each key.
Index(S) == {f \in S : \A g \in S \ {f} : g.key = f.key => NewerThan(g, f)}

\* The index entry that conflicts with a fact of the source.
InTheWay(m, f) == {t \in Index(merge[m].there) : t.key = f.key}

\* Mutant of SourceWins: the policy of the namespace is not looked at.
SourceWinsAlways(m, f) == \A t \in InTheWay(m, f) : f.ts > t.ts

SourceWins(m, f) ==
  \A t \in InTheWay(m, f) : merge[m].policy = "last_write_wins" /\ f.ts > t.ts

\* Mutants of Apply: a merged fact keeps the timestamp, or the transaction, that
\* it has in the source.
ApplyWithOwnTime(m) ==
  /\ merge[m].at = "facts"
  /\ \E f \in Newest(merge[m].todo) :
       /\ SourceWins(m, f)
       /\ StoreRecordNew([ns |-> merge[m].ns, branch |-> merge[m].target,
                          key |-> f.key, value |-> f.value, from |-> f.from,
                          to |-> f.to, idem |-> None, ts |-> f.ts,
                          tx |-> merge[m].tx])
       /\ Goto(m, [merge[m] EXCEPT !.todo = @ \ {f}])
  /\ UNCHANGED <<ledger, merges>>

ApplyWithOwnTx(m) ==
  /\ merge[m].at = "facts"
  /\ \E f \in Newest(merge[m].todo) :
       /\ SourceWins(m, f)
       /\ StoreRecordNew([ns |-> merge[m].ns, branch |-> merge[m].target,
                          key |-> f.key, value |-> f.value, from |-> f.from,
                          to |-> f.to, idem |-> None, ts |-> merge[m].ts,
                          tx |-> f.tx])
       /\ Goto(m, [merge[m] EXCEPT !.todo = @ \ {f}])
  /\ UNCHANGED <<ledger, merges>>

\* self.record: the fact goes to the target, under the merge's transaction.
Apply(m) ==
  /\ merge[m].at = "facts"
  /\ \E f \in Newest(merge[m].todo) :
       /\ SourceWins(m, f)
       /\ StoreRecordNew([ns |-> merge[m].ns, branch |-> merge[m].target,
                          key |-> f.key, value |-> f.value, from |-> f.from,
                          to |-> f.to, idem |-> None, ts |-> merge[m].ts,
                          tx |-> merge[m].tx])
       /\ Goto(m, [merge[m] EXCEPT !.todo = @ \ {f}])
  /\ UNCHANGED <<ledger, merges>>

\* A conflict that the target wins is reported, and the loop goes on.
Skip(m) ==
  /\ merge[m].at = "facts"
  /\ merge[m].policy # "error_on_conflict"
  /\ \E f \in Newest(merge[m].todo) :
       /\ ~SourceWins(m, f)
       /\ Goto(m, [merge[m] EXCEPT !.todo = @ \ {f}])
  /\ UNCHANGED <<vars, merges>>

\* Error::Conflict
Abort(m) ==
  /\ merge[m].at = "facts"
  /\ merge[m].policy = "error_on_conflict"
  /\ \E f \in Newest(merge[m].todo) : ~SourceWins(m, f)
  /\ Goto(m, [merge[m] EXCEPT !.at = "aborted"])
  /\ UNCHANGED <<vars, merges>>

Finish(m) ==
  /\ merge[m].at = "facts" /\ merge[m].todo = {}
  /\ Goto(m, [merge[m] EXCEPT !.at = "merged"])
  /\ UNCHANGED <<vars, merges>>

\* The answer has been sent.
Forget(m) ==
  /\ merge[m].at \in {"merged", "aborted"}
  /\ Goto(m, Unmerged)
  /\ UNCHANGED <<vars, merges>>

-----------------------------------------------------------------------------

MergeStep(m) ==
  \/ \E n \in Namespaces, s, t \in Branches : CallMerge(m, n, s, t)
  \/ ScanSource(m) \/ ScanTarget(m) \/ Prepare(m) \/ Refuse(m)
  \/ Apply(m) \/ Skip(m) \/ Abort(m) \/ Finish(m) \/ Forget(m)

MergeNext ==
  \/ Next /\ UNCHANGED mergeVars
  \/ \E m \in Mergers : MergeStep(m)

MergeSpec == MergeInit /\ [][MergeNext]_allVars

-----------------------------------------------------------------------------
(* Diff, which indexes both branches in the same way                       *)

\* Mutant of Diff: facts are compared by their values alone.
DiffOfValues(n, source, target) ==
  LET s == Index(Scan(n, source))
      t == Index(Scan(n, target))
  IN  {k \in Keys : {f.value : f \in {g \in s : g.key = k}}
                    # {f.value : f \in {g \in t : g.key = k}}}

\* The keys it lists: facts are compared whole, with their ids.
Diff(n, source, target) ==
  LET s == Index(Scan(n, source))
      t == Index(Scan(n, target))
  IN  {k \in Keys : {f \in s : f.key = k} # {f \in t : f.key = k}}

-----------------------------------------------------------------------------
(* Properties                                                              *)

\* The merges that have written all they will write.
Merged == {m \in Mergers : merge[m].at = "merged"}
Writing == {m \in Mergers : merge[m].at \in {"facts", "aborted", "merged"}}

Written(m) == {f \in facts : f.tx = merge[m].tx}

\* All facts of a merge have one timestamp, so that which of them answers for a
\* key is left to the order in which they were written.  Still, where
\* the target had nothing the merged facts answer what the newest fact of the
\* source did (memory.rs:400-458; scan's stable sort, memory.rs:215).
MergeCarriesNewest ==
  \A m \in Merged, k \in Keys :
    LET mine == {f \in Written(m) : f.key = k}
        theirs == {f \in merge[m].found : f.key = k}
    IN  (/\ \A t \in merge[m].there : t.key # k
         /\ Cardinality(mine) = Cardinality(theirs))
          => \A f \in Newest(mine), g \in Newest(theirs) : f.value = g.value

\* Unless the policy is last-write-wins, a merge, or the part of it that was
\* written before it was aborted, adds nothing to a key that the target
\* had when it was scanned, whatever was retracted there since.
TargetKept ==
  \A m \in Writing :
    merge[m].policy # "last_write_wins"
      => \A f \in Written(m), t \in merge[m].there : f.key # t.key

\* diff compares the oldest fact of each key on both branches, but whole, with
\* its id: it may list a key that answers the same, and never misses one
\* that answers differently (memory.rs:485-509).
DiffMissesNothing ==
  \A n \in Namespaces, s, t \in Branches : \A k \in Keys \ Diff(n, s, t) :
    {f.value : f \in Newest(Live(n, s, k))} = {f.value : f \in Newest(Live(n, t, k))}

-----------------------------------------------------------------------------
(* What the documentation says and the code does not do                    *)

\* README.md:80: under last-write-wins the last write wins.  A merge does not
\* put an older fact of the source over a newer one it has found in the target.
LastWriteWins ==
  [][\A m \in Mergers : Apply(m) /\ merge[m].policy = "last_write_wins" =>
       \A f \in Newest(merge[m].todo), t \in merge[m].there :
         t.key = f.key => t.ts < f.ts]_allVars
=============================================================================
