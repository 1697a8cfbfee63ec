----------------------------- MODULE SqliteReads -----------------------------
(***************************************************************************)
(* The calls of the SQLite store of polo that only read, on the tables of  *)
(* SqliteStore.  A scan builds the text of its statement and the list of   *)
(* the values for its placeholders separately, and SQL leaves rows with    *)
(* equal timestamps in any order.                                          *)
(***************************************************************************)
EXTENDS SqliteStore, Reads

CONSTANTS
  Scans,        \* The scans that are asked.
  MaxDate       \* DateTime::from_timestamp_millis has no later one.

\* ScanQuery
ScanQueries ==
  [ns : Namespaces, branch : Branches, entity : Nat \cup {None}, attr : Nat \cup {None},
   retracted : BOOLEAN, asof : (0 .. Word - 1) \cup {None}, at : Nat \cup {None},
   limit : Nat \cup {None}, offset : Nat \cup {None}]

ASSUME ScansAssumption == Scans \subseteq ScanQueries

\* What a client writes is a DateTime.
ASSUME DatesAssumption ==
  MaxDate \in Nat /\ \A p \in Writes : p.to = Open \/ p.to <= MaxDate

\* A bulk goes to one branch, and no other call has its TxId.
ASSUME TxIdsAssumption ==
  \A p, q \in Writes \cup Retractions : p.tx = q.tx => p.ns = q.ns /\ p.branch = q.branch

-----------------------------------------------------------------------------
(* scan                                                                    *)

\* The clauses that are appended, each with the bind_idx of its placeholder: ?1 and ?2
\* are the namespace and the branch, and a clause without one leaves bind_idx as it is.
Clauses(q) ==
  LET clause(test, on, idx) == IF on THEN {[test |-> test, idx |-> idx]} ELSE {}
      after(idx, option) == IF option = None THEN idx ELSE idx + 1
      attr == after(3, q.entity)
      asof == after(attr, q.attr)
      at == after(asof, q.asof)
  IN  clause("entity", q.entity # None, 3) \cup clause("attr", q.attr # None, attr)
        \cup clause("live", ~q.retracted, 0)
        \cup clause("asof", q.asof # None, asof) \cup clause("at", q.at # None, at)

\* What an option adds to a list.
Given(option) == IF option = None THEN << >> ELSE <<option>>

\* Mutant of Binds: the times are pushed before the names.
BindsTimesFirst(q) ==
  <<q.ns, q.branch>> \o Given(q.asof) \o Given(q.at) \o Given(q.entity) \o Given(q.attr)

\* values, which the placeholders take by their index.
Binds(q) ==
  LET asof == IF q.asof = None THEN None ELSE AsI64(q.asof)
  IN  <<q.ns, q.branch>> \o Given(q.entity) \o Given(q.attr) \o Given(asof) \o Given(q.at)

\* One clause of a row, where v is the value its placeholder is bound to.
Holds(test, row, v) ==
  CASE test = "entity" -> row.key[1] = v
    [] test = "attr" -> row.key[2] = v
    [] test = "live" -> ~row.retracted
    [] test = "asof" -> row.ts <= v
    [] test = "at" -> row.from <= v /\ (row.to = Open \/ row.to > v)

Rows(q) ==
  {row \in facts :
     /\ row.ns = Binds(q)[1] /\ row.branch = Binds(q)[2]
     /\ \A c \in Clauses(q) :
          Holds(c.test, row, IF c.idx = 0 THEN None ELSE Binds(q)[c.idx])}

\* OFFSET stands alone where there is no LIMIT, and is then a syntax error.
SyntaxError(q) == q.limit = None /\ q.offset # None

\* ORDER BY ... DESC: every sequence SQL allows.
NewestFirst(S) ==
  {s \in SetToSeqs(S) : \A i, j \in DOMAIN s : i < j => s[i].ts >= s[j].ts}

\* row_to_fact: what is no date reads as the epoch.
RowToFact(row) ==
  IF row.to = Open \/ row.to <= MaxDate THEN row ELSE [row EXCEPT !.to = 0]

\* query_map
Read(rows) == [i \in DOMAIN rows |-> RowToFact(rows[i])]

\* The answers a scan may give.
SqlScan(q) == {Read(Page(s, Skip(q), q.limit)) : s \in NewestFirst(Rows(q))}

\* get_fact
GetFact(id) == {RowToFact(row) : row \in {row \in facts : row.id = id}}

-----------------------------------------------------------------------------
(* Listings                                                                *)

\* Mutant of SqlEntities: retracted facts are not left out.
SqlEntitiesEver(n, b) == {row.key[1] : row \in {r \in facts : r.ns = n /\ r.branch = b}}

\* SELECT DISTINCT entity ... and SELECT DISTINCT attr ...
SqlEntities(n, b) ==
  {row.key[1] : row \in {r \in facts : r.ns = n /\ r.branch = b /\ ~r.retracted}}

SqlAttrs(n, b, entity) ==
  {row.key[2] : row \in {r \in facts : r.ns = n /\ r.branch = b /\ r.key[1] = entity
                                                /\ ~r.retracted}}

\* list_tx
SqlTx(n, b, limit) ==
  {Page(s, 0, limit) : s \in NewestFirst({t \in transactions : t.ns = n /\ t.branch = b})}

-----------------------------------------------------------------------------
(* Properties                                                              *)

\* A read takes the mutex.
Readable == phase = "open" /\ job = NoJob

\* A time of validity asked of retracted facts: SQLite compares it with the raw timestamp.
EndsMixedUp(q) == q.retracted /\ q.at # None

\* A time that is negative once it is an i64.
TimeTurned(q) == q.asof # None /\ q.asof >= Word \div 2

\* In the order of the scan: the facts of MemoryStore, up to the end that SQLite
\* keeps of a retracted one.
SameRows(fs, rows) ==
  /\ Len(fs) = Len(rows)
  /\ \A i \in DOMAIN fs :
       rows[i] = IF fs[i].retracted THEN [fs[i] EXCEPT !.to = rows[i].to] ELSE fs[i]

\* Whatever conditions a scan combines, every placeholder is bound to the value of its
\* own clause: SQLite may answer what MemoryStore answers, and nothing else
\* unless two of the facts have one timestamp.  Excepted are scans that
\* SQLite rejects and those that compare the end of retracted facts; and a time
\* beyond the range of an i64 finds nothing
\* (sqlite.rs:392-470, memory.rs:194-220, conformance.rs:1-2).
ScanAgrees ==
  Readable => \A q \in Scans : ~SyntaxError(q) /\ ~EndsMixedUp(q) =>
    /\ IF TimeTurned(q) THEN SqlScan(q) = {<< >>}
       ELSE \E rows \in SqlScan(q) : SameRows(ScanOf(InMemory, q), rows)
    /\ (\A r, s \in Rows(q) : r.ts = s.ts => r = s) => Cardinality(SqlScan(q)) = 1

\* Whatever faults have left behind, reading is consistent: an entity and an attribute
\* are listed exactly when a scan for them finds a fact, get_fact gives every
\* fact that is not retracted as it was written, and a transaction that an
\* answer named is listed as long as one of its facts is stored
\* (sqlite.rs:1137-1197, 371-390, 792-840).
ListsAgree ==
  Readable => \A n \in Namespaces, b \in Branches :
    /\ \A k \in Keys :
         LET q == [ScanAll(n, b) EXCEPT !.entity = k[1]]
         IN  /\ k[1] \in SqlEntities(n, b) <=> SqlScan(q) # {<< >>}
             /\ k[2] \in SqlAttrs(n, b, k[1]) <=> SqlScan([q EXCEPT !.attr = k[2]]) # {<< >>}
    /\ \A f \in facts : ~f.retracted => GetFact(f.id) = {f}
    /\ \A a \in replies, txs \in SqlTx(n, b, None) :
         (\E f \in facts : f.id = a.fact /\ f.ns = n /\ f.branch = b)
           => \E i \in DOMAIN txs : txs[i].id = a.tx

-----------------------------------------------------------------------------
(* The inductive invariant                                                 *)

\* What reading rests on: identifiers tell facts apart, a live fact ends as it was
\* written, and what has one TxId is on one branch.
ReadsInv ==
  /\ IsFiniteSet(facts) /\ IsFiniteSet(transactions)
  /\ \A f, g \in facts : f.id = g.id => f = g
  /\ \A f \in facts : ~f.retracted => f.to = Open \/ f.to <= MaxDate
  /\ \A f \in facts : \E p \in Writes : p.tx = f.tx /\ p.ns = f.ns /\ p.branch = f.branch
  /\ \A t \in transactions : \E p \in Writes \cup Retractions :
       p.tx = t.id /\ p.ns = t.ns /\ p.branch = t.branch
=============================================================================
