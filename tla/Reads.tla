-------------------------------- MODULE Reads --------------------------------
(***************************************************************************)
(* The calls of polo that only read, on MemoryStore: scan with all its     *)
(* conditions, and the listings of entities and attributes.  A key is a    *)
(* pair of an entity and an attribute, both numbers, so that they have an  *)
(* order.                                                                  *)
(***************************************************************************)
EXTENDS MemoryStore, Ordering

ASSUME KeysAssumption == Keys \subseteq Nat \X Nat

ASSUME NoneAssumption == None \notin Int

-----------------------------------------------------------------------------
(* scan                                                                    *)

\* ScanQuery with ..Default::default(): None leaves a condition out.
ScanAll(n, b) ==
  [ns |-> n, branch |-> b, entity |-> None, attr |-> None, retracted |-> FALSE,
   asof |-> None, at |-> None, limit |-> None, offset |-> None]

Matches(q, f) ==
  /\ f.ns = q.ns /\ f.branch = q.branch
  /\ q.entity = None \/ f.key[1] = q.entity
  /\ q.attr = None \/ f.key[2] = q.attr
  /\ q.retracted \/ ~f.retracted
  /\ q.asof = None \/ f.ts <= q.asof
  /\ q.at = None \/ ValidAt(f, q.at)

Skip(q) == IF q.offset = None THEN 0 ELSE q.offset

\* skip(offset).take(limit)
Page(rows, offset, limit) ==
  SubSeq(rows, offset + 1,
         IF limit = None \/ offset + limit > Len(rows) THEN Len(rows) ELSE offset + limit)

\* sort_by: newest first.
InOrder(S) == Arrange(S, {p \in S \X S : NewerThan(p[1], p[2])})

ScanOf(stored, q) ==
  Page(InOrder({f \in stored : Matches(q, f)}), Skip(q), q.limit)

Scan(q) == ScanOf(facts, q)

-----------------------------------------------------------------------------
(* Listings                                                                *)

\* Mutant of ListEntities: retracted facts are not left out.
ListEntitiesEver(n, b) == {f.key[1] : f \in {f \in facts : f.ns = n /\ f.branch = b}}

ListEntities(n, b) ==
  {f.key[1] : f \in {f \in facts : f.ns = n /\ f.branch = b /\ ~f.retracted}}

ListAttrs(n, b, entity) ==
  {f.key[2] : f \in {f \in facts : f.ns = n /\ f.branch = b /\ f.key[1] = entity
                                              /\ ~f.retracted}}
=============================================================================
