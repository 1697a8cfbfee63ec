--------------------------------- MODULE PQL ---------------------------------
(***************************************************************************)
(* Queries of polo: the evaluator of src/pkg/polo-core/src/pql/eval.rs on  *)
(* the scan of MemoryStore, as the query handler calls them.               *)
(*                                                                         *)
(* The evaluator hands a part of the query to the store (the names that    *)
(* the filter fixes, the times, and sometimes LIMIT and OFFSET) and does   *)
(* the rest itself.  A query is the syntax tree that the parser builds; a  *)
(* key is a pair of an entity and an attribute, both numbers, so that they *)
(* have an order; which columns a row shows is left out.                   *)
(***************************************************************************)
EXTENDS Reads, PQLTree

CONSTANTS
  Exprs,        \* The expressions that filters are built from.
  Height,       \* How high the tree of an expression is.
  Queries,      \* The queries that are asked.
  Letters,      \* The letters of names and patterns.
  Spelling,     \* The letters of a name, for LIKE.
  Patterns      \* The patterns it is tried with.

\* A tree is finite, and its parts are expressions.
ASSUME ExprsAssumption ==
  /\ Height \in [Exprs -> Nat]
  /\ \A e \in Exprs :
       /\ e.op \in {"and", "or"} =>
            /\ {e.left, e.right} \subseteq Exprs
            /\ Height[e.left] < Height[e] /\ Height[e.right] < Height[e]
       /\ e.op = "not" => e.of \in Exprs /\ Height[e.of] < Height[e]

\* Query
AllQueries ==
  [filter : {<< >>} \cup {<<e>> : e \in Exprs},
   order_by : Seq([column : STRING, desc : BOOLEAN]), limit : Nat \cup {None},
   offset : Nat \cup {None}, asof : Nat \cup {None}, at : Nat \cup {None}]

ASSUME QueriesAssumption == Queries \subseteq AllQueries

\* A pattern is the sequence of the parts that % separates.
ASSUME LettersAssumption ==
  /\ \A k \in Keys : Spelling[k[1]] \in Seq(Letters)
  /\ Patterns \subseteq Seq(Seq(Letters)) \ {<< >>}

-----------------------------------------------------------------------------
(* eval_filter                                                             *)

\* col_to_lit: a set of at most one literal.  Times and identifiers have none, and
\* neither has a null value.
ColToLit(col, f) ==
  CASE col = "entity" -> {<<"str", f.key[1]>>}
    [] col = "attr" -> {<<"str", f.key[2]>>}
    [] col = "branch" -> {<<"str", f.branch>>}
    [] col = "namespace" -> {<<"str", f.ns>>}
    [] col = "value" -> IF f.value = "null" THEN {} ELSE {<<f.value, 0>>}
    [] OTHER -> {}

Resolve(e, f) ==
  CASE e.op = "column" -> ColToLit(e.name, f)
    [] e.op = "lit" -> {e.lit}
    [] OTHER -> {}

\* compare_lits: literals of one type have an order, and so have numbers.
Comparable(a, b) ==
  \/ a[1] = b[1] /\ a[1] # "null"
  \/ {a[1], b[1]} = {"int", "float"}

Related(rel, a, b) ==
  CASE rel = "eq" -> a = b
    [] rel = "ne" -> a # b
    [] rel = "lt" -> Comparable(a, b) /\ a[2] < b[2]
    [] rel = "le" -> Comparable(a, b) /\ a[2] <= b[2]
    [] rel = "gt" -> Comparable(a, b) /\ a[2] > b[2]
    [] rel = "ge" -> Comparable(a, b) /\ a[2] >= b[2]

\* col_str: what is no string is the empty one.
ColStr(col, f) ==
  LET strings == {a[2] : a \in {a \in ColToLit(col, f) : a[1] = "str"}}
  IN  IF strings = {} THEN << >> ELSE Spelling[CHOOSE name \in strings : TRUE]

\* part stands in s behind the first k letters.
Stands(s, part, k) ==
  k + Len(part) <= Len(s) /\ SubSeq(s, k + 1, k + Len(part)) = part

\* Mutant of Find: the last place counts.
FindLast(s, part, k) ==
  LET places == {m \in k .. Len(s) : Stands(s, part, m)}
  IN  IF places = {} THEN {} ELSE {Max(places) + Len(part)}

\* find: what is left of s begins behind the first place of part; no place, none.
Find(s, part, k) ==
  LET places == {m \in k .. Len(s) : Stands(s, part, m)}
  IN  IF places = {} THEN {} ELSE {Min(places) + Len(part)}

\* like_match: the first part at the start, each other one behind it, and the last
\* one at the end of what is left.
LikeMatch(s, parts) ==
  LET n == Len(parts)
      left[i \in 1 .. n - 1] ==
        IF i = 1 THEN {k \in {Len(parts[1])} : Stands(s, parts[1], 0)}
        ELSE UNION {Find(s, parts[i], k) : k \in left[i - 1]}
  IN  IF n = 1 THEN s = parts[1]
      ELSE \E k \in left[n - 1] :
             k + Len(parts[n]) <= Len(s) /\ Stands(s, parts[n], Len(s) - Len(parts[n]))

\* One expression, where holds tells the verdict on its parts.
Verdict(e, f, holds) ==
  \/ e.op = "and" /\ holds[e.left] /\ holds[e.right]
  \/ e.op = "or" /\ (holds[e.left] \/ holds[e.right])
  \/ e.op = "not" /\ ~holds[e.of]
  \/ e.op = "is_null" /\ e.of.op = "column" /\ ColToLit(e.of.name, f) = {}
  \/ e.op = "is_not_null" /\ (e.of.op # "column" \/ ColToLit(e.of.name, f) # {})
  \/ e.op = "like" /\ e.of.op = "column" /\ LikeMatch(ColStr(e.of.name, f), e.pattern)
  \/ e.op = "in" /\ e.of.op = "column" /\ ColToLit(e.of.name, f) \cap e.lits # {}
  \/ e.op = "compare"
       /\ \E a \in Resolve(e.left, f), b \in Resolve(e.right, f) : Related(e.rel, a, b)
  \/ e.op \in {"column", "lit"}

EvalFilter(e, f) ==
  LET holds[x \in Exprs] == Verdict(x, f, holds)
  IN  holds[e]

Passes(q, f) == q.filter = << >> \/ EvalFilter(q.filter[1], f)

-----------------------------------------------------------------------------
(* to_scan_query                                                           *)

Nothing == [col \in {"entity", "attr"} |-> None]

\* column = 'literal'
Named(e) ==
  IF /\ e.op = "compare" /\ e.rel = "eq" /\ e.left.op = "column" /\ e.right.op = "lit"
     /\ e.left.name \in DOMAIN Nothing /\ e.right.lit[1] = "str"
  THEN [Nothing EXCEPT ![e.left.name] = e.right.lit[2]] ELSE Nothing

\* What is met last counts.
Overlaid(first, last) ==
  [col \in DOMAIN Nothing |-> IF last[col] = None THEN first[col] ELSE last[col]]

\* Mutant of Extract: names are taken out of both sides of an OR as well.
ExtractThroughOr(e) ==
  LET names[x \in Exprs] ==
        IF x.op \in {"and", "or"} THEN Overlaid(names[x.left], names[x.right]) ELSE Named(x)
  IN  names[e]

\* extract_from_expr goes down conjunctions alone.
Extract(e) ==
  LET names[x \in Exprs] ==
        IF x.op = "and" THEN Overlaid(names[x.left], names[x.right]) ELSE Named(x)
  IN  names[e]

Names(q) == IF q.filter = << >> THEN Nothing ELSE Extract(q.filter[1])

\* With a filter LIMIT and OFFSET are left to the evaluator.
ScanQuery(n, b, q) ==
  LET all == [ScanAll(n, b) EXCEPT !.entity = Names(q)["entity"], !.attr = Names(q)["attr"],
                                   !.asof = q.asof, !.at = q.at]
  IN  IF q.filter = << >> THEN [all EXCEPT !.limit = q.limit, !.offset = q.offset]
                          ELSE all

\* Mutant of Fetch: AS OF is forgotten.
FetchNow(n, b, q) == Scan([ScanQuery(n, b, q) EXCEPT !.asof = None])

Fetch(n, b, q) == Scan(ScanQuery(n, b, q))

-----------------------------------------------------------------------------
(* eval                                                                    *)

\* compare_col: no other column has an order.
SortKey(col, f) ==
  CASE col = "valid_from" -> f.from
    [] col = "tx_time" -> f.ts
    [] col = "entity" -> f.key[1]
    [] col = "attr" -> f.key[2]
    [] OTHER -> 0

Precedes(by, f, g) ==
  IF by.desc THEN SortKey(by.column, f) > SortKey(by.column, g)
             ELSE SortKey(by.column, f) < SortKey(by.column, g)

\* sort_by is stable.
StableSort(rows, by) ==
  Taken(rows, Arrange(DOMAIN rows,
    {p \in (DOMAIN rows) \X (DOMAIN rows) :
       \/ Precedes(by, rows[p[1]], rows[p[2]])
       \/ ~Precedes(by, rows[p[2]], rows[p[1]]) /\ p[1] < p[2]}))

\* Mutant of Sort: the first column is sorted by first, and so counts last.
SortForward(rows, order_by) ==
  LET sorted[k \in 0 .. Len(order_by)] ==
        IF k = 0 THEN rows ELSE StableSort(sorted[k - 1], order_by[k])
  IN  sorted[Len(order_by)]

\* One stable sort for each column, the last column first.
Sort(rows, order_by) ==
  LET sorted[k \in 0 .. Len(order_by)] ==
        IF k = 0 THEN rows
        ELSE StableSort(sorted[k - 1], order_by[Len(order_by) + 1 - k])
  IN  sorted[Len(order_by)]

Eval(q, rows) ==
  LET sorted == Sort(Kept(rows, {i \in DOMAIN rows : Passes(q, rows[i])}), q.order_by)
  IN  IF q.filter = << >> THEN sorted ELSE Page(sorted, Skip(q), q.limit)

\* run_query
Answer(n, b, q) == Eval(q, Fetch(n, b, q))

-----------------------------------------------------------------------------
(* Properties                                                               *)

\* A % stands for any letters, none among them: the parts have places from the start
\* of s to its end, one behind the other.
Wildcard(s, parts) ==
  LET n == Len(parts)
  IN  \E at \in [1 .. n -> 0 .. Len(s)] :
        /\ at[1] = 0 /\ at[n] + Len(parts[n]) = Len(s)
        /\ \A i \in 2 .. n : at[i - 1] + Len(parts[i - 1]) <= at[i]
        /\ \A i \in 1 .. n : Stands(s, parts[i], at[i])

\* What a query asks for, with nothing handed to the store.
Wanted(n, b, q) ==
  {f \in facts : /\ f.ns = n /\ f.branch = b /\ ~f.retracted
                 /\ q.asof = None \/ f.ts <= q.asof
                 /\ q.at = None \/ ValidAt(f, q.at)
                 /\ Passes(q, f)}

\* The order of a query: by its columns, and newest first where they are equal.
Ahead(f, g, order_by) ==
  \E i \in DOMAIN order_by :
    /\ Precedes(order_by[i], f, g)
    /\ \A j \in 1 .. i - 1 : ~Precedes(order_by[j], f, g) /\ ~Precedes(order_by[j], g, f)

Ordered(S, order_by) ==
  Arrange(S, {p \in S \X S :
    \/ Ahead(p[1], p[2], order_by)
    \/ ~Ahead(p[2], p[1], order_by) /\ NewerThan(p[1], p[2])})

\* Where the order of a query is not that of the store and LIMIT goes to the store
\* all the same, the wrong rows are cut off (eval.rs:35-40).
CutTooEarly(q) ==
  q.filter = << >> /\ q.order_by # << >> /\ (q.limit # None \/ q.offset # None)

\* The names handed to the store lose no row of the answer, whatever the filter
\* negates, contradicts or leaves open (eval.rs:298-322).
NothingPushedAway ==
  \A n \in Namespaces, b \in Branches, q \in Queries :
    q.limit = None /\ q.offset = None => ToSet(Answer(n, b, q)) = Wanted(n, b, q)

\* Unless it is cut too early, the answer is the page of what was asked for in the
\* order asked for: sorting by one column after the other is sorting by
\* all of them, and no page is cut before the filter (eval.rs:42-66).
RowsAsAsked ==
  \A n \in Namespaces, b \in Branches, q \in Queries : ~CutTooEarly(q) =>
    Answer(n, b, q) = Page(Ordered(Wanted(n, b, q), q.order_by), Skip(q), q.limit)

\* LIKE matches the entities it should: looking for each part where it begins first
\* uses up nothing that a later part needs (eval.rs:254-276).
LikeIsWildcard ==
  \A f \in facts, parts \in Patterns :
    EvalFilter(Like(Column("entity"), parts), f) <=> Wildcard(Spelling[f.key[1]], parts)

WhereIs(col, name) ==
  [filter |-> <<Compare("eq", Column(col), Lit("str", name))>>, order_by |-> << >>,
   limit |-> None, offset |-> None, asof |-> None, at |-> None]

\* An entity is listed exactly when a query for it has an answer, and its attributes are
\* those that the answer shows (memory.rs:588-632).
ListedIsFound ==
  \A n \in Namespaces, b \in Branches :
    /\ ListEntities(n, b) = {k[1] : k \in {k \in Keys : Answer(n, b, WhereIs("entity", k[1])) # << >>}}
    /\ \A e \in ListEntities(n, b) :
         ListAttrs(n, b, e) = {f.key[2] : f \in ToSet(Answer(n, b, WhereIs("entity", e)))}

\* SELECT * ... WHERE attr = .. AND entity = .. AS OF .. LIMIT 1
KeyAsOf(k, ts) ==
  [filter |-> <<And(Compare("eq", Column("attr"), Lit("str", k[2])),
                    Compare("eq", Column("entity"), Lit("str", k[1])))>>,
   order_by |-> << >>, limit |-> 1, offset |-> None, asof |-> ts, at |-> None]

\* A query for one key as of a time, limited to one row, answers what Db::asof does
\* (eval.rs:22-46, db.rs:205-226).
AsofAgrees ==
  \A n \in Namespaces, b \in Branches, k \in Keys, ts \in {f.ts : f \in facts} :
    ToSet(Answer(n, b, KeyAsOf(k, ts))) = Asof(n, b, k, ts)

\* The filters that the properties ask for are expressions.
ASSUME AskedAssumption ==
  /\ \A k \in Keys : /\ WhereIs("entity", k[1]).filter[1] \in Exprs
                     /\ KeyAsOf(k, 0).filter[1] \in Exprs
  /\ \A parts \in Patterns : Like(Column("entity"), parts) \in Exprs
=============================================================================
