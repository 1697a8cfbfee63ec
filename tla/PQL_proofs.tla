----------------------------- MODULE PQL_proofs -----------------------------
(***************************************************************************)
(* Proofs about PQL: whatever part of a query is handed to the store, the  *)
(* answer is what the query asks for, in its order and cut to its page;    *)
(* queries, listings and reads of the past agree; and LIKE is a wildcard   *)
(* match.  The definitions that recur are unfolded once each, by the       *)
(* lemma Recursion.                                                        *)
(***************************************************************************)
EXTENDS PQL, Ledger_proofs, Reads_proofs

-----------------------------------------------------------------------------
(* Filters *)

\* A verdict on an expression is what its operator makes of those on its parts.
LEMMA FilterUnfolds ==
  ASSUME NEW f
  PROVE  \E holds \in [Exprs -> BOOLEAN] :
           \A e \in Exprs : holds[e] = EvalFilter(e, f) /\ holds[e] = Verdict(e, f, holds)
<1> DEFINE B == [e \in Exprs |-> [h \in [Exprs -> BOOLEAN] |-> Verdict(e, f, h)]]
<1>1. WellRanked(B, Exprs, BOOLEAN, Height)
  <2>1. \A e, h : Verdict(e, f, h) \in BOOLEAN
    BY DEF Verdict
  <2>2. B \in [Exprs -> [[Exprs -> BOOLEAN] -> BOOLEAN]]
    BY <2>1
  <2>3. ASSUME NEW e \in Exprs, NEW g \in [Exprs -> BOOLEAN], NEW h \in [Exprs -> BOOLEAN],
               \A x \in Exprs : Height[x] < Height[e] => g[x] = h[x]
        PROVE  Verdict(e, f, g) = Verdict(e, f, h)
    <3>1. e.op \in {"and", "or"} => g[e.left] = h[e.left] /\ g[e.right] = h[e.right]
      BY <2>3, ExprsAssumption
    <3>2. e.op = "not" => g[e.of] = h[e.of]
      BY <2>3, ExprsAssumption
    <3> QED BY <3>1, <3>2 DEF Verdict
  <2>4. \A e \in Exprs : \A h \in [Exprs -> BOOLEAN] : B[e][h] = Verdict(e, f, h)
    OBVIOUS
  <2> HIDE DEF B
  <2>5. ASSUME NEW e \in Exprs, NEW g \in [Exprs -> BOOLEAN], NEW h \in [Exprs -> BOOLEAN],
               \A x \in Exprs : Height[x] < Height[e] => g[x] = h[x]
        PROVE  B[e][g] = B[e][h]
    <3>1. Verdict(e, f, g) = Verdict(e, f, h)
      BY <2>3, <2>5
    <3> QED BY <2>4, <3>1
  <2>6. Height \in [Exprs -> Nat]
    BY ExprsAssumption
  <2> QED BY <2>2, <2>5, <2>6 DEF WellRanked
<1>2. \A e \in Exprs : \A h \in [Exprs -> BOOLEAN] : B[e][h] = Verdict(e, f, h)
  OBVIOUS
<1> HIDE DEF B
<1>3. \E g : g = [e \in Exprs |-> Verdict(e, f, g)]
  <2>1. PICK h \in [Exprs -> BOOLEAN] : \A e \in Exprs : h[e] = B[e][h]
    <3>1. BOOLEAN # {}
      OBVIOUS
    <3> QED BY <1>1, <3>1, Recursion
  <2>2. \A e \in Exprs : h[e] = Verdict(e, f, h)
    BY <1>2, <2>1
  <2>3. h = [e \in Exprs |-> Verdict(e, f, h)]
    BY <2>2
  <2> QED BY <2>3
<1> DEFINE F == CHOOSE g : g = [x \in Exprs |-> Verdict(x, f, g)]
<1>4. F = [e \in Exprs |-> Verdict(e, f, F)]
  BY <1>3
<1>5. \A e : EvalFilter(e, f) = F[e]
  BY DEF EvalFilter
<1> HIDE DEF F
<1>6. F \in [Exprs -> BOOLEAN]
  <2>1. \A e : Verdict(e, f, F) \in BOOLEAN
    BY DEF Verdict
  <2> QED BY <1>4, <2>1
<1> QED BY <1>4, <1>5, <1>6

LEMMA FilterAnd ==
  ASSUME NEW f, NEW e \in Exprs, e.op = "and"
  PROVE  EvalFilter(e, f) <=> EvalFilter(e.left, f) /\ EvalFilter(e.right, f)
<1>1. PICK holds \in [Exprs -> BOOLEAN] :
        \A x \in Exprs : holds[x] = EvalFilter(x, f) /\ holds[x] = Verdict(x, f, holds)
  BY FilterUnfolds
<1>2. e.left \in Exprs /\ e.right \in Exprs
  BY ExprsAssumption
<1>3. Verdict(e, f, holds) <=> holds[e.left] /\ holds[e.right]
  BY DEF Verdict
<1> QED BY <1>1, <1>2, <1>3

LEMMA FilterCompare ==
  ASSUME NEW f, NEW e \in Exprs, e.op = "compare"
  PROVE  EvalFilter(e, f) <=>
           \E a \in Resolve(e.left, f), b \in Resolve(e.right, f) : Related(e.rel, a, b)
<1>1. PICK holds \in [Exprs -> BOOLEAN] :
        \A x \in Exprs : holds[x] = EvalFilter(x, f) /\ holds[x] = Verdict(x, f, holds)
  BY FilterUnfolds
<1>2. Verdict(e, f, holds) <=>
        \E a \in Resolve(e.left, f), b \in Resolve(e.right, f) : Related(e.rel, a, b)
  BY DEF Verdict
<1> QED BY <1>1, <1>2

LEMMA FilterLike ==
  ASSUME NEW f, NEW e \in Exprs, e.op = "like", e.of.op = "column"
  PROVE  EvalFilter(e, f) <=> LikeMatch(ColStr(e.of.name, f), e.pattern)
<1>1. PICK holds \in [Exprs -> BOOLEAN] :
        \A x \in Exprs : holds[x] = EvalFilter(x, f) /\ holds[x] = Verdict(x, f, holds)
  BY FilterUnfolds
<1>2. Verdict(e, f, holds) <=> LikeMatch(ColStr(e.of.name, f), e.pattern)
  BY DEF Verdict
<1> QED BY <1>1, <1>2

LEMMA ColumnOf ==
  ASSUME NEW f
  PROVE  /\ ColToLit("entity", f) = {<<"str", f.key[1]>>}
         /\ ColToLit("attr", f) = {<<"str", f.key[2]>>}
BY DEF ColToLit

LEMMA EqualLits ==
  ASSUME NEW f, NEW e, e.left.op = "column", e.right.op = "lit", e.rel = "eq", e.op = "compare",
         \E a \in Resolve(e.left, f), b \in Resolve(e.right, f) : Related(e.rel, a, b)
  PROVE  e.right.lit \in ColToLit(e.left.name, f)
BY DEF Resolve, Related

-----------------------------------------------------------------------------
(* What is handed to the store *)

Cols == {"entity", "attr"}

\* The literals that Extract can find.
Found == {None} \cup {e.right.lit[2] : e \in Exprs}

LEMMA NamedType ==
  ASSUME NEW e \in Exprs
  PROVE  Named(e) \in [Cols -> Found]
<1>1. Nothing \in [Cols -> Found]
  BY DEF Nothing, Cols, Found
<1>2. e.right.lit[2] \in Found
  BY DEF Found
<1> HIDE DEF Found
<1>3. \A v \in Found, col \in Cols : [Nothing EXCEPT ![col] = v] \in [Cols -> Found]
  BY <1>1
<1>4. DOMAIN Nothing = Cols
  BY DEF Nothing, Cols
<1> QED BY <1>1, <1>2, <1>3, <1>4 DEF Named

\* What is found in an expression is what is found in the parts of a conjunction.
LEMMA ExtractUnfolds ==
  \A e \in Exprs :
    Extract(e) = IF e.op = "and" THEN Overlaid(Extract(e.left), Extract(e.right)) ELSE Named(e)
<1> DEFINE V == [Cols -> Found]
           body(e, g) == IF e.op = "and" THEN Overlaid(g[e.left], g[e.right]) ELSE Named(e)
           B == [e \in Exprs |-> [g \in [Exprs -> V] |-> body(e, g)]]
<1>0. DOMAIN Nothing = Cols
  BY DEF Nothing, Cols
<1>1. \A e \in Exprs : \A g \in [Exprs -> V] : body(e, g) \in V
  <2> SUFFICES ASSUME NEW e \in Exprs, NEW g \in [Exprs -> V]
               PROVE  body(e, g) \in V
    OBVIOUS
  <2>1. CASE e.op = "and"
    <3>1. g[e.left] \in V /\ g[e.right] \in V
      <4>1. e.left \in Exprs /\ e.right \in Exprs
        BY <2>1, ExprsAssumption
      <4> HIDE DEF V
      <4> QED BY <4>1
    <3>2. Overlaid(g[e.left], g[e.right]) \in V
      BY <1>0, <3>1 DEF Overlaid
    <3> QED BY <2>1, <3>2
  <2>2. CASE e.op # "and"
    BY <2>2, NamedType
  <2> QED BY <2>1, <2>2
<1>2. WellRanked(B, Exprs, V, Height)
  <2> HIDE DEF V
  <2>1. B \in [Exprs -> [[Exprs -> V] -> V]]
    <3> HIDE DEF body
    <3> QED BY <1>1
  <2>2. ASSUME NEW e \in Exprs, NEW g \in [Exprs -> V], NEW h \in [Exprs -> V],
               \A x \in Exprs : Height[x] < Height[e] => g[x] = h[x]
        PROVE  B[e][g] = B[e][h]
    <3>1. e.op = "and" => g[e.left] = h[e.left] /\ g[e.right] = h[e.right]
      BY <2>2, ExprsAssumption
    <3>2. body(e, g) = body(e, h)
      BY <3>1
    <3> HIDE DEF body
    <3> QED BY <3>2
  <2>3. Height \in [Exprs -> Nat]
    BY ExprsAssumption
  <2> HIDE DEF B
  <2> QED BY <2>1, <2>2, <2>3 DEF WellRanked
<1>3. \E g : g = [e \in Exprs |-> body(e, g)]
  <2>1. V # {}
    <3>1. [col \in Cols |-> None] \in V
      BY DEF Found
    <3> QED BY <3>1
  <2> HIDE DEF V, body
  <2>2. \A e \in Exprs : \A g \in [Exprs -> V] : B[e][g] = body(e, g)
    OBVIOUS
  <2> HIDE DEF B
  <2>3. PICK g \in [Exprs -> V] : \A e \in Exprs : g[e] = B[e][g]
    BY <1>2, <2>1, Recursion
  <2>4. \A e \in Exprs : g[e] = body(e, g)
    BY <2>2, <2>3
  <2>5. g = [e \in Exprs |-> body(e, g)]
    BY <2>4
  <2> QED BY <2>5
<1> HIDE DEF V, B
<1> DEFINE F == CHOOSE g : g = [x \in Exprs |-> body(x, g)]
<1>4. F = [e \in Exprs |-> body(e, F)]
  <2> HIDE DEF body
  <2> QED BY <1>3
<1>5. \A e : Extract(e) = F[e]
  BY DEF Extract
<1> HIDE DEF F
<1> QED BY <1>4, <1>5

\* The entity or the attribute of a fact.
NameOf(f, col) == IF col = "entity" THEN f.key[1] ELSE f.key[2]

LEMMA NamedHolds ==
  ASSUME NEW f, NEW e \in Exprs, EvalFilter(e, f), NEW col \in Cols, Named(e)[col] # None
  PROVE  Named(e)[col] = NameOf(f, col)
<1>1. /\ e.op = "compare" /\ e.rel = "eq" /\ e.left.op = "column" /\ e.right.op = "lit"
      /\ e.left.name \in Cols
      /\ Named(e) = [Nothing EXCEPT ![e.left.name] = e.right.lit[2]]
  BY DEF Named, Nothing, Cols
<1>2. col = e.left.name /\ Named(e)[col] = e.right.lit[2]
  BY <1>1 DEF Nothing, Cols
<1>3. e.right.lit \in ColToLit(col, f)
  BY <1>1, <1>2, FilterCompare, EqualLits
<1>4. e.right.lit = <<"str", NameOf(f, col)>>
  BY <1>3, ColumnOf DEF NameOf, Cols
<1> QED BY <1>2, <1>4

\* A fact that passes a filter has the names that are taken out of it.
LEMMA PushedHolds ==
  ASSUME NEW f, NEW e \in Exprs, EvalFilter(e, f), NEW col \in Cols, Extract(e)[col] # None
  PROVE  Extract(e)[col] = NameOf(f, col)
<1> DEFINE T == {x \in Exprs : EvalFilter(x, f) /\ Extract(x)[col] # None
                                 => Extract(x)[col] = NameOf(f, col)}
<1>1. ASSUME NEW x \in Exprs, \A y \in Exprs : Height[y] < Height[x] => y \in T
      PROVE  x \in T
  <2> SUFFICES ASSUME EvalFilter(x, f), Extract(x)[col] # None
               PROVE  Extract(x)[col] = NameOf(f, col)
    OBVIOUS
  <2>1. CASE x.op = "and"
    <3>1. x.left \in T /\ x.right \in T
      BY <1>1, <2>1, ExprsAssumption
    <3>2. EvalFilter(x.left, f) /\ EvalFilter(x.right, f)
      BY <2>1, FilterAnd
    <3>3. Extract(x) = Overlaid(Extract(x.left), Extract(x.right))
      BY <2>1, ExtractUnfolds
    <3>4. Extract(x)[col] = IF Extract(x.right)[col] = None THEN Extract(x.left)[col]
                                                          ELSE Extract(x.right)[col]
      BY <3>3 DEF Overlaid, Nothing, Cols
    <3> QED BY <3>1, <3>2, <3>4
  <2>2. CASE x.op # "and"
    <3>1. Extract(x) = Named(x)
      BY <2>2, ExtractUnfolds
    <3> QED BY <3>1, NamedHolds
  <2> QED BY <2>1, <2>2
<1>2. Height \in [Exprs -> Nat]
  BY ExprsAssumption
<1>3. Exprs \subseteq T
  <2> HIDE DEF T
  <2> QED BY <1>1, <1>2, AllByRank
<1> QED BY <1>3

\* What the evaluator asks the store for.
Scanned(sq, n, b, q) ==
  /\ sq.ns = n /\ sq.branch = b /\ sq.entity = Names(q)["entity"]
  /\ sq.attr = Names(q)["attr"] /\ sq.retracted = FALSE
  /\ sq.asof = q.asof /\ sq.at = q.at
  /\ q.filter = << >> => sq.limit = q.limit /\ sq.offset = q.offset
  /\ q.filter # << >> => sq.limit = None /\ sq.offset = None

LEMMA ScanFields == \A n, b, q : Scanned(ScanQuery(n, b, q), n, b, q)
<1> SUFFICES ASSUME NEW n, NEW b, NEW q, NEW sq, sq = ScanQuery(n, b, q)
             PROVE  Scanned(sq, n, b, q)
  OBVIOUS
<1> DEFINE base == ScanAll(n, b)
           all == [base EXCEPT !.entity = Names(q)["entity"], !.attr = Names(q)["attr"],
                               !.asof = q.asof, !.at = q.at]
<1>1. /\ base = [ns |-> n, branch |-> b, entity |-> None, attr |-> None, retracted |-> FALSE,
                 asof |-> None, at |-> None, limit |-> None, offset |-> None]
  BY DEF ScanAll
<1> HIDE DEF base
<1>2. /\ all.ns = n /\ all.branch = b /\ all.entity = Names(q)["entity"]
      /\ all.attr = Names(q)["attr"] /\ all.retracted = FALSE /\ all.asof = q.asof
      /\ all.at = q.at /\ all.limit = None /\ all.offset = None
      /\ DOMAIN all = {"ns", "branch", "entity", "attr", "retracted", "asof", "at", "limit",
                       "offset"}
  BY <1>1
<1>3. sq = IF q.filter = << >> THEN [all EXCEPT !.limit = q.limit, !.offset = q.offset]
                               ELSE all
  BY DEF ScanQuery, base
<1> HIDE DEF all
<1> QED BY <1>2, <1>3 DEF Scanned

\* What the store finds and the filter lets through is what the query asks for.
LEMMA WantedFound ==
  ASSUME NEW n, NEW b, NEW q \in AllQueries
  PROVE  /\ {f \in facts : Matches(ScanQuery(n, b, q), f) /\ Passes(q, f)} = Wanted(n, b, q)
         /\ q.filter = << >> =>
              {f \in facts : Matches(ScanQuery(n, b, q), f)} = Wanted(n, b, q)
<1> DEFINE sq == ScanQuery(n, b, q)
<1>0. sq = ScanQuery(n, b, q)
  OBVIOUS
<1> HIDE DEF sq
<1>1. /\ sq.ns = n /\ sq.branch = b /\ sq.entity = Names(q)["entity"]
      /\ sq.attr = Names(q)["attr"] /\ sq.retracted = FALSE
      /\ sq.asof = q.asof /\ sq.at = q.at
  BY <1>0, ScanFields DEF Scanned
<1>2. ASSUME NEW f \in facts, Passes(q, f)
      PROVE  /\ sq.entity = None \/ f.key[1] = sq.entity
             /\ sq.attr = None \/ f.key[2] = sq.attr
  <2>1. CASE q.filter = << >>
    BY <1>1, <2>1 DEF Names, Nothing
  <2>2. CASE q.filter # << >>
    <3>1. q.filter[1] \in Exprs
      <4>1. PICK e \in Exprs : q.filter = <<e>>
        BY <2>2 DEF AllQueries
      <4> QED BY <4>1
    <3>2. EvalFilter(q.filter[1], f) /\ Names(q) = Extract(q.filter[1])
      BY <1>2, <2>2 DEF Passes, Names
    <3>3. \A col \in Cols : Names(q)[col] # None => Names(q)[col] = NameOf(f, col)
      BY <3>1, <3>2, PushedHolds
    <3> QED BY <1>1, <3>3 DEF Cols, NameOf
  <2> QED BY <2>1, <2>2
<1>3. \A f \in facts : Matches(sq, f) /\ Passes(q, f) <=>
        /\ f.ns = n /\ f.branch = b /\ ~f.retracted
        /\ q.asof = None \/ f.ts <= q.asof
        /\ q.at = None \/ ValidAt(f, q.at)
        /\ Passes(q, f)
  BY <1>1, <1>2 DEF Matches
<1>4. q.filter = << >> => \A f : Passes(q, f)
  BY DEF Passes
<1> QED BY <1>0, <1>3, <1>4 DEF Wanted

-----------------------------------------------------------------------------
(* Sorting by columns *)

\* The columns of the rows have an order.
Keyed(S, order_by) ==
  \A j \in DOMAIN order_by : \A f \in S : SortKey(order_by[j].column, f) \in Int

\* By one column first, and where it is equal in the order Q.
FirstBy(by, Q, S) ==
  {p \in S \X S : \/ Precedes(by, p[1], p[2])
                  \/ ~Precedes(by, p[2], p[1]) /\ <<p[1], p[2]>> \in Q}

LEMMA FirstByLinear ==
  ASSUME NEW S, NEW Q, Linear(Q, S), NEW by, \A f \in S : SortKey(by.column, f) \in Int
  PROVE  Linear(FirstBy(by, Q, S), S)
<1> DEFINE R == FirstBy(by, Q, S)
<1>1. \A f, g \in S : <<f, g>> \in R <=>
        Precedes(by, f, g) \/ (~Precedes(by, g, f) /\ <<f, g>> \in Q)
  BY DEF FirstBy
<1>2. /\ \A f \in S : ~Precedes(by, f, f)
      /\ \A f, g \in S : ~(Precedes(by, f, g) /\ Precedes(by, g, f))
      /\ \A f, g, h \in S : Precedes(by, f, h) => Precedes(by, f, g) \/ Precedes(by, g, h)
  BY DEF Precedes
<1> HIDE DEF R
<1>3. \A f \in S : <<f, f>> \notin R
  BY <1>1, <1>2 DEF Linear
<1>4. \A f, g \in S : f # g => <<f, g>> \in R \/ <<g, f>> \in R
  BY <1>1, <1>2 DEF Linear
<1>5. \A f, g, h \in S : <<f, g>> \in R /\ <<g, h>> \in R => <<f, h>> \in R
  <2> SUFFICES ASSUME NEW f \in S, NEW g \in S, NEW h \in S, <<f, g>> \in R, <<g, h>> \in R
               PROVE  <<f, h>> \in R
    OBVIOUS
  <2>1. ~Precedes(by, g, f) /\ ~Precedes(by, h, g)
    BY <1>1, <1>2
  <2>2. ~Precedes(by, h, f)
    BY <1>2, <2>1
  <2>3. CASE Precedes(by, f, g) \/ Precedes(by, g, h)
    <3>1. Precedes(by, f, h)
      BY <1>2, <2>1, <2>3
    <3> QED BY <1>1, <3>1
  <2>4. CASE <<f, g>> \in Q /\ <<g, h>> \in Q
    <3>1. <<f, h>> \in Q
      BY <2>4 DEF Linear
    <3> QED BY <1>1, <2>2, <3>1
  <2> QED BY <1>1, <2>3, <2>4
<1>6. Linear(R, S)
  BY <1>3, <1>4, <1>5 DEF Linear
<1> QED BY <1>6 DEF R

\* The places of rows in the order of one column.
PlacesBy(rows, by) ==
  {p \in (DOMAIN rows) \X (DOMAIN rows) :
     \/ Precedes(by, rows[p[1]], rows[p[2]])
     \/ ~Precedes(by, rows[p[2]], rows[p[1]]) /\ p[1] < p[2]}

LEMMA PlacesByLinear ==
  ASSUME NEW n \in Nat, NEW S, NEW rows \in [1 .. n -> S], NEW by,
         \A f \in S : SortKey(by.column, f) \in Int
  PROVE  Linear(PlacesBy(rows, by), 1 .. n)
<1> DEFINE I == 1 .. n
           R == PlacesBy(rows, by)
           before(i, j) == Precedes(by, rows[i], rows[j])
<1>1. \A i, j \in I : <<i, j>> \in R <=> before(i, j) \/ (~before(j, i) /\ i < j)
  BY DEF PlacesBy
<1>2. /\ \A i \in I : ~before(i, i)
      /\ \A i, j \in I : ~(before(i, j) /\ before(j, i))
      /\ \A i, j, k \in I : before(i, k) => before(i, j) \/ before(j, k)
  <2>1. \A i \in I : SortKey(by.column, rows[i]) \in Int
    OBVIOUS
  <2> QED BY <2>1 DEF Precedes
<1>3. IsFiniteSet(I) /\ \A i \in I : i \in Int
  BY FS_Interval
<1> HIDE DEF R, I, before
<1>4. \A i \in I : <<i, i>> \notin R
  BY <1>1, <1>2, <1>3
<1>5. \A i, j \in I : i # j => <<i, j>> \in R \/ <<j, i>> \in R
  BY <1>1, <1>2, <1>3
<1>6. \A i, j, k \in I : <<i, j>> \in R /\ <<j, k>> \in R => <<i, k>> \in R
  <2> SUFFICES ASSUME NEW i \in I, NEW j \in I, NEW k \in I, <<i, j>> \in R, <<j, k>> \in R
               PROVE  <<i, k>> \in R
    OBVIOUS
  <2>1. ~before(j, i) /\ ~before(k, j)
    BY <1>1, <1>2
  <2>2. ~before(k, i)
    BY <1>2, <2>1
  <2>3. CASE before(i, j) \/ before(j, k)
    <3>1. before(i, k)
      BY <1>2, <2>1, <2>3
    <3> QED BY <1>1, <3>1
  <2>4. CASE i < j /\ j < k
    <3>1. i < k
      BY <1>3, <2>4
    <3> QED BY <1>1, <2>2, <3>1
  <2> QED BY <1>1, <2>3, <2>4
<1>7. Linear(R, I)
  BY <1>3, <1>4, <1>5, <1>6 DEF Linear
<1> QED BY <1>7 DEF R, I

LEMMA StableSortType ==
  ASSUME NEW n \in Nat, NEW S, NEW rows \in [1 .. n -> S], NEW by,
         \A f \in S : SortKey(by.column, f) \in Int
  PROVE  StableSort(rows, by) \in [1 .. n -> S]
<1> DEFINE I == 1 .. n
           order == Arrange(I, PlacesBy(rows, by))
<1>1. DOMAIN rows = I
  OBVIOUS
<1>2. StableSort(rows, by) = Taken(rows, order)
  BY <1>1 DEF StableSort, PlacesBy
<1>3. Sorts(order, I, PlacesBy(rows, by))
  BY PlacesByLinear, ArrangeSorts
<1>4. Cardinality(I) = n
  BY FS_Interval
<1> HIDE DEF order
<1>5. order \in [1 .. n -> I]
  BY <1>3, <1>4 DEF Sorts
<1> QED BY <1>2, <1>5 DEF Taken

\* A stable sort of sorted rows sorts them by its column first.
LEMMA StableSortSorts ==
  ASSUME NEW S, NEW Q, Linear(Q, S), NEW rows, Sorts(rows, S, Q), NEW by,
         \A f \in S : SortKey(by.column, f) \in Int
  PROVE  Sorts(StableSort(rows, by), S, FirstBy(by, Q, S))
<1> DEFINE n == Cardinality(S)
           I == 1 .. n
           P == PlacesBy(rows, by)
<1>1. n \in Nat /\ rows \in [1 .. n -> S] /\ DOMAIN rows = I
  BY SortedSeq
<1>2. Linear(P, I)
  BY <1>1, PlacesByLinear
<1>3. \A i, j \in I : rows[i] = rows[j] => i = j
  BY SortedOnce
<1>4. /\ \A i \in I : rows[i] \in S
      /\ \A x \in S : \E i \in I : rows[i] = x
      /\ \A i, j \in I : i < j => <<rows[i], rows[j]>> \in Q
  BY DEF Sorts
<1>5. \A i, j \in I : <<i, j>> \in P => <<rows[i], rows[j]>> \in FirstBy(by, Q, S)
  BY <1>1, <1>4 DEF PlacesBy, FirstBy
<1>6. StableSort(rows, by) = Taken(rows, Arrange(I, P))
  BY <1>1 DEF StableSort, PlacesBy
<1> HIDE DEF I, P
<1> QED BY <1>2, <1>3, <1>4, <1>5, <1>6, TakenSorts

\* g has the rows after each of the sorts.
SortSteps(g, rows, order_by) ==
  /\ g[0] = rows
  /\ \A k \in 1 .. Len(order_by) :
       g[k] = StableSort(g[k - 1], order_by[Len(order_by) + 1 - k])
  /\ Sort(rows, order_by) = g[Len(order_by)]

\* Sorting by columns is sorting by one after the other, from the last to the first.
LEMMA SortUnfolds ==
  ASSUME NEW n \in Nat, NEW S, NEW rows \in [1 .. n -> S], NEW order_by,
         Len(order_by) \in Nat, DOMAIN order_by = 1 .. Len(order_by), Keyed(S, order_by)
  PROVE  \E g : SortSteps(g, rows, order_by)
<1> DEFINE L == Len(order_by)
           X == 0 .. L
           V == [1 .. n -> S]
           body(k, h) == IF k = 0 THEN rows ELSE StableSort(h[k - 1], order_by[L + 1 - k])
           B == [k \in X |-> [h \in [X -> V] |-> body(k, h)]]
           rank == [k \in X |-> k]
<1>1. \A k \in X : \A h \in [X -> V] : body(k, h) \in V
  <2> SUFFICES ASSUME NEW k \in X, NEW h \in [X -> V], k # 0
               PROVE  StableSort(h[k - 1], order_by[L + 1 - k]) \in V
    OBVIOUS
  <2>1. k - 1 \in X /\ L + 1 - k \in DOMAIN order_by
    OBVIOUS
  <2>2. \A f \in S : SortKey(order_by[L + 1 - k].column, f) \in Int
    BY <2>1 DEF Keyed
  <2>3. h[k - 1] \in [1 .. n -> S]
    BY <2>1
  <2> QED BY <2>2, <2>3, StableSortType
<1>2. WellRanked(B, X, V, rank)
  <2>1. rank \in [X -> Nat]
    OBVIOUS
  <2>2. ASSUME NEW k \in X, NEW g \in [X -> V], NEW h \in [X -> V],
               \A j \in X : rank[j] < rank[k] => g[j] = h[j]
        PROVE  body(k, g) = body(k, h)
    <3>1. k # 0 => g[k - 1] = h[k - 1]
      BY <2>2
    <3> QED BY <3>1
  <2> HIDE DEF V, X, body, rank
  <2>3. B \in [X -> [[X -> V] -> V]]
    BY <1>1
  <2>4. \A k \in X : \A h \in [X -> V] : B[k][h] = body(k, h)
    OBVIOUS
  <2> HIDE DEF B
  <2>5. ASSUME NEW k \in X, NEW g \in [X -> V], NEW h \in [X -> V],
               \A j \in X : rank[j] < rank[k] => g[j] = h[j]
        PROVE  B[k][g] = B[k][h]
    <3>1. body(k, g) = body(k, h)
      BY <2>2, <2>5
    <3> QED BY <2>4, <3>1
  <2> QED BY <2>1, <2>3, <2>5 DEF WellRanked
<1>3. V # {}
  OBVIOUS
<1>4. \E g : g = [k \in X |-> body(k, g)]
  <2> HIDE DEF V, X, body, rank
  <2>1. \A k \in X : \A h \in [X -> V] : B[k][h] = body(k, h)
    OBVIOUS
  <2> HIDE DEF B
  <2>2. PICK g \in [X -> V] : \A k \in X : g[k] = B[k][g]
    BY <1>2, <1>3, Recursion
  <2>3. g = [k \in X |-> body(k, g)]
    BY <2>1, <2>2
  <2> QED BY <2>3
<1> DEFINE F == CHOOSE g : g = [k \in X |-> body(k, g)]
<1>5. F = [k \in X |-> body(k, F)]
  <2> HIDE DEF V, X, body
  <2> QED BY <1>4
<1>6. Sort(rows, order_by) = F[L]
  BY DEF Sort
<1> HIDE DEF F, V, B
<1>7. \A k \in X : F[k] = body(k, F)
  <2> HIDE DEF body, X
  <2> QED BY <1>5
<1>8. SortSteps(F, rows, order_by)
  BY <1>6, <1>7 DEF SortSteps
<1> QED BY <1>8

\* The order by the columns from the j-th on.
AheadFrom(f, g, order_by, j) ==
  \E i \in j .. Len(order_by) :
    /\ Precedes(order_by[i], f, g)
    /\ \A m \in j .. i - 1 : ~Precedes(order_by[m], f, g) /\ ~Precedes(order_by[m], g, f)

OrderFrom(S, order_by, j) ==
  {p \in S \X S :
     \/ AheadFrom(p[1], p[2], order_by, j)
     \/ ~AheadFrom(p[2], p[1], order_by, j) /\ NewerThan(p[1], p[2])}

LEMMA AheadNext ==
  ASSUME NEW f, NEW g, NEW order_by, Len(order_by) \in Nat, NEW j \in 1 .. Len(order_by),
         ~(Precedes(order_by[j], f, g) /\ Precedes(order_by[j], g, f))
  PROVE  AheadFrom(f, g, order_by, j) <=>
           \/ Precedes(order_by[j], f, g)
           \/ /\ ~Precedes(order_by[j], f, g) /\ ~Precedes(order_by[j], g, f)
              /\ AheadFrom(f, g, order_by, j + 1)
<1> DEFINE before(i) == Precedes(order_by[i], f, g)
           behind(i) == Precedes(order_by[i], g, f)
           L == Len(order_by)
<1>1. \A k : AheadFrom(f, g, order_by, k) <=>
        \E i \in k .. L : before(i) /\ \A m \in k .. i - 1 : ~before(m) /\ ~behind(m)
  BY DEF AheadFrom
<1>2. ~(before(j) /\ behind(j)) /\ L \in Nat /\ j \in 1 .. L
  OBVIOUS
<1> HIDE DEF before, behind, L
<1>3. ASSUME before(j)
      PROVE  \E i \in j .. L : before(i) /\ \A m \in j .. i - 1 : ~before(m) /\ ~behind(m)
  <2>1. j \in j .. L /\ j .. j - 1 = {}
    BY <1>2
  <2> QED BY <1>3, <2>1
<1>4. ASSUME ~before(j), ~behind(j), NEW i \in j + 1 .. L, before(i),
             \A m \in j + 1 .. i - 1 : ~before(m) /\ ~behind(m)
      PROVE  \E l \in j .. L : before(l) /\ \A m \in j .. l - 1 : ~before(m) /\ ~behind(m)
  <2>1. i \in j .. L /\ \A m \in j .. i - 1 : m = j \/ m \in j + 1 .. i - 1
    BY <1>2
  <2> QED BY <1>4, <2>1
<1>5. ASSUME ~before(j), NEW i \in j .. L, before(i),
             \A m \in j .. i - 1 : ~before(m) /\ ~behind(m)
      PROVE  /\ ~behind(j) /\ i \in j + 1 .. L
             /\ \A m \in j + 1 .. i - 1 : ~before(m) /\ ~behind(m)
  <2>1. i # j
    BY <1>5
  <2>2. i \in j + 1 .. L /\ j \in j .. i - 1 /\ \A m \in j + 1 .. i - 1 : m \in j .. i - 1
    BY <1>2, <2>1
  <2> QED BY <1>5, <2>2
<1> QED BY <1>1, <1>2, <1>3, <1>4, <1>5 DEF before, behind

LEMMA SamePairs ==
  ASSUME NEW S, NEW P, NEW Q, P \subseteq S \X S, Q \subseteq S \X S,
         \A x, y \in S : <<x, y>> \in P <=> <<x, y>> \in Q
  PROVE  P = Q
<1>1. \A p \in S \X S : p = <<p[1], p[2]>> /\ p[1] \in S /\ p[2] \in S
  OBVIOUS
<1>2. \A p \in S \X S : p \in P <=> p \in Q
  BY <1>1
<1> QED BY <1>2

LEMMA OrderNext ==
  ASSUME NEW S, NEW order_by, Len(order_by) \in Nat, NEW j \in 1 .. Len(order_by),
         \A f \in S : SortKey(order_by[j].column, f) \in Int
  PROVE  OrderFrom(S, order_by, j) = FirstBy(order_by[j], OrderFrom(S, order_by, j + 1), S)
<1>1. \A f, g \in S : ~(Precedes(order_by[j], f, g) /\ Precedes(order_by[j], g, f))
  BY DEF Precedes
<1>2. \A f, g \in S : AheadFrom(f, g, order_by, j) <=>
        \/ Precedes(order_by[j], f, g)
        \/ /\ ~Precedes(order_by[j], f, g) /\ ~Precedes(order_by[j], g, f)
           /\ AheadFrom(f, g, order_by, j + 1)
  BY <1>1, AheadNext
<1>3. \A f, g \in S : <<f, g>> \in OrderFrom(S, order_by, j) <=>
        \/ AheadFrom(f, g, order_by, j)
        \/ ~AheadFrom(g, f, order_by, j) /\ NewerThan(f, g)
  BY DEF OrderFrom
<1>4. \A f, g \in S : <<f, g>> \in OrderFrom(S, order_by, j + 1) <=>
        \/ AheadFrom(f, g, order_by, j + 1)
        \/ ~AheadFrom(g, f, order_by, j + 1) /\ NewerThan(f, g)
  BY DEF OrderFrom
<1>5. \A f, g \in S :
        <<f, g>> \in FirstBy(order_by[j], OrderFrom(S, order_by, j + 1), S) <=>
          \/ Precedes(order_by[j], f, g)
          \/ /\ ~Precedes(order_by[j], g, f)
             /\ <<f, g>> \in OrderFrom(S, order_by, j + 1)
  BY DEF FirstBy
<1>6. \A f, g \in S : <<f, g>> \in OrderFrom(S, order_by, j) <=>
        <<f, g>> \in FirstBy(order_by[j], OrderFrom(S, order_by, j + 1), S)
  BY <1>1, <1>2, <1>3, <1>4, <1>5
<1>7. /\ OrderFrom(S, order_by, j) \subseteq S \X S
      /\ FirstBy(order_by[j], OrderFrom(S, order_by, j + 1), S) \subseteq S \X S
  BY DEF OrderFrom, FirstBy
<1> DEFINE P == OrderFrom(S, order_by, j)
           Q == FirstBy(order_by[j], OrderFrom(S, order_by, j + 1), S)
<1>8. /\ P \subseteq S \X S /\ Q \subseteq S \X S
      /\ \A x, y \in S : <<x, y>> \in P <=> <<x, y>> \in Q
  BY <1>6, <1>7
<1> HIDE DEF P, Q
<1>9. P = Q
  BY <1>8, SamePairs
<1> QED BY <1>9 DEF P, Q

\* One stable sort for each column, the last one first, sorts by all of them: by the
\* first, where it is equal by the second, and in the end newest first.
LEMMA SortIsOrdered ==
  ASSUME NEW S, Sortable(S), NEW rows, Sorts(rows, S, Newer(S)), NEW order_by,
         Len(order_by) \in Nat, DOMAIN order_by = 1 .. Len(order_by), Keyed(S, order_by)
  PROVE  /\ Sort(rows, order_by) = Ordered(S, order_by)
         /\ Ordered(S, order_by) \in Seq(S) /\ ToSet(Ordered(S, order_by)) = S
<1> DEFINE L == Len(order_by)
           n == Cardinality(S)
           O(j) == OrderFrom(S, order_by, j)
           X == 0 .. L
           rank == [k \in X |-> k]
<1>1. n \in Nat /\ rows \in [1 .. n -> S] /\ Linear(Newer(S), S)
  BY NewestRows, NewerLinear
<1> HIDE DEF n
<1>0. PICK g : SortSteps(g, rows, order_by)
  BY <1>1, SortUnfolds
<1>2. /\ g[0] = rows
      /\ \A k \in 1 .. L : g[k] = StableSort(g[k - 1], order_by[L + 1 - k])
      /\ Sort(rows, order_by) = g[L]
  BY <1>0 DEF SortSteps
<1>3. O(L + 1) = Newer(S)
  <2>1. L + 1 .. L = {}
    OBVIOUS
  <2>2. \A f, h : ~AheadFrom(f, h, order_by, L + 1)
    BY <2>1 DEF AheadFrom
  <2> QED BY <2>2 DEF OrderFrom, Newer
<1>4. \A j \in 1 .. L : /\ \A f \in S : SortKey(order_by[j].column, f) \in Int
                        /\ O(j) = FirstBy(order_by[j], O(j + 1), S)
  BY OrderNext DEF Keyed
<1>5. Ordered(S, order_by) = Arrange(S, O(1))
  BY DEF Ordered, OrderFrom, Ahead, AheadFrom
<1> HIDE DEF O
<1> DEFINE T == {k \in X : Linear(O(L + 1 - k), S) /\ Sorts(g[k], S, O(L + 1 - k))}
<1>6. 0 \in T
  <2>1. L + 1 - 0 = L + 1 /\ 0 \in X
    OBVIOUS
  <2> QED BY <1>1, <1>2, <1>3, <2>1
<1>7. ASSUME NEW k \in 1 .. L, k - 1 \in T
      PROVE  k \in T
  <2> DEFINE j == L + 1 - k
  <2>1. j \in 1 .. L /\ L + 1 - (k - 1) = j + 1 /\ k \in X
    OBVIOUS
  <2>2. Linear(O(j + 1), S) /\ Sorts(g[k - 1], S, O(j + 1))
    BY <1>7, <2>1
  <2>3. g[k] = StableSort(g[k - 1], order_by[j])
    BY <1>2
  <2> HIDE DEF j
  <2>4. Linear(O(j), S)
    BY <1>4, <2>1, <2>2, FirstByLinear
  <2>5. Sorts(g[k], S, O(j))
    BY <1>4, <2>1, <2>2, <2>3, StableSortSorts
  <2> QED BY <2>1, <2>4, <2>5 DEF j
<1>8. X \subseteq T
  <2>1. ASSUME NEW k \in X, \A j \in X : rank[j] < rank[k] => j \in T
        PROVE  k \in T
    <3>1. k # 0 => k \in 1 .. L /\ k - 1 \in X /\ k - 1 < k
      OBVIOUS
    <3>2. k # 0 => k - 1 \in T
      BY <2>1, <3>1
    <3> QED BY <1>6, <1>7, <3>1, <3>2
  <2>2. rank \in [X -> Nat]
    OBVIOUS
  <2> HIDE DEF T, X, rank
  <2> QED BY <2>1, <2>2, AllByRank
<1>9. Linear(O(1), S) /\ Sorts(g[L], S, O(1))
  <2>1. L \in X /\ L + 1 - L = 1
    OBVIOUS
  <2> QED BY <1>8, <2>1
<1>10. Sorts(Arrange(S, O(1)), S, O(1))
  BY <1>9, ArrangeSorts
<1>11. g[L] = Arrange(S, O(1))
  BY <1>9, <1>10, SortUnique
<1> QED BY <1>2, <1>5, <1>9, <1>11, SortedSeq

-----------------------------------------------------------------------------
(* Answers *)

\* What the answers rest on: there are finitely many facts, and identifiers tell them
\* apart.
Sound ==
  /\ facts \subseteq Fact /\ IsFiniteSet(facts)
  /\ \A f, g \in facts : f.id = g.id => f = g

LEMMA SoundAlways == Spec => []Sound
<1>1. Init => IsFiniteSet(facts)
  BY FS_EmptySet DEF Init, StoreInit
<1>2. IsFiniteSet(facts) /\ [Next]_vars => IsFiniteSet(facts)'
  BY FactsStayFinite
<1>3. TypeOK /\ Consistent /\ IsFiniteSet(facts) => Sound
  BY DEF TypeOK, StoreTypeOK, Consistent, TxConsistent, IdsUnique, Sound
<1> QED BY <1>1, <1>2, <1>3, Inductive, PTL DEF Spec

LEMMA FactsSortable ==
  ASSUME Sound, NEW S \in SUBSET facts
  PROVE  Sortable(S)
<1>1. IsFiniteSet(S)
  BY FS_Subset DEF Sound
<1>2. \A f \in S : f.ts \in Nat /\ f.id \in Nat
  BY DEF Sound, Fact
<1> QED BY <1>1, <1>2 DEF Sound, Sortable

LEMMA FactsKeyed ==
  ASSUME Sound, NEW S \in SUBSET facts, NEW q \in AllQueries
  PROVE  /\ Len(q.order_by) \in Nat /\ DOMAIN q.order_by = 1 .. Len(q.order_by)
         /\ Keyed(S, q.order_by)
<1>1. ASSUME NEW f \in S, NEW col
      PROVE  SortKey(col, f) \in Int
  <2>1. f.from \in Int /\ f.ts \in Int /\ f.key[1] \in Int /\ f.key[2] \in Int
    <3>1. f \in Fact
      BY DEF Sound
    <3>2. f.from \in Nat /\ f.ts \in Nat /\ f.key \in Nat \X Nat
      BY <3>1, KeysAssumption DEF Fact
    <3> QED BY <3>2
  <2> QED BY <2>1 DEF SortKey
<1>2. q.order_by \in Seq([column : STRING, desc : BOOLEAN])
  BY DEF AllQueries
<1> QED BY <1>1, <1>2 DEF Keyed

LEMMA WindowType ==
  ASSUME NEW q \in AllQueries
  PROVE  /\ Skip(q) \in Nat /\ q.limit \in Nat \cup {None}
         /\ q.offset = None => Skip(q) = 0
  BY DEF AllQueries, Skip

LEMMA PageType ==
  ASSUME NEW S, NEW rows \in Seq(S), NEW offset \in Nat, NEW limit \in Nat \cup {None}
  PROVE  Page(rows, offset, limit) \in Seq(S)
<1> DEFINE m == IF limit = None \/ offset + limit > Len(rows) THEN Len(rows)
                                                           ELSE offset + limit
<1>1. m \in Nat /\ m <= Len(rows)
  BY NoneAssumption
<1>2. Page(rows, offset, limit) = SubSeq(rows, offset + 1, m)
  BY DEF Page
<1> HIDE DEF m
<1>3. \A i \in offset + 1 .. m : rows[i] \in S
  <2>1. \A i \in offset + 1 .. m : i \in 1 .. Len(rows)
    BY <1>1
  <2> QED BY <2>1
<1> QED BY <1>1, <1>2, <1>3

\* Rows that are not filtered and not sorted stay as they are.
LEMMA LeftAlone ==
  ASSUME NEW S, NEW rows \in Seq(S), NEW q, q.filter = << >>
  PROVE  /\ Kept(rows, {i \in DOMAIN rows : Passes(q, rows[i])}) = rows
         /\ Sort(rows, << >>) = rows
<1> DEFINE n == Len(rows)
<1>1. n \in Nat /\ rows \in [1 .. n -> S] /\ DOMAIN rows = 1 .. n
  OBVIOUS
<1>2. {i \in DOMAIN rows : Passes(q, rows[i])} = 1 .. n
  BY <1>1 DEF Passes
<1> HIDE DEF n
<1>3. Kept(rows, 1 .. n) = rows
  BY <1>1, KeptAll
<1>4. Len(<< >>) = 0 /\ DOMAIN << >> = 1 .. 0 /\ Keyed(S, << >>)
  BY DEF Keyed
<1>5. \E g : SortSteps(g, rows, << >>)
  BY <1>1, <1>4, SortUnfolds
<1> QED BY <1>2, <1>3, <1>4, <1>5 DEF SortSteps

\* What passes the filter comes out in the order of the store.
LEMMA FilterSorts ==
  ASSUME Sound, NEW M \in SUBSET facts, NEW q
  PROVE  LET W == {f \in M : Passes(q, f)}
             rows == InOrder(M)
         IN  Sorts(Kept(rows, {i \in DOMAIN rows : Passes(q, rows[i])}), W, Newer(W))
<1> DEFINE W == {f \in M : Passes(q, f)}
           rows == InOrder(M)
           I == {i \in DOMAIN rows : Passes(q, rows[i])}
           R == Newer(M)
<1>1. Sortable(M)
  BY FactsSortable
<1>2. Linear(R, M) /\ Sorts(rows, M, R)
  BY <1>1, NewerLinear, ScanSorts
<1> HIDE DEF rows
<1>3. DOMAIN rows = 1 .. Cardinality(M) /\ rows \in [1 .. Cardinality(M) -> M]
  BY <1>2, SortedSeq
<1>4. \A x \in M : \E i \in 1 .. Cardinality(M) : rows[i] = x
  BY <1>2 DEF Sorts
<1>5. I \in SUBSET (1 .. Cardinality(M)) /\ \A i \in I : rows[i] \in W
  BY <1>3
<1>6. \A x \in W : \E i \in I : rows[i] = x
  BY <1>3, <1>4
<1> HIDE DEF I, W, R
<1>7. Sorts(Kept(rows, I), W, R)
  BY <1>2, <1>5, <1>6, KeptSorts
<1>8. \A x, y \in W : <<x, y>> \in R => <<x, y>> \in Newer(W)
  BY DEF R, Newer
<1>9. Sorts(Kept(rows, I), W, Newer(W))
  BY <1>7, <1>8 DEF Sorts
<1> QED BY <1>9 DEF rows, I, W

\* Sorted as the query says, whatever was found is the page of what it asks for.
LEMMA AnswerIs ==
  ASSUME Sound, NEW n, NEW b, NEW q \in AllQueries, ~CutTooEarly(q)
  PROVE  Answer(n, b, q) = Page(Ordered(Wanted(n, b, q), q.order_by), Skip(q), q.limit)
<1> DEFINE sq == ScanQuery(n, b, q)
           M == {f \in facts : Matches(sq, f)}
           W == Wanted(n, b, q)
           rows == Fetch(n, b, q)
           kept == Kept(rows, {i \in DOMAIN rows : Passes(q, rows[i])})
           all == Ordered(W, q.order_by)
<1>1. Scanned(sq, n, b, q)
  BY ScanFields
<1>2. rows = Page(InOrder(M), Skip(sq), sq.limit)
  BY DEF Fetch, Scan, ScanOf
<1>3. /\ M \in SUBSET facts /\ W \in SUBSET facts /\ W = {f \in M : Passes(q, f)}
      /\ q.filter = << >> => M = W
  BY WantedFound DEF Wanted
<1>4. Answer(n, b, q) = IF q.filter = << >> THEN Sort(kept, q.order_by)
                        ELSE Page(Sort(kept, q.order_by), Skip(q), q.limit)
  BY DEF Answer, Eval
<1>5. /\ Skip(q) \in Nat /\ q.limit \in Nat \cup {None}
      /\ q.offset = None => Skip(q) = 0
  BY WindowType
<1>6. q.filter = << >> => Skip(sq) = Skip(q) /\ sq.limit = q.limit
  BY <1>1 DEF Scanned, Skip
<1>7. q.filter # << >> => Skip(sq) = 0 /\ sq.limit = None
  BY <1>1 DEF Scanned, Skip
<1>8. \A s : Sorts(s, W, Newer(W)) => Sort(s, q.order_by) = all
  BY <1>3, FactsSortable, FactsKeyed, SortIsOrdered
<1>9. InOrder(M) \in Seq(M)
  BY <1>3, FactsSortable, ScanSorts, NewestRows
<1>10. Sorts(InOrder(W), W, Newer(W)) /\ InOrder(W) \in Seq(W)
  BY <1>3, FactsSortable, ScanSorts, NewestRows
<1>11. all \in Seq(W)
  BY <1>3, <1>10, FactsSortable, FactsKeyed, SortIsOrdered
<1> HIDE DEF sq, M, W, all
<1>12. CASE q.filter # << >>
  <2>1. rows = InOrder(M)
    BY <1>2, <1>7, <1>9, <1>12, WholePage
  <2>2. Sorts(kept, W, Newer(W))
    BY <1>3, <2>1, FilterSorts
  <2> QED BY <1>4, <1>8, <1>12, <2>2 DEF all, W
<1>13. CASE q.filter = << >> /\ q.limit = None /\ q.offset = None
  <2>1. rows = InOrder(W)
    BY <1>2, <1>3, <1>5, <1>6, <1>9, <1>13, WholePage
  <2>2. kept = rows
    BY <1>10, <1>13, <2>1, LeftAlone
  <2>3. Sort(kept, q.order_by) = all
    BY <1>8, <1>10, <2>1, <2>2
  <2>4. Page(all, Skip(q), q.limit) = all
    BY <1>5, <1>11, <1>13, WholePage
  <2> QED BY <1>4, <1>13, <2>3, <2>4 DEF all, W
<1>14. CASE q.filter = << >> /\ q.order_by = << >>
  <2>1. rows = Page(InOrder(W), Skip(q), q.limit)
    BY <1>2, <1>3, <1>6, <1>14
  <2>2. rows \in Seq(W)
    BY <1>5, <1>10, <2>1, PageType
  <2>3. kept = rows /\ Sort(kept, q.order_by) = rows
    BY <1>14, <2>2, LeftAlone
  <2>4. Sort(InOrder(W), << >>) = InOrder(W)
    BY <1>10, <1>14, LeftAlone
  <2>5. all = InOrder(W)
    BY <1>8, <1>10, <1>14, <2>4
  <2> QED BY <1>4, <1>14, <2>1, <2>3, <2>5 DEF all, W
<1> QED BY <1>12, <1>13, <1>14 DEF CutTooEarly

\* Without a page the answer shows all of it.
LEMMA AnswerRows ==
  ASSUME Sound, NEW n, NEW b, NEW q \in AllQueries, q.limit = None, q.offset = None
  PROVE  /\ Answer(n, b, q) \in Seq(Wanted(n, b, q))
         /\ ToSet(Answer(n, b, q)) = Wanted(n, b, q)
<1> DEFINE W == Wanted(n, b, q)
<1>1. Answer(n, b, q) = Page(Ordered(W, q.order_by), 0, None)
  BY AnswerIs, WindowType DEF CutTooEarly
<1>2. W \in SUBSET facts
  BY DEF Wanted
<1> HIDE DEF W
<1>3. Sortable(W) /\ Sorts(InOrder(W), W, Newer(W))
  BY <1>2, FactsSortable, ScanSorts
<1>4. /\ Ordered(W, q.order_by) \in Seq(W) /\ ToSet(Ordered(W, q.order_by)) = W
  BY <1>2, <1>3, FactsKeyed, SortIsOrdered
<1> QED BY <1>1, <1>4, WholePage DEF W

\* Every answer that is not cut too early is the page of the rows that the query asks for,
\* in its order: what is pushed down to the store, and one stable sort after the other,
\* change nothing about it.
THEOREM RowsAsAskedAlways == Spec => []RowsAsAsked
<1>1. Sound => RowsAsAsked
  BY AnswerIs, QueriesAssumption DEF RowsAsAsked
<1> QED BY <1>1, SoundAlways, PTL

\* A query without LIMIT and OFFSET answers every row it asks for, and no other, in
\* whatever order.
THEOREM NothingPushedAwayAlways == Spec => []NothingPushedAway
<1>1. Sound => NothingPushedAway
  BY AnswerRows, QueriesAssumption DEF NothingPushedAway
<1> QED BY <1>1, SoundAlways, PTL

-----------------------------------------------------------------------------
(* Queries for a name *)

LEMMA NameFilter ==
  ASSUME NEW f, NEW col \in Cols, NEW name, Compare("eq", Column(col), Lit("str", name)) \in Exprs
  PROVE  EvalFilter(Compare("eq", Column(col), Lit("str", name)), f) <=> NameOf(f, col) = name
<1> DEFINE e == Compare("eq", Column(col), Lit("str", name))
<1>1. /\ e \in Exprs /\ e.op = "compare" /\ e.rel = "eq"
      /\ e.left = Column(col) /\ e.right = Lit("str", name)
  BY DEF Compare
<1>2. Resolve(Column(col), f) = {<<"str", NameOf(f, col)>>}
  BY ColumnOf DEF Resolve, Column, NameOf, Cols
<1>3. Resolve(Lit("str", name), f) = {<<"str", name>>}
  BY DEF Resolve, Lit, LitOf
<1>4. \A x, y : Related("eq", x, y) <=> x = y
  BY DEF Related
<1> HIDE DEF e
<1>5. EvalFilter(e, f) <=> \E x \in Resolve(e.left, f), y \in Resolve(e.right, f) :
                             Related(e.rel, x, y)
  BY <1>1, FilterCompare
<1>6. EvalFilter(e, f) <=> <<"str", NameOf(f, col)>> = <<"str", name>>
  BY <1>1, <1>2, <1>3, <1>4, <1>5
<1> QED BY <1>6 DEF e

LEMMA EntityWanted ==
  ASSUME NEW n, NEW b, NEW k \in Keys
  PROVE  /\ WhereIs("entity", k[1]) \in AllQueries
         /\ WhereIs("entity", k[1]).limit = None /\ WhereIs("entity", k[1]).offset = None
         /\ Wanted(n, b, WhereIs("entity", k[1])) =
              {f \in facts : f.ns = n /\ f.branch = b /\ ~f.retracted /\ f.key[1] = k[1]}
<1> DEFINE q == WhereIs("entity", k[1])
           e == Compare("eq", Column("entity"), Lit("str", k[1]))
<1>1. q = [filter |-> <<e>>, order_by |-> << >>, limit |-> None, offset |-> None,
           asof |-> None, at |-> None]
  BY DEF WhereIs
<1>2. q.filter[1] \in Exprs
  BY AskedAssumption
<1> HIDE DEF q, e
<1>3. e \in Exprs
  BY <1>1, <1>2
<1>4. q \in AllQueries
  BY <1>1, <1>3 DEF AllQueries
<1>5. \A f : EvalFilter(e, f) <=> f.key[1] = k[1]
  BY <1>3, NameFilter DEF e, Cols, NameOf
<1>6. \A f : Passes(q, f) <=> f.key[1] = k[1]
  BY <1>1, <1>5 DEF Passes
<1>7. Wanted(n, b, q) =
        {f \in facts : f.ns = n /\ f.branch = b /\ ~f.retracted /\ f.key[1] = k[1]}
  BY <1>1, <1>6 DEF Wanted
<1> QED BY <1>1, <1>4, <1>7 DEF q

\* An entity is listed exactly when the query for it finds a row, and then its attributes
\* are those of the rows that are found.
THEOREM ListedIsFoundAlways == Spec => []ListedIsFound
<1>1. ASSUME Sound, NEW n \in Namespaces, NEW b \in Branches
      PROVE  /\ ListEntities(n, b) =
                  {k[1] : k \in {k \in Keys : Answer(n, b, WhereIs("entity", k[1])) # << >>}}
             /\ \A e \in ListEntities(n, b) :
                  ListAttrs(n, b, e) = {f.key[2] : f \in ToSet(Answer(n, b, WhereIs("entity", e)))}
  <2> DEFINE live == {f \in facts : f.ns = n /\ f.branch = b /\ ~f.retracted}
             A(k) == Answer(n, b, WhereIs("entity", k[1]))
  <2>1. ASSUME NEW k \in Keys
        PROVE  /\ ToSet(A(k)) = {f \in live : f.key[1] = k[1]}
               /\ A(k) # << >> <=> ToSet(A(k)) # {}
    <3>1. /\ A(k) \in Seq(Wanted(n, b, WhereIs("entity", k[1])))
          /\ ToSet(A(k)) = Wanted(n, b, WhereIs("entity", k[1]))
      <4> DEFINE q == WhereIs("entity", k[1])
      <4>1. q \in AllQueries /\ q.limit = None /\ q.offset = None
        BY EntityWanted
      <4> HIDE DEF q
      <4>2. /\ Answer(n, b, q) \in Seq(Wanted(n, b, q))
            /\ ToSet(Answer(n, b, q)) = Wanted(n, b, q)
        BY <1>1, <4>1, AnswerRows
      <4> QED BY <4>2 DEF q
    <3>2. Wanted(n, b, WhereIs("entity", k[1])) = {f \in live : f.key[1] = k[1]}
      BY EntityWanted
    <3> HIDE DEF A, live
    <3>3. A(k) # << >> <=> ToSet(A(k)) # {}
      BY <3>1 DEF ToSet
    <3> QED BY <3>1, <3>2, <3>3
  <2>2. \A f \in live : f.key \in Keys
    BY <1>1 DEF Sound, Fact
  <2>3. ListEntities(n, b) = {f.key[1] : f \in live}
    BY DEF ListEntities
  <2>4. \A e : ListAttrs(n, b, e) = {f.key[2] : f \in {f \in live : f.key[1] = e}}
    BY DEF ListAttrs
  <2>5. ASSUME NEW e \in ListEntities(n, b)
        PROVE  ListAttrs(n, b, e) = {f.key[2] : f \in ToSet(Answer(n, b, WhereIs("entity", e)))}
    <3>1. PICK f \in live : e = f.key[1]
      BY <2>3
    <3>2. ToSet(Answer(n, b, WhereIs("entity", e))) = {g \in live : g.key[1] = e}
      BY <2>1, <2>2, <3>1
    <3> QED BY <2>4, <3>2
  <2> HIDE DEF A, live
  <2>6. \A x : x \in ListEntities(n, b) <=> \E k \in Keys : A(k) # << >> /\ x = k[1]
    BY <2>1, <2>2, <2>3
  <2>7. ListEntities(n, b) = {k[1] : k \in {k \in Keys : A(k) # << >>}}
    BY <2>6
  <2> QED BY <2>5, <2>7 DEF A
<1>2. Sound => ListedIsFound
  BY <1>1 DEF ListedIsFound
<1> QED BY <1>2, SoundAlways, PTL

LEMMA KeyWanted ==
  ASSUME Sound, NEW n, NEW b, NEW k \in Keys, NEW ts \in Nat
  PROVE  /\ KeyAsOf(k, ts) \in AllQueries /\ KeyAsOf(k, ts).filter # << >>
         /\ KeyAsOf(k, ts).order_by = << >>
         /\ KeyAsOf(k, ts).limit = 1 /\ KeyAsOf(k, ts).offset = None
         /\ Wanted(n, b, KeyAsOf(k, ts)) = {f \in Live(n, b, k) : f.ts <= ts}
<1> DEFINE q == KeyAsOf(k, ts)
           attr == Compare("eq", Column("attr"), Lit("str", k[2]))
           entity == Compare("eq", Column("entity"), Lit("str", k[1]))
           e == And(attr, entity)
<1>1. q = [filter |-> <<e>>, order_by |-> << >>, limit |-> 1, offset |-> None,
           asof |-> ts, at |-> None]
  BY DEF KeyAsOf
<1>2. KeyAsOf(k, 0).filter[1] = e
  BY DEF KeyAsOf
<1>3. e \in Exprs
  BY <1>2, AskedAssumption
<1> HIDE DEF q, attr, entity
<1>4. e.op = "and" /\ e.left = attr /\ e.right = entity
  BY DEF And
<1> HIDE DEF e
<1>5. attr \in Exprs /\ entity \in Exprs
  BY <1>3, <1>4, ExprsAssumption
<1>6. q \in AllQueries
  BY <1>1, <1>3 DEF AllQueries
<1>7. \A f : EvalFilter(e, f) <=> f.key[1] = k[1] /\ f.key[2] = k[2]
  <2>1. \A f : EvalFilter(attr, f) <=> f.key[2] = k[2]
    BY <1>5, NameFilter DEF attr, Cols, NameOf
  <2>2. \A f : EvalFilter(entity, f) <=> f.key[1] = k[1]
    BY <1>5, NameFilter DEF entity, Cols, NameOf
  <2> QED BY <1>3, <1>4, <2>1, <2>2, FilterAnd
<1>8. \A f : Passes(q, f) <=> f.key[1] = k[1] /\ f.key[2] = k[2]
  BY <1>1, <1>7 DEF Passes
<1>9. \A f \in facts : f.key = k <=> f.key[1] = k[1] /\ f.key[2] = k[2]
  <2>1. \A f \in facts : f.key \in Keys
    BY DEF Sound, Fact
  <2> QED BY <2>1, KeysAssumption
<1>10. q.asof = ts /\ q.at = None /\ ts # None
  BY <1>1, NoneAssumption
<1>11. Wanted(n, b, q) = {f \in Live(n, b, k) : f.ts <= ts}
  BY <1>8, <1>9, <1>10 DEF Wanted, Live
<1> QED BY <1>1, <1>6, <1>11 DEF q

\* The first row of a scan is the newest.
LEMMA FirstIsNewest ==
  ASSUME NEW S, Sortable(S)
  PROVE  ToSet(Page(InOrder(S), 0, 1)) = Newest(S)
<1> DEFINE s == InOrder(S)
           n == Cardinality(S)
<1>1. /\ n \in Nat /\ s \in [1 .. n -> S] /\ s \in Seq(S) /\ Len(s) = n
      /\ \A i, j \in 1 .. n : i < j => NewerThan(s[i], s[j])
      /\ \A x \in S : \E i \in 1 .. n : s[i] = x
  BY ScanSorts, NewestRows DEF Sorts
<1>2. \A f, g \in S : ~(NewerThan(f, g) /\ NewerThan(g, f))
  BY DEF Sortable, NewerThan
<1>3. Page(s, 0, 1) = SubSeq(s, 1, IF 1 > n THEN n ELSE 1)
  BY <1>1, NoneAssumption DEF Page
<1> HIDE DEF s, n
<1>4. CASE n = 0
  <2>1. S = {}
    BY <1>1, <1>4
  <2>2. Page(s, 0, 1) = << >>
    BY <1>1, <1>3, <1>4
  <2>3. ToSet(Page(s, 0, 1)) = {}
    BY <2>2 DEF ToSet
  <2> QED BY <2>1, <2>3 DEF Newest, s
<1>5. CASE n # 0
  <2> DEFINE p == Page(s, 0, 1)
  <2>1. DOMAIN p = 1 .. 1 /\ p[1] = s[1]
    <3>1. (IF 1 > n THEN n ELSE 1) = 1
      BY <1>1, <1>5
    <3>2. p = SubSeq(s, 1, 1)
      BY <1>3, <3>1, Zenon
    <3> QED BY <1>1, <1>5, <3>2
  <2> HIDE DEF p
  <2>2. ToSet(p) = {s[1]}
    BY <2>1 DEF ToSet
  <2>3. s[1] \in S /\ \A g \in S \ {s[1]} : NewerThan(s[1], g)
    <3>1. 1 \in 1 .. n /\ \A i \in 1 .. n : i = 1 \/ 1 < i
      BY <1>1, <1>5
    <3> QED BY <1>1, <3>1
  <2>4. Newest(S) = {s[1]}
    BY <1>2, <2>3 DEF Newest
  <2> QED BY <2>2, <2>4 DEF s, p
<1> QED BY <1>1, <1>4, <1>5

\* A query for one key as of a time, limited to one row, answers what Db::asof does.
THEOREM AsofAgreesAlways == Spec => []AsofAgrees
<1>1. ASSUME Sound, NEW n \in Namespaces, NEW b \in Branches, NEW k \in Keys, NEW ts \in Nat
      PROVE  ToSet(Answer(n, b, KeyAsOf(k, ts))) = Asof(n, b, k, ts)
  <2> DEFINE q == KeyAsOf(k, ts)
             W == Wanted(n, b, q)
  <2>1. /\ q \in AllQueries /\ q.filter # << >> /\ q.order_by = << >>
        /\ q.limit = 1 /\ q.offset = None
        /\ W = {f \in Live(n, b, k) : f.ts <= ts}
    BY <1>1, KeyWanted
  <2> HIDE DEF q
  <2>2. Answer(n, b, q) = Page(Ordered(W, << >>), 0, 1)
    BY <1>1, <2>1, AnswerIs, WindowType DEF CutTooEarly
  <2>3. W \in SUBSET facts
    BY DEF Wanted
  <2>4. Asof(n, b, k, ts) = Newest(W)
    BY <2>1 DEF Asof
  <2> HIDE DEF W
  <2>5. /\ Sortable(W) /\ Sorts(InOrder(W), W, Newer(W)) /\ InOrder(W) \in Seq(W)
    BY <1>1, <2>3, FactsSortable, ScanSorts, NewestRows
  <2>6. Ordered(W, << >>) = Sort(InOrder(W), << >>)
    <3>1. /\ Len(q.order_by) \in Nat /\ DOMAIN q.order_by = 1 .. Len(q.order_by)
          /\ Keyed(W, q.order_by)
      BY <1>1, <2>1, <2>3, FactsKeyed
    <3>2. Sort(InOrder(W), q.order_by) = Ordered(W, q.order_by)
      BY <2>5, <3>1, SortIsOrdered
    <3> QED BY <2>1, <3>2
  <2>7. \A r : r.filter = << >> => Sort(InOrder(W), << >>) = InOrder(W)
    BY <2>5, LeftAlone
  <2>8. Sort(InOrder(W), << >>) = InOrder(W)
    <3>1. [filter |-> << >>].filter = << >>
      OBVIOUS
    <3> QED BY <2>7, <3>1
  <2>9. ToSet(Answer(n, b, q)) = Newest(W)
    BY <2>2, <2>5, <2>6, <2>8, FirstIsNewest
  <2> QED BY <2>4, <2>9 DEF q
<1>2. Sound => \A f \in facts : f.ts \in Nat
  BY DEF Sound, Fact
<1>3. Sound => AsofAgrees
  BY <1>1, <1>2 DEF AsofAgrees
<1> QED BY <1>3, SoundAlways, PTL

-----------------------------------------------------------------------------
(* LIKE *)

\* The first i parts have places, one behind the other from the start of s, and the last
\* of them ends at k.
Placed(s, parts, i, k) ==
  \E at \in [1 .. i -> 0 .. Len(s)] :
    /\ at[1] = 0 /\ at[i] + Len(parts[i]) = k
    /\ \A j \in 2 .. i : at[j - 1] + Len(parts[j - 1]) <= at[j]
    /\ \A j \in 1 .. i : Stands(s, parts[j], at[j])

LEMMA WildcardIsPlaced ==
  \A s, parts : Wildcard(s, parts) <=> Placed(s, parts, Len(parts), Len(s))
BY DEF Wildcard, Placed

\* part has a place behind the first k letters, and ends at x.
EndsAt(s, part, k, x) == \E m \in k .. Len(s) : Stands(s, part, m) /\ x = m + Len(part)

LEMMA PlacedFirst ==
  ASSUME NEW s, Len(s) \in Nat, NEW parts, Len(parts[1]) \in Nat, NEW k
  PROVE  Placed(s, parts, 1, k) <=> Stands(s, parts[1], 0) /\ k = Len(parts[1])
<1>1. ASSUME Placed(s, parts, 1, k)
      PROVE  Stands(s, parts[1], 0) /\ k = Len(parts[1])
  BY <1>1 DEF Placed
<1>2. ASSUME Stands(s, parts[1], 0), k = Len(parts[1])
      PROVE  Placed(s, parts, 1, k)
  <2> DEFINE at == [j \in 1 .. 1 |-> 0]
  <2>1. at \in [1 .. 1 -> 0 .. Len(s)] /\ at[1] = 0
    OBVIOUS
  <2>2. at[1] + Len(parts[1]) = k
    BY <1>2
  <2>3. 2 .. 1 = {} /\ \A j \in 1 .. 1 : j = 1
    OBVIOUS
  <2> HIDE DEF at
  <2> QED BY <1>2, <2>1, <2>2, <2>3 DEF Placed
<1> QED BY <1>1, <1>2

\* One more part has a place when the parts before it have, and it has one behind them.
LEMMA PlacedNext ==
  ASSUME NEW s, Len(s) \in Nat, NEW parts, NEW i \in Nat \ {0},
         \A j \in 1 .. i + 1 : Len(parts[j]) \in Nat, NEW x
  PROVE  Placed(s, parts, i + 1, x) <=>
           \E k \in Nat : Placed(s, parts, i, k) /\ EndsAt(s, parts[i + 1], k, x)
<1> DEFINE len(j) == Len(parts[j])
           N == Len(s)
           st(j, m) == Stands(s, parts[j], m)
<1>0. /\ N \in Nat /\ \A j \in 1 .. i + 1 : len(j) \in Nat
      /\ \A j, k : Placed(s, parts, j, k) <=>
           \E at \in [1 .. j -> 0 .. N] :
             /\ at[1] = 0 /\ at[j] + len(j) = k
             /\ \A l \in 2 .. j : at[l - 1] + len(l - 1) <= at[l]
             /\ \A l \in 1 .. j : st(l, at[l])
      /\ \A k : EndsAt(s, parts[i + 1], k, x) <=>
                  \E m \in k .. N : st(i + 1, m) /\ x = m + len(i + 1)
  BY DEF Placed, EndsAt
<1> HIDE DEF len, N, st
<1>1. ASSUME NEW at \in [1 .. i + 1 -> 0 .. N],
             at[1] = 0, at[i + 1] + len(i + 1) = x,
             \A l \in 2 .. i + 1 : at[l - 1] + len(l - 1) <= at[l],
             \A l \in 1 .. i + 1 : st(l, at[l])
      PROVE  \E k \in Nat : Placed(s, parts, i, k) /\ EndsAt(s, parts[i + 1], k, x)
  <2> DEFINE k == at[i] + len(i)
             front == [l \in 1 .. i |-> at[l]]
  <2>1. i \in 1 .. i + 1 /\ i + 1 \in 1 .. i + 1 /\ i + 1 \in 2 .. i + 1 /\ (i + 1) - 1 = i
    OBVIOUS
  <2>2. k \in Nat /\ at[i + 1] \in k .. N
    BY <1>0, <1>1, <2>1
  <2>3. EndsAt(s, parts[i + 1], k, x)
    BY <1>0, <1>1, <2>1, <2>2
  <2>4. front \in [1 .. i -> 0 .. N] /\ \A l \in 1 .. i : front[l] = at[l]
    OBVIOUS
  <2>5. front[1] = 0 /\ front[i] + len(i) = k
    BY <1>1, <2>4
  <2>6. \A l \in 2 .. i : front[l - 1] + len(l - 1) <= front[l]
    <3>1. \A l \in 2 .. i : l \in 2 .. i + 1 /\ l - 1 \in 1 .. i /\ l \in 1 .. i
      OBVIOUS
    <3> HIDE DEF front
    <3> QED BY <1>1, <2>4, <3>1
  <2>7. \A l \in 1 .. i : st(l, front[l])
    BY <1>1, <2>4
  <2> HIDE DEF front, k
  <2>8. Placed(s, parts, i, k)
    BY <1>0, <2>4, <2>5, <2>6, <2>7
  <2> QED BY <2>2, <2>3, <2>8
<1>2. ASSUME NEW k \in Nat, NEW m \in k .. N, st(i + 1, m), x = m + len(i + 1),
             NEW at \in [1 .. i -> 0 .. N], at[1] = 0, at[i] + len(i) = k,
             \A l \in 2 .. i : at[l - 1] + len(l - 1) <= at[l],
             \A l \in 1 .. i : st(l, at[l])
      PROVE  Placed(s, parts, i + 1, x)
  <2> DEFINE on == [l \in 1 .. i + 1 |-> IF l = i + 1 THEN m ELSE at[l]]
  <2>1. /\ \A l \in 1 .. i : l \in 1 .. i + 1 /\ l # i + 1
        /\ \A l \in 1 .. i + 1 : l \in 1 .. i \/ l = i + 1
        /\ \A l \in 2 .. i + 1 : l \in 2 .. i \/ l = i + 1
        /\ \A l \in 2 .. i : l \in 1 .. i /\ l - 1 \in 1 .. i
        /\ 1 \in 1 .. i /\ i \in 1 .. i /\ (i + 1) - 1 = i /\ i + 1 \in 1 .. i + 1
    OBVIOUS
  <2>2. m \in 0 .. N
    BY <1>0
  <2>3. on \in [1 .. i + 1 -> 0 .. N]
    <3>1. \A l \in 1 .. i : at[l] \in 0 .. N
      OBVIOUS
    <3>2. \A l \in 1 .. i + 1 : (IF l = i + 1 THEN m ELSE at[l]) \in 0 .. N
      BY <2>1, <2>2, <3>1
    <3> QED BY <3>2
  <2>4. on[i + 1] = m /\ \A l \in 1 .. i : on[l] = at[l]
    BY <2>1
  <2> HIDE DEF on
  <2>5. on[1] = 0 /\ on[i + 1] + len(i + 1) = x
    BY <1>2, <2>1, <2>4
  <2>6. \A l \in 1 .. i + 1 : st(l, on[l])
    BY <1>2, <2>1, <2>4
  <2>7. \A l \in 2 .. i + 1 : on[l - 1] + len(l - 1) <= on[l]
    <3>1. k <= m
      BY <1>0
    <3>2. on[(i + 1) - 1] + len((i + 1) - 1) <= on[i + 1]
      BY <1>2, <2>1, <2>4, <3>1
    <3>3. \A l \in 2 .. i : on[l - 1] + len(l - 1) <= on[l]
      BY <1>2, <2>1, <2>4
    <3> QED BY <2>1, <3>2, <3>3
  <2>8. Placed(s, parts, i + 1, x) <=>
          \E h \in [1 .. i + 1 -> 0 .. N] :
            /\ h[1] = 0 /\ h[i + 1] + len(i + 1) = x
            /\ \A l \in 2 .. i + 1 : h[l - 1] + len(l - 1) <= h[l]
            /\ \A l \in 1 .. i + 1 : st(l, h[l])
    BY <1>0
  <2> QED BY <2>3, <2>5, <2>6, <2>7, <2>8
<1>3. ASSUME Placed(s, parts, i + 1, x)
      PROVE  \E k \in Nat : Placed(s, parts, i, k) /\ EndsAt(s, parts[i + 1], k, x)
  <2>1. PICK at \in [1 .. i + 1 -> 0 .. N] :
          /\ at[1] = 0 /\ at[i + 1] + len(i + 1) = x
          /\ \A l \in 2 .. i + 1 : at[l - 1] + len(l - 1) <= at[l]
          /\ \A l \in 1 .. i + 1 : st(l, at[l])
    BY <1>0, <1>3
  <2> QED BY <1>1, <2>1
<1>4. ASSUME NEW k \in Nat, Placed(s, parts, i, k), EndsAt(s, parts[i + 1], k, x)
      PROVE  Placed(s, parts, i + 1, x)
  <2>1. PICK m \in k .. N : st(i + 1, m) /\ x = m + len(i + 1)
    BY <1>0, <1>4
  <2>2. PICK at \in [1 .. i -> 0 .. N] :
          /\ at[1] = 0 /\ at[i] + len(i) = k
          /\ \A l \in 2 .. i : at[l - 1] + len(l - 1) <= at[l]
          /\ \A l \in 1 .. i : st(l, at[l])
    BY <1>0, <1>4
  <2> QED BY <1>2, <2>1, <2>2
<1> QED BY <1>3, <1>4

\* find returns the end of the first place.
LEMMA FindIs ==
  ASSUME NEW s, Len(s) \in Nat, NEW part, Len(part) \in Nat, NEW k \in Nat
  PROVE  /\ \A x \in Find(s, part, k) : x \in Nat /\ EndsAt(s, part, k, x)
         /\ \A y : EndsAt(s, part, k, y) => \E x \in Find(s, part, k) : x <= y
<1> DEFINE places == {m \in k .. Len(s) : Stands(s, part, m)}
<1>1. places \subseteq Nat
  OBVIOUS
<1>2. Find(s, part, k) = IF places = {} THEN {} ELSE {Min(places) + Len(part)}
  BY DEF Find
<1>3. \A y : EndsAt(s, part, k, y) <=> \E m \in places : y = m + Len(part)
  BY DEF EndsAt
<1> HIDE DEF places
<1>4. places # {} => Min(places) \in places /\ \A m \in places : Min(places) <= m
  BY <1>1, LeastOf DEF Min
<1> DEFINE first == Min(places)
<1>5. Find(s, part, k) = IF places = {} THEN {} ELSE {first + Len(part)}
  BY <1>2
<1>6. places # {} => first \in places /\ first \in Nat /\ \A m \in places : first <= m
  BY <1>1, <1>4
<1> HIDE DEF first
<1>7. ASSUME NEW x \in Find(s, part, k)
      PROVE  x \in Nat /\ EndsAt(s, part, k, x)
  <2>1. places # {} /\ x = first + Len(part)
    BY <1>5, <1>7
  <2> QED BY <1>3, <1>6, <2>1
<1>8. ASSUME NEW y, EndsAt(s, part, k, y)
      PROVE  \E x \in Find(s, part, k) : x <= y
  <2>1. PICK m \in places : y = m + Len(part)
    BY <1>3, <1>8
  <2>2. first + Len(part) \in Find(s, part, k)
    BY <1>5, <2>1
  <2>3. first + Len(part) <= y
    BY <1>1, <1>6, <2>1
  <2> QED BY <2>2, <2>3
<1> QED BY <1>7, <1>8

\* left has what may be used up after each of the parts but the last.
LikeSteps(left, s, parts) ==
  /\ \A i \in 1 .. Len(parts) - 1 :
       left[i] = IF i = 1 THEN {k \in {Len(parts[1])} : Stands(s, parts[1], 0)}
                 ELSE UNION {Find(s, parts[i], k) : k \in left[i - 1]}
  /\ LikeMatch(s, parts) <=>
       IF Len(parts) = 1 THEN s = parts[1]
       ELSE \E k \in left[Len(parts) - 1] :
              /\ k + Len(parts[Len(parts)]) <= Len(s)
              /\ Stands(s, parts[Len(parts)], Len(s) - Len(parts[Len(parts)]))

LEMMA LikeUnfolds ==
  ASSUME NEW s, Len(s) \in Nat, NEW parts, Len(parts) \in Nat \ {0},
         \A j \in 1 .. Len(parts) : Len(parts[j]) \in Nat
  PROVE  \E left : LikeSteps(left, s, parts)
<1> DEFINE n == Len(parts)
           X == 1 .. n - 1
           V == SUBSET Nat
           body(i, h) == IF i = 1 THEN {k \in {Len(parts[1])} : Stands(s, parts[1], 0)}
                         ELSE UNION {Find(s, parts[i], k) : k \in h[i - 1]}
           B == [i \in X |-> [h \in [X -> V] |-> body(i, h)]]
           rank == [i \in X |-> i]
<1>1. \A i \in X : \A h \in [X -> V] : body(i, h) \in V
  <2> SUFFICES ASSUME NEW i \in X, NEW h \in [X -> V]
               PROVE  body(i, h) \in V
    OBVIOUS
  <2>1. CASE i = 1
    BY <2>1
  <2>2. CASE i # 1
    <3>1. i - 1 \in X /\ i \in 1 .. Len(parts)
      BY <2>2
    <3>2. h[i - 1] \in SUBSET Nat /\ Len(parts[i]) \in Nat
      BY <3>1
    <3>3. \A k \in h[i - 1] : Find(s, parts[i], k) \subseteq Nat
      BY <3>2, FindIs
    <3> QED BY <2>2, <3>3
  <2> QED BY <2>1, <2>2
<1>2. WellRanked(B, X, V, rank)
  <2>1. rank \in [X -> Nat]
    OBVIOUS
  <2>2. ASSUME NEW i \in X, NEW g \in [X -> V], NEW h \in [X -> V],
               \A j \in X : rank[j] < rank[i] => g[j] = h[j]
        PROVE  body(i, g) = body(i, h)
    <3>1. i # 1 => g[i - 1] = h[i - 1]
      BY <2>2
    <3> QED BY <3>1
  <2> HIDE DEF V, X, body, rank
  <2>3. B \in [X -> [[X -> V] -> V]]
    BY <1>1
  <2>4. \A i \in X : \A h \in [X -> V] : B[i][h] = body(i, h)
    OBVIOUS
  <2> HIDE DEF B
  <2>5. ASSUME NEW i \in X, NEW g \in [X -> V], NEW h \in [X -> V],
               \A j \in X : rank[j] < rank[i] => g[j] = h[j]
        PROVE  B[i][g] = B[i][h]
    <3>1. body(i, g) = body(i, h)
      BY <2>2, <2>5
    <3> QED BY <2>4, <3>1
  <2> QED BY <2>1, <2>3, <2>5 DEF WellRanked
<1>3. V # {}
  OBVIOUS
<1>4. \E g : g = [i \in X |-> body(i, g)]
  <2> HIDE DEF V, X, body, rank
  <2>1. \A i \in X : \A h \in [X -> V] : B[i][h] = body(i, h)
    OBVIOUS
  <2> HIDE DEF B
  <2>2. PICK g \in [X -> V] : \A i \in X : g[i] = B[i][g]
    BY <1>2, <1>3, Recursion
  <2>3. g = [i \in X |-> body(i, g)]
    BY <2>1, <2>2
  <2> QED BY <2>3
<1> DEFINE F == CHOOSE g : g = [i \in X |-> body(i, g)]
<1>5. F = [i \in X |-> body(i, F)]
  <2> HIDE DEF V, X, body
  <2> QED BY <1>4
<1>6. LikeMatch(s, parts) <=>
        IF n = 1 THEN s = parts[1]
        ELSE \E k \in F[n - 1] : /\ k + Len(parts[n]) <= Len(s)
                                 /\ Stands(s, parts[n], Len(s) - Len(parts[n]))
  BY DEF LikeMatch
<1> HIDE DEF F, V, B
<1>7. \A i \in X : F[i] = body(i, F)
  <2> HIDE DEF body, X
  <2> QED BY <1>5
<1>8. LikeSteps(F, s, parts)
  BY <1>6, <1>7 DEF LikeSteps
<1> QED BY <1>8

\* What is used up is always a way to place the parts so far, and no other way uses up
\* less: the first place of each part leaves the most to the parts behind it.
LEMMA LikePlaces ==
  ASSUME NEW s, Len(s) \in Nat, NEW parts, Len(parts) \in Nat \ {0},
         \A j \in 1 .. Len(parts) : Len(parts[j]) \in Nat,
         NEW left, LikeSteps(left, s, parts), NEW i \in 1 .. Len(parts) - 1
  PROVE  /\ \A k \in left[i] : k \in Nat /\ Placed(s, parts, i, k)
         /\ \A x : Placed(s, parts, i, x) => \E k \in left[i] : k <= x
<1> DEFINE X == 1 .. Len(parts) - 1
           rank == [j \in X |-> j]
           T == {j \in X : /\ \A k \in left[j] : k \in Nat /\ Placed(s, parts, j, k)
                           /\ \A x : Placed(s, parts, j, x) => \E k \in left[j] : k <= x}
<1>1. 1 \in X => 1 \in T
  <2> SUFFICES ASSUME 1 \in X
               PROVE  1 \in T
    OBVIOUS
  <2>1. left[1] = {k \in {Len(parts[1])} : Stands(s, parts[1], 0)}
    BY DEF LikeSteps
  <2>2. Len(parts[1]) \in Nat
    OBVIOUS
  <2>3. \A k : Placed(s, parts, 1, k) <=> Stands(s, parts[1], 0) /\ k = Len(parts[1])
    BY <2>2, PlacedFirst
  <2>4. Len(parts[1]) <= Len(parts[1])
    BY <2>2
  <2> QED BY <2>1, <2>2, <2>3, <2>4
<1>2. ASSUME NEW j \in X, j + 1 \in X, j \in T
      PROVE  j + 1 \in T
  <2>1. j + 1 # 1 /\ (j + 1) - 1 = j
    OBVIOUS
  <2>2. left[j + 1] = UNION {Find(s, parts[j + 1], k) : k \in left[j]}
    BY <1>2, <2>1 DEF LikeSteps
  <2>3. j \in Nat \ {0} /\ (\A l \in 1 .. j + 1 : Len(parts[l]) \in Nat) /\ Len(parts[j + 1]) \in Nat
    BY <1>2
  <2>4. \A x : Placed(s, parts, j + 1, x) <=>
          \E k \in Nat : Placed(s, parts, j, k) /\ EndsAt(s, parts[j + 1], k, x)
    BY <2>3, PlacedNext
  <2>5. \A k \in left[j] : k \in Nat /\ Placed(s, parts, j, k)
    BY <1>2
  <2>6. ASSUME NEW x \in left[j + 1]
        PROVE  x \in Nat /\ Placed(s, parts, j + 1, x)
    <3>1. PICK k \in left[j] : x \in Find(s, parts[j + 1], k)
      BY <2>2
    <3>2. x \in Nat /\ EndsAt(s, parts[j + 1], k, x)
      BY <2>3, <2>5, <3>1, FindIs
    <3> QED BY <2>4, <2>5, <3>2
  <2>7. ASSUME NEW x, Placed(s, parts, j + 1, x)
        PROVE  \E k \in left[j + 1] : k <= x
    <3>1. PICK k \in Nat : Placed(s, parts, j, k) /\ EndsAt(s, parts[j + 1], k, x)
      BY <2>4, <2>7
    <3>2. PICK l \in left[j] : l <= k
      BY <1>2, <3>1
    <3>3. l \in Nat
      BY <2>5
    <3>4. EndsAt(s, parts[j + 1], l, x)
      <4>1. k .. Len(s) \subseteq l .. Len(s)
        BY <3>2, <3>3
      <4> QED BY <3>1, <4>1 DEF EndsAt
    <3>5. PICK y \in Find(s, parts[j + 1], l) : y <= x
      BY <2>3, <3>3, <3>4, FindIs
    <3> QED BY <2>2, <3>5
  <2> QED BY <1>2, <2>6, <2>7
<1> HIDE DEF T
<1>3. \A j \in X : (\A l \in X : rank[l] < rank[j] => l \in T) => j \in T
  <2> SUFFICES ASSUME NEW j \in X, \A l \in X : rank[l] < rank[j] => l \in T
               PROVE  j \in T
    OBVIOUS
  <2>1. j # 1 => j - 1 \in X /\ rank[j - 1] < rank[j] /\ (j - 1) + 1 = j
    OBVIOUS
  <2> QED BY <1>1, <1>2, <2>1
<1>4. rank \in [X -> Nat]
  OBVIOUS
<1>5. X \subseteq T
  <2> HIDE DEF X, rank
  <2> QED BY <1>3, <1>4, AllByRank
<1> QED BY <1>5 DEF T

LEMMA WholeStands ==
  ASSUME NEW S, NEW s \in Seq(S), NEW part \in Seq(S)
  PROVE  s = part <=> Stands(s, part, 0) /\ Len(s) = Len(part)
<1>1. SubSeq(s, 1, Len(s)) = s /\ 0 + 1 = 1 /\ 0 + Len(s) = Len(s) /\ Len(s) \in Nat
  OBVIOUS
<1> QED BY <1>1 DEF Stands

LEMMA MatchIsWildcard ==
  ASSUME NEW S, NEW s \in Seq(S), NEW parts \in Seq(Seq(S)), parts # << >>
  PROVE  LikeMatch(s, parts) <=> Wildcard(s, parts)
<1> DEFINE n == Len(parts)
           N == Len(s)
           last == parts[n]
<1>1. /\ N \in Nat /\ n \in Nat \ {0} /\ last \in Seq(S) /\ Len(last) \in Nat
      /\ \A j \in 1 .. n : Len(parts[j]) \in Nat
  OBVIOUS
<1>2. PICK left : LikeSteps(left, s, parts)
  BY <1>1, LikeUnfolds
<1>3. Wildcard(s, parts) <=> Placed(s, parts, n, N)
  BY WildcardIsPlaced
<1>4. CASE n = 1
  <2>1. Placed(s, parts, n, N) <=> Stands(s, last, 0) /\ N = Len(last)
    BY <1>1, <1>4, PlacedFirst
  <2>2. LikeMatch(s, parts) <=> s = last
    BY <1>2, <1>4 DEF LikeSteps
  <2>3. s = last <=> Stands(s, last, 0) /\ N = Len(last)
    BY <1>1, WholeStands
  <2> QED BY <1>3, <2>1, <2>2, <2>3
<1>5. CASE n # 1
  <2> DEFINE i == n - 1
  <2>1. i \in 1 .. n - 1 /\ i \in Nat \ {0} /\ i + 1 = n
    <3>1. n \in Nat \ {0} /\ n # 1
      BY <1>1, <1>5
    <3> HIDE DEF n
    <3> QED BY <3>1
  <2>2. /\ \A k \in left[i] : k \in Nat /\ Placed(s, parts, i, k)
        /\ \A x : Placed(s, parts, i, x) => \E k \in left[i] : k <= x
    BY <1>1, <1>2, <2>1, LikePlaces
  <2>3. LikeMatch(s, parts) <=>
          \E k \in left[i] : k + Len(last) <= N /\ Stands(s, last, N - Len(last))
    BY <1>2, <1>5 DEF LikeSteps
  <2>4. Placed(s, parts, n, N) <=>
          \E k \in Nat : Placed(s, parts, i, k) /\ EndsAt(s, last, k, N)
    BY <1>1, <2>1, PlacedNext
  <2> HIDE DEF i, n, N, last
  <2>5. \A k \in Nat : EndsAt(s, last, k, N) <=>
          k + Len(last) <= N /\ Stands(s, last, N - Len(last))
    <3> SUFFICES ASSUME NEW k \in Nat
                 PROVE  EndsAt(s, last, k, N) <=>
                          k + Len(last) <= N /\ Stands(s, last, N - Len(last))
      OBVIOUS
    <3>1. EndsAt(s, last, k, N) <=> \E m \in k .. N : Stands(s, last, m) /\ N = m + Len(last)
      BY DEF EndsAt, N
    <3>2. \A m \in k .. N : N = m + Len(last) <=> m = N - Len(last)
      BY <1>1
    <3>3. N - Len(last) \in k .. N <=> k + Len(last) <= N
      BY <1>1
    <3> QED BY <3>1, <3>2, <3>3
  <2>6. \A k, x \in Nat : k <= x /\ x + Len(last) <= N => k + Len(last) <= N
    BY <1>1
  <2> QED BY <1>3, <2>2, <2>3, <2>4, <2>5, <2>6
<1> QED BY <1>4, <1>5

\* LIKE matches the entities it should: looking for each part of a pattern where it
\* begins first uses up nothing that a later part needs.
THEOREM LikeIsWildcardAlways == Spec => []LikeIsWildcard
<1>1. ASSUME Sound, NEW f \in facts, NEW parts \in Patterns
      PROVE  EvalFilter(Like(Column("entity"), parts), f) <=> Wildcard(Spelling[f.key[1]], parts)
  <2> DEFINE e == Like(Column("entity"), parts)
             s == Spelling[f.key[1]]
  <2>1. /\ e \in Exprs /\ e.op = "like" /\ e.of.op = "column" /\ e.of.name = "entity"
        /\ e.pattern = parts
    BY AskedAssumption DEF Like, Column
  <2>2. s \in Seq(Letters) /\ parts \in Seq(Seq(Letters)) /\ parts # << >>
    <3>1. f.key \in Keys
      BY <1>1 DEF Sound, Fact
    <3> QED BY <3>1, LettersAssumption
  <2>3. ColStr("entity", f) = s
    <3>1. {a[2] : a \in {a \in ColToLit("entity", f) : a[1] = "str"}} = {f.key[1]}
      <4>1. ColToLit("entity", f) = {<<"str", f.key[1]>>}
        BY ColumnOf
      <4>2. {a \in {<<"str", f.key[1]>>} : a[1] = "str"} = {<<"str", f.key[1]>>}
        OBVIOUS
      <4>3. {a[2] : a \in {<<"str", f.key[1]>>}} = {f.key[1]}
        OBVIOUS
      <4> QED BY <4>1, <4>2, <4>3
    <3>2. {f.key[1]} # {} /\ (CHOOSE name \in {f.key[1]} : TRUE) = f.key[1]
      OBVIOUS
    <3> QED BY <3>1, <3>2 DEF ColStr
  <2> HIDE DEF e, s
  <2>4. EvalFilter(e, f) <=> LikeMatch(ColStr("entity", f), parts)
    BY <2>1, FilterLike
  <2>5. LikeMatch(s, parts) <=> Wildcard(s, parts)
    BY <2>2, MatchIsWildcard
  <2>6. EvalFilter(e, f) <=> Wildcard(s, parts)
    BY <2>3, <2>4, <2>5
  <2> QED BY <2>6 DEF e, s
<1>2. Sound => LikeIsWildcard
  BY <1>1 DEF LikeIsWildcard
<1> QED BY <1>2, SoundAlways, PTL
=============================================================================
