-------------------------------- MODULE MCPQL --------------------------------
(* PQL for TLC: queries asked of every store that the requests of Ledger     *)
(* can produce.  The filters meet each rule of the push-down: conjunctions,  *)
(* alternatives, negations, contradictions, literals on the left, columns    *)
(* without a literal, and literals of another type.                          *)
EXTENDS Ledger, PQL

Is(col, n) == Compare("eq", Column(col), Lit("str", n))

Filters ==
  {And(Is("entity", 1), Is("attr", 2)),
   And(Is("entity", 1), Is("entity", 2)),
   Or(Is("entity", 1), Is("attr", 2)),
   Not(Is("entity", 1)),
   And(Not(And(Is("entity", 1), Is("attr", 1))), Is("attr", 1)),
   Or(And(Is("entity", 1), Is("attr", 1)), And(Is("entity", 2), Is("attr", 1))),
   Compare("eq", Lit("str", 1), Column("entity")),
   Compare("eq", Column("entity"), Lit("int", 1)),
   Compare("ge", Column("entity"), Column("attr")),
   Not(Compare("lt", Column("value"), Lit("str", 1))),
   Compare("ne", Column("value"), Lit("str", 0)),
   IsNull(Column("value")),
   In(Column("attr"), {<<"str", 2>>, <<"int", 1>>}),
   And(Like(Column("entity"), <<<<"a">>, << >>>>), IsNotNull(Column("value"))),
   And(Compare("eq", Column("branch"), Lit("str", Main)), Compare("gt", Column("attr"), Lit("str", 1)))}

\* Names of letters that come again, and patterns that find them in several places.
MCSpelling == <<<<"a", "b", "a", "b">>, <<"a", "a", "b">>>>
MCPatterns ==
  LET one == {<< >>, <<"a">>, <<"b">>}
      two == {<<"a", "b">>, <<"b", "a">>}
  IN  {<<first, << >>>> : first \in one \cup two}
        \cup {<<first, middle, last>> : first \in {<< >>, <<"a">>}, middle \in one \cup two,
                                    last \in {<< >>, <<"b">>}}

\* The filters of the queries and of the properties, with all their parts.  TLC keeps
\* the value of FilterExprs, and not that of what stands for a constant.
Parts(S) ==
  S \cup {e.left : e \in {e \in S : e.op \in {"and", "or"}}}
    \cup {e.right : e \in {e \in S : e.op \in {"and", "or"}}}
    \cup {e.of : e \in {e \in S : e.op = "not"}}
FilterExprs ==
  Parts(Parts(Parts(Filters \cup {Compare("ne", Column("value"), Lit("str", 0))}
    \cup {WhereIs("entity", k[1]).filter[1] : k \in Keys}
    \cup {KeyAsOf(k, 0).filter[1] : k \in Keys}
    \cup {Like(Column("entity"), parts) : parts \in MCPatterns})))
MCExprs == FilterExprs
MCHeight[e \in FilterExprs] ==
  CASE e.op \in {"and", "or"} -> 1 + Max({MCHeight[e.left], MCHeight[e.right]})
    [] e.op = "not" -> 1 + MCHeight[e.of]
    [] OTHER -> 0

By(column, desc) == [column |-> column, desc |-> desc]
Orders == {<< >>, <<By("attr", TRUE), By("valid_from", FALSE)>>,
           <<By("entity", FALSE), By("tx_time", FALSE)>>}

Query(filters, orders, limits, offsets, asofs, ats) ==
  [filter : filters, order_by : orders, limit : limits, offset : offsets,
   asof : asofs, at : ats]

\* Every filter by itself, every order with and without a filter or a page, every
\* page and time with neither.
MCQueries ==
  LET each == {<<e>> : e \in Filters}
      some == {<<Not(Is("entity", 1))>>, <<Compare("ne", Column("value"), Lit("str", 0))>>}
  IN  Query(each, {<< >>}, {None}, {None}, {None}, {None})
        \cup Query(some \cup {<< >>}, Orders, {None}, {None}, {None}, {None})
        \cup Query(some, Orders, {1}, {1}, {None}, {None})
        \cup Query({<< >>}, {<< >>}, {None, 1}, {None, 1}, {1, None}, {1, None})

MCTimes == 0 .. 4
MCKeys == {<<1, 1>>, <<1, 2>>, <<2, 1>>}
MCIntervals == {[from |-> 0, to |-> 1], [from |-> 1, to |-> Open]}

\* Up to three facts are written, by a bulk only the first two, or retracted; the
\* interval goes with the value.
WhoDoesWhat ==
  /\ Cardinality(facts) <= 3
  /\ \A r \in Requests :
       /\ req[r].op \in {"idle", "storing", "retracting"}
       /\ req[r].op = "retracting" => \E f \in facts : f.id = req[r].fact
       /\ req[r].op = "storing" =>
            /\ facts # {} => Len(req[r].specs) = 1
            /\ \A i \in DOMAIN req[r].specs :
                 (req[r].specs[i].value = "null") = (req[r].specs[i].valid.to = Open)
=============================================================================
