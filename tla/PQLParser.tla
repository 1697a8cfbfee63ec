------------------------------ MODULE PQLParser ------------------------------
(***************************************************************************)
(* How polo reads the text of a query: lexer.rs and parser.rs of           *)
(* src/pkg/polo-core/src/pql.  A text is a sequence of lexemes: words,     *)
(* which the lexer tells apart into keywords, pairs of keywords and names, *)
(* and tokens that are what they look like.  A parser reads the tokens t   *)
(* from i on, and returns the tree and the token it stopped before, or     *)
(* the token that it could not go on with.                                 *)
(***************************************************************************)
EXTENDS PQLTree, Integers, Sequences, SequencesExt

CONSTANTS
  Lexemes,      \* What texts are made of.
  Starts,       \* The texts to begin with.
  MaxLexemes,   \* Bound: lexemes added to one of them.
  Datetimes,    \* The strings that read as a time,
  Hlcs,         \* and as a timestamp.
  None          \* A clause that is not there.

ASSUME ParserAssumption == MaxLexemes \in Nat

VARIABLES
  text,         \* The text so far.
  added         \* Counts the lexemes added to the start.

vars == <<text, added>>

-----------------------------------------------------------------------------
(* The lexer                                                               *)

Keyword ==
  [select |-> "Select", from |-> "From", where |-> "Where", and |-> "And", or |-> "Or",
   not |-> "Not", order |-> "Order", by |-> "By", asc |-> "Asc", desc |-> "Desc",
   limit |-> "Limit", offset |-> "Offset", effective |-> "EffectiveAt", as |-> "AsOf",
   like |-> "Like", in |-> "In", is |-> "Is", null |-> "Null", true |-> "True",
   false |-> "False"]

\* Keywords of two words; the second may be left out.
Second == [effective |-> "at", as |-> "of", order |-> "by"]

Word(w) == <<"Word", w>>
Token(kind) == <<kind, 0>>

TokenOf(lexeme) ==
  IF lexeme[1] # "Word" THEN lexeme
  ELSE IF lexeme[2] \in DOMAIN Keyword THEN Token(Keyword[lexeme[2]]) ELSE <<"Ident", lexeme[2]>>

Pair(first, second) ==
  first[1] = "Word" /\ first[2] \in DOMAIN Second /\ second = Word(Second[first[2]])

\* Mutant of Tokenize: a second word is a word of its own.
RECURSIVE TokenizeEach(_)
TokenizeEach(s) ==
  IF s = << >> THEN << >> ELSE <<TokenOf(Head(s))>> \o TokenizeEach(Tail(s))

RECURSIVE Tokenize(_)
Tokenize(s) ==
  IF s = << >> THEN << >>
  ELSE LET rest == IF Len(s) > 1 /\ Pair(s[1], s[2]) THEN Tail(Tail(s)) ELSE Tail(s)
       IN  <<TokenOf(Head(s))>> \o Tokenize(rest)

-----------------------------------------------------------------------------
(* The parser: results, and what reads one token                           *)

Kind(t, i) == IF i <= Len(t) THEN t[i][1] ELSE "Eof"

Done(tree, i) == [ok |-> TRUE, tree |-> tree, at |-> i]
Fail(i) == [ok |-> FALSE, tree |-> << >>, at |-> i]

\* The ? operator.
Then(r, Next(_, _)) == IF r.ok THEN Next(r.tree, r.at) ELSE r

Expect(t, i, kind) == IF Kind(t, i) = kind THEN Done(<< >>, i + 1) ELSE Fail(i)

Literals == {"Str", "Int", "Float", "True", "False", "Null"}
Literal(token) ==
  CASE token[1] = "Str" -> <<"str", token[2]>>
    [] token[1] = "Int" -> <<"int", token[2]>>
    [] token[1] = "Float" -> <<"float", token[2]>>
    [] token[1] = "True" -> <<"bool", 1>>
    [] token[1] = "False" -> <<"bool", 0>>
    [] token[1] = "Null" -> <<"null", 0>>

ParseLiteral(t, i) ==
  IF Kind(t, i) \in Literals THEN Done(Literal(t[i]), i + 1) ELSE Fail(i)

\* A string that reads as one of times.
ParseTime(t, i, times) ==
  IF Kind(t, i) = "Str" /\ t[i][2] \in times THEN Done(t[i][2], i + 1) ELSE Fail(i)

ParseUsize(t, i) ==
  IF Kind(t, i) = "Int" /\ t[i][2] >= 0 THEN Done(t[i][2], i + 1) ELSE Fail(i)

-----------------------------------------------------------------------------
(* Lists                                                                   *)

\* Columns, each but the last followed by a comma; the last may be as well.
RECURSIVE ParseColumns(_, _, _)
ParseColumns(t, i, cols) ==
  IF Kind(t, i) \in {"Star", "Ident"}
  THEN LET more == Append(cols, IF Kind(t, i) = "Star" THEN "*" ELSE t[i][2])
       IN  IF Kind(t, i + 1) = "Comma" THEN ParseColumns(t, i + 2, more)
                                       ELSE Done(more, i + 1)
  ELSE IF cols = << >> THEN Fail(i) ELSE Done(cols, i)

RECURSIVE ParseOrderBy(_, _, _)
ParseOrderBy(t, i, items) ==
  IF Kind(t, i) # "Ident" THEN Done(items, i)
  ELSE LET j == IF Kind(t, i + 1) \in {"Asc", "Desc"} THEN i + 2 ELSE i + 1
           more == Append(items, [column |-> t[i][2], desc |-> Kind(t, i + 1) = "Desc"])
       IN  IF Kind(t, j) = "Comma" THEN ParseOrderBy(t, j + 1, more) ELSE Done(more, j)

RECURSIVE ParseValues(_, _, _)
ParseValues(t, i, values) ==
  Then(ParseLiteral(t, i), LAMBDA lit, j :
    IF Kind(t, j) = "Comma" THEN ParseValues(t, j + 1, values \cup {lit})
                            ELSE Done(values \cup {lit}, j))

-----------------------------------------------------------------------------
(* Expressions                                                             *)

Relation == [Eq |-> "eq", Ne |-> "ne", Lt |-> "lt", Le |-> "le", Gt |-> "gt", Ge |-> "ge"]

RECURSIVE ParseOr(_, _), MoreOr(_, _, _), ParseAnd(_, _), MoreAnd(_, _, _),
          ParseNot(_, _), ParsePredicate(_, _), ParseAtom(_, _)

ParseAtom(t, i) ==
  CASE Kind(t, i) = "Ident" -> Done(Column(t[i][2]), i + 1)
    [] Kind(t, i) = "LParen" ->
         Then(ParseOr(t, i + 1), LAMBDA inner, j :
         Then(Expect(t, j, "RParen"), LAMBDA paren, k : Done(inner, k)))
    [] OTHER -> Then(ParseLiteral(t, i), LAMBDA lit, j : Done(LitOf(lit), j))

ParsePredicate(t, i) ==
  Then(ParseAtom(t, i), LAMBDA left, j :
    CASE Kind(t, j) \in DOMAIN Relation ->
           Then(ParseAtom(t, j + 1), LAMBDA right, k :
             Done(Compare(Relation[Kind(t, j)], left, right), k))
      [] Kind(t, j) = "Like" ->
           IF Kind(t, j + 1) = "Str" THEN Done(Like(left, t[j + 1][2]), j + 2) ELSE Fail(j + 1)
      [] Kind(t, j) = "In" ->
           Then(Expect(t, j + 1, "LParen"), LAMBDA paren, k :
           Then(ParseValues(t, k, {}), LAMBDA values, l :
           Then(Expect(t, l, "RParen"), LAMBDA close, m : Done(In(left, values), m))))
      [] Kind(t, j) = "Is" ->
           IF Kind(t, j + 1) = "Not"
           THEN Then(Expect(t, j + 2, "Null"), LAMBDA null, k : Done(IsNotNull(left), k))
           ELSE Then(Expect(t, j + 1, "Null"), LAMBDA null, k : Done(IsNull(left), k))
      [] OTHER -> Done(left, j))

ParseNot(t, i) ==
  IF Kind(t, i) = "Not"
  THEN Then(ParseNot(t, i + 1), LAMBDA inner, j : Done(Not(inner), j))
  ELSE ParsePredicate(t, i)

MoreAnd(t, left, i) ==
  IF Kind(t, i) = "And"
  THEN Then(ParseNot(t, i + 1), LAMBDA right, j : MoreAnd(t, And(left, right), j))
  ELSE Done(left, i)

ParseAnd(t, i) == Then(ParseNot(t, i), LAMBDA left, j : MoreAnd(t, left, j))

\* Mutant of MoreOr: what follows an OR is the rest of the expression.
MoreOrRight(t, left, i) ==
  IF Kind(t, i) = "Or"
  THEN Then(ParseOr(t, i + 1), LAMBDA right, j : Done(Or(left, right), j))
  ELSE Done(left, i)

MoreOr(t, left, i) ==
  IF Kind(t, i) = "Or"
  THEN Then(ParseAnd(t, i + 1), LAMBDA right, j : MoreOr(t, Or(left, right), j))
  ELSE Done(left, i)

ParseOr(t, i) == Then(ParseAnd(t, i), LAMBDA left, j : MoreOr(t, left, j))

-----------------------------------------------------------------------------
(* Queries                                                                 *)

\* Mutant of Put: the first clause of a kind counts.
PutOnce(q, clause, value) ==
  IF q[clause] \in {None, << >>} THEN [q EXCEPT ![clause] = value] ELSE q

\* A clause takes the place of an earlier one of its kind.
Put(q, clause, value) == [q EXCEPT ![clause] = value]

\* Clauses in any order.
RECURSIVE ParseClauses(_, _, _)
ParseClauses(t, i, q) ==
  CASE Kind(t, i) = "Where" ->
         Then(ParseOr(t, i + 1), LAMBDA e, j : ParseClauses(t, j, Put(q, "filter", <<e>>)))
    [] Kind(t, i) = "EffectiveAt" ->
         Then(ParseTime(t, i + 1, Datetimes), LAMBDA at, j : ParseClauses(t, j, Put(q, "at", at)))
    [] Kind(t, i) = "AsOf" ->
         Then(ParseTime(t, i + 1, Hlcs), LAMBDA ts, j : ParseClauses(t, j, Put(q, "asof", ts)))
    [] Kind(t, i) = "Order" ->
         Then(ParseOrderBy(t, i + 1, << >>), LAMBDA by, j :
           ParseClauses(t, j, Put(q, "order_by", by)))
    [] Kind(t, i) = "Limit" ->
         Then(ParseUsize(t, i + 1), LAMBDA n, j : ParseClauses(t, j, Put(q, "limit", n)))
    [] Kind(t, i) = "Offset" ->
         Then(ParseUsize(t, i + 1), LAMBDA n, j : ParseClauses(t, j, Put(q, "offset", n)))
    [] Kind(t, i) = "Eof" -> Done(q, i)
    [] OTHER -> Fail(i)

ParseQuery(t) ==
  Then(Expect(t, 1, "Select"), LAMBDA select, i :
  Then(ParseColumns(t, i, << >>), LAMBDA cols, j :
  Then(Expect(t, j, "From"), LAMBDA from, k :
    IF Kind(t, k) # "Ident" THEN Fail(k)
    ELSE ParseClauses(t, k + 1,
           [columns |-> cols, namespace |-> t[k][2], filter |-> << >>, at |-> None,
            asof |-> None, order_by |-> << >>, limit |-> None, offset |-> None]))))

-----------------------------------------------------------------------------
(* Texts grow by one lexeme as long as they may still become a query.      *)

Tokens == Tokenize(text)
Parsed == ParseQuery(Tokens)

MayGoOn == LET r == Parsed IN r.ok \/ r.at > Len(Tokens)

Init == text \in Starts /\ added = 0

Next ==
  /\ added < MaxLexemes /\ MayGoOn
  /\ \E l \in Lexemes : text' = Append(text, l)
  /\ added' = added + 1

Spec == Init /\ [][Next]_vars

-----------------------------------------------------------------------------
(* What the language is: the trees that a sequence of tokens stands for    *)

\* The tokens of a text: those of the lexemes that are not the second of a pair.
Written ==
  LET marked == [i \in DOMAIN text |-> [second |-> i > 1 /\ Pair(text[i - 1], text[i]),
                                        token |-> TokenOf(text[i])]]
      kept == SelectSeq(marked, LAMBDA m : ~m.second)
  IN  [k \in DOMAIN kept |-> kept[k].token]

RECURSIVE Disjunctions(_), Conjunctions(_), Negations(_), Atoms(_)

\* The places of a kind of token, and what is before and after them.
Places(s, kind) == {i \in DOMAIN s : s[i][1] = kind}
Before(s, i) == SubSeq(s, 1, i - 1)
After(s, i) == SubSeq(s, i + 1, Len(s))

Atoms(s) ==
  {Column(s[1][2]) : i \in IF Len(s) = 1 THEN Places(s, "Ident") ELSE {}}
    \cup {LitOf(Literal(s[1])) : i \in IF Len(s) = 1 /\ s[1][1] \in Literals THEN {1} ELSE {}}
    \cup IF Len(s) > 2 /\ s[1][1] = "LParen" /\ Last(s)[1] = "RParen"
         THEN Disjunctions(SubSeq(s, 2, Len(s) - 1)) ELSE {}

\* Literals with commas between them.
IsValues(s) ==
  /\ Len(s) % 2 = 1
  /\ \A i \in DOMAIN s : IF i % 2 = 1 THEN s[i][1] \in Literals ELSE s[i][1] = "Comma"
ValuesOf(s) == {Literal(s[i]) : i \in {i \in DOMAIN s : i % 2 = 1}}

Predicates(s) ==
  Atoms(s)
    \cup UNION {{Compare(Relation[s[i][1]], a, b) : a \in Atoms(Before(s, i)), b \in Atoms(After(s, i))} :
                i \in {i \in DOMAIN s : s[i][1] \in DOMAIN Relation}}
    \cup UNION {{Like(a, Last(s)[2]) : a \in Atoms(Before(s, i))} :
                i \in {i \in Places(s, "Like") : i = Len(s) - 1 /\ Last(s)[1] = "Str"}}
    \cup UNION {{In(a, ValuesOf(SubSeq(s, i + 2, Len(s) - 1))) : a \in Atoms(Before(s, i))} :
                i \in {i \in Places(s, "In") :
                         /\ i + 2 < Len(s) /\ s[i + 1][1] = "LParen" /\ Last(s)[1] = "RParen"
                         /\ IsValues(SubSeq(s, i + 2, Len(s) - 1))}}
    \cup UNION {{IF After(s, i) = <<Token("Null")>> THEN IsNull(a) ELSE IsNotNull(a) :
                   a \in Atoms(Before(s, i))} :
                i \in {i \in Places(s, "Is") :
                         After(s, i) \in {<<Token("Null")>>, <<Token("Not"), Token("Null")>>}}}

Negations(s) ==
  Predicates(s)
    \cup IF s # << >> /\ s[1][1] = "Not" THEN {Not(a) : a \in Negations(Tail(s))} ELSE {}

Conjunctions(s) ==
  Negations(s)
    \cup UNION {{And(a, b) : a \in Conjunctions(Before(s, i)), b \in Negations(After(s, i))} :
                i \in Places(s, "And")}

Disjunctions(s) ==
  Conjunctions(s)
    \cup UNION {{Or(a, b) : a \in Disjunctions(Before(s, i)), b \in Conjunctions(After(s, i))} :
                i \in Places(s, "Or")}

\* Names with commas between them, and perhaps one at the end.
IsColumns(s) ==
  /\ s # << >>
  /\ \A i \in DOMAIN s : IF i % 2 = 1 THEN s[i][1] \in {"Star", "Ident"} ELSE s[i][1] = "Comma"

IsOrderBy(s) ==
  \A i \in DOMAIN s :
    CASE s[i][1] = "Ident" -> i = 1 \/ s[i - 1][1] = "Comma"
      [] s[i][1] \in {"Asc", "Desc"} -> i > 1 /\ s[i - 1][1] = "Ident"
      [] s[i][1] = "Comma" -> i > 1 /\ s[i - 1][1] # "Comma"
      [] OTHER -> FALSE

Clauses == {"Where", "EffectiveAt", "AsOf", "Order", "Limit", "Offset"}

\* The clause that begins at i goes on to the next one.
Body(s, i) ==
  LET ends == {j \in DOMAIN s : j > i /\ s[j][1] \in Clauses} \cup {Len(s) + 1}
  IN  SubSeq(s, i + 1, (CHOOSE j \in ends : \A k \in ends : j <= k) - 1)

IsClause(kind, s) ==
  CASE kind = "Where" -> Disjunctions(s) # {}
    [] kind = "Order" -> IsOrderBy(s)
    [] kind \in {"Limit", "Offset"} -> Len(s) = 1 /\ s[1][1] = "Int" /\ s[1][2] >= 0
    [] kind = "EffectiveAt" -> Len(s) = 1 /\ s[1][1] = "Str" /\ s[1][2] \in Datetimes
    [] kind = "AsOf" -> Len(s) = 1 /\ s[1][1] = "Str" /\ s[1][2] \in Hlcs

\* SELECT columns FROM name, and clauses from there to the end.
IsQuery(s) ==
  \E f \in Places(s, "From") :
    /\ f > 1 /\ s[1][1] = "Select" /\ IsColumns(SubSeq(s, 2, f - 1))
    /\ Kind(s, f + 1) = "Ident"
    /\ f + 2 > Len(s) \/ s[f + 2][1] \in Clauses
    /\ \A i \in f + 2 .. Len(s) : s[i][1] \in Clauses => IsClause(s[i][1], Body(s, i))

\* The body of the last clause of a kind, if there is one.
LastBody(s, kind) ==
  {Body(s, i) : i \in {i \in Places(s, kind) : \A j \in Places(s, kind) : j <= i}}

-----------------------------------------------------------------------------
(* Properties                                                              *)

\* A text is accepted if it is a query, and only then: pairs of words are read as one,
\* the parser never stops in the middle, and what it refuses is no query
\* (lexer.rs:150-195, parser.rs:18-80).
AcceptsQueries == Parsed.ok <=> IsQuery(Written)

\* The filter of a query is the one tree its tokens stand for, however NOT, AND and
\* OR, comparisons, lists and parentheses are put together (parser.rs:115-262).
FilterAsWritten ==
  Parsed.ok => {Parsed.tree.filter} =
    IF Places(Written, "Where") = {} THEN {<< >>}
    ELSE {<<e>> : e \in UNION {Disjunctions(s) : s \in LastBody(Written, "Where")}}

\* Where a clause is given twice the last one counts, wherever it is, and no clause
\* takes tokens from the next (parser.rs:40-68, 272-305).
LastClauseCounts ==
  Parsed.ok =>
    LET q == Parsed.tree
        value(kind) == IF Places(Written, kind) = {} THEN {None}
                       ELSE {s[1][2] : s \in LastBody(Written, kind)}
        columns(s) == SelectSeq(s, LAMBDA token : token[1] = "Ident")
    IN  /\ {q.limit} = value("Limit") /\ {q.offset} = value("Offset")
        /\ {q.at} = value("EffectiveAt") /\ {q.asof} = value("AsOf")
        /\ \A s \in LastBody(Written, "Order") :
             /\ Len(q.order_by) = Len(columns(s))
             /\ \A i \in DOMAIN q.order_by : q.order_by[i].column = columns(s)[i][2]
             /\ Len(SelectSeq(q.order_by, LAMBDA by : by.desc)) = Cardinality(Places(s, "Desc"))
=============================================================================
