----------------------------- MODULE MCPQLParser -----------------------------
(* PQLParser for TLC.                                                        *)
EXTENDS PQLParser

CONSTANTS Words, Kinds

MCLexemes == {Word(w) : w \in Words} \cup {Token(k) : k \in Kinds}
  \cup {<<"Int", 1>>, <<"Int", -1>>, <<"Str", "t">>, <<"Str", "h">>}

\* SELECT * FROM a, with nothing yet, with a filter begun in some way, and with two clauses.
Table == <<Word("select"), Token("Star"), Word("from"), Word("a")>>
Where(s) == Table \o <<Word("where")>> \o s
MCStarts ==
  {<< >>, Table, Where(<< >>),
   Where(<<Word("not"), Token("LParen"), Word("a"), Word("or")>>),
   Where(<<Word("a"), Word("or"), Word("a"), Token("Eq"), <<"Int", 1>>, Word("and")>>),
   Where(<<Word("a"), Word("limit"), <<"Int", 1>>, Word("order"), Word("by"), Word("a")>>)}
=============================================================================
