------------------------------- MODULE PQLTree -------------------------------
(* The syntax tree of a query, src/pkg/polo-core/src/pql/ast.rs: what the    *)
(* parser builds and the evaluator reads.  A literal carries its type, and   *)
(* the values of an IN are a set.                                            *)

Column(name) == [op |-> "column", name |-> name]
LitOf(lit) == [op |-> "lit", lit |-> lit]
Lit(type, of) == LitOf(<<type, of>>)
Compare(rel, left, right) == [op |-> "compare", rel |-> rel, left |-> left, right |-> right]
And(a, b) == [op |-> "and", left |-> a, right |-> b]
Or(a, b) == [op |-> "or", left |-> a, right |-> b]
Not(a) == [op |-> "not", of |-> a]
IsNull(a) == [op |-> "is_null", of |-> a]
IsNotNull(a) == [op |-> "is_not_null", of |-> a]
Like(a, pattern) == [op |-> "like", of |-> a, pattern |-> pattern]
In(a, lits) == [op |-> "in", of |-> a, lits |-> lits]
=============================================================================
