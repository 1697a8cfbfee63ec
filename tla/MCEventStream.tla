---------------------------- MODULE MCEventStream ----------------------------
(* EventStream for TLC: events that differ in two fields, and filters that   *)
(* look at none of them, at one, and at both.                                *)
EXTENDS EventStream

CONSTANTS Ns, Attr, Here, There

MCFields == {Ns, Attr}
Event(n, a) == [d \in MCFields |-> IF d = Ns THEN n ELSE a]
MCEvents == {Event(Here, Here), Event(Here, There), Event(There, There)}
MCFilters == {Event(None, None), Event(Here, There)}
=============================================================================
