---------------------------- MODULE MCSqliteStore ----------------------------
(* SqliteStore for TLC: two writes under one transaction, as a bulk makes    *)
(* them, and one write that is retried with its key under new transactions.  *)
(* Scans combine each condition with each other one, and with pages.         *)
EXTENDS SqliteReads

CONSTANTS Value, Idem

Key == <<1, 2>>
MCKeys == {Key}

Write(tx, ts, branch, idem) ==
  [ns |-> DefaultNs, branch |-> branch, key |-> Key, value |-> Value, from |-> 0,
   to |-> Open, idem |-> idem, ts |-> ts, tx |-> tx]

MCWrites == {Write(1, 2, Main, None), Write(2, 3, Main, Idem), Write(3, 5, Main, Idem)}
MCRetractions ==
  {[ns |-> DefaultNs, branch |-> Main, ts |-> ts, tx |-> ts + 10] : ts \in {6, 7}}

ScanWith(entity, attr, retracted, asof, at, limit, offset) ==
  [ns : {DefaultNs}, branch : {Main}, entity : entity, attr : attr, retracted : retracted,
   asof : asof, at : at, limit : limit, offset : offset]

MCScans ==
  ScanWith({None, 1}, {None, 2}, BOOLEAN, {None, 3, 15}, {None, 1}, {None}, {None})
    \cup ScanWith({None}, {2}, BOOLEAN, {None}, {None}, {None, 1}, {None, 1})
=============================================================================
