---------------------------- MODULE MCTableEdits ----------------------------
(***************************************************************************)
(* A small instance of TableEdits: one run of one round with one result of *)
(* a case with two procedures, both in testing, a defect and room for one  *)
(* evidence; and a run without results, whose transition is the newest.    *)
(* r2 and c2 are names a row may be given.                                 *)
(***************************************************************************)
EXTENDS TableEdits

References ==
  {<<"r1", "round", "g1">>, <<"r1", "target", "t1">>, <<"r1", "config", "f1">>,
   <<"r3", "round", "g1">>, <<"p1", "case", "c1">>, <<"p2", "case", "c1">>,
   <<"s1", "run", "r1">>, <<"s1", "case", "c1">>,
   <<"q1", "result", "s1">>, <<"q1", "procedure", "p1">>,
   <<"q2", "result", "s1">>, <<"q2", "procedure", "p2">>,
   <<"d1", "result", "s1">>, <<"d1", "judged", "q1">>}

Rows == {r[1] : r \in References} \cup {r[3] : r \in References}

FirstStatus(x) == CASE x \in {"g1", "t1", "f1", "c1", "p1", "p2"} -> "active"
                    [] x \in {"r1", "r3"} -> "running"
                    [] x \in {"s1", "q1", "q2"} -> "testing"
                    [] x = "d1" -> "opened"
                    [] OTHER -> Absent

SmallDatabases ==
  {[rows |-> Rows, refs |-> References,
    status |-> [x \in Id |-> FirstStatus(x)],
    text |-> [x \in Id |-> IF x = "q2" THEN "old" ELSE ""],
    log |-> [x \in Id |-> IF x \in {"r1", "r3"} THEN "running" ELSE Absent],
    numbers |-> {<<1, "r1">>, <<2, "r3">>},
    unlogged |-> {}, shrunk |-> {}, unchecked |-> {}, renumbered |-> FALSE]}

Cell(x, field, value) == [id |-> x, field |-> field, value |-> value]

SmallEditLists ==
  {<<Cell("f1", "status", "retired")>>,
   <<Cell("r1", "status", "cancelled")>>,
   <<Cell("r1", "status", "finished"), Cell("q2", "text", "new")>>,
   <<Cell("r1", "status", "cancelled"), Cell("r1", "id", "r2")>>,
   <<Cell("r1", "id", "r2"), Cell("r2", "status", "cancelled")>>,
   <<Cell("c1", "id", "c2"), Cell("f1", "status", "ACTIVE")>>,
   <<Cell("q1", "status", "passed"), Cell("c1", "status", "ACTIVE")>>,
   <<Cell("q2", "status", "skipped"), Cell("q2", "text", "new")>>,
   <<Cell("q2", "status", "passed"), Cell("d1", "text", "new")>>}

\* tests/e2e_api/test_bulk_field_update.py, 1 (a single ordinary text field): a
\* text that the editor accepts and counts is on its way to the database.
TextIsStored ==
  \A p \in Process :
    LET e == Head(call[p].edits) IN
    call[p].edits # <<>> /\ e.field = "text" /\ call'[p] = Done(p)
      => <<e.id, "text", e.value, 0>> \in call'[p].pend
AcceptedTextIsStored == [][TextIsStored]_vars
=============================================================================
