------------------------- MODULE ConcurrentRequests -------------------------
(***************************************************************************)
(* The same service under concurrent requests.  The routes are plain       *)
(* functions, which FastAPI runs in a pool of threads; every request has a *)
(* session of its own, and SQLite starts a transaction only with the first *)
(* write, at the commit.  A request therefore reads in separate steps:     *)
(*   - the row it moves, or the rows it compares a new one with; a session *)
(*     does not read a row again that it has loaded;                       *)
(*   - the largest number of the table it adds a row to;                   *)
(*   - the largest number of the transition table;                         *)
(* and writes in one step, which fails when a number it chose is taken.    *)
(* The update of a moved row names the row by its primary key only.        *)
(*                                                                         *)
(* Of the guards only the edge of the status machine is kept: what the     *)
(* others read (evidence, a passed retest result, a failed result) is never *)
(* taken back (Permanent in TestExecution), so a stale read of it is safe. *)
(* Only requests that move or add one row are here; with autoflush=False   *)
(* the others fail at their commit whatever runs beside them.              *)
(***************************************************************************)
EXTENDS StatusRules, Sequences, Integers

CONSTANTS Request,  \* the requests, each served once
          Title,    \* normalised titles of the defects of one result scope
          NoTitle,
          Tables    \* the tables the requests may find

VARIABLES table,  \* the rows of the two tables; the index of a row is its number
          log,    \* the transition rows of today; the index of a row is its number
          call    \* what every request has done and read so far

vars == <<table, log, call>>

Kind == {"run", "defect"}
EdgesOf(kind) == IF kind = "run" THEN RunEdges ELSE DefectEdges

\* Mutant of FirstOf: the first status of a result.
FirstOfResult(kind) == IF kind = "run" THEN FirstResultStatus ELSE FirstDefectStatus
FirstOf(kind) == IF kind = "run" THEN FirstRunStatus ELSE FirstDefectStatus

Row == [status : RunStatus \cup DefectStatus, title : Title \cup {NoTitle}]
ASSUME NoTitleIsNone == NoTitle \notin Title
ASSUME TablesOfRows == Tables \subseteq [Kind -> Seq(Row)]

\* from = Absent: the request adds the row.  number and row are 0 until chosen.
LogRow == [kind : Kind, row : Nat, from : Status, to : Status]
Done == {"committed", "refused", "failed"}
Call == [at : {"idle", "checked", "identified", "numbered"} \cup Done,
         kind : Kind, row : Nat, from : Status, to : Status,
         title : Title \cup {NoTitle}, number : Nat]

Idle == [at |-> "idle", kind |-> "run", row |-> 0, from |-> Absent, to |-> Absent,
         title |-> NoTitle, number |-> 0]

Goes(q, fields) == /\ call' = [call EXCEPT ![q] = fields]
                   /\ UNCHANGED <<table, log>>
-----------------------------------------------------------------------------
\* _load_entity_row and the check of the edge: the status is read here, once.
\* The row has its number already.
Load(q, kind, row, to) ==
  /\ call[q] = Idle
  /\ row \in DOMAIN table[kind]
  /\ LET from == table[kind][row].status IN
     Goes(q, IF <<from, to>> \in EdgesOf(kind)
               THEN [Idle EXCEPT !.at = "identified", !.kind = kind, !.row = row,
                                 !.from = from, !.to = to]
               ELSE [Idle EXCEPT !.at = "refused"])

\* save_defect looks for the title in the scope; start_run compares nothing.
SameTitle(kind, title) == \E i \in DOMAIN table[kind] : table[kind][i].title = title

Compare(q, kind, title) ==
  /\ call[q] = Idle
  /\ title = NoTitle <=> kind = "run"
  /\ Goes(q, IF kind = "defect" /\ SameTitle(kind, title)
               THEN [Idle EXCEPT !.at = "refused"]
               ELSE [Idle EXCEPT !.at = "checked", !.kind = kind,
                                 !.to = FirstOf(kind), !.title = title])

\* _next_prefixed_id on the table of the new row
Identify(q) ==
  /\ call[q].at = "checked"
  /\ Goes(q, [call[q] EXCEPT !.at = "identified", !.row = Len(table[call[q].kind]) + 1])

\* Mutant of Number: the largest number itself.
NumberLargest(q) ==
  /\ call[q].at = "identified"
  /\ Goes(q, [call[q] EXCEPT !.at = "numbered", !.number = Len(log)])

\* _next_prefixed_id on the transition table, in _insert_status_transition
Number(q) ==
  /\ call[q].at = "identified"
  /\ Goes(q, [call[q] EXCEPT !.at = "numbered", !.number = Len(log) + 1])

Adds(q) == call[q].from = Absent

\* A number the request chose is that of a committed row.
Collides(q) ==
  \/ call[q].number \in DOMAIN log
  \/ Adds(q) /\ call[q].row \in DOMAIN table[call[q].kind]

LogRowOf(q) == [kind |-> call[q].kind, row |-> call[q].row,
                from |-> call[q].from, to |-> call[q].to]

\* The table with the row added or moved.  Mutant of After: the update asks
\* for the status that was read, and may so find no row.
AfterGuarded(rows, c) ==
  IF c.from = Absent THEN Append(rows, [status |-> c.to, title |-> c.title])
  ELSE IF rows[c.row].status = c.from THEN [rows EXCEPT ![c.row] = [@ EXCEPT !.status = c.to]]
  ELSE rows

After(rows, c) ==
  IF c.from = Absent THEN Append(rows, [status |-> c.to, title |-> c.title])
  ELSE [rows EXCEPT ![c.row] = [@ EXCEPT !.status = c.to]]

\* The flush and the commit
Write(q) ==
  /\ ~Collides(q)
  /\ table' = [table EXCEPT ![call[q].kind] = After(@, call[q])]
  /\ log' = Append(log, LogRowOf(q))
  /\ call' = [call EXCEPT ![q] = [@ EXCEPT !.at = "committed"]]

\* Mutant of Fail: a collision is waited for instead of reported.
FailNever(q) ==
  /\ Collides(q)
  /\ UNCHANGED vars

Fail(q) == Collides(q) /\ Goes(q, [call[q] EXCEPT !.at = "failed"])

Commit(q) == call[q].at = "numbered" /\ (Write(q) \/ Fail(q))
-----------------------------------------------------------------------------
Init ==
  /\ table \in Tables
  /\ log = << >>
  /\ call = [q \in Request |-> Idle]

Start(q) ==
  \/ \E kind \in Kind, to \in RunStatus \cup DefectStatus :
       \E row \in DOMAIN table[kind] : Load(q, kind, row, to)
  \/ \E kind \in Kind, title \in Title \cup {NoTitle} : Compare(q, kind, title)

Continue(q) == Identify(q) \/ Number(q) \/ Commit(q)

Next == \E q \in Request : Start(q) \/ Continue(q)

\* A request that was started is run to its end: the thread waits for nothing
\* but the write lock, and for that at most busy_timeout.  No request has to be
\* made.
Spec == Init /\ [][Next]_vars /\ \A q \in Request : WF_vars(Continue(q))
-----------------------------------------------------------------------------
TypeOK ==
  /\ table \in [Kind -> Seq(Row)]
  /\ log \in Seq(LogRow)
  /\ call \in [Request -> Call]

\* The transition rows about a row, and the newest of them.
About(kind, row) == {n \in DOMAIN log : log[n].kind = kind /\ log[n].row = row}

\* Whatever requests overlap, every transition is about a row that exists, and
\* the status of a row is the one its newest transition says: both are written
\* by one transaction, so the last writer of one is the last writer of the other.
LogAgrees ==
  /\ \A n \in DOMAIN log : log[n].row \in DOMAIN table[log[n].kind]
  /\ \A kind \in Kind : \A row \in DOMAIN table[kind] : \A n \in About(kind, row) :
       (\A m \in About(kind, row) : m <= n) => table[kind][row].status = log[n].to

\* A committed request other than q has the number, or the row, q chose.
NumberTaken(q) ==
  \E p \in Request \ {q} : call[p].at = "committed" /\ call[p].number = call[q].number
RowTaken(q) ==
  \E p \in Request \ {q} : /\ call[p].at = "committed" /\ Adds(p)
                           /\ call[p].kind = call[q].kind /\ call[p].row = call[q].row

\* A request fails only because another one took its number, or that of its
\* row, and was committed: of the requests that overlap at least one gets through.
CollisionHasWinner ==
  \A q \in Request : call[q].at = "failed" => NumberTaken(q) \/ (Adds(q) /\ RowTaken(q))

\* Every request that was started ends.
Ends == \A q \in Request : call[q] # Idle ~> call[q].at \in Done
=============================================================================
