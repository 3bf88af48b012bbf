----------------------------- MODULE TableEdits -----------------------------
(***************************************************************************)
(* The table editor of the administration page: cells that are changed in  *)
(* bulk, identifiers that are renamed, rows that are deleted with their    *)
(* children, while a tester attaches evidence.                             *)
(*                                                                         *)
(* The database is a set of rows, the references between them as triples   *)
(* <<child, column, parent>>, a status and a text of every row, the newest *)
(* transition about it and the numbers of all transitions, which are those *)
(* of one day.  A request has a session: changed columns and transitions   *)
(* stay in it (pend) until a flush; the SQL of a rename is executed at     *)
(* once, takes the write lock and works on the copy of the transaction     *)
(* (work).  PRAGMA foreign_keys belongs to the connection, not to the      *)
(* transaction, and does nothing inside one.                               *)
(***************************************************************************)
EXTENDS StatusRules, Sequences, Naturals, FiniteSetsExt

CONSTANTS Round, Target, Config, Case, Procedure, Run, Result, Judged,
          Defect, Evidence,  \* identifiers; Judged are those of procedure results
          Databases,         \* what the editor may find
          EditLists,         \* the bulk updates that are sent
          Process,           \* threads that serve requests
          Connection,        \* the connections of the pool
          None

VARIABLES db,      \* the committed database
          writer,  \* who holds the write lock, or None
          work,    \* the database as the transaction of the writer sees it
          enforce, \* PRAGMA foreign_keys of every connection
          call     \* the one request that every process serves

vars == <<db, writer, work, enforce, call>>

Master == Round \cup Target \cup Config \cup Case \cup Procedure
Id     == Master \cup Run \cup Result \cup Judged \cup Defect \cup Evidence
Text   == {"", "old", "new"}
Word   == Status \cup {"active", "inactive", "archived"}

\* The columns that refer to rows.
Reference == (Run \X {"round"} \X Round) \cup (Run \X {"target"} \X Target)
               \cup (Run \X {"config"} \X Config)
               \cup (Procedure \X {"case"} \X Case)
               \cup (Result \X {"run"} \X Run) \cup (Result \X {"case"} \X Case)
               \cup ((Judged \cup Defect \cup Evidence) \X {"result"} \X Result)
               \cup (Judged \X {"procedure"} \X Procedure)
               \cup ((Defect \cup Evidence) \X {"judged"} \X Judged)
               \cup (Evidence \X {"defect"} \X Defect)

\* The last four fields are history: rows whose status was changed or which
\* were renamed without a transition, results that lost a procedure result,
\* rows inserted while their connection did not enforce references, and
\* whether transitions were deleted while a request had chosen a number.
Database == [rows : SUBSET Id, refs : SUBSET Reference,
             status : [Id -> Word], text : [Id -> Text], log : [Id -> Word],
             numbers : SUBSET (Nat \X Id),
             unlogged : SUBSET Id, shrunk : SUBSET Result, unchecked : SUBSET Id,
             renumbered : BOOLEAN]

Children(d, S, column) == {r[1] : r \in {t \in d.refs : t[2] = column /\ t[3] \in S}}
Dangling(d)            == {r \in d.refs : r[3] \notin d.rows}
JudgedOf(d, s)         == Children(d, {s}, "result") \cap Judged

Explained(d) ==
  \A r \in Dangling(d) : \/ r[1] \in Defect
                         \/ r[2] \in {"target", "config"}
                         \/ r[1] \in d.unchecked
Logged(d) == \A x \in d.rows : d.log[x] \notin {Absent, d.status[x]} => x \in d.unlogged
Summed(d) ==
  \A s \in d.rows \cap Result :
    \/ s \in d.shrunk
    \/ JudgedOf(d, s) = {}
    \/ d.status[s] = Summarize({d.status[q] : q \in JudgedOf(d, s)})

\* A column of a row holds one reference, and the evidence about a procedure result
\* belongs to its result.
Single(d) == \A r, t \in d.refs : r[1] = t[1] /\ r[2] = t[2] => r = t
Scoped(d) ==
  \A r \in d.refs : r[1] \in Evidence \ d.unchecked /\ r[2] = "judged" =>
    \E s \in Result : {<<r[1], "result", s>>, <<r[3], "result", s>>} \subseteq d.refs

\* A database that the services have written and nobody has edited yet, or edited well.
Sound(d) ==
  /\ d \in Database /\ IsFiniteSet(d.numbers)
  /\ (\A r \in d.refs : r[1] \in d.rows) /\ Single(d) /\ Scoped(d)
  /\ d.unchecked \subseteq Evidence /\ \A e \in Evidence : d.log[e] = Absent
  /\ Explained(d) /\ Logged(d)

\* The rows that the column of a set of rows leads to
Follow(d, S, column) ==
  {r[3] : r \in {t \in d.refs : t[1] \in S /\ t[2] = column}} \cap d.rows

\* _ensure_result_not_locked_for_source_mutation: the result and its run exist;
\* no round is ever locked.
ResultFound(d, s) == s \in d.rows /\ Follow(d, {s}, "run") # {}
-----------------------------------------------------------------------------
\* What may be edited: FIELD_WHITELIST, with the fields of a table that are
\* neither its identifier nor its status taken as one text.
Editable(x) ==
  CASE x \in Round \cup Target \cup Case \cup Procedure \cup Run -> {"id", "status", "text"}
    [] x \in Config \cup Judged -> {"status", "text"}
    [] x \in Defect -> {"text"}
    [] OTHER -> {}

\* The values a status cell accepts: STATUS_FIELD_VALIDATORS, and any text for
\* a run and a round.  A value is put in lower case before it is looked up,
\* and the vocabulary of cases and procedures is in upper case.
Lowered(v) == IF v = "ACTIVE" THEN "active" ELSE v

\* Mutant of Accepts: the vocabulary is not consulted.
AcceptsAny(x, v) == TRUE

Accepts(x, v) ==
  CASE x \in Target \cup Config -> Lowered(v) \in {"active", "inactive", "archived"}
    [] x \in Case \cup Procedure -> Lowered(v) \in {"DRAFT", "ACTIVE", "DEPRECATED"}
    [] x \in Judged -> Lowered(v) \in ResultStatus
    [] OTHER -> TRUE

\* What may be sent for a cell: an identifier of the same table, a text, any status
\* that can be told from others.  In lower case no word is one of the upper case.
Sendable(e) ==
  /\ e.id \in Id /\ e.field \in {"id", "status", "text"}
  /\ e.field = "text" => e.value \in Text
  /\ e.field = "status" /\ e.id \in Run \cup Round => e.value \in Word
  /\ Lowered(e.value) \notin {"DRAFT", "ACTIVE", "DEPRECATED"}
  /\ e.field = "id" => \A table \in {Target, Case, Procedure, Run} : e.id \in table => e.value \in table

Cells == UNION {{edits[i] : i \in DOMAIN edits} : edits \in EditLists}

\* The tables have identifiers of their own; a request sends a cell once (it is a
\* dictionary by row and field).
ASSUME TableAssumption ==
  /\ Round \cap (Target \cup Config \cup Case \cup Procedure \cup Run \cup Result \cup Judged \cup Defect \cup Evidence) = {}
  /\ Target \cap (Config \cup Case \cup Procedure \cup Run \cup Result \cup Judged \cup Defect \cup Evidence) = {}
  /\ Config \cap (Case \cup Procedure \cup Run \cup Result \cup Judged \cup Defect \cup Evidence) = {}
  /\ Case \cap (Procedure \cup Run \cup Result \cup Judged \cup Defect \cup Evidence) = {}
  /\ Procedure \cap (Run \cup Result \cup Judged \cup Defect \cup Evidence) = {}
  /\ Run \cap (Result \cup Judged \cup Defect \cup Evidence) = {}
  /\ Result \cap (Judged \cup Defect \cup Evidence) = {}
  /\ Judged \cap (Defect \cup Evidence) = {} /\ Defect \cap Evidence = {}
  /\ None \notin Id /\ None \notin Process /\ None \notin Connection
  /\ \A d \in Databases : Sound(d) /\ Summed(d)
  /\ EditLists \subseteq Seq(Cells) /\ \A e \in Cells : Sendable(e)
  /\ \A edits \in EditLists :
       \A i, j \in DOMAIN edits : edits[i].id = edits[j].id /\ edits[i].field = edits[j].field => i = j

Admitted(e) == /\ e.field \in Editable(e.id)
               /\ e.field = "status" => Accepts(e.id, e.value)
-----------------------------------------------------------------------------
\* A request.  edits: the cells still to be written.  pend: the changed columns
\* of the session, <<row, field, value, number of the transition or 0>>.
\* draft: the references of the evidence to be inserted.
Idle == [at |-> "idle", conn |-> None, edits |-> <<>>, pend |-> {}, draft |-> {}]
Ended == [Idle EXCEPT !.at = "ended"]

View(p)     == IF writer = p THEN work ELSE db
Free        == {c \in Connection : \A q \in Process : call[q].conn # c}
Unlocked(p) == writer \in {None, p}
Moves(pend) == {t \in pend : t[4] # 0}
Moved(pend) == {t[1] : t \in Moves(pend)}

\* _next_prefixed_id: the number after the newest one in the table; what the
\* session has not flushed is not there.
NextNumber(d) == Max({n[1] : n \in d.numbers} \cup {0}) + 1

\* Mutant of Flushable: the numbers of overlapping requests never meet.
FlushableAny(d, pend) == \A t \in pend : t[1] \in d.rows

\* An update finds its row, and the number of a transition is not taken.
Flushable(d, pend) ==
  /\ \A t \in pend : t[1] \in d.rows
  /\ \A t \in Moves(pend) : /\ \A n \in d.numbers : n[1] # t[4]
                            /\ \A u \in Moves(pend) : u[4] = t[4] => u = t

NewValue(pend, x, field, old) ==
  LET set == {t \in pend : t[1] = x /\ t[2] = field}
  IN  IF set = {} THEN old ELSE (CHOOSE t \in set : TRUE)[3]

\* Mutant of Flushed: the transition row says where the row came from.
FlushedFrom(d, pend) ==
  [d EXCEPT !.status = [x \in Id |-> NewValue(pend, x, "status", @[x])],
            !.text   = [x \in Id |-> NewValue(pend, x, "text", @[x])],
            !.log    = [x \in Id |-> IF x \in Moved(pend) THEN d.status[x] ELSE @[x]],
            !.numbers = @ \cup {<<t[4], t[1]>> : t \in Moves(pend)},
            !.unlogged = (@ \cup {t[1] : t \in {u \in pend : u[2] = "status"}}) \ Moved(pend)]

\* The flush of a session: the changed columns and the transition rows
Flushed(d, pend) ==
  [d EXCEPT !.status = [x \in Id |-> NewValue(pend, x, "status", @[x])],
            !.text   = [x \in Id |-> NewValue(pend, x, "text", @[x])],
            !.log    = [x \in Id |-> IF x \in Moved(pend)
                                       THEN NewValue(pend, x, "status", @[x]) ELSE @[x]],
            !.numbers = @ \cup {<<t[4], t[1]>> : t \in Moves(pend)},
            !.unlogged = (@ \cup {t[1] : t \in {u \in pend : u[2] = "status"}}) \ Moved(pend)]

\* Any exception, a lock that is waited for too long included: the session is
\* rolled back and closed.  The switch of its connection stays as it is.
Fails(p) ==
  /\ call' = [call EXCEPT ![p] = Ended]
  /\ writer' = IF writer = p THEN None ELSE writer
  /\ work' = IF writer = p THEN None ELSE work
  /\ UNCHANGED <<db, enforce>>

\* A commit; afterwards the session, which continues as c, has no transaction.
Commits(p, c) ==
  LET d == View(p) IN
  /\ Unlocked(p)
  /\ Flushable(d, call[p].pend)
  /\ db' = Flushed(d, call[p].pend)
  /\ call' = [call EXCEPT ![p] = c]
  /\ writer' = None /\ work' = None
  /\ UNCHANGED enforce

CannotCommit(p) == Unlocked(p) /\ ~Flushable(View(p), call[p].pend) /\ Fails(p)
-----------------------------------------------------------------------------
\* bulk_update_product_test_fields, behind the route fields/bulk-update
Begin(p) ==
  /\ call[p] = Idle
  /\ \E edits \in EditLists, c \in Free :
       call' = [call EXCEPT ![p] = [Idle EXCEPT !.at = "editing", !.edits = edits, !.conn = c]]
  /\ UNCHANGED <<db, writer, work, enforce>>

Editing(p, field, ids) == /\ call[p].at = "editing" /\ call[p].edits # <<>>
                          /\ Head(call[p].edits).field = field
                          /\ Head(call[p].edits).id \in ids
                          /\ Admitted(Head(call[p].edits))

Done(p) == [call[p] EXCEPT !.edits = Tail(@)]

Stays(p, c) == call' = [call EXCEPT ![p] = c] /\ UNCHANGED <<db, writer, work, enforce>>

RefuseEdit(p) == /\ call[p].at = "editing" /\ call[p].edits # <<>>
                 /\ ~Admitted(Head(call[p].edits))
                 /\ Fails(p)

\* An ordinary cell of a row that is not a procedure result: the checks, and
\* nothing else.  Renaming a round has no effect either.
EditText(p) ==
  LET e == Head(call[p].edits)
      found == e.id \in Defect =>
                 e.id \in View(p).rows /\ \E s \in Follow(View(p), {e.id}, "result") : ResultFound(View(p), s)
  IN  /\ Editing(p, "text", Id \ Judged) \/ Editing(p, "id", Round)
      /\ IF found THEN Stays(p, Done(p)) ELSE Fails(p)

\* _apply_status_update calls the transition service, which knows runs only (of
\* what gets here) and asks for finished_at before it finishes one.
Recorded(d, x, to) == x \in Run /\ <<d.status[x], to>> \in RunEdges /\ to # "finished"

\* ... and sets the column without a transition when the service refuses.
EditStatus(p) ==
  LET e == Head(call[p].edits)
      to == IF e.id \in Run \cup Round THEN e.value ELSE Lowered(e.value)
  IN  /\ Editing(p, "status", Master \cup Run)
      /\ IF e.id \in View(p).rows
           THEN Stays(p, [Done(p) EXCEPT !.pend = @ \cup
                             {<<e.id, "status", to, IF Recorded(View(p), e.id, to)
                                                      THEN NextNumber(View(p)) ELSE 0>>}])
           ELSE Fails(p)

\* save_procedure_result, up to its commit: the judgement or the text, and the
\* status of the result when the summary differs from it.
JudgeEdit(p) ==
  LET e == Head(call[p].edits)
      q == e.id
      d == View(p)
      to == IF e.field = "status" THEN Lowered(e.value) ELSE d.status[q]
      s == CHOOSE r \in Follow(d, {q}, "result") : TRUE
      summary == Summarize({IF r = q THEN to ELSE d.status[r] : r \in JudgedOf(d, s)})
      moves == (IF to = d.status[q] THEN {} ELSE {<<q, "status", to, NextNumber(d)>>})
                 \cup (IF summary = d.status[s] THEN {} ELSE {<<s, "status", summary, NextNumber(d)>>})
      text == IF e.field = "text" THEN {<<q, "text", e.value, 0>>} ELSE {}
      allowed == /\ q \in d.rows
                 /\ \E r \in Follow(d, {q}, "result") : ResultFound(d, r)
                 /\ to \in NeedsReason => IF e.field = "text" THEN e.value # "" ELSE d.text[q] # ""
                 /\ \A t \in moves : <<d.status[t[1]], t[3]>> \in ResultEdges
  IN  /\ Editing(p, "status", Judged) \/ Editing(p, "text", Judged)
      /\ IF allowed
           THEN Stays(p, [Done(p) EXCEPT !.at = "saving", !.pend = @ \cup moves \cup text])
           ELSE Fails(p)

\* ... and its commit, in the middle of the bulk update; the session goes on
\* with any free connection.
Save(p) ==
  /\ call[p].at = "saving"
  /\ \/ \E c \in Free \cup {call[p].conn} :
          Commits(p, [Idle EXCEPT !.at = "editing", !.edits = call[p].edits, !.conn = c])
     \/ CannotCommit(p)
-----------------------------------------------------------------------------
\* The columns that follow a renamed row
RenamedChildren(x) ==
  CASE x \in Run -> {"run"} [] x \in Target -> {"target"} [] x \in Case -> {"case"}
    [] x \in Procedure -> {"procedure"}

\* Every reference to the row follows it; its transitions do not.
RenamedRow(d, old, new) ==
  LET to(x) == IF x = old THEN new ELSE x
      refs == {<<r[1], r[2], IF r[2] \in RenamedChildren(old) THEN to(r[3]) ELSE r[3]>> : r \in d.refs}
  IN  IF old \notin d.rows THEN [d EXCEPT !.refs = refs]
      ELSE [d EXCEPT !.rows = {to(x) : x \in @},
                     !.refs = {<<to(r[1]), r[2], r[3]>> : r \in refs},
                     !.status = [@ EXCEPT ![new] = d.status[old], ![old] = Absent],
                     !.text = [@ EXCEPT ![new] = d.text[old], ![old] = ""],
                     !.unlogged = (@ \ {old}) \cup {new}]

\* The rename of an identifier: foreign keys off, the SQL, a flush of the whole
\* session.  The switch back on comes inside the transaction and has no effect.
Rename(p) ==
  LET e == Head(call[p].edits)
      d == RenamedRow(View(p), e.id, e.value)
  IN  /\ Editing(p, "id", Id \ Round)
      /\ Unlocked(p)
      /\ IF e.id = e.value THEN Stays(p, Done(p))
         ELSE IF {e.id, e.value} \subseteq View(p).rows \/ ~Flushable(d, call[p].pend)
         THEN /\ call' = [call EXCEPT ![p] = Ended]
              /\ writer' = None /\ work' = None
              /\ enforce' = [enforce EXCEPT ![call[p].conn] = FALSE]
              /\ UNCHANGED db
         ELSE /\ work' = Flushed(d, call[p].pend)
              /\ writer' = p
              /\ enforce' = [enforce EXCEPT ![call[p].conn] = FALSE]
              /\ call' = [call EXCEPT ![p] = [Done(p) EXCEPT !.pend = {}]]
              /\ UNCHANGED db

Finish(p) == /\ call[p].at = "editing" /\ call[p].edits = <<>>
             /\ Commits(p, Ended) \/ CannotCommit(p)
-----------------------------------------------------------------------------
\* _CASCADE_DELETE_SQLS, for a set S of rows of one table: the rows that go,
Doomed(d, S) ==
  LET runs    == Children(d, S, "round")
      results == Children(d, S \cup runs, "run")
      judged  == Children(d, results, "result") \cap Judged
      proof   == Children(d, results, "result") \cap Evidence
  IN  CASE S \subseteq Round -> S \cup runs \cup results \cup judged \cup proof
        [] S \subseteq Run -> S \cup results \cup judged \cup proof
        [] S \subseteq Case ->
             LET procedures == Children(d, S, "case") \cap Procedure
                 ofCase     == Children(d, S, "case") \cap Result
                 done       == Children(d, procedures, "procedure")
             IN  S \cup procedures \cup ofCase \cup done
                   \cup (Children(d, ofCase, "result") \cap (Judged \cup Evidence))
                   \cup (Children(d, done, "judged") \cap Evidence)
        [] S \subseteq Procedure ->
             LET done == Children(d, S, "procedure")
             IN  S \cup done \cup (Children(d, done, "judged") \cap Evidence)
        [] OTHER -> S

\* Mutant of Cleared: nothing is set to NULL.
ClearedNone(d, S) == {}

\* the references that are set to NULL,
Cleared(d, S) ==
  {r \in d.refs : /\ r[1] \in Evidence /\ r[3] \in S
                  /\ \/ S \subseteq Defect /\ r[2] = "defect"
                     \/ S \subseteq Judged /\ r[2] = "judged"}

\* and the rows whose transitions go.
Forgotten(d, S) == IF S \subseteq Round THEN S \cup Children(d, S, "round")
                   ELSE IF S \subseteq Run THEN S ELSE {}

Deleted(d, S) ==
  LET gone == Doomed(d, S) \cap d.rows IN
  [d EXCEPT !.rows = @ \ gone,
            !.refs = {r \in @ \ Cleared(d, S) : r[1] \notin gone},
            !.status = [x \in Id |-> IF x \in gone THEN Absent ELSE @[x]],
            !.text = [x \in Id |-> IF x \in gone THEN "" ELSE @[x]],
            !.log = [x \in Id |-> IF x \in Forgotten(d, S) THEN Absent ELSE @[x]],
            !.numbers = {n \in @ : n[2] \notin Forgotten(d, S)},
            !.unlogged = @ \ gone, !.unchecked = @ \ gone,
            !.shrunk = (@ \cup UNION {Follow(d, {q}, "result") : q \in gone \cap Judged}) \ gone]

\* bulk_delete_product_test_entities, behind the route entities/bulk-delete.
\* The first statement is the switch, the rest is one transaction that begins
\* with the first DELETE; so the switch back on has no effect.  The numbers of
\* deleted transitions are chosen again.
Renumbered(S) == /\ \E n \in db.numbers : n[2] \in Forgotten(db, S)
                 /\ \E q \in Process : Moves(call[q].pend) # {}
Delete(p, S) ==
  /\ call[p] = Idle /\ writer = None
  /\ \E c \in Free : enforce' = [enforce EXCEPT ![c] = FALSE]
  /\ db' = [Deleted(db, S) EXCEPT !.renumbered = @ \/ Renumbered(S)]
  /\ call' = [call EXCEPT ![p] = Ended]
  /\ UNCHANGED <<writer, work>>
-----------------------------------------------------------------------------
\* save_evidence, up to its commit: the result, and the procedure result or the
\* defect it is about, belong together.
CheckEvidence(p, s, q, d) ==
  /\ call[p] = Idle
  /\ ResultFound(db, s)
  /\ q # None => <<q, "result", s>> \in db.refs
  /\ d # None => <<d, "result", s>> \in db.refs
  /\ q # None /\ d # None => Follow(db, {d}, "judged") \subseteq {q}
  /\ \E e \in Evidence \ db.rows, c \in Free :
       call' = [call EXCEPT ![p] =
         [Idle EXCEPT !.at = "inserting", !.conn = c,
                      !.draft = {r \in {<<e, "result", s>>, <<e, "judged", q>>, <<e, "defect", d>>} :
                                   r[3] # None}]]
  /\ UNCHANGED <<db, writer, work, enforce>>

\* The insertion.  It fails when the number of the evidence is taken, or when
\* the connection enforces references and a parent has gone.
InsertEvidence(p) ==
  LET draft == call[p].draft
      new   == {r[1] : r \in draft}
      legal == {r[3] : r \in draft} \subseteq db.rows
      c     == call[p].conn
  IN  /\ call[p].at = "inserting" /\ writer = None
      /\ IF new \cap db.rows # {} \/ (enforce[c] /\ ~legal) THEN Fails(p)
         ELSE /\ db' = [db EXCEPT !.rows = @ \cup new, !.refs = @ \cup draft,
                                  !.unchecked = IF enforce[c] THEN @ ELSE @ \cup new]
              /\ call' = [call EXCEPT ![p] = Ended]
              /\ UNCHANGED <<writer, work, enforce>>
-----------------------------------------------------------------------------
Init == /\ db \in Databases
        /\ writer = None /\ work = None
        /\ enforce = [c \in Connection |-> TRUE]
        /\ call = [p \in Process |-> Idle]

\* A request waits for the lock of another for too long.  A rename and a
\* deletion have switched foreign keys off by then, outside any transaction.
Renaming(p) == Editing(p, "id", Id \ Round) /\ Head(call[p].edits).value # Head(call[p].edits).id

LockTimeout(p) ==
  call[p].at \notin {"idle", "ended"} /\ ~Renaming(p) /\ ~Unlocked(p) /\ Fails(p)

GivesUp(p, c) == /\ enforce' = [enforce EXCEPT ![c] = FALSE]
                 /\ call' = [call EXCEPT ![p] = Ended]
                 /\ UNCHANGED <<db, writer, work>>

RenameTimeout(p) == Renaming(p) /\ ~Unlocked(p) /\ GivesUp(p, call[p].conn)
DeleteTimeout(p) == call[p] = Idle /\ ~Unlocked(p) /\ \E c \in Free : GivesUp(p, c)

Serve(p) == \/ RefuseEdit(p) \/ EditText(p) \/ EditStatus(p) \/ JudgeEdit(p) \/ Save(p)
            \/ Rename(p) \/ Finish(p) \/ InsertEvidence(p)
            \/ LockTimeout(p) \/ RenameTimeout(p)

Next == \E p \in Process :
  \/ Begin(p)
  \/ Serve(p)
  \/ DeleteTimeout(p)
  \/ \E T \in {Round, Target, Config, Case, Procedure, Run, Judged, Defect} :
       \E S \in SUBSET T : S # {} /\ Delete(p, S)
  \/ \E s \in Result, q \in Judged \cup {None}, d \in Defect \cup {None} : CheckEvidence(p, s, q, d)

Spec == Init /\ [][Next]_vars
-----------------------------------------------------------------------------
\* Types of every variable; a transaction has a copy exactly when it has the lock.
TypeOK == /\ db \in Database
          /\ writer \in Process \cup {None}
          /\ IF writer = None THEN work = None ELSE work \in Database
          /\ enforce \in [Connection -> BOOLEAN]
          /\ \A p \in Process :
               /\ call[p].at \in {"idle", "editing", "saving", "inserting", "ended"}
               /\ call[p].conn \in Connection \cup {None}

\* Renames and deletions leave only these references without a row: those of
\* defects, which no cascade of a run, case, procedure or procedure result
\* names; those of a run to its target and configuration, which are deleted
\* alone; and those of evidence that a connection inserted unchecked, because an
\* editor had left it with foreign keys off.  Judged rows, results, procedures
\* and checked evidence always have their parents.
DanglingIsExplained == Explained(db)

\* A status differs from the newest transition about its row only when an
\* editor set it past the transition service or renamed the row: sessions that
\* overlap, are committed half way or find their row gone record what they store.
LogExplained == Logged(db)

\* A result has the status of the summary of its procedure results unless one
\* of them was deleted, however the cells of its procedures are edited: of two
\* saves that overlap one finds its number taken and fails.  (Until transitions are
\* deleted under way: then two saves may have chosen different numbers.)
SummaryExplained == db.renumbered \/ Summed(db)
=============================================================================
