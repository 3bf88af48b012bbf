---------------------------- MODULE TrackingPage ----------------------------
(***************************************************************************)
(* The tracking page: browsers that keep settings and sheets of their own  *)
(* and save them behind the user's back (static/js/tracking-ui-state.js,   *)
(* the custom sheets of static/js/tracking.js), and the server that holds  *)
(* them with the work calendar (app/routers/tracking_router.py).           *)
(*                                                                         *)
(* A request is a call under way.  A handler that writes looks its row up  *)
(* in one step and commits in another, for handlers run in threads of      *)
(* their own; one that fails with an exception changes nothing.            *)
(*                                                                         *)
(* A sheet is the set of cells that somebody has filled in: an edit fills  *)
(* in a cell, a save sends all of them.  The sheets are those of one       *)
(* region; moving a tab is left to the interface, no button does it.       *)
(***************************************************************************)
EXTENDS TrackingSummary

CONSTANTS Browser, Key, Date, Sheet, Cell, Value,
          Existing,       \* the sheets of the beginning, in their order: a sequence
          Entity,         \* the contents of the sheets "entity/..." to look at
          Sample,         \* that among them with which users are followed
          MaxEdits        \* bound: what users and the network do
Keyed == Key \cup Date

\* Settings, days and sheets are told apart, None from all that is stored or answered.
ASSUME PageAssumption ==
  /\ IsFiniteSet(Sheet) /\ Key \cap Date = {} /\ Keyed \cap Sheet = {}
  /\ None \notin Keyed \cup Sheet \cup Browser \cup Value
  /\ (\A cells \in SUBSET Cell : None # cells) /\ None \notin [order : Nat, cells : SUBSET Cell]
  /\ None \notin BOOLEAN /\ None \notin Nat /\ None \notin {"ok", "error"}
  /\ {"ok", "error"} \cap Sheet = {}
  /\ Existing \in Seq(Sheet) /\ \A i, j \in DOMAIN Existing : Existing[i] = Existing[j] => i = j

\* A sheet is a list of rows, and those that others name have an identifier.
ASSUME EntityAssumption ==
  \A e \in Entity :
    \A t \in {"round", "run", "result", "defect"} :
      /\ e[t] \in Seq(Range(e[t])) /\ None \notin Range(e[t])
      /\ \A k \in DOMAIN e[t] : e[t][k].id \in Nat

VARIABLES table,          \* ui_state_pref and work_calendar
          sheets,         \* custom_sheet_tab: order and cells of a sheet, or None
          entity,         \* the sheets of the regions entity/...
          browser,        \* local storage, timers and sheets of each browser
          calls,          \* requests and answers under way
          edits,
          wanted,         \* what users want to be stored: the last value; all cells
          shown,          \* the browser that set a key and ought to see it, or None
          raced,          \* the keys, dates and sheets excused: see the properties
          gap             \* whether the orders of the tabs may have a gap
stored == <<table, sheets>>
ghosts == <<wanted, shown, raced, gap>>
vars   == <<stored, entity, browser, calls, edits, ghosts>>

Tabs == {s \in Sheet : sheets[s] # None}
Orders == {sheets[s].order : s \in Tabs}
Cells(s) == IF sheets[s] = None THEN None ELSE sheets[s].cells
On(thing) == {c \in calls : c.of = thing}
Loading(b) == \E c \in calls : c.kind = "load" /\ c.from = b
Saving(b, s) == \E c \in On(s) : c.kind = "patch" /\ c.from = b

\* Equal calls under way are one: where calls about one thing overlap it is excused.
Call(kind, from, of, value) ==
  [kind |-> kind, from |-> from, of |-> of, value |-> value, seen |-> None, answer |-> None]
Send(kind, from, of, value) == calls' = calls \cup {Call(kind, from, of, value)}

Edit == entity = Sample /\ edits < MaxEdits /\ edits' = edits + 1 /\ UNCHANGED entity

Page(mode) == [mode |-> mode, local |-> [k \in Key |-> None], timer |-> [k \in Key |-> None],
               copy |-> [s \in Sheet |-> None], dirty |-> {}]

Init ==
  /\ table = [k \in Keyed |-> None]
  /\ sheets = [s \in Sheet |-> IF s \in Range(Existing)
                               THEN [order |-> CHOOSE i \in 0..(Len(Existing) - 1) : Existing[i + 1] = s,
                                     cells |-> {}] ELSE None]
  /\ entity \in Entity
  /\ browser = [b \in Browser |-> [Page("db") EXCEPT !.copy = [s \in Sheet |-> Cells(s)]]]
  /\ calls = {} /\ edits = 0
  /\ wanted = [x \in Keyed \cup Sheet |-> IF x \in Sheet THEN {} ELSE None]
  /\ shown = [k \in Key |-> None] /\ raced = {} /\ gap = FALSE

----------------------------------------------------------------------------
(* Settings of the page: tracking-ui-state.js. *)

Rivals(b, k) == \E o \in Browser \ {b} : browser[o].timer[k] # None

\* What the user of b wants k to be, if the settings are those of the server.
Want(b, k, v) ==
  /\ wanted' = [wanted EXCEPT ![k] = v]
  /\ shown' = [shown EXCEPT ![k] = IF Loading(b) THEN None ELSE b]
  /\ UNCHANGED gap

\* uiStateSetItem: the value is stored here at once and there when its timer fires.
SetItem(b, k, v) ==
  /\ Edit
  /\ IF browser[b].mode = "db"
     THEN /\ browser' = [browser EXCEPT ![b].local[k] = v, ![b].timer[k] = v]
          /\ Want(b, k, v)
          /\ raced' = IF Rivals(b, k) THEN raced \cup {k} ELSE raced
     ELSE /\ browser' = [browser EXCEPT ![b].local[k] = v]
          /\ shown' = [shown EXCEPT ![k] = IF @ = b THEN None ELSE @]
          /\ UNCHANGED <<wanted, raced, gap>>
  /\ UNCHANGED <<stored, calls>>

\* uiStateRemoveItem: without delay, and the timer is gone.
RemoveItem(b, k) ==
  /\ Edit
  /\ IF browser[b].mode = "db"
     THEN /\ browser' = [browser EXCEPT ![b].local[k] = None, ![b].timer[k] = None]
          /\ Send("delete", b, k, None)
          /\ Want(b, k, None)
          /\ raced' = IF Rivals(b, k) \/ On(k) # {} THEN raced \cup {k} ELSE raced
     ELSE /\ browser' = [browser EXCEPT ![b].local[k] = None]
          /\ shown' = [shown EXCEPT ![k] = IF @ = b THEN None ELSE @]
          /\ UNCHANGED <<calls, wanted, raced, gap>>
  /\ UNCHANGED stored

SaveItem(b, k) ==
  /\ browser[b].timer[k] # None
  /\ browser' = [browser EXCEPT ![b].timer[k] = None]
  /\ Send("put", b, k, browser[b].timer[k])
  /\ raced' = IF On(k) # {} THEN raced \cup {k} ELSE raced
  /\ UNCHANGED <<stored, entity, edits, wanted, shown, gap>>

\* flushPendingUiStateSaves, when the page is hidden and when it is left.
Pending(b) == {k \in Key : browser[b].timer[k] # None}
FlushNothing(b) == {}
Flush(b) == {Call("put", b, k, browser[b].timer[k]) : k \in Pending(b)}
Busy(b) == {k \in Pending(b) : On(k) # {}}

Hide(b) ==
  /\ Pending(b) # {}
  /\ calls' = calls \cup Flush(b)
  /\ browser' = [browser EXCEPT ![b].timer = [k \in Key |-> None]]
  /\ raced' = raced \cup Busy(b)
  /\ UNCHANGED <<stored, entity, edits, wanted, shown, gap>>

\* The page is loaded anew, perhaps in the other mode (the button): the settings are
\* flushed, edits of sheets that are not yet sent are lost, answers find nobody.  The
\* new page asks for the sheets and, unless they are local, for the settings.
Reload(b, mode) ==
  LET left == {c \in calls \cup Flush(b) : c.from = b /\ c.kind # "load" /\ c.answer = None}
  IN  /\ Edit
      /\ calls' = {c \in calls : c.from # b} \cup {[c EXCEPT !.from = None] : c \in left}
                    \cup {Call("load", b, None, mode)}
      /\ browser' = [browser EXCEPT ![b] = [Page(mode) EXCEPT !.local = browser[b].local]]
      /\ shown' = [k \in Key |-> IF shown[k] = b /\ (k \in Pending(b) \/ On(k) # {}) THEN None ELSE shown[k]]
      /\ raced' = raced \cup Busy(b) \cup browser[b].dirty
                       \cup {c.of : c \in {x \in calls : x.from = b /\ x.kind = "patch" /\ x.answer = "error"}}
      /\ UNCHANGED <<stored, wanted, gap>>

\* hydrateUiStateFromServer: what the server has replaces what is here, what it has not
\* stays.  The tabs of the sheets are built from the same page load (the double of a
\* tab that was created meanwhile is not followed).
Load(c) ==
  /\ c.kind = "load" /\ c.answer = None
  /\ calls' = (calls \ {c}) \cup {[c EXCEPT !.answer = <<table, [s \in Sheet |-> Cells(s)]>>]}
  /\ UNCHANGED <<stored, entity, browser, edits, ghosts>>
Loaded(c) ==
  /\ c.kind = "load" /\ c.answer # None
  /\ calls' = calls \ {c}
  /\ browser' = [browser EXCEPT
       ![c.from].local = IF c.value = "local" THEN @
                         ELSE [k \in Key |-> IF c.answer[1][k] # None THEN c.answer[1][k] ELSE @[k]],
       ![c.from].copy = [s \in Sheet |-> IF @[s] # None THEN @[s] ELSE c.answer[2][s]]]
  /\ UNCHANGED <<stored, entity, edits, ghosts>>

----------------------------------------------------------------------------
(* The work calendar and the sheets: tracking.js. *)

\* upsert_work_calendar and delete_work_calendar, asked for by an administrator.
AskDate(d, v) ==
  /\ Edit
  /\ Send(IF v = None THEN "delete" ELSE "put", None, d, v)
  /\ wanted' = [wanted EXCEPT ![d] = v]
  /\ raced' = IF On(d) # {} THEN raced \cup {d} ELSE raced
  /\ UNCHANGED <<stored, browser, shown, gap>>

\* An edit whose author does not see all the edits made, or whose last save is under
\* way and will be answered with the cells it had, may be lost.
EditCell(b, s, c) ==
  /\ Edit
  /\ browser[b].copy[s] # None /\ c \notin browser[b].copy[s]
  /\ browser' = [browser EXCEPT ![b].copy[s] = @ \cup {c}, ![b].dirty = @ \cup {s}]
  /\ wanted' = [wanted EXCEPT ![s] = @ \cup {c}]
  /\ raced' = IF wanted[s] \subseteq browser[b].copy[s] /\ ~Saving(b, s) THEN raced ELSE raced \cup {s}
  /\ UNCHANGED <<stored, calls, shown, gap>>

\* scheduleCustomSheetSave, when its timer fires: the cells of this moment.
SaveSheet(b, s) ==
  /\ s \in browser[b].dirty
  /\ browser' = [browser EXCEPT ![b].dirty = @ \ {s}]
  /\ Send("patch", b, s, browser[b].copy[s])
  /\ UNCHANGED <<stored, entity, edits, ghosts>>

\* After an error the save is scheduled again; a tab that is closed takes its timer along.
GiveUp(b, s) == browser
Retry(b, s) == [browser EXCEPT ![b].dirty = @ \cup {s}]
ForgetTab(b, s) == [browser EXCEPT ![b].copy[s] = None]
Forget(b, s) == [browser EXCEPT ![b].copy[s] = None, ![b].dirty = @ \ {s}]

\* The answer replaces the cells here.
Saved(c) ==
  /\ c.kind = "patch" /\ c.answer # None
  /\ calls' = calls \ {c}
  /\ browser' = IF c.from = None \/ browser[c.from].copy[c.of] = None THEN browser
                ELSE IF c.answer = "error" THEN Retry(c.from, c.of)
                ELSE [browser EXCEPT ![c.from].copy[c.of] = c.value]
  /\ UNCHANGED <<stored, entity, edits, ghosts>>

\* The button waits for its answer; so does the cross of a tab.
NewTab(b) ==
  /\ Edit /\ \A c \in calls : c.kind = "post" => c.from # b
  /\ Send("post", b, None, None)
  /\ UNCHANGED <<stored, browser, ghosts>>
CloseTab(b, s) ==
  /\ Edit /\ browser[b].copy[s] # None
  /\ Send("drop", b, s, None)
  /\ UNCHANGED <<stored, browser, ghosts>>
Closed(c) ==
  /\ c.kind \in {"post", "drop"} /\ c.answer # None
  /\ calls' = calls \ {c}
  /\ browser' = IF c.from = None \/ c.answer = "error" THEN browser
                ELSE IF c.kind = "post" THEN [browser EXCEPT ![c.from].copy[c.answer] = IF @ = None THEN {} ELSE @]
                ELSE Forget(c.from, c.of)
  /\ UNCHANGED <<stored, entity, edits, ghosts>>

MoveTab(s, i) ==
  /\ Edit /\ s \in Tabs
  /\ Send("move", None, s, i)
  /\ UNCHANGED <<stored, browser, ghosts>>

----------------------------------------------------------------------------
(* The handlers: tracking_router.py. *)

Writes == {"put", "delete", "patch", "drop", "post", "move"}

\* What a handler finds: the row it is about, or the number of sheets.
FoundLast(c) == CASE c.kind = "post" -> Max(Orders \cup {0})
                  [] c.of \in Keyed -> table[c.of] # None
                  [] OTHER -> c.of \in Tabs
Found(c) == CASE c.kind = "post" -> Cardinality(Tabs)
              [] c.of \in Keyed -> table[c.of] # None
              [] OTHER -> c.of \in Tabs

\* The tabs that are being created, with the number their handlers have found.
Counting == {c \in calls : c.kind = "post" /\ c.seen # None /\ c.answer = None}

Look(c) ==
  /\ c.kind \in Writes /\ c.seen = None
  /\ calls' = (calls \ {c}) \cup {[c EXCEPT !.seen = Found(c)]}
  /\ gap' = (gap \/ (c.kind = "post" /\ Counting # {}))
  /\ UNCHANGED <<stored, entity, browser, edits, wanted, shown, raced>>

\* Nobody waits for the answer about a setting or a date.
Answer(c, answer) ==
  calls' = (calls \ {c}) \cup (IF c.kind \in {"put", "delete", "move"} THEN {} ELSE {[c EXCEPT !.answer = answer]})

\* put_ui_state and upsert_work_calendar.  The row is inserted or updated as it was
\* found: one that has come or gone since then is an exception.
PutRow(c) ==
  /\ c.kind = "put" /\ c.seen # None
  /\ table' = IF c.seen = Found(c) THEN [table EXCEPT ![c.of] = c.value] ELSE table
  /\ Answer(c, "ok")
  /\ UNCHANGED <<sheets, entity, browser, edits, ghosts>>

\* delete_ui_state and delete_work_calendar.
DeleteRow(c) ==
  /\ c.kind = "delete" /\ c.seen # None
  /\ table' = IF c.seen THEN [table EXCEPT ![c.of] = None] ELSE table
  /\ Answer(c, "ok")
  /\ UNCHANGED <<sheets, entity, browser, edits, ghosts>>

\* update_custom_sheet with columns and rows: all the cells, whoever wrote them.
PatchSheet(c) ==
  /\ c.kind = "patch" /\ c.seen # None /\ c.answer = None
  /\ IF c.seen /\ c.of \in Tabs
     THEN sheets' = [sheets EXCEPT ![c.of].cells = c.value] /\ Answer(c, "ok")
     ELSE UNCHANGED sheets /\ Answer(c, "error")
  /\ UNCHANGED <<table, entity, browser, edits, ghosts>>

\* update_custom_sheet with a sort_order: unique in the region, or an exception.
MoveSheet(c) ==
  /\ c.kind = "move" /\ c.seen # None
  /\ IF c.seen /\ c.of \in Tabs /\ c.value \notin Orders
     THEN sheets' = [sheets EXCEPT ![c.of].order = c.value] /\ gap' = TRUE
     ELSE UNCHANGED <<sheets, gap>>
  /\ Answer(c, "ok")
  /\ UNCHANGED <<table, entity, browser, edits, wanted, shown, raced>>

\* create_custom_sheet: the number of sheets is the order of the new one.
Place(n, s) == [sheets EXCEPT ![s] = [order |-> n, cells |-> {}]]
CreateSheet(c) ==
  /\ c.kind = "post" /\ c.seen # None /\ c.answer = None
  /\ IF c.seen \in Orders
     THEN UNCHANGED sheets /\ Answer(c, "error")
     ELSE \E s \in Sheet \ (Tabs \cup raced) : sheets' = Place(c.seen, s) /\ Answer(c, s)
  /\ UNCHANGED <<table, entity, browser, edits, ghosts>>

\* delete_custom_sheet.
DropSheet(c) ==
  /\ c.kind = "drop" /\ c.seen # None /\ c.answer = None
  /\ sheets' = [sheets EXCEPT ![c.of] = None]
  /\ gap' = (gap \/ Counting # {} \/ (c.of \in Tabs /\ sheets[c.of].order < Max(Orders)))
  /\ Answer(c, IF c.seen THEN "ok" ELSE "error")
  /\ raced' = raced \cup {c.of}
  /\ UNCHANGED <<table, entity, browser, edits, wanted, shown>>

\* A call does not reach the server: a setting is not sent again, a sheet is, if its
\* page is still there.
Lose(c) ==
  /\ Edit /\ c.seen = None /\ c.answer = None /\ c.kind \notin {"post", "drop", "move"}
  /\ calls' = (calls \ {c}) \cup (IF c.kind = "patch" THEN {[c EXCEPT !.answer = "error"]} ELSE {})
  /\ raced' = IF c.of \in Keyed \/ (c.kind = "patch" /\ c.from = None) THEN raced \cup {c.of} ELSE raced
  /\ UNCHANGED <<stored, browser, wanted, shown, gap>>

User ==
  \E b \in Browser :
    \/ \E k \in Key : RemoveItem(b, k) \/ \E v \in Value : SetItem(b, k, v)
    \/ \E mode \in {"db", "local"} : Reload(b, mode)
    \/ \E s \in Sheet : CloseTab(b, s) \/ \E c \in Cell : EditCell(b, s, c)
    \/ NewTab(b)
Administrator ==
  \/ \E d \in Date, v \in Value \cup {None} : AskDate(d, v)
  \/ \E s \in Sheet, i \in 0..Cardinality(Sheet) : MoveTab(s, i)
Script ==
  \/ \E b \in Browser : Hide(b) \/ (\E k \in Key : SaveItem(b, k)) \/ (\E s \in Sheet : SaveSheet(b, s))
  \/ \E c \in calls : Loaded(c) \/ Saved(c) \/ Closed(c)
Server ==
  \E c \in calls :
    Load(c) \/ Look(c) \/ PutRow(c) \/ DeleteRow(c) \/ PatchSheet(c) \/ MoveSheet(c) \/ CreateSheet(c) \/ DropSheet(c)

Next == User \/ Administrator \/ Script \/ Server \/ (\E c \in calls : Lose(c))
Spec == Init /\ [][Next]_vars

----------------------------------------------------------------------------
TypeOK ==
  /\ table \in [Keyed -> Value \cup {None}]
  /\ sheets \in [Sheet -> [order : Nat, cells : SUBSET Cell] \cup {None}]
  /\ browser \in [Browser -> [mode : {"db", "local"}, local : [Key -> Value \cup {None}],
                              timer : [Key -> Value \cup {None}], dirty : SUBSET Sheet,
                              copy : [Sheet -> (SUBSET Cell) \cup {None}]]]
  /\ \A s, t \in Tabs : sheets[s].order = sheets[t].order => s = t
  /\ \A b \in Browser : \A s \in browser[b].dirty : browser[b].copy[s] # None
  /\ shown \in [Key -> Browser \cup {None}] /\ raced \subseteq Keyed \cup Sheet

\* A setting or a day that users have set is stored as they have set it last once
\* nothing about it is pending, over timers, flushes, reloads and changes of mode; and
\* the browser that set it shows it.  Excused are things about which two calls or two
\* browsers overlapped, or whose call was lost; and, for what is shown, a value set
\* while the page was still loading, or whose save the next load may have overtaken.
RowsSaved ==
  /\ \A k \in Keyed \ raced :
       On(k) = {} /\ (\A b \in Browser : k \notin Pending(b)) => table[k] = wanted[k]
  /\ \A k \in Key \ raced : shown[k] # None => browser[shown[k]].local[k] = wanted[k]

\* Every cell that was filled in is stored once no save of the sheet is pending,
\* although each save sends the whole sheet and may be lost and sent again: unless an
\* author did not see the others' cells, edited while a save was under way, or left
\* the page before the save.
SheetsSaved ==
  \A s \in Tabs \ raced :
    On(s) = {} /\ (\A b \in Browser : s \notin browser[b].dirty) => Cells(s) = wanted[s]

\* A new tab is refused, as its place is taken, only after a tab other than the last
\* was deleted, one was moved, or one was created or deleted during its creation.
NewTabFits ==
  ~gap => Orders = 0..(Cardinality(Tabs) - 1) /\ \A c \in Counting : c.seen \notin Orders

\* What the page says in one place it says in the others, although each list is joined
\* anew: the counts of a release of one row are those of its runs; and, if no run has two
\* rows, those of its cases; an open defect of a result is listed with the case of the result;
\* a run with a failed result shows FAILED; evidence and judgements of one result are
\* shown at one release; a blocked release without children shows through at its parent.
Sum(S, f(_)) == FoldSet(LAMBDA x, n : n + f(x), 0, S)
Single(rows, k) == \A j \in DOMAIN rows : rows[j].id = rows[k].id => j = k
Unique(rows) == \A k \in DOMAIN rows : Single(rows, k)

CountsAgree(e) ==
  \A i \in {e.round[k].id : k \in {j \in DOMAIN e.round : Single(e.round, j)}} :
    /\ \A s \in Counted : ReleaseCount(e, i, s) =
         Sum({r \in Runs(e) : r.release = i}, LAMBDA r : r.count[s])
    /\ Unique(e.run) => LET cases == {c \in ResultsSummary(e) : c.release = i}
                        IN  /\ ReleaseCount(e, i, "PASSED") = Sum(cases, LAMBDA c : c.passed)
                            /\ ReleaseCount(e, i, "BLOCKED") = Sum(cases, LAMBDA c : c.blocked)
DefectsAgree(e) ==
  \A d \in ActiveDefects(e) : Row(e.result, d.result) # None =>
    \E c \in ResultsSummary(e) : c.release = d.release /\ d.id \in {e.defect[k].id : k \in c.defects}
EvidenceAgrees(e) ==
  \A x \in Evidence(e) :
    /\ \A p \in ProcedureResults(e) :
         e.evidence[x.row].result # None /\ e.judged[p.row].result = e.evidence[x.row].result
         /\ p.release # None => x.release = p.release
    /\ \A d \in ActiveDefects(e) :
         Unique(e.defect) /\ e.evidence[x.row].defect = d.id /\ e.evidence[x.row].result = None
         => x.release = d.release
BlockedShows(e) ==
  \A k, p \in DOMAIN e.round :
    /\ e.round[k].status \in {"BLOCK", "BLOCKED"} /\ e.round[k].id \notin LegacyReport
    /\ \A j \in DOMAIN e.round : e.round[j].upstream # e.round[k].id
    /\ e.round[p].id = e.round[k].upstream /\ Single(e.round, p)
    => ReleaseStatus(e)[p] = "BLOCKED"

\* (No user here changes these sheets, so they are looked at before users begin.)
PageAgrees ==
  edits = 0 =>
  /\ CountsAgree(entity) /\ DefectsAgree(entity) /\ EvidenceAgrees(entity) /\ BlockedShows(entity)
  /\ \A r \in Runs(entity) : r.count["FAILED"] > 0 => r.status = "FAILED"
  /\ Configs(entity) = {r.config : r \in Runs(entity)} \ {None}
=============================================================================
