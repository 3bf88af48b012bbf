------------------------- MODULE TrackingPageProofs -------------------------
(***************************************************************************)
(* Proofs about TrackingPage, for all browsers, settings, days, sheets and *)
(* cells and any number of edits: types, that settings, days and sheets    *)
(* are stored as users left them, that a new tab finds its place, and, at  *)
(* the end, that the lists of the summary agree.                           *)
(***************************************************************************)
EXTENDS TrackingPage, FiniteSetTheorems, WellFoundedInduction, TLAPS

Maybe(S) == S \cup {None}
Loads    == [Keyed -> Maybe(Value)] \X [Sheet -> Maybe(SUBSET Cell)]
Pages    == [mode : {"db", "local"}, local : [Key -> Maybe(Value)], timer : [Key -> Maybe(Value)],
             dirty : SUBSET Sheet, copy : [Sheet -> Maybe(SUBSET Cell)]]
Tab      == [order : Nat, cells : SUBSET Cell]
Record   == [kind : Writes \cup {"load"}, from : Maybe(Browser), of : Maybe(Keyed \cup Sheet),
             value : Maybe(Value \cup (SUBSET Cell) \cup Nat \cup {"db", "local"}),
             seen : Maybe(BOOLEAN \cup Nat),
             answer : Maybe({"ok", "error"} \cup Sheet \cup Loads)]

\* What a call of each kind is about, carries, has found and is answered.
Wellformed(c) ==
  /\ c \in Record
  /\ c.kind = "load" => /\ c.from \in Browser /\ c.of = None /\ c.value \in {"db", "local"}
                        /\ c.seen = None /\ c.answer \in Maybe(Loads)
  /\ c.kind \in {"put", "delete"} => /\ c.of \in Keyed /\ c.answer = None
                                     /\ c.value \in IF c.kind = "put" THEN Value ELSE {None}
  /\ c.kind = "patch" => /\ c.of \in Sheet /\ c.value \in SUBSET Cell
                         /\ c.answer \in {None, "ok", "error"}
  /\ c.kind = "post" => /\ c.of = None /\ c.seen \in Maybe(Nat) /\ c.answer \in Maybe({"error"} \cup Sheet)
  /\ c.kind = "drop" => c.of \in Sheet /\ c.answer \in {None, "ok", "error"}
  /\ c.kind = "move" => c.of \in Sheet /\ c.value \in Nat /\ c.answer = None
  /\ c.kind \in {"put", "delete", "patch", "drop", "move"} => c.seen \in Maybe(BOOLEAN)

Types ==
  /\ table \in [Keyed -> Maybe(Value)]
  /\ sheets \in [Sheet -> Maybe(Tab)]
  /\ browser \in [Browser -> Pages]
  /\ \A c \in calls : Wellformed(c)
  /\ wanted \in [Keyed \cup Sheet -> Maybe(Value) \cup SUBSET Cell]
  /\ \A k \in Keyed : wanted[k] \in Maybe(Value)
  /\ \A s \in Sheet : wanted[s] \in SUBSET Cell
  /\ shown \in [Key -> Maybe(Browser)] /\ raced \subseteq Keyed \cup Sheet /\ gap \in BOOLEAN

Distinct   == \A s, t \in Tabs : sheets[s].order = sheets[t].order => s = t
DirtyShown == \A b \in Browser : \A s \in browser[b].dirty : browser[b].copy[s] # None

\* Without a gap, one tab at most is being created, and takes the place after the last.
Places ==
  ~gap => /\ Orders = 0..(Cardinality(Tabs) - 1)
          /\ \A c \in Counting : c.seen = Cardinality(Tabs)
          /\ \A c, d \in Counting : c = d

\* What the row of a setting or of a day will be when all that is pending is done.
Timed(k) == {b \in Browser : k \in Key /\ browser[b].timer[k] # None}
RowKept(k) ==
  /\ \A b, o \in Timed(k) : b = o
  /\ \A c, d \in On(k) : c = d
  /\ \A c \in On(k) : c.seen # None => c.seen = (table[k] # None)
  /\ \A b \in Timed(k) : browser[b].timer[k] = wanted[k]
  /\ Timed(k) = {} => \A c \in On(k) : c.value = wanted[k]
  /\ Timed(k) = {} /\ On(k) = {} => table[k] = wanted[k]
RowsKept == \A k \in Keyed \ raced : RowKept(k)

\* The browser that shows a setting: no other is about to save it, and if the page is
\* being loaded, all is saved and the answer says so.
ShowKept(k) ==
  shown[k] # None =>
    /\ browser[shown[k]].local[k] = wanted[k]
    /\ Timed(k) \subseteq {shown[k]}
    /\ \A c \in calls : c.kind = "load" /\ c.from = shown[k] =>
         /\ On(k) = {} /\ Timed(k) = {}
         /\ c.answer # None => c.answer[1][k] = wanted[k]
ShowsKept == \A k \in Key \ raced : ShowKept(k)

\* A sheet that was not yet created is nowhere; one that was is complete at its last
\* author, in the save under way or in the table, and nowhere else before it is there.
Dirty(s)   == {b \in Browser : s \in browser[b].dirty}
Patches(s) == {c \in On(s) : c.kind = "patch"}
Open(s)    == {c \in Patches(s) : c.answer # "ok"}
Told       == {c \in calls : c.kind = "load" /\ c.answer # None}
Unknown(s) ==
  /\ wanted[s] = {} /\ On(s) = {}
  /\ \A b \in Browser : browser[b].copy[s] = None
  /\ \A c \in Told : c.answer[2][s] = None
  /\ \A c \in calls : c.kind = "post" => c.answer # s
\* A patch that its browser waits for is what the browser shows.
Awaited(s) ==
  \A c \in Patches(s) :
    /\ c.seen \in {None, TRUE}
    /\ c.from # None => /\ browser[c.from].copy[s] = c.value
                        /\ s \notin browser[c.from].dirty
                        /\ \A d \in Patches(s) : d.from = c.from => d = c
    /\ c.from = None => c.answer # "error"
Complete(s) ==
  /\ Cells(s) \subseteq wanted[s]
  /\ \A b \in Browser : browser[b].copy[s] # None => browser[b].copy[s] \subseteq wanted[s]
  /\ \A c \in Told : c.answer[2][s] # None => c.answer[2][s] \subseteq wanted[s]
  /\ \A b \in Dirty(s) : browser[b].copy[s] = wanted[s]
  /\ \A c \in Open(s) : c.value = wanted[s]
  /\ \A b, o \in Dirty(s) : b = o
  /\ \A c, d \in Open(s) : c = d
  /\ Dirty(s) = {} \/ Open(s) = {}
  /\ Dirty(s) = {} /\ Open(s) = {} => Cells(s) = wanted[s]
Unseen(s) ==
  Dirty(s) # {} \/ Open(s) # {} =>
    /\ Cells(s) # wanted[s]
    /\ \A b \in Browser : browser[b].copy[s] = wanted[s] => b \in Dirty(s) \/ \E c \in Open(s) : c.from = b
    /\ \A c \in Told : c.answer[2][s] # wanted[s]
SheetKept(s) == IF s \in Tabs THEN Awaited(s) /\ Complete(s) /\ Unseen(s) ELSE Unknown(s)
SheetsKept == \A s \in Sheet \ raced : SheetKept(s)

\* A sheet that a browser is told is deleted is excused.
Dropped == \A c \in calls : c.kind = "drop" /\ c.answer # None => c.of \in raced

Inductive == /\ Types /\ Distinct /\ DirtyShown /\ Places
             /\ RowsKept /\ ShowsKept /\ SheetsKept /\ Dropped
-----------------------------------------------------------------------------
(* Calls: what is sent, and what becomes of it. *)

\* A call whose page is gone, that has found its row, that is answered.
LEMMA FromSet ==
  ASSUME NEW c \in Record, NEW x \in Maybe(Browser)
  PROVE  LET d == [c EXCEPT !.from = x] IN
         /\ d \in Record
         /\ d.kind = c.kind /\ d.from = x /\ d.of = c.of
         /\ d.value = c.value /\ d.seen = c.seen /\ d.answer = c.answer
  BY DEF Record

LEMMA SeenSet ==
  ASSUME NEW c \in Record, NEW x \in Maybe(BOOLEAN \cup Nat)
  PROVE  LET d == [c EXCEPT !.seen = x] IN
         /\ d \in Record
         /\ d.kind = c.kind /\ d.from = c.from /\ d.of = c.of
         /\ d.value = c.value /\ d.seen = x /\ d.answer = c.answer
  BY DEF Record

LEMMA AnswerSet ==
  ASSUME NEW c \in Record, NEW x \in Maybe({"ok", "error"} \cup Sheet \cup Loads)
  PROVE  LET d == [c EXCEPT !.answer = x] IN
         /\ d \in Record
         /\ d.kind = c.kind /\ d.from = c.from /\ d.of = c.of
         /\ d.value = c.value /\ d.seen = c.seen /\ d.answer = x
  BY DEF Record

\* A call that is sent is well formed.
Fits(kind, from, of, value) ==
  /\ kind = "load" => from \in Browser /\ of = None /\ value \in {"db", "local"}
  /\ kind = "put" => of \in Keyed /\ value \in Value
  /\ kind = "delete" => of \in Keyed /\ value = None
  /\ kind = "patch" => of \in Sheet /\ value \in SUBSET Cell
  /\ kind = "drop" => of \in Sheet /\ value = None
  /\ kind = "move" => of \in Sheet /\ value \in Nat
  /\ kind = "post" => of = None /\ value = None

LEMMA Sent ==
  ASSUME NEW kind \in Writes \cup {"load"}, NEW from \in Maybe(Browser), NEW of, NEW value,
         Fits(kind, from, of, value)
  PROVE  LET d == Call(kind, from, of, value) IN
         /\ Wellformed(d) /\ d.kind = kind /\ d.from = from /\ d.of = of /\ d.value = value
         /\ d.seen = None /\ d.answer = None
  <1> DEFINE d == Call(kind, from, of, value)
  <1>1. d.kind = kind /\ d.from = from /\ d.of = of /\ d.value = value /\ d.seen = None /\ d.answer = None
    BY DEF Call
  <1>2. of \in Maybe(Keyed \cup Sheet) /\ value \in Maybe(Value \cup (SUBSET Cell) \cup Nat \cup {"db", "local"})
    BY DEF Fits, Writes, Maybe
  <1>3. d \in Record
    BY <1>2 DEF Call, Record, Maybe
  <1> HIDE DEF d
  <1>4. Wellformed(d)
    BY <1>1, <1>3 DEF Wellformed, Fits, Writes, Maybe
  <1> QED BY <1>1, <1>4 DEF d

(* Browsers: what becomes of a page. *)

LEMMA PageType ==
  ASSUME Types, NEW b \in Browser
  PROVE  /\ browser[b].mode \in {"db", "local"}
         /\ browser[b].local \in [Key -> Maybe(Value)] /\ browser[b].timer \in [Key -> Maybe(Value)]
         /\ browser[b].copy \in [Sheet -> Maybe(SUBSET Cell)] /\ browser[b].dirty \subseteq Sheet
  BY DEF Types, Pages

\* Nothing but the page of b changes, and it becomes this.
Turns(b, mode, local, timer, copy, dirty) ==
  /\ browser' \in [Browser -> Pages]
  /\ \A o \in Browser \ {b} : browser'[o] = browser[o]
  /\ browser'[b].mode = mode /\ browser'[b].local = local /\ browser'[b].timer = timer
  /\ browser'[b].copy = copy /\ browser'[b].dirty = dirty

LEMMA Turned ==
  ASSUME Types, NEW b \in Browser, NEW r \in Pages, browser' = [browser EXCEPT ![b] = r]
  PROVE  Turns(b, r.mode, r.local, r.timer, r.copy, r.dirty)
  BY DEF Types, Turns

LEMMA SetItemTurns ==
  ASSUME Types, NEW b \in Browser, NEW k \in Key, NEW v \in Value, SetItem(b, k, v)
  PROVE  Turns(b, browser[b].mode, [browser[b].local EXCEPT ![k] = v],
               IF browser[b].mode = "db" THEN [browser[b].timer EXCEPT ![k] = v] ELSE browser[b].timer,
               browser[b].copy, browser[b].dirty)
  <1>1. CASE browser[b].mode = "db"
    <2> DEFINE r == [browser[b] EXCEPT !.local = [@ EXCEPT ![k] = v], !.timer = [@ EXCEPT ![k] = v]]
    <2>1. browser' = [browser EXCEPT ![b] = r]
      BY <1>1 DEF SetItem, Types, Pages
    <2>2. /\ r \in Pages /\ r.mode = browser[b].mode /\ r.copy = browser[b].copy /\ r.dirty = browser[b].dirty
          /\ r.local = [browser[b].local EXCEPT ![k] = v] /\ r.timer = [browser[b].timer EXCEPT ![k] = v]
      BY DEF Types, Pages, Maybe
    <2> HIDE DEF r
    <2> QED BY <1>1, <2>1, <2>2, Turned
  <1>2. CASE browser[b].mode # "db"
    <2> DEFINE r == [browser[b] EXCEPT !.local = [@ EXCEPT ![k] = v]]
    <2>1. browser' = [browser EXCEPT ![b] = r]
      BY <1>2 DEF SetItem, Types, Pages
    <2>2. /\ r \in Pages /\ r.mode = browser[b].mode /\ r.copy = browser[b].copy /\ r.dirty = browser[b].dirty
          /\ r.local = [browser[b].local EXCEPT ![k] = v] /\ r.timer = browser[b].timer
      BY DEF Types, Pages, Maybe
    <2> HIDE DEF r
    <2> QED BY <1>2, <2>1, <2>2, Turned
  <1> QED BY <1>1, <1>2

LEMMA RemoveItemTurns ==
  ASSUME Types, NEW b \in Browser, NEW k \in Key, RemoveItem(b, k)
  PROVE  Turns(b, browser[b].mode, [browser[b].local EXCEPT ![k] = None],
               IF browser[b].mode = "db" THEN [browser[b].timer EXCEPT ![k] = None] ELSE browser[b].timer,
               browser[b].copy, browser[b].dirty)
  <1>1. CASE browser[b].mode = "db"
    <2> DEFINE r == [browser[b] EXCEPT !.local = [@ EXCEPT ![k] = None], !.timer = [@ EXCEPT ![k] = None]]
    <2>1. browser' = [browser EXCEPT ![b] = r]
      BY <1>1 DEF RemoveItem, Types, Pages
    <2>2. /\ r \in Pages /\ r.mode = browser[b].mode /\ r.copy = browser[b].copy /\ r.dirty = browser[b].dirty
          /\ r.local = [browser[b].local EXCEPT ![k] = None] /\ r.timer = [browser[b].timer EXCEPT ![k] = None]
      BY DEF Types, Pages, Maybe
    <2> HIDE DEF r
    <2> QED BY <1>1, <2>1, <2>2, Turned
  <1>2. CASE browser[b].mode # "db"
    <2> DEFINE r == [browser[b] EXCEPT !.local = [@ EXCEPT ![k] = None]]
    <2>1. browser' = [browser EXCEPT ![b] = r]
      BY <1>2 DEF RemoveItem, Types, Pages
    <2>2. /\ r \in Pages /\ r.mode = browser[b].mode /\ r.copy = browser[b].copy /\ r.dirty = browser[b].dirty
          /\ r.local = [browser[b].local EXCEPT ![k] = None] /\ r.timer = browser[b].timer
      BY DEF Types, Pages, Maybe
    <2> HIDE DEF r
    <2> QED BY <1>2, <2>1, <2>2, Turned
  <1> QED BY <1>1, <1>2

LEMMA SaveItemTurns ==
  ASSUME Types, NEW b \in Browser, NEW k \in Key, SaveItem(b, k)
  PROVE  Turns(b, browser[b].mode, browser[b].local, [browser[b].timer EXCEPT ![k] = None],
               browser[b].copy, browser[b].dirty)
  BY DEF Types, SaveItem, Turns, Pages, Maybe

LEMMA HideTurns ==
  ASSUME Types, NEW b \in Browser, Hide(b)
  PROVE  Turns(b, browser[b].mode, browser[b].local, [k \in Key |-> None],
               browser[b].copy, browser[b].dirty)
  BY DEF Types, Hide, Turns, Pages, Maybe

LEMMA ReloadTurns ==
  ASSUME Types, NEW b \in Browser, NEW mode \in {"db", "local"}, Reload(b, mode)
  PROVE  Turns(b, mode, browser[b].local, [k \in Key |-> None], [s \in Sheet |-> None], {})
  BY DEF Types, Reload, Page, Turns, Pages, Maybe

LEMMA EditCellTurns ==
  ASSUME Types, NEW b \in Browser, NEW s \in Sheet, NEW x \in Cell, EditCell(b, s, x)
  PROVE  /\ browser[b].copy[s] \in SUBSET Cell
         /\ Turns(b, browser[b].mode, browser[b].local, browser[b].timer,
                  [browser[b].copy EXCEPT ![s] = browser[b].copy[s] \cup {x}], browser[b].dirty \cup {s})
  <1>1. browser[b].copy[s] \in SUBSET Cell
    BY DEF EditCell, Types, Pages, Maybe
  <1>2. PICK cells \in SUBSET Cell : cells = browser[b].copy[s] \cup {x}
    BY <1>1
  <1>3. PICK dirty \in SUBSET Sheet : dirty = browser[b].dirty \cup {s}
    BY PageType
  <1> DEFINE r == [browser[b] EXCEPT !.copy = [@ EXCEPT ![s] = cells], !.dirty = dirty]
  <1>4. browser' = [browser EXCEPT ![b] = r]
    <2>1. browser' = [browser EXCEPT ![b].copy[s] = browser[b].copy[s] \cup {x},
                                     ![b].dirty = browser[b].dirty \cup {s}]
      BY DEF EditCell, Types, Pages
    <2>2. browser' = [browser EXCEPT ![b].copy[s] = cells, ![b].dirty = dirty]
      BY <1>2, <1>3, <2>1
    <2> QED BY <2>2 DEF Types, Pages
  <1>5. /\ r \in Pages /\ r.mode = browser[b].mode /\ r.local = browser[b].local /\ r.timer = browser[b].timer
        /\ r.copy = [browser[b].copy EXCEPT ![s] = cells] /\ r.dirty = dirty
    BY DEF Types, Pages, Maybe
  <1> HIDE DEF r
  <1> QED BY <1>1, <1>2, <1>3, <1>4, <1>5, Turned

LEMMA SaveSheetTurns ==
  ASSUME Types, NEW b \in Browser, NEW s \in Sheet, SaveSheet(b, s)
  PROVE  Turns(b, browser[b].mode, browser[b].local, browser[b].timer,
               browser[b].copy, browser[b].dirty \ {s})
  BY DEF Types, SaveSheet, Turns, Pages, Maybe

LEMMA LoadedTurns ==
  ASSUME Types, NEW c \in calls, Loaded(c)
  PROVE  LET page == browser[c.from] IN
         /\ c.from \in Browser /\ c.answer \in Loads
         /\ Turns(c.from, page.mode,
                  IF c.value = "local" THEN page.local
                  ELSE [k \in Key |-> IF c.answer[1][k] # None THEN c.answer[1][k] ELSE page.local[k]],
                  page.timer,
                  [s \in Sheet |-> IF page.copy[s] # None THEN page.copy[s] ELSE c.answer[2][s]], page.dirty)
  <1> DEFINE page  == browser[c.from]
             local == IF c.value = "local" THEN page.local
                      ELSE [k \in Key |-> IF c.answer[1][k] # None THEN c.answer[1][k] ELSE page.local[k]]
             copy  == [s \in Sheet |-> IF page.copy[s] # None THEN page.copy[s] ELSE c.answer[2][s]]
             r     == [page EXCEPT !.local = local, !.copy = copy]
  <1>1. c.from \in Browser /\ c.answer \in Loads
    BY DEF Loaded, Types, Wellformed, Maybe
  <1>2. page \in Pages /\ page.local \in [Key -> Maybe(Value)] /\ page.copy \in [Sheet -> Maybe(SUBSET Cell)]
    BY <1>1 DEF Types, Pages
  <1>3. c.answer[1] \in [Keyed -> Maybe(Value)] /\ c.answer[2] \in [Sheet -> Maybe(SUBSET Cell)]
    BY <1>1 DEF Loads
  <1>4. local \in [Key -> Maybe(Value)]
    BY <1>2, <1>3 DEF Keyed
  <1>5. copy \in [Sheet -> Maybe(SUBSET Cell)]
    BY <1>2, <1>3
  <1>6. browser' = [browser EXCEPT ![c.from] = r]
    BY <1>1 DEF Loaded, Types, Pages
  <1> HIDE DEF local, copy
  <1>7. /\ r \in Pages /\ r.mode = page.mode /\ r.local = local /\ r.timer = page.timer
        /\ r.copy = copy /\ r.dirty = page.dirty
    BY <1>2, <1>4, <1>5 DEF Pages
  <1> HIDE DEF r
  <1>8. Turns(c.from, page.mode, local, page.timer, copy, page.dirty)
    BY <1>1, <1>6, <1>7, Turned
  <1> QED BY <1>1, <1>8 DEF local, copy

\* An answer about cells; an answer about a tab.
LEMMA SavedTurns ==
  ASSUME Types, NEW c \in calls, Saved(c)
  PROVE  /\ c.kind = "patch" /\ c.of \in Sheet /\ c.value \in SUBSET Cell /\ c.answer \in {"ok", "error"}
         /\ \/ UNCHANGED browser /\ (c.from = None \/ browser[c.from].copy[c.of] = None)
            \/ LET page == browser[c.from] IN
               /\ c.from \in Browser /\ page.copy[c.of] # None
               /\ IF c.answer = "error"
                  THEN Turns(c.from, page.mode, page.local, page.timer, page.copy, page.dirty \cup {c.of})
                  ELSE Turns(c.from, page.mode, page.local, page.timer,
                             [page.copy EXCEPT ![c.of] = c.value], page.dirty)
  <1>1. /\ c.kind = "patch" /\ c.of \in Sheet /\ c.value \in SUBSET Cell /\ c.answer \in {"ok", "error"}
        /\ c.from \in Maybe(Browser)
    BY DEF Saved, Types, Wellformed, Record
  <1>2. CASE c.from = None \/ browser[c.from].copy[c.of] = None
    BY <1>1, <1>2 DEF Saved
  <1>3. CASE c.from # None /\ browser[c.from].copy[c.of] # None
    <2> DEFINE page == browser[c.from]
    <2>1. c.from \in Browser /\ page \in Pages
      BY <1>1, <1>3 DEF Types, Maybe
    <2>2. CASE c.answer = "error"
      <3>1. PICK dirty \in SUBSET Sheet : dirty = page.dirty \cup {c.of}
        BY <1>1, <2>1 DEF Pages
      <3> DEFINE r == [page EXCEPT !.dirty = dirty]
      <3>2. browser' = [browser EXCEPT ![c.from] = r]
        <4>1. browser' = [browser EXCEPT ![c.from].dirty = page.dirty \cup {c.of}]
          BY <1>3, <2>1, <2>2 DEF Saved, Retry
        <4> QED BY <3>1, <4>1
      <3>3. /\ r \in Pages /\ r.mode = page.mode /\ r.local = page.local /\ r.timer = page.timer
            /\ r.copy = page.copy /\ r.dirty = dirty
        BY <2>1 DEF Pages
      <3> HIDE DEF r
      <3>4. Turns(c.from, page.mode, page.local, page.timer, page.copy, page.dirty \cup {c.of})
        BY <2>1, <3>1, <3>2, <3>3, Turned
      <3> QED BY <1>1, <1>3, <2>1, <2>2, <3>4
    <2>3. CASE c.answer # "error"
      <3> DEFINE r == [page EXCEPT !.copy = [@ EXCEPT ![c.of] = c.value]]
      <3>1. browser' = [browser EXCEPT ![c.from] = r]
        BY <1>3, <2>1, <2>3 DEF Saved, Types, Pages
      <3>2. /\ r \in Pages /\ r.mode = page.mode /\ r.local = page.local /\ r.timer = page.timer
            /\ r.copy = [page.copy EXCEPT ![c.of] = c.value] /\ r.dirty = page.dirty
        BY <1>1, <2>1 DEF Pages, Maybe
      <3> HIDE DEF r
      <3>3. Turns(c.from, page.mode, page.local, page.timer, [page.copy EXCEPT ![c.of] = c.value], page.dirty)
        BY <2>1, <3>1, <3>2, Turned
      <3> QED BY <1>1, <1>3, <2>1, <2>3, <3>3
    <2> QED BY <2>2, <2>3
  <1> QED BY <1>2, <1>3

LEMMA ClosedTurns ==
  ASSUME Types, NEW c \in calls, Closed(c)
  PROVE  /\ c.kind \in {"post", "drop"}
         /\ \/ UNCHANGED browser /\ (c.from = None \/ c.answer = "error")
            \/ LET page == browser[c.from] IN
               /\ c.from \in Browser /\ c.answer # "error"
               /\ IF c.kind = "post"
                  THEN /\ c.answer \in Sheet
                       /\ Turns(c.from, page.mode, page.local, page.timer,
                                [page.copy EXCEPT ![c.answer] = IF page.copy[c.answer] = None THEN {} ELSE @],
                                page.dirty)
                  ELSE /\ c.of \in Sheet
                       /\ Turns(c.from, page.mode, page.local, page.timer,
                                [page.copy EXCEPT ![c.of] = None], page.dirty \ {c.of})
  <1>1. /\ c.kind \in {"post", "drop"} /\ c.from \in Maybe(Browser)
        /\ c.kind = "drop" => c.of \in Sheet
        /\ c.kind = "post" /\ c.answer # "error" => c.answer \in Sheet
    BY DEF Closed, Types, Wellformed, Record, Maybe
  <1>2. CASE c.from = None \/ c.answer = "error"
    BY <1>1, <1>2 DEF Closed
  <1>3. CASE c.from # None /\ c.answer # "error"
    <2> DEFINE page == browser[c.from]
    <2>1. c.from \in Browser /\ page \in Pages
      BY <1>1, <1>3 DEF Types, Maybe
    <2>2. CASE c.kind = "post"
      <3>1. PICK cells \in SUBSET Cell : cells = IF page.copy[c.answer] = None THEN {} ELSE page.copy[c.answer]
        BY <1>1, <1>3, <2>1, <2>2 DEF Pages, Maybe
      <3> DEFINE r == [page EXCEPT !.copy = [@ EXCEPT ![c.answer] = cells]]
      <3>2. browser' = [browser EXCEPT ![c.from] = r]
        <4>1. browser' = [browser EXCEPT ![c.from].copy[c.answer] =
                             IF page.copy[c.answer] = None THEN {} ELSE page.copy[c.answer]]
          BY <1>3, <2>1, <2>2 DEF Closed, Types, Pages
        <4>2. browser' = [browser EXCEPT ![c.from].copy[c.answer] = cells]
          BY <3>1, <4>1
        <4> QED BY <2>1, <4>2 DEF Types, Pages
      <3>3. /\ r \in Pages /\ r.mode = page.mode /\ r.local = page.local /\ r.timer = page.timer
            /\ r.copy = [page.copy EXCEPT ![c.answer] = cells] /\ r.dirty = page.dirty
        BY <1>1, <2>1 DEF Pages, Maybe
      <3> HIDE DEF r
      <3>4. Turns(c.from, page.mode, page.local, page.timer, [page.copy EXCEPT ![c.answer] = cells], page.dirty)
        BY <2>1, <3>2, <3>3, Turned
      <3> QED BY <1>1, <1>3, <2>1, <2>2, <3>1, <3>4
    <2>3. CASE c.kind = "drop"
      <3>1. PICK dirty \in SUBSET Sheet : dirty = page.dirty \ {c.of}
        BY <2>1 DEF Pages
      <3> DEFINE r == [page EXCEPT !.copy = [@ EXCEPT ![c.of] = None], !.dirty = dirty]
      <3>2. browser' = [browser EXCEPT ![c.from] = r]
        <4>1. browser' = [browser EXCEPT ![c.from].copy[c.of] = None,
                                         ![c.from].dirty = page.dirty \ {c.of}]
          BY <1>3, <2>1, <2>3 DEF Closed, Forget, Types, Pages
        <4>2. browser' = [browser EXCEPT ![c.from].copy[c.of] = None, ![c.from].dirty = dirty]
          BY <3>1, <4>1
        <4> QED BY <2>1, <4>2 DEF Types, Pages
      <3>3. /\ r \in Pages /\ r.mode = page.mode /\ r.local = page.local /\ r.timer = page.timer
            /\ r.copy = [page.copy EXCEPT ![c.of] = None] /\ r.dirty = dirty
        BY <1>1, <2>1 DEF Pages, Maybe
      <3> HIDE DEF r
      <3>4. Turns(c.from, page.mode, page.local, page.timer, [page.copy EXCEPT ![c.of] = None], page.dirty \ {c.of})
        <4>1. Turns(c.from, r.mode, r.local, r.timer, r.copy, r.dirty)
          BY <2>1, <3>2, <3>3, Turned
        <4> QED BY <3>1, <3>3, <4>1 DEF Turns
      <3> QED BY <1>1, <1>3, <2>1, <2>3, <3>4
    <2> QED BY <1>1, <2>2, <2>3
  <1> QED BY <1>2, <1>3

\* The same, setting by setting and sheet by sheet.
Same(b) == browser'[b] = browser[b]

LEMMA LoadedShows ==
  ASSUME Types, NEW c \in calls, Loaded(c)
  PROVE  /\ c.from \in Browser /\ c.answer \in Loads /\ \A o \in Browser \ {c.from} : Same(o)
         /\ browser'[c.from].dirty = browser[c.from].dirty /\ browser'[c.from].timer = browser[c.from].timer
         /\ \A k \in Key : browser'[c.from].local[k] =
              IF c.value = "local" \/ c.answer[1][k] = None THEN browser[c.from].local[k] ELSE c.answer[1][k]
         /\ \A s \in Sheet : browser'[c.from].copy[s] =
              IF browser[c.from].copy[s] # None THEN browser[c.from].copy[s] ELSE c.answer[2][s]
  <1> DEFINE page == browser[c.from]
  <1>1. /\ c.from \in Browser /\ c.answer \in Loads
        /\ Turns(c.from, page.mode,
                  IF c.value = "local" THEN page.local
                  ELSE [k \in Key |-> IF c.answer[1][k] # None THEN c.answer[1][k] ELSE page.local[k]],
                  page.timer,
                  [s \in Sheet |-> IF page.copy[s] # None THEN page.copy[s] ELSE c.answer[2][s]], page.dirty)
    BY LoadedTurns
  <1>2. \A s \in Sheet : browser'[c.from].copy[s] = IF page.copy[s] # None THEN page.copy[s] ELSE c.answer[2][s]
    BY <1>1 DEF Turns
  <1>3. \A k \in Key : browser'[c.from].local[k] =
              IF c.value = "local" \/ c.answer[1][k] = None THEN page.local[k] ELSE c.answer[1][k]
    <2>1. CASE c.value = "local"
      BY <1>1, <2>1 DEF Turns
    <2>2. CASE c.value # "local"
      BY <1>1, <2>2 DEF Turns
    <2> QED BY <2>1, <2>2
  <1>4. /\ \A o \in Browser \ {c.from} : Same(o)
        /\ browser'[c.from].dirty = browser[c.from].dirty /\ browser'[c.from].timer = browser[c.from].timer
    BY <1>1 DEF Turns, Same
  <1> QED BY <1>1, <1>2, <1>3, <1>4

LEMMA SavedShows ==
  ASSUME Types, NEW c \in calls, Saved(c), browser' # browser
  PROVE  /\ c.from \in Browser /\ c.of \in Sheet /\ c.value \in SUBSET Cell /\ c.answer \in {"ok", "error"}
         /\ browser[c.from].copy[c.of] # None /\ \A o \in Browser \ {c.from} : Same(o)
         /\ browser'[c.from].timer = browser[c.from].timer /\ browser'[c.from].local = browser[c.from].local
         /\ browser'[c.from].dirty = browser[c.from].dirty \cup (IF c.answer = "error" THEN {c.of} ELSE {})
         /\ \A s \in Sheet : browser'[c.from].copy[s] =
              IF s = c.of /\ c.answer = "ok" THEN c.value ELSE browser[c.from].copy[s]
  <1> DEFINE page == browser[c.from]  turned == browser'[c.from]
  <1>1. /\ c.from \in Browser /\ c.of \in Sheet /\ c.value \in SUBSET Cell /\ c.answer \in {"ok", "error"}
        /\ page.copy[c.of] # None /\ \A o \in Browser \ {c.from} : Same(o)
        /\ turned.timer = page.timer /\ turned.local = page.local
    BY SavedTurns DEF Turns, Same
  <1>2. page.copy \in [Sheet -> Maybe(SUBSET Cell)]
    BY <1>1, PageType
  <1>3. CASE c.answer = "error"
    <2>1. turned.dirty = page.dirty \cup {c.of} /\ turned.copy = page.copy
      BY <1>3, SavedTurns DEF Turns
    <2> QED BY <1>1, <1>3, <2>1
  <1>4. CASE c.answer = "ok"
    <2>1. turned.dirty = page.dirty /\ turned.copy = [page.copy EXCEPT ![c.of] = c.value]
      BY <1>4, SavedTurns DEF Turns
    <2> QED BY <1>1, <1>2, <1>4, <2>1
  <1> QED BY <1>1, <1>3, <1>4

LEMMA ClosedShows ==
  ASSUME Types, NEW c \in calls, Closed(c), browser' # browser
  PROVE  /\ c.from \in Browser /\ c.answer # "error" /\ \A o \in Browser \ {c.from} : Same(o)
         /\ browser'[c.from].timer = browser[c.from].timer /\ browser'[c.from].local = browser[c.from].local
         /\ \/ /\ c.kind = "post" /\ c.answer \in Sheet /\ browser'[c.from].dirty = browser[c.from].dirty
               /\ \A s \in Sheet : browser'[c.from].copy[s] =
                    IF s = c.answer /\ browser[c.from].copy[s] = None THEN {} ELSE browser[c.from].copy[s]
            \/ /\ c.kind = "drop" /\ c.of \in Sheet /\ browser'[c.from].dirty = browser[c.from].dirty \ {c.of}
               /\ \A s \in Sheet : browser'[c.from].copy[s] = IF s = c.of THEN None ELSE browser[c.from].copy[s]
  <1> DEFINE page == browser[c.from]  turned == browser'[c.from]
  <1>1. /\ c.kind \in {"post", "drop"} /\ c.from \in Browser /\ c.answer # "error"
        /\ \A o \in Browser \ {c.from} : Same(o)
        /\ turned.timer = page.timer /\ turned.local = page.local
    BY ClosedTurns DEF Turns, Same
  <1>2. page.copy \in [Sheet -> Maybe(SUBSET Cell)]
    BY <1>1, PageType
  <1>3. CASE c.kind = "post"
    <2>1. c.answer \in Sheet /\ turned.dirty = page.dirty
      BY <1>3, ClosedTurns DEF Turns
    <2>2. turned.copy = [page.copy EXCEPT ![c.answer] = IF page.copy[c.answer] = None THEN {}
                                                       ELSE page.copy[c.answer]]
      BY <1>3, ClosedTurns DEF Turns
    <2>3. \A s \in Sheet : turned.copy[s] = IF s = c.answer /\ page.copy[s] = None THEN {} ELSE page.copy[s]
      BY <1>2, <2>1, <2>2
    <2> QED BY <1>1, <1>3, <2>1, <2>3
  <1>4. CASE c.kind = "drop"
    <2>1. /\ c.of \in Sheet /\ turned.dirty = page.dirty \ {c.of}
          /\ turned.copy = [page.copy EXCEPT ![c.of] = None]
      BY <1>4, ClosedTurns DEF Turns
    <2>2. \A s \in Sheet : turned.copy[s] = IF s = c.of THEN None ELSE page.copy[s]
      BY <1>2, <2>1
    <2> QED BY <1>1, <1>4, <2>1, <2>2
  <1> QED BY <1>1, <1>3, <1>4

(* Types. *)

\* What the handlers look for.
LEMMA FoundIs ==
  ASSUME Types, NEW c \in calls
  PROVE  /\ c.kind = "post" => Found(c) = Cardinality(Tabs) /\ Found(c) \in Nat
         /\ c.kind \in {"put", "delete"} => Found(c) \in BOOLEAN /\ (Found(c) <=> table[c.of] # None)
         /\ c.kind \in {"patch", "drop", "move"} => Found(c) \in BOOLEAN /\ (Found(c) <=> c.of \in Tabs)
  <1>1. Cardinality(Tabs) \in Nat
    BY PageAssumption, FS_Subset, FS_CardinalityType DEF Tabs
  <1>2. Wellformed(c)
    BY DEF Types
  <1>3. CASE c.kind = "post"
    <2>1. c.of \notin Keyed
      BY <1>2, <1>3, PageAssumption DEF Wellformed
    <2>2. Found(c) = Cardinality(Tabs)
      BY <1>3, <2>1 DEF Found
    <2> QED BY <1>1, <1>3, <2>2
  <1>4. CASE c.kind \in {"put", "delete"}
    <2>1. Found(c) = (table[c.of] # None)
      BY <1>2, <1>4 DEF Found, Wellformed
    <2>2. Found(c) \in BOOLEAN /\ (Found(c) <=> table[c.of] # None)
      BY <2>1, Zenon
    <2> QED BY <1>4, <2>2
  <1>5. CASE c.kind \in {"patch", "drop", "move"}
    <2>1. c.of \notin Keyed
      BY <1>2, <1>5, PageAssumption DEF Wellformed
    <2>2. c.of \in Tabs => Found(c) = TRUE
      BY <1>5, <2>1 DEF Found
    <2>3. c.of \notin Tabs => Found(c) = FALSE
      BY <1>5, <2>1 DEF Found
    <2> QED BY <1>5, <2>2, <2>3
  <1> QED BY <1>3, <1>4, <1>5

\* A handler answers and forgets, or answers and waits to be read.
LEMMA AnswerIs ==
  ASSUME NEW c \in calls, Wellformed(c), NEW answer, Answer(c, answer),
         c.kind \in {"patch", "drop"} => answer \in {"ok", "error"},
         c.kind = "post" => answer \in {"error"} \cup Sheet, c.kind \in Writes
  PROVE  /\ c.kind \in {"put", "delete", "move"} => calls' = calls \ {c}
         /\ c.kind \in {"patch", "drop", "post"} =>
              \E d : /\ calls' = (calls \ {c}) \cup {d} /\ Wellformed(d) /\ d.kind = c.kind /\ d.from = c.from
                     /\ d.of = c.of /\ d.value = c.value /\ d.seen = c.seen /\ d.answer = answer
  <1>1. c \in Record
    BY DEF Wellformed
  <1>2. CASE c.kind \in {"put", "delete", "move"}
    BY <1>2 DEF Answer
  <1>3. CASE c.kind \in {"patch", "drop", "post"}
    <2> DEFINE d == [c EXCEPT !.answer = answer]
    <2>1. answer \in Maybe({"ok", "error"} \cup Sheet \cup Loads)
      BY <1>3 DEF Maybe
    <2>2. /\ d \in Record /\ d.kind = c.kind /\ d.from = c.from
          /\ d.of = c.of /\ d.value = c.value /\ d.seen = c.seen /\ d.answer = answer
      BY <1>1, <2>1, AnswerSet
    <2>3. calls' = (calls \ {c}) \cup {d}
      BY <1>3 DEF Answer
    <2> HIDE DEF d
    <2>4. Wellformed(d)
      BY <1>3, <2>2 DEF Wellformed, Maybe
    <2> QED BY <1>3, <2>2, <2>3, <2>4
  <1> QED BY <1>2, <1>3 DEF Writes

\* A handler that writes looks first.
LEMMA LookIs ==
  ASSUME Types, NEW c \in calls, Look(c)
  PROVE  /\ c.kind \in Writes /\ c.seen = None
         /\ \E d : /\ calls' = (calls \ {c}) \cup {d} /\ Wellformed(d) /\ d.kind = c.kind /\ d.from = c.from
                   /\ d.of = c.of /\ d.value = c.value /\ d.seen = Found(c) /\ d.answer = c.answer
  <1> DEFINE d == [c EXCEPT !.seen = Found(c)]
  <1>1. c.kind \in Writes /\ c.seen = None /\ Wellformed(c) /\ c \in Record
    BY DEF Look, Types, Wellformed
  <1>2. IF c.kind = "post" THEN Found(c) \in Nat ELSE Found(c) \in BOOLEAN
    BY <1>1, FoundIs, Zenon DEF Writes
  <1>3. /\ d \in Record /\ d.kind = c.kind /\ d.from = c.from
        /\ d.of = c.of /\ d.value = c.value /\ d.seen = Found(c) /\ d.answer = c.answer
    <2>1. Found(c) \in Maybe(BOOLEAN \cup Nat)
      BY <1>2 DEF Maybe
    <2> QED BY <1>1, <2>1, SeenSet
  <1>4. calls' = (calls \ {c}) \cup {d}
    BY DEF Look
  <1> HIDE DEF d
  <1>5. Wellformed(d)
    BY <1>1, <1>2, <1>3 DEF Wellformed, Writes, Maybe
  <1> QED BY <1>1, <1>3, <1>4, <1>5

\* The calls of a page that is left: the saves of the settings, and of what it had sent
\* the part that the server has not answered.
LEMMA FlushIs ==
  ASSUME Types, NEW b \in Browser, NEW d \in Flush(b)
  PROVE  /\ Wellformed(d) /\ d.kind = "put" /\ d.from = b /\ d.seen = None /\ d.answer = None
         /\ d.of \in Pending(b) /\ d.value = browser[b].timer[d.of]
  <1>1. PICK k \in Pending(b) : d = Call("put", b, k, browser[b].timer[k])
    BY DEF Flush
  <1>2. k \in Keyed /\ browser[b].timer[k] \in Value
    BY PageType DEF Pending, Keyed, Maybe
  <1>3. Fits("put", b, k, browser[b].timer[k]) /\ b \in Maybe(Browser) /\ "put" \in Writes \cup {"load"}
    BY <1>2 DEF Fits, Maybe, Writes
  <1> QED BY <1>1, <1>3, Sent

LEMMA ReloadIs ==
  ASSUME Types, NEW b \in Browser, NEW mode \in {"db", "local"}, Reload(b, mode), NEW d \in calls'
  PROVE  /\ Wellformed(d)
         /\ \/ d \in calls /\ d.from # b
            \/ /\ d.kind = "load" /\ d.from = b /\ d.of = None /\ d.value = mode
               /\ d.seen = None /\ d.answer = None
            \/ \E c \in calls \cup Flush(b) :
                 /\ c.from = b /\ c.kind # "load" /\ c.answer = None
                 /\ d.kind = c.kind /\ d.from = None /\ d.of = c.of /\ d.value = c.value
                 /\ d.seen = c.seen /\ d.answer = c.answer
  <1> DEFINE left == {c \in calls \cup Flush(b) : c.from = b /\ c.kind # "load" /\ c.answer = None}
             load == Call("load", b, None, mode)
  <1>1. d \in {c \in calls : c.from # b} \cup {[c EXCEPT !.from = None] : c \in left} \cup {load}
    BY DEF Reload
  <1>2. CASE d \in {c \in calls : c.from # b}
    BY <1>2 DEF Types
  <1>3. ASSUME NEW c \in left, d = [c EXCEPT !.from = None]
        PROVE  /\ Wellformed(d)
               /\ \E x \in calls \cup Flush(b) :
                    /\ x.from = b /\ x.kind # "load" /\ x.answer = None
                    /\ d.kind = x.kind /\ d.from = None /\ d.of = x.of /\ d.value = x.value
                    /\ d.seen = x.seen /\ d.answer = x.answer
    <2>1. Wellformed(c) /\ c \in Record
      BY FlushIs DEF Types, Wellformed
    <2>2. /\ d \in Record /\ d.kind = c.kind /\ d.from = None
          /\ d.of = c.of /\ d.value = c.value /\ d.seen = c.seen /\ d.answer = c.answer
      BY <1>3, <2>1, FromSet DEF Maybe
    <2>3. Wellformed(d)
      BY <2>1, <2>2 DEF Wellformed
    <2> QED BY <2>2, <2>3
  <1>4. ASSUME d = load
        PROVE  /\ Wellformed(d) /\ d.kind = "load" /\ d.from = b /\ d.of = None /\ d.value = mode
               /\ d.seen = None /\ d.answer = None
    <2>1. Fits("load", b, None, mode) /\ b \in Maybe(Browser) /\ "load" \in Writes \cup {"load"}
      BY DEF Fits, Maybe
    <2>2. /\ Wellformed(load) /\ load.kind = "load" /\ load.from = b /\ load.of = None /\ load.value = mode
          /\ load.seen = None /\ load.answer = None
      BY <2>1, Sent
    <2> QED BY <1>4, <2>2
  <1> QED BY <1>1, <1>2, <1>3, <1>4

\* A step keeps the types: of the calls it is enough to look at those that are new.
NewCalls == \A d \in calls' \ calls : Wellformed(d)
Others   == /\ table' \in [Keyed -> Maybe(Value)] /\ sheets' \in [Sheet -> Maybe(Tab)]
            /\ browser' \in [Browser -> Pages]
Ghosts   == /\ wanted' \in [Keyed \cup Sheet -> Maybe(Value) \cup SUBSET Cell]
            /\ \A k \in Keyed : wanted'[k] \in Maybe(Value)
            /\ \A s \in Sheet : wanted'[s] \in SUBSET Cell
            /\ shown' \in [Key -> Maybe(Browser)] /\ raced' \subseteq Keyed \cup Sheet /\ gap' \in BOOLEAN

LEMMA Composed ==
  ASSUME Types, NewCalls, Others, Ghosts
  PROVE  Types'
  BY DEF Types, NewCalls, Others, Ghosts

LEMMA UserTypes ==
  ASSUME Types, User
  PROVE  Types'
  <1> USE DEF Edit, Others, Ghosts, NewCalls
  <1>1. ASSUME NEW b \in Browser, NEW k \in Key, RemoveItem(b, k)
        PROVE  Types'
    <2>1. Others
      BY <1>1, RemoveItemTurns DEF RemoveItem, stored, Types, Turns
    <2>2. Ghosts
      <3>1. k \in Keyed /\ k \notin Sheet
        BY PageAssumption DEF Keyed
      <3>2. shown' \in [Key -> Maybe(Browser)] /\ raced' \subseteq Keyed \cup Sheet /\ gap' \in BOOLEAN
        BY <1>1, <3>1 DEF RemoveItem, Want, Types, Maybe
      <3>3. wanted' = wanted \/ \E x \in Maybe(Value) : wanted' = [wanted EXCEPT ![k] = x]
        BY <1>1 DEF RemoveItem, Want, Maybe
      <3> QED BY <3>1, <3>2, <3>3 DEF Types
    <2>3. NewCalls
      <3>1. Fits("delete", b, k, None) /\ b \in Maybe(Browser) /\ "delete" \in Writes \cup {"load"}
        BY DEF Fits, Maybe, Writes, Keyed
      <3>2. Wellformed(Call("delete", b, k, None))
        BY <3>1, Sent
      <3> QED BY <1>1, <3>2 DEF RemoveItem, Send
    <2> QED BY <2>1, <2>2, <2>3, Composed
  <1>2. ASSUME NEW b \in Browser, NEW k \in Key, NEW v \in Value, SetItem(b, k, v)
        PROVE  Types'
    <2>1. Others
      BY <1>2, SetItemTurns DEF SetItem, stored, Types, Turns
    <2>2. Ghosts
      <3>1. k \in Keyed /\ k \notin Sheet
        BY PageAssumption DEF Keyed
      <3>2. shown' \in [Key -> Maybe(Browser)] /\ raced' \subseteq Keyed \cup Sheet /\ gap' \in BOOLEAN
        BY <1>2, <3>1 DEF SetItem, Want, Types, Maybe
      <3>3. wanted' = wanted \/ \E x \in Maybe(Value) : wanted' = [wanted EXCEPT ![k] = x]
        BY <1>2 DEF SetItem, Want, Maybe
      <3> QED BY <3>1, <3>2, <3>3 DEF Types
    <2>3. NewCalls
      BY <1>2 DEF SetItem
    <2> QED BY <2>1, <2>2, <2>3, Composed
  <1>3. ASSUME NEW b \in Browser, NEW mode \in {"db", "local"}, Reload(b, mode)
        PROVE  Types'
    <2>1. Others
      BY <1>3, ReloadTurns DEF Reload, stored, Types, Turns
    <2>2. Ghosts
      <3>1. raced' \subseteq Keyed \cup Sheet
        <4>1. Busy(b) \subseteq Keyed
          BY DEF Busy, Pending, Keyed
        <4>2. browser[b].dirty \subseteq Sheet
          BY PageType
        <4>3. \A x \in calls : x.kind = "patch" => x.of \in Sheet
          BY DEF Types, Wellformed
        <4> QED BY <1>3, <4>1, <4>2, <4>3 DEF Reload, Types
      <3>2. shown' \in [Key -> Maybe(Browser)]
        BY <1>3 DEF Reload, Types, Maybe
      <3> QED BY <1>3, <3>1, <3>2 DEF Reload, Types
    <2>3. NewCalls
      BY <1>3, ReloadIs
    <2> QED BY <2>1, <2>2, <2>3, Composed
  <1>4. ASSUME NEW b \in Browser, NEW s \in Sheet, CloseTab(b, s)
        PROVE  Types'
    <2>1. Fits("drop", b, s, None) /\ b \in Maybe(Browser) /\ "drop" \in Writes \cup {"load"}
      BY DEF Fits, Maybe, Writes
    <2>2. Wellformed(Call("drop", b, s, None))
      BY <2>1, Sent
    <2>3. NewCalls
      BY <1>4, <2>2 DEF CloseTab, Send
    <2> QED BY <1>4, <2>3, Composed DEF CloseTab, stored, ghosts, Types
  <1>5. ASSUME NEW b \in Browser, NEW s \in Sheet, NEW x \in Cell, EditCell(b, s, x)
        PROVE  Types'
    <2>1. Others
      BY <1>5, EditCellTurns DEF EditCell, stored, Types, Turns
    <2>2. Ghosts
      <3>1. wanted[s] \in SUBSET Cell /\ s \notin Keyed
        BY PageAssumption DEF Types
      <3>2. PICK cells \in SUBSET Cell : cells = wanted[s] \cup {x}
        BY <3>1
      <3>3. wanted' = [wanted EXCEPT ![s] = cells]
        BY <1>5, <3>1, <3>2 DEF EditCell, Types
      <3> QED BY <1>5, <3>1, <3>3 DEF EditCell, Types
    <2>3. NewCalls
      BY <1>5 DEF EditCell
    <2> QED BY <2>1, <2>2, <2>3, Composed
  <1>6. ASSUME NEW b \in Browser, NewTab(b)
        PROVE  Types'
    <2>1. Fits("post", b, None, None) /\ b \in Maybe(Browser) /\ "post" \in Writes \cup {"load"}
      BY DEF Fits, Maybe, Writes
    <2>2. Wellformed(Call("post", b, None, None))
      BY <2>1, Sent
    <2>3. NewCalls
      BY <1>6, <2>2 DEF NewTab, Send
    <2> QED BY <1>6, <2>3, Composed DEF NewTab, stored, ghosts, Types
  <1> QED BY <1>1, <1>2, <1>3, <1>4, <1>5, <1>6 DEF User

LEMMA OtherTypes ==
  ASSUME Types, DirtyShown, Administrator \/ Script
  PROVE  Types'
  <1> USE DEF Edit, Others, Ghosts, NewCalls
  <1>1. ASSUME NEW d \in Date, NEW v \in Maybe(Value), AskDate(d, v)
        PROVE  Types'
    <2>1. Fits(IF v = None THEN "delete" ELSE "put", None, d, v) /\ None \in Maybe(Browser)
      BY DEF Fits, Maybe, Keyed
    <2>2. (IF v = None THEN "delete" ELSE "put") \in Writes \cup {"load"}
      BY DEF Writes
    <2>3. Wellformed(Call(IF v = None THEN "delete" ELSE "put", None, d, v))
      BY <2>1, <2>2, Sent
    <2>4. NewCalls
      BY <1>1, <2>3 DEF AskDate, Send
    <2>5. Others
      BY <1>1 DEF AskDate, stored, Types
    <2>6. Ghosts
      <3>1. d \in Keyed /\ d \notin Sheet
        BY PageAssumption DEF Keyed
      <3> QED BY <1>1, <3>1 DEF AskDate, Types
    <2> QED BY <2>4, <2>5, <2>6, Composed
  <1>2. ASSUME NEW s \in Sheet, NEW i \in 0..Cardinality(Sheet), MoveTab(s, i)
        PROVE  Types'
    <2>1. Fits("move", None, s, i) /\ None \in Maybe(Browser) /\ "move" \in Writes \cup {"load"}
      BY DEF Fits, Maybe, Writes
    <2>2. Wellformed(Call("move", None, s, i))
      BY <2>1, Sent
    <2>3. NewCalls
      BY <1>2, <2>2 DEF MoveTab, Send
    <2> QED BY <1>2, <2>3, Composed DEF MoveTab, stored, ghosts, Types
  <1>3. ASSUME NEW b \in Browser, Hide(b)
        PROVE  Types'
    <2>1. Others
      BY <1>3, HideTurns DEF Hide, stored, Types, Turns
    <2>2. Ghosts
      BY <1>3 DEF Hide, Types, Busy, Pending, Keyed
    <2>3. NewCalls
      BY <1>3, FlushIs DEF Hide
    <2> QED BY <2>1, <2>2, <2>3, Composed
  <1>4. ASSUME NEW b \in Browser, NEW k \in Key, SaveItem(b, k)
        PROVE  Types'
    <2>1. Others
      BY <1>4, SaveItemTurns DEF SaveItem, stored, Types, Turns
    <2>2. Ghosts
      BY <1>4 DEF SaveItem, Types, Keyed
    <2>3. Fits("put", b, k, browser[b].timer[k]) /\ b \in Maybe(Browser) /\ "put" \in Writes \cup {"load"}
      BY <1>4, PageType DEF SaveItem, Fits, Maybe, Writes, Keyed
    <2>4. Wellformed(Call("put", b, k, browser[b].timer[k]))
      BY <2>3, Sent
    <2>5. NewCalls
      BY <1>4, <2>4 DEF SaveItem, Send
    <2> QED BY <2>1, <2>2, <2>5, Composed
  <1>5. ASSUME NEW b \in Browser, NEW s \in Sheet, SaveSheet(b, s)
        PROVE  Types'
    <2>1. Others
      BY <1>5, SaveSheetTurns DEF SaveSheet, stored, Types, Turns
    <2>2. Fits("patch", b, s, browser[b].copy[s]) /\ b \in Maybe(Browser) /\ "patch" \in Writes \cup {"load"}
      BY <1>5, PageType DEF SaveSheet, Fits, Maybe, Writes, DirtyShown
    <2>3. Wellformed(Call("patch", b, s, browser[b].copy[s]))
      BY <2>2, Sent
    <2>4. NewCalls
      BY <1>5, <2>3 DEF SaveSheet, Send
    <2> QED BY <1>5, <2>1, <2>4, Composed DEF SaveSheet, ghosts, Types
  <1>6. ASSUME NEW c \in calls, Loaded(c)
        PROVE  Types'
    BY <1>6, LoadedTurns, Composed DEF Loaded, stored, ghosts, Types, Turns
  <1>7. ASSUME NEW c \in calls, Saved(c)
        PROVE  Types'
    <2>1. browser' \in [Browser -> Pages]
      BY <1>7, SavedTurns DEF Types, Turns
    <2> QED BY <1>7, <2>1, Composed DEF Saved, stored, ghosts, Types
  <1>8. ASSUME NEW c \in calls, Closed(c)
        PROVE  Types'
    <2>1. browser' \in [Browser -> Pages]
      BY <1>8, ClosedTurns DEF Types, Turns
    <2> QED BY <1>8, <2>1, Composed DEF Closed, stored, ghosts, Types
  <1> QED BY <1>1, <1>2, <1>3, <1>4, <1>5, <1>6, <1>7, <1>8 DEF Administrator, Script, Maybe

LEMMA LoseIs ==
  ASSUME Types, NEW c \in calls, Lose(c)
  PROVE  IF c.kind # "patch" THEN calls' = calls \ {c}
         ELSE \E d : /\ calls' = (calls \ {c}) \cup {d} /\ Wellformed(d) /\ d.kind = c.kind /\ d.from = c.from
                     /\ d.of = c.of /\ d.value = c.value /\ d.seen = c.seen /\ d.answer = "error"
  <1>1. CASE c.kind = "patch"
    <2> DEFINE d == [c EXCEPT !.answer = "error"]
    <2>1. Wellformed(c) /\ c \in Record
      BY DEF Types, Wellformed
    <2>2. /\ d \in Record /\ d.kind = c.kind /\ d.from = c.from
          /\ d.of = c.of /\ d.value = c.value /\ d.seen = c.seen /\ d.answer = "error"
      BY <2>1, AnswerSet DEF Maybe
    <2>3. calls' = (calls \ {c}) \cup {d}
      BY <1>1 DEF Lose
    <2> HIDE DEF d
    <2>4. Wellformed(d)
      BY <1>1, <2>1, <2>2 DEF Wellformed
    <2> QED BY <1>1, <2>2, <2>3, <2>4
  <1>2. CASE c.kind # "patch"
    BY <1>2 DEF Lose
  <1> QED BY <1>1, <1>2

LEMMA ServerTypes ==
  ASSUME Types, Server \/ (\E c \in calls : Lose(c))
  PROVE  Types'
  <1> USE DEF Others, Ghosts, NewCalls
  <1>1. ASSUME NEW c \in calls, Load(c)
        PROVE  Types'
    <2>1. Wellformed(c) /\ c \in Record /\ c.kind = "load" /\ c.answer = None
      BY <1>1 DEF Load, Types, Wellformed
    <2>2. PICK answer : answer = <<table, [s \in Sheet |-> Cells(s)]>>
      OBVIOUS
    <2>3. answer \in Loads
      <3>1. [s \in Sheet |-> Cells(s)] \in [Sheet -> Maybe(SUBSET Cell)]
        BY DEF Types, Cells, Tab, Maybe
      <3> QED BY <2>2, <3>1 DEF Loads, Types
    <2> DEFINE d == [c EXCEPT !.answer = answer]
    <2>4. /\ d \in Record /\ d.kind = c.kind /\ d.from = c.from
          /\ d.of = c.of /\ d.value = c.value /\ d.seen = c.seen /\ d.answer = answer
      BY <2>1, <2>3, AnswerSet DEF Maybe
    <2>5. calls' = (calls \ {c}) \cup {d}
      BY <1>1, <2>2 DEF Load
    <2> HIDE DEF d
    <2>6. Wellformed(d)
      BY <2>1, <2>3, <2>4 DEF Wellformed, Maybe
    <2>7. NewCalls
      BY <2>5, <2>6
    <2> QED BY <1>1, <2>7, Composed DEF Load, stored, ghosts, Types
  <1>2. ASSUME NEW c \in calls, Look(c)
        PROVE  Types'
    <2>1. NewCalls
      BY <1>2, LookIs
    <2>2. gap' \in BOOLEAN
      BY <1>2 DEF Look
    <2> QED BY <1>2, <2>1, <2>2, Composed DEF Look, stored, Types
  <1>3. ASSUME NEW c \in calls, PutRow(c)
        PROVE  Types'
    <2>1. c.of \in Keyed /\ c.value \in Value /\ Wellformed(c) /\ c.kind = "put" /\ c.kind \in Writes
      BY <1>3 DEF PutRow, Types, Wellformed, Writes
    <2>2. NewCalls
      BY <1>3, <2>1, AnswerIs DEF PutRow
    <2>3. table' \in [Keyed -> Maybe(Value)]
      BY <1>3, <2>1 DEF PutRow, Types, Maybe
    <2> QED BY <1>3, <2>2, <2>3, Composed DEF PutRow, ghosts, Types
  <1>4. ASSUME NEW c \in calls, DeleteRow(c)
        PROVE  Types'
    <2>1. c.of \in Keyed /\ Wellformed(c) /\ c.kind = "delete" /\ c.kind \in Writes
      BY <1>4 DEF DeleteRow, Types, Wellformed, Writes
    <2>2. NewCalls
      BY <1>4, <2>1, AnswerIs DEF DeleteRow
    <2>3. table' \in [Keyed -> Maybe(Value)]
      BY <1>4, <2>1 DEF DeleteRow, Types, Maybe
    <2> QED BY <1>4, <2>2, <2>3, Composed DEF DeleteRow, ghosts, Types
  <1>5. ASSUME NEW c \in calls, PatchSheet(c)
        PROVE  Types'
    <2>1. /\ c.of \in Sheet /\ c.value \in SUBSET Cell /\ Wellformed(c) /\ c.kind = "patch"
          /\ c.kind \in Writes
      BY <1>5 DEF PatchSheet, Types, Wellformed, Writes
    <2>2. NewCalls
      BY <1>5, <2>1, AnswerIs DEF PatchSheet
    <2>3. sheets' \in [Sheet -> Maybe(Tab)]
      BY <1>5, <2>1 DEF PatchSheet, Types, Maybe, Tab, Tabs
    <2> QED BY <1>5, <2>2, <2>3, Composed DEF PatchSheet, ghosts, Types
  <1>6. ASSUME NEW c \in calls, MoveSheet(c)
        PROVE  Types'
    <2>1. /\ c.of \in Sheet /\ c.value \in Nat /\ Wellformed(c) /\ c.kind = "move" /\ c.kind \in Writes
      BY <1>6 DEF MoveSheet, Types, Wellformed, Writes
    <2>2. NewCalls
      BY <1>6, <2>1, AnswerIs DEF MoveSheet
    <2>3. sheets' \in [Sheet -> Maybe(Tab)] /\ gap' \in BOOLEAN
      <3>1. CASE c.seen /\ c.of \in Tabs /\ c.value \notin Orders
        BY <1>6, <2>1, <3>1 DEF MoveSheet, Types, Maybe, Tab, Tabs
      <3>2. CASE ~(c.seen /\ c.of \in Tabs /\ c.value \notin Orders)
        BY <1>6, <3>2 DEF MoveSheet, Types
      <3> QED BY <3>1, <3>2
    <2> QED BY <1>6, <2>2, <2>3, Composed DEF MoveSheet, Types
  <1>7. ASSUME NEW c \in calls, CreateSheet(c)
        PROVE  Types'
    <2>1. c.seen \in Nat /\ Wellformed(c) /\ c.kind = "post" /\ c.kind \in Writes
      BY <1>7 DEF CreateSheet, Types, Wellformed, Writes, Maybe
    <2>2. NewCalls
      BY <1>7, <2>1, AnswerIs DEF CreateSheet
    <2>3. sheets' \in [Sheet -> Maybe(Tab)]
      BY <1>7, <2>1 DEF CreateSheet, Place, Types, Maybe, Tab
    <2> QED BY <1>7, <2>2, <2>3, Composed DEF CreateSheet, ghosts, Types
  <1>8. ASSUME NEW c \in calls, DropSheet(c)
        PROVE  Types'
    <2>1. c.of \in Sheet /\ Wellformed(c) /\ c.kind = "drop" /\ c.kind \in Writes
      BY <1>8 DEF DropSheet, Types, Wellformed, Writes
    <2>2. NewCalls
      BY <1>8, <2>1, AnswerIs DEF DropSheet
    <2>3. sheets' \in [Sheet -> Maybe(Tab)] /\ gap' \in BOOLEAN
      BY <1>8, <2>1 DEF DropSheet, Types, Maybe
    <2> QED BY <1>8, <2>1, <2>2, <2>3, Composed DEF DropSheet, Types
  <1>9. ASSUME NEW c \in calls, Lose(c)
        PROVE  Types'
    <2>1. Wellformed(c) /\ c \in Record
      BY DEF Types, Wellformed
    <2>2. raced' \subseteq Keyed \cup Sheet
      BY <1>9, <2>1 DEF Lose, Types, Wellformed
    <2>3. NewCalls
      BY <1>9, LoseIs
    <2> QED BY <1>9, <2>2, <2>3, Composed DEF Lose, Edit, stored, Types
  <1> QED BY <1>1, <1>2, <1>3, <1>4, <1>5, <1>6, <1>7, <1>8, <1>9 DEF Server

LEMMA TypesKept ==
  ASSUME Types, DirtyShown, [Next]_vars
  PROVE  Types'
  <1>1. CASE UNCHANGED vars
    BY <1>1 DEF vars, stored, ghosts, Types
  <1> QED BY <1>1, UserTypes, OtherTypes, ServerTypes DEF Next

(* Who changes what. *)

LEMMA StoredBy ==
  ASSUME [Next]_vars
  PROVE  /\ table' = table \/ \E c \in calls : PutRow(c) \/ DeleteRow(c)
         /\ sheets' = sheets \/ \E c \in calls : PatchSheet(c) \/ MoveSheet(c) \/ CreateSheet(c) \/ DropSheet(c)
  <1>1. ASSUME User  PROVE stored' = stored
    <2>1. \A b \in Browser, k \in Key : RemoveItem(b, k) => stored' = stored
      BY DEF RemoveItem
    <2>2. \A b \in Browser, k \in Key, v \in Value : SetItem(b, k, v) => stored' = stored
      BY DEF SetItem
    <2>3. \A b \in Browser : \A mode \in {"db", "local"} : Reload(b, mode) => stored' = stored
      BY DEF Reload
    <2>4. \A b \in Browser, s \in Sheet : CloseTab(b, s) => stored' = stored
      BY DEF CloseTab
    <2>5. \A b \in Browser, s \in Sheet, x \in Cell : EditCell(b, s, x) => stored' = stored
      BY DEF EditCell
    <2>6. \A b \in Browser : NewTab(b) => stored' = stored
      BY DEF NewTab
    <2> QED BY <1>1, <2>1, <2>2, <2>3, <2>4, <2>5, <2>6, Zenon DEF User
  <1>2. ASSUME Administrator  PROVE stored' = stored
    BY <1>2, Zenon DEF Administrator, AskDate, MoveTab
  <1>3. ASSUME Script  PROVE stored' = stored
    BY <1>3, Zenon DEF Script, Hide, SaveItem, SaveSheet, Loaded, Saved, Closed
  <1>4. ASSUME NEW c \in calls, Lose(c) \/ Load(c) \/ Look(c)  PROVE stored' = stored
    BY <1>4, Zenon DEF Lose, Load, Look
  <1>5. ASSUME NEW c \in calls, PutRow(c) \/ DeleteRow(c)  PROVE sheets' = sheets
    BY <1>5, Zenon DEF PutRow, DeleteRow
  <1>6. ASSUME NEW c \in calls, PatchSheet(c) \/ MoveSheet(c) \/ CreateSheet(c) \/ DropSheet(c)
        PROVE  table' = table
    BY <1>6, Zenon DEF PatchSheet, MoveSheet, CreateSheet, DropSheet
  <1>7. stored' = stored => table' = table /\ sheets' = sheets
    BY DEF stored
  <1>8. UNCHANGED vars => stored' = stored
    BY DEF vars
  <1> QED BY <1>1, <1>2, <1>3, <1>4, <1>5, <1>6, <1>7, <1>8, Zenon DEF Next, Server

LEMMA PagesBy ==
  ASSUME [Next]_vars
  PROVE  browser' = browser \/ (\E c \in calls : Loaded(c) \/ Saved(c) \/ Closed(c)) \/ \E b \in Browser :
           \/ \E k \in Key : RemoveItem(b, k) \/ SaveItem(b, k) \/ \E v \in Value : SetItem(b, k, v)
           \/ Hide(b) \/ \E mode \in {"db", "local"} : Reload(b, mode)
           \/ \E s \in Sheet : SaveSheet(b, s) \/ \E x \in Cell : EditCell(b, s, x)
  <1>1. ASSUME NEW b \in Browser, NewTab(b) \/ \E s \in Sheet : CloseTab(b, s)  PROVE browser' = browser
    BY <1>1, Zenon DEF NewTab, CloseTab
  <1>2. ASSUME Administrator  PROVE browser' = browser
    BY <1>2, Zenon DEF Administrator, AskDate, MoveTab
  <1>3. ASSUME NEW c \in calls, Lose(c) \/ Load(c) \/ Look(c) \/ PutRow(c) \/ DeleteRow(c) \/ PatchSheet(c)
                                 \/ MoveSheet(c) \/ CreateSheet(c) \/ DropSheet(c)
        PROVE  browser' = browser
    BY <1>3, Zenon DEF Lose, Load, Look, PutRow, DeleteRow, PatchSheet, MoveSheet, CreateSheet, DropSheet
  <1>4. UNCHANGED vars => browser' = browser
    BY DEF vars
  <1> QED BY <1>1, <1>2, <1>3, <1>4, Zenon DEF Next, User, Script, Server

\* No two tabs have one order.
LEMMA DistinctKept ==
  ASSUME Types, Distinct, [Next]_vars
  PROVE  Distinct'
  <1>1. CASE sheets' = sheets
    BY <1>1 DEF Distinct, Tabs
  <1>2. ASSUME NEW c \in calls, PatchSheet(c)  PROVE Distinct'
    BY <1>2 DEF PatchSheet, Distinct, Tabs, Types, Maybe, Tab
  <1>3. ASSUME NEW c \in calls, MoveSheet(c)  PROVE Distinct'
    BY <1>3 DEF MoveSheet, Distinct, Tabs, Orders, Types, Maybe, Tab
  <1>4. ASSUME NEW c \in calls, CreateSheet(c)  PROVE Distinct'
    BY <1>4 DEF CreateSheet, Place, Distinct, Tabs, Orders, Types, Maybe, Tab
  <1>5. ASSUME NEW c \in calls, DropSheet(c)  PROVE Distinct'
    BY <1>5 DEF DropSheet, Distinct, Tabs, Types
  <1> QED BY <1>1, <1>2, <1>3, <1>4, <1>5, StoredBy

\* A sheet that a browser is about to save is one that it shows.
LEMMA DirtyShownKept ==
  ASSUME Types, DirtyShown, [Next]_vars
  PROVE  DirtyShown'
  <1> USE DEF DirtyShown, Turns
  <1>1. CASE browser' = browser
    BY <1>1
  <1>2. ASSUME NEW b \in Browser, NEW k \in Key,
               RemoveItem(b, k) \/ SaveItem(b, k) \/ \E v \in Value : SetItem(b, k, v)
        PROVE  DirtyShown'
    <2>1. /\ browser'[b].copy = browser[b].copy /\ browser'[b].dirty = browser[b].dirty
          /\ \A o \in Browser \ {b} : browser'[o] = browser[o]
      <3>1. CASE RemoveItem(b, k)
        BY <3>1, RemoveItemTurns
      <3>2. CASE SaveItem(b, k)
        BY <3>2, SaveItemTurns
      <3>3. ASSUME NEW v \in Value, SetItem(b, k, v)
            PROVE  /\ browser'[b].copy = browser[b].copy /\ browser'[b].dirty = browser[b].dirty
                   /\ \A o \in Browser \ {b} : browser'[o] = browser[o]
        BY <3>3, SetItemTurns
      <3> QED BY <1>2, <3>1, <3>2, <3>3
    <2> QED BY <2>1
  <1>3. ASSUME NEW b \in Browser, Hide(b) \/ \E mode \in {"db", "local"} : Reload(b, mode)
        PROVE  DirtyShown'
    BY <1>3, HideTurns, ReloadTurns
  <1>4. ASSUME NEW b \in Browser, NEW s \in Sheet, SaveSheet(b, s)  PROVE DirtyShown'
    BY <1>4, SaveSheetTurns
  <1>5. ASSUME NEW b \in Browser, NEW s \in Sheet, NEW x \in Cell, EditCell(b, s, x)  PROVE DirtyShown'
    <2>1. PICK cells \in SUBSET Cell : cells = browser[b].copy[s] \cup {x}
      BY <1>5, EditCellTurns
    <2>2. /\ browser'[b].copy = [browser[b].copy EXCEPT ![s] = cells]
          /\ browser'[b].dirty = browser[b].dirty \cup {s}
          /\ \A o \in Browser \ {b} : browser'[o] = browser[o]
      BY <1>5, <2>1, EditCellTurns
    <2>3. cells # None
      BY PageAssumption
    <2> QED BY <2>2, <2>3, PageType
  <1>6. ASSUME NEW c \in calls, Loaded(c)  PROVE DirtyShown'
    BY <1>6, LoadedShows, PageType DEF Same
  <1>7. ASSUME NEW c \in calls, Saved(c)  PROVE DirtyShown'
    <2>1. SUFFICES ASSUME browser' # browser  PROVE DirtyShown'
      OBVIOUS
    <2>2. c.value \in SUBSET Cell => c.value # None
      BY PageAssumption
    <2> QED BY <1>7, <2>1, <2>2, SavedShows, PageType DEF Same
  <1>8. ASSUME NEW c \in calls, Closed(c)  PROVE DirtyShown'
    <2>1. SUFFICES ASSUME browser' # browser  PROVE DirtyShown'
      OBVIOUS
    <2> QED BY <1>8, <2>1, ClosedShows, PageType DEF Same
  <1> QED BY <1>1, <1>2, <1>3, <1>4, <1>5, <1>6, <1>7, <1>8, PagesBy, Zenon

(* The places of the tabs. *)

LEMMA GapStays ==
  ASSUME Types, [Next]_vars, gap
  PROVE  gap'
  <1>1. ASSUME User  PROVE gap' = gap
    <2>1. \A b \in Browser, k \in Key : RemoveItem(b, k) => gap' = gap
      BY DEF RemoveItem, Want
    <2>2. \A b \in Browser, k \in Key, v \in Value : SetItem(b, k, v) => gap' = gap
      BY DEF SetItem, Want
    <2>3. \A b \in Browser : \A mode \in {"db", "local"} : Reload(b, mode) => gap' = gap
      BY DEF Reload
    <2>4. \A b \in Browser, s \in Sheet : CloseTab(b, s) => gap' = gap
      BY DEF CloseTab, ghosts
    <2>5. \A b \in Browser, s \in Sheet, x \in Cell : EditCell(b, s, x) => gap' = gap
      BY DEF EditCell
    <2>6. \A b \in Browser : NewTab(b) => gap' = gap
      BY DEF NewTab, ghosts
    <2> QED BY <1>1, <2>1, <2>2, <2>3, <2>4, <2>5, <2>6, Zenon DEF User
  <1>2. ASSUME Administrator  PROVE gap' = gap
    BY <1>2 DEF Administrator, AskDate, MoveTab, ghosts
  <1>3. ASSUME Script  PROVE gap' = gap
    BY <1>3 DEF Script, Hide, SaveItem, SaveSheet, Loaded, Saved, Closed, ghosts
  <1>4. ASSUME NEW c \in calls, Lose(c) \/ Load(c) \/ PutRow(c) \/ DeleteRow(c) \/ PatchSheet(c) \/ CreateSheet(c)
        PROVE  gap' = gap
    BY <1>4 DEF Lose, Load, PutRow, DeleteRow, PatchSheet, CreateSheet, ghosts
  <1>5. ASSUME NEW c \in calls, Look(c) \/ MoveSheet(c) \/ DropSheet(c)
        PROVE  gap'
    BY <1>5 DEF Look, MoveSheet, DropSheet
  <1>6. UNCHANGED vars => gap' = gap
    BY DEF vars, ghosts
  <1> QED BY <1>1, <1>2, <1>3, <1>4, <1>5, <1>6 DEF Next, Server

\* A handler that writes ends the creation of a tab, if it changes it at all.
LEMMA CountingAnswered ==
  ASSUME Types, NEW c \in calls,
         PutRow(c) \/ DeleteRow(c) \/ PatchSheet(c) \/ MoveSheet(c) \/ CreateSheet(c)
           \/ DropSheet(c) \/ Lose(c)
  PROVE  Counting' \subseteq Counting
  <1> DEFINE Answered(a) == calls' = (calls \ {c}) \cup {[c EXCEPT !.answer = a]}
  <1>1. calls' \subseteq calls \/ \E a : a # None /\ Answered(a)
    <2>1. ASSUME NEW a, a # None, Answer(c, a)
          PROVE  calls' \subseteq calls \/ Answered(a)
      BY <2>1 DEF Answer
    <2>2. None # "ok" /\ None # "error" /\ None \notin Sheet
      BY PageAssumption
    <2>3. CASE PutRow(c) \/ DeleteRow(c) \/ MoveSheet(c)
      BY <2>1, <2>2, <2>3 DEF PutRow, DeleteRow, MoveSheet
    <2>4. CASE PatchSheet(c)
      BY <2>1, <2>2, <2>4 DEF PatchSheet
    <2>5. CASE CreateSheet(c)
      BY <2>1, <2>2, <2>5 DEF CreateSheet
    <2>6. CASE DropSheet(c)
      BY <2>1, <2>2, <2>6 DEF DropSheet
    <2>7. CASE Lose(c)
      BY <2>2, <2>7 DEF Lose
    <2> QED BY <2>3, <2>4, <2>5, <2>6, <2>7
  <1>2. ASSUME NEW a, a # None, Answered(a)  PROVE Counting' \subseteq Counting
    BY <1>2 DEF Counting, Types, Wellformed, Record
  <1> QED BY <1>1, <1>2 DEF Counting

\* A tab that is being created was so before, or has just been counted for.
LEMMA CountingBy ==
  ASSUME Types, [Next]_vars
  PROVE  \/ Counting' \subseteq Counting
         \/ \E c \in calls : c.kind = "post" /\ Look(c)
         \/ \E b \in Browser : \E mode \in {"db", "local"} : Reload(b, mode)
  <1>1. \A c \in calls : Wellformed(c)
    BY DEF Types
  <1>2. ASSUME NEW b \in Browser, NewTab(b) \/ (\E k \in Key : RemoveItem(b, k) \/ \E v \in Value : SetItem(b, k, v))
                                  \/ (\E s \in Sheet : CloseTab(b, s) \/ \E x \in Cell : EditCell(b, s, x))
        PROVE  Counting' \subseteq Counting
    <2>1. \A d \in calls' : d \in calls \/ d.seen = None
      <3>1. CASE NewTab(b) \/ \E s \in Sheet : CloseTab(b, s)
        BY <3>1 DEF NewTab, CloseTab, Send, Call
      <3>2. ASSUME NEW k \in Key, RemoveItem(b, k)
            PROVE  \A d \in calls' : d \in calls \/ d.seen = None
        BY <3>2 DEF RemoveItem, Send, Call
      <3>3. CASE (\E k \in Key, v \in Value : SetItem(b, k, v)) \/ \E s \in Sheet, x \in Cell : EditCell(b, s, x)
        BY <3>3 DEF SetItem, EditCell
      <3> QED BY <1>2, <3>1, <3>2, <3>3
    <2> QED BY <2>1 DEF Counting
  <1>3. ASSUME Administrator
        PROVE  Counting' \subseteq Counting
    <2>1. \A d \in calls' : d \in calls \/ d.seen = None
      BY <1>3 DEF Administrator, AskDate, MoveTab, Send, Call
    <2> QED BY <2>1 DEF Counting
  <1>4. ASSUME NEW b \in Browser, Hide(b) \/ (\E k \in Key : SaveItem(b, k)) \/ (\E s \in Sheet : SaveSheet(b, s))
        PROVE  Counting' \subseteq Counting
    <2>1. \A d \in calls' : d \in calls \/ d.seen = None
      <3>1. CASE Hide(b)
        BY <3>1, FlushIs DEF Hide
      <3>2. CASE (\E k \in Key : SaveItem(b, k)) \/ (\E s \in Sheet : SaveSheet(b, s))
        BY <3>2 DEF SaveItem, SaveSheet, Send, Call
      <3> QED BY <1>4, <3>1, <3>2
    <2> QED BY <2>1 DEF Counting
  <1>5. ASSUME NEW c \in calls, Loaded(c) \/ Saved(c) \/ Closed(c)
        PROVE  Counting' \subseteq Counting
    BY <1>5 DEF Loaded, Saved, Closed, Counting
  <1>6. ASSUME NEW c \in calls, c.kind # "post", Look(c)
        PROVE  Counting' \subseteq Counting
    BY <1>6, LookIs DEF Counting
  <1>7. ASSUME NEW c \in calls, PutRow(c) \/ DeleteRow(c) \/ PatchSheet(c) \/ MoveSheet(c) \/ CreateSheet(c)
                                 \/ DropSheet(c) \/ Lose(c)
        PROVE  Counting' \subseteq Counting
    BY <1>7, CountingAnswered
  <1>8. ASSUME NEW c \in calls, Load(c)
        PROVE  Counting' \subseteq Counting
    BY <1>1, <1>8 DEF Load, Counting, Wellformed, Record
  <1>9. ASSUME UNCHANGED vars  PROVE Counting' \subseteq Counting
    BY <1>9 DEF Counting, vars
  <1> QED BY <1>2, <1>3, <1>4, <1>5, <1>6, <1>7, <1>8, <1>9, Zenon DEF Next, User, Script, Server

LEMMA TabsFinite == IsFiniteSet(Tabs) /\ Cardinality(Tabs) \in Nat
  BY PageAssumption, FS_Subset, FS_CardinalityType DEF Tabs

LEMMA PlacesKept ==
  ASSUME Types, Distinct, Places, [Next]_vars
  PROVE  Places'
  <1> USE DEF Places
  <1>1. SUFFICES ASSUME ~gap'  PROVE Places'
    OBVIOUS
  <1>2. /\ Orders = 0..(Cardinality(Tabs) - 1)
        /\ \A c \in Counting : c.seen = Cardinality(Tabs)
        /\ \A c, d \in Counting : c = d
    BY <1>1, GapStays
  <1>3. sheets' = sheets => Tabs' = Tabs /\ Orders' = Orders
    BY DEF Tabs, Orders
  <1>4. ASSUME sheets' = sheets  PROVE Places'
    <2>1. ASSUME NEW c \in calls, c.kind = "post", Look(c)
          PROVE  Places'
      <3>1. Counting = {}
        BY <1>1, <2>1 DEF Look
      <3>2. PICK d : /\ calls' = (calls \ {c}) \cup {d} /\ d.seen = Found(c)
        BY <2>1, LookIs
      <3>3. Counting' \subseteq {d} /\ d.seen = Cardinality(Tabs)
        BY <2>1, <3>1, <3>2, FoundIs DEF Counting
      <3> QED BY <1>2, <1>3, <1>4, <3>3
    <2>2. ASSUME NEW b \in Browser, NEW mode \in {"db", "local"}, Reload(b, mode)
          PROVE  Places'
      <3>1. ASSUME NEW d \in Counting'
            PROVE  \E c \in Counting : /\ d.kind = c.kind /\ d.of = c.of /\ d.value = c.value
                                       /\ d.seen = c.seen /\ d.answer = c.answer
                                       /\ d.from = IF c.from = b THEN None ELSE c.from
        <4>1. d \in calls' /\ d.kind = "post" /\ d.seen # None /\ d.answer = None
          BY DEF Counting
        <4> QED BY <2>2, <4>1, ReloadIs, FlushIs DEF Counting
      <3>2. \A d \in Counting' : d \in Record
        <4>1. \A d \in calls' : Wellformed(d)
          BY <2>2, ReloadIs
        <4> QED BY <4>1 DEF Counting, Wellformed
      <3>3. ASSUME NEW d \in Counting', NEW e \in Counting'  PROVE d = e
        BY <1>2, <3>1, <3>2 DEF Record
      <3> QED BY <1>2, <1>3, <1>4, <3>1, <3>3
    <2>3. CASE Counting' \subseteq Counting
      BY <1>2, <1>3, <1>4, <2>3
    <2> QED BY <2>1, <2>2, <2>3, CountingBy
  <1>5. ASSUME NEW c \in calls, PatchSheet(c)
        PROVE  Places'
    <2>1. Counting' \subseteq Counting
      BY <1>5, CountingAnswered
    <2>2. Tabs' = Tabs /\ Orders' = Orders
      <3>1. c.of \in Sheet /\ c.value \in SUBSET Cell
        BY <1>5 DEF PatchSheet, Types, Wellformed
      <3>2. ASSUME NEW t \in Sheet
            PROVE  /\ sheets'[t] = None <=> sheets[t] = None
                   /\ sheets[t] # None => sheets'[t].order = sheets[t].order
        <4>1. None \notin Tab
          BY PageAssumption DEF Tab
        <4> QED BY <1>5, <3>1, <4>1 DEF PatchSheet, Tabs, Types, Tab, Maybe
      <3>3. Tabs' = Tabs /\ \A t \in Tabs : sheets'[t].order = sheets[t].order
        BY <3>2 DEF Tabs
      <3>4. Orders' = {sheets'[t].order : t \in Tabs'}
        BY DEF Orders
      <3> QED BY <3>3, <3>4 DEF Orders
    <2> QED BY <1>2, <2>1, <2>2
  <1>6. ASSUME NEW c \in calls, MoveSheet(c)
        PROVE  sheets' = sheets
    BY <1>1, <1>6 DEF MoveSheet
  <1>7. ASSUME NEW c \in calls, CreateSheet(c), sheets' # sheets
        PROVE  Places'
    <2>1. c \in Counting
      BY <1>7 DEF CreateSheet, Counting
    <2>2. c.seen = Cardinality(Tabs) /\ \A d \in Counting : d = c
      BY <1>2, <2>1
    <2>3. PICK s \in Sheet \ Tabs : sheets' = Place(c.seen, s) /\ Answer(c, s)
      BY <1>7 DEF CreateSheet
    <2>4. Counting' = {}
      <3>1. c.kind = "post"
        BY <1>7 DEF CreateSheet
      <3>2. calls' = (calls \ {c}) \cup {[c EXCEPT !.answer = s]}
        BY <2>3, <3>1 DEF Answer
      <3>3. s # None /\ c \in Record
        BY PageAssumption DEF Types, Wellformed
      <3>4. [c EXCEPT !.answer = s].answer = s
        BY <3>3, AnswerSet DEF Maybe
      <3> QED BY <2>2, <3>2, <3>3, <3>4 DEF Counting
    <2>5. Tabs' = Tabs \cup {s} /\ Orders' = Orders \cup {c.seen}
      <3>1. sheets' = [sheets EXCEPT ![s] = [order |-> c.seen, cells |-> {}]]
        BY <2>3 DEF Place
      <3>2. [order |-> c.seen, cells |-> {}] \in Tab
        BY <2>2, TabsFinite DEF Tab
      <3>3. None \notin Tab
        BY PageAssumption DEF Tab
      <3>4. Tabs' = Tabs \cup {s}
        BY <3>1, <3>2, <3>3 DEF Tabs, Types
      <3>5. sheets'[s].order = c.seen /\ \A t \in Tabs : sheets'[t] = sheets[t]
        BY <3>1 DEF Types, Tabs
      <3> QED BY <2>3, <3>4, <3>5 DEF Orders
    <2>6. Cardinality(Tabs') = Cardinality(Tabs) + 1
      BY <2>3, <2>5, TabsFinite, FS_AddElement
    <2> QED BY <1>2, <2>2, <2>4, <2>5, <2>6, TabsFinite
  <1>8. ASSUME NEW c \in calls, DropSheet(c)
        PROVE  Places'
    <2>1. Counting = {} /\ (c.of \in Tabs => ~(sheets[c.of].order < Max(Orders)))
      BY <1>1, <1>8 DEF DropSheet
    <2>2. Counting' = {}
      <3>1. Counting' \subseteq Counting
        BY <1>8, CountingAnswered
      <3> QED BY <2>1, <3>1
    <2>3. c.of \in Sheet /\ sheets' = [sheets EXCEPT ![c.of] = None]
      BY <1>8 DEF DropSheet, Types, Wellformed
    <2>4. CASE c.of \notin Tabs
      <3>1. sheets' = sheets
        BY <2>3, <2>4 DEF Tabs, Types
      <3> QED BY <1>4, <3>1
    <2>5. CASE c.of \in Tabs
      <3> DEFINE n == Cardinality(Tabs)  o == sheets[c.of].order
      <3>1. Tabs' = Tabs \ {c.of}
        BY <2>3, <2>5 DEF Tabs, Types
      <3>2. Cardinality(Tabs') = n - 1
        BY <2>5, <3>1, TabsFinite, FS_RemoveElement
      <3>3. Orders' = Orders \ {o}
        <4>1. \A t \in Tabs' : sheets'[t] = sheets[t]
          BY <2>3, <3>1 DEF Types
        <4>2. Orders' = {sheets[t].order : t \in Tabs'}
          BY <4>1 DEF Orders
        <4> QED BY <2>5, <3>1, <4>2 DEF Orders, Distinct
      <3>4. o \in 0..(n - 1) /\ n \in Nat
        BY <1>2, <2>5, TabsFinite DEF Orders
      <3>5. Max(Orders) = n - 1
        BY <1>2, <3>4 DEF Max
      <3>6. o = n - 1
        BY <2>1, <2>5, <3>4, <3>5
      <3>7. Orders' = 0..(n - 2)
        BY <1>2, <3>3, <3>4, <3>6
      <3> QED BY <2>2, <3>2, <3>4, <3>7
    <2> QED BY <2>4, <2>5
  <1> HIDE DEF Places
  <1> QED BY <1>4, <1>5, <1>6, <1>7, <1>8, StoredBy, Zenon

(* Settings and days. *)

LEMMA OnKeyed ==
  ASSUME Types, NEW k \in Keyed, NEW c \in On(k)
  PROVE  /\ c \in calls /\ Wellformed(c) /\ c \in Record /\ c.of = k
         /\ c.kind \in {"put", "delete"} /\ c.answer = None
         /\ c.seen \in Maybe(BOOLEAN) /\ c.value \in Maybe(Value)
         /\ c.kind = "delete" => c.value = None
  <1>1. c \in calls /\ Wellformed(c) /\ c \in Record /\ c.of = k /\ k \notin Sheet /\ k # None
    BY PageAssumption DEF On, Types, Wellformed
  <1>2. c.kind \in {"put", "delete"}
    BY <1>1 DEF Wellformed, Record, Writes
  <1> QED BY <1>1, <1>2 DEF Wellformed, Maybe

\* What a step leaves alone: what is pending about a setting or a day, what is shown of
\* a setting, and all of it.
RowSame(k) ==
  /\ On(k)' = On(k) /\ table'[k] = table[k] /\ wanted'[k] = wanted[k]
  /\ \A b \in Browser : k \in Key => browser'[b].timer[k] = browser[b].timer[k]
ShowSame(k) ==
  /\ shown'[k] # None => /\ shown'[k] = shown[k]
                         /\ browser'[shown[k]].local[k] = browser[shown[k]].local[k]
  /\ wanted'[k] = wanted[k]
  /\ On(k) = {} => On(k)' = {}
  /\ \A b \in Browser : browser'[b].timer[k] \in {browser[b].timer[k], None}
  /\ \A c \in calls' : c.kind = "load" => c \in calls
RestSame == /\ \A k \in Keyed : RowSame(k)
            /\ \A k \in Key : ShowSame(k)
            /\ raced \subseteq raced'

LEMMA RowFrame ==
  ASSUME NEW k \in Keyed, RowKept(k), RowSame(k)
  PROVE  RowKept(k)'
  <1>1. Timed(k)' = Timed(k)
    BY DEF Timed, RowSame
  <1>2. \A b \in Timed(k) : browser'[b].timer[k] = browser[b].timer[k]
    BY DEF Timed, RowSame
  <1> QED BY <1>1, <1>2 DEF RowKept, RowSame

LEMMA ShowFrame ==
  ASSUME NEW k \in Key, ShowKept(k), ShowSame(k)
  PROVE  ShowKept(k)'
  <1>1. Timed(k)' \subseteq Timed(k)
    BY DEF Timed, ShowSame
  <1> QED BY <1>1 DEF ShowKept, ShowSame

LEMMA RestFrame ==
  ASSUME RowsKept, ShowsKept, RestSame
  PROVE  RowsKept' /\ ShowsKept'
  BY RowFrame, ShowFrame DEF RowsKept, ShowsKept, RestSame

\* Work about sheets leaves settings and days alone.
CallsAside == \A c \in calls \cup calls' :
                c.of \in Keyed \/ c.kind = "load" => (c \in calls' <=> c \in calls)
PagesAside == \A b \in Browser : browser'[b].timer = browser[b].timer /\ browser'[b].local = browser[b].local

LEMMA Aside ==
  ASSUME CallsAside, PagesAside, table' = table, shown' = shown, raced \subseteq raced',
         \A k \in Keyed : wanted'[k] = wanted[k], Types
  PROVE  RestSame
  <1>1. \A k \in Keyed : On(k)' = On(k)
    BY DEF On, CallsAside
  <1>2. \A k \in Keyed : RowSame(k)
    BY <1>1 DEF RowSame, PagesAside
  <1>3. ASSUME NEW k \in Key  PROVE ShowSame(k)
    <2>1. shown[k] # None => shown[k] \in Browser
      BY DEF Types, Maybe
    <2> QED BY <1>1, <2>1 DEF ShowSame, PagesAside, CallsAside, Keyed
  <1> QED BY <1>2, <1>3 DEF RestSame

LEMMA SheetWork ==
  ASSUME Types,
         \/ \E b \in Browser, s \in Sheet :
              CloseTab(b, s) \/ SaveSheet(b, s) \/ \E x \in Cell : EditCell(b, s, x)
         \/ \E b \in Browser : NewTab(b)
         \/ \E s \in Sheet : \E i \in 0..Cardinality(Sheet) : MoveTab(s, i)
         \/ \E c \in calls : Saved(c) \/ Closed(c) \/ PatchSheet(c) \/ MoveSheet(c) \/ CreateSheet(c) \/ DropSheet(c)
  PROVE  RestSame
  <1> USE PageAssumption
  <1>1. ASSUME NEW b \in Browser, NEW s \in Sheet, CloseTab(b, s)  PROVE RestSame
    <2>1. CallsAside
      BY <1>1 DEF CloseTab, Send, Call, CallsAside
    <2> QED BY <1>1, <2>1, Aside DEF CloseTab, stored, ghosts, PagesAside
  <1>2. ASSUME NEW b \in Browser, NEW s \in Sheet, SaveSheet(b, s)  PROVE RestSame
    <2>1. CallsAside
      BY <1>2 DEF SaveSheet, Send, Call, CallsAside
    <2>2. PagesAside
      BY <1>2, SaveSheetTurns DEF Turns, PagesAside
    <2> QED BY <1>2, <2>1, <2>2, Aside DEF SaveSheet, stored, ghosts
  <1>3. ASSUME NEW b \in Browser, NEW s \in Sheet, NEW x \in Cell, EditCell(b, s, x)  PROVE RestSame
    <2>1. CallsAside
      BY <1>3 DEF EditCell, CallsAside
    <2>2. PagesAside
      BY <1>3, EditCellTurns DEF Turns, PagesAside
    <2>3. \A k \in Keyed : wanted'[k] = wanted[k]
      BY <1>3 DEF EditCell, Types
    <2>4. raced \subseteq raced'
      BY <1>3 DEF EditCell
    <2> QED BY <1>3, <2>1, <2>2, <2>3, <2>4, Aside DEF EditCell, stored
  <1>4. ASSUME NEW b \in Browser, NewTab(b)  PROVE RestSame
    <2>1. CallsAside
      BY <1>4 DEF NewTab, Send, Call, CallsAside
    <2> QED BY <1>4, <2>1, Aside DEF NewTab, stored, ghosts, PagesAside
  <1>5. ASSUME NEW s \in Sheet, NEW i \in 0..Cardinality(Sheet), MoveTab(s, i)  PROVE RestSame
    <2>1. CallsAside
      BY <1>5 DEF MoveTab, Send, Call, CallsAside
    <2> QED BY <1>5, <2>1, Aside DEF MoveTab, stored, ghosts, PagesAside
  <1>6. ASSUME NEW c \in calls, c.of \notin Keyed, c.kind # "load", NEW answer, Answer(c, answer), c.kind \in Writes,
               c.kind \in {"patch", "drop"} => answer \in {"ok", "error"},
               c.kind = "post" => answer \in {"error"} \cup Sheet
        PROVE  CallsAside
    <2>1. Wellformed(c)
      BY DEF Types
    <2> QED BY <1>6, <2>1, AnswerIs DEF CallsAside, Writes
  <1>7. ASSUME NEW c \in calls, c.kind \in {"patch", "drop", "move", "post"}
        PROVE  c.of \notin Keyed /\ c.kind # "load" /\ c.kind \in Writes
    BY <1>7 DEF Types, Wellformed, Writes
  <1>8. ASSUME NEW c \in calls, Saved(c)  PROVE RestSame
    <2>1. CallsAside
      BY <1>7, <1>8 DEF Saved, CallsAside
    <2>2. PagesAside
      BY <1>8, SavedShows DEF Same, PagesAside
    <2> QED BY <1>8, <2>1, <2>2, Aside DEF Saved, stored, ghosts
  <1>9. ASSUME NEW c \in calls, Closed(c)  PROVE RestSame
    <2>1. CallsAside
      BY <1>7, <1>9 DEF Closed, CallsAside
    <2>2. PagesAside
      BY <1>9, ClosedShows DEF Same, PagesAside
    <2> QED BY <1>9, <2>1, <2>2, Aside DEF Closed, stored, ghosts
  <1>10. ASSUME NEW c \in calls, PatchSheet(c)  PROVE RestSame
    <2>1. CallsAside
      BY <1>6, <1>7, <1>10 DEF PatchSheet
    <2> QED BY <1>10, <2>1, Aside DEF PatchSheet, ghosts, PagesAside
  <1>11. ASSUME NEW c \in calls, MoveSheet(c)  PROVE RestSame
    <2>1. CallsAside
      BY <1>6, <1>7, <1>11 DEF MoveSheet
    <2> QED BY <1>11, <2>1, Aside DEF MoveSheet, PagesAside
  <1>12. ASSUME NEW c \in calls, CreateSheet(c)  PROVE RestSame
    <2>1. CallsAside
      BY <1>6, <1>7, <1>12 DEF CreateSheet
    <2> QED BY <1>12, <2>1, Aside DEF CreateSheet, ghosts, PagesAside
  <1>13. ASSUME NEW c \in calls, DropSheet(c)  PROVE RestSame
    <2>1. CallsAside
      BY <1>6, <1>7, <1>13 DEF DropSheet
    <2>2. raced \subseteq raced'
      BY <1>13 DEF DropSheet
    <2> QED BY <1>13, <2>1, <2>2, Aside DEF DropSheet, PagesAside
  <1> QED BY <1>1, <1>2, <1>3, <1>4, <1>5, <1>8, <1>9, <1>10, <1>11, <1>12, <1>13, Zenon

\* A step about one setting or day leaves the others alone.
OthersSame(k) == /\ \A x \in Keyed \ {k} : RowSame(x)
                 /\ \A x \in Key \ {k} : ShowSame(x)
                 /\ raced \subseteq raced'

LEMMA OneFrame ==
  ASSUME RowsKept, ShowsKept, NEW k \in Keyed, OthersSame(k),
         k \notin raced' => RowKept(k)' /\ (k \in Key => ShowKept(k)')
  PROVE  RowsKept' /\ ShowsKept'
  <1>1. \A x \in Keyed \ (raced \cup {k}) : RowKept(x)'
    BY RowFrame DEF RowsKept, OthersSame
  <1>2. \A x \in Key \ (raced \cup {k}) : ShowKept(x)'
    BY ShowFrame DEF ShowsKept, OthersSame
  <1> QED BY <1>1, <1>2 DEF RowsKept, ShowsKept, OthersSame

\* What is shown is shown by a browser.
LEMMA ShownIs ==
  ASSUME Types, NEW k \in Key
  PROVE  /\ wanted[k] \in Maybe(Value) /\ shown[k] \in Maybe(Browser) /\ None \notin Browser
         /\ k \in Keyed /\ k \notin Sheet
  BY PageAssumption DEF Types, Keyed

LEMMA SetItemKept ==
  ASSUME Types, RowsKept, ShowsKept, NEW b \in Browser, NEW k \in Key, NEW v \in Value, SetItem(b, k, v)
  PROVE  RowsKept' /\ ShowsKept'
  <1>1. /\ \A o \in Browser \ {b} : browser'[o] = browser[o]
        /\ browser'[b].local = [browser[b].local EXCEPT ![k] = v]
        /\ browser'[b].timer = IF browser[b].mode = "db" THEN [browser[b].timer EXCEPT ![k] = v] ELSE browser[b].timer
    BY SetItemTurns DEF Turns
  <1>2. /\ browser[b].local \in [Key -> Maybe(Value)] /\ browser[b].timer \in [Key -> Maybe(Value)]
        /\ k \in Keyed /\ k \notin Sheet
    BY PageType, ShownIs
  <1>3. calls' = calls /\ table' = table /\ raced \subseteq raced' /\ \A x : On(x)' = On(x)
    BY DEF SetItem, stored, On
  <1>4. OthersSame(k)
    <2>1. \A x \in Keyed \ {k} : wanted'[x] = wanted[x] /\ (x \in Key => shown'[x] = shown[x])
      BY DEF SetItem, Want, Types
    <2>2. \A x \in Key \ {k} : shown[x] \in Maybe(Browser)
      BY ShownIs
    <2> QED BY <1>1, <1>2, <1>3, <2>1, <2>2 DEF OthersSame, RowSame, ShowSame, Maybe, Keyed
  <1>5. CASE browser[b].mode # "db"
    <2>1. RowSame(k) /\ ShowSame(k)
      <3>1. /\ wanted' = wanted /\ shown' = [shown EXCEPT ![k] = IF shown[k] = b THEN None ELSE shown[k]]
            /\ raced' = raced
        BY <1>5 DEF SetItem
      <3>2. shown'[k] # None => shown'[k] = shown[k] /\ shown[k] # b /\ shown[k] \in Browser
        BY <3>1, ShownIs DEF Types, Maybe
      <3> QED BY <1>1, <1>3, <1>5, <3>1, <3>2 DEF RowSame, ShowSame
    <2>2. k \notin raced => RowKept(k) /\ ShowKept(k)
      BY <1>2 DEF RowsKept, ShowsKept
    <2>3. k \notin raced => RowKept(k)' /\ ShowKept(k)'
      BY <1>2, <2>1, <2>2, RowFrame, ShowFrame
    <2> QED BY <1>2, <1>3, <1>4, <2>3, OneFrame
  <1>6. CASE browser[b].mode = "db"
    <2>1. SUFFICES ASSUME k \notin raced'
                   PROVE  RowKept(k)' /\ ShowKept(k)'
      BY <1>2, <1>4, OneFrame
    <2>2. RowKept(k) /\ ShowKept(k)
      BY <1>2, <1>3, <2>1 DEF RowsKept, ShowsKept
    <2>3. /\ wanted'[k] = v /\ shown'[k] = IF Loading(b) THEN None ELSE b
          /\ v # None /\ ~Rivals(b, k)
      <3>1. v # None
        BY PageAssumption
      <3> QED BY <1>2, <1>6, <2>1, <3>1 DEF SetItem, Want, Types
    <2>4. Timed(k)' = {b} /\ browser'[b].timer[k] = v
      BY <1>1, <1>2, <1>6, <2>3 DEF Timed, Rivals
    <2>5. RowKept(k)'
      BY <1>3, <2>2, <2>3, <2>4 DEF RowKept
    <2>6. ShowKept(k)'
      BY <1>1, <1>2, <1>3, <2>3, <2>4 DEF ShowKept, Loading
    <2> QED BY <2>5, <2>6
  <1> QED BY <1>5, <1>6

LEMMA RemoveItemKept ==
  ASSUME Types, RowsKept, ShowsKept, NEW b \in Browser, NEW k \in Key, RemoveItem(b, k)
  PROVE  RowsKept' /\ ShowsKept'
  <1>1. /\ \A o \in Browser \ {b} : browser'[o] = browser[o]
        /\ browser'[b].local = [browser[b].local EXCEPT ![k] = None]
        /\ browser'[b].timer = IF browser[b].mode = "db" THEN [browser[b].timer EXCEPT ![k] = None] ELSE browser[b].timer
    BY RemoveItemTurns DEF Turns
  <1>2. /\ browser[b].local \in [Key -> Maybe(Value)] /\ browser[b].timer \in [Key -> Maybe(Value)]
        /\ k \in Keyed /\ k \notin Sheet
    BY PageType, ShownIs
  <1>3. /\ table' = table /\ raced \subseteq raced' /\ \A x : x # k => On(x)' = On(x)
        /\ \A c \in calls' : c.kind = "load" => c \in calls
    BY DEF RemoveItem, stored, On, Send, Call
  <1>4. OthersSame(k)
    <2>1. \A x \in Keyed \ {k} : wanted'[x] = wanted[x] /\ (x \in Key => shown'[x] = shown[x])
      BY DEF RemoveItem, Want, Types
    <2>2. \A x \in Key \ {k} : shown[x] \in Maybe(Browser)
      BY ShownIs
    <2> QED BY <1>1, <1>2, <1>3, <2>1, <2>2 DEF OthersSame, RowSame, ShowSame, Maybe, Keyed
  <1>5. CASE browser[b].mode # "db"
    <2>1. RowSame(k) /\ ShowSame(k)
      <3>1. /\ wanted' = wanted /\ shown' = [shown EXCEPT ![k] = IF shown[k] = b THEN None ELSE shown[k]]
            /\ raced' = raced /\ calls' = calls
        BY <1>5 DEF RemoveItem
      <3>2. shown'[k] # None => shown'[k] = shown[k] /\ shown[k] # b /\ shown[k] \in Browser
        BY <3>1, ShownIs DEF Types, Maybe
      <3>3. On(k)' = On(k)
        BY <3>1 DEF On
      <3> QED BY <1>1, <1>3, <1>5, <3>1, <3>2, <3>3 DEF RowSame, ShowSame
    <2>2. k \notin raced => RowKept(k) /\ ShowKept(k)
      BY <1>2 DEF RowsKept, ShowsKept
    <2>3. k \notin raced => RowKept(k)' /\ ShowKept(k)'
      BY <1>2, <2>1, <2>2, RowFrame, ShowFrame
    <2>4. raced' = raced
      BY <1>5 DEF RemoveItem
    <2> QED BY <1>2, <1>4, <2>3, <2>4, OneFrame
  <1>6. CASE browser[b].mode = "db"
    <2>1. SUFFICES ASSUME k \notin raced'
                   PROVE  RowKept(k)' /\ ShowKept(k)'
      BY <1>2, <1>4, OneFrame
    <2>2. RowKept(k) /\ ShowKept(k)
      BY <1>2, <1>3, <2>1 DEF RowsKept, ShowsKept
    <2>3. /\ wanted'[k] = None /\ shown'[k] = IF Loading(b) THEN None ELSE b
          /\ ~Rivals(b, k) /\ On(k) = {}
      BY <1>2, <1>6, <2>1 DEF RemoveItem, Want, Types
    <2>4. Timed(k)' = {}
      BY <1>1, <1>2, <1>6, <2>3 DEF Timed, Rivals
    <2>5. On(k)' = {Call("delete", b, k, None)}
      BY <1>6, <2>3 DEF RemoveItem, Send, On, Call
    <2>6. RowKept(k)'
      <3>1. \A c \in On(k)' : c.seen = None /\ c.value = None
        BY <2>5 DEF Call
      <3>2. \A c, d \in On(k)' : c = d
        BY <2>5
      <3>3. On(k)' # {}
        BY <2>5
      <3> QED BY <2>3, <2>4, <3>1, <3>2, <3>3 DEF RowKept
    <2>7. ShowKept(k)'
      BY <1>1, <1>2, <1>3, <2>3, <2>4 DEF ShowKept, Loading
    <2> QED BY <2>6, <2>7
  <1> QED BY <1>5, <1>6

LEMMA SaveItemKept ==
  ASSUME Types, RowsKept, ShowsKept, NEW b \in Browser, NEW k \in Key, SaveItem(b, k)
  PROVE  RowsKept' /\ ShowsKept'
  <1>1. /\ \A o \in Browser \ {b} : browser'[o] = browser[o]
        /\ browser'[b].local = browser[b].local
        /\ browser'[b].timer = [browser[b].timer EXCEPT ![k] = None]
    BY SaveItemTurns DEF Turns
  <1>2. browser[b].timer \in [Key -> Maybe(Value)] /\ k \in Keyed /\ k \notin Sheet
    BY PageType, ShownIs
  <1>3. /\ table' = table /\ raced \subseteq raced' /\ \A x : x # k => On(x)' = On(x)
        /\ \A c \in calls' : c.kind = "load" => c \in calls
        /\ wanted' = wanted /\ shown' = shown
    BY DEF SaveItem, stored, On, Send, Call
  <1>4. OthersSame(k)
    <2>1. \A x \in Key \ {k} : shown[x] \in Maybe(Browser)
      BY ShownIs
    <2> QED BY <1>1, <1>2, <1>3, <2>1 DEF OthersSame, RowSame, ShowSame, Maybe, Keyed
  <1>5. SUFFICES ASSUME k \notin raced'
                 PROVE  RowKept(k)' /\ ShowKept(k)'
    BY <1>2, <1>4, OneFrame
  <1>6. RowKept(k) /\ ShowKept(k)
    BY <1>2, <1>3, <1>5 DEF RowsKept, ShowsKept
  <1>7. On(k) = {} /\ b \in Timed(k)
    BY <1>5 DEF SaveItem, Timed
  <1>8. Timed(k)' = {}
    BY <1>1, <1>2, <1>6, <1>7 DEF Timed, RowKept
  <1>9. On(k)' = {Call("put", b, k, browser[b].timer[k])}
    BY <1>7 DEF SaveItem, Send, On, Call
  <1>10. RowKept(k)'
    <2>1. \A c \in On(k)' : c.seen = None /\ c.value = browser[b].timer[k]
      BY <1>9 DEF Call
    <2>2. \A c, d \in On(k)' : c = d
      BY <1>9
    <2>3. On(k)' # {} /\ browser[b].timer[k] = wanted'[k]
      BY <1>3, <1>6, <1>7, <1>9 DEF RowKept
    <2> QED BY <1>8, <2>1, <2>2, <2>3 DEF RowKept
  <1>11. ShowKept(k)'
    <2>1. shown[k] # None => shown[k] \in Browser /\ \A c \in calls : c.kind = "load" => c.from # shown[k]
      BY <1>6, <1>7, ShownIs DEF ShowKept, Maybe
    <2> QED BY <1>1, <1>3, <1>6, <1>8, <2>1 DEF ShowKept
  <1> QED BY <1>10, <1>11

LEMMA HideKept ==
  ASSUME Types, RowsKept, ShowsKept, NEW b \in Browser, Hide(b)
  PROVE  RowsKept' /\ ShowsKept'
  <1>1. /\ \A o \in Browser \ {b} : browser'[o] = browser[o]
        /\ browser'[b].local = browser[b].local
        /\ browser'[b].timer = [k \in Key |-> None]
    BY HideTurns DEF Turns
  <1>2. /\ table' = table /\ wanted' = wanted /\ shown' = shown /\ raced' = raced \cup Busy(b)
        /\ calls' = calls \cup Flush(b)
    BY DEF Hide, stored
  <1>3. \A d \in Flush(b) : /\ d.kind = "put" /\ d.of \in Pending(b) /\ d.seen = None
                            /\ d.value = browser[b].timer[d.of]
    BY FlushIs
  <1>4. ASSUME NEW k \in Keyed, k \notin Pending(b)  PROVE RowSame(k)
    <2>1. On(k)' = On(k)
      BY <1>2, <1>3, <1>4 DEF On
    <2> QED BY <1>1, <1>2, <1>4, <2>1 DEF RowSame, Pending
  <1>5. ASSUME NEW k \in Pending(b), k \notin raced'
        PROVE  On(k) = {} /\ On(k)' = {Call("put", b, k, browser[b].timer[k])} /\ b \in Timed(k)
    <2>1. On(k) = {}
      BY <1>2, <1>5 DEF Busy
    <2>2. \A j \in Pending(b) : Call("put", b, j, browser[b].timer[j]).of = j
      BY DEF Call
    <2>3. On(k)' = {Call("put", b, k, browser[b].timer[k])}
      BY <1>2, <2>1, <2>2 DEF On, Flush
    <2> QED BY <2>1, <2>3 DEF Pending, Timed
  <1>6. ASSUME NEW k \in Keyed \ raced'  PROVE RowKept(k)'
    <2>1. RowKept(k)
      BY <1>2 DEF RowsKept
    <2>2. CASE k \notin Pending(b)
      BY <1>4, <2>1, <2>2, RowFrame
    <2>3. CASE k \in Pending(b)
      <3>1. \A c \in On(k)' : c.seen = None /\ c.value = browser[b].timer[k]
        BY <1>5, <2>3 DEF Call
      <3>2. \A c, d \in On(k)' : c = d
        BY <1>5, <2>3
      <3>3. On(k)' # {} /\ browser[b].timer[k] = wanted'[k]
        BY <1>2, <1>5, <2>1, <2>3 DEF RowKept
      <3>4. Timed(k)' = {}
        BY <1>1, <1>5, <2>1, <2>3 DEF Timed, RowKept, Pending
      <3> QED BY <3>1, <3>2, <3>3, <3>4 DEF RowKept
    <2> QED BY <2>2, <2>3
  <1>7. ASSUME NEW k \in Key \ raced'  PROVE ShowKept(k)'
    <2>1. ShowKept(k) /\ k \in Keyed
      BY <1>2, ShownIs DEF ShowsKept
    <2>2. \A c \in calls' : c.kind = "load" => c \in calls
      BY <1>2, <1>3
    <2>3. \A o \in Browser : browser'[o].timer[k] \in {browser[o].timer[k], None} /\ browser'[o].local = browser[o].local
      BY <1>1
    <2>4. CASE k \notin Pending(b)
      <3>1. ShowSame(k)
        <4>1. shown[k] \in Maybe(Browser)
          BY ShownIs
        <4> QED BY <1>2, <1>4, <2>1, <2>2, <2>3, <2>4, <4>1 DEF ShowSame, RowSame, Maybe
      <3> QED BY <2>1, <3>1, ShowFrame
    <2>5. CASE k \in Pending(b)
      <3>1. shown[k] # None => shown[k] \in Browser /\ \A c \in calls : c.kind = "load" => c.from # shown[k]
        BY <1>5, <2>1, <2>5, ShownIs DEF ShowKept, Maybe
      <3>2. Timed(k)' \subseteq Timed(k)
        BY <2>3 DEF Timed
      <3> QED BY <1>2, <2>1, <2>2, <2>3, <3>1, <3>2 DEF ShowKept
    <2> QED BY <2>4, <2>5
  <1> QED BY <1>6, <1>7 DEF RowsKept, ShowsKept

LEMMA ReloadSends ==
  ASSUME NEW b \in Browser, NEW mode \in {"db", "local"}, Reload(b, mode),
         NEW c \in calls \cup Flush(b), c \in Record, c.kind # "load", c.answer = None
  PROVE  \E d \in calls' : d.of = c.of
  <1>1. CASE c.from = b
    <2>1. [c EXCEPT !.from = None] \in calls'
      BY <1>1 DEF Reload
    <2>2. [c EXCEPT !.from = None].of = c.of
      BY FromSet DEF Maybe
    <2> QED BY <2>1, <2>2
  <1>2. CASE c.from # b
    <2>1. c \in calls
      BY <1>2 DEF Flush, Call
    <2> QED BY <1>2, <2>1 DEF Reload
  <1> QED BY <1>1, <1>2

LEMMA ReloadKept ==
  ASSUME Types, RowsKept, ShowsKept, NEW b \in Browser, NEW mode \in {"db", "local"}, Reload(b, mode)
  PROVE  RowsKept' /\ ShowsKept'
  <1>1. /\ \A o \in Browser \ {b} : browser'[o] = browser[o]
        /\ browser'[b].local = browser[b].local
        /\ browser'[b].timer = [k \in Key |-> None]
    BY ReloadTurns DEF Turns
  <1>2. /\ table' = table /\ wanted' = wanted /\ raced \cup Busy(b) \subseteq raced'
        /\ shown' = [k \in Key |-> IF shown[k] = b /\ (k \in Pending(b) \/ On(k) # {}) THEN None ELSE shown[k]]
    BY DEF Reload, stored
  <1>3. \A d \in calls' : d \in Record
    BY ReloadIs DEF Wellformed
  <1>4. ASSUME NEW k \in Pending(b), k \notin raced'
        PROVE  /\ On(k) = {} /\ On(k)' # {} /\ b \in Timed(k)
               /\ \A d \in On(k)' : d.seen = None /\ d.value = browser[b].timer[k]
               /\ \A d, e \in On(k)' : d = e
    <2>1. On(k) = {} /\ b \in Timed(k) /\ k \in Keyed
      BY <1>2, <1>4 DEF Busy, Pending, Timed, Keyed
    <2>2. On(k)' # {}
      <3> DEFINE c == Call("put", b, k, browser[b].timer[k])
      <3>1. c \in Flush(b)
        BY DEF Flush
      <3>2. c.kind = "put" /\ c.of = k /\ c.answer = None
        BY DEF Call
      <3>3. c \in Record
        BY <3>1, FlushIs DEF Wellformed
      <3> HIDE DEF c
      <3>4. \E d \in calls' : d.of = k
        BY <3>1, <3>2, <3>3, ReloadSends
      <3> QED BY <3>4 DEF On
    <2>3. ASSUME NEW d \in On(k)'
          PROVE  /\ d \in Record /\ d.kind = "put" /\ d.from = None /\ d.of = k
                 /\ d.value = browser[b].timer[k] /\ d.seen = None /\ d.answer = None
      <3>1. d \in calls' /\ d.of = k /\ k # None
        BY <2>1, PageAssumption DEF On
      <3>2. PICK c \in calls \cup Flush(b) :
                 /\ d.kind = c.kind /\ d.from = None /\ d.of = c.of /\ d.value = c.value
                 /\ d.seen = c.seen /\ d.answer = c.answer
        BY <2>1, <3>1, ReloadIs DEF On
      <3>3. c \in Flush(b)
        BY <2>1, <3>1, <3>2 DEF On
      <3> QED BY <1>3, <3>1, <3>2, <3>3, FlushIs
    <2>4. ASSUME NEW d \in On(k)', NEW e \in On(k)'  PROVE d = e
      BY <2>3 DEF Record
    <2> QED BY <2>1, <2>2, <2>3, <2>4
  <1>5. ASSUME NEW k \in Keyed, k \notin Pending(b), k \notin raced'
        PROVE  /\ On(k) # {} => On(k)' # {}
               /\ \A d \in On(k)' : \E c \in On(k) :
                    /\ d.kind = c.kind /\ d.of = c.of /\ d.value = c.value /\ d.seen = c.seen
                    /\ d.answer = c.answer /\ d.from = IF c.from = b THEN None ELSE c.from
               /\ Timed(k)' = Timed(k) /\ \A o \in Timed(k) : browser'[o].timer = browser[o].timer
    <2>1. ASSUME NEW c \in On(k)  PROVE On(k)' # {}
      <3>1. c \in calls /\ c \in Record /\ c.of = k /\ c.kind # "load" /\ c.answer = None
        BY OnKeyed
      <3>2. \E d \in calls' : d.of = k
        BY <3>1, ReloadSends
      <3> QED BY <3>2 DEF On
    <2>2. ASSUME NEW d \in On(k)'
          PROVE  \E c \in On(k) :
                    /\ d.kind = c.kind /\ d.of = c.of /\ d.value = c.value /\ d.seen = c.seen
                    /\ d.answer = c.answer /\ d.from = IF c.from = b THEN None ELSE c.from
      <3>1. d \in calls' /\ d.of = k /\ k # None
        BY PageAssumption DEF On
      <3>2. \A c \in Flush(b) : c.of # k
        BY <1>5, FlushIs
      <3> QED BY <3>1, <3>2, ReloadIs DEF On
    <2>3. Timed(k)' = Timed(k) /\ \A o \in Timed(k) : browser'[o].timer = browser[o].timer
      BY <1>1, <1>5 DEF Timed, Pending
    <2> QED BY <2>1, <2>2, <2>3
  <1>6. ASSUME NEW k \in Keyed \ raced'  PROVE RowKept(k)'
    <2>1. RowKept(k)
      BY <1>2 DEF RowsKept
    <2>2. CASE k \in Pending(b)
      <3>1. browser[b].timer[k] = wanted'[k] /\ Timed(k)' = {}
        BY <1>1, <1>2, <1>4, <2>1, <2>2 DEF RowKept, Timed, Pending
      <3> QED BY <1>4, <2>2, <3>1 DEF RowKept
    <2>3. CASE k \notin Pending(b)
      <3>1. ASSUME NEW d \in On(k)', NEW e \in On(k)'  PROVE d = e
        <4>1. d \in Record /\ e \in Record
          BY <1>3 DEF On
        <4>2. PICK c \in On(k) :
                    /\ d.kind = c.kind /\ d.of = c.of /\ d.value = c.value /\ d.seen = c.seen
                    /\ d.answer = c.answer /\ d.from = IF c.from = b THEN None ELSE c.from
          BY <1>5, <2>3
        <4>3. /\ e.kind = c.kind /\ e.of = c.of /\ e.value = c.value /\ e.seen = c.seen
              /\ e.answer = c.answer /\ e.from = IF c.from = b THEN None ELSE c.from
          BY <1>5, <2>1, <2>3 DEF RowKept
        <4> QED BY <4>1, <4>2, <4>3 DEF Record
      <3>2. \A d \in On(k)' : \E c \in On(k) : d.value = c.value /\ d.seen = c.seen
        BY <1>5, <2>3
      <3>3. On(k)' = {} => On(k) = {}
        BY <1>5, <2>3
      <3>4. Timed(k)' = Timed(k) /\ \A o \in Timed(k) : browser'[o].timer = browser[o].timer
        BY <1>5, <2>3
      <3> QED BY <1>2, <2>1, <3>1, <3>2, <3>3, <3>4 DEF RowKept
    <2> QED BY <2>2, <2>3
  <1>7. ASSUME NEW k \in Key \ raced', shown'[k] # None
        PROVE  ShowKept(k)'
    <2>1. ShowKept(k) /\ k \in Keyed /\ shown'[k] = shown[k] /\ shown[k] \in Browser
      BY <1>2, <1>7, ShownIs DEF ShowsKept, Maybe
    <2>2. k \notin Pending(b) /\ (shown[k] = b => On(k) = {})
      BY <1>2, <1>7, <2>1 DEF ShowKept, Timed, Pending
    <2>3. Timed(k)' = Timed(k) /\ (On(k) = {} => On(k)' = {})
      BY <1>5, <2>1, <2>2
    <2>4. browser'[shown[k]].local[k] = wanted'[k]
      BY <1>1, <1>2, <1>7, <2>1 DEF ShowKept
    <2>5. ASSUME NEW c \in calls', c.kind = "load", c.from = shown[k]
          PROVE  On(k)' = {} /\ Timed(k)' = {} /\ (c.answer # None => c.answer[1][k] = wanted'[k])
      <3>1. CASE c \in calls /\ c.from # b
        BY <1>2, <1>7, <2>1, <2>3, <2>5, <3>1 DEF ShowKept
      <3>2. CASE c.from = b /\ c.answer = None
        <4>1. Timed(k) = {}
          BY <1>7, <2>1, <2>2, <2>5, <3>2 DEF ShowKept, Timed, Pending
        <4> QED BY <2>2, <2>3, <2>5, <3>2, <4>1
      <3>3. (c \in calls /\ c.from # b) \/ (c.from = b /\ c.answer = None)
        <4>1. \/ c \in calls /\ c.from # b
              \/ c.from = b /\ c.answer = None
              \/ \E d \in calls \cup Flush(b) : d.kind # "load" /\ c.kind = d.kind
          BY ReloadIs
        <4> QED BY <2>5, <4>1
      <3> QED BY <3>1, <3>2, <3>3
    <2> QED BY <2>1, <2>3, <2>4, <2>5 DEF ShowKept
  <1>8. ASSUME NEW k \in Key, shown'[k] = None  PROVE ShowKept(k)'
    BY <1>8 DEF ShowKept
  <1> QED BY <1>6, <1>7, <1>8 DEF RowsKept, ShowsKept

LEMMA LoadIs ==
  ASSUME Types, NEW c \in calls, Load(c)
  PROVE  \E d : /\ calls' = (calls \ {c}) \cup {d} /\ c.kind = "load" /\ d.kind = "load"
                /\ d.from = c.from /\ c.from \in Browser /\ d.of = None /\ c.of = None
                /\ d.answer = <<table, [s \in Sheet |-> Cells(s)]>> /\ d.answer \in Loads
  <1>1. Wellformed(c) /\ c \in Record /\ c.kind = "load" /\ c.answer = None
    BY DEF Load, Types, Wellformed
  <1>2. PICK answer : answer = <<table, [s \in Sheet |-> Cells(s)]>>
    OBVIOUS
  <1>3. answer \in Loads
    <2>1. [s \in Sheet |-> Cells(s)] \in [Sheet -> Maybe(SUBSET Cell)]
      BY DEF Types, Cells, Tab, Maybe
    <2> QED BY <1>2, <2>1 DEF Loads, Types
  <1> DEFINE d == [c EXCEPT !.answer = answer]
  <1>4. d.kind = c.kind /\ d.from = c.from /\ d.of = c.of /\ d.answer = answer
    BY <1>1, <1>3, AnswerSet DEF Maybe
  <1>5. calls' = (calls \ {c}) \cup {d}
    BY <1>2 DEF Load
  <1>6. c.from \in Browser /\ c.of = None
    BY <1>1 DEF Wellformed
  <1> HIDE DEF d
  <1> QED BY <1>1, <1>2, <1>3, <1>4, <1>5, <1>6

LEMMA LoadKept ==
  ASSUME Types, RowsKept, ShowsKept, NEW c \in calls, Load(c)
  PROVE  RowsKept' /\ ShowsKept'
  <1>1. PICK d : /\ calls' = (calls \ {c}) \cup {d} /\ c.kind = "load" /\ d.kind = "load"
                 /\ d.from = c.from /\ c.from \in Browser /\ d.of = None /\ c.of = None
                 /\ d.answer = <<table, [s \in Sheet |-> Cells(s)]>>
    BY LoadIs
  <1>2. /\ table' = table /\ browser' = browser /\ wanted' = wanted /\ shown' = shown /\ raced' = raced
    BY DEF Load, stored, ghosts
  <1>3. \A k \in Keyed : On(k)' = On(k)
    BY <1>1, PageAssumption DEF On
  <1>4. \A k \in Keyed : RowSame(k)
    BY <1>2, <1>3 DEF RowSame
  <1>5. ASSUME NEW k \in Key \ raced', shown[k] # None  PROVE ShowKept(k)'
    <2>1. ShowKept(k) /\ RowKept(k) /\ k \in Keyed
      BY <1>2, ShownIs DEF ShowsKept, RowsKept
    <2>2. Timed(k)' = Timed(k) /\ On(k)' = On(k)
      BY <1>2, <1>3, <2>1 DEF Timed
    <2>3. c.from = shown[k] => d.answer[1][k] = wanted[k]
      BY <1>1, <1>5, <2>1 DEF ShowKept, RowKept
    <2> QED BY <1>1, <1>2, <1>5, <2>1, <2>2, <2>3 DEF ShowKept
  <1>6. \A k \in Key : shown[k] = None => ShowKept(k)'
    BY <1>2 DEF ShowKept
  <1> QED BY <1>2, <1>4, <1>5, <1>6, RowFrame DEF RowsKept, ShowsKept

LEMMA LoadedKept ==
  ASSUME Types, RowsKept, ShowsKept, NEW c \in calls, Loaded(c)
  PROVE  RowsKept' /\ ShowsKept'
  <1>1. /\ c.from \in Browser /\ c.answer \in Loads /\ \A o \in Browser \ {c.from} : Same(o)
        /\ browser'[c.from].timer = browser[c.from].timer
        /\ \A k \in Key : browser'[c.from].local[k] =
             IF c.value = "local" \/ c.answer[1][k] = None THEN browser[c.from].local[k] ELSE c.answer[1][k]
    BY LoadedShows
  <1>2. /\ table' = table /\ wanted' = wanted /\ shown' = shown /\ raced' = raced /\ calls' = calls \ {c}
        /\ c.kind = "load" /\ c.answer # None /\ c.of = None
    BY DEF Loaded, stored, ghosts, Types, Wellformed
  <1>3. \A k \in Keyed : On(k)' = On(k)
    BY <1>2, PageAssumption DEF On
  <1>4. \A k \in Keyed : RowSame(k)
    BY <1>1, <1>2, <1>3 DEF RowSame, Same
  <1>5. ASSUME NEW k \in Key \ raced, shown[k] # None  PROVE ShowSame(k)
    <2>1. shown[k] \in Browser /\ k \in Keyed /\ ShowKept(k)
      BY <1>5, ShownIs DEF Maybe, ShowsKept
    <2>2. browser'[shown[k]].local[k] = browser[shown[k]].local[k]
      <3>1. CASE c.from = shown[k]
        <4>1. browser[c.from].local[k] = wanted[k] /\ c.answer[1][k] = wanted[k]
          BY <1>2, <1>5, <2>1, <3>1 DEF ShowKept
        <4> QED BY <1>1, <3>1, <4>1
      <3>2. CASE c.from # shown[k]
        BY <1>1, <2>1, <3>2 DEF Same
      <3> QED BY <3>1, <3>2
    <2> QED BY <1>1, <1>2, <1>3, <2>1, <2>2 DEF ShowSame, Same
  <1>6. \A k \in Key : shown[k] = None => ShowKept(k)'
    BY <1>2 DEF ShowKept
  <1> QED BY <1>2, <1>4, <1>5, <1>6, RowFrame, ShowFrame DEF RowsKept, ShowsKept

LEMMA AskDateKept ==
  ASSUME Types, RowsKept, ShowsKept, NEW k \in Date, NEW v \in Maybe(Value), AskDate(k, v)
  PROVE  RowsKept' /\ ShowsKept'
  <1> DEFINE d == Call(IF v = None THEN "delete" ELSE "put", None, k, v)
  <1>1. k \in Keyed /\ k \notin Key /\ k \notin Sheet
    BY PageAssumption DEF Keyed
  <1>2. /\ calls' = calls \cup {d} /\ table' = table /\ browser' = browser /\ shown' = shown /\ raced \subseteq raced'
        /\ wanted' = [wanted EXCEPT ![k] = v]
        /\ d.kind # "load" /\ d.of = k /\ d.value = v /\ d.seen = None
    BY DEF AskDate, stored, Send, Call
  <1> HIDE DEF d
  <1>3. OthersSame(k)
    <2>1. \A x \in Keyed \ {k} : On(x)' = On(x) /\ wanted'[x] = wanted[x]
      BY <1>2 DEF On, Types
    <2>2. \A x \in Key : shown[x] \in Maybe(Browser)
      BY ShownIs
    <2> QED BY <1>1, <1>2, <2>1, <2>2 DEF OthersSame, RowSame, ShowSame, Keyed
  <1>4. ASSUME k \notin raced'  PROVE RowKept(k)'
    <2>1. On(k) = {} /\ Timed(k)' = {}
      BY <1>1, <1>4 DEF AskDate, Timed
    <2>2. On(k)' = {d}
      BY <1>2, <2>1 DEF On
    <2>3. wanted'[k] = v
      BY <1>1, <1>2 DEF Types
    <2> QED BY <1>2, <2>1, <2>2, <2>3 DEF RowKept
  <1> QED BY <1>1, <1>3, <1>4, OneFrame

LEMMA LookKept ==
  ASSUME Types, RowsKept, ShowsKept, NEW c \in calls, Look(c)
  PROVE  RowsKept' /\ ShowsKept'
  <1>1. PICK d : /\ calls' = (calls \ {c}) \cup {d} /\ Wellformed(d) /\ d.kind = c.kind /\ d.from = c.from
                 /\ d.of = c.of /\ d.value = c.value /\ d.seen = Found(c) /\ d.answer = c.answer
    BY LookIs
  <1>2. /\ table' = table /\ browser' = browser /\ wanted' = wanted /\ shown' = shown /\ raced' = raced
        /\ c.kind \in Writes /\ c.kind # "load"
    BY DEF Look, stored, Writes
  <1>3. \A x : x # c.of => On(x)' = On(x)
    BY <1>1 DEF On
  <1>4. \A k \in Key : shown[k] \in Maybe(Browser)
    BY ShownIs
  <1>5. CASE c.of \notin Keyed
    <2>1. \A k \in Keyed : RowSame(k)
      BY <1>2, <1>3, <1>5 DEF RowSame
    <2>2. \A k \in Key : ShowSame(k)
      BY <1>1, <1>2, <1>3, <1>4, <1>5 DEF ShowSame, Keyed
    <2> QED BY <1>2, <2>1, <2>2, RestFrame DEF RestSame
  <1>6. CASE c.of \in Keyed
    <2> DEFINE k == c.of
    <2>1. OthersSame(k)
      BY <1>1, <1>2, <1>3, <1>4 DEF OthersSame, RowSame, ShowSame, Keyed
    <2>2. ASSUME k \notin raced  PROVE RowKept(k)' /\ (k \in Key => ShowKept(k)')
      <3>1. RowKept(k) /\ (k \in Key => ShowKept(k))
        BY <1>6, <2>2 DEF RowsKept, ShowsKept
      <3>2. On(k) = {c} /\ On(k)' = {d}
        BY <1>1, <3>1 DEF On, RowKept
      <3>3. d.seen = (table[k] # None)
        <4>1. c \in On(k)
          BY DEF On
        <4>2. c.kind \in {"put", "delete"}
          BY <1>6, <4>1, OnKeyed
        <4>3. Found(c) \in BOOLEAN /\ (Found(c) <=> table[k] # None)
          BY <4>2, FoundIs
        <4> QED BY <1>1, <4>3
      <3>4. Timed(k)' = Timed(k)
        BY <1>2 DEF Timed
      <3>5. RowKept(k)'
        BY <1>1, <1>2, <3>1, <3>2, <3>3, <3>4 DEF RowKept
      <3>6. ShowKept(k) => ShowKept(k)'
        BY <1>1, <1>2, <3>2, <3>4 DEF ShowKept
      <3> QED BY <3>1, <3>5, <3>6
    <2> QED BY <1>2, <1>6, <2>1, <2>2, OneFrame
  <1> QED BY <1>5, <1>6

\* The row becomes what the call about it asks for, and nothing more is under way.
LEMMA WriteKept ==
  ASSUME Types, RowsKept, ShowsKept, NEW c \in calls, PutRow(c) \/ DeleteRow(c)
  PROVE  RowsKept' /\ ShowsKept'
  <1> DEFINE k == c.of
  <1>1. /\ c.kind \in {"put", "delete"} /\ c.seen # None /\ k \in Keyed /\ calls' = calls \ {c}
        /\ browser' = browser /\ wanted' = wanted /\ shown' = shown /\ raced' = raced
    BY DEF PutRow, DeleteRow, Answer, ghosts, Types, Wellformed
  <1>2. c \in On(k)
    BY DEF On
  <1>3. \A x : On(x)' = On(x) \ {c}
    BY <1>1 DEF On
  <1>4. \A x : x # k => c \notin On(x)
    BY DEF On
  <1>5. OthersSame(k)
    <2>1. \A x \in Keyed \ {k} : table'[x] = table[x]
      BY <1>1 DEF PutRow, DeleteRow, Types
    <2>2. \A x \in Key : shown[x] \in Maybe(Browser)
      BY ShownIs
    <2> QED BY <1>1, <1>3, <1>4, <2>1, <2>2 DEF OthersSame, RowSame, ShowSame, Keyed
  <1>6. ASSUME k \notin raced  PROVE RowKept(k)' /\ (k \in Key => ShowKept(k)')
    <2>1. RowKept(k) /\ (k \in Key => ShowKept(k))
      BY <1>1, <1>6 DEF RowsKept, ShowsKept
    <2>2. On(k) = {c} /\ On(k)' = {}
      BY <1>2, <1>3, <2>1 DEF RowKept
    <2>3. c.seen \in BOOLEAN /\ (c.seen <=> table[k] # None)
      <3>1. c.seen = (table[k] # None)
        BY <1>1, <2>1, <2>2 DEF RowKept
      <3> QED BY <3>1
    <2>4. table'[k] = c.value
      <3>1. CASE PutRow(c)
        <4>1. Found(c) \in BOOLEAN /\ (Found(c) <=> table[k] # None)
          BY <1>1, FoundIs
        <4>2. c.seen = Found(c)
          BY <2>3, <4>1
        <4> QED BY <1>1, <3>1, <4>2 DEF PutRow, Types
      <3>2. CASE DeleteRow(c)
        <4>1. c.value = None
          BY <1>1, <1>2, <3>2, OnKeyed DEF DeleteRow
        <4> QED BY <1>1, <2>3, <3>2, <4>1 DEF DeleteRow, Types
      <3> QED BY <3>1, <3>2
    <2>5. Timed(k)' = Timed(k)
      BY <1>1 DEF Timed
    <2>6. RowKept(k)'
      BY <1>1, <2>1, <2>2, <2>4, <2>5 DEF RowKept
    <2>7. ShowKept(k) => ShowKept(k)'
      BY <1>1, <2>2, <2>5 DEF ShowKept
    <2> QED BY <2>1, <2>6, <2>7
  <1> QED BY <1>1, <1>5, <1>6, OneFrame

LEMMA LoseKept ==
  ASSUME Types, RowsKept, ShowsKept, NEW c \in calls, Lose(c)
  PROVE  RowsKept' /\ ShowsKept'
  <1>1. /\ table' = table /\ browser' = browser /\ wanted' = wanted /\ shown' = shown /\ raced \subseteq raced'
        /\ c.of \in Keyed => c.of \in raced'
    BY DEF Lose, stored
  <1>2. \A k \in Key : shown[k] \in Maybe(Browser) /\ k \in Keyed
    BY ShownIs
  <1>3. c.kind = "patch" => \A x \in Keyed : x # c.of
    BY PageAssumption DEF Types, Wellformed
  <1>4. /\ \A x \in Keyed : On(x)' = On(x) \ {c}
        /\ \A d \in calls' : d.kind = "load" => d \in calls
    <2>1. CASE c.kind # "patch"
      BY <2>1 DEF Lose, On
    <2>2. CASE c.kind = "patch"
      <3>1. PICK d : calls' = (calls \ {c}) \cup {d} /\ d.kind = "patch" /\ d.of = c.of
        BY <2>2, LoseIs
      <3> QED BY <1>3, <2>2, <3>1 DEF On
    <2> QED BY <2>1, <2>2
  <1>5. CASE c.of \notin Keyed
    <2>1. \A x \in Keyed : c \notin On(x)
      BY <1>5 DEF On
    <2>2. RestSame
      BY <1>1, <1>2, <1>4, <2>1 DEF RestSame, RowSame, ShowSame
    <2> QED BY <2>2, RestFrame
  <1>6. CASE c.of \in Keyed
    <2>1. \A x \in Keyed \ {c.of} : c \notin On(x)
      BY DEF On
    <2>2. OthersSame(c.of)
      BY <1>1, <1>2, <1>4, <2>1 DEF OthersSame, RowSame, ShowSame
    <2> QED BY <1>1, <1>6, <2>2, OneFrame
  <1> QED BY <1>5, <1>6

LEMMA RowsShowsKept ==
  ASSUME Types, RowsKept, ShowsKept, [Next]_vars
  PROVE  RowsKept' /\ ShowsKept'
  <1>1. ASSUME User  PROVE RowsKept' /\ ShowsKept'
    BY <1>1, SetItemKept, RemoveItemKept, ReloadKept, SheetWork, RestFrame, Zenon DEF User
  <1>2. ASSUME Administrator  PROVE RowsKept' /\ ShowsKept'
    <2>1. \A k \in Date, v \in Value \cup {None} : AskDate(k, v) => RowsKept' /\ ShowsKept'
      BY AskDateKept DEF Maybe
    <2> QED BY <1>2, <2>1, SheetWork, RestFrame, Zenon DEF Administrator
  <1>3. ASSUME Script  PROVE RowsKept' /\ ShowsKept'
    BY <1>3, HideKept, SaveItemKept, LoadedKept, SheetWork, RestFrame, Zenon DEF Script
  <1>4. ASSUME Server  PROVE RowsKept' /\ ShowsKept'
    BY <1>4, LoadKept, LookKept, WriteKept, SheetWork, RestFrame, Zenon DEF Server
  <1>5. ASSUME UNCHANGED vars  PROVE RowsKept' /\ ShowsKept'
    BY <1>5 DEF vars, stored, ghosts, RowsKept, ShowsKept, RowKept, ShowKept, On, Timed
  <1> QED BY <1>1, <1>2, <1>3, <1>4, <1>5, LoseKept, Zenon DEF Next

(* Sheets. *)

\* What a step leaves alone about a sheet.
SheetSame(s) ==
  /\ s \in Tabs' <=> s \in Tabs
  /\ Cells(s)' = Cells(s) /\ wanted'[s] = wanted[s]
  /\ Patches(s)' = Patches(s) /\ (s \notin Tabs /\ On(s) = {} => On(s)' = {})
  /\ \A b \in Browser : /\ browser'[b].copy[s] = browser[b].copy[s]
                        /\ s \in browser'[b].dirty <=> s \in browser[b].dirty
  /\ Told' \subseteq Told
  /\ \A c \in calls' : c.kind = "post" /\ c.answer = s => \E d \in calls : d.kind = "post" /\ d.answer = s

LEMMA SheetFrame ==
  ASSUME Types, NEW s \in Sheet, SheetKept(s), SheetSame(s)
  PROVE  SheetKept(s)'
  <1>1. Dirty(s)' = Dirty(s) /\ Open(s)' = Open(s)
    BY DEF Dirty, Open, SheetSame
  <1>2. \A b \in Browser : browser'[b].copy[s] = browser[b].copy[s] /\ (s \in browser'[b].dirty <=> s \in browser[b].dirty)
    BY DEF SheetSame
  <1>3. CASE s \notin Tabs
    <2>1. Unknown(s) /\ s \notin Tabs'
      BY <1>3 DEF SheetKept, SheetSame
    <2>2. Unknown(s)'
      BY <2>1 DEF Unknown, SheetSame
    <2> QED BY <2>1, <2>2 DEF SheetKept
  <1>4. CASE s \in Tabs
    <2>1. Awaited(s) /\ Complete(s) /\ Unseen(s) /\ s \in Tabs'
      BY <1>4 DEF SheetKept, SheetSame
    <2>2. Awaited(s)'
      <3>1. \A c \in Patches(s) : c.from \in Maybe(Browser)
        BY DEF Patches, On, Types, Wellformed, Record
      <3>2. Patches(s)' = Patches(s)
        BY DEF SheetSame
      <3>3. ASSUME NEW c \in Patches(s), c.from # None
            PROVE  /\ browser'[c.from].copy[s] = c.value /\ s \notin browser'[c.from].dirty
        BY <1>2, <2>1, <3>1, <3>3 DEF Awaited, Maybe
      <3> QED BY <2>1, <3>2, <3>3 DEF Awaited
    <2>3. Complete(s)'
      BY <1>1, <1>2, <2>1 DEF Complete, SheetSame, Dirty
    <2>4. Unseen(s)'
      BY <1>1, <1>2, <2>1 DEF Unseen, SheetSame
    <2> QED BY <2>1, <2>2, <2>3, <2>4 DEF SheetKept
  <1> QED BY <1>3, <1>4

LEMMA OneSheet ==
  ASSUME Types, SheetsKept, NEW s \in Sheet, \A t \in Sheet \ (raced \cup {s}) : SheetSame(t), raced \subseteq raced',
         s \notin raced' /\ s \notin raced /\ SheetKept(s) => SheetKept(s)'
  PROVE  SheetsKept'
  BY SheetFrame DEF SheetsKept

LEMMA AllSheets ==
  ASSUME Types, SheetsKept, \A s \in Sheet \ raced : SheetSame(s), raced \subseteq raced'
  PROVE  SheetsKept'
  BY SheetFrame DEF SheetsKept

\* The calls about sheets, their loads and their answers are what they were.
CallsSame ==
  /\ \A c \in calls' : c \in calls \/ (c.answer = None /\ c.of \notin Sheet) \/ (c.kind \in {"drop", "move"} /\ c.of \in Sheet)
  /\ \A c \in calls \ calls' : c.kind # "patch"

LEMMA CallsKept ==
  ASSUME Types, CallsSame, NEW s \in Sheet
  PROVE  /\ Patches(s)' = Patches(s) /\ Told' \subseteq Told
         /\ \A c \in calls' : c.kind = "post" /\ c.answer = s => c \in calls
  <1>1. s # None
    BY PageAssumption
  <1> QED BY <1>1 DEF CallsSame, Patches, On, Told

LEMMA PagesAlike ==
  ASSUME Types, SheetsKept, CallsSame, sheets' = sheets, raced \subseteq raced',
         \A s \in Sheet : wanted'[s] = wanted[s],
         \A s \in Sheet \ raced : s \notin Tabs /\ On(s) = {} => On(s)' = {},
         \A b \in Browser : browser'[b].copy = browser[b].copy /\ browser'[b].dirty = browser[b].dirty
  PROVE  SheetsKept'
  <1>1. Tabs' = Tabs /\ \A s \in Sheet : Cells(s)' = Cells(s)
    BY DEF Tabs, Cells
  <1>2. \A s \in Sheet \ raced : SheetSame(s)
    BY <1>1, CallsKept DEF SheetSame
  <1> QED BY <1>2, AllSheets

\* Work about settings and days, and asking for tabs, leaves sheets alone.
LEMMA RowWork ==
  ASSUME Types, SheetsKept,
         \/ \E b \in Browser, k \in Key : RemoveItem(b, k) \/ SaveItem(b, k) \/ \E v \in Value : SetItem(b, k, v)
         \/ \E b \in Browser : Hide(b)
         \/ \E d \in Date, v \in Maybe(Value) : AskDate(d, v)
         \/ \E c \in calls : PutRow(c) \/ DeleteRow(c)
  PROVE  SheetsKept'
  <1>1. Keyed \cap Sheet = {} /\ Key \subseteq Keyed /\ Date \subseteq Keyed
    BY PageAssumption DEF Keyed
  <1>2. ASSUME NEW b \in Browser, NEW k \in Key, RemoveItem(b, k)  PROVE SheetsKept'
    <2>1. CallsSame /\ \A s \in Sheet : On(s)' = On(s)
      BY <1>1, <1>2 DEF RemoveItem, Send, Call, CallsSame, On
    <2>2. \A o \in Browser : browser'[o].copy = browser[o].copy /\ browser'[o].dirty = browser[o].dirty
      BY <1>2, RemoveItemTurns DEF Turns
    <2>3. sheets' = sheets /\ raced \subseteq raced' /\ \A s \in Sheet : wanted'[s] = wanted[s]
      BY <1>1, <1>2 DEF RemoveItem, Want, stored, Types
    <2> QED BY <2>1, <2>2, <2>3, PagesAlike
  <1>3. ASSUME NEW b \in Browser, NEW k \in Key, SaveItem(b, k)  PROVE SheetsKept'
    <2>1. CallsSame /\ \A s \in Sheet : On(s)' = On(s)
      BY <1>1, <1>3 DEF SaveItem, Send, Call, CallsSame, On
    <2>2. \A o \in Browser : browser'[o].copy = browser[o].copy /\ browser'[o].dirty = browser[o].dirty
      BY <1>3, SaveItemTurns DEF Turns
    <2>3. sheets' = sheets /\ raced \subseteq raced' /\ wanted' = wanted
      BY <1>3 DEF SaveItem, stored
    <2> QED BY <2>1, <2>2, <2>3, PagesAlike
  <1>4. ASSUME NEW b \in Browser, NEW k \in Key, NEW v \in Value, SetItem(b, k, v)  PROVE SheetsKept'
    <2>1. CallsSame /\ \A s \in Sheet : On(s)' = On(s)
      BY <1>4 DEF SetItem, CallsSame, On
    <2>2. \A o \in Browser : browser'[o].copy = browser[o].copy /\ browser'[o].dirty = browser[o].dirty
      BY <1>4, SetItemTurns DEF Turns
    <2>3. sheets' = sheets /\ raced \subseteq raced' /\ \A s \in Sheet : wanted'[s] = wanted[s]
      BY <1>1, <1>4 DEF SetItem, Want, stored, Types
    <2> QED BY <2>1, <2>2, <2>3, PagesAlike
  <1>5. ASSUME NEW b \in Browser, Hide(b)  PROVE SheetsKept'
    <2>1. \A d \in Flush(b) : d.answer = None /\ d.of \notin Sheet
      BY <1>1, FlushIs DEF Pending
    <2>2. CallsSame /\ \A s \in Sheet : On(s)' = On(s)
      BY <1>5, <2>1 DEF Hide, CallsSame, On
    <2>3. \A o \in Browser : browser'[o].copy = browser[o].copy /\ browser'[o].dirty = browser[o].dirty
      BY <1>5, HideTurns DEF Turns
    <2>4. sheets' = sheets /\ raced \subseteq raced' /\ wanted' = wanted
      BY <1>5 DEF Hide, stored
    <2> QED BY <2>2, <2>3, <2>4, PagesAlike
  <1>6. ASSUME NEW d \in Date, NEW v \in Maybe(Value), AskDate(d, v)  PROVE SheetsKept'
    <2>1. CallsSame /\ \A s \in Sheet : On(s)' = On(s)
      BY <1>1, <1>6 DEF AskDate, Send, Call, CallsSame, On
    <2>2. sheets' = sheets /\ raced \subseteq raced' /\ browser' = browser /\ \A s \in Sheet : wanted'[s] = wanted[s]
      BY <1>1, <1>6 DEF AskDate, stored, Types
    <2> QED BY <2>1, <2>2, PagesAlike
  <1>7. ASSUME NEW c \in calls, PutRow(c) \/ DeleteRow(c)  PROVE SheetsKept'
    <2>1. calls' = calls \ {c} /\ c.kind # "patch" /\ c.of \in Keyed
      BY <1>7 DEF PutRow, DeleteRow, Answer, Types, Wellformed
    <2>2. CallsSame /\ \A s \in Sheet : On(s)' = On(s)
      BY <1>1, <2>1 DEF CallsSame, On
    <2>3. sheets' = sheets /\ raced' = raced /\ browser' = browser /\ wanted' = wanted
      BY <1>7 DEF PutRow, DeleteRow, ghosts
    <2> QED BY <2>2, <2>3, PagesAlike
  <1> QED BY <1>2, <1>3, <1>4, <1>5, <1>6, <1>7, Zenon

LEMMA TabWork ==
  ASSUME Types, SheetsKept,
         \/ \E b \in Browser : NewTab(b) \/ \E s \in Sheet : CloseTab(b, s)
         \/ \E s \in Sheet : \E i \in 0..Cardinality(Sheet) : MoveTab(s, i)
  PROVE  SheetsKept'
  <1>1. ASSUME NEW b \in Browser, NewTab(b)  PROVE SheetsKept'
    <2>1. CallsSame /\ \A s \in Sheet : On(s)' = On(s)
      BY <1>1, PageAssumption DEF NewTab, Send, Call, CallsSame, On
    <2> QED BY <1>1, <2>1, PagesAlike DEF NewTab, stored, ghosts
  <1>2. ASSUME NEW b \in Browser, NEW s \in Sheet, CloseTab(b, s)  PROVE SheetsKept'
    <2>1. CallsSame /\ \A t \in Sheet : t # s => On(t)' = On(t)
      BY <1>2 DEF CloseTab, Send, Call, CallsSame, On
    <2>2. s \notin raced => s \in Tabs
      BY <1>2 DEF CloseTab, SheetsKept, SheetKept, Unknown
    <2> QED BY <1>2, <2>1, <2>2, PagesAlike DEF CloseTab, stored, ghosts
  <1>3. ASSUME NEW s \in Sheet, NEW i \in 0..Cardinality(Sheet), MoveTab(s, i)  PROVE SheetsKept'
    <2>1. CallsSame /\ \A t \in Sheet : t # s => On(t)' = On(t)
      BY <1>3 DEF MoveTab, Send, Call, CallsSame, On
    <2> QED BY <1>3, <2>1, PagesAlike DEF MoveTab, stored, ghosts
  <1> QED BY <1>1, <1>2, <1>3, Zenon

LEMMA PatchIs ==
  ASSUME Types, NEW s \in Sheet, NEW c \in Patches(s)
  PROVE  /\ c \in calls /\ Wellformed(c) /\ c \in Record /\ c.kind = "patch" /\ c.of = s
         /\ c.from \in Maybe(Browser) /\ c.value \in SUBSET Cell /\ c.value # None
         /\ c.answer \in {None, "ok", "error"} /\ None \notin {"ok", "error"} /\ wanted[s] # None
  <1>1. c \in calls /\ Wellformed(c) /\ c \in Record /\ c.kind = "patch" /\ c.of = s
    BY DEF Patches, On, Types, Wellformed
  <1>2. \A x \in SUBSET Cell : x # None
    BY PageAssumption
  <1>3. wanted[s] \in SUBSET Cell
    BY DEF Types
  <1>4. None \notin {"ok", "error"}
    BY PageAssumption
  <1> QED BY <1>1, <1>2, <1>3, <1>4 DEF Wellformed, Record

\* A patch that was looked up, or lost, is still what it was.
LEMMA Replaced ==
  ASSUME Types, NEW s \in Sheet, SheetKept(s), s \in Tabs, NEW c \in Patches(s), NEW d,
         calls' = (calls \ {c}) \cup {d}, d.kind = "patch", d.from = c.from, d.of = s, d.value = c.value,
         d.answer # "ok" <=> c.answer # "ok", d.seen \in {None, TRUE}, d.from = None => d.answer # "error",
         sheets' = sheets, browser' = browser, wanted' = wanted
  PROVE  SheetKept(s)'
  <1>1. Awaited(s) /\ Complete(s) /\ Unseen(s) /\ s \in Tabs' /\ Cells(s)' = Cells(s)
    BY DEF SheetKept, Tabs, Cells
  <1>2. c \in calls /\ c.kind = "patch" /\ c.of = s
    BY PatchIs
  <1>3. Patches(s)' = (Patches(s) \ {c}) \cup {d} /\ Told' = Told /\ Dirty(s)' = Dirty(s)
    BY <1>2 DEF Patches, On, Told, Dirty
  <1>4. Open(s)' = IF c \in Open(s) THEN (Open(s) \ {c}) \cup {d} ELSE Open(s)
    BY <1>3 DEF Open
  <1>5. Awaited(s)'
    <2>1. ASSUME NEW p \in Patches(s)'
          PROVE  \E q \in Patches(s) : /\ q.from = p.from /\ q.value = p.value
                                       /\ IF p = d THEN q = c ELSE q = p /\ q # c
      BY <1>3
    <2>2. ASSUME NEW p \in Patches(s)', p.from # None
          PROVE  /\ browser'[p.from].copy[s] = p.value /\ s \notin browser'[p.from].dirty
                 /\ \A e \in Patches(s)' : e.from = p.from => e = p
      <3>1. PICK q \in Patches(s) : /\ q.from = p.from /\ q.value = p.value
                                    /\ IF p = d THEN q = c ELSE q = p /\ q # c
        BY <2>1
      <3>2. /\ browser[q.from].copy[s] = q.value /\ s \notin browser[q.from].dirty
            /\ \A e \in Patches(s) : e.from = q.from => e = q
        BY <1>1, <2>2, <3>1 DEF Awaited
      <3>3. ASSUME NEW e \in Patches(s)', e.from = p.from  PROVE e = p
        <4>1. PICK x \in Patches(s) : x.from = e.from /\ IF e = d THEN x = c ELSE x = e /\ x # c
          BY <2>1
        <4> QED BY <3>1, <3>2, <3>3, <4>1
      <3>4. browser'[p.from] = browser[q.from]
        BY <3>1
      <3> QED BY <3>1, <3>2, <3>3, <3>4
    <2>3. \A p \in Patches(s)' : p.seen \in {None, TRUE} /\ (p.from = None => p.answer # "error")
      BY <1>1, <1>3 DEF Awaited
    <2> QED BY <2>2, <2>3 DEF Awaited
  <1>6. Complete(s)'
    BY <1>1, <1>3, <1>4 DEF Complete
  <1>7. Unseen(s)'
    BY <1>1, <1>3, <1>4 DEF Unseen
  <1> QED BY <1>1, <1>5, <1>6, <1>7 DEF SheetKept

LEMMA LookSheets ==
  ASSUME Types, SheetsKept, NEW c \in calls, Look(c)
  PROVE  SheetsKept'
  <1>1. PICK d : /\ calls' = (calls \ {c}) \cup {d} /\ Wellformed(d) /\ d.kind = c.kind /\ d.from = c.from
                 /\ d.of = c.of /\ d.value = c.value /\ d.seen = Found(c) /\ d.answer = c.answer
    BY LookIs
  <1>2. /\ sheets' = sheets /\ browser' = browser /\ wanted' = wanted /\ raced' = raced
        /\ c.kind # "load" /\ c.kind \in Writes
    BY DEF Look, stored, Writes
  <1>3. Tabs' = Tabs /\ Told' = Told /\ \A t \in Sheet : Cells(t)' = Cells(t)
    BY <1>1, <1>2 DEF Tabs, Cells, Told
  <1>4. ASSUME NEW t \in Sheet, t # c.of  PROVE SheetSame(t)
    <2>1. On(t)' = On(t)
      BY <1>1, <1>4 DEF On
    <2>2. Patches(t)' = Patches(t)
      BY <2>1 DEF Patches
    <2> QED BY <1>1, <1>2, <1>3, <2>1, <2>2 DEF SheetSame
  <1>5. CASE c.of \notin Sheet
    BY <1>2, <1>4, <1>5, AllSheets
  <1>6. CASE c.of \in Sheet
    <2> DEFINE s == c.of
    <2>1. SUFFICES ASSUME s \notin raced, SheetKept(s)  PROVE SheetKept(s)'
      BY <1>2, <1>4, <1>6, OneSheet
    <2>2. s \in Tabs
      BY <2>1 DEF SheetKept, Unknown, On
    <2>3. CASE c.kind = "patch"
      <3>1. c \in Patches(s)
        BY <2>3 DEF Patches, On
      <3>2. d.seen = TRUE
        BY <1>1, <2>2, <2>3, FoundIs
      <3>3. c.from = None => c.answer # "error"
        BY <2>1, <2>2, <3>1 DEF SheetKept, Awaited
      <3> QED BY <1>1, <1>2, <1>6, <2>1, <2>2, <2>3, <3>1, <3>2, <3>3, Replaced
    <2>4. CASE c.kind # "patch"
      <3>1. Patches(s)' = Patches(s)
        BY <1>1, <2>4 DEF Patches, On
      <3>2. SheetSame(s)
        BY <1>1, <1>2, <1>3, <1>6, <2>2, <3>1 DEF SheetSame
      <3> QED BY <1>6, <2>1, <3>2, SheetFrame
    <2> QED BY <2>3, <2>4
  <1> QED BY <1>5, <1>6

LEMMA LoseSheets ==
  ASSUME Types, SheetsKept, NEW c \in calls, Lose(c)
  PROVE  SheetsKept'
  <1>1. sheets' = sheets /\ browser' = browser /\ wanted' = wanted /\ raced \subseteq raced'
    BY DEF Lose, stored
  <1>2. Tabs' = Tabs /\ \A t \in Sheet : Cells(t)' = Cells(t)
    BY <1>1 DEF Tabs, Cells
  <1>3. CASE c.kind # "patch"
    <2>1. calls' = calls \ {c} /\ c.of \notin Sheet
      <3>1. c.kind \in {"load", "put", "delete"}
        BY <1>3 DEF Lose, Types, Wellformed, Record, Writes
      <3>2. Wellformed(c) /\ None \notin Sheet /\ Keyed \cap Sheet = {}
        BY PageAssumption DEF Types
      <3>3. c.of \notin Sheet
        BY <3>1, <3>2 DEF Wellformed
      <3> QED BY <1>3, <3>3, LoseIs
    <2>2. CallsSame /\ \A t \in Sheet : On(t)' = On(t)
      BY <1>3, <2>1 DEF CallsSame, On
    <2> QED BY <1>1, <2>2, PagesAlike
  <1>4. CASE c.kind = "patch"
    <2>1. PICK d : /\ calls' = (calls \ {c}) \cup {d} /\ Wellformed(d) /\ d.kind = c.kind /\ d.from = c.from
                   /\ d.of = c.of /\ d.value = c.value /\ d.seen = c.seen /\ d.answer = "error"
      BY <1>4, LoseIs
    <2> DEFINE s == c.of
    <2>2. s \in Sheet /\ c.seen = None /\ c.answer = None /\ (c.from = None => s \in raced') /\ c \in Patches(s)
      BY <1>4 DEF Lose, Types, Wellformed, Patches, On
    <2>3. ASSUME NEW t \in Sheet, t # s  PROVE SheetSame(t)
      <3>1. On(t)' = On(t) /\ Told' = Told
        BY <1>4, <2>1, <2>3 DEF On, Told
      <3>2. Patches(t)' = Patches(t)
        BY <3>1 DEF Patches
      <3> QED BY <1>1, <1>2, <1>4, <2>1, <3>1, <3>2 DEF SheetSame
    <2>4. SUFFICES ASSUME s \notin raced', s \notin raced, SheetKept(s)  PROVE SheetKept(s)'
      BY <1>1, <2>2, <2>3, OneSheet
    <2>5. s \in Tabs
      BY <2>2, <2>4 DEF SheetKept, Unknown, Patches
    <2>6. None # "ok"
      BY PageAssumption
    <2> QED BY <1>1, <1>4, <2>1, <2>2, <2>4, <2>5, <2>6, Replaced
  <1> QED BY <1>3, <1>4

LEMMA LoadSheets ==
  ASSUME Types, SheetsKept, NEW c \in calls, Load(c)
  PROVE  SheetsKept'
  <1>1. PICK d : /\ calls' = (calls \ {c}) \cup {d} /\ c.kind = "load" /\ d.kind = "load"
                 /\ d.of = None /\ c.of = None /\ d.answer = <<table, [s \in Sheet |-> Cells(s)]>>
    BY LoadIs
  <1>2. sheets' = sheets /\ browser' = browser /\ wanted' = wanted /\ raced' = raced
    BY DEF Load, stored, ghosts
  <1>3. SUFFICES ASSUME NEW s \in Sheet \ raced, SheetKept(s)  PROVE SheetKept(s)'
    BY <1>2 DEF SheetsKept
  <1>4. (s \in Tabs' <=> s \in Tabs) /\ Cells(s)' = Cells(s) /\ d.answer[2][s] = Cells(s)
    BY <1>1, <1>2 DEF Tabs, Cells
  <1>5. On(s)' = On(s) /\ Told' \subseteq Told \cup {d} /\ \A e \in calls' : e.kind = "post" => e \in calls
    BY <1>1, PageAssumption DEF On, Told
  <1>6. Patches(s)' = Patches(s) /\ Open(s)' = Open(s) /\ Dirty(s)' = Dirty(s)
    BY <1>2, <1>5 DEF Patches, Open, Dirty
  <1>7. CASE s \notin Tabs
    <2>1. Unknown(s) /\ Cells(s) = None
      BY <1>3, <1>7 DEF SheetKept, Cells, Tabs
    <2> QED BY <1>2, <1>4, <1>5, <1>7, <2>1 DEF SheetKept, Unknown
  <1>8. CASE s \in Tabs
    <2>1. Awaited(s) /\ Complete(s) /\ Unseen(s)
      BY <1>3, <1>8 DEF SheetKept
    <2>2. Awaited(s)'
      BY <1>2, <1>6, <2>1 DEF Awaited
    <2>3. Complete(s)'
      BY <1>2, <1>4, <1>5, <1>6, <2>1 DEF Complete
    <2>4. Unseen(s)'
      BY <1>2, <1>4, <1>5, <1>6, <2>1 DEF Unseen
    <2> QED BY <1>4, <1>8, <2>2, <2>3, <2>4 DEF SheetKept
  <1> QED BY <1>7, <1>8

LEMMA LoadedSheets ==
  ASSUME Types, SheetsKept, NEW c \in calls, Loaded(c)
  PROVE  SheetsKept'
  <1>1. /\ c.from \in Browser /\ \A o \in Browser \ {c.from} : Same(o)
        /\ browser'[c.from].dirty = browser[c.from].dirty
        /\ \A s \in Sheet : browser'[c.from].copy[s] =
             IF browser[c.from].copy[s] # None THEN browser[c.from].copy[s] ELSE c.answer[2][s]
    BY LoadedShows
  <1>2. /\ sheets' = sheets /\ wanted' = wanted /\ raced' = raced /\ calls' = calls \ {c}
        /\ c \in Told /\ c.of = None
    BY DEF Loaded, stored, ghosts, Types, Wellformed, Told
  <1>3. SUFFICES ASSUME NEW s \in Sheet \ raced, SheetKept(s)  PROVE SheetKept(s)'
    BY <1>2 DEF SheetsKept
  <1>4. (s \in Tabs' <=> s \in Tabs) /\ Cells(s)' = Cells(s)
    BY <1>2 DEF Tabs, Cells
  <1>5. On(s)' = On(s) /\ Told' \subseteq Told
    BY <1>2, PageAssumption DEF On, Told
  <1>6. Patches(s)' = Patches(s) /\ Open(s)' = Open(s) /\ Dirty(s)' = Dirty(s)
    BY <1>1, <1>5 DEF Patches, Open, Dirty, Same
  <1>7. \A o \in Browser : /\ browser[o].copy[s] # None => browser'[o].copy[s] = browser[o].copy[s]
                           /\ \/ browser'[o].copy[s] = browser[o].copy[s]
                              \/ browser'[o].copy[s] = c.answer[2][s]
    BY <1>1 DEF Same
  <1>8. CASE s \notin Tabs
    <2>1. Unknown(s)
      BY <1>3, <1>8 DEF SheetKept
    <2> QED BY <1>2, <1>4, <1>5, <1>7, <1>8, <2>1 DEF SheetKept, Unknown
  <1>9. CASE s \in Tabs
    <2>1. Awaited(s) /\ Complete(s) /\ Unseen(s)
      BY <1>3, <1>9 DEF SheetKept
    <2>2. Awaited(s)'
      <3>1. ASSUME NEW p \in Patches(s), p.from # None
            PROVE  browser'[p.from].copy[s] = p.value /\ browser'[p.from].dirty = browser[p.from].dirty
        <4>1. p.from \in Browser /\ p.value # None
          BY <3>1, PatchIs DEF Maybe
        <4> QED BY <1>1, <1>7, <2>1, <3>1, <4>1 DEF Awaited, Same
      <3> QED BY <1>6, <2>1, <3>1 DEF Awaited
    <2>3. Complete(s)'
      <3>1. \A b \in Dirty(s) : browser'[b].copy[s] = wanted[s]
        <4>1. wanted[s] # None
          BY PageAssumption DEF Types
        <4> QED BY <1>7, <2>1, <4>1 DEF Complete, Dirty
      <3> QED BY <1>2, <1>4, <1>5, <1>6, <1>7, <2>1, <3>1 DEF Complete
    <2>4. Unseen(s)'
      BY <1>2, <1>4, <1>5, <1>6, <1>7, <2>1 DEF Unseen
    <2> QED BY <1>4, <1>9, <2>2, <2>3, <2>4 DEF SheetKept
  <1> QED BY <1>8, <1>9

LEMMA EditCellSheets ==
  ASSUME Types, SheetsKept, NEW b \in Browser, NEW s \in Sheet, NEW x \in Cell, EditCell(b, s, x)
  PROVE  SheetsKept'
  <1>1. PICK cells \in SUBSET Cell : cells = browser[b].copy[s] \cup {x}
    BY EditCellTurns
  <1>2. /\ \A o \in Browser \ {b} : browser'[o] = browser[o]
        /\ browser'[b].copy = [browser[b].copy EXCEPT ![s] = cells]
        /\ browser'[b].dirty = browser[b].dirty \cup {s}
    BY <1>1, EditCellTurns DEF Turns
  <1>3. browser[b].copy \in [Sheet -> Maybe(SUBSET Cell)]
    BY PageType
  <1>4. browser[b].copy[s] # None /\ x \notin browser[b].copy[s]
    BY DEF EditCell
  <1>5. /\ sheets' = sheets /\ calls' = calls /\ raced \subseteq raced'
        /\ \A t \in Sheet \ {s} : wanted'[t] = wanted[t]
        /\ wanted'[s] = wanted[s] \cup {x}
    BY DEF EditCell, stored, Types
  <1>6. Tabs' = Tabs /\ Told' = Told /\ \A t \in Sheet : Cells(t)' = Cells(t) /\ On(t)' = On(t)
    BY <1>5 DEF Tabs, Cells, Told, On
  <1>7. \A t \in Sheet : Patches(t)' = Patches(t) /\ Open(t)' = Open(t)
    BY <1>6 DEF Patches, Open
  <1>8. \A t \in Sheet \ {s} : SheetSame(t)
    BY <1>2, <1>3, <1>5, <1>6, <1>7 DEF SheetSame
  <1>9. SUFFICES ASSUME s \notin raced', SheetKept(s)  PROVE SheetKept(s)'
    BY <1>5, <1>8, OneSheet
  <1>10. Awaited(s) /\ Complete(s) /\ Unseen(s) /\ s \in Tabs
    BY <1>4, <1>9 DEF SheetKept, Unknown
  <1>11. browser[b].copy[s] = wanted[s] /\ ~Saving(b, s)
    BY <1>4, <1>9, <1>10 DEF EditCell, Complete
  <1>12. cells = wanted'[s] /\ cells # wanted[s] /\ cells # None /\ browser'[b].copy[s] = cells
    <2>1. \A y \in SUBSET Cell : y # None
      BY PageAssumption
    <2> QED BY <1>1, <1>2, <1>3, <1>4, <1>5, <1>11, <2>1
  <1>13. \A p \in Patches(s) : p.from # b
    BY <1>11 DEF Saving, Patches
  <1>14. Open(s) = {} /\ Dirty(s) \subseteq {b}
    BY <1>10, <1>11, <1>13 DEF Complete, Unseen, Open
  <1>15. Dirty(s)' = {b}
    BY <1>2, <1>14 DEF Dirty
  <1>16. Awaited(s)'
    <2>1. ASSUME NEW p \in Patches(s), p.from # None  PROVE browser'[p.from] = browser[p.from]
      BY <1>2, <1>13, <2>1, PatchIs DEF Maybe
    <2> QED BY <1>7, <1>10, <2>1 DEF Awaited
  <1>17. /\ \A o \in Browser : browser'[o].copy[s] # None => browser'[o].copy[s] \subseteq cells
         /\ \A o \in Browser : browser'[o].copy[s] = cells => o = b
         /\ \A c \in Told : c.answer[2][s] # None => c.answer[2][s] \subseteq cells
         /\ \A c \in Told : c.answer[2][s] # cells
         /\ Cells(s) \subseteq cells /\ Cells(s) # cells
    <2>1. wanted[s] \subseteq cells /\ x \in cells /\ x \notin wanted[s]
      BY <1>1, <1>4, <1>11
    <2>2. \A o \in Browser \ {b} : browser'[o].copy[s] = browser[o].copy[s]
      BY <1>2
    <2> QED BY <1>10, <1>12, <2>1, <2>2 DEF Complete
  <1>18. Complete(s)'
    BY <1>6, <1>7, <1>12, <1>14, <1>15, <1>17 DEF Complete
  <1>19. Unseen(s)'
    BY <1>6, <1>7, <1>12, <1>14, <1>15, <1>17 DEF Unseen
  <1> QED BY <1>6, <1>10, <1>16, <1>18, <1>19 DEF SheetKept

LEMMA SaveSheetSheets ==
  ASSUME Types, DirtyShown, SheetsKept, NEW b \in Browser, NEW s \in Sheet, SaveSheet(b, s)
  PROVE  SheetsKept'
  <1> DEFINE d == Call("patch", b, s, browser[b].copy[s])
  <1>1. /\ \A o \in Browser \ {b} : browser'[o] = browser[o]
        /\ browser'[b].copy = browser[b].copy /\ browser'[b].dirty = browser[b].dirty \ {s}
    BY SaveSheetTurns DEF Turns
  <1>2. /\ sheets' = sheets /\ raced' = raced /\ wanted' = wanted /\ calls' = calls \cup {d}
        /\ s \in browser[b].dirty
        /\ d.kind = "patch" /\ d.from = b /\ d.of = s /\ d.value = browser[b].copy[s]
        /\ d.seen = None /\ d.answer = None
    BY DEF SaveSheet, stored, ghosts, Send, Call
  <1> HIDE DEF d
  <1>3. Tabs' = Tabs /\ Told' = Told /\ \A t \in Sheet : Cells(t)' = Cells(t)
    BY <1>2 DEF Tabs, Cells, Told
  <1>4. ASSUME NEW t \in Sheet \ {s}  PROVE SheetSame(t)
    <2>1. On(t)' = On(t)
      BY <1>2 DEF On
    <2>2. Patches(t)' = Patches(t)
      BY <2>1 DEF Patches
    <2>3. \A c \in calls' : c.kind = "post" => c \in calls
      BY <1>2
    <2> QED BY <1>1, <1>2, <1>3, <2>1, <2>2, <2>3 DEF SheetSame
  <1>5. SUFFICES ASSUME s \notin raced, SheetKept(s)  PROVE SheetKept(s)'
    BY <1>2, <1>4, OneSheet
  <1>6. browser[b].copy[s] # None /\ b \in Dirty(s)
    BY <1>2 DEF DirtyShown, Dirty
  <1>7. Awaited(s) /\ Complete(s) /\ Unseen(s) /\ s \in Tabs
    BY <1>5, <1>6 DEF SheetKept, Unknown
  <1>8. browser[b].copy[s] = wanted[s] /\ Dirty(s) = {b} /\ Open(s) = {}
    BY <1>6, <1>7 DEF Complete
  <1>9. None # "ok" /\ None # "error" /\ b # None
    BY PageAssumption
  <1>10. Patches(s)' = Patches(s) \cup {d} /\ Dirty(s)' = {}
    BY <1>1, <1>2, <1>8 DEF Patches, On, Dirty
  <1>11. Open(s)' = {d}
    BY <1>2, <1>8, <1>9, <1>10 DEF Open
  <1>12. ASSUME NEW p \in Patches(s)  PROVE p.from # b
    BY <1>2, <1>7, <1>9 DEF Awaited
  <1>13. Awaited(s)'
    <2>1. ASSUME NEW p \in Patches(s), p.from # None
          PROVE  browser'[p.from] = browser[p.from] /\ \A e \in Patches(s)' : e.from = p.from => e = p
      <3>1. p.from \in Browser \ {b}
        BY <1>12, <2>1, PatchIs DEF Maybe
      <3> QED BY <1>1, <1>2, <1>7, <1>10, <2>1, <3>1 DEF Awaited
    <2>2. \A e \in Patches(s)' : e.from = b => e = d
      BY <1>10, <1>12
    <2>3. browser'[b].copy[s] = d.value /\ s \notin browser'[b].dirty
      BY <1>1, <1>2
    <2> QED BY <1>2, <1>7, <1>9, <1>10, <2>1, <2>2, <2>3 DEF Awaited
  <1>14. \A o \in Browser : browser'[o].copy = browser[o].copy
    BY <1>1
  <1>15. Complete(s)'
    BY <1>2, <1>3, <1>7, <1>8, <1>10, <1>11, <1>14 DEF Complete
  <1>16. Unseen(s)'
    BY <1>2, <1>3, <1>6, <1>7, <1>8, <1>10, <1>11, <1>14 DEF Unseen
  <1> QED BY <1>3, <1>7, <1>13, <1>15, <1>16 DEF SheetKept

LEMMA SavedSheets ==
  ASSUME Types, SheetsKept, NEW c \in calls, Saved(c)
  PROVE  SheetsKept'
  <1> DEFINE s == c.of  b == c.from
  <1>1. /\ sheets' = sheets /\ raced' = raced /\ wanted' = wanted /\ calls' = calls \ {c}
        /\ c.kind = "patch" /\ c.answer # None
    BY DEF Saved, stored, ghosts
  <1>2. c.of \in Sheet /\ c \in Patches(c.of)
    BY <1>1 DEF Types, Wellformed, Patches, On
  <1>3. Tabs' = Tabs /\ Told' = Told /\ \A t \in Sheet : Cells(t)' = Cells(t)
    BY <1>1 DEF Tabs, Cells, Told
  <1>4. Patches(s)' = Patches(s) \ {c}
    BY <1>1 DEF Patches, On
  <1>5. \A o \in Browser : \A t \in Sheet \ {s} :
          /\ browser'[o].copy[t] = browser[o].copy[t]
          /\ t \in browser'[o].dirty <=> t \in browser[o].dirty
    BY SavedShows DEF Same
  <1>6. ASSUME NEW t \in Sheet \ {s}  PROVE SheetSame(t)
    <2>1. On(t)' = On(t)
      BY <1>1 DEF On
    <2>2. Patches(t)' = Patches(t)
      BY <2>1 DEF Patches
    <2>3. \A o \in Browser : browser'[o].copy[t] = browser[o].copy[t] /\ (t \in browser'[o].dirty <=> t \in browser[o].dirty)
      BY <1>5
    <2>4. calls' \subseteq calls /\ Told' \subseteq Told /\ wanted' = wanted
      BY <1>1, <1>3
    <2> QED BY <1>3, <2>1, <2>2, <2>3, <2>4 DEF SheetSame
  <1>7. SUFFICES ASSUME s \notin raced, SheetKept(s)  PROVE SheetKept(s)'
    BY <1>1, <1>2, <1>6, OneSheet
  <1>8. Awaited(s) /\ Complete(s) /\ Unseen(s) /\ s \in Tabs
    BY <1>2, <1>7 DEF SheetKept, Unknown, Patches
  <1>9. c.answer \in {"ok", "error"} /\ c.value # None /\ b \in Maybe(Browser)
    BY <1>1, <1>2, PatchIs
  <1>10. CASE c.answer = "ok"
    <2>1. \A o \in Browser : browser'[o].copy[s] = browser[o].copy[s] /\ (s \in browser'[o].dirty <=> s \in browser[o].dirty)
      <3>1. CASE browser' = browser
        BY <3>1
      <3>2. CASE browser' # browser
        <4>1. /\ b \in Browser /\ \A o \in Browser \ {b} : Same(o)
              /\ browser'[b].dirty = browser[b].dirty /\ browser'[b].copy[s] = c.value
          BY <1>2, <1>10, <3>2, SavedShows
        <4>2. browser[b].copy[s] = c.value
          BY <1>2, <1>8, <4>1, PageAssumption DEF Awaited
        <4> QED BY <4>1, <4>2 DEF Same
      <3> QED BY <3>1, <3>2
    <2>2. Open(s)' = Open(s) /\ Dirty(s)' = Dirty(s)
      BY <1>4, <1>10, <2>1 DEF Open, Dirty
    <2>3. Awaited(s)'
      <3>1. ASSUME NEW p \in Patches(s), p.from # None
            PROVE  browser'[p.from].copy[s] = p.value /\ s \notin browser'[p.from].dirty
        <4>1. p.from \in Browser
          BY <1>2, <3>1, PatchIs DEF Maybe
        <4>2. browser[p.from].copy[s] = p.value /\ s \notin browser[p.from].dirty
          BY <1>8, <3>1 DEF Awaited
        <4> QED BY <2>1, <4>1, <4>2
      <3> QED BY <1>4, <1>8, <3>1 DEF Awaited
    <2>4. Complete(s)'
      BY <1>1, <1>2, <1>3, <1>8, <2>1, <2>2 DEF Complete, Dirty
    <2>5. Unseen(s)'
      BY <1>1, <1>2, <1>3, <1>8, <2>1, <2>2 DEF Unseen
    <2> QED BY <1>3, <1>8, <2>3, <2>4, <2>5 DEF SheetKept
  <1>11. CASE c.answer = "error"
    <2>1. b \in Browser /\ browser[b].copy[s] = c.value /\ b # None
      BY <1>2, <1>8, <1>9, <1>11 DEF Awaited, Maybe
    <2>2. browser' # browser
      <3>1. browser' = Retry(b, s)
        BY <1>9, <1>11, <2>1 DEF Saved
      <3>2. s \in browser'[b].dirty
        BY <1>2, <2>1, <3>1 DEF Retry, Types, Pages
      <3>3. s \notin browser[b].dirty
        BY <1>2, <1>8, <2>1 DEF Awaited
      <3> QED BY <3>2, <3>3
    <2>3. /\ \A o \in Browser \ {b} : Same(o)
          /\ browser'[b].dirty = browser[b].dirty \cup {s}
          /\ browser'[b].copy[s] = browser[b].copy[s]
      BY <1>2, <1>11, <2>2, SavedShows
    <2>4. \A o \in Browser : browser'[o].copy[s] = browser[o].copy[s]
      BY <2>3 DEF Same
    <2>5. Open(s) = {c} /\ Dirty(s) = {} /\ c.value = wanted[s]
      BY <1>2, <1>8, <1>11 DEF Complete, Open
    <2>6. Open(s)' = {} /\ Dirty(s)' = {b}
      <3>1. Open(s)' = {}
        BY <1>4, <2>5 DEF Open
      <3>2. ASSUME NEW o \in Browser  PROVE o \in Dirty(s)' <=> o = b
        <4>1. s \notin browser[o].dirty
          BY <2>5 DEF Dirty
        <4>2. CASE o = b
          BY <2>3, <4>2 DEF Dirty
        <4>3. CASE o # b
          BY <2>3, <4>1, <4>3 DEF Dirty, Same
        <4> QED BY <4>2, <4>3
      <3>3. Dirty(s)' \subseteq Browser
        BY DEF Dirty
      <3> QED BY <2>1, <3>1, <3>2, <3>3
    <2>7. Awaited(s)'
      <3>1. ASSUME NEW p \in Patches(s) \ {c}, p.from # None
            PROVE  browser'[p.from] = browser[p.from]
        <4>1. p.from # b
          BY <1>2, <1>8, <2>1, <3>1 DEF Awaited
        <4> QED BY <2>3, <3>1, <4>1, <1>2, PatchIs DEF Same, Maybe
      <3> QED BY <1>4, <1>8, <3>1 DEF Awaited
    <2>8. Complete(s)'
      BY <1>1, <1>2, <1>3, <1>8, <2>1, <2>4, <2>5, <2>6 DEF Complete
    <2>9. Unseen(s)'
      BY <1>1, <1>2, <1>3, <1>8, <2>1, <2>4, <2>5, <2>6 DEF Unseen
    <2> QED BY <1>3, <1>8, <2>7, <2>8, <2>9 DEF SheetKept
  <1> QED BY <1>9, <1>10, <1>11

\* A tab that is shown at last changes little; one that is closed is excused.
LEMMA ClosedSheets ==
  ASSUME Types, SheetsKept, Dropped, NEW c \in calls, Closed(c)
  PROVE  SheetsKept'
  <1>1. /\ sheets' = sheets /\ raced' = raced /\ wanted' = wanted /\ calls' = calls \ {c}
        /\ c.kind \in {"post", "drop"} /\ c.answer # None
    BY DEF Closed, stored, ghosts
  <1>2. Tabs' = Tabs /\ Told' = Told /\ \A t \in Sheet : Cells(t)' = Cells(t)
    BY <1>1 DEF Tabs, Cells, Told
  <1>3. ASSUME NEW t \in Sheet
        PROVE  Patches(t)' = Patches(t) /\ Open(t)' = Open(t) /\ (On(t) = {} => On(t)' = {})
    BY <1>1 DEF Patches, On, Open
  <1>4. ASSUME NEW t \in Sheet,
               \A o \in Browser : browser'[o].copy[t] = browser[o].copy[t] /\ (t \in browser'[o].dirty <=> t \in browser[o].dirty)
        PROVE  SheetSame(t)
    BY <1>1, <1>2, <1>3, <1>4 DEF SheetSame
  <1>5. CASE browser' = browser
    BY <1>1, <1>4, <1>5, AllSheets
  <1>6. CASE browser' # browser
    <2> DEFINE b == c.from
    <2>1. b \in Browser /\ \A o \in Browser \ {b} : Same(o)
      BY <1>6, ClosedShows
    <2>2. CASE c.kind = "drop"
      <3>1. /\ c.of \in Sheet /\ browser'[b].dirty = browser[b].dirty \ {c.of}
            /\ \A t \in Sheet : browser'[b].copy[t] = IF t = c.of THEN None ELSE browser[b].copy[t]
        BY <1>6, <2>2, ClosedShows
      <3>2. c.of \in raced
        BY <1>1, <2>2 DEF Dropped
      <3>3. \A t \in Sheet \ raced : SheetSame(t)
        BY <1>4, <2>1, <3>1, <3>2 DEF Same
      <3> QED BY <1>1, <3>3, AllSheets
    <2>3. CASE c.kind = "post"
      <3> DEFINE s == c.answer
      <3>1. /\ s \in Sheet /\ browser'[b].dirty = browser[b].dirty
            /\ \A t \in Sheet : browser'[b].copy[t] =
                 IF t = s /\ browser[b].copy[t] = None THEN {} ELSE browser[b].copy[t]
        BY <1>6, <2>3, ClosedShows
      <3>2. \A t \in Sheet \ {s} : SheetSame(t)
        BY <1>4, <2>1, <3>1 DEF Same
      <3>3. SUFFICES ASSUME s \notin raced, SheetKept(s)  PROVE SheetKept(s)'
        BY <1>1, <3>1, <3>2, OneSheet
      <3>4. Awaited(s) /\ Complete(s) /\ Unseen(s) /\ s \in Tabs
        BY <2>3, <3>3 DEF SheetKept, Unknown
      <3>5. \A o \in Browser : /\ browser[o].copy[s] # None => browser'[o].copy[s] = browser[o].copy[s]
                               /\ browser'[o].copy[s] = browser[o].copy[s] \/ browser'[o].copy[s] = {}
                               /\ s \in browser'[o].dirty <=> s \in browser[o].dirty
        BY <2>1, <3>1 DEF Same
      <3>6. Dirty(s)' = Dirty(s)
        BY <3>5 DEF Dirty
      <3>7. Awaited(s)'
        <4>1. ASSUME NEW p \in Patches(s), p.from # None
              PROVE  browser'[p.from].copy[s] = p.value /\ s \notin browser'[p.from].dirty
          <5>1. p.from \in Browser /\ p.value # None
            BY <3>1, <4>1, PatchIs DEF Maybe
          <5>2. browser[p.from].copy[s] = p.value /\ s \notin browser[p.from].dirty
            BY <3>4, <4>1 DEF Awaited
          <5> QED BY <3>5, <5>1, <5>2
        <4> QED BY <1>3, <3>1, <3>4, <4>1 DEF Awaited
      <3>8. Complete(s)'
        <4>1. \A o \in Dirty(s) : browser'[o].copy[s] = wanted[s]
          <5>1. wanted[s] # None
            BY <3>1, PageAssumption DEF Types
          <5> QED BY <3>4, <3>5, <5>1 DEF Complete, Dirty
        <4> QED BY <1>1, <1>2, <1>3, <3>1, <3>4, <3>5, <3>6, <4>1 DEF Complete
      <3>9. Unseen(s)'
        <4>1. ASSUME Cells(s) # wanted[s]  PROVE {} # wanted[s]
          <5>1. Cells(s) \in SUBSET Cell /\ Cells(s) \subseteq wanted[s]
            BY <3>1, <3>4 DEF Cells, Tabs, Types, Tab, Maybe, Complete
          <5> QED BY <4>1, <5>1
        <4> QED BY <1>1, <1>2, <1>3, <3>1, <3>4, <3>5, <3>6, <4>1 DEF Unseen
      <3> QED BY <1>2, <3>4, <3>7, <3>8, <3>9 DEF SheetKept
    <2> QED BY <1>1, <2>2, <2>3
  <1> QED BY <1>5, <1>6

LEMMA PatchSheets ==
  ASSUME Types, SheetsKept, NEW c \in calls, PatchSheet(c)
  PROVE  SheetsKept'
  <1> DEFINE s == c.of  answer == IF c.seen /\ c.of \in Tabs THEN "ok" ELSE "error"
  <1>1. /\ browser' = browser /\ raced' = raced /\ wanted' = wanted
        /\ c.kind = "patch" /\ c.seen # None /\ c.answer = None /\ Wellformed(c)
        /\ Answer(c, answer)
        /\ sheets' = IF c.seen /\ c.of \in Tabs THEN [sheets EXCEPT ![c.of].cells = c.value] ELSE sheets
    BY DEF PatchSheet, ghosts, Types
  <1>2. s \in Sheet /\ c \in Patches(s) /\ c.value \in SUBSET Cell
    BY <1>1 DEF Types, Wellformed, Patches, On
  <1>3. PICK d : /\ calls' = (calls \ {c}) \cup {d} /\ Wellformed(d) /\ d.kind = c.kind /\ d.from = c.from
                 /\ d.of = c.of /\ d.value = c.value /\ d.seen = c.seen /\ d.answer = answer
    BY <1>1, AnswerIs DEF Writes
  <1>4. Told' = Told
    BY <1>1, <1>3 DEF Told
  <1>5. ASSUME NEW t \in Sheet \ {s}  PROVE SheetSame(t)
    <2>1. On(t)' = On(t)
      BY <1>3 DEF On
    <2>2. Patches(t)' = Patches(t)
      BY <2>1 DEF Patches
    <2>3. sheets'[t] = sheets[t]
      BY <1>1 DEF Types
    <2>4. (t \in Tabs' <=> t \in Tabs) /\ Cells(t)' = Cells(t)
      BY <2>3 DEF Tabs, Cells
    <2> QED BY <1>1, <1>3, <1>4, <2>1, <2>2, <2>4 DEF SheetSame
  <1>6. SUFFICES ASSUME s \notin raced, SheetKept(s)  PROVE SheetKept(s)'
    BY <1>1, <1>2, <1>5, OneSheet
  <1>7. Awaited(s) /\ Complete(s) /\ Unseen(s) /\ s \in Tabs
    BY <1>2, <1>6 DEF SheetKept, Unknown, Patches
  <1>8. c.seen = TRUE /\ answer = "ok"
    BY <1>1, <1>2, <1>7 DEF Awaited
  <1>9. c \in Open(s)
    BY <1>1, <1>2, PageAssumption DEF Open
  <1>10. Open(s) = {c} /\ Dirty(s) = {} /\ c.value = wanted[s]
    BY <1>7, <1>9 DEF Complete
  <1>11. Patches(s)' = (Patches(s) \ {c}) \cup {d}
    BY <1>1, <1>3 DEF Patches, On
  <1>12. Open(s)' = {} /\ Dirty(s)' = {}
    BY <1>1, <1>3, <1>8, <1>10, <1>11 DEF Open, Dirty
  <1>13. s \in Tabs' /\ Cells(s)' = wanted[s]
    <2>1. sheets[s] \in Tab /\ None \notin Tab
      BY <1>2, <1>7, PageAssumption DEF Types, Tabs, Tab, Maybe
    <2>2. sheets'[s] = [sheets[s] EXCEPT !.cells = c.value]
      BY <1>1, <1>2, <1>7, <1>8 DEF Types
    <2>3. sheets'[s] \in Tab /\ sheets'[s].cells = c.value
      BY <1>2, <2>1, <2>2 DEF Tab
    <2> QED BY <1>2, <1>10, <2>1, <2>3 DEF Tabs, Cells
  <1>14. Awaited(s)'
    <2>1. ASSUME NEW p \in Patches(s)'
          PROVE  \E q \in Patches(s) : /\ q.from = p.from /\ q.value = p.value
                                       /\ IF p = d THEN q = c ELSE q = p /\ q # c
      BY <1>2, <1>3, <1>11
    <2>2. ASSUME NEW p \in Patches(s)', p.from # None
          PROVE  /\ browser'[p.from].copy[s] = p.value /\ s \notin browser'[p.from].dirty
                 /\ \A e \in Patches(s)' : e.from = p.from => e = p
      <3>1. PICK q \in Patches(s) : /\ q.from = p.from /\ q.value = p.value
                                    /\ IF p = d THEN q = c ELSE q = p /\ q # c
        BY <2>1
      <3>2. /\ browser[q.from].copy[s] = q.value /\ s \notin browser[q.from].dirty
            /\ \A e \in Patches(s) : e.from = q.from => e = q
        BY <1>7, <2>2, <3>1 DEF Awaited
      <3>3. ASSUME NEW e \in Patches(s)', e.from = p.from  PROVE e = p
        <4>1. PICK x \in Patches(s) : x.from = e.from /\ IF e = d THEN x = c ELSE x = e /\ x # c
          BY <2>1
        <4> QED BY <3>1, <3>2, <3>3, <4>1
      <3>4. browser'[p.from] = browser[q.from]
        BY <1>1, <3>1
      <3> QED BY <3>1, <3>2, <3>3, <3>4
    <2>3. \A p \in Patches(s)' : p.seen \in {None, TRUE} /\ (p.from = None => p.answer # "error")
      BY <1>3, <1>7, <1>8, <1>11 DEF Awaited
    <2> QED BY <2>2, <2>3 DEF Awaited
  <1>15. Complete(s)'
    BY <1>1, <1>4, <1>7, <1>12, <1>13 DEF Complete
  <1>16. Unseen(s)'
    BY <1>12 DEF Unseen
  <1> QED BY <1>13, <1>14, <1>15, <1>16 DEF SheetKept

\* Moving, creating and deleting a tab leaves the cells of all others alone.
LEMMA AloneSame ==
  ASSUME Types, NEW t \in Sheet, sheets'[t] = sheets[t], On(t)' = On(t), browser' = browser, wanted' = wanted,
         Told' \subseteq Told, \A e \in calls' : e.kind = "post" /\ e.answer = t => e \in calls
  PROVE  SheetSame(t)
  <1>1. (t \in Tabs' <=> t \in Tabs) /\ Cells(t)' = Cells(t)
    BY DEF Tabs, Cells
  <1>2. Patches(t)' = Patches(t)
    BY DEF Patches
  <1> QED BY <1>1, <1>2 DEF SheetSame

LEMMA MoveSheets ==
  ASSUME Types, SheetsKept, NEW c \in calls, MoveSheet(c)
  PROVE  SheetsKept'
  <1> DEFINE s == c.of
  <1>1. /\ s \in Sheet /\ calls' = calls \ {c} /\ c.kind = "move" /\ c.value \in Nat /\ c \in On(s)
        /\ browser' = browser /\ wanted' = wanted /\ raced' = raced
    BY DEF MoveSheet, Answer, Types, Wellformed, On
  <1>2. sheets' = sheets \/ (s \in Tabs /\ sheets' = [sheets EXCEPT ![s].order = c.value])
    BY DEF MoveSheet
  <1>3. Told' \subseteq Told /\ calls' \subseteq calls /\ Patches(s)' = Patches(s)
    BY <1>1 DEF Told, Patches, On
  <1>4. ASSUME NEW t \in Sheet \ {s}  PROVE SheetSame(t)
    <2>1. On(t)' = On(t) /\ sheets'[t] = sheets[t]
      BY <1>1, <1>2 DEF On, Types
    <2> QED BY <1>1, <1>3, <2>1, AloneSame
  <1>5. SUFFICES ASSUME SheetKept(s)  PROVE SheetKept(s)'
    BY <1>1, <1>4, OneSheet
  <1>6. s \in Tabs
    BY <1>1, <1>5 DEF SheetKept, Unknown
  <1>7. s \in Tabs' /\ Cells(s)' = Cells(s)
    <2>1. sheets[s] \in Tab /\ None \notin Tab
      BY <1>1, <1>6, PageAssumption DEF Types, Tabs, Tab, Maybe
    <2>2. sheets'[s] = sheets[s] \/ sheets'[s] = [sheets[s] EXCEPT !.order = c.value]
      BY <1>1, <1>2 DEF Types
    <2>3. sheets'[s] \in Tab /\ sheets'[s].cells = sheets[s].cells
      BY <1>1, <2>1, <2>2 DEF Tab
    <2> QED BY <1>1, <1>6, <2>1, <2>3 DEF Tabs, Cells
  <1>8. SheetSame(s)
    BY <1>1, <1>3, <1>6, <1>7 DEF SheetSame
  <1> QED BY <1>1, <1>5, <1>8, SheetFrame

LEMMA CreateSheets ==
  ASSUME Types, DirtyShown, SheetsKept, NEW c \in calls, CreateSheet(c)
  PROVE  SheetsKept'
  <1>1. /\ c.kind = "post" /\ c.kind \in Writes /\ c.of = None /\ c.of \notin Sheet /\ c.seen \in Nat /\ Wellformed(c)
        /\ browser' = browser /\ wanted' = wanted /\ raced' = raced
    BY PageAssumption DEF CreateSheet, ghosts, Types, Wellformed, Writes, Maybe
  <1>2. ASSUME NEW answer \in {"error"} \cup Sheet, Answer(c, answer)
        PROVE  /\ \A t \in Sheet : On(t)' = On(t)
               /\ Told' \subseteq Told
               /\ \A e \in calls' : e.kind = "post" => e \in calls \/ e.answer = answer
    <2>1. PICK d : /\ calls' = (calls \ {c}) \cup {d} /\ d.kind = "post" /\ d.of = c.of /\ d.answer = answer
      BY <1>1, <1>2, AnswerIs
    <2> QED BY <1>1, <2>1 DEF On, Told
  <1>3. CASE sheets' = sheets /\ Answer(c, "error")
    <2>1. "error" \notin Sheet
      BY PageAssumption
    <2>2. \A t \in Sheet : SheetSame(t)
      BY <1>1, <1>2, <1>3, <2>1, AloneSame
    <2> QED BY <1>1, <2>2, AllSheets
  <1>4. ASSUME NEW s \in Sheet \ (Tabs \cup raced), sheets' = Place(c.seen, s), Answer(c, s)
        PROVE  SheetsKept'
    <2>1. ASSUME NEW t \in Sheet \ {s}  PROVE SheetSame(t)
      <3>1. sheets'[t] = sheets[t]
        BY <1>4 DEF Place, Types
      <3> QED BY <1>1, <1>2, <1>4, <3>1, AloneSame
    <2>2. SUFFICES ASSUME SheetKept(s)  PROVE SheetKept(s)'
      BY <1>1, <2>1, OneSheet
    <2>3. Unknown(s)
      BY <1>4, <2>2 DEF SheetKept
    <2>4. s \in Tabs' /\ Cells(s)' = {}
      <3>1. sheets'[s] = [order |-> c.seen, cells |-> {}]
        BY <1>4 DEF Place, Types
      <3>2. sheets'[s] \in Tab /\ None \notin Tab /\ sheets'[s].cells = {}
        BY <1>1, <3>1, PageAssumption DEF Tab
      <3> QED BY <3>2 DEF Tabs, Cells
    <2>5. Patches(s)' = {} /\ Open(s)' = {} /\ Dirty(s)' = {}
      <3>1. On(s)' = {}
        BY <1>2, <1>4, <2>3 DEF Unknown
      <3>2. \A b \in Browser : s \notin browser[b].dirty
        BY <2>3 DEF DirtyShown, Unknown
      <3> QED BY <1>1, <3>1, <3>2 DEF Patches, Open, Dirty
    <2>6. Complete(s)'
      BY <1>1, <1>2, <1>4, <2>3, <2>4, <2>5 DEF Complete, Unknown
    <2> QED BY <2>4, <2>5, <2>6 DEF SheetKept, Awaited, Unseen
  <1> QED BY <1>3, <1>4 DEF CreateSheet

LEMMA DropSheets ==
  ASSUME Types, SheetsKept, NEW c \in calls, DropSheet(c)
  PROVE  SheetsKept'
  <1>1. /\ c.kind = "drop" /\ c.of \in Sheet /\ Wellformed(c) /\ c.kind \in Writes
        /\ browser' = browser /\ wanted' = wanted /\ raced' = raced \cup {c.of}
        /\ sheets' = [sheets EXCEPT ![c.of] = None] /\ Answer(c, IF c.seen THEN "ok" ELSE "error")
    BY DEF DropSheet, Types, Wellformed, Writes
  <1>2. PICK d : calls' = (calls \ {c}) \cup {d} /\ d.kind = "drop" /\ d.of = c.of
    BY <1>1, AnswerIs
  <1>3. ASSUME NEW t \in Sheet \ {c.of}  PROVE SheetSame(t)
    <2>1. sheets'[t] = sheets[t] /\ On(t)' = On(t) /\ Told' \subseteq Told
      BY <1>1, <1>2 DEF Types, On, Told
    <2> QED BY <1>1, <1>2, <2>1, AloneSame
  <1> QED BY <1>1, <1>3, OneSheet

\* A patch outlives its page if it was not yet answered; one that had failed excuses its sheet.
LEMMA ReloadPatches ==
  ASSUME Types, NEW b \in Browser, NEW mode \in {"db", "local"}, Reload(b, mode), NEW s \in Sheet \ raced'
  PROVE  /\ On(s) = {} => On(s)' = {}
         /\ \A d \in Patches(s)' :
              \/ d \in Patches(s) /\ d.from # b
              \/ d.from = None /\ d.answer = None /\
                 \E c \in Patches(s) : /\ c.from = b /\ c.answer = None /\ d.kind = c.kind /\ d.of = c.of
                                       /\ d.value = c.value /\ d.seen = c.seen
         /\ \A c \in Patches(s) : c.from # b => c \in Patches(s)'
         /\ \A c \in Open(s) : c.from = b => c.answer = None /\ Open(s)' # {}
  <1>1. s # None /\ s \notin Keyed
    BY PageAssumption
  <1>2. ASSUME NEW d \in On(s)'
        PROVE  \/ d \in On(s) /\ d.from # b
               \/ d.from = None /\ d.answer = None /\
                  \E c \in On(s) : /\ c.from = b /\ c.answer = None /\ d.kind = c.kind /\ d.of = c.of
                                   /\ d.value = c.value /\ d.seen = c.seen
    <2>1. d \in calls' /\ d.of = s
      BY DEF On
    <2>2. \A c \in Flush(b) : c.of # s
      BY <1>1, FlushIs DEF Pending, Keyed
    <2>3. \/ d \in calls /\ d.from # b
          \/ \E c \in calls \cup Flush(b) :
               /\ c.from = b /\ c.answer = None
               /\ d.kind = c.kind /\ d.from = None /\ d.of = c.of /\ d.value = c.value
               /\ d.seen = c.seen /\ d.answer = c.answer
      BY <1>1, <2>1, ReloadIs
    <2> QED BY <2>1, <2>2, <2>3 DEF On
  <1>3. ASSUME NEW c \in Patches(s), c.from # b  PROVE c \in Patches(s)'
    BY <1>3 DEF Patches, On, Reload
  <1>4. ASSUME NEW c \in Open(s), c.from = b
        PROVE  c.answer = None /\ Open(s)' # {}
    <2>1. c \in Patches(s) /\ c.answer # "ok"
      BY DEF Open
    <2>2. /\ c \in calls /\ c \in Record /\ c.kind = "patch" /\ c.of = s
          /\ c.answer \in {None, "ok", "error"} /\ None \notin {"ok", "error"}
      BY <2>1, PatchIs
    <2>3. c.answer # "error"
      BY <1>4, <2>2 DEF Reload
    <2>4. c.answer = None
      BY <2>1, <2>2, <2>3
    <2> DEFINE d == [c EXCEPT !.from = None]
    <2>5. d \in calls'
      BY <1>4, <2>2, <2>4 DEF Reload
    <2>6. d.kind = "patch" /\ d.of = s /\ d.answer = None
      BY <2>2, <2>4, FromSet DEF Maybe
    <2> HIDE DEF d
    <2>7. d \in Open(s)'
      BY <2>2, <2>5, <2>6 DEF Open, Patches, On
    <2> QED BY <2>4, <2>7
  <1> QED BY <1>2, <1>3, <1>4 DEF Patches

LEMMA ReloadSheets ==
  ASSUME Types, SheetsKept, NEW b \in Browser, NEW mode \in {"db", "local"}, Reload(b, mode)
  PROVE  SheetsKept'
  <1>1. /\ \A o \in Browser \ {b} : browser'[o] = browser[o]
        /\ browser'[b].copy = [s \in Sheet |-> None] /\ browser'[b].dirty = {}
    BY ReloadTurns DEF Turns
  <1>2. /\ sheets' = sheets /\ wanted' = wanted /\ raced \cup browser[b].dirty \subseteq raced'
    BY DEF Reload, stored
  <1>3. SUFFICES ASSUME NEW s \in Sheet, s \notin raced', SheetKept(s)  PROVE SheetKept(s)'
    BY <1>2 DEF SheetsKept
  <1>4. (s \in Tabs' <=> s \in Tabs) /\ Cells(s)' = Cells(s) /\ s \notin browser[b].dirty
    BY <1>2, <1>3 DEF Tabs, Cells
  <1>5. /\ Told' \subseteq Told
        /\ \A d \in calls' : d.kind = "post" /\ d.answer = s => d \in calls
    <2>1. s # None
      BY PageAssumption
    <2> QED BY <2>1, ReloadIs DEF Told
  <1>6. /\ browser'[b].copy[s] = None /\ s \notin browser'[b].dirty
        /\ \A o \in Browser \ {b} : browser'[o] = browser[o]
    BY <1>1
  <1>7. CASE s \notin Tabs
    <2>1. Unknown(s)
      BY <1>3, <1>7 DEF SheetKept
    <2>2. On(s)' = {}
      BY <1>3, <2>1, ReloadPatches DEF Unknown
    <2>3. \A o \in Browser : browser'[o].copy[s] = None
      BY <1>6, <2>1 DEF Unknown
    <2>4. Unknown(s)'
      BY <1>2, <1>5, <2>1, <2>2, <2>3 DEF Unknown
    <2> QED BY <1>4, <1>7, <2>4 DEF SheetKept
  <1>8. CASE s \in Tabs
    <2>1. Awaited(s) /\ Complete(s) /\ Unseen(s)
      BY <1>3, <1>8 DEF SheetKept
    <2>2. ASSUME NEW d \in Patches(s)'
          PROVE  \/ d \in Patches(s) /\ d.from # b
                 \/ d.from = None /\ d.answer = None /\
                    \E c \in Patches(s) : /\ c.from = b /\ c.answer = None /\ d.kind = c.kind /\ d.of = c.of
                                          /\ d.value = c.value /\ d.seen = c.seen
      BY <1>3, ReloadPatches
    <2>3. None \notin {"ok", "error"}
      BY PageAssumption
    <2>4. \A c \in Patches(s) : c.from # b => c \in Patches(s)'
      BY <1>3, ReloadPatches
    <2>5. \A c \in Open(s) : c.from = b => c.answer = None /\ Open(s)' # {}
      BY <1>3, ReloadPatches
    <2>6. Dirty(s)' = Dirty(s) /\ b \notin Dirty(s)
      BY <1>4, <1>6 DEF Dirty
    <2>7. ASSUME NEW d \in Open(s)'
          PROVE  /\ d \in Record
                 /\ \E c \in Open(s) : /\ d.kind = c.kind /\ d.of = c.of /\ d.value = c.value /\ d.seen = c.seen
                                       /\ d.answer = c.answer /\ d.from = IF c.from = b THEN None ELSE c.from
      <3>1. d \in Patches(s)' /\ d.answer # "ok"
        BY DEF Open
      <3>2. d \in Record
        BY <3>1, ReloadIs DEF Patches, On, Wellformed
      <3> QED BY <2>2, <2>3, <3>1, <3>2 DEF Open
    <2>8. Open(s)' = {} => Open(s) = {}
      BY <2>4, <2>5 DEF Open
    <2>9. Awaited(s)'
      <3>1. ASSUME NEW d \in Patches(s)'
            PROVE  d.seen \in {None, TRUE} /\ (d.from = None => d.answer # "error")
        <4>1. \A c \in Patches(s) : c.seen \in {None, TRUE} /\ (c.from = None => c.answer # "error")
          BY <2>1 DEF Awaited
        <4>2. None # "error"
          BY <2>3
        <4> QED BY <2>2, <4>1, <4>2
      <3>2. ASSUME NEW d \in Patches(s)', d.from # None
            PROVE  /\ browser'[d.from].copy[s] = d.value /\ s \notin browser'[d.from].dirty
                   /\ \A e \in Patches(s)' : e.from = d.from => e = d
        <4>1. d \in Patches(s) /\ d.from # b
          BY <2>2, <3>2
        <4>2. d.from \in Browser
          BY <3>2, <4>1, PatchIs DEF Maybe
        <4>3. browser'[d.from] = browser[d.from]
          BY <1>6, <4>1, <4>2
        <4>4. \A e \in Patches(s)' : e.from = d.from => e \in Patches(s)
          BY <2>2, <3>2
        <4> QED BY <2>1, <3>2, <4>1, <4>3, <4>4 DEF Awaited
      <3> QED BY <3>1, <3>2 DEF Awaited
    <2>10. Complete(s)'
      <3>1. \A o \in Browser : browser'[o].copy[s] # None => browser'[o].copy[s] \subseteq wanted[s]
        BY <1>6, <2>1 DEF Complete
      <3>2. \A o \in Dirty(s) : browser'[o].copy[s] = wanted[s]
        BY <1>6, <2>1, <2>6 DEF Complete, Dirty
      <3>3. \A d \in Open(s)' : d.value = wanted[s]
        BY <2>1, <2>7 DEF Complete
      <3>4. ASSUME NEW d \in Open(s)', NEW e \in Open(s)'  PROVE d = e
        <4>1. PICK c \in Open(s) :
                 /\ d.kind = c.kind /\ d.of = c.of /\ d.value = c.value /\ d.seen = c.seen
                 /\ d.answer = c.answer /\ d.from = IF c.from = b THEN None ELSE c.from
          BY <2>7
        <4>2. /\ e.kind = c.kind /\ e.of = c.of /\ e.value = c.value /\ e.seen = c.seen
              /\ e.answer = c.answer /\ e.from = IF c.from = b THEN None ELSE c.from
          BY <2>1, <2>7 DEF Complete
        <4>3. d \in Record /\ e \in Record
          BY <2>7
        <4> QED BY <4>1, <4>2, <4>3 DEF Record
      <3>5. Dirty(s)' = {} \/ Open(s)' = {}
        BY <2>1, <2>6, <2>7 DEF Complete
      <3> QED BY <1>2, <1>4, <1>5, <2>1, <2>6, <2>8, <3>1, <3>2, <3>3, <3>4, <3>5 DEF Complete
    <2>11. Unseen(s)'
      <3>1. SUFFICES ASSUME Dirty(s) # {} \/ Open(s) # {}
                     PROVE  /\ Cells(s)' # wanted'[s]
                            /\ \A o \in Browser : browser'[o].copy[s] = wanted'[s] =>
                                 o \in Dirty(s)' \/ \E c \in Open(s)' : c.from = o
                            /\ \A c \in Told' : c.answer[2][s] # wanted'[s]
        BY <2>6, <2>7 DEF Unseen
      <3>2. ASSUME NEW o \in Browser, browser'[o].copy[s] = wanted[s]
            PROVE  o \in Dirty(s) \/ \E c \in Open(s)' : c.from = o
        <4>1. wanted[s] # None
          BY PageAssumption DEF Types
        <4>2. o # b /\ browser[o].copy[s] = wanted[s]
          BY <1>6, <3>2, <4>1
        <4>3. o \in Dirty(s) \/ \E c \in Open(s) : c.from = o
          BY <2>1, <3>1, <4>2 DEF Unseen
        <4> QED BY <2>4, <4>2, <4>3 DEF Open
      <3> QED BY <1>2, <1>4, <1>5, <2>1, <2>6, <3>1, <3>2 DEF Unseen
    <2> QED BY <1>4, <1>8, <2>9, <2>10, <2>11 DEF SheetKept
  <1> QED BY <1>7, <1>8

LEMMA SheetsOneKept ==
  ASSUME Types, DirtyShown, SheetsKept, Dropped, [Next]_vars
  PROVE  SheetsKept'
  <1>1. ASSUME User  PROVE SheetsKept'
    BY <1>1, RowWork, TabWork, ReloadSheets, EditCellSheets, Zenon DEF User
  <1>2. ASSUME Administrator  PROVE SheetsKept'
    <2>1. \A k \in Date, v \in Value \cup {None} : AskDate(k, v) => SheetsKept'
      BY RowWork DEF Maybe
    <2> QED BY <1>2, <2>1, TabWork, Zenon DEF Administrator
  <1>3. ASSUME Script  PROVE SheetsKept'
    BY <1>3, RowWork, SaveSheetSheets, LoadedSheets, SavedSheets, ClosedSheets, Zenon DEF Script
  <1>4. ASSUME Server  PROVE SheetsKept'
    BY <1>4, RowWork, LoadSheets, LookSheets, PatchSheets, MoveSheets, CreateSheets, DropSheets, Zenon DEF Server
  <1>5. ASSUME UNCHANGED vars  PROVE SheetsKept'
    <2>1. /\ sheets' = sheets /\ browser' = browser /\ calls' = calls /\ wanted' = wanted /\ raced' = raced
      BY <1>5 DEF vars, stored, ghosts
    <2>2. CallsSame /\ \A s \in Sheet : On(s)' = On(s)
      BY <2>1 DEF CallsSame, On
    <2> QED BY <2>1, <2>2, PagesAlike
  <1> QED BY <1>1, <1>2, <1>3, <1>4, <1>5, LoseSheets, Zenon DEF Next

\* A drop is answered by the step that excuses its sheet.
LEMMA DroppedKept ==
  ASSUME Types, Dropped, [Next]_vars
  PROVE  Dropped'
  <1> DEFINE Safe == raced \subseteq raced' /\ \A d \in calls' \ calls : d.kind = "drop" /\ d.answer # None =>
                       \/ d.of \in raced'
                       \/ \E c \in calls : c.kind = "drop" /\ c.answer # None /\ c.of = d.of
  <1>1. ASSUME NEW kind, NEW from, NEW of, NEW value, Send(kind, from, of, value)
        PROVE  \A d \in calls' \ calls : d.answer = None
    BY <1>1 DEF Send, Call
  <1>2. ASSUME User  PROVE Safe
    <2>1. \A b \in Browser, k \in Key : RemoveItem(b, k) => Safe
      BY <1>1, Zenon DEF RemoveItem, Want
    <2>2. \A b \in Browser, k \in Key, v \in Value : SetItem(b, k, v) => Safe
      BY DEF SetItem, Want
    <2>3. \A b \in Browser, mode \in {"db", "local"} : Reload(b, mode) => Safe
      <3>1. \A b \in Browser, mode \in {"db", "local"} : Reload(b, mode) => raced \subseteq raced'
        BY DEF Reload
      <3>2. ASSUME NEW b \in Browser, NEW mode \in {"db", "local"}, Reload(b, mode), NEW d \in calls' \ calls
            PROVE  d.answer = None
        BY <3>2, ReloadIs
      <3> QED BY <3>1, <3>2
    <2>4. \A b \in Browser : NewTab(b) \/ (\E s \in Sheet : CloseTab(b, s)) => Safe
      BY <1>1, Zenon DEF NewTab, CloseTab, ghosts
    <2>5. \A b \in Browser, s \in Sheet, x \in Cell : EditCell(b, s, x) => Safe
      BY DEF EditCell
    <2> QED BY <1>2, <2>1, <2>2, <2>3, <2>4, <2>5, Zenon DEF User
  <1>3. ASSUME Administrator  PROVE Safe
    <2>1. \A d, v : AskDate(d, v) => Safe
      BY <1>1 DEF AskDate
    <2>2. \A s, i : MoveTab(s, i) => Safe
      BY <1>1 DEF MoveTab, ghosts
    <2> QED BY <1>3, <2>1, <2>2, Zenon DEF Administrator
  <1>4. ASSUME Script  PROVE Safe
    <2>1. \A b \in Browser : Hide(b) => Safe
      <3>1. \A b \in Browser : Hide(b) => raced \subseteq raced'
        BY DEF Hide
      <3>2. ASSUME NEW b \in Browser, Hide(b), NEW d \in calls' \ calls
            PROVE  d.answer = None
        BY <3>2, FlushIs DEF Hide
      <3> QED BY <3>1, <3>2
    <2>2. \A b \in Browser, k \in Key : SaveItem(b, k) => Safe
      BY <1>1 DEF SaveItem
    <2>3. \A b \in Browser, s \in Sheet : SaveSheet(b, s) => Safe
      BY <1>1 DEF SaveSheet, ghosts
    <2>4. \A c \in calls : Loaded(c) \/ Saved(c) \/ Closed(c) => Safe
      BY DEF Loaded, Saved, Closed, ghosts
    <2> QED BY <1>4, <2>1, <2>2, <2>3, <2>4, Zenon DEF Script
  <1>5. ASSUME NEW c \in calls, Load(c)  PROVE Safe
    BY <1>5, LoadIs DEF Load, ghosts
  <1>6. ASSUME NEW c \in calls, Look(c)  PROVE Safe
    <2>1. PICK d : calls' = (calls \ {c}) \cup {d} /\ d.kind = c.kind /\ d.of = c.of /\ d.answer = c.answer
      BY <1>6, LookIs
    <2> QED BY <1>6, <2>1 DEF Look
  <1>7. ASSUME NEW c \in calls, PutRow(c) \/ DeleteRow(c) \/ MoveSheet(c)  PROVE Safe
    BY <1>7 DEF PutRow, DeleteRow, MoveSheet, Answer, ghosts
  <1>8. ASSUME NEW c \in calls, PatchSheet(c) \/ CreateSheet(c)  PROVE Safe
    <2>1. raced' = raced /\ c.kind \in {"patch", "post"} /\ c.kind \in Writes /\ Wellformed(c)
      BY <1>8 DEF PatchSheet, CreateSheet, ghosts, Writes, Types
    <2>2. PICK answer : /\ Answer(c, answer)
                        /\ IF c.kind = "patch" THEN answer \in {"ok", "error"} ELSE answer \in {"error"} \cup Sheet
      BY <1>8 DEF PatchSheet, CreateSheet
    <2>3. \A d \in calls' \ calls : d.kind = c.kind
      BY <2>1, <2>2, AnswerIs
    <2> QED BY <2>1, <2>3
  <1>9. ASSUME NEW c \in calls, DropSheet(c)  PROVE Safe
    <2>1. /\ raced' = raced \cup {c.of} /\ c.kind = "drop" /\ c.kind \in Writes /\ Wellformed(c)
          /\ Answer(c, IF c.seen THEN "ok" ELSE "error")
      BY <1>9 DEF DropSheet, Writes, Types
    <2>2. \A d \in calls' \ calls : d.of = c.of
      BY <2>1, AnswerIs
    <2> QED BY <2>1, <2>2
  <1>10. ASSUME NEW c \in calls, Lose(c)  PROVE Safe
    <2>1. raced \subseteq raced'
      BY <1>10 DEF Lose
    <2>2. \A d \in calls' \ calls : d.kind = "patch"
      <3>1. CASE c.kind = "patch"
        BY <1>10, <3>1, LoseIs
      <3>2. CASE c.kind # "patch"
        BY <1>10, <3>2 DEF Lose
      <3> QED BY <3>1, <3>2
    <2> QED BY <2>1, <2>2
  <1>11. ASSUME Server  PROVE Safe
    BY <1>5, <1>6, <1>7, <1>8, <1>9, <1>11, Zenon DEF Server
  <1>12. ASSUME UNCHANGED vars  PROVE Safe
    BY <1>12 DEF vars, ghosts
  <1>13. Safe
    BY <1>2, <1>3, <1>4, <1>10, <1>11, <1>12, Zenon DEF Next
  <1> QED BY <1>13 DEF Dropped

(* The beginning. *)

\* A sequence without doubles has as many elements as places.
LEMMA Settled ==
  ASSUME NEW S, NEW s \in Seq(S), \A i, j \in DOMAIN s : s[i] = s[j] => i = j
  PROVE  /\ IsFiniteSet(Range(s)) /\ Cardinality(Range(s)) = Len(s)
  <1>1. Range(s) = {s[i] : i \in 1..Len(s)}
    BY DEF Range
  <1> DEFINE f == [i \in 1..Len(s) |-> s[i]]
  <1>2. f \in Bijection(1..Len(s), Range(s))
    BY <1>1 DEF Bijection, Injection, Surjection, IsInjective
  <1>3. IsFiniteSet(1..Len(s)) /\ Cardinality(1..Len(s)) = Len(s)
    <2>1. Len(s) \in Nat /\ 1 \in Int /\ Len(s) \in Int
      OBVIOUS
    <2>2. IsFiniteSet(1..Len(s)) /\ Cardinality(1..Len(s)) = IF 1 > Len(s) THEN 0 ELSE Len(s) - 1 + 1
      BY <2>1, FS_Interval
    <2> QED BY <2>1, <2>2
  <1> HIDE DEF f
  <1>4. ExistsBijection(1..Len(s), Range(s))
    BY <1>2 DEF ExistsBijection
  <1> QED BY <1>3, <1>4, FS_Bijection

LEMMA FirstTabs ==
  ASSUME Init
  PROVE  /\ sheets \in [Sheet -> Maybe(Tab)] /\ Tabs = Range(Existing)
         /\ \A s \in Tabs : sheets[s].cells = {}
         /\ Distinct /\ Orders = 0..(Cardinality(Tabs) - 1)
  <1> DEFINE n == Len(Existing)
             place(s) == CHOOSE i \in 0..(n - 1) : Existing[i + 1] = s
  <1>1. n \in Nat /\ DOMAIN Existing = 1..n /\ \A i \in 1..n : Existing[i] \in Sheet
    BY PageAssumption
  <1>2. \A s \in Sheet : sheets[s] = IF s \in Range(Existing) THEN [order |-> place(s), cells |-> {}] ELSE None
    BY DEF Init
  <1>3. ASSUME NEW s \in Range(Existing)
        PROVE  s \in Sheet /\ place(s) \in 0..(n - 1) /\ Existing[place(s) + 1] = s
    <2>1. PICK i \in 1..n : s = Existing[i]
      BY <1>1 DEF Range
    <2>2. i - 1 \in 0..(n - 1) /\ Existing[(i - 1) + 1] = s
      BY <1>1, <2>1
    <2> QED BY <1>1, <2>1, <2>2
  <1>4. ASSUME NEW i \in 0..(n - 1)  PROVE Existing[i + 1] \in Range(Existing) /\ place(Existing[i + 1]) = i
    <2>1. i + 1 \in DOMAIN Existing
      BY <1>1
    <2>2. Existing[i + 1] \in Range(Existing)
      BY <2>1 DEF Range
    <2>3. place(Existing[i + 1]) + 1 \in DOMAIN Existing /\ Existing[place(Existing[i + 1]) + 1] = Existing[i + 1]
      BY <1>1, <1>3, <2>2
    <2>4. place(Existing[i + 1]) + 1 = i + 1
      BY <2>1, <2>3, PageAssumption
    <2>5. place(Existing[i + 1]) \in 0..(n - 1)
      BY <1>3, <2>2
    <2> QED BY <1>1, <2>2, <2>4, <2>5
  <1> HIDE DEF place
  <1>5. ASSUME NEW s \in Range(Existing)
        PROVE  s \in Sheet /\ sheets[s] \in Tab /\ sheets[s].order = place(s) /\ sheets[s].cells = {} /\ sheets[s] # None
    <2>1. s \in Sheet /\ place(s) \in Nat /\ sheets[s] = [order |-> place(s), cells |-> {}]
      BY <1>1, <1>2, <1>3
    <2> QED BY <2>1, PageAssumption DEF Tab
  <1>6. Tabs = Range(Existing)
    BY <1>2, <1>3, <1>5 DEF Tabs
  <1>7. sheets \in [Sheet -> Maybe(Tab)]
    BY <1>2, <1>5 DEF Init, Maybe
  <1>8. Distinct
    BY <1>3, <1>5, <1>6 DEF Distinct
  <1>9. Orders = 0..(n - 1)
    <2>1. \A o \in Orders : o \in 0..(n - 1)
      BY <1>3, <1>5, <1>6 DEF Orders
    <2>2. \A i \in 0..(n - 1) : i \in Orders
      BY <1>4, <1>5, <1>6 DEF Orders
    <2> QED BY <2>1, <2>2
  <1>10. Cardinality(Tabs) = n
    BY <1>6, Settled, PageAssumption
  <1> QED BY <1>5, <1>6, <1>7, <1>8, <1>9, <1>10

LEMMA FirstIs ==
  ASSUME Init
  PROVE  Inductive
  <1> USE DEF Init
  <1>1. \A b \in Browser : /\ browser[b] \in Pages /\ browser[b].dirty = {} /\ browser[b].local = [k \in Key |-> None]
                           /\ browser[b].timer = [k \in Key |-> None]
                           /\ browser[b].copy = [s \in Sheet |-> Cells(s)]
    <2>1. \A s \in Sheet : Cells(s) \in Maybe(SUBSET Cell)
      BY FirstTabs DEF Cells, Tabs, Maybe
    <2> QED BY <2>1 DEF Page, Pages, Maybe
  <1>2. /\ \A x \in Keyed \cup Sheet : wanted[x] = IF x \in Sheet THEN {} ELSE None
        /\ \A x \in Keyed : wanted[x] = None
        /\ \A s \in Sheet : wanted[s] = {}
    BY PageAssumption
  <1>3. browser \in [Browser -> Pages]
    BY <1>1
  <1>4. Types
    <2>1. wanted \in [Keyed \cup Sheet -> Maybe(Value) \cup SUBSET Cell]
      BY <1>2 DEF Maybe
    <2>2. table \in [Keyed -> Maybe(Value)] /\ shown \in [Key -> Maybe(Browser)] /\ gap \in BOOLEAN /\ raced = {} /\ calls = {}
      BY DEF Maybe
    <2> QED BY <1>2, <1>3, <2>1, <2>2, FirstTabs DEF Types, Maybe
  <1>5. DirtyShown
    BY <1>1 DEF DirtyShown
  <1>6. Places
    BY FirstTabs DEF Places, Counting
  <1>7. \A x : On(x) = {}
    BY DEF On
  <1>8. \A k \in Key : k \in Keyed
    BY DEF Keyed
  <1>9. RowsKept
    <2> HIDE DEF Init
    <2>1. \A k \in Key, b \in Browser : browser[b].timer[k] = None
      <3>1. ASSUME NEW k \in Key, NEW b \in Browser  PROVE browser[b].timer[k] = None
        <4>1. browser[b].timer = [x \in Key |-> None]
          BY <1>1
        <4> QED BY <4>1
      <3> QED BY <3>1
    <2>2. \A k \in Keyed : Timed(k) = {}
      BY <2>1 DEF Timed
    <2>3. \A k \in Keyed : table[k] = None
      BY DEF Init
    <2> QED BY <1>2, <1>7, <2>2, <2>3 DEF RowsKept, RowKept
  <1>10. ShowsKept
    BY DEF ShowsKept, ShowKept
  <1>11. SheetsKept
    <2>1. ASSUME NEW s \in Sheet  PROVE SheetKept(s)
      <3>1. Patches(s) = {} /\ Open(s) = {} /\ Dirty(s) = {} /\ Told = {}
        BY <1>1, <1>7 DEF Patches, Open, Dirty, Told
      <3> HIDE DEF Init
      <3>2. \A b \in Browser : browser[b].copy[s] = Cells(s)
        BY <1>1
      <3>3. CASE s \in Tabs
        <4>1. Cells(s) = {}
          BY <3>3, FirstTabs DEF Cells, Tabs
        <4> QED BY <1>2, <3>1, <3>2, <3>3, <4>1 DEF SheetKept, Awaited, Complete, Unseen
      <3>4. CASE s \notin Tabs
        <4>1. Cells(s) = None
          BY <3>4 DEF Cells, Tabs
        <4>2. calls = {}
          BY DEF Init
        <4> QED BY <1>2, <1>7, <3>1, <3>2, <3>4, <4>1, <4>2 DEF SheetKept, Unknown
      <3> QED BY <3>3, <3>4
    <2> QED BY <2>1 DEF SheetsKept
  <1>12. Dropped
    BY DEF Dropped
  <1> QED BY <1>4, <1>5, <1>6, <1>9, <1>10, <1>11, <1>12, FirstTabs DEF Inductive
-----------------------------------------------------------------------------
\* Every step of browsers, handlers, administrators and the network keeps the invariant:
\* what is stored, timed, under way, shown and excused fits together.
THEOREM PageInductive == Spec => []Inductive
  <1>1. Inductive /\ [Next]_vars => Inductive'
    BY TypesKept, DistinctKept, DirtyShownKept, PlacesKept, RowsShowsKept, SheetsOneKept, DroppedKept DEF Inductive
  <1> QED BY FirstIs, <1>1, PTL DEF Spec

\* The stored rows, the sheets and their unique orders and the pages are what the code
\* takes them for; a sheet whose save is scheduled is one that the browser shows.
THEOREM PageTypes == Spec => []TypeOK
  <1>1. Inductive => TypeOK
    BY DEF Inductive, Types, Distinct, DirtyShown, TypeOK, Pages, Tab, Maybe
  <1> QED BY <1>1, PageInductive, PTL

\* tracking-ui-state.js and the calendar: a setting or a day is stored as it was last
\* set once nothing about it is pending, and the browser that set it shows it, over
\* timers, flushes, reloads and lookups that are old when the row is written.
THEOREM PageRows == Spec => []RowsSaved
  <1>1. Inductive => RowsSaved
    <2> SUFFICES ASSUME Inductive  PROVE RowsSaved
      OBVIOUS
    <2>1. ASSUME NEW k \in Keyed \ raced, On(k) = {}, \A b \in Browser : k \notin Pending(b)
          PROVE  table[k] = wanted[k]
      <3>1. Timed(k) = {}
        BY <2>1 DEF Timed, Pending
      <3> QED BY <2>1, <3>1 DEF Inductive, RowsKept, RowKept
    <2>2. ASSUME NEW k \in Key \ raced, shown[k] # None
          PROVE  browser[shown[k]].local[k] = wanted[k]
      BY <2>2 DEF Inductive, ShowsKept, ShowKept
    <2> QED BY <2>1, <2>2 DEF RowsSaved
  <1> QED BY <1>1, PageInductive, PTL

\* scheduleCustomSheetSave: no cell is lost, though a save sends the whole sheet, its
\* answer replaces what is shown, and a save that failed is scheduled again.
THEOREM PageSheets == Spec => []SheetsSaved
  <1>1. Inductive => SheetsSaved
    <2> SUFFICES ASSUME Inductive, NEW s \in Tabs \ raced, On(s) = {}, \A b \in Browser : s \notin browser[b].dirty
                 PROVE  Cells(s) = wanted[s]
      BY DEF SheetsSaved
    <2>1. Dirty(s) = {} /\ Open(s) = {}
      BY DEF Dirty, Open, Patches
    <2> QED BY <2>1 DEF Inductive, SheetsKept, SheetKept, Complete, Tabs
  <1> QED BY <1>1, PageInductive, PTL

\* create_custom_sheet: the number of sheets that the handler has counted is still a
\* free place when it inserts its own, unless tabs were deleted, moved or created meanwhile.
THEOREM PageTabs == Spec => []NewTabFits
  <1>1. Inductive => NewTabFits
    <2> SUFFICES ASSUME Inductive, ~gap
                 PROVE  Orders = 0..(Cardinality(Tabs) - 1) /\ \A c \in Counting : c.seen \notin Orders
      BY DEF NewTabFits
    <2>1. Orders = 0..(Cardinality(Tabs) - 1) /\ \A c \in Counting : c.seen = Cardinality(Tabs)
      BY DEF Inductive, Places
    <2>2. Cardinality(Tabs) \in Nat
      BY TabsFinite
    <2> QED BY <2>1, <2>2
  <1> QED BY <1>1, PageInductive, PTL

-----------------------------------------------------------------------------
(* The lists of the summary. *)

\* A set of numbers that is not empty has a least one, if it is bounded a largest.
LEMMA LeastNumber ==
  ASSUME NEW N, N \subseteq Nat, N # {}
  PROVE  \E x \in N : \A n \in N : x <= n
  <1> DEFINE R == {ss \in Nat \X Nat : ss[1] < ss[2]}
  <1>1. IsWellFoundedOn(R, Nat)
    BY NatLessThanWellFounded DEF OpToRel
  <1> HIDE DEF R
  <1>2. PICK x \in N : \A y \in N : ~(<<y, x>> \in R)
    BY <1>1, WFMin
  <1>3. ASSUME NEW y \in N  PROVE x <= y
    <2>1. x \in Nat /\ y \in Nat /\ ~(y < x)
      BY <1>2 DEF R
    <2> QED BY <2>1
  <1> QED BY <1>3

LEMMA LargestNumber ==
  ASSUME NEW n \in Nat, NEW N, N \subseteq 0 .. n, N # {}
  PROVE  \E x \in N : \A m \in N : m <= x
  <1> DEFINE T == {n - x : x \in N}
  <1>1. T \subseteq Nat /\ T # {}
    <2>1. \A x \in N : n - x \in Nat
      OBVIOUS
    <2> QED BY <2>1
  <1> HIDE DEF T
  <1>2. PICK t \in T : \A m \in T : t <= m
    BY <1>1, LeastNumber
  <1>3. PICK x \in N : t = n - x
    BY DEF T
  <1>4. \A m \in N : n - m \in T
    BY DEF T
  <1> QED BY <1>2, <1>3, <1>4

\* A property that passes from all smaller subsets to a subset of a finite set holds of all
\* of them: if it fails of one, it fails of one whose subsets have it.
LEMMA SmallestSubset ==
  ASSUME NEW S, IsFiniteSet(S), NEW F, F \subseteq SUBSET S, F # {}
  PROVE  \E T \in F : \A U \in F : U \subseteq T => U = T
  <1>1. IsWellFoundedOn(StrictSubsetOrdering(S), SUBSET S)
    BY FS_StrictSubsetOrderingWellFounded, FS_FiniteSubsetsOfFinite
  <1>2. PICK T \in F : \A U \in F : ~(<<U, T>> \in StrictSubsetOrdering(S))
    BY <1>1, WFMin
  <1> QED BY <1>2 DEF StrictSubsetOrdering

\* The sum of the sizes of disjoint sets, added one by one, is the size of their union.
Parts(D, S, B) == /\ IsFiniteSet(S) /\ IsFiniteSet(B)
                  /\ \A x \in S : D[x] \subseteq B
                  /\ \A x, y \in S : x # y => D[x] \cap D[y] = {}
Total(D, T) == Cardinality(UNION {D[x] : x \in T})
OneByOne(D, S) == \A T \in SUBSET S : \A x \in T : Total(D, T) = Total(D, T \ {x}) + Cardinality(D[x])
Adding(h, D, S) ==
  h = [T \in SUBSET S |-> IF T = {} THEN 0
                          ELSE h[T \ {CHOOSE x \in T : TRUE}] + Cardinality(D[CHOOSE x \in T : TRUE])]

LEMMA TotalOfOneMore ==
  ASSUME NEW S, NEW B, NEW D, Parts(D, S, B)
  PROVE  OneByOne(D, S)
  <1> SUFFICES ASSUME NEW T \in SUBSET S, NEW x \in T
               PROVE  Total(D, T) = Total(D, T \ {x}) + Cardinality(D[x])
    BY DEF OneByOne
  <1> DEFINE U == UNION {D[y] : y \in T \ {x}}
  <1>1. UNION {D[y] : y \in T} = U \cup D[x]
    OBVIOUS
  <1>2. U \subseteq B /\ D[x] \subseteq B
    BY DEF Parts
  <1>3. U \cap D[x] = {}
    BY DEF Parts
  <1>4. IsFiniteSet(U) /\ IsFiniteSet(D[x])
    BY <1>2, FS_Subset DEF Parts
  <1>5. Cardinality(U) \in Nat /\ Cardinality(D[x]) \in Nat
    BY <1>4, FS_CardinalityType
  <1> HIDE DEF U
  <1>6. Cardinality(U \cup D[x]) = Cardinality(U) + Cardinality(D[x]) - Cardinality(U \cap D[x])
    BY <1>4, FS_Union
  <1>7. Cardinality(U \cup D[x]) = Cardinality(U) + Cardinality(D[x])
    <2>1. Cardinality(U \cap D[x]) = 0
      BY <1>3, FS_EmptySet
    <2> QED BY <1>5, <1>6, <2>1
  <1> QED BY <1>1, <1>7 DEF Total, U

LEMMA SumOfSizes ==
  ASSUME NEW S, NEW B, NEW D, Parts(D, S, B)
  PROVE  /\ \E h : Adding(h, D, S)
         /\ \A h : Adding(h, D, S) => h[S] = Total(D, S)
  <1>0. Total(D, {}) = 0
    <2>1. UNION {D[x] : x \in {}} = {}
      OBVIOUS
    <2> QED BY <2>1, FS_EmptySet DEF Total
  <1>1. ASSUME NEW T, T \subseteq S, T # {}
        PROVE  Total(D, T) = Total(D, T \ {CHOOSE x \in T : TRUE}) + Cardinality(D[CHOOSE x \in T : TRUE])
    <2>1. (CHOOSE x \in T : TRUE) \in T
      BY <1>1
    <2>2. OneByOne(D, S)
      BY TotalOfOneMore
    <2> QED BY <1>1, <2>1, <2>2 DEF OneByOne
  <1>2. Adding([T \in SUBSET S |-> Total(D, T)], D, S)
    BY <1>0, <1>1 DEF Adding
  <1>3. ASSUME NEW h, Adding(h, D, S)
        PROVE  h[S] = Total(D, S)
    <2> DEFINE F == {T \in SUBSET S : h[T] # Total(D, T)}
    <2>1. ASSUME F # {}  PROVE FALSE
      <3>1. PICK T \in F : \A U \in F : U \subseteq T => U = T
        <4>1. F \subseteq SUBSET S
          OBVIOUS
        <4> HIDE DEF F
        <4> QED BY <2>1, <4>1, SmallestSubset DEF Parts
      <3>2. T \subseteq S /\ h[T] # Total(D, T)
        BY <3>1
      <3>3. T # {}
        BY <1>0, <1>3, <3>2 DEF Adding
      <3> DEFINE x == CHOOSE x \in T : TRUE
      <3>4. x \in T
        BY <3>3
      <3>5. T \ {x} \notin F
        BY <3>1, <3>4
      <3>6. h[T \ {x}] = Total(D, T \ {x})
        BY <3>2, <3>5
      <3>7. h[T] = h[T \ {x}] + Cardinality(D[x])
        BY <1>3, <3>2, <3>3 DEF Adding
      <3> QED BY <1>1, <3>2, <3>3, <3>6, <3>7
    <2> QED BY <2>1
  <1> QED BY <1>2, <1>3

CountSum(S, s) == Sum(S, LAMBDA r : r.count[s])
PassedSum(S)   == Sum(S, LAMBDA c : c.passed)
BlockedSum(S)  == Sum(S, LAMBDA c : c.blocked)

LEMMA SumOfCounts ==
  ASSUME NEW S, NEW B, NEW D, Parts(D, S, B),
         NEW s, \A x \in S : x.count[s] = Cardinality(D[x])
  PROVE  CountSum(S, s) = Total(D, S)
  <1> DEFINE Q(h) == h = [T \in SUBSET S |-> IF T = {} THEN 0
                          ELSE h[T \ {CHOOSE x \in T : TRUE}] + (CHOOSE x \in T : TRUE).count[s]]
  <1>1. ASSUME NEW h  PROVE Q(h) <=> Adding(h, D, S)
    <2>1. \A T \in SUBSET S : T # {} => (CHOOSE x \in T : TRUE) \in S
      OBVIOUS
    <2> QED BY <2>1 DEF Adding
  <1>2. CountSum(S, s) = (CHOOSE h : Q(h))[S]
    BY DEF CountSum, Sum, FoldSet, MapThenFoldSet
  <1> HIDE DEF Q
  <1>3. Q(CHOOSE h : Q(h))
    BY <1>1, SumOfSizes
  <1> QED BY <1>1, <1>2, <1>3, SumOfSizes

\* What the sheets of entities are: lists of rows that have identifiers.
Listed(rows) ==
  /\ Len(rows) \in Nat /\ DOMAIN rows = 1 .. Len(rows)
  /\ IsFiniteSet(DOMAIN rows)
  /\ \A k \in DOMAIN rows : rows[k] # None /\ rows[k].id \in Nat /\ rows[k].id # None

LEMMA EntityListed ==
  ASSUME NEW e \in Entity
  PROVE  Listed(e.round) /\ Listed(e.run) /\ Listed(e.result) /\ Listed(e.defect)
  <1>1. ASSUME NEW t \in {"round", "run", "result", "defect"}
        PROVE  Listed(e[t])
    <2> DEFINE rows == e[t]
    <2>1. /\ rows \in Seq(Range(rows)) /\ None \notin Range(rows)
          /\ \A k \in DOMAIN rows : rows[k].id \in Nat
      BY EntityAssumption
    <2> HIDE DEF rows
    <2>2. Len(rows) \in Nat /\ DOMAIN rows = 1 .. Len(rows)
      BY <2>1
    <2>3. IsFiniteSet(DOMAIN rows)
      BY <2>2, FS_Interval
    <2>4. \A k \in DOMAIN rows : rows[k] # None
      BY <2>1 DEF Range
    <2>5. \A k \in DOMAIN rows : rows[k].id # None
      BY <2>1, PageAssumption
    <2>6. Listed(rows)
      BY <2>1, <2>2, <2>3, <2>4, <2>5 DEF Listed
    <2> QED BY <2>6 DEF rows
  <1> QED BY <1>1

\* A dictionary has, of an identifier that occurs, one of its rows: if there is only one
\* row, that one.
LEMMA RowFacts ==
  ASSUME NEW rows, Listed(rows), NEW i
  PROVE  /\ Row(rows, i) # None => \E k \in DOMAIN rows : rows[k].id = i /\ Row(rows, i) = rows[k]
         /\ \A k \in DOMAIN rows : rows[k].id = i => Row(rows, i) # None
         /\ \A k \in DOMAIN rows : rows[k].id = i /\ Single(rows, k) => Row(rows, i) = rows[k]
  <1> DEFINE found == {k \in DOMAIN rows : rows[k].id = i}
  <1>1. Row(rows, i) = IF found = {} THEN None ELSE rows[Max(found)]
    BY DEF Row
  <1>2. ASSUME found # {}  PROVE Max(found) \in found
    <2>1. found \subseteq 0 .. Len(rows) /\ Len(rows) \in Nat
      BY DEF Listed
    <2> HIDE DEF found
    <2>2. \E x \in found : \A m \in found : m <= x
      BY <1>2, <2>1, LargestNumber
    <2>3. \E x \in found : \A m \in found : x >= m
      BY <2>1, <2>2
    <2> QED BY <2>3 DEF Max
  <1> QED BY <1>1, <1>2 DEF Listed, Single

\* The lines of the lists.
RunLine(e, j) ==
  [row |-> j, id |-> e.run[j].id, release |-> e.run[j].round,
   parent |-> resolve_parent_release(e.run[j].round),
   status |-> derive_rollup_status({s \in Counted : RunCount(e, e.run[j].id, s) > 0}),
   own |-> normalize_status(e.run[j].status),
   count |-> [s \in Counted |-> RunCount(e, e.run[j].id, s)],
   total |-> Cardinality(ResultsOf(e, e.run[j].id)),
   planned |-> resolve_release_work_period(e, e.run[j].round),
   target |-> logical_target_from_release(e.run[j]),
   config |-> e.run[j].config]
Lines(e) == {i \in DOMAIN e.run : ResultsOf(e, e.run[i].id) # {}}

CaseRows(e, key) == {k \in DOMAIN e.result : CaseKey(e, k) = key}
With(e, key, s) == Cardinality({k \in CaseRows(e, key) : normalize_status(e.result[k].status) = s})
OpenOf(e, key) == {d \in DOMAIN e.defect :
                     /\ e.defect[d].status = "opened"
                     /\ e.defect[d].result \in {e.result[k].id : k \in CaseRows(e, key)}}
CaseLine(e, key) ==
  [release |-> key[1], case |-> key[2], total |-> Cardinality(CaseRows(e, key)),
   passed |-> With(e, key, "PASSED"), blocked |-> With(e, key, "BLOCKED"), testing |-> With(e, key, "TESTING"),
   runs |-> {e.result[k].run : k \in CaseRows(e, key)}, defects |-> OpenOf(e, key)]
DefectLine(e, k) ==
  [id |-> e.defect[k].id, result |-> e.defect[k].result,
   release |-> resolve_parent_release(RoundOfResult(e, e.defect[k].result))]
JudgedLine(e, k) ==
  [row |-> k, case |-> CaseOfProcedure(e, e.judged[k].procedure),
   status |-> normalize_status(e.judged[k].status),
   release |-> resolve_parent_release(RoundOfResult(e, e.judged[k].result))]
Direct(e, row) == IF row.result = None THEN None ELSE RoundOfResult(e, row.result)
DefectsOf(e, row) == {k \in DOMAIN e.defect : row.defect # None /\ e.defect[k].id = row.defect}
ShownAt(e, row) == IF Direct(e, row) # None \/ DefectsOf(e, row) = {} THEN Direct(e, row)
                   ELSE RoundOfResult(e, e.defect[Min(DefectsOf(e, row))].result)
EvidenceLine(e, k) == [row |-> k, release |-> ShownAt(e, e.evidence[k])]

LEMMA LinesOfLists ==
  ASSUME NEW e
  PROVE  /\ Runs(e) = {RunLine(e, j) : j \in Lines(e)}
         /\ ResultsSummary(e) = {CaseLine(e, CaseKey(e, k)) : k \in DOMAIN e.result}
         /\ ActiveDefects(e) = {DefectLine(e, k) : k \in {j \in DOMAIN e.defect : e.defect[j].status = "opened"}}
         /\ ProcedureResults(e) = {JudgedLine(e, k) : k \in DOMAIN e.judged}
         /\ Evidence(e) = {EvidenceLine(e, k) : k \in DOMAIN e.evidence}
  <1>1. Runs(e) = {RunLine(e, j) : j \in Lines(e)}
    BY DEF Runs, RunLine, Lines
  <1>2. ResultsSummary(e) = {CaseLine(e, CaseKey(e, k)) : k \in DOMAIN e.result}
    BY DEF ResultsSummary, CaseLine, CaseRows, With, OpenOf
  <1>3. ActiveDefects(e) = {DefectLine(e, k) : k \in {j \in DOMAIN e.defect : e.defect[j].status = "opened"}}
    BY DEF ActiveDefects, DefectLine
  <1>4. ProcedureResults(e) = {JudgedLine(e, k) : k \in DOMAIN e.judged}
    BY DEF ProcedureResults, JudgedLine
  <1>5. Evidence(e) = {EvidenceLine(e, k) : k \in DOMAIN e.evidence}
    BY DEF Evidence, EvidenceLine, ShownAt, Direct, DefectsOf
  <1> QED BY <1>1, <1>2, <1>3, <1>4, <1>5

\* What relates rows one to one: an open defect and the case of its result, evidence
\* and judgements of one result, a run and the worst of its results, configurations.
RunsAgree(e) ==
  /\ \A r \in Runs(e) : r.count["FAILED"] > 0 => r.status = "FAILED"
  /\ Configs(e) = {r.config : r \in Runs(e)} \ {None}

LEMMA DefectsListed ==
  ASSUME NEW e \in Entity
  PROVE  DefectsAgree(e)
  <1> SUFFICES ASSUME NEW d \in ActiveDefects(e), Row(e.result, d.result) # None
               PROVE  \E c \in ResultsSummary(e) : c.release = d.release /\ d.id \in {e.defect[k].id : k \in c.defects}
    BY DEF DefectsAgree
  <1>1. PICK k \in DOMAIN e.defect : e.defect[k].status = "opened" /\ d = DefectLine(e, k)
    BY LinesOfLists
  <1>2. d.id = e.defect[k].id /\ d.result = e.defect[k].result /\ d.release = RoundOfResult(e, d.result)
    BY <1>1 DEF DefectLine, resolve_parent_release
  <1>3. PICK m \in DOMAIN e.result : e.result[m].id = d.result /\ Row(e.result, d.result) = e.result[m]
    BY EntityListed, RowFacts
  <1>4. d.release = CaseKey(e, m)[1]
    BY <1>2, <1>3 DEF RoundOfResult, CaseKey, resolve_parent_release
  <1> DEFINE c == CaseLine(e, CaseKey(e, m))
  <1>5. c \in ResultsSummary(e)
    BY LinesOfLists
  <1>6. c.release = CaseKey(e, m)[1] /\ c.defects = OpenOf(e, CaseKey(e, m))
    BY DEF CaseLine
  <1>7. k \in OpenOf(e, CaseKey(e, m))
    BY <1>1, <1>2, <1>3 DEF OpenOf, CaseRows
  <1> HIDE DEF c
  <1> QED BY <1>2, <1>4, <1>5, <1>6, <1>7

LEMMA EvidenceListed ==
  ASSUME NEW e \in Entity
  PROVE  EvidenceAgrees(e)
  <1> SUFFICES ASSUME NEW x \in Evidence(e)
               PROVE  /\ \A p \in ProcedureResults(e) :
                           e.evidence[x.row].result # None /\ e.judged[p.row].result = e.evidence[x.row].result
                           /\ p.release # None => x.release = p.release
                      /\ \A d \in ActiveDefects(e) :
                           Unique(e.defect) /\ e.evidence[x.row].defect = d.id /\ e.evidence[x.row].result = None
                           => x.release = d.release
    BY DEF EvidenceAgrees
  <1>1. PICK j \in DOMAIN e.evidence : x = EvidenceLine(e, j)
    BY LinesOfLists
  <1>2. x.release = ShownAt(e, e.evidence[x.row])
    BY <1>1 DEF EvidenceLine
  <1> DEFINE row == e.evidence[x.row]
  <1> HIDE DEF row
  <1>3. ASSUME NEW p \in ProcedureResults(e), row.result # None,
               e.judged[p.row].result = row.result, p.release # None
        PROVE  x.release = p.release
    <2>1. PICK k \in DOMAIN e.judged : p = JudgedLine(e, k)
      BY LinesOfLists
    <2>2. p.release = RoundOfResult(e, e.judged[p.row].result)
      BY <2>1 DEF JudgedLine, resolve_parent_release
    <2> QED BY <1>2, <1>3, <2>2 DEF row, ShownAt, Direct
  <1>4. ASSUME NEW d \in ActiveDefects(e), Unique(e.defect), row.defect = d.id, row.result = None
        PROVE  x.release = d.release
    <2>1. PICK k \in DOMAIN e.defect : d = DefectLine(e, k)
      BY LinesOfLists
    <2>2. d.id = e.defect[k].id /\ d.release = RoundOfResult(e, e.defect[k].result)
      BY <2>1 DEF DefectLine, resolve_parent_release
    <2>3. e.defect[k].id # None /\ k \in Nat
      BY EntityListed DEF Listed
    <2>4. DefectsOf(e, row) = {k}
      BY <1>4, <2>2, <2>3 DEF Unique, Single, DefectsOf
    <2>5. Min({k}) = k
      BY <2>3 DEF Min
    <2>6. Direct(e, row) = None
      BY <1>4 DEF Direct
    <2> QED BY <1>2, <2>2, <2>4, <2>5, <2>6 DEF ShownAt, row
  <1> QED BY <1>3, <1>4 DEF row

LEMMA RunsListed ==
  ASSUME NEW e
  PROVE  RunsAgree(e)
  <1>1. ASSUME NEW r \in Runs(e), r.count["FAILED"] > 0
        PROVE  r.status = "FAILED"
    <2>1. PICK j \in Lines(e) : r = RunLine(e, j)
      BY LinesOfLists
    <2> DEFINE statuses == {s \in Counted : RunCount(e, e.run[j].id, s) > 0}
               present  == {k \in DOMAIN Canonical : Canonical[k] \in statuses}
    <2>2. r.status = derive_rollup_status(statuses) /\ r.count = [s \in Counted |-> RunCount(e, e.run[j].id, s)]
      BY <2>1 DEF RunLine
    <2>3. DOMAIN Canonical = 1 .. 6 /\ Canonical[1] = "FAILED"
      BY DEF Canonical
    <2>4. "FAILED" \in Counted
      BY <2>3 DEF Counted, Range
    <2>5. "FAILED" \in statuses
      BY <1>1, <2>2, <2>4
    <2> HIDE DEF statuses
    <2>6. 1 \in present /\ present \subseteq 1 .. 6
      BY <2>3, <2>5
    <2>7. derive_rollup_status(statuses) = Canonical[Min(present)]
      BY <2>6 DEF derive_rollup_status
    <2> HIDE DEF present
    <2>8. Min(present) = 1
      <3>1. \A x \in present : 1 =< x
        BY <2>6
      <3>2. \A x \in present : (\A y \in present : x =< y) => x = 1
        BY <2>6
      <3> QED BY <2>6, <3>1, <3>2 DEF Min
    <2> QED BY <2>2, <2>3, <2>7, <2>8
  <1>2. \A j : RunLine(e, j).config = e.run[j].config
    BY DEF RunLine
  <1>3. Configs(e) = {r.config : r \in Runs(e)} \ {None}
    <2>1. Configs(e) = {e.run[j].config : j \in Lines(e)} \ {None}
      BY DEF Configs, Lines
    <2>2. {r.config : r \in Runs(e)} = {RunLine(e, j).config : j \in Lines(e)}
      BY LinesOfLists
    <2> QED BY <1>2, <2>1, <2>2
  <1> QED BY <1>1, <1>3 DEF RunsAgree

-----------------------------------------------------------------------------
(* The status of a release. *)

\* In a finite set every order has a last element.
LEMMA LastOfOrder ==
  ASSUME NEW D, IsFiniteSet(D), NEW R,
         \A x, y \in D : x # y => <<x, y>> \in R \/ <<y, x>> \in R,
         \A x, y, z \in D : <<x, y>> \in R /\ <<y, z>> \in R => <<x, z>> \in R,
         NEW S \in SUBSET D, S # {}
  PROVE  \E x \in S : \A y \in S \ {x} : <<y, x>> \in R
  <1> DEFINE last(T, x) == \A y \in T \ {x} : <<y, x>> \in R
             F == {T \in SUBSET D : T # {} /\ \A x \in T : ~last(T, x)}
  <1>1. ASSUME F # {}  PROVE FALSE
    <2>1. F \subseteq SUBSET D
      OBVIOUS
    <2>2. PICK T \in F : \A U \in F : U \subseteq T => U = T
      <3> HIDE DEF F
      <3> QED BY <1>1, <2>1, SmallestSubset
    <2>3. T \subseteq D /\ T # {} /\ \A x \in T : ~last(T, x)
      BY <2>2
    <2>4. PICK x \in T : TRUE
      BY <2>3
    <2>5. T \ {x} \notin F
      <3>1. T \ {x} \subseteq T /\ T \ {x} # T
        BY <2>4
      <3> HIDE DEF F
      <3> QED BY <2>2, <3>1
    <2>6. T \ {x} # {}
      BY <2>3, <2>4
    <2>7. PICK z \in T \ {x} : last(T \ {x}, z)
      BY <2>3, <2>5, <2>6
    <2>8. CASE <<x, z>> \in R
      <3>1. last(T, z)
        BY <2>7, <2>8
      <3> QED BY <2>3, <2>7, <3>1
    <2>9. CASE <<z, x>> \in R
      <3>1. ASSUME NEW y \in T \ {x}  PROVE <<y, x>> \in R
        <4>1. CASE y = z
          BY <2>9, <4>1
        <4>2. CASE y # z
          <5>1. <<y, z>> \in R
            BY <2>7, <4>2
          <5> QED BY <2>3, <2>4, <2>7, <2>9, <5>1
        <4> QED BY <4>1, <4>2
      <3>2. last(T, x)
        BY <3>1
      <3> QED BY <2>3, <2>4, <3>2
    <2> QED BY <2>3, <2>4, <2>7, <2>8, <2>9
  <1> QED BY <1>1

\* So rounds have a first one and a last one.
FirstOf(rounds, S, k) == k \in S /\ \A j \in S \ {k} : Before(rounds, k, j)
LastOf(rounds, S, k)  == k \in S /\ \A j \in S \ {k} : Before(rounds, j, k)

LEMMA BeforeOrder ==
  ASSUME NEW rounds, Listed(rounds), NEW j \in DOMAIN rounds, NEW k \in DOMAIN rounds
  PROVE  /\ j # k => Before(rounds, j, k) \/ Before(rounds, k, j)
         /\ Before(rounds, j, k) => ~Before(rounds, k, j)
         /\ \A i \in DOMAIN rounds : Before(rounds, i, j) /\ Before(rounds, j, k) => Before(rounds, i, k)
  <1>1. \A i \in DOMAIN rounds : i \in Nat /\ rounds[i].id \in Nat
    BY DEF Listed
  <1> QED BY <1>1 DEF Before

LEMMA RoundsOrdered ==
  ASSUME NEW rounds, Listed(rounds), NEW S \in SUBSET DOMAIN rounds, S # {}
  PROVE  /\ \E k : FirstOf(rounds, S, k)
         /\ \E k : LastOf(rounds, S, k)
         /\ LastOf(rounds, S, LastRound(rounds, S))
  <1> DEFINE D == DOMAIN rounds
             R == {x \in D \X D : Before(rounds, x[1], x[2])}
             Q == {x \in D \X D : Before(rounds, x[2], x[1])}
  <1>1. IsFiniteSet(D)
    BY DEF Listed
  <1>2. \A x, y \in D : <<x, y>> \in R <=> Before(rounds, x, y)
    OBVIOUS
  <1>3. \A x, y \in D : <<x, y>> \in Q <=> Before(rounds, y, x)
    OBVIOUS
  <1> HIDE DEF R, Q
  <1>4. /\ \A x, y \in D : x # y => <<x, y>> \in R \/ <<y, x>> \in R
        /\ \A x, y, z \in D : <<x, y>> \in R /\ <<y, z>> \in R => <<x, z>> \in R
    BY <1>2, BeforeOrder
  <1>5. /\ \A x, y \in D : x # y => <<x, y>> \in Q \/ <<y, x>> \in Q
        /\ \A x, y, z \in D : <<x, y>> \in Q /\ <<y, z>> \in Q => <<x, z>> \in Q
    BY <1>3, BeforeOrder
  <1>6. \E x \in S : \A y \in S \ {x} : <<y, x>> \in R
    BY <1>1, <1>4, LastOfOrder
  <1>7. \E x \in S : \A y \in S \ {x} : <<y, x>> \in Q
    BY <1>1, <1>5, LastOfOrder
  <1>8. \E k \in S : \A j \in S \ {k} : Before(rounds, j, k)
    BY <1>2, <1>6
  <1>9. \E k \in S : \A j \in S \ {k} : Before(rounds, k, j)
    BY <1>3, <1>7
  <1> QED BY <1>8, <1>9 DEF FirstOf, LastOf, LastRound

\* The statuses that the loop over the parents leaves behind are a function of the parents
\* it has been through: by recursion, which there is one function to follow.
Settling(rounds, base, U, g) ==
  g = [s \in SUBSET U |-> IF s = {} THEN base
                          ELSE SettleParent(rounds, g[s \ {LastRound(rounds, s)}], LastRound(rounds, s))]
StatusAfter(rounds, base, U) == (CHOOSE g : Settling(rounds, base, U, g))[U]

LEMMA SettlingUnique ==
  ASSUME NEW rounds, Listed(rounds), NEW base, NEW U \in SUBSET DOMAIN rounds,
         NEW V \in SUBSET U, NEW g, NEW h, Settling(rounds, base, U, g), Settling(rounds, base, V, h)
  PROVE  g[V] = h[V]
  <1> DEFINE F == {s \in SUBSET V : g[s] # h[s]}
  <1>1. ASSUME F # {}  PROVE FALSE
    <2>1. F \subseteq SUBSET V /\ IsFiniteSet(V)
      BY FS_Subset DEF Listed
    <2>2. PICK s \in F : \A r \in F : r \subseteq s => r = s
      <3> HIDE DEF F
      <3> QED BY <1>1, <2>1, SmallestSubset
    <2>3. s \subseteq V /\ s \subseteq U /\ g[s] # h[s]
      BY <2>2
    <2>4. s # {}
      BY <2>3 DEF Settling
    <2> DEFINE x == LastRound(rounds, s)
    <2>5. x \in s
      BY <2>3, <2>4, RoundsOrdered DEF LastOf
    <2>6. s \ {x} \notin F
      BY <2>2, <2>5
    <2>7. g[s \ {x}] = h[s \ {x}]
      BY <2>3, <2>6
    <2>8. g[s] = SettleParent(rounds, g[s \ {x}], x) /\ h[s] = SettleParent(rounds, h[s \ {x}], x)
      BY <2>3, <2>4 DEF Settling
    <2> QED BY <2>3, <2>7, <2>8
  <1> QED BY <1>1

\* What the function says of a set it says of it in every function for a larger set.
LEMMA SettlingFound ==
  ASSUME NEW rounds, Listed(rounds), NEW base, NEW U \in SUBSET DOMAIN rounds,
         NEW g, Settling(rounds, base, U, g)
  PROVE  \A V \in SUBSET U : g[V] = StatusAfter(rounds, base, V)
  <1> SUFFICES ASSUME NEW V \in SUBSET U  PROVE g[V] = StatusAfter(rounds, base, V)
    OBVIOUS
  <1> DEFINE h == [s \in SUBSET V |-> g[s]]
  <1>1. Settling(rounds, base, V, h)
    <2>1. ASSUME NEW s \in SUBSET V, s # {}
          PROVE  h[s] = SettleParent(rounds, h[s \ {LastRound(rounds, s)}], LastRound(rounds, s))
      <3>1. s \in SUBSET U /\ s \ {LastRound(rounds, s)} \in SUBSET V
        OBVIOUS
      <3>2. g[s] = SettleParent(rounds, g[s \ {LastRound(rounds, s)}], LastRound(rounds, s))
        BY <2>1, <3>1 DEF Settling
      <3> QED BY <2>1, <3>1, <3>2
    <2>2. h[{}] = base
      BY DEF Settling
    <2> QED BY <2>1, <2>2 DEF Settling
  <1> HIDE DEF h
  <1>2. Settling(rounds, base, V, CHOOSE c : Settling(rounds, base, V, c))
    BY <1>1
  <1> QED BY <1>2, SettlingUnique DEF StatusAfter

LEMMA SettlingExists ==
  ASSUME NEW rounds, Listed(rounds), NEW base, NEW S \in SUBSET DOMAIN rounds
  PROVE  \E g : Settling(rounds, base, S, g)
  <1> DEFINE F == {T \in SUBSET S : ~ \E g : Settling(rounds, base, T, g)}
  <1>1. ASSUME F # {}  PROVE FALSE
    <2>1. F \subseteq SUBSET S /\ IsFiniteSet(S)
      BY FS_Subset DEF Listed
    <2>2. PICK T \in F : \A U \in F : U \subseteq T => U = T
      <3> HIDE DEF F
      <3> QED BY <1>1, <2>1, SmallestSubset
    <2>3. T \subseteq S /\ ~ \E g : Settling(rounds, base, T, g)
      BY <2>2
    <2> DEFINE K == [s \in SUBSET T |-> IF s = {} THEN base
                       ELSE SettleParent(rounds, StatusAfter(rounds, base, s \ {LastRound(rounds, s)}), LastRound(rounds, s))]
    <2>4. ASSUME NEW U \in SUBSET T, U # T
          PROVE  K[U] = StatusAfter(rounds, base, U)
      <3>1. U \notin F
        BY <2>2, <2>4
      <3>2. \E g : Settling(rounds, base, U, g)
        BY <2>3, <3>1
      <3>3. PICK g : Settling(rounds, base, U, g)
        BY <3>2
      <3>4. U \in SUBSET DOMAIN rounds
        BY <2>3
      <3>5. \A V \in SUBSET U : g[V] = StatusAfter(rounds, base, V)
        BY <3>3, <3>4, SettlingFound
      <3>6. CASE U = {}
        BY <3>3, <3>5, <3>6 DEF Settling
      <3>7. CASE U # {}
        <4>1. g[U] = SettleParent(rounds, g[U \ {LastRound(rounds, U)}], LastRound(rounds, U))
          BY <3>3, <3>7 DEF Settling
        <4>2. g[U] = StatusAfter(rounds, base, U)
              /\ g[U \ {LastRound(rounds, U)}] = StatusAfter(rounds, base, U \ {LastRound(rounds, U)})
          BY <3>5
        <4> QED BY <3>7, <4>1, <4>2
      <3> QED BY <3>6, <3>7
    <2>5. ASSUME NEW s \in SUBSET T, s # {}
          PROVE  K[s] = SettleParent(rounds, K[s \ {LastRound(rounds, s)}], LastRound(rounds, s))
      <3> DEFINE u == s \ {LastRound(rounds, s)}
      <3>1. LastRound(rounds, s) \in s
        BY <2>3, <2>5, RoundsOrdered DEF LastOf
      <3>2. u \in SUBSET T /\ u # T
        BY <3>1
      <3>3. K[u] = StatusAfter(rounds, base, u)
        BY <2>4, <3>2
      <3>4. K[s] = SettleParent(rounds, StatusAfter(rounds, base, u), LastRound(rounds, s))
        BY <2>5
      <3> HIDE DEF K
      <3> QED BY <3>3, <3>4
    <2>6. K[{}] = base
      OBVIOUS
    <2>7. K = [s \in SUBSET T |-> K[s]]
      OBVIOUS
    <2> HIDE DEF K
    <2>8. Settling(rounds, base, T, K)
      BY <2>5, <2>6, <2>7 DEF Settling
    <2> QED BY <2>3, <2>8
  <1> QED BY <1>1

LEMMA SettledFacts ==
  ASSUME NEW rounds, Listed(rounds), NEW base, NEW S \in SUBSET DOMAIN rounds
  PROVE  /\ StatusAfter(rounds, base, {}) = base
         /\ S # {} => StatusAfter(rounds, base, S)
                      = SettleParent(rounds, StatusAfter(rounds, base, S \ {LastRound(rounds, S)}), LastRound(rounds, S))
  <1>1. PICK g : Settling(rounds, base, S, g)
    BY SettlingExists
  <1>2. \A V \in SUBSET S : g[V] = StatusAfter(rounds, base, V)
    BY <1>1, SettlingFound
  <1>3. StatusAfter(rounds, base, {}) = base
    BY <1>1, <1>2 DEF Settling
  <1>4. ASSUME S # {}
        PROVE  StatusAfter(rounds, base, S)
               = SettleParent(rounds, StatusAfter(rounds, base, S \ {LastRound(rounds, S)}), LastRound(rounds, S))
    BY <1>1, <1>2, <1>4 DEF Settling
  <1> QED BY <1>3, <1>4

\* What the loop makes of the rounds is settled for the first children of all parents.
OwnStatus(rounds) == [k \in DOMAIN rounds |-> normalize_status(rounds[k].status)]

LEMMA ReleaseStatusSettled ==
  ASSUME NEW e \in Entity
  PROVE  ReleaseStatus(e) = StatusAfter(e.round, OwnStatus(e.round), Firsts(e.round))
  BY DEF ReleaseStatus, MapThenFoldSet, StatusAfter, Settling, OwnStatus

\* A blocked round comes before every other round of its parent in the choice.
LEMMA BlockedBest ==
  ASSUME NEW rounds, Listed(rounds), NEW status, NEW first,
         NEW k \in DOMAIN rounds, NEW p \in DOMAIN rounds,
         rounds[k].upstream = rounds[first].upstream, rounds[k].id \notin LegacyReport, status[k] = "BLOCKED",
         rounds[p].id = rounds[first].upstream, Single(rounds, p),
         DOMAIN status = DOMAIN rounds
  PROVE  SettleParent(rounds, status, first)[p] = "BLOCKED"
  <1> DEFINE up == rounds[first].upstream
             parents == {j \in DOMAIN rounds : rounds[j].id = up}
             children == {j \in DOMAIN rounds : rounds[j].upstream = up /\ ~visible
                                                /\ rounds[j].id \notin LegacyReport}
             better(c, j) == \/ ReleasePriority(status[c]) < ReleasePriority(status[j])
                             \/ ReleasePriority(status[c]) = ReleasePriority(status[j]) /\ Before(rounds, c, j)
             best == CHOOSE c \in children : \A j \in children \ {c} : better(c, j)
  <1>1. parents = {p}
    BY DEF Single
  <1>2. k \in children
    BY DEF visible
  <1>3. SettleParent(rounds, status, first) = [status EXCEPT ![Max(parents)] = status[best]]
    BY <1>1, <1>2 DEF SettleParent
  <1>4. Max(parents) = p
    <2>1. p \in Nat
      BY DEF Listed
    <2> QED BY <1>1, <2>1 DEF Max
  <1> DEFINE blocked == {j \in children : status[j] = "BLOCKED"}
  <1>5. blocked \in SUBSET DOMAIN rounds /\ blocked # {}
    BY <1>2
  <1> HIDE DEF blocked
  <1>6. PICK w : FirstOf(rounds, blocked, w)
    BY <1>5, RoundsOrdered
  <1>7. ReleasePriority("BLOCKED") = 0
    BY DEF ReleasePriority
  <1>8. \A s : s # "BLOCKED" => ReleasePriority(s) \in Nat \ {0}
    BY DEF ReleasePriority
  <1>9. w \in children /\ status[w] = "BLOCKED"
    BY <1>6 DEF FirstOf, blocked
  <1>10. \A j \in children \ {w} : better(w, j)
    <2> SUFFICES ASSUME NEW j \in children \ {w}  PROVE better(w, j)
      OBVIOUS
    <2>1. CASE status[j] = "BLOCKED"
      <3>1. j \in blocked \ {w}
        BY <2>1 DEF blocked
      <3> QED BY <1>6, <1>9, <2>1, <3>1 DEF FirstOf
    <2>2. CASE status[j] # "BLOCKED"
      BY <1>7, <1>8, <1>9, <2>2
    <2> QED BY <2>1, <2>2
  <1>11. best \in children /\ \A j \in children \ {best} : better(best, j)
    <2> HIDE DEF children, better
    <2> QED BY <1>9, <1>10
  <1>12. status[best] = "BLOCKED"
    <2> HIDE DEF children, best
    <2>1. CASE best = k
      BY <2>1
    <2>2. CASE best # k
      <3>1. better(best, k)
        BY <1>2, <1>11, <2>2
      <3> QED BY <1>7, <1>8, <3>1
    <2> QED BY <2>1, <2>2
  <1> QED BY <1>3, <1>4, <1>12

\* A step changes no round but the parent of that step.
LEMMA SettleParentElsewhere ==
  ASSUME NEW rounds, Listed(rounds), NEW status, NEW first, NEW j \in DOMAIN rounds,
         DOMAIN status = DOMAIN rounds, rounds[j].id # rounds[first].upstream
  PROVE  SettleParent(rounds, status, first)[j] = status[j]
  <1> DEFINE parents == {k \in DOMAIN rounds : rounds[k].id = rounds[first].upstream}
  <1>1. ASSUME parents # {}  PROVE Max(parents) # j
    <2>1. parents \subseteq 0 .. Len(rounds) /\ Len(rounds) \in Nat /\ j \notin parents
      BY DEF Listed
    <2> HIDE DEF parents
    <2>2. \E x \in parents : \A m \in parents : m <= x
      BY <1>1, <2>1, LargestNumber
    <2>3. \E x \in parents : \A m \in parents : x >= m
      BY <2>1, <2>2
    <2> QED BY <2>1, <2>3 DEF Max
  <1> QED BY <1>1 DEF SettleParent

LEMMA SettleParentRounds ==
  ASSUME NEW rounds, NEW status, NEW first, DOMAIN status = DOMAIN rounds
  PROVE  DOMAIN SettleParent(rounds, status, first) = DOMAIN rounds
  BY DEF SettleParent

\* Settling the parent of a blocked round shows it, and no later step touches that parent
\* again, for each parent has one first child.
LEMMA BlockedListed ==
  ASSUME NEW e \in Entity
  PROVE  BlockedShows(e)
  <1> DEFINE rounds == e.round
             base == OwnStatus(rounds)
             status(S) == StatusAfter(rounds, base, S)
  <1>1. Listed(rounds)
    BY EntityListed
  <1>2. DOMAIN base = DOMAIN rounds
    BY DEF OwnStatus
  <1> SUFFICES ASSUME NEW k \in DOMAIN rounds, NEW p \in DOMAIN rounds,
                      rounds[k].status \in {"BLOCK", "BLOCKED"}, rounds[k].id \notin LegacyReport,
                      \A j \in DOMAIN rounds : rounds[j].upstream # rounds[k].id,
                      rounds[p].id = rounds[k].upstream, Single(rounds, p)
               PROVE  ReleaseStatus(e)[p] = "BLOCKED"
    BY DEF BlockedShows
  <1>3. base[k] = "BLOCKED"
    <2>1. "BLOCK" \in DOMAIN Alias /\ Alias["BLOCK"] = "BLOCKED" /\ "BLOCKED" \notin DOMAIN Alias
      BY DEF Alias
    <2> QED BY <2>1 DEF OwnStatus, normalize_status
  <1> DEFINE siblings == {j \in DOMAIN rounds : rounds[j].upstream = rounds[k].upstream}
  <1>4. PICK f : FirstOf(rounds, siblings, f)
    <2>1. siblings \in SUBSET DOMAIN rounds /\ siblings # {}
      OBVIOUS
    <2> HIDE DEF siblings
    <2> QED BY <1>1, <2>1, RoundsOrdered
  <1>5. f \in DOMAIN rounds /\ rounds[f].upstream = rounds[k].upstream
    BY <1>4 DEF FirstOf
  <1>6. f \in Firsts(rounds)
    <2>1. rounds[f].upstream # None
      BY <1>1, <1>5 DEF Listed
    <2>2. ASSUME NEW j \in DOMAIN rounds, Before(rounds, j, f)
          PROVE  rounds[j].upstream # rounds[f].upstream
      <3>1. ASSUME rounds[j].upstream = rounds[f].upstream  PROVE FALSE
        <4>1. j \in siblings
          BY <1>5, <3>1
        <4>2. j # f
          BY <1>1, <1>5, <2>2, BeforeOrder
        <4>3. Before(rounds, f, j)
          BY <1>4, <4>1, <4>2 DEF FirstOf
        <4> QED BY <1>1, <1>5, <2>2, <4>3, BeforeOrder
      <3> QED BY <3>1
    <2> QED BY <1>5, <2>1, <2>2 DEF Firsts
  <1> DEFINE Shown(S) == /\ DOMAIN status(S) = DOMAIN rounds
                         /\ status(S)[k] = "BLOCKED"
                         /\ f \in S => status(S)[p] = "BLOCKED"
             F == {S \in SUBSET Firsts(rounds) : ~Shown(S)}
  <1>7. Firsts(rounds) \in SUBSET DOMAIN rounds
    BY DEF Firsts
  <1>8. ASSUME NEW S \in SUBSET Firsts(rounds), S # {}, Shown(S \ {LastRound(rounds, S)})
        PROVE  Shown(S)
    <2> DEFINE x == LastRound(rounds, S)
               before == status(S \ {x})
    <2> HIDE DEF base, rounds
    <2>1. S \in SUBSET DOMAIN rounds
      BY <1>7
    <2>2. x \in S /\ x \in DOMAIN rounds
      BY <1>1, <1>8, <2>1, RoundsOrdered DEF LastOf
    <2>3. status(S) = SettleParent(rounds, before, x)
      BY <1>1, <1>8, <2>1, SettledFacts
    <2>4. /\ DOMAIN before = DOMAIN rounds
          /\ before[k] = "BLOCKED"
          /\ f \in S \ {x} => before[p] = "BLOCKED"
      BY <1>8
    <2> HIDE DEF before, x
    <2>5. DOMAIN status(S) = DOMAIN rounds
      BY <2>3, <2>4, SettleParentRounds
    <2>6. status(S)[k] = "BLOCKED"
      <3>1. rounds[k].id # rounds[x].upstream
        BY <2>2
      <3> QED BY <1>1, <2>3, <2>4, <3>1, SettleParentElsewhere
    <2>7. ASSUME f \in S  PROVE status(S)[p] = "BLOCKED"
      <3>1. CASE x = f
        <4>1. rounds[k].upstream = rounds[x].upstream /\ rounds[p].id = rounds[x].upstream
          BY <1>5, <3>1
        <4> QED BY <1>1, <2>3, <2>4, <4>1, BlockedBest
      <3>2. CASE x # f
        <4>1. before[p] = "BLOCKED"
          BY <2>4, <2>7, <3>2
        <4>2. x \in Firsts(rounds)
          BY <2>2
        <4>3. Before(rounds, x, f) \/ Before(rounds, f, x)
          BY <1>1, <1>5, <2>2, <3>2, BeforeOrder
        <4>4. rounds[x].upstream # rounds[f].upstream
          BY <1>5, <1>6, <2>2, <4>2, <4>3 DEF Firsts
        <4>5. rounds[p].id # rounds[x].upstream
          BY <1>5, <4>4
        <4> QED BY <1>1, <2>3, <2>4, <4>1, <4>5, SettleParentElsewhere
      <3> QED BY <3>1, <3>2
    <2> QED BY <2>5, <2>6, <2>7
  <1>9. Shown({})
    BY <1>1, <1>2, <1>3, SettledFacts
  <1>10. ASSUME F # {}  PROVE FALSE
    <2> HIDE DEF Shown, status, base, rounds
    <2>1. IsFiniteSet(Firsts(rounds)) /\ F \subseteq SUBSET Firsts(rounds)
      <3>1. IsFiniteSet(DOMAIN rounds)
        BY <1>1 DEF Listed
      <3> QED BY <1>7, <3>1, FS_Subset
    <2>2. PICK S \in F : \A U \in F : U \subseteq S => U = S
      <3> HIDE DEF F
      <3> QED BY <1>10, <2>1, SmallestSubset
    <2>3. S \subseteq Firsts(rounds) /\ ~Shown(S)
      BY <2>2
    <2>4. S # {}
      BY <1>9, <2>3
    <2> DEFINE x == LastRound(rounds, S)
    <2>5. x \in S
      BY <1>1, <1>7, <2>3, <2>4, RoundsOrdered DEF LastOf
    <2>6. S \ {x} \notin F
      <3>1. S \ {x} \subseteq S /\ S \ {x} # S
        BY <2>5
      <3> HIDE DEF F
      <3> QED BY <2>2, <3>1
    <2>7. Shown(S \ {x})
      BY <2>3, <2>6
    <2> QED BY <1>8, <2>3, <2>4, <2>7
  <1>11. Shown(Firsts(rounds))
    <2> HIDE DEF Shown
    <2> QED BY <1>10
  <1> QED BY <1>6, <1>11, ReleaseStatusSettled

-----------------------------------------------------------------------------
(* The counts of a release. *)

LEMMA SumOfPassed ==
  ASSUME NEW S, NEW B, NEW D, Parts(D, S, B), \A x \in S : x.passed = Cardinality(D[x])
  PROVE  PassedSum(S) = Total(D, S)
  <1> DEFINE Q(h) == h = [T \in SUBSET S |-> IF T = {} THEN 0
                          ELSE h[T \ {CHOOSE x \in T : TRUE}] + (CHOOSE x \in T : TRUE).passed]
  <1>1. ASSUME NEW h  PROVE Q(h) <=> Adding(h, D, S)
    <2>1. \A T \in SUBSET S : T # {} => (CHOOSE x \in T : TRUE) \in S
      OBVIOUS
    <2> QED BY <2>1 DEF Adding
  <1>2. PassedSum(S) = (CHOOSE h : Q(h))[S]
    BY DEF PassedSum, Sum, FoldSet, MapThenFoldSet
  <1> HIDE DEF Q
  <1>3. Q(CHOOSE h : Q(h))
    BY <1>1, SumOfSizes
  <1> QED BY <1>1, <1>2, <1>3, SumOfSizes

LEMMA SumOfBlocked ==
  ASSUME NEW S, NEW B, NEW D, Parts(D, S, B), \A x \in S : x.blocked = Cardinality(D[x])
  PROVE  BlockedSum(S) = Total(D, S)
  <1> DEFINE Q(h) == h = [T \in SUBSET S |-> IF T = {} THEN 0
                          ELSE h[T \ {CHOOSE x \in T : TRUE}] + (CHOOSE x \in T : TRUE).blocked]
  <1>1. ASSUME NEW h  PROVE Q(h) <=> Adding(h, D, S)
    <2>1. \A T \in SUBSET S : T # {} => (CHOOSE x \in T : TRUE) \in S
      OBVIOUS
    <2> QED BY <2>1 DEF Adding
  <1>2. BlockedSum(S) = (CHOOSE h : Q(h))[S]
    BY DEF BlockedSum, Sum, FoldSet, MapThenFoldSet
  <1> HIDE DEF Q
  <1>3. Q(CHOOSE h : Q(h))
    BY <1>1, SumOfSizes
  <1> QED BY <1>1, <1>2, <1>3, SumOfSizes

\* The image of a finite set is finite, and as large if the function is one to one.
LEMMA FiniteImage ==
  ASSUME NEW S, IsFiniteSet(S), NEW f, f = [x \in S |-> f[x]], NEW T, T = {f[x] : x \in S}
  PROVE  /\ IsFiniteSet(T)
         /\ (\A x, y \in S : f[x] = f[y] => x = y) => Cardinality(T) = Cardinality(S)
  <1>1. f \in [S -> T]
    OBVIOUS
  <1>2. f \in Surjection(S, T)
    BY <1>1 DEF Surjection
  <1>3. ASSUME \A x, y \in S : f[x] = f[y] => x = y  PROVE f \in Injection(S, T)
    BY <1>1, <1>3 DEF Injection, IsInjective
  <1> QED BY <1>2, <1>3, FS_Surjection

\* What is counted for a release: a row of the round, one of a run and a result.
Counts(e, i, s) ==
  {x \in (DOMAIN e.round) \X (DOMAIN e.run) \X (DOMAIN e.result) :
     /\ e.round[x[1]].id = i /\ i # None
     /\ e.run[x[2]].round = i
     /\ e.result[x[3]].run = e.run[x[2]].id
     /\ normalize_status(e.result[x[3]].status) = s}
RunResults(e, run, s) == {k \in ResultsOf(e, run) : normalize_status(e.result[k].status) = s}

LEMMA CountsFacts ==
  ASSUME NEW e \in Entity, NEW i, NEW s
  PROVE  /\ IsFiniteSet(Counts(e, i, s)) /\ ReleaseCount(e, i, s) = Cardinality(Counts(e, i, s))
         /\ \A x \in Counts(e, i, s) : x = <<x[1], x[2], x[3]>>
         /\ \A a, b, c : <<a, b, c>> \in Counts(e, i, s)
              <=> /\ a \in DOMAIN e.round /\ b \in DOMAIN e.run /\ c \in DOMAIN e.result
                  /\ e.round[a].id = i /\ i # None /\ e.run[b].round = i
                  /\ c \in RunResults(e, e.run[b].id, s)
  <1>1. IsFiniteSet(DOMAIN e.round) /\ IsFiniteSet(DOMAIN e.run) /\ IsFiniteSet(DOMAIN e.result)
    BY EntityListed DEF Listed
  <1> DEFINE A == DOMAIN e.round
             B == DOMAIN e.run
             C == DOMAIN e.result
  <1> HIDE DEF A, B, C
  <1>2. IsFiniteSet((A \X B) \X C)
    BY <1>1, FS_Product DEF A, B, C
  <1>3. IsFiniteSet(A \X B \X C)
    <2> DEFINE f == [x \in (A \X B) \X C |-> <<x[1][1], x[1][2], x[2]>>]
    <2>1. \A x \in (A \X B) \X C : f[x] \in A \X B \X C
      OBVIOUS
    <2>2. \A y \in A \X B \X C : <<<<y[1], y[2]>>, y[3]>> \in (A \X B) \X C /\ f[<<<<y[1], y[2]>>, y[3]>>] = y
      OBVIOUS
    <2>3. f = [x \in (A \X B) \X C |-> f[x]]
      OBVIOUS
    <2> HIDE DEF f
    <2>4. \A y \in A \X B \X C : y \in {f[x] : x \in (A \X B) \X C}
      BY <2>2
    <2>5. A \X B \X C = {f[x] : x \in (A \X B) \X C}
      BY <2>1, <2>4
    <2> QED BY <1>2, <2>3, <2>5, FiniteImage
  <1>4. Counts(e, i, s) \subseteq A \X B \X C
    BY DEF Counts, A, B, C
  <1>5. IsFiniteSet(Counts(e, i, s))
    BY <1>3, <1>4, FS_Subset
  <1>6. ReleaseCount(e, i, s) = Cardinality(Counts(e, i, s))
    BY DEF ReleaseCount, Counts
  <1>7. \A x \in Counts(e, i, s) : x = <<x[1], x[2], x[3]>>
    BY DEF Counts
  <1>8. \A a, b, c : <<a, b, c>> \in Counts(e, i, s)
          <=> /\ a \in DOMAIN e.round /\ b \in DOMAIN e.run /\ c \in DOMAIN e.result
              /\ e.round[a].id = i /\ i # None /\ e.run[b].round = i
              /\ c \in RunResults(e, e.run[b].id, s)
    BY DEF Counts, RunResults, ResultsOf
  <1> QED BY <1>5, <1>6, <1>7, <1>8

\* The lines of the runs of a release part what is counted for it.
LEMMA RunsCounted ==
  ASSUME NEW e \in Entity, NEW k \in DOMAIN e.round, Single(e.round, k), NEW s \in Counted
  PROVE  ReleaseCount(e, e.round[k].id, s) = CountSum({r \in Runs(e) : r.release = e.round[k].id}, s)
  <1> DEFINE i == e.round[k].id
             S == {r \in Runs(e) : r.release = i}
             X == Counts(e, i, s)
             part(j) == {x \in X : x[2] = j}
             D == [r \in S |-> part(r.row)]
  <1>1. i # None
    BY EntityListed DEF Listed
  <1>2. ASSUME NEW r \in S
        PROVE  \E j \in Lines(e) : r = RunLine(e, j)
    BY LinesOfLists
  <1>3. \A j : RunLine(e, j).row = j /\ RunLine(e, j).release = e.run[j].round
               /\ RunLine(e, j).count[s] = RunCount(e, e.run[j].id, s)
    BY DEF RunLine
  <1>4. IsFiniteSet(S)
    <2> DEFINE f == [j \in Lines(e) |-> RunLine(e, j)]
    <2>1. IsFiniteSet(Lines(e))
      <3>1. IsFiniteSet(DOMAIN e.run)
        BY EntityListed DEF Listed
      <3>2. Lines(e) \subseteq DOMAIN e.run
        BY DEF Lines
      <3> QED BY <3>1, <3>2, FS_Subset
    <2>2. Runs(e) = {f[j] : j \in Lines(e)}
      BY LinesOfLists
    <2>3. f = [j \in Lines(e) |-> f[j]]
      OBVIOUS
    <2> HIDE DEF f
    <2>4. IsFiniteSet(Runs(e))
      BY <2>1, <2>2, <2>3, FiniteImage
    <2>5. S \subseteq Runs(e)
      OBVIOUS
    <2> QED BY <2>4, <2>5, FS_Subset
  <1>5. IsFiniteSet(X) /\ ReleaseCount(e, i, s) = Cardinality(X)
    BY CountsFacts
  <1>6. \A x \in S : D[x] \subseteq X
    OBVIOUS
  <1>7. ASSUME NEW x \in S, NEW y \in S, x # y  PROVE D[x] \cap D[y] = {}
    <2>1. PICK j \in Lines(e) : x = RunLine(e, j)
      BY <1>2
    <2>2. PICK l \in Lines(e) : y = RunLine(e, l)
      BY <1>2
    <2>3. x.row # y.row
      BY <1>3, <1>7, <2>1, <2>2
    <2> QED BY <2>3
  <1>8. Parts(D, S, X)
    <2> HIDE DEF S, X, D
    <2> QED BY <1>4, <1>5, <1>6, <1>7 DEF Parts
  <1>9. ASSUME NEW r \in S  PROVE r.count[s] = Cardinality(D[r])
    <2>1. PICK j \in Lines(e) : r = RunLine(e, j)
      BY <1>2
    <2> DEFINE A == RunResults(e, e.run[j].id, s)
               f == [m \in A |-> <<k, j, m>>]
    <2>2. r.count[s] = Cardinality(A)
      <3>1. r.count[s] = RunCount(e, e.run[j].id, s)
        BY <1>3, <2>1
      <3> QED BY <3>1 DEF RunCount, RunResults
    <2>3. D[r] = part(j)
      BY <1>3, <2>1
    <2>4. j \in DOMAIN e.run /\ e.run[j].round = i
      BY <1>3, <2>1 DEF Lines
    <2>5. A \subseteq DOMAIN e.result /\ IsFiniteSet(A)
      <3>1. A \subseteq DOMAIN e.result
        BY DEF RunResults, ResultsOf
      <3>2. IsFiniteSet(DOMAIN e.result)
        BY EntityListed DEF Listed
      <3> QED BY <3>1, <3>2, FS_Subset
    <2>6. \A m \in A : f[m] \in part(j)
      <3>1. \A m \in A : <<k, j, m>> \in X
        BY <1>1, <2>4, <2>5, CountsFacts
      <3> HIDE DEF X
      <3> QED BY <3>1
    <2>7. ASSUME NEW x \in part(j)  PROVE x[3] \in A /\ f[x[3]] = x
      <3>1. x = <<x[1], j, x[3]>>
        BY CountsFacts
      <3>2. <<x[1], j, x[3]>> \in X
        BY <3>1
      <3>3. x[1] \in DOMAIN e.round /\ e.round[x[1]].id = i /\ x[3] \in A
        <4> HIDE DEF A, i
        <4> QED BY <3>2, CountsFacts DEF A
      <3>4. x[1] = k
        BY <3>3 DEF Single
      <3> HIDE DEF A, X
      <3> QED BY <3>1, <3>3, <3>4
    <2>8. f = [m \in A |-> f[m]] /\ \A m, n \in A : f[m] = f[n] => m = n
      OBVIOUS
    <2> HIDE DEF f, A, D, part
    <2>9. part(j) = {f[m] : m \in A}
      BY <2>6, <2>7
    <2>10. Cardinality(part(j)) = Cardinality(A)
      BY <2>5, <2>8, <2>9, FiniteImage
    <2> QED BY <2>2, <2>3, <2>10
  <1>10. UNION {D[r] : r \in S} = X
    <2>1. ASSUME NEW x \in X  PROVE \E r \in S : x \in D[r]
      <3>1. x = <<x[1], x[2], x[3]>>
        BY CountsFacts
      <3>2. x[2] \in DOMAIN e.run /\ e.run[x[2]].round = i /\ x[3] \in RunResults(e, e.run[x[2]].id, s)
        <4> HIDE DEF i
        <4>1. <<x[1], x[2], x[3]>> \in X
          BY <3>1
        <4> QED BY <4>1, CountsFacts
      <3>3. x[2] \in Lines(e)
        BY <3>2 DEF Lines, RunResults
      <3> DEFINE r == RunLine(e, x[2])
      <3>4. r \in S
        BY <1>3, <3>2, <3>3, LinesOfLists
      <3>5. x \in D[r]
        BY <1>3, <3>4
      <3> QED BY <3>4, <3>5
    <2> HIDE DEF X, S, D
    <2> QED BY <1>6, <2>1
  <1> HIDE DEF S, X, D, i
  <1>11. CountSum(S, s) = Total(D, S)
    BY <1>8, <1>9, SumOfCounts
  <1> QED BY <1>5, <1>10, <1>11 DEF Total, S, i

\* If no run has two rows, a result counts once for its round: so the lines of the cases
\* of a release part the results in the same way.
CasesOf(e, i) == {c \in ResultsSummary(e) : c.release = i}
Received(e, i, s) == {m \in DOMAIN e.result : RoundOfRun(e, e.result[m].run) = i /\ normalize_status(e.result[m].status) = s}
OfLine(e, c, s) == {m \in CaseRows(e, <<c.release, c.case>>) : normalize_status(e.result[m].status) = s}

LEMMA ReceivedCounted ==
  ASSUME NEW e \in Entity, NEW k \in DOMAIN e.round, Single(e.round, k), Unique(e.run), NEW s
  PROVE  ReleaseCount(e, e.round[k].id, s) = Cardinality(Received(e, e.round[k].id, s))
  <1> DEFINE i == e.round[k].id
             X == Counts(e, i, s)
             f == [x \in X |-> x[3]]
  <1>1. i # None
    BY EntityListed DEF Listed
  <1>2. IsFiniteSet(X) /\ ReleaseCount(e, i, s) = Cardinality(X)
    BY CountsFacts
  <1>3. ASSUME NEW x \in X
        PROVE  /\ x = <<k, x[2], x[3]>> /\ x[2] \in DOMAIN e.run /\ x[3] \in Received(e, i, s)
               /\ e.run[x[2]].id = e.result[x[3]].run
    <2>1. x = <<x[1], x[2], x[3]>>
      BY CountsFacts
    <2>2. /\ x[1] \in DOMAIN e.round /\ x[2] \in DOMAIN e.run /\ x[3] \in DOMAIN e.result
          /\ e.round[x[1]].id = i /\ e.run[x[2]].round = i
          /\ x[3] \in RunResults(e, e.run[x[2]].id, s)
      <3> HIDE DEF i
      <3>1. <<x[1], x[2], x[3]>> \in X
        BY <2>1
      <3> QED BY <3>1, CountsFacts
    <2>3. x[1] = k
      BY <2>2 DEF Single
    <2>4. e.result[x[3]].run = e.run[x[2]].id /\ normalize_status(e.result[x[3]].status) = s
      BY <2>2 DEF RunResults, ResultsOf
    <2>5. Row(e.run, e.run[x[2]].id) = e.run[x[2]] /\ e.run[x[2]] # None
      <3>1. Listed(e.run)
        BY EntityListed
      <3>2. Single(e.run, x[2])
        BY <2>2 DEF Unique
      <3>3. e.run[x[2]] # None
        BY <2>2, <3>1 DEF Listed
      <3> QED BY <2>2, <3>1, <3>2, <3>3, RowFacts
    <2>6. RoundOfRun(e, e.result[x[3]].run) = i
      BY <2>2, <2>4, <2>5 DEF RoundOfRun
    <2> HIDE DEF X, i
    <2> QED BY <2>1, <2>2, <2>3, <2>4, <2>6 DEF Received
  <1>4. ASSUME NEW m \in Received(e, i, s)
        PROVE  \E x \in X : x[3] = m
    <2>1. m \in DOMAIN e.result /\ RoundOfRun(e, e.result[m].run) = i /\ normalize_status(e.result[m].status) = s
      BY DEF Received
    <2>2. Row(e.run, e.result[m].run) # None
      BY <1>1, <2>1 DEF RoundOfRun
    <2>3. PICK j \in DOMAIN e.run : e.run[j].id = e.result[m].run /\ Row(e.run, e.result[m].run) = e.run[j]
      BY <2>2, EntityListed, RowFacts
    <2>4. e.run[j].round = i
      BY <2>1, <2>2, <2>3 DEF RoundOfRun
    <2>5. m \in RunResults(e, e.run[j].id, s)
      BY <2>1, <2>3 DEF RunResults, ResultsOf
    <2>6. <<k, j, m>> \in X
      BY <1>1, <2>1, <2>3, <2>4, <2>5, CountsFacts
    <2> HIDE DEF X
    <2> QED BY <2>6
  <1> HIDE DEF X, i
  <1>5. ASSUME NEW x \in X, NEW y \in X, f[x] = f[y]  PROVE x = y
    <2>1. e.run[x[2]].id = e.run[y[2]].id
      BY <1>3, <1>5
    <2>2. x[2] = y[2]
      BY <1>3, <2>1 DEF Unique, Single
    <2> QED BY <1>3, <1>5, <2>2
  <1>6. Received(e, i, s) = {f[x] : x \in X}
    BY <1>3, <1>4
  <1>7. f = [x \in X |-> f[x]]
    OBVIOUS
  <1> HIDE DEF f
  <1>8. Cardinality(Received(e, i, s)) = Cardinality(X)
    BY <1>2, <1>5, <1>6, <1>7, FiniteImage
  <1> QED BY <1>2, <1>8 DEF i

LEMMA CasesParted ==
  ASSUME NEW e \in Entity, NEW i, NEW s
  PROVE  LET D == [c \in CasesOf(e, i) |-> OfLine(e, c, s)]
         IN  /\ Parts(D, CasesOf(e, i), Received(e, i, s))
             /\ Total(D, CasesOf(e, i)) = Cardinality(Received(e, i, s))
  <1> DEFINE S == CasesOf(e, i)
             Y == Received(e, i, s)
             D == [c \in S |-> OfLine(e, c, s)]
  <1>1. \A key : CaseLine(e, key).release = key[1] /\ CaseLine(e, key).case = key[2]
    BY DEF CaseLine
  <1>2. \A m : CaseKey(e, m) = <<RoundOfRun(e, e.result[m].run), e.result[m].case>>
    BY DEF CaseKey, resolve_parent_release
  <1>3. ASSUME NEW c \in S
        PROVE  /\ c.release = i /\ OfLine(e, c, s) \subseteq Y
               /\ \E m \in DOMAIN e.result : c = CaseLine(e, <<c.release, c.case>>)
    <2>1. c.release = i /\ c \in ResultsSummary(e)
      BY DEF CasesOf
    <2>2. PICK m \in DOMAIN e.result : c = CaseLine(e, CaseKey(e, m))
      BY <2>1, LinesOfLists
    <2>3. CaseKey(e, m) = <<c.release, c.case>>
      BY <1>1, <1>2, <2>2
    <2>4. ASSUME NEW n \in OfLine(e, c, s)  PROVE n \in Y
      <3>1. n \in DOMAIN e.result /\ CaseKey(e, n) = <<c.release, c.case>> /\ normalize_status(e.result[n].status) = s
        BY DEF OfLine, CaseRows
      <3>2. RoundOfRun(e, e.result[n].run) = i
        BY <1>2, <2>1, <3>1
      <3> QED BY <3>1, <3>2 DEF Received
    <2> QED BY <2>1, <2>2, <2>3, <2>4
  <1>4. ASSUME NEW m \in Y
        PROVE  \E c \in S : m \in OfLine(e, c, s)
    <2>1. m \in DOMAIN e.result /\ RoundOfRun(e, e.result[m].run) = i /\ normalize_status(e.result[m].status) = s
      BY DEF Received
    <2> DEFINE c == CaseLine(e, CaseKey(e, m))
    <2>2. c \in ResultsSummary(e)
      BY <2>1, LinesOfLists
    <2>3. c.release = i /\ <<c.release, c.case>> = CaseKey(e, m)
      BY <1>1, <1>2, <2>1
    <2> HIDE DEF c
    <2>4. c \in S
      BY <2>2, <2>3 DEF CasesOf
    <2>5. m \in OfLine(e, c, s)
      BY <2>1, <2>3 DEF OfLine, CaseRows
    <2> QED BY <2>4, <2>5
  <1>5. IsFiniteSet(DOMAIN e.result)
    BY EntityListed DEF Listed
  <1>6. IsFiniteSet(Y)
    <2>1. Y \subseteq DOMAIN e.result
      BY DEF Received
    <2> QED BY <1>5, <2>1, FS_Subset
  <1>7. IsFiniteSet(S)
    <2> DEFINE f == [m \in DOMAIN e.result |-> CaseLine(e, CaseKey(e, m))]
    <2>1. ResultsSummary(e) = {f[m] : m \in DOMAIN e.result}
      <3>1. \A m \in DOMAIN e.result : f[m] = CaseLine(e, CaseKey(e, m))
        OBVIOUS
      <3> HIDE DEF f
      <3> QED BY <3>1, LinesOfLists
    <2>2. f = [m \in DOMAIN e.result |-> f[m]]
      OBVIOUS
    <2> HIDE DEF f
    <2>3. IsFiniteSet(ResultsSummary(e))
      BY <1>5, <2>1, <2>2, FiniteImage
    <2>4. S \subseteq ResultsSummary(e)
      BY DEF CasesOf
    <2> QED BY <2>3, <2>4, FS_Subset
  <1>8. ASSUME NEW c \in S, NEW d \in S, c # d  PROVE OfLine(e, c, s) \cap OfLine(e, d, s) = {}
    <2>1. ASSUME NEW m \in OfLine(e, c, s), m \in OfLine(e, d, s)  PROVE FALSE
      <3>1. <<c.release, c.case>> = <<d.release, d.case>>
        BY <2>1 DEF OfLine, CaseRows
      <3> QED BY <1>3, <1>8, <3>1
    <2> QED BY <2>1
  <1> HIDE DEF S, Y
  <1>9. Parts(D, S, Y)
    <2>1. \A c \in S : D[c] \subseteq Y
      BY <1>3
    <2>2. \A c, d \in S : c # d => D[c] \cap D[d] = {}
      BY <1>8
    <2> HIDE DEF D
    <2> QED BY <1>6, <1>7, <2>1, <2>2 DEF Parts
  <1>10. UNION {D[c] : c \in S} = Y
    BY <1>3, <1>4
  <1>11. Total(D, S) = Cardinality(Y)
    BY <1>10 DEF Total
  <1> QED BY <1>9, <1>11 DEF S, Y

LEMMA CountsListed ==
  ASSUME NEW e \in Entity
  PROVE  CountsAgree(e)
  <1>1. ASSUME NEW k \in DOMAIN e.round, Single(e.round, k), NEW s \in Counted
        PROVE  ReleaseCount(e, e.round[k].id, s) = Sum({r \in Runs(e) : r.release = e.round[k].id}, LAMBDA r : r.count[s])
    BY <1>1, RunsCounted DEF CountSum
  <1>2. ASSUME NEW k \in DOMAIN e.round, Single(e.round, k), Unique(e.run)
        PROVE  /\ ReleaseCount(e, e.round[k].id, "PASSED") = Sum(CasesOf(e, e.round[k].id), LAMBDA c : c.passed)
               /\ ReleaseCount(e, e.round[k].id, "BLOCKED") = Sum(CasesOf(e, e.round[k].id), LAMBDA c : c.blocked)
    <2> DEFINE i == e.round[k].id
               S == CasesOf(e, i)
               D(s) == [c \in S |-> OfLine(e, c, s)]
    <2>1. ASSUME NEW c \in S
          PROVE  /\ c.passed = Cardinality(OfLine(e, c, "PASSED"))
                 /\ c.blocked = Cardinality(OfLine(e, c, "BLOCKED"))
      <3>1. PICK m \in DOMAIN e.result : c = CaseLine(e, CaseKey(e, m))
        BY LinesOfLists DEF CasesOf
      <3>2. CaseKey(e, m) = <<c.release, c.case>>
        BY <3>1 DEF CaseLine, CaseKey
      <3>3. c = CaseLine(e, <<c.release, c.case>>)
        BY <3>1, <3>2
      <3>4. c.passed = With(e, <<c.release, c.case>>, "PASSED") /\ c.blocked = With(e, <<c.release, c.case>>, "BLOCKED")
        BY <3>1, <3>2 DEF CaseLine
      <3> QED BY <3>4 DEF With, OfLine
    <2>2. PassedSum(S) = Total(D("PASSED"), S)
      <3>1. Parts(D("PASSED"), S, Received(e, i, "PASSED"))
        BY CasesParted
      <3>2. \A c \in S : c.passed = Cardinality(D("PASSED")[c])
        BY <2>1
      <3> QED BY <3>1, <3>2, SumOfPassed
    <2>3. BlockedSum(S) = Total(D("BLOCKED"), S)
      <3>1. Parts(D("BLOCKED"), S, Received(e, i, "BLOCKED"))
        BY CasesParted
      <3>2. \A c \in S : c.blocked = Cardinality(D("BLOCKED")[c])
        BY <2>1
      <3> QED BY <3>1, <3>2, SumOfBlocked
    <2>4. \A s : Total(D(s), S) = Cardinality(Received(e, i, s))
      BY CasesParted
    <2>5. \A s : ReleaseCount(e, i, s) = Cardinality(Received(e, i, s))
      BY <1>2, ReceivedCounted
    <2>6. ReleaseCount(e, i, "PASSED") = PassedSum(S) /\ ReleaseCount(e, i, "BLOCKED") = BlockedSum(S)
      <3> HIDE DEF D, S, i
      <3> QED BY <2>2, <2>3, <2>4, <2>5
    <2> QED BY <2>6 DEF PassedSum, BlockedSum
  <1> QED BY <1>1, <1>2 DEF CountsAgree, CasesOf

\* The lists of every content agree.
LEMMA Summarised ==
  ASSUME NEW e \in Entity
  PROVE  CountsAgree(e) /\ DefectsAgree(e) /\ EvidenceAgrees(e) /\ BlockedShows(e) /\ RunsAgree(e)
  BY CountsListed, DefectsListed, EvidenceListed, BlockedListed, RunsListed

\* No step changes the sheets behind the summary.
LEMMA EntityStays ==
  ASSUME [Next]_vars
  PROVE  UNCHANGED entity
  <1>1. CASE UNCHANGED vars
    BY <1>1 DEF vars
  <1>2. ASSUME NEW b \in Browser, NEW k \in Key, RemoveItem(b, k) \/ (\E v \in Value : SetItem(b, k, v)) \/ SaveItem(b, k)
        PROVE  UNCHANGED entity
    BY <1>2 DEF RemoveItem, SetItem, SaveItem, Edit
  <1>3. ASSUME NEW b \in Browser, NEW s \in Sheet,
               CloseTab(b, s) \/ (\E c \in Cell : EditCell(b, s, c)) \/ SaveSheet(b, s)
        PROVE  UNCHANGED entity
    BY <1>3 DEF CloseTab, EditCell, SaveSheet, Edit
  <1>4. ASSUME NEW b \in Browser, NewTab(b) \/ Hide(b) \/ (\E mode \in {"db", "local"} : Reload(b, mode))
        PROVE  UNCHANGED entity
    BY <1>4 DEF NewTab, Hide, Reload, Edit
  <1>5. CASE Administrator
    BY <1>5 DEF Administrator, AskDate, MoveTab, Edit
  <1>6. ASSUME NEW c \in calls, Loaded(c) \/ Saved(c) \/ Closed(c) \/ Load(c) \/ Look(c) \/ PutRow(c) \/ DeleteRow(c)
        PROVE  UNCHANGED entity
    BY <1>6 DEF Loaded, Saved, Closed, Load, Look, PutRow, DeleteRow
  <1>7. ASSUME NEW c \in calls, PatchSheet(c) \/ MoveSheet(c) \/ CreateSheet(c) \/ DropSheet(c) \/ Lose(c)
        PROVE  UNCHANGED entity
    BY <1>7 DEF PatchSheet, MoveSheet, CreateSheet, DropSheet, Lose, Edit
  <1>8. CASE User
    BY <1>2, <1>3, <1>4, <1>8 DEF User
  <1>9. CASE Script
    BY <1>2, <1>3, <1>4, <1>6, <1>9 DEF Script
  <1>10. CASE Server
    BY <1>6, <1>7, <1>10 DEF Server
  <1> QED BY <1>1, <1>5, <1>7, <1>8, <1>9, <1>10 DEF Next

\* get_tracking_summary: the lists of the page agree with each other although each is
\* joined anew, whatever rows the sheets have, references that lead nowhere and, where
\* PageAgrees does not except them, repeated identifiers included: disjoint parts add up to
\* the counts of a release, rows that name one result are shown at one release, and what a
\* blocked round has settled is not settled over again.
THEOREM PageSummary == Spec => []PageAgrees
  <1>1. Init => entity \in Entity
    BY DEF Init
  <1>2. entity \in Entity /\ [Next]_vars => (entity \in Entity)'
    BY EntityStays
  <1>3. entity \in Entity => PageAgrees
    BY Summarised DEF PageAgrees, RunsAgree
  <1> QED BY <1>1, <1>2, <1>3, PTL DEF Spec
=============================================================================
