---------------------------- MODULE WebHostProofs ----------------------------
(***************************************************************************)
(* Proofs about WebHost, for every set of processes and debounce threads,  *)
(* every number of columns, edits and midnights: types, that a restart     *)
(* loses neither a process nor an edit, that a server serves a schema that *)
(* is renamed throughout, and that the backup of a day is whole.           *)
(***************************************************************************)
EXTENDS WebHost, FiniteSetTheorems, TLAPS

Living  == {p \in Process : Alive(p)}
Renamed == [table |-> "new", columns |-> Columns, run |-> TRUE]
Before  == [table |-> "old", columns |-> 0, run |-> FALSE]
Server  == [state : {"starting", "serving", "dead"}, code : 0..MaxVersion,
            step : {"check", "table", "columns", "run", "backup", "bind", "done"},
            saving : {"no", "mkdir", "vacuum", "copy"}, for : 0..MaxDay]
Thread  == [pc : {"idle", "poll", "wait", "spawn", "assign", "reload"},
            mine : Process \cup {None}]

\* The types; the clock; what a thread that is about to assign holds.
Types ==
  /\ version \in 0..MaxVersion /\ timer \in BOOLEAN /\ web \in Process
  /\ overlap \in BOOLEAN /\ cut \in BOOLEAN /\ day \in 0..MaxDay
  /\ thread \in [Threads -> Thread]
  /\ \A t \in Threads : thread[t].pc = "assign" => thread[t].mine \in Process
  /\ proc \in [Process -> Server]
  /\ schema \in [table : {"old", "new"}, columns : 0..Columns, run : BOOLEAN]
  /\ backup \in [0..MaxDay -> {"none", "begun", "whole", "copied", "failed"}]

\* The port is bound once; the steps of a process fit its state.
OneServes == \A p, q \in Serving : p = q
Stages ==
  \A p \in Process :
    /\ proc[p].state = "serving" => proc[p].step = "bind"
    /\ proc[p].state = "dead" => proc[p].step = "done" /\ proc[p].saving = "no"
    /\ proc[p].state = "starting" /\ proc[p].saving # "no" => proc[p].step = "backup"

\* One process renames the columns, for one found the table of the old name.
Renames ==
  /\ schema.table = "old" => schema = Before
  /\ \A p, q \in Process : Renaming(p) /\ Renaming(q) => p = q
  /\ \A p \in Process : Renaming(p) =>
       /\ schema.table = "new" /\ ~schema.run
       /\ IF proc[p].step = "columns" THEN schema.columns < Columns ELSE schema.columns = Columns

\* While the handle is not replaced by two threads at once: a thread that waits or
\* spawns has left no process alive, one that assigns holds the only one, and else
\* it is the one of the handle.
Alone ==
  ~overlap =>
    /\ \A t, u \in Threads : Replacing(t) /\ Replacing(u) => t = u
    /\ \A t \in Threads : thread[t].pc \in {"wait", "spawn"} => Living = {}
    /\ \A t \in Threads : thread[t].pc = "assign" => Living \subseteq {thread[t].mine}
    /\ (\A t \in Threads : ~Replacing(t)) => Living \subseteq {web}

\* An edit that no living process has imported has the timer running.
Fresh == ~overlap /\ ~timer => \A p \in Living : proc[p].code = version

\* A schema between the two is being renamed; who is past the renames found none left.
InOrder ==
  ~overlap /\ ~cut =>
    /\ schema \in {Before, Renamed} \/ \E p \in Process : Renaming(p)
    /\ \A p \in Process : proc[p].step \in {"backup", "bind"} => schema = Renamed

\* What one who makes a backup finds; a backup that is begun is being made, unless one
\* who made it died.
Saved ==
  ~overlap =>
    /\ \A p \in Process :
         /\ proc[p].saving = "mkdir" => backup[proc[p].for] = "none"
         /\ proc[p].saving = "vacuum" => backup[proc[p].for] = "begun"
         /\ proc[p].saving = "copy" => backup[proc[p].for] = "failed"
    /\ \A d \in 0..MaxDay :
         \/ backup[d] \in {"none", "whole", "failed"}
         \/ backup[d] = "begun" /\ (cut \/ \E p \in Process : Filling(p) /\ proc[p].for = d)

Inductive == /\ Types /\ OneServes /\ Stages /\ Renames
             /\ Alone /\ Fresh /\ InOrder /\ Saved

-----------------------------------------------------------------------------
\* A process that is started, or dies, keeps its place among the processes.
LEMMA Servers ==
  /\ Gone \in Server
  /\ \A v \in 0..MaxVersion :
       [state |-> "starting", code |-> v, step |-> "check", saving |-> "no", for |-> 0] \in Server
  BY HostAssumption DEF Gone, Server

\* What a server process does for itself: the daemon and the other processes see
\* nothing of it, its code stays and it does not come back to life.
ByItself(p) ==
  /\ UNCHANGED daemon
  /\ proc' \in [Process -> Server]
  /\ \A q \in Process \ {p} : proc'[q] = proc[q]
  /\ proc'[p].state # "dead" => proc[p].state # "dead" /\ proc'[p].code = proc[p].code

\* It is so when its record is replaced by one of the same code, or by a dead one.
LEMMA Itself ==
  ASSUME Types, UNCHANGED daemon, NEW p \in Process, NEW r \in Server,
         proc' = [proc EXCEPT ![p] = r],
         r.state # "dead" => proc[p].state # "dead" /\ r.code = proc[p].code
  PROVE  ByItself(p)
  BY DEF Types, ByItself

LEMMA ServersAct ==
  ASSUME Types, Stages, NEW p \in Process, Crash(p) \/ Start(p)
  PROVE  ByItself(p) /\ UNCHANGED daemon
  <1> DEFINE r == proc[p]
  <1> USE DEF Server
  <1>1. CASE proc' = Dead(p) /\ UNCHANGED daemon
    BY <1>1, Servers, Itself, Zenon DEF Dead, Gone
  <1>2. ASSUME NEW step \in {"check", "table", "columns", "run", "backup", "bind"},
               Step(p, proc[p].step, step)
        PROVE  ByItself(p) /\ UNCHANGED daemon
    <2>1. proc' = [proc EXCEPT ![p] = [r EXCEPT !.step = step]]
      BY <1>2 DEF Step, Types
    <2>2. [r EXCEPT !.step = step] \in Server /\ [r EXCEPT !.step = step].state = r.state
          /\ [r EXCEPT !.step = step].code = r.code
      BY DEF Types
    <2>3. r.state = "starting" /\ UNCHANGED daemon
      BY <1>2 DEF Step
    <2> QED BY <2>1, <2>2, <2>3, Itself
  <1>3. CASE CheckBackup(p)
    <2> DEFINE new == IF backup[day] # "none" THEN [r EXCEPT !.step = "bind", !.for = day]
                      ELSE [r EXCEPT !.saving = "mkdir", !.for = day]
    <2>1. proc' = [proc EXCEPT ![p] = new] /\ UNCHANGED daemon /\ r.state # "dead"
      BY <1>3 DEF CheckBackup, Due, Types
    <2>2. r \in Server /\ day \in 0..MaxDay
      BY DEF Types
    <2>3. CASE backup[day] # "none"
      BY <2>1, <2>2, <2>3, Itself
    <2>4. CASE backup[day] = "none"
      BY <2>1, <2>2, <2>4, Itself
    <2> QED BY <2>3, <2>4
  <1>4. ASSUME NEW s \in {"vacuum", "copy"}, proc' = [proc EXCEPT ![p].saving = s],
               r.saving # "no", UNCHANGED daemon
        PROVE  ByItself(p)
    <2> DEFINE new == [r EXCEPT !.saving = s]
    <2>1. proc' = [proc EXCEPT ![p] = new] /\ r.state # "dead"
      BY <1>4 DEF Types, Stages
    <2>2. new \in Server /\ new.state = r.state /\ new.code = r.code
      BY DEF Types
    <2> HIDE DEF new
    <2> QED BY <1>4, <2>1, <2>2, Itself
  <1>5. ASSUME proc' = [proc EXCEPT ![p].saving = "no", ![p].step = "bind"],
               r.saving # "no", UNCHANGED daemon
        PROVE  ByItself(p)
    <2> DEFINE new == [r EXCEPT !.saving = "no", !.step = "bind"]
    <2>1. proc' = [proc EXCEPT ![p] = new] /\ r.state # "dead"
      BY <1>5 DEF Types, Stages
    <2>2. new \in Server /\ new.state = r.state /\ new.code = r.code
      BY DEF Types
    <2> HIDE DEF new
    <2> QED BY <1>5, <2>1, <2>2, Itself
  <1>12. CASE MakeDirectory(p) \/ Vacuum(p) \/ VacuumFails(p) \/ Copy(p)
    <2>1. r.saving # "no" /\ UNCHANGED daemon
      BY <1>12 DEF MakeDirectory, Vacuum, VacuumFails, Copy
    <2>2. \/ \E s \in {"vacuum", "copy"} : proc' = [proc EXCEPT ![p].saving = s]
          \/ proc' = [proc EXCEPT ![p].saving = "no", ![p].step = "bind"]
      BY <1>12 DEF MakeDirectory, Vacuum, VacuumFails, Copy
    <2> QED BY <2>1, <2>2, <1>4, <1>5
  <1>6. CASE Bind(p) /\ Serving = {}
    <2> DEFINE new == [r EXCEPT !.state = "serving"]
    <2>1. proc' = [proc EXCEPT ![p] = new] /\ UNCHANGED daemon /\ r.state # "dead"
      BY <1>6 DEF Bind, Types
    <2>2. new \in Server /\ new.code = r.code
      BY DEF Types
    <2> HIDE DEF new
    <2> QED BY <2>1, <2>2, Itself
  <1>7. Crash(p) \/ Refused(p) \/ (Bind(p) /\ Serving # {}) => proc' = Dead(p) /\ UNCHANGED daemon
    BY DEF Crash, Refused, Bind
  <1>8. CASE CheckTable(p)
    BY <1>2, <1>8 DEF CheckTable, Step
  <1>9. CASE RenameTable(p)
    BY <1>2, <1>9 DEF RenameTable, Step
  <1>10. CASE RenameColumn(p)
    BY <1>2, <1>10 DEF RenameColumn, Step
  <1>11. CASE RenameRunColumn(p)
    BY <1>2, <1>11 DEF RenameRunColumn, Step
  <1> QED
    BY <1>1, <1>3, <1>6, <1>7, <1>8, <1>9, <1>10, <1>11, <1>12 DEF Start

\* Nobody who acts by itself disturbs what the daemon knows of the living.
LEMMA DaemonUndisturbed ==
  ASSUME Types, Alone, Fresh, NEW p \in Process, ByItself(p)
  PROVE  Alone' /\ Fresh'
  <1>1. ASSUME NEW q \in Living'
        PROVE  q \in Living /\ proc'[q].code = proc[q].code
    BY <1>1 DEF ByItself, Living, Alive, Types, Server
  <1>2. UNCHANGED <<version, timer, thread, web, overlap>>
    BY DEF ByItself, daemon
  <1>3. Alone'
    BY <1>1, <1>2 DEF Alone, Replacing
  <1>4. Fresh'
    BY <1>1, <1>2 DEF Fresh
  <1> QED BY <1>3, <1>4

\* While the handle is not replaced by two threads at once, one process lives.
LEMMA OneLives ==
  ASSUME Types, Alone, ~overlap, NEW p \in Living, NEW q \in Living
  PROVE  p = q
  BY DEF Alone, Types, Replacing
-----------------------------------------------------------------------------
\* A thread that goes anywhere but to assign keeps its type.
LEMMA Goes ==
  ASSUME Types, NEW t \in Threads, NEW x \in {"idle", "poll", "wait", "spawn", "reload"},
         thread' = [thread EXCEPT ![t].pc = x]
  PROVE  /\ thread' \in [Threads -> Thread]
         /\ \A u \in Threads : thread'[u].pc = "assign" => thread'[u].mine \in Process
  <1>1. thread \in [Threads -> Thread]
    BY DEF Types
  <1>2. thread' \in [Threads -> Thread]
    BY <1>1 DEF Thread
  <1>3. thread'[t].pc = x
    BY <1>1 DEF Thread
  <1>4. \A u \in Threads \ {t} : thread'[u] = thread[u]
    BY <1>1
  <1> QED BY <1>2, <1>3, <1>4 DEF Types

\* The types are kept.  A column can be renamed only while one is left.
LEMMA TypesKept ==
  ASSUME Inductive, [Next]_vars
  PROVE  Types'
  <1> USE HostAssumption
  <1>0. Types
    BY DEF Inductive
  <1>1. CASE Change
    BY <1>0, <1>1 DEF Change, host, Types
  <1>2. ASSUME NEW t \in Restarter, Flush(t)
        PROVE  Types'
    <2>1. Dead(web) \in [Process -> Server]
      BY <1>0, Servers DEF Types, Dead
    <2>2. /\ thread' \in [Threads -> Thread]
          /\ \A u \in Threads : thread'[u].pc = "assign" => thread'[u].mine \in Process
      BY <1>0, <1>2, Goes DEF Flush, Threads
    <2>3. overlap' \in BOOLEAN /\ cut' \in BOOLEAN /\ proc' \in [Process -> Server]
      BY <1>0, <1>2, <2>1 DEF Flush, Overlapping, Torn, Types
    <2> QED BY <1>0, <1>2, <2>2, <2>3 DEF Flush, host, Types
  <1>3. ASSUME NEW t \in Threads, Wait(t) \/ Assign(t) \/ Reload(t)
        PROVE  Types'
    <2>1. CASE Wait(t) \/ Reload(t)
      BY <1>0, <2>1, Goes DEF Wait, Reload, host, Types
    <2>2. CASE Assign(t)
      <3>1. /\ thread' \in [Threads -> Thread]
            /\ \A u \in Threads : thread'[u].pc = "assign" => thread'[u].mine \in Process
        BY <1>0, <2>2 DEF Assign, Types, Thread
      <3> QED BY <1>0, <2>2, <3>1 DEF Assign, host, Types
    <2> QED BY <1>3, <2>1, <2>2
  <1>4. ASSUME NEW t \in Threads, WaitExpired(t)
        PROVE  Types'
    <2>1. Dead(web) \in [Process -> Server]
      BY <1>0, Servers DEF Types, Dead
    <2> QED BY <1>0, <1>4, <2>1, Goes DEF WaitExpired, Torn, host, Types
  <1>5. ASSUME NEW t \in Threads, Spawn(t)
        PROVE  Types'
    <2>1. PICK p \in Process :
            /\ proc' = [proc EXCEPT ![p] = [state |-> "starting", code |-> version, step |-> "check",
                                            saving |-> "no", for |-> 0]]
            /\ thread' = [thread EXCEPT ![t] = [pc |-> "assign", mine |-> p]]
      BY <1>5 DEF Spawn, Free
    <2>2. proc' \in [Process -> Server]
      BY <1>0, <2>1, Servers DEF Types
    <2>3. /\ thread' \in [Threads -> Thread]
          /\ \A u \in Threads : thread'[u].pc = "assign" => thread'[u].mine \in Process
      BY <1>0, <2>1 DEF Types, Thread
    <2> QED BY <1>0, <1>5, <2>2, <2>3 DEF Spawn, host, Types
  <1>6. CASE Poll
    BY <1>0, <1>6 DEF Poll, Overlapping, host, Types, Thread, Threads
  <1>7. ASSUME NEW p \in Process, Crash(p) \/ Start(p)
        PROVE  Types'
    <2>1. ByItself(p)
      BY <1>0, <1>7, ServersAct DEF Inductive
    <2>2. /\ day' = day /\ cut' \in BOOLEAN
          /\ schema' \in [table : {"old", "new"}, columns : 0..Columns, run : BOOLEAN]
      <3>1. CASE RenameColumn(p)
        <4>1. schema.columns + 1 \in 0..Columns
          BY <1>0, <3>1 DEF RenameColumn, Step, Inductive, Renames, Renaming, Types
        <4> QED BY <1>0, <3>1, <4>1 DEF RenameColumn, Step, Types
      <3>2. CASE ~RenameColumn(p)
        BY <1>0, <1>7, <3>2 DEF Crash, Torn, host, Start, CheckTable, RenameTable, RenameRunColumn, Refused,
           CheckBackup, MakeDirectory, Vacuum, VacuumFails, Copy, Bind, Step, Types
      <3> QED BY <3>1, <3>2
    <2>3. backup' \in [0..MaxDay -> {"none", "begun", "whole", "copied", "failed"}]
      BY <1>0, <1>7 DEF Crash, host, Start, CheckTable, RenameTable, RenameColumn, RenameRunColumn,
         Refused, CheckBackup, MakeDirectory, Vacuum, VacuumFails, Copy, Bind, Types
    <2> QED BY <1>0, <2>1, <2>2, <2>3 DEF Types, ByItself, daemon
  <1>8. CASE Midnight
    BY <1>0, <1>8 DEF Midnight, daemon, Types
  <1>9. CASE UNCHANGED vars
    BY <1>0, <1>9 DEF vars, daemon, host, Types
  <1> QED
    BY <1>1, <1>2, <1>3, <1>4, <1>5, <1>6, <1>7, <1>8, <1>9 DEF Next, Restart, Threads

\* The port and the steps: what another process does changes nothing here.
LEMMA StagesKept ==
  ASSUME Inductive, [Next]_vars
  PROVE  OneServes' /\ Stages'
  <1> USE DEF Inductive, Types, OneServes, Stages, Serving
  <1>1. ASSUME NEW p \in Process, NEW r \in Server, proc' = [proc EXCEPT ![p] = r],
               r.state = "serving" => r.step = "bind" /\ (proc[p].state = "serving" \/ Serving = {}),
               r.state = "dead" => r.step = "done" /\ r.saving = "no",
               r.state = "starting" /\ r.saving # "no" => r.step = "backup"
        PROVE  OneServes' /\ Stages'
    BY <1>1
  <1>2. ASSUME NEW p \in Process, proc' = Dead(p)
        PROVE  OneServes' /\ Stages'
    BY <1>1, <1>2, Servers DEF Dead, Gone
  <1>3. CASE UNCHANGED proc
    BY <1>3
  <1>4. ASSUME NEW t \in Threads, Flush(t) \/ Restart(t) \/ Poll
        PROVE  OneServes' /\ Stages'
    <2>1. CASE Spawn(t)
      <3>1. PICK p \in Process :
              proc' = [proc EXCEPT ![p] = [state |-> "starting", code |-> version, step |-> "check",
                                           saving |-> "no", for |-> 0]]
        BY <2>1 DEF Spawn, Free
      <3> QED BY <1>1, <3>1, Servers
    <2>2. CASE Flush(t) \/ WaitExpired(t)
      BY <1>2, <1>3, <2>2 DEF Flush, WaitExpired
    <2>3. CASE Wait(t) \/ Assign(t) \/ Reload(t) \/ Poll
      BY <1>3, <2>3 DEF Wait, Assign, Reload, Poll
    <2> QED BY <1>4, <2>1, <2>2, <2>3 DEF Restart
  <1>5. ASSUME NEW p \in Process, Crash(p) \/ Start(p)
        PROVE  OneServes' /\ Stages'
    <2> DEFINE r == proc[p]
    <2>1. CASE Crash(p) \/ Refused(p) \/ (Bind(p) /\ Serving # {})
      BY <1>2, <2>1 DEF Crash, Refused, Bind
    <2>2. CASE CheckTable(p) \/ RenameTable(p) \/ RenameColumn(p) \/ RenameRunColumn(p)
      <3>1. PICK step \in {"table", "columns", "run", "backup"} :
              proc' = [proc EXCEPT ![p] = [r EXCEPT !.step = step]]
        BY <2>2 DEF CheckTable, RenameTable, RenameColumn, RenameRunColumn, Step
      <3>2. r.state = "starting" /\ r.saving = "no"
        BY <2>2 DEF CheckTable, RenameTable, RenameColumn, RenameRunColumn, Step
      <3> QED BY <1>1, <3>1, <3>2 DEF Server
    <2>3. CASE CheckBackup(p)
      <3>1. Due(p) /\ r.saving = "no"
        BY <2>3 DEF CheckBackup
      <3>2. CASE backup[day] # "none"
        <4>1. proc' = [proc EXCEPT ![p] = [r EXCEPT !.step = "bind", !.for = day]]
          BY <2>3, <3>2 DEF CheckBackup
        <4> QED BY <1>1, <3>1, <4>1 DEF Due, Server
      <3>3. CASE backup[day] = "none"
        <4>1. proc' = [proc EXCEPT ![p] = [r EXCEPT !.saving = "mkdir", !.for = day]]
          BY <2>3, <3>3 DEF CheckBackup
        <4> QED BY <1>1, <3>1, <4>1 DEF Due, Server
      <3> QED BY <3>2, <3>3
    <2>4. CASE MakeDirectory(p) \/ Vacuum(p) \/ VacuumFails(p) \/ Copy(p)
      <3>1. r \in Server /\ r.state # "dead" /\ r.saving # "no"
        BY <2>4 DEF MakeDirectory, Vacuum, VacuumFails, Copy
      <3>2. ASSUME NEW s \in {"vacuum", "copy"}, proc' = [proc EXCEPT ![p].saving = s]
            PROVE  OneServes' /\ Stages'
        <4> DEFINE new == [r EXCEPT !.saving = s]
        <4>1. new \in Server /\ new.state = r.state /\ new.step = r.step
          BY <3>1 DEF Server
        <4>2. proc' = [proc EXCEPT ![p] = new]
          BY <3>2
        <4> HIDE DEF new
        <4> QED BY <1>1, <3>1, <4>1, <4>2
      <3>3. CASE proc' = [proc EXCEPT ![p].saving = "no", ![p].step = "bind"]
        <4> DEFINE new == [r EXCEPT !.saving = "no", !.step = "bind"]
        <4>1. new \in Server /\ new.state = r.state /\ new.step = "bind" /\ new.saving = "no"
          BY <3>1 DEF Server
        <4>2. proc' = [proc EXCEPT ![p] = new]
          BY <3>3
        <4> HIDE DEF new
        <4> QED BY <1>1, <3>1, <4>1, <4>2
      <3>4. \/ \E s \in {"vacuum", "copy"} : proc' = [proc EXCEPT ![p].saving = s]
            \/ proc' = [proc EXCEPT ![p].saving = "no", ![p].step = "bind"]
        BY <2>4 DEF MakeDirectory, Vacuum, VacuumFails, Copy
      <3> QED BY <3>2, <3>3, <3>4
    <2>5. CASE Bind(p) /\ Serving = {}
      BY <2>5 DEF Bind, Server
    <2> QED BY <1>5, <2>1, <2>2, <2>3, <2>4, <2>5 DEF Start
  <1>6. CASE Change \/ Midnight \/ UNCHANGED vars
    BY <1>3, <1>6 DEF Change, Midnight, vars
  <1> QED
    BY <1>4, <1>5, <1>6 DEF Next, Restart, Threads

\* The renames: who passes the guard of the first is the only one behind it.
LEMMA RenamesKept ==
  ASSUME Inductive, [Next]_vars
  PROVE  Renames'
  <1> USE HostAssumption DEF Inductive, Types, Renames, Renaming
  <1>1. ASSUME UNCHANGED schema,
               \A p \in Process : proc'[p].step = proc[p].step \/ ~Renaming(p)'
        PROVE  Renames'
    BY <1>1
  <1>2. \A p, q \in Process : Dead(q)[p].step \in {proc[p].step, "done"}
    BY DEF Dead, Gone
  <1>3. ASSUME NEW t \in Threads, Flush(t) \/ Restart(t) \/ Poll
        PROVE  Renames'
    <2>1. CASE Spawn(t)
      <3>1. PICK p \in Process :
              proc' = [proc EXCEPT ![p] = [state |-> "starting", code |-> version, step |-> "check",
                                           saving |-> "no", for |-> 0]]
        BY <2>1 DEF Spawn, Free
      <3> QED BY <1>1, <2>1, <3>1 DEF Spawn, host
    <2>2. CASE Flush(t) \/ WaitExpired(t)
      BY <1>1, <1>2, <2>2 DEF Flush, WaitExpired, host
    <2>3. CASE Wait(t) \/ Assign(t) \/ Reload(t) \/ Poll
      BY <1>1, <2>3 DEF Wait, Assign, Reload, Poll, host
    <2> QED BY <1>3, <2>1, <2>2, <2>3 DEF Restart
  <1>4. ASSUME NEW p \in Process, Crash(p) \/ Start(p)
        PROVE  Renames'
    <2>1. CASE Crash(p) \/ Refused(p) \/ (Bind(p) /\ Serving # {})
      BY <1>1, <1>2, <2>1 DEF Crash, Refused, Bind, host
    <2>2. CASE CheckTable(p)
      BY <1>1, <2>2 DEF CheckTable, Step, host, Server
    <2>3. CASE \/ CheckBackup(p) \/ MakeDirectory(p) \/ Vacuum(p) \/ VacuumFails(p)
               \/ Copy(p) \/ (Bind(p) /\ Serving = {})
      <3>1. CASE CheckBackup(p)
        <4>1. \A q \in Process : proc'[q].step \in {proc[q].step, "bind"}
          BY <3>1 DEF CheckBackup, Server
        <4> QED BY <1>1, <3>1, <4>1 DEF CheckBackup, host
      <3>2. CASE MakeDirectory(p) \/ Vacuum(p) \/ VacuumFails(p) \/ Copy(p)
        <4>1. \/ \E s \in {"vacuum", "copy"} : proc' = [proc EXCEPT ![p].saving = s]
              \/ proc' = [proc EXCEPT ![p].saving = "no", ![p].step = "bind"]
          BY <3>2 DEF MakeDirectory, Vacuum, VacuumFails, Copy
        <4>2. ASSUME NEW s \in {"vacuum", "copy"}, proc' = [proc EXCEPT ![p].saving = s]
              PROVE  \A q \in Process : proc'[q].step = proc[q].step
          BY <4>2 DEF Server
        <4>3. ASSUME proc' = [proc EXCEPT ![p].saving = "no", ![p].step = "bind"]
              PROVE  \A q \in Process : proc'[q].step \in {proc[q].step, "bind"}
          BY <4>3 DEF Server
        <4>4. \A q \in Process : proc'[q].step = proc[q].step \/ ~Renaming(q)'
          BY <4>1, <4>2, <4>3
        <4> QED BY <1>1, <3>2, <4>4 DEF MakeDirectory, Vacuum, VacuumFails, Copy
      <3>4. CASE Bind(p) /\ Serving = {}
        BY <1>1, <3>4 DEF Bind, host, Server
      <3> QED BY <2>3, <3>1, <3>2, <3>4
    <2>4. CASE RenameTable(p)
      <3>1. schema = Before /\ \A q \in Process : ~Renaming(q)
        BY <2>4 DEF RenameTable
      <3>2. schema'.table = "new" /\ schema'.columns = 0 /\ ~schema'.run /\ 0 < Columns
        BY <2>4, <3>1 DEF RenameTable, Before
      <3>3. /\ proc'[p].step = "columns"
            /\ \A q \in Process \ {p} : proc'[q].step = proc[q].step
        BY <2>4 DEF RenameTable, Step, Server
      <3> QED BY <3>1, <3>2, <3>3
    <2>5. CASE RenameColumn(p)
      <3>1. schema.table = "new" /\ ~schema.run /\ schema.columns < Columns
        BY <2>5 DEF RenameColumn, Step
      <3>2. schema'.table = "new" /\ schema'.columns = schema.columns + 1 /\ ~schema'.run
        BY <2>5, <3>1 DEF RenameColumn
      <3>3. /\ proc'[p].step = IF schema.columns + 1 = Columns THEN "run" ELSE "columns"
            /\ \A q \in Process \ {p} : proc'[q].step = proc[q].step
        BY <2>5 DEF RenameColumn, Step, Server
      <3>4. \A q \in Process \ {p} : ~Renaming(q)
        BY <2>5 DEF RenameColumn, Step
      <3> QED BY <3>1, <3>2, <3>3, <3>4
    <2>6. CASE RenameRunColumn(p)
      <3>1. schema'.table = "new" /\ \A q \in Process \ {p} : ~Renaming(q)
        BY <2>6 DEF RenameRunColumn, Step
      <3>2. /\ proc'[p].step = "backup"
            /\ \A q \in Process \ {p} : proc'[q].step = proc[q].step
        BY <2>6 DEF RenameRunColumn, Step, Server
      <3> QED BY <3>1, <3>2
    <2> QED BY <1>4, <2>1, <2>2, <2>3, <2>4, <2>5, <2>6 DEF Start
  <1>5. CASE Change \/ Midnight \/ UNCHANGED vars
    BY <1>1, <1>5 DEF Change, Midnight, vars, host
  <1> QED
    BY <1>3, <1>4, <1>5 DEF Next, Restart, Threads

\* The daemon: a thread that kills the handle, or finds it dead, while no other thread
\* is replacing it, leaves nothing alive behind; what it spawns is the only process,
\* and has imported the code of that moment.
LEMMA AloneKept ==
  ASSUME Inductive, [Next]_vars
  PROVE  Alone' /\ Fresh'
  <1> USE DEF Inductive, Types
  <1>1. CASE Change
    BY <1>1 DEF Change, host, Alone, Fresh, Living, Alive, Replacing
  <1>2. ASSUME NEW t \in Threads, Flush(t) \/ Poll, Flush(t) \/ t = Main
        PROVE  Alone' /\ Fresh'
    <2>1. SUFFICES ASSUME ~overlap'
                   PROVE  Alone' /\ Fresh'
      BY DEF Alone, Fresh
    <2>2. ~overlap /\ \A u \in Threads \ {t} : ~Replacing(u)
      BY <1>2, <2>1 DEF Flush, Poll, Overlapping
    <2>3. ~Replacing(t)
      BY <1>2 DEF Flush, Poll, Replacing
    <2>4. Living \subseteq {web}
      BY <2>2, <2>3 DEF Alone
    <2>5. Living' = {}
      BY <1>2, <2>4 DEF Flush, Poll, Living, Alive, Dead, Gone
    <2>6. /\ thread'[t].pc \in {"wait", "spawn"}
          /\ \A u \in Threads \ {t} : thread'[u] = thread[u]
      BY <1>2 DEF Flush, Poll, Thread, Threads
    <2> QED BY <2>2, <2>5, <2>6 DEF Alone, Fresh, Replacing
  <1>3. ASSUME NEW t \in Threads, Wait(t) \/ Reload(t)
        PROVE  Alone' /\ Fresh'
    <2>1. /\ thread'[t].pc \in {"spawn", "idle"} /\ (Replacing(t)' <=> Replacing(t))
          /\ thread'[t].pc = "spawn" => thread[t].pc = "wait"
          /\ \A u \in Threads \ {t} : thread'[u] = thread[u]
      BY <1>3 DEF Wait, Reload, Thread, Replacing
    <2>2. UNCHANGED <<version, timer, web, overlap, proc>>
      BY <1>3 DEF Wait, Reload
    <2> QED BY <2>1, <2>2 DEF Alone, Fresh, Living, Alive, Replacing
  <1>4. ASSUME NEW t \in Threads, WaitExpired(t)
        PROVE  Alone' /\ Fresh'
    <2>1. web \in Living /\ thread[t].pc = "wait" /\ overlap' = overlap
      BY <1>4 DEF WaitExpired, Living
    <2>2. overlap
      BY <2>1 DEF Alone
    <2> QED BY <2>1, <2>2 DEF Alone, Fresh
  <1>5. ASSUME NEW t \in Threads, Spawn(t)
        PROVE  Alone' /\ Fresh'
    <2>1. SUFFICES ASSUME ~overlap
                   PROVE  Alone' /\ Fresh'
      BY <1>5 DEF Spawn, Alone, Fresh
    <2>2. PICK p \in Process :
            /\ proc' = [proc EXCEPT ![p] = [state |-> "starting", code |-> version, step |-> "check",
                                            saving |-> "no", for |-> 0]]
            /\ thread' = [thread EXCEPT ![t] = [pc |-> "assign", mine |-> p]]
      BY <1>5 DEF Spawn, Free
    <2>3. thread[t].pc = "spawn" /\ Living = {}
      BY <1>5, <2>1 DEF Spawn, Alone
    <2>4. Living' \subseteq {p} /\ proc'[p].code = version
      BY <2>2, <2>3 DEF Living, Alive
    <2>5. /\ thread'[t].pc = "assign" /\ thread'[t].mine = p
          /\ \A u \in Threads \ {t} : thread'[u] = thread[u] /\ ~Replacing(u)
      BY <2>1, <2>2, <2>3 DEF Alone, Replacing
    <2> QED BY <1>5, <2>4, <2>5 DEF Spawn, Alone, Fresh, Replacing
  <1>6. ASSUME NEW t \in Threads, Assign(t)
        PROVE  Alone' /\ Fresh'
    <2>1. SUFFICES ASSUME ~overlap
                   PROVE  Alone' /\ Fresh'
      BY <1>6 DEF Assign, Alone, Fresh
    <2>2. Living \subseteq {thread[t].mine} /\ \A u \in Threads \ {t} : ~Replacing(u)
      BY <1>6, <2>1 DEF Assign, Alone, Replacing
    <2>3. Living' = Living /\ web' = thread[t].mine
      BY <1>6 DEF Assign, Living, Alive
    <2>4. ~Replacing(t)' /\ \A u \in Threads \ {t} : thread'[u] = thread[u]
      BY <1>6 DEF Assign, Replacing
    <2> QED BY <1>6, <2>2, <2>3, <2>4 DEF Assign, Alone, Fresh, Replacing
  <1>7. ASSUME NEW p \in Process, Crash(p) \/ Start(p)
        PROVE  Alone' /\ Fresh'
    BY <1>7, ServersAct, DaemonUndisturbed
  <1>8. CASE Midnight \/ UNCHANGED vars
    BY <1>8 DEF Midnight, daemon, vars, Alone, Fresh, Living, Alive, Replacing
  <1> QED
    BY <1>1, <1>2, <1>3, <1>4, <1>5, <1>6, <1>7, <1>8 DEF Next, Restart, Threads

\* A death: either in the middle of something, which is excused, or of a process that
\* neither renamed nor saved.
LEMMA DeathsExcused ==
  ASSUME Types, Stages, InOrder, Saved, NEW p \in Process, proc' = Dead(p),
         UNCHANGED <<overlap, schema, backup>>, Torn(p) \/ (UNCHANGED cut /\ ~Renaming(p) /\ proc[p].saving = "no")
  PROVE  InOrder' /\ Saved'
  <1>1. proc'[p] = Gone /\ \A q \in Process \ {p} : proc'[q] = proc[q]
    BY DEF Dead, Types
  <1>2. ~cut' => ~cut /\ ~Renaming(p)
    BY DEF Torn
  <1>3. InOrder'
    BY <1>1, <1>2 DEF InOrder, Renaming, Gone, Before, Renamed
  <1>6. Saved'
    <2> SUFFICES ASSUME ~overlap
                 PROVE  Saved'
      BY DEF Saved
    <2>1. \A q \in Process : proc'[q] = proc[q] \/ proc'[q].saving = "no"
      BY <1>1 DEF Gone
    <2>2. ASSUME NEW d \in 0..MaxDay
          PROVE  \/ backup[d] \in {"none", "whole", "failed"}
                 \/ backup[d] = "begun" /\ (cut' \/ \E q \in Process : Filling(q)' /\ proc'[q].for = d)
      <3>1. CASE backup[d] \in {"none", "whole", "failed"} \/ cut'
        BY <3>1 DEF Saved
      <3>2. CASE ~cut' /\ backup[d] \notin {"none", "whole", "failed"}
        <4>1. ~Filling(p) /\ ~cut
          <5>1. CASE Torn(p)
            BY <3>2, <5>1 DEF Torn
          <5>2. CASE UNCHANGED cut /\ proc[p].saving = "no"
            BY <3>2, <5>2 DEF Filling
          <5> QED BY <5>1, <5>2
        <4>2. PICK q \in Process : Filling(q) /\ proc[q].for = d
          BY <3>2, <4>1 DEF Saved
        <4>3. q # p /\ backup[d] = "begun"
          BY <3>2, <4>1, <4>2 DEF Saved
        <4> QED BY <1>1, <4>2, <4>3 DEF Filling
      <3> QED BY <3>1, <3>2
    <2> QED BY <2>1, <2>2 DEF Saved
  <1> QED BY <1>3, <1>6

\* The renames and the backup, while processes follow each other.
LEMMA WholeKept ==
  ASSUME Inductive, [Next]_vars
  PROVE  InOrder' /\ Saved'
  <1> USE DEF Inductive, Types
  <1>1. CASE UNCHANGED <<proc, schema, backup, cut>> /\ (overlap => overlap')
    BY <1>1 DEF InOrder, Saved, Renaming, Filling, Before, Renamed
  <1>2. ASSUME NEW t \in Threads, Flush(t) \/ Restart(t) \/ Poll
        PROVE  InOrder' /\ Saved'
    <2>1. CASE Spawn(t)
      <3>1. PICK p \in Process : /\ ~Alive(p)
                                 /\ proc' = [proc EXCEPT ![p] = [state |-> "starting", code |-> version,
                                      step |-> "check", saving |-> "no", for |-> 0]]
        BY <2>1 DEF Spawn, Free
      <3>2. /\ ~Renaming(p) /\ proc[p].saving = "no"
            /\ proc'[p].step = "check" /\ proc'[p].saving = "no"
            /\ \A q \in Process \ {p} : proc'[q] = proc[q]
        BY <3>1 DEF Alive, Renaming, Stages, Server
      <3>3. UNCHANGED <<overlap, cut, schema, backup>>
        BY <2>1 DEF Spawn, host
      <3>4. InOrder'
        BY <3>2, <3>3 DEF InOrder, Renaming, Before, Renamed
      <3>5. Saved'
        BY <3>2, <3>3 DEF Saved, Filling
      <3> QED BY <3>4, <3>5
    <2>2. CASE Flush(t) /\ Alive(web)
      <3>1. proc' = Dead(web) /\ Torn(web) /\ UNCHANGED <<schema, backup>> /\ (overlap => overlap')
        BY <2>2 DEF Flush, Overlapping, host
      <3>2. CASE overlap'
        BY <3>2 DEF InOrder, Saved
      <3>3. CASE ~overlap'
        <4>1. UNCHANGED overlap
          BY <2>2, <3>1, <3>3 DEF Flush, Overlapping
        <4> QED BY <3>1, <4>1, DeathsExcused
      <3> QED BY <3>2, <3>3
    <2>3. CASE WaitExpired(t)
      BY <2>3, DeathsExcused DEF WaitExpired, host
    <2>4. CASE (Flush(t) /\ ~Alive(web)) \/ Wait(t) \/ Assign(t) \/ Reload(t) \/ Poll
      BY <1>1, <2>4 DEF Flush, Wait, Assign, Reload, Poll, host, Overlapping
    <2> QED BY <1>2, <2>1, <2>2, <2>3, <2>4 DEF Restart
  <1>3. ASSUME NEW p \in Process, Crash(p) \/ Refused(p) \/ (Bind(p) /\ Serving # {})
        PROVE  InOrder' /\ Saved'
    <2>1. proc' = Dead(p) /\ UNCHANGED <<overlap, schema, backup>>
      BY <1>3 DEF Crash, Refused, Bind, daemon, host
    <2>2. Torn(p) \/ (UNCHANGED cut /\ ~Renaming(p) /\ proc[p].saving = "no")
      BY <1>3 DEF Crash, Refused, Bind, Stages, Server, Renaming
    <2> QED BY <2>1, <2>2, DeathsExcused
  <1>4. ASSUME NEW p \in Process, Start(p), ~Refused(p), ~(Bind(p) /\ Serving # {})
        PROVE  InOrder' /\ Saved'
    <2>0. UNCHANGED <<overlap, cut>>
      <3>1. UNCHANGED overlap
        BY <1>4, ServersAct DEF daemon
      <3>2. UNCHANGED cut
        BY <1>4 DEF Start, CheckTable, RenameTable, RenameColumn, RenameRunColumn, CheckBackup,
           MakeDirectory, Vacuum, VacuumFails, Copy, Bind, Step
      <3> QED BY <3>1, <3>2
    <2>1. SUFFICES ASSUME ~overlap
                   PROVE  InOrder' /\ Saved'
      BY <2>0 DEF InOrder, Saved
    <2>2. p \in Living
      BY <1>4 DEF Living, Alive, Start, CheckTable, RenameTable, RenameColumn, RenameRunColumn,
         CheckBackup, Due, MakeDirectory, Vacuum, VacuumFails, Copy, Bind, Step, Stages, Server
    <2>3. \A q \in Process \ {p} : ~Renaming(q) /\ ~Filling(q) /\ proc[q].saving = "no"
                                   /\ proc[q].step = "done" /\ proc'[q] = proc[q]
      <3>1. ByItself(p)
        BY <1>4, ServersAct
      <3>2. \A q \in Process \ {p} : q \notin Living
        BY <2>1, <2>2, OneLives
      <3> QED BY <3>1, <3>2 DEF ByItself, Living, Alive, Stages, Renaming, Filling, Server
    <2>9. ASSUME UNCHANGED backup, proc'[p].saving = proc[p].saving, proc'[p].for = proc[p].for
          PROVE  Saved'
      BY <2>0, <2>1, <2>3, <2>9 DEF Saved, Filling
    <2>4. CASE CheckTable(p)
      <3>1. /\ proc'[p].step = IF schema.table = "old" THEN "table" ELSE "backup"
            /\ proc'[p].saving = "no" /\ proc[p].saving = "no" /\ ~Renaming(p)
            /\ proc[p].step = "check"
            /\ UNCHANGED <<schema, backup>>
        BY <2>4 DEF CheckTable, Step, Stages, Renaming, host, Server
      <3>2. ~cut => schema \in {Before, Renamed}
        BY <2>1, <2>3, <3>1 DEF InOrder
      <3>3. InOrder'
        BY <2>0, <2>3, <3>1, <3>2 DEF InOrder, Renaming, Before, Renamed
      <3>4. Saved'
        BY <2>4, <2>9, <3>1 DEF CheckTable, Step, Server
      <3> QED BY <3>3, <3>4
    <2>5. CASE RenameTable(p) \/ RenameColumn(p) \/ RenameRunColumn(p)
      <3>1. /\ proc'[p].saving = proc[p].saving /\ proc'[p].for = proc[p].for
            /\ UNCHANGED backup
        BY <2>5 DEF RenameTable, RenameColumn, RenameRunColumn, Step, Server
      <3>2. Saved'
        BY <2>9, <3>1
      <3>3. CASE proc'[p].step \in {"columns", "run"}
        BY <2>0, <2>3, <3>2, <3>3 DEF InOrder, Renaming
      <3>4. CASE proc'[p].step \notin {"columns", "run"}
        <4>1. RenameRunColumn(p)
          BY <2>5, <3>4 DEF RenameTable, RenameColumn, Step, Server
        <4>2. schema.table = "new" /\ schema.columns = Columns
          BY <4>1 DEF RenameRunColumn, Step, Renames, Renaming
        <4>3. schema' = Renamed
          BY <4>1, <4>2 DEF RenameRunColumn, Renamed
        <4> QED BY <3>2, <4>3 DEF InOrder
      <3> QED BY <3>2, <3>3, <3>4
    <2>6. CASE CheckBackup(p) \/ MakeDirectory(p) \/ Vacuum(p) \/ VacuumFails(p) \/ Copy(p)
      <3> DEFINE f == proc[p].for
      <3>1. proc[p].step \in {"backup", "bind"} /\ UNCHANGED schema /\ f \in 0..MaxDay
        BY <2>6 DEF CheckBackup, MakeDirectory, Vacuum, VacuumFails, Copy, Due, host, Stages, Server
      <3>2. ~cut => schema = Renamed
        BY <2>1, <3>1 DEF InOrder
      <3>3. InOrder'
        BY <2>0, <3>1, <3>2 DEF InOrder
      <3>4. CASE CheckBackup(p)
        <4>1. /\ proc[p].saving = "no" /\ UNCHANGED backup
              /\ \/ proc'[p].saving = "no"
                 \/ proc'[p].saving = "mkdir" /\ proc'[p].for = day /\ backup[day] = "none"
          <5>1. CASE backup[day] # "none"
            BY <3>4, <5>1 DEF CheckBackup, host, Server
          <5>2. CASE backup[day] = "none"
            BY <3>4, <5>2 DEF CheckBackup, host, Server
          <5> QED BY <5>1, <5>2
        <4> QED BY <2>0, <2>1, <2>3, <3>3, <4>1 DEF Saved, Filling
      <3>5. ASSUME UNCHANGED backup, proc'[p].saving = "no", backup[f] # "begun"
            PROVE  Saved'
        BY <2>0, <2>1, <2>3, <3>5 DEF Saved, Filling
      <3>6. CASE MakeDirectory(p)
        <4>1. backup[f] = "none"
          BY <2>1, <3>6 DEF MakeDirectory, Saved
        <4>2. CASE backup' = backup /\ proc' = [proc EXCEPT ![p].saving = "no", ![p].step = "bind"]
          BY <3>3, <3>5, <4>1, <4>2 DEF Server
        <4>3. CASE /\ backup' = [backup EXCEPT ![f] = IF @ = "none" THEN "begun" ELSE @]
                   /\ proc' = [proc EXCEPT ![p].saving = "vacuum"]
          <5>1. backup'[f] = "begun" /\ \A d \in 0..MaxDay \ {f} : backup'[d] = backup[d]
            BY <3>1, <4>1, <4>3
          <5>2. proc'[p].saving = "vacuum" /\ proc'[p].for = f /\ proc[p].saving = "mkdir"
            BY <3>6, <4>3 DEF MakeDirectory, Server
          <5> QED BY <2>0, <2>1, <2>3, <3>3, <5>1, <5>2 DEF Saved, Filling
        <4> QED BY <3>6, <4>2, <4>3 DEF MakeDirectory
      <3>7. ASSUME NEW b \in {"whole", "failed"}, NEW s \in {"no", "copy"}, s = "copy" => b = "failed",
                   backup' = [backup EXCEPT ![f] = b], proc'[p].saving = s, proc'[p].for = f
            PROVE  Saved'
        <4>1. backup'[f] = b /\ \A d \in 0..MaxDay \ {f} : backup'[d] = backup[d]
          BY <3>1, <3>7
        <4> QED BY <2>0, <2>1, <2>3, <3>7, <4>1 DEF Saved, Filling
      <3>8. CASE Vacuum(p)
        <4>1. backup[f] = "begun"
          BY <2>1, <3>8 DEF Vacuum, Saved
        <4>2. /\ proc'[p].saving = "no" /\ proc'[p].for = f
              /\ backup' = [backup EXCEPT ![f] = "whole"]
          BY <3>8, <4>1 DEF Vacuum, Server
        <4> QED BY <3>3, <3>7, <4>2
      <3>9. CASE VacuumFails(p)
        <4>1. /\ proc'[p].saving = "copy" /\ proc'[p].for = f
              /\ backup' = [backup EXCEPT ![f] = "failed"]
          BY <3>9 DEF VacuumFails, Server
        <4> QED BY <3>3, <3>7, <4>1
      <3>10. CASE Copy(p)
        <4>1. backup[f] = "failed"
          BY <2>1, <3>10 DEF Copy, Saved
        <4>2. backup' = backup /\ proc'[p].saving = "no"
          BY <3>1, <3>10, <4>1 DEF Copy, Server
        <4> QED BY <3>3, <3>5, <4>1, <4>2
      <3> QED BY <2>6, <3>4, <3>6, <3>8, <3>9, <3>10
    <2>7. CASE Bind(p) /\ Serving = {}
      <3>1. /\ proc'[p].step = proc[p].step /\ proc'[p].saving = proc[p].saving
            /\ proc'[p].for = proc[p].for /\ UNCHANGED <<schema, backup>>
        BY <2>7 DEF Bind, host, Server
      <3>2. InOrder'
        BY <2>0, <2>1, <2>3, <3>1 DEF InOrder, Renaming, Before, Renamed
      <3>3. Saved'
        BY <2>9, <3>1
      <3> QED BY <3>2, <3>3
    <2> QED BY <1>4, <2>4, <2>5, <2>6, <2>7 DEF Start
  <1>5. CASE Change \/ Midnight \/ UNCHANGED vars
    BY <1>1, <1>5 DEF Change, Midnight, daemon, host, vars
  <1> QED
    BY <1>2, <1>3, <1>4, <1>5 DEF Next, Restart, Start, Threads

-----------------------------------------------------------------------------
LEMMA InitInductive == Init => Inductive
  <1> SUFFICES ASSUME Init
               PROVE  Inductive
    OBVIOUS
  <1> USE HostAssumption DEF Init
  <1>1. web \in Process
    OBVIOUS
  <1>2. proc \in [Process -> Server]
        /\ \A p \in Process : /\ p # web => proc[p] = Gone
                              /\ p = web => /\ proc[p].state = "starting" /\ proc[p].step = "check"
                                            /\ proc[p].saving = "no" /\ proc[p].code = 0
    <2> DEFINE first == [Gone EXCEPT !.state = "starting", !.step = "check"]
    <2>1. \A r \in Server : LET new == [r EXCEPT !.state = "starting", !.step = "check"] IN
            /\ new \in Server /\ new.state = "starting" /\ new.step = "check"
            /\ new.saving = r.saving /\ new.code = r.code
      BY DEF Server
    <2>2. first \in Server /\ first.state = "starting" /\ first.step = "check"
          /\ first.saving = "no" /\ first.code = 0
      BY <2>1, Servers DEF Gone
    <2>3. proc = [p \in Process |-> IF p = web THEN first ELSE Gone]
      OBVIOUS
    <2> HIDE HostAssumption DEF first, Init
    <2> QED BY <1>1, <2>2, <2>3, Servers
  <1>3. Types
    <2>1. \A t \in Threads : thread[t] \in Thread /\ thread[t].pc # "assign"
      BY DEF Thread
    <2>2. thread \in [Threads -> Thread]
      BY <2>1
    <2>3. schema \in [table : {"old", "new"}, columns : 0..Columns, run : BOOLEAN]
      <3>1. 0 \in 0..Columns /\ Columns \in 0..Columns
        OBVIOUS
      <3> HIDE HostAssumption
      <3>2. schema \in {[table |-> "old", columns |-> 0, run |-> FALSE],
                        [table |-> "new", columns |-> Columns, run |-> TRUE]}
        OBVIOUS
      <3> HIDE DEF Init
      <3>3. CASE schema = [table |-> "old", columns |-> 0, run |-> FALSE]
        BY <3>1, <3>3
      <3>4. CASE schema = [table |-> "new", columns |-> Columns, run |-> TRUE]
        BY <3>1, <3>4
      <3> QED BY <3>2, <3>3, <3>4
    <2>4. version \in 0..MaxVersion /\ day \in 0..MaxDay
      OBVIOUS
    <2> QED BY <1>1, <1>2, <2>1, <2>2, <2>3, <2>4 DEF Types
  <1>4. OneServes /\ Stages
    BY <1>2 DEF OneServes, Serving, Stages, Gone
  <1>5. Renames
    BY <1>2 DEF Renames, Renaming, Gone, Before
  <1>6. Alone /\ Fresh
    BY <1>2 DEF Alone, Fresh, Living, Alive, Replacing, Gone, Threads
  <1>7. InOrder /\ Saved
    BY <1>2 DEF InOrder, Saved, Filling, Before, Renamed, Gone
  <1> QED BY <1>3, <1>4, <1>5, <1>6, <1>7 DEF Inductive

\* The invariant that is kept by every step of the daemon and of the servers.
THEOREM HostInductive == Spec => []Inductive
  <1>1. Inductive /\ [Next]_vars => Inductive'
    BY TypesKept, StagesKept, RenamesKept, AloneKept, WholeKept DEF Inductive
  <1> QED BY <1>1, InitInductive, PTL DEF Spec

\* Every variable keeps its type, and the port has at most one server behind it.
THEOREM HostTypes == Spec => []TypeOK
  <1>1. Inductive => TypeOK
    <2> SUFFICES ASSUME Inductive
                 PROVE  TypeOK
      OBVIOUS
    <2>1. Cardinality(Serving) <= 1
      <3>1. CASE Serving = {}
        BY <3>1, FS_EmptySet
      <3>2. CASE Serving # {}
        <4>1. PICK p \in Serving : TRUE
          BY <3>2
        <4>2. Serving = {p}
          BY <4>1 DEF Inductive, OneServes
        <4> QED BY <4>2, FS_Singleton
      <3> QED BY <3>1, <3>2
    <2> QED BY <2>1 DEF Inductive, Types, TypeOK, Thread, Server
  <1> QED BY <1>1, HostInductive, PTL

\* Restarts one at a time lose neither a process nor an edit
\* (smart_web_restarting_daemon.py:439-466 and 478-481).
THEOREM HostRestarts == Spec => []RestartedRight
  <1>1. Inductive => RestartedRight
    <2> SUFFICES ASSUME Inductive, Quiet, ~overlap
                 PROVE  Orphans = {} /\ proc[web].code = version
      BY DEF RestartedRight
    <2>1. \A t \in Threads : ~Replacing(t)
      BY DEF Quiet, Replacing, Threads
    <2>2. Living \subseteq {web}
      BY <2>1 DEF Inductive, Alone
    <2> QED BY <2>2 DEF Inductive, Types, Fresh, Living, Orphans, Held, Quiet
  <1> QED BY <1>1, HostInductive, PTL

\* A server serves a schema that is renamed throughout (app/db.py:162-189).
THEOREM HostSchema == Spec => []SchemaWhole
  <1>1. Inductive => SchemaWhole
    BY DEF Inductive, Stages, InOrder, SchemaWhole, Serving, Renamed
  <1> QED BY <1>1, HostInductive, PTL

\* However the server was restarted on a day, its backup is whole or is being made, or
\* its VACUUM failed or a process died while it made it, unless two were at it
\* (backup_service.py:27-57).
THEOREM HostBackup == Spec => []BackupWhole
  <1>1. Inductive => BackupWhole
    BY DEF Inductive, Saved, BackupWhole
  <1> QED BY <1>1, HostInductive, PTL
=============================================================================
