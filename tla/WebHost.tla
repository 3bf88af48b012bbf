------------------------------ MODULE WebHost ------------------------------
(***************************************************************************)
(* run.py in its watching mode: the daemon that restarts the web server    *)
(* when a file changes, the server processes it starts, and what each of   *)
(* them does before it binds its port: the renames of the schema           *)
(* (app/db.py) and the backup of the day (backup_service.py).              *)
(*                                                                         *)
(* The main loop of the daemon and the timers of its debounce are threads  *)
(* that share the handle web_process without a lock.  On Windows, which    *)
(* the daemon is written for, terminate ends a process at once.  A         *)
(* statement of DDL is a transaction of its own: sqlite3 opens none for it.*)
(***************************************************************************)
EXTENDS Naturals, FiniteSets

CONSTANTS
  Process,      \* server processes; a dead one that nobody holds is used again
  Restarter,    \* the debounce timers that may run at once
  Main,         \* the main loop
  Columns,      \* the columns of the test environments that are renamed, one by one
  MaxVersion,   \* bound: edits of a source file
  MaxDay,       \* bound: midnights
  None

ASSUME HostAssumption == /\ IsFiniteSet(Process) /\ Process # {}
                         /\ Main \notin Restarter /\ None \notin Process
                         /\ MaxVersion \in Nat /\ MaxDay \in Nat /\ Columns \in Nat \ {0}

VARIABLES
  version, timer,            \* the code on disk; the timer of the debounce is armed
  thread,                    \* the threads of the daemon
  web,                       \* web_process
  proc,                      \* the server processes
  schema, backup, day,       \* the database, the backup of each day, today
                             \* (begun: its directory exists; failed: its VACUUM raised)
  overlap, cut               \* two threads have replaced the handle at once; a death
                             \* between two renames or while a backup is made

daemon == <<version, timer, thread, web, overlap>>
host   == <<schema, backup, day>>
vars   == <<daemon, proc, host, cut>>

Alive(p)   == proc[p].state \in {"starting", "serving"}
Serving    == {p \in Process : proc[p].state = "serving"}
Held       == {web} \cup {thread[t].mine : t \in DOMAIN thread}
Orphans    == {p \in Process : Alive(p)} \ Held
Replacing(t) == thread[t].pc \in {"wait", "spawn", "assign"}
Renaming(p)  == proc[p].step \in {"columns", "run"}
Filling(p)   == proc[p].saving \in {"vacuum", "copy"}

Threads    == Restarter \cup {Main}

\* Thread t sets out to replace the handle while another is at it.
Overlapping(t) == overlap' = (overlap \/ \E u \in Threads \ {t} : Replacing(u))
-----------------------------------------------------------------------------
\* A process of which nothing is left, and the death of one by whatever hand.
Gone     == [state |-> "dead", code |-> 0, step |-> "done", saving |-> "no", for |-> 0]
Dead(p)  == [proc EXCEPT ![p] = Gone]
Torn(p)  == cut' = (cut \/ Renaming(p) \/ Filling(p))
-----------------------------------------------------------------------------
\* on_any_event: a source file is saved; the timer starts again.  (Of files that are
\* not Python, the daemon tells the browser only.)
Change == /\ version < MaxVersion
          /\ version' = version + 1 /\ timer' = TRUE
          /\ UNCHANGED <<thread, web, overlap, proc, host, cut>>

\* Mutant of Flush: what has changed is forgotten, only the browser is told.
FlushForgetful(t) ==
  /\ timer /\ thread[t].pc = "idle"
  /\ timer' = FALSE
  /\ thread' = [thread EXCEPT ![t].pc = "reload"]
  /\ UNCHANGED <<version, web, overlap, proc, host, cut>>

\* _flush_pending_changes, in the thread of the timer, and the first calls of
\* restart_web_process, which reads web_process anew for each call.
Flush(t) ==
  /\ timer /\ thread[t].pc = "idle"
  /\ timer' = FALSE
  /\ IF Alive(web) THEN /\ proc' = Dead(web) /\ Torn(web)
                        /\ thread' = [thread EXCEPT ![t].pc = "wait"]
     ELSE /\ UNCHANGED <<proc, cut>>
          /\ thread' = [thread EXCEPT ![t].pc = "spawn"]
  /\ Overlapping(t)
  /\ UNCHANGED <<version, web, host>>

Wait(t) == /\ thread[t].pc = "wait" /\ ~Alive(web)
           /\ thread' = [thread EXCEPT ![t].pc = "spawn"]
           /\ UNCHANGED <<version, timer, web, overlap, proc, host, cut>>

\* The handle is a process of the main loop by now, which does not end: it is killed
\* after five seconds.
WaitExpired(t) ==
  /\ thread[t].pc = "wait" /\ Alive(web)
  /\ proc' = Dead(web) /\ Torn(web)
  /\ thread' = [thread EXCEPT ![t].pc = "spawn"]
  /\ UNCHANGED <<version, timer, web, overlap, host>>

\* Mutant of Poll: a process that dies is left alone after the first edit.
PollOnce ==
  /\ thread[Main].pc = "poll" /\ ~Alive(web) /\ version = 0
  /\ thread' = [thread EXCEPT ![Main].pc = "spawn"]
  /\ Overlapping(Main)
  /\ UNCHANGED <<version, timer, web, proc, host, cut>>

Poll == /\ thread[Main].pc = "poll" /\ ~Alive(web)
        /\ thread' = [thread EXCEPT ![Main].pc = "spawn"]
        /\ Overlapping(Main)
        /\ UNCHANGED <<version, timer, web, proc, host, cut>>

\* spawn_uvicorn_process: the new process imports the code of this moment.  Which of
\* the free identifiers it gets does not matter.
Free == {p \in Process \ Held : ~Alive(p)}

Spawn(t) ==
  /\ thread[t].pc = "spawn" /\ Free # {}
  /\ LET p == CHOOSE p \in Free : TRUE IN
       /\ proc' = [proc EXCEPT ![p] = [state |-> "starting", code |-> version, step |-> "check",
                                       saving |-> "no", for |-> 0]]
       /\ thread' = [thread EXCEPT ![t] = [pc |-> "assign", mine |-> p]]
  /\ UNCHANGED <<version, timer, web, overlap, host, cut>>

Assign(t) ==
  /\ thread[t].pc = "assign"
  /\ web' = thread[t].mine
  /\ thread' = [thread EXCEPT ![t] = [pc |-> IF t = Main THEN "poll" ELSE "reload", mine |-> None]]
  /\ UNCHANGED <<version, timer, overlap, proc, host, cut>>

\* The window of the browser is focused, if it can be, and told to reload; the thread
\* of the timer ends.
Reload(t) ==
  /\ thread[t].pc = "reload"
  /\ thread' = [thread EXCEPT ![t].pc = "idle"]
  /\ UNCHANGED <<version, timer, web, overlap, proc, host, cut>>
-----------------------------------------------------------------------------
\* A start fails: the database is locked, or an exception.
Crash(p) == /\ proc[p].state = "starting"
            /\ proc' = Dead(p) /\ Torn(p)
            /\ UNCHANGED <<daemon, host>>

Step(p, from, to) == /\ proc[p].state = "starting" /\ proc[p].step = from
                     /\ proc' = [proc EXCEPT ![p].step = to]
                     /\ UNCHANGED <<daemon, cut>>

\* initialize_database, _migrate_environment_to_config: a look at the old table, then
\* its rename, that of its columns and that of the column of the runs.
CheckTable(p) == /\ Step(p, "check", IF schema.table = "old" THEN "table" ELSE "backup")
                 /\ UNCHANGED host

RenameTable(p) == /\ schema.table = "old"
                  /\ Step(p, "table", "columns")
                  /\ schema' = [schema EXCEPT !.table = "new"]
                  /\ UNCHANGED <<backup, day>>

\* Mutant of RenameColumn: the column of the runs is forgotten.
RenameColumnLast(p) == /\ Step(p, "columns", IF schema.columns + 1 = Columns THEN "backup" ELSE "columns")
                       /\ schema' = [schema EXCEPT !.columns = @ + 1]
                       /\ UNCHANGED <<backup, day>>

RenameColumn(p) == /\ Step(p, "columns", IF schema.columns + 1 = Columns THEN "run" ELSE "columns")
                   /\ schema' = [schema EXCEPT !.columns = @ + 1]
                   /\ UNCHANGED <<backup, day>>

RenameRunColumn(p) == /\ Step(p, "run", "backup")
                      /\ schema' = [schema EXCEPT !.run = TRUE]
                      /\ UNCHANGED <<backup, day>>

\* What another process has renamed meanwhile cannot be renamed: the start fails.
Refused(p) == /\ proc[p].state = "starting" /\ proc[p].step = "table" /\ schema.table = "new"
              /\ proc' = Dead(p)
              /\ UNCHANGED <<daemon, host, cut>>
-----------------------------------------------------------------------------
\* run_backup, at the start and then at each midnight: nothing when the directory of
\* the day exists, whatever is in it.  (The backup of the main database; those of the
\* projects follow it, each by the same steps.)
Due(p) == \/ proc[p].state = "starting" /\ proc[p].step = "backup"
          \/ proc[p].state = "serving" /\ proc[p].for < day

\* Mutant of CheckBackup: the directory is made, whether or not it exists.
CheckBackupAlways(p) ==
  /\ Due(p) /\ proc[p].saving = "no"
  /\ proc' = [proc EXCEPT ![p].saving = "mkdir", ![p].for = day]
  /\ UNCHANGED <<daemon, host, cut>>

CheckBackup(p) ==
  /\ Due(p) /\ proc[p].saving = "no"
  /\ proc' = IF backup[day] # "none"
             THEN [proc EXCEPT ![p].step = "bind", ![p].for = day]
             ELSE [proc EXCEPT ![p].saving = "mkdir", ![p].for = day]
  /\ UNCHANGED <<daemon, host, cut>>

\* mkdir takes a directory that exists; another error of it ends the backup, and the
\* exception goes no further.
MakeDirectory(p) ==
  /\ proc[p].saving = "mkdir"
  /\ \/ /\ backup' = [backup EXCEPT ![proc[p].for] = IF @ = "none" THEN "begun" ELSE @]
        /\ proc' = [proc EXCEPT ![p].saving = "vacuum"]
     \/ /\ backup' = backup
        /\ proc' = [proc EXCEPT ![p].saving = "no", ![p].step = "bind"]
  /\ UNCHANGED <<daemon, schema, day, cut>>

\* VACUUM INTO makes the backup whole; it refuses a file that is there.
Vacuum(p) ==
  /\ proc[p].saving = "vacuum"
  /\ IF backup[proc[p].for] = "begun"
       THEN /\ proc' = [proc EXCEPT ![p].saving = "no", ![p].step = "bind"]
            /\ backup' = [backup EXCEPT ![proc[p].for] = "whole"]
       ELSE /\ proc' = [proc EXCEPT ![p].saving = "copy"]
            /\ backup' = backup
  /\ UNCHANGED <<daemon, schema, day, cut>>

\* Any other error of it, before it writes or while it does: a lock, no space.
VacuumFails(p) ==
  /\ proc[p].saving = "vacuum"
  /\ proc' = [proc EXCEPT ![p].saving = "copy"]
  /\ backup' = [backup EXCEPT ![proc[p].for] = "failed"]
  /\ UNCHANGED <<daemon, schema, day, cut>>

\* After either, shutil.copy2 overwrites what there is with the main file of the
\* database, without its write-ahead log; or fails as well.
Copy(p) ==
  /\ proc[p].saving = "copy"
  /\ proc' = [proc EXCEPT ![p].saving = "no", ![p].step = "bind"]
  /\ \E left \in {"copied", backup[proc[p].for]} :
       backup' = [backup EXCEPT ![proc[p].for] = IF @ = "failed" THEN @ ELSE left]
  /\ UNCHANGED <<daemon, schema, day, cut>>

\* Mutant of Bind: a port that is taken is shared.
BindShared(p) == /\ proc[p].state = "starting" /\ proc[p].step = "bind"
                 /\ proc' = [proc EXCEPT ![p].state = "serving"]
                 /\ UNCHANGED <<daemon, host, cut>>

\* The port is bound last; a process that finds it taken ends.
Bind(p) == /\ proc[p].state = "starting" /\ proc[p].step = "bind"
           /\ proc' = IF Serving = {} THEN [proc EXCEPT ![p].state = "serving"] ELSE Dead(p)
           /\ UNCHANGED <<daemon, host, cut>>

Midnight == /\ day < MaxDay /\ day' = day + 1
            /\ UNCHANGED <<daemon, proc, schema, backup, cut>>
-----------------------------------------------------------------------------
Init ==
  /\ version = 0 /\ timer = FALSE
  /\ web = CHOOSE p \in Process : TRUE
  /\ thread = [t \in Threads |-> [pc |-> IF t = Main THEN "poll" ELSE "idle", mine |-> None]]
  /\ proc = [p \in Process |-> IF p = web THEN [Gone EXCEPT !.state = "starting", !.step = "check"] ELSE Gone]
  /\ schema \in {[table |-> "old", columns |-> 0, run |-> FALSE],
                 [table |-> "new", columns |-> Columns, run |-> TRUE]}
  /\ backup = [d \in 0..MaxDay |-> "none"] /\ day = 0
  /\ overlap = FALSE /\ cut = FALSE

Restart(t) == Wait(t) \/ WaitExpired(t) \/ Spawn(t) \/ Assign(t) \/ Reload(t)
Start(p)   == \/ CheckTable(p) \/ RenameTable(p) \/ RenameColumn(p) \/ RenameRunColumn(p) \/ Refused(p)
              \/ CheckBackup(p) \/ MakeDirectory(p) \/ Vacuum(p) \/ VacuumFails(p)
              \/ Copy(p) \/ Bind(p)

Next == \/ Change
        \/ \E t \in Restarter : Flush(t) \/ Restart(t)
        \/ Poll \/ Spawn(Main) \/ Assign(Main)
        \/ \E p \in Process : Crash(p) \/ Start(p)
        \/ Midnight

\* The threads run and a process that was started gets on; nobody has to save a file.
Fairness == /\ WF_vars(Poll) /\ SF_vars(Spawn(Main)) /\ WF_vars(Assign(Main))
            /\ \A t \in Restarter : WF_vars(Flush(t)) /\ WF_vars(Restart(t)) /\ SF_vars(Spawn(t))
            /\ \A p \in Process : WF_vars(Start(p))

Spec     == Init /\ [][Next]_vars
FairSpec == Spec /\ Fairness
-----------------------------------------------------------------------------
TypeOK ==
  /\ version \in 0..MaxVersion /\ timer \in BOOLEAN /\ web \in Process
  /\ thread \in [Threads -> [pc : {"idle", "poll", "wait", "spawn", "assign", "reload"},
                             mine : Process \cup {None}]]
  /\ proc \in [Process -> [state : {"starting", "serving", "dead"}, code : 0..MaxVersion,
                           step : {"check", "table", "columns", "run", "backup", "bind", "done"},
                           saving : {"no", "mkdir", "vacuum", "copy"}, for : 0..MaxDay]]
  /\ schema \in [table : {"old", "new"}, columns : 0..Columns, run : BOOLEAN]
  /\ backup \in [0..MaxDay -> {"none", "begun", "whole", "copied", "failed"}]
  /\ Cardinality(Serving) <= 1

\* The daemon loses no process and no change while its threads replace the handle one
\* at a time (smart_web_restarting_daemon.py:439-466 and 478-481 share it without a
\* lock): when all is quiet, the one process that lives is the one it holds, and that
\* runs the code on disk.
Quiet == /\ ~timer /\ \A t \in Restarter : thread[t].pc \in {"idle", "reload"}
         /\ thread[Main].pc = "poll" /\ Alive(web)

RestartedRight == Quiet /\ ~overlap => Orphans = {} /\ proc[web].code = version

\* The renames of app/db.py:162-189 are complete when a server serves: unless a process
\* ended between two of them, for the table of the old name is then gone and every
\* later start returns at line 170.
SchemaWhole ==
  Serving # {} /\ ~overlap /\ ~cut => schema = [table |-> "new", columns |-> Columns, run |-> TRUE]

\* A day whose directory exists counts as backed up (backup_service.py:53) and nobody
\* makes up for what went wrong on it.  However often the server was restarted on that
\* day, its backup is one consistent snapshot (VACUUM INTO), or it is being made, or its
\* VACUUM failed, or a process died while it made it: unless two were at it.
BackupWhole ==
  ~overlap => \A d \in 0..MaxDay :
    \/ backup[d] \in {"none", "whole", "failed"}
    \/ backup[d] = "begun" /\ (cut \/ \E p \in Process : Filling(p) /\ proc[p].for = d)

\* However the threads of the daemon overlap, whatever starts they cut off and whatever
\* half-renamed schema they leave behind, a server serves again and again; unless
\* processes fail for ever.
Available == []<>(Serving # {}) \/ []<><<\E p \in Process : Crash(p)>>_vars
=============================================================================
