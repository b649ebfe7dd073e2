-------------------------------- MODULE Startup --------------------------------
(***************************************************************************)
(* How a process comes up and what it remembers: PoolDB::init (create the  *)
(* tables, insert the default settings, start the logger) inside main's    *)
(* retry loop, and the logger's settings, which live in memory, in the     *)
(* copies of their rows (_setting_level, ...) and in the database.  The    *)
(* server and the command line are processes on one database.              *)
(*                                                                         *)
(* The loop catches sql::SQLException and nothing else.  Each attempt      *)
(* opens the pool afresh, which closes it first and so stops the logger:   *)
(* the settings are read again, whatever an attempt that failed had read.  *)
(*                                                                         *)
(* "calm", "lost" and "apart" are history.                                 *)
(***************************************************************************)
EXTENDS Naturals, Sequences, Functions

CONSTANTS Process,
          Thread,      \* threads that change a setting, of any process
          ProcessOf,   \* the process of a thread
          Tables,      \* number of CREATE statements; Setting's is the last
          LogNames,    \* the logger's settings, in the order save_to_db goes
          PathName,    \* the one of them that names a file
          RootName,    \* storage_root, the last in the order of the map
          Value, Default, NoRow,
          MaxFaults,   \* bound: SQL and file system errors
          MaxStops,    \* bound: processes killed or ended
          MaxCalls     \* bound: changes of a setting

Names == Append(LogNames, RootName)
LogName == Range(LogNames)

ASSUME StartupAssumption ==
  /\ ProcessOf \in [Thread -> Process]
  /\ Tables \in Nat \ {0}
  /\ LogNames \in Seq(LogName) /\ IsInjective(Names) /\ PathName \in LogName
  /\ Default \in Value /\ NoRow \notin Value
  /\ MaxFaults \in Nat /\ MaxStops \in Nat /\ MaxCalls \in Nat

VARIABLES
  tables,   \* CREATE statements that took effect
  row,      \* row[n]: the value of setting n
  usable,   \* log files whose folder exists
  proc,     \* proc[p]: where p is in PoolDB::init, and the logger's settings
  call,     \* call[t]: the change of a setting thread t is at
  spent,    \* faults, stops and calls so far
  calm,     \* no fault so far, and no process killed while it came up
  lost,     \* lost[p]: settings whose change failed in p before the row had it
  apart     \* no two changes overlapped, and none was under way beside a second process

database == <<tables, row>>
history == <<calm, lost, apart>>
vars == <<database, usable, proc, call, spent, history>>

Down == [pc |-> "down", k |-> 1, mem |-> [n \in LogName |-> NoRow],
         copy |-> [n \in LogName |-> NoRow]]
NoCall == [pc |-> "none", k |-> 1, bound |-> NoRow]

Proc == [pc : {"down", "open", "empty", "create", "check", "insert", "start", "load",
               "run", "broken"},
         k : 1..Len(Names) + Tables + 1,
         mem : [LogName -> Value \cup {NoRow}], copy : [LogName -> Value \cup {NoRow}]]
Call == [pc : {"none", "save", "bind", "execute"}, k : 1..Len(LogNames) + 1,
         bound : Value \cup {NoRow}]

TypeOK ==
  /\ tables \in 0..Tables
  /\ row \in [Range(Names) -> Value \cup {NoRow}]
  /\ usable \subseteq Value
  /\ proc \in [Process -> Proc] /\ call \in [Thread -> Call]
  /\ \A t \in Thread : call[t].pc # "none" => proc[ProcessOf[t]].pc = "run"
  /\ spent \in [faults : 0..MaxFaults, stops : 0..MaxStops, calls : 0..MaxCalls]
  /\ calm \in BOOLEAN /\ lost \in [Process -> SUBSET LogName] /\ apart \in BOOLEAN

Init ==
  /\ tables = 0
  /\ row = [n \in Range(Names) |-> NoRow]
  /\ usable = Value
  /\ proc = [p \in Process |-> Down]
  /\ call = [t \in Thread |-> NoCall]
  /\ spent = [faults |-> 0, stops |-> 0, calls |-> 0]
  /\ calm = TRUE /\ lost = [p \in Process |-> {}] /\ apart = TRUE

(***************************************************************************)
(* PoolDB::init                                                            *)
(***************************************************************************)
\* Process p is at pc and goes on to q.
Step(p, pc, q) ==
  /\ proc[p].pc = pc
  /\ proc' = [proc EXCEPT ![p] = q]
  /\ UNCHANGED <<usable, call, spent, history>>

To(p, pc) == [proc[p] EXCEPT !.pc = pc, !.k = 1]
Again(p) == [proc[p] EXCEPT !.k = @ + 1]

Start(p) ==
  /\ proc[p].pc = "down"
  /\ proc' = [proc EXCEPT ![p] = [Down EXCEPT !.pc = "open"]]
  /\ apart' = (apart /\ \A t \in Thread : call[t].pc = "none")
  /\ UNCHANGED <<database, usable, call, spent, calm, lost>>

\* close_pool, which also stops the logger, and get_connection.
Open(p) == Step(p, "open", To(p, "empty")) /\ UNCHANGED database

Empty(p) ==
  /\ Step(p, "empty", To(p, IF tables = 0 THEN "create" ELSE "start"))
  /\ UNCHANGED database

\* Fault: the last statement is left out.
CreateOneTooFew(p) ==
  /\ Step(p, "create", IF proc[p].k < Tables - 1 THEN Again(p) ELSE To(p, "check"))
  /\ tables' = IF tables < proc[p].k THEN proc[p].k ELSE tables
  /\ UNCHANGED row

\* CREATE TABLE IF NOT EXISTS, one statement after the other.
Create(p) ==
  /\ Step(p, "create", IF proc[p].k < Tables THEN Again(p) ELSE To(p, "check"))
  /\ tables' = IF tables < proc[p].k THEN proc[p].k ELSE tables
  /\ UNCHANGED row

\* init_settings: Setting::insert looks whether there is a row of the name ...
Check(p) ==
  /\ LET r == proc[p] IN
       Step(p, "check",
            IF r.k > Len(Names) THEN To(p, "start")
            ELSE IF tables < Tables \/ row[Names[r.k]] # NoRow THEN Again(p)
            ELSE [r EXCEPT !.pc = "insert"])
  /\ UNCHANGED database

\* ... and adds one.  A second row of the name is never read.
Insert(p) ==
  /\ Step(p, "insert", [Again(p) EXCEPT !.pc = "check"])
  /\ LET n == Names[proc[p].k]
     IN row' = IF row[n] = NoRow THEN [row EXCEPT ![n] = Default] ELSE row
  /\ UNCHANGED tables

(***************************************************************************)
(* logger::start                                                           *)
(***************************************************************************)
\* The logger is never on here: Open has stopped it.
StartLogger(p) == Step(p, "start", To(p, "load")) /\ UNCHANGED database

\* Fault: the retry loop catches the SettingNotFoundException too.
LoadRetries(p) ==
  /\ LET r == proc[p]
         n == LogNames[r.k]
     IN /\ r.k <= Len(LogNames)
        /\ Step(p, "load", IF tables < Tables \/ row[n] = NoRow THEN To(p, "open")
                           ELSE [Again(p) EXCEPT !.copy[n] = row[n]])
  /\ UNCHANGED database

\* The rows are read one by one: without the table that is an SQLException and
\* the next attempt, without the row a SettingNotFoundException.
Load(p) ==
  /\ LET r == proc[p]
         n == LogNames[r.k]
     IN /\ r.k <= Len(LogNames)
        /\ Step(p, "load",
                IF tables < Tables THEN To(p, "open")
                ELSE IF row[n] = NoRow THEN Down
                ELSE [Again(p) EXCEPT !.copy[n] = row[n]])
  /\ UNCHANGED database

\* A log file whose folder is gone: the defaults are set and the logger is off
\* again, so the replay appends to the backlog it goes through, and
\* save_to_db throws.
Apply(p) ==
  /\ LET r == proc[p] IN
       /\ r.k > Len(LogNames)
       /\ Step(p, "load",
               IF r.copy[PathName] \in usable THEN [To(p, "run") EXCEPT !.mem = r.copy]
               ELSE [To(p, "broken") EXCEPT !.mem = [n \in LogName |-> Default]])
  /\ UNCHANGED database

\* By its undefined behaviour or by the exception: the process is gone.
Replay(p) == Step(p, "broken", Down) /\ UNCHANGED database

Booting(p) ==
  \/ Open(p) \/ Empty(p) \/ Create(p) \/ Check(p) \/ Insert(p)
  \/ StartLogger(p) \/ Load(p) \/ Apply(p) \/ Replay(p)

Fault ==
  /\ spent.faults < MaxFaults
  /\ spent' = [spent EXCEPT !.faults = @ + 1]
  /\ calm' = FALSE

\* An SQLException.  Setting::insert swallows those of its statements; all
\* others end the attempt, and main makes the next one.
SqlFails(p) ==
  /\ proc[p].pc \in {"open", "empty", "create", "check", "insert", "load"}
  /\ proc[p].pc \in {"check", "insert"} => proc[p].k <= Len(Names)
  /\ proc[p].pc = "load" => proc[p].k <= Len(LogNames)
  /\ \/ proc' = [proc EXCEPT ![p] = To(p, "open")]
     \/ /\ proc[p].pc \in {"check", "insert"}
        /\ proc' = [proc EXCEPT ![p] = [Again(p) EXCEPT !.pc = "check"]]
  /\ Fault
  /\ UNCHANGED <<database, usable, call, lost, apart>>

\* The process is killed, or ends (a command of the command line).
Stop(p) ==
  /\ proc[p].pc # "down"
  /\ spent.stops < MaxStops
  /\ spent' = [spent EXCEPT !.stops = @ + 1]
  /\ proc' = [proc EXCEPT ![p] = Down]
  /\ call' = [t \in Thread |-> IF ProcessOf[t] = p THEN NoCall ELSE call[t]]
  /\ calm' = (calm /\ proc[p].pc = "run")
  /\ lost' = [lost EXCEPT ![p] = {}]
  /\ UNCHANGED <<database, usable, apart>>

\* Somebody removes the folder of a log file.
FolderGone(v) ==
  /\ v \in usable \ {Default}
  /\ usable' = usable \ {v}
  /\ UNCHANGED <<database, proc, call, spent, history>>

(***************************************************************************)
(* set_logger_level, set_logger_output_path, ...: the value in memory      *)
(* first, then save_to_db.                                                 *)
(***************************************************************************)
Logger(t) == proc[ProcessOf[t]]
Alone(t) ==
  /\ \A u \in Thread : call[u].pc = "none"
  /\ \A p \in Process \ {ProcessOf[t]} : proc[p].pc = "down"

\* set_output_path refuses a path without a folder before it does anything.
Set(t, n, v) ==
  /\ Logger(t).pc = "run" /\ call[t].pc = "none"
  /\ spent.calls < MaxCalls
  /\ n = PathName => v \in usable
  /\ proc' = [proc EXCEPT ![ProcessOf[t]].mem[n] = v]
  /\ apart' = (apart /\ Alone(t))
  /\ \/ /\ call' = [call EXCEPT ![t] = [NoCall EXCEPT !.pc = "save"]]
        /\ spent' = [spent EXCEPT !.calls = @ + 1]
        /\ UNCHANGED <<calm, lost>>
     \/ \* the rename of the old log file throws
        /\ n = PathName /\ v # Logger(t).mem[n]
        /\ spent.faults < MaxFaults
        /\ spent' = [spent EXCEPT !.calls = @ + 1, !.faults = @ + 1]
        /\ lost' = [lost EXCEPT ![ProcessOf[t]] = @ \cup {n}] /\ calm' = FALSE
        /\ UNCHANGED call
  /\ UNCHANGED <<database, usable>>

\* Thread t is at pc and goes on with c; r is its logger then.
Go(t, pc, c, r) ==
  /\ call[t].pc = pc
  /\ call' = [call EXCEPT ![t] = c]
  /\ proc' = [proc EXCEPT ![ProcessOf[t]] = r]
  /\ UNCHANGED <<usable, spent>>

Differs(t) == Logger(t).copy[LogNames[call[t].k]] # Logger(t).mem[LogNames[call[t].k]]
Copied(t) == LET n == LogNames[call[t].k] IN [Logger(t) EXCEPT !.copy[n] = Logger(t).mem[n]]

\* Fault: save_to_db returns when the first setting has not changed.
SaveFirst(t) ==
  /\ IF call[t].k <= Len(LogNames) /\ Differs(t)
     THEN Go(t, "save", [call[t] EXCEPT !.pc = "bind"], Copied(t))
     ELSE Go(t, "save", NoCall, Logger(t))
  /\ UNCHANGED <<database, history>>

\* One setting after the other; the copy of one that differs is set ...
Save(t) ==
  /\ IF call[t].k > Len(LogNames) THEN Go(t, "save", NoCall, Logger(t))
     ELSE IF Differs(t) THEN Go(t, "save", [call[t] EXCEPT !.pc = "bind"], Copied(t))
     ELSE Go(t, "save", [call[t] EXCEPT !.k = @ + 1], Logger(t))
  /\ UNCHANGED <<database, history>>

\* ... Setting::update binds the value of the copy to its statement ...
Bind(t) ==
  /\ Go(t, "bind", [call[t] EXCEPT !.pc = "execute", !.bound = Logger(t).copy[LogNames[call[t].k]]],
        Logger(t))
  /\ UNCHANGED <<database, history>>

\* ... and executes it.  The row is there: the logger has read it.
Execute(t) ==
  /\ Go(t, "execute", [call[t] EXCEPT !.pc = "save", !.k = @ + 1, !.bound = NoRow], Logger(t))
  /\ LET n == LogNames[call[t].k]
     IN /\ row' = [row EXCEPT ![n] = call[t].bound]
        /\ lost' = [lost EXCEPT ![ProcessOf[t]] = @ \ {n}]
  /\ UNCHANGED <<tables, calm, apart>>

\* The setting whose update fails, and those that save_to_db does not get to.
Unsaved(t) ==
  {n \in LogName : n = LogNames[call[t].k] \/ Logger(t).copy[n] # Logger(t).mem[n]}

\* The update throws: the copy keeps the value the row has not, so that the next
\* save_to_db finds nothing to do.
UpdateFails(t) ==
  /\ call[t].pc \in {"bind", "execute"}
  /\ call' = [call EXCEPT ![t] = NoCall]
  /\ lost' = [lost EXCEPT ![ProcessOf[t]] = @ \cup Unsaved(t)]
  /\ Fault
  /\ UNCHANGED <<database, usable, proc, apart>>

Calling(t) == Save(t) \/ Bind(t) \/ Execute(t)

Next ==
  \/ \E p \in Process : Start(p) \/ Booting(p) \/ SqlFails(p) \/ Stop(p)
  \/ \E v \in Value : FolderGone(v)
  \/ \E t \in Thread :
       \/ \E n \in LogName, v \in Value : Set(t, n, v)
       \/ Calling(t) \/ UpdateFails(t)

\* A process that has been started goes on, and so does a call.
Fairness ==
  /\ \A p \in Process : WF_vars(Booting(p))
  /\ \A t \in Thread : WF_vars(Calling(t))

Spec == Init /\ [][Next]_vars /\ Fairness

(***************************************************************************)
(* Properties                                                              *)
(***************************************************************************)
Running(p) == proc[p].pc = "run"

\* PoolDB::init: without faults there is always somebody to complete a
\* database that has some of its tables and settings, however two processes
\* that start at the same time share the work.
NeverHalfMade ==
  calm => \/ tables = 0
          \/ \A n \in Range(Names) : row[n] # NoRow
          \/ \E p \in Process : proc[p].pc \in {"create", "check", "insert"}

\* save_to_db: what a change leaves in memory is what the next start will find.
\* A change that fails puts its own setting at odds with the database, until a
\* later change of it is saved, and no other.  Changes that meet are left out.
SavedAtRest ==
  apart =>
    \A p \in Process :
      Running(p) /\ (\A t \in Thread : call[t].pc = "none")
        => \A n \in LogName \ lost[p] : row[n] = proc[p].mem[n]

\* create() does nothing when there is a table: when whoever created the first is
\* gone before the last, nobody completes them.
Abandoned == tables \in 1..Tables - 1 /\ \A p \in Process : proc[p].pc # "create"

\* main's retry loop: a process that is started runs or ends, also beside one
\* that creates the tables at the same time and after failures, unless it waits
\* for tables that nobody will create.
StartEnds ==
  \A p \in Process : []<>(Running(p) \/ proc[p].pc = "down" \/ Abandoned)

\* logger.h on save_to_db: "Saves the current settings to the DB (if different)":
\* when it has gone through all of them the rows have the values in memory.
SavesWhatDiffers ==
  [][apart => \A t \in Thread :
       call[t].pc = "save" /\ call'[t] = NoCall /\ Logger(t)' = Logger(t)
         => \A n \in LogName : row[n] = Logger(t).mem[n]]_vars

\* logger::start: "Invalid logger settings from DB, recreating it": a log file
\* whose folder is gone does not end the process.
RecreatesInvalid == \A p \in Process : proc[p].pc # "broken"
================================================================================
