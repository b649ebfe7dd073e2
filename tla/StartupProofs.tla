------------------------------ MODULE StartupProofs ------------------------------
(***************************************************************************)
(* For any processes, threads, settings, tables, values and failures: the  *)
(* types, that nobody is left with a half made database (NeverHalfMade),   *)
(* and that the settings in memory are the rows the next start reads, but  *)
(* for those whose own change failed (SavedAtRest).                        *)
(***************************************************************************)
EXTENDS Startup, TLAPS

Last == Len(LogNames)

(***************************************************************************)
(* Where the counters can be.                                              *)
(***************************************************************************)
Placed(r) ==
  /\ r.pc = "create" => r.k <= Tables
  /\ r.pc = "check" => r.k <= Last + 2
  /\ r.pc = "insert" => r.k <= Last + 1
  /\ r.pc = "load" => r.k <= Last + 1
  /\ r.pc \notin {"create", "check", "insert", "load"} => r.k = 1

PlacedCall(c) == c.pc \in {"bind", "execute"} => c.k <= Last

PlaceInv == /\ TypeOK
            /\ \A p \in Process : Placed(proc[p])
            /\ \A t \in Thread : PlacedCall(call[t])
            /\ \A p \in Process : proc[p].pc # "run" => lost[p] = {}

(***************************************************************************)
(* Without faults: a process that creates or inserts has done what its     *)
(* counter says, and finds it done later.                                  *)
(***************************************************************************)
HalfMade == \/ tables = 0
            \/ \A n \in Range(Names) : row[n] # NoRow
            \/ \E p \in Process : proc[p].pc \in {"create", "check", "insert"}

\* A process r on a database with ts tables and the rows rw.
CalmAt(r, ts, rw) ==
  /\ r.pc = "create" => r.k <= ts + 1
  /\ r.pc \in {"check", "insert"} =>
       ts = Tables /\ \A i \in 1..Last + 1 : i < r.k => rw[Names[i]] # NoRow

CalmInv == calm => HalfMade /\ \A p \in Process : CalmAt(proc[p], tables, row)

(***************************************************************************)
(* Each attempt reads the settings: a process that runs has all of them,   *)
(* and their rows are there, since no step takes one away.                 *)
(***************************************************************************)
LoadedAt(r, rw) ==
  /\ r.pc = "load" => \A i \in 1..Last : i < r.k =>
       r.copy[LogNames[i]] # NoRow /\ rw[LogNames[i]] # NoRow
  /\ r.pc = "run" => \A n \in LogName :
       r.copy[n] # NoRow /\ r.mem[n] # NoRow /\ rw[n] # NoRow

BoundAt(c) == c.pc = "execute" => c.bound # NoRow

LoadedInv == /\ \A p \in Process : LoadedAt(proc[p], row)
             /\ \A t \in Thread : BoundAt(call[t])

(***************************************************************************)
(* While no change met another one: a change under way is the only one, in *)
(* the only process that is up, and has saved the settings before its      *)
(* counter; without one the memory of every logger, its copies and the     *)
(* rows are the same, but for the settings ls whose change failed.         *)
(***************************************************************************)
Saved(r, i, rw) == rw[LogNames[i]] = r.copy[LogNames[i]]

RestAt(r, ls, rw) ==
  /\ r.pc = "load" => \A i \in 1..Last : i < r.k => Saved(r, i, rw)
  /\ r.pc = "run" => \A i \in 1..Last : LogNames[i] \notin ls =>
       Saved(r, i, rw) /\ r.mem[LogNames[i]] = rw[LogNames[i]]

Saving(c, r, ls, rw) ==
  \A i \in 1..Last : LET n == LogNames[i] IN
    /\ n \notin ls => /\ i < c.k => rw[n] = r.mem[n] /\ r.copy[n] = r.mem[n]
                      /\ i > c.k \/ c.pc = "save" => rw[n] = r.copy[n]
    /\ i = c.k /\ c.pc \in {"bind", "execute"} => r.copy[n] = r.mem[n]
    /\ i = c.k /\ c.pc = "execute" => c.bound = r.mem[n]

Quiet == \A t \in Thread : call[t].pc = "none"

Only(t) == /\ \A u \in Thread \ {t} : call[u].pc = "none"
           /\ \A p \in Process \ {ProcessOf[t]} : proc[p].pc = "down"

RestInv ==
  apart =>
    /\ Quiet => \A p \in Process : RestAt(proc[p], lost[p], row)
    /\ \A t \in Thread : call[t].pc # "none" =>
         Only(t) /\ Saving(call[t], Logger(t), lost[ProcessOf[t]], row)

IInv == PlaceInv /\ CalmInv /\ LoadedInv /\ RestInv

(***************************************************************************)
(* The names.                                                              *)
(***************************************************************************)
LEMMA Shape ==
  /\ Last \in Nat /\ Len(Names) = Last + 1 /\ Tables \in Nat /\ Tables >= 1
  /\ \A i \in 1..Last : LogNames[i] \in LogName
  /\ \A n \in LogName : \E i \in 1..Last : n = LogNames[i]
  /\ \A i, j \in 1..Last : LogNames[i] = LogNames[j] => i = j
  /\ \A i \in 1..Last + 1 : Names[i] \in Range(Names)
  /\ \A n \in Range(Names) : \E i \in 1..Last + 1 : n = Names[i]
  /\ LogName \subseteq Range(Names)
<1>1. LogNames \in Seq(LogName) /\ Last \in Nat /\ DOMAIN LogNames = 1..Last
  BY StartupAssumption DEF Last
<1>2. \A i \in 1..Last : LogNames[i] \in LogName
  BY <1>1 DEF LogName, Range
<1>3. \A n \in LogName : \E i \in 1..Last : n = LogNames[i]
  BY <1>1 DEF LogName, Range
<1>4. LogNames \in Seq(LogName \cup {RootName}) /\ Names = Append(LogNames, RootName)
  BY <1>1, <1>2 DEF Names
<1>5. /\ Len(Names) = Last + 1 /\ DOMAIN Names = 1..Last + 1
      /\ \A i \in 1..Last : Names[i] = LogNames[i]
  BY <1>1, <1>4 DEF Last
<1>6. \A i, j \in 1..Last : LogNames[i] = LogNames[j] => i = j
  BY <1>1, <1>5, StartupAssumption DEF IsInjective
<1>7. \A i \in 1..Last + 1 : Names[i] \in Range(Names)
  BY <1>5 DEF Range
<1>8. \A n \in Range(Names) : \E i \in 1..Last + 1 : n = Names[i]
  BY <1>5 DEF Range
<1>9. LogName \subseteq Range(Names)
  BY <1>1, <1>3, <1>5, <1>7
<1> QED
  BY <1>1, <1>2, <1>3, <1>5, <1>6, <1>7, <1>8, <1>9, StartupAssumption

(***************************************************************************)
(* The steps of a process that comes up or goes down.  Rows that are there *)
(* stay as they are; what remains to be shown is what holds of the process *)
(* itself.                                                                 *)
(***************************************************************************)
Grows == /\ tables' \in 0..Tables /\ tables <= tables'
         /\ row' \in [Range(Names) -> Value \cup {NoRow}]
         /\ \A n \in Range(Names) : row[n] # NoRow => row'[n] = row[n]

\* A process without changes goes to r.
Boots(p, r) ==
  /\ proc[p].pc # "run"
  /\ r \in Proc /\ Placed(r) /\ proc' = [proc EXCEPT ![p] = r]
  /\ UNCHANGED <<call, lost>>
  /\ Grows

LEMMA BootStep ==
  ASSUME IInv, NEW p \in Process, NEW r, Boots(p, r)
  PROVE  /\ proc' \in [Process -> Proc] /\ proc'[p] = r
         /\ \A q \in Process \ {p} : proc'[q] = proc[q]
         /\ \A t \in Thread : call[t].pc # "none" => ProcessOf[t] # p
BY DEF IInv, PlaceInv, TypeOK, Boots

LEMMA BootPlace ==
  ASSUME IInv, NEW p \in Process, NEW r, Boots(p, r), UNCHANGED usable,
         spent' \in [faults : 0..MaxFaults, stops : 0..MaxStops, calls : 0..MaxCalls],
         calm' \in BOOLEAN, apart' \in BOOLEAN
  PROVE  PlaceInv'
<1>1. /\ proc' \in [Process -> Proc] /\ proc'[p] = r
      /\ \A q \in Process \ {p} : proc'[q] = proc[q]
      /\ \A t \in Thread : call[t].pc # "none" => ProcessOf[t] # p
  BY BootStep
<1>2. \A t \in Thread : call'[t].pc # "none" => proc'[ProcessOf[t]].pc = "run"
  BY <1>1, StartupAssumption DEF IInv, PlaceInv, TypeOK, Boots
<1>3. TypeOK'
  BY <1>1, <1>2 DEF IInv, PlaceInv, TypeOK, Boots, Grows
<1>4. \A q \in Process : Placed(proc'[q])
  BY <1>1 DEF IInv, PlaceInv, Boots
<1>5. \A t \in Thread : PlacedCall(call'[t])
  BY DEF IInv, PlaceInv, Boots
<1>6. \A q \in Process : proc'[q].pc # "run" => lost'[q] = {}
  BY <1>1 DEF IInv, PlaceInv, Boots
<1> QED
  BY <1>3, <1>4, <1>5, <1>6 DEF PlaceInv

\* What is true of a process on a database is true of it when that has grown.
LEMMA CalmGrows ==
  ASSUME IInv, tables' \in 0..Tables, tables <= tables',
         \A n \in Range(Names) : row[n] # NoRow => row'[n] # NoRow,
         NEW r \in Proc, CalmAt(r, tables, row)
  PROVE  CalmAt(r, tables', row')
<1>1. r.k \in Nat /\ tables \in 0..Tables
  BY Shape DEF Proc, IInv, PlaceInv, TypeOK
<1>2. \A i \in 1..Last + 1 : row[Names[i]] # NoRow => row'[Names[i]] # NoRow
  BY Shape
<1> QED
  BY <1>1, <1>2, Shape DEF CalmAt

LEMMA BootCalm ==
  ASSUME IInv, NEW p \in Process, NEW r, Boots(p, r),
         calm' => calm,
         calm' => CalmAt(r, tables', row') /\ HalfMade'
  PROVE  CalmInv'
<1>1. /\ proc'[p] = r
      /\ \A q \in Process \ {p} : proc'[q] = proc[q]
  BY BootStep
<1> SUFFICES ASSUME calm'
             PROVE  \A q \in Process : CalmAt(proc'[q], tables', row')
  BY DEF CalmInv
<1>2. \A q \in Process \ {p} : proc[q] \in Proc /\ CalmAt(proc[q], tables, row)
  BY DEF IInv, PlaceInv, TypeOK, CalmInv
<1>3. /\ tables' \in 0..Tables /\ tables <= tables'
      /\ \A n \in Range(Names) : row[n] # NoRow => row'[n] # NoRow
  BY DEF Boots, Grows
<1> QED
  BY <1>1, <1>2, <1>3, CalmGrows DEF Boots

\* So is what it has read: rows do not go away.
LEMMA LoadedGrows ==
  ASSUME NEW rw, NEW ww, \A n \in LogName : rw[n] # NoRow => ww[n] # NoRow,
         NEW r, LoadedAt(r, rw)
  PROVE  LoadedAt(r, ww)
BY Shape DEF LoadedAt

LEMMA BootLoaded ==
  ASSUME IInv, NEW p \in Process, NEW r, Boots(p, r),
         LoadedAt(proc[p], row) => LoadedAt(r, row')
  PROVE  LoadedInv'
<1>1. /\ proc'[p] = r
      /\ \A q \in Process \ {p} : proc'[q] = proc[q]
  BY BootStep
<1>2. \A n \in LogName : row[n] # NoRow => row'[n] # NoRow
  BY Shape DEF Boots, Grows
<1>3. \A q \in Process : LoadedAt(proc[q], row)
  BY DEF IInv, LoadedInv
<1>4. \A q \in Process : LoadedAt(proc[q], row')
  BY <1>2, <1>3, LoadedGrows
<1>5. \A q \in Process : LoadedAt(proc'[q], row')
  BY <1>1, <1>3, <1>4
<1> QED
  BY <1>5 DEF Boots, IInv, LoadedInv

LEMMA RestGrows ==
  ASSUME IInv, Grows, NEW r, NEW ls, LoadedAt(r, row), RestAt(r, ls, row)
  PROVE  RestAt(r, ls, row')
<1>1. \A i \in 1..Last : row[LogNames[i]] # NoRow => row'[LogNames[i]] = row[LogNames[i]]
  BY Shape DEF Grows
<1>2. ASSUME r.pc = "load", NEW i \in 1..Last, i < r.k PROVE Saved(r, i, row')
  BY <1>1, <1>2 DEF LoadedAt, RestAt, Saved
<1>3. ASSUME r.pc = "run", NEW i \in 1..Last, LogNames[i] \notin ls
      PROVE  Saved(r, i, row') /\ r.mem[LogNames[i]] = row'[LogNames[i]]
  BY <1>1, <1>3, Shape DEF LoadedAt, RestAt, Saved
<1> QED
  BY <1>2, <1>3 DEF RestAt

\* Such a step does not meet a change, unless it ends "apart".
LEMMA BootRest ==
  ASSUME IInv, NEW p \in Process, NEW r, Boots(p, r),
         apart' => apart,
         proc[p].pc = "down" => (apart' => Quiet),
         RestAt(proc[p], lost[p], row) /\ Quiet => RestAt(r, lost[p], row')
  PROVE  RestInv'
<1>1. /\ proc'[p] = r
      /\ \A q \in Process \ {p} : proc'[q] = proc[q]
      /\ \A t \in Thread : call[t].pc # "none" => ProcessOf[t] # p
  BY BootStep
<1> SUFFICES ASSUME apart'
             PROVE  /\ \A q \in Process : RestAt(proc'[q], lost'[q], row')
                    /\ \A t \in Thread : call'[t].pc = "none"
  BY DEF RestInv
<1>2. Quiet
  <2>1. CASE proc[p].pc = "down"
    BY <2>1
  <2>2. CASE proc[p].pc # "down"
    BY <1>1, <2>2 DEF IInv, RestInv, Only, Quiet
  <2> QED BY <2>1, <2>2
<1>3. \A q \in Process : RestAt(proc[q], lost[q], row) /\ LoadedAt(proc[q], row)
  BY <1>2 DEF IInv, RestInv, LoadedInv
<1>4. \A q \in Process : RestAt(proc[q], lost[q], row')
  BY <1>3, RestGrows DEF Boots
<1>5. \A q \in Process : RestAt(proc'[q], lost'[q], row')
  BY <1>1, <1>2, <1>3, <1>4 DEF Boots
<1> QED
  BY <1>2, <1>5 DEF Boots, Quiet

\* The steps of PoolDB::init that leave the history alone.
LEMMA StepKeeps ==
  ASSUME IInv, NEW p \in Process, NEW pc, NEW r, Step(p, pc, r), pc \notin {"run", "down"},
         r \in Proc, Placed(r), Grows,
         calm => CalmAt(r, tables', row') /\ HalfMade',
         LoadedAt(proc[p], row) => LoadedAt(r, row'),
         RestAt(proc[p], lost[p], row) /\ Quiet => RestAt(r, lost[p], row')
  PROVE  IInv'
<1>1. Boots(p, r) /\ proc[p].pc \notin {"run", "down"}
      /\ UNCHANGED <<usable, spent, calm, lost, apart>>
  BY DEF Step, Boots, history
<1>2. PlaceInv'
  BY <1>1, BootPlace DEF IInv, PlaceInv, TypeOK
<1>3. CalmInv'
  BY <1>1, BootCalm
<1>4. LoadedInv'
  BY <1>1, BootLoaded
<1>5. RestInv'
  BY <1>1, BootRest
<1> QED
  BY <1>2, <1>3, <1>4, <1>5 DEF IInv

\* HalfMade, for a step of a process that leaves the database alone.
LEMMA HalfStays ==
  ASSUME IInv, calm, NEW p \in Process, NEW r \in Proc, proc' = [proc EXCEPT ![p] = r],
         UNCHANGED database,
         \/ proc[p].pc \notin {"create", "check", "insert"}
         \/ r.pc \in {"create", "check", "insert"}
         \/ \A n \in Range(Names) : row[n] # NoRow
  PROVE  HalfMade'
<1>1. /\ proc'[p] = r
      /\ \A q \in Process \ {p} : proc'[q] = proc[q]
  BY DEF IInv, PlaceInv, TypeOK
<1>2. HalfMade
  BY DEF IInv, CalmInv
<1>3. CASE tables = 0 \/ \A n \in Range(Names) : row[n] # NoRow
  BY <1>3 DEF HalfMade, database
<1>4. CASE r.pc \in {"create", "check", "insert"}
  BY <1>1, <1>4 DEF HalfMade
<1>5. CASE /\ proc[p].pc \notin {"create", "check", "insert"}
           /\ \E q \in Process : proc[q].pc \in {"create", "check", "insert"}
  BY <1>1, <1>5 DEF HalfMade
<1> QED
  BY <1>2, <1>3, <1>4, <1>5 DEF HalfMade

(***************************************************************************)
(* Each of them.                                                           *)
(***************************************************************************)
LEMMA Same ==
  ASSUME IInv, UNCHANGED database
  PROVE  Grows
<1>1. tables \in 0..Tables /\ row \in [Range(Names) -> Value \cup {NoRow}]
  BY DEF IInv, PlaceInv, TypeOK
<1> QED
  BY <1>1 DEF database, Grows

LEMMA DownTyped == /\ Down \in Proc /\ Placed(Down) /\ Down.pc = "down"
                   /\ [Down EXCEPT !.pc = "open"] \in Proc /\ Placed([Down EXCEPT !.pc = "open"])
                   /\ [Down EXCEPT !.pc = "open"].pc = "open"
<1>1. 1 \in 1..Len(Names) + Tables + 1
  BY Shape
<1> QED
  BY <1>1 DEF Down, Proc, Placed

LEMMA ToTyped ==
  ASSUME IInv, NEW p \in Process,
         NEW pc \in {"open", "empty", "create", "check", "start", "load", "run", "broken"}
  PROVE  /\ To(p, pc) \in Proc /\ To(p, pc).pc = pc /\ To(p, pc).k = 1
         /\ To(p, pc).copy = proc[p].copy /\ To(p, pc).mem = proc[p].mem
         /\ proc[p].pc # "run" => Placed(To(p, pc))
<1>1. proc[p] \in Proc /\ Placed(proc[p])
  BY DEF IInv, PlaceInv, TypeOK
<1>2. 1 \in 1..Len(Names) + Tables + 1
  BY Shape
<1>3. /\ To(p, pc) \in Proc /\ To(p, pc).pc = pc /\ To(p, pc).k = 1
      /\ To(p, pc).copy = proc[p].copy /\ To(p, pc).mem = proc[p].mem
  BY <1>1, <1>2 DEF To, Proc
<1> QED
  BY <1>1, <1>3, Shape DEF Placed

LEMMA AgainTyped ==
  ASSUME IInv, NEW p \in Process, proc[p].k <= Last + 1 \/ proc[p].k < Tables
  PROVE  /\ Again(p) \in Proc /\ Again(p).pc = proc[p].pc /\ Again(p).k = proc[p].k + 1
         /\ Again(p).copy = proc[p].copy /\ Again(p).mem = proc[p].mem
<1>1. proc[p] \in Proc
  BY DEF IInv, PlaceInv, TypeOK
<1>2. proc[p].k + 1 \in 1..Len(Names) + Tables + 1
  BY <1>1, Shape DEF Proc
<1> QED
  BY <1>1, <1>2 DEF Again, Proc

LEMMA OpenKeeps ==
  ASSUME IInv, NEW p \in Process, Open(p)
  PROVE  IInv'
<1> DEFINE r == To(p, "empty")
<1>1. Step(p, "open", r) /\ UNCHANGED database /\ proc[p].pc = "open" /\ proc' = [proc EXCEPT ![p] = r]
  BY DEF Open, Step
<1>2. r \in Proc /\ Placed(r) /\ r.pc = "empty" /\ r.copy = proc[p].copy
  BY <1>1, ToTyped
<1> HIDE DEF r
<1>3. ASSUME calm PROVE CalmAt(r, tables', row') /\ HalfMade'
  BY <1>1, <1>2, <1>3, HalfStays DEF IInv, CalmInv, CalmAt
<1> QED
  BY <1>1, <1>2, <1>3, Same, StepKeeps DEF RestAt, LoadedAt

LEMMA EmptyKeeps ==
  ASSUME IInv, NEW p \in Process, Empty(p)
  PROVE  IInv'
<1> DEFINE pc == IF tables = 0 THEN "create" ELSE "start"
           r == To(p, pc)
<1>1. Step(p, "empty", r) /\ UNCHANGED database /\ proc[p].pc = "empty" /\ proc' = [proc EXCEPT ![p] = r]
  BY DEF Empty, Step
<1>2. r \in Proc /\ Placed(r) /\ r.pc \in {"create", "start"} /\ r.k = 1 /\ r.copy = proc[p].copy
  <2>1. pc \in {"create", "start"}
    OBVIOUS
  <2> HIDE DEF pc
  <2> QED BY <1>1, <2>1, ToTyped
<1> HIDE DEF r
<1>3. tables' \in Nat /\ 1 <= tables' + 1
  BY <1>1, Shape DEF database, IInv, PlaceInv, TypeOK
<1>4. ASSUME calm PROVE CalmAt(r, tables', row') /\ HalfMade'
  <2>1. HalfMade'
    BY <1>1, <1>2, <1>4, HalfStays
  <2>2. r.k <= tables' + 1
    BY <1>2, <1>3
  <2> QED
    BY <1>2, <2>1, <2>2 DEF CalmAt
<1> QED
  BY <1>1, <1>2, <1>4, Same, StepKeeps DEF RestAt, LoadedAt

LEMMA CreatesCalm ==
  ASSUME NEW r \in Proc, NEW ts, NEW rw, r.pc = "create", r.k <= ts + 1
  PROVE  CalmAt(r, ts, rw)
BY DEF CalmAt

LEMMA BothMore == ASSUME NEW i \in Nat, NEW j \in Nat, i <= j PROVE i + 1 <= j + 1
OBVIOUS

LEMMA CreateKeeps ==
  ASSUME IInv, NEW p \in Process, Create(p)
  PROVE  IInv'
<1> DEFINE r == IF proc[p].k < Tables THEN Again(p) ELSE To(p, "check")
           k == proc[p].k
<1>1. /\ Step(p, "create", r) /\ proc[p].pc = "create" /\ proc' = [proc EXCEPT ![p] = r]
      /\ tables' = IF tables < k THEN k ELSE tables
      /\ UNCHANGED row
  BY DEF Create, Step
<1>2. k \in 1..Tables /\ tables \in 0..Tables
  BY <1>1, Shape DEF IInv, PlaceInv, TypeOK, Proc, Placed
<1>3. /\ r \in Proc /\ r.copy = proc[p].copy
      /\ r.pc = IF k < Tables THEN "create" ELSE "check"
      /\ r.k = IF k < Tables THEN k + 1 ELSE 1
  BY <1>1, <1>2, ToTyped, AgainTyped
<1> HIDE DEF r, k
<1>4. Placed(r)
  BY <1>2, <1>3, Shape DEF Placed
<1>5. Grows
  BY <1>1, <1>2 DEF Grows, IInv, PlaceInv, TypeOK
<1>6. HalfMade'
  <2>1. proc'[p].pc \in {"create", "check"}
    BY <1>1, <1>3 DEF IInv, PlaceInv, TypeOK
  <2> QED BY <2>1 DEF HalfMade
<1>7. ASSUME calm PROVE CalmAt(r, tables', row')
  <2>2. tables' \in 0..Tables /\ k <= tables' /\ Tables \in Nat
    BY <1>1, <1>2, Shape
  <2>3. CASE k < Tables
    <3>1. r.k = k + 1 /\ r.pc = "create" /\ r \in Proc
      BY <1>3, <2>3
    <3>2. k \in Nat /\ tables' \in Nat /\ k <= tables'
      BY <1>2, <2>2
    <3>3. k + 1 <= tables' + 1
      BY ONLY <3>2, BothMore
    <3>4. r.k <= tables' + 1
      BY ONLY <3>1, <3>3, Zenon
    <3> QED
      BY <3>1, <3>4, CreatesCalm
  <2>4. CASE ~(k < Tables)
    <3>1. tables' = Tables /\ r.k = 1 /\ r.pc = "check"
      BY <1>2, <1>3, <2>2, <2>4
    <3> QED
      BY <1>2, <3>1 DEF CalmAt
  <2> QED
    BY <2>3, <2>4
<1> QED
  BY <1>1, <1>3, <1>4, <1>5, <1>6, <1>7, StepKeeps DEF RestAt, LoadedAt

\* Setting::insert looks for the row.
LEMMA CheckKeeps ==
  ASSUME IInv, NEW p \in Process, Check(p)
  PROVE  IInv'
<1> DEFINE k == proc[p].k
<1>1. proc[p].pc = "check" /\ UNCHANGED database
  BY DEF Check, Step
<1>2. proc[p] \in Proc /\ k \in 1..Last + 2 /\ Last \in Nat /\ Len(Names) = Last + 1
  BY <1>1, Shape DEF IInv, PlaceInv, TypeOK, Proc, Placed
<1>3. ASSUME calm PROVE /\ tables = Tables
                        /\ \A i \in 1..Last + 1 : i < k => row[Names[i]] # NoRow
  BY <1>1, <1>3 DEF IInv, CalmInv, CalmAt
<1>4. CASE k > Len(Names)
  <2> DEFINE r == To(p, "start")
  <2>1. Step(p, "check", r) /\ proc' = [proc EXCEPT ![p] = r]
    BY <1>4 DEF Check, Step
  <2>2. r \in Proc /\ Placed(r) /\ r.pc = "start" /\ r.copy = proc[p].copy
    BY <1>1, ToTyped
  <2> HIDE DEF r
  <2>3. ASSUME calm PROVE CalmAt(r, tables', row') /\ HalfMade'
    <3>1. \A i \in 1..Last + 1 : row[Names[i]] # NoRow
      BY <1>2, <1>3, <1>4, <2>3
    <3>2. \A n \in Range(Names) : row[n] # NoRow
      BY <3>1, Shape
    <3>3. HalfMade'
      BY <1>1, <2>1, <2>2, <2>3, <3>2, HalfStays
    <3> QED
      BY <1>3, <2>2, <2>3, <3>3 DEF CalmAt
  <2> QED
    BY <1>1, <2>1, <2>2, <2>3, Same, StepKeeps DEF RestAt, LoadedAt
<1>5. CASE k <= Len(Names) /\ (tables < Tables \/ row[Names[k]] # NoRow)
  <2> DEFINE r == Again(p)
  <2>1. Step(p, "check", r) /\ proc' = [proc EXCEPT ![p] = r]
    <3>1. ~(k > Len(Names))
      BY <1>2, <1>5
    <3> QED BY <1>5, <3>1 DEF Check, Step
  <2>2. r \in Proc /\ r.pc = "check" /\ r.k = k + 1 /\ r.copy = proc[p].copy
    BY <1>1, <1>2, <1>5, AgainTyped
  <2> HIDE DEF r, k
  <2>3. Placed(r)
    BY <1>2, <1>5, <2>2 DEF Placed
  <2>4. ASSUME calm PROVE CalmAt(r, tables', row') /\ HalfMade'
    <3>1. HalfMade'
      BY <1>1, <2>1, <2>2, <2>4, HalfStays
    <3>2. row[Names[k]] # NoRow
      BY <1>3, <1>5, <2>4, Shape
    <3>3. ASSUME NEW i \in 1..Last + 1, i < r.k PROVE row[Names[i]] # NoRow
      <4>1. i < k \/ i = k
        BY <1>2, <2>2, <3>3
      <4> QED BY <1>3, <2>4, <3>2, <3>3, <4>1
    <3> QED
      BY <1>1, <1>3, <2>2, <2>4, <3>1, <3>3 DEF CalmAt, database
  <2> QED
    BY <1>1, <2>1, <2>2, <2>3, <2>4, Same, StepKeeps DEF RestAt, LoadedAt
<1>6. CASE k <= Len(Names) /\ ~(tables < Tables \/ row[Names[k]] # NoRow)
  <2> DEFINE r == [proc[p] EXCEPT !.pc = "insert"]
  <2>1. Step(p, "check", r) /\ proc' = [proc EXCEPT ![p] = r]
    <3>1. ~(k > Len(Names))
      BY <1>2, <1>6
    <3> QED BY <1>6, <3>1 DEF Check, Step
  <2>2. r \in Proc /\ r.pc = "insert" /\ r.k = k /\ r.copy = proc[p].copy
    BY <1>2 DEF Proc
  <2> HIDE DEF r, k
  <2>3. Placed(r)
    BY <1>2, <1>6, <2>2 DEF Placed
  <2>4. ASSUME calm PROVE CalmAt(r, tables', row') /\ HalfMade'
    <3>1. HalfMade'
      BY <1>1, <2>1, <2>2, <2>4, HalfStays
    <3> QED
      BY <1>1, <1>3, <2>2, <2>4, <3>1 DEF CalmAt, database
  <2> QED
    BY <1>1, <2>1, <2>2, <2>3, <2>4, Same, StepKeeps DEF RestAt, LoadedAt
<1> QED
  BY <1>2, <1>4, <1>5, <1>6

\* ... and adds it, unless another process has meanwhile.
LEMMA InsertKeeps ==
  ASSUME IInv, NEW p \in Process, Insert(p)
  PROVE  IInv'
<1> DEFINE k == proc[p].k
           q == Again(p)
           r == [q EXCEPT !.pc = "check"]
           n == Names[k]
<1>1. /\ proc[p].pc = "insert" /\ Step(p, "insert", r) /\ proc' = [proc EXCEPT ![p] = r]
      /\ row' = IF row[n] = NoRow THEN [row EXCEPT ![n] = Default] ELSE row
      /\ UNCHANGED tables
  BY DEF Insert, Step
<1>2. proc[p] \in Proc /\ k \in 1..Last + 1 /\ Last \in Nat
  BY <1>1, Shape, SMTT(30) DEF IInv, PlaceInv, TypeOK, Proc, Placed
<1>3. r \in Proc /\ r.pc = "check" /\ r.k = k + 1 /\ r.copy = proc[p].copy
  <2>1. q \in Proc /\ q.k = k + 1 /\ q.copy = proc[p].copy
    BY <1>2, AgainTyped
  <2> HIDE DEF q
  <2> QED BY <2>1 DEF Proc
<1>4. n \in Range(Names) /\ row[n] \in Value \cup {NoRow} /\ Default # NoRow
  BY <1>2, Shape, StartupAssumption DEF IInv, PlaceInv, TypeOK
<1> HIDE DEF r, k
<1>5. Placed(r)
  BY <1>2, <1>3 DEF Placed
<1>6. Grows /\ row'[n] # NoRow
  <2>1. /\ row' \in [Range(Names) -> Value \cup {NoRow}]
        /\ row'[n] # NoRow
        /\ \A m \in Range(Names) : row[m] # NoRow => row'[m] = row[m]
    <3> HIDE DEF n
    <3> QED BY <1>1, <1>4, StartupAssumption DEF IInv, PlaceInv, TypeOK
  <2>2. tables' \in 0..Tables /\ tables <= tables'
    BY <1>1, Shape DEF IInv, PlaceInv, TypeOK
  <2> QED BY <2>1, <2>2 DEF Grows
<1>7. HalfMade'
  <2>1. proc'[p].pc = "check"
    BY <1>1, <1>3 DEF IInv, PlaceInv, TypeOK
  <2> QED BY <2>1 DEF HalfMade
<1>8. ASSUME calm PROVE CalmAt(r, tables', row')
  <2>1. tables = Tables /\ \A i \in 1..Last + 1 : i < k => row[Names[i]] # NoRow
    BY <1>1, <1>8 DEF IInv, CalmInv, CalmAt, k
  <2>2. ASSUME NEW i \in 1..Last + 1, i < r.k PROVE row'[Names[i]] # NoRow
    <3>1. CASE i = k
      BY <1>6, <3>1
    <3>2. CASE i # k
      <4>1. i < k
        BY <1>2, <1>3, <2>2, <3>2
      <4>2. Names[i] \in Range(Names) /\ row[Names[i]] # NoRow
        BY <2>1, <4>1, Shape
      <4> QED BY <1>6, <4>2 DEF Grows
    <3> QED BY <3>1, <3>2
  <2> QED
    BY <1>1, <1>3, <2>1, <2>2 DEF CalmAt
<1> QED
  BY <1>1, <1>3, <1>5, <1>6, <1>7, <1>8, StepKeeps DEF RestAt, LoadedAt

(***************************************************************************)
(* logger::start.                                                          *)
(***************************************************************************)
LEMMA StartLoggerKeeps ==
  ASSUME IInv, NEW p \in Process, StartLogger(p)
  PROVE  IInv'
<1> DEFINE r == To(p, "load")
<1>1. /\ proc[p].pc = "start" /\ UNCHANGED database
      /\ Step(p, "start", r) /\ proc' = [proc EXCEPT ![p] = r]
  BY DEF StartLogger, Step
<1>2. r \in Proc /\ Placed(r) /\ r.pc = "load" /\ r.k = 1
  BY <1>1, ToTyped
<1> HIDE DEF r
<1>3. calm => CalmAt(r, tables', row') /\ HalfMade'
  BY <1>1, <1>2, HalfStays DEF CalmAt
<1>4. \A i \in 1..Last : ~(i < r.k)
  BY <1>2, Shape
<1> QED
  BY <1>1, <1>2, <1>3, <1>4, Same, StepKeeps DEF RestAt, LoadedAt

LEMMA LoadKeeps ==
  ASSUME IInv, NEW p \in Process, Load(p)
  PROVE  IInv'
<1> DEFINE k == proc[p].k
           n == LogNames[k]
<1>1. proc[p].pc = "load" /\ UNCHANGED database /\ k <= Last
  BY DEF Load, Step, Last
<1>2. proc[p] \in Proc /\ k \in 1..Last
  BY <1>1, Shape DEF IInv, PlaceInv, TypeOK, Proc
<1>3. Grows
  BY <1>1, Same
<1>4. ASSUME NEW r \in Proc, proc' = [proc EXCEPT ![p] = r], calm PROVE HalfMade'
  BY <1>1, <1>4, HalfStays
<1>5. CASE tables < Tables
  <2> DEFINE r == To(p, "open")
  <2>1. Step(p, "load", r) /\ proc' = [proc EXCEPT ![p] = r]
    BY <1>5 DEF Load, Step
  <2>2. r \in Proc /\ Placed(r) /\ r.pc = "open"
    BY <1>1, ToTyped
  <2> HIDE DEF r
  <2> QED
    BY <1>1, <1>3, <1>4, <2>1, <2>2, StepKeeps DEF RestAt, LoadedAt, CalmAt
<1>6. CASE ~(tables < Tables) /\ row[n] = NoRow
  <2>1. Step(p, "load", Down) /\ proc' = [proc EXCEPT ![p] = Down]
    BY <1>6 DEF Load, Step
  <2>2. CalmAt(Down, tables', row')
    BY DownTyped DEF CalmAt
  <2> QED
    BY <1>1, <1>3, <1>4, <2>1, <2>2, DownTyped, StepKeeps DEF RestAt, LoadedAt
<1>7. CASE ~(tables < Tables) /\ row[n] # NoRow
  <2> DEFINE q == Again(p)
             r == [q EXCEPT !.copy[n] = row[n]]
  <2>1. Step(p, "load", r) /\ proc' = [proc EXCEPT ![p] = r]
    BY <1>7 DEF Load, Step
  <2>2. q \in Proc /\ q.pc = "load" /\ q.k = k + 1 /\ q.copy = proc[p].copy
    BY <1>1, <1>2, AgainTyped, Shape
  <2>3. n \in LogName /\ row[n] \in Value \cup {NoRow}
    BY <1>2, Shape DEF IInv, PlaceInv, TypeOK
  <2> HIDE DEF q, n, k
  <2>4. /\ r \in Proc /\ r.pc = "load" /\ r.k = k + 1
        /\ r.copy[n] = row[n] /\ \A m \in LogName \ {n} : r.copy[m] = proc[p].copy[m]
    BY <2>2, <2>3 DEF Proc
  <2> HIDE DEF r
  <2>5. Placed(r) /\ CalmAt(r, tables', row')
    BY <1>2, <2>4, Shape DEF Placed, CalmAt
  <2>6. ASSUME NEW i \in 1..Last, i < r.k
        PROVE  \/ i < k /\ r.copy[LogNames[i]] = proc[p].copy[LogNames[i]]
               \/ LogNames[i] = n
    <3>1. CASE i = k
      BY <3>1 DEF n
    <3>2. CASE i # k
      <4>1. i < k
        BY <1>2, <2>4, <2>6, <3>2, Shape
      <4>2. LogNames[i] \in LogName \ {n}
        BY <1>2, <3>2, Shape DEF n
      <4> QED BY <2>4, <4>1, <4>2
    <3> QED BY <3>1, <3>2
  <2>7. row' = row
    BY <1>1 DEF database
  <2>8. LoadedAt(proc[p], row) => LoadedAt(r, row')
    BY <1>1, <1>7, <2>4, <2>6, <2>7 DEF LoadedAt, k
  <2>9. RestAt(proc[p], lost[p], row) => RestAt(r, lost[p], row')
    BY <1>1, <2>4, <2>6, <2>7 DEF RestAt, Saved, k
  <2> QED
    BY <1>1, <1>3, <1>4, <2>1, <2>4, <2>5, <2>8, <2>9, StepKeeps
<1> QED
  BY <1>5, <1>6, <1>7

\* The settings that were read become those in memory, or the process ends.
LEMMA ApplyKeeps ==
  ASSUME IInv, NEW p \in Process, Apply(p)
  PROVE  IInv'
<1>1. proc[p].pc = "load" /\ UNCHANGED database /\ proc[p].k > Last
  BY DEF Apply, Step, Last
<1>2. proc[p] \in Proc /\ Last \in Nat
  BY Shape DEF IInv, PlaceInv, TypeOK
<1>3. Grows
  BY <1>1, Same
<1>4. ASSUME NEW r \in Proc, proc' = [proc EXCEPT ![p] = r], calm PROVE HalfMade'
  BY <1>1, <1>4, HalfStays
<1>5. CASE proc[p].copy[PathName] \in usable
  <2> DEFINE q == To(p, "run")
             c == proc[p].copy
             r == [q EXCEPT !.mem = c]
  <2>1. Step(p, "load", r) /\ proc' = [proc EXCEPT ![p] = r]
    BY <1>5 DEF Apply, Step
  <2>2. q \in Proc /\ q.pc = "run" /\ q.k = 1 /\ q.copy = c
    BY ToTyped
  <2>3. c \in [LogName -> Value \cup {NoRow}]
    BY <1>2 DEF Proc
  <2> HIDE DEF q, c
  <2>4. r \in Proc /\ r.pc = "run" /\ r.k = 1 /\ r.copy = c /\ r.mem = c
    BY <2>2, <2>3 DEF Proc
  <2> HIDE DEF r
  <2>5. Placed(r) /\ CalmAt(r, tables', row')
    BY <2>4 DEF Placed, CalmAt
  <2>6. \A i \in 1..Last : i < proc[p].k
    BY <1>1, <1>2 DEF Proc
  <2>7. row' = row
    BY <1>1 DEF database
  <2>8. LoadedAt(proc[p], row) => LoadedAt(r, row')
    <3> SUFFICES ASSUME LoadedAt(proc[p], row), NEW n \in LogName
                 PROVE  c[n] # NoRow /\ row[n] # NoRow
      BY <2>4, <2>7 DEF LoadedAt
    <3>1. PICK i \in 1..Last : n = LogNames[i]
      BY Shape
    <3> QED BY <1>1, <2>6, <3>1 DEF LoadedAt, c
  <2>9. RestAt(proc[p], lost[p], row) => RestAt(r, lost[p], row')
    BY <1>1, <2>4, <2>6, <2>7 DEF RestAt, Saved, c
  <2> QED
    BY <1>1, <1>3, <1>4, <2>1, <2>4, <2>5, <2>8, <2>9, StepKeeps
<1>6. CASE proc[p].copy[PathName] \notin usable
  <2> DEFINE q == To(p, "broken")
             m == [n \in LogName |-> Default]
             r == [q EXCEPT !.mem = m]
  <2>1. Step(p, "load", r) /\ proc' = [proc EXCEPT ![p] = r]
    BY <1>6 DEF Apply, Step
  <2>2. q \in Proc /\ q.pc = "broken" /\ q.k = 1
    BY ToTyped
  <2>3. m \in [LogName -> Value \cup {NoRow}]
    BY StartupAssumption
  <2> HIDE DEF q, m
  <2>4. r \in Proc /\ r.pc = "broken" /\ r.k = 1
    BY <2>2, <2>3 DEF Proc
  <2> HIDE DEF r
  <2>5. Placed(r) /\ CalmAt(r, tables', row')
    BY <1>2, <2>4 DEF Placed, CalmAt
  <2> QED
    BY <1>1, <1>3, <1>4, <2>1, <2>4, <2>5, StepKeeps DEF RestAt, LoadedAt
<1> QED
  BY <1>5, <1>6

LEMMA ReplayKeeps ==
  ASSUME IInv, NEW p \in Process, Replay(p)
  PROVE  IInv'
<1>1. Step(p, "broken", Down) /\ UNCHANGED database /\ proc[p].pc = "broken"
      /\ proc' = [proc EXCEPT ![p] = Down]
  BY DEF Replay, Step
<1>2. CalmAt(Down, tables', row')
  BY DownTyped DEF CalmAt
<1>3. calm => HalfMade'
  BY <1>1, DownTyped, HalfStays
<1> QED
  BY <1>1, <1>2, <1>3, DownTyped, Same, StepKeeps DEF RestAt, LoadedAt

(***************************************************************************)
(* The steps of the world.                                                 *)
(***************************************************************************)
\* A process that starts where a change is under way ends "apart".
LEMMA StartKeeps ==
  ASSUME IInv, NEW p \in Process, Start(p)
  PROVE  IInv'
<1> DEFINE r == [Down EXCEPT !.pc = "open"]
<1>1. /\ proc[p].pc = "down" /\ proc' = [proc EXCEPT ![p] = r]
      /\ apart' = (apart /\ \A t \in Thread : call[t].pc = "none")
      /\ UNCHANGED <<database, usable, call, spent, calm, lost>>
  BY DEF Start
<1>2. r \in Proc /\ Placed(r) /\ r.pc = "open"
  BY DownTyped
<1> HIDE DEF r
<1>3. Boots(p, r)
  BY <1>1, <1>2, Same DEF Boots
<1>4. PlaceInv'
  BY <1>1, <1>3, BootPlace DEF IInv, PlaceInv, TypeOK
<1>5. CalmInv'
  <2>1. calm => HalfMade'
    BY <1>1, <1>2, HalfStays
  <2> QED
    BY <1>1, <1>2, <1>3, <2>1, BootCalm DEF CalmAt
<1>6. LoadedInv'
  BY <1>2, <1>3, BootLoaded DEF LoadedAt
<1>7. RestInv'
  BY <1>1, <1>2, <1>3, BootRest DEF RestAt, Quiet
<1> QED
  BY <1>4, <1>5, <1>6, <1>7 DEF IInv

LEMMA FaultTyped ==
  ASSUME IInv, Fault
  PROVE  /\ spent' \in [faults : 0..MaxFaults, stops : 0..MaxStops, calls : 0..MaxCalls]
         /\ calm' = FALSE
BY StartupAssumption DEF Fault, IInv, PlaceInv, TypeOK

LEMMA SqlFailsKeeps ==
  ASSUME IInv, NEW p \in Process, SqlFails(p)
  PROVE  IInv'
<1>1. /\ proc[p].pc \in {"open", "empty", "create", "check", "insert", "load"}
      /\ proc[p].pc \in {"check", "insert"} => proc[p].k <= Last + 1
      /\ UNCHANGED <<database, usable, call, lost, apart>>
  BY Shape DEF SqlFails
<1>2. PICK r : /\ r \in Proc /\ Placed(r) /\ r.pc \in {"open", "check"}
               /\ proc' = [proc EXCEPT ![p] = r]
  <2>1. CASE proc' = [proc EXCEPT ![p] = To(p, "open")]
    BY <1>1, <2>1, ToTyped
  <2>2. CASE /\ proc[p].pc \in {"check", "insert"}
             /\ proc' = [proc EXCEPT ![p] = [Again(p) EXCEPT !.pc = "check"]]
    <3> DEFINE q == Again(p)
               r == [q EXCEPT !.pc = "check"]
    <3>1. proc[p] \in Proc
      BY <2>2 DEF IInv, PlaceInv, TypeOK, Placed
    <3>2. q \in Proc /\ q.k = proc[p].k + 1
      BY <1>1, <2>2, AgainTyped
    <3> HIDE DEF q
    <3>3. r \in Proc /\ r.pc = "check" /\ r.k = proc[p].k + 1
      BY <3>2 DEF Proc
    <3>4. proc' = [proc EXCEPT ![p] = r]
      BY <2>2 DEF q
    <3> HIDE DEF r
    <3>5. Placed(r)
      BY <1>1, <2>2, <3>1, <3>3, Shape DEF Placed, Proc
    <3> QED BY <3>3, <3>4, <3>5
  <2> QED BY <2>1, <2>2 DEF SqlFails
<1>3. Boots(p, r)
  BY <1>1, <1>2, Same DEF Boots
<1>4. /\ spent' \in [faults : 0..MaxFaults, stops : 0..MaxStops, calls : 0..MaxCalls]
      /\ calm' = FALSE
  BY FaultTyped DEF SqlFails
<1>5. PlaceInv'
  BY <1>1, <1>3, <1>4, BootPlace DEF IInv, PlaceInv, TypeOK
<1>6. CalmInv'
  BY <1>4 DEF CalmInv
<1>7. LoadedInv'
  BY <1>2, <1>3, BootLoaded DEF LoadedAt
<1>8. RestInv'
  BY <1>1, <1>2, <1>3, BootRest DEF RestAt
<1> QED
  BY <1>5, <1>6, <1>7, <1>8 DEF IInv

\* The process is gone with its changes.
LEMMA StopKeeps ==
  ASSUME IInv, NEW p \in Process, Stop(p)
  PROVE  IInv'
<1>1. /\ spent.stops < MaxStops /\ spent' = [spent EXCEPT !.stops = @ + 1]
      /\ proc' = [proc EXCEPT ![p] = Down]
      /\ call' = [t \in Thread |-> IF ProcessOf[t] = p THEN NoCall ELSE call[t]]
      /\ calm' = (calm /\ proc[p].pc = "run")
      /\ lost' = [lost EXCEPT ![p] = {}]
      /\ UNCHANGED <<tables, row, usable, apart>>
  BY DEF Stop, database
<1>2. NoCall \in Call /\ NoCall.pc = "none"
  BY Shape DEF NoCall, Call, Last
<1>3. /\ proc' \in [Process -> Proc] /\ proc'[p] = Down
      /\ \A q \in Process \ {p} : proc'[q] = proc[q]
      /\ lost' \in [Process -> SUBSET LogName] /\ lost'[p] = {}
      /\ \A q \in Process \ {p} : lost'[q] = lost[q]
  BY <1>1, DownTyped DEF IInv, PlaceInv, TypeOK
<1>4. call' \in [Thread -> Call]
  BY <1>1, <1>2 DEF IInv, PlaceInv, TypeOK
<1>5. \A t \in Thread : IF ProcessOf[t] = p THEN call'[t].pc = "none"
                        ELSE call'[t] = call[t] /\ Logger(t)' = Logger(t)
  BY <1>1, <1>2, <1>3, StartupAssumption DEF Logger
<1>6. PlaceInv'
  <2>1. spent' \in [faults : 0..MaxFaults, stops : 0..MaxStops, calls : 0..MaxCalls]
    BY <1>1, StartupAssumption, SMTT(40) DEF IInv, PlaceInv, TypeOK
  <2>2. \A t \in Thread : call'[t].pc # "none" => proc'[ProcessOf[t]].pc = "run"
    BY <1>3, <1>5, StartupAssumption DEF IInv, PlaceInv, TypeOK
  <2>3. calm' \in BOOLEAN
    BY <1>1
  <2>4. TypeOK'
    BY <1>1, <1>3, <1>4, <2>1, <2>2, <2>3 DEF IInv, PlaceInv, TypeOK
  <2>5. \A t \in Thread : PlacedCall(call'[t])
    BY <1>5 DEF IInv, PlaceInv, PlacedCall
  <2>6. \A q \in Process : Placed(proc'[q])
    BY <1>3, DownTyped DEF IInv, PlaceInv
  <2>7. \A q \in Process : proc'[q].pc # "run" => lost'[q] = {}
    BY <1>3 DEF IInv, PlaceInv
  <2> QED BY <2>4, <2>5, <2>6, <2>7 DEF PlaceInv
<1>7. CalmInv'
  <2> SUFFICES ASSUME calm, proc[p].pc = "run"
               PROVE  HalfMade' /\ \A q \in Process : CalmAt(proc'[q], tables', row')
    BY <1>1 DEF CalmInv
  <2>1. HalfMade'
    BY <1>1, <1>3, DownTyped, HalfStays DEF database
  <2>2. CalmAt(Down, tables', row')
    BY DownTyped DEF CalmAt
  <2>3. \A q \in Process : CalmAt(proc'[q], tables', row')
    BY <1>1, <1>3, <2>2 DEF IInv, CalmInv
  <2> QED BY <2>1, <2>3
<1>8. LoadedInv'
  <2>1. LoadedAt(Down, row')
    BY DownTyped DEF LoadedAt
  <2>2. \A q \in Process : LoadedAt(proc'[q], row')
    BY <1>1, <1>3, <2>1 DEF IInv, LoadedInv
  <2>3. \A t \in Thread : BoundAt(call'[t])
    BY <1>5 DEF IInv, LoadedInv, BoundAt
  <2> QED BY <2>2, <2>3 DEF LoadedInv
<1>9. RestInv'
  <2> SUFFICES ASSUME apart
               PROVE  /\ Quiet' => \A q \in Process : RestAt(proc'[q], lost'[q], row')
                      /\ \A t \in Thread : call'[t].pc # "none" =>
                           Only(t)' /\ Saving(call'[t], Logger(t)', lost'[ProcessOf[t]], row')
    BY <1>1 DEF RestInv
  <2>1. ASSUME Quiet', NEW q \in Process PROVE RestAt(proc'[q], lost'[q], row')
    <3>1. CASE q = p
      BY <1>3, <3>1, DownTyped DEF RestAt
    <3>2. CASE q # p /\ Quiet
      BY <1>1, <1>3, <3>2 DEF IInv, RestInv
    <3>3. CASE q # p /\ ~Quiet
      <4>1. PICK t \in Thread : call[t].pc # "none" /\ ProcessOf[t] = p
        BY <1>5, <2>1, <3>3 DEF Quiet
      <4>2. proc[q].pc = "down"
        BY <3>3, <4>1 DEF IInv, RestInv, Only
      <4> QED BY <1>3, <3>3, <4>2 DEF RestAt
    <3> QED BY <3>1, <3>2, <3>3
  <2>2. ASSUME NEW t \in Thread, call'[t].pc # "none"
        PROVE  Only(t)' /\ Saving(call'[t], Logger(t)', lost'[ProcessOf[t]], row')
    <3>1. /\ call'[t] = call[t] /\ Logger(t)' = Logger(t)
          /\ lost'[ProcessOf[t]] = lost[ProcessOf[t]]
      BY <1>3, <1>5, <2>2, StartupAssumption
    <3>2. Only(t) /\ Saving(call[t], Logger(t), lost[ProcessOf[t]], row)
      BY <2>2, <3>1 DEF IInv, RestInv
    <3>3. Only(t)'
      BY <1>3, <1>5, <3>2, DownTyped DEF Only
    <3> QED BY <1>1, <3>1, <3>2, <3>3
  <2> QED BY <2>1, <2>2
<1> QED
  BY <1>6, <1>7, <1>8, <1>9 DEF IInv

LEMMA FolderGoneKeeps ==
  ASSUME IInv, NEW v \in Value, FolderGone(v)
  PROVE  IInv'
<1>1. /\ usable' \subseteq Value
      /\ UNCHANGED <<tables, row, proc, call, spent, calm, lost, apart>>
  BY DEF FolderGone, IInv, PlaceInv, TypeOK, database, history
<1>2. PlaceInv'
  BY <1>1 DEF IInv, PlaceInv, TypeOK
<1>3. CalmInv'
  BY <1>1 DEF IInv, CalmInv, HalfMade, Logger
<1>4. LoadedInv'
  BY <1>1 DEF IInv, LoadedInv
<1>5. RestInv'
  BY <1>1 DEF IInv, RestInv, Quiet, Only, Logger
<1> QED
  BY <1>2, <1>3, <1>4, <1>5 DEF IInv

(***************************************************************************)
(* The steps of a change.  It goes to c, its logger to r and the settings  *)
(* whose change failed to ls.                                              *)
(***************************************************************************)
Calls(t, c, r, ls) ==
  /\ Logger(t).pc = "run" /\ r \in Proc /\ r.pc = "run" /\ r.k = 1
  /\ c \in Call /\ PlacedCall(c) /\ ls \in SUBSET LogName
  /\ call' = [call EXCEPT ![t] = c]
  /\ proc' = [proc EXCEPT ![ProcessOf[t]] = r]
  /\ lost' = [lost EXCEPT ![ProcessOf[t]] = ls]
  /\ row' \in [Range(Names) -> Value \cup {NoRow}]
  /\ \A n \in Range(Names) : row[n] # NoRow => row'[n] # NoRow
  /\ UNCHANGED <<tables, usable>>

LEMMA CallStep ==
  ASSUME IInv, NEW t \in Thread, NEW c, NEW r, NEW ls, Calls(t, c, r, ls)
  PROVE  /\ ProcessOf[t] \in Process
         /\ proc' \in [Process -> Proc] /\ Logger(t)' = r
         /\ \A q \in Process \ {ProcessOf[t]} : proc'[q] = proc[q] /\ lost'[q] = lost[q]
         /\ \A q \in Process : proc'[q].pc = proc[q].pc
         /\ lost' \in [Process -> SUBSET LogName] /\ lost'[ProcessOf[t]] = ls
         /\ call' \in [Thread -> Call] /\ call'[t] = c
         /\ \A u \in Thread \ {t} : call'[u] = call[u]
BY StartupAssumption DEF IInv, PlaceInv, TypeOK, Calls, Logger

LEMMA CallPlace ==
  ASSUME IInv, NEW t \in Thread, NEW c, NEW r, NEW ls, Calls(t, c, r, ls),
         spent' \in [faults : 0..MaxFaults, stops : 0..MaxStops, calls : 0..MaxCalls],
         calm' \in BOOLEAN, apart' \in BOOLEAN
  PROVE  PlaceInv'
<1>1. /\ ProcessOf[t] \in Process
      /\ proc' \in [Process -> Proc] /\ proc'[ProcessOf[t]] = r
      /\ \A q \in Process \ {ProcessOf[t]} : proc'[q] = proc[q] /\ lost'[q] = lost[q]
      /\ \A q \in Process : proc'[q].pc = proc[q].pc
      /\ lost' \in [Process -> SUBSET LogName]
      /\ call' \in [Thread -> Call] /\ call'[t] = c
      /\ \A u \in Thread \ {t} : call'[u] = call[u]
  BY CallStep DEF Logger
<1>2. \A u \in Thread : call'[u].pc # "none" => proc'[ProcessOf[u]].pc = "run"
  BY <1>1, StartupAssumption DEF IInv, PlaceInv, TypeOK, Calls, Logger
<1>3. TypeOK'
  BY <1>1, <1>2 DEF IInv, PlaceInv, TypeOK, Calls
<1>4. Placed(r)
  BY DEF Placed, Calls
<1>5. \A q \in Process : Placed(proc'[q])
  BY <1>1, <1>4 DEF IInv, PlaceInv
<1>6. \A u \in Thread : PlacedCall(call'[u])
  BY <1>1 DEF IInv, PlaceInv, Calls
<1>7. \A q \in Process : proc'[q].pc # "run" => lost'[q] = {}
  BY <1>1 DEF IInv, PlaceInv, Calls
<1> QED
  BY <1>3, <1>5, <1>6, <1>7 DEF PlaceInv

LEMMA CallCalm ==
  ASSUME IInv, NEW t \in Thread, NEW c, NEW r, NEW ls, Calls(t, c, r, ls), calm' => calm
  PROVE  CalmInv'
<1>1. /\ proc'[ProcessOf[t]] = r
      /\ \A q \in Process \ {ProcessOf[t]} : proc'[q] = proc[q]
      /\ \A q \in Process : proc'[q].pc = proc[q].pc
  BY CallStep DEF Logger
<1> SUFFICES ASSUME calm
             PROVE  HalfMade' /\ \A q \in Process : CalmAt(proc'[q], tables', row')
  BY DEF CalmInv
<1>2. HalfMade'
  <2>1. HalfMade
    BY DEF IInv, CalmInv
  <2> QED BY <1>1, <2>1 DEF HalfMade, Calls
<1>3. CalmAt(r, tables', row')
  BY DEF CalmAt, Calls
<1>4. tables' \in 0..Tables /\ tables <= tables'
  BY Shape DEF Calls, IInv, PlaceInv, TypeOK
<1>5. \A q \in Process : proc[q] \in Proc /\ CalmAt(proc[q], tables, row)
  BY DEF IInv, PlaceInv, TypeOK, CalmInv
<1>6. \A q \in Process : CalmAt(proc[q], tables', row')
  BY <1>4, <1>5, CalmGrows DEF Calls
<1> QED
  BY <1>1, <1>2, <1>3, <1>6

LEMMA CallLoaded ==
  ASSUME IInv, NEW t \in Thread, NEW c, NEW r, NEW ls, Calls(t, c, r, ls),
         LoadedAt(r, row'), BoundAt(c)
  PROVE  LoadedInv'
<1>1. /\ proc'[ProcessOf[t]] = r
      /\ \A q \in Process \ {ProcessOf[t]} : proc'[q] = proc[q]
      /\ call'[t] = c
      /\ \A u \in Thread \ {t} : call'[u] = call[u]
  BY CallStep DEF Logger
<1>2. \A n \in LogName : row[n] # NoRow => row'[n] # NoRow
  BY Shape DEF Calls
<1>3. \A q \in Process : LoadedAt(proc[q], row')
  BY <1>2, LoadedGrows DEF IInv, LoadedInv
<1>4. \A q \in Process : LoadedAt(proc'[q], row')
  BY <1>1, <1>3
<1>5. \A u \in Thread : BoundAt(call'[u])
  BY <1>1 DEF IInv, LoadedInv
<1> QED
  BY <1>4, <1>5 DEF LoadedInv

\* The change is the only one, and its process the only one that is up.
LEMMA CallRest ==
  ASSUME IInv, NEW t \in Thread, NEW c, NEW r, NEW ls, Calls(t, c, r, ls),
         apart' => apart /\ Only(t),
         apart' => IF c.pc = "none" THEN RestAt(r, ls, row') ELSE Saving(c, r, ls, row')
  PROVE  RestInv'
<1>1. /\ ProcessOf[t] \in Process
      /\ Logger(t)' = r /\ proc'[ProcessOf[t]] = r /\ lost'[ProcessOf[t]] = ls
      /\ \A q \in Process \ {ProcessOf[t]} : proc'[q] = proc[q]
      /\ call'[t] = c
      /\ \A u \in Thread \ {t} : call'[u] = call[u]
  BY CallStep DEF Logger
<1> SUFFICES ASSUME apart'
             PROVE  /\ Quiet' => \A q \in Process : RestAt(proc'[q], lost'[q], row')
                    /\ \A u \in Thread : call'[u].pc # "none" =>
                         Only(u)' /\ Saving(call'[u], Logger(u)', lost'[ProcessOf[u]], row')
  BY DEF RestInv
<1>2. Only(t)'
  BY <1>1 DEF Only
<1>3. ASSUME NEW u \in Thread, call'[u].pc # "none" PROVE u = t
  BY <1>2, <1>3 DEF Only
<1>4. ASSUME Quiet', NEW q \in Process PROVE RestAt(proc'[q], lost'[q], row')
  <2>1. CASE q = ProcessOf[t]
    <3>1. c.pc = "none"
      BY <1>1, <1>4 DEF Quiet
    <3> QED BY <1>1, <2>1, <3>1
  <2>2. CASE q # ProcessOf[t]
    <3>1. proc'[q].pc = "down"
      BY <1>2, <2>2 DEF Only
    <3> QED BY <3>1 DEF RestAt
  <2> QED BY <2>1, <2>2
<1> QED
  BY <1>1, <1>2, <1>3, <1>4

LEMMA CallKeeps ==
  ASSUME IInv, NEW t \in Thread, NEW c, NEW r, NEW ls, Calls(t, c, r, ls),
         spent' \in [faults : 0..MaxFaults, stops : 0..MaxStops, calls : 0..MaxCalls],
         calm' \in BOOLEAN, apart' \in BOOLEAN, calm' => calm,
         LoadedAt(r, row'), BoundAt(c),
         apart' => apart /\ Only(t),
         apart' => IF c.pc = "none" THEN RestAt(r, ls, row') ELSE Saving(c, r, ls, row')
  PROVE  IInv'
BY CallPlace, CallCalm, CallLoaded, CallRest DEF IInv

\* What a change finds in its logger.
LEMMA CallKnown ==
  ASSUME IInv, NEW t \in Thread, Logger(t).pc = "run"
  PROVE  /\ ProcessOf[t] \in Process /\ Logger(t) \in Proc /\ call[t] \in Call
         /\ Logger(t).k = 1 /\ call[t].k \in 1..Last + 1
         /\ call[t].pc \in {"bind", "execute"} => call[t].k <= Last
         /\ lost[ProcessOf[t]] \in SUBSET LogName
         /\ lost = [lost EXCEPT ![ProcessOf[t]] = lost[ProcessOf[t]]]
         /\ \A n \in LogName :
              Logger(t).copy[n] # NoRow /\ Logger(t).mem[n] # NoRow /\ row[n] # NoRow
         /\ LoadedAt(Logger(t), row) /\ BoundAt(call[t])
         /\ apart /\ call[t].pc # "none" =>
              Only(t) /\ Saving(call[t], Logger(t), lost[ProcessOf[t]], row)
<1>1. ProcessOf[t] \in Process
  BY StartupAssumption
<1>2. /\ Logger(t) \in Proc /\ call[t] \in Call
      /\ lost \in [Process -> SUBSET LogName]
  BY <1>1 DEF IInv, PlaceInv, TypeOK, Logger
<1>3. call[t].k \in 1..Last + 1
  BY <1>2 DEF Call, Last
<1>4. Placed(Logger(t)) /\ PlacedCall(call[t])
  BY <1>1 DEF IInv, PlaceInv, Logger
<1>5. LoadedAt(Logger(t), row) /\ BoundAt(call[t])
  BY <1>1 DEF IInv, LoadedInv, Logger
<1>6. apart /\ call[t].pc # "none" =>
        Only(t) /\ Saving(call[t], Logger(t), lost[ProcessOf[t]], row)
  BY DEF IInv, RestInv
<1> QED
  BY <1>1, <1>2, <1>3, <1>4, <1>5, <1>6 DEF Placed, PlacedCall, LoadedAt

LEMMA Unchanged ==
  ASSUME IInv
  PROVE  /\ row \in [Range(Names) -> Value \cup {NoRow}]
         /\ spent \in [faults : 0..MaxFaults, stops : 0..MaxStops, calls : 0..MaxCalls]
         /\ calm \in BOOLEAN /\ apart \in BOOLEAN
         /\ proc \in [Process -> Proc] /\ call \in [Thread -> Call]
         /\ \A t \in Thread : call[t].pc # "none" => Logger(t).pc = "run"
BY DEF IInv, PlaceInv, TypeOK, Logger

\* The value in memory is changed: the rows and the copies have the one before.
LEMMA SetKeeps ==
  ASSUME IInv, NEW t \in Thread, NEW n \in LogName, NEW v \in Value, Set(t, n, v)
  PROVE  IInv'
<1> DEFINE l == Logger(t)
           w == [l.mem EXCEPT ![n] = v]
           r == [l EXCEPT !.mem = w]
           ls == lost[ProcessOf[t]]
<1>1. /\ l.pc = "run" /\ call[t].pc = "none"
      /\ proc' = [proc EXCEPT ![ProcessOf[t]] = r]
      /\ apart' = (apart /\ Alone(t))
      /\ UNCHANGED <<tables, row, usable>>
      /\ spent.calls < MaxCalls
  BY DEF Set, Logger, database
<1>2. /\ ProcessOf[t] \in Process /\ l \in Proc /\ l.k = 1 /\ call[t] \in Call
      /\ \A m \in LogName : l.copy[m] # NoRow /\ l.mem[m] # NoRow /\ row[m] # NoRow
      /\ ls \in SUBSET LogName /\ BoundAt(call[t])
      /\ lost = [lost EXCEPT ![ProcessOf[t]] = ls]
  BY <1>1, CallKnown
<1>3. ASSUME apart' PROVE apart /\ Only(t) /\ RestAt(l, ls, row)
  <2>1. Quiet /\ apart /\ Only(t)
    BY <1>1, <1>3 DEF Alone, Only, Quiet
  <2> QED BY <1>2, <2>1 DEF IInv, RestInv, Logger
<1> HIDE DEF l, ls
<1>4. /\ w \in [LogName -> Value \cup {NoRow}] /\ w[n] = v
      /\ \A m \in LogName \ {n} : w[m] = l.mem[m]
  BY <1>2 DEF Proc
<1> HIDE DEF w
<1>5. r \in Proc /\ r.pc = "run" /\ r.k = 1 /\ r.copy = l.copy /\ r.mem = w
  BY <1>1, <1>2, <1>4 DEF Proc
<1> HIDE DEF r
<1>6. LoadedAt(r, row)
  <2>1. v # NoRow
    BY StartupAssumption
  <2> QED BY <1>2, <1>4, <1>5, <2>1 DEF LoadedAt
<1>7. CASE /\ call' = [call EXCEPT ![t] = [NoCall EXCEPT !.pc = "save"]]
           /\ spent' = [spent EXCEPT !.calls = @ + 1]
           /\ UNCHANGED <<calm, lost>>
  <2> DEFINE c == [NoCall EXCEPT !.pc = "save"]
  <2>1. c \in Call /\ c.pc = "save" /\ c.k = 1
    BY Shape DEF NoCall, Call, Last
  <2>2. call' = [call EXCEPT ![t] = c]
    BY <1>7
  <2> HIDE DEF c
  <2>3. Calls(t, c, r, ls)
    BY <1>1, <1>2, <1>5, <1>7, <2>1, <2>2, Unchanged DEF Calls, PlacedCall, l
  <2>4. spent' \in [faults : 0..MaxFaults, stops : 0..MaxStops, calls : 0..MaxCalls]
    BY <1>1, <1>7, StartupAssumption, Unchanged
  <2>5. ASSUME apart' PROVE Saving(c, r, ls, row)
    <3>1. \A i \in 1..Last : ~(i < c.k)
      BY <2>1, Shape
    <3>2. \A i \in 1..Last : LogNames[i] \notin ls => row[LogNames[i]] = r.copy[LogNames[i]]
      BY <1>1, <1>3, <1>5, <2>5 DEF RestAt, Saved
    <3> QED BY <2>1, <3>1, <3>2 DEF Saving
  <2> QED
    BY <1>1, <1>3, <1>6, <1>7, <2>1, <2>3, <2>4, <2>5, Unchanged, CallKeeps DEF BoundAt
<1>8. CASE /\ spent.faults < MaxFaults
           /\ spent' = [spent EXCEPT !.calls = @ + 1, !.faults = @ + 1]
           /\ lost' = [lost EXCEPT ![ProcessOf[t]] = @ \cup {n}] /\ calm' = FALSE
           /\ UNCHANGED call
  <2> DEFINE more == ls \cup {n}
  <2>1. call' = [call EXCEPT ![t] = call[t]] /\ PlacedCall(call[t])
    BY <1>1, <1>8, Unchanged DEF PlacedCall
  <2>2. lost' = [lost EXCEPT ![ProcessOf[t]] = more] /\ more \in SUBSET LogName
    BY <1>2, <1>8 DEF ls
  <2> HIDE DEF more
  <2>3. Calls(t, call[t], r, more)
    BY <1>1, <1>2, <1>5, <2>1, <2>2, Unchanged DEF Calls, l
  <2>4. spent' \in [faults : 0..MaxFaults, stops : 0..MaxStops, calls : 0..MaxCalls]
    <3>1. /\ spent.calls + 1 \in 0..MaxCalls /\ spent.faults + 1 \in 0..MaxFaults
          /\ spent.stops \in 0..MaxStops
      BY <1>1, <1>8, StartupAssumption, Unchanged
    <3>2. spent' = [faults |-> spent.faults + 1, stops |-> spent.stops, calls |-> spent.calls + 1]
      BY <1>8, Unchanged
    <3> QED BY <3>1, <3>2
  <2>5. ASSUME apart' PROVE RestAt(r, more, row)
    <3> SUFFICES ASSUME NEW i \in 1..Last, LogNames[i] \notin more
                 PROVE  Saved(r, i, row) /\ r.mem[LogNames[i]] = row[LogNames[i]]
      BY <1>5 DEF RestAt
    <3>1. LogNames[i] \notin ls /\ LogNames[i] \in LogName \ {n}
      BY Shape DEF more
    <3> QED BY <1>1, <1>3, <1>4, <1>5, <2>5, <3>1 DEF RestAt, Saved
  <2>6. calm' \in BOOLEAN /\ apart' \in BOOLEAN /\ ~calm'
    BY <1>1, <1>8
  <2> QED
    BY <1>1, <1>2, <1>3, <1>6, <2>3, <2>4, <2>5, <2>6, CallKeeps
<1> QED
  BY <1>7, <1>8 DEF Set

\* The steps of save_to_db that leave the row alone.
LEMMA SaveStep ==
  ASSUME IInv, NEW t \in Thread, NEW pc, NEW c \in Call, NEW r \in Proc, Go(t, pc, c, r),
         Logger(t).pc = "run", PlacedCall(c), BoundAt(c), r.pc = "run", r.k = 1,
         UNCHANGED <<database, history>>,
         LoadedAt(r, row),
         apart => Only(t) /\ IF c.pc = "none" THEN RestAt(r, lost[ProcessOf[t]], row)
                             ELSE Saving(c, r, lost[ProcessOf[t]], row)
  PROVE  IInv'
<1> DEFINE ls == lost[ProcessOf[t]]
<1>1. /\ UNCHANGED <<tables, row, usable, spent, calm, lost, apart>>
      /\ call' = [call EXCEPT ![t] = c] /\ proc' = [proc EXCEPT ![ProcessOf[t]] = r]
  BY DEF Go, database, history
<1>2. ls \in SUBSET LogName /\ lost = [lost EXCEPT ![ProcessOf[t]] = ls]
  BY CallKnown
<1> HIDE DEF ls
<1>3. Calls(t, c, r, ls)
  BY <1>1, <1>2, Unchanged DEF Calls
<1> QED
  BY <1>1, <1>3, Unchanged, CallKeeps DEF ls

\* save_to_db goes through the settings.
LEMMA SaveKeeps ==
  ASSUME IInv, NEW t \in Thread, Save(t)
  PROVE  IInv'
<1> DEFINE l == Logger(t)
           ls == lost[ProcessOf[t]]
           k == call[t].k
           n == LogNames[k]
<1>1. call[t].pc = "save" /\ l.pc = "run" /\ UNCHANGED <<database, history>>
  BY Unchanged DEF Save, Go
<1>2. /\ l \in Proc /\ l.k = 1 /\ call[t] \in Call /\ k \in 1..Last + 1
      /\ \A m \in LogName : l.copy[m] # NoRow /\ l.mem[m] # NoRow /\ row[m] # NoRow
      /\ LoadedAt(l, row)
      /\ apart => Only(t) /\ Saving(call[t], l, ls, row)
  BY <1>1, CallKnown
<1>3. Last \in Nat /\ Last = Len(LogNames)
  BY Shape DEF Last
<1>4. k <= Last => k \in 1..Last /\ n \in LogName
  BY <1>2, <1>3, Shape
<1>5. CASE k > Last
  <2>1. NoCall \in Call /\ NoCall.pc = "none" /\ PlacedCall(NoCall) /\ BoundAt(NoCall)
    BY Shape DEF NoCall, Call, Last, PlacedCall, BoundAt
  <2>2. Go(t, "save", NoCall, l)
    BY <1>3, <1>5 DEF Save
  <2>3. ASSUME apart PROVE RestAt(l, ls, row)
    <3> SUFFICES ASSUME NEW i \in 1..Last, LogNames[i] \notin ls
                 PROVE  Saved(l, i, row) /\ l.mem[LogNames[i]] = row[LogNames[i]]
      BY <1>1 DEF RestAt
    <3>1. i < k
      <4>1. k \in Nat /\ k > Last /\ i <= Last
        BY <1>2, <1>3, <1>5
      <4> HIDE DEF k
      <4> QED BY <1>3, <4>1
    <3> QED BY <1>2, <2>3, <3>1 DEF Saving, Saved
  <2> HIDE DEF l
  <2> QED BY <1>1, <1>2, <2>1, <2>2, <2>3, SaveStep DEF l
<1>6. CASE k <= Last /\ Differs(t)
  <2> DEFINE c == [call[t] EXCEPT !.pc = "bind"]
             w == [l.copy EXCEPT ![n] = l.mem[n]]
             r == [l EXCEPT !.copy = w]
  <2>1. Go(t, "save", c, r)
    <3>1. ~(call[t].k > Len(LogNames))
      BY <1>2, <1>3, <1>6
    <3> QED BY <1>6, <3>1 DEF Save, Copied
  <2>2. c \in Call /\ c.pc = "bind" /\ c.k = k
    BY <1>2 DEF Call
  <2> HIDE DEF c, l, n
  <2>3. /\ w \in [LogName -> Value \cup {NoRow}] /\ w[n] = l.mem[n]
        /\ \A m \in LogName \ {n} : w[m] = l.copy[m]
    BY <1>2, <1>4, <1>6 DEF Proc
  <2> HIDE DEF w
  <2>4. r \in Proc /\ r.pc = "run" /\ r.k = 1 /\ r.mem = l.mem /\ r.copy = w
    BY <1>1, <1>2, <2>3 DEF Proc
  <2> HIDE DEF r
  <2>5. LoadedAt(r, row)
    BY <1>2, <1>4, <1>6, <2>3, <2>4 DEF LoadedAt
  <2>6. PlacedCall(c) /\ BoundAt(c)
    BY <1>6, <2>2 DEF PlacedCall, BoundAt
  <2>7. ASSUME apart PROVE Saving(c, r, ls, row)
    <3>1. Saving(call[t], l, ls, row)
      BY <1>2, <2>7
    <3> SUFFICES ASSUME NEW i \in 1..Last
                 PROVE  LET m == LogNames[i] IN
                   /\ m \notin ls => /\ i < k => row[m] = r.mem[m] /\ r.copy[m] = r.mem[m]
                                     /\ i > k => row[m] = r.copy[m]
                   /\ i = k => r.copy[m] = r.mem[m]
      BY <2>2 DEF Saving
    <3>2. CASE i = k
      BY <1>4, <1>6, <2>3, <2>4, <3>2 DEF n
    <3>3. CASE i # k
      <4>1. LogNames[i] \in LogName \ {n}
        BY <1>4, <1>6, <3>3, Shape DEF n
      <4> QED
        BY <1>1, <2>3, <2>4, <3>1, <3>3, <4>1 DEF Saving
    <3> QED BY <3>2, <3>3
  <2> QED
    BY <1>1, <1>2, <2>1, <2>2, <2>4, <2>5, <2>6, <2>7, SaveStep DEF l
<1>7. CASE k <= Last /\ ~Differs(t)
  <2> DEFINE c == [call[t] EXCEPT !.k = k + 1]
  <2>1. Go(t, "save", c, l)
    <3>1. ~(call[t].k > Len(LogNames))
      BY <1>2, <1>3, <1>7
    <3> QED BY <1>7, <3>1 DEF Save
  <2>2. c \in Call /\ c.pc = "save" /\ c.k = k + 1
    BY <1>1, <1>2, <1>3, <1>7 DEF Call
  <2>3. PlacedCall(c) /\ BoundAt(c)
    BY <2>2 DEF PlacedCall, BoundAt
  <2>4. l.copy[n] = l.mem[n]
    BY <1>7 DEF Differs
  <2> HIDE DEF c, l
  <2>5. ASSUME apart PROVE Saving(c, l, ls, row)
    <3>1. Saving(call[t], l, ls, row)
      BY <1>2, <2>5
    <3> SUFFICES ASSUME NEW i \in 1..Last, LogNames[i] \notin ls
                 PROVE  LET m == LogNames[i] IN
                   /\ i < k + 1 => row[m] = l.mem[m] /\ l.copy[m] = l.mem[m]
                   /\ row[m] = l.copy[m]
      BY <2>2 DEF Saving
    <3>2. CASE i = k
      BY <1>1, <1>2, <2>4, <3>1, <3>2 DEF Saving
    <3>3. CASE i < k
      BY <1>1, <1>2, <3>1, <3>3 DEF Saving
    <3>4. CASE i > k
      BY <1>1, <1>2, <1>3, <3>1, <3>4 DEF Saving
    <3> QED BY <1>2, <1>3, <3>2, <3>3, <3>4
  <2> QED BY <1>1, <1>2, <2>1, <2>2, <2>3, <2>5, SaveStep DEF l
<1> QED
  BY <1>2, <1>3, <1>5, <1>6, <1>7

\* What is bound to the statement is the copy, which is the value in memory.
LEMMA BindKeeps ==
  ASSUME IInv, NEW t \in Thread, Bind(t)
  PROVE  IInv'
<1> DEFINE l == Logger(t)
           ls == lost[ProcessOf[t]]
           k == call[t].k
           n == LogNames[k]
           b == l.copy[n]
           c == [call[t] EXCEPT !.pc = "execute", !.bound = b]
<1>1. /\ call[t].pc = "bind" /\ l.pc = "run" /\ Go(t, "bind", c, l)
      /\ UNCHANGED <<database, history>>
  BY Unchanged DEF Bind, Go
<1>2. /\ l \in Proc /\ l.k = 1 /\ call[t] \in Call /\ k \in 1..Last + 1 /\ k <= Last
      /\ \A m \in LogName : l.copy[m] # NoRow
      /\ LoadedAt(l, row)
      /\ apart => Only(t) /\ Saving(call[t], l, ls, row)
  BY <1>1, CallKnown
<1>3. k \in 1..Last /\ n \in LogName
  BY <1>2, Shape
<1> HIDE DEF l, n
<1>4. b \in Value \cup {NoRow} /\ b # NoRow
  BY <1>2, <1>3 DEF Proc
<1> HIDE DEF b
<1>5. c \in Call /\ c.pc = "execute" /\ c.k = k /\ c.bound = b
  BY <1>2, <1>4 DEF Call
<1> HIDE DEF c
<1>6. PlacedCall(c) /\ BoundAt(c)
  BY <1>2, <1>4, <1>5 DEF PlacedCall, BoundAt
<1>7. ASSUME apart PROVE Saving(c, l, ls, row)
  <2>1. Saving(call[t], l, ls, row)
    BY <1>2, <1>7
  <2>2. l.copy[n] = l.mem[n]
    BY <1>1, <1>3, <2>1 DEF Saving, n
  <2> SUFFICES ASSUME NEW i \in 1..Last
               PROVE  LET m == LogNames[i] IN
                 /\ m \notin ls => /\ i < k => row[m] = l.mem[m] /\ l.copy[m] = l.mem[m]
                                   /\ i > k => row[m] = l.copy[m]
                 /\ i = k => l.copy[m] = l.mem[m] /\ b = l.mem[m]
    BY <1>5 DEF Saving
  <2>3. CASE i = k
    BY <1>3, <2>2, <2>3 DEF n, b
  <2>4. CASE i # k
    BY <1>1, <1>3, <2>1, <2>4 DEF Saving
  <2> QED BY <2>3, <2>4
<1> QED
  BY <1>1, <1>2, <1>5, <1>6, <1>7, SaveStep DEF l

\* The row gets what was bound.
LEMMA ExecuteKeeps ==
  ASSUME IInv, NEW t \in Thread, Execute(t)
  PROVE  IInv'
<1> DEFINE l == Logger(t)
           ls == lost[ProcessOf[t]]
           less == ls \ {LogNames[call[t].k]}
           k == call[t].k
           n == LogNames[k]
           b == call[t].bound
           j == k + 1
           c == [call[t] EXCEPT !.pc = "save", !.k = j, !.bound = NoRow]
<1>1. /\ call[t].pc = "execute" /\ l.pc = "run" /\ Go(t, "execute", c, l)
      /\ row' = [row EXCEPT ![n] = b]
      /\ lost' = [lost EXCEPT ![ProcessOf[t]] = less]
      /\ UNCHANGED <<tables, usable, spent, calm, apart>>
  BY Unchanged DEF Execute, Go
<1>2. /\ l \in Proc /\ l.k = 1 /\ call[t] \in Call /\ k \in 1..Last + 1 /\ k <= Last
      /\ \A m \in LogName : row[m] # NoRow
      /\ LoadedAt(l, row) /\ BoundAt(call[t]) /\ ls \in SUBSET LogName
      /\ apart => Only(t) /\ Saving(call[t], l, ls, row)
  BY <1>1, CallKnown
<1>3. k \in 1..Last /\ n \in LogName /\ LogName \subseteq Range(Names)
  BY <1>2, Shape
<1>4. b \in Value \cup {NoRow} /\ b # NoRow
  BY <1>1, <1>2 DEF Call, BoundAt
<1>5. j \in 1..Len(LogNames) + 1
  BY <1>3, Shape DEF Last
<1> HIDE DEF l, b, j
<1>6. c \in Call /\ c.pc = "save" /\ c.k = j
  BY <1>2, <1>5 DEF Call
<1>7. call' = [call EXCEPT ![t] = c] /\ proc' = [proc EXCEPT ![ProcessOf[t]] = l]
  BY <1>1 DEF Go
<1> HIDE DEF c, n
<1>8. /\ row' \in [Range(Names) -> Value \cup {NoRow}] /\ row'[n] = b
      /\ \A m \in Range(Names) \ {n} : row'[m] = row[m]
  BY <1>1, <1>3, <1>4, Unchanged
<1>9. \A m \in Range(Names) : row[m] # NoRow => row'[m] # NoRow
  BY <1>4, <1>8
<1>10. PlacedCall(c) /\ BoundAt(c)
  BY <1>6 DEF PlacedCall, BoundAt
<1>11. LoadedAt(l, row')
  BY <1>2, <1>3, <1>9, LoadedGrows
<1>12. ASSUME apart PROVE Saving(c, l, less, row')
  <2>1. Saving(call[t], l, ls, row)
    BY <1>2, <1>12
  <2>2. l.copy[n] = l.mem[n] /\ b = l.mem[n]
    BY <1>1, <1>3, <2>1 DEF Saving, n, b
  <2> SUFFICES ASSUME NEW i \in 1..Last, LogNames[i] \notin less
               PROVE  LET m == LogNames[i] IN
                 /\ i < k + 1 => row'[m] = l.mem[m] /\ l.copy[m] = l.mem[m]
                 /\ row'[m] = l.copy[m]
    BY <1>6 DEF Saving, j
  <2>3. CASE i = k
    BY <1>8, <2>2, <2>3 DEF n
  <2>4. CASE i # k
    <3>1. /\ LogNames[i] \in Range(Names) \ {n} /\ LogNames[i] \notin ls
      BY <1>3, <2>4, Shape DEF n
    <3>2. row'[LogNames[i]] = row[LogNames[i]]
      BY <1>8, <3>1
    <3>3. CASE i < k
      BY <1>1, <1>3, <2>1, <3>1, <3>2, <3>3 DEF Saving
    <3>4. CASE i > k
      <4>1. ~(i < k + 1)
        BY <1>3, <3>4, Shape
      <4> QED BY <1>1, <1>3, <2>1, <3>1, <3>2, <3>4, <4>1 DEF Saving
    <3>5. i < k \/ i > k
      BY <1>3, <2>4, Shape
    <3> QED BY <3>3, <3>4, <3>5
  <2> QED BY <2>3, <2>4
<1>13. Calls(t, c, l, less)
  BY <1>1, <1>2, <1>6, <1>7, <1>8, <1>9, <1>10 DEF Calls, l
<1> HIDE DEF less
<1> QED
  BY <1>1, <1>2, <1>6, <1>10, <1>11, <1>12, <1>13, Unchanged, CallKeeps

\* After an update that fails the setting is one of those whose change failed,
\* and so are those save_to_db has not got to.
LEMMA UpdateFailsKeeps ==
  ASSUME IInv, NEW t \in Thread, UpdateFails(t)
  PROVE  IInv'
<1> DEFINE l == Logger(t)
           ls == lost[ProcessOf[t]]
           more == ls \cup Unsaved(t)
           k == call[t].k
<1>1. /\ call[t].pc \in {"bind", "execute"} /\ l.pc = "run"
      /\ call' = [call EXCEPT ![t] = NoCall]
      /\ lost' = [lost EXCEPT ![ProcessOf[t]] = more]
      /\ Fault /\ calm' = FALSE /\ UNCHANGED <<tables, row, usable, proc, apart>>
  BY Unchanged DEF UpdateFails, Fault, database
<1>2. NoCall \in Call /\ NoCall.pc = "none" /\ PlacedCall(NoCall) /\ BoundAt(NoCall)
  BY Shape DEF NoCall, Call, Last, PlacedCall, BoundAt
<1>3. spent' \in [faults : 0..MaxFaults, stops : 0..MaxStops, calls : 0..MaxCalls]
  BY <1>1, FaultTyped
<1>4. /\ ProcessOf[t] \in Process /\ l \in Proc /\ l.k = 1 /\ k \in 1..Last + 1 /\ k <= Last
      /\ LoadedAt(l, row) /\ ls \in SUBSET LogName
      /\ apart => Only(t) /\ Saving(call[t], l, ls, row)
  BY <1>1, CallKnown
<1>5. more \in SUBSET LogName
  BY <1>4 DEF Unsaved
<1>6. proc' = [proc EXCEPT ![ProcessOf[t]] = l]
  BY <1>1, Unchanged DEF Logger
<1>7. ASSUME apart PROVE RestAt(l, more, row)
  <2> SUFFICES ASSUME NEW i \in 1..Last, LogNames[i] \notin more
               PROVE  Saved(l, i, row) /\ l.mem[LogNames[i]] = row[LogNames[i]]
    BY <1>1 DEF RestAt
  <2>1. /\ LogNames[i] \notin ls /\ i # k
        /\ l.copy[LogNames[i]] = l.mem[LogNames[i]]
    BY Shape DEF Unsaved
  <2>2. Saving(call[t], l, ls, row)
    BY <1>4, <1>7
  <2>3. i < k \/ i > k
    BY <1>4, <2>1, Shape
  <2> QED BY <1>1, <2>1, <2>2, <2>3 DEF Saving, Saved
<1> HIDE DEF more, l
<1>8. Calls(t, NoCall, l, more)
  BY <1>1, <1>2, <1>4, <1>5, <1>6, Unchanged DEF Calls, l
<1> QED
  BY <1>1, <1>2, <1>3, <1>4, <1>7, <1>8, Unchanged, CallKeeps

(***************************************************************************)
(* The specification.                                                      *)
(***************************************************************************)
LEMMA InitIInv == Init => IInv
<1> SUFFICES ASSUME Init PROVE IInv
  OBVIOUS
<1>1. PlaceInv
  <2>1. \A n \in Range(Names) : row[n] = NoRow
    BY DEF Init
  <2>2. NoCall \in Call /\ NoCall.pc = "none" /\ PlacedCall(NoCall)
    BY Shape DEF NoCall, Call, Last, PlacedCall
  <2>3. spent \in [faults : 0..MaxFaults, stops : 0..MaxStops, calls : 0..MaxCalls]
    BY StartupAssumption DEF Init
  <2>4. /\ tables \in 0..Tables /\ usable \subseteq Value
        /\ row \in [Range(Names) -> Value \cup {NoRow}]
    BY Shape DEF Init
  <2>5. proc \in [Process -> Proc] /\ call \in [Thread -> Call]
    BY <2>2, DownTyped DEF Init
  <2>6. \A t \in Thread : call[t].pc = "none"
    BY <2>2 DEF Init
  <2>7. calm \in BOOLEAN /\ lost \in [Process -> SUBSET LogName] /\ apart \in BOOLEAN
    BY DEF Init
  <2>8. TypeOK
    BY <2>3, <2>4, <2>5, <2>6, <2>7 DEF TypeOK
  <2> QED BY <2>2, <2>8, DownTyped DEF PlaceInv, Init
<1>2. CalmInv
  <2>1. HalfMade
    BY DEF Init, HalfMade
  <2>2. CalmAt(Down, tables, row)
    BY DownTyped DEF CalmAt
  <2> QED BY <2>1, <2>2 DEF CalmInv, Init
<1>3. LoadedInv
  <2>1. LoadedAt(Down, row) /\ BoundAt(NoCall)
    BY DownTyped DEF LoadedAt, BoundAt, NoCall
  <2> QED BY <2>1 DEF LoadedInv, Init
<1>4. RestInv
  <2>1. \A ls : RestAt(Down, ls, row)
    BY DownTyped DEF RestAt
  <2>2. NoCall.pc = "none"
    BY DEF NoCall
  <2> QED BY <2>1, <2>2 DEF RestInv, Init
<1> QED
  BY <1>1, <1>2, <1>3, <1>4 DEF IInv

LEMMA NextKeeps == IInv /\ [Next]_vars => IInv'
<1> SUFFICES ASSUME IInv, [Next]_vars PROVE IInv'
  OBVIOUS
<1>1. ASSUME NEW p \in Process, Start(p) \/ Booting(p) \/ SqlFails(p) \/ Stop(p)
      PROVE  IInv'
  BY <1>1, StartKeeps, OpenKeeps, EmptyKeeps, CreateKeeps, CheckKeeps, InsertKeeps,
     StartLoggerKeeps, LoadKeeps, ApplyKeeps, ReplayKeeps, SqlFailsKeeps, StopKeeps DEF Booting
<1>2. ASSUME NEW v \in Value, FolderGone(v)
      PROVE  IInv'
  BY <1>2, FolderGoneKeeps
<1>3. ASSUME NEW t \in Thread, NEW n \in LogName, NEW v \in Value, Set(t, n, v)
      PROVE  IInv'
  BY <1>3, SetKeeps
<1>4. ASSUME NEW t \in Thread, Calling(t) \/ UpdateFails(t)
      PROVE  IInv'
  BY <1>4, SaveKeeps, BindKeeps, ExecuteKeeps, UpdateFailsKeeps DEF Calling
<1>5. CASE UNCHANGED vars
  <2>1. UNCHANGED <<tables, row, usable, proc, call, spent, calm, lost, apart>>
    BY <1>5 DEF vars, database, history
  <2>2. PlaceInv'
    BY <2>1 DEF IInv, PlaceInv, TypeOK
  <2>3. CalmInv'
    BY <2>1 DEF IInv, CalmInv, HalfMade, Logger
  <2>4. LoadedInv'
    BY <2>1 DEF IInv, LoadedInv
  <2>5. RestInv'
    BY <2>1 DEF IInv, RestInv, Quiet, Only, Logger
  <2> QED BY <2>2, <2>3, <2>4, <2>5 DEF IInv
<1> QED
  BY <1>1, <1>2, <1>3, <1>4, <1>5 DEF Next

LEMMA Inductive == Spec => []IInv
<1> QED
  BY InitIInv, NextKeeps, PTL DEF Spec

\* The types, for any processes, settings, values and bounds.
THEOREM StartupTypes == Spec => []TypeOK
<1>1. IInv => TypeOK
  BY DEF IInv, PlaceInv
<1> QED
  BY <1>1, Inductive, PTL

\* PoolDB::init: without faults a database that has some of its tables and
\* settings has a process at work on the rest, however many start at once.
THEOREM NobodyLeavesHalf == Spec => []NeverHalfMade
<1>1. IInv => NeverHalfMade
  BY DEF IInv, CalmInv, HalfMade, NeverHalfMade
<1> QED
  BY <1>1, Inductive, PTL

\* save_to_db: when no changes met, rows and memory are the same, but for the
\* settings whose own change failed and has not been repeated; a failure leaves
\* no other setting behind.
THEOREM SavedAsSet == Spec => []SavedAtRest
<1>1. IInv => SavedAtRest
  <2> SUFFICES ASSUME IInv, apart, NEW p \in Process, Running(p),
                      \A t \in Thread : call[t].pc = "none", NEW n \in LogName \ lost[p]
               PROVE  row[n] = proc[p].mem[n]
    BY DEF SavedAtRest
  <2>1. RestAt(proc[p], lost[p], row)
    BY DEF IInv, RestInv, Quiet
  <2>2. PICK i \in 1..Last : n = LogNames[i]
    BY Shape
  <2> QED
    BY <2>1, <2>2 DEF RestAt, Running
<1> QED
  BY <1>1, Inductive, PTL

================================================================================
