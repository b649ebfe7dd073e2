--------------------------- MODULE StorageRootProofs ---------------------------
(***************************************************************************)
(* Proofs about the root of the storage, for any handlers, paths and       *)
(* files.  The inductive invariant says, as long as the behaviour is calm, *)
(* that at most one migration is between its renaming and its update, and  *)
(* that everything on the disk is below Root; and calm or not, that before *)
(* the first folder is made everybody has the default root.  The file      *)
(* server has an invariant of its own, in the last section.                *)
(***************************************************************************)
EXTENDS StorageRoot, TLAPS

Request == [pc : Pc, kind : Kind, root : Path, to : Path, file : File]
WorkerState == [pc : WorkerPc, root : Path]

OneMoves == \A h, k \in Moving : h = k
BelowRoot == \A x \in disk : x[1] = Root
StoredThere == \A f \in stored : <<Root, f>> \in disk
Unmade ==
  /\ setting = Default /\ Moving = {}
  /\ \A h \in Handler : req[h].root = Default
  /\ \A g \in Worker : worker[g].root = Default

IInv ==
  /\ TypeOK
  /\ calm => OneMoves /\ BelowRoot /\ StoredThere
  /\ disk = {} => Unmade

LEMMA ConstantTypes == /\ Default \in Path /\ AnyFile \in File /\ NoRequest \in Request
                       /\ Nobody \in WorkerState
                       /\ 1 \in Worker /\ 0 \notin Worker /\ Worker \subseteq Nat
                       /\ \A f \in File : DirOf[f] \in Dir
<1>1. AnyFile \in File
  BY RootAssumption DEF AnyFile
<1>2. "idle" \in Pc /\ "infos" \in Kind /\ "none" \in WorkerPc
  BY DEF Pc, Kind, WorkerPc
<1>3. Default \in Path /\ MaxRequests \in Nat /\ DirOf \in [File -> Dir]
  BY RootAssumption
<1>4. NoRequest \in Request
  BY <1>1, <1>2, <1>3 DEF NoRequest, Request
<1>5. Nobody \in WorkerState
  BY <1>2, <1>3 DEF Nobody, WorkerState
<1>6. 1 \in Worker /\ 0 \notin Worker /\ Worker \subseteq Nat
  BY <1>3 DEF Worker
<1> QED BY <1>1, <1>3, <1>4, <1>5, <1>6

--------------------------------------------------------------------------------
(* How the requests change. *)

LEMMA TypeParts ==
  ASSUME TypeOK
  PROVE  /\ req \in [Handler -> Request] /\ worker \in [Worker -> WorkerState]
         /\ \A h \in Handler : req[h].root \in Path /\ req[h].to \in Path /\ req[h].file \in File
         /\ \A g \in Worker : worker[g].root \in Path
<1>1. req \in [Handler -> Request] /\ worker \in [Worker -> WorkerState]
  BY DEF TypeOK, Request, WorkerState
<1>2. \A r \in Request : r.root \in Path /\ r.to \in Path /\ r.file \in File
  BY DEF Request
<1>3. \A w \in WorkerState : w.root \in Path
  BY DEF WorkerState
<1> QED BY <1>1, <1>2, <1>3

\* Only the request of h changes.
Others(h) == \A k \in Handler : k # h => req'[k] = req[k]

LEMMA GoFacts ==
  ASSUME TypeOK, NEW h \in Handler, NEW pc \in Pc, Go(h, pc)
  PROVE  /\ req' \in [Handler -> Request] /\ Others(h)
         /\ req'[h].pc = pc
         /\ pc # "idle" => req'[h].to = req[h].to
         /\ req'[h].root = req[h].root \/ req'[h].root = Default
<1> DEFINE next == IF pc = "idle" THEN NoRequest ELSE [req[h] EXCEPT !.pc = pc]
<1>1. req \in [Handler -> Request]
  BY TypeParts
<1>2. CASE pc = "idle"
  <2>1. next = NoRequest
    BY <1>2
  <2>2. next \in Request /\ next.pc = "idle" /\ next.root = Default
    BY <2>1, ConstantTypes DEF NoRequest
  <2>3. req' = [req EXCEPT ![h] = next]
    BY DEF Go
  <2> HIDE DEF next
  <2> QED BY <1>1, <1>2, <2>2, <2>3 DEF Others
<1>3. CASE pc # "idle"
  <2>1. next = [req[h] EXCEPT !.pc = pc]
    BY <1>3
  <2>2. next \in Request /\ next.pc = pc /\ next.to = req[h].to /\ next.root = req[h].root
    <3>1. req[h] \in Request
      BY <1>1
    <3> HIDE DEF next
    <3> QED BY <2>1, <3>1 DEF Request
  <2>3. req' = [req EXCEPT ![h] = next]
    BY DEF Go
  <2> HIDE DEF next
  <2> QED BY <1>1, <2>2, <2>3 DEF Others
<1> QED BY <1>2, <1>3

LEMMA MovingKept ==
  ASSUME NEW h \in Handler, Others(h), ~At(h, "update"), req'[h].pc # "update"
  PROVE  Moving' = Moving /\ \A k \in Moving : req'[k].to = req[k].to
BY DEF Moving, At, Others

LEMMA RootKept ==
  ASSUME setting' = setting, Moving' = Moving, \A k \in Moving : req'[k].to = req[k].to
  PROVE  Root' = Root
<1>1. Moving # {} => (CHOOSE h \in Moving : TRUE) \in Moving
  OBVIOUS
<1> QED BY <1>1 DEF Root

LEMMA RootType == ASSUME TypeOK PROVE Root \in Path
<1>1. Moving # {} => (CHOOSE h \in Moving : TRUE) \in Moving
  OBVIOUS
<1>2. Moving \subseteq Handler
  BY DEF Moving
<1>3. setting \in Path
  BY DEF TypeOK
<1> QED BY <1>1, <1>2, <1>3, TypeParts DEF Root

\* A step that leaves the disk and the root alone.
LEMMA Frame ==
  ASSUME IInv, TypeOK', UNCHANGED <<setting, disk, stored>>, calm' => calm,
         Moving' = Moving, \A k \in Moving : req'[k].to = req[k].to,
         Unmade => (\A h \in Handler : req'[h].root = Default)
                   /\ (\A g \in Worker : worker'[g].root = Default)
  PROVE  IInv'
<1>1. Root' = Root
  BY RootKept
<1>2. calm' => OneMoves' /\ BelowRoot' /\ StoredThere'
  BY <1>1 DEF IInv, OneMoves, BelowRoot, StoredThere
<1>3. disk' = {} => Unmade'
  BY DEF IInv, Unmade
<1> QED BY <1>2, <1>3 DEF IInv

--------------------------------------------------------------------------------
(* Type correctness, action by action. *)

Things == Path \X ({Corpus} \cup Dir \cup File)

LEMMA FaultyType ==
  ASSUME TypeOK, Faulty
  PROVE  spent' \in [requests : 0..MaxRequests, faults : 0..MaxFaults]
BY RootAssumption DEF TypeOK, Faulty

LEMMA DeadType == ASSUME Dead PROVE req' \in [Handler -> Request]
                                    /\ worker' \in [Worker -> WorkerState]
                                    /\ thread' = 0 /\ fileServer' = 0 /\ ended' = {} /\ up' = FALSE
<1>1. NoRequest \in Request /\ Nobody \in WorkerState
  BY ConstantTypes
<1> QED BY <1>1 DEF Dead, Idle

LEMMA DieType == ASSUME TypeOK, Die, spent' \in [requests : 0..MaxRequests, faults : 0..MaxFaults]
                 PROVE TypeOK'
<1>1. /\ req' \in [Handler -> Request] /\ worker' \in [Worker -> WorkerState]
      /\ thread' = 0 /\ fileServer' = 0 /\ ended' = {} /\ up' = FALSE
  BY DeadType DEF Die
<1>2. calm' \in BOOLEAN
  BY DEF Die, TypeOK
<1>3. UNCHANGED <<setting, disk, stored>>
  BY DEF Die
<1> QED BY <1>1, <1>2, <1>3 DEF TypeOK, Request, WorkerState

LEMMA SpawnedType ==
  ASSUME TypeOK, NEW g \in Worker, Spawned(g)
  PROVE  /\ worker' \in [Worker -> WorkerState] /\ thread' \in Worker \cup {0}
         /\ \A k \in Worker : worker'[k].root = worker[k].root
<1>1. worker \in [Worker -> WorkerState] /\ "new" \in WorkerPc
  BY TypeParts DEF WorkerPc
<1>2. worker' = [worker EXCEPT ![g].pc = "new"] /\ thread' = g
  BY DEF Spawned
<1>3. ASSUME NEW r \in WorkerState
      PROVE [r EXCEPT !.pc = "new"] \in WorkerState /\ [r EXCEPT !.pc = "new"].root = r.root
  BY <1>1 DEF WorkerState
<1> QED BY <1>1, <1>2, <1>3

LEMMA BootType == ASSUME TypeOK, Boot PROVE TypeOK'
<1>1. /\ worker' \in [Worker -> WorkerState] /\ thread' \in Worker \cup {0}
  BY SpawnedType, ConstantTypes DEF Boot
<1> QED BY <1>1 DEF TypeOK, Boot, WorkerState

LEMMA BeginFacts ==
  ASSUME TypeOK, NEW h \in Handler, NEW kind \in Kind, NEW p \in Path, NEW f \in File,
         Begin(h, kind, p, f)
  PROVE  /\ req' \in [Handler -> Request] /\ Others(h)
         /\ req'[h].pc = "open" /\ req'[h].root = req[h].root
<1> DEFINE next == [req[h] EXCEPT !.pc = "open", !.kind = kind, !.to = p, !.file = f]
<1>1. req \in [Handler -> Request]
  BY TypeParts
<1>2. next \in Request /\ next.pc = "open" /\ next.root = req[h].root
  <2>1. req[h] \in Request /\ "open" \in Pc
    BY <1>1 DEF Pc
  <2> QED BY <2>1 DEF Request
<1>3. req' = [req EXCEPT ![h] = next]
  BY DEF Begin
<1> HIDE DEF next
<1> QED BY <1>1, <1>2, <1>3 DEF Others

LEMMA BeginType ==
  ASSUME TypeOK, NEW h \in Handler, NEW kind \in Kind, NEW p \in Path, NEW f \in File,
         Begin(h, kind, p, f)
  PROVE  TypeOK'
<1>1. req' \in [Handler -> Request]
  BY BeginFacts
<1>2. spent' \in [requests : 0..MaxRequests, faults : 0..MaxFaults]
  BY RootAssumption DEF TypeOK, Begin
<1> QED BY <1>1, <1>2 DEF TypeOK, Begin, Request

LEMMA OpenFacts ==
  ASSUME TypeOK, NEW h \in Handler, Open(h)
  PROVE  /\ req' \in [Handler -> Request] /\ Others(h)
         /\ req'[h].pc = "init" /\ req'[h].root = setting
<1> DEFINE next == [req[h] EXCEPT !.pc = "init", !.root = setting]
<1>1. req \in [Handler -> Request] /\ setting \in Path
  BY TypeParts DEF TypeOK
<1>2. next \in Request /\ next.pc = "init" /\ next.root = setting
  <2>1. req[h] \in Request /\ "init" \in Pc
    BY <1>1 DEF Pc
  <2> QED BY <1>1, <2>1 DEF Request
<1>3. req' = [req EXCEPT ![h] = next]
  BY DEF Open
<1> HIDE DEF next
<1> QED BY <1>1, <1>2, <1>3 DEF Others

LEMMA OpenType == ASSUME TypeOK, NEW h \in Handler, Open(h) PROVE TypeOK'
<1>1. req' \in [Handler -> Request]
  BY OpenFacts
<1> QED BY <1>1 DEF TypeOK, Open, Request

LEMMA GoType ==
  ASSUME TypeOK, NEW h \in Handler, NEW pc \in Pc, Go(h, pc),
         UNCHANGED <<worker, fileServer, up>>, ended' \subseteq Worker,
         thread' \in Worker \cup {0}, setting' \in Path, disk' \subseteq Things,
         stored' \subseteq File, calm' \in BOOLEAN,
         spent' \in [requests : 0..MaxRequests, faults : 0..MaxFaults]
  PROVE  TypeOK'
<1>1. req' \in [Handler -> Request]
  BY GoFacts
<1> QED BY <1>1 DEF TypeOK, Request, Things

LEMMA RenamedType ==
  ASSUME disk \subseteq Things, NEW from, NEW to \in Path
  PROVE  Renamed(from, to) \subseteq Things
<1> SUFFICES ASSUME NEW x \in disk
             PROVE  (IF x[1] = from THEN <<to, x[2]>> ELSE x) \in Things
  BY DEF Renamed
<1>1. x \in Things
  OBVIOUS
<1> QED BY <1>1 DEF Things

LEMMA DestType ==
  ASSUME TypeOK, NEW h \in Handler
  PROVE  Dest(h) \in Things /\ <<req[h].root, req[h].file>> \in Things
         /\ Dest(h)[1] = req[h].root
BY TypeParts, ConstantTypes DEF Dest, Things

--------------------------------------------------------------------------------
(* The invariant: steps that change neither the setting nor the disk. *)

Typed ==
  /\ thread' \in Worker \cup {0} /\ ended' \subseteq Worker
  /\ spent' \in [requests : 0..MaxRequests, faults : 0..MaxFaults]

LEMMA QuietGo ==
  ASSUME IInv, NEW h \in Handler, NEW pc \in Pc, Go(h, pc), Typed,
         ~At(h, "update"), pc # "update",
         UNCHANGED <<setting, disk, stored, calm, worker, fileServer, up>>
  PROVE  IInv'
<1>1. TypeOK'
  <2>1. /\ setting' \in Path /\ disk' \subseteq Things /\ stored' \subseteq File /\ calm' \in BOOLEAN
    BY DEF IInv, TypeOK, Things
  <2> QED BY <2>1, GoType DEF IInv, Typed
<1>2. Others(h) /\ req'[h].pc # "update"
  BY GoFacts DEF IInv
<1>3. Moving' = Moving /\ \A k \in Moving : req'[k].to = req[k].to
  BY <1>2, MovingKept
<1>4. Unmade => (\A k \in Handler : req'[k].root = Default) /\ (\A g \in Worker : worker'[g].root = Default)
  <2>1. req'[h].root = req[h].root \/ req'[h].root = Default
    BY GoFacts DEF IInv
  <2> QED BY <1>2, <2>1 DEF Unmade, Others
<1> QED BY <1>1, <1>3, <1>4, Frame

LEMMA Same == ASSUME IInv
              PROVE  /\ thread \in Worker \cup {0} /\ ended \subseteq Worker
                     /\ spent \in [requests : 0..MaxRequests, faults : 0..MaxFaults]
BY DEF IInv, TypeOK

LEMMA Uncalm == ASSUME TypeOK', ~calm', disk' # {} PROVE IInv'
BY DEF IInv

LEMMA DiePreserves ==
  ASSUME IInv, Die, spent' \in [requests : 0..MaxRequests, faults : 0..MaxFaults]
  PROVE  IInv'
<1>1. TypeOK'
  BY DieType DEF IInv
<1>2. UNCHANGED <<setting, disk, stored>> /\ calm' = (calm /\ Moving = {})
  BY DEF Die
<1>3. \A h \in Handler : req'[h] = NoRequest
  BY DEF Die, Dead, Idle
<1>4. Moving' = {}
  BY <1>3 DEF Moving, At, NoRequest
<1>5. CASE Moving = {}
  <2>1. \A h \in Handler : req'[h].root = Default
    BY <1>3 DEF NoRequest
  <2>2. \A g \in Worker : worker'[g].root = Default
    BY DEF Die, Dead, Nobody
  <2> QED BY <1>1, <1>2, <1>4, <1>5, <2>1, <2>2, Frame
<1>6. CASE Moving # {}
  <2>1. disk # {}
    BY <1>6 DEF IInv, Unmade
  <2> QED BY <1>1, <1>2, <1>6, <2>1, Uncalm
<1> QED BY <1>5, <1>6

LEMMA BootPreserves == ASSUME IInv, Boot PROVE IInv'
<1>1. TypeOK'
  BY BootType DEF IInv
<1>2. \A g \in Worker : worker'[g].root = worker[g].root
  BY SpawnedType, ConstantTypes DEF Boot, IInv
<1>3. Moving' = Moving /\ req' = req
  BY DEF Boot, Moving, At
<1>4. UNCHANGED <<setting, disk, stored, calm>>
  BY DEF Boot
<1>5. Unmade => (\A k \in Handler : req'[k].root = Default) /\ (\A g \in Worker : worker'[g].root = Default)
  BY <1>2, <1>3 DEF Unmade
<1> QED BY <1>1, <1>3, <1>4, <1>5, Frame

LEMMA BeginPreserves ==
  ASSUME IInv, NEW h \in Handler, NEW kind \in Kind, NEW p \in Path, NEW f \in File,
         Begin(h, kind, p, f)
  PROVE  IInv'
<1>1. TypeOK'
  BY BeginType DEF IInv
<1>2. Others(h) /\ req'[h].pc = "open" /\ req'[h].root = req[h].root
  BY BeginFacts DEF IInv
<1>3. Moving' = Moving /\ \A k \in Moving : req'[k].to = req[k].to
  BY <1>2, MovingKept DEF Begin, At
<1>4. Unmade => (\A k \in Handler : req'[k].root = Default) /\ (\A g \in Worker : worker'[g].root = Default)
  BY <1>2 DEF Unmade, Others, Begin
<1>5. UNCHANGED <<setting, disk, stored, calm>>
  BY DEF Begin
<1> QED BY <1>1, <1>3, <1>4, <1>5, Frame

LEMMA OpenPreserves == ASSUME IInv, NEW h \in Handler, Open(h) PROVE IInv'
<1>1. TypeOK'
  BY OpenType DEF IInv
<1>2. Others(h) /\ req'[h].pc = "init" /\ req'[h].root = setting
  BY OpenFacts DEF IInv
<1>3. Moving' = Moving /\ \A k \in Moving : req'[k].to = req[k].to
  BY <1>2, MovingKept DEF Open, At
<1>4. Unmade => (\A k \in Handler : req'[k].root = Default) /\ (\A g \in Worker : worker'[g].root = Default)
  BY <1>2 DEF Unmade, Others, Open
<1>5. UNCHANGED <<setting, disk, stored, calm>>
  BY DEF Open
<1> QED BY <1>1, <1>3, <1>4, <1>5, Frame

LEMMA FailPreserves == ASSUME IInv, NEW h \in Handler, Fail(h) PROVE IInv'
<1>1. Go(h, "idle") /\ "idle" \in Pc /\ UNCHANGED <<setting, disk, stored, worker, thread, ended, fileServer, up>>
  BY DEF Fail, Pc
<1>2. Typed
  BY <1>1, Same, FaultyType DEF Fail, Typed, IInv
<1>3. CASE At(h, "update")
  <2>1. calm' = FALSE /\ disk' # {}
    <3>1. h \in Moving
      BY <1>3 DEF Moving
    <3>2. disk # {}
      BY <3>1 DEF IInv, Unmade
    <3> QED BY <1>1, <1>3, <3>2 DEF Fail
  <2>2. setting' \in Path /\ disk' \subseteq Things /\ stored' \subseteq File /\ calm' \in BOOLEAN
    BY <1>1, <2>1 DEF IInv, TypeOK, Things
  <2>3. TypeOK'
    BY <1>1, <1>2, <2>2, GoType DEF IInv, Typed
  <2> QED BY <2>1, <2>3, Uncalm
<1>4. CASE ~At(h, "update")
  <2>1. calm' = calm
    BY <1>4 DEF Fail, IInv, TypeOK
  <2> QED BY <1>1, <1>2, <1>4, <2>1, QuietGo
<1> QED BY <1>3, <1>4

LEMMA WorkerPreserves ==
  ASSUME IInv, NEW g \in Worker, MakeServer(g) \/ WorkerOpen(g) \/ ServeEnds(g)
  PROVE  IInv'
<1>1. worker \in [Worker -> WorkerState] /\ {"open", "init", "done"} \subseteq WorkerPc
      /\ setting \in Path /\ Default \in Path
  BY TypeParts, ConstantTypes DEF WorkerPc, IInv, TypeOK
<1>2. /\ worker' \in [Worker -> WorkerState]
      /\ \A k \in Worker : worker'[k].root \in {worker[k].root, setting, Default}
  <2>1. ASSUME NEW r \in WorkerState
        PROVE [r EXCEPT !.pc = "open"] \in WorkerState /\ [r EXCEPT !.pc = "open"].root = r.root
    BY <1>1 DEF WorkerState
  <2>2. [pc |-> "init", root |-> setting] \in WorkerState /\ [pc |-> "done", root |-> Default] \in WorkerState
    BY <1>1 DEF WorkerState
  <2>3. CASE MakeServer(g)
    <3>1. worker' = [worker EXCEPT ![g] = [worker[g] EXCEPT !.pc = "open"]]
      BY <2>3 DEF MakeServer
    <3> QED BY <1>1, <2>1, <3>1
  <2>4. CASE WorkerOpen(g)
    <3>1. worker' = [worker EXCEPT ![g] = [pc |-> "init", root |-> setting]]
      BY <2>4 DEF WorkerOpen
    <3> QED BY <1>1, <2>2, <3>1
  <2>5. CASE ServeEnds(g)
    <3>1. worker' = [worker EXCEPT ![g] = [pc |-> "done", root |-> Default]]
      BY <2>5 DEF ServeEnds
    <3> QED BY <1>1, <2>2, <3>1
  <2> QED BY <2>3, <2>4, <2>5
<1>3. UNCHANGED <<setting, disk, stored, calm, req>> /\ Moving' = Moving
  BY DEF MakeServer, WorkerOpen, ServeEnds, Moving, At
<1>4. TypeOK'
  BY <1>2, <1>3 DEF IInv, TypeOK, MakeServer, WorkerOpen, ServeEnds, WorkerState
<1>5. Unmade => (\A k \in Handler : req'[k].root = Default) /\ (\A k \in Worker : worker'[k].root = Default)
  BY <1>2, <1>3 DEF Unmade
<1> QED BY <1>3, <1>4, <1>5, Frame

LEMMA LookPreserves == ASSUME IInv, NEW h \in Handler, LookFolder(h) \/ CheckFree(h) PROVE IInv'
<1>1. PICK pc \in {"write", "mkdir", "idle", "rename"} : Go(h, pc)
  BY DEF LookFolder, CheckFree
<1>2. /\ pc \in Pc /\ pc # "update" /\ ~At(h, "update")
  BY DEF Pc, LookFolder, CheckFree, At
<1>3. UNCHANGED <<setting, disk, stored, calm, worker, fileServer, up, thread, ended, spent>>
  BY DEF LookFolder, CheckFree
<1> QED BY <1>1, <1>2, <1>3, Same, QuietGo DEF Typed

LEMMA TerminatePreserves == ASSUME IInv, NEW h \in Handler, Terminate(h) PROVE IInv'
<1>1. CASE Die
  BY <1>1, Same, DiePreserves DEF Terminate
<1>2. CASE ~Die
  <2>1. /\ fileServer # 0 /\ ended' = ended \cup {fileServer} /\ Go(h, "join") /\ ~At(h, "update")
        /\ UNCHANGED <<setting, disk, stored, calm, worker, fileServer, up, thread, spent>>
    BY <1>2 DEF Terminate, At
  <2>2. Typed
    BY <2>1, Same DEF Typed, IInv, TypeOK
  <2>3. "join" \in Pc /\ "join" # "update"
    BY DEF Pc
  <2> QED BY <2>1, <2>2, <2>3, QuietGo
<1> QED BY <1>1, <1>2

LEMMA JoinPreserves == ASSUME IInv, NEW h \in Handler, Join(h) PROVE IInv'
<1>1. PICK pc \in {"idle", "spawn"} : Go(h, pc)
  BY DEF Join
<1>2. pc \in Pc /\ pc # "update" /\ ~At(h, "update")
  BY DEF Pc, Join, At
<1>3. UNCHANGED <<setting, disk, stored, calm, worker, fileServer, up>>
  BY DEF Join
<1>4. Typed
  BY Same DEF Join, Typed
<1> QED BY <1>1, <1>2, <1>3, <1>4, QuietGo

LEMMA SpawnPreserves == ASSUME IInv, NEW h \in Handler, Spawn(h) PROVE IInv'
<1>1. CASE Die
  BY <1>1, Same, DiePreserves DEF Spawn
<1>2. CASE ~Die
  <2> DEFINE next == [NoRequest EXCEPT !.pc = "open"]
  <2>1. PICK g \in Worker : Spawned(g)
    BY <1>2 DEF Spawn
  <2>2. /\ req' = [req EXCEPT ![h] = next]
        /\ UNCHANGED <<setting, disk, fileServer, ended, up, stored, calm, spent>>
    BY <1>2 DEF Spawn
  <2>3. next \in Request /\ next.pc = "open" /\ next.root = Default
    <3>1. NoRequest \in Request /\ NoRequest.root = Default /\ "open" \in Pc
      BY ConstantTypes DEF Pc, NoRequest
    <3> QED BY <3>1 DEF Request
  <2> HIDE DEF next
  <2>4. req \in [Handler -> Request]
    BY TypeParts DEF IInv
  <2>5. /\ req' \in [Handler -> Request] /\ Others(h)
        /\ req'[h].pc = "open" /\ req'[h].root = Default
    BY <2>2, <2>3, <2>4 DEF Others
  <2>6. /\ worker' \in [Worker -> WorkerState] /\ thread' \in Worker \cup {0}
        /\ \A k \in Worker : worker'[k].root = worker[k].root
    BY <2>1, SpawnedType DEF IInv
  <2>7. TypeOK'
    BY <2>2, <2>5, <2>6 DEF IInv, TypeOK, Request, WorkerState
  <2>8. Moving' = Moving /\ \A k \in Moving : req'[k].to = req[k].to
    BY <2>5, MovingKept DEF Spawn, At
  <2>9. Unmade => (\A k \in Handler : req'[k].root = Default) /\ (\A k \in Worker : worker'[k].root = Default)
    BY <2>5, <2>6 DEF Unmade, Others
  <2> QED BY <2>2, <2>7, <2>8, <2>9, Frame
<1> QED BY <1>1, <1>2

--------------------------------------------------------------------------------
(* The invariant: steps that write to the disk or change the setting. *)

\* A folder or file is put below p.
LEMMA Grown ==
  ASSUME IInv, TypeOK', NEW p, NEW what, disk' = disk \cup {<<p, what>>},
         calm' => calm /\ p = Root, setting' = setting, Moving' = Moving,
         \A k \in Moving : req'[k].to = req[k].to,
         stored' = stored \/ stored' = stored \cup {what}
  PROVE  IInv'
<1>1. Root' = Root
  BY RootKept
<1>2. calm' => OneMoves'
  BY DEF IInv, OneMoves
<1>3. calm' => BelowRoot'
  <2> SUFFICES ASSUME calm', NEW x \in disk' PROVE x[1] = Root
    BY <1>1 DEF BelowRoot
  <2> QED BY DEF IInv, BelowRoot
<1>4. calm' => StoredThere'
  BY <1>1 DEF IInv, StoredThere
<1> QED BY <1>2, <1>3, <1>4 DEF IInv

\* A thread that has the root of an existing folder, or of none yet, has Root.
LEMMA NoStray ==
  ASSUME IInv, calm, NEW p, ~Strays(p), disk = {} => p = Default
  PROVE  p = Root
<1>1. CASE Exists(p)
  BY <1>1 DEF IInv, BelowRoot, Exists
<1>2. CASE disk = {}
  BY <1>2 DEF IInv, Unmade, Root
<1> QED BY <1>1, <1>2 DEF Strays

LEMMA InitCorpusPreserves == ASSUME IInv, NEW h \in Handler, InitCorpus(h) PROVE IInv'
<1> DEFINE p == req[h].root
<1>1. PICK pc \in {"folder", "check", "idle"} : Go(h, pc)
  <2>1. req[h].kind \in Kind
    BY TypeParts DEF IInv, Request
  <2> QED BY <2>1 DEF InitCorpus, AfterInit, Kind
<1>2. pc \in Pc /\ pc # "update" /\ ~At(h, "update")
  BY DEF Pc, InitCorpus, At
<1>3. /\ disk' = disk \cup {<<p, Corpus>>} /\ calm' = (calm /\ ~Strays(p))
      /\ UNCHANGED <<setting, worker, thread, fileServer, ended, up, spent, stored>>
  BY DEF InitCorpus, InitRoot
<1>4. TypeOK'
  <2>1. p \in Path
    BY TypeParts DEF IInv
  <2>2. disk' \subseteq Things
    BY <1>3, <2>1 DEF IInv, TypeOK, Things
  <2>3. calm' \in BOOLEAN
    BY <1>3 DEF IInv, TypeOK
  <2>4. ended' \subseteq Worker /\ thread' \in Worker \cup {0} /\ setting' \in Path /\ stored' \subseteq File
        /\ spent' \in [requests : 0..MaxRequests, faults : 0..MaxFaults]
    BY <1>3 DEF IInv, TypeOK
  <2> QED BY <1>1, <1>2, <1>3, <2>2, <2>3, <2>4, GoType DEF IInv
<1>5. Others(h) /\ req'[h].pc # "update"
  BY <1>1, <1>2, GoFacts DEF IInv
<1>6. Moving' = Moving /\ \A k \in Moving : req'[k].to = req[k].to
  BY <1>2, <1>5, MovingKept
<1>7. calm' => calm /\ p = Root
  <2>1. disk = {} => p = Default
    BY DEF IInv, Unmade
  <2> QED BY <1>3, <2>1, NoStray
<1> HIDE DEF p
<1> QED BY <1>3, <1>4, <1>6, <1>7, Grown

LEMMA WorkerInitPreserves == ASSUME IInv, NEW g \in Worker, WorkerInit(g) PROVE IInv'
<1> DEFINE p == worker[g].root
<1>1. /\ disk' = disk \cup {<<p, Corpus>>} /\ calm' = (calm /\ ~Strays(p))
      /\ worker' = [worker EXCEPT ![g] = [worker[g] EXCEPT !.pc = "serve"]]
      /\ UNCHANGED <<setting, req, thread, fileServer, ended, up, spent, stored>>
  BY DEF WorkerInit, InitRoot
<1>2. TypeOK'
  <2>1. p \in Path /\ worker \in [Worker -> WorkerState] /\ "serve" \in WorkerPc
    BY TypeParts DEF IInv, WorkerPc
  <2>2. ASSUME NEW r \in WorkerState PROVE [r EXCEPT !.pc = "serve"] \in WorkerState
    BY <2>1 DEF WorkerState
  <2>3. worker' \in [Worker -> WorkerState]
    BY <1>1, <2>1, <2>2
  <2>4. disk' \subseteq Path \X ({Corpus} \cup Dir \cup File)
    BY <1>1, <2>1 DEF IInv, TypeOK
  <2>5. calm' \in BOOLEAN
    BY <1>1 DEF IInv, TypeOK
  <2> QED BY <1>1, <2>3, <2>4, <2>5 DEF IInv, TypeOK, WorkerState
<1>3. Moving' = Moving /\ \A k \in Moving : req'[k].to = req[k].to
  BY <1>1 DEF Moving, At
<1>4. calm' => calm /\ p = Root
  <2>1. disk = {} => p = Default
    BY DEF IInv, Unmade
  <2> QED BY <1>1, <2>1, NoStray
<1> HIDE DEF p
<1> QED BY <1>1, <1>2, <1>3, <1>4, Grown

LEMMA MakeFolderPreserves == ASSUME IInv, NEW h \in Handler, MakeFolder(h) PROVE IInv'
<1>1. CASE Dest(h) \in disk
  <2>1. /\ Go(h, "idle") /\ "idle" \in Pc /\ ~At(h, "update")
        /\ UNCHANGED <<setting, disk, stored, calm, worker, fileServer, up, thread, ended, spent>>
    BY <1>1 DEF MakeFolder, At, Pc
  <2> QED BY <2>1, Same, QuietGo DEF Typed
<1>2. CASE Dest(h) \notin disk
  <2> DEFINE p == req[h].root
             what == DirOf[req[h].file]
  <2>1. /\ Go(h, "write") /\ "write" \in Pc /\ ~At(h, "update")
        /\ disk' = disk \cup {<<p, what>>} /\ calm' = (calm /\ ~Strays(p))
        /\ UNCHANGED <<setting, worker, thread, fileServer, ended, up, spent, stored>>
    BY <1>2 DEF MakeFolder, At, Pc, Dest
  <2>2. TypeOK'
    <3>1. disk' \subseteq Things
      BY <2>1, DestType DEF IInv, TypeOK, Things, Dest
    <3>2. calm' \in BOOLEAN
      BY <2>1 DEF IInv, TypeOK
    <3>3. ended' \subseteq Worker /\ thread' \in Worker \cup {0} /\ setting' \in Path
          /\ stored' \subseteq File
          /\ spent' \in [requests : 0..MaxRequests, faults : 0..MaxFaults]
      BY <2>1 DEF IInv, TypeOK
    <3> QED BY <2>1, <3>1, <3>2, <3>3, GoType DEF IInv
  <2>3. Others(h) /\ req'[h].pc # "update"
    BY <2>1, GoFacts DEF IInv
  <2>4. Moving' = Moving /\ \A k \in Moving : req'[k].to = req[k].to
    BY <2>1, <2>3, MovingKept
  <2>5. calm' => calm /\ p = Root
    <3>1. disk = {} => p = Default
      BY DEF IInv, Unmade
    <3> QED BY <2>1, <3>1, NoStray
  <2> HIDE DEF p, what
  <2> QED BY <2>1, <2>2, <2>4, <2>5, Grown
<1> QED BY <1>1, <1>2

LEMMA WritePreserves == ASSUME IInv, NEW h \in Handler, Write(h) PROVE IInv'
<1> DEFINE p == req[h].root
           f == req[h].file
<1>1. /\ Go(h, "idle") /\ "idle" \in Pc /\ ~At(h, "update") /\ stored' = stored \cup {f}
      /\ UNCHANGED <<setting, worker, thread, fileServer, ended, up, spent>>
      /\ Dest(h) \in disk => disk' = disk \cup {<<p, f>>} /\ calm' = calm
      /\ Dest(h) \notin disk => disk' = disk /\ calm' = FALSE
  BY DEF Write, At, Pc
<1>2. p \in Path /\ f \in File
  BY TypeParts DEF IInv
<1>3. TypeOK'
  <2>1. disk' \subseteq Things /\ stored' \subseteq File /\ calm' \in BOOLEAN
    <3>1. <<p, f>> \in Things /\ disk \subseteq Things /\ calm \in BOOLEAN /\ stored \subseteq File
      BY <1>2 DEF IInv, TypeOK, Things
    <3>2. disk' \subseteq Things /\ stored' \subseteq File
      BY <1>1, <1>2, <3>1
    <3>3. calm' = calm \/ calm' = FALSE
      BY <1>1
    <3> QED BY <3>1, <3>2, <3>3
  <2>2. ended' \subseteq Worker /\ thread' \in Worker \cup {0} /\ setting' \in Path
        /\ spent' \in [requests : 0..MaxRequests, faults : 0..MaxFaults]
    BY <1>1 DEF IInv, TypeOK
  <2> QED BY <1>1, <2>1, <2>2, GoType DEF IInv
<1>4. Others(h) /\ req'[h].pc # "update" /\ (req'[h].root = p \/ req'[h].root = Default)
  BY <1>1, GoFacts DEF IInv
<1>5. Moving' = Moving /\ \A k \in Moving : req'[k].to = req[k].to
  BY <1>1, <1>4, MovingKept
<1>6. CASE Dest(h) \in disk
  <2>1. calm' => calm /\ p = Root
    BY <1>1, <1>6, DestType DEF IInv, BelowRoot
  <2> HIDE DEF p, f
  <2> QED BY <1>1, <1>3, <1>5, <1>6, <2>1, Grown
<1>7. CASE Dest(h) \notin disk
  <2>1. Unmade => Unmade'
    BY <1>1, <1>4, <1>5 DEF Unmade, Others
  <2> QED BY <1>1, <1>3, <1>7, <2>1 DEF IInv
<1> QED BY <1>6, <1>7

\* The folder that is renamed is Root, and then "to" is.
LEMMA RenamePreserves == ASSUME IInv, NEW h \in Handler, Rename(h) PROVE IInv'
<1> DEFINE from == req[h].root
           to == req[h].to
<1>1. CASE ~(Exists(from) /\ ~Exists(to))
  <2>1. /\ Go(h, "idle") /\ "idle" \in Pc /\ ~At(h, "update")
        /\ UNCHANGED <<setting, disk, stored, calm, worker, fileServer, up, thread, ended, spent>>
    BY <1>1 DEF Rename, At, Pc
  <2> QED BY <2>1, Same, QuietGo DEF Typed
<1>2. CASE Exists(from) /\ ~Exists(to)
  <2>1. /\ Go(h, "update") /\ "update" \in Pc /\ ~At(h, "update")
        /\ disk' = Renamed(from, to) /\ calm' = (calm /\ Moving = {})
        /\ UNCHANGED <<setting, worker, thread, fileServer, ended, up, spent, stored>>
    BY <1>2 DEF Rename, At, Pc
  <2>2. TypeOK'
    <3>1. to \in Path /\ disk \subseteq Things
      BY TypeParts DEF IInv, TypeOK, Things
    <3>2. disk' \subseteq Things
      BY <2>1, <3>1, RenamedType
    <3>3. calm' \in BOOLEAN
      BY <2>1 DEF IInv, TypeOK
    <3>4. ended' \subseteq Worker /\ thread' \in Worker \cup {0} /\ setting' \in Path
          /\ stored' \subseteq File
          /\ spent' \in [requests : 0..MaxRequests, faults : 0..MaxFaults]
      BY <2>1 DEF IInv, TypeOK
    <3> QED BY <2>1, <3>2, <3>3, <3>4, GoType DEF IInv
  <2>3. disk' # {}
    BY <1>2, <2>1 DEF Exists, Renamed
  <2>4. ASSUME calm' PROVE OneMoves' /\ BelowRoot' /\ StoredThere'
    <3>1. calm /\ Moving = {}
      BY <2>1, <2>4
    <3>2. from = Root
      BY <1>2, <3>1 DEF IInv, BelowRoot, Exists
    <3>3. Others(h) /\ req'[h].pc = "update" /\ req'[h].to = to
      BY <2>1, GoFacts DEF IInv
    <3>4. Moving' = {h}
      BY <3>1, <3>3 DEF Moving, At, Others
    <3>5. Root' = to
      BY <3>3, <3>4 DEF Root
    <3>6. \A x \in disk : x[1] = from
      BY <3>1, <3>2 DEF IInv, BelowRoot
    <3>7. disk' = {<<to, x[2]>> : x \in disk}
      BY <2>1, <3>6 DEF Renamed
    <3>8. BelowRoot'
      BY <3>5, <3>7 DEF BelowRoot
    <3>9. StoredThere'
      <4> SUFFICES ASSUME NEW f \in stored PROVE <<to, f>> \in disk'
        BY <2>1, <3>5 DEF StoredThere
      <4>1. <<from, f>> \in disk
        BY <3>1, <3>2 DEF IInv, StoredThere
      <4> QED BY <3>7, <4>1
    <3> QED BY <3>4, <3>8, <3>9 DEF OneMoves
  <2> QED BY <2>2, <2>3, <2>4 DEF IInv
<1> QED BY <1>1, <1>2

LEMMA UpdatePreserves == ASSUME IInv, NEW h \in Handler, Update(h) PROVE IInv'
<1>1. /\ Go(h, "terminate") /\ "terminate" \in Pc /\ h \in Moving /\ setting' = req[h].to
      /\ UNCHANGED <<disk, worker, thread, fileServer, ended, up, spent, stored, calm>>
  BY DEF Update, Pc, Moving
<1>2. TypeOK'
  <2>1. setting' \in Path
    BY <1>1, TypeParts DEF IInv
  <2>2. disk' \subseteq Things /\ stored' \subseteq File /\ calm' \in BOOLEAN
        /\ ended' \subseteq Worker /\ thread' \in Worker \cup {0}
        /\ spent' \in [requests : 0..MaxRequests, faults : 0..MaxFaults]
    BY <1>1 DEF IInv, TypeOK, Things
  <2> QED BY <1>1, <2>1, <2>2, GoType DEF IInv
<1>3. disk' # {}
  BY <1>1 DEF IInv, Unmade
<1>4. ASSUME calm PROVE OneMoves' /\ BelowRoot' /\ StoredThere'
  <2>1. Moving = {h}
    BY <1>1, <1>4 DEF IInv, OneMoves
  <2>2. Root = req[h].to
    BY <2>1 DEF Root
  <2>3. Others(h) /\ req'[h].pc = "terminate"
    BY <1>1, GoFacts DEF IInv
  <2>4. Moving' = {}
    BY <2>1, <2>3 DEF Moving, At, Others
  <2>5. Root' = Root
    BY <1>1, <2>2, <2>4 DEF Root
  <2> QED BY <1>1, <1>4, <2>4, <2>5 DEF IInv, OneMoves, BelowRoot, StoredThere
<1> QED BY <1>1, <1>2, <1>3, <1>4 DEF IInv

--------------------------------------------------------------------------------
LEMMA InitIInv == Init => IInv
<1> SUFFICES ASSUME Init PROVE IInv
  OBVIOUS
<1>1. NoRequest \in Request /\ NoRequest.root = Default /\ NoRequest.pc = "idle"
  BY ConstantTypes DEF NoRequest
<1>2. req \in [Handler -> Request] /\ \A h \in Handler : req[h] = NoRequest
  BY <1>1 DEF Init, Idle
<1>3. worker \in [Worker -> WorkerState] /\ \A g \in Worker : worker[g].root = Default
  BY ConstantTypes DEF Init, Nobody
<1>4. Moving = {}
  BY <1>1, <1>2 DEF Moving, At
<1>5. spent \in [requests : 0..MaxRequests, faults : 0..MaxFaults]
  BY RootAssumption DEF Init
<1>6. TypeOK
  BY <1>2, <1>3, <1>5, ConstantTypes DEF Init, TypeOK, Request, WorkerState
<1>7. Unmade
  BY <1>1, <1>2, <1>3, <1>4 DEF Init, Unmade
<1>8. OneMoves /\ BelowRoot /\ StoredThere
  BY <1>4 DEF Init, OneMoves, BelowRoot, StoredThere
<1> QED BY <1>6, <1>7, <1>8 DEF IInv

LEMMA Unchanged == ASSUME IInv, UNCHANGED vars PROVE IInv'
<1>1. TypeOK'
  BY DEF IInv, TypeOK, vars, memory
<1>2. Moving' = Moving
  BY DEF vars, memory, Moving, At
<1> QED BY <1>1, <1>2, Frame DEF vars, memory, Unmade

LEMMA BeginKinds ==
  ASSUME NEW h \in Handler,
         \/ \E f \in File : Begin(h, "store", Default, f)
         \/ \E p \in Path : Begin(h, "migrate", p, AnyFile)
  PROVE  \E kind \in Kind, p \in Path, f \in File : Begin(h, kind, p, f)
BY ConstantTypes DEF Kind

LEMMA NextIInv == IInv /\ [Next]_vars => IInv'
<1> SUFFICES ASSUME IInv, [Next]_vars PROVE IInv'
  OBVIOUS
<1>1. CASE UNCHANGED vars
  BY <1>1, Unchanged
<1>2. CASE Boot
  BY <1>2, BootPreserves
<1>3. CASE Crash
  BY <1>3, FaultyType, DiePreserves DEF Crash, IInv
<1>4. ASSUME NEW h \in Handler,
             \/ \E f \in File : Begin(h, "store", Default, f)
             \/ \E p \in Path : Begin(h, "migrate", p, AnyFile)
      PROVE  IInv'
  <2>1. PICK kind \in Kind, p \in Path, f \in File : Begin(h, kind, p, f)
    BY <1>4, BeginKinds
  <2> QED BY <2>1, BeginPreserves
<1>5. ASSUME NEW h \in Handler, Fail(h) PROVE IInv'
  BY <1>5, FailPreserves
<1>6. ASSUME NEW h \in Handler, HandlerStep(h) PROVE IInv'
  BY <1>6, OpenPreserves, InitCorpusPreserves, LookPreserves, MakeFolderPreserves,
     WritePreserves, RenamePreserves, UpdatePreserves, TerminatePreserves,
     JoinPreserves, SpawnPreserves DEF HandlerStep
<1>7. ASSUME NEW g \in Worker, WorkerStep(g) PROVE IInv'
  BY <1>7, WorkerPreserves, WorkerInitPreserves DEF WorkerStep
<1> QED BY <1>1, <1>2, <1>3, <1>4, <1>5, <1>6, <1>7 DEF Next

\* What a step does to the disk.
Grows(p, what) == disk' = disk \cup {<<p, what>>} /\ (disk = {} => p = Default)
Moves(h) == Exists(req[h].root) /\ disk' = Renamed(req[h].root, req[h].to)

LEMMA DiskStep ==
  ASSUME IInv, [Next]_vars
  PROVE  /\ calm' => calm
         /\ \/ disk' = disk
            \/ \E p, what : Grows(p, what)
            \/ \E h \in Handler : Moves(h)
<1> DEFINE Still == disk' = disk /\ (calm' => calm)
           Result == /\ calm' => calm
                     /\ \/ disk' = disk
                        \/ \E p, what : Grows(p, what)
                        \/ \E h \in Handler : Moves(h)
<1> HIDE DEF Result
<1>a. Still => Result
  BY DEF Result
<1>b. ASSUME NEW p, NEW what, Grows(p, what), calm' => calm PROVE Result
  BY <1>b DEF Result
<1>c. ASSUME NEW h \in Handler, Moves(h), calm' => calm PROVE Result
  BY <1>c DEF Result
<1> SUFFICES Result
  BY DEF Result
<1>1. CASE UNCHANGED vars
  BY <1>1, <1>a DEF vars, Still
<1>d. Die => Still
  BY DEF Die
<1> HIDE DEF Still
<1>2. CASE Boot \/ Crash
  <2>1. Boot => Still
    BY DEF Boot, Still
  <2> QED BY <1>2, <2>1, <1>a, <1>d DEF Crash
<1>3. ASSUME NEW h \in Handler,
             \/ \E f \in File : Begin(h, "store", Default, f)
             \/ \E p \in Path : Begin(h, "migrate", p, AnyFile)
      PROVE  Result
  <2>1. PICK kind \in Kind, p \in Path, f \in File : Begin(h, kind, p, f)
    BY <1>3, BeginKinds
  <2>2. disk' = disk /\ calm' = calm
    BY <2>1 DEF Begin
  <2> QED BY <2>2, <1>a DEF Still
<1>4. ASSUME NEW h \in Handler, Fail(h) PROVE Result
  BY <1>4, <1>a DEF Fail, Still
<1>5. ASSUME NEW h \in Handler, HandlerStep(h) PROVE Result
  <2>1. CASE Open(h) \/ LookFolder(h) \/ CheckFree(h) \/ Update(h) \/ Join(h)
    BY <2>1, <1>a DEF Open, LookFolder, CheckFree, Update, Join, Still
  <2>2. CASE Terminate(h) \/ Spawn(h)
    <3>1. Terminate(h) => Still
      BY <1>d DEF Terminate, Still
    <3>2. Spawn(h) => Still
      BY <1>d DEF Spawn, Still
    <3> QED BY <2>2, <3>1, <3>2, <1>a
  <2>3. disk = {} => req[h].root = Default
    BY DEF IInv, Unmade
  <2>4. CASE InitCorpus(h)
    <3>1. Grows(req[h].root, Corpus)
      BY <2>3, <2>4 DEF InitCorpus, InitRoot, Grows
    <3>2. calm' => calm
      BY <2>4 DEF InitCorpus, InitRoot
    <3> QED BY <3>1, <3>2, <1>a, <1>b DEF Still
  <2>5. CASE MakeFolder(h)
    <3>1. disk' = disk \/ Grows(req[h].root, DirOf[req[h].file])
      BY <2>3, <2>5 DEF MakeFolder, Dest, Grows
    <3>2. calm' => calm
      BY <2>5 DEF MakeFolder
    <3> QED BY <3>1, <3>2, <1>a, <1>b DEF Still
  <2>6. CASE Write(h)
    <3>1. disk' = disk \/ Grows(req[h].root, req[h].file)
      BY <2>3, <2>6 DEF Write, Grows
    <3>2. calm' => calm
      BY <2>6 DEF Write
    <3> QED BY <3>1, <3>2, <1>a, <1>b DEF Still
  <2>7. CASE Rename(h)
    <3>1. disk' = disk \/ Moves(h)
      BY <2>7 DEF Rename, Moves
    <3>2. calm' => calm
      BY <2>7 DEF Rename
    <3> QED BY <3>1, <3>2, <1>a, <1>c DEF Still
  <2> QED BY <1>5, <2>1, <2>2, <2>4, <2>5, <2>6, <2>7 DEF HandlerStep
<1>6. ASSUME NEW g \in Worker, WorkerStep(g) PROVE Result
  <2>1. CASE MakeServer(g) \/ WorkerOpen(g) \/ ServeEnds(g)
    BY <2>1, <1>a DEF MakeServer, WorkerOpen, ServeEnds, Still
  <2>2. CASE WorkerInit(g)
    <3>1. Grows(worker[g].root, Corpus)
      BY <2>2 DEF WorkerInit, InitRoot, Grows, IInv, Unmade
    <3>2. calm' => calm
      BY <2>2 DEF WorkerInit, InitRoot
    <3> QED BY <3>1, <3>2, <1>a, <1>b DEF Still
  <2> QED BY <1>6, <2>1, <2>2 DEF WorkerStep
<1> QED BY <1>1, <1>2, <1>3, <1>4, <1>5, <1>6 DEF Next

--------------------------------------------------------------------------------
LEMMA Inductive == Spec => []IInv
BY InitIInv, NextIInv, PTL DEF Spec

\* Types: whatever requests, crashes and restarts come, in any order.
THEOREM RootTypeCorrect == Spec => []TypeOK
<1>1. IInv => TypeOK
  BY DEF IInv
<1> QED BY <1>1, Inductive, PTL

\* Storage::store_files and migrate: while calm, everything is below the one
\* root and every file reported as stored is there.
THEOREM RootHolds == Spec => []RootHoldsFiles
<1>1. IInv => RootHoldsFiles
  BY DEF IInv, RootHoldsFiles, BelowRoot, StoredThere
<1> QED BY <1>1, Inductive, PTL

\* No step of any thread, failure or crash takes a file off the disk.
THEOREM NoFileLost == Spec => FilesStay
<1> DEFINE Stay == \A f \in File : (\E p \in Path : <<p, f>> \in disk)
                                  => (\E p \in Path : <<p, f>> \in disk')
<1>1. IInv /\ [Next]_vars => [Stay]_vars
  <2> SUFFICES ASSUME IInv, [Next]_vars, NEW f \in File, NEW p \in Path, <<p, f>> \in disk
               PROVE  \E q \in Path : <<q, f>> \in disk'
    BY Zenon
  <2>1. CASE disk' = disk \/ \E q, what : Grows(q, what)
    BY <2>1 DEF Grows
  <2>2. ASSUME NEW h \in Handler, Moves(h) PROVE \E q \in Path : <<q, f>> \in disk'
    <3>1. req[h].to \in Path
      BY TypeParts DEF IInv
    <3>2. <<p, f>> \in disk' \/ <<req[h].to, f>> \in disk'
      BY <2>2 DEF Moves, Renamed
    <3> QED BY <3>1, <3>2
  <2> QED BY <2>1, <2>2, DiskStep
<1> QED BY <1>1, Inductive, PTL DEF Spec, FilesStay

Shelf == {f \in File : <<Root, f>> \in disk}

LEMMA RootTypeNext == ASSUME TypeOK' PROVE Root' \in Path
<1>1. Moving' # {} => (CHOOSE h \in Moving' : TRUE) \in Moving'
  OBVIOUS
<1>2. Moving' \subseteq Handler /\ setting' \in Path
  BY DEF Moving, TypeOK
<1>3. \A h \in Handler : req'[h].to \in Path
  <2>1. req' \in [Handler -> Request]
    BY DEF TypeOK, Request
  <2> QED BY <2>1 DEF Request
<1> QED BY <1>1, <1>2, <1>3 DEF Root

LEMMA BelowNext == ASSUME IInv', calm' PROVE \A x \in disk' : x[1] = Root'
<1>1. BelowRoot'
  BY DEF IInv
<1> QED BY <1>1 DEF BelowRoot

LEMMA RootStays ==
  ASSUME IInv, IInv', calm, calm', disk' = disk PROVE Root' = Root
<1>1. CASE disk = {}
  BY <1>1 DEF IInv, Unmade, Root
<1>2. CASE disk # {}
  BY <1>2 DEF IInv, BelowRoot
<1> QED BY <1>1, <1>2

LEMMA StepImplements ==
  ASSUME IInv, IInv', [Next]_vars
  PROVE  [Atomic!RNext]_<<Root, Shelf, calm>>
<1> DEFINE Result == [Atomic!RNext]_<<Root, Shelf, calm>>
<1>1. CASE ~calm'
  <2>1. calm' = FALSE /\ Root' \in Path /\ Shelf' \in SUBSET File
    <3>1. TypeOK' /\ calm' \in BOOLEAN
      BY DEF IInv, TypeOK
    <3> QED BY <1>1, <3>1, RootTypeNext DEF Shelf
  <2> QED BY <2>1 DEF Atomic!RNext, Atomic!Break, Shelf
<1>2. CASE calm'
  <2>1. calm /\ calm' = calm
    <3>1. calm \in BOOLEAN /\ calm' \in BOOLEAN /\ calm
      BY <1>2, DiskStep DEF IInv, TypeOK
    <3> QED BY <1>2, <3>1
  <2>2. ASSUME NEW q \in Path, Root' = q, Shelf' = Shelf PROVE Result
    BY <2>1, <2>2 DEF Atomic!RNext, Atomic!Move, Shelf
  <2>3. Root' \in Path
    BY RootTypeNext DEF IInv
  <2>4. CASE disk' = disk
    BY <2>1, <2>2, <2>3, <2>4, <1>2, RootStays DEF Shelf
  <2>5. ASSUME NEW p, NEW what, Grows(p, what) PROVE Result
    <3>1. p = Root' /\ <<p, what>> \in disk'
      <4>1. <<p, what>> \in disk'
        BY <2>5 DEF Grows
      <4>2. <<p, what>>[1] = Root'
        BY <1>2, <4>1, BelowNext
      <4> QED BY <4>1, <4>2
    <3>2. Root' = Root
      <4>1. CASE disk = {}
        BY <2>5, <3>1, <4>1 DEF IInv, Unmade, Root, Grows
      <4>2. CASE disk # {}
        BY <1>2, <2>1, <2>5, <4>2 DEF IInv, BelowRoot, Grows
      <4> QED BY <4>1, <4>2
    <3>3. CASE what \in File
      <4>1. Shelf' = Shelf \cup {what}
        BY <2>5, <3>1, <3>2, <3>3 DEF Grows, Shelf
      <4> QED BY <2>1, <3>2, <3>3, <4>1 DEF Atomic!RNext, Atomic!Put, Shelf
    <3>4. CASE what \notin File
      <4>1. Shelf' = Shelf
        BY <2>5, <3>2, <3>4 DEF Grows, Shelf
      <4> QED BY <2>2, <2>3, <4>1
    <3> QED BY <3>3, <3>4
  <2>6. ASSUME NEW h \in Handler, Moves(h) PROVE Result
    <3> DEFINE to == req[h].to
    <3>1. \A x \in disk : x[1] = Root
      BY <2>1 DEF IInv, BelowRoot
    <3>2. req[h].root = Root /\ disk # {}
      BY <2>6, <3>1 DEF Moves, Exists
    <3>3. disk' = {<<to, x[2]>> : x \in disk}
      BY <2>6, <3>1, <3>2 DEF Moves, Renamed
    <3>4. Root' = to
      <4>1. PICK x \in disk : <<to, x[2]>> \in disk'
        BY <3>2, <3>3
      <4>2. <<to, x[2]>>[1] = Root'
        BY <1>2, <4>1, BelowNext
      <4> QED BY <4>2
    <3>5. ASSUME NEW f \in File PROVE <<Root, f>> \in disk <=> <<to, f>> \in disk'
      <4>1. \A x \in disk : x = <<Root, x[2]>>
        BY <3>1 DEF IInv, TypeOK
      <4> QED BY <3>3, <4>1
    <3>6. Shelf' = Shelf
      BY <3>4, <3>5 DEF Shelf
    <3> QED BY <2>2, <2>3, <3>6
  <2> QED BY <2>4, <2>5, <2>6, DiskStep
<1> QED BY <1>1, <1>2

\* The storage implements the abstract root: while calm there is one root, its
\* shelf only grows, and migrate moves it whole in one step.
THEOREM StorageImplementsRoot == Spec => AtomicRootSpec
<1>1. Init => Atomic!RInit
  <2> SUFFICES ASSUME Init PROVE Atomic!RInit
    OBVIOUS
  <2>1. Root \in Path
    BY InitIInv, RootType DEF IInv
  <2>2. disk = {} /\ calm = TRUE
    BY DEF Init
  <2> QED BY <2>1, <2>2 DEF Atomic!RInit
<1>2. IInv /\ IInv' /\ [Next]_vars => [Atomic!RNext]_Atomic!rvars
  BY StepImplements DEF Shelf, Atomic!rvars
<1> QED BY <1>1, <1>2, Inductive, PTL DEF Spec, AtomicRootSpec, Atomic!RootSpec

--------------------------------------------------------------------------------
(* The file server.  A handler that has updated the setting is on its way to
   replace the file server, so when nobody is, whoever serves has read the
   setting since; a server that is on its way to serve must be in it too. *)
ServeInv ==
  thread # 0 /\ Restarting = {}
    => (worker[thread].pc \in {"init", "serve"} => worker[thread].root = setting)

RestartPc == {"terminate", "join", "spawn"}

\* A step of h that leaves the file server alone and does not end a restart.
LEMMA ServeKept ==
  ASSUME ServeInv, NEW h \in Handler, Others(h), UNCHANGED <<setting, worker, thread>>,
         req[h].pc \in RestartPc => req'[h].pc \in RestartPc
  PROVE  ServeInv'
<1>1. Restarting' = {} => Restarting = {}
  BY DEF Restarting, Others, RestartPc
<1> QED BY <1>1 DEF ServeInv

LEMMA DieServes == ASSUME Die PROVE ServeInv'
BY DEF Die, Dead, ServeInv

LEMMA HandlerServes ==
  ASSUME TypeOK, ServeInv, NEW h \in Handler, HandlerStep(h) \/ Fail(h)
  PROVE  ServeInv'
<1>1. CASE Open(h)
  <2>1. Others(h) /\ req[h].pc = "open"
    BY <1>1, OpenFacts DEF Open, At
  <2> QED BY <1>1, <2>1, ServeKept DEF Open, RestartPc
<1>2. CASE InitCorpus(h) \/ LookFolder(h) \/ MakeFolder(h) \/ Write(h)
             \/ CheckFree(h) \/ Rename(h) \/ Fail(h)
  <2>1. \E pc \in Pc : Go(h, pc)
    <3>1. {"folder", "check", "idle", "write", "mkdir", "rename", "update"} \subseteq Pc
      BY DEF Pc
    <3>2. req[h].kind \in Kind
      BY TypeParts DEF Request
    <3>3. AfterInit(req[h].kind) \in {"folder", "check", "idle"}
      BY <3>2 DEF AfterInit, Kind
    <3> QED BY <1>2, <3>1, <3>3
      DEF InitCorpus, LookFolder, MakeFolder, Write, CheckFree, Rename, Fail
  <2>2. Others(h)
    BY <2>1, GoFacts
  <2>3. req[h].pc \notin RestartPc
    BY <1>2 DEF InitCorpus, LookFolder, MakeFolder, Write, CheckFree, Rename, Fail,
      At, RestartPc
  <2>4. UNCHANGED <<setting, worker, thread>>
    BY <1>2 DEF InitCorpus, LookFolder, MakeFolder, Write, CheckFree, Rename, Fail
  <2> QED BY <2>2, <2>3, <2>4, ServeKept
<1>3. CASE Update(h)
  \* The handler that has changed the setting is one that restarts.
  <2>1. req'[h].pc = "terminate"
    BY <1>3, GoFacts DEF Update, Pc
  <2>2. Restarting' # {}
    BY <2>1 DEF Restarting
  <2> QED BY <2>2 DEF ServeInv
<1>4. CASE Terminate(h)
  <2>1. CASE Die
    BY <2>1, DieServes
  <2>2. CASE ~Die
    <3>1. Go(h, "join") /\ UNCHANGED <<setting, worker, thread>>
      BY <1>4, <2>2 DEF Terminate
    <3>2. "join" \in Pc /\ "join" \in RestartPc
      BY DEF Pc, RestartPc
    <3>3. Others(h) /\ req'[h].pc \in RestartPc
      BY <3>1, <3>2, GoFacts
    <3> QED BY <3>1, <3>3, ServeKept
  <2> QED BY <2>1, <2>2
<1>5. CASE Join(h)
  <2>1. thread' = 0
    BY <1>5 DEF Join
  <2> QED BY <2>1 DEF ServeInv
<1>6. CASE Spawn(h)
  <2>1. CASE Die
    BY <2>1, DieServes
  <2>2. CASE ~Die
    <3>1. PICK g \in Worker : Spawned(g)
      BY <1>6, <2>2 DEF Spawn
    <3>2. thread' = g /\ worker'[g].pc = "new"
      <4>1. worker \in [Worker -> WorkerState]
        BY TypeParts
      <4> QED BY <3>1, <4>1 DEF Spawned, WorkerState
    <3> QED BY <3>2 DEF ServeInv
  <2> QED BY <2>1, <2>2
<1> QED BY <1>1, <1>2, <1>3, <1>4, <1>5, <1>6 DEF HandlerStep

LEMMA WorkerServes ==
  ASSUME TypeOK, ServeInv, NEW g \in Worker, WorkerStep(g)
  PROVE  ServeInv'
<1>1. /\ worker \in [Worker -> WorkerState]
      /\ thread \in Worker \cup {0} /\ 0 \notin Worker
  BY TypeParts, ConstantTypes DEF TypeOK
<1>2. UNCHANGED <<setting, thread, req>>
  BY DEF WorkerStep, MakeServer, WorkerOpen, WorkerInit, ServeEnds
<1>3. Restarting' = Restarting
  BY <1>2 DEF Restarting
<1>4. \A k \in Worker : k # g => worker'[k] = worker[k]
  BY <1>1 DEF WorkerStep, MakeServer, WorkerOpen, WorkerInit, ServeEnds
<1>5. worker'[g].pc \in {"init", "serve"}
        => \/ worker'[g].root = setting
           \/ worker[g].pc = "init" /\ worker'[g].root = worker[g].root
  <2>1. CASE MakeServer(g)
    <3>1. worker'[g].pc = "open"
      BY <1>1, <2>1 DEF MakeServer, WorkerState
    <3> QED BY <3>1
  <2>2. CASE WorkerOpen(g)
    BY <1>1, <2>2 DEF WorkerOpen
  <2>3. CASE WorkerInit(g)
    BY <1>1, <2>3 DEF WorkerInit, WorkerState
  <2>4. CASE ServeEnds(g)
    <3>1. worker'[g].pc = "done"
      BY <1>1, <2>4 DEF ServeEnds
    <3> QED BY <3>1
  <2> QED BY <2>1, <2>2, <2>3, <2>4 DEF WorkerStep
<1> QED BY <1>1, <1>2, <1>3, <1>4, <1>5 DEF ServeInv

LEMMA NextServes == ASSUME TypeOK, ServeInv, [Next]_vars PROVE ServeInv'
<1>1. CASE Boot
  <2>1. thread' = 1 /\ worker'[1].pc = "new"
    <3>1. worker \in [Worker -> WorkerState] /\ 1 \in Worker
      BY TypeParts, ConstantTypes
    <3> QED BY <1>1, <3>1 DEF Boot, Spawned, WorkerState
  <2> QED BY <2>1 DEF ServeInv
<1>2. CASE Crash
  BY <1>2, DieServes DEF Crash
<1>3. ASSUME NEW h \in Handler,
             \/ \E f \in File : Begin(h, "store", Default, f)
             \/ \E p \in Path : Begin(h, "migrate", p, AnyFile)
      PROVE  ServeInv'
  <2>1. PICK kind \in Kind, p \in Path, f \in File : Begin(h, kind, p, f)
    BY <1>3, BeginKinds
  <2>2. Others(h) /\ req[h].pc = "idle"
    BY <2>1, BeginFacts DEF Begin, At
  <2> QED BY <2>1, <2>2, ServeKept DEF Begin, RestartPc
<1>4. ASSUME NEW h \in Handler, HandlerStep(h) \/ Fail(h) PROVE ServeInv'
  BY <1>4, HandlerServes
<1>5. ASSUME NEW g \in Worker, WorkerStep(g) PROVE ServeInv'
  BY <1>5, WorkerServes
<1>6. CASE UNCHANGED vars
  BY <1>6 DEF vars, memory, ServeInv, Restarting
<1> QED BY <1>1, <1>2, <1>3, <1>4, <1>5, <1>6 DEF Next

\* run_file_server and restart_file_server: whatever migrations overlap, fail
\* or are cut off by a crash, a file server that serves has the root that the
\* setting names, unless a restart is under way.
THEOREM ServesTheRoot == Spec => []ServesRoot
<1>1. Init => ServeInv
  BY DEF Init, ServeInv
<1>2. IInv /\ ServeInv /\ [Next]_vars => ServeInv'
  BY NextServes DEF IInv
<1>3. ServeInv => ServesRoot
  <2> SUFFICES ASSUME ServeInv, thread # 0, worker[thread].pc = "serve",
                      \A h \in Handler :
                        req[h].pc \notin {"update", "terminate", "join", "spawn"}
               PROVE  worker[thread].root = setting
    BY DEF ServesRoot
  <2>1. Restarting = {}
    BY DEF Restarting
  <2> QED BY <2>1 DEF ServeInv
<1> QED BY <1>1, <1>2, <1>3, Inductive, PTL DEF Spec
===============================================================================
