------------------------------ MODULE StorageRoot ------------------------------
(***************************************************************************)
(* The root folder of the storage: the setting that names it, the folders  *)
(* on the disk, the threads of the server that store files or migrate the  *)
(* root, and the file server, which has the root for its own and is        *)
(* restarted after a migration.                                            *)
(*                                                                         *)
(* A Storage object copies the setting when it is built and keeps the copy.*)
(* migrate renames the folder, then updates the setting, and the file      *)
(* server is terminated, joined and started, all in separate steps.        *)
(*                                                                         *)
(* "stored" and "calm" are history.  "calm" turns FALSE when the storage   *)
(* meets something the code has no answer to: a migration that ends, or is *)
(* overtaken by another, between the renaming and the update, or an old    *)
(* copy of the root that is used after the folder has moved.               *)
(***************************************************************************)
EXTENDS Naturals, FiniteSets

CONSTANTS Handler,      \* threads that handle a message
          Path,         \* absolute paths whose parent folder exists
          Default,      \* the default of the setting "storage_root"
          File,
          Dir,          \* folders below download/
          DirOf,        \* DirOf[f]: where file_destination puts f
          MaxRequests,  \* bound: stores and migrations of a behaviour
          MaxFaults     \* bound: failures and crashes of a behaviour

Corpus == "corpus"      \* CORPUS_FOLDER, in every root

ASSUME RootAssumption ==
  /\ Default \in Path
  /\ File # {} /\ DirOf \in [File -> Dir]
  /\ MaxRequests \in Nat /\ MaxFaults \in Nat

VARIABLES
  setting,     \* the value of "storage_root" in the database
  disk,        \* pairs of a root folder and something in it
  req,         \* req[h]: where handler h is, and its Storage object's root
  worker,      \* worker[g]: the g-th thread that runs run_file_server
  thread,      \* the worker _file_server_thread can join, or 0
  fileServer,  \* the worker whose server is _file_server, or 0
  ended,       \* workers whose server has been told to terminate
  up,          \* whether the server process runs
  spent,       \* requests and faults so far
  stored,      \* files whose store_file returned
  calm

memory == <<req, worker, thread, fileServer, ended, up>>
vars == <<setting, disk, memory, spent, stored, calm>>

Worker == 1..MaxRequests + 1

Pc == {"idle", "open", "init", "check", "rename", "update", "terminate", "join",
       "spawn", "folder", "mkdir", "write"}
WorkerPc == {"none", "new", "open", "init", "serve", "done"}
Kind == {"store", "migrate", "infos"}

TypeOK ==
  /\ setting \in Path
  /\ disk \subseteq Path \X ({Corpus} \cup Dir \cup File)
  /\ req \in [Handler -> [pc : Pc, kind : Kind, root : Path, to : Path, file : File]]
  /\ worker \in [Worker -> [pc : WorkerPc, root : Path]]
  /\ thread \in Worker \cup {0}
  /\ fileServer \in Worker \cup {0}
  /\ ended \subseteq Worker
  /\ up \in BOOLEAN
  /\ spent \in [requests : 0..MaxRequests, faults : 0..MaxFaults]
  /\ stored \subseteq File
  /\ calm \in BOOLEAN

At(h, pc) == req[h].pc = pc

Exists(p) == \E x \in disk : x[1] = p

\* create_directories(root + folder) makes the root too if it is missing, as
\* it is on the first start and when the folder has moved away.
Strays(p) == ~Exists(p) /\ disk # {}

\* Fault: the folders are made anew and the files in them left behind.
RenamedFolders(from, to) ==
  {IF x[1] = from THEN <<to, x[2]>> ELSE x : x \in {y \in disk : y[2] \notin File}}

\* What rename(from, to) leaves on the disk.
Renamed(from, to) ==
  {IF x[1] = from THEN <<to, x[2]>> ELSE x : x \in disk}

\* The folder the files are in: a migration under way has moved it already.
Moving == {h \in Handler : At(h, "update")}
Root == IF Moving = {} THEN setting ELSE req[CHOOSE h \in Moving : TRUE].to

Nobody == [pc |-> "none", root |-> Default]

AnyFile == CHOOSE f \in File : TRUE
NoRequest == [pc |-> "idle", kind |-> "infos", root |-> Default, to |-> Default,
              file |-> AnyFile]
Idle == [h \in Handler |-> NoRequest]

\* The thread of a handled message is gone with its locals.
Go(h, pc) ==
  req' = [req EXCEPT ![h] = IF pc = "idle" THEN NoRequest ELSE [@ EXCEPT !.pc = pc]]

\* The memory of a process that does not run.
Dead ==
  /\ req' = Idle
  /\ worker' = [g \in Worker |-> Nobody]
  /\ thread' = 0 /\ fileServer' = 0 /\ ended' = {}
  /\ up' = FALSE

Init ==
  /\ setting = Default
  /\ disk = {}
  /\ req = Idle
  /\ worker = [g \in Worker |-> Nobody]
  /\ thread = 0 /\ fileServer = 0 /\ ended = {}
  /\ up = FALSE
  /\ spent = [requests |-> 0, faults |-> 0]
  /\ stored = {}
  /\ calm = TRUE

(***************************************************************************)
(* The process: run() starts the first worker.  It is killed at any time,  *)
(* for instance by an exception that leaves run_file_server.               *)
(***************************************************************************)
Spawned(g) ==
  /\ thread' = g
  /\ worker' = [worker EXCEPT ![g].pc = "new"]

Boot ==
  /\ ~up /\ up' = TRUE
  /\ Spawned(1)
  /\ UNCHANGED <<setting, disk, req, fileServer, ended, spent, stored, calm>>

Die ==
  /\ Dead
  /\ calm' = (calm /\ Moving = {})
  /\ UNCHANGED <<setting, disk, stored>>

Faulty ==
  /\ spent.faults < MaxFaults
  /\ spent' = [spent EXCEPT !.faults = @ + 1]

Crash == up /\ Faulty /\ Die

(***************************************************************************)
(* Storage::Storage(): the setting is read, then the folder of the corpuses*)
(* is made, and with it a root that is missing.                            *)
(***************************************************************************)
\* A message is received: its thread builds a Storage.
Begin(h, kind, p, f) ==
  /\ up /\ At(h, "idle")
  /\ spent.requests < MaxRequests
  /\ spent' = [spent EXCEPT !.requests = @ + 1]
  /\ req' = [req EXCEPT ![h] = [@ EXCEPT !.pc = "open", !.kind = kind,
                                         !.to = p, !.file = f]]
  /\ UNCHANGED <<setting, disk, worker, thread, fileServer, ended, up, stored, calm>>

Open(h) ==
  /\ At(h, "open")
  /\ req' = [req EXCEPT ![h] = [@ EXCEPT !.pc = "init", !.root = setting]]
  /\ UNCHANGED <<setting, disk, worker, thread, fileServer, ended, up, spent, stored, calm>>

InitRoot(p) ==
  /\ disk' = disk \cup {<<p, Corpus>>}
  /\ calm' = (calm /\ ~Strays(p))

\* Where the thread goes on with its Storage.
AfterInit(kind) ==
  CASE kind = "store" -> "folder" [] kind = "migrate" -> "check" [] kind = "infos" -> "idle"

InitCorpus(h) ==
  /\ At(h, "init")
  /\ InitRoot(req[h].root)
  /\ Go(h, AfterInit(req[h].kind))
  /\ UNCHANGED <<setting, worker, thread, fileServer, ended, up, spent, stored>>

\* A query for the setting, or the update, throws: the message is answered
\* with an error.
Fail(h) ==
  /\ At(h, "open") \/ At(h, "update")
  /\ Faulty
  /\ Go(h, "idle")
  /\ calm' = (calm /\ ~At(h, "update"))
  /\ UNCHANGED <<setting, disk, worker, thread, fileServer, ended, up, stored>>

(***************************************************************************)
(* Storage::store_file: file_destination, then File::store, which does not *)
(* look whether the file could be opened.                                  *)
(***************************************************************************)
Dest(h) == <<req[h].root, DirOf[req[h].file]>>

LookFolder(h) ==
  /\ At(h, "folder")
  /\ Go(h, IF Dest(h) \in disk THEN "write" ELSE "mkdir")
  /\ UNCHANGED <<setting, disk, worker, thread, fileServer, ended, up, spent, stored, calm>>

\* create_directories returns false if another thread has just made the
\* folder, which file_destination takes for an error.
MakeFolder(h) ==
  /\ At(h, "mkdir")
  /\ IF Dest(h) \in disk
     THEN Go(h, "idle") /\ UNCHANGED <<disk, calm>>
     ELSE /\ Go(h, "write")
          /\ disk' = disk \cup {Dest(h)}
          /\ calm' = (calm /\ ~Strays(req[h].root))
  /\ UNCHANGED <<setting, worker, thread, fileServer, ended, up, spent, stored>>

Write(h) ==
  /\ At(h, "write")
  /\ stored' = stored \cup {req[h].file}
  /\ IF Dest(h) \in disk
     THEN disk' = disk \cup {<<req[h].root, req[h].file>>} /\ UNCHANGED calm
     ELSE calm' = FALSE /\ UNCHANGED disk
  /\ Go(h, "idle")
  /\ UNCHANGED <<setting, worker, thread, fileServer, ended, up, spent>>

(***************************************************************************)
(* Storage::migrate.                                                       *)
(***************************************************************************)
CheckFree(h) ==
  /\ At(h, "check")
  /\ Go(h, IF Exists(req[h].to) THEN "idle" ELSE "rename")
  /\ UNCHANGED <<setting, disk, worker, thread, fileServer, ended, up, spent, stored, calm>>

\* Fault: the new folder takes the place of whatever is there.
RenameOver(h) ==
  /\ At(h, "rename")
  /\ disk' = {x \in Renamed(req[h].root, req[h].to) : x[1] # req[h].to \/ <<req[h].root, x[2]>> \in disk}
  /\ calm' = (calm /\ Moving = {})
  /\ Go(h, "update")
  /\ UNCHANGED <<setting, worker, thread, fileServer, ended, up, spent, stored>>

\* The operating system renames a folder that is there to a name that is free
\* (a root is never empty); otherwise std::filesystem::rename throws.
Rename(h) ==
  /\ At(h, "rename")
  /\ IF Exists(req[h].root) /\ ~Exists(req[h].to)
     THEN /\ disk' = Renamed(req[h].root, req[h].to)
          /\ calm' = (calm /\ Moving = {})
          /\ Go(h, "update")
     ELSE Go(h, "idle") /\ UNCHANGED <<disk, calm>>
  /\ UNCHANGED <<setting, worker, thread, fileServer, ended, up, spent, stored>>

\* Fault: set_value is forgotten before update.
UpdateStale(h) ==
  /\ At(h, "update")
  /\ setting' = req[h].root
  /\ Go(h, "terminate")
  /\ UNCHANGED <<disk, worker, thread, fileServer, ended, up, spent, stored, calm>>

\* Fault: the caller does not restart the file server.
UpdateOnly(h) ==
  /\ At(h, "update")
  /\ setting' = req[h].to
  /\ Go(h, "idle")
  /\ UNCHANGED <<disk, worker, thread, fileServer, ended, up, spent, stored, calm>>

Update(h) ==
  /\ At(h, "update")
  /\ setting' = req[h].to
  /\ Go(h, "terminate")
  /\ UNCHANGED <<disk, worker, thread, fileServer, ended, up, spent, stored, calm>>

(***************************************************************************)
(* WebsocketServer::restart_file_server.  _file_server is null until the   *)
(* first worker has made its server; calling it then kills the process.    *)
(***************************************************************************)
Terminate(h) ==
  /\ At(h, "terminate")
  /\ \/ /\ fileServer # 0
        /\ ended' = ended \cup {fileServer}
        /\ Go(h, "join")
        /\ UNCHANGED <<setting, disk, worker, thread, fileServer, up, stored, calm>>
     \/ fileServer = 0 /\ Die
  /\ UNCHANGED spent

\* join throws if there is nothing to join.  Two threads that join the same
\* one: whoever is late finds nothing.
Join(h) ==
  /\ At(h, "join")
  /\ \/ thread = 0 /\ Go(h, "idle") /\ UNCHANGED thread
     \/ thread # 0 /\ worker[thread].pc = "done" /\ thread' = 0 /\ Go(h, "spawn")
  /\ UNCHANGED <<setting, disk, worker, fileServer, ended, up, spent, stored, calm>>

\* Assigning to a thread that can still be joined terminates the process.
Spawn(h) ==
  /\ At(h, "spawn")
  /\ \/ /\ thread = 0
        /\ \E g \in Worker :
             /\ worker[g].pc = "none" /\ \A k \in Worker : worker[k].pc = "none" => g <= k
             /\ Spawned(g)
        /\ req' = [req EXCEPT ![h] = [NoRequest EXCEPT !.pc = "open"]]
        /\ UNCHANGED <<setting, disk, fileServer, ended, up, stored, calm>>
     \/ thread # 0 /\ Die
  /\ UNCHANGED spent

(***************************************************************************)
(* WebsocketServer::run_file_server, in worker g.  serve() returns once    *)
(* its server has been told to terminate.                                  *)
(***************************************************************************)
MakeServer(g) ==
  /\ worker[g].pc = "new"
  /\ fileServer' = g
  /\ worker' = [worker EXCEPT ![g].pc = "open"]
  /\ UNCHANGED <<setting, disk, req, thread, ended, up, spent, stored, calm>>

WorkerOpen(g) ==
  /\ worker[g].pc = "open"
  /\ worker' = [worker EXCEPT ![g] = [pc |-> "init", root |-> setting]]
  /\ UNCHANGED <<setting, disk, req, thread, fileServer, ended, up, spent, stored, calm>>

\* Fault: serve() forgets that it was told to terminate before it began.
WorkerInitAnew(g) ==
  /\ worker[g].pc = "init"
  /\ InitRoot(worker[g].root)
  /\ worker' = [worker EXCEPT ![g].pc = "serve"]
  /\ ended' = ended \ {g}
  /\ UNCHANGED <<setting, req, thread, fileServer, up, spent, stored>>

WorkerInit(g) ==
  /\ worker[g].pc = "init"
  /\ InitRoot(worker[g].root)
  /\ worker' = [worker EXCEPT ![g].pc = "serve"]
  /\ UNCHANGED <<setting, req, thread, fileServer, ended, up, spent, stored>>

ServeEnds(g) ==
  /\ worker[g].pc = "serve" /\ g \in ended
  /\ worker' = [worker EXCEPT ![g] = [pc |-> "done", root |-> Default]]
  /\ UNCHANGED <<setting, disk, req, thread, fileServer, ended, up, spent, stored, calm>>

HandlerStep(h) ==
  \/ Open(h) \/ InitCorpus(h)
  \/ LookFolder(h) \/ MakeFolder(h) \/ Write(h)
  \/ CheckFree(h) \/ Rename(h) \/ Update(h)
  \/ Terminate(h) \/ Join(h) \/ Spawn(h)

WorkerStep(g) == MakeServer(g) \/ WorkerOpen(g) \/ WorkerInit(g) \/ ServeEnds(g)

Next ==
  \/ Boot \/ Crash
  \/ \E h \in Handler :
       \/ \E f \in File : Begin(h, "store", Default, f)
       \/ \E p \in Path : Begin(h, "migrate", p, AnyFile)
       \/ HandlerStep(h) \/ Fail(h)
  \/ \E g \in Worker : WorkerStep(g)

\* Threads that can run get the processor; messages and faults need not come.
Fairness ==
  /\ \A h \in Handler : WF_vars(HandlerStep(h))
  /\ \A g \in Worker : WF_vars(WorkerStep(g))

Spec == Init /\ [][Next]_vars /\ Fairness

(***************************************************************************)
(* Properties                                                              *)
(***************************************************************************)
\* While calm, everything is below the one root, and every file that was
\* reported as stored (Storage::store_files) is there: a migration takes all
\* files along, and no thread has written through an old copy of the root.
RootHoldsFiles ==
  calm => /\ \A x \in disk : x[1] = Root
          /\ \A f \in stored : <<Root, f>> \in disk

\* Even when not calm: no step takes a file off the disk.  Migrations race for
\* a name and old roots come back, but a folder never replaces another.
FilesStay ==
  [][\A f \in File : (\E p \in Path : <<p, f>> \in disk)
                      => (\E p \in Path : <<p, f>> \in disk')]_vars

\* The abstract root: its folder moves when rename is called, files and all.
Atomic == INSTANCE AtomicRoot WITH
  root <- Root, shelf <- {f \in File : <<Root, f>> \in disk}, sound <- calm
AtomicRootSpec == Atomic!RootSpec

\* run_file_server: when no migration is under way, a file server that serves
\* and has not been told to end serves the folder the setting names; whoever
\* updates the setting restarts it, and it reads the setting when it starts.
ServesRoot ==
  (thread # 0 /\ \A h \in Handler : req[h].pc \notin {"update", "terminate", "join", "spawn"})
    => (worker[thread].pc = "serve" => worker[thread].root = setting)

\* restart_file_server: a join of a server that was told to terminate ends,
\* unless another restart comes between.
Restarting == {h \in Handler : req[h].pc \in {"terminate", "join", "spawn"}}
RestartEnds ==
  \A h \in Handler :
    (At(h, "join") /\ thread \in ended) ~> (~At(h, "join") \/ Restarting # {h})

\* Every restart ends.  It does not when the server told to terminate is not
\* the one of the thread that is joined.
EveryRestartEnds == \A h \in Handler : At(h, "join") ~> ~At(h, "join")
================================================================================
