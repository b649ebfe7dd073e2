----------------------------- MODULE CorpusStore -----------------------------
(***************************************************************************)
(* Corpuses: their rows in tables Corpus and CorpusFiles and their zip     *)
(* archives in the storage folder (engine/src/indexation/corpus.cpp, with  *)
(* its callers in ManagerRequest.cpp, zip_export.cpp and                   *)
(* Storage::delete_corpus).                                                *)
(*                                                                         *)
(* A request loads a copy of the corpus and works on the copy, one access  *)
(* to the database or the file system per step here; no transaction and no *)
(* lock spans two of them.  A client is a process (the cli, the server)    *)
(* that handles one request at a time; what the threads of one process     *)
(* share besides, the exporter object, is not modelled here.  An archive   *)
(* is always named after its corpus, so a path is only there or not.       *)
(*                                                                         *)
(* A definition introduced by "Fault:" is not part of the model: it is a   *)
(* wrong variant of the definition after it, with which a property below   *)
(* must fail.                                                              *)
(***************************************************************************)
EXTENDS Naturals, FiniteSets

CONSTANTS
  Client,       \* processes
  File,         \* indexed files
  NoArchive,    \* no archive in the storage folder
  MaxId,        \* bound: corpuses that are created
  MaxRequests,  \* bound: requests of each client
  MaxFaults     \* bound: failures and crashes in a behaviour

ASSUME CorpusAssumption ==
  /\ \A S \in SUBSET File : S # NoArchive
  /\ MaxId \in Nat \ {0}
  /\ MaxRequests \in Nat
  /\ MaxFaults \in Nat

Id == 1..MaxId
Operation == {"create", "add", "export", "delete", "title", "list"}

VARIABLES
  corpus,      \* corpus[c]: "unused", "row" in table Corpus, or "gone"
  extraction,  \* the rows whose extraction_path is not NULL
  members,     \* members[c]: the files of c in table CorpusFiles
  archive,     \* archive[c]: the files in c's archive, or NoArchive
  req,         \* req[x]: the request of client x, or its last one
  asked,       \* asked[x]: how many requests x has made
  faults       \* how often something failed

vars == <<corpus, extraction, members, archive, req, asked, faults>>
tables == <<corpus, extraction, members>>

Request ==
  [pc : {"idle", "insert row", "select", "fill", "null", "fetch", "insert",
         "drop", "delete row", "check", "zip", "close", "set path", "size"},
   op : Operation,
   id : Id,              \* the corpus, in a list the one being filled
   batch : SUBSET File,  \* the files to create or to add
   left : SUBSET File,   \* those not inserted yet
   todo : SUBSET Id,     \* rows not filled, or sizes not taken, yet
   path : SUBSET Id,     \* copies with an _extraction_path
   files : SUBSET File,  \* _files of the copy
   answer : {"none", "done", "error", "died"}]

Started(op, id, batch, pc) ==
  [pc |-> pc, op |-> op, id |-> id, batch |-> batch, left |-> batch,
   todo |-> {}, path |-> {}, files |-> {}, answer |-> "none"]

\* Everything has its type, and a request that fills or inserts has something
\* left to fill or insert.
TypeOK ==
  /\ corpus \in [Id -> {"unused", "row", "gone"}]
  /\ extraction \in SUBSET Id
  /\ members \in [Id -> SUBSET File]
  /\ archive \in [Id -> {NoArchive} \cup SUBSET File]
  /\ req \in [Client -> Request]
  /\ \A x \in Client : req[x].pc = "fill" => req[x].todo # {}
  /\ asked \in [Client -> 0..MaxRequests]
  /\ faults \in 0..MaxFaults

Init ==
  /\ corpus = [c \in Id |-> "unused"]
  /\ extraction = {}
  /\ members = [c \in Id |-> {}]
  /\ archive = [c \in Id |-> NoArchive]
  /\ req = [x \in Client |-> Started("title", 1, {}, "idle")]
  /\ asked = [x \in Client |-> 0]
  /\ faults = 0

Rows == {c \in Id : corpus[c] = "row"}
Stored(c) == archive[c] # NoArchive

Set(x, r) == req' = [req EXCEPT ![x] = r]
Goto(x, pc) == Set(x, [req[x] EXCEPT !.pc = pc])
Answer(x, answer) == Set(x, [req[x] EXCEPT !.pc = "idle", !.answer = answer])

Fault == faults < MaxFaults /\ faults' = faults + 1

(***************************************************************************)
(* Requests.                                                               *)
(***************************************************************************)

\* A message or a command arrives, after a restart if the process had died.
Begin(x) ==
  /\ req[x].pc = "idle"
  /\ asked[x] < MaxRequests
  /\ asked' = [asked EXCEPT ![x] = @ + 1]
  /\ \/ \E batch \in SUBSET File :
          Set(x, Started("create", req[x].id, batch, "insert row"))
     \/ \E c \in Id, batch \in SUBSET File :
          Set(x, Started("add", c, batch, "select"))
     \/ \E c \in Id, op \in Operation \ {"create", "add"} :
          Set(x, Started(op, c, {}, "select"))
  /\ UNCHANGED <<tables, archive, faults>>

\* A query throws and the request is answered with an error.
Fail(x) ==
  /\ req[x].pc \notin {"idle", "check", "size"}
  /\ Answer(x, "error")
  /\ Fault
  /\ UNCHANGED <<tables, archive, asked>>

\* The process is killed.
Crash(x) ==
  /\ req[x].pc # "idle"
  /\ Answer(x, "error")
  /\ Fault
  /\ UNCHANGED <<tables, archive, asked>>

\* Corpus::insert: the row, then one row per file.
InsertRow(x) ==
  /\ req[x].pc = "insert row"
  /\ \E c \in Id :
       /\ corpus[c] = "unused"
       /\ \A d \in Id : d < c => corpus[d] # "unused"
       /\ corpus' = [corpus EXCEPT ![c] = "row"]
       /\ Set(x, IF req[x].batch = {}
                 THEN [req[x] EXCEPT !.id = c, !.pc = "idle", !.answer = "done"]
                 ELSE [req[x] EXCEPT !.id = c, !.pc = "insert"])
  /\ UNCHANGED <<extraction, members, archive, asked, faults>>

(***************************************************************************)
(* Loading: get_corpus_from_id, or get_all_corpuses for a list, and        *)
(* fill_from_statement for each row found.                                 *)
(***************************************************************************)

\* The rows, with their extraction_path as it is now.
Select(x) ==
  LET found == IF req[x].op = "list" THEN Rows ELSE Rows \cap {req[x].id} IN
  /\ req[x].pc = "select"
  /\ IF found # {}
     THEN Set(x, [req[x] EXCEPT !.pc = "fill", !.todo = found,
                                !.path = found \cap extraction])
     ELSE Answer(x, IF req[x].op = "list" THEN "done" ELSE "error")
  /\ UNCHANGED <<tables, archive, asked, faults>>

\* Fault: a path is believed without a look at the archive.
FillTrusting(x) ==
  /\ req[x].pc = "fill"
  /\ \E c \in req[x].todo : Set(x, [req[x] EXCEPT !.id = c, !.pc = "fetch"])
  /\ UNCHANGED <<tables, archive, asked, faults>>

\* Is the archive still there?
Fill(x) ==
  /\ req[x].pc = "fill"
  /\ \E c \in req[x].todo :
       Set(x, [req[x] EXCEPT
         !.id = c,
         !.pc = IF c \in req[x].path /\ ~Stored(c) THEN "null" ELSE "fetch"])
  /\ UNCHANGED <<tables, archive, asked, faults>>

\* Fault: the copy keeps its path.
SetNullInRow(x) ==
  /\ req[x].pc = "null"
  /\ extraction' = extraction \ {req[x].id}
  /\ Goto(x, "fetch")
  /\ UNCHANGED <<corpus, members, archive, asked, faults>>

\* It is not: set_extraction_path(nullopt), in the copy and in the row.
SetNull(x) ==
  /\ req[x].pc = "null"
  /\ extraction' = extraction \ {req[x].id}
  /\ Set(x, [req[x] EXCEPT !.pc = "fetch", !.path = @ \ {req[x].id}])
  /\ UNCHANGED <<corpus, members, archive, asked, faults>>

\* What follows once everything is loaded.  A list takes the sizes of its
\* archives; set_title has only its UPDATE left.
Loaded(r) ==
  CASE r.op = "add"    -> [r EXCEPT !.pc = "insert"]
    [] r.op = "export" -> [r EXCEPT !.pc = "check"]
    [] r.op = "delete" -> [r EXCEPT !.pc = "drop"]
    [] r.op = "list" /\ r.path # {} -> [r EXCEPT !.pc = "size", !.todo = r.path]
    [] OTHER -> [r EXCEPT !.pc = "idle", !.answer = "done"]

\* fetch_files
Fetch(x) ==
  LET r == [req[x] EXCEPT !.files = members[req[x].id],
                          !.todo = @ \ {req[x].id}]
  IN
  /\ req[x].pc = "fetch"
  /\ Set(x, IF r.todo = {} THEN Loaded(r) ELSE [r EXCEPT !.pc = "fill"])
  /\ UNCHANGED <<tables, archive, asked, faults>>

(***************************************************************************)
(* Adding files and deleting.                                              *)
(***************************************************************************)

\* After the last file a new corpus is done; an old one loses its archive.
AllInserted(r) ==
  IF r.op = "add" /\ r.id \in r.path
  THEN [r EXCEPT !.pc = "drop", !.files = @ \cup r.batch]
  ELSE [r EXCEPT !.pc = "idle", !.answer = "done"]

\* Fault: the row of a file does not have to refer to an existing corpus.
InsertUnreferenced(x) ==
  /\ req[x].pc = "insert"
  /\ \E f \in req[x].left :
       LET r == [req[x] EXCEPT !.left = @ \ {f}] IN
       /\ members' = [members EXCEPT ![r.id] = @ \cup {f}]
       /\ Set(x, IF r.left = {} THEN AllInserted(r) ELSE r)
  /\ UNCHANGED <<corpus, extraction, archive, asked, faults>>

\* Fault: the loop ends after the first file.
InsertFirst(x) ==
  /\ req[x].pc = "insert"
  /\ \E f \in req[x].left :
       LET r == [req[x] EXCEPT !.left = @ \ {f}] IN
       /\ members' = IF r.id \in Rows
                     THEN [members EXCEPT ![r.id] = @ \cup {f}] ELSE members
       /\ Set(x, AllInserted(r))
  /\ UNCHANGED <<corpus, extraction, archive, asked, faults>>

\* INSERT IGNORE INTO CorpusFiles: nothing happens when the row is there
\* already, or when the foreign key finds no corpus.
Insert(x) ==
  /\ req[x].pc = "insert"
  /\ \E f \in req[x].left :
       LET r == [req[x] EXCEPT !.left = @ \ {f}] IN
       /\ members' = IF r.id \in Rows
                     THEN [members EXCEPT ![r.id] = @ \cup {f}] ELSE members
       /\ Set(x, IF r.left = {} THEN AllInserted(r) ELSE r)
  /\ UNCHANGED <<corpus, extraction, archive, asked, faults>>

\* add_files with no files deletes a prep_stmt that was never assigned: the
\* process survives if the garbage is a null pointer.
InsertNothing(x) ==
  /\ req[x].pc = "insert"
  /\ req[x].left = {}
  /\ \/ Set(x, AllInserted(req[x]))
     \/ Answer(x, "died")
  /\ UNCHANGED <<tables, archive, asked, faults>>

\* Fault: the archive stays in the storage folder.
DropNothing(x) ==
  /\ req[x].pc = "drop"
  /\ IF req[x].op = "delete" THEN Goto(x, "delete row") ELSE Answer(x, "done")
  /\ UNCHANGED <<tables, archive, asked, faults>>

\* delete_associated_extraction.  An archive that is not there any more is an
\* exception, which ends both operations; for ManagerRequest::delete_corpus
\* that is no error.
Drop(x) ==
  LET r == req[x]
      missing == r.id \in r.path /\ ~Stored(r.id)
  IN
  /\ r.pc = "drop"
  /\ CASE missing /\ r.op = "delete" -> Answer(x, "done")
       [] missing /\ r.op = "add" -> Answer(x, "error")
       [] ~missing /\ r.op = "delete" -> Goto(x, "delete row")
       [] ~missing /\ r.op = "add" -> Answer(x, "done")
  /\ archive' = IF r.id \in r.path
                THEN [archive EXCEPT ![r.id] = NoArchive] ELSE archive
  /\ UNCHANGED <<tables, asked, faults>>

\* DELETE FROM Corpus, which cascades to CorpusFiles.
DeleteRow(x) ==
  LET c == req[x].id IN
  /\ req[x].pc = "delete row"
  /\ corpus' = [corpus EXCEPT ![c] = "gone"]
  /\ members' = [members EXCEPT ![c] = {}]
  /\ extraction' = extraction \ {c}
  /\ Answer(x, "done")
  /\ UNCHANGED <<archive, asked, faults>>

(***************************************************************************)
(* Exporting.                                                              *)
(***************************************************************************)

\* export_: an archive that is there is taken as it is.
Check(x) ==
  /\ req[x].pc = "check"
  /\ Goto(x, IF req[x].id \in req[x].path /\ Stored(req[x].id)
             THEN "size" ELSE "zip")
  /\ UNCHANGED <<tables, archive, asked, faults>>

\* zip_open with ZIP_EXCL.  An archive that exists is left alone and its name
\* returned.  zip_open assigns "error" only when it fails, so an uninitialised
\* value can be read as "it exists".  The metadata of no files at all takes a
\* character off an empty string, which kills the process.
ZipOpen(x) ==
  /\ req[x].pc = "zip"
  /\ \/ Goto(x, "set path")
     \/ ~Stored(req[x].id) /\ req[x].files # {} /\ Goto(x, "close")
     \/ ~Stored(req[x].id) /\ req[x].files = {} /\ Answer(x, "died")
  /\ UNCHANGED <<tables, archive, asked, faults>>

\* zip_close writes the archive; that it fails is not noticed.
ZipClose(x) ==
  /\ req[x].pc = "close"
  /\ Goto(x, "set path")
  /\ \/ /\ archive' = [archive EXCEPT ![req[x].id] = req[x].files]
        /\ UNCHANGED faults
     \/ UNCHANGED archive /\ Fault
  /\ UNCHANGED <<tables, asked>>

\* Fault: the path is set in the copy only.
SetPathInCopy(x) ==
  /\ req[x].pc = "set path"
  /\ Set(x, [req[x] EXCEPT !.pc = "size", !.path = @ \cup {req[x].id}])
  /\ UNCHANGED <<tables, archive, asked, faults>>

\* set_extraction_path; the UPDATE finds no row of a deleted corpus.
SetPath(x) ==
  /\ req[x].pc = "set path"
  /\ extraction' = extraction \cup ({req[x].id} \cap Rows)
  /\ Set(x, [req[x] EXCEPT !.pc = "size", !.path = @ \cup {req[x].id}])
  /\ UNCHANGED <<corpus, members, archive, asked, faults>>

\* get_extraction_size, once for an export and for each archive of a list; it
\* throws when the archive is not there.
Size(x) ==
  LET r == req[x] IN
  /\ r.pc = "size"
  /\ \E c \in IF r.op = "export" THEN {r.id} ELSE r.todo :
       IF ~Stored(c) THEN Answer(x, "error")
       ELSE IF r.todo \subseteq {c} THEN Answer(x, "done")
       ELSE Set(x, [r EXCEPT !.todo = @ \ {c}])
  /\ UNCHANGED <<tables, archive, asked, faults>>

Step(x) ==
  \/ InsertRow(x)
  \/ Select(x)
  \/ Fill(x)
  \/ SetNull(x)
  \/ Fetch(x)
  \/ Insert(x)
  \/ InsertNothing(x)
  \/ Drop(x)
  \/ DeleteRow(x)
  \/ Check(x)
  \/ ZipOpen(x)
  \/ ZipClose(x)
  \/ SetPath(x)
  \/ Size(x)

Next == \E x \in Client : Begin(x) \/ Step(x) \/ Fail(x) \/ Crash(x)

Spec == Init /\ [][Next]_vars

-----------------------------------------------------------------------------
Idle(x) == req[x].pc = "idle"
Answered(x, op) == Idle(x) /\ req[x].op = op /\ req[x].answer = "done"
Quiet == \A x \in Client : Idle(x)

\* "@param files list of files to put into the exported archive"
\* (engine/include/storage/export_method.h:41): the archive an export is
\* answered with holds the files the corpus had, no older ones.
ExportHoldsFiles ==
  \A x \in Client : Answered(x, "export") => archive[req[x].id] = req[x].files

\* As long as no request has failed, one process alone keeps archives up to
\* date: adding files leaves none behind that a later export could return.
CurrentUntilFailure == faults = 0 => ExportHoldsFiles

\* ... and between its requests no archive stays behind without a corpus.  Ids
\* are not used again, so nothing would ever remove it.
NoOrphanUntilFailure ==
  faults = 0 /\ Quiet => \A c \in Id : Stored(c) => corpus[c] = "row"

\* "Corpus # was deleted from DB, but the supposed existing extracted archive
\* wasn't found" is logged, and the request answered, when the archive is
\* missing (ManagerRequest.cpp:214): a deletion that is answered has deleted
\* the row.
DeleteDeletes ==
  \A x \in Client : Answered(x, "delete") => corpus[req[x].id] # "row"

\* Corpus::get_extraction_size throws for an archive that is not there.  With
\* one process that never spoils a list of corpuses, whatever an earlier failure
\* or crash left behind: what a copy calls its archive exists to the end.
ListsEndWell ==
  [][\A x \in Client :
       req[x].pc = "size" /\ req[x].op = "list" /\ UNCHANGED faults
         => req'[x].answer # "error"]_vars

\* The rows of CorpusFiles always have their corpus, whoever deletes it while
\* somebody adds to it.
NoOrphanMembers == \A c \in Id : corpus[c] # "row" => members[c] = {}

\* What create_corpus or add_to_corpus was answered for is in the corpus as
\* long as it exists, whatever the others do.
AddedIsThere ==
  \A x \in Client :
    /\ Answered(x, "add") \/ Answered(x, "create")
    /\ corpus[req[x].id] = "row"
    => req[x].batch \subseteq members[req[x].id]

\* "Export a corpus to a ZIP (if necessary) and returns the relative path to it"
\* (server/include/server/server_handler.h:166): no export kills its process.
ExportsSurvive ==
  \A x \in Client : req[x].op = "export" => req[x].answer # "died"
=============================================================================
