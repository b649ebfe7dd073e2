-------------------------------- MODULE Exports --------------------------------
(***************************************************************************)
(* ZipExport: all threads of a process share one object, with the handle   *)
(* of the archive that is open (_corpus), and all processes the file       *)
(* metadata.csv beside the archives, which libzip reads when the archive   *)
(* is closed.                                                              *)
(*                                                                         *)
(* "alone", "own", "wrote" and "failed" are history.                       *)
(***************************************************************************)
EXTENDS Naturals, FiniteSets

CONSTANTS Exporter,    \* threads that export
          HostOf,      \* the process of a thread
          Corpus,      \* corpora, each with the name of its archive
          FilesOf,     \* the files of a corpus
          Absent,      \* no file, no handle
          Blank,       \* an empty metadata.csv
          MaxExports,  \* bound: exports
          MaxFaults    \* bound: exports that fail, archives removed

ASSUME ExportAssumption ==
  /\ Absent \notin Exporter /\ Absent \notin Corpus /\ Absent # Blank
  /\ MaxExports \in Nat /\ MaxFaults \in Nat

Host == {HostOf[t] : t \in Exporter}
File == UNION {FilesOf[c] : c \in Corpus}

VARIABLES
  archive,  \* archive[c]: what the archive of corpus c holds, or Absent
  csv,      \* whose metadata metadata.csv holds, Blank or Absent
  streams,  \* the threads whose open stream is on metadata.csv as it is now
  current,  \* current[p]: _corpus of process p: the thread that opened it, or Absent
  zip,      \* zip[t]: the handle thread t opened: its archive and entries
  job,      \* job[t]: the export of thread t
  done,     \* exports and faults so far
  failed    \* whether an export ended with an exception

exportVars == <<archive, csv, streams, current, zip, job, done, failed>>

NoZip == [corpus |-> Absent, files |-> {}, meta |-> FALSE, open |-> FALSE]
NoJob == [pc |-> "idle", corpus |-> Absent, todo |-> {}, alone |-> TRUE, own |-> TRUE,
          wrote |-> Absent]
Content == [files : SUBSET File, meta : Corpus \cup {Absent, Blank}]
Zip == [corpus : Corpus \cup {Absent}, files : SUBSET File, meta : BOOLEAN, open : BOOLEAN]
Job == [pc : {"idle", "open", "csv", "fill", "meta", "add", "close", "remove", "end", "dead"},
        corpus : Corpus \cup {Absent}, todo : SUBSET File, alone : BOOLEAN, own : BOOLEAN,
        wrote : Content \cup {Absent}]

ExportTypeOK ==
  /\ archive \in [Corpus -> Content \cup {Absent}]
  /\ csv \in Corpus \cup {Absent, Blank} /\ streams \subseteq Exporter
  /\ current \in [Host -> Exporter \cup {Absent}]
  /\ zip \in [Exporter -> Zip] /\ job \in [Exporter -> Job]
  /\ \A t \in Exporter : /\ zip[t].open => zip[t].corpus \in Corpus
                         /\ job[t].pc \notin {"idle", "dead"} => job[t].corpus \in Corpus
  /\ done \in [exports : 0..MaxExports, faults : 0..MaxFaults]
  /\ failed \in BOOLEAN

Active == {t \in Exporter : job[t].pc \notin {"idle", "dead"}}

ExportInit ==
  /\ archive = [c \in Corpus |-> Absent]
  /\ csv = Absent /\ streams = {}
  /\ current = [p \in Host |-> Absent]
  /\ zip = [t \in Exporter |-> NoZip]
  /\ job = [t \in Exporter |-> NoJob]
  /\ done = [exports |-> 0, faults |-> 0]
  /\ failed = FALSE

Step(t, pc, r) ==
  /\ job[t].pc = pc
  /\ job' = [job EXCEPT ![t] = r]
  /\ UNCHANGED <<done, failed>>

To(t, pc) == [job[t] EXCEPT !.pc = pc]
Handle(t) == current[HostOf[t]]

Begin(t, c) ==
  /\ job[t].pc = "idle"
  /\ done.exports < MaxExports /\ done' = [done EXCEPT !.exports = @ + 1]
  /\ LET beside(u) == HostOf[u] = HostOf[t]
     IN job' = [u \in Exporter |->
          IF u = t THEN [NoJob EXCEPT !.pc = "open", !.corpus = c, !.todo = FilesOf[c],
                           !.alone = Active = {}, !.own = ~\E v \in Active : beside(v)]
          ELSE IF u \in Active THEN [job[u] EXCEPT !.alone = FALSE, !.own = @ /\ ~beside(u)]
          ELSE job[u]]
  /\ UNCHANGED <<archive, csv, streams, current, zip, failed>>

\* Fault: the handle of an earlier export is used again.
OpenAgain(t) ==
  /\ Step(t, "open", To(t, "csv"))
  /\ current' = IF Handle(t) = Absent THEN [current EXCEPT ![HostOf[t]] = t] ELSE current
  /\ zip' = IF Handle(t) = Absent
            THEN [zip EXCEPT ![t] = [NoZip EXCEPT !.corpus = job[t].corpus, !.open = TRUE]] ELSE zip
  /\ UNCHANGED <<archive, csv, streams>>

\* zip_open with ZIP_EXCL.  "error" is set only when it fails, and read always:
\* what it holds may by chance be ZIP_ER_EXISTS.
Open(t) ==
  /\ job[t].pc = "open"
  /\ LET new == archive[job[t].corpus] = Absent
     IN /\ \/ new /\ Step(t, "open", To(t, "csv"))
           \/ Step(t, "open", To(t, "end"))
        /\ current' = [current EXCEPT ![HostOf[t]] = IF new THEN t ELSE Absent]
        /\ zip' = IF new
                  THEN [zip EXCEPT ![t] = [NoZip EXCEPT !.corpus = job[t].corpus, !.open = TRUE]]
                  ELSE zip
  /\ UNCHANGED <<archive, csv, streams>>

(***************************************************************************)
(* add_metadata                                                            *)
(***************************************************************************)
\* The file is opened, which empties it, before its content is made up.
OpenCsv(t) ==
  /\ Step(t, "csv", To(t, "fill"))
  /\ csv' = Blank /\ streams' = streams \cup {t}
  /\ UNCHANGED <<archive, current, zip>>

\* What is written to a file that was removed since is lost with it, also when
\* another export has made a new one.
FillCsv(t) ==
  /\ Step(t, "fill", To(t, "meta"))
  /\ csv' = IF t \in streams THEN job[t].corpus ELSE csv
  /\ streams' = streams \ {t}
  /\ UNCHANGED <<archive, current, zip>>

\* get_api throws: the factory does not know the API of a file (any more).
FillFails(t) ==
  /\ job[t].pc = "fill"
  /\ done.faults < MaxFaults /\ done' = [done EXCEPT !.faults = @ + 1]
  /\ job' = [job EXCEPT ![t] = NoJob]
  /\ streams' = streams \ {t} /\ failed' = TRUE
  /\ UNCHANGED <<archive, csv, current, zip>>

\* zip_file_add and zip_close do nothing without a handle; with one that has
\* been closed, nothing or the end of the process.
Using(t, add) ==
  LET h == Handle(t) IN IF h # Absent /\ zip[h].open THEN add ELSE UNCHANGED zip

UseClosed(t) ==
  /\ job[t].pc \in {"meta", "add", "close"}
  /\ Handle(t) # Absent /\ ~zip[Handle(t)].open
  /\ job' = [u \in Exporter |-> IF HostOf[u] = HostOf[t] THEN [NoJob EXCEPT !.pc = "dead"] ELSE job[u]]
  /\ streams' = {u \in streams : HostOf[u] # HostOf[t]} /\ failed' = TRUE
  /\ UNCHANGED <<archive, csv, current, zip, done>>

AddMetadata(t) ==
  /\ Step(t, "meta", To(t, "add"))
  /\ Using(t, zip' = [zip EXCEPT ![Handle(t)].meta = TRUE])
  /\ UNCHANGED <<archive, csv, streams, current>>

\* Fault: metadata.csv is removed before the archive is closed.
AddFileRemoves(t) ==
  /\ \/ \E f \in job[t].todo :
          /\ Step(t, "add", [job[t] EXCEPT !.todo = @ \ {f}])
          /\ Using(t, zip' = [zip EXCEPT ![Handle(t)].files = @ \cup {f}])
          /\ UNCHANGED <<csv, streams>>
     \/ /\ job[t].todo = {} /\ Step(t, "add", To(t, "close"))
        /\ csv' = Absent /\ streams' = {} /\ UNCHANGED zip
  /\ UNCHANGED <<archive, current>>

AddFile(t) ==
  /\ \/ \E f \in job[t].todo :
          /\ Step(t, "add", [job[t] EXCEPT !.todo = @ \ {f}])
          /\ Using(t, zip' = [zip EXCEPT ![Handle(t)].files = @ \cup {f}])
     \/ job[t].todo = {} /\ Step(t, "add", To(t, "close")) /\ UNCHANGED zip
  /\ UNCHANGED <<archive, csv, streams, current>>

\* zip_close reads the files and writes the archive; it writes nothing when
\* metadata.csv is gone.
Close(t) ==
  /\ job[t].pc = "close"
  /\ LET h == Handle(t)
         content == [files |-> zip[h].files, meta |-> IF zip[h].meta THEN csv ELSE Absent]
     IN IF h # Absent /\ zip[h].open /\ (zip[h].meta => csv # Absent)
        THEN /\ Step(t, "close", [To(t, "remove") EXCEPT !.wrote = content])
             /\ archive' = [archive EXCEPT ![zip[h].corpus] = content]
             /\ zip' = [zip EXCEPT ![h] = NoZip]
        ELSE Step(t, "close", To(t, "remove")) /\ UNCHANGED <<archive, zip>>
  /\ UNCHANGED <<csv, streams, current>>

\* Fault: only an export that has written its archive removes the file.
RemoveCsvIfWritten(t) ==
  /\ Step(t, "remove", To(t, "end"))
  /\ csv' = IF job[t].wrote = Absent THEN csv ELSE Absent
  /\ streams' = IF job[t].wrote = Absent THEN streams ELSE {}
  /\ UNCHANGED <<archive, current, zip>>

RemoveCsv(t) ==
  /\ Step(t, "remove", To(t, "end"))
  /\ csv' = Absent /\ streams' = {}
  /\ UNCHANGED <<archive, current, zip>>

End(t) ==
  /\ Step(t, "end", NoJob)
  /\ UNCHANGED <<archive, csv, streams, current, zip>>

\* Corpus::delete_extraction, by any process.
RemoveArchive(c) ==
  /\ archive[c] # Absent /\ done.faults < MaxFaults
  /\ done' = [done EXCEPT !.faults = @ + 1]
  /\ archive' = [archive EXCEPT ![c] = Absent]
  /\ UNCHANGED <<csv, streams, current, zip, job, failed>>

ExportNext ==
  \/ \E t \in Exporter :
       \/ \E c \in Corpus : Begin(t, c)
       \/ Open(t) \/ OpenCsv(t) \/ FillCsv(t) \/ FillFails(t) \/ UseClosed(t)
       \/ AddMetadata(t) \/ AddFile(t) \/ Close(t) \/ RemoveCsv(t) \/ End(t)
  \/ \E c \in Corpus : RemoveArchive(c)

ExportSpec == ExportInit /\ [][ExportNext]_exportVars

(***************************************************************************)
(* Properties                                                              *)
(***************************************************************************)
\* compressed_export: an export that met no other leaves an archive with the
\* files of the corpus and its metadata, whatever earlier exports left behind.
AloneIsComplete ==
  \A t \in Exporter : LET r == job[t] IN
    r.pc = "remove" /\ r.alone
      => /\ r.wrote = [files |-> FilesOf[r.corpus], meta |-> r.corpus]
         /\ archive[r.corpus] \in {r.wrote, Absent}

\* Exports of different processes disturb each other's metadata and nothing
\* else: what is written by the only export of a process at the time holds the
\* files of its corpus.
FilesAreOwn ==
  \A t \in Exporter : LET r == job[t] IN
    r.pc = "remove" /\ r.own /\ r.wrote # Absent => r.wrote.files = FilesOf[r.corpus]

\* However exports overlap, the last one to end leaves no metadata.csv.
NoCsvLeft == Active = {} /\ ~failed => csv = Absent
================================================================================
