# A verification development for Corpus Harvester

Corpus Harvester downloads files (texts and images) from web APIs, indexes them
in a MySQL database, stores them on disk, groups them in corpuses and exports a
corpus as a zip archive.  An *engine* library does the work; a WebSocket
*server* and a command line *cli* are two programs on top of it.  They run
against the same database and the same storage folder.

This directory holds TLA+ models of the engine's state machines, the TLC
configurations that check them on small instances and the TLAPS proofs about
them.  Source locations are given relative to the repository's root.

## 1. Inventory

### Components, state and operations

| Component | State | Operations |
|---|---|---|
| **PoolDB** `engine/src/database/pool_db.cpp` | queue of idle connections, set of lent ones, one mutex | `init`, `open_pool`, `close_pool`, `borrow_from_pool`, `unborrow_from_pool`, `create`, `drop` |
| **Setting / DatabaseItem** `engine/src/database/setting.cpp` | rows of table `Setting` | constructor by name, `insert`, `update`, `init_settings` |
| **Logger** `engine/src/utils/logger.cpp` | initialised flag, level, output, path, backlog | `start`, `stop`, `print_log`, the setters, `save_to_db` |
| **ApiFactory** `engine/src/download/api_factory.cpp` | static map of loaded API descriptions | `init`, `discover_from_path`, `get_api` |
| **api_loader, api_parameter, response_item** `engine/src/download/` | one API description | `query_and_parse`, validation and conversion of parameters, response parsing |
| **download_item, download_manager** `engine/src/download/` | curl handles | HTTP requests |
| **ApiRequestBuilder** `engine/src/utils/api_request_builder.cpp` | list of requests, `_latest_build` | `add_request`, `add_request_parameter`, `clear_all`, `get_usable_requests` |
| **ApiDownloadBuilder** `engine/src/download/api_download_builder.cpp` | the above, a local page counter per request | `build`: query, drop known items, store, insert, next page |
| **ApiDatabaseBuilder, SearchBuilder** `engine/src/indexation/` | query being assembled | `build`: SQL over files and tags, ordering and paging |
| **File, Tag** `engine/src/indexation/` | rows of `File`, `Tag` | `api_id_exists`, `insert`, `fetch_tags` |
| **Corpus** `engine/src/indexation/corpus.cpp` | rows of `Corpus`, `CorpusFiles`; a copy per handler | `insert`, `add_files`, `fill_from_statement`, `export_`, `delete_`, `set_extraction_path` |
| **Storage** `engine/src/storage/storage.cpp` | the folder tree under the root named by a setting | `store_files`, `migrate`, `delete_corpus`, `init_root` |
| **ExportMethod, ZipExport** `engine/src/storage/` | one shared exporter: zip handle, `metadata.csv` | `compressed_export`, `add_metadata` |
| **ManagerRequest** `engine/src/api/ManagerRequest.cpp` | two builders per connection | a facade over all of the above |
| **WebsocketServer, server_handler** `server/src/server/` | map of connections, file server thread | `on_open`, `on_close`, `on_message` (a detached thread per message), `restart_file_server` |
| **cli, cli_parser** `cli/`, `engine/src/utils/cli_parser.cpp` | command tree | parsing, then one facade call |

### How the components interact

- The server's `main` retries `PoolDB::init` until MySQL answers, starts the
  logger, loads the APIs and then runs the WebSocket server.  Every message is
  handled by a detached thread of its own; the thread calls `server_handler`,
  which calls `ManagerRequest`.  The cli is a separate process that makes one
  call of `ManagerRequest` per command.
- What threads share inside a process: the pool (under one mutex), the static
  map of APIs, the exporter object, the logger, the settings, the map of
  connections (under a lock on some paths only) and, for messages of the same
  connection, the two builders in its `ConnectionData`.
- What processes share: the MySQL tables and the storage folder.  No operation
  uses a transaction, and no lock spans two statements.  Integrity comes from
  the foreign keys (`CorpusFiles` and `Tag` cascade), `INSERT IGNORE` and the
  order in which statements are issued.
- Errors are exceptions.  They unwind to `ManagerRequest` (which swallows some),
  to the message loop (which answers with an error) or to the retry loop in
  `main`.  A connection held by an unwound frame is never given back explicitly.

### What is hard, and what correctness means

| Component | Hard behaviour | What makes it correct |
|---|---|---|
| PoolDB | connections forgotten by exceptions and early returns; growth; the retried `init` | one user per connection; nothing lost; no growth without need; `init` never disturbs a user |
| ApiDownloadBuilder | check, store and insert are separate steps; erasing while iterating; termination depends on what APIs list; crashes and concurrent builds | a row implies a file; no id indexed twice; nothing new skipped; the build ends |
| Corpus and its archive | a handler works on a copy; the row, the archive and the path are changed one by one; crashes and concurrent handlers | an export holds the corpus's files; deletions delete; no archive or membership outlives its corpus |
| ZipExport | one handle and one metadata file for all threads | each archive gets its own files and metadata |
| Storage | folder rename and setting are two steps | the setting names the folder that holds the files |
| WebsocketServer | detached threads, unlocked reads of the map, log lines that are sent to clients, restart of the file server | messages are answered with their own results; clients know the present state; a restart ends |
| Logger, Setting, table creation | a start that fails half way and is retried in the same process; two processes on one empty database; a setting lives in memory, in a copy of its row and in the row | the tables are completed; a saved setting is what the next start finds; a start ends unless its tables are abandoned |
| ApiFactory, download_manager | `discover_from_path` clears and refills the map others read; the curl handle keeps its options | after a refresh the map is what the folder holds; nothing of an earlier request is sent again |
| ApiDatabaseBuilder, cli_parser | pure, many combinations; paging while rows are inserted | agreement with what the arguments mean; no row on two pages |

`PROJECT.json` lists every hazard with its line, with the property that covers it
and, where that is only a part of it or none, with what is left open.

## 2. Plan

The order is by how much depends on the component and how hard it is to test.

| # | Module | Composes / refines | Status |
|---|---|---|---|
| 1 | `PoolDB` | refines `ConnectionLease` | done, proved |
| 2 | `DownloadBuild` | `ApiDownloadBuilder`, `File`, `Tag`, `Storage::store_files` | done, proved but for its liveness |
| 3 | `CorpusStore` | `Corpus`, `ZipExport` (one per process), `ManagerRequest` | done, proved |
| 4 | `StorageRoot` | `Setting`, `Storage`, the file server and its restart; refines `AtomicRoot` | done, proved but for its liveness |
| 5 | `Sessions` | `WebsocketServer`, `server_handler`, `ApiRequestBuilder`: connections, threads, shared builders | done, proved but for its liveness |
| 6 | `Startup` | `PoolDB::init` and `create`, `Setting`, `Logger`, the retry loop of `main` | done, proved but for its liveness |
| 7 | `ApiQueries` | `ApiFactory`, `download_manager` | done, proved |
| 8 | `Exports` | threads and processes sharing the exporter and `metadata.csv`, below `CorpusStore`'s `ZipOpen` and `ZipClose` | done, proved |
| 9 | `CommandLine`, `FileSearch` | `cli_parser` and the tree of commands; from there to `ManagerRequest` and `ApiDatabaseBuilder` | done, proved |
| 10 | a corpus store without archives | `CorpusStore` with one process and no failure would refine it | left |
| 11 | `api_parameter`, the parsing of schemas and responses | pure | left |

Theorems left: the abstract corpus store of line 10, as a refinement.  Every
safety property that a run finds to hold is proved.

## 3. Modules

A definition whose comment begins with **Fault:** is not part of any model.  It
is a plausible wrong variant of the definition that follows it, and
`PROJECT.json` ("mutants") says which property must then fail.  Every property
of a passing run has one.

### PoolDB and ConnectionLease

| TLA+ | Code |
|---|---|
| `available`, `borrowed` | `_available_pool`, `_borrowed_pool` |
| `handles[c]` | the `shared_ptr`s on the stack of thread `c`; `use_count() == 1` is `k \notin Held` |
| `live` | sessions open on the MySQL server |
| `phase` | the position in `PoolDB::init` and in `main`'s retry loop |
| `BorrowAvailable`, `BorrowReclaimed`, `BorrowNew`, `BorrowFails` | the four ways through `borrow_from_pool` |
| `Unborrow` | `unborrow_from_pool` |
| `Throw`, `ReturnEarly` | a user that forgets its connections |

All pool operations hold `_pool_mut` throughout, so each is one action.
`ConnectionLease` forgets the queue, the set and the counts: it says that a
connection has one user and that the pool grows only if all connections are in
use.  The refinement mapping is `pool <- Owned` (queued or lent) and
`leases <- LeaseSet` (who holds what).

### DownloadBuild

| TLA+ | Code |
|---|---|
| `rows` | table `File` joined with the `_api_id` tag (`tagged`) |
| `disk`, `lost` | files written, and files whose write failed silently in `File::store` |
| `build[x]` | the locals of `build()` and `_latest_build`; `pc` names the next external access |
| `Start` | the beginning of `build()`, with the default page of `Paged` APIs |
| `Query`, `Abort` | one request: `query_and_parse`, or the exception that ends the build |
| `Check` | one `api_id_exists` of the filter loop |
| `Store` | one file of `Storage::store_files` |
| `InsertCheck`, `InsertRow`, `InsertTags` | `File::insert`, statement by statement, each with its exception |
| `NextRequest`, `Erased`, `EndRound` | the request iterator, `erase`, and the `while` condition |
| `Crash` | the process is killed |

`asked`, `seen` and `clean` are history: no action reads them to decide what to
do.  APIs and their listings are data (`Catalog`) and do not change during a
behaviour.  Files get the next unused number for a name: the code draws random
names, and that two of them coincide is left out.

### CorpusStore

| TLA+ | Code |
|---|---|
| `corpus`, `extraction`, `members` | tables `Corpus` (with `extraction_path`) and `CorpusFiles` |
| `archive` | zip files in the storage folder, by what they hold |
| `req[x]` | the request process `x` handles, and its copy of the `Corpus` object |
| `Select`, `Fill`, `SetNull`, `Fetch` | `get_corpus_from_id` or `get_all_corpuses`, and `fill_from_statement` |
| `InsertRow`, `Insert`, `InsertNothing` | `Corpus::insert`, `add_files` |
| `Drop`, `DeleteRow` | `delete_associated_extraction`, `delete_` |
| `Check`, `ZipOpen`, `ZipClose`, `SetPath`, `Size` | `export_`, `compressed_export`, `set_extraction_path`, `get_extraction_size` |
| `Fail`, `Crash` | a query that throws, a killed process |

`ZipOpen` includes two cases of undefined behaviour as choices: `zip_open`
leaves `error` uninitialised when it succeeds, and the metadata header of no
files takes a character off an empty string.  So does `InsertNothing`, where
`add_files` deletes a pointer that was never assigned.

`Exports` looks at the same exporter from the other side: no tables, but several
threads in it at once.

### StorageRoot and AtomicRoot

| TLA+ | Code |
|---|---|
| `setting` | the row `storage_root` |
| `disk` | pairs of a root folder and a file, a folder below `download/` or the folder of archives |
| `req[h]` | the message a thread handles and the `_root` its `Storage` object copied |
| `worker[g]`, `thread` | the threads that ran `run_file_server`, and `_file_server_thread` |
| `fileServer`, `ended` | `_file_server`, and the servers told to terminate |
| `Open`, `InitRoot`, `InitCorpus` | constructor of `Storage`, `init_root` |
| `LookFolder`, `MakeFolder`, `Write` | `file_destination` and `store_file`, in the steps another thread can come between |
| `CheckFree`, `Rename`, `Update` | `migrate`: the new name is free, `rename`, the setting |
| `Terminate`, `Join`, `Spawn` | `restart_file_server` |
| `MakeServer`, `WorkerOpen`, `WorkerInit`, `ServeEnds` | `run_file_server` |
| `Fail`, `Crash` | an exception of MySQL or the file system, a killed process |

`calm` turns false when something happens the code has no answer to (a
migration stopped or overtaken between rename and update, an old copy of the root
used after the move).  `AtomicRoot` says what is promised until then: one folder,
which moves in one step with all it holds.  The mapping takes as `root` the
setting, or the new name while a migration has renamed and not yet updated.

### Sessions

| TLA+ | Code |
|---|---|
| `sockets`, `closing` | `_websockets`; connections whose client has left and for which `on_close` has not run |
| `asio`, `about` | the log line the asio thread is in (by its depth) and whose event it is |
| `requests[c]`, `latest[c]` | the `ApiDownloadBuilder` in the `ConnectionData` of `c` |
| `state`, `view[c]` | what all clients see of the server, and what client `c` last heard |
| `missed` | history: connections that have heard nothing since a change was made and not broadcast |
| `req[h]` | a detached thread and the message it handles |
| `OnOpen`, `OnClose`, `OnMessage`, `ClientCloses` | the handlers of websocketpp, and the client |
| `AsioLog`, `HandlerLog` | `BroadcastLogOutput` and the line `send_msg` logs when it fails |
| `Clear`, `AddRequest`, `AddBroken`, `AddParameter`, `Build`, `BuildFails`, `Copy` | `api_builder_query` through `ManagerRequest` |
| `AddBuild` | `add_build_to_corpus` |
| `Set`, `Read`, `Cast`, `Hears`, `Reply` | an update that is broadcast, and the answer |
| `SetFails`, `ReadFails` | a change that throws, perhaps after it took effect, and a state that cannot be read back: an error is answered and nothing broadcast |

The builder's list and the map of connections are used by several threads
without a lock.  The model lets the process die, or the overlapping messages
have either result, where the code's behaviour is undefined; that is why the
properties speak of messages that are `alone` on their connection.  A send to a
connection that is closing logs a line that is sent there, too: `Cast` and
`Reply` wait for `OnClose` or let the process die.

### Startup

| TLA+ | Code |
|---|---|
| `tables`, `row` | the CREATE statements that took effect; the rows of `Setting` |
| `proc[p]` | where a process is in `PoolDB::init` and `logger::start`; `mem` and `copy` are the logger's members and its `Setting` objects |
| `lost[p]` | history: settings whose change failed in `p` before the row had it |
| `call[t]` | a thread in one of the logger's setters |
| `Open`, `Empty`, `Create`, `Check`, `Insert` | `open_pool` (with `close_pool`, which stops the logger), `empty`, `create`, `init_settings` |
| `StartLogger`, `Load`, `Apply`, `Replay` | `logger::start` |
| `Set`, `Save`, `Bind`, `Execute` | a setter and `save_to_db`, setting by setting |
| `SqlFails`, `UpdateFails`, `Stop`, `FolderGone` | errors, a process that ends, a log folder that disappears |

### ApiQueries and Exports

| TLA+ | Code |
|---|---|
| `folder`, `rooted` | valid schemas in the folder of the setting, and whether the folder is there |
| `apis`, `has` | `ApiFactory::_apis` |
| `Refresh`, `List`, `Load` | `refresh_apis`, `discover_from_path` |
| `Query`, `Find`, `Refuse` | `get_api` and the exception for an unknown name |
| `SetUrl`, `SetHeaders`, `Send`, `Answer` | `download_manager::download` and the options it leaves in the handle |
| `archive`, `csv`, `current`, `zip` | the archives, `metadata.csv`, `_corpus` of the process's exporter, and the libzip handles |
| `streams` | the threads whose `ofstream` is on `metadata.csv` as it is now: one opened before the file was removed writes to nobody |
| `Begin`, `Open`, `OpenCsv`, `FillCsv`, `AddMetadata`, `AddFile`, `Close`, `RemoveCsv`, `End` | `compressed_export`, call by call |

The two have no state in common.  `MCServices` extends both and runs one or the
other.

### CommandLine and FileSearch

| TLA+ | Code |
|---|---|
| `args`, `parsed` | `argv`; the result of `cli_parser` with the arguments it has still to read (`left`) |
| `GiveHelp`, `EnterCommand`, `EnterOptions`, `RefuseCommand` | one call of `parse`, which calls itself on the arguments after the command |
| `TakeFlag`, `TakeString`, `TakeOther`, `RefuseOption`, `EndOptions` | one turn of the loop of `parse_terminal`, and its end |
| `ParseArgs`, `FilesList`, `CorpusCreate`, `WebDownload`, `Elsewhere` | the command that was found and the options it reads |
| `cursor`, `source`, `requests` | `it_param`, `current_source` and the builder's `_requests` |
| `AddRequest`, `AddRequestParameter`, `PassOver`, `ScanDone` | `ManagerRequest`'s loop over the unspecified inputs |
| `Build`, `BuildNothing`, `NextPage` | `ApiDatabaseBuilder::build`, and the same search with the next page |
| `StoreFile`, `StoreTags` | another process that indexes files |

`CommandLine` is the tree of commands and `cli_parser`, and `MeansWhatItSays` is
a definition of the grammar that mentions neither the calls nor the loop; of a
line with `-h` among its options it claims nothing.  In `FileSearch` the parsed options become requests (`AddRequest`,
`AddRequestParameter`, `PassOver`), the requests a query (`Usable`, `Select`,
`Limit`, `Build`), and the answer a page, while `StoreFile` and `StoreTags` let
another process index files.  `Meant` and `MeantBy` say what the arguments mean
without going through requests, `Found` which of these files are tagged yet.  `shown` is history: the pages of a search, one
after the other.  Numbers of rows and pages are taken modulo
`Width`, as the `unsigned int`s of the code are.

## 4. Runs

| Run | Question | Bounds |
|---|---|---|
| `pool` | exclusion, partition, boundedness, refinement of the pool | 2 threads, pool of 2, 5 connections, 2 at once per thread |
| `build` | one builder: types and iterators, no duplicates, nothing skipped, builds over paged APIs end | 2 builds, 2 APIs, 3 items, 2 faults |
| `build_two` | two builders: rows have files, the number is respected | 1 build each, 1 fault |
| `corpus` | one process: archives current and not orphaned until the first failure; deletions delete and lists are answered after any failure | 2 ids, 2 files, 5 requests, 2 faults |
| `corpus_two` | two processes: memberships and additions survive interleavings | 1 id, 2 files, 3 requests each |
| `storage` | files stay below one root that moves in one step; no step loses a file; the file server serves the root of the setting; a restart ends | 2 handlers, 3 paths, 2 files in one folder, 3 requests, 1 fault |
| `sessions` | answers are the message's own; clients know the present state; closing is safe; messages are answered unless a build or a change goes on for ever | 2 connections, one of which may leave, 2 threads, 1 failed build, change or read; messages weighted up to 6 (2 for a query or an addition, 3 for the others): three queries or two changes |
| `startup` | tables are completed; settings are saved; starts end unless the tables are abandoned | 2 processes, 3 tables, 3 settings of 2 values, 3 threads, 2 changes, 1 fault, 1 stop |
| `services` | the map of APIs, the curl handle, the exporter and `metadata.csv` | 2 threads, 2 APIs, 3 calls; 3 threads in 2 processes, 2 corpora, 3 exports, 1 fault |
| `search` | the parser against the grammar, the answer against the arguments, pages against each other | all lines of up to four of 9 arguments, and some thousands of searches as a user would type them, with and without a number; 4 rows, 4 pages, `unsigned` of 8 values |

Why the bounds are enough for the cases that matter.

- *pool*: it must run dry, find something to reclaim, find nothing to reclaim,
  grow past its size and fail to grow.
- *build*: twins on one page, an item without id, a page that is past the last,
  an API without pages, a second round and a second build that finds everything
  known; `MCCatalog` and `MCRequests` have all of these.  Two builders suffice
  for any race between a look at a table and an insertion, because a property
  compares two rows or a build and a row.
- *corpus*: created, exported, extended, exported again and deleted, with a
  failure in the middle of any of these and one more in the repair.
- *storage*: two stores into one new folder, a store or a restart during a
  migration, two migrations to the same and to different names, and a way back,
  which takes three paths.
- *sessions*: a query, its addition and another query between the two; two
  changes at once; a connection that closes during each; a change that fails, late
  or early, and another that succeeds after it.
- *startup*: both processes on an empty database, a failure at every statement
  and a second attempt after it, which reads the settings again; a kill between two
  tables; two threads in the setters at once.
- *services*: two refreshes and a lookup; exports in the same process, in
  another one, of the same corpus and of another.
- *search*: every operator on numbers and on texts, a parameter before its
  source, two sources, an option without value, a page past the end, and a page
  whose first row would exceed the width.

Deadlock is checked for `pool`.  It is not in the others: threads may have
nothing left to do, requests run out, and some processes die.

### Statements the code does not keep

Two runs show that a document and the code disagree.  They expect a violation;
`PROJECT.json` ("findings") quotes the sentence each contradicts.

| Run | What happens |
|---|---|
| `build_pages` (`StopsWhenExhausted`) | the page advances by 1, then 2, then 3: pages are skipped and the build stops although they list new items |
| `search_order` (`OrderIsKept`) | `files list --order` puts the order where the command does not look for it |

The other statements of this kind are properties of their modules that no run
checks.  Naming one in a configuration of its module makes TLC show the
counterexample.

| Property | What happens |
|---|---|
| `NoDuplicates` of `DownloadBuild`, two builders | two builds look for an id before either inserts it, and index it twice |
| `BuildsEnd` | with an API without pages whose listing is all known (`OneCatalog`, `TwitterRequests`), `build()` never returns |
| `ResultsAreInserted` | a file `insert()` refused stays in the result and is counted |
| `ExportHoldsFiles` of `CorpusStore` | after one failed request an export returns an archive older than the corpus |
| `ExportsSurvive` | exporting an empty corpus kills the process |
| `CurrentUntilFailure`, `NoOrphanUntilFailure`, `ListsEndWell`, two processes | one process exports, lists or adds with a copy of the corpus that the other has since changed |
| `DeleteDeletes`, two processes | two deletions with an archive: one is answered as done, and the row may stay |
| `EveryRestartEnds` of `StorageRoot` | of two restarts the second terminates the old server once more and then joins the new thread, for ever |
| `EveryoneCurrent` of `Sessions` | two changes at once: a client is left with the older state; a change that is made and cannot be saved or read back: nobody is told |
| `SavesWhatDiffers` of `Startup` | the copy of a setting is changed before its row; if the UPDATE fails no later save sees a difference |
| `RecreatesInvalid` | a log file that cannot be opened at the start ends the process instead of being replaced |
| `HelpAnywhere` of `FileSearch` | `-h` after an option is refused or becomes the option's value, against `cli_parser.h:90` and `doc/cli.md:6` |
| `EntriesAreFound` | a file whose tags are not stored is in no answer, against `api_database_builder.cpp:59` |
| `UnlimitedByDefault` | `files list` without `--number` ends at 100 files and refuses the 0 of `doc/cli.md:49` |

`CurrentUntilFailure` and `NoOrphanUntilFailure` are what remains true of
`ExportHoldsFiles` under the assumptions a single user without failures meets;
`RootHoldsFiles`, `RestartEnds`, `ViewsCurrent`, `SavedAtRest`,
`ParsesEveryArgument` and `AnswersTheRequest` stand to the others in the same way,
and `NoDuplicates` holds in `build` because only one builder runs there.
`EveryMessageAnswered` leaves out just the two calls for which `BuildsEnd` and
`EveryRestartEnds` are not kept.

Further things met while translating, which the models contain as they are: a
kill during `create()` leaves tables that no later start completes, and
`main` retries for ever (`Abandoned`); a missing row of a setting ends the process
with an exception the retry loop does not catch; a request to an API without
headers carries those of an earlier one; a search without usable requests is
invalid SQL and ends the cli; `--type` keeps only the last value; `--api` and
`--append` are parsed and not used; `web download` ignores `--type` and does not
refuse a negative `--number`; `clear_all` keeps the page; `create_directories`
answers false to the slower of two threads, which then throws.

### Fairness

Always weak, and only for threads that can run: a thread that runs gets the
processor again, and MySQL, an API or the file system answers, if only with an
error.  In `DownloadBuild` that is each builder's `Step`, in `StorageRoot`
`HandlerStep` and `WorkerStep`, in `Sessions` `AsioLog` and `HandlerStep` except
in `build()` and in a change, which the code may never leave (`MayStay`), in
`Startup` `Booting` and `Calling`.  Messages, new builds, starts, clients that
leave, failures, crashes and kills are not fair.  Each liveness property needs it
because otherwise any thread may stop for ever.  The other specifications are
used for safety only and state none.  No proof uses fairness.

## 5. Proofs

`tlapm` checks every step of the eight modules below.  Each proof has the same
plan: an inductive invariant, a lemma that says what a step of one actor must
leave alone for the others (`Frame`, `Move`, `Becomes`), a lemma for each action,
and theorems that read the property off the invariant.  All of them hold for any
values of the constants that the module's `ASSUME` allows; where one needs more,
the hypothesis is in its statement: `OneClient` (four theorems of
`CorpusStoreProofs`) and `OneBuilder` (`NoIdTwice`) say that one process or build
runs, which is also how TLC checks these properties.  With two, TLC shows all
five to be false, by the races section 4 describes.  TLC also finds every
inductive invariant to hold on the instances of the runs.

| Property of a run | Theorem |
|---|---|
| `ExclusiveLease`, `PoolPartition`, `QuietInit`, `ConnectionsKept`, `PoolBounded`, `LeaseSpec` | `Exclusion`, `Partition`, `InitIsQuiet`, `Kept`, `SizeIsBounded`, `Refinement` |
| `IndexedIsStored`, `NothingSkipped`, `NoDuplicates`, `AroundNumber` | `StoredFirst`, `NothingIsSkipped`, `NoIdTwice`, `ResultsStayAround` |
| `NoOrphanMembers`, `AddedIsThere` | `MembersHaveCorpus`, `AnsweredIsAdded` |
| `DeleteDeletes`, `CurrentUntilFailure`, `NoOrphanUntilFailure`, `ListsEndWell` | `DeletionDeletes`, `ExportIsCurrent`, `ArchiveHasCorpus`, `ListIsAnswered` |
| `RootHoldsFiles`, `FilesStay`, `ServesRoot`, `AtomicRootSpec` | `RootHolds`, `NoFileLost`, `ServesTheRoot`, `StorageImplementsRoot` |
| `AnswerIsOwn`, `AddsWhatWasShown`, `ViewsCurrent`, `OwnCloseIsSafe` | `QueryGetsItsOwn`, `ShownIsAdded`, `ClientsAreCurrent`, `LineOutlivesClose` |
| `NeverHalfMade`, `SavedAtRest` | `NobodyLeavesHalf`, `SavedAsSet` |
| `LoadedIsListed`, `NothingStaleSent` | `FactoryKnowsFolder`, `RequestsAreFresh` |
| `AloneIsComplete`, `FilesAreOwn`, `NoCsvLeft` | `LoneExportIsComplete`, `WrittenFilesAreOwn`, `LastRemovesCsv` |
| `ParsesEveryArgument`, `AnswersTheRequest`, `PagesNeverRepeat` | `LinesMeanWhatTheySay`, `SearchesAnswerTheRequest`, `PagesAreNeverRepeated` |

Type correctness is `TypeCorrect`, `CorpusTypes`, `RootTypeCorrect`,
`SessionTypes`, `StartupTypes`, `ApiTypes` and `ExportTypes`.

**PoolDBProofs**, for any finite sets of threads and of connections and any
`PoolSize` and `MaxNest` (`PoolAssumption`).  The invariant is `IInv`:
`TypeOK`, `ExclusiveLease`, `PoolPartition`, `QuietInit` and `PooledAreOpen`
together.  No part is inductive alone: lending the head of the queue to a thread
keeps `ExclusiveLease` only if nobody holds a queued connection, which is
`PoolPartition`; `close_pool` empties `_borrowed_pool` and keeps
`PoolPartition` only if nobody holds anything then, which is `QuietInit`.  From
`IInv` follow `TypeCorrect`, `Exclusion`, `Partition`, `InitIsQuiet`, `Kept`
(no thread makes the pool lose a connection) and `Refinement`
(`Spec => LeaseSpec`): `BorrowAvailable` and `BorrowReclaimed` map to `Lease`,
`BorrowNew` to `Grow`, what opens the pool to `Fill` and `Close`, what ends
leases to `Release`.  `SizeIsBounded` has a second invariant, `SizeInv`: a thread
holds `MaxNest` connections at most, and the pool is within its bound.  It uses
the refinement: a connection is opened by `Grow` only, when all of the pool are
held, and the held ones are counted by numbering those of each thread up to
`MaxNest`, which no two connections share since each has one holder.

**DownloadBuildProofs**, for any builders, APIs, catalogs, requests and numbers
of failures (`BuildAssumption`).  `IInv` adds to `TypeOK` and `IndexedIsStored`
what each build knows of its own past (`Good`): the request it is at is still
in the list (`AtRequest`), and it has written the files before the iterator
while it stores, and all its files once it inserts (`WritesFirst`).  Without
`WritesFirst` the step that inserts a row says nothing about the disk.  `Good`
speaks of one build and of the names written so far, which only grow; so a step
of one builder keeps the others good (`GoodGrows`, `Move`, `Frame`), and each
action is left with its own build.  From it follow `TypeCorrect` (no loop
runs past the end of a list from which the loop erases) and `StoredFirst` (a row
has its file, but for lost writes).

`NothingIsSkipped` adds `SkipInv`: whatever a build has seen is in the index or
still before it in one of its lists (`Covered`), and a build that tags a row has
made it (`RowMade`).  The second part is needed because the tags are inserted by
name, and the row they are for must be there.  Other builders only let the index
grow (`Grown`), which keeps both.

`NoIdTwice`, under `OneBuilder`, adds `DupInv`: the names written are
`1..Cardinality(Written)`, so the next file gets a new one; no file still to be
inserted shares its name with a row or another file (`Apart`, `StoredApart`), so
the tags go to the new row only; and an id that was looked for and not found is
not found until its row is tagged (`Unknown`).  The last part is what a second
builder breaks.

`ResultsStayAround` (`AroundNumber`) counts.  A list of requests has *room* for as
many items as the longest listings of its APIs have places (`Room`, the size of
a set of pairs, so that no sum over a sequence is needed).  `AroundInv`: the
result, what this round has gathered and the room of the requests still to come
are together less than the number and the room of all that was asked for.  A
round begins only below the number; a listing takes no more places than its
request had; erasing a request only takes room away.

`PagedRequestsRunOut` is the safety half of `PagedBuildsEnd`: a request of an API
with pages is in the list for at most as many rounds as the API has pages.
`PagesInv` says that its page is past the number of rounds it was answered in,
and exists.  It also shows that the bound `MaxRound` is not met by such a build,
so that the run of `PagedBuildsEnd` is not cut short.

**CorpusStoreProofs**, for any files, ids and numbers of failures, and any
processes unless `OneClient` is named (`CorpusAssumption`).
`MembersHaveCorpus` (`Spec => []NoOrphanMembers`) needs only the shape of the
tables besides the property itself: no action relies on what the process has
loaded.  The proof shows which two facts carry it, the foreign key in `Insert`
and the cascade in `DeleteRow`; ids are not reused, so `InsertRow` finds no
leftover files.

The others rest on `RInv`, which follows each request: which step belongs to
which operation (`OpAt`), that an addition has inserted all files but those left
unless the corpus is gone (`AddAt`), and for one process that the archives of
the paths it has loaded are there (`PathAt`) and, until something fails, that an
archive belongs to a corpus that has it as its path and holds its files, but for
the request that is changing just that (`CurrentAt`).  `AddAt` survives other
processes because files leave a corpus only with the corpus; `PathAt` and
`CurrentAt` do not, which is why they ask for `OneClient`.  `AnsweredIsAdded`
follows from `AddAt`, `DeletionDeletes` and the action property `ListIsAnswered`
from `PathAt`, `ExportIsCurrent` and `ArchiveHasCorpus` from `CurrentAt`.

**StorageRootProofs**, for any handlers, paths, files, folders and bounds
(`RootAssumption`).  The invariant is `IInv`: `TypeOK`; while
`calm`, that at most one migration is between its renaming and its update
(`OneMoves`), that everything on the disk is below `Root` (`BelowRoot`) and what
was stored is there (`StoredThere`); and, calm or not, that while the disk is
empty everybody has the default root and nobody moves (`Unmade`).  `OneMoves` makes
`Root` a value and not a choice; `Unmade` is needed because the first folder may
be made by whoever comes first, and must then be the one the setting names.  Each
action has a lemma, all by way of `Frame`, which says what a step must leave
alone.  From `IInv` follow `RootTypeCorrect`, `RootHolds` and
`StorageImplementsRoot` (`Spec => AtomicRootSpec`): writing maps to `Put`,
renaming to `Move`, what ends the calm to `Break`, the update of the setting and
all other steps to stuttering.  `NoFileLost` holds calm or not: a folder is only
ever renamed to a free name, in whatever state the disk is.  `ServesTheRoot` has
an invariant of its own, `ServeInv`, stronger than the property in one place: a
server that is about to serve, not only one that serves, has the setting's root
when nobody is in the middle of a restart.

**SessionsProofs**, for any connections, threads, queries, states and depth of
log lines (`SessionAssumption`).  The invariant has four parts.  `KindAt` says
which step belongs to which message.  `LineInv`: the connection the asio thread
logs about is none whose sends fail.  `BuilderInv`: a thread that is alone on its
connection has put as much of its query into the builder as its counters say
(`QueryAt`), and the latest build is what was shown, unless a query is between
its build and the copy of the result (`ShownInv`).  `ViewInv`: until messages
about the state overlap, a change is the only one, and while it is broadcast the
clients it has been sent to know the present state.  A change that fails leaves
all clients in `missed`, and each leaves it with the next thing it hears, which
is the present state.  None of the properties
is inductive: each speaks of a message at its end, and the invariant carries it
from its beginning.  That the proof goes through for `AnswerIsOwn` shows that
what earlier messages left in the builder does not matter: `Clear` comes first.

**StartupProofs**, for any processes, threads, settings, tables, values and
numbers of failures (`StartupAssumption`).  `PlaceInv` adds to the types where
the counters can be.  `CalmInv`, as long as there were no faults: a process has
done what its counter says, so one that leaves the loop of the tables or of the
settings leaves them complete.  `LoadedInv`: a process that runs has read a value
for every setting, in whichever attempt, and an update binds a value.  `RestInv`, as long as none did: the change under way is the only one in the only
process, and it has saved the settings before its counter (`Saving`); without
one the memory, the copies and the rows are equal, but for the settings in
`lost`.  The last clause is inductive because `save_to_db` stops at the first
update that throws: that setting and those after it that differ are lost
(`Unsaved`), those before it are saved.

**ServicesProofs**, in two parts.  For `ApiQueries`, for any APIs, threads and
numbers of calls (`ApiAssumption`), `MapInv`: without overlapping refreshes, what
a refresh has put into the map and what it has still to load are what it found.
`HandleInv`: requests under way know of each other (`company`), so an option that
one has set is its own or one of those it met, until it is sent.

For `Exports`, for any threads, processes, corpora and failures
(`ExportAssumption`), `CompanyInv` says who is beside whom, `ExporterInv` that the
exporter of a process only ever holds a handle of that process, `OwnInv` what an
export without company in its process has in its archive at each step,
`AloneInv` the same of `metadata.csv` and its stream for one without any company, `LeftInv` that
`metadata.csv` is there only while some export is between opening and removing
it.  `ExporterInv` is what separates the processes: without it the step of one
could close the archive of another.

**FileSearchProofs**, for any argument lists, APIs with any parameters, stocks,
numbers and widths (`CommandLineAssumption`, `SearchAssumption`), goes from the
line to the pages in three invariants.

- `SearchInv`, of the parser.  While commands are read (`Leading`), the path is
  the words read so far and all of them are commands, so it is a beginning of
  the longest such run.  While options are read (`Reading`), there is a position
  up to which the line has been read: options start in the rest of the line just
  where `Starts` says, and flags, last values and other inputs are those that
  start before it.  `Starts` and `Depth` are defined by `CHOOSE`, so the proof
  first shows that they exist and are unique.  At the end the position is the
  end of the line, and `LinesMeanWhatTheySay` follows; a refusal is shown to have
  a reason in the grammar.
- `ScanInv` and `AskedInv`, of the requests.  `Gathered` relates the requests to
  the inputs scanned: each source made one request, each parameter and operator
  after it is in the request of its group unless a later one of the same name
  replaced it.  When all are scanned, a row is selected by a usable request if and
  only if the arguments mean it and it is tagged (`UsableIsMeant`); `AskedInv` keeps the page and
  number that were asked for.  From there `SearchesAnswerTheRequest` is about
  what `LIMIT` leaves of a list without repetitions.
- `PageInv`, of the pages.  In the default order the `k`-th file shown is the
  `k`-th of those that match (its `Rank`), and as many have been shown as page
  times number says.  Files stored between two pages keep the ranks of all
  before them (`StoringAddsAfter`: the ids only grow, and a file matches only
  once its tags are there, which is before the next file is stored).  Hence
  `PagesAreNeverRepeated`: ranks are unique, and a page that is not full ends with
  the last rank.

The grammar and the operators of searches are defined without recursion, so
their properties are proved from their definitions; where a smallest or a last
position is needed, `Least` provides it, which follows from the library's theorem
that the finite sets are well-founded under inclusion.

Only model-checked:

- `PagedBuildsEnd`, `RestartEnds`, `EveryMessageAnswered` and `StartEnds`.
  Liveness under fairness is out of the prover's reach; `PagedRequestsRunOut` is
  the part of the first that is safety.
- `StopsWhenExhausted` and `OrderIsKept`, which the code violates.

## 6. Not modelled

- In the modelled parts: titles, filters and orderings of corpuses, the content
  of files and metadata, wording of answers and logs, how SQL text and URLs are
  put together (what they select is modelled), random names of files that
  coincide, and the memory model below a data race: where threads race the models
  allow the outcomes named in section 3.
- `PoolDB::drop`, which only tests use.  `stop()` of the server ends the process.  `clear_logfile` and the layout of log lines have
  no state but the file.
- The commands of the cli other than `files list`, `corpus create` and
  `web download`: they read options in the same way and make one call.  Messages
  that only read the database are delegations, as are `Indexer` and the
  statistics of `ManagerRequest`.
- `SearchBuilder` builds the text of one SELECT.  `serialize` and `deserialize` of
  builders and requests, the conversions of `api_parameter`, and the parsing of
  schemas and of responses transform JSON and hold no state.
- The web interface (a submodule), vendored code (`nlohmann/json`, which is most
  of the repository's lines, `json-schema-validator`, `md5`), and what libcurl,
  libzip and MySQL do internally.
