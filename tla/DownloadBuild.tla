---------------------------- MODULE DownloadBuild ----------------------------
(***************************************************************************)
(* ApiDownloadBuilder::build: query web APIs page after page, drop the     *)
(* items the database knows, store the files, index them.  The server runs *)
(* one thread per request and the cli is a process of its own, all on the  *)
(* same database and storage folder, so several builds run at once and one *)
(* step here is one query to the API, the database or the file system.     *)
(*                                                                         *)
(* A definition introduced by "Fault:" is not part of the model: it is a   *)
(* wrong variant of the definition after it, with which a property below   *)
(* must fail.                                                              *)
(***************************************************************************)
EXTENDS Naturals, Sequences, FiniteSets, SequencesExt

CONSTANTS
  Builder,    \* threads and processes that run builds
  Api,        \* loaded API descriptions
  Paged,      \* those with a "_page" request parameter
  Item,       \* what APIs return
  Anonymous,  \* items for which the API gives no "_api_id"
  Catalog,    \* Catalog[a][p]: the items on page p of API a
  Requests,   \* request lists of clients: sequences of [api, page]
  Numbers,    \* numbers of files clients ask for, 0 for "one query each"
  MaxBuilds,  \* bound: builds each builder starts
  MaxFaults,  \* bound: failures and crashes in a behaviour
  MaxRound    \* bound: the round counter stops here, past every page

NoPage == 0       \* the request gives no "_page"
DefaultPage == 1  \* the default value of "_page" in data/apis

ASSUME BuildAssumption ==
  /\ Paged \subseteq Api
  /\ Anonymous \subseteq Item
  /\ Catalog \in [Api -> Seq(Seq(Item))]
  /\ Requests \subseteq Seq([api : Api, page : Nat])
  /\ \A rs \in Requests : \A k \in DOMAIN rs :
       rs[k].page # NoPage => rs[k].api \in Paged
  /\ Numbers \subseteq Nat
  /\ MaxBuilds \in Nat
  /\ MaxFaults \in Nat
  /\ MaxRound \in Nat
  /\ \A a \in Api : MaxRound > Len(Catalog[a])

VARIABLES
  rows,     \* table File with its "_api_id" tags: [name, src, item, tagged]
  disk,     \* names of the files in the storage folder
  lost,     \* names of the files a failing write left out, unnoticed
  build,    \* build[x]: the locals of x's build and its _latest_build
  started,  \* started[x]: how many builds x has started
  faults    \* how often something failed

vars == <<rows, disk, lost, build, started, faults>>

FileObject == [src : Api, item : Item, name : Nat]

BuildState ==
  [pc : {"idle", "query", "check", "store", "insert", "row", "tag"},
   number : Nat,                         \* the argument
   reqs : Seq([api : Api, page : Nat]),  \* requests
   at : Nat,                             \* it, over requests
   round : Nat,                          \* page
   found : Seq(FileObject),              \* downloaded
   files : Seq(FileObject),              \* partial_res
   i : Nat,                              \* it, over found or files
   erased : BOOLEAN,                     \* the current request is erased
   res : Seq(FileObject),                \* _latest_build
   asked : Seq([api : Api, page : Nat]), \* history: requests at the start
   seen : SUBSET (Api \X Item),          \* history: parsed and not dropped
   clean : BOOLEAN]                      \* history: nothing failed

Idle == [pc |-> "idle", number |-> 0, reqs |-> <<>>, at |-> 1, round |-> 0,
         found |-> <<>>, files |-> <<>>, i |-> 1, erased |-> FALSE,
         res |-> <<>>, asked |-> <<>>, seen |-> {}, clean |-> TRUE]

\* The list iterators point at an element, or at the end where the loop stops.
IteratorsValid(b) ==
  /\ b.pc = "query" => b.at \in 1..Len(b.reqs) + 1
  /\ b.pc = "check" => b.i \in DOMAIN b.found
  /\ b.pc \in {"store", "insert", "row", "tag"} => b.i \in DOMAIN b.files

\* Everything has its type and no loop runs past the end of its list.
TypeOK ==
  /\ rows \in SUBSET [name : Nat, src : Api, item : Item, tagged : BOOLEAN]
  /\ disk \in SUBSET Nat
  /\ lost \in SUBSET Nat
  /\ build \in [Builder -> BuildState]
  /\ \A x \in Builder : IteratorsValid(build[x])
  /\ started \in [Builder -> 0..MaxBuilds]
  /\ faults \in 0..MaxFaults

Init ==
  /\ rows = {}
  /\ disk = {}
  /\ lost = {}
  /\ build = [x \in Builder |-> Idle]
  /\ started = [x \in Builder |-> 0]
  /\ faults = 0

Set(x, state) == build' = [build EXCEPT ![x] = state]

\* Something fails.
Fault == faults < MaxFaults /\ faults' = faults + 1

(***************************************************************************)
(* The API and the database.                                               *)
(***************************************************************************)

\* What API a lists on page p; an API without pages always lists the same.
Listing(a, p) ==
  LET page == IF a \in Paged THEN p ELSE 1
  IN  IF page \in DOMAIN Catalog[a] THEN Catalog[a][page] ELSE <<>>

Indexed(src, item) == \E r \in rows : r.tagged /\ r.src = src /\ r.item = item

\* Fault: ids are compared without looking at the API they come from.
KnownAnywhere(src, item) ==
  /\ item \notin Anonymous
  /\ \E r \in rows : r.tagged /\ r.item = item

\* File::api_id_exists: a row of the same API has this id in its tags.
Known(src, item) == item \notin Anonymous /\ Indexed(src, item)

(***************************************************************************)
(* One build.                                                              *)
(***************************************************************************)

\* _latest_build is cleared and APIs with pages get a start page.
Start(x) ==
  /\ build[x].pc = "idle"
  /\ started[x] < MaxBuilds
  /\ \E rs \in Requests, n \in Numbers :
       LET reqs == [k \in DOMAIN rs |->
                      IF rs[k].api \in Paged /\ rs[k].page = NoPage
                      THEN [rs[k] EXCEPT !.page = DefaultPage]
                      ELSE rs[k]]
       IN  Set(x, [Idle EXCEPT !.pc = "query", !.number = n,
                               !.reqs = reqs, !.asked = reqs])
  /\ started' = [started EXCEPT ![x] = @ + 1]
  /\ UNCHANGED <<rows, disk, lost, faults>>

\* Fault: for (...; ++it) around the erasure.
NextRequestSkips(b) ==
  [b EXCEPT !.pc = "query", !.at = @ + 1,
            !.found = <<>>, !.files = <<>>, !.i = 1, !.erased = FALSE]

\* The iterator goes on to the next request, or stays where the erased one was.
NextRequest(b) ==
  [b EXCEPT !.pc = "query", !.at = IF b.erased THEN @ ELSE @ + 1,
            !.found = <<>>, !.files = <<>>, !.i = 1, !.erased = FALSE]

\* Fault: a request that brings nothing stays.
ErasedNever(b) == b

\* requests.erase(it)
Erased(b) == [b EXCEPT !.reqs = RemoveAt(@, b.at), !.erased = TRUE]

\* The current request's page moves on by the number of rounds done, its page
\* is fetched and parsed: an item whose media cannot be downloaded is left
\* out.  A request that brings nothing is erased.
Query(x) ==
  LET b == build[x] IN
  /\ b.pc = "query"
  /\ b.at <= Len(b.reqs)
  /\ LET req == b.reqs[b.at]
         page == IF req.page = NoPage THEN NoPage ELSE req.page + b.round
         listing == Listing(req.api, page)
     IN \E n \in 0..Len(listing) : \E kept \in [1..n -> DOMAIN listing] :
          /\ \A k, m \in 1..n : k < m => kept[k] < kept[m]
          /\ IF n = Len(listing) THEN UNCHANGED faults ELSE Fault
          /\ LET found == [k \in 1..n |-> [src |-> req.api, name |-> 0,
                                           item |-> listing[kept[k]]]]
                 after == [b EXCEPT
                   !.clean = @ /\ n = Len(listing),
                   !.seen = @ \cup {<<req.api, found[k].item>> : k \in 1..n}]
             IN IF n = 0
                THEN Set(x, NextRequest(Erased(after)))
                ELSE Set(x, [after EXCEPT
                       !.pc = "check", !.found = found, !.i = 1,
                       !.reqs = ReplaceAt(@, b.at, [req EXCEPT !.page = page])])
  /\ UNCHANGED <<rows, disk, lost, started>>

\* An answer other than 200, or one that is no JSON, ends the build with an
\* exception; so do a failing look at the database and a folder that cannot be
\* created.  What was added to _latest_build before stays there.
Abort(x) ==
  /\ build[x].pc \in {"query", "check", "store"}
  /\ Set(x, [Idle EXCEPT !.res = build[x].res, !.clean = FALSE])
  /\ Fault
  /\ UNCHANGED <<rows, disk, lost, started>>

\* The process dies.
Crash(x) ==
  /\ build[x].pc # "idle"
  /\ Set(x, [Idle EXCEPT !.clean = FALSE])
  /\ Fault
  /\ UNCHANGED <<rows, disk, lost, started>>

\* Fault: the files are indexed and never stored.
CheckThenInsert(x) ==
  LET b == build[x]
      f == b.found[b.i]
      files == IF Known(f.src, f.item) THEN b.files ELSE Append(b.files, f)
      last == b.i = Len(b.found)
  IN
  /\ b.pc = "check"
  /\ Set(x, IF ~last THEN [b EXCEPT !.files = files, !.i = @ + 1]
            ELSE IF files = <<>> THEN NextRequest(b)
            ELSE [b EXCEPT !.pc = "insert", !.files = files, !.i = 1])
  /\ UNCHANGED <<rows, disk, lost, started, faults>>

\* Choose the files that are not in the database, one look per file.
Check(x) ==
  LET b == build[x]
      f == b.found[b.i]
      files == IF Known(f.src, f.item) THEN b.files ELSE Append(b.files, f)
      last == b.i = Len(b.found)
  IN
  /\ b.pc = "check"
  /\ Set(x, IF ~last THEN [b EXCEPT !.files = files, !.i = @ + 1]
            ELSE IF files = <<>> THEN NextRequest(b)
            ELSE [b EXCEPT !.pc = "store", !.files = files, !.i = 1])
  /\ UNCHANGED <<rows, disk, lost, started, faults>>

\* Storage::store_file under a random, hence new, name.  File::store does not
\* look at the state of its stream: a failing write is not noticed.
Store(x) ==
  LET b == build[x]
      name == Cardinality(disk \cup lost) + 1
      files == ReplaceAt(b.files, b.i, [b.files[b.i] EXCEPT !.name = name])
  IN
  /\ b.pc = "store"
  /\ \/ disk' = disk \cup {name} /\ UNCHANGED <<lost, faults>>
     \/ lost' = lost \cup {name} /\ Fault /\ UNCHANGED disk
  /\ Set(x, IF b.i < Len(b.files)
            THEN [b EXCEPT !.files = files, !.i = @ + 1]
            ELSE [b EXCEPT !.files = files, !.pc = "insert", !.i = 1])
  /\ UNCHANGED <<rows, started>>

\* The file is dealt with; after the last one the files join _latest_build.
Inserted(b) ==
  IF b.i < Len(b.files)
  THEN [b EXCEPT !.pc = "insert", !.i = @ + 1]
  ELSE NextRequest([b EXCEPT !.res = @ \o b.files])

\* An exception from insert() takes the file off the list.
Dropped(b) ==
  LET f == b.files[b.i]
      after == [b EXCEPT !.files = RemoveAt(@, b.i), !.clean = FALSE,
                         !.seen = @ \ {<<f.src, f.item>>}]
  IN  IF b.i < Len(b.files)
      THEN [after EXCEPT !.pc = "insert"]
      ELSE NextRequest([after EXCEPT !.res = @ \o after.files])

\* Fault: insert() trusts the look that was done before the files were stored.
InsertUnchecked(x) ==
  /\ build[x].pc = "insert"
  /\ Set(x, [build[x] EXCEPT !.pc = "row"])
  /\ UNCHANGED <<rows, disk, lost, started, faults>>

\* File::insert looks for the id again; a file it finds is not inserted, and
\* its return value is not looked at.
InsertCheck(x) ==
  LET b == build[x]
      f == b.files[b.i]
  IN
  /\ b.pc = "insert"
  /\ \/ /\ Set(x, IF Known(f.src, f.item) THEN Inserted(b)
                                          ELSE [b EXCEPT !.pc = "row"])
        /\ UNCHANGED faults
     \/ Set(x, Dropped(b)) /\ Fault
  /\ UNCHANGED <<rows, disk, lost, started>>

\* The row in table File.
InsertRow(x) ==
  LET b == build[x]
      f == b.files[b.i]
  IN
  /\ b.pc = "row"
  /\ \/ /\ rows' = rows \cup {[name |-> f.name, src |-> f.src,
                               item |-> f.item, tagged |-> FALSE]}
        /\ Set(x, [b EXCEPT !.pc = "tag"])
        /\ UNCHANGED faults
     \/ /\ Fault
        /\ Set(x, Dropped(b))
        /\ UNCHANGED rows
  /\ UNCHANGED <<disk, lost, started>>

\* The rows in table Tag, "_api_id" among them; an exception comes before or
\* after that one.
InsertTags(x) ==
  LET b == build[x]
      f == b.files[b.i]
      tagging == rows' = {IF r.name = f.name THEN [r EXCEPT !.tagged = TRUE]
                                             ELSE r : r \in rows}
  IN
  /\ b.pc = "tag"
  /\ \/ tagging /\ Set(x, Inserted(b)) /\ UNCHANGED faults
     \/ Fault /\ (tagging \/ UNCHANGED rows) /\ Set(x, Dropped(b))
  /\ UNCHANGED <<disk, lost, started>>

\* Fault: the round goes on when the number is reached exactly.
EndRoundLate(x) ==
  LET b == build[x] IN
  /\ b.pc = "query"
  /\ b.at > Len(b.reqs)
  /\ Set(x, IF b.number > 0 /\ Len(b.res) <= b.number /\ b.reqs # <<>>
            THEN [b EXCEPT !.at = 1,
                           !.round = IF @ < MaxRound THEN @ + 1 ELSE @]
            ELSE [b EXCEPT !.pc = "idle"])
  /\ UNCHANGED <<rows, disk, lost, started, faults>>

\* while (number > 0 && res.size() < number && requests.size() > 0)
EndRound(x) ==
  LET b == build[x] IN
  /\ b.pc = "query"
  /\ b.at > Len(b.reqs)
  /\ Set(x, IF b.number > 0 /\ Len(b.res) < b.number /\ b.reqs # <<>>
            THEN [b EXCEPT !.at = 1,
                           !.round = IF @ < MaxRound THEN @ + 1 ELSE @]
            ELSE [b EXCEPT !.pc = "idle"])
  /\ UNCHANGED <<rows, disk, lost, started, faults>>

Step(x) ==
  \/ Query(x)
  \/ Check(x)
  \/ Store(x)
  \/ InsertCheck(x)
  \/ InsertRow(x)
  \/ InsertTags(x)
  \/ EndRound(x)

Next == \E x \in Builder : Start(x) \/ Step(x) \/ Abort(x) \/ Crash(x)

\* A running build is given the processor again and again; nobody has to start
\* one.
Spec == Init /\ [][Next]_vars /\ \A x \in Builder : WF_vars(Step(x))

-----------------------------------------------------------------------------
Running(x) == build[x].pc # "idle"

\* A row of the index always has its file in the storage folder, whatever
\* throws or dies in between, unless the write itself was lost: files are
\* stored first.
IndexedIsStored == \A r \in rows : r.name \in disk \cup lost

\* "Using the _api_id name will check if another entry of the same ID and same
\* API name is already in the database and will skip it if it is"
\* (doc/api_json.md:325).
NoDuplicates ==
  \A q, r \in rows :
    /\ q.tagged /\ r.tagged
    /\ q.src = r.src /\ q.item = r.item
    /\ q.item \notin Anonymous
    => q = r

\* Whenever a build moves on from a request, everything the request brought is
\* indexed, by this build or another, except what failed to be inserted: the
\* looks at the database skip nothing that is not there.
NothingSkipped ==
  \A x \in Builder : build[x].pc \in {"query", "idle"} =>
    \A p \in build[x].seen : Indexed(p[1], p[2])

\* "will download up to this number (not precise, around it)" (doc/cli.md:70):
\* the result passes the number by less than one round of requests, which
\* brings for each request at most the places of its API's longest listing.
Places(a) == UNION {DOMAIN Catalog[a][p] : p \in DOMAIN Catalog[a]}
PlacesFrom(reqs, k) == UNION {{j} \X Places(reqs[j].api) : j \in k..Len(reqs)}

AroundNumber ==
  \A x \in Builder :
    LET b == build[x] IN
    b.number > 0 => Len(b.res) < b.number + Cardinality(PlacesFrom(b.asked, 1))

\* A build is over some day once the requests it has left are all for APIs with
\* pages, because their pages run out.
PagedBuildsEnd ==
  \A x \in Builder :
    (/\ Running(x)
     /\ \A k \in DOMAIN build[x].reqs : build[x].reqs[k].api \in Paged)
    ~> ~Running(x)

\* "will download up to this number (not precise, around it) or stop before if
\* specified queries start returning nothing" (doc/cli.md:70): every build is
\* over some day...
BuildsEnd == \A x \in Builder : Running(x) ~> ~Running(x)

\* ... and one that stops before the number, nothing having failed, has
\* indexed everything its requests list.
StopsWhenExhausted ==
  \A x \in Builder :
    LET b == build[x] IN
    ~Running(x) /\ b.clean /\ Len(b.res) < b.number =>
      \A k \in DOMAIN b.asked, p \in 1..MaxRound :
        LET listing == Listing(b.asked[k].api, p) IN
        p >= b.asked[k].page =>
          \A j \in DOMAIN listing : Indexed(b.asked[k].api, listing[j])

\* "inserted N new files in local database" is what the log says of the N
\* files build returns (api_download_builder.cpp:96): each of them has a row.
ResultsAreInserted ==
  \A x \in Builder : \A k \in DOMAIN build[x].res :
    \E r \in rows : r.name = build[x].res[k].name
=============================================================================
