------------------------------ MODULE ApiQueries ------------------------------
(***************************************************************************)
(* From the name of an API to the request sent to it: the map ApiFactory   *)
(* keeps of the schemas it found in the folder "apis" (filled when it is   *)
(* first asked for, again by refresh_apis), and the download_manager a     *)
(* builder sends its requests with, whose curl handle keeps every option   *)
(* until it is set again.  The threads share the map and the handle; only  *)
(* the process and curl itself know about it.                              *)
(*                                                                         *)
(* "listed", "crossed" and "company" are history.                          *)
(***************************************************************************)
EXTENDS Naturals, FiniteSets, Functions

CONSTANTS Worker,      \* threads of the process
          Api,         \* names of APIs, each with its own URL
          WithHeaders, \* those with header parameters (a token)
          Nowhere,     \* no API
          MaxCalls     \* bound: queries and refreshes

ASSUME ApiAssumption == Nowhere \notin Api /\ MaxCalls \in Nat

VARIABLES
  folder,   \* APIs with a valid schema in the folder
  rooted,   \* whether the folder is where the setting says
  apis,     \* the keys of ApiFactory::_apis
  has,      \* _apis.has_value()
  handle,   \* the options of the curl handle: whose URL, whose headers
  work,     \* work[w]: what thread w is doing
  calls,    \* queries and refreshes so far
  listed,   \* the APIs the last refresh found in the folder
  crossed   \* whether a refresh ever had company of another

factory == <<apis, has, listed, crossed>>
disk == <<folder, rooted>>
apiVars == <<disk, factory, handle, work, calls>>

Resting == [pc |-> "idle", api |-> Nowhere, todo |-> {}, url |-> Nowhere,
            headers |-> Nowhere, company |-> {}]
Work == [pc : {"idle", "list", "load", "find", "url", "headers", "send", "sent", "dead"},
         api : Api \cup {Nowhere}, todo : SUBSET Api, url : Api \cup {Nowhere},
         headers : Api \cup {Nowhere}, company : SUBSET (Api \cup {Nowhere})]

ApiTypeOK ==
  /\ folder \subseteq Api /\ rooted \in BOOLEAN
  /\ apis \subseteq Api /\ has \in BOOLEAN
  /\ handle \in [url : Api \cup {Nowhere}, headers : Api \cup {Nowhere}]
  /\ work \in [Worker -> Work]
  /\ calls \in 0..MaxCalls
  /\ listed \subseteq Api /\ crossed \in BOOLEAN

Scanning == {w \in Worker : work[w].pc \in {"list", "load"}}
Sending == {w \in Worker : work[w].pc \in {"url", "headers", "send"}}

ApiInit ==
  /\ folder \in SUBSET Api /\ rooted = TRUE
  /\ apis = {} /\ has = FALSE
  /\ handle = [url |-> Nowhere, headers |-> Nowhere]
  /\ work = [w \in Worker |-> Resting]
  /\ calls = 0
  /\ listed = {} /\ crossed = FALSE

Do(w, pc, r) ==
  /\ work[w].pc = pc
  /\ work' = [work EXCEPT ![w] = r]

Now(w, pc) == [work[w] EXCEPT !.pc = pc]

\* Two threads in one map or one curl handle: the process may end.
Dies ==
  /\ work' = [v \in Worker |-> [Resting EXCEPT !.pc = "dead"]]
  /\ has' = FALSE /\ apis' = {}
  /\ UNCHANGED <<listed, crossed, handle>>

(***************************************************************************)
(* The world: schemas come and go, and a storage migration moves the       *)
(* folder before it tells the setting.                                     *)
(***************************************************************************)
SchemaChanges(a) ==
  /\ folder' = IF a \in folder THEN folder \ {a} ELSE folder \cup {a}
  /\ UNCHANGED <<rooted, factory, handle, work, calls>>

Migrates ==
  /\ rooted' = ~rooted
  /\ UNCHANGED <<folder, factory, handle, work, calls>>

(***************************************************************************)
(* ApiFactory                                                              *)
(***************************************************************************)
\* Fault: the map is not emptied.
DiscoverKeeps(w, r) ==
  /\ has' = TRUE
  /\ crossed' = (crossed \/ Scanning \ {w} # {})
  /\ work' = [work EXCEPT ![w] = [r EXCEPT !.pc = "list"]]
  /\ UNCHANGED <<apis, listed>>

\* Thread w goes into discover_from_path: the map is emptied first.
Discover(w, r) ==
  /\ has' = TRUE /\ apis' = {}
  /\ crossed' = (crossed \/ Scanning \ {w} # {})
  /\ work' = [work EXCEPT ![w] = [r EXCEPT !.pc = "list"]]
  /\ UNCHANGED listed

Refresh(w) ==
  /\ work[w].pc = "idle" /\ calls < MaxCalls /\ calls' = calls + 1
  /\ Discover(w, Resting)
  /\ UNCHANGED <<disk, handle>>

\* Without the folder the map stays empty.
List(w) ==
  /\ LET found == IF rooted THEN folder ELSE {}
     IN /\ Do(w, "list", [Now(w, "load") EXCEPT !.todo = found])
        /\ listed' = found
  /\ UNCHANGED <<apis, has, crossed, disk, handle, calls>>

\* One schema after the other, in the order of a hash map; then back to where
\* the map was asked for.
Load(w) ==
  /\ \/ \E a \in work[w].todo :
          /\ Do(w, "load", [work[w] EXCEPT !.todo = @ \ {a}])
          /\ apis' = apis \cup {a}
     \/ /\ work[w].todo = {}
        /\ Do(w, "load", IF work[w].api = Nowhere THEN Resting ELSE Now(w, "find"))
        /\ UNCHANGED apis
  /\ UNCHANGED <<has, listed, crossed, disk, handle, calls>>

\* A query for an API begins with a look at the map.
Query(w, a) ==
  /\ calls < MaxCalls /\ calls' = calls + 1
  /\ Do(w, "idle", [Resting EXCEPT !.pc = "find", !.api = a])
  /\ UNCHANGED <<disk, factory, handle>>

\* get_api.  While another thread changes the map the look may find anything.
\* A request that begins overlaps with those under way, and they with it.
Find(w) ==
  /\ work[w].pc = "find"
  /\ \/ ~has /\ Discover(w, work[w]) /\ UNCHANGED handle
     \/ /\ has
        /\ work[w].api \in apis \/ Scanning # {}
        /\ work' = [v \in Worker |->
             IF v = w THEN [Now(w, "url") EXCEPT !.company = {work[u].api : u \in Sending}]
             ELSE IF v \in Sending THEN [work[v] EXCEPT !.company = @ \cup {work[w].api}]
             ELSE work[v]]
        /\ UNCHANGED <<factory, handle>>
     \/ /\ has
        /\ work[w].api \notin apis \/ Scanning # {}
        /\ work' = [work EXCEPT ![w] = Resting]
        /\ UNCHANGED <<factory, handle>>
     \/ has /\ Scanning # {} /\ Dies
  /\ UNCHANGED <<disk, calls>>

(***************************************************************************)
(* download_manager::download                                              *)
(***************************************************************************)
\* query_and_parse throws when a parameter is missing or has a wrong value.
Refuse(w) ==
  /\ Do(w, "url", Resting)
  /\ UNCHANGED <<disk, factory, handle, calls>>

\* Fault: the URL is set with the first request only.
SetUrlOnce(w) ==
  /\ Do(w, "url", Now(w, "headers"))
  /\ handle' = IF handle.url = Nowhere THEN [handle EXCEPT !.url = work[w].api] ELSE handle
  /\ UNCHANGED <<disk, factory, calls>>

SetUrl(w) ==
  /\ Do(w, "url", Now(w, "headers"))
  /\ handle' = [handle EXCEPT !.url = work[w].api]
  /\ UNCHANGED <<disk, factory, calls>>

\* Without header parameters the option stays as it is.
SetHeaders(w) ==
  /\ Do(w, "headers", Now(w, "send"))
  /\ handle' = IF work[w].api \in WithHeaders THEN [handle EXCEPT !.headers = work[w].api]
               ELSE handle
  /\ UNCHANGED <<disk, factory, calls>>

\* curl_easy_perform, with the options as they are by now.
Send(w) ==
  /\ \/ /\ Do(w, "send", [Now(w, "sent") EXCEPT !.url = handle.url, !.headers = handle.headers])
        /\ UNCHANGED <<factory, handle>>
     \/ work[w].pc = "send" /\ Sending # {w} /\ Dies
  /\ UNCHANGED <<disk, calls>>

\* The answer is parsed, or is none and an exception is thrown.
Answer(w) ==
  /\ Do(w, "sent", Resting)
  /\ UNCHANGED <<disk, factory, handle, calls>>

ApiNext ==
  \/ \E a \in Api : SchemaChanges(a)
  \/ Migrates
  \/ \E w \in Worker :
       \/ Refresh(w) \/ List(w) \/ Load(w) \/ Find(w)
       \/ Refuse(w) \/ SetUrl(w) \/ SetHeaders(w) \/ Send(w) \/ Answer(w)
       \/ \E a \in Api : Query(w, a)

ApiSpec == ApiInit /\ [][ApiNext]_apiVars

(***************************************************************************)
(* Properties                                                              *)
(***************************************************************************)
\* discover_from_path: when no refresh is under way the factory knows the
\* schemas the last one found and no others, unless two overlapped (then what
\* one has found may come back after the other has emptied the map).
LoadedIsListed == has /\ Scanning = {} /\ ~crossed => apis = listed

\* download_manager: the options stay on the handle and threads of one connection
\* use it at once, and yet nothing of an earlier request is sent again.  A request
\* goes to its own API or to that of one it overlapped, and if its API has headers
\* so do the headers it carries, however the threads interleave and whatever the
\* handle was used for before.  (An API without headers gets those of any earlier
\* request.)
NothingStaleSent ==
  \A w \in Worker : LET r == work[w] IN
    r.pc = "sent" =>
      /\ r.url \in {r.api} \cup r.company
      /\ r.api \in WithHeaders => r.headers \in ({r.api} \cup r.company) \cap WithHeaders
================================================================================
