---------------------------- MODULE ServicesProofs ----------------------------
(***************************************************************************)
(* The two services requests share.  For any threads, APIs and number of   *)
(* calls: the types, what the factory knows between refreshes              *)
(* (LoadedIsListed), and whose URL and headers a request goes out with     *)
(* (NothingStaleSent).  For any threads, processes, corpora and failures:  *)
(* the types, what an export writes that met no other (AloneIsComplete),   *)
(* or none of its process (FilesAreOwn), and that metadata.csv goes with   *)
(* the last export (NoCsvLeft).                                            *)
(***************************************************************************)
EXTENDS ApiQueries, Exports, TLAPS

(***************************************************************************)
(* The map.  As long as no two refreshes ever overlapped there is at most  *)
(* one under way, and what it has put into the map and what it still has   *)
(* to load are together what it found in the folder.                       *)
(***************************************************************************)
MapInv ==
  ~crossed =>
    /\ \A v, w \in Scanning : v = w
    /\ \A w \in Worker : work[w].pc = "list" => apis = {}
    /\ \A w \in Worker : work[w].pc = "load" => apis \cup work[w].todo = listed
    /\ has /\ Scanning = {} => apis = listed

(***************************************************************************)
(* The handle.  Requests under way know of each other.  An option that one *)
(* of them has set is later changed by others only, and those it knows.    *)
(***************************************************************************)
Met(r) == {r.api} \cup r.company

OptionsAt(r, h) ==
  /\ r.pc \in {"headers", "send"} => h.url \in Met(r)
  /\ r.pc = "send" /\ r.api \in WithHeaders => h.headers \in Met(r) \cap WithHeaders
  /\ r.pc = "sent" =>
       /\ r.url \in Met(r)
       /\ r.api \in WithHeaders => r.headers \in Met(r) \cap WithHeaders

HandleInv ==
  /\ \A v, w \in Sending : v # w => work[v].api \in work[w].company
  /\ \A w \in Worker : OptionsAt(work[w], handle)

ApiInv == ApiTypeOK /\ MapInv /\ HandleInv

(***************************************************************************)
(* The types.                                                              *)
(***************************************************************************)
\* What a step makes of one thread, the others being left alone.
LEMMA OneTyped ==
  ASSUME ApiTypeOK, NEW w \in Worker, NEW r \in Work, work' = [work EXCEPT ![w] = r]
  PROVE  /\ work' \in [Worker -> Work]
         /\ work'[w] = r
         /\ \A v \in Worker \ {w} : work'[v] = work[v]
BY DEF ApiTypeOK

LEMMA RestingTyped == Resting \in Work
BY DEF Resting, Work

LEMMA NowTyped ==
  ASSUME ApiTypeOK, NEW w \in Worker,
         NEW pc \in {"list", "load", "find", "url", "headers", "send", "sent"}
  PROVE  /\ Now(w, pc) \in Work
         /\ Now(w, pc) = [work[w] EXCEPT !.pc = pc]
         /\ Now(w, pc).pc = pc
         /\ Now(w, pc).api = work[w].api
         /\ Now(w, pc).todo = work[w].todo
         /\ Now(w, pc).company = work[w].company
<1>1. work[w] \in Work
  BY DEF ApiTypeOK
<1> QED
  BY <1>1 DEF Now, Work

\* Thread w goes into discover_from_path, from rest or from a query.
LEMMA DiscoverStep ==
  ASSUME ApiTypeOK, NEW w \in Worker, NEW r \in Work, Discover(w, r)
  PROVE  /\ apis' = {} /\ has' = TRUE /\ UNCHANGED listed
         /\ crossed' = (crossed \/ Scanning \ {w} # {})
         /\ work' \in [Worker -> Work]
         /\ work'[w] = [r EXCEPT !.pc = "list"]
         /\ \A v \in Worker \ {w} : work'[v] = work[v]
<1>1. [r EXCEPT !.pc = "list"] \in Work
  BY DEF Work
<1> QED
  BY <1>1, OneTyped DEF Discover

\* get_api finds the API: the thread goes on to its request, which overlaps with
\* all that are under way.
Takes(w) ==
  /\ UNCHANGED <<factory, disk, handle, calls>>
  /\ work' \in [Worker -> Work]
  /\ work'[w].pc = "url" /\ work'[w].api = work[w].api
  /\ work'[w].company = {work[u].api : u \in Sending}
  /\ \A v \in Sending \ {w} :
       /\ work'[v].pc = work[v].pc /\ work'[v].todo = work[v].todo /\ work'[v].api = work[v].api
       /\ work'[v].company = work[v].company \cup {work[w].api}
  /\ \A v \in Worker \ (Sending \cup {w}) : work'[v] = work[v]

LEMMA FindTakes ==
  ASSUME ApiTypeOK, NEW w \in Worker, work[w].pc = "find",
         work' = [v \in Worker |->
           IF v = w THEN [Now(w, "url") EXCEPT !.company = {work[u].api : u \in Sending}]
           ELSE IF v \in Sending THEN [work[v] EXCEPT !.company = @ \cup {work[w].api}]
           ELSE work[v]],
         UNCHANGED <<factory, disk, handle, calls>>
  PROVE  Takes(w)
<1> DEFINE q == Now(w, "url")
           met == {work[u].api : u \in Sending}
           new == [q EXCEPT !.company = met]
           a == work[w].api
           old(v) == [work[v] EXCEPT !.company = work[v].company \cup {a}]
<1>1. work' = [v \in Worker |-> IF v = w THEN new ELSE IF v \in Sending THEN old(v) ELSE work[v]]
  OBVIOUS
<1>2. Sending \subseteq Worker /\ \A v \in Worker : work[v] \in Work
  BY DEF Sending, ApiTypeOK
<1>3. met \subseteq Api \cup {Nowhere} /\ a \in Api \cup {Nowhere}
  BY <1>2 DEF Work
<1>4. new \in Work /\ new.pc = "url" /\ new.company = met /\ new.api = a
  <2>1. q \in Work /\ q.pc = "url" /\ q.api = a
    BY NowTyped
  <2> HIDE DEF q, met, a
  <2> QED
    BY <1>3, <2>1 DEF Work
<1>5. ASSUME NEW v \in Worker
      PROVE  /\ old(v) \in Work /\ old(v).pc = work[v].pc /\ old(v).todo = work[v].todo
             /\ old(v).api = work[v].api /\ old(v).company = work[v].company \cup {a}
  <2> DEFINE r == work[v]
  <2>1. r \in Work
    BY <1>2
  <2> HIDE DEF a, r
  <2>2. [r EXCEPT !.company = r.company \cup {a}] \in Work
    BY <1>3, <2>1 DEF Work
  <2> QED
    BY <2>1, <2>2 DEF Work, r
<1> HIDE DEF new, old
<1>6. work' \in [Worker -> Work]
  BY <1>1, <1>2, <1>4, <1>5
<1>7. work'[w] = new
  BY <1>1
<1>8. \A v \in Sending \ {w} : work'[v] = old(v)
  BY <1>1, <1>2
<1>9. \A v \in Worker \ (Sending \cup {w}) : work'[v] = work[v]
  BY <1>1
<1>10. /\ work'[w].pc = "url" /\ work'[w].api = work[w].api
       /\ work'[w].company = {work[u].api : u \in Sending}
  BY <1>4, <1>7, Zenon
<1>11. \A v \in Sending \ {w} :
         /\ work'[v].pc = work[v].pc /\ work'[v].todo = work[v].todo /\ work'[v].api = work[v].api
         /\ work'[v].company = work[v].company \cup {work[w].api}
  BY <1>2, <1>5, <1>8
<1> QED
  BY <1>6, <1>9, <1>10, <1>11, Zenon DEF Takes

(***************************************************************************)
(* The frames.                                                             *)
(***************************************************************************)
\* A step that leaves the map alone, and every refresh where it is.
LEMMA MapFrame ==
  ASSUME MapInv, crossed \in BOOLEAN, UNCHANGED factory,
         \A v \in Worker : IF v \in Scanning
                          THEN work'[v].pc = work[v].pc /\ work'[v].todo = work[v].todo
                          ELSE work'[v].pc \notin {"list", "load"}
  PROVE  MapInv'
<1>1. Scanning' = Scanning
  BY DEF Scanning
<1>2. \A v \in Worker : work'[v].pc \in {"list", "load"}
        => work'[v].pc = work[v].pc /\ work'[v].todo = work[v].todo
  BY DEF Scanning
<1>3. UNCHANGED <<apis, has, listed, crossed>>
  BY DEF factory
<1>4. CASE crossed
  BY <1>3, <1>4 DEF MapInv
<1>5. CASE ~crossed
  <2>1. \A v \in Worker : work'[v].pc = "list" => apis' = {}
    BY <1>2, <1>3, <1>5 DEF MapInv
  <2>2. \A v \in Worker : work'[v].pc = "load" => apis' \cup work'[v].todo = listed'
    BY <1>2, <1>3, <1>5 DEF MapInv
  <2> QED
    BY <1>1, <1>3, <1>5, <2>1, <2>2 DEF MapInv
<1> QED
  BY <1>4, <1>5

\* A step that leaves the handle alone, with every request that is under way,
\* and starts none.
LEMMA HandleFrame ==
  ASSUME HandleInv, UNCHANGED handle,
         \A v \in Worker : \/ work'[v] = work[v]
                          \/ work'[v].pc \notin {"url", "headers", "send", "sent"}
  PROVE  HandleInv'
<1>1. \A v \in Sending' : v \in Sending /\ work'[v] = work[v]
  BY DEF Sending
<1>2. ASSUME NEW v \in Worker
      PROVE  OptionsAt(work'[v], handle')
  <2>1. CASE work'[v] = work[v]
    BY <2>1 DEF HandleInv
  <2>2. CASE work'[v].pc \notin {"url", "headers", "send", "sent"}
    BY <2>2 DEF OptionsAt
  <2> QED
    BY <2>1, <2>2
<1> QED
  BY <1>1, <1>2 DEF HandleInv

(***************************************************************************)
(* The steps of the world.                                                 *)
(***************************************************************************)
LEMMA WorldKeeps ==
  ASSUME ApiInv, Migrates \/ \E a \in Api : SchemaChanges(a)
  PROVE  ApiInv'
<1>1. UNCHANGED <<factory, handle, work, calls>>
  BY DEF Migrates, SchemaChanges
<1>2. folder' \subseteq Api /\ rooted' \in BOOLEAN
  BY DEF ApiInv, ApiTypeOK, Migrates, SchemaChanges
<1>3. ApiTypeOK'
  BY <1>1, <1>2 DEF ApiInv, ApiTypeOK, factory
<1>4. MapInv'
  <2>1. \A v \in Worker : v \in Scanning \/ work'[v].pc \notin {"list", "load"}
    BY <1>1 DEF Scanning
  <2> QED
    BY <1>1, <2>1, MapFrame DEF ApiInv, ApiTypeOK
<1>5. HandleInv'
  BY <1>1, HandleFrame DEF ApiInv
<1> QED
  BY <1>3, <1>4, <1>5 DEF ApiInv

(***************************************************************************)
(* The steps of ApiFactory.                                                *)
(***************************************************************************)
\* A refresh begins, from rest or because the map was never filled.
LEMMA DiscoverMap ==
  ASSUME ApiInv, NEW w \in Worker, NEW r \in Work, Discover(w, r),
         work[w].pc \in {"idle", "find"}, UNCHANGED handle
  PROVE  MapInv' /\ HandleInv'
<1>1. /\ apis' = {} /\ has' = TRUE
      /\ crossed' = (crossed \/ Scanning \ {w} # {})
      /\ work'[w] = [r EXCEPT !.pc = "list"]
      /\ \A v \in Worker \ {w} : work'[v] = work[v]
  BY DiscoverStep DEF ApiInv
<1>2. work'[w].pc = "list"
  BY <1>1 DEF Work
<1>3. w \notin Scanning
  BY DEF Scanning
<1>4. Scanning' = Scanning \cup {w}
  BY <1>1, <1>2 DEF Scanning
<1>5. MapInv'
  <2> SUFFICES ASSUME ~crossed'
               PROVE  /\ \A u, v \in Scanning' : u = v
                      /\ \A v \in Worker : work'[v].pc = "load" => apis' \cup work'[v].todo = listed'
    BY <1>1, <1>4 DEF MapInv
  <2>1. Scanning' = {w}
    BY <1>1, <1>3, <1>4
  <2>2. \A v \in Worker : work'[v].pc = "load" => v \in Scanning' /\ v # w
    BY <1>2 DEF Scanning
  <2> QED
    BY <2>1, <2>2
<1>6. HandleInv'
  BY <1>1, <1>2, HandleFrame DEF ApiInv
<1> QED
  BY <1>5, <1>6

LEMMA RefreshKeeps ==
  ASSUME ApiInv, NEW w \in Worker, Refresh(w)
  PROVE  ApiInv'
<1>1. Discover(w, Resting) /\ work[w].pc = "idle" /\ UNCHANGED <<disk, handle>>
      /\ calls < MaxCalls /\ calls' = calls + 1
  BY DEF Refresh
<1>2. MapInv' /\ HandleInv'
  BY <1>1, RestingTyped, DiscoverMap
<1>3. apis' = {} /\ has' = TRUE /\ listed' = listed /\ work' \in [Worker -> Work]
      /\ crossed' = (crossed \/ Scanning \ {w} # {})
  BY <1>1, RestingTyped, DiscoverStep DEF ApiInv
<1>4. calls' \in 0..MaxCalls
  BY <1>1, ApiAssumption DEF ApiInv, ApiTypeOK
<1>5. ApiTypeOK'
  BY <1>1, <1>3, <1>4 DEF ApiInv, ApiTypeOK, disk
<1> QED
  BY <1>2, <1>5 DEF ApiInv

LEMMA ListKeeps ==
  ASSUME ApiInv, NEW w \in Worker, List(w)
  PROVE  ApiInv'
<1> DEFINE found == IF rooted THEN folder ELSE {}
           r == [Now(w, "load") EXCEPT !.todo = found]
<1>1. /\ work[w].pc = "list" /\ work' = [work EXCEPT ![w] = r] /\ listed' = found
      /\ UNCHANGED <<apis, has, crossed, disk, handle, calls>>
  BY DEF List, Do
<1>2. found \subseteq Api
  BY DEF ApiInv, ApiTypeOK
<1>3. r \in Work /\ r.pc = "load" /\ r.todo = found
  <2>1. Now(w, "load") \in Work /\ Now(w, "load").pc = "load"
    BY NowTyped DEF ApiInv
  <2> HIDE DEF found
  <2>2. [Now(w, "load") EXCEPT !.todo = found] \in Work
    BY <1>2, <2>1 DEF Work
  <2> QED BY <2>1, <2>2 DEF Work
<1> HIDE DEF r, found
<1>4. /\ work' \in [Worker -> Work] /\ work'[w] = r
      /\ \A v \in Worker \ {w} : work'[v] = work[v]
  BY <1>1, <1>3, OneTyped DEF ApiInv
<1>5. ApiTypeOK'
  BY <1>1, <1>2, <1>4 DEF ApiInv, ApiTypeOK, disk
<1>6. MapInv'
  <2> SUFFICES ASSUME ~crossed PROVE MapInv'
    BY <1>1 DEF MapInv
  <2>1. w \in Scanning /\ Scanning' = Scanning
    BY <1>1, <1>3, <1>4 DEF Scanning
  <2>2. Scanning = {w} /\ apis = {}
    BY <1>1, <2>1 DEF ApiInv, MapInv
  <2>3. \A v \in Worker : work'[v].pc \in {"list", "load"} => v = w
    BY <2>1, <2>2 DEF Scanning
  <2> QED
    BY <1>1, <1>3, <1>4, <2>1, <2>2, <2>3 DEF MapInv
<1>7. HandleInv'
  BY <1>1, <1>3, <1>4, HandleFrame DEF ApiInv
<1> QED
  BY <1>5, <1>6, <1>7 DEF ApiInv

\* One schema goes from what is left to the map.
LEMMA LoadOneKeeps ==
  ASSUME ApiInv, NEW w \in Worker, NEW a \in work[w].todo,
         Do(w, "load", [work[w] EXCEPT !.todo = @ \ {a}]), apis' = apis \cup {a},
         UNCHANGED <<has, listed, crossed, disk, handle, calls>>
  PROVE  ApiInv'
<1> DEFINE r == [work[w] EXCEPT !.todo = work[w].todo \ {a}]
<1>1. work[w].pc = "load" /\ work' = [work EXCEPT ![w] = r]
  BY DEF Do
<1>2. work[w] \in Work /\ a \in Api
  BY DEF ApiInv, ApiTypeOK, Work
<1>3. r \in Work /\ r.pc = "load" /\ r.todo = work[w].todo \ {a}
  BY <1>1, <1>2 DEF Work
<1> HIDE DEF r
<1>4. /\ work' \in [Worker -> Work] /\ work'[w] = r
      /\ \A v \in Worker \ {w} : work'[v] = work[v]
  BY <1>1, <1>3, OneTyped DEF ApiInv
<1>5. ApiTypeOK'
  BY <1>2, <1>4 DEF ApiInv, ApiTypeOK, disk
<1>6. MapInv'
  <2> SUFFICES ASSUME ~crossed PROVE MapInv'
    BY DEF MapInv
  <2>1. w \in Scanning /\ Scanning' = Scanning
    BY <1>1, <1>3, <1>4 DEF Scanning
  <2>2. Scanning = {w} /\ apis \cup work[w].todo = listed
    BY <1>1, <2>1 DEF ApiInv, MapInv
  <2>3. \A v \in Worker : work'[v].pc \in {"list", "load"} => v = w
    BY <2>1, <2>2 DEF Scanning
  <2>4. apis' \cup r.todo = listed'
    BY <1>3, <2>2
  <2>5. work'[w].pc = "load"
    BY <1>3, <1>4
  <2> QED
    BY <1>4, <2>1, <2>2, <2>3, <2>4, <2>5 DEF MapInv
<1>7. HandleInv'
  BY <1>3, <1>4, HandleFrame DEF ApiInv
<1> QED
  BY <1>5, <1>6, <1>7 DEF ApiInv

\* Nothing is left: the refresh is over, and what is in the map is what it found.
LEMMA LoadedKeeps ==
  ASSUME ApiInv, NEW w \in Worker, work[w].todo = {},
         Do(w, "load", IF work[w].api = Nowhere THEN Resting ELSE Now(w, "find")),
         UNCHANGED <<apis, has, listed, crossed, disk, handle, calls>>
  PROVE  ApiInv'
<1> DEFINE r == IF work[w].api = Nowhere THEN Resting ELSE Now(w, "find")
<1>1. work[w].pc = "load" /\ work' = [work EXCEPT ![w] = r]
  BY DEF Do
<1>2. r \in Work /\ r.pc \in {"idle", "find"}
  BY RestingTyped, NowTyped DEF ApiInv, Resting
<1> HIDE DEF r
<1>3. /\ work' \in [Worker -> Work] /\ work'[w] = r
      /\ \A v \in Worker \ {w} : work'[v] = work[v]
  BY <1>1, <1>2, OneTyped DEF ApiInv
<1>4. ApiTypeOK'
  BY <1>3 DEF ApiInv, ApiTypeOK, disk
<1>5. MapInv'
  <2> SUFFICES ASSUME ~crossed PROVE MapInv'
    BY DEF MapInv
  <2>1. w \in Scanning /\ Scanning' = Scanning \ {w}
    BY <1>1, <1>2, <1>3 DEF Scanning
  <2>2. Scanning = {w} /\ apis = listed
    BY <1>1, <2>1 DEF ApiInv, MapInv
  <2>3. \A v \in Worker : work'[v].pc \notin {"list", "load"}
    BY <2>1, <2>2 DEF Scanning
  <2> QED
    BY <2>1, <2>2, <2>3 DEF MapInv
<1>6. HandleInv'
  BY <1>2, <1>3, HandleFrame DEF ApiInv
<1> QED
  BY <1>4, <1>5, <1>6 DEF ApiInv

LEMMA LoadKeeps ==
  ASSUME ApiInv, NEW w \in Worker, Load(w)
  PROVE  ApiInv'
<1>1. CASE \E a \in work[w].todo :
             /\ Do(w, "load", [work[w] EXCEPT !.todo = @ \ {a}])
             /\ apis' = apis \cup {a}
  BY <1>1, LoadOneKeeps DEF Load
<1>2. CASE /\ work[w].todo = {}
           /\ Do(w, "load", IF work[w].api = Nowhere THEN Resting ELSE Now(w, "find"))
           /\ UNCHANGED apis
  BY <1>2, LoadedKeeps DEF Load
<1> QED
  BY <1>1, <1>2 DEF Load

\* A thread that is neither changing the map nor using the handle goes where it
\* is not either: a query begins, finds no API, or has its answer.
LEMMA ElsewhereKeeps ==
  ASSUME ApiInv, NEW w \in Worker, NEW r \in Work, work' = [work EXCEPT ![w] = r],
         w \notin Scanning, r.pc \in {"idle", "find"},
         UNCHANGED <<disk, factory, handle>>, calls' \in 0..MaxCalls
  PROVE  ApiInv'
<1>1. /\ work' \in [Worker -> Work] /\ work'[w] = r
      /\ \A v \in Worker \ {w} : work'[v] = work[v]
  BY OneTyped DEF ApiInv
<1>2. ApiTypeOK'
  BY <1>1 DEF ApiInv, ApiTypeOK, disk, factory
<1>3. MapInv'
  <2>1. \A v \in Worker : v \in Scanning \/ work'[v].pc \notin {"list", "load"}
    BY <1>1 DEF Scanning
  <2> QED
    BY <1>1, <2>1, MapFrame DEF ApiInv, ApiTypeOK
<1>4. HandleInv'
  BY <1>1, HandleFrame DEF ApiInv
<1> QED
  BY <1>2, <1>3, <1>4 DEF ApiInv

LEMMA QueryKeeps ==
  ASSUME ApiInv, NEW w \in Worker, NEW a \in Api, Query(w, a)
  PROVE  ApiInv'
<1> DEFINE r == [Resting EXCEPT !.pc = "find", !.api = a]
<1>1. work[w].pc = "idle" /\ work' = [work EXCEPT ![w] = r]
      /\ calls < MaxCalls /\ calls' = calls + 1 /\ UNCHANGED <<disk, factory, handle>>
  BY DEF Query, Do
<1>2. r \in Work /\ r.pc = "find"
  BY DEF Resting, Work
<1> HIDE DEF r
<1>3. calls' \in 0..MaxCalls
  BY <1>1, ApiAssumption DEF ApiInv, ApiTypeOK
<1> QED
  BY <1>1, <1>2, <1>3, ElsewhereKeeps DEF Scanning

LEMMA LeaveKeeps ==
  ASSUME ApiInv, NEW w \in Worker, NEW pc \in {"find", "url", "sent"}, Do(w, pc, Resting),
         UNCHANGED <<disk, factory, handle, calls>>
  PROVE  ApiInv'
<1>1. calls' \in 0..MaxCalls
  BY DEF ApiInv, ApiTypeOK
<1>2. w \notin Scanning
  BY DEF Do, Scanning
<1>3. Resting.pc = "idle"
  BY DEF Resting
<1> QED
  BY <1>1, <1>2, <1>3, RestingTyped, ElsewhereKeeps DEF Do

\* The API is in the map: the request begins.
LEMMA TakesKeeps ==
  ASSUME ApiInv, NEW w \in Worker, work[w].pc = "find", Takes(w)
  PROVE  ApiInv'
<1>1. ApiTypeOK'
  BY DEF ApiInv, ApiTypeOK, Takes, disk, factory
<1>2. MapInv'
  <2>1. ASSUME NEW v \in Worker
        PROVE  IF v \in Scanning
               THEN work'[v].pc = work[v].pc /\ work'[v].todo = work[v].todo
               ELSE work'[v].pc \notin {"list", "load"}
    BY DEF Takes, Scanning, Sending
  <2> QED
    BY <2>1, MapFrame DEF ApiInv, ApiTypeOK, Takes
<1>3. HandleInv'
  <2>1. Sending' = Sending \cup {w} /\ w \notin Sending
    BY DEF Takes, Sending
  <2>2. ASSUME NEW u \in Sending', NEW v \in Sending', u # v
        PROVE  work'[u].api \in work'[v].company
    <3>1. work'[u].api = work[u].api
      BY <2>1 DEF Takes
    <3>2. CASE v = w
      BY <2>1, <2>2, <3>1, <3>2 DEF Takes
    <3>3. CASE v # w
      <4>1. v \in Sending /\ work'[v].company = work[v].company \cup {work[w].api}
        BY <2>1, <3>3 DEF Takes
      <4>2. u = w \/ work[u].api \in work[v].company
        BY <2>1, <2>2, <4>1 DEF ApiInv, HandleInv
      <4> QED
        BY <3>1, <4>1, <4>2
    <3> QED
      BY <3>2, <3>3
  <2>3. ASSUME NEW v \in Worker
        PROVE  OptionsAt(work'[v], handle')
    <3>1. OptionsAt(work[v], handle) /\ handle' = handle
      BY DEF ApiInv, HandleInv, Takes
    <3>2. CASE v = w
      BY <3>2 DEF Takes, OptionsAt
    <3>3. CASE v \in Sending /\ v # w
      <4>1. /\ work'[v].pc = work[v].pc /\ work[v].pc # "sent" /\ work'[v].api = work[v].api
            /\ Met(work[v]) \subseteq Met(work'[v])
        BY <3>3 DEF Takes, Sending, Met
      <4> QED
        BY <3>1, <4>1 DEF OptionsAt
    <3>4. CASE v \notin Sending \cup {w}
      BY <3>1, <3>4 DEF Takes
    <3> QED
      BY <3>2, <3>3, <3>4
  <2> QED
    BY <2>2, <2>3 DEF HandleInv
<1> QED
  BY <1>1, <1>2, <1>3 DEF ApiInv

LEMMA DiesKeeps ==
  ASSUME ApiInv, Dies, UNCHANGED <<disk, calls>>
  PROVE  ApiInv'
<1>0. /\ work' = [v \in Worker |-> [Resting EXCEPT !.pc = "dead"]]
      /\ has' = FALSE /\ apis' = {} /\ UNCHANGED <<listed, crossed, disk, handle, calls>>
  BY DEF Dies
<1> DEFINE dead == [Resting EXCEPT !.pc = "dead"]
<1>1. dead \in Work /\ dead.pc = "dead"
  BY DEF Resting, Work
<1> HIDE DEF dead
<1>2. work' \in [Worker -> Work] /\ \A v \in Worker : work'[v].pc = "dead"
  BY <1>0, <1>1 DEF dead
<1>3. ApiTypeOK'
  BY <1>0, <1>2 DEF ApiInv, ApiTypeOK, disk
<1>4. MapInv'
  <2>1. Scanning' = {}
    BY <1>2 DEF Scanning
  <2> QED
    BY <1>0, <1>2, <2>1 DEF MapInv
<1>5. HandleInv'
  BY <1>0, <1>2, HandleFrame DEF ApiInv
<1> QED
  BY <1>3, <1>4, <1>5 DEF ApiInv

LEMMA FindKeeps ==
  ASSUME ApiInv, NEW w \in Worker, Find(w)
  PROVE  ApiInv'
<1>1. work[w].pc = "find" /\ UNCHANGED <<disk, calls>>
  BY DEF Find
<1>2. CASE ~has /\ Discover(w, work[w]) /\ UNCHANGED handle
  <2>1. work[w] \in Work
    BY DEF ApiInv, ApiTypeOK
  <2>2. MapInv' /\ HandleInv'
    BY <1>1, <1>2, <2>1, DiscoverMap
  <2>3. apis' = {} /\ has' = TRUE /\ listed' = listed /\ work' \in [Worker -> Work]
        /\ crossed' = (crossed \/ Scanning \ {w} # {})
    BY <1>2, <2>1, DiscoverStep DEF ApiInv
  <2>4. ApiTypeOK'
    BY <1>1, <1>2, <2>3 DEF ApiInv, ApiTypeOK, disk
  <2> QED
    BY <2>2, <2>4 DEF ApiInv
<1>3. CASE /\ work' = [v \in Worker |->
                IF v = w THEN [Now(w, "url") EXCEPT !.company = {work[u].api : u \in Sending}]
                ELSE IF v \in Sending THEN [work[v] EXCEPT !.company = @ \cup {work[w].api}]
                ELSE work[v]]
           /\ UNCHANGED <<factory, handle>>
  BY <1>1, <1>3, FindTakes, TakesKeeps DEF ApiInv
<1>4. CASE work' = [work EXCEPT ![w] = Resting] /\ UNCHANGED <<factory, handle>>
  BY <1>1, <1>4, LeaveKeeps DEF Do
<1>5. CASE Dies
  BY <1>1, <1>5, DiesKeeps
<1> QED
  BY <1>1, <1>2, <1>3, <1>4, <1>5 DEF Find

(***************************************************************************)
(* The steps of download_manager::download.                                *)
(***************************************************************************)
\* A step of a request, from before its answer is parsed.
LEMMA RequestKeeps ==
  ASSUME ApiInv, NEW w \in Worker, w \in Sending, NEW r \in Work,
         work' = [work EXCEPT ![w] = r], r.pc \in {"headers", "send", "sent"},
         r.api = work[w].api, r.company = work[w].company,
         OptionsAt(r, handle'),
         handle'.url \in {handle.url, r.api},
         handle'.headers = handle.headers \/ (handle'.headers = r.api /\ r.api \in WithHeaders),
         handle' \in [url : Api \cup {Nowhere}, headers : Api \cup {Nowhere}],
         UNCHANGED <<disk, factory, calls>>
  PROVE  ApiInv'
<1>1. /\ work' \in [Worker -> Work] /\ work'[w] = r
      /\ \A v \in Worker \ {w} : work'[v] = work[v]
  BY OneTyped DEF ApiInv
<1>2. ApiTypeOK'
  BY <1>1 DEF ApiInv, ApiTypeOK, disk, factory
<1>3. MapInv'
  <2>1. \A v \in Worker : v \in Scanning \/ work'[v].pc \notin {"list", "load"}
    BY <1>1 DEF Scanning
  <2>2. w \notin Scanning
    BY DEF Scanning, Sending
  <2> QED
    BY <1>1, <2>1, <2>2, MapFrame DEF ApiInv, ApiTypeOK
<1>4. HandleInv'
  <2>1. \A v \in Sending' : /\ v \in Sending /\ work'[v].api = work[v].api
                            /\ work'[v].company = work[v].company
    BY <1>1 DEF Sending
  <2>2. \A u, v \in Sending' : u # v => work'[u].api \in work'[v].company
    BY <2>1 DEF ApiInv, HandleInv
  <2>3. ASSUME NEW v \in Worker
        PROVE  OptionsAt(work'[v], handle')
    <3>1. CASE v = w
      BY <1>1, <3>1
    <3>2. CASE v # w /\ v \in Sending
      <4>1. work'[v] = work[v] /\ OptionsAt(work[v], handle) /\ work[v].pc # "sent"
        BY <1>1, <3>2 DEF ApiInv, HandleInv, Sending
      <4>2. r.api \in Met(work[v])
        BY <3>2 DEF ApiInv, HandleInv, Met
      <4> QED
        BY <4>1, <4>2 DEF OptionsAt
    <3>3. CASE v # w /\ v \notin Sending
      <4>1. work'[v] = work[v] /\ OptionsAt(work[v], handle)
            /\ work[v].pc \notin {"url", "headers", "send"}
        BY <1>1, <3>3 DEF ApiInv, HandleInv, Sending
      <4> QED
        BY <4>1 DEF OptionsAt
    <3> QED
      BY <3>1, <3>2, <3>3
  <2> QED
    BY <2>2, <2>3 DEF HandleInv
<1> QED
  BY <1>2, <1>3, <1>4 DEF ApiInv

LEMMA SetUrlKeeps ==
  ASSUME ApiInv, NEW w \in Worker, SetUrl(w)
  PROVE  ApiInv'
<1> DEFINE r == Now(w, "headers")
<1>1. /\ work[w].pc = "url" /\ work' = [work EXCEPT ![w] = r]
      /\ handle' = [handle EXCEPT !.url = work[w].api]
      /\ UNCHANGED <<disk, factory, calls>>
  BY DEF SetUrl, Do
<1>2. /\ r \in Work /\ r.pc = "headers" /\ r.api = work[w].api
      /\ r.company = work[w].company
  BY NowTyped DEF ApiInv
<1> HIDE DEF r
<1>3. /\ handle' \in [url : Api \cup {Nowhere}, headers : Api \cup {Nowhere}]
      /\ handle'.url = work[w].api /\ handle'.headers = handle.headers
  BY <1>1 DEF ApiInv, ApiTypeOK, Work
<1>4. OptionsAt(r, handle')
  BY <1>2, <1>3 DEF OptionsAt, Met
<1> QED
  BY <1>1, <1>2, <1>3, <1>4, RequestKeeps DEF Sending

LEMMA SetHeadersKeeps ==
  ASSUME ApiInv, NEW w \in Worker, SetHeaders(w)
  PROVE  ApiInv'
<1> DEFINE r == Now(w, "send")
<1>1. /\ work[w].pc = "headers" /\ work' = [work EXCEPT ![w] = r]
      /\ handle' = IF work[w].api \in WithHeaders THEN [handle EXCEPT !.headers = work[w].api]
                   ELSE handle
      /\ UNCHANGED <<disk, factory, calls>>
  BY DEF SetHeaders, Do
<1>2. /\ r \in Work /\ r.pc = "send" /\ r.api = work[w].api
      /\ r.company = work[w].company
  BY NowTyped DEF ApiInv
<1> HIDE DEF r
<1>3. /\ handle' \in [url : Api \cup {Nowhere}, headers : Api \cup {Nowhere}]
      /\ handle'.url = handle.url
      /\ handle'.headers = IF work[w].api \in WithHeaders THEN work[w].api ELSE handle.headers
  BY <1>1 DEF ApiInv, ApiTypeOK, Work
<1>4. OptionsAt(r, handle')
  <2>1. OptionsAt(work[w], handle)
    BY DEF ApiInv, HandleInv
  <2> QED
    BY <1>1, <1>2, <1>3, <2>1 DEF OptionsAt, Met
<1> QED
  BY <1>1, <1>2, <1>3, <1>4, RequestKeeps DEF Sending

LEMMA SendKeeps ==
  ASSUME ApiInv, NEW w \in Worker, Send(w)
  PROVE  ApiInv'
<1> DEFINE q == Now(w, "sent")
           r == [q EXCEPT !.url = handle.url, !.headers = handle.headers]
<1>0. CASE Dies
  BY <1>0, DiesKeeps DEF Send
<1> SUFFICES ASSUME ~Dies PROVE ApiInv'
  BY <1>0
<1>1. /\ work[w].pc = "send" /\ work' = [work EXCEPT ![w] = r]
      /\ UNCHANGED <<disk, factory, handle, calls>>
  BY DEF Send, Do
<1>2. /\ r \in Work /\ r.pc = "sent" /\ r.api = work[w].api
      /\ r.company = work[w].company
      /\ r.url = handle.url /\ r.headers = handle.headers
  <2>1. handle.url \in Api \cup {Nowhere} /\ handle.headers \in Api \cup {Nowhere}
    BY DEF ApiInv, ApiTypeOK
  <2>2. /\ q \in Work /\ q.pc = "sent" /\ q.api = work[w].api
        /\ q.company = work[w].company
    BY NowTyped DEF ApiInv
  <2> HIDE DEF q
  <2> QED
    BY <2>1, <2>2 DEF Work
<1> HIDE DEF r
<1>3. OptionsAt(r, handle)
  <2>1. OptionsAt(work[w], handle)
    BY DEF ApiInv, HandleInv
  <2> QED
    BY <1>1, <1>2, <2>1 DEF OptionsAt, Met
<1>4. handle \in [url : Api \cup {Nowhere}, headers : Api \cup {Nowhere}]
  BY DEF ApiInv, ApiTypeOK
<1> QED
  BY <1>1, <1>2, <1>3, <1>4, RequestKeeps DEF Sending

(***************************************************************************)
(* The theorems.                                                           *)
(***************************************************************************)
LEMMA InitApiInv == ApiInit => ApiInv
<1> SUFFICES ASSUME ApiInit PROVE ApiInv
  OBVIOUS
<1>1. ApiTypeOK
  <2>1. work \in [Worker -> Work]
    BY RestingTyped DEF ApiInit
  <2>2. calls \in 0..MaxCalls
    BY ApiAssumption DEF ApiInit
  <2> QED
    BY <2>1, <2>2 DEF ApiInit, ApiTypeOK
<1>2. \A w \in Worker : work[w].pc = "idle"
  BY DEF ApiInit, Resting
<1>3. MapInv
  BY <1>2 DEF ApiInit, MapInv, Scanning
<1>4. HandleInv
  BY <1>2 DEF HandleInv, OptionsAt, Sending
<1> QED
  BY <1>1, <1>3, <1>4 DEF ApiInv

LEMMA ApiStepKeeps == ApiInv /\ [ApiNext]_apiVars => ApiInv'
<1> SUFFICES ASSUME ApiInv, [ApiNext]_apiVars PROVE ApiInv'
  OBVIOUS
<1>1. CASE UNCHANGED apiVars
  <2>1. ApiTypeOK'
    BY <1>1 DEF apiVars, disk, factory, ApiInv, ApiTypeOK
  <2>2. MapInv'
    BY <1>1 DEF apiVars, disk, factory, ApiInv, MapInv, Scanning
  <2>3. HandleInv'
    BY <1>1, HandleFrame DEF apiVars, ApiInv
  <2> QED
    BY <2>1, <2>2, <2>3 DEF ApiInv
<1>2. CASE Migrates \/ \E a \in Api : SchemaChanges(a)
  BY <1>2, WorldKeeps
<1>3. ASSUME NEW w \in Worker, Refuse(w) \/ Answer(w)
      PROVE  ApiInv'
  BY <1>3, LeaveKeeps DEF Refuse, Answer
<1>4. ASSUME NEW w \in Worker,
             \/ Refresh(w) \/ List(w) \/ Load(w) \/ Find(w)
             \/ SetUrl(w) \/ SetHeaders(w) \/ Send(w)
             \/ \E a \in Api : Query(w, a)
      PROVE  ApiInv'
  BY <1>4, RefreshKeeps, ListKeeps, LoadKeeps, FindKeeps, SetUrlKeeps, SetHeadersKeeps,
     SendKeeps, QueryKeeps
<1> QED
  BY <1>1, <1>2, <1>3, <1>4 DEF ApiNext

LEMMA ApiInductive == ApiSpec => []ApiInv
BY InitApiInv, ApiStepKeeps, PTL DEF ApiSpec

\* The variables keep their types.
THEOREM ApiTypes == ApiSpec => []ApiTypeOK
<1>1. ApiInv => ApiTypeOK
  BY DEF ApiInv
<1> QED
  BY <1>1, ApiInductive, PTL

\* Between refreshes the factory knows the schemas the last one found and no
\* others, if no two ever overlapped.
THEOREM FactoryKnowsFolder == ApiSpec => []LoadedIsListed
<1>1. ApiInv => LoadedIsListed
  BY DEF ApiInv, MapInv, LoadedIsListed
<1> QED
  BY <1>1, ApiInductive, PTL

\* Nothing of an earlier request is sent again: a request goes out with its own
\* URL, and its own headers if its API has any, or with those of one it overlapped.
THEOREM RequestsAreFresh == ApiSpec => []NothingStaleSent
<1>1. ApiInv => NothingStaleSent
  BY DEF ApiInv, HandleInv, OptionsAt, Met, NothingStaleSent
<1> QED
  BY <1>1, ApiInductive, PTL

-------------------------------------------------------------------------------
(***************************************************************************)
(* Who is beside whom: "alone" and "own" are true of the export that has   *)
(* no other beside it now.                                                 *)
(***************************************************************************)
CompanyInv ==
  \A t \in Active : /\ job[t].alone => Active = {t}
                    /\ job[t].own => \A u \in Active : HostOf[u] = HostOf[t] => u = t
                    /\ job[t].alone => job[t].own

(***************************************************************************)
(* _corpus of a process is a handle that a thread of the same process      *)
(* opened, so an export disturbs no archive of another process.            *)
(***************************************************************************)
ExporterInv == \A p \in Host : current[p] # Absent => HostOf[current[p]] = p

(***************************************************************************)
(* An export r of thread t that has its process to itself: the handle h of *)
(* the process is its own archive z, with the files it has added, and with *)
(* the metadata once it is past that.                                      *)
(***************************************************************************)
Filling == {"csv", "fill", "meta", "add", "close"}

OwnAt(t, r, h, z) ==
  /\ r.pc \in {"open", "csv", "fill", "meta"} => r.todo = FilesOf[r.corpus]
  /\ r.pc = "add" => r.todo \subseteq FilesOf[r.corpus]
  /\ r.pc = "close" => r.todo = {}
  /\ r.pc \in Filling \cup {"open"} => r.wrote = Absent
  /\ r.pc \in Filling => /\ h = t /\ z.open /\ z.corpus = r.corpus
                         /\ z.files = FilesOf[r.corpus] \ r.todo
                         /\ z.meta <=> r.pc \in {"add", "close"}
  /\ r.pc = "remove" /\ r.wrote # Absent => r.wrote.files = FilesOf[r.corpus]

OwnInv == \A t \in Active : job[t].own => OwnAt(t, job[t], Handle(t), zip[t])

(***************************************************************************)
(* An export alone has metadata.csv to itself as well, which is the file   *)
(* it opened, and the archives.                                            *)
(***************************************************************************)
AloneAt(t, r, m, s, z) ==
  /\ r.pc = "fill" => m = Blank /\ t \in s
  /\ r.pc \in {"meta", "add", "close"} => m = r.corpus
  /\ r.pc = "remove" => /\ r.wrote = [files |-> FilesOf[r.corpus], meta |-> r.corpus]
                        /\ z[r.corpus] \in {r.wrote, Absent}

AloneInv == \A t \in Active : job[t].alone => AloneAt(t, job[t], csv, streams, archive)

\* metadata.csv is there only between its opening and its removal.
LeftInv == ~failed /\ csv # Absent =>
  \E t \in Exporter : job[t].pc \in {"fill", "meta", "add", "close", "remove"}

ExportInv == /\ ExportTypeOK /\ CompanyInv /\ ExporterInv /\ OwnInv /\ AloneInv /\ LeftInv

(***************************************************************************)
(* The step of an export disturbs no other that has its process to itself, *)
(* since it reaches only the handle of its own process, and when any other *)
(* is alone it cannot take place.                                          *)
(***************************************************************************)
Reaches(t) ==
  /\ \A p \in Host \ {HostOf[t]} : current'[p] = current[p]
  /\ \A u \in Exporter \ {t} : u # Handle(t) => zip'[u] = zip[u]

LEMMA HostTyped == \A t \in Exporter : HostOf[t] \in Host
BY DEF Host

LEMMA OthersKeep ==
  ASSUME ExportInv, NEW t \in Active, NEW u \in Active \ {t}, Reaches(t)
  PROVE  /\ ~job[u].alone
         /\ job[u].own => Handle(u)' = Handle(u) /\ zip'[u] = zip[u]
<1>1. t \in Exporter /\ u \in Exporter
  BY DEF Active
<1>2. ~job[u].alone
  BY DEF ExportInv, CompanyInv
<1>3. ASSUME job[u].own
      PROVE  Handle(u)' = Handle(u) /\ zip'[u] = zip[u]
  <2>1. HostOf[u] # HostOf[t]
    BY <1>3 DEF ExportInv, CompanyInv
  <2>2. Handle(u)' = Handle(u)
    BY <1>1, <2>1, HostTyped DEF Reaches, Handle
  <2>3. u # Handle(t)
    <3>1. u # Absent
      BY <1>1, ExportAssumption
    <3> QED
      BY <1>1, <2>1, <3>1, HostTyped DEF ExportInv, ExporterInv, Handle
  <2> QED
    BY <1>1, <2>2, <2>3 DEF Reaches
<1> QED
  BY <1>2, <1>3

(***************************************************************************)
(* A step that takes the export of thread t to r, still the same export,   *)
(* or ended.                                                               *)
(***************************************************************************)
Goes(t, r) ==
  /\ r \in Job /\ job' = [job EXCEPT ![t] = r]
  /\ r.alone = job[t].alone /\ r.own = job[t].own
  /\ r.pc \notin {"idle", "dead"} => r.corpus \in Corpus

LEMMA GoesStep ==
  ASSUME ExportInv, NEW t \in Active, NEW r, Goes(t, r)
  PROVE  /\ t \in Exporter
         /\ job' \in [Exporter -> Job] /\ job'[t] = r
         /\ \A u \in Exporter \ {t} : job'[u] = job[u]
         /\ Active' = IF r.pc \in {"idle", "dead"} THEN Active \ {t} ELSE Active
<1>1. t \in Exporter
  BY DEF Active
<1>2. /\ job' \in [Exporter -> Job] /\ job'[t] = r
      /\ \A u \in Exporter \ {t} : job'[u] = job[u]
  BY <1>1 DEF Goes, ExportInv, ExportTypeOK
<1> QED
  BY <1>1, <1>2 DEF Active

\* What remains to be shown of such a step is what it does to its own export.
LEMMA GoesKeeps ==
  ASSUME ExportInv, NEW t \in Active, NEW r, Goes(t, r), Reaches(t),
         r.pc \notin {"idle", "dead"} /\ r.own => OwnAt(t, r, Handle(t)', zip'[t]),
         r.pc \notin {"idle", "dead"} /\ r.alone => AloneAt(t, r, csv', streams', archive')
  PROVE  CompanyInv' /\ OwnInv' /\ AloneInv'
<1>1. /\ t \in Exporter /\ job'[t] = r
      /\ \A u \in Exporter \ {t} : job'[u] = job[u]
      /\ Active' = IF r.pc \in {"idle", "dead"} THEN Active \ {t} ELSE Active
  BY GoesStep
<1>2. Active \subseteq Exporter /\ Active' \subseteq Active
      /\ (t \in Active' => r.pc \notin {"idle", "dead"})
  BY <1>1 DEF Active
<1>3. \A u \in Active : job'[u].alone = job[u].alone /\ job'[u].own = job[u].own
  BY <1>1, <1>2 DEF Goes
<1>4. CompanyInv'
  BY <1>2, <1>3 DEF ExportInv, CompanyInv
<1>5. ASSUME NEW u \in Active', job'[u].own
      PROVE  OwnAt(u, job'[u], Handle(u)', zip'[u])
  <2>1. CASE u = t
    BY <1>1, <1>2, <1>5, <2>1
  <2>2. CASE u # t
    <3>1. u \in Active \ {t} /\ job'[u] = job[u]
      BY <1>1, <1>2, <2>2
    <3>2. Handle(u)' = Handle(u) /\ zip'[u] = zip[u]
      BY <1>5, <3>1, OthersKeep
    <3>3. OwnAt(u, job[u], Handle(u), zip[u])
      BY <1>5, <3>1 DEF ExportInv, OwnInv
    <3> QED
      BY <3>1, <3>2, <3>3
  <2> QED
    BY <2>1, <2>2
<1>6. ASSUME NEW u \in Active', job'[u].alone
      PROVE  AloneAt(u, job'[u], csv', streams', archive')
  <2>1. u = t
    BY <1>1, <1>2, <1>6, OthersKeep
  <2> QED
    BY <1>1, <1>2, <1>6, <2>1
<1>7. OwnInv'
  BY <1>5 DEF OwnInv
<1>8. AloneInv'
  BY <1>6 DEF AloneInv
<1> QED
  BY <1>4, <1>7, <1>8

LEMMA ToGoes ==
  ASSUME ExportInv, NEW t \in Active, NEW from, NEW to \in Filling \cup {"remove", "end"},
         Step(t, from, To(t, to))
  PROVE  /\ Goes(t, To(t, to)) /\ To(t, to).pc = to /\ To(t, to).corpus = job[t].corpus
         /\ To(t, to).todo = job[t].todo /\ To(t, to).wrote = job[t].wrote
         /\ To(t, to).alone = job[t].alone /\ To(t, to).own = job[t].own
         /\ job[t].pc = from /\ UNCHANGED <<done, failed>>
<1> DEFINE r == To(t, to)
<1>1. job[t] \in Job /\ job[t].corpus \in Corpus
  BY DEF ExportInv, ExportTypeOK, Active
<1>2. /\ r \in Job /\ r.pc = to /\ r.corpus = job[t].corpus
      /\ r.todo = job[t].todo /\ r.wrote = job[t].wrote
      /\ r.alone = job[t].alone /\ r.own = job[t].own
  BY <1>1 DEF To, Job, Filling
<1>3. job' = [job EXCEPT ![t] = r] /\ job[t].pc = from /\ UNCHANGED <<done, failed>>
  BY DEF Step
<1> QED
  BY <1>1, <1>2, <1>3 DEF Goes

LEMMA NoJobTyped == NoJob \in Job /\ NoJob.pc = "idle"
BY DEF NoJob, Job

\* The types, for a step that takes thread t to r.
LEMMA TypesKeep ==
  ASSUME ExportInv, NEW t \in Active, NEW r, Goes(t, r),
         archive' \in [Corpus -> Content \cup {Absent}],
         csv' \in Corpus \cup {Absent, Blank}, streams' \subseteq Exporter,
         current' \in [Host -> Exporter \cup {Absent}],
         zip' \in [Exporter -> Zip],
         \A u \in Exporter : zip'[u].open => zip'[u].corpus \in Corpus,
         UNCHANGED done, failed' \in BOOLEAN
  PROVE  ExportTypeOK'
<1>1. /\ t \in Exporter /\ job' \in [Exporter -> Job] /\ job'[t] = r
      /\ \A u \in Exporter \ {t} : job'[u] = job[u]
  BY GoesStep
<1>2. \A u \in Exporter : job'[u].pc \notin {"idle", "dead"} => job'[u].corpus \in Corpus
  BY <1>1 DEF Goes, ExportInv, ExportTypeOK
<1> QED
  BY <1>1, <1>2 DEF ExportInv, ExportTypeOK

\* The file stays as it is, with an export that will remove it.
LEMMA LeftKeeps ==
  ASSUME ExportInv, NEW t \in Active, NEW r, Goes(t, r), UNCHANGED <<csv, failed>>,
         job[t].pc \in {"fill", "meta", "add", "close", "remove"}
           => r.pc \in {"fill", "meta", "add", "close", "remove"}
  PROVE  LeftInv'
<1>1. /\ t \in Exporter /\ job'[t] = r
      /\ \A u \in Exporter \ {t} : job'[u] = job[u]
  BY GoesStep
<1>2. CASE ~failed /\ csv # Absent
  <2>1. PICK u \in Exporter : job[u].pc \in {"fill", "meta", "add", "close", "remove"}
    BY <1>2 DEF ExportInv, LeftInv
  <2>2. job'[u].pc \in {"fill", "meta", "add", "close", "remove"}
    BY <1>1, <2>1
  <2> QED
    BY <2>2 DEF LeftInv
<1>3. CASE ~(~failed /\ csv # Absent)
  BY <1>3 DEF LeftInv
<1> QED
  BY <1>2, <1>3

(***************************************************************************)
(* The steps of an export.                                                 *)
(***************************************************************************)
\* The steps that leave the archives and the handles alone.
LEMMA QuietKeeps ==
  ASSUME ExportInv, NEW t \in Active, NEW r, Goes(t, r), UNCHANGED <<archive, current, zip, done, failed>>,
         csv' \in Corpus \cup {Absent, Blank}, streams' \subseteq Exporter, LeftInv',
         r.pc \notin {"idle", "dead"} /\ r.own => OwnAt(t, r, Handle(t), zip[t]),
         r.pc \notin {"idle", "dead"} /\ r.alone => AloneAt(t, r, csv', streams', archive)
  PROVE  ExportInv'
<1>1. t \in Exporter
  BY DEF Active
<1>2. Reaches(t) /\ Handle(t)' = Handle(t)
  BY <1>1 DEF Reaches, Handle
<1>3. CompanyInv' /\ OwnInv' /\ AloneInv'
  BY <1>1, <1>2, GoesKeeps
<1>4. ExportTypeOK'
  BY <1>1, TypesKeep DEF ExportInv, ExportTypeOK
<1>5. ExporterInv'
  BY DEF ExportInv, ExporterInv
<1> QED
  BY <1>3, <1>4, <1>5 DEF ExportInv

LEMMA OpenCsvKeeps ==
  ASSUME ExportInv, NEW t \in Active, OpenCsv(t)
  PROVE  ExportInv'
<1> DEFINE r == To(t, "fill")
<1>1. /\ Goes(t, r) /\ r.pc = "fill" /\ r.corpus = job[t].corpus
      /\ r.todo = job[t].todo /\ r.wrote = job[t].wrote
      /\ job[t].pc = "csv" /\ UNCHANGED <<done, failed>>
  BY ToGoes DEF OpenCsv, Filling
<1>2. /\ csv' = Blank /\ streams' = streams \cup {t} /\ UNCHANGED <<archive, current, zip>>
      /\ streams' \subseteq Exporter
  BY DEF OpenCsv, ExportInv, ExportTypeOK, Active
<1>3. r.own => OwnAt(t, r, Handle(t), zip[t])
  BY <1>1 DEF ExportInv, OwnInv, OwnAt, Goes, Filling
<1>4. r.alone => AloneAt(t, r, csv', streams', archive)
  BY <1>1, <1>2 DEF AloneAt
<1>5. LeftInv'
  BY <1>1, GoesStep DEF LeftInv
<1> HIDE DEF r
<1> QED
  BY <1>1, <1>2, <1>3, <1>4, <1>5, QuietKeeps

LEMMA FillCsvKeeps ==
  ASSUME ExportInv, NEW t \in Active, FillCsv(t)
  PROVE  ExportInv'
<1> DEFINE r == To(t, "meta")
<1>1. /\ Goes(t, r) /\ r.pc = "meta" /\ r.corpus = job[t].corpus
      /\ r.todo = job[t].todo /\ r.wrote = job[t].wrote
      /\ job[t].pc = "fill" /\ UNCHANGED <<done, failed>>
  BY ToGoes DEF FillCsv, Filling
<1>2. /\ csv' = IF t \in streams THEN job[t].corpus ELSE csv
      /\ streams' \subseteq Exporter /\ UNCHANGED <<archive, current, zip>>
  BY DEF FillCsv, ExportInv, ExportTypeOK
<1>3. r.own => OwnAt(t, r, Handle(t), zip[t])
  BY <1>1 DEF ExportInv, OwnInv, OwnAt, Goes, Filling
<1>4. r.alone => AloneAt(t, r, csv', streams', archive)
  <2>1. job[t].alone => t \in streams
    BY <1>1 DEF ExportInv, AloneInv, AloneAt
  <2> QED
    BY <1>1, <1>2, <2>1 DEF AloneAt, Goes
<1>5. LeftInv'
  BY <1>1, GoesStep DEF LeftInv
<1>6. csv' \in Corpus \cup {Absent, Blank}
  BY <1>2 DEF ExportInv, ExportTypeOK, Active
<1> HIDE DEF r
<1> QED
  BY <1>1, <1>2, <1>3, <1>4, <1>5, <1>6, QuietKeeps

LEMMA RemoveCsvKeeps ==
  ASSUME ExportInv, NEW t \in Active, RemoveCsv(t)
  PROVE  ExportInv'
<1> DEFINE r == To(t, "end")
<1>1. /\ Goes(t, r) /\ r.pc = "end" /\ UNCHANGED <<done, failed>>
  BY ToGoes DEF RemoveCsv, Filling
<1>2. csv' = Absent /\ streams' = {} /\ UNCHANGED <<archive, current, zip>>
  BY DEF RemoveCsv
<1>3. OwnAt(t, r, Handle(t), zip[t]) /\ AloneAt(t, r, csv', streams', archive)
  BY <1>1 DEF OwnAt, AloneAt, Filling
<1>4. LeftInv'
  BY <1>2 DEF LeftInv
<1> HIDE DEF r
<1> QED
  BY <1>1, <1>2, <1>3, <1>4, QuietKeeps

\* Exports that end, by themselves or with their process, leave the others alone
\* that are still active.
LEMMA EndsKeep ==
  ASSUME ExportInv, Active' \subseteq Active, \A u \in Active' : job'[u] = job[u],
         job' \in [Exporter -> Job], failed' \in BOOLEAN, LeftInv',
         done' \in [exports : 0..MaxExports, faults : 0..MaxFaults],
         streams' \subseteq streams, \A u \in Active' : u \in streams => u \in streams',
         UNCHANGED <<archive, csv, current, zip>>
  PROVE  ExportInv'
<1>1. Active \subseteq Exporter /\ Active' = {u \in Exporter : job'[u].pc \notin {"idle", "dead"}}
  BY DEF Active
<1>2. ExportTypeOK'
  <2>1. \A u \in Exporter : job'[u].pc \notin {"idle", "dead"} => job'[u].corpus \in Corpus
    BY <1>1 DEF ExportInv, ExportTypeOK, Active
  <2> QED
    BY <2>1 DEF ExportInv, ExportTypeOK
<1>3. CompanyInv'
  BY DEF ExportInv, CompanyInv
<1>4. ExporterInv'
  BY DEF ExportInv, ExporterInv
<1>5. OwnInv'
  <2>1. ASSUME NEW u \in Active', job'[u].own PROVE OwnAt(u, job'[u], Handle(u)', zip'[u])
    BY <2>1 DEF ExportInv, OwnInv, Handle
  <2> QED BY <2>1 DEF OwnInv
<1>6. AloneInv'
  <2>1. ASSUME NEW u \in Active', job'[u].alone PROVE AloneAt(u, job'[u], csv', streams', archive')
    <3>1. u \in Active /\ job'[u] = job[u]
      OBVIOUS
    <3>2. AloneAt(u, job[u], csv, streams, archive)
      BY <2>1, <3>1 DEF ExportInv, AloneInv
    <3> QED
      BY <3>1, <3>2 DEF AloneAt
  <2> QED BY <2>1 DEF AloneInv
<1> QED
  BY <1>2, <1>3, <1>4, <1>5, <1>6 DEF ExportInv

LEMMA EndKeeps ==
  ASSUME ExportInv, NEW t \in Active, End(t)
  PROVE  ExportInv'
<1>1. /\ job[t].pc = "end" /\ job' = [job EXCEPT ![t] = NoJob]
      /\ UNCHANGED <<archive, csv, streams, current, zip, done, failed>>
  BY DEF End, Step
<1>2. /\ t \in Exporter /\ job' \in [Exporter -> Job] /\ job'[t].pc = "idle"
      /\ \A u \in Exporter \ {t} : job'[u] = job[u]
  BY <1>1, NoJobTyped DEF ExportInv, ExportTypeOK, Active
<1>3. Active' = Active \ {t}
  BY <1>2 DEF Active
<1>4. LeftInv'
  BY <1>1, <1>2 DEF ExportInv, LeftInv
<1> QED
  BY <1>1, <1>2, <1>3, <1>4, EndsKeep DEF ExportInv, ExportTypeOK, Active

LEMMA FaultTyped ==
  ASSUME ExportInv, done.faults < MaxFaults
  PROVE  [done EXCEPT !.faults = @ + 1] \in [exports : 0..MaxExports, faults : 0..MaxFaults]
BY ExportAssumption DEF ExportInv, ExportTypeOK

LEMMA FillFailsKeeps ==
  ASSUME ExportInv, NEW t \in Active, FillFails(t)
  PROVE  ExportInv'
<1>1. /\ job' = [job EXCEPT ![t] = NoJob] /\ failed' = TRUE /\ streams' = streams \ {t}
      /\ UNCHANGED <<archive, csv, current, zip>>
      /\ done' \in [exports : 0..MaxExports, faults : 0..MaxFaults]
  BY FaultTyped DEF FillFails
<1>2. /\ t \in Exporter /\ job' \in [Exporter -> Job] /\ job'[t].pc = "idle"
      /\ \A u \in Exporter \ {t} : job'[u] = job[u]
  BY <1>1, NoJobTyped DEF ExportInv, ExportTypeOK, Active
<1>3. Active' = Active \ {t}
  BY <1>2 DEF Active
<1>4. LeftInv'
  BY <1>1 DEF LeftInv
<1> QED
  BY <1>1, <1>2, <1>3, <1>4, EndsKeep DEF Active

LEMMA UseClosedKeeps ==
  ASSUME ExportInv, NEW t \in Active, UseClosed(t)
  PROVE  ExportInv'
<1> DEFINE dead == [NoJob EXCEPT !.pc = "dead"]
<1>1. /\ job' = [u \in Exporter |-> IF HostOf[u] = HostOf[t] THEN dead ELSE job[u]]
      /\ streams' = {u \in streams : HostOf[u] # HostOf[t]} /\ failed' = TRUE
      /\ UNCHANGED <<archive, csv, current, zip, done>>
  BY DEF UseClosed
<1>2. dead \in Job /\ dead.pc = "dead"
  BY DEF NoJob, Job
<1> HIDE DEF dead
<1>3. /\ job' \in [Exporter -> Job]
      /\ \A u \in Exporter : job'[u] = job[u] \/ job'[u].pc = "dead"
  BY <1>1, <1>2 DEF ExportInv, ExportTypeOK
<1>4. Active' \subseteq Active /\ \A u \in Active' : job'[u] = job[u]
  BY <1>3 DEF Active
<1>5. LeftInv'
  BY <1>1 DEF LeftInv
<1>6. \A u \in Active' : u \in streams => u \in streams'
  BY <1>1, <1>2 DEF Active
<1>7. streams' \subseteq streams
  BY <1>1
<1> QED
  BY <1>1, <1>3, <1>4, <1>5, <1>6, <1>7, EndsKeep DEF ExportInv, ExportTypeOK

LEMMA OpenKeeps ==
  ASSUME ExportInv, NEW t \in Active, Open(t)
  PROVE  ExportInv'
<1> DEFINE c == job[t].corpus
           new == archive[c] = Absent
           z == [NoZip EXCEPT !.corpus = c, !.open = TRUE]
<1>1. PICK to \in {"csv", "end"} : Step(t, "open", To(t, to)) /\ (to = "csv" => new)
  BY DEF Open
<1> DEFINE r == To(t, to)
<1>2. /\ Goes(t, r) /\ r.pc = to /\ r.corpus = c /\ r.todo = job[t].todo
      /\ r.wrote = job[t].wrote /\ job[t].pc = "open" /\ UNCHANGED <<done, failed>>
  BY <1>1, ToGoes DEF Filling
<1>3. t \in Exporter /\ c \in Corpus /\ HostOf[t] \in Host
  BY HostTyped DEF ExportInv, ExportTypeOK, Active
<1>4. /\ current' = [current EXCEPT ![HostOf[t]] = IF new THEN t ELSE Absent]
      /\ zip' = IF new THEN [zip EXCEPT ![t] = z] ELSE zip
      /\ UNCHANGED <<archive, csv, streams>>
  BY DEF Open
<1>5. z \in Zip /\ z.corpus = c /\ z.open /\ z.files = {} /\ z.meta = FALSE
  BY <1>3 DEF NoZip, Zip
<1> HIDE DEF r, new, z
<1>6. /\ current' \in [Host -> Exporter \cup {Absent}]
      /\ Handle(t)' = IF new THEN t ELSE Absent
      /\ \A p \in Host \ {HostOf[t]} : current'[p] = current[p]
  BY <1>3, <1>4 DEF ExportInv, ExportTypeOK, Handle
<1>7. /\ zip' \in [Exporter -> Zip]
      /\ new => zip'[t] = z
      /\ \A u \in Exporter \ {t} : zip'[u] = zip[u]
      /\ \A u \in Exporter : zip'[u].open => zip'[u].corpus \in Corpus
  BY <1>3, <1>4, <1>5 DEF ExportInv, ExportTypeOK
<1>8. Reaches(t)
  BY <1>6, <1>7 DEF Reaches
<1>9. ExporterInv'
  <2>1. ASSUME NEW p \in Host, current'[p] # Absent PROVE HostOf[current'[p]] = p
    <3>1. CASE p = HostOf[t]
      BY <1>6, <2>1, <3>1 DEF Handle
    <3>2. CASE p # HostOf[t]
      BY <1>6, <2>1, <3>2 DEF ExportInv, ExporterInv
    <3> QED BY <3>1, <3>2
  <2> QED BY <2>1 DEF ExporterInv
<1>10. ASSUME r.own PROVE OwnAt(t, r, Handle(t)', zip'[t])
  <2>1. CASE to = "end"
    BY <1>2, <2>1 DEF OwnAt, Filling
  <2>2. CASE to = "csv"
    <3>1. Handle(t)' = t /\ zip'[t] = z
      BY <1>1, <1>6, <1>7, <2>2
    <3>2. job[t].todo = FilesOf[c] /\ job[t].wrote = Absent
      BY <1>2, <1>10 DEF ExportInv, OwnInv, OwnAt, Goes
    <3> QED
      BY <1>2, <1>5, <2>2, <3>1, <3>2 DEF OwnAt, Filling
  <2> QED BY <2>1, <2>2
<1>11. AloneAt(t, r, csv', streams', archive')
  BY <1>2 DEF AloneAt
<1>12. CompanyInv' /\ OwnInv' /\ AloneInv'
  BY <1>2, <1>8, <1>10, <1>11, GoesKeeps
<1>13. ExportTypeOK'
  <2>1. /\ archive' \in [Corpus -> Content \cup {Absent}]
        /\ csv' \in Corpus \cup {Absent, Blank} /\ streams' \subseteq Exporter
        /\ failed' \in BOOLEAN
    BY <1>2, <1>4 DEF ExportInv, ExportTypeOK
  <2> QED
    BY <1>2, <1>6, <1>7, <2>1, TypesKeep
<1>14. LeftInv'
  BY <1>2, <1>4, LeftKeeps
<1> QED
  BY <1>9, <1>12, <1>13, <1>14 DEF ExportInv

(***************************************************************************)
(* What is added goes into the archive whose handle the process has.       *)
(***************************************************************************)
LEMMA UsingStep ==
  ASSUME ExportInv, NEW t \in Active, NEW z, UNCHANGED current,
         IF Handle(t) # Absent /\ zip[Handle(t)].open
         THEN z \in Zip /\ (z.open => z.corpus \in Corpus) /\ zip' = [zip EXCEPT ![Handle(t)] = z]
         ELSE UNCHANGED zip
  PROVE  /\ Reaches(t)
         /\ zip' \in [Exporter -> Zip]
         /\ \A u \in Exporter : zip'[u].open => zip'[u].corpus \in Corpus
         /\ Handle(t)' = Handle(t)
         /\ Handle(t) = t /\ zip[t].open => zip'[t] = z
         /\ ExporterInv'
<1>1. t \in Exporter /\ HostOf[t] \in Host
  BY HostTyped DEF Active
<1>2. Handle(t)' = Handle(t) /\ Handle(t) \in Exporter \cup {Absent}
  BY <1>1 DEF Handle, ExportInv, ExportTypeOK
<1>3. ExporterInv'
  BY DEF ExportInv, ExporterInv
<1>4. \A p \in Host \ {HostOf[t]} : current'[p] = current[p]
  OBVIOUS
<1>5. CASE Handle(t) # Absent /\ zip[Handle(t)].open
  <2> DEFINE h == Handle(t)
  <2>1. h \in Exporter /\ zip' = [zip EXCEPT ![h] = z] /\ z \in Zip
        /\ (z.open => z.corpus \in Corpus)
    BY <1>2, <1>5
  <2> HIDE DEF h
  <2>2. /\ zip' \in [Exporter -> Zip] /\ zip'[h] = z
        /\ \A u \in Exporter \ {h} : zip'[u] = zip[u]
    BY <2>1 DEF ExportInv, ExportTypeOK
  <2>3. \A u \in Exporter : zip'[u].open => zip'[u].corpus \in Corpus
    BY <2>1, <2>2 DEF ExportInv, ExportTypeOK
  <2> QED
    BY <1>2, <1>3, <1>4, <2>2, <2>3 DEF h, Reaches
<1>6. CASE ~(Handle(t) # Absent /\ zip[Handle(t)].open)
  <2>1. zip' = zip
    BY <1>6
  <2>2. t # Absent
    BY <1>1, ExportAssumption
  <2> QED
    BY <1>2, <1>3, <1>4, <1>6, <2>1, <2>2 DEF Reaches, ExportInv, ExportTypeOK
<1> QED
  BY <1>5, <1>6

\* An addition, by an export that goes to r.
LEMMA AddKeeps ==
  ASSUME ExportInv, NEW t \in Active, NEW r, Goes(t, r), NEW z,
         UNCHANGED <<archive, csv, streams, current, done, failed>>,
         IF Handle(t) # Absent /\ zip[Handle(t)].open
         THEN z \in Zip /\ z.corpus \in Corpus /\ zip' = [zip EXCEPT ![Handle(t)] = z]
         ELSE UNCHANGED zip,
         job[t].pc \in {"meta", "add"}, r.pc \in {"add", "close"}, r.corpus = job[t].corpus,
         r.own /\ Handle(t) = t => OwnAt(t, r, t, z)
  PROVE  ExportInv'
<1>1. /\ Reaches(t) /\ ExporterInv' /\ Handle(t)' = Handle(t)
      /\ zip' \in [Exporter -> Zip]
      /\ \A u \in Exporter : zip'[u].open => zip'[u].corpus \in Corpus
      /\ Handle(t) = t /\ zip[t].open => zip'[t] = z
  BY UsingStep
<1>2. ASSUME r.own PROVE OwnAt(t, r, Handle(t)', zip'[t])
  <2>1. Handle(t) = t /\ zip[t].open
    BY <1>2 DEF ExportInv, OwnInv, OwnAt, Goes, Filling
  <2> QED
    BY <1>1, <1>2, <2>1
<1>3. r.alone => AloneAt(t, r, csv', streams', archive')
  BY DEF ExportInv, AloneInv, AloneAt, Goes
<1>4. CompanyInv' /\ OwnInv' /\ AloneInv'
  BY <1>1, <1>2, <1>3, GoesKeeps
<1>5. ExportTypeOK'
  BY <1>1, TypesKeep DEF ExportInv, ExportTypeOK
<1>6. LeftInv'
  BY LeftKeeps
<1> QED
  BY <1>1, <1>4, <1>5, <1>6 DEF ExportInv

LEMMA AddMetadataKeeps ==
  ASSUME ExportInv, NEW t \in Active, AddMetadata(t)
  PROVE  ExportInv'
<1> DEFINE r == To(t, "add")
           h == Handle(t)
           z == [zip[h] EXCEPT !.meta = TRUE]
<1>1. /\ Goes(t, r) /\ r.pc = "add" /\ r.corpus = job[t].corpus
      /\ r.todo = job[t].todo /\ r.wrote = job[t].wrote /\ r.own = job[t].own
      /\ job[t].pc = "meta" /\ UNCHANGED <<done, failed>>
  BY ToGoes DEF AddMetadata, Filling
<1>2. UNCHANGED <<archive, csv, streams, current>>
  BY DEF AddMetadata
<1>3. CASE h # Absent /\ zip[h].open
  <2>1. zip' = [zip EXCEPT ![h] = z]
    BY <1>3 DEF AddMetadata, Using
  <2>2. h \in Exporter
    BY <1>3, HostTyped DEF Handle, ExportInv, ExportTypeOK, Active
  <2>3. zip[h] \in Zip /\ zip[h].corpus \in Corpus
    BY <1>3, <2>2 DEF ExportInv, ExportTypeOK
  <2>4. /\ z \in Zip /\ z.corpus = zip[h].corpus /\ z.open = zip[h].open
        /\ z.files = zip[h].files /\ z.meta = TRUE
    BY <2>3 DEF Zip
  <2>5. ASSUME r.own, h = t PROVE OwnAt(t, r, t, z)
    <3>1. OwnAt(t, job[t], h, zip[t])
      BY <1>1, <2>5 DEF ExportInv, OwnInv
    <3> QED
      BY <1>1, <2>4, <2>5, <3>1 DEF OwnAt, Filling
  <2> HIDE DEF r, z, h
  <2> QED
    BY <1>1, <1>2, <1>3, <2>1, <2>3, <2>4, <2>5, AddKeeps DEF h
<1>4. CASE ~(h # Absent /\ zip[h].open)
  <2>1. UNCHANGED zip
    BY <1>4 DEF AddMetadata, Using
  <2>2. ASSUME r.own PROVE FALSE
    <3>1. OwnAt(t, job[t], h, zip[t]) /\ t # Absent
      BY <1>1, <2>2, ExportAssumption DEF ExportInv, OwnInv, Active
    <3> QED
      BY <1>1, <1>4, <3>1 DEF OwnAt, Filling
  <2> HIDE DEF r
  <2> QED
    BY <1>1, <1>2, <1>4, <2>1, <2>2, AddKeeps
<1> QED
  BY <1>3, <1>4

LEMMA AddOneKeeps ==
  ASSUME ExportInv, NEW t \in Active, NEW f \in job[t].todo,
         Step(t, "add", [job[t] EXCEPT !.todo = @ \ {f}]),
         Using(t, zip' = [zip EXCEPT ![Handle(t)].files = @ \cup {f}]),
         UNCHANGED <<archive, csv, streams, current>>
  PROVE  ExportInv'
<1> DEFINE r == [job[t] EXCEPT !.todo = job[t].todo \ {f}]
           h == Handle(t)
           z == [zip[h] EXCEPT !.files = zip[h].files \cup {f}]
<1>1. job[t] \in Job /\ job[t].corpus \in Corpus /\ f \in File
  BY DEF ExportInv, ExportTypeOK, Active, Job
<1>2. job[t].pc = "add" /\ job' = [job EXCEPT ![t] = r] /\ UNCHANGED <<done, failed>>
  BY DEF Step
<1>3. /\ Goes(t, r) /\ r.pc = "add" /\ r.corpus = job[t].corpus
      /\ r.todo = job[t].todo \ {f} /\ r.wrote = job[t].wrote /\ r.own = job[t].own
  BY <1>1, <1>2 DEF Goes, Job
<1>4. CASE h # Absent /\ zip[h].open
  <2>1. zip' = [zip EXCEPT ![h] = z]
    BY <1>4 DEF Using
  <2>2. h \in Exporter
    BY <1>4, HostTyped DEF Handle, ExportInv, ExportTypeOK, Active
  <2>3. zip[h] \in Zip /\ zip[h].corpus \in Corpus
    BY <1>4, <2>2 DEF ExportInv, ExportTypeOK
  <2>4. /\ z \in Zip /\ z.corpus = zip[h].corpus /\ z.open = zip[h].open
        /\ z.files = zip[h].files \cup {f} /\ z.meta = zip[h].meta
    BY <1>1, <2>3 DEF Zip
  <2>5. ASSUME r.own, h = t PROVE OwnAt(t, r, t, z)
    <3>1. OwnAt(t, job[t], h, zip[t])
      BY <1>3, <2>5 DEF ExportInv, OwnInv
    <3>2. job[t].todo \subseteq FilesOf[r.corpus] /\ zip[t].files = FilesOf[r.corpus] \ job[t].todo
      BY <1>2, <1>3, <3>1 DEF OwnAt, Filling
    <3>3. z.files = FilesOf[r.corpus] \ r.todo /\ r.todo \subseteq FilesOf[r.corpus]
      BY <1>3, <2>4, <2>5, <3>2
    <3> QED
      BY <1>2, <1>3, <2>4, <2>5, <3>1, <3>3 DEF OwnAt, Filling
  <2> HIDE DEF r, z, h
  <2> QED
    BY <1>2, <1>3, <1>4, <2>1, <2>3, <2>4, <2>5, AddKeeps DEF h
<1>5. CASE ~(h # Absent /\ zip[h].open)
  <2>1. UNCHANGED zip
    BY <1>5 DEF Using
  <2>2. ASSUME r.own PROVE FALSE
    <3>1. OwnAt(t, job[t], h, zip[t]) /\ t # Absent
      BY <1>3, <2>2, ExportAssumption DEF ExportInv, OwnInv, Active
    <3> QED
      BY <1>2, <1>5, <3>1 DEF OwnAt, Filling
  <2> HIDE DEF r
  <2> QED
    BY <1>2, <1>3, <1>5, <2>1, <2>2, AddKeeps
<1> QED
  BY <1>4, <1>5

LEMMA AddFileKeeps ==
  ASSUME ExportInv, NEW t \in Active, AddFile(t)
  PROVE  ExportInv'
<1>1. UNCHANGED <<archive, csv, streams, current>>
  BY DEF AddFile
<1>2. CASE \E f \in job[t].todo :
             /\ Step(t, "add", [job[t] EXCEPT !.todo = @ \ {f}])
             /\ Using(t, zip' = [zip EXCEPT ![Handle(t)].files = @ \cup {f}])
  BY <1>1, <1>2, AddOneKeeps
<1>3. CASE job[t].todo = {} /\ Step(t, "add", To(t, "close")) /\ UNCHANGED zip
  <2> DEFINE r == To(t, "close")
  <2>1. /\ Goes(t, r) /\ r.pc = "close" /\ r.corpus = job[t].corpus
        /\ r.todo = {} /\ r.wrote = job[t].wrote
        /\ job[t].pc = "add" /\ UNCHANGED <<done, failed>>
    BY <1>3, ToGoes DEF Filling
  <2>2. r.own => OwnAt(t, r, Handle(t), zip[t])
    BY <1>3, <2>1 DEF ExportInv, OwnInv, OwnAt, Goes, Filling
  <2>3. r.alone => AloneAt(t, r, csv, streams, archive)
    BY <2>1 DEF ExportInv, AloneInv, AloneAt, Goes
  <2>4. csv \in Corpus \cup {Absent, Blank} /\ streams \subseteq Exporter
    BY DEF ExportInv, ExportTypeOK
  <2>5. LeftInv'
    BY <1>1, <2>1, LeftKeeps
  <2> HIDE DEF r
  <2> QED
    BY <1>1, <1>3, <2>1, <2>2, <2>3, <2>4, <2>5, QuietKeeps
<1> QED
  BY <1>2, <1>3 DEF AddFile

(***************************************************************************)
(* zip_close: the archive of the process is written and its handle gone,   *)
(* or nothing happens.                                                     *)
(***************************************************************************)
LEMMA WritesKeeps ==
  ASSUME ExportInv, NEW t \in Active, Close(t),
         Handle(t) # Absent, zip[Handle(t)].open, zip[Handle(t)].meta => csv # Absent
  PROVE  ExportInv'
<1> DEFINE h == Handle(t)
           content == [files |-> zip[h].files, meta |-> IF zip[h].meta THEN csv ELSE Absent]
           q == To(t, "remove")
           r == [q EXCEPT !.wrote = content]
<1>1. /\ job[t].pc = "close" /\ job' = [job EXCEPT ![t] = r]
      /\ archive' = [archive EXCEPT ![zip[h].corpus] = content]
      /\ zip' = [zip EXCEPT ![h] = NoZip]
      /\ UNCHANGED <<csv, streams, current, done, failed>>
  BY DEF Close, Step
<1>2. t \in Exporter /\ h \in Exporter /\ zip[h] \in Zip /\ zip[h].corpus \in Corpus
  <2>1. t \in Exporter /\ h \in Exporter
    BY HostTyped DEF Handle, ExportInv, ExportTypeOK, Active
  <2> HIDE DEF h
  <2> QED
    BY <2>1 DEF h, ExportInv, ExportTypeOK
<1>3. content \in Content
  BY <1>2 DEF Content, Zip, ExportInv, ExportTypeOK
<1>4. /\ r \in Job /\ r.pc = "remove" /\ r.corpus = job[t].corpus /\ r.own = job[t].own
      /\ r.alone = job[t].alone /\ r.wrote = content
  <2>1. job[t] \in Job
    BY <1>2 DEF ExportInv, ExportTypeOK
  <2>2. /\ q \in Job /\ q.pc = "remove" /\ q.corpus = job[t].corpus /\ q.own = job[t].own
        /\ q.alone = job[t].alone
    BY <2>1 DEF To, Job
  <2> HIDE DEF q, content
  <2> QED
    BY <1>3, <2>2 DEF Job
<1>5. Goes(t, r)
  <2>1. job[t].corpus \in Corpus
    BY <1>2 DEF ExportInv, ExportTypeOK, Active
  <2> HIDE DEF r
  <2> QED
    BY <1>1, <1>4, <2>1 DEF Goes
<1>6. NoZip \in Zip /\ ~NoZip.open
  BY DEF NoZip, Zip
<1>7. /\ Reaches(t) /\ ExporterInv'
      /\ zip' \in [Exporter -> Zip]
      /\ \A u \in Exporter : zip'[u].open => zip'[u].corpus \in Corpus
  BY <1>1, <1>6, UsingStep
<1>8. /\ archive' \in [Corpus -> Content \cup {Absent}]
      /\ archive'[zip[h].corpus] = content
  <2> HIDE DEF content, h
  <2> QED BY <1>1, <1>2, <1>3 DEF ExportInv, ExportTypeOK
<1>9. ASSUME job[t].own
      PROVE  /\ zip[h].files = FilesOf[r.corpus] /\ zip[h].corpus = r.corpus /\ zip[h].meta
  <2>1. OwnAt(t, job[t], h, zip[t])
    BY <1>9 DEF ExportInv, OwnInv
  <2>2. /\ h = t /\ zip[t].corpus = job[t].corpus /\ zip[t].meta
        /\ zip[t].files = FilesOf[job[t].corpus] \ job[t].todo /\ job[t].todo = {}
    BY <1>1, <2>1 DEF OwnAt, Filling
  <2> HIDE DEF h
  <2> QED BY <1>4, <2>2
<1>10. r.own => OwnAt(t, r, Handle(t)', zip'[t])
  <2> HIDE DEF r
  <2> QED BY <1>4, <1>9 DEF OwnAt, Filling
<1>11. ASSUME r.alone PROVE AloneAt(t, r, csv', streams', archive')
  <2>1. job[t].alone /\ job[t].own
    BY <1>4, <1>11 DEF ExportInv, CompanyInv
  <2>2. csv = r.corpus
    BY <1>1, <1>4, <2>1 DEF ExportInv, AloneInv, AloneAt
  <2>3. /\ content = [files |-> FilesOf[r.corpus], meta |-> r.corpus]
        /\ archive'[r.corpus] = content
    <3> HIDE DEF r, h
    <3> QED BY <1>8, <1>9, <2>1, <2>2
  <2> HIDE DEF r, content
  <2> QED BY <1>4, <2>3 DEF AloneAt
<1> HIDE DEF r
<1>12. CompanyInv' /\ OwnInv' /\ AloneInv'
  BY <1>5, <1>7, <1>10, <1>11, GoesKeeps
<1>13. ExportTypeOK'
  <2>1. csv' \in Corpus \cup {Absent, Blank} /\ failed' \in BOOLEAN
        /\ streams' \subseteq Exporter
        /\ current' \in [Host -> Exporter \cup {Absent}]
    BY <1>1 DEF ExportInv, ExportTypeOK
  <2> QED BY <1>1, <1>5, <1>7, <1>8, <2>1, TypesKeep
<1>14. LeftInv'
  BY <1>1, <1>4, <1>5, LeftKeeps
<1> QED
  BY <1>7, <1>12, <1>13, <1>14 DEF ExportInv

LEMMA CloseKeeps ==
  ASSUME ExportInv, NEW t \in Active, Close(t)
  PROVE  ExportInv'
<1> DEFINE h == Handle(t)
<1>1. CASE h # Absent /\ zip[h].open /\ (zip[h].meta => csv # Absent)
  BY <1>1, WritesKeeps
<1>2. CASE ~(h # Absent /\ zip[h].open /\ (zip[h].meta => csv # Absent))
  <2> DEFINE r == To(t, "remove")
  <2>1. job[t].pc = "close" /\ Step(t, "close", r) /\ UNCHANGED <<archive, zip, csv, streams, current>>
    BY <1>2 DEF Close
  <2>2. /\ Goes(t, r) /\ r.pc = "remove" /\ r.corpus = job[t].corpus
        /\ r.wrote = job[t].wrote /\ r.own = job[t].own /\ r.alone = job[t].alone
        /\ UNCHANGED <<done, failed>>
    BY <2>1, ToGoes DEF Filling
  <2> HIDE DEF r
  <2>3. job[t].own => job[t].wrote = Absent /\ h = t /\ zip[t].open
    BY <2>1 DEF ExportInv, OwnInv, OwnAt, Filling
  <2>4. r.own => OwnAt(t, r, Handle(t), zip[t])
    BY <2>2, <2>3 DEF OwnAt, Filling
  <2>5. ~r.alone
    <3> SUFFICES ASSUME job[t].alone PROVE FALSE
      BY <2>2
    <3>1. job[t].own /\ csv = job[t].corpus /\ job[t].corpus \in Corpus /\ t \in Exporter
      BY <2>1 DEF ExportInv, CompanyInv, AloneInv, AloneAt, ExportTypeOK, Active
    <3> QED
      BY <1>2, <2>3, <3>1, ExportAssumption
  <2>6. csv \in Corpus \cup {Absent, Blank} /\ streams \subseteq Exporter
    BY DEF ExportInv, ExportTypeOK
  <2>7. LeftInv'
    BY <2>1, <2>2, LeftKeeps
  <2> QED
    BY <2>1, <2>2, <2>4, <2>5, <2>6, <2>7, QuietKeeps
<1> QED
  BY <1>1, <1>2

(***************************************************************************)
(* An export begins: those under way have company, and it has if there are *)
(* any.                                                                    *)
(***************************************************************************)
LEMMA BeginKeeps ==
  ASSUME ExportInv, NEW t \in Exporter, NEW c \in Corpus, Begin(t, c)
  PROVE  ExportInv'
<1> DEFINE beside(u) == HostOf[u] = HostOf[t]
           alone == Active = {}
           own == ~\E v \in Active : beside(v)
           new == [NoJob EXCEPT !.pc = "open", !.corpus = c, !.todo = FilesOf[c],
                     !.alone = alone, !.own = own]
           met(u) == [job[u] EXCEPT !.alone = FALSE, !.own = job[u].own /\ ~beside(u)]
<1>1. /\ job[t].pc = "idle"
      /\ done.exports < MaxExports /\ done' = [done EXCEPT !.exports = @ + 1]
      /\ job' = [u \in Exporter |-> IF u = t THEN new ELSE IF u \in Active THEN met(u) ELSE job[u]]
      /\ UNCHANGED <<archive, csv, streams, current, zip, failed>>
  BY DEF Begin
<1>2. alone \in BOOLEAN /\ own \in BOOLEAN /\ alone = (Active = {})
      /\ own = (~\E v \in Active : beside(v))
  OBVIOUS
<1>3. /\ new \in Job /\ new.pc = "open" /\ new.corpus = c /\ new.todo = FilesOf[c]
      /\ new.alone = alone /\ new.own = own /\ new.wrote = Absent
  <2> HIDE DEF alone, own
  <2>1. FilesOf[c] \subseteq File
    BY DEF File
  <2> QED
    BY <1>2, <2>1 DEF NoJob, Job
<1>4. ASSUME NEW u \in Exporter
      PROVE  /\ job[u] \in Job
             /\ met(u) \in Job /\ met(u).pc = job[u].pc /\ met(u).corpus = job[u].corpus
             /\ met(u).todo = job[u].todo /\ met(u).wrote = job[u].wrote /\ ~met(u).alone
             /\ met(u).own <=> job[u].own /\ ~beside(u)
  <2> DEFINE b == job[u].own /\ ~beside(u)
  <2>1. job[u] \in Job
    BY DEF ExportInv, ExportTypeOK
  <2>2. b \in BOOLEAN
    OBVIOUS
  <2>3. met(u) = [job[u] EXCEPT !.alone = FALSE, !.own = b]
    OBVIOUS
  <2> HIDE DEF b, met
  <2>4. /\ met(u) \in Job /\ met(u).pc = job[u].pc /\ met(u).corpus = job[u].corpus
        /\ met(u).todo = job[u].todo /\ met(u).wrote = job[u].wrote /\ met(u).alone = FALSE
        /\ met(u).own = b
    BY <2>1, <2>2, <2>3 DEF Job
  <2> QED
    BY <2>1, <2>4 DEF b
<1>5. t \notin Active /\ Active \subseteq Exporter
  BY <1>1 DEF Active
<1> HIDE DEF new, met
<1>6. /\ job' \in [Exporter -> Job] /\ job'[t] = new
      /\ \A u \in Active : job'[u] = met(u)
      /\ \A u \in Exporter \ (Active \cup {t}) : job'[u] = job[u]
  <2>1. job' \in [Exporter -> Job]
    BY <1>1, <1>3, <1>4
  <2> QED BY <1>1, <1>5, <2>1
<1>7. Active' = Active \cup {t}
  <2>1. ASSUME NEW u \in Exporter
        PROVE  job'[u].pc \notin {"idle", "dead"} <=> u \in Active \/ u = t
    BY <1>3, <1>4, <1>6 DEF Active
  <2> QED BY <1>5, <2>1 DEF Active
<1>8. ASSUME NEW u \in Active
      PROVE  /\ job'[u].pc = job[u].pc /\ job'[u].corpus = job[u].corpus
             /\ job'[u].todo = job[u].todo /\ job'[u].wrote = job[u].wrote
             /\ ~job'[u].alone
             /\ job'[u].own => job[u].own /\ HostOf[u] # HostOf[t]
  BY <1>4, <1>5, <1>6
<1>9. ExportTypeOK'
  <2>1. done' \in [exports : 0..MaxExports, faults : 0..MaxFaults]
    BY <1>1, ExportAssumption DEF ExportInv, ExportTypeOK
  <2>2. ASSUME NEW u \in Exporter, job'[u].pc \notin {"idle", "dead"}
        PROVE  job'[u].corpus \in Corpus
    <3>1. u \in Active \/ u = t
      BY <1>7, <2>2 DEF Active
    <3> QED
      BY <1>3, <1>6, <1>8, <3>1 DEF ExportInv, ExportTypeOK, Active
  <2> QED
    BY <1>1, <1>6, <2>1, <2>2 DEF ExportInv, ExportTypeOK
<1>10. CompanyInv'
  <2>1. ASSUME NEW u \in Active'
        PROVE  /\ job'[u].alone => Active' = {u}
               /\ job'[u].own => \A v \in Active' : HostOf[v] = HostOf[u] => v = u
               /\ job'[u].alone => job'[u].own
    <3>1. CASE u = t
      BY <1>2, <1>3, <1>6, <1>7, <3>1
    <3>2. CASE u \in Active
      <4>1. ASSUME job'[u].own, NEW v \in Active', HostOf[v] = HostOf[u] PROVE v = u
        BY <1>7, <1>8, <3>2, <4>1 DEF ExportInv, CompanyInv
      <4> QED
        BY <1>8, <3>2, <4>1
    <3> QED
      BY <1>7, <3>1, <3>2
  <2> QED
    BY <2>1 DEF CompanyInv
<1>11. OwnInv'
  <2>1. ASSUME NEW u \in Active', job'[u].own
        PROVE  OwnAt(u, job'[u], Handle(u)', zip'[u])
    <3>1. CASE u = t
      BY <1>3, <1>6, <3>1 DEF OwnAt, Filling
    <3>2. CASE u \in Active
      <4>1. OwnAt(u, job[u], Handle(u), zip[u]) /\ Handle(u)' = Handle(u) /\ zip' = zip
        BY <1>1, <1>8, <2>1, <3>2 DEF ExportInv, OwnInv, Handle
      <4> QED
        BY <1>8, <3>2, <4>1 DEF OwnAt
    <3> QED
      BY <1>7, <3>1, <3>2
  <2> QED
    BY <2>1 DEF OwnInv
<1>12. AloneInv'
  <2>1. AloneAt(t, new, csv', streams', archive')
    BY <1>3 DEF AloneAt
  <2> QED
    BY <1>6, <1>7, <1>8, <2>1 DEF AloneInv
<1>13. LeftInv'
  <2> SUFFICES ASSUME ~failed, csv # Absent
               PROVE  \E u \in Exporter : job'[u].pc \in {"fill", "meta", "add", "close", "remove"}
    BY <1>1 DEF LeftInv
  <2>1. PICK u \in Exporter : job[u].pc \in {"fill", "meta", "add", "close", "remove"}
    BY DEF ExportInv, LeftInv
  <2>2. u \in Active
    BY <2>1 DEF Active
  <2> QED
    BY <1>8, <2>1, <2>2
<1>14. ExporterInv'
  BY <1>1 DEF ExportInv, ExporterInv
<1> QED
  BY <1>9, <1>10, <1>11, <1>12, <1>13, <1>14 DEF ExportInv

\* Corpus::delete_extraction: a written archive may be gone again.
LEMMA RemoveArchiveKeeps ==
  ASSUME ExportInv, NEW c \in Corpus, RemoveArchive(c)
  PROVE  ExportInv'
<1>1. /\ archive' = [archive EXCEPT ![c] = Absent]
      /\ UNCHANGED <<csv, streams, current, zip, job, failed>>
      /\ done' \in [exports : 0..MaxExports, faults : 0..MaxFaults]
  BY FaultTyped DEF RemoveArchive
<1>2. /\ archive' \in [Corpus -> Content \cup {Absent}]
      /\ \A d \in Corpus : archive'[d] \in {archive[d], Absent}
  BY <1>1 DEF ExportInv, ExportTypeOK
<1>3. Active' = Active
  BY <1>1 DEF Active
<1>4. ExportTypeOK'
  BY <1>1, <1>2 DEF ExportInv, ExportTypeOK
<1>5. CompanyInv' /\ ExporterInv' /\ LeftInv'
  BY <1>1, <1>3 DEF ExportInv, CompanyInv, ExporterInv, LeftInv
<1>6. OwnInv'
  BY <1>1, <1>3 DEF ExportInv, OwnInv, Handle
<1>7. AloneInv'
  <2>1. ASSUME NEW u \in Active, job[u].alone PROVE AloneAt(u, job[u], csv, streams, archive')
    <3>1. AloneAt(u, job[u], csv, streams, archive) /\ job[u].corpus \in Corpus
      BY <2>1 DEF ExportInv, AloneInv, ExportTypeOK, Active
    <3> QED
      BY <1>2, <3>1 DEF AloneAt
  <2> QED
    BY <1>1, <1>3, <2>1 DEF AloneInv
<1> QED
  BY <1>4, <1>5, <1>6, <1>7 DEF ExportInv

(***************************************************************************)
(* The theorems.                                                           *)
(***************************************************************************)
LEMMA InitExportInv == ExportInit => ExportInv
<1> SUFFICES ASSUME ExportInit PROVE ExportInv
  OBVIOUS
<1>1. NoZip \in Zip /\ ~NoZip.open
  BY DEF NoZip, Zip
<1>2. zip \in [Exporter -> Zip] /\ \A t \in Exporter : ~zip[t].open
  BY <1>1 DEF ExportInit
<1>3. job \in [Exporter -> Job] /\ \A t \in Exporter : job[t].pc = "idle"
  BY NoJobTyped DEF ExportInit
<1>4. Active = {}
  BY <1>3 DEF Active
<1>5. done \in [exports : 0..MaxExports, faults : 0..MaxFaults]
  BY ExportAssumption DEF ExportInit
<1>6. ExportTypeOK
  BY <1>2, <1>3, <1>5 DEF ExportInit, ExportTypeOK
<1>7. ExporterInv /\ LeftInv
  BY DEF ExportInit, ExporterInv, LeftInv
<1> QED
  BY <1>4, <1>6, <1>7 DEF ExportInv, CompanyInv, OwnInv, AloneInv

LEMMA ExportStepKeeps == ExportInv /\ [ExportNext]_exportVars => ExportInv'
<1> SUFFICES ASSUME ExportInv, [ExportNext]_exportVars PROVE ExportInv'
  OBVIOUS
<1>1. CASE UNCHANGED exportVars
  <2>1. UNCHANGED <<archive, csv, streams, current, zip, job, done, failed>>
    BY <1>1 DEF exportVars
  <2>2. Active' = Active
    BY <2>1 DEF Active
  <2> QED
    BY <2>1, <2>2, EndsKeep DEF ExportInv, ExportTypeOK, LeftInv
<1>2. ASSUME NEW c \in Corpus, RemoveArchive(c) PROVE ExportInv'
  BY <1>2, RemoveArchiveKeeps
<1>3. ASSUME NEW t \in Exporter, NEW c \in Corpus, Begin(t, c) PROVE ExportInv'
  BY <1>3, BeginKeeps
<1>4. ASSUME NEW t \in Exporter,
             \/ Open(t) \/ OpenCsv(t) \/ FillCsv(t) \/ FillFails(t) \/ UseClosed(t)
             \/ AddMetadata(t) \/ AddFile(t) \/ Close(t) \/ RemoveCsv(t) \/ End(t)
      PROVE  ExportInv'
  <2>1. job[t].pc \in {"open", "csv", "fill", "meta", "add", "close", "remove", "end"}
    BY <1>4 DEF Open, OpenCsv, FillCsv, FillFails, UseClosed, AddMetadata, AddFile, Close,
       RemoveCsv, End, Step
  <2>2. t \in Active
    BY <2>1 DEF Active
  <2> QED
    BY <1>4, <2>2, OpenKeeps, OpenCsvKeeps, FillCsvKeeps, FillFailsKeeps, UseClosedKeeps,
       AddMetadataKeeps, AddFileKeeps, CloseKeeps, RemoveCsvKeeps, EndKeeps
<1> QED
  BY <1>1, <1>2, <1>3, <1>4 DEF ExportNext

LEMMA ExportInductive == ExportSpec => []ExportInv
BY InitExportInv, ExportStepKeeps, PTL DEF ExportSpec

\* The variables keep their types.
THEOREM ExportTypes == ExportSpec => []ExportTypeOK
<1>1. ExportInv => ExportTypeOK
  BY DEF ExportInv
<1> QED
  BY <1>1, ExportInductive, PTL

\* An export that met no other leaves an archive with the files of the corpus
\* and its metadata, whatever earlier exports left behind.
THEOREM LoneExportIsComplete == ExportSpec => []AloneIsComplete
<1>1. ExportInv => AloneIsComplete
  BY DEF ExportInv, AloneInv, AloneAt, AloneIsComplete, Active
<1> QED
  BY <1>1, ExportInductive, PTL

\* What the only export of a process at the time writes holds the files of its
\* corpus, whatever the exports of other processes do.
THEOREM WrittenFilesAreOwn == ExportSpec => []FilesAreOwn
<1>1. ExportInv => FilesAreOwn
  BY DEF ExportInv, OwnInv, OwnAt, FilesAreOwn, Active
<1> QED
  BY <1>1, ExportInductive, PTL

\* However exports overlap, the last one to end leaves no metadata.csv.
THEOREM LastRemovesCsv == ExportSpec => []NoCsvLeft
<1>1. ExportInv => NoCsvLeft
  BY DEF ExportInv, LeftInv, NoCsvLeft, Active
<1> QED
  BY <1>1, ExportInductive, PTL
===============================================================================
