------------------------------- MODULE Sessions -------------------------------
(***************************************************************************)
(* The WebSocket server: connections come and go on the one thread that    *)
(* runs asio, every message is handled by a detached thread, and what a    *)
(* connection has of its own is its ConnectionData, with two builders that *)
(* do not meet; the one modelled is ApiDownloadBuilder, which refuses to   *)
(* build without requests.  Messages: "query" is api_builder_query, "add"  *)
(* is add_build_to_corpus, "infos" reads a state all clients share (the    *)
(* APIs, the settings of the logger or of the storage) and "update"        *)
(* changes it and broadcasts it.                                           *)
(*                                                                         *)
(* Every log line is broadcast to all connections by BroadcastLogOutput,   *)
(* and a line that cannot be sent is itself logged by send_msg.            *)
(*                                                                         *)
(* "about", "alone", "shown", "torn", "crossed" and "missed" are history.  *)
(***************************************************************************)
EXTENDS Naturals, Sequences, FiniteSets, Functions

CONSTANTS Conn,        \* connections; each is opened once
          Leaving,     \* those whose client may leave
          Handler,     \* threads that can handle a message at the same time
          Query,       \* what queries ask for: sequences of sets of parameters
          Broken,      \* a request of a query that names no known API
          Param,
          State,       \* values of the shared state
          Unknown,     \* no value: the client has not heard of any
          MaxWork,     \* bound: messages of a behaviour, weighted
          MaxFaults,   \* bound: builds, changes and reads that fail
          MaxDepth     \* bound: log lines within a log line that fit the stack

Request == SUBSET Param

ASSUME SessionAssumption ==
  /\ Conn # {} /\ State # {}
  /\ Query \subseteq Seq(Request \cup {Broken})
  /\ Broken \notin Request
  /\ Unknown \notin State
  /\ MaxWork \in Nat /\ MaxFaults \in Nat /\ MaxDepth \in Nat

VARIABLES
  up,         \* whether the process lives
  opened,     \* connections opened so far
  closing,    \* connections the client has closed, while on_close is due
  sockets,    \* the keys of _websockets
  requests,   \* requests[c]: _requests of the builder of c
  latest,     \* latest[c]: what its _latest_build holds
  state,      \* the shared state
  view,       \* view[c]: the state as the client of c knows it
  asio,       \* depth of the log line asio writes, or Quiet
  about,      \* the connection that line is about
  req,        \* req[h]: the message handler h is at
  spent,      \* messages and faults so far
  shown,      \* shown[c]: the files of the last build c was answered with
  torn,       \* connections whose last build failed or had company
  crossed,    \* whether two messages about the shared state ever overlapped
  missed      \* connections not told since a change that failed on its way

server == <<up, opened, closing, sockets, asio, about>>
builders == <<requests, latest, shown, torn>>
common == <<state, view, crossed, missed>>
vars == <<server, builders, common, req, spent>>

Quiet == MaxDepth + 1
Pc == {"idle", "log", "clear", "request", "param", "copy",
       "add", "set", "read", "cast", "reply"}
Kind == {"none", "query", "add", "infos", "update"}

Thread == [pc : Pc, con : Conn, kind : Kind, query : Query \cup {<<>>},
           val : State \cup {Unknown}, k : Nat \ {0}, idx : Nat \ {0},
           todo : SUBSET (Param \cup Conn), res : SUBSET Request, alone : BOOLEAN]

NoMessage == [pc |-> "idle", con |-> CHOOSE c \in Conn : TRUE, kind |-> "none",
              query |-> <<>>, val |-> Unknown, k |-> 1, idx |-> 1,
              todo |-> {}, res |-> {}, alone |-> TRUE]

TypeOK ==
  /\ up \in BOOLEAN /\ crossed \in BOOLEAN
  /\ opened \subseteq Conn /\ sockets \subseteq opened /\ closing \subseteq sockets
  /\ torn \subseteq Conn /\ missed \subseteq Conn
  /\ requests \in [Conn -> Seq(Request)]
  /\ latest \in [Conn -> SUBSET Request] /\ shown \in [Conn -> SUBSET Request]
  /\ state \in State /\ view \in [Conn -> State \cup {Unknown}]
  /\ asio \in 0..MaxDepth \cup {Quiet} /\ about \in Conn
  /\ req \in [Handler -> Thread] /\ \A h \in Handler : req[h].k <= Len(req[h].query) + 1
  /\ spent \in [work : 0..MaxWork, faults : 0..MaxFaults]

Busy == {h \in Handler : req[h].pc # "idle"}
About(S) == {h \in Busy : req[h].kind \in S}

NoFiles == [c \in Conn |-> {}]

Init ==
  /\ up = TRUE /\ opened = {} /\ closing = {} /\ sockets = {}
  /\ requests = [c \in Conn |-> <<>>]
  /\ latest = NoFiles /\ shown = NoFiles /\ torn = {}
  /\ state = CHOOSE v \in State : TRUE
  /\ view = [c \in Conn |-> Unknown]
  /\ asio = Quiet /\ about = NoMessage.con
  /\ req = [h \in Handler |-> NoMessage]
  /\ spent = [work |-> 0, faults |-> 0]
  /\ crossed = FALSE /\ missed = {}

\* The process dies and its memory is gone.
Die ==
  /\ up' = FALSE /\ opened' = {} /\ closing' = {} /\ sockets' = {}
  /\ requests' = [c \in Conn |-> <<>>]
  /\ latest' = NoFiles /\ shown' = NoFiles /\ torn' = {}
  /\ view' = [c \in Conn |-> Unknown] /\ missed' = {}
  /\ asio' = Quiet /\ about' = NoMessage.con
  /\ req' = [h \in Handler |-> NoMessage]
  /\ UNCHANGED <<state, crossed, spent>>

(***************************************************************************)
(* Logging: print_log -> BroadcastLogOutput::output -> broadcast_json ->   *)
(* send_msg.  A connection that is closing but still in the map is an      *)
(* error, which is logged in the same way, one level deeper, until asio    *)
(* has erased the connection or the stack is full.                         *)
(***************************************************************************)
AsioLog ==
  /\ up /\ asio # Quiet
  /\ \/ /\ closing = {} \/ asio < MaxDepth
        /\ asio' = IF closing = {} THEN Quiet ELSE asio + 1
        /\ about' = IF closing = {} THEN NoMessage.con ELSE about
        /\ UNCHANGED <<up, opened, closing, sockets, builders, common, req, spent>>
     \/ closing # {} /\ asio = MaxDepth /\ Die

FirstStep(kind) ==
  CASE kind = "query" -> "clear" [] kind = "add" -> "add"
    [] kind = "infos" -> "read" [] kind = "update" -> "set"

\* The line of dispatch_request, which every handler writes first; how deep its
\* errors are nested is left out.
HandlerLog(h) ==
  /\ up /\ req[h].pc = "log"
  /\ \/ /\ closing = {}
        /\ req' = [req EXCEPT ![h].pc = FirstStep(req[h].kind)]
        /\ UNCHANGED <<server, builders, common, spent>>
     \/ closing # {} /\ Die

(***************************************************************************)
(* The asio thread.  It takes the next event when it has written its line. *)
(* on_open and on_close change the map under a lock that only they take:   *)
(* when a handler iterates over the map at that moment, for a broadcast or *)
(* a line of its own, the process may die.                                 *)
(***************************************************************************)
Iterating == \E h \in Handler : req[h].pc \in {"log", "cast"}
MapChanged(event) == up /\ asio = Quiet /\ (event \/ (Iterating /\ Die))

OnOpen(c) ==
  /\ c \notin opened
  /\ MapChanged(/\ opened' = opened \cup {c} /\ sockets' = sockets \cup {c}
                /\ asio' = 0 /\ about' = c
                /\ UNCHANGED <<up, closing, builders, common, req, spent>>)

\* The close frame arrives; sending fails from here on.
ClientCloses(c) ==
  /\ up /\ asio = Quiet /\ c \in (sockets \cap Leaving) \ closing
  /\ closing' = closing \cup {c}
  /\ UNCHANGED <<up, opened, sockets, asio, about, builders, common, req, spent>>

\* The ConnectionData goes with the connection, though threads may still use it.
Erased(c) ==
  /\ sockets' = sockets \ {c} /\ closing' = closing \ {c}
  /\ IF \E h \in Busy : req[h].con = c THEN UNCHANGED builders
     ELSE /\ requests' = [requests EXCEPT ![c] = <<>>] /\ latest' = [latest EXCEPT ![c] = {}]
          /\ shown' = [shown EXCEPT ![c] = {}] /\ torn' = torn \ {c}
  /\ view' = [view EXCEPT ![c] = Unknown]
  /\ UNCHANGED <<up, opened, state, crossed, missed, req, spent>>

\* Fault: the line is written before the connection is erased.
OnCloseLogsFirst(c) ==
  /\ up /\ c \in closing
  /\ \/ asio = Quiet /\ asio' = 0 /\ about' = c
        /\ UNCHANGED <<up, opened, sockets, closing, builders, common, req, spent>>
     \/ asio = 0 /\ asio' = Quiet /\ about' = NoMessage.con /\ Erased(c)

OnClose(c) ==
  /\ c \in closing
  /\ MapChanged(asio' = 0 /\ about' = c /\ Erased(c))

\* The messages whose order with one of this kind matters to the shared state.
Rivals(kind) ==
  CASE kind = "update" -> {"infos", "update"} [] kind = "infos" -> {"update"} [] OTHER -> {}

\* So that three messages to builders, or two of any kinds, make up the bound 6.
Weight(kind) == IF kind \in {"query", "add"} THEN 2 ELSE 3

\* A thread is started for the message and detached; which one does not matter.
OnMessage(c, h, kind, q, v) ==
  /\ up /\ asio = Quiet /\ c \in sockets \ closing
  /\ Busy # Handler /\ h = CHOOSE g \in Handler \ Busy : TRUE
  /\ spent.work + Weight(kind) <= MaxWork
  /\ spent' = [spent EXCEPT !.work = @ + Weight(kind)]
  /\ LET mine == {g \in Busy : req[g].con = c}
     IN req' = [g \in Handler |->
          IF g = h THEN [NoMessage EXCEPT !.pc = "log", !.con = c, !.kind = kind,
                           !.query = q, !.val = v, !.alone = mine = {}]
          ELSE IF g \in mine THEN [req[g] EXCEPT !.alone = FALSE] ELSE req[g]]
  /\ crossed' = (crossed \/ About(Rivals(kind)) # {})
  /\ UNCHANGED <<server, builders, state, view, missed>>

\* The thread uses a ConnectionData that on_close has freed.
UseFreed(h) ==
  /\ up /\ h \in Busy /\ req[h].con \notin sockets
  /\ Die

(***************************************************************************)
(* api_builder_query.                                                      *)
(***************************************************************************)
\* Handler h is at pc and changes its own record only by f.
Do(h, pc, r) ==
  /\ up /\ req[h].pc = pc
  /\ req' = [req EXCEPT ![h] = r]
  /\ UNCHANGED <<server, spent>>

\* What handler h is at throws.
Fails(h, pc, r) ==
  /\ up /\ req[h].pc = pc /\ spent.faults < MaxFaults
  /\ spent' = [spent EXCEPT !.faults = @ + 1]
  /\ req' = [req EXCEPT ![h] = r]
  /\ UNCHANGED server

To(h, pc) == [req[h] EXCEPT !.pc = pc]

Con(h) == req[h].con

\* Fault: clear_all leaves the requests.
ClearTypesOnly(h) ==
  /\ Do(h, "clear", To(h, "request"))
  /\ UNCHANGED <<builders, common>>

\* Fault: clear_all drops the latest build too.
ClearBuildToo(h) ==
  /\ Do(h, "clear", To(h, "request"))
  /\ requests' = [requests EXCEPT ![Con(h)] = <<>>]
  /\ latest' = [latest EXCEPT ![Con(h)] = {}]
  /\ UNCHANGED <<shown, torn, common>>

Clear(h) ==
  /\ Do(h, "clear", To(h, "request"))
  /\ requests' = [requests EXCEPT ![Con(h)] = <<>>]
  /\ UNCHANGED <<latest, shown, torn, common>>

\* The next request of the query: push_back, and its index.
AddRequest(h) ==
  /\ LET r == req[h] IN
       /\ r.k <= Len(r.query) /\ r.query[r.k] # Broken
       /\ Do(h, "request", [To(h, "param") EXCEPT
               !.idx = Len(requests[r.con]) + 1, !.todo = r.query[r.k]])
       /\ requests' = [requests EXCEPT ![r.con] = Append(@, {})]
  /\ UNCHANGED <<latest, shown, torn, common>>

\* Get_api throws.
AddBroken(h) ==
  /\ req[h].k <= Len(req[h].query) /\ req[h].query[req[h].k] = Broken
  /\ Do(h, "request", To(h, "reply"))
  /\ UNCHANGED <<builders, common>>

AddParameter(h) ==
  /\ LET r == req[h] IN \E p \in r.todo :
       \/ /\ r.idx <= Len(requests[r.con])
          /\ Do(h, "param", [r EXCEPT !.todo = @ \ {p}])
          /\ requests' = [requests EXCEPT ![r.con][r.idx] = @ \cup {p}]
       \/ /\ r.idx > Len(requests[r.con])
          /\ Do(h, "param", [To(h, "reply") EXCEPT !.todo = {}])
          /\ UNCHANGED requests
  /\ UNCHANGED <<latest, shown, torn, common>>

NextRequest(h) ==
  /\ req[h].todo = {}
  /\ Do(h, "param", [To(h, "request") EXCEPT !.k = @ + 1])
  /\ UNCHANGED <<builders, common>>

\* build() replaces the last result by the files of the requests (its steps are
\* in DownloadBuild), if it ever returns; without requests it throws.
Build(h) ==
  /\ req[h].k > Len(req[h].query)
  /\ \/ /\ requests[Con(h)] # <<>>
        /\ Do(h, "request", To(h, "copy"))
        /\ latest' = [latest EXCEPT ![Con(h)] = Range(requests[Con(h)])]
     \/ /\ requests[Con(h)] = <<>>
        /\ Do(h, "request", To(h, "reply"))
        /\ UNCHANGED latest
  /\ UNCHANGED <<requests, shown, torn, common>>

\* A query to an API or the database throws half way.
BuildFails(h) ==
  /\ req[h].k > Len(req[h].query) /\ Fails(h, "request", To(h, "reply"))
  /\ \E part \in SUBSET Range(requests[Con(h)]) : latest' = [latest EXCEPT ![Con(h)] = part]
  /\ torn' = torn \cup {Con(h)}
  /\ UNCHANGED <<requests, shown, common>>

\* "auto files = ..." copies what the reference points to by then.
Copy(h) ==
  /\ Do(h, "copy", [To(h, "reply") EXCEPT !.res = latest[Con(h)]])
  /\ shown' = [shown EXCEPT ![Con(h)] = latest[Con(h)]]
  /\ torn' = IF req[h].alone THEN torn \ {Con(h)} ELSE torn \cup {Con(h)}
  /\ UNCHANGED <<requests, latest, common>>

\* add_build_to_corpus: the files are those of the latest build.
AddBuild(h) ==
  /\ Do(h, "add", [To(h, "reply") EXCEPT !.res = latest[Con(h)]])
  /\ UNCHANGED <<builders, common>>

(***************************************************************************)
(* update_logger, storage_migration, refresh_apis: change, read back,      *)
(* broadcast.  get_logger_infos and the like: read.                        *)
(***************************************************************************)
\* Fault: what is broadcast was read before the change.
SetAfterRead(h) ==
  /\ Do(h, "set", [To(h, "cast") EXCEPT !.val = state, !.todo = sockets])
  /\ state' = req[h].val
  /\ UNCHANGED <<view, crossed, missed, builders>>

\* The change is made, and the file server restarted, whose join may never return.
Set(h) ==
  /\ Do(h, "set", To(h, "read"))
  /\ state' = req[h].val
  /\ UNCHANGED <<view, crossed, missed, builders>>

\* The change throws, often late: the setters of the logger have changed it when
\* save_to_db throws, and refreshing the APIs may stop half way.
SetFails(h) ==
  /\ Fails(h, "set", To(h, "reply"))
  /\ state' \in State
  /\ missed' = IF state' = state THEN missed ELSE sockets
  /\ UNCHANGED <<view, crossed, builders>>

Read(h) ==
  /\ Do(h, "read", IF req[h].kind = "infos" THEN [To(h, "reply") EXCEPT !.val = state]
                   ELSE [To(h, "cast") EXCEPT !.val = state, !.todo = sockets])
  /\ UNCHANGED <<builders, common>>

\* The root of the storage cannot be read from the database: an error is
\* answered, and a change is not broadcast.
ReadFails(h) ==
  /\ Fails(h, "read", [To(h, "reply") EXCEPT !.val = Unknown])
  /\ missed' = IF req[h].kind = "update" THEN sockets ELSE missed
  /\ UNCHANGED <<state, view, crossed, builders>>

\* Fault: the loop over the connections does not move on.
CastStays(h) ==
  /\ Do(h, "cast", req[h])
  /\ UNCHANGED <<builders, common>>

\* The client of c receives v.
Hears(c, v) ==
  /\ view' = [view EXCEPT ![c] = v]
  /\ missed' = missed \ {c}

\* One more connection of the broadcast, or one erased meanwhile.  Sending to one
\* that is closing logs an error, sent to it too: until it is erased, or we die.
Cast(h) ==
  \/ \E c \in req[h].todo \ closing :
       /\ Do(h, "cast", [req[h] EXCEPT !.todo = @ \ {c}])
       /\ IF c \in sockets THEN Hears(c, req[h].val) ELSE UNCHANGED <<view, missed>>
       /\ UNCHANGED <<builders, state, crossed>>
  \/ /\ req[h].todo = {}
     /\ Do(h, "cast", To(h, "reply"))
     /\ UNCHANGED <<builders, common>>
  \/ /\ up /\ req[h].pc = "cast" /\ req[h].todo \cap closing # {}
     /\ Die

\* The answer, or an error and its line: an infos without a value is one.
Reply(h) ==
  \/ /\ Con(h) \notin closing
     /\ Do(h, "reply", NoMessage)
     /\ IF req[h].kind = "infos" /\ req[h].val # Unknown /\ Con(h) \in sockets
        THEN Hears(Con(h), req[h].val) ELSE UNCHANGED <<view, missed>>
     /\ UNCHANGED <<builders, state, crossed>>
  \/ up /\ req[h].pc = "reply" /\ closing # {} /\ Die

HandlerStep(h) ==
  \/ HandlerLog(h)
  \/ Clear(h) \/ AddRequest(h) \/ AddBroken(h) \/ AddParameter(h) \/ NextRequest(h)
  \/ Build(h) \/ Copy(h) \/ AddBuild(h)
  \/ Set(h) \/ Read(h) \/ Cast(h) \/ Reply(h)

Message(c, h) ==
  \/ \E q \in Query : OnMessage(c, h, "query", q, Unknown)
  \/ OnMessage(c, h, "add", <<>>, Unknown)
  \/ OnMessage(c, h, "infos", <<>>, Unknown)
  \/ \E v \in State : OnMessage(c, h, "update", <<>>, v)

Next ==
  \/ AsioLog
  \/ \E c \in Conn : OnOpen(c) \/ ClientCloses(c) \/ OnClose(c)
  \/ \E c \in Conn, h \in Handler : Message(c, h)
  \/ \E h \in Handler :
       HandlerStep(h) \/ BuildFails(h) \/ SetFails(h) \/ ReadFails(h) \/ UseFreed(h)

\* In build(), which may go on for ever with APIs that have no pages, or in a
\* change, which may wait for ever for the old file server.
MayStay(h) ==
  \/ req[h].pc = "request" /\ req[h].k > Len(req[h].query)
  \/ req[h].pc = "set"

\* Threads run, and the asio thread writes the line it has begun.
Fairness ==
  /\ \A h \in Handler : WF_vars(HandlerStep(h) /\ ~MayStay(h))
  /\ WF_vars(AsioLog)

Spec == Init /\ [][Next]_vars /\ Fairness

(***************************************************************************)
(* Properties                                                              *)
(***************************************************************************)
\* api_builder_query: whatever earlier messages left in the builder, and
\* whatever other connections do, a query that is alone on its connection is
\* answered with the files of its own requests and no others.
AnswerIsOwn ==
  \A h \in Handler :
    req[h].pc = "reply" /\ req[h].kind = "query" /\ req[h].alone
      => req[h].res \in {{}, Range(req[h].query)}

\* add_build_to_corpus adds the files the client was last shown, also after
\* queries that were refused before they were built.
AddsWhatWasShown ==
  \A h \in Handler :
    req[h].pc = "reply" /\ req[h].kind = "add" /\ req[h].alone /\ Con(h) \notin torn
      => req[h].res = shown[Con(h)]

\* broadcast_json: when no change is under way, every client that has heard of
\* the shared state knows its present value, unless two of the messages about
\* it have overlapped.  A change that fails on its way leaves clients behind,
\* each until the next broadcast or answer that reaches it and no longer.
ViewsCurrent ==
  ~crossed /\ About({"infos", "update"}) = {}
    => \A c \in (sockets \ closing) \ missed : view[c] \in {state, Unknown}

\* on_close erases before it logs: the asio thread only ever logs an error
\* within its own line because of a connection other than the one it is about.
OwnCloseIsSafe == asio \notin {0, Quiet} => closing \ {about} # {}

\* handle_message: every message is answered, or the process dies, or its
\* thread stays for ever in the two calls that may not return, build() and the
\* change: nothing else on the way, be it a broadcast while clients leave or
\* what the other threads do to the builder, keeps an answer back.
EveryMessageAnswered ==
  \A h \in Handler : []<>(req[h].pc = "idle" \/ ~up) \/ <>[]MayStay(h)

\* server_handler.h: "broadcasts them to everyone": once no change is under way
\* every client that has heard of the shared state knows its present value.
EveryoneCurrent ==
  About({"infos", "update"}) = {} => \A c \in sockets \ closing : view[c] \in {state, Unknown}
================================================================================
