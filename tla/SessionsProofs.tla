---------------------------- MODULE SessionsProofs ----------------------------
(***************************************************************************)
(* For any connections, threads, queries and states: a query that is alone *)
(* on its connection is answered with its own files (AnswerIsOwn), what is *)
(* added to a corpus is what was shown (AddsWhatWasShown), clients know    *)
(* the present state (ViewsCurrent), and the asio thread's own line is not *)
(* lost on the connection it has just closed (OwnCloseIsSafe).             *)
(***************************************************************************)
EXTENDS Sessions, TLAPS

(***************************************************************************)
(* Which step belongs to which message.                                    *)
(***************************************************************************)
KindAt(r) ==
  /\ r.pc = "idle" <=> r.kind = "none"
  /\ r.pc \in {"clear", "request", "param", "copy"} => r.kind = "query"
  /\ r.pc = "add" => r.kind = "add"
  /\ r.pc \in {"set", "cast"} => r.kind = "update"
  /\ r.pc = "read" => r.kind \in {"infos", "update"}
  /\ r.kind = "update" /\ r.pc \in {"log", "set"} => r.val \in State
  /\ r.pc \in {"log", "clear"} => r.k = 1
  /\ r.pc = "param" => r.todo \subseteq Param /\ r.k <= Len(r.query)
  /\ r.pc \notin {"idle", "reply"} => r.res = {}

(***************************************************************************)
(* The connection the asio thread logs about is not one whose sends fail,  *)
(* and what made it log an error is still there.                           *)
(***************************************************************************)
LineInv == /\ asio # Quiet => about \notin closing
           /\ asio \notin {0, Quiet} => closing # {}

(***************************************************************************)
(* A thread r that is alone on its connection, with the requests rq, the   *)
(* latest build la and the files sh of its builder.  Its builder is as far *)
(* as it is.                                                               *)
(***************************************************************************)
QueryAt(r, rq, la) ==
  /\ r.pc = "request" =>
       /\ Len(rq) = r.k - 1
       /\ \A i \in 1..Len(rq) : rq[i] = r.query[i]
  /\ r.pc = "param" =>
       /\ Len(rq) = r.k /\ r.idx = r.k
       /\ \A i \in 1..Len(rq) : i < r.k => rq[i] = r.query[i]
       /\ r.todo \subseteq r.query[r.k] /\ r.query[r.k] \in Request
       /\ rq[r.k] = r.query[r.k] \ r.todo
  /\ r.pc = "copy" => la = Range(r.query)
  /\ r.pc = "reply" => r.res \in {{}, Range(r.query)}

BuilderAt(r, rq, la, sh, to) ==
  r.alone => /\ r.kind = "query" => QueryAt(r, rq, la)
             /\ r.kind = "add" /\ r.pc = "reply" /\ r.con \notin to => r.res = sh

AloneInv ==
  \A h, g \in Busy : h # g /\ req[h].con = req[g].con => ~req[h].alone

\* Between a build and the copy of its files a query is under way.
ShownInv ==
  \A c \in Conn \ torn :
    latest[c] = shown[c] \/ \E h \in Handler : req[h].pc = "copy" /\ req[h].con = c

BuilderInv ==
  /\ AloneInv /\ ShownInv
  /\ \A h \in Handler : BuilderAt(req[h], requests[Con(h)], latest[Con(h)], shown[Con(h)], torn)

(***************************************************************************)
(* The shared state st, the views vw, on the open connections cs.  Until   *)
(* messages about it overlap, a change is the only one; while it is        *)
(* broadcast the clients it has been sent to know the present state, and   *)
(* between changes all do that have been told since the last that failed.  *)
(***************************************************************************)
Current(c, st, vw) == vw[c] \in {st, Unknown}

ViewAt(r, st, vw, cs) ==
  /\ r.kind = "infos" /\ r.pc = "reply" => r.val \in {st, Unknown}
  /\ r.pc = "cast" => r.val = st /\ \A c \in cs \ r.todo : Current(c, st, vw)

Changing(r) == r.pc = "cast" \/ (r.pc = "read" /\ r.kind = "update")

ViewInv ==
  /\ \A c \in Conn \ opened : view[c] = Unknown
  /\ ~crossed =>
       /\ \A h, g \in Handler : h # g /\ req[h].kind = "update" =>
            req[g].kind \notin {"infos", "update"}
       /\ \A h \in Handler : ViewAt(req[h], state, view, sockets \ closing)
       /\ (\A h \in Handler : ~Changing(req[h])) =>
            \A c \in (sockets \ closing) \ missed : Current(c, state, view)

IInv == /\ TypeOK /\ \A h \in Handler : KindAt(req[h])
        /\ LineInv /\ BuilderInv /\ ViewInv

(***************************************************************************)
(* Types.                                                                  *)
(***************************************************************************)
LEMMA NoMessageTyped ==
  /\ NoMessage \in Thread /\ KindAt(NoMessage) /\ NoMessage.con \in Conn
  /\ NoMessage.pc = "idle" /\ NoMessage.kind = "none" /\ NoMessage.k <= Len(NoMessage.query) + 1
  /\ NoMessage.k = 1 /\ NoMessage.res = {}
<1>1. (CHOOSE c \in Conn : TRUE) \in Conn
  BY SessionAssumption
<1> DEFINE c == CHOOSE c \in Conn : TRUE
<1>2. NoMessage = [pc |-> "idle", con |-> c, kind |-> "none", query |-> <<>>, val |-> Unknown,
                   k |-> 1, idx |-> 1, todo |-> {}, res |-> {}, alone |-> TRUE]
  BY DEF NoMessage
<1> HIDE DEF c
<1>3. c \in Conn
  BY <1>1 DEF c
<1>4. /\ NoMessage.pc = "idle" /\ NoMessage.kind = "none" /\ NoMessage.con = c
      /\ NoMessage.k = 1 /\ NoMessage.query = <<>> /\ NoMessage.res = {}
  BY <1>2
<1>5. NoMessage \in Thread
  BY <1>2, <1>3 DEF Thread, Pc, Kind
<1>6. NoMessage.k <= Len(NoMessage.query) + 1
  <2>1. Len(<<>>) = 0
    OBVIOUS
  <2> QED BY <1>4, <2>1
<1>7. KindAt(NoMessage)
  BY <1>4 DEF KindAt
<1> QED
  BY <1>3, <1>4, <1>5, <1>6, <1>7

LEMMA Depths == /\ MaxDepth \in Nat /\ Quiet = MaxDepth + 1 /\ Quiet \notin 0..MaxDepth
                /\ 0 \in 0..MaxDepth /\ 0 # Quiet
BY SessionAssumption DEF Quiet

LEMMA Queries ==
  ASSUME NEW q \in Query \cup {<<>>}
  PROVE  /\ q \in Seq(Request \cup {Broken}) /\ Len(q) \in Nat /\ DOMAIN q = 1..Len(q)
         /\ \A i \in 1..Len(q) : q[i] # Broken => q[i] \in Request
<1>1. q \in Seq(Request \cup {Broken})
  <2>1. CASE q \in Query
    BY <2>1, SessionAssumption
  <2>2. CASE q = <<>>
    BY <2>2
  <2> QED BY <2>1, <2>2
<1> DEFINE S == Request \cup {Broken}
<1>2. q \in Seq(S) /\ \A r \in S : r # Broken => r \in Request
  BY <1>1
<1> HIDE DEF S
<1>3. Len(q) \in Nat /\ DOMAIN q = 1..Len(q) /\ \A i \in 1..Len(q) : q[i] \in S
  BY <1>2
<1> QED BY <1>1, <1>2, <1>3

LEMMA Known ==
  ASSUME IInv, NEW h \in Handler
  PROVE  /\ req \in [Handler -> Thread] /\ req[h] \in Thread /\ KindAt(req[h])
         /\ req[h].pc \in Pc /\ req[h].kind \in Kind /\ Con(h) \in Conn /\ Con(h) = req[h].con
         /\ req[h].query \in Query \cup {<<>>} /\ req[h].k \in Nat \ {0}
         /\ req[h].k <= Len(req[h].query) + 1
         /\ req[h].val \in State \cup {Unknown} /\ req[h].idx \in Nat \ {0}
         /\ req[h].todo \subseteq Param \cup Conn /\ req[h].res \subseteq Request
         /\ req[h].alone \in BOOLEAN
         /\ BuilderAt(req[h], requests[Con(h)], latest[Con(h)], shown[Con(h)], torn)
         /\ ~crossed => ViewAt(req[h], state, view, sockets \ closing)
         /\ requests \in [Conn -> Seq(Request)] /\ latest \in [Conn -> SUBSET Request]
         /\ shown \in [Conn -> SUBSET Request] /\ torn \subseteq Conn /\ missed \subseteq Conn
         /\ state \in State /\ view \in [Conn -> State \cup {Unknown}] /\ crossed \in BOOLEAN
         /\ spent \in [work : 0..MaxWork, faults : 0..MaxFaults]
         /\ opened \subseteq Conn /\ sockets \subseteq opened /\ closing \subseteq sockets
BY DEF IInv, TypeOK, BuilderInv, ViewInv, Con, Thread

(***************************************************************************)
(* The process dies.                                                       *)
(***************************************************************************)
LEMMA DieKeeps ==
  ASSUME IInv, Die
  PROVE  IInv'
<1>1. /\ up' = FALSE /\ opened' = {} /\ closing' = {} /\ sockets' = {}
      /\ requests' = [c \in Conn |-> <<>>]
      /\ latest' = [c \in Conn |-> {}] /\ shown' = [c \in Conn |-> {}] /\ torn' = {}
      /\ view' = [c \in Conn |-> Unknown] /\ missed' = {}
      /\ asio' = Quiet /\ about' = NoMessage.con
      /\ req' = [h \in Handler |-> NoMessage]
      /\ UNCHANGED <<state, crossed, spent>>
  BY DEF Die, NoFiles
<1>2. \A h \in Handler : req'[h] = NoMessage
  BY <1>1
<1>3. TypeOK'
  <2>1. <<>> \in Seq(Request) /\ state' \in State /\ crossed' \in BOOLEAN
        /\ spent' \in [work : 0..MaxWork, faults : 0..MaxFaults]
    BY <1>1 DEF IInv, TypeOK
  <2>2. req' \in [Handler -> Thread] /\ \A h \in Handler : req'[h].k <= Len(req'[h].query) + 1
    BY <1>1, <1>2, NoMessageTyped
  <2> QED
    BY <1>1, <2>1, <2>2, NoMessageTyped DEF TypeOK
<1>4. \A h \in Handler : KindAt(req'[h])
  BY <1>2, NoMessageTyped
<1>5. LineInv'
  BY <1>1, Depths DEF LineInv
<1>6. BuilderInv'
  <2>1. Busy' = {}
    BY <1>2, NoMessageTyped DEF Busy
  <2>2. AloneInv' /\ ShownInv'
    BY <1>1, <2>1 DEF AloneInv, ShownInv
  <2>3. \A rq, la, sh, to : BuilderAt(NoMessage, rq, la, sh, to)
    BY NoMessageTyped DEF BuilderAt
  <2> QED
    BY <1>2, <2>2, <2>3 DEF BuilderInv
<1>7. ViewInv'
  BY <1>1, <1>2, NoMessageTyped DEF ViewInv, ViewAt
<1> QED
  BY <1>3, <1>4, <1>5, <1>6, <1>7 DEF IInv

(***************************************************************************)
(* The asio thread.                                                        *)
(***************************************************************************)
\* Nothing but the connections and the line of the asio thread.
LEMMA LineMoves ==
  ASSUME IInv, UNCHANGED <<opened, sockets, builders, common, req, spent>>, up' \in BOOLEAN,
         closing \subseteq closing', closing' \subseteq sockets,
         asio' \in 0..MaxDepth \cup {Quiet}, about' \in Conn, LineInv'
  PROVE  IInv'
<1>1. TypeOK'
  BY DEF IInv, TypeOK, builders, common
<1>2. \A h \in Handler : KindAt(req'[h])
  BY DEF IInv
<1>3. BuilderInv'
  BY DEF IInv, BuilderInv, AloneInv, ShownInv, Busy, Con, builders
<1>4. sockets' \ closing' \subseteq sockets \ closing
  OBVIOUS
<1>5. ViewInv'
  BY <1>4 DEF IInv, ViewInv, ViewAt, common
<1> QED
  BY <1>1, <1>2, <1>3, <1>5 DEF IInv

LEMMA AsioLogKeeps ==
  ASSUME IInv, AsioLog
  PROVE  IInv'
<1>1. CASE Die
  BY <1>1, DieKeeps
<1>2. CASE /\ closing = {} \/ asio < MaxDepth
           /\ asio' = IF closing = {} THEN Quiet ELSE asio + 1
           /\ about' = IF closing = {} THEN NoMessage.con ELSE about
           /\ UNCHANGED <<up, opened, closing, sockets, builders, common, req, spent>>
  <2>1. asio # Quiet
    BY DEF AsioLog
  <2>2. asio \in 0..MaxDepth /\ closing \subseteq sockets /\ about \in Conn /\ up \in BOOLEAN
    BY <2>1 DEF IInv, TypeOK
  <2>3. asio' \in 0..MaxDepth \cup {Quiet} /\ about' \in Conn
    BY <1>2, <2>2, Depths, NoMessageTyped
  <2>4. LineInv'
    BY <1>2, <2>1, <2>2, Depths DEF IInv, LineInv
  <2> QED
    BY <1>2, <2>2, <2>3, <2>4, LineMoves
<1> QED
  BY <1>1, <1>2 DEF AsioLog

LEMMA ClientClosesKeeps ==
  ASSUME IInv, NEW c \in Conn, ClientCloses(c)
  PROVE  IInv'
<1>1. /\ asio = Quiet /\ c \in sockets /\ closing' = closing \cup {c}
      /\ UNCHANGED <<up, opened, sockets, asio, about, builders, common, req, spent>>
  BY DEF ClientCloses
<1>2. closing \subseteq sockets /\ about \in Conn /\ up \in BOOLEAN /\ asio \in 0..MaxDepth \cup {Quiet}
  BY DEF IInv, TypeOK
<1>3. LineInv'
  BY <1>1 DEF LineInv
<1> QED
  BY <1>1, <1>2, <1>3, LineMoves

LEMMA OnOpenKeeps ==
  ASSUME IInv, NEW c \in Conn, OnOpen(c)
  PROVE  IInv'
<1>1. CASE Die
  BY <1>1, DieKeeps
<1>2. CASE /\ opened' = opened \cup {c} /\ sockets' = sockets \cup {c}
           /\ asio' = 0 /\ about' = c
           /\ UNCHANGED <<up, closing, builders, common, req, spent>>
  <2>1. /\ c \notin opened /\ opened \subseteq Conn /\ sockets \subseteq opened
        /\ closing \subseteq sockets
    BY DEF OnOpen, IInv, TypeOK
  <2>2. TypeOK'
    BY <1>2, <2>1, Depths DEF IInv, TypeOK, builders, common
  <2>3. \A h \in Handler : KindAt(req'[h])
    BY <1>2 DEF IInv
  <2>4. LineInv'
    BY <1>2, <2>1 DEF LineInv
  <2>5. BuilderInv'
    BY <1>2 DEF IInv, BuilderInv, AloneInv, ShownInv, Busy, Con, builders
  \* The new client has not heard of any state.
  <2>6. view[c] = Unknown
    BY <2>1 DEF IInv, ViewInv
  <2>7. sockets' \ closing' \subseteq (sockets \ closing) \cup {c}
    BY <1>2
  <2>8. \A d \in sockets' \ closing' : d \in sockets \ closing \/ Current(d, state, view)
    BY <2>6, <2>7 DEF Current
  <2>9. ViewInv'
    <3>1. \A d \in Conn \ opened' : view'[d] = Unknown
      BY <1>2 DEF IInv, ViewInv, common
    <3>2. ASSUME ~crossed, NEW h \in Handler PROVE ViewAt(req[h], state, view, sockets' \ closing')
      <4>1. ViewAt(req[h], state, view, sockets \ closing)
        BY <3>2, Known
      <4> QED BY <2>8, <4>1 DEF ViewAt
    <3> QED
      BY <1>2, <2>8, <3>1, <3>2 DEF IInv, ViewInv, common
  <2> QED
    BY <2>2, <2>3, <2>4, <2>5, <2>9 DEF IInv
<1> QED
  BY <1>1, <1>2 DEF OnOpen, MapChanged

\* The connection goes, and what it had; a thread that still uses that keeps it.
LEMMA OnCloseKeeps ==
  ASSUME IInv, NEW c \in Conn, OnClose(c)
  PROVE  IInv'
<1>1. CASE Die
  BY <1>1, DieKeeps
<1>2. CASE asio' = 0 /\ about' = c /\ Erased(c)
  <2>1. /\ sockets' = sockets \ {c} /\ closing' = closing \ {c}
        /\ view' = [view EXCEPT ![c] = Unknown]
        /\ UNCHANGED <<up, opened, state, crossed, missed, req, spent>>
    BY <1>2 DEF Erased
  <2>2. \/ UNCHANGED <<requests, latest, shown, torn>>
        \/ /\ \A h \in Busy : req[h].con # c
           /\ requests' = [requests EXCEPT ![c] = <<>>] /\ latest' = [latest EXCEPT ![c] = {}]
           /\ shown' = [shown EXCEPT ![c] = {}] /\ torn' = torn \ {c}
    BY <1>2 DEF Erased, builders
  <2>3. /\ view' \in [Conn -> State \cup {Unknown}] /\ view'[c] = Unknown
        /\ \A d \in Conn \ {c} : view'[d] = view[d]
    BY <2>1 DEF IInv, TypeOK
  <2>4. /\ requests' \in [Conn -> Seq(Request)] /\ latest' \in [Conn -> SUBSET Request]
        /\ shown' \in [Conn -> SUBSET Request] /\ torn' \subseteq Conn
        /\ \A d \in Conn : \/ /\ requests'[d] = requests[d] /\ latest'[d] = latest[d]
                              /\ shown'[d] = shown[d] /\ (d \in torn' <=> d \in torn)
                           \/ latest'[d] = shown'[d] /\ \A h \in Busy : req[h].con # d
    <3>1. /\ requests \in [Conn -> Seq(Request)] /\ latest \in [Conn -> SUBSET Request]
          /\ shown \in [Conn -> SUBSET Request] /\ torn \subseteq Conn /\ <<>> \in Seq(Request)
      BY DEF IInv, TypeOK
    <3> QED BY <2>2, <3>1, ZenonT(40)
  <2>5. TypeOK'
    BY <1>2, <2>1, <2>3, <2>4, Depths DEF IInv, TypeOK
  <2>6. \A h \in Handler : KindAt(req'[h])
    BY <2>1 DEF IInv
  <2>7. LineInv'
    BY <1>2, <2>1 DEF LineInv
  <2>8. BuilderInv'
    <3>1. AloneInv'
      BY <2>1 DEF IInv, BuilderInv, AloneInv, Busy
    <3>2. ShownInv'
      BY <2>1, <2>4 DEF IInv, BuilderInv, ShownInv, Busy
    <3>3. ASSUME NEW h \in Handler
          PROVE  BuilderAt(req[h], requests'[Con(h)], latest'[Con(h)], shown'[Con(h)], torn')
      <4>1. CASE h \in Busy
        <5>1. /\ requests'[Con(h)] = requests[Con(h)] /\ latest'[Con(h)] = latest[Con(h)]
              /\ shown'[Con(h)] = shown[Con(h)] /\ (Con(h) \in torn' <=> Con(h) \in torn)
          <6>1. Con(h) \in Conn /\ req[h].con = Con(h)
            BY Known
          <6> QED BY <2>4, <4>1, <6>1
        <5> QED BY <5>1, Known DEF BuilderAt
      <4>2. CASE h \notin Busy
        <5>1. req[h].kind = "none"
          BY <4>2, Known DEF Busy, KindAt
        <5> QED BY <5>1 DEF BuilderAt
      <4> QED BY <4>1, <4>2
    <3> QED
      BY <2>1, <3>1, <3>2, <3>3 DEF BuilderInv, Con
  <2>9. ViewInv'
    <3>1. \A d \in Conn : Current(d, state, view) => Current(d, state, view')
      BY <2>3 DEF Current
    <3>2. sockets' \ closing' \subseteq sockets \ closing /\ sockets \subseteq Conn
      BY <2>1 DEF IInv, TypeOK
    <3>3. ASSUME ~crossed, NEW h \in Handler
          PROVE  ViewAt(req[h], state, view', sockets' \ closing')
      <4>1. ViewAt(req[h], state, view, sockets \ closing)
        BY <3>3, Known
      <4> QED BY <3>1, <3>2, <4>1 DEF ViewAt
    <3>4. \A d \in Conn \ opened : view'[d] = Unknown
      BY <2>3 DEF IInv, ViewInv
    <3>5. ASSUME ~crossed, \A h \in Handler : ~Changing(req[h]), NEW d \in (sockets' \ closing') \ missed
          PROVE  Current(d, state, view')
      <4>1. d \in Conn /\ Current(d, state, view)
        BY <3>2, <3>5 DEF IInv, ViewInv
      <4> QED BY <3>1, <4>1
    <3>6. ~crossed => \A h, g \in Handler : h # g /\ req[h].kind = "update" =>
            req[g].kind \notin {"infos", "update"}
      BY DEF IInv, ViewInv
    <3> QED
      BY <2>1, <3>3, <3>4, <3>5, <3>6 DEF ViewInv
  <2> QED
    BY <2>5, <2>6, <2>7, <2>8, <2>9 DEF IInv
<1> QED
  BY <1>1, <1>2 DEF OnClose, MapChanged

(***************************************************************************)
(* A message arrives.                                                      *)
(***************************************************************************)
\* A thread that only learns that it is not alone.
Company(r, s) ==
  /\ s \in Thread /\ s.pc = r.pc /\ s.con = r.con /\ s.kind = r.kind /\ s.query = r.query
  /\ s.val = r.val /\ s.k = r.k /\ s.idx = r.idx /\ s.todo = r.todo /\ s.res = r.res
  /\ s.alone => r.alone

LEMMA CompanySame ==
  ASSUME NEW r, NEW s, Company(r, s)
  PROVE  /\ KindAt(r) => KindAt(s)
         /\ \A rq, la, sh, to : BuilderAt(r, rq, la, sh, to) => BuilderAt(s, rq, la, sh, to)
         /\ \A st, vw, cs : ViewAt(r, st, vw, cs) => ViewAt(s, st, vw, cs)
         /\ Changing(r) <=> Changing(s)
<1>1. KindAt(r) => KindAt(s)
  BY DEF Company, KindAt
<1>2. ASSUME NEW rq, NEW la, NEW sh, NEW to, BuilderAt(r, rq, la, sh, to)
      PROVE  BuilderAt(s, rq, la, sh, to)
  BY <1>2 DEF Company, BuilderAt, QueryAt
<1>3. ASSUME NEW st, NEW vw, NEW cs, ViewAt(r, st, vw, cs)
      PROVE  ViewAt(s, st, vw, cs)
  BY <1>3 DEF Company, ViewAt
<1>4. Changing(r) <=> Changing(s)
  BY DEF Company, Changing
<1> QED BY <1>1, <1>2, <1>3, <1>4

LEMMA OnMessageKeeps ==
  ASSUME IInv, NEW c \in Conn, NEW h \in Handler, NEW kind \in Kind \ {"none"},
         NEW q \in Query \cup {<<>>}, NEW v \in State \cup {Unknown},
         kind = "update" => v \in State,
         OnMessage(c, h, kind, q, v)
  PROVE  IInv'
<1> DEFINE mine == {g \in Busy : req[g].con = c}
           first == mine = {}
           m == [NoMessage EXCEPT !.pc = "log", !.con = c, !.kind = kind,
                   !.query = q, !.val = v, !.alone = first]
<1>1. /\ Busy # Handler /\ h = CHOOSE g \in Handler \ Busy : TRUE
      /\ spent.work + Weight(kind) <= MaxWork
      /\ spent' = [spent EXCEPT !.work = spent.work + Weight(kind)]
      /\ req' = [g \in Handler |->
          IF g = h THEN m
          ELSE IF g \in mine THEN [req[g] EXCEPT !.alone = FALSE] ELSE req[g]]
      /\ crossed' = (crossed \/ About(Rivals(kind)) # {})
      /\ UNCHANGED <<server, builders, state, view, missed>>
  BY DEF OnMessage
<1>2. h \notin Busy /\ req[h].pc = "idle" /\ req[h].kind = "none"
  <2>1. Handler \ Busy # {}
    BY <1>1 DEF Busy
  <2>2. h \notin Busy
    BY <1>1, <2>1
  <2> QED BY <2>2, Known DEF Busy, KindAt
<1>3. first \in BOOLEAN /\ (first <=> mine = {})
  OBVIOUS
<1> HIDE DEF first
<1>4. /\ m \in Thread /\ m.pc = "log" /\ m.con = c /\ m.kind = kind /\ m.query = q /\ m.val = v
      /\ m.k = 1 /\ m.res = {} /\ (m.alone <=> first)
  <2>1. "log" \in Pc /\ kind \in Kind
    BY DEF Pc
  <2>2. NoMessage \in Thread /\ NoMessage.k = 1 /\ NoMessage.res = {}
    BY NoMessageTyped
  <2> QED BY <1>3, <2>1, <2>2 DEF Thread
<1> HIDE DEF m
<1>5. req'[h] = m
  BY <1>1
<1>6. ASSUME NEW g \in Handler \ {h}
      PROVE  /\ Company(req[g], req'[g])
             /\ g \in mine => ~req'[g].alone
  <2>1. req[g] \in Thread
    BY Known
  <2>2. CASE g \in mine
    <3> DEFINE s == [req[g] EXCEPT !.alone = FALSE]
    <3>1. req'[g] = s
      BY <1>1, <2>2
    <3>2. Company(req[g], s) /\ ~s.alone
      BY <2>1 DEF Company, Thread
    <3> QED BY <3>1, <3>2
  <2>3. CASE g \notin mine
    <3>1. req'[g] = req[g]
      BY <1>1, <2>3
    <3> QED BY <2>1, <2>3, <3>1 DEF Company
  <2> QED BY <2>2, <2>3
<1> HIDE DEF mine
<1>7. KindAt(m) /\ m.k <= Len(m.query) + 1
  BY <1>4, Queries DEF KindAt
<1>8. TypeOK'
  <2>1. spent' \in [work : 0..MaxWork, faults : 0..MaxFaults]
    <3>1. Weight(kind) \in Nat
      BY DEF Weight
    <3>2. spent \in [work : 0..MaxWork, faults : 0..MaxFaults]
      BY Known
    <3>3. spent.work + Weight(kind) \in 0..MaxWork
      BY <1>1, <3>1, <3>2, SessionAssumption
    <3> QED BY <1>1, <3>2, <3>3
  <2>2. \A g \in Handler : req'[g] \in Thread /\ req'[g].k <= Len(req'[g].query) + 1
    BY <1>4, <1>5, <1>6, <1>7, Known DEF Company
  <2>3. req' \in [Handler -> Thread]
    <3>1. req' = [g \in Handler |-> req'[g]]
      BY <1>1
    <3> QED BY <2>2, <3>1
  <2>4. crossed' \in BOOLEAN
    BY <1>1, Known
  <2> QED
    BY <1>1, <2>1, <2>2, <2>3, <2>4 DEF IInv, TypeOK, server, builders
<1>9. \A g \in Handler : KindAt(req'[g])
  BY <1>5, <1>6, <1>7, Known, CompanySame
<1>10. LineInv'
  BY <1>1 DEF IInv, LineInv, server
<1>11. BuilderInv'
  <2>1. AloneInv'
    <3> SUFFICES ASSUME NEW f \in Handler, NEW g \in Handler, f # g,
                        req'[f].pc # "idle", req'[g].pc # "idle", req'[f].con = req'[g].con
                 PROVE  ~req'[f].alone
      BY DEF AloneInv, Busy
    <3>1. CASE f = h
      <4>1. g \in mine
        BY <1>4, <1>5, <1>6, <3>1 DEF Company, Busy, mine
      <4> QED BY <1>3, <1>4, <1>5, <3>1, <4>1
    <3>2. CASE g = h
      <4>1. f \in mine
        BY <1>4, <1>5, <1>6, <3>2 DEF Company, Busy, mine
      <4> QED BY <1>6, <3>2, <4>1
    <3>3. CASE f # h /\ g # h
      <4>1. f \in Busy /\ g \in Busy /\ req[f].con = req[g].con
        BY <1>6, <3>3 DEF Company, Busy
      <4>2. ~req[f].alone
        BY <4>1 DEF IInv, BuilderInv, AloneInv
      <4> QED BY <1>6, <3>3, <4>2 DEF Company
    <3> QED BY <3>1, <3>2, <3>3
  <2>2. ShownInv'
    <3> SUFFICES ASSUME NEW d \in Conn \ torn, latest[d] # shown[d]
                 PROVE  \E g \in Handler : req'[g].pc = "copy" /\ req'[g].con = d
      BY <1>1 DEF ShownInv, builders
    <3>1. PICK g \in Handler : req[g].pc = "copy" /\ req[g].con = d
      BY DEF IInv, BuilderInv, ShownInv
    <3>2. g # h
      BY <1>2, <3>1
    <3> QED BY <1>6, <3>1, <3>2 DEF Company
  <2>3. ASSUME NEW g \in Handler
        PROVE  BuilderAt(req'[g], requests[req'[g].con], latest[req'[g].con], shown[req'[g].con], torn)
    <3>1. CASE g = h
      BY <1>4, <1>5, <3>1 DEF BuilderAt, QueryAt
    <3>2. CASE g # h
      <4>1. BuilderAt(req[g], requests[Con(g)], latest[Con(g)], shown[Con(g)], torn)
        BY Known
      <4>2. req'[g].con = Con(g)
        BY <1>6, <3>2 DEF Company, Con
      <4> QED BY <1>6, <3>2, <4>1, <4>2, CompanySame
    <3> QED BY <3>1, <3>2
  <2> QED
    BY <1>1, <2>1, <2>2, <2>3 DEF BuilderInv, Con, builders
<1>12. ViewInv'
  <2>1. \A d \in Conn \ opened : view[d] = Unknown
    BY DEF IInv, ViewInv
  <2>2. ASSUME ~crossed'
        PROVE  /\ \A f, g \in Handler : f # g /\ req'[f].kind = "update" =>
                     req'[g].kind \notin {"infos", "update"}
               /\ \A g \in Handler : ViewAt(req'[g], state, view, sockets \ closing)
               /\ (\A g \in Handler : ~Changing(req'[g])) =>
                     \A d \in (sockets \ closing) \ missed : Current(d, state, view)
    <3>1. ~crossed /\ \A g \in Handler : req[g].kind \in Rivals(kind) => g \notin Busy
      BY <1>1, <2>2 DEF About
    <3>2. \A g \in Handler : g \notin Busy => req[g].kind = "none"
      BY Known DEF Busy, KindAt
    <3>3. \A g \in Handler : req[g].kind \in Rivals(kind) => req[g].kind = "none"
      BY <3>1, <3>2
    <3>4. ASSUME NEW f \in Handler, NEW g \in Handler, f # g, req'[f].kind = "update"
          PROVE  req'[g].kind \notin {"infos", "update"}
      <4>1. CASE f = h
        BY <1>4, <1>5, <1>6, <3>3, <3>4, <4>1 DEF Company, Rivals
      <4>2. CASE g = h
        BY <1>4, <1>5, <1>6, <3>3, <3>4, <4>2 DEF Company, Rivals
      <4>3. CASE f # h /\ g # h
        BY <1>6, <3>1, <3>4, <4>3 DEF Company, IInv, ViewInv
      <4> QED BY <4>1, <4>2, <4>3
    <3>5. ASSUME NEW g \in Handler
          PROVE  ViewAt(req'[g], state, view, sockets \ closing)
      <4>1. CASE g = h
        BY <1>4, <1>5, <4>1 DEF ViewAt
      <4>2. CASE g # h
        BY <1>6, <3>1, <4>2, Known, CompanySame
      <4> QED BY <4>1, <4>2
    <3>6. ASSUME \A g \in Handler : ~Changing(req'[g]), NEW d \in (sockets \ closing) \ missed
          PROVE  Current(d, state, view)
      <4>1. \A g \in Handler : ~Changing(req[g])
        BY <1>2, <1>6, <3>6, CompanySame DEF Changing
      <4> QED BY <3>1, <4>1 DEF IInv, ViewInv
    <3> QED BY <3>4, <3>5, <3>6
  <2> QED
    BY <1>1, <2>1, <2>2 DEF ViewInv, server
<1> QED
  BY <1>8, <1>9, <1>10, <1>11, <1>12 DEF IInv

LEMMA MessageKeeps ==
  ASSUME IInv, NEW c \in Conn, NEW h \in Handler, Message(c, h)
  PROVE  IInv'
<1>1. ASSUME NEW q \in Query, OnMessage(c, h, "query", q, Unknown) PROVE IInv'
  BY <1>1, OnMessageKeeps DEF Kind
<1>2. ASSUME NEW v \in State, OnMessage(c, h, "update", <<>>, v) PROVE IInv'
  BY <1>2, OnMessageKeeps DEF Kind
<1>3. CASE OnMessage(c, h, "add", <<>>, Unknown) \/ OnMessage(c, h, "infos", <<>>, Unknown)
  BY <1>3, OnMessageKeeps DEF Kind
<1> QED BY <1>1, <1>2, <1>3 DEF Message

(***************************************************************************)
(* A step of thread h, whose record becomes r.                             *)
(***************************************************************************)
Turns(h, r) ==
  /\ req[h].pc # "idle" /\ req' = [req EXCEPT ![h] = r]
  /\ r \in Thread /\ r.k <= Len(r.query) + 1 /\ KindAt(r)
  /\ r.pc # "idle" => /\ r.con = Con(h) /\ r.kind = req[h].kind
                      /\ r.alone <=> req[h].alone
  /\ UNCHANGED server
  /\ spent' \in [work : 0..MaxWork, faults : 0..MaxFaults]

LEMMA Turned ==
  ASSUME IInv, NEW h \in Handler, NEW r, Turns(h, r)
  PROVE  /\ req' \in [Handler -> Thread] /\ req'[h] = r
         /\ \A g \in Handler \ {h} : req'[g] = req[g]
BY Known DEF Turns

LEMMA TurnTypes ==
  ASSUME IInv, NEW h \in Handler, NEW r, Turns(h, r),
         requests' \in [Conn -> Seq(Request)], latest' \in [Conn -> SUBSET Request],
         shown' \in [Conn -> SUBSET Request], torn' \subseteq Conn,
         state' \in State, view' \in [Conn -> State \cup {Unknown}], crossed' = crossed,
         missed' \subseteq Conn
  PROVE  TypeOK' /\ LineInv' /\ \A g \in Handler : KindAt(req'[g])
<1>1. \A g \in Handler : KindAt(req'[g]) /\ req'[g].k <= Len(req'[g].query) + 1
  BY Turned, Known DEF Turns
<1>2. TypeOK'
  BY <1>1, Turned DEF IInv, TypeOK, Turns, server
<1>3. LineInv'
  BY DEF IInv, LineInv, Turns, server
<1> QED BY <1>1, <1>2, <1>3

\* Of the builders only the one of its connection changes.
LEMMA TurnBuilders ==
  ASSUME IInv, NEW h \in Handler, NEW r, Turns(h, r),
         \A c \in Conn \ {Con(h)} :
           /\ requests'[c] = requests[c] /\ latest'[c] = latest[c] /\ shown'[c] = shown[c]
           /\ c \in torn' <=> c \in torn,
         r.pc # "idle" => BuilderAt(r, requests'[Con(h)], latest'[Con(h)], shown'[Con(h)], torn'),
         \/ Con(h) \in torn' \/ latest'[Con(h)] = shown'[Con(h)] \/ r.pc = "copy"
         \/ /\ req[h].pc # "copy" /\ latest'[Con(h)] = latest[Con(h)]
            /\ shown'[Con(h)] = shown[Con(h)] /\ (Con(h) \in torn' <=> Con(h) \in torn)
  PROVE  BuilderInv'
<1>1. req'[h] = r /\ \A g \in Handler \ {h} : req'[g] = req[g]
  BY Turned
<1>2. h \in Busy
  BY DEF Turns, Busy
<1>3. r.pc = "idle" => r.kind = "none"
  BY DEF Turns, KindAt
<1>4. AloneInv'
  <2> SUFFICES ASSUME NEW f \in Handler, NEW g \in Handler, f # g,
                      req'[f].pc # "idle", req'[g].pc # "idle", req'[f].con = req'[g].con
               PROVE  ~req'[f].alone
    BY DEF AloneInv, Busy
  <2>1. /\ f \in Busy /\ g \in Busy
        /\ req'[f].con = req[f].con /\ req'[g].con = req[g].con
        /\ req'[f].alone <=> req[f].alone
    BY <1>1, <1>2 DEF Turns, Busy, Con
  <2> QED BY <2>1 DEF IInv, BuilderInv, AloneInv
<1>5. ASSUME NEW c \in Conn, c \notin torn', latest'[c] # shown'[c]
      PROVE  \E g \in Handler : req'[g].pc = "copy" /\ req'[g].con = c
  <2>1. CASE c = Con(h) /\ r.pc = "copy"
    BY <1>1, <2>1 DEF Turns
  <2>2. CASE c # Con(h) \/ r.pc # "copy"
    <3>1. c \notin torn /\ latest[c] # shown[c] /\ (c = Con(h) => req[h].pc # "copy")
      BY <1>5, <2>2
    <3>2. PICK g \in Handler : req[g].pc = "copy" /\ req[g].con = c
      BY <3>1 DEF IInv, BuilderInv, ShownInv
    <3>3. g # h
      BY <3>1, <3>2 DEF Con
    <3> QED BY <1>1, <3>2, <3>3
  <2> QED BY <2>1, <2>2
<1>6. ASSUME NEW g \in Handler
      PROVE  BuilderAt(req'[g], requests'[req'[g].con], latest'[req'[g].con], shown'[req'[g].con], torn')
  <2>1. CASE g = h
    BY <1>1, <1>3, <2>1 DEF BuilderAt, Turns
  <2>2. CASE g # h /\ req[g].alone /\ req[g].pc # "idle"
    <3>1. req[g].con # Con(h) /\ req[g].con \in Conn
      BY <1>2, <2>2, Known DEF IInv, BuilderInv, AloneInv, Busy, Con
    <3>2. BuilderAt(req[g], requests[Con(g)], latest[Con(g)], shown[Con(g)], torn)
      BY Known
    <3> QED BY <1>1, <2>2, <3>1, <3>2 DEF BuilderAt, Con
  <2>3. CASE g # h /\ (~req[g].alone \/ req[g].pc = "idle")
    <3>1. req[g].pc = "idle" => req[g].kind = "none"
      BY Known DEF KindAt
    <3> QED BY <1>1, <2>3, <3>1 DEF BuilderAt
  <2> QED BY <2>1, <2>2, <2>3
<1> QED
  BY <1>4, <1>5, <1>6 DEF BuilderInv, ShownInv, Con

\* The shared state is changed by a change alone, which is the only one.
LEMMA TurnViews ==
  ASSUME IInv, NEW h \in Handler, NEW r, Turns(h, r),
         crossed' = crossed,
         \A c \in Conn \ opened : view'[c] = Unknown,
         ~crossed => ViewAt(r, state', view', sockets \ closing),
         ~crossed => \/ req[h].kind = "update"
                     \/ state' = state /\ \A c \in Conn : view'[c] \in {view[c], state},
         ~crossed /\ ~Changing(r) /\ (\A g \in Handler \ {h} : ~Changing(req[g])) =>
           \A c \in (sockets \ closing) \ missed' : Current(c, state', view')
  PROVE  ViewInv'
<1>1. /\ req'[h] = r /\ \A g \in Handler \ {h} : req'[g] = req[g]
      /\ UNCHANGED <<opened, sockets, closing>>
  BY Turned DEF Turns, server
<1>2. r.kind \in {"none", req[h].kind}
  BY DEF Turns, KindAt
<1> SUFFICES ASSUME ~crossed
             PROVE  /\ \A f, g \in Handler : f # g /\ req'[f].kind = "update" =>
                         req'[g].kind \notin {"infos", "update"}
                    /\ \A g \in Handler : ViewAt(req'[g], state', view', sockets \ closing)
                    /\ (\A g \in Handler : ~Changing(req'[g])) =>
                         \A c \in (sockets \ closing) \ missed' : Current(c, state', view')
  BY <1>1 DEF ViewInv
<1>3. \A f, g \in Handler : f # g /\ req[f].kind = "update" =>
         req[g].kind \notin {"infos", "update"}
  BY DEF IInv, ViewInv
<1>4. \A f, g \in Handler : f # g /\ req'[f].kind = "update" =>
         req'[g].kind \notin {"infos", "update"}
  BY <1>1, <1>2, <1>3
<1>5. ASSUME NEW g \in Handler \ {h} PROVE ViewAt(req[g], state', view', sockets \ closing)
  <2>1. ViewAt(req[g], state, view, sockets \ closing) /\ KindAt(req[g])
    BY Known
  <2>2. CASE req[h].kind = "update"
    <3>1. req[g].kind \notin {"infos", "update"}
      BY <1>3, <2>2
    <3> QED BY <2>1, <3>1 DEF ViewAt, KindAt
  <2>3. CASE state' = state /\ \A c \in Conn : view'[c] \in {view[c], state}
    <3>1. \A c \in sockets : c \in Conn
      BY Known
    <3> QED BY <2>1, <2>3, <3>1 DEF ViewAt, Current
  <2> QED BY <2>2, <2>3
<1>6. \A g \in Handler : ViewAt(req'[g], state', view', sockets \ closing)
  BY <1>1, <1>5
<1>7. (\A g \in Handler : ~Changing(req'[g])) =>
         \A c \in (sockets \ closing) \ missed' : Current(c, state', view')
  BY <1>1
<1> QED BY <1>4, <1>6, <1>7

\* A step that has nothing to do with the shared state.
LEMMA BuilderTurns ==
  ASSUME IInv, NEW h \in Handler, NEW r, Turns(h, r), UNCHANGED common,
         ~Changing(req[h]) /\ r.pc # "cast",
         r.kind # "infos" \/ r.pc # "reply",
         requests' \in [Conn -> Seq(Request)], latest' \in [Conn -> SUBSET Request],
         shown' \in [Conn -> SUBSET Request], torn' \subseteq Conn,
         \A c \in Conn \ {Con(h)} :
           /\ requests'[c] = requests[c] /\ latest'[c] = latest[c] /\ shown'[c] = shown[c]
           /\ c \in torn' <=> c \in torn,
         r.pc # "idle" => BuilderAt(r, requests'[Con(h)], latest'[Con(h)], shown'[Con(h)], torn'),
         \/ Con(h) \in torn' \/ latest'[Con(h)] = shown'[Con(h)] \/ r.pc = "copy"
         \/ /\ req[h].pc # "copy" /\ latest'[Con(h)] = latest[Con(h)]
            /\ shown'[Con(h)] = shown[Con(h)] /\ (Con(h) \in torn' <=> Con(h) \in torn)
  PROVE  IInv'
<1>1. TypeOK' /\ LineInv' /\ \A g \in Handler : KindAt(req'[g])
  BY TurnTypes, Known DEF common
<1>2. BuilderInv'
  BY TurnBuilders
<1>3. ViewInv'
  <2>1. \A c \in Conn \ opened : view'[c] = Unknown
    BY DEF IInv, ViewInv, common
  <2>2. ViewAt(r, state', view', sockets \ closing)
    BY DEF ViewAt
  <2>3. ASSUME ~crossed, \A g \in Handler \ {h} : ~Changing(req[g]),
               NEW c \in (sockets \ closing) \ missed
        PROVE  Current(c, state, view)
    BY <2>3 DEF IInv, ViewInv
  <2> QED
    BY <2>1, <2>2, <2>3, TurnViews DEF common
<1> QED
  BY <1>1, <1>2, <1>3 DEF IInv

\* A step that has nothing to do with the builder.
LEMMA CommonTurns ==
  ASSUME IInv, NEW h \in Handler, NEW r, Turns(h, r), UNCHANGED builders, crossed' = crossed,
         req[h].pc # "copy",
         r.pc # "idle" => r.kind \notin {"query", "add"},
         state' \in State, view' \in [Conn -> State \cup {Unknown}], missed' \subseteq Conn,
         \A c \in Conn \ opened : view'[c] = Unknown,
         ~crossed => ViewAt(r, state', view', sockets \ closing),
         ~crossed => \/ req[h].kind = "update"
                     \/ state' = state /\ \A c \in Conn : view'[c] \in {view[c], state},
         ~crossed /\ ~Changing(r) /\ (\A g \in Handler \ {h} : ~Changing(req[g])) =>
           \A c \in (sockets \ closing) \ missed' : Current(c, state', view')
  PROVE  IInv'
<1>1. TypeOK' /\ LineInv' /\ \A g \in Handler : KindAt(req'[g])
  BY TurnTypes, Known DEF builders
<1>2. BuilderInv'
  <2>1. r.pc # "idle" => BuilderAt(r, requests'[Con(h)], latest'[Con(h)], shown'[Con(h)], torn')
    BY DEF BuilderAt
  <2> QED BY <2>1, TurnBuilders DEF builders
<1>3. ViewInv'
  BY TurnViews
<1> QED
  BY <1>1, <1>2, <1>3 DEF IInv

\* The fields of a record that goes to pc.
LEMMA ToFields ==
  ASSUME IInv, NEW h \in Handler, NEW pc \in Pc
  PROVE  /\ To(h, pc) \in Thread /\ To(h, pc).pc = pc /\ To(h, pc).con = Con(h)
         /\ To(h, pc).kind = req[h].kind /\ To(h, pc).query = req[h].query
         /\ To(h, pc).val = req[h].val /\ To(h, pc).k = req[h].k /\ To(h, pc).idx = req[h].idx
         /\ To(h, pc).todo = req[h].todo /\ To(h, pc).res = req[h].res
         /\ (To(h, pc).alone <=> req[h].alone)
<1>1. req[h] \in Thread
  BY Known
<1> QED BY <1>1 DEF To, Thread, Con

LEMMA DoTurns ==
  ASSUME IInv, NEW h \in Handler, NEW pc, NEW r, Do(h, pc, r), pc # "idle",
         r \in Thread, r.k <= Len(r.query) + 1, KindAt(r),
         r.pc # "idle" => r.con = Con(h) /\ r.kind = req[h].kind /\ (r.alone <=> req[h].alone)
  PROVE  Turns(h, r)
BY Known DEF Do, Turns

LEMMA FailsTurns ==
  ASSUME IInv, NEW h \in Handler, NEW pc, NEW r, Fails(h, pc, r), pc # "idle",
         r \in Thread, r.k <= Len(r.query) + 1, KindAt(r),
         r.pc # "idle" => r.con = Con(h) /\ r.kind = req[h].kind /\ (r.alone <=> req[h].alone)
  PROVE  Turns(h, r)
<1>1. spent' \in [work : 0..MaxWork, faults : 0..MaxFaults]
  <2>1. /\ spent \in [work : 0..MaxWork, faults : 0..MaxFaults]
        /\ MaxWork \in Nat /\ MaxFaults \in Nat
    BY Known, SessionAssumption
  <2>2. spent.faults < MaxFaults /\ spent' = [spent EXCEPT !.faults = spent.faults + 1]
    BY DEF Fails
  <2>3. spent.faults + 1 \in 0..MaxFaults
    BY <2>1, <2>2
  <2> QED BY <2>1, <2>2, <2>3
<1> QED BY <1>1 DEF Fails, Turns

\* What a thread that is at work on a query alone knows.
LEMMA QueryKnown ==
  ASSUME IInv, NEW h \in Handler, req[h].kind = "query", req[h].alone
  PROVE  QueryAt(req[h], requests[Con(h)], latest[Con(h)])
BY Known DEF BuilderAt

(***************************************************************************)
(* api_builder_query and add_build_to_corpus.                              *)
(***************************************************************************)
LEMMA HandlerLogKeeps ==
  ASSUME IInv, NEW h \in Handler, HandlerLog(h)
  PROVE  IInv'
<1>1. CASE Die
  BY <1>1, DieKeeps
<1>2. CASE /\ req' = [req EXCEPT ![h].pc = FirstStep(req[h].kind)]
           /\ UNCHANGED <<server, builders, common, spent>>
  <2> DEFINE pc == FirstStep(req[h].kind)
             r == To(h, pc)
  <2>1. req[h].pc = "log" /\ req[h].kind \in Kind \ {"none"} /\ KindAt(req[h])
    BY Known DEF HandlerLog, KindAt
  <2>2. /\ pc \in {"clear", "add", "read", "set"} /\ pc \in Pc
        /\ pc = "clear" <=> req[h].kind = "query"
        /\ pc = "add" <=> req[h].kind = "add"
        /\ pc = "read" <=> req[h].kind = "infos"
        /\ pc = "set" <=> req[h].kind = "update"
    BY <2>1 DEF FirstStep, Kind, Pc
  <2>3. req' = [req EXCEPT ![h] = r]
    BY <1>2 DEF To
  <2> HIDE DEF pc
  <2>4. /\ r \in Thread /\ r.pc = pc /\ r.con = Con(h) /\ r.kind = req[h].kind
        /\ r.query = req[h].query /\ r.val = req[h].val /\ r.k = req[h].k
        /\ r.res = req[h].res /\ (r.alone <=> req[h].alone)
    BY <2>2, ToFields
  <2> HIDE DEF r
  <2>5. KindAt(r)
    BY <2>1, <2>2, <2>4 DEF KindAt
  <2>6. Turns(h, r)
    BY <1>2, <2>1, <2>3, <2>4, <2>5, Known DEF Turns
  <2>7. ~Changing(req[h]) /\ ~Changing(r)
    BY <2>1, <2>2, <2>4 DEF Changing
  <2>8. BuilderAt(r, requests[Con(h)], latest[Con(h)], shown[Con(h)], torn)
    BY <2>2, <2>4 DEF BuilderAt, QueryAt
  <2> QED
    BY <1>2, <2>1, <2>2, <2>4, <2>6, <2>7, <2>8, Known, BuilderTurns DEF builders
<1> QED
  BY <1>1, <1>2 DEF HandlerLog

LEMMA ClearKeeps ==
  ASSUME IInv, NEW h \in Handler, Clear(h)
  PROVE  IInv'
<1> DEFINE r == To(h, "request")
<1>1. /\ Do(h, "clear", r) /\ req[h].pc = "clear"
      /\ requests' = [requests EXCEPT ![Con(h)] = <<>>]
      /\ UNCHANGED <<latest, shown, torn, common>>
  BY DEF Clear, Do
<1>2. /\ r \in Thread /\ r.pc = "request" /\ r.con = Con(h) /\ r.kind = req[h].kind
      /\ r.query = req[h].query /\ r.val = req[h].val /\ r.k = req[h].k
      /\ r.res = req[h].res /\ (r.alone <=> req[h].alone)
  BY ToFields DEF Pc
<1> HIDE DEF r
<1>3. KindAt(req[h]) /\ req[h].kind = "query" /\ req[h].k = 1
  BY <1>1, Known DEF KindAt
<1>4. KindAt(r)
  BY <1>1, <1>2, <1>3 DEF KindAt
<1>5. Turns(h, r)
  BY <1>1, <1>2, <1>4, Known, DoTurns
<1>6. /\ requests' \in [Conn -> Seq(Request)] /\ requests'[Con(h)] = <<>>
      /\ \A c \in Conn \ {Con(h)} : requests'[c] = requests[c]
  BY <1>1, Known
<1>7. QueryAt(r, <<>>, latest[Con(h)])
  <2>1. Len(<<>>) = 0
    OBVIOUS
  <2>2. r.k = 1 /\ r.pc = "request"
    BY <1>2, <1>3
  <2> QED BY <2>1, <2>2 DEF QueryAt
<1>8. BuilderAt(r, requests'[Con(h)], latest[Con(h)], shown[Con(h)], torn)
  BY <1>2, <1>3, <1>6, <1>7 DEF BuilderAt
<1> QED
  BY <1>1, <1>2, <1>5, <1>6, <1>8, Known, BuilderTurns, ZenonT(40) DEF Changing

LEMMA AddRequestKeeps ==
  ASSUME IInv, NEW h \in Handler, AddRequest(h)
  PROVE  IInv'
<1> DEFINE o == req[h]
           c == Con(h)
           q == To(h, "param")
           j == Len(requests[c]) + 1
           r == [q EXCEPT !.idx = j, !.todo = o.query[o.k]]
<1>1. /\ o.k <= Len(o.query) /\ o.query[o.k] # Broken
      /\ Do(h, "request", r) /\ o.pc = "request"
      /\ requests' = [requests EXCEPT ![c] = Append(requests[c], {})]
      /\ UNCHANGED <<latest, shown, torn, common>>
  BY DEF AddRequest, Do, Con
<1>2. /\ requests \in [Conn -> Seq(Request)] /\ c \in Conn /\ requests[c] \in Seq(Request)
      /\ o.k \in Nat \ {0} /\ o.query \in Query \cup {<<>>}
      /\ KindAt(o) /\ o.kind = "query" /\ {} \in Request
  <2>1. KindAt(o) /\ c \in Conn
    BY Known
  <2> QED BY <1>1, <2>1, Known DEF KindAt, Request
<1>3. o.k \in 1..Len(o.query) /\ o.query[o.k] \in Request
  BY <1>1, <1>2, Queries
<1>4. /\ q \in Thread /\ q.pc = "param" /\ q.con = c /\ q.kind = o.kind
      /\ q.query = o.query /\ q.val = o.val /\ q.k = o.k
      /\ q.res = o.res /\ (q.alone <=> o.alone)
  BY ToFields DEF Pc
<1> HIDE DEF q
<1>5. j \in Nat \ {0}
  BY <1>2
<1> HIDE DEF o, j
<1>6. /\ r \in Thread /\ r.pc = "param" /\ r.con = c /\ r.kind = o.kind
      /\ r.query = o.query /\ r.val = o.val /\ r.k = o.k
      /\ r.res = o.res /\ (r.alone <=> o.alone)
      /\ r.idx = j /\ r.todo = o.query[o.k]
  BY <1>3, <1>4, <1>5 DEF Thread, Request
<1> HIDE DEF r
<1>7. KindAt(r)
  BY <1>1, <1>2, <1>3, <1>6 DEF KindAt, Request
<1>8. Turns(h, r)
  BY <1>1, <1>2, <1>6, <1>7, Known, DoTurns DEF o
<1> DEFINE n == Append(requests[c], {})
<1>9. /\ n \in Seq(Request) /\ Len(n) = j /\ n[j] = {}
      /\ \A i \in 1..Len(requests[c]) : n[i] = requests[c][i]
  BY <1>2 DEF j
<1>10. /\ requests' \in [Conn -> Seq(Request)] /\ requests'[c] = n
       /\ \A d \in Conn \ {c} : requests'[d] = requests[d]
  BY <1>1, <1>2, <1>9
<1> HIDE DEF n
<1>11. ASSUME r.alone PROVE QueryAt(r, n, latest[c])
  <2>1. QueryAt(o, requests[c], latest[c])
    BY <1>2, <1>6, <1>11, QueryKnown DEF o
  <2>2. /\ Len(requests[c]) = o.k - 1 /\ Len(requests[c]) \in Nat
        /\ \A i \in 1..Len(requests[c]) : requests[c][i] = o.query[i]
    BY <1>1, <1>2, <2>1 DEF QueryAt
  <2>3. j = o.k /\ Len(n) = o.k
    BY <1>2, <1>9, <2>2 DEF j
  <2>4. \A i \in 1..Len(n) : i < o.k => n[i] = o.query[i]
    BY <1>2, <1>9, <2>2, <2>3
  <2>5. n[o.k] = o.query[o.k] \ r.todo
    BY <1>6, <1>9, <2>3
  <2> QED
    BY <1>3, <1>6, <2>3, <2>4, <2>5 DEF QueryAt
<1>12. BuilderAt(r, requests'[c], latest[c], shown[c], torn)
  BY <1>2, <1>6, <1>10, <1>11 DEF BuilderAt
<1> QED
  BY <1>1, <1>6, <1>8, <1>10, <1>12, Known, BuilderTurns DEF Changing, o

LEMMA AddBrokenKeeps ==
  ASSUME IInv, NEW h \in Handler, AddBroken(h)
  PROVE  IInv'
<1> DEFINE r == To(h, "reply")
<1>1. Do(h, "request", r) /\ req[h].pc = "request" /\ UNCHANGED <<builders, common>>
  BY DEF AddBroken, Do
<1>2. /\ r \in Thread /\ r.pc = "reply" /\ r.con = Con(h) /\ r.kind = req[h].kind
      /\ r.query = req[h].query /\ r.val = req[h].val /\ r.k = req[h].k
      /\ r.res = req[h].res /\ (r.alone <=> req[h].alone)
  BY ToFields DEF Pc
<1> HIDE DEF r
<1>3. KindAt(req[h]) /\ req[h].kind = "query" /\ req[h].res = {}
  BY <1>1, Known DEF KindAt
<1>4. KindAt(r)
  BY <1>2, <1>3 DEF KindAt
<1>5. Turns(h, r)
  BY <1>1, <1>2, <1>4, Known, DoTurns
<1>6. BuilderAt(r, requests[Con(h)], latest[Con(h)], shown[Con(h)], torn)
  BY <1>2, <1>3 DEF BuilderAt, QueryAt
<1> QED
  BY <1>1, <1>2, <1>3, <1>5, <1>6, Known, BuilderTurns DEF Changing, builders

LEMMA AddParameterKeeps ==
  ASSUME IInv, NEW h \in Handler, AddParameter(h)
  PROVE  IInv'
<1> DEFINE o == req[h]
           c == Con(h)
<1>1. o.pc = "param" /\ UNCHANGED <<latest, shown, torn, common>>
  BY DEF AddParameter, Do
<1>2. PICK p \in o.todo :
       \/ /\ o.idx <= Len(requests[o.con])
          /\ Do(h, "param", [o EXCEPT !.todo = o.todo \ {p}])
          /\ requests' = [requests EXCEPT ![o.con] =
               [requests[o.con] EXCEPT ![o.idx] = requests[o.con][o.idx] \cup {p}]]
       \/ /\ o.idx > Len(requests[o.con])
          /\ Do(h, "param", [To(h, "reply") EXCEPT !.todo = {}])
          /\ UNCHANGED requests
  BY DEF AddParameter
<1>3. /\ o \in Thread /\ KindAt(o) /\ c \in Conn /\ o.con = c /\ o.idx \in Nat \ {0}
      /\ requests \in [Conn -> Seq(Request)] /\ requests[c] \in Seq(Request)
      /\ o.k <= Len(o.query) + 1 /\ o.k \in Nat \ {0}
  <2>1. c \in Conn
    BY Known
  <2> QED BY <2>1, Known
<1>4. o.kind = "query" /\ o.todo \subseteq Param /\ o.k <= Len(o.query) /\ o.res = {}
  BY <1>1, <1>3 DEF KindAt
<1>5. CASE /\ o.idx <= Len(requests[c])
           /\ Do(h, "param", [o EXCEPT !.todo = o.todo \ {p}])
           /\ requests' = [requests EXCEPT ![c] =
                [requests[c] EXCEPT ![o.idx] = requests[c][o.idx] \cup {p}]]
  <2> DEFINE r == [o EXCEPT !.todo = o.todo \ {p}]
             n == [requests[c] EXCEPT ![o.idx] = requests[c][o.idx] \cup {p}]
  <2>1. Do(h, "param", r)
    BY <1>5
  <2> HIDE DEF o
  <2>2. /\ r \in Thread /\ r.pc = "param" /\ r.con = c /\ r.kind = o.kind
        /\ r.query = o.query /\ r.val = o.val /\ r.k = o.k
        /\ r.res = o.res /\ (r.alone <=> o.alone) /\ r.idx = o.idx /\ r.todo = o.todo \ {p}
    BY <1>1, <1>3 DEF Thread
  <2> HIDE DEF r
  <2>3. KindAt(r)
    BY <1>1, <1>3, <1>4, <2>2 DEF KindAt
  <2>4. Turns(h, r)
    BY <1>3, <2>1, <2>2, <2>3, DoTurns DEF o
  <2>5. o.idx \in 1..Len(requests[c]) /\ requests[c][o.idx] \cup {p} \in Request
    <3>1. o.idx \in 1..Len(requests[c])
      BY <1>3, <1>5
    <3>2. requests[c][o.idx] \in Request
      BY <1>3, <3>1
    <3> QED BY <1>2, <1>4, <3>1, <3>2 DEF Request, o
  <2>6. /\ n \in Seq(Request) /\ Len(n) = Len(requests[c])
        /\ n[o.idx] = requests[c][o.idx] \cup {p}
        /\ \A i \in 1..Len(requests[c]) : i # o.idx => n[i] = requests[c][i]
    <3> DEFINE s == requests[c]
               i0 == o.idx
               e == s[i0] \cup {p}
    <3>1. s \in Seq(Request) /\ i0 \in 1..Len(s) /\ e \in Request
      BY <1>3, <2>5
    <3>2. n = [s EXCEPT ![i0] = e]
      OBVIOUS
    <3> HIDE DEF s, i0, e
    <3>3. /\ [s EXCEPT ![i0] = e] \in Seq(Request) /\ Len([s EXCEPT ![i0] = e]) = Len(s)
          /\ [s EXCEPT ![i0] = e][i0] = e
          /\ \A i \in 1..Len(s) : i # i0 => [s EXCEPT ![i0] = e][i] = s[i]
      BY <3>1
    <3> QED BY <3>2, <3>3 DEF s, i0, e
  <2>7. /\ requests' \in [Conn -> Seq(Request)] /\ requests'[c] = n
        /\ \A d \in Conn \ {c} : requests'[d] = requests[d]
    BY <1>3, <1>5, <2>6
  <2> HIDE DEF n
  <2>8. ASSUME r.alone PROVE QueryAt(r, n, latest[c])
    <3>1. QueryAt(o, requests[c], latest[c])
      BY <1>4, <2>2, <2>8, QueryKnown DEF o
    <3>2. /\ Len(requests[c]) = o.k /\ o.idx = o.k
          /\ \A i \in 1..Len(requests[c]) : i < o.k => requests[c][i] = o.query[i]
          /\ o.todo \subseteq o.query[o.k] /\ o.query[o.k] \in Request
          /\ requests[c][o.k] = o.query[o.k] \ o.todo
      BY <1>1, <3>1 DEF QueryAt
    <3>3. n[o.k] = o.query[o.k] \ r.todo
      <4>1. n[o.k] = (o.query[o.k] \ o.todo) \cup {p} /\ p \in o.query[o.k] /\ p \in o.todo
        BY <1>2, <2>6, <3>2 DEF o
      <4> QED BY <2>2, <4>1
    <3>4. \A i \in 1..Len(n) : i < o.k => n[i] = o.query[i]
      BY <1>3, <2>6, <3>2
    <3>5. Len(n) = o.k /\ r.todo \subseteq o.query[o.k]
      BY <2>2, <2>6, <3>2
    <3> QED BY <2>2, <3>2, <3>3, <3>4, <3>5 DEF QueryAt
  <2>9. BuilderAt(r, requests'[c], latest[c], shown[c], torn)
    BY <1>4, <2>2, <2>7, <2>8 DEF BuilderAt
  <2> QED
    BY <1>1, <2>2, <2>4, <2>7, <2>9, Known, BuilderTurns DEF Changing, o
\* The requests have been cleared meanwhile, by another query of the connection.
<1>6. CASE /\ o.idx > Len(requests[c])
           /\ Do(h, "param", [To(h, "reply") EXCEPT !.todo = {}])
           /\ UNCHANGED requests
  <2> DEFINE q == To(h, "reply")
             r == [q EXCEPT !.todo = {}]
  <2>1. Do(h, "param", r)
    BY <1>6
  <2>2. /\ q \in Thread /\ q.pc = "reply" /\ q.con = c /\ q.kind = o.kind
        /\ q.query = o.query /\ q.val = o.val /\ q.k = o.k
        /\ q.res = o.res /\ (q.alone <=> o.alone)
    BY ToFields DEF Pc
  <2> HIDE DEF q
  <2>3. /\ r \in Thread /\ r.pc = "reply" /\ r.con = c /\ r.kind = o.kind
        /\ r.query = o.query /\ r.val = o.val /\ r.k = o.k
        /\ r.res = o.res /\ (r.alone <=> o.alone)
    BY <2>2 DEF Thread
  <2> HIDE DEF r, o
  <2>4. KindAt(r)
    BY <1>4, <2>3 DEF KindAt
  <2>5. Turns(h, r)
    BY <1>3, <2>1, <2>3, <2>4, DoTurns DEF o
  <2>6. BuilderAt(r, requests[c], latest[c], shown[c], torn)
    BY <1>4, <2>3 DEF BuilderAt, QueryAt
  <2> QED
    BY <1>1, <1>4, <1>6, <2>3, <2>5, <2>6, Known, BuilderTurns DEF Changing, o
<1> QED
  BY <1>2, <1>3, <1>5, <1>6

LEMMA NextRequestKeeps ==
  ASSUME IInv, NEW h \in Handler, NextRequest(h)
  PROVE  IInv'
<1> DEFINE o == req[h]
           c == Con(h)
           q == To(h, "request")
           r == [q EXCEPT !.k = o.k + 1]
<1>1. o.pc = "param" /\ o.todo = {} /\ Do(h, "param", r) /\ UNCHANGED <<builders, common>>
  <2>1. [To(h, "request") EXCEPT !.k = @ + 1] = r
    BY Known DEF To, Thread
  <2> QED BY <2>1 DEF NextRequest, Do
<1>2. /\ q \in Thread /\ q.pc = "request" /\ q.con = c /\ q.kind = o.kind
      /\ q.query = o.query /\ q.val = o.val /\ q.k = o.k
      /\ q.res = o.res /\ (q.alone <=> o.alone)
  BY ToFields DEF Pc
<1> HIDE DEF q
<1>3. KindAt(o) /\ o.kind = "query" /\ o.k <= Len(o.query) /\ o.res = {} /\ o.k \in Nat \ {0}
      /\ o.query \in Query \cup {<<>>} /\ c \in Conn
  BY <1>1, Known DEF KindAt
<1> HIDE DEF o
<1>4. /\ r \in Thread /\ r.pc = "request" /\ r.con = c /\ r.kind = o.kind
      /\ r.query = o.query /\ r.val = o.val /\ r.k = o.k + 1
      /\ r.res = o.res /\ (r.alone <=> o.alone)
  BY <1>2, <1>3 DEF Thread
<1> HIDE DEF r
<1>5. KindAt(r) /\ r.k <= Len(r.query) + 1
  BY <1>3, <1>4, Queries DEF KindAt
<1>6. Turns(h, r)
  BY <1>1, <1>4, <1>5, DoTurns DEF o
<1>7. ASSUME r.alone PROVE QueryAt(r, requests[c], latest[c])
  <2>1. QueryAt(o, requests[c], latest[c])
    BY <1>3, <1>4, <1>7, QueryKnown DEF o
  <2>2. /\ Len(requests[c]) = o.k
        /\ \A i \in 1..Len(requests[c]) : i < o.k => requests[c][i] = o.query[i]
        /\ requests[c][o.k] = o.query[o.k]
    BY <1>1, <2>1 DEF QueryAt
  <2>3. \A i \in 1..Len(requests[c]) : requests[c][i] = o.query[i]
    BY <1>3, <2>2
  <2> QED BY <1>3, <1>4, <2>2, <2>3 DEF QueryAt
<1>8. BuilderAt(r, requests[c], latest[c], shown[c], torn)
  BY <1>3, <1>4, <1>7 DEF BuilderAt
<1> QED
  BY <1>1, <1>4, <1>6, <1>8, Known, BuilderTurns DEF Changing, o, builders

\* What was added request by request is the query.
LEMMA AllAdded ==
  ASSUME NEW q \in Query \cup {<<>>}, NEW rq \in Seq(Request), Len(rq) = Len(q),
         \A i \in 1..Len(rq) : rq[i] = q[i]
  PROVE  Range(rq) = Range(q)
<1>1. DOMAIN rq = 1..Len(rq) /\ DOMAIN q = 1..Len(q)
  BY Queries
<1> QED BY <1>1 DEF Range

LEMMA BuildKeeps ==
  ASSUME IInv, NEW h \in Handler, Build(h)
  PROVE  IInv'
<1> DEFINE o == req[h]
           c == Con(h)
<1>1. o.k > Len(o.query) /\ o.pc = "request" /\ UNCHANGED <<requests, shown, torn, common>>
  BY DEF Build, Do
<1>2. /\ KindAt(o) /\ o.kind = "query" /\ o.res = {} /\ c \in Conn
      /\ o.k \in Nat \ {0} /\ o.k <= Len(o.query) + 1 /\ o.query \in Query \cup {<<>>}
      /\ requests[c] \in Seq(Request)
  <2>1. KindAt(o) /\ c \in Conn
    BY Known
  <2> QED BY <1>1, <2>1, Known DEF KindAt
<1>3. Len(o.query) \in Nat /\ o.k = Len(o.query) + 1
  BY <1>1, <1>2, Queries
<1>4. CASE Do(h, "request", To(h, "copy")) /\ latest' = [latest EXCEPT ![c] = Range(requests[c])]
  <2> DEFINE r == To(h, "copy")
  <2>1. /\ r \in Thread /\ r.pc = "copy" /\ r.con = c /\ r.kind = o.kind
        /\ r.query = o.query /\ r.val = o.val /\ r.k = o.k
        /\ r.res = o.res /\ (r.alone <=> o.alone)
    BY ToFields DEF Pc
  <2>2. Do(h, "request", r)
    BY <1>4
  <2> HIDE DEF r, o
  <2>3. KindAt(r)
    BY <1>2, <2>1 DEF KindAt
  <2>4. Turns(h, r)
    BY <1>2, <2>1, <2>2, <2>3, DoTurns DEF o
  <2>5. Range(requests[c]) \subseteq Request
    BY <1>2 DEF Range
  <2>6. /\ latest' \in [Conn -> SUBSET Request] /\ latest'[c] = Range(requests[c])
        /\ \A d \in Conn \ {c} : latest'[d] = latest[d]
    BY <1>2, <1>4, <2>5, Known
  <2>7. ASSUME r.alone PROVE Range(requests[c]) = Range(r.query)
    <3>1. QueryAt(o, requests[c], latest[c])
      BY <1>2, <2>1, <2>7, QueryKnown DEF o
    <3>2. /\ Len(requests[c]) = o.k - 1
          /\ \A i \in 1..Len(requests[c]) : requests[c][i] = o.query[i]
      BY <1>1, <3>1 DEF QueryAt
    <3>3. Len(requests[c]) = Len(o.query)
      BY <1>3, <3>2
    <3> QED BY <1>2, <2>1, <3>2, <3>3, AllAdded
  <2>8. BuilderAt(r, requests[c], latest'[c], shown[c], torn)
    BY <1>2, <2>1, <2>6, <2>7 DEF BuilderAt, QueryAt
  <2> QED
    BY <1>1, <2>1, <2>4, <2>6, <2>8, Known, BuilderTurns, ZenonT(40) DEF Changing, o
<1>5. CASE /\ requests[c] = <<>>
           /\ Do(h, "request", To(h, "reply")) /\ UNCHANGED latest
  <2> DEFINE r == To(h, "reply")
  <2>1. /\ r \in Thread /\ r.pc = "reply" /\ r.con = c /\ r.kind = o.kind
        /\ r.query = o.query /\ r.val = o.val /\ r.k = o.k
        /\ r.res = o.res /\ (r.alone <=> o.alone)
    BY ToFields DEF Pc
  <2>2. Do(h, "request", r)
    BY <1>5
  <2> HIDE DEF r, o
  <2>3. KindAt(r)
    BY <1>2, <2>1 DEF KindAt
  <2>4. Turns(h, r)
    BY <1>2, <2>1, <2>2, <2>3, DoTurns DEF o
  <2>5. BuilderAt(r, requests[c], latest[c], shown[c], torn)
    BY <1>2, <2>1 DEF BuilderAt, QueryAt
  <2> QED
    BY <1>1, <1>2, <1>5, <2>1, <2>4, <2>5, Known, BuilderTurns DEF Changing, o
<1> QED
  BY <1>4, <1>5 DEF Build

LEMMA BuildFailsKeeps ==
  ASSUME IInv, NEW h \in Handler, BuildFails(h)
  PROVE  IInv'
<1> DEFINE o == req[h]
           c == Con(h)
           r == To(h, "reply")
<1>1. /\ o.pc = "request" /\ Fails(h, "request", r)
      /\ torn' = torn \cup {c}
      /\ UNCHANGED <<requests, shown, common>>
  BY DEF BuildFails, Fails
<1>2. PICK part \in SUBSET Range(requests[c]) : latest' = [latest EXCEPT ![c] = part]
  BY DEF BuildFails
<1>3. /\ KindAt(o) /\ o.kind = "query" /\ o.res = {} /\ c \in Conn
      /\ o.k <= Len(o.query) + 1 /\ requests[c] \in Seq(Request)
  <2>1. KindAt(o) /\ c \in Conn
    BY Known
  <2> QED BY <1>1, <2>1, Known DEF KindAt
<1>4. /\ r \in Thread /\ r.pc = "reply" /\ r.con = c /\ r.kind = o.kind
      /\ r.query = o.query /\ r.val = o.val /\ r.k = o.k
      /\ r.res = o.res /\ (r.alone <=> o.alone)
  BY ToFields DEF Pc
<1> HIDE DEF r, o
<1>5. KindAt(r)
  BY <1>3, <1>4 DEF KindAt
<1>6. Turns(h, r)
  BY <1>1, <1>3, <1>4, <1>5, FailsTurns DEF o
<1>7. part \subseteq Request
  BY <1>3 DEF Range
<1>8. /\ latest' \in [Conn -> SUBSET Request] /\ \A d \in Conn \ {c} : latest'[d] = latest[d]
      /\ torn' \subseteq Conn /\ c \in torn' /\ \A d \in Conn \ {c} : d \in torn' <=> d \in torn
  BY <1>1, <1>2, <1>3, <1>7, Known
<1>9. BuilderAt(r, requests[c], latest'[c], shown[c], torn')
  BY <1>3, <1>4 DEF BuilderAt, QueryAt
<1> QED
  BY <1>1, <1>3, <1>4, <1>6, <1>8, <1>9, Known, BuilderTurns, ZenonT(40) DEF Changing, o

LEMMA CopyKeeps ==
  ASSUME IInv, NEW h \in Handler, Copy(h)
  PROVE  IInv'
<1> DEFINE o == req[h]
           c == Con(h)
           q == To(h, "reply")
           r == [q EXCEPT !.res = latest[c]]
<1>1. /\ o.pc = "copy" /\ Do(h, "copy", r)
      /\ shown' = [shown EXCEPT ![c] = latest[c]]
      /\ torn' = IF o.alone THEN torn \ {c} ELSE torn \cup {c}
      /\ UNCHANGED <<requests, latest, common>>
  BY DEF Copy, Do
<1>2. /\ KindAt(o) /\ o.kind = "query" /\ c \in Conn /\ o.k <= Len(o.query) + 1
      /\ latest[c] \subseteq Request
  <2>1. KindAt(o) /\ c \in Conn
    BY Known
  <2> QED BY <1>1, <2>1, Known DEF KindAt
<1>3. /\ q \in Thread /\ q.pc = "reply" /\ q.con = c /\ q.kind = o.kind
      /\ q.query = o.query /\ q.val = o.val /\ q.k = o.k /\ (q.alone <=> o.alone)
  BY ToFields DEF Pc
<1> HIDE DEF q, o
<1>4. /\ r \in Thread /\ r.pc = "reply" /\ r.con = c /\ r.kind = o.kind
      /\ r.query = o.query /\ r.val = o.val /\ r.k = o.k
      /\ r.res = latest[c] /\ (r.alone <=> o.alone)
  BY <1>2, <1>3 DEF Thread
<1> HIDE DEF r
<1>5. KindAt(r)
  BY <1>2, <1>4 DEF KindAt
<1>6. Turns(h, r)
  BY <1>1, <1>2, <1>4, <1>5, DoTurns DEF o
<1>7. /\ shown' \in [Conn -> SUBSET Request] /\ shown'[c] = latest[c]
      /\ \A d \in Conn \ {c} : shown'[d] = shown[d]
      /\ torn' \subseteq Conn /\ \A d \in Conn \ {c} : d \in torn' <=> d \in torn
  BY <1>1, <1>2, Known
<1>8. ASSUME r.alone PROVE latest[c] = Range(r.query)
  BY <1>1, <1>2, <1>4, <1>8, QueryKnown DEF QueryAt, o
<1>9. BuilderAt(r, requests[c], latest[c], shown'[c], torn')
  BY <1>2, <1>4, <1>8 DEF BuilderAt, QueryAt
<1> QED
  BY <1>1, <1>2, <1>4, <1>6, <1>7, <1>9, Known, BuilderTurns DEF Changing, o

\* Alone on its connection, it meets no query between build and copy.
LEMMA AddBuildKeeps ==
  ASSUME IInv, NEW h \in Handler, AddBuild(h)
  PROVE  IInv'
<1> DEFINE o == req[h]
           c == Con(h)
           q == To(h, "reply")
           r == [q EXCEPT !.res = latest[c]]
<1>1. o.pc = "add" /\ Do(h, "add", r) /\ UNCHANGED <<builders, common>>
  BY DEF AddBuild, Do
<1>2. /\ KindAt(o) /\ o.kind = "add" /\ c \in Conn /\ o.k <= Len(o.query) + 1
      /\ latest[c] \subseteq Request
  <2>1. KindAt(o) /\ c \in Conn
    BY Known
  <2> QED BY <1>1, <2>1, Known DEF KindAt
<1>3. /\ q \in Thread /\ q.pc = "reply" /\ q.con = c /\ q.kind = o.kind
      /\ q.query = o.query /\ q.val = o.val /\ q.k = o.k /\ (q.alone <=> o.alone)
  BY ToFields DEF Pc
<1> HIDE DEF q, o
<1>4. /\ r \in Thread /\ r.pc = "reply" /\ r.con = c /\ r.kind = o.kind
      /\ r.query = o.query /\ r.val = o.val /\ r.k = o.k
      /\ r.res = latest[c] /\ (r.alone <=> o.alone)
  BY <1>2, <1>3 DEF Thread
<1> HIDE DEF r
<1>5. KindAt(r)
  BY <1>2, <1>4 DEF KindAt
<1>6. Turns(h, r)
  BY <1>1, <1>2, <1>4, <1>5, DoTurns DEF o
<1>7. ASSUME r.alone, c \notin torn PROVE latest[c] = shown[c]
  <2>1. \A g \in Handler : req[g].pc = "copy" => req[g].con # c
    BY <1>1, <1>4, <1>7 DEF IInv, BuilderInv, AloneInv, Busy, Con, o
  <2> QED BY <1>2, <1>7, <2>1 DEF IInv, BuilderInv, ShownInv
<1>8. BuilderAt(r, requests[c], latest[c], shown[c], torn)
  BY <1>2, <1>4, <1>7 DEF BuilderAt
<1> QED
  BY <1>1, <1>2, <1>4, <1>6, <1>8, Known, BuilderTurns DEF Changing, o, builders

(***************************************************************************)
(* The shared state.                                                       *)
(***************************************************************************)
LEMMA SetKeeps ==
  ASSUME IInv, NEW h \in Handler, Set(h)
  PROVE  IInv'
<1> DEFINE r == To(h, "read")
<1>1. /\ req[h].pc = "set" /\ Do(h, "set", r) /\ state' = req[h].val
      /\ UNCHANGED <<view, crossed, missed, builders>>
  BY DEF Set, Do
<1>2. KindAt(req[h]) /\ req[h].kind = "update" /\ req[h].val \in State /\ req[h].res = {}
  BY <1>1, Known DEF KindAt
<1>3. /\ r \in Thread /\ r.pc = "read" /\ r.con = Con(h) /\ r.kind = req[h].kind
      /\ r.query = req[h].query /\ r.val = req[h].val /\ r.k = req[h].k
      /\ r.res = req[h].res /\ (r.alone <=> req[h].alone)
  BY ToFields DEF Pc
<1> HIDE DEF r
<1>4. KindAt(r)
  BY <1>2, <1>3 DEF KindAt
<1>5. Turns(h, r)
  BY <1>1, <1>3, <1>4, Known, DoTurns
<1>6. Changing(r) /\ ViewAt(r, state', view', sockets \ closing)
  BY <1>2, <1>3 DEF Changing, ViewAt
<1>7. \A c \in Conn \ opened : view'[c] = Unknown
  BY <1>1 DEF IInv, ViewInv
<1> QED
  BY <1>1, <1>2, <1>3, <1>5, <1>6, <1>7, Known, CommonTurns

\* A change that fails leaves all clients behind, or none.
LEMMA SetFailsKeeps ==
  ASSUME IInv, NEW h \in Handler, SetFails(h)
  PROVE  IInv'
<1> DEFINE r == To(h, "reply")
<1>1. /\ req[h].pc = "set" /\ Fails(h, "set", r) /\ state' \in State
      /\ missed' = IF state' = state THEN missed ELSE sockets
      /\ UNCHANGED <<view, crossed, builders>>
  BY DEF SetFails, Fails
<1>2. /\ KindAt(req[h]) /\ req[h].kind = "update" /\ req[h].res = {}
      /\ missed \subseteq Conn /\ sockets \subseteq Conn
  BY <1>1, Known DEF KindAt
<1>3. /\ r \in Thread /\ r.pc = "reply" /\ r.con = Con(h) /\ r.kind = req[h].kind
      /\ r.query = req[h].query /\ r.k = req[h].k /\ (r.alone <=> req[h].alone)
  BY ToFields DEF Pc
<1> HIDE DEF r
<1>4. KindAt(r)
  BY <1>2, <1>3 DEF KindAt
<1>5. Turns(h, r)
  BY <1>1, <1>3, <1>4, Known, FailsTurns
<1>6. ViewAt(r, state', view', sockets \ closing)
  BY <1>2, <1>3 DEF ViewAt
<1>7. \A c \in Conn \ opened : view'[c] = Unknown
  BY <1>1 DEF IInv, ViewInv
<1>8. missed' \subseteq Conn
  BY <1>1, <1>2
<1>9. ASSUME ~crossed, \A g \in Handler \ {h} : ~Changing(req[g]),
             NEW c \in (sockets \ closing) \ missed'
      PROVE  Current(c, state', view')
  <2>1. state' = state /\ missed' = missed
    BY <1>1, <1>9
  <2>2. ~Changing(req[h])
    BY <1>1 DEF Changing
  <2> QED BY <1>1, <1>9, <2>1, <2>2 DEF IInv, ViewInv
<1> QED
  BY <1>1, <1>2, <1>3, <1>5, <1>6, <1>7, <1>8, <1>9, Known, CommonTurns

LEMMA ReadKeeps ==
  ASSUME IInv, NEW h \in Handler, Read(h)
  PROVE  IInv'
<1>1. /\ req[h].pc = "read" /\ UNCHANGED <<builders, common>>
      /\ \A c \in Conn \ opened : view'[c] = Unknown
  BY DEF Read, Do, IInv, ViewInv, common
<1>2. /\ KindAt(req[h]) /\ req[h].kind \in {"infos", "update"} /\ req[h].res = {}
      /\ req[h].k <= Len(req[h].query) + 1 /\ state \in State /\ sockets \subseteq Conn
  BY <1>1, Known DEF KindAt
<1>3. CASE req[h].kind = "infos"
  <2> DEFINE q == To(h, "reply")
             r == [q EXCEPT !.val = state]
  <2>1. Do(h, "read", r)
    BY <1>3 DEF Read
  <2>2. /\ q \in Thread /\ q.pc = "reply" /\ q.con = Con(h) /\ q.kind = req[h].kind
        /\ q.query = req[h].query /\ q.k = req[h].k /\ (q.alone <=> req[h].alone)
    BY ToFields DEF Pc
  <2> HIDE DEF q
  <2>3. /\ r \in Thread /\ r.pc = "reply" /\ r.con = Con(h) /\ r.kind = "infos"
        /\ r.query = req[h].query /\ r.k = req[h].k /\ (r.alone <=> req[h].alone)
        /\ r.val = state
    BY <1>2, <1>3, <2>2 DEF Thread
  <2> HIDE DEF r
  <2>4. KindAt(r)
    BY <2>3 DEF KindAt
  <2>5. Turns(h, r)
    BY <1>1, <1>2, <1>3, <2>1, <2>3, <2>4, DoTurns
  <2>6. ViewAt(r, state, view, sockets \ closing)
    BY <2>3 DEF ViewAt
  <2>7. ASSUME ~crossed, \A g \in Handler \ {h} : ~Changing(req[g]),
               NEW c \in (sockets \ closing) \ missed
        PROVE  Current(c, state, view)
    <3>1. ~Changing(req[h])
      BY <1>1, <1>3 DEF Changing
    <3> QED BY <2>7, <3>1 DEF IInv, ViewInv
  <2> QED
    BY <1>1, <2>3, <2>5, <2>6, <2>7, Known, CommonTurns DEF common
<1>4. CASE req[h].kind = "update"
  <2> DEFINE q == To(h, "cast")
             r == [q EXCEPT !.val = state, !.todo = sockets]
  <2>1. Do(h, "read", r)
    BY <1>4 DEF Read
  <2>2. /\ q \in Thread /\ q.pc = "cast" /\ q.con = Con(h) /\ q.kind = req[h].kind
        /\ q.query = req[h].query /\ q.k = req[h].k /\ (q.alone <=> req[h].alone)
        /\ q.res = req[h].res
    BY ToFields DEF Pc
  <2> HIDE DEF q
  <2>3. /\ r \in Thread /\ r.pc = "cast" /\ r.con = Con(h) /\ r.kind = "update"
        /\ r.query = req[h].query /\ r.k = req[h].k /\ (r.alone <=> req[h].alone)
        /\ r.val = state /\ r.todo = sockets /\ r.res = {}
    BY <1>2, <1>4, <2>2 DEF Thread
  <2> HIDE DEF r
  <2>4. KindAt(r)
    BY <2>3 DEF KindAt
  <2>5. Turns(h, r)
    BY <1>1, <1>2, <1>4, <2>1, <2>3, <2>4, DoTurns
  <2>6. ViewAt(r, state, view, sockets \ closing) /\ Changing(r)
    BY <2>3 DEF ViewAt, Changing
  <2> QED
    BY <1>1, <1>4, <2>3, <2>5, <2>6, Known, CommonTurns DEF common
<1> QED BY <1>2, <1>3, <1>4

\* An error is answered; a change has gone unheard by all.
LEMMA ReadFailsKeeps ==
  ASSUME IInv, NEW h \in Handler, ReadFails(h)
  PROVE  IInv'
<1> DEFINE q == To(h, "reply")
           r == [q EXCEPT !.val = Unknown]
<1>1. /\ req[h].pc = "read" /\ Fails(h, "read", r)
      /\ missed' = IF req[h].kind = "update" THEN sockets ELSE missed
      /\ UNCHANGED <<state, view, crossed, builders>>
  BY DEF ReadFails, Fails
<1>2. /\ KindAt(req[h]) /\ req[h].kind \in {"infos", "update"}
      /\ missed \subseteq Conn /\ sockets \subseteq Conn
  BY <1>1, Known DEF KindAt
<1>3. /\ q \in Thread /\ q.pc = "reply" /\ q.con = Con(h) /\ q.kind = req[h].kind
      /\ q.query = req[h].query /\ q.k = req[h].k /\ (q.alone <=> req[h].alone)
  BY ToFields DEF Pc
<1> HIDE DEF q
<1>4. /\ r \in Thread /\ r.pc = "reply" /\ r.con = Con(h) /\ r.kind = req[h].kind
      /\ r.query = req[h].query /\ r.k = req[h].k /\ (r.alone <=> req[h].alone)
      /\ r.val = Unknown
  BY <1>3 DEF Thread
<1> HIDE DEF r
<1>5. KindAt(r)
  BY <1>2, <1>4 DEF KindAt
<1>6. Turns(h, r)
  BY <1>1, <1>4, <1>5, Known, FailsTurns
<1>7. ViewAt(r, state, view, sockets \ closing)
  BY <1>4 DEF ViewAt
<1>8. \A c \in Conn \ opened : view'[c] = Unknown
  BY <1>1 DEF IInv, ViewInv
<1>9. missed' \subseteq Conn
  BY <1>1, <1>2
<1>10. ASSUME ~crossed, \A g \in Handler \ {h} : ~Changing(req[g]),
              NEW c \in (sockets \ closing) \ missed'
       PROVE  Current(c, state, view)
  <2>1. req[h].kind = "infos" /\ missed' = missed
    BY <1>1, <1>2, <1>10
  <2>2. ~Changing(req[h])
    BY <1>1, <2>1 DEF Changing
  <2> QED BY <1>10, <2>1, <2>2 DEF IInv, ViewInv
<1> QED
  BY <1>1, <1>2, <1>4, <1>6, <1>7, <1>8, <1>9, <1>10, Known, CommonTurns

LEMMA CastKeeps ==
  ASSUME IInv, NEW h \in Handler, Cast(h)
  PROVE  IInv'
<1> DEFINE o == req[h]
<1>0. CASE Die
  BY <1>0, DieKeeps
<1>1. o.pc = "cast"
  BY DEF Cast, Do
<1>2. /\ o \in Thread /\ KindAt(o) /\ o.kind = "update" /\ o.res = {}
      /\ o.k <= Len(o.query) + 1 /\ o.val \in State \cup {Unknown} /\ missed \subseteq Conn
      /\ view \in [Conn -> State \cup {Unknown}] /\ sockets \subseteq opened /\ opened \subseteq Conn
      /\ ~crossed => o.val = state /\ \A c \in (sockets \ closing) \ o.todo : Current(c, state, view)
  <2>1. ~crossed => ViewAt(o, state, view, sockets \ closing)
    BY Known
  <2> QED BY <1>1, <2>1, Known DEF KindAt, ViewAt
<1>3. ASSUME NEW c \in o.todo, c \notin closing, Do(h, "cast", [o EXCEPT !.todo = o.todo \ {c}]),
             IF c \in sockets THEN Hears(c, o.val) ELSE UNCHANGED <<view, missed>>,
             UNCHANGED <<builders, state, crossed>>
      PROVE  IInv'
  <2> DEFINE r == [o EXCEPT !.todo = o.todo \ {c}]
  <2>1. Do(h, "cast", r)
    BY <1>3
  <2> HIDE DEF o
  <2>2. /\ r \in Thread /\ r.pc = "cast" /\ r.con = o.con /\ r.kind = "update"
        /\ r.query = o.query /\ r.k = o.k /\ (r.alone <=> o.alone)
        /\ r.val = o.val /\ r.todo = o.todo \ {c} /\ r.res = {}
    BY <1>1, <1>2 DEF Thread
  <2> HIDE DEF r
  <2>3. KindAt(r)
    BY <2>2 DEF KindAt
  <2>4. Turns(h, r)
    BY <1>1, <1>2, <2>1, <2>2, <2>3, DoTurns DEF o, Con
  <2>5. /\ view' \in [Conn -> State \cup {Unknown}]
        /\ \A d \in Conn : d # c \/ d \notin sockets \ closing => view'[d] = view[d]
        /\ c \in sockets \ closing => view'[c] = o.val
        /\ missed' \subseteq Conn
    BY <1>2, <1>3 DEF Hears
  <2>6. \A d \in Conn \ opened : view'[d] = Unknown
    <3>1. \A d \in Conn \ opened : view[d] = Unknown
      BY DEF IInv, ViewInv
    <3> QED BY <1>2, <2>5, <3>1
  <2>7. ASSUME ~crossed
        PROVE  ViewAt(r, state, view', sockets \ closing)
    <3>1. ASSUME NEW d \in (sockets \ closing) \ r.todo PROVE Current(d, state, view')
      <4>1. CASE d = c
        BY <1>2, <2>5, <2>7, <3>1, <4>1 DEF Current
      <4>2. CASE d # c
        BY <1>2, <2>2, <2>5, <2>7, <3>1, <4>2 DEF Current
      <4> QED BY <4>1, <4>2
    <3> QED BY <1>2, <2>2, <2>7, <3>1 DEF ViewAt
  <2>8. Changing(r)
    BY <2>2 DEF Changing
  <2> QED
    BY <1>1, <1>2, <1>3, <2>2, <2>4, <2>5, <2>6, <2>7, <2>8, Known, CommonTurns DEF o
<1>4. CASE o.todo = {} /\ Do(h, "cast", To(h, "reply")) /\ UNCHANGED <<builders, common>>
  <2> DEFINE r == To(h, "reply")
  <2>1. /\ r \in Thread /\ r.pc = "reply" /\ r.con = Con(h) /\ r.kind = o.kind
        /\ r.query = o.query /\ r.k = o.k /\ (r.alone <=> o.alone)
    BY ToFields DEF Pc
  <2>2. Do(h, "cast", r)
    BY <1>4
  <2> HIDE DEF r
  <2>3. KindAt(r)
    BY <1>2, <2>1 DEF KindAt
  <2>4. Turns(h, r)
    BY <1>2, <2>1, <2>2, <2>3, DoTurns
  <2>5. \A d \in Conn \ opened : view'[d] = Unknown
    BY <1>4 DEF IInv, ViewInv, common
  <2>6. ViewAt(r, state, view, sockets \ closing)
    BY <1>2, <2>1 DEF ViewAt
  <2>7. ~crossed => \A c \in sockets \ closing : Current(c, state, view)
    BY <1>2, <1>4
  <2> QED
    BY <1>1, <1>2, <1>4, <2>1, <2>4, <2>5, <2>6, <2>7, Known, CommonTurns DEF common
<1> QED
  BY <1>0, <1>1, <1>3, <1>4 DEF Cast

LEMMA ReplyKeeps ==
  ASSUME IInv, NEW h \in Handler, Reply(h)
  PROVE  IInv'
<1> DEFINE o == req[h]
           c == Con(h)
           sent == o.kind = "infos" /\ o.val # Unknown /\ c \in sockets
<1>0. CASE Die
  BY <1>0, DieKeeps
<1> SUFFICES ASSUME ~Die PROVE IInv'
  BY <1>0
<1>1. /\ o.pc = "reply" /\ Do(h, "reply", NoMessage) /\ UNCHANGED <<builders, state, crossed>>
      /\ IF sent THEN Hears(c, o.val) ELSE UNCHANGED <<view, missed>>
  BY DEF Reply, Do
<1>2. /\ o.val \in State \cup {Unknown} /\ c \in Conn /\ missed \subseteq Conn
      /\ view \in [Conn -> State \cup {Unknown}] /\ sockets \subseteq opened /\ opened \subseteq Conn
      /\ ~crossed /\ o.kind = "infos" => o.val \in {state, Unknown}
  <2>1. ~crossed => ViewAt(o, state, view, sockets \ closing)
    BY Known
  <2> QED BY <1>1, <2>1, Known DEF ViewAt
<1>3. Turns(h, NoMessage)
  BY <1>1, NoMessageTyped, DoTurns
<1>4. sent => o.kind = "infos" /\ o.val # Unknown /\ c \in sockets
  OBVIOUS
<1> HIDE DEF sent, o, c
<1>5. /\ view' \in [Conn -> State \cup {Unknown}] /\ missed' \subseteq Conn
      /\ \A d \in Conn : \/ view'[d] = view[d] /\ (d \in missed' <=> d \in missed)
                         \/ /\ d \in sockets /\ o.kind = "infos" /\ o.val # Unknown
                            /\ view'[d] = o.val
  BY <1>1, <1>2, <1>4 DEF Hears
<1>6. \A d \in Conn \ opened : view'[d] = Unknown
  <2>1. \A d \in Conn \ opened : view[d] = Unknown
    BY DEF IInv, ViewInv
  <2> QED BY <1>2, <1>5, <2>1
<1>7. ~crossed => \A d \in Conn :
        \/ view'[d] = state
        \/ view'[d] = view[d] /\ (d \in missed' <=> d \in missed)
  BY <1>2, <1>5
<1>8. ViewAt(NoMessage, state, view', sockets \ closing) /\ ~Changing(NoMessage)
  BY NoMessageTyped DEF ViewAt, Changing
<1>9. ASSUME ~crossed, \A g \in Handler \ {h} : ~Changing(req[g]),
             NEW d \in (sockets \ closing) \ missed'
      PROVE  Current(d, state, view')
  <2>1. ~Changing(req[h])
    BY <1>1 DEF Changing, o
  <2>2. d \in Conn /\ (d \notin missed => Current(d, state, view))
    BY <1>2, <1>9, <2>1 DEF IInv, ViewInv
  <2> QED BY <1>7, <1>9, <2>2 DEF Current
<1> QED
  BY <1>1, <1>3, <1>5, <1>6, <1>7, <1>8, <1>9, Known, NoMessageTyped, CommonTurns DEF o

(***************************************************************************)
(* The specification.                                                      *)
(***************************************************************************)
LEMMA InitIInv == Init => IInv
<1> SUFFICES ASSUME Init PROVE IInv
  OBVIOUS
<1>1. /\ up = TRUE /\ opened = {} /\ closing = {} /\ sockets = {}
      /\ requests = [c \in Conn |-> <<>>]
      /\ latest = [c \in Conn |-> {}] /\ shown = [c \in Conn |-> {}] /\ torn = {}
      /\ state = CHOOSE v \in State : TRUE
      /\ view = [c \in Conn |-> Unknown]
      /\ asio = Quiet /\ about = NoMessage.con
      /\ req = [h \in Handler |-> NoMessage]
      /\ spent = [work |-> 0, faults |-> 0]
      /\ crossed = FALSE /\ missed = {}
  BY DEF Init, NoFiles
<1>2. \A h \in Handler : req[h] = NoMessage
  BY <1>1
<1>3. TypeOK
  <2>1. state \in State
    BY <1>1, SessionAssumption
  <2>2. <<>> \in Seq(Request) /\ spent \in [work : 0..MaxWork, faults : 0..MaxFaults]
    BY <1>1, SessionAssumption
  <2>3. req \in [Handler -> Thread] /\ \A h \in Handler : req[h].k <= Len(req[h].query) + 1
    BY <1>1, <1>2, NoMessageTyped
  <2> QED
    BY <1>1, <2>1, <2>2, <2>3, NoMessageTyped DEF TypeOK
<1>4. \A h \in Handler : KindAt(req[h])
  BY <1>2, NoMessageTyped
<1>5. LineInv
  BY <1>1 DEF LineInv
<1>6. BuilderInv
  <2>1. Busy = {}
    BY <1>2, NoMessageTyped DEF Busy
  <2>2. AloneInv /\ ShownInv
    BY <1>1, <2>1 DEF AloneInv, ShownInv
  <2>3. \A rq, la, sh, to : BuilderAt(NoMessage, rq, la, sh, to)
    BY NoMessageTyped DEF BuilderAt
  <2> QED BY <1>2, <2>2, <2>3 DEF BuilderInv
<1>7. ViewInv
  BY <1>1, <1>2, NoMessageTyped DEF ViewInv, ViewAt
<1> QED
  BY <1>3, <1>4, <1>5, <1>6, <1>7 DEF IInv

LEMMA StepKeeps == IInv /\ [Next]_vars => IInv'
<1> SUFFICES ASSUME IInv, [Next]_vars PROVE IInv'
  OBVIOUS
<1>1. CASE AsioLog
  BY <1>1, AsioLogKeeps
<1>2. ASSUME NEW c \in Conn, OnOpen(c) \/ ClientCloses(c) \/ OnClose(c)
      PROVE  IInv'
  BY <1>2, OnOpenKeeps, ClientClosesKeeps, OnCloseKeeps
<1>3. ASSUME NEW c \in Conn, NEW h \in Handler, Message(c, h)
      PROVE  IInv'
  BY <1>3, MessageKeeps
<1>4. ASSUME NEW h \in Handler, HandlerStep(h)
      PROVE  IInv'
  BY <1>4, HandlerLogKeeps, ClearKeeps, AddRequestKeeps, AddBrokenKeeps, AddParameterKeeps,
     NextRequestKeeps, BuildKeeps, CopyKeeps, AddBuildKeeps, SetKeeps, ReadKeeps, CastKeeps,
     ReplyKeeps DEF HandlerStep
<1>5. ASSUME NEW h \in Handler, BuildFails(h) \/ SetFails(h) \/ ReadFails(h) \/ UseFreed(h)
      PROVE  IInv'
  BY <1>5, BuildFailsKeeps, SetFailsKeeps, ReadFailsKeeps, DieKeeps DEF UseFreed
<1>6. CASE UNCHANGED vars
  <2>1. UNCHANGED <<opened, sockets, closing, up, asio, about, builders, common, req, spent>>
    BY <1>6 DEF vars, server
  <2>2. /\ closing \subseteq sockets /\ asio \in 0..MaxDepth \cup {Quiet} /\ about \in Conn
        /\ up \in BOOLEAN /\ LineInv
    BY DEF IInv, TypeOK
  <2>3. LineInv'
    BY <2>1, <2>2 DEF LineInv
  <2> QED BY <2>1, <2>2, <2>3, LineMoves
<1> QED
  BY <1>1, <1>2, <1>3, <1>4, <1>5, <1>6 DEF Next

LEMMA Inductive == Spec => []IInv
BY InitIInv, StepKeeps, PTL DEF Spec

\* The types, for any connections, threads, queries and bounds.
THEOREM SessionTypes == Spec => []TypeOK
<1>1. IInv => TypeOK
  BY DEF IInv
<1> QED BY <1>1, Inductive, PTL

\* on_close erases the connection before it logs: an error in the asio thread's
\* own line is never about the connection the line is about.
THEOREM LineOutlivesClose == Spec => []OwnCloseIsSafe
<1>1. IInv => OwnCloseIsSafe
  BY Depths DEF IInv, LineInv, OwnCloseIsSafe
<1> QED BY <1>1, Inductive, PTL

\* api_builder_query: a query alone on its connection gets its own files,
\* whatever was left in the builder and whatever the other connections do.
THEOREM QueryGetsItsOwn == Spec => []AnswerIsOwn
<1>1. IInv => AnswerIsOwn
  BY QueryKnown DEF AnswerIsOwn, QueryAt
<1> QED BY <1>1, Inductive, PTL

\* add_build_to_corpus: what is added is what the client was shown last.
THEOREM ShownIsAdded == Spec => []AddsWhatWasShown
<1>1. IInv => AddsWhatWasShown
  BY Known DEF AddsWhatWasShown, BuilderAt
<1> QED BY <1>1, Inductive, PTL

\* broadcast_json: as long as no two messages about the shared state overlap,
\* every client that has heard of it knows its present value, and one that a
\* failed change has left behind does as soon as it is told anything.
THEOREM ClientsAreCurrent == Spec => []ViewsCurrent
<1>1. IInv => ViewsCurrent
  <2> SUFFICES ASSUME IInv, ~crossed, About({"infos", "update"}) = {}
               PROVE  \A c \in (sockets \ closing) \ missed : view[c] \in {state, Unknown}
    BY DEF ViewsCurrent
  <2>1. \A h \in Handler : ~Changing(req[h])
    BY Known DEF About, Busy, Changing, KindAt
  <2> QED BY <2>1 DEF IInv, ViewInv, Current
<1> QED BY <1>1, Inductive, PTL
===============================================================================
