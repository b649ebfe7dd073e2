-------------------------- MODULE CorpusStoreProofs --------------------------
(***************************************************************************)
(* For any processes, files, ids and failures: no row of CorpusFiles       *)
(* outlives its corpus, and what was answered as added is there.  For one  *)
(* process: a deletion that is answered has deleted, a list of corpuses    *)
(* ends well, and until something fails no archive is stale or left over.  *)
(***************************************************************************)
EXTENDS CorpusStore, TLAPS

(***************************************************************************)
(* The inductive invariant: the tables keep their shape, and a corpus that *)
(* has no row has no files.  What a process remembers of the tables does   *)
(* not matter: every statement looks at the rows as they are.              *)
(***************************************************************************)
IInv ==
  /\ corpus \in [Id -> {"unused", "row", "gone"}]
  /\ DOMAIN members = Id
  /\ members = [c \in Id |-> members[c]]
  /\ NoOrphanMembers

\* The foreign key: a row is inserted only for a corpus that is there.
LEMMA InsertKeeps ==
  ASSUME IInv, NEW x \in Client, Insert(x)
  PROVE  IInv'
<1>1. UNCHANGED corpus
  BY DEF Insert
<1>2. PICK f \in req[x].left :
        LET r == [req[x] EXCEPT !.left = @ \ {f}] IN
        members' = IF r.id \in Rows
                   THEN [members EXCEPT ![r.id] = @ \cup {f}] ELSE members
  BY DEF Insert
<1> DEFINE r == [req[x] EXCEPT !.left = req[x].left \ {f}]
<1>3. CASE r.id \in Rows
  <2> DEFINE c == r.id
  <2>1. members' = [members EXCEPT ![c] = members[c] \cup {f}]
    BY <1>2, <1>3
  <2>2. c \in Id /\ corpus[c] = "row"
    BY <1>3 DEF Rows
  <2> HIDE DEF c
  <2>3. /\ DOMAIN members' = Id
        /\ members' = [d \in Id |-> members'[d]]
        /\ \A d \in Id \ {c} : members'[d] = members[d]
    BY <2>1, <2>2 DEF IInv
  <2>4. NoOrphanMembers'
    BY <1>1, <2>2, <2>3 DEF IInv, NoOrphanMembers
  <2> QED
    BY <1>1, <2>3, <2>4 DEF IInv
<1>4. CASE r.id \notin Rows
  <2>1. members' = members
    BY <1>2, <1>4
  <2> QED
    BY <1>1, <2>1 DEF IInv, NoOrphanMembers
<1> QED
  BY <1>3, <1>4

\* ON DELETE CASCADE.
LEMMA DeleteRowKeeps ==
  ASSUME IInv, NEW x \in Client, DeleteRow(x)
  PROVE  IInv'
<1> DEFINE c == req[x].id
<1>1. /\ corpus' = [corpus EXCEPT ![c] = "gone"]
      /\ members' = [members EXCEPT ![c] = {}]
  BY DEF DeleteRow
<1> HIDE DEF c
<1>2. /\ corpus' \in [Id -> {"unused", "row", "gone"}]
      /\ \A d \in Id \ {c} : corpus'[d] = corpus[d]
  BY <1>1 DEF IInv
<1>3. /\ DOMAIN members' = Id
      /\ members' = [d \in Id |-> members'[d]]
      /\ \A d \in Id \ {c} : members'[d] = members[d]
      /\ c \in Id => members'[c] = {}
  BY <1>1 DEF IInv
<1>4. NoOrphanMembers'
  BY <1>2, <1>3 DEF IInv, NoOrphanMembers
<1> QED
  BY <1>2, <1>3, <1>4 DEF IInv

\* A new corpus takes an id that was never used.
LEMMA InsertRowKeeps ==
  ASSUME IInv, NEW x \in Client, InsertRow(x)
  PROVE  IInv'
<1>1. PICK c \in Id : corpus[c] = "unused"
                      /\ corpus' = [corpus EXCEPT ![c] = "row"]
  BY DEF InsertRow
<1>2. UNCHANGED members
  BY DEF InsertRow
<1>3. /\ corpus' \in [Id -> {"unused", "row", "gone"}]
      /\ \A d \in Id \ {c} : corpus'[d] = corpus[d]
      /\ corpus'[c] = "row"
  BY <1>1 DEF IInv
<1>4. NoOrphanMembers'
  BY <1>2, <1>3 DEF IInv, NoOrphanMembers
<1> QED
  BY <1>2, <1>3, <1>4 DEF IInv

\* Everything else leaves both tables alone.
LEMMA OthersKeep ==
  ASSUME IInv, UNCHANGED <<corpus, members>>
  PROVE  IInv'
BY DEF IInv, NoOrphanMembers

LEMMA StepKeeps == IInv /\ [Next]_vars => IInv'
<1> SUFFICES ASSUME IInv, [Next]_vars
             PROVE  IInv'
  OBVIOUS
<1>1. CASE UNCHANGED vars
  BY <1>1, OthersKeep DEF vars, tables
<1>2. ASSUME NEW x \in Client, Begin(x) \/ Fail(x) \/ Crash(x)
      PROVE  IInv'
  BY <1>2, OthersKeep DEF Begin, Fail, Crash, tables
<1>3. ASSUME NEW x \in Client,
             \/ Select(x) \/ Fill(x) \/ SetNull(x) \/ Fetch(x)
             \/ InsertNothing(x) \/ Drop(x) \/ Check(x) \/ ZipOpen(x)
             \/ ZipClose(x) \/ SetPath(x) \/ Size(x)
      PROVE  IInv'
  BY <1>3, OthersKeep DEF Select, Fill, SetNull, Fetch, InsertNothing, Drop,
     Check, ZipOpen, ZipClose, SetPath, Size, tables
<1>4. ASSUME NEW x \in Client, InsertRow(x) \/ Insert(x) \/ DeleteRow(x)
      PROVE  IInv'
  BY <1>4, InsertRowKeeps, InsertKeeps, DeleteRowKeeps
<1> QED
  BY <1>1, <1>2, <1>3, <1>4 DEF Next, Step

\* The rows of CorpusFiles have their corpus, whichever process deletes it and
\* whichever adds files to it, at any step of either.
THEOREM MembersHaveCorpus == Spec => []NoOrphanMembers
<1>1. Init => IInv
  BY DEF Init, IInv, NoOrphanMembers
<1>2. IInv => NoOrphanMembers
  BY DEF IInv
<1> QED
  BY <1>1, <1>2, StepKeeps, PTL DEF Spec

(***************************************************************************)
(* The second inductive invariant, about the requests.  A request r, on    *)
(* tables co, ex, me and archives ar: which step belongs to which          *)
(* operation, and what it has noted so far.                                *)
(***************************************************************************)
OpAt(r) ==
  /\ r.pc = "insert row" => r.op = "create" /\ r.path = {}
  /\ r.pc \in {"select", "fill", "null", "fetch"} => r.op # "create"
  /\ r.pc = "insert" => r.op \in {"create", "add"}
  /\ r.pc = "drop" => r.op \in {"add", "delete"}
  /\ r.pc = "delete row" => r.op = "delete"
  /\ r.pc \in {"check", "zip", "close", "set path"} => r.op = "export"
  /\ r.pc = "size" => r.op \in {"export", "list"}
  /\ r.pc # "idle" => r.answer = "none"
  /\ r.pc \in {"fill", "null", "fetch"} =>
       r.todo # {} /\ (r.op # "list" => r.todo \subseteq {r.id})
  /\ r.pc \in {"null", "fetch"} => r.id \in r.todo
  /\ r.left \subseteq r.batch
  /\ r.pc \in {"insert row", "select", "fill", "null", "fetch"} => r.left = r.batch
  /\ r.pc = "insert" /\ r.left = {} => r.batch = {}

\* A request that adds has its files inserted except those left, unless the
\* corpus has been deleted; the corpus is one that has existed.
AddAt(r, co, me) ==
  /\ r.op = "add" /\ r.pc \in {"fill", "null", "fetch"} =>
       \A c \in r.todo : co[c] # "unused"
  /\ r.pc = "insert" => /\ co[r.id] # "unused"
                        /\ co[r.id] = "row" => r.batch \ r.left \subseteq me[r.id]
  /\ r.op \in {"create", "add"} /\ (r.pc = "drop" \/ (r.pc = "idle" /\ r.answer = "done")) =>
       co[r.id] # "unused" /\ (co[r.id] = "row" => r.batch \subseteq me[r.id])

OneClient == \E x : Client = {x}

\* One process alone: the archives of the paths it has looked at are there.
PathAt(r, co, ar) ==
  /\ r.pc \in {"fill", "null"} => \A c \in r.path \ r.todo : ar[c] # NoArchive
  /\ r.pc = "null" => ar[r.id] = NoArchive
  /\ r.pc = "fetch" => \A c \in r.path : c \notin r.todo \/ c = r.id => ar[c] # NoArchive
  /\ r.pc \in {"insert", "drop"} => \A c \in r.path : ar[c] # NoArchive
  /\ r.pc = "size" /\ r.op = "list" => \A c \in r.todo : ar[c] # NoArchive
  /\ r.pc = "idle" /\ r.op = "delete" /\ r.answer = "done" => co[r.id] # "row"

\* ... and, while nothing has failed: an archive belongs to a corpus that has it
\* as its path and holds its files, but for the request that is changing that.
CurrentAt(r, co, ex, me, ar) ==
  /\ \A c \in Id : ar[c] # NoArchive =>
       /\ co[c] = "row"
       /\ c \in ex \/ (r.pc = "set path" /\ c = r.id)
       /\ \/ ar[c] = me[c]
          \/ /\ r.op = "add" /\ c = r.id /\ c \in r.path
             /\ r.pc = "drop" \/ (r.pc = "insert" /\ r.left # r.batch)
  /\ r.pc \in {"fill", "null", "fetch"} =>
       \A c \in r.todo : co[c] = "row" /\ (ar[c] # NoArchive => c \in r.path)
  /\ r.pc \in {"insert", "drop", "check"} /\ ar[r.id] # NoArchive =>
       r.op # "create" /\ r.id \in r.path
  /\ r.pc \in {"check", "zip", "close"} => co[r.id] = "row"
  /\ r.pc \in {"zip", "close", "delete row"} => ar[r.id] = NoArchive
  /\ r.op = "export" /\ r.pc \in {"check", "zip", "close", "set path", "size"} =>
       r.files = me[r.id]
  /\ r.op = "export" /\ r.pc = "idle" /\ r.answer = "done" => ar[r.id] = r.files

RInv ==
  /\ TypeOK
  /\ \A x \in Client :
       /\ OpAt(req[x])
       /\ AddAt(req[x], corpus, members)
       /\ OneClient => /\ PathAt(req[x], corpus, archive)
                       /\ faults = 0 => CurrentAt(req[x], corpus, extraction, members, archive)

(***************************************************************************)
(* A step of client x, whose request becomes r.                            *)
(***************************************************************************)
Becomes(x, r) == r \in Request /\ OpAt(r) /\ req' = [req EXCEPT ![x] = r]

\* A corpus that has existed is not used again and, while it has its row, keeps
\* its files: so what the other requests have noted stays true.
LEMMA Frame ==
  ASSUME RInv, NEW x \in Client, NEW r, Becomes(x, r),
         corpus' \in [Id -> {"unused", "row", "gone"}], extraction' \in SUBSET Id,
         members' \in [Id -> SUBSET File], archive' \in [Id -> {NoArchive} \cup SUBSET File],
         asked' \in [Client -> 0..MaxRequests], faults' \in 0..MaxFaults,
         \A c \in Id : corpus[c] # "unused" =>
           /\ corpus'[c] # "unused"
           /\ corpus'[c] = "row" => corpus[c] = "row" /\ members[c] \subseteq members'[c],
         AddAt(r, corpus', members'),
         OneClient => PathAt(r, corpus', archive'),
         OneClient /\ faults' = 0 => CurrentAt(r, corpus', extraction', members', archive')
  PROVE  RInv'
<1>1. /\ req' \in [Client -> Request] /\ req'[x] = r
      /\ \A y \in Client \ {x} : req'[y] = req[y]
  BY DEF RInv, TypeOK, Becomes
<1>2. \A y \in Client : OpAt(req'[y])
  BY <1>1 DEF RInv, Becomes
<1>3. TypeOK'
  BY <1>1, <1>2 DEF RInv, TypeOK, OpAt
<1>4. ASSUME NEW y \in Client PROVE AddAt(req'[y], corpus', members')
  <2>1. CASE y = x
    BY <1>1, <2>1
  <2>2. CASE y # x
    <3>1. req[y] \in Request /\ OpAt(req[y]) /\ AddAt(req[y], corpus, members) /\ req'[y] = req[y]
      BY <1>1, <2>2 DEF RInv, TypeOK
    <3>2. req[y].id \in Id /\ req[y].todo \subseteq Id
      BY <3>1 DEF Request
    <3> QED BY <3>1, <3>2 DEF AddAt
  <2> QED BY <2>1, <2>2
<1>5. ASSUME NEW y \in Client, OneClient
      PROVE  /\ PathAt(req'[y], corpus', archive')
             /\ faults' = 0 => CurrentAt(req'[y], corpus', extraction', members', archive')
  BY <1>1, <1>5 DEF OneClient
<1> QED
  BY <1>2, <1>3, <1>4, <1>5 DEF RInv, OneClient

LEMMA OnlyRequest ==
  ASSUME RInv, NEW x \in Client, NEW r, Becomes(x, r),
         UNCHANGED <<corpus, extraction, members, archive>>,
         faults' \in 0..MaxFaults, asked' \in [Client -> 0..MaxRequests],
         AddAt(r, corpus, members),
         OneClient => PathAt(r, corpus, archive),
         OneClient /\ faults' = 0 => CurrentAt(r, corpus, extraction, members, archive)
  PROVE  RInv'
BY Frame DEF RInv, TypeOK

LEMMA Known ==
  ASSUME RInv, NEW x \in Client
  PROVE  /\ req[x] \in Request /\ req[x].id \in Id /\ req[x].todo \subseteq Id
         /\ req[x].path \subseteq Id /\ req[x].left \subseteq File /\ req[x].batch \subseteq File
         /\ OpAt(req[x]) /\ AddAt(req[x], corpus, members)
         /\ OneClient => PathAt(req[x], corpus, archive)
         /\ OneClient /\ faults = 0 => CurrentAt(req[x], corpus, extraction, members, archive)
         /\ asked \in [Client -> 0..MaxRequests] /\ faults \in 0..MaxFaults /\ MaxFaults \in Nat
         /\ corpus \in [Id -> {"unused", "row", "gone"}] /\ extraction \in SUBSET Id
         /\ members \in [Id -> SUBSET File] /\ archive \in [Id -> {NoArchive} \cup SUBSET File]
BY CorpusAssumption DEF RInv, TypeOK, Request

\* A request ends without having done what it was asked for.
LEMMA Refused ==
  ASSUME RInv, NEW x \in Client, NEW answer \in {"error", "died"}, Answer(x, answer),
         UNCHANGED <<corpus, extraction, members, archive, asked>>,
         faults' \in 0..MaxFaults,
         faults' = 0 => /\ faults = 0 /\ req[x].pc \notin {"set path", "drop"}
                        /\ req[x].pc = "insert" => req[x].left = req[x].batch
  PROVE  RInv'
<1> DEFINE r == [req[x] EXCEPT !.pc = "idle", !.answer = answer]
<1>1. req' = [req EXCEPT ![x] = r]
  BY DEF Answer, Set
<1>2. /\ r \in Request /\ r.pc = "idle" /\ r.answer = answer /\ r.op = req[x].op
      /\ r.left = req[x].left /\ r.batch = req[x].batch
  BY Known, ZenonT(40) DEF Request
<1> HIDE DEF r
<1>3. OpAt(r)
  BY <1>2, Known DEF OpAt
<1>4. AddAt(r, corpus, members) /\ PathAt(r, corpus, archive)
  BY <1>2 DEF AddAt, PathAt
<1>5. OneClient /\ faults' = 0 => CurrentAt(r, corpus, extraction, members, archive)
  BY <1>2, Known DEF CurrentAt
<1> QED
  BY <1>1, <1>2, <1>3, <1>4, <1>5, Known, OnlyRequest DEF Becomes

LEMMA FailKeeps ==
  ASSUME RInv, NEW x \in Client, Fail(x) \/ Crash(x)
  PROVE  RInv'
<1>1. /\ Answer(x, "error") /\ UNCHANGED <<corpus, extraction, members, archive, asked>>
      /\ faults < MaxFaults /\ faults' = faults + 1
  BY DEF Fail, Crash, Fault, tables
<1>2. faults' \in 0..MaxFaults /\ faults' # 0
  BY <1>1, Known
<1> QED
  BY <1>1, <1>2, Refused

LEMMA BeginKeeps ==
  ASSUME RInv, NEW x \in Client, Begin(x)
  PROVE  RInv'
<1>1. /\ req[x].pc = "idle" /\ asked[x] < MaxRequests
      /\ asked' = [asked EXCEPT ![x] = asked[x] + 1]
      /\ UNCHANGED <<corpus, extraction, members, archive, faults>>
  BY DEF Begin, tables
<1>2. asked' \in [Client -> 0..MaxRequests] /\ faults' \in 0..MaxFaults
  BY <1>1, Known, CorpusAssumption
<1>3. PICK op \in Operation, c \in Id, batch \in SUBSET File, pc \in {"insert row", "select"} :
        /\ req' = [req EXCEPT ![x] = Started(op, c, batch, pc)]
        /\ pc = "insert row" <=> op = "create"
  <2>1. CASE \E batch \in SUBSET File : Set(x, Started("create", req[x].id, batch, "insert row"))
    BY <2>1, Known DEF Set, Operation
  <2>2. CASE \E c \in Id, batch \in SUBSET File : Set(x, Started("add", c, batch, "select"))
    BY <2>2 DEF Set, Operation
  <2>3. CASE \E c \in Id, op \in Operation \ {"create", "add"} : Set(x, Started(op, c, {}, "select"))
    BY <2>3 DEF Set, Operation
  <2> QED BY <2>1, <2>2, <2>3 DEF Begin
<1> DEFINE r == Started(op, c, batch, pc)
<1>4. /\ r \in Request /\ r.pc = pc /\ r.op = op /\ r.left = r.batch /\ r.path = {}
      /\ r.answer = "none"
  BY DEF Started, Request
<1> HIDE DEF r
<1>5. OpAt(r) /\ AddAt(r, corpus, members) /\ PathAt(r, corpus, archive)
  BY <1>3, <1>4 DEF OpAt, AddAt, PathAt
<1>6. OneClient /\ faults' = 0 => CurrentAt(r, corpus, extraction, members, archive)
  BY <1>1, <1>4, Known DEF CurrentAt
<1> QED
  BY <1>1, <1>2, <1>3, <1>4, <1>5, <1>6, OnlyRequest DEF Becomes, r

(***************************************************************************)
(* A new corpus, and loading one.                                          *)
(***************************************************************************)
LEMMA InsertRowRequests ==
  ASSUME RInv, NEW x \in Client, InsertRow(x)
  PROVE  RInv'
<1>1. PICK c \in Id :
        /\ corpus[c] = "unused" /\ corpus' = [corpus EXCEPT ![c] = "row"]
        /\ Set(x, IF req[x].batch = {}
                  THEN [req[x] EXCEPT !.id = c, !.pc = "idle", !.answer = "done"]
                  ELSE [req[x] EXCEPT !.id = c, !.pc = "insert"])
  BY DEF InsertRow
<1>2. req[x].pc = "insert row" /\ UNCHANGED <<extraction, members, archive, asked, faults>>
  BY DEF InsertRow
<1>3. PICK r : r = IF req[x].batch = {}
                   THEN [req[x] EXCEPT !.id = c, !.pc = "idle", !.answer = "done"]
                   ELSE [req[x] EXCEPT !.id = c, !.pc = "insert"]
  OBVIOUS
<1>4. /\ r \in Request /\ r.id = c /\ r.op = "create" /\ r.path = {}
      /\ r.left = r.batch /\ r.batch = req[x].batch
      /\ \/ r.pc = "idle" /\ r.answer = "done" /\ r.batch = {}
         \/ r.pc = "insert" /\ r.answer = "none" /\ r.batch # {}
  <2>1. req[x].op = "create" /\ req[x].path = {} /\ req[x].left = req[x].batch
        /\ req[x].answer = "none" /\ req[x] \in Request
    BY <1>2, Known DEF OpAt
  <2>2. CASE req[x].batch = {}
    BY <1>3, <2>1, <2>2 DEF Request
  <2>3. CASE req[x].batch # {}
    BY <1>3, <2>1, <2>3 DEF Request
  <2> QED BY <2>2, <2>3
<1>5. OpAt(r)
  BY <1>4 DEF OpAt
<1>6. /\ corpus' \in [Id -> {"unused", "row", "gone"}] /\ corpus'[c] = "row"
      /\ \A d \in Id \ {c} : corpus'[d] = corpus[d]
  BY <1>1, Known
<1>7. AddAt(r, corpus', members')
  BY <1>4, <1>6 DEF AddAt
<1>8. PathAt(r, corpus', archive')
  BY <1>4 DEF PathAt
<1>9. ASSUME OneClient, faults' = 0
      PROVE  CurrentAt(r, corpus', extraction', members', archive')
  <2>1. CurrentAt(req[x], corpus, extraction, members, archive)
    BY <1>2, <1>9, Known
  <2>2. archive[c] = NoArchive
    BY <1>1, <2>1 DEF CurrentAt
  <2> QED
    BY <1>2, <1>4, <1>6, <2>1, <2>2, ZenonT(40) DEF CurrentAt
<1>10. req' = [req EXCEPT ![x] = r]
  BY <1>1, <1>3 DEF Set
<1> QED
  BY <1>1, <1>2, <1>4, <1>5, <1>6, <1>7, <1>8, <1>9, <1>10, Known, Frame DEF Becomes

LEMMA SelectKeeps ==
  ASSUME RInv, NEW x \in Client, Select(x)
  PROVE  RInv'
<1> DEFINE found == IF req[x].op = "list" THEN Rows ELSE Rows \cap {req[x].id}
<1>1. req[x].pc = "select" /\ UNCHANGED <<corpus, extraction, members, archive, asked, faults>>
  BY DEF Select, tables
<1>2. /\ found \subseteq Id /\ \A c \in found : corpus[c] = "row"
      /\ req[x].op # "list" => found \subseteq {req[x].id}
  BY DEF Rows
<1>3. CASE found # {}
  <2> DEFINE r == [req[x] EXCEPT !.pc = "fill", !.todo = found, !.path = found \cap extraction]
  <2>1. req' = [req EXCEPT ![x] = r]
    BY <1>3 DEF Select, Set
  <2> HIDE DEF found
  <2>2. /\ r \in Request /\ r.pc = "fill" /\ r.todo = found /\ r.path = found \cap extraction
        /\ r.op = req[x].op /\ r.id = req[x].id /\ r.left = req[x].left /\ r.batch = req[x].batch
        /\ r.answer = req[x].answer
    BY <1>2, Known, ZenonT(40) DEF Request
  <2> HIDE DEF r
  <2>3. OpAt(r)
    BY <1>1, <1>2, <1>3, <2>2, Known, ZenonT(40) DEF OpAt
  <2>4. AddAt(r, corpus, members) /\ PathAt(r, corpus, archive)
    BY <1>2, <2>2 DEF AddAt, PathAt
  <2>5. OneClient /\ faults' = 0 => CurrentAt(r, corpus, extraction, members, archive)
    BY <1>1, <1>2, <2>2, Known DEF CurrentAt
  <2> QED
    BY <1>1, <2>1, <2>2, <2>3, <2>4, <2>5, Known, OnlyRequest DEF Becomes
<1>4. CASE found = {}
  <2>1. Answer(x, IF req[x].op = "list" THEN "done" ELSE "error")
    BY <1>4 DEF Select
  <2>2. CASE req[x].op # "list"
    BY <1>1, <2>1, <2>2, Known, Refused
  <2>3. CASE req[x].op = "list"
    <3> DEFINE r == [req[x] EXCEPT !.pc = "idle", !.answer = "done"]
    <3>1. req' = [req EXCEPT ![x] = r]
      BY <2>1, <2>3 DEF Answer, Set
    <3>2. /\ r \in Request /\ r.pc = "idle" /\ r.op = "list"
          /\ r.left = req[x].left /\ r.batch = req[x].batch
      BY <2>3, Known DEF Request
    <3> HIDE DEF r
    <3>3. OpAt(r) /\ AddAt(r, corpus, members) /\ PathAt(r, corpus, archive)
      BY <3>2, Known, ZenonT(40) DEF OpAt, AddAt, PathAt
    <3>4. OneClient /\ faults' = 0 => CurrentAt(r, corpus, extraction, members, archive)
      BY <1>1, <3>2, Known DEF CurrentAt
    <3> QED
      BY <1>1, <3>1, <3>2, <3>3, <3>4, Known, OnlyRequest DEF Becomes
  <2> QED BY <2>2, <2>3
<1> QED BY <1>3, <1>4

LEMMA FillKeeps ==
  ASSUME RInv, NEW x \in Client, Fill(x)
  PROVE  RInv'
<1>1. req[x].pc = "fill" /\ UNCHANGED <<corpus, extraction, members, archive, asked, faults>>
  BY DEF Fill, tables
<1>2. PICK c \in req[x].todo :
        Set(x, [req[x] EXCEPT
          !.id = c,
          !.pc = IF c \in req[x].path /\ ~Stored(c) THEN "null" ELSE "fetch"])
  BY DEF Fill
<1> DEFINE pc == IF c \in req[x].path /\ ~Stored(c) THEN "null" ELSE "fetch"
           r == [req[x] EXCEPT !.id = c, !.pc = pc]
<1>3. req' = [req EXCEPT ![x] = r]
  BY <1>2 DEF Set
<1>4. /\ pc \in {"null", "fetch"} /\ c \in Id
      /\ pc = "null" => archive[c] = NoArchive
      /\ pc = "fetch" /\ c \in req[x].path => archive[c] # NoArchive
  BY Known DEF Stored
<1> HIDE DEF pc
<1>5. /\ r \in Request /\ r.pc = pc /\ r.id = c /\ r.todo = req[x].todo /\ r.path = req[x].path
      /\ r.op = req[x].op /\ r.left = req[x].left /\ r.batch = req[x].batch
      /\ r.answer = req[x].answer
  BY <1>4, Known, ZenonT(40) DEF Request
<1> HIDE DEF r
<1>6. OpAt(r) /\ AddAt(r, corpus, members)
  <2>1. OpAt(req[x]) /\ AddAt(req[x], corpus, members)
    BY Known
  <2>2. OpAt(r)
    BY <1>1, <1>4, <1>5, <2>1 DEF OpAt
  <2>3. AddAt(r, corpus, members)
    BY <1>1, <1>4, <1>5, <2>1 DEF AddAt
  <2> QED
    BY <2>2, <2>3
<1>7. OneClient => PathAt(r, corpus, archive)
  BY <1>1, <1>4, <1>5, Known DEF PathAt
<1>8. OneClient /\ faults' = 0 => CurrentAt(r, corpus, extraction, members, archive)
  BY <1>1, <1>4, <1>5, Known DEF CurrentAt
<1> QED
  BY <1>1, <1>3, <1>5, <1>6, <1>7, <1>8, Known, OnlyRequest DEF Becomes

LEMMA SetNullKeeps ==
  ASSUME RInv, NEW x \in Client, SetNull(x)
  PROVE  RInv'
<1> DEFINE r == [req[x] EXCEPT !.pc = "fetch", !.path = req[x].path \ {req[x].id}]
<1>1. /\ req[x].pc = "null" /\ UNCHANGED <<corpus, members, archive, asked, faults>>
      /\ extraction' = extraction \ {req[x].id}
      /\ req' = [req EXCEPT ![x] = r]
  BY DEF SetNull, Set
<1>2. /\ r \in Request /\ r.pc = "fetch" /\ r.id = req[x].id /\ r.todo = req[x].todo
      /\ r.path = req[x].path \ {req[x].id} /\ r.op = req[x].op /\ r.left = req[x].left
      /\ r.batch = req[x].batch /\ r.answer = req[x].answer
  BY Known DEF Request
<1> HIDE DEF r
<1>3. OpAt(r) /\ AddAt(r, corpus, members)
  <2>1. OpAt(req[x]) /\ AddAt(req[x], corpus, members)
    BY Known
  <2>2. OpAt(r)
    BY <1>1, <1>2, <2>1 DEF OpAt
  <2>3. AddAt(r, corpus, members)
    BY <1>1, <1>2, <2>1 DEF AddAt
  <2> QED
    BY <2>2, <2>3
<1>4. OneClient => PathAt(r, corpus, archive)
  BY <1>1, <1>2, Known DEF PathAt
<1>5. ASSUME OneClient, faults' = 0
      PROVE  CurrentAt(r, corpus, extraction', members, archive)
  <2>1. /\ CurrentAt(req[x], corpus, extraction, members, archive)
        /\ archive[req[x].id] = NoArchive
    BY <1>1, <1>5, Known DEF PathAt
  <2> QED BY <1>1, <1>2, <2>1 DEF CurrentAt
<1> QED
  BY <1>1, <1>2, <1>3, <1>4, <1>5, Known, Frame DEF Becomes

LEMMA FetchKeeps ==
  ASSUME RInv, NEW x \in Client, Fetch(x)
  PROVE  RInv'
<1> DEFINE o == req[x]
           q == [o EXCEPT !.files = members[o.id], !.todo = o.todo \ {o.id}]
<1>1. /\ o.pc = "fetch" /\ UNCHANGED <<corpus, extraction, members, archive, asked, faults>>
      /\ req' = [req EXCEPT ![x] = IF q.todo = {} THEN Loaded(q) ELSE [q EXCEPT !.pc = "fill"]]
  BY DEF Fetch, tables, Set
<1>2. /\ o \in Request /\ OpAt(o) /\ AddAt(o, corpus, members) /\ o.id \in Id
      /\ OneClient => PathAt(o, corpus, archive)
      /\ OneClient /\ faults = 0 => CurrentAt(o, corpus, extraction, members, archive)
      /\ members \in [Id -> SUBSET File]
  BY Known
<1> HIDE DEF o
<1>3. /\ q \in Request /\ q.pc = "fetch" /\ q.id = o.id /\ q.todo = o.todo \ {o.id}
      /\ q.path = o.path /\ q.op = o.op /\ q.left = o.left /\ q.batch = o.batch
      /\ q.files = members[o.id] /\ q.answer = o.answer
  BY <1>1, <1>2 DEF Request
<1> HIDE DEF q
\* Whatever comes next, it goes on with what was loaded.
<1>4. ASSUME NEW r \in Request, req' = [req EXCEPT ![x] = r],
             r.id = o.id, r.path = o.path, r.op = o.op, r.left = o.left, r.batch = o.batch,
             r.files = members[o.id],
             \/ r.pc = "fill" /\ r.todo = q.todo /\ r.todo # {} /\ r.answer = "none"
             \/ r.op = "add" /\ r.pc = "insert" /\ r.answer = "none" /\ q.todo = {}
             \/ r.op = "export" /\ r.pc = "check" /\ r.answer = "none" /\ q.todo = {}
             \/ r.op = "delete" /\ r.pc = "drop" /\ r.answer = "none" /\ q.todo = {}
             \/ r.op = "list" /\ r.pc = "size" /\ r.todo = r.path /\ r.answer = "none" /\ q.todo = {}
             \/ /\ r.op \notin {"create", "add", "export", "delete"}
                /\ r.pc = "idle" /\ r.answer = "done"
      PROVE  RInv'
  <2>1. OpAt(r)
    BY <1>1, <1>2, <1>3, <1>4, ZenonT(40) DEF OpAt
  <2>2. AddAt(r, corpus, members)
    BY <1>1, <1>2, <1>3, <1>4, ZenonT(40) DEF AddAt, OpAt
  <2>3. OneClient => PathAt(r, corpus, archive)
    BY <1>1, <1>2, <1>3, <1>4 DEF PathAt
  <2>4. OneClient /\ faults' = 0 => CurrentAt(r, corpus, extraction, members, archive)
    BY <1>1, <1>2, <1>3, <1>4, ZenonT(40) DEF CurrentAt, OpAt
  <2> QED
    BY <1>1, <1>4, <2>1, <2>2, <2>3, <2>4, Known, OnlyRequest DEF Becomes
<1>5. o.answer = "none" /\ o.op # "create"
  BY <1>1, <1>2 DEF OpAt
<1>6. CASE q.todo # {}
  <2> DEFINE r == [q EXCEPT !.pc = "fill"]
  <2>1. /\ r \in Request /\ r.pc = "fill" /\ r.id = q.id /\ r.todo = q.todo /\ r.path = q.path
        /\ r.op = q.op /\ r.left = q.left /\ r.batch = q.batch /\ r.files = q.files
        /\ r.answer = q.answer
    BY <1>3 DEF Request
  <2>2. req' = [req EXCEPT ![x] = r]
    BY <1>1, <1>6
  <2> HIDE DEF r
  <2> QED
    BY <1>3, <1>4, <1>5, <1>6, <2>1, <2>2
<1>7. CASE q.todo = {}
  <2>1. req' = [req EXCEPT ![x] = Loaded(q)]
    BY <1>1, <1>7
  <2>2. ASSUME NEW pc \in {"insert", "check", "drop"}, Loaded(q) = [q EXCEPT !.pc = pc],
               \/ q.op = "add" /\ pc = "insert"
               \/ q.op = "export" /\ pc = "check"
               \/ q.op = "delete" /\ pc = "drop"
        PROVE  RInv'
    <3> DEFINE r == [q EXCEPT !.pc = pc]
    <3>1. /\ r \in Request /\ r.pc = pc /\ r.id = q.id /\ r.path = q.path
          /\ r.op = q.op /\ r.left = q.left /\ r.batch = q.batch /\ r.files = q.files
          /\ r.answer = q.answer
      BY <1>3 DEF Request
    <3>2. req' = [req EXCEPT ![x] = r]
      BY <2>1, <2>2
    <3> HIDE DEF r
    <3> QED
      BY <1>3, <1>4, <1>5, <1>7, <2>2, <3>1, <3>2
  <2>3. CASE q.op = "add"
    BY <2>2, <2>3 DEF Loaded
  <2>4. CASE q.op = "export"
    BY <2>2, <2>4 DEF Loaded
  <2>5. CASE q.op = "delete"
    BY <2>2, <2>5 DEF Loaded
  <2>6. CASE q.op = "list" /\ q.path # {}
    <3> DEFINE r == [q EXCEPT !.pc = "size", !.todo = q.path]
    <3>1. /\ r \in Request /\ r.pc = "size" /\ r.id = q.id /\ r.path = q.path /\ r.todo = q.path
          /\ r.op = q.op /\ r.left = q.left /\ r.batch = q.batch /\ r.files = q.files
          /\ r.answer = q.answer
      BY <1>3 DEF Request
    <3>2. req' = [req EXCEPT ![x] = r]
      BY <2>1, <2>6 DEF Loaded
    <3> HIDE DEF r
    <3> QED
      BY <1>3, <1>4, <1>5, <1>7, <2>6, <3>1, <3>2
  <2>7. CASE q.op \notin {"add", "export", "delete"} /\ ~(q.op = "list" /\ q.path # {})
    <3> DEFINE r == [q EXCEPT !.pc = "idle", !.answer = "done"]
    <3>1. /\ r \in Request /\ r.pc = "idle" /\ r.id = q.id /\ r.path = q.path
          /\ r.op = q.op /\ r.left = q.left /\ r.batch = q.batch /\ r.files = q.files
          /\ r.answer = "done"
      BY <1>3 DEF Request
    <3>2. req' = [req EXCEPT ![x] = r]
      BY <2>1, <2>7 DEF Loaded
    <3> HIDE DEF r
    <3> QED
      BY <1>3, <1>4, <1>5, <1>7, <2>7, <3>1, <3>2
  <2> QED BY <2>3, <2>4, <2>5, <2>6, <2>7
<1> QED BY <1>6, <1>7

(***************************************************************************)
(* Adding files.                                                           *)
(***************************************************************************)
\* What comes after the last file.
LEMMA AllInsertedRequest ==
  ASSUME NEW q \in Request, q.op \in {"create", "add"}, q.left \subseteq q.batch,
         q.answer = "none"
  PROVE  /\ AllInserted(q) \in Request /\ OpAt(AllInserted(q))
         /\ AllInserted(q).op = q.op /\ AllInserted(q).id = q.id
         /\ AllInserted(q).path = q.path /\ AllInserted(q).batch = q.batch
         /\ IF q.op = "add" /\ q.id \in q.path THEN AllInserted(q).pc = "drop"
            ELSE AllInserted(q).pc = "idle" /\ AllInserted(q).answer = "done"
<1>1. CASE q.op = "add" /\ q.id \in q.path
  <2> DEFINE r == [q EXCEPT !.pc = "drop", !.files = q.files \cup q.batch]
  <2>1. AllInserted(q) = r
    BY <1>1 DEF AllInserted
  <2>2. /\ r \in Request /\ r.pc = "drop" /\ r.op = q.op /\ r.id = q.id /\ r.path = q.path
        /\ r.batch = q.batch /\ r.left = q.left /\ r.answer = q.answer
    BY DEF Request
  <2> HIDE DEF r
  <2>3. OpAt(r)
    BY <1>1, <2>2 DEF OpAt
  <2> QED BY <1>1, <2>1, <2>2, <2>3
<1>2. CASE ~(q.op = "add" /\ q.id \in q.path)
  <2> DEFINE r == [q EXCEPT !.pc = "idle", !.answer = "done"]
  <2>1. AllInserted(q) = r
    BY <1>2 DEF AllInserted
  <2>2. /\ r \in Request /\ r.pc = "idle" /\ r.op = q.op /\ r.id = q.id /\ r.path = q.path
        /\ r.batch = q.batch /\ r.left = q.left /\ r.answer = "done"
    BY DEF Request
  <2> HIDE DEF r
  <2>3. OpAt(r)
    BY <2>2 DEF OpAt
  <2> QED BY <1>2, <2>1, <2>2, <2>3
<1> QED BY <1>1, <1>2

LEMMA InsertRequests ==
  ASSUME RInv, NEW x \in Client, Insert(x)
  PROVE  RInv'
<1> DEFINE o == req[x]
<1>1. o.pc = "insert" /\ UNCHANGED <<corpus, extraction, archive, asked, faults>>
  BY DEF Insert
<1>2. PICK f \in o.left :
        LET r == [o EXCEPT !.left = o.left \ {f}] IN
        /\ members' = IF r.id \in Rows
                      THEN [members EXCEPT ![r.id] = @ \cup {f}] ELSE members
        /\ Set(x, IF r.left = {} THEN AllInserted(r) ELSE r)
  BY DEF Insert
<1> DEFINE q == [o EXCEPT !.left = o.left \ {f}]
           c == o.id
<1>3. /\ o \in Request /\ OpAt(o) /\ AddAt(o, corpus, members) /\ c \in Id /\ f \in File
      /\ f \in o.batch
      /\ OneClient => PathAt(o, corpus, archive)
      /\ OneClient /\ faults = 0 => CurrentAt(o, corpus, extraction, members, archive)
      /\ members \in [Id -> SUBSET File]
  BY <1>2, Known DEF OpAt
<1>4. /\ q \in Request /\ q.pc = "insert" /\ q.op = o.op /\ q.id = c /\ q.path = o.path
      /\ q.batch = o.batch /\ q.left = o.left \ {f} /\ q.answer = o.answer
  <2> HIDE DEF o
  <2> QED BY <1>1, <1>3 DEF Request
<1>5. /\ members' = IF c \in Rows THEN [members EXCEPT ![c] = members[c] \cup {f}] ELSE members
      /\ req' = [req EXCEPT ![x] = IF q.left = {} THEN AllInserted(q) ELSE q]
  BY <1>2, <1>4 DEF Set
<1> HIDE DEF q, o, c
<1>6. /\ members' \in [Id -> SUBSET File]
      /\ \A d \in Id \ {c} : members'[d] = members[d]
      /\ members[c] \subseteq members'[c]
      /\ corpus[c] = "row" => members'[c] = members[c] \cup {f}
  <2>1. CASE c \in Rows
    <3>1. members' = [members EXCEPT ![c] = members[c] \cup {f}]
      BY <1>5, <2>1
    <3> QED BY <1>3, <3>1
  <2>2. CASE c \notin Rows
    BY <1>3, <1>5, <2>2 DEF Rows
  <2> QED BY <2>1, <2>2
<1>7. \A d \in Id : members[d] \subseteq members'[d]
  BY <1>6
\* With one file less to insert, at the same place or at the next.
<1>8. ASSUME NEW r \in Request, OpAt(r), req' = [req EXCEPT ![x] = r],
             r.op = o.op, r.id = c, r.path = o.path, r.batch = o.batch,
             \/ r.pc = "insert" /\ r.left = o.left \ {f}
             \/ /\ o.left \ {f} = {}
                /\ IF o.op = "add" /\ c \in o.path THEN r.pc = "drop"
                   ELSE r.pc = "idle" /\ r.answer = "done"
      PROVE  RInv'
  <2>1. corpus[c] # "unused" /\ (corpus[c] = "row" => o.batch \ (o.left \ {f}) \subseteq members'[c])
    BY <1>1, <1>3, <1>6 DEF AddAt, c
  <2>2. AddAt(r, corpus, members')
    BY <1>1, <1>3, <1>8, <2>1 DEF AddAt
  <2>3. OneClient => PathAt(r, corpus, archive)
    BY <1>1, <1>3, <1>8 DEF PathAt, OpAt
  <2>4. ASSUME OneClient, faults' = 0
        PROVE  CurrentAt(r, corpus, extraction, members', archive)
    <3>1. CurrentAt(o, corpus, extraction, members, archive) /\ o.pc = "insert"
      BY <1>1, <1>3, <2>4
    <3>2. o.op \in {"create", "add"}
      BY <1>1, <1>3 DEF OpAt
    <3>3. archive[c] # NoArchive => o.op = "add" /\ c \in o.path
      BY <3>1, <3>2 DEF CurrentAt, c
    <3>4. ASSUME NEW d \in Id, archive[d] # NoArchive
          PROVE  /\ corpus[d] = "row"
                 /\ d \in extraction \/ (r.pc = "set path" /\ d = r.id)
                 /\ \/ archive[d] = members'[d]
                    \/ /\ r.op = "add" /\ d = r.id /\ d \in r.path
                       /\ r.pc = "drop" \/ (r.pc = "insert" /\ r.left # r.batch)
      <4>1. corpus[d] = "row" /\ d \in extraction
        BY <3>1, <3>4 DEF CurrentAt
      <4>2. CASE d = c
        BY <1>3, <1>8, <3>3, <3>4, <4>1, <4>2
      <4>3. CASE d # c
        BY <1>6, <3>1, <3>4, <4>1, <4>3 DEF CurrentAt, c
      <4> QED BY <4>2, <4>3
    <3>5. r.pc \in {"insert", "drop"} /\ archive[c] # NoArchive => r.op # "create" /\ c \in r.path
      BY <1>8, <3>3
    <3> QED BY <1>8, <3>2, <3>4, <3>5 DEF CurrentAt
  <2> QED
    BY <1>1, <1>6, <1>7, <1>8, <2>2, <2>3, <2>4, Known, Frame DEF Becomes
<1>9. OpAt(q) \/ q.left = {}
  BY <1>1, <1>3, <1>4 DEF OpAt
<1>10. CASE q.left # {}
  <2>1. req' = [req EXCEPT ![x] = q]
    BY <1>5, <1>10
  <2> QED
    BY <1>4, <1>8, <1>9, <1>10, <2>1
<1>11. CASE q.left = {}
  <2>1. req' = [req EXCEPT ![x] = AllInserted(q)]
    BY <1>5, <1>11
  <2>2. o.op \in {"create", "add"} /\ o.left \subseteq o.batch /\ o.answer = "none"
    BY <1>1, <1>3 DEF OpAt
  <2> QED
    BY <1>4, <1>8, <1>11, <2>1, <2>2, AllInsertedRequest
<1> QED BY <1>10, <1>11

\* Files that are none: the process survives or not.
LEMMA InsertNothingKeeps ==
  ASSUME RInv, NEW x \in Client, InsertNothing(x)
  PROVE  RInv'
<1> DEFINE o == req[x]
           r == AllInserted(o)
<1>1. /\ o.pc = "insert" /\ o.left = {}
      /\ UNCHANGED <<corpus, extraction, members, archive, asked, faults>>
  BY DEF InsertNothing, tables
<1>2. /\ o \in Request /\ OpAt(o) /\ AddAt(o, corpus, members) /\ o.id \in Id
      /\ OneClient => PathAt(o, corpus, archive)
      /\ OneClient /\ faults = 0 => CurrentAt(o, corpus, extraction, members, archive)
      /\ o.op \in {"create", "add"} /\ o.batch = {} /\ o.answer = "none"
  BY <1>1, Known DEF OpAt
<1>3. CASE Answer(x, "died")
  <2>1. faults' \in 0..MaxFaults /\ (faults' = 0 => faults = 0)
    BY <1>1, Known
  <2> QED BY <1>1, <1>2, <1>3, <2>1, Refused
<1>4. CASE req' = [req EXCEPT ![x] = r]
  <2> HIDE DEF o
  <2>1. /\ r \in Request /\ OpAt(r) /\ r.op = o.op /\ r.id = o.id /\ r.path = o.path
        /\ r.batch = {}
        /\ IF o.op = "add" /\ o.id \in o.path THEN r.pc = "drop"
           ELSE r.pc = "idle" /\ r.answer = "done"
    BY <1>1, <1>2, AllInsertedRequest
  <2> HIDE DEF r
  <2>2. AddAt(r, corpus, members)
    BY <1>1, <1>2, <2>1 DEF AddAt
  <2>3. OneClient => PathAt(r, corpus, archive)
    BY <1>1, <1>2, <2>1 DEF PathAt
  <2>4. OneClient /\ faults' = 0 => CurrentAt(r, corpus, extraction, members, archive)
    BY <1>1, <1>2, <2>1 DEF CurrentAt
  <2> QED
    BY <1>1, <1>4, <2>1, <2>2, <2>3, <2>4, Known, OnlyRequest DEF Becomes
<1> QED
  BY <1>3, <1>4 DEF InsertNothing, Set

(***************************************************************************)
(* Dropping an archive, and the row.                                       *)
(***************************************************************************)
LEMMA DropKeeps ==
  ASSUME RInv, NEW x \in Client, Drop(x)
  PROVE  RInv'
<1> DEFINE o == req[x]
           missing == o.id \in o.path /\ ~Stored(o.id)
<1>1. /\ o.pc = "drop" /\ UNCHANGED <<corpus, extraction, members, asked, faults>>
      /\ archive' = IF o.id \in o.path THEN [archive EXCEPT ![o.id] = NoArchive] ELSE archive
      /\ missing /\ o.op = "delete" => Answer(x, "done")
      /\ missing /\ o.op = "add" => Answer(x, "error")
      /\ ~missing /\ o.op = "delete" => Goto(x, "delete row")
      /\ ~missing /\ o.op = "add" => Answer(x, "done")
  <2>1. o.op \in {"add", "delete"}
    BY Known DEF OpAt, Drop
  <2> QED BY <2>1 DEF Drop, tables
<1>2. /\ o \in Request /\ OpAt(o) /\ AddAt(o, corpus, members) /\ o.id \in Id
      /\ OneClient => PathAt(o, corpus, archive)
      /\ OneClient /\ faults = 0 => CurrentAt(o, corpus, extraction, members, archive)
      /\ o.op \in {"add", "delete"} /\ o.answer = "none"
  BY <1>1, Known DEF OpAt
<1>3. missing => ~OneClient
  BY <1>1, <1>2 DEF PathAt, Stored
<1>4. /\ archive' \in [Id -> {NoArchive} \cup SUBSET File]
      /\ \A c \in Id \ {o.id} : archive'[c] = archive[c]
      /\ IF o.id \in o.path THEN archive'[o.id] = NoArchive ELSE archive'[o.id] = archive[o.id]
  <2> HIDE DEF o
  <2>1. archive \in [Id -> {NoArchive} \cup SUBSET File]
    BY Known
  <2> QED BY <1>1, <1>2, <2>1
<1> HIDE DEF o
<1>5. ASSUME NEW pc \in {"idle", "delete row"}, NEW answer \in {"none", "done", "error"},
             req' = [req EXCEPT ![x] = [o EXCEPT !.pc = pc, !.answer = answer]],
             pc = "idle" <=> answer # "none",
             pc = "delete row" => o.op = "delete",
             answer = "done" => o.op = "add" \/ ~OneClient
      PROVE  RInv'
  <2> DEFINE r == [o EXCEPT !.pc = pc, !.answer = answer]
  <2>1. /\ r \in Request /\ r.pc = pc /\ r.answer = answer /\ r.op = o.op /\ r.id = o.id
        /\ r.path = o.path /\ r.batch = o.batch /\ r.left = o.left
    BY <1>2 DEF Request
  <2>2. req' = [req EXCEPT ![x] = r]
    BY <1>5
  <2> HIDE DEF r
  <2>3. OpAt(r)
    BY <1>2, <1>5, <2>1 DEF OpAt
  <2>4. AddAt(r, corpus, members)
    BY <1>1, <1>2, <1>5, <2>1 DEF AddAt
  <2>5. OneClient => PathAt(r, corpus, archive')
    BY <1>2, <1>5, <2>1 DEF PathAt
  <2>6. ASSUME OneClient, faults' = 0
        PROVE  CurrentAt(r, corpus, extraction, members, archive')
    <3>1. CurrentAt(o, corpus, extraction, members, archive)
      BY <1>1, <1>2, <2>6
    <3>2. archive'[o.id] = NoArchive
      BY <1>1, <1>4, <3>1 DEF CurrentAt
    <3> QED BY <1>1, <1>2, <1>4, <1>5, <2>1, <3>1, <3>2 DEF CurrentAt
  <2> QED
    BY <1>1, <1>4, <2>1, <2>2, <2>3, <2>4, <2>5, <2>6, Known, Frame DEF Becomes
<1>7. CASE missing /\ o.op = "delete"
  BY <1>1, <1>3, <1>5, <1>7 DEF Answer, Set, o
<1>8. CASE missing /\ o.op = "add"
  BY <1>1, <1>5, <1>8 DEF Answer, Set, o
<1>9. CASE ~missing /\ o.op = "delete"
  <2>1. req' = [req EXCEPT ![x] = [o EXCEPT !.pc = "delete row"]]
    BY <1>1, <1>9 DEF Goto, Set, o
  <2>2. [o EXCEPT !.pc = "delete row"] = [o EXCEPT !.pc = "delete row", !.answer = "none"]
    BY <1>2 DEF Request
  <2> QED BY <1>5, <1>9, <2>1, <2>2
<1>10. CASE ~missing /\ o.op = "add"
  BY <1>1, <1>5, <1>10 DEF Answer, Set, o
<1> QED BY <1>2, <1>7, <1>8, <1>9, <1>10

LEMMA DeleteRowRequests ==
  ASSUME RInv, NEW x \in Client, DeleteRow(x)
  PROVE  RInv'
<1> DEFINE c == req[x].id
           r == [req[x] EXCEPT !.pc = "idle", !.answer = "done"]
<1>1. /\ req[x].pc = "delete row" /\ UNCHANGED <<archive, asked, faults>>
      /\ corpus' = [corpus EXCEPT ![c] = "gone"] /\ members' = [members EXCEPT ![c] = {}]
      /\ extraction' = extraction \ {c} /\ req' = [req EXCEPT ![x] = r]
  BY DEF DeleteRow, Answer, Set
<1>2. /\ r \in Request /\ r.pc = "idle" /\ r.op = "delete" /\ r.id = c /\ r.batch = req[x].batch
      /\ r.left = req[x].left /\ r.answer = "done" /\ c \in Id
  <2>1. req[x] \in Request /\ req[x].op = "delete" /\ c \in Id
    BY <1>1, Known DEF OpAt
  <2> QED BY <2>1 DEF Request
<1> HIDE DEF r, c
<1>3. /\ corpus' \in [Id -> {"unused", "row", "gone"}] /\ corpus'[c] = "gone"
      /\ members' \in [Id -> SUBSET File]
      /\ \A d \in Id \ {c} : corpus'[d] = corpus[d] /\ members'[d] = members[d]
  BY <1>1, <1>2, Known
<1>4. OpAt(r)
  BY <1>2, Known DEF OpAt
<1>5. AddAt(r, corpus', members') /\ PathAt(r, corpus', archive')
  BY <1>2, <1>3 DEF AddAt, PathAt
<1>6. ASSUME OneClient, faults' = 0
      PROVE  CurrentAt(r, corpus', extraction', members', archive')
  <2>1. CurrentAt(req[x], corpus, extraction, members, archive) /\ archive[c] = NoArchive
    BY <1>1, <1>6, Known DEF CurrentAt, c
  <2> QED
    BY <1>1, <1>2, <1>3, <2>1, ZenonT(40) DEF CurrentAt
<1>7. \A d \in Id : corpus[d] # "unused" =>
           /\ corpus'[d] # "unused"
           /\ corpus'[d] = "row" => corpus[d] = "row" /\ members[d] \subseteq members'[d]
  BY <1>3
<1> QED
  BY <1>1, <1>2, <1>3, <1>4, <1>5, <1>6, <1>7, Known, Frame DEF Becomes

(***************************************************************************)
(* Exporting.                                                              *)
(***************************************************************************)
\* What is true of a request that exports and goes to another step.
LEMMA ExportGoes ==
  ASSUME RInv, NEW x \in Client, OpAt(req[x]), req[x].op = "export", req[x].pc # "idle",
         NEW pc \in {"zip", "size", "set path", "close"}, Goto(x, pc),
         UNCHANGED <<corpus, extraction, members, asked>>,
         archive' \in [Id -> {NoArchive} \cup SUBSET File], faults' \in 0..MaxFaults,
         OneClient /\ faults' = 0 =>
           CurrentAt([req[x] EXCEPT !.pc = pc], corpus, extraction, members, archive')
  PROVE  RInv'
<1> DEFINE r == [req[x] EXCEPT !.pc = pc]
<1>1. req' = [req EXCEPT ![x] = r]
  BY DEF Goto, Set
<1>2. /\ r \in Request /\ r.pc = pc /\ r.op = "export" /\ r.answer = req[x].answer
      /\ r.left = req[x].left /\ r.batch = req[x].batch
  BY Known, ZenonT(40) DEF Request
<1>3. OneClient /\ faults' = 0 => CurrentAt(r, corpus, extraction, members, archive')
  OBVIOUS
<1> HIDE DEF r
<1>4. OpAt(r)
  BY <1>2 DEF OpAt
<1>5. AddAt(r, corpus, members) /\ PathAt(r, corpus, archive')
  BY <1>2 DEF AddAt, PathAt
<1> QED
  BY <1>1, <1>2, <1>3, <1>4, <1>5, Known, Frame DEF Becomes

LEMMA ExportFields ==
  ASSUME NEW o \in Request, NEW pc \in {"zip", "size", "set path", "close"}
  PROVE  LET r == [o EXCEPT !.pc = pc] IN
         /\ r \in Request /\ r.pc = pc /\ r.op = o.op /\ r.id = o.id /\ r.path = o.path
         /\ r.batch = o.batch /\ r.left = o.left /\ r.files = o.files /\ r.todo = o.todo
         /\ r.answer = o.answer
BY DEF Request

\* While the archive stays as it is.
LEMMA StillCurrent ==
  ASSUME RInv, NEW x \in Client, NEW pc \in {"zip", "size", "set path", "close"},
         OneClient /\ faults = 0, req[x].op = "export", req[x].pc \in {"check", "zip"},
         pc \in {"zip", "close"} => archive[req[x].id] = NoArchive
  PROVE  CurrentAt([req[x] EXCEPT !.pc = pc], corpus, extraction, members, archive)
<1> DEFINE r == [req[x] EXCEPT !.pc = pc]
<1>1. CurrentAt(req[x], corpus, extraction, members, archive) /\ req[x] \in Request
  BY Known
<1>2. /\ r.pc = pc /\ r.op = "export" /\ r.id = req[x].id /\ r.files = req[x].files
  BY <1>1, ExportFields, ZenonT(40)
<1> HIDE DEF r
<1>3. CurrentAt(r, corpus, extraction, members, archive)
  BY <1>1, <1>2 DEF CurrentAt
<1> QED BY <1>3 DEF r

LEMMA CheckKeeps ==
  ASSUME RInv, NEW x \in Client, Check(x)
  PROVE  RInv'
<1> DEFINE pc == IF req[x].id \in req[x].path /\ Stored(req[x].id) THEN "size" ELSE "zip"
<1>1. /\ req[x].pc = "check" /\ Goto(x, pc)
      /\ UNCHANGED <<corpus, extraction, members, archive, asked, faults>>
  BY DEF Check, tables
<1>2. req[x].op = "export" /\ OpAt(req[x])
  BY <1>1, Known DEF OpAt
<1>3. /\ pc \in {"size", "zip"}
      /\ OneClient /\ faults = 0 /\ pc = "zip" => archive[req[x].id] = NoArchive
  BY <1>1, Known DEF Stored, CurrentAt
<1> HIDE DEF pc
<1> QED
  BY <1>1, <1>2, <1>3, StillCurrent, ExportGoes, Known

LEMMA ZipOpenKeeps ==
  ASSUME RInv, NEW x \in Client, ZipOpen(x)
  PROVE  RInv'
<1>1. /\ req[x].pc = "zip" /\ UNCHANGED <<corpus, extraction, members, archive, asked, faults>>
      /\ \/ Goto(x, "set path") \/ (~Stored(req[x].id) /\ Goto(x, "close"))
         \/ Answer(x, "died")
  BY DEF ZipOpen, tables
<1>2. req[x].op = "export" /\ OpAt(req[x])
  BY <1>1, Known DEF OpAt
<1>3. CASE Goto(x, "set path")
  BY <1>1, <1>2, <1>3, StillCurrent, ExportGoes, Known
<1>4. CASE ~Stored(req[x].id) /\ Goto(x, "close")
  BY <1>1, <1>2, <1>4, StillCurrent, ExportGoes, Known DEF Stored
<1>5. CASE Answer(x, "died")
  BY <1>1, <1>5, Known, Refused
<1> QED BY <1>1, <1>3, <1>4, <1>5

LEMMA ZipCloseKeeps ==
  ASSUME RInv, NEW x \in Client, ZipClose(x)
  PROVE  RInv'
<1> DEFINE o == req[x]
           r == [o EXCEPT !.pc = "set path"]
<1>1. /\ o.pc = "close" /\ Goto(x, "set path")
      /\ UNCHANGED <<corpus, extraction, members, asked>>
      /\ \/ archive' = [archive EXCEPT ![o.id] = o.files] /\ faults' = faults
         \/ archive' = archive /\ faults < MaxFaults /\ faults' = faults + 1
  BY DEF ZipClose, Fault, tables
<1>2. o.op = "export" /\ OpAt(o) /\ o \in Request /\ o.id \in Id /\ o.files \in SUBSET File
  BY <1>1, Known DEF OpAt, Request
<1>3. /\ archive' \in [Id -> {NoArchive} \cup SUBSET File] /\ faults' \in 0..MaxFaults
      /\ faults' = 0 => /\ faults = 0 /\ archive'[o.id] = o.files
                        /\ \A c \in Id \ {o.id} : archive'[c] = archive[c]
  <2> HIDE DEF o
  <2>1. archive \in [Id -> {NoArchive} \cup SUBSET File] /\ faults \in 0..MaxFaults
    BY Known
  <2>2. CASE archive' = [archive EXCEPT ![o.id] = o.files] /\ faults' = faults
    BY <1>2, <2>1, <2>2
  <2>3. CASE archive' = archive /\ faults < MaxFaults /\ faults' = faults + 1
    BY <2>1, <2>3, Known
  <2> QED BY <1>1, <2>2, <2>3
<1>4. ASSUME OneClient, faults' = 0
      PROVE  CurrentAt(r, corpus, extraction, members, archive')
  <2>1. CurrentAt(o, corpus, extraction, members, archive)
    BY <1>3, <1>4, Known
  <2>2. r.pc = "set path" /\ r.op = "export" /\ r.id = o.id /\ r.files = o.files
    BY <1>2, ExportFields
  <2> HIDE DEF r, o
  <2>3. corpus[o.id] = "row" /\ archive'[o.id] = members[o.id] /\ o.files = members[o.id]
    BY <1>1, <1>2, <1>3, <1>4, <2>1 DEF CurrentAt
  <2> QED
    BY <1>1, <1>2, <1>3, <1>4, <2>1, <2>2, <2>3 DEF CurrentAt
<1> QED
  BY <1>1, <1>2, <1>3, <1>4, ExportGoes

LEMMA SetPathKeeps ==
  ASSUME RInv, NEW x \in Client, SetPath(x)
  PROVE  RInv'
<1> DEFINE o == req[x]
           r == [o EXCEPT !.pc = "size", !.path = o.path \cup {o.id}]
<1>1. /\ o.pc = "set path" /\ UNCHANGED <<corpus, members, archive, asked, faults>>
      /\ extraction' = extraction \cup ({o.id} \cap Rows)
      /\ req' = [req EXCEPT ![x] = r]
  BY DEF SetPath, Set
<1>2. o.op = "export" /\ OpAt(o) /\ o \in Request /\ o.id \in Id /\ o.path \subseteq Id
  BY <1>1, Known DEF OpAt
<1> HIDE DEF o
<1>3. /\ r \in Request /\ r.pc = "size" /\ r.op = "export" /\ r.id = o.id /\ r.files = o.files
      /\ r.left = o.left /\ r.batch = o.batch /\ r.answer = o.answer
  BY <1>2 DEF Request
<1> HIDE DEF r
<1>4. OpAt(r) /\ AddAt(r, corpus, members) /\ PathAt(r, corpus, archive)
  BY <1>1, <1>2, <1>3 DEF OpAt, AddAt, PathAt
<1>5. ASSUME OneClient, faults' = 0
      PROVE  CurrentAt(r, corpus, extraction', members, archive)
  <2>1. CurrentAt(o, corpus, extraction, members, archive)
    BY <1>1, <1>5, Known DEF o
  <2> QED
    BY <1>1, <1>2, <1>3, <2>1 DEF CurrentAt, Rows
<1> QED
  <2>1. extraction' \in SUBSET Id
    BY <1>1, Known DEF Rows
  <2> QED
    BY <1>1, <1>3, <1>4, <1>5, <2>1, Known, Frame DEF Becomes

LEMMA SizeKeeps ==
  ASSUME RInv, NEW x \in Client, Size(x)
  PROVE  RInv'
<1> DEFINE o == req[x]
<1>1. o.pc = "size" /\ UNCHANGED <<corpus, extraction, members, archive, asked, faults>>
  BY DEF Size, tables
<1>2. PICK c \in IF o.op = "export" THEN {o.id} ELSE o.todo :
        IF ~Stored(c) THEN Answer(x, "error")
        ELSE IF o.todo \subseteq {c} THEN Answer(x, "done")
        ELSE Set(x, [o EXCEPT !.todo = @ \ {c}])
  BY DEF Size
<1>3. /\ o \in Request /\ OpAt(o) /\ o.id \in Id /\ o.op \in {"export", "list"}
      /\ OneClient => PathAt(o, corpus, archive)
      /\ OneClient /\ faults = 0 => CurrentAt(o, corpus, extraction, members, archive)
  BY <1>1, Known DEF OpAt
<1>4. CASE ~Stored(c)
  BY <1>1, <1>2, <1>4, Known, Refused
<1>5. CASE Stored(c) /\ o.todo \subseteq {c}
  <2> DEFINE r == [o EXCEPT !.pc = "idle", !.answer = "done"]
  <2>1. req' = [req EXCEPT ![x] = r]
    BY <1>2, <1>5 DEF Answer, Set
  <2> HIDE DEF o
  <2>2. /\ r \in Request /\ r.pc = "idle" /\ r.op = o.op /\ r.id = o.id /\ r.files = o.files
        /\ r.left = o.left /\ r.batch = o.batch /\ r.answer = "done"
    BY <1>3 DEF Request
  <2> HIDE DEF r
  <2>3. OpAt(r) /\ AddAt(r, corpus, members) /\ PathAt(r, corpus, archive)
    BY <1>3, <2>2 DEF OpAt, AddAt, PathAt
  <2>4. OneClient /\ faults' = 0 => CurrentAt(r, corpus, extraction, members, archive)
    BY <1>1, <1>2, <1>3, <1>5, <2>2 DEF CurrentAt, Stored
  <2> QED
    BY <1>1, <2>1, <2>2, <2>3, <2>4, Known, OnlyRequest DEF Becomes
<1>6. CASE Stored(c) /\ ~(o.todo \subseteq {c})
  <2> DEFINE r == [o EXCEPT !.todo = o.todo \ {c}]
  <2>1. req' = [req EXCEPT ![x] = r]
    BY <1>2, <1>6 DEF Set
  <2> HIDE DEF o
  <2>2. /\ r \in Request /\ r.pc = "size" /\ r.op = o.op /\ r.id = o.id /\ r.files = o.files
        /\ r.left = o.left /\ r.batch = o.batch /\ r.answer = o.answer
        /\ r.todo = o.todo \ {c}
    BY <1>1, <1>3 DEF Request
  <2> HIDE DEF r
  <2>3. OpAt(r) /\ AddAt(r, corpus, members) /\ (OneClient => PathAt(r, corpus, archive))
    BY <1>1, <1>3, <2>2 DEF OpAt, AddAt, PathAt
  <2>4. OneClient /\ faults' = 0 => CurrentAt(r, corpus, extraction, members, archive)
    BY <1>1, <1>3, <2>2 DEF CurrentAt
  <2> QED
    BY <1>1, <2>1, <2>2, <2>3, <2>4, Known, OnlyRequest DEF Becomes
<1> QED BY <1>4, <1>5, <1>6

(***************************************************************************)
(* The specification.                                                      *)
(***************************************************************************)
LEMMA InitRequests == Init => RInv
<1> SUFFICES ASSUME Init PROVE RInv
  OBVIOUS
<1>1. 1 \in Id
  BY CorpusAssumption DEF Id
<1> DEFINE r == Started("title", 1, {}, "idle")
<1>2. /\ r \in Request /\ r.pc = "idle" /\ r.op = "title" /\ r.left = r.batch
  BY <1>1 DEF Started, Request, Operation
<1>3. \A x \in Client : req[x] = r
  BY DEF Init
<1>4. TypeOK
  <2>1. req = [x \in Client |-> r]
    BY DEF Init
  <2> HIDE DEF r
  <2> QED
    BY <1>2, <2>1, CorpusAssumption DEF Init, TypeOK
<1> HIDE DEF r
<1>5. OpAt(r) /\ AddAt(r, corpus, members) /\ PathAt(r, corpus, archive)
  BY <1>2 DEF OpAt, AddAt, PathAt
<1>6. CurrentAt(r, corpus, extraction, members, archive)
  BY <1>2 DEF CurrentAt, Init
<1> QED
  BY <1>3, <1>4, <1>5, <1>6 DEF RInv

LEMMA RequestsKeep == RInv /\ [Next]_vars => RInv'
<1> SUFFICES ASSUME RInv, [Next]_vars PROVE RInv'
  OBVIOUS
<1>1. CASE UNCHANGED vars
  BY <1>1 DEF vars, tables, RInv, TypeOK
<1>2. ASSUME NEW x \in Client, Begin(x) \/ Fail(x) \/ Crash(x) \/ Step(x)
      PROVE  RInv'
  BY <1>2, BeginKeeps, FailKeeps, InsertRowRequests, SelectKeeps, FillKeeps, SetNullKeeps,
     FetchKeeps, InsertRequests, InsertNothingKeeps, DropKeeps, DeleteRowRequests, CheckKeeps,
     ZipOpenKeeps, ZipCloseKeeps, SetPathKeeps, SizeKeeps DEF Step
<1> QED
  BY <1>1, <1>2 DEF Next

LEMMA RequestsInvariant == Spec => []RInv
BY InitRequests, RequestsKeep, PTL DEF Spec

\* The types, for any processes, files and bounds.
THEOREM CorpusTypes == Spec => []TypeOK
<1>1. RInv => TypeOK
  BY DEF RInv
<1> QED BY <1>1, RequestsInvariant, PTL

\* create_corpus and add_to_corpus: what was answered is in the corpus as long
\* as it exists, whatever other processes do to it meanwhile.
THEOREM AnsweredIsAdded == Spec => []AddedIsThere
<1>1. RInv => AddedIsThere
  BY DEF RInv, AddedIsThere, AddAt, Answered, Idle
<1> QED BY <1>1, RequestsInvariant, PTL

\* delete_corpus of one process: answered is deleted, whatever an earlier
\* failure or crash has left.
THEOREM DeletionDeletes ==
  ASSUME OneClient
  PROVE  Spec => []DeleteDeletes
<1>1. RInv => DeleteDeletes
  BY DEF RInv, DeleteDeletes, PathAt, Answered, Idle
<1> QED BY <1>1, RequestsInvariant, PTL

\* One process: until something fails the archive an export is answered with
\* has the files of the corpus.
THEOREM ExportIsCurrent ==
  ASSUME OneClient
  PROVE  Spec => []CurrentUntilFailure
<1>1. RInv => CurrentUntilFailure
  BY DEF RInv, CurrentUntilFailure, ExportHoldsFiles, CurrentAt, Answered, Idle
<1> QED BY <1>1, RequestsInvariant, PTL

\* One process: until something fails an archive has its corpus.
THEOREM ArchiveHasCorpus ==
  ASSUME OneClient
  PROVE  Spec => []NoOrphanUntilFailure
<1>1. RInv => NoOrphanUntilFailure
  BY DEF RInv, NoOrphanUntilFailure, CurrentAt, OneClient, Stored
<1> QED BY <1>1, RequestsInvariant, PTL

\* get_extraction_size: in a list of corpuses that one process makes, no
\* archive it has seen is missing when its size is taken.
THEOREM ListIsAnswered ==
  ASSUME OneClient
  PROVE  Spec => ListsEndWell
<1>1. RInv /\ [Next]_vars =>
        [\A x \in Client :
           req[x].pc = "size" /\ req[x].op = "list" /\ UNCHANGED faults
             => req'[x].answer # "error"]_vars
  <2> SUFFICES ASSUME RInv, Next, NEW x \in Client, req[x].pc = "size", req[x].op = "list",
                      UNCHANGED faults
               PROVE  req'[x].answer # "error"
    OBVIOUS
  <2>1. /\ req[x] \in Request /\ req[x].answer = "none" /\ x \in Client
        /\ \A c \in req[x].todo : Stored(c)
        /\ req \in [Client -> Request]
    BY Known DEF OpAt, PathAt, RInv, TypeOK, Stored
  <2>2. PICK y \in Client : Begin(y) \/ Step(y) \/ Fail(y) \/ Crash(y)
    BY DEF Next
  <2>3. y = x
    BY DEF OneClient
  <2>4. Size(x)
    <3>1. ~Fail(x) /\ ~Crash(x)
      BY Known DEF Fail, Crash, Fault
    <3> QED
      BY <2>2, <2>3, <3>1 DEF Begin, Step, InsertRow, Select, Fill, SetNull, Fetch, Insert,
         InsertNothing, Drop, DeleteRow, Check, ZipOpen, ZipClose, SetPath
  <2>5. PICK c \in req[x].todo :
          IF req[x].todo \subseteq {c} THEN Answer(x, "done")
          ELSE Set(x, [req[x] EXCEPT !.todo = @ \ {c}])
    BY <2>1, <2>4 DEF Size
  <2> QED
    BY <2>1, <2>5, ZenonT(40) DEF Answer, Set, Request
<1> QED BY <1>1, RequestsInvariant, PTL DEF Spec, ListsEndWell
=============================================================================
