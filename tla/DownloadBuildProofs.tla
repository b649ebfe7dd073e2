------------------------- MODULE DownloadBuildProofs -------------------------
(***************************************************************************)
(* For any builders, APIs, catalogs and numbers of failures: no loop of a  *)
(* build runs past the end of its list, no row of the index is without a   *)
(* file that was written before it, and a build moves on from a request    *)
(* only when what it has seen is indexed (NothingSkipped), and what it     *)
(* returns passes the number asked for by less than one round of requests  *)
(* (AroundNumber).  For one builder: no id of an API is in the index twice *)
(* (NoDuplicates).                                                         *)
(***************************************************************************)
EXTENDS DownloadBuild, FiniteSetTheorems, TLAPS

(***************************************************************************)
(* Facts about lists.                                                      *)
(***************************************************************************)

\* An element of a list.
LEMMA ElementOf ==
  ASSUME NEW T, NEW s \in Seq(T), NEW k \in DOMAIN s
  PROVE  s[k] \in T
OBVIOUS

\* A place in a list that is not past its end, and one of a list as long.
LEMMA PlaceIn ==
  ASSUME NEW T, NEW s \in Seq(T), NEW U, NEW t \in Seq(U)
  PROVE  /\ Len(s) \in Nat /\ DOMAIN s = 1..Len(s)
         /\ \A k \in 1..(Len(s) + 1) : k <= Len(s) => k \in DOMAIN s
         /\ \A k \in DOMAIN s : Len(t) = Len(s) => k \in DOMAIN t
OBVIOUS

\* Joining two lists.
LEMMA JoinLists ==
  ASSUME NEW T, NEW s \in Seq(T), NEW t \in Seq(T)
  PROVE  /\ s \o t \in Seq(T)
         /\ Len(s \o t) = Len(s) + Len(t)
         /\ \A k \in 1..Len(s) : (s \o t)[k] = s[k]
         /\ \A k \in 1..Len(t) : (s \o t)[Len(s) + k] = t[k]
OBVIOUS

\* Erasing an element leaves the others.
LEMMA EraseList ==
  ASSUME NEW T, NEW q \in Seq(T), NEW i \in DOMAIN q
  PROVE  /\ RemoveAt(q, i) \in Seq(T)
         /\ Len(RemoveAt(q, i)) = Len(q) - 1
         /\ \A k \in DOMAIN RemoveAt(q, i) :
              \E j \in DOMAIN q : RemoveAt(q, i)[k] = q[j]
         /\ \A k \in DOMAIN RemoveAt(q, i) :
              /\ k >= i => RemoveAt(q, i)[k] = q[k + 1] /\ k + 1 \in DOMAIN q
              /\ k < i => RemoveAt(q, i)[k] = q[k] /\ k \in DOMAIN q
<1> DEFINE front == SubSeq(q, 1, i - 1)
           back == SubSeq(q, i + 1, Len(q))
           r == front \o back
<1>1. i \in 1..Len(q) /\ Len(q) \in Nat /\ DOMAIN q = 1..Len(q)
  OBVIOUS
<1>2. /\ front \in Seq(T) /\ Len(front) = i - 1
      /\ \A k \in 1..(i - 1) : front[k] = q[k]
  BY <1>1
<1>3. /\ back \in Seq(T) /\ Len(back) = Len(q) - i
      /\ \A k \in 1..(Len(q) - i) : back[k] = q[k + i]
  BY <1>1
<1>4. RemoveAt(q, i) = r
  BY DEF RemoveAt
<1> HIDE DEF front, back
<1>5. /\ r \in Seq(T)
      /\ Len(r) = Len(front) + Len(back)
      /\ \A k \in 1..Len(front) : r[k] = front[k]
      /\ \A k \in 1..Len(back) : r[Len(front) + k] = back[k]
  <2>1. front \in Seq(T) /\ back \in Seq(T)
    BY <1>2, <1>3
  <2> QED
    BY ONLY <2>1, JoinLists, SMT
<1> HIDE DEF r
<1>6. Len(r) = Len(q) - 1 /\ DOMAIN r = 1..(Len(q) - 1)
  BY <1>1, <1>2, <1>3, <1>5
<1>7. ASSUME NEW k \in 1..(Len(q) - 1)
      PROVE  \E j \in DOMAIN q : r[k] = q[j]
  <2>1. CASE k \in 1..(i - 1)
    <3>1. r[k] = q[k] /\ k \in DOMAIN q
      BY <2>1, <1>1, <1>2, <1>5
    <3> QED
      BY <3>1
  <2>2. CASE k \notin 1..(i - 1)
    <3>1. PICK m \in 1..(Len(q) - i) : k = (i - 1) + m
      <4>1. k - (i - 1) \in 1..(Len(q) - i) /\ k = (i - 1) + (k - (i - 1))
        BY <2>2, <1>1, <1>7
      <4> QED
        BY <4>1
    <3>2. r[k] = back[m]
      BY <3>1, <1>2, <1>3, <1>5
    <3>3. back[m] = q[m + i] /\ m + i \in DOMAIN q
      BY <3>1, <1>1, <1>3
    <3> QED
      BY <3>2, <3>3
  <2> QED
    BY <2>1, <2>2
<1>8. ASSUME NEW k \in 1..(Len(q) - 1), k >= i
      PROVE  r[k] = q[k + 1] /\ k + 1 \in DOMAIN q
  <2>1. k - (i - 1) \in 1..(Len(q) - i) /\ k = (i - 1) + (k - (i - 1))
    BY <1>1, <1>8
  <2>2. r[k] = back[k - (i - 1)]
    BY <2>1, <1>2, <1>3, <1>5, ZenonT(40)
  <2>3. back[k - (i - 1)] = q[(k - (i - 1)) + i] /\ (k - (i - 1)) + i = k + 1
    BY <2>1, <1>1, <1>3, <1>8
  <2> QED
    BY <2>2, <2>3, <1>1
<1>9. ASSUME NEW k \in 1..(Len(q) - 1), k < i
      PROVE  r[k] = q[k] /\ k \in DOMAIN q
  <2>1. k \in 1..(i - 1) /\ k \in 1..Len(front)
    BY <1>1, <1>2, <1>9
  <2>2. r[k] = front[k] /\ front[k] = q[k]
    BY <2>1, <1>2, <1>5
  <2>3. k \in DOMAIN q
    BY <1>1, <1>9
  <2> QED
    BY <2>2, <2>3
<1> QED
  BY <1>4, <1>5, <1>6, <1>7, <1>8, <1>9

\* Replacing an element changes that element only.
LEMMA ReplaceList ==
  ASSUME NEW T, NEW q \in Seq(T), NEW i \in DOMAIN q, NEW t \in T
  PROVE  /\ ReplaceAt(q, i, t) \in Seq(T)
         /\ Len(ReplaceAt(q, i, t)) = Len(q)
         /\ ReplaceAt(q, i, t)[i] = t
         /\ \A k \in DOMAIN q \ {i} : ReplaceAt(q, i, t)[k] = q[k]
<1> DEFINE r == [q EXCEPT ![i] = t]
<1>1. q \in [1..Len(q) -> T] /\ Len(q) \in Nat /\ i \in 1..Len(q)
  OBVIOUS
<1>2. /\ r \in [1..Len(q) -> T]
      /\ r[i] = t
      /\ \A k \in 1..Len(q) \ {i} : r[k] = q[k]
  BY <1>1
<1>3. r \in Seq(T) /\ Len(r) = Len(q) /\ DOMAIN q = 1..Len(q)
  BY <1>1, <1>2
<1> QED
  BY <1>2, <1>3 DEF ReplaceAt

LEMMA ReplaceFile ==
  ASSUME NEW q \in Seq(FileObject), NEW i \in DOMAIN q, NEW f \in FileObject
  PROVE  /\ ReplaceAt(q, i, f) \in Seq(FileObject)
         /\ Len(ReplaceAt(q, i, f)) = Len(q)
         /\ ReplaceAt(q, i, f)[i] = f
         /\ \A k \in DOMAIN q \ {i} : ReplaceAt(q, i, f)[k] = q[k]
BY ReplaceList

LEMMA EraseFile ==
  ASSUME NEW q \in Seq(FileObject), NEW i \in DOMAIN q
  PROVE  /\ RemoveAt(q, i) \in Seq(FileObject)
         /\ Len(RemoveAt(q, i)) = Len(q) - 1
         /\ \A k \in DOMAIN RemoveAt(q, i) :
              \E j \in DOMAIN q : RemoveAt(q, i)[k] = q[j]
BY EraseList

RequestList == Seq([api : Api, page : Nat])

LEMMA ReplaceRequest ==
  ASSUME NEW q \in RequestList, NEW i \in DOMAIN q,
         NEW r \in [api : Api, page : Nat]
  PROVE  /\ ReplaceAt(q, i, r) \in RequestList
         /\ Len(ReplaceAt(q, i, r)) = Len(q)
         /\ ReplaceAt(q, i, r)[i] = r
         /\ \A k \in DOMAIN q \ {i} : ReplaceAt(q, i, r)[k] = q[k]
<1> DEFINE R == [api : Api, page : Nat]
<1>1. q \in Seq(R) /\ r \in R /\ RequestList = Seq(R)
  BY DEF RequestList
<1> HIDE DEF R
<1> QED
  BY <1>1, ReplaceList

LEMMA EraseRequest ==
  ASSUME NEW q \in RequestList, NEW i \in DOMAIN q
  PROVE  /\ RemoveAt(q, i) \in RequestList
         /\ Len(RemoveAt(q, i)) = Len(q) - 1
         /\ \A k \in DOMAIN RemoveAt(q, i) :
              /\ k >= i => RemoveAt(q, i)[k] = q[k + 1] /\ k + 1 \in DOMAIN q
              /\ k < i => RemoveAt(q, i)[k] = q[k] /\ k \in DOMAIN q
<1> DEFINE R == [api : Api, page : Nat]
<1>1. q \in Seq(R) /\ RequestList = Seq(R)
  BY DEF RequestList
<1> HIDE DEF R
<1> QED
  BY <1>1, EraseList

(***************************************************************************)
(* The inductive invariant.  "written" stands for the names under which    *)
(* files were written, noticed or not.                                     *)
(***************************************************************************)
Written == disk \cup lost

\* The request a build is at exists until its results are dealt with.
AtRequest(b) ==
  /\ b.erased = FALSE
  /\ b.pc \notin {"idle", "query"} => b.at \in DOMAIN b.reqs

\* A build writes its files before it gets to inserting them.
WritesFirst(b, written) ==
  /\ b.pc = "store" =>
       \A k \in DOMAIN b.files : k < b.i => b.files[k].name \in written
  /\ b.pc \in {"insert", "row", "tag"} =>
       \A k \in DOMAIN b.files : b.files[k].name \in written

Good(b, written) ==
  /\ b \in BuildState
  /\ IteratorsValid(b)
  /\ AtRequest(b)
  /\ WritesFirst(b, written)

IInv ==
  /\ TypeOK
  /\ IsFiniteSet(Written)
  /\ \A x \in Builder : Good(build[x], Written)
  /\ IndexedIsStored

(***************************************************************************)
(* Updates that keep the type of a build.                                  *)
(***************************************************************************)
Pc == {"idle", "query", "check", "store", "insert", "row", "tag"}

LEMMA SetPc ==
  ASSUME NEW b \in BuildState, NEW pc \in Pc, NEW i \in Nat
  PROVE  /\ [b EXCEPT !.pc = pc] \in BuildState
         /\ [b EXCEPT !.pc = pc, !.i = i] \in BuildState
BY DEF BuildState, Pc

LEMMA SetFiles ==
  ASSUME NEW b \in BuildState, NEW files \in Seq(FileObject), NEW i \in Nat,
         NEW pc \in Pc
  PROVE  /\ [b EXCEPT !.files = files, !.i = i] \in BuildState
         /\ [b EXCEPT !.pc = pc, !.files = files, !.i = i] \in BuildState
         /\ [b EXCEPT !.files = files, !.pc = pc, !.i = i] \in BuildState
<1>1. [b EXCEPT !.files = files, !.i = i] \in BuildState
  BY DEF BuildState
<1>2. [b EXCEPT !.pc = pc, !.files = files, !.i = i] \in BuildState
  BY DEF BuildState, Pc
<1>3. [b EXCEPT !.files = files, !.pc = pc, !.i = i] \in BuildState
  BY DEF BuildState, Pc
<1> QED
  BY <1>1, <1>2, <1>3

LEMMA SetFound ==
  ASSUME NEW b \in BuildState, NEW found \in Seq(FileObject),
         NEW i \in Nat, NEW pc \in Pc, NEW reqs \in RequestList
  PROVE  [b EXCEPT !.pc = pc, !.found = found, !.i = i, !.reqs = reqs]
           \in BuildState
BY DEF BuildState, Pc, RequestList

LEMMA SetAll ==
  ASSUME NEW b \in BuildState, NEW pc \in Pc, NEW at \in Nat, NEW i \in Nat,
         NEW erased \in BOOLEAN,
         NEW found \in Seq(FileObject), NEW files \in Seq(FileObject)
  PROVE  [b EXCEPT !.pc = pc, !.at = at, !.found = found, !.files = files,
                   !.i = i, !.erased = erased] \in BuildState
BY DEF BuildState, Pc

LEMMA SetStart ==
  ASSUME NEW b \in BuildState, NEW number \in Nat, NEW reqs \in RequestList
  PROVE  [b EXCEPT !.pc = "query", !.number = number,
                   !.reqs = reqs, !.asked = reqs] \in BuildState
BY DEF BuildState, RequestList

LEMMA SetReqs ==
  ASSUME NEW b \in BuildState, NEW reqs \in RequestList
  PROVE  [b EXCEPT !.reqs = reqs, !.erased = TRUE] \in BuildState
BY DEF BuildState, RequestList

LEMMA SetSeen ==
  ASSUME NEW b \in BuildState, NEW clean \in BOOLEAN,
         NEW seen \in SUBSET (Api \X Item)
  PROVE  [b EXCEPT !.clean = clean, !.seen = seen] \in BuildState
BY DEF BuildState

LEMMA SetDropped ==
  ASSUME NEW b \in BuildState, NEW files \in Seq(FileObject),
         NEW seen \in SUBSET (Api \X Item)
  PROVE  [b EXCEPT !.files = files, !.clean = FALSE, !.seen = seen]
           \in BuildState
BY DEF BuildState

LEMMA SetRes ==
  ASSUME NEW b \in BuildState, NEW res \in Seq(FileObject)
  PROVE  /\ [b EXCEPT !.res = res] \in BuildState
         /\ [b EXCEPT !.res = res, !.clean = FALSE] \in BuildState
         /\ [b EXCEPT !.clean = FALSE] \in BuildState
<1>1. [b EXCEPT !.res = res] \in BuildState
  BY DEF BuildState
<1>2. [b EXCEPT !.res = res, !.clean = FALSE] \in BuildState
  BY DEF BuildState
<1>3. [b EXCEPT !.clean = FALSE] \in BuildState
  BY DEF BuildState
<1> QED
  BY <1>1, <1>2, <1>3

LEMMA SetRound ==
  ASSUME NEW b \in BuildState, NEW at \in Nat, NEW round \in Nat
  PROVE  [b EXCEPT !.at = at, !.round = round] \in BuildState
BY DEF BuildState

LEMMA IdleGood ==
  ASSUME NEW written
  PROVE  Idle \in BuildState /\ Good(Idle, written)
BY DEF Good, Idle, BuildState, IteratorsValid, AtRequest, WritesFirst

\* Going on to the next request keeps a build good.
LEMMA NextGood ==
  ASSUME NEW written, NEW b \in BuildState,
         b.erased = TRUE => b.at \in 1..(Len(b.reqs) + 1),
         b.erased = FALSE => b.at \in DOMAIN b.reqs
  PROVE  Good(NextRequest(b), written)
<1> DEFINE at == IF b.erased THEN b.at ELSE b.at + 1
           n == [b EXCEPT !.pc = "query", !.at = at, !.found = <<>>,
                          !.files = <<>>, !.i = 1, !.erased = FALSE]
<1>1. b.reqs \in RequestList /\ b.at \in Nat /\ b.erased \in BOOLEAN
  BY DEF BuildState, RequestList
<1>2. at \in 1..(Len(b.reqs) + 1)
  <2>1. CASE b.erased = TRUE
    BY <2>1
  <2>2. CASE b.erased = FALSE
    BY <2>2, <1>1 DEF RequestList
  <2> QED
    BY <1>1, <2>1, <2>2
<1>3. /\ n.pc = "query" /\ n.erased = FALSE /\ n.reqs = b.reqs
      /\ n.at = IF b.erased THEN b.at ELSE b.at + 1
  BY DEF BuildState
<1>4. NextRequest(b) = n
  BY DEF NextRequest
<1> HIDE DEF at
<1>5. n \in BuildState
  <2>1. <<>> \in Seq(FileObject) /\ "query" \in Pc /\ 1 \in Nat /\ at \in Nat
    BY <1>1, <1>2 DEF Pc, RequestList
  <2> QED
    BY <2>1, SetAll
<1> HIDE DEF n
<1>6. Good(n, written)
  BY <1>2, <1>3, <1>5 DEF Good, IteratorsValid, AtRequest, WritesFirst, at
<1> QED
  BY <1>4, <1>6

\* What is written stays written.
LEMMA GoodGrows ==
  ASSUME NEW written, NEW more, written \subseteq more,
         NEW b, Good(b, written)
  PROVE  Good(b, more)
BY DEF Good, WritesFirst

\* A file that is indexed is followed by the next, or the request is done.
LEMMA InsertedGood ==
  ASSUME NEW written, NEW b, Good(b, written), b.pc \in {"insert", "tag"}
  PROVE  Good(Inserted(b), written)
<1>1. /\ b \in BuildState /\ b.files \in Seq(FileObject)
      /\ b.res \in Seq(FileObject) /\ b.i \in DOMAIN b.files
      /\ b.at \in DOMAIN b.reqs /\ b.erased = FALSE
  BY DEF Good, IteratorsValid, AtRequest, BuildState
<1>2. CASE b.i < Len(b.files)
  <2> DEFINE j == b.i + 1
             c == [b EXCEPT !.pc = "insert", !.i = j]
  <2>1. j \in DOMAIN b.files /\ j \in Nat
    BY <1>1, <1>2
  <2>2. Inserted(b) = c
    BY <1>2 DEF Inserted
  <2>3. /\ c.pc = "insert" /\ c.i = j /\ c.files = b.files
        /\ c.at = b.at /\ c.reqs = b.reqs /\ c.erased = b.erased
    BY <1>1 DEF BuildState
  <2> HIDE DEF j
  <2>4. c \in BuildState
    BY <1>1, <2>1, SetPc DEF Pc
  <2> HIDE DEF c
  <2>5. Good(c, written)
    BY <1>1, <2>1, <2>3, <2>4
       DEF Good, IteratorsValid, AtRequest, WritesFirst
  <2> QED
    BY <2>2, <2>5
<1>3. CASE ~(b.i < Len(b.files))
  <2> DEFINE res == b.res \o b.files
             c == [b EXCEPT !.res = res]
  <2>1. Inserted(b) = NextRequest(c)
    BY <1>3 DEF Inserted
  <2>2. c.at = b.at /\ c.reqs = b.reqs /\ c.erased = b.erased
    BY <1>1 DEF BuildState
  <2>3. res \in Seq(FileObject)
    BY ONLY <1>1, JoinLists, SMT
  <2> HIDE DEF res
  <2>4. c \in BuildState
    BY <1>1, <2>3, SetRes
  <2> HIDE DEF c
  <2> QED
    BY <1>1, <2>1, <2>2, <2>4, NextGood
<1> QED
  BY <1>2, <1>3

\* So is a file that is dropped.
LEMMA DroppedGood ==
  ASSUME NEW written, NEW b, Good(b, written),
         b.pc \in {"insert", "row", "tag"}
  PROVE  Good(Dropped(b), written)
<1> DEFINE files == RemoveAt(b.files, b.i)
           seen == b.seen \ {<<b.files[b.i].src, b.files[b.i].item>>}
           c == [b EXCEPT !.files = files, !.clean = FALSE, !.seen = seen]
<1>1. /\ b \in BuildState /\ b.files \in Seq(FileObject)
      /\ b.res \in Seq(FileObject) /\ b.i \in DOMAIN b.files
      /\ b.at \in DOMAIN b.reqs /\ b.erased = FALSE
      /\ seen \in SUBSET (Api \X Item)
  BY DEF Good, IteratorsValid, AtRequest, BuildState
<1>2. /\ files \in Seq(FileObject)
      /\ Len(files) = Len(b.files) - 1
      /\ \A k \in DOMAIN files :
           \E m \in DOMAIN b.files : files[k] = b.files[m]
  BY ONLY <1>1, EraseFile, SMT
<1>3. \A m \in DOMAIN b.files : b.files[m].name \in written
  BY DEF Good, WritesFirst
<1>4. \A k \in DOMAIN files : files[k].name \in written
  <2> TAKE k \in DOMAIN files
  <2>1. PICK m \in DOMAIN b.files : files[k] = b.files[m]
    BY <1>2
  <2> QED
    BY <1>3, <2>1
<1>5. Dropped(b) = IF b.i < Len(b.files)
                   THEN [c EXCEPT !.pc = "insert"]
                   ELSE NextRequest([c EXCEPT !.res = c.res \o c.files])
  BY DEF Dropped
<1> HIDE DEF seen, files
<1>6. /\ c.pc = b.pc /\ c.i = b.i /\ c.files = files /\ c.res = b.res
      /\ c.at = b.at /\ c.reqs = b.reqs /\ c.erased = b.erased
  BY <1>1 DEF BuildState
<1>7. c \in BuildState
  BY <1>1, <1>2, SetDropped
<1> HIDE DEF c
<1>8. CASE b.i < Len(b.files)
  <2> DEFINE d == [c EXCEPT !.pc = "insert"]
  <2>1. d \in BuildState
    BY <1>7, SetPc DEF Pc
  <2>2. /\ d.pc = "insert" /\ d.i = b.i /\ d.files = files
        /\ d.at = b.at /\ d.reqs = b.reqs /\ d.erased = b.erased
    BY <1>6, <1>7 DEF BuildState
  <2>3. b.i \in DOMAIN files
    BY <1>1, <1>2, <1>8
  <2> HIDE DEF d
  <2>4. Good(d, written)
    BY <1>1, <1>4, <2>1, <2>2, <2>3
       DEF Good, IteratorsValid, AtRequest, WritesFirst
  <2> QED
    BY <1>5, <1>8, <2>4 DEF d
<1>9. CASE ~(b.i < Len(b.files))
  <2> DEFINE res == c.res \o c.files
             d == [c EXCEPT !.res = res]
  <2>1. d.at = b.at /\ d.reqs = b.reqs /\ d.erased = b.erased
    BY <1>6, <1>7 DEF BuildState
  <2>2. c.res \in Seq(FileObject) /\ c.files \in Seq(FileObject)
    BY <1>1, <1>2, <1>6
  <2>3. res \in Seq(FileObject)
    BY ONLY <2>2, JoinLists, SMT
  <2>4. Dropped(b) = NextRequest(d)
    BY <1>5, <1>9
  <2> HIDE DEF res
  <2>5. d \in BuildState
    BY <1>7, <2>3, SetRes
  <2> HIDE DEF d
  <2> QED
    BY <1>1, <2>1, <2>4, <2>5, NextGood
<1> QED
  BY <1>8, <1>9

(***************************************************************************)
(* The steps.                                                              *)
(***************************************************************************)

\* What the invariant says of everything but the builds.
Tables ==
  /\ rows \in SUBSET [name : Nat, src : Api, item : Item, tagged : BOOLEAN]
  /\ disk \in SUBSET Nat
  /\ lost \in SUBSET Nat
  /\ IsFiniteSet(Written)
  /\ started \in [Builder -> 0..MaxBuilds]
  /\ faults \in 0..MaxFaults
  /\ IndexedIsStored

\* One build moves, files are written: the other builds stay good.
LEMMA Move ==
  ASSUME IInv, NEW x \in Builder, NEW b, Set(x, b), Good(b, Written'),
         Written \subseteq Written', Tables'
  PROVE  IInv'
<1>1. build \in [Builder -> BuildState] /\ b \in BuildState
  BY DEF IInv, TypeOK, Good
<1>2. build' = [build EXCEPT ![x] = b]
  BY DEF Set
<1>3. build' \in [Builder -> BuildState]
  BY <1>1, <1>2
<1>4. ASSUME NEW y \in Builder
      PROVE  Good(build'[y], Written')
  <2>1. CASE y = x
    BY <2>1, <1>1, <1>2
  <2>2. CASE y # x
    <3>1. build'[y] = build[y]
      BY <2>2, <1>1, <1>2
    <3>2. Good(build[y], Written)
      BY <1>4 DEF IInv
    <3> QED
      BY <3>1, <3>2, GoodGrows
  <2> QED
    BY <2>1, <2>2
<1>5. \A y \in Builder : Good(build[y], Written)'
  BY <1>4
<1>6. (\A y \in Builder : IteratorsValid(build[y]))'
  BY <1>4 DEF Good
<1> QED
  BY <1>3, <1>5, <1>6 DEF IInv, TypeOK, Tables

\* One build moves and nothing is written.
LEMMA Frame ==
  ASSUME IInv, NEW x \in Builder, NEW b, Set(x, b), Good(b, Written),
         UNCHANGED <<rows, disk, lost>>,
         started' \in [Builder -> 0..MaxBuilds], faults' \in 0..MaxFaults
  PROVE  IInv'
<1>1. Written' = Written
  BY DEF Written
<1>2. Tables'
  BY <1>1 DEF IInv, TypeOK, Tables, IndexedIsStored, Written
<1> QED
  BY <1>1, <1>2, Move

LEMMA FaultCounts ==
  ASSUME IInv, Fault \/ UNCHANGED faults
  PROVE  faults' \in 0..MaxFaults
BY BuildAssumption DEF IInv, TypeOK, Fault

LEMMA StartKeeps ==
  ASSUME IInv, NEW x \in Builder, Start(x)
  PROVE  IInv'
<1>1. PICK rs \in Requests, n \in Numbers :
        LET reqs == [k \in DOMAIN rs |->
                       IF rs[k].api \in Paged /\ rs[k].page = NoPage
                       THEN [rs[k] EXCEPT !.page = DefaultPage]
                       ELSE rs[k]]
        IN  Set(x, [Idle EXCEPT !.pc = "query", !.number = n,
                                !.reqs = reqs, !.asked = reqs])
  BY DEF Start
<1> DEFINE reqs == [k \in DOMAIN rs |->
                      IF rs[k].api \in Paged /\ rs[k].page = NoPage
                      THEN [rs[k] EXCEPT !.page = DefaultPage]
                      ELSE rs[k]]
           b == [Idle EXCEPT !.pc = "query", !.number = n,
                             !.reqs = reqs, !.asked = reqs]
<1>2. Set(x, b)
  BY <1>1
<1>3. reqs \in RequestList
  <2>1. rs \in Seq([api : Api, page : Nat])
    BY <1>1, BuildAssumption
  <2>2. \A k \in DOMAIN rs : reqs[k] \in [api : Api, page : Nat]
    <3> TAKE k \in DOMAIN rs
    <3>1. rs[k] \in [api : Api, page : Nat]
      BY <2>1, ElementOf
    <3>2. [rs[k] EXCEPT !.page = 1] \in [api : Api, page : Nat]
      BY <3>1
    <3> QED
      BY <3>1, <3>2 DEF DefaultPage
  <2>3. DOMAIN rs = 1..Len(rs) /\ Len(rs) \in Nat
    BY <2>1
  <2>4. reqs \in [1..Len(rs) -> [api : Api, page : Nat]]
    BY <2>2, <2>3
  <2> QED
    BY <2>3, <2>4 DEF RequestList
<1>4. n \in Nat
  BY <1>1, BuildAssumption
<1> HIDE DEF reqs
<1>5. b \in BuildState
  BY <1>3, <1>4, IdleGood, SetStart
<1>6. /\ b.pc = "query" /\ b.at = 1 /\ b.reqs = reqs /\ b.erased = FALSE
  BY DEF Idle
<1> HIDE DEF b
<1>7. Good(b, Written)
  BY <1>3, <1>5, <1>6
     DEF Good, IteratorsValid, AtRequest, WritesFirst, RequestList
<1>8. started' \in [Builder -> 0..MaxBuilds] /\ faults' \in 0..MaxFaults
  BY BuildAssumption DEF Start, IInv, TypeOK
<1>9. UNCHANGED <<rows, disk, lost>>
  BY DEF Start
<1> QED
  BY <1>2, <1>7, <1>8, <1>9, Frame

LEMMA AbortKeeps ==
  ASSUME IInv, NEW x \in Builder, Abort(x)
  PROVE  IInv'
<1> DEFINE res == build[x].res
           b == [Idle EXCEPT !.res = res, !.clean = FALSE]
<1>1. Set(x, b) /\ UNCHANGED <<rows, disk, lost, started>> /\ Fault
  BY DEF Abort
<1>2. res \in Seq(FileObject)
  BY DEF IInv, Good, BuildState
<1>3. b.pc = "idle" /\ b.erased = FALSE
  BY DEF Idle
<1> HIDE DEF res
<1>4. b \in BuildState
  BY <1>2, IdleGood, SetRes
<1> HIDE DEF b
<1>5. Good(b, Written)
  BY <1>3, <1>4 DEF Good, IteratorsValid, AtRequest, WritesFirst
<1>6. started' \in [Builder -> 0..MaxBuilds] /\ faults' \in 0..MaxFaults
  BY <1>1, FaultCounts DEF IInv, TypeOK
<1> QED
  BY <1>1, <1>5, <1>6, Frame

LEMMA CrashKeeps ==
  ASSUME IInv, NEW x \in Builder, Crash(x)
  PROVE  IInv'
<1> DEFINE b == [Idle EXCEPT !.clean = FALSE]
<1>1. Set(x, b) /\ UNCHANGED <<rows, disk, lost, started>> /\ Fault
  BY DEF Crash
<1>2. b.pc = "idle" /\ b.erased = FALSE
  BY DEF Idle
<1>3. b \in BuildState
  <2>1. Idle.res \in Seq(FileObject)
    BY DEF Idle
  <2> QED
    BY <2>1, IdleGood, SetRes
<1> HIDE DEF b
<1>4. Good(b, Written)
  BY <1>2, <1>3 DEF Good, IteratorsValid, AtRequest, WritesFirst
<1>5. started' \in [Builder -> 0..MaxBuilds] /\ faults' \in 0..MaxFaults
  BY <1>1, FaultCounts DEF IInv, TypeOK
<1> QED
  BY <1>1, <1>4, <1>5, Frame

LEMMA EndRoundKeeps ==
  ASSUME IInv, NEW x \in Builder, EndRound(x)
  PROVE  IInv'
<1> DEFINE b == build[x]
           round == IF b.round < MaxRound THEN b.round + 1 ELSE b.round
           more == [b EXCEPT !.at = 1, !.round = round]
           done == [b EXCEPT !.pc = "idle"]
<1>1. /\ Set(x, more) \/ Set(x, done)
      /\ UNCHANGED <<rows, disk, lost, started, faults>>
      /\ b.pc = "query"
  BY DEF EndRound
<1>2. /\ b \in BuildState /\ AtRequest(b)
      /\ round \in Nat /\ b.reqs \in RequestList
  <2>1. b \in BuildState /\ AtRequest(b)
    BY DEF IInv, Good
  <2>2. b.round \in Nat /\ b.reqs \in RequestList
    BY <2>1 DEF BuildState, RequestList
  <2> QED
    BY <2>1, <2>2
<1>3. /\ more.pc = "query" /\ more.at = 1 /\ more.reqs = b.reqs
      /\ more.erased = b.erased
  BY <1>1, <1>2 DEF BuildState
<1>4. done.pc = "idle" /\ done.erased = b.erased
  BY <1>2 DEF BuildState
<1> HIDE DEF b, round
<1>5. more \in BuildState /\ done \in BuildState
  BY <1>2, SetRound, SetPc DEF Pc
<1> HIDE DEF more, done
<1>6. Good(more, Written)
  BY <1>2, <1>3, <1>5
     DEF Good, IteratorsValid, AtRequest, WritesFirst, RequestList
<1>7. Good(done, Written)
  BY <1>2, <1>4, <1>5 DEF Good, IteratorsValid, AtRequest, WritesFirst
<1>8. started' \in [Builder -> 0..MaxBuilds] /\ faults' \in 0..MaxFaults
  BY <1>1 DEF IInv, TypeOK
<1> QED
  BY <1>1, <1>6, <1>7, <1>8, Frame

LEMMA CheckKeeps ==
  ASSUME IInv, NEW x \in Builder, Check(x)
  PROVE  IInv'
<1> DEFINE b == build[x]
           f == b.found[b.i]
           files == IF Known(f.src, f.item) THEN b.files ELSE Append(b.files, f)
           j == b.i + 1
           more == [b EXCEPT !.files = files, !.i = j]
           go == [b EXCEPT !.pc = "store", !.files = files, !.i = 1]
<1>1. b.pc = "check" /\ UNCHANGED <<rows, disk, lost, started, faults>>
  BY DEF Check
<1>2. /\ b.i < Len(b.found) => b.i + 1 \in DOMAIN b.found
      /\ b \in BuildState
      /\ b.i \in DOMAIN b.found /\ b.at \in DOMAIN b.reqs /\ b.erased = FALSE
  <2>1. b \in BuildState /\ IteratorsValid(b) /\ AtRequest(b)
    BY DEF IInv, Good
  <2>2. b.found \in Seq(FileObject) /\ b.i \in DOMAIN b.found
    BY <1>1, <2>1 DEF BuildState, IteratorsValid
  <2> QED
    BY <1>1, <2>1, <2>2 DEF AtRequest
<1>3. files \in Seq(FileObject)
  <2>1. b.found \in Seq(FileObject) /\ b.files \in Seq(FileObject)
    BY <1>2 DEF BuildState
  <2>2. f \in FileObject
    BY <1>2, <2>1, ElementOf
  <2> QED
    BY <2>1, <2>2
<1>4. \/ b.i # Len(b.found) /\ Set(x, more)
      \/ Set(x, NextRequest(b))
      \/ files # <<>> /\ Set(x, go)
  BY DEF Check
<1>5. started' \in [Builder -> 0..MaxBuilds] /\ faults' \in 0..MaxFaults
  BY <1>1 DEF IInv, TypeOK
<1>6. CASE b.i # Len(b.found) /\ Set(x, more)
  <2>1. j \in DOMAIN b.found /\ j \in Nat
    <3>1. b.found \in Seq(FileObject)
      BY <1>2 DEF BuildState
    <3> QED
      BY <1>2, <1>6, <3>1
  <2>2. /\ more.pc = "check" /\ more.i = j /\ more.found = b.found
        /\ more.at = b.at /\ more.reqs = b.reqs /\ more.erased = b.erased
    BY <1>1, <1>2 DEF BuildState
  <2> HIDE DEF b, f, files, j
  <2>3. more \in BuildState
    BY <1>2, <1>3, <2>1, SetFiles DEF Pc
  <2> HIDE DEF more
  <2>4. Good(more, Written)
    BY <1>2, <2>1, <2>2, <2>3
       DEF Good, IteratorsValid, AtRequest, WritesFirst
  <2> QED
    BY <1>1, <1>5, <1>6, <2>4, Frame
<1>7. CASE Set(x, NextRequest(b))
  <2> HIDE DEF b
  <2>1. Good(NextRequest(b), Written)
    BY <1>2, NextGood
  <2> QED
    BY <1>1, <1>5, <1>7, <2>1, Frame
<1>8. CASE files # <<>> /\ Set(x, go)
  <2>1. /\ go.pc = "store" /\ go.i = 1 /\ go.files = files
        /\ go.at = b.at /\ go.reqs = b.reqs /\ go.erased = b.erased
    BY <1>2 DEF BuildState
  <2> HIDE DEF b, f, files
  <2>2. go \in BuildState
    BY <1>2, <1>3, SetFiles DEF Pc
  <2>3. 1 \in DOMAIN files /\ \A k \in DOMAIN files : ~(k < 1)
    BY <1>3, <1>8
  <2> HIDE DEF go
  <2>4. Good(go, Written)
    BY <1>2, <2>1, <2>2, <2>3
       DEF Good, IteratorsValid, AtRequest, WritesFirst
  <2> QED
    BY <1>1, <1>5, <1>8, <2>4, Frame
<1> QED
  BY <1>4, <1>6, <1>7, <1>8

LEMMA StoreKeeps ==
  ASSUME IInv, NEW x \in Builder, Store(x)
  PROVE  IInv'
<1> DEFINE b == build[x]
           name == Cardinality(disk \cup lost) + 1
           f == [b.files[b.i] EXCEPT !.name = name]
           files == ReplaceAt(b.files, b.i, f)
           j == b.i + 1
           more == [b EXCEPT !.files = files, !.i = j]
           go == [b EXCEPT !.files = files, !.pc = "insert", !.i = 1]
<1>1. /\ b.pc = "store" /\ UNCHANGED <<rows, started>>
      /\ \/ disk' = disk \cup {name} /\ UNCHANGED <<lost, faults>>
         \/ lost' = lost \cup {name} /\ Fault /\ UNCHANGED disk
      /\ \/ b.i < Len(b.files) /\ Set(x, more)
         \/ ~(b.i < Len(b.files)) /\ Set(x, go)
  BY DEF Store
<1>2. /\ b \in BuildState /\ b.files \in Seq(FileObject)
      /\ b.i \in DOMAIN b.files /\ b.at \in DOMAIN b.reqs /\ b.erased = FALSE
      /\ \A k \in DOMAIN b.files : k < b.i => b.files[k].name \in Written
  <2>1. /\ b \in BuildState /\ IteratorsValid(b) /\ AtRequest(b)
        /\ WritesFirst(b, Written)
    BY DEF IInv, Good
  <2> QED
    BY <1>1, <2>1 DEF BuildState, IteratorsValid, AtRequest, WritesFirst
<1>3. name \in Nat
  BY FS_CardinalityType DEF IInv, Written
<1>4. Written' = Written \cup {name}
  BY <1>1 DEF Written
<1>5. Tables'
  <2>1. IsFiniteSet(Written')
    BY <1>4, FS_AddElement DEF IInv
  <2>2. disk' \in SUBSET Nat /\ lost' \in SUBSET Nat
    BY <1>1, <1>3 DEF IInv, TypeOK
  <2>3. started' \in [Builder -> 0..MaxBuilds] /\ faults' \in 0..MaxFaults
    BY <1>1, FaultCounts DEF IInv, TypeOK
  <2>4. IndexedIsStored'
    BY <1>1, <1>4 DEF IInv, IndexedIsStored, Written
  <2>5. rows' \in SUBSET [name : Nat, src : Api, item : Item,
                          tagged : BOOLEAN]
    BY <1>1 DEF IInv, TypeOK
  <2> QED
    BY <2>1, <2>2, <2>3, <2>4, <2>5 DEF Tables
<1>6. f \in FileObject /\ f.name = name
  <2>1. b.files[b.i] \in FileObject
    BY <1>2, ElementOf
  <2> QED
    BY <1>3, <2>1 DEF FileObject
<1> HIDE DEF f, name
<1>7. /\ files \in Seq(FileObject)
      /\ Len(files) = Len(b.files) /\ files[b.i] = f
      /\ \A k \in DOMAIN b.files \ {b.i} : files[k] = b.files[k]
  <2> DEFINE q == b.files
             i == b.i
  <2>1. q \in Seq(FileObject) /\ i \in DOMAIN q
    BY <1>2
  <2>2. files = ReplaceAt(q, i, f)
    OBVIOUS
  <2> HIDE DEF files, q, i
  <2>3. /\ ReplaceAt(q, i, f) \in Seq(FileObject)
        /\ Len(ReplaceAt(q, i, f)) = Len(q) /\ ReplaceAt(q, i, f)[i] = f
        /\ \A k \in DOMAIN q \ {i} : ReplaceAt(q, i, f)[k] = q[k]
    BY ONLY <1>6, <2>1, ReplaceFile, SMT
  <2> QED
    BY <2>2, <2>3 DEF q, i
<1> HIDE DEF files
<1>8. DOMAIN files = DOMAIN b.files
  BY <1>2, <1>7
<1>9. \A k \in DOMAIN files : k < b.i + 1 => files[k].name \in Written'
  BY <1>2, <1>4, <1>6, <1>7, <1>8
<1>10. CASE b.i < Len(b.files) /\ Set(x, more)
  <2>1. j \in DOMAIN files /\ j \in Nat
    BY <1>2, <1>8, <1>10
  <2>2. /\ more.pc = "store" /\ more.i = j /\ more.files = files
        /\ more.at = b.at /\ more.reqs = b.reqs /\ more.erased = b.erased
    BY <1>1, <1>2 DEF BuildState
  <2>3. \A k \in DOMAIN files : k < j => files[k].name \in Written'
    BY <1>9
  <2> HIDE DEF b, j
  <2>4. more \in BuildState
    BY <1>2, <1>7, <2>1, SetFiles DEF Pc
  <2> HIDE DEF more
  <2>5. Good(more, Written')
    BY <1>2, <2>1, <2>2, <2>3, <2>4
       DEF Good, IteratorsValid, AtRequest, WritesFirst
  <2> QED
    BY <1>4, <1>5, <1>10, <2>5, Move
<1>11. CASE ~(b.i < Len(b.files)) /\ Set(x, go)
  <2>1. 1 \in DOMAIN files /\ \A k \in DOMAIN files : k < b.i + 1
    BY <1>2, <1>8, <1>11
  <2>2. /\ go.pc = "insert" /\ go.i = 1 /\ go.files = files
        /\ go.at = b.at /\ go.reqs = b.reqs /\ go.erased = b.erased
    BY <1>2 DEF BuildState
  <2>3. \A k \in DOMAIN files : files[k].name \in Written'
    BY <1>9, <2>1
  <2> HIDE DEF b
  <2>4. go \in BuildState
    BY <1>2, <1>7, SetFiles DEF Pc
  <2> HIDE DEF go
  <2>5. Good(go, Written')
    BY <1>2, <2>1, <2>2, <2>3, <2>4
       DEF Good, IteratorsValid, AtRequest, WritesFirst
  <2> QED
    BY <1>4, <1>5, <1>11, <2>5, Move
<1> QED
  BY <1>1, <1>10, <1>11

LEMMA InsertCheckKeeps ==
  ASSUME IInv, NEW x \in Builder, InsertCheck(x)
  PROVE  IInv'
<1> DEFINE b == build[x]
           go == [b EXCEPT !.pc = "row"]
<1>1. /\ b.pc = "insert" /\ UNCHANGED <<rows, disk, lost, started>>
      /\ Fault \/ UNCHANGED faults
      /\ Set(x, Inserted(b)) \/ Set(x, go) \/ Set(x, Dropped(b))
  BY DEF InsertCheck
<1>2. Good(b, Written)
  BY DEF IInv
<1>3. go.pc = "row" /\ go.i = b.i /\ go.files = b.files /\ go.at = b.at
      /\ go.reqs = b.reqs /\ go.erased = b.erased
  BY <1>2 DEF Good, BuildState
<1> HIDE DEF b
<1>4. go \in BuildState
  BY <1>2, SetPc DEF Good, Pc
<1> HIDE DEF go
<1>5. Good(go, Written)
  BY <1>1, <1>2, <1>3, <1>4
     DEF Good, IteratorsValid, AtRequest, WritesFirst
<1>6. Good(Inserted(b), Written) /\ Good(Dropped(b), Written)
  BY <1>1, <1>2, InsertedGood, DroppedGood
<1>7. started' \in [Builder -> 0..MaxBuilds] /\ faults' \in 0..MaxFaults
  BY <1>1, FaultCounts DEF IInv, TypeOK
<1> QED
  BY <1>1, <1>5, <1>6, <1>7, Frame

LEMMA InsertRowKeeps ==
  ASSUME IInv, NEW x \in Builder, InsertRow(x)
  PROVE  IInv'
<1> DEFINE b == build[x]
           f == b.files[b.i]
           row == [name |-> f.name, src |-> f.src,
                   item |-> f.item, tagged |-> FALSE]
           go == [b EXCEPT !.pc = "tag"]
<1>1. /\ b.pc = "row" /\ UNCHANGED <<disk, lost, started>>
      /\ \/ rows' = rows \cup {row} /\ Set(x, go) /\ UNCHANGED faults
         \/ Fault /\ Set(x, Dropped(b)) /\ UNCHANGED rows
  BY DEF InsertRow
<1>2. Good(b, Written)
  BY DEF IInv
<1>3. f \in FileObject /\ f.name \in Written
  <2>1. b.files \in Seq(FileObject) /\ b.i \in DOMAIN b.files
        /\ \A k \in DOMAIN b.files : b.files[k].name \in Written
    BY <1>1, <1>2 DEF Good, BuildState, IteratorsValid, WritesFirst
  <2> QED
    BY <2>1, ElementOf
<1>4. go.pc = "tag" /\ go.i = b.i /\ go.files = b.files /\ go.at = b.at
      /\ go.reqs = b.reqs /\ go.erased = b.erased
  BY <1>2 DEF Good, BuildState
<1>5. row \in [name : Nat, src : Api, item : Item, tagged : BOOLEAN]
      /\ row.name \in Written
  BY <1>3 DEF FileObject
<1> HIDE DEF b, f, row
<1>6. go \in BuildState
  BY <1>2, SetPc DEF Good, Pc
<1> HIDE DEF go
<1>7. Good(go, Written) /\ Good(Dropped(b), Written)
  <2>1. Good(go, Written)
    BY <1>1, <1>2, <1>4, <1>6
       DEF Good, IteratorsValid, AtRequest, WritesFirst
  <2> QED
    BY <1>1, <1>2, <2>1, DroppedGood
<1>8. started' \in [Builder -> 0..MaxBuilds] /\ faults' \in 0..MaxFaults
  BY <1>1, FaultCounts DEF IInv, TypeOK
<1>9. Written' = Written
  BY <1>1 DEF Written
<1>10. CASE rows' = rows \cup {row} /\ Set(x, go)
  <2>1. rows' \in SUBSET [name : Nat, src : Api, item : Item,
                          tagged : BOOLEAN]
    BY <1>5, <1>10 DEF IInv, TypeOK
  <2>2. IndexedIsStored'
    BY <1>5, <1>9, <1>10 DEF IInv, IndexedIsStored, Written
  <2>3. Tables'
    BY <1>1, <1>8, <1>9, <2>1, <2>2 DEF Tables, IInv, TypeOK
  <2> QED
    BY <1>7, <1>9, <1>10, <2>3, Move
<1>11. CASE UNCHANGED rows /\ Set(x, Dropped(b))
  BY <1>1, <1>7, <1>8, <1>11, Frame
<1> QED
  BY <1>1, <1>10, <1>11

LEMMA InsertTagsKeeps ==
  ASSUME IInv, NEW x \in Builder, InsertTags(x)
  PROVE  IInv'
<1> DEFINE b == build[x]
           f == b.files[b.i]
           Tagged(r) == IF r.name = f.name THEN [r EXCEPT !.tagged = TRUE]
                                           ELSE r
<1>1. /\ b.pc = "tag" /\ UNCHANGED <<disk, lost, started>>
      /\ Fault \/ UNCHANGED faults
      /\ rows' = {Tagged(r) : r \in rows} \/ UNCHANGED rows
      /\ Set(x, Inserted(b)) \/ Set(x, Dropped(b))
  BY DEF InsertTags
<1>2. Good(b, Written)
  BY DEF IInv
<1>3. \A r \in rows :
        /\ r \in [name : Nat, src : Api, item : Item, tagged : BOOLEAN]
        /\ r.name \in Written
  BY DEF IInv, TypeOK, IndexedIsStored, Written
<1>4. \A r \in rows :
        /\ Tagged(r) \in [name : Nat, src : Api, item : Item,
                          tagged : BOOLEAN]
        /\ Tagged(r).name \in Written
  BY <1>3
<1> HIDE DEF b, Tagged
<1>5. Good(Inserted(b), Written) /\ Good(Dropped(b), Written)
  BY <1>1, <1>2, InsertedGood, DroppedGood
<1>6. started' \in [Builder -> 0..MaxBuilds] /\ faults' \in 0..MaxFaults
  BY <1>1, FaultCounts DEF IInv, TypeOK
<1>7. Written' = Written
  BY <1>1 DEF Written
<1>8. /\ rows' \in SUBSET [name : Nat, src : Api, item : Item,
                           tagged : BOOLEAN]
      /\ \A r \in rows' : r.name \in Written
  BY <1>1, <1>3, <1>4
<1>9. Tables'
  <2>1. IndexedIsStored'
    BY <1>7, <1>8 DEF IndexedIsStored, Written
  <2> QED
    BY <1>1, <1>6, <1>7, <1>8, <2>1 DEF Tables, IInv, TypeOK
<1> QED
  BY <1>1, <1>5, <1>7, <1>9, Move

\* Whatever page is asked for, an API lists items.
LEMMA ListingType ==
  ASSUME NEW a \in Api, NEW p
  PROVE  Listing(a, p) \in Seq(Item)
<1>1. Catalog[a] \in Seq(Seq(Item))
  BY BuildAssumption
<1> DEFINE page == IF a \in Paged THEN p ELSE 1
<1>2. Listing(a, p) = IF page \in DOMAIN Catalog[a]
                      THEN Catalog[a][page] ELSE <<>>
  BY DEF Listing
<1>3. page \in DOMAIN Catalog[a] => Catalog[a][page] \in Seq(Item)
  BY <1>1, ElementOf
<1>4. <<>> \in Seq(Item)
  OBVIOUS
<1> QED
  BY <1>2, <1>3, <1>4

\* The build has found items and is about to look them up.
Looks(b, c) ==
  /\ c.pc = "check" /\ c.i = 1
  /\ \A p \in c.seen : p \in b.seen \/ \E k \in DOMAIN c.found :
                         <<c.found[k].src, c.found[k].item>> = p

\* The request it was at is erased, or has brought no more than a listing.
Goes(b, c) ==
  /\ c.number = b.number /\ c.asked = b.asked /\ c.res = b.res /\ c.at = b.at
  /\ \/ c.pc = "query" /\ c.reqs = RemoveAt(b.reqs, b.at) /\ c.files = <<>>
     \/ /\ c.pc = "check" /\ c.i = 1 /\ c.files = b.files
        /\ \E p : Len(c.found) <= Len(Listing(b.reqs[b.at].api, p))
        /\ Len(c.reqs) = Len(b.reqs)
        /\ \A j \in 1..Len(b.reqs) : c.reqs[j].api = b.reqs[j].api

\* Where in its list a build is, and the page it asks for.
LEMMA RequestPlace ==
  ASSUME NEW s \in RequestList, NEW n \in 1..Len(s) + 1, n <= Len(s)
  PROVE  n \in DOMAIN s
<1>1. s \in Seq([api : Api, page : Nat])
  BY DEF RequestList
<1> HIDE DEF RequestList
<1> QED
  BY <1>1, PlaceIn

LEMMA PageTyped ==
  ASSUME NEW r \in [api : Api, page : Nat], NEW round \in Nat
  PROVE  (IF r.page = NoPage THEN NoPage ELSE r.page + round) \in Nat
BY DEF NoPage

LEMMA QueryMoves ==
  ASSUME IInv, NEW x \in Builder, Query(x)
  PROVE  \E c : /\ Set(x, c) /\ Good(c, Written) /\ Goes(build[x], c)
                /\ \/ c.pc = "query" /\ c.seen = build[x].seen
                   \/ Looks(build[x], c)
<1> DEFINE b == build[x]
           req == b.reqs[b.at]
           page == IF req.page = NoPage THEN NoPage ELSE req.page + b.round
           listing == Listing(req.api, page)
           Found(n, kept) ==
             [k \in 1..n |-> [src |-> req.api, name |-> 0,
                              item |-> listing[kept[k]]]]
           After(n, kept) ==
             [b EXCEPT
                !.clean = b.clean /\ n = Len(listing),
                !.seen = b.seen \cup
                           {<<req.api, Found(n, kept)[k].item>> : k \in 1..n}]
           More(n, kept) ==
             [After(n, kept) EXCEPT
                !.pc = "check", !.found = Found(n, kept), !.i = 1,
                !.reqs = ReplaceAt(After(n, kept).reqs, b.at,
                                   [req EXCEPT !.page = page])]
<1>1. /\ b.pc = "query" /\ b.at <= Len(b.reqs)
      /\ UNCHANGED <<rows, disk, lost, started>>
  BY DEF Query
<1>2. \E n \in 0..Len(listing) : \E kept \in [1..n -> DOMAIN listing] :
        /\ Fault \/ UNCHANGED faults
        /\ n = 0 => Set(x, NextRequest(Erased(After(n, kept))))
        /\ n # 0 => Set(x, More(n, kept))
  BY ZenonT(40) DEF Query
<1> HIDE DEF Found, After, More
<1>3. PICK n \in 0..Len(listing) :
         \E kept \in [1..n -> DOMAIN listing] :
           /\ Fault \/ UNCHANGED faults
           /\ n = 0 => Set(x, NextRequest(Erased(After(n, kept))))
           /\ n # 0 => Set(x, More(n, kept))
  BY <1>2
<1>4. PICK kept \in [1..n -> DOMAIN listing] :
         /\ Fault \/ UNCHANGED faults
         /\ n = 0 => Set(x, NextRequest(Erased(After(n, kept))))
         /\ n # 0 => Set(x, More(n, kept))
  BY <1>3
<1>5. n \in 0..Len(listing) /\ kept \in [1..n -> DOMAIN listing]
  BY <1>3, <1>4
<1> DEFINE found == Found(n, kept)
           after == After(n, kept)
           clean == b.clean /\ n = Len(listing)
           seen == b.seen \cup {<<req.api, found[k].item>> : k \in 1..n}
<1>6. /\ b \in BuildState /\ b.reqs \in RequestList /\ b.at \in DOMAIN b.reqs
      /\ b.erased = FALSE /\ b.round \in Nat
  <2>1. b \in BuildState /\ b.at \in 1..Len(b.reqs) + 1 /\ b.erased = FALSE
    BY <1>1 DEF IInv, Good, IteratorsValid, AtRequest
  <2>2. b.reqs \in RequestList /\ b.round \in Nat
    BY <2>1 DEF BuildState, RequestList
  <2>3. b.at \in DOMAIN b.reqs
    BY <1>1, <2>1, <2>2, RequestPlace
  <2> QED
    BY <2>1, <2>2, <2>3
<1>7. req \in [api : Api, page : Nat] /\ page \in Nat
  <2>1. req \in [api : Api, page : Nat]
    BY <1>6, ElementOf DEF RequestList
  <2> QED
    BY <1>6, <2>1, PageTyped
<1>8. listing \in Seq(Item)
  BY <1>7, ListingType
<1> HIDE DEF page, listing
<1>9. n \in Nat /\ \A k \in 1..n : listing[kept[k]] \in Item
  <2>1. n \in Nat
    <3>1. Len(listing) \in Nat
      BY <1>8
    <3> QED
      BY <1>5, <3>1
  <2>2. ASSUME NEW k \in 1..n
        PROVE  listing[kept[k]] \in Item
    <3>1. kept[k] \in DOMAIN listing
      BY <1>5, <2>2
    <3> QED
      BY <1>8, <3>1, ElementOf
  <2> QED
    BY <2>1, <2>2
<1>10. found \in Seq(FileObject) /\ Len(found) = n
      /\ \A k \in 1..n : found[k].item \in Item
  <2>1. \A k \in 1..n : found[k] \in FileObject /\ found[k].item \in Item
    BY <1>7, <1>9 DEF FileObject, Found
  <2>2. found \in [1..n -> FileObject]
    BY <2>1 DEF Found
  <2>3. found \in Seq(FileObject) /\ Len(found) = n
    BY <1>9, <2>2
  <2> QED
    BY <2>1, <2>3
<1>11. seen \in SUBSET (Api \X Item) /\ clean \in BOOLEAN
  <2>1. b.seen \in SUBSET (Api \X Item)
    BY <1>6 DEF BuildState
  <2>2. \A k \in 1..n : <<req.api, found[k].item>> \in Api \X Item
    BY <1>7, <1>10
  <2> QED
    BY <2>1, <2>2
<1>12. after = [b EXCEPT !.clean = clean, !.seen = seen]
  BY DEF After
<1> HIDE DEF found, clean, seen
<1>13. after \in BuildState
  <2>1. [b EXCEPT !.clean = clean, !.seen = seen] \in BuildState
    BY <1>6, <1>11, SetSeen, Zenon
  <2> QED
    BY <1>12, <2>1
<1>14. /\ after.pc = b.pc /\ after.at = b.at /\ after.reqs = b.reqs
       /\ after.erased = b.erased /\ after.seen = seen
       /\ after.number = b.number /\ after.asked = b.asked
       /\ after.res = b.res /\ after.files = b.files
  BY <1>6, <1>12 DEF BuildState
<1>15. Len(found) <= Len(listing)
  BY <1>5, <1>8, <1>10
<1>16. CASE n = 0
  <2> DEFINE reqs == RemoveAt(after.reqs, after.at)
             e == [after EXCEPT !.reqs = reqs, !.erased = TRUE]
  <2>1. Set(x, NextRequest(e))
    BY <1>16, <1>4 DEF Erased
  <2> HIDE DEF after
  <2>2. reqs \in RequestList /\ Len(reqs) = Len(b.reqs) - 1
    <3>1. /\ RemoveAt(b.reqs, b.at) \in RequestList
          /\ Len(RemoveAt(b.reqs, b.at)) = Len(b.reqs) - 1
      BY <1>6, EraseRequest
    <3> QED
      BY <1>14, <3>1
  <2>3. /\ e.reqs = reqs /\ e.at = b.at /\ e.erased = TRUE /\ e.seen = seen
        /\ e.number = b.number /\ e.asked = b.asked /\ e.res = b.res
    BY <1>13, <1>14 DEF BuildState
  <2>9. reqs = RemoveAt(b.reqs, b.at)
    BY <1>14
  <2> HIDE DEF reqs
  <2>4. e \in BuildState
    BY <1>13, <2>2, SetReqs
  <2> HIDE DEF e
  <2>5. e.at \in 1..(Len(e.reqs) + 1)
    BY <1>6, <2>2, <2>3 DEF RequestList
  <2>6. Good(NextRequest(e), Written)
    BY <2>3, <2>4, <2>5, NextGood
  <2>7. NextRequest(e).pc = "query" /\ NextRequest(e).seen = seen
    BY <2>3, <2>4 DEF NextRequest, BuildState
  <2>8. seen = b.seen
    BY <1>16 DEF seen
  <2>10. Goes(b, NextRequest(e))
    <3> DEFINE c == NextRequest(e)
    <3>1. /\ c.pc = "query" /\ c.at = e.at /\ c.reqs = e.reqs /\ c.files = <<>>
          /\ c.number = e.number /\ c.asked = e.asked /\ c.res = e.res
      BY <2>3, <2>4 DEF NextRequest, BuildState
    <3> HIDE DEF c
    <3> QED
      BY <2>3, <2>9, <3>1 DEF Goes, c
  <2> QED
    BY <2>1, <2>6, <2>7, <2>8, <2>10
<1>17. CASE n # 0
  <2> DEFINE to == [req EXCEPT !.page = page]
             reqs == ReplaceAt(b.reqs, b.at, to)
             m == [after EXCEPT !.pc = "check", !.found = found, !.i = 1,
                                !.reqs = reqs]
  <2>1. Set(x, m)
    BY <1>14, <1>17, <1>4 DEF found, More
  <2> HIDE DEF after
  <2>11. to \in [api : Api, page : Nat] /\ to.api = req.api
    BY <1>7
  <2>12. b.reqs \in RequestList /\ b.at \in DOMAIN b.reqs
    BY <1>6
  <2> HIDE DEF to
  <2>2. /\ reqs \in RequestList /\ Len(reqs) = Len(b.reqs)
        /\ reqs[b.at] = to
        /\ \A k \in DOMAIN b.reqs \ {b.at} : reqs[k] = b.reqs[k]
    BY <2>11, <2>12, ReplaceRequest
  <2>3. /\ m.pc = "check" /\ m.i = 1 /\ m.found = found /\ m.reqs = reqs
        /\ m.at = b.at /\ m.erased = FALSE /\ m.seen = seen
        /\ m.number = b.number /\ m.asked = b.asked /\ m.res = b.res
        /\ m.files = b.files
    BY <1>6, <1>13, <1>14 DEF BuildState
  <2>9. \A j \in 1..Len(b.reqs) : reqs[j].api = b.reqs[j].api
    <3>1. DOMAIN b.reqs = 1..Len(b.reqs)
      BY <1>6, PlaceIn DEF RequestList
    <3> QED
      BY <2>2, <2>11, <3>1
  <2> HIDE DEF reqs
  <2>4. 1 \in DOMAIN found
    BY <1>9, <1>10, <1>17
  <2>5. b.at \in DOMAIN reqs
    BY <1>6, <2>2, PlaceIn DEF RequestList
  <2>6. m \in BuildState
    BY <1>10, <1>13, <2>2, SetFound DEF Pc
  <2> HIDE DEF m
  <2>7. Good(m, Written)
    BY <2>3, <2>4, <2>5, <2>6
       DEF Good, IteratorsValid, AtRequest, WritesFirst
  <2>8. Looks(b, m)
    <3>1. DOMAIN found = 1..n
      BY <1>9, <1>10
    <3>2. \A k \in 1..n : found[k].src = req.api
      BY DEF found, Found
    <3> QED
      BY <2>3, <3>1, <3>2 DEF Looks, seen
  <2>10. Goes(b, m)
    <3>1. \E p : Len(found) <= Len(Listing(req.api, p))
      BY <1>15 DEF listing
    <3> QED
      BY <2>2, <2>3, <2>9, <3>1 DEF Goes
  <2> QED
    BY <2>1, <2>7, <2>8, <2>10
<1> QED
  BY <1>16, <1>17

LEMMA QueryKeeps ==
  ASSUME IInv, NEW x \in Builder, Query(x)
  PROVE  IInv'
<1>1. PICK c : Set(x, c) /\ Good(c, Written)
  BY QueryMoves
<1>2. UNCHANGED <<rows, disk, lost, started>> /\ (Fault \/ UNCHANGED faults)
  BY DEF Query
<1>3. started' \in [Builder -> 0..MaxBuilds] /\ faults' \in 0..MaxFaults
  BY <1>2, FaultCounts DEF IInv, TypeOK
<1> QED
  BY <1>1, <1>2, <1>3, Frame

(***************************************************************************)
(* The theorems.                                                           *)
(***************************************************************************)
LEMMA InitHolds == Init => IInv
<1> SUFFICES ASSUME Init
             PROVE  IInv
  OBVIOUS
<1>1. Written = {}
  BY DEF Init, Written
<1>2. \A x \in Builder : Good(build[x], Written) /\ build[x] \in BuildState
  BY IdleGood DEF Init
<1>3. \A x \in Builder : IteratorsValid(build[x])
  BY <1>2 DEF Good
<1>4. build \in [Builder -> BuildState]
  BY IdleGood DEF Init
<1>5. started \in [Builder -> 0..MaxBuilds] /\ faults \in 0..MaxFaults
  BY BuildAssumption DEF Init
<1>6. IsFiniteSet(Written)
  BY <1>1, FS_EmptySet
<1>7. TypeOK
  BY <1>3, <1>4, <1>5 DEF TypeOK, Init
<1> QED
  BY <1>2, <1>6, <1>7 DEF IInv, IndexedIsStored, Init

LEMMA StepKeeps == IInv /\ [Next]_vars => IInv'
<1> SUFFICES ASSUME IInv, [Next]_vars
             PROVE  IInv'
  OBVIOUS
<1>1. CASE UNCHANGED vars
  BY <1>1 DEF vars, IInv, TypeOK, IndexedIsStored, Written
<1>2. ASSUME NEW x \in Builder, Step(x)
      PROVE  IInv'
  BY <1>2, QueryKeeps, CheckKeeps, StoreKeeps, InsertCheckKeeps,
     InsertRowKeeps, InsertTagsKeeps, EndRoundKeeps DEF Step
<1>3. ASSUME NEW x \in Builder, Start(x) \/ Abort(x) \/ Crash(x)
      PROVE  IInv'
  BY <1>3, StartKeeps, AbortKeeps, CrashKeeps
<1> QED
  BY <1>1, <1>2, <1>3 DEF Next

LEMMA Invariant == Spec => []IInv
BY InitHolds, StepKeeps, PTL DEF Spec

\* Every build of every builder keeps its lists and its iterators in order: it
\* never reads an element of _results, partial_res or requests that is not
\* there, whatever it erases and whatever fails.
THEOREM TypeCorrect == Spec => []TypeOK
<1>1. IInv => TypeOK
  BY DEF IInv
<1> QED
  BY <1>1, Invariant, PTL

\* A row of the index always has the file it names in the storage folder, but
\* for a write that was lost, whatever builds run and whatever throws or dies.
THEOREM StoredFirst == Spec => []IndexedIsStored
<1>1. IInv => IndexedIsStored
  BY DEF IInv
<1> QED
  BY <1>1, Invariant, PTL

(***************************************************************************)
(* What the steps make of a build, field by field.                         *)
(***************************************************************************)
Pair(f) == <<f.src, f.item>>

LEMMA NextFields ==
  ASSUME NEW b \in BuildState
  PROVE  NextRequest(b).pc = "query" /\ NextRequest(b).seen = b.seen
BY DEF NextRequest, BuildState

LEMMA InsertedFields ==
  ASSUME NEW b \in BuildState, b.i \in DOMAIN b.files
  PROVE  LET c == Inserted(b)
         IN  /\ c.seen = b.seen
             /\ \/ c.pc = "query" /\ b.i = Len(b.files)
                \/ c.pc = "insert" /\ c.i = b.i + 1 /\ c.files = b.files
<1>1. b.files \in Seq(FileObject) /\ b.res \in Seq(FileObject)
  BY DEF BuildState
<1>2. CASE b.i < Len(b.files)
  <2>1. Inserted(b) = [b EXCEPT !.pc = "insert", !.i = b.i + 1]
    BY <1>2 DEF Inserted
  <2> QED
    BY <2>1 DEF BuildState
<1>3. CASE ~(b.i < Len(b.files))
  <2> DEFINE res == b.res \o b.files
             c == [b EXCEPT !.res = res]
  <2>1. res \in Seq(FileObject)
    BY ONLY <1>1, JoinLists, SMT
  <2>2. Inserted(b) = NextRequest(c)
    BY <1>3 DEF Inserted
  <2> HIDE DEF res
  <2>3. c \in BuildState /\ c.seen = b.seen
    BY <2>1, SetRes, ZenonT(40) DEF BuildState
  <2>4. b.i = Len(b.files)
    BY <1>1, <1>3
  <2> HIDE DEF c
  <2> QED
    BY <2>2, <2>3, <2>4, NextFields
<1> QED
  BY <1>2, <1>3

LEMMA DroppedFields ==
  ASSUME NEW b \in BuildState, b.i \in DOMAIN b.files
  PROVE  LET c == Dropped(b)
         IN  /\ c.seen = b.seen \ {Pair(b.files[b.i])}
             /\ \/ c.pc = "query" /\ b.i = Len(b.files)
                \/ /\ c.pc = "insert" /\ c.i = b.i
                   /\ c.files = RemoveAt(b.files, b.i)
<1> DEFINE files == RemoveAt(b.files, b.i)
           seen == b.seen \ {Pair(b.files[b.i])}
           d == [b EXCEPT !.files = files, !.clean = FALSE, !.seen = seen]
<1>1. /\ b.files \in Seq(FileObject) /\ b.res \in Seq(FileObject)
      /\ seen \in SUBSET (Api \X Item)
  BY DEF BuildState
<1>2. files \in Seq(FileObject)
  BY <1>1, EraseFile
<1>3. Dropped(b) = IF b.i < Len(b.files)
                   THEN [d EXCEPT !.pc = "insert"]
                   ELSE NextRequest([d EXCEPT !.res = d.res \o d.files])
  BY DEF Dropped, Pair
<1> HIDE DEF seen, files
<1>4. /\ d.i = b.i /\ d.files = files /\ d.seen = seen /\ d.res = b.res
  BY DEF BuildState
<1>5. d \in BuildState
  BY <1>1, <1>2, SetDropped
<1> HIDE DEF d
<1>6. CASE b.i < Len(b.files)
  <2>1. Dropped(b) = [d EXCEPT !.pc = "insert"]
    BY <1>3, <1>6
  <2>2. LET c == [d EXCEPT !.pc = "insert"]
        IN  c.pc = "insert" /\ c.i = b.i /\ c.files = files /\ c.seen = seen
    BY <1>4, <1>5 DEF BuildState
  <2> QED
    BY <2>1, <2>2 DEF seen, files
<1>7. CASE ~(b.i < Len(b.files))
  <2> DEFINE res == d.res \o d.files
             e == [d EXCEPT !.res = res]
  <2>1. d.res \in Seq(FileObject) /\ d.files \in Seq(FileObject)
    BY <1>1, <1>2, <1>4
  <2>2. res \in Seq(FileObject)
    BY ONLY <2>1, JoinLists, SMT
  <2>3. Dropped(b) = NextRequest(e)
    BY <1>3, <1>7
  <2> HIDE DEF res
  <2>4. e \in BuildState /\ e.seen = seen
    BY <1>4, <1>5, <2>2, SetRes, ZenonT(40) DEF BuildState
  <2>5. b.i = Len(b.files)
    BY <1>1, <1>7
  <2> HIDE DEF e
  <2> QED
    BY <2>3, <2>4, <2>5, NextFields DEF seen
<1> QED
  BY <1>6, <1>7

(***************************************************************************)
(* Nothing is skipped.  What a build has seen is in the index or is still  *)
(* before it in a list; and a build that tags a row has made that row.     *)
(* Other builds may add to the index, and never take anything from it.     *)
(***************************************************************************)
Has(index, p) ==
  \E r \in index : r.tagged /\ r.src = p[1] /\ r.item = p[2]

Pending(b, p) ==
  \/ b.pc = "check" /\ \E k \in DOMAIN b.found : k >= b.i /\ Pair(b.found[k]) = p
  \/ b.pc \in {"check", "store"} /\ \E k \in DOMAIN b.files : Pair(b.files[k]) = p
  \/ /\ b.pc \in {"insert", "row", "tag"}
     /\ \E k \in DOMAIN b.files : k >= b.i /\ Pair(b.files[k]) = p

Covered(b, index) == \A p \in b.seen : Has(index, p) \/ Pending(b, p)

Named(r, f) == r.name = f.name /\ r.src = f.src /\ r.item = f.item

RowMade(b, index) ==
  b.pc = "tag" => \E r \in index : Named(r, b.files[b.i])

SkipInv ==
  \A x \in Builder : Covered(build[x], rows) /\ RowMade(build[x], rows)

\* The index grows: rows stay, and keep their tags.
Grown ==
  \A r \in rows : \E s \in rows' :
    /\ s.name = r.name /\ s.src = r.src /\ s.item = r.item
    /\ r.tagged => s.tagged

LEMMA GrownKeeps ==
  ASSUME Grown, NEW b
  PROVE  /\ Covered(b, rows) => Covered(b, rows')
         /\ RowMade(b, rows) => RowMade(b, rows')
<1>1. \A p : Has(rows, p) => Has(rows', p)
  BY DEF Grown, Has
<1>2. RowMade(b, rows) => RowMade(b, rows')
  BY DEF Grown, RowMade, Named
<1> QED
  BY <1>1, <1>2 DEF Covered

LEMMA SkipMove ==
  ASSUME IInv, SkipInv, NEW x \in Builder, NEW c, Set(x, c), Grown,
         Covered(c, rows'), RowMade(c, rows')
  PROVE  SkipInv'
<1>1. \A y \in Builder : build'[y] = IF y = x THEN c ELSE build[y]
  BY DEF Set, IInv, TypeOK
<1>2. ASSUME NEW y \in Builder
      PROVE  Covered(build'[y], rows') /\ RowMade(build'[y], rows')
  <2>1. CASE y = x
    BY <1>1, <2>1
  <2>2. CASE y # x
    <3>1. build'[y] = build[y]
      BY <1>1, <2>2
    <3> QED
      BY <3>1, GrownKeeps DEF SkipInv
  <2> QED
    BY <2>1, <2>2
<1> QED
  BY <1>2 DEF SkipInv

LEMMA SameRows ==
  ASSUME UNCHANGED rows
  PROVE  Grown
BY DEF Grown

\* A build that has dealt with everything it has seen.
LEMMA DoneCovered ==
  ASSUME NEW b, b.pc \in {"query", "idle"}, NEW index,
         \A p \in b.seen : Has(index, p)
  PROVE  Covered(b, index) /\ RowMade(b, index)
BY DEF Covered, RowMade

LEMMA InsertedCovered ==
  ASSUME NEW index, NEW b \in BuildState, b.i \in DOMAIN b.files,
         b.pc \in {"insert", "tag"}, Covered(b, index),
         Has(index, Pair(b.files[b.i]))
  PROVE  Covered(Inserted(b), index) /\ RowMade(Inserted(b), index)
<1> DEFINE c == Inserted(b)
<1>1. /\ c.seen = b.seen
      /\ \/ c.pc = "query" /\ b.i = Len(b.files)
         \/ c.pc = "insert" /\ c.i = b.i + 1 /\ c.files = b.files
  BY InsertedFields
<1> HIDE DEF c
<1>2. b.files \in Seq(FileObject) /\ b.i \in Nat
  BY DEF BuildState
<1>3. ASSUME NEW p \in b.seen, ~Has(index, p)
      PROVE  \E k \in DOMAIN b.files : k >= b.i + 1 /\ Pair(b.files[k]) = p
  <2>1. PICK k \in DOMAIN b.files : k >= b.i /\ Pair(b.files[k]) = p
    BY <1>3 DEF Covered, Pending
  <2>2. k # b.i
    BY <1>3, <2>1
  <2>3. k >= b.i + 1
    BY <1>2, <2>1, <2>2
  <2> QED
    BY <2>1, <2>3
<1>4. CASE c.pc = "query" /\ b.i = Len(b.files)
  <2>1. \A k \in DOMAIN b.files : ~(k >= b.i + 1)
    BY <1>2, <1>4
  <2>2. \A p \in c.seen : Has(index, p)
    BY <1>1, <1>3, <2>1
  <2> QED
    BY <1>4, <2>2, DoneCovered DEF c
<1>5. CASE c.pc = "insert" /\ c.i = b.i + 1 /\ c.files = b.files
  <2>1. Covered(c, index) /\ RowMade(c, index)
    BY <1>1, <1>3, <1>5 DEF Covered, Pending, RowMade
  <2> QED
    BY <2>1 DEF c
<1> QED
  BY <1>1, <1>4, <1>5

LEMMA DroppedCovered ==
  ASSUME NEW index, NEW b \in BuildState, b.i \in DOMAIN b.files,
         b.pc \in {"insert", "row", "tag"}, Covered(b, index)
  PROVE  Covered(Dropped(b), index) /\ RowMade(Dropped(b), index)
<1> DEFINE c == Dropped(b)
           left == RemoveAt(b.files, b.i)
<1>1. /\ c.seen = b.seen \ {Pair(b.files[b.i])}
      /\ \/ c.pc = "query" /\ b.i = Len(b.files)
         \/ c.pc = "insert" /\ c.i = b.i /\ c.files = left
  BY DroppedFields
<1> HIDE DEF c
<1>2. b.files \in Seq(FileObject) /\ b.i \in Nat
  BY DEF BuildState
<1>3. /\ Len(left) = Len(b.files) - 1 /\ left \in Seq(FileObject)
      /\ \A k \in DOMAIN left : k >= b.i => left[k] = b.files[k + 1]
  BY <1>2, EraseList
<1> HIDE DEF left
<1>4. ASSUME NEW p \in c.seen, ~Has(index, p)
      PROVE  \E k \in DOMAIN b.files : k > b.i /\ Pair(b.files[k]) = p
  <2>1. p \in b.seen /\ p # Pair(b.files[b.i])
    BY <1>1, <1>4
  <2>2. PICK k \in DOMAIN b.files : k >= b.i /\ Pair(b.files[k]) = p
    BY <1>4, <2>1 DEF Covered, Pending
  <2>3. k > b.i
    BY <1>2, <2>1, <2>2
  <2> QED
    BY <2>2, <2>3
<1>5. CASE c.pc = "query" /\ b.i = Len(b.files)
  <2>1. \A k \in DOMAIN b.files : ~(k > b.i)
    BY <1>2, <1>5
  <2>2. \A p \in c.seen : Has(index, p)
    BY <1>4, <2>1
  <2> QED
    BY <1>5, <2>2, DoneCovered DEF c
<1>6. CASE c.pc = "insert" /\ c.i = b.i /\ c.files = left
  <2>1. ASSUME NEW p \in c.seen, ~Has(index, p)
        PROVE  \E k \in DOMAIN left : k >= b.i /\ Pair(left[k]) = p
    <3>1. PICK k \in DOMAIN b.files : k > b.i /\ Pair(b.files[k]) = p
      BY <1>4, <2>1
    <3>2. k - 1 \in DOMAIN left /\ k - 1 >= b.i /\ (k - 1) + 1 = k
      BY <1>2, <1>3, <3>1
    <3>3. left[k - 1] = b.files[k]
      BY <1>3, <3>2
    <3> QED
      BY <3>1, <3>2, <3>3
  <2>2. Covered(c, index) /\ RowMade(c, index)
    BY <1>6, <2>1 DEF Covered, Pending, RowMade
  <2> QED
    BY <2>2 DEF c
<1> QED
  BY <1>1, <1>5, <1>6

LEMMA StartSkips ==
  ASSUME IInv, SkipInv, NEW x \in Builder, Start(x) \/ Abort(x) \/ Crash(x)
  PROVE  SkipInv'
<1>1. PICK c : Set(x, c) /\ c.pc \in {"query", "idle"} /\ c.seen = {}
  <2>1. ASSUME NEW c, c.seen = Idle.seen, c.pc \in {"query", "idle"}, Set(x, c)
        PROVE  \E d : Set(x, d) /\ d.pc \in {"query", "idle"} /\ d.seen = {}
    <3>1. c.seen = {}
      BY <2>1 DEF Idle
    <3> QED
      BY <2>1, <3>1
  <2>2. CASE Start(x)
    <3>1. PICK n, reqs : Set(x, [Idle EXCEPT !.pc = "query", !.number = n,
                                             !.reqs = reqs, !.asked = reqs])
      BY <2>2 DEF Start
    <3> DEFINE c == [Idle EXCEPT !.pc = "query", !.number = n,
                                 !.reqs = reqs, !.asked = reqs]
    <3>2. c.seen = Idle.seen /\ c.pc = "query"
      BY DEF Idle
    <3> HIDE DEF c
    <3> QED
      BY <2>1, <3>1, <3>2 DEF c
  <2>3. CASE Abort(x)
    <3> DEFINE c == [Idle EXCEPT !.res = build[x].res, !.clean = FALSE]
    <3>1. Set(x, c) /\ c.seen = Idle.seen /\ c.pc = "idle"
      BY <2>3 DEF Abort, Idle
    <3> HIDE DEF c
    <3> QED
      BY <2>1, <3>1
  <2>4. CASE Crash(x)
    <3> DEFINE c == [Idle EXCEPT !.clean = FALSE]
    <3>1. Set(x, c) /\ c.seen = Idle.seen /\ c.pc = "idle"
      BY <2>4 DEF Crash, Idle
    <3> HIDE DEF c
    <3> QED
      BY <2>1, <3>1
  <2> QED
    BY <2>2, <2>3, <2>4
<1>2. UNCHANGED rows
  BY DEF Start, Abort, Crash
<1>3. Covered(c, rows') /\ RowMade(c, rows')
  BY <1>1, DoneCovered
<1> QED
  BY <1>1, <1>2, <1>3, SameRows, SkipMove

LEMMA EndRoundSkips ==
  ASSUME IInv, SkipInv, NEW x \in Builder, EndRound(x)
  PROVE  SkipInv'
<1> DEFINE b == build[x]
           round == IF b.round < MaxRound THEN b.round + 1 ELSE b.round
           more == [b EXCEPT !.at = 1, !.round = round]
           done == [b EXCEPT !.pc = "idle"]
<1>1. /\ Set(x, more) \/ Set(x, done)
      /\ UNCHANGED rows /\ b.pc = "query"
  BY DEF EndRound
<1>2. b \in BuildState /\ Covered(b, rows)
  BY DEF IInv, Good, SkipInv
<1>3. /\ more.pc = "query" /\ more.seen = b.seen
      /\ done.pc = "idle" /\ done.seen = b.seen
  BY <1>1, <1>2 DEF BuildState
<1> HIDE DEF b, more, done
<1>4. \A p \in b.seen : Has(rows, p)
  BY <1>1, <1>2 DEF Covered, Pending
<1>5. ASSUME NEW c, Set(x, c), c.pc \in {"query", "idle"}, c.seen = b.seen
      PROVE  SkipInv'
  <2>1. Covered(c, rows') /\ RowMade(c, rows')
    BY <1>1, <1>4, <1>5, DoneCovered
  <2> QED
    BY <1>1, <1>5, <2>1, SameRows, SkipMove
<1> QED
  BY <1>1, <1>3, <1>5

LEMMA QuerySkips ==
  ASSUME IInv, SkipInv, NEW x \in Builder, Query(x)
  PROVE  SkipInv'
<1> DEFINE b == build[x]
<1>1. PICK c : /\ Set(x, c) /\ Good(c, Written)
               /\ \/ c.pc = "query" /\ c.seen = b.seen
                  \/ Looks(b, c)
  BY QueryMoves
<1>2. UNCHANGED rows /\ b.pc = "query" /\ Covered(b, rows)
  BY DEF Query, SkipInv
<1> HIDE DEF b
<1>3. \A p \in b.seen : Has(rows, p)
  BY <1>2 DEF Covered, Pending
<1>4. CASE c.pc = "query" /\ c.seen = b.seen
  <2>1. Covered(c, rows') /\ RowMade(c, rows')
    BY <1>2, <1>3, <1>4, DoneCovered
  <2> QED
    BY <1>1, <1>2, <2>1, SameRows, SkipMove
<1>5. CASE Looks(b, c)
  <2>1. \A k \in DOMAIN c.found : k >= 1
    BY <1>1 DEF Good, BuildState
  <2>2. ASSUME NEW p \in c.seen, ~Has(rows, p) PROVE Pending(c, p)
    <3>1. PICK k \in DOMAIN c.found : Pair(c.found[k]) = p
      BY <1>3, <1>5, <2>2 DEF Looks, Pair
    <3>2. k >= c.i /\ c.pc = "check"
      BY <1>5, <2>1 DEF Looks
    <3> QED
      BY <3>1, <3>2 DEF Pending
  <2>3. rows' = rows /\ c.pc # "tag"
    BY <1>2, <1>5 DEF Looks
  <2>4. Covered(c, rows') /\ RowMade(c, rows')
    BY <2>2, <2>3 DEF Covered, RowMade
  <2> QED
    BY <1>1, <1>2, <2>4, SameRows, SkipMove
<1> QED
  BY <1>1, <1>4, <1>5

\* A file the database knows is left out because it is there.
LEMMA CheckSkips ==
  ASSUME IInv, SkipInv, NEW x \in Builder, Check(x)
  PROVE  SkipInv'
<1> DEFINE b == build[x]
           f == b.found[b.i]
           files == IF Known(f.src, f.item) THEN b.files ELSE Append(b.files, f)
           j == b.i + 1
           more == [b EXCEPT !.files = files, !.i = j]
           go == [b EXCEPT !.pc = "store", !.files = files, !.i = 1]
<1>1. b.pc = "check" /\ UNCHANGED rows
  BY DEF Check
<1>2. /\ b \in BuildState /\ Covered(b, rows)
      /\ b.found \in Seq(FileObject) /\ b.files \in Seq(FileObject)
      /\ b.i \in DOMAIN b.found /\ b.i \in Nat
  <2>1. Good(b, Written) /\ Covered(b, rows)
    BY DEF IInv, SkipInv
  <2> QED
    BY <1>1, <2>1 DEF Good, IteratorsValid, BuildState
<1>3. \/ b.i # Len(b.found) /\ Set(x, more)
      \/ b.i = Len(b.found) /\ files = <<>> /\ Set(x, NextRequest(b))
      \/ b.i = Len(b.found) /\ Set(x, go)
  BY DEF Check
<1>4. /\ more.pc = "check" /\ more.i = j /\ more.found = b.found
      /\ more.files = files /\ more.seen = b.seen
      /\ go.pc = "store" /\ go.files = files /\ go.seen = b.seen
  BY <1>1, <1>2 DEF BuildState
<1>5. /\ Has(rows, Pair(f)) \/ \E k \in DOMAIN files : Pair(files[k]) = Pair(f)
      /\ \A k \in DOMAIN b.files : k \in DOMAIN files /\ files[k] = b.files[k]
  <2>1. CASE Known(f.src, f.item)
    BY <2>1 DEF Known, Indexed, Has, Pair
  <2>2. CASE ~Known(f.src, f.item)
    <3>1. files = Append(b.files, f) /\ f \in FileObject
      BY <1>2, <2>2, ElementOf
    <3> HIDE DEF files, f
    <3>2. Len(b.files) + 1 \in DOMAIN files /\ files[Len(b.files) + 1] = f
      BY <1>2, <3>1
    <3>3. \A k \in DOMAIN b.files : k \in DOMAIN files /\ files[k] = b.files[k]
      BY <1>2, <3>1
    <3> QED
      BY <3>2, <3>3
  <2> QED
    BY <2>1, <2>2
<1> HIDE DEF b, f, files, more, go
<1>6. ASSUME NEW p \in b.seen, ~Has(rows, p),
             ~\E k \in DOMAIN files : Pair(files[k]) = p
      PROVE  \E k \in DOMAIN b.found : k >= j /\ Pair(b.found[k]) = p
  <2>1. PICK k \in DOMAIN b.found : k >= b.i /\ Pair(b.found[k]) = p
    <3>1. Pending(b, p)
      BY <1>2, <1>6 DEF Covered
    <3> QED
      BY <1>1, <1>5, <1>6, <3>1 DEF Pending
  <2>2. k # b.i
    BY <1>5, <1>6, <2>1 DEF f
  <2>3. k >= j
    BY <1>2, <2>1, <2>2
  <2> QED
    BY <2>1, <2>3
<1>7. CASE b.i # Len(b.found) /\ Set(x, more)
  <2>1. Covered(more, rows') /\ RowMade(more, rows')
    BY <1>1, <1>4, <1>6 DEF Covered, Pending, RowMade
  <2> QED
    BY <1>1, <1>7, <2>1, SameRows, SkipMove
<1>8. ASSUME b.i = Len(b.found), NEW p \in b.seen, ~Has(rows, p)
      PROVE  \E k \in DOMAIN files : Pair(files[k]) = p
  <2>1. \A k \in DOMAIN b.found : ~(k >= j)
    BY <1>2, <1>8
  <2> QED
    BY <1>6, <1>8, <2>1
<1>9. CASE b.i = Len(b.found) /\ files = <<>> /\ Set(x, NextRequest(b))
  <2>1. \A p \in b.seen : Has(rows, p)
    <3>1. DOMAIN files = {}
      BY <1>9
    <3> QED
      BY <1>8, <1>9, <3>1
  <2>2. /\ Covered(NextRequest(b), rows')
        /\ RowMade(NextRequest(b), rows')
    BY <1>1, <1>2, <2>1, NextFields, DoneCovered
  <2> QED
    BY <1>1, <1>9, <2>2, SameRows, SkipMove
<1>10. CASE b.i = Len(b.found) /\ Set(x, go)
  <2>1. Covered(go, rows') /\ RowMade(go, rows')
    BY <1>1, <1>4, <1>8, <1>10 DEF Covered, Pending, RowMade
  <2> QED
    BY <1>1, <1>10, <2>1, SameRows, SkipMove
<1> QED
  BY <1>3, <1>7, <1>9, <1>10

\* What storing does to the list: one file gets a name.
LEMMA StoreFields ==
  ASSUME IInv, NEW x \in Builder, Store(x)
  PROVE  LET b == build[x]
             name == Cardinality(Written) + 1
         IN  /\ b.pc = "store" /\ UNCHANGED rows
             /\ b.files \in Seq(FileObject) /\ b.i \in DOMAIN b.files
             /\ Written' = Written \cup {name}
             /\ \E c, files :
                  /\ Set(x, c) /\ c.seen = b.seen /\ c.files = files
                  /\ c.number = b.number /\ c.asked = b.asked
                  /\ c.reqs = b.reqs /\ c.at = b.at /\ c.res = b.res
                  /\ files \in Seq(FileObject) /\ Len(files) = Len(b.files)
                  /\ files[b.i].name = name
                  /\ Pair(files[b.i]) = Pair(b.files[b.i])
                  /\ \A k \in DOMAIN b.files \ {b.i} : files[k] = b.files[k]
                  /\ \/ c.pc = "store" /\ c.i = b.i + 1
                     \/ c.pc = "insert" /\ c.i = 1 /\ b.i = Len(b.files)
<1> DEFINE b == build[x]
           name == Cardinality(disk \cup lost) + 1
           f == [b.files[b.i] EXCEPT !.name = name]
           files == ReplaceAt(b.files, b.i, f)
           j == b.i + 1
           more == [b EXCEPT !.files = files, !.i = j]
           go == [b EXCEPT !.files = files, !.pc = "insert", !.i = 1]
<1>1. /\ b.pc = "store" /\ UNCHANGED rows
      /\ \/ disk' = disk \cup {name} /\ UNCHANGED lost
         \/ lost' = lost \cup {name} /\ UNCHANGED disk
      /\ \/ b.i < Len(b.files) /\ Set(x, more)
         \/ ~(b.i < Len(b.files)) /\ Set(x, go)
  BY DEF Store
<1>2. /\ b \in BuildState /\ b.files \in Seq(FileObject)
      /\ b.i \in DOMAIN b.files
  <2>1. b \in BuildState /\ IteratorsValid(b)
    BY DEF IInv, Good
  <2> QED
    BY <1>1, <2>1 DEF BuildState, IteratorsValid
<1>3. name \in Nat /\ name = Cardinality(Written) + 1
  BY FS_CardinalityType DEF IInv, Written
<1>4. Written' = Written \cup {name}
  BY <1>1 DEF Written
<1>5. f \in FileObject /\ f.name = name /\ Pair(f) = Pair(b.files[b.i])
  <2>1. b.files[b.i] \in FileObject
    BY <1>2, ElementOf
  <2> QED
    BY <1>3, <2>1 DEF FileObject, Pair
<1> HIDE DEF f, name
<1>6. /\ files \in Seq(FileObject)
      /\ Len(files) = Len(b.files) /\ files[b.i] = f
      /\ \A k \in DOMAIN b.files \ {b.i} : files[k] = b.files[k]
  <2> DEFINE q == b.files
             i == b.i
  <2>1. q \in Seq(FileObject) /\ i \in DOMAIN q
    BY <1>2
  <2>2. files = ReplaceAt(q, i, f)
    OBVIOUS
  <2> HIDE DEF files, q, i
  <2>3. /\ ReplaceAt(q, i, f) \in Seq(FileObject)
        /\ Len(ReplaceAt(q, i, f)) = Len(q) /\ ReplaceAt(q, i, f)[i] = f
        /\ \A k \in DOMAIN q \ {i} : ReplaceAt(q, i, f)[k] = q[k]
    BY ONLY <1>5, <2>1, ReplaceFile, SMT
  <2> QED
    BY <2>2, <2>3 DEF q, i
<1>7. /\ more.pc = "store" /\ more.i = j /\ more.files = files
      /\ more.seen = b.seen
      /\ go.pc = "insert" /\ go.i = 1 /\ go.files = files
      /\ go.seen = b.seen
      /\ more.number = b.number /\ more.asked = b.asked
      /\ more.reqs = b.reqs /\ more.at = b.at /\ more.res = b.res
      /\ go.number = b.number /\ go.asked = b.asked
      /\ go.reqs = b.reqs /\ go.at = b.at /\ go.res = b.res
  BY <1>1, <1>2 DEF BuildState
<1>8. ~(b.i < Len(b.files)) => b.i = Len(b.files)
  BY <1>2
<1> HIDE DEF files, more, go
<1>9. CASE Set(x, more)
  BY <1>1, <1>2, <1>3, <1>4, <1>5, <1>6, <1>7, <1>9
<1>10. CASE ~(b.i < Len(b.files)) /\ Set(x, go)
  BY <1>1, <1>2, <1>3, <1>4, <1>5, <1>6, <1>7, <1>8, <1>10
<1> QED
  BY <1>1, <1>9, <1>10

LEMMA StoreSkips ==
  ASSUME IInv, SkipInv, NEW x \in Builder, Store(x)
  PROVE  SkipInv'
<1> DEFINE b == build[x]
<1>1. /\ b.pc = "store" /\ UNCHANGED rows
      /\ b.files \in Seq(FileObject) /\ b.i \in DOMAIN b.files
  BY StoreFields
<1>2. PICK c, files :
        /\ Set(x, c) /\ c.seen = b.seen /\ c.files = files
        /\ files \in Seq(FileObject) /\ Len(files) = Len(b.files)
        /\ Pair(files[b.i]) = Pair(b.files[b.i])
        /\ \A k \in DOMAIN b.files \ {b.i} : files[k] = b.files[k]
        /\ \/ c.pc = "store"
           \/ c.pc = "insert" /\ c.i = 1
  BY StoreFields
<1>3. Covered(b, rows)
  BY DEF SkipInv
<1> HIDE DEF b
<1>4. DOMAIN files = DOMAIN b.files /\ \A k \in DOMAIN files : k >= 1
  BY <1>1, <1>2
<1>5. \A k \in DOMAIN b.files : Pair(files[k]) = Pair(b.files[k])
  BY <1>2
<1>6. Covered(c, rows') /\ RowMade(c, rows')
  <2>1. ASSUME NEW p \in c.seen, ~Has(rows, p)
        PROVE  \E k \in DOMAIN files : Pair(files[k]) = p
    <3>1. PICK k \in DOMAIN b.files : Pair(b.files[k]) = p
      BY <1>1, <1>2, <1>3, <2>1 DEF Covered, Pending
    <3> QED
      BY <1>4, <1>5, <3>1
  <2> QED
    BY <1>1, <1>2, <1>4, <2>1 DEF Covered, Pending, RowMade
<1> QED
  BY <1>1, <1>2, <1>6, SameRows, SkipMove

LEMMA Going ==
  ASSUME NEW b \in BuildState, NEW pc \in Pc
  PROVE  LET c == [b EXCEPT !.pc = pc]
         IN  c.pc = pc /\ c.i = b.i /\ c.files = b.files /\ c.seen = b.seen
BY DEF BuildState

LEMMA InsertCheckSkips ==
  ASSUME IInv, SkipInv, NEW x \in Builder, InsertCheck(x)
  PROVE  SkipInv'
<1> DEFINE b == build[x]
           f == b.files[b.i]
           go == [b EXCEPT !.pc = "row"]
<1>1. /\ b.pc = "insert" /\ UNCHANGED rows
      /\ \/ Known(f.src, f.item) /\ Set(x, Inserted(b))
         \/ Set(x, go) \/ Set(x, Dropped(b))
  BY DEF InsertCheck
<1>2. b \in BuildState /\ b.i \in DOMAIN b.files /\ Covered(b, rows)
  BY <1>1 DEF IInv, Good, IteratorsValid, SkipInv
<1>3. Known(f.src, f.item) => Has(rows, Pair(f))
  BY DEF Known, Indexed, Has, Pair
<1>4. go.pc = "row" /\ go.i = b.i /\ go.files = b.files /\ go.seen = b.seen
  BY <1>2, Going DEF Pc
<1> HIDE DEF b, go
<1>5. Covered(go, rows) /\ RowMade(go, rows)
  BY <1>1, <1>2, <1>4 DEF Covered, Pending, RowMade
<1>6. Covered(Dropped(b), rows) /\ RowMade(Dropped(b), rows)
  BY <1>1, <1>2, DroppedCovered
<1>7. Known(f.src, f.item)
        => Covered(Inserted(b), rows) /\ RowMade(Inserted(b), rows)
  BY <1>1, <1>2, <1>3, InsertedCovered
<1> QED
  BY <1>1, <1>5, <1>6, <1>7, SameRows, SkipMove

LEMMA InsertRowSkips ==
  ASSUME IInv, SkipInv, NEW x \in Builder, InsertRow(x)
  PROVE  SkipInv'
<1> DEFINE b == build[x]
           f == b.files[b.i]
           row == [name |-> f.name, src |-> f.src,
                   item |-> f.item, tagged |-> FALSE]
           go == [b EXCEPT !.pc = "tag"]
<1>1. /\ b.pc = "row"
      /\ \/ rows' = rows \cup {row} /\ Set(x, go)
         \/ Set(x, Dropped(b)) /\ UNCHANGED rows
  BY DEF InsertRow
<1>2. b \in BuildState /\ b.i \in DOMAIN b.files /\ Covered(b, rows)
  BY <1>1 DEF IInv, Good, IteratorsValid, SkipInv
<1>3. go.pc = "tag" /\ go.i = b.i /\ go.files = b.files /\ go.seen = b.seen
  BY <1>2, Going DEF Pc
<1>4. Named(row, f)
  BY DEF Named
<1> HIDE DEF b, go, row
<1>5. CASE rows' = rows \cup {row} /\ Set(x, go)
  <2>1. Grown
    BY <1>5 DEF Grown
  <2>2. Covered(b, rows')
    BY <1>2, <2>1, GrownKeeps
  <2>3. Covered(go, rows') /\ RowMade(go, rows')
    BY <1>1, <1>3, <1>4, <1>5, <2>2 DEF Covered, Pending, RowMade
  <2> QED
    BY <1>5, <2>1, <2>3, SkipMove
<1>6. CASE Set(x, Dropped(b)) /\ UNCHANGED rows
  BY <1>1, <1>2, <1>6, DroppedCovered, SameRows, SkipMove
<1> QED
  BY <1>1, <1>5, <1>6

\* The row that is tagged puts its file into the index.
LEMMA InsertTagsSkips ==
  ASSUME IInv, SkipInv, NEW x \in Builder, InsertTags(x)
  PROVE  SkipInv'
<1> DEFINE b == build[x]
           f == b.files[b.i]
           Tagged(r) == IF r.name = f.name THEN [r EXCEPT !.tagged = TRUE]
                                           ELSE r
           tagging == rows' = {Tagged(r) : r \in rows}
<1>1. /\ b.pc = "tag"
      /\ \/ tagging /\ Set(x, Inserted(b))
         \/ (tagging \/ UNCHANGED rows) /\ Set(x, Dropped(b))
  BY DEF InsertTags
<1>2. /\ b \in BuildState /\ b.i \in DOMAIN b.files /\ Covered(b, rows)
      /\ RowMade(b, rows)
  BY <1>1 DEF IInv, Good, IteratorsValid, SkipInv
<1>3. \A r \in rows :
        /\ Tagged(r).name = r.name /\ Tagged(r).src = r.src
        /\ Tagged(r).item = r.item
        /\ r.tagged => Tagged(r).tagged
        /\ r.name = f.name => Tagged(r).tagged
  <2>1. rows \subseteq [name : Nat, src : Api, item : Item, tagged : BOOLEAN]
    BY DEF IInv, TypeOK
  <2> QED
    BY <2>1
<1> HIDE DEF b, Tagged
<1>4. tagging \/ UNCHANGED rows => Grown
  BY <1>3 DEF Grown
<1>5. tagging => Has(rows', Pair(f))
  <2>1. PICK r \in rows : Named(r, f)
    BY <1>1, <1>2 DEF RowMade
  <2> QED
    BY <1>3, <2>1 DEF Has, Pair, Named
<1>6. Grown => Covered(b, rows')
  BY <1>2, GrownKeeps
<1> HIDE DEF tagging
<1>7. CASE tagging /\ Set(x, Inserted(b))
  BY <1>1, <1>2, <1>4, <1>5, <1>6, <1>7, InsertedCovered, SkipMove
<1>8. CASE (tagging \/ UNCHANGED rows) /\ Set(x, Dropped(b))
  BY <1>1, <1>2, <1>4, <1>6, <1>8, DroppedCovered, SkipMove
<1> QED
  BY <1>1, <1>7, <1>8

\* The looks at the database, before the files are stored and again before
\* they are inserted, leave out nothing that is not in the index, whatever
\* other builds do in between, and whatever fails or dies.
THEOREM NothingIsSkipped == Spec => []NothingSkipped
<1>1. Init => SkipInv
  <2> SUFFICES ASSUME Init, NEW x \in Builder
               PROVE  Covered(build[x], rows) /\ RowMade(build[x], rows)
    BY DEF SkipInv
  <2>1. build[x].pc = "idle" /\ build[x].seen = {}
    BY DEF Init, Idle
  <2> QED
    BY <2>1, DoneCovered
<1>2. IInv /\ SkipInv /\ [Next]_vars => SkipInv'
  <2> SUFFICES ASSUME IInv, SkipInv, [Next]_vars PROVE SkipInv'
    OBVIOUS
  <2>1. CASE UNCHANGED vars
    BY <2>1 DEF vars, SkipInv
  <2>2. ASSUME NEW x \in Builder, Step(x) PROVE SkipInv'
    BY <2>2, QuerySkips, CheckSkips, StoreSkips, InsertCheckSkips,
       InsertRowSkips, InsertTagsSkips, EndRoundSkips DEF Step
  <2>3. ASSUME NEW x \in Builder, Start(x) \/ Abort(x) \/ Crash(x)
        PROVE  SkipInv'
    BY <2>3, StartSkips
  <2> QED
    BY <2>1, <2>2, <2>3 DEF Next
<1>3. SkipInv => NothingSkipped
  BY DEF SkipInv, NothingSkipped, Covered, Pending, Has, Indexed
<1> QED
  BY <1>1, <1>2, <1>3, Invariant, PTL DEF Spec

(***************************************************************************)
(* No duplicates, with one builder: nobody inserts a file between its look *)
(* for the id and its rows.  That the tags go to the new row only rests on *)
(* the names: a file is stored under a name nobody has, and no file that   *)
(* is still to be inserted shares its name with a row or with another.     *)
(***************************************************************************)
OneBuilder == \E x : Builder = {x}

Taken(index) == {r.name : r \in index}

\* The files from the n-th on have names of their own.
Apart(files, n, index) ==
  \A k \in DOMAIN files : k >= n =>
    /\ files[k].name \notin Taken(index)
    /\ \A m \in DOMAIN files : m >= n /\ files[m].name = files[k].name => m = k

\* The same of the files before the n-th, which have just been written.
StoredApart(files, n, index, written) ==
  \A k \in DOMAIN files : k < n =>
    /\ files[k].name \in written \ Taken(index)
    /\ \A m \in DOMAIN files : m < n /\ files[m].name = files[k].name => m = k

NamesAt(b, index, written) ==
  /\ b.pc = "store" => StoredApart(b.files, b.i, index, written)
  /\ b.pc \in {"insert", "row"} => Apart(b.files, b.i, index)
  /\ b.pc = "tag" =>
       /\ Apart(b.files, b.i + 1, index)
       /\ \A k \in DOMAIN b.files :
            k > b.i => b.files[k].name # b.files[b.i].name
       /\ \A r \in index :
            r.name = b.files[b.i].name => Named(r, b.files[b.i]) /\ ~r.tagged

\* The look for the id has found nothing, and nothing has come since.
Unknown(b, index) ==
  b.pc \in {"row", "tag"} =>
    b.files[b.i].item \in Anonymous \/ ~Has(index, Pair(b.files[b.i]))

DupInv ==
  /\ Written = 1..Cardinality(Written)
  /\ NoDuplicates
  /\ \A x \in Builder : NamesAt(build[x], rows, Written) /\ Unknown(build[x], rows)

LEMMA DupMove ==
  ASSUME IInv, OneBuilder, NEW x \in Builder, NEW c, Set(x, c),
         (Written = 1..Cardinality(Written))', NoDuplicates',
         NamesAt(c, rows', Written'), Unknown(c, rows')
  PROVE  DupInv'
<1>1. \A y \in Builder : build'[y] = c
  BY DEF OneBuilder, Set, IInv, TypeOK
<1>2. \A y \in Builder : NamesAt(build'[y], rows', Written')
                         /\ Unknown(build'[y], rows')
  BY <1>1
<1> QED
  BY <1>2 DEF DupInv

\* The build moves, the tables and the files do not.
LEMMA DupFrame ==
  ASSUME IInv, OneBuilder, DupInv, NEW x \in Builder, NEW c, Set(x, c),
         UNCHANGED <<rows, disk, lost>>,
         NamesAt(c, rows, Written), Unknown(c, rows)
  PROVE  DupInv'
<1>1. Written' = Written /\ rows' = rows
  BY DEF Written
<1>2. (Written = 1..Cardinality(Written))' /\ NoDuplicates'
  BY <1>1 DEF DupInv, NoDuplicates
<1> QED
  BY <1>1, <1>2, DupMove

LEMMA NoNames ==
  ASSUME NEW b, b.pc \in {"idle", "query", "check"}, NEW index, NEW written
  PROVE  NamesAt(b, index, written) /\ Unknown(b, index)
BY DEF NamesAt, Unknown

LEMMA InsertedNames ==
  ASSUME NEW b \in BuildState, b.i \in DOMAIN b.files, NEW index, NEW written,
         Apart(b.files, b.i + 1, index)
  PROVE  NamesAt(Inserted(b), index, written) /\ Unknown(Inserted(b), index)
<1> DEFINE c == Inserted(b)
<1>1. \/ c.pc = "query"
      \/ c.pc = "insert" /\ c.i = b.i + 1 /\ c.files = b.files
  BY InsertedFields
<1> HIDE DEF c
<1>2. NamesAt(c, index, written) /\ Unknown(c, index)
  BY <1>1 DEF NamesAt, Unknown
<1> QED
  BY <1>2 DEF c

LEMMA DroppedNames ==
  ASSUME NEW b \in BuildState, b.i \in DOMAIN b.files, NEW index, NEW written,
         Apart(b.files, b.i + 1, index)
  PROVE  NamesAt(Dropped(b), index, written) /\ Unknown(Dropped(b), index)
<1> DEFINE c == Dropped(b)
           left == RemoveAt(b.files, b.i)
<1>1. \/ c.pc = "query"
      \/ c.pc = "insert" /\ c.i = b.i /\ c.files = left
  BY DroppedFields
<1>2. b.files \in Seq(FileObject) /\ b.i \in Nat
  BY DEF BuildState
<1>3. /\ left \in Seq(FileObject)
      /\ \A k \in DOMAIN left : k >= b.i => /\ left[k] = b.files[k + 1]
                                            /\ k + 1 \in DOMAIN b.files
  BY <1>2, EraseList
<1> HIDE DEF c, left
<1>4. Apart(left, b.i, index)
  <2> SUFFICES ASSUME NEW k \in DOMAIN left, k >= b.i
               PROVE  /\ left[k].name \notin Taken(index)
                      /\ \A m \in DOMAIN left :
                           m >= b.i /\ left[m].name = left[k].name => m = k
    BY DEF Apart
  <2>1. DOMAIN left \subseteq Nat
    BY <1>3
  <2>2. \A m \in DOMAIN left : m >= b.i =>
          /\ left[m] = b.files[m + 1] /\ m + 1 \in DOMAIN b.files
          /\ m + 1 >= b.i + 1
    BY <1>2, <1>3, <2>1
  <2>3. left[k].name \notin Taken(index)
    BY <2>2 DEF Apart
  <2>4. ASSUME NEW m \in DOMAIN left, m >= b.i, left[m].name = left[k].name
        PROVE  m = k
    <3>1. m + 1 = k + 1
      BY <2>2, <2>4 DEF Apart
    <3> QED
      BY <2>1, <3>1
  <2> QED
    BY <2>3, <2>4
<1>5. NamesAt(c, index, written) /\ Unknown(c, index)
  BY <1>1, <1>4 DEF NamesAt, Unknown
<1> QED
  BY <1>5 DEF c

\* Fewer files have names of their own, too.
LEMMA ApartRest ==
  ASSUME NEW files \in Seq(FileObject), NEW n \in Nat, NEW index,
         Apart(files, n, index)
  PROVE  Apart(files, n + 1, index)
<1>1. \A k \in DOMAIN files : k >= n + 1 => k >= n
  OBVIOUS
<1> QED
  BY <1>1 DEF Apart

LEMMA CheckDups ==
  ASSUME IInv, OneBuilder, DupInv, NEW x \in Builder, Check(x)
  PROVE  DupInv'
<1> DEFINE b == build[x]
           f == b.found[b.i]
           files == IF Known(f.src, f.item) THEN b.files ELSE Append(b.files, f)
           more == [b EXCEPT !.files = files, !.i = b.i + 1]
           go == [b EXCEPT !.pc = "store", !.files = files, !.i = 1]
<1>1. /\ b.pc = "check" /\ UNCHANGED <<rows, disk, lost>>
      /\ Set(x, more) \/ Set(x, NextRequest(b)) \/ Set(x, go)
  BY DEF Check
<1>2. /\ b \in BuildState /\ b.found \in Seq(FileObject)
      /\ b.files \in Seq(FileObject) /\ b.i \in DOMAIN b.found
  <2>1. Good(b, Written)
    BY DEF IInv
  <2> QED
    BY <1>1, <2>1 DEF Good, IteratorsValid, BuildState
<1>3. files \in Seq(FileObject)
  <2>1. f \in FileObject
    BY <1>2, ElementOf
  <2> QED
    BY <1>2, <2>1
<1>4. more.pc = "check" /\ go.pc = "store" /\ go.i = 1 /\ go.files = files
  BY <1>1, <1>2 DEF BuildState
<1> HIDE DEF b, files, more, go
<1>5. \A k \in DOMAIN files : ~(k < 1)
  BY <1>3
<1>6. NamesAt(go, rows, Written) /\ Unknown(go, rows)
  BY <1>4, <1>5 DEF NamesAt, StoredApart, Unknown
<1>7. /\ NamesAt(more, rows, Written) /\ Unknown(more, rows)
      /\ NamesAt(NextRequest(b), rows, Written) /\ Unknown(NextRequest(b), rows)
  BY <1>2, <1>4, NextFields, NoNames
<1> QED
  BY <1>1, <1>6, <1>7, DupFrame

\* A file is stored under the first name that was never used.
LEMMA StoreDups ==
  ASSUME IInv, OneBuilder, DupInv, NEW x \in Builder, Store(x)
  PROVE  DupInv'
<1> DEFINE b == build[x]
           n == Cardinality(Written)
           name == n + 1
<1>1. /\ b.pc = "store" /\ UNCHANGED rows
      /\ b.files \in Seq(FileObject) /\ b.i \in DOMAIN b.files
      /\ Written' = Written \cup {name}
  BY StoreFields
<1>2. PICK c, files :
        /\ Set(x, c) /\ c.files = files
        /\ files \in Seq(FileObject) /\ Len(files) = Len(b.files)
        /\ files[b.i].name = name
        /\ \A k \in DOMAIN b.files \ {b.i} : files[k] = b.files[k]
        /\ \/ c.pc = "store" /\ c.i = b.i + 1
           \/ c.pc = "insert" /\ c.i = 1 /\ b.i = Len(b.files)
  BY StoreFields
<1>3. n \in Nat /\ Written = 1..n
  BY FS_CardinalityType DEF IInv, DupInv
<1>4. (Written = 1..Cardinality(Written))'
  <2>1. Written' = 1..(n + 1)
    BY <1>1, <1>3
  <2>2. Cardinality(1..(n + 1)) = n + 1
    BY <1>3, FS_Interval
  <2> QED
    BY <2>1, <2>2
<1>5. Taken(rows) \subseteq Written /\ rows' = rows
  BY <1>1 DEF IInv, IndexedIsStored, Taken, Written
<1>6. name \notin Written
  BY <1>3
<1>7. StoredApart(b.files, b.i, rows, Written)
  BY <1>1 DEF DupInv, NamesAt
<1> HIDE DEF b, n, name
<1>8. DOMAIN files = DOMAIN b.files /\ DOMAIN files \subseteq Nat /\ b.i \in Nat
  BY <1>1, <1>2
<1>9. StoredApart(files, b.i + 1, rows, Written')
  <2> SUFFICES ASSUME NEW k \in DOMAIN files, k < b.i + 1
               PROVE  /\ files[k].name \in Written' \ Taken(rows)
                      /\ \A m \in DOMAIN files :
                           m < b.i + 1 /\ files[m].name = files[k].name => m = k
    BY DEF StoredApart
  <2>1. \A m \in DOMAIN files : m < b.i + 1 =>
          \/ m = b.i /\ files[m].name = name
          \/ /\ m < b.i /\ files[m] = b.files[m] /\ files[m].name # name
             /\ files[m].name \in Written \ Taken(rows)
    <3> TAKE m \in DOMAIN files
    <3> SUFFICES ASSUME m < b.i + 1, m # b.i
                 PROVE  /\ m < b.i /\ files[m] = b.files[m]
                        /\ files[m].name # name
                        /\ files[m].name \in Written \ Taken(rows)
      BY <1>2
    <3>1. m < b.i /\ m \in DOMAIN b.files \ {b.i}
      BY <1>8
    <3>2. files[m] = b.files[m]
      BY <1>2, <3>1
    <3>3. files[m].name \in Written \ Taken(rows)
      BY <1>7, <3>1, <3>2 DEF StoredApart
    <3>4. files[m].name # name
      BY <1>6, <3>3
    <3> QED
      BY <3>1, <3>2, <3>3, <3>4
  <2>2. files[k].name \in Written' \ Taken(rows)
    BY <1>1, <1>5, <1>6, <2>1
  <2>3. ASSUME NEW m \in DOMAIN files, m < b.i + 1,
               files[m].name = files[k].name
        PROVE  m = k
    <3>0. \A j \in DOMAIN files :
            j < b.i + 1 => (files[j].name = name <=> j = b.i)
      BY <1>8, <2>1
    <3>1. CASE m = b.i \/ k = b.i
      <4>1. files[m].name = name <=> m = b.i
        BY <2>3, <3>0
      <4>2. files[k].name = name <=> k = b.i
        BY <3>0
      <4> QED
        BY <2>3, <3>1, <4>1, <4>2
    <3>2. CASE m # b.i /\ k # b.i
      <4>1. /\ m < b.i /\ k < b.i
            /\ b.files[m].name = b.files[k].name
        BY <2>1, <2>3, <3>2
      <4> QED
        BY <1>7, <1>8, <4>1 DEF StoredApart
    <3> QED
      BY <3>1, <3>2
  <2> QED
    BY <2>2, <2>3
<1>10. NamesAt(c, rows', Written') /\ Unknown(c, rows')
  <2>1. CASE c.pc = "store" /\ c.i = b.i + 1
    BY <1>2, <1>5, <1>9, <2>1 DEF NamesAt, Unknown
  <2>2. CASE c.pc = "insert" /\ c.i = 1 /\ b.i = Len(b.files)
    <3>1. \A k \in DOMAIN files : k < b.i + 1 /\ k >= 1
      BY <1>2, <2>2
    <3>2. Apart(files, 1, rows)
      BY <1>9, <3>1 DEF StoredApart, Apart
    <3> QED
      BY <1>2, <1>5, <2>2, <3>2 DEF NamesAt, Unknown
  <2> QED
    BY <1>2, <2>1, <2>2
<1>11. NoDuplicates'
  BY <1>5 DEF DupInv, NoDuplicates
<1> QED
  BY <1>2, <1>4, <1>10, <1>11, DupMove

LEMMA InsertCheckDups ==
  ASSUME IInv, OneBuilder, DupInv, NEW x \in Builder, InsertCheck(x)
  PROVE  DupInv'
<1> DEFINE b == build[x]
           f == b.files[b.i]
           go == [b EXCEPT !.pc = "row"]
<1>1. /\ b.pc = "insert" /\ UNCHANGED <<rows, disk, lost>>
      /\ \/ Set(x, Inserted(b)) \/ Set(x, Dropped(b))
         \/ ~Known(f.src, f.item) /\ Set(x, go)
  BY DEF InsertCheck
<1>2. /\ b \in BuildState /\ b.i \in DOMAIN b.files /\ b.i \in Nat
      /\ b.files \in Seq(FileObject)
  <2>1. Good(b, Written)
    BY DEF IInv
  <2> QED
    BY <1>1, <2>1 DEF Good, IteratorsValid, BuildState
<1>3. Apart(b.files, b.i, rows)
  BY <1>1 DEF DupInv, NamesAt
<1>4. ~Known(f.src, f.item) => f.item \in Anonymous \/ ~Has(rows, Pair(f))
  BY DEF Known, Indexed, Has, Pair
<1>5. go.pc = "row" /\ go.i = b.i /\ go.files = b.files
  BY <1>2, Going DEF Pc
<1> HIDE DEF b, go
<1>6. ~Known(f.src, f.item) => NamesAt(go, rows, Written) /\ Unknown(go, rows)
  BY <1>3, <1>4, <1>5 DEF NamesAt, Unknown
<1>7. Apart(b.files, b.i + 1, rows)
  BY <1>2, <1>3, ApartRest
<1>8. /\ NamesAt(Inserted(b), rows, Written) /\ Unknown(Inserted(b), rows)
      /\ NamesAt(Dropped(b), rows, Written) /\ Unknown(Dropped(b), rows)
  BY <1>2, <1>7, InsertedNames, DroppedNames
<1> QED
  BY <1>1, <1>6, <1>8, DupFrame

LEMMA InsertRowDups ==
  ASSUME IInv, OneBuilder, DupInv, NEW x \in Builder, InsertRow(x)
  PROVE  DupInv'
<1> DEFINE b == build[x]
           f == b.files[b.i]
           row == [name |-> f.name, src |-> f.src,
                   item |-> f.item, tagged |-> FALSE]
           go == [b EXCEPT !.pc = "tag"]
<1>1. /\ b.pc = "row" /\ UNCHANGED <<disk, lost>>
      /\ \/ rows' = rows \cup {row} /\ Set(x, go)
         \/ Set(x, Dropped(b)) /\ UNCHANGED rows
  BY DEF InsertRow
<1>2. /\ b \in BuildState /\ b.i \in DOMAIN b.files /\ b.i \in Nat
      /\ b.files \in Seq(FileObject)
  <2>1. Good(b, Written)
    BY DEF IInv
  <2> QED
    BY <1>1, <2>1 DEF Good, IteratorsValid, BuildState
<1>3. Apart(b.files, b.i, rows) /\ Unknown(b, rows)
  BY <1>1 DEF DupInv, NamesAt
<1>4. go.pc = "tag" /\ go.i = b.i /\ go.files = b.files
  BY <1>2, Going DEF Pc
<1>5. row.name = f.name /\ Named(row, f) /\ ~row.tagged
  BY DEF Named
<1> HIDE DEF b, go, row
<1>6. CASE rows' = rows \cup {row} /\ Set(x, go)
  <2>1. Taken(rows') = Taken(rows) \cup {f.name}
    BY <1>5, <1>6 DEF Taken
  <2>2. \A p : Has(rows', p) <=> Has(rows, p)
    BY <1>5, <1>6 DEF Has
  <2>3. NoDuplicates'
    BY <1>5, <1>6 DEF DupInv, NoDuplicates
  <2>4. \A k \in DOMAIN b.files :
          k > b.i => b.files[k].name # b.files[b.i].name
    BY <1>2, <1>3 DEF Apart
  <2>5. Apart(b.files, b.i + 1, rows')
    <3>1. Apart(b.files, b.i + 1, rows)
      BY <1>2, <1>3, ApartRest
    <3>2. \A k \in DOMAIN b.files : k >= b.i + 1 => k > b.i
      BY <1>2
    <3> QED
      BY <2>1, <2>4, <3>1, <3>2 DEF Apart
  <2>6. \A r \in rows' : r.name = f.name => Named(r, f) /\ ~r.tagged
    <3>1. f.name \notin Taken(rows)
      BY <1>2, <1>3 DEF Apart
    <3> QED
      BY <1>5, <1>6, <3>1 DEF Taken
  <2>7. NamesAt(go, rows', Written')
    BY <1>4, <2>4, <2>5, <2>6 DEF NamesAt
  <2>8. Unknown(go, rows')
    BY <1>1, <1>3, <1>4, <2>2 DEF Unknown
  <2>9. (Written = 1..Cardinality(Written))'
    BY <1>1 DEF DupInv, Written
  <2> QED
    BY <1>6, <2>3, <2>7, <2>8, <2>9, DupMove
<1>7. CASE Set(x, Dropped(b)) /\ UNCHANGED rows
  <2>1. Apart(b.files, b.i + 1, rows)
    BY <1>2, <1>3, ApartRest
  <2>2. NamesAt(Dropped(b), rows, Written) /\ Unknown(Dropped(b), rows)
    BY <1>2, <2>1, DroppedNames
  <2> QED
    BY <1>1, <1>7, <2>2, DupFrame
<1> QED
  BY <1>1, <1>6, <1>7

\* Only the new row is tagged, and no tagged row has its id.
LEMMA InsertTagsDups ==
  ASSUME IInv, OneBuilder, DupInv, NEW x \in Builder, InsertTags(x)
  PROVE  DupInv'
<1> DEFINE b == build[x]
           f == b.files[b.i]
           Tagged(r) == IF r.name = f.name THEN [r EXCEPT !.tagged = TRUE]
                                           ELSE r
           tagging == rows' = {Tagged(r) : r \in rows}
<1>1. /\ b.pc = "tag" /\ UNCHANGED <<disk, lost>>
      /\ tagging \/ UNCHANGED rows
      /\ Set(x, Inserted(b)) \/ Set(x, Dropped(b))
  BY DEF InsertTags
<1>2. b \in BuildState /\ b.i \in DOMAIN b.files
  BY <1>1 DEF IInv, Good, IteratorsValid
<1>3. /\ Apart(b.files, b.i + 1, rows)
      /\ \A r \in rows : r.name = f.name => Named(r, f) /\ ~r.tagged
      /\ f.item \in Anonymous \/ ~Has(rows, Pair(f))
  BY <1>1 DEF DupInv, NamesAt, Unknown
<1>4. rows \subseteq [name : Nat, src : Api, item : Item, tagged : BOOLEAN]
  BY DEF IInv, TypeOK
<1>5. \A r \in rows :
        /\ Tagged(r).name = r.name /\ Tagged(r).src = r.src
        /\ Tagged(r).item = r.item
        /\ r.name # f.name => Tagged(r) = r
  BY <1>4
<1>6. \A q, r \in rows : q.name = f.name /\ r.name = f.name => q = r
  <2> SUFFICES ASSUME NEW q \in rows, NEW r \in rows,
                      q.name = f.name, r.name = f.name
               PROVE  q = r
    OBVIOUS
  <2>1. /\ q.name = r.name /\ q.src = r.src /\ q.item = r.item
        /\ q.tagged = FALSE /\ r.tagged = FALSE
    BY <1>3, <1>4 DEF Named
  <2> QED
    BY <1>4, <2>1
<1> HIDE DEF b, Tagged
<1>7. ASSUME tagging PROVE NoDuplicates' /\ Taken(rows') = Taken(rows)
  <2>1. Taken(rows') = Taken(rows)
    BY <1>5, <1>7 DEF Taken
  <2>2. NoDuplicates'
    <3> SUFFICES ASSUME NEW q \in rows, NEW r \in rows,
                        Tagged(q).tagged, Tagged(r).tagged,
                        q.src = r.src, q.item = r.item, q.item \notin Anonymous
                 PROVE  q = r
      BY <1>5, <1>7 DEF NoDuplicates
    <3>1. CASE q.name = f.name /\ r.name = f.name
      BY <1>6, <3>1
    <3>2. CASE q.name # f.name /\ r.name # f.name
      <4>1. q.tagged /\ r.tagged
        BY <1>5, <3>2
      <4> QED
        BY <4>1 DEF DupInv, NoDuplicates
    <3>3. CASE q.name = f.name /\ r.name # f.name
      <4>1. r.tagged /\ r.src = f.src /\ r.item = f.item
        BY <1>3, <1>5, <3>3 DEF Named
      <4> QED
        BY <1>3, <4>1 DEF Has, Pair
    <3>4. CASE q.name # f.name /\ r.name = f.name
      <4>1. q.tagged /\ q.src = f.src /\ q.item = f.item
        BY <1>3, <1>5, <3>4 DEF Named
      <4> QED
        BY <1>3, <4>1 DEF Has, Pair
    <3> QED
      BY <3>1, <3>2, <3>3, <3>4
  <2> QED
    BY <2>1, <2>2
<1>8. NoDuplicates' /\ Taken(rows') = Taken(rows)
  <2>1. CASE UNCHANGED rows
    BY <2>1 DEF DupInv, NoDuplicates, Taken
  <2> QED
    BY <1>1, <1>7, <2>1
<1>9. Apart(b.files, b.i + 1, rows')
  BY <1>3, <1>8 DEF Apart
<1>10. /\ NamesAt(Inserted(b), rows', Written') /\ Unknown(Inserted(b), rows')
       /\ NamesAt(Dropped(b), rows', Written') /\ Unknown(Dropped(b), rows')
  BY <1>2, <1>9, InsertedNames, DroppedNames
<1>11. (Written = 1..Cardinality(Written))'
  BY <1>1 DEF DupInv, Written
<1> QED
  BY <1>1, <1>8, <1>10, <1>11, DupMove

\* The steps after which there is no list of files to insert.
LEMMA OtherDups ==
  ASSUME IInv, OneBuilder, DupInv, NEW x \in Builder,
         Start(x) \/ Abort(x) \/ Crash(x) \/ Query(x) \/ EndRound(x)
  PROVE  DupInv'
<1>1. UNCHANGED <<rows, disk, lost>>
  BY DEF Start, Abort, Crash, Query, EndRound
<1>2. \E c : Set(x, c) /\ c.pc \in {"idle", "query", "check"}
  <2>1. ASSUME NEW c, Set(x, c), c.pc \in {"idle", "query"}
        PROVE  \E d : Set(x, d) /\ d.pc \in {"idle", "query", "check"}
    BY <2>1
  <2>2. CASE Start(x)
    <3>1. PICK n, reqs : Set(x, [Idle EXCEPT !.pc = "query", !.number = n,
                                             !.reqs = reqs, !.asked = reqs])
      BY <2>2 DEF Start
    <3> DEFINE c == [Idle EXCEPT !.pc = "query", !.number = n,
                                 !.reqs = reqs, !.asked = reqs]
    <3>2. Set(x, c) /\ c.pc = "query"
      BY <3>1 DEF Idle
    <3> HIDE DEF c
    <3> QED
      BY <2>1, <3>2
  <2>3. CASE Abort(x)
    <3> DEFINE c == [Idle EXCEPT !.res = build[x].res, !.clean = FALSE]
    <3>1. Set(x, c) /\ c.pc = "idle"
      BY <2>3 DEF Abort, Idle
    <3> HIDE DEF c
    <3> QED
      BY <2>1, <3>1
  <2>4. CASE Crash(x)
    <3> DEFINE c == [Idle EXCEPT !.clean = FALSE]
    <3>1. Set(x, c) /\ c.pc = "idle"
      BY <2>4 DEF Crash, Idle
    <3> HIDE DEF c
    <3> QED
      BY <2>1, <3>1
  <2>5. CASE Query(x)
    BY <2>5, QueryMoves DEF Looks
  <2>6. CASE EndRound(x)
    <3> DEFINE b == build[x]
               round == IF b.round < MaxRound THEN b.round + 1 ELSE b.round
               more == [b EXCEPT !.at = 1, !.round = round]
               done == [b EXCEPT !.pc = "idle"]
    <3>1. (Set(x, more) \/ Set(x, done)) /\ b.pc = "query"
      BY <2>6 DEF EndRound
    <3>2. b \in BuildState
      BY DEF IInv, Good
    <3>3. more.pc = "query" /\ done.pc = "idle"
      BY <3>1, <3>2 DEF BuildState
    <3> HIDE DEF b, more, done
    <3> QED
      BY <2>1, <3>1, <3>3
  <2> QED
    BY <2>2, <2>3, <2>4, <2>5, <2>6
<1>3. PICK c : Set(x, c) /\ c.pc \in {"idle", "query", "check"}
  BY <1>2
<1> QED
  BY <1>1, <1>3, NoNames, DupFrame

\* File::api_id_exists and File::insert: with one builder no id of an API is
\* in the index twice, whatever twins a page lists and whatever throws or dies
\* between the row and its tags.
THEOREM NoIdTwice ==
  ASSUME OneBuilder
  PROVE  Spec => []NoDuplicates
<1>1. Init => DupInv
  <2> SUFFICES ASSUME Init PROVE DupInv
    OBVIOUS
  <2>1. Written = {} /\ Cardinality({}) = 0
    BY FS_EmptySet DEF Init, Written
  <2>2. Written = 1..Cardinality(Written)
    BY <2>1
  <2>3. \A x \in Builder : build[x].pc = "idle"
    BY DEF Init, Idle
  <2> QED
    BY <2>2, <2>3, NoNames DEF DupInv, NoDuplicates, Init
<1>2. IInv /\ DupInv /\ [Next]_vars => DupInv'
  <2> SUFFICES ASSUME IInv, DupInv, [Next]_vars PROVE DupInv'
    OBVIOUS
  <2>1. CASE UNCHANGED vars
    BY <2>1 DEF vars, DupInv, NoDuplicates, Written
  <2>2. ASSUME NEW x \in Builder, Step(x) \/ Start(x) \/ Abort(x) \/ Crash(x)
        PROVE  DupInv'
    BY <2>2, CheckDups, StoreDups, InsertCheckDups, InsertRowDups,
       InsertTagsDups, OtherDups DEF Step
  <2> QED
    BY <2>1, <2>2 DEF Next
<1>3. DupInv => NoDuplicates
  BY DEF DupInv
<1> QED
  BY <1>1, <1>2, <1>3, Invariant, PTL DEF Spec

(***************************************************************************)
(* Around the number.  A request brings at most as many items as its API   *)
(* has places, and what a round has gathered and may still gather, from    *)
(* the requests before it, is less than the number and one round.  The     *)
(* requests that are left never have more places than those asked for:     *)
(* some are erased, and only their pages change.                           *)
(***************************************************************************)
Room(reqs, k) == Cardinality(PlacesFrom(reqs, k))

\* What the build has gathered in this round and not put into its result.
Gathered(b) ==
  CASE b.pc = "query" -> 0
    [] b.pc = "check" -> Len(b.files) + (Len(b.found) + 1 - b.i)
    [] OTHER -> Len(b.files)

Around(b) ==
  b.number > 0 =>
    /\ Len(b.res) < b.number + Room(b.asked, 1)
    /\ b.pc = "query" => b.files = <<>>
    /\ b.pc # "idle" =>
         /\ Room(b.reqs, 1) <= Room(b.asked, 1)
         /\ Len(b.res) + Gathered(b)
              + Room(b.reqs, IF b.pc = "query" THEN b.at ELSE b.at + 1)
            < b.number + Room(b.asked, 1)

AroundInv == \A x \in Builder : Around(build[x])

LEMMA CatalogTyped ==
  ASSUME NEW a \in Api
  PROVE  /\ Catalog[a] \in Seq(Seq(Item))
         /\ IsFiniteSet(DOMAIN Catalog[a])
         /\ \A p \in DOMAIN Catalog[a] :
              Catalog[a][p] \in Seq(Item) /\ IsFiniteSet(DOMAIN Catalog[a][p])
<1>1. Catalog[a] \in Seq(Seq(Item))
  BY BuildAssumption
<1>2. ASSUME NEW T, NEW s \in Seq(T)
      PROVE  IsFiniteSet(DOMAIN s)
  <2>1. DOMAIN s = 1..Len(s) /\ Len(s) \in Int
    OBVIOUS
  <2> QED
    BY <2>1, FS_Interval
<1>3. \A p \in DOMAIN Catalog[a] : Catalog[a][p] \in Seq(Item)
  BY <1>1, ElementOf
<1> QED
  BY <1>1, <1>2, <1>3

\* An API has finitely many places, and no listing of it has more items.
LEMMA PlacesBound ==
  ASSUME NEW a \in Api
  PROVE  /\ IsFiniteSet(Places(a)) /\ Cardinality(Places(a)) \in Nat
         /\ \A p : Len(Listing(a, p)) <= Cardinality(Places(a))
<1> DEFINE P == DOMAIN Catalog[a]
           f == [p \in P |-> DOMAIN Catalog[a][p]]
           S == {DOMAIN Catalog[a][p] : p \in P}
<1>1. IsFiniteSet(P) /\ \A T \in S : IsFiniteSet(T)
  BY CatalogTyped
<1>2. f \in Surjection(P, S)
  BY DEF Surjection
<1> HIDE DEF P, S, f
<1>3. IsFiniteSet(S)
  BY <1>1, <1>2, FS_Surjection
<1>4. IsFiniteSet(Places(a))
  BY <1>1, <1>3, FS_UNION DEF Places, S, P
<1>5. Cardinality(Places(a)) \in Nat
  BY <1>4, FS_CardinalityType
<1>6. ASSUME NEW p PROVE Len(Listing(a, p)) <= Cardinality(Places(a))
  <2> DEFINE listing == Listing(a, p)
  <2>1. listing = <<>> \/ \E q \in DOMAIN Catalog[a] : listing = Catalog[a][q]
    BY DEF Listing
  <2>2. CASE listing = <<>>
    BY <1>5, <2>2
  <2>3. CASE \E q \in DOMAIN Catalog[a] : listing = Catalog[a][q]
    <3>1. PICK q \in DOMAIN Catalog[a] : listing = Catalog[a][q]
      BY <2>3
    <3>2. listing \in Seq(Item) /\ DOMAIN listing \subseteq Places(a)
      BY <3>1, CatalogTyped DEF Places
    <3> HIDE DEF listing
    <3>3. 1..Len(listing) \subseteq Places(a) /\ Len(listing) \in Nat
      BY <3>2
    <3>4. Cardinality(1..Len(listing)) = Len(listing)
      <4>1. ASSUME NEW n \in Nat PROVE Cardinality(1..n) = n
        BY FS_Interval
      <4> QED
        BY <3>3, <4>1
    <3>5. Cardinality(1..Len(listing)) <= Cardinality(Places(a))
      BY <1>4, <3>3, FS_Subset
    <3> QED
      BY <3>4, <3>5 DEF listing
  <2> QED
    BY <2>1, <2>2, <2>3
<1> QED
  BY <1>4, <1>5, <1>6

LEMMA RequestTyped ==
  ASSUME NEW s \in RequestList
  PROVE  /\ Len(s) \in Nat /\ DOMAIN s = 1..Len(s)
         /\ \A j \in 1..Len(s) : s[j] \in [api : Api, page : Nat]
<1>1. s \in Seq([api : Api, page : Nat])
  BY DEF RequestList
<1>2. Len(s) \in Nat /\ DOMAIN s = 1..Len(s)
  BY <1>1, PlaceIn
<1> QED
  BY <1>1, <1>2, ElementOf

\* The room of a list of requests is that of its first and of the others.
LEMMA RoomStep ==
  ASSUME NEW s \in RequestList, NEW k \in 1..(Len(s) + 1)
  PROVE  /\ IsFiniteSet(PlacesFrom(s, k)) /\ Room(s, k) \in Nat
         /\ k <= Len(s) =>
              Room(s, k) = Cardinality(Places(s[k].api)) + Room(s, k + 1)
<1> DEFINE At(j) == {j} \X Places(s[j].api)
<1>1. \A j \in 1..Len(s) : s[j].api \in Api
  BY RequestTyped
<1>2. ASSUME NEW j \in 1..Len(s)
      PROVE  /\ IsFiniteSet(At(j))
             /\ Cardinality(At(j)) = Cardinality(Places(s[j].api))
  <2>1. IsFiniteSet(Places(s[j].api)) /\ Cardinality(Places(s[j].api)) \in Nat
    BY <1>1, PlacesBound
  <2>2. IsFiniteSet({j}) /\ Cardinality({j}) = 1
    BY FS_Singleton
  <2>3. /\ IsFiniteSet(At(j))
        /\ Cardinality(At(j)) = Cardinality({j}) * Cardinality(Places(s[j].api))
    BY <2>1, <2>2, FS_Product
  <2> QED
    BY <2>1, <2>2, <2>3
<1>3. \A m : PlacesFrom(s, m) = UNION {At(j) : j \in m..Len(s)}
  BY DEF PlacesFrom
<1> HIDE DEF At
<1>4. ASSUME NEW m \in 1..(Len(s) + 1)
      PROVE  IsFiniteSet(PlacesFrom(s, m)) /\ Room(s, m) \in Nat
  <2> DEFINE J == m..Len(s)
             f == [j \in J |-> At(j)]
             S == {At(j) : j \in J}
  <2>1. IsFiniteSet(J) /\ J \subseteq 1..Len(s)
    <3>1. Len(s) \in Nat
      BY RequestTyped
    <3>2. m \in Int /\ 1 <= m
      BY <3>1
    <3>3. IsFiniteSet(J)
      BY <3>1, <3>2, FS_Interval
    <3> QED
      BY <3>1, <3>2, <3>3
  <2>2. f \in Surjection(J, S)
    BY DEF Surjection
  <2>3. \A T \in S : IsFiniteSet(T)
    BY <1>2, <2>1
  <2>4. PlacesFrom(s, m) = UNION S
    BY <1>3
  <2> HIDE DEF J, f, S
  <2>5. IsFiniteSet(UNION S)
    BY <2>1, <2>2, <2>3, FS_Surjection, FS_UNION
  <2> QED
    BY <2>4, <2>5, FS_CardinalityType DEF Room
<1>5. ASSUME k <= Len(s)
      PROVE  Room(s, k) = Cardinality(Places(s[k].api)) + Room(s, k + 1)
  <2>1. k \in 1..Len(s) /\ k + 1 \in 1..(Len(s) + 1)
    BY <1>5, RequestTyped
  <2>2. k..Len(s) = {k} \cup ((k + 1)..Len(s))
    BY <2>1, RequestTyped
  <2>3. PlacesFrom(s, k) = At(k) \cup PlacesFrom(s, k + 1)
    BY <1>3, <2>2
  <2>4. At(k) \cap PlacesFrom(s, k + 1) = {}
    <3>1. \A j \in (k + 1)..Len(s) : j # k
      BY <2>1, RequestTyped
    <3> QED
      BY <1>3, <3>1 DEF At
  <2>5. Room(s, k) = Cardinality(At(k)) + Room(s, k + 1)
    <3>1. IsFiniteSet(At(k)) /\ IsFiniteSet(PlacesFrom(s, k + 1))
      BY <1>2, <1>4, <2>1
    <3>2. Cardinality(At(k)) \in Nat /\ Room(s, k + 1) \in Nat
      BY <1>4, <2>1, <3>1, FS_CardinalityType
    <3>3. Room(s, k) = Cardinality(At(k)) + Room(s, k + 1) - Cardinality({})
      BY <2>3, <2>4, <3>1, FS_Union DEF Room
    <3> QED
      BY <3>2, <3>3, FS_EmptySet
  <2> QED
    BY <1>2, <2>1, <2>5
<1> QED
  BY <1>4, <1>5

\* It does not depend on the pages.
LEMMA RoomSame ==
  ASSUME NEW s, NEW t, Len(t) = Len(s),
         \A j \in 1..Len(s) : t[j].api = s[j].api
  PROVE  \A k \in Nat \ {0} : Room(t, k) = Room(s, k)
<1> SUFFICES ASSUME NEW k \in Nat \ {0} PROVE PlacesFrom(t, k) = PlacesFrom(s, k)
  BY DEF Room
<1>1. \A j \in k..Len(s) : t[j].api = s[j].api
  OBVIOUS
<1> QED
  BY <1>1 DEF PlacesFrom

\* The requests that stay when one is erased have no more places than before.
LEMMA RoomErased ==
  ASSUME NEW s \in RequestList, NEW i \in DOMAIN s
  PROVE  /\ RemoveAt(s, i) \in RequestList
         /\ Len(RemoveAt(s, i)) = Len(s) - 1
         /\ Room(RemoveAt(s, i), 1) <= Room(s, 1)
         /\ Room(RemoveAt(s, i), i) <= Room(s, i + 1)
<1> DEFINE r == RemoveAt(s, i)
           Was(j) == IF j < i THEN j ELSE j + 1
<1>2. Len(s) \in Nat /\ DOMAIN s = 1..Len(s) /\ i \in 1..Len(s)
  BY RequestTyped
<1>3. r \in RequestList /\ Len(r) = Len(s) - 1
  BY EraseRequest
<1>4. DOMAIN r = 1..(Len(s) - 1)
  BY <1>3, RequestTyped
<1>5. \A j \in 1..(Len(s) - 1) : Was(j) \in 1..Len(s) /\ r[j] = s[Was(j)]
  <2>1. \A j \in DOMAIN r : /\ j >= i => r[j] = s[j + 1] /\ j + 1 \in DOMAIN s
                            /\ j < i => r[j] = s[j] /\ j \in DOMAIN s
    BY EraseRequest
  <2> HIDE DEF r
  <2> QED
    BY <1>2, <1>4, <2>1
<1>6. \A j, m \in 1..(Len(s) - 1) : Was(j) = Was(m) => j = m
  BY <1>2
<1>7. \A j \in i..(Len(s) - 1) : Was(j) \in (i + 1)..Len(s)
  BY <1>2
<1>8. ASSUME NEW m \in 1..Len(s), NEW n \in 1..(Len(s) + 1),
             \A j \in m..(Len(s) - 1) : Was(j) \in n..Len(s)
      PROVE  Room(r, m) <= Room(s, n)
  <2> DEFINE F == PlacesFrom(r, m)
             T == PlacesFrom(s, n)
             f == [p \in F |-> <<Was(p[1]), p[2]>>]
  <2>1. ASSUME NEW p \in F
        PROVE  /\ p = <<p[1], p[2]>> /\ p[1] \in 1..(Len(s) - 1)
               /\ <<Was(p[1]), p[2]>> \in T
    <3>1. PICK j \in m..Len(r) : p \in {j} \X Places(r[j].api)
      BY <2>1 DEF PlacesFrom
    <3>2. p = <<p[1], p[2]>> /\ p[1] = j /\ p[2] \in Places(r[j].api)
      BY <3>1
    <3>3. j \in 1..(Len(s) - 1) /\ Was(j) \in n..Len(s)
      BY <1>2, <1>3, <1>8, <3>1
    <3>4. r[j] = s[Was(j)]
      BY <1>5, <3>3
    <3> HIDE DEF Was
    <3>5. <<Was(j), p[2]>> \in {Was(j)} \X Places(s[Was(j)].api)
      BY <3>2, <3>4
    <3> QED
      BY <3>2, <3>3, <3>5 DEF PlacesFrom
  <2>2. f \in Injection(F, T)
    <3>1. f \in [F -> T]
      BY <2>1
    <3>2. ASSUME NEW p \in F, NEW q \in F, f[p] = f[q]
          PROVE  p = q
      <4>1. Was(p[1]) = Was(q[1]) /\ p[2] = q[2]
        BY <3>2
      <4>2. p[1] = q[1]
        BY <1>6, <2>1, <4>1
      <4> QED
        BY <2>1, <4>1, <4>2
    <3> HIDE DEF F, T, f
    <3> QED
      BY <3>1, <3>2 DEF Injection, IsInjective
  <2>3. IsFiniteSet(T)
    BY RoomStep
  <2> HIDE DEF F, T, f
  <2>4. Cardinality(F) <= Cardinality(T)
    BY <2>2, <2>3, FS_Injection
  <2> QED
    BY <2>4 DEF Room, F, T
<1>9. Room(r, 1) <= Room(s, 1)
  <2>1. \A j \in 1..(Len(s) - 1) : Was(j) \in 1..Len(s)
    BY <1>5
  <2> HIDE DEF r, Was
  <2> QED
    BY <1>2, <1>8, <2>1
<1>10. Room(r, i) <= Room(s, i + 1)
  <2> HIDE DEF r, Was
  <2> QED
    BY <1>2, <1>7, <1>8
<1> QED
  BY <1>3, <1>9, <1>10

LEMMA AroundMove ==
  ASSUME IInv, AroundInv, NEW x \in Builder, NEW c, Set(x, c), Around(c)
  PROVE  AroundInv'
<1>1. \A y \in Builder : build'[y] = IF y = x THEN c ELSE build[y]
  BY DEF Set, IInv, TypeOK
<1>2. ASSUME NEW y \in Builder PROVE Around(build'[y])
  BY <1>1 DEF AroundInv
<1> QED
  BY <1>2 DEF AroundInv

\* The numbers that are compared.
LEMMA Counts ==
  ASSUME NEW b \in BuildState
  PROVE  /\ b.reqs \in RequestList /\ b.asked \in RequestList
         /\ b.number \in Nat /\ b.at \in Nat /\ b.i \in Nat
         /\ Len(b.res) \in Nat /\ Len(b.files) \in Nat /\ Len(b.found) \in Nat
         /\ Room(b.asked, 1) \in Nat /\ Room(b.reqs, 1) \in Nat
         /\ b.at \in DOMAIN b.reqs => Room(b.reqs, b.at + 1) \in Nat
<1>1. /\ b.reqs \in RequestList /\ b.asked \in RequestList
      /\ b.number \in Nat /\ b.at \in Nat /\ b.i \in Nat
      /\ b.res \in Seq(FileObject) /\ b.files \in Seq(FileObject)
      /\ b.found \in Seq(FileObject)
  BY DEF BuildState, RequestList
<1>2. Len(b.res) \in Nat /\ Len(b.files) \in Nat /\ Len(b.found) \in Nat
  BY <1>1
<1>3. \A s \in RequestList : Len(s) \in Nat /\ DOMAIN s = 1..Len(s)
  BY RequestTyped
<1>4. \A s \in RequestList : Room(s, 1) \in Nat
  BY <1>3, RoomStep
<1>5. b.at \in DOMAIN b.reqs => b.at + 1 \in 1..(Len(b.reqs) + 1)
  BY <1>1, <1>3
<1> QED
  BY <1>1, <1>2, <1>4, <1>5, RoomStep

LEMMA NextAround ==
  ASSUME NEW b \in BuildState, b.erased = FALSE, b.at \in DOMAIN b.reqs,
         b.number > 0 =>
           /\ Room(b.reqs, 1) <= Room(b.asked, 1)
           /\ Len(b.res) + Room(b.reqs, b.at + 1)
              < b.number + Room(b.asked, 1)
  PROVE  Around(NextRequest(b))
<1> DEFINE c == NextRequest(b)
<1>1. /\ c.pc = "query" /\ c.at = b.at + 1 /\ c.reqs = b.reqs /\ c.files = <<>>
      /\ c.number = b.number /\ c.asked = b.asked /\ c.res = b.res
  BY DEF NextRequest, BuildState
<1> HIDE DEF c
<1>2. Gathered(c) = 0
  BY <1>1 DEF Gathered
<1>3. c.number > 0 => Len(c.res) < c.number + Room(c.asked, 1)
  BY <1>1, Counts
<1>4. Around(c)
  BY <1>1, <1>2, <1>3, Counts DEF Around
<1> QED
  BY <1>4 DEF c

\* What a build at one of its files has gathered fits.
LEMMA AtFile ==
  ASSUME NEW b \in BuildState, IteratorsValid(b), AtRequest(b), Around(b),
         b.pc \in {"store", "insert", "row", "tag"}
  PROVE  /\ b.i \in DOMAIN b.files /\ b.at \in DOMAIN b.reqs /\ b.erased = FALSE
         /\ b.number > 0 =>
              /\ Len(b.res) < b.number + Room(b.asked, 1)
              /\ Room(b.reqs, 1) <= Room(b.asked, 1)
              /\ Len(b.res) + Len(b.files) + Room(b.reqs, b.at + 1)
                 < b.number + Room(b.asked, 1)
BY DEF IteratorsValid, AtRequest, Around, Gathered

LEMMA Fewer ==
  ASSUME NEW res \in Nat, NEW n \in Nat, NEW m \in Nat, NEW room \in Nat,
         NEW bound \in Nat, res + n + room < bound, m <= n
  PROVE  res + m + room < bound
OBVIOUS

LEMMA FewerOfBoth ==
  ASSUME NEW res \in Nat, NEW n \in Nat, NEW room \in Nat, NEW bound \in Nat,
         NEW m \in Nat, NEW r \in Nat,
         res + (n + room) < bound, m <= n, r <= room
  PROVE  res + m + r < bound
OBVIOUS

\* A build whose list is as long or shorter.
LEMMA StillAround ==
  ASSUME NEW b \in BuildState, IteratorsValid(b), AtRequest(b), Around(b),
         b.pc \in {"store", "insert", "row", "tag"},
         NEW c, c.pc \in {"store", "insert", "row", "tag"},
         c.number = b.number, c.asked = b.asked, c.reqs = b.reqs, c.at = b.at,
         c.res = b.res, Len(c.files) \in Nat, Len(c.files) <= Len(b.files)
  PROVE  Around(c)
<1>1. Gathered(c) = Len(c.files) /\ c.pc # "query" /\ c.pc # "idle"
  BY DEF Gathered
<1>2. ASSUME b.number > 0
      PROVE  Len(b.res) + Len(c.files) + Room(b.reqs, b.at + 1)
             < b.number + Room(b.asked, 1)
  <2>1. /\ Len(b.res) + Len(b.files) + Room(b.reqs, b.at + 1)
           < b.number + Room(b.asked, 1)
        /\ b.at \in DOMAIN b.reqs
    BY <1>2, AtFile
  <2>2. b.number + Room(b.asked, 1) \in Nat
    BY Counts
  <2> QED
    BY <2>1, <2>2, Counts, Fewer
<1>3. b.number > 0 => /\ Len(b.res) < b.number + Room(b.asked, 1)
                      /\ Room(b.reqs, 1) <= Room(b.asked, 1)
  BY AtFile
<1> QED
  BY <1>1, <1>2, <1>3 DEF Around

LEMMA InsertedAround ==
  ASSUME NEW b \in BuildState, IteratorsValid(b), AtRequest(b), Around(b),
         b.pc \in {"insert", "tag"}
  PROVE  Around(Inserted(b))
<1>1. CASE b.i < Len(b.files)
  <2> DEFINE c == [b EXCEPT !.pc = "insert", !.i = b.i + 1]
  <2>1. Inserted(b) = c
    BY <1>1 DEF Inserted
  <2>2. /\ c.pc = "insert" /\ c.number = b.number /\ c.asked = b.asked
        /\ c.reqs = b.reqs /\ c.at = b.at /\ c.res = b.res /\ c.files = b.files
    BY DEF BuildState
  <2> HIDE DEF c
  <2>3. Len(c.files) \in Nat /\ Len(c.files) <= Len(b.files)
    BY <2>2, Counts
  <2>4. Around(c)
    BY <2>2, <2>3, StillAround
  <2> QED
    BY <2>1, <2>4
<1>2. CASE ~(b.i < Len(b.files))
  <2> DEFINE res == b.res \o b.files
             c == [b EXCEPT !.res = res]
  <2>1. Inserted(b) = NextRequest(c)
    BY <1>2 DEF Inserted
  <2>2. res \in Seq(FileObject) /\ Len(res) = Len(b.res) + Len(b.files)
    <3>1. b.res \in Seq(FileObject) /\ b.files \in Seq(FileObject)
      BY DEF BuildState
    <3> QED
      BY ONLY <3>1, JoinLists, SMT
  <2>3. /\ c.number = b.number /\ c.asked = b.asked /\ c.reqs = b.reqs
        /\ c.at = b.at /\ c.res = res /\ c.erased = b.erased
    BY DEF BuildState
  <2> HIDE DEF res
  <2>4. c \in BuildState
    BY <2>2, SetRes
  <2> HIDE DEF c
  <2>5. Around(NextRequest(c))
    BY <2>2, <2>3, <2>4, AtFile, NextAround
  <2> QED
    BY <2>1, <2>5
<1> QED
  BY <1>1, <1>2

LEMMA DroppedAround ==
  ASSUME NEW b \in BuildState, IteratorsValid(b), AtRequest(b), Around(b),
         b.pc \in {"insert", "row", "tag"}
  PROVE  Around(Dropped(b))
<1> DEFINE files == RemoveAt(b.files, b.i)
           seen == b.seen \ {Pair(b.files[b.i])}
           d == [b EXCEPT !.files = files, !.clean = FALSE, !.seen = seen]
<1>1. /\ b.files \in Seq(FileObject) /\ b.res \in Seq(FileObject)
      /\ seen \in SUBSET (Api \X Item) /\ b.i \in DOMAIN b.files
  BY AtFile DEF BuildState
<1>2. files \in Seq(FileObject) /\ Len(files) = Len(b.files) - 1
  BY <1>1, EraseFile
<1>3. Dropped(b) = IF b.i < Len(b.files)
                   THEN [d EXCEPT !.pc = "insert"]
                   ELSE NextRequest([d EXCEPT !.res = d.res \o d.files])
  BY DEF Dropped, Pair
<1> HIDE DEF seen, files
<1>4. /\ d.number = b.number /\ d.asked = b.asked /\ d.reqs = b.reqs
      /\ d.at = b.at /\ d.erased = b.erased /\ d.res = b.res
      /\ d.files = files
  BY DEF BuildState
<1>5. d \in BuildState
  BY <1>1, <1>2, SetDropped
<1>6. Len(files) \in Nat /\ Len(files) <= Len(b.files) /\ Len(b.files) \in Nat
  BY <1>2, Counts
<1> HIDE DEF d
<1>7. CASE b.i < Len(b.files)
  <2> DEFINE c == [d EXCEPT !.pc = "insert"]
  <2>1. Dropped(b) = c
    BY <1>3, <1>7
  <2>2. /\ c.pc = "insert" /\ c.number = b.number /\ c.asked = b.asked
        /\ c.reqs = b.reqs /\ c.at = b.at /\ c.res = b.res /\ c.files = files
    BY <1>4, <1>5 DEF BuildState
  <2> HIDE DEF c
  <2>3. Around(c)
    BY <1>6, <2>2, StillAround
  <2> QED
    BY <2>1, <2>3
<1>8. CASE ~(b.i < Len(b.files))
  <2> DEFINE res == d.res \o d.files
             e == [d EXCEPT !.res = res]
  <2>1. Dropped(b) = NextRequest(e)
    BY <1>3, <1>8
  <2>2. d.res \in Seq(FileObject) /\ d.files \in Seq(FileObject)
    BY <1>1, <1>2, <1>4
  <2>3. res \in Seq(FileObject) /\ Len(res) = Len(d.res) + Len(d.files)
    BY ONLY <2>2, JoinLists, SMT
  <2> HIDE DEF res
  <2>4. /\ e.number = b.number /\ e.asked = b.asked /\ e.reqs = b.reqs
        /\ e.at = b.at /\ e.res = res /\ e.erased = b.erased
    BY <1>4, <1>5 DEF BuildState
  <2>5. e \in BuildState
    BY <1>5, <2>3, SetRes
  <2> HIDE DEF e
  <2>6. b.number > 0 => Len(res) + Room(b.reqs, b.at + 1)
                        < b.number + Room(b.asked, 1)
    <3>1. Len(res) = Len(b.res) + Len(files)
      BY <1>4, <2>3
    <3>2. /\ b.at \in DOMAIN b.reqs
          /\ b.number > 0 => Len(b.res) + Len(b.files) + Room(b.reqs, b.at + 1)
                             < b.number + Room(b.asked, 1)
      BY AtFile
    <3>3. b.number + Room(b.asked, 1) \in Nat
      BY Counts
    <3> QED
      BY <1>6, <3>1, <3>2, <3>3, Counts, Fewer
  <2>7. Around(NextRequest(e))
    BY <2>4, <2>5, <2>6, AtFile, NextAround
  <2> QED
    BY <2>1, <2>7
<1> QED
  BY <1>7, <1>8

LEMMA StartAround ==
  ASSUME IInv, AroundInv, NEW x \in Builder, Start(x) \/ Abort(x) \/ Crash(x)
  PROVE  AroundInv'
<1>1. CASE Start(x)
  <2>1. PICK n, reqs : Set(x, [Idle EXCEPT !.pc = "query", !.number = n,
                                           !.reqs = reqs, !.asked = reqs])
    BY <1>1 DEF Start
  <2> DEFINE c == [Idle EXCEPT !.pc = "query", !.number = n,
                               !.reqs = reqs, !.asked = reqs]
  <2>2. /\ c.pc = "query" /\ c.number = n /\ c.reqs = reqs /\ c.asked = reqs
        /\ c.at = 1 /\ c.res = <<>> /\ c.files = <<>>
    BY DEF Idle
  <2>3. c \in BuildState
    <3>1. build'[x] = c
      BY <2>1 DEF IInv, TypeOK, Set
    <3>2. IInv'
      BY <1>1, StartKeeps
    <3> QED
      BY <3>1, <3>2 DEF IInv, Good
  <2> HIDE DEF c
  <2>4. Gathered(c) = 0
    BY <2>2 DEF Gathered
  <2>5. Len(c.res) = 0
    BY <2>2
  <2>6. Around(c)
    BY <2>2, <2>3, <2>4, <2>5, Counts DEF Around
  <2> QED
    BY <2>1, <2>6, AroundMove DEF c
<1>2. CASE Abort(x)
  <2> DEFINE c == [Idle EXCEPT !.res = build[x].res, !.clean = FALSE]
  <2>1. Set(x, c) /\ c.number = 0
    BY <1>2 DEF Abort, Idle
  <2> HIDE DEF c
  <2> QED
    BY <2>1, AroundMove DEF Around
<1>3. CASE Crash(x)
  <2> DEFINE c == [Idle EXCEPT !.clean = FALSE]
  <2>1. Set(x, c) /\ c.number = 0
    BY <1>3 DEF Crash, Idle
  <2> HIDE DEF c
  <2> QED
    BY <2>1, AroundMove DEF Around
<1> QED
  BY <1>1, <1>2, <1>3

\* Another round begins only while the number is not reached.
LEMMA EndRoundAround ==
  ASSUME IInv, AroundInv, NEW x \in Builder, EndRound(x)
  PROVE  AroundInv'
<1> DEFINE b == build[x]
           round == IF b.round < MaxRound THEN b.round + 1 ELSE b.round
           more == [b EXCEPT !.at = 1, !.round = round]
           done == [b EXCEPT !.pc = "idle"]
<1>1. /\ b.pc = "query"
      /\ \/ Len(b.res) < b.number /\ Set(x, more)
         \/ Set(x, done)
  BY DEF EndRound
<1>2. b \in BuildState /\ Around(b)
  BY DEF IInv, Good, AroundInv
<1>3. /\ more.pc = "query" /\ more.at = 1 /\ more.number = b.number
      /\ more.asked = b.asked /\ more.reqs = b.reqs /\ more.res = b.res
      /\ more.files = b.files
  BY <1>1, <1>2 DEF BuildState
<1>4. /\ done.pc = "idle" /\ done.number = b.number /\ done.asked = b.asked
      /\ done.res = b.res
  BY <1>2 DEF BuildState
<1> HIDE DEF b, more, done
<1>5. Gathered(more) = 0
  BY <1>3 DEF Gathered
<1>6. Len(b.res) < b.number => Around(more)
  BY <1>1, <1>2, <1>3, <1>5, Counts DEF Around
<1>7. Around(done)
  BY <1>2, <1>4 DEF Around
<1> QED
  BY <1>1, <1>6, <1>7, AroundMove

LEMMA QueryAround ==
  ASSUME IInv, AroundInv, NEW x \in Builder, Query(x)
  PROVE  AroundInv'
<1> DEFINE b == build[x]
<1>1. PICK c : Set(x, c) /\ Goes(b, c) /\ c \in BuildState
  BY QueryMoves DEF Good
<1>2. b.pc = "query" /\ b.at <= Len(b.reqs)
  BY DEF Query
<1>3. b \in BuildState /\ Around(b) /\ b.at \in 1..Len(b.reqs) + 1
  BY <1>2 DEF IInv, Good, AroundInv, IteratorsValid
<1> HIDE DEF b
<1>4. /\ b.reqs \in RequestList /\ b.at \in 1..Len(b.reqs)
      /\ b.at \in DOMAIN b.reqs /\ b.reqs[b.at].api \in Api
  <2>1. b.reqs \in RequestList
    BY <1>3, Counts
  <2>2. Len(b.reqs) \in Nat /\ DOMAIN b.reqs = 1..Len(b.reqs)
    BY <2>1, RequestTyped
  <2>3. b.at \in 1..Len(b.reqs)
    BY <1>2, <1>3, <2>2
  <2> QED
    BY <2>1, <2>2, <2>3, RequestTyped
<1> DEFINE n == Cardinality(Places(b.reqs[b.at].api))
           rest == Room(b.reqs, b.at + 1)
<1>5. n \in Nat /\ rest \in Nat /\ Room(b.reqs, b.at) = n + rest
  <2>1. b.at \in 1..(Len(b.reqs) + 1) /\ b.at <= Len(b.reqs)
    BY <1>2, <1>3
  <2> QED
    BY <1>3, <1>4, <2>1, PlacesBound, RoomStep, Counts
<1>6. b.number > 0 =>
        /\ Len(b.res) < b.number + Room(b.asked, 1) /\ b.files = <<>>
        /\ Room(b.reqs, 1) <= Room(b.asked, 1)
        /\ Len(b.res) + (n + rest) < b.number + Room(b.asked, 1)
  <2>1. Gathered(b) = 0
    BY <1>2 DEF Gathered
  <2> QED
    BY <1>2, <1>3, <1>5, <2>1, Counts DEF Around
<1>7. CASE c.pc = "query"
  <2>1. /\ c.reqs = RemoveAt(b.reqs, b.at) /\ c.files = <<>> /\ c.at = b.at
        /\ c.number = b.number /\ c.asked = b.asked /\ c.res = b.res
    BY <1>1, <1>7 DEF Goes
  <2>2. Room(c.reqs, 1) <= Room(b.reqs, 1) /\ Room(c.reqs, c.at) <= rest
    BY <1>4, <2>1, RoomErased
  <2>3. Room(c.reqs, 1) \in Nat /\ Room(c.reqs, c.at) \in Nat
    <3>1. c.reqs \in RequestList /\ Len(c.reqs) = Len(b.reqs) - 1
      BY <1>4, <2>1, RoomErased
    <3>2. c.at \in 1..(Len(c.reqs) + 1) /\ 1 \in 1..(Len(c.reqs) + 1)
      BY <1>4, <2>1, <3>1, RequestTyped
    <3> QED
      BY <3>1, <3>2, RoomStep
  <2>4. Gathered(c) = 0
    BY <1>7 DEF Gathered
  <2> HIDE DEF n, rest
  <2>5. ASSUME b.number > 0
        PROVE  /\ Room(c.reqs, 1) <= Room(b.asked, 1)
               /\ Len(b.res) + 0 + Room(c.reqs, c.at)
                  < b.number + Room(b.asked, 1)
    <3>1. /\ b.number + Room(b.asked, 1) \in Nat /\ Len(b.res) \in Nat
          /\ Room(b.asked, 1) \in Nat /\ Room(b.reqs, 1) \in Nat
      BY <1>3, Counts
    <3>2. Room(b.reqs, 1) <= Room(b.asked, 1)
      BY <1>6, <2>5
    <3>3. Room(c.reqs, 1) <= Room(b.asked, 1)
      BY <2>2, <2>3, <3>1, <3>2
    <3>4. Len(b.res) + (n + rest) < b.number + Room(b.asked, 1)
      BY <1>6, <2>5
    <3>5. 0 \in Nat /\ 0 <= n
      BY <1>5
    <3> QED
      BY <1>5, <2>2, <2>3, <3>1, <3>3, <3>4, <3>5, FewerOfBoth
  <2>6. Around(c)
    BY <1>6, <1>7, <2>1, <2>4, <2>5 DEF Around
  <2> QED
    BY <1>1, <2>6, AroundMove
<1>8. CASE c.pc # "query"
  <2>1. /\ c.pc = "check" /\ c.i = 1 /\ c.files = b.files /\ c.at = b.at
        /\ c.number = b.number /\ c.asked = b.asked /\ c.res = b.res
        /\ Len(c.reqs) = Len(b.reqs)
        /\ \A j \in 1..Len(b.reqs) : c.reqs[j].api = b.reqs[j].api
    BY <1>1, <1>8 DEF Goes
  <2>2. Len(c.found) <= n
    <3>1. PICK p : Len(c.found) <= Len(Listing(b.reqs[b.at].api, p))
      BY <1>1, <1>8 DEF Goes
    <3>2. Len(Listing(b.reqs[b.at].api, p)) <= n
      BY <1>4, PlacesBound
    <3>3. Len(Listing(b.reqs[b.at].api, p)) \in Nat
      BY <1>4, ListingType, PlaceIn
    <3> QED
      BY <1>1, <1>5, <3>1, <3>2, <3>3, Counts
  <2>3. Room(c.reqs, 1) = Room(b.reqs, 1) /\ Room(c.reqs, c.at + 1) = rest
    <3>1. \A k \in Nat \ {0} : Room(c.reqs, k) = Room(b.reqs, k)
      BY <2>1, RoomSame
    <3>2. 1 \in Nat \ {0} /\ b.at + 1 \in Nat \ {0}
      BY <1>3, Counts
    <3> QED
      BY <2>1, <3>1, <3>2
  <2>4. ASSUME b.number > 0 PROVE Gathered(c) = Len(c.found)
    <3>1. Len(c.files) = 0
      BY <1>6, <2>1, <2>4
    <3>2. Gathered(c) = Len(c.files) + (Len(c.found) + 1 - c.i)
      BY <2>1 DEF Gathered
    <3> QED
      BY <1>1, <2>1, <3>1, <3>2, Counts
  <2> HIDE DEF n, rest
  <2>5. ASSUME b.number > 0
        PROVE  Len(b.res) + Len(c.found) + rest < b.number + Room(b.asked, 1)
    <3>1. b.number + Room(b.asked, 1) \in Nat /\ Len(b.res) \in Nat
      BY <1>3, Counts
    <3>2. Len(c.found) \in Nat /\ rest <= rest
      BY <1>1, <1>5, Counts
    <3> QED
      BY <1>5, <1>6, <2>2, <2>5, <3>1, <3>2, FewerOfBoth
  <2>6. Around(c)
    BY <1>6, <2>1, <2>3, <2>4, <2>5 DEF Around
  <2> QED
    BY <1>1, <2>6, AroundMove
<1> QED
  BY <1>7, <1>8
LEMMA OneLooked ==
  ASSUME NEW res \in Nat, NEW n \in Nat, NEW found \in Nat, NEW i \in Nat,
         NEW m \in Nat, NEW room \in Nat, NEW bound \in Nat,
         i <= found, m <= n + 1, res + (n + (found + 1 - i)) + room < bound
  PROVE  /\ res + (m + (found + 1 - (i + 1))) + room < bound
         /\ res + room < bound
         /\ i = found => res + m + room < bound
OBVIOUS

\* A look at the database moves at most one item to the files to store.
LEMMA CheckAround ==
  ASSUME IInv, AroundInv, NEW x \in Builder, Check(x)
  PROVE  AroundInv'
<1> DEFINE b == build[x]
           f == b.found[b.i]
           files == IF Known(f.src, f.item) THEN b.files ELSE Append(b.files, f)
           j == b.i + 1
           more == [b EXCEPT !.files = files, !.i = j]
           go == [b EXCEPT !.pc = "store", !.files = files, !.i = 1]
<1>1. /\ b.pc = "check"
      /\ \/ b.i # Len(b.found) /\ Set(x, more)
         \/ b.i = Len(b.found) /\ Set(x, NextRequest(b))
         \/ b.i = Len(b.found) /\ Set(x, go)
  BY DEF Check
<1>2. /\ b \in BuildState /\ Around(b) /\ b.i \in DOMAIN b.found
      /\ b.at \in DOMAIN b.reqs /\ b.erased = FALSE
  <2>1. b \in BuildState /\ IteratorsValid(b) /\ AtRequest(b) /\ Around(b)
    BY DEF IInv, Good, AroundInv
  <2> QED
    BY <1>1, <2>1 DEF IteratorsValid, AtRequest
<1>3. b.found \in Seq(FileObject) /\ b.files \in Seq(FileObject)
  BY <1>2 DEF BuildState
<1>4. files \in Seq(FileObject) /\ Len(files) <= Len(b.files) + 1
  <2>1. f \in FileObject
    BY <1>2, <1>3, ElementOf
  <2> HIDE DEF f, b
  <2>2. /\ Append(b.files, f) \in Seq(FileObject)
        /\ Len(Append(b.files, f)) = Len(b.files) + 1 /\ Len(b.files) \in Nat
    BY <1>3, <2>1
  <2> QED
    BY <1>3, <2>2
<1>5. /\ more.pc = "check" /\ more.i = j /\ more.found = b.found
      /\ more.files = files /\ more.number = b.number /\ more.asked = b.asked
      /\ more.reqs = b.reqs /\ more.at = b.at /\ more.res = b.res
  BY <1>1, <1>2 DEF BuildState
<1>6. /\ go.pc = "store" /\ go.files = files /\ go.number = b.number
      /\ go.asked = b.asked /\ go.reqs = b.reqs /\ go.at = b.at
      /\ go.res = b.res
  BY <1>2 DEF BuildState
<1>7. Len(files) \in Nat /\ b.i <= Len(b.found)
  BY <1>2, <1>3, <1>4
<1> HIDE DEF b, f, files, more, go
<1>8. ASSUME b.number > 0
      PROVE  /\ Len(b.res) < b.number + Room(b.asked, 1)
             /\ Room(b.reqs, 1) <= Room(b.asked, 1)
             /\ Len(b.res) + (Len(b.files) + (Len(b.found) + 1 - b.i))
                  + Room(b.reqs, b.at + 1) < b.number + Room(b.asked, 1)
  BY <1>1, <1>2, <1>8 DEF Around, Gathered
<1>9. ASSUME b.number > 0
      PROVE  /\ Len(b.res) + (Len(files) + (Len(b.found) + 1 - j))
                  + Room(b.reqs, b.at + 1) < b.number + Room(b.asked, 1)
             /\ Len(b.res) + Room(b.reqs, b.at + 1)
                < b.number + Room(b.asked, 1)
             /\ b.i = Len(b.found) =>
                  Len(b.res) + Len(files) + Room(b.reqs, b.at + 1)
                  < b.number + Room(b.asked, 1)
  <2>1. /\ Len(b.res) \in Nat /\ Len(b.files) \in Nat /\ Len(b.found) \in Nat
        /\ b.i \in Nat /\ Room(b.reqs, b.at + 1) \in Nat
    BY <1>2, Counts
  <2>2. b.number + Room(b.asked, 1) \in Nat
    BY <1>2, Counts
  <2> QED
    BY <1>4, <1>7, <1>8, <1>9, <2>1, <2>2, OneLooked
<1>10. Around(more)
  <2>1. Gathered(more) = Len(files) + (Len(b.found) + 1 - j)
    BY <1>5 DEF Gathered
  <2> QED
    BY <1>5, <1>8, <1>9, <2>1 DEF Around
<1>11. Around(NextRequest(b))
  BY <1>2, <1>8, <1>9, NextAround
<1>12. b.i = Len(b.found) => Around(go)
  <2>1. Gathered(go) = Len(files)
    BY <1>6 DEF Gathered
  <2> QED
    BY <1>6, <1>8, <1>9, <2>1 DEF Around
<1> QED
  BY <1>1, <1>10, <1>11, <1>12, AroundMove

LEMMA AtOne ==
  ASSUME IInv, AroundInv, NEW x \in Builder
  PROVE  /\ build[x] \in BuildState /\ IteratorsValid(build[x])
         /\ AtRequest(build[x]) /\ Around(build[x])
BY DEF IInv, Good, AroundInv

LEMMA StoreAround ==
  ASSUME IInv, AroundInv, NEW x \in Builder, Store(x)
  PROVE  AroundInv'
<1> DEFINE b == build[x]
<1>1. /\ b.pc = "store"
      /\ \E c, files :
           /\ Set(x, c) /\ c.files = files
           /\ c.number = b.number /\ c.asked = b.asked
           /\ c.reqs = b.reqs /\ c.at = b.at /\ c.res = b.res
           /\ Len(files) = Len(b.files) /\ c.pc \in {"store", "insert"}
  BY StoreFields
<1>2. /\ b \in BuildState /\ IteratorsValid(b) /\ AtRequest(b) /\ Around(b)
  BY AtOne
<1> HIDE DEF b
<1>3. PICK c : /\ Set(x, c) /\ c.number = b.number /\ c.asked = b.asked
               /\ c.reqs = b.reqs /\ c.at = b.at /\ c.res = b.res
               /\ Len(c.files) = Len(b.files) /\ c.pc \in {"store", "insert"}
  BY <1>1
<1>4. Len(c.files) \in Nat /\ Len(c.files) <= Len(b.files)
  BY <1>2, <1>3, Counts
<1>5. Around(c)
  BY <1>1, <1>2, <1>3, <1>4, StillAround
<1> QED
  BY <1>3, <1>5, AroundMove

\* The three steps of an insertion: the file goes on, is done, or is dropped.
LEMMA InsertAround ==
  ASSUME IInv, AroundInv, NEW x \in Builder,
         InsertCheck(x) \/ InsertRow(x) \/ InsertTags(x)
  PROVE  AroundInv'
<1> DEFINE b == build[x]
           row == [b EXCEPT !.pc = "row"]
           tag == [b EXCEPT !.pc = "tag"]
<1>1. /\ b.pc \in {"insert", "row", "tag"}
      /\ \/ b.pc \in {"insert", "tag"} /\ Set(x, Inserted(b))
         \/ Set(x, row) \/ Set(x, tag) \/ Set(x, Dropped(b))
  BY DEF InsertCheck, InsertRow, InsertTags
<1>2. /\ b \in BuildState /\ IteratorsValid(b) /\ AtRequest(b) /\ Around(b)
  BY AtOne
<1>3. \A c \in {row, tag} :
        /\ c.pc \in {"row", "tag"} /\ c.number = b.number /\ c.asked = b.asked
        /\ c.reqs = b.reqs /\ c.at = b.at /\ c.res = b.res /\ c.files = b.files
  BY <1>2 DEF BuildState
<1> HIDE DEF b, row, tag
<1>4. Len(b.files) \in Nat /\ Len(b.files) <= Len(b.files)
  BY <1>2, Counts
<1>5. \A c \in {row, tag} : Around(c)
  BY <1>1, <1>2, <1>3, <1>4, StillAround
<1>6. b.pc \in {"insert", "tag"} => Around(Inserted(b))
  BY <1>2, InsertedAround
<1>7. Around(Dropped(b))
  BY <1>1, <1>2, DroppedAround
<1> QED
  BY <1>1, <1>5, <1>6, <1>7, AroundMove

\* A build asked for a number of files returns less than that number and one
\* round more, whatever other builds insert in between, whatever its API
\* answers and whatever fails: res.size() is looked at after every round, and
\* no round brings more than one listing of each request.
THEOREM ResultsStayAround == Spec => []AroundNumber
<1>1. Init => AroundInv
  BY DEF Init, Idle, AroundInv, Around
<1>2. IInv /\ AroundInv /\ [Next]_vars => AroundInv'
  <2> SUFFICES ASSUME IInv, AroundInv, [Next]_vars PROVE AroundInv'
    OBVIOUS
  <2>1. CASE UNCHANGED vars
    BY <2>1 DEF vars, AroundInv
  <2>2. ASSUME NEW x \in Builder, Step(x) PROVE AroundInv'
    BY <2>2, QueryAround, CheckAround, StoreAround, InsertAround,
       EndRoundAround DEF Step
  <2>3. ASSUME NEW x \in Builder, Start(x) \/ Abort(x) \/ Crash(x)
        PROVE  AroundInv'
    BY <2>3, StartAround
  <2> QED
    BY <2>1, <2>2, <2>3 DEF Next
<1>3. AroundInv => AroundNumber
  BY DEF AroundInv, Around, AroundNumber, Room
<1> QED
  BY <1>1, <1>2, <1>3, Invariant, PTL DEF Spec

(***************************************************************************)
(* The pages run out.  A request of an API with pages has been answered    *)
(* with a page that exists in every round that is over, and each of these  *)
(* pages came after the last one.                                          *)
(***************************************************************************)
\* The request has been answered in this round.
Passed(b, k) == k < b.at \/ (k = b.at /\ b.pc # "query")

InPages(b, k, req) ==
  req.api \in Paged =>
    /\ req.page > 0 /\ req.page >= b.round
    /\ Passed(b, k) => req.page > b.round
    /\ Passed(b, k) \/ b.round > 0 => req.page <= Len(Catalog[req.api])

AllInPages(b) == \A k \in DOMAIN b.reqs : InPages(b, k, b.reqs[k])

PagesInv == \A x \in Builder : AllInPages(build[x])

\* What a build does between two queries leaves its requests alone.
Onward(b, c) ==
  /\ c.reqs = b.reqs /\ c.round = b.round
  /\ \/ c.pc # "query" /\ c.at = b.at
     \/ c.pc = "query" /\ c.at = b.at + 1

LEMMA NextOnward ==
  ASSUME NEW b \in BuildState, b.erased = FALSE
  PROVE  Onward(b, NextRequest(b))
BY DEF NextRequest, Onward, BuildState

LEMMA InsertedOnward ==
  ASSUME NEW b \in BuildState, b.erased = FALSE
  PROVE  Onward(b, Inserted(b))
<1>1. CASE b.i < Len(b.files)
  <2>1. Inserted(b) = [b EXCEPT !.pc = "insert", !.i = b.i + 1]
    BY <1>1 DEF Inserted
  <2> QED
    BY <2>1 DEF BuildState, Onward
<1>2. CASE ~(b.i < Len(b.files))
  <2> DEFINE res == b.res \o b.files
             d == [b EXCEPT !.res = res]
  <2>1. Inserted(b) = NextRequest(d)
    BY <1>2 DEF Inserted
  <2>2. b.res \in Seq(FileObject) /\ b.files \in Seq(FileObject)
    BY DEF BuildState
  <2>3. res \in Seq(FileObject)
    BY ONLY <2>2, JoinLists, SMT
  <2> HIDE DEF res
  <2>4. d \in BuildState
    BY <2>3, SetRes
  <2>5. d.reqs = b.reqs /\ d.round = b.round /\ d.at = b.at /\ d.erased = FALSE
    BY DEF BuildState
  <2> HIDE DEF d
  <2> QED
    BY <2>1, <2>4, <2>5, NextOnward DEF Onward
<1> QED
  BY <1>1, <1>2

LEMMA DroppedOnward ==
  ASSUME NEW b \in BuildState, b.erased = FALSE, b.i \in DOMAIN b.files
  PROVE  Onward(b, Dropped(b))
<1> DEFINE f == b.files[b.i]
           files == RemoveAt(b.files, b.i)
           seen == b.seen \ {<<f.src, f.item>>}
           d == [b EXCEPT !.files = files, !.clean = FALSE, !.seen = seen]
<1>1. Dropped(b) = IF b.i < Len(b.files)
                   THEN [d EXCEPT !.pc = "insert"]
                   ELSE NextRequest([d EXCEPT !.res = d.res \o d.files])
  BY DEF Dropped
<1>2. files \in Seq(FileObject) /\ seen \in SUBSET (Api \X Item)
  BY EraseFile DEF BuildState
<1> HIDE DEF files, seen
<1>3. d \in BuildState
  BY <1>2, SetDropped
<1>4. /\ d.reqs = b.reqs /\ d.round = b.round /\ d.at = b.at
      /\ d.erased = FALSE /\ d.files = files /\ d.res = b.res
  BY DEF BuildState
<1> HIDE DEF d
<1>5. CASE b.i < Len(b.files)
  <2>1. LET c == [d EXCEPT !.pc = "insert"]
        IN  c.reqs = d.reqs /\ c.round = d.round /\ c.at = d.at /\ c.pc = "insert"
    BY <1>3 DEF BuildState
  <2> QED
    BY <1>1, <1>4, <1>5, <2>1 DEF Onward
<1>6. CASE ~(b.i < Len(b.files))
  <2> DEFINE res == d.res \o d.files
             e == [d EXCEPT !.res = res]
  <2>1. d.res \in Seq(FileObject) /\ d.files \in Seq(FileObject)
    BY <1>3 DEF BuildState
  <2>2. res \in Seq(FileObject)
    BY ONLY <2>1, JoinLists, SMT
  <2>3. Dropped(b) = NextRequest(e)
    BY <1>1, <1>6
  <2> HIDE DEF res
  <2>4. e \in BuildState
    BY <1>3, <2>2, SetRes
  <2>5. e.reqs = d.reqs /\ e.round = d.round /\ e.at = d.at /\ e.erased = d.erased
    BY <1>3 DEF BuildState
  <2> HIDE DEF e
  <2> QED
    BY <1>4, <2>3, <2>4, <2>5, NextOnward DEF Onward
<1> QED
  BY <1>5, <1>6

LEMMA OnwardInPages ==
  ASSUME NEW b \in BuildState, AllInPages(b), b.pc \notin {"idle", "query"},
         NEW c, Onward(b, c)
  PROVE  AllInPages(c)
<1>1. b.at \in Nat /\ b.reqs \in RequestList
  BY DEF BuildState, RequestList
<1>2. DOMAIN b.reqs = 1..Len(b.reqs) /\ Len(b.reqs) \in Nat
  BY <1>1, RequestTyped
<1>3. \A k \in DOMAIN b.reqs : Passed(c, k) <=> Passed(b, k)
  BY <1>1, <1>2 DEF Onward, Passed
<1> QED
  BY <1>3 DEF Onward, AllInPages, InPages

LEMMA PagesMove ==
  ASSUME IInv, PagesInv, NEW x \in Builder, NEW c, Set(x, c), AllInPages(c)
  PROVE  PagesInv'
<1>1. \A y \in Builder : build'[y] = IF y = x THEN c ELSE build[y]
  BY DEF Set, IInv, TypeOK
<1>2. ASSUME NEW y \in Builder PROVE AllInPages(build'[y])
  BY <1>1 DEF PagesInv
<1> QED
  BY <1>2 DEF PagesInv

\* The steps on the files a request has brought.
LEMMA FilesInPages ==
  ASSUME IInv, PagesInv, NEW x \in Builder,
         Check(x) \/ Store(x) \/ InsertCheck(x) \/ InsertRow(x) \/ InsertTags(x)
  PROVE  PagesInv'
<1> DEFINE b == build[x]
           f == b.found[b.i]
           files == IF Known(f.src, f.item) THEN b.files ELSE Append(b.files, f)
           row == [b EXCEPT !.pc = "row"]
           tag == [b EXCEPT !.pc = "tag"]
           more == [b EXCEPT !.files = files, !.i = b.i + 1]
           go == [b EXCEPT !.pc = "store", !.files = files, !.i = 1]
           stored == ReplaceAt(b.files, b.i,
                       [b.files[b.i] EXCEPT !.name = Cardinality(disk \cup lost) + 1])
           next == [b EXCEPT !.files = stored, !.i = b.i + 1]
           last == [b EXCEPT !.files = stored, !.pc = "insert", !.i = 1]
<1>1. b \in BuildState /\ IteratorsValid(b) /\ AtRequest(b) /\ AllInPages(b)
  BY DEF IInv, Good, PagesInv
<1>2. /\ b.pc \in {"check", "store", "insert", "row", "tag"}
      /\ \/ Set(x, NextRequest(b)) \/ Set(x, Inserted(b))
         \/ Set(x, Dropped(b)) /\ b.pc \in {"insert", "row", "tag"}
         \/ Set(x, row) \/ Set(x, tag)
         \/ (b.pc = "check" /\ Set(x, more)) \/ Set(x, go)
         \/ (b.pc = "store" /\ Set(x, next)) \/ Set(x, last)
  <2>1. CASE Check(x)
    BY <2>1 DEF Check
  <2>2. CASE Store(x)
    BY <2>2 DEF Store
  <2>3. CASE InsertCheck(x) \/ InsertRow(x) \/ InsertTags(x)
    BY <2>3 DEF InsertCheck, InsertRow, InsertTags
  <2> QED
    BY <2>1, <2>2, <2>3
<1> HIDE DEF files, stored
<1>3. \A c \in {row, tag, go, last} :
        c.reqs = b.reqs /\ c.round = b.round /\ c.at = b.at /\ c.pc # "query"
  <2> HIDE DEF b
  <2>1. row.reqs = b.reqs /\ row.round = b.round /\ row.at = b.at /\ row.pc # "query"
    BY <1>1 DEF BuildState
  <2>2. tag.reqs = b.reqs /\ tag.round = b.round /\ tag.at = b.at /\ tag.pc # "query"
    BY <1>1 DEF BuildState
  <2>3. go.reqs = b.reqs /\ go.round = b.round /\ go.at = b.at /\ go.pc # "query"
    BY <1>1 DEF BuildState
  <2>4. last.reqs = b.reqs /\ last.round = b.round /\ last.at = b.at /\ last.pc # "query"
    BY <1>1 DEF BuildState
  <2> HIDE DEF row, tag, go, last
  <2> QED
    BY <2>1, <2>2, <2>3, <2>4
<1>4. \A c \in {more, next} :
        c.reqs = b.reqs /\ c.round = b.round /\ c.at = b.at /\ c.pc = b.pc
  <2> HIDE DEF b
  <2>1. more.reqs = b.reqs /\ more.round = b.round /\ more.at = b.at /\ more.pc = b.pc
    BY <1>1 DEF BuildState
  <2>2. next.reqs = b.reqs /\ next.round = b.round /\ next.at = b.at /\ next.pc = b.pc
    BY <1>1 DEF BuildState
  <2> HIDE DEF more, next
  <2> QED
    BY <2>1, <2>2
<1>5. b.pc \in {"insert", "row", "tag"} => b.i \in DOMAIN b.files
  BY <1>1 DEF IteratorsValid
<1>6. b.erased = FALSE
  BY <1>1 DEF AtRequest
<1> HIDE DEF b, row, tag, more, go, next, last
<1>7. PICK c : Set(x, c) /\ Onward(b, c)
  <2>1. \A c \in {row, tag, go, last} : Onward(b, c)
    BY <1>3 DEF Onward
  <2>2. b.pc # "query"
    BY <1>2
  <2>3. \A c \in {more, next} : Onward(b, c)
    BY <1>4, <2>2 DEF Onward
  <2>4. Onward(b, NextRequest(b)) /\ Onward(b, Inserted(b))
    BY <1>1, <1>6, NextOnward, InsertedOnward
  <2>5. b.pc \in {"insert", "row", "tag"} => Onward(b, Dropped(b))
    BY <1>1, <1>5, <1>6, DroppedOnward
  <2> QED
    BY <1>2, <2>1, <2>3, <2>4, <2>5
<1>8. AllInPages(c)
  BY <1>1, <1>2, <1>7, OnwardInPages
<1> QED
  BY <1>7, <1>8, PagesMove

\* A request is answered with a page that exists, or is erased.
LEMMA QueryAnswers ==
  ASSUME IInv, NEW x \in Builder, Query(x)
  PROVE  LET b == build[x]
             req == b.reqs[b.at]
             page == IF req.page = NoPage THEN NoPage ELSE req.page + b.round
         IN  \E c : /\ Set(x, c) /\ c.at = b.at /\ c.round = b.round
                    /\ \/ c.pc = "query" /\ c.reqs = RemoveAt(b.reqs, b.at)
                       \/ /\ c.pc = "check" /\ Listing(req.api, page) # <<>>
                          /\ c.reqs = ReplaceAt(b.reqs, b.at, [req EXCEPT !.page = page])
<1> DEFINE b == build[x]
           req == b.reqs[b.at]
           page == IF req.page = NoPage THEN NoPage ELSE req.page + b.round
           listing == Listing(req.api, page)
           Found(n, kept) ==
             [k \in 1..n |-> [src |-> req.api, name |-> 0,
                              item |-> listing[kept[k]]]]
           After(n, kept) ==
             [b EXCEPT
                !.clean = b.clean /\ n = Len(listing),
                !.seen = b.seen \cup
                           {<<req.api, Found(n, kept)[k].item>> : k \in 1..n}]
           reqs == ReplaceAt(b.reqs, b.at, [req EXCEPT !.page = page])
           More(n, kept) ==
             [After(n, kept) EXCEPT
                !.pc = "check", !.found = Found(n, kept), !.i = 1,
                !.reqs = ReplaceAt(After(n, kept).reqs, b.at,
                                   [req EXCEPT !.page = page])]
<1>1. \E n \in 0..Len(listing) : \E kept \in [1..n -> DOMAIN listing] :
        /\ n = 0 => Set(x, NextRequest(Erased(After(n, kept))))
        /\ n # 0 => Set(x, More(n, kept))
  BY ZenonT(40) DEF Query
<1>2. b \in BuildState
  BY DEF IInv, Good
<1> HIDE DEF Found
<1>3. ASSUME NEW n, NEW kept
      PROVE  LET d == After(n, kept)
             IN  /\ d.pc = b.pc /\ d.at = b.at /\ d.round = b.round /\ d.reqs = b.reqs
                 /\ DOMAIN d = DOMAIN b
  BY <1>2 DEF BuildState
<1> HIDE DEF b, After, reqs, listing
<1>4. ASSUME NEW n, NEW kept
      PROVE  LET c == NextRequest(Erased(After(n, kept)))
             IN  c.pc = "query" /\ c.at = b.at /\ c.round = b.round
                 /\ c.reqs = RemoveAt(b.reqs, b.at)
  <2> DEFINE d == After(n, kept)
             r == RemoveAt(d.reqs, d.at)
             e == [d EXCEPT !.reqs = r, !.erased = TRUE]
  <2>1. /\ d.pc = b.pc /\ d.at = b.at /\ d.round = b.round /\ d.reqs = b.reqs
        /\ DOMAIN d = DOMAIN b
    BY <1>3
  <2>2. DOMAIN b = {"pc", "number", "reqs", "at", "round", "found", "files",
                    "i", "erased", "res", "asked", "seen", "clean"}
    BY <1>2 DEF BuildState
  <2>3. Erased(d) = e
    BY DEF Erased
  <2> HIDE DEF d, r
  <2>4. /\ e.reqs = r /\ e.erased = TRUE /\ e.at = d.at /\ e.round = d.round
        /\ DOMAIN e = DOMAIN b
    BY <2>1, <2>2
  <2> HIDE DEF e
  <2>5. /\ NextRequest(e).pc = "query" /\ NextRequest(e).at = e.at
        /\ NextRequest(e).round = e.round /\ NextRequest(e).reqs = e.reqs
    BY <2>2, <2>4 DEF NextRequest
  <2> QED
    BY <2>1, <2>3, <2>4, <2>5 DEF d, r
<1>5. ASSUME NEW n, NEW kept
      PROVE  LET c == More(n, kept)
             IN  c.pc = "check" /\ c.at = b.at /\ c.round = b.round /\ c.reqs = reqs
  <2> DEFINE d == After(n, kept)
  <2>1. /\ d.at = b.at /\ d.round = b.round /\ d.reqs = b.reqs
        /\ DOMAIN d = DOMAIN b
    BY <1>3
  <2>2. DOMAIN b = {"pc", "number", "reqs", "at", "round", "found", "files",
                    "i", "erased", "res", "asked", "seen", "clean"}
    BY <1>2 DEF BuildState
  <2> HIDE DEF d
  <2>3. LET c == [d EXCEPT !.pc = "check", !.found = Found(n, kept), !.i = 1,
                           !.reqs = reqs]
        IN  c.pc = "check" /\ c.at = d.at /\ c.round = d.round /\ c.reqs = reqs
    BY <2>1, <2>2
  <2> QED
    BY <2>1, <2>3 DEF d, reqs
<1> HIDE DEF More
<1>6. PICK n \in 0..Len(listing) : \E kept :
        /\ n = 0 => Set(x, NextRequest(Erased(After(n, kept))))
        /\ n # 0 => Set(x, More(n, kept))
  BY <1>1
<1>7. PICK kept : /\ n = 0 => Set(x, NextRequest(Erased(After(n, kept))))
                  /\ n # 0 => Set(x, More(n, kept))
  BY <1>6
<1>8. n # 0 => listing # <<>>
  <2>1. listing = <<>> => Len(listing) = 0
    OBVIOUS
  <2> QED
    BY <1>6, <2>1
<1>9. CASE n = 0
  BY <1>4, <1>7, <1>9 DEF b
<1>10. CASE n # 0
  BY <1>5, <1>8, <1>10, <1>7 DEF b, reqs, listing
<1> QED
  BY <1>9, <1>10

\* Beyond the last page an API lists nothing.
LEMMA ListedPages ==
  ASSUME NEW a \in Paged, NEW p \in Nat, Listing(a, p) # <<>>
  PROVE  p <= Len(Catalog[a])
<1>1. a \in Api
  BY BuildAssumption
<1>2. p \in DOMAIN Catalog[a]
  BY DEF Listing
<1>3. Catalog[a] \in Seq(Seq(Item))
  BY <1>1, CatalogTyped
<1> QED
  BY <1>2, <1>3

LEMMA QueryInPages ==
  ASSUME IInv, PagesInv, NEW x \in Builder, Query(x)
  PROVE  PagesInv'
<1> DEFINE b == build[x]
           req == b.reqs[b.at]
           page == IF req.page = NoPage THEN NoPage ELSE req.page + b.round
           done == [req EXCEPT !.page = page]
<1>1. PICK c : /\ Set(x, c) /\ c.at = b.at /\ c.round = b.round
               /\ \/ c.pc = "query" /\ c.reqs = RemoveAt(b.reqs, b.at)
                  \/ /\ c.pc = "check" /\ Listing(req.api, page) # <<>>
                     /\ c.reqs = ReplaceAt(b.reqs, b.at, done)
  BY QueryAnswers
<1>2. b.pc = "query" /\ b.at <= Len(b.reqs)
  BY DEF Query
<1>3. b \in BuildState /\ AllInPages(b) /\ b.at \in 1..Len(b.reqs) + 1
  BY <1>2 DEF IInv, Good, PagesInv, IteratorsValid
<1> HIDE DEF b
<1>4. b.reqs \in RequestList /\ b.round \in Nat /\ b.at \in Nat
  BY <1>3 DEF BuildState, RequestList
<1>5. /\ Len(b.reqs) \in Nat /\ DOMAIN b.reqs = 1..Len(b.reqs)
      /\ b.at \in DOMAIN b.reqs
      /\ \A k \in DOMAIN b.reqs : b.reqs[k] \in [api : Api, page : Nat]
  <2>1. Len(b.reqs) \in Nat /\ DOMAIN b.reqs = 1..Len(b.reqs)
    BY <1>4, RequestTyped
  <2>2. b.at \in 1..Len(b.reqs)
    BY <1>2, <1>3, <2>1
  <2> QED
    BY <1>4, <2>1, <2>2, RequestTyped
<1>6. \A k \in DOMAIN b.reqs : InPages(b, k, b.reqs[k])
  BY <1>3 DEF AllInPages
<1>7. CASE c.pc = "query"
  <2> DEFINE r == RemoveAt(b.reqs, b.at)
  <2>1. /\ r \in RequestList /\ Len(r) = Len(b.reqs) - 1
        /\ \A k \in DOMAIN r :
             /\ k >= b.at => r[k] = b.reqs[k + 1] /\ k + 1 \in DOMAIN b.reqs
             /\ k < b.at => r[k] = b.reqs[k] /\ k \in DOMAIN b.reqs
    BY <1>4, <1>5, EraseRequest
  <2>2. DOMAIN r = 1..(Len(b.reqs) - 1)
    BY <2>1, RequestTyped
  <2>3. c.reqs = r /\ c.at = b.at /\ c.round = b.round /\ c.pc = b.pc
    BY <1>1, <1>2, <1>7
  <2> HIDE DEF r
  <2>4. ASSUME NEW k \in DOMAIN r PROVE InPages(c, k, r[k])
    <3>1. k \in Nat
      BY <1>5, <2>2
    <3>2. CASE k < b.at
      <4>1. InPages(b, k, r[k])
        BY <1>6, <2>1, <3>2
      <4>2. Passed(c, k) <=> Passed(b, k)
        BY <2>3 DEF Passed
      <4> QED
        BY <2>3, <4>1, <4>2 DEF InPages
    <3>3. CASE k >= b.at
      <4>1. InPages(b, k + 1, r[k])
        BY <1>6, <2>1, <3>3
      <4>2. ~Passed(c, k)
        BY <1>2, <1>4, <2>3, <3>1, <3>3 DEF Passed
      <4> QED
        BY <2>3, <4>1, <4>2 DEF InPages
    <3> QED
      BY <1>4, <3>1, <3>2, <3>3
  <2>5. AllInPages(c)
    BY <2>3, <2>4 DEF AllInPages
  <2> QED
    BY <1>1, <2>5, PagesMove
<1>8. CASE c.pc # "query"
  <2> DEFINE r == ReplaceAt(b.reqs, b.at, done)
  <2>1. req \in [api : Api, page : Nat] /\ page \in Nat
    BY <1>4, <1>5 DEF NoPage
  <2>2. done \in [api : Api, page : Nat] /\ done.api = req.api /\ done.page = page
    BY <2>1
  <2>3. InPages(b, b.at, req)
    BY <1>5, <1>6
  <2>4. Listing(req.api, page) # <<>>
    BY <1>1, <1>8
  <2>5. c.reqs = r /\ c.at = b.at /\ c.round = b.round
    BY <1>1, <1>8
  <2>6. InPages(c, b.at, done)
    <3> SUFFICES ASSUME done.api \in Paged
                 PROVE  /\ done.page > 0 /\ done.page > c.round
                        /\ done.page >= c.round
                        /\ done.page <= Len(Catalog[done.api])
      BY DEF InPages
    <3>1. page = req.page + b.round /\ req.page \in Nat /\ req.page > 0
      BY <2>1, <2>2, <2>3 DEF InPages, NoPage
    <3>2. page <= Len(Catalog[req.api])
      BY <2>1, <2>2, <2>4, ListedPages
    <3>3. page > 0 /\ page > b.round /\ page >= b.round
      BY <1>4, <3>1
    <3> QED
      BY <2>2, <2>5, <3>2, <3>3
  <2> HIDE DEF done, req, page
  <2>7. /\ r \in RequestList /\ Len(r) = Len(b.reqs) /\ r[b.at] = done
        /\ \A k \in DOMAIN b.reqs \ {b.at} : r[k] = b.reqs[k]
    BY <1>4, <1>5, <2>2, ReplaceRequest
  <2>8. DOMAIN r = DOMAIN b.reqs
    BY <1>5, <2>7, RequestTyped
  <2> HIDE DEF r
  <2>9. ASSUME NEW k \in DOMAIN r PROVE InPages(c, k, r[k])
    <3>1. CASE k = b.at
      BY <2>6, <2>7, <3>1
    <3>2. CASE k # b.at
      <4>1. InPages(b, k, r[k])
        BY <1>6, <2>7, <2>8, <3>2
      <4>2. Passed(c, k) <=> Passed(b, k)
        BY <2>5, <3>2 DEF Passed
      <4> QED
        BY <2>5, <4>1, <4>2 DEF InPages
    <3> QED
      BY <3>1, <3>2
  <2>10. AllInPages(c)
    BY <2>5, <2>9 DEF AllInPages
  <2> QED
    BY <1>1, <2>10, PagesMove
<1> QED
  BY <1>7, <1>8

\* A round that is over has answered every request that is left.
LEMMA EndRoundInPages ==
  ASSUME IInv, PagesInv, NEW x \in Builder, EndRound(x)
  PROVE  PagesInv'
<1> DEFINE b == build[x]
           round == IF b.round < MaxRound THEN b.round + 1 ELSE b.round
           more == [b EXCEPT !.at = 1, !.round = round]
           done == [b EXCEPT !.pc = "idle"]
<1>1. b.pc = "query" /\ b.at > Len(b.reqs) /\ (Set(x, more) \/ Set(x, done))
  BY DEF EndRound
<1>2. b \in BuildState /\ AllInPages(b)
  BY DEF IInv, Good, PagesInv
<1>3. /\ more.pc = "query" /\ more.at = 1 /\ more.reqs = b.reqs
      /\ more.round = round
  BY <1>1, <1>2 DEF BuildState
<1>4. /\ done.pc = "idle" /\ done.at = b.at /\ done.reqs = b.reqs
      /\ done.round = b.round
  BY <1>2 DEF BuildState
<1>5. b.reqs \in RequestList /\ b.round \in Nat /\ b.at \in Nat
  BY <1>2 DEF BuildState, RequestList
<1>6. /\ round = b.round \/ round = b.round + 1
      /\ round \in Nat
  BY <1>5
<1> HIDE DEF b, more, done, round
<1>7. /\ DOMAIN b.reqs = 1..Len(b.reqs) /\ Len(b.reqs) \in Nat
      /\ \A k \in DOMAIN b.reqs : b.reqs[k] \in [api : Api, page : Nat]
  BY <1>5, RequestTyped
<1>8. \A k \in DOMAIN b.reqs : Passed(b, k) /\ Passed(done, k) /\ ~Passed(more, k)
  BY <1>1, <1>3, <1>4, <1>5, <1>7 DEF Passed
<1>9. \A k \in DOMAIN b.reqs : InPages(b, k, b.reqs[k])
  BY <1>2 DEF AllInPages
<1>10. AllInPages(done)
  BY <1>4, <1>8, <1>9 DEF AllInPages, InPages
<1>11. AllInPages(more)
  <2>1. ASSUME NEW k \in DOMAIN b.reqs, b.reqs[k].api \in Paged
        PROVE  /\ b.reqs[k].page > 0 /\ b.reqs[k].page >= round
               /\ b.reqs[k].page <= Len(Catalog[b.reqs[k].api])
    <3>1. /\ b.reqs[k].page > 0 /\ b.reqs[k].page > b.round
          /\ b.reqs[k].page <= Len(Catalog[b.reqs[k].api])
      BY <1>8, <1>9, <2>1 DEF InPages
    <3>2. b.reqs[k].page \in Nat
      BY <1>7
    <3>3. b.reqs[k].page >= round
      BY <1>5, <1>6, <3>1, <3>2
    <3> QED
      BY <3>1, <3>3
  <2> QED
    BY <1>3, <1>8, <2>1 DEF AllInPages, InPages
<1> QED
  BY <1>1, <1>10, <1>11, PagesMove

LEMMA StartInPages ==
  ASSUME IInv, PagesInv, NEW x \in Builder, Start(x) \/ Abort(x) \/ Crash(x)
  PROVE  PagesInv'
<1>1. CASE Start(x)
  <2>1. PICK rs \in Requests, n \in Numbers :
          LET reqs == [k \in DOMAIN rs |->
                         IF rs[k].api \in Paged /\ rs[k].page = NoPage
                         THEN [rs[k] EXCEPT !.page = DefaultPage]
                         ELSE rs[k]]
          IN  Set(x, [Idle EXCEPT !.pc = "query", !.number = n,
                                  !.reqs = reqs, !.asked = reqs])
    BY <1>1 DEF Start
  <2> DEFINE reqs == [k \in DOMAIN rs |->
                        IF rs[k].api \in Paged /\ rs[k].page = NoPage
                        THEN [rs[k] EXCEPT !.page = DefaultPage]
                        ELSE rs[k]]
             c == [Idle EXCEPT !.pc = "query", !.number = n,
                               !.reqs = reqs, !.asked = reqs]
  <2>2. \A k \in DOMAIN rs : rs[k] \in [api : Api, page : Nat]
    BY BuildAssumption, ElementOf
  <2>3. ASSUME NEW k \in DOMAIN reqs, reqs[k].api \in Paged
        PROVE  reqs[k].page \in Nat /\ reqs[k].page > 0
    <3>1. k \in DOMAIN rs /\ rs[k] \in [api : Api, page : Nat]
      BY <2>2
    <3>2. CASE rs[k].api \in Paged /\ rs[k].page = NoPage
      <4>1. reqs[k] = [rs[k] EXCEPT !.page = DefaultPage]
        BY <3>1, <3>2
      <4>2. reqs[k].page = 1
        BY <3>1, <4>1 DEF DefaultPage
      <4> QED
        BY <4>2
    <3>3. CASE ~(rs[k].api \in Paged /\ rs[k].page = NoPage)
      <4>1. reqs[k] = rs[k]
        BY <3>1, <3>3
      <4> QED
        BY <2>3, <3>1, <3>3, <4>1 DEF NoPage
    <3> QED
      BY <3>2, <3>3
  <2>4. Set(x, c)
    BY <2>1
  <2>5. DOMAIN reqs \subseteq Nat \ {0}
    <3>1. rs \in Seq([api : Api, page : Nat])
      BY BuildAssumption
    <3> QED
      BY <3>1
  <2> HIDE DEF reqs
  <2>6. c.pc = "query" /\ c.reqs = reqs /\ c.at = 1 /\ c.round = 0
    BY DEF Idle
  <2> HIDE DEF c
  <2>7. \A k \in DOMAIN reqs : ~Passed(c, k)
    BY <2>5, <2>6 DEF Passed
  <2>8. AllInPages(c)
    BY <2>3, <2>6, <2>7 DEF AllInPages, InPages
  <2> QED
    BY <2>4, <2>8, PagesMove
<1>2. CASE Abort(x) \/ Crash(x)
  <2> DEFINE a == [Idle EXCEPT !.res = build[x].res, !.clean = FALSE]
             d == [Idle EXCEPT !.clean = FALSE]
  <2>1. Set(x, a) \/ Set(x, d)
    BY <1>2 DEF Abort, Crash
  <2>2. a.reqs = <<>> /\ d.reqs = <<>>
    BY DEF Idle
  <2> HIDE DEF a, d
  <2>3. AllInPages(a) /\ AllInPages(d)
    BY <2>2 DEF AllInPages
  <2> QED
    BY <2>1, <2>3, PagesMove
<1> QED
  BY <1>1, <1>2

\* A request of an API with pages is in the list for no more rounds than the
\* API has pages, whatever fails and whatever the other builds index: this is
\* what the end of a build rests on whose requests all have pages.  The round
\* counter of such a build does not get to its bound.
PagesRunOut ==
  \A x \in Builder : \A k \in DOMAIN build[x].reqs :
    LET api == build[x].reqs[k].api IN
    api \in Paged => /\ build[x].round <= Len(Catalog[api])
                     /\ build[x].round < MaxRound

THEOREM PagedRequestsRunOut == Spec => []PagesRunOut
<1>1. Init => PagesInv
  BY DEF Init, Idle, PagesInv, AllInPages
<1>2. IInv /\ PagesInv /\ [Next]_vars => PagesInv'
  <2> SUFFICES ASSUME IInv, PagesInv, [Next]_vars PROVE PagesInv'
    OBVIOUS
  <2>1. CASE UNCHANGED vars
    BY <2>1 DEF vars, PagesInv
  <2>2. ASSUME NEW x \in Builder, Step(x) PROVE PagesInv'
    BY <2>2, QueryInPages, FilesInPages, EndRoundInPages DEF Step
  <2>3. ASSUME NEW x \in Builder, Start(x) \/ Abort(x) \/ Crash(x)
        PROVE  PagesInv'
    BY <2>3, StartInPages
  <2> QED
    BY <2>1, <2>2, <2>3 DEF Next
<1>3. IInv /\ PagesInv => PagesRunOut
  <2> SUFFICES ASSUME IInv, PagesInv, NEW x \in Builder,
                      NEW k \in DOMAIN build[x].reqs,
                      build[x].reqs[k].api \in Paged
               PROVE  LET m == Len(Catalog[build[x].reqs[k].api])
                      IN  build[x].round <= m /\ build[x].round < MaxRound
    BY DEF PagesRunOut
  <2> DEFINE b == build[x]
             req == b.reqs[k]
             m == Len(Catalog[req.api])
  <2>1. b \in BuildState /\ InPages(b, k, req)
    BY DEF IInv, Good, PagesInv, AllInPages
  <2>2. b.reqs \in RequestList /\ b.round \in Nat
    BY <2>1 DEF BuildState, RequestList
  <2>3. req \in [api : Api, page : Nat]
    BY <2>2, RequestTyped
  <2>4. m \in Nat /\ MaxRound > m
    BY <2>3, CatalogTyped, BuildAssumption
  <2>5. b.round <= m
    BY <2>1, <2>2, <2>3, <2>4 DEF InPages
  <2>6. MaxRound \in Nat
    BY BuildAssumption
  <2> HIDE DEF b, m
  <2> QED
    BY <2>2, <2>4, <2>5, <2>6 DEF b, m
<1> QED
  BY <1>1, <1>2, <1>3, Invariant, PTL DEF Spec
===============================================================================
