---------------------------- MODULE PoolDBProofs ----------------------------
(***************************************************************************)
(* For any number of clients, connections and any pool size: no connection *)
(* is ever in the hands of two threads, the pool stays as small as it can  *)
(* (PoolBounded), and PoolDB implements ConnectionLease.                   *)
(***************************************************************************)
EXTENDS PoolDB, FiniteSetTheorems, TLAPS

(***************************************************************************)
(* Facts about queues.                                                     *)
(***************************************************************************)

\* A queue of the connections of S holds each of them once.
LEMMA QueueOfSet ==
  ASSUME NEW S, IsFiniteSet(S), NEW q \in Queues(S)
  PROVE  q \in Seq(S) /\ IsInjective(q) /\ Range(q) = S
<1>1. Cardinality(S) \in Nat
  BY FS_CardinalityType
<1>2. q \in [1..Cardinality(S) -> S] /\ IsInjective(q)
      /\ \A t \in S : \E i \in 1..Cardinality(S) : q[i] = t
  BY DEF Queues, Bijection, Injection, Surjection
<1>3. q \in Seq(S)
  BY <1>1, <1>2
<1>4. Range(q) = S
  BY <1>2 DEF Range
<1> QED
  BY <1>2, <1>3, <1>4

\* Pushing a connection that is not queued.
LEMMA Push ==
  ASSUME NEW T, NEW q \in Seq(T), NEW k \in T
  PROVE  /\ Append(q, k) \in Seq(T)
         /\ Range(Append(q, k)) = Range(q) \cup {k}
         /\ IsInjective(q) /\ k \notin Range(q) => IsInjective(Append(q, k))
<1> DEFINE r == Append(q, k)
<1>1. r \in Seq(T) /\ Len(r) = Len(q) + 1
  OBVIOUS
<1>2. \A i \in 1..Len(q) : r[i] = q[i]
  OBVIOUS
<1>3. r[Len(q) + 1] = k
  OBVIOUS
<1>4. DOMAIN r = 1..(Len(q) + 1) /\ DOMAIN q = 1..Len(q) /\ Len(q) \in Nat
  BY <1>1
<1> HIDE DEF r
<1>5. Range(r) = Range(q) \cup {k}
  <2>1. ASSUME NEW x \in Range(r) PROVE x \in Range(q) \cup {k}
    <3>1. PICK i \in 1..(Len(q) + 1) : x = r[i]
      BY <1>4 DEF Range
    <3>2. CASE i = Len(q) + 1
      BY <3>1, <3>2, <1>3
    <3>3. CASE i \in 1..Len(q)
      BY <3>1, <3>3, <1>2, <1>4 DEF Range
    <3> QED
      BY <3>1, <3>2, <3>3, <1>4
  <2>2. ASSUME NEW x \in Range(q) \cup {k} PROVE x \in Range(r)
    <3>1. CASE x = k
      BY <3>1, <1>3, <1>4 DEF Range
    <3>2. CASE x \in Range(q)
      <4>1. PICK i \in 1..Len(q) : x = q[i]
        BY <3>2, <1>4 DEF Range
      <4>2. i \in 1..(Len(q) + 1) /\ x = r[i]
        BY <4>1, <1>2, <1>4
      <4> QED
        BY <4>2, <1>4 DEF Range
    <3> QED
      BY <3>1, <3>2
  <2> QED
    BY <2>1, <2>2
<1>6. ASSUME IsInjective(q), k \notin Range(q) PROVE IsInjective(r)
  <2> SUFFICES ASSUME NEW i \in 1..(Len(q) + 1), NEW j \in 1..(Len(q) + 1),
                      r[i] = r[j]
               PROVE  i = j
    BY <1>4 DEF IsInjective
  <2>1. \A n \in 1..Len(q) : q[n] # k
    BY <1>6, <1>4 DEF Range
  <2>2. CASE i \in 1..Len(q) /\ j \in 1..Len(q)
    BY <2>2, <1>2, <1>4, <1>6 DEF IsInjective
  <2>3. CASE i = Len(q) + 1 /\ j \in 1..Len(q)
    BY <2>1, <2>3, <1>2, <1>3
  <2>4. CASE j = Len(q) + 1 /\ i \in 1..Len(q)
    BY <2>1, <2>4, <1>2, <1>3
  <2> QED
    BY <2>2, <2>3, <2>4, <1>4
<1> QED
  BY <1>1, <1>5, <1>6 DEF r

\* Popping the front of a queue without duplicates.
LEMMA Pop ==
  ASSUME NEW T, NEW q \in Seq(T), q # <<>>, IsInjective(q)
  PROVE  /\ Tail(q) \in Seq(T) /\ IsInjective(Tail(q))
         /\ Head(q) \in Range(q)
         /\ Range(Tail(q)) = Range(q) \ {Head(q)}
<1> DEFINE r == Tail(q)
<1>1. r \in Seq(T) /\ Len(r) = Len(q) - 1 /\ Len(q) \in Nat \ {0}
  OBVIOUS
<1>2. \A i \in 1..(Len(q) - 1) : r[i] = q[i + 1]
  OBVIOUS
<1>3. Head(q) = q[1] /\ DOMAIN q = 1..Len(q)
  OBVIOUS
<1>4. DOMAIN r = 1..(Len(q) - 1)
  BY <1>1
<1> HIDE DEF r
<1>5. IsInjective(r)
  <2> SUFFICES ASSUME NEW i \in 1..(Len(q) - 1), NEW j \in 1..(Len(q) - 1),
                      r[i] = r[j]
               PROVE  i = j
    BY <1>4 DEF IsInjective
  <2>1. i + 1 \in 1..Len(q) /\ j + 1 \in 1..Len(q) /\ q[i + 1] = q[j + 1]
    BY <1>1, <1>2
  <2>2. i + 1 = j + 1
    BY <2>1, <1>3 DEF IsInjective
  <2> QED
    BY <2>2
<1>6. Head(q) \in Range(q)
  BY <1>1, <1>3 DEF Range
<1>7. ASSUME NEW x \in Range(r) PROVE x \in Range(q) \ {Head(q)}
  <2>1. PICK i \in 1..(Len(q) - 1) : x = q[i + 1]
    BY <1>2, <1>4 DEF Range
  <2>2. i + 1 \in 1..Len(q) /\ 1 \in 1..Len(q) /\ i + 1 # 1
    BY <1>1
  <2>3. q[i + 1] # q[1]
    BY <2>2, <1>3 DEF IsInjective
  <2> QED
    BY <2>1, <2>2, <2>3, <1>3 DEF Range
<1>8. ASSUME NEW x \in Range(q) \ {Head(q)} PROVE x \in Range(r)
  <2>1. PICK i \in 1..Len(q) : x = q[i]
    BY <1>3 DEF Range
  <2>2. i # 1
    BY <2>1, <1>3
  <2>3. i - 1 \in 1..(Len(q) - 1) /\ (i - 1) + 1 = i
    BY <2>2, <1>1
  <2>4. x = r[i - 1]
    BY <2>1, <2>3, <1>2
  <2> QED
    BY <2>3, <2>4, <1>4 DEF Range
<1> QED
  BY <1>1, <1>5, <1>6, <1>7, <1>8 DEF r

(***************************************************************************)
(* The inductive invariant.  ExclusiveLease needs PoolPartition (a queued  *)
(* connection is in nobody's hands), which close_pool would break if it    *)
(* ran under a client: that is what QuietInit excludes.                    *)
(***************************************************************************)
IInv ==
  /\ TypeOK
  /\ ExclusiveLease
  /\ PoolPartition
  /\ QuietInit
  /\ PooledAreOpen

LEMMA InitIInv == Init => IInv
<1> SUFFICES ASSUME Init PROVE IInv
  OBVIOUS
<1>1. Idle = {} /\ Held = {} /\ IsInjective(available)
  BY DEF Init, Idle, Held, Range, IsInjective
<1>2. TypeOK
  BY DEF Init, TypeOK, Phase
<1> QED
  BY <1>1, <1>2 DEF Init, IInv, ExclusiveLease, PoolPartition, QuietInit,
    PooledAreOpen, Owned

\* Dropping handles only takes members out of Held.
LEMMA DropHandles ==
  ASSUME IInv, NEW c \in Client, NEW S \in SUBSET handles[c],
         handles' = [handles EXCEPT ![c] = S]
  PROVE  /\ handles' \in [Client -> SUBSET Conn]
         /\ \A d \in Client : handles'[d] \subseteq handles[d]
         /\ Held' \subseteq Held
         /\ ExclusiveLease'
<1>1. handles \in [Client -> SUBSET Conn] /\ ExclusiveLease
  BY DEF IInv, TypeOK
<1>2. handles' \in [Client -> SUBSET Conn]
  BY <1>1
<1>3. \A d \in Client : handles'[d] \subseteq handles[d]
  BY <1>1
<1>4. Held' \subseteq Held
  BY <1>3 DEF Held
<1>5. ExclusiveLease'
  BY <1>1, <1>3 DEF ExclusiveLease
<1> QED
  BY <1>2, <1>3, <1>4, <1>5

\* Lending a connection that is in nobody's hands keeps the leases exclusive.
LEMMA LendFree ==
  ASSUME IInv, NEW c \in Client, NEW k \in Conn \ Held,
         handles' = [handles EXCEPT ![c] = @ \cup {k}]
  PROVE  /\ handles' \in [Client -> SUBSET Conn]
         /\ Held' = Held \cup {k}
         /\ ExclusiveLease'
<1>1. handles \in [Client -> SUBSET Conn] /\ ExclusiveLease
  BY DEF IInv, TypeOK
<1>2. handles' \in [Client -> SUBSET Conn]
  BY <1>1
<1>3. \A d \in Client : handles'[d] = IF d = c THEN handles[d] \cup {k}
                                               ELSE handles[d]
  BY <1>1
<1>4. Held' = Held \cup {k}
  BY <1>3 DEF Held
<1>5. \A d \in Client : k \notin handles[d]
  BY DEF Held
<1>6. ExclusiveLease'
  BY <1>1, <1>3, <1>5 DEF ExclusiveLease
<1> QED
  BY <1>2, <1>4, <1>6

(***************************************************************************)
(* One lemma per action.                                                   *)
(***************************************************************************)
LEMMA ClosePoolStep == IInv /\ ClosePool => IInv'
<1> SUFFICES ASSUME IInv, ClosePool PROVE IInv'
  OBVIOUS
<1>1. Held' = Held /\ Held = {}
  BY DEF ClosePool, Held, IInv, QuietInit
<1>2. Idle' = {} /\ IsInjective(available')
  BY DEF ClosePool, Idle, Range, IsInjective
<1>3. TypeOK'
  BY DEF IInv, TypeOK, Phase, ClosePool
<1> QED
  BY <1>1, <1>2, <1>3 DEF ClosePool, IInv, ExclusiveLease, PoolPartition,
    QuietInit, PooledAreOpen, Owned

\* A pool filled with fresh connections, whatever phase comes next.
LEMMA FillStep ==
  ASSUME IInv, PoolAssumption, phase = "filling",
         NEW S \in SUBSET Fresh, NEW q \in Queues(S),
         available' = available \o q,
         live \cup S \subseteq live', live' \subseteq Conn,
         UNCHANGED <<borrowed, handles>>, phase' \in {"creating", "closing"}
  PROVE  IInv'
<1>1. IsFiniteSet(S) /\ S \subseteq Conn
  BY FS_Subset DEF Fresh, PoolAssumption
<1>2. q \in Seq(S) /\ IsInjective(q) /\ Range(q) = S
  BY <1>1, QueueOfSet
<1>3. available = <<>> /\ borrowed = {} /\ Held = {}
  BY DEF IInv, QuietInit
<1>4. available' = q
  BY <1>2, <1>3
<1>5. q \in Seq(Conn)
  BY <1>1, <1>2
<1>6. Idle' = S /\ Held' = {}
  BY <1>2, <1>3, <1>4 DEF Idle, Held
<1>7. TypeOK'
  BY <1>1, <1>4, <1>5 DEF IInv, TypeOK, Phase
<1>8. \A c \in Client : handles[c] = {}
  BY <1>3 DEF Held
<1> QED
  BY <1>2, <1>3, <1>4, <1>6, <1>7, <1>8 DEF IInv, ExclusiveLease,
    PoolPartition, QuietInit, PooledAreOpen, Owned

LEMMA FillPoolStep == IInv /\ PoolAssumption /\ FillPool => IInv'
<1> SUFFICES ASSUME IInv, PoolAssumption, FillPool PROVE IInv'
  OBVIOUS
<1>1. PICK S \in SUBSET Fresh :
        /\ \E q \in Queues(S) : available' = available \o q
        /\ live' = live \cup S
  BY DEF FillPool
<1>2. PICK q \in Queues(S) : available' = available \o q
  BY <1>1
<1>3. live \cup S \subseteq live' /\ live' \subseteq Conn
  BY <1>1 DEF Fresh, Owned, IInv, TypeOK
<1> QED
  BY <1>2, <1>3, FillStep DEF FillPool

LEMMA FillFailsStep == IInv /\ PoolAssumption /\ FillFails => IInv'
<1> SUFFICES ASSUME IInv, PoolAssumption, FillFails PROVE IInv'
  OBVIOUS
<1>1. PICK S \in SUBSET Fresh, L \in SUBSET Fresh :
        /\ \E q \in Queues(S) : available' = available \o q
        /\ live' = live \cup S \cup L
  BY DEF FillFails
<1>2. PICK q \in Queues(S) : available' = available \o q
  BY <1>1
<1>3. live \cup S \subseteq live' /\ live' \subseteq Conn
  BY <1>1 DEF Fresh, Owned, IInv, TypeOK
<1> QED
  BY <1>1, <1>2, <1>3, FillStep DEF FillFails

LEMMA CreateDoneStep == IInv /\ CreateDone => IInv'
<1> SUFFICES ASSUME IInv, CreateDone PROVE IInv'
  OBVIOUS
<1>1. Held' = Held /\ Idle' = Idle
  BY DEF CreateDone, Held, Idle
<1> QED
  BY <1>1 DEF CreateDone, IInv, TypeOK, Phase, ExclusiveLease, PoolPartition,
    QuietInit, PooledAreOpen, Owned

\* An active client may change its own handles without disturbing QuietInit.
LEMMA ActiveQuiet ==
  ASSUME IInv, NEW c \in Client, phase \in {"creating", "running"},
         phase = "creating" => c = Boot,
         \A d \in Client \ {c} : handles'[d] = handles[d], phase' = phase
  PROVE  QuietInit'
  BY DEF IInv, QuietInit

LEMMA BorrowAvailableStep ==
  ASSUME IInv, NEW c \in Client, BorrowAvailable(c)
  PROVE  IInv'
<1> DEFINE k == Head(available)
<1>1. /\ available \in Seq(Conn) /\ IsInjective(available) /\ available # <<>>
      /\ handles \in [Client -> SUBSET Conn]
  BY DEF IInv, TypeOK, PoolPartition, BorrowAvailable
<1>2. /\ Tail(available) \in Seq(Conn) /\ IsInjective(Tail(available))
      /\ k \in Idle /\ Idle' = Idle \ {k}
  BY <1>1, Pop DEF Idle, BorrowAvailable
<1>3. k \in Conn \ Held
  BY <1>1, <1>2 DEF IInv, PoolPartition
<1>4. /\ handles' \in [Client -> SUBSET Conn]
      /\ Held' = Held \cup {k}
      /\ ExclusiveLease'
  BY <1>3, LendFree DEF BorrowAvailable
<1>5. TypeOK'
  BY <1>2, <1>3, <1>4 DEF IInv, TypeOK, BorrowAvailable
<1>6. PoolPartition' /\ PooledAreOpen'
  BY <1>2, <1>4 DEF IInv, PoolPartition, PooledAreOpen, Owned, BorrowAvailable
<1>7. QuietInit'
  BY <1>1, ActiveQuiet DEF BorrowAvailable, MayBorrow, Active
<1> QED
  BY <1>4, <1>5, <1>6, <1>7 DEF IInv

LEMMA BorrowReclaimedStep ==
  ASSUME IInv, PoolAssumption, NEW c \in Client, BorrowReclaimed(c)
  PROVE  IInv'
<1>1. PICK q \in Queues(Abandoned) :
        /\ available' = Tail(q)
        /\ borrowed' = (borrowed \ Abandoned) \cup {Head(q)}
        /\ handles' = [handles EXCEPT ![c] = @ \cup {Head(q)}]
  BY DEF BorrowReclaimed
<1> DEFINE k == Head(q)
<1>2. Abandoned \subseteq Conn /\ IsFiniteSet(Abandoned) /\ Abandoned # {}
  BY FS_Subset DEF Abandoned, IInv, TypeOK, PoolAssumption, BorrowReclaimed
<1>3. q \in Seq(Abandoned) /\ IsInjective(q) /\ Range(q) = Abandoned
  BY <1>2, QueueOfSet
<1>4. q # <<>>
  BY <1>2, <1>3 DEF Range
<1>5. /\ Tail(q) \in Seq(Abandoned) /\ IsInjective(Tail(q))
      /\ k \in Abandoned /\ Range(Tail(q)) = Abandoned \ {k}
  BY <1>3, <1>4, Pop
<1>6. k \in Conn \ Held /\ k \in borrowed
  BY <1>2, <1>5 DEF Abandoned
<1>7. /\ handles' \in [Client -> SUBSET Conn]
      /\ Held' = Held \cup {k}
      /\ ExclusiveLease'
  BY <1>1, <1>6, LendFree
<1>8. Tail(q) \in Seq(Conn)
  BY <1>2, <1>5
<1>9. TypeOK'
  BY <1>1, <1>6, <1>7, <1>8 DEF IInv, TypeOK, BorrowReclaimed
<1>10. Idle' = Abandoned \ {k}
  BY <1>1, <1>5 DEF Idle
<1>11. PoolPartition'
  <2>1. Held \subseteq borrowed \ Abandoned
    BY DEF IInv, PoolPartition, Abandoned
  <2> QED
    BY <1>1, <1>5, <1>7, <1>10, <2>1 DEF PoolPartition
<1>12. PooledAreOpen'
  BY <1>1, <1>6, <1>10
     DEF IInv, PooledAreOpen, Owned, BorrowReclaimed, Abandoned
<1>13. QuietInit'
  BY <1>1, ActiveQuiet DEF BorrowReclaimed, MayBorrow, Active, IInv, TypeOK
<1> QED
  BY <1>7, <1>9, <1>11, <1>12, <1>13 DEF IInv

LEMMA BorrowNewStep ==
  ASSUME IInv, NEW c \in Client, BorrowNew(c)
  PROVE  IInv'
<1>1. PICK k \in Fresh : /\ borrowed' = borrowed \cup {k}
                         /\ handles' = [handles EXCEPT ![c] = @ \cup {k}]
                         /\ live' = live \cup {k}
  BY DEF BorrowNew
<1>2. k \in Conn \ Held /\ k \notin Idle
  BY DEF Fresh, Owned
<1>3. /\ handles' \in [Client -> SUBSET Conn]
      /\ Held' = Held \cup {k}
      /\ ExclusiveLease'
  BY <1>1, <1>2, LendFree
<1>4. Idle' = Idle /\ available' = available
  BY DEF Idle, BorrowNew
<1>5. TypeOK'
  BY <1>1, <1>2, <1>3, <1>4 DEF IInv, TypeOK, BorrowNew
<1>6. PoolPartition' /\ PooledAreOpen'
  BY <1>1, <1>2, <1>3, <1>4 DEF IInv, PoolPartition, PooledAreOpen, Owned
<1>7. QuietInit'
  BY <1>1, ActiveQuiet DEF BorrowNew, MayBorrow, Active, IInv, TypeOK
<1> QED
  BY <1>3, <1>5, <1>6, <1>7 DEF IInv

\* What an exception leaves behind.
LEMMA UnwoundStep ==
  ASSUME IInv, NEW c \in Client, Active(c), Unwound(c),
         UNCHANGED <<available, borrowed>>,
         live \subseteq live', live' \subseteq Conn
  PROVE  IInv'
<1>1. /\ handles' \in [Client -> SUBSET Conn]
      /\ \A d \in Client : handles'[d] \subseteq handles[d]
      /\ Held' \subseteq Held
      /\ ExclusiveLease'
  BY DropHandles DEF Unwound
<1>2. Idle' = Idle
  BY DEF Idle
<1>3. TypeOK'
  BY <1>1 DEF IInv, TypeOK, Phase, Unwound
<1>4. PoolPartition' /\ PooledAreOpen'
  BY <1>1, <1>2 DEF IInv, PoolPartition, PooledAreOpen, Owned
<1>5. QuietInit'
  <2>1. CASE phase = "creating"
    <3>1. phase' = "closing" /\ c = Boot
      BY <2>1 DEF Unwound, Active
    <3>2. \A d \in Client : handles'[d] = {}
      BY <2>1, <3>1 DEF Unwound, IInv, TypeOK, QuietInit
    <3> QED
      BY <3>1, <3>2 DEF QuietInit, Held
  <2>2. CASE phase = "running"
    BY <2>2 DEF Unwound, QuietInit
  <2> QED
    BY <2>1, <2>2 DEF Active
<1> QED
  BY <1>1, <1>3, <1>4, <1>5 DEF IInv

LEMMA BorrowFailsStep ==
  ASSUME IInv, NEW c \in Client, BorrowFails(c)
  PROVE  IInv'
<1>1. live \subseteq live' /\ live' \subseteq Conn
  BY DEF BorrowFails, Fresh, IInv, TypeOK
<1> QED
  BY <1>1, UnwoundStep DEF BorrowFails, MayBorrow

LEMMA ThrowStep ==
  ASSUME IInv, NEW c \in Client, Throw(c)
  PROVE  IInv'
<1>1. live \subseteq live' /\ live' \subseteq Conn
  BY DEF Throw, IInv, TypeOK
<1> QED
  BY <1>1, UnwoundStep DEF Throw

\* Handles that go without an exception.
LEMMA DropQuiet ==
  ASSUME IInv, NEW c \in Client,
         \A d \in Client : handles'[d] \subseteq handles[d],
         handles[c] # {}, phase' = phase
  PROVE  QuietInit'
<1>1. phase \notin {"closing", "filling"}
  BY DEF IInv, QuietInit, Held
<1>2. phase = "creating" => \A d \in Client \ {Boot} : handles'[d] = {}
  BY DEF IInv, QuietInit
<1> QED
  BY <1>1, <1>2 DEF QuietInit

LEMMA UnborrowStep ==
  ASSUME IInv, NEW c \in Client, NEW k \in Conn, Unborrow(c, k)
  PROVE  IInv'
<1>1. /\ handles' \in [Client -> SUBSET Conn]
      /\ \A d \in Client : handles'[d] \subseteq handles[d]
      /\ Held' \subseteq Held
      /\ ExclusiveLease'
  BY DropHandles DEF Unborrow
<1>2. k \notin Held'
  <2>1. \A d \in Client : k \notin handles'[d]
    BY DEF Unborrow, IInv, TypeOK, ExclusiveLease
  <2> QED
    BY <2>1 DEF Held
<1>3. k \in borrowed /\ k \notin Idle
  BY DEF Unborrow, IInv, PoolPartition
<1>4. available \in Seq(Conn) /\ IsInjective(available)
  BY DEF IInv, TypeOK, PoolPartition
<1>5. /\ available' \in Seq(Conn)
      /\ Idle' = Idle \cup {k}
      /\ IsInjective(available')
  BY <1>3, <1>4, Push DEF Unborrow, Idle
<1>6. TypeOK'
  BY <1>1, <1>5 DEF Unborrow, IInv, TypeOK
<1>7. PoolPartition' /\ PooledAreOpen'
  BY <1>1, <1>2, <1>3, <1>5
     DEF Unborrow, IInv, PoolPartition, PooledAreOpen, Owned
<1>8. QuietInit'
  BY <1>1, DropQuiet DEF Unborrow
<1> QED
  BY <1>1, <1>6, <1>7, <1>8 DEF IInv

LEMMA ReturnEarlyStep ==
  ASSUME IInv, NEW c \in Client, NEW k \in Conn, ReturnEarly(c, k)
  PROVE  IInv'
<1>1. /\ handles' \in [Client -> SUBSET Conn]
      /\ \A d \in Client : handles'[d] \subseteq handles[d]
      /\ Held' \subseteq Held
      /\ ExclusiveLease'
  BY DropHandles DEF ReturnEarly
<1>2. Idle' = Idle
  BY DEF ReturnEarly, Idle
<1>3. TypeOK' /\ PoolPartition' /\ PooledAreOpen'
  BY <1>1, <1>2
     DEF ReturnEarly, IInv, TypeOK, PoolPartition, PooledAreOpen, Owned
<1>4. QuietInit'
  BY <1>1, DropQuiet DEF ReturnEarly
<1> QED
  BY <1>1, <1>3, <1>4 DEF IInv

LEMMA Stutter == IInv /\ UNCHANGED vars => IInv'
  BY DEF IInv, vars, TypeOK, ExclusiveLease, PoolPartition, QuietInit,
    PooledAreOpen, Idle, Held, Owned

LEMMA NextIInv == IInv /\ PoolAssumption /\ [Next]_vars => IInv'
<1> SUFFICES ASSUME IInv, PoolAssumption, [Next]_vars PROVE IInv'
  OBVIOUS
<1>1. CASE ClosePool
  BY <1>1, ClosePoolStep
<1>2. CASE FillPool
  BY <1>2, FillPoolStep
<1>3. CASE FillFails
  BY <1>3, FillFailsStep
<1>4. CASE CreateDone
  BY <1>4, CreateDoneStep
<1>5. ASSUME NEW c \in Client, ClientNext(c) PROVE IInv'
  BY <1>5, BorrowAvailableStep, BorrowReclaimedStep, BorrowNewStep,
     BorrowFailsStep, UnborrowStep, ThrowStep, ReturnEarlyStep DEF ClientNext
<1>6. CASE UNCHANGED vars
  BY <1>6, Stutter
<1> QED
  BY <1>1, <1>2, <1>3, <1>4, <1>5, <1>6 DEF Next

LEMMA Inductive == Spec => []IInv
  BY InitIInv, NextIInv, PoolAssumption, PTL DEF Spec

(***************************************************************************)
(* The theorems.                                                           *)
(***************************************************************************)

\* The pool's variables keep their types.
THEOREM TypeCorrect == Spec => []TypeOK
<1>1. IInv => TypeOK
  BY DEF IInv
<1> QED
  BY Inductive, <1>1, PTL

\* No connection is ever in the hands of two threads.
THEOREM Exclusion == Spec => []ExclusiveLease
<1>1. IInv => ExclusiveLease
  BY DEF IInv
<1> QED
  BY Inductive, <1>1, PTL

\* Queued and lent connections stay apart, and all of them are open.
THEOREM Partition == Spec => [](PoolPartition /\ PooledAreOpen)
<1>1. IInv => PoolPartition /\ PooledAreOpen
  BY DEF IInv
<1> QED
  BY Inductive, <1>1, PTL

\* close_pool never closes a connection a thread is using.
THEOREM InitIsQuiet == Spec => []QuietInit
<1>1. IInv => QuietInit
  BY DEF IInv
<1> QED
  BY Inductive, <1>1, PTL

(***************************************************************************)
(* Refinement.                                                             *)
(***************************************************************************)
LEMMA LeasedIsHeld == IInv => Lease!Leased = Held
<1> SUFFICES ASSUME IInv PROVE Lease!Leased = Held
  OBVIOUS
<1>1. Held \subseteq Conn
  BY DEF Held, IInv, TypeOK
<1>2. \A c \in Client, k \in Conn : <<c, k>> \in LeaseSet <=> k \in handles[c]
  BY DEF LeaseSet
<1>3. \A k \in Conn : k \in Held <=> \E c \in Client : k \in handles[c]
  BY DEF Held
<1> QED
  BY <1>1, <1>2, <1>3 DEF Lease!Leased

LEMMA LendMapped ==
  ASSUME IInv, NEW c \in Client, NEW k \in Conn,
         handles' = [handles EXCEPT ![c] = @ \cup {k}]
  PROVE  LeaseSet' = LeaseSet \cup {<<c, k>>}
<1>1. \A d \in Client : handles'[d] = IF d = c THEN handles[d] \cup {k}
                                               ELSE handles[d]
  BY DEF IInv, TypeOK
<1>2. \A d \in Client, m \in Conn :
        <<d, m>> \in LeaseSet' <=> <<d, m>> \in LeaseSet \cup {<<c, k>>}
  BY <1>1 DEF LeaseSet
<1>3. LeaseSet' \subseteq Client \X Conn
      /\ LeaseSet \cup {<<c, k>>} \subseteq Client \X Conn
  BY DEF LeaseSet
<1> QED
  BY <1>2, <1>3

LEMMA DropMapped ==
  ASSUME IInv, NEW c \in Client, NEW S \in SUBSET Conn,
         handles' = [handles EXCEPT ![c] = @ \ S]
  PROVE  LeaseSet' = LeaseSet \ ({c} \X S)
<1>1. \A d \in Client : handles'[d] = IF d = c THEN handles[d] \ S
                                               ELSE handles[d]
  BY DEF IInv, TypeOK
<1>2. \A d \in Client, m \in Conn :
        <<d, m>> \in LeaseSet' <=> <<d, m>> \in LeaseSet \ ({c} \X S)
  BY <1>1 DEF LeaseSet
<1>3. LeaseSet' \subseteq Client \X Conn
      /\ LeaseSet \ ({c} \X S) \subseteq Client \X Conn
  BY DEF LeaseSet
<1> QED
  BY <1>2, <1>3

\* Giving back, forgetting and unwinding release leases.
LEMMA ReleaseMapped ==
  ASSUME IInv, NEW c \in Client, NEW S \in SUBSET Conn,
         handles' = [handles EXCEPT ![c] = @ \ S], Owned' = Owned
  PROVE  Lease!Release(c)
  BY DropMapped DEF Lease!Release

\* Lending a connection the pool owns, after any reshuffle of the queue.
LEMMA LeaseMapped ==
  ASSUME IInv, NEW c \in Client, NEW k \in Owned \ Held,
         handles' = [handles EXCEPT ![c] = @ \cup {k}], Owned' = Owned
  PROVE  Lease!Lease(c)
<1>1. k \in Conn
  BY DEF IInv, PooledAreOpen, TypeOK
<1>2. LeaseSet' = LeaseSet \cup {<<c, k>>}
  BY <1>1, LendMapped
<1> QED
  BY <1>2, LeasedIsHeld DEF Lease!Lease

\* Steps of init change the pool only, and nobody holds a connection.
LEMMA InitMapped ==
  ASSUME IInv, IInv', Held = {}, UNCHANGED handles,
         Owned' = {} \/ Owned \subseteq Owned'
  PROVE  Lease!Close \/ Lease!Fill
<1>1. LeaseSet' = LeaseSet
  BY DEF LeaseSet
<1>2. CASE Owned' = {}
  BY <1>1, <1>2 DEF Lease!Close
<1>3. CASE Owned \subseteq Owned'
  <2>1. Owned' \ Owned \in SUBSET (Conn \ (Owned \cup Lease!Leased))
    BY LeasedIsHeld DEF IInv, TypeOK, PooledAreOpen
  <2>2. Owned' = Owned \cup (Owned' \ Owned)
    BY <1>3
  <2> QED
    BY <1>1, <2>1, <2>2 DEF Lease!Fill
<1> QED
  BY <1>2, <1>3

\* Every call of a client is a lease, a growth or a release.
LEMMA ClientMapped ==
  ASSUME IInv, PoolAssumption, NEW c \in Client, ClientNext(c)
  PROVE  Lease!Lease(c) \/ Lease!Grow(c) \/ Lease!Release(c)
<1>1. CASE BorrowAvailable(c)
  <2>1. /\ available \in Seq(Conn) /\ IsInjective(available)
        /\ available # <<>>
    BY <1>1 DEF BorrowAvailable, IInv, TypeOK, PoolPartition
  <2>2. Head(available) \in Idle /\ Idle' = Idle \ {Head(available)}
    BY <1>1, <2>1, Pop DEF BorrowAvailable, Idle
  <2>3. Head(available) \in Owned \ Held /\ Owned' = Owned
    BY <1>1, <2>2 DEF BorrowAvailable, Owned, IInv, PoolPartition
  <2> QED
    BY <1>1, <2>3, LeaseMapped DEF BorrowAvailable
<1>2. CASE BorrowReclaimed(c)
  <2>1. PICK q \in Queues(Abandoned) :
          /\ available' = Tail(q)
          /\ borrowed' = (borrowed \ Abandoned) \cup {Head(q)}
          /\ handles' = [handles EXCEPT ![c] = @ \cup {Head(q)}]
    BY <1>2 DEF BorrowReclaimed
  <2>2. IsFiniteSet(Abandoned) /\ Abandoned # {} /\ Abandoned \subseteq borrowed
    BY <1>2, FS_Subset DEF Abandoned, IInv, TypeOK, PoolAssumption,
      BorrowReclaimed
  <2>3. q \in Seq(Abandoned) /\ IsInjective(q) /\ Range(q) = Abandoned
    BY <2>2, QueueOfSet
  <2>4. q # <<>>
    BY <2>2, <2>3 DEF Range
  <2>5. Head(q) \in Abandoned /\ Range(Tail(q)) = Abandoned \ {Head(q)}
    BY <2>3, <2>4, Pop
  <2>6. Idle = {}
    BY <1>2 DEF BorrowReclaimed, Idle, Range
  <2>7. Idle' = Abandoned \ {Head(q)}
    BY <2>1, <2>5 DEF Idle
  <2>8. Head(q) \in Owned \ Held /\ Owned' = Owned
    BY <2>1, <2>2, <2>5, <2>6, <2>7 DEF Owned, Abandoned
  <2> QED
    BY <2>1, <2>8, LeaseMapped
<1>3. CASE BorrowNew(c)
  <2>1. PICK k \in Fresh : /\ borrowed' = borrowed \cup {k}
                           /\ handles' = [handles EXCEPT ![c] = @ \cup {k}]
    BY <1>3 DEF BorrowNew
  <2>2. k \in Conn \ (Owned \cup Held)
    BY DEF Fresh
  <2>3. Owned \subseteq Held
    BY <1>3 DEF BorrowNew, Abandoned, Owned, Idle, Range
  <2>4. Owned' = Owned \cup {k}
    BY <1>3, <2>1 DEF BorrowNew, Owned, Idle
  <2>5. LeaseSet' = LeaseSet \cup {<<c, k>>}
    BY <2>1, <2>2, LendMapped
  <2>6. Lease!Grow(c)
    BY <2>2, <2>3, <2>4, <2>5, LeasedIsHeld DEF Lease!Grow
  <2> QED
    BY <2>6
<1>4. CASE BorrowFails(c) \/ Throw(c)
  <2>1. handles' = [handles EXCEPT ![c] = @ \ Conn]
    BY <1>4 DEF BorrowFails, Throw, Unwound, IInv, TypeOK
  <2>2. Owned' = Owned
    BY <1>4 DEF BorrowFails, Throw, Owned, Idle
  <2> QED
    BY <2>1, <2>2, ReleaseMapped
<1>5. ASSUME NEW k \in Conn, Unborrow(c, k) PROVE Lease!Release(c)
  <2>1. available \in Seq(Conn)
    BY DEF IInv, TypeOK
  <2>2. Idle' = Idle \cup {k}
    BY <1>5, <2>1, Push DEF Unborrow, Idle
  <2>3. Owned' = Owned
    BY <1>5, <2>2 DEF Unborrow, Owned
  <2>4. {k} \in SUBSET Conn /\ handles' = [handles EXCEPT ![c] = @ \ {k}]
    BY <1>5 DEF Unborrow
  <2> QED
    BY <2>3, <2>4, ReleaseMapped
<1>6. ASSUME NEW k \in Conn, ReturnEarly(c, k) PROVE Lease!Release(c)
  <2>1. Owned' = Owned
    BY <1>6 DEF ReturnEarly, Owned, Idle
  <2>2. {k} \in SUBSET Conn /\ handles' = [handles EXCEPT ![c] = @ \ {k}]
    BY <1>6 DEF ReturnEarly
  <2> QED
    BY <2>1, <2>2, ReleaseMapped
<1> QED
  BY <1>1, <1>2, <1>3, <1>4, <1>5, <1>6 DEF ClientNext

LEMMA StepMapped ==
  ASSUME IInv, IInv', PoolAssumption, [Next]_vars
  PROVE  [Lease!Next]_(Lease!vars)
<1>1. CASE ClosePool
  <2>1. Held = {} /\ Owned' = {} /\ UNCHANGED handles
    BY <1>1 DEF ClosePool, IInv, QuietInit, Owned, Idle, Range
  <2> QED
    BY <2>1, InitMapped DEF Lease!Next
<1>2. CASE FillPool \/ FillFails
  <2>1. Held = {} /\ UNCHANGED handles /\ available = <<>> /\ borrowed = {}
    BY <1>2 DEF FillPool, FillFails, IInv, QuietInit
  <2>2. Owned = {}
    BY <2>1 DEF Owned, Idle, Range
  <2> QED
    BY <2>1, <2>2, InitMapped DEF Lease!Next
<1>3. CASE CreateDone
  BY <1>3 DEF CreateDone, Lease!vars, Owned, Idle, LeaseSet
<1>4. ASSUME NEW c \in Client, ClientNext(c) PROVE Lease!Next
  BY <1>4, ClientMapped DEF Lease!Next
<1>5. CASE UNCHANGED vars
  BY <1>5 DEF vars, Lease!vars, Owned, Idle, LeaseSet
<1> QED
  BY <1>1, <1>2, <1>3, <1>4, <1>5 DEF Next

LEMMA StartMapped == Init => Lease!Init
  BY DEF Init, Lease!Init, Owned, Idle, Range, LeaseSet

\* PoolDB implements the lease: connections are leased exclusively, and a new
\* one is opened only while all the pool's connections are in use.
THEOREM Refinement == Spec => LeaseSpec
<1>1. Init => Lease!Init
  BY StartMapped
<1>2. IInv /\ IInv' /\ [Next]_vars => [Lease!Next]_(Lease!vars)
  BY StepMapped, PoolAssumption
<1> QED
  BY Inductive, <1>1, <1>2, PTL DEF Spec, LeaseSpec, Lease!Spec

\* No client makes the pool lose a connection, whatever it forgets.
THEOREM Kept == Spec => ConnectionsKept
<1>1. IInv /\ [Next]_vars => [phase # "closing" => Owned \subseteq Owned']_vars
  <2> SUFFICES ASSUME IInv, [Next]_vars, phase # "closing"
               PROVE  Owned \subseteq Owned'
    OBVIOUS
  <2>1. CASE ClosePool
    BY <2>1 DEF ClosePool
  <2>2. CASE FillPool \/ FillFails
    <3>1. Owned = {}
      BY <2>2 DEF FillPool, FillFails, IInv, QuietInit, Owned, Idle, Range
    <3> QED
      BY <3>1
  <2>3. CASE CreateDone \/ UNCHANGED vars
    BY <2>3 DEF CreateDone, vars, Owned, Idle
  <2>4. ASSUME NEW c \in Client, ClientNext(c) PROVE Owned \subseteq Owned'
    <3>1. Lease!Lease(c) \/ Lease!Grow(c) \/ Lease!Release(c)
      BY <2>4, ClientMapped, PoolAssumption
    <3> QED
      BY <3>1 DEF Lease!Lease, Lease!Grow, Lease!Release
  <2> QED
    BY <2>1, <2>2, <2>3, <2>4 DEF Next
<1> QED
  BY Inductive, <1>1, PTL DEF Spec, ConnectionsKept

(***************************************************************************)
(* The size of the pool.  A connection is opened only when every one of the*)
(* pool is held, so the pool is as large as what the clients hold then, and*)
(* a client holds MaxNest connections at most.                             *)
(***************************************************************************)
Nested == \A c \in Client : Cardinality(handles[c]) <= MaxNest
Most == Cardinality(Client) * MaxNest
Bounded ==
  Cardinality(Owned) <= IF Most > PoolSize THEN Most ELSE PoolSize
SizeInv == Nested /\ Bounded

\* Everything the pool knows of is finite.
LEMMA PoolIsFinite ==
  ASSUME IInv, PoolAssumption
  PROVE  /\ \A S \in SUBSET Conn : IsFiniteSet(S) /\ Cardinality(S) \in Nat
         /\ Owned \subseteq Conn /\ Held \subseteq Conn
         /\ Most \in Nat
<1>1. \A S \in SUBSET Conn : IsFiniteSet(S) /\ Cardinality(S) \in Nat
  BY FS_Subset, FS_CardinalityType DEF PoolAssumption
<1>2. Owned \subseteq Conn
  BY DEF IInv, TypeOK, PooledAreOpen
<1>3. Held \subseteq Conn
  BY DEF IInv, TypeOK, Held
<1>4. Most \in Nat
  BY FS_CardinalityType DEF Most, PoolAssumption
<1> QED
  BY <1>1, <1>2, <1>3, <1>4

\* The clients hold MaxNest connections each: a held connection is told from
\* the others by a holder and its place among that holder's.
LEMMA HeldAtMost ==
  ASSUME PoolAssumption, NEW H \in [Client -> SUBSET Conn],
         \A c \in Client : Cardinality(H[c]) <= MaxNest
  PROVE  Cardinality(UNION {H[c] : c \in Client}) <= Most
<1> DEFINE All == UNION {H[c] : c \in Client}
           place == [c \in Client |->
             CHOOSE b : b \in Bijection(1..Cardinality(H[c]), H[c])]
           holder(k) == CHOOSE c \in Client : k \in H[c]
           slot(k) == CHOOSE i \in 1..MaxNest : place[holder(k)][i] = k
           f == [k \in All |-> <<holder(k), slot(k)>>]
<1>1. ASSUME NEW k \in All
      PROVE  /\ holder(k) \in Client /\ k \in H[holder(k)]
             /\ slot(k) \in 1..MaxNest /\ place[holder(k)][slot(k)] = k
  <2>1. holder(k) \in Client /\ k \in H[holder(k)]
    OBVIOUS
  <2> DEFINE c == holder(k)
             n == Cardinality(H[c])
  <2> HIDE DEF c
  <2>2. c \in Client /\ k \in H[c]
    BY <2>1 DEF c
  <2>3. H[c] \subseteq Conn /\ n <= MaxNest /\ MaxNest \in Nat
    BY <2>2 DEF PoolAssumption
  <2>4. IsFiniteSet(H[c]) /\ n \in Nat
    BY <2>3, FS_Subset, FS_CardinalityType DEF PoolAssumption
  <2>5. place[c] \in Bijection(1..n, H[c])
    BY <2>2, <2>4, FS_CardinalityType DEF ExistsBijection
  <2>6. PICK i \in 1..n : place[c][i] = k
    BY <2>2, <2>5 DEF Bijection, Surjection
  <2>7. i \in 1..MaxNest
    BY <2>3, <2>4, <2>6
  <2>8. \E j \in 1..MaxNest : place[c][j] = k
    BY <2>6, <2>7
  <2> QED
    BY <2>1, <2>8 DEF c
<1> HIDE DEF place, holder, slot, All
<1>2. f \in Injection(All, Client \X (1..MaxNest))
  <2>1. f \in [All -> Client \X (1..MaxNest)]
    BY <1>1
  <2>2. ASSUME NEW k \in All, NEW m \in All, f[k] = f[m] PROVE k = m
    <3>1. holder(k) = holder(m) /\ slot(k) = slot(m)
      BY <2>2
    <3> QED
      BY <1>1, <3>1
  <2> QED
    BY <2>1, <2>2 DEF Injection, IsInjective
<1>3. /\ IsFiniteSet(1..MaxNest) /\ Cardinality(1..MaxNest) = MaxNest
  BY FS_Interval DEF PoolAssumption
<1>4. /\ IsFiniteSet(Client \X (1..MaxNest))
      /\ Cardinality(Client \X (1..MaxNest)) = Most
  BY <1>3, FS_Product DEF PoolAssumption, Most
<1> HIDE DEF f
<1> QED
  BY <1>2, <1>4, FS_Injection DEF All

\* A pool that is full of connections somebody holds is within the bound.
LEMMA HeldPoolBounded ==
  ASSUME PoolAssumption, NEW H \in [Client -> SUBSET Conn],
         \A c \in Client : Cardinality(H[c]) <= MaxNest,
         NEW P, P \subseteq UNION {H[c] : c \in Client}
  PROVE  Cardinality(P) <= IF Most > PoolSize THEN Most ELSE PoolSize
<1> DEFINE All == UNION {H[c] : c \in Client}
<1>1. All \subseteq Conn
  OBVIOUS
<1>2. Cardinality(All) <= Most
  BY HeldAtMost
<1> HIDE DEF All
<1>3. IsFiniteSet(All)
  BY <1>1, FS_Subset DEF PoolAssumption
<1>4. IsFiniteSet(P) /\ Cardinality(P) <= Cardinality(All)
  BY <1>3, FS_Subset DEF All
<1>5. /\ Cardinality(P) \in Nat /\ Cardinality(All) \in Nat
      /\ Most \in Nat /\ PoolSize \in Nat
  BY <1>3, <1>4, FS_CardinalityType DEF Most, PoolAssumption
<1> QED
  BY <1>2, <1>4, <1>5

\* Handles that go, and one more for a client that may have it.
LEMMA DropNested ==
  ASSUME IInv, PoolAssumption, Nested,
         \A d \in Client : handles'[d] \subseteq handles[d]
  PROVE  Nested'
<1>1. ASSUME NEW d \in Client PROVE Cardinality(handles'[d]) <= MaxNest
  <2>1. handles[d] \subseteq Conn /\ Cardinality(handles[d]) <= MaxNest
    BY DEF IInv, TypeOK, Nested
  <2>2. IsFiniteSet(handles[d]) /\ IsFiniteSet(handles'[d])
    BY <2>1, PoolIsFinite
  <2>3. Cardinality(handles'[d]) <= Cardinality(handles[d])
    BY <2>2, FS_Subset
  <2>4. /\ Cardinality(handles'[d]) \in Nat /\ Cardinality(handles[d]) \in Nat
        /\ MaxNest \in Nat
    BY <2>2, FS_CardinalityType DEF PoolAssumption
  <2> QED
    BY <2>1, <2>3, <2>4
<1> QED
  BY <1>1 DEF Nested

LEMMA LendNested ==
  ASSUME IInv, PoolAssumption, Nested, NEW c \in Client, MayBorrow(c), NEW k,
         handles' = [handles EXCEPT ![c] = @ \cup {k}]
  PROVE  Nested'
<1>1. \A d \in Client : handles'[d] = IF d = c THEN handles[d] \cup {k}
                                               ELSE handles[d]
  BY DEF IInv, TypeOK
<1>2. handles[c] \subseteq Conn /\ Cardinality(handles[c]) < MaxNest
  BY DEF IInv, TypeOK, MayBorrow
<1>3. /\ IsFiniteSet(handles[c]) /\ Cardinality(handles[c]) \in Nat
      /\ MaxNest \in Nat
  BY <1>2, PoolIsFinite DEF PoolAssumption
<1>4. /\ IsFiniteSet(handles[c] \cup {k})
      /\ Cardinality(handles[c] \cup {k})
           = IF k \in handles[c] THEN Cardinality(handles[c])
                                 ELSE Cardinality(handles[c]) + 1
  BY <1>3, FS_AddElement
<1>5. Cardinality(handles[c] \cup {k}) \in Nat
  BY <1>4, FS_CardinalityType
<1>6. Cardinality(handles[c] \cup {k}) <= MaxNest
  BY <1>2, <1>3, <1>4, <1>5
<1> QED
  BY <1>1, <1>6 DEF Nested

\* init fills an empty pool with PoolSize connections or fewer.
LEMMA FillBounded ==
  ASSUME IInv, PoolAssumption, FillPool \/ FillFails
  PROVE  Bounded'
<1>1. PICK S \in SUBSET Fresh :
        /\ Cardinality(S) <= PoolSize
        /\ \E q \in Queues(S) : available' = available \o q
  <2>1. ASSUME FillFails, NEW S \in SUBSET Fresh, Cardinality(S) < PoolSize
        PROVE  Cardinality(S) <= PoolSize
    BY <2>1, PoolIsFinite DEF Fresh, PoolAssumption
  <2>2. CASE FillPool
    BY <2>2 DEF FillPool, PoolAssumption
  <2>3. CASE FillFails
    <3>1. PICK S \in SUBSET Fresh :
            /\ Cardinality(S) < PoolSize
            /\ \E q \in Queues(S) : available' = available \o q
      BY <2>3 DEF FillFails
    <3> QED
      BY <2>1, <2>3, <3>1
  <2> QED
    BY <2>2, <2>3
<1>2. PICK q \in Queues(S) : available' = available \o q
  BY <1>1
<1>3. S \subseteq Conn
  BY DEF Fresh
<1>4. IsFiniteSet(S) /\ Cardinality(S) \in Nat
  BY <1>3, PoolIsFinite
<1>5. q \in Seq(S) /\ Range(q) = S
  BY <1>4, QueueOfSet
<1>6. available = <<>> /\ borrowed = {} /\ borrowed' = borrowed
  BY DEF FillPool, FillFails, IInv, QuietInit
<1>7. Owned' = S
  BY <1>2, <1>5, <1>6 DEF Owned, Idle
<1>8. Most \in Nat /\ PoolSize \in Nat
  BY PoolIsFinite DEF PoolAssumption
<1> QED
  BY <1>1, <1>4, <1>7, <1>8 DEF Bounded, Most

LEMMA ClientSize ==
  ASSUME IInv, IInv', PoolAssumption, SizeInv, NEW c \in Client, ClientNext(c)
  PROVE  SizeInv'
<1>1. Nested'
  <2>1. CASE BorrowAvailable(c) \/ BorrowReclaimed(c) \/ BorrowNew(c)
    <3>1. MayBorrow(c) /\ \E k : handles' = [handles EXCEPT ![c] = @ \cup {k}]
      BY <2>1 DEF BorrowAvailable, BorrowReclaimed, BorrowNew
    <3> QED
      BY <3>1, LendNested DEF SizeInv
  <2>2. CASE BorrowFails(c) \/ Throw(c)
    <3>1. \A d \in Client : handles'[d] \subseteq handles[d]
      BY <2>2 DEF BorrowFails, Throw, Unwound, IInv, TypeOK
    <3> QED
      BY <3>1, DropNested DEF SizeInv
  <2>3. ASSUME NEW k \in Conn, Unborrow(c, k) \/ ReturnEarly(c, k)
        PROVE  Nested'
    <3>1. \A d \in Client : handles'[d] \subseteq handles[d]
      BY <2>3 DEF Unborrow, ReturnEarly, IInv, TypeOK
    <3> QED
      BY <3>1, DropNested DEF SizeInv
  <2> QED
    BY <2>1, <2>2, <2>3 DEF ClientNext
<1>2. Bounded'
  <2>1. CASE Owned' = Owned
    BY <2>1 DEF SizeInv, Bounded, Most
  <2>2. CASE Lease!Grow(c)
    <3>1. PICK k \in Conn : /\ Owned' = Owned \cup {k}
                            /\ LeaseSet' = LeaseSet \cup {<<c, k>>}
                            /\ Owned \subseteq Held
      BY <2>2, LeasedIsHeld DEF Lease!Grow
    <3>2. \A x : (\E d \in Client : x \in handles[d]) => x \in Conn
      BY DEF IInv, TypeOK
    <3>3. Owned' \subseteq UNION {handles'[d] : d \in Client}
      <4>1. k \in handles'[c]
        <5>1. <<c, k>> \in LeaseSet'
          BY <3>1
        <5> QED
          BY <5>1 DEF LeaseSet
      <4>2. ASSUME NEW x \in Owned PROVE \E d \in Client : x \in handles'[d]
        <5>1. PICK d \in Client : x \in handles[d]
          BY <3>1 DEF Held
        <5>2. <<d, x>> \in LeaseSet'
          BY <3>1, <3>2, <5>1 DEF LeaseSet
        <5> QED
          BY <5>2 DEF LeaseSet
      <4> QED
        BY <3>1, <4>1, <4>2
    <3>4. handles' \in [Client -> SUBSET Conn]
      BY DEF IInv, TypeOK
    <3>5. \A d \in Client : Cardinality(handles'[d]) <= MaxNest
      BY <1>1 DEF Nested
    <3> QED
      BY <3>3, <3>4, <3>5, HeldPoolBounded DEF Bounded, Most
  <2>3. Owned' = Owned \/ Lease!Grow(c)
    BY ClientMapped DEF Lease!Lease, Lease!Release
  <2> QED
    BY <2>1, <2>2, <2>3
<1> QED
  BY <1>1, <1>2 DEF SizeInv

LEMMA NextSize ==
  ASSUME IInv, IInv', PoolAssumption, SizeInv, [Next]_vars
  PROVE  SizeInv'
<1>1. CASE ClosePool
  <2>1. Owned' = {} /\ handles' = handles
    BY <1>1 DEF ClosePool, Owned, Idle, Range
  <2>2. Cardinality({}) = 0 /\ Most \in Nat /\ PoolSize \in Nat
    BY FS_EmptySet, PoolIsFinite DEF PoolAssumption
  <2> QED
    BY <2>1, <2>2 DEF SizeInv, Bounded, Nested, Most
<1>2. CASE FillPool \/ FillFails
  <2>1. handles' = handles
    BY <1>2 DEF FillPool, FillFails
  <2> QED
    BY <1>2, <2>1, FillBounded DEF SizeInv, Nested
<1>3. CASE CreateDone \/ UNCHANGED vars
  <2>1. Owned' = Owned /\ handles' = handles
    BY <1>3 DEF CreateDone, vars, Owned, Idle
  <2> QED
    BY <2>1 DEF SizeInv, Bounded, Nested, Most
<1>4. ASSUME NEW c \in Client, ClientNext(c) PROVE SizeInv'
  BY <1>4, ClientSize
<1> QED
  BY <1>1, <1>2, <1>3, <1>4 DEF Next

LEMMA InitSize == PoolAssumption /\ Init => SizeInv
<1> SUFFICES ASSUME PoolAssumption, Init PROVE SizeInv
  OBVIOUS
<1>1. Owned = {} /\ \A c \in Client : handles[c] = {}
  BY DEF Init, Owned, Idle, Range
<1>2. Cardinality({}) = 0 /\ MaxNest \in Nat /\ PoolSize \in Nat /\ Most \in Nat
  BY FS_EmptySet, FS_CardinalityType DEF PoolAssumption, Most
<1> QED
  BY <1>1, <1>2 DEF SizeInv, Nested, Bounded

\* The queue holds each connection once and none that is lent, so its length
\* and the lent ones add up to the pool.
LEMMA SizeIsOwned ==
  ASSUME IInv, PoolAssumption
  PROVE  Len(available) + Cardinality(borrowed) = Cardinality(Owned)
<1>1. /\ available \in Seq(Conn) /\ IsInjective(available)
      /\ borrowed \subseteq Conn /\ Idle \cap borrowed = {}
  BY DEF IInv, TypeOK, PoolPartition
<1>2. Len(available) \in Nat /\ DOMAIN available = 1..Len(available)
  BY <1>1
<1>3. available \in Bijection(1..Len(available), Idle)
  <2>1. available \in [1..Len(available) -> Idle]
    BY <1>1, <1>2 DEF Idle, Range
  <2>2. \A k \in Idle : \E i \in 1..Len(available) : available[i] = k
    BY <1>2 DEF Idle, Range
  <2> QED
    BY <1>1, <2>1, <2>2 DEF Bijection, Injection, Surjection
<1>4. Cardinality(Idle) = Len(available)
  BY <1>2, <1>3, FS_CountingElements DEF ExistsBijection
<1>5. Idle \subseteq Conn
  BY <1>1 DEF Idle, Range
<1>6. /\ IsFiniteSet(Idle) /\ IsFiniteSet(borrowed)
      /\ Cardinality(borrowed) \in Nat
  BY <1>1, <1>5, PoolIsFinite
<1>7. Cardinality(Owned)
        = Cardinality(Idle) + Cardinality(borrowed) - Cardinality(Idle \cap borrowed)
  BY <1>6, FS_Union DEF Owned
<1>8. Cardinality(Idle \cap borrowed) = 0
  BY <1>1, FS_EmptySet
<1> QED
  BY <1>2, <1>4, <1>6, <1>7, <1>8

\* Connections nobody gives back do not make the pool grow without bound: it
\* has at most the connections init opens, or those its clients can hold.
THEOREM SizeIsBounded == Spec => []PoolBounded
<1>1. PoolAssumption /\ Init => SizeInv
  BY InitSize
<1>2. IInv /\ IInv' /\ PoolAssumption /\ SizeInv /\ [Next]_vars => SizeInv'
  BY NextSize
<1>3. IInv /\ PoolAssumption /\ SizeInv => PoolBounded
  <2> SUFFICES ASSUME IInv, PoolAssumption, SizeInv PROVE PoolBounded
    OBVIOUS
  <2> QED
    BY SizeIsOwned DEF SizeInv, Bounded, Most, PoolBounded
<1> QED
  BY <1>1, <1>2, <1>3, PoolAssumption, Inductive, PTL DEF Spec
=============================================================================
