------------------------------- MODULE PoolDB -------------------------------
(***************************************************************************)
(* engine/src/database/pool_db.cpp: the process-wide pool of MySQL         *)
(* connections.  Idle connections wait in the queue _available_pool, those *)
(* lent out are in the set _borrowed_pool, and every operation runs under  *)
(* _pool_mut, so each is one action here.                                  *)
(*                                                                         *)
(* A client may forget a connection instead of giving it back: an exception*)
(* unwinds its stack, or it returns early.  The connection then stays in   *)
(* _borrowed_pool with the set's own reference as the only one left, which *)
(* is how borrow_from_pool recognises it.  The reference count is modelled *)
(* by the handles the clients hold.                                        *)
(*                                                                         *)
(* A definition introduced by "Fault:" is not part of the model: it is a   *)
(* wrong variant of the definition after it, with which a property below   *)
(* must fail.                                                              *)
(***************************************************************************)
EXTENDS Naturals, Sequences, FiniteSets, Functions

CONSTANTS Client,    \* threads of the process that use the database
          Boot,      \* the thread that runs main() and PoolDB::init
          Conn,      \* connection objects; as many as the server accepts
          PoolSize,  \* the argument of PoolDB::init (10: server, 3: cli)
          MaxNest    \* connections a thread holds at once: fetch_files, for
                     \* instance, borrows again while it holds one

ASSUME PoolAssumption ==
  /\ IsFiniteSet(Client) /\ Boot \in Client
  /\ IsFiniteSet(Conn)
  /\ PoolSize \in Nat
  /\ MaxNest \in Nat

VARIABLES
  available,  \* _available_pool, the front first
  borrowed,   \* _borrowed_pool
  handles,    \* handles[c]: what the shared_ptrs held by c point to
  live,       \* the connections open on the MySQL server
  phase       \* where PoolDB::init is; "running" once it has returned

vars == <<available, borrowed, handles, live, phase>>

Phase == {"closing", "filling", "creating", "running"}

TypeOK ==
  /\ available \in Seq(Conn)
  /\ borrowed \in SUBSET Conn
  /\ handles \in [Client -> SUBSET Conn]
  /\ live \in SUBSET Conn
  /\ phase \in Phase

Idle == Range(available)
Held == UNION {handles[c] : c \in Client}
Owned == Idle \cup borrowed

\* The ways a set of connections can be queued.
Queues(S) == Bijection(1..Cardinality(S), S)

\* The connections the server can still open at an address nobody uses.
Fresh == Conn \ (Owned \cup Held \cup live)

\* Fault: borrow_from_pool reclaims without looking at use_count.
AbandonedInUse == borrowed

\* Fault: nothing is ever reclaimed.
AbandonedNever == {}

\* Members of _borrowed_pool whose use_count is 1.
Abandoned == borrowed \ Held

Init ==
  /\ available = <<>>
  /\ borrowed = {}
  /\ handles = [c \in Client |-> {}]
  /\ live = {}
  /\ phase = "closing"

(***************************************************************************)
(* PoolDB::init(nbr): close_pool; nbr connections; the tables; on a        *)
(* SQLException main() starts again.                                       *)
(***************************************************************************)
ClosePool ==
  /\ phase = "closing"
  /\ available' = <<>>
  /\ borrowed' = {}
  /\ live' = live \ Owned
  /\ phase' = "filling"
  /\ UNCHANGED handles

FillPool ==
  /\ phase = "filling"
  /\ \E S \in SUBSET Fresh :
       /\ Cardinality(S) = PoolSize
       /\ \E q \in Queues(S) : available' = available \o q
       /\ live' = live \cup S
  /\ phase' = "creating"
  /\ UNCHANGED <<borrowed, handles>>

\* get_connection throws after fewer connections.  When it is not connect()
\* that throws but a statement after it, the raw pointer is lost and the
\* server keeps that connection open.
FillFails ==
  /\ phase = "filling"
  /\ \E S \in SUBSET Fresh, lost \in SUBSET Fresh :
       /\ Cardinality(S) < PoolSize
       /\ Cardinality(lost) <= 1
       /\ \E q \in Queues(S) : available' = available \o q
       /\ live' = live \cup S \cup lost
  /\ phase' = "closing"
  /\ UNCHANGED <<borrowed, handles>>

\* PoolDB::create and logger::start are done, main() goes on to serve.
CreateDone ==
  /\ phase = "creating"
  /\ handles[Boot] = {}
  /\ phase' = "running"
  /\ UNCHANGED <<available, borrowed, handles, live>>

(***************************************************************************)
(* Clients.  While init runs there is only the thread that runs it.        *)
(***************************************************************************)
\* Fault: the service takes requests while PoolDB::init is still at work.
ActiveEarly(c) == phase \in {"creating", "running"}

Active(c) == phase = "running" \/ (phase = "creating" /\ c = Boot)

\* What an exception that leaves c's handlers does: every handle goes, and
\* the boot thread starts init again.
Unwound(c) ==
  /\ handles' = [handles EXCEPT ![c] = {}]
  /\ phase' = IF phase = "creating" THEN "closing" ELSE phase

MayBorrow(c) == Active(c) /\ Cardinality(handles[c]) < MaxNest

BorrowAvailable(c) ==
  /\ MayBorrow(c)
  /\ available # <<>>
  /\ available' = Tail(available)
  /\ borrowed' = borrowed \cup {Head(available)}
  /\ handles' = [handles EXCEPT ![c] = @ \cup {Head(available)}]
  /\ UNCHANGED <<live, phase>>

\* Fault: only one abandoned connection goes back to the queue, the others
\* are erased from _borrowed_pool all the same.
BorrowReclaimedOne(c) ==
  /\ MayBorrow(c)
  /\ available = <<>>
  /\ Abandoned # {}
  /\ \E k \in Abandoned :
       /\ borrowed' = (borrowed \ Abandoned) \cup {k}
       /\ handles' = [handles EXCEPT ![c] = @ \cup {k}]
  /\ UNCHANGED <<available, live, phase>>

\* The queue is empty: the abandoned connections, in the order of their
\* addresses, are queued again and the first one is lent.
BorrowReclaimed(c) ==
  /\ MayBorrow(c)
  /\ available = <<>>
  /\ Abandoned # {}
  /\ \E q \in Queues(Abandoned) :
       /\ available' = Tail(q)
       /\ borrowed' = (borrowed \ Abandoned) \cup {Head(q)}
       /\ handles' = [handles EXCEPT ![c] = @ \cup {Head(q)}]
  /\ UNCHANGED <<live, phase>>

\* Fault: a new connection is opened without trying to reclaim first.
BorrowNewAtOnce(c) ==
  /\ MayBorrow(c)
  /\ available = <<>>
  /\ \E k \in Fresh :
       /\ borrowed' = borrowed \cup {k}
       /\ handles' = [handles EXCEPT ![c] = @ \cup {k}]
       /\ live' = live \cup {k}
  /\ UNCHANGED <<available, phase>>

\* Nothing to reclaim either: a new connection is opened and lent.
BorrowNew(c) ==
  /\ MayBorrow(c)
  /\ available = <<>>
  /\ Abandoned = {}
  /\ \E k \in Fresh :
       /\ borrowed' = borrowed \cup {k}
       /\ handles' = [handles EXCEPT ![c] = @ \cup {k}]
       /\ live' = live \cup {k}
  /\ UNCHANGED <<available, phase>>

\* get_connection throws, and may lose a connection as above.
BorrowFails(c) ==
  /\ MayBorrow(c)
  /\ available = <<>>
  /\ Abandoned = {}
  /\ \/ UNCHANGED live
     \/ \E k \in Fresh : live' = live \cup {k}
  /\ Unwound(c)
  /\ UNCHANGED <<available, borrowed>>

\* Fault: the client's pointer is reset before it is pushed.
UnborrowAfterReset(c, k) ==
  /\ k \in handles[c]
  /\ k \in borrowed
  /\ borrowed' = borrowed \ {k}
  /\ available' = Append(available, "nullptr")
  /\ handles' = [handles EXCEPT ![c] = @ \ {k}]
  /\ UNCHANGED <<live, phase>>

\* Fault: the connection is queued and stays in _borrowed_pool.
UnborrowWithoutErase(c, k) ==
  /\ k \in handles[c]
  /\ k \in borrowed
  /\ available' = Append(available, k)
  /\ handles' = [handles EXCEPT ![c] = @ \ {k}]
  /\ UNCHANGED <<borrowed, live, phase>>

Unborrow(c, k) ==
  /\ k \in handles[c]
  /\ k \in borrowed
  /\ borrowed' = borrowed \ {k}
  /\ available' = Append(available, k)
  /\ handles' = [handles EXCEPT ![c] = @ \ {k}]
  /\ UNCHANGED <<live, phase>>

\* An exception (a SQLException, mostly) while c holds connections.
Throw(c) ==
  /\ Active(c)
  /\ handles[c] # {}
  /\ Unwound(c)
  /\ UNCHANGED <<available, borrowed, live>>

\* Setting::insert returns early, without unborrow_from_pool.
ReturnEarly(c, k) ==
  /\ k \in handles[c]
  /\ handles' = [handles EXCEPT ![c] = @ \ {k}]
  /\ UNCHANGED <<available, borrowed, live, phase>>

ClientNext(c) ==
  \/ BorrowAvailable(c)
  \/ BorrowReclaimed(c)
  \/ BorrowNew(c)
  \/ BorrowFails(c)
  \/ \E k \in Conn : Unborrow(c, k)
  \/ Throw(c)
  \/ \E k \in Conn : ReturnEarly(c, k)

Next ==
  \/ ClosePool
  \/ FillPool
  \/ FillFails
  \/ CreateDone
  \/ \E c \in Client : ClientNext(c)

Spec == Init /\ [][Next]_vars

-----------------------------------------------------------------------------
\* No connection is in the hands of two threads: a MySQL connection carries
\* one conversation, and two threads on it would read each other's results.
ExclusiveLease ==
  \A c, d \in Client : c # d => handles[c] \cap handles[d] = {}

\* The queue holds no connection twice and none that is lent, and what a
\* client holds is known to be lent, so it can be given back.
PoolPartition ==
  /\ IsInjective(available)
  /\ Idle \cap borrowed = {}
  /\ Held \subseteq borrowed

\* While init (re)starts nobody uses a connection, so close_pool takes none
\* away from under a statement; and while it creates the tables only the
\* boot thread does.
QuietInit ==
  /\ phase \in {"closing", "filling"} => Held = {}
  /\ phase = "filling" => available = <<>> /\ borrowed = {}
  /\ phase = "creating" => \A c \in Client \ {Boot} : handles[c] = {}

\* The pool never hands out a connection that was closed.
PooledAreOpen == Owned \subseteq live

\* Forgetting to give connections back costs nothing in the long run: the
\* pool is never larger than it was opened or than its clients can use at
\* once ("not mandatory as they are automatically freed", pool_db.h).
PoolBounded ==
  LET most == Cardinality(Client) * MaxNest
  IN  Len(available) + Cardinality(borrowed)
        <= IF most > PoolSize THEN most ELSE PoolSize

\* No call of a client makes the pool lose a connection: only close_pool,
\* before the service runs, takes connections out.
ConnectionsKept ==
  [][phase # "closing" => Owned \subseteq Owned']_vars

\* The pool implements the abstract lease: in particular it opens a new
\* connection only while all of its connections are in use.
LeaseSet == {p \in Client \X Conn : p[2] \in handles[p[1]]}

Lease == INSTANCE ConnectionLease WITH pool <- Owned, leases <- LeaseSet

LeaseSpec == Lease!Spec
=============================================================================
