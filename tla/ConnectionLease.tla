--------------------------- MODULE ConnectionLease ---------------------------
(***************************************************************************)
(* What PoolDB promises the rest of the engine, with no queue, no set and  *)
(* no reference count: a connection is leased to one client at a time, and *)
(* a new one is opened only when every connection of the pool is leased.   *)
(***************************************************************************)
CONSTANTS Client,   \* threads of the process that use the database
          Conn      \* identities (addresses) of connection objects

VARIABLES pool,     \* the connections the pool owns
          leases    \* the pairs <<client, connection>> of running leases

vars == <<pool, leases>>

\* The connections somebody is using.
Leased == {k \in Conn : \E c \in Client : <<c, k>> \in leases}

Init == pool = {} /\ leases = {}

\* The pool is emptied; whoever still uses a connection keeps using it.
Close == pool' = {} /\ UNCHANGED leases

\* Connections nobody has ever seen join the pool.
Fill == /\ \E S \in SUBSET (Conn \ (pool \cup Leased)) : pool' = pool \cup S
        /\ UNCHANGED leases

\* A client obtains an idle connection of the pool...
Lease(c) ==
  /\ \E k \in pool \ Leased : leases' = leases \cup {<<c, k>>}
  /\ UNCHANGED pool

\* ... and only when there is none, a new one.
Grow(c) ==
  /\ pool \subseteq Leased
  /\ \E k \in Conn \ (pool \cup Leased) :
       pool' = pool \cup {k} /\ leases' = leases \cup {<<c, k>>}

\* A client ends some of its leases, whether by giving the connections back
\* or by forgetting them.
Release(c) ==
  /\ \E S \in SUBSET Conn : leases' = leases \ ({c} \X S)
  /\ UNCHANGED pool

Next == Close \/ Fill \/ \E c \in Client : Lease(c) \/ Grow(c) \/ Release(c)

Spec == Init /\ [][Next]_vars

\* No connection is leased to two clients.
Exclusive ==
  \A k \in Conn, c, d \in Client :
    <<c, k>> \in leases /\ <<d, k>> \in leases => c = d
=============================================================================
