------------------------------ MODULE MCPoolDB ------------------------------
(* PoolDB with two threads, one of them the boot thread, a pool opened     *)
(* with two connections and a MySQL server that accepts five: enough for   *)
(* the pool to run dry, reclaim, grow past its size and fail to grow.      *)
EXTENDS PoolDB, TLC
=============================================================================
