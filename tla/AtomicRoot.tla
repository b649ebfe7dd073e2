------------------------------ MODULE AtomicRoot ------------------------------
(***************************************************************************)
(* What the storage promises while nothing goes wrong: there is one root   *)
(* folder, what was put on its shelf stays there, and the folder moves in  *)
(* one step with all it holds.  "sound" tells that nothing went wrong yet; *)
(* nothing is promised afterwards.                                         *)
(***************************************************************************)
CONSTANTS Path, File

VARIABLES root, shelf, sound

rvars == <<root, shelf, sound>>

RInit == root \in Path /\ shelf = {} /\ sound = TRUE

Put(f) == shelf' = shelf \cup {f} /\ UNCHANGED root

Move(p) == root' = p /\ UNCHANGED shelf

Break == sound' = FALSE /\ root' \in Path /\ shelf' \in SUBSET File

RNext ==
  \/ sound /\ UNCHANGED sound /\ ((\E f \in File : Put(f)) \/ (\E p \in Path : Move(p)))
  \/ Break

RootSpec == RInit /\ [][RNext]_rvars
================================================================================
