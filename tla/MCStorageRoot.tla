----------------------------- MODULE MCStorageRoot -----------------------------
(* Two handlers, three paths; both files belong in the same folder. *)
EXTENDS StorageRoot
CONSTANTS h1, h2, a, b, c, f1, f2, d
OneFolder == [f \in File |-> d]
================================================================================
