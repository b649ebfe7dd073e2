------------------------------- MODULE MCStartup -------------------------------
(* The server, two of whose threads change settings, and the command line. *)
EXTENDS Startup
CONSTANTS server, cli, s1, s2, c1, level, path, storage, d, v
Threads == {s1, s2, c1}
Owner == [t \in Threads |-> IF t = c1 THEN cli ELSE server]
LevelAndPath == <<level, path>>
================================================================================
