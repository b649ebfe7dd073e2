------------------------------ MODULE MCServices ------------------------------
(* The map of APIs with the requests, and the exports, share no state, so a
   behaviour is one of either: "part" says of which. *)
EXTENDS ApiQueries, Exports
CONSTANTS e1, e2, e3, server, cli, x, y, f, g
VARIABLE part
MCHosts == [e \in {e1, e2, e3} |-> IF e = e3 THEN cli ELSE server]
MCFiles == [c \in {x, y} |-> IF c = x THEN {f} ELSE {f, g}]
vars == <<part, apiVars, exportVars>>
Init ==
  /\ ApiInit /\ ExportInit
  /\ part \in IF folder = {} THEN {"queries", "exports"} ELSE {"queries"}
Next ==
  \/ part = "queries" /\ ApiNext /\ UNCHANGED <<part, exportVars>>
  \/ part = "exports" /\ ExportNext /\ UNCHANGED <<part, apiVars>>
Spec == Init /\ [][Next]_vars
================================================================================
