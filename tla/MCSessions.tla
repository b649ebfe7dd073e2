------------------------------ MODULE MCSessions ------------------------------
(* Two connections with two threads; one query has two requests, the other names an
   API that does not exist after one that does. *)
EXTENDS Sessions
CONSTANTS c1, c2, h1, h2, p, nowhere
UnknownApi == {nowhere}
Queries == {<<{p}>>, <<{}, UnknownApi>>}
================================================================================
