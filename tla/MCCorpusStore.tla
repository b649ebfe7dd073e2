---------------------------- MODULE MCCorpusStore ----------------------------
(* CorpusStore with two files; how many processes, requests and failures   *)
(* there are depends on the configuration.                                 *)
EXTENDS CorpusStore, TLC

Symmetry == Permutations(File) \cup Permutations(Client)
=============================================================================
