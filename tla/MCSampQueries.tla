---------------------------- MODULE MCSampQueries -----------------------------
(* SampQueries for two threads, three queries of theirs, and a net game that  *)
(* is made, deleted and, by way of what is left of it, read.                  *)
EXTENDS SampQueries, TLC

Symmetry == Permutations(Mods)
=============================================================================
