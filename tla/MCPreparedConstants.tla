-------------------------- MODULE MCPreparedConstants --------------------------
(* Three sessions, four blocks over the run, and a count of at most two:   *)
(* a third sharer meets the limit.                                         *)
EXTENDS PreparedConstants, TLC

Symmetry == Permutations(Sessions) \cup Permutations(Blocks)
=============================================================================
