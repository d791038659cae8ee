---------------------------- MODULE MCModelCache ----------------------------
(* Two releases that replace one another, two threads, two model files.    *)
EXTENDS ModelCache, TLC

MCModels == <<"det", "rec">>
Symmetry == Permutations(Releases) \cup Permutations(Threads)
=============================================================================
