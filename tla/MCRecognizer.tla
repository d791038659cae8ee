---------------------------- MODULE MCRecognizer ----------------------------
(* Sessions are interchangeable, and so are pools. *)
EXTENDS Recognizer, TLC
Interchangeable == Permutations(Sessions) \cup Permutations(Pools)
=============================================================================
