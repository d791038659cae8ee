---------------------------- MODULE ParallelFor ----------------------------
(***************************************************************************)
(* What lw_thread_pool_run promises its caller, with no thread in it: a    *)
(* parallel for.  A request of width n calls the callback once for every   *)
(* index 0 .. n-1, in any order and interleaved in any way, and the        *)
(* request returns only after the last of these calls has returned.        *)
(* ThreadPool (the mutex, the two condition variables and the generation   *)
(* counter of src/src/runtime/parallel.c) is shown to implement it.        *)
(***************************************************************************)
EXTENDS Naturals

CONSTANT Indices      \* every worker index a request can hand out

VARIABLES
  width,              \* 0: no request in flight, else its number of indices
  calls,              \* calls[i]: how often the callback began for index i
  returns             \* returns[i]: how often it returned

vars == <<width, calls, returns>>

Init ==
  /\ width = 0
  /\ calls = [i \in Indices |-> 0]
  /\ returns = [i \in Indices |-> 0]

(* A request begins with the call of index 0, which its own thread makes. *)
Start(n) ==
  /\ width = 0
  /\ n # 0
  /\ width' = n
  /\ calls' = [i \in Indices |-> IF i = 0 THEN 1 ELSE 0]
  /\ returns' = [i \in Indices |-> 0]

Begin(i) ==
  /\ i < width
  /\ calls[i] = 0
  /\ calls' = [calls EXCEPT ![i] = 1]
  /\ UNCHANGED <<width, returns>>

End(i) ==
  /\ i < width
  /\ calls[i] = 1
  /\ returns[i] = 0
  /\ returns' = [returns EXCEPT ![i] = 1]
  /\ UNCHANGED <<width, calls>>

AllReturned(n) == \A i \in Indices : i < n => returns[i] = 1

Return ==
  /\ width # 0
  /\ AllReturned(width)
  /\ width' = 0
  /\ UNCHANGED <<calls, returns>>

(* The only index of a request of width 1 may return together with it. *)
ReturnInline ==
  /\ width = 1
  /\ calls[0] = 1
  /\ returns[0] = 0
  /\ returns' = [returns EXCEPT ![0] = 1]
  /\ width' = 0
  /\ UNCHANGED calls

Next ==
  \/ \E n \in {i + 1 : i \in Indices} : Start(n)
  \/ \E i \in Indices : Begin(i) \/ End(i)
  \/ Return
  \/ ReturnInline

Spec == Init /\ [][Next]_vars
=============================================================================
