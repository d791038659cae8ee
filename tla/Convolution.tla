---------------------------- MODULE Convolution ----------------------------
(***************************************************************************)
(* What a convolution node of a model promises, whichever of the kernels   *)
(* computes it, on whichever processor and with however many threads:      *)
(* every output channel is produced once, and every element of it is the   *)
(* bias of its channel plus one product per tap of the window that lies    *)
(* inside the input, added in one fixed order.  The order is part of the   *)
(* promise because sums of floats depend on it, and the project compares   *)
(* its kernels bit by bit.                                                 *)
(***************************************************************************)
EXTENDS ConvShapes

VARIABLES job, out

Init == out = [c \in 0 .. job.oc - 1 |-> Uncomputed]

Produce ==
    /\ out' # out
    /\ \A c \in DOMAIN out' :
          out'[c] # out[c] => /\ out[c] = Uncomputed
                              /\ out'[c] = Result(job, c)
    /\ DOMAIN out' = DOMAIN out
    /\ UNCHANGED job

Spec == Init /\ [][Produce]_<<job, out>>
=============================================================================
