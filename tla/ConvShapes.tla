----------------------------- MODULE ConvShapes -----------------------------
(***************************************************************************)
(* The arithmetic of a convolution: the size of its output and the taps of *)
(* each of its elements.                                                   *)
(*                                                                         *)
(* A job is one Conv or ConvTranspose node of batch one: op, h, w          *)
(* (input plane), ic, oc (channels), groups, and <<vertical, horizontal>>  *)
(* pairs k (window), s (strides), d (dilations), p (padding before) and    *)
(* q (padding after).                                                      *)
(***************************************************************************)
EXTENDS Integers, Sequences

CONSTANT Unset      \* no value

\* The size of the output along one axis; 0 when the window does not fit.
SpatialOutput(n, k, s, d, before, after) ==
    IF n + before + after < (k - 1) * d + 1
    THEN 0
    ELSE (n + before + after - (k - 1) * d - 1) \div s + 1

TransposedOutput(n, k, s, d, before, after) ==
    (n - 1) * s - before - after + (k - 1) * d + 1

OutputSize(j) ==
    LET Axis(n, a) == IF j.op = "conv"
                      THEN SpatialOutput(n, j.k[a], j.s[a], j.d[a], j.p[a], j.q[a])
                      ELSE TransposedOutput(n, j.k[a], j.s[a], j.d[a], j.p[a], j.q[a])
    IN  <<Axis(j.h, 1), Axis(j.w, 2)>>

Plane(size) == 0 .. size[1] * size[2] - 1

\* Tap k of an axis with n inputs contributes to output o.
Contributes(j, a, n, k, o) ==
    IF j.op = "conv"
    THEN o * j.s[a] - j.p[a] + k * j.d[a] \in 0 .. n - 1
    ELSE \E i \in 0 .. n - 1 : i * j.s[a] - j.p[a] + k * j.d[a] = o

\* The taps of one output channel in the order they are added: channel by
\* channel, row by row of the window; a transposed convolution walks the
\* input, and so the window backwards.
TapOrder(j, c) ==
    LET kh == j.k[1]
        kw == j.k[2]
        per == j.ic \div j.groups
        first == (c \div (j.oc \div j.groups)) * per
        Turn(k, n) == IF j.op = "conv" THEN k ELSE n - 1 - k
    IN  [i \in 1 .. per * kh * kw |->
            <<first + (i - 1) \div (kh * kw),
              Turn(((i - 1) \div kw) % kh, kh),
              Turn((i - 1) % kw, kw)>>]

Sum(j, c) ==
    LET size == OutputSize(j)
    IN  [e \in Plane(size) |->
            SelectSeq(TapOrder(j, c),
                      LAMBDA t : /\ Contributes(j, 1, j.h, t[2], e \div size[2])
                                 /\ Contributes(j, 2, j.w, t[3], e % size[2]))]

\* Channel c: which bias it starts from, which weights it multiplies, and
\* the taps each element has added.
Result(j, c) == [bias |-> c, weights |-> c, sum |-> Sum(j, c)]
Uncomputed == [bias |-> Unset, weights |-> Unset, sum |-> Unset]
=============================================================================
