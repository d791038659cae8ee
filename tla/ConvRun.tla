------------------------------ MODULE ConvRun ------------------------------
(***************************************************************************)
(* One convolution node executed (src/src/runtime/executor.c): the output  *)
(* channels are cut into slices, one per worker of the session's pool,     *)
(* each slice chooses its kernel for its own shape, and the kernel walks   *)
(* its loops (ConvKernels).  Slices write disjoint channels, and the       *)
(* thread pool joins them (ThreadPool), so they run here one after the     *)
(* other, in any order.                                                    *)
(*                                                                         *)
(* acc holds the accumulators of the current block of channels: all its    *)
(* channels add the same taps, so one plane stands for them.  An           *)
(* accumulator that was never given the bias is Unset.  load is the range  *)
(* of input floats the last step loaded, relative to its input row.        *)
(***************************************************************************)
EXTENDS ConvKernels

CONSTANTS
    Jobs,           \* the nodes: records as in ConvShapes, with the
                    \* output plane oh, ow
    Levels,         \* processors: a subset of {"avx2", "sse2", "neon", "lsx", "scalar"}
    Tile1x1,        \* channels of a block of packed 1x1 weights (4 in the code)
    Tile3x3,        \* channels of a block of packed 3x3 weights (8 in the code)
    LargePlane,     \* elements of a square plane worth packing for (256 in the code)
    MaxWorkers      \* threads of the session

ASSUME RunAssumption ==
    /\ {Tile1x1, Tile3x3, LargePlane, MaxWorkers} \subseteq Nat \ {0}
    /\ Levels \subseteq {"avx2", "sse2", "neon", "lsx", "scalar"}
    /\ Tile3x3 = 8     \* what the vector kernels for packed 3x3 weights compute

\* What lw_scalar_conv2d_f32 and lw_scalar_conv_transpose2d_f32 check of a node.
ASSUME JobsAssumption ==
    \A j \in Jobs :
        /\ j.op \in {"conv", "convtranspose"}
        /\ {j.h, j.w, j.ic, j.oc, j.groups, j.oh, j.ow} \subseteq Nat \ {0}
        /\ {j.k, j.s, j.d} \subseteq (Nat \ {0}) \X (Nat \ {0})
        /\ {j.p, j.q} \subseteq Nat \X Nat
        /\ j.ic % j.groups = 0 /\ j.oc % j.groups = 0
        /\ <<j.oh, j.ow>> = OutputSize(j)

\* Unset is no number and no slice.
ASSUME UnsetAssumption ==
    Unset \notin Int /\ Unset \notin [begin : Nat, count : Nat, fma : {0, 4, 8}]

VARIABLES
    job, out,       \* the node and its output, as in Convolution
    level,          \* the processor
    packed,         \* "none", "1x1" or "3x3": the layout its weights were packed in
    todo,           \* the slices of channels not yet executed
    slice,          \* the slice being executed, or Unset
    plan,           \* the kernel of the current block of its channels, or Unset
    at,             \* its loops: block, tap or input channel, row, column
    acc, load

fixed == <<job, level, packed>>
vars == <<job, out, level, packed, todo, slice, plan, at, acc, load>>

---------------------------------------------------------------------------
(* The slices.                                                             *)

Tile(p) == CASE p = "1x1" -> Tile1x1 [] p = "3x3" -> Tile3x3 [] p = "none" -> 1

Packable(j, k, s, p) ==
    /\ j.op = "conv" /\ j.groups = 1 /\ j.d = <<1, 1>>
    /\ j.k = k /\ j.s = s /\ j.p = p /\ j.q = p
Blocks(j, tile) == j.oc >= tile /\ j.oc % tile = 0
WidePlane(j) == j.w >= 2 * j.h

\* A session packs whole blocks of 1x1 weights for wide planes, and for large
\* square ones where there are registers enough.
SessionPacks1x1(j, l) ==
    /\ Packable(j, <<1, 1>>, <<1, 1>>, <<0, 0>>) /\ Blocks(j, Tile1x1)
    /\ l # "scalar"
    /\ WidePlane(j) \/ (l # "sse2" /\ j.h * j.w >= LargePlane)

SessionPacks3x3(j, l) ==
    /\ Packable(j, <<3, 3>>, <<2, 2>>, <<1, 1>>) /\ Blocks(j, Tile3x3)
    /\ l = "avx2" /\ WidePlane(j)

\* A compiled program, which is for AVX2, packs the 1x1 weights of any
\* number of channels.
ProgramPacks1x1(j, l) == l = "avx2" /\ Packable(j, <<1, 1>>, <<1, 1>>, <<0, 0>>)

\* The layout the weights may have been packed in.
PackedLayout(j, l) ==
    CASE SessionPacks1x1(j, l) \/ ProgramPacks1x1(j, l) -> "1x1"
      [] SessionPacks3x3(j, l) -> "3x3"
      [] OTHER -> "none"

\* One worker runs a part of the channels when the node is large enough, has
\* one group or is depthwise, and packed blocks come out whole.
WorkerCounts(j, p) ==
    LET items == j.oc \div Tile(p)
        shares == IF j.op = "conv"
                  THEN (j.groups = 1 \/ Depthwise(j)) /\ j.oc % Tile(p) = 0
                  ELSE j.groups = 1 /\ j.k = <<2, 2>> /\ j.s = <<2, 2>>
                       /\ j.d = <<1, 1>> /\ j.p = <<0, 0>> /\ j.q = <<0, 0>>
    IN  {1} \cup (IF shares THEN {n \in 2 .. MaxWorkers : n <= items} ELSE {})

\* Mutation: the channels are cut evenly, through the packed blocks.
BoundUntiled(j, p, n, w) == (j.oc * w) \div n

\* Mutation: every worker gets the same number of whole blocks.
BoundEven(j, p, n, w) == ((j.oc \div Tile(p)) \div n) * w * Tile(p)
Bound(j, p, n, w) == (((j.oc \div Tile(p)) * w) \div n) * Tile(p)
Slices(j, p, n) ==
    IF n = 1
    THEN {[begin |-> 0, count |-> j.oc]}
    ELSE {[begin |-> Bound(j, p, n, w),
           count |-> Bound(j, p, n, w + 1) - Bound(j, p, n, w)] : w \in 0 .. n - 1}

\* The node a slice executes.
SliceJob(j, s) ==
    IF j.op = "conv" /\ j.groups # 1 /\ s.count # j.oc
    THEN [j EXCEPT !.oc = s.count, !.ic = s.count, !.groups = s.count]
    ELSE [j EXCEPT !.oc = s.count]

---------------------------------------------------------------------------
(* The current block of a slice.                                           *)

Here == SliceJob(job, slice)

\* The kernel of a block with that many channels left in it: the variant of
\* the packed 1x1 one is the slice's choice.
KernelFor(valid) ==
    CASE job.op # "conv" -> ConvTranspose2d(Here, level)
      [] job.op = "conv" /\ packed = "1x1" -> PackedConv1x1(Here, level, slice.fma, valid)
      [] job.op = "conv" /\ packed = "3x3" -> PackedConv3x3(Here, level, slice.fma, valid)
      [] job.op = "conv" /\ packed = "none" -> Conv2d(Here, level)
Kernel ==
    KernelFor(IF Here.oc - at.base < Tile(packed) THEN Here.oc - at.base ELSE Tile(packed))

\* The input channels the block reads, and the taps in loop order.
InputChannels ==
    LET per == Here.ic \div Here.groups
        offset == IF Here.groups = job.groups THEN 0 ELSE slice.begin
        first == offset + (at.base \div (Here.oc \div Here.groups)) * per
    IN  [i \in 1 .. per |-> first + i - 1]

Taps ==
    LET window == job.k[1] * job.k[2]
    IN  [i \in 1 .. Len(InputChannels) * window |->
            <<InputChannels[1 + (i - 1) \div window],
              ((i - 1) \div job.k[2]) % job.k[1],
              (i - 1) % job.k[2]>>]

\* Packed weights can be read from the first channel of a block only.
WeightsOf(c) == IF packed # "none" /\ slice.begin % Tile(packed) # 0 THEN Unset ELSE c

Written(sums) ==
    [c \in DOMAIN out |->
        IF c - slice.begin \in at.base .. at.base + plan.group - 1
        THEN [bias |-> c, weights |-> WeightsOf(c), sum |-> sums]
        ELSE out[c]]

Top == [base |-> 0, tap |-> 0, y |-> 0, x |-> 0]
Blank == [e \in Plane(OutputSize(job)) |-> Unset]
Extended(a, taps) == IF a = Unset THEN Unset ELSE a \o taps

\* Input place of tap k for output o.
Place(a, o, k) == o * job.s[a] - job.p[a] + k * job.d[a]

Running(kind) == plan # Unset /\ plan.kind = kind

---------------------------------------------------------------------------
(* Kernels that add one tap at a time.                                     *)

RowsOf(kernel, t) == kernel.rows[Taps[t][2]]
ColsOf(kernel, t) == kernel.cols[Taps[t][3]]
NonEmpty(range) == range[1] < range[2]

\* The loops at the first of the taps from t on that any output takes.
Enter(kernel, t) ==
    LET next == {u \in t .. Len(Taps) : /\ NonEmpty(RowsOf(kernel, u))
                                        /\ NonEmpty(ColsOf(kernel, u))}
    IN  IF next = {}
        THEN [at EXCEPT !.tap = Len(Taps) + 1]
        ELSE [at EXCEPT !.tap = Least(next), !.y = RowsOf(kernel, Least(next))[1],
                                             !.x = ColsOf(kernel, Least(next))[1]]

Advance(x) ==
    LET more == x < ColsOf(plan, at.tap)[2]
        rows == at.y + 1 < RowsOf(plan, at.tap)[2]
    IN  CASE more           -> [at EXCEPT !.x = x]
          [] ~more /\ rows  -> [at EXCEPT !.y = at.y + 1, !.x = ColsOf(plan, at.tap)[1]]
          [] ~more /\ ~rows -> Enter(plan, at.tap + 1)

\* Mutation: the end of the input row is not looked at.
VectorFitsUnguarded == at.x + plan.lanes <= ColsOf(plan, at.tap)[2]

\* A vector fits before the end of the range and, when it takes two of the
\* input, before the end of the input row.
VectorFits ==
    /\ at.x + plan.lanes <= ColsOf(plan, at.tap)[2]
    /\ plan.span = 1 \/ Place(2, at.x, Taps[at.tap][3]) + plan.span * plan.lanes - 1 < plan.w

AddTap(n, floats) ==
    /\ acc' = [e \in DOMAIN acc |->
                  IF e - at.y * plan.ow \in at.x .. at.x + n - 1
                  THEN Extended(acc[e], <<Taps[at.tap]>>) ELSE acc[e]]
    /\ LET y == Place(1, at.y, Taps[at.tap][2])
           x == Place(2, at.x, Taps[at.tap][3])
       IN  load' = [rows |-> <<y, y>>, cols |-> <<x, x + floats - 1>>]
    /\ at' = Advance(at.x + n)
    /\ UNCHANGED <<fixed, out, todo, slice, plan>>

SpreadVector ==
    /\ Running("spread") /\ at.tap \in 1 .. Len(Taps)
    /\ VectorFits
    /\ AddTap(plan.lanes, plan.span * plan.lanes)

SpreadColumn ==
    /\ Running("spread") /\ at.tap \in 1 .. Len(Taps)
    /\ ~VectorFits
    /\ AddTap(1, 1)

---------------------------------------------------------------------------
(* Kernels that finish one place before they go to the next.               *)

\* The taps of one place: of its rows and columns, in loop order.
TapsIn(rows, cols) == SelectSeq(Taps, LAMBDA t : t[2] \in rows /\ t[3] \in cols)

Collect(n, rows, cols, floats) ==
    LET first == at.y * plan.ow + at.x
        used == {<<r, c>> : r \in rows, c \in cols}
        ys == {Place(1, at.y, r) : r \in rows}
        xs == {Place(2, at.x, c) : c \in cols}
    IN  /\ acc' = [e \in DOMAIN acc |->
                      IF e \in first .. first + n - 1 THEN TapsIn(rows, cols) ELSE acc[e]]
        /\ load' = IF used = {} THEN load
                   ELSE [rows |-> <<Least(ys), Greatest(ys)>>,
                         cols |-> <<Least(xs), Greatest(xs) + floats - 1>>]
        /\ at' = IF at.x + n < plan.ow
                 THEN [at EXCEPT !.x = at.x + n]
                 ELSE [at EXCEPT !.x = 0, !.y = at.y + 1]
        /\ UNCHANGED <<fixed, out, todo, slice, plan>>

GatherBlock ==
    /\ Running("gather") /\ at.y < plan.oh
    /\ LET n == plan.width[at.y][at.x]
       IN  n > 1 /\ Collect(n, plan.blkRows[at.y], 0 .. job.k[2] - 1, plan.span * n)

GatherPixel ==
    /\ Running("gather") /\ at.y < plan.oh
    /\ plan.width[at.y][at.x] = 1
    /\ Collect(1, plan.pixRows[at.y], plan.pixCols[at.x], 1)

---------------------------------------------------------------------------
(* Transposed convolutions: at.tap counts the input channels, y and x walk *)
(* the input.                                                              *)

\* What the inputs x .. x + n - 1 of a row add to output e, one after the other.
Reaching(e, n) ==
    LET taps == SelectSeq(Taps, LAMBDA t : t[1] = InputChannels[at.tap])
        From(x) == SelectSeq(taps, LAMBDA t : /\ Place(1, at.y, t[2]) = e \div plan.ow
                                              /\ Place(2, x, t[3]) = e % plan.ow)
        Upto[i \in 0 .. n] == IF i = 0 THEN <<>> ELSE Upto[i - 1] \o From(at.x + i - 1)
    IN  Upto[n]

Strew(n) ==
    /\ acc' = [e \in DOMAIN acc |->
                  LET added == Reaching(e, n)
                  IN  CASE added = <<>> -> acc[e]
                        [] added # <<>> /\ plan.fromBias /\ at.tap = 1 -> added
                        [] added # <<>> /\ ~(plan.fromBias /\ at.tap = 1) ->
                              Extended(acc[e], added)]
    /\ load' = [rows |-> <<at.y, at.y>>, cols |-> <<at.x, at.x + n - 1>>]
    /\ at' = CASE at.x + n < plan.w -> [at EXCEPT !.x = at.x + n]
               [] at.x + n >= plan.w /\ at.y + 1 < plan.h ->
                     [at EXCEPT !.x = 0, !.y = at.y + 1]
               [] at.x + n >= plan.w /\ at.y + 1 >= plan.h ->
                     [at EXCEPT !.x = 0, !.y = 0, !.tap = at.tap + 1]
    /\ UNCHANGED <<fixed, out, todo, slice, plan>>

ScatterVector ==
    /\ Running("scatter") /\ at.tap \in 1 .. Len(InputChannels)
    /\ at.x + plan.lanes <= plan.w
    /\ Strew(plan.lanes)

ScatterColumn ==
    /\ Running("scatter") /\ at.tap \in 1 .. Len(InputChannels)
    /\ at.x + plan.lanes > plan.w
    /\ Strew(1)

---------------------------------------------------------------------------

\* The next block of channels: its kernel fills the plane with the bias,
\* unless every output starts from the bias where it is computed.
StartBlock ==
    /\ slice # Unset /\ plan = Unset /\ at.base < Here.oc
    /\ LET kernel == Kernel
       IN  /\ plan' = kernel
           /\ acc' = IF \/ kernel.kind = "spread"
                        \/ kernel.kind = "scatter" /\ ~kernel.fromBias
                     THEN [e \in DOMAIN acc |-> <<>>] ELSE acc
           /\ at' = CASE kernel.kind = "spread"  -> Enter(kernel, 1)
                      [] kernel.kind = "gather"  -> at
                      [] kernel.kind = "scatter" -> [at EXCEPT !.tap = 1]
    /\ UNCHANGED <<fixed, out, todo, slice, load>>

Exhausted ==
    CASE plan.kind = "spread"  -> at.tap > Len(Taps)
      [] plan.kind = "gather"  -> at.y = plan.oh
      [] plan.kind = "scatter" -> at.tap > Len(InputChannels)

FinishBlock ==
    /\ plan # Unset /\ Exhausted
    /\ out' = Written(acc)
    /\ at' = [Top EXCEPT !.base = at.base + plan.group]
    /\ plan' = Unset
    /\ acc' = Blank
    /\ UNCHANGED <<fixed, todo, slice, load>>

\* A worker takes up its slice; fma is the variant the shape of the slice
\* selects on a processor that has FMA.
StartSlice ==
    /\ slice = Unset
    /\ \E s \in todo, fma \in {0, 4, 8} :
          /\ fma # 0 => level = "avx2" /\ packed # "none"
          /\ fma = 8 => packed = "1x1" /\ s.count % 8 = 0
          /\ slice' = [begin |-> s.begin, count |-> s.count, fma |-> fma]
          /\ todo' = todo \ {s}
    /\ at' = Top
    /\ load' = Unset
    /\ UNCHANGED <<fixed, out, plan, acc>>

FinishSlice ==
    /\ slice # Unset /\ plan = Unset /\ at.base >= Here.oc
    /\ slice' = Unset
    /\ at' = Top
    /\ UNCHANGED <<fixed, out, todo, plan, acc, load>>

RunInit ==
    /\ job \in Jobs
    /\ level \in Levels
    /\ packed \in {"none", PackedLayout(job, level)}
    /\ \E n \in WorkerCounts(job, packed) : todo = Slices(job, packed, n)
    /\ out = [c \in 0 .. job.oc - 1 |-> Uncomputed]
    /\ slice = Unset
    /\ plan = Unset
    /\ at = Top
    /\ acc = Blank
    /\ load = Unset

Next ==
    \/ StartSlice \/ StartBlock \/ SpreadVector \/ SpreadColumn
    \/ GatherBlock \/ GatherPixel
    \/ ScatterVector \/ ScatterColumn
    \/ FinishBlock \/ FinishSlice

RunSpec == RunInit /\ [][Next]_vars

---------------------------------------------------------------------------
(* Properties.                                                             *)

Abstract == INSTANCE Convolution WITH job <- job, out <- out

\* However the channels are cut into slices, whichever kernels the slices
\* choose and however wide their vectors are, every channel comes out once,
\* and every element of it is the bias and the products of the taps inside
\* the input, each added once and in the one order all the kernels share:
\* the outputs of two processors, or of one and of four threads, are equal
\* bit by bit.
ConvolutionSpec == Abstract!Spec

\* The vector tiles of stride two look at the inputs they use, not at the one
\* the last load takes besides: on a row of even width it is one float too far.
Spare(kernel) == IF kernel.kind = "gather" /\ kernel.span = 2 /\ kernel.w % 2 = 0 THEN 1 ELSE 0

\* No step loads from outside the row of the input it works on, the vectors
\* at the ends of the row included: but for the vector tiles of stride two,
\* which take up to one float past a row of even width and ignore it.  That
\* float is the next row's, or the next channel's; on the last row of the last
\* channel it is past the tensor.
LoadsInRow ==
    (plan # Unset /\ load # Unset) =>
        /\ 0 <= load.rows[1] /\ load.rows[2] < plan.h
        /\ 0 <= load.cols[1] /\ load.cols[2] < plan.w + Spare(plan)

\* When no slice is left every channel has been computed, the remainder of
\* an uneven division among the workers and of the last block included.
NoChannelIsLeftOut ==
    (todo = {} /\ slice = Unset) => \A c \in DOMAIN out : out[c] # Uncomputed
=============================================================================
