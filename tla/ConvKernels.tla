---------------------------- MODULE ConvKernels ----------------------------
(***************************************************************************)
(* The NCHW convolution kernels (src/src/kernels/scalar_conv.c,            *)
(* packed_conv.c, packed_conv3x3.c and their AVX2, SSE2, NEON and LSX      *)
(* counterparts in src/src/simd) and the choice between them.  A kernel is *)
(* described by its loops.  There are three shapes of them:                *)
(*                                                                         *)
(*   spread   fills the plane with the bias, then adds one tap at a time   *)
(*            to the range of outputs for which the tap is inside: rows    *)
(*            and cols give the ranges, lanes the vector width of a row,   *)
(*            span the input floats loaded for each output of a vector;    *)
(*   gather   computes the outputs left to right, at each place either a   *)
(*            vector of width[y][x] outputs or, when that is 1, a single   *)
(*            one from the taps pixRows and pixCols;                       *)
(*   scatter  walks the input and adds every value to the outputs its taps *)
(*            reach (transposed convolution).                              *)
(*                                                                         *)
(* group channels are computed together; h, w, oh, ow are the planes as    *)
(* the kernel sees them (a 1x1 kernel sees one long row).  A range is      *)
(* <<begin, end>>, end excluded.                                           *)
(***************************************************************************)
EXTENDS ConvShapes, FiniteSets

CONSTANTS
    Avx,        \* floats in an AVX2 vector (8 in the code)
    Sse         \* floats in an SSE2, NEON or LSX vector (4 in the code)

ASSUME LanesAssumption == Avx \in Nat \ {0} /\ Sse \in Nat \ {0}

Least(S) == CHOOSE x \in S : \A y \in S : x <= y
Greatest(S) == CHOOSE x \in S : \A y \in S : x >= y

\* A plane without padding and with unit stride is one row.
Flat(j) == [j EXCEPT !.h = 1, !.w = j.h * j.w, !.oh = 1, !.ow = j.h * j.w]

\* The range of the outputs each tap k of an axis is added to.
Whole(n) == [k \in 0 .. 0 |-> <<0, n>>]

\* Three taps, one of padding on either side.
Edge(n) == [k \in 0 .. 2 |-> <<IF k = 0 THEN 1 ELSE 0, IF k = 2 THEN n - 1 ELSE n>>]

\* Three taps and stride two: the last tap of the last output may be outside.
EdgeStride2(n, o) ==
    [k \in 0 .. 2 |-> <<IF k = 0 THEN 1 ELSE 0,
                        IF k = 2 /\ (o - 1) * 2 + 1 >= n THEN o - 1 ELSE o>>]

HalfRows(n, o) ==
    [k \in 0 .. 2 |-> <<IF k = 0 THEN 1 ELSE 0, IF k = 2 THEN n \div 2 ELSE o>>]

\* The same ranges found by stepping in from both ends.
TrimmedStride2(n, o) ==
    [k \in 0 .. 2 |->
        LET begin == Least({b \in 0 .. o : b = o \/ b * 2 - 1 + k >= 0})
        IN  <<begin, Greatest({e \in begin .. o : e = begin \/ (e - 1) * 2 - 1 + k < n})>>]

\* 2p + 1 taps, p of padding on either side, the ends clamped.
Clamped(n, p) ==
    [k \in 0 .. 2 * p |->
        LET trim == IF k > p THEN k - p ELSE 0
        IN  <<IF k < p THEN p - k ELSE 0, IF trim < n THEN n - trim ELSE 0>>]

\* The same, for n at least 2p + 1.
Centred(n, p) ==
    [k \in 0 .. 2 * p |-> <<IF k < p THEN p - k ELSE 0, IF k > p THEN n - (k - p) ELSE n>>]

\* Two taps, one of padding after the end.
PadEnd(n) == [k \in 0 .. 1 |-> <<0, n - k>>]

Spread(j, group, lanes, span, rows, cols) ==
    [kind |-> "spread", group |-> group, lanes |-> lanes, span |-> span,
     rows |-> rows, cols |-> cols, h |-> j.h, w |-> j.w, oh |-> j.oh, ow |-> j.ow]

Gather(j, group, span, width, blkRows, pixRows, pixCols) ==
    [kind |-> "gather", group |-> group, span |-> span,
     width |-> [y \in 0 .. j.oh - 1 |-> [x \in 0 .. j.ow - 1 |-> width[<<y, x>>]]],
     blkRows |-> blkRows, pixRows |-> pixRows, pixCols |-> pixCols,
     h |-> j.h, w |-> j.w, oh |-> j.oh, ow |-> j.ow]

Outputs(j) == (0 .. j.oh - 1) \X (0 .. j.ow - 1)
Single(j) == [o \in Outputs(j) |-> 1]
AllTaps(n, k) == [o \in 0 .. n - 1 |-> 0 .. k - 1]

\* The taps a single output takes when each is tested for being inside.
Tested(n, o, k, s, p) == [x \in 0 .. o - 1 |-> {t \in 0 .. k - 1 : x * s - p + t \in 0 .. n - 1}]

---------------------------------------------------------------------------
\* One tap at a time.

Conv1x1(j, lanes) == Spread(Flat(j), 1, lanes, 1, Whole(1), Whole(j.h * j.w))
ScalarConv1x1(j) == Conv1x1(j, 1)
Sse2Conv1x1(j) == Conv1x1(j, Sse)
Avx2Conv1x1(j) == Conv1x1(j, Avx)

Unit3x3(j, lanes) == Spread(j, 1, lanes, 1, Edge(j.h), Edge(j.w))
ScalarDepthwise3x3(j) == Unit3x3(j, 1)
Sse2Depthwise3x3(j) == Unit3x3(j, Sse)
Avx2Depthwise3x3(j) == Unit3x3(j, Avx)
ScalarConv3x3(j) == Unit3x3(j, 1)
Sse2Conv3x3(j) == Unit3x3(j, Sse)
NeonConv3x3(j) == Unit3x3(j, Sse)
Avx2Conv3x3One(j) == Unit3x3(j, Avx)

Stride2x1(j, lanes) == Spread(j, 1, lanes, 1, HalfRows(j.h, j.oh), Edge(j.w))
ScalarDepthwise3x3Stride2x1(j) == Stride2x1(j, 1)
Sse2Depthwise3x3Stride2x1(j) == Stride2x1(j, Sse)
Avx2Depthwise3x3Stride2x1(j) == Stride2x1(j, Avx)

Wide(j, p, lanes) == Spread(j, 1, lanes, 1, Clamped(j.h, p), Clamped(j.w, p))
ScalarDepthwise5x5(j) == Wide(j, 2, 1)
Sse2Depthwise5x5(j) == Wide(j, 2, Sse)
Avx2Depthwise5x5(j) == Wide(j, 2, Avx)
Avx2Depthwise9x9(j) == Wide(j, 4, Avx)

Avx2Conv7x7One(j) == Spread(j, 1, Avx, 1, Centred(j.h, 3), Centred(j.w, 3))
Avx2Conv5x5One(j) == Spread(j, 1, Avx, 1, Centred(j.h, 2), Centred(j.w, 2))

\* One column, or one row, of taps.
Avx2ConvAxis(j, p, vertical) ==
    Spread(j, 1, Avx, 1, IF vertical # 0 THEN Centred(j.h, p) ELSE Whole(j.h),
                                  IF vertical # 0 THEN Whole(j.w) ELSE Centred(j.w, p))

PadEnd2x2(j, group, lanes) == Spread(j, group, lanes, 1, PadEnd(j.h), PadEnd(j.w))
ScalarConv2x2(j) == PadEnd2x2(j, 1, 1)
Sse2Conv2x2Four(j) == PadEnd2x2(j, 4, Sse)
Sse2Conv2x2(j) == IF j.oc % 4 = 0 THEN Sse2Conv2x2Four(j) ELSE PadEnd2x2(j, 1, Sse)
Avx2Conv2x2Four(j) == PadEnd2x2(j, 4, Avx)
Avx2Conv2x2(j) == IF j.oc % 4 = 0 THEN Avx2Conv2x2Four(j) ELSE PadEnd2x2(j, 1, Avx)

ScalarConv3x3Stride2(j) ==
    Spread(j, 1, 1, 1, TrimmedStride2(j.h, j.oh), TrimmedStride2(j.w, j.ow))

\* Two vectors of the input make one of the output.
Stream(j, lanes) ==
    Spread(j, 1, lanes, 2, EdgeStride2(j.h, j.oh), EdgeStride2(j.w, j.ow))
Sse2Conv3x3Stride2(j) == Stream(j, Sse)
Avx2Conv3x3Stride2Stream(j) == Stream(j, Avx)

---------------------------------------------------------------------------
\* One output, or one vector of outputs, at a time.

\* A vector is taken where all nine taps of all its outputs are inside.
UnitTile(j, group, lanes) ==
    Gather(j, group, 1,
           [o \in Outputs(j) |-> IF /\ o[1] # 0 /\ o[1] + 1 < j.h
                                    /\ o[2] # 0 /\ o[2] + lanes < j.w
                                 THEN lanes ELSE 1],
           AllTaps(j.oh, 3), Tested(j.h, j.oh, 3, 1, 1), Tested(j.w, j.ow, 3, 1, 1))
Avx2Conv3x3Four(j) == UnitTile(j, 4, Avx)
Avx2Conv3x3(j) == IF j.oc % 4 = 0 THEN Avx2Conv3x3Four(j) ELSE Avx2Conv3x3One(j)

Stride2Vectors(j, lanes) ==
    [o \in Outputs(j) |-> IF /\ o[1] # 0 /\ o[1] * 2 + 1 < j.h
                             /\ o[2] # 0 /\ o[2] + lanes <= j.ow
                             /\ (o[2] + lanes - 1) * 2 + 1 < j.w
                          THEN lanes ELSE 1]
Stride2Tile(j, group, width) ==
    Gather(j, group, 2, width, AllTaps(j.oh, 3),
           Tested(j.h, j.oh, 3, 2, 1), Tested(j.w, j.ow, 3, 2, 1))
Avx2Conv3x3Stride2Eight(j) == Stride2Tile(j, 8, Stride2Vectors(j, Avx))
Avx2Conv3x3Stride2Four(j) == Stride2Tile(j, 4, Stride2Vectors(j, Avx))
Avx2Conv3x3Stride2One(j) == Stride2Tile(j, 1, Stride2Vectors(j, Avx))
Avx2Conv3x3Stride2(j) ==
    CASE j.oc % 8 = 0               -> Avx2Conv3x3Stride2Eight(j)
      [] j.oc % 8 = 4               -> Avx2Conv3x3Stride2Four(j)
      [] j.oc % 4 # 0 /\ j.ic > 4   -> Avx2Conv3x3Stride2Stream(j)
      [] j.oc % 4 # 0 /\ j.ic <= 4  -> Avx2Conv3x3Stride2One(j)

\* Packed weights come in blocks of eight channels; valid of them exist.
ScalarPackedConv3x3(j, valid) == Stride2Tile(j, valid, Single(j))
Avx2PackedConv3x3(j) == Stride2Tile(j, 8, Stride2Vectors(j, Avx))
Avx2FmaPackedConv3x3(j) == Stride2Tile(j, 8, Stride2Vectors(j, Avx))

\* The rows of the window are trimmed for each output row; vectors are taken
\* from the column at which every tap is inside.
WideTile(j, p) ==
    LET Rows == [y \in 0 .. j.oh - 1 |->
                    (IF y < p THEN p - y ELSE 0)
                        .. (IF y + p >= j.h THEN j.h - y + p ELSE 2 * p + 1) - 1]
        end == IF j.w > p THEN j.w - p ELSE p
    IN  Gather(j, 4, 1,
               [o \in Outputs(j) |-> IF o[2] >= p /\ o[2] + Avx <= end THEN Avx ELSE 1],
               Rows, Rows, Tested(j.w, j.ow, 2 * p + 1, 1, p))
Avx2Conv7x7Four(j) == WideTile(j, 3)
Avx2Conv5x5Four(j) == WideTile(j, 2)

\* Any convolution: the window is trimmed from both ends for each output.
General(j) ==
    LET Trim(n, a, o) ==
            LET at(k) == o * j.s[a] - j.p[a] + k * j.d[a]
                begin == Least({k \in 0 .. j.k[a] : k = j.k[a] \/ at(k) >= 0})
            IN  begin .. Greatest({k \in begin .. j.k[a] : k = begin \/ at(k - 1) < n}) - 1
        Rows == [y \in 0 .. j.oh - 1 |-> Trim(j.h, 1, y)]
    IN  Gather(j, 1, 1, Single(j), Rows, Rows, [x \in 0 .. j.ow - 1 |-> Trim(j.w, 2, x)])

\* 1x1 with packed weights, four channels to a block: two vectors at a time
\* when the block is whole, then one, then single outputs.
Packed1x1(j, valid, wide, lanes) ==
    LET n == j.h * j.w
    IN  Gather(Flat(j), valid, 1,
               [o \in Outputs(Flat(j)) |->
                    CASE wide /\ valid = 4 /\ o[2] + 2 * lanes <= n -> 2 * lanes
                      [] ~(wide /\ valid = 4 /\ o[2] + 2 * lanes <= n) /\ o[2] + lanes <= n -> lanes
                      [] o[2] + lanes > n -> 1],
               AllTaps(1, 1), AllTaps(1, 1), AllTaps(n, 1))
ScalarPackedConv1x1(j, valid) == Packed1x1(j, valid, FALSE, 1)
Sse2PackedConv1x1(j, valid) == Packed1x1(j, valid, FALSE, Sse)
NeonPackedConv1x1(j, valid) == Packed1x1(j, valid, FALSE, Sse)
LsxPackedConv1x1(j, valid) == Packed1x1(j, valid, FALSE, Sse)
Avx2PackedConv1x1(j, valid) == Packed1x1(j, valid, TRUE, Avx)
Avx2FmaPackedConv1x1(j, valid) == Packed1x1(j, valid, TRUE, Avx)
\* Two blocks at a time.
Avx2FmaPackedConv1x1Two(j, valid) ==
    IF j.oc < 8 \/ j.oc % 8 # 0 \/ j.h * j.w < Avx
    THEN Avx2FmaPackedConv1x1(j, valid)
    ELSE Packed1x1(j, 8, FALSE, Avx)

---------------------------------------------------------------------------
\* Transposed convolutions: every input value is added to the outputs its
\* taps reach; with fromBias the first channel starts from the bias instead
\* of a plane filled with it.
Scatter(j, lanes, fromBias) ==
    [kind |-> "scatter", group |-> 1, lanes |-> lanes, fromBias |-> fromBias,
     h |-> j.h, w |-> j.w, oh |-> j.oh, ow |-> j.ow]
ScalarConvTranspose2x2(j) == Scatter(j, 1, FALSE)
Sse2ConvTranspose2x2(j) == Scatter(j, Sse, FALSE)
NeonConvTranspose2x2(j) == Scatter(j, Sse, FALSE)
Avx2ConvTranspose2x2(j) == Scatter(j, Avx, TRUE)
GeneralConvTranspose(j) == Scatter(j, 1, FALSE)

---------------------------------------------------------------------------
\* The choice of a kernel.

Shaped(j, k, s, p, q) == j.k = k /\ j.s = s /\ j.d = <<1, 1>> /\ j.p = p /\ j.q = q
Centre(j, k) ==
    Shaped(j, k, <<1, 1>>, <<k[1] \div 2, k[2] \div 2>>, <<k[1] \div 2, k[2] \div 2>>)
Depthwise(j) == j.groups = j.ic /\ j.oc = j.ic
AtLeast(j, h, w) == j.h >= h /\ j.w >= w

\* The one for this processor: level is avx2, sse2, neon, lsx or scalar.
Pick(level, avx2, sse2, neon, scalar) ==
    CASE level = "avx2" -> avx2
      [] level = "sse2" -> sse2
      [] level = "neon" -> neon
      [] level \in {"lsx", "scalar"} -> scalar

DepthwiseConv2d(j, level) ==
    CASE Centre(j, <<3, 3>>) ->
            Pick(level, Avx2Depthwise3x3(j), Sse2Depthwise3x3(j), ScalarDepthwise3x3(j),
                 ScalarDepthwise3x3(j))
      [] Shaped(j, <<3, 3>>, <<2, 1>>, <<1, 1>>, <<1, 1>>) ->
            Pick(level, Avx2Depthwise3x3Stride2x1(j), Sse2Depthwise3x3Stride2x1(j),
                 ScalarDepthwise3x3Stride2x1(j), ScalarDepthwise3x3Stride2x1(j))
      [] Centre(j, <<5, 5>>) ->
            Pick(level, Avx2Depthwise5x5(j), Sse2Depthwise5x5(j), ScalarDepthwise5x5(j),
                 ScalarDepthwise5x5(j))
      [] Centre(j, <<9, 9>>) /\ AtLeast(j, 9, 9) /\ level = "avx2" -> Avx2Depthwise9x9(j)
      [] OTHER -> General(j)

DenseConv2d(j, level) ==
    CASE Centre(j, <<7, 1>>) /\ AtLeast(j, 7, 1) /\ level = "avx2" -> Avx2ConvAxis(j, 3, 1)
      [] Centre(j, <<1, 7>>) /\ AtLeast(j, 1, 7) /\ level = "avx2" -> Avx2ConvAxis(j, 3, 0)
      [] Centre(j, <<5, 1>>) /\ AtLeast(j, 5, 1) /\ level = "avx2" -> Avx2ConvAxis(j, 2, 1)
      [] Centre(j, <<1, 5>>) /\ AtLeast(j, 1, 5) /\ level = "avx2" -> Avx2ConvAxis(j, 2, 0)
      [] Centre(j, <<3, 3>>) ->
            Pick(level, Avx2Conv3x3(j), Sse2Conv3x3(j), NeonConv3x3(j), ScalarConv3x3(j))
      [] Centre(j, <<7, 7>>) /\ AtLeast(j, 7, 7) /\ level = "avx2" ->
            IF j.oc % 4 = 0 THEN Avx2Conv7x7Four(j) ELSE Avx2Conv7x7One(j)
      [] Centre(j, <<5, 5>>) /\ AtLeast(j, 5, 5) /\ level = "avx2" ->
            IF j.oc % 4 = 0 THEN Avx2Conv5x5Four(j) ELSE Avx2Conv5x5One(j)
      [] Shaped(j, <<2, 2>>, <<1, 1>>, <<0, 0>>, <<1, 1>>) ->
            Pick(level, Avx2Conv2x2(j), Sse2Conv2x2(j), ScalarConv2x2(j), ScalarConv2x2(j))
      [] Shaped(j, <<3, 3>>, <<2, 2>>, <<1, 1>>, <<1, 1>>) ->
            Pick(level, Avx2Conv3x3Stride2(j), Sse2Conv3x3Stride2(j),
                 ScalarConv3x3Stride2(j), ScalarConv3x3Stride2(j))
      [] OTHER -> General(j)

\* The depthwise shapes with a kernel of their own.
DepthwiseShape(j) ==
    /\ Depthwise(j)
    /\ \/ Centre(j, <<3, 3>>) \/ Centre(j, <<5, 5>>) \/ (Centre(j, <<9, 9>>) /\ AtLeast(j, 9, 9))
       \/ Shaped(j, <<3, 3>>, <<2, 1>>, <<1, 1>>, <<1, 1>>)

Conv2d(j, level) ==
    CASE Shaped(j, <<1, 1>>, <<1, 1>>, <<0, 0>>, <<0, 0>>) ->
            Pick(level, Avx2Conv1x1(j), Sse2Conv1x1(j), ScalarConv1x1(j), ScalarConv1x1(j))
      [] DepthwiseShape(j) -> DepthwiseConv2d(j, level)
      [] j.groups = 1 /\ ~DepthwiseShape(j) -> DenseConv2d(j, level)
      [] OTHER -> General(j)

ConvTranspose2d(j, level) ==
    IF j.groups = 1 /\ Shaped(j, <<2, 2>>, <<2, 2>>, <<0, 0>>, <<0, 0>>)
    THEN Pick(level, Avx2ConvTranspose2x2(j), Sse2ConvTranspose2x2(j),
              NeonConvTranspose2x2(j), ScalarConvTranspose2x2(j))
    ELSE GeneralConvTranspose(j)

\* Packed 1x1: fma is 0, or the variant (4 or 8) the table of measured shapes
\* gives on a processor with FMA.
PackedConv1x1(j, level, fma, valid) ==
    CASE fma = 8 -> Avx2FmaPackedConv1x1Two(j, valid)
      [] fma = 4 -> Avx2FmaPackedConv1x1(j, valid)
      [] fma = 0 /\ level = "lsx" -> LsxPackedConv1x1(j, valid)
      [] fma = 0 /\ level # "lsx" ->
            Pick(level, Avx2PackedConv1x1(j, valid), Sse2PackedConv1x1(j, valid),
                 NeonPackedConv1x1(j, valid), ScalarPackedConv1x1(j, valid))

PackedConv3x3(j, level, fma, valid) ==
    CASE level = "avx2" /\ fma # 0               -> Avx2FmaPackedConv3x3(j)
      [] level = "avx2" /\ fma = 0 /\ j.oc % 8 = 0 -> Avx2PackedConv3x3(j)
      [] OTHER                                   -> ScalarPackedConv3x3(j, valid)
=============================================================================
