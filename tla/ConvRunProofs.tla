--------------------------- MODULE ConvRunProofs ---------------------------
(***************************************************************************)
(* For any convolution nodes, on any processor and with any number of      *)
(* workers: the slices are the channels cut into parts, a kernel computes  *)
(* no channel that is not its slice's, and every channel is computed once, *)
(* with its own bias and weights.                                          *)
(***************************************************************************)
EXTENDS ConvRun, WellFoundedInduction, FiniteSetTheorems, TLAPS

-----------------------------------------------------------------------------
(* Numbers.                                                                *)

(* A nonempty set of naturals with a bound has a greatest element.         *)
LEMMA GreatestOf ==
  ASSUME NEW b \in Nat, NEW T, T \subseteq 0 .. b, T # {}
  PROVE  \E x \in T : \A y \in T : y <= x
<1> DEFINE Above(x) == {y \in T : x <= y}
           F == {Above(x) : x \in T}
<1>1. IsFiniteSet(0 .. b) /\ \A x \in T : x \in Nat
  BY FS_Interval
<1>2. F \subseteq SUBSET (0 .. b) /\ F # {}
  OBVIOUS
<1>3. IsWellFoundedOn(StrictSubsetOrdering(0 .. b), SUBSET (0 .. b))
  BY <1>1, FS_StrictSubsetOrderingWellFounded, FS_FiniteSubsetsOfFinite
<1>4. PICK U \in F : \A V \in F : <<V, U>> \notin StrictSubsetOrdering(0 .. b)
  <2> HIDE DEF F
  <2>1. QED
    BY <1>2, <1>3, WFMin
<1>5. PICK x \in T : U = Above(x)
  OBVIOUS
<1>6. ASSUME NEW y \in T, x < y PROVE FALSE
  <2>0. x <= x /\ ~(y <= x) /\ \A z \in T : y <= z => x <= z
    BY <1>1, <1>6
  <2>1. Above(y) \subseteq Above(x) /\ x \in Above(x) /\ x \notin Above(y)
    BY <2>0, Zenon
  <2>2. Above(y) \in F /\ Above(x) \in SUBSET (0 .. b) /\ Above(y) \in SUBSET (0 .. b)
    OBVIOUS
  <2> HIDE DEF Above, F
  <2>3. QED
    BY <1>4, <1>5, <2>1, <2>2 DEF StrictSubsetOrdering
<1>7. QED
  BY <1>1, <1>6

LEMMA DivMod ==
  ASSUME NEW a \in Nat, NEW n \in Nat \ {0}
  PROVE  /\ a \div n \in Nat /\ a % n \in 0 .. n - 1
         /\ a = n * (a \div n) + (a % n)
OBVIOUS

LEMMA Products ==
  ASSUME NEW a \in Nat, NEW b \in Nat, NEW c \in Nat
  PROVE  /\ a * b \in Nat
         /\ a <= b => a * c <= b * c /\ c * a <= c * b
         /\ (a + 1) * c = a * c + c /\ c * (a + 1) = c * a + c
OBVIOUS

LEMMA DivMonotone ==
  ASSUME NEW a \in Nat, NEW b \in Nat, a <= b, NEW n \in Nat \ {0}
  PROVE  a \div n <= b \div n
<1> DEFINE x == a \div n
           y == b \div n
<1>1. x \in Nat /\ y \in Nat /\ n * x <= a /\ b < n * y + n
  BY DivMod
<1>2. SUFFICES ASSUME y < x PROVE FALSE
  BY <1>1
<1> HIDE DEF x, y
<1>3. n * (y + 1) <= n * x /\ n * (y + 1) = n * y + n
  BY <1>1, <1>2, Products
<1>4. n * y \in Nat /\ n * x \in Nat
  BY <1>1, Products
<1> QED
  BY <1>1, <1>3, <1>4

LEMMA DivExact ==
  ASSUME NEW a \in Nat, NEW n \in Nat \ {0}
  PROVE  (a * n) \div n = a /\ (a * n) % n = 0
OBVIOUS

LEMMA Multiples ==
  ASSUME NEW n \in Nat \ {0}, NEW a \in Nat, NEW b \in Nat, a % n = 0, b % n = 0
  PROVE  /\ (a + b) % n = 0 /\ (a >= b => (a - b) % n = 0)
         /\ a > b => a >= b + n
<1>1. PICK x, y : x = a \div n /\ y = b \div n
  OBVIOUS
<1>2. x \in Nat /\ y \in Nat /\ a = n * x /\ b = n * y
  BY <1>1, DivMod
<1>3. (a + b) % n = 0
  <2>1. a + b = (x + y) * n
    BY <1>2
  <2> QED
    BY <1>2, <2>1, DivExact
<1>4. a >= b => (a - b) % n = 0 /\ (a > b => a >= b + n)
  <2>1. SUFFICES ASSUME a >= b PROVE (a - b) % n = 0 /\ (a > b => a >= b + n)
    OBVIOUS
  <2>2. x >= y
    <3>1. x < y => n * (x + 1) <= n * y /\ n * (x + 1) = n * x + n
      BY <1>2, Products
    <3>2. n * x \in Nat /\ n * y \in Nat
      BY <1>2, Products
    <3> QED
      BY <1>2, <2>1, <3>1, <3>2
  <2>3. PICK z : z = x - y
    OBVIOUS
  <2>4. z \in Nat /\ x = y + z
    BY <1>2, <2>2, <2>3
  <2>5. n * z \in Nat /\ n * y \in Nat /\ n * x = n * y + n * z
    BY <1>2, <2>4
  <2>6. a - b = z * n
    BY <1>2, <2>4, <2>5
  <2>7. (a - b) % n = 0
    BY <2>4, <2>6, DivExact
  <2>8. a > b => a >= b + n
    <3>1. z # 0 => n * 1 <= n * z
      BY <2>4, Products
    <3>2. z = 0 => n * z = 0
      BY <2>4
    <3> QED
      BY <1>2, <2>5, <3>1, <3>2
  <2> QED
    BY <2>7, <2>8
<1> QED
  BY <1>3, <1>4

-----------------------------------------------------------------------------
(* Slices.                                                                 *)

StaticInv ==
  job \in Jobs /\ level \in Levels /\ packed \in {"none", PackedLayout(job, level)}

LEMMA JobFacts ==
  ASSUME StaticInv
  PROVE  /\ job.oc \in Nat \ {0} /\ Tile(packed) \in Nat \ {0}
         /\ packed \in {"none", "1x1", "3x3"}
         /\ packed # "none" => job.op = "conv" /\ job.groups = 1
         /\ packed = "3x3" => Tile(packed) = 8 /\ job.oc % 8 = 0 /\ level = "avx2"
<1>1. job.oc \in Nat \ {0}
  BY JobsAssumption DEF StaticInv
<1>2. packed \in {"none", "1x1", "3x3"}
  BY DEF StaticInv, PackedLayout
<1>3. Tile(packed) \in Nat \ {0} /\ (packed = "3x3" => Tile(packed) = 8)
  <2>1. {Tile1x1, Tile3x3} \subseteq Nat \ {0} /\ Tile3x3 = 8
    BY RunAssumption
  <2> QED
    BY <1>2, <2>1 DEF Tile
<1>4. packed = "1x1" => SessionPacks1x1(job, level) \/ ProgramPacks1x1(job, level)
  BY Zenon DEF StaticInv, PackedLayout
<1>5. packed = "3x3" => SessionPacks3x3(job, level)
  BY Zenon DEF StaticInv, PackedLayout
<1>6. packed # "none" => job.op = "conv" /\ job.groups = 1
  BY <1>2, <1>4, <1>5 DEF SessionPacks1x1, ProgramPacks1x1, SessionPacks3x3, Packable
<1>7. packed = "3x3" => job.oc % 8 = 0 /\ level = "avx2"
  BY <1>5, RunAssumption DEF SessionPacks3x3, Blocks
<1> QED
  BY <1>1, <1>2, <1>3, <1>6, <1>7

LEMMA WorkerFacts ==
  ASSUME StaticInv, NEW n \in WorkerCounts(job, packed)
  PROVE  /\ n \in Nat \ {0}
         /\ n # 1 => /\ job.oc = (job.oc \div Tile(packed)) * Tile(packed)
                     /\ job.op = "conv" => job.groups = 1 \/ Depthwise(job)
<1>1. n = 1 \/ n \in 2 .. MaxWorkers
  BY DEF WorkerCounts
<1>2. MaxWorkers \in Nat
  BY RunAssumption
<1>3. n \in Nat \ {0}
  BY <1>1, <1>2
<1>4. n # 1 => /\ job.op = "conv" => /\ job.groups = 1 \/ Depthwise(job)
                                     /\ job.oc % Tile(packed) = 0
  BY DEF WorkerCounts
<1>5. job.op # "conv" => Tile(packed) = 1
  BY JobFacts DEF Tile
<1>6. n # 1 => job.oc % Tile(packed) = 0
  BY <1>4, <1>5, JobFacts
<1>7. n # 1 => job.oc = (job.oc \div Tile(packed)) * Tile(packed)
  <2>1. PICK t, q : t = Tile(packed) /\ q = job.oc \div t
    OBVIOUS
  <2>2. t \in Nat \ {0} /\ job.oc \in Nat
    BY <2>1, JobFacts
  <2>3. q \in Nat /\ job.oc = t * q + (job.oc % t)
    BY <2>1, <2>2, DivMod
  <2>4. t * q = q * t /\ t * q \in Nat
    BY <2>2, <2>3, Products
  <2> QED
    BY <1>6, <2>1, <2>3, <2>4
<1> QED
  BY <1>3, <1>4, <1>7

(* The bounds of the slices are whole blocks and grow.                     *)
LEMMA BoundFacts ==
  ASSUME StaticInv, NEW n \in WorkerCounts(job, packed), n # 1
  PROVE  /\ \A w \in Nat : /\ Bound(job, packed, n, w) \in Nat
                           /\ Bound(job, packed, n, w) % Tile(packed) = 0
         /\ \A v, w \in Nat : v <= w => Bound(job, packed, n, v) <= Bound(job, packed, n, w)
         /\ Bound(job, packed, n, 0) = 0 /\ Bound(job, packed, n, n) = job.oc
<1> DEFINE t == Tile(packed)
           items == job.oc \div t
           F(w) == (items * w) \div n
<1>1. /\ t \in Nat \ {0} /\ items \in Nat /\ n \in Nat \ {0} /\ job.oc = items * t
  BY WorkerFacts, JobFacts, DivMod
<1>2. \A w : Bound(job, packed, n, w) = F(w) * t
  BY DEF Bound
<1> HIDE DEF t, items
<1>3. \A w \in Nat : F(w) \in Nat
  <2> SUFFICES ASSUME NEW w \in Nat PROVE F(w) \in Nat
    OBVIOUS
  <2>1. items * w \in Nat
    BY <1>1, Products
  <2> QED
    BY <1>1, <2>1, DivMod
<1>4. \A v, w \in Nat : v <= w => F(v) <= F(w)
  <2> SUFFICES ASSUME NEW v \in Nat, NEW w \in Nat, v <= w PROVE F(v) <= F(w)
    OBVIOUS
  <2>1. items * v \in Nat /\ items * w \in Nat /\ items * v <= items * w
    BY <1>1, Products
  <2> QED
    BY <1>1, <2>1, DivMonotone
<1>5. F(0) = 0 /\ F(n) = items
  <2>1. items * 0 = 0 * n /\ 0 \in Nat
    BY <1>1
  <2> QED
    BY <1>1, <2>1, DivExact
<1> HIDE DEF F
<1>6. \A w \in Nat : F(w) * t \in Nat /\ (F(w) * t) % t = 0
  BY <1>1, <1>3, Products, DivExact
<1>7. \A v, w \in Nat : v <= w => F(v) * t <= F(w) * t
  <2> SUFFICES ASSUME NEW v \in Nat, NEW w \in Nat, v <= w PROVE F(v) * t <= F(w) * t
    OBVIOUS
  <2>1. F(v) \in Nat /\ F(w) \in Nat /\ F(v) <= F(w)
    BY <1>3, <1>4
  <2> QED
    BY <1>1, <2>1, Products
<1>8. F(0) * t = 0 /\ F(n) * t = job.oc
  BY <1>1, <1>5
<1> QED
  BY <1>1, <1>2, <1>6, <1>7, <1>8 DEF t

Within(c, s) == s.begin <= c /\ c < s.begin + s.count

(* The slices are parts of the channels that begin where a block does, and *)
(* every channel is in one of them.                                        *)
LEMMA SliceFacts ==
  ASSUME StaticInv, NEW n \in WorkerCounts(job, packed)
  PROVE  LET S == Slices(job, packed, n)
         IN  /\ \A s \in S : /\ s = [begin |-> s.begin, count |-> s.count]
                             /\ s.begin \in Nat /\ s.count \in Nat
                             /\ s.begin + s.count <= job.oc
                             /\ s.begin % Tile(packed) = 0
                             /\ packed = "3x3" => s.count % 8 = 0
             /\ \A c \in 0 .. job.oc - 1 : \E s \in S : Within(c, s)
             /\ \A s, r \in S : s # r => \/ s.begin + s.count <= r.begin
                                         \/ r.begin + r.count <= s.begin
<1> DEFINE S == Slices(job, packed, n)
           B(w) == Bound(job, packed, n, w)
           t == Tile(packed)
<1>1. job.oc \in Nat \ {0} /\ t \in Nat \ {0} /\ (packed = "3x3" => t = 8 /\ job.oc % 8 = 0)
      /\ n \in Nat \ {0}
  BY JobFacts, WorkerFacts
<1>2. CASE n = 1
  <2>1. S = {[begin |-> 0, count |-> job.oc]}
    BY <1>2 DEF Slices
  <2>2. 0 % t = 0
    BY <1>1
  <2> HIDE DEF S, t
  <2> QED
    BY <1>1, <2>1, <2>2 DEF Within, S, t
<1>3. CASE n # 1
  <2>1. S = {[begin |-> B(w), count |-> B(w + 1) - B(w)] : w \in 0 .. n - 1}
    BY <1>3 DEF Slices
  <2>2. /\ \A w \in Nat : B(w) \in Nat /\ B(w) % t = 0
        /\ \A v, w \in Nat : v <= w => B(v) <= B(w)
        /\ B(0) = 0 /\ B(n) = job.oc
    BY <1>3, BoundFacts
  <2> HIDE DEF S, B, t
  <2>3. \A w \in 0 .. n - 1 : /\ w \in Nat /\ w + 1 \in Nat /\ B(w) <= B(w + 1) /\ B(w + 1) <= job.oc
                              /\ B(w) \in Nat /\ B(w + 1) \in Nat
    <3> SUFFICES ASSUME NEW w \in 0 .. n - 1
                 PROVE  /\ w \in Nat /\ w + 1 \in Nat /\ B(w) <= B(w + 1) /\ B(w + 1) <= job.oc
                        /\ B(w) \in Nat /\ B(w + 1) \in Nat
      OBVIOUS
    <3>1. w \in Nat /\ w + 1 \in Nat /\ w <= w + 1 /\ w + 1 <= n /\ n \in Nat
      BY <1>1
    <3> QED
      BY <2>2, <3>1
  <2>4. ASSUME NEW s \in S
        PROVE  /\ s = [begin |-> s.begin, count |-> s.count]
               /\ s.begin \in Nat /\ s.count \in Nat
               /\ s.begin + s.count <= job.oc
               /\ s.begin % t = 0
               /\ packed = "3x3" => s.count % 8 = 0
    <3>1. PICK w \in 0 .. n - 1 : s = [begin |-> B(w), count |-> B(w + 1) - B(w)]
      BY <2>1
    <3>2. s.begin = B(w) /\ s.count = B(w + 1) - B(w)
      BY <3>1
    <3>3. B(w) \in Nat /\ B(w + 1) \in Nat /\ B(w) <= B(w + 1) /\ B(w + 1) <= job.oc
      BY <2>3
    <3>4. B(w) % t = 0 /\ B(w + 1) % t = 0
      BY <2>2, <2>3
    <3>5. (B(w + 1) - B(w)) % t = 0
      BY <1>1, <3>3, <3>4, Multiples
    <3> QED
      BY <1>1, <3>1, <3>2, <3>3, <3>4, <3>5
  <2>5. ASSUME NEW c \in 0 .. job.oc - 1
        PROVE  \E s \in S : Within(c, s)
    <3> DEFINE T == {w \in 0 .. n : B(w) <= c}
    <3>1. c \in Nat /\ c < job.oc
      BY <1>1
    <3>2. T \subseteq 0 .. n /\ T # {}
      <4>1. 0 \in 0 .. n /\ B(0) <= c
        BY <1>1, <2>2, <3>1
      <4> QED
        BY <4>1
    <3>3. PICK w \in T : \A v \in T : v <= w
      <4> HIDE DEF T
      <4> QED
        BY <1>1, <3>2, GreatestOf
    <3>4. w \in 0 .. n /\ B(w) <= c
      OBVIOUS
    <3>5. w # n
      BY <1>1, <2>2, <3>1, <3>4
    <3>6. w \in 0 .. n - 1 /\ w + 1 \in 0 .. n /\ ~(w + 1 <= w)
      BY <1>1, <3>4, <3>5
    <3>7. ~(B(w + 1) <= c)
      BY <3>3, <3>6
    <3>8. [begin |-> B(w), count |-> B(w + 1) - B(w)] \in S
      BY <2>1, <3>6
    <3>9. B(w) \in Nat /\ B(w + 1) \in Nat
      BY <2>3, <3>6
    <3>10. c < B(w) + (B(w + 1) - B(w))
      BY <3>1, <3>7, <3>9
    <3> QED
      BY <3>4, <3>8, <3>10 DEF Within
  <2>6. ASSUME NEW s \in S, NEW r \in S, s # r
        PROVE  s.begin + s.count <= r.begin \/ r.begin + r.count <= s.begin
    <3>1. PICK v \in 0 .. n - 1 : s = [begin |-> B(v), count |-> B(v + 1) - B(v)]
      BY <2>1
    <3>2. PICK w \in 0 .. n - 1 : r = [begin |-> B(w), count |-> B(w + 1) - B(w)]
      BY <2>1
    <3>3. s.begin = B(v) /\ s.count = B(v + 1) - B(v) /\ r.begin = B(w) /\ r.count = B(w + 1) - B(w)
      BY <3>1, <3>2
    <3>4. /\ B(v) \in Nat /\ B(v + 1) \in Nat /\ B(w) \in Nat /\ B(w + 1) \in Nat
      BY <2>3
    <3>5. v # w
      BY <2>6, <3>1, <3>2
    <3>6. v + 1 <= w \/ w + 1 <= v
      BY <1>1, <3>5
    <3>7. B(v + 1) <= B(w) \/ B(w + 1) <= B(v)
      BY <2>2, <2>3, <3>6
    <3> QED
      BY <3>3, <3>4, <3>7
  <2> QED
    BY <2>4, <2>5, <2>6 DEF S, t
<1> QED
  BY <1>2, <1>3

-----------------------------------------------------------------------------
(* Groups of channels.                                                     *)

(* The kernel's groups of channels come out even in j's channels.          *)
Even(kernel, j) == kernel.group \in {1, 4, 8} /\ j.oc % kernel.group = 0

AllLevels == {"avx2", "sse2", "neon", "lsx", "scalar"}

LEMMA PickIs ==
  ASSUME NEW l \in AllLevels, NEW j, NEW a, NEW b, NEW c, NEW d,
         Even(a, j), Even(b, j), Even(c, j), Even(d, j)
  PROVE  Even(Pick(l, a, b, c, d), j)
<1>1. Pick(l, a, b, c, d) \in {a, b, c, d}
  BY DEF Pick, AllLevels
<1> QED
  BY <1>1

LEMMA EvenKernels ==
  ASSUME NEW j, j.oc \in Nat, j.ic \in Nat
  PROVE  /\ Even(Avx2Conv1x1(j), j) /\ Even(Sse2Conv1x1(j), j) /\ Even(ScalarConv1x1(j), j)
         /\ Even(Avx2Depthwise3x3(j), j) /\ Even(Sse2Depthwise3x3(j), j)
         /\ Even(ScalarDepthwise3x3(j), j)
         /\ Even(Avx2Depthwise3x3Stride2x1(j), j) /\ Even(Sse2Depthwise3x3Stride2x1(j), j)
         /\ Even(ScalarDepthwise3x3Stride2x1(j), j)
         /\ Even(Avx2Depthwise5x5(j), j) /\ Even(Sse2Depthwise5x5(j), j)
         /\ Even(ScalarDepthwise5x5(j), j) /\ Even(Avx2Depthwise9x9(j), j)
         /\ \A p : Even(Avx2ConvAxis(j, p, 1), j) /\ Even(Avx2ConvAxis(j, p, 0), j)
         /\ Even(Avx2Conv3x3(j), j) /\ Even(Sse2Conv3x3(j), j) /\ Even(NeonConv3x3(j), j)
         /\ Even(ScalarConv3x3(j), j)
         /\ Even(IF j.oc % 4 = 0 THEN Avx2Conv7x7Four(j) ELSE Avx2Conv7x7One(j), j)
         /\ Even(IF j.oc % 4 = 0 THEN Avx2Conv5x5Four(j) ELSE Avx2Conv5x5One(j), j)
         /\ Even(Avx2Conv2x2(j), j) /\ Even(Sse2Conv2x2(j), j) /\ Even(ScalarConv2x2(j), j)
         /\ Even(Avx2Conv3x3Stride2(j), j) /\ Even(Sse2Conv3x3Stride2(j), j)
         /\ Even(ScalarConv3x3Stride2(j), j)
         /\ Even(General(j), j)
         /\ Even(Avx2ConvTranspose2x2(j), j) /\ Even(Sse2ConvTranspose2x2(j), j)
         /\ Even(NeonConvTranspose2x2(j), j) /\ Even(ScalarConvTranspose2x2(j), j)
         /\ Even(GeneralConvTranspose(j), j)
<1>1. j.oc % 1 = 0 /\ (j.oc % 8 \in {0, 4} <=> j.oc % 4 = 0)
  OBVIOUS
<1>2. \A i, g, lanes, span, rows, cols : Spread(i, g, lanes, span, rows, cols).group = g
  BY DEF Spread
<1>3. \A i, g, span, width, blk, pix, col : Gather(i, g, span, width, blk, pix, col).group = g
  BY DEF Gather
<1>4. \A i, lanes, from : Scatter(i, lanes, from).group = 1
  BY DEF Scatter
<1>5. \A kernel : kernel.group = 1 => Even(kernel, j)
  BY <1>1 DEF Even
<1>6. \A kernel : kernel.group = 4 /\ j.oc % 4 = 0 => Even(kernel, j)
  BY DEF Even
<1>7. /\ Even(Avx2Conv1x1(j), j) /\ Even(Sse2Conv1x1(j), j) /\ Even(ScalarConv1x1(j), j)
  BY <1>2, <1>5 DEF Avx2Conv1x1, Sse2Conv1x1, ScalarConv1x1, Conv1x1
<1>8. /\ Even(Avx2Depthwise3x3(j), j) /\ Even(Sse2Depthwise3x3(j), j)
      /\ Even(ScalarDepthwise3x3(j), j) /\ Even(Sse2Conv3x3(j), j) /\ Even(NeonConv3x3(j), j)
      /\ Even(ScalarConv3x3(j), j) /\ Even(Avx2Conv3x3One(j), j)
  BY <1>2, <1>5 DEF Avx2Depthwise3x3, Sse2Depthwise3x3, ScalarDepthwise3x3, Unit3x3,
                    Sse2Conv3x3, NeonConv3x3, ScalarConv3x3, Avx2Conv3x3One
<1>9. /\ Even(Avx2Depthwise3x3Stride2x1(j), j) /\ Even(Sse2Depthwise3x3Stride2x1(j), j)
      /\ Even(ScalarDepthwise3x3Stride2x1(j), j)
  BY <1>2, <1>5 DEF Avx2Depthwise3x3Stride2x1, Sse2Depthwise3x3Stride2x1,
                    ScalarDepthwise3x3Stride2x1, Stride2x1
<1>10. /\ Even(Avx2Depthwise5x5(j), j) /\ Even(Sse2Depthwise5x5(j), j)
       /\ Even(ScalarDepthwise5x5(j), j) /\ Even(Avx2Depthwise9x9(j), j)
  BY <1>2, <1>5 DEF Avx2Depthwise5x5, Sse2Depthwise5x5, ScalarDepthwise5x5,
                    Avx2Depthwise9x9, Wide
<1>11. \A p : Even(Avx2ConvAxis(j, p, 1), j) /\ Even(Avx2ConvAxis(j, p, 0), j)
  BY <1>2, <1>5 DEF Avx2ConvAxis
<1>12. Even(Avx2Conv3x3(j), j)
  BY <1>3, <1>6, <1>8 DEF Avx2Conv3x3, Avx2Conv3x3Four, UnitTile
<1>13. Even(IF j.oc % 4 = 0 THEN Avx2Conv7x7Four(j) ELSE Avx2Conv7x7One(j), j)
  BY <1>2, <1>3, <1>5, <1>6 DEF Avx2Conv7x7Four, Avx2Conv7x7One, WideTile
<1>14. Even(IF j.oc % 4 = 0 THEN Avx2Conv5x5Four(j) ELSE Avx2Conv5x5One(j), j)
  BY <1>2, <1>3, <1>5, <1>6 DEF Avx2Conv5x5Four, Avx2Conv5x5One, WideTile
<1>15. Even(Avx2Conv2x2(j), j) /\ Even(Sse2Conv2x2(j), j) /\ Even(ScalarConv2x2(j), j)
  BY <1>2, <1>5, <1>6 DEF Avx2Conv2x2, Avx2Conv2x2Four, Sse2Conv2x2, Sse2Conv2x2Four,
                          ScalarConv2x2, PadEnd2x2
<1>16. Even(Avx2Conv3x3Stride2(j), j)
  <2>1. CASE j.oc % 8 = 0
    <3>1. Avx2Conv3x3Stride2(j) = Avx2Conv3x3Stride2Eight(j)
      BY <2>1, <1>1 DEF Avx2Conv3x3Stride2
    <3> QED
      BY <1>3, <2>1, <3>1 DEF Avx2Conv3x3Stride2Eight, Stride2Tile, Even
  <2>2. CASE j.oc % 8 # 0
    <3>1. Avx2Conv3x3Stride2(j) = IF j.oc % 8 = 4 THEN Avx2Conv3x3Stride2Four(j)
                                  ELSE IF j.ic > 4 THEN Avx2Conv3x3Stride2Stream(j)
                                  ELSE Avx2Conv3x3Stride2One(j)
      <4>1. j.ic > 4 <=> ~(j.ic <= 4)
        OBVIOUS
      <4> QED
        BY <2>2, <1>1, <4>1, Zenon DEF Avx2Conv3x3Stride2
    <3> QED
      BY <1>1, <1>2, <1>3, <1>5, <1>6, <3>1
         DEF Avx2Conv3x3Stride2Four, Avx2Conv3x3Stride2Stream, Stream,
             Avx2Conv3x3Stride2One, Stride2Tile
  <2> QED
    BY <2>1, <2>2
<1>17. Even(Sse2Conv3x3Stride2(j), j) /\ Even(ScalarConv3x3Stride2(j), j)
  BY <1>2, <1>5 DEF Sse2Conv3x3Stride2, Stream, ScalarConv3x3Stride2
<1>18. Even(General(j), j)
  BY <1>3, <1>5 DEF General
<1>19. /\ Even(Avx2ConvTranspose2x2(j), j) /\ Even(Sse2ConvTranspose2x2(j), j)
       /\ Even(NeonConvTranspose2x2(j), j) /\ Even(ScalarConvTranspose2x2(j), j)
       /\ Even(GeneralConvTranspose(j), j)
  BY <1>4, <1>5 DEF Avx2ConvTranspose2x2, Sse2ConvTranspose2x2, NeonConvTranspose2x2,
                    ScalarConvTranspose2x2, GeneralConvTranspose
<1> QED
  BY <1>7, <1>8, <1>9, <1>10, <1>11, <1>12, <1>13, <1>14, <1>15, <1>16, <1>17, <1>18, <1>19

LEMMA EvenConvolutions ==
  ASSUME NEW j, j.oc \in Nat, j.ic \in Nat, NEW l \in AllLevels
  PROVE  Even(Conv2d(j, l), j) /\ Even(ConvTranspose2d(j, l), j)
<1>1. Even(DepthwiseConv2d(j, l), j)
  <2>1. DepthwiseConv2d(j, l) \in
          {Pick(l, Avx2Depthwise3x3(j), Sse2Depthwise3x3(j), ScalarDepthwise3x3(j),
                ScalarDepthwise3x3(j)),
           Pick(l, Avx2Depthwise3x3Stride2x1(j), Sse2Depthwise3x3Stride2x1(j),
                ScalarDepthwise3x3Stride2x1(j), ScalarDepthwise3x3Stride2x1(j)),
           Pick(l, Avx2Depthwise5x5(j), Sse2Depthwise5x5(j), ScalarDepthwise5x5(j),
                ScalarDepthwise5x5(j)),
           Avx2Depthwise9x9(j), General(j)}
    BY Zenon DEF DepthwiseConv2d
  <2>2. /\ Even(Pick(l, Avx2Depthwise3x3(j), Sse2Depthwise3x3(j), ScalarDepthwise3x3(j),
                     ScalarDepthwise3x3(j)), j)
        /\ Even(Pick(l, Avx2Depthwise3x3Stride2x1(j), Sse2Depthwise3x3Stride2x1(j),
                     ScalarDepthwise3x3Stride2x1(j), ScalarDepthwise3x3Stride2x1(j)), j)
        /\ Even(Pick(l, Avx2Depthwise5x5(j), Sse2Depthwise5x5(j), ScalarDepthwise5x5(j),
                     ScalarDepthwise5x5(j)), j)
        /\ Even(Avx2Depthwise9x9(j), j) /\ Even(General(j), j)
    BY EvenKernels, PickIs
  <2> QED
    BY <2>1, <2>2
<1>2. Even(DenseConv2d(j, l), j)
  <2>1. DenseConv2d(j, l) \in
          {Avx2ConvAxis(j, 3, 1), Avx2ConvAxis(j, 3, 0),
           Avx2ConvAxis(j, 2, 1), Avx2ConvAxis(j, 2, 0),
           Pick(l, Avx2Conv3x3(j), Sse2Conv3x3(j), NeonConv3x3(j), ScalarConv3x3(j)),
           IF j.oc % 4 = 0 THEN Avx2Conv7x7Four(j) ELSE Avx2Conv7x7One(j),
           IF j.oc % 4 = 0 THEN Avx2Conv5x5Four(j) ELSE Avx2Conv5x5One(j),
           Pick(l, Avx2Conv2x2(j), Sse2Conv2x2(j), ScalarConv2x2(j), ScalarConv2x2(j)),
           Pick(l, Avx2Conv3x3Stride2(j), Sse2Conv3x3Stride2(j),
                ScalarConv3x3Stride2(j), ScalarConv3x3Stride2(j)),
           General(j)}
    BY Zenon DEF DenseConv2d
  <2>2. /\ Even(Pick(l, Avx2Conv3x3(j), Sse2Conv3x3(j), NeonConv3x3(j), ScalarConv3x3(j)), j)
        /\ Even(Pick(l, Avx2Conv2x2(j), Sse2Conv2x2(j), ScalarConv2x2(j), ScalarConv2x2(j)), j)
        /\ Even(Pick(l, Avx2Conv3x3Stride2(j), Sse2Conv3x3Stride2(j),
                     ScalarConv3x3Stride2(j), ScalarConv3x3Stride2(j)), j)
    BY EvenKernels, PickIs
  <2>3. /\ Even(Avx2ConvAxis(j, 3, 1), j) /\ Even(Avx2ConvAxis(j, 3, 0), j)
        /\ Even(Avx2ConvAxis(j, 2, 1), j) /\ Even(Avx2ConvAxis(j, 2, 0), j)
        /\ Even(IF j.oc % 4 = 0 THEN Avx2Conv7x7Four(j) ELSE Avx2Conv7x7One(j), j)
        /\ Even(IF j.oc % 4 = 0 THEN Avx2Conv5x5Four(j) ELSE Avx2Conv5x5One(j), j)
        /\ Even(General(j), j)
    BY EvenKernels
  <2> QED
    BY <2>1, <2>2, <2>3, Zenon
<1>3. Even(Conv2d(j, l), j)
  <2>1. Conv2d(j, l) \in
          {Pick(l, Avx2Conv1x1(j), Sse2Conv1x1(j), ScalarConv1x1(j), ScalarConv1x1(j)),
           DepthwiseConv2d(j, l), DenseConv2d(j, l), General(j)}
    BY Zenon DEF Conv2d
  <2>2. /\ Even(Pick(l, Avx2Conv1x1(j), Sse2Conv1x1(j), ScalarConv1x1(j), ScalarConv1x1(j)), j)
        /\ Even(General(j), j)
    BY EvenKernels, PickIs
  <2> QED
    BY <1>1, <1>2, <2>1, <2>2
<1>4. Even(ConvTranspose2d(j, l), j)
  <2>1. ConvTranspose2d(j, l) \in
          {Pick(l, Avx2ConvTranspose2x2(j), Sse2ConvTranspose2x2(j),
                NeonConvTranspose2x2(j), ScalarConvTranspose2x2(j)),
           GeneralConvTranspose(j)}
    BY Zenon DEF ConvTranspose2d
  <2>2. /\ Even(Pick(l, Avx2ConvTranspose2x2(j), Sse2ConvTranspose2x2(j),
                     NeonConvTranspose2x2(j), ScalarConvTranspose2x2(j)), j)
        /\ Even(GeneralConvTranspose(j), j)
    BY EvenKernels, PickIs
  <2> QED
    BY <2>1, <2>2
<1> QED
  BY <1>3, <1>4

(* A slice of the channels that a worker may execute.                      *)
SliceRight ==
  /\ slice.begin \in Nat /\ slice.count \in Nat /\ slice.begin + slice.count <= job.oc
  /\ slice.begin % Tile(packed) = 0
  /\ slice.fma \in {0, 4, 8}
  /\ slice.fma # 0 => level = "avx2" /\ packed # "none"
  /\ slice.fma = 8 => packed = "1x1" /\ slice.count % 8 = 0
  /\ packed = "3x3" => slice.count % 8 = 0

LEMMA HereFacts ==
  ASSUME StaticInv, SliceRight
  PROVE  /\ Here.oc = slice.count /\ Here.ic \in Nat /\ level \in AllLevels
         /\ Here.op = job.op /\ Here.k = job.k /\ Here.s = job.s /\ Here.d = job.d
         /\ Here.p = job.p /\ Here.q = job.q /\ Here.h = job.h /\ Here.w = job.w
         /\ Here.oh = job.oh /\ Here.ow = job.ow
<1>1. /\ job.ic \in Nat /\ slice.count \in Nat /\ level \in AllLevels
  BY JobsAssumption, RunAssumption DEF StaticInv, SliceRight, AllLevels
<1> QED
  BY <1>1 DEF Here, SliceJob

(* A kernel's groups come out even, or it computes what is left of a block.*)
LEMMA KernelGroup ==
  ASSUME StaticInv, SliceRight
  PROVE  \/ \E g \in {1, 4, 8} : slice.count % g = 0 /\ \A v : KernelFor(v).group = g
         \/ \A v : KernelFor(v).group = v
<1>1. Here.oc = slice.count /\ Here.oc \in Nat /\ Here.ic \in Nat /\ level \in AllLevels
  BY HereFacts DEF SliceRight
<1>2. packed \in {"none", "1x1", "3x3"} /\ (packed = "3x3" => level = "avx2")
  BY JobFacts
<1>3. CASE job.op # "conv"
  <2>1. \A v : KernelFor(v) = ConvTranspose2d(Here, level)
    BY <1>3, Zenon DEF KernelFor
  <2> QED
    BY <1>1, <2>1, EvenConvolutions DEF Even
<1>4. CASE job.op = "conv" /\ packed = "none"
  <2>1. \A v : KernelFor(v) = Conv2d(Here, level)
    BY <1>4, Zenon DEF KernelFor
  <2> QED
    BY <1>1, <2>1, EvenConvolutions DEF Even
<1>5. CASE job.op = "conv" /\ packed = "1x1"
  <2>1. \A v : KernelFor(v) = PackedConv1x1(Here, level, slice.fma, v)
    BY <1>5, Zenon DEF KernelFor
  <2>2. \A v, wide, lanes : Packed1x1(Here, v, wide, lanes).group = v
    BY DEF Packed1x1, Gather
  <2>3. CASE slice.fma = 8
    <3>1. \A v : KernelFor(v) = Avx2FmaPackedConv1x1Two(Here, v)
      BY <2>1, <2>3 DEF PackedConv1x1
    <3>2. CASE Here.oc < 8 \/ Here.oc % 8 # 0 \/ Here.h * Here.w < Avx
      <4>1. \A v : KernelFor(v) = Packed1x1(Here, v, TRUE, Avx)
        BY <3>1, <3>2, Zenon DEF Avx2FmaPackedConv1x1Two, Avx2FmaPackedConv1x1
      <4> QED
        BY <2>2, <4>1
    <3>3. CASE ~(Here.oc < 8 \/ Here.oc % 8 # 0 \/ Here.h * Here.w < Avx)
      <4>1. \A v : KernelFor(v) = Packed1x1(Here, 8, FALSE, Avx)
        BY <3>1, <3>3, Zenon DEF Avx2FmaPackedConv1x1Two
      <4>2. slice.count % 8 = 0 /\ \A v : KernelFor(v).group = 8
        BY <1>1, <2>2, <3>3, <4>1
      <4> QED
        BY <4>2
    <3> QED
      BY <3>2, <3>3
  <2>4. CASE slice.fma # 8
    <3> SUFFICES ASSUME NEW v PROVE KernelFor(v).group = v
      OBVIOUS
    <3>1. slice.fma \in {0, 4}
      BY <2>4 DEF SliceRight
    <3>2. PackedConv1x1(Here, level, slice.fma, v) \in
            {Avx2FmaPackedConv1x1(Here, v), LsxPackedConv1x1(Here, v), Avx2PackedConv1x1(Here, v),
             Sse2PackedConv1x1(Here, v), NeonPackedConv1x1(Here, v), ScalarPackedConv1x1(Here, v)}
      BY <1>1, <3>1 DEF PackedConv1x1, Pick, AllLevels
    <3>3. /\ Avx2FmaPackedConv1x1(Here, v).group = v /\ LsxPackedConv1x1(Here, v).group = v
          /\ Avx2PackedConv1x1(Here, v).group = v /\ Sse2PackedConv1x1(Here, v).group = v
          /\ NeonPackedConv1x1(Here, v).group = v /\ ScalarPackedConv1x1(Here, v).group = v
      BY <2>2 DEF Avx2FmaPackedConv1x1, LsxPackedConv1x1, Avx2PackedConv1x1,
                  Sse2PackedConv1x1, NeonPackedConv1x1, ScalarPackedConv1x1
    <3> QED
      BY <2>1, <3>2, <3>3
  <2> QED
    BY <2>3, <2>4
<1>6. CASE job.op = "conv" /\ packed = "3x3"
  <2>1. \A v : KernelFor(v) = PackedConv3x3(Here, level, slice.fma, v)
    BY <1>6, Zenon DEF KernelFor
  <2>2. Here.oc % 8 = 0 /\ level = "avx2"
    BY <1>1, <1>2, <1>6 DEF SliceRight
  <2>3. \A v : PackedConv3x3(Here, level, slice.fma, v) \in
                 {Avx2FmaPackedConv3x3(Here), Avx2PackedConv3x3(Here)}
    BY <2>2 DEF PackedConv3x3
  <2>4. Avx2FmaPackedConv3x3(Here).group = 8 /\ Avx2PackedConv3x3(Here).group = 8
    BY DEF Avx2FmaPackedConv3x3, Avx2PackedConv3x3, Stride2Tile, Gather
  <2> QED
    BY <1>1, <2>1, <2>2, <2>3, <2>4
<1> QED
  BY <1>2, <1>3, <1>4, <1>5, <1>6

-----------------------------------------------------------------------------
(* The input a kernel reads.                                               *)

Shape(j) ==
  /\ j.op \in {"conv", "convtranspose"}
  /\ {j.h, j.w, j.oh, j.ow} \subseteq Nat \ {0}
  /\ {j.k, j.s, j.d} \subseteq (Nat \ {0}) \X (Nat \ {0})
  /\ {j.p, j.q} \subseteq Nat \X Nat
  /\ <<j.oh, j.ow>> = OutputSize(j)

(* Input place of tap k for output o on an axis of j.                      *)
Reach(j, a, o, k) == o * j.s[a] - j.p[a] + k * j.d[a]

(* The outputs of a range take tap k from inside the n inputs.             *)
Inside(j, a, n, k, range) ==
  /\ range[1] \in Int /\ range[2] \in Int
  /\ \A o \in Int : range[1] <= o /\ o < range[2] => Reach(j, a, o, k) \in 0 .. n - 1

AxisIs(j, a, s, p) == j.s[a] = s /\ j.p[a] = p /\ j.d[a] = 1

LEMMA InsideIs ==
  ASSUME NEW j, NEW a, NEW n, NEW k, NEW range, NEW b \in Int, NEW e \in Int, range = <<b, e>>,
         \A o \in Int : b <= o /\ o < e => Reach(j, a, o, k) \in 0 .. n - 1
  PROVE  Inside(j, a, n, k, range)
<1>1. range[1] = b /\ range[2] = e
  OBVIOUS
<1> QED
  BY <1>1 DEF Inside

LEMMA UnitRanges ==
  ASSUME NEW j, NEW a \in {1, 2}, NEW n \in Nat \ {0}, NEW p \in Nat, AxisIs(j, a, 1, p)
  PROVE  /\ p = 0 => Inside(j, a, n, 0, Whole(n)[0])
         /\ p = 1 => \A k \in 0 .. 2 : Inside(j, a, n, k, Edge(n)[k])
         /\ p = 0 => \A k \in 0 .. 1 : Inside(j, a, n, k, PadEnd(n)[k])
         /\ \A k \in 0 .. 2 * p : Inside(j, a, n, k, Clamped(n, p)[k])
         /\ \A k \in 0 .. 2 * p : Inside(j, a, n, k, Centred(n, p)[k])
<1>1. \A o, k \in Int : Reach(j, a, o, k) = o - p + k
  BY DEF Reach, AxisIs
<1>2. p = 0 => Inside(j, a, n, 0, Whole(n)[0])
  <2>1. Whole(n)[0] = <<0, n>>
    BY DEF Whole
  <2>2. p = 0 => \A o \in Int : 0 <= o /\ o < n => Reach(j, a, o, 0) \in 0 .. n - 1
    <3>1. ASSUME p = 0, NEW o \in Int, 0 <= o, o < n PROVE o - p + 0 \in 0 .. n - 1
      BY <3>1
    <3>2. 0 \in Int
      OBVIOUS
    <3>3. \A o \in Int : Reach(j, a, o, 0) = o - p + 0
      BY <1>1, <3>2, Zenon
    <3> QED
      BY <3>1, <3>3
  <2> QED
    BY <2>1, <2>2, InsideIs
<1>3. ASSUME p = 1, NEW k \in 0 .. 2 PROVE Inside(j, a, n, k, Edge(n)[k])
  <2>1. PICK b, e : b = (IF k = 0 THEN 1 ELSE 0) /\ e = (IF k = 2 THEN n - 1 ELSE n)
    OBVIOUS
  <2>2. Edge(n)[k] = <<b, e>>
    BY <2>1 DEF Edge
  <2>3. b \in Int /\ e \in Int /\ k \in Int
    BY <2>1
  <2>4. \A o \in Int : b <= o /\ o < e => Reach(j, a, o, k) \in 0 .. n - 1
    <3>1. ASSUME NEW o \in Int, b <= o, o < e PROVE o - p + k \in 0 .. n - 1
      BY <1>3, <2>1, <2>3, <3>1
    <3> QED
      BY <1>1, <2>3, <3>1
  <2> QED
    BY <2>2, <2>3, <2>4, InsideIs
<1>4. ASSUME p = 0, NEW k \in 0 .. 1 PROVE Inside(j, a, n, k, PadEnd(n)[k])
  <2>1. PICK e : e = n - k
    OBVIOUS
  <2>2. PadEnd(n)[k] = <<0, e>>
    BY <2>1 DEF PadEnd
  <2>3. e \in Int /\ k \in Int /\ 0 \in Int
    BY <2>1
  <2>4. \A o \in Int : 0 <= o /\ o < e => Reach(j, a, o, k) \in 0 .. n - 1
    <3>1. ASSUME NEW o \in Int, 0 <= o, o < e PROVE o - p + k \in 0 .. n - 1
      BY <1>4, <2>1, <2>3, <3>1
    <3> QED
      BY <1>1, <2>3, <3>1
  <2> QED
    BY <2>2, <2>3, <2>4, InsideIs
<1>5. ASSUME NEW k \in 0 .. 2 * p PROVE Inside(j, a, n, k, Clamped(n, p)[k])
  <2>1. PICK b, e : /\ b = (IF k < p THEN p - k ELSE 0)
                    /\ e = (IF (IF k > p THEN k - p ELSE 0) < n
                            THEN n - (IF k > p THEN k - p ELSE 0) ELSE 0)
    OBVIOUS
  <2>2. Clamped(n, p)[k] = <<b, e>>
    BY <2>1 DEF Clamped
  <2>3. b \in Int /\ e \in Int /\ k \in Int
    BY <2>1
  <2>4. \A o \in Int : b <= o /\ o < e => Reach(j, a, o, k) \in 0 .. n - 1
    <3>1. ASSUME NEW o \in Int, b <= o, o < e PROVE o - p + k \in 0 .. n - 1
      BY <2>1, <2>3, <3>1
    <3> QED
      BY <1>1, <2>3, <3>1
  <2> QED
    BY <2>2, <2>3, <2>4, InsideIs
<1>6. ASSUME NEW k \in 0 .. 2 * p PROVE Inside(j, a, n, k, Centred(n, p)[k])
  <2>1. PICK b, e : /\ b = (IF k < p THEN p - k ELSE 0)
                    /\ e = (IF k > p THEN n - (k - p) ELSE n)
    OBVIOUS
  <2>2. Centred(n, p)[k] = <<b, e>>
    BY <2>1 DEF Centred
  <2>3. b \in Int /\ e \in Int /\ k \in Int
    BY <2>1
  <2>4. \A o \in Int : b <= o /\ o < e => Reach(j, a, o, k) \in 0 .. n - 1
    <3>1. ASSUME NEW o \in Int, b <= o, o < e PROVE o - p + k \in 0 .. n - 1
      BY <2>1, <2>3, <3>1
    <3> QED
      BY <1>1, <2>3, <3>1
  <2> QED
    BY <2>2, <2>3, <2>4, InsideIs
<1> QED
  BY <1>2, <1>3, <1>4, <1>5, <1>6

LEMMA Extremes ==
  ASSUME NEW b \in Nat, NEW S \in SUBSET (0 .. b), S # {}
  PROVE  /\ Least(S) \in S /\ \A y \in S : Least(S) <= y
         /\ Greatest(S) \in S /\ \A y \in S : Greatest(S) >= y
<1>1. \E x \in S : \A y \in S : x >= y
  <2>1. PICK x \in S : \A y \in S : y <= x
    BY GreatestOf
  <2>2. \A y \in S : y \in Nat
    OBVIOUS
  <2> QED
    BY <2>1, <2>2
<1>2. \E x \in S : \A y \in S : x <= y
  <2> DEFINE T == {b - y : y \in S}
  <2>1. T \subseteq 0 .. b /\ T # {}
    <3>1. \A y \in S : b - y \in 0 .. b
      OBVIOUS
    <3> QED
      BY <3>1
  <2>2. PICK t \in T : \A u \in T : u <= t
    <3> HIDE DEF T
    <3> QED
      BY <2>1, GreatestOf
  <2>3. PICK x \in S : t = b - x
    OBVIOUS
  <2>4. ASSUME NEW y \in S PROVE x <= y
    <3>1. b - y \in T
      OBVIOUS
    <3>2. b - y <= b - x /\ y \in Nat /\ x \in Nat
      BY <2>2, <2>3, <3>1
    <3> QED
      BY <3>2
  <2> QED
    BY <2>4
<1> QED
  BY <1>1, <1>2 DEF Least, Greatest

LEMMA Stride2Ranges ==
  ASSUME NEW j, NEW a \in {1, 2}, NEW n \in Nat \ {0}, NEW o \in Nat \ {0},
         AxisIs(j, a, 2, 1), 2 * o = n \/ 2 * o = n + 1
  PROVE  \A k \in 0 .. 2 : /\ Inside(j, a, n, k, EdgeStride2(n, o)[k])
                           /\ Inside(j, a, n, k, HalfRows(n, o)[k])
                           /\ Inside(j, a, n, k, TrimmedStride2(n, o)[k])
<1>1. \A y, k \in Int : Reach(j, a, y, k) = y * 2 - 1 + k
  BY DEF Reach, AxisIs
<1> SUFFICES ASSUME NEW k \in 0 .. 2
             PROVE  /\ Inside(j, a, n, k, EdgeStride2(n, o)[k])
                    /\ Inside(j, a, n, k, HalfRows(n, o)[k])
                    /\ Inside(j, a, n, k, TrimmedStride2(n, o)[k])
  OBVIOUS
<1>2. k \in Int /\ (k = 0 \/ k = 1 \/ k = 2)
  OBVIOUS
<1>3. Inside(j, a, n, k, EdgeStride2(n, o)[k])
  <2>1. PICK b, e : /\ b = (IF k = 0 THEN 1 ELSE 0)
                    /\ e = (IF k = 2 /\ (o - 1) * 2 + 1 >= n THEN o - 1 ELSE o)
    OBVIOUS
  <2>2. EdgeStride2(n, o)[k] = <<b, e>>
    BY <2>1 DEF EdgeStride2
  <2>3. b \in Int /\ e \in Int
    BY <2>1
  <2>4. \A y \in Int : b <= y /\ y < e => Reach(j, a, y, k) \in 0 .. n - 1
    <3>1. ASSUME NEW y \in Int, b <= y, y < e PROVE y * 2 - 1 + k \in 0 .. n - 1
      BY <1>2, <2>1, <2>3, <3>1
    <3> QED
      BY <1>1, <1>2, <3>1
  <2> QED
    BY <2>2, <2>3, <2>4, InsideIs
<1>4. Inside(j, a, n, k, HalfRows(n, o)[k])
  <2>1. PICK b, e : /\ b = (IF k = 0 THEN 1 ELSE 0)
                    /\ e = (IF k = 2 THEN n \div 2 ELSE o)
    OBVIOUS
  <2>2. HalfRows(n, o)[k] = <<b, e>>
    BY <2>1 DEF HalfRows
  <2>3. b \in Int /\ e \in Int /\ 2 * (n \div 2) <= n /\ n \div 2 \in Int
    BY <2>1
  <2>4. \A y \in Int : b <= y /\ y < e => Reach(j, a, y, k) \in 0 .. n - 1
    <3>1. ASSUME NEW y \in Int, b <= y, y < e PROVE y * 2 - 1 + k \in 0 .. n - 1
      BY <1>2, <2>1, <2>3, <3>1
    <3> QED
      BY <1>1, <1>2, <3>1
  <2> QED
    BY <2>2, <2>3, <2>4, InsideIs
<1>5. Inside(j, a, n, k, TrimmedStride2(n, o)[k])
  <2> DEFINE S == {b \in 0 .. o : b = o \/ b * 2 - 1 + k >= 0}
             begin == Least(S)
             T == {e \in begin .. o : e = begin \/ (e - 1) * 2 - 1 + k < n}
             end == Greatest(T)
  <2>1. TrimmedStride2(n, o)[k] = <<begin, end>>
    BY DEF TrimmedStride2
  <2>2. begin \in S
    <3>1. S \in SUBSET (0 .. o) /\ o \in S
      OBVIOUS
    <3> HIDE DEF S
    <3> QED
      BY <3>1, Extremes
  <2>3. begin \in 0 .. o /\ (begin = o \/ begin * 2 - 1 + k >= 0)
    BY <2>2
  <2> HIDE DEF begin
  <2>4. end \in T
    <3>1. T \in SUBSET (0 .. o) /\ begin \in T
      BY <2>3
    <3> HIDE DEF T
    <3> QED
      BY <3>1, Extremes
  <2>5. end \in begin .. o /\ (end = begin \/ (end - 1) * 2 - 1 + k < n)
    BY <2>4
  <2> HIDE DEF T, end
  <2>6. begin \in Int /\ end \in Int /\ o \in Int /\ end <= o /\ n \in Int
    BY <2>3, <2>5
  <2>7. ASSUME NEW y \in Int, begin <= y, y < end PROVE y * 2 - 1 + k \in 0 .. n - 1
    BY <1>2, <2>3, <2>5, <2>6, <2>7
  <2>8. \A y \in Int : begin <= y /\ y < end => Reach(j, a, y, k) \in 0 .. n - 1
    BY <1>1, <1>2, <2>7
  <2> QED
    BY <2>1, <2>6, <2>8, InsideIs
<1> QED
  BY <1>3, <1>4, <1>5

LEMMA AxisRanges ==
  ASSUME NEW j, NEW a, a = 1 \/ a = 2, NEW n, n \in Nat \ {0}
  PROVE  /\ AxisIs(j, a, 1, 0) => Inside(j, a, n, 0, Whole(n)[0])
         /\ AxisIs(j, a, 1, 1) => \A k \in 0 .. 2 : Inside(j, a, n, k, Edge(n)[k])
         /\ AxisIs(j, a, 1, 0) => \A k \in 0 .. 1 : Inside(j, a, n, k, PadEnd(n)[k])
         /\ \A p \in Nat : AxisIs(j, a, 1, p) =>
               /\ \A k \in 0 .. 2 * p : Inside(j, a, n, k, Clamped(n, p)[k])
               /\ \A k \in 0 .. 2 * p : Inside(j, a, n, k, Centred(n, p)[k])
<1>1. a \in {1, 2} /\ 0 \in Nat /\ 1 \in Nat
  OBVIOUS
<1>2. ASSUME NEW p \in Nat, AxisIs(j, a, 1, p)
      PROVE  /\ p = 0 => Inside(j, a, n, 0, Whole(n)[0])
             /\ p = 1 => \A k \in 0 .. 2 : Inside(j, a, n, k, Edge(n)[k])
             /\ p = 0 => \A k \in 0 .. 1 : Inside(j, a, n, k, PadEnd(n)[k])
             /\ \A k \in 0 .. 2 * p : Inside(j, a, n, k, Clamped(n, p)[k])
             /\ \A k \in 0 .. 2 * p : Inside(j, a, n, k, Centred(n, p)[k])
  BY <1>1, <1>2, UnitRanges
<1> QED
  BY <1>1, <1>2, Zenon

(* The size of the output along an axis.                                   *)
LEMMA AxisSize ==
  ASSUME NEW n, NEW o, NEW k, NEW s, NEW p, NEW q,
         n \in Nat \ {0}, o \in Nat \ {0}, k \in Nat \ {0}, p \in Nat, q \in Nat,
         o = SpatialOutput(n, k, s, 1, p, q)
  PROVE  /\ s = 1 /\ p + q = k - 1 => o = n
         /\ s = 2 /\ p = 1 /\ q = 1 /\ k = 3 => 2 * o = n \/ 2 * o = n + 1
<1>1. ~(n + p + q < (k - 1) * 1 + 1)
  BY DEF SpatialOutput
<1>2. o = (n + p + q - (k - 1) * 1 - 1) \div s + 1
  BY <1>1 DEF SpatialOutput
<1> QED
  BY <1>1, <1>2

LEMMA ConvSize ==
  ASSUME NEW j, Shape(j), j.op = "conv", j.d = <<1, 1>>
  PROVE  /\ j.s[1] = 1 /\ j.p[1] + j.q[1] = j.k[1] - 1 => j.oh = j.h
         /\ j.s[2] = 1 /\ j.p[2] + j.q[2] = j.k[2] - 1 => j.ow = j.w
         /\ j.s[1] = 2 /\ j.p[1] = 1 /\ j.q[1] = 1 /\ j.k[1] = 3 => 2 * j.oh = j.h \/ 2 * j.oh = j.h + 1
         /\ j.s[2] = 2 /\ j.p[2] = 1 /\ j.q[2] = 1 /\ j.k[2] = 3 => 2 * j.ow = j.w \/ 2 * j.ow = j.w + 1
<1>1. /\ j.h \in Nat \ {0} /\ j.w \in Nat \ {0} /\ j.oh \in Nat \ {0} /\ j.ow \in Nat \ {0}
      /\ j.k[1] \in Nat \ {0} /\ j.k[2] \in Nat \ {0}
      /\ j.p[1] \in Nat /\ j.p[2] \in Nat /\ j.q[1] \in Nat /\ j.q[2] \in Nat
  BY DEF Shape
<1>2. j.d[1] = 1 /\ j.d[2] = 1
  OBVIOUS
<1>3. <<j.oh, j.ow>> = <<SpatialOutput(j.h, j.k[1], j.s[1], 1, j.p[1], j.q[1]),
                         SpatialOutput(j.w, j.k[2], j.s[2], 1, j.p[2], j.q[2])>>
  BY <1>2 DEF Shape, OutputSize
<1>4. /\ j.oh = SpatialOutput(j.h, j.k[1], j.s[1], 1, j.p[1], j.q[1])
      /\ j.ow = SpatialOutput(j.w, j.k[2], j.s[2], 1, j.p[2], j.q[2])
  BY <1>3
<1>5. /\ j.s[1] = 1 /\ j.p[1] + j.q[1] = j.k[1] - 1 => j.oh = j.h
      /\ j.s[1] = 2 /\ j.p[1] = 1 /\ j.q[1] = 1 /\ j.k[1] = 3 => 2 * j.oh = j.h \/ 2 * j.oh = j.h + 1
  BY <1>1, <1>4, AxisSize
<1>6. /\ j.s[2] = 1 /\ j.p[2] + j.q[2] = j.k[2] - 1 => j.ow = j.w
      /\ j.s[2] = 2 /\ j.p[2] = 1 /\ j.q[2] = 1 /\ j.k[2] = 3 => 2 * j.ow = j.w \/ 2 * j.ow = j.w + 1
  BY <1>1, <1>4, AxisSize
<1> QED
  BY <1>5, <1>6

(* Each tap of a kernel that adds one tap at a time is inside for all the  *)
(* outputs of its ranges, and the inputs of a vector are next to each      *)
(* other unless the kernel tests for the end of the row.                   *)
SpreadSafe(j, kernel) ==
  /\ kernel.kind = "spread" /\ kernel.lanes \in Nat \ {0} /\ kernel.span \in {1, 2}
  /\ kernel.h \in Nat \ {0} /\ kernel.w \in Nat \ {0}
  /\ \A k \in 0 .. j.k[1] - 1 : Inside(j, 1, kernel.h, k, kernel.rows[k])
  /\ \A k \in 0 .. j.k[2] - 1 : Inside(j, 2, kernel.w, k, kernel.cols[k])
  /\ kernel.lanes # 1 /\ kernel.span = 1 => j.s[2] = 1 /\ j.d[2] = 1

LEMMA SpreadIs ==
  ASSUME NEW j, NEW i, NEW g, NEW lanes \in {1, Avx, Sse}, NEW span \in {1, 2}, NEW rows, NEW cols,
         i.h \in Nat \ {0}, i.w \in Nat \ {0},
         \A k \in 0 .. j.k[1] - 1 : Inside(j, 1, i.h, k, rows[k]),
         \A k \in 0 .. j.k[2] - 1 : Inside(j, 2, i.w, k, cols[k]),
         lanes = 1 \/ span = 2 \/ (j.s[2] = 1 /\ j.d[2] = 1)
  PROVE  SpreadSafe(j, Spread(i, g, lanes, span, rows, cols))
<1>1. lanes \in Nat \ {0}
  BY LanesAssumption
<1> QED
  BY <1>1 DEF SpreadSafe, Spread

LEMMA ShapedIs ==
  ASSUME NEW j, Shape(j), NEW k \in (Nat \ {0}) \X (Nat \ {0}), NEW s, NEW p, NEW q,
         Shaped(j, k, s, p, q)
  PROVE  /\ j.k[1] = k[1] /\ j.k[2] = k[2] /\ j.d[1] = 1 /\ j.d[2] = 1 /\ j.d = <<1, 1>>
         /\ j.s[1] = s[1] /\ j.s[2] = s[2] /\ j.p[1] = p[1] /\ j.p[2] = p[2]
         /\ j.q[1] = q[1] /\ j.q[2] = q[2]
BY DEF Shaped

LEMMA PointwiseSafe ==
  ASSUME NEW j, Shape(j), Shaped(j, <<1, 1>>, <<1, 1>>, <<0, 0>>, <<0, 0>>),
         NEW lanes \in {1, Avx, Sse}
  PROVE  SpreadSafe(j, Conv1x1(j, lanes))
<1>1. /\ j.k[1] = 1 /\ j.k[2] = 1 /\ AxisIs(j, 1, 1, 0) /\ AxisIs(j, 2, 1, 0)
  BY ShapedIs DEF AxisIs
<1>2. /\ j.h \in Nat \ {0} /\ j.w \in Nat \ {0} /\ j.h * j.w \in Nat \ {0}
  <2>1. j.h \in Nat \ {0} /\ j.w \in Nat \ {0}
    BY DEF Shape
  <2> QED
    BY <2>1
<1>3. \A k \in 0 .. j.k[1] - 1 : Inside(j, 1, 1, k, Whole(1)[k])
  BY <1>1, AxisRanges
<1>4. \A k \in 0 .. j.k[2] - 1 : Inside(j, 2, j.h * j.w, k, Whole(j.h * j.w)[k])
  BY <1>1, <1>2, AxisRanges
<1>5. PICK i : i = Flat(j)
  OBVIOUS
<1>6. i.h = 1 /\ i.w = j.h * j.w /\ i.h \in Nat \ {0} /\ i.w \in Nat \ {0}
  BY <1>2, <1>5 DEF Flat
<1>7. /\ \A k \in 0 .. j.k[1] - 1 : Inside(j, 1, i.h, k, Whole(1)[k])
      /\ \A k \in 0 .. j.k[2] - 1 : Inside(j, 2, i.w, k, Whole(j.h * j.w)[k])
  BY <1>3, <1>4, <1>6
<1>8. SpreadSafe(j, Spread(i, 1, lanes, 1, Whole(1), Whole(j.h * j.w)))
  BY <1>1, <1>6, <1>7, SpreadIs DEF AxisIs
<1> QED
  BY <1>5, <1>8 DEF Conv1x1

LEMMA CentreIs ==
  ASSUME NEW j, Shape(j), NEW p \in Nat, NEW r \in Nat,
         Centre(j, <<2 * p + 1, 2 * r + 1>>)
  PROVE  /\ j.k[1] = 2 * p + 1 /\ j.k[2] = 2 * r + 1 /\ j.d = <<1, 1>>
         /\ AxisIs(j, 1, 1, p) /\ AxisIs(j, 2, 1, r)
         /\ j.h \in Nat \ {0} /\ j.w \in Nat \ {0}
         /\ j.op = "conv" => j.oh = j.h /\ j.ow = j.w
<1>1. (2 * p + 1) \div 2 = p /\ (2 * r + 1) \div 2 = r
  OBVIOUS
<1>2. <<2 * p + 1, 2 * r + 1>>[1] = 2 * p + 1 /\ <<2 * p + 1, 2 * r + 1>>[2] = 2 * r + 1
  OBVIOUS
<1>3. Shaped(j, <<2 * p + 1, 2 * r + 1>>, <<1, 1>>, <<p, r>>, <<p, r>>)
  BY <1>1, <1>2, Zenon DEF Centre
<1>4. <<2 * p + 1, 2 * r + 1>> \in (Nat \ {0}) \X (Nat \ {0})
  OBVIOUS
<1>5. /\ j.k[1] = 2 * p + 1 /\ j.k[2] = 2 * r + 1 /\ j.d = <<1, 1>>
      /\ AxisIs(j, 1, 1, p) /\ AxisIs(j, 2, 1, r) /\ j.q[1] = p /\ j.q[2] = r
  BY <1>3, <1>4, ShapedIs DEF AxisIs
<1>6. j.h \in Nat \ {0} /\ j.w \in Nat \ {0}
  BY DEF Shape
<1>7. j.op = "conv" => j.oh = j.h /\ j.ow = j.w
  BY <1>5, ConvSize DEF AxisIs
<1> QED
  BY <1>5, <1>6, <1>7

LEMMA CentredSafe ==
  ASSUME NEW j, Shape(j), NEW lanes \in {1, Avx, Sse}
  PROVE  /\ Centre(j, <<3, 3>>) => SpreadSafe(j, Unit3x3(j, lanes))
         /\ \A p \in Nat : Centre(j, <<2 * p + 1, 2 * p + 1>>) =>
               /\ SpreadSafe(j, Wide(j, p, lanes))
               /\ SpreadSafe(j, Spread(j, 1, lanes, 1, Centred(j.h, p), Centred(j.w, p)))
         /\ \A p \in Nat : /\ Centre(j, <<2 * p + 1, 1>>) => SpreadSafe(j, Avx2ConvAxis(j, p, 1))
                           /\ Centre(j, <<1, 2 * p + 1>>) => SpreadSafe(j, Avx2ConvAxis(j, p, 0))
<1>1. ASSUME Centre(j, <<3, 3>>) PROVE SpreadSafe(j, Unit3x3(j, lanes))
  <2>1. 2 * 1 + 1 = 3 /\ 1 \in Nat
    OBVIOUS
  <2>2. /\ j.k[1] = 3 /\ j.k[2] = 3 /\ AxisIs(j, 1, 1, 1) /\ AxisIs(j, 2, 1, 1)
        /\ j.h \in Nat \ {0} /\ j.w \in Nat \ {0}
    BY <1>1, <2>1, CentreIs
  <2>3. /\ \A k \in 0 .. j.k[1] - 1 : Inside(j, 1, j.h, k, Edge(j.h)[k])
        /\ \A k \in 0 .. j.k[2] - 1 : Inside(j, 2, j.w, k, Edge(j.w)[k])
    BY <2>2, AxisRanges
  <2> QED
    BY <2>2, <2>3, SpreadIs DEF Unit3x3, AxisIs
<1>2. ASSUME NEW p \in Nat, Centre(j, <<2 * p + 1, 2 * p + 1>>)
      PROVE  /\ SpreadSafe(j, Wide(j, p, lanes))
             /\ SpreadSafe(j, Spread(j, 1, lanes, 1, Centred(j.h, p), Centred(j.w, p)))
  <2>1. /\ j.k[1] = 2 * p + 1 /\ j.k[2] = 2 * p + 1 /\ AxisIs(j, 1, 1, p) /\ AxisIs(j, 2, 1, p)
        /\ j.h \in Nat \ {0} /\ j.w \in Nat \ {0}
    BY <1>2, CentreIs
  <2>2. 2 * p + 1 - 1 = 2 * p
    OBVIOUS
  <2>3. /\ \A k \in 0 .. j.k[1] - 1 : Inside(j, 1, j.h, k, Clamped(j.h, p)[k])
        /\ \A k \in 0 .. j.k[2] - 1 : Inside(j, 2, j.w, k, Clamped(j.w, p)[k])
        /\ \A k \in 0 .. j.k[1] - 1 : Inside(j, 1, j.h, k, Centred(j.h, p)[k])
        /\ \A k \in 0 .. j.k[2] - 1 : Inside(j, 2, j.w, k, Centred(j.w, p)[k])
    <3>1. /\ \A k \in 0 .. 2 * p : Inside(j, 1, j.h, k, Clamped(j.h, p)[k])
          /\ \A k \in 0 .. 2 * p : Inside(j, 2, j.w, k, Clamped(j.w, p)[k])
          /\ \A k \in 0 .. 2 * p : Inside(j, 1, j.h, k, Centred(j.h, p)[k])
          /\ \A k \in 0 .. 2 * p : Inside(j, 2, j.w, k, Centred(j.w, p)[k])
      BY <2>1, AxisRanges
    <3> QED
      BY <2>1, <2>2, <3>1
  <2> QED
    BY <2>1, <2>3, SpreadIs DEF Wide, AxisIs
<1>3. ASSUME NEW p \in Nat, Centre(j, <<2 * p + 1, 1>>)
      PROVE  SpreadSafe(j, Avx2ConvAxis(j, p, 1))
  <2>1. 2 * 0 + 1 = 1 /\ 0 \in Nat
    OBVIOUS
  <2>2. /\ j.k[1] = 2 * p + 1 /\ j.k[2] = 1 /\ AxisIs(j, 1, 1, p) /\ AxisIs(j, 2, 1, 0)
        /\ j.h \in Nat \ {0} /\ j.w \in Nat \ {0}
    BY <1>3, <2>1, CentreIs
  <2>3. 2 * p + 1 - 1 = 2 * p
    OBVIOUS
  <2>4. /\ \A k \in 0 .. j.k[1] - 1 : Inside(j, 1, j.h, k, Centred(j.h, p)[k])
        /\ \A k \in 0 .. j.k[2] - 1 : Inside(j, 2, j.w, k, Whole(j.w)[k])
    <3>1. /\ \A k \in 0 .. 2 * p : Inside(j, 1, j.h, k, Centred(j.h, p)[k])
          /\ Inside(j, 2, j.w, 0, Whole(j.w)[0])
      BY <2>2, AxisRanges
    <3> QED
      BY <2>2, <2>3, <3>1
  <2>5. Avx2ConvAxis(j, p, 1) = Spread(j, 1, Avx, 1, Centred(j.h, p), Whole(j.w))
    BY DEF Avx2ConvAxis
  <2> QED
    BY <2>2, <2>4, <2>5, SpreadIs DEF AxisIs
<1>4. ASSUME NEW p \in Nat, Centre(j, <<1, 2 * p + 1>>)
      PROVE  SpreadSafe(j, Avx2ConvAxis(j, p, 0))
  <2>1. 2 * 0 + 1 = 1 /\ 0 \in Nat
    OBVIOUS
  <2>2. /\ j.k[1] = 1 /\ j.k[2] = 2 * p + 1 /\ AxisIs(j, 1, 1, 0) /\ AxisIs(j, 2, 1, p)
        /\ j.h \in Nat \ {0} /\ j.w \in Nat \ {0}
    BY <1>4, <2>1, CentreIs
  <2>3. 2 * p + 1 - 1 = 2 * p
    OBVIOUS
  <2>4. /\ \A k \in 0 .. j.k[1] - 1 : Inside(j, 1, j.h, k, Whole(j.h)[k])
        /\ \A k \in 0 .. j.k[2] - 1 : Inside(j, 2, j.w, k, Centred(j.w, p)[k])
    <3>1. /\ \A k \in 0 .. 2 * p : Inside(j, 2, j.w, k, Centred(j.w, p)[k])
          /\ Inside(j, 1, j.h, 0, Whole(j.h)[0])
      BY <2>2, AxisRanges
    <3> QED
      BY <2>2, <2>3, <3>1
  <2> QED
    BY <2>2, <2>4, SpreadIs DEF Avx2ConvAxis, AxisIs
<1> QED
  BY <1>1, <1>2, <1>3, <1>4

LEMMA OtherSpreadsSafe ==
  ASSUME NEW j, Shape(j), j.op = "conv", NEW lanes \in {1, Avx, Sse}
  PROVE  /\ Shaped(j, <<3, 3>>, <<2, 1>>, <<1, 1>>, <<1, 1>>) => SpreadSafe(j, Stride2x1(j, lanes))
         /\ Shaped(j, <<2, 2>>, <<1, 1>>, <<0, 0>>, <<1, 1>>) =>
               \A g : SpreadSafe(j, PadEnd2x2(j, g, lanes))
         /\ Shaped(j, <<3, 3>>, <<2, 2>>, <<1, 1>>, <<1, 1>>) =>
               SpreadSafe(j, ScalarConv3x3Stride2(j)) /\ SpreadSafe(j, Stream(j, lanes))
<1>1. /\ j.h \in Nat \ {0} /\ j.w \in Nat \ {0} /\ j.oh \in Nat \ {0} /\ j.ow \in Nat \ {0}
  BY DEF Shape
<1>2. ASSUME Shaped(j, <<3, 3>>, <<2, 1>>, <<1, 1>>, <<1, 1>>) PROVE SpreadSafe(j, Stride2x1(j, lanes))
  <2>1. /\ j.k[1] = 3 /\ j.k[2] = 3 /\ AxisIs(j, 1, 2, 1) /\ AxisIs(j, 2, 1, 1)
        /\ j.q[1] = 1 /\ j.d = <<1, 1>>
    BY <1>2, ShapedIs DEF AxisIs
  <2>2. 2 * j.oh = j.h \/ 2 * j.oh = j.h + 1
    BY <2>1, ConvSize DEF AxisIs
  <2>3. /\ \A k \in 0 .. j.k[1] - 1 : Inside(j, 1, j.h, k, HalfRows(j.h, j.oh)[k])
        /\ \A k \in 0 .. j.k[2] - 1 : Inside(j, 2, j.w, k, Edge(j.w)[k])
    BY <1>1, <2>1, <2>2, AxisRanges, Stride2Ranges
  <2> QED
    BY <1>1, <2>1, <2>3, SpreadIs DEF Stride2x1, AxisIs
<1>3. ASSUME Shaped(j, <<2, 2>>, <<1, 1>>, <<0, 0>>, <<1, 1>>), NEW g
      PROVE  SpreadSafe(j, PadEnd2x2(j, g, lanes))
  <2>1. /\ j.k[1] = 2 /\ j.k[2] = 2 /\ AxisIs(j, 1, 1, 0) /\ AxisIs(j, 2, 1, 0)
    BY <1>3, ShapedIs DEF AxisIs
  <2>2. /\ \A k \in 0 .. j.k[1] - 1 : Inside(j, 1, j.h, k, PadEnd(j.h)[k])
        /\ \A k \in 0 .. j.k[2] - 1 : Inside(j, 2, j.w, k, PadEnd(j.w)[k])
    BY <1>1, <2>1, AxisRanges
  <2> QED
    BY <1>1, <2>1, <2>2, SpreadIs DEF PadEnd2x2, AxisIs
<1>4. ASSUME Shaped(j, <<3, 3>>, <<2, 2>>, <<1, 1>>, <<1, 1>>)
      PROVE  SpreadSafe(j, ScalarConv3x3Stride2(j)) /\ SpreadSafe(j, Stream(j, lanes))
  <2>1. /\ j.k[1] = 3 /\ j.k[2] = 3 /\ AxisIs(j, 1, 2, 1) /\ AxisIs(j, 2, 2, 1)
        /\ j.q[1] = 1 /\ j.q[2] = 1 /\ j.d = <<1, 1>>
    BY <1>4, ShapedIs DEF AxisIs
  <2>2. /\ 2 * j.oh = j.h \/ 2 * j.oh = j.h + 1
        /\ 2 * j.ow = j.w \/ 2 * j.ow = j.w + 1
    BY <2>1, ConvSize DEF AxisIs
  <2>3. /\ \A k \in 0 .. j.k[1] - 1 : Inside(j, 1, j.h, k, TrimmedStride2(j.h, j.oh)[k])
        /\ \A k \in 0 .. j.k[2] - 1 : Inside(j, 2, j.w, k, TrimmedStride2(j.w, j.ow)[k])
        /\ \A k \in 0 .. j.k[1] - 1 : Inside(j, 1, j.h, k, EdgeStride2(j.h, j.oh)[k])
        /\ \A k \in 0 .. j.k[2] - 1 : Inside(j, 2, j.w, k, EdgeStride2(j.w, j.ow)[k])
    BY <1>1, <2>1, <2>2, Stride2Ranges
  <2>4. SpreadSafe(j, ScalarConv3x3Stride2(j))
    BY <1>1, <2>3, SpreadIs DEF ScalarConv3x3Stride2
  <2>5. SpreadSafe(j, Stream(j, lanes))
    BY <1>1, <2>3, SpreadIs DEF Stream
  <2> QED
    BY <2>4, <2>5
<1> QED
  BY <1>2, <1>3, <1>4

(* Each place of a kernel that finishes one place before the next takes    *)
(* its taps from inside, one float of a vector that takes two inputs for   *)
(* an output apart.                                                        *)
Past(span, w) == IF span = 2 /\ w % 2 = 0 THEN 1 ELSE 0

VectorInside(j, kernel, y, x) ==
  /\ \A r \in kernel.blkRows[y] : Reach(j, 1, y, r) \in 0 .. kernel.h - 1
  /\ \A c \in 0 .. j.k[2] - 1 :
        /\ Reach(j, 2, x, c) \in 0 .. kernel.w - 1
        /\ Reach(j, 2, x, c) + kernel.span * kernel.width[y][x] - 1 < kernel.w + Spare(kernel)

GatherSafe(j, kernel) ==
  /\ kernel.kind = "gather" /\ kernel.span \in {1, 2}
  /\ kernel.h \in Nat \ {0} /\ kernel.w \in Nat \ {0}
  /\ kernel.oh \in Nat \ {0} /\ kernel.ow \in Nat \ {0}
  /\ \A y \in 0 .. kernel.oh - 1 :
        \A r \in kernel.pixRows[y] : Reach(j, 1, y, r) \in 0 .. kernel.h - 1
  /\ \A x \in 0 .. kernel.ow - 1 :
        \A c \in kernel.pixCols[x] : Reach(j, 2, x, c) \in 0 .. kernel.w - 1
  /\ \A y \in 0 .. kernel.oh - 1, x \in 0 .. kernel.ow - 1 :
        /\ kernel.width[y][x] \in Nat \ {0}
        /\ kernel.width[y][x] > 1 => VectorInside(j, kernel, y, x)

LEMMA GatherIs ==
  ASSUME NEW j, NEW i, NEW g, NEW span \in {1, 2}, NEW width, NEW blk, NEW rows, NEW cols,
         i.h \in Nat \ {0}, i.w \in Nat \ {0}, i.oh \in Nat \ {0}, i.ow \in Nat \ {0},
         \A y \in 0 .. i.oh - 1 : \A r \in rows[y] : Reach(j, 1, y, r) \in 0 .. i.h - 1,
         \A x \in 0 .. i.ow - 1 : \A c \in cols[x] : Reach(j, 2, x, c) \in 0 .. i.w - 1,
         \A y \in 0 .. i.oh - 1, x \in 0 .. i.ow - 1 :
            /\ width[<<y, x>>] \in Nat \ {0}
            /\ width[<<y, x>>] > 1 =>
                  /\ \A r \in blk[y] : Reach(j, 1, y, r) \in 0 .. i.h - 1
                  /\ \A c \in 0 .. j.k[2] - 1 :
                        /\ Reach(j, 2, x, c) \in 0 .. i.w - 1
                        /\ Reach(j, 2, x, c) + span * width[<<y, x>>] - 1 < i.w + Past(span, i.w)
  PROVE  GatherSafe(j, Gather(i, g, span, width, blk, rows, cols))
<1>1. PICK kernel : kernel = Gather(i, g, span, width, blk, rows, cols)
  OBVIOUS
<1>2. /\ kernel.kind = "gather" /\ kernel.span = span /\ kernel.h = i.h /\ kernel.w = i.w
      /\ kernel.oh = i.oh /\ kernel.ow = i.ow /\ kernel.blkRows = blk
      /\ kernel.pixRows = rows /\ kernel.pixCols = cols
  BY <1>1 DEF Gather
<1>3. \A y \in 0 .. i.oh - 1, x \in 0 .. i.ow - 1 : kernel.width[y][x] = width[<<y, x>>]
  BY <1>1 DEF Gather
<1>4. Spare(kernel) = Past(span, i.w)
  BY <1>2 DEF Spare, Past
<1>5. \A y \in 0 .. i.oh - 1, x \in 0 .. i.ow - 1 :
        /\ kernel.width[y][x] \in Nat \ {0}
        /\ kernel.width[y][x] > 1 => VectorInside(j, kernel, y, x)
  BY <1>2, <1>3, <1>4, Zenon DEF VectorInside
<1> QED
  BY <1>1, <1>2, <1>5, Zenon DEF GatherSafe

LEMMA TestedInside ==
  ASSUME NEW j, NEW a, NEW n, NEW o, NEW k, NEW s, NEW p, AxisIs(j, a, s, p), p \in Nat, s \in {1, 2},
         NEW x \in 0 .. o - 1, NEW t \in Tested(n, o, k, s, p)[x], k \in Nat, o \in Nat
  PROVE  Reach(j, a, x, t) \in 0 .. n - 1
<1>1. t \in 0 .. k - 1 /\ x * s - p + t \in 0 .. n - 1
  BY DEF Tested
<1>2. Reach(j, a, x, t) = x * s - p + t * 1
  BY DEF Reach, AxisIs
<1>3. t * 1 = t
  BY <1>1
<1> QED
  BY <1>1, <1>2, <1>3

LEMMA UnitTileSafe ==
  ASSUME NEW j, Shape(j), j.op = "conv", Centre(j, <<3, 3>>), NEW g
  PROVE  GatherSafe(j, UnitTile(j, g, Avx))
<1>1. /\ j.k[1] = 3 /\ j.k[2] = 3 /\ AxisIs(j, 1, 1, 1) /\ AxisIs(j, 2, 1, 1)
      /\ j.h \in Nat \ {0} /\ j.w \in Nat \ {0} /\ j.oh = j.h /\ j.ow = j.w
  <2>1. 2 * 1 + 1 = 3 /\ 1 \in Nat
    OBVIOUS
  <2> QED
    BY <2>1, CentreIs
<1>2. Avx \in Nat \ {0}
  BY LanesAssumption
<1> DEFINE width == [o \in Outputs(j) |-> IF /\ o[1] # 0 /\ o[1] + 1 < j.h
                                            /\ o[2] # 0 /\ o[2] + Avx < j.w
                                          THEN Avx ELSE 1]
<1>3. \A y \in 0 .. j.oh - 1, x \in 0 .. j.ow - 1 :
         width[<<y, x>>] = IF y # 0 /\ y + 1 < j.h /\ x # 0 /\ x + Avx < j.w THEN Avx ELSE 1
  BY DEF Outputs
<1>4. \A y \in 0 .. j.oh - 1 : AllTaps(j.oh, 3)[y] = 0 .. 2
  BY DEF AllTaps
<1>5. /\ \A o, k \in Int : Reach(j, 1, o, k) = o - 1 + k
      /\ \A o, k \in Int : Reach(j, 2, o, k) = o - 1 + k
  BY <1>1 DEF Reach, AxisIs
<1>6. ASSUME NEW y \in 0 .. j.oh - 1, NEW x \in 0 .. j.ow - 1
      PROVE  /\ width[<<y, x>>] \in Nat \ {0}
             /\ width[<<y, x>>] > 1 =>
                  /\ \A r \in AllTaps(j.oh, 3)[y] : Reach(j, 1, y, r) \in 0 .. j.h - 1
                  /\ \A c \in 0 .. j.k[2] - 1 :
                        /\ Reach(j, 2, x, c) \in 0 .. j.w - 1
                        /\ Reach(j, 2, x, c) + 1 * width[<<y, x>>] - 1
                              < j.w + Past(1, j.w)
  <2>1. width[<<y, x>>] = IF y # 0 /\ y + 1 < j.h /\ x # 0 /\ x + Avx < j.w THEN Avx ELSE 1
    BY <1>3
  <2> HIDE DEF width
  <2>2. x \in Int /\ y \in Int /\ x >= 0 /\ y >= 0
    BY <1>1
  <2>3. CASE y # 0 /\ y + 1 < j.h /\ x # 0 /\ x + Avx < j.w
    <3>1. ASSUME NEW r \in 0 .. 2 PROVE Reach(j, 1, y, r) \in 0 .. j.h - 1
      <4>1. Reach(j, 1, y, r) = y - 1 + r
        BY <1>5, <2>2
      <4>2. y - 1 + r \in 0 .. j.h - 1
        BY <1>1, <2>2, <2>3
      <4> QED
        BY <4>1, <4>2
    <3>2. ASSUME NEW c \in 0 .. 2
          PROVE  /\ Reach(j, 2, x, c) \in 0 .. j.w - 1
                 /\ Reach(j, 2, x, c) + 1 * Avx - 1 < j.w + Past(1, j.w)
      <4>1. Reach(j, 2, x, c) = x - 1 + c
        BY <1>5, <2>2
      <4>2. x - 1 + c \in 0 .. j.w - 1 /\ x - 1 + c + 1 * Avx - 1 < j.w + 0
        BY <1>1, <1>2, <2>2, <2>3
      <4> QED
        BY <4>1, <4>2 DEF Past
    <3> QED
      BY <1>1, <1>2, <1>4, <2>1, <2>3, <3>1, <3>2
  <2>4. CASE ~(y # 0 /\ y + 1 < j.h /\ x # 0 /\ x + Avx < j.w)
    BY <2>1, <2>4
  <2> QED
    BY <2>3, <2>4
<1>7. /\ \A y \in 0 .. j.oh - 1 : \A r \in Tested(j.h, j.oh, 3, 1, 1)[y] :
            Reach(j, 1, y, r) \in 0 .. j.h - 1
      /\ \A x \in 0 .. j.ow - 1 : \A c \in Tested(j.w, j.ow, 3, 1, 1)[x] :
            Reach(j, 2, x, c) \in 0 .. j.w - 1
  BY <1>1, TestedInside
<1>8. UnitTile(j, g, Avx) = Gather(j, g, 1, width, AllTaps(j.oh, 3),
                                   Tested(j.h, j.oh, 3, 1, 1), Tested(j.w, j.ow, 3, 1, 1))
  BY DEF UnitTile
<1> HIDE DEF width
<1> QED
  BY <1>1, <1>6, <1>7, <1>8, GatherIs

LEMMA Stride2TileSafe ==
  ASSUME NEW j, Shape(j), j.op = "conv",
         Shaped(j, <<3, 3>>, <<2, 2>>, <<1, 1>>, <<1, 1>>), NEW g
  PROVE  GatherSafe(j, Stride2Tile(j, g, Stride2Vectors(j, Avx)))
<1>1. /\ j.k[1] = 3 /\ j.k[2] = 3 /\ AxisIs(j, 1, 2, 1) /\ AxisIs(j, 2, 2, 1)
      /\ j.h \in Nat \ {0} /\ j.w \in Nat \ {0} /\ j.oh \in Nat \ {0} /\ j.ow \in Nat \ {0}
  BY ShapedIs DEF AxisIs, Shape
<1>2. Avx \in Nat \ {0}
  BY LanesAssumption
<1> DEFINE width == Stride2Vectors(j, Avx)
           Fits(y, x) == /\ y # 0 /\ y * 2 + 1 < j.h
                         /\ x # 0 /\ x + Avx <= j.ow /\ (x + Avx - 1) * 2 + 1 < j.w
<1>3. \A y \in 0 .. j.oh - 1, x \in 0 .. j.ow - 1 :
         width[<<y, x>>] = IF Fits(y, x) THEN Avx ELSE 1
  BY DEF Outputs, Stride2Vectors
<1>4. \A y \in 0 .. j.oh - 1 : AllTaps(j.oh, 3)[y] = 0 .. 2
  BY DEF AllTaps
<1>5. /\ \A o, k \in Int : Reach(j, 1, o, k) = o * 2 - 1 + k
      /\ \A o, k \in Int : Reach(j, 2, o, k) = o * 2 - 1 + k
  BY <1>1 DEF Reach, AxisIs
<1>6. ASSUME NEW y \in 0 .. j.oh - 1, NEW x \in 0 .. j.ow - 1
      PROVE  /\ width[<<y, x>>] \in Nat \ {0}
             /\ width[<<y, x>>] > 1 =>
                  /\ \A r \in AllTaps(j.oh, 3)[y] : Reach(j, 1, y, r) \in 0 .. j.h - 1
                  /\ \A c \in 0 .. j.k[2] - 1 :
                        /\ Reach(j, 2, x, c) \in 0 .. j.w - 1
                        /\ Reach(j, 2, x, c) + 2 * width[<<y, x>>] - 1 < j.w + Past(2, j.w)
  <2>1. width[<<y, x>>] = IF Fits(y, x) THEN Avx ELSE 1
    BY <1>3
  <2> HIDE DEF width
  <2>2. x \in Int /\ y \in Int /\ x >= 0 /\ y >= 0
    BY <1>1
  <2>3. CASE Fits(y, x)
    <3>1. ASSUME NEW r \in 0 .. 2 PROVE Reach(j, 1, y, r) \in 0 .. j.h - 1
      <4>1. Reach(j, 1, y, r) = y * 2 - 1 + r
        BY <1>5, <2>2
      <4>2. y * 2 - 1 + r \in 0 .. j.h - 1
        BY <1>1, <2>2, <2>3
      <4> QED
        BY <4>1, <4>2
    <3>2. ASSUME NEW c \in 0 .. 2
          PROVE  /\ Reach(j, 2, x, c) \in 0 .. j.w - 1
                 /\ Reach(j, 2, x, c) + 2 * Avx - 1 < j.w + Past(2, j.w)
      <4>1. Reach(j, 2, x, c) = x * 2 - 1 + c
        BY <1>5, <2>2
      <4>2. x * 2 - 1 + c \in 0 .. j.w - 1 /\ x * 2 - 1 + c + 2 * Avx - 1 < j.w + 1
        BY <1>1, <1>2, <2>2, <2>3
      <4>3. j.w % 2 # 0 => x * 2 - 1 + c + 2 * Avx - 1 < j.w
        <5>1. PICK last \in Int : last = x + Avx - 1
          BY <1>2, <2>2
        <5>2. last * 2 + 1 < j.w /\ x * 2 - 1 + c + 2 * Avx - 1 = last * 2 + c
          BY <1>2, <2>2, <2>3, <5>1
        <5>3. j.w % 2 # 0 => last * 2 + 2 < j.w
          BY <1>1, <5>2
        <5> QED
          BY <1>1, <5>1, <5>2, <5>3
      <4> QED
        BY <1>1, <4>1, <4>2, <4>3 DEF Past
    <3>3. width[<<y, x>>] = Avx /\ Avx \in Nat \ {0} /\ AllTaps(j.oh, 3)[y] = 0 .. 2
          /\ 0 .. j.k[2] - 1 = 0 .. 2
      BY <1>1, <1>2, <1>4, <2>1, <2>3
    <3> QED
      BY <3>1, <3>2, <3>3, Zenon
  <2>4. CASE ~Fits(y, x)
    BY <2>1, <2>4
  <2> QED
    BY <2>3, <2>4
<1>7. /\ \A y \in 0 .. j.oh - 1 : \A r \in Tested(j.h, j.oh, 3, 2, 1)[y] :
            Reach(j, 1, y, r) \in 0 .. j.h - 1
      /\ \A x \in 0 .. j.ow - 1 : \A c \in Tested(j.w, j.ow, 3, 2, 1)[x] :
            Reach(j, 2, x, c) \in 0 .. j.w - 1
  BY <1>1, TestedInside
<1> HIDE DEF width
<1>8. Stride2Tile(j, g, width) = Gather(j, g, 2, width, AllTaps(j.oh, 3),
                                        Tested(j.h, j.oh, 3, 2, 1), Tested(j.w, j.ow, 3, 2, 1))
  BY DEF Stride2Tile
<1>9. GatherSafe(j, Stride2Tile(j, g, width))
  BY <1>1, <1>6, <1>7, <1>8, GatherIs
<1> QED
  BY <1>9 DEF width

LEMMA WideTileSafe ==
  ASSUME NEW j, Shape(j), j.op = "conv", NEW p \in Nat, Centre(j, <<2 * p + 1, 2 * p + 1>>)
  PROVE  GatherSafe(j, WideTile(j, p))
<1>1. /\ j.k[1] = 2 * p + 1 /\ j.k[2] = 2 * p + 1 /\ AxisIs(j, 1, 1, p) /\ AxisIs(j, 2, 1, p)
      /\ j.h \in Nat \ {0} /\ j.w \in Nat \ {0} /\ j.oh = j.h /\ j.ow = j.w
  BY CentreIs
<1>2. Avx \in Nat \ {0}
  BY LanesAssumption
<1> DEFINE end == IF j.w > p THEN j.w - p ELSE p
           width == [o \in Outputs(j) |-> IF o[2] >= p /\ o[2] + Avx <= end THEN Avx ELSE 1]
           First(y) == IF y < p THEN p - y ELSE 0
           Last(y) == (IF y + p >= j.h THEN j.h - y + p ELSE 2 * p + 1) - 1
           Rows == [y \in 0 .. j.oh - 1 |-> First(y) .. Last(y)]
<1>3. \A y \in 0 .. j.oh - 1, x \in 0 .. j.ow - 1 :
         width[<<y, x>>] = IF x >= p /\ x + Avx <= end THEN Avx ELSE 1
  BY DEF Outputs
<1>4. \A o, k \in Int : Reach(j, 1, o, k) = o - p + k /\ Reach(j, 2, o, k) = o - p + k
  BY <1>1 DEF Reach, AxisIs
<1>5. ASSUME NEW y \in 0 .. j.oh - 1, NEW r \in Rows[y] PROVE Reach(j, 1, y, r) \in 0 .. j.h - 1
  <2>1. r \in First(y) .. Last(y)
    OBVIOUS
  <2>2. y \in Int /\ 0 <= y /\ y < j.h
    BY <1>1
  <2>3. First(y) \in Int /\ Last(y) \in Int
    BY <1>1, <2>2
  <2>4. r \in Int /\ First(y) <= r /\ r <= Last(y)
    BY <2>1, <2>3
  <2>5. y - p + r >= 0
    BY <2>2, <2>4
  <2>6. y - p + r <= j.h - 1
    BY <1>1, <2>2, <2>4
  <2>7. Reach(j, 1, y, r) = y - p + r
    BY <1>4, <2>2, <2>4
  <2> QED
    BY <1>1, <2>2, <2>4, <2>5, <2>6, <2>7
<1> HIDE DEF Rows
<1>6. ASSUME NEW y \in 0 .. j.oh - 1, NEW x \in 0 .. j.ow - 1
      PROVE  /\ width[<<y, x>>] \in Nat \ {0}
             /\ width[<<y, x>>] > 1 =>
                  /\ \A r \in Rows[y] : Reach(j, 1, y, r) \in 0 .. j.h - 1
                  /\ \A c \in 0 .. j.k[2] - 1 :
                        /\ Reach(j, 2, x, c) \in 0 .. j.w - 1
                        /\ Reach(j, 2, x, c) + 1 * width[<<y, x>>] - 1
                              < j.w + Past(1, j.w)
  <2>1. width[<<y, x>>] = IF x >= p /\ x + Avx <= end THEN Avx ELSE 1
    BY <1>3
  <2> HIDE DEF width
  <2>2. x \in Int /\ x >= 0
    BY <1>1
  <2>3. CASE x >= p /\ x + Avx <= end
    <3>1. j.w > p /\ x + Avx <= j.w - p
      BY <1>1, <1>2, <2>2, <2>3
    <3>2. ASSUME NEW c \in 0 .. j.k[2] - 1
          PROVE  /\ Reach(j, 2, x, c) \in 0 .. j.w - 1
                 /\ Reach(j, 2, x, c) + 1 * Avx - 1 < j.w + Past(1, j.w)
      <4>1. c \in Int /\ 0 <= c /\ c <= 2 * p
        BY <1>1
      <4>2. Reach(j, 2, x, c) = x - p + c
        BY <1>4, <2>2, <4>1
      <4>3. x - p + c \in 0 .. j.w - 1 /\ x - p + c + 1 * Avx - 1 < j.w + 0
        BY <1>1, <1>2, <2>2, <2>3, <3>1, <4>1
      <4> QED
        BY <4>2, <4>3 DEF Past
    <3> QED
      BY <1>1, <1>2, <1>5, <2>1, <2>3, <3>2
  <2>4. CASE ~(x >= p /\ x + Avx <= end)
    BY <2>1, <2>4
  <2> QED
    BY <2>3, <2>4
<1>7. \A x \in 0 .. j.ow - 1 : \A c \in Tested(j.w, j.ow, 2 * p + 1, 1, p)[x] :
         Reach(j, 2, x, c) \in 0 .. j.w - 1
  <2>1. 2 * p + 1 \in Nat /\ j.ow \in Nat /\ 1 \in {1, 2}
    BY <1>1
  <2> QED
    BY <1>1, <2>1, TestedInside
<1>8. WideTile(j, p) = Gather(j, 4, 1, width, Rows, Rows, Tested(j.w, j.ow, 2 * p + 1, 1, p))
  BY Zenon DEF WideTile, Rows
<1> HIDE DEF width
<1> QED
  BY <1>1, <1>5, <1>6, <1>7, <1>8, GatherIs

(* The window of an output, trimmed at both ends, is inside.               *)
LEMMA TrimmedInside ==
  ASSUME NEW x \in Int, NEW d \in Nat \ {0}, NEW n \in Nat, NEW k \in Nat, NEW S, NEW T,
         NEW begin, NEW end, NEW r \in begin .. end - 1, begin = Least(S), end = Greatest(T),
         \A i : i \in S <=> i \in 0 .. k /\ (i = k \/ x + i * d >= 0),
         \A i : i \in T <=> i \in begin .. k /\ (i = begin \/ x + (i - 1) * d < n)
  PROVE  r \in 0 .. k - 1 /\ x + r * d \in 0 .. n - 1
<1>1. begin \in S
  <2>1. k \in 0 .. k
    OBVIOUS
  <2>2. S \in SUBSET (0 .. k) /\ S # {}
    BY <2>1, Zenon
  <2> QED
    BY <2>2, Extremes
<1>2. begin \in 0 .. k /\ (begin = k \/ x + begin * d >= 0)
  BY <1>1, Zenon
<1>3. end \in T
  <2>1. begin \in Nat /\ begin \in begin .. k
    BY <1>2
  <2>2. ASSUME NEW i \in begin .. k PROVE i \in 0 .. k
    BY <2>1
  <2>3. T \in SUBSET (0 .. k) /\ T # {}
    BY <2>1, <2>2, Zenon
  <2> QED
    BY <2>3, Extremes
<1>4. end \in begin .. k /\ (end = begin \/ x + (end - 1) * d < n)
  BY <1>3, Zenon
<1>5. /\ begin \in Nat /\ end \in Nat /\ r \in Nat /\ begin <= r /\ r <= end - 1 /\ end <= k
      /\ begin # k /\ begin # end
  BY <1>2, <1>4
<1>6. begin * d <= r * d /\ r * d <= (end - 1) * d /\ begin * d \in Nat /\ r * d \in Nat
      /\ (end - 1) * d \in Nat
  <2>1. end - 1 \in Nat /\ d \in Nat
    BY <1>5
  <2> QED
    BY <1>5, <2>1, Products
<1>7. x + begin * d >= 0 /\ x + (end - 1) * d < n
  BY <1>2, <1>4, <1>5
<1>8. r \in 0 .. k - 1
  BY <1>5
<1>9. x + r * d \in Int /\ x + r * d >= 0 /\ x + r * d < n
  <2>1. PICK u, v, w : u = begin * d /\ v = r * d /\ w = (end - 1) * d
    OBVIOUS
  <2>2. u \in Nat /\ v \in Nat /\ w \in Nat /\ u <= v /\ v <= w /\ x + u >= 0 /\ x + w < n
    BY <1>6, <1>7, <2>1
  <2>3. x + v \in Int /\ x + v >= 0 /\ x + v < n
    BY <2>2
  <2> QED
    BY <2>1, <2>3
<1> QED
  BY <1>8, <1>9

LEMMA GeneralSafe ==
  ASSUME NEW j, Shape(j)
  PROVE  GatherSafe(j, General(j))
<1>1. /\ j.h \in Nat \ {0} /\ j.w \in Nat \ {0} /\ j.oh \in Nat \ {0} /\ j.ow \in Nat \ {0}
      /\ \A a \in {1, 2} : /\ j.k[a] \in Nat \ {0} /\ j.s[a] \in Nat \ {0} /\ j.d[a] \in Nat \ {0}
                           /\ j.p[a] \in Nat
  BY DEF Shape
<1> DEFINE Inner(a, o) == {k \in 0 .. j.k[a] :
                             k = j.k[a] \/ o * j.s[a] - j.p[a] + k * j.d[a] >= 0}
           Begin(a, o) == Least(Inner(a, o))
           Ends(n, a, o) == {k \in Begin(a, o) .. j.k[a] :
                               k = Begin(a, o) \/ o * j.s[a] - j.p[a] + (k - 1) * j.d[a] < n}
           End(n, a, o) == Greatest(Ends(n, a, o))
           Trim(n, a, o) == Begin(a, o) .. End(n, a, o) - 1
           Rows == [y \in 0 .. j.oh - 1 |-> Trim(j.h, 1, y)]
           Cols == [x \in 0 .. j.ow - 1 |-> Trim(j.w, 2, x)]
<1>2. ASSUME NEW a \in {1, 2}, NEW n \in Nat, NEW o \in Nat, NEW r \in Trim(n, a, o)
      PROVE  Reach(j, a, o, r) \in 0 .. n - 1
  <2>1. PICK x, d, k, S, T, begin, end :
          /\ x = o * j.s[a] - j.p[a] /\ d = j.d[a] /\ k = j.k[a]
          /\ S = Inner(a, o) /\ T = Ends(n, a, o)
          /\ begin = Begin(a, o) /\ end = End(n, a, o)
    OBVIOUS
  <2>2. /\ begin = Least(S) /\ end = Greatest(T) /\ r \in begin .. end - 1
        /\ \A i : i \in S <=> i \in 0 .. k /\ (i = k \/ x + i * d >= 0)
        /\ \A i : i \in T <=> i \in begin .. k /\ (i = begin \/ x + (i - 1) * d < n)
    <3>1. \A i : i \in Inner(a, o) <=>
                   i \in 0 .. j.k[a] /\ (i = j.k[a] \/ o * j.s[a] - j.p[a] + i * j.d[a] >= 0)
      OBVIOUS
    <3>2. \A i : i \in Ends(n, a, o) <=>
                   /\ i \in Begin(a, o) .. j.k[a]
                   /\ i = Begin(a, o) \/ o * j.s[a] - j.p[a] + (i - 1) * j.d[a] < n
      OBVIOUS
    <3>3. Begin(a, o) = Least(Inner(a, o)) /\ End(n, a, o) = Greatest(Ends(n, a, o))
          /\ r \in Begin(a, o) .. End(n, a, o) - 1
      OBVIOUS
    <3> HIDE DEF Inner, Ends, Begin, End, Trim
    <3> QED
      BY <2>1, <3>1, <3>2, <3>3
  <2>3. x \in Int /\ d \in Nat \ {0} /\ k \in Nat /\ n \in Nat
    <3>1. PICK s : s = j.s[a]
      OBVIOUS
    <3>2. s \in Nat /\ j.p[a] \in Nat
      BY <1>1, <3>1
    <3>3. o * s \in Int
      BY <3>2
    <3>4. x \in Int
      BY <2>1, <3>1, <3>2, <3>3
    <3> QED
      BY <1>1, <2>1, <3>4
  <2> HIDE DEF Trim, Begin, End, Inner, Ends
  <2>4. x + r * d \in 0 .. n - 1
    BY <2>2, <2>3, TrimmedInside
  <2> QED
    BY <2>1, <2>4 DEF Reach
<1>3. General(j) = Gather(j, 1, 1, Single(j), Rows, Rows, Cols)
  BY Zenon DEF General
<1> HIDE DEF Trim
<1>4. \A y \in 0 .. j.oh - 1 : \A r \in Rows[y] : Reach(j, 1, y, r) \in 0 .. j.h - 1
  BY <1>1, <1>2
<1>5. \A x \in 0 .. j.ow - 1 : \A c \in Cols[x] : Reach(j, 2, x, c) \in 0 .. j.w - 1
  BY <1>1, <1>2
<1> HIDE DEF Rows, Cols
<1>6. \A y \in 0 .. j.oh - 1, x \in 0 .. j.ow - 1 : Single(j)[<<y, x>>] = 1
  BY DEF Single, Outputs
<1>7. 1 \in Nat \ {0} /\ ~(1 > 1)
  OBVIOUS
<1> QED
  BY <1>1, <1>3, <1>4, <1>5, <1>6, <1>7, GatherIs

LEMMA Packed1x1Safe ==
  ASSUME NEW j, Shape(j), Shaped(j, <<1, 1>>, <<1, 1>>, <<0, 0>>, <<0, 0>>), NEW v,
         NEW wide \in BOOLEAN, NEW lanes \in {1, Avx, Sse}
  PROVE  /\ GatherSafe(j, Packed1x1(j, v, wide, lanes))
         /\ Packed1x1(j, v, wide, lanes).h = 1 /\ Packed1x1(j, v, wide, lanes).w = j.h * j.w
         /\ Packed1x1(j, v, wide, lanes).span = 1 /\ Packed1x1(j, v, wide, lanes).kind = "gather"
<1>1. /\ j.k[1] = 1 /\ j.k[2] = 1 /\ AxisIs(j, 1, 1, 0) /\ AxisIs(j, 2, 1, 0)
  BY ShapedIs DEF AxisIs
<1>2. j.h * j.w \in Nat \ {0} /\ lanes \in Nat \ {0}
  <2>1. j.h \in Nat \ {0} /\ j.w \in Nat \ {0} /\ {1, Avx, Sse} \subseteq Nat \ {0}
    BY LanesAssumption DEF Shape
  <2> QED
    BY <2>1
<1>3. PICK i, n : i = Flat(j) /\ n = j.h * j.w
  OBVIOUS
<1>4. i.h = 1 /\ i.w = n /\ i.oh = 1 /\ i.ow = n /\ n \in Nat \ {0}
  BY <1>2, <1>3 DEF Flat
<1> DEFINE width == [o \in Outputs(Flat(j)) |->
                       CASE wide /\ v = 4 /\ o[2] + 2 * lanes <= j.h * j.w -> 2 * lanes
                         [] ~(wide /\ v = 4 /\ o[2] + 2 * lanes <= j.h * j.w)
                                /\ o[2] + lanes <= j.h * j.w -> lanes
                         [] o[2] + lanes > j.h * j.w -> 1]
<1>5. \A o, k \in Int : Reach(j, 1, o, k) = o - 0 + k /\ Reach(j, 2, o, k) = o - 0 + k
  BY <1>1 DEF Reach, AxisIs
<1>6. ASSUME NEW y \in 0 .. i.oh - 1, NEW x \in 0 .. i.ow - 1
      PROVE  /\ width[<<y, x>>] \in Nat \ {0} /\ x + width[<<y, x>>] <= n
  <2>1. <<y, x>> \in Outputs(Flat(j)) /\ <<y, x>>[2] = x
    BY <1>3 DEF Outputs
  <2>2. width[<<y, x>>] = CASE wide /\ v = 4 /\ x + 2 * lanes <= n -> 2 * lanes
                            [] ~(wide /\ v = 4 /\ x + 2 * lanes <= n) /\ x + lanes <= n -> lanes
                            [] x + lanes > n -> 1
    BY <1>3, <2>1
  <2> HIDE DEF width
  <2>3. x \in Int /\ 0 <= x /\ x < n
    BY <1>4
  <2>4. x + lanes > n <=> ~(x + lanes <= n)
    BY <1>2, <1>4, <2>3
  <2>5. wide /\ v = 4 /\ x + 2 * lanes <= n => x + lanes <= n
    BY <1>2, <1>4, <2>3
  <2>6. \/ wide /\ v = 4 /\ x + 2 * lanes <= n /\ width[<<y, x>>] = 2 * lanes
        \/ x + lanes <= n /\ width[<<y, x>>] = lanes
        \/ width[<<y, x>>] = 1
    BY <2>2, <2>4, <2>5
  <2> QED
    BY <1>2, <1>4, <2>3, <2>6
<1> HIDE DEF width
<1>7. ASSUME NEW y \in 0 .. i.oh - 1, NEW x \in 0 .. i.ow - 1
      PROVE  /\ \A r \in AllTaps(1, 1)[y] : Reach(j, 1, y, r) \in 0 .. i.h - 1
             /\ \A c \in AllTaps(n, 1)[x] : Reach(j, 2, x, c) \in 0 .. i.w - 1
             /\ \A c \in 0 .. j.k[2] - 1 :
                   /\ Reach(j, 2, x, c) \in 0 .. i.w - 1
                   /\ Reach(j, 2, x, c) + 1 * width[<<y, x>>] - 1 < i.w + Past(1, i.w)
  <2>1. AllTaps(1, 1)[y] = {0} /\ AllTaps(n, 1)[x] = {0} /\ 0 .. j.k[2] - 1 = {0}
    BY <1>1, <1>4 DEF AllTaps
  <2>2. x \in Int /\ 0 <= x /\ x < n /\ y = 0
    BY <1>4
  <2>3. Reach(j, 1, y, 0) = 0 /\ Reach(j, 2, x, 0) = x
    BY <1>5, <2>2
  <2> QED
    BY <1>4, <1>6, <2>1, <2>2, <2>3 DEF Past
<1>8. Packed1x1(j, v, wide, lanes) =
        Gather(i, v, 1, width, AllTaps(1, 1), AllTaps(1, 1), AllTaps(n, 1))
  <2>1. Packed1x1(j, v, wide, lanes) =
          Gather(Flat(j), v, 1, width, AllTaps(1, 1), AllTaps(1, 1), AllTaps(j.h * j.w, 1))
    BY Zenon DEF Packed1x1, width
  <2> QED
    BY <1>3, <2>1
<1>9. GatherSafe(j, Gather(i, v, 1, width, AllTaps(1, 1), AllTaps(1, 1), AllTaps(n, 1)))
  <2>1. 0 \in 0 .. i.oh - 1 /\ 0 \in 0 .. i.ow - 1 /\ 1 \in {1, 2}
        /\ {i.h, i.w, i.oh, i.ow} \subseteq Nat \ {0}
    BY <1>4
  <2>2. /\ \A y \in 0 .. i.oh - 1 : \A r \in AllTaps(1, 1)[y] : Reach(j, 1, y, r) \in 0 .. i.h - 1
        /\ \A x \in 0 .. i.ow - 1 : \A c \in AllTaps(n, 1)[x] : Reach(j, 2, x, c) \in 0 .. i.w - 1
    BY <1>7, <2>1, Zenon
  <2> QED
    BY <1>6, <1>7, <2>1, <2>2, GatherIs
<1>10. LET kernel == Gather(i, v, 1, width, AllTaps(1, 1), AllTaps(1, 1), AllTaps(n, 1))
       IN  kernel.h = 1 /\ kernel.w = n /\ kernel.span = 1 /\ kernel.kind = "gather"
  BY <1>4 DEF Gather
<1> QED
  BY <1>3, <1>8, <1>9, <1>10

Safe(j, kernel) == SpreadSafe(j, kernel) \/ GatherSafe(j, kernel)

LEMMA PickSafe ==
  ASSUME NEW l \in AllLevels, NEW j, NEW a, NEW b, NEW c, NEW d,
         Safe(j, a), Safe(j, b), Safe(j, c), Safe(j, d)
  PROVE  Safe(j, Pick(l, a, b, c, d))
<1>1. Pick(l, a, b, c, d) \in {a, b, c, d}
  BY DEF Pick, AllLevels
<1> QED
  BY <1>1

LEMMA DepthwiseSafe ==
  ASSUME NEW j, Shape(j), j.op = "conv", NEW l \in AllLevels
  PROVE  Safe(j, DepthwiseConv2d(j, l))
<1>1. {1, Avx, Sse} \subseteq {1, Avx, Sse} /\ 2 \in Nat /\ 4 \in Nat
  OBVIOUS
<1>2. 2 * 2 + 1 = 5 /\ 2 * 4 + 1 = 9
  OBVIOUS
<1>3. \/ /\ Centre(j, <<3, 3>>)
         /\ DepthwiseConv2d(j, l) =
              Pick(l, Avx2Depthwise3x3(j), Sse2Depthwise3x3(j), ScalarDepthwise3x3(j),
                   ScalarDepthwise3x3(j))
      \/ /\ Shaped(j, <<3, 3>>, <<2, 1>>, <<1, 1>>, <<1, 1>>)
         /\ DepthwiseConv2d(j, l) =
              Pick(l, Avx2Depthwise3x3Stride2x1(j), Sse2Depthwise3x3Stride2x1(j),
                   ScalarDepthwise3x3Stride2x1(j), ScalarDepthwise3x3Stride2x1(j))
      \/ /\ Centre(j, <<5, 5>>)
         /\ DepthwiseConv2d(j, l) =
              Pick(l, Avx2Depthwise5x5(j), Sse2Depthwise5x5(j), ScalarDepthwise5x5(j),
                   ScalarDepthwise5x5(j))
      \/ Centre(j, <<9, 9>>) /\ DepthwiseConv2d(j, l) = Avx2Depthwise9x9(j)
      \/ DepthwiseConv2d(j, l) = General(j)
  BY DEF DepthwiseConv2d
<1>4. Centre(j, <<3, 3>>) =>
        /\ Safe(j, Avx2Depthwise3x3(j)) /\ Safe(j, Sse2Depthwise3x3(j))
        /\ Safe(j, ScalarDepthwise3x3(j))
  BY <1>1, CentredSafe DEF Safe, Avx2Depthwise3x3, Sse2Depthwise3x3, ScalarDepthwise3x3
<1>5. Shaped(j, <<3, 3>>, <<2, 1>>, <<1, 1>>, <<1, 1>>) =>
        /\ Safe(j, Avx2Depthwise3x3Stride2x1(j)) /\ Safe(j, Sse2Depthwise3x3Stride2x1(j))
        /\ Safe(j, ScalarDepthwise3x3Stride2x1(j))
  BY <1>1, OtherSpreadsSafe DEF Safe, Avx2Depthwise3x3Stride2x1, Sse2Depthwise3x3Stride2x1,
                                ScalarDepthwise3x3Stride2x1
<1>6. Centre(j, <<5, 5>>) =>
        /\ Safe(j, Avx2Depthwise5x5(j)) /\ Safe(j, Sse2Depthwise5x5(j))
        /\ Safe(j, ScalarDepthwise5x5(j))
  <2>1. \A lanes \in {1, Avx, Sse} : Centre(j, <<5, 5>>) => SpreadSafe(j, Wide(j, 2, lanes))
    BY <1>1, <1>2, CentredSafe
  <2> QED
    BY <2>1 DEF Safe, Avx2Depthwise5x5, Sse2Depthwise5x5, ScalarDepthwise5x5
<1>7. Centre(j, <<9, 9>>) => Safe(j, Avx2Depthwise9x9(j))
  <2>1. \A lanes \in {1, Avx, Sse} : Centre(j, <<9, 9>>) => SpreadSafe(j, Wide(j, 4, lanes))
    BY <1>1, <1>2, CentredSafe
  <2> QED
    BY <2>1 DEF Safe, Avx2Depthwise9x9
<1>8. Safe(j, General(j))
  BY GeneralSafe DEF Safe
<1> QED
  BY <1>3, <1>4, <1>5, <1>6, <1>7, <1>8, PickSafe

LEMMA DenseSafe ==
  ASSUME NEW j, Shape(j), j.op = "conv", j.oc \in Nat, j.ic \in Nat, NEW l \in AllLevels
  PROVE  Safe(j, DenseConv2d(j, l))
<1>1. 2 \in Nat /\ 3 \in Nat /\ 2 * 2 + 1 = 5 /\ 2 * 3 + 1 = 7 /\ Avx \in {1, Avx, Sse}
      /\ Sse \in {1, Avx, Sse} /\ 1 \in {1, Avx, Sse}
  OBVIOUS
<1>0. PICK kernel : kernel = DenseConv2d(j, l)
  OBVIOUS
<1>2. \/ Centre(j, <<7, 1>>) /\ kernel = Avx2ConvAxis(j, 3, 1)
      \/ Centre(j, <<1, 7>>) /\ kernel = Avx2ConvAxis(j, 3, 0)
      \/ Centre(j, <<5, 1>>) /\ kernel = Avx2ConvAxis(j, 2, 1)
      \/ Centre(j, <<1, 5>>) /\ kernel = Avx2ConvAxis(j, 2, 0)
      \/ /\ Centre(j, <<3, 3>>)
         /\ kernel =
              Pick(l, Avx2Conv3x3(j), Sse2Conv3x3(j), NeonConv3x3(j), ScalarConv3x3(j))
      \/ /\ Centre(j, <<7, 7>>)
         /\ kernel =
              IF j.oc % 4 = 0 THEN Avx2Conv7x7Four(j) ELSE Avx2Conv7x7One(j)
      \/ /\ Centre(j, <<5, 5>>)
         /\ kernel =
              IF j.oc % 4 = 0 THEN Avx2Conv5x5Four(j) ELSE Avx2Conv5x5One(j)
      \/ /\ Shaped(j, <<2, 2>>, <<1, 1>>, <<0, 0>>, <<1, 1>>)
         /\ kernel =
              Pick(l, Avx2Conv2x2(j), Sse2Conv2x2(j), ScalarConv2x2(j), ScalarConv2x2(j))
      \/ /\ Shaped(j, <<3, 3>>, <<2, 2>>, <<1, 1>>, <<1, 1>>)
         /\ kernel =
              Pick(l, Avx2Conv3x3Stride2(j), Sse2Conv3x3Stride2(j),
                   ScalarConv3x3Stride2(j), ScalarConv3x3Stride2(j))
      \/ kernel = General(j)
  BY <1>0 DEF DenseConv2d
<1>3. /\ Centre(j, <<7, 1>>) => Safe(j, Avx2ConvAxis(j, 3, 1))
      /\ Centre(j, <<1, 7>>) => Safe(j, Avx2ConvAxis(j, 3, 0))
      /\ Centre(j, <<5, 1>>) => Safe(j, Avx2ConvAxis(j, 2, 1))
      /\ Centre(j, <<1, 5>>) => Safe(j, Avx2ConvAxis(j, 2, 0))
  BY <1>1, CentredSafe DEF Safe
<1>4. ASSUME Centre(j, <<3, 3>>)
      PROVE  /\ Safe(j, Avx2Conv3x3(j)) /\ Safe(j, Sse2Conv3x3(j)) /\ Safe(j, NeonConv3x3(j))
             /\ Safe(j, ScalarConv3x3(j))
  <2>1. \A lanes \in {1, Avx, Sse} : SpreadSafe(j, Unit3x3(j, lanes))
    BY <1>4, CentredSafe
  <2>2. GatherSafe(j, UnitTile(j, 4, Avx))
    BY <1>4, UnitTileSafe
  <2> QED
    BY <1>1, <2>1, <2>2 DEF Safe, Avx2Conv3x3, Avx2Conv3x3Four, Avx2Conv3x3One, Sse2Conv3x3,
                            NeonConv3x3, ScalarConv3x3
<1>5. ASSUME Centre(j, <<7, 7>>)
      PROVE  Safe(j, IF j.oc % 4 = 0 THEN Avx2Conv7x7Four(j) ELSE Avx2Conv7x7One(j))
  <2>1. GatherSafe(j, WideTile(j, 3))
    BY <1>1, <1>5, WideTileSafe
  <2>2. SpreadSafe(j, Spread(j, 1, Avx, 1, Centred(j.h, 3), Centred(j.w, 3)))
    BY <1>1, <1>5, CentredSafe
  <2> QED
    BY <2>1, <2>2 DEF Safe, Avx2Conv7x7Four, Avx2Conv7x7One
<1>6. ASSUME Centre(j, <<5, 5>>)
      PROVE  Safe(j, IF j.oc % 4 = 0 THEN Avx2Conv5x5Four(j) ELSE Avx2Conv5x5One(j))
  <2>1. GatherSafe(j, WideTile(j, 2))
    BY <1>1, <1>6, WideTileSafe
  <2>2. SpreadSafe(j, Spread(j, 1, Avx, 1, Centred(j.h, 2), Centred(j.w, 2)))
    BY <1>1, <1>6, CentredSafe
  <2> QED
    BY <2>1, <2>2 DEF Safe, Avx2Conv5x5Four, Avx2Conv5x5One
<1>7. ASSUME Shaped(j, <<2, 2>>, <<1, 1>>, <<0, 0>>, <<1, 1>>)
      PROVE  Safe(j, Avx2Conv2x2(j)) /\ Safe(j, Sse2Conv2x2(j)) /\ Safe(j, ScalarConv2x2(j))
  <2>1. \A lanes \in {1, Avx, Sse} : \A g : SpreadSafe(j, PadEnd2x2(j, g, lanes))
    BY <1>7, OtherSpreadsSafe
  <2> QED
    BY <1>1, <2>1 DEF Safe, Avx2Conv2x2, Avx2Conv2x2Four, Sse2Conv2x2, Sse2Conv2x2Four, ScalarConv2x2
<1>8. ASSUME Shaped(j, <<3, 3>>, <<2, 2>>, <<1, 1>>, <<1, 1>>)
      PROVE  /\ Safe(j, Avx2Conv3x3Stride2(j)) /\ Safe(j, Sse2Conv3x3Stride2(j))
             /\ Safe(j, ScalarConv3x3Stride2(j))
  <2>1. /\ SpreadSafe(j, ScalarConv3x3Stride2(j)) /\ SpreadSafe(j, Stream(j, Sse))
        /\ SpreadSafe(j, Stream(j, Avx))
    BY <1>1, <1>8, OtherSpreadsSafe
  <2>2. \A g : GatherSafe(j, Stride2Tile(j, g, Stride2Vectors(j, Avx)))
    BY <1>8, Stride2TileSafe
  <2>3. Avx2Conv3x3Stride2(j) \in {Avx2Conv3x3Stride2Eight(j), Avx2Conv3x3Stride2Four(j),
                                   Avx2Conv3x3Stride2Stream(j), Avx2Conv3x3Stride2One(j)}
    <3>1. (j.oc % 8 = 4 \/ j.oc % 8 = 0 <=> j.oc % 4 = 0) /\ (j.ic > 4 <=> ~(j.ic <= 4))
      OBVIOUS
    <3> QED
      BY <3>1, Zenon DEF Avx2Conv3x3Stride2
  <2> QED
    BY <2>1, <2>2, <2>3 DEF Safe, Avx2Conv3x3Stride2Eight, Avx2Conv3x3Stride2Four,
       Avx2Conv3x3Stride2Stream, Avx2Conv3x3Stride2One, Sse2Conv3x3Stride2
<1>9. Safe(j, General(j))
  BY GeneralSafe DEF Safe
<1>10. Centre(j, <<3, 3>>) =>
         Safe(j, Pick(l, Avx2Conv3x3(j), Sse2Conv3x3(j), NeonConv3x3(j), ScalarConv3x3(j)))
  BY <1>4, PickSafe
<1>11. Shaped(j, <<2, 2>>, <<1, 1>>, <<0, 0>>, <<1, 1>>) =>
         Safe(j, Pick(l, Avx2Conv2x2(j), Sse2Conv2x2(j), ScalarConv2x2(j), ScalarConv2x2(j)))
  BY <1>7, PickSafe
<1>12. Shaped(j, <<3, 3>>, <<2, 2>>, <<1, 1>>, <<1, 1>>) =>
         Safe(j, Pick(l, Avx2Conv3x3Stride2(j), Sse2Conv3x3Stride2(j),
                      ScalarConv3x3Stride2(j), ScalarConv3x3Stride2(j)))
  BY <1>8, PickSafe
<1> QED
  BY <1>0, <1>2, <1>3, <1>5, <1>6, <1>9, <1>10, <1>11, <1>12, Zenon

LEMMA ConvolutionSafe ==
  ASSUME NEW j, Shape(j), j.op = "conv", j.oc \in Nat, j.ic \in Nat, NEW l \in AllLevels
  PROVE  Safe(j, Conv2d(j, l))
<1>1. \/ /\ Shaped(j, <<1, 1>>, <<1, 1>>, <<0, 0>>, <<0, 0>>)
         /\ Conv2d(j, l) =
              Pick(l, Avx2Conv1x1(j), Sse2Conv1x1(j), ScalarConv1x1(j), ScalarConv1x1(j))
      \/ Conv2d(j, l) \in {DepthwiseConv2d(j, l), DenseConv2d(j, l), General(j)}
  BY DEF Conv2d
<1>2. ASSUME Shaped(j, <<1, 1>>, <<1, 1>>, <<0, 0>>, <<0, 0>>)
      PROVE  Safe(j, Avx2Conv1x1(j)) /\ Safe(j, Sse2Conv1x1(j)) /\ Safe(j, ScalarConv1x1(j))
  <2>1. \A lanes \in {1, Avx, Sse} : SpreadSafe(j, Conv1x1(j, lanes))
    BY <1>2, PointwiseSafe
  <2> QED
    BY <2>1 DEF Safe, Avx2Conv1x1, Sse2Conv1x1, ScalarConv1x1
<1>3. /\ Safe(j, DepthwiseConv2d(j, l)) /\ Safe(j, DenseConv2d(j, l)) /\ Safe(j, General(j))
  BY DepthwiseSafe, DenseSafe, GeneralSafe DEF Safe
<1> QED
  BY <1>1, <1>2, <1>3, PickSafe

-----------------------------------------------------------------------------
(* The kernel of the current block.                                        *)

LEMMA HereShape ==
  ASSUME StaticInv, SliceRight
  PROVE  /\ Shape(Here) /\ Here.oc \in Nat /\ Here.ic \in Nat /\ level \in AllLevels
         /\ \A a, o, k : Reach(Here, a, o, k) = Place(a, o, k)
<1>1. /\ Here.op = job.op /\ Here.k = job.k /\ Here.s = job.s /\ Here.d = job.d
      /\ Here.p = job.p /\ Here.q = job.q /\ Here.h = job.h /\ Here.w = job.w
      /\ Here.oh = job.oh /\ Here.ow = job.ow
      /\ Here.oc \in Nat /\ Here.ic \in Nat /\ level \in AllLevels
  BY HereFacts DEF SliceRight
<1>2. Shape(job)
  BY JobsAssumption DEF StaticInv, Shape
<1>3. OutputSize(Here) = OutputSize(job)
  BY <1>1 DEF OutputSize
<1>4. Shape(Here)
  <2>1. PICK i : i = Here
    OBVIOUS
  <2> QED
    BY <1>1, <1>2, <1>3, <2>1, Zenon DEF Shape
<1> QED
  BY <1>1, <1>4 DEF Reach, Place

(* Kernels read inside the plane they see, which is that of the slice,     *)
(* whatever is left of a block.                                            *)
KernelRight(kernel) ==
  /\ kernel.kind \in {"spread", "gather", "scatter"}
  /\ kernel.kind = "spread" => SpreadSafe(Here, kernel)
  /\ kernel.kind = "gather" => GatherSafe(Here, kernel)
  /\ kernel.kind = "scatter" => /\ kernel.h = job.h /\ kernel.w = job.w
                                /\ kernel.lanes \in Nat \ {0}

LEMMA KernelIs ==
  ASSUME StaticInv, SliceRight, NEW v
  PROVE  /\ KernelRight(KernelFor(v))
         /\ KernelFor(v).h = KernelFor(1).h /\ KernelFor(v).w = KernelFor(1).w
         /\ Spare(KernelFor(v)) = Spare(KernelFor(1))
<1>1. /\ Shape(Here) /\ Here.oc \in Nat /\ Here.ic \in Nat /\ level \in AllLevels
      /\ Here.op = job.op /\ Here.h = job.h /\ Here.w = job.w
  BY HereShape, HereFacts
<1>2. packed \in {"none", "1x1", "3x3"} /\ (packed = "3x3" => level = "avx2")
  BY JobFacts
<1>3. \A kernel : Safe(Here, kernel) => KernelRight(kernel)
  BY DEF Safe, SpreadSafe, GatherSafe, KernelRight
<1>4. CASE job.op # "conv"
  <2>1. KernelFor(v) = ConvTranspose2d(Here, level) /\ KernelFor(1) = ConvTranspose2d(Here, level)
    BY <1>4, Zenon DEF KernelFor
  <2>2. ConvTranspose2d(Here, level) \in
          {Pick(level, Avx2ConvTranspose2x2(Here), Sse2ConvTranspose2x2(Here),
                NeonConvTranspose2x2(Here), ScalarConvTranspose2x2(Here)),
           GeneralConvTranspose(Here)}
    BY Zenon DEF ConvTranspose2d
  <2>3. Pick(level, Avx2ConvTranspose2x2(Here), Sse2ConvTranspose2x2(Here),
             NeonConvTranspose2x2(Here), ScalarConvTranspose2x2(Here)) \in
          {Avx2ConvTranspose2x2(Here), Sse2ConvTranspose2x2(Here),
           NeonConvTranspose2x2(Here), ScalarConvTranspose2x2(Here)}
    BY <1>1 DEF Pick, AllLevels
  <2>4. \A lanes \in {1, Avx, Sse} : \A biased :
           /\ Scatter(Here, lanes, biased).kind = "scatter"
           /\ Scatter(Here, lanes, biased).h = job.h /\ Scatter(Here, lanes, biased).w = job.w
           /\ Scatter(Here, lanes, biased).lanes \in Nat \ {0}
    <3>1. {1, Avx, Sse} \subseteq Nat \ {0}
      BY LanesAssumption
    <3> QED
      BY <1>1, <3>1 DEF Scatter
  <2>5. \A lanes \in {1, Avx, Sse} : \A biased : KernelRight(Scatter(Here, lanes, biased))
    BY <2>4 DEF KernelRight
  <2>6. 1 \in {1, Avx, Sse} /\ Avx \in {1, Avx, Sse} /\ Sse \in {1, Avx, Sse}
    OBVIOUS
  <2>7. /\ KernelRight(Avx2ConvTranspose2x2(Here)) /\ KernelRight(Sse2ConvTranspose2x2(Here))
        /\ KernelRight(NeonConvTranspose2x2(Here)) /\ KernelRight(ScalarConvTranspose2x2(Here))
        /\ KernelRight(GeneralConvTranspose(Here))
    BY <2>5, <2>6, Zenon DEF Avx2ConvTranspose2x2, Sse2ConvTranspose2x2, NeonConvTranspose2x2,
                             ScalarConvTranspose2x2, GeneralConvTranspose
  <2> QED
    BY <2>1, <2>2, <2>3, <2>7
<1>5. CASE job.op = "conv" /\ packed = "none"
  <2>1. KernelFor(v) = Conv2d(Here, level) /\ KernelFor(1) = Conv2d(Here, level)
    BY <1>5, Zenon DEF KernelFor
  <2>2. Safe(Here, Conv2d(Here, level))
    BY <1>1, <1>5, ConvolutionSafe
  <2> QED
    BY <1>3, <2>1, <2>2
<1>6. CASE job.op = "conv" /\ packed = "1x1"
  <2>1. \A u : KernelFor(u) = PackedConv1x1(Here, level, slice.fma, u)
    BY <1>6, Zenon DEF KernelFor
  <2>2. Shaped(Here, <<1, 1>>, <<1, 1>>, <<0, 0>>, <<0, 0>>)
    <3>1. SessionPacks1x1(job, level) \/ ProgramPacks1x1(job, level)
      BY <1>6, Zenon DEF StaticInv, PackedLayout
    <3>2. Packable(job, <<1, 1>>, <<1, 1>>, <<0, 0>>)
      BY <3>1 DEF SessionPacks1x1, ProgramPacks1x1
    <3> QED
      BY <3>2, HereFacts DEF Packable, Shaped
  <2> DEFINE Fine(kernel) == /\ GatherSafe(Here, kernel)
                             /\ kernel.h = 1 /\ kernel.w = job.h * job.w /\ Spare(kernel) = 0
  <2>3. ASSUME NEW u, NEW lanes \in {1, Avx, Sse}, NEW wide \in BOOLEAN
        PROVE  Fine(Packed1x1(Here, u, wide, lanes))
    <3>1. PICK kernel : kernel = Packed1x1(Here, u, wide, lanes)
      OBVIOUS
    <3>2. /\ GatherSafe(Here, kernel) /\ kernel.h = 1 /\ kernel.w = job.h * job.w
          /\ kernel.span = 1
      BY <1>1, <2>2, <3>1, Packed1x1Safe
    <3> QED
      BY <3>1, <3>2 DEF Spare
  <2> HIDE DEF Fine
  <2>4. \A u : Fine(PackedConv1x1(Here, level, slice.fma, u))
    <3> SUFFICES ASSUME NEW u PROVE Fine(PackedConv1x1(Here, level, slice.fma, u))
      OBVIOUS
    <3>0. /\ 1 \in {1, Avx, Sse} /\ Avx \in {1, Avx, Sse} /\ Sse \in {1, Avx, Sse}
          /\ TRUE \in BOOLEAN /\ FALSE \in BOOLEAN
      OBVIOUS
    <3>1. slice.fma \in {0, 4, 8}
      BY DEF SliceRight
    <3>2. PackedConv1x1(Here, level, slice.fma, u) \in
            {Avx2FmaPackedConv1x1Two(Here, u), Avx2FmaPackedConv1x1(Here, u),
             LsxPackedConv1x1(Here, u), Avx2PackedConv1x1(Here, u), Sse2PackedConv1x1(Here, u),
             NeonPackedConv1x1(Here, u), ScalarPackedConv1x1(Here, u)}
      BY <1>1, <3>1 DEF PackedConv1x1, Pick, AllLevels
    <3>3. /\ Fine(Avx2FmaPackedConv1x1(Here, u)) /\ Fine(LsxPackedConv1x1(Here, u))
          /\ Fine(Avx2PackedConv1x1(Here, u)) /\ Fine(Sse2PackedConv1x1(Here, u))
          /\ Fine(NeonPackedConv1x1(Here, u)) /\ Fine(ScalarPackedConv1x1(Here, u))
      BY <2>3, <3>0, Zenon DEF Avx2FmaPackedConv1x1, LsxPackedConv1x1, Avx2PackedConv1x1,
                  Sse2PackedConv1x1, NeonPackedConv1x1, ScalarPackedConv1x1
    <3>4. Fine(Avx2FmaPackedConv1x1Two(Here, u))
      <4>1. Fine(Packed1x1(Here, 8, FALSE, Avx))
        BY <2>3, <3>0, Zenon
      <4> QED
        BY <3>3, <4>1, Zenon DEF Avx2FmaPackedConv1x1Two
    <3> QED
      BY <3>2, <3>3, <3>4
  <2>5. Fine(KernelFor(v)) /\ Fine(KernelFor(1))
    BY <2>1, <2>4
  <2> QED
    BY <1>3, <2>5 DEF Fine, Safe
<1>7. CASE job.op = "conv" /\ packed = "3x3"
  <2>1. \A u : KernelFor(u) = PackedConv3x3(Here, level, slice.fma, u)
    BY <1>7, Zenon DEF KernelFor
  <2>2. level = "avx2" /\ Shaped(Here, <<3, 3>>, <<2, 2>>, <<1, 1>>, <<1, 1>>)
    <3>1. SessionPacks3x3(job, level)
      BY <1>7, Zenon DEF StaticInv, PackedLayout
    <3> QED
      BY <3>1, HereFacts DEF SessionPacks3x3, Packable, Shaped
  <2>3. Here.oc % 8 = 0
    BY <1>7, HereFacts DEF SliceRight
  <2>4. PackedConv3x3(Here, level, slice.fma, v) = PackedConv3x3(Here, level, slice.fma, 1)
    BY <2>2, <2>3 DEF PackedConv3x3
  <2>5. PackedConv3x3(Here, level, slice.fma, v) = Stride2Tile(Here, 8, Stride2Vectors(Here, Avx))
    BY <2>2, <2>3 DEF PackedConv3x3, Avx2FmaPackedConv3x3, Avx2PackedConv3x3
  <2>6. Safe(Here, Stride2Tile(Here, 8, Stride2Vectors(Here, Avx)))
    BY <1>1, <1>7, <2>2, Stride2TileSafe DEF Safe
  <2> QED
    BY <1>3, <2>1, <2>4, <2>5, <2>6
<1> QED
  BY <1>2, <1>4, <1>5, <1>6, <1>7

(* The taps are those of the window.                                       *)
LEMMA TapFacts ==
  ASSUME StaticInv, SliceRight, at.base \in Nat, at.base < slice.count
  PROVE  /\ Len(Taps) \in Nat
         /\ \A t \in 1 .. Len(Taps) : /\ Taps[t][2] \in 0 .. Here.k[1] - 1
                                      /\ Taps[t][3] \in 0 .. Here.k[2] - 1
<1>1. /\ job.k[1] \in Nat \ {0} /\ job.k[2] \in Nat \ {0} /\ Here.k = job.k /\ Here.ic \in Nat
      /\ job.groups \in Nat \ {0} /\ slice.count \in Nat
  BY JobsAssumption, HereFacts DEF StaticInv, SliceRight
<1>2. Here.groups \in Nat \ {0}
  <2>1. slice.count # 0
    BY <1>1
  <2> QED
    BY <1>1, <2>1 DEF Here, SliceJob
<1>3. PICK per, window, kh, kw : /\ per = Here.ic \div Here.groups /\ kh = job.k[1] /\ kw = job.k[2]
                                 /\ window = kh * kw
  OBVIOUS
<1>4. per \in Nat /\ window \in Nat /\ kh \in Nat \ {0} /\ kw \in Nat \ {0}
  <2>1. Here.ic \div Here.groups \in Nat
    BY <1>1, <1>2, DivMod
  <2>2. job.k[1] * job.k[2] \in Nat
    <3>1. job.k[1] \in Nat /\ job.k[2] \in Nat
      BY <1>1
    <3> QED
      BY <3>1, Products
  <2> QED
    BY <1>1, <1>3, <2>1, <2>2
<1>5. Len(InputChannels) = per
  BY <1>3, <1>4 DEF InputChannels
<1>6. per * window \in Nat
  BY <1>4
<1>7. PICK n : n = per * window
  OBVIOUS
<1>8. Taps = [i \in 1 .. n |-> <<InputChannels[1 + (i - 1) \div window],
                                ((i - 1) \div kw) % kh, (i - 1) % kw>>]
  BY <1>3, <1>5, <1>7 DEF Taps
<1>9. Len(Taps) = n
  BY <1>6, <1>7, <1>8
<1>10. ASSUME NEW t \in 1 .. n
       PROVE  Taps[t][2] \in 0 .. kh - 1 /\ Taps[t][3] \in 0 .. kw - 1
  <2>1. Taps[t] = <<InputChannels[1 + (t - 1) \div window], ((t - 1) \div kw) % kh, (t - 1) % kw>>
    BY <1>8
  <2>2. Taps[t][2] = ((t - 1) \div kw) % kh /\ Taps[t][3] = (t - 1) % kw
    BY <2>1
  <2>3. t - 1 \in Nat
    BY <1>6, <1>7
  <2>4. (t - 1) \div kw \in Nat /\ (t - 1) % kw \in 0 .. kw - 1
    BY <1>4, <2>3, DivMod
  <2>5. ((t - 1) \div kw) % kh \in 0 .. kh - 1
    BY <1>4, <2>4, DivMod
  <2> QED
    BY <2>2, <2>4, <2>5
<1> QED
  BY <1>1, <1>3, <1>6, <1>7, <1>9, <1>10

-----------------------------------------------------------------------------
(* Blocks and loops.                                                       *)

(* A group is what is left of the slice or less, and the next block begins *)
(* at a multiple of the slice's group.                                     *)
LEMMA GroupFits ==
  ASSUME StaticInv, SliceRight, at.base \in Nat, at.base < slice.count,
         at.base % KernelFor(1).group = 0
  PROVE  /\ Kernel.group \in Nat \ {0} /\ at.base + Kernel.group <= slice.count
         /\ (at.base + Kernel.group) % KernelFor(1).group = 0
<1>1. PICK v : v = IF Here.oc - at.base < Tile(packed) THEN Here.oc - at.base ELSE Tile(packed)
  OBVIOUS
<1>2. Kernel = KernelFor(v)
  BY <1>1 DEF Kernel
<1>3. v \in Nat \ {0} /\ at.base + v <= slice.count /\ slice.count \in Nat
  <2>1. Tile(packed) \in Nat \ {0} /\ Here.oc = slice.count /\ slice.count \in Nat
    BY JobFacts, HereFacts DEF SliceRight
  <2> QED
    BY <1>1, <2>1
<1>4. CASE \E g \in {1, 4, 8} : slice.count % g = 0 /\ \A u : KernelFor(u).group = g
  <2>1. PICK g \in {1, 4, 8} : slice.count % g = 0 /\ \A u : KernelFor(u).group = g
    BY <1>4
  <2>2. at.base % g = 0 /\ g % g = 0 /\ g \in Nat \ {0}
    BY <2>1
  <2>3. (at.base + g) % g = 0 /\ slice.count >= at.base + g
    BY <1>3, <2>1, <2>2, Multiples
  <2> QED
    BY <1>2, <2>1, <2>2, <2>3
<1>5. CASE \A u : KernelFor(u).group = u
  BY <1>2, <1>3, <1>5
<1> QED
  BY <1>4, <1>5, KernelGroup

LEMMA GroupIs ==
  ASSUME StaticInv, SliceRight
  PROVE  KernelFor(1).group \in {1, 4, 8}
BY KernelGroup

(* What a step that keeps the node and the slice leaves as it was.         *)
LEMMA SameSlice ==
  ASSUME job' = job, level' = level, packed' = packed, slice' = slice
  PROVE  /\ StaticInv' = StaticInv /\ Here' = Here /\ SliceRight' = SliceRight
         /\ \A v : KernelFor(v)' = KernelFor(v)
         /\ \A a, o, k : Place(a, o, k)' = Place(a, o, k)
         /\ at'.base = at.base => Kernel' = Kernel /\ InputChannels' = InputChannels /\ Taps' = Taps
<1>1. StaticInv' = StaticInv /\ SliceRight' = SliceRight
  BY DEF StaticInv, SliceRight
<1>2. Here' = Here
  BY DEF Here
<1>3. \A v : KernelFor(v)' = KernelFor(v)
  BY <1>2, Zenon DEF KernelFor
<1>4. \A a, o, k : Place(a, o, k)' = Place(a, o, k)
  BY DEF Place
<1>5. ASSUME at'.base = at.base PROVE Kernel' = Kernel /\ InputChannels' = InputChannels /\ Taps' = Taps
  <2>1. Kernel' = Kernel
    BY <1>2, <1>3, <1>5 DEF Kernel
  <2>2. InputChannels' = InputChannels
    BY <1>2, <1>5 DEF InputChannels
  <2> QED
    BY <2>1, <2>2 DEF Taps
<1> QED
  BY <1>1, <1>2, <1>3, <1>4, <1>5

LoopFields == {"base", "tap", "y", "x"}

(* The loops of a block, after one of them moved.                          *)
LEMMA Moved ==
  ASSUME NEW r, DOMAIN r = LoopFields, NEW t, NEW y, NEW x
  PROVE  /\ LET m == [r EXCEPT !.tap = t]
            IN  DOMAIN m = LoopFields /\ m.base = r.base /\ m.tap = t /\ m.y = r.y /\ m.x = r.x
         /\ LET m == [r EXCEPT !.x = x]
            IN  DOMAIN m = LoopFields /\ m.base = r.base /\ m.tap = r.tap /\ m.y = r.y /\ m.x = x
         /\ LET m == [r EXCEPT !.y = y, !.x = x]
            IN  DOMAIN m = LoopFields /\ m.base = r.base /\ m.tap = r.tap /\ m.y = y /\ m.x = x
         /\ LET m == [r EXCEPT !.x = x, !.y = y]
            IN  DOMAIN m = LoopFields /\ m.base = r.base /\ m.tap = r.tap /\ m.y = y /\ m.x = x
         /\ LET m == [r EXCEPT !.tap = t, !.y = y, !.x = x]
            IN  DOMAIN m = LoopFields /\ m.base = r.base /\ m.tap = t /\ m.y = y /\ m.x = x
         /\ LET m == [r EXCEPT !.x = x, !.y = y, !.tap = t]
            IN  DOMAIN m = LoopFields /\ m.base = r.base /\ m.tap = t /\ m.y = y /\ m.x = x
BY DEF LoopFields

(* The loops are at an output of the ranges of the current tap.            *)
InRanges(kernel, r) ==
  r.tap \in 1 .. Len(Taps) =>
     /\ r.y \in Int /\ r.x \in Int
     /\ RowsOf(kernel, r.tap)[1] <= r.y /\ r.y < RowsOf(kernel, r.tap)[2]
     /\ ColsOf(kernel, r.tap)[1] <= r.x /\ r.x < ColsOf(kernel, r.tap)[2]

(* The ranges of a tap are numbers and their taps are inside.              *)
LEMMA TapInside ==
  ASSUME StaticInv, SliceRight, at.base \in Nat, at.base < slice.count,
         NEW kernel, SpreadSafe(Here, kernel), NEW t \in 1 .. Len(Taps)
  PROVE  /\ RowsOf(kernel, t)[1] \in Int /\ RowsOf(kernel, t)[2] \in Int
         /\ ColsOf(kernel, t)[1] \in Int /\ ColsOf(kernel, t)[2] \in Int
         /\ \A o \in Int : RowsOf(kernel, t)[1] <= o /\ o < RowsOf(kernel, t)[2] =>
               Place(1, o, Taps[t][2]) \in 0 .. kernel.h - 1
         /\ \A o \in Int : ColsOf(kernel, t)[1] <= o /\ o < ColsOf(kernel, t)[2] =>
               Place(2, o, Taps[t][3]) \in 0 .. kernel.w - 1
<1>1. Taps[t][2] \in 0 .. Here.k[1] - 1 /\ Taps[t][3] \in 0 .. Here.k[2] - 1
  BY TapFacts
<1>2. /\ Inside(Here, 1, kernel.h, Taps[t][2], RowsOf(kernel, t))
      /\ Inside(Here, 2, kernel.w, Taps[t][3], ColsOf(kernel, t))
  BY <1>1 DEF SpreadSafe, RowsOf, ColsOf
<1>3. \A a, o, k : Reach(Here, a, o, k) = Place(a, o, k)
  BY HereShape
<1> QED
  BY <1>2, <1>3 DEF Inside

LEMMA EnterRight ==
  ASSUME StaticInv, SliceRight, at.base \in Nat, at.base < slice.count, DOMAIN at = LoopFields,
         NEW kernel, SpreadSafe(Here, kernel), NEW t \in Nat
  PROVE  /\ DOMAIN Enter(kernel, t) = LoopFields /\ Enter(kernel, t).base = at.base
         /\ InRanges(kernel, Enter(kernel, t))
<1> DEFINE next == {u \in t .. Len(Taps) : /\ NonEmpty(RowsOf(kernel, u))
                                           /\ NonEmpty(ColsOf(kernel, u))}
           u == Least(next)
<1>1. Len(Taps) \in Nat
  BY TapFacts
<1>2. CASE next = {}
  <2>1. Enter(kernel, t) = [at EXCEPT !.tap = Len(Taps) + 1]
    BY <1>2 DEF Enter
  <2>2. /\ DOMAIN Enter(kernel, t) = LoopFields /\ Enter(kernel, t).base = at.base
        /\ Enter(kernel, t).tap = Len(Taps) + 1
    BY <2>1, Moved
  <2>3. Len(Taps) + 1 \notin 1 .. Len(Taps)
    BY <1>1
  <2> QED
    BY <2>2, <2>3 DEF InRanges
<1>3. CASE next # {}
  <2>1. u \in next
    <3>1. next \in SUBSET (0 .. Len(Taps))
      BY <1>1
    <3> HIDE DEF next
    <3> QED
      BY <1>1, <1>3, <3>1, Extremes
  <2>2. Enter(kernel, t) =
          [at EXCEPT !.tap = u, !.y = RowsOf(kernel, u)[1], !.x = ColsOf(kernel, u)[1]]
    BY <1>3, Zenon DEF Enter
  <2>3. /\ u \in t .. Len(Taps) /\ NonEmpty(RowsOf(kernel, u)) /\ NonEmpty(ColsOf(kernel, u))
    BY <2>1
  <2> HIDE DEF u, next
  <2>4. /\ DOMAIN Enter(kernel, t) = LoopFields /\ Enter(kernel, t).base = at.base
        /\ Enter(kernel, t).tap = u /\ Enter(kernel, t).y = RowsOf(kernel, u)[1]
        /\ Enter(kernel, t).x = ColsOf(kernel, u)[1]
    BY <2>2, Moved
  <2>5. ASSUME u \in 1 .. Len(Taps)
        PROVE  InRanges(kernel, Enter(kernel, t))
    <3>1. /\ RowsOf(kernel, u)[1] \in Int /\ ColsOf(kernel, u)[1] \in Int
          /\ RowsOf(kernel, u)[2] \in Int /\ ColsOf(kernel, u)[2] \in Int
      BY <2>5, TapInside
    <3> QED
      BY <2>3, <2>4, <3>1 DEF InRanges, NonEmpty
  <2> QED
    BY <2>4, <2>5 DEF InRanges
<1> QED
  BY <1>2, <1>3

-----------------------------------------------------------------------------
(* The invariant.                                                          *)

(* The slices that are left are of one cut, and the current one is of it.  *)
CutInv ==
  \E n \in WorkerCounts(job, packed) :
     /\ todo \subseteq Slices(job, packed, n)
     /\ slice # Unset =>
           [begin |-> slice.begin, count |-> slice.count] \in Slices(job, packed, n) \ todo

(* The blocks of a slice begin at multiples of its group of channels.      *)
BlockInv ==
  /\ DOMAIN at = LoopFields /\ at.base \in Nat
  /\ slice # Unset => /\ SliceRight
                      /\ at.base <= slice.count /\ at.base % KernelFor(1).group = 0
  /\ plan # Unset => slice # Unset /\ plan = Kernel /\ at.base < slice.count

(* A channel is computed, from its own bias and weights, or one of the     *)
(* slices or the rest of the current one holds it.                         *)
Waiting(c) ==
  \/ \E s \in todo : Within(c, s)
  \/ slice # Unset /\ slice.begin + at.base <= c /\ c < slice.begin + slice.count

Computed(c) == out[c] # Uncomputed /\ out[c].bias = c /\ out[c].weights = c

OutInv ==
  /\ DOMAIN out = 0 .. job.oc - 1
  /\ \A c \in 0 .. job.oc - 1 : IF Waiting(c) THEN out[c] = Uncomputed ELSE Computed(c)

(* The loops are inside the ranges of the kernel.                          *)
LoopInv ==
  /\ slice # Unset /\ plan = Unset /\ at.base < slice.count /\ Kernel.kind # "spread" =>
        at.y = 0 /\ at.x = 0
  /\ plan # Unset /\ plan.kind = "spread" => InRanges(plan, at)
  /\ plan # Unset /\ plan.kind = "gather" => at.y \in Nat /\ at.x \in 0 .. plan.ow - 1
  /\ plan # Unset /\ plan.kind = "scatter" => at.y \in 0 .. plan.h - 1 /\ at.x \in 0 .. plan.w - 1

(* What a slice has loaded is inside the plane its kernels see.            *)
LoadInv ==
  slice # Unset /\ load # Unset =>
     /\ 0 <= load.rows[1] /\ load.rows[2] < KernelFor(1).h
     /\ 0 <= load.cols[1] /\ load.cols[2] < KernelFor(1).w + Spare(KernelFor(1))

IInv == StaticInv /\ CutInv /\ BlockInv /\ OutInv /\ LoopInv /\ LoadInv

LEMMA InitRight == RunInit => IInv
<1> SUFFICES ASSUME RunInit PROVE IInv
  OBVIOUS
<1> USE DEF RunInit
<1>1. StaticInv
  BY DEF StaticInv
<1>2. PICK n \in WorkerCounts(job, packed) : todo = Slices(job, packed, n)
  BY Zenon
<1>3. CutInv
  BY <1>2, Zenon DEF CutInv
<1>4. BlockInv
  BY DEF BlockInv, Top, LoopFields
<1>5. OutInv
  <2>1. \A c \in 0 .. job.oc - 1 : \E s \in todo : Within(c, s)
    BY <1>1, <1>2, SliceFacts
  <2> QED
    BY <2>1 DEF OutInv, Waiting
<1>6. LoopInv /\ LoadInv
  BY DEF LoopInv, LoadInv
<1> QED
  BY <1>1, <1>3, <1>4, <1>5, <1>6 DEF IInv

(* A channel of the current slice is in no other one.                      *)
LEMMA Alone ==
  ASSUME StaticInv, CutInv, slice # Unset, NEW c \in Nat, Within(c, slice), NEW s \in todo
  PROVE  ~ Within(c, s)
<1>1. PICK n \in WorkerCounts(job, packed) :
        /\ todo \subseteq Slices(job, packed, n)
        /\ [begin |-> slice.begin, count |-> slice.count] \in Slices(job, packed, n) \ todo
  BY DEF CutInv
<1>2. PICK r : r = [begin |-> slice.begin, count |-> slice.count]
  OBVIOUS
<1>3. /\ r \in Slices(job, packed, n) /\ s \in Slices(job, packed, n) /\ s # r
      /\ r.begin = slice.begin /\ r.count = slice.count
  BY <1>1, <1>2
<1>4. /\ r.begin \in Nat /\ r.count \in Nat /\ s.begin \in Nat /\ s.count \in Nat
      /\ s.begin + s.count <= r.begin \/ r.begin + r.count <= s.begin
  BY <1>3, SliceFacts
<1> QED
  BY <1>3, <1>4 DEF Within

(* A step of a loop keeps what the slices and the blocks have.             *)
LEMMA LoopKeeps ==
  ASSUME IInv, UNCHANGED <<fixed, out, todo, slice, plan>>, plan # Unset,
         at'.base = at.base, DOMAIN at' = LoopFields
  PROVE  StaticInv' /\ CutInv' /\ BlockInv' /\ OutInv'
<1> USE DEF IInv
<1>1. /\ job' = job /\ level' = level /\ packed' = packed /\ slice' = slice /\ plan' = plan
      /\ todo' = todo /\ out' = out
  BY DEF fixed
<1>2. /\ StaticInv' = StaticInv /\ SliceRight' = SliceRight /\ KernelFor(1)' = KernelFor(1)
      /\ Kernel' = Kernel
  BY <1>1, SameSlice
<1>3. CutInv'
  BY <1>1 DEF CutInv
<1>4. BlockInv'
  BY <1>1, <1>2 DEF BlockInv
<1>5. \A c : Waiting(c)' = Waiting(c) /\ Computed(c)' = Computed(c)
  BY <1>1 DEF Waiting, Computed
<1>6. OutInv'
  BY <1>1, <1>5 DEF OutInv
<1> QED
  BY <1>2, <1>3, <1>4, <1>6

(* The kernel of a running block.                                          *)
LEMMA PlanRight ==
  ASSUME IInv, plan # Unset
  PROVE  /\ slice # Unset /\ SliceRight /\ at.base \in Nat /\ at.base < slice.count
         /\ KernelRight(plan) /\ plan.h = KernelFor(1).h /\ plan.w = KernelFor(1).w
         /\ Spare(plan) = Spare(KernelFor(1))
<1>1. /\ slice # Unset /\ SliceRight /\ at.base \in Nat /\ at.base < slice.count /\ plan = Kernel
  BY DEF IInv, BlockInv
<1>2. PICK v : plan = KernelFor(v)
  BY <1>1 DEF Kernel
<1>3. StaticInv
  BY DEF IInv
<1> QED
  BY <1>1, <1>2, <1>3, KernelIs

(* What one step of a kernel loads.                                        *)
Loads(kernel, r) ==
  /\ 0 <= r.rows[1] /\ r.rows[2] < kernel.h
  /\ 0 <= r.cols[1] /\ r.cols[2] < kernel.w + Spare(kernel)

LEMMA LoadKept ==
  ASSUME IInv, UNCHANGED <<fixed, out, todo, slice, plan>>, plan # Unset,
         load' = load \/ Loads(plan, load')
  PROVE  LoadInv'
<1>1. /\ job' = job /\ level' = level /\ packed' = packed /\ slice' = slice
  BY DEF fixed
<1>2. KernelFor(1)' = KernelFor(1)
  BY <1>1, SameSlice
<1>3. LoadInv
  BY DEF IInv
<1>4. CASE load' = load
  BY <1>1, <1>2, <1>3, <1>4 DEF LoadInv
<1>5. CASE Loads(plan, load')
  <2>1. Loads(KernelFor(1), load')
    BY <1>5, PlanRight DEF Loads
  <2> QED
    BY <1>2, <2>1 DEF Loads, LoadInv
<1> QED
  BY <1>4, <1>5

(* One tap added to the outputs of a row.                                  *)
LEMMA TapStep ==
  ASSUME IInv, Running("spread"), at.tap \in 1 .. Len(Taps), NEW n \in Nat \ {0}, NEW floats \in Nat,
         AddTap(n, floats),
         Place(2, at.x, Taps[at.tap][3]) + floats - 1 < plan.w
  PROVE  IInv'
<1>1. plan # Unset /\ plan.kind = "spread"
  BY DEF Running
<1>2. /\ slice # Unset /\ SliceRight /\ at.base \in Nat /\ at.base < slice.count
      /\ SpreadSafe(Here, plan)
  BY <1>1, PlanRight DEF KernelRight
<1>3. StaticInv /\ DOMAIN at = LoopFields /\ InRanges(plan, at)
  BY <1>1 DEF IInv, BlockInv, LoopInv
<1>4. UNCHANGED <<fixed, out, todo, slice, plan>> /\ at' = Advance(at.x + n)
  BY DEF AddTap
<1>5. /\ job' = job /\ level' = level /\ packed' = packed /\ slice' = slice /\ plan' = plan
  BY <1>4 DEF fixed
<1>6. PICK t, k2, k3 : t = at.tap /\ k2 = Taps[at.tap][2] /\ k3 = Taps[at.tap][3]
  OBVIOUS
<1>7. /\ RowsOf(plan, t)[1] \in Int /\ RowsOf(plan, t)[2] \in Int
      /\ ColsOf(plan, t)[1] \in Int /\ ColsOf(plan, t)[2] \in Int
      /\ \A o \in Int : RowsOf(plan, t)[1] <= o /\ o < RowsOf(plan, t)[2] =>
            Place(1, o, Taps[t][2]) \in 0 .. plan.h - 1
      /\ \A o \in Int : ColsOf(plan, t)[1] <= o /\ o < ColsOf(plan, t)[2] =>
            Place(2, o, Taps[t][3]) \in 0 .. plan.w - 1
  BY <1>2, <1>3, <1>6, TapInside
<1>8. /\ at.y \in Int /\ at.x \in Int
      /\ RowsOf(plan, t)[1] <= at.y /\ at.y < RowsOf(plan, t)[2]
      /\ ColsOf(plan, t)[1] <= at.x /\ at.x < ColsOf(plan, t)[2]
  BY <1>3, <1>6 DEF InRanges
<1>9. DOMAIN at' = LoopFields /\ at'.base = at.base /\ InRanges(plan, at')
  <2>1. CASE at.x + n < ColsOf(plan, t)[2]
    <3>1. at' = [at EXCEPT !.x = at.x + n]
      BY <1>4, <1>6, <2>1 DEF Advance
    <3>2. /\ DOMAIN at' = LoopFields /\ at'.base = at.base /\ at'.tap = t
          /\ at'.y = at.y /\ at'.x = at.x + n
      BY <1>3, <1>6, <3>1, Moved
    <3> QED
      BY <1>7, <1>8, <2>1, <3>2 DEF InRanges
  <2>2. CASE ~ (at.x + n < ColsOf(plan, t)[2]) /\ at.y + 1 < RowsOf(plan, t)[2]
    <3>1. at' = [at EXCEPT !.y = at.y + 1, !.x = ColsOf(plan, t)[1]]
      BY <1>4, <1>6, <2>2 DEF Advance
    <3>2. /\ DOMAIN at' = LoopFields /\ at'.base = at.base /\ at'.tap = t
          /\ at'.y = at.y + 1 /\ at'.x = ColsOf(plan, t)[1]
      BY <1>3, <1>6, <3>1, Moved
    <3>3. PICK y, x, r, b, e : /\ y = at.y /\ x = at.x /\ r = RowsOf(plan, t)[1]
                               /\ b = ColsOf(plan, t)[1] /\ e = ColsOf(plan, t)[2]
      OBVIOUS
    <3>4. y \in Int /\ x \in Int /\ r \in Int /\ b \in Int /\ e \in Int /\ r <= y /\ b <= x /\ x < e
      BY <1>7, <1>8, <3>3, Zenon
    <3>5. y + 1 \in Int /\ r <= y + 1 /\ b <= b /\ b < e
      BY <3>4
    <3>6. /\ at.y + 1 \in Int /\ RowsOf(plan, t)[1] <= at.y + 1
          /\ ColsOf(plan, t)[1] <= ColsOf(plan, t)[1] /\ ColsOf(plan, t)[1] < ColsOf(plan, t)[2]
      BY <3>3, <3>5, Zenon
    <3> QED
      BY <1>7, <2>2, <3>2, <3>6, Zenon DEF InRanges
  <2>3. CASE ~ (at.x + n < ColsOf(plan, t)[2]) /\ ~ (at.y + 1 < RowsOf(plan, t)[2])
    <3>1. at' = Enter(plan, at.tap + 1)
      BY <1>4, <1>6, <2>3 DEF Advance
    <3>2. at.tap + 1 \in Nat
      <4>1. Len(Taps) \in Nat
        BY <1>2, <1>3, TapFacts
      <4> QED
        BY <4>1
    <3> QED
      BY <1>2, <1>3, <3>1, <3>2, EnterRight
  <2> QED
    BY <2>1, <2>2, <2>3
<1>10. LoopInv'
  <2>1. Taps' = Taps
    BY <1>5, <1>9, SameSlice
  <2>2. InRanges(plan, at)'
    BY <1>5, <1>9, <2>1 DEF InRanges, RowsOf, ColsOf
  <2> QED
    BY <1>1, <1>5, <2>2 DEF LoopInv
<1>11. LoadInv'
  <2>1. Place(1, at.y, k2) \in 0 .. plan.h - 1 /\ Place(2, at.x, k3) \in 0 .. plan.w - 1
    BY <1>6, <1>7, <1>8
  <2>2. load' = [rows |-> <<Place(1, at.y, k2), Place(1, at.y, k2)>>,
                 cols |-> <<Place(2, at.x, k3), Place(2, at.x, k3) + floats - 1>>]
    BY <1>6 DEF AddTap
  <2>3. /\ load'.rows[1] = Place(1, at.y, k2) /\ load'.rows[2] = Place(1, at.y, k2)
        /\ load'.cols[1] = Place(2, at.x, k3) /\ load'.cols[2] = Place(2, at.x, k3) + floats - 1
    BY <2>2
  <2>4. plan.h \in Nat /\ plan.w \in Nat /\ Spare(plan) = 0
    BY <1>1, <1>2 DEF SpreadSafe, Spare
  <2>5. Loads(plan, load')
    BY <1>6, <2>1, <2>3, <2>4 DEF Loads
  <2> QED
    BY <1>1, <1>4, <2>5, LoadKept
<1> QED
  BY <1>1, <1>4, <1>9, <1>10, <1>11, LoopKeeps DEF IInv

LEMMA SpreadVectorRight == IInv /\ SpreadVector => IInv'
<1> SUFFICES ASSUME IInv, SpreadVector PROVE IInv'
  OBVIOUS
<1>1. /\ Running("spread") /\ at.tap \in 1 .. Len(Taps) /\ VectorFits
      /\ AddTap(plan.lanes, plan.span * plan.lanes)
  BY DEF SpreadVector
<1>2. plan # Unset /\ plan.kind = "spread"
  BY <1>1 DEF Running
<1>3. /\ SliceRight /\ at.base \in Nat /\ at.base < slice.count /\ SpreadSafe(Here, plan)
  BY <1>2, PlanRight DEF KernelRight
<1>4. StaticInv /\ InRanges(plan, at)
  BY <1>2 DEF IInv, LoopInv
<1>5. PICK t, k, lanes, span : /\ t = at.tap /\ k = Taps[at.tap][3]
                               /\ lanes = plan.lanes /\ span = plan.span
  OBVIOUS
<1>6. /\ ColsOf(plan, t)[1] \in Int /\ ColsOf(plan, t)[2] \in Int
      /\ \A o \in Int : ColsOf(plan, t)[1] <= o /\ o < ColsOf(plan, t)[2] =>
            Place(2, o, k) \in 0 .. plan.w - 1
  BY <1>1, <1>3, <1>4, <1>5, TapInside
<1>7. at.x \in Int /\ ColsOf(plan, t)[1] <= at.x /\ at.x < ColsOf(plan, t)[2]
  BY <1>1, <1>4, <1>5 DEF InRanges
<1>8. /\ lanes \in Nat \ {0} /\ span \in {1, 2}
      /\ lanes # 1 /\ span = 1 => Here.s[2] = 1
  BY <1>3, <1>5 DEF SpreadSafe
<1>9. /\ at.x + lanes <= ColsOf(plan, t)[2]
      /\ span = 1 \/ Place(2, at.x, k) + span * lanes - 1 < plan.w
  BY <1>1, <1>5 DEF VectorFits
<1>10. Place(2, at.x, k) + span * lanes - 1 < plan.w
  <2>1. CASE span = 1
    <3>1. Place(2, at.x + (lanes - 1), k) \in 0 .. plan.w - 1
      <4>1. at.x + (lanes - 1) \in Int /\ at.x + (lanes - 1) < ColsOf(plan, t)[2]
            /\ ColsOf(plan, t)[1] <= at.x + (lanes - 1)
        BY <1>6, <1>7, <1>8, <1>9
      <4> QED
        BY <1>6, <4>1
    <3>2. Place(2, at.x, k) \in 0 .. plan.w - 1
      BY <1>6, <1>7
    <3>3. plan.w \in Nat
      BY <1>3 DEF SpreadSafe
    <3>4. Place(2, at.x + (lanes - 1), k) = Place(2, at.x, k) + (lanes - 1)
      <4>1. CASE lanes = 1
        <5>1. at.x + (lanes - 1) = at.x
          BY <1>7, <4>1
        <5>2. Place(2, at.x, k) \in Int
          BY <3>2, <3>3
        <5> QED
          BY <4>1, <5>1, <5>2
      <4>2. CASE lanes # 1
        <5>1. job.s[2] = 1
          BY <1>3, <1>4, <1>8, <2>1, <4>2, HereFacts
        <5>2. PICK p, d : p = job.p[2] /\ d = k * job.d[2]
          OBVIOUS
        <5>3. \A o : Place(2, o, k) = o * 1 - p + d
          BY <5>1, <5>2 DEF Place
        <5>4. p \in Nat
          BY <1>4, <5>2, JobsAssumption DEF StaticInv
        <5>5. d \in Int
          <6>1. k \in 0 .. Here.k[2] - 1 /\ job.d[2] \in Nat /\ Here.k = job.k /\ job.k[2] \in Nat
            BY <1>1, <1>3, <1>4, <1>5, TapFacts, HereFacts, JobsAssumption DEF StaticInv
          <6>2. k \in Int
            BY <6>1
          <6> QED
            BY <5>2, <6>1, <6>2
        <5> QED
          BY <1>7, <1>8, <5>3, <5>4, <5>5
      <4> QED
        BY <4>1, <4>2
    <3>5. span * lanes = lanes
      BY <1>8, <2>1
    <3> QED
      BY <1>8, <3>1, <3>2, <3>3, <3>4, <3>5
  <2>2. CASE span # 1
    BY <1>9, <2>2
  <2> QED
    BY <2>1, <2>2
<1>11. lanes \in Nat \ {0} /\ span * lanes \in Nat
  BY <1>8
<1> QED
  BY <1>1, <1>5, <1>10, <1>11, TapStep

LEMMA SpreadColumnRight == IInv /\ SpreadColumn => IInv'
<1> SUFFICES ASSUME IInv, SpreadColumn PROVE IInv'
  OBVIOUS
<1>1. Running("spread") /\ at.tap \in 1 .. Len(Taps) /\ AddTap(1, 1)
  BY DEF SpreadColumn
<1>2. plan # Unset /\ plan.kind = "spread"
  BY <1>1 DEF Running
<1>3. /\ SliceRight /\ at.base \in Nat /\ at.base < slice.count /\ SpreadSafe(Here, plan)
  BY <1>2, PlanRight DEF KernelRight
<1>4. StaticInv /\ InRanges(plan, at)
  BY <1>2 DEF IInv, LoopInv
<1>5. Place(2, at.x, Taps[at.tap][3]) \in 0 .. plan.w - 1
  BY <1>1, <1>3, <1>4, TapInside DEF InRanges
<1>6. plan.w \in Nat
  BY <1>3 DEF SpreadSafe
<1>7. Place(2, at.x, Taps[at.tap][3]) + 1 - 1 < plan.w
  BY <1>5, <1>6
<1> QED
  BY <1>1, <1>7, TapStep

(* One place, or one vector of places, computed.                           *)
LEMMA CollectStep ==
  ASSUME IInv, Running("gather"), at.y < plan.oh, NEW n \in Nat \ {0}, NEW rows, NEW cols,
         NEW floats \in Nat, Collect(n, rows, cols, floats),
         \A r \in rows : Place(1, at.y, r) \in 0 .. plan.h - 1,
         \A c \in cols : /\ Place(2, at.x, c) \in 0 .. plan.w - 1
                         /\ Place(2, at.x, c) + floats - 1 < plan.w + Spare(plan)
  PROVE  IInv'
<1>1. plan # Unset /\ plan.kind = "gather"
  BY DEF Running
<1>2. GatherSafe(Here, plan)
  BY <1>1, PlanRight DEF KernelRight
<1>3. DOMAIN at = LoopFields /\ at.y \in Nat /\ at.x \in 0 .. plan.ow - 1
  BY <1>1 DEF IInv, BlockInv, LoopInv
<1>4. plan.h \in Nat \ {0} /\ plan.w \in Nat \ {0} /\ plan.oh \in Nat \ {0} /\ plan.ow \in Nat \ {0}
      /\ Spare(plan) \in {0, 1}
  BY <1>2 DEF GatherSafe, Spare
<1>5. /\ UNCHANGED <<fixed, out, todo, slice, plan>>
      /\ at' = IF at.x + n < plan.ow
               THEN [at EXCEPT !.x = at.x + n]
               ELSE [at EXCEPT !.x = 0, !.y = at.y + 1]
  BY DEF Collect
<1>6. plan' = plan
  BY <1>5
<1>7. /\ DOMAIN at' = LoopFields /\ at'.base = at.base
      /\ at'.y \in Nat /\ at'.x \in 0 .. plan.ow - 1
  <2>1. CASE at.x + n < plan.ow
    <3>1. at' = [at EXCEPT !.x = at.x + n]
      BY <1>5, <2>1
    <3>2. /\ DOMAIN at' = LoopFields /\ at'.base = at.base
          /\ at'.y = at.y /\ at'.x = at.x + n
      BY <1>3, <3>1, Moved
    <3> QED
      BY <1>3, <1>4, <2>1, <3>2
  <2>2. CASE ~ (at.x + n < plan.ow)
    <3>1. at' = [at EXCEPT !.x = 0, !.y = at.y + 1]
      BY <1>5, <2>2
    <3>2. /\ DOMAIN at' = LoopFields /\ at'.base = at.base
          /\ at'.y = at.y + 1 /\ at'.x = 0
      BY <1>3, <3>1, Moved
    <3> QED
      BY <1>3, <1>4, <3>2
  <2> QED
    BY <2>1, <2>2
<1>8. LoopInv'
  BY <1>1, <1>6, <1>7 DEF LoopInv
<1> DEFINE ys == {Place(1, at.y, r) : r \in rows}
           xs == {Place(2, at.x, c) : c \in cols}
<1>9. \/ load' = load
      \/ /\ rows # {} /\ cols # {}
         /\ load' = [rows |-> <<Least(ys), Greatest(ys)>>,
                     cols |-> <<Least(xs), Greatest(xs) + floats - 1>>]
  <2>1. rows = {} \/ cols = {} => {<<r, c>> : r \in rows, c \in cols} = {}
    OBVIOUS
  <2> QED
    BY <2>1 DEF Collect
<1>10. ASSUME load' # load PROVE Loads(plan, load')
  <2>1. /\ rows # {} /\ cols # {}
        /\ load' = [rows |-> <<Least(ys), Greatest(ys)>>,
                    cols |-> <<Least(xs), Greatest(xs) + floats - 1>>]
    BY <1>9, <1>10
  <2>2. ys \in SUBSET (0 .. plan.h - 1) /\ xs \in SUBSET (0 .. plan.w - 1) /\ ys # {} /\ xs # {}
    BY <2>1
  <2>3. \A x \in xs : x + floats - 1 < plan.w + Spare(plan)
    OBVIOUS
  <2> HIDE DEF ys, xs
  <2>4. plan.h - 1 \in Nat /\ plan.w - 1 \in Nat
    BY <1>4
  <2>5. Least(ys) \in ys /\ Greatest(ys) \in ys /\ Least(xs) \in xs /\ Greatest(xs) \in xs
    BY <2>2, <2>4, Extremes
  <2>6. /\ load'.rows[1] = Least(ys) /\ load'.rows[2] = Greatest(ys)
        /\ load'.cols[1] = Least(xs) /\ load'.cols[2] = Greatest(xs) + floats - 1
    BY <2>1
  <2>7. /\ 0 <= Least(ys) /\ Greatest(ys) < plan.h
        /\ 0 <= Least(xs) /\ Greatest(xs) + floats - 1 < plan.w + Spare(plan)
    <3>1. Least(ys) \in 0 .. plan.h - 1 /\ Greatest(ys) \in 0 .. plan.h - 1
          /\ Least(xs) \in 0 .. plan.w - 1
      BY <2>2, <2>5
    <3> QED
      BY <1>4, <2>3, <2>5, <3>1
  <2> QED
    BY <2>6, <2>7, Zenon DEF Loads
<1>11. LoadInv'
  BY <1>1, <1>5, <1>10, LoadKept
<1> QED
  BY <1>1, <1>5, <1>7, <1>8, <1>11, LoopKeeps DEF IInv

LEMMA GatherBlockRight == IInv /\ GatherBlock => IInv'
<1> SUFFICES ASSUME IInv, GatherBlock PROVE IInv'
  OBVIOUS
<1>1. PICK n : n = plan.width[at.y][at.x]
  OBVIOUS
<1>2. /\ Running("gather") /\ at.y < plan.oh /\ n > 1
      /\ Collect(n, plan.blkRows[at.y], 0 .. job.k[2] - 1, plan.span * n)
  BY <1>1 DEF GatherBlock
<1>3. plan # Unset /\ plan.kind = "gather"
  BY <1>2 DEF Running
<1>4. SliceRight /\ StaticInv /\ GatherSafe(Here, plan) /\ at.y \in Nat /\ at.x \in 0 .. plan.ow - 1
  BY <1>3, PlanRight DEF KernelRight, IInv, LoopInv
<1>5. at.y \in 0 .. plan.oh - 1 /\ plan.span \in {1, 2}
  BY <1>2, <1>4 DEF GatherSafe
<1>6. n \in Nat \ {0} /\ VectorInside(Here, plan, at.y, at.x)
  BY <1>1, <1>2, <1>4, <1>5 DEF GatherSafe
<1>7. \A a, o, k : Reach(Here, a, o, k) = Place(a, o, k)
  BY <1>4, HereShape
<1>8. Here.k = job.k
  BY <1>4, HereFacts
<1>9. \A r \in plan.blkRows[at.y] : Place(1, at.y, r) \in 0 .. plan.h - 1
  BY <1>6, <1>7 DEF VectorInside
<1>10. \A c \in 0 .. job.k[2] - 1 :
          /\ Place(2, at.x, c) \in 0 .. plan.w - 1
          /\ Place(2, at.x, c) + plan.span * n - 1 < plan.w + Spare(plan)
  BY <1>1, <1>6, <1>7, <1>8 DEF VectorInside
<1>11. plan.span * n \in Nat
  BY <1>5, <1>6
<1>12. PICK rows, cols, floats : /\ rows = plan.blkRows[at.y] /\ cols = 0 .. job.k[2] - 1
                                 /\ floats = plan.span * n
  OBVIOUS
<1> QED
  BY <1>2, <1>6, <1>9, <1>10, <1>11, <1>12, CollectStep

LEMMA GatherPixelRight == IInv /\ GatherPixel => IInv'
<1> SUFFICES ASSUME IInv, GatherPixel PROVE IInv'
  OBVIOUS
<1>1. PICK rows, cols : rows = plan.pixRows[at.y] /\ cols = plan.pixCols[at.x]
  OBVIOUS
<1>2. Running("gather") /\ at.y < plan.oh /\ Collect(1, rows, cols, 1)
  BY <1>1 DEF GatherPixel
<1>3. plan # Unset /\ plan.kind = "gather"
  BY <1>2 DEF Running
<1>4. SliceRight /\ StaticInv /\ GatherSafe(Here, plan) /\ at.y \in Nat /\ at.x \in 0 .. plan.ow - 1
  BY <1>3, PlanRight DEF KernelRight, IInv, LoopInv
<1>5. /\ at.y \in 0 .. plan.oh - 1 /\ plan.w \in Nat /\ Spare(plan) \in {0, 1}
  BY <1>2, <1>4 DEF GatherSafe, Spare
<1>6. \A a, o, k : Reach(Here, a, o, k) = Place(a, o, k)
  BY <1>4, HereShape
<1>7. \A r \in rows : Place(1, at.y, r) \in 0 .. plan.h - 1
  BY <1>1, <1>4, <1>5, <1>6 DEF GatherSafe
<1>8. \A c \in cols : Place(2, at.x, c) \in 0 .. plan.w - 1
  BY <1>1, <1>4, <1>6 DEF GatherSafe
<1>9. \A c \in cols : Place(2, at.x, c) + 1 - 1 < plan.w + Spare(plan)
  BY <1>5, <1>8
<1> QED
  BY <1>2, <1>7, <1>8, <1>9, CollectStep

(* One input value, or a vector of them, added to what it reaches.         *)
LEMMA StrewStep ==
  ASSUME IInv, Running("scatter"), NEW n \in Nat \ {0}, at.x + n <= plan.w, Strew(n)
  PROVE  IInv'
<1>1. plan # Unset /\ plan.kind = "scatter"
  BY DEF Running
<1>2. plan.h \in Nat \ {0} /\ plan.w \in Nat \ {0} /\ Spare(plan) = 0
  <2>1. KernelRight(plan) /\ StaticInv
    BY <1>1, PlanRight DEF IInv
  <2> QED
    BY <1>1, <2>1, JobsAssumption DEF KernelRight, StaticInv, Spare
<1>3. DOMAIN at = LoopFields /\ at.y \in 0 .. plan.h - 1 /\ at.x \in 0 .. plan.w - 1
  BY <1>1 DEF IInv, BlockInv, LoopInv
<1>4. UNCHANGED <<fixed, out, todo, slice, plan>>
  BY DEF Strew
<1>5. plan' = plan
  BY <1>4
<1>6. /\ DOMAIN at' = LoopFields /\ at'.base = at.base
      /\ at'.y \in 0 .. plan.h - 1 /\ at'.x \in 0 .. plan.w - 1
  <2>1. CASE at.x + n < plan.w
    <3>1. at' = [at EXCEPT !.x = at.x + n]
      BY <1>2, <1>3, <2>1 DEF Strew
    <3>2. DOMAIN at' = LoopFields /\ at'.base = at.base /\ at'.y = at.y /\ at'.x = at.x + n
      BY <1>3, <3>1, Moved
    <3> QED
      BY <1>2, <1>3, <2>1, <3>2
  <2>2. CASE at.x + n >= plan.w /\ at.y + 1 < plan.h
    <3>1. at' = [at EXCEPT !.x = 0, !.y = at.y + 1]
      BY <1>2, <1>3, <2>2 DEF Strew
    <3>2. DOMAIN at' = LoopFields /\ at'.base = at.base /\ at'.y = at.y + 1 /\ at'.x = 0
      BY <1>3, <3>1, Moved
    <3> QED
      BY <1>2, <1>3, <2>2, <3>2
  <2>3. CASE at.x + n >= plan.w /\ at.y + 1 >= plan.h
    <3>1. at' = [at EXCEPT !.x = 0, !.y = 0, !.tap = at.tap + 1]
      BY <1>2, <1>3, <2>3 DEF Strew
    <3>2. DOMAIN at' = LoopFields /\ at'.base = at.base /\ at'.y = 0 /\ at'.x = 0
      BY <1>3, <3>1, Moved
    <3> QED
      BY <1>2, <3>2
  <2>4. \/ at.x + n < plan.w \/ (at.x + n >= plan.w /\ at.y + 1 < plan.h)
        \/ (at.x + n >= plan.w /\ at.y + 1 >= plan.h)
    BY <1>2, <1>3
  <2> QED
    BY <2>1, <2>2, <2>3, <2>4
<1>7. LoopInv'
  BY <1>1, <1>5, <1>6 DEF LoopInv
<1>8. LoadInv'
  <2>1. load' = [rows |-> <<at.y, at.y>>, cols |-> <<at.x, at.x + n - 1>>]
    BY DEF Strew
  <2>2. Loads(plan, load')
    BY <1>2, <1>3, <2>1 DEF Loads
  <2> QED
    BY <1>1, <1>4, <2>2, LoadKept
<1> QED
  BY <1>1, <1>4, <1>6, <1>7, <1>8, LoopKeeps DEF IInv

LEMMA ScatterRight == IInv /\ (ScatterVector \/ ScatterColumn) => IInv'
<1> SUFFICES ASSUME IInv, ScatterVector \/ ScatterColumn PROVE IInv'
  OBVIOUS
<1>1. Running("scatter")
  BY DEF ScatterVector, ScatterColumn
<1>2. plan # Unset /\ plan.kind = "scatter"
  BY <1>1 DEF Running
<1>3. plan.lanes \in Nat \ {0} /\ at.x \in 0 .. plan.w - 1 /\ plan.w \in Nat
  <2>1. KernelRight(plan) /\ StaticInv
    BY <1>2, PlanRight DEF IInv
  <2> QED
    BY <1>2, <2>1, JobsAssumption DEF KernelRight, StaticInv, IInv, LoopInv
<1>4. CASE ScatterVector
  BY <1>1, <1>3, <1>4, StrewStep DEF ScatterVector
<1>5. CASE ScatterColumn
  <2>1. at.x + 1 <= plan.w
    BY <1>3
  <2> QED
    BY <1>1, <1>5, <2>1, StrewStep DEF ScatterColumn
<1> QED
  BY <1>4, <1>5

LEMMA StartBlockRight == IInv /\ StartBlock => IInv'
<1> SUFFICES ASSUME IInv, StartBlock PROVE IInv'
  OBVIOUS
<1>1. /\ slice # Unset /\ plan = Unset /\ at.base < Here.oc /\ plan' = Kernel
      /\ UNCHANGED <<fixed, out, todo, slice, load>>
  BY DEF StartBlock
<1>2. /\ job' = job /\ level' = level /\ packed' = packed /\ slice' = slice
      /\ todo' = todo /\ out' = out /\ load' = load
  BY <1>1 DEF fixed
<1>3. StaticInv /\ SliceRight /\ DOMAIN at = LoopFields /\ at.base \in Nat /\ at.base < slice.count
  BY <1>1, HereFacts DEF IInv, BlockInv
<1>4. PICK kernel : kernel = Kernel
  OBVIOUS
<1>5. KernelRight(kernel)
  BY <1>3, <1>4, KernelIs DEF Kernel
<1>6. at' = CASE kernel.kind = "spread"  -> Enter(kernel, 1)
              [] kernel.kind = "gather"  -> at
              [] kernel.kind = "scatter" -> [at EXCEPT !.tap = 1]
  BY <1>4 DEF StartBlock
<1>7. kernel.kind # "spread" => at.y = 0 /\ at.x = 0
  BY <1>1, <1>3, <1>4 DEF IInv, LoopInv
<1>8. /\ DOMAIN at' = LoopFields /\ at'.base = at.base
      /\ kernel.kind = "spread" => InRanges(kernel, at')
      /\ kernel.kind # "spread" => at'.y = 0 /\ at'.x = 0
  <2>1. CASE kernel.kind = "spread"
    <3>1. at' = Enter(kernel, 1)
      BY <1>6, <2>1
    <3> QED
      BY <1>3, <1>5, <2>1, <3>1, EnterRight DEF KernelRight
  <2>2. CASE kernel.kind = "gather"
    <3>1. at' = at
      BY <1>6, <2>2
    <3> QED
      BY <1>3, <1>7, <2>2, <3>1
  <2>3. CASE kernel.kind = "scatter"
    <3>1. at' = [at EXCEPT !.tap = 1]
      BY <1>6, <2>3
    <3>2. DOMAIN at' = LoopFields /\ at'.base = at.base /\ at'.y = at.y /\ at'.x = at.x
      BY <1>3, <3>1, Moved
    <3> QED
      BY <1>7, <2>3, <3>2
  <2> QED
    BY <1>5, <2>1, <2>2, <2>3 DEF KernelRight
<1>9. /\ StaticInv' = StaticInv /\ SliceRight' = SliceRight /\ KernelFor(1)' = KernelFor(1)
      /\ Kernel' = Kernel /\ Taps' = Taps
  BY <1>2, <1>8, SameSlice
<1>10. CutInv'
  BY <1>2 DEF IInv, CutInv
<1>11. BlockInv'
  BY <1>1, <1>2, <1>3, <1>8, <1>9 DEF IInv, BlockInv
<1>12. OutInv'
  <2>1. \A c : Waiting(c)' = Waiting(c) /\ Computed(c)' = Computed(c)
    BY <1>2, <1>8 DEF Waiting, Computed
  <2> QED
    BY <1>2, <2>1 DEF IInv, OutInv
<1>13. LoopInv'
  <2>1. plan' = kernel
    BY <1>1, <1>4
  <2>2. kernel.kind = "spread" => InRanges(plan, at)'
    BY <1>8, <1>9, <2>1 DEF InRanges, RowsOf, ColsOf
  <2>3. kernel.kind = "gather" => 0 \in Nat /\ 0 \in 0 .. kernel.ow - 1
    BY <1>5 DEF KernelRight, GatherSafe
  <2>4. kernel.kind = "scatter" => 0 \in 0 .. kernel.h - 1 /\ 0 \in 0 .. kernel.w - 1
    <3>1. job.h \in Nat \ {0} /\ job.w \in Nat \ {0}
      BY <1>3, JobsAssumption DEF StaticInv
    <3> QED
      BY <1>5, <3>1 DEF KernelRight
  <2>5. Kernel' = kernel
    BY <1>4, <1>9
  <2> QED
    BY <1>8, <2>1, <2>2, <2>3, <2>4, <2>5 DEF LoopInv
<1>14. LoadInv'
  BY <1>2, <1>9 DEF IInv, LoadInv
<1> QED
  BY <1>3, <1>9, <1>10, <1>11, <1>12, <1>13, <1>14 DEF IInv

LEMMA StartSliceRight == IInv /\ StartSlice => IInv'
<1> SUFFICES ASSUME IInv, StartSlice PROVE IInv'
  OBVIOUS
<1>1. PICK s \in todo, fma \in {0, 4, 8} :
         /\ fma # 0 => level = "avx2" /\ packed # "none"
         /\ fma = 8 => packed = "1x1" /\ s.count % 8 = 0
         /\ slice' = [begin |-> s.begin, count |-> s.count, fma |-> fma]
         /\ todo' = todo \ {s}
  BY DEF StartSlice
<1>2. /\ slice = Unset /\ at' = Top /\ load' = Unset
      /\ job' = job /\ level' = level /\ packed' = packed /\ out' = out /\ plan' = plan
  BY DEF StartSlice, fixed
<1>3. PICK n \in WorkerCounts(job, packed) : todo \subseteq Slices(job, packed, n)
  BY DEF IInv, CutInv
<1>4. StaticInv /\ plan = Unset
  BY <1>2 DEF IInv, BlockInv
<1>5. /\ s \in Slices(job, packed, n) /\ s = [begin |-> s.begin, count |-> s.count]
      /\ s.begin \in Nat /\ s.count \in Nat /\ s.begin + s.count <= job.oc
      /\ s.begin % Tile(packed) = 0 /\ (packed = "3x3" => s.count % 8 = 0)
  BY <1>1, <1>3, <1>4, SliceFacts
<1>6. slice'.begin = s.begin /\ slice'.count = s.count /\ slice'.fma = fma
  BY <1>1
<1>7. slice' # Unset
  BY <1>1, <1>5, UnsetAssumption
<1>8. at'.base = 0 /\ at'.y = 0 /\ at'.x = 0 /\ DOMAIN at' = LoopFields
  BY <1>2 DEF Top, LoopFields
<1>9. StaticInv'
  BY <1>2, <1>4 DEF StaticInv
<1>10. CutInv'
  <2>1. [begin |-> slice'.begin, count |-> slice'.count] = s
    BY <1>5, <1>6
  <2> QED
    BY <1>1, <1>2, <1>3, <1>5, <2>1 DEF CutInv
<1>11. SliceRight'
  BY <1>1, <1>2, <1>5, <1>6 DEF SliceRight
<1>12. BlockInv'
  <2>1. (KernelFor(1).group \in {1, 4, 8})'
    BY <1>9, <1>11, GroupIs, PTL
  <2>2. \A g \in {1, 4, 8} : 0 % g = 0
    OBVIOUS
  <2>3. at'.base % KernelFor(1)'.group = 0
    BY <1>8, <2>1, <2>2
  <2>4. at'.base <= slice'.count /\ at'.base \in Nat
    BY <1>5, <1>6, <1>8
  <2> QED
    BY <1>2, <1>4, <1>8, <1>11, <2>3, <2>4 DEF BlockInv
<1>13. OutInv'
  <2>1. \A c : Computed(c)' = Computed(c)
    BY <1>2 DEF Computed
  <2>2. ASSUME NEW c \in 0 .. job.oc - 1 PROVE Waiting(c)' <=> Waiting(c)
    <3>1. Waiting(c) <=> \E r \in todo : Within(c, r)
      BY <1>2 DEF Waiting
    <3>2. Waiting(c)' <=> (\E r \in todo \ {s} : Within(c, r)) \/ Within(c, s)
      <4>1. s.begin + 0 = s.begin
        BY <1>5
      <4> QED
        BY <1>1, <1>6, <1>7, <1>8, <4>1 DEF Waiting, Within
    <3> QED
      BY <3>1, <3>2
  <2>3. OutInv
    BY DEF IInv
  <2>4. DOMAIN out' = 0 .. job'.oc - 1
    BY <1>2, <2>3 DEF OutInv
  <2>5. \A c \in 0 .. job'.oc - 1 : IF Waiting(c)' THEN out'[c] = Uncomputed ELSE Computed(c)'
    BY <1>2, <2>1, <2>2, <2>3, Zenon DEF OutInv
  <2> QED
    BY <2>4, <2>5 DEF OutInv
<1>14. LoopInv' /\ LoadInv'
  BY <1>2, <1>4, <1>8 DEF LoopInv, LoadInv
<1> QED
  BY <1>9, <1>10, <1>12, <1>13, <1>14 DEF IInv

LEMMA FinishSliceRight == IInv /\ FinishSlice => IInv'
<1> SUFFICES ASSUME IInv, FinishSlice PROVE IInv'
  OBVIOUS
<1>1. /\ slice # Unset /\ plan = Unset /\ at.base >= Here.oc
      /\ slice' = Unset /\ at' = Top
      /\ job' = job /\ level' = level /\ packed' = packed
      /\ out' = out /\ todo' = todo /\ plan' = plan
  BY DEF FinishSlice, fixed
<1>2. StaticInv /\ SliceRight /\ at.base \in Nat /\ at.base <= slice.count
  BY <1>1 DEF IInv, BlockInv
<1>3. at.base = slice.count /\ slice.count \in Nat /\ slice.begin \in Nat
  BY <1>1, <1>2, HereFacts DEF SliceRight
<1>4. StaticInv'
  BY <1>1, <1>2 DEF StaticInv
<1>5. CutInv'
  BY <1>1 DEF IInv, CutInv
<1>6. BlockInv'
  BY <1>1 DEF BlockInv, Top, LoopFields
<1>7. OutInv'
  <2>1. \A c : Computed(c)' = Computed(c)
    BY <1>1 DEF Computed
  <2>2. \A c \in Nat : Waiting(c)' <=> Waiting(c)
    BY <1>1, <1>3 DEF Waiting
  <2>3. OutInv /\ \A c \in 0 .. job.oc - 1 : c \in Nat
    BY DEF IInv
  <2> QED
    BY <1>1, <2>1, <2>2, <2>3, Zenon DEF OutInv
<1>8. LoopInv' /\ LoadInv'
  BY <1>1 DEF LoopInv, LoadInv
<1> QED
  BY <1>4, <1>5, <1>6, <1>7, <1>8 DEF IInv

(* The channels a block writes are of its slice, and come from their own   *)
(* bias and weights.                                                       *)
LEMMA FinishBlockWrites ==
  ASSUME IInv, FinishBlock
  PROVE  /\ DOMAIN out' = DOMAIN out /\ plan.group \in Nat \ {0}
         /\ \A c \in 0 .. job.oc - 1 :
              IF slice.begin + at.base <= c /\ c < slice.begin + at.base + plan.group
              THEN /\ Waiting(c) /\ (\A s \in todo : ~ Within(c, s))
                   /\ Computed(c)'
              ELSE out'[c] = out[c]
<1>1. plan # Unset /\ out' = Written(acc)
  BY DEF FinishBlock
<1>2. StaticInv /\ SliceRight /\ at.base \in Nat /\ at.base < slice.count /\ slice # Unset
      /\ plan = Kernel /\ at.base % KernelFor(1).group = 0 /\ CutInv /\ OutInv
  BY <1>1 DEF IInv, BlockInv
<1>3. plan.group \in Nat \ {0} /\ at.base + plan.group <= slice.count
  BY <1>2, GroupFits
<1>4. /\ slice.begin \in Nat /\ slice.count \in Nat /\ job.oc \in Nat /\ DOMAIN out = 0 .. job.oc - 1
      /\ packed \in {"none", "1x1", "3x3"}
  BY <1>2, JobFacts DEF SliceRight, OutInv
<1>5. \A c : WeightsOf(c) = c
  BY <1>2 DEF WeightsOf, SliceRight
<1>6. /\ DOMAIN out' = 0 .. job.oc - 1
      /\ \A c \in 0 .. job.oc - 1 :
            out'[c] = IF c - slice.begin \in at.base .. at.base + plan.group - 1
                      THEN [bias |-> c, weights |-> c, sum |-> acc] ELSE out[c]
  BY <1>1, <1>4, <1>5 DEF Written
<1>7. ASSUME NEW c \in 0 .. job.oc - 1
      PROVE  IF slice.begin + at.base <= c /\ c < slice.begin + at.base + plan.group
             THEN /\ Waiting(c) /\ (\A s \in todo : ~ Within(c, s))
                  /\ Computed(c)'
             ELSE out'[c] = out[c]
  <2>1. c \in Nat /\ at.base \in Nat
    BY <1>2, <1>4
  <2>2. c - slice.begin \in at.base .. at.base + plan.group - 1
          <=> slice.begin + at.base <= c /\ c < slice.begin + at.base + plan.group
    <3>1. PICK b, g, d \in Nat : b = at.base /\ g = plan.group /\ d = slice.begin
      BY <1>3, <1>4, <2>1
    <3>2. c - d \in b .. b + g - 1 <=> d + b <= c /\ c < d + b + g
      BY <2>1
    <3> QED
      BY <3>1, <3>2
  <2>3. CASE slice.begin + at.base <= c /\ c < slice.begin + at.base + plan.group
    <3>1. c < slice.begin + slice.count /\ Within(c, slice)
      BY <1>2, <1>3, <1>4, <2>1, <2>3 DEF Within
    <3>2. Waiting(c)
      BY <1>2, <2>3, <3>1 DEF Waiting
    <3>3. \A s \in todo : ~ Within(c, s)
      BY <1>2, <2>1, <3>1, Alone
    <3>4. out'[c] = [bias |-> c, weights |-> c, sum |-> acc]
      BY <1>6, <2>2, <2>3
    <3>5. out'[c].bias = c /\ out'[c].weights = c /\ Uncomputed.bias = Unset /\ c # Unset
      BY <2>1, <3>4, UnsetAssumption DEF Uncomputed
    <3>6. Computed(c)'
      BY <3>5 DEF Computed
    <3> QED
      BY <2>3, <3>2, <3>3, <3>6
  <2>4. CASE ~ (slice.begin + at.base <= c /\ c < slice.begin + at.base + plan.group)
    BY <1>6, <2>2, <2>4
  <2> QED
    BY <2>3, <2>4
<1> QED
  BY <1>3, <1>4, <1>6, <1>7

LEMMA FinishBlockRight == IInv /\ FinishBlock => IInv'
<1> SUFFICES ASSUME IInv, FinishBlock PROVE IInv'
  OBVIOUS
<1>1. /\ plan # Unset /\ at' = [Top EXCEPT !.base = at.base + plan.group] /\ plan' = Unset
      /\ job' = job /\ level' = level /\ packed' = packed
      /\ todo' = todo /\ slice' = slice /\ load' = load
  BY DEF FinishBlock, fixed
<1>2. StaticInv /\ SliceRight /\ at.base \in Nat /\ at.base < slice.count /\ slice # Unset
      /\ plan = Kernel /\ at.base % KernelFor(1).group = 0 /\ OutInv
  BY <1>1 DEF IInv, BlockInv
<1>3. /\ plan.group \in Nat \ {0} /\ at.base + plan.group <= slice.count
      /\ (at.base + plan.group) % KernelFor(1).group = 0
  BY <1>2, GroupFits
<1>4. /\ slice.begin \in Nat /\ slice.count \in Nat /\ job.oc \in Nat
  BY <1>2, JobFacts DEF SliceRight
<1>5. /\ at'.base = at.base + plan.group /\ at'.y = 0 /\ at'.x = 0 /\ DOMAIN at' = LoopFields
  BY <1>1 DEF Top, LoopFields
<1>6. StaticInv' = StaticInv /\ SliceRight' = SliceRight /\ KernelFor(1)' = KernelFor(1)
  BY <1>1, SameSlice
<1>7. CutInv'
  BY <1>1 DEF IInv, CutInv
<1>8. BlockInv'
  BY <1>1, <1>2, <1>3, <1>4, <1>5, <1>6 DEF BlockInv
<1>9. OutInv'
  <2>1. DOMAIN out' = 0 .. job'.oc - 1
    BY <1>1, <1>2, FinishBlockWrites DEF OutInv
  <2>2. ASSUME NEW c \in 0 .. job.oc - 1
        PROVE  IF Waiting(c)' THEN out'[c] = Uncomputed ELSE Computed(c)'
    <3>0. c \in Nat
      BY <1>4
    <3>1. Waiting(c)' <=> \/ \E s \in todo : Within(c, s)
                          \/ slice.begin + (at.base + plan.group) <= c /\ c < slice.begin + slice.count
      BY <1>1, <1>2, <1>5 DEF Waiting
    <3>2. Waiting(c) <=> \/ \E s \in todo : Within(c, s)
                         \/ slice.begin + at.base <= c /\ c < slice.begin + slice.count
      BY <1>2 DEF Waiting
    <3>3. IF Waiting(c) THEN out[c] = Uncomputed ELSE Computed(c)
      BY <1>2 DEF OutInv
    <3>4. CASE slice.begin + at.base <= c /\ c < slice.begin + at.base + plan.group
      <4>1. Computed(c)' /\ \A s \in todo : ~ Within(c, s)
        BY <3>4, FinishBlockWrites
      <4>2. ~ (slice.begin + (at.base + plan.group) <= c)
        BY <1>2, <1>3, <1>4, <3>0, <3>4
      <4> QED
        BY <3>1, <4>1, <4>2
    <3>5. CASE ~ (slice.begin + at.base <= c /\ c < slice.begin + at.base + plan.group)
      <4>1. out'[c] = out[c]
        BY <3>5, FinishBlockWrites
      <4>2. Computed(c)' = Computed(c)
        BY <4>1 DEF Computed
      <4>3. slice.begin + (at.base + plan.group) <= c <=> slice.begin + at.base <= c
        BY <1>2, <1>3, <1>4, <3>0, <3>5
      <4> QED
        BY <3>1, <3>2, <3>3, <4>1, <4>2, <4>3
    <3> QED
      BY <3>4, <3>5
  <2> QED
    BY <1>1, <2>1, <2>2 DEF OutInv
<1>10. LoopInv'
  BY <1>1, <1>5 DEF LoopInv
<1>11. LoadInv'
  BY <1>1, <1>6 DEF IInv, LoadInv
<1> QED
  BY <1>2, <1>6, <1>7, <1>8, <1>9, <1>10, <1>11 DEF IInv

LEMMA NextRight == IInv /\ [Next]_vars => IInv'
<1> SUFFICES ASSUME IInv, [Next]_vars PROVE IInv'
  OBVIOUS
<1>1. CASE UNCHANGED vars
  <2>1. /\ job' = job /\ level' = level /\ packed' = packed /\ slice' = slice /\ at' = at
        /\ todo' = todo /\ out' = out /\ plan' = plan /\ load' = load
    BY <1>1 DEF vars
  <2>2. /\ StaticInv' = StaticInv /\ SliceRight' = SliceRight /\ KernelFor(1)' = KernelFor(1)
        /\ Kernel' = Kernel /\ Taps' = Taps
    BY <2>1, SameSlice
  <2>3. StaticInv' /\ CutInv' /\ BlockInv'
    BY <2>1, <2>2 DEF IInv, CutInv, BlockInv
  <2>4. OutInv'
    BY <2>1 DEF IInv, OutInv, Waiting, Computed
  <2>5. LoopInv' /\ LoadInv'
    BY <2>1, <2>2 DEF IInv, LoopInv, LoadInv, InRanges, RowsOf, ColsOf
  <2> QED
    BY <2>3, <2>4, <2>5 DEF IInv
<1> QED
  BY <1>1, StartSliceRight, StartBlockRight, SpreadVectorRight, SpreadColumnRight,
     GatherBlockRight, GatherPixelRight, ScatterRight, FinishBlockRight, FinishSliceRight
  DEF Next

-----------------------------------------------------------------------------

THEOREM Invariance == RunSpec => []IInv
<1> QED
  BY InitRight, NextRight, PTL DEF RunSpec

(* When no slice is left every channel has been computed.                  *)
THEOREM EveryChannel == RunSpec => []NoChannelIsLeftOut
<1>1. IInv => NoChannelIsLeftOut
  <2> SUFFICES ASSUME IInv, todo = {}, slice = Unset, NEW c \in DOMAIN out
               PROVE  out[c] # Uncomputed
    BY DEF NoChannelIsLeftOut
  <2>1. OutInv
    BY DEF IInv
  <2>2. ~ Waiting(c)
    BY DEF Waiting
  <2> QED
    BY <2>1, <2>2 DEF OutInv, Computed
<1> QED
  BY <1>1, Invariance, PTL

(* No step of any kernel loads from outside the rows of its input, but for *)
(* the vector tiles of stride two: those take at most one float past a row *)
(* of even width, and none past one of odd width.                          *)
THEOREM LoadsStayInRow == RunSpec => []LoadsInRow
<1>1. IInv => LoadsInRow
  <2> SUFFICES ASSUME IInv, plan # Unset, load # Unset
               PROVE  /\ 0 <= load.rows[1] /\ load.rows[2] < plan.h
                      /\ 0 <= load.cols[1] /\ load.cols[2] < plan.w + Spare(plan)
    BY DEF LoadsInRow
  <2>1. /\ slice # Unset /\ plan.h = KernelFor(1).h /\ plan.w = KernelFor(1).w
        /\ Spare(plan) = Spare(KernelFor(1))
    BY PlanRight
  <2>2. LoadInv
    BY DEF IInv
  <2> QED
    BY <2>1, <2>2 DEF LoadInv
<1> QED
  BY <1>1, Invariance, PTL

(* A step computes a channel only if no step did, and from the bias and    *)
(* the weights of that channel: the workers of a node, whatever their      *)
(* number, never write a channel twice.                                    *)
THEOREM ChannelsComeOutOnce ==
  RunSpec => [][\A c \in DOMAIN out :
                  out'[c] # out[c] => out[c] = Uncomputed /\ Computed(c)']_out
<1>1. IInv /\ [Next]_vars =>
        [\A c \in DOMAIN out : out'[c] # out[c] => out[c] = Uncomputed /\ Computed(c)']_out
  <2> SUFFICES ASSUME IInv, Next, NEW c \in DOMAIN out, out'[c] # out[c]
               PROVE  out[c] = Uncomputed /\ Computed(c)'
    BY DEF vars
  <2>1. FinishBlock
    <3>1. StartSlice \/ StartBlock \/ FinishSlice => out' = out
      BY DEF StartSlice, StartBlock, FinishSlice
    <3>2. SpreadVector \/ SpreadColumn => out' = out
      BY DEF SpreadVector, SpreadColumn, AddTap
    <3>3. GatherBlock \/ GatherPixel => out' = out
      BY DEF GatherBlock, GatherPixel, Collect
    <3>4. ScatterVector \/ ScatterColumn => out' = out
      BY DEF ScatterVector, ScatterColumn, Strew
    <3>5. QED
      BY <3>1, <3>2, <3>3, <3>4 DEF Next
  <2>2. OutInv
    BY DEF IInv
  <2>3. c \in 0 .. job.oc - 1
    BY <2>2 DEF OutInv
  <2>4. Waiting(c) /\ Computed(c)'
    BY <2>1, <2>3, FinishBlockWrites
  <2> QED
    BY <2>2, <2>3, <2>4 DEF OutInv
<1> QED
  BY <1>1, Invariance, PTL DEF RunSpec
=============================================================================
