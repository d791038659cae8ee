-------------------------- MODULE OcrRequestProofs --------------------------
(***************************************************************************)
(* For any number of workers, crops, widths, bands and requests, and for   *)
(* any page: a crop is recognized from a complete image, the bands that    *)
(* several threads write at once never meet, and a response holds every    *)
(* line of its own request.                                                *)
(***************************************************************************)
EXTENDS OcrRequest, SequenceTheorems, FiniteSetTheorems, FunctionTheorems,
        WellFoundedInduction, TLAPS

(* What a tuple of variables stands for is visible in every proof.         *)
USE DEF records, buffer, band_list, output, handle, page, schedule, tasks, plan,
        work, fork

-----------------------------------------------------------------------------
(* Numbers.                                                                *)

(* A nonempty set of naturals has a least element: among the finite sets   *)
(* of its elements up to one of them, one is smallest.                     *)
LEMMA LeastOf ==
  ASSUME NEW T, T \subseteq Nat, T # {}
  PROVE  \E x \in T : \A y \in T : x <= y
<1>1. PICK n \in T : TRUE
  OBVIOUS
<1> DEFINE S == 0 .. n
           Upto(x) == {y \in T : y <= x}
           F == {Upto(x) : x \in T \cap S}
<1>2. \A x \in T \cap S : x \in Nat /\ Upto(x) \subseteq S
  <2>1. SUFFICES ASSUME NEW x \in T \cap S PROVE x \in Nat /\ Upto(x) \subseteq S
    BY Zenon
  <2>2. x \in Nat /\ x <= n /\ n \in Nat
    OBVIOUS
  <2>3. ASSUME NEW z \in Upto(x) PROVE z \in S
    BY <2>2
  <2>4. QED
    BY <2>2, <2>3
<1>3. \A x, y \in T \cap S : y < x => Upto(y) \subseteq Upto(x) /\ Upto(y) # Upto(x)
  <2>1. SUFFICES ASSUME NEW x \in T \cap S, NEW y \in T \cap S, y < x
                 PROVE  Upto(y) \subseteq Upto(x) /\ Upto(y) # Upto(x)
    BY Zenon
  <2>2. x \in Nat /\ y \in Nat
    OBVIOUS
  <2>3. ASSUME NEW z \in Upto(y) PROVE z \in Upto(x)
    BY <2>1, <2>2
  <2>4. x \in Upto(x) /\ x \notin Upto(y)
    BY <2>1, <2>2
  <2>5. QED
    BY <2>3, <2>4
<1>4. IsFiniteSet(S) /\ n \in T \cap S
  BY FS_Interval
<1> HIDE DEF S, Upto
<1>5. IsWellFoundedOn(StrictSubsetOrdering(S), SUBSET S)
  BY <1>4, FS_StrictSubsetOrderingWellFounded, FS_FiniteSubsetsOfFinite
<1>6. F \subseteq SUBSET S /\ F # {}
  BY <1>2, <1>4
<1>7. PICK U \in F : \A V \in F : <<V, U>> \notin StrictSubsetOrdering(S)
  <2> HIDE DEF F
  <2>1. QED
    BY <1>5, <1>6, WFMin
<1>8. PICK x \in T \cap S : U = Upto(x)
  OBVIOUS
<1>9. \A y \in T \cap S : ~(y < x)
  <2>1. SUFFICES ASSUME NEW y \in T \cap S, y < x PROVE FALSE
    OBVIOUS
  <2>2. <<Upto(y), Upto(x)>> \notin StrictSubsetOrdering(S)
    BY <1>7, <1>8
  <2>3. Upto(y) \in SUBSET S /\ Upto(x) \in SUBSET S
    BY <1>2
  <2>4. QED
    BY <1>3, <2>1, <2>2, <2>3 DEF StrictSubsetOrdering
<1>10. QED
  BY <1>9 DEF S

LEMMA MinOf ==
  ASSUME NEW T, T \subseteq Nat, T # {}
  PROVE  Min(T) \in T
BY LeastOf DEF Min

(* Induction, for what can be said with a set.                             *)
LEMMA Induction ==
  ASSUME NEW S, 0 \in S, \A n \in Nat : n \in S => n + 1 \in S
  PROVE  Nat \subseteq S
<1> SUFFICES ASSUME Nat \ S # {} PROVE FALSE
  OBVIOUS
<1>1. PICK m \in Nat \ S : \A y \in Nat \ S : m <= y
  BY LeastOf
<1>2. m # 0 /\ m - 1 \in Nat /\ ~(m <= m - 1) /\ (m - 1) + 1 = m
  OBVIOUS
<1>3. m - 1 \in S
  BY <1>1, <1>2
<1>4. QED
  BY <1>2, <1>3

(* A finite, nonempty set of naturals has a greatest element.              *)
LEMMA MaxOf ==
  ASSUME NEW T, T \subseteq Nat, T # {}, NEW b \in Nat, \A x \in T : x <= b
  PROVE  Max(T) \in T
<1> DEFINE D == {d \in Nat : \E x \in T : d = b - x}
<1>1. D \subseteq Nat /\ D # {}
  <2>1. PICK x \in T : TRUE
    OBVIOUS
  <2>2. b - x \in D
    OBVIOUS
  <2>3. QED
    BY <2>2
<1>2. PICK d \in D : \A e \in D : d <= e
  <2> HIDE DEF D
  <2>1. QED
    BY <1>1, LeastOf
<1>3. PICK x \in T : d = b - x
  OBVIOUS
<1>4. \A y \in T : x >= y
  <2>1. SUFFICES ASSUME NEW y \in T PROVE x >= y
    OBVIOUS
  <2>2. b - y \in D /\ x \in Nat /\ y \in Nat
    OBVIOUS
  <2>3. d <= b - y
    BY <1>2, <2>2
  <2>4. QED
    BY <1>3, <2>2, <2>3
<1>5. QED
  BY <1>4 DEF Max

(* Finitely many naturals have a common bound.                             *)
LEMMA BoundOf ==
  ASSUME NEW f, NEW n \in Nat, \A i \in 0 .. n - 1 : f[i] \in Nat
  PROVE  \E b \in Nat : \A i \in 0 .. n - 1 : f[i] <= b
<1> DEFINE S == {m \in Nat : \E b \in Nat : \A i \in 0 .. n - 1 : i < m => f[i] <= b}
<1>1. 0 \in S
  OBVIOUS
<1>2. ASSUME NEW m \in Nat, m \in S PROVE m + 1 \in S
  <2>1. PICK b \in Nat : \A i \in 0 .. n - 1 : i < m => f[i] <= b
    BY <1>2
  <2>2. CASE m < n
    <3> DEFINE c == IF b < f[m] THEN f[m] ELSE b
    <3>1. c \in Nat /\ b <= c /\ f[m] <= c
      BY <2>2
    <3>2. \A i \in 0 .. n - 1 : i < m + 1 => f[i] <= c
      BY <2>1, <3>1
    <3>3. QED
      BY <3>1, <3>2
  <2>3. CASE n <= m
    BY <2>1, <2>3
  <2>4. QED
    BY <2>2, <2>3
<1>3. n \in S
  <2> HIDE DEF S
  <2>1. QED
    BY <1>1, <1>2, Induction
<1>4. QED
  BY <1>3

(* Doubling: the function exists, and it outgrows its argument.            *)
LEMMA Doubling ==
  ASSUME NEW base \in Nat \ {0}, NEW n \in Nat, NEW f,
         f = CHOOSE g : g = [k \in 0 .. n |-> IF k = 0 THEN base ELSE 2 * g[k - 1]]
  PROVE  \A k \in 0 .. n : f[k] \in Nat /\ k < f[k]
<1> DEFINE Is(g, m) == g = [k \in 0 .. m |-> IF k = 0 THEN base ELSE 2 * g[k - 1]]
           S == {m \in Nat : \E g : Is(g, m)}
<1>1. 0 \in S
  <2> DEFINE g == [k \in 0 .. 0 |-> base]
  <2>1. Is(g, 0)
    OBVIOUS
  <2>2. QED
    BY <2>1
<1>2. ASSUME NEW m \in Nat, m \in S PROVE m + 1 \in S
  <2>1. PICK g : Is(g, m)
    BY <1>2
  <2> DEFINE h == [k \in 0 .. m + 1 |-> IF k = m + 1 THEN 2 * g[m] ELSE g[k]]
  <2>2. \A k \in 0 .. m : g[k] = IF k = 0 THEN base ELSE 2 * g[k - 1]
    BY <2>1
  <2> HIDE DEF Is
  <2>3. ASSUME NEW k \in 0 .. m + 1
        PROVE  h[k] = IF k = 0 THEN base ELSE 2 * h[k - 1]
    BY <2>2, <2>3
  <2>4. h = [k \in 0 .. m + 1 |-> IF k = 0 THEN base ELSE 2 * h[k - 1]]
    <3> HIDE DEF h
    <3>1. h = [k \in 0 .. m + 1 |-> h[k]]
      BY DEF h
    <3>2. QED
      BY <2>3, <3>1
  <2>5. Is(h, m + 1)
    BY <2>4, Zenon DEF Is
  <2>6. QED
    BY <2>5
<1>3. n \in S
  <2> HIDE DEF S
  <2>1. QED
    BY <1>1, <1>2, Induction
<1>4. \A k \in 0 .. n : f[k] = IF k = 0 THEN base ELSE 2 * f[k - 1]
  <2>1. \E g : Is(g, n)
    BY <1>3
  <2>2. Is(f, n)
    BY <2>1
  <2>3. QED
    BY <2>2
<1> DEFINE T == {m \in Nat : m <= n => f[m] \in Nat /\ m < f[m]}
<1>5. 0 \in T
  BY <1>4
<1>6. ASSUME NEW m \in Nat, m \in T PROVE m + 1 \in T
  BY <1>4, <1>6
<1>7. Nat \subseteq T
  <2> HIDE DEF T
  <2>1. QED
    BY <1>5, <1>6, Induction
<1>8. QED
  BY <1>7

(* ensure_crop_bands always finds a capacity.                              *)
LEMMA CapacityGrows ==
  ASSUME crop_band_capacity \in Nat, NEW required \in Nat
  PROVE  GrownCapacity(required) \in Nat
<1> DEFINE base == IF crop_band_capacity = 0 THEN FirstBandCapacity ELSE crop_band_capacity
           f == CHOOSE g : g = [k \in 0 .. required |-> IF k = 0 THEN base ELSE 2 * g[k - 1]]
           C == {c \in {f[k] : k \in 0 .. required} : c >= required}
<1>1. base \in Nat \ {0}
  BY BandAssumption
<1>2. \A k \in 0 .. required : f[k] \in Nat /\ k < f[k]
  <2> HIDE DEF base
  <2>1. QED
    BY <1>1, Doubling
<1>3. C \subseteq Nat /\ C # {}
  <2> HIDE DEF f
  <2>1. f[required] \in C
    BY <1>2
  <2>2. QED
    BY <1>2, <2>1
<1>4. Min(C) \in Nat
  <2> HIDE DEF C
  <2>1. QED
    BY <1>3, MinOf
<1>5. GrownCapacity(required) \in {crop_band_capacity, Min(C)}
  BY DEF GrownCapacity
<1>6. QED
  BY <1>4, <1>5

(* The places of a band are a row of the crop it belongs to.               *)
LEMMA Rows ==
  ASSUME NEW w \in Nat, NEW h \in Nat, NEW r \in Nat, r < h
  PROVE  r * w \in Nat /\ (r + 1) * w = r * w + w /\ (r + 1) * w <= w * h
<1>1. PICK k \in Nat : h = (r + 1) + k
  <2>1. h - (r + 1) \in Nat /\ h = (r + 1) + (h - (r + 1))
    OBVIOUS
  <2>2. QED
    BY <2>1
<1>2. r * w \in Nat /\ k * w \in Nat
  OBVIOUS
<1>3. (r + 1) * w = r * w + w
  OBVIOUS
<1>4. w * h = (r + 1) * w + k * w
  BY <1>1
<1>5. QED
  BY <1>2, <1>3, <1>4

(* Every place of a crop is on one of its rows.                            *)
LEMMA RowOfPlace ==
  ASSUME NEW w \in Nat, NEW h \in Nat, NEW k \in Nat, k < w * h
  PROVE  \E r \in 0 .. h - 1 : r * w <= k /\ k < (r + 1) * w
<1>1. w # 0
  OBVIOUS
<1> DEFINE r == k \div w
<1>2. r \in Nat /\ r * w <= k /\ k < r * w + w
  BY <1>1
<1> HIDE DEF r
<1>3. r < h
  <2>1. SUFFICES ASSUME r >= h PROVE FALSE
    BY <1>2
  <2>2. PICK d \in Nat : r = h + d
    <3>1. r - h \in Nat /\ r = h + (r - h)
      BY <1>2, <2>1
    <3>2. QED
      BY <3>1
  <2>3. r * w = w * h + d * w /\ d * w \in Nat /\ w * h \in Nat
    BY <2>2
  <2>4. QED
    BY <1>2, <2>3
<1>4. (r + 1) * w = r * w + w
  BY <1>2
<1>5. QED
  BY <1>2, <1>3, <1>4

-----------------------------------------------------------------------------
(* The schedule and the assignment of its first crops.                     *)

BoxRecord == [target_width : Nat, width : Nat, height : Nat]
CropRecord == [offset : Nat, byte_count : Nat, box_index : CropIndex, target_width : Nat]
CropsTyped == /\ crops \in [CropIndex -> CropRecord]
              /\ detected_boxes \in [CropIndex -> BoxRecord]
BufferTyped == /\ crop_capacity \in Nat /\ crop_used \in Nat
               /\ DOMAIN crop = 0 .. crop_capacity - 1
PageTyped == setting \in Settings /\ line_count \in 0 .. MaxCrops

(* crop_and_run_adaptive adds up the bytes of all crops.                   *)
LEMMA PlannedBytes ==
  ASSUME CropsTyped, PageTyped
  PROVE  planned_crop_bytes \in Nat
<1> DEFINE n == line_count
           Is(g, m) == g = [k \in 0 .. m |-> IF k = 0 THEN 0 ELSE g[k - 1] + crops[k - 1].byte_count]
           S == {m \in Nat : \E g : Is(g, m)}
           f == CHOOSE g : Is(g, n)
<1>1. n \in Nat /\ \A k \in 1 .. n : k - 1 \in CropIndex
  BY CountAssumption DEF PageTyped, CropIndex
<1>2. \A c \in CropIndex : crops[c].byte_count \in Nat
  BY DEF CropsTyped, CropRecord
<1>3. 0 \in S
  <2> DEFINE g == [k \in 0 .. 0 |-> 0]
  <2>1. Is(g, 0)
    OBVIOUS
  <2>2. QED
    BY <2>1
<1>4. ASSUME NEW m \in Nat, m \in S PROVE m + 1 \in S
  <2>1. PICK g : Is(g, m)
    BY <1>4
  <2> DEFINE h == [k \in 0 .. m + 1 |->
                     IF k = m + 1 THEN g[m] + crops[m].byte_count ELSE g[k]]
  <2>2. \A k \in 0 .. m : g[k] = IF k = 0 THEN 0 ELSE g[k - 1] + crops[k - 1].byte_count
    BY <2>1
  <2> HIDE DEF Is
  <2>3. ASSUME NEW k \in 0 .. m + 1
        PROVE  h[k] = IF k = 0 THEN 0 ELSE h[k - 1] + crops[k - 1].byte_count
    BY <2>2, <2>3
  <2>4. h = [k \in 0 .. m + 1 |-> IF k = 0 THEN 0 ELSE h[k - 1] + crops[k - 1].byte_count]
    <3>1. h = [k \in 0 .. m + 1 |-> h[k]]
      OBVIOUS
    <3> HIDE DEF h
    <3>2. QED
      BY <2>3, <3>1
  <2>5. Is(h, m + 1)
    BY <2>4, Zenon DEF Is
  <2>6. QED
    BY <2>5
<1>5. n \in S
  <2> HIDE DEF S, n
  <2>1. QED
    BY <1>1, <1>3, <1>4, Induction
<1>6. \A k \in 0 .. n : f[k] = IF k = 0 THEN 0 ELSE f[k - 1] + crops[k - 1].byte_count
  <2>1. \E g : Is(g, n)
    BY <1>5
  <2> HIDE DEF n
  <2>2. Is(f, n)
    BY <2>1
  <2>3. QED
    BY <2>2
<1> DEFINE T == {m \in Nat : m <= n => f[m] \in Nat}
<1>7. 0 \in T
  BY <1>1, <1>6
<1>8. ASSUME NEW m \in Nat, m \in T PROVE m + 1 \in T
  <2> HIDE DEF f, n
  <2>1. SUFFICES ASSUME m + 1 <= n PROVE f[m + 1] \in Nat
    OBVIOUS
  <2>2. m + 1 \in 1 .. n /\ (m + 1) - 1 = m /\ m \in CropIndex
    BY <1>1, <2>1
  <2>3. f[m] \in Nat
    BY <1>1, <1>8, <2>1
  <2>4. f[m + 1] = f[m] + crops[m].byte_count
    BY <1>1, <1>6, <2>2
  <2>5. QED
    BY <1>2, <2>2, <2>3, <2>4
<1>9. n \in T
  <2> HIDE DEF T, n
  <2>1. QED
    BY <1>1, <1>7, <1>8, Induction
<1>10. f[n] \in Nat
  <2> HIDE DEF f
  <2>1. QED
    BY <1>9
<1>11. planned_crop_bytes = f[n]
  BY DEF planned_crop_bytes
<1>12. QED
  BY <1>10, <1>11, Zenon

(* There is a widest crop among those that are left.                       *)
LEMMA NextCropIsLeft ==
  ASSUME CropsTyped, PageTyped, Lines \ Scheduled # {}
  PROVE  NextCrop \in Lines \ Scheduled
<1> DEFINE left == Lines \ Scheduled
           widths == {crops[c].target_width : c \in left}
           best == {c \in left : crops[c].target_width = Max(widths)}
           f == [c \in CropIndex |-> crops[c].target_width]
<1>1. /\ line_count \in Nat /\ left # {}
      /\ \A c \in left : c \in Nat /\ c \in 0 .. line_count - 1 /\ c \in CropIndex
  BY CountAssumption DEF PageTyped, Lines, CropIndex
<1>2. \A c \in CropIndex : crops[c].target_width \in Nat
  BY DEF CropsTyped, CropRecord
<1>3. \A c \in 0 .. line_count - 1 : f[c] \in Nat
  BY <1>2, CountAssumption DEF PageTyped, CropIndex
<1>4. PICK b \in Nat : \A c \in 0 .. line_count - 1 : f[c] <= b
  <2> HIDE DEF f
  <2>1. QED
    BY <1>1, <1>3, BoundOf
<1>5. widths \subseteq Nat /\ widths # {} /\ \A x \in widths : x <= b
  BY <1>1, <1>2, <1>4
<1>6. Max(widths) \in widths
  <2> HIDE DEF widths
  <2>1. QED
    BY <1>4, <1>5, MaxOf
<1>7. best \subseteq left /\ best \subseteq Nat /\ best # {}
  BY <1>1, <1>6
<1>8. Min(best) \in left
  <2> HIDE DEF best, left
  <2>1. QED
    BY <1>7, MinOf
<1>9. QED
  BY <1>8 DEF NextCrop

(* A function on 0 .. n-1 whose value at s is one of 0 .. n-1 that it has  *)
(* not taken before is a permutation of 0 .. n-1.                          *)
LEMMA Permutation ==
  ASSUME NEW n \in Nat, NEW f, f = [s \in 0 .. n - 1 |-> f[s]],
         \A s \in 0 .. n - 1 : f[s] \in (0 .. n - 1) \ {f[t] : t \in 0 .. s - 1}
  PROVE  f \in Bijection(0 .. n - 1, 0 .. n - 1)
<1> DEFINE S == 0 .. n - 1
<1>1. f \in [S -> S]
  OBVIOUS
<1>2. \A s, t \in S : t < s => f[t] # f[s]
  OBVIOUS
<1>3. \A s, t \in S : f[s] = f[t] => s = t
  BY <1>2
<1>4. f \in Injection(S, S)
  <2> HIDE DEF S
  <2>1. QED
    BY <1>1, <1>3, Fun_IsInj
<1>5. IsFiniteSet(S)
  BY 0 \in Int, n - 1 \in Int, FS_Interval
<1>6. f \in Surjection(S, S)
  <2> HIDE DEF S
  <2>1. QED
    BY <1>4, <1>5, FS_Injection
<1>7. QED
  BY <1>4, <1>6 DEF Bijection

(* Fewer than n values have been taken before slot s < n.                  *)
LEMMA SomeLeft ==
  ASSUME NEW n \in Nat, NEW s \in 0 .. n - 1, NEW f
  PROVE  (0 .. n - 1) \ {f[t] : t \in 0 .. s - 1} # {}
<1> SUFFICES ASSUME \A x \in 0 .. n - 1 : \E t \in 0 .. s - 1 : x = f[t]
             PROVE  FALSE
  OBVIOUS
<1> DEFINE g == [x \in 0 .. n - 1 |-> CHOOSE t \in 0 .. s - 1 : x = f[t]]
<1>1. g \in [0 .. n - 1 -> 0 .. s - 1] /\ \A x \in 0 .. n - 1 : f[g[x]] = x
  OBVIOUS
<1>2. /\ IsFiniteSet(0 .. n - 1) /\ IsFiniteSet(0 .. s - 1)
      /\ Cardinality(0 .. n - 1) = n /\ Cardinality(0 .. s - 1) = s
  <2>1. n - 1 \in Int /\ s - 1 \in Int /\ 0 \in Int
    OBVIOUS
  <2>2. IsFiniteSet(0 .. n - 1) /\ Cardinality(0 .. n - 1) = IF 0 > n - 1 THEN 0 ELSE (n - 1) - 0 + 1
    BY <2>1, FS_Interval
  <2>3. IsFiniteSet(0 .. s - 1) /\ Cardinality(0 .. s - 1) = IF 0 > s - 1 THEN 0 ELSE (s - 1) - 0 + 1
    BY <2>1, FS_Interval
  <2>4. QED
    BY <2>2, <2>3
<1> DEFINE A == 0 .. n - 1
           B == 0 .. s - 1
<1> HIDE DEF g
<1>3. g \in [A -> B] /\ IsFiniteSet(A) /\ IsFiniteSet(B) /\ Cardinality(B) < Cardinality(A)
  BY <1>1, <1>2
<1>4. \E x, y \in A : x # y /\ g[x] = g[y]
  <2> HIDE DEF A, B
  <2>1. QED
    BY <1>3, FS_PigeonHole
<1>5. QED
  BY <1>1, <1>4

(* The worker that Assignment picks for slot s, given the picks before.    *)
Pick(p, s) ==
  LET unused == (0 .. ActiveCount - 1) \ {p[t] : t \in 0 .. s - 1}
      wanted == crops[crop_schedule[s + 1]].target_width
      fitting == {w \in unused : current_width[w] = wanted}
  IN  Min(IF fitting # {} THEN fitting ELSE unused)

LEMMA PickIsUnused ==
  ASSUME ActiveCount \in Nat, NEW p, NEW s \in 0 .. ActiveCount - 1
  PROVE  Pick(p, s) \in (0 .. ActiveCount - 1) \ {p[t] : t \in 0 .. s - 1}
<1> DEFINE unused == (0 .. ActiveCount - 1) \ {p[t] : t \in 0 .. s - 1}
           fitting == {w \in unused : current_width[w] = crops[crop_schedule[s + 1]].target_width}
           among == IF fitting # {} THEN fitting ELSE unused
           n == ActiveCount
<1>1. unused # {} /\ unused \subseteq Nat
  <2>1. n \in Nat /\ s \in 0 .. n - 1
    OBVIOUS
  <2> HIDE DEF n
  <2>2. (0 .. n - 1) \ {p[t] : t \in 0 .. s - 1} # {}
    BY <2>1, SomeLeft
  <2>3. QED
    BY <2>2 DEF n
<1>2. among # {} /\ among \subseteq unused
  <2> HIDE DEF unused
  <2>1. QED
    BY <1>1
<1>3. Min(among) \in unused
  <2> HIDE DEF unused, among
  <2>1. QED
    BY <1>1, <1>2, MinOf
<1>4. QED
  BY <1>3 DEF Pick

(* Every active worker gets one of the first crops, and no two the same.   *)
LEMMA AssignmentIsPermutation ==
  ASSUME ActiveCount \in Nat
  PROVE  Assignment \in Bijection(0 .. ActiveCount - 1, 0 .. ActiveCount - 1)
<1> DEFINE n == ActiveCount
           Is(g, m) == g = [s \in 0 .. m - 1 |-> Pick(g, s)]
           S == {m \in Nat : \E g : Is(g, m)}
<1>1. 0 \in S
  <2> DEFINE g == [s \in 0 .. 0 - 1 |-> 0]
  <2>1. Is(g, 0)
    OBVIOUS
  <2>2. QED
    BY <2>1
<1>2. ASSUME NEW m \in Nat, m \in S PROVE m + 1 \in S
  <2>1. PICK g : Is(g, m)
    BY <1>2
  <2> DEFINE h == [s \in 0 .. (m + 1) - 1 |-> IF s = m THEN Pick(g, m) ELSE g[s]]
  <2>2. \A s \in 0 .. m - 1 : g[s] = Pick(g, s)
    BY <2>1
  <2> HIDE DEF Is
  <2>3. ASSUME NEW s \in 0 .. (m + 1) - 1 PROVE h[s] = Pick(h, s)
    <3>1. {h[t] : t \in 0 .. s - 1} = {g[t] : t \in 0 .. s - 1}
      <4>1. \A t \in 0 .. s - 1 : h[t] = g[t]
        OBVIOUS
      <4> HIDE DEF h
      <4>2. QED
        BY <4>1
    <3>2. Pick(h, s) = Pick(g, s)
      BY <3>1 DEF Pick
    <3>3. h[s] = Pick(g, s)
      BY <2>2
    <3>4. QED
      BY <3>2, <3>3
  <2>4. h = [s \in 0 .. (m + 1) - 1 |-> Pick(h, s)]
    <3>1. h = [s \in 0 .. (m + 1) - 1 |-> h[s]]
      OBVIOUS
    <3> HIDE DEF h
    <3>2. QED
      BY <2>3, <3>1
  <2>5. Is(h, m + 1)
    BY <2>4, Zenon DEF Is
  <2>6. QED
    BY <2>5
<1>3. n \in S
  <2> HIDE DEF S
  <2>1. QED
    BY <1>1, <1>2, Induction
<1>4. Assignment = CHOOSE g : Is(g, n)
  BY DEF Assignment, Pick
<1>5. Is(Assignment, n)
  <2>1. \E g : Is(g, n)
    BY <1>3
  <2> HIDE DEF Is
  <2>2. QED
    BY <1>4, <2>1
<1> DEFINE f == Assignment
<1>6. f = [s \in 0 .. n - 1 |-> f[s]] /\ \A s \in 0 .. n - 1 : f[s] = Pick(f, s)
  <2> HIDE DEF f
  <2>1. f = [s \in 0 .. n - 1 |-> Pick(f, s)]
    BY <1>5 DEF f
  <2>2. QED
    BY <2>1
<1>7. \A s \in 0 .. n - 1 : f[s] \in (0 .. n - 1) \ {f[t] : t \in 0 .. s - 1}
  <2> HIDE DEF f
  <2>1. QED
    BY <1>6, PickIsUnused
<1>8. QED
  <2> HIDE DEF f, n
  <2>1. f \in Bijection(0 .. n - 1, 0 .. n - 1)
    BY <1>6, <1>7, Permutation DEF n
  <2>2. QED
    BY <2>1 DEF f, n

-----------------------------------------------------------------------------
(* The inductive invariant.                                                *)

TypeInv ==
  /\ CropsTyped /\ BufferTyped /\ PageTyped
  /\ line_pool \in Nat /\ line_pool <= worker_count
  /\ crop_bands \in Seq([crop_index : CropIndex, row : Nat])
  /\ crop_band_capacity \in Nat /\ crop_band_status \in {"OK", "ERROR"}
  /\ scratch_lines \in [CropIndex -> Nat]
  /\ rpc \in {"idle", "reserve", "schedule", "running", "lines", "publish"}
  /\ callback \in {"none", "bands", "lines"}
  /\ request \in Nat /\ active \in Nat
  /\ crop_schedule \in Seq(CropIndex)
  /\ next_crop_slot \in Nat /\ initial_crop_slot \in [Indices -> Nat]
  /\ task_status \in [Indices -> {"OK", "ERROR"}]
  /\ cursor \in [Indices -> Nat] /\ slot \in [Indices -> Nat]
  /\ width \in Nat /\ width <= MaxWorkers
  /\ calls \in [Indices -> {0, 1}] /\ returns \in [Indices -> {0, 1}]

(* A callback runs exactly while its fork does, and a worker holds a slot  *)
(* of this page only while it runs.                                        *)
PhaseInv ==
  /\ rpc = "running" <=> callback # "none"
  /\ callback = "none" <=> width = 0
  /\ \A w \in Indices : slot[w] # NoSlot =>
       callback = "lines" /\ Inside(w) /\ slot[w] < line_count

(* The schedule names each line at most once, and in the end every line.   *)
ScheduleInv ==
  rpc # "idle" =>
    /\ \A i, j \in DOMAIN crop_schedule : crop_schedule[i] = crop_schedule[j] => i = j
    /\ Scheduled \subseteq Lines
    /\ rpc = "reserve" => crop_schedule = <<>>
    /\ rpc \notin {"reserve", "schedule"} =>
         Scheduled = Lines /\ Len(crop_schedule) = line_count

(* The records of a page are those of its boxes, and the crops that are    *)
(* scheduled lie one behind the other in the buffer.                       *)
GeometryInv ==
  rpc # "idle" => \A c \in Lines : crops[c].byte_count = Bytes(BoxOf(c))
After(c, d) == crops[c].offset + crops[c].byte_count <= crops[d].offset
LayoutInv ==
  rpc # "idle" =>
    /\ rpc = "reserve" => crop_used = 0
    /\ crop_used <= crop_capacity
    /\ \A c \in Scheduled : crops[c].offset + crops[c].byte_count <= crop_used
    /\ \A c, d \in Scheduled : c # d => After(c, d) \/ After(d, c)

(* While memory lasts, no page begins with bands of an earlier one.        *)
InBandPhase == rpc = "schedule" \/ callback = "bands"
FreshInv ==
  "memory" \notin setting.faults => ~left_over /\ (~InBandPhase => crop_bands = <<>>)

(* A page that begins with an empty list has the bands of what was         *)
(* scheduled, each row once.                                               *)
BandsInv ==
  rpc # "idle" /\ ~left_over =>
    /\ InBandPhase =>
         /\ \A i, j \in DOMAIN crop_bands : crop_bands[i] = crop_bands[j] => i = j
         /\ \A i \in DOMAIN crop_bands :
              /\ crop_bands[i].crop_index \in Scheduled
              /\ crop_bands[i].row < Height(crop_bands[i].crop_index)
    /\ ~InBandPhase => crop_bands = <<>>

(* A row of a crop that is scheduled has a band.  While the bands are      *)
(* rasterized one that is not yet drawn is on the stride of a worker that  *)
(* is still running.                                                       *)
HasBand(c, r) == \E i \in DOMAIN crop_bands : crop_bands[i] = [crop_index |-> c, row |-> r]
Covered(w, k) == w < width /\ returns[w] = 0 /\ \E q \in Nat : k = cursor[w] + q * width
Drawn(band) == \A p \in BandPlaces(band) : crop[p] = Pixel(band.crop_index, p)
BandsListed == InBandPhase => \A c \in Scheduled : \A r \in 0 .. Height(c) - 1 : HasBand(c, r)
BandsCovered ==
  callback = "bands" /\ ~left_over /\ crop_band_status = "OK" =>
    \A i \in DOMAIN crop_bands :
      Drawn(crop_bands[i]) \/ \E w \in Indices : Covered(w, i - 1)

(* No slot is held or promised twice, and a crop is whole as long as a     *)
(* worker may still come to it.                                            *)
ClaimOnce ==
  callback = "lines" =>
    /\ \A w \in Indices : slot[w] # NoSlot => slot[w] < next_crop_slot
    /\ \A v, w \in Indices : v # w /\ slot[v] # NoSlot => slot[v] # slot[w]
    /\ \A w \in Indices : w < active /\ initial_crop_slot[w] # NoSlot =>
         /\ initial_crop_slot[w] < next_crop_slot
         /\ \A v \in Indices : slot[v] # initial_crop_slot[w]
         /\ \A v \in Indices : v < active /\ v # w =>
              initial_crop_slot[v] # initial_crop_slot[w]
Open(s) ==
  \/ next_crop_slot <= s
  \/ \E w \in Indices : s = slot[w] \/ (w < active /\ s = initial_crop_slot[w])
LinesWhole ==
  ~left_over =>
    /\ rpc = "lines" => \A c \in Lines : CropWhole(c)
    /\ callback = "lines" =>
         \A s \in 0 .. line_count - 1 : Open(s) => CropWhole(crop_schedule[s + 1])

PixelsInv == GeometryInv /\ LayoutInv /\ FreshInv /\ BandsListed /\ BandsCovered
               /\ ClaimOnce /\ LinesWhole

(* A run of lines has as many indices as active workers, unless a thread   *)
(* did not start.  A line that is not recognized yet is still to be        *)
(* claimed, is held by a worker that runs, or was given up by one that     *)
(* failed; one that returned without failing found nothing left.           *)
PoolAsAsked == "threads" \notin setting.faults => line_pool \in {0, worker_count}
LinesRun ==
  callback = "lines" =>
    /\ active = ActiveCount /\ width <= active
    /\ "threads" \notin setting.faults => width = active
    /\ \A w \in Indices :
         /\ w < active /\ initial_crop_slot[w] # NoSlot => initial_crop_slot[w] < line_count
         /\ w < active /\ returns[w] = 1 /\ task_status[w] = "OK" => next_crop_slot >= line_count
Pending(w, s) ==
  /\ w < width
  /\ (returns[w] = 0 /\ s \in {initial_crop_slot[w], slot[w]}) \/ task_status[w] = "ERROR"
LinesPending ==
  callback = "lines" /\ width = active =>
    \A s \in 0 .. line_count - 1 :
      \/ scratch_lines[crop_schedule[s + 1]] = request
      \/ next_crop_slot <= s
      \/ \E w \in Indices : Pending(w, s)
LinesInv == PoolAsAsked /\ LinesRun /\ LinesPending /\ NoLineMissing

IInv == TypeInv /\ PhaseInv /\ ScheduleInv /\ BandsInv /\ PixelsInv /\ LinesInv

(* The sizes of a setting.                                                 *)
LEMMA Sizes ==
  ASSUME PageTyped
  PROVE  /\ MaxWorkers \in Nat /\ MaxCrops \in Nat /\ MaxHeight \in Nat
         /\ worker_count \in Nat /\ 1 <= worker_count /\ worker_count <= MaxWorkers
         /\ setting.crops \in Nat /\ setting.crops <= MaxCrops
         /\ setting.shapes \subseteq BoxRecord
         /\ line_count \in Nat /\ line_count <= MaxCrops
         /\ Lines \subseteq CropIndex /\ NoSlot \in Nat /\ NoSlot > MaxCrops
<1>1. setting \in [workers : 1 .. MaxWorkers, faults : SUBSET Faults, crops : 0 .. MaxCrops,
                   shapes : SUBSET Box, pages : 0 .. MaxRequests]
  BY SettingAssumption DEF PageTyped
<1>2. Box \subseteq BoxRecord
  <2>1. Widths \subseteq Nat /\ 0 .. MaxHeight \subseteq Nat /\ 1 .. MaxWidth \subseteq Nat
    BY WidthAssumption, CountAssumption
  <2>2. QED
    BY <2>1 DEF Box, BoxRecord
<1>3. MaxWorkers \in Nat /\ MaxCrops \in Nat /\ MaxHeight \in Nat
  BY CountAssumption
<1>4. /\ setting.workers \in 1 .. MaxWorkers /\ setting.crops \in 0 .. MaxCrops
      /\ setting.shapes \subseteq Box
  BY <1>1
<1>5. line_count \in 0 .. MaxCrops
  BY DEF PageTyped
<1>6. Lines \subseteq CropIndex /\ NoSlot \in Nat /\ NoSlot > MaxCrops
  BY <1>3, <1>5 DEF Lines, CropIndex, NoSlot
<1>7. QED
  BY <1>2, <1>3, <1>4, <1>5, <1>6 DEF worker_count

LEMMA Initially == Init => IInv
<1> SUFFICES ASSUME Init PROVE IInv
  OBVIOUS
<1>1. PageTyped
  BY CountAssumption DEF Init, PageTyped
<1>2. crop_bands \in Seq([crop_index : CropIndex, row : Nat]) /\ crop_schedule \in Seq(CropIndex)
  BY EmptySeq DEF Init
<1>3. CropsTyped /\ BufferTyped
  <2>1. 0 \in CropIndex
    BY CountAssumption DEF CropIndex
  <2>2. DOMAIN crop = 0 .. crop_capacity - 1
    BY DEF Init
  <2>3. QED
    BY <2>1, <2>2 DEF Init, CropsTyped, BufferTyped, CropRecord, BoxRecord
<1>4. TypeInv
  BY <1>1, <1>2, <1>3, Sizes DEF Init, TypeInv, PF!Init
<1>5. PhaseInv /\ ScheduleInv
  BY DEF Init, PhaseInv, ScheduleInv, PF!Init
<1>6. PixelsInv
  BY DEF Init, PixelsInv, GeometryInv, LayoutInv, FreshInv, BandsListed, BandsCovered,
     ClaimOnce, LinesWhole, InBandPhase
<1>7. BandsInv
  BY DEF Init, BandsInv, InBandPhase
<1>8. LinesInv
  BY DEF Init, LinesInv, PoolAsAsked, LinesRun, LinesPending, NoLineMissing, EveryLineRecognized
<1>9. QED
  BY <1>4, <1>5, <1>6, <1>7, <1>8 DEF IInv

(* A page comes in, whether it is detected or not.                         *)
LEMMA NewPage ==
  ASSUME TypeInv, NEW n \in 0 .. setting.crops, NEW boxes \in [0 .. n - 1 -> setting.shapes],
         NEW m \in 0 .. n, NEW index \in [0 .. m - 1 -> 0 .. n - 1],
         WriteRecords(n, boxes, m, index)
  PROVE  /\ m \in 0 .. MaxCrops
         /\ CropsTyped'
         /\ \A c \in 0 .. m - 1 : crops'[c].byte_count = Bytes(detected_boxes'[crops'[c].box_index])
<1>a. /\ MaxCrops \in Nat /\ setting.crops \in Nat /\ setting.crops <= MaxCrops
      /\ setting.shapes \subseteq BoxRecord
  BY Sizes DEF TypeInv
<1>1. n \in Nat /\ n <= MaxCrops /\ MaxCrops \in Nat /\ m \in 0 .. n
  BY <1>a
<1>2. ASSUME NEW b \in 0 .. n - 1 PROVE b \in CropIndex /\ boxes[b] \in BoxRecord
  <2>1. boxes[b] \in setting.shapes
    BY <1>2
  <2>2. QED
    BY <1>1, <1>2, <1>a, <2>1 DEF CropIndex
<1>3. ASSUME NEW b \in CropIndex PROVE detected_boxes'[b] \in BoxRecord
  <2>1. detected_boxes'[b] = IF b < n THEN boxes[b] ELSE detected_boxes[b]
    BY DEF WriteRecords
  <2>2. b < n => b \in 0 .. n - 1
    BY <1>1 DEF CropIndex
  <2>3. detected_boxes[b] \in BoxRecord
    BY DEF TypeInv, CropsTyped
  <2>4. QED
    BY <1>2, <2>1, <2>2, <2>3
<1> DEFINE record(c) == [offset |-> 0, byte_count |-> Bytes(boxes[index[c]]),
                         box_index |-> index[c], target_width |-> boxes[index[c]].target_width]
<1>4. ASSUME NEW c \in 0 .. m - 1
      PROVE  /\ index[c] \in 0 .. n - 1 /\ index[c] \in CropIndex
             /\ record(c) \in CropRecord
  <2>1. index[c] \in 0 .. n - 1
    BY <1>4
  <2>2. boxes[index[c]] \in BoxRecord
    BY <1>2, <2>1
  <2>3. Bytes(boxes[index[c]]) \in Nat /\ boxes[index[c]].target_width \in Nat
    BY <2>2 DEF Bytes, BoxRecord
  <2>4. QED
    BY <1>2, <2>1, <2>3 DEF CropRecord
<1>5. crops' = [c \in CropIndex |-> IF c < m THEN record(c) ELSE crops[c]]
  BY DEF WriteRecords
<1>6. ASSUME NEW c \in CropIndex PROVE crops'[c] \in CropRecord
  <2>1. c < m => c \in 0 .. m - 1
    BY <1>1 DEF CropIndex
  <2>2. crops[c] \in CropRecord
    BY DEF TypeInv, CropsTyped
  <2> HIDE DEF record
  <2>3. QED
    BY <1>4, <1>5, <2>1, <2>2
<1>7. CropsTyped'
  <2>1. detected_boxes' = [b \in CropIndex |-> detected_boxes'[b]]
    BY DEF WriteRecords
  <2>2. crops' = [c \in CropIndex |-> crops'[c]]
    BY <1>5
  <2>3. CropsTyped' <=> /\ crops' \in [CropIndex -> CropRecord]
                        /\ detected_boxes' \in [CropIndex -> BoxRecord]
    BY DEF CropsTyped, CropRecord, BoxRecord, CropIndex
  <2>4. QED
    BY <1>3, <1>6, <2>1, <2>2, <2>3
<1>8. ASSUME NEW c \in 0 .. m - 1
      PROVE  crops'[c].byte_count = Bytes(detected_boxes'[crops'[c].box_index])
  <2>1. c \in CropIndex /\ c < m
    BY <1>1 DEF CropIndex
  <2>2. crops'[c] = record(c)
    BY <1>5, <2>1
  <2>3. index[c] < n
    BY <1>1, <1>4
  <2>4. detected_boxes'[index[c]] = boxes[index[c]]
    BY <1>4, <2>3 DEF WriteRecords
  <2>5. QED
    BY <2>2, <2>4
<1>9. QED
  BY <1>1, <1>7, <1>8

(* The box of a crop.                                                      *)
LEMMA BoxTyped ==
  ASSUME TypeInv, NEW c \in CropIndex
  PROVE  /\ crops[c].offset \in Nat /\ crops[c].byte_count \in Nat
         /\ crops[c].box_index \in CropIndex
         /\ BoxOf(c).width \in Nat /\ Height(c) \in Nat
<1>1. crops[c] \in CropRecord
  BY DEF TypeInv, CropsTyped
<1>2. crops[c].box_index \in CropIndex
  BY <1>1 DEF CropRecord
<1>3. BoxOf(c) \in BoxRecord
  BY <1>2 DEF TypeInv, CropsTyped, BoxOf
<1>4. QED
  BY <1>1, <1>2, <1>3 DEF CropRecord, BoxRecord, Height

(* The bands of a crop.                                                    *)
LEMMA BandsOfCrop ==
  ASSUME TypeInv, NEW c \in CropIndex
  PROVE  /\ Bands(c) \in Seq([crop_index : CropIndex, row : Nat])
         /\ Height(c) \in Nat
         /\ Len(Bands(c)) = Height(c) /\ DOMAIN Bands(c) = 1 .. Height(c)
         /\ \A r \in 1 .. Height(c) : Bands(c)[r] = [crop_index |-> c, row |-> r - 1]
<1> DEFINE B == [crop_index : CropIndex, row : Nat]
<1>1. Height(c) \in Nat
  BY BoxTyped
<1>2. Bands(c) \in [1 .. Height(c) -> B]
  BY <1>1 DEF Bands
<1> HIDE DEF B
<1>3. Bands(c) \in Seq(B) /\ Len(Bands(c)) = Height(c)
  BY <1>1, <1>2
<1>4. QED
  BY <1>1, <1>3 DEF Bands, B

(* The bands with those of the next crop: the old ones first.              *)
LEMMA BandsAppended ==
  ASSUME TypeInv, NEW c \in CropIndex
  PROVE  LET bands == crop_bands \o Bands(c)
             n == Len(crop_bands)
         IN  /\ n \in Nat /\ DOMAIN crop_bands = 1 .. n /\ Height(c) \in Nat
             /\ bands \in Seq([crop_index : CropIndex, row : Nat])
             /\ Len(bands) = n + Height(c) /\ DOMAIN bands = 1 .. n + Height(c)
             /\ \A i \in 1 .. n : bands[i] = crop_bands[i]
             /\ \A i \in n + 1 .. n + Height(c) : bands[i] = [crop_index |-> c, row |-> i - n - 1]
<1> DEFINE B == [crop_index : CropIndex, row : Nat]
           bands == crop_bands \o Bands(c)
           n == Len(crop_bands)
           h == Height(c)
<1>1. /\ Bands(c) \in Seq(B) /\ h \in Nat /\ Len(Bands(c)) = h
      /\ \A r \in 1 .. h : Bands(c)[r] = [crop_index |-> c, row |-> r - 1]
  BY BandsOfCrop
<1>2. crop_bands \in Seq(B)
  BY DEF TypeInv
<1> HIDE DEF B
<1>3. n \in Nat /\ DOMAIN crop_bands = 1 .. n
  BY <1>2, LenProperties
<1> HIDE DEF h
<1>4. /\ bands \in Seq(B) /\ Len(bands) = n + h
      /\ \A i \in 1 .. n : bands[i] = crop_bands[i]
      /\ \A i \in n + 1 .. n + h : bands[i] = Bands(c)[i - n]
  <2>1. /\ bands \in Seq(B) /\ Len(bands) = Len(crop_bands) + Len(Bands(c))
        /\ \A i \in 1 .. Len(crop_bands) + Len(Bands(c)) :
             bands[i] = IF i <= Len(crop_bands) THEN crop_bands[i]
                                                ELSE Bands(c)[i - Len(crop_bands)]
    BY <1>1, <1>2, ConcatProperties
  <2>2. QED
    BY <1>1, <1>3, <2>1
<1>5. \A i \in n + 1 .. n + h : bands[i] = [crop_index |-> c, row |-> i - n - 1]
  <2>1. SUFFICES ASSUME NEW i \in n + 1 .. n + h PROVE bands[i] = [crop_index |-> c, row |-> i - n - 1]
    BY Zenon
  <2>2. i - n \in 1 .. h
    BY <1>1, <1>3
  <2>3. QED
    BY <1>1, <1>4, <2>2
<1>6. DOMAIN bands = 1 .. n + h
  BY <1>4, LenProperties
<1>7. QED
  BY <1>1, <1>3, <1>4, <1>5, <1>6 DEF B, h

(* The forks: a run is never wider than the threads there are.             *)
LEMMA RunWidths ==
  ASSUME TypeInv, NEW n \in Nat, NEW size \in Nat, size <= worker_count
  PROVE  /\ RunWidth(n, size) \in Nat \ {0} /\ RunWidth(n, size) <= MaxWorkers
         /\ Smaller(worker_count, n) \in Nat
<1>1. /\ MaxWorkers \in Nat /\ worker_count \in Nat /\ 1 <= worker_count
      /\ worker_count <= MaxWorkers
  BY Sizes DEF TypeInv
<1>2. QED
  BY <1>1 DEF RunWidth, Smaller

LEMMA PoolTyped ==
  ASSUME TypeInv, NEW needed, EnsurePool(needed)
  PROVE  /\ line_pool' \in Nat /\ line_pool' <= worker_count
         /\ PoolAsAsked /\ "threads" \notin setting.faults => line_pool' \in {0, worker_count}
<1>1. worker_count \in Nat /\ 1 <= worker_count
  BY Sizes DEF TypeInv
<1>2. QED
  BY <1>1 DEF EnsurePool, PoolSizes, TypeInv, PoolAsAsked

(* The crop that is scheduled next gets its place in the buffer.           *)
LEMMA CropPlaced ==
  ASSUME TypeInv, ScheduleCrop \/ ScheduleFails
  PROVE  /\ NextCrop \in Lines \ Scheduled /\ NextCrop \in CropIndex
         /\ crops' = [crops EXCEPT ![NextCrop].offset = crop_used]
         /\ crop_used' = crop_used + crops[NextCrop].byte_count
         /\ crop_capacity' >= crop_capacity /\ crop_capacity' >= crop_used'
         /\ CropsTyped' /\ BufferTyped'
<1>1. Lines \ Scheduled # {} /\ PlaceCrop(NextCrop)
      /\ EnsureCapacity(crop_used + crops[NextCrop].byte_count) /\ UNCHANGED detected_boxes
  BY DEF ScheduleCrop, ScheduleFails
<1>2. NextCrop \in Lines \ Scheduled /\ NextCrop \in CropIndex
  BY <1>1, Sizes, NextCropIsLeft DEF TypeInv
<1>3. /\ crops' = [crops EXCEPT ![NextCrop].offset = crop_used]
      /\ crop_used' = crop_used + crops[NextCrop].byte_count
  BY <1>1 DEF PlaceCrop
<1>4. crops[NextCrop].byte_count \in Nat /\ crop_used \in Nat /\ crop_capacity \in Nat
  BY <1>2, BoxTyped DEF TypeInv, BufferTyped
<1>5. crop_used' \in Nat /\ crop_capacity' \in Nat /\ crop_capacity' >= crop_capacity
      /\ crop_capacity' >= crop_used' /\ DOMAIN crop' = 0 .. crop_capacity' - 1
  BY <1>1, <1>3, <1>4 DEF EnsureCapacity, Larger
<1>6. CropsTyped'
  <2>1. crops \in [CropIndex -> CropRecord] /\ detected_boxes \in [CropIndex -> BoxRecord]
    BY DEF TypeInv, CropsTyped
  <2>2. [crops[NextCrop] EXCEPT !.offset = crop_used] \in CropRecord
    BY <1>2, <1>4, <2>1 DEF CropRecord
  <2>3. crops' \in [CropIndex -> CropRecord]
    BY <1>2, <1>3, <2>1, <2>2
  <2>4. QED
    BY <1>1, <2>1, <2>3 DEF CropsTyped, CropRecord, BoxRecord, CropIndex
<1>7. QED
  BY <1>2, <1>3, <1>5, <1>6 DEF BufferTyped

(* The records keep their form, and the buffer its places.                 *)
LEMMA RecordsStep ==
  ASSUME IInv, [Next]_vars
  PROVE  CropsTyped' /\ BufferTyped'
<1> TypeInv
  BY DEF IInv
<1>0. CropsTyped /\ BufferTyped
  BY DEF TypeInv
<1>1. ASSUME UNCHANGED records PROVE CropsTyped'
  BY <1>0, <1>1 DEF CropsTyped, CropRecord, BoxRecord, CropIndex
<1>2. ASSUME UNCHANGED <<crop_capacity, crop_used>>, DOMAIN crop' = DOMAIN crop
      PROVE  BufferTyped'
  BY <1>0, <1>2 DEF BufferTyped
<1>3. ASSUME UNCHANGED <<records, buffer, crop_used>> PROVE CropsTyped' /\ BufferTyped'
  BY <1>1, <1>2, <1>3
<1>4. ASSUME NEW n \in 0 .. setting.crops, NEW boxes \in [0 .. n - 1 -> setting.shapes],
             NEW j, NEW m \in 0 .. n, NEW index \in [0 .. m - 1 -> 0 .. n - 1],
             Detect(n, boxes, m, index) \/ DetectFails(n, boxes, j, m, index)
      PROVE  CropsTyped' /\ BufferTyped'
  <2>1. WriteRecords(n, boxes, m, index) /\ UNCHANGED buffer /\ crop_used' \in {0, crop_used}
    BY <1>4 DEF Detect, DetectFails
  <2>2. CropsTyped'
    BY <1>4, <2>1, NewPage
  <2>3. BufferTyped'
    BY <1>0, <2>1 DEF BufferTyped
  <2>4. QED
    BY <2>2, <2>3
<1>5. ASSUME Reserve PROVE CropsTyped' /\ BufferTyped'
  <2>1. /\ UNCHANGED <<records, crop_used>>
        /\ crop_capacity' = Larger(crop_capacity, planned_crop_bytes)
        /\ crop' = [p \in 0 .. crop_capacity' - 1 |-> Blank]
    BY <1>5 DEF Reserve
  <2>2. planned_crop_bytes \in Nat
    BY PlannedBytes DEF TypeInv
  <2>3. crop_capacity' \in Nat
    BY <1>0, <2>1, <2>2 DEF Larger, BufferTyped
  <2>4. QED
    BY <1>0, <1>1, <2>1, <2>3 DEF BufferTyped
<1>6. ASSUME ScheduleCrop \/ ScheduleFails PROVE CropsTyped' /\ BufferTyped'
  BY <1>6, CropPlaced
<1>7. ASSUME ReserveFails \/ StartBands \/ NoBands \/ BandsReturn \/ NoLines \/ StartLines
               \/ LinesReturn \/ ReportCapacity \/ Publish \/ UNCHANGED vars
      PROVE  CropsTyped' /\ BufferTyped'
  BY <1>3, <1>7 DEF ReserveFails, StartBands, NoBands, BandsReturn, NoLines, StartLines,
     LinesReturn, ReportCapacity, Publish, vars
<1>8. ASSUME NEW w \in Indices,
             Begin(w) \/ RasterBand(w) \/ RasterFails(w) \/ BandsDone(w)
               \/ Claim(w) \/ Recognize(w) \/ RecognizeFails(w)
      PROVE  CropsTyped' /\ BufferTyped'
  <2>1. UNCHANGED <<records, crop_capacity, crop_used>>
    BY <1>8 DEF Begin, RasterBand, RasterFails, BandsDone, Claim, Recognize, RecognizeFails
  <2>2. DOMAIN crop' = DOMAIN crop
    BY <1>8 DEF Begin, RasterBand, RasterFails, BandsDone, Claim, Recognize, RecognizeFails,
       Draw, MayTurn
  <2>3. QED
    BY <1>1, <1>2, <2>1, <2>2
<1>9. QED
  BY <1>4, <1>5, <1>6, <1>7, <1>8 DEF Next, NewRequest, RequestStep, CallbackStep

LEMMA TypeStep ==
  ASSUME IInv, [Next]_vars
  PROVE  TypeInv'
<1> TypeInv
  BY DEF IInv
<1>0. /\ MaxWorkers \in Nat /\ worker_count \in Nat /\ line_count \in Nat /\ NoSlot \in Nat
      /\ worker_count <= MaxWorkers /\ 1 <= worker_count /\ line_count <= MaxCrops
      /\ Lines \subseteq CropIndex /\ MaxCrops \in Nat
  BY Sizes DEF TypeInv
<1>a. CropsTyped' /\ BufferTyped'
  BY RecordsStep
<1>1. ASSUME UNCHANGED vars PROVE TypeInv'
  BY <1>1, <1>a DEF vars, TypeInv, PageTyped, worker_count
<1> USE DEF TypeInv, PageTyped, worker_count
<1>2. ASSUME NEW n \in 0 .. setting.crops, NEW boxes \in [0 .. n - 1 -> setting.shapes],
             NEW j, NEW m \in 0 .. n, NEW index \in [0 .. m - 1 -> 0 .. n - 1],
             UNCHANGED setting,
             Detect(n, boxes, m, index) \/ DetectFails(n, boxes, j, m, index)
      PROVE  TypeInv'
  <2>1. m \in 0 .. MaxCrops
    BY <1>0, <1>2, Sizes
  <2>2. <<>> \in Seq(CropIndex)
    BY EmptySeq
  <2>3. CASE Detect(n, boxes, m, index)
    <3>1. /\ line_count' = m /\ request' = request + 1 /\ crop_schedule' = <<>>
          /\ rpc' = "reserve"
          /\ UNCHANGED <<line_pool, crop_bands, crop_band_capacity, crop_band_status,
                        scratch_lines, next_crop_slot, initial_crop_slot, task_status,
                        active, callback, cursor, slot, width, calls, returns>>
      BY <2>3 DEF Detect
    <3>2. QED
      BY <1>2, <1>a, <2>1, <2>2, <3>1
  <2>4. CASE DetectFails(n, boxes, j, m, index)
    <3>1. /\ request' = request + 1 /\ rpc' = "idle"
          /\ UNCHANGED <<line_pool, crop_bands, crop_band_capacity, crop_band_status,
                        scratch_lines, line_count, crop_schedule, next_crop_slot,
                        initial_crop_slot, task_status, active, callback, cursor, slot,
                        width, calls, returns>>
      BY <2>4 DEF DetectFails, ReturnError
    <3>2. QED
      BY <1>2, <1>a, <3>1
  <2>5. QED
    BY <1>2, <2>3, <2>4
<1>3. ASSUME UNCHANGED setting, ScheduleCrop PROVE TypeInv'
  <2>1. NextCrop \in CropIndex
    BY <1>3, CropPlaced
  <2>2. crop_bands' \in Seq([crop_index : CropIndex, row : Nat]) /\ Len(crop_bands') \in Nat
    BY <1>3, <2>1, BandsAppended, LenProperties DEF ScheduleCrop
  <2>3. crop_schedule' \in Seq(CropIndex)
    BY <1>3, <2>1, AppendProperties DEF ScheduleCrop, PlaceCrop
  <2>4. crop_band_capacity' \in Nat
    BY <1>3, <2>2, CapacityGrows DEF ScheduleCrop
  <2>5. QED
    BY <1>3, <1>a, <2>2, <2>3, <2>4 DEF ScheduleCrop
<1>4. ASSUME UNCHANGED setting, ScheduleFails PROVE TypeInv'
  <2> DEFINE bands == crop_bands \o Bands(NextCrop)
             B == [crop_index : CropIndex, row : Nat]
  <2>1. NextCrop \in CropIndex
    BY <1>4, CropPlaced
  <2>2. bands \in Seq(B)
    BY <2>1, BandsAppended
  <2>3. crop_bands' = SubSeq(bands, 1, crop_band_capacity) /\ Len(bands) > crop_band_capacity
    BY <1>4 DEF ScheduleFails
  <2> HIDE DEF bands, B
  <2>4. Len(bands) \in Nat /\ \A i \in 1 .. Len(bands) : bands[i] \in B
    BY <2>2, LenProperties, ElementOfSeq
  <2>5. SubSeq(bands, 1, crop_band_capacity) \in Seq(B)
    BY <2>3, <2>4, SubSeqProperties
  <2>6. crop_bands' \in Seq([crop_index : CropIndex, row : Nat])
    BY <2>3, <2>5 DEF B
  <2>7. crop_schedule' \in Seq(CropIndex)
    BY <1>4, <2>1, AppendProperties DEF ScheduleFails, PlaceCrop
  <2>8. QED
    BY <1>4, <1>a, <2>6, <2>7 DEF ScheduleFails, ReturnError
<1>5. ASSUME UNCHANGED setting, StartBands PROVE TypeInv'
  <2>1. Len(crop_bands) \in Nat
    BY LenProperties
  <2>2. line_pool' \in Nat /\ line_pool' <= worker_count
    BY <1>5, PoolTyped DEF StartBands
  <2>3. width' \in Nat /\ width' <= MaxWorkers
    BY <1>5, <2>1, <2>2, RunWidths DEF StartBands, PF!Start
  <2>4. /\ calls' \in [Indices -> {0, 1}] /\ returns' \in [Indices -> {0, 1}]
        /\ cursor' \in [Indices -> Nat]
    BY <1>5 DEF StartBands, PF!Start, Indices
  <2>5. QED
    BY <1>5, <1>a, <2>2, <2>3, <2>4 DEF StartBands
<1>6. ASSUME UNCHANGED setting, StartLines PROVE TypeInv'
  <2> DEFINE n == ActiveCount
  <2>1. n \in Nat /\ n <= MaxWorkers
    BY <1>0 DEF ActiveCount, Smaller
  <2>2. line_pool' \in Nat /\ line_pool' <= worker_count
    BY <1>6, PoolTyped DEF StartLines
  <2>3. width' \in Nat /\ width' <= MaxWorkers
    <3>1. RunWidth(n, line_pool') \in Nat /\ RunWidth(n, line_pool') <= MaxWorkers
      BY <2>1, <2>2, RunWidths
    <3>2. QED
      BY <1>6, <2>1, <3>1 DEF StartLines, PF!Start
  <2>4. /\ calls' \in [Indices -> {0, 1}] /\ returns' \in [Indices -> {0, 1}]
        /\ slot' \in [Indices -> Nat]
    BY <1>0, <1>6 DEF StartLines, PF!Start
  <2>5. initial_crop_slot' \in [Indices -> Nat]
    <3>1. Assignment \in Bijection(0 .. n - 1, 0 .. n - 1)
      BY <2>1, AssignmentIsPermutation
    <3>2. ASSUME NEW w \in Indices, w < n
          PROVE  (CHOOSE s \in 0 .. n - 1 : Assignment[s] = w) \in Nat
      <4>1. w \in 0 .. n - 1
        BY <2>1, <3>2 DEF Indices
      <4>2. \E s \in 0 .. n - 1 : Assignment[s] = w
        BY <3>1, <4>1 DEF Bijection, Surjection
      <4>3. (CHOOSE s \in 0 .. n - 1 : Assignment[s] = w) \in 0 .. n - 1
        <5> HIDE DEF n
        <5>1. QED
          BY <4>2
      <4>4. QED
        BY <2>1, <4>3
    <3>3. QED
      BY <1>6, <3>2 DEF StartLines
  <2>6. task_status' \in [Indices -> {"OK", "ERROR"}]
    BY <1>6 DEF StartLines
  <2>7. /\ active' = n /\ next_crop_slot' = n /\ callback' = "lines" /\ rpc' = "running"
        /\ UNCHANGED <<crop_bands, crop_band_capacity, crop_band_status,
                 scratch_lines, current_width, request, line_count,
                 crop_schedule, cursor, published>>
    BY <1>6 DEF StartLines
  <2> HIDE DEF n
  <2>8. QED
    BY <1>6, <1>a, <2>1, <2>2, <2>3, <2>4, <2>5, <2>6, <2>7
<1>7. ASSUME UNCHANGED setting, BandsReturn PROVE TypeInv'
  <2>1. <<>> \in Seq([crop_index : CropIndex, row : Nat])
    BY EmptySeq
  <2>2. /\ crop_bands' = <<>> /\ callback' = "none" /\ rpc' \in {"lines", "idle"} /\ width' = 0
        /\ UNCHANGED <<line_pool, crop_band_capacity, crop_band_status,
                      scratch_lines, request, line_count, crop_schedule, next_crop_slot,
                      initial_crop_slot, task_status, active, cursor, slot,
                      calls, returns>>
    BY <1>7 DEF BandsReturn, PF!Return, ReturnError
  <2>3. QED
    BY <1>0, <1>7, <1>a, <2>1, <2>2
<1>8. ASSUME UNCHANGED setting,
             Reserve \/ ReserveFails \/ NoBands \/ NoLines \/ LinesReturn \/ ReportCapacity \/ Publish
      PROVE  TypeInv'
  <2>1. /\ rpc' \in {"idle", "schedule", "lines", "publish"} /\ callback' \in {callback, "none"}
        /\ width' \in {width, 0}
        /\ UNCHANGED <<line_pool, crop_bands, crop_band_capacity, crop_band_status,
                      scratch_lines, request, line_count, crop_schedule, next_crop_slot,
                      initial_crop_slot, task_status, active, cursor, slot,
                      calls, returns>>
    BY <1>8 DEF Reserve, ReserveFails, NoBands, NoLines, LinesReturn, ReportCapacity, Publish,
       PF!Return, ReturnError
  <2>2. QED
    BY <1>0, <1>8, <1>a, <2>1
<1>9. ASSUME NEW w \in Indices, UNCHANGED setting, Begin(w) \/ BandsDone(w)
      PROVE  TypeInv'
  BY <1>9, <1>a DEF Begin, BandsDone, PF!Begin, PF!End
<1>10. ASSUME NEW w \in Indices, UNCHANGED setting, RasterBand(w) \/ RasterFails(w)
       PROVE  TypeInv'
  <2>1. cursor' \in [Indices -> Nat]
    <3>1. cursor' = [cursor EXCEPT ![w] = @ + width]
      BY <1>10 DEF RasterBand, RasterFails
    <3>2. QED
      BY <3>1
  <2>2. /\ crop_band_status' \in {crop_band_status, "ERROR"}
        /\ UNCHANGED <<line_pool, crop_bands, crop_band_capacity, scratch_lines,
                      rpc, request, line_count, crop_schedule, next_crop_slot,
                      initial_crop_slot, task_status, active, callback, slot,
                      width, calls, returns>>
    BY <1>10 DEF RasterBand, RasterFails
  <2>3. QED
    BY <1>10, <1>a, <2>1, <2>2
<1>11. ASSUME NEW w \in Indices, UNCHANGED setting, Claim(w)
       PROVE  TypeInv'
  <2>1. next_crop_slot' \in Nat /\ initial_crop_slot' \in [Indices -> Nat]
    BY <1>0, <1>11 DEF Claim
  <2>2. slot' \in [Indices -> Nat] /\ returns' \in [Indices -> {0, 1}]
    BY <1>0, <1>11 DEF Claim, PF!End
  <2>3. UNCHANGED <<line_pool, crop_bands, crop_band_capacity, crop_band_status,
                    scratch_lines, rpc, request, line_count, crop_schedule, task_status,
                    active, callback, cursor, width, calls>>
    BY <1>11 DEF Claim, PF!End
  <2>4. QED
    BY <1>11, <1>a, <2>1, <2>2, <2>3
<1>12. ASSUME NEW w \in Indices, UNCHANGED setting, Recognize(w)
       PROVE  TypeInv'
  <2>1. scratch_lines' \in [CropIndex -> Nat] /\ slot' \in [Indices -> Nat]
    BY <1>0, <1>12 DEF Recognize
  <2>2. UNCHANGED <<line_pool, crop_bands, crop_band_capacity, crop_band_status,
                    rpc, request, line_count, crop_schedule, next_crop_slot,
                    initial_crop_slot, task_status, active, callback, cursor,
                    width, calls, returns>>
    BY <1>12 DEF Recognize
  <2>3. QED
    BY <1>12, <1>a, <2>1, <2>2
<1>13. ASSUME NEW w \in Indices, UNCHANGED setting, RecognizeFails(w)
       PROVE  TypeInv'
  <2>1. /\ task_status' \in [Indices -> {"OK", "ERROR"}] /\ slot' \in [Indices -> Nat]
        /\ returns' \in [Indices -> {0, 1}]
    BY <1>0, <1>13 DEF RecognizeFails, PF!End
  <2>2. UNCHANGED <<line_pool, crop_bands, crop_band_capacity, crop_band_status,
                    scratch_lines, rpc, request, line_count, crop_schedule,
                    next_crop_slot, initial_crop_slot, active, callback, cursor,
                    width, calls>>
    BY <1>13 DEF RecognizeFails, PF!End
  <2>3. QED
    BY <1>13, <1>a, <2>1, <2>2
<1>14. QED
  BY <1>1, <1>2, <1>3, <1>4, <1>5, <1>6, <1>7, <1>8, <1>9, <1>10, <1>11, <1>12, <1>13
     DEF Next, NewRequest, RequestStep, CallbackStep

(* Nobody holds a slot outside a run of lines.                             *)
LEMMA NoSlots ==
  ASSUME PhaseInv, callback # "lines"
  PROVE  \A w \in Indices : slot[w] = NoSlot
BY DEF PhaseInv

LEMMA PhaseStep ==
  ASSUME IInv, [Next]_vars
  PROVE  PhaseInv'
<1> PhaseInv
  BY DEF IInv
<1>0. /\ calls \in [Indices -> {0, 1}] /\ returns \in [Indices -> {0, 1}]
      /\ slot \in [Indices -> Nat] /\ width \in Nat /\ line_count \in Nat
  BY Sizes DEF IInv, TypeInv
<1> USE DEF PhaseInv, Inside
<1>1. ASSUME UNCHANGED vars PROVE PhaseInv'
  BY <1>1 DEF vars, NoSlot
<1>2. ASSUME rpc # "running", rpc' # "running", UNCHANGED <<callback, slot, width>>
      PROVE  PhaseInv'
  BY <1>2 DEF NoSlot
<1>3. ASSUME NEW n, NEW boxes, NEW j, NEW m, NEW index,
             Detect(n, boxes, m, index) \/ DetectFails(n, boxes, j, m, index)
      PROVE  PhaseInv'
  <2>1. /\ rpc # "running" /\ rpc' # "running" /\ UNCHANGED <<callback, slot, width>>
    BY <1>3 DEF Detect, DetectFails, ReturnError
  <2>2. QED
    BY <1>2, <2>1
<1>4. ASSUME Reserve \/ ReserveFails \/ ScheduleCrop \/ ScheduleFails \/ NoBands \/ NoLines
               \/ ReportCapacity \/ Publish
      PROVE  PhaseInv'
  <2>1. /\ rpc # "running" /\ rpc' # "running" /\ UNCHANGED <<callback, slot, width>>
    BY <1>4 DEF Reserve, ReserveFails, ScheduleCrop, ScheduleFails, NoBands, NoLines,
       ReportCapacity, Publish, ReturnError
  <2>2. QED
    BY <1>2, <2>1
<1>5. ASSUME StartBands \/ StartLines PROVE PhaseInv'
  <2>1. rpc' = "running" /\ callback' # "none" /\ width' # 0
    BY <1>5 DEF StartBands, StartLines, PF!Start
  <2>2. \A w \in Indices : slot'[w] = NoSlot'
    BY <1>5 DEF StartBands, StartLines, NoSlot
  <2>3. QED
    BY <2>1, <2>2
<1>6. ASSUME BandsReturn \/ LinesReturn PROVE PhaseInv'
  <2>1. /\ \A w \in Indices : w < width => returns[w] = 1
        /\ rpc' # "running" /\ callback' = "none" /\ width' = 0 /\ UNCHANGED slot
    BY <1>6 DEF BandsReturn, LinesReturn, PF!Return, PF!AllReturned, ReturnError
  <2>2. \A w \in Indices : slot[w] = NoSlot
    BY <2>1
  <2>3. QED
    BY <2>1, <2>2 DEF NoSlot
<1>7. ASSUME NEW w \in Indices, Begin(w) PROVE PhaseInv'
  <2>1. /\ calls[w] = 0 /\ calls' = [calls EXCEPT ![w] = 1]
        /\ UNCHANGED <<rpc, callback, slot, width, returns, line_count>>
    BY <1>7 DEF Begin, PF!Begin
  <2>2. QED
    BY <1>0, <2>1 DEF NoSlot
<1>8. ASSUME NEW w \in Indices, RasterBand(w) \/ RasterFails(w) PROVE PhaseInv'
  <2>1. UNCHANGED <<rpc, callback, slot, width, calls, returns, line_count>>
    BY <1>8 DEF RasterBand, RasterFails
  <2>2. QED
    BY <2>1 DEF NoSlot
<1>9. ASSUME NEW w \in Indices, BandsDone(w) PROVE PhaseInv'
  <2>1. callback = "bands" /\ UNCHANGED <<rpc, callback, slot, width>>
    BY <1>9 DEF BandsDone, PF!End
  <2>2. QED
    BY <2>1 DEF NoSlot
<1>10. ASSUME NEW w \in Indices, Claim(w) PROVE PhaseInv'
  <2>1. /\ callback = "lines" /\ Inside(w) /\ slot[w] = NoSlot
        /\ UNCHANGED <<rpc, callback, width, calls, line_count>>
    BY <1>10 DEF Claim, PF!End
  <2>2. CASE \E k : k < line_count /\ slot' = [slot EXCEPT ![w] = k] /\ UNCHANGED returns
    BY <1>0, <2>1, <2>2 DEF NoSlot
  <2>3. CASE returns' = [returns EXCEPT ![w] = 1] /\ UNCHANGED slot
    BY <1>0, <2>1, <2>3 DEF NoSlot
  <2>4. QED
    BY <1>10, <2>2, <2>3 DEF Claim, PF!End
<1>11. ASSUME NEW w \in Indices, Recognize(w) \/ RecognizeFails(w) PROVE PhaseInv'
  <2>1. /\ callback = "lines" /\ Inside(w) /\ slot' = [slot EXCEPT ![w] = NoSlot]
        /\ returns' = [returns EXCEPT ![w] = 1] \/ UNCHANGED returns
        /\ UNCHANGED <<rpc, callback, width, calls, line_count>>
    BY <1>11 DEF Recognize, RecognizeFails, PF!End
  <2>2. QED
    BY <1>0, <2>1 DEF NoSlot
<1>12. QED
  BY <1>1, <1>3, <1>4, <1>5, <1>6, <1>7, <1>8, <1>9, <1>10, <1>11
     DEF Next, NewRequest, RequestStep, CallbackStep

(* The schedule grows by one crop at its end.                              *)
LEMMA ScheduleAppended ==
  ASSUME TypeInv, NEW c \in CropIndex, crop_schedule' = Append(crop_schedule, c)
  PROVE  LET n == Len(crop_schedule)
         IN  /\ n \in Nat /\ DOMAIN crop_schedule = 1 .. n
             /\ DOMAIN crop_schedule' = 1 .. n + 1
             /\ \A i \in 1 .. n : crop_schedule'[i] = crop_schedule[i]
             /\ crop_schedule'[n + 1] = c
             /\ Scheduled' = Scheduled \cup {c}
<1> DEFINE n == Len(crop_schedule)
<1>1. crop_schedule \in Seq(CropIndex)
  BY DEF TypeInv
<1>2. n \in Nat /\ DOMAIN crop_schedule = 1 .. n
  BY <1>1, LenProperties
<1>3. /\ crop_schedule' \in Seq(CropIndex) /\ Len(crop_schedule') = n + 1
      /\ \A i \in 1 .. n : crop_schedule'[i] = crop_schedule[i]
      /\ crop_schedule'[n + 1] = c
  BY <1>1, AppendProperties
<1>4. DOMAIN crop_schedule' = 1 .. n + 1
  BY <1>3, LenProperties
<1> HIDE DEF n
<1>5. Scheduled' = Scheduled \cup {c}
  <2>1. \A i \in 1 .. n + 1 : i \in 1 .. n \/ i = n + 1
    BY <1>2
  <2>2. n + 1 \in 1 .. n + 1 /\ 1 .. n \subseteq 1 .. n + 1
    BY <1>2
  <2>3. QED
    BY <1>2, <1>3, <1>4, <2>1, <2>2 DEF Scheduled
<1>6. QED
  BY <1>2, <1>3, <1>4, <1>5 DEF n

(* A schedule of every line that names none twice is as long as the page.  *)
LEMMA ScheduleIsFull ==
  ASSUME TypeInv, Scheduled = Lines,
         \A i, j \in DOMAIN crop_schedule : crop_schedule[i] = crop_schedule[j] => i = j
  PROVE  Len(crop_schedule) = line_count
<1> DEFINE n == Len(crop_schedule)
           S == 1 .. n
           T == 0 .. line_count - 1
<1>1. /\ crop_schedule \in Seq(CropIndex) /\ line_count \in Nat
  BY Sizes DEF TypeInv
<1>2. n \in Nat /\ crop_schedule \in [S -> CropIndex] /\ DOMAIN crop_schedule = S
  BY <1>1, LenProperties
<1>3. T = Lines /\ {crop_schedule[s] : s \in S} = T
  BY <1>2 DEF Lines, Scheduled
<1>4. IsFiniteSet(S) /\ Cardinality(S) = n
  BY <1>2, 1 \in Int, n \in Int, FS_Interval
<1>5. IsFiniteSet(T) /\ Cardinality(T) = line_count
  BY <1>1, 0 \in Int, line_count - 1 \in Int, FS_Interval
<1>6. crop_schedule \in Bijection(S, T)
  <2> HIDE DEF S, T
  <2>1. crop_schedule \in [S -> T] /\ \A t \in T : \E s \in S : crop_schedule[s] = t
    BY <1>2, <1>3
  <2>2. \A i, j \in S : crop_schedule[i] = crop_schedule[j] => i = j
    BY <1>2
  <2>3. QED
    BY <2>1, <2>2, Fun_IsBij
<1>7. Cardinality(T) = Cardinality(S)
  <2> HIDE DEF S, T
  <2>1. QED
    BY <1>4, <1>6, FS_Bijection DEF ExistsBijection
<1>8. QED
  BY <1>4, <1>5, <1>7

LEMMA ScheduleStep ==
  ASSUME IInv, [Next]_vars
  PROVE  ScheduleInv'
<1> TypeInv /\ PhaseInv /\ ScheduleInv
  BY DEF IInv
<1>0. UNCHANGED <<crop_schedule, line_count>> => UNCHANGED <<Scheduled, Lines>>
  BY DEF Scheduled, Lines
<1>1. ASSUME UNCHANGED vars PROVE ScheduleInv'
  BY <1>0, <1>1 DEF vars, ScheduleInv
<1>2. ASSUME NEW n, NEW boxes, NEW j, NEW m, NEW index,
             Detect(n, boxes, m, index) \/ DetectFails(n, boxes, j, m, index)
      PROVE  ScheduleInv'
  BY <1>2 DEF Detect, DetectFails, ReturnError, ScheduleInv, Scheduled
<1>3. ASSUME Reserve PROVE ScheduleInv'
  <2>1. rpc = "reserve" /\ rpc' = "schedule" /\ UNCHANGED <<crop_schedule, line_count>>
    BY <1>3 DEF Reserve
  <2>2. QED
    BY <1>0, <2>1 DEF ScheduleInv
<1>4. ASSUME ScheduleCrop PROVE ScheduleInv'
  <2> DEFINE n == Len(crop_schedule)
  <2>1. NextCrop \in Lines \ Scheduled /\ NextCrop \in CropIndex
    BY <1>4, CropPlaced
  <2>2. /\ crop_schedule' = Append(crop_schedule, NextCrop) /\ UNCHANGED line_count
        /\ rpc = "schedule" /\ rpc' = "schedule"
    BY <1>4 DEF ScheduleCrop, PlaceCrop
  <2>3. /\ n \in Nat /\ DOMAIN crop_schedule = 1 .. n
        /\ DOMAIN crop_schedule' = 1 .. n + 1
        /\ \A i \in 1 .. n : crop_schedule'[i] = crop_schedule[i]
        /\ crop_schedule'[n + 1] = NextCrop
        /\ Scheduled' = Scheduled \cup {NextCrop}
    BY <2>1, <2>2, ScheduleAppended
  <2>4. \A i \in 1 .. n : crop_schedule[i] # NextCrop
    BY <2>1, <2>3 DEF Scheduled
  <2>5. Scheduled' \subseteq Lines'
    BY <2>1, <2>2, <2>3 DEF ScheduleInv, Lines
  <2> HIDE DEF n
  <2>6. ASSUME NEW i \in 1 .. n + 1, NEW j \in 1 .. n + 1, crop_schedule'[i] = crop_schedule'[j]
        PROVE  i = j
    <3>1. /\ i \in 1 .. n \/ i = n + 1
          /\ j \in 1 .. n \/ j = n + 1
      BY <2>3
    <3>2. QED
      BY <2>2, <2>3, <2>4, <2>6, <3>1 DEF ScheduleInv
  <2>7. QED
    BY <2>2, <2>3, <2>5, <2>6 DEF ScheduleInv
<1>5. ASSUME StartBands \/ NoBands PROVE ScheduleInv'
  <2>1. /\ rpc = "schedule" /\ Lines \subseteq Scheduled /\ rpc' # "reserve"
        /\ UNCHANGED <<crop_schedule, line_count>>
    BY <1>5 DEF StartBands, NoBands
  <2>2. Scheduled = Lines
    BY <2>1 DEF ScheduleInv
  <2>3. Len(crop_schedule) = line_count
    BY <2>1, <2>2, ScheduleIsFull DEF ScheduleInv
  <2>4. QED
    BY <1>0, <2>1, <2>2, <2>3 DEF ScheduleInv
<1>6. ASSUME rpc' = "idle" PROVE ScheduleInv'
  BY <1>6 DEF ScheduleInv
<1>7. ASSUME rpc' = rpc \/ (rpc \notin {"idle", "reserve", "schedule"} /\ rpc' # "reserve"),
             UNCHANGED <<crop_schedule, line_count>>
      PROVE  ScheduleInv'
  BY <1>0, <1>7 DEF ScheduleInv
<1>8. ASSUME ReserveFails \/ ScheduleFails \/ ReportCapacity \/ Publish PROVE ScheduleInv'
  BY <1>6, <1>8 DEF ReserveFails, ScheduleFails, ReportCapacity, Publish, ReturnError
<1>9. ASSUME BandsReturn \/ NoLines \/ StartLines \/ LinesReturn PROVE ScheduleInv'
  <2>1. /\ UNCHANGED <<crop_schedule, line_count>>
        /\ rpc' = "idle" \/ rpc' # "reserve"
        /\ rpc = "lines" \/ callback # "none"
    BY <1>9 DEF BandsReturn, NoLines, StartLines, LinesReturn, ReturnError
  <2>2. QED
    BY <1>6, <1>7, <2>1 DEF PhaseInv
<1>10. ASSUME NEW w \in Indices,
             Begin(w) \/ RasterBand(w) \/ RasterFails(w) \/ BandsDone(w)
               \/ Claim(w) \/ Recognize(w) \/ RecognizeFails(w)
      PROVE  ScheduleInv'
  <2>1. UNCHANGED <<rpc, crop_schedule, line_count>>
    BY <1>10 DEF Begin, RasterBand, RasterFails, BandsDone, Claim, Recognize,
       RecognizeFails
  <2>2. QED
    BY <1>7, <2>1
<1>11. QED
  BY <1>1, <1>2, <1>3, <1>4, <1>5, <1>8, <1>9, <1>10
     DEF Next, NewRequest, RequestStep, CallbackStep

(* The records of a page are written once, but for their place.            *)
LEMMA GeometryStep ==
  ASSUME IInv, [Next]_vars
  PROVE  GeometryInv'
<1> TypeInv /\ PhaseInv /\ GeometryInv
  BY DEF IInv, PixelsInv
<1>0. ASSUME rpc' = "idle" \/ rpc # "idle", UNCHANGED <<records, line_count>> PROVE GeometryInv'
  BY <1>0 DEF GeometryInv, BoxOf, Bytes, Lines
<1>1. ASSUME UNCHANGED vars PROVE GeometryInv'
  BY <1>1 DEF vars, GeometryInv, BoxOf, Bytes, Lines
<1>2. ASSUME NEW n \in 0 .. setting.crops, NEW boxes \in [0 .. n - 1 -> setting.shapes],
             NEW j, NEW m \in 0 .. n, NEW index \in [0 .. m - 1 -> 0 .. n - 1],
             Detect(n, boxes, m, index) \/ DetectFails(n, boxes, j, m, index)
      PROVE  GeometryInv'
  <2>1. ASSUME Detect(n, boxes, m, index) PROVE GeometryInv'
    <3>1. WriteRecords(n, boxes, m, index) /\ line_count' = m
      BY <2>1 DEF Detect
    <3>2. \A c \in 0 .. m - 1 : crops'[c].byte_count = Bytes(detected_boxes'[crops'[c].box_index])
      BY <3>1, NewPage
    <3>3. QED
      BY <3>1, <3>2 DEF GeometryInv, BoxOf, Bytes, Lines
  <2>2. QED
    BY <1>2, <2>1 DEF DetectFails, ReturnError, GeometryInv
<1>3. ASSUME ScheduleCrop PROVE GeometryInv'
  <2>1. /\ NextCrop \in CropIndex /\ crops' = [crops EXCEPT ![NextCrop].offset = crop_used]
        /\ rpc # "idle" /\ UNCHANGED <<detected_boxes, line_count>>
    BY <1>3, CropPlaced DEF ScheduleCrop
  <2>2. ASSUME NEW c \in Lines
        PROVE  crops'[c].byte_count = crops[c].byte_count /\ crops'[c].box_index = crops[c].box_index
    <3>1. c \in CropIndex /\ crops \in [CropIndex -> CropRecord]
      BY <2>2, Sizes DEF TypeInv, CropsTyped
    <3>2. QED
      BY <2>1, <3>1 DEF CropRecord
  <2>3. QED
    BY <2>1, <2>2 DEF GeometryInv, BoxOf, Bytes, Lines
<1>4. ASSUME Reserve \/ ReserveFails \/ ScheduleFails \/ StartBands \/ NoBands \/ BandsReturn
               \/ NoLines \/ StartLines \/ LinesReturn \/ ReportCapacity \/ Publish
      PROVE  GeometryInv'
  <2>1. \/ rpc' = "idle"
        \/ rpc # "idle" /\ UNCHANGED <<records, line_count>>
        \/ callback # "none" /\ UNCHANGED <<records, line_count>>
    BY <1>4 DEF Reserve, ReserveFails, ScheduleFails, StartBands, NoBands, BandsReturn,
       NoLines, StartLines, LinesReturn, ReportCapacity, Publish, ReturnError
  <2>2. rpc' = "idle" => GeometryInv'
    BY DEF GeometryInv
  <2>3. QED
    BY <1>0, <2>1, <2>2 DEF PhaseInv
<1>5. ASSUME NEW w \in Indices,
             Begin(w) \/ RasterBand(w) \/ RasterFails(w) \/ BandsDone(w)
               \/ Claim(w) \/ Recognize(w) \/ RecognizeFails(w)
      PROVE  GeometryInv'
  <2>1. UNCHANGED <<rpc, records, line_count>>
    BY <1>5 DEF Begin, RasterBand, RasterFails, BandsDone, Claim, Recognize, RecognizeFails
  <2>2. QED
    BY <1>0, <2>1
<1>6. QED
  BY <1>1, <1>2, <1>3, <1>4, <1>5 DEF Next, NewRequest, RequestStep, CallbackStep

(* Crops are laid one behind the other, and the buffer holds them.         *)
LEMMA LayoutStep ==
  ASSUME IInv, [Next]_vars
  PROVE  LayoutInv'
<1> TypeInv /\ PhaseInv /\ ScheduleInv /\ LayoutInv
  BY DEF IInv, PixelsInv
<1>0. ASSUME rpc' = "idle" \/ (rpc # "idle" /\ rpc' # "reserve"),
             UNCHANGED <<crops, crop_used, crop_schedule, crop_capacity>>
      PROVE  LayoutInv'
  BY <1>0 DEF LayoutInv, After, Scheduled
<1>1. ASSUME UNCHANGED vars PROVE LayoutInv'
  BY <1>1 DEF vars, LayoutInv, After, Scheduled
<1>2. ASSUME NEW n, NEW boxes, NEW j, NEW m, NEW index,
             Detect(n, boxes, m, index) \/ DetectFails(n, boxes, j, m, index)
      PROVE  LayoutInv'
  <2>1. rpc' = "idle" \/ (crop_used' = 0 /\ crop_schedule' = <<>> /\ UNCHANGED crop_capacity)
    BY <1>2 DEF Detect, DetectFails, ReturnError
  <2>2. crop_capacity \in Nat
    BY DEF TypeInv, BufferTyped
  <2>3. QED
    BY <2>1, <2>2 DEF LayoutInv, Scheduled
<1>3. ASSUME Reserve PROVE LayoutInv'
  <2>1. /\ rpc = "reserve" /\ rpc' = "schedule" /\ UNCHANGED <<crops, crop_used, crop_schedule>>
        /\ crop_capacity' = Larger(crop_capacity, planned_crop_bytes)
    BY <1>3 DEF Reserve
  <2>2. crop_schedule = <<>> /\ crop_used = 0 /\ crop_capacity \in Nat
    BY <2>1 DEF ScheduleInv, LayoutInv, TypeInv, BufferTyped
  <2>3. planned_crop_bytes \in Nat
    BY PlannedBytes DEF TypeInv
  <2>4. QED
    BY <2>1, <2>2, <2>3 DEF LayoutInv, Scheduled, Larger
<1>4. ASSUME ScheduleCrop PROVE LayoutInv'
  <2> DEFINE c == NextCrop
  <2>1. /\ c \in Lines \ Scheduled /\ c \in CropIndex
        /\ crops' = [crops EXCEPT ![c].offset = crop_used]
        /\ crop_used' = crop_used + crops[c].byte_count
        /\ crop_capacity' >= crop_used'
    BY <1>4, CropPlaced
  <2>2. /\ rpc = "schedule" /\ rpc' = "schedule"
        /\ crop_schedule' = Append(crop_schedule, c)
    BY <1>4 DEF ScheduleCrop, PlaceCrop
  <2>3. Scheduled' = Scheduled \cup {c} /\ Scheduled \subseteq CropIndex
    BY <2>1, <2>2, ScheduleAppended, Sizes DEF TypeInv, ScheduleInv
  <2>4. /\ crop_used \in Nat /\ crops \in [CropIndex -> CropRecord]
        /\ \A d \in CropIndex : crops[d].offset \in Nat /\ crops[d].byte_count \in Nat
    BY BoxTyped DEF TypeInv, BufferTyped, CropsTyped
  <2>5. \A d \in CropIndex :
          /\ crops'[d].offset = IF d = c THEN crop_used ELSE crops[d].offset
          /\ crops'[d].byte_count = crops[d].byte_count
    BY <2>1, <2>4 DEF CropRecord
  <2> HIDE DEF c
  <2>6. \A d \in Scheduled : d # c /\ crops[d].offset + crops[d].byte_count <= crop_used
    BY <2>1, <2>2 DEF LayoutInv
  <2>7. \A d \in Scheduled' : crops'[d].offset + crops'[d].byte_count <= crop_used'
    <3>1. SUFFICES ASSUME NEW d \in Scheduled \cup {c}
                   PROVE  crops'[d].offset + crops'[d].byte_count <= crop_used'
      BY <2>3
    <3>2. d \in CropIndex
      BY <2>1, <2>3
    <3>3. QED
      BY <2>1, <2>4, <2>5, <2>6, <3>2
  <2>8. ASSUME NEW d \in Scheduled', NEW e \in Scheduled', d # e
        PROVE  After(d, e)' \/ After(e, d)'
    <3>1. d \in CropIndex /\ e \in CropIndex
      BY <2>1, <2>3
    <3>2. CASE d = c
      <4>1. e \in Scheduled
        BY <2>3, <2>8, <3>2
      <4>2. QED
        BY <2>4, <2>5, <2>6, <3>1, <3>2, <4>1 DEF After
    <3>3. CASE e = c
      <4>1. d \in Scheduled
        BY <2>3, <2>8, <3>3
      <4>2. QED
        BY <2>4, <2>5, <2>6, <3>1, <3>3, <4>1 DEF After
    <3>4. CASE d # c /\ e # c
      <4>1. d \in Scheduled /\ e \in Scheduled
        BY <2>3, <3>4
      <4>2. After(d, e) \/ After(e, d)
        BY <2>2, <2>8, <4>1 DEF LayoutInv
      <4>3. QED
        BY <2>5, <3>1, <3>4, <4>2 DEF After
    <3>5. QED
      BY <3>2, <3>3, <3>4
  <2>9. crop_used' <= crop_capacity'
    BY <1>4, <2>1, RecordsStep DEF BufferTyped
  <2>10. QED
    BY <2>2, <2>7, <2>8, <2>9 DEF LayoutInv
<1>5. ASSUME ReserveFails \/ ScheduleFails \/ StartBands \/ NoBands \/ BandsReturn
               \/ NoLines \/ StartLines \/ LinesReturn \/ ReportCapacity \/ Publish
      PROVE  LayoutInv'
  <2>1. \/ rpc' = "idle"
        \/ /\ rpc # "idle" \/ callback # "none"
           /\ rpc' # "reserve" /\ UNCHANGED <<crops, crop_used, crop_schedule, crop_capacity>>
    BY <1>5 DEF ReserveFails, ScheduleFails, StartBands, NoBands, BandsReturn,
       NoLines, StartLines, LinesReturn, ReportCapacity, Publish, ReturnError
  <2>2. rpc' = "idle" => LayoutInv'
    BY DEF LayoutInv
  <2>3. QED
    BY <1>0, <2>1, <2>2 DEF PhaseInv
<1>6. ASSUME NEW w \in Indices,
             Begin(w) \/ RasterBand(w) \/ RasterFails(w) \/ BandsDone(w)
               \/ Claim(w) \/ Recognize(w) \/ RecognizeFails(w)
      PROVE  LayoutInv'
  <2>1. UNCHANGED <<rpc, crops, crop_used, crop_schedule, crop_capacity>>
    BY <1>6 DEF Begin, RasterBand, RasterFails, BandsDone, Claim, Recognize, RecognizeFails
  <2>2. QED
    BY <2>1 DEF LayoutInv, After, Scheduled
<1>7. QED
  BY <1>1, <1>2, <1>3, <1>4, <1>5, <1>6 DEF Next, NewRequest, RequestStep, CallbackStep

(* Without a refusal the list is empty whenever a page is detected.        *)
LEMMA FreshStep ==
  ASSUME IInv, [Next]_vars
  PROVE  FreshInv'
<1> PhaseInv /\ FreshInv
  BY DEF IInv, PixelsInv
<1>0. ASSUME UNCHANGED <<setting, left_over, crop_bands>>, InBandPhase' <=> InBandPhase
      PROVE  FreshInv'
  BY <1>0 DEF FreshInv
<1>1. ASSUME UNCHANGED vars PROVE FreshInv'
  BY <1>0, <1>1 DEF vars, InBandPhase
<1>2. ASSUME NEW n, NEW boxes, NEW j, NEW m, NEW index, UNCHANGED setting,
             Detect(n, boxes, m, index) \/ DetectFails(n, boxes, j, m, index)
      PROVE  FreshInv'
  <2>1. /\ rpc = "idle" /\ UNCHANGED <<crop_bands, callback>>
        /\ left_over' = (crop_bands # <<>>) \/ UNCHANGED left_over
    BY <1>2 DEF Detect, DetectFails
  <2>2. "memory" \notin setting.faults => crop_bands = <<>> /\ ~left_over
    BY <2>1 DEF FreshInv, InBandPhase, PhaseInv
  <2>3. QED
    BY <1>2, <2>1, <2>2 DEF FreshInv
<1>3. ASSUME UNCHANGED setting, ReserveFails \/ ScheduleFails PROVE FreshInv'
  BY <1>3 DEF ReserveFails, ScheduleFails, FreshInv
<1>4. ASSUME UNCHANGED setting, BandsReturn \/ NoBands PROVE FreshInv'
  <2>1. crop_bands' = <<>> /\ UNCHANGED left_over
    BY <1>4 DEF BandsReturn, NoBands
  <2>2. QED
    BY <1>4, <2>1 DEF FreshInv
<1>5. ASSUME UNCHANGED setting, ScheduleCrop PROVE FreshInv'
  <2>1. rpc' = "schedule" /\ UNCHANGED left_over
    BY <1>5 DEF ScheduleCrop
  <2>2. QED
    BY <1>5, <2>1 DEF FreshInv, InBandPhase
<1>6. ASSUME UNCHANGED setting,
             Reserve \/ StartBands \/ NoLines \/ StartLines \/ LinesReturn
               \/ ReportCapacity \/ Publish
      PROVE  FreshInv'
  <2>1. /\ UNCHANGED <<left_over, crop_bands>>
        /\ InBandPhase' \/ ~InBandPhase
    BY <1>6 DEF Reserve, StartBands, NoLines, StartLines, LinesReturn, ReportCapacity, Publish,
       ReturnError, PhaseInv, InBandPhase
  <2>2. QED
    BY <1>6, <2>1 DEF FreshInv
<1>7. ASSUME NEW w \in Indices, UNCHANGED setting,
             Begin(w) \/ RasterBand(w) \/ RasterFails(w) \/ BandsDone(w)
               \/ Claim(w) \/ Recognize(w) \/ RecognizeFails(w)
      PROVE  FreshInv'
  <2>1. UNCHANGED <<left_over, crop_bands, rpc, callback>>
    BY <1>7 DEF Begin, RasterBand, RasterFails, BandsDone, Claim, Recognize, RecognizeFails
  <2>2. QED
    BY <1>0, <1>7, <2>1 DEF InBandPhase
<1>8. QED
  BY <1>1, <1>2, <1>3, <1>4, <1>5, <1>6, <1>7 DEF Next, NewRequest, RequestStep, CallbackStep

LEMMA BandsStep ==
  ASSUME IInv, [Next]_vars
  PROVE  BandsInv'
<1> TypeInv /\ PhaseInv /\ ScheduleInv /\ BandsInv
  BY DEF IInv
<1>0. ASSUME UNCHANGED <<records, crop_schedule, crop_bands, left_over>>,
             rpc # "idle" \/ rpc' = "idle", InBandPhase' <=> InBandPhase
      PROVE  BandsInv'
  BY <1>0 DEF BandsInv, Height, BoxOf, Scheduled
<1>1. ASSUME UNCHANGED vars PROVE BandsInv'
  <2>1. UNCHANGED <<records, crop_schedule, crop_bands, left_over, rpc, callback>>
    BY <1>1 DEF vars
  <2>2. QED
    BY <2>1 DEF InBandPhase, BandsInv, Height, BoxOf, Scheduled
<1>2. ASSUME NEW n, NEW boxes, NEW j, NEW m, NEW index,
             Detect(n, boxes, m, index) \/ DetectFails(n, boxes, j, m, index)
      PROVE  BandsInv'
  <2>1. /\ rpc = "idle" /\ UNCHANGED <<crop_bands, callback>>
        /\ rpc' = "idle" \/ (rpc' = "reserve" /\ left_over' = (crop_bands # <<>>))
    BY <1>2 DEF Detect, DetectFails, ReturnError
  <2>2. callback = "none"
    BY <2>1 DEF PhaseInv
  <2>3. QED
    BY <2>1, <2>2 DEF BandsInv, InBandPhase
<1>3. ASSUME Reserve PROVE BandsInv'
  <2>1. /\ rpc = "reserve" /\ UNCHANGED <<left_over, crop_bands, callback>>
    BY <1>3 DEF Reserve
  <2>2. ~InBandPhase
    BY <2>1 DEF PhaseInv, InBandPhase
  <2>3. ~left_over => crop_bands' = <<>>
    BY <2>1, <2>2 DEF BandsInv
  <2>4. QED
    BY <2>1, <2>3 DEF BandsInv
<1>4. ASSUME ScheduleCrop, ~left_over PROVE BandsInv'
  <2> DEFINE c == NextCrop
             n == Len(crop_bands)
             m == n + Height(c)
  <2>1. /\ c \in Lines \ Scheduled /\ c \in CropIndex
        /\ crops' = [crops EXCEPT ![c].offset = crop_used]
    BY <1>4, CropPlaced
  <2>2. /\ crop_schedule' = Append(crop_schedule, c) /\ UNCHANGED <<detected_boxes, left_over>>
        /\ crop_bands' = crop_bands \o Bands(c) /\ InBandPhase /\ InBandPhase'
        /\ rpc # "idle"
    BY <1>4 DEF ScheduleCrop, PlaceCrop, InBandPhase
  <2>3. Scheduled' = Scheduled \cup {c}
    BY <2>1, <2>2, ScheduleAppended
  <2>4. /\ n \in Nat /\ DOMAIN crop_bands = 1 .. n /\ Height(c) \in Nat
        /\ DOMAIN crop_bands' = 1 .. m
        /\ \A i \in 1 .. n : crop_bands'[i] = crop_bands[i]
        /\ \A i \in n + 1 .. m : crop_bands'[i] = [crop_index |-> c, row |-> i - n - 1]
    BY <2>1, <2>2, BandsAppended
  <2>5. /\ \A i, j \in 1 .. n : crop_bands[i] = crop_bands[j] => i = j
        /\ \A i \in 1 .. n : /\ crop_bands[i].crop_index \in Scheduled
                             /\ crop_bands[i].row < Height(crop_bands[i].crop_index)
    BY <1>4, <2>2, <2>4 DEF BandsInv
  <2>a. \A d \in CropIndex : Height(d)' = Height(d)
    <3>1. crops \in [CropIndex -> CropRecord]
      BY DEF TypeInv, CropsTyped
    <3>2. \A d \in CropIndex : crops'[d].box_index = crops[d].box_index
      BY <2>1, <3>1 DEF CropRecord
    <3>3. QED
      BY <2>2, <3>2 DEF Height, BoxOf
  <2>b. Scheduled' \subseteq CropIndex
    BY <2>1, <2>2, <2>3, Sizes DEF ScheduleInv, TypeInv
  <2> HIDE DEF c, n
  <2>6. \A i \in 1 .. m : i \in 1 .. n \/ i \in n + 1 .. m
    BY <2>4
  <2>7. ASSUME NEW i \in n + 1 .. m
        PROVE  /\ crop_bands'[i].crop_index = c /\ crop_bands'[i].row = i - n - 1
               /\ i - n - 1 < Height(c)
    <3>1. crop_bands'[i] = [crop_index |-> c, row |-> i - n - 1]
      BY <2>4
    <3>2. i - n - 1 < Height(c)
      BY <2>4
    <3>3. QED
      BY <3>1, <3>2
  <2>8. \A k, l \in n + 1 .. m : crop_bands'[k].row = crop_bands'[l].row => k = l
    <3>1. SUFFICES ASSUME NEW k \in n + 1 .. m, NEW l \in n + 1 .. m,
                          crop_bands'[k].row = crop_bands'[l].row
                   PROVE  k = l
      BY Zenon
    <3>2. k - n - 1 = l - n - 1
      BY <2>7, <3>1
    <3>3. QED
      BY <2>4, <3>2
  <2>9. ASSUME NEW i \in 1 .. m
        PROVE  /\ crop_bands'[i].crop_index \in Scheduled'
               /\ crop_bands'[i].row < Height(crop_bands'[i].crop_index)
    <3>1. CASE i \in 1 .. n
      <4>1. crop_bands'[i] = crop_bands[i]
        BY <2>4, <3>1
      <4>2. QED
        BY <2>3, <2>5, <3>1, <4>1
    <3>2. CASE i \in n + 1 .. m
      BY <2>3, <2>7, <3>2
    <3>3. QED
      BY <2>6, <3>1, <3>2
  <2>10. ASSUME NEW i \in 1 .. m, NEW j \in 1 .. m, crop_bands'[i] = crop_bands'[j]
         PROVE  i = j
    <3>1. \A k \in 1 .. n, l \in n + 1 .. m : crop_bands'[k].crop_index # crop_bands'[l].crop_index
      BY <2>1, <2>4, <2>5, <2>7
    <3>2. QED
      BY <2>4, <2>5, <2>6, <2>8, <2>10, <3>1
  <2>11. (\A i \in DOMAIN crop_bands : crop_bands[i].row < Height(crop_bands[i].crop_index))'
    BY <2>4, <2>9, <2>a, <2>b DEF Height, BoxOf
  <2> HIDE DEF m
  <2>12. QED
    BY <2>2, <2>4, <2>9, <2>10, <2>11 DEF BandsInv
<1>5. ASSUME ReserveFails \/ ScheduleFails \/ ReportCapacity \/ Publish PROVE BandsInv'
  BY <1>5 DEF ReserveFails, ScheduleFails, ReportCapacity, Publish, ReturnError, BandsInv
<1>6. ASSUME BandsReturn \/ NoBands PROVE BandsInv'
  <2>1. crop_bands' = <<>>
    BY <1>6 DEF BandsReturn, NoBands
  <2>2. QED
    BY <2>1 DEF BandsInv
<1>7. ASSUME StartBands \/ NoLines \/ StartLines \/ LinesReturn PROVE BandsInv'
  <2>1. UNCHANGED <<records, crop_schedule, crop_bands, left_over>>
    BY <1>7 DEF StartBands, NoLines, StartLines, LinesReturn
  <2>2. /\ InBandPhase' <=> InBandPhase
        /\ rpc # "idle"
    BY <1>7 DEF StartBands, NoLines, StartLines, LinesReturn,
       ReturnError, PhaseInv, InBandPhase
  <2>3. QED
    BY <1>0, <2>1, <2>2
<1>8. ASSUME NEW w \in Indices,
             Begin(w) \/ RasterBand(w) \/ RasterFails(w) \/ BandsDone(w)
               \/ Claim(w) \/ Recognize(w) \/ RecognizeFails(w)
      PROVE  BandsInv'
  <2>1. UNCHANGED <<records, crop_schedule, crop_bands, left_over, rpc, callback>>
    BY <1>8 DEF Begin, RasterBand, RasterFails, BandsDone, Claim, Recognize,
       RecognizeFails
  <2>2. QED
    BY <1>0, <2>1 DEF InBandPhase
<1>9. ASSUME ScheduleCrop, left_over PROVE BandsInv'
  BY <1>9 DEF ScheduleCrop, BandsInv
<1>10. QED
  BY <1>1, <1>2, <1>3, <1>4, <1>5, <1>6, <1>7, <1>8, <1>9
     DEF Next, NewRequest, RequestStep, CallbackStep

LEMMA BandTyped ==
  ASSUME TypeInv
  PROVE  /\ Len(crop_bands) \in Nat /\ DOMAIN crop_bands = 1 .. Len(crop_bands)
         /\ \A i \in DOMAIN crop_bands :
              /\ crop_bands[i].crop_index \in CropIndex /\ crop_bands[i].row \in Nat
              /\ crop_bands[i] = [crop_index |-> crop_bands[i].crop_index,
                                  row |-> crop_bands[i].row]
<1> DEFINE B == [crop_index : CropIndex, row : Nat]
<1>1. crop_bands \in Seq(B)
  BY DEF TypeInv
<1>2. \A b \in B : /\ b.crop_index \in CropIndex /\ b.row \in Nat
                    /\ b = [crop_index |-> b.crop_index, row |-> b.row]
  OBVIOUS
<1> HIDE DEF B
<1>3. Len(crop_bands) \in Nat /\ DOMAIN crop_bands = 1 .. Len(crop_bands)
  BY <1>1, LenProperties
<1>4. \A i \in 1 .. Len(crop_bands) : crop_bands[i] \in B
  BY <1>1, ElementOfSeq
<1>5. QED
  BY <1>2, <1>3, <1>4

(* A scheduled crop has a band for each of its rows.                       *)
LEMMA BandsListedStep ==
  ASSUME IInv, [Next]_vars
  PROVE  BandsListed'
<1> TypeInv /\ PhaseInv /\ ScheduleInv /\ BandsListed
  BY DEF IInv, PixelsInv
<1>0. ASSUME ~InBandPhase' \/ (InBandPhase /\ UNCHANGED <<records, crop_schedule, crop_bands>>)
      PROVE  BandsListed'
  BY <1>0 DEF BandsListed, Height, BoxOf, HasBand, Scheduled
<1>1. ASSUME UNCHANGED vars PROVE BandsListed'
  <2>1. UNCHANGED <<records, crop_schedule, crop_bands, rpc, callback>>
    BY <1>1 DEF vars
  <2>2. QED
    BY <1>0, <2>1 DEF InBandPhase
<1>2. ASSUME NEW n, NEW boxes, NEW j, NEW m, NEW index,
             Detect(n, boxes, m, index) \/ DetectFails(n, boxes, j, m, index)
      PROVE  BandsListed'
  BY <1>2 DEF Detect, DetectFails, ReturnError, BandsListed, InBandPhase, PhaseInv
<1>a. ASSUME Reserve PROVE BandsListed'
  <2>1. crop_schedule' = <<>>
    BY <1>a DEF Reserve, ScheduleInv
  <2>2. QED
    BY <2>1 DEF BandsListed, Scheduled
<1>3. ASSUME ScheduleCrop PROVE BandsListed'
  <2> DEFINE c == NextCrop
             n == Len(crop_bands)
             h == Height(c)
  <2>1. /\ c \in Lines \ Scheduled /\ c \in CropIndex
        /\ crops' = [crops EXCEPT ![c].offset = crop_used]
    BY <1>3, CropPlaced
  <2>2. /\ crop_schedule' = Append(crop_schedule, c) /\ UNCHANGED detected_boxes
        /\ crop_bands' = crop_bands \o Bands(c) /\ InBandPhase /\ rpc # "idle"
    BY <1>3 DEF ScheduleCrop, PlaceCrop, InBandPhase
  <2>3. Scheduled' = Scheduled \cup {c}
    BY <2>1, <2>2, ScheduleAppended
  <2>4. /\ n \in Nat /\ DOMAIN crop_bands = 1 .. n /\ h \in Nat
        /\ DOMAIN crop_bands' = 1 .. n + h
        /\ \A i \in 1 .. n : crop_bands'[i] = crop_bands[i]
        /\ \A i \in n + 1 .. n + h : crop_bands'[i] = [crop_index |-> c, row |-> i - n - 1]
    BY <2>1, <2>2, BandsAppended
  <2>a. \A d \in CropIndex : Height(d)' = Height(d)
    <3>1. crops \in [CropIndex -> CropRecord]
      BY DEF TypeInv, CropsTyped
    <3>2. \A d \in CropIndex : crops'[d].box_index = crops[d].box_index
      BY <2>1, <3>1 DEF CropRecord
    <3>3. QED
      BY <2>2, <3>2 DEF Height, BoxOf
  <2>b. Scheduled \subseteq CropIndex
    BY <2>2, Sizes DEF ScheduleInv, TypeInv
  <2> HIDE DEF c, n
  <2>5. \A r \in 0 .. h - 1 : \E i \in DOMAIN crop_bands' : crop_bands'[i] = [crop_index |-> c, row |-> r]
    <3> HIDE DEF h
    <3>1. SUFFICES ASSUME NEW r \in 0 .. h - 1
                   PROVE  \E i \in DOMAIN crop_bands' : crop_bands'[i] = [crop_index |-> c, row |-> r]
      BY Zenon
    <3>2. r + n + 1 \in n + 1 .. n + h /\ (r + n + 1) - n - 1 = r /\ r + n + 1 \in 1 .. n + h
      BY <2>4
    <3>3. crop_bands'[r + n + 1] = [crop_index |-> c, row |-> r]
      BY <2>4, <3>2
    <3>4. QED
      BY <2>4, <3>2, <3>3
  <2>6. \A d, r : HasBand(d, r) => \E i \in DOMAIN crop_bands' : crop_bands'[i] = [crop_index |-> d, row |-> r]
    BY <2>4 DEF HasBand
  <2>7. \A d \in Scheduled : \A r \in 0 .. Height(d) - 1 : HasBand(d, r)
    BY <2>2 DEF BandsListed
  <2>8. QED
    BY <2>1, <2>2, <2>3, <2>5, <2>6, <2>7, <2>a, <2>b DEF BandsListed, HasBand
<1>4. ASSUME ReserveFails \/ ScheduleFails \/ StartBands \/ NoBands \/ BandsReturn \/ NoLines
               \/ StartLines \/ LinesReturn \/ ReportCapacity \/ Publish
      PROVE  BandsListed'
  <2>1. ~InBandPhase' \/ (InBandPhase /\ UNCHANGED <<records, crop_schedule, crop_bands>>)
    BY <1>4 DEF ReserveFails, ScheduleFails, StartBands, NoBands, BandsReturn, NoLines,
       StartLines, LinesReturn, ReportCapacity, Publish, ReturnError,
       InBandPhase, PhaseInv
  <2>2. QED
    BY <1>0, <2>1
<1>5. ASSUME NEW w \in Indices,
             Begin(w) \/ RasterBand(w) \/ RasterFails(w) \/ BandsDone(w)
               \/ Claim(w) \/ Recognize(w) \/ RecognizeFails(w)
      PROVE  BandsListed'
  <2>1. UNCHANGED <<records, crop_schedule, crop_bands, rpc, callback>>
    BY <1>5 DEF Begin, RasterBand, RasterFails, BandsDone, Claim, Recognize,
       RecognizeFails
  <2>2. QED
    BY <1>0, <2>1 DEF InBandPhase
<1>6. QED
  BY <1>1, <1>2, <1>3, <1>4, <1>5, <1>a DEF Next, NewRequest, RequestStep, CallbackStep

(* The places of the crops of a page and of their bands.                   *)
LEMMA PlacesOfBand ==
  ASSUME TypeInv, ScheduleInv, GeometryInv, rpc # "idle",
         NEW c \in Scheduled, NEW band, band.crop_index = c, band.row \in Nat, band.row < Height(c)
  PROVE  LET w == BoxOf(c).width
         IN  /\ c \in Lines /\ c \in CropIndex
             /\ band.row * w \in Nat /\ (band.row + 1) * w = band.row * w + w
             /\ BandPlaces(band) = crops[c].offset + band.row * w
                                     .. crops[c].offset + (band.row + 1) * w - 1
             /\ BandPlaces(band) \subseteq CropPlaces(c)
<1> DEFINE w == BoxOf(c).width
           h == Height(c)
           r == band.row
           o == crops[c].offset
           n == crops[c].byte_count
<1>1. c \in Lines /\ c \in CropIndex
  BY Sizes DEF ScheduleInv, TypeInv
<1>2. w \in Nat /\ h \in Nat /\ o \in Nat /\ n \in Nat
  BY <1>1, BoxTyped
<1>3. n = w * h
  BY <1>1 DEF GeometryInv, Bytes, Height
<1>4. BandPlaces(band) = o + r * w .. o + (r + 1) * w - 1 /\ CropPlaces(c) = o .. o + n - 1
  BY DEF BandPlaces, CropPlaces
<1>5. r \in Nat /\ r < h
  OBVIOUS
<1> HIDE DEF w, h, r, o, n
<1>6. r * w \in Nat /\ (r + 1) * w = r * w + w /\ (r + 1) * w <= w * h
  BY <1>2, <1>5, Rows
<1>7. BandPlaces(band) \subseteq CropPlaces(c)
  <2>1. SUFFICES ASSUME NEW p \in BandPlaces(band) PROVE p \in CropPlaces(c)
    BY Zenon
  <2> DEFINE a == r * w
             b == (r + 1) * w
  <2>2. a \in Nat /\ b \in Nat /\ b <= n /\ p \in o + a .. o + b - 1
    BY <1>2, <1>3, <1>4, <1>6
  <2> HIDE DEF a, b
  <2>3. p \in o .. o + n - 1
    BY <1>2, <2>2
  <2>4. QED
    BY <1>4, <2>3
<1>8. QED
  BY <1>1, <1>4, <1>6, <1>7 DEF w, r, o

LEMMA CropsApart ==
  ASSUME TypeInv, ScheduleInv, LayoutInv, rpc # "idle", NEW c \in Scheduled
  PROVE  /\ CropPlaces(c) \subseteq DOMAIN crop
         /\ \A d \in Scheduled : c # d => CropPlaces(c) \cap CropPlaces(d) = {}
<1>1. Scheduled \subseteq CropIndex
  BY Sizes DEF ScheduleInv, TypeInv
<1>2. \A d \in Scheduled : crops[d].offset \in Nat /\ crops[d].byte_count \in Nat
  BY <1>1, BoxTyped
<1>3. /\ crop_used \in Nat /\ crop_capacity \in Nat /\ crop_used <= crop_capacity
      /\ DOMAIN crop = 0 .. crop_capacity - 1
      /\ crops[c].offset + crops[c].byte_count <= crop_used
  BY DEF TypeInv, BufferTyped, LayoutInv
<1>4. CropPlaces(c) \subseteq DOMAIN crop
  BY <1>2, <1>3 DEF CropPlaces
<1>5. ASSUME NEW d \in Scheduled, c # d PROVE CropPlaces(c) \cap CropPlaces(d) = {}
  <2>1. After(c, d) \/ After(d, c)
    BY <1>5 DEF LayoutInv
  <2>2. QED
    BY <1>2, <2>1 DEF After, CropPlaces
<1>6. QED
  BY <1>4, <1>5

(* Bands of one run never meet: rows of a crop are disjoint, and crops are.*)
LEMMA BandsApart ==
  ASSUME IInv, callback = "bands", ~left_over, NEW i \in DOMAIN crop_bands
  PROVE  /\ crop_bands[i].crop_index \in Lines
         /\ crop_bands[i].row < Height(crop_bands[i].crop_index)
         /\ BandPlaces(crop_bands[i]) \subseteq DOMAIN crop
         /\ \A j \in DOMAIN crop_bands :
              i # j => BandPlaces(crop_bands[i]) \cap BandPlaces(crop_bands[j]) = {}
<1> TypeInv /\ PhaseInv /\ ScheduleInv /\ BandsInv /\ GeometryInv /\ LayoutInv
  BY DEF IInv, PixelsInv
<1>1. rpc # "idle" /\ InBandPhase
  BY DEF PhaseInv, InBandPhase
<1> DEFINE band(k) == crop_bands[k]
           crop_of(k) == crop_bands[k].crop_index
           row(k) == crop_bands[k].row
<1>2. ASSUME NEW k \in DOMAIN crop_bands
      PROVE  /\ crop_of(k) \in Scheduled /\ row(k) \in Nat /\ row(k) < Height(crop_of(k))
             /\ band(k) = [crop_index |-> crop_of(k), row |-> row(k)]
  <2>1. crop_of(k) \in Scheduled /\ row(k) < Height(crop_of(k))
    BY <1>1 DEF BandsInv
  <2>2. row(k) \in Nat /\ band(k) = [crop_index |-> crop_of(k), row |-> row(k)]
    BY BandTyped
  <2>3. QED
    BY <2>1, <2>2
<1>3. ASSUME NEW k \in DOMAIN crop_bands
      PROVE  LET w == BoxOf(crop_of(k)).width
             IN  /\ crop_of(k) \in Lines /\ crop_of(k) \in CropIndex
                 /\ row(k) * w \in Nat
                 /\ BandPlaces(band(k)) = crops[crop_of(k)].offset + row(k) * w
                                           .. crops[crop_of(k)].offset + (row(k) + 1) * w - 1
                 /\ BandPlaces(band(k)) \subseteq CropPlaces(crop_of(k))
  BY <1>1, <1>2, PlacesOfBand
<1>4. ASSUME NEW j \in DOMAIN crop_bands, i # j, crop_of(i) = crop_of(j)
      PROVE  BandPlaces(band(i)) \cap BandPlaces(band(j)) = {}
  <2> DEFINE c == crop_of(i)
             w == BoxOf(c).width
             o == crops[c].offset
             h == Height(c)
             r == row(i)
             s == row(j)
             Lo(x) == o + x * w
  <2>1. r # s
    <3>1. crop_bands[i] # crop_bands[j]
      BY <1>1, <1>4 DEF BandsInv
    <3>2. QED
      BY <1>2, <1>4, <3>1
  <2>2. /\ c \in CropIndex /\ r \in Nat /\ s \in Nat /\ r < h /\ s < h
        /\ BandPlaces(band(i)) = o + r * w .. o + (r + 1) * w - 1
        /\ BandPlaces(band(j)) = o + s * w .. o + (s + 1) * w - 1
    BY <1>2, <1>3, <1>4
  <2>3. w \in Nat /\ o \in Nat /\ h \in Nat
    BY <2>2, BoxTyped
  <2> HIDE DEF c, w, o, h, r, s
  <2>4. /\ r * w \in Nat /\ s * w \in Nat /\ (r + 1) * w = r * w + w /\ (s + 1) * w = s * w + w
    BY <2>2, <2>3, Rows
  <2>5. CASE r < s
    <3>1. (r + 1) * w <= w * s
      BY <2>2, <2>3, <2>5, Rows
    <3>2. w * s = s * w
      BY <2>2, <2>3
    <3> DEFINE a == r * w
               b == s * w
    <3>3. a \in Nat /\ b \in Nat /\ a + w <= b
      BY <2>4, <3>1, <3>2
    <3>4. BandPlaces(band(i)) = o + a .. o + (a + w) - 1
      BY <2>2, <2>4
    <3>5. BandPlaces(band(j)) = o + b .. o + (b + w) - 1
      BY <2>2, <2>4
    <3> HIDE DEF a, b
    <3>6. QED
      BY <2>3, <3>3, <3>4, <3>5
  <2>6. CASE s < r
    <3>1. (s + 1) * w <= w * r
      BY <2>2, <2>3, <2>6, Rows
    <3>2. w * r = r * w
      BY <2>2, <2>3
    <3> DEFINE a == r * w
               b == s * w
    <3>3. a \in Nat /\ b \in Nat /\ b + w <= a
      BY <2>4, <3>1, <3>2
    <3>4. BandPlaces(band(i)) = o + a .. o + (a + w) - 1
      BY <2>2, <2>4
    <3>5. BandPlaces(band(j)) = o + b .. o + (b + w) - 1
      BY <2>2, <2>4
    <3> HIDE DEF a, b
    <3>6. QED
      BY <2>3, <3>3, <3>4, <3>5
  <2>7. QED
    BY <2>1, <2>2, <2>5, <2>6
<1>5. ASSUME NEW j \in DOMAIN crop_bands, crop_of(i) # crop_of(j)
      PROVE  BandPlaces(band(i)) \cap BandPlaces(band(j)) = {}
  <2>1. CropPlaces(crop_of(i)) \cap CropPlaces(crop_of(j)) = {}
    BY <1>1, <1>2, <1>5, CropsApart
  <2>2. /\ BandPlaces(band(i)) \subseteq CropPlaces(crop_of(i))
        /\ BandPlaces(band(j)) \subseteq CropPlaces(crop_of(j))
    BY <1>3
  <2>3. QED
    BY <2>1, <2>2
<1>6. CropPlaces(crop_of(i)) \subseteq DOMAIN crop
  BY <1>1, <1>2, CropsApart
<1>7. QED
  BY <1>2, <1>3, <1>4, <1>5, <1>6

(* The strides of a run: every band is on one, and one step takes a worker *)
(* from a band on its stride to the next.                                  *)
LEMMA OnAStride ==
  ASSUME NEW k \in Nat, NEW n \in Nat \ {0}
  PROVE  k % n \in 0 .. n - 1 /\ k \div n \in Nat /\ k = (k % n) + (k \div n) * n
OBVIOUS

LEMMA NextOnStride ==
  ASSUME NEW k \in Nat, NEW n \in Nat, NEW c \in Nat, NEW q \in Nat, k = c + q * n
  PROVE  c <= k /\ (k = c \/ \E p \in Nat : k = (c + n) + p * n)
<1>1. q * n \in Nat
  OBVIOUS
<1>2. CASE q = 0
  BY <1>2
<1>3. CASE q # 0
  <2>1. q - 1 \in Nat /\ q * n = n + (q - 1) * n
    BY <1>3
  <2>2. (q - 1) * n \in Nat
    BY <2>1
  <2>3. k = (c + n) + (q - 1) * n
    BY <2>1, <2>2
  <2>4. QED
    BY <1>1, <2>1, <2>3
<1>4. QED
  BY <1>2, <1>3

(* A band not yet written is still ahead of a running worker.              *)
LEMMA BandsCoveredStep ==
  ASSUME IInv, [Next]_vars
  PROVE  BandsCovered'
<1> TypeInv /\ PhaseInv /\ BandsCovered
  BY DEF IInv, PixelsInv
<1>a. /\ Len(crop_bands) \in Nat /\ DOMAIN crop_bands = 1 .. Len(crop_bands)
      /\ \A i \in DOMAIN crop_bands : crop_bands[i].crop_index \in CropIndex /\ crop_bands[i].row \in Nat
  BY BandTyped
<1>b. /\ MaxWorkers \in Nat /\ width \in Nat /\ cursor \in [Indices -> Nat]
      /\ returns \in [Indices -> {0, 1}]
  BY Sizes DEF TypeInv
<1>0. ASSUME callback' # "bands" PROVE BandsCovered'
  BY <1>0 DEF BandsCovered
<1>1. ASSUME UNCHANGED <<callback, left_over, crop_band_status, crop_bands, records, crop, cursor,
                         width, returns>>
      PROVE  BandsCovered'
  BY <1>1 DEF BandsCovered, Covered, Drawn, BandPlaces, Pixel, BoxOf
<1>2. ASSUME UNCHANGED vars PROVE BandsCovered'
  BY <1>1, <1>2 DEF vars
<1>3. ASSUME NEW n, NEW boxes, NEW j, NEW m, NEW index,
             Detect(n, boxes, m, index) \/ DetectFails(n, boxes, j, m, index)
      PROVE  BandsCovered'
  BY <1>0, <1>3 DEF Detect, DetectFails, ReturnError, PhaseInv
<1>4. ASSUME Reserve \/ ReserveFails \/ ScheduleCrop \/ ScheduleFails \/ NoBands \/ BandsReturn \/ NoLines
               \/ StartLines \/ LinesReturn \/ ReportCapacity \/ Publish
      PROVE  BandsCovered'
  BY <1>0, <1>4 DEF Reserve, ReserveFails, ScheduleCrop, ScheduleFails, NoBands, BandsReturn,
     NoLines, StartLines, LinesReturn, ReportCapacity, Publish, ReturnError, PhaseInv
<1>5. ASSUME StartBands PROVE BandsCovered'
  <2>1. /\ width' = RunWidth(Smaller(worker_count, Len(crop_bands)), line_pool')
        /\ returns' = [w \in Indices |-> 0] /\ cursor' = [w \in Indices |-> w]
        /\ UNCHANGED crop_bands
    BY <1>5 DEF StartBands, PF!Start
  <2>2. line_pool' \in Nat /\ line_pool' <= worker_count
    BY <1>5, PoolTyped DEF StartBands
  <2>3. width' \in Nat \ {0} /\ width' <= MaxWorkers
    BY <1>a, <2>1, <2>2, RunWidths
  <2>4. ASSUME NEW i \in DOMAIN crop_bands PROVE \E w \in Indices : Covered(w, i - 1)'
    <3>1. i - 1 \in Nat
      BY <1>a
    <3> DEFINE n == width'
               w == (i - 1) % n
               q == (i - 1) \div n
    <3>2. n \in Nat \ {0}
      BY <2>3
    <3> HIDE DEF n
    <3>3. w \in 0 .. n - 1 /\ q \in Nat /\ i - 1 = w + q * n
      BY <3>1, <3>2, OnAStride
    <3> HIDE DEF w, q
    <3>4. w \in Indices /\ w < width'
      <4>1. w \in 0 .. n - 1 /\ n <= MaxWorkers /\ MaxWorkers \in Nat
        BY <1>b, <2>3, <3>3 DEF n
      <4>2. w \in Indices /\ w < n
        BY <3>2, <4>1 DEF Indices
      <4>3. QED
        BY <4>2 DEF n
    <3>5. returns'[w] = 0 /\ cursor'[w] = w
      BY <2>1, <3>4
    <3>6. QED
      BY <3>3, <3>4, <3>5 DEF Covered, n
  <2>5. QED
    BY <2>1, <2>4 DEF BandsCovered, Covered
<1>6. ASSUME NEW w \in Indices, RasterBand(w), ~left_over, crop_band_status = "OK"
      PROVE  BandsCovered'
  <2>a. callback = "bands" /\ cursor[w] < Len(crop_bands) /\ w < width
    BY <1>6 DEF RasterBand, Inside
  <2>2. cursor[w] \in Nat /\ \E k \in DOMAIN crop_bands : k = cursor[w] + 1
    <3>1. cursor[w] \in Nat
      BY <1>b
    <3>2. QED
      BY <1>a, <2>a, <3>1
  <2>b. PICK k \in DOMAIN crop_bands : k = cursor[w] + 1
    BY <2>2
  <2> DEFINE band == crop_bands[k]
  <2>1. /\ cursor' = [cursor EXCEPT ![w] = @ + width]
        /\ crop' = [p \in DOMAIN crop |->
                      IF p \in BandPlaces(band) THEN Pixel(band.crop_index, p) ELSE crop[p]]
        /\ UNCHANGED <<records, crop_bands, width, returns, left_over, callback>>
    BY <1>6, <2>b DEF RasterBand, Draw
  <2>3. /\ \A b : BandPlaces(b)' = BandPlaces(b)
        /\ \A c, p : Pixel(c, p)' = Pixel(c, p)
    BY <2>1 DEF BandPlaces, Pixel, BoxOf
  <2> HIDE DEF band
  <2>4. ASSUME NEW i \in DOMAIN crop_bands, Drawn(crop_bands[i]), i # k PROVE Drawn(crop_bands[i])'
    <3>1. /\ BandPlaces(crop_bands[i]) \subseteq DOMAIN crop
          /\ BandPlaces(crop_bands[i]) \cap BandPlaces(band) = {}
      BY <1>6, <2>a, <2>4, BandsApart DEF band
    <3>2. QED
      BY <2>1, <2>3, <2>4, <3>1 DEF Drawn
  <2>5. Drawn(crop_bands[k])'
    <3>1. BandPlaces(band) \subseteq DOMAIN crop
      BY <1>6, <2>a, BandsApart DEF band
    <3>2. QED
      BY <2>1, <2>3, <3>1 DEF Drawn, band
  <2>6. ASSUME NEW i \in DOMAIN crop_bands
        PROVE  Drawn(crop_bands[i])' \/ \E v \in Indices : Covered(v, i - 1)'
    <3>1. i - 1 \in Nat
      BY <1>a
    <3>2. CASE Drawn(crop_bands[i])
      BY <2>4, <2>5, <3>2
    <3>3. ASSUME NEW v \in Indices, Covered(v, i - 1), v # w
          PROVE  Covered(v, i - 1)'
      BY <1>b, <2>1, <3>3 DEF Covered
    <3>4. CASE Covered(w, i - 1)
      <4>1. PICK q \in Nat : returns[w] = 0 /\ i - 1 = cursor[w] + q * width
        BY <3>4 DEF Covered
      <4>2. i - 1 = cursor[w] \/ \E p \in Nat : i - 1 = (cursor[w] + width) + p * width
        <5> DEFINE l == i - 1
                   c == cursor[w]
        <5>1. l \in Nat /\ c \in Nat /\ width \in Nat /\ l = c + q * width
          BY <1>b, <2>2, <3>1, <4>1
        <5> HIDE DEF l, c
        <5>2. l = c \/ \E p \in Nat : l = (c + width) + p * width
          BY <5>1, NextOnStride
        <5>3. QED
          BY <5>2 DEF l, c
      <4>3. CASE i - 1 = cursor[w]
        <5>1. i = k
          BY <1>a, <2>2, <2>b, <4>3
        <5>2. QED
          BY <2>5, <5>1
      <4>4. CASE \E p \in Nat : i - 1 = (cursor[w] + width) + p * width
        <5>1. cursor'[w] = cursor[w] + width
          BY <1>b, <2>1
        <5>2. QED
          BY <2>1, <2>a, <4>1, <4>4, <5>1 DEF Covered
      <4>5. QED
        BY <4>2, <4>3, <4>4
    <3>5. QED
      BY <1>6, <2>a, <3>2, <3>3, <3>4 DEF BandsCovered
  <2>7. QED
    BY <2>1, <2>6 DEF BandsCovered
<1>7. ASSUME NEW w \in Indices,
             RasterFails(w) \/ (RasterBand(w) /\ ~(~left_over /\ crop_band_status = "OK"))
      PROVE  BandsCovered'
  BY <1>7 DEF RasterBand, RasterFails, BandsCovered
<1>8. ASSUME NEW w \in Indices, BandsDone(w) PROVE BandsCovered'
  <2>1. /\ callback = "bands" /\ cursor[w] >= Len(crop_bands) /\ w < width
        /\ returns' = [returns EXCEPT ![w] = 1]
        /\ UNCHANGED <<callback, left_over, crop_band_status, crop_bands, records, crop, cursor, width>>
    BY <1>8 DEF BandsDone, PF!End, Inside
  <2>2. ASSUME NEW i \in DOMAIN crop_bands PROVE ~Covered(w, i - 1)
    <3>1. i - 1 \in Nat /\ cursor[w] \in Nat /\ width \in Nat /\ ~(cursor[w] <= i - 1)
      BY <1>a, <1>b, <2>1
    <3>2. SUFFICES ASSUME NEW q \in Nat, i - 1 = cursor[w] + q * width PROVE FALSE
      BY DEF Covered
    <3>3. QED
      BY <3>1, <3>2, NextOnStride
  <2>3. ASSUME NEW i \in DOMAIN crop_bands, NEW v \in Indices, Covered(v, i - 1)
        PROVE  Covered(v, i - 1)'
    <3>1. v # w
      BY <2>2, <2>3
    <3>2. QED
      BY <1>b, <2>1, <2>3, <3>1 DEF Covered
  <2>4. \A i \in DOMAIN crop_bands : Drawn(crop_bands[i]) => Drawn(crop_bands[i])'
    BY <2>1 DEF Drawn, BandPlaces, Pixel, BoxOf
  <2>5. QED
    BY <2>1, <2>3, <2>4 DEF BandsCovered
<1>9. ASSUME NEW w \in Indices, Begin(w) PROVE BandsCovered'
  <2>1. UNCHANGED <<callback, left_over, crop_band_status, crop_bands, records, crop, cursor, width,
                    returns>>
    BY <1>9 DEF Begin, PF!Begin
  <2>2. QED
    BY <1>1, <2>1
<1>10. ASSUME NEW w \in Indices, Claim(w) \/ Recognize(w) \/ RecognizeFails(w)
       PROVE  BandsCovered'
  BY <1>0, <1>10 DEF Claim, Recognize, RecognizeFails
<1>11. QED
  BY <1>2, <1>3, <1>4, <1>5, <1>6, <1>7, <1>8, <1>9, <1>10
     DEF Next, NewRequest, RequestStep, CallbackStep

(* A crop whose bands were all drawn is whole.                             *)
LEMMA AllDrawn ==
  ASSUME IInv, InBandPhase, rpc # "idle", NEW c \in Scheduled,
         \A i \in DOMAIN crop_bands : Drawn(crop_bands[i])
  PROVE  CropWhole(c)
<1> TypeInv /\ ScheduleInv /\ GeometryInv /\ BandsListed
  BY DEF IInv, PixelsInv
<1> DEFINE w == BoxOf(c).width
           h == Height(c)
           o == crops[c].offset
<1>1. c \in Lines /\ c \in CropIndex
  BY Sizes DEF ScheduleInv, TypeInv
<1>2. w \in Nat /\ h \in Nat /\ o \in Nat
  BY <1>1, BoxTyped
<1>3. CropPlaces(c) = o .. o + w * h - 1
  BY <1>1 DEF GeometryInv, Bytes, Height, CropPlaces
<1>4. ASSUME NEW p \in CropPlaces(c) PROVE crop[p] = Pixel(c, p)
  <2> DEFINE k == p - o
  <2>1. w * h \in Nat
    <3> HIDE DEF w, h
    <3>1. QED
      BY <1>2
  <2>2. k \in Nat /\ k < w * h /\ p = o + k
    <3> DEFINE n == w * h
    <3>1. n \in Nat /\ p \in o .. o + n - 1
      BY <1>3, <2>1
    <3> HIDE DEF n, o
    <3>2. p - o \in Nat /\ p - o < n /\ p = o + (p - o)
      BY <1>2, <3>1
    <3>3. QED
      BY <3>2 DEF n
  <2> HIDE DEF k
  <2>3. PICK r \in 0 .. h - 1 : r * w <= k /\ k < (r + 1) * w
    <3> HIDE DEF w, h
    <3>1. QED
      BY <1>2, <2>2, RowOfPlace
  <2>4. PICK i \in DOMAIN crop_bands : crop_bands[i] = [crop_index |-> c, row |-> r]
    BY DEF BandsListed, HasBand
  <2>5. r \in Nat /\ r < h
    <3> HIDE DEF h
    <3>1. QED
      BY <1>2
  <2>6. /\ r * w \in Nat /\ (r + 1) * w = r * w + w
        /\ BandPlaces(crop_bands[i]) = o + r * w .. o + (r + 1) * w - 1
    <3>1. crop_bands[i].crop_index = c /\ crop_bands[i].row = r
      BY <2>4
    <3>2. QED
      BY <2>5, <3>1, PlacesOfBand
  <2>7. p \in BandPlaces(crop_bands[i])
    <3> DEFINE a == r * w
               b == (r + 1) * w
    <3>1. a \in Nat /\ b = a + w /\ a <= k /\ k < b
      BY <2>3, <2>6
    <3>2. BandPlaces(crop_bands[i]) = o + a .. o + b - 1
      BY <2>6
    <3> HIDE DEF a, b, o, w
    <3>3. QED
      BY <1>2, <2>2, <3>1, <3>2
  <2>8. QED
    BY <2>4, <2>7 DEF Drawn
<1>5. QED
  BY <1>4 DEF CropWhole

(* A slot of the schedule is a crop of the page.                           *)
LEMMA SlotOfLine ==
  ASSUME TypeInv, ScheduleInv, rpc \notin {"idle", "reserve", "schedule"},
         NEW s \in 0 .. line_count - 1
  PROVE  /\ s + 1 \in DOMAIN crop_schedule
         /\ crop_schedule[s + 1] \in Lines /\ crop_schedule[s + 1] \in Scheduled
<1>1. /\ crop_schedule \in Seq(CropIndex) /\ Len(crop_schedule) = line_count
      /\ Scheduled = Lines /\ line_count \in Nat
  BY Sizes DEF TypeInv, ScheduleInv
<1>2. DOMAIN crop_schedule = 1 .. line_count
  BY <1>1, LenProperties
<1>3. s + 1 \in DOMAIN crop_schedule
  BY <1>1, <1>2
<1>4. QED
  BY <1>1, <1>3 DEF Scheduled

(* From the barrier after the bands on, a crop stays whole until a worker  *)
(* has taken it and is done with it: turning it touches no other crop.     *)
LEMMA LinesWholeStep ==
  ASSUME IInv, [Next]_vars
  PROVE  LinesWhole'
<1> /\ TypeInv /\ PhaseInv /\ ScheduleInv /\ LayoutInv /\ BandsCovered /\ ClaimOnce /\ LinesWhole
    /\ LinesRun
  BY DEF IInv, PixelsInv, LinesInv
<1>0. ASSUME rpc' # "lines", callback' # "lines" PROVE LinesWhole'
  BY <1>0 DEF LinesWhole
<1>1. ASSUME UNCHANGED <<records, crop, line_count, crop_schedule, left_over, rpc, callback,
                         next_crop_slot, initial_crop_slot, active, slot>>
      PROVE  LinesWhole'
  BY <1>1 DEF LinesWhole, Lines, CropWhole, CropPlaces, Pixel, Open
<1>2. ASSUME UNCHANGED vars PROVE LinesWhole'
  BY <1>1, <1>2 DEF vars
<1>3. ASSUME NEW n, NEW boxes, NEW j, NEW m, NEW index,
             Detect(n, boxes, m, index) \/ DetectFails(n, boxes, j, m, index)
      PROVE  LinesWhole'
  BY <1>0, <1>3 DEF Detect, DetectFails, ReturnError, PhaseInv
<1>4. ASSUME Reserve \/ ReserveFails \/ ScheduleCrop \/ ScheduleFails \/ StartBands \/ NoLines
               \/ LinesReturn \/ ReportCapacity \/ Publish
      PROVE  LinesWhole'
  BY <1>0, <1>4 DEF Reserve, ReserveFails, ScheduleCrop, ScheduleFails, StartBands, NoLines,
     LinesReturn, ReportCapacity, Publish, ReturnError, PhaseInv
<1>5. ASSUME NoBands \/ BandsReturn, ~left_over', rpc' = "lines" PROVE LinesWhole'
  <2>1. /\ rpc # "idle" /\ InBandPhase /\ Lines \subseteq Scheduled /\ callback' # "lines"
        /\ UNCHANGED <<records, crop, line_count, left_over>>
    BY <1>5 DEF NoBands, BandsReturn, InBandPhase, PhaseInv, ScheduleInv
  <2>2. \A i \in DOMAIN crop_bands : Drawn(crop_bands[i])
    <3>1. CASE NoBands
      BY <3>1 DEF NoBands
    <3>2. CASE BandsReturn
      <4>1. /\ callback = "bands" /\ crop_band_status = "OK"
            /\ \A w \in Indices : w < width => returns[w] = 1
        BY <1>5, <3>2 DEF BandsReturn, PF!Return, PF!AllReturned, ReturnError
      <4>2. QED
        BY <1>5, <2>1, <4>1 DEF BandsCovered, Covered
    <3>3. QED
      BY <1>5, <3>1, <3>2
  <2>3. \A c \in Lines : CropWhole(c)
    BY <2>1, <2>2, AllDrawn
  <2>4. QED
    BY <2>1, <2>3 DEF LinesWhole, Lines, CropWhole, CropPlaces, Pixel
<1>6. ASSUME NoBands \/ BandsReturn, left_over' \/ rpc' # "lines" PROVE LinesWhole'
  BY <1>6 DEF NoBands, BandsReturn, PhaseInv, LinesWhole
<1>7. ASSUME StartLines PROVE LinesWhole'
  <2>1. /\ rpc = "lines" /\ rpc' = "running"
        /\ UNCHANGED <<records, crop, line_count, crop_schedule, left_over>>
    BY <1>7 DEF StartLines
  <2>2. ~left_over => \A s \in 0 .. line_count - 1 : CropWhole(crop_schedule[s + 1])
    BY <2>1, SlotOfLine DEF LinesWhole
  <2>3. QED
    BY <2>1, <2>2 DEF LinesWhole, CropWhole, CropPlaces, Pixel
<1>8. ASSUME NEW w \in Indices, RasterBand(w) \/ RasterFails(w) \/ BandsDone(w) PROVE LinesWhole'
  BY <1>0, <1>8 DEF RasterBand, RasterFails, BandsDone, PhaseInv
<1>9. ASSUME NEW w \in Indices, Begin(w) PROVE LinesWhole'
  BY <1>1, <1>9 DEF Begin
<1>10. ASSUME NEW w \in Indices, Claim(w) \/ Recognize(w) \/ RecognizeFails(w) PROVE LinesWhole'
  <2>1. /\ callback = "lines" /\ rpc = "running" /\ w < width
        /\ UNCHANGED <<records, line_count, crop_schedule, left_over, rpc, callback, active>>
    BY <1>10 DEF Claim, Recognize, RecognizeFails, Inside, PhaseInv
  <2>2. /\ line_count \in Nat /\ line_count <= MaxCrops /\ MaxCrops \in Nat /\ NoSlot \in Nat
        /\ NoSlot > MaxCrops /\ next_crop_slot \in Nat /\ slot \in [Indices -> Nat]
        /\ initial_crop_slot \in [Indices -> Nat] /\ active \in Nat /\ width \in Nat
        /\ w < active
    <3>1. PageTyped /\ next_crop_slot \in Nat /\ slot \in [Indices -> Nat]
          /\ initial_crop_slot \in [Indices -> Nat] /\ active \in Nat /\ width \in Nat
      BY DEF TypeInv
    <3>2. Indices \subseteq Nat /\ width <= active
      BY <2>1 DEF LinesRun, Indices
    <3>3. w < active
      BY <2>1, <3>1, <3>2
    <3>4. QED
      BY <3>1, <3>3, Sizes
  <2>3. ASSUME Claim(w), ~left_over, NEW s \in 0 .. line_count - 1, Open(s)'
        PROVE  CropWhole(crop_schedule[s + 1])'
    <3> DEFINE initial == initial_crop_slot[w] # NoSlot
               taken == IF initial THEN initial_crop_slot[w] ELSE next_crop_slot
    <3>1. /\ initial_crop_slot' = [initial_crop_slot EXCEPT ![w] = NoSlot]
          /\ next_crop_slot' = IF initial THEN next_crop_slot ELSE next_crop_slot + 1
          /\ slot' = [slot EXCEPT ![w] = taken] \/ UNCHANGED slot
          /\ UNCHANGED crop
      BY <2>3 DEF Claim
    <3>2. s \in Nat /\ s # NoSlot
      BY <2>2
    <3>3. Open(s)
      <4>1. CASE next_crop_slot' <= s
        BY <2>2, <3>1, <3>2, <4>1 DEF Open
      <4>2. ASSUME NEW v \in Indices, s = slot'[v] PROVE Open(s)
        <5>1. s = slot[v] \/ (v = w /\ s = taken)
          BY <2>2, <3>1, <4>2
        <5>2. s = taken => s = next_crop_slot \/ s = initial_crop_slot[w]
          OBVIOUS
        <5>3. QED
          BY <2>2, <3>2, <5>1, <5>2 DEF Open
      <4>3. ASSUME NEW v \in Indices, v < active, s = initial_crop_slot'[v] PROVE Open(s)
        <5>1. s = initial_crop_slot[v]
          BY <2>2, <3>1, <3>2, <4>3
        <5>2. QED
          BY <4>3, <5>1 DEF Open
      <4>4. QED
        BY <2>1, <2>3, <4>1, <4>2, <4>3 DEF Open
    <3>4. CropWhole(crop_schedule[s + 1])
      BY <2>1, <2>3, <3>3 DEF LinesWhole
    <3>5. QED
      BY <2>1, <3>1, <3>4 DEF CropWhole, CropPlaces, Pixel
  <2>4. ASSUME Recognize(w) \/ RecognizeFails(w), ~left_over, NEW s \in 0 .. line_count - 1, Open(s)'
        PROVE  CropWhole(crop_schedule[s + 1])'
    <3> DEFINE c == crop_schedule[slot[w] + 1]
               d == crop_schedule[s + 1]
    <3>1. /\ slot[w] # NoSlot /\ slot' = [slot EXCEPT ![w] = NoSlot] /\ MayTurn(c)
          /\ UNCHANGED <<initial_crop_slot, next_crop_slot>>
      BY <2>4 DEF Recognize, RecognizeFails
    <3>2. s \in Nat /\ s # NoSlot
      BY <2>2
    <3>3. Open(s) /\ s # slot[w]
      <4>1. CASE next_crop_slot <= s
        <5>1. slot[w] < next_crop_slot
          BY <2>1, <3>1 DEF ClaimOnce
        <5>2. QED
          BY <2>2, <3>2, <4>1, <5>1 DEF Open
      <4>2. ASSUME NEW v \in Indices, s = slot'[v] PROVE Open(s) /\ s # slot[w]
        <5>1. v # w /\ s = slot[v]
          BY <2>2, <3>1, <3>2, <4>2
        <5>2. slot[v] # slot[w]
          BY <2>1, <3>1, <5>1 DEF ClaimOnce
        <5>3. QED
          BY <5>1, <5>2 DEF Open
      <4>3. ASSUME NEW v \in Indices, v < active, s = initial_crop_slot[v] PROVE Open(s) /\ s # slot[w]
        <5>1. slot[w] # initial_crop_slot[v]
          BY <2>1, <3>2, <4>3 DEF ClaimOnce
        <5>2. QED
          BY <4>3, <5>1 DEF Open
      <4>4. QED
        BY <2>1, <2>4, <3>1, <4>1, <4>2, <4>3 DEF Open
    <3>4. slot[w] \in 0 .. line_count - 1
      <4>1. slot[w] < line_count /\ slot[w] \in Nat
        BY <2>2, <3>1 DEF PhaseInv
      <4>2. QED
        BY <2>2, <4>1
    <3>5. /\ c \in Scheduled /\ slot[w] + 1 \in DOMAIN crop_schedule
          /\ d \in Scheduled /\ s + 1 \in DOMAIN crop_schedule
      BY <2>1, <3>4, SlotOfLine
    <3>6. c # d
      <4>1. slot[w] + 1 # s + 1
        BY <3>2, <3>3, <3>4
      <4>2. QED
        BY <2>1, <3>5, <4>1 DEF ScheduleInv
    <3>7. CropPlaces(d) \subseteq DOMAIN crop /\ CropPlaces(c) \cap CropPlaces(d) = {}
      BY <2>1, <3>5, <3>6, CropsApart
    <3>8. CropWhole(d)
      BY <2>1, <2>4, <3>3 DEF LinesWhole
    <3> HIDE DEF c, d
    <3>9. \A p \in CropPlaces(d) : crop'[p] = crop[p]
      <4>1. CASE UNCHANGED crop
        BY <4>1
      <4>2. CASE ~(UNCHANGED crop)
        BY <3>1, <3>7, <4>2 DEF MayTurn
      <4>3. QED
        BY <4>1, <4>2
    <3>10. CropWhole(d)'
      <4>1. d' = d
        BY <2>1 DEF d
      <4>2. QED
        BY <2>1, <3>8, <3>9, <4>1 DEF CropWhole, CropPlaces, Pixel
    <3>11. QED
      BY <3>10 DEF d
  <2>5. QED
    BY <1>10, <2>1, <2>3, <2>4 DEF LinesWhole
<1>11. QED
  BY <1>2, <1>3, <1>4, <1>5, <1>6, <1>7, <1>8, <1>9, <1>10
     DEF Next, NewRequest, RequestStep, CallbackStep

(* The pool keeps the size it was created with.                            *)
LEMMA PoolStep ==
  ASSUME IInv, [Next]_vars
  PROVE  PoolAsAsked'
<1> TypeInv /\ PoolAsAsked
  BY DEF IInv, LinesInv
<1>1. ASSUME UNCHANGED <<setting, line_pool>> PROVE PoolAsAsked'
  BY <1>1 DEF PoolAsAsked, worker_count
<1>2. ASSUME UNCHANGED vars PROVE PoolAsAsked'
  <2>1. UNCHANGED <<setting, line_pool>>
    BY <1>2 DEF vars
  <2>2. QED
    BY <1>1, <2>1
<1>3. ASSUME NEW n, NEW boxes, NEW j, NEW m, NEW index,
             UNCHANGED setting, Detect(n, boxes, m, index) \/ DetectFails(n, boxes, j, m, index)
      PROVE  PoolAsAsked'
  BY <1>1, <1>3 DEF Detect, DetectFails
<1>4. ASSUME UNCHANGED setting, StartBands \/ StartLines PROVE PoolAsAsked'
  <2>1. PICK needed : EnsurePool(needed)
    BY <1>4 DEF StartBands, StartLines
  <2>2. "threads" \notin setting.faults => line_pool' \in {0, worker_count}
    BY <2>1, PoolTyped
  <2>3. QED
    BY <1>4, <2>2 DEF PoolAsAsked, worker_count
<1>5. ASSUME UNCHANGED setting,
             Reserve \/ ReserveFails \/ ScheduleCrop \/ ScheduleFails \/ NoBands \/ BandsReturn \/ NoLines
               \/ LinesReturn \/ ReportCapacity \/ Publish
      PROVE  PoolAsAsked'
  BY <1>1, <1>5 DEF Reserve, ReserveFails, ScheduleCrop, ScheduleFails, NoBands, BandsReturn, NoLines,
     LinesReturn, ReportCapacity, Publish
<1>6. ASSUME NEW w \in Indices, UNCHANGED setting,
             Begin(w) \/ RasterBand(w) \/ RasterFails(w) \/ BandsDone(w)
               \/ Claim(w) \/ Recognize(w) \/ RecognizeFails(w)
      PROVE  PoolAsAsked'
  BY <1>1, <1>6 DEF Begin, RasterBand, RasterFails, BandsDone, Claim, Recognize,
     RecognizeFails
<1>7. QED
  BY <1>2, <1>3, <1>4, <1>5, <1>6 DEF Next, NewRequest, RequestStep, CallbackStep

(* The workers that run: as many as slots, when every thread starts.       *)
LEMMA LinesWidth ==
  ASSUME TypeInv, PoolAsAsked, StartLines
  PROVE  /\ ActiveCount \in Nat \ {0} /\ ActiveCount <= line_count /\ ActiveCount <= MaxWorkers
         /\ width' <= ActiveCount
         /\ "threads" \notin setting.faults => width' = ActiveCount
<1>1. /\ worker_count \in Nat /\ 1 <= worker_count /\ worker_count <= MaxWorkers
      /\ MaxWorkers \in Nat /\ line_count \in Nat
  BY Sizes DEF TypeInv
<1>2. /\ line_count # 0 /\ EnsurePool(ActiveCount > 1)
      /\ width' = IF line_pool' = 0 THEN ActiveCount ELSE RunWidth(ActiveCount, line_pool')
  BY DEF StartLines, PF!Start
<1>3. /\ line_pool' \in Nat
      /\ "threads" \notin setting.faults => line_pool' \in {0, worker_count}
  BY <1>2, PoolTyped
<1>4. /\ ActiveCount \in Nat \ {0} /\ ActiveCount <= line_count /\ ActiveCount <= worker_count
  BY <1>1, <1>2 DEF ActiveCount, Smaller
<1>5. QED
  BY <1>1, <1>2, <1>3, <1>4 DEF RunWidth, Smaller

(* The initial slots are those before the cursor, each at one worker.      *)
LEMMA InitialSlots ==
  ASSUME TypeInv, PoolAsAsked, StartLines
  PROVE  /\ \A w \in Indices : w < ActiveCount => initial_crop_slot'[w] \in 0 .. ActiveCount - 1
         /\ \A s \in 0 .. ActiveCount - 1 :
              \E w \in Indices : w < ActiveCount /\ initial_crop_slot'[w] = s
         /\ \A v, w \in Indices : v < ActiveCount /\ w < ActiveCount /\ v # w =>
              initial_crop_slot'[v] # initial_crop_slot'[w]
<1> DEFINE n == ActiveCount
           S == 0 .. n - 1
           pick == Assignment
           first(w) == CHOOSE s \in S : pick[s] = w
<1>1. n \in Nat \ {0} /\ n <= MaxWorkers /\ MaxWorkers \in Nat
  BY LinesWidth, Sizes DEF TypeInv
<1>2. \A w \in Indices : w < n => initial_crop_slot'[w] = first(w)
  BY DEF StartLines
<1>3. pick \in Bijection(S, S)
  BY <1>1, AssignmentIsPermutation
<1>4. \A w \in Indices : w < n => w \in S
  BY <1>1 DEF Indices
<1>5. S \subseteq Indices /\ \A w \in S : w < n
  BY <1>1 DEF Indices
<1> HIDE DEF n, S, pick
<1>6. /\ \A w \in S : \E s \in S : pick[s] = w
      /\ \A s \in S : pick[s] \in S
      /\ \A s, t \in S : pick[s] = pick[t] => s = t
  <2>1. pick \in [S -> S] /\ \A s, t \in S : pick[s] = pick[t] => s = t
    BY <1>3 DEF Bijection, Injection, IsInjective
  <2>2. \A w \in S : \E s \in S : pick[s] = w
    BY <1>3 DEF Bijection, Surjection
  <2>3. QED
    BY <2>1, <2>2
<1>7. \A w \in S : first(w) \in S /\ pick[first(w)] = w
  BY <1>6
<1>8. \A s \in S : first(pick[s]) = s
  BY <1>6, <1>7
<1>d. \A v, w \in S : first(v) = first(w) => v = w
  BY <1>7
<1> HIDE DEF first
<1>9. \A w \in Indices : w < n => initial_crop_slot'[w] \in S
  BY <1>2, <1>4, <1>7
<1>10. \A s \in S : \E w \in Indices : w < n /\ initial_crop_slot'[w] = s
  BY <1>2, <1>5, <1>6, <1>8
<1>11. \A v, w \in Indices : v < n /\ w < n /\ v # w => initial_crop_slot'[v] # initial_crop_slot'[w]
  BY <1>2, <1>4, <1>d
<1>12. QED
  BY <1>9, <1>10, <1>11 DEF n, S

(* The indices of a run of lines, and what its workers leave when they end.*)
LEMMA LinesRunStep ==
  ASSUME IInv, [Next]_vars
  PROVE  LinesRun'
<1> TypeInv /\ PhaseInv /\ LinesRun /\ PoolAsAsked
  BY DEF IInv, LinesInv
<1>a. /\ line_count \in Nat /\ next_crop_slot \in Nat /\ NoSlot \in Nat
      /\ initial_crop_slot \in [Indices -> Nat] /\ returns \in [Indices -> {0, 1}]
      /\ task_status \in [Indices -> {"OK", "ERROR"}]
  BY Sizes DEF TypeInv
<1>0. ASSUME callback' # "lines" PROVE LinesRun'
  BY <1>0 DEF LinesRun
<1>1. ASSUME UNCHANGED <<setting, callback, active, line_count, width, initial_crop_slot,
                         returns, task_status, next_crop_slot>>
      PROVE  LinesRun'
  BY <1>1 DEF LinesRun, ActiveCount, worker_count, NoSlot
<1>2. ASSUME UNCHANGED vars PROVE LinesRun'
  <2>1. UNCHANGED <<setting, callback, active, line_count, width, initial_crop_slot,
                    returns, task_status, next_crop_slot>>
    BY <1>2 DEF vars
  <2>2. QED
    BY <1>1, <2>1
<1>3. ASSUME NEW n, NEW boxes, NEW j, NEW m, NEW index,
             Detect(n, boxes, m, index) \/ DetectFails(n, boxes, j, m, index)
      PROVE  LinesRun'
  BY <1>0, <1>3 DEF Detect, DetectFails, ReturnError, PhaseInv
<1>4. ASSUME Reserve \/ ReserveFails \/ ScheduleCrop \/ ScheduleFails \/ NoBands \/ BandsReturn \/ NoLines
               \/ StartBands \/ LinesReturn \/ ReportCapacity \/ Publish
      PROVE  LinesRun'
  BY <1>0, <1>4 DEF Reserve, ReserveFails, ScheduleCrop, ScheduleFails, NoBands, BandsReturn,
     NoLines, StartBands, LinesReturn, ReportCapacity, Publish, ReturnError, PhaseInv
<1>5. ASSUME UNCHANGED setting, StartLines PROVE LinesRun'
  <2>1. /\ active' = ActiveCount /\ returns' = [w \in Indices |-> 0] /\ UNCHANGED line_count
    BY <1>5 DEF StartLines, PF!Start
  <2>2. /\ ActiveCount \in Nat \ {0} /\ ActiveCount <= line_count
        /\ width' <= ActiveCount
        /\ "threads" \notin setting.faults => width' = ActiveCount
    BY <1>5, LinesWidth
  <2>3. ActiveCount' = ActiveCount
    BY <1>5, <2>1 DEF ActiveCount, worker_count
  <2>4. \A w \in Indices : w < ActiveCount => initial_crop_slot'[w] < line_count
    <3>1. \A w \in Indices : w < ActiveCount => initial_crop_slot'[w] \in 0 .. ActiveCount - 1
      BY <1>5, InitialSlots
    <3>2. QED
      BY <1>a, <2>2, <3>1
  <2>5. \A w \in Indices : returns'[w] # 1
    BY <2>1
  <2>6. QED
    BY <1>5, <2>1, <2>2, <2>3, <2>4, <2>5 DEF LinesRun
<1>6. ASSUME NEW w \in Indices, RasterBand(w) \/ RasterFails(w) \/ BandsDone(w) PROVE LinesRun'
  BY <1>0, <1>6 DEF RasterBand, RasterFails, BandsDone
<1>7. ASSUME NEW w \in Indices, UNCHANGED setting, Begin(w) \/ Recognize(w) PROVE LinesRun'
  <2>1. UNCHANGED <<callback, active, line_count, width, initial_crop_slot,
                    returns, task_status, next_crop_slot>>
    BY <1>7 DEF Begin, PF!Begin, Recognize
  <2>2. QED
    BY <1>1, <1>7, <2>1
<1>8. ASSUME NEW w \in Indices, UNCHANGED setting, RecognizeFails(w) PROVE LinesRun'
  <2>1. /\ UNCHANGED <<callback, active, line_count, width, initial_crop_slot, next_crop_slot>>
        /\ task_status' = [task_status EXCEPT ![w] = "ERROR"]
        /\ returns' = [returns EXCEPT ![w] = 1]
    BY <1>8 DEF RecognizeFails, PF!End
  <2>2. \A v \in Indices : returns'[v] = 1 /\ task_status'[v] = "OK" =>
                             returns[v] = 1 /\ task_status[v] = "OK"
    BY <1>a, <2>1
  <2>3. QED
    BY <1>8, <2>1, <2>2 DEF LinesRun, ActiveCount, worker_count, NoSlot
<1>9. ASSUME NEW w \in Indices, UNCHANGED setting, Claim(w) PROVE LinesRun'
  <2> DEFINE initial == initial_crop_slot[w] # NoSlot
             taken == IF initial THEN initial_crop_slot[w] ELSE next_crop_slot
  <2>1. /\ callback = "lines" /\ w < width
        /\ initial_crop_slot' = [initial_crop_slot EXCEPT ![w] = NoSlot]
        /\ next_crop_slot' = IF initial THEN next_crop_slot ELSE next_crop_slot + 1
        /\ \/ UNCHANGED returns
           \/ taken >= line_count /\ returns' = [returns EXCEPT ![w] = 1]
        /\ UNCHANGED <<callback, active, line_count, width, task_status>>
    BY <1>9 DEF Claim, PF!End, Inside
  <2>2. w < active
    BY <1>a, <2>1 DEF LinesRun, TypeInv, Indices
  <2>3. next_crop_slot' >= next_crop_slot /\ next_crop_slot' \in Nat
    BY <1>a, <2>1
  <2>4. \A v \in Indices : initial_crop_slot'[v] \in {initial_crop_slot[v], NoSlot}
    BY <1>a, <2>1
  <2>5. ASSUME NEW v \in Indices, v < active, returns'[v] = 1, task_status'[v] = "OK"
        PROVE  next_crop_slot' >= line_count
    <3>1. CASE returns[v] = 1
      BY <1>a, <2>1, <2>3, <2>5, <3>1 DEF LinesRun
    <3>2. CASE returns[v] # 1
      <4>1. v = w /\ taken >= line_count
        BY <1>a, <2>1, <2>5, <3>2
      <4>2. ~initial
        BY <1>a, <2>1, <2>2, <4>1 DEF LinesRun
      <4>3. QED
        BY <1>a, <2>3, <4>1, <4>2
    <3>3. QED
      BY <3>1, <3>2
  <2>6. QED
    BY <1>9, <2>1, <2>4, <2>5 DEF LinesRun, ActiveCount, worker_count, NoSlot
<1>10. QED
  BY <1>2, <1>3, <1>4, <1>5, <1>6, <1>7, <1>8, <1>9
     DEF Next, NewRequest, RequestStep, CallbackStep

(* The cursor and the initial slots hand out every slot at most once.      *)
LEMMA ClaimOnceStep ==
  ASSUME IInv, [Next]_vars
  PROVE  ClaimOnce'
<1> TypeInv /\ PhaseInv /\ ClaimOnce /\ LinesRun /\ PoolAsAsked
  BY DEF IInv, PixelsInv, LinesInv
<1>a. /\ NoSlot \in Nat /\ next_crop_slot \in Nat /\ slot \in [Indices -> Nat]
      /\ initial_crop_slot \in [Indices -> Nat] /\ active \in Nat /\ width \in Nat
  BY Sizes DEF TypeInv
<1>0. ASSUME callback' # "lines" PROVE ClaimOnce'
  BY <1>0 DEF ClaimOnce
<1>1. ASSUME UNCHANGED <<callback, slot, next_crop_slot, initial_crop_slot, active>>
      PROVE  ClaimOnce'
  BY <1>1 DEF ClaimOnce, NoSlot
<1>2. ASSUME UNCHANGED vars PROVE ClaimOnce'
  BY <1>1, <1>2 DEF vars
<1>3. ASSUME NEW n, NEW boxes, NEW j, NEW m, NEW index,
             Detect(n, boxes, m, index) \/ DetectFails(n, boxes, j, m, index)
      PROVE  ClaimOnce'
  BY <1>0, <1>3 DEF Detect, DetectFails, PhaseInv
<1>4. ASSUME Reserve \/ ReserveFails \/ ScheduleCrop \/ ScheduleFails \/ NoBands \/ BandsReturn
               \/ NoLines \/ StartBands \/ LinesReturn \/ ReportCapacity \/ Publish
      PROVE  ClaimOnce'
  BY <1>0, <1>4 DEF Reserve, ReserveFails, ScheduleCrop, ScheduleFails, NoBands, BandsReturn,
     NoLines, StartBands, LinesReturn, ReportCapacity, Publish, PhaseInv
<1>5. ASSUME StartLines PROVE ClaimOnce'
  <2>1. /\ active' = ActiveCount /\ next_crop_slot' = ActiveCount
        /\ slot' = [w \in Indices |-> NoSlot]
    BY <1>5 DEF StartLines
  <2>2. ActiveCount \in Nat
    BY <1>5, LinesWidth
  <2>3. \A w \in Indices : w < ActiveCount => initial_crop_slot'[w] < ActiveCount
    <3>1. \A w \in Indices : w < ActiveCount => initial_crop_slot'[w] \in 0 .. ActiveCount - 1
      BY <1>5, InitialSlots
    <3>2. QED
      BY <2>2, <3>1
  <2>4. \A v, w \in Indices : v < ActiveCount /\ w < ActiveCount /\ v # w =>
          initial_crop_slot'[v] # initial_crop_slot'[w]
    BY <1>5, InitialSlots
  <2>5. NoSlot' = NoSlot /\ \A w \in Indices : slot'[w] = NoSlot
    BY <2>1 DEF NoSlot
  <2> HIDE DEF NoSlot
  <2>6. QED
    BY <2>1, <2>3, <2>4, <2>5 DEF ClaimOnce
<1>6. ASSUME NEW w \in Indices, RasterBand(w) \/ RasterFails(w) \/ BandsDone(w) PROVE ClaimOnce'
  BY <1>0, <1>6 DEF RasterBand, RasterFails, BandsDone
<1>7. ASSUME NEW w \in Indices, Begin(w) PROVE ClaimOnce'
  BY <1>1, <1>7 DEF Begin
<1>8. ASSUME NEW w \in Indices, Recognize(w) \/ RecognizeFails(w) PROVE ClaimOnce'
  <2>1. /\ callback = "lines" /\ slot' = [slot EXCEPT ![w] = NoSlot]
        /\ UNCHANGED <<next_crop_slot, initial_crop_slot, active>>
    BY <1>8 DEF Recognize, RecognizeFails
  <2>2. \A v \in Indices : slot'[v] = IF v = w THEN NoSlot ELSE slot[v]
    BY <1>a, <2>1
  <2>3. NoSlot' = NoSlot
    BY DEF NoSlot
  <2> HIDE DEF NoSlot
  <2>4. QED
    BY <2>1, <2>2, <2>3 DEF ClaimOnce
<1>9. ASSUME NEW w \in Indices, Claim(w) PROVE ClaimOnce'
  <2> DEFINE initial == initial_crop_slot[w] # NoSlot
             taken == IF initial THEN initial_crop_slot[w] ELSE next_crop_slot
  <2>1. /\ callback = "lines" /\ w < width /\ slot[w] = NoSlot
        /\ initial_crop_slot' = [initial_crop_slot EXCEPT ![w] = NoSlot]
        /\ next_crop_slot' = IF initial THEN next_crop_slot ELSE next_crop_slot + 1
        /\ slot' = [slot EXCEPT ![w] = taken] \/ UNCHANGED slot
        /\ UNCHANGED active
    BY <1>9 DEF Claim, Inside
  <2>2. w < active
    BY <1>a, <2>1 DEF LinesRun, Indices
  <2>3. /\ \A v \in Indices : slot'[v] = slot[v] \/ (v = w /\ slot'[v] = taken)
        /\ \A v \in Indices : initial_crop_slot'[v] = IF v = w THEN NoSlot ELSE initial_crop_slot[v]
        /\ next_crop_slot <= next_crop_slot' /\ next_crop_slot' \in Nat
    BY <1>a, <2>1
  <2>4. taken \in Nat /\ taken < next_crop_slot'
    BY <1>a, <2>1, <2>2 DEF ClaimOnce
  <2>5. \A v \in Indices : slot[v] # NoSlot => slot[v] < next_crop_slot /\ slot[v] # taken
    BY <1>a, <2>1, <2>2 DEF ClaimOnce
  <2>6. \A v \in Indices : v < active /\ v # w /\ initial_crop_slot[v] # NoSlot =>
          initial_crop_slot[v] < next_crop_slot /\ initial_crop_slot[v] # taken
    BY <1>a, <2>1, <2>2 DEF ClaimOnce
  <2>7. NoSlot' = NoSlot
    BY DEF NoSlot
  <2> HIDE DEF taken, initial, NoSlot
  <2>8. \A v \in Indices : slot'[v] # NoSlot => slot'[v] < next_crop_slot'
    BY <1>a, <2>3, <2>4, <2>5
  <2>9. \A u, v \in Indices : u # v /\ slot'[u] # NoSlot => slot'[u] # slot'[v]
    BY <2>1, <2>3, <2>5 DEF ClaimOnce
  <2>10. ASSUME NEW v \in Indices, v < active, initial_crop_slot'[v] # NoSlot
         PROVE  /\ initial_crop_slot'[v] < next_crop_slot'
                /\ \A u \in Indices : slot'[u] # initial_crop_slot'[v]
                /\ \A u \in Indices : u < active /\ u # v =>
                     initial_crop_slot'[u] # initial_crop_slot'[v]
    <3>1. v # w /\ initial_crop_slot'[v] = initial_crop_slot[v] /\ initial_crop_slot[v] # NoSlot
      BY <2>3, <2>10
    <3>2. initial_crop_slot[v] < next_crop_slot /\ initial_crop_slot[v] # taken
      BY <2>6, <2>10, <3>1
    <3>3. initial_crop_slot[v] < next_crop_slot'
      BY <1>a, <2>3, <3>2
    <3>4. \A u \in Indices : slot'[u] # initial_crop_slot[v]
      BY <2>1, <2>3, <2>10, <3>1, <3>2 DEF ClaimOnce
    <3>5. \A u \in Indices : u < active /\ u # v => initial_crop_slot'[u] # initial_crop_slot[v]
      BY <2>1, <2>3, <2>10, <3>1 DEF ClaimOnce
    <3>6. QED
      BY <3>1, <3>3, <3>4, <3>5
  <2>11. QED
    BY <2>1, <2>7, <2>8, <2>9, <2>10 DEF ClaimOnce
<1>10. QED
  BY <1>2, <1>3, <1>4, <1>5, <1>6, <1>7, <1>8, <1>9
     DEF Next, NewRequest, RequestStep, CallbackStep

(* No line is forgotten between the claims, the runs and the failures.     *)
LEMMA LinesPendingStep ==
  ASSUME IInv, [Next]_vars
  PROVE  LinesPending'
<1> TypeInv /\ PhaseInv /\ LinesRun /\ LinesPending /\ PoolAsAsked /\ ScheduleInv
  BY DEF IInv, LinesInv
<1>a. /\ line_count \in Nat /\ line_count <= MaxCrops /\ NoSlot \in Nat /\ NoSlot > MaxCrops
      /\ MaxCrops \in Nat /\ next_crop_slot \in Nat /\ slot \in [Indices -> Nat]
      /\ initial_crop_slot \in [Indices -> Nat] /\ returns \in [Indices -> {0, 1}]
      /\ task_status \in [Indices -> {"OK", "ERROR"}]
  BY Sizes DEF TypeInv
<1>b. \A s \in 0 .. line_count - 1 : s \in Nat /\ s # NoSlot
  BY <1>a
<1>0. ASSUME callback' # "lines" PROVE LinesPending'
  BY <1>0 DEF LinesPending
<1>1. ASSUME UNCHANGED <<callback, active, line_count, width, initial_crop_slot, slot, request,
                         scratch_lines, crop_schedule, returns, task_status, next_crop_slot>>
      PROVE  LinesPending'
  BY <1>1 DEF LinesPending, Pending
<1>2. ASSUME UNCHANGED vars PROVE LinesPending'
  <2>1. UNCHANGED <<callback, active, line_count, width, initial_crop_slot, slot, request,
                    scratch_lines, crop_schedule, returns, task_status, next_crop_slot>>
    BY <1>2 DEF vars
  <2>2. QED
    BY <1>1, <2>1
<1>3. ASSUME NEW n, NEW boxes, NEW j, NEW m, NEW index,
             Detect(n, boxes, m, index) \/ DetectFails(n, boxes, j, m, index)
      PROVE  LinesPending'
  BY <1>0, <1>3 DEF Detect, DetectFails, ReturnError, PhaseInv
<1>4. ASSUME Reserve \/ ReserveFails \/ ScheduleCrop \/ ScheduleFails \/ NoBands \/ BandsReturn \/ NoLines
               \/ StartBands \/ LinesReturn \/ ReportCapacity \/ Publish
      PROVE  LinesPending'
  BY <1>0, <1>4 DEF Reserve, ReserveFails, ScheduleCrop, ScheduleFails, NoBands, BandsReturn,
     NoLines, StartBands, LinesReturn, ReportCapacity, Publish, ReturnError, PhaseInv
<1>5. ASSUME StartLines PROVE LinesPending'
  <2>1. /\ active' = ActiveCount /\ next_crop_slot' = ActiveCount /\ UNCHANGED line_count
        /\ returns' = [w \in Indices |-> 0]
    BY <1>5 DEF StartLines, PF!Start
  <2>2. ActiveCount \in Nat \ {0}
    BY <1>5, LinesWidth
  <2>3. ASSUME width' = active', NEW s \in 0 .. line_count - 1
        PROVE  next_crop_slot' <= s \/ \E w \in Indices : Pending(w, s)'
    <3>1. CASE s < ActiveCount
      <4>1. s \in 0 .. ActiveCount - 1
        BY <1>b, <2>2, <3>1
      <4>2. PICK w \in Indices : w < ActiveCount /\ initial_crop_slot'[w] = s
        BY <1>5, <4>1, InitialSlots
      <4>3. QED
        BY <2>1, <2>3, <4>2 DEF Pending
    <3>2. CASE ~(s < ActiveCount)
      BY <1>b, <2>1, <2>2, <3>2
    <3>3. QED
      BY <3>1, <3>2
  <2>4. QED
    BY <2>1, <2>3 DEF LinesPending
<1>6. ASSUME NEW w \in Indices, RasterBand(w) \/ RasterFails(w) \/ BandsDone(w) PROVE LinesPending'
  BY <1>0, <1>6 DEF RasterBand, RasterFails, BandsDone
<1>7. ASSUME NEW w \in Indices, Begin(w) PROVE LinesPending'
  <2>1. UNCHANGED <<callback, active, line_count, width, initial_crop_slot, slot, request,
                    scratch_lines, crop_schedule, returns, task_status, next_crop_slot>>
    BY <1>7 DEF Begin, PF!Begin
  <2>2. QED
    BY <1>1, <2>1
<1>8. ASSUME NEW w \in Indices, RecognizeFails(w) PROVE LinesPending'
  <2>1. /\ task_status' = [task_status EXCEPT ![w] = "ERROR"] /\ w < width
        /\ UNCHANGED <<width, active, line_count>>
    BY <1>8 DEF RecognizeFails, PF!End, Inside
  <2>2. \A s : Pending(w, s)'
    BY <1>a, <2>1 DEF Pending
  <2>3. QED
    BY <2>2 DEF LinesPending
<1>9. ASSUME NEW w \in Indices, Recognize(w) PROVE LinesPending'
  <2> DEFINE c == crop_schedule[slot[w] + 1]
  <2>1. /\ callback = "lines" /\ slot' = [slot EXCEPT ![w] = NoSlot]
        /\ scratch_lines' = [scratch_lines EXCEPT ![c] = request]
        /\ UNCHANGED <<width, active, line_count, request, crop_schedule, next_crop_slot,
                       initial_crop_slot, returns, task_status>>
    BY <1>9 DEF Recognize
  <2>2. scratch_lines \in [CropIndex -> Nat]
    BY DEF TypeInv
  <2>3. ASSUME NEW s \in 0 .. line_count - 1 PROVE crop_schedule[s + 1] \in CropIndex
    <3>1. crop_schedule \in Seq(CropIndex) /\ rpc = "running"
      BY <2>1 DEF TypeInv, PhaseInv
    <3>2. Len(crop_schedule) = line_count
      BY <3>1 DEF ScheduleInv
    <3>3. s + 1 \in 1 .. Len(crop_schedule)
      BY <1>a, <3>2
    <3>4. QED
      BY <3>1, <3>3, ElementOfSeq
  <2>4. ASSUME NEW s \in 0 .. line_count - 1, scratch_lines[crop_schedule[s + 1]] = request
        PROVE  scratch_lines'[crop_schedule[s + 1]] = request
    BY <2>1, <2>2, <2>3, <2>4
  <2>5. ASSUME NEW s \in 0 .. line_count - 1, NEW v \in Indices, Pending(v, s)
        PROVE  scratch_lines'[crop_schedule[s + 1]] = request \/ Pending(v, s)'
    <3>1. CASE v = w /\ s = slot[w]
      BY <2>1, <2>2, <2>3, <3>1
    <3>2. CASE v # w \/ s # slot[w]
      BY <1>a, <2>1, <2>5, <3>2 DEF Pending
    <3>3. QED
      BY <3>1, <3>2
  <2>6. QED
    BY <2>1, <2>4, <2>5 DEF LinesPending
<1>10. ASSUME NEW w \in Indices, Claim(w) PROVE LinesPending'
  <2> DEFINE initial == initial_crop_slot[w] # NoSlot
             taken == IF initial THEN initial_crop_slot[w] ELSE next_crop_slot
  <2>1. /\ callback = "lines" /\ w < width /\ returns[w] = 0 /\ slot[w] = NoSlot
        /\ initial_crop_slot' = [initial_crop_slot EXCEPT ![w] = NoSlot]
        /\ next_crop_slot' = IF initial THEN next_crop_slot ELSE next_crop_slot + 1
        /\ \/ taken < line_count /\ slot' = [slot EXCEPT ![w] = taken] /\ UNCHANGED returns
           \/ taken >= line_count /\ returns' = [returns EXCEPT ![w] = 1] /\ UNCHANGED slot
        /\ UNCHANGED <<width, active, line_count, request, crop_schedule, scratch_lines, task_status>>
    BY <1>10 DEF Claim, PF!End, Inside
  <2>2. taken \in Nat /\ (initial => taken < line_count)
    <3>1. w < active
      BY <1>a, <2>1 DEF LinesRun, TypeInv, Indices
    <3>2. QED
      BY <1>a, <2>1, <3>1 DEF LinesRun
  <2>3. ASSUME NEW s \in 0 .. line_count - 1, next_crop_slot <= s
        PROVE  next_crop_slot' <= s \/ Pending(w, s)'
    <3>1. CASE initial \/ next_crop_slot # s
      BY <1>a, <1>b, <2>1, <2>3, <3>1
    <3>2. CASE ~initial /\ next_crop_slot = s
      <4>1. taken = s /\ taken < line_count
        BY <1>a, <3>2
      <4>2. slot'[w] = s /\ returns'[w] = 0
        BY <1>a, <2>1, <4>1
      <4>3. QED
        BY <2>1, <4>2 DEF Pending
    <3>3. QED
      BY <3>1, <3>2
  <2>4. ASSUME NEW s \in 0 .. line_count - 1, NEW v \in Indices, Pending(v, s)
        PROVE  Pending(v, s)'
    <3>1. CASE v # w
      BY <1>a, <2>1, <2>4, <3>1 DEF Pending
    <3>2. CASE v = w /\ task_status[w] = "ERROR"
      BY <2>1, <3>2 DEF Pending
    <3>3. CASE v = w /\ task_status[w] # "ERROR"
      <4>1. s = initial_crop_slot[w] /\ initial
        BY <1>b, <2>1, <2>4, <3>3 DEF Pending
      <4>2. slot'[w] = s /\ returns'[w] = 0
        BY <1>a, <2>1, <2>2, <4>1
      <4>3. QED
        BY <2>1, <3>3, <4>2 DEF Pending
    <3>4. QED
      BY <3>1, <3>2, <3>3
  <2>5. QED
    BY <2>1, <2>3, <2>4 DEF LinesPending
<1>11. QED
  BY <1>2, <1>3, <1>4, <1>5, <1>6, <1>7, <1>8, <1>9, <1>10
     DEF Next, NewRequest, RequestStep, CallbackStep

(* The barrier at the end of the lines, when every status is good.         *)
LEMMA AllRecognized ==
  ASSUME IInv, callback = "lines", "threads" \notin setting.faults,
         \A w \in Indices : w < width => returns[w] = 1,
         \A w \in Indices : w < active => task_status[w] = "OK"
  PROVE  \A c \in Lines : scratch_lines[c] = request
<1>1. /\ TypeInv /\ rpc = "running" /\ Scheduled = Lines /\ Len(crop_schedule) = line_count
      /\ active = ActiveCount /\ width = active
  BY DEF IInv, PhaseInv, ScheduleInv, LinesInv, LinesRun
<1>2. /\ worker_count \in Nat /\ 1 <= worker_count /\ line_count \in Nat /\ next_crop_slot \in Nat
      /\ MaxWorkers \in Nat /\ worker_count <= MaxWorkers /\ width \in Nat
  BY <1>1, Sizes DEF TypeInv
<1>3. ASSUME line_count # 0 PROVE next_crop_slot >= line_count
  <2>1. 0 \in Indices /\ 0 < active /\ 0 < width
    BY <1>1, <1>2, <1>3 DEF ActiveCount, Smaller, Indices
  <2>2. returns[0] = 1 /\ task_status[0] = "OK"
    BY <2>1
  <2>3. QED
    BY <2>1, <2>2 DEF IInv, LinesInv, LinesRun
<1>4. ASSUME NEW s \in 0 .. line_count - 1 PROVE scratch_lines[crop_schedule[s + 1]] = request
  <2>1. ~(next_crop_slot <= s)
    BY <1>2, <1>3
  <2>2. \A w \in Indices : ~Pending(w, s)
    BY <1>1 DEF Pending
  <2>3. QED
    BY <1>1, <2>1, <2>2 DEF IInv, LinesInv, LinesPending
<1>5. ASSUME NEW c \in Lines PROVE \E s \in 0 .. line_count - 1 : c = crop_schedule[s + 1]
  <2>1. DOMAIN crop_schedule = 1 .. line_count
    BY <1>1, LenProperties DEF TypeInv
  <2>2. PICK i \in 1 .. line_count : c = crop_schedule[i]
    BY <1>1, <2>1 DEF Scheduled
  <2>3. i - 1 \in 0 .. line_count - 1 /\ (i - 1) + 1 = i
    BY <1>2
  <2>4. QED
    BY <2>2, <2>3
<1>6. QED
  BY <1>4, <1>5

LEMMA NoLineMissingStep ==
  ASSUME IInv, [Next]_vars
  PROVE  NoLineMissing'
<1> TypeInv /\ PhaseInv /\ NoLineMissing
  BY DEF IInv, LinesInv
<1>0. ASSUME rpc' # "publish" PROVE NoLineMissing'
  BY <1>0 DEF NoLineMissing, EveryLineRecognized
<1>1. ASSUME UNCHANGED vars PROVE NoLineMissing'
  BY <1>1 DEF vars, NoLineMissing, EveryLineRecognized, Lines
<1>2. ASSUME NEW n, NEW boxes, NEW j, NEW m, NEW index,
             Detect(n, boxes, m, index) \/ DetectFails(n, boxes, j, m, index)
      PROVE  NoLineMissing'
  BY <1>0, <1>2 DEF Detect, DetectFails, ReturnError
<1>3. ASSUME Reserve \/ ReserveFails \/ ScheduleCrop \/ ScheduleFails \/ StartBands \/ NoBands \/ BandsReturn
               \/ StartLines \/ ReportCapacity \/ Publish
      PROVE  NoLineMissing'
  BY <1>0, <1>3 DEF Reserve, ReserveFails, ScheduleCrop, ScheduleFails, StartBands, NoBands, BandsReturn,
     StartLines, ReportCapacity, Publish, ReturnError
<1>4. ASSUME NoLines PROVE NoLineMissing'
  BY <1>4 DEF NoLines, NoLineMissing, EveryLineRecognized, Lines
<1>5. ASSUME UNCHANGED setting, LinesReturn PROVE NoLineMissing'
  <2>1. /\ callback = "lines" /\ \A w \in Indices : w < width => returns[w] = 1
        /\ rpc' = "publish" => \A w \in Indices : w < active => task_status[w] = "OK"
        /\ UNCHANGED <<line_count, scratch_lines, request>>
    BY <1>5 DEF LinesReturn, PF!Return, PF!AllReturned, ReturnError
  <2>2. ASSUME rpc' = "publish", "threads" \notin setting.faults
        PROVE  \A c \in Lines : scratch_lines[c] = request
    BY <2>1, <2>2, AllRecognized
  <2>3. QED
    BY <1>5, <2>1, <2>2 DEF NoLineMissing, EveryLineRecognized, Lines
<1>6. ASSUME NEW w \in Indices,
             Begin(w) \/ RasterBand(w) \/ RasterFails(w) \/ BandsDone(w)
               \/ Claim(w) \/ Recognize(w) \/ RecognizeFails(w)
      PROVE  NoLineMissing'
  <2>1. UNCHANGED rpc /\ (width # 0 \/ callback # "none")
    BY <1>6 DEF Begin, PF!Begin, RasterBand, RasterFails, BandsDone, Claim, Recognize,
       RecognizeFails, TypeInv, Indices
  <2>2. rpc = "running"
    BY <2>1 DEF PhaseInv
  <2>3. QED
    BY <1>0, <2>1, <2>2
<1>7. QED
  BY <1>1, <1>2, <1>3, <1>4, <1>5, <1>6 DEF Next, NewRequest, RequestStep, CallbackStep

-----------------------------------------------------------------------------
(* The theorems.                                                           *)

LEMMA Inductive == IInv /\ [Next]_vars => IInv'
<1> SUFFICES ASSUME IInv, [Next]_vars PROVE IInv'
  OBVIOUS
<1>1. TypeInv' /\ PhaseInv' /\ ScheduleInv' /\ BandsInv'
  BY TypeStep, PhaseStep, ScheduleStep, BandsStep
<1>2. PixelsInv'
  BY GeometryStep, LayoutStep, FreshStep, BandsListedStep, BandsCoveredStep, ClaimOnceStep,
     LinesWholeStep DEF PixelsInv
<1>3. LinesInv'
  BY PoolStep, LinesRunStep, LinesPendingStep, NoLineMissingStep DEF LinesInv
<1>4. QED
  BY <1>1, <1>2, <1>3 DEF IInv

LEMMA Invariant == Spec => []IInv
BY Initially, Inductive, PTL DEF Spec

(* What OwnBands asks of a page.                                           *)
LEMMA OwnPage ==
  ASSUME IInv, OwnBands
  PROVE  ~left_over
BY DEF IInv, PixelsInv, FreshInv, OwnBands

(* execute_crop_bands (ocr.c 53-55, 709-710): on a page that began with an *)
(* empty band list - any page, while memory lasts - no two bands of a run  *)
(* write the same place of the shared buffer, so no two threads ever do,   *)
(* and each band is a row of a crop of this page, inside the buffer.       *)
THEOREM BandsDisjointAlways == Spec => []BandsStayDisjoint
<1>1. ASSUME IInv PROVE BandsStayDisjoint
  BY <1>1, OwnPage, BandsApart DEF BandsStayDisjoint, BandsDisjoint
<1>2. QED
  BY <1>1, Invariant, PTL

(* process_worker_task (ocr.c): on such a page, a crop that a line worker  *)
(* classifies, turns and recognizes shows its own box in every pixel,      *)
(* whichever threads drew it and whatever its neighbours go through.       *)
THEOREM RecognizedWholeAlways == Spec => []RecognizedWhole
<1>1. ASSUME IInv PROVE RecognizedWhole
  <2>1. SUFFICES ASSUME OwnBands, NEW w \in Indices, slot[w] # NoSlot
                 PROVE  CropWhole(crop_schedule[slot[w] + 1])
    BY DEF RecognizedWhole
  <2>2. callback = "lines" /\ slot[w] < line_count
    BY <1>1, <2>1 DEF IInv, PhaseInv
  <2>3. slot[w] \in 0 .. line_count - 1
    <3>1. slot[w] \in Nat /\ line_count \in Nat
      BY <1>1, Sizes DEF IInv, TypeInv
    <3>2. QED
      BY <2>2, <3>1
  <2>4. QED
    BY <1>1, <2>1, <2>2, <2>3, OwnPage DEF IInv, PixelsInv, LinesWhole, Open
<1>2. QED
  BY <1>1, Invariant, PTL

(* ocr.c 1267-1268: what reaches publication was recognized in this very   *)
(* request, every line of it, when the pool has the threads it asked for.  *)
THEOREM NoLineMissingAlways == Spec => []NoLineMissing
<1>1. IInv => NoLineMissing
  BY DEF IInv, LinesInv
<1>2. QED
  BY <1>1, Invariant, PTL

(* The caller's buffers change only by a whole, fresh response: an error,  *)
(* at whatever stage, leaves what an earlier request returned.             *)
THEOREM PublishesWhole == Spec => PublishedWhole
<1> DEFINE Fresh ==
      published' # published =>
        /\ Len(published') = line_count
        /\ "threads" \notin setting.faults =>
             \A s \in DOMAIN published' : published'[s] = request
<1>1. ASSUME IInv, [Next]_vars PROVE Fresh
  <2>1. CASE Publish
    <3>1. /\ published' = [s \in 1 .. line_count |-> scratch_lines[s - 1]] /\ rpc = "publish"
      BY <2>1 DEF Publish
    <3>2. line_count \in Nat
      BY <1>1, Sizes DEF IInv, TypeInv
    <3>3. Len(published') = line_count
      BY <3>1, <3>2
    <3>4. ASSUME "threads" \notin setting.faults, NEW s \in 1 .. line_count
          PROVE  published'[s] = request
      <4>1. s - 1 \in Lines
        BY <3>2 DEF Lines
      <4>2. scratch_lines[s - 1] = request
        BY <1>1, <3>1, <3>4, <4>1 DEF IInv, LinesInv, NoLineMissing, EveryLineRecognized
      <4>3. QED
        BY <3>1, <4>2
    <3>5. QED
      BY <3>1, <3>3, <3>4
  <2>2. CASE ~Publish
    <3>1. UNCHANGED published
      BY <1>1, <2>2 DEF Next, NewRequest, RequestStep, CallbackStep, vars, Detect, DetectFails,
         Reserve, ReserveFails, ScheduleCrop, ScheduleFails, StartBands, NoBands, BandsReturn, NoLines,
         StartLines, LinesReturn, ReportCapacity, Begin, RasterBand, RasterFails, BandsDone,
         Claim, Recognize, RecognizeFails, ReturnError
    <3>2. QED
      BY <3>1
  <2>3. QED
    BY <2>1, <2>2
<1>2. ASSUME IInv, [Next]_vars PROVE [Fresh]_vars
  BY <1>1, <1>2
<1>3. QED
  BY <1>2, Invariant, PTL DEF Spec, PublishedWhole
=============================================================================
