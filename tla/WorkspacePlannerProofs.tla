----------------------- MODULE WorkspacePlannerProofs -----------------------
(***************************************************************************)
(* For any graphs, builds and sizes: in the workspace that either planner  *)
(* lays out nothing that a node reads was overwritten, elided temporaries  *)
(* are never asked for, and the fused pass of the default build, whose     *)
(* input may be dead before its output is born, never overtakes itself.    *)
(***************************************************************************)
EXTENDS WorkspacePlanner, FiniteSetTheorems, SequenceTheorems, WellFoundedInduction, TLAPS

-----------------------------------------------------------------------------
(* The inductive invariant.                                                *)

SeparateBy(off, t, u) ==
  off[t] + graph.size[t] <= off[u] \/ off[u] + graph.size[u] <= off[t]
Separate(t, u) == SeparateBy(offset, t, u)

(* A plan, complete or not, in a workspace of e lines. *)
Fitting(off, e) ==
  \A t \in Tensors : off[t] # NoOffset =>
    ~Skipped(t) /\ off[t] \in Nat /\ off[t] + graph.size[t] <= e
Disjoint(off) ==
  \A t, u \in Tensors :
    t # u /\ off[t] # NoOffset /\ off[u] # NoOffset /\ LifetimesOverlap(t, u)
      => SeparateBy(off, t, u)
Complete(off) == \A t \in Planned : off[t] # NoOffset
GoodPlan(off, e) ==
  off \in [Tensors -> Int] /\ e \in Nat /\ Fitting(off, e) /\ Disjoint(off)

TypeInv ==
  /\ build \in Builds /\ graph \in Graphs
  /\ pc \in {"v1", "v2", "choose", "run", "done", "failed"}
  /\ node \in 1 .. Len(graph.nodes) + 1
  /\ candidate \in Nat /\ line \in Nat
  /\ GoodPlan(offset, end)

(* The free list is sorted, and no two of its blocks touch. *)
BlockEnd(b) == b.offset + b.size
IsBlock(b) == b.offset \in Nat /\ b.size \in Nat \ {0}
Blocks == [offset : Nat, size : Nat \ {0}]
Ordered(s) == \A i, j \in DOMAIN s : i < j => BlockEnd(s[i]) <= s[j].offset
Gaps(s, S) == \A i \in 1 .. Len(s) - 1 : i \notin S => BlockEnd(s[i]) < s[i + 1].offset
FreeList(s) == s \in Seq(Blocks) /\ Ordered(s) /\ Gaps(s, {})
Free(s, at) == \E i \in DOMAIN s : s[i].offset <= at /\ at < BlockEnd(s[i])

(* While first fit places the tensors: what is live has a place of its own *)
(* and what is free is nobody's.                                           *)
LiveInv ==
  /\ \A t \in live : t \in Tensors /\ offset[t] # NoOffset
  /\ \A t \in Tensors : offset[t] # NoOffset =>
       Birth(t) <= node /\ (LastUse(t) >= node => t \in live)
  /\ \A t \in Planned : Birth(t) < node => offset[t] # NoOffset
  /\ \A t, u \in live : t # u => Separate(t, u)
FreeInv ==
  /\ FreeList(blocks)
  /\ \A i \in DOMAIN blocks : BlockEnd(blocks[i]) <= end
  /\ \A t \in live, at \in Nat : Free(blocks, at) => at \notin Lines(t)

(* The output of a fused pass is about to be placed, and its input, which  *)
(* died with the node before, lies in the free list.                       *)
SourceFreed ==
  \A n \in Nodes :
    FusedAt(n) /\ Source(n) # 0 /\ node = n + 4 /\ Source(n) \notin live
      /\ offset[Out(n + 4)] = NoOffset
    => \A at \in Lines(Source(n)) : Free(blocks, at)

V1Inv == pc = "v1" => LiveInv /\ FreeInv /\ (~build.planner_v2 => SourceFreed)

(* First fit puts the output of a fused pass beside its input or not       *)
(* behind its start.                                                       *)
PassForward ==
  ~build.planner_v2 =>
    \A n \in Nodes :
      FusedAt(n) /\ Source(n) # 0 /\ offset[Out(n + 4)] # NoOffset
      => \/ offset[Out(n + 4)] <= offset[Source(n)]
         \/ Separate(Source(n), Out(n + 4))

(* What lw_plan_workspace remembers of the first plan is a plan. *)
V2Inv ==
  /\ pc \in {"v2", "choose"} =>
       /\ build.planner_v2
       /\ v1.ok => GoodPlan(v1.offset, v1.end) /\ Complete(v1.offset)
  /\ pc \in {"choose", "run", "done"} => Complete(offset)

(* The executor is never inside a fused chain, and finds what is alive. *)
Outside == \A n \in Nodes : FusedAt(n) => node \notin n + 1 .. n + 4
Fusing == node \in Nodes /\ FusedAt(node)
AliveIntact(last) ==
  \A t \in Tensors : Birth(t) < node /\ last <= LastUse(t) => Intact(t)
PassInv ==
  /\ line <= graph.size[Out(node + 4)]
  /\ AliveIntact(node + 5)
  /\ \A l \in line .. graph.size[Source(node)] - 1 : Holds(Source(node), l)
  /\ \A l \in 0 .. line - 1 : Holds(Out(node + 4), l)
RunInv ==
  /\ pc # "run" \/ ~Fusing => line = 0
  /\ pc = "run" =>
       /\ DOMAIN memory = 0 .. end - 1
       /\ Outside
       /\ PassIsSafe => IF Fusing THEN PassInv ELSE AliveIntact(node)
  /\ pc = "done" /\ PassIsSafe => \A t \in graph.outputs : Intact(t)

IInv == TypeInv /\ V1Inv /\ PassForward /\ V2Inv /\ RunInv

-----------------------------------------------------------------------------
(* Least and greatest elements                                             *)

(* Every nonempty set of naturals has a least element.                     *)
LEMMA LeastExists ==
  ASSUME NEW T, T \subseteq Nat, T # {}
  PROVE  \E x \in T : \A y \in T : x <= y
<1>1. PICK n \in T : TRUE
  OBVIOUS
<1> DEFINE S == 0 .. n
           Upto(x) == {y \in T : y <= x}
           F == {Upto(x) : x \in T \cap S}
<1>2. \A x \in T \cap S : x \in Nat /\ Upto(x) \subseteq S
  <2>1. SUFFICES ASSUME NEW x \in T \cap S PROVE x \in Nat /\ Upto(x) \subseteq S
    BY Zenon
  <2>2. x \in Nat /\ x <= n /\ n \in Nat
    OBVIOUS
  <2>3. ASSUME NEW z \in Upto(x) PROVE z \in S
    BY <2>2
  <2>4. QED
    BY <2>2, <2>3
<1>3. \A x, y \in T \cap S : y < x => Upto(y) \subseteq Upto(x) /\ Upto(y) # Upto(x)
  <2>1. SUFFICES ASSUME NEW x \in T \cap S, NEW y \in T \cap S, y < x
                 PROVE  Upto(y) \subseteq Upto(x) /\ Upto(y) # Upto(x)
    BY Zenon
  <2>2. x \in Nat /\ y \in Nat
    OBVIOUS
  <2>3. ASSUME NEW z \in Upto(y) PROVE z \in Upto(x)
    BY <2>1, <2>2
  <2>4. x \in Upto(x) /\ x \notin Upto(y)
    BY <2>1, <2>2
  <2>5. QED
    BY <2>3, <2>4
<1>4. IsFiniteSet(S) /\ n \in T \cap S
  BY FS_Interval
<1> HIDE DEF S, Upto
<1>5. IsWellFoundedOn(StrictSubsetOrdering(S), SUBSET S)
  BY <1>4, FS_StrictSubsetOrderingWellFounded, FS_FiniteSubsetsOfFinite
<1>6. F \subseteq SUBSET S /\ F # {}
  BY <1>2, <1>4
<1>7. PICK U \in F : \A V \in F : <<V, U>> \notin StrictSubsetOrdering(S)
  <2> HIDE DEF F
  <2>1. QED
    BY <1>5, <1>6, WFMin
<1>8. PICK x \in T \cap S : U = Upto(x)
  OBVIOUS
<1>9. \A y \in T \cap S : ~(y < x)
  <2>1. SUFFICES ASSUME NEW y \in T \cap S, y < x PROVE FALSE
    OBVIOUS
  <2>2. <<Upto(y), Upto(x)>> \notin StrictSubsetOrdering(S)
    BY <1>7, <1>8
  <2>3. Upto(y) \in SUBSET S /\ Upto(x) \in SUBSET S
    BY <1>2
  <2>4. QED
    BY <1>3, <2>1, <2>2, <2>3 DEF StrictSubsetOrdering
<1>10. QED
  BY <1>9 DEF S

LEMMA LeastIs ==
  ASSUME NEW S, S \subseteq Nat, S # {}
  PROVE  LeastOf(S) \in S /\ \A y \in S : LeastOf(S) <= y
  BY LeastExists DEF LeastOf

(* A bounded, nonempty set of naturals has a greatest one. *)
LEMMA LargestIs ==
  ASSUME NEW S, S \subseteq Nat, S # {}, NEW b \in Nat, \A x \in S : x <= b
  PROVE  LargestOf(S) \in S /\ \A y \in S : LargestOf(S) >= y
<1> DEFINE D == {d \in Nat : \E x \in S : d = b - x}
<1>1. D \subseteq Nat /\ D # {}
  <2>1. PICK x \in S : TRUE
    OBVIOUS
  <2>2. b - x \in D
    OBVIOUS
  <2> QED
    BY <2>2
<1>2. PICK d \in D : \A e \in D : d <= e
  <2> HIDE DEF D
  <2> QED
    BY <1>1, LeastExists
<1>3. PICK x \in S : d = b - x
  OBVIOUS
<1>4. ASSUME NEW y \in S
      PROVE  x >= y
  <2>1. b - y \in D /\ x \in Nat /\ y \in Nat
    OBVIOUS
  <2>2. d <= b - y
    BY <1>2, <2>1
  <2> QED
    BY <1>3, <2>1, <2>2
<1> QED
  BY <1>4 DEF LargestOf

(* A strict order on a finite set has a minimal element. *)
LEMMA MinimalExists ==
  ASSUME NEW S, IsFiniteSet(S), S # {}, NEW R,
         \A x \in S : <<x, x>> \notin R,
         \A x, y, z \in S : <<x, y>> \in R /\ <<y, z>> \in R => <<x, z>> \in R
  PROVE  \E x \in S : \A y \in S : <<y, x>> \notin R
<1> DEFINE Under(x) == {y \in S : <<y, x>> \in R}
           F == {Under(x) : x \in S}
<1>1. \A x, y \in S : <<y, x>> \in R =>
        Under(y) \subseteq Under(x) /\ y \in Under(x) /\ y \notin Under(y)
  OBVIOUS
<1>2. \A x \in S : Under(x) \in SUBSET S
  OBVIOUS
<1> HIDE DEF Under
<1>3. IsWellFoundedOn(StrictSubsetOrdering(S), SUBSET S)
  BY FS_StrictSubsetOrderingWellFounded, FS_FiniteSubsetsOfFinite
<1>4. F \subseteq SUBSET S /\ F # {}
  BY <1>2
<1>5. PICK U \in F : \A V \in F : <<V, U>> \notin StrictSubsetOrdering(S)
  <2> HIDE DEF F
  <2> QED
    BY <1>3, <1>4, WFMin
<1>6. PICK x \in S : U = Under(x)
  OBVIOUS
<1>7. ASSUME NEW y \in S, <<y, x>> \in R
      PROVE  FALSE
  <2>1. <<Under(y), Under(x)>> \notin StrictSubsetOrdering(S)
    BY <1>5, <1>6
  <2> QED
    BY <1>1, <1>2, <1>7, <2>1 DEF StrictSubsetOrdering
<1> QED
  BY <1>7

-----------------------------------------------------------------------------
(* Sequences                                                               *)

LEMMA Inserted ==
  ASSUME NEW B, NEW s \in Seq(B), NEW k \in 1 .. Len(s) + 1, NEW e \in B
  PROVE  LET t == InsertAt(s, k, e)
         IN  /\ t \in Seq(B) /\ Len(t) = Len(s) + 1
             /\ \A i \in 1 .. Len(s) + 1 :
                  t[i] = IF i < k THEN s[i] ELSE IF i = k THEN e ELSE s[i - 1]
<1> DEFINE l == SubSeq(s, 1, k - 1)
           r == SubSeq(s, k, Len(s))
           m == l \o <<e>>
<1>1. Len(s) \in Nat /\ k \in Int /\ \A i \in 1 .. Len(s) : s[i] \in B
  BY LenProperties, ElementOfSeq
<1>2. l \in Seq(B) /\ Len(l) = k - 1 /\ \A i \in 1 .. k - 1 : l[i] = s[i]
  <2>1. /\ l \in Seq(B) /\ Len(l) = IF 1 <= k - 1 THEN (k - 1) - 1 + 1 ELSE 0
        /\ \A i \in 1 .. (k - 1) - 1 + 1 : l[i] = s[1 + i - 1]
    BY <1>1, SubSeqProperties, 1 \in Int, k - 1 \in Int, \A i \in 1 .. k - 1 : s[i] \in B
  <2> HIDE DEF l
  <2> QED
    BY <1>1, <2>1
<1>3. /\ r \in Seq(B) /\ Len(r) = Len(s) - k + 1
      /\ \A i \in 1 .. Len(s) - k + 1 : r[i] = s[k + i - 1]
  <2>1. /\ r \in Seq(B) /\ Len(r) = IF k <= Len(s) THEN Len(s) - k + 1 ELSE 0
        /\ \A i \in 1 .. Len(s) - k + 1 : r[i] = s[k + i - 1]
    BY <1>1, SubSeqProperties, Len(s) \in Int, \A i \in k .. Len(s) : s[i] \in B
  <2> HIDE DEF r
  <2>2. (IF k <= Len(s) THEN Len(s) - k + 1 ELSE 0) = Len(s) - k + 1
    BY <1>1
  <2> QED
    BY <2>1, <2>2
<1>4. <<e>> \in Seq(B) /\ Len(<<e>>) = 1 /\ <<e>>[1] = e
  OBVIOUS
<1> HIDE DEF l, r
<1>5. /\ m \in Seq(B) /\ Len(m) = k
      /\ \A i \in 1 .. k : m[i] = IF i <= k - 1 THEN s[i] ELSE e
  <2>1. /\ m \in Seq(B) /\ Len(m) = Len(l) + Len(<<e>>)
        /\ \A i \in 1 .. Len(l) + Len(<<e>>) :
             m[i] = IF i <= Len(l) THEN l[i] ELSE <<e>>[i - Len(l)]
    BY <1>2, <1>4, ConcatProperties
  <2> HIDE DEF m
  <2> QED
    BY <1>1, <1>2, <1>4, <2>1
<1> HIDE DEF m
<1>6. /\ m \o r \in Seq(B) /\ Len(m \o r) = Len(m) + Len(r)
      /\ \A i \in 1 .. Len(m) + Len(r) :
           (m \o r)[i] = IF i <= Len(m) THEN m[i] ELSE r[i - Len(m)]
  BY <1>3, <1>5, ConcatProperties
<1>7. InsertAt(s, k, e) = m \o r
  BY DEF InsertAt, l, r, m
<1>8. \A i \in 1 .. Len(s) + 1 : i > k => r[i - k] = s[i - 1]
  BY <1>1, <1>3
<1> QED
  BY <1>1, <1>3, <1>5, <1>6, <1>7, <1>8

LEMMA Removed ==
  ASSUME NEW B, NEW s \in Seq(B), NEW k \in 1 .. Len(s)
  PROVE  LET t == RemoveAt(s, k)
         IN  /\ t \in Seq(B) /\ Len(t) = Len(s) - 1
             /\ \A i \in 1 .. Len(s) - 1 : t[i] = IF i < k THEN s[i] ELSE s[i + 1]
<1> DEFINE l == SubSeq(s, 1, k - 1)
           r == SubSeq(s, k + 1, Len(s))
<1>1. Len(s) \in Nat /\ k \in Int /\ \A i \in 1 .. Len(s) : s[i] \in B
  BY LenProperties, ElementOfSeq
<1>2. l \in Seq(B) /\ Len(l) = k - 1 /\ \A i \in 1 .. k - 1 : l[i] = s[i]
  <2>1. /\ l \in Seq(B) /\ Len(l) = IF 1 <= k - 1 THEN (k - 1) - 1 + 1 ELSE 0
        /\ \A i \in 1 .. (k - 1) - 1 + 1 : l[i] = s[1 + i - 1]
    BY <1>1, SubSeqProperties, 1 \in Int, k - 1 \in Int, \A i \in 1 .. k - 1 : s[i] \in B
  <2> HIDE DEF l
  <2> QED
    BY <1>1, <2>1
<1>3. /\ r \in Seq(B) /\ Len(r) = Len(s) - k
      /\ \A i \in 1 .. Len(s) - k : r[i] = s[k + i]
  <2>1. /\ r \in Seq(B) /\ Len(r) = IF k + 1 <= Len(s) THEN Len(s) - (k + 1) + 1 ELSE 0
        /\ \A i \in 1 .. Len(s) - (k + 1) + 1 : r[i] = s[(k + 1) + i - 1]
    BY <1>1, SubSeqProperties, Len(s) \in Int, k + 1 \in Int, \A i \in k + 1 .. Len(s) : s[i] \in B
  <2> HIDE DEF r
  <2> QED
    BY <1>1, <2>1
<1> HIDE DEF l, r
<1>4. /\ l \o r \in Seq(B) /\ Len(l \o r) = Len(l) + Len(r)
      /\ \A i \in 1 .. Len(l) + Len(r) :
           (l \o r)[i] = IF i <= Len(l) THEN l[i] ELSE r[i - Len(l)]
  BY <1>2, <1>3, ConcatProperties
<1>5. RemoveAt(s, k) = l \o r
  BY DEF RemoveAt, l, r
<1>6. Len(l \o r) = Len(s) - 1
  BY <1>1, <1>2, <1>3, <1>4
<1>7. ASSUME NEW i \in 1 .. Len(s) - 1
      PROVE  (l \o r)[i] = IF i < k THEN s[i] ELSE s[i + 1]
  <2>1. (l \o r)[i] = IF i <= k - 1 THEN l[i] ELSE r[i - (k - 1)]
    BY <1>1, <1>2, <1>3, <1>4
  <2>2. CASE i < k
    BY <1>1, <1>2, <2>1, <2>2
  <2>3. CASE ~(i < k)
    <3>1. i - (k - 1) \in 1 .. Len(s) - k /\ k + (i - (k - 1)) = i + 1
      BY <1>1, <2>3
    <3>2. r[i - (k - 1)] = s[i + 1]
      BY <1>3, <3>1
    <3> QED
      BY <1>1, <2>1, <2>3, <3>2
  <2> QED
    BY <2>2, <2>3
<1> QED
  BY <1>4, <1>5, <1>6, <1>7

-----------------------------------------------------------------------------
(* The free list                                                           *)

LEMMA BlockFacts ==
  \A b \in Blocks : /\ b.offset \in Nat /\ b.size \in Nat \ {0}
                    /\ BlockEnd(b) \in Nat /\ b.offset < BlockEnd(b)
BY DEF Blocks, BlockEnd

LEMMA ListFacts ==
  ASSUME NEW s \in Seq(Blocks)
  PROVE  /\ Len(s) \in Nat /\ DOMAIN s = 1 .. Len(s)
         /\ \A i \in 1 .. Len(s) :
              /\ s[i] \in Blocks /\ s[i].offset \in Nat /\ s[i].size \in Nat \ {0}
              /\ BlockEnd(s[i]) \in Nat /\ s[i].offset < BlockEnd(s[i])
<1>1. Len(s) \in Nat /\ DOMAIN s = 1 .. Len(s) /\ \A i \in 1 .. Len(s) : s[i] \in Blocks
  BY LenProperties, ElementOfSeq
<1> QED
  BY <1>1, BlockFacts

(* Two blocks that touch become one that begins and ends as they do. *)
LEMMA Joining ==
  ASSUME NEW s \in Seq(Blocks), NEW i \in 1 .. Len(s) - 1,
         BlockEnd(s[i]) = s[i + 1].offset
  PROVE  LET t == Join(s, i)
         IN  /\ t \in Seq(Blocks) /\ Len(t) = Len(s) - 1
             /\ \A j \in 1 .. Len(s) - 1 :
                  /\ t[j].offset = IF j <= i THEN s[j].offset ELSE s[j + 1].offset
                  /\ BlockEnd(t[j]) = IF j < i THEN BlockEnd(s[j]) ELSE BlockEnd(s[j + 1])
<1> DEFINE b == [s[i] EXCEPT !.size = @ + s[i + 1].size]
           u == [s EXCEPT ![i] = b]
<1>1. /\ Len(s) \in Nat /\ i \in 1 .. Len(s) /\ i + 1 \in 1 .. Len(s)
      /\ \A j \in 1 .. Len(s) : s[j] \in Blocks
  BY ListFacts
<1>2. /\ s[i] \in Blocks /\ s[i].offset \in Nat /\ s[i].size \in Nat \ {0}
      /\ s[i + 1].offset \in Nat /\ s[i + 1].size \in Nat \ {0}
  BY <1>1, ListFacts
<1>3. /\ b = [offset |-> s[i].offset, size |-> s[i].size + s[i + 1].size]
      /\ b \in Blocks
  <2>1. s[i] \in [offset : Nat, size : Nat \ {0}] /\ s[i].size + s[i + 1].size \in Nat \ {0}
    BY <1>2 DEF Blocks
  <2> DEFINE z == s[i].size + s[i + 1].size
  <2> HIDE DEF z
  <2>2. [s[i] EXCEPT !.size = z] = [offset |-> s[i].offset, size |-> z]
    BY <2>1
  <2>3. b = [offset |-> s[i].offset, size |-> s[i].size + s[i + 1].size]
    BY <2>2 DEF z
  <2> QED
    BY <1>2, <2>1, <2>3 DEF Blocks
<1>4. b.offset = s[i].offset /\ BlockEnd(b) = BlockEnd(s[i + 1])
  BY <1>2, <1>3 DEF BlockEnd
<1> HIDE DEF b
<1>5. u \in Seq(Blocks) /\ Len(u) = Len(s) /\ \A j \in 1 .. Len(s) : u[j] = IF j = i THEN b ELSE s[j]
  BY <1>1, <1>3, ExceptSeq
<1> HIDE DEF u
<1> DEFINE t == RemoveAt(u, i + 1)
<1>6. /\ t \in Seq(Blocks) /\ Len(t) = Len(u) - 1
      /\ \A j \in 1 .. Len(u) - 1 : t[j] = IF j < i + 1 THEN u[j] ELSE u[j + 1]
  BY <1>1, <1>5, Removed
<1>7. Join(s, i) = t
  BY <1>1 DEF Join, BlockEnd, t, u, b
<1> HIDE DEF t
<1>8. ASSUME NEW j \in 1 .. Len(s) - 1
      PROVE  /\ t[j].offset = IF j <= i THEN s[j].offset ELSE s[j + 1].offset
             /\ BlockEnd(t[j]) = IF j < i THEN BlockEnd(s[j]) ELSE BlockEnd(s[j + 1])
  <2>1. /\ j \in 1 .. Len(s) /\ j + 1 \in 1 .. Len(s)
        /\ t[j] = IF j < i + 1 THEN u[j] ELSE u[j + 1]
    BY <1>1, <1>5, <1>6
  <2>2. CASE j < i
    <3>1. t[j] = s[j]
      BY <1>5, <2>1, <2>2
    <3> QED
      BY <2>2, <3>1
  <2>3. CASE j = i
    <3>1. t[j] = b
      BY <1>5, <2>1, <2>3
    <3> QED
      BY <1>4, <2>3, <3>1
  <2>4. CASE j > i
    <3>1. t[j] = s[j + 1]
      BY <1>5, <2>1, <2>4
    <3> QED
      BY <2>4, <3>1
  <2> QED
    BY <2>2, <2>3, <2>4
<1> QED
  BY <1>5, <1>6, <1>7, <1>8

(* Joining two neighbours, where they touch, frees and takes nothing and   *)
(* leaves no gap to check between them.                                    *)
LEMMA Joined ==
  ASSUME NEW s \in Seq(Blocks), Ordered(s), NEW i \in Int, NEW e \in Nat,
         \A j \in DOMAIN s : BlockEnd(s[j]) <= e
  PROVE  LET t == Join(s, i)
         IN  /\ t \in Seq(Blocks) /\ Ordered(t)
             /\ \A j \in DOMAIN t : BlockEnd(t[j]) <= e
             /\ \A at \in Nat : Free(t, at) <=> Free(s, at)
             /\ Gaps(s, {i - 1, i}) => Gaps(t, {i - 1})
             /\ Gaps(s, {i}) => Gaps(t, {})
<1> DEFINE t == Join(s, i)
<1>1. CASE i \in 1 .. Len(s) - 1 /\ BlockEnd(s[i]) = s[i + 1].offset
  <2>1. /\ t \in Seq(Blocks) /\ Len(t) = Len(s) - 1
        /\ \A j \in 1 .. Len(s) - 1 :
             /\ t[j].offset = IF j <= i THEN s[j].offset ELSE s[j + 1].offset
             /\ BlockEnd(t[j]) = IF j < i THEN BlockEnd(s[j]) ELSE BlockEnd(s[j + 1])
    BY <1>1, Joining
  <2> HIDE DEF t
  <2>2. /\ DOMAIN t = 1 .. Len(s) - 1 /\ DOMAIN s = 1 .. Len(s) /\ Len(s) \in Nat
        /\ \A j \in 1 .. Len(s) :
              s[j].offset \in Nat /\ BlockEnd(s[j]) \in Nat /\ s[j].offset < BlockEnd(s[j])
    BY <2>1, ListFacts
  <2>3. \A j, k \in 1 .. Len(s) : j < k => BlockEnd(s[j]) <= s[k].offset
    BY <2>2 DEF Ordered
  <2>4. Ordered(t)
    <3>1. SUFFICES ASSUME NEW j \in 1 .. Len(s) - 1, NEW k \in 1 .. Len(s) - 1, j < k
                   PROVE  BlockEnd(t[j]) <= t[k].offset
      BY <2>2 DEF Ordered
    <3>2. /\ BlockEnd(t[j]) = IF j < i THEN BlockEnd(s[j]) ELSE BlockEnd(s[j + 1])
          /\ t[k].offset = IF k <= i THEN s[k].offset ELSE s[k + 1].offset
      BY <2>1
    <3>3. j \in 1 .. Len(s) /\ j + 1 \in 1 .. Len(s) /\ k \in 1 .. Len(s) /\ k + 1 \in 1 .. Len(s)
      BY <2>2
    <3>4. CASE j < i /\ k <= i
      BY <2>3, <3>1, <3>2, <3>3, <3>4
    <3>5. CASE j < i /\ k > i
      BY <2>3, <3>1, <3>2, <3>3, <3>5
    <3>6. CASE j >= i
      BY <1>1, <2>3, <3>1, <3>2, <3>3, <3>6
    <3> QED
      BY <1>1, <3>4, <3>5, <3>6
  <2>5. ASSUME NEW j \in DOMAIN t
        PROVE  BlockEnd(t[j]) <= e
    <3>1. j \in 1 .. Len(s) - 1 /\ j \in DOMAIN s /\ j + 1 \in DOMAIN s
      BY <2>2
    <3>2. BlockEnd(t[j]) = BlockEnd(s[j]) \/ BlockEnd(t[j]) = BlockEnd(s[j + 1])
      BY <2>1, <3>1
    <3> QED
      BY <3>1, <3>2
  <2>6. ASSUME NEW at \in Nat
        PROVE  Free(t, at) <=> Free(s, at)
    <3>1. ASSUME Free(t, at)
          PROVE  Free(s, at)
      <4>1. PICK j \in 1 .. Len(s) - 1 : t[j].offset <= at /\ at < BlockEnd(t[j])
        BY <2>2, <3>1 DEF Free
      <4>2. j \in 1 .. Len(s) /\ j + 1 \in 1 .. Len(s)
        BY <2>2
      <4>3. CASE j < i
        <5>1. t[j].offset = s[j].offset /\ BlockEnd(t[j]) = BlockEnd(s[j])
          BY <1>1, <2>1, <4>3
        <5> QED
          BY <2>2, <4>1, <4>2, <5>1 DEF Free
      <4>4. CASE j > i
        <5>1. t[j].offset = s[j + 1].offset /\ BlockEnd(t[j]) = BlockEnd(s[j + 1])
          BY <1>1, <2>1, <4>4
        <5> QED
          BY <2>2, <4>1, <4>2, <5>1 DEF Free
      <4>5. CASE j = i
        <5>1. s[i].offset <= at /\ at < BlockEnd(s[i + 1])
          BY <1>1, <2>1, <4>1, <4>5
        <5>2. CASE at < BlockEnd(s[i])
          BY <2>2, <4>2, <4>5, <5>1, <5>2 DEF Free
        <5>3. CASE ~(at < BlockEnd(s[i]))
          <6>1. s[i + 1].offset <= at
            BY <1>1, <2>2, <4>2, <4>5, <5>3
          <6> QED
            BY <2>2, <4>2, <4>5, <5>1, <6>1 DEF Free
        <5> QED
          BY <5>2, <5>3
      <4> QED
        BY <1>1, <4>3, <4>4, <4>5
    <3>2. ASSUME Free(s, at)
          PROVE  Free(t, at)
      <4>1. PICK j \in 1 .. Len(s) : s[j].offset <= at /\ at < BlockEnd(s[j])
        BY <2>2, <3>2 DEF Free
      <4>2. CASE j < i
        <5>1. j \in 1 .. Len(s) - 1
          BY <1>1, <4>2
        <5>2. t[j].offset = s[j].offset /\ BlockEnd(t[j]) = BlockEnd(s[j])
          BY <1>1, <2>1, <4>2, <5>1
        <5> QED
          BY <2>2, <4>1, <5>1, <5>2 DEF Free
      <4>3. CASE j > i + 1
        <5>1. j - 1 \in 1 .. Len(s) - 1 /\ (j - 1) + 1 = j /\ j - 1 > i
          BY <1>1, <2>2, <4>3
        <5>2. t[j - 1].offset = s[j].offset /\ BlockEnd(t[j - 1]) = BlockEnd(s[j])
          BY <1>1, <2>1, <5>1
        <5> QED
          BY <2>2, <4>1, <5>1, <5>2 DEF Free
      <4>4. CASE j \in {i, i + 1}
        <5>1. t[i].offset = s[i].offset /\ BlockEnd(t[i]) = BlockEnd(s[i + 1])
          BY <1>1, <2>1
        <5>2. i \in 1 .. Len(s) /\ i + 1 \in 1 .. Len(s)
          BY <1>1, <2>2
        <5>3. t[i].offset <= at /\ at < BlockEnd(t[i])
          BY <1>1, <2>2, <4>1, <4>4, <5>1, <5>2
        <5> QED
          BY <1>1, <2>2, <5>3 DEF Free
      <4> QED
        BY <1>1, <4>2, <4>3, <4>4
    <3> QED
      BY <3>1, <3>2
  <2>7. ASSUME NEW S, NEW T, Gaps(s, S), S \subseteq T \cup {i},
               \A j \in S : j <= i
        PROVE  Gaps(t, T)
    <3>1. SUFFICES ASSUME NEW j \in 1 .. Len(t) - 1, j \notin T
                   PROVE  BlockEnd(t[j]) < t[j + 1].offset
      BY DEF Gaps
    <3>2. j \in 1 .. Len(s) - 1 /\ j + 1 \in 1 .. Len(s) - 1
      BY <2>1, <2>2
    <3>3. CASE j < i
      <4>1. j \notin S
        BY <2>7, <3>1, <3>3
      <4>2. BlockEnd(s[j]) < s[j + 1].offset
        BY <2>7, <3>2, <4>1 DEF Gaps
      <4>3. BlockEnd(t[j]) = BlockEnd(s[j])
        BY <2>1, <3>2, <3>3
      <4>4. t[j + 1].offset = s[j + 1].offset
        BY <1>1, <2>1, <3>2, <3>3
      <4> QED
        BY <4>2, <4>3, <4>4
    <3>4. CASE j >= i
      <4>1. j + 1 \notin S
        BY <1>1, <2>7, <3>2, <3>4
      <4>2. BlockEnd(s[j + 1]) < s[(j + 1) + 1].offset
        BY <2>7, <3>2, <4>1 DEF Gaps
      <4> QED
        BY <1>1, <2>1, <3>2, <3>4, <4>2
    <3> QED
      BY <1>1, <3>3, <3>4
  <2>8. Gaps(s, {i - 1, i}) => Gaps(t, {i - 1})
    BY <2>7
  <2>9. Gaps(s, {i}) => Gaps(t, {})
    BY <2>7
  <2> QED
    BY <2>1, <2>4, <2>5, <2>6, <2>8, <2>9 DEF t
<1>2. CASE ~(i \in 1 .. Len(s) - 1 /\ BlockEnd(s[i]) = s[i + 1].offset)
  <2>1. Join(s, i) = s
    BY <1>2 DEF Join, BlockEnd
  <2>2. ASSUME NEW S, NEW T, Gaps(s, S), S \subseteq T \cup {i}
        PROVE  Gaps(s, T)
    <3>1. SUFFICES ASSUME NEW j \in 1 .. Len(s) - 1, j \notin T
                   PROVE  BlockEnd(s[j]) < s[j + 1].offset
      BY DEF Gaps
    <3>2. CASE j \notin S
      BY <2>2, <3>2 DEF Gaps
    <3>3. CASE j = i
      <4>1. /\ DOMAIN s = 1 .. Len(s) /\ Len(s) \in Nat
            /\ j \in 1 .. Len(s) /\ j + 1 \in 1 .. Len(s) /\ j < j + 1
            /\ s[j + 1].offset \in Nat /\ BlockEnd(s[j]) \in Nat
        BY ListFacts
      <4>2. BlockEnd(s[j]) <= s[j + 1].offset
        BY <4>1 DEF Ordered
      <4> QED
        BY <1>2, <3>3, <4>1, <4>2
    <3> QED
      BY <2>2, <3>1, <3>2, <3>3
  <2> QED
    BY <2>1, <2>2
<1> QED
  BY <1>1, <1>2

(* The blocks before a line are the first ones of the list. *)
LEMMA BeforeIsPrefix ==
  ASSUME NEW s \in Seq(Blocks), Ordered(s), NEW at \in Nat
  PROVE  LET k == Cardinality({i \in DOMAIN s : s[i].offset < at})
         IN  /\ k \in 0 .. Len(s)
             /\ \A i \in 1 .. Len(s) : s[i].offset < at <=> i <= k
<1> DEFINE n == Len(s)
           M == {j \in 1 .. n + 1 : \A i \in j .. n : s[i].offset >= at}
           k == LeastOf(M) - 1
<1>1. /\ n \in Nat /\ DOMAIN s = 1 .. n
      /\ \A i \in 1 .. n : s[i].offset \in Nat /\ BlockEnd(s[i]) \in Nat /\ s[i].offset < BlockEnd(s[i])
  BY ListFacts
<1> HIDE DEF n
<1>2. M \subseteq Nat /\ n + 1 \in M
  BY <1>1
<1>3. LeastOf(M) \in M /\ \A j \in M : LeastOf(M) <= j
  <2> HIDE DEF M
  <2> QED
    BY <1>2, LeastIs
<1>4. /\ k \in 0 .. n /\ k \in Int /\ LeastOf(M) = k + 1
      /\ \A i \in k + 1 .. n : s[i].offset >= at
  <2> DEFINE m == LeastOf(M)
  <2>1. m \in 1 .. n + 1 /\ \A i \in m .. n : s[i].offset >= at
    BY <1>3
  <2> HIDE DEF m
  <2>2. m - 1 \in 0 .. n /\ m - 1 \in Int /\ m = (m - 1) + 1
    BY <1>1, <2>1
  <2> QED
    BY <2>1, <2>2 DEF m
<1> HIDE DEF k
<1>5. k # 0 => s[k].offset < at
  <2>1. SUFFICES ASSUME k # 0, ~(s[k].offset < at) PROVE FALSE
    OBVIOUS
  <2>2. k \in 1 .. n
    BY <1>1, <1>4, <2>1
  <2>3. s[k].offset >= at
    BY <1>1, <2>1, <2>2
  <2>4. ASSUME NEW i \in k .. n
        PROVE  s[i].offset >= at
    <3>1. i = k \/ i \in k + 1 .. n
      BY <1>1, <2>2
    <3> QED
      BY <1>4, <2>3, <3>1
  <2>5. k \in M
    BY <1>1, <2>2, <2>4
  <2>6. k + 1 <= k
    <3> HIDE DEF M
    <3> QED
      BY <1>3, <1>4, <2>5
  <2> QED
    BY <2>2, <2>6
<1>6. ASSUME NEW i \in 1 .. n
      PROVE  s[i].offset < at <=> i <= k
  <2>1. CASE i > k
    BY <1>1, <1>4, <2>1
  <2>2. CASE i = k
    BY <1>5, <2>2
  <2>3. CASE i < k
    <3>1. i \in DOMAIN s /\ k \in DOMAIN s
      BY <1>1, <1>4, <2>3
    <3>2. BlockEnd(s[i]) <= s[k].offset
      BY <2>3, <3>1 DEF Ordered
    <3>3. s[k].offset < at
      BY <1>4, <1>5, <2>3
    <3> QED
      BY <1>1, <2>3, <3>1, <3>2, <3>3
  <2> QED
    BY <1>1, <1>4, <2>1, <2>2, <2>3
<1>7. {i \in DOMAIN s : s[i].offset < at} = 1 .. k
  BY <1>1, <1>4, <1>6
<1>8. Cardinality(1 .. k) = k
  <2>1. 1 \in Int /\ k \in Int /\ k \in Nat
    BY <1>1, <1>4
  <2> QED
    BY <2>1, FS_Interval
<1> QED
  BY <1>4, <1>6, <1>7, <1>8 DEF n

(* A freed range goes into the list: it is sorted and coalesced as before, *)
(* and the range is all that is newly free.                                *)
LEMMA Freed ==
  ASSUME NEW s, FreeList(s), NEW b \in Blocks, NEW e \in Nat,
         \A i \in DOMAIN s : BlockEnd(s[i]) <= e, BlockEnd(b) <= e,
         \A at \in Nat : b.offset <= at /\ at < BlockEnd(b) => ~Free(s, at)
  PROVE  LET t == AddFreeBlock(s, b)
         IN  /\ FreeList(t)
             /\ \A i \in DOMAIN t : BlockEnd(t[i]) <= e
             /\ \A at \in Nat :
                  Free(t, at) <=> Free(s, at) \/ (b.offset <= at /\ at < BlockEnd(b))
<1> DEFINE k == Cardinality({i \in DOMAIN s : s[i].offset < b.offset})
           u == InsertAt(s, k + 1, b)
           v == Join(u, k + 1)
           t == Join(v, k)
<1>1. s \in Seq(Blocks) /\ Ordered(s) /\ Gaps(s, {})
  BY DEF FreeList
<1>2. b.offset \in Nat /\ BlockEnd(b) \in Nat /\ b.offset < BlockEnd(b)
  BY BlockFacts
<1>3. k \in 0 .. Len(s) /\ \A i \in 1 .. Len(s) : s[i].offset < b.offset <=> i <= k
  BY <1>1, <1>2, BeforeIsPrefix
<1> HIDE DEF k
<1>4. /\ Len(s) \in Nat /\ DOMAIN s = 1 .. Len(s) /\ k \in Nat /\ k + 1 \in 1 .. Len(s) + 1
      /\ \A i \in 1 .. Len(s) :
           s[i].offset \in Nat /\ BlockEnd(s[i]) \in Nat /\ s[i].offset < BlockEnd(s[i])
  BY <1>1, <1>3, ListFacts
<1>5. /\ u \in Seq(Blocks) /\ Len(u) = Len(s) + 1
      /\ \A i \in 1 .. Len(s) + 1 :
           u[i] = IF i < k + 1 THEN s[i] ELSE IF i = k + 1 THEN b ELSE s[i - 1]
  <2> HIDE DEF v
  <2> DEFINE q == k + 1
  <2>1. q \in 1 .. Len(s) + 1
    BY <1>4
  <2> HIDE DEF q
  <2>2. LET w == InsertAt(s, q, b)
        IN  /\ w \in Seq(Blocks) /\ Len(w) = Len(s) + 1
            /\ \A i \in 1 .. Len(s) + 1 :
                 w[i] = IF i < q THEN s[i] ELSE IF i = q THEN b ELSE s[i - 1]
    BY <1>1, <2>1, Inserted
  <2> QED
    BY <2>2 DEF q
<1> HIDE DEF u
<1>6. DOMAIN u = 1 .. Len(s) + 1
  BY <1>4, <1>5, ListFacts
<1>7. \A i \in 1 .. Len(s) : i <= k => BlockEnd(s[i]) <= b.offset
  <2>1. SUFFICES ASSUME NEW i \in 1 .. Len(s), i <= k, ~(BlockEnd(s[i]) <= b.offset) PROVE FALSE
    OBVIOUS
  <2>2. s[i].offset < b.offset /\ b.offset < BlockEnd(s[i])
    BY <1>2, <1>3, <1>4, <2>1
  <2>3. Free(s, b.offset)
    BY <1>2, <1>4, <2>2 DEF Free
  <2> QED
    BY <1>2, <2>3
<1>8. \A i \in 1 .. Len(s) : i > k => BlockEnd(b) <= s[i].offset
  <2>1. SUFFICES ASSUME NEW i \in 1 .. Len(s), i > k, ~(BlockEnd(b) <= s[i].offset) PROVE FALSE
    OBVIOUS
  <2>2. b.offset <= s[i].offset /\ s[i].offset < BlockEnd(b)
    BY <1>2, <1>3, <1>4, <2>1
  <2>3. Free(s, s[i].offset)
    BY <1>4 DEF Free
  <2> QED
    BY <1>4, <2>2, <2>3
<1>9. \A i, j \in 1 .. Len(s) : i < j => BlockEnd(s[i]) <= s[j].offset
  BY <1>1, <1>4 DEF Ordered
<1>10. ASSUME NEW i \in 1 .. Len(s) + 1
       PROVE  \/ i <= k /\ i \in 1 .. Len(s) /\ u[i] = s[i]
              \/ i = k + 1 /\ u[i] = b
              \/ i > k + 1 /\ i - 1 \in 1 .. Len(s) /\ u[i] = s[i - 1]
  BY <1>4, <1>5
<1>11. Ordered(u)
  <2>1. SUFFICES ASSUME NEW i \in 1 .. Len(s) + 1, NEW j \in 1 .. Len(s) + 1, i < j
                 PROVE  BlockEnd(u[i]) <= u[j].offset
    BY <1>6 DEF Ordered
  <2>2. CASE i <= k /\ i \in 1 .. Len(s) /\ u[i] = s[i]
    <3>1. CASE j <= k /\ j \in 1 .. Len(s) /\ u[j] = s[j]
      BY <1>9, <2>1, <2>2, <3>1
    <3>2. CASE j = k + 1 /\ u[j] = b
      BY <1>7, <2>2, <3>2
    <3>3. CASE j > k + 1 /\ j - 1 \in 1 .. Len(s) /\ u[j] = s[j - 1]
      BY <1>4, <1>9, <2>2, <3>3
    <3> QED
      BY <1>10, <3>1, <3>2, <3>3
  <2>3. CASE i = k + 1 /\ u[i] = b
    <3>1. j > k + 1 /\ j - 1 \in 1 .. Len(s) /\ u[j] = s[j - 1]
      BY <1>4, <1>10, <2>1, <2>3
    <3> QED
      BY <1>4, <1>8, <2>3, <3>1
  <2>4. CASE i > k + 1 /\ i - 1 \in 1 .. Len(s) /\ u[i] = s[i - 1]
    <3>1. j > k + 1 /\ j - 1 \in 1 .. Len(s) /\ u[j] = s[j - 1]
      BY <1>4, <1>10, <2>1, <2>4
    <3>2. i - 1 < j - 1
      BY <1>4, <2>1
    <3>3. BlockEnd(s[i - 1]) <= s[j - 1].offset
      BY <1>9, <2>4, <3>1, <3>2
    <3> QED
      BY <2>4, <3>1, <3>3
  <2> QED
    BY <1>10, <2>2, <2>3, <2>4
<1>12. Gaps(u, {k, k + 1})
  <2>1. SUFFICES ASSUME NEW i \in 1 .. Len(s), i \notin {k, k + 1}
                 PROVE  BlockEnd(u[i]) < u[i + 1].offset
    BY <1>4, <1>5 DEF Gaps
  <2>2. CASE i < k
    <3>1. u[i] = s[i] /\ u[i + 1] = s[i + 1] /\ i \in 1 .. Len(s) - 1
      BY <1>3, <1>4, <1>5, <2>2
    <3> QED
      BY <1>1, <3>1 DEF Gaps
  <2>3. CASE i > k + 1
    <3>1. u[i] = s[i - 1] /\ u[i + 1] = s[(i - 1) + 1] /\ i - 1 \in 1 .. Len(s) - 1
      BY <1>3, <1>4, <1>5, <2>3
    <3> QED
      BY <1>1, <3>1 DEF Gaps
  <2> QED
    BY <1>4, <2>1, <2>2, <2>3
<1>13. \A i \in DOMAIN u : BlockEnd(u[i]) <= e
  BY <1>4, <1>6, <1>10
<1>14. ASSUME NEW at \in Nat
       PROVE  Free(u, at) <=> Free(s, at) \/ (b.offset <= at /\ at < BlockEnd(b))
  <2>1. ASSUME Free(u, at)
        PROVE  Free(s, at) \/ (b.offset <= at /\ at < BlockEnd(b))
    <3>1. PICK i \in 1 .. Len(s) + 1 : u[i].offset <= at /\ at < BlockEnd(u[i])
      BY <1>6, <2>1 DEF Free
    <3> QED
      BY <1>4, <1>10, <3>1 DEF Free
  <2>2. ASSUME Free(s, at)
        PROVE  Free(u, at)
    <3>1. PICK i \in 1 .. Len(s) : s[i].offset <= at /\ at < BlockEnd(s[i])
      BY <1>4, <2>2 DEF Free
    <3>2. CASE i <= k
      <4>1. i \in DOMAIN u /\ u[i] = s[i]
        BY <1>4, <1>5, <1>6, <3>2
      <4> QED
        BY <3>1, <4>1 DEF Free
    <3>3. CASE i > k
      <4>1. i + 1 \in DOMAIN u /\ u[i + 1] = s[i]
        BY <1>4, <1>5, <1>6, <3>3
      <4> QED
        BY <3>1, <4>1 DEF Free
    <3> QED
      BY <1>4, <3>2, <3>3
  <2>3. ASSUME b.offset <= at /\ at < BlockEnd(b)
        PROVE  Free(u, at)
    <3>1. k + 1 \in DOMAIN u /\ u[k + 1] = b
      BY <1>4, <1>5, <1>6
    <3> QED
      BY <2>3, <3>1 DEF Free
  <2> QED
    BY <2>1, <2>2, <2>3
<1>15. /\ v \in Seq(Blocks) /\ Ordered(v)
       /\ \A i \in DOMAIN v : BlockEnd(v[i]) <= e
       /\ \A at \in Nat : Free(v, at) <=> Free(u, at)
       /\ Gaps(u, {(k + 1) - 1, k + 1}) => Gaps(v, {(k + 1) - 1})
  BY <1>4, <1>5, <1>11, <1>13, Joined, k + 1 \in Int
<1>16. Gaps(v, {k})
  <2>1. (k + 1) - 1 = k
    BY <1>4
  <2> HIDE DEF v
  <2> QED
    BY <1>12, <1>15, <2>1
<1> HIDE DEF v
<1>17. /\ t \in Seq(Blocks) /\ Ordered(t)
       /\ \A i \in DOMAIN t : BlockEnd(t[i]) <= e
       /\ \A at \in Nat : Free(t, at) <=> Free(v, at)
       /\ Gaps(v, {k}) => Gaps(t, {})
  BY <1>4, <1>15, Joined, k \in Int
<1>18. AddFreeBlock(s, b) = t
  BY DEF AddFreeBlock, t, v, u, k
<1> HIDE DEF t
<1> QED
  BY <1>14, <1>15, <1>16, <1>17, <1>18 DEF FreeList

(* Taking the first lines of a block frees nothing else and takes nothing  *)
(* else.                                                                   *)
LEMMA Taken ==
  ASSUME FreeList(blocks), NEW i \in DOMAIN blocks, NEW size \in Nat \ {0},
         blocks[i].size >= size, NEW e \in Nat,
         \A j \in DOMAIN blocks : BlockEnd(blocks[j]) <= e
  PROVE  LET t == Take(i, size)
         IN  /\ FreeList(t)
             /\ \A j \in DOMAIN t : BlockEnd(t[j]) <= e
             /\ \A at \in Nat : Free(t, at) <=>
                  Free(blocks, at) /\ ~(blocks[i].offset <= at /\ at < blocks[i].offset + size)
<1> DEFINE s == blocks
           t == Take(i, size)
           lo == s[i].offset
<1>1. s \in Seq(Blocks) /\ Ordered(s) /\ Gaps(s, {})
  BY DEF FreeList
<1>2. /\ Len(s) \in Nat /\ DOMAIN s = 1 .. Len(s) /\ i \in 1 .. Len(s)
      /\ \A j \in 1 .. Len(s) :
           /\ s[j] \in Blocks /\ s[j].offset \in Nat /\ s[j].size \in Nat \ {0}
           /\ BlockEnd(s[j]) \in Nat /\ s[j].offset < BlockEnd(s[j])
  BY <1>1, ListFacts
<1>3. \A j, k \in 1 .. Len(s) : j < k => BlockEnd(s[j]) <= s[k].offset
  BY <1>1, <1>2 DEF Ordered
<1>4. \A j, k \in 1 .. Len(s) : j < k => BlockEnd(s[j]) < s[k].offset
  <2>1. SUFFICES ASSUME NEW j \in 1 .. Len(s), NEW k \in 1 .. Len(s), j < k
                 PROVE  BlockEnd(s[j]) < s[k].offset
    OBVIOUS
  <2>2. j \in 1 .. Len(s) - 1 /\ j + 1 \in 1 .. Len(s)
    BY <1>2, <2>1
  <2>3. BlockEnd(s[j]) < s[j + 1].offset
    BY <1>1, <2>2 DEF Gaps
  <2>4. k = j + 1 \/ j + 1 < k
    BY <2>1
  <2>5. k # j + 1 => s[j + 1].offset <= s[k].offset
    <3>1. ASSUME k # j + 1
          PROVE  BlockEnd(s[j + 1]) <= s[k].offset
      BY <1>3, <2>2, <2>4, <3>1
    <3> QED
      BY <1>2, <2>2, <3>1
  <2> QED
    BY <1>2, <2>2, <2>3, <2>4, <2>5
<1>5. BlockEnd(s[i]) = lo + s[i].size /\ lo \in Nat
  BY <1>2 DEF BlockEnd
<1>6. CASE s[i].size = size
  <2>1. t = RemoveAt(s, i)
    BY <1>6 DEF Take
  <2>2. /\ t \in Seq(Blocks) /\ Len(t) = Len(s) - 1
        /\ \A j \in 1 .. Len(s) - 1 : t[j] = IF j < i THEN s[j] ELSE s[j + 1]
    <3>1. LET q == RemoveAt(s, i)
          IN  /\ q \in Seq(Blocks) /\ Len(q) = Len(s) - 1
              /\ \A j \in 1 .. Len(s) - 1 : q[j] = IF j < i THEN s[j] ELSE s[j + 1]
      <4> HIDE DEF s
      <4> QED
        BY <1>1, <1>2, Removed
    <3> HIDE DEF t
    <3> QED
      BY <2>1, <3>1
  <2> HIDE DEF t
  <2>3. DOMAIN t = 1 .. Len(s) - 1
    BY <2>2, ListFacts
  <2>4. ASSUME NEW j \in 1 .. Len(s) - 1
        PROVE  \/ j < i /\ j \in 1 .. Len(s) /\ t[j] = s[j]
               \/ j >= i /\ j + 1 \in 1 .. Len(s) /\ t[j] = s[j + 1]
    BY <1>2, <2>2
  <2>5. Ordered(t)
    <3>1. SUFFICES ASSUME NEW j \in 1 .. Len(s) - 1, NEW k \in 1 .. Len(s) - 1, j < k
                   PROVE  BlockEnd(t[j]) <= t[k].offset
      BY <2>3 DEF Ordered
    <3>2. CASE k < i
      <4>1. j \in 1 .. Len(s) /\ t[j] = s[j] /\ k \in 1 .. Len(s) /\ t[k] = s[k]
        BY <2>4, <3>1, <3>2
      <4> QED
        BY <1>3, <3>1, <4>1
    <3>3. CASE j < i /\ k >= i
      <4>1. j \in 1 .. Len(s) /\ t[j] = s[j]
        BY <2>4, <3>3
      <4>2. k + 1 \in 1 .. Len(s) /\ t[k] = s[k + 1] /\ j < k + 1
        BY <2>4, <3>1, <3>3
      <4> QED
        BY <1>3, <4>1, <4>2
    <3>4. CASE j >= i
      <4>1. j + 1 \in 1 .. Len(s) /\ t[j] = s[j + 1]
        BY <2>4, <3>4
      <4>2. k >= i /\ j + 1 < k + 1
        BY <1>2, <3>1, <3>4
      <4>3. k + 1 \in 1 .. Len(s) /\ t[k] = s[k + 1]
        BY <2>4, <4>2
      <4> QED
        BY <1>3, <4>1, <4>2, <4>3
    <3> QED
      BY <1>2, <3>1, <3>2, <3>3, <3>4
  <2>6. Gaps(t, {})
    <3>1. SUFFICES ASSUME NEW j \in 1 .. Len(t) - 1
                   PROVE  BlockEnd(t[j]) < t[j + 1].offset
      BY DEF Gaps
    <3>2. /\ j \in 1 .. Len(s) - 1 /\ j + 1 \in 1 .. Len(s) - 1
          /\ j \in 1 .. Len(s) /\ j + 1 \in 1 .. Len(s) /\ j + 2 \in 1 .. Len(s)
          /\ j < j + 1 /\ j < j + 2 /\ j + 1 < j + 2 /\ (j + 1) + 1 = j + 2
      BY <1>2, <2>2
    <3>3. CASE j + 1 < i
      <4>1. j < i
        BY <3>2, <3>3, <1>2
      <4>2. t[j] = s[j] /\ t[j + 1] = s[j + 1]
        BY <2>2, <3>2, <3>3, <4>1
      <4> QED
        BY <1>4, <3>2, <4>2
    <3>4. CASE j < i /\ j + 1 >= i
      <4>1. ~(j + 1 < i)
        BY <1>2, <3>2, <3>4
      <4>2. t[j] = s[j] /\ t[j + 1] = s[j + 2]
        BY <2>2, <3>2, <3>4, <4>1
      <4> QED
        BY <1>4, <3>2, <4>2
    <3>5. CASE j >= i
      <4>1. ~(j < i) /\ ~(j + 1 < i)
        BY <1>2, <3>2, <3>5
      <4>2. t[j] = s[j + 1] /\ t[j + 1] = s[j + 2]
        BY <2>2, <3>2, <4>1
      <4> QED
        BY <1>4, <3>2, <4>2
    <3> QED
      BY <1>2, <3>2, <3>3, <3>4, <3>5
  <2>7. ASSUME NEW j \in DOMAIN t
        PROVE  BlockEnd(t[j]) <= e
    BY <1>2, <2>3, <2>4
  <2>8. ASSUME NEW at \in Nat
        PROVE  Free(t, at) <=> Free(s, at) /\ ~(lo <= at /\ at < lo + size)
    <3>1. ASSUME Free(t, at)
          PROVE  Free(s, at) /\ ~(lo <= at /\ at < lo + size)
      <4>1. PICK j \in 1 .. Len(s) - 1 : t[j].offset <= at /\ at < BlockEnd(t[j])
        BY <2>3, <3>1 DEF Free
      <4>2. PICK k \in 1 .. Len(s) : k # i /\ s[k].offset <= at /\ at < BlockEnd(s[k])
        <5>1. CASE j < i /\ j \in 1 .. Len(s) /\ t[j] = s[j]
          BY <1>2, <4>1, <5>1
        <5>2. CASE j >= i /\ j + 1 \in 1 .. Len(s) /\ t[j] = s[j + 1]
          <6>1. j + 1 # i
            BY <1>2, <5>2
          <6> QED
            BY <4>1, <5>2, <6>1
        <5> QED
          BY <2>4, <5>1, <5>2
      <4>3. k < i => BlockEnd(s[k]) <= lo
        BY <1>2, <1>3, <4>2
      <4>4. k > i => BlockEnd(s[i]) <= s[k].offset
        BY <1>2, <1>3, <4>2
      <4>5. ~(lo <= at /\ at < lo + size)
        BY <1>2, <1>5, <1>6, <4>2, <4>3, <4>4
      <4> QED
        BY <1>2, <4>2, <4>5 DEF Free
    <3>2. ASSUME Free(s, at), ~(lo <= at /\ at < lo + size)
          PROVE  Free(t, at)
      <4>1. PICK k \in 1 .. Len(s) : s[k].offset <= at /\ at < BlockEnd(s[k])
        BY <1>2, <3>2 DEF Free
      <4>2. k # i
        BY <1>5, <1>6, <3>2, <4>1
      <4>3. CASE k < i
        <5>1. k \in DOMAIN t /\ t[k] = s[k]
          BY <1>2, <2>2, <2>3, <4>3
        <5> QED
          BY <4>1, <5>1 DEF Free
      <4>4. CASE k > i
        <5>1. k - 1 \in DOMAIN t /\ t[k - 1] = s[k]
          <6>1. k - 1 \in 1 .. Len(s) - 1 /\ ~(k - 1 < i) /\ (k - 1) + 1 = k
            BY <1>2, <4>4
          <6> QED
            BY <2>2, <2>3, <6>1
        <5> QED
          BY <4>1, <5>1 DEF Free
      <4> QED
        BY <1>2, <4>2, <4>3, <4>4
    <3> QED
      BY <3>1, <3>2
  <2> QED
    BY <2>2, <2>5, <2>6, <2>7, <2>8 DEF FreeList, t
<1>7. CASE s[i].size # size
  <2> DEFINE b == [offset |-> lo + size, size |-> s[i].size - size]
  <2>1. b \in Blocks /\ b.offset = lo + size /\ BlockEnd(b) = BlockEnd(s[i])
    BY <1>2, <1>5, <1>7 DEF Blocks, BlockEnd
  <2>2. t = [s EXCEPT ![i] = b]
    BY <1>7 DEF Take
  <2> HIDE DEF b
  <2>3. /\ t \in Seq(Blocks) /\ Len(t) = Len(s)
        /\ \A j \in 1 .. Len(s) : t[j] = IF j = i THEN b ELSE s[j]
    BY <1>1, <1>2, <2>1, <2>2, ExceptSeq
  <2> HIDE DEF t
  <2>4. DOMAIN t = 1 .. Len(s)
    BY <2>3, ListFacts
  <2>5. ASSUME NEW j \in 1 .. Len(s)
        PROVE  /\ BlockEnd(t[j]) = BlockEnd(s[j])
               /\ t[j].offset = IF j = i THEN lo + size ELSE s[j].offset
    BY <2>1, <2>3
  <2>6. \A j \in 1 .. Len(s) : t[j].offset \in Nat /\ s[j].offset <= t[j].offset
    <3>1. SUFFICES ASSUME NEW j \in 1 .. Len(s)
                   PROVE  t[j].offset \in Nat /\ s[j].offset <= t[j].offset
      BY Zenon
    <3>2. t[j].offset = IF j = i THEN lo + size ELSE s[j].offset
      BY <2>5
    <3>3. s[j].offset \in Nat /\ lo + size \in Nat /\ lo <= lo + size
      BY <1>2, <1>5
    <3> QED
      BY <3>2, <3>3
  <2>7. Ordered(t)
    <3>1. SUFFICES ASSUME NEW j \in 1 .. Len(s), NEW k \in 1 .. Len(s), j < k
                   PROVE  BlockEnd(t[j]) <= t[k].offset
      BY <2>4 DEF Ordered
    <3>2. BlockEnd(s[j]) <= s[k].offset
      BY <1>3, <3>1
    <3> QED
      BY <1>2, <2>5, <2>6, <3>2
  <2>8. Gaps(t, {})
    <3>1. SUFFICES ASSUME NEW j \in 1 .. Len(s) - 1
                   PROVE  BlockEnd(t[j]) < t[j + 1].offset
      BY <1>2, <2>3 DEF Gaps
    <3>2. j \in 1 .. Len(s) /\ j + 1 \in 1 .. Len(s) /\ j < j + 1
      BY <1>2
    <3>3. BlockEnd(s[j]) < s[j + 1].offset
      BY <1>4, <3>2
    <3>4. BlockEnd(t[j]) = BlockEnd(s[j]) /\ s[j + 1].offset <= t[j + 1].offset
      BY <2>5, <2>6, <3>2
    <3> QED
      BY <1>2, <2>6, <3>2, <3>3, <3>4
  <2>9. ASSUME NEW j \in DOMAIN t
        PROVE  BlockEnd(t[j]) <= e
    BY <1>2, <2>4, <2>5
  <2>10. ASSUME NEW at \in Nat
         PROVE  Free(t, at) <=> Free(s, at) /\ ~(lo <= at /\ at < lo + size)
    <3>1. ASSUME Free(t, at)
          PROVE  Free(s, at) /\ ~(lo <= at /\ at < lo + size)
      <4>1. PICK j \in 1 .. Len(s) : t[j].offset <= at /\ at < BlockEnd(t[j])
        BY <2>4, <3>1 DEF Free
      <4>2. s[j].offset <= at /\ at < BlockEnd(s[j])
        BY <1>2, <2>5, <2>6, <4>1
      <4>3. ~(lo <= at /\ at < lo + size)
        <5>1. CASE j = i
          BY <1>2, <1>5, <2>5, <4>1, <5>1
        <5>2. CASE j < i
          <6>1. BlockEnd(s[j]) <= lo
            BY <1>2, <1>3, <5>2
          <6> QED
            BY <1>2, <1>5, <4>2, <6>1
        <5>3. CASE j > i
          <6>1. BlockEnd(s[i]) <= s[j].offset
            BY <1>2, <1>3, <5>3
          <6> QED
            BY <1>2, <1>5, <4>2, <6>1
        <5> QED
          BY <1>2, <5>1, <5>2, <5>3
      <4> QED
        BY <1>2, <4>2, <4>3 DEF Free
    <3>2. ASSUME Free(s, at), ~(lo <= at /\ at < lo + size)
          PROVE  Free(t, at)
      <4>1. PICK k \in 1 .. Len(s) : s[k].offset <= at /\ at < BlockEnd(s[k])
        BY <1>2, <3>2 DEF Free
      <4>2. t[k].offset <= at /\ at < BlockEnd(t[k])
        BY <1>5, <2>5, <3>2, <4>1
      <4> QED
        BY <2>4, <4>2 DEF Free
    <3> QED
      BY <3>1, <3>2
  <2> QED
    BY <2>3, <2>7, <2>8, <2>9, <2>10 DEF FreeList, t
<1> QED
  BY <1>6, <1>7

(* The list is coalesced: a free range lies in one of its blocks. *)
LEMMA OneBlock ==
  ASSUME NEW s, FreeList(s), NEW lo \in Nat, NEW hi \in Nat, lo < hi,
         \A at \in Nat : lo <= at /\ at < hi => Free(s, at)
  PROVE  \E i \in DOMAIN s : s[i].offset <= lo /\ hi <= BlockEnd(s[i])
<1>1. /\ Len(s) \in Nat /\ DOMAIN s = 1 .. Len(s) /\ Ordered(s) /\ Gaps(s, {})
      /\ \A j \in 1 .. Len(s) :
           s[j].offset \in Nat /\ BlockEnd(s[j]) \in Nat /\ s[j].offset < BlockEnd(s[j])
  BY ListFacts DEF FreeList
<1>2. PICK i \in 1 .. Len(s) : s[i].offset <= lo /\ lo < BlockEnd(s[i])
  BY <1>1 DEF Free
<1>3. SUFFICES ASSUME BlockEnd(s[i]) < hi PROVE FALSE
  BY <1>1, <1>2
<1>4. PICK j \in 1 .. Len(s) : s[j].offset <= BlockEnd(s[i]) /\ BlockEnd(s[i]) < BlockEnd(s[j])
  <2>1. Free(s, BlockEnd(s[i]))
    BY <1>1, <1>2, <1>3
  <2> QED
    BY <1>1, <2>1 DEF Free
<1>5. CASE j < i
  <2>1. BlockEnd(s[j]) <= s[i].offset
    BY <1>1, <1>5 DEF Ordered
  <2> QED
    BY <1>1, <1>2, <1>4, <2>1
<1>6. CASE j > i
  <2>1. i \in 1 .. Len(s) - 1 /\ i + 1 \in 1 .. Len(s)
    BY <1>1, <1>6
  <2>2. BlockEnd(s[i]) < s[i + 1].offset
    BY <1>1, <2>1 DEF Gaps
  <2>3. j = i + 1 \/ s[i + 1].offset <= s[j].offset
    <3>1. j # i + 1 => BlockEnd(s[i + 1]) <= s[j].offset
      BY <1>1, <1>6, <2>1 DEF Ordered
    <3> QED
      BY <1>1, <2>1, <3>1
  <2> QED
    BY <1>1, <1>4, <2>1, <2>2, <2>3
<1> QED
  BY <1>1, <1>4, <1>5, <1>6

-----------------------------------------------------------------------------
(* The graph                                                               *)

Node == [op : STRING, ins : Seq(Nat), outs : Seq(Nat \ {0})]

LEMMA NodeFacts ==
  ASSUME graph \in Graphs
  PROVE  /\ Len(graph.nodes) \in Nat /\ Nodes = 1 .. Len(graph.nodes)
         /\ \A n \in Nodes :
              /\ graph.nodes[n].ins \in Seq(Nat) /\ graph.nodes[n].outs \in Seq(Nat \ {0})
              /\ ToSet(graph.nodes[n].ins) \subseteq Nat
              /\ ToSet(graph.nodes[n].outs) \subseteq Nat \ {0}
              /\ \A t \in ToSet(graph.nodes[n].outs) : graph.size[t] \in Nat \ {0}
<1>1. /\ graph.nodes \in Seq(Node)
      /\ \A n \in DOMAIN graph.nodes : \A t \in ToSet(graph.nodes[n].outs) :
           graph.size[t] \in Nat \ {0}
  BY GraphAssumption DEF Node
<1>2. /\ Len(graph.nodes) \in Nat /\ Nodes = 1 .. Len(graph.nodes)
      /\ \A n \in 1 .. Len(graph.nodes) : graph.nodes[n] \in Node
  BY <1>1, LenProperties, ElementOfSeq DEF Nodes
<1>3. \A n \in Nodes : graph.nodes[n].ins \in Seq(Nat) /\ graph.nodes[n].outs \in Seq(Nat \ {0})
  BY <1>2 DEF Node
<1>4. ASSUME NEW B, NEW s \in Seq(B)
      PROVE  ToSet(s) \subseteq B
  <2>1. Len(s) \in Nat /\ DOMAIN s = 1 .. Len(s) /\ \A i \in 1 .. Len(s) : s[i] \in B
    BY LenProperties, ElementOfSeq
  <2> QED
    BY <2>1 DEF ToSet
<1>5. \A n \in Nodes : ToSet(graph.nodes[n].ins) \subseteq Nat
  BY <1>3, <1>4
<1>6. \A n \in Nodes : ToSet(graph.nodes[n].outs) \subseteq Nat \ {0}
  BY <1>3, <1>4
<1> QED
  BY <1>1, <1>2, <1>3, <1>5, <1>6 DEF Nodes

(* A tensor is born at one node, before all that read it. *)
LEMMA BirthFacts ==
  ASSUME graph \in Graphs
  PROVE  /\ \A t \in Tensors :
              /\ t \in Nat \ {0} /\ graph.size[t] \in Nat \ {0}
              /\ Birth(t) \in Nodes /\ t \in ToSet(graph.nodes[Birth(t)].outs)
         /\ \A n \in Nodes : \A t \in ToSet(graph.nodes[n].outs) : t \in Tensors /\ Birth(t) = n
         /\ \A n \in Nodes : \A t \in ToSet(graph.nodes[n].ins) :
              t = 0 \/ (t \in Tensors /\ Birth(t) < n)
         /\ \A t \in graph.outputs : t = 0 \/ t \in Tensors
<1>1. /\ \A n, m \in Nodes :
           n # m => ToSet(graph.nodes[n].outs) \cap ToSet(graph.nodes[m].outs) = {}
      /\ \A n \in Nodes : \A t \in ToSet(graph.nodes[n].ins) :
           t = 0 \/ \E m \in 1 .. n - 1 : t \in ToSet(graph.nodes[m].outs)
      /\ \A t \in graph.outputs : t = 0 \/ \E n \in Nodes : t \in ToSet(graph.nodes[n].outs)
  BY GraphAssumption DEF Nodes
<1>2. \A t \in Tensors : Birth(t) \in Nodes /\ t \in ToSet(graph.nodes[Birth(t)].outs)
  BY DEF Tensors, Birth
<1>3. ASSUME NEW n \in Nodes, NEW t \in ToSet(graph.nodes[n].outs)
      PROVE  t \in Tensors /\ Birth(t) = n
  <2>1. t \in Tensors
    BY DEF Tensors
  <2> QED
    BY <1>1, <1>2, <2>1
<1>4. ASSUME NEW n \in Nodes, NEW t \in ToSet(graph.nodes[n].ins), t # 0
      PROVE  t \in Tensors /\ Birth(t) < n
  <2>1. PICK m \in 1 .. n - 1 : t \in ToSet(graph.nodes[m].outs)
    BY <1>1, <1>4
  <2>2. m \in Nodes /\ m < n
    BY NodeFacts
  <2> QED
    BY <1>3, <2>1, <2>2
<1>5. \A t \in Tensors : t \in Nat \ {0} /\ graph.size[t] \in Nat \ {0}
  BY <1>2, NodeFacts
<1>6. \A t \in graph.outputs : t = 0 \/ t \in Tensors
  BY <1>1, <1>3
<1> QED
  BY <1>2, <1>3, <1>4, <1>5, <1>6

(* It lives until its last reader, and an output beyond the last node. *)
LEMMA LastUseFacts ==
  ASSUME graph \in Graphs, NEW t \in Tensors
  PROVE  /\ LastUse(t) \in Nat /\ Birth(t) <= LastUse(t)
         /\ \A n \in Nodes : Reads(n, t) => n <= LastUse(t)
         /\ t \in graph.outputs => LastUse(t) = Len(graph.nodes) + 1
<1>1. Len(graph.nodes) \in Nat /\ Nodes = 1 .. Len(graph.nodes) /\ Birth(t) \in Nodes
  BY NodeFacts, BirthFacts
<1>2. CASE t \in graph.outputs
  BY <1>1, <1>2 DEF LastUse
<1>3. CASE t \notin graph.outputs
  <2> DEFINE S == {Birth(t)} \cup {n \in Nodes : t \in ToSet(graph.nodes[n].ins)}
  <2>1. S \subseteq Nat /\ S # {} /\ \A x \in S : x <= Len(graph.nodes)
    BY <1>1
  <2>2. LastUse(t) = LargestOf(S)
    BY <1>3 DEF LastUse
  <2>3. Birth(t) \in S /\ \A n \in Nodes : Reads(n, t) => n \in S
    BY DEF Reads
  <2> HIDE DEF S
  <2>4. LargestOf(S) \in S /\ \A y \in S : LargestOf(S) >= y
    BY <1>1, <2>1, LargestIs
  <2> QED
    BY <1>1, <1>3, <2>1, <2>2, <2>3, <2>4
<1> QED
  BY <1>2, <1>3

LEMMA TensorsFinite ==
  ASSUME graph \in Graphs
  PROVE  IsFiniteSet(Tensors)
<1> DEFINE outs(n) == ToSet(graph.nodes[n].outs)
           F == {outs(n) : n \in Nodes}
<1>1. ASSUME NEW U, IsFiniteSet(U), NEW T, NEW f \in [U -> T]
      PROVE  IsFiniteSet({f[x] : x \in U})
  <2>1. f \in Surjection(U, {f[x] : x \in U})
    BY <1>1 DEF Surjection
  <2> QED
    BY <1>1, <2>1, FS_Surjection
<1>2. ASSUME NEW s, NEW B, s \in Seq(B)
      PROVE  IsFiniteSet(DOMAIN s) /\ s \in [DOMAIN s -> B]
  <2>1. Len(s) \in Nat /\ DOMAIN s = 1 .. Len(s) /\ s \in [1 .. Len(s) -> B]
    BY <1>2, LenProperties
  <2> QED
    BY <2>1, FS_Interval, 1 \in Int, Len(s) \in Int
<1>3. IsFiniteSet(Nodes)
  <2>1. graph.nodes \in Seq(Node)
    BY GraphAssumption DEF Node
  <2> QED
    BY <1>2, <2>1 DEF Nodes
<1>4. ASSUME NEW n \in Nodes
      PROVE  IsFiniteSet(outs(n))
  <2>1. graph.nodes[n].outs \in Seq(Nat \ {0})
    BY NodeFacts
  <2>2. /\ IsFiniteSet(DOMAIN graph.nodes[n].outs)
        /\ graph.nodes[n].outs \in [DOMAIN graph.nodes[n].outs -> Nat \ {0}]
    BY <1>2, <2>1
  <2> QED
    BY <1>1, <2>2 DEF ToSet
<1>5. IsFiniteSet(F)
  <2> DEFINE f == [n \in Nodes |-> outs(n)]
  <2>1. f \in [Nodes -> F] /\ F = {f[n] : n \in Nodes}
    OBVIOUS
  <2> HIDE DEF f, F
  <2>2. f \in Surjection(Nodes, F)
    BY <2>1 DEF Surjection
  <2> QED
    BY <1>3, <2>2, FS_Surjection
<1>6. Tensors = UNION F
  BY DEF Tensors
<1>7. \A U \in F : IsFiniteSet(U)
  BY <1>4
<1> HIDE DEF F
<1> QED
  BY <1>5, <1>6, <1>7, FS_UNION

(* The first of some tensors in the order of the planner by size. *)
LEMMA FirstIs ==
  ASSUME graph \in Graphs, NEW S, S \subseteq Tensors, S # {}
  PROVE  FirstOf(S) \in S
<1> DEFINE R == {p \in S \X S : Before(p[1], p[2])}
<1>1. \A t \in S : graph.size[t] \in Nat /\ Birth(t) \in Nat /\ t \in Nat
  BY BirthFacts, NodeFacts
<1>2. \A t, u \in S : <<t, u>> \in R <=> Before(t, u)
  OBVIOUS
<1> HIDE DEF R
<1>3. \A t \in S : ~Before(t, t)
  BY <1>1 DEF Before
<1>4. \A t, u, w \in S : Before(t, u) /\ Before(u, w) => Before(t, w)
  BY <1>1 DEF Before
<1>5. \A t, u \in S : t # u => Before(t, u) \/ Before(u, t)
  BY <1>1 DEF Before
<1>6. IsFiniteSet(S)
  BY TensorsFinite, FS_Subset
<1>7. PICK t \in S : \A u \in S : <<u, t>> \notin R
  BY <1>2, <1>3, <1>4, <1>6, MinimalExists
<1>8. \A u \in S \ {t} : Before(t, u)
  BY <1>2, <1>5, <1>7
<1> QED
  BY <1>8 DEF FirstOf

-----------------------------------------------------------------------------
(* The fused chains                                                        *)

LEMMA FusedFacts ==
  ASSUME graph \in Graphs, NEW n \in Nodes, FusedAt(n)
  PROVE  /\ \A k \in 0 .. 4 :
              /\ n + k \in Nodes
              /\ graph.nodes[n + k].op = Chain[k + 1]
              /\ ToSet(graph.nodes[n + k].outs) = {Out(n + k)}
              /\ Out(n + k) \in Tensors /\ Birth(Out(n + k)) = n + k
              /\ graph.size[Out(n + k)] = graph.size[Source(n)]
         /\ \A k \in 0 .. 3 : LastUse(Out(n + k)) = n + k + 1
         /\ \/ Source(n) = 0
            \/ /\ Source(n) \in Tensors /\ Birth(Source(n)) < n
               /\ n + 3 <= LastUse(Source(n))
<1>1. /\ Len(graph.nodes) \in Nat /\ Nodes = 1 .. Len(graph.nodes) /\ n \in Nat
      /\ n + 4 <= Len(graph.nodes)
  BY NodeFacts DEF FusedAt, Matches
<1>2. ASSUME NEW k \in 0 .. 4
      PROVE  /\ n + k \in Nodes
             /\ graph.nodes[n + k].op = Chain[k + 1]
             /\ ToSet(graph.nodes[n + k].outs) = {Out(n + k)}
             /\ Out(n + k) \in Tensors /\ Birth(Out(n + k)) = n + k
             /\ graph.size[Out(n + k)] = graph.size[Source(n)]
  <2>1. n + k \in Nodes
    BY <1>1
  <2>2. /\ Len(graph.nodes[n + k].outs) = 1 /\ graph.nodes[n + k].op = Chain[k + 1]
        /\ graph.size[Out(n + k)] = graph.size[Source(n)]
    BY DEF FusedAt, Matches
  <2>3. graph.nodes[n + k].outs \in Seq(Nat \ {0})
    BY <2>1, NodeFacts
  <2>4. DOMAIN graph.nodes[n + k].outs = {1}
    BY <2>2, <2>3, LenProperties
  <2>5. ToSet(graph.nodes[n + k].outs) = {Out(n + k)}
    BY <2>4 DEF ToSet, Out
  <2> QED
    BY <2>1, <2>2, <2>5, BirthFacts
<1>3. \A k \in 0 .. 3 : LastUse(Out(n + k)) = n + k + 1
  BY DEF FusedAt
<1>4. Source(n) \in ToSet(graph.nodes[n].ins)
  <2>1. Len(graph.nodes[n].ins) = 1 /\ graph.nodes[n].ins \in Seq(Nat)
    BY NodeFacts DEF FusedAt, Matches
  <2>2. 1 \in DOMAIN graph.nodes[n].ins
    BY <2>1, LenProperties
  <2> QED
    BY <2>2 DEF ToSet, Source
<1>5. ASSUME Source(n) # 0
      PROVE  /\ Source(n) \in Tensors /\ Birth(Source(n)) < n
             /\ n + 3 <= LastUse(Source(n))
  <2>1. Source(n) \in Tensors /\ Birth(Source(n)) < n
    BY <1>4, <1>5, BirthFacts
  <2>2. Reads(n + 3, Source(n)) /\ n + 3 \in Nodes
    BY <1>1 DEF FusedAt, Matches
  <2> QED
    BY <2>1, <2>2, LastUseFacts
<1> QED
  BY <1>2, <1>3, <1>5

LEMMA PassFacts ==
  ASSUME graph \in Graphs, NEW n \in Nodes, FusedAt(n)
  PROVE  /\ n \in Nat /\ n + 4 \in Nodes
         /\ Out(n + 4) \in Tensors /\ Birth(Out(n + 4)) = n + 4
         /\ graph.size[Out(n + 4)] = graph.size[Source(n)]
         /\ graph.size[Out(n + 4)] \in Nat \ {0}
         /\ Source(n) # 0 =>
              /\ Source(n) \in Tensors /\ Birth(Source(n)) \in Nat /\ Birth(Source(n)) < n
              /\ n + 3 <= LastUse(Source(n))
<1>1. 4 \in 0 .. 4
  OBVIOUS
<1>2. /\ n + 4 \in Nodes /\ Out(n + 4) \in Tensors /\ Birth(Out(n + 4)) = n + 4
      /\ graph.size[Out(n + 4)] = graph.size[Source(n)]
  BY <1>1, FusedFacts
<1>3. Source(n) # 0 => /\ Source(n) \in Tensors /\ Birth(Source(n)) < n
                       /\ n + 3 <= LastUse(Source(n))
  BY FusedFacts
<1> QED
  BY <1>2, <1>3, NodeFacts, BirthFacts

(* A chain begins with the only division in it: two chains do not overlap. *)
LEMMA ChainsApart ==
  ASSUME graph \in Graphs, NEW n \in Nodes, NEW m \in Nodes, FusedAt(n), FusedAt(m)
  PROVE  m \notin n + 1 .. n + 4
<1>1. n \in Nat /\ m \in Nat
  BY NodeFacts
<1>2. SUFFICES ASSUME m \in n + 1 .. n + 4 PROVE FALSE
  OBVIOUS
<1>3. m - n \in 1 .. 4 /\ n + (m - n) = m /\ m - n \in 0 .. 4
  BY <1>1, <1>2
<1>4. graph.nodes[m].op = Chain[(m - n) + 1]
  BY <1>3, FusedFacts
<1>5. graph.nodes[m].op = Chain[1]
  <2>1. 0 \in 0 .. 4 /\ m + 0 = m /\ 0 + 1 = 1
    BY <1>1
  <2> QED
    BY <2>1, FusedFacts
<1>6. (m - n) + 1 \in 2 .. 5
  BY <1>1, <1>3
<1>7. \A k \in 2 .. 5 : Chain[k] # Chain[1]
  BY DEF Chain
<1> QED
  BY <1>4, <1>5, <1>6, <1>7

LEMMA SkippedFacts ==
  ASSUME graph \in Graphs, NEW t \in Tensors, Skipped(t)
  PROVE  /\ build.fusion_memory
         /\ \E n \in Nodes : FusedAt(n) /\ \E k \in 0 .. 3 :
              Birth(t) = n + k /\ LastUse(t) = n + k + 1
<1>1. PICK n \in Nodes : FusedAt(n) /\ \E k \in 0 .. 3 : t = Out(n + k)
  BY DEF Skipped
<1>2. PICK k \in 0 .. 3 : t = Out(n + k)
  BY <1>1
<1>3. k \in 0 .. 4
  OBVIOUS
<1>4. Birth(t) = n + k /\ LastUse(t) = n + k + 1
  BY <1>1, <1>2, <1>3, FusedFacts
<1> QED
  BY <1>1, <1>4 DEF Skipped

(* Where the fused pass is safe nothing is elided: the default build does  *)
(* not elide, and without chains there is nothing to elide.                *)
LEMMA NothingSkipped ==
  ASSUME graph \in Graphs, build \in Builds, PassIsSafe
  PROVE  \A t \in Tensors : ~Skipped(t)
BY BuildAssumption, SkippedFacts DEF PassIsSafe

-----------------------------------------------------------------------------
(* Steps.  No step changes the graph or the build, hence no lifetime.      *)

Static == build' = build /\ graph' = graph

LEMMA Same ==
  ASSUME Static
  PROVE  /\ Nodes' = Nodes /\ Tensors' = Tensors /\ Planned' = Planned
         /\ PassIsSafe' = PassIsSafe
         /\ \A t : Birth(t)' = Birth(t) /\ LastUse(t)' = LastUse(t) /\ Skipped(t)' = Skipped(t)
         /\ \A t, u : LifetimesOverlap(t, u)' = LifetimesOverlap(t, u)
         /\ \A n : FusedAt(n)' = FusedAt(n) /\ Out(n)' = Out(n) /\ Source(n)' = Source(n)
<1> USE DEF Static
<1>1. Nodes' = Nodes
  BY DEF Nodes
<1>2. Tensors' = Tensors
  BY DEF Tensors, Nodes
<1>3. \A t : Birth(t)' = Birth(t)
  BY DEF Birth, Nodes
<1>4. \A t : LastUse(t)' = LastUse(t)
  BY <1>1, <1>3 DEF LastUse, Nodes
<1>5. \A n : Out(n)' = Out(n) /\ Source(n)' = Source(n)
  BY DEF Out, Source
<1>6. \A n : Matches(n)' = Matches(n)
  BY <1>5 DEF Matches, Reads
<1>7. \A n : FusedAt(n)' = FusedAt(n)
  BY <1>4, <1>5, <1>6 DEF FusedAt
<1>8. \A t : Skipped(t)' = Skipped(t)
  BY <1>1, <1>5, <1>7 DEF Skipped
<1>9. Planned' = Planned
  BY <1>2, <1>8 DEF Planned
<1>10. \A t, u : LifetimesOverlap(t, u)' = LifetimesOverlap(t, u)
  BY <1>3, <1>4 DEF LifetimesOverlap
<1>11. PassIsSafe' = PassIsSafe
  BY <1>1, <1>7 DEF PassIsSafe
<1> QED
  BY <1>1, <1>2, <1>3, <1>4, <1>5, <1>7, <1>8, <1>9, <1>10, <1>11

(* Two ranges without a common line are one before the other. *)
LEMMA RangesApart ==
  ASSUME NEW a \in Int, NEW b \in Int, NEW p \in Nat \ {0}, NEW q \in Nat \ {0},
         \A x \in a .. a + p - 1 : ~(b <= x /\ x < b + q)
  PROVE  a + p <= b \/ b + q <= a
<1>1. CASE a <= b
  <2>1. SUFFICES ASSUME b < a + p PROVE FALSE
    OBVIOUS
  <2>2. b \in a .. a + p - 1
    BY <1>1, <2>1
  <2> QED
    BY <2>2
<1>2. CASE b < a
  <2>1. SUFFICES ASSUME a < b + q PROVE FALSE
    OBVIOUS
  <2>2. a \in a .. a + p - 1
    OBVIOUS
  <2> QED
    BY <1>2, <2>1, <2>2
<1> QED
  BY <1>1, <1>2

LEMMA PlanKept ==
  ASSUME Static, GoodPlan(offset', end')
  PROVE  GoodPlan(offset, end)'
<1>1. offset' \in [Tensors -> Int] /\ end' \in Nat /\ Fitting(offset', end') /\ Disjoint(offset')
  BY DEF GoodPlan
<1>2. (offset \in [Tensors -> Int] /\ end \in Nat)'
  BY <1>1, Same
<1>3. Fitting(offset, end)'
  BY <1>1, Same DEF Fitting, Static
<1>4. Disjoint(offset)'
  BY <1>1, Same DEF Disjoint, SeparateBy, Static
<1> QED
  BY <1>2, <1>3, <1>4 DEF GoodPlan

LEMMA TypeKept ==
  ASSUME TypeInv, Static, GoodPlan(offset', end'), node' \in 1 .. Len(graph.nodes) + 1,
         pc' \in {"v1", "v2", "choose", "run", "done", "failed"},
         candidate' \in Nat, line' \in Nat
  PROVE  TypeInv'
<1>1. GoodPlan(offset, end)'
  BY PlanKept
<1>2. (build \in Builds /\ graph \in Graphs)' /\ graph' = graph
  BY DEF Static, TypeInv
<1> QED
  BY <1>1, <1>2 DEF TypeInv

(* What the placed tensors are in the plan so far. *)
LEMMA PlacedFacts ==
  ASSUME TypeInv, NEW t \in Tensors, offset[t] # NoOffset
  PROVE  /\ ~Skipped(t) /\ offset[t] \in Nat /\ offset[t] + graph.size[t] <= end
         /\ graph.size[t] \in Nat \ {0} /\ Lines(t) \subseteq Nat
<1>1. ~Skipped(t) /\ offset[t] \in Nat /\ offset[t] + graph.size[t] <= end
  BY DEF TypeInv, GoodPlan, Fitting
<1>2. graph.size[t] \in Nat \ {0}
  BY BirthFacts DEF TypeInv
<1> QED
  BY <1>1, <1>2 DEF Lines

LEMMA NextDueFacts ==
  ASSUME graph \in Graphs, node \in Nodes, Due # {}
  PROVE  /\ NextDue \in Tensors /\ NextDue \in ToSet(graph.nodes[node].outs)
         /\ Birth(NextDue) = node /\ ~Skipped(NextDue) /\ offset[NextDue] = NoOffset
<1>1. Outs \in Seq(Nat \ {0})
  BY NodeFacts DEF Outs
<1>2. Due \subseteq Nat /\ Due \subseteq DOMAIN Outs
  BY <1>1, LenProperties DEF Due
<1>3. LeastOf(Due) \in Due
  BY <1>2, LeastIs
<1>4. NextDue \in ToSet(Outs) /\ ~Skipped(NextDue) /\ offset[NextDue] = NoOffset
  BY <1>2, <1>3 DEF NextDue, ToSet, Due
<1> QED
  BY <1>4, BirthFacts DEF Outs

(* One tensor of the node is put where nobody is. *)
LEMMA PlaceStep ==
  ASSUME IInv, Static, pc = "v1", node \in Nodes, Due # {},
         NEW at \in Nat, NEW e \in Nat, Placed(NextDue, at),
         end' = e, end <= e, at + graph.size[NextDue] <= e,
         FreeList(blocks'), \A i \in DOMAIN blocks' : BlockEnd(blocks'[i]) <= e,
         \A x \in Nat : Free(blocks', x) =>
           Free(blocks, x) /\ ~(at <= x /\ x < at + graph.size[NextDue]),
         \A t \in live : \A x \in Lines(t) : ~(at <= x /\ x < at + graph.size[NextDue]),
         \A n \in Nodes :
           ~build.planner_v2 /\ FusedAt(n) /\ Source(n) # 0 /\ NextDue = Out(n + 4)
           => \/ at <= offset[Source(n)]
              \/ offset[Source(n)] + graph.size[Source(n)] <= at
              \/ at + graph.size[NextDue] <= offset[Source(n)],
         UNCHANGED <<pc, node, v1, candidate, line, memory>>
  PROVE  IInv'
<1>0. PICK d : d = NextDue
  OBVIOUS
<1> DEFINE sz == graph.size[d]
<1>1. TypeInv /\ LiveInv /\ FreeInv /\ PassForward /\ V2Inv /\ RunInv /\ graph \in Graphs
  BY DEF IInv, V1Inv, TypeInv
<1>2. /\ d \in Tensors /\ d \in ToSet(graph.nodes[node].outs)
      /\ Birth(d) = node /\ ~Skipped(d) /\ offset[d] = NoOffset /\ sz \in Nat \ {0}
  BY <1>0, <1>1, NextDueFacts, BirthFacts
<1>3. /\ offset' = [offset EXCEPT ![d] = at] /\ live' = live \cup {d}
  BY <1>0 DEF Placed
<1>4. /\ offset' \in [Tensors -> Int] /\ offset'[d] = at
      /\ \A t \in Tensors : t # d => offset'[t] = offset[t]
  BY <1>1, <1>2, <1>3 DEF TypeInv, GoodPlan
<1>5. node \in Nat /\ \A t \in Tensors : Birth(t) \in Nat /\ LastUse(t) \in Nat /\ Birth(t) <= LastUse(t)
  BY <1>1, BirthFacts, LastUseFacts, NodeFacts
<1>6. d \notin live /\ live \subseteq Tensors
  BY <1>1, <1>2 DEF LiveInv
<1>7. ASSUME NEW t \in live
      PROVE  offset[t] + graph.size[t] <= at \/ at + sz <= offset[t]
  <2>1. offset[t] \in Nat /\ graph.size[t] \in Nat \ {0}
    BY <1>1, <1>6, PlacedFacts DEF LiveInv
  <2>2. \A x \in offset[t] .. offset[t] + graph.size[t] - 1 : ~(at <= x /\ x < at + sz)
    BY <1>0 DEF Lines
  <2> QED
    BY <1>2, <2>1, <2>2, RangesApart
<1>8. ASSUME NEW t \in Tensors, t # d, offset[t] # NoOffset, node <= LastUse(t)
      PROVE  offset[t] + graph.size[t] <= at \/ at + sz <= offset[t]
  <2>1. t \in live
    BY <1>1, <1>5, <1>8 DEF LiveInv
  <2> QED
    BY <1>7, <2>1
<1>9. GoodPlan(offset', end')
  <2>1. Fitting(offset', end')
    <3>1. SUFFICES ASSUME NEW t \in Tensors, offset'[t] # NoOffset
                   PROVE  ~Skipped(t) /\ offset'[t] \in Nat /\ offset'[t] + graph.size[t] <= e
      BY DEF Fitting
    <3>2. CASE t = d
      BY <1>0, <1>2, <1>4, <3>2
    <3>3. CASE t # d
      <4>1. offset'[t] = offset[t]
        BY <1>4, <3>3
      <4>2. ~Skipped(t) /\ offset[t] \in Nat /\ offset[t] + graph.size[t] <= end /\ end \in Nat
            /\ graph.size[t] \in Nat
        BY <1>1, <3>1, <4>1, PlacedFacts DEF TypeInv, GoodPlan
      <4> QED
        BY <4>1, <4>2
    <3> QED
      BY <3>2, <3>3
  <2>2. Disjoint(offset')
    <3>1. SUFFICES ASSUME NEW t \in Tensors, NEW u \in Tensors, t # u,
                          offset'[t] # NoOffset, offset'[u] # NoOffset, LifetimesOverlap(t, u)
                   PROVE  SeparateBy(offset', t, u)
      BY DEF Disjoint
    <3>2. CASE t = d
      <4>1. node <= LastUse(u) /\ offset'[u] = offset[u]
        BY <1>2, <1>4, <3>1, <3>2 DEF LifetimesOverlap
      <4> QED
        BY <1>4, <1>8, <3>1, <3>2, <4>1 DEF SeparateBy
    <3>3. CASE u = d
      <4>1. node <= LastUse(t) /\ offset'[t] = offset[t]
        BY <1>2, <1>4, <3>1, <3>3 DEF LifetimesOverlap
      <4> QED
        BY <1>4, <1>8, <3>1, <3>3, <4>1 DEF SeparateBy
    <3>4. CASE t # d /\ u # d
      <4>1. offset'[t] = offset[t] /\ offset'[u] = offset[u]
        BY <1>4, <3>4
      <4>2. SeparateBy(offset, t, u)
        BY <1>1, <3>1, <4>1 DEF TypeInv, GoodPlan, Disjoint
      <4> QED
        BY <4>1, <4>2 DEF SeparateBy
    <3> QED
      BY <3>2, <3>3, <3>4
  <2> QED
    BY <1>4, <2>1, <2>2 DEF GoodPlan
<1>10. TypeInv'
  <2>1. pc' = pc /\ node' = node /\ candidate' = candidate /\ line' = line
    OBVIOUS
  <2> QED
    BY <1>1, <1>9, <2>1, TypeKept DEF TypeInv
<1>11. \A t \in Tensors : t # d => Lines(t)' = Lines(t)
  BY <1>4 DEF Lines, Static
<1>12. Lines(d)' = at .. at + sz - 1
  BY <1>4 DEF Lines, Static
<1>13. LiveInv'
  <2>1. (\A t \in live : t \in Tensors /\ offset[t] # NoOffset)'
    BY <1>1, <1>2, <1>3, <1>4, <1>6, Same DEF LiveInv, NoOffset
  <2>2. (\A t \in Tensors : offset[t] # NoOffset =>
           Birth(t) <= node /\ (LastUse(t) >= node => t \in live))'
    <3>1. SUFFICES ASSUME NEW t \in Tensors, offset'[t] # NoOffset
                   PROVE  Birth(t) <= node /\ (LastUse(t) >= node => t \in live')
      BY Same
    <3>2. CASE t = d
      BY <1>2, <1>3, <1>5, <3>2
    <3>3. CASE t # d
      BY <1>1, <1>3, <1>4, <3>1, <3>3 DEF LiveInv
    <3> QED
      BY <3>2, <3>3
  <2>3. (\A t \in Planned : Birth(t) < node => offset[t] # NoOffset)'
    <3>1. SUFFICES ASSUME NEW t \in Planned, Birth(t) < node PROVE offset'[t] # NoOffset
      BY Same
    <3>2. t \in Tensors /\ t # d
      BY <1>2, <1>5, <3>1 DEF Planned
    <3> QED
      BY <1>1, <1>4, <3>1, <3>2 DEF LiveInv
  <2>4. (\A t, u \in live : t # u => Separate(t, u))'
    <3>1. SUFFICES ASSUME NEW t \in live', NEW u \in live', t # u
                   PROVE  SeparateBy(offset', t, u)
      BY DEF Separate, SeparateBy, Static
    <3>2. CASE t = d
      BY <1>3, <1>4, <1>6, <1>7, <3>1, <3>2 DEF SeparateBy
    <3>3. CASE u = d
      BY <1>3, <1>4, <1>6, <1>7, <3>1, <3>3 DEF SeparateBy
    <3>4. CASE t # d /\ u # d
      BY <1>1, <1>3, <1>4, <1>6, <3>1, <3>4 DEF LiveInv, Separate, SeparateBy
    <3> QED
      BY <3>2, <3>3, <3>4
  <2> QED
    BY <2>1, <2>2, <2>3, <2>4 DEF LiveInv
<1>14. FreeInv'
  <2>1. FreeList(blocks)'
    BY DEF FreeList, Ordered, Gaps, BlockEnd
  <2>2. (\A i \in DOMAIN blocks : BlockEnd(blocks[i]) <= end)'
    BY DEF BlockEnd
  <2>3. \A x : Free(blocks, x)' <=> Free(blocks', x)
    BY DEF Free, BlockEnd
  <2>4. ASSUME NEW t \in live', NEW x \in Nat, Free(blocks', x)
        PROVE  x \notin Lines(t)'
    <3>1. Free(blocks, x) /\ ~(at <= x /\ x < at + sz)
      BY <1>0, <2>4
    <3>2. CASE t = d
      BY <1>2, <1>12, <3>1, <3>2
    <3>3. CASE t # d
      <4>1. t \in live /\ t \in Tensors
        BY <1>3, <1>6, <3>3
      <4> QED
        BY <1>1, <1>11, <3>1, <3>3, <4>1 DEF FreeInv
    <3> QED
      BY <3>2, <3>3
  <2> QED
    BY <2>1, <2>2, <2>3, <2>4 DEF FreeInv
<1>15. SourceFreed'
  <2>1. SUFFICES ASSUME NEW n \in Nodes, FusedAt(n), node = n + 4, offset'[Out(n + 4)] = NoOffset
                 PROVE  FALSE
    BY Same DEF SourceFreed
  <2>2. 4 \in 0 .. 4 /\ d = Out(n + 4)
    BY <1>1, <1>2, <2>1, FusedFacts
  <2> QED
    BY <1>4, <2>1, <2>2 DEF NoOffset
<1>16. PassForward'
  <2>1. SUFFICES ASSUME ~build.planner_v2, NEW n \in Nodes, FusedAt(n), Source(n) # 0,
                        offset'[Out(n + 4)] # NoOffset
                 PROVE  \/ offset'[Out(n + 4)] <= offset'[Source(n)]
                        \/ SeparateBy(offset', Source(n), Out(n + 4))
    BY Same DEF PassForward, Separate, SeparateBy, Static
  <2>2. /\ Out(n + 4) \in Tensors /\ Birth(Out(n + 4)) = n + 4
        /\ Source(n) \in Tensors /\ Birth(Source(n)) < n
        /\ graph.size[Out(n + 4)] = graph.size[Source(n)] /\ n \in Nat
    BY <1>1, <2>1, PassFacts
  <2>3. CASE Out(n + 4) = d
    <3>1. offset'[Out(n + 4)] = at
      BY <1>4, <2>3
    <3>2. Source(n) # d
      BY <1>5, <2>2, <2>3
    <3>3. offset'[Source(n)] = offset[Source(n)]
      BY <1>4, <2>2, <3>2
    <3>4. \/ at <= offset[Source(n)]
          \/ offset[Source(n)] + graph.size[Source(n)] <= at
          \/ at + sz <= offset[Source(n)]
      BY <1>0, <2>1, <2>3
    <3> QED
      BY <2>3, <3>1, <3>3, <3>4 DEF SeparateBy
  <2>4. CASE Out(n + 4) # d
    <3>1. offset'[Out(n + 4)] = offset[Out(n + 4)]
      BY <1>4, <2>2, <2>4
    <3>2. n + 4 <= node
      BY <1>1, <2>1, <2>2, <3>1 DEF LiveInv
    <3>3. offset'[Source(n)] = offset[Source(n)]
      <4>1. Source(n) # d
        BY <1>2, <1>5, <2>2, <3>2
      <4> QED
        BY <1>4, <2>2, <4>1
    <3> QED
      BY <1>1, <2>1, <3>1, <3>3 DEF PassForward, Separate, SeparateBy
  <2> QED
    BY <2>3, <2>4
<1>17. V1Inv'
  BY <1>13, <1>14, <1>15 DEF V1Inv
<1>18. V2Inv' /\ RunInv'
  BY <1>1 DEF V2Inv, RunInv
<1> QED
  BY <1>10, <1>16, <1>17, <1>18 DEF IInv

LEMMA V1ReuseStep == IInv /\ Static /\ V1Reuse => IInv'
<1> SUFFICES ASSUME IInv, Static, V1Reuse PROVE IInv'
  OBVIOUS
<1>1. PICK size : size = graph.size[NextDue]
  OBVIOUS
<1>2. PICK i \in Fits(size) :
        /\ \A j \in Fits(size) : i <= j
        /\ Placed(NextDue, blocks[i].offset) /\ blocks' = Take(i, size)
  BY <1>1 DEF V1Reuse
<1>3. /\ TypeInv /\ LiveInv /\ FreeInv /\ (~build.planner_v2 => SourceFreed)
      /\ graph \in Graphs /\ build \in Builds /\ node \in Nodes /\ Due # {} /\ pc = "v1"
      /\ UNCHANGED <<pc, node, end, v1, candidate, line, memory>>
  BY DEF IInv, V1Inv, TypeInv, V1Reuse
<1>4. /\ NextDue \in Tensors /\ Birth(NextDue) = node /\ size \in Nat \ {0}
      /\ NextDue \in ToSet(graph.nodes[node].outs)
  BY <1>1, <1>3, NextDueFacts, BirthFacts
<1>5. /\ FreeList(blocks) /\ blocks \in Seq(Blocks) /\ end \in Nat
      /\ \A j \in DOMAIN blocks : BlockEnd(blocks[j]) <= end
  BY <1>3 DEF FreeInv, FreeList, TypeInv, GoodPlan
<1>6. /\ i \in DOMAIN blocks /\ blocks[i].size >= size
      /\ blocks[i].offset \in Nat /\ BlockEnd(blocks[i]) = blocks[i].offset + blocks[i].size
      /\ blocks[i].size \in Nat
  BY <1>2, <1>5, ListFacts DEF Fits, BlockEnd
<1>7. PICK at \in Nat : at = blocks[i].offset
  BY <1>6
<1>8. at + size <= end /\ \A x \in Nat : at <= x /\ x < at + size => Free(blocks, x)
  <2>1. at + size <= BlockEnd(blocks[i])
    BY <1>4, <1>6, <1>7
  <2>2. BlockEnd(blocks[i]) <= end /\ BlockEnd(blocks[i]) \in Nat
    BY <1>5, <1>6
  <2> QED
    BY <1>4, <1>5, <1>6, <1>7, <2>1, <2>2 DEF Free
<1>9. /\ FreeList(blocks') /\ \A j \in DOMAIN blocks' : BlockEnd(blocks'[j]) <= end
      /\ \A x \in Nat : Free(blocks', x) => Free(blocks, x) /\ ~(at <= x /\ x < at + size)
  BY <1>2, <1>4, <1>5, <1>6, <1>7, Taken
<1>10. \A t \in live : \A x \in Lines(t) : ~(at <= x /\ x < at + size)
  <2>1. SUFFICES ASSUME NEW t \in live, NEW x \in Lines(t), at <= x, x < at + size PROVE FALSE
    OBVIOUS
  <2>2. x \in Nat
    BY <1>3, PlacedFacts DEF LiveInv
  <2>3. Free(blocks, x)
    BY <1>8, <2>1, <2>2
  <2> QED
    BY <1>3, <2>2, <2>3 DEF FreeInv
<1>11. ASSUME NEW n \in Nodes, ~build.planner_v2, FusedAt(n), Source(n) # 0,
              NextDue = Out(n + 4)
       PROVE  \/ at <= offset[Source(n)]
              \/ offset[Source(n)] + graph.size[Source(n)] <= at
              \/ at + size <= offset[Source(n)]
  <2>1. PICK X : X = Source(n)
    OBVIOUS
  <2>2. /\ X \in Tensors /\ Birth(X) < n /\ n + 4 = node /\ n \in Nat /\ Birth(X) \in Nat
        /\ graph.size[X] = size
    BY <1>1, <1>3, <1>4, <1>11, <2>1, PassFacts
  <2>3. offset[X] # NoOffset
    <3>1. X \in Planned /\ Birth(X) < node
      BY <1>3, <1>11, <2>2, SkippedFacts, BuildAssumption DEF Planned
    <3> QED
      BY <1>3, <3>1 DEF LiveInv
  <2>4. offset[X] \in Nat
    BY <1>3, <2>2, <2>3, PlacedFacts
  <2>5. CASE X \in live
    <3>1. \A x \in offset[X] .. offset[X] + size - 1 : ~(at <= x /\ x < at + size)
      BY <1>10, <2>2, <2>5 DEF Lines
    <3>2. offset[X] + size <= at \/ at + size <= offset[X]
      BY <1>4, <2>4, <3>1, RangesApart
    <3> QED
      BY <2>1, <2>2, <3>2
  <2>6. CASE X \notin live
    <3>1. \A x \in Lines(X) : Free(blocks, x)
      <4>1. offset[Out(n + 4)] = NoOffset
        BY <1>3, <1>11, NextDueFacts
      <4> QED
        BY <1>3, <1>11, <2>1, <2>2, <2>6, <4>1 DEF SourceFreed
    <3>2. \A x \in Nat : offset[X] <= x /\ x < offset[X] + size => Free(blocks, x)
      <4>1. SUFFICES ASSUME NEW x \in Nat, offset[X] <= x, x < offset[X] + size
                     PROVE  Free(blocks, x)
        OBVIOUS
      <4>2. x \in offset[X] .. offset[X] + size - 1
        BY <1>4, <2>4, <4>1
      <4> QED
        BY <2>2, <3>1, <4>2 DEF Lines
    <3>3. PICK j \in DOMAIN blocks :
            blocks[j].offset <= offset[X] /\ offset[X] + size <= BlockEnd(blocks[j])
      <4>1. offset[X] + size \in Nat /\ offset[X] < offset[X] + size
        BY <1>4, <2>4
      <4> QED
        BY <1>5, <2>4, <3>2, <4>1, OneBlock
    <3>4. /\ blocks[j].offset \in Nat /\ blocks[j].size \in Nat
          /\ BlockEnd(blocks[j]) = blocks[j].offset + blocks[j].size
      BY <1>5, ListFacts DEF BlockEnd
    <3>5. j \in Fits(size)
      BY <1>4, <2>4, <3>3, <3>4 DEF Fits
    <3>6. i <= j
      BY <1>2, <3>5
    <3>7. blocks[i].offset <= blocks[j].offset
      <4>1. i = j \/ BlockEnd(blocks[i]) <= blocks[j].offset
        <5>1. i \in Nat /\ j \in Nat
          BY <1>5, <1>6, ListFacts
        <5> QED
          BY <1>5, <1>6, <3>6, <5>1 DEF FreeList, Ordered
      <4> QED
        BY <1>6, <3>4, <4>1
    <3> QED
      BY <1>7, <2>1, <2>4, <3>3, <3>4, <3>7
  <2> QED
    BY <2>5, <2>6
<1> QED
  BY <1>1, <1>2, <1>3, <1>5, <1>7, <1>8, <1>9, <1>10, <1>11, PlaceStep

LEMMA V1ExtendStep == IInv /\ Static /\ V1Extend => IInv'
<1> SUFFICES ASSUME IInv, Static, V1Extend PROVE IInv'
  OBVIOUS
<1>1. PICK size : size = graph.size[NextDue]
  OBVIOUS
<1>2. /\ TypeInv /\ LiveInv /\ FreeInv
      /\ graph \in Graphs /\ build \in Builds /\ node \in Nodes /\ Due # {} /\ pc = "v1"
      /\ UNCHANGED <<pc, node, blocks, v1, candidate, line, memory>>
      /\ Placed(NextDue, end) /\ end' = end + size
  BY <1>1 DEF IInv, V1Inv, TypeInv, V1Extend
<1>3. NextDue \in Tensors /\ Birth(NextDue) = node /\ size \in Nat \ {0} /\ end \in Nat
  BY <1>1, <1>2, NextDueFacts, BirthFacts DEF TypeInv, GoodPlan
<1>4. PICK at \in Nat : at = end
  BY <1>3
<1>5. PICK e \in Nat : e = end + size /\ end <= e /\ at + size <= e
  BY <1>3, <1>4
<1>6. /\ FreeList(blocks) /\ blocks \in Seq(Blocks)
      /\ \A j \in DOMAIN blocks : BlockEnd(blocks[j]) <= end /\ BlockEnd(blocks[j]) \in Nat
  BY <1>2, ListFacts DEF FreeInv, FreeList
<1>7. /\ FreeList(blocks') /\ \A j \in DOMAIN blocks' : BlockEnd(blocks'[j]) <= e
      /\ \A x \in Nat : Free(blocks', x) => Free(blocks, x) /\ ~(at <= x /\ x < at + size)
  <2>1. blocks' = blocks
    BY <1>2
  <2>2. \A j \in DOMAIN blocks : BlockEnd(blocks[j]) <= e
    BY <1>3, <1>5, <1>6
  <2>3. \A x \in Nat : Free(blocks, x) => x < end
    BY <1>3, <1>6, ListFacts DEF Free
  <2> QED
    BY <1>3, <1>4, <1>6, <2>1, <2>2, <2>3
<1>8. \A t \in live : \A x \in Lines(t) : ~(at <= x /\ x < at + size)
  <2>1. SUFFICES ASSUME NEW t \in live, NEW x \in Lines(t), at <= x, x < at + size PROVE FALSE
    OBVIOUS
  <2>2. offset[t] \in Nat /\ graph.size[t] \in Nat /\ offset[t] + graph.size[t] <= end
    BY <1>2, PlacedFacts DEF LiveInv
  <2> QED
    BY <1>4, <2>1, <2>2 DEF Lines
<1>9. ASSUME NEW n \in Nodes, ~build.planner_v2, FusedAt(n), Source(n) # 0,
             NextDue = Out(n + 4)
      PROVE  \/ at <= offset[Source(n)]
             \/ offset[Source(n)] + graph.size[Source(n)] <= at
             \/ at + size <= offset[Source(n)]
  <2>1. PICK X : X = Source(n)
    OBVIOUS
  <2>2. X \in Tensors /\ Birth(X) < n /\ n + 4 = node /\ n \in Nat /\ Birth(X) \in Nat
    BY <1>2, <1>3, <1>9, <2>1, PassFacts
  <2>3. offset[X] # NoOffset
    <3>1. X \in Planned /\ Birth(X) < node
      BY <1>2, <1>9, <2>2, SkippedFacts, BuildAssumption DEF Planned
    <3> QED
      BY <1>2, <3>1 DEF LiveInv
  <2> QED
    BY <1>2, <1>4, <2>1, <2>2, <2>3, PlacedFacts
<1> QED
  BY <1>1, <1>2, <1>4, <1>5, <1>7, <1>8, <1>9, PlaceStep

(* A tensor's range returns to the free list when its life is over. *)
LEMMA V1ExpireStep == IInv /\ Static /\ V1Expire => IInv'
<1> SUFFICES ASSUME IInv, Static, V1Expire PROVE IInv'
  OBVIOUS
<1>1. PICK t \in Expired :
        /\ blocks' = AddFreeBlock(blocks, [offset |-> offset[t], size |-> graph.size[t]])
        /\ live' = live \ {t}
  BY DEF V1Expire
<1>2. /\ TypeInv /\ LiveInv /\ FreeInv /\ (~build.planner_v2 => SourceFreed) /\ PassForward
      /\ V2Inv /\ RunInv
      /\ graph \in Graphs /\ node \in Nodes /\ pc = "v1" /\ pc' = pc /\ node' = node
      /\ offset' = offset /\ end' = end /\ candidate' = candidate /\ line' = line
  BY DEF IInv, V1Inv, TypeInv, V1Expire
<1>3. /\ t \in live /\ t \in Tensors /\ offset[t] # NoOffset /\ LastUse(t) < node
      /\ offset[t] \in Nat /\ graph.size[t] \in Nat \ {0} /\ offset[t] + graph.size[t] <= end
  BY <1>1, <1>2, PlacedFacts DEF Expired, LiveInv
<1>4. PICK b \in Blocks : b = [offset |-> offset[t], size |-> graph.size[t]]
  BY <1>3 DEF Blocks
<1>5. b.offset = offset[t] /\ BlockEnd(b) = offset[t] + graph.size[t]
  BY <1>4 DEF BlockEnd
<1>6. \A x \in Nat : x \in Lines(t) <=> b.offset <= x /\ x < BlockEnd(b)
  BY <1>3, <1>5 DEF Lines
<1>7. /\ FreeList(blocks) /\ \A i \in DOMAIN blocks : BlockEnd(blocks[i]) <= end
      /\ \A x \in Nat : b.offset <= x /\ x < BlockEnd(b) => ~Free(blocks, x)
      /\ end \in Nat /\ BlockEnd(b) <= end
  BY <1>2, <1>3, <1>5, <1>6 DEF FreeInv, TypeInv, GoodPlan
<1>8. /\ FreeList(blocks') /\ \A i \in DOMAIN blocks' : BlockEnd(blocks'[i]) <= end
      /\ \A x \in Nat : Free(blocks', x) <=> Free(blocks, x) \/ x \in Lines(t)
  BY <1>1, <1>4, <1>6, <1>7, Freed
<1>9. \A u \in live : u \in Tensors /\ offset[u] \in Nat /\ graph.size[u] \in Nat \ {0}
  BY <1>2, PlacedFacts DEF LiveInv
<1>10. \A u : Lines(u)' = Lines(u)
  BY <1>2 DEF Lines, Static
<1>11. TypeInv'
  BY <1>2, TypeKept DEF TypeInv
<1>12. LiveInv'
  <2>1. (\A u \in live : u \in Tensors /\ offset[u] # NoOffset)'
    BY <1>1, <1>2, Same DEF LiveInv, NoOffset
  <2>2. (\A u \in Tensors : offset[u] # NoOffset =>
           Birth(u) <= node /\ (LastUse(u) >= node => u \in live))'
    <3>1. SUFFICES ASSUME NEW u \in Tensors, offset[u] # NoOffset
                   PROVE  Birth(u) <= node /\ (LastUse(u) >= node => u \in live')
      BY <1>2, Same
    <3>2. LastUse(t) \in Nat /\ node \in Nat
      BY <1>2, <1>3, LastUseFacts, NodeFacts
    <3> QED
      BY <1>1, <1>2, <1>3, <3>1, <3>2 DEF LiveInv
  <2>3. (\A u \in Planned : Birth(u) < node => offset[u] # NoOffset)'
    BY <1>2, Same DEF LiveInv
  <2>4. (\A u, w \in live : u # w => Separate(u, w))'
    BY <1>1, <1>2 DEF LiveInv, Separate, SeparateBy, Static
  <2> QED
    BY <2>1, <2>2, <2>3, <2>4 DEF LiveInv
<1>13. FreeInv'
  <2>1. FreeList(blocks)'
    BY <1>8 DEF FreeList, Ordered, Gaps, BlockEnd
  <2>2. (\A i \in DOMAIN blocks : BlockEnd(blocks[i]) <= end)'
    BY <1>2, <1>8 DEF BlockEnd
  <2>3. \A x : Free(blocks, x)' <=> Free(blocks', x)
    BY DEF Free, BlockEnd
  <2>4. ASSUME NEW u \in live', NEW x \in Nat, Free(blocks', x)
        PROVE  x \notin Lines(u)
    <3>1. u \in live /\ u # t
      BY <1>1
    <3>2. CASE Free(blocks, x)
      BY <1>2, <3>1, <3>2 DEF FreeInv
    <3>3. CASE x \in Lines(t)
      <4>1. \/ offset[u] + graph.size[u] <= offset[t]
            \/ offset[t] + graph.size[t] <= offset[u]
        BY <1>2, <1>3, <3>1 DEF LiveInv, Separate, SeparateBy
      <4> QED
        BY <1>3, <1>9, <3>1, <3>3, <4>1 DEF Lines
    <3> QED
      BY <1>8, <2>4, <3>2, <3>3
  <2> QED
    BY <1>10, <2>1, <2>2, <2>3, <2>4 DEF FreeInv
<1>14. ~build.planner_v2 => SourceFreed'
  <2>1. SUFFICES ASSUME ~build.planner_v2, NEW n \in Nodes, FusedAt(n), Source(n) # 0, node = n + 4,
                        Source(n) \notin live', offset[Out(n + 4)] = NoOffset,
                        NEW x \in Lines(Source(n))
                 PROVE  Free(blocks', x)
    <3>1. \A y : Free(blocks, y)' <=> Free(blocks', y)
      BY DEF Free, BlockEnd
    <3>2. \A n : FusedAt(n) /\ Source(n) # 0 /\ offset[Out(n + 4)] = NoOffset
            <=> (FusedAt(n) /\ Source(n) # 0 /\ offset[Out(n + 4)] = NoOffset)'
      BY <1>2, Same DEF NoOffset
    <3>3. \A n : Lines(Source(n))' = Lines(Source(n)) /\ Source(n)' = Source(n)
      BY <1>2, Same DEF Lines, Static
    <3> QED
      BY <1>2, <3>1, <3>2, <3>3, Same DEF SourceFreed
  <2>2. CASE Source(n) = t
    <3>1. x \in Nat
      BY <1>2, <1>3, <2>1, <2>2, PlacedFacts
    <3> QED
      BY <1>8, <2>1, <2>2, <3>1
  <2>3. CASE Source(n) # t
    <3>1. Source(n) \notin live
      BY <1>1, <2>1, <2>3
    <3>2. Free(blocks, x)
      BY <1>2, <2>1, <3>1 DEF SourceFreed
    <3>3. x \in Nat
      <4>1. \A i \in DOMAIN blocks : blocks[i].offset \in Nat /\ BlockEnd(blocks[i]) \in Nat
        BY <1>7, ListFacts DEF FreeList
      <4>2. offset[Source(n)] # NoOffset => x \in Nat
        BY <1>2, <2>1, PassFacts, PlacedFacts
      <4>3. x \in Int
        BY DEF Lines
      <4> QED
        BY <3>2, <4>1, <4>3 DEF Free
    <3> QED
      BY <1>8, <3>2, <3>3
  <2> QED
    BY <2>2, <2>3
<1>15. PassForward'
  BY <1>2, Same DEF PassForward, Separate, SeparateBy, Static, NoOffset
<1>16. V1Inv'
  BY <1>12, <1>13, <1>14 DEF V1Inv, Static
<1>17. V2Inv' /\ RunInv'
  BY <1>2 DEF V2Inv, RunInv
<1> QED
  BY <1>11, <1>15, <1>16, <1>17 DEF IInv

LEMMA V1NextNodeStep == IInv /\ Static /\ V1NextNode => IInv'
<1> SUFFICES ASSUME IInv, Static, V1NextNode PROVE IInv'
  OBVIOUS
<1>1. /\ TypeInv /\ LiveInv /\ FreeInv /\ PassForward /\ V2Inv /\ RunInv
      /\ graph \in Graphs /\ build \in Builds /\ node \in Nodes /\ Expired = {} /\ Due = {}
      /\ pc = "v1" /\ pc' = pc /\ node' = node + 1 /\ offset' = offset /\ live' = live
      /\ blocks' = blocks /\ end' = end /\ candidate' = candidate /\ line' = line
  BY DEF IInv, V1Inv, TypeInv, V1NextNode, planning
<1>2. /\ node \in Nat /\ node' \in 1 .. Len(graph.nodes) + 1
      /\ \A t \in Tensors : Birth(t) \in Nat /\ LastUse(t) \in Nat
  BY <1>1, NodeFacts, BirthFacts, LastUseFacts
<1>3. TypeInv'
  BY <1>1, <1>2, TypeKept DEF TypeInv
<1>4. ASSUME NEW t \in Planned, Birth(t) <= node
      PROVE  offset[t] # NoOffset
  <2>1. t \in Tensors /\ ~Skipped(t)
    BY DEF Planned
  <2>2. CASE Birth(t) < node
    BY <1>1, <2>2 DEF LiveInv
  <2>3. CASE Birth(t) = node
    <3>1. t \in ToSet(Outs)
      BY <1>1, <2>1, <2>3, BirthFacts DEF Outs
    <3>2. PICK j \in DOMAIN Outs : t = Outs[j]
      BY <3>1 DEF ToSet
    <3> QED
      BY <1>1, <2>1, <3>2 DEF Due
  <2> QED
    BY <1>2, <1>4, <2>1, <2>2, <2>3
<1>5. LiveInv'
  <2>1. (\A t \in live : t \in Tensors /\ offset[t] # NoOffset)'
    BY <1>1, Same DEF LiveInv, NoOffset
  <2>2. (\A t \in Tensors : offset[t] # NoOffset =>
           Birth(t) <= node /\ (LastUse(t) >= node => t \in live))'
    <3>1. SUFFICES ASSUME NEW t \in Tensors, offset[t] # NoOffset
                   PROVE  Birth(t) <= node + 1 /\ (LastUse(t) >= node + 1 => t \in live)
      BY <1>1, Same
    <3>2. Birth(t) <= node /\ (LastUse(t) >= node => t \in live)
      BY <1>1, <3>1 DEF LiveInv
    <3> QED
      BY <1>2, <3>2
  <2>3. (\A t \in Planned : Birth(t) < node => offset[t] # NoOffset)'
    <3>1. SUFFICES ASSUME NEW t \in Planned, Birth(t) < node + 1 PROVE offset[t] # NoOffset
      BY <1>1, Same
    <3>2. Birth(t) <= node
      BY <1>2, <3>1 DEF Planned
    <3> QED
      BY <1>4, <3>2
  <2>4. (\A t, u \in live : t # u => Separate(t, u))'
    BY <1>1 DEF LiveInv, Separate, SeparateBy, Static
  <2> QED
    BY <2>1, <2>2, <2>3, <2>4 DEF LiveInv
<1>6. FreeInv'
  BY <1>1 DEF FreeInv, FreeList, Ordered, Gaps, BlockEnd, Free, Lines, Static
<1>7. ~build.planner_v2 => SourceFreed'
  <2>1. SUFFICES ASSUME ~build.planner_v2, NEW n \in Nodes, FusedAt(n), Source(n) # 0,
                        node + 1 = n + 4, Source(n) \notin live
                 PROVE  FALSE
    <3>1. \A n : FusedAt(n) /\ Source(n) # 0 /\ Source(n) \notin live
            <=> (FusedAt(n) /\ Source(n) # 0 /\ Source(n) \notin live)'
      BY <1>1, Same
    <3> QED
      BY <1>1, <3>1, Same DEF SourceFreed
  <2>2. /\ n \in Nat /\ Source(n) \in Tensors /\ Birth(Source(n)) < n
        /\ Birth(Source(n)) \in Nat /\ n + 3 <= LastUse(Source(n)) /\ node = n + 3
    BY <1>1, <1>2, <2>1, PassFacts
  <2>3. Source(n) \in Planned
    BY <1>1, <2>1, <2>2, SkippedFacts, BuildAssumption DEF Planned
  <2>4. offset[Source(n)] # NoOffset
    BY <1>4, <2>2, <2>3
  <2> QED
    BY <1>1, <1>2, <2>1, <2>2, <2>4 DEF LiveInv
<1>8. PassForward'
  BY <1>1, Same DEF PassForward, Separate, SeparateBy, Static, NoOffset
<1>9. V1Inv'
  BY <1>5, <1>6, <1>7 DEF V1Inv, Static
<1>10. V2Inv' /\ RunInv'
  BY <1>1 DEF V2Inv, RunInv
<1> QED
  BY <1>3, <1>8, <1>9, <1>10 DEF IInv

(* A session starts with nothing in its workspace, and nothing that its    *)
(* first node reads was computed.                                          *)
LEMMA AcceptStep ==
  ASSUME IInv, Static, pc # "run", NEW e, Accept(e), end' = e, GoodPlan(offset', e),
         Complete(offset'), PassForward', line' = line, candidate' = candidate
  PROVE  IInv'
<1>1. /\ TypeInv /\ line = 0 /\ graph \in Graphs /\ pc' = "run" /\ node' = 1
      /\ memory' = [at \in 0 .. e - 1 |-> Garbage] /\ line' = 0
  BY DEF IInv, TypeInv, RunInv, Accept
<1>2. Len(graph.nodes) \in Nat /\ Nodes = 1 .. Len(graph.nodes)
  BY <1>1, NodeFacts
<1>3. TypeInv'
  BY <1>1, <1>2, TypeKept DEF TypeInv
<1>4. V1Inv' /\ V2Inv'
  <2>1. Complete(offset)'
    BY Same DEF Complete, NoOffset
  <2> QED
    BY <1>1, <2>1 DEF V1Inv, V2Inv
<1>5. \A t \in Tensors : ~(Birth(t) < 1)
  BY <1>1, <1>2, BirthFacts
<1>6. (DOMAIN memory = 0 .. end - 1)'
  BY <1>1
<1>7. Outside'
  <2>1. \A n \in Nodes : 1 \notin n + 1 .. n + 4
    BY <1>2
  <2> QED
    BY <1>1, <2>1, Same DEF Outside
<1>8. AliveIntact(node)' /\ AliveIntact(node + 5)'
  BY <1>1, <1>5, Same DEF AliveIntact
<1>9. Fusing' => PassInv'
  <2>1. SUFFICES ASSUME 1 \in Nodes, FusedAt(1) PROVE PassInv'
    BY <1>1, Same DEF Fusing
  <2>2. Source(1) = 0 /\ graph.size[Out(1 + 4)] \in Nat
    BY <1>1, <1>5, <2>1, PassFacts
  <2>3. (line <= graph.size[Out(node + 4)])'
    BY <1>1, <2>2, Same DEF Static
  <2>4. (\A l \in line .. graph.size[Source(node)] - 1 : Holds(Source(node), l))'
    BY <1>1, <2>2, Same DEF Holds
  <2>5. (\A l \in 0 .. line - 1 : Holds(Out(node + 4), l))'
    BY <1>1
  <2> QED
    BY <1>8, <2>3, <2>4, <2>5 DEF PassInv
<1>10. RunInv'
  BY <1>1, <1>6, <1>7, <1>8, <1>9 DEF RunInv
<1> QED
  BY <1>3, <1>4, <1>10 DEF IInv

LEMMA StartV2Step ==
  ASSUME IInv, Static, pc = "v1", build.planner_v2, NEW ok, StartV2(ok),
         ok => Complete(offset), line' = line
  PROVE  IInv'
<1>1. /\ TypeInv /\ line' = 0 /\ graph \in Graphs /\ pc' = "v2" /\ node' = node
      /\ v1' = [ok |-> ok, end |-> IF ok THEN end ELSE 0, offset |-> offset]
      /\ offset' = [t \in Tensors |-> NoOffset] /\ end' = 0 /\ candidate' = 0
  BY DEF IInv, TypeInv, RunInv, StartV2
<1>2. GoodPlan(offset', end')
  BY <1>1 DEF GoodPlan, Fitting, Disjoint, NoOffset
<1>3. TypeInv'
  BY <1>1, <1>2, TypeKept DEF TypeInv
<1>4. V1Inv' /\ PassForward'
  BY <1>1 DEF V1Inv, PassForward, Static
<1>5. V2Inv'
  <2>1. SUFFICES ASSUME ok PROVE (GoodPlan(v1.offset, v1.end) /\ Complete(v1.offset))'
    BY <1>1 DEF V2Inv, Static
  <2>2. v1'.offset = offset /\ v1'.end = end
    BY <1>1, <2>1
  <2>3. GoodPlan(offset, end) /\ Complete(offset)
    BY <1>1, <2>1 DEF TypeInv
  <2>4. GoodPlan(v1.offset, v1.end)'
    BY <2>2, <2>3, Same DEF GoodPlan, Fitting, Disjoint, SeparateBy, NoOffset, Static
  <2>5. Complete(v1.offset)'
    BY <2>2, <2>3, Same DEF Complete, NoOffset
  <2> QED
    BY <2>4, <2>5
<1>6. RunInv'
  BY <1>1 DEF RunInv
<1> QED
  BY <1>3, <1>4, <1>5, <1>6 DEF IInv

LEMMA FailStep ==
  ASSUME IInv, Static, pc \in {"v1", "choose"}, pc' = "failed",
         UNCHANGED <<node, offset, end, candidate, line>>
  PROVE  IInv'
<1>1. TypeInv'
  BY TypeKept DEF IInv, TypeInv
<1>2. PassForward'
  BY Same DEF IInv, PassForward, Separate, SeparateBy, Static, NoOffset
<1>3. V1Inv' /\ V2Inv' /\ RunInv'
  BY DEF IInv, V1Inv, V2Inv, RunInv
<1> QED
  BY <1>1, <1>2, <1>3 DEF IInv

LEMMA V1EndSteps == IInv /\ Static /\ (V1Done \/ V1Fails) => IInv'
<1> SUFFICES ASSUME IInv, Static, V1Done \/ V1Fails PROVE IInv'
  OBVIOUS
<1>1. /\ TypeInv /\ LiveInv /\ PassForward /\ graph \in Graphs /\ pc = "v1" /\ line' = line
      /\ GoodPlan(offset, end)
  BY DEF IInv, V1Inv, TypeInv, V1Done, V1Fails
<1>2. CASE V1Done
  <2>1. Complete(offset)
    <3>1. SUFFICES ASSUME NEW t \in Planned PROVE Birth(t) < node
      BY <1>1 DEF Complete, LiveInv
    <3>2. /\ node \notin Nodes /\ node \in 1 .. Len(graph.nodes) + 1
          /\ Birth(t) \in Nodes
      BY <1>1, <1>2, BirthFacts DEF V1Done, TypeInv, Planned
    <3> QED
      BY <1>1, <3>2, NodeFacts
  <2>2. CASE ~build.planner_v2 /\ Accept(end) /\ UNCHANGED planning
    <3>1. offset' = offset /\ end' = end /\ candidate' = candidate
      BY <2>2 DEF planning
    <3>2. PassForward'
      BY <1>1, <3>1, Same DEF PassForward, Separate, SeparateBy, Static, NoOffset
    <3> QED
      BY <1>1, <2>1, <2>2, <3>1, <3>2, AcceptStep
  <2>3. CASE build.planner_v2 /\ StartV2(TRUE)
    BY <1>1, <2>1, <2>3, StartV2Step
  <2> QED
    BY <1>2, <2>2, <2>3 DEF V1Done
<1>3. CASE V1Fails
  <2>1. CASE ~build.planner_v2 /\ pc' = "failed" /\ UNCHANGED <<node, memory, planning>>
    BY <1>1, <2>1, FailStep DEF planning
  <2>2. CASE build.planner_v2 /\ StartV2(FALSE)
    BY <1>1, <2>2, StartV2Step
  <2> QED
    BY <1>3, <2>1, <2>2 DEF V1Fails
<1> QED
  BY <1>2, <1>3

-----------------------------------------------------------------------------
(* The planner by size and the choice between the plans                    *)

LEMMA RememberedKept ==
  ASSUME Static, v1' = v1, GoodPlan(v1.offset, v1.end), Complete(v1.offset)
  PROVE  (GoodPlan(v1.offset, v1.end) /\ Complete(v1.offset))'
<1>1. GoodPlan(v1.offset, v1.end)'
  BY Same DEF GoodPlan, Fitting, Disjoint, SeparateBy, NoOffset, Static
<1>2. Complete(v1.offset)'
  BY Same DEF Complete, NoOffset
<1> QED
  BY <1>1, <1>2

LEMMA V2MoveStep == IInv /\ Static /\ V2Move => IInv'
<1> SUFFICES ASSUME IInv, Static, V2Move PROVE IInv'
  OBVIOUS
<1>1. /\ TypeInv /\ V2Inv /\ RunInv /\ graph \in Graphs /\ pc = "v2" /\ build.planner_v2
      /\ pc' = pc /\ node' = node /\ offset' = offset /\ end' = end /\ v1' = v1 /\ line' = line
  BY DEF IInv, TypeInv, V2Inv, V2Move
<1>2. PICK hit : /\ hit = Collides(FirstOf(Unplaced), candidate) /\ hit # {}
                 /\ candidate' = offset[FirstOf(hit)] + graph.size[FirstOf(hit)]
  BY DEF V2Move
<1>3. \A u \in hit : u \in Tensors /\ offset[u] # NoOffset
  BY <1>2 DEF Collides, Planned, Unplaced
<1>4. FirstOf(hit) \in Tensors /\ offset[FirstOf(hit)] # NoOffset
  BY <1>1, <1>2, <1>3, FirstIs
<1>5. candidate' \in Nat
  <2>1. offset[FirstOf(hit)] \in Nat /\ graph.size[FirstOf(hit)] \in Nat
    BY <1>1, <1>4, PlacedFacts
  <2> QED
    BY <1>2, <2>1
<1>6. TypeInv'
  BY <1>1, <1>5, TypeKept DEF TypeInv
<1>7. V2Inv'
  BY <1>1, RememberedKept DEF V2Inv, Static
<1>8. V1Inv' /\ PassForward' /\ RunInv'
  BY <1>1 DEF V1Inv, PassForward, RunInv, Static
<1> QED
  BY <1>6, <1>7, <1>8 DEF IInv

LEMMA V2PlaceStep == IInv /\ Static /\ V2Place => IInv'
<1> SUFFICES ASSUME IInv, Static, V2Place PROVE IInv'
  OBVIOUS
<1>1. /\ TypeInv /\ V2Inv /\ RunInv /\ graph \in Graphs /\ pc = "v2" /\ build.planner_v2
      /\ pc' = pc /\ node' = node /\ v1' = v1 /\ line' = line /\ candidate' = 0
      /\ Unplaced # {} /\ candidate \in Nat /\ end \in Nat
      /\ offset \in [Tensors -> Int]
  BY DEF IInv, TypeInv, GoodPlan, V2Inv, V2Place
<1>2. PICK t : /\ t = FirstOf(Unplaced) /\ Collides(t, candidate) = {}
               /\ offset' = [offset EXCEPT ![t] = candidate]
               /\ end' = LargestOf({end, candidate + graph.size[t]})
  BY DEF V2Place
<1>3. t \in Unplaced
  BY <1>1, <1>2, FirstIs DEF Unplaced, Planned
<1>4. /\ t \in Tensors /\ ~Skipped(t) /\ offset[t] = NoOffset
      /\ graph.size[t] \in Nat \ {0}
  BY <1>1, <1>3, BirthFacts DEF Unplaced, Planned
<1>5. /\ offset' \in [Tensors -> Int] /\ offset'[t] = candidate
      /\ \A u \in Tensors : u # t => offset'[u] = offset[u]
  BY <1>1, <1>2, <1>4
<1>6. end' \in Nat /\ end <= end' /\ candidate + graph.size[t] <= end'
  <2> DEFINE S == {end, candidate + graph.size[t]}
  <2>1. S \subseteq Nat /\ S # {} /\ \A x \in S : x <= end + (candidate + graph.size[t])
    BY <1>1, <1>4
  <2>2. end + (candidate + graph.size[t]) \in Nat
    BY <1>1, <1>4
  <2> HIDE DEF S
  <2>3. LargestOf(S) \in S /\ \A y \in S : LargestOf(S) >= y
    BY <2>1, <2>2, LargestIs
  <2>4. LargestOf(S) \in Nat
    BY <2>1, <2>3
  <2>5. end \in S /\ candidate + graph.size[t] \in S
    BY DEF S
  <2>6. LargestOf(S) >= end /\ LargestOf(S) >= candidate + graph.size[t]
    BY <2>3, <2>5
  <2> QED
    BY <1>1, <1>2, <1>4, <2>4, <2>6 DEF S
<1>7. ASSUME NEW u \in Tensors, u # t, offset[u] # NoOffset
      PROVE  /\ ~Skipped(u) /\ offset[u] \in Nat /\ graph.size[u] \in Nat
             /\ offset[u] + graph.size[u] <= end
             /\ LifetimesOverlap(t, u) =>
                  \/ offset[u] + graph.size[u] <= candidate
                  \/ candidate + graph.size[t] <= offset[u]
  <2>1. /\ ~Skipped(u) /\ offset[u] \in Nat /\ graph.size[u] \in Nat
        /\ offset[u] + graph.size[u] <= end
    BY <1>1, <1>7, PlacedFacts
  <2>2. u \in Planned \ Unplaced
    BY <1>7, <2>1 DEF Planned, Unplaced
  <2>3. u \notin Collides(t, candidate)
    BY <1>2
  <2> QED
    BY <1>1, <1>4, <2>1, <2>2, <2>3 DEF Collides
<1>8. Fitting(offset', end')
  <2>1. SUFFICES ASSUME NEW u \in Tensors, offset'[u] # NoOffset
                 PROVE  ~Skipped(u) /\ offset'[u] \in Nat /\ offset'[u] + graph.size[u] <= end'
    BY DEF Fitting
  <2>2. CASE u = t
    BY <1>1, <1>4, <1>5, <1>6, <2>2
  <2>3. CASE u # t
    BY <1>1, <1>5, <1>6, <1>7, <2>1, <2>3
  <2> QED
    BY <2>2, <2>3
<1>9. Disjoint(offset')
  <2>1. SUFFICES ASSUME NEW u \in Tensors, NEW w \in Tensors, u # w,
                        offset'[u] # NoOffset, offset'[w] # NoOffset, LifetimesOverlap(u, w)
                 PROVE  SeparateBy(offset', u, w)
    BY DEF Disjoint
  <2>2. CASE u = t
    BY <1>5, <1>7, <2>1, <2>2 DEF SeparateBy
  <2>3. CASE w = t
    <3>1. LifetimesOverlap(t, u)
      BY <2>1, <2>3 DEF LifetimesOverlap
    <3> QED
      BY <1>5, <1>7, <2>1, <2>3, <3>1 DEF SeparateBy
  <2>4. CASE u # t /\ w # t
    <3>1. offset'[u] = offset[u] /\ offset'[w] = offset[w]
      BY <1>5, <2>4
    <3> QED
      BY <1>1, <2>1, <3>1 DEF TypeInv, GoodPlan, Disjoint, SeparateBy
  <2> QED
    BY <2>2, <2>3, <2>4
<1>10. TypeInv'
  <2>1. GoodPlan(offset', end')
    BY <1>5, <1>6, <1>8, <1>9 DEF GoodPlan
  <2> QED
    BY <1>1, <2>1, TypeKept DEF TypeInv
<1>11. V2Inv'
  BY <1>1, RememberedKept DEF V2Inv, Static
<1>12. V1Inv' /\ PassForward' /\ RunInv'
  BY <1>1 DEF V1Inv, PassForward, RunInv, Static
<1> QED
  BY <1>10, <1>11, <1>12 DEF IInv

LEMMA V2DoneStep == IInv /\ Static /\ V2Done => IInv'
<1> SUFFICES ASSUME IInv, Static, V2Done PROVE IInv'
  OBVIOUS
<1>1. /\ TypeInv /\ V2Inv /\ RunInv /\ pc = "v2" /\ build.planner_v2 /\ Unplaced = {}
      /\ pc' = "choose" /\ node' = node /\ v1' = v1 /\ line' = line /\ candidate' = candidate
      /\ offset' = offset /\ end' = end
  BY DEF IInv, V2Inv, V2Done, planning
<1>2. TypeInv'
  BY <1>1, TypeKept DEF TypeInv
<1>3. V2Inv'
  <2>1. Complete(offset)'
    BY <1>1, Same DEF Unplaced, Complete, NoOffset
  <2> QED
    BY <1>1, <2>1, RememberedKept DEF V2Inv, Static
<1>4. V1Inv' /\ PassForward' /\ RunInv'
  BY <1>1 DEF V1Inv, PassForward, RunInv, Static
<1> QED
  BY <1>2, <1>3, <1>4 DEF IInv

LEMMA ChooseSteps == IInv /\ Static /\ (KeepV2 \/ RestoreV1 \/ NeitherFits) => IInv'
<1> SUFFICES ASSUME IInv, Static, KeepV2 \/ RestoreV1 \/ NeitherFits PROVE IInv'
  OBVIOUS
<1>1. /\ TypeInv /\ V2Inv /\ pc = "choose" /\ build.planner_v2 /\ Complete(offset)
      /\ GoodPlan(offset, end) /\ line' = line /\ candidate' = candidate
      /\ v1.ok => GoodPlan(v1.offset, v1.end) /\ Complete(v1.offset)
  BY DEF IInv, TypeInv, V2Inv, KeepV2, RestoreV1, NeitherFits, planning
<1>2. PassForward'
  BY <1>1 DEF PassForward, Static
<1>3. CASE KeepV2
  <2>1. offset' = offset /\ end' = end /\ Accept(end)
    BY <1>3 DEF KeepV2, planning
  <2> QED
    BY <1>1, <1>2, <2>1, AcceptStep
<1>4. CASE RestoreV1
  <2>1. offset' = v1.offset /\ end' = v1.end /\ Accept(v1.end) /\ v1.ok
    BY <1>4 DEF RestoreV1
  <2> QED
    BY <1>1, <1>2, <2>1, AcceptStep
<1>5. CASE NeitherFits
  BY <1>1, <1>5, FailStep DEF NeitherFits, planning
<1> QED
  BY <1>3, <1>4, <1>5

-----------------------------------------------------------------------------
(* The run                                                                 *)

(* A pass finds its input as the nodes before left it. *)
LEMMA PassBegins ==
  graph \in Graphs /\ Fusing /\ line = 0 /\ AliveIntact(node) => PassInv
<1> SUFFICES ASSUME graph \in Graphs, Fusing, line = 0, AliveIntact(node) PROVE PassInv
  OBVIOUS
<1>1. /\ node \in Nodes /\ FusedAt(node) /\ node \in Nat
      /\ graph.size[Out(node + 4)] \in Nat
      /\ Source(node) # 0 =>
           /\ Source(node) \in Tensors /\ Birth(Source(node)) < node
           /\ node + 3 <= LastUse(Source(node))
  BY PassFacts DEF Fusing
<1>2. \A t \in Tensors : LastUse(t) \in Nat
  BY LastUseFacts
<1>3. AliveIntact(node + 5)
  BY <1>1, <1>2 DEF AliveIntact
<1>4. \A l \in 0 .. graph.size[Source(node)] - 1 : Holds(Source(node), l)
  <2>1. Intact(Source(node))
    <3>1. CASE Source(node) = 0
      BY <3>1 DEF Intact
    <3>2. CASE Source(node) # 0
      BY <1>1, <1>2, <3>2 DEF AliveIntact
    <3> QED
      BY <3>1, <3>2
  <2> QED
    BY <2>1 DEF Intact, Holds
<1> QED
  BY <1>1, <1>3, <1>4 DEF PassInv

(* In a plan that a session runs with, every tensor that is not elided has *)
(* its lines in the workspace.                                             *)
LEMMA RunFacts ==
  ASSUME IInv, pc = "run"
  PROVE  /\ graph \in Graphs /\ build \in Builds
         /\ DOMAIN memory = 0 .. end - 1 /\ end \in Nat
         /\ \A t \in Tensors : ~Skipped(t) =>
              /\ offset[t] # NoOffset /\ offset[t] \in Nat
              /\ graph.size[t] \in Nat \ {0} /\ offset[t] + graph.size[t] <= end
         /\ \A t, u \in Tensors :
              t # u /\ ~Skipped(t) /\ ~Skipped(u) /\ LifetimesOverlap(t, u) => Separate(t, u)
<1>1. TypeInv /\ Complete(offset) /\ DOMAIN memory = 0 .. end - 1
  BY DEF IInv, V2Inv, RunInv
<1>2. \A t \in Tensors : ~Skipped(t) => offset[t] # NoOffset
  BY <1>1 DEF Complete, Planned
<1> QED
  BY <1>1, <1>2, PlacedFacts DEF TypeInv, GoodPlan, Disjoint, Separate

LEMMA RunNodeStep == IInv /\ Static /\ RunNode => IInv'
<1> SUFFICES ASSUME IInv, Static, RunNode PROVE IInv'
  OBVIOUS
<1>1. /\ TypeInv /\ PassForward /\ V2Inv /\ Complete(offset) /\ Outside /\ line = 0
      /\ PassIsSafe => AliveIntact(node)
      /\ graph \in Graphs /\ node \in Nodes /\ ~FusedAt(node) /\ pc = "run" /\ pc' = pc
      /\ node' = node + 1 /\ line' = line /\ offset' = offset /\ end' = end
      /\ candidate' = candidate /\ v1' = v1
  BY DEF IInv, TypeInv, V2Inv, RunInv, Fusing, RunNode, planning
<1>2. /\ node \in Nat /\ node' \in 1 .. Len(graph.nodes) + 1 /\ Nodes = 1 .. Len(graph.nodes)
      /\ \A t \in Tensors : Birth(t) \in Nat /\ LastUse(t) \in Nat /\ Birth(t) <= LastUse(t)
  BY <1>1, NodeFacts, BirthFacts, LastUseFacts
<1>3. TypeInv'
  BY <1>1, <1>2, TypeKept DEF TypeInv
<1>4. Outside'
  <2>1. SUFFICES ASSUME NEW n \in Nodes, FusedAt(n) PROVE node + 1 \notin n + 1 .. n + 4
    BY <1>1, Same DEF Outside
  <2>2. node \notin n + 1 .. n + 4 /\ node # n /\ n \in Nat
    BY <1>1, <1>2, <2>1 DEF Outside
  <2> QED
    BY <1>2, <2>2
<1> DEFINE outs == ToSet(graph.nodes[node].outs)
           at(t) == offset[t] .. offset[t] + graph.size[t] - 1
           right == \A t \in ToSet(graph.nodes[node].ins) : Intact(t)
<1>5. /\ DOMAIN memory' = DOMAIN memory
      /\ \A a \in DOMAIN memory :
           memory'[a] = IF \E t \in outs : a \in at(t)
                          THEN LET t == CHOOSE u \in outs : a \in at(u)
                               IN  IF right THEN <<t, a - offset[t]>> ELSE Garbage
                          ELSE memory[a]
  BY DEF RunNode
<1>6. ASSUME PassIsSafe
      PROVE  AliveIntact(node)'
  <2>1. right
    <3>1. SUFFICES ASSUME NEW t \in ToSet(graph.nodes[node].ins) PROVE Intact(t)
      OBVIOUS
    <3>2. t = 0 \/ (t \in Tensors /\ Birth(t) < node)
      BY <1>1, BirthFacts
    <3>3. t \in Tensors => node <= LastUse(t)
      BY <1>1, LastUseFacts DEF Reads
    <3> QED
      BY <1>1, <1>6, <3>2, <3>3 DEF AliveIntact, Intact
  <2> HIDE DEF right
  <2>2. \A t \in Tensors : ~Skipped(t)
    BY <1>6, NothingSkipped, RunFacts, <1>1
  <2>3. /\ \A t \in Tensors : /\ offset[t] \in Nat /\ graph.size[t] \in Nat \ {0}
                              /\ offset[t] + graph.size[t] <= end
        /\ \A t, u \in Tensors : t # u /\ LifetimesOverlap(t, u) => Separate(t, u)
        /\ DOMAIN memory = 0 .. end - 1 /\ end \in Nat
    BY <1>1, <2>2, RunFacts
  <2>4. \A u \in outs : u \in Tensors /\ Birth(u) = node
    BY <1>1, BirthFacts
  <2> HIDE DEF outs
  <2>5. ASSUME NEW t \in Tensors, Birth(t) <= node, node <= LastUse(t),
               NEW l \in 0 .. graph.size[t] - 1, NEW u \in outs, offset[t] + l \in at(u)
        PROVE  u = t
    <3>1. SUFFICES ASSUME u # t PROVE FALSE
      OBVIOUS
    <3>2. LifetimesOverlap(t, u)
      BY <1>2, <2>4, <2>5 DEF LifetimesOverlap
    <3>3. offset[t] + graph.size[t] <= offset[u] \/ offset[u] + graph.size[u] <= offset[t]
      BY <2>3, <2>4, <3>1, <3>2 DEF Separate, SeparateBy
    <3>4. offset[t] \in Nat /\ offset[u] \in Nat /\ graph.size[t] \in Nat /\ graph.size[u] \in Nat
      BY <2>3, <2>4
    <3> QED
      BY <2>5, <3>3, <3>4
  <2>6. SUFFICES ASSUME NEW t \in Tensors, Birth(t) < node + 1, node + 1 <= LastUse(t),
                        NEW l \in 0 .. graph.size[t] - 1
                 PROVE  memory'[offset[t] + l] = <<t, l>>
    BY <1>1, Same DEF AliveIntact, Intact, Holds, Static
  <2>7. Birth(t) <= node /\ node <= LastUse(t)
    BY <1>2, <2>6
  <2>8. PICK a \in DOMAIN memory : a = offset[t] + l
    <3>1. offset[t] \in Nat /\ graph.size[t] \in Nat /\ offset[t] + graph.size[t] <= end
      BY <2>3
    <3> QED
      BY <2>3, <3>1
  <2>9. a \in at(t) /\ a - offset[t] = l
    BY <2>3, <2>8
  <2>10. CASE Birth(t) = node
    <3>1. t \in outs
      BY <2>10, BirthFacts, <1>1 DEF outs
    <3>2. \A u \in outs : a \in at(u) <=> u = t
      BY <2>5, <2>7, <2>8, <2>9
    <3>3. (CHOOSE u \in outs : a \in at(u)) = t
      <4> HIDE DEF at
      <4> QED
        BY <3>1, <3>2
    <3>4. memory'[a] = <<t, a - offset[t]>>
      <4> HIDE DEF at
      <4> QED
        BY <1>5, <2>1, <3>1, <3>2, <3>3
    <3> QED
      BY <2>8, <2>9, <3>4
  <2>11. CASE Birth(t) < node
    <3>1. \A u \in outs : a \notin at(u)
      BY <1>2, <2>4, <2>5, <2>7, <2>8, <2>11
    <3>2. memory'[a] = memory[a]
      <4> HIDE DEF at
      <4> QED
        BY <1>5, <3>1
    <3>3. Holds(t, l) /\ t # 0
      BY <1>1, <1>6, <2>7, <2>11, BirthFacts DEF AliveIntact, Intact
    <3> QED
      BY <2>8, <3>2, <3>3 DEF Holds
  <2> QED
    BY <1>2, <2>7, <2>10, <2>11
<1>7. PassIsSafe' /\ Fusing' => PassInv'
  <2>1. (graph \in Graphs /\ Fusing /\ line = 0 /\ AliveIntact(node) => PassInv)'
    BY PassBegins, PTL
  <2> QED
    BY <1>1, <1>6, <2>1, Same DEF Static
<1>8. RunInv'
  <2>1. (DOMAIN memory = 0 .. end - 1)'
    BY <1>1, <1>5, RunFacts
  <2> QED
    BY <1>1, <1>4, <1>6, <1>7, <2>1, Same DEF RunInv
<1>9. V1Inv' /\ V2Inv'
  <2>1. Complete(offset)'
    BY <1>1, Same DEF Complete, NoOffset
  <2> QED
    BY <1>1, <2>1 DEF V1Inv, V2Inv
<1>10. PassForward'
  BY <1>1, Same DEF PassForward, Separate, SeparateBy, Static, NoOffset
<1> QED
  BY <1>3, <1>8, <1>9, <1>10 DEF IInv

(* The pass moves one line: what it overwrites is neither alive nor still  *)
(* to be read.                                                             *)
LEMMA RunFusedLineStep == IInv /\ Static /\ RunFusedLine => IInv'
<1> SUFFICES ASSUME IInv, Static, RunFusedLine PROVE IInv'
  OBVIOUS
<1>1. PICK X, Y : X = Source(node) /\ Y = Out(node + 4)
  OBVIOUS
<1>2. /\ TypeInv /\ PassForward /\ V2Inv /\ Complete(offset) /\ Outside /\ line \in Nat
      /\ graph \in Graphs /\ node \in Nodes /\ FusedAt(node) /\ Fusing /\ pc = "run" /\ pc' = pc
      /\ PassIsSafe => PassInv
      /\ node' = node /\ line' = line + 1 /\ offset' = offset /\ end' = end
      /\ candidate' = candidate /\ v1' = v1 /\ line < graph.size[Y]
      /\ memory' = [memory EXCEPT ![offset[Y] + line] =
                      IF Holds(X, line) THEN <<Y, line>> ELSE Garbage]
  BY <1>1 DEF IInv, TypeInv, V2Inv, RunInv, Fusing, RunFusedLine, planning
<1>3. TypeInv'
  BY <1>2, TypeKept DEF TypeInv
<1>4. Outside' /\ Fusing'
  BY <1>2, Same DEF Outside, Fusing
<1>5. DOMAIN memory' = 0 .. end - 1
  BY <1>2, RunFacts
<1>6. ASSUME PassIsSafe
      PROVE  PassInv'
  <2>1. ~build.planner_v2 /\ \A t \in Tensors : ~Skipped(t)
    BY <1>2, <1>6, NothingSkipped, RunFacts DEF PassIsSafe
  <2>2. /\ \A t \in Tensors : /\ offset[t] # NoOffset /\ offset[t] \in Nat
                              /\ graph.size[t] \in Nat \ {0}
                              /\ offset[t] + graph.size[t] <= end
        /\ \A t, u \in Tensors : t # u /\ LifetimesOverlap(t, u) => Separate(t, u)
        /\ DOMAIN memory = 0 .. end - 1 /\ end \in Nat
    BY <1>2, <2>1, RunFacts
  <2>3. /\ node \in Nat /\ Y \in Tensors /\ Birth(Y) = node + 4 /\ graph.size[Y] = graph.size[X]
        /\ node + 4 \in Nodes
        /\ X # 0 => X \in Tensors /\ Birth(X) < node
    BY <1>1, <1>2, PassFacts
  <2>4. /\ \A t \in Tensors : Birth(t) < node /\ node + 5 <= LastUse(t) => Intact(t)
        /\ \A l \in line .. graph.size[X] - 1 : Holds(X, l)
        /\ \A l \in 0 .. line - 1 : Holds(Y, l)
    BY <1>1, <1>2, <1>6 DEF PassInv, AliveIntact
  <2>5. Y # 0 /\ \A t \in Tensors : t # 0 /\ LastUse(t) \in Nat /\ Birth(t) \in Nat /\ Birth(t) <= LastUse(t)
    BY <1>2, <2>3, BirthFacts, LastUseFacts, NodeFacts
  <2>6. Holds(X, line)
    BY <1>2, <2>2, <2>3, <2>4
  <2>7. PICK a \in 0 .. end - 1 : a = offset[Y] + line
    <3>1. offset[Y] \in Nat /\ graph.size[Y] \in Nat /\ offset[Y] + graph.size[Y] <= end
      BY <2>2, <2>3
    <3> QED
      BY <1>2, <2>2, <3>1
  <2>8. /\ memory'[a] = <<Y, line>>
        /\ \A b \in 0 .. end - 1 : b # a => memory'[b] = memory[b]
    BY <1>2, <2>2, <2>6, <2>7
  <2>9. \A t, l : Holds(t, l)' <=> (t = 0 \/ memory'[offset[t] + l] = <<t, l>>)
    BY <1>2 DEF Holds
  <2>10. ASSUME NEW t \in Tensors, Birth(t) < node, node + 5 <= LastUse(t),
                NEW l \in 0 .. graph.size[t] - 1
         PROVE  Holds(t, l)'
    <3>1. t # Y /\ LifetimesOverlap(t, Y)
      BY <2>3, <2>5, <2>10 DEF LifetimesOverlap
    <3>2. offset[t] + graph.size[t] <= offset[Y] \/ offset[Y] + graph.size[Y] <= offset[t]
      BY <2>2, <2>3, <3>1 DEF Separate, SeparateBy
    <3>3. /\ offset[t] \in Nat /\ offset[Y] \in Nat /\ graph.size[t] \in Nat
          /\ graph.size[Y] \in Nat /\ offset[t] + graph.size[t] <= end
      BY <2>2, <2>3
    <3>4. offset[t] + l # a /\ offset[t] + l \in 0 .. end - 1
      <4>1. l \in Nat /\ l < graph.size[t] /\ line \in Nat /\ line < graph.size[Y] /\ end \in Nat
        BY <1>2, <2>2, <3>3
      <4>2. offset[t] + l # offset[Y] + line
        BY <3>2, <3>3, <4>1
      <4>3. offset[t] + l \in 0 .. end - 1
        BY <3>3, <4>1
      <4> QED
        BY <2>7, <4>2, <4>3
    <3>5. memory[offset[t] + l] = <<t, l>>
      BY <2>4, <2>5, <2>10 DEF Intact, Holds
    <3> QED
      BY <2>8, <2>9, <3>4, <3>5
  <2>11. ASSUME NEW l \in line + 1 .. graph.size[X] - 1
         PROVE  Holds(X, l)'
    <3>1. SUFFICES ASSUME X # 0 PROVE memory'[offset[X] + l] = <<X, l>>
      BY <2>9
    <3>2. /\ X \in Tensors /\ offset[X] \in Nat /\ offset[Y] \in Nat /\ graph.size[X] \in Nat
          /\ graph.size[Y] \in Nat /\ offset[X] + graph.size[X] <= end
      BY <2>2, <2>3, <3>1
    <3>3. l \in line .. graph.size[X] - 1 /\ l \in Nat
      BY <1>2, <3>2
    <3>4. memory[offset[X] + l] = <<X, l>>
      BY <2>4, <3>1, <3>3 DEF Holds
    <3>5. \/ offset[Y] <= offset[X]
          \/ offset[X] + graph.size[X] <= offset[Y] \/ offset[Y] + graph.size[Y] <= offset[X]
      BY <1>1, <1>2, <2>1, <2>2, <2>3, <3>1 DEF PassForward, Separate, SeparateBy
    <3>6. offset[X] + l # a
      BY <1>2, <2>7, <3>2, <3>3, <3>5
    <3>7. offset[X] + l \in 0 .. end - 1
      BY <2>2, <3>2, <3>3
    <3> QED
      BY <2>8, <3>4, <3>6, <3>7
  <2>12. ASSUME NEW l \in 0 .. line
         PROVE  Holds(Y, l)'
    <3>1. CASE l = line
      BY <2>7, <2>8, <2>9, <3>1
    <3>2. CASE l # line
      <4>1. l \in 0 .. line - 1
        BY <1>2, <3>2
      <4>2. memory[offset[Y] + l] = <<Y, l>>
        BY <2>4, <2>5, <4>1 DEF Holds
      <4>3. offset[Y] \in Nat /\ graph.size[Y] \in Nat /\ offset[Y] + graph.size[Y] <= end
        BY <2>2, <2>3
      <4>4. offset[Y] + l # a /\ offset[Y] + l \in 0 .. end - 1
        BY <1>2, <2>2, <2>7, <4>1, <4>3
      <4> QED
        BY <2>8, <2>9, <4>2, <4>4
    <3> QED
      BY <3>1, <3>2
  <2>13. AliveIntact(node + 5)'
    BY <1>2, <2>10, Same DEF AliveIntact, Intact, Static
  <2>14. (line <= graph.size[Out(node + 4)])'
    <3>1. graph.size[Y] \in Nat
      BY <2>2, <2>3
    <3>2. Out(node + 4)' = Y
      BY <1>1, <1>2, Same DEF Out, Static
    <3> QED
      BY <1>2, <3>1, <3>2 DEF Static
  <2>15. (\A l \in line .. graph.size[Source(node)] - 1 : Holds(Source(node), l))'
    <3>1. Source(node)' = X
      BY <1>1, <1>2 DEF Source, Static
    <3>2. \A l \in line + 1 .. graph.size[X] - 1 : Holds(X, l)'
      BY <2>11
    <3>3. \A l : Holds(Source(node), l)' <=> Holds(X, l)'
      BY <3>1 DEF Holds
    <3> QED
      BY <1>2, <3>1, <3>2, <3>3 DEF Static
  <2>16. (\A l \in 0 .. line - 1 : Holds(Out(node + 4), l))'
    <3>1. Out(node + 4)' = Y
      BY <1>1, <1>2 DEF Out, Static
    <3>2. \A l : Holds(Out(node + 4), l)' <=> Holds(Y, l)'
      BY <3>1 DEF Holds
    <3>3. (line + 1) - 1 = line
      BY <1>2
    <3> QED
      BY <1>2, <2>12, <3>2, <3>3
  <2> QED
    BY <2>13, <2>14, <2>15, <2>16 DEF PassInv
<1>7. RunInv'
  BY <1>2, <1>4, <1>5, <1>6, Same DEF RunInv
<1>8. V1Inv' /\ V2Inv'
  <2>1. Complete(offset)'
    BY <1>2, Same DEF Complete, NoOffset
  <2> QED
    BY <1>2, <2>1 DEF V1Inv, V2Inv
<1>9. PassForward'
  BY <1>2, Same DEF PassForward, Separate, SeparateBy, Static, NoOffset
<1> QED
  BY <1>3, <1>7, <1>8, <1>9 DEF IInv

(* When the pass ends its output is whole, and of the chain's tensors only *)
(* its output is still alive.                                              *)
LEMMA FusedDoneStep == IInv /\ Static /\ FusedDone => IInv'
<1> SUFFICES ASSUME IInv, Static, FusedDone PROVE IInv'
  OBVIOUS
<1>1. /\ TypeInv /\ PassForward /\ V2Inv /\ Complete(offset) /\ Outside
      /\ graph \in Graphs /\ node \in Nodes /\ FusedAt(node) /\ Fusing /\ pc = "run" /\ pc' = pc
      /\ PassIsSafe => PassInv
      /\ node' = node + 5 /\ line' = 0 /\ offset' = offset /\ end' = end /\ memory' = memory
      /\ candidate' = candidate /\ v1' = v1 /\ line = graph.size[Out(node + 4)]
  BY DEF IInv, TypeInv, V2Inv, RunInv, Fusing, FusedDone, planning
<1>2. /\ node \in Nat /\ node + 4 \in Nodes /\ Nodes = 1 .. Len(graph.nodes)
      /\ Len(graph.nodes) \in Nat
      /\ \A t \in Tensors : Birth(t) \in Nat /\ LastUse(t) \in Nat
  BY <1>1, PassFacts, NodeFacts, BirthFacts, LastUseFacts
<1>3. TypeInv'
  <2>1. node' \in 1 .. Len(graph.nodes) + 1
    BY <1>1, <1>2
  <2> QED
    BY <1>1, <2>1, TypeKept DEF TypeInv
<1>4. Outside'
  <2>1. SUFFICES ASSUME NEW n \in Nodes, FusedAt(n), node + 5 \in n + 1 .. n + 4 PROVE FALSE
    BY <1>1, Same DEF Outside
  <2>2. n \in node + 1 .. node + 4
    BY <1>2, <2>1
  <2> QED
    BY <1>1, <2>1, <2>2, ChainsApart
<1>5. ASSUME PassIsSafe
      PROVE  AliveIntact(node)'
  <2>1. SUFFICES ASSUME NEW t \in Tensors, Birth(t) < node + 5, node + 5 <= LastUse(t)
                 PROVE  Intact(t)
    BY <1>1, Same DEF AliveIntact, Intact, Holds, Static
  <2>2. CASE Birth(t) < node
    BY <1>1, <1>5, <2>1, <2>2 DEF PassInv, AliveIntact
  <2>3. CASE Birth(t) >= node
    <3>1. PICK k \in 0 .. 4 : Birth(t) = node + k
      <4>1. Birth(t) - node \in 0 .. 4 /\ Birth(t) = node + (Birth(t) - node)
        BY <1>2, <2>1, <2>3
      <4> QED
        BY <4>1
    <3>2. t = Out(node + k)
      <4>1. t \in ToSet(graph.nodes[node + k].outs)
        BY <1>1, <3>1, BirthFacts
      <4> QED
        BY <1>1, <4>1, FusedFacts
    <3>3. k = 4
      <4>1. SUFFICES ASSUME k \in 0 .. 3 PROVE FALSE
        OBVIOUS
      <4>2. LastUse(t) = node + k + 1
        BY <1>1, <3>2, <4>1, FusedFacts
      <4> QED
        BY <1>2, <2>1, <4>1, <4>2
    <3>4. t = Out(node + 4) /\ line = graph.size[t]
      BY <1>1, <3>2, <3>3
    <3> QED
      BY <1>1, <1>5, <3>4 DEF PassInv, Intact
  <2> QED
    BY <1>2, <2>2, <2>3
<1>6. PassIsSafe' /\ Fusing' => PassInv'
  <2>1. (graph \in Graphs /\ Fusing /\ line = 0 /\ AliveIntact(node) => PassInv)'
    BY PassBegins, PTL
  <2> QED
    BY <1>1, <1>5, <2>1, Same DEF Static
<1>7. RunInv'
  <2>1. (DOMAIN memory = 0 .. end - 1)'
    BY <1>1, RunFacts
  <2> QED
    BY <1>1, <1>4, <1>5, <1>6, <2>1, Same DEF RunInv
<1>8. V1Inv' /\ V2Inv'
  <2>1. Complete(offset)'
    BY <1>1, Same DEF Complete, NoOffset
  <2> QED
    BY <1>1, <2>1 DEF V1Inv, V2Inv
<1>9. PassForward'
  BY <1>1, Same DEF PassForward, Separate, SeparateBy, Static, NoOffset
<1> QED
  BY <1>3, <1>7, <1>8, <1>9 DEF IInv

LEMMA RunDoneStep == IInv /\ Static /\ RunDone => IInv'
<1> SUFFICES ASSUME IInv, Static, RunDone PROVE IInv'
  OBVIOUS
<1>1. /\ TypeInv /\ PassForward /\ V2Inv /\ Complete(offset) /\ line = 0
      /\ graph \in Graphs /\ node \notin Nodes /\ pc = "run" /\ pc' = "done"
      /\ PassIsSafe => AliveIntact(node)
      /\ node' = node /\ line' = line /\ offset' = offset /\ end' = end /\ memory' = memory
      /\ candidate' = candidate /\ v1' = v1
  BY DEF IInv, TypeInv, V2Inv, RunInv, Fusing, RunDone, planning
<1>2. TypeInv'
  BY <1>1, TypeKept DEF TypeInv
<1>3. node = Len(graph.nodes) + 1 /\ Len(graph.nodes) \in Nat /\ Nodes = 1 .. Len(graph.nodes)
  BY <1>1, NodeFacts DEF TypeInv
<1>4. ASSUME PassIsSafe, NEW t \in graph.outputs
      PROVE  Intact(t)
  <2>1. CASE t = 0
    BY <2>1 DEF Intact
  <2>2. CASE t \in Tensors
    BY <1>1, <1>3, <1>4, <2>2, BirthFacts, LastUseFacts DEF AliveIntact
  <2> QED
    BY <1>1, <2>1, <2>2, BirthFacts
<1>5. RunInv'
  <2>1. (pc = "done" /\ PassIsSafe => \A t \in graph.outputs : Intact(t))'
    BY <1>1, <1>4, Same DEF Intact, Holds, Static
  <2> QED
    BY <1>1, <2>1 DEF RunInv
<1>6. V1Inv' /\ V2Inv'
  <2>1. Complete(offset)'
    BY <1>1, Same DEF Complete, NoOffset
  <2> QED
    BY <1>1, <2>1 DEF V1Inv, V2Inv
<1>7. PassForward'
  BY <1>1, Same DEF PassForward, Separate, SeparateBy, Static, NoOffset
<1> QED
  BY <1>2, <1>5, <1>6, <1>7 DEF IInv

-----------------------------------------------------------------------------
(* The invariant                                                           *)

LEMMA Initially == Init => IInv
<1> SUFFICES ASSUME Init PROVE IInv
  OBVIOUS
<1>1. /\ build \in Builds /\ graph \in Graphs /\ pc = "v1" /\ node = 1 /\ live = {}
      /\ offset = [t \in Tensors |-> NoOffset] /\ blocks = <<>> /\ end = 0
      /\ candidate = 0 /\ line = 0
  BY DEF Init
<1>2. TypeInv
  <2>1. GoodPlan(offset, end)
    BY <1>1 DEF GoodPlan, Fitting, Disjoint, NoOffset
  <2>2. node \in 1 .. Len(graph.nodes) + 1
    BY <1>1, NodeFacts
  <2> QED
    BY <1>1, <2>1, <2>2 DEF TypeInv
<1>3. LiveInv
  <2>1. \A t \in Tensors : offset[t] = NoOffset /\ ~(Birth(t) < 1)
    BY <1>1, BirthFacts, NodeFacts
  <2> QED
    BY <1>1, <2>1 DEF LiveInv, Planned
<1>4. FreeInv
  <2>1. blocks \in Seq(Blocks) /\ Len(blocks) = 0 /\ DOMAIN blocks = {}
    BY <1>1
  <2> QED
    BY <1>1, <2>1 DEF FreeInv, FreeList, Ordered, Gaps, Free
<1>5. SourceFreed
  <2>1. \A n \in Nodes : node # n + 4
    BY <1>1, NodeFacts
  <2> QED
    BY <2>1 DEF SourceFreed
<1>6. PassForward
  <2>1. SUFFICES ASSUME NEW n \in Nodes, FusedAt(n), offset[Out(n + 4)] # NoOffset PROVE FALSE
    BY DEF PassForward
  <2> QED
    BY <1>1, <2>1, PassFacts
<1>7. V1Inv /\ V2Inv /\ RunInv
  BY <1>1, <1>3, <1>4, <1>5 DEF V1Inv, V2Inv, RunInv
<1> QED
  BY <1>2, <1>6, <1>7 DEF IInv

LEMMA Unchanged == IInv /\ UNCHANGED vars => IInv'
<1> SUFFICES ASSUME IInv, UNCHANGED vars PROVE IInv'
  OBVIOUS
<1>1. /\ Static /\ pc' = pc /\ node' = node /\ offset' = offset /\ live' = live /\ blocks' = blocks
      /\ end' = end /\ v1' = v1 /\ candidate' = candidate /\ line' = line /\ memory' = memory
  BY DEF vars, planning, Static
<1>2. TypeInv'
  BY <1>1, TypeKept DEF IInv, TypeInv
<1>3. PassForward'
  BY <1>1, Same DEF IInv, PassForward, Separate, SeparateBy, Static, NoOffset
<1>4. V2Inv'
  <2>1. Complete(offset) => Complete(offset)'
    BY <1>1, Same DEF Complete, NoOffset
  <2> QED
    BY <1>1, <2>1, RememberedKept DEF IInv, V2Inv, Static
<1>5. V1Inv'
  <2>1. LiveInv => LiveInv'
    BY <1>1, Same DEF LiveInv, Separate, SeparateBy, Static, NoOffset
  <2>2. FreeInv => FreeInv'
    BY <1>1 DEF FreeInv, FreeList, Ordered, Gaps, BlockEnd, Free, Lines, Static
  <2>3. SourceFreed => SourceFreed'
    BY <1>1, Same DEF SourceFreed, Free, BlockEnd, Lines, Static, NoOffset
  <2> QED
    BY <1>1, <2>1, <2>2, <2>3 DEF IInv, V1Inv, Static
<1>6. RunInv'
  <2>1. Outside' = Outside /\ Fusing' = Fusing
    BY <1>1, Same DEF Outside, Fusing
  <2>2. \A t, l : Holds(t, l)' = Holds(t, l)
    BY <1>1 DEF Holds
  <2>3. \A t : Intact(t)' = Intact(t)
    BY <1>1, <2>2 DEF Intact, Static
  <2>4. AliveIntact(node)' = AliveIntact(node) /\ AliveIntact(node + 5)' = AliveIntact(node + 5)
    BY <1>1, <2>3, Same DEF AliveIntact
  <2>5. PassInv => PassInv'
    <3>1. SUFFICES ASSUME PassInv PROVE PassInv'
      OBVIOUS
    <3>2. (line <= graph.size[Out(node + 4)])' /\ AliveIntact(node + 5)'
      BY <1>1, <2>4, <3>1, Same DEF PassInv, Static
    <3>3. (\A l \in line .. graph.size[Source(node)] - 1 : Holds(Source(node), l))'
      BY <1>1, <3>1, Same DEF PassInv, Holds, Static
    <3>4. (\A l \in 0 .. line - 1 : Holds(Out(node + 4), l))'
      BY <1>1, <3>1, Same DEF PassInv, Holds
    <3> QED
      BY <3>2, <3>3, <3>4 DEF PassInv
  <2> QED
    BY <1>1, <2>1, <2>3, <2>4, <2>5, Same DEF IInv, RunInv, Static
<1> QED
  BY <1>2, <1>3, <1>4, <1>5, <1>6 DEF IInv

LEMMA Inductive == IInv /\ [Next]_vars => IInv'
<1> SUFFICES ASSUME IInv, [Next]_vars PROVE IInv'
  OBVIOUS
<1>1. CASE UNCHANGED vars
  BY <1>1, Unchanged
<1>2. CASE Next
  <2>1. Static
    BY <1>2 DEF Next, Static, V1Expire, V1Reuse, V1Extend, V1NextNode, V1Done, V1Fails, V2Move,
                V2Place, V2Done, KeepV2, RestoreV1, NeitherFits, RunNode, RunFusedLine, FusedDone,
                RunDone
  <2> QED
    BY <1>2, <2>1, V1ExpireStep, V1ReuseStep, V1ExtendStep, V1NextNodeStep, V1EndSteps,
       V2MoveStep, V2PlaceStep, V2DoneStep, ChooseSteps, RunNodeStep, RunFusedLineStep,
       FusedDoneStep, RunDoneStep DEF Next
<1> QED
  BY <1>1, <1>2

(* The placement, the free list and the memory are always as IInv says.    *)
THEOREM Invariant == Spec => []IInv
  BY Initially, Inductive, PTL DEF Spec

(* No two tensors alive at the same node share a line of the workspace     *)
(* that either planner laid out (lw_plan_workspace).                       *)
THEOREM LiveRangesDisjointAlways == Spec => []LiveRangesDisjoint
<1>1. IInv => LiveRangesDisjoint
  <2>1. SUFFICES ASSUME IInv, pc = "run", NEW t \in Planned, NEW u \in Planned, t # u,
                        LifetimesOverlap(t, u)
                 PROVE  Lines(t) \cap Lines(u) = {}
    BY DEF LiveRangesDisjoint
  <2>2. t \in Tensors /\ u \in Tensors /\ ~Skipped(t) /\ ~Skipped(u)
    BY DEF Planned
  <2>3. offset[t] + graph.size[t] <= offset[u] \/ offset[u] + graph.size[u] <= offset[t]
    BY <2>1, <2>2, RunFacts DEF Separate, SeparateBy
  <2>4. /\ offset[t] \in Nat /\ graph.size[t] \in Nat /\ offset[u] \in Nat /\ graph.size[u] \in Nat
    BY <2>1, <2>2, RunFacts
  <2> QED
    BY <2>3, <2>4 DEF Lines
<1> QED
  BY <1>1, Invariant, PTL

(* A node that runs by itself is never given an elided temporary           *)
(* (lw_execution_plan_is_skipped_tensor).                                  *)
THEOREM NoElidedTensorIsUsedAlways == Spec => []NoElidedTensorIsUsed
<1>1. IInv => NoElidedTensorIsUsed
  <2>1. SUFFICES ASSUME IInv, pc = "run", node \in Nodes, ~FusedAt(node), NEW t, t # 0,
                        t \in ToSet(graph.nodes[node].ins) \cup ToSet(graph.nodes[node].outs)
                 PROVE  offset[t] # NoOffset
    BY DEF NoElidedTensorIsUsed
  <2>2. graph \in Graphs /\ Outside /\ node \in Nat
    BY <2>1, NodeFacts, RunFacts DEF IInv, RunInv
  <2>3. /\ t \in Tensors /\ Birth(t) \in Nat /\ LastUse(t) \in Nat
        /\ Birth(t) <= node /\ node <= LastUse(t)
    <3>1. CASE t \in ToSet(graph.nodes[node].ins)
      <4>1. t \in Tensors /\ Birth(t) < node
        BY <2>1, <2>2, <3>1, BirthFacts
      <4>2. node <= LastUse(t) /\ LastUse(t) \in Nat
        BY <2>1, <2>2, <3>1, <4>1, LastUseFacts DEF Reads
      <4> QED
        BY <2>2, <4>1, <4>2, BirthFacts, NodeFacts
    <3>2. CASE t \in ToSet(graph.nodes[node].outs)
      <4>1. t \in Tensors /\ Birth(t) = node
        BY <2>1, <2>2, <3>2, BirthFacts
      <4> QED
        BY <2>2, <4>1, LastUseFacts
    <3> QED
      BY <2>1, <3>1, <3>2
  <2>4. ~Skipped(t)
    <3>1. SUFFICES ASSUME Skipped(t) PROVE FALSE
      OBVIOUS
    <3>2. PICK n \in Nodes : FusedAt(n) /\ \E k \in 0 .. 3 :
              Birth(t) = n + k /\ LastUse(t) = n + k + 1
      BY <2>2, <2>3, <3>1, SkippedFacts
    <3>3. n \in Nat /\ node # n /\ node \notin n + 1 .. n + 4
      BY <2>1, <2>2, <3>2, NodeFacts DEF Outside
    <3> QED
      BY <2>2, <2>3, <3>2, <3>3
  <2> QED
    BY <2>1, <2>3, <2>4, RunFacts
<1> QED
  BY <1>1, Invariant, PTL

(* Whatever a node reads is what its producer wrote, and so are the        *)
(* outputs at the end (lw_session_run over the planned workspace).         *)
THEOREM ReadsIntactAlways == Spec => []ReadsIntact
<1>1. IInv => ReadsIntact
  <2>1. SUFFICES ASSUME IInv, PassIsSafe
                 PROVE  /\ pc = "run" /\ node \in Nodes /\ ~FusedAt(node) =>
                             \A t \in ToSet(graph.nodes[node].ins) : Intact(t)
                        /\ pc = "done" => \A t \in graph.outputs : Intact(t)
    BY DEF ReadsIntact
  <2>2. ASSUME pc = "run", node \in Nodes, ~FusedAt(node),
               NEW t \in ToSet(graph.nodes[node].ins)
        PROVE  Intact(t)
    <3>1. graph \in Graphs /\ AliveIntact(node)
      BY <2>1, <2>2, RunFacts DEF IInv, RunInv, Fusing
    <3>2. t = 0 \/ (t \in Tensors /\ Birth(t) < node /\ node <= LastUse(t))
      BY <2>2, <3>1, BirthFacts, LastUseFacts DEF Reads
    <3> QED
      BY <3>1, <3>2 DEF AliveIntact, Intact
  <2> QED
    BY <2>1, <2>2 DEF IInv, RunInv
<1> QED
  BY <1>1, Invariant, PTL

(* The fused pass of the default build reads its input as it was computed, *)
(* though the plan counts the input as dead (lw_avx2_gelu_f32).            *)
THEOREM FusedReadsIntactAlways == Spec => []FusedReadsIntact
<1>1. IInv => FusedReadsIntact
  <2>1. SUFFICES ASSUME IInv, PassIsSafe, pc = "run", node \in Nodes, FusedAt(node),
                        line < graph.size[Out(node + 4)]
                 PROVE  Holds(Source(node), line)
    BY DEF FusedReadsIntact
  <2>2. graph \in Graphs /\ PassInv /\ line \in Nat
    BY <2>1 DEF IInv, TypeInv, RunInv, Fusing
  <2>3. line \in line .. graph.size[Source(node)] - 1
    BY <2>1, <2>2, PassFacts
  <2> QED
    BY <2>2, <2>3 DEF PassInv
<1> QED
  BY <1>1, Invariant, PTL
=============================================================================
