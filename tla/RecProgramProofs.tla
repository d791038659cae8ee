-------------------------- MODULE RecProgramProofs --------------------------
(***************************************************************************)
(* The compiled recognition program, for any graphs, lifetimes and         *)
(* alignment: two values that live at the same time share nothing of the   *)
(* arena, and every value lies inside it; the executor refuses no pair of  *)
(* convolutions that the compiler marked to run tile by tile; and where    *)
(* the memory orders of the graph agree node by node (OrdersAgree), every  *)
(* operation finds its operands in the order its kernel reads, and a run   *)
(* evaluates the graph.                                                    *)
(***************************************************************************)
EXTENDS RecProgram, FiniteSetTheorems, SequenceTheorems, FunctionTheorems,
        WellFoundedInduction, TLAPS

-----------------------------------------------------------------------------
(* Numbers.                                                                *)

(* A nonempty set of naturals with a bound has a greatest element.         *)
LEMMA GreatestOf ==
  ASSUME NEW b \in Nat, NEW T, T \subseteq 0 .. b, T # {}
  PROVE  \E x \in T : \A y \in T : y <= x
<1> DEFINE Above(x) == {y \in T : x <= y}
           F == {Above(x) : x \in T}
<1>1. IsFiniteSet(0 .. b) /\ \A x \in T : x \in Nat
  BY FS_Interval
<1>2. F \subseteq SUBSET (0 .. b) /\ F # {}
  OBVIOUS
<1>3. IsWellFoundedOn(StrictSubsetOrdering(0 .. b), SUBSET (0 .. b))
  BY <1>1, FS_StrictSubsetOrderingWellFounded, FS_FiniteSubsetsOfFinite
<1>4. PICK U \in F : \A V \in F : <<V, U>> \notin StrictSubsetOrdering(0 .. b)
  <2> HIDE DEF F
  <2>1. QED
    BY <1>2, <1>3, WFMin
<1>5. PICK x \in T : U = Above(x)
  OBVIOUS
<1>6. ASSUME NEW y \in T, x < y PROVE FALSE
  <2>0. x <= x /\ ~(y <= x) /\ \A z \in T : y <= z => x <= z
    BY <1>1, <1>6
  <2>1. Above(y) \subseteq Above(x) /\ x \in Above(x) /\ x \notin Above(y)
    BY <2>0, Zenon
  <2>2. Above(y) \in F /\ Above(x) \in SUBSET (0 .. b) /\ Above(y) \in SUBSET (0 .. b)
    OBVIOUS
  <2> HIDE DEF Above, F
  <2>3. QED
    BY <1>4, <1>5, <2>1, <2>2 DEF StrictSubsetOrdering
<1>7. QED
  BY <1>1, <1>6

(* A nonempty set of naturals has a least element.                         *)
LEMMA LeastOf ==
  ASSUME NEW T, T \subseteq Nat, T # {}
  PROVE  \E x \in T : \A y \in T : x <= y
<1>1. PICK b \in T : TRUE
  OBVIOUS
<1> DEFINE U == {n \in 0 .. b : b - n \in T}
<1>2. b \in Nat /\ U \subseteq 0 .. b /\ b - 0 = b /\ 0 \in 0 .. b
  OBVIOUS
<1>3. U # {}
  BY <1>1, <1>2
<1>4. PICK n \in U : \A y \in U : y <= n
  <2> HIDE DEF U
  <2> QED
    BY <1>2, <1>3, GreatestOf
<1>5. b - n \in T /\ n \in 0 .. b
  OBVIOUS
<1>6. ASSUME NEW y \in T, ~(b - n <= y) PROVE FALSE
  <2>1. y \in Nat /\ y < b - n
    BY <1>2, <1>5, <1>6
  <2>2. b - y \in 0 .. b /\ b - (b - y) = y /\ ~(b - y <= n)
    BY <1>2, <1>5, <2>1
  <2> QED
    BY <1>4, <2>2
<1> QED
  BY <1>5, <1>6

(* Induction up to a bound, for what can be said with a set.               *)
LEMMA Induction ==
  ASSUME NEW N \in Nat, NEW S, 0 \in S, \A n \in 0 .. N - 1 : n \in S => n + 1 \in S
  PROVE  0 .. N \subseteq S
<1> SUFFICES ASSUME NEW k \in 0 .. N, k \notin S PROVE FALSE
  OBVIOUS
<1> DEFINE T == {m \in 0 .. k : m \in S}
<1>1. T \subseteq 0 .. k /\ T # {} /\ k \in Nat
  OBVIOUS
<1>2. PICK m \in T : \A y \in T : y <= m
  <2> HIDE DEF T
  <2>1. QED
    BY <1>1, GreatestOf
<1>3. m \in 0 .. N - 1 /\ m \in S /\ m + 1 \in 0 .. k /\ ~(m + 1 <= m)
  <2>1. m \in 0 .. k /\ m \in S /\ m # k
    OBVIOUS
  <2>2. QED
    BY <2>1
<1>4. QED
  BY <1>2, <1>3

-----------------------------------------------------------------------------
(* One plan.                                                               *)

Elements(s) == {s[i] : i \in DOMAIN s}

(* The inductive invariant.  The sizes of the candidates are natural       *)
(* numbers and the search stands at an aligned offset, so that the offset  *)
(* that was found free is the one the value gets.                          *)
PlanTyped ==
  /\ placed \in Seq(Elements(placed))
  /\ arena_bytes \in Nat
  /\ \A c \in candidates : c.bytes \in Nat
  /\ \A p \in DOMAIN placed : placed[p].offset \in Nat /\ placed[p].bytes \in Nat
SearchAligned == offset_tried \in Nat /\ Align(offset_tried) = offset_tried
PlanInv == PlanTyped /\ SearchAligned /\ PlacesFit /\ PlacesDisjoint

(* lw_x64_rec_arena_align returns an aligned offset that is not smaller.   *)
LEMMA AlignUp ==
  ASSUME NEW x \in Nat
  PROVE  /\ Align(x) \in Nat /\ x <= Align(x)
         /\ Align(Align(x)) = Align(x)
<1> DEFINE k == (x + Unit - 1) \div Unit
<1>1. Unit \in Nat /\ Unit >= 1
  BY UnitAssumption
<1>2. x + Unit - 1 \in Nat
  BY <1>1
<1>3. k \in Nat /\ k * Unit <= x + Unit - 1 /\ x + Unit - 1 < k * Unit + Unit
  BY <1>1, <1>2
<1>4. k * Unit \in Nat
  BY <1>1, <1>3
<1>5. (k * Unit + Unit - 1) \div Unit = k
  BY <1>1, <1>3, <1>4
<1>6. Align(x) = k * Unit
  BY DEF Align
<1>7. Align(k * Unit) = k * Unit
  BY <1>5 DEF Align
<1> HIDE DEF k
<1>8. x <= k * Unit
  BY <1>1, <1>3, <1>4
<1>9. QED
  BY <1>4, <1>6, <1>7, <1>8

(* What Append does to any sequence, with a fact for every position.       *)
LEMMA AppendAny ==
  ASSUME NEW s, s \in Seq(Elements(s)), NEW e
  PROVE  LET t == Append(s, e)
         IN  /\ t \in Seq(Elements(t))
             /\ DOMAIN t = DOMAIN s \cup {Len(s) + 1} /\ Len(s) + 1 \notin DOMAIN s
             /\ \A i \in DOMAIN s : t[i] = s[i]
             /\ t[Len(s) + 1] = e
<1> DEFINE T == Elements(s) \cup {e}
           t == Append(s, e)
<1>1. s \in Seq(T)
  BY SeqMonotonic
<1>2. DOMAIN s = 1 .. Len(s) /\ Len(s) \in Nat
  BY <1>1, LenProperties
<1>3. /\ t \in Seq(T) /\ Len(t) = Len(s) + 1
      /\ \A i \in 1 .. Len(s) : t[i] = s[i]
      /\ t[Len(s) + 1] = e
  BY <1>1, AppendProperties
<1>4. DOMAIN t = 1 .. Len(t) /\ t \in [1 .. Len(t) -> T] /\ Len(t) \in Nat
  BY <1>3, LenProperties
<1> HIDE DEF t
<1>5. t \in [1 .. Len(t) -> Elements(t)]
  BY <1>4 DEF Elements
<1>6. t \in Seq(Elements(t))
  BY <1>4, <1>5
<1>7. DOMAIN t = DOMAIN s \cup {Len(s) + 1} /\ Len(s) + 1 \notin DOMAIN s
  BY <1>2, <1>3, <1>4
<1>8. QED
  BY <1>2, <1>3, <1>6, <1>7 DEF t

(* Another offset is tried: what is placed stays.                          *)
LEMMA BumpStep ==
  ASSUME PlanInv, Bump
  PROVE  PlanInv'
<1>1. PICK c \in candidates, p \in DOMAIN placed : BumpBehind(c, p)
  BY DEF Bump
<1>2. End(placed[p]) \in Nat
  BY DEF PlanInv, PlanTyped, End
<1>3. SearchAligned'
  BY <1>1, <1>2, AlignUp DEF BumpBehind, SearchAligned, Align
<1>4. UNCHANGED <<candidates, placed, arena_bytes>>
  BY <1>1 DEF BumpBehind
<1>5. QED
  BY <1>3, <1>4 DEF PlanInv, PlanTyped, PlacesFit, PlacesDisjoint, SameTime, Overlap, End

(* A value gets the offset that was found free.                            *)
LEMMA PlaceStep ==
  ASSUME PlanInv, Place
  PROVE  PlanInv'
<1>1. PICK c \in candidates : PlaceNext(c)
  BY DEF Place
<1> DEFINE s == Slot(c, offset_tried)
           n == Len(placed) + 1
<1>2. /\ Hits(c, offset_tried) = {} /\ candidates' = candidates \ {c}
      /\ placed' = Append(placed, s) /\ offset_tried' = 0
      /\ arena_bytes' = IF End(s) > arena_bytes THEN End(s) ELSE arena_bytes
  BY <1>1 DEF PlaceNext, PlanInv, SearchAligned
<1>3. /\ s.offset = offset_tried /\ s.bytes = c.bytes
      /\ s.first = c.first /\ s.last = c.last
      /\ s.offset \in Nat /\ s.bytes \in Nat
  BY DEF Slot, PlanInv, PlanTyped, SearchAligned
<1> HIDE DEF s
<1>4. /\ placed' \in Seq(Elements(placed'))
      /\ DOMAIN placed' = DOMAIN placed \cup {n} /\ n \notin DOMAIN placed
      /\ \A i \in DOMAIN placed : placed'[i] = placed[i]
      /\ placed'[n] = s
  BY <1>2, AppendAny DEF PlanInv, PlanTyped
<1> HIDE DEF n
<1>5. End(s) \in Nat /\ arena_bytes' \in Nat
      /\ arena_bytes <= arena_bytes' /\ End(s) <= arena_bytes'
  BY <1>2, <1>3 DEF End, PlanInv, PlanTyped
<1>6. PlanTyped'
  BY <1>2, <1>3, <1>4, <1>5 DEF PlanInv, PlanTyped, Elements
<1>7. SearchAligned'
  <2>1. Align(0) = 0
    BY UnitAssumption DEF Align
  <2>2. QED
    BY <1>2, <2>1 DEF SearchAligned, Align
<1>8. PlacesFit'
  <2>1. ASSUME NEW p \in DOMAIN placed PROVE End(placed[p]) <= arena_bytes'
    BY <1>5, <2>1 DEF PlanInv, PlanTyped, PlacesFit, End
  <2>2. QED
    BY <1>3, <1>4, <1>5, <2>1 DEF PlanInv, PlanTyped, PlacesFit, End
<1>9. ASSUME NEW p \in DOMAIN placed, SameTime(placed[p], s)
      PROVE  ~Overlap(s.offset, s.bytes, placed[p].offset, placed[p].bytes)
  BY <1>2, <1>3, <1>9 DEF Hits, SameTime
<1>10. PlacesDisjoint'
  BY <1>4, <1>9 DEF PlanInv, PlacesDisjoint, SameTime, Overlap
<1>11. QED
  BY <1>6, <1>7, <1>8, <1>10 DEF PlanInv

(* A plan starts with nothing placed.                                      *)
LEMMA StartOfPlan ==
  ASSUME NEW S, \A c \in S : c.bytes \in Nat, PlanStart(S)
  PROVE  PlanInv'
<1>1. Align(0) = 0
  BY UnitAssumption DEF Align
<1>2. placed' \in Seq(Elements(placed')) /\ DOMAIN placed' = {}
  <2>1. \A T : << >> \in Seq(T)
    BY EmptySeq
  <2>2. QED
    BY <2>1 DEF PlanStart
<1>3. QED
  BY <1>1, <1>2 DEF PlanStart, PlanInv, PlanTyped, SearchAligned, PlacesFit,
     PlacesDisjoint, Align

LEMMA PlanInitially ==
  ASSUME PlanInit
  PROVE  PlanInv
<1>1. Align(0) = 0
  BY UnitAssumption DEF Align
<1>2. placed \in Seq(Elements(placed)) /\ DOMAIN placed = {}
  <2>1. \A T : << >> \in Seq(T)
    BY EmptySeq
  <2>2. QED
    BY <2>1 DEF PlanInit
<1>3. QED
  BY <1>1, <1>2 DEF PlanInit, PlanInv, PlanTyped, SearchAligned, PlacesFit, PlacesDisjoint

(* Steps that leave the plan alone.                                        *)
LEMMA PlanUntouched ==
  ASSUME PlanInv, UNCHANGED plan
  PROVE  PlanInv'
BY DEF plan, PlanInv, PlanTyped, SearchAligned, PlacesFit, PlacesDisjoint,
   Elements, Align, End, SameTime, Overlap

-----------------------------------------------------------------------------
(* Graphs.                                                                 *)

LEMMA GraphFacts ==
  ASSUME NEW g \in Graphs
  PROVE  /\ Len(g.nodes) \in Nat /\ Nodes(g) = 1 .. Len(g.nodes)
         /\ Tensors(g) \subseteq Nat \ {0} /\ g.input \in Tensors(g)
         /\ \A n \in Nodes(g) :
              /\ Out(g, n) \in Tensors(g) \ (g.const \cup {g.input})
              /\ \A m \in Nodes(g) : Out(g, m) = Out(g, n) => m = n
<1>1. WellFormed(g) /\ WellTyped(g)
  BY GraphsWellFormed, OperandsAssumption
<1>2. Len(g.nodes) \in Nat /\ Nodes(g) = 1 .. Len(g.nodes)
  <2>1. g.nodes \in Seq({g.nodes[n] : n \in Nodes(g)})
    BY <1>1 DEF WellTyped
  <2> QED
    BY <2>1, LenProperties DEF Nodes
<1> QED
  BY <1>1, <1>2 DEF WellFormed, WellTyped

LEMMA OperandFacts ==
  ASSUME NEW g \in Graphs, NEW n \in Nodes(g)
  PROVE  /\ g.nodes[n].ins \in Seq(Tensors(g)) /\ Len(g.nodes[n].ins) \in Nat
         /\ Slots(g, n) = 1 .. Len(g.nodes[n].ins) /\ 1 \in Slots(g, n)
         /\ \A t \in Ins(g, n) :
              /\ t \in Tensors(g)
              /\ \/ t \in g.const \cup {g.input}
                 \/ \E m \in Nodes(g) : m < n /\ Out(g, m) = t
<1>1. WellFormed(g) /\ WellTyped(g)
  BY GraphsWellFormed, OperandsAssumption
<1>2. /\ g.nodes[n].ins \in Seq(Tensors(g)) /\ Len(g.nodes[n].ins) \in Nat
      /\ Slots(g, n) = 1 .. Len(g.nodes[n].ins) /\ 1 \in Slots(g, n)
      /\ \A s \in Slots(g, n) : g.nodes[n].ins[s] \in Tensors(g)
  <2>1. g.nodes[n].ins \in Seq(Tensors(g)) /\ g.nodes[n].ins # <<>>
    BY <1>1 DEF WellTyped
  <2>2. Len(g.nodes[n].ins) \in Nat /\ Len(g.nodes[n].ins) # 0
    BY <2>1, LenProperties, EmptySeq
  <2> QED
    BY <2>1, <2>2, LenProperties, ElementOfSeq DEF Slots
<1>3. \A t \in Ins(g, n) : t \in Tensors(g)
  BY <1>2 DEF Ins
<1>4. ASSUME NEW t \in Ins(g, n), t \notin g.const \cup {g.input}
      PROVE  \E m \in Nodes(g) : m < n /\ Out(g, m) = t
  <2>1. PICK m \in 1 .. n - 1 : Out(g, m) = t
    BY <1>1, <1>4 DEF WellFormed
  <2>2. m \in Nodes(g) /\ m < n
    BY GraphFacts
  <2> QED
    BY <2>1, <2>2
<1> QED
  BY <1>2, <1>3, <1>4

LEMMA ProducerIs ==
  ASSUME NEW g \in Graphs
  PROVE  /\ \A n \in Nodes(g) : Producer(g, Out(g, n)) = n
         /\ \A t \in Tensors(g) :
              \/ Producer(g, t) \in Nodes(g) /\ Out(g, Producer(g, t)) = t
              \/ Producer(g, t) = 0 /\ \A n \in Nodes(g) : Out(g, n) # t
BY GraphFacts DEF Producer

(* What is counted once has one reader, at one of its operands.            *)
LEMMA SoleReader ==
  ASSUME NEW g \in Graphs, NEW t, UseCount(g, t) = 1
  PROVE  \E n \in Nodes(g) : \E s \in Slots(g, n) :
           /\ g.nodes[n].ins[s] = t
           /\ \A m \in Nodes(g) : \A r \in Slots(g, m) : g.nodes[m].ins[r] = t => m = n /\ r = s
<1> DEFINE pairs == UNION {{n} \X Slots(g, n) : n \in Nodes(g)}
           uses == {u \in pairs : g.nodes[u[1]].ins[u[2]] = t}
           f == [n \in Nodes(g) |-> {n} \X Slots(g, n)]
<1>1. IsFiniteSet(Nodes(g)) /\ \A n \in Nodes(g) : IsFiniteSet({n} \X Slots(g, n))
  <2>1. IsFiniteSet(Nodes(g))
    BY GraphFacts, FS_Interval, 1 \in Int, Len(g.nodes) \in Int
  <2>2. ASSUME NEW n \in Nodes(g) PROVE IsFiniteSet({n} \X Slots(g, n))
    <3>1. Slots(g, n) = 1 .. Len(g.nodes[n].ins) /\ Len(g.nodes[n].ins) \in Int
      BY OperandFacts
    <3>2. IsFiniteSet(Slots(g, n))
      BY <3>1, FS_Interval, 1 \in Int
    <3>3. IsFiniteSet({n})
      BY FS_Singleton
    <3> QED
      BY <3>2, <3>3, FS_Product
  <2> QED
    BY <2>1, <2>2
<1>2. IsFiniteSet({{n} \X Slots(g, n) : n \in Nodes(g)})
  <2> DEFINE images == {{n} \X Slots(g, n) : n \in Nodes(g)}
  <2>1. f \in [Nodes(g) -> images] /\ images = {f[n] : n \in Nodes(g)}
    OBVIOUS
  <2> HIDE DEF f, images
  <2>2. f \in Surjection(Nodes(g), images)
    BY <2>1 DEF Surjection
  <2> QED
    BY <1>1, <2>2, FS_Surjection DEF images
<1>3. IsFiniteSet(pairs)
  <2>1. \A T \in {{n} \X Slots(g, n) : n \in Nodes(g)} : IsFiniteSet(T)
    BY <1>1
  <2> QED
    BY <1>2, <2>1, FS_UNION
<1>4. IsFiniteSet(uses) /\ Cardinality(uses) = 1
  <2>1. uses \in SUBSET pairs
    OBVIOUS
  <2>2. Cardinality(uses) = 1
    BY DEF UseCount
  <2> HIDE DEF uses, pairs
  <2> QED
    BY <1>3, <2>1, <2>2, FS_Subset
<1>5. PICK u : uses = {u}
  <2> HIDE DEF uses
  <2> QED
    BY <1>4, FS_Singleton
<1>6. \A m \in Nodes(g) : \A r \in Slots(g, m) : <<m, r>> \in pairs
  OBVIOUS
<1>7. u \in pairs /\ g.nodes[u[1]].ins[u[2]] = t
  BY <1>5
<1>8. PICK n \in Nodes(g) : u \in {n} \X Slots(g, n)
  BY <1>7
<1>9. PICK s \in Slots(g, n) : u = <<n, s>>
  BY <1>8
<1>10. ASSUME NEW m \in Nodes(g), NEW r \in Slots(g, m), g.nodes[m].ins[r] = t
       PROVE  m = n /\ r = s
  <2>1. <<m, r>> \in uses
    BY <1>6, <1>10
  <2> QED
    BY <1>5, <1>9, <2>1
<1> QED
  BY <1>7, <1>9, <1>10


LEMMA ReaderAfter ==
  ASSUME NEW g \in Graphs, NEW n \in Nodes(g), NEW k \in Readers(g, Out(g, n))
  PROVE  k \in Nodes(g) /\ n < k
<1>1. k \in Nodes(g) /\ Out(g, n) \in Ins(g, k)
  BY DEF Readers
<1>2. PICK m \in Nodes(g) : m < k /\ Out(g, m) = Out(g, n)
  BY <1>1, OperandFacts, GraphFacts
<1> QED
  BY <1>1, <1>2, GraphFacts

-----------------------------------------------------------------------------
(* What lower_ops does at a node, whichever pass it is in: it depends on   *)
(* the graph and on the strategy only.                                     *)

AtChain(n) == GeluAt(graph, n) /\ n + 4 <= Limit
Span(n) == IF AtChain(n) THEN 5 ELSE IF Op(n) = "conv" THEN Fold(n).span ELSE 1
Follow(n) == n + Span(n)
Last(n) == n + Span(n) - 1
ResultOf(n) == OutOf(Last(n))

LEMMA LimitFacts ==
  ASSUME graph \in Graphs
  PROVE  Limit \in Nat /\ Limit <= Len(graph.nodes) /\ \A n \in 1 .. Limit : n \in Nodes(graph)
<1>1. Len(graph.nodes) \in Nat /\ Nodes(graph) = 1 .. Len(graph.nodes)
  BY GraphFacts
<1>2. CtcTail => Len(graph.nodes) >= 3
  BY DEF CtcTail
<1> QED
  BY <1>1, <1>2 DEF Limit

(* The results inside an operation are read inside it only.                *)
Private(n, span) ==
  \A m \in n .. n + span - 2 : Readers(graph, OutOf(m)) \subseteq m + 1 .. n + span - 1

(* A fold of a convolution: its residual is a value that the convolution   *)
(* finds, read by one of the nodes it takes along.                         *)
ResidualFound(n, f) ==
  /\ f.residual \notin graph.const
  /\ \E k \in n + 1 .. n + f.span - 1 : f.residual \in Ins(graph, k)
  /\ f.residual = graph.input \/ \E m \in 1 .. n - 1 : OutOf(m) = f.residual
FoldInv(n, f) ==
  /\ f = [span |-> f.span, out |-> f.out, residual |-> f.residual]
  /\ f.span \in Nat \ {0} /\ n + f.span - 1 <= Limit
  /\ f.out = OutOf(n + f.span - 1)
  /\ Private(n, f.span)
  /\ f.residual # NoTensor => ResidualFound(n, f)

(* A fold that takes nodes along, the first of which alone reads it.       *)
LEMMA Taken ==
  ASSUME graph \in Graphs, NEW n \in 1 .. Limit, NEW f, FoldInv(n, f),
         NEW k \in Nat \ {0}, n + f.span + k - 1 <= Limit,
         Readers(graph, f.out) \subseteq n + f.span .. n + f.span + k - 1,
         \A j \in n + f.span .. n + f.span + k - 2 :
            Readers(graph, OutOf(j)) \subseteq j + 1 .. n + f.span + k - 1
  PROVE  /\ Private(n, f.span + k)
         /\ \A r : r # NoTensor /\ r = f.residual =>
              /\ r \notin graph.const
              /\ \E j \in n + 1 .. n + (f.span + k) - 1 : r \in Ins(graph, j)
              /\ r = graph.input \/ \E m \in 1 .. n - 1 : OutOf(m) = r
<1>1. Limit \in Nat /\ f.span \in Nat \ {0} /\ n \in Nat
  BY LimitFacts DEF FoldInv
<1>2. ASSUME NEW m \in n .. n + (f.span + k) - 2
      PROVE  Readers(graph, OutOf(m)) \subseteq m + 1 .. n + (f.span + k) - 1
  <2>1. CASE m \in n .. n + f.span - 2
    <3>1. Readers(graph, OutOf(m)) \subseteq m + 1 .. n + f.span - 1
      BY <2>1 DEF FoldInv, Private
    <3> QED
      BY <3>1, <1>1
  <2>2. CASE m = n + f.span - 1
    BY <2>2, <1>1 DEF FoldInv
  <2>3. CASE m \in n + f.span .. n + f.span + k - 2
    <3>1. Readers(graph, OutOf(m)) \subseteq m + 1 .. n + f.span + k - 1
      BY <2>3
    <3> QED
      BY <3>1, <1>1
  <2> QED
    BY <2>1, <2>2, <2>3, <1>1
<1>3. Private(n, f.span + k)
  BY <1>2 DEF Private
<1>4. ASSUME f.residual # NoTensor
      PROVE  \E j \in n + 1 .. n + (f.span + k) - 1 : f.residual \in Ins(graph, j)
  <2>1. PICK j \in n + 1 .. n + f.span - 1 : f.residual \in Ins(graph, j)
    BY <1>4 DEF FoldInv, ResidualFound
  <2> QED
    BY <2>1, <1>1
<1> QED
  BY <1>3, <1>4 DEF FoldInv, ResidualFound

(* The sum behind a convolution: its other operand is no value of the      *)
(* convolution's own nodes.                                                *)
LEMMA SumFacts ==
  ASSUME graph \in Graphs, NEW n \in 1 .. Limit, NEW f, FoldInv(n, f),
         AddsTo(n + f.span, f.out)
  PROVE  LET add == n + f.span
             other == OtherOperand(add, f.out)
         IN  /\ add \in 1 .. Limit /\ Readers(graph, f.out) = {add}
             /\ other \in Ins(graph, add)
             /\ other \notin graph.const =>
                  other = graph.input \/ \E m \in 1 .. n - 1 : OutOf(m) = other
<1> DEFINE add == n + f.span
           other == OtherOperand(add, f.out)
<1>1. /\ add \in 1 .. Limit /\ add \in Nodes(graph) /\ n \in Nat /\ f.span \in Nat \ {0}
      /\ Limit \in Nat
  BY LimitFacts DEF FoldInv, AddsTo
<1>2. /\ Readers(graph, f.out) = {add} /\ UseCount(graph, f.out) = 1
      /\ Op(add) = "add" /\ other # NoTensor
  BY DEF AddsTo, SingleConsumer
<1>3. Slots(graph, add) = 1 .. 2
  BY <1>1, <1>2, OperandFacts, OperandsAssumption DEF Op
<1>4. PICK s \in 1 .. 2, r \in 1 .. 2 : /\ s # r /\ graph.nodes[add].ins[r] = f.out
                                        /\ other = graph.nodes[add].ins[s]
  BY <1>2, 1 \in 1 .. 2, 2 \in 1 .. 2, 1 # 2 DEF OtherOperand, In
<1>5. other \in Ins(graph, add)
  BY <1>3, <1>4 DEF Ins
<1>6. other # f.out
  BY <1>1, <1>2, <1>3, <1>4, SoleReader
<1>7. ASSUME other \notin graph.const, other # graph.input
      PROVE  \E m \in 1 .. n - 1 : OutOf(m) = other
  <2>1. PICK m \in Nodes(graph) : m < add /\ Out(graph, m) = other
    BY <1>1, <1>5, <1>7, OperandFacts
  <2>2. m \in Nat /\ m >= 1
    BY GraphFacts
  <2>3. add \in Readers(graph, OutOf(m))
    BY <1>1, <1>5, <2>1 DEF Readers, OutOf
  <2>4. ASSUME m \in n .. n + f.span - 2 PROVE FALSE
    <3>1. Readers(graph, OutOf(m)) \subseteq m + 1 .. n + f.span - 1
      BY <2>4 DEF FoldInv, Private
    <3> QED
      BY <3>1, <2>3, <1>1
  <2>5. m # n + f.span - 1
    BY <1>6, <2>1 DEF FoldInv, OutOf
  <2>6. m \in 1 .. n - 1
    BY <2>1, <2>2, <2>4, <2>5, <1>1
  <2> QED
    BY <2>1, <2>6 DEF OutOf
<1> QED
  BY <1>1, <1>2, <1>5, <1>7

LEMMA FoldIs ==
  ASSUME NEW n, NEW span \in Nat \ {0}, NEW r, n + span - 1 <= Limit, Private(n, span),
         r # NoTensor =>
           /\ r \notin graph.const
           /\ \E j \in n + 1 .. n + span - 1 : r \in Ins(graph, j)
           /\ r = graph.input \/ \E m \in 1 .. n - 1 : OutOf(m) = r
  PROVE  FoldInv(n, [span |-> span, out |-> OutOf(n + span - 1), residual |-> r])
BY DEF FoldInv, ResidualFound

LEMMA BiasFolded ==
  ASSUME graph \in Graphs, NEW n \in 1 .. Limit, NEW f, FoldInv(n, f)
  PROVE  FoldInv(n, FoldBias(n, f))
<1> DEFINE add == n + f.span
           g == FoldBias(n, f)
<1>1. CASE ~(AddsTo(add, f.out) /\ IsConst(OtherOperand(add, f.out))
             /\ Bytes(OtherOperand(add, f.out)) = 1)
  <2>1. g = f
    BY <1>1 DEF FoldBias
  <2> QED
    BY <2>1 DEF FoldInv
<1>2. CASE AddsTo(add, f.out) /\ IsConst(OtherOperand(add, f.out))
           /\ Bytes(OtherOperand(add, f.out)) = 1
  <2>1. g = [span |-> f.span + 1, out |-> OutOf(add), residual |-> f.residual]
    <3>1. g = [f EXCEPT !.span = @ + 1, !.out = OutOf(add)]
      BY <1>2 DEF FoldBias
    <3>2. f = [span |-> f.span, out |-> f.out, residual |-> f.residual]
      BY DEF FoldInv
    <3> QED
      BY <3>1, <3>2
  <2>2. add \in 1 .. Limit /\ Readers(graph, f.out) = {add}
    BY <1>2, SumFacts
  <2>3. f.span \in Nat \ {0} /\ n \in Nat /\ Limit \in Nat
    BY LimitFacts DEF FoldInv
  <2>4. /\ Private(n, f.span + 1)
        /\ \A r : r # NoTensor /\ r = f.residual =>
              /\ r \notin graph.const
              /\ \E j \in n + 1 .. n + (f.span + 1) - 1 : r \in Ins(graph, j)
              /\ r = graph.input \/ \E m \in 1 .. n - 1 : OutOf(m) = r
    <3>1. n + f.span + 1 - 1 <= Limit /\ 1 \in Nat \ {0}
      BY <2>2, <2>3
    <3>2. Readers(graph, f.out) \subseteq n + f.span .. n + f.span + 1 - 1
      BY <2>2, <2>3
    <3>3. n + f.span .. n + f.span + 1 - 2 = {}
      BY <2>3
    <3> QED
      BY <3>1, <3>2, <3>3, Taken
  <2> QED
    <3>1. n + (f.span + 1) - 1 = add /\ f.span + 1 \in Nat \ {0}
      BY <2>3
    <3>2. f.residual # NoTensor =>
            /\ f.residual \notin graph.const
            /\ \E j \in n + 1 .. n + (f.span + 1) - 1 : f.residual \in Ins(graph, j)
            /\ f.residual = graph.input \/ \E m \in 1 .. n - 1 : OutOf(m) = f.residual
      BY <2>4
    <3>3. add <= Limit
      BY <2>2
    <3> HIDE DEF add
    <3> QED
      BY <2>1, <2>4, <3>1, <3>2, <3>3, FoldIs
<1> QED
  BY <1>1, <1>2

LEMMA ResidualFolded ==
  ASSUME graph \in Graphs, NEW n \in 1 .. Limit, NEW f, FoldInv(n, f)
  PROVE  FoldInv(n, FoldResidual(n, f))
<1> DEFINE add == n + f.span
           other == OtherOperand(add, f.out)
           g == FoldResidual(n, f)
<1>1. CASE ~(AddsTo(add, f.out) /\ ~IsConst(other) /\ Bytes(other) = Bytes(f.out))
  <2>1. g = f
    BY <1>1 DEF FoldResidual
  <2> QED
    BY <2>1 DEF FoldInv
<1>2. CASE AddsTo(add, f.out) /\ ~IsConst(other) /\ Bytes(other) = Bytes(f.out)
  <2>1. g = [span |-> f.span + 1, out |-> OutOf(add), residual |-> other]
    <3>1. g = [f EXCEPT !.span = @ + 1, !.out = OutOf(add), !.residual = other]
      BY <1>2 DEF FoldResidual
    <3>2. f = [span |-> f.span, out |-> f.out, residual |-> f.residual]
      BY DEF FoldInv
    <3> QED
      BY <3>1, <3>2
  <2>2. /\ add \in 1 .. Limit /\ Readers(graph, f.out) = {add}
        /\ other \in Ins(graph, add) /\ other \notin graph.const
        /\ other = graph.input \/ \E m \in 1 .. n - 1 : OutOf(m) = other
    BY <1>2, SumFacts DEF IsConst
  <2>3. f.span \in Nat \ {0} /\ n \in Nat /\ Limit \in Nat
    BY LimitFacts DEF FoldInv
  <2>4. Private(n, f.span + 1)
    <3>1. n + f.span + 1 - 1 <= Limit /\ 1 \in Nat \ {0}
      BY <2>2, <2>3
    <3>2. Readers(graph, f.out) \subseteq n + f.span .. n + f.span + 1 - 1
      BY <2>2, <2>3
    <3>3. n + f.span .. n + f.span + 1 - 2 = {}
      BY <2>3
    <3> QED
      BY <3>1, <3>2, <3>3, Taken
  <2>5. add \in n + 1 .. n + (f.span + 1) - 1
    BY <2>3
  <2> QED
    <3>1. n + (f.span + 1) - 1 = add /\ f.span + 1 \in Nat \ {0}
      BY <2>3
    <3>2. /\ other \notin graph.const
          /\ \E j \in n + 1 .. n + (f.span + 1) - 1 : other \in Ins(graph, j)
          /\ other = graph.input \/ \E m \in 1 .. n - 1 : OutOf(m) = other
      BY <2>2, <2>5
    <3>3. add <= Limit
      BY <2>2
    <3> HIDE DEF add
    <3> QED
      BY <2>1, <2>4, <3>1, <3>2, <3>3, FoldIs
<1> QED
  BY <1>1, <1>2

(* The chain of a GELU reads its results itself.                           *)
LEMMA ChainPrivate ==
  ASSUME graph \in Graphs, NEW n \in Nat, GeluAt(graph, n), n >= 1
  PROVE  \A j \in n .. n + 3 : Readers(graph, OutOf(j)) \subseteq j + 1 .. j + 1
<1> SUFFICES ASSUME NEW j \in n .. n + 3
             PROVE  Readers(graph, OutOf(j)) \subseteq j + 1 .. j + 1
  OBVIOUS
<1>1. n + 4 <= Len(graph.nodes)
  BY DEF GeluAt, MatchesGelu
<1>2. j \in Nodes(graph) /\ j \in Nat
  BY <1>1, GraphFacts
<1>3. j - n \in 0 .. 3 /\ n + (j - n) = j
  OBVIOUS
<1>4. \A m \in Readers(graph, Out(graph, j)) : m <= j + 1
  <2>1. \A m \in Readers(graph, Out(graph, n + (j - n))) : m <= n + (j - n) + 1
    BY <1>3 DEF GeluAt, TemporariesPrivate
  <2> QED
    BY <2>1, <1>3
<1>5. \A m \in Readers(graph, Out(graph, j)) : m \in Nodes(graph) /\ j < m
  BY <1>2, ReaderAfter
<1> QED
  BY <1>2, <1>4, <1>5, GraphFacts DEF OutOf

LEMMA GeluFolded ==
  ASSUME graph \in Graphs, NEW n \in 1 .. Limit, NEW f, FoldInv(n, f)
  PROVE  FoldInv(n, FoldGelu(n, f))
<1> DEFINE first == n + f.span
           g == FoldGelu(n, f)
<1>1. CASE ~(/\ first + 4 <= Limit /\ GeluAt(graph, first)
             /\ ChainSource(graph, first) = f.out
             /\ ConsumedWithin(graph, f.out, first, 5))
  <2>1. g = f
    BY <1>1 DEF FoldGelu
  <2> QED
    BY <2>1 DEF FoldInv
<1>2. CASE /\ first + 4 <= Limit /\ GeluAt(graph, first)
           /\ ChainSource(graph, first) = f.out
           /\ ConsumedWithin(graph, f.out, first, 5)
  <2>1. g = [span |-> f.span + 5, out |-> OutOf(first + 4), residual |-> f.residual]
    <3>1. g = [f EXCEPT !.span = @ + 5, !.out = OutOf(first + 4)]
      BY <1>2 DEF FoldGelu
    <3>2. f = [span |-> f.span, out |-> f.out, residual |-> f.residual]
      BY DEF FoldInv
    <3> QED
      BY <3>1, <3>2
  <2>3. f.span \in Nat \ {0} /\ n \in Nat /\ Limit \in Nat /\ first \in Nat /\ first >= 1
    BY LimitFacts DEF FoldInv
  <2>4. /\ Private(n, f.span + 5)
        /\ \A r : r # NoTensor /\ r = f.residual =>
              /\ r \notin graph.const
              /\ \E j \in n + 1 .. n + (f.span + 5) - 1 : r \in Ins(graph, j)
              /\ r = graph.input \/ \E m \in 1 .. n - 1 : OutOf(m) = r
    <3>1. n + f.span + 5 - 1 <= Limit /\ 5 \in Nat \ {0}
      BY <1>2, <2>3
    <3>2. Readers(graph, f.out) \subseteq n + f.span .. n + f.span + 5 - 1
      BY <1>2 DEF ConsumedWithin
    <3>3. ASSUME NEW j \in n + f.span .. n + f.span + 5 - 2
          PROVE  Readers(graph, OutOf(j)) \subseteq j + 1 .. n + f.span + 5 - 1
      <4>1. j \in first .. first + 3
        BY <2>3
      <4>2. Readers(graph, OutOf(j)) \subseteq j + 1 .. j + 1
        BY <1>2, <2>3, <4>1, ChainPrivate
      <4> QED
        BY <2>3, <4>2
    <3> QED
      BY <3>1, <3>2, <3>3, Taken
  <2> QED
    <3>1. n + (f.span + 5) - 1 = first + 4 /\ f.span + 5 \in Nat \ {0}
      BY <2>3
    <3>2. f.residual # NoTensor =>
            /\ f.residual \notin graph.const
            /\ \E j \in n + 1 .. n + (f.span + 5) - 1 : f.residual \in Ins(graph, j)
            /\ f.residual = graph.input \/ \E m \in 1 .. n - 1 : OutOf(m) = f.residual
      BY <2>4
    <3>3. first + 4 <= Limit
      BY <1>2
    <3> HIDE DEF first
    <3> QED
      BY <2>1, <2>4, <3>1, <3>2, <3>3, FoldIs
<1> QED
  BY <1>1, <1>2

(* fold_conv_epilogue                                                      *)
LEMMA FoldFacts ==
  ASSUME graph \in Graphs, NEW n \in 1 .. Limit
  PROVE  FoldInv(n, Fold(n))
<1> DEFINE bare == [span |-> 1, out |-> OutOf(n), residual |-> NoTensor]
<1>1. n \in Nat /\ Limit \in Nat
  BY LimitFacts
<1>2. FoldInv(n, bare)
  <2>1. n .. n + 1 - 2 = {} /\ n + 1 - 1 = n
    BY <1>1
  <2> QED
    BY <1>1, <2>1 DEF FoldInv, Private
<1> HIDE DEF bare
<1>3. FoldInv(n, FoldBias(n, bare))
  BY <1>2, BiasFolded
<1>4. FoldInv(n, FoldResidual(n, FoldBias(n, bare)))
  BY <1>3, ResidualFolded
<1>5. FoldInv(n, FoldGelu(n, FoldResidual(n, FoldBias(n, bare))))
  BY <1>4, GeluFolded
<1> QED
  BY <1>2, <1>3, <1>5 DEF Fold, bare

LEMMA SpanFacts ==
  ASSUME graph \in Graphs, NEW n \in 1 .. Limit
  PROVE  /\ Span(n) \in Nat \ {0} /\ Last(n) \in n .. Limit /\ Private(n, Span(n))
         /\ Follow(n) \in n + 1 .. Limit + 1
<1>1. n \in Nat /\ Limit \in Nat
  BY LimitFacts
<1>2. Span(n) \in Nat \ {0} /\ n + Span(n) - 1 <= Limit /\ Private(n, Span(n))
  <2>1. CASE AtChain(n)
    <3>1. \A j \in n .. n + 3 : Readers(graph, OutOf(j)) \subseteq j + 1 .. j + 1
      BY <1>1, <2>1, ChainPrivate DEF AtChain
    <3>2. Private(n, 5)
      <4>1. ASSUME NEW j \in n .. n + 5 - 2
            PROVE  Readers(graph, OutOf(j)) \subseteq j + 1 .. n + 5 - 1
        <5>1. Readers(graph, OutOf(j)) \subseteq j + 1 .. j + 1
          BY <1>1, <3>1
        <5> QED
          BY <1>1, <5>1
      <4> QED
        BY <4>1 DEF Private
    <3>3. n + 5 - 1 <= Limit
      BY <1>1, <2>1 DEF AtChain
    <3> QED
      BY <2>1, <3>2, <3>3 DEF Span
  <2>2. CASE ~AtChain(n) /\ Op(n) = "conv"
    <3>1. FoldInv(n, Fold(n)) /\ Span(n) = Fold(n).span
      BY <2>2, FoldFacts DEF Span
    <3> QED
      BY <3>1 DEF FoldInv
  <2>3. CASE ~AtChain(n) /\ Op(n) # "conv"
    <3>1. Span(n) = 1
      BY <2>3 DEF Span
    <3>2. n .. n + 1 - 2 = {}
      BY <1>1
    <3> QED
      BY <1>1, <3>1, <3>2 DEF Private
  <2> QED
    BY <2>1, <2>2, <2>3
<1> QED
  BY <1>1, <1>2 DEF Follow, Last

(* The tail's first node reads the activation.                             *)
LEMMA TailFacts ==
  ASSUME graph \in Graphs, CtcTail
  PROVE  /\ Limit + 1 \in Nodes(graph) /\ Span(Limit + 1) = 1 /\ Last(Limit + 1) = Limit + 1
         /\ Activation \in Values /\ Activation \in Ins(graph, Limit + 1)
         /\ Activation \notin graph.const
<1>1. Len(graph.nodes) \in Nat /\ Nodes(graph) = 1 .. Len(graph.nodes) /\ Len(graph.nodes) >= 3
  BY GraphFacts DEF CtcTail
<1>2. Limit + 1 = Len(graph.nodes) - 2 /\ Limit + 1 \in Nodes(graph) /\ Limit \in Nat
  BY <1>1 DEF Limit
<1>3. Op(Limit + 1) = "matmul"
  BY <1>2 DEF CtcTail
<1>4. 1 \in Slots(graph, Limit + 1)
  BY <1>2, OperandFacts
<1>5. ~AtChain(Limit + 1)
  BY <1>2 DEF AtChain
<1>6. Activation \in Ins(graph, Limit + 1)
  BY <1>4 DEF Activation, In, Ins
<1>7. Activation \notin graph.const
  BY <1>2, <1>3, OperandsAssumption DEF Activation, In, Op
<1>8. Span(Limit + 1) = 1
  BY <1>3, <1>5 DEF Span
<1> QED
  BY <1>2, <1>6, <1>7, <1>8, OperandFacts DEF Last, Values

LEMMA SameTail ==
  ASSUME UNCHANGED <<graph, strategy>>
  PROVE  CtcTail' = CtcTail /\ Limit' = Limit /\ Activation' = Activation
<1>1. CtcTail' = CtcTail
  BY DEF CtcTail, Op, In, OutOf, IsConst
<1>2. Limit' = Limit
  BY <1>1 DEF Limit
<1> QED
  BY <1>1, <1>2 DEF Activation, In

(* The nodes that lower_ops comes to: the first one, and the one behind    *)
(* each of them; every set that is closed in this way holds them all.      *)
Heads ==
  {n \in 1 .. Limit + 1 :
     \A S \in SUBSET (1 .. Limit + 1) :
       1 \in S /\ (\A m \in S : m <= Limit => Follow(m) \in S) => n \in S}

LEMMA HeadsLeast ==
  ASSUME NEW S, S \subseteq Heads, 1 \in S, \A m \in S : m <= Limit => Follow(m) \in S
  PROVE  S = Heads
<1>1. S \in SUBSET (1 .. Limit + 1)
  BY DEF Heads
<1> QED
  BY <1>1 DEF Heads

LEMMA HeadsFacts ==
  ASSUME graph \in Graphs
  PROVE  /\ Heads \subseteq 1 .. Limit + 1 /\ 1 \in Heads
         /\ \A h \in Heads : h <= Limit => Follow(h) \in Heads
         /\ \A h, k \in Heads : h < k => Follow(h) <= k
         /\ \A k \in Heads : \A m \in 1 .. k - 1 : \E h \in Heads : h < k /\ m \in h .. Last(h)
<1>1. Limit \in Nat
  BY LimitFacts
<1>2. Heads \subseteq 1 .. Limit + 1
  BY DEF Heads
<1>3. 1 \in Heads
  <2>1. 1 \in 1 .. Limit + 1
    BY <1>1
  <2> QED
    BY <2>1 DEF Heads
<1>4. ASSUME NEW h \in Heads, h <= Limit PROVE Follow(h) \in Heads
  <2>1. h \in 1 .. Limit
    BY <1>1, <1>2, <1>4
  <2>2. Follow(h) \in 1 .. Limit + 1
    BY <1>1, <2>1, SpanFacts
  <2> QED
    BY <1>4, <2>2 DEF Heads
<1>5. \A h \in Heads : h \in Nat /\ h >= 1 /\ h <= Limit + 1
  BY <1>1, <1>2
<1>6. \A h \in Heads : h <= Limit => Follow(h) \in Nat /\ Follow(h) > h
  <2> TAKE h \in Heads
  <2> HAVE h <= Limit
  <2>1. h \in 1 .. Limit
    BY <1>1, <1>5
  <2> QED
    BY <1>1, <2>1, SpanFacts
<1>7. \A h, k \in Heads : h < k => Follow(h) <= k
  <2> DEFINE K == {k \in Heads : \A h \in Heads : h < k => Follow(h) <= k}
  <2>1. 1 \in K
    BY <1>3, <1>5
  <2>2. ASSUME NEW n \in K, n <= Limit PROVE Follow(n) \in K
    <3>1. n \in Heads /\ Follow(n) \in Heads /\ \A h \in Heads : h < n => Follow(h) <= n
      BY <1>4, <2>2
    <3> DEFINE S == {m \in Heads : ~(n < m /\ m < Follow(n))}
    <3>2. S = Heads
      <4>1. 1 \in S
        BY <1>3, <1>5, <3>1
      <4>2. ASSUME NEW m \in S, m <= Limit PROVE Follow(m) \in S
        <5>1. m \in Heads /\ Follow(m) \in Heads /\ Follow(m) \in Nat /\ Follow(m) > m
          BY <1>4, <1>6, <4>2
        <5>2. CASE m < n
          BY <1>5, <3>1, <5>1, <5>2
        <5>3. CASE m = n
          BY <1>5, <3>1, <5>1, <5>3
        <5>4. CASE m > n
          <6>1. m >= Follow(n)
            BY <1>5, <1>6, <2>2, <3>1, <5>4
          <6> QED
            BY <1>5, <1>6, <2>2, <3>1, <5>1, <6>1
        <5> QED
          BY <1>5, <3>1, <5>1, <5>2, <5>3, <5>4
      <4> HIDE DEF S
      <4>3. S \subseteq Heads
        BY DEF S
      <4> QED
        BY <4>1, <4>2, <4>3, HeadsLeast
    <3>3. ASSUME NEW h \in Heads, h < Follow(n) PROVE Follow(h) <= Follow(n)
      <4>1. h \in S
        BY <3>2
      <4>2. h <= n
        BY <1>5, <3>1, <3>3, <4>1
      <4>3. CASE h = n
        BY <1>6, <2>2, <3>1, <4>3
      <4>4. CASE h < n
        <5>1. Follow(h) <= n /\ Follow(n) > n
          BY <1>6, <2>2, <3>1, <4>4
        <5>2. h <= Limit
          BY <1>1, <1>5, <2>2, <3>1, <4>4
        <5> QED
          BY <1>5, <1>6, <2>2, <3>1, <5>1, <5>2
      <4> QED
        BY <1>5, <3>1, <4>2, <4>3, <4>4
    <3> QED
      BY <3>1, <3>3
  <2>3. K \subseteq Heads
    OBVIOUS
  <2> HIDE DEF K
  <2>4. K = Heads
    BY <2>1, <2>2, <2>3, HeadsLeast
  <2> QED
    BY <2>4 DEF K
<1>8. \A k \in Heads : \A m \in 1 .. k - 1 : \E h \in Heads : h < k /\ m \in h .. Last(h)
  <2> DEFINE K == {k \in Heads : \A m \in 1 .. k - 1 : \E h \in Heads : h < k /\ m \in h .. Last(h)}
  <2>1. 1 \in K
    BY <1>3
  <2>2. ASSUME NEW n \in K, n <= Limit PROVE Follow(n) \in K
    <3>1. n \in Heads /\ Follow(n) \in Heads /\ Follow(n) \in Nat /\ Follow(n) > n
      BY <1>4, <1>6, <2>2
    <3>2. n \in 1 .. Limit /\ Span(n) \in Nat /\ Follow(n) = n + Span(n) /\ Last(n) = n + Span(n) - 1
      BY <1>1, <1>5, <2>2, <3>1, SpanFacts DEF Follow, Last
    <3>3. ASSUME NEW m \in 1 .. Follow(n) - 1
          PROVE  \E h \in Heads : h < Follow(n) /\ m \in h .. Last(h)
      <4>1. CASE m \in 1 .. n - 1
        <5>1. PICK h \in Heads : h < n /\ m \in h .. Last(h)
          BY <2>2, <4>1
        <5> QED
          BY <1>5, <3>1, <5>1
      <4>2. CASE m \in n .. Last(n)
        BY <3>1, <4>2
      <4> QED
        BY <3>2, <3>1, <4>1, <4>2
    <3> QED
      BY <3>1, <3>3
  <2>3. K \subseteq Heads
    OBVIOUS
  <2> HIDE DEF K
  <2>4. K = Heads
    BY <2>1, <2>2, <2>3, HeadsLeast
  <2> QED
    BY <2>4 DEF K
<1> QED
  BY <1>2, <1>3, <1>4, <1>7, <1>8

(* The operation that is made at a node has the number of operations that  *)
(* were made before.                                                       *)
Index(n) == Cardinality({m \in Heads : m < n /\ ~Renames(m)})

LEMMA IndexFacts ==
  ASSUME graph \in Graphs
  PROVE  /\ \A n \in Heads : Index(n) \in Nat
         /\ Index(1) = 0
         /\ \A n \in Heads : n <= Limit =>
              Index(Follow(n)) = IF Renames(n) THEN Index(n) ELSE Index(n) + 1
         /\ \A n, k \in Heads : n <= k => Index(n) <= Index(k)
         /\ \A n, k \in Heads : n < k /\ ~Renames(n) => Index(n) < Index(k)
<1> DEFINE Made(n) == {m \in Heads : m < n /\ ~Renames(m)}
<1>1. Limit \in Nat /\ \A h \in Heads : h \in Nat /\ h >= 1 /\ h <= Limit + 1
  BY LimitFacts, HeadsFacts
<1>2. \A n : IsFiniteSet(Made(n))
  <2>1. IsFiniteSet(1 .. Limit + 1)
    BY <1>1, FS_Interval
  <2>2. \A n : Made(n) \subseteq 1 .. Limit + 1
    BY HeadsFacts
  <2> HIDE DEF Made
  <2> QED
    BY <2>1, <2>2, FS_Subset
<1>3. \A n : Index(n) = Cardinality(Made(n))
  BY DEF Index
<1>4. \A n : Index(n) \in Nat
  BY <1>2, <1>3, FS_CardinalityType
<1>5. Made(1) = {}
  BY <1>1
<1>6. ASSUME NEW n \in Heads, n <= Limit
      PROVE  Index(Follow(n)) = IF Renames(n) THEN Index(n) ELSE Index(n) + 1
  <2>1. Follow(n) \in Heads /\ Follow(n) > n
    <3>1. n \in 1 .. Limit
      BY <1>1, <1>6
    <3> QED
      BY <1>1, <1>6, <3>1, HeadsFacts, SpanFacts
  <2>2. \A m \in Heads : m < Follow(n) <=> (m < n \/ m = n)
    <3> TAKE m \in Heads
    <3>1. n < m => ~(m < Follow(n))
      BY <1>1, <2>1, HeadsFacts
    <3> QED
      BY <1>1, <2>1, <3>1
  <2>3. Made(Follow(n)) = IF Renames(n) THEN Made(n) ELSE Made(n) \cup {n}
    BY <2>2
  <2>4. n \notin Made(n)
    BY <1>1
  <2> HIDE DEF Made
  <2>5. Cardinality(Made(n) \cup {n}) = Cardinality(Made(n)) + 1
    BY <1>2, <2>4, FS_AddElement
  <2> QED
    BY <1>3, <2>3, <2>5
<1>7. ASSUME NEW n \in Heads, NEW k \in Heads, n <= k
      PROVE  Index(n) <= Index(k)
  <2>1. Made(n) \subseteq Made(k)
    BY <1>1, <1>7
  <2> HIDE DEF Made
  <2> QED
    BY <1>2, <1>3, <2>1, FS_Subset
<1>8. ASSUME NEW n \in Heads, NEW k \in Heads, n < k, ~Renames(n)
      PROVE  Index(n) < Index(k)
  <2>1. Made(n) \subseteq Made(k) /\ n \in Made(k) /\ n \notin Made(n)
    BY <1>1, <1>8
  <2> HIDE DEF Made
  <2>2. Made(n) # Made(k)
    BY <2>1
  <2>3. Cardinality(Made(n)) <= Cardinality(Made(k))
    BY <1>2, <2>1, FS_Subset
  <2>4. Cardinality(Made(n)) # Cardinality(Made(k))
    BY <1>2, <2>1, <2>2, FS_Subset
  <2> QED
    BY <1>3, <1>4, <2>3, <2>4
<1>9. Index(1) = 0
  BY <1>3, <1>5, FS_EmptySet
<1> QED
  BY <1>4, <1>6, <1>7, <1>8, <1>9

(* The steps keep the graph and the strategy.                              *)
LEMMA SameClaims ==
  ASSUME graph' = graph
  PROVE  \A t : ClaimedNhwc(t)' = ClaimedNhwc(t)
BY DEF ClaimedNhwc, Op, In, IsConst

LEMMA SameFold ==
  ASSUME UNCHANGED <<graph, strategy>>
  PROVE  /\ Limit' = Limit
         /\ \A n : Fold(n)' = Fold(n)
<1>1. CtcTail' = CtcTail
  BY DEF CtcTail, Op, In, OutOf, IsConst
<1>2. Limit' = Limit
  BY <1>1 DEF Limit
<1>3. \A n, t : AddsTo(n, t)' = AddsTo(n, t) /\ OtherOperand(n, t)' = OtherOperand(n, t)
  BY <1>2 DEF AddsTo, OtherOperand, Op, In, OutOf, Bytes
<1>4. \A n, f : FoldBias(n, f)' = FoldBias(n, f)
  BY <1>3 DEF FoldBias, IsConst, Bytes, OutOf
<1>5. \A n, f : FoldResidual(n, f)' = FoldResidual(n, f)
  BY <1>3 DEF FoldResidual, IsConst, Bytes, OutOf
<1>6. \A n, f : FoldGelu(n, f)' = FoldGelu(n, f)
  BY <1>2 DEF FoldGelu, OutOf
<1>7. \A n : Fold(n)' = Fold(n)
  BY <1>4, <1>5, <1>6 DEF Fold, OutOf
<1> QED
  BY <1>2, <1>7

LEMMA SameLowering ==
  ASSUME UNCHANGED <<graph, strategy>>
  PROVE  /\ Limit' = Limit
         /\ \A n : Renames(n)' = Renames(n)
         /\ \A n : Span(n)' = Span(n) /\ Follow(n)' = Follow(n) /\ Last(n)' = Last(n)
                   /\ ResultOf(n)' = ResultOf(n) /\ OutOf(n)' = OutOf(n)
         /\ Heads' = Heads
         /\ \A n : Index(n)' = Index(n)
<1>1. Limit' = Limit /\ \A n : Fold(n)' = Fold(n)
  BY SameFold
<1>2. \A n : Renames(n)' = Renames(n)
  <2>1. \A n : FromMap(n)' = FromMap(n)
    BY SameClaims DEF FromMap, In, OutOf
  <2> QED
    BY <2>1 DEF Renames, ToMap, IsReshape, Op, In, OutOf
<1>3. \A n : Span(n)' = Span(n)
  <2>1. \A n : AtChain(n)' = AtChain(n)
    BY <1>1 DEF AtChain
  <2> QED
    BY <1>1, <2>1 DEF Span, Op
<1>4. \A n : Follow(n)' = Follow(n) /\ Last(n)' = Last(n) /\ OutOf(n)' = OutOf(n)
  BY <1>3 DEF Follow, Last, OutOf
<1>5. \A n : ResultOf(n)' = ResultOf(n)
  BY <1>4 DEF ResultOf, OutOf
<1>6. Heads' = Heads
  BY <1>1, <1>4 DEF Heads
<1>7. \A n : Index(n)' = Index(n)
  BY <1>2, <1>6 DEF Index
<1> QED
  BY <1>1, <1>2, <1>3, <1>4, <1>5, <1>6, <1>7

-----------------------------------------------------------------------------
(* The operation that is made at a node.                                   *)

Compiled(n) ==
  IF AtChain(n) THEN Operation("gelu", n, 5, {Operand(ChainSource(graph, n), "same")},
                               Result(OutOf(n + 4), "same"))
  ELSE IF IsReshape(n) THEN Repack(n)
  ELSE IF Op(n) = "conv" THEN ConvOperation(n)
  ELSE CompileNode(n)

LEMMA SameOperation ==
  ASSUME UNCHANGED <<graph, strategy, offset>>
  PROVE  \A n : Compiled(n)' = Compiled(n)
<1>1. /\ Limit' = Limit
      /\ \A n : Fold(n)' = Fold(n)
      /\ \A t : ClaimedNhwc(t)' = ClaimedNhwc(t)
  BY SameFold, SameClaims
<1>2. \A t, w : Operand(t, w)' = Operand(t, w) /\ Result(t, w)' = Result(t, w)
  BY DEF Operand, Result
<1>3. \A n, w : Operands(n, w)' = Operands(n, w)
  BY <1>2 DEF Operands, IsConst
<1>4. \A n : AtChain(n)' = AtChain(n) /\ FromMap(n)' = FromMap(n) /\ OutOf(n)' = OutOf(n)
             /\ In(n, 1)' = In(n, 1) /\ In(n, 2)' = In(n, 2) /\ Op(n)' = Op(n)
  BY <1>1 DEF AtChain, FromMap, In, OutOf, Op
<1>5. MapOrder' = MapOrder /\ \A n : ByRank(n)' = ByRank(n)
  BY DEF MapOrder, ByRank, In
<1>6. \A n : Repack(n)' = Repack(n)
  BY <1>2, <1>3, <1>4 DEF Repack
<1>7. \A n : ConvOperation(n)' = ConvOperation(n)
  BY <1>1, <1>2, <1>3, <1>4, <1>5 DEF ConvOperation
<1>8. \A n : BinaryOperation(n)' = BinaryOperation(n)
  <2>1. \A n : Mixed(n)' = Mixed(n)
    BY <1>1, <1>4 DEF Mixed, Claim, IsSame, Bytes, IsConst
  <2>2. \A t : Claim(t)' = Claim(t)
    BY <1>1 DEF Claim
  <2>3. \A n : {Operand(In(n, s), Claim(In(n, s))) : s \in 1..2}'
               = {Operand(In(n, s), Claim(In(n, s))) : s \in 1..2}
    BY <1>2, <2>2 DEF In
  <2> QED
    BY <1>2, <1>3, <1>4, <2>1, <2>3 DEF BinaryOperation
<1>9. \A n : CompileNode(n)' = CompileNode(n)
  <2>1. \A n : /\ MapOperation(n)' = MapOperation(n) /\ AffineOperation(n)' = AffineOperation(n)
               /\ MeanOperation(n)' = MeanOperation(n) /\ UnaryOperation(n)' = UnaryOperation(n)
               /\ CanonicalOperation(n)' = CanonicalOperation(n)
    BY <1>2, <1>3, <1>4, <1>5
       DEF MapOperation, AffineOperation, MeanOperation, UnaryOperation, CanonicalOperation
  <2> QED
    BY <1>4, <1>8, <2>1 DEF CompileNode
<1> QED
  <2>1. \A n : Operation("gelu", n, 5, {Operand(ChainSource(graph, n), "same")},
                        Result(OutOf(n + 4), "same"))'
              = Operation("gelu", n, 5, {Operand(ChainSource(graph, n), "same")},
                          Result(OutOf(n + 4), "same"))
    BY <1>2 DEF OutOf
  <2>2. \A n : IsReshape(n)' = IsReshape(n)
    BY <1>4 DEF IsReshape
  <2> QED
    BY <1>4, <1>6, <1>7, <1>9, <2>1, <2>2 DEF Compiled

LEMMA CompiledFacts ==
  ASSUME graph \in Graphs, NEW n \in 1 .. Limit, ~Renames(n)
  PROVE  LET o == Compiled(n)
         IN  /\ o = [kind |-> o.kind, begin |-> n, count |-> Span(n),
                     ins |-> o.ins, out |-> o.out, ffn |-> FALSE]
             /\ o.out.value = ResultOf(n) /\ o.out.offset = offset[ResultOf(n)]
<1>1. n \in Nat /\ (Span(n) = 1 => ResultOf(n) = OutOf(n)) /\ (Span(n) = 5 => ResultOf(n) = OutOf(n + 4))
  BY LimitFacts DEF ResultOf, Last
<1>2. CASE AtChain(n)
  <2>1. Span(n) = 5
    BY <1>2 DEF Span
  <2> QED
    BY <1>1, <1>2, <2>1 DEF Compiled, Operation, Result
<1>3. CASE ~AtChain(n) /\ IsReshape(n)
  <2>1. Span(n) = 1
    BY <1>3 DEF Span, IsReshape
  <2> QED
    BY <1>1, <1>3, <2>1 DEF Compiled, Repack, Operation, Result
<1>4. CASE ~AtChain(n) /\ ~IsReshape(n) /\ Op(n) = "conv"
  <2>1. Span(n) = Fold(n).span /\ Fold(n).out = ResultOf(n)
    BY <1>4, FoldFacts DEF Span, FoldInv, ResultOf, Last
  <2> QED
    BY <1>4, <2>1 DEF Compiled, ConvOperation, Operation, Result
<1>5. CASE ~AtChain(n) /\ ~IsReshape(n) /\ Op(n) # "conv"
  <2>1. Span(n) = 1
    BY <1>5 DEF Span
  <2>2. Compiled(n) = CompileNode(n)
    BY <1>5 DEF Compiled
  <2>3. ASSUME NEW kind, NEW ins, NEW give, CompileNode(n) = Operation(kind, n, 1, ins, Result(OutOf(n), give))
        PROVE  LET o == CompileNode(n)
               IN  /\ o = [kind |-> o.kind, begin |-> n, count |-> 1,
                           ins |-> o.ins, out |-> o.out, ffn |-> FALSE]
                   /\ o.out.value = OutOf(n) /\ o.out.offset = offset[OutOf(n)]
    BY <2>3 DEF Operation, Result
  <2>4. \E kind, ins, give : CompileNode(n) = Operation(kind, n, 1, ins, Result(OutOf(n), give))
    BY DEF CompileNode, MapOperation, AffineOperation, BinaryOperation, UnaryOperation,
       MeanOperation, CanonicalOperation
  <2> QED
    BY <1>1, <2>1, <2>2, <2>3, <2>4
<1> QED
  BY <1>2, <1>3, <1>4, <1>5

(* A tensor that the nodes of an operation read and that was there before. *)
Found(n, t) ==
  /\ t \notin graph.const
  /\ \E k \in n .. Last(n) : t \in Ins(graph, k)
  /\ t = graph.input \/ \E m \in 1 .. n - 1 : OutOf(m) = t

LEMMA FirstFound ==
  ASSUME graph \in Graphs, NEW n \in 1 .. Limit, NEW t \in Ins(graph, n), t \notin graph.const
  PROVE  Found(n, t)
<1>1. n \in Nodes(graph) /\ n \in Nat /\ Last(n) \in n .. Limit /\ Limit \in Nat
  BY LimitFacts, SpanFacts
<1>2. n \in n .. Last(n)
  BY <1>1
<1>3. t = graph.input \/ \E m \in 1 .. n - 1 : OutOf(m) = t
  <2>1. \/ t = graph.input
        \/ \E m \in Nodes(graph) : m < n /\ Out(graph, m) = t
    BY <1>1, OperandFacts
  <2>2. \A m \in Nodes(graph) : m < n => m \in 1 .. n - 1
    BY <1>1, GraphFacts
  <2> QED
    BY <2>1, <2>2 DEF OutOf
<1> QED
  BY <1>2, <1>3 DEF Found

(* The pointwise convolutions, whatever the offsets are, and those that    *)
(* read one tensor only.                                                   *)
PointwiseConv(n) ==
  /\ ~AtChain(n) /\ ~IsReshape(n)
  /\ IF Op(n) = "conv" THEN graph.nodes[n].form = "pointwise" ELSE Op(n) = "pointwise"
Plain(n) == Fold(n).residual \in {NoTensor, In(n, 1)}

LEMMA PointwiseIs ==
  \A n : Compiled(n).kind = "pointwise" <=> PointwiseConv(n)
<1> SUFFICES ASSUME NEW n PROVE Compiled(n).kind = "pointwise" <=> PointwiseConv(n)
  OBVIOUS
<1>1. CASE AtChain(n) \/ IsReshape(n)
  BY <1>1 DEF PointwiseConv, Compiled, Repack, Operation
<1>2. CASE ~AtChain(n) /\ ~IsReshape(n) /\ Op(n) = "conv"
  BY <1>2 DEF PointwiseConv, Compiled, ConvOperation, Operation
<1>3. CASE ~AtChain(n) /\ ~IsReshape(n) /\ Op(n) # "conv"
  BY <1>3 DEF PointwiseConv, Compiled, CompileNode, MapOperation, AffineOperation, MeanOperation,
     BinaryOperation, UnaryOperation, CanonicalOperation, Operation
<1> QED
  BY <1>1, <1>2, <1>3

LEMMA PointwiseFacts ==
  ASSUME graph \in Graphs, NEW n \in 1 .. Limit, PointwiseConv(n)
  PROVE  /\ \A o \in Compiled(n).ins : Found(n, o.value) /\ o.offset = offset[o.value]
         /\ Span(n) >= 6 =>
              /\ HasResidual(Compiled(n)) <=> ~Plain(n)
              /\ Plain(n) => \A o \in Compiled(n).ins : o.value = In(n, 1)
              /\ Found(n, In(n, 1))
<1>0. n \in Nat /\ Limit \in Nat /\ n \in Nodes(graph) /\ Span(n) \in Nat
  BY LimitFacts, SpanFacts
<1>1. ~AtChain(n) /\ ~IsReshape(n)
  BY DEF PointwiseConv
<1>2. \A w : \A o \in Operands(n, w) :
        /\ Found(n, o.value) /\ o.offset = offset[o.value] /\ o = Operand(o.value, w)
        /\ o.value \in Ins(graph, n) /\ o.value \notin graph.const
  BY FirstFound DEF Operands, Operand, IsConst
<1>3. CASE Op(n) = "conv"
  <2> DEFINE r == Fold(n).residual
             x == Operand(In(n, 1), MapOrder)
             y == Operand(r, MapOrder)
  <2>1. /\ Compiled(n) = ConvOperation(n) /\ FoldInv(n, Fold(n))
        /\ Last(n) = n + Fold(n).span - 1
    BY <1>1, <1>3, FoldFacts DEF Compiled, Span, Last
  <2>2. Compiled(n).ins = Operands(n, MapOrder) \cup (IF r = NoTensor THEN {} ELSE {y})
    BY <2>1 DEF ConvOperation, Operation
  <2>3. r # NoTensor => Found(n, r)
    <3> HAVE r # NoTensor
    <3>1. ResidualFound(n, Fold(n))
      BY <2>1 DEF FoldInv
    <3>2. n + 1 .. n + Fold(n).span - 1 \subseteq n .. Last(n)
      BY <1>0, <2>1 DEF FoldInv
    <3> QED
      BY <3>1, <3>2 DEF ResidualFound, Found
  <2>4. \A o \in Compiled(n).ins : Found(n, o.value) /\ o.offset = offset[o.value]
    BY <1>2, <2>2, <2>3 DEF Operand
  <2>5. In(n, 1) \in Ins(graph, n) /\ In(n, 1) \notin graph.const
        /\ \A t \in Ins(graph, n) : t = In(n, 1) \/ t \in graph.const
    <3>1. 1 \in Slots(graph, n)
      BY <1>0, OperandFacts
    <3> QED
      BY <1>0, <1>3, <3>1, OperandsAssumption DEF In, Ins, Op
  <2>6. Operands(n, MapOrder) = {x}
    BY <2>5 DEF Operands, IsConst
  <2>7. Plain(n) => Compiled(n).ins = {x}
    BY <2>2, <2>6 DEF Plain
  <2>8. ~Plain(n) => Compiled(n).ins = {x} \cup {y} /\ y \notin {x}
    BY <2>2, <2>6 DEF Plain, Operand
  <2>9. \A o \in {x} : o.value = In(n, 1)
    BY DEF Operand
  <2> HIDE DEF x, y
  <2>10. Cardinality({x}) = 1 /\ IsFiniteSet({x})
    BY FS_Singleton
  <2>11. ~Plain(n) => Cardinality({x} \cup {y}) = 2
    <3>1. y \notin {x} => Cardinality({x} \cup {y}) = Cardinality({x}) + 1
      BY <2>10, FS_AddElement
    <3> QED
      BY <2>8, <2>10, <3>1
  <2>12. HasResidual(Compiled(n)) <=> ~Plain(n)
    BY <2>7, <2>8, <2>10, <2>11 DEF HasResidual
  <2>13. Plain(n) => \A o \in Compiled(n).ins : o.value = In(n, 1)
    BY <2>7, <2>9
  <2>14. Found(n, In(n, 1))
    BY <2>5, FirstFound
  <2> QED
    BY <2>4, <2>12, <2>13, <2>14
<1>4. CASE Op(n) # "conv"
  <2>1. Compiled(n) = CanonicalOperation(n) /\ Span(n) = 1
    BY <1>1, <1>4 DEF PointwiseConv, Compiled, CompileNode, Span
  <2>2. Compiled(n).ins = Operands(n, "canon")
    BY <2>1 DEF CanonicalOperation, Operation
  <2> QED
    BY <1>2, <2>1, <2>2
<1> QED
  BY <1>3, <1>4

(* What an operation finds is the graph's input or another node's result,  *)
(* never a result inside another operation.                                *)
LEMMA FoundIsResult ==
  ASSUME graph \in Graphs, NEW n \in Heads, n <= Limit \/ CtcTail, NEW t, Found(n, t)
  PROVE  t = graph.input \/ \E h \in Heads : h < n /\ ResultOf(h) = t
<1>1. Limit \in Nat /\ \A h \in Heads : h \in Nat /\ h >= 1 /\ h <= Limit + 1
  BY LimitFacts, HeadsFacts
<1>2. SUFFICES ASSUME NEW m \in 1 .. n - 1, OutOf(m) = t
               PROVE  \E h \in Heads : h < n /\ ResultOf(h) = t
  BY DEF Found
<1>3. PICK h \in Heads : h < n /\ m \in h .. Last(h)
  BY HeadsFacts
<1>4. h \in 1 .. Limit /\ h \in Nat
  BY <1>1, <1>3
<1>5. Follow(h) <= n /\ Follow(h) = Last(h) + 1 /\ Last(h) \in Nat /\ Private(h, Span(h))
      /\ Span(h) \in Nat /\ Last(h) = h + Span(h) - 1
  <2>1. Follow(h) <= n
    BY <1>3, HeadsFacts
  <2>2. Span(h) \in Nat \ {0} /\ Private(h, Span(h))
    BY <1>4, SpanFacts
  <2> QED
    BY <1>4, <2>1, <2>2 DEF Follow, Last
<1>6. PICK k \in n .. Last(n) : t \in Ins(graph, k)
  BY DEF Found
<1>7. k \in Readers(graph, OutOf(m)) /\ k \in Nat
  <2>1. CASE n <= Limit
    <3>1. n \in 1 .. Limit
      BY <1>1, <2>1
    <3>2. Last(n) \in n .. Limit
      BY <3>1, SpanFacts
    <3>3. k \in 1 .. Limit
      BY <1>1, <1>6, <3>1, <3>2
    <3> QED
      BY <1>2, <1>6, <3>3, LimitFacts DEF Readers
  <2>2. CASE ~(n <= Limit)
    <3>1. n = Limit + 1 /\ CtcTail
      BY <1>1, <2>2
    <3>2. k = Limit + 1 /\ k \in Nodes(graph)
      BY <1>1, <1>6, <3>1, TailFacts
    <3> QED
      BY <1>1, <1>2, <1>6, <3>2 DEF Readers
  <2> QED
    BY <2>1, <2>2
<1>8. m = Last(h)
  <2> SUFFICES ASSUME m # Last(h) PROVE FALSE
    OBVIOUS
  <2>1. m \in h .. h + Span(h) - 2
    BY <1>3, <1>4, <1>5
  <2>2. k \in m + 1 .. h + Span(h) - 1
    BY <1>5, <1>7, <2>1 DEF Private
  <2> QED
    BY <1>1, <1>4, <1>5, <1>6, <2>2
<1> QED
  BY <1>2, <1>3, <1>8 DEF ResultOf

(* No two operations have one result.                                      *)
LEMMA ResultsDiffer ==
  ASSUME graph \in Graphs, NEW h \in Heads, NEW k \in Heads, h <= Limit, k <= Limit,
         ResultOf(h) = ResultOf(k)
  PROVE  h = k
<1>1. Limit \in Nat /\ h \in 1 .. Limit /\ k \in 1 .. Limit
  BY LimitFacts, HeadsFacts
<1>2. Last(h) \in h .. Limit /\ Last(k) \in k .. Limit
  BY <1>1, SpanFacts
<1>3. Last(h) \in Nodes(graph) /\ Last(k) \in Nodes(graph)
  BY <1>1, <1>2, LimitFacts
<1>4. Last(h) = Last(k)
  BY <1>3, GraphFacts DEF ResultOf, OutOf
<1>5. Follow(h) = Last(h) + 1 /\ Follow(k) = Last(k) + 1
  <2>1. Span(h) \in Nat /\ Span(k) \in Nat
    BY <1>1, SpanFacts
  <2> QED
    BY <1>1, <2>1 DEF Follow, Last
<1>6. (h < k => Follow(h) <= k) /\ (k < h => Follow(k) <= h)
  BY HeadsFacts
<1> QED
  BY <1>1, <1>2, <1>4, <1>5, <1>6

-----------------------------------------------------------------------------
(* Names.                                                                  *)

(* The reshapes before node N have made their results other names.         *)
Aliased(N) ==
  /\ \A t \in Values : alias_of[t] # NoTensor =>
       \E m \in Heads : m < N /\ Renames(m) /\ t = OutOf(m) /\ alias_of[t] = In(m, 1)
  /\ \A m \in Heads : m < N /\ Renames(m) => alias_of[OutOf(m)] = In(m, 1)

LEMMA AliasFacts ==
  ASSUME graph \in Graphs, NEW N \in Heads, Aliased(N), NEW t \in Values, alias_of[t] # NoTensor
  PROVE  /\ alias_of[t] \in Values /\ alias_of[t] \notin graph.const
         /\ Producer(graph, t) \in 1 .. Limit
         /\ Producer(graph, alias_of[t]) \in 0 .. Producer(graph, t) - 1
         /\ Producer(graph, t) \in Heads /\ Producer(graph, t) < N
         /\ Renames(Producer(graph, t)) /\ Found(Producer(graph, t), alias_of[t])
         /\ t = OutOf(Producer(graph, t)) /\ alias_of[t] \in Ins(graph, Producer(graph, t))
<1>1. PICK m \in Heads : m < N /\ Renames(m) /\ t = OutOf(m) /\ alias_of[t] = In(m, 1)
  BY DEF Aliased
<1>2. Limit \in Nat /\ m \in 1 .. Limit /\ m \in Nodes(graph)
  BY <1>1, LimitFacts, HeadsFacts
<1>3. Producer(graph, t) = m
  BY <1>1, <1>2, ProducerIs DEF OutOf
<1>4. In(m, 1) \in Ins(graph, m) /\ In(m, 1) \in Values /\ In(m, 1) \notin graph.const
  <2>1. Op(m) = "reshape" /\ 1 \in Slots(graph, m)
    BY <1>1, <1>2, OperandFacts DEF Renames, IsReshape
  <2> QED
    BY <1>2, <2>1, OperandFacts, OperandsAssumption DEF In, Ins, Op, Values
<1>5. Found(m, In(m, 1))
  BY <1>2, <1>4, FirstFound
<1>6. Producer(graph, In(m, 1)) \in 0 .. m - 1
  <2>1. CASE In(m, 1) = graph.input
    <3>1. Producer(graph, graph.input) = 0
      BY GraphFacts, ProducerIs
    <3> QED
      BY <1>2, <2>1, <3>1
  <2>2. CASE In(m, 1) # graph.input
    <3>1. PICK k \in 1 .. m - 1 : OutOf(k) = In(m, 1)
      BY <1>5, <2>2 DEF Found
    <3>2. k \in Nodes(graph) /\ k \in 0 .. m - 1
      BY <1>2, <3>1, LimitFacts
    <3> QED
      BY <3>1, <3>2, ProducerIs DEF OutOf
  <2> QED
    BY <2>1, <2>2
<1> QED
  BY <1>1, <1>2, <1>3, <1>4, <1>5, <1>6

(* resolve_alias_root comes to an end.                                     *)
LEMMA RootIs ==
  ASSUME graph \in Graphs, NEW N \in Heads, Aliased(N)
  PROVE  \A t \in Values :
           Root(t) = IF alias_of[t] = NoTensor THEN t ELSE Root(alias_of[t])
<1> DEFINE Next1(f) == [u \in Values |-> IF alias_of[u] = NoTensor THEN u ELSE f[alias_of[u]]]
           Right(f, k) == \A u \in Values : Producer(graph, u) <= k => f[u] = Next1(f)[u]
           S == {k \in 0 .. Len(graph.nodes) : \E f \in [Values -> Values] : Right(f, k)}
<1>1. Len(graph.nodes) \in Nat
  BY GraphFacts
<1>2. \A u \in Values : Producer(graph, u) \in 0 .. Len(graph.nodes)
  BY GraphFacts, ProducerIs DEF Values
<1>3. \A u \in Values : alias_of[u] # NoTensor =>
         /\ alias_of[u] \in Values
         /\ Producer(graph, alias_of[u]) \in 0 .. Producer(graph, u) - 1
  BY AliasFacts
<1>4. \A f \in [Values -> Values] : Next1(f) \in [Values -> Values]
  BY <1>3
<1>5. 0 \in S
  <2> DEFINE f == [u \in Values |-> u]
  <2>1. f \in [Values -> Values]
    OBVIOUS
  <2>2. Right(f, 0)
    BY <1>2, <1>3
  <2>3. 0 \in 0 .. Len(graph.nodes)
    BY <1>1
  <2> HIDE DEF f, Next1
  <2> QED
    BY <2>1, <2>2, <2>3
<1>6. ASSUME NEW k \in 0 .. Len(graph.nodes) - 1, k \in S PROVE k + 1 \in S
  <2>1. PICK f \in [Values -> Values] : Right(f, k)
    BY <1>6
  <2> DEFINE h == Next1(f)
  <2>2. h \in [Values -> Values]
    BY <1>4
  <2>3. ASSUME NEW u \in Values, Producer(graph, u) <= k + 1
        PROVE  h[u] = IF alias_of[u] = NoTensor THEN u ELSE h[alias_of[u]]
    <3>1. CASE alias_of[u] = NoTensor
      BY <3>1
    <3>2. CASE alias_of[u] # NoTensor
      <4>1. alias_of[u] \in Values /\ Producer(graph, alias_of[u]) <= k
        BY <1>1, <1>2, <1>3, <2>3, <3>2
      <4>2. f[alias_of[u]] = h[alias_of[u]]
        BY <2>1, <4>1
      <4> QED
        BY <3>2, <4>2
    <3> QED
      BY <3>1, <3>2
  <2> HIDE DEF h
  <2>4. Right(h, k + 1)
    BY <2>3
  <2> QED
    BY <1>1, <2>2, <2>4
<1>7. Len(graph.nodes) \in S
  <2> HIDE DEF S
  <2>1. 0 .. Len(graph.nodes) \subseteq S
    BY <1>1, <1>5, <1>6, Induction
  <2> QED
    BY <1>1, <2>1
<1>8. PICK f : f \in [Values -> Values] /\ Right(f, Len(graph.nodes))
  BY <1>7
<1>9. f = Next1(f)
  <2>1. \A u \in Values : f[u] = Next1(f)[u]
    BY <1>2, <1>8
  <2> QED
    BY <1>4, <1>8, <2>1
<1> DEFINE root == CHOOSE g : g = [u \in Values |-> IF alias_of[u] = NoTensor THEN u
                                                   ELSE g[alias_of[u]]]
<1>10. root = [u \in Values |-> IF alias_of[u] = NoTensor THEN u ELSE root[alias_of[u]]]
  BY <1>9
<1>11. \A t : Root(t) = root[t]
  BY DEF Root
<1> HIDE DEF root
<1> QED
  BY <1>3, <1>10, <1>11

(* A name stands for the graph's input or for the result of an operation   *)
(* made before the node at which the tensor is found.                      *)
Origin(t, n) ==
  \/ Root(t) = graph.input /\ graph.input \notin graph.const
  \/ \E h \in Heads : h < n /\ ~Renames(h) /\ Root(t) = ResultOf(h)

LEMMA OwnRoot ==
  ASSUME graph \in Graphs, NEW N \in Heads, Aliased(N),
         NEW h \in Heads, h <= Limit, ~Renames(h)
  PROVE  ResultOf(h) \in Values /\ alias_of[ResultOf(h)] = NoTensor /\ Root(ResultOf(h)) = ResultOf(h)
<1>1. Limit \in Nat /\ h \in 1 .. Limit /\ Last(h) \in h .. Limit
  BY LimitFacts, HeadsFacts, SpanFacts
<1>2. ResultOf(h) \in Values
  BY <1>1, LimitFacts, GraphFacts DEF ResultOf, OutOf, Values
<1>3. ASSUME alias_of[ResultOf(h)] # NoTensor PROVE FALSE
  <2>1. PICK m \in Heads : m < N /\ Renames(m) /\ ResultOf(h) = OutOf(m)
    BY <1>2, <1>3 DEF Aliased
  <2>2. m <= Limit /\ m \in Nat
    BY <1>1, <2>1, HeadsFacts
  <2>3. ResultOf(m) = OutOf(m)
    <3>1. ~AtChain(m) /\ Op(m) # "conv"
      BY <1>1, <2>1 DEF Renames, IsReshape, AtChain, GeluAt, MatchesGelu, Chain, Op
    <3> QED
      BY <2>2, <3>1 DEF ResultOf, Last, Span
  <2> QED
    BY <1>1, <2>1, <2>2, <2>3, ResultsDiffer
<1> QED
  BY <1>2, <1>3, RootIs

LEMMA RenamesFacts ==
  ASSUME graph \in Graphs, NEW m \in Heads, m <= Limit, Renames(m)
  PROVE  /\ Span(m) = 1 /\ Last(m) = m /\ ResultOf(m) = OutOf(m) /\ m \in 1 .. Limit
         /\ m \in Nodes(graph) /\ ~AtChain(m)
         /\ OutOf(m) \in Values /\ In(m, 1) \in Values /\ Found(m, In(m, 1))
<1>1. Limit \in Nat /\ m \in 1 .. Limit /\ m \in Nodes(graph)
  BY LimitFacts, HeadsFacts
<1>2. ~AtChain(m) /\ Op(m) = "reshape"
  <2>1. AtChain(m) => Op(m) = "div"
    <3>1. AtChain(m) => Op(m + 0) = Chain[1]
      BY 0 \in 0 .. 4 DEF AtChain, GeluAt, MatchesGelu, Op
    <3> QED
      BY <1>1, <3>1 DEF Chain
  <2> QED
    BY <2>1 DEF Renames, IsReshape
<1>3. In(m, 1) \in Ins(graph, m) /\ In(m, 1) \in Values /\ In(m, 1) \notin graph.const
  <2>1. 1 \in Slots(graph, m)
    BY <1>1, OperandFacts
  <2> QED
    BY <1>1, <1>2, <2>1, OperandFacts, OperandsAssumption DEF In, Ins, Op, Values
<1> QED
  BY <1>1, <1>2, <1>3, FirstFound, GraphFacts DEF Span, Last, ResultOf, OutOf, Values

LEMMA OriginFacts ==
  ASSUME graph \in Graphs, NEW N \in Heads, Aliased(N),
         NEW n \in Heads, n <= N, n <= Limit \/ CtcTail, NEW t, Found(n, t)
  PROVE  Origin(t, n) /\ t \in Values
<1>1. Limit \in Nat /\ \A h \in Heads : h \in Nat /\ h >= 1 /\ h <= Limit + 1
  BY LimitFacts, HeadsFacts
<1> DEFINE S == {k \in 0 .. Limit : \A h \in Heads : h < N /\ h <= k => Origin(ResultOf(h), h + 1)}
<1>2. graph.input \in Values /\ Root(graph.input) = graph.input
  <2>1. graph.input \in Values
    BY GraphFacts DEF Values
  <2>2. alias_of[graph.input] = NoTensor
    <3> SUFFICES ASSUME alias_of[graph.input] # NoTensor PROVE FALSE
      OBVIOUS
    <3>1. Producer(graph, graph.input) \in 1 .. Limit /\ graph.input = OutOf(Producer(graph, graph.input))
      BY <2>1, AliasFacts
    <3> QED
      BY <3>1, LimitFacts, GraphFacts DEF OutOf
  <2> QED
    BY <2>1, <2>2, RootIs
<1>3. 0 \in S
  BY <1>1
<1>4. ASSUME NEW k \in 0 .. Limit - 1, k \in S PROVE k + 1 \in S
  <2>1. SUFFICES ASSUME NEW h \in Heads, h < N, h = k + 1
                 PROVE  Origin(ResultOf(h), h + 1)
    <3>1. k + 1 \in 0 .. Limit /\ \A h \in Heads : h <= k + 1 => h <= k \/ h = k + 1
      BY <1>1
    <3> QED
      BY <1>4, <2>1, <3>1
  <2>2. h <= Limit /\ h \in 1 .. Limit
    BY <1>1, <2>1
  <2>3. CASE ~Renames(h)
    <3>1. Root(ResultOf(h)) = ResultOf(h)
      BY <2>2, <2>3, OwnRoot
    <3> QED
      BY <1>1, <2>3, <3>1 DEF Origin
  <2>4. CASE Renames(h)
    <3>1. ResultOf(h) = OutOf(h) /\ OutOf(h) \in Values /\ Found(h, In(h, 1)) /\ In(h, 1) \in Values
      BY <2>2, <2>4, RenamesFacts
    <3>2. alias_of[OutOf(h)] = In(h, 1) /\ In(h, 1) # NoTensor
      BY <2>1, <2>4, <3>1, GraphFacts DEF Aliased, Values, NoTensor
    <3>3. Root(OutOf(h)) = Root(In(h, 1))
      BY <3>1, <3>2, RootIs
    <3>4. CASE In(h, 1) = graph.input
      BY <1>2, <3>1, <3>3, <3>4 DEF Origin, Found
    <3>5. CASE In(h, 1) # graph.input
      <4>1. PICK g \in Heads : g < h /\ ResultOf(g) = In(h, 1)
        BY <2>2, <3>1, <3>5, FoundIsResult
      <4>2. g < N /\ g <= k
        BY <1>1, <2>1, <4>1
      <4>3. Origin(In(h, 1), g + 1)
        BY <1>4, <4>1, <4>2
      <4>4. \A j \in Heads : j < g + 1 => j < h + 1
        BY <1>1, <4>1
      <4> QED
        BY <3>1, <3>3, <4>3, <4>4 DEF Origin
    <3> QED
      BY <3>4, <3>5
  <2> QED
    BY <2>3, <2>4
<1>5. Limit \in S
  <2> HIDE DEF S
  <2>1. 0 .. Limit \subseteq S
    BY <1>1, <1>3, <1>4, Induction
  <2> QED
    BY <1>1, <2>1
<1>6. CASE t = graph.input
  BY <1>2, <1>6 DEF Origin, Found
<1>7. CASE t # graph.input
  <2>1. PICK g \in Heads : g < n /\ ResultOf(g) = t
    BY <1>7, FoundIsResult
  <2>2. g < N /\ g <= Limit /\ g \in 1 .. Limit
    BY <1>1, <2>1
  <2>3. Origin(t, g + 1)
    BY <1>5, <2>1, <2>2
  <2>4. \A j \in Heads : j < g + 1 => j < n
    BY <1>1, <2>1
  <2>5. ResultOf(g) \in Values
    BY <1>1, <2>2, SpanFacts, LimitFacts, GraphFacts DEF ResultOf, OutOf, Values
  <2> QED
    BY <2>1, <2>3, <2>4, <2>5 DEF Origin
<1> QED
  BY <1>6, <1>7

(* What no reshape reads has no other name.                                *)
LEMMA OnlyName ==
  ASSUME graph \in Graphs, NEW N \in Heads, Aliased(N), NEW v,
         \A h \in Heads : h <= Limit /\ v \in Ins(graph, h) => ~Renames(h),
         NEW u \in Values, Root(u) = v
  PROVE  u = v
<1> DEFINE S == {k \in 0 .. Len(graph.nodes) :
                   \A t \in Values : Producer(graph, t) <= k /\ Root(t) = v => t = v}
<1>1. Len(graph.nodes) \in Nat /\ Limit \in Nat /\ Limit <= Len(graph.nodes)
  BY GraphFacts, LimitFacts
<1>2. \A t \in Values : Producer(graph, t) \in 0 .. Len(graph.nodes)
  BY GraphFacts, ProducerIs DEF Values
<1>3. 0 \in S
  <2> SUFFICES ASSUME NEW t \in Values, Producer(graph, t) <= 0, Root(t) = v PROVE t = v
    BY <1>1
  <2>1. alias_of[t] = NoTensor
    BY <1>1, AliasFacts
  <2> QED
    BY <2>1, RootIs
<1>4. ASSUME NEW k \in 0 .. Len(graph.nodes) - 1, k \in S PROVE k + 1 \in S
  <2> SUFFICES ASSUME NEW t \in Values, Producer(graph, t) <= k + 1, Root(t) = v PROVE t = v
    BY <1>1
  <2>1. CASE alias_of[t] = NoTensor
    BY <2>1, RootIs
  <2>2. CASE alias_of[t] # NoTensor
    <3> DEFINE a == alias_of[t]
               p == Producer(graph, t)
    <3>1. /\ a \in Values /\ p \in 1 .. Limit /\ Producer(graph, a) \in 0 .. p - 1
          /\ p \in Heads /\ Renames(p) /\ a \in Ins(graph, p)
      BY <2>2, AliasFacts
    <3>2. Root(a) = v /\ Producer(graph, a) <= k
      BY <1>1, <2>2, <3>1, RootIs
    <3>3. a = v
      BY <1>4, <3>1, <3>2
    <3> QED
      BY <1>1, <3>1, <3>3
  <2> QED
    BY <2>1, <2>2
<1>5. Len(graph.nodes) \in S
  <2> HIDE DEF S
  <2>1. 0 .. Len(graph.nodes) \subseteq S
    BY <1>1, <1>3, <1>4, Induction
  <2> QED
    BY <1>1, <2>1
<1> QED
  BY <1>2, <1>5

-----------------------------------------------------------------------------
(* The table of operations, and the pairs in it.                           *)

Listed ==
  /\ ops \in Seq(Elements(ops)) /\ Len(ops) = Index(node)
  /\ \A i \in DOMAIN ops :
       LET h == ops[i].begin
       IN  /\ h \in Heads /\ h < node /\ ~Renames(h) /\ Index(h) = i - 1
           /\ ops[i] = Compiled(h)

LEMMA ListedAt ==
  ASSUME graph \in Graphs, node \in Heads, Listed,
         NEW h \in Heads, h < node, ~Renames(h)
  PROVE  Index(h) + 1 \in DOMAIN ops /\ ops[Index(h) + 1].begin = h
<1>1. Limit \in Nat /\ \A k \in Heads : k \in Nat /\ k >= 1 /\ k <= Limit + 1
  BY LimitFacts, HeadsFacts
<1>2. Index(h) \in Nat /\ Index(h) < Index(node) /\ Index(node) \in Nat
  BY IndexFacts
<1>3. DOMAIN ops = 1 .. Len(ops)
  BY LenProperties DEF Listed
<1>4. Index(h) + 1 \in DOMAIN ops
  BY <1>2, <1>3 DEF Listed
<1> DEFINE k == ops[Index(h) + 1].begin
<1>5. k \in Heads /\ ~Renames(k) /\ Index(k) = Index(h)
  BY <1>2, <1>4 DEF Listed
<1>6. ~(k < h) /\ ~(h < k)
  BY <1>2, <1>5, IndexFacts
<1> QED
  BY <1>1, <1>4, <1>5, <1>6

(* What mark_ffn_pairs asks of two operations, as far as the graph decides *)
(* it.                                                                     *)
Paired(h, k) ==
  /\ FfnTiling /\ strategy = "NHWC" /\ CtcTail
  /\ h <= Limit /\ k <= Limit /\ ~Renames(h) /\ ~Renames(k) /\ Index(k) = Index(h) + 1
  /\ PointwiseConv(h) /\ PointwiseConv(k) /\ Span(h) >= 6 /\ Plain(h) /\ Span(k) < 6
  /\ ResultOf(h) = In(k, 1) /\ SingleConsumer(graph, ResultOf(h), k)
  /\ ResultOf(h) # Activation

LEMMA SamePaired ==
  ASSUME UNCHANGED <<graph, strategy>>
  PROVE  \A h, k : Paired(h, k)' = Paired(h, k)
<1>1. /\ Limit' = Limit
      /\ \A n : Renames(n)' = Renames(n)
      /\ \A n : Span(n)' = Span(n) /\ ResultOf(n)' = ResultOf(n)
      /\ \A n : Index(n)' = Index(n)
      /\ \A n : Fold(n)' = Fold(n)
  BY SameLowering, SameFold
<1>2. CtcTail' = CtcTail
  BY DEF CtcTail, Op, In, OutOf, IsConst
<1>3. \A n : PointwiseConv(n)' = PointwiseConv(n) /\ Plain(n)' = Plain(n) /\ In(n, 1)' = In(n, 1)
  BY <1>1 DEF PointwiseConv, Plain, AtChain, IsReshape, Op, In
<1>4. Activation' = Activation
  BY <1>1 DEF Activation, In
<1> QED
  BY <1>1, <1>2, <1>3, <1>4 DEF Paired

LEMMA PairsAre ==
  ASSUME graph \in Graphs, node \in Heads, Listed, NEW N \in Heads, Aliased(N), NEW uses,
         NEW i \in 1 .. Len(ops)
  PROVE  Pairs(i, uses) <=>
           /\ i + 1 <= Len(ops) /\ Paired(ops[i].begin, ops[i + 1].begin)
           /\ uses[ResultOf(ops[i].begin)] = i
<1>1. Limit \in Nat /\ \A k \in Heads : k \in Nat /\ k >= 1 /\ k <= Limit + 1
  BY LimitFacts, HeadsFacts
<1>2. Len(ops) \in Nat /\ DOMAIN ops = 1 .. Len(ops)
  BY LenProperties DEF Listed
<1>3. CASE ~(i + 1 <= Len(ops))
  BY <1>3 DEF Pairs
<1>4. CASE i + 1 <= Len(ops)
  <2> DEFINE a == ops[i]
             b == ops[i + 1]
             h == a.begin
             k == b.begin
  <2>1. /\ h \in Heads /\ h < node /\ ~Renames(h) /\ Index(h) = i - 1 /\ a = Compiled(h)
        /\ k \in Heads /\ k < node /\ ~Renames(k) /\ Index(k) = (i + 1) - 1 /\ b = Compiled(k)
    <3>1. i \in DOMAIN ops /\ i + 1 \in DOMAIN ops
      BY <1>2, <1>4
    <3> QED
      BY <3>1 DEF Listed
  <2>2. h \in 1 .. Limit /\ k \in 1 .. Limit /\ Index(k) = Index(h) + 1
    BY <1>1, <2>1
  <2>3. a.count = Span(h) /\ b.count = Span(k) /\ LastNode(a) = Last(h)
    BY <2>1, <2>2, CompiledFacts DEF LastNode, Last
  <2>4. /\ a.kind = "pointwise" <=> PointwiseConv(h)
        /\ b.kind = "pointwise" <=> PointwiseConv(k)
    BY <2>1, PointwiseIs
  <2>5. PointwiseConv(h) /\ Span(h) >= 6 => (HasResidual(a) <=> ~Plain(h))
    BY <2>1, <2>2, PointwiseFacts
  <2>6. alias_of[ResultOf(h)] = NoTensor /\ OutOf(LastNode(a)) = ResultOf(h)
    BY <2>1, <2>2, <2>3, OwnRoot DEF ResultOf
  <2>7. Span(k) \in Nat
    BY <2>2, SpanFacts
  <2> HIDE DEF a, b
  <2>8. Activated(a) <=> Span(h) >= 6
    BY <2>3 DEF Activated
  <2>9. ~Activated(b) <=> Span(k) < 6
    BY <2>3, <2>7 DEF Activated
  <2>10. Pairs(i, uses) <=>
           /\ FfnTiling /\ strategy = "NHWC" /\ CtcTail
           /\ a.kind = "pointwise" /\ b.kind = "pointwise"
           /\ Activated(a) /\ ~HasResidual(a) /\ ~Activated(b)
           /\ ResultOf(h) = In(k, 1)
           /\ SingleConsumer(graph, ResultOf(h), k)
           /\ alias_of[ResultOf(h)] = NoTensor /\ uses[ResultOf(h)] = i
           /\ ResultOf(h) # Activation
    BY <1>4, <2>6 DEF Pairs, a, b
  <2> HIDE DEF h, k
  <2>11. Pairs(i, uses) <=> Paired(h, k) /\ uses[ResultOf(h)] = i
    BY <2>1, <2>2, <2>4, <2>5, <2>6, <2>8, <2>9, <2>10 DEF Paired
  <2> QED
    BY <1>4, <2>11 DEF h, k, a, b
<1> QED
  BY <1>3, <1>4

(* mark_ffn_pairs marks every pair: no operation is the second of one and  *)
(* the first of the next, for only the first one is activated.             *)
LEMMA MarkedAre ==
  ASSUME Len(ops) \in Nat
  PROVE  Marked = {i \in 1 .. Len(ops) : Pairs(i, last_use)}
<1> DEFINE F == [i \in Nat |-> {j \in 1 .. i : Pairs(j, last_use)}]
           Grown(g) == [i \in Nat |->
             IF i = 0 THEN {}
             ELSE LET before == g[i - 1]
                  IN  IF i - 1 \notin before /\ Pairs(i, last_use) THEN before \cup {i} ELSE before]
           M == CHOOSE g : g = Grown(g)
<1>1. \A j \in Nat : ~(Pairs(j, last_use) /\ Pairs(j + 1, last_use))
  BY DEF Pairs
<1>2. F = Grown(F)
  <2>1. ASSUME NEW i \in Nat
        PROVE  F[i] = Grown(F)[i]
    <3>1. CASE i = 0
      BY <3>1
    <3>2. CASE i # 0
      <4>1. i - 1 \in Nat /\ 1 .. i = (1 .. i - 1) \cup {i} /\ i \notin 1 .. i - 1
        BY <3>2
      <4>2. F[i - 1] = {j \in 1 .. i - 1 : Pairs(j, last_use)}
        BY <4>1
      <4>3. Pairs(i, last_use) => i - 1 \notin F[i - 1]
        <5>1. Pairs(i, last_use) => ~Pairs(i - 1, last_use)
          <6>1. (i - 1) + 1 = i
            BY <4>1
          <6> QED
            BY <1>1, <4>1, <6>1
        <5> QED
          BY <4>2, <5>1
      <4>4. F[i] = IF Pairs(i, last_use) THEN F[i - 1] \cup {i} ELSE F[i - 1]
        BY <4>1, <4>2
      <4> HIDE DEF F
      <4> QED
        BY <3>2, <4>3, <4>4
    <3> QED
      BY <3>1, <3>2
  <2>2. F = [i \in Nat |-> F[i]]
    OBVIOUS
  <2> HIDE DEF F
  <2>3. Grown(F) = [i \in Nat |-> Grown(F)[i]]
    OBVIOUS
  <2> HIDE DEF Grown
  <2> QED
    BY <2>1, <2>2, <2>3
<1>3. M = Grown(M)
  <2> HIDE DEF F
  <2> QED
    BY <1>2
<1>4. MarkedUpTo = M
  BY DEF MarkedUpTo
<1> HIDE DEF M
<1> DEFINE S == {i \in 0 .. Len(ops) : M[i] = F[i]}
<1>5. \A g : g = Grown(g) =>
        /\ g[0] = {}
        /\ \A i \in Nat : g[i + 1] = IF i \notin g[i] /\ Pairs(i + 1, last_use)
                                       THEN g[i] \cup {i + 1} ELSE g[i]
  <2> TAKE g
  <2> HAVE g = Grown(g)
  <2>1. \A i \in Nat : g[i] = Grown(g)[i]
    OBVIOUS
  <2>2. g[0] = {}
    BY <2>1
  <2>3. ASSUME NEW i \in Nat
        PROVE  g[i + 1] = IF i \notin g[i] /\ Pairs(i + 1, last_use) THEN g[i] \cup {i + 1} ELSE g[i]
    <3>1. i + 1 \in Nat /\ i + 1 # 0 /\ (i + 1) - 1 = i
      OBVIOUS
    <3>2. g[i + 1] = Grown(g)[i + 1]
      BY <2>1, <3>1
    <3>3. Grown(g)[i + 1] = IF i \notin g[i] /\ Pairs(i + 1, last_use) THEN g[i] \cup {i + 1} ELSE g[i]
      BY <3>1
    <3> QED
      BY <3>2, <3>3
  <2> QED
    BY <2>2, <2>3
<1> HIDE DEF Grown
<1>6. 0 \in S
  BY <1>3, <1>5
<1>7. ASSUME NEW i \in 0 .. Len(ops) - 1, i \in S PROVE i + 1 \in S
  <2>1. i \in Nat /\ i + 1 \in 0 .. Len(ops) /\ M[i] = F[i]
    BY <1>7
  <2> HIDE DEF F
  <2> QED
    BY <1>2, <1>3, <1>5, <2>1
<1>8. Len(ops) \in S
  <2> HIDE DEF S
  <2>1. 0 .. Len(ops) \subseteq S
    BY <1>6, <1>7, Induction
  <2> QED
    BY <2>1
<1> QED
  BY <1>4, <1>8 DEF Marked

-----------------------------------------------------------------------------
(* Lifetimes.                                                              *)

LEMMA GreatestUse ==
  ASSUME NEW b \in Nat, NEW T, T \subseteq -1 .. b, T # {}
  PROVE  \E x \in T : \A y \in T : y <= x
<1> DEFINE U == {n \in 0 .. b + 1 : n - 1 \in T}
<1>1. U \subseteq 0 .. b + 1 /\ b + 1 \in Nat
  OBVIOUS
<1>2. \A x \in T : x + 1 \in U
  <2> TAKE x \in T
  <2>1. x \in Int /\ x + 1 \in 0 .. b + 1 /\ (x + 1) - 1 = x
    OBVIOUS
  <2> QED
    BY <2>1
<1>3. U # {}
  BY <1>2
<1>4. PICK n \in U : \A y \in U : y <= n
  <2> HIDE DEF U
  <2> QED
    BY <1>1, <1>3, GreatestOf
<1>5. n - 1 \in T /\ \A y \in T : y <= n - 1
  <2>1. \A y \in T : y \in Int /\ y + 1 <= n
    BY <1>2, <1>4
  <2>2. n \in Int
    OBVIOUS
  <2> HIDE DEF U
  <2>3. \A y \in T : y <= n - 1
    BY <2>1, <2>2
  <2> QED
    BY <1>4, <2>3 DEF U
<1> QED
  BY <1>5

(* The input of a marked operation lives until the next one.               *)
LEMMA StretchedFacts ==
  ASSUME Len(ops) \in Nat, NEW Uses \in SUBSET Int, 1 .. Len(ops) \subseteq Uses,
         last_use \in [Values -> Uses], NEW marked, marked \subseteq 1 .. Len(ops)
  PROVE  /\ Stretched(marked) \in [Values -> Uses]
         /\ \A t \in Values : last_use[t] <= Stretched(marked)[t]
         /\ \A i \in marked : In(ops[i].begin, 1) \in Values =>
              i <= Stretched(marked)[In(ops[i].begin, 1)]
<1> DEFINE needed(t) == {i \in marked : In(ops[i].begin, 1) = t}
           far(t) == CHOOSE i \in needed(t) : \A j \in needed(t) : j <= i
           W == Stretched(marked)
<1>1. \A t \in Values : W[t] = IF \E i \in needed(t) : last_use[t] < i THEN far(t) ELSE last_use[t]
  BY DEF Stretched
<1>2. ASSUME NEW t \in Values
      PROVE  /\ W[t] \in Uses /\ last_use[t] <= W[t]
             /\ \A i \in needed(t) : i <= W[t]
  <2>1. /\ needed(t) \subseteq 0 .. Len(ops) /\ needed(t) \subseteq Uses
        /\ last_use[t] \in Uses /\ last_use[t] \in Int
    <3>1. 1 .. Len(ops) \subseteq 0 .. Len(ops) /\ needed(t) \subseteq marked
      OBVIOUS
    <3> HIDE DEF needed
    <3> QED
      BY <3>1
  <2> HIDE DEF needed
  <2>2. CASE needed(t) = {}
    <3>1. W[t] = last_use[t]
      BY <1>1, <2>2
    <3> HIDE DEF W
    <3> QED
      BY <2>1, <2>2, <3>1
  <2>3. CASE needed(t) # {}
    <3>1. \E i \in needed(t) : \A j \in needed(t) : j <= i
      BY <2>1, <2>3, GreatestOf
    <3>2. far(t) \in needed(t) /\ \A j \in needed(t) : j <= far(t)
      BY <3>1
    <3>3. W[t] = IF \E i \in needed(t) : last_use[t] < i THEN far(t) ELSE last_use[t]
      BY <1>1
    <3> HIDE DEF far, W
    <3>4. far(t) \in Int /\ far(t) \in Uses /\ \A i \in needed(t) : i \in Int
      BY <2>1, <3>2
    <3>5. CASE \E i \in needed(t) : last_use[t] < i
      BY <2>1, <3>2, <3>3, <3>4, <3>5
    <3>6. CASE ~\E i \in needed(t) : last_use[t] < i
      <4>1. \A i \in needed(t) : i <= last_use[t]
        BY <2>1, <3>4, <3>6
      <4> QED
        BY <2>1, <3>3, <3>6, <4>1
    <3> QED
      BY <3>5, <3>6
  <2> QED
    BY <2>2, <2>3
<1>3. W = [t \in Values |-> W[t]]
  BY DEF Stretched
<1> HIDE DEF W
<1>4. W \in [Values -> Uses]
  BY <1>2, <1>3
<1>5. \A i \in marked : In(ops[i].begin, 1) \in Values => i <= W[In(ops[i].begin, 1)]
  <2> TAKE i \in marked
  <2>1. i \in needed(In(ops[i].begin, 1))
    OBVIOUS
  <2> HIDE DEF needed
  <2> QED
    BY <1>2, <2>1
<1> QED
  BY <1>2, <1>4, <1>5 DEF W

LEMMA ExtendedFacts ==
  ASSUME Len(ops) \in Nat, NEW uses \in [Values -> -1 .. Len(ops)]
  PROVE  /\ ExtendActivation(uses) \in [Values -> -1 .. Len(ops)]
         /\ \A t \in Values : uses[t] <= ExtendActivation(uses)[t]
<1> DEFINE long == [uses EXCEPT ![Activation] = Len(ops)]
<1>1. \A t \in Values : uses[t] \in -1 .. Len(ops) /\ uses[t] <= Len(ops) /\ uses[t] <= uses[t]
  <2> TAKE t \in Values
  <2>1. uses[t] \in -1 .. Len(ops)
    OBVIOUS
  <2> QED
    BY <2>1
<1>2. Len(ops) \in -1 .. Len(ops)
  OBVIOUS
<1>3. \A t \in Values : long[t] = IF t = Activation THEN Len(ops) ELSE uses[t]
  OBVIOUS
<1>4. long \in [Values -> -1 .. Len(ops)]
  BY <1>2
<1> HIDE DEF long
<1>5. \A t \in Values : uses[t] <= long[t]
  BY <1>1, <1>3
<1> QED
  BY <1>1, <1>4, <1>5 DEF ExtendActivation, long

(* A value lives from its producer to its last reader, under any name.     *)
LEMMA LifeFacts ==
  ASSUME NEW B \in Nat, NEW uses \in [Values -> -1 .. B], Len(ops) \in 0 .. B,
         NEW t \in Values, producer[t] \in -1 .. B
  PROVE  LET life == Life(t, uses)
         IN  /\ life.first = IF t = graph.input THEN 0 ELSE producer[t]
             /\ life.last \in -1 .. B /\ life.first <= life.last
             /\ t = graph.input => Len(ops) <= life.last
             /\ t # graph.input => uses[t] <= life.last
             /\ \A a \in Values : alias_of[a] # NoTensor /\ Root(a) = t => uses[a] <= life.last
<1> DEFINE first == IF t = graph.input THEN 0 ELSE producer[t]
           own == IF t = graph.input THEN Len(ops) ELSE uses[t]
           others == {uses[a] : a \in {b \in Values : alias_of[b] # NoTensor /\ Root(b) = t}}
           ends == {first, own} \cup others
           last == CHOOSE x \in ends : \A y \in ends : y <= x
<1>1. Life(t, uses) = [first |-> first, last |-> last]
  BY DEF Life
<1>2. first \in -1 .. B /\ own \in -1 .. B /\ others \subseteq -1 .. B
  OBVIOUS
<1>3. \A a \in Values : alias_of[a] # NoTensor /\ Root(a) = t => uses[a] \in others
  OBVIOUS
<1>4. last \in ends /\ \A y \in ends : y <= last
  <2>1. ends \subseteq -1 .. B /\ ends # {}
    BY <1>2
  <2> HIDE DEF ends
  <2>2. \E x \in ends : \A y \in ends : y <= x
    BY <2>1, GreatestUse
  <2> QED
    BY <2>2
<1> HIDE DEF others, last
<1> QED
  BY <1>1, <1>2, <1>3, <1>4

-----------------------------------------------------------------------------
(* The inductive invariant.                                                *)

(* In both passes: the operations made so far are those of the nodes       *)
(* behind, and what they read is known to live until they run.             *)
Lowering ==
  /\ node \in Heads /\ Listed
  /\ last_use \in [Values -> Int]
  /\ \A h \in Heads : h < node /\ ~Renames(h) =>
       \A k \in h .. Last(h) : \A t \in Ins(graph, k) : Index(h) <= last_use[t]

(* In the first one: the names and producers of the results behind.        *)
FirstPass ==
  /\ Aliased(node) /\ alias_of \in [Values -> Values \cup {NoTensor}]
  /\ last_use \in [Values -> -1 .. Len(ops)]
  /\ producer \in [Values -> -1 .. Len(ops) + node]
  /\ \A h \in Heads : h < node /\ ~Renames(h) => producer[ResultOf(h)] = Index(h)
  /\ offset = [t \in Values |-> 0]

(* What the plan knows of a value: it lives from its producer to its last  *)
(* reader, and the input of a pair until the pair's second operation.  A   *)
(* pair whose result is read later than by the second one is none, and     *)
(* last uses only grow.  The tail reads its activation behind them all.    *)
EntryInv(e) ==
  /\ e.value \in Values /\ e.alt = 0 /\ e.bytes = Bytes(e.value)
  /\ e.first \in Int /\ e.last \in Int /\ e.first <= e.last
  /\ e.value = graph.input => e.first = 0
  /\ \A h \in Heads : h <= Limit /\ ~Renames(h) =>
       /\ e.value = ResultOf(h) => e.first = Index(h)
       /\ \A k \in h .. Last(h) : \A t \in Ins(graph, k) : Root(t) = e.value => Index(h) <= e.last
  /\ \A h, k \in Heads : Paired(h, k) /\ Root(In(h, 1)) = e.value =>
       Index(k) < last_use[ResultOf(h)] \/ Index(k) <= e.last
  /\ CtcTail /\ e.value = Root(Activation) => Index(Limit + 1) <= e.last

Stored(v) ==
  /\ v \in Values \ graph.const
  /\ \/ v = graph.input
     \/ \E h \in Heads : h <= Limit /\ ~Renames(h) /\ v = ResultOf(h)

Planned ==
  /\ Limit + 1 \in Heads /\ Aliased(Limit + 1) /\ alias_of \in [Values -> Values \cup {NoTensor}]
  /\ last_use \in [Values -> Int] /\ Len(ops) \in Nat
  /\ \A c \in candidates : EntryInv(c)
  /\ \A p \in DOMAIN placed : EntryInv(placed[p])
  /\ \A v : Stored(v) => \/ \E c \in candidates : c.value = v
                         \/ \E p \in DOMAIN placed : placed[p].value = v

Embedded == candidates = {} /\ offset = [t \in Values |-> OffsetOf(Root(t), 0)]

(* PairAccepted of two operations, with what it reads of the state.        *)
Fits(bytes, arena, a, b) ==
  LET extent(o) == [from |-> o.offset, bytes |-> bytes[o.value]]
      results == {extent(a.out), extent(b.out)}
      reads == {extent(o) : o \in a.ins \cup {r \in b.ins : r.value # a.out.value}}
  IN  /\ Cardinality(results) = 2
      /\ \A x \in results \cup reads : x.from + x.bytes <= arena
      /\ \A x \in results : \A y \in (results \ {x}) \cup reads :
           ~Overlap(x.from, x.bytes, y.from, y.bytes)
Accepted ==
  \A i \in DOMAIN ops : ops[i].ffn => Fits(graph.bytes, arena_bytes, ops[i], ops[i + 1])

(* The finished table: an operation for each node that lower_ops came to,  *)
(* and the marked ones are pairs whose input is not reused before the      *)
(* second has run.                                                         *)
InTable(i) ==
  LET h == ops[i].begin
  IN  /\ h \in Heads /\ h <= Limit /\ ~Renames(h) /\ Index(h) = i - 1
      /\ ops[i] = [Compiled(h) EXCEPT !.ffn = ops[i].ffn]
MarkedWell(i) ==
  /\ i + 1 \in DOMAIN ops /\ Paired(ops[i].begin, ops[i + 1].begin)
  /\ \A p \in DOMAIN placed :
       placed[p].value = Root(In(ops[i].begin, 1)) => i <= placed[p].last
Tabled ==
  /\ Len(ops) = Index(Limit + 1) /\ DOMAIN ops = 1 .. Len(ops)
  /\ \A i \in DOMAIN ops : InTable(i) /\ (ops[i].ffn => MarkedWell(i))
Ready == Accepted /\ Planned /\ Embedded /\ Tabled

PassInv ==
  /\ pc = "lower" => /\ Lowering /\ pass \in {1, 2}
                     /\ pass = 1 => FirstPass
                     /\ pass = 2 => Planned /\ Embedded
  /\ pc = "plan" => Planned
  /\ pc \in {"ready", "run", "tail"} => Ready
ProgramInv == graph \in Graphs /\ PlanInv /\ PassInv

LEMMA SameNames ==
  ASSUME UNCHANGED <<graph, alias_of>>
  PROVE  \A t : Root(t)' = Root(t)
BY DEF Root, Values

LEMMA SamePlanned ==
  ASSUME UNCHANGED <<graph, strategy, alias_of, candidates, placed>>, Planned,
         graph \in Graphs, last_use' \in [Values -> Int],
         \A t \in Values : last_use[t] <= last_use'[t], Len(ops') \in Nat
  PROVE  Planned'
<1>1. /\ Limit' = Limit
      /\ \A n : Renames(n)' = Renames(n)
      /\ \A n : Last(n)' = Last(n) /\ ResultOf(n)' = ResultOf(n) /\ OutOf(n)' = OutOf(n)
      /\ Heads' = Heads
      /\ \A n : Index(n)' = Index(n)
      /\ \A h, k : Paired(h, k)' = Paired(h, k)
      /\ \A t : Root(t)' = Root(t)
      /\ Values' = Values
      /\ \A n : In(n, 1)' = In(n, 1)
      /\ CtcTail' = CtcTail /\ Activation' = Activation
  BY SameLowering, SamePaired, SameNames, SameTail DEF Values, In
<1>2. ASSUME NEW e, EntryInv(e) PROVE EntryInv(e)'
  <2>1. ASSUME NEW h \in Heads, NEW k \in Heads, Paired(h, k), Root(In(h, 1)) = e.value
        PROVE  Index(k) < last_use'[ResultOf(h)] \/ Index(k) <= e.last
    <3>1. Index(k) < last_use[ResultOf(h)] \/ Index(k) <= e.last
      BY <1>2, <2>1 DEF EntryInv
    <3>2. h \in 1 .. Limit /\ h <= Limit /\ ~Renames(h) /\ k \in Heads
      BY <2>1, LimitFacts, HeadsFacts DEF Paired
    <3>3. ResultOf(h) \in Values
      BY <2>1, <3>2, OwnRoot DEF Planned
    <3>4. Index(k) \in Nat /\ last_use[ResultOf(h)] \in Int /\ last_use'[ResultOf(h)] \in Int
      BY <3>3, IndexFacts DEF Planned
    <3> QED
      BY <3>1, <3>3, <3>4
  <2> QED
    BY <1>1, <1>2, <2>1 DEF EntryInv, Bytes
<1>3. Aliased(Limit + 1)'
  BY <1>1 DEF Planned, Aliased
<1>4. \A v : Stored(v)' = Stored(v)
  BY <1>1 DEF Stored
<1> QED
  BY <1>1, <1>2, <1>3, <1>4 DEF Planned

LEMMA SameReady ==
  ASSUME UNCHANGED <<graph, strategy, lowering, plan>>, Ready, graph \in Graphs
  PROVE  Ready'
<1>1. UNCHANGED <<graph, strategy, ops, last_use, alias_of, offset, candidates, placed, arena_bytes>>
  BY DEF lowering, plan
<1>2. /\ Limit' = Limit
      /\ \A n : Renames(n)' = Renames(n)
      /\ Heads' = Heads
      /\ \A n : Index(n)' = Index(n)
      /\ \A n : Compiled(n)' = Compiled(n)
      /\ \A h, k : Paired(h, k)' = Paired(h, k)
      /\ \A t : Root(t)' = Root(t)
      /\ Values' = Values
      /\ \A n : In(n, 1)' = In(n, 1)
  BY <1>1, SameLowering, SameOperation, SamePaired, SameNames DEF Values, In
<1>3. Accepted'
  BY <1>1 DEF Ready, Accepted
<1>4. Planned'
  <2>1. \A t \in Values : last_use[t] <= last_use'[t]
    BY <1>1 DEF Ready, Planned
  <2> QED
    BY <1>1, <2>1, SamePlanned DEF Ready, Planned
<1>5. Embedded'
  <2>1. \A t : OffsetOf(Root(t), 0)' = OffsetOf(Root(t), 0)
    BY <1>1, <1>2 DEF OffsetOf
  <2> QED
    BY <1>1, <1>2, <2>1 DEF Ready, Embedded
<1>6. Tabled'
  <2>1. \A i : InTable(i)' = InTable(i)
    BY <1>1, <1>2 DEF InTable
  <2>2. \A i : MarkedWell(i)' = MarkedWell(i)
    BY <1>1, <1>2 DEF MarkedWell
  <2> QED
    BY <1>1, <1>2, <2>1, <2>2 DEF Ready, Tabled
<1> QED
  BY <1>3, <1>4, <1>5, <1>6 DEF Ready

LEMMA TouchFacts ==
  ASSUME graph \in Graphs, NEW N, NEW b \in Int, last_use \in [Values -> Int]
  PROVE  /\ Touch(N, b) \in [Values -> Int]
         /\ \A t \in Values : last_use[t] <= Touch(N, b)[t]
         /\ \A n \in N : \A t \in Ins(graph, n) : t \in Values => b <= Touch(N, b)[t]
         /\ \A t \in Values : Touch(N, b)[t] \in {b, last_use[t]}
BY DEF Touch

(* An operation is made.                                                   *)
LEMMA EmitStep ==
  ASSUME graph \in Graphs, PassInv, pc = "lower", node <= Limit, ~Renames(node),
         Emit(Compiled(node)), UNCHANGED <<graph, strategy, pc, plan>>
  PROVE  PassInv'
<1> DEFINE n == node
           o == Compiled(node)
<1>1. /\ Limit \in Nat /\ \A h \in Heads : h \in Nat /\ h >= 1 /\ h <= Limit + 1
      /\ Lowering /\ pass \in {1, 2} /\ n \in Heads /\ n \in 1 .. Limit
  BY LimitFacts, HeadsFacts DEF PassInv, Lowering
<1>2. /\ Follow(n) \in Heads /\ Index(Follow(n)) = Index(n) + 1 /\ Index(n) \in Nat
      /\ \A h \in Heads : h < Follow(n) <=> h < n \/ h = n
  <2>1. Follow(n) \in Heads /\ Follow(n) \in n + 1 .. Limit + 1
    BY <1>1, HeadsFacts, SpanFacts
  <2>2. \A h \in Heads : h < Follow(n) <=> h < n \/ h = n
    <3> TAKE h \in Heads
    <3>1. n < h => Follow(n) <= h
      BY <1>1, HeadsFacts
    <3> QED
      BY <1>1, <2>1, <3>1
  <2> QED
    BY <1>1, <2>1, <2>2, IndexFacts
<1>3. /\ o.begin = n /\ o.count = Span(n) /\ o.out.value = ResultOf(n)
      /\ o.begin + o.count = Follow(n) /\ o.begin .. o.begin + o.count - 1 = n .. Last(n)
  BY <1>1, CompiledFacts DEF Follow, Last
<1>4. /\ ops' = Append(ops, o) /\ node' = Follow(n)
      /\ producer' = [producer EXCEPT ![ResultOf(n)] = Index(n)]
      /\ last_use' = Touch(n .. Last(n), Index(n))
      /\ pass' = pass /\ alias_of' = alias_of /\ offset' = offset
      /\ candidates' = candidates /\ placed' = placed
  BY <1>1, <1>3 DEF Emit, Physical, Lowering, Listed, plan, Follow
<1>5. /\ Limit' = Limit
      /\ \A k : Renames(k)' = Renames(k)
      /\ \A k : Last(k)' = Last(k) /\ ResultOf(k)' = ResultOf(k) /\ OutOf(k)' = OutOf(k)
      /\ Heads' = Heads
      /\ \A k : Index(k)' = Index(k)
      /\ \A k : Compiled(k)' = Compiled(k)
      /\ \A t : Root(t)' = Root(t)
      /\ Values' = Values
      /\ \A k : In(k, 1)' = In(k, 1)
  BY <1>4, SameLowering, SameOperation, SameNames DEF Values, In
<1>6. /\ ops' \in Seq(Elements(ops')) /\ DOMAIN ops' = DOMAIN ops \cup {Len(ops) + 1}
      /\ \A i \in DOMAIN ops : ops'[i] = ops[i]
      /\ ops'[Len(ops) + 1] = o /\ Len(ops') = Len(ops) + 1 /\ Len(ops) \in Nat
      /\ Len(ops) = Index(n)
  <2>1. ops \in Seq(Elements(ops)) /\ Len(ops) = Index(n)
    BY <1>1 DEF Lowering, Listed
  <2>2. ops \in Seq(Elements(ops) \cup {o})
    BY <2>1, SeqMonotonic
  <2>3. Len(Append(ops, o)) = Len(ops) + 1
    BY <2>2, AppendProperties
  <2> HIDE DEF o
  <2> QED
    BY <1>2, <1>4, <2>1, <2>3, AppendAny
<1> HIDE DEF o
<1>7. Listed'
  <2>1. ops' \in Seq(Elements(ops)') /\ Len(ops') = Index(node)'
    <3>1. Index(node)' = Index(Follow(n))
      BY <1>4, <1>5
    <3>2. Elements(ops)' = Elements(ops')
      BY DEF Elements
    <3> QED
      BY <1>2, <1>6, <3>1, <3>2
  <2>2. ASSUME NEW i \in DOMAIN ops'
        PROVE  LET h == ops'[i].begin
               IN  /\ h \in Heads /\ h < Follow(n) /\ ~Renames(h) /\ Index(h) = i - 1
                   /\ ops'[i] = Compiled(h)
    <3>1. CASE i \in DOMAIN ops
      BY <1>1, <1>2, <1>6, <3>1 DEF Lowering, Listed
    <3>2. CASE i = Len(ops) + 1
      BY <1>1, <1>2, <1>3, <1>6, <3>2 DEF o
    <3> QED
      BY <1>6, <3>1, <3>2
  <2> QED
    BY <1>4, <1>5, <1>6, <2>1, <2>2 DEF Listed
<1>8. /\ last_use' \in [Values -> Int]
      /\ \A t \in Values : last_use[t] <= last_use'[t]
      /\ \A k \in n .. Last(n) : \A t \in Ins(graph, k) : Index(n) <= last_use'[t]
      /\ \A t \in Values : last_use'[t] \in {Index(n), last_use[t]}
  <2>1. Index(n) \in Int /\ last_use \in [Values -> Int]
    BY <1>1, <1>2 DEF Lowering
  <2>2. /\ last_use' \in [Values -> Int]
        /\ \A t \in Values : last_use[t] <= last_use'[t]
        /\ \A k \in n .. Last(n) : \A t \in Ins(graph, k) : t \in Values => Index(n) <= last_use'[t]
        /\ \A t \in Values : last_use'[t] \in {Index(n), last_use[t]}
    BY <1>4, <2>1, TouchFacts
  <2>3. \A k \in n .. Last(n) : \A t \in Ins(graph, k) : t \in Values
    <3>1. Last(n) \in n .. Limit
      BY <1>1, SpanFacts
    <3>2. \A k \in n .. Last(n) : k \in Nodes(graph)
      BY <1>1, <3>1, LimitFacts
    <3> QED
      BY <3>2, OperandFacts DEF Values
  <2> QED
    BY <2>2, <2>3
<1>9. Lowering'
  <2>1. ASSUME NEW h \in Heads, h < Follow(n), ~Renames(h), NEW k \in h .. Last(h), NEW t \in Ins(graph, k)
        PROVE  Index(h) <= last_use'[t]
    <3>1. CASE h = n
      BY <1>8, <2>1, <3>1
    <3>2. CASE h < n
      <4>1. Index(h) <= last_use[t]
        BY <1>1, <2>1, <3>2 DEF Lowering
      <4>2. h \in 1 .. Limit /\ Last(h) \in h .. Limit
        <5>1. h \in 1 .. Limit
          BY <1>1, <3>2
        <5> QED
          BY <5>1, SpanFacts
      <4>3. k \in 1 .. Limit
        BY <1>1, <4>2
      <4>4. t \in Values
        BY <4>3, LimitFacts, OperandFacts DEF Values
      <4>5. Index(h) \in Nat /\ last_use[t] \in Int /\ last_use'[t] \in Int
        BY <1>1, <1>8, <4>4, IndexFacts DEF Lowering
      <4> QED
        BY <1>8, <4>1, <4>4, <4>5
    <3> QED
      BY <1>2, <2>1, <3>1, <3>2
  <2> QED
    BY <1>2, <1>4, <1>5, <1>7, <1>8, <2>1 DEF Lowering
<1>10. ASSUME pass = 1 PROVE FirstPass'
  <2>1. FirstPass
    BY <1>10 DEF PassInv
  <2>2. Aliased(node)'
    <3>1. \A m \in Heads : m < Follow(n) /\ Renames(m) <=> m < n /\ Renames(m)
      BY <1>2
    <3> QED
      BY <1>4, <1>5, <2>1, <3>1 DEF Aliased, FirstPass
  <2>3. last_use' \in [Values -> -1 .. Len(ops')]
    <3>1. \A t \in Values : last_use'[t] \in -1 .. Len(ops')
      <4> TAKE t \in Values
      <4>1. last_use[t] \in -1 .. Len(ops)
        BY <2>1 DEF FirstPass
      <4> QED
        BY <1>2, <1>6, <1>8, <4>1
    <3> QED
      BY <1>8, <3>1
  <2>4. producer' \in [Values -> -1 .. Len(ops') + node']
    <3>0. node' \in n + 1 .. Limit + 1 /\ n \in Nat
      BY <1>1, <1>4, SpanFacts
    <3>1. Len(ops) + n <= Len(ops') + node' /\ Index(n) \in -1 .. Len(ops') + node' /\ n \in Nat /\ node' \in Nat
      <4>1. Len(ops) \in Nat /\ Len(ops') = Len(ops) + 1 /\ Index(n) = Len(ops) /\ n \in Nat
            /\ node' \in Nat /\ n < node'
        BY <1>1, <1>6, <3>0
      <4> HIDE DEF n
      <4> QED
        BY <4>1
    <3>2. -1 .. Len(ops) + n \subseteq -1 .. Len(ops') + node'
      BY <1>6, <3>1
    <3> QED
      BY <1>4, <2>1, <3>1, <3>2 DEF FirstPass
  <2>5. ASSUME NEW h \in Heads, h < Follow(n), ~Renames(h)
        PROVE  producer'[ResultOf(h)] = Index(h)
    <3>1. ResultOf(h) \in Values /\ h <= Limit
      <4>1. h \in 1 .. Limit
        BY <1>1, <1>2, <2>5
      <4> QED
        BY <4>1, SpanFacts, LimitFacts, GraphFacts DEF ResultOf, OutOf, Values
    <3>2. CASE h = n
      BY <1>4, <2>1, <3>1, <3>2 DEF FirstPass
    <3>3. CASE h # n
      <4>1. ResultOf(h) # ResultOf(n) /\ h < n
        BY <1>1, <1>2, <2>5, <3>1, <3>3, ResultsDiffer
      <4>2. producer[ResultOf(h)] = Index(h)
        BY <2>1, <2>5, <4>1 DEF FirstPass
      <4> QED
        BY <1>4, <2>1, <3>1, <4>1, <4>2 DEF FirstPass
    <3> QED
      BY <3>2, <3>3
  <2>6. alias_of' \in [Values' -> Values' \cup {NoTensor}] /\ offset' = [t \in Values' |-> 0]
    BY <1>4, <1>5, <2>1 DEF FirstPass
  <2> QED
    BY <1>2, <1>4, <1>5, <2>2, <2>3, <2>4, <2>5, <2>6 DEF FirstPass
<1>11. ASSUME pass = 2 PROVE Planned' /\ Embedded'
  <2>1. Planned /\ Embedded
    BY <1>11, <1>1 DEF PassInv
  <2>2. Planned'
    BY <1>4, <1>6, <1>8, <2>1, SamePlanned
  <2>3. Embedded'
    <3>1. \A t : OffsetOf(Root(t), 0)' = OffsetOf(Root(t), 0)
      BY <1>4, <1>5 DEF OffsetOf
    <3> QED
      BY <1>4, <1>5, <2>1, <3>1 DEF Embedded
  <2> QED
    BY <2>2, <2>3
<1> QED
  BY <1>1, <1>4, <1>9, <1>10, <1>11 DEF PassInv

LEMMA HeadsBelow ==
  ASSUME graph \in Graphs, NEW n \in Heads, n <= Limit
  PROVE  /\ n \in 1 .. Limit /\ Follow(n) \in Heads /\ Follow(n) \in n + 1 .. Limit + 1
         /\ \A h \in Heads : h < Follow(n) <=> h < n \/ h = n
<1>1. /\ Limit \in Nat /\ \A h \in Heads : h \in Nat /\ h >= 1 /\ h <= Limit + 1
      /\ n \in 1 .. Limit
  BY LimitFacts, HeadsFacts
<1>2. Follow(n) \in Heads /\ Follow(n) \in n + 1 .. Limit + 1
  BY <1>1, HeadsFacts, SpanFacts
<1>3. ASSUME NEW h \in Heads PROVE h < Follow(n) <=> h < n \/ h = n
  <2>1. n < h => Follow(n) <= h
    BY HeadsFacts
  <2> QED
    BY <1>1, <1>2, <2>1
<1> QED
  BY <1>1, <1>2, <1>3

(* A reshape becomes another name.                                         *)
LEMMA AliasStep ==
  ASSUME graph \in Graphs, PassInv, LowerAlias
  PROVE  PassInv'
<1> DEFINE n == node
           t == OutOf(n)
           a == In(n, 1)
<1>1. /\ node <= Limit /\ Renames(n) /\ pc = "lower" /\ pc' = "lower"
      /\ alias_of' = [alias_of EXCEPT ![t] = a]
      /\ offset' = [offset EXCEPT ![t] = offset[a]]
      /\ producer' = [producer EXCEPT ![t] = n - 1]
      /\ node' = n + 1
      /\ UNCHANGED <<graph, strategy, pass, ops, last_use, candidates, placed>>
  BY DEF LowerAlias, Renames, plan
<1>2. Lowering /\ pass \in {1, 2} /\ n \in Heads /\ Len(ops) = Index(n)
  BY <1>1 DEF PassInv, Lowering, Listed
<1>3. /\ n \in 1 .. Limit /\ Follow(n) \in Heads /\ Follow(n) \in n + 1 .. Limit + 1
      /\ \A h \in Heads : h < Follow(n) <=> h < n \/ h = n
  BY <1>1, <1>2, HeadsBelow
<1>4. /\ Span(n) = 1 /\ ResultOf(n) = t /\ t \in Values /\ a \in Values /\ n \in Nodes(graph)
      /\ Follow(n) = n + 1
  <2>1. /\ Span(n) = 1 /\ ResultOf(n) = t /\ t \in Values /\ a \in Values /\ n \in Nodes(graph)
    BY <1>1, <1>2, RenamesFacts
  <2> QED
    BY <2>1 DEF Follow
<1>5. Index(n + 1) = Index(n) /\ Index(n) \in Nat
  BY <1>1, <1>2, <1>4, IndexFacts
<1>6. /\ Limit' = Limit
      /\ \A k : Renames(k)' = Renames(k)
      /\ \A k : Last(k)' = Last(k) /\ ResultOf(k)' = ResultOf(k) /\ OutOf(k)' = OutOf(k)
      /\ Heads' = Heads
      /\ \A k : Index(k)' = Index(k)
      /\ Values' = Values
      /\ \A k : In(k, 1)' = In(k, 1)
  BY <1>1, SameLowering DEF Values, In
<1>7. offset' = offset /\ (pass = 2 => alias_of' = alias_of)
  <2>1. CASE pass = 1
    <3>1. FirstPass
      BY <1>1, <2>1 DEF PassInv
    <3> QED
      BY <1>1, <1>4, <2>1, <3>1 DEF FirstPass
  <2>2. CASE pass = 2
    <3>1. Planned /\ Embedded
      BY <1>1, <2>2 DEF PassInv
    <3>2. Limit + 1 \in Heads /\ Aliased(Limit + 1) /\ n < Limit + 1
      BY <1>3, <3>1, LimitFacts DEF Planned
    <3>3. alias_of[t] = a /\ a # NoTensor
      BY <1>1, <1>2, <1>4, <3>2, GraphFacts DEF Aliased, Values, NoTensor
    <3>4. Root(t) = Root(a)
      BY <1>4, <3>2, <3>3, RootIs
    <3>5. alias_of' = alias_of
      BY <1>1, <3>1, <3>3 DEF Planned
    <3>6. offset[t] = offset[a] /\ offset = [u \in Values |-> offset[u]]
      BY <1>4, <3>1, <3>4 DEF Embedded
    <3> QED
      BY <1>1, <3>5, <3>6
  <2> QED
    BY <1>2, <2>1, <2>2
<1>8. \A k : Compiled(k)' = Compiled(k)
  BY <1>1, <1>7, SameOperation
<1>9. ASSUME NEW h, h \in Heads, h < node', ~Renames(h)
      PROVE  h < n
  BY <1>1, <1>3, <1>4, <1>9
<1>10. ASSUME NEW h, h \in Heads, h < n
       PROVE  h < node'
  BY <1>1, <1>3, <1>4, <1>10
<1>11. Lowering'
  <2>1. ops' \in Seq(Elements(ops)') /\ Len(ops') = Index(node)'
    <3>1. Elements(ops)' = Elements(ops) /\ Index(node)' = Index(n + 1)
      BY <1>1, <1>6 DEF Elements
    <3> QED
      BY <1>1, <1>2, <1>5, <3>1 DEF Lowering, Listed
  <2>2. ASSUME NEW i \in DOMAIN ops'
        PROVE  LET h == ops'[i].begin
               IN  /\ h \in Heads /\ h < node' /\ ~Renames(h) /\ Index(h) = i - 1
                   /\ ops'[i] = Compiled(h)
    BY <1>1, <1>2, <1>10 DEF Lowering, Listed
  <2>3. Listed'
    BY <1>6, <1>8, <2>1, <2>2 DEF Listed
  <2>4. node' \in Heads
    BY <1>1, <1>3, <1>4
  <2> QED
    BY <1>1, <1>2, <1>6, <1>9, <2>3, <2>4 DEF Lowering
<1>12. ASSUME pass = 1 PROVE FirstPass'
  <2>1. FirstPass
    BY <1>1, <1>12 DEF PassInv
  <2>2. \A u \in Values : alias_of'[u] = IF u = t THEN a ELSE alias_of[u]
    BY <1>1, <2>1 DEF FirstPass
  <2>3. ASSUME NEW u \in Values, alias_of'[u] # NoTensor
        PROVE  \E m \in Heads : m < node' /\ Renames(m) /\ u = OutOf(m) /\ alias_of'[u] = In(m, 1)
    <3>1. CASE u = t
      BY <1>1, <1>2, <1>3, <1>4, <2>2, <3>1
    <3>2. CASE u # t
      BY <1>10, <2>1, <2>2, <2>3, <3>2 DEF FirstPass, Aliased
    <3> QED
      BY <3>1, <3>2
  <2>4. ASSUME NEW m \in Heads, m < node', Renames(m)
        PROVE  alias_of'[OutOf(m)] = In(m, 1)
    <3>1. CASE m = n
      BY <1>4, <2>2, <3>1
    <3>2. CASE m # n
      <4>1. m < n /\ m <= Limit
        BY <1>1, <1>3, <1>4, <2>4, <3>2, HeadsFacts, LimitFacts
      <4>2. m \in Nodes(graph) /\ OutOf(m) \in Values
        BY <2>4, <4>1, RenamesFacts
      <4>3. OutOf(m) # t
        BY <1>4, <3>2, <4>2, GraphFacts DEF OutOf
      <4> QED
        BY <2>1, <2>2, <2>4, <4>1, <4>2, <4>3 DEF FirstPass, Aliased
    <3> QED
      BY <3>1, <3>2
  <2>5. Aliased(node)'
    BY <1>6, <2>3, <2>4 DEF Aliased
  <2>6. alias_of' \in [Values' -> Values' \cup {NoTensor}]
    BY <1>1, <1>4, <1>6, <2>1 DEF FirstPass
  <2>7. producer' \in [Values' -> -1 .. Len(ops') + node']
    <3>1. Len(ops) \in Nat /\ n \in Nat /\ n >= 1 /\ Len(ops') = Len(ops) /\ node' = n + 1
      BY <1>1, <1>2, <1>3, <1>5
    <3> HIDE DEF n
    <3>2. -1 .. Len(ops) + n \subseteq -1 .. Len(ops') + node' /\ n - 1 \in -1 .. Len(ops') + node'
      BY <3>1
    <3>3. producer \in [Values -> -1 .. Len(ops) + n]
      BY <2>1 DEF FirstPass, n
    <3> QED
      BY <1>1, <1>6, <3>2, <3>3
  <2>8. ASSUME NEW h \in Heads, h < node', ~Renames(h) PROVE producer'[ResultOf(h)] = Index(h)
    <3>1. h < n /\ h <= Limit
      BY <1>9, <1>3, <2>8, HeadsFacts, LimitFacts
    <3>2. ResultOf(h) # t
      BY <1>1, <1>2, <1>4, <2>8, <3>1, ResultsDiffer
    <3>3. ResultOf(h) \in Values
      <4>1. h \in 1 .. Limit
        BY <3>1, HeadsFacts, LimitFacts
      <4> QED
        BY <4>1, SpanFacts, LimitFacts, GraphFacts DEF ResultOf, OutOf, Values
    <3> QED
      BY <1>1, <2>1, <2>8, <3>1, <3>2, <3>3 DEF FirstPass
  <2>9. offset' = [u \in Values' |-> 0]
    BY <1>6, <1>7, <2>1 DEF FirstPass
  <2> QED
    BY <1>1, <1>6, <2>1, <2>5, <2>6, <2>7, <2>8, <2>9 DEF FirstPass
<1>13. ASSUME pass = 2 PROVE Planned' /\ Embedded'
  <2>1. Planned /\ Embedded
    BY <1>1, <1>13 DEF PassInv
  <2>2. \A u \in Values : last_use[u] <= last_use'[u]
    BY <1>1, <2>1 DEF Planned
  <2>3. Planned'
    BY <1>1, <1>5, <1>2, <1>7, <1>13, <2>1, <2>2, SamePlanned DEF Planned
  <2>4. \A u : OffsetOf(Root(u), 0)' = OffsetOf(Root(u), 0)
    BY <1>1, <1>7, <1>13, SameNames DEF OffsetOf
  <2> QED
    BY <1>1, <1>6, <1>7, <2>1, <2>3, <2>4 DEF Embedded
<1> QED
  BY <1>1, <1>2, <1>11, <1>12, <1>13 DEF PassInv

(* The values of graph whose names are known.                              *)
LEMMA InputRoot ==
  ASSUME graph \in Graphs, NEW N \in Heads, Aliased(N)
  PROVE  graph.input \in Values /\ alias_of[graph.input] = NoTensor
<1>1. graph.input \in Values
  BY GraphFacts DEF Values
<1>2. ASSUME alias_of[graph.input] # NoTensor PROVE FALSE
  <2>1. Producer(graph, graph.input) \in 1 .. Limit /\ graph.input = OutOf(Producer(graph, graph.input))
    BY <1>1, <1>2, AliasFacts
  <2> QED
    BY <2>1, LimitFacts, GraphFacts DEF OutOf
<1> QED
  BY <1>1, <1>2

(* A name is as large as what it stands for.                               *)
LEMMA SameSize ==
  ASSUME graph \in Graphs, NEW N \in Heads, Aliased(N), NEW u \in Values
  PROVE  Bytes(u) = Bytes(Root(u)) /\ Bytes(u) \in Nat \ {0}
<1> DEFINE S == {k \in 0 .. Len(graph.nodes) :
                   \A t \in Values : Producer(graph, t) <= k => Bytes(t) = Bytes(Root(t))}
<1>1. Len(graph.nodes) \in Nat /\ Limit \in Nat /\ Limit <= Len(graph.nodes)
  BY GraphFacts, LimitFacts
<1>2. \A t \in Values : Producer(graph, t) \in 0 .. Len(graph.nodes)
  BY GraphFacts, ProducerIs DEF Values
<1>3. 0 \in S
  <2> SUFFICES ASSUME NEW t \in Values, Producer(graph, t) <= 0 PROVE Bytes(t) = Bytes(Root(t))
    BY <1>1
  <2>1. alias_of[t] = NoTensor
    BY <1>1, AliasFacts
  <2> QED
    BY <2>1, RootIs
<1>4. ASSUME NEW k \in 0 .. Len(graph.nodes) - 1, k \in S PROVE k + 1 \in S
  <2> SUFFICES ASSUME NEW t \in Values, Producer(graph, t) <= k + 1 PROVE Bytes(t) = Bytes(Root(t))
    BY <1>1
  <2>1. CASE alias_of[t] = NoTensor
    BY <2>1, RootIs
  <2>2. CASE alias_of[t] # NoTensor
    <3> DEFINE a == alias_of[t]
               p == Producer(graph, t)
    <3>1. /\ a \in Values /\ p \in 1 .. Limit /\ Producer(graph, a) \in 0 .. p - 1
          /\ p \in Heads /\ Renames(p) /\ t = OutOf(p) /\ p < N
      BY <2>2, AliasFacts
    <3>2. Root(a) = Root(t) /\ Producer(graph, a) <= k
      BY <1>1, <2>2, <3>1, RootIs
    <3>3. Bytes(a) = Bytes(Root(a))
      BY <1>4, <3>1, <3>2
    <3>4. a = In(p, 1)
      BY <3>1 DEF Aliased
    <3>5. Bytes(a) = Bytes(t)
      BY <3>1, <3>4, LimitFacts, OperandsAssumption DEF Renames, IsReshape, Op, In, OutOf, Out, Bytes
    <3> QED
      BY <3>2, <3>3, <3>5
  <2> QED
    BY <2>1, <2>2
<1>5. Len(graph.nodes) \in S
  <2> HIDE DEF S
  <2>1. 0 .. Len(graph.nodes) \subseteq S
    BY <1>1, <1>3, <1>4, Induction
  <2> QED
    BY <1>1, <2>1
<1>6. Bytes(u) \in Nat \ {0}
  BY GraphsWellFormed DEF WellFormed, Bytes, Values
<1> QED
  BY <1>2, <1>5, <1>6

LEMMA LowerStep ==
  ASSUME graph \in Graphs, PassInv, Lower
  PROVE  PassInv'
<1>1. CASE LowerAlias
  BY <1>1, AliasStep
<1>2. CASE LowerFails
  BY <1>2 DEF LowerFails, PassInv
<1>3. CASE LowerGelu \/ LowerRepack \/ LowerNode
  <2>1. /\ pc = "lower" /\ node <= Limit /\ UNCHANGED <<graph, strategy, pc, plan>>
    BY <1>3 DEF LowerGelu, LowerRepack, LowerNode
  <2>2. node \in Heads
    BY <2>1 DEF PassInv, Lowering
  <2>3. ~Renames(node) /\ Emit(Compiled(node))
    <3>1. CASE LowerGelu
      <4>1. AtChain(node)
        BY <3>1 DEF LowerGelu, AtGelu, AtChain
      <4> QED
        BY <2>1, <2>2, <3>1, <4>1, RenamesFacts, GraphsWellFormed DEF LowerGelu, Compiled
    <3>2. CASE LowerRepack
      <4>1. ~AtChain(node) /\ IsReshape(node)
        BY <3>2 DEF LowerRepack, AtGelu, AtChain
      <4> QED
        BY <3>2, <4>1 DEF LowerRepack, Compiled, Renames
    <3>3. CASE LowerNode
      <4>1. ~AtChain(node) /\ ~IsReshape(node)
        BY <3>3 DEF LowerNode, AtGelu, AtChain
      <4> QED
        BY <3>3, <4>1 DEF LowerNode, Compiled, Renames
    <3> QED
      BY <1>3, <3>1, <3>2, <3>3
  <2> QED
    BY <2>1, <2>3, EmitStep
<1> QED
  BY <1>1, <1>2, <1>3 DEF Lower

(* Where the first pass ends, every operation has been made.               *)
LEMMA PassEnds ==
  ASSUME graph \in Graphs, node \in Heads, node > Limit
  PROVE  node = Limit + 1 /\ Limit \in Nat /\ \A h \in Heads : h <= Limit => h < node /\ h \in 1 .. Limit
BY LimitFacts, HeadsFacts

(* A value lives as long as any of its names is read.                      *)
LEMMA NamesLive ==
  ASSUME graph \in Graphs, NEW N \in Heads, Aliased(N), Len(ops) \in Nat,
         NEW uses \in [Values -> -1 .. Len(ops)], NEW B \in Nat, Len(ops) <= B,
         producer \in [Values -> -1 .. B], NEW u \in Values
  PROVE  /\ Root(u) \in Values => uses[u] <= Life(Root(u), uses).last
         /\ graph.input = Root(u) => Len(ops) <= Life(Root(u), uses).last
<1> SUFFICES ASSUME Root(u) \in Values
             PROVE  /\ uses[u] <= Life(Root(u), uses).last
                    /\ graph.input = Root(u) => Len(ops) <= Life(Root(u), uses).last
  BY GraphFacts DEF Values
<1>1. -1 .. Len(ops) \subseteq -1 .. B /\ Len(ops) \in 0 .. B
  OBVIOUS
<1>2. uses \in [Values -> -1 .. B] /\ uses[u] \in -1 .. Len(ops) /\ producer[Root(u)] \in -1 .. B
  BY <1>1
<1> DEFINE life == Life(Root(u), uses)
<1>3. /\ life.last \in -1 .. B
      /\ Root(u) = graph.input => Len(ops) <= life.last
      /\ Root(u) # graph.input => uses[Root(u)] <= life.last
      /\ \A x \in Values : alias_of[x] # NoTensor /\ Root(x) = Root(u) => uses[x] <= life.last
  BY <1>1, <1>2, LifeFacts
<1>4. alias_of[u] = NoTensor => Root(u) = u
  BY RootIs
<1> HIDE DEF life
<1>5. life.last \in Int /\ uses[u] \in Int /\ uses[u] <= Len(ops) /\ Len(ops) \in Int
  BY <1>2, <1>3
<1>6. CASE alias_of[u] # NoTensor
  BY <1>3, <1>6 DEF life
<1>7. CASE alias_of[u] = NoTensor /\ u # graph.input
  BY <1>3, <1>4, <1>7 DEF life
<1>8. CASE alias_of[u] = NoTensor /\ u = graph.input
  <2>1. Len(ops) <= life.last
    BY <1>3, <1>4, <1>8
  <2>2. uses[u] <= life.last
    BY <1>5, <2>1
  <2> QED
    BY <2>1, <2>2 DEF life
<1> QED
  BY <1>6, <1>7, <1>8

(* Marking changes a flag of each operation.                               *)
LEMMA MarksSet ==
  ASSUME ops \in Seq(Elements(ops)), MarkPairs
  PROVE  /\ Len(ops') = Len(ops) /\ Len(ops) \in Nat
         /\ DOMAIN ops' = DOMAIN ops /\ DOMAIN ops = 1 .. Len(ops)
         /\ \A i \in DOMAIN ops : ops'[i] = [ops[i] EXCEPT !.ffn = i \in Marked]
<1>1. Len(ops) \in Nat /\ DOMAIN ops = 1 .. Len(ops)
  BY LenProperties
<1> DEFINE marks == [i \in DOMAIN ops |-> [ops[i] EXCEPT !.ffn = i \in Marked]]
           S == {marks[i] : i \in DOMAIN ops}
<1>2. marks \in [1 .. Len(ops) -> S] /\ DOMAIN marks = DOMAIN ops
  BY <1>1
<1>3. ops' = marks
  BY DEF MarkPairs
<1>4. \A i \in DOMAIN ops : marks[i] = [ops[i] EXCEPT !.ffn = i \in Marked]
  OBVIOUS
<1> HIDE DEF marks, S
<1>5. marks \in Seq(S)
  BY <1>1, <1>2
<1>6. Len(marks) = Len(ops)
  BY <1>1, <1>2, <1>5, LenProperties
<1> QED
  BY <1>1, <1>2, <1>3, <1>4, <1>6

(* Every candidate is as the plan's entries have to be.                    *)
LEMMA CandidateStep ==
  ASSUME graph \in Graphs, PassInv, EndFirstPass, NEW uses,
         uses = ExtendActivation(last_use'), NEW c \in Candidates(uses)
  PROVE  EntryInv(c)'
<1>1. /\ pc = "lower" /\ pass = 1 /\ node > Limit /\ MarkPairs
      /\ UNCHANGED <<graph, strategy, alias_of, producer>>
  BY DEF EndFirstPass
<1>2. Lowering /\ FirstPass /\ node \in Heads
  BY <1>1 DEF PassInv, Lowering
<1>3. node = Limit + 1 /\ Limit \in Nat /\ \A h \in Heads : h <= Limit => h < node /\ h \in 1 .. Limit
  BY <1>1, <1>2, PassEnds
<1>4. Aliased(Limit + 1) /\ Limit + 1 \in Heads
  BY <1>2, <1>3 DEF FirstPass
<1>5. /\ Len(ops) \in Nat /\ last_use \in [Values -> -1 .. Len(ops)]
      /\ Marked = {i \in 1 .. Len(ops) : Pairs(i, last_use)}
      /\ last_use' = Stretched(Marked)
  <2>1. Len(ops) \in Nat
    BY <1>1, <1>2, MarksSet DEF Lowering, Listed
  <2> QED
    BY <1>1, <1>2, <2>1, MarkedAre DEF FirstPass, MarkPairs
<1>6. /\ last_use' \in [Values -> -1 .. Len(ops)]
      /\ \A t \in Values : last_use[t] <= last_use'[t]
      /\ \A i \in Marked : In(ops[i].begin, 1) \in Values => i <= last_use'[In(ops[i].begin, 1)]
  <2>1. -1 .. Len(ops) \in SUBSET Int /\ 1 .. Len(ops) \subseteq -1 .. Len(ops)
    BY <1>5
  <2> QED
    BY <1>5, <2>1, StretchedFacts
<1>7. uses \in [Values -> -1 .. Len(ops)] /\ \A t \in Values : last_use'[t] <= uses[t]
  BY <1>5, <1>6, ExtendedFacts
<1> DEFINE B == Len(ops) + node
<1>8. B \in Nat /\ Len(ops) <= B /\ producer \in [Values -> -1 .. B] /\ -1 .. Len(ops) \subseteq -1 .. B
      /\ Len(ops) \in 0 .. B
  BY <1>2, <1>3, <1>5 DEF FirstPass
<1> HIDE DEF B
<1>9. PICK t \in Values : /\ c = [value |-> t, alt |-> 0, bytes |-> Bytes(t),
                                  first |-> Life(t, uses).first, last |-> Life(t, uses).last]
                          /\ alias_of[t] = NoTensor
  BY DEF Candidates
<1>10. /\ c.value = t /\ c.alt = 0 /\ c.bytes = Bytes(t)
       /\ c.first = (IF t = graph.input THEN 0 ELSE producer[t])
       /\ c.last \in -1 .. B /\ c.first <= c.last /\ producer[t] \in -1 .. B
  <2>1. uses \in [Values -> -1 .. B] /\ producer[t] \in -1 .. B
    BY <1>7, <1>8
  <2> DEFINE life == Life(t, uses)
  <2>2. /\ life.first = (IF t = graph.input THEN 0 ELSE producer[t])
        /\ life.last \in -1 .. B /\ life.first <= life.last
    BY <1>8, <2>1, LifeFacts
  <2>3. c.first = life.first /\ c.last = life.last
    BY <1>9
  <2> QED
    BY <1>9, <2>1, <2>2, <2>3
<1>11. ASSUME NEW u \in Values, Root(u) = t
       PROVE  uses[u] <= c.last
  BY <1>4, <1>5, <1>7, <1>8, <1>9, <1>11, NamesLive
<1>12. ASSUME NEW h \in Heads, h <= Limit, ~Renames(h)
       PROVE  /\ t = ResultOf(h) => c.first = Index(h)
              /\ \A k \in h .. Last(h) : \A u \in Ins(graph, k) : Root(u) = t => Index(h) <= c.last
  <2>1. h \in 1 .. Limit /\ h < node /\ Index(h) \in Nat
    BY <1>3, <1>12, IndexFacts
  <2>2. t = ResultOf(h) => c.first = Index(h)
    <3>1. Last(h) \in Nodes(graph)
      BY <2>1, SpanFacts, LimitFacts
    <3>2. ResultOf(h) # graph.input
      BY <3>1, GraphFacts DEF ResultOf, OutOf
    <3>3. producer[ResultOf(h)] = Index(h)
      BY <1>2, <1>12, <2>1 DEF FirstPass
    <3> QED
      BY <1>10, <3>2, <3>3
  <2>3. ASSUME NEW k \in h .. Last(h), NEW u \in Ins(graph, k), Root(u) = t
        PROVE  Index(h) <= c.last
    <3>1. k \in Nodes(graph)
      <4>1. Last(h) \in h .. Limit
        BY <2>1, SpanFacts
      <4>2. k \in 1 .. Limit
        BY <1>3, <2>1, <4>1
      <4> QED
        BY <4>2, LimitFacts
    <3>2. u \in Values
      BY <3>1, OperandFacts DEF Values
    <3>3. Index(h) <= last_use[u] /\ last_use[u] <= last_use'[u] /\ last_use'[u] <= uses[u]
          /\ uses[u] <= c.last
      BY <1>2, <1>6, <1>7, <1>11, <1>12, <2>1, <2>3, <3>2 DEF Lowering
    <3>4. last_use[u] \in Int /\ last_use'[u] \in Int /\ uses[u] \in Int /\ c.last \in Int
      BY <1>5, <1>6, <1>7, <1>10, <3>2
    <3> QED
      BY <2>1, <3>3, <3>4
  <2> QED
    BY <2>2, <2>3
<1>13. ASSUME NEW h \in Heads, NEW k \in Heads, Paired(h, k), Root(In(h, 1)) = t
       PROVE  Index(k) < last_use'[ResultOf(h)] \/ Index(k) <= c.last
  <2>1. /\ h <= Limit /\ k <= Limit /\ ~Renames(h) /\ ~Renames(k) /\ Index(k) = Index(h) + 1
        /\ ResultOf(h) = In(k, 1) /\ h \in 1 .. Limit /\ k \in 1 .. Limit /\ h < node /\ k < node
    BY <1>3, <1>13 DEF Paired
  <2>2. ResultOf(h) \in Values /\ Index(k) \in Nat
    BY <1>4, <2>1, OwnRoot, IndexFacts
  <2>3. In(k, 1) \in Ins(graph, k) /\ In(h, 1) \in Values
    BY <2>1, LimitFacts, OperandFacts DEF In, Ins, Values
  <2>4. Index(k) <= last_use[ResultOf(h)]
    <3>1. k \in k .. Last(k)
      <4>1. Last(k) \in k .. Limit
        BY <2>1, SpanFacts
      <4> QED
        BY <2>1, <4>1
    <3> QED
      BY <1>2, <2>1, <2>3, <3>1 DEF Lowering
  <2>5. last_use[ResultOf(h)] <= last_use'[ResultOf(h)]
        /\ last_use[ResultOf(h)] \in Int /\ last_use'[ResultOf(h)] \in Int
    BY <1>5, <1>6, <2>2
  <2>6. CASE last_use[ResultOf(h)] = Index(k)
    <3>1. /\ Index(h) + 1 \in DOMAIN ops /\ ops[Index(h) + 1].begin = h
          /\ Index(k) + 1 \in DOMAIN ops /\ ops[Index(k) + 1].begin = k
      BY <1>2, <2>1, ListedAt DEF Lowering
    <3>2. DOMAIN ops = 1 .. Len(ops)
      BY <1>1, <1>2, MarksSet DEF Lowering, Listed
    <3>3. Index(k) \in 1 .. Len(ops) /\ Index(k) + 1 <= Len(ops)
          /\ ops[Index(k)].begin = h /\ ops[Index(k) + 1].begin = k
      BY <1>5, <2>1, <2>2, <3>1, <3>2
    <3>4. Pairs(Index(k), last_use)
      BY <1>2, <1>4, <1>13, <2>6, <3>3, PairsAre DEF Lowering
    <3>5. Index(k) <= last_use'[In(h, 1)]
      BY <1>5, <1>6, <2>3, <3>3, <3>4
    <3>6. last_use'[In(h, 1)] <= uses[In(h, 1)] /\ uses[In(h, 1)] <= c.last
      BY <1>7, <1>11, <1>13, <2>3
    <3>7. last_use'[In(h, 1)] \in Int /\ uses[In(h, 1)] \in Int /\ c.last \in Int
      BY <1>6, <1>7, <1>10, <2>3
    <3> QED
      BY <2>2, <3>5, <3>6, <3>7
  <2>7. CASE last_use[ResultOf(h)] # Index(k)
    BY <2>2, <2>4, <2>5, <2>7
  <2> QED
    BY <2>6, <2>7
<1>14. /\ Limit' = Limit
       /\ \A n : Renames(n)' = Renames(n)
       /\ \A n : Last(n)' = Last(n) /\ ResultOf(n)' = ResultOf(n) /\ OutOf(n)' = OutOf(n)
       /\ Heads' = Heads
       /\ \A n : Index(n)' = Index(n)
       /\ \A h, k : Paired(h, k)' = Paired(h, k)
       /\ \A u : Root(u)' = Root(u)
       /\ Values' = Values
       /\ \A n : In(n, 1)' = In(n, 1)
       /\ CtcTail' = CtcTail /\ Activation' = Activation
  BY <1>1, SameLowering, SamePaired, SameNames, SameTail DEF Values, In
<1>16. CtcTail /\ t = Root(Activation) => Index(Limit + 1) <= c.last
  <2> SUFFICES ASSUME CtcTail, t = Root(Activation) PROVE Index(Limit + 1) <= c.last
    OBVIOUS
  <2>1. Activation \in Values
    BY TailFacts
  <2>2. Len(ops) <= uses[Activation]
    <3>1. last_use'[Activation] \in -1 .. Len(ops)
      BY <1>6, <2>1
    <3>2. uses = IF last_use'[Activation] < Len(ops)
                   THEN [last_use' EXCEPT ![Activation] = Len(ops)] ELSE last_use'
      BY DEF ExtendActivation
    <3>3. CASE last_use'[Activation] < Len(ops)
      BY <1>5, <1>6, <2>1, <3>2, <3>3
    <3>4. CASE ~(last_use'[Activation] < Len(ops))
      BY <1>5, <3>1, <3>2, <3>4
    <3> QED
      BY <3>3, <3>4
  <2>3. uses[Activation] <= c.last
    BY <1>11, <2>1
  <2>4. Len(ops) = Index(Limit + 1)
    BY <1>2, <1>3 DEF Lowering, Listed
  <2>5. uses[Activation] \in Int /\ c.last \in Int
    BY <1>7, <1>10, <2>1
  <2> QED
    BY <1>5, <2>2, <2>3, <2>4, <2>5
<1>15. c.first \in Int /\ c.last \in Int /\ (t = graph.input => c.first = 0)
  BY <1>10
<1> QED
  BY <1>1, <1>9, <1>10, <1>12, <1>13, <1>14, <1>15, <1>16 DEF EntryInv, Bytes

LEMMA FirstPassEnds ==
  ASSUME graph \in Graphs, PassInv, EndFirstPass
  PROVE  PassInv' /\ PlanInv'
<1> DEFINE uses == ExtendActivation(last_use')
<1>1. /\ pc = "lower" /\ pass = 1 /\ node > Limit /\ MarkPairs /\ pc' = "plan"
      /\ PlanStart(Candidates(uses))
      /\ UNCHANGED <<graph, strategy, alias_of, producer>>
  BY DEF EndFirstPass
<1>2. Lowering /\ FirstPass /\ node \in Heads
  BY <1>1 DEF PassInv, Lowering
<1>3. node = Limit + 1 /\ Limit \in Nat /\ \A h \in Heads : h <= Limit => h < node /\ h \in 1 .. Limit
  BY <1>1, <1>2, PassEnds
<1>4. Aliased(Limit + 1) /\ Limit + 1 \in Heads
  BY <1>2, <1>3 DEF FirstPass
<1>5. /\ Len(ops) \in Nat /\ Len(ops') = Len(ops)
      /\ Marked \subseteq 1 .. Len(ops) /\ last_use' = Stretched(Marked)
  <2>1. Len(ops) \in Nat /\ Len(ops') = Len(ops)
    BY <1>1, <1>2, MarksSet DEF Lowering, Listed
  <2> QED
    BY <1>1, <2>1, MarkedAre DEF MarkPairs
<1>6. last_use' \in [Values -> Int]
  <2>1. last_use' \in [Values -> -1 .. Len(ops)]
    <3>1. -1 .. Len(ops) \in SUBSET Int /\ 1 .. Len(ops) \subseteq -1 .. Len(ops)
      BY <1>5
    <3> QED
      BY <1>2, <1>5, <3>1, StretchedFacts DEF FirstPass
  <2> QED
    BY <2>1
<1>7. candidates' = Candidates(uses) /\ placed' = <<>>
  BY <1>1 DEF PlanStart
<1>8. \A c \in Candidates(uses) : EntryInv(c)'
  BY CandidateStep
<1>9. ASSUME NEW v, Stored(v) PROVE \E c \in Candidates(uses) : c.value = v
  <2>1. v \in Values /\ ~IsConst(v) /\ alias_of[v] = NoTensor
    BY <1>4, <1>9, InputRoot, OwnRoot DEF Stored, IsConst
  <2>2. v = graph.input \/ producer[v] >= 0
    <3> SUFFICES ASSUME v # graph.input PROVE producer[v] >= 0
      OBVIOUS
    <3>1. PICK h \in Heads : h <= Limit /\ ~Renames(h) /\ v = ResultOf(h)
      BY <1>9 DEF Stored
    <3>2. h < node /\ Index(h) \in Nat
      BY <1>3, <3>1, IndexFacts
    <3>3. producer[v] = Index(h)
      BY <1>2, <3>1, <3>2 DEF FirstPass
    <3> QED
      BY <3>2, <3>3
  <2> DEFINE c == [value |-> v, alt |-> 0, bytes |-> Bytes(v),
                   first |-> Life(v, uses).first, last |-> Life(v, uses).last]
  <2> HIDE DEF uses
  <2>3. c \in Candidates(uses)
    BY <2>1, <2>2 DEF Candidates
  <2>4. c.value = v
    OBVIOUS
  <2> QED
    BY <2>3, <2>4
<1>10. /\ Limit' = Limit
       /\ \A n : Renames(n)' = Renames(n)
       /\ \A n : ResultOf(n)' = ResultOf(n) /\ OutOf(n)' = OutOf(n)
       /\ Heads' = Heads
       /\ Values' = Values
       /\ \A n : In(n, 1)' = In(n, 1)
  BY <1>1, SameLowering DEF Values, In
<1>11. \A v : Stored(v)' = Stored(v)
  BY <1>1, <1>10 DEF Stored
<1>12. Aliased(Limit + 1)'
  BY <1>1, <1>4, <1>10 DEF Aliased
<1>13. \A c \in Candidates(uses) : c.bytes \in Nat
  BY GraphsWellFormed DEF Candidates, WellFormed, Bytes, Values
<1>14. PlanInv'
  BY <1>1, <1>13, StartOfPlan
<1> HIDE DEF uses
<1>15. DOMAIN placed' = {}
  BY <1>7
<1>16. Planned'
  BY <1>1, <1>2, <1>4, <1>5, <1>6, <1>7, <1>8, <1>9, <1>10, <1>11, <1>12, <1>15 DEF Planned, FirstPass
<1> QED
  BY <1>1, <1>14, <1>16 DEF PassInv

(* Placing a value keeps what is known of it.                              *)
LEMMA PlacingStep ==
  ASSUME graph \in Graphs, PlanInv, Planned, Bump \/ Place,
         UNCHANGED <<graph, strategy, lowering>>
  PROVE  Planned'
<1>1. UNCHANGED <<graph, strategy, alias_of, last_use, ops>>
  BY DEF lowering
<1>2. /\ Limit' = Limit
      /\ \A n : Renames(n)' = Renames(n)
      /\ \A n : Last(n)' = Last(n) /\ ResultOf(n)' = ResultOf(n) /\ OutOf(n)' = OutOf(n)
      /\ Heads' = Heads
      /\ \A n : Index(n)' = Index(n)
      /\ \A h, k : Paired(h, k)' = Paired(h, k)
      /\ \A t : Root(t)' = Root(t)
      /\ Values' = Values
      /\ \A n : In(n, 1)' = In(n, 1)
      /\ CtcTail' = CtcTail /\ Activation' = Activation
  BY <1>1, SameLowering, SamePaired, SameNames, SameTail DEF Values, In
<1>3. ASSUME NEW e, EntryInv(e) PROVE EntryInv(e)'
  BY <1>1, <1>2, <1>3 DEF EntryInv, Bytes
<1>4. Aliased(Limit + 1)'
  BY <1>1, <1>2 DEF Planned, Aliased
<1>5. \A v : Stored(v)' = Stored(v)
  BY <1>1, <1>2 DEF Stored
<1>6. CASE Bump
  <2>1. UNCHANGED <<candidates, placed>>
    BY <1>6 DEF Bump, BumpBehind
  <2> QED
    BY <1>1, <1>2, <1>3, <1>4, <1>5, <2>1 DEF Planned
<1>7. CASE Place
  <2>1. PICK c \in candidates : PlaceNext(c)
    BY <1>7 DEF Place
  <2> DEFINE s == Slot(c, Align(offset_tried))
             n == Len(placed) + 1
  <2>2. candidates' = candidates \ {c} /\ placed' = Append(placed, s)
    BY <2>1 DEF PlaceNext
  <2>3. /\ s.value = c.value /\ s.alt = c.alt /\ s.bytes = c.bytes
        /\ s.first = c.first /\ s.last = c.last
    BY DEF Slot
  <2> HIDE DEF s
  <2>4. /\ DOMAIN placed' = DOMAIN placed \cup {n}
        /\ \A i \in DOMAIN placed : placed'[i] = placed[i]
        /\ placed'[n] = s
    BY <2>2, AppendAny DEF PlanInv, PlanTyped
  <2> HIDE DEF n
  <2>5. EntryInv(s)
    <3>1. EntryInv(c)
      BY DEF Planned
    <3> QED
      BY <2>3, <3>1 DEF EntryInv
  <2>6. \A x \in candidates' : EntryInv(x)'
    BY <1>3, <2>2 DEF Planned
  <2>7. ASSUME NEW p \in DOMAIN placed', NEW e, e = placed'[p] PROVE EntryInv(e)'
    <3>1. CASE p = n
      <4>1. EntryInv(e)
        BY <2>4, <2>5, <2>7, <3>1
      <4> QED
        BY <1>3, <4>1
    <3>2. CASE p # n
      <4>1. p \in DOMAIN placed /\ placed'[p] = placed[p]
        BY <2>4, <3>2
      <4>2. EntryInv(e)
        BY <2>7, <4>1 DEF Planned
      <4> QED
        BY <1>3, <4>2
    <3> QED
      BY <3>1, <3>2
  <2>8. ASSUME NEW p \in DOMAIN placed' PROVE EntryInv(placed[p])'
    <3>1. PICK e : e = placed'[p]
      OBVIOUS
    <3>2. EntryInv(e)'
      BY <2>7, <3>1
    <3> QED
      BY <3>1, <3>2 DEF EntryInv, Bytes
  <2>9. ASSUME NEW v, Stored(v)
        PROVE  \/ \E x \in candidates' : x.value = v
               \/ \E p \in DOMAIN placed' : placed'[p].value = v
    <3>1. CASE v = c.value
      BY <2>3, <2>4, <3>1
    <3>2. CASE v # c.value
      BY <2>2, <2>4, <2>9, <3>2 DEF Planned
    <3> QED
      BY <3>1, <3>2
  <2> QED
    BY <1>1, <1>2, <1>4, <1>5, <2>6, <2>8, <2>9 DEF Planned
<1> QED
  BY <1>6, <1>7

(* The second pass begins: the operations are made again.                  *)
LEMMA SecondPassBegins ==
  ASSUME graph \in Graphs, PassInv, BeginSecondPass
  PROVE  PassInv'
<1>1. /\ pc = "plan" /\ candidates = {} /\ pc' = "lower" /\ pass' = 2 /\ node' = 1 /\ ops' = <<>>
      /\ offset' = [t \in Values |-> OffsetOf(Root(t), 0)]
      /\ last_use' = ExtendActivation(last_use)
      /\ UNCHANGED <<graph, strategy, alias_of, candidates, placed>>
  BY DEF BeginSecondPass, plan
<1>2. Planned
  BY <1>1 DEF PassInv
<1>3. last_use \in [Values -> Int] /\ Len(ops) \in Nat /\ Len(ops) \in Int
  BY <1>2 DEF Planned
<1>4. last_use' \in [Values -> Int] /\ \A t \in Values : last_use[t] <= last_use'[t]
  <2> DEFINE long == [last_use EXCEPT ![Activation] = Len(ops)]
  <2>1. \A t \in Values : long[t] = IF t = Activation THEN Len(ops) ELSE last_use[t]
    BY <1>3
  <2>2. long \in [Values -> Int]
    BY <1>3
  <2>3. \A t \in Values : last_use[t] \in Int /\ long[t] \in Int
    BY <1>3, <2>2
  <2>4. last_use' = IF CtcTail /\ last_use[Activation] < Len(ops) THEN long ELSE last_use
    BY <1>1 DEF ExtendActivation
  <2> HIDE DEF long
  <2>5. CASE CtcTail /\ last_use[Activation] < Len(ops)
    <3>1. \A t \in Values : last_use[t] <= long[t]
      BY <1>3, <2>1, <2>3, <2>5
    <3> QED
      BY <2>2, <2>4, <2>5, <3>1
  <2>6. CASE ~(CtcTail /\ last_use[Activation] < Len(ops))
    BY <1>3, <2>3, <2>4, <2>6
  <2> QED
    BY <2>5, <2>6
<1>5. Len(ops') = 0 /\ DOMAIN ops' = {} /\ ops' \in Seq(Elements(ops'))
  <2>1. \A T : <<>> \in Seq(T)
    BY EmptySeq
  <2> QED
    BY <1>1, <2>1
<1>6. Planned'
  BY <1>1, <1>2, <1>4, <1>5, SamePlanned
<1>7. /\ Heads' = Heads /\ Index(1)' = 0 /\ 1 \in Heads /\ Values' = Values
      /\ \A h \in Heads : ~(h < 1)
  BY <1>1, SameLowering, IndexFacts, HeadsFacts, LimitFacts DEF Values
<1>8. Lowering'
  <2>1. Elements(ops)' = Elements(ops')
    BY DEF Elements
  <2>2. Index(node)' = 0
    BY <1>1, <1>7
  <2>3. Listed'
    BY <1>5, <2>1, <2>2 DEF Listed
  <2> QED
    BY <1>1, <1>4, <1>7, <2>3 DEF Lowering
<1>9. Embedded'
  <2>1. \A t : OffsetOf(Root(t), 0)' = OffsetOf(Root(t), 0)
    BY <1>1, SameNames DEF OffsetOf
  <2> QED
    BY <1>1, <1>7, <2>1 DEF Embedded
<1> QED
  BY <1>1, <1>6, <1>8, <1>9 DEF PassInv

(* Where the plan has put a value, all its names are.                      *)
LEMMA PlaceOf ==
  ASSUME graph \in Graphs, Planned, Embedded, NEW v, Stored(v)
  PROVE  \E p \in DOMAIN placed :
           /\ placed[p].value = v /\ EntryInv(placed[p])
           /\ \A u \in Values : Root(u) = v => /\ offset[u] = placed[p].offset
                                               /\ Bytes(u) = placed[p].bytes
<1> DEFINE Here(p) == p \in DOMAIN placed /\ placed[p].value = v /\ placed[p].alt = 0
           p == CHOOSE q \in DOMAIN placed : placed[q].value = v /\ placed[q].alt = 0
<1>1. \E q \in DOMAIN placed : placed[q].value = v /\ placed[q].alt = 0
  <2>1. PICK q \in DOMAIN placed : placed[q].value = v
    BY DEF Planned, Embedded
  <2>2. EntryInv(placed[q])
    BY DEF Planned
  <2> QED
    BY <2>1, <2>2 DEF EntryInv
<1>2. p \in DOMAIN placed /\ placed[p].value = v /\ placed[p].alt = 0
  BY <1>1
<1>3. OffsetOf(v, 0) = placed[p].offset
  BY <1>1 DEF OffsetOf
<1> HIDE DEF p
<1>4. EntryInv(placed[p])
  BY <1>2 DEF Planned
<1>5. ASSUME NEW u \in Values, Root(u) = v
      PROVE  offset[u] = placed[p].offset /\ Bytes(u) = placed[p].bytes
  <2>1. offset[u] = OffsetOf(Root(u), 0)
    BY DEF Embedded
  <2>2. Bytes(u) = Bytes(Root(u))
    BY SameSize DEF Planned
  <2>3. placed[p].bytes = Bytes(v)
    BY <1>2, <1>4 DEF EntryInv
  <2> QED
    BY <1>3, <1>5, <2>1, <2>2, <2>3
<1> QED
  BY <1>2, <1>4, <1>5

(* What an operation finds has a place, from its producer on.              *)
LEMMA FoundPlace ==
  ASSUME graph \in Graphs, Planned, Embedded,
         NEW n \in Heads, n <= Limit \/ CtcTail, NEW t, Found(n, t)
  PROVE  /\ t \in Values /\ offset[Root(t)] = offset[t]
         /\ \/ Root(t) = graph.input
            \/ \E h \in Heads : h < n /\ ~Renames(h) /\ Root(t) = ResultOf(h)
         /\ \E p \in DOMAIN placed :
              /\ placed[p].value = Root(t) /\ EntryInv(placed[p])
              /\ offset[t] = placed[p].offset /\ Bytes(t) = placed[p].bytes
              /\ placed[p].first <= Index(n)
<1>1. Limit \in Nat /\ \A h \in Heads : h \in 1 .. Limit + 1 /\ Index(h) \in Nat
  BY LimitFacts, HeadsFacts, IndexFacts
<1>2. Limit + 1 \in Heads /\ Aliased(Limit + 1) /\ n <= Limit + 1
  BY <1>1 DEF Planned
<1>3. Origin(t, n) /\ t \in Values
  BY <1>2, OriginFacts
<1>6. offset[Root(t)] = offset[t]
  <2>1. Root(t) \in Values /\ Root(Root(t)) = Root(t)
    <3>1. CASE Root(t) = graph.input
      BY <1>2, <3>1, InputRoot, RootIs
    <3>2. CASE Root(t) # graph.input
      <4>1. PICK h \in Heads : h < n /\ ~Renames(h) /\ Root(t) = ResultOf(h)
        BY <1>3, <3>2 DEF Origin
      <4>2. h <= Limit
        BY <1>1, <4>1
      <4> QED
        BY <1>2, <4>1, <4>2, OwnRoot
    <3> QED
      BY <3>1, <3>2
  <2> QED
    BY <1>3, <2>1 DEF Embedded
<1>4. CASE Root(t) = graph.input /\ graph.input \notin graph.const
  <2>1. Stored(Root(t))
    BY <1>4, GraphFacts DEF Stored, Values
  <2>2. PICK p \in DOMAIN placed :
           /\ placed[p].value = Root(t) /\ EntryInv(placed[p])
           /\ offset[t] = placed[p].offset /\ Bytes(t) = placed[p].bytes
    BY <1>3, <2>1, PlaceOf
  <2>3. placed[p].first = 0
    BY <1>4, <2>2 DEF EntryInv
  <2> QED
    BY <1>1, <1>3, <1>4, <1>6, <2>2, <2>3
<1>5. ASSUME NEW h \in Heads, h < n, ~Renames(h), Root(t) = ResultOf(h)
      PROVE  \E p \in DOMAIN placed :
              /\ placed[p].value = Root(t) /\ EntryInv(placed[p])
              /\ offset[t] = placed[p].offset /\ Bytes(t) = placed[p].bytes
              /\ placed[p].first <= Index(n)
  <2>1. h <= Limit /\ h \in 1 .. Limit
    BY <1>1, <1>5
  <2>2. Stored(Root(t))
    <3>1. Last(h) \in h .. Limit
      BY <2>1, SpanFacts
    <3>2. Last(h) \in Nodes(graph)
      BY <2>1, <3>1, LimitFacts
    <3> QED
      BY <1>5, <2>1, <3>2, GraphFacts DEF Stored, ResultOf, OutOf, Values
  <2>3. PICK p \in DOMAIN placed :
           /\ placed[p].value = Root(t) /\ EntryInv(placed[p])
           /\ offset[t] = placed[p].offset /\ Bytes(t) = placed[p].bytes
    BY <1>3, <2>2, PlaceOf
  <2>4. placed[p].first = Index(h)
    BY <1>5, <2>1, <2>3 DEF EntryInv
  <2>5. Index(h) < Index(n)
    BY <1>5, IndexFacts
  <2> QED
    BY <1>1, <2>3, <2>4, <2>5
<1> QED
  BY <1>3, <1>4, <1>5, <1>6 DEF Origin

(* The executor accepts what the compiler marked.                          *)
LEMMA PairFits ==
  ASSUME graph \in Graphs, PlanInv, Planned, Embedded, Lowering, node = Limit + 1,
         NEW i \in 1 .. Len(ops), Pairs(i, last_use)
  PROVE  Fits(graph.bytes, arena_bytes, ops[i], ops[i + 1])
<1> DEFINE a == ops[i]
           b == ops[i + 1]
           h == a.begin
           k == b.begin
           mid == ResultOf(h)
           res == ResultOf(k)
<1>1. /\ Limit \in Nat /\ Limit + 1 \in Heads /\ Aliased(Limit + 1)
      /\ \A m \in Heads : m \in 1 .. Limit + 1 /\ Index(m) \in Nat
  BY LimitFacts, HeadsFacts, IndexFacts DEF Planned
<1>2. /\ Len(ops) \in Nat /\ i + 1 \in 1 .. Len(ops) /\ DOMAIN ops = 1 .. Len(ops)
      /\ Paired(h, k) /\ last_use[mid] = i
  <2>1. Len(ops) \in Nat /\ DOMAIN ops = 1 .. Len(ops)
    BY LenProperties DEF Lowering, Listed
  <2>2. i + 1 <= Len(ops) /\ Paired(h, k) /\ last_use[mid] = i
    BY <1>1, PairsAre DEF Lowering
  <2> QED
    BY <2>1, <2>2
<1>3. /\ h \in Heads /\ ~Renames(h) /\ Index(h) = i - 1 /\ a = Compiled(h)
      /\ k \in Heads /\ ~Renames(k) /\ Index(k) = i /\ b = Compiled(k)
  <2>1. i + 1 - 1 = i /\ i \in DOMAIN ops /\ i + 1 \in DOMAIN ops
    BY <1>2
  <2> QED
    BY <2>1 DEF Lowering, Listed
<1>4. /\ h <= Limit /\ k <= Limit /\ h \in 1 .. Limit /\ k \in 1 .. Limit
      /\ PointwiseConv(h) /\ PointwiseConv(k) /\ Span(h) >= 6 /\ Plain(h)
      /\ mid = In(k, 1) /\ Readers(graph, mid) = {k}
  BY <1>1, <1>2, <1>3 DEF Paired, SingleConsumer
<1>5. /\ a.out.value = mid /\ a.out.offset = offset[mid]
      /\ b.out.value = res /\ b.out.offset = offset[res]
  BY <1>3, <1>4, CompiledFacts
<1>6. /\ \A o \in a.ins : o.value = In(h, 1) /\ o.offset = offset[In(h, 1)]
      /\ Found(h, In(h, 1))
      /\ \A o \in b.ins : Found(k, o.value) /\ o.offset = offset[o.value]
  <2>1. \A o \in a.ins : o.offset = offset[o.value]
    BY <1>3, <1>4, PointwiseFacts
  <2>2. (\A o \in a.ins : o.value = In(h, 1)) /\ Found(h, In(h, 1))
    BY <1>3, <1>4, PointwiseFacts
  <2>3. \A o \in b.ins : Found(k, o.value) /\ o.offset = offset[o.value]
    BY <1>3, <1>4, PointwiseFacts
  <2> QED
    BY <2>1, <2>2, <2>3
<1>7. /\ mid \in Values /\ Root(mid) = mid /\ res \in Values /\ Root(res) = res
      /\ Stored(mid) /\ Stored(res) /\ mid # res /\ graph.input \notin {mid, res}
  <2>1. mid \in Values /\ Root(mid) = mid /\ res \in Values /\ Root(res) = res
    BY <1>1, <1>3, <1>4, OwnRoot
  <2>2. mid # res
    BY <1>3, <1>4, ResultsDiffer
  <2>3. Last(h) \in Nodes(graph) /\ Last(k) \in Nodes(graph)
    <3>1. ASSUME NEW m \in 1 .. Limit PROVE Last(m) \in Nodes(graph)
      <4>1. Last(m) \in m .. Limit
        BY SpanFacts
      <4> QED
        BY <1>1, <4>1, LimitFacts
    <3> HIDE DEF h, k
    <3> QED
      BY <1>4, <3>1
  <2>4. {mid, res} \cap (graph.const \cup {graph.input}) = {}
    BY <2>3, GraphFacts DEF ResultOf, OutOf
  <2> QED
    BY <1>3, <1>4, <2>1, <2>2, <2>4 DEF Stored
<1>8. PICK p \in DOMAIN placed :
        /\ placed[p].value = mid /\ EntryInv(placed[p])
        /\ offset[mid] = placed[p].offset /\ Bytes(mid) = placed[p].bytes
  BY <1>7, PlaceOf
<1>9. PICK q \in DOMAIN placed :
        /\ placed[q].value = res /\ EntryInv(placed[q])
        /\ offset[res] = placed[q].offset /\ Bytes(res) = placed[q].bytes
  BY <1>7, PlaceOf
<1> HIDE DEF a, b, h, k, mid, res
<1>10. /\ placed[p].first = i - 1 /\ i <= placed[p].last
       /\ placed[q].first = i /\ i <= placed[q].last
       /\ placed[p].last \in Int /\ placed[q].last \in Int
  <2>1. placed[p].first = i - 1 /\ placed[q].first = i
    BY <1>3, <1>4, <1>8, <1>9 DEF EntryInv, mid, res
  <2>2. mid \in Ins(graph, k) /\ k \in k .. Last(k)
    <3>1. Last(k) \in k .. Limit
      BY <1>4, SpanFacts
    <3>2. k \in k .. Last(k)
      BY <1>4, <3>1
    <3> QED
      BY <1>4, <3>2 DEF Readers
  <2>3. i <= placed[p].last
    BY <1>3, <1>4, <1>7, <1>8, <2>2 DEF EntryInv
  <2> QED
    BY <1>8, <1>9, <2>1, <2>3 DEF EntryInv
<1> DEFINE Apart(r) == /\ r \in DOMAIN placed /\ r \notin {p, q}
                       /\ SameTime(placed[r], placed[p]) /\ SameTime(placed[r], placed[q])
<1>11. ASSUME NEW r \in DOMAIN placed, r \notin {p, q}, EntryInv(placed[r]),
              placed[r].first <= i, i <= placed[r].last
       PROVE  Apart(r)
  BY <1>10, <1>11 DEF SameTime, EntryInv
<1>12. \E r : Apart(r) /\ offset[In(h, 1)] = placed[r].offset /\ Bytes(In(h, 1)) = placed[r].bytes
  <2> DEFINE t == In(h, 1)
  <2>1. /\ Root(t) = graph.input \/ \E g \in Heads : g < h /\ ~Renames(g) /\ Root(t) = ResultOf(g)
        /\ \E r \in DOMAIN placed :
              /\ placed[r].value = Root(t) /\ EntryInv(placed[r])
              /\ offset[t] = placed[r].offset /\ Bytes(t) = placed[r].bytes
              /\ placed[r].first <= Index(h)
    BY <1>3, <1>4, <1>6, FoundPlace
  <2>2. PICK r \in DOMAIN placed :
              /\ placed[r].value = Root(t) /\ EntryInv(placed[r])
              /\ offset[t] = placed[r].offset /\ Bytes(t) = placed[r].bytes
              /\ placed[r].first <= Index(h)
    BY <2>1
  <2>3. Root(t) \notin {mid, res}
    <3>1. h < k
      BY <1>1, <1>3, <1>4, IndexFacts
    <3>2. ASSUME NEW g \in Heads, g < h PROVE ResultOf(g) \notin {mid, res}
      <4>1. g <= Limit /\ g # h /\ g # k
        BY <1>1, <1>3, <1>4, <3>1, <3>2
      <4> QED
        BY <1>3, <1>4, <4>1, ResultsDiffer DEF mid, res
    <3> QED
      BY <1>7, <2>1, <3>2
  <2>4. i <= placed[r].last
    <3>1. Index(k) < last_use[ResultOf(h)] \/ Index(k) <= placed[r].last
      BY <1>2, <1>3, <2>2 DEF EntryInv
    <3> QED
      BY <1>2, <1>3, <3>1 DEF mid
  <2>5. placed[r].first <= i
    BY <1>3, <2>2 DEF EntryInv
  <2>6. r \notin {p, q}
    BY <1>8, <1>9, <2>2, <2>3
  <2> QED
    BY <1>11, <2>2, <2>4, <2>5, <2>6
<1>13. ASSUME NEW t, Found(k, t), t # mid
       PROVE  \E r : Apart(r) /\ offset[t] = placed[r].offset /\ Bytes(t) = placed[r].bytes
  <2>1. /\ t \in Values
        /\ Root(t) = graph.input \/ \E g \in Heads : g < k /\ ~Renames(g) /\ Root(t) = ResultOf(g)
        /\ \E r \in DOMAIN placed :
              /\ placed[r].value = Root(t) /\ EntryInv(placed[r])
              /\ offset[t] = placed[r].offset /\ Bytes(t) = placed[r].bytes
              /\ placed[r].first <= Index(k)
    BY <1>3, <1>4, <1>13, FoundPlace
  <2>2. PICK r \in DOMAIN placed :
              /\ placed[r].value = Root(t) /\ EntryInv(placed[r])
              /\ offset[t] = placed[r].offset /\ Bytes(t) = placed[r].bytes
              /\ placed[r].first <= Index(k)
    BY <2>1
  <2>3. Root(t) # res
    <3>1. ASSUME NEW g \in Heads, g < k PROVE ResultOf(g) # res
      <4>1. g <= Limit /\ g # k
        BY <1>1, <1>3, <1>4, <3>1
      <4> QED
        BY <1>3, <1>4, <4>1, ResultsDiffer DEF res
    <3> QED
      BY <1>7, <2>1, <3>1
  <2>4. Root(t) # mid
    <3>1. ASSUME NEW m \in Heads, m <= Limit, mid \in Ins(graph, m) PROVE ~Renames(m)
      <4>1. m \in Readers(graph, mid)
        BY <1>1, <3>1, LimitFacts DEF Readers
      <4> QED
        BY <1>3, <1>4, <4>1
    <3> QED
      BY <1>1, <1>13, <2>1, <3>1, OnlyName
  <2>5. i <= placed[r].last
    <3>1. PICK m \in k .. Last(k) : t \in Ins(graph, m)
      BY <1>13 DEF Found
    <3> QED
      BY <1>3, <1>4, <2>2, <3>1 DEF EntryInv
  <2>6. r \notin {p, q} /\ placed[r].first <= i
    BY <1>3, <1>8, <1>9, <2>2, <2>3, <2>4
  <2> QED
    BY <1>11, <2>2, <2>5, <2>6
<1> DEFINE Extent(r) == [from |-> placed[r].offset, bytes |-> placed[r].bytes]
<1>14. ExtentOf(a.out) = Extent(p) /\ ExtentOf(b.out) = Extent(q)
  BY <1>5, <1>8, <1>9 DEF ExtentOf
<1>15. ASSUME NEW o \in a.ins \cup {x \in b.ins : x.value # a.out.value}
       PROVE  \E r : Apart(r) /\ ExtentOf(o) = Extent(r)
  <2>1. CASE o \in a.ins
    BY <1>6, <1>12, <2>1 DEF ExtentOf
  <2>2. CASE o \in b.ins /\ o.value # mid
    BY <1>6, <1>13, <2>2 DEF ExtentOf
  <2> QED
    BY <1>5, <1>15, <2>1, <2>2
<1> DEFINE Free(x, y) == ~Overlap(x.from, x.bytes, y.from, y.bytes)
<1>16. ASSUME NEW r, Apart(r)
       PROVE  Free(Extent(p), Extent(r)) /\ Free(Extent(q), Extent(r))
  BY <1>16 DEF PlanInv, PlacesDisjoint, SameTime, Overlap
<1>17. /\ p # q /\ Free(Extent(p), Extent(q)) /\ Free(Extent(q), Extent(p))
       /\ Extent(p) # Extent(q)
  <2>1. p # q
    BY <1>7, <1>8, <1>9
  <2>2. SameTime(placed[p], placed[q])
    BY <1>10 DEF SameTime
  <2>3. Free(Extent(p), Extent(q)) /\ Free(Extent(q), Extent(p))
    BY <2>1, <2>2 DEF PlanInv, PlacesDisjoint, Overlap
  <2>4. placed[p].bytes \in Nat \ {0} /\ placed[p].offset \in Nat
    BY <1>1, <1>7, <1>8, SameSize DEF PlanInv, PlanTyped
  <2>5. Overlap(placed[p].offset, placed[p].bytes, placed[p].offset, placed[p].bytes)
    BY <2>4 DEF Overlap
  <2>6. ASSUME Extent(p) = Extent(q) PROVE FALSE
    <3>1. placed[p].offset = placed[q].offset /\ placed[p].bytes = placed[q].bytes
      BY <2>6
    <3>2. ~Overlap(placed[p].offset, placed[p].bytes, placed[q].offset, placed[q].bytes)
      BY <2>3
    <3> QED
      BY <2>5, <3>1, <3>2
  <2> QED
    BY <2>1, <2>3, <2>6
<1>18. \A r \in DOMAIN placed : Extent(r).from + Extent(r).bytes <= arena_bytes
  BY DEF PlanInv, PlacesFit, End
<1> HIDE DEF Extent, Apart, Free
<1>19. Cardinality({Extent(p), Extent(q)}) = 2
  <2>1. IsFiniteSet({Extent(p)}) /\ Cardinality({Extent(p)}) = 1
    BY FS_Singleton
  <2>2. Cardinality({Extent(p)} \cup {Extent(q)}) = Cardinality({Extent(p)}) + 1
    BY <1>17, <2>1, FS_AddElement
  <2>3. {Extent(p), Extent(q)} = {Extent(p)} \cup {Extent(q)}
    OBVIOUS
  <2> QED
    BY <2>1, <2>2, <2>3
<1>20. \A r : Apart(r) => r \in DOMAIN placed
  BY DEF Apart
<1> DEFINE results == {ExtentOf(a.out), ExtentOf(b.out)}
           reads == {ExtentOf(o) : o \in a.ins \cup {r \in b.ins : r.value # a.out.value}}
<1>21. results = {Extent(p), Extent(q)} /\ \A x \in reads : \E r : Apart(r) /\ x = Extent(r)
  BY <1>14, <1>15
<1> HIDE DEF results, reads
<1>22. \A x \in results \cup reads : x.from + x.bytes <= arena_bytes
  BY <1>18, <1>20, <1>21
<1>23. \A x \in results : \A y \in (results \ {x}) \cup reads : Free(x, y)
  BY <1>16, <1>17, <1>21
<1> QED
  BY <1>19, <1>21, <1>22, <1>23 DEF Fits, ExtentOf, Bytes, results, reads, Free, a, b

LEMMA SameFits ==
  ASSUME NEW bytes, NEW arena, NEW a, NEW b, NEW c, NEW d,
         c.ins = a.ins, c.out = a.out, d.ins = b.ins, d.out = b.out, Fits(bytes, arena, a, b)
  PROVE  Fits(bytes, arena, c, d)
BY DEF Fits

LEMMA SecondPassEnds ==
  ASSUME graph \in Graphs, PlanInv, PassInv, EndSecondPass
  PROVE  PassInv'
<1>1. /\ pc = "lower" /\ pass = 2 /\ node > Limit /\ MarkPairs
      /\ pc' \in {"rejected", "ready"}
      /\ UNCHANGED <<graph, strategy, alias_of, offset, candidates, placed, arena_bytes>>
  BY DEF EndSecondPass, plan
<1>2. Lowering /\ Planned /\ Embedded /\ node \in Heads
  BY <1>1 DEF PassInv, Lowering
<1>3. node = Limit + 1
  BY <1>1, <1>2, PassEnds
<1>4. /\ Len(ops') = Len(ops) /\ Len(ops) \in Nat
      /\ DOMAIN ops' = DOMAIN ops /\ DOMAIN ops = 1 .. Len(ops)
      /\ \A i \in DOMAIN ops : ops'[i] = [ops[i] EXCEPT !.ffn = i \in Marked]
  BY <1>1, <1>2, MarksSet DEF Lowering, Listed
<1>5. Marked = {i \in 1 .. Len(ops) : Pairs(i, last_use)}
  BY <1>4, MarkedAre
<1>6. ASSUME NEW i \in DOMAIN ops
      PROVE  /\ ops'[i].ins = ops[i].ins /\ ops'[i].out = ops[i].out
             /\ ops'[i].begin = ops[i].begin
             /\ ops'[i] = [Compiled(ops[i].begin) EXCEPT !.ffn = ops'[i].ffn]
             /\ ops'[i].ffn => Pairs(i, last_use)
  <2> DEFINE h == ops[i].begin
             c == Compiled(h)
  <2>1. h \in Heads /\ h < node /\ ~Renames(h) /\ ops[i] = c
    BY <1>2 DEF Lowering, Listed
  <2>2. h \in 1 .. Limit
    BY <1>3, <2>1, HeadsFacts, LimitFacts
  <2>3. c = [kind |-> c.kind, begin |-> h, count |-> Span(h),
             ins |-> c.ins, out |-> c.out, ffn |-> FALSE]
    BY <2>1, <2>2, CompiledFacts
  <2> HIDE DEF c, h
  <2>4. /\ ops'[i].ins = c.ins /\ ops'[i].out = c.out /\ ops'[i].ffn = (i \in Marked)
        /\ ops'[i].begin = h
    BY <1>4, <2>1, <2>3
  <2>5. ops'[i] = [c EXCEPT !.ffn = ops'[i].ffn]
    BY <1>4, <2>1, <2>4
  <2>6. c = Compiled(h) /\ h = ops[i].begin
    BY DEF c, h
  <2>7. ops[i].ins = c.ins /\ ops[i].out = c.out
    BY <2>1
  <2>8. i \in Marked => Pairs(i, last_use)
    BY <1>5
  <2>9. ops'[i].ffn => Pairs(i, last_use)
    BY <2>4, <2>8
  <2>10. ops'[i] = [Compiled(ops[i].begin) EXCEPT !.ffn = ops'[i].ffn]
    BY <2>5, <2>6, Zenon
  <2> HIDE DEF c, h
  <2> QED
    BY <2>4, <2>6, <2>7, <2>9, <2>10, Zenon
<1>7. ASSUME NEW i \in DOMAIN ops, ops'[i].ffn
      PROVE  Fits(graph.bytes, arena_bytes, ops'[i], ops'[i + 1])
  <2>1. i + 1 \in DOMAIN ops /\ Pairs(i, last_use) /\ i \in 1 .. Len(ops)
    BY <1>4, <1>6, <1>7 DEF Pairs
  <2>2. Fits(graph.bytes, arena_bytes, ops[i], ops[i + 1])
    BY <1>2, <1>3, <2>1, PairFits
  <2>3. /\ ops'[i].ins = ops[i].ins /\ ops'[i].out = ops[i].out
        /\ ops'[i + 1].ins = ops[i + 1].ins /\ ops'[i + 1].out = ops[i + 1].out
    BY <1>6, <2>1
  <2> QED
    BY <2>2, <2>3, SameFits
<1>8. Accepted'
  BY <1>1, <1>4, <1>7 DEF Accepted
<1>9. Planned'
  <2>1. last_use \in [Values -> Int]
    BY <1>2 DEF Lowering
  <2>2. Marked \subseteq 1 .. Len(ops) /\ 1 .. Len(ops) \subseteq Int /\ Int \in SUBSET Int
    BY <1>5
  <2>3. Stretched(Marked) \in [Values -> Int] /\ \A t \in Values : last_use[t] <= Stretched(Marked)[t]
    BY <1>4, <2>1, <2>2, StretchedFacts
  <2>4. last_use' = Stretched(Marked)
    BY <1>1 DEF MarkPairs
  <2> QED
    BY <1>1, <1>2, <1>4, <2>3, <2>4, SamePlanned
<1>10. /\ Limit' = Limit
       /\ \A n : Renames(n)' = Renames(n)
       /\ Heads' = Heads
       /\ \A n : Index(n)' = Index(n)
       /\ \A n : Compiled(n)' = Compiled(n)
       /\ \A h, k : Paired(h, k)' = Paired(h, k)
       /\ \A t : Root(t)' = Root(t)
       /\ Values' = Values
       /\ \A n : In(n, 1)' = In(n, 1)
  BY <1>1, SameLowering, SameOperation, SamePaired, SameNames DEF Values, In
<1>11. Embedded'
  <2>1. \A t : OffsetOf(Root(t), 0)' = OffsetOf(Root(t), 0)
    BY <1>1, <1>10 DEF OffsetOf
  <2> QED
    BY <1>1, <1>2, <1>10, <2>1 DEF Embedded
<1>12. ASSUME NEW i \in DOMAIN ops PROVE InTable(i)'
  <2>1. /\ ops[i].begin \in Heads /\ ops[i].begin <= Limit /\ ~Renames(ops[i].begin)
        /\ Index(ops[i].begin) = i - 1
    <3>1. /\ ops[i].begin \in Heads /\ ops[i].begin < node /\ ~Renames(ops[i].begin)
          /\ Index(ops[i].begin) = i - 1
      BY <1>2 DEF Lowering, Listed
    <3>2. ops[i].begin \in 1 .. Limit + 1 /\ Limit \in Nat
      BY <3>1, HeadsFacts, LimitFacts
    <3> QED
      BY <1>3, <3>1, <3>2
  <2> QED
    BY <1>6, <1>10, <2>1 DEF InTable
<1>13. ASSUME NEW i \in DOMAIN ops, ops'[i].ffn PROVE MarkedWell(i)'
  <2> DEFINE h == ops[i].begin
             k == ops[i + 1].begin
  <2>1. i + 1 \in DOMAIN ops /\ Pairs(i, last_use) /\ i \in 1 .. Len(ops)
    BY <1>4, <1>6, <1>13 DEF Pairs
  <2>2. Paired(h, k) /\ last_use[ResultOf(h)] = i
    BY <1>2, <1>3, <2>1, PairsAre DEF Lowering, Planned
  <2>3. h \in Heads /\ k \in Heads /\ Index(k) = i
    BY <1>2, <2>1 DEF Lowering, Listed
  <2>4. ASSUME NEW p \in DOMAIN placed, placed[p].value = Root(In(h, 1)) PROVE i <= placed[p].last
    <3>1. EntryInv(placed[p])
      BY <1>2 DEF Planned
    <3> HIDE DEF h, k
    <3> QED
      BY <2>1, <2>2, <2>3, <2>4, <3>1 DEF EntryInv
  <2> QED
    BY <1>1, <1>4, <1>6, <1>10, <2>1, <2>2, <2>4 DEF MarkedWell
<1>14. Tabled'
  BY <1>2, <1>3, <1>4, <1>6, <1>10, <1>12, <1>13 DEF Tabled, Lowering, Listed
<1> QED
  BY <1>1, <1>8, <1>9, <1>11, <1>14 DEF PassInv, Ready

-----------------------------------------------------------------------------
(* Runs leave the program as it is.                                        *)
LEMMA RunStep ==
  ASSUME graph \in Graphs, PassInv, Run \/ UNCHANGED vars
  PROVE  PassInv'
<1>1. CASE Run
  <2>1. /\ UNCHANGED <<graph, strategy, lowering, plan>>
        /\ pc \in {"ready", "run", "tail"} /\ pc' \in {"ready", "run", "tail"}
    BY <1>1 DEF Run, Begin, RunOp, RunPointwise, RunSpatial, RunBinary, RunUnary, RunMap,
       RunMatrix, Perform, Dispatched, RunPair, RunFails, Finish, Return
  <2>2. Ready
    BY <2>1 DEF PassInv
  <2>3. Ready'
    BY <2>1, <2>2, SameReady
  <2> QED
    BY <2>1, <2>3 DEF PassInv
<1>2. CASE UNCHANGED vars
  <2>1. UNCHANGED <<graph, strategy, pc, pass, node, ops, producer, last_use, alias_of, offset,
                    candidates, placed, offset_tried, arena_bytes>>
    BY <1>2 DEF vars, lowering, plan
  <2>2. /\ Limit' = Limit
        /\ \A n : Renames(n)' = Renames(n)
        /\ \A n : Last(n)' = Last(n) /\ ResultOf(n)' = ResultOf(n) /\ OutOf(n)' = OutOf(n)
        /\ Heads' = Heads
        /\ \A n : Index(n)' = Index(n)
        /\ \A n : Compiled(n)' = Compiled(n)
        /\ \A h, k : Paired(h, k)' = Paired(h, k)
        /\ \A t : Root(t)' = Root(t)
        /\ Values' = Values
        /\ \A n : In(n, 1)' = In(n, 1)
    BY <2>1, SameLowering, SameOperation, SamePaired, SameNames DEF Values, In
  <2>3. Lowering => Lowering'
    BY <2>1, <2>2 DEF Lowering, Listed, Elements
  <2>4. FirstPass => FirstPass'
    BY <2>1, <2>2 DEF FirstPass, Aliased
  <2>5. Planned /\ graph \in Graphs => Planned'
    <3> SUFFICES ASSUME Planned, graph \in Graphs PROVE Planned'
      OBVIOUS
    <3>1. \A t \in Values : last_use[t] <= last_use'[t]
      BY <2>1 DEF Planned
    <3> QED
      BY <2>1, <3>1, SamePlanned DEF Planned
  <2>6. Embedded => Embedded'
    <3>1. \A t : OffsetOf(Root(t), 0)' = OffsetOf(Root(t), 0)
      BY <2>1, <2>2 DEF OffsetOf
    <3> QED
      BY <2>1, <2>2, <3>1 DEF Embedded
  <2>7. Ready => Ready'
    BY <1>2, SameReady DEF vars
  <2> QED
    BY <2>1, <2>3, <2>4, <2>5, <2>6, <2>7 DEF PassInv
<1> QED
  BY <1>1, <1>2

-----------------------------------------------------------------------------
(* The program.                                                            *)

LEMMA ProgramStarts ==
  ASSUME Init
  PROVE  ProgramInv
<1>1. graph \in Graphs /\ pc = "lower" /\ pass = 1 /\ node = 1 /\ ops = <<>>
  BY DEF Init
<1>2. PlanInv
  BY PlanInitially DEF Init
<1>3. Len(ops) = 0 /\ DOMAIN ops = {} /\ ops \in Seq(Elements(ops))
  <2>1. \A T : <<>> \in Seq(T)
    BY EmptySeq
  <2> QED
    BY <1>1, <2>1
<1>4. 1 \in Heads /\ Index(1) = 0 /\ \A h \in Heads : ~(h < 1)
  BY <1>1, HeadsFacts, IndexFacts, LimitFacts
<1>5. last_use = [t \in Values |-> -1] /\ producer = [t \in Values |-> -1]
      /\ alias_of = [t \in Values |-> NoTensor] /\ offset = [t \in Values |-> 0]
  BY DEF Init
<1>6. Lowering
  BY <1>1, <1>3, <1>4, <1>5 DEF Lowering, Listed
<1>7. FirstPass
  BY <1>1, <1>3, <1>4, <1>5 DEF FirstPass, Aliased
<1> QED
  BY <1>1, <1>2, <1>6, <1>7 DEF ProgramInv, PassInv

LEMMA ProgramStep ==
  ASSUME ProgramInv, [Next]_vars
  PROVE  ProgramInv'
<1>1. graph \in Graphs /\ PlanInv /\ PassInv
  BY DEF ProgramInv
<1>2. CASE Lower
  <2>1. UNCHANGED <<graph, plan>>
    BY <1>2 DEF Lower, LowerGelu, LowerRepack, LowerAlias, LowerNode, LowerFails
  <2>2. PlanInv'
    BY <1>1, <2>1, PlanUntouched
  <2> QED
    BY <1>1, <1>2, <2>1, <2>2, LowerStep DEF ProgramInv
<1>3. CASE EndFirstPass
  <2>1. graph' = graph
    BY <1>3 DEF EndFirstPass
  <2> QED
    BY <1>1, <1>3, <2>1, FirstPassEnds DEF ProgramInv
<1>4. CASE PlanStep
  <2>1. /\ pc = "plan" /\ pc' = "plan" /\ (Bump \/ Place)
        /\ UNCHANGED <<graph, strategy, lowering>>
    BY <1>4 DEF PlanStep
  <2>2. PlanInv'
    BY <1>1, <2>1, BumpStep, PlaceStep
  <2>3. graph' = graph /\ pc' = "plan" /\ graph' \in Graphs
    BY <1>1, <2>1
  <2>4. Planned
    BY <1>1, <2>1 DEF PassInv
  <2>5. Planned'
    BY <1>1, <2>1, <2>4, PlacingStep
  <2>6. PassInv'
    BY <2>3, <2>5 DEF PassInv
  <2> QED
    BY <2>2, <2>3, <2>6 DEF ProgramInv
<1>5. CASE BeginSecondPass
  <2>1. UNCHANGED <<graph, plan>>
    BY <1>5 DEF BeginSecondPass
  <2> QED
    BY <1>1, <1>5, <2>1, SecondPassBegins, PlanUntouched DEF ProgramInv
<1>6. CASE EndSecondPass
  <2>1. UNCHANGED <<graph, plan>>
    BY <1>6 DEF EndSecondPass
  <2> QED
    BY <1>1, <1>6, <2>1, SecondPassEnds, PlanUntouched DEF ProgramInv
<1>7. CASE Run \/ UNCHANGED vars
  <2>1. UNCHANGED <<graph, plan>>
    BY <1>7 DEF Run, Begin, RunOp, RunPointwise, RunSpatial, RunBinary, RunUnary, RunMap,
       RunMatrix, Perform, RunPair, RunFails, Finish, Return, vars
  <2> QED
    BY <1>1, <1>7, <2>1, RunStep, PlanUntouched DEF ProgramInv
<1> QED
  BY <1>2, <1>3, <1>4, <1>5, <1>6, <1>7 DEF Next, Compile

(* Two values of a compiled recognition program that live at the same time *)
(* share no byte of its arena, and every value lies inside it              *)
(* (lw_x64_rec_program_plan_arena).                                        *)
THEOREM RecArenaIsSafe == Spec => [](PlacesDisjoint /\ PlacesFit)
<1>1. Init => ProgramInv
  BY ProgramStarts
<1>2. ProgramInv /\ [Next]_vars => ProgramInv'
  BY ProgramStep
<1>3. ProgramInv => PlacesDisjoint /\ PlacesFit
  BY DEF ProgramInv, PlanInv
<1> QED
  BY <1>1, <1>2, <1>3, PTL DEF Spec

(* Whatever the graph: lw_x64_rec_instance_run_ffn_pair refuses no pair    *)
(* that mark_ffn_pairs made.  The places of the two results, of the        *)
(* expansion's input and of the projection's residual lie in the arena and *)
(* do not overlap, because the lifetime of the input was stretched to the  *)
(* projection before the arena was planned, and the second pass marks no   *)
(* pair that the first one had not seen.                                   *)
THEOREM NoPairIsRefused == Spec => []PairsAccepted
<1>1. Init => ProgramInv
  BY ProgramStarts
<1>2. ProgramInv /\ [Next]_vars => ProgramInv'
  BY ProgramStep
<1>3. ProgramInv => PairsAccepted
  BY DEF ProgramInv, PassInv, Ready, Accepted, PairsAccepted, Fits, PairAccepted, ExtentOf, Bytes
<1> QED
  BY <1>1, <1>2, <1>3, PTL DEF Spec

-----------------------------------------------------------------------------
(* The memory order of the tensors, as the graph decides it.               *)

LEMMA OrderSourceFacts ==
  ASSUME graph \in Graphs, NEW n \in Nodes(graph)
  PROVE  /\ OrderSource(n) \in Ins(graph, n) /\ OrderSource(n) \in Values
         /\ Producer(graph, OrderSource(n)) \in 0 .. n - 1
         /\ n \in Nat \ {0}
<1>1. n \in Nat \ {0} /\ 1 \in Slots(graph, n)
      /\ Slots(graph, n) = 1 .. Len(graph.nodes[n].ins)
  BY GraphFacts, OperandFacts
<1>2. OrderSource(n) \in Ins(graph, n)
  <2>1. Len(graph.nodes[n].ins) = 2 => 2 \in Slots(graph, n)
    BY <1>1
  <2> QED
    BY <1>1, <2>1 DEF OrderSource, Ins, In
<1>3. /\ OrderSource(n) \in Values
      /\ \/ OrderSource(n) \in graph.const \cup {graph.input}
         \/ \E m \in Nodes(graph) : m < n /\ Out(graph, m) = OrderSource(n)
  BY <1>2, OperandFacts DEF Values
<1>4. CASE OrderSource(n) \in graph.const \cup {graph.input}
  <2>1. \A m \in Nodes(graph) : Out(graph, m) # OrderSource(n)
    BY <1>4, GraphFacts
  <2>2. Producer(graph, OrderSource(n)) = 0
    BY <1>3, <2>1, ProducerIs DEF Values
  <2> QED
    BY <1>1, <1>2, <1>3, <2>2
<1>5. ASSUME NEW m \in Nodes(graph), m < n, Out(graph, m) = OrderSource(n)
      PROVE  Producer(graph, OrderSource(n)) \in 0 .. n - 1
  <2>1. Producer(graph, OrderSource(n)) = m /\ m \in Nat
    BY <1>5, ProducerIs, GraphFacts
  <2> QED
    BY <1>1, <1>5, <2>1
<1> QED
  BY <1>1, <1>2, <1>3, <1>4, <1>5

LEMMA StoredOrderIs ==
  ASSUME graph \in Graphs
  PROVE  /\ \A t : Producer(graph, t) = 0 => StoredOrder(t) = MapOrder
         /\ \A n \in Nodes(graph) :
              StoredOrder(OutOf(n)) = IF Keeps(n) THEN StoredOrder(OrderSource(n))
                                                  ELSE Alone(n).out.order
<1> DEFINE D == 0 .. Len(graph.nodes)
           src(n) == Producer(graph, OrderSource(n))
           X == {MapOrder} \cup {Alone(n).out.order : n \in Nodes(graph)}
           Step(f) == [n \in D |-> IF n = 0 THEN MapOrder
                                   ELSE IF Keeps(n) THEN f[src(n)]
                                   ELSE Alone(n).out.order]
           Right(f, k) == \A n \in D : n <= k => f[n] = Step(f)[n]
           S == {k \in D : \E f \in [D -> X] : Right(f, k)}
<1>1. /\ Len(graph.nodes) \in Nat /\ 0 \in D /\ \A n \in D : n # 0 => n \in Nodes(graph)
      /\ Nodes(graph) \subseteq D /\ \A n \in Nodes(graph) : n # 0
  BY GraphFacts
<1>2. \A n \in D : n # 0 => src(n) \in D /\ src(n) < n
  <2> TAKE n \in D
  <2> HAVE n # 0
  <2>1. src(n) \in 0 .. n - 1
    BY <1>1, OrderSourceFacts
  <2> QED
    BY <1>1, <2>1
<1>3. \A f \in [D -> X] : Step(f) \in [D -> X]
  <2> SUFFICES ASSUME NEW f \in [D -> X], NEW n \in D PROVE Step(f)[n] \in X
    OBVIOUS
  <2>1. n # 0 => f[src(n)] \in X /\ Alone(n).out.order \in X
    <3> HIDE DEF D, src
    <3> QED
      BY <1>1, <1>2
  <2> HIDE DEF X, src
  <2>2. MapOrder \in X
    BY DEF X
  <2> QED
    BY <2>1, <2>2
<1>4. 0 \in S
  <2> DEFINE f == [n \in D |-> MapOrder]
  <2>1. f \in [D -> X]
    OBVIOUS
  <2>2. Right(f, 0)
    BY <1>1
  <2> HIDE DEF f, Step, X
  <2> QED
    BY <1>1, <2>1, <2>2
<1>5. ASSUME NEW k \in 0 .. Len(graph.nodes) - 1, k \in S PROVE k + 1 \in S
  <2>1. PICK f \in [D -> X] : Right(f, k)
    BY <1>5
  <2> DEFINE h == Step(f)
  <2>2. h \in [D -> X]
    BY <1>3
  <2>3. ASSUME NEW n \in D, n <= k + 1
        PROVE  h[n] = Step(h)[n]
    <3>1. CASE n = 0 \/ ~Keeps(n)
      BY <3>1
    <3>2. CASE n # 0 /\ Keeps(n)
      <4>1. src(n) \in D /\ src(n) <= k
        BY <1>1, <1>2, <2>3, <3>2
      <4>2. f[src(n)] = h[src(n)]
        BY <2>1, <4>1
      <4> HIDE DEF src
      <4> QED
        BY <2>3, <3>2, <4>2
    <3> QED
      BY <3>1, <3>2
  <2> HIDE DEF h, Step, X
  <2>4. Right(h, k + 1)
    BY <2>3
  <2> QED
    BY <1>1, <2>2, <2>4
<1>6. Len(graph.nodes) \in S
  <2> HIDE DEF S
  <2>1. 0 .. Len(graph.nodes) \subseteq S
    BY <1>1, <1>4, <1>5, Induction
  <2> QED
    BY <1>1, <2>1
<1>7. PICK f : f \in [D -> X] /\ Right(f, Len(graph.nodes))
  BY <1>6
<1>8. f = Step(f)
  <2>1. \A n \in D : f[n] = Step(f)[n]
    <3>1. \A n \in D : n <= Len(graph.nodes)
      BY <1>1
    <3> HIDE DEF D, Step, X
    <3> QED
      BY <1>7, <3>1
  <2>2. Step(f) \in [D -> X]
    BY <1>3, <1>7
  <2> HIDE DEF Step, X, D
  <2> QED
    BY <1>7, <2>1, <2>2
<1> DEFINE order == CHOOSE g : g = [n \in D |-> IF n = 0 THEN MapOrder
                                               ELSE IF Keeps(n) THEN g[src(n)]
                                               ELSE Alone(n).out.order]
<1>9. order = [n \in D |-> IF n = 0 THEN MapOrder
                           ELSE IF Keeps(n) THEN order[src(n)]
                           ELSE Alone(n).out.order]
  BY <1>8
<1>10. \A t : StoredOrder(t) = order[Producer(graph, t)]
  BY DEF StoredOrder
<1> HIDE DEF order
<1>11. \A n \in D : order[n] = IF n = 0 THEN MapOrder
                               ELSE IF Keeps(n) THEN order[src(n)]
                               ELSE Alone(n).out.order
  BY <1>9
<1>12. \A n \in Nodes(graph) : Producer(graph, OutOf(n)) = n
  BY ProducerIs DEF OutOf
<1> QED
  BY <1>1, <1>10, <1>11, <1>12

LEMMA SameOrders ==
  ASSUME UNCHANGED <<graph, strategy, offset>>
  PROVE  \A t : StoredOrder(t)' = StoredOrder(t)
BY DEF StoredOrder, MapOrder, Keeps, Alone, OrderSource, Renames, IsReshape, ToMap, FromMap, Mixed,
       IsSame, Repack, CompileNode, MapOperation, AffineOperation, BinaryOperation, MeanOperation,
       UnaryOperation, CanonicalOperation, Operation, Result, Operands, Operand, ByRank, Claim,
       ClaimedNhwc, Op, In, OutOf, Bytes, IsConst

(* A name has the order of what it stands for.                             *)
LEMMA AliasOrder ==
  ASSUME graph \in Graphs, NEW N \in Heads, Aliased(N), NEW u \in Values
  PROVE  StoredOrder(u) = StoredOrder(Root(u))
<1> DEFINE S == {k \in 0 .. Len(graph.nodes) :
                   \A t \in Values : Producer(graph, t) <= k => StoredOrder(t) = StoredOrder(Root(t))}
<1>1. Len(graph.nodes) \in Nat /\ Limit \in Nat /\ Limit <= Len(graph.nodes)
  BY GraphFacts, LimitFacts
<1>2. \A t \in Values : Producer(graph, t) \in 0 .. Len(graph.nodes)
  BY GraphFacts, ProducerIs DEF Values
<1>3. 0 \in S
  <2> SUFFICES ASSUME NEW t \in Values, Producer(graph, t) <= 0
               PROVE  StoredOrder(t) = StoredOrder(Root(t))
    BY <1>1
  <2>1. alias_of[t] = NoTensor
    BY <1>1, AliasFacts
  <2> QED
    BY <2>1, RootIs
<1>4. ASSUME NEW k \in 0 .. Len(graph.nodes) - 1, k \in S PROVE k + 1 \in S
  <2> SUFFICES ASSUME NEW t \in Values, Producer(graph, t) <= k + 1
               PROVE  StoredOrder(t) = StoredOrder(Root(t))
    BY <1>1
  <2>1. CASE alias_of[t] = NoTensor
    BY <2>1, RootIs
  <2>2. CASE alias_of[t] # NoTensor
    <3> DEFINE a == alias_of[t]
               p == Producer(graph, t)
    <3>1. /\ a \in Values /\ p \in 1 .. Limit /\ Producer(graph, a) \in 0 .. p - 1
          /\ p \in Heads /\ Renames(p) /\ t = OutOf(p) /\ p < N /\ a \notin graph.const
      BY <2>2, AliasFacts
    <3>2. Root(a) = Root(t) /\ Producer(graph, a) <= k
      BY <1>1, <2>2, <3>1, RootIs
    <3>3. StoredOrder(a) = StoredOrder(Root(a))
      BY <1>4, <3>1, <3>2
    <3>4. a = In(p, 1)
      BY <3>1 DEF Aliased
    <3>5. OrderSource(p) = a /\ Keeps(p)
      BY <3>1, <3>4 DEF OrderSource, IsConst, Keeps
    <3>6. StoredOrder(OutOf(p)) = StoredOrder(a)
      BY <3>1, <3>5, LimitFacts, StoredOrderIs
    <3> QED
      BY <3>1, <3>2, <3>3, <3>6
  <2> QED
    BY <2>1, <2>2
<1>5. Len(graph.nodes) \in S
  <2> HIDE DEF S
  <2>1. 0 .. Len(graph.nodes) \subseteq S
    BY <1>1, <1>3, <1>4, Induction
  <2> QED
    BY <1>1, <2>1
<1> QED
  BY <1>2, <1>5


(* Where the operands of an elementwise operator agree, or one of them is  *)
(* a weight, its result is in their order.                                 *)
LEMMA ElementwiseOrder ==
  ASSUME graph \in Graphs, OrdersAgree, NEW j \in 1 .. Limit,
         Op(j) \in {"add", "mul", "div", "erf"}, NEW x \in Ins(graph, j), ~IsConst(x),
         \/ \E c \in Ins(graph, j) : IsConst(c)
         \/ \A y, z \in Ins(graph, j) : StoredOrder(y) = StoredOrder(z)
  PROVE  StoredOrder(OutOf(j)) = StoredOrder(x)
<1>1. j \in Nodes(graph)
  BY LimitFacts
<1>2. CASE Keeps(j)
  <2>1. StoredOrder(x) = StoredOrder(OrderSource(j))
    BY <1>2 DEF OrdersAgree
  <2> QED
    BY <1>1, <1>2, <2>1, StoredOrderIs
<1>3. CASE ~Keeps(j)
  <2>1. ~Renames(j) /\ ~IsReshape(j)
    BY DEF Renames, IsReshape
  <2>2. Op(j) \in {"add", "mul", "div"} /\ Mixed(j)
    BY <1>3 DEF Keeps
  <2>3. Slots(graph, j) = 1 .. 2
    BY <1>1, <2>2, OperandFacts, OperandsAssumption DEF Op
  <2>4. Alone(j).ins = {Operand(In(j, s), Claim(In(j, s))) : s \in 1 .. 2}
    BY <2>1, <2>2 DEF Alone, CompileNode, BinaryOperation, Operation
  <2>5. \A s \in 1 .. 2 : ~IsConst(In(j, s)) /\ StoredOrder(In(j, s)) = Claim(In(j, s))
    <3> TAKE s \in 1 .. 2
    <3> DEFINE o == Operand(In(j, s), Claim(In(j, s)))
    <3>1. o \in Alone(j).ins
      BY <2>4
    <3>2. o.value = In(j, s) /\ o.want = Claim(In(j, s)) /\ o.want # "same"
      BY DEF Operand, Claim
    <3> HIDE DEF o
    <3> QED
      BY <2>1, <3>1, <3>2 DEF OrdersAgree
  <2>6. Claim(In(j, 1)) # Claim(In(j, 2))
    BY <2>2 DEF Mixed
  <2>7. Ins(graph, j) = {In(j, 1), In(j, 2)}
    BY <2>3 DEF Ins, In
  <2> QED
    BY <2>5, <2>6, <2>7, 1 \in 1 .. 2, 2 \in 1 .. 2
<1> QED
  BY <1>2, <1>3

(* The chain of a GELU hands its source's order on.                        *)
LEMMA ChainOrder ==
  ASSUME graph \in Graphs, OrdersAgree, NEW n \in 1 .. Limit, AtChain(n)
  PROVE  /\ ChainSource(graph, n) \in Ins(graph, n) /\ ~IsConst(ChainSource(graph, n))
         /\ StoredOrder(OutOf(n + 4)) = StoredOrder(ChainSource(graph, n))
<1> DEFINE src == ChainSource(graph, n)
<1>1. /\ n \in Nat /\ Limit \in Nat /\ n + 4 <= Limit
      /\ \A k \in 0 .. 4 : n + k \in 1 .. Limit /\ n + k \in Nodes(graph)
  BY LimitFacts DEF AtChain
<1>2. MatchesGelu(graph, n)
  BY DEF AtChain, GeluAt
<1>3. \A k \in 0 .. 4 : Op(n + k) = Chain[k + 1] /\ Len(graph.nodes[n + k].ins) = IF k = 1 THEN 1 ELSE 2
  BY <1>2 DEF MatchesGelu, Op
<1>4. /\ Op(n) = "div" /\ Op(n + 1) = "erf" /\ Op(n + 2) = "add" /\ Op(n + 3) = "mul"
      /\ Op(n + 4) = "mul" /\ Len(graph.nodes[n].ins) = 2 /\ Len(graph.nodes[n + 1].ins) = 1
      /\ Len(graph.nodes[n + 3].ins) = 2
  <2>1. /\ Op(n + 0) = "div" /\ Op(n + 1) = "erf" /\ Op(n + 2) = "add" /\ Op(n + 3) = "mul"
        /\ Op(n + 4) = "mul" /\ Len(graph.nodes[n + 0].ins) = 2 /\ Len(graph.nodes[n + 1].ins) = 1
        /\ Len(graph.nodes[n + 3].ins) = 2
    BY <1>3, 0 \in 0 .. 4, 1 \in 0 .. 4, 2 \in 0 .. 4, 3 \in 0 .. 4, 4 \in 0 .. 4 DEF Chain
  <2>2. n + 0 = n
    BY <1>1
  <2> QED
    BY <2>1, <2>2
<1>5. /\ OutOf(n) \in Ins(graph, n + 1) /\ OutOf(n + 1) \in Ins(graph, n + 2)
      /\ OutOf(n + 2) \in Ins(graph, n + 3) /\ OutOf(n + 3) \in Ins(graph, n + 4)
  <2>1. \A k \in 0 .. 3 : Out(graph, n + k) \in Ins(graph, n + k + 1)
    BY <1>2 DEF MatchesGelu
  <2>2. /\ n + 0 = n /\ n + 0 + 1 = n + 1 /\ n + 1 + 1 = n + 2 /\ n + 2 + 1 = n + 3
        /\ n + 3 + 1 = n + 4
    BY <1>1
  <2> QED
    BY <2>1, <2>2, 0 \in 0 .. 3, 1 \in 0 .. 3, 2 \in 0 .. 3, 3 \in 0 .. 3 DEF OutOf
<1>6. /\ src \in Ins(graph, n) /\ src = In(n, 1) /\ src \in Ins(graph, n + 3)
      /\ In(n, 2) \in Ins(graph, n) /\ IsConst(In(n, 2))
      /\ \E c \in Ins(graph, n + 2) : IsConst(c)
      /\ \E c \in Ins(graph, n + 4) : IsConst(c)
  <2>1. n \in Nodes(graph)
    BY LimitFacts
  <2>2. Slots(graph, n) = 1 .. 2
    BY <1>4, <2>1, OperandFacts
  <2>3. /\ src \in Ins(graph, n) /\ src = In(n, 1)
        /\ In(n, 2) \in Ins(graph, n)
    BY <2>2 DEF Ins, In, ChainSource
  <2>4. src \in Ins(graph, n + 3) /\ IsConst(In(n, 2))
    BY <1>2 DEF MatchesGelu, ConstantScalar, IsConst, In
  <2>5. \A k \in {2, 4} : \E c \in Ins(graph, n + k) : IsConst(c)
    BY <1>2 DEF MatchesGelu, ConstantScalar, IsConst
  <2> QED
    BY <2>3, <2>4, <2>5
<1>7. \A k \in 0 .. 4 : ~IsConst(OutOf(n + k)) /\ OutOf(n + k) # src
  <2> TAKE k \in 0 .. 4
  <2>1. ~IsConst(OutOf(n + k)) /\ OutOf(n + k) # graph.input
    BY <1>1, GraphFacts DEF IsConst, OutOf
  <2>2. ASSUME OutOf(n + k) = src PROVE FALSE
    <3>1. PICK m \in Nodes(graph) : m < n /\ Out(graph, m) = src
      BY <1>1, <1>6, <2>1, <2>2, OperandFacts, LimitFacts DEF IsConst
    <3>2. n + k \in Nodes(graph) /\ Out(graph, n + k) = src
      BY <1>1, <2>2 DEF OutOf
    <3>3. m = n + k
      BY <3>1, <3>2, GraphFacts
    <3> QED
      BY <1>1, <3>1, <3>3
  <2> QED
    BY <2>1, <2>2
<1>8. ~IsConst(src)
  <2>1. ~IsReshape(n) /\ ~Renames(n)
    BY <1>4 DEF IsReshape, Renames
  <2>2. ~Mixed(n)
    BY <1>6 DEF Mixed, IsSame
  <2>3. Keeps(n)
    BY <1>4, <2>2 DEF Keeps
  <2>4. ~IsConst(OrderSource(n))
    BY <2>3 DEF OrdersAgree
  <2> QED
    BY <1>4, <1>6, <2>4 DEF OrderSource
<1> HIDE DEF src
<1>9. StoredOrder(OutOf(n)) = StoredOrder(src)
  BY <1>4, <1>6, <1>8, ElementwiseOrder
<1>10. StoredOrder(OutOf(n + 1)) = StoredOrder(OutOf(n))
  <2>1. Slots(graph, n + 1) = 1 .. 1 /\ n + 1 \in 1 .. Limit
    BY <1>1, <1>4, OperandFacts, 1 \in 0 .. 4
  <2>2. \A y, z \in Ins(graph, n + 1) : y = z
    BY <2>1 DEF Ins
  <2>3. ~IsConst(OutOf(n))
    BY <1>1, <1>7, n + 0 = n, 0 \in 0 .. 4
  <2> QED
    BY <1>4, <1>5, <2>1, <2>2, <2>3, ElementwiseOrder
<1>11. StoredOrder(OutOf(n + 2)) = StoredOrder(OutOf(n + 1))
  BY <1>1, <1>4, <1>5, <1>6, <1>7, ElementwiseOrder, 1 \in 0 .. 4, 2 \in 0 .. 4
<1>12. StoredOrder(OutOf(n + 3)) = StoredOrder(OutOf(n + 2))
  <2>1. Slots(graph, n + 3) = 1 .. 2 /\ n + 3 \in 1 .. Limit /\ ~IsConst(OutOf(n + 2))
        /\ OutOf(n + 2) # src
    BY <1>1, <1>4, <1>7, OperandFacts, 3 \in 0 .. 4, 2 \in 0 .. 4
  <2>2. Ins(graph, n + 3) = {graph.nodes[n + 3].ins[1], graph.nodes[n + 3].ins[2]}
    BY <2>1 DEF Ins
  <2>3. Ins(graph, n + 3) = {OutOf(n + 2), src}
    BY <1>5, <1>6, <2>1, <2>2
  <2>4. \A y, z \in Ins(graph, n + 3) : StoredOrder(y) = StoredOrder(z)
    BY <1>9, <1>10, <1>11, <2>3
  <2> QED
    BY <1>4, <1>5, <2>1, <2>4, ElementwiseOrder
<1>13. StoredOrder(OutOf(n + 4)) = StoredOrder(OutOf(n + 3))
  BY <1>1, <1>4, <1>5, <1>6, <1>7, ElementwiseOrder, 3 \in 0 .. 4, 4 \in 0 .. 4
<1> QED
  BY <1>6, <1>8, <1>9, <1>10, <1>11, <1>12, <1>13 DEF src


(* What a convolution takes along leaves the result in the order of a map. *)
Ordered(f) == StoredOrder(f.out) = MapOrder

LEMMA SumOrder ==
  ASSUME graph \in Graphs, OrdersAgree, NEW n \in 1 .. Limit, NEW f, FoldInv(n, f), Ordered(f),
         AddsTo(n + f.span, f.out),
         LET other == OtherOperand(n + f.span, f.out)
         IN  IsConst(other) \/ StoredOrder(other) = MapOrder
  PROVE  StoredOrder(OutOf(n + f.span)) = MapOrder
<1> DEFINE add == n + f.span
           other == OtherOperand(add, f.out)
<1>1. add \in 1 .. Limit /\ other \in Ins(graph, add) /\ Readers(graph, f.out) = {add}
  BY SumFacts
<1>2. Op(add) = "add" /\ other # NoTensor /\ add \in Nodes(graph)
  BY <1>1, LimitFacts DEF AddsTo
<1>3. ~IsConst(f.out)
  <2>1. n + f.span - 1 \in 1 .. Limit /\ f.out = OutOf(n + f.span - 1)
    BY LimitFacts DEF FoldInv
  <2> QED
    BY <2>1, LimitFacts, GraphFacts DEF IsConst, OutOf
<1>4. Slots(graph, add) = 1 .. 2
  BY <1>2, OperandFacts, OperandsAssumption DEF Op
<1>5. Ins(graph, add) = {In(add, 1), In(add, 2)}
  BY <1>4 DEF Ins, In
<1>6. Ins(graph, add) = {f.out, other}
  BY <1>2, <1>5 DEF OtherOperand
<1> HIDE DEF add, other
<1>7. CASE IsConst(other)
  BY <1>1, <1>2, <1>3, <1>6, <1>7, ElementwiseOrder DEF Ordered, add
<1>8. CASE ~IsConst(other)
  <2>1. StoredOrder(other) = MapOrder
    BY <1>8 DEF add, other
  <2>2. \A y, z \in Ins(graph, add) : StoredOrder(y) = StoredOrder(z)
    BY <1>6, <2>1 DEF Ordered
  <2>3. f.out \in Ins(graph, add) /\ Op(add) \in {"add", "mul", "div", "erf"}
    BY <1>2, <1>6
  <2>4. StoredOrder(OutOf(add)) = StoredOrder(f.out)
    BY <1>1, <1>3, <2>2, <2>3, ElementwiseOrder
  <2> QED
    BY <2>4 DEF Ordered, add
<1> QED
  BY <1>7, <1>8

LEMMA FoldOrder ==
  ASSUME graph \in Graphs, OrdersAgree, NEW n \in 1 .. Limit, Op(n) = "conv"
  PROVE  StoredOrder(Fold(n).out) = MapOrder
<1> DEFINE bare == [span |-> 1, out |-> OutOf(n), residual |-> NoTensor]
           f1 == FoldBias(n, bare)
           f2 == FoldResidual(n, f1)
           f3 == FoldGelu(n, f2)
<1>1. n \in Nat /\ Limit \in Nat /\ n \in Nodes(graph)
  BY LimitFacts
<1>2. FoldInv(n, bare)
  <2>1. n .. n + 1 - 2 = {} /\ n + 1 - 1 = n
    BY <1>1
  <2> QED
    BY <1>1, <2>1 DEF FoldInv, Private
<1>3. Ordered(bare)
  <2>1. ~Keeps(n) /\ ~IsReshape(n)
    BY DEF Keeps, Renames, IsReshape
  <2>2. Alone(n).out.order = MapOrder
    BY <2>1 DEF Alone, CompileNode, MapOperation, Operation, Result
  <2> QED
    BY <1>1, <2>1, <2>2, StoredOrderIs DEF Ordered
<1> HIDE DEF bare
<1>4. FoldInv(n, f1) /\ FoldInv(n, f2)
  BY <1>2, BiasFolded, ResidualFolded
<1>5. Ordered(f1)
  <2>1. CASE f1 = bare
    BY <1>3, <2>1
  <2>2. CASE f1 # bare
    <3> DEFINE add == n + bare.span
    <3>1. /\ AddsTo(add, bare.out) /\ IsConst(OtherOperand(add, bare.out))
          /\ f1 = [bare EXCEPT !.span = @ + 1, !.out = OutOf(add)]
      BY <2>2 DEF FoldBias
    <3>2. StoredOrder(OutOf(add)) = MapOrder
      BY <1>2, <1>3, <3>1, SumOrder
    <3>3. f1.out = OutOf(add)
      BY <3>1 DEF bare
    <3> QED
      BY <3>2, <3>3 DEF Ordered
  <2> QED
    BY <2>1, <2>2
<1> HIDE DEF f1
<1>6. ASSUME f2.residual = NoTensor \/ StoredOrder(f2.residual) = MapOrder
      PROVE  Ordered(f2)
  <2>1. CASE f2 = f1
    BY <1>5, <2>1
  <2>2. CASE f2 # f1
    <3> DEFINE add == n + f1.span
               other == OtherOperand(add, f1.out)
    <3>1. /\ AddsTo(add, f1.out)
          /\ f2 = [f1 EXCEPT !.span = @ + 1, !.out = OutOf(add), !.residual = other]
      BY <2>2 DEF FoldResidual
    <3>2. f1 = [span |-> f1.span, out |-> f1.out, residual |-> f1.residual]
      BY <1>4 DEF FoldInv
    <3>3. f2.out = OutOf(add) /\ f2.residual = other
      BY <3>1, <3>2
    <3>4. other # NoTensor
      BY <3>1 DEF AddsTo
    <3>5. StoredOrder(other) = MapOrder
      BY <1>6, <3>3, <3>4
    <3>6. StoredOrder(OutOf(add)) = MapOrder
      BY <1>4, <1>5, <3>1, <3>5, SumOrder
    <3> QED
      BY <3>3, <3>6 DEF Ordered
  <2> QED
    BY <2>1, <2>2
<1> HIDE DEF f2
<1>7. ASSUME Ordered(f2) PROVE Ordered(f3) 
  <2>1. CASE f3 = f2
    BY <1>7, <2>1
  <2>2. CASE f3 # f2
    <3> DEFINE first == n + f2.span
    <3>1. /\ first + 4 <= Limit /\ GeluAt(graph, first) /\ ChainSource(graph, first) = f2.out
          /\ f3 = [f2 EXCEPT !.span = @ + 5, !.out = OutOf(first + 4)]
      BY <2>2 DEF FoldGelu
    <3>2. f2 = [span |-> f2.span, out |-> f2.out, residual |-> f2.residual]
      BY <1>4 DEF FoldInv
    <3>3. f3.out = OutOf(first + 4)
      BY <3>1, <3>2
    <3>4. first \in 1 .. Limit
      BY <1>1, <1>4, <3>1 DEF FoldInv
    <3>5. AtChain(first)
      BY <3>1 DEF AtChain
    <3>6. StoredOrder(OutOf(first + 4)) = StoredOrder(f2.out)
      BY <3>1, <3>4, <3>5, ChainOrder
    <3> QED
      BY <1>7, <3>3, <3>6 DEF Ordered
  <2> QED
    BY <2>1, <2>2
<1>8. f3.residual = f2.residual
  <2>1. f2 = [span |-> f2.span, out |-> f2.out, residual |-> f2.residual]
    BY <1>4 DEF FoldInv
  <2> QED
    BY <2>1 DEF FoldGelu
<1> HIDE DEF f3
<1>9. Fold(n) \in {bare, f1} \/ Fold(n) = f3
  BY DEF Fold, bare, f1, f2, f3
<1>10. Fold(n).residual = NoTensor \/ StoredOrder(Fold(n).residual) = MapOrder
  BY DEF OrdersAgree
<1>11. CASE Fold(n) = f3
  BY <1>6, <1>7, <1>8, <1>10, <1>11 DEF Ordered
<1> QED
  BY <1>3, <1>5, <1>9, <1>11 DEF Ordered


(* An operation's operands are found before it, in the order its kernel    *)
(* reads, and its result is in the order that the graph gives it.          *)
LEMMA OperandsAre ==
  ASSUME graph \in Graphs, NEW n \in 1 .. Limit, NEW w, NEW o \in Operands(n, w)
  PROVE  /\ o.value \in Ins(graph, n) /\ ~IsConst(o.value) /\ Found(n, o.value)
         /\ o.offset = offset[o.value] /\ o.want = w
<1>1. PICK t \in Ins(graph, n) : ~IsConst(t) /\ o = Operand(t, w)
  BY DEF Operands
<1>2. o.value = t /\ o.offset = offset[t] /\ o.want = w
  BY <1>1 DEF Operand
<1> QED
  BY <1>1, <1>2, FirstFound DEF IsConst

LEMMA AloneFacts ==
  ASSUME graph \in Graphs, OrdersAgree, NEW n \in 1 .. Limit, ~Renames(n)
  PROVE  LET a == Alone(n)
         IN  /\ \A o \in a.ins : /\ Found(n, o.value) /\ o.value \in Ins(graph, n)
                                 /\ o.offset = offset[o.value]
                                 /\ o.want \in {StoredOrder(o.value), "same"}
             /\ a.out.order = "same" =>
                  a.ins # {} /\ \A o \in a.ins : StoredOrder(o.value) = StoredOrder(OutOf(n))
             /\ a.out.order # "same" => a.out.order = StoredOrder(OutOf(n))
<1> DEFINE a == Alone(n)
<1>1. n \in Nodes(graph)
  BY LimitFacts
<1>2. \A o \in a.ins : ~IsConst(o.value) /\ o.want \in {StoredOrder(o.value), "same"}
  BY DEF OrdersAgree
<1>3. CASE Op(n) \in {"add", "mul", "div"} /\ Mixed(n)
  <2>1. ~IsReshape(n) /\ ~Keeps(n) /\ Slots(graph, n) = 1 .. 2
    BY <1>1, <1>3, OperandFacts, OperandsAssumption DEF IsReshape, Keeps, Renames, Op
  <2>2. /\ a.ins = {Operand(In(n, s), Claim(In(n, s))) : s \in 1 .. 2}
        /\ a.out.order = "canon"
    BY <1>3, <2>1 DEF Alone, CompileNode, BinaryOperation, Operation, Result
  <2>3. a.out.order = StoredOrder(OutOf(n))
    BY <1>1, <2>1, StoredOrderIs
  <2>4. ASSUME NEW o \in a.ins
        PROVE  o.value \in Ins(graph, n) /\ o.offset = offset[o.value]
    <3> HIDE DEF a
    <3>1. PICK s \in 1 .. 2 : o = Operand(In(n, s), Claim(In(n, s)))
      BY <2>2
    <3>2. In(n, s) \in Ins(graph, n)
      BY <2>1 DEF In, Ins
    <3> QED
      BY <3>1, <3>2 DEF Operand
  <2>5. \A o \in a.ins : Found(n, o.value)
    BY <1>2, <2>4, FirstFound DEF IsConst
  <2> QED
    BY <1>2, <2>2, <2>3, <2>4, <2>5
<1>4. CASE ~(Op(n) \in {"add", "mul", "div"} /\ Mixed(n))
  <2>1. \E w : a.ins = Operands(n, w)
    BY <1>4 DEF Alone, Repack, CompileNode, MapOperation, AffineOperation, MeanOperation,
       BinaryOperation, UnaryOperation, CanonicalOperation, Operation
  <2>2. \A o \in a.ins : Found(n, o.value) /\ o.value \in Ins(graph, n) /\ o.offset = offset[o.value]
    BY <2>1, OperandsAre
  <2>3. a.out.order = "same" <=> Keeps(n)
    BY <1>4 DEF Keeps, IsReshape, Alone, Repack, CompileNode, MapOperation, AffineOperation,
       MeanOperation, BinaryOperation, UnaryOperation, CanonicalOperation, Operation, Result,
       MapOrder, ByRank
  <2>4. ASSUME Keeps(n)
        PROVE  a.ins # {} /\ \A o \in a.ins : StoredOrder(o.value) = StoredOrder(OutOf(n))
    <3>1. ~IsConst(OrderSource(n)) /\ OrderSource(n) \in Ins(graph, n)
      BY <1>1, <2>4, OrderSourceFacts DEF OrdersAgree
    <3>2. a.ins # {}
      BY <2>1, <3>1 DEF Operands
    <3>3. StoredOrder(OutOf(n)) = StoredOrder(OrderSource(n))
      BY <1>1, <2>4, StoredOrderIs
    <3>4. \A o \in a.ins : StoredOrder(o.value) = StoredOrder(OrderSource(n))
      BY <1>2, <2>2, <2>4 DEF OrdersAgree
    <3> QED
      BY <3>2, <3>3, <3>4
  <2>5. ~Keeps(n) => a.out.order = StoredOrder(OutOf(n))
    BY <1>1, StoredOrderIs
  <2> HIDE DEF a
  <2>6. QED
    BY <1>2, <2>2, <2>3, <2>4, <2>5 DEF a
<1> QED
  BY <1>3, <1>4

LEMMA CompiledOrders ==
  ASSUME graph \in Graphs, OrdersAgree, NEW n \in 1 .. Limit, ~Renames(n)
  PROVE  LET c == Compiled(n)
         IN  /\ \A o \in c.ins : /\ Found(n, o.value) /\ o.offset = offset[o.value]
                                 /\ o.want \in {StoredOrder(o.value), "same"}
             /\ c.out.order = "same" =>
                  c.ins # {} /\ \A o \in c.ins : StoredOrder(o.value) = StoredOrder(ResultOf(n))
             /\ c.out.order # "same" => c.out.order = StoredOrder(ResultOf(n))
<1> DEFINE c == Compiled(n)
<1>1. n \in Nat /\ Limit \in Nat /\ n \in Nodes(graph)
  BY LimitFacts
<1>2. CASE AtChain(n)
  <2> DEFINE src == ChainSource(graph, n)
  <2>1. ResultOf(n) = OutOf(n + 4)
    BY <1>1, <1>2 DEF ResultOf, Last, Span
  <2>2. c.ins = {Operand(src, "same")} /\ c.out.order = "same"
    BY <1>2 DEF Compiled, Operation, Result
  <2>3. Found(n, src) /\ StoredOrder(src) = StoredOrder(ResultOf(n))
    BY <1>2, <2>1, ChainOrder, FirstFound DEF IsConst
  <2> HIDE DEF c, src
  <2> QED
    BY <2>2, <2>3 DEF Operand, c
<1>3. CASE ~AtChain(n) /\ Op(n) # "conv"
  <2>1. ResultOf(n) = OutOf(n)
    BY <1>1, <1>3 DEF ResultOf, Last, Span
  <2>2. c = Alone(n)
    BY <1>3 DEF Compiled, Alone
  <2> QED
    BY <2>1, <2>2, AloneFacts
<1>4. CASE ~AtChain(n) /\ Op(n) = "conv"
  <2> DEFINE r == Fold(n).residual
  <2>1. FoldInv(n, Fold(n)) /\ Span(n) = Fold(n).span /\ ResultOf(n) = Fold(n).out
    BY <1>4, FoldFacts DEF Span, FoldInv, ResultOf, Last
  <2>2. ~IsReshape(n)
    BY <1>4 DEF IsReshape
  <2>3. /\ c.ins = Operands(n, MapOrder) \cup (IF r = NoTensor THEN {} ELSE {Operand(r, MapOrder)})
        /\ c.out.order = MapOrder
    BY <1>4, <2>2 DEF Compiled, ConvOperation, Operation, Result
  <2>4. Alone(n).ins = Operands(n, MapOrder) /\ MapOrder # "same"
    BY <1>4, <2>2 DEF Alone, CompileNode, MapOperation, Operation, MapOrder
  <2>5. StoredOrder(ResultOf(n)) = MapOrder
    BY <1>4, <2>1, FoldOrder
  <2>6. r # NoTensor => Found(n, r) /\ StoredOrder(r) = MapOrder
    <3> SUFFICES ASSUME r # NoTensor PROVE Found(n, r) /\ StoredOrder(r) = MapOrder
      OBVIOUS
    <3>1. StoredOrder(r) = MapOrder
      BY <1>4 DEF OrdersAgree
    <3>2. ResidualFound(n, Fold(n)) /\ Fold(n).span \in Nat
      BY <2>1 DEF FoldInv
    <3>3. PICK k \in n + 1 .. n + Fold(n).span - 1 : r \in Ins(graph, k)
      BY <3>2 DEF ResidualFound
    <3>4. k \in n .. Last(n)
      BY <1>1, <2>1, <3>2, <3>3 DEF Last
    <3> QED
      BY <3>1, <3>2, <3>3, <3>4 DEF ResidualFound, Found
  <2>7. \A o \in Operands(n, MapOrder) :
          Found(n, o.value) /\ o.offset = offset[o.value] /\ o.want \in {StoredOrder(o.value), "same"}
    BY <2>4, AloneFacts
  <2>8. \A o \in {Operand(r, MapOrder)} : o.value = r /\ o.offset = offset[r] /\ o.want = MapOrder
    BY DEF Operand
  <2> HIDE DEF r, c
  <2> QED
    BY <2>3, <2>4, <2>5, <2>6, <2>7, <2>8 DEF c
<1> QED
  BY <1>2, <1>3, <1>4


-----------------------------------------------------------------------------
(* What a run finds in the arena.                                          *)

(* The operations before i have written v, and v's place is v's own until  *)
(* operation i has run (operations are numbered from 0, as in the code).   *)
Made(v, i) ==
  \/ v = graph.input /\ graph.input \notin graph.const
  \/ \E h \in Heads : h <= Limit /\ ~Renames(h) /\ v = ResultOf(h) /\ Index(h) < i
Kept(v, i) ==
  \E p \in DOMAIN placed :
    /\ placed[p].value = v /\ EntryInv(placed[p])
    /\ offset[v] = placed[p].offset /\ Bytes(v) = placed[p].bytes
    /\ i <= placed[p].last

Has(mem, v) == \E m \in mem : m.value = v /\ m.offset = offset[v]
Right(mem) == \A m \in mem : m.order = StoredOrder(m.value)
Whole(mem, i) == Right(mem) /\ \A v : Made(v, i) /\ Kept(v, i) => Has(mem, v)

(* What an operation finds was made, and is kept until it has run.         *)
LEMMA FoundKept ==
  ASSUME graph \in Graphs, Ready, NEW n \in Heads, NEW t, Found(n, t),
         \/ n <= Limit /\ ~Renames(n)
         \/ n = Limit + 1 /\ CtcTail /\ t = Activation
  PROVE  /\ Made(Root(t), Index(n)) /\ Kept(Root(t), Index(n))
         /\ t \in Values /\ offset[Root(t)] = offset[t] /\ StoredOrder(Root(t)) = StoredOrder(t)
<1>1. Limit \in Nat /\ \A h \in Heads : h \in 1 .. Limit + 1
  BY LimitFacts, HeadsFacts
<1>2. Planned /\ Embedded /\ Limit + 1 \in Heads /\ Aliased(Limit + 1)
  BY DEF Ready, Planned
<1>3. /\ t \in Values /\ offset[Root(t)] = offset[t]
      /\ \/ Root(t) = graph.input
         \/ \E h \in Heads : h < n /\ ~Renames(h) /\ Root(t) = ResultOf(h)
  BY <1>2, FoundPlace
<1>4. PICK p \in DOMAIN placed :
        /\ placed[p].value = Root(t) /\ EntryInv(placed[p])
        /\ offset[t] = placed[p].offset /\ Bytes(t) = placed[p].bytes
  BY <1>2, FoundPlace
<1>5. StoredOrder(Root(t)) = StoredOrder(t)
  BY <1>2, <1>3, AliasOrder
<1>6. Bytes(Root(t)) = Bytes(t)
  BY <1>2, <1>3, SameSize
<1>7. Index(n) <= placed[p].last
  <2>1. CASE n <= Limit /\ ~Renames(n)
    BY <1>4, <2>1 DEF EntryInv, Found
  <2>2. CASE n = Limit + 1 /\ CtcTail /\ t = Activation
    BY <1>4, <2>2 DEF EntryInv
  <2> QED
    BY <2>1, <2>2
<1>8. Kept(Root(t), Index(n))
  BY <1>3, <1>4, <1>6, <1>7 DEF Kept
<1>9. Made(Root(t), Index(n))
  <2>1. CASE Root(t) = graph.input
    <3>1. Origin(t, n)
      BY <1>1, <1>2, OriginFacts
    <3>2. \A h \in Heads : h < n => ResultOf(h) # graph.input
      <4> TAKE h \in Heads
      <4> HAVE h < n
      <4>1. h \in 1 .. Limit
        BY <1>1
      <4>2. Last(h) \in h .. Limit
        BY <4>1, SpanFacts
      <4>3. Last(h) \in Nodes(graph)
        BY <1>1, <4>1, <4>2, LimitFacts
      <4> QED
        BY <4>3, GraphFacts DEF ResultOf, OutOf
    <3> QED
      BY <2>1, <3>1, <3>2 DEF Made, Origin
  <2>2. CASE Root(t) # graph.input
    <3>1. PICK h \in Heads : h < n /\ ~Renames(h) /\ Root(t) = ResultOf(h)
      BY <1>3, <2>2
    <3>2. h <= Limit /\ Index(h) < Index(n)
      BY <1>1, <3>1, IndexFacts
    <3> QED
      BY <3>1, <3>2 DEF Made
  <2> QED
    BY <2>1, <2>2
<1> QED
  BY <1>3, <1>5, <1>8, <1>9

(* The operation of a node, in the table.                                  *)
IsOf(op, n) ==
  LET c == Compiled(n)
  IN  op.ins = c.ins /\ op.out = c.out /\ op.begin = n /\ op.count = Span(n)

LEMMA TableFacts ==
  ASSUME graph \in Graphs, Ready
  PROVE  /\ Len(ops) \in Nat /\ DOMAIN ops = 1 .. Len(ops) /\ Len(ops) = Index(Limit + 1)
         /\ \A i \in DOMAIN ops :
              LET h == ops[i].begin
              IN  /\ h \in Heads /\ h \in 1 .. Limit /\ h <= Limit /\ ~Renames(h)
                  /\ Index(h) = i - 1 /\ IsOf(ops[i], h)
         /\ \A h \in Heads : h <= Limit /\ ~Renames(h) =>
              Index(h) + 1 \in DOMAIN ops /\ ops[Index(h) + 1].begin = h
<1>1. Limit \in Nat /\ \A h \in Heads : h \in 1 .. Limit + 1 /\ Index(h) \in Nat
  BY LimitFacts, HeadsFacts, IndexFacts
<1>2. Tabled /\ Planned /\ Limit + 1 \in Heads
  BY DEF Ready, Planned
<1>3. Len(ops) \in Nat /\ DOMAIN ops = 1 .. Len(ops) /\ Len(ops) = Index(Limit + 1)
  BY <1>2 DEF Tabled, Planned
<1>4. ASSUME NEW i \in DOMAIN ops
      PROVE  LET h == ops[i].begin
             IN  /\ h \in Heads /\ h \in 1 .. Limit /\ h <= Limit /\ ~Renames(h)
                 /\ Index(h) = i - 1 /\ IsOf(ops[i], h)
  <2> DEFINE h == ops[i].begin
             c == Compiled(h)
  <2>1. /\ h \in Heads /\ h <= Limit /\ ~Renames(h) /\ Index(h) = i - 1
        /\ ops[i] = [c EXCEPT !.ffn = ops[i].ffn]
    BY <1>2 DEF Tabled, InTable
  <2>2. h \in 1 .. Limit
    BY <1>1, <2>1
  <2>3. c = [kind |-> c.kind, begin |-> h, count |-> Span(h),
             ins |-> c.ins, out |-> c.out, ffn |-> FALSE]
    BY <2>1, <2>2, CompiledFacts
  <2> HIDE DEF c
  <2>4. ops[i].ins = c.ins /\ ops[i].out = c.out /\ ops[i].begin = h /\ ops[i].count = Span(h)
    BY <2>1, <2>3
  <2> QED
    BY <2>1, <2>2, <2>4 DEF IsOf, c
<1>5. ASSUME NEW h \in Heads, h <= Limit, ~Renames(h)
      PROVE  Index(h) + 1 \in DOMAIN ops /\ ops[Index(h) + 1].begin = h
  <2>1. Index(h) \in Nat /\ Index(h) < Index(Limit + 1) /\ h < Limit + 1
    BY <1>1, <1>2, <1>5, IndexFacts
  <2>2. Index(h) + 1 \in DOMAIN ops
    BY <1>3, <2>1
  <2> DEFINE k == ops[Index(h) + 1].begin
  <2>3. k \in Heads /\ ~Renames(k) /\ Index(k) = Index(h)
    BY <1>4, <2>1, <2>2
  <2>4. ~(k < h) /\ ~(h < k)
    BY <1>5, <2>1, <2>3, IndexFacts
  <2> QED
    BY <1>1, <2>2, <2>3, <2>4
<1> QED
  BY <1>3, <1>4, <1>5


(* An operation whose operands are all there finds them in the order that  *)
(* it reads, and gives its result the order that the graph says.           *)
LEMMA GoodIs ==
  ASSUME graph \in Graphs, OrdersAgree, Ready, NEW n \in Heads, n <= Limit, ~Renames(n),
         NEW op, IsOf(op, n), NEW mem, Right(mem), \A o \in op.ins : Has(mem, Root(o.value))
  PROVE  Good(mem, op) /\ Order(mem, op) = StoredOrder(op.out.value)
<1>1. n \in 1 .. Limit
  BY LimitFacts, HeadsFacts
<1>2. /\ \A o \in op.ins : /\ Found(n, o.value) /\ o.offset = offset[o.value]
                           /\ o.want \in {StoredOrder(o.value), "same"}
      /\ op.out.order = "same" =>
           op.ins # {} /\ \A o \in op.ins : StoredOrder(o.value) = StoredOrder(ResultOf(n))
      /\ op.out.order # "same" => op.out.order = StoredOrder(ResultOf(n))
  BY <1>1, CompiledOrders DEF IsOf
<1>3. op.out.value = ResultOf(n)
  BY <1>1, CompiledFacts DEF IsOf
<1>4. \A o \in op.ins : offset[Root(o.value)] = offset[o.value]
                        /\ StoredOrder(Root(o.value)) = StoredOrder(o.value)
  BY <1>2, FoundKept
<1>5. ASSUME NEW o \in op.ins
      PROVE  Holds(mem, o) # {} /\ \A m \in Holds(mem, o) : m.order = StoredOrder(o.value)
  <2>1. PICK m \in mem : m.value = Root(o.value) /\ m.offset = offset[Root(o.value)]
    BY DEF Has
  <2>2. m \in Holds(mem, o)
    BY <1>2, <1>4, <2>1 DEF Holds
  <2>3. \A x \in Holds(mem, o) : x.order = StoredOrder(o.value)
    BY <1>4 DEF Holds, Right
  <2> QED
    BY <2>2, <2>3
<1>6. \A o \in op.ins : Intact(mem, o)
  BY <1>5 DEF Intact
<1>7. \A o \in op.ins : \A m \in Holds(mem, o) : o.want \in {m.order, "same"}
  BY <1>2, <1>5
<1>8. op.out.order = "same" => OrdersOf(mem, op) = {StoredOrder(ResultOf(n))}
  <2> SUFFICES ASSUME op.out.order = "same"
               PROVE  OrdersOf(mem, op) = {StoredOrder(ResultOf(n))}
    OBVIOUS
  <2>1. ASSUME NEW x \in OrdersOf(mem, op) PROVE x = StoredOrder(ResultOf(n))
    <3>1. PICK o \in op.ins : \E m \in Holds(mem, o) : x = m.order
      BY <2>1 DEF OrdersOf
    <3> QED
      BY <1>2, <1>5, <3>1
  <2>2. StoredOrder(ResultOf(n)) \in OrdersOf(mem, op)
    <3>1. PICK o \in op.ins : TRUE
      BY <1>2
    <3>2. PICK m \in Holds(mem, o) : TRUE
      BY <1>5
    <3>3. m \in UNION {Holds(mem, u) : u \in op.ins}
      BY <3>2
    <3>4. m.order = StoredOrder(ResultOf(n))
      BY <1>2, <1>5, <3>2
    <3> QED
      BY <3>3, <3>4 DEF OrdersOf
  <2> QED
    BY <2>1, <2>2
<1>9. op.out.order = "same" => Cardinality(OrdersOf(mem, op)) <= 1
  <2>1. Cardinality({StoredOrder(ResultOf(n))}) = 1
    BY FS_Singleton
  <2> QED
    BY <1>8, <2>1
<1>10. Order(mem, op) = StoredOrder(ResultOf(n))
  BY <1>2, <1>8 DEF Order
<1> QED
  BY <1>3, <1>6, <1>7, <1>9, <1>10 DEF Good, InOrder

(* What was written before and is still needed stays when an operation     *)
(* writes its result.                                                      *)
LEMMA WriteKeeps ==
  ASSUME graph \in Graphs, PlanInv, Ready, NEW n \in Heads, n <= Limit, ~Renames(n),
         NEW op, IsOf(op, n), NEW mem, NEW good, NEW v,
         Made(v, Index(n)), Kept(v, Index(n)), Has(mem, v)
  PROVE  Has(Write(mem, op, good), v)
<1>1. n \in 1 .. Limit /\ Limit \in Nat
  BY LimitFacts, HeadsFacts
<1>2. op.out.value = ResultOf(n) /\ op.out.offset = offset[ResultOf(n)]
  BY <1>1, CompiledFacts DEF IsOf
<1>3. PICK p \in DOMAIN placed :
        /\ placed[p].value = v /\ EntryInv(placed[p])
        /\ offset[v] = placed[p].offset /\ Bytes(v) = placed[p].bytes
        /\ Index(n) <= placed[p].last
  BY DEF Kept
<1>4. Planned /\ Embedded /\ Limit + 1 \in Heads /\ Aliased(Limit + 1)
  BY DEF Ready, Planned
<1>5. /\ ResultOf(n) \in Values /\ Root(ResultOf(n)) = ResultOf(n)
      /\ ResultOf(n) \notin graph.const /\ ResultOf(n) # graph.input
  <2>1. Last(n) \in n .. Limit
    BY <1>1, SpanFacts
  <2>2. Last(n) \in Nodes(graph)
    BY <1>1, <2>1, LimitFacts
  <2> QED
    BY <1>4, <2>2, OwnRoot, GraphFacts DEF ResultOf, OutOf
<1>6. PICK q \in DOMAIN placed :
        /\ placed[q].value = ResultOf(n) /\ EntryInv(placed[q])
        /\ offset[ResultOf(n)] = placed[q].offset /\ Bytes(ResultOf(n)) = placed[q].bytes
  <2>1. Stored(ResultOf(n))
    BY <1>5 DEF Stored
  <2> QED
    BY <1>4, <1>5, <2>1, PlaceOf
<1>7. Index(n) \in Nat /\ placed[q].first = Index(n) /\ Index(n) <= placed[q].last
      /\ placed[q].last \in Int
  <2>1. placed[q].first = Index(n)
    BY <1>6 DEF EntryInv
  <2>2. placed[q].first <= placed[q].last /\ placed[q].last \in Int
    BY <1>6 DEF EntryInv
  <2> QED
    BY <2>1, <2>2, IndexFacts
<1>8. v # ResultOf(n) /\ placed[p].first <= Index(n)
  <2>1. CASE v = graph.input
    <3>1. placed[p].first = 0
      BY <1>3, <2>1 DEF EntryInv
    <3> QED
      BY <1>5, <1>7, <2>1, <3>1
  <2>2. CASE v # graph.input
    <3>1. PICK h \in Heads : h <= Limit /\ ~Renames(h) /\ v = ResultOf(h) /\ Index(h) < Index(n)
      BY <2>2 DEF Made
    <3>2. placed[p].first = Index(h) /\ Index(h) \in Nat
      BY <1>3, <3>1, IndexFacts DEF EntryInv
    <3>3. h # n
      BY <1>7, <3>1
    <3>4. v # ResultOf(n)
      BY <3>1, <3>3, ResultsDiffer
    <3> QED
      BY <1>7, <3>1, <3>2, <3>4
  <2> QED
    BY <2>1, <2>2
<1>9. p # q
  BY <1>3, <1>6, <1>8
<1>10. SameTime(placed[p], placed[q])
  <2>1. placed[p].first \in Int /\ placed[p].last \in Int
    BY <1>3 DEF EntryInv
  <2> QED
    BY <1>3, <1>7, <1>8, <2>1 DEF SameTime
<1>11. ~Overlap(placed[p].offset, placed[p].bytes, placed[q].offset, placed[q].bytes)
  BY <1>9, <1>10 DEF PlanInv, PlacesDisjoint
<1>12. PICK m \in mem : m.value = v /\ m.offset = offset[v]
  BY DEF Has
<1>13. ~Overlap(m.offset, Bytes(m.value), op.out.offset, Bytes(op.out.value))
  BY <1>2, <1>3, <1>6, <1>11, <1>12
<1>14. m \in Write(mem, op, good)
  BY <1>12, <1>13 DEF Write
<1> QED
  BY <1>12, <1>14 DEF Has

(* An operation runs: it finds its operands, before and after it has       *)
(* written, and what later ones need is there.                             *)
LEMMA OperationRuns ==
  ASSUME graph \in Graphs, OrdersAgree, PlanInv, Ready, NEW n \in Heads, n <= Limit, ~Renames(n),
         NEW op, IsOf(op, n), NEW mem, Whole(mem, Index(n))
  PROVE  LET written == Write(mem, op, Good(mem, op))
         IN  Good(mem, op) /\ Good(written, op) /\ Whole(written, Index(n) + 1)
<1> DEFINE written == Write(mem, op, Good(mem, op))
<1>1. n \in 1 .. Limit /\ Index(n) \in Nat /\ Right(mem)
  BY LimitFacts, HeadsFacts, IndexFacts DEF Whole
<1>2. op.out.value = ResultOf(n) /\ op.out.offset = offset[ResultOf(n)]
  BY <1>1, CompiledFacts DEF IsOf
<1>3. \A o \in op.ins : Made(Root(o.value), Index(n)) /\ Kept(Root(o.value), Index(n))
  <2>1. \A o \in op.ins : Found(n, o.value)
    BY <1>1, CompiledOrders DEF IsOf
  <2> QED
    BY <2>1, FoundKept
<1>4. \A o \in op.ins : Has(mem, Root(o.value))
  BY <1>3 DEF Whole
<1>5. Good(mem, op) /\ Order(mem, op) = StoredOrder(op.out.value)
  BY <1>1, <1>4, GoodIs
<1>6. Right(written)
  <2> SUFFICES ASSUME NEW m \in written PROVE m.order = StoredOrder(m.value)
    BY DEF Right
  <2>1. \/ m \in mem
        \/ m = [value |-> op.out.value, offset |-> op.out.offset, order |-> Order(mem, op)]
    BY DEF Write
  <2> QED
    BY <1>1, <1>5, <2>1 DEF Right
<1>7. \A v : Made(v, Index(n)) /\ Kept(v, Index(n)) => Has(written, v)
  BY WriteKeeps DEF Whole
<1>8. Good(written, op)
  BY <1>3, <1>6, <1>7, GoodIs
<1>9. Has(written, ResultOf(n))
  <2> DEFINE m == [value |-> op.out.value, offset |-> op.out.offset, order |-> Order(mem, op)]
  <2>1. m \in written
    BY <1>5 DEF Write
  <2>2. m.value = ResultOf(n) /\ m.offset = offset[ResultOf(n)]
    BY <1>2
  <2> HIDE DEF m, written
  <2> QED
    BY <2>1, <2>2 DEF Has
<1>10. ASSUME NEW v, Made(v, Index(n) + 1), Kept(v, Index(n) + 1) PROVE Has(written, v)
  <2>1. Kept(v, Index(n))
    <3>1. PICK p \in DOMAIN placed :
            /\ placed[p].value = v /\ EntryInv(placed[p])
            /\ offset[v] = placed[p].offset /\ Bytes(v) = placed[p].bytes
            /\ Index(n) + 1 <= placed[p].last
      BY <1>10 DEF Kept
    <3>2. placed[p].last \in Int
      BY <3>1 DEF EntryInv
    <3>3. Index(n) <= placed[p].last
      BY <1>1, <3>1, <3>2
    <3> QED
      BY <3>1, <3>3 DEF Kept
  <2>2. Made(v, Index(n)) \/ v = ResultOf(n)
    <3>1. CASE v = graph.input /\ graph.input \notin graph.const
      BY <3>1 DEF Made
    <3>2. CASE ~(v = graph.input /\ graph.input \notin graph.const)
      <4>1. PICK h \in Heads : h <= Limit /\ ~Renames(h) /\ v = ResultOf(h) /\ Index(h) < Index(n) + 1
        BY <1>10, <3>2 DEF Made
      <4>2. Index(h) \in Nat /\ (h < n => Index(h) < Index(n)) /\ (n < h => Index(n) < Index(h))
        BY <4>1, IndexFacts
      <4>3. h = n \/ Index(h) < Index(n)
        <5>1. h \in Int /\ n \in Int
          BY <1>1, <4>1, LimitFacts, HeadsFacts
        <5> QED
          BY <1>1, <4>1, <4>2, <5>1
      <4> QED
        BY <4>1, <4>3 DEF Made
    <3> QED
      BY <3>1, <3>2
  <2> QED
    BY <1>7, <1>9, <2>1, <2>2
<1>11. Whole(written, Index(n) + 1)
  BY <1>6, <1>10 DEF Whole
<1> QED
  BY <1>5, <1>8, <1>11


-----------------------------------------------------------------------------
(* A run of the program.                                                   *)

(* The operations before i, and the reshapes behind them, are computed.    *)
Covered(C, i) ==
  graph.input \in C /\ \A j \in 1 .. i : Names({graph.input} \cup OwnResults(ops[j])) \subseteq C

RunInv ==
  /\ pc = "run" => /\ at \in 1 .. Len(ops) + 1
                   /\ Whole(memory, at - 1) /\ Covered(computed, at - 1)
  /\ pc = "tail" => graph.input \in computed /\ \A n \in Nodes(graph) : OutOf(n) \in computed

LEMMA SameWhole ==
  ASSUME UNCHANGED <<graph, strategy, lowering, plan>>
  PROVE  /\ \A mem, i : Whole(mem, i)' = Whole(mem, i)
         /\ \A C, i : Covered(C, i)' = Covered(C, i)
         /\ \A S : Names(S)' = Names(S)
<1>1. UNCHANGED <<graph, strategy, ops, last_use, alias_of, offset, candidates, placed>>
  BY DEF lowering, plan
<1>2. /\ Limit' = Limit
      /\ \A n : Renames(n)' = Renames(n)
      /\ \A n : ResultOf(n)' = ResultOf(n) /\ Last(n)' = Last(n) /\ OutOf(n)' = OutOf(n)
      /\ Heads' = Heads
      /\ \A n : Index(n)' = Index(n)
      /\ \A h, k : Paired(h, k)' = Paired(h, k)
      /\ \A t : Root(t)' = Root(t)
      /\ \A t : StoredOrder(t)' = StoredOrder(t)
      /\ Values' = Values
      /\ CtcTail' = CtcTail /\ Activation' = Activation
      /\ \A n : In(n, 1)' = In(n, 1)
  BY <1>1, SameLowering, SamePaired, SameNames, SameOrders, SameTail DEF Values, In
<1>3. \A e : EntryInv(e)' = EntryInv(e)
  BY <1>1, <1>2 DEF EntryInv, Bytes
<1>4. /\ \A v, i : Kept(v, i)' = Kept(v, i)
      /\ \A v, i : Made(v, i)' = Made(v, i)
  BY <1>1, <1>2, <1>3 DEF Kept, Made, Bytes
<1>5. \A mem, i : Whole(mem, i)' = Whole(mem, i)
  BY <1>1, <1>2, <1>4 DEF Whole, Right, Has
<1>6. \A S : Names(S)' = Names(S)
  BY <1>1, <1>2 DEF Names
<1>7. \A C, i : Covered(C, i)' = Covered(C, i)
  BY <1>1, <1>2, <1>6 DEF Covered, OwnResults, LastNode
<1> QED
  BY <1>5, <1>6, <1>7


(* One operation.                                                          *)
LEMMA ExecuteStep ==
  ASSUME ProgramInv, OrdersAgree, RunInv, pc = "run", at \in DOMAIN ops, Execute(ops[at])
  PROVE  /\ Whole(memory', at)
         /\ computed' = computed \cup Names({graph.input} \cup OwnResults(ops[at]))
<1> DEFINE op == ops[at]
           h == op.begin
           written == Write(memory, op, Good(memory, op))
<1>1. graph \in Graphs /\ PlanInv /\ Ready
  BY DEF ProgramInv, PassInv
<1>2. h \in Heads /\ h <= Limit /\ ~Renames(h) /\ Index(h) = at - 1 /\ IsOf(op, h) /\ at \in Nat
  BY <1>1, TableFacts
<1>3. Whole(memory, Index(h))
  BY <1>2 DEF RunInv
<1> HIDE DEF op, h
<1>4. Good(memory, op) /\ Good(written, op) /\ Whole(written, Index(h) + 1)
  BY <1>1, <1>2, <1>3, OperationRuns
<1>5. Index(h) + 1 = at
  BY <1>2
<1> QED
  BY <1>4, <1>5 DEF Execute, op

(* A pair.  The expansion's input is there still when the projection has   *)
(* written its result.                                                     *)
LEMMA PairStep ==
  ASSUME ProgramInv, OrdersAgree, RunInv, RunPair
  PROVE  /\ at \in DOMAIN ops /\ at + 1 \in DOMAIN ops /\ Whole(memory', at + 1)
         /\ computed' = computed \cup Names({graph.input} \cup OwnResults(ops[at])
                                                          \cup OwnResults(ops[at + 1]))
<1> DEFINE a == ops[at]
           b == ops[at + 1]
           h == a.begin
           k == b.begin
           expanded == Write(memory, a, Good(memory, a))
           projected == Write(expanded, b, Good(expanded, b))
<1>1. graph \in Graphs /\ PlanInv /\ Ready /\ pc = "run"
  BY DEF ProgramInv, PassInv, RunPair
<1>2. at \in DOMAIN ops /\ at \in Nat /\ DOMAIN ops = 1 .. Len(ops)
  BY <1>1, TableFacts DEF RunInv, RunPair
<1>3. MarkedWell(at)
  BY <1>1, <1>2 DEF Ready, Tabled, RunPair
<1>4. at + 1 \in DOMAIN ops
  BY <1>3 DEF MarkedWell
<1>5. /\ h \in Heads /\ h <= Limit /\ h \in 1 .. Limit /\ ~Renames(h) /\ Index(h) = at - 1
      /\ IsOf(a, h)
  BY <1>1, <1>2, TableFacts
<1>6. /\ k \in Heads /\ k <= Limit /\ ~Renames(k) /\ Index(k) = at /\ IsOf(b, k)
  <2>1. PICK j \in DOMAIN ops : j = at + 1
    BY <1>4
  <2>2. LET g == ops[j].begin
        IN  g \in Heads /\ g <= Limit /\ ~Renames(g) /\ Index(g) = j - 1 /\ IsOf(ops[j], g)
    BY <1>1, TableFacts
  <2>3. j - 1 = at
    BY <1>2, <2>1
  <2>4. b = ops[j] /\ k = ops[j].begin
    BY <2>1
  <2> HIDE DEF b, k
  <2> QED
    BY <2>2, <2>3, <2>4
<1>7. /\ Paired(h, k)
      /\ \A p \in DOMAIN placed : placed[p].value = Root(In(h, 1)) => at <= placed[p].last
  BY <1>3 DEF MarkedWell
<1>8. Whole(memory, Index(h))
  BY <1>1, <1>5 DEF RunInv
<1> HIDE DEF a, b, h, k
<1>9. Good(memory, a) /\ Whole(expanded, Index(h) + 1)
  BY <1>1, <1>5, <1>8, OperationRuns
<1>10. Index(h) + 1 = Index(k) /\ Index(k) = at
  BY <1>2, <1>5, <1>6
<1>11. Whole(expanded, Index(k))
  BY <1>9, <1>10
<1> HIDE DEF expanded
<1>12. Good(expanded, b) /\ Good(projected, b) /\ Whole(projected, Index(k) + 1)
  BY <1>1, <1>6, <1>11, OperationRuns
<1>13. Good(projected, a)
  <2>1. /\ \A o \in a.ins : o.value = In(h, 1)
        /\ Found(h, In(h, 1))
    BY <1>1, <1>5, <1>7, PointwiseFacts DEF Paired, IsOf
  <2> DEFINE v == Root(In(h, 1))
  <2>2. Made(v, Index(h)) /\ Kept(v, Index(h))
    BY <1>1, <1>5, <2>1, FoundKept
  <2>3. Made(v, Index(k))
    <3>1. \A g \in Heads : Index(g) \in Nat
      BY <1>1, IndexFacts
    <3>2. \A g \in Heads : Index(g) < Index(h) => Index(g) < Index(k)
      BY <1>5, <1>6, <1>10, <3>1
    <3> QED
      BY <2>2, <3>2 DEF Made
  <2>4. Kept(v, Index(k))
    BY <1>7, <1>10, <2>2 DEF Kept
  <2> HIDE DEF v
  <2>5. Has(expanded, v)
    BY <1>11, <2>3, <2>4 DEF Whole
  <2>6. Has(projected, v)
    BY <1>1, <1>6, <2>3, <2>4, <2>5, WriteKeeps
  <2>7. Right(projected)
    BY <1>12 DEF Whole
  <2> HIDE DEF projected
  <2>8. \A o \in a.ins : Has(projected, Root(o.value))
    BY <2>1, <2>6 DEF v
  <2> QED
    BY <1>1, <1>5, <2>7, <2>8, GoodIs
<1>14. memory' = projected
  BY DEF RunPair, expanded, a, b
<1>15. computed' = computed \cup Names({graph.input} \cup OwnResults(a) \cup OwnResults(b))
  BY <1>9, <1>12, <1>13 DEF RunPair, expanded, a, b
<1>16. Index(k) + 1 = at + 1
  BY <1>10
<1> QED
  BY <1>2, <1>4, <1>12, <1>14, <1>15, <1>16 DEF a, b


(* What is covered when the first i operations have run.                   *)
LEMMA NamedBy ==
  ASSUME graph \in Graphs, Ready, NEW t \in Values, NEW S, Root(t) \in S
  PROVE  t \in Names(S)
<1>1. Limit + 1 \in Heads /\ Aliased(Limit + 1)
  BY DEF Ready, Planned
<1>2. alias_of[t] = NoTensor => Root(t) = t
  BY <1>1, RootIs
<1> QED
  BY <1>2 DEF Names

LEMMA OwnCovered ==
  ASSUME graph \in Graphs, Ready, NEW h \in Heads, h <= Limit, ~Renames(h),
         NEW C, NEW i \in Nat, Index(h) < i, Covered(C, i)
  PROVE  /\ \A m \in h .. Last(h) : OutOf(m) \in C
         /\ Names({ResultOf(h)}) \subseteq C
<1>1. Index(h) + 1 \in DOMAIN ops /\ ops[Index(h) + 1].begin = h /\ Index(h) \in Nat
  BY TableFacts, IndexFacts
<1> DEFINE j == Index(h) + 1
<1>2. ops[j].count = Span(h)
  BY <1>1, TableFacts DEF IsOf
<1>3. OwnResults(ops[j]) = {OutOf(m) : m \in h .. Last(h)}
  BY <1>1, <1>2 DEF OwnResults, LastNode, Last
<1>4. Names({graph.input} \cup OwnResults(ops[j])) \subseteq C
  <2>1. j \in 1 .. i
    BY <1>1
  <2> HIDE DEF j
  <2> QED
    BY <2>1 DEF Covered
<1>5. \A m \in h .. Last(h) : OutOf(m) \in C
  BY <1>3, <1>4 DEF Names
<1>6. ResultOf(h) \in OwnResults(ops[j])
  <2>1. h \in 1 .. Limit
    BY LimitFacts, HeadsFacts
  <2>2. Last(h) \in h .. Last(h)
    BY <2>1, LimitFacts, SpanFacts
  <2> QED
    BY <1>3, <2>2 DEF ResultOf
<1>7. Names({ResultOf(h)}) \subseteq Names({graph.input} \cup OwnResults(ops[j]))
  BY <1>6 DEF Names
<1> QED
  BY <1>4, <1>5, <1>7

LEMMA OriginCovered ==
  ASSUME graph \in Graphs, Ready, NEW n \in Heads, NEW t \in Values, Origin(t, n),
         NEW C, NEW i \in Nat, Index(n) <= i, Covered(C, i), Names({graph.input}) \subseteq C
  PROVE  t \in C
<1>1. CASE Root(t) = graph.input
  <2>1. t \in Names({graph.input})
    BY <1>1, NamedBy
  <2> QED
    BY <2>1
<1>2. CASE Root(t) # graph.input
  <2>1. PICK h \in Heads : h < n /\ ~Renames(h) /\ Root(t) = ResultOf(h)
    BY <1>2 DEF Origin
  <2>2. h <= Limit /\ Index(h) < Index(n) /\ Index(h) \in Nat /\ Index(n) \in Nat
    BY <2>1, LimitFacts, HeadsFacts, IndexFacts
  <2>3. Index(h) < i
    BY <2>2
  <2>4. t \in Names({ResultOf(h)})
    BY <2>1, NamedBy
  <2> QED
    BY <2>1, <2>2, <2>3, <2>4, OwnCovered
<1> QED
  BY <1>1, <1>2

(* Behind the last operation every node of the backbone is computed.       *)
LEMMA BackboneCovered ==
  ASSUME graph \in Graphs, Ready, NEW C, Covered(C, Len(ops)), Names({graph.input}) \subseteq C
  PROVE  \A m \in 1 .. Limit : OutOf(m) \in C
<1> SUFFICES ASSUME NEW m \in 1 .. Limit PROVE OutOf(m) \in C
  OBVIOUS
<1>1. Limit \in Nat /\ Limit + 1 \in Heads /\ Aliased(Limit + 1)
  BY LimitFacts DEF Ready, Planned
<1>2. Len(ops) \in Nat /\ Len(ops) = Index(Limit + 1)
  BY TableFacts
<1>3. PICK h \in Heads : h < Limit + 1 /\ m \in h .. Last(h)
  BY <1>1, HeadsFacts
<1>4. h <= Limit /\ Index(h) \in Nat /\ Index(h) <= Len(ops)
      /\ (~Renames(h) => Index(h) < Len(ops))
  BY <1>1, <1>2, <1>3, HeadsFacts, IndexFacts
<1>5. CASE ~Renames(h)
  BY <1>2, <1>3, <1>4, <1>5, OwnCovered
<1>6. CASE Renames(h)
  <2>1. /\ Last(h) = h /\ h \in 1 .. Limit /\ OutOf(h) \in Values /\ In(h, 1) \in Values
        /\ Found(h, In(h, 1))
    BY <1>4, <1>6, RenamesFacts
  <2>2. m = h
    BY <1>1, <1>3, <2>1
  <2>3. alias_of[OutOf(h)] = In(h, 1) /\ In(h, 1) # NoTensor
    BY <1>1, <1>3, <1>6, <2>1, GraphFacts DEF Aliased, Values, NoTensor
  <2>4. Root(OutOf(h)) = Root(In(h, 1))
    BY <1>1, <2>1, <2>3, RootIs
  <2>5. Origin(In(h, 1), h)
    BY <1>1, <1>4, <2>1, OriginFacts
  <2>6. Origin(OutOf(h), h)
    BY <2>4, <2>5 DEF Origin
  <2> QED
    BY <1>2, <1>4, <2>1, <2>2, <2>6, OriginCovered
<1> QED
  BY <1>5, <1>6


LEMMA CoveredMore ==
  ASSUME NEW C, NEW i \in Nat, Covered(C, i), NEW D, C \subseteq D,
         Names({graph.input} \cup OwnResults(ops[i + 1])) \subseteq D
  PROVE  Covered(D, i + 1)
<1>1. \A j \in 1 .. i + 1 : j \in 1 .. i \/ j = i + 1
  OBVIOUS
<1> QED
  BY <1>1 DEF Covered

(* The tail: the last operation leaves the activation, and every node      *)
(* before is computed.                                                     *)
LEMMA FinishIs ==
  ASSUME ProgramInv, RunInv, Finish
  PROVE  /\ graph.input \in computed /\ \A n \in Nodes(graph) : OutOf(n) \in computed'
         /\ \A n \in 1 .. Limit : OutOf(n) \in computed \cup Names({graph.input})
         /\ computed' = computed \cup Names({graph.input}) \cup
              IF CtcTail THEN {OutOf(n) : n \in Limit + 1 .. Len(graph.nodes)} ELSE {}
<1>1. graph \in Graphs /\ PlanInv /\ Ready /\ pc = "run" /\ at > Len(ops)
  BY DEF ProgramInv, PassInv, Finish
<1>2. /\ Len(ops) \in Nat /\ at = Len(ops) + 1 /\ at - 1 = Len(ops)
      /\ Len(ops) = Index(Limit + 1)
  <2>1. Len(ops) \in Nat /\ Len(ops) = Index(Limit + 1)
    BY <1>1, TableFacts
  <2> QED
    BY <1>1, <2>1 DEF RunInv
<1>3. Whole(memory, Len(ops)) /\ Covered(computed, Len(ops)) /\ graph.input \in computed
  BY <1>1, <1>2 DEF RunInv, Covered
<1>4. \A n \in 1 .. Limit : OutOf(n) \in computed \cup Names({graph.input})
  <2> DEFINE C == computed \cup Names({graph.input})
  <2>1. Covered(C, Len(ops)) /\ Names({graph.input}) \subseteq C
    BY <1>3 DEF Covered
  <2> HIDE DEF C
  <2>2. \A n \in 1 .. Limit : OutOf(n) \in C
    BY <1>1, <2>1, BackboneCovered
  <2> QED
    BY <2>2 DEF C
<1>5. CtcTail => Intact(memory, [value |-> Activation, offset |-> offset[Activation]])
  <2> SUFFICES ASSUME CtcTail
               PROVE  Intact(memory, [value |-> Activation, offset |-> offset[Activation]])
    OBVIOUS
  <2> DEFINE n == Limit + 1
             o == [value |-> Activation, offset |-> offset[Activation]]
  <2>1. /\ n \in Heads /\ Last(n) = n /\ n \in Nodes(graph) /\ Limit \in Nat
        /\ Activation \in Ins(graph, n) /\ Activation \notin graph.const
    BY <1>1, TailFacts, LimitFacts DEF Ready, Planned
  <2>2. Found(n, Activation)
    <3>1. n \in n .. Last(n)
      BY <2>1
    <3>2. Activation = graph.input \/ \E m \in 1 .. n - 1 : OutOf(m) = Activation
      <4>1. \/ Activation = graph.input
            \/ \E m \in Nodes(graph) : m < n /\ Out(graph, m) = Activation
        BY <1>1, <2>1, OperandFacts
      <4>2. \A m \in Nodes(graph) : m < n => m \in 1 .. n - 1
        BY <1>1, <2>1, GraphFacts
      <4> QED
        BY <4>1, <4>2 DEF OutOf
    <3> QED
      BY <2>1, <3>1, <3>2 DEF Found
  <2>3. /\ Made(Root(Activation), Index(n)) /\ Kept(Root(Activation), Index(n))
        /\ offset[Root(Activation)] = offset[Activation]
    BY <1>1, <2>1, <2>2, FoundKept
  <2>4. Has(memory, Root(Activation))
    BY <1>2, <1>3, <2>3 DEF Whole
  <2>5. PICK m \in memory : m.value = Root(Activation) /\ m.offset = offset[Activation]
    BY <2>3, <2>4 DEF Has
  <2>6. o.value = Activation /\ o.offset = offset[Activation]
    OBVIOUS
  <2> HIDE DEF o
  <2>7. m \in Holds(memory, o)
    BY <2>5, <2>6 DEF Holds
  <2> QED
    BY <2>7 DEF Intact, o
<1>6. computed' = computed \cup Names({graph.input}) \cup
        IF CtcTail THEN {OutOf(n) : n \in Limit + 1 .. Len(graph.nodes)} ELSE {}
  BY <1>5 DEF Finish
<1>7. \A n \in Nodes(graph) : n \in 1 .. Limit \/ (CtcTail /\ n \in Limit + 1 .. Len(graph.nodes))
  BY <1>1, LimitFacts, GraphFacts DEF Limit
<1> QED
  BY <1>3, <1>4, <1>6, <1>7

LEMMA RunInvStep ==
  ASSUME ProgramInv, RunInv, OrdersAgree, [Next]_vars
  PROVE  RunInv'
<1>1. graph \in Graphs /\ PlanInv
  BY DEF ProgramInv
<1>2. CASE Compile
  <2>1. pc' \in {"lower", "plan", "ready", "rejected"}
    BY <1>2 DEF Compile, Lower, LowerGelu, LowerRepack, LowerAlias, LowerNode, LowerFails,
       EndFirstPass, PlanStep, BeginSecondPass, EndSecondPass
  <2> QED
    BY <2>1 DEF RunInv
<1>3. CASE Begin
  <2>1. /\ pc = "ready" /\ pc' = "run" /\ at' = 1 /\ computed' = {graph.input}
        /\ memory' = {[value |-> graph.input, offset |-> offset[graph.input], order |-> MapOrder]}
        /\ UNCHANGED <<graph, strategy, lowering, plan>>
    BY <1>3 DEF Begin
  <2>2. Ready /\ Len(ops) \in Nat
    BY <1>1, <2>1, TableFacts DEF ProgramInv, PassInv
  <2>3. StoredOrder(graph.input) = MapOrder
    <3>1. Producer(graph, graph.input) = 0
      BY <1>1, GraphFacts, ProducerIs
    <3> QED
      BY <1>1, <3>1, StoredOrderIs
  <2>4. Whole(memory', 0)
    <3>1. Right(memory')
      BY <2>1, <2>3 DEF Right
    <3>2. \A v : Made(v, 0) => v = graph.input
      BY <1>1, IndexFacts DEF Made
    <3>3. Has(memory', graph.input)
      BY <2>1 DEF Has
    <3> QED
      BY <3>1, <3>2, <3>3 DEF Whole
  <2>5. Covered(computed', 0)
    BY <2>1 DEF Covered
  <2>6. Whole(memory, at - 1)' /\ Covered(computed, at - 1)'
    BY <2>1, <2>4, <2>5, SameWhole
  <2>7. Len(ops') = Len(ops)
    BY <2>1 DEF lowering
  <2> QED
    BY <2>1, <2>2, <2>6, <2>7 DEF RunInv
<1>4. CASE RunOp
  <2>1. /\ pc = "run" /\ pc' = "run" /\ at <= Len(ops) /\ Execute(ops[at]) /\ at' = at + 1
        /\ UNCHANGED <<graph, strategy, lowering, plan>>
    BY <1>4 DEF RunOp, RunPointwise, RunSpatial, RunBinary, RunUnary, RunMap, RunMatrix, Perform,
       Dispatched
  <2>2. Ready /\ Len(ops) \in Nat /\ at \in DOMAIN ops /\ at \in Nat /\ at - 1 \in Nat
        /\ at - 1 + 1 = at /\ Covered(computed, at - 1) /\ at' - 1 = at
    <3>1. Ready /\ Len(ops) \in Nat /\ DOMAIN ops = 1 .. Len(ops)
      BY <1>1, <2>1, TableFacts DEF ProgramInv, PassInv
    <3> QED
      BY <2>1, <3>1 DEF RunInv
  <2>3. /\ Whole(memory', at)
        /\ computed' = computed \cup Names({graph.input} \cup OwnResults(ops[at]))
    BY <2>1, <2>2, ExecuteStep
  <2>4. Covered(computed', at)
    BY <2>2, <2>3, CoveredMore
  <2>5. Whole(memory, at - 1)' /\ Covered(computed, at - 1)'
    BY <2>1, <2>2, <2>3, <2>4, SameWhole
  <2>6. at' \in 1 .. Len(ops') + 1
    <3>1. ops' = ops
      BY <2>1 DEF lowering
    <3> QED
      BY <2>1, <2>2, <3>1
  <2> QED
    BY <2>1, <2>5, <2>6 DEF RunInv
<1>5. CASE RunPair
  <2>1. /\ pc = "run" /\ pc' = "run" /\ at' = at + 2
        /\ UNCHANGED <<graph, strategy, lowering, plan>>
    BY <1>5 DEF RunPair
  <2>2. /\ at \in DOMAIN ops /\ at + 1 \in DOMAIN ops /\ Whole(memory', at + 1)
        /\ computed' = computed \cup Names({graph.input} \cup OwnResults(ops[at])
                                                         \cup OwnResults(ops[at + 1]))
    BY <1>5, PairStep
  <2>3. Ready /\ Len(ops) \in Nat /\ DOMAIN ops = 1 .. Len(ops)
    BY <1>1, <2>1, TableFacts DEF ProgramInv, PassInv
  <2>4. at \in Nat /\ at - 1 \in Nat /\ at - 1 + 1 = at /\ at' - 1 = at + 1
        /\ Covered(computed, at - 1)
    BY <2>1, <2>2, <2>3 DEF RunInv
  <2>5. \A S, T, U : Names(S \cup T) \subseteq Names(S \cup T \cup U)
                     /\ Names(S \cup U) \subseteq Names(S \cup T \cup U)
    BY DEF Names
  <2>6. Covered(computed', at)
    BY <2>2, <2>4, <2>5, CoveredMore
  <2>7. Covered(computed', at + 1)
    BY <2>2, <2>4, <2>5, <2>6, CoveredMore
  <2>8. Whole(memory, at - 1)' /\ Covered(computed, at - 1)'
    BY <2>1, <2>2, <2>4, <2>7, SameWhole
  <2>9. at' \in 1 .. Len(ops') + 1
    <3>1. ops' = ops
      BY <2>1 DEF lowering
    <3> QED
      BY <2>1, <2>2, <2>3, <3>1
  <2> QED
    BY <2>1, <2>8, <2>9 DEF RunInv
<1>6. CASE RunFails \/ Return
  <2>1. pc' = "ready"
    BY <1>6 DEF RunFails, Return
  <2> QED
    BY <2>1 DEF RunInv
<1>7. CASE Finish
  <2>1. pc' = "tail" /\ graph' = graph /\ computed \subseteq computed'
    BY <1>7 DEF Finish
  <2>2. graph.input \in computed /\ \A n \in Nodes(graph) : OutOf(n) \in computed'
    BY <1>7, FinishIs
  <2> QED
    BY <2>1, <2>2 DEF RunInv, OutOf
<1>8. CASE UNCHANGED vars
  <2>1. UNCHANGED <<graph, strategy, pc, lowering, plan, ops, at, memory, computed>>
    BY <1>8 DEF vars, lowering, running
  <2>2. \A mem, i : Whole(mem, i)' = Whole(mem, i)
    BY <2>1, SameWhole
  <2>3. \A C, i : Covered(C, i)' = Covered(C, i)
    BY <2>1, SameWhole
  <2> QED
    BY <2>1, <2>2, <2>3 DEF RunInv, OutOf
<1> QED
  BY <1>2, <1>3, <1>4, <1>5, <1>6, <1>7, <1>8 DEF Next, Run


-----------------------------------------------------------------------------
(* A finished program finds its operands in order, and evaluates the graph. *)

(* In every run of a program of a graph whose memory orders agree, an      *)
(* operation finds each operand in the order its kernel reads, and an      *)
(* elementwise one all of them in the same: fusing chains, folding         *)
(* epilogues, renaming reshapes and reusing places changes none of what    *)
(* the graph says (compile_node, fold_conv_epilogue, run_op).              *)
THEOREM OrdersAlwaysMatch == Spec /\ []OrdersAgree => []OrdersMatch
<1>1. Init => ProgramInv /\ RunInv
  <2>1. Init => pc = "lower"
    BY DEF Init
  <2> QED
    BY <2>1, ProgramStarts DEF RunInv
<1>2. ProgramInv /\ RunInv /\ OrdersAgree /\ [Next]_vars => (ProgramInv /\ RunInv)'
  BY ProgramStep, RunInvStep
<1>3. ASSUME ProgramInv, RunInv, OrdersAgree
      PROVE  OrdersMatch
  <2> SUFFICES ASSUME pc = "run", at <= Len(ops)
               PROVE  InOrder(memory, ops[at])
    BY DEF OrdersMatch
  <2>1. graph \in Graphs /\ PlanInv /\ Ready
    BY <1>3 DEF ProgramInv, PassInv
  <2>2. at \in DOMAIN ops /\ at \in Nat /\ Whole(memory, at - 1)
    BY <1>3, <2>1, TableFacts DEF RunInv
  <2>3. PICK h \in Heads : /\ h = ops[at].begin /\ h <= Limit /\ ~Renames(h)
                           /\ Index(h) = at - 1 /\ IsOf(ops[at], h)
    BY <2>1, <2>2, TableFacts
  <2>4. Whole(memory, Index(h))
    BY <2>2, <2>3
  <2>5. Good(memory, ops[at])
    BY <1>3, <2>1, <2>3, <2>4, OperationRuns
  <2> QED
    BY <2>5 DEF Good
<1> QED
  BY <1>1, <1>2, <1>3, PTL DEF Spec

(* A node gives t whose operands are all in D.                             *)
Grounded(t, D) ==
  \E n \in Nodes(graph) : Out(graph, n) = t /\ Ins(graph, n) \subseteq D \cup graph.const

(* A name of a computed tensor is a reshape of one.                        *)
LEMMA NameGrounded ==
  ASSUME graph \in Graphs, Ready, NEW S, NEW D, Names(S) \subseteq D,
         NEW t \in Names(S), t \notin S
  PROVE  Grounded(t, D)
<1>1. Limit + 1 \in Heads /\ Aliased(Limit + 1)
  BY DEF Ready, Planned
<1>2. t \in Values /\ alias_of[t] # NoTensor /\ Root(t) \in S
  BY DEF Names
<1> DEFINE n == Producer(graph, t)
           u == alias_of[t]
<1>3. /\ u \in Values /\ u \notin graph.const /\ n \in 1 .. Limit
      /\ Renames(n) /\ t = OutOf(n) /\ u \in Ins(graph, n)
  BY <1>1, <1>2, AliasFacts
<1>4. n \in Nodes(graph)
  BY <1>3, LimitFacts
<1>5. Root(t) = Root(u)
  BY <1>1, <1>2, RootIs
<1> HIDE DEF n, u
<1>6. u \in Names(S)
  BY <1>2, <1>3, <1>5, NamedBy
<1>7. Ins(graph, n) \subseteq {u} \cup graph.const
  BY <1>3, <1>4, OperandsAssumption DEF Renames, IsReshape, Op
<1> QED
  BY <1>3, <1>4, <1>6, <1>7 DEF Grounded, OutOf

(* A node of an operation reads what the operation computes itself, what   *)
(* an earlier one has computed, and names of those.                        *)
LEMMA ResultGrounded ==
  ASSUME graph \in Graphs, Ready, NEW i \in DOMAIN ops,
         NEW D, Covered(D, i), Names({graph.input}) \subseteq D, NEW t \in OwnResults(ops[i])
  PROVE  Grounded(t, D)
<1> DEFINE h == ops[i].begin
<1>1. /\ h \in Heads /\ h \in 1 .. Limit /\ h <= Limit /\ ~Renames(h) /\ Index(h) = i - 1
      /\ ops[i].count = Span(h) /\ i \in Nat
  BY TableFacts DEF IsOf
<1>2. PICK m \in h .. Last(h) : t = OutOf(m)
  BY <1>1 DEF OwnResults, LastNode, Last
<1> HIDE DEF h
<1>3. Limit \in Nat /\ Last(h) \in h .. Limit /\ m \in 1 .. Limit /\ m \in Nodes(graph)
  BY <1>1, <1>2, LimitFacts, SpanFacts
<1>4. Index(h) < i /\ Index(h) <= i
  BY <1>1
<1>5. ASSUME NEW u \in Ins(graph, m), u \notin graph.const
      PROVE  u \in D
  <2>1. CASE u = graph.input
    BY <2>1 DEF Covered
  <2>2. CASE \E k \in h .. Last(h) : u = OutOf(k)
    BY <1>1, <1>4, <2>2, OwnCovered
  <2>3. CASE u # graph.input /\ ~\E k \in h .. Last(h) : u = OutOf(k)
    <3>1. PICK k \in Nodes(graph) : k < m /\ Out(graph, k) = u
      BY <1>3, <1>5, <2>3, OperandFacts
    <3>2. k \in 1 .. h - 1
      <4>1. k \in Nat /\ k >= 1 /\ m \in Nat /\ h \in Nat /\ m <= Last(h) /\ Last(h) \in Nat
        BY <1>1, <1>2, <1>3, <3>1, GraphFacts
      <4>2. k \notin h .. Last(h)
        BY <2>3, <3>1 DEF OutOf
      <4> QED
        BY <3>1, <4>1, <4>2
    <3>3. Found(h, u)
      BY <1>2, <1>5, <3>1, <3>2 DEF Found, OutOf
    <3>4. Limit + 1 \in Heads /\ Aliased(Limit + 1) /\ h <= Limit + 1
      BY <1>1, <1>3 DEF Ready, Planned
    <3>5. Origin(u, h) /\ u \in Values
      BY <1>1, <3>3, <3>4, OriginFacts
    <3> QED
      BY <1>1, <1>4, <3>5, OriginCovered
  <2> QED
    BY <2>1, <2>2, <2>3
<1> QED
  BY <1>2, <1>3, <1>5 DEF Grounded, OutOf

(* What a step of a run computes.                                          *)
LEMMA OperationGrounded ==
  ASSUME ProgramInv, RunInv, OrdersAgree, RunOp
  PROVE  /\ pc = "run" /\ pc' = "run" /\ graph' = graph /\ computed \subseteq computed'
         /\ \A t \in computed' \ computed : Grounded(t, computed')
<1>1. /\ pc = "run" /\ pc' = "run" /\ at <= Len(ops) /\ Execute(ops[at]) /\ graph' = graph
  BY DEF RunOp, RunPointwise, RunSpatial, RunBinary, RunUnary, RunMap, RunMatrix, Perform,
     Dispatched
<1>2. graph \in Graphs /\ Ready
  BY <1>1 DEF ProgramInv, PassInv
<1>3. /\ at \in DOMAIN ops /\ at - 1 \in Nat /\ at - 1 + 1 = at
      /\ Covered(computed, at - 1)
  BY <1>1, <1>2, TableFacts DEF RunInv
<1> DEFINE S == {graph.input} \cup OwnResults(ops[at])
<1>4. computed' = computed \cup Names(S)
  BY <1>1, <1>3, ExecuteStep
<1>5. Covered(computed', at)
  BY <1>3, <1>4, CoveredMore
<1>6. Names({graph.input}) \subseteq computed'
  BY <1>4 DEF Names
<1>7. graph.input \in computed
  BY <1>3 DEF Covered
<1>8. ASSUME NEW t \in computed' \ computed
      PROVE  Grounded(t, computed')
  <2>1. CASE t \in OwnResults(ops[at])
    BY <1>2, <1>3, <1>5, <1>6, <2>1, ResultGrounded
  <2>2. CASE t \notin OwnResults(ops[at])
    <3>1. t \in Names(S) /\ t \notin S /\ Names(S) \subseteq computed'
      BY <1>4, <1>7, <1>8, <2>2
    <3> HIDE DEF S
    <3> QED
      BY <1>2, <3>1, NameGrounded
  <2> QED
    BY <2>1, <2>2
<1> QED
  BY <1>1, <1>4, <1>8

LEMMA PairGrounded ==
  ASSUME ProgramInv, RunInv, OrdersAgree, RunPair
  PROVE  /\ pc = "run" /\ pc' = "run" /\ graph' = graph /\ computed \subseteq computed'
         /\ \A t \in computed' \ computed : Grounded(t, computed')
<1>1. pc = "run" /\ pc' = "run" /\ graph' = graph
  BY DEF RunPair
<1>2. graph \in Graphs /\ Ready
  BY <1>1 DEF ProgramInv, PassInv
<1> DEFINE S == {graph.input} \cup OwnResults(ops[at]) \cup OwnResults(ops[at + 1])
<1>3. /\ at \in DOMAIN ops /\ at + 1 \in DOMAIN ops
      /\ computed' = computed \cup Names(S)
  BY PairStep
<1>4. /\ at \in Nat /\ at - 1 \in Nat /\ at - 1 + 1 = at /\ Covered(computed, at - 1)
  BY <1>1, <1>2, <1>3, TableFacts DEF RunInv
<1>5. /\ Names({graph.input} \cup OwnResults(ops[at])) \subseteq computed'
      /\ Names({graph.input} \cup OwnResults(ops[at + 1])) \subseteq computed'
      /\ Names({graph.input}) \subseteq computed' /\ computed \subseteq computed'
  BY <1>3 DEF Names
<1>6. Covered(computed', at)
  BY <1>4, <1>5, CoveredMore
<1>7. Covered(computed', at + 1)
  BY <1>4, <1>5, <1>6, CoveredMore
<1>8. graph.input \in computed
  BY <1>4 DEF Covered
<1>9. ASSUME NEW t \in computed' \ computed
      PROVE  Grounded(t, computed')
  <2>1. CASE t \in OwnResults(ops[at])
    BY <1>2, <1>3, <1>5, <1>6, <2>1, ResultGrounded
  <2>2. CASE t \in OwnResults(ops[at + 1])
    BY <1>2, <1>3, <1>5, <1>7, <2>2, ResultGrounded
  <2>3. CASE t \notin OwnResults(ops[at]) \cup OwnResults(ops[at + 1])
    <3>1. t \in Names(S) /\ t \notin S /\ Names(S) \subseteq computed'
      BY <1>3, <1>8, <1>9, <2>3
    <3> HIDE DEF S
    <3> QED
      BY <1>2, <3>1, NameGrounded
  <2> QED
    BY <2>1, <2>2, <2>3
<1> QED
  BY <1>1, <1>5, <1>9


LEMMA FinishGrounded ==
  ASSUME ProgramInv, RunInv, Finish
  PROVE  /\ pc = "run" /\ pc' = "tail" /\ graph' = graph /\ computed \subseteq computed'
         /\ \A t \in computed' \ computed : Grounded(t, computed')
<1>1. pc = "run" /\ pc' = "tail" /\ graph' = graph
  BY DEF Finish
<1>2. graph \in Graphs /\ Ready
  BY <1>1 DEF ProgramInv, PassInv
<1>3. /\ graph.input \in computed /\ \A n \in Nodes(graph) : OutOf(n) \in computed'
      /\ computed' = computed \cup Names({graph.input}) \cup
           IF CtcTail THEN {OutOf(n) : n \in Limit + 1 .. Len(graph.nodes)} ELSE {}
  BY FinishIs
<1>4. computed \subseteq computed' /\ Names({graph.input}) \subseteq computed'
  BY <1>3
<1>5. ASSUME NEW t \in computed' \ computed
      PROVE  Grounded(t, computed')
  <2>1. CASE t \in Names({graph.input})
    <3>1. t \notin {graph.input}
      BY <1>3, <1>5
    <3> QED
      BY <1>2, <1>4, <2>1, <3>1, NameGrounded
  <2>2. CASE t \notin Names({graph.input})
    <3>1. PICK n \in Limit + 1 .. Len(graph.nodes) : t = OutOf(n)
      BY <1>3, <1>5, <2>2
    <3>2. n \in Nodes(graph)
      BY <1>2, <3>1, LimitFacts, GraphFacts
    <3>3. \A u \in Ins(graph, n) : u \in graph.const \/ u = graph.input
                                  \/ \E m \in Nodes(graph) : Out(graph, m) = u
      BY <1>2, <3>2, OperandFacts
    <3>4. Ins(graph, n) \subseteq computed' \cup graph.const
      BY <1>3, <1>4, <3>3 DEF OutOf
    <3> QED
      BY <3>1, <3>2, <3>4 DEF Grounded, OutOf
  <2> QED
    BY <2>1, <2>2
<1> QED
  BY <1>1, <1>4, <1>5

(* A run of a program of a graph whose memory orders agree evaluates the   *)
(* graph: no lifetime the first pass found is too short, no chain was      *)
(* fused whose temporaries somebody else reads, no alias outlives its      *)
(* root, and a run that ends well has computed the outputs (lower_ops,     *)
(* plan_arena_offsets, run_backbone_ops).                                  *)
THEOREM ProgramEvaluates == Spec /\ []OrdersAgree => EvalSpec
<1> DEFINE O == IF pc \in {"run", "tail"} THEN "running" ELSE IF computed = {} THEN "none" ELSE "ok"
<1>1. Init => Eval!Init /\ ProgramInv /\ RunInv
  <2>1. Init => pc = "lower" /\ computed = {}
    BY DEF Init
  <2> QED
    BY <2>1, ProgramStarts DEF RunInv, Eval!Init
<1>2. ProgramInv /\ RunInv /\ OrdersAgree /\ [Next]_vars => (ProgramInv /\ RunInv)'
  BY ProgramStep, RunInvStep
<1>3. ASSUME ProgramInv, RunInv, OrdersAgree, [Next]_vars
      PROVE  [Eval!Next]_Eval!evaluation
  <2>1. CASE Begin
    <3>1. /\ pc = "ready" /\ pc' = "run" /\ computed' = {graph.input} /\ UNCHANGED graph
      BY <2>1 DEF Begin
    <3>2. O # "running" /\ O' = "running"
      BY <3>1
    <3>3. Eval!Begin
      BY <3>1, <3>2 DEF Eval!Begin
    <3> QED
      BY <3>3 DEF Eval!Next
  <2>2. CASE RunOp \/ RunPair \/ Finish
    <3>1. /\ pc = "run" /\ pc' \in {"run", "tail"} /\ UNCHANGED graph /\ computed \subseteq computed'
          /\ \A t \in computed' \ computed : Grounded(t, computed')
      BY <1>3, <2>2, OperationGrounded, PairGrounded, FinishGrounded
    <3>2. \A t \in computed' \ computed :
            \E n \in Eval!Nodes(graph) : /\ Eval!Out(graph, n) = t
                                         /\ Eval!Ins(graph, n) \subseteq computed' \cup graph.const
      BY <3>1 DEF Grounded, Eval!Nodes, Eval!Out, Eval!Ins, Eval!Slots, Nodes, Out, Ins, Slots
    <3>3. O = "running" /\ O' = "running"
      BY <3>1
    <3>4. Eval!Evaluate
      BY <3>1, <3>2, <3>3 DEF Eval!Evaluate
    <3> QED
      BY <3>4 DEF Eval!Next
  <2>3. CASE RunFails
    <3>1. pc = "run" /\ pc' = "ready" /\ computed' = {} /\ UNCHANGED graph
      BY <2>3 DEF RunFails
    <3>2. O = "running" /\ O' = "none"
      BY <3>1
    <3>3. Eval!GiveUp
      BY <3>1, <3>2 DEF Eval!GiveUp
    <3> QED
      BY <3>3 DEF Eval!Next
  <2>4. CASE Return
    <3>1. pc = "tail" /\ pc' = "ready" /\ UNCHANGED <<graph, computed>>
      BY <2>4 DEF Return, running
    <3>2. graph.input \in computed /\ \A n \in Nodes(graph) : OutOf(n) \in computed
      BY <1>3, <3>1 DEF RunInv
    <3>3. graph \in Graphs
      BY <1>3 DEF ProgramInv
    <3>4. graph.outputs \subseteq {Out(graph, n) : n \in Nodes(graph)}
      BY <3>3, GraphsWellFormed DEF WellFormed
    <3>5. graph.outputs \subseteq computed
      BY <3>2, <3>4 DEF OutOf
    <3>6. O = "running" /\ O' = "ok"
      BY <3>1, <3>2
    <3>7. Eval!Return
      BY <3>1, <3>5, <3>6 DEF Eval!Return
    <3> QED
      BY <3>7 DEF Eval!Next
  <2>5. CASE Compile
    <3>1. /\ pc \notin {"run", "tail"} /\ pc' \notin {"run", "tail"}
          /\ UNCHANGED <<graph, computed>>
      BY <2>5 DEF Compile, Lower, LowerGelu, LowerRepack, LowerAlias, LowerNode, LowerFails,
         EndFirstPass, PlanStep, BeginSecondPass, EndSecondPass, running
    <3>2. O' = O
      BY <3>1
    <3> QED
      BY <3>1, <3>2 DEF Eval!evaluation
  <2>6. CASE UNCHANGED vars
    BY <2>6 DEF vars, running, Eval!evaluation
  <2> QED
    BY <1>3, <2>1, <2>2, <2>3, <2>4, <2>5, <2>6 DEF Next, Run
<1> QED
  BY <1>1, <1>2, <1>3, PTL DEF Spec, EvalSpec, Eval!Spec

=============================================================================
