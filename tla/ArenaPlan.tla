------------------------------ MODULE ArenaPlan ------------------------------
(***************************************************************************)
(* plan_arena_offsets of the compiled engines: the greedy placement of     *)
(* values with known lifetimes in one arena (x64_rec_backend_compile.c;    *)
(* x64_det_backend_compile.c holds a copy that also places the second      *)
(* layout of a value).  Offsets and sizes count lines of Align units; no   *)
(* size comes near 2^64.                                                   *)
(***************************************************************************)
EXTENDS Integers, Sequences, FiniteSets

CONSTANT Unit   \* the alignment, 64 bytes in the code
ASSUME UnitAssumption == Unit \in Nat \ {0}

VARIABLES
  candidates,   \* the values still to place
  placed,       \* those that have their offset
  offset_tried, \* the offset the search is at
  arena_bytes

plan == <<candidates, placed, offset_tried, arena_bytes>>

Align(x) == ((x + Unit - 1) \div Unit) * Unit
End(p) == p.offset + p.bytes

(* candidate_before: larger first, then earlier, then by number; a value's *)
(* second slot after its first.                                            *)
Before(a, b) ==
  \/ a.bytes > b.bytes
  \/ a.bytes = b.bytes /\ a.first < b.first
  \/ a.bytes = b.bytes /\ a.first = b.first /\ a.value < b.value
  \/ a.bytes = b.bytes /\ a.first = b.first /\ a.value = b.value /\ a.alt < b.alt

SameTime(a, b) == a.first <= b.last /\ b.first <= a.last
Overlap(x, xn, y, yn) == x < y + yn /\ y < x + xn

(* Mutation: two values share a place when they only touch in time. *)
HitsInside(c, at) ==
  {p \in DOMAIN placed : /\ placed[p].first < c.last /\ c.first < placed[p].last
                         /\ Overlap(at, c.bytes, placed[p].offset, placed[p].bytes)}

(* The placed values that stand in the way of c at this offset.            *)
Hits(c, at) ==
  {p \in DOMAIN placed : /\ SameTime(placed[p], c)
                         /\ Overlap(at, c.bytes, placed[p].offset, placed[p].bytes)}

PlanInit ==
  candidates = {} /\ placed = <<>> /\ offset_tried = 0 /\ arena_bytes = 0

(* A plan starts over with these candidates, none of them placed.          *)
PlanStart(S) ==
  candidates' = S /\ placed' = <<>> /\ offset_tried' = 0 /\ arena_bytes' = 0

(* The candidates are sorted before they are placed.                       *)
IsNext(c) == \A d \in candidates \ {c} : Before(c, d)

(* A collision: try again behind the first value that is in the way.       *)
BumpBehind(c, p) ==
  /\ p \in Hits(c, offset_tried)
  /\ \A q \in Hits(c, offset_tried) : p <= q
  /\ offset_tried' = Align(End(placed[p]))
  /\ UNCHANGED <<candidates, placed, arena_bytes>>

Slot(c, at) == [value |-> c.value, alt |-> c.alt, bytes |-> c.bytes,
                first |-> c.first, last |-> c.last, offset |-> at]
PlaceNext(c) ==
  /\ Hits(c, offset_tried) = {}
  /\ placed' = Append(placed, Slot(c, Align(offset_tried)))
  /\ arena_bytes' = IF End(Slot(c, Align(offset_tried))) > arena_bytes
                      THEN End(Slot(c, Align(offset_tried))) ELSE arena_bytes
  /\ candidates' = candidates \ {c} /\ offset_tried' = 0

Bump == \E c \in candidates : IsNext(c) /\ \E p \in DOMAIN placed : BumpBehind(c, p)
Place == \E c \in candidates : IsNext(c) /\ PlaceNext(c)

(* The offset of a value's slot, 0 when it has none.                       *)
OffsetOf(value, alt) ==
  IF \E p \in DOMAIN placed : placed[p].value = value /\ placed[p].alt = alt
    THEN placed[CHOOSE p \in DOMAIN placed :
                  placed[p].value = value /\ placed[p].alt = alt].offset
    ELSE 0

-----------------------------------------------------------------------------
(* Values that live at the same time share no byte of the arena, and every *)
(* value lies inside it.                                                   *)
PlacesDisjoint ==
  \A p, q \in DOMAIN placed :
    p # q /\ SameTime(placed[p], placed[q]) =>
      ~Overlap(placed[p].offset, placed[p].bytes, placed[q].offset, placed[q].bytes)

PlacesFit == \A p \in DOMAIN placed : placed[p].offset >= 0 /\ End(placed[p]) <= arena_bytes
=============================================================================
