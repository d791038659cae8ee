--------------------------- MODULE PreparedConstants ---------------------------
(***************************************************************************)
(* The packed weights that the sessions of one model share: their block is *)
(* created with one session (prepare_constant_layout), filled by it        *)
(* (pack_prepared_constants), shared with others                           *)
(* (lw_session_share_prepared_constants) and freed with the last           *)
(* (release_shared_prepared_constants), src/src/runtime/session.c.         *)
(*                                                                         *)
(* The reference count is the only field two threads touch at a time: each *)
(* line worker configures sessions of its own recognizer, and all of them  *)
(* descend from one.  Its load and its compare-and-exchange are separate   *)
(* steps here.  A session itself belongs to one thread, and a session that *)
(* is the source of a share is not used by another call meanwhile.         *)
(***************************************************************************)
EXTENDS Integers, FiniteSets

CONSTANTS
  Sessions,  \* lw_session handles
  Blocks,    \* lw_shared_prepared_constants, each allocated once
  MaxRefs,   \* UINT32_MAX
  Nil        \* NULL

ASSUME NilAssumption == Nil \notin Sessions /\ Nil \notin Blocks
ASSUME FiniteAssumption == IsFiniteSet(Sessions)
ASSUME MaxRefsAssumption == MaxRefs \in Nat \ {0}

VARIABLES
  stage,     \* where the call on a session is
  holds,     \* the block a session has a counted reference to
  gained,    \* "shared" of a share whose exchange has succeeded
  dying,     \* the block whose last reference a release has dropped
  source,    \* the session a share takes the block of
  observed,  \* the local copy of the reference count
  ref_count,
  block,     \* "unused", "layout", "packed" or "freed"
  after      \* what follows a release: "ready" (a share) or "none" (a free)

sharedVars ==
  <<stage, holds, gained, dying, source, observed, ref_count, block, after>>

Stages == {"none", "layout", "share", "release", "dispose", "ready"}

SharedInit ==
  /\ stage = [s \in Sessions |-> "none"]
  /\ holds = [s \in Sessions |-> Nil]
  /\ gained = [s \in Sessions |-> Nil]
  /\ dying = [s \in Sessions |-> Nil]
  /\ source = [s \in Sessions |-> Nil]
  /\ observed = [s \in Sessions |-> 0]
  /\ ref_count = [b \in Blocks |-> 0]
  /\ block = [b \in Blocks |-> "unused"]
  /\ after = [s \in Sessions |-> "none"]

-----------------------------------------------------------------------------
(* prepare_constant_layout: a block with one reference and no weights yet. *)
CreateLayout(s, b) ==
  /\ stage[s] = "none" /\ block[b] = "unused"
  /\ block' = [block EXCEPT ![b] = "layout"]
  /\ ref_count' = [ref_count EXCEPT ![b] = 1]
  /\ holds' = [holds EXCEPT ![s] = b]
  /\ stage' = [stage EXCEPT ![s] = "layout"]
  /\ UNCHANGED <<gained, dying, source, observed, after>>

(* pack_prepared_constants: no source, or one with another layout. *)
Pack(s) ==
  /\ stage[s] = "layout"
  /\ block' = [block EXCEPT ![holds[s]] = "packed"]
  /\ stage' = [stage EXCEPT ![s] = "ready"]
  /\ UNCHANGED <<holds, gained, dying, source, observed, ref_count, after>>

(* lw_session_share_prepared_constants up to the load: the layout of a     *)
(* session being created is compatible with its source, or a clone takes   *)
(* over the block of the session it was cloned from.                       *)
ShareBegin(s, t) ==
  /\ stage[s] \in {"layout", "ready"} /\ stage[t] = "ready" /\ s # t
  /\ \A u \in Sessions : source[u] # s
  /\ holds[s] # holds[t]
  /\ source' = [source EXCEPT ![s] = t]
  /\ observed' = [observed EXCEPT ![s] = ref_count[holds[t]]]
  /\ stage' = [stage EXCEPT ![s] = "share"]
  /\ UNCHANGED <<holds, gained, dying, ref_count, block, after>>

(* The count has no room: the caller frees the session. *)
ShareOverflows(s) ==
  /\ stage[s] = "share" /\ gained[s] = Nil
  /\ observed[s] \in {0, MaxRefs}
  /\ source' = [source EXCEPT ![s] = Nil]
  /\ observed' = [observed EXCEPT ![s] = ref_count[holds[s]]]
  /\ after' = [after EXCEPT ![s] = "none"]
  /\ stage' = [stage EXCEPT ![s] = "release"]
  /\ UNCHANGED <<holds, gained, dying, ref_count, block>>

(* Mutation: a plain increment of the value read before. *)
ShareExchangeBlind(s) ==
  LET b == holds[source[s]] IN
  /\ stage[s] = "share" /\ gained[s] = Nil
  /\ observed[s] \notin {0, MaxRefs}
  /\ ref_count' = [ref_count EXCEPT ![b] = observed[s] + 1]
  /\ gained' = [gained EXCEPT ![s] = b]
  /\ UNCHANGED <<stage, holds, dying, source, observed, block, after>>

(* The exchange succeeds, or the value another thread left is looked at.   *)
ShareExchange(s) ==
  LET b == holds[source[s]] IN
  /\ stage[s] = "share" /\ gained[s] = Nil
  /\ observed[s] \notin {0, MaxRefs}
  /\ \/ /\ ref_count[b] = observed[s]
        /\ ref_count' = [ref_count EXCEPT ![b] = @ + 1]
        /\ gained' = [gained EXCEPT ![s] = b]
        /\ UNCHANGED observed
     \/ /\ ref_count[b] # observed[s]
        /\ observed' = [observed EXCEPT ![s] = ref_count[b]]
        /\ UNCHANGED <<ref_count, gained>>
  /\ UNCHANGED <<stage, holds, dying, source, block, after>>

(* Mutation: the session's own block is overwritten, never released. *)
ShareReleaseOwnSkips(s) ==
  /\ stage[s] = "share" /\ gained[s] # Nil
  /\ source' = [source EXCEPT ![s] = Nil]
  /\ holds' = [holds EXCEPT ![s] = gained[s]]
  /\ gained' = [gained EXCEPT ![s] = Nil]
  /\ stage' = [stage EXCEPT ![s] = "ready"]
  /\ UNCHANGED <<dying, observed, ref_count, block, after>>

(* With the new reference in hand the session's own block is released. *)
ShareReleaseOwn(s) ==
  /\ stage[s] = "share" /\ gained[s] # Nil
  /\ source' = [source EXCEPT ![s] = Nil]
  /\ observed' = [observed EXCEPT ![s] = ref_count[holds[s]]]
  /\ after' = [after EXCEPT ![s] = "ready"]
  /\ stage' = [stage EXCEPT ![s] = "release"]
  /\ UNCHANGED <<holds, gained, dying, ref_count, block>>

-----------------------------------------------------------------------------
(* lw_session_free, of a finished session or one whose packing failed. *)
Free(s) ==
  /\ stage[s] \in {"layout", "ready"}
  /\ \A u \in Sessions : source[u] # s
  /\ observed' = [observed EXCEPT ![s] = ref_count[holds[s]]]
  /\ after' = [after EXCEPT ![s] = "none"]
  /\ stage' = [stage EXCEPT ![s] = "release"]
  /\ UNCHANGED <<holds, gained, dying, source, ref_count, block>>

(* A release that is over: the session holds what it gained, or is gone.   *)
Settle(s) ==
  /\ holds' = [holds EXCEPT ![s] = gained[s]]
  /\ gained' = [gained EXCEPT ![s] = Nil]
  /\ stage' = [stage EXCEPT ![s] = after[s]]

(* Mutation: the block is freed by whoever saw the count at one. *)
ReleaseBlind(s) ==
  LET b == holds[s] IN
  /\ stage[s] = "release" /\ observed[s] # 0
  /\ ref_count' = [ref_count EXCEPT ![b] = observed[s] - 1]
  /\ \/ /\ observed[s] = 1
        /\ dying' = [dying EXCEPT ![s] = b]
        /\ holds' = [holds EXCEPT ![s] = Nil]
        /\ stage' = [stage EXCEPT ![s] = "dispose"]
        /\ UNCHANGED gained
     \/ /\ observed[s] # 1
        /\ Settle(s) /\ UNCHANGED dying
  /\ UNCHANGED <<source, observed, block, after>>

(* release_shared_prepared_constants: exchange the count for one less and  *)
(* free the block if that was the last reference.  (A count of zero, which  *)
(* the code returns on, is never read: CountIsReferences.)                 *)
Release(s) ==
  LET b == holds[s] IN
  /\ stage[s] = "release"
  /\ \/ /\ observed[s] # 0 /\ ref_count[b] = observed[s]
        /\ ref_count' = [ref_count EXCEPT ![b] = @ - 1]
        /\ UNCHANGED observed
        /\ \/ /\ observed[s] = 1
              /\ dying' = [dying EXCEPT ![s] = b]
              /\ holds' = [holds EXCEPT ![s] = Nil]
              /\ stage' = [stage EXCEPT ![s] = "dispose"]
              /\ UNCHANGED gained
           \/ /\ observed[s] # 1
              /\ Settle(s) /\ UNCHANGED dying
     \/ /\ observed[s] # 0 /\ ref_count[b] # observed[s]
        /\ observed' = [observed EXCEPT ![s] = ref_count[b]]
        /\ UNCHANGED <<ref_count, dying, holds, gained, stage>>
  /\ UNCHANGED <<source, block, after>>

(* The weights, the table and the block itself go back to the heap. *)
Dispose(s) ==
  /\ stage[s] = "dispose"
  /\ block' = [block EXCEPT ![dying[s]] = "freed"]
  /\ dying' = [dying EXCEPT ![s] = Nil]
  /\ Settle(s)
  /\ UNCHANGED <<source, observed, ref_count, after>>

-----------------------------------------------------------------------------
SharedNext ==
  \E s \in Sessions :
    \/ \E b \in Blocks : CreateLayout(s, b)
    \/ Pack(s) \/ Free(s)
    \/ \E t \in Sessions : ShareBegin(s, t)
    \/ ShareOverflows(s) \/ ShareExchange(s) \/ ShareReleaseOwn(s)
    \/ Release(s) \/ Dispose(s)

SharedSpec == SharedInit /\ [][SharedNext]_sharedVars

-----------------------------------------------------------------------------
SharedTypeOK ==
  /\ stage \in [Sessions -> Stages]
  /\ holds \in [Sessions -> Blocks \cup {Nil}]
  /\ gained \in [Sessions -> Blocks \cup {Nil}]
  /\ dying \in [Sessions -> Blocks \cup {Nil}]
  /\ source \in [Sessions -> Sessions \cup {Nil}]
  /\ observed \in [Sessions -> 0 .. MaxRefs]
  /\ ref_count \in [Blocks -> 0 .. MaxRefs]
  /\ block \in [Blocks -> {"unused", "layout", "packed", "freed"}]
  /\ after \in [Sessions -> {"ready", "none"}]

(* The references there are to a block: through a finished session, or     *)
(* through a share that has not yet released the block it replaces.        *)
Holders(b) == {s \in Sessions : holds[s] = b}
Gainers(b) == {s \in Sessions : gained[s] = b}
Live(b) == block[b] \in {"layout", "packed"}

(* The count is the number of references, so no thread frees a block that  *)
(* another still reads its weights from, and the last one does free it.    *)
CountIsReferences ==
  \A b \in Blocks :
    ref_count[b] = Cardinality(Holders(b)) + Cardinality(Gainers(b))

(* A session in use has all its weights: nobody has freed its block, and   *)
(* it is not one whose packing was skipped or failed.                      *)
ReadyIsPacked == \A s \in Sessions : stage[s] = "ready" => block[holds[s]] = "packed"

(* No reference leads to a freed block, and none to one about to be freed. *)
NothingDangles ==
  \A s \in Sessions :
    /\ holds[s] # Nil => Live(holds[s])
    /\ gained[s] # Nil => Live(gained[s])
    /\ dying[s] # Nil =>
         /\ Live(dying[s])
         /\ \A t \in Sessions : /\ dying[s] \notin {holds[t], gained[t]}
                                /\ dying[t] = dying[s] => t = s

(* When every session is gone so is every block. *)
NothingLeaks ==
  (\A s \in Sessions : stage[s] = "none") => \A b \in Blocks : ~Live(b)

-----------------------------------------------------------------------------
(* The inductive invariant: what each program point knows.                 *)
CallInv ==
  \A s \in Sessions :
    /\ dying[s] # Nil <=> stage[s] = "dispose"
    /\ source[s] # Nil <=> stage[s] = "share"
    /\ holds[s] # Nil <=> stage[s] \notin {"none", "dispose"}
    /\ gained[s] # Nil => /\ stage[s] \in {"share", "release", "dispose"}
                          /\ gained[s] # holds[s]
                          /\ block[gained[s]] = "packed"
    /\ stage[s] \in {"release", "dispose"} =>
         (gained[s] # Nil <=> after[s] = "ready")
    /\ stage[s] = "share" =>
         /\ stage[source[s]] = "ready"
         /\ holds[source[s]] # holds[s]
         /\ gained[s] \in {Nil, holds[source[s]]}
    /\ stage[s] = "ready" => block[holds[s]] = "packed"

BlockInv ==
  \A b \in Blocks :
    /\ ~Live(b) => ref_count[b] = 0
    /\ Live(b) => ref_count[b] > 0 \/ \E s \in Sessions : dying[s] = b

SharedInv ==
  /\ SharedTypeOK /\ CallInv /\ BlockInv
  /\ NothingDangles /\ CountIsReferences
=============================================================================
