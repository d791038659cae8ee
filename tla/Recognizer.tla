------------------------------ MODULE Recognizer ------------------------------
(***************************************************************************)
(* One recognizer handle (lw_recognizer, src/src/ppocr/recognizer.c): which *)
(* session serves the width of a line, what becomes of the others, and     *)
(* what each of them borrows.                                              *)
(*                                                                         *)
(* A handle serves one line at a time, so this is a sequential machine.    *)
(* Its hazards are long call sequences and failures in the middle of a     *)
(* switch: a session, its buffers, its fast plan and its "plan failed"     *)
(* flag travel between the active, the cached and the resident slots.      *)
(* A slot record stands for all of the fields that travel together.        *)
(*                                                                         *)
(* A freed identifier of a session or a pool may be handed out again, as   *)
(* an address may.                                                         *)
(***************************************************************************)
EXTENDS Integers, FiniteSets

CONSTANTS
  Widths,      \* lw_rec_adaptive_widths, the largest being info.target_width
  Sessions,    \* lw_session handles
  Pools,       \* lw_thread_pool handles
  MaxWorkers,  \* LW_PARALLEL_MAX_WORKERS
  Nil          \* NULL

ASSUME WidthsAssumption == Widths \subseteq Nat \ {0}
ASSUME MaxWorkersAssumption == MaxWorkers \in Nat \ {0}
ASSUME NilAssumption == Nil \notin Sessions /\ Nil \notin Pools /\ Nil \notin Widths

VARIABLES
  pc,            \* "absent", "idle" or where the call in progress is
  target,        \* target_width of the call
  active,        \* session, fast_plan, ..., current_target_width
  cached,        \* cached_session, cached_fast_plan, ...
  resident,      \* resident_slots
  resident_widths_enabled,
  candidate,     \* the session under construction
  x64_slots,     \* the pool each compiled width borrows, or Nil
  fast_shared,   \* whether the Medium fast path is available
  intra_pool,
  intra_workers,
  width,         \* the width of each live session, 0 for the others
  plans,         \* the sessions a live fast plan works on
  external,      \* the pool each session borrows
  capacity,      \* the workers of each live pool, 0 for the others
  filled         \* whose input buffer holds the line: a session or a width

sessions == <<width, plans, external>>
pools == <<intra_pool, intra_workers, capacity>>
slots == <<active, cached, resident, resident_widths_enabled>>
vars == <<pc, target, slots, candidate, x64_slots, fast_shared, pools,
          sessions, filled>>

Empty == [session |-> Nil, width |-> 0, plan |-> Nil, disabled |-> FALSE]
Detached == [pool |-> Nil, workers |-> 0]

(* lw_session_set_external_thread_pool, lw_x64_rec_instance_set_thread_pool *)
Borrow(pool, workers) ==
  IF pool = Nil \/ workers <= 1 THEN Detached
  ELSE [pool |-> pool, workers |-> workers]

Compiled(w) == x64_slots[w] # Nil
Live == {s \in Sessions : width[s] # 0}

(* lw_session_free; a session that is gone borrows nothing. *)
FreeSessions(S) ==
  /\ width' = [s \in Sessions |-> IF s \in S THEN 0 ELSE width[s]]
  /\ external' = [s \in Sessions |-> IF s \in S THEN Detached ELSE external[s]]

Init ==
  /\ pc = "absent" /\ target = Nil
  /\ active = Empty /\ cached = Empty /\ candidate = Nil
  /\ resident = [w \in Widths |-> Empty]
  /\ resident_widths_enabled = FALSE
  /\ x64_slots = [w \in Widths |-> Nil] /\ fast_shared = FALSE
  /\ intra_pool = Nil /\ intra_workers = 0
  /\ width = [s \in Sessions |-> 0] /\ plans = {}
  /\ external = [s \in Sessions |-> Detached]
  /\ capacity = [p \in Pools |-> 0]
  /\ filled = Nil

-----------------------------------------------------------------------------
(* Creation and destruction                                                *)

(* A new handle has one session and instances for the widths that compile; *)
(* the Medium plan is considered only if some width does not.              *)
Open(w, disabled) ==
  \E s \in Sessions, compiled \in SUBSET Widths, shared \in BOOLEAN :
    /\ shared => compiled # Widths
    /\ disabled => shared
    /\ active' = [Empty EXCEPT !.session = s, !.width = w, !.disabled = disabled]
    /\ width' = [width EXCEPT ![s] = w]
    /\ x64_slots' = [v \in Widths |-> IF v \in compiled THEN Detached ELSE Nil]
    /\ fast_shared' = shared
    /\ UNCHANGED <<target, cached, resident, resident_widths_enabled, candidate,
                   pools, plans, external, filled>>

(* lw_recognizer_create: at the maximal width. *)
Create ==
  /\ pc = "absent" /\ pc' = "idle"
  /\ \E w \in Widths : (\A v \in Widths : v <= w) /\ Open(w, FALSE)

(* lw_recognizer_clone: at the width the source was left at, without its   *)
(* resident slots; it ends with a pool of its own (AttachClone).           *)
Clone ==
  /\ pc = "absent" /\ pc' = "clone"
  /\ \E w \in Widths, disabled \in BOOLEAN : Open(w, disabled)

(* lw_recognizer_free *)
Free ==
  LET owned == {active, cached} \cup {resident[w] : w \in Widths} IN
  /\ pc = "idle" /\ pc' = "absent"
  /\ active' = Empty /\ cached' = Empty
  /\ resident' = [w \in Widths |-> Empty]
  /\ resident_widths_enabled' = FALSE
  /\ x64_slots' = [w \in Widths |-> Nil] /\ fast_shared' = FALSE
  /\ FreeSessions({o.session : o \in owned})
  /\ plans' = {s \in plans : \A o \in owned : o.plan # s}
  /\ intra_pool' = Nil /\ intra_workers' = 0
  /\ capacity' = [p \in Pools |-> IF p = intra_pool THEN 0 ELSE capacity[p]]
  /\ UNCHANGED <<target, candidate, filled>>

-----------------------------------------------------------------------------
(* lw_recognizer_set_intra_op_thread_count                                 *)

PoolSize == IF intra_pool = Nil THEN 1 ELSE capacity[intra_pool]

(* Mutation: a session in the cache keeps the pool that is replaced. *)
AttachSkipsCached(pool, workers) ==
  /\ external' = [s \in Sessions |->
       IF s \in {active.session} \cup {resident[w].session : w \in Widths}
       THEN Borrow(pool, workers) ELSE external[s]]
  /\ x64_slots' = [w \in Widths |->
       IF Compiled(w) THEN Borrow(pool, workers) ELSE Nil]

(* recognizer_attach_intra_pool: every session and every instance. *)
Attach(pool, workers) ==
  /\ external' = [s \in Sessions |->
       IF s \in {active.session, cached.session}
                 \cup {resident[w].session : w \in Widths}
       THEN Borrow(pool, workers) ELSE external[s]]
  /\ x64_slots' = [w \in Widths |->
       IF Compiled(w) THEN Borrow(pool, workers) ELSE Nil]

(* The pool only grows.  A replacement may get fewer threads than asked    *)
(* for; it is kept only if it is larger than the pool there is.            *)
SetWorkers(n) ==
  LET unchanged == n = intra_workers /\ (n = 1 \/ PoolSize >= n) IN
  \/ /\ unchanged /\ UNCHANGED <<pools, external, x64_slots>>
  \/ /\ ~unchanged /\ (n = 1 \/ PoolSize >= n)
     /\ intra_workers' = n
     /\ Attach(intra_pool, n)
     /\ UNCHANGED <<intra_pool, capacity>>
  \/ /\ ~unchanged /\ n > 1 /\ PoolSize < n  \* no larger pool to be had
     /\ intra_workers' = PoolSize
     /\ Attach(intra_pool, PoolSize)
     /\ UNCHANGED <<intra_pool, capacity>>
  \/ /\ ~unchanged /\ n > 1 /\ PoolSize < n
     /\ \E p \in Pools, size \in 2 .. n :
          /\ capacity[p] = 0 /\ size > PoolSize
          /\ capacity' = [q \in Pools |->
               IF q = p THEN size ELSE IF q = intra_pool THEN 0 ELSE capacity[q]]
          /\ intra_pool' = p
          /\ intra_workers' = size
          /\ Attach(p, size)

SetThreads ==
  /\ pc = "idle"
  /\ \E n \in 1 .. MaxWorkers : SetWorkers(n)
  /\ UNCHANGED <<pc, target, slots, candidate, fast_shared, width, plans, filled>>

(* The last call of lw_recognizer_clone. *)
AttachClone ==
  /\ pc = "clone" /\ pc' = "idle"
  /\ \E n \in 1 .. MaxWorkers : SetWorkers(n)
  /\ UNCHANGED <<target, slots, candidate, fast_shared, width, plans, filled>>

-----------------------------------------------------------------------------
(* lw_recognizer_enable_resident_widths                                    *)

EnableBegin ==
  /\ pc = "idle" /\ ~resident_widths_enabled
  /\ \E w \in Widths : ~Compiled(w)
  /\ pc' = "enable"
  /\ UNCHANGED <<target, slots, candidate, x64_slots, fast_shared, pools,
                 sessions, filled>>

Unbuilt == {w \in Widths : w # active.width /\ resident[w].session = Nil}

(* Mutation: the temporary handle still has the cache of the real one. *)
EnableSlotDropsCache(w, s) ==
  /\ pc = "enable" /\ w \in Unbuilt /\ width[s] = 0
  /\ \A v \in Unbuilt : w <= v
  /\ resident' = [resident EXCEPT
       ![w] = [Empty EXCEPT !.session = s, !.width = w]]
  /\ width' = [t \in Sessions |->
       IF t = s THEN w ELSE IF t = cached.session THEN 0 ELSE width[t]]
  /\ plans' = plans \ {cached.plan}
  /\ external' = [external EXCEPT ![s] = Borrow(intra_pool, intra_workers)]
  /\ UNCHANGED <<pc, target, active, cached, resident_widths_enabled, candidate,
                 x64_slots, fast_shared, pools, filled>>

(* One slot: configure_session on a temporary handle without a cache whose *)
(* active session is only the source of packed weights.                    *)
EnableSlot(w, s) ==
  /\ pc = "enable" /\ w \in Unbuilt /\ width[s] = 0
  /\ \A v \in Unbuilt : w <= v
  /\ resident' = [resident EXCEPT
       ![w] = [Empty EXCEPT !.session = s, !.width = w]]
  /\ width' = [width EXCEPT ![s] = w]
  /\ external' = [external EXCEPT ![s] = Borrow(intra_pool, intra_workers)]
  /\ UNCHANGED <<pc, target, active, cached, resident_widths_enabled, candidate,
                 x64_slots, fast_shared, pools, plans, filled>>

EnableFails ==
  /\ pc = "enable" /\ Unbuilt # {}
  /\ resident' = [w \in Widths |-> Empty]
  /\ FreeSessions({resident[w].session : w \in Widths})
  /\ pc' = "idle"
  /\ UNCHANGED <<target, active, cached, resident_widths_enabled, candidate,
                 x64_slots, fast_shared, pools, plans, filled>>

EnableDone ==
  /\ pc = "enable" /\ Unbuilt = {}
  /\ resident_widths_enabled' = TRUE
  /\ pc' = "idle"
  /\ UNCHANGED <<target, active, cached, resident, candidate, x64_slots,
                 fast_shared, pools, sessions, filled>>

-----------------------------------------------------------------------------
(* recognizer_recognize_bgr_u8_impl                                        *)

(* The session is switched only if it has to serve the line. *)
Canonical(w) == IF active.width = w THEN "preprocess" ELSE "configure"

Start(w) ==
  /\ pc = "idle"
  /\ target' = w
  /\ pc' = IF Compiled(w) THEN "compiled" ELSE Canonical(w)
  /\ UNCHANGED <<slots, candidate, x64_slots, fast_shared, pools, sessions, filled>>

Finish ==
  /\ pc' = "idle" /\ target' = Nil /\ filled' = Nil

(* A compiled width preprocesses into the input of its instance and runs   *)
(* it; a failed run is the result of the call.                             *)
CompiledPreprocess ==
  /\ pc = "compiled" /\ pc' = "execute_compiled"
  /\ filled' = target
  /\ UNCHANGED <<target, slots, candidate, x64_slots, fast_shared, pools, sessions>>

(* Mutation: whatever session is active takes over. *)
CompiledRejectsAsIs ==
  /\ pc = "compiled"
  /\ pc' = "preprocess"
  /\ UNCHANGED <<target, slots, candidate, x64_slots, fast_shared, pools,
                 sessions, filled>>

(* A preprocessing that fails falls back to the canonical session. *)
CompiledRejects ==
  /\ pc = "compiled"
  /\ pc' = Canonical(target)
  /\ UNCHANGED <<target, slots, candidate, x64_slots, fast_shared, pools,
                 sessions, filled>>

ExecuteCompiled ==
  /\ pc = "execute_compiled"
  /\ Finish
  /\ UNCHANGED <<slots, candidate, x64_slots, fast_shared, pools, sessions>>

(* configure_session with resident widths: swap_active_with_resident_slot. *)
(* (Its "width is not resident" is never reached: NoWidthLostAlways, in    *)
(* RecognizerProofs.)                                                      *)
ConfigureResident(w) ==
  /\ pc = "configure" /\ resident_widths_enabled
  /\ resident[w].width = target
  /\ resident' = [resident EXCEPT ![w] = active]
  /\ active' = resident[w]
  /\ pc' = "preprocess"
  /\ UNCHANGED <<target, cached, resident_widths_enabled, candidate, x64_slots,
                 fast_shared, pools, sessions, filled>>

(* activate_cached_session *)
ActivateCached ==
  /\ pc = "configure" /\ ~resident_widths_enabled
  /\ cached.session # Nil /\ cached.width = target
  /\ active' = cached /\ cached' = active
  /\ pc' = "preprocess"
  /\ UNCHANGED <<target, resident, resident_widths_enabled, candidate, x64_slots,
                 fast_shared, pools, sessions, filled>>

(* Mutation: the cached session is replaced only when the new one is there. *)
ReleaseCachedLate ==
  /\ pc = "configure" /\ ~resident_widths_enabled
  /\ cached.session = Nil \/ cached.width # target
  /\ pc' = "build"
  /\ UNCHANGED <<target, slots, candidate, x64_slots, fast_shared, pools, sessions,
                 filled>>

(* release_cached_session, before the new session is built. *)
ReleaseCached ==
  /\ pc = "configure" /\ ~resident_widths_enabled
  /\ cached.session = Nil \/ cached.width # target
  /\ FreeSessions({cached.session})
  /\ plans' = plans \ {cached.plan}
  /\ cached' = Empty
  /\ pc' = "build"
  /\ UNCHANGED <<target, active, resident, resident_widths_enabled, candidate,
                 x64_slots, fast_shared, pools, filled>>

Build(s) ==
  /\ pc = "build" /\ width[s] = 0
  /\ width' = [width EXCEPT ![s] = target]
  /\ candidate' = s
  /\ pc' = "publish"
  /\ UNCHANGED <<target, slots, x64_slots, fast_shared, pools, plans, external,
                 filled>>

BuildFails ==
  /\ pc = "build"
  /\ Finish
  /\ UNCHANGED <<slots, candidate, x64_slots, fast_shared, pools, sessions>>

(* Mutation: the active session is put into the cache before that. *)
CandidateRejectedLate ==
  /\ pc = "publish"
  /\ FreeSessions({candidate})
  /\ candidate' = Nil
  /\ cached' = active /\ active' = Empty
  /\ Finish
  /\ UNCHANGED <<resident, resident_widths_enabled, x64_slots, fast_shared,
                 pools, plans>>

(* The model's output does not suit the dictionary, or no memory is left   *)
(* for the buffers.                                                        *)
CandidateRejected ==
  /\ pc = "publish"
  /\ FreeSessions({candidate})
  /\ candidate' = Nil
  /\ Finish
  /\ UNCHANGED <<slots, x64_slots, fast_shared, pools, plans>>

Publish ==
  /\ pc = "publish"
  /\ cached' = active
  /\ active' = [Empty EXCEPT !.session = candidate, !.width = target]
  /\ external' = [external EXCEPT ![candidate] = Borrow(intra_pool, intra_workers)]
  /\ candidate' = Nil
  /\ pc' = "preprocess"
  /\ UNCHANGED <<target, resident, resident_widths_enabled, x64_slots, fast_shared,
                 pools, width, plans, filled>>

Preprocess ==
  /\ pc = "preprocess"
  /\ filled' = active.session
  /\ pc' = "plan"
  /\ UNCHANGED <<target, slots, candidate, x64_slots, fast_shared, pools, sessions>>

PreprocessFails ==
  /\ pc = "preprocess"
  /\ Finish
  /\ UNCHANGED <<slots, candidate, x64_slots, fast_shared, pools, sessions>>

(* recognizer_try_medium_fast_plan: no plan, the plan of this session, a   *)
(* new one, or a failure that is remembered with the session.              *)
NoPlan ==
  /\ pc = "plan" /\ (~fast_shared \/ active.disabled)
  /\ pc' = "execute"
  /\ UNCHANGED <<target, slots, candidate, x64_slots, fast_shared, pools,
                 sessions, filled>>

UsePlan ==
  /\ pc = "plan" /\ fast_shared /\ ~active.disabled
  /\ IF active.plan # Nil THEN UNCHANGED <<active, plans>>
     ELSE /\ active' = [active EXCEPT !.plan = active.session]
          /\ plans' = plans \cup {active.session}
  /\ pc' = "execute_plan"
  /\ UNCHANGED <<target, cached, resident, resident_widths_enabled, candidate,
                 x64_slots, fast_shared, pools, width, external, filled>>

PlanFails ==
  /\ pc = "plan" /\ fast_shared /\ ~active.disabled /\ active.plan = Nil
  /\ active' = [active EXCEPT !.disabled = TRUE]
  /\ pc' = "execute"
  /\ UNCHANGED <<target, cached, resident, resident_widths_enabled, candidate,
                 x64_slots, fast_shared, pools, sessions, filled>>

(* A plan that fails is freed and never tried again on this session; the   *)
(* session itself then runs on the same input.                             *)
PlanRunFails ==
  /\ pc = "execute_plan"
  /\ plans' = plans \ {active.plan}
  /\ active' = [active EXCEPT !.plan = Nil, !.disabled = TRUE]
  /\ pc' = "execute"
  /\ UNCHANGED <<target, cached, resident, resident_widths_enabled, candidate,
                 x64_slots, fast_shared, pools, width, external, filled>>

(* The graph ran, well or not, and the classes were decoded. *)
Execute ==
  /\ pc \in {"execute", "execute_plan"}
  /\ Finish
  /\ UNCHANGED <<slots, candidate, x64_slots, fast_shared, pools, sessions>>

-----------------------------------------------------------------------------
Configure ==
  \/ \E w \in Widths : ConfigureResident(w)
  \/ ActivateCached \/ ReleaseCached
  \/ \E s \in Sessions : Build(s)
  \/ BuildFails \/ CandidateRejected \/ Publish

Recognize ==
  \/ CompiledPreprocess \/ CompiledRejects \/ ExecuteCompiled
  \/ Configure
  \/ Preprocess \/ PreprocessFails
  \/ NoPlan \/ UsePlan \/ PlanFails \/ PlanRunFails \/ Execute

Enable ==
  \/ \E w \in Widths, s \in Sessions : EnableSlot(w, s)
  \/ EnableFails \/ EnableDone

Next ==
  \/ Create \/ Clone \/ AttachClone \/ Free \/ SetThreads
  \/ EnableBegin \/ Enable
  \/ \E w \in Widths : Start(w)
  \/ Recognize

Spec == Init /\ [][Next]_vars

-----------------------------------------------------------------------------
Slot ==
  [session : Sessions \cup {Nil}, width : Widths \cup {0},
   plan : Sessions \cup {Nil}, disabled : BOOLEAN]
Attachment == {Detached} \cup [pool : Pools, workers : 2 .. MaxWorkers]

TypeOK ==
  /\ pc \in {"absent", "clone", "idle", "enable", "compiled", "execute_compiled",
             "configure", "build", "publish", "preprocess", "plan", "execute",
             "execute_plan"}
  /\ target \in Widths \cup {Nil}
  /\ active \in Slot /\ cached \in Slot /\ resident \in [Widths -> Slot]
  /\ resident_widths_enabled \in BOOLEAN /\ fast_shared \in BOOLEAN
  /\ candidate \in Sessions \cup {Nil}
  /\ x64_slots \in [Widths -> Attachment \cup {Nil}]
  /\ intra_pool \in Pools \cup {Nil} /\ intra_workers \in 0 .. MaxWorkers
  /\ width \in [Sessions -> Widths \cup {0}] /\ plans \subseteq Sessions
  /\ external \in [Sessions -> Attachment]
  /\ capacity \in [Pools -> 0 .. MaxWorkers]
  /\ filled \in Sessions \cup Widths \cup {Nil}

(* The places that own a session: the slots and the call that builds one. *)
Places == {"active", "cached", "candidate"} \X {0} \cup {"resident"} \X Widths
Contents(p) ==
  CASE p[1] = "active" -> active
    [] p[1] = "cached" -> cached
    [] p[1] = "candidate" -> [Empty EXCEPT !.session = candidate]
    [] OTHER -> resident[p[2]]

(* A session is freed once and not before its last use: as long as it is   *)
(* live exactly one place owns it, and no place names one that is freed.   *)
OneOwner ==
  /\ \A p \in Places : Contents(p).session # Nil => Contents(p).session \in Live
  /\ \A s \in Live : \E p \in Places :
       /\ Contents(p).session = s
       /\ \A q \in Places \ {p} : Contents(q).session # s

(* Every session and every instance fans out over the handle's own pool,   *)
(* to the number of workers asked for last, and the pool has that many.    *)
(* No pool but that one is alive.                                          *)
OnePool ==
  /\ \A s \in Live \ {candidate} : external[s] = Borrow(intra_pool, intra_workers)
  /\ \A w \in Widths : Compiled(w) => x64_slots[w] = Borrow(intra_pool, intra_workers)
  /\ intra_workers <= PoolSize
  /\ \A p \in Pools : capacity[p] # 0 <=> p = intra_pool

(* "Keep at most two concrete widths": without resident widths there are   *)
(* never more sessions than the active one and a cached or a new one, and  *)
(* they have different widths.                                             *)
AtMostTwoWidths ==
  ~resident_widths_enabled /\ pc # "enable" =>
    /\ Cardinality(Live) <= 2
    /\ \A s, t \in Live : width[s] = width[t] => s = t

(* The line is read from the buffer it was written to, by the graph of its *)
(* width.                                                                  *)
ExecutesItsLine ==
  /\ pc = "execute_compiled" => Compiled(target) /\ filled = target
  /\ pc \in {"execute", "execute_plan"} =>
       filled = active.session /\ width[active.session] = target
  /\ pc = "execute_plan" => active.plan = active.session

(* "A failed adaptive switch leaves the old session usable": whatever call *)
(* ends before a switch is complete leaves the active slot as it was.      *)
FailedSwitchKeepsActive ==
  [][(pc \in {"configure", "build", "publish"} /\ pc' = "idle") =>
       (active' = active /\ active.session \in (Live)')]_vars
=============================================================================
