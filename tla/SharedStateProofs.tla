-------------------------- MODULE SharedStateProofs --------------------------
(***************************************************************************)
(* Four places where threads share state, each for every value of its      *)
(* constants.  They have nothing in common but that.                       *)
(*                                                                         *)
(* The thread pool, for any number of workers and of requests: it is well  *)
(* typed, keeps the invariant its barrier rests on, never runs a callback  *)
(* whose request has returned, and implements ParallelFor.                 *)
(*                                                                         *)
(* The packed weights, for any finite set of sessions, any blocks and any  *)
(* width of the reference count: the count of a block is the number of     *)
(* references to it, no session reads a freed block, every session in use  *)
(* has packed weights, and no block outlives its last session.             *)
(*                                                                         *)
(* The model cache of the Android engine, for any releases, models and     *)
(* threads, and any number of kills: an engine never reads a model that is *)
(* missing or short, and creating one fails only where the system refused  *)
(* a file operation.                                                       *)
(*                                                                         *)
(* The engine of the Web SDK, which a page and its Worker share, for any   *)
(* number of calls, sizes and orders of pictures: a call resolves with the *)
(* lines of its own picture, pictures fit the buffers they are copied      *)
(* into, and destroy() is final.                                           *)
(***************************************************************************)
EXTENDS ThreadPool, PreparedConstants, ModelCache, WebEngine,
        FiniteSetTheorems, SequenceTheorems, TLAPS

-----------------------------------------------------------------------------
(* The thread pool.                                                        *)

LEMMA AtMostBound ==
  ASSUME NEW n \in Nat, NEW b \in Nat
  PROVE  AtMost(n, b) \in Nat /\ AtMost(n, b) <= n /\ AtMost(n, b) <= b
         /\ (AtMost(n, b) = n \/ AtMost(n, b) = b)
BY DEF AtMost

LEMMA WorkersFinite ==
  /\ IsFiniteSet(Workers)
  /\ Cardinality(Workers) = MaxWorkers - 1
  /\ \A S \in SUBSET Workers : /\ IsFiniteSet(S)
                               /\ Cardinality(S) \in 0 .. MaxWorkers - 1
<1>1. IsFiniteSet(Workers) /\ Cardinality(Workers) = MaxWorkers - 1
  BY FS_Interval, MaxWorkersAssumption DEF Workers
<1>2. QED
  BY <1>1, FS_Subset, FS_CardinalityType, MaxWorkersAssumption, SMTT(30)

(* A fresh publication makes every active worker but the caller owe. *)
LEMMA PublishedShares ==
  ASSUME NEW m \in 1 .. MaxWorkers
  PROVE  Cardinality({w \in Workers : w < m}) = m - 1
<1>1. {w \in Workers : w < m} = 1 .. m - 1
  BY MaxWorkersAssumption DEF Workers
<1>2. Cardinality(1 .. m - 1) = m - 1
  BY FS_Interval, MaxWorkersAssumption
<1>3. QED
  BY <1>1, <1>2

-----------------------------------------------------------------------------
LEMMA PoolInitially == PoolInit => PoolTypeOK /\ BarrierInv
<1> SUFFICES ASSUME PoolInit PROVE PoolTypeOK /\ BarrierInv
  OBVIOUS
<1> USE MaxWorkersAssumption DEF PoolInit, NoThreads
<1>1. PoolTypeOK
  BY DEF PoolTypeOK, WorkerStates, CallerStates
<1>2. LifeInv
  BY DEF LifeInv, InRun, Workers
<1>3. QuietInv
  BY DEF QuietInv
<1>4. ShareInv
  BY DEF ShareInv, InRun
<1>5. QED
  BY <1>1, <1>2, <1>3, <1>4 DEF BarrierInv

(* Creation and destruction: no request is under way. *)
LEMMA LifeSteps ==
  ASSUME PoolTypeOK, BarrierInv,
         \/ \E n \in 0 .. MaxWorkers + 1 : CreateBegin(n)
         \/ CreateThread \/ CreateThreadFails \/ CreateReturn
         \/ FreeStop \/ FreeJoin \/ FreeDestroy
  PROVE  PoolTypeOK' /\ BarrierInv'
<1> USE MaxWorkersAssumption
    DEF PoolTypeOK, BarrierInv, LifeInv, QuietInv, InRun,
        WorkerStates, CallerStates, pool, threads, history
<1>0. \A w : w \in Workers <=> w \in Nat /\ 1 <= w /\ w < MaxWorkers
  BY DEF Workers
<1>1. ~InRun /\ ~InRun' /\ ShareInv'
  BY DEF ShareInv, CreateBegin, CreateThread, CreateThreadFails, CreateReturn,
         FreeStop, FreeJoin, FreeDestroy
<1>2. ASSUME NEW n \in 0 .. MaxWorkers + 1, CreateBegin(n)
      PROVE  PoolTypeOK' /\ BarrierInv'
  <2>1. AtMost(n, MaxWorkers) \in 2 .. MaxWorkers
    BY <1>2 DEF CreateBegin, AtMost
  <2>2. QED
    BY <1>0, <1>1, <1>2, <2>1 DEF CreateBegin
<1>3. CASE CreateThread
  <2>1. worker_count \in Workers /\ worker_count' = worker_count + 1
    BY <1>0, <1>3 DEF CreateThread
  <2>2. PoolTypeOK'
    BY <1>0, <1>3, <2>1 DEF CreateThread
  <2>3. LifeInv'
    BY <1>0, <1>3, <2>1 DEF CreateThread
  <2>4. QuietInv'
    BY <1>0, <1>1, <1>3, <2>1 DEF CreateThread
  <2>5. QED
    BY <1>1, <2>2, <2>3, <2>4
<1>4. CASE CreateThreadFails
  BY <1>1, <1>4 DEF CreateThreadFails
<1>5. CASE CreateReturn
  BY <1>0, <1>1, <1>5 DEF CreateReturn
<1>6. CASE FreeStop
  <2>1. /\ worker_count' = worker_count /\ generation' = generation + 1
        /\ observed_generation' = observed_generation /\ stopping' = 1
        /\ cpc' = "freeing" /\ cursor' = 1 /\ worker_count >= 2
    BY <1>6 DEF FreeStop
  <2>2. \A w \in Workers :
          wpc'[w] = IF wpc[w] = "waiting" THEN "ready" ELSE wpc[w]
    BY <1>6 DEF FreeStop, WakeAllWorkers
  <2>3. PoolTypeOK'
    BY <1>6 DEF FreeStop, WakeAllWorkers
  <2>4. LifeInv'
    BY <1>0, <2>1, <2>2
  <2>5. QuietInv'
    BY <1>1, <1>6, <2>1, <2>2 DEF FreeStop
  <2>6. QED
    BY <1>1, <2>3, <2>4, <2>5
<1>7. CASE FreeJoin
  BY <1>0, <1>1, <1>7 DEF FreeJoin
<1>8. CASE FreeDestroy
  BY <1>0, <1>1, <1>8 DEF FreeDestroy
<1>9. QED
  BY <1>2, <1>3, <1>4, <1>5, <1>6, <1>7, <1>8

(* Requests that bypass the threads leave them as they are. *)
LEMMA InlineSteps ==
  ASSUME PoolTypeOK, BarrierInv,
         \/ \E n \in 0 .. MaxWorkers + 1 : RunInline(n)
         \/ RunInlineReturn
  PROVE  PoolTypeOK' /\ BarrierInv'
<1> USE MaxWorkersAssumption
    DEF PoolTypeOK, BarrierInv, LifeInv, QuietInv, ShareInv, InRun,
        WorkerStates, CallerStates, pool, threads, history
<1>0. 0 \in Indices
  BY DEF Indices
<1>1. CASE \E n \in 0 .. MaxWorkers + 1 : RunInline(n)
  BY <1>0, <1>1 DEF RunInline, StartRequest
<1>2. CASE RunInlineReturn
  BY <1>0, <1>2 DEF RunInlineReturn
<1>3. QED
  BY <1>1, <1>2

(* Publishing makes each active worker owe one report. *)
LEMMA PublishStep ==
  ASSUME PoolTypeOK, BarrierInv, NEW n \in 0 .. MaxWorkers + 1, RunPublish(n)
  PROVE  PoolTypeOK' /\ BarrierInv'
<1> DEFINE m == AtMost(n, worker_count)
<1> USE MaxWorkersAssumption DEF CallerStates
<1>0. \A w : w \in Workers <=> w \in Nat /\ 1 <= w /\ w < MaxWorkers
  BY DEF Workers
<1>i. \A i : i \in Indices <=> i \in Nat /\ i < MaxWorkers
  BY DEF Indices
<1>1. /\ m \in 2 .. MaxWorkers /\ m <= worker_count
      /\ worker_count \in 2 .. MaxWorkers
      /\ ~InRun /\ stopping = 0
  BY DEF RunPublish, PoolTypeOK, BarrierInv, LifeInv, AtMost, InRun
<1>2. /\ worker_count' = worker_count /\ active_worker_count' = m
      /\ pending_worker_count' = m - 1 /\ generation' = generation + 1
      /\ stopping' = stopping /\ context' = request' /\ cursor' = cursor
      /\ observed_generation' = observed_generation /\ wcontext' = wcontext
      /\ request' = request + 1 /\ width' = m /\ cpc' = "calling"
      /\ calls' = [i \in Indices |-> IF i = 0 THEN 1 ELSE 0]
      /\ returns' = [i \in Indices |-> 0]
      /\ wpc' = [w \in Workers |->
                   IF wpc[w] = "waiting" THEN "ready" ELSE wpc[w]]
  BY DEF RunPublish, StartRequest, WakeAllWorkers
<1> HIDE DEF m
<1>3. PoolTypeOK'
  BY <1>1, <1>2 DEF PoolTypeOK, WorkerStates
<1>4. LifeInv'
  BY <1>0, <1>1, <1>2 DEF BarrierInv, LifeInv, PoolTypeOK, InRun
<1>5. QuietInv'
  BY <1>2 DEF QuietInv, InRun
<1>6. \A w \in Workers : w < m => observed_generation[w] # generation'
  BY <1>0, <1>1, <1>2 DEF BarrierInv, LifeInv, PoolTypeOK
<1>7. Owing' = {w \in Workers : w < m}
  BY <1>2, <1>6 DEF Owing
<1>8. pending_worker_count' = Cardinality(Owing')
  BY <1>1, <1>2, <1>7, PublishedShares
<1>9. \A w \in Workers : wpc'[w] \notin {"running", "reporting"}
  BY <1>1, <1>2 DEF BarrierInv, QuietInv
<1>10. ShareInv'
  BY <1>0, <1>i, <1>1, <1>2, <1>6, <1>8, <1>9 DEF ShareInv
<1>11. QED
  BY <1>3, <1>4, <1>5, <1>10 DEF BarrierInv

(* What a finished share count says: everybody has called and returned. *)
LEMMA NothingOwed ==
  ASSUME PoolTypeOK, BarrierInv, InRun, pending_worker_count = 0
  PROVE  \A w \in Workers :
           /\ wpc[w] \notin {"running", "reporting"}
           /\ w < active_worker_count =>
                /\ observed_generation[w] = generation
                /\ calls[w] = 1 /\ returns[w] = 1
<1>1. Owing = {}
  BY WorkersFinite, FS_EmptySet DEF BarrierInv, ShareInv, Owing
<1>2. QED
  BY <1>1 DEF Owing, BarrierInv, ShareInv

LEMMA CallerSteps ==
  ASSUME PoolTypeOK, BarrierInv,
         RunCallerCallback \/ RunReturn \/ RunWait \/ RunSpuriousWake
  PROVE  PoolTypeOK' /\ BarrierInv'
<1> USE DEF InRun, pool, threads, history
<1>0. /\ 0 \in Indices /\ \A w \in Workers : w \in Indices /\ w # 0
      /\ cpc \in {"calling", "joining", "blocked"}
  BY MaxWorkersAssumption
     DEF Indices, Workers, RunCallerCallback, RunReturn, RunWait, RunSpuriousWake
<1>1. /\ UNCHANGED <<pool, threads, cursor, request, calls>>
      /\ Owing' = Owing /\ PoolTypeOK'
  BY <1>0, MaxWorkersAssumption
     DEF PoolTypeOK, CallerStates, Owing, RunCallerCallback, RunReturn, RunWait,
         RunSpuriousWake
<1>2. LifeInv'
  BY <1>0, <1>1
     DEF BarrierInv, LifeInv, RunCallerCallback, RunReturn, RunWait,
         RunSpuriousWake
<1>3. CASE RunReturn
  BY <1>0, <1>1, <1>2, <1>3, NothingOwed
     DEF RunReturn, BarrierInv, QuietInv, ShareInv
<1>4. CASE RunCallerCallback
  BY <1>0, <1>1, <1>2, <1>4
     DEF PoolTypeOK, RunCallerCallback, BarrierInv, QuietInv, ShareInv
<1>5. CASE RunWait \/ RunSpuriousWake
  BY <1>0, <1>1, <1>2, <1>5
     DEF RunWait, RunSpuriousWake, BarrierInv, QuietInv, ShareInv
<1>6. QED
  BY <1>3, <1>4, <1>5

-----------------------------------------------------------------------------
(* A worker that only waits, wakes or exits moves no share. *)
LEMMA WorkerIdleSteps ==
  ASSUME PoolTypeOK, BarrierInv, NEW w \in Workers,
         WorkerWait(w) \/ WorkerSpuriousWake(w) \/ WorkerExit(w)
  PROVE  PoolTypeOK' /\ BarrierInv'
<1> USE DEF InRun, pool, history
<1>1. /\ UNCHANGED <<pool, observed_generation, wcontext, cpc, cursor, history>>
      /\ wpc[w] \in {"ready", "waiting"}
      /\ \E s \in {"ready", "waiting", "exited"} :
           /\ wpc' = [wpc EXCEPT ![w] = s]
           /\ s = "exited" => stopping = 1
  BY DEF WorkerWait, WorkerSpuriousWake, WorkerExit, PoolTypeOK
<1>2. PoolTypeOK'
  BY <1>1 DEF PoolTypeOK, WorkerStates
<1>3. LifeInv'
  BY <1>1 DEF BarrierInv, LifeInv, PoolTypeOK
<1>4. QuietInv'
  BY <1>1 DEF BarrierInv, QuietInv, PoolTypeOK
<1>5. Owing' = Owing
  BY <1>1 DEF Owing, PoolTypeOK
<1>6. ShareInv'
  BY <1>1, <1>5 DEF BarrierInv, ShareInv, PoolTypeOK
<1>7. QED
  BY <1>2, <1>3, <1>4, <1>6 DEF BarrierInv

LEMMA TakeStep ==
  ASSUME PoolTypeOK, BarrierInv, NEW w \in Workers, WorkerTake(w)
  PROVE  /\ PoolTypeOK' /\ BarrierInv'
         /\ w < active_worker_count => InRun /\ calls[w] = 0
<1> USE DEF InRun, pool, history
<1>0. \A v \in Workers : v \in Nat /\ 1 <= v /\ v < MaxWorkers /\ v \in Indices
  BY MaxWorkersAssumption DEF Workers, Indices
<1>1. w < worker_count
  BY <1>0 DEF WorkerTake, BarrierInv, LifeInv, PoolTypeOK
<1>2. w < active_worker_count => InRun /\ calls[w] = 0 /\ w \in Owing
  BY <1>0, <1>1 DEF WorkerTake, BarrierInv, QuietInv, ShareInv, Owing
<1>3. PoolTypeOK'
  BY <1>0 DEF WorkerTake, PoolTypeOK, WorkerStates
<1>4. LifeInv'
  BY <1>0, <1>1 DEF WorkerTake, PoolTypeOK, BarrierInv, LifeInv
<1>5. QuietInv'
  BY <1>0, <1>1, <1>2 DEF WorkerTake, PoolTypeOK, BarrierInv, QuietInv
<1>6. Owing' = Owing
  BY <1>0, <1>2 DEF WorkerTake, PoolTypeOK, Owing
<1>7. ShareInv'
  <2>1. SUFFICES ASSUME InRun' PROVE ShareInv'
    BY DEF ShareInv
  <2>2. /\ UNCHANGED <<pool, cpc, request, width, returns>>
        /\ generation # observed_generation[w] /\ wpc[w] = "ready"
        /\ observed_generation' =
             [observed_generation EXCEPT ![w] = generation]
        /\ wcontext' = [wcontext EXCEPT ![w] = context]
    BY DEF WorkerTake
  <2>3. CASE w >= active_worker_count /\ UNCHANGED <<wpc, calls>>
    BY <1>0, <1>6, <2>1, <2>2, <2>3 DEF PoolTypeOK, BarrierInv, ShareInv
  <2>4. CASE /\ w < active_worker_count
             /\ wpc' = [wpc EXCEPT ![w] = "running"]
             /\ calls' = [calls EXCEPT ![w] = @ + 1]
    BY <1>0, <1>2, <1>6, <2>1, <2>2, <2>4 DEF PoolTypeOK, BarrierInv, ShareInv
  <2>5. QED
    BY <2>3, <2>4 DEF WorkerTake
<1>8. QED
  BY <1>2, <1>3, <1>4, <1>5, <1>7 DEF BarrierInv

LEMMA CallbackReturnsStep ==
  ASSUME PoolTypeOK, BarrierInv, NEW w \in Workers, WorkerCallbackReturns(w)
  PROVE  /\ PoolTypeOK' /\ BarrierInv'
         /\ InRun /\ w < width /\ calls[w] = 1 /\ returns[w] = 0
<1> USE DEF InRun, pool, history
<1>0. \A v \in Workers : v \in Nat /\ 1 <= v /\ v < MaxWorkers /\ v \in Indices
  BY MaxWorkersAssumption DEF Workers, Indices
<1>1. InRun /\ w < width /\ calls[w] = 1 /\ returns[w] = 0
  BY <1>0 DEF WorkerCallbackReturns, BarrierInv, QuietInv, ShareInv
<1>2. PoolTypeOK'
  BY <1>0 DEF WorkerCallbackReturns, PoolTypeOK, WorkerStates
<1>3. LifeInv'
  BY DEF WorkerCallbackReturns, PoolTypeOK, BarrierInv, LifeInv
<1>4. QuietInv'
  BY <1>1 DEF WorkerCallbackReturns, QuietInv
<1>5. Owing' = Owing
  BY DEF WorkerCallbackReturns, PoolTypeOK, Owing
<1>6. ShareInv'
  BY <1>0, <1>1, <1>5 DEF WorkerCallbackReturns, PoolTypeOK, BarrierInv, ShareInv
<1>7. QED
  BY <1>1, <1>2, <1>3, <1>4, <1>6 DEF BarrierInv

(* A report removes exactly its worker from the set the counter counts. *)
LEMMA ReportStep ==
  ASSUME PoolTypeOK, BarrierInv, NEW w \in Workers, WorkerReport(w)
  PROVE  PoolTypeOK' /\ BarrierInv'
<1> USE DEF history
<1>0. \A v \in Workers : v \in Nat /\ 1 <= v /\ v < MaxWorkers /\ v \in Indices
  BY MaxWorkersAssumption DEF Workers, Indices
<1>1. InRun /\ w \in Owing /\ pending_worker_count = Cardinality(Owing)
  BY DEF WorkerReport, BarrierInv, QuietInv, ShareInv, Owing
<1>2. IsFiniteSet(Owing)
  BY WorkersFinite DEF Owing
<1>3. Owing' = Owing \ {w}
  BY <1>1 DEF WorkerReport, PoolTypeOK, BarrierInv, ShareInv, Owing
<1>4. Cardinality(Owing') = Cardinality(Owing) - 1
  BY <1>1, <1>2, <1>3, FS_RemoveElement
<1>5. pending_worker_count' = Cardinality(Owing') /\ pending_worker_count # 0
  BY <1>1, <1>2, <1>4, FS_EmptySet DEF WorkerReport
<1>6. InRun' /\ (cpc' = "calling" <=> cpc = "calling")
  BY <1>1 DEF WorkerReport, InRun
<1>7. PoolTypeOK'
  <2>1. pending_worker_count' \in 0 .. MaxWorkers
    BY <1>5, MaxWorkersAssumption DEF WorkerReport, PoolTypeOK
  <2>2. cpc' \in CallerStates
    BY DEF WorkerReport, PoolTypeOK, CallerStates
  <2>3. QED
    BY <2>1, <2>2 DEF WorkerReport, PoolTypeOK, WorkerStates
<1>8. LifeInv'
  BY <1>1, <1>6 DEF WorkerReport, PoolTypeOK, BarrierInv, LifeInv, InRun
<1>9. ShareInv'
  BY <1>0, <1>1, <1>5, <1>6 DEF WorkerReport, PoolTypeOK, BarrierInv, ShareInv
<1>10. QED
  BY <1>6, <1>7, <1>8, <1>9 DEF BarrierInv, QuietInv

-----------------------------------------------------------------------------
LEMMA PoolStep == PoolTypeOK /\ BarrierInv /\ [PoolNext]_poolVars => PoolTypeOK' /\ BarrierInv'
<1> SUFFICES ASSUME PoolTypeOK, BarrierInv, [PoolNext]_poolVars
             PROVE  PoolTypeOK' /\ BarrierInv'
  OBVIOUS
<1>1. CASE UNCHANGED poolVars
  BY <1>1
     DEF poolVars, pool, threads, history, PoolTypeOK, BarrierInv, LifeInv, QuietInv,
         ShareInv, InRun, Owing
<1>2. CASE Call
  BY <1>2, LifeSteps, InlineSteps, PublishStep DEF Call
<1>3. CASE CallerStep \/ RunSpuriousWake
  BY <1>3, LifeSteps, InlineSteps, CallerSteps DEF CallerStep
<1>4. ASSUME NEW w \in Workers, Worker(w)
      PROVE  PoolTypeOK' /\ BarrierInv'
  BY <1>4, WorkerIdleSteps, TakeStep, CallbackReturnsStep, ReportStep DEF Worker
<1>5. QED
  BY <1>1, <1>2, <1>3, <1>4 DEF PoolNext

(* The pool's fields stay in their ranges, and the counter the caller      *)
(* waits for is the number of workers that still owe their share.          *)
THEOREM PoolInvariant == PoolSafetySpec => [](PoolTypeOK /\ BarrierInv)
<1>1. PoolInit => PoolTypeOK /\ BarrierInv
  BY PoolInitially
<1>2. PoolTypeOK /\ BarrierInv /\ [PoolNext]_poolVars => (PoolTypeOK /\ BarrierInv)'
  BY PoolStep
<1>3. QED
  BY <1>1, <1>2, PTL DEF PoolSafetySpec

(* No pool thread is ever inside a callback whose run has returned.        *)
THEOREM ContextOutlivesCallbacks == PoolSafetySpec => []ContextAlive
<1>1. PoolTypeOK /\ BarrierInv => ContextAlive
  BY DEF BarrierInv, QuietInv, ShareInv, ContextAlive, InRun
<1>2. QED
  BY <1>1, PoolInvariant, PTL

(* Freeing the pool: the step that makes it NULL again finds every thread  *)
(* it ever started already gone.                                           *)
THEOREM NoThreadOutlivesPool == PoolSafetySpec => DestroyedAfterLastThread
<1>1. PoolTypeOK /\ BarrierInv /\ [PoolNext]_poolVars =>
        [ worker_count # 0 /\ worker_count' = 0 =>
             \A w \in Workers : wpc[w] \in {"absent", "exited"} ]_poolVars
  <2> SUFFICES ASSUME PoolTypeOK, BarrierInv, PoolNext,
                      worker_count # 0, worker_count' = 0,
                      NEW w \in Workers
               PROVE  wpc[w] \in {"absent", "exited"}
    OBVIOUS
  <2>1. FreeDestroy \/ (CreateReturn /\ worker_count < 2)
    BY DEF PoolNext, Call, CreateBegin, RunInline, RunPublish, FreeStop, CallerStep,
           CreateThread, CreateThreadFails, CreateReturn, RunInlineReturn,
           RunCallerCallback, RunReturn, RunWait, RunSpuriousWake, FreeJoin,
           Worker, WorkerWait, WorkerSpuriousWake, WorkerExit, WorkerTake,
           WorkerCallbackReturns, WorkerReport, pool, PoolTypeOK
  <2>2. w < worker_count \/ w >= worker_count
    BY MaxWorkersAssumption DEF PoolTypeOK, Workers
  <2>3. QED
    BY <2>1, <2>2, MaxWorkersAssumption
       DEF FreeDestroy, CreateReturn, PoolTypeOK, BarrierInv, LifeInv, Workers
<1>2. QED
  BY <1>1, PoolInvariant, PTL DEF PoolSafetySpec, DestroyedAfterLastThread

-----------------------------------------------------------------------------
(* The refinement: every pool step is a step of the parallel for, or none. *)

LEMMA RefineInit == PoolInit => PF!Init
BY DEF PoolInit, PF!Init

LEMMA RefineReturn ==
  ASSUME PoolTypeOK, BarrierInv, RunReturn
  PROVE  PF!Return
<1>1. \A i \in Indices : i = 0 \/ i \in Workers
  BY MaxWorkersAssumption DEF Indices, Workers
<1>2. InRun /\ width # 0 /\ width = active_worker_count /\ returns[0] = 1
  BY DEF RunReturn, BarrierInv, ShareInv, InRun, PoolTypeOK
<1>3. PF!AllReturned(width)
  BY <1>1, <1>2, NothingOwed DEF RunReturn, PF!AllReturned
<1>4. QED
  BY <1>2, <1>3 DEF RunReturn, PF!Return

LEMMA RefineStep ==
  PoolTypeOK /\ BarrierInv /\ [PoolNext]_poolVars => [PF!Next]_(PF!vars)
<1> SUFFICES ASSUME PoolTypeOK, BarrierInv, [PoolNext]_poolVars
             PROVE  PF!Next \/ UNCHANGED <<width, calls, returns>>
  BY DEF PF!vars
<1>0. /\ 0 \in Indices /\ \A w \in Workers : w \in Indices
      /\ \A m \in 1 .. MaxWorkers : m \in {i + 1 : i \in Indices}
  <2>1. \A m \in 1 .. MaxWorkers : m - 1 \in Indices /\ m = (m - 1) + 1
    BY MaxWorkersAssumption DEF Indices
  <2>2. QED
    BY <2>1, MaxWorkersAssumption DEF Indices, Workers
<1>1. ASSUME NEW n \in 0 .. MaxWorkers + 1, RunInline(n)
      PROVE  PF!Next
  <2>1. PF!Start(1) /\ 1 \in 1 .. MaxWorkers
    BY <1>1, MaxWorkersAssumption
       DEF RunInline, StartRequest, PF!Start, BarrierInv, QuietInv, InRun
  <2>2. QED
    BY <1>0, <2>1 DEF PF!Next
<1>2. ASSUME NEW n \in 0 .. MaxWorkers + 1, RunPublish(n)
      PROVE  PF!Next
  <2>1. AtMost(n, worker_count) \in 1 .. MaxWorkers
    BY <1>2, MaxWorkersAssumption DEF RunPublish, AtMost, PoolTypeOK
  <2>2. PF!Start(AtMost(n, worker_count))
    BY <1>2, <2>1
       DEF RunPublish, StartRequest, PF!Start, BarrierInv, QuietInv, InRun
  <2>3. QED
    BY <1>0, <2>1, <2>2 DEF PF!Next
<1>3. CASE RunReturn
  BY <1>3, RefineReturn DEF PF!Next
<1>4. CASE RunInlineReturn
  <2>1. returns[0] = 0 /\ calls[0] = 1 /\ width = 1
    BY <1>4 DEF RunInlineReturn, BarrierInv, QuietInv, InRun
  <2>2. returns' = [returns EXCEPT ![0] = 1]
    BY <1>4, <2>1 DEF RunInlineReturn
  <2>3. PF!ReturnInline
    BY <1>4, <2>1, <2>2 DEF RunInlineReturn, PF!ReturnInline
  <2>4. QED
    BY <2>3 DEF PF!Next
<1>5. CASE RunCallerCallback
  <2>0. returns[0] = 0 /\ calls[0] = 1 /\ 0 < width
    BY <1>5 DEF RunCallerCallback, BarrierInv, ShareInv, InRun, PoolTypeOK
  <2>a. returns' = [returns EXCEPT ![0] = 1]
    BY <1>5, <2>0 DEF RunCallerCallback
  <2>1. PF!End(0)
    BY <1>5, <2>0, <2>a DEF RunCallerCallback, PF!End
  <2>2. QED
    BY <1>0, <2>1 DEF PF!Next
<1>6. ASSUME NEW w \in Workers, WorkerTake(w)
      PROVE  PF!Next \/ UNCHANGED <<width, calls, returns>>
  <2>1. CASE w < active_worker_count
    <3>1. calls[w] = 0 /\ w < width
      BY <1>6, <2>1, TakeStep DEF BarrierInv, ShareInv
    <3>2. calls' = [calls EXCEPT ![w] = calls[w] + 1] /\ UNCHANGED <<width, returns>>
      BY <1>6, <2>1 DEF WorkerTake, PoolTypeOK, Workers
    <3>3. PF!Begin(w)
      BY <3>1, <3>2 DEF PF!Begin
    <3>4. QED
      BY <1>0, <3>3 DEF PF!Next
  <2>2. CASE ~(w < active_worker_count)
    BY <1>6, <2>2 DEF WorkerTake
  <2>3. QED
    BY <2>1, <2>2
<1>7. ASSUME NEW w \in Workers, WorkerCallbackReturns(w)
      PROVE  PF!Next
  <2>1. w < width /\ calls[w] = 1 /\ returns[w] = 0
    BY <1>7, CallbackReturnsStep
  <2>2. returns' = [returns EXCEPT ![w] = returns[w] + 1] /\ UNCHANGED <<width, calls>>
    BY <1>7 DEF WorkerCallbackReturns
  <2>3. PF!End(w)
    BY <2>1, <2>2 DEF PF!End
  <2>4. QED
    BY <1>0, <2>3 DEF PF!Next
<1>8. QED
  BY <1>1, <1>2, <1>3, <1>4, <1>5, <1>6, <1>7
     DEF PoolNext, poolVars, history, Call, CreateBegin, FreeStop, CallerStep,
         CreateThread, CreateThreadFails, CreateReturn, RunWait, RunSpuriousWake,
         FreeJoin, FreeDestroy, Worker, WorkerWait, WorkerSpuriousWake,
         WorkerExit, WorkerReport

(* The thread pool implements the parallel for: each index of a request is *)
(* called exactly once, and the run returns only after the last one.       *)
THEOREM PoolImplementsParallelFor == PoolSafetySpec => ImplementsParallelFor
<1>1. PoolInit => PF!Init
  BY RefineInit
<1>2. PoolTypeOK /\ BarrierInv /\ [PoolNext]_poolVars => [PF!Next]_(PF!vars)
  BY RefineStep
<1>3. QED
  BY <1>1, <1>2, PoolInvariant, PTL
     DEF PoolSafetySpec, ImplementsParallelFor, PF!Spec

-----------------------------------------------------------------------------
(* The packed weights that sessions share.                                 *)

Preimage(f, b) == {t \in Sessions : f[t] = b}
SameBut(f, g, s) == \A t \in Sessions : t # s => g[t] = f[t]

(* Changing one value of a function moves one argument between preimages. *)
LEMMA Preimages ==
  ASSUME NEW f, NEW g, NEW s \in Sessions, SameBut(f, g, s), NEW b
  PROVE  /\ Cardinality(Preimage(f, b)) \in Nat
         /\ Cardinality(Preimage(g, b)) \in Nat
         /\ f[s] = b /\ g[s] = b =>
              Cardinality(Preimage(g, b)) = Cardinality(Preimage(f, b))
         /\ f[s] = b /\ g[s] # b =>
              Cardinality(Preimage(g, b)) = Cardinality(Preimage(f, b)) - 1
         /\ f[s] # b /\ g[s] = b =>
              Cardinality(Preimage(g, b)) = Cardinality(Preimage(f, b)) + 1
         /\ f[s] # b /\ g[s] # b =>
              Cardinality(Preimage(g, b)) = Cardinality(Preimage(f, b))
<1> DEFINE P == Preimage(f, b)
           Q == Preimage(g, b)
<1>1. IsFiniteSet(P) /\ IsFiniteSet(Q)
  BY FiniteAssumption, FS_Subset DEF Preimage
<1>2. Cardinality(P) \in Nat /\ Cardinality(Q) \in Nat
  BY <1>1, FS_CardinalityType
<1>3. ASSUME f[s] = b <=> g[s] = b PROVE Q = P
  BY <1>3 DEF Preimage, SameBut
<1>4. ASSUME f[s] = b, g[s] # b PROVE Q = P \ {s} /\ s \in P
  BY <1>4 DEF Preimage, SameBut
<1>5. ASSUME f[s] # b, g[s] = b PROVE Q = P \cup {s} /\ s \notin P
  BY <1>5 DEF Preimage, SameBut
<1>6. s \in P => Cardinality(P \ {s}) = Cardinality(P) - 1
  BY <1>1, FS_RemoveElement
<1>7. s \notin P => Cardinality(P \cup {s}) = Cardinality(P) + 1
  BY <1>1, FS_AddElement
<1> HIDE DEF P, Q
<1>8. QED
  BY <1>2, <1>3, <1>4, <1>5, <1>6, <1>7 DEF P, Q

LEMMA NoSessions ==
  ASSUME NEW b \in Blocks
  PROVE  Cardinality({s \in Sessions : [t \in Sessions |-> Nil][s] = b}) = 0
<1>1. {s \in Sessions : [t \in Sessions |-> Nil][s] = b} = {}
  BY NilAssumption
<1>2. QED
  BY <1>1, FS_EmptySet

(* A block that somebody references has a count of at least one. *)
LEMMA Referenced ==
  ASSUME SharedTypeOK, CountIsReferences, NEW s \in Sessions, NEW b \in Blocks
  PROVE  /\ Cardinality(Holders(b)) \in Nat /\ Cardinality(Gainers(b)) \in Nat
         /\ holds[s] = b => Cardinality(Holders(b)) > 0 /\ ref_count[b] > 0
         /\ gained[s] = b => Cardinality(Gainers(b)) > 0 /\ ref_count[b] > 0
<1>1. IsFiniteSet(Holders(b)) /\ IsFiniteSet(Gainers(b))
  BY FiniteAssumption, FS_Subset DEF Holders, Gainers
<1>2. Cardinality(Holders(b)) \in Nat /\ Cardinality(Gainers(b)) \in Nat
  BY <1>1, FS_CardinalityType
<1>3. holds[s] = b => Cardinality(Holders(b)) # 0
  BY <1>1, FS_EmptySet DEF Holders
<1>4. gained[s] = b => Cardinality(Gainers(b)) # 0
  BY <1>1, FS_EmptySet DEF Gainers
<1>5. ref_count[b] = Cardinality(Holders(b)) + Cardinality(Gainers(b))
  BY DEF CountIsReferences
<1>6. QED
  BY <1>2, <1>3, <1>4, <1>5

(* A block nobody references has a count of zero. *)
LEMMA Unreferenced ==
  ASSUME SharedTypeOK, CountIsReferences, NEW b \in Blocks, ref_count[b] = 0
  PROVE  \A s \in Sessions : holds[s] # b /\ gained[s] # b
BY Referenced

(* The only reference to a block is the one counted by a count of one. *)
LEMMA LastReference ==
  ASSUME SharedTypeOK, CountIsReferences, NEW s \in Sessions, NEW b \in Blocks,
         holds[s] = b, ref_count[b] = 1
  PROVE  \A t \in Sessions : gained[t] # b /\ (t # s => holds[t] # b)
<1>1. IsFiniteSet(Holders(b)) /\ IsFiniteSet(Gainers(b))
  BY FiniteAssumption, FS_Subset DEF Holders, Gainers
<1>2. Cardinality(Holders(b)) \in Nat /\ Cardinality(Gainers(b)) \in Nat
  BY <1>1, FS_CardinalityType
<1>3. s \in Holders(b)
  BY DEF Holders
<1>4. Cardinality(Holders(b)) > 0
  BY Referenced
<1>5. Cardinality(Holders(b)) = 1 /\ Cardinality(Gainers(b)) = 0
  BY <1>2, <1>4 DEF CountIsReferences
<1>6. Gainers(b) = {}
  BY <1>1, <1>5, FS_EmptySet
<1>7. Cardinality(Holders(b) \ {s}) = 0
  <2>1. Cardinality(Holders(b) \ {s}) = Cardinality(Holders(b)) - 1
    BY <1>1, <1>3, FS_RemoveElement
  <2>2. QED
    BY <2>1, <1>5
<1>8. Holders(b) \ {s} = {}
  BY <1>1, <1>7, FS_Subset, FS_EmptySet
<1>9. QED
  BY <1>6, <1>8 DEF Holders, Gainers

LEMMA SharedInitially == SharedInit => SharedInv
<1> SUFFICES ASSUME SharedInit PROVE SharedInv
  OBVIOUS
<1>1. SharedTypeOK /\ CallInv /\ BlockInv /\ NothingDangles
  BY NilAssumption, MaxRefsAssumption
  DEF SharedInit, SharedTypeOK, CallInv, BlockInv, NothingDangles, Live, Stages
<1>2. CountIsReferences
  <2> SUFFICES ASSUME NEW b \in Blocks
      PROVE ref_count[b] = Cardinality(Holders(b)) + Cardinality(Gainers(b))
    BY DEF CountIsReferences
  <2>1. Cardinality(Holders(b)) = 0 /\ Cardinality(Gainers(b)) = 0
    BY NoSessions DEF SharedInit, Holders, Gainers
  <2>2. QED
    BY <2>1 DEF SharedInit
<1>3. QED
  BY <1>1, <1>2 DEF SharedInv

-----------------------------------------------------------------------------
(* How the number of references to a block changes when one session's      *)
(* references do.                                                          *)
LEMMA Recount ==
  ASSUME CountIsReferences, NEW s \in Sessions, NEW b \in Blocks,
         SameBut(holds, holds', s), SameBut(gained, gained', s)
  PROVE  (Cardinality(Holders(b)) + Cardinality(Gainers(b)))' =
           ref_count[b] - (IF holds[s] = b THEN 1 ELSE 0)
                        + (IF holds'[s] = b THEN 1 ELSE 0)
                        - (IF gained[s] = b THEN 1 ELSE 0)
                        + (IF gained'[s] = b THEN 1 ELSE 0)
<1> DEFINE h == Cardinality(Preimage(holds, b))
           H == Cardinality(Preimage(holds', b))
           g == Cardinality(Preimage(gained, b))
           G == Cardinality(Preimage(gained', b))
<1>2. /\ h \in Nat /\ H \in Nat
      /\ holds[s] = b /\ holds'[s] = b => H = h
      /\ holds[s] = b /\ holds'[s] # b => H = h - 1
      /\ holds[s] # b /\ holds'[s] = b => H = h + 1
      /\ holds[s] # b /\ holds'[s] # b => H = h
  BY Preimages
<1>3. /\ g \in Nat /\ G \in Nat
      /\ gained[s] = b /\ gained'[s] = b => G = g
      /\ gained[s] = b /\ gained'[s] # b => G = g - 1
      /\ gained[s] # b /\ gained'[s] = b => G = g + 1
      /\ gained[s] # b /\ gained'[s] # b => G = g
  BY Preimages
<1>4. ref_count[b] = h + g
  BY DEF CountIsReferences, Holders, Gainers, Preimage
<1>5. (Cardinality(Holders(b)) + Cardinality(Gainers(b)))' = H + G
  BY DEF Holders, Gainers, Preimage
<1> HIDE DEF h, H, g, G
<1>6. QED
  BY <1>2, <1>3, <1>4, <1>5

(* A session alone with its block. *)
LEMMA LayoutStep ==
  ASSUME SharedInv, NEW s \in Sessions, NEW c \in Blocks, CreateLayout(s, c)
  PROVE  SharedInv'
<1> USE DEF SharedInv
<1>1. ref_count[c] = 0 /\ \A t \in Sessions : holds[t] # c /\ gained[t] # c
  BY Unreferenced DEF BlockInv, Live, CreateLayout
<1>2. SharedTypeOK'
  BY MaxRefsAssumption DEF SharedTypeOK, CreateLayout, Stages
<1>3. CallInv'
  BY <1>1, NilAssumption DEF CallInv, SharedTypeOK, CreateLayout, Stages
<1>4. BlockInv'
  BY <1>1 DEF BlockInv, SharedTypeOK, CreateLayout, Live
<1>5. NothingDangles'
  BY <1>1, NilAssumption DEF NothingDangles, CallInv, SharedTypeOK, CreateLayout, Live
<1>6. ASSUME NEW b \in Blocks
      PROVE  (ref_count[b] = Cardinality(Holders(b)) + Cardinality(Gainers(b)))'
  <2>1. /\ SameBut(holds, holds', s) /\ SameBut(gained, gained', s)
        /\ holds[s] = Nil /\ holds'[s] = c /\ gained'[s] = gained[s]
    BY DEF CreateLayout, SharedTypeOK, CallInv, SameBut
  <2>2. ref_count[b] \in Nat
    BY DEF SharedTypeOK
  <2>3. (Cardinality(Holders(b)) + Cardinality(Gainers(b)))' =
           ref_count[b] + (IF c = b THEN 1 ELSE 0)
    BY <2>1, <2>2, Recount, NilAssumption
  <2>4. ref_count'[b] = IF b = c THEN 1 ELSE ref_count[b]
    BY DEF CreateLayout, SharedTypeOK
  <2>5. QED
    BY <2>2, <2>3, <2>4, <1>1
<1>7. QED
  BY <1>2, <1>3, <1>4, <1>5, <1>6 DEF CountIsReferences

(* Steps that touch no reference. *)
LEMMA LocalSteps ==
  ASSUME SharedInv, NEW s \in Sessions,
         \/ Pack(s) \/ Free(s) \/ ShareOverflows(s) \/ ShareReleaseOwn(s)
         \/ \E t \in Sessions : ShareBegin(s, t)
  PROVE  SharedInv'
<1> USE DEF SharedInv
<1>1. UNCHANGED <<holds, gained, dying, ref_count>>
  BY DEF Pack, Free, ShareOverflows, ShareReleaseOwn, ShareBegin
<1>2. CountIsReferences'
  BY <1>1 DEF CountIsReferences, Holders, Gainers
<1>3. CASE Pack(s)
  <2>1. /\ holds[s] \in Blocks
        /\ stage' = [stage EXCEPT ![s] = "ready"]
        /\ block' = [block EXCEPT ![holds[s]] = "packed"]
        /\ UNCHANGED <<holds, gained, dying, source, observed, ref_count, after>>
        /\ stage[s] = "layout" /\ source[s] = Nil /\ gained[s] = Nil /\ dying[s] = Nil
        /\ Live(holds[s])
    BY <1>3, NilAssumption DEF Pack, CallInv, SharedTypeOK, NothingDangles
  <2>2. SharedTypeOK'
    BY <2>1 DEF SharedTypeOK, Stages
  <2>3. CallInv'
    BY <2>1, NilAssumption DEF CallInv, SharedTypeOK
  <2>4. BlockInv' /\ NothingDangles'
    BY <2>1 DEF BlockInv, NothingDangles, Live, SharedTypeOK
  <2>5. QED
    BY <1>2, <2>2, <2>3, <2>4
<1>4. CASE Free(s)
  <2>1. /\ holds[s] \in Blocks /\ gained[s] = Nil
        /\ source[s] = Nil /\ dying[s] = Nil
    BY <1>4, NilAssumption DEF Free, CallInv, SharedTypeOK
  <2>2. SharedTypeOK'
    BY <1>4, <2>1 DEF Free, SharedTypeOK, Stages
  <2>3. CallInv'
    BY <1>4, <2>1, NilAssumption DEF Free, CallInv, SharedTypeOK
  <2>4. BlockInv' /\ NothingDangles'
    BY <1>4 DEF Free, BlockInv, NothingDangles, Live, SharedTypeOK
  <2>5. QED
    BY <1>2, <2>2, <2>3, <2>4
<1>5. CASE ShareOverflows(s)
  <2>1. /\ holds[s] \in Blocks /\ dying[s] = Nil
    BY <1>5, NilAssumption DEF ShareOverflows, CallInv, SharedTypeOK
  <2>2. SharedTypeOK'
    BY <1>5, <2>1 DEF ShareOverflows, SharedTypeOK, Stages
  <2>3. CallInv'
    BY <1>5, <2>1, NilAssumption DEF ShareOverflows, CallInv, SharedTypeOK
  <2>4. BlockInv' /\ NothingDangles'
    BY <1>5 DEF ShareOverflows, BlockInv, NothingDangles, Live, SharedTypeOK
  <2>5. QED
    BY <1>2, <2>2, <2>3, <2>4
<1>6. CASE ShareReleaseOwn(s)
  <2>1. /\ holds[s] \in Blocks /\ dying[s] = Nil
    BY <1>6, NilAssumption DEF ShareReleaseOwn, CallInv, SharedTypeOK
  <2>2. SharedTypeOK'
    BY <1>6, <2>1 DEF ShareReleaseOwn, SharedTypeOK, Stages
  <2>3. CallInv'
    BY <1>6, <2>1, NilAssumption DEF ShareReleaseOwn, CallInv, SharedTypeOK
  <2>4. BlockInv' /\ NothingDangles'
    BY <1>6 DEF ShareReleaseOwn, BlockInv, NothingDangles, Live, SharedTypeOK
  <2>5. QED
    BY <1>2, <2>2, <2>3, <2>4
<1>7. CASE \E t \in Sessions : ShareBegin(s, t)
  <2> PICK t \in Sessions : ShareBegin(s, t)
    BY <1>7
  <2>1. /\ holds[t] \in Blocks /\ holds[s] \in Blocks
        /\ gained[s] = Nil /\ dying[s] = Nil
    BY NilAssumption DEF ShareBegin, CallInv, SharedTypeOK
  <2>2. SharedTypeOK'
    BY <2>1 DEF ShareBegin, SharedTypeOK, Stages
  <2>3. CallInv'
    BY <2>1, NilAssumption DEF ShareBegin, CallInv, SharedTypeOK
  <2>4. BlockInv' /\ NothingDangles'
    BY DEF ShareBegin, BlockInv, NothingDangles, Live, SharedTypeOK
  <2>5. QED
    BY <1>2, <2>2, <2>3, <2>4
<1>8. QED
  BY <1>3, <1>4, <1>5, <1>6, <1>7

(* The reference that a share gains is counted by the same exchange. *)
LEMMA ShareExchangeStep ==
  ASSUME SharedInv, NEW s \in Sessions, ShareExchange(s)
  PROVE  SharedInv'
<1> USE DEF SharedInv
<1> DEFINE t == source[s]
           c == holds[t]
<1>1. /\ t \in Sessions /\ c \in Blocks /\ block[c] = "packed"
      /\ stage[s] = "share" /\ stage[t] = "ready" /\ gained[s] = Nil
      /\ holds[s] # c /\ ref_count[c] \in Nat
  BY NilAssumption DEF ShareExchange, CallInv, SharedTypeOK
<1> HIDE DEF t, c
<1>2. CASE ref_count[c] = observed[s]
  <2>1. /\ ref_count' = [ref_count EXCEPT ![c] = @ + 1]
        /\ gained' = [gained EXCEPT ![s] = c]
        /\ UNCHANGED <<stage, holds, dying, source, observed, block, after>>
        /\ ref_count[c] \notin {0, MaxRefs}
    BY <1>2 DEF ShareExchange, t, c
  <2>2. ref_count[c] + 1 \in 0 .. MaxRefs
    BY <1>1, <2>1, MaxRefsAssumption DEF SharedTypeOK
  <2>3. SharedTypeOK'
    BY <1>1, <2>1, <2>2 DEF SharedTypeOK
  <2>4. CallInv'
    BY <1>1, <2>1, NilAssumption DEF CallInv, SharedTypeOK, t, c
  <2>5. \A u \in Sessions : dying[u] # c
    BY <1>1, NilAssumption DEF NothingDangles, t, c
  <2>6. BlockInv'
    <3>1. \A b \in Blocks : b # c => ref_count'[b] = ref_count[b]
      BY <2>1 DEF SharedTypeOK
    <3>2. ref_count'[c] > 0 /\ Live(c)
      BY <1>1, <2>1 DEF SharedTypeOK, Live
    <3>3. \A b \in Blocks : Live(b)' <=> Live(b)
      BY <2>1 DEF Live
    <3>4. dying' = dying
      BY <2>1
    <3>5. QED
      BY <3>1, <3>2, <3>3, <3>4 DEF BlockInv
  <2>7. NothingDangles'
    BY <1>1, <2>1, <2>5, NilAssumption DEF NothingDangles, SharedTypeOK, Live
  <2>8. ASSUME NEW b \in Blocks
        PROVE  (ref_count[b] = Cardinality(Holders(b)) + Cardinality(Gainers(b)))'
    <3>1. /\ SameBut(holds, holds', s) /\ SameBut(gained, gained', s)
          /\ holds'[s] = holds[s] /\ gained'[s] = c
      BY <2>1, <1>1 DEF SharedTypeOK, SameBut
    <3>2. ref_count[b] \in Nat
      BY DEF SharedTypeOK
    <3>3. (Cardinality(Holders(b)) + Cardinality(Gainers(b)))' =
             ref_count[b] + (IF c = b THEN 1 ELSE 0)
      BY <3>1, <3>2, <1>1, Recount, NilAssumption
    <3>4. ref_count'[b] = IF b = c THEN ref_count[b] + 1 ELSE ref_count[b]
      BY <2>1, <1>1 DEF SharedTypeOK
    <3>5. QED
      BY <3>2, <3>3, <3>4
  <2>9. QED
    BY <2>3, <2>4, <2>6, <2>7, <2>8 DEF CountIsReferences
<1>3. CASE ref_count[c] # observed[s]
  <2>1. /\ observed' = [observed EXCEPT ![s] = ref_count[c]]
        /\ UNCHANGED <<stage, holds, gained, dying, source, ref_count, block, after>>
    BY <1>3 DEF ShareExchange, t, c
  <2>2. SharedTypeOK'
    BY <1>1, <2>1 DEF SharedTypeOK
  <2>3. QED
    BY <2>1, <2>2 DEF CallInv, BlockInv, NothingDangles, Live,
                      CountIsReferences, Holders, Gainers
<1>4. QED
  BY <1>2, <1>3

(* A count exchanged for one less drops exactly one reference, and the     *)
(* thread that brought it to zero is the only one left with the block.     *)
LEMMA ReleaseStep ==
  ASSUME SharedInv, NEW s \in Sessions, Release(s)
  PROVE  SharedInv'
<1> USE DEF SharedInv
<1> DEFINE c == holds[s]
           d == gained[s]
<1>1. /\ c \in Blocks /\ d \in Blocks \cup {Nil} /\ d # c
      /\ stage[s] = "release" /\ source[s] = Nil /\ dying[s] = Nil
      /\ ref_count[c] \in Nat /\ Live(c) /\ c # Nil
  BY NilAssumption DEF Release, CallInv, SharedTypeOK, NothingDangles
<1> HIDE DEF c, d
<1>2. ASSUME ref_count[c] = observed[s], observed[s] # 0,
             ref_count' = [ref_count EXCEPT ![c] = @ - 1],
             UNCHANGED <<observed, source, block, after>>,
             SameBut(holds, holds', s), SameBut(gained, gained', s),
             \/ holds'[s] = Nil /\ gained'[s] = d
             \/ holds'[s] = d /\ gained'[s] = Nil
      PROVE  CountIsReferences'
  <2> SUFFICES ASSUME NEW b \in Blocks
      PROVE  (ref_count[b] = Cardinality(Holders(b)) + Cardinality(Gainers(b)))'
    BY DEF CountIsReferences
  <2>1. ref_count[b] \in Nat /\ b # Nil
    BY NilAssumption DEF SharedTypeOK
  <2>2. (Cardinality(Holders(b)) + Cardinality(Gainers(b)))' =
           ref_count[b] - (IF holds[s] = b THEN 1 ELSE 0)
                        + (IF holds'[s] = b THEN 1 ELSE 0)
                        - (IF gained[s] = b THEN 1 ELSE 0)
                        + (IF gained'[s] = b THEN 1 ELSE 0)
    BY <1>2, Recount
  <2>3. (Cardinality(Holders(b)) + Cardinality(Gainers(b)))' =
           ref_count[b] - (IF c = b THEN 1 ELSE 0)
    BY <2>1, <2>2, <1>2 DEF c, d
  <2>4. ref_count'[b] = IF b = c THEN ref_count[b] - 1 ELSE ref_count[b]
    BY <1>1, <1>2 DEF SharedTypeOK
  <2>5. QED
    BY <2>1, <2>3, <2>4
<1>3. ASSUME ref_count' = [ref_count EXCEPT ![c] = @ - 1],
             ref_count[c] = observed[s], observed[s] # 0
      PROVE  /\ ref_count' \in [Blocks -> 0 .. MaxRefs]
             /\ ref_count'[c] = observed[s] - 1
             /\ \A b \in Blocks : b # c => ref_count'[b] = ref_count[b]
  BY <1>1, <1>3, MaxRefsAssumption DEF SharedTypeOK
<1>4. CASE /\ observed[s] = 1 /\ ref_count[c] = observed[s]
           /\ ref_count' = [ref_count EXCEPT ![c] = @ - 1]
           /\ dying' = [dying EXCEPT ![s] = c]
           /\ holds' = [holds EXCEPT ![s] = Nil]
           /\ stage' = [stage EXCEPT ![s] = "dispose"]
           /\ UNCHANGED <<observed, gained, source, block, after>>
  <2>1. \A t \in Sessions : gained[t] # c /\ (t # s => holds[t] # c)
    BY <1>1, <1>4, LastReference DEF c
  <2>2. \A t \in Sessions : dying[t] # c
    BY <1>1 DEF NothingDangles, c
  <2>3. SharedTypeOK'
    BY <1>1, <1>3, <1>4 DEF SharedTypeOK, Stages
  <2>4. CallInv'
    BY <1>1, <1>4, NilAssumption DEF CallInv, SharedTypeOK, c, d
  <2>5. BlockInv'
    <3>1. /\ ref_count'[c] = 0 /\ dying'[s] = c
          /\ \A b \in Blocks : b # c => ref_count'[b] = ref_count[b]
          /\ \A t \in Sessions : t # s => dying'[t] = dying[t]
          /\ \A b \in Blocks : Live(b)' <=> Live(b)
      BY <1>3, <1>4, <1>1 DEF SharedTypeOK, Live
    <3>2. QED
      BY <3>1, <1>1, NilAssumption DEF BlockInv
  <2>6. NothingDangles'
    BY <1>1, <1>4, <2>1, <2>2, NilAssumption DEF NothingDangles, SharedTypeOK, Live
  <2>7. /\ SameBut(holds, holds', s) /\ SameBut(gained, gained', s)
        /\ holds'[s] = Nil /\ gained'[s] = d
    BY <1>4 DEF SameBut, SharedTypeOK, d
  <2>8. QED
    BY <1>2, <1>4, <2>3, <2>4, <2>5, <2>6, <2>7
<1>5. CASE /\ observed[s] \notin {0, 1} /\ ref_count[c] = observed[s]
           /\ ref_count' = [ref_count EXCEPT ![c] = @ - 1]
           /\ Settle(s)
           /\ UNCHANGED <<dying, observed, source, block, after>>
  <2>1. /\ holds' = [holds EXCEPT ![s] = d]
        /\ gained' = [gained EXCEPT ![s] = Nil]
        /\ stage' = [stage EXCEPT ![s] = after[s]]
        /\ d # Nil <=> after[s] = "ready"
        /\ d # Nil => block[d] = "packed"
        /\ after[s] \in {"ready", "none"}
    BY <1>5, <1>1 DEF Settle, CallInv, d, SharedTypeOK
  <2>2. SharedTypeOK'
    BY <1>1, <1>3, <1>5, <2>1 DEF SharedTypeOK, Stages
  <2>3. CallInv'
    BY <1>1, <1>5, <2>1, NilAssumption DEF CallInv, SharedTypeOK
  <2>4. BlockInv'
    <3>1. /\ ref_count'[c] > 0
          /\ \A b \in Blocks : b # c => ref_count'[b] = ref_count[b]
          /\ \A b \in Blocks : Live(b)' <=> Live(b)
          /\ dying' = dying
      BY <1>3, <1>5, <1>1 DEF Live, SharedTypeOK
    <3>2. QED
      BY <3>1, <1>1 DEF BlockInv
  <2>5. NothingDangles'
    BY <1>1, <1>5, <2>1, NilAssumption DEF NothingDangles, SharedTypeOK, Live, d
  <2>6. /\ SameBut(holds, holds', s) /\ SameBut(gained, gained', s)
        /\ holds'[s] = d /\ gained'[s] = Nil
    BY <2>1 DEF SameBut, SharedTypeOK
  <2>7. QED
    BY <1>2, <1>5, <2>2, <2>3, <2>4, <2>5, <2>6
<1>6. CASE /\ observed' = [observed EXCEPT ![s] = ref_count[c]]
           /\ UNCHANGED <<ref_count, dying, holds, gained, stage, source, block, after>>
  <2>1. SharedTypeOK'
    BY <1>1, <1>6 DEF SharedTypeOK
  <2>2. QED
    BY <1>6, <2>1 DEF CallInv, BlockInv, NothingDangles, Live,
                      CountIsReferences, Holders, Gainers
<1>7. QED
  BY <1>4, <1>5, <1>6 DEF Release, c

(* Nobody references a block that is freed. *)
LEMMA DisposeStep ==
  ASSUME SharedInv, NEW s \in Sessions, Dispose(s)
  PROVE  SharedInv'
<1> USE DEF SharedInv
<1> DEFINE c == dying[s]
           d == gained[s]
<1>1. /\ c \in Blocks /\ c # Nil /\ d \in Blocks \cup {Nil}
      /\ stage[s] = "dispose" /\ source[s] = Nil /\ holds[s] = Nil
      /\ \A t \in Sessions : holds[t] # c /\ gained[t] # c /\ (t # s => dying[t] # c)
      /\ d # Nil <=> after[s] = "ready"
      /\ d # Nil => block[d] = "packed"
      /\ after[s] \in {"ready", "none"}
  BY NilAssumption DEF Dispose, CallInv, SharedTypeOK, NothingDangles
<1>2. /\ block' = [block EXCEPT ![c] = "freed"]
      /\ dying' = [dying EXCEPT ![s] = Nil]
      /\ holds' = [holds EXCEPT ![s] = d]
      /\ gained' = [gained EXCEPT ![s] = Nil]
      /\ stage' = [stage EXCEPT ![s] = after[s]]
      /\ UNCHANGED <<source, observed, ref_count, after>>
  BY DEF Dispose, Settle
<1>3. ref_count[c] = 0
  <2>1. Holders(c) = {} /\ Gainers(c) = {}
    BY <1>1 DEF Holders, Gainers
  <2>2. ref_count[c] = Cardinality(Holders(c)) + Cardinality(Gainers(c))
    BY <1>1 DEF CountIsReferences
  <2>3. Cardinality(Holders(c)) = 0 /\ Cardinality(Gainers(c)) = 0
    BY <2>1, FS_EmptySet
  <2>4. QED
    BY <2>2, <2>3
<1>4. SameBut(holds, holds', s) /\ SameBut(gained, gained', s)
  BY <1>2 DEF SameBut, SharedTypeOK
<1>5. holds'[s] = gained[s] /\ gained'[s] = Nil
  BY <1>2 DEF SharedTypeOK
<1> HIDE DEF c, d
<1>6. SharedTypeOK'
  BY <1>1, <1>2 DEF SharedTypeOK, Stages
<1>7. CallInv'
  BY <1>1, <1>2, NilAssumption DEF CallInv, SharedTypeOK, d
<1>8. BlockInv'
  <2>1. /\ \A b \in Blocks : b # c => (Live(b)' <=> Live(b))
        /\ \A b \in Blocks : b # c => dying[s] # b
        /\ \A t \in Sessions : t # s => dying'[t] = dying[t]
        /\ ref_count' = ref_count /\ block'[c] = "freed"
    BY <1>1, <1>2 DEF Live, SharedTypeOK, c
  <2>2. QED
    BY <2>1, <1>3 DEF BlockInv, Live
<1>9. NothingDangles'
  BY <1>1, <1>2, NilAssumption DEF NothingDangles, SharedTypeOK, Live, d
<1>10. CountIsReferences'
  <2> SUFFICES ASSUME NEW b \in Blocks
      PROVE  (ref_count[b] = Cardinality(Holders(b)) + Cardinality(Gainers(b)))'
    BY DEF CountIsReferences
  <2>1. ref_count[b] \in Nat /\ b # Nil
    BY NilAssumption DEF SharedTypeOK
  <2>2. (Cardinality(Holders(b)) + Cardinality(Gainers(b)))' = ref_count[b]
    BY <1>1, <1>4, <1>5, <2>1, Recount
  <2>3. ref_count' = ref_count
    BY <1>2
  <2>4. QED
    BY <2>2, <2>3
<1>11. QED
  BY <1>6, <1>7, <1>8, <1>9, <1>10

LEMMA SharedStep == SharedInv /\ [SharedNext]_sharedVars => SharedInv'
<1> SUFFICES ASSUME SharedInv, [SharedNext]_sharedVars PROVE SharedInv'
  OBVIOUS
<1>1. CASE UNCHANGED sharedVars
  BY <1>1 DEF sharedVars, SharedInv, SharedTypeOK, CallInv, BlockInv, NothingDangles, Live,
              CountIsReferences, Holders, Gainers
<1>2. CASE SharedNext
  BY <1>2, LayoutStep, LocalSteps, ShareExchangeStep, ReleaseStep, DisposeStep
  DEF SharedNext
<1>3. QED
  BY <1>1, <1>2

-----------------------------------------------------------------------------
THEOREM SharedInvariant == SharedSpec => []SharedInv
BY SharedInitially, SharedStep, PTL DEF SharedSpec

(* Every variable stays in its range: the count never wraps around, because *)
(* a share of a block with UINT32_MAX references is refused.               *)
THEOREM SharedTyping == SharedSpec => []SharedTypeOK
<1>1. SharedInv => SharedTypeOK
  BY DEF SharedInv
<1>2. QED
  BY <1>1, SharedInvariant, PTL

(* The reference count is the number of references, whatever the threads   *)
(* that share and release do between its load and its exchange.            *)
THEOREM CountIsExact == SharedSpec => []CountIsReferences
<1>1. SharedInv => CountIsReferences
  BY DEF SharedInv
<1>2. QED
  BY <1>1, SharedInvariant, PTL

(* No session references freed weights, or weights about to be freed. *)
THEOREM NoUseAfterFree == SharedSpec => []NothingDangles
<1>1. SharedInv => NothingDangles
  BY DEF SharedInv
<1>2. QED
  BY <1>1, SharedInvariant, PTL

(* A session that its owner may run has all its weights packed. *)
THEOREM ReadySessionsArePacked == SharedSpec => []ReadyIsPacked
<1>1. SharedInv => ReadyIsPacked
  BY DEF SharedInv, CallInv, ReadyIsPacked
<1>2. QED
  BY <1>1, SharedInvariant, PTL

(* Once every session has been freed, no block is left. *)
THEOREM NoLeak == SharedSpec => []NothingLeaks
<1>1. SharedInv => NothingLeaks
  <2> SUFFICES ASSUME SharedInv, \A s \in Sessions : stage[s] = "none", NEW b \in Blocks
      PROVE  ~Live(b)
    BY DEF NothingLeaks
  <2>1. \A s \in Sessions : holds[s] = Nil /\ gained[s] = Nil /\ dying[s] = Nil
    BY DEF SharedInv, CallInv
  <2>2. Holders(b) = {} /\ Gainers(b) = {}
    BY <2>1, NilAssumption DEF Holders, Gainers
  <2>3. ref_count[b] = 0
    BY <2>2, FS_EmptySet DEF SharedInv, CountIsReferences
  <2>4. QED
    BY <2>1, <2>3, NilAssumption DEF SharedInv, BlockInv
<1>2. QED
  BY <1>1, SharedInvariant, PTL

-----------------------------------------------------------------------------
(* The model cache.                                                        *)

Locked == {"check", "replace", "prepare", "copy", "copying", "cleanup"}
Users == {"open", "prune", "running"}
Places == {"idle", "lock", "failed"} \cup Locked \cup Users
States == {"absent", "partial", "whole"}

Types ==
  /\ pc \in [Threads -> Places] /\ copied \in [Threads -> Nat]
  /\ DOMAIN temporary = Threads /\ DOMAIN doomed = Threads
  /\ DOMAIN seen = Threads /\ \A t \in Threads : IsFiniteSet(seen[t])
  /\ DOMAIN refused = Threads /\ DOMAIN disturbed = Threads
  /\ \A d \in DOMAIN disk : disk[d] \in [Files -> States]

(* The inductive invariant, thread by thread.  One thread works on the     *)
(* directories of the installed release; while anybody opens the cache it  *)
(* is valid, unless its check has been refused under him, and nobody else  *)
(* replaces it; and until the rename the place it will take is free.       *)
Opens(t) == pc[t] = "open" /\ ~disturbed[t]
Excludes(t) == pc[t] \in Locked => lock = t
Uses(t) == Opens(t) => Valid(Directory)
HasSeen(t) == ~disturbed[t] => \A x \in seen[t] : x[2] = "whole"
Replaces(t) ==
  pc[t] = "replace" =>
    /\ Exists(Directory) /\ \A u \in Threads : ~Opens(u)
    /\ \A x \in doomed[t] : x[1] = Directory
    /\ refused[t] \/ \A f \in Present(Directory) : <<Directory, f>> \in doomed[t]
IsFree(t) ==
  pc[t] \in {"prepare", "copy", "copying"} => refused[t] \/ ~Occupied(Directory)
OwnsTemporary(t) ==
  pc[t] \in {"copy", "copying", "cleanup"} =>
    temporary[t] \in DOMAIN disk /\ temporary[t].kind = "temporary"
HasCopied(t) ==
  /\ pc[t] \in {"idle", "lock", "check", "replace", "prepare"} => copied[t] = 0
  /\ pc[t] \in {"copy", "copying"} => copied[t] <= Len(Copies)
  /\ pc[t] = "copy" =>
       \A i \in 1 .. copied[t] : disk[temporary[t]][Copies[i]] = "whole"
  /\ pc[t] = "copying" =>
       /\ copied[t] + 1 <= Len(Copies)
       /\ \A i \in 1 .. copied[t] :
            Copies[i] # Current(t) => disk[temporary[t]][Copies[i]] = "whole"
CleansUp(t) == pc[t] = "cleanup" => refused[t] /\ \A x \in doomed[t] : x[1] = temporary[t]
Prunes(t) ==
  pc[t] = "prune" => \A x \in doomed[t] : x[1].kind = "cache" /\ x[1] # Directory
HasFailed(t) == pc[t] = "failed" => refused[t] \/ disturbed[t]

ThreadInv(t) ==
  /\ Excludes(t) /\ Uses(t) /\ HasSeen(t) /\ Replaces(t) /\ IsFree(t)
  /\ OwnsTemporary(t) /\ HasCopied(t) /\ CleansUp(t) /\ Prunes(t) /\ HasFailed(t)
IInv == Types /\ \A t \in Threads : ThreadInv(t)

-----------------------------------------------------------------------------
(* The files of a cache: the models, the manifest and the marker.          *)
LEMMA FileNames ==
  /\ Len(Copies) \in Nat /\ Len(Models) \in Nat
  /\ \A i \in 1 .. Len(Copies) : Copies[i] \in Files
  /\ \A f \in Files : \E i \in 1 .. Len(Copies) : f = Copies[i]
  /\ \A i \in 1 .. Len(Models) : Models[i] \in Files
<1> DEFINE tail == <<Manifest, Marker>>
           T == STRING \cup {Manifest, Marker}
<1>1. Models \in Seq(T) /\ tail \in Seq(T) /\ Len(tail) = 2
  <2>1. Models \in Seq(T)
    BY ModelAssumption, SeqMonotonic
  <2>2. tail \in Seq(T) /\ Len(tail) = 2
    OBVIOUS
  <2>3. QED
    BY <2>1, <2>2
<1>2. /\ Copies \in Seq(T) /\ Len(Copies) = Len(Models) + 2
      /\ \A i \in 1 .. Len(Models) : Copies[i] = Models[i]
  <2> HIDE DEF tail, T
  <2>1. QED
    BY <1>1, ConcatProperties, LenProperties DEF Copies, tail
<1>3. Len(Models) \in Nat /\ Len(Copies) \in Nat /\ DOMAIN Copies = 1 .. Len(Copies)
  BY <1>1, <1>2, LenProperties
<1>4. Files = {Copies[i] : i \in 1 .. Len(Copies)}
  BY <1>3 DEF Files, ToSet
<1>5. QED
  BY <1>2, <1>3, <1>4

(* A cache and a temporary directory are never the same.                   *)
LEMMA Kinds ==
  /\ Directory.kind = "cache"
  /\ \A r, time : Temporary(r, time).kind = "temporary"
BY DEF Directory, Cache, Temporary

-----------------------------------------------------------------------------
(* What a step of another thread must leave to a thread.                   *)
Untouched(t) ==
  /\ pc'[t] = pc[t] /\ copied'[t] = copied[t] /\ temporary'[t] = temporary[t]
  /\ doomed'[t] = doomed[t] /\ seen'[t] = seen[t] /\ refused'[t] = refused[t]
  /\ disturbed[t] => disturbed'[t]
SameDirectory ==
  /\ Directory \in DOMAIN disk' <=> Directory \in DOMAIN disk
  /\ Directory \in DOMAIN disk => disk'[Directory] = disk[Directory]
SameTemporaries ==
  \A d \in DOMAIN disk : d.kind = "temporary" => d \in DOMAIN disk' /\ disk'[d] = disk[d]

LEMMA OtherThread ==
  ASSUME NEW t \in Threads, ThreadInv(t), Untouched(t), release' = release,
         Opens(t) => Valid(Directory)',
         pc[t] \in Locked => lock' = lock /\ SameDirectory /\ SameTemporaries,
         pc[t] = "replace" => \A u \in Threads : Opens(u)' => Opens(u)
  PROVE  ThreadInv(t)'
<1>1. pc[t] \in Locked =>
        /\ Exists(Directory)' <=> Exists(Directory)
        /\ Exists(Directory) => /\ Valid(Directory)' <=> Valid(Directory)
                                /\ Present(Directory)' = Present(Directory)
        /\ Occupied(Directory)' <=> Occupied(Directory)
  BY DEF SameDirectory, Exists, Valid, Present, Occupied, Directory, Cache
<1>2. Directory' = Directory
  BY DEF Directory, Cache
<1>3. (Excludes(t) /\ Uses(t) /\ HasSeen(t) /\ HasFailed(t) /\ Prunes(t))'
  BY <1>2 DEF ThreadInv, Untouched, Excludes, Uses, Opens, HasSeen, HasFailed, Prunes
<1>4. Replaces(t)' /\ IsFree(t)'
  BY <1>1, <1>2 DEF ThreadInv, Untouched, Replaces, IsFree, Locked
<1>5. OwnsTemporary(t)' /\ CleansUp(t)'
  BY DEF ThreadInv, Untouched, OwnsTemporary, CleansUp, SameTemporaries, Locked
<1>6. HasCopied(t)'
  BY DEF ThreadInv, Untouched, OwnsTemporary, HasCopied, SameTemporaries, Locked, Current
<1>7. QED
  BY <1>3, <1>4, <1>5, <1>6 DEF ThreadInv

Alone(s) == \A t \in Threads \ {s} : Untouched(t)
ThreadTypes ==
  /\ pc \in [Threads -> Places] /\ copied \in [Threads -> Nat]
  /\ DOMAIN temporary = Threads /\ DOMAIN doomed = Threads
  /\ DOMAIN seen = Threads /\ \A t \in Threads : IsFiniteSet(seen[t])
  /\ DOMAIN refused = Threads /\ DOMAIN disturbed = Threads

LEMMA Moves ==
  ASSUME Types, NEW s \in Threads, NEW place \in Places, Goes(s, place)
  PROVE  /\ pc' \in [Threads -> Places] /\ pc'[s] = place
         /\ \A t \in Threads \ {s} : pc'[t] = pc[t]
BY DEF Types, Goes

LEMMA IsRefused ==
  ASSUME Types, NEW s \in Threads, Refuses(s)
  PROVE  /\ DOMAIN refused' = Threads /\ refused'[s]
         /\ \A t \in Threads \ {s} : refused'[t] = refused[t]
BY DEF Types, Refuses

(* A step of one thread.                                                   *)
LEMMA OwnStep ==
  ASSUME IInv, NEW s \in Threads, Alone(s), ThreadTypes', release' = release,
         \A d \in DOMAIN disk' : disk'[d] \in [Files -> States],
         \/ pc[s] \in Locked
         \/ lock = Nobody
         \/ lock' = lock /\ SameDirectory /\ SameTemporaries /\ (Opens(s)' => Opens(s)),
         \A t \in Threads \ {s} : Opens(t) => Valid(Directory)',
         ThreadInv(s)'
  PROVE  IInv'
<1>1. Types'
  BY DEF ThreadTypes, Types
<1>2. ASSUME NEW t \in Threads, t # s PROVE ThreadInv(t)'
  <2>1. pc[t] \in Locked => lock = t
    BY DEF IInv, ThreadInv, Excludes
  <2>2. pc[s] \in Locked => lock = s
    BY DEF IInv, ThreadInv, Excludes
  <2>3. pc[t] \in Locked => lock' = lock /\ SameDirectory /\ SameTemporaries
    BY <1>2, <2>1, <2>2, ThreadAssumption
  <2>4. ThreadInv(t) /\ Untouched(t) /\ (Opens(t) => Valid(Directory)')
    BY <1>2 DEF IInv, Alone
  <2>5. pc[t] = "replace" => \A u \in Threads : Opens(u)' => Opens(u)
    <3>1. \A u \in Threads \ {s} : Opens(u)' => Opens(u)
      BY DEF Alone, Untouched, Opens
    <3>2. pc[t] = "replace" => (Opens(s)' => Opens(s))
      BY <1>2, <2>1, <2>2, ThreadAssumption DEF Locked
    <3>3. QED
      BY <3>1, <3>2
  <2>6. QED
    BY <2>3, <2>4, <2>5, OtherThread
<1>3. QED
  BY <1>1, <1>2 DEF IInv

(* Steps that leave the disk as it is.                                     *)
LEMMA DiskUntouched ==
  ASSUME IInv, disk' = disk, release' = release
  PROVE  /\ SameDirectory /\ SameTemporaries /\ Directory' = Directory
         /\ \A d \in DOMAIN disk' : disk'[d] \in [Files -> States]
         /\ \A t \in Threads : Opens(t) => Valid(Directory)'
         /\ Valid(Directory)' <=> Valid(Directory)
         /\ Occupied(Directory)' <=> Occupied(Directory)
         /\ Exists(Directory)' <=> Exists(Directory)
BY DEF IInv, Types, ThreadInv, Uses, SameDirectory, SameTemporaries, Valid, Exists, Occupied,
   Present, Directory, Cache

LEMMA StartStep ==
  ASSUME IInv, NEW s \in Threads, Start(s)
  PROVE  IInv'
<1>1. /\ UNCHANGED <<release, disk, lock, copied, temporary, doomed, seen, refused, disturbed>>
      /\ pc[s] = "idle"
  BY DEF Start
<1>2. /\ pc' \in [Threads -> Places] /\ pc'[s] = "lock"
      /\ \A t \in Threads \ {s} : pc'[t] = pc[t]
  BY Moves DEF Start, IInv, Places
<1>3. Alone(s) /\ ThreadTypes'
  BY <1>1, <1>2 DEF Alone, Untouched, ThreadTypes, IInv, Types
<1>4. HasSeen(s)' /\ copied'[s] = 0 /\ ~Opens(s)'
  BY <1>1, <1>2 DEF IInv, ThreadInv, HasSeen, HasCopied, Opens
<1>5. ThreadInv(s)'
  BY <1>2, <1>3, <1>4 DEF ThreadInv, Excludes, Uses, Replaces, IsFree, OwnsTemporary,
     HasCopied, CleansUp, Prunes, HasFailed, Locked, Users
<1>6. QED
  BY <1>1, <1>3, <1>4, <1>5, OwnStep, DiskUntouched

LEMMA CloseStep ==
  ASSUME IInv, NEW s \in Threads, Close(s)
  PROVE  IInv'
<1>1. /\ UNCHANGED <<release, disk, lock, doomed>>
      /\ copied' = [copied EXCEPT ![s] = 0]
      /\ temporary' = [temporary EXCEPT ![s] = Nobody]
      /\ seen' = [seen EXCEPT ![s] = {}]
      /\ refused' = [refused EXCEPT ![s] = FALSE]
      /\ disturbed' = [disturbed EXCEPT ![s] = FALSE]
  BY DEF Close
<1>2. /\ pc' \in [Threads -> Places] /\ pc'[s] = "idle"
      /\ \A t \in Threads \ {s} : pc'[t] = pc[t]
  BY Moves DEF Close, IInv, Places
<1>3. Alone(s) /\ ThreadTypes' /\ seen'[s] = {} /\ copied'[s] = 0
  <2>1. IsFiniteSet({})
    BY FS_EmptySet
  <2>2. QED
    BY <1>1, <1>2, <2>1 DEF Alone, Untouched, ThreadTypes, IInv, Types
<1>4. ThreadInv(s)' /\ ~Opens(s)'
  BY <1>2, <1>3 DEF ThreadInv, Excludes, Uses, Opens, HasSeen, Replaces, IsFree, OwnsTemporary,
     HasCopied, CleansUp, Prunes, HasFailed, Locked, Users
<1>5. QED
  BY <1>1, <1>3, <1>4, OwnStep, DiskUntouched

LEMMA OpenFailsStep ==
  ASSUME IInv, NEW s \in Threads, OpenFails(s)
  PROVE  IInv'
<1>1. UNCHANGED <<release, disk, lock, temporary, doomed, copied, seen, disturbed>>
  BY DEF OpenFails
<1>2. /\ pc' \in [Threads -> Places] /\ pc'[s] = "failed"
      /\ \A t \in Threads \ {s} : pc'[t] = pc[t]
  BY Moves DEF OpenFails, IInv, Places
<1>3. /\ DOMAIN refused' = Threads /\ (refused'[s] \/ disturbed'[s])
      /\ \A t \in Threads \ {s} : refused'[t] = refused[t]
  <2>1. CASE Refuses(s)
    BY <2>1, IsRefused DEF IInv
  <2>2. CASE (\E x \in seen[s] : x[2] # "whole") /\ refused' = refused
    BY <1>1, <2>2 DEF IInv, Types, ThreadInv, HasSeen
  <2>3. QED
    BY <2>1, <2>2 DEF OpenFails, Granted
<1>4. Alone(s) /\ ThreadTypes'
  BY <1>1, <1>2, <1>3 DEF Alone, Untouched, ThreadTypes, IInv, Types
<1>5. HasSeen(s)' /\ ~Opens(s)'
  BY <1>1, <1>2 DEF IInv, ThreadInv, HasSeen, Opens
<1>6. ThreadInv(s)'
  BY <1>2, <1>3, <1>5 DEF ThreadInv, Excludes, Uses, Replaces, IsFree, OwnsTemporary,
     HasCopied, CleansUp, Prunes, HasFailed, Locked, Users
<1>7. QED
  BY <1>1, <1>4, <1>5, <1>6, OwnStep, DiskUntouched

LEMMA AcquireStep ==
  ASSUME IInv, NEW s \in Threads, Acquire(s)
  PROVE  IInv'
<1>1. /\ UNCHANGED <<release, disk, copied, temporary, doomed, seen, refused, disturbed>>
      /\ pc[s] = "lock" /\ lock = Nobody /\ lock' = s
  BY DEF Acquire
<1>2. /\ pc' \in [Threads -> Places] /\ pc'[s] = "check"
      /\ \A t \in Threads \ {s} : pc'[t] = pc[t]
  BY Moves DEF Acquire, IInv, Places, Locked
<1>3. Alone(s) /\ ThreadTypes'
  BY <1>1, <1>2 DEF Alone, Untouched, ThreadTypes, IInv, Types
<1>4. HasSeen(s)' /\ copied'[s] = 0
  BY <1>1, <1>2 DEF IInv, ThreadInv, HasSeen, HasCopied
<1>5. ThreadInv(s)'
  BY <1>1, <1>2, <1>4 DEF ThreadInv, Excludes, Uses, Opens, Replaces, IsFree, OwnsTemporary,
     HasCopied, CleansUp, Prunes, HasFailed, Users
<1>6. QED
  BY <1>1, <1>3, <1>5, OwnStep, DiskUntouched

(* The cache is used, replaced or made.                                    *)
LEMMA CheckStep ==
  ASSUME IInv, NEW s \in Threads, Check(s)
  PROVE  IInv'
<1>1. /\ UNCHANGED <<release, disk, copied, temporary, seen, refused, disturbed>>
      /\ pc[s] = "check"
  BY DEF Check
<1>2. /\ Directory' = Directory
      /\ Valid(Directory)' <=> Valid(Directory)
      /\ Exists(Directory)' <=> Exists(Directory)
      /\ Occupied(Directory)' <=> Occupied(Directory)
      /\ Present(Directory)' = Present(Directory)
  BY <1>1, DiskUntouched DEF Present
<1>3. pc[s] \in Locked
  BY <1>1 DEF Locked
<1>4. lock = s
  BY <1>3 DEF IInv, ThreadInv, Excludes
<1>5. HasSeen(s)' /\ copied'[s] = 0
  BY <1>1 DEF IInv, ThreadInv, HasSeen, HasCopied
<1>6. CASE Valid(Directory) /\ Goes(s, "open") /\ doomed' = doomed
  <2>1. /\ pc' \in [Threads -> Places] /\ pc'[s] = "open"
        /\ \A t \in Threads \ {s} : pc'[t] = pc[t]
    BY <1>6, Moves DEF IInv, Places, Users
  <2>2. Alone(s) /\ ThreadTypes'
    BY <1>1, <1>6, <2>1 DEF Alone, Untouched, ThreadTypes, IInv, Types
  <2>3. ThreadInv(s)'
    BY <1>2, <1>5, <1>6, <2>1 DEF ThreadInv, Excludes, Uses, Replaces, IsFree,
       OwnsTemporary, HasCopied, CleansUp, Prunes, HasFailed, Locked
  <2>4. QED
    BY <1>1, <1>3, <2>2, <2>3, OwnStep, DiskUntouched
<1>7. CASE ~Valid(Directory) /\ Exists(Directory) /\ Discards(s) /\ lock' = lock
  <2>1. /\ pc' \in [Threads -> Places] /\ pc'[s] = "replace"
        /\ \A t \in Threads \ {s} : pc'[t] = pc[t]
    BY <1>7, Moves DEF Discards, IInv, Places, Locked
  <2>2. /\ DOMAIN doomed' = Threads /\ doomed'[s] = {Directory} \X Present(Directory)
        /\ \A t \in Threads \ {s} : doomed'[t] = doomed[t]
    BY <1>7 DEF Discards, IInv, Types
  <2>3. Alone(s) /\ ThreadTypes'
    BY <1>1, <2>1, <2>2 DEF Alone, Untouched, ThreadTypes, IInv, Types
  <2>4. /\ \A x \in doomed'[s] : x[1] = Directory
        /\ \A f \in Present(Directory) : <<Directory, f>> \in doomed'[s]
    BY <2>2
  <2>5. Replaces(s)'
    <3>1. \A u \in Threads : ~Opens(u)
      BY <1>7 DEF IInv, ThreadInv, Uses
    <3>2. \A u \in Threads : ~Opens(u)'
      BY <1>1, <2>1, <3>1 DEF Opens
    <3>3. QED
      BY <1>2, <1>7, <2>4, <3>2 DEF Replaces
  <2>6. ThreadInv(s)'
    BY <1>4, <1>5, <1>7, <2>1, <2>5 DEF ThreadInv, Excludes, Uses, Opens, IsFree,
       OwnsTemporary, HasCopied, CleansUp, Prunes, HasFailed, Users
  <2>7. QED
    BY <1>1, <1>3, <2>3, <2>6, OwnStep, DiskUntouched
<1>8. CASE ~Exists(Directory) /\ Goes(s, "prepare") /\ doomed' = doomed /\ lock' = lock
  <2>1. /\ pc' \in [Threads -> Places] /\ pc'[s] = "prepare"
        /\ \A t \in Threads \ {s} : pc'[t] = pc[t]
    BY <1>8, Moves DEF IInv, Places, Locked
  <2>2. Alone(s) /\ ThreadTypes'
    BY <1>1, <1>8, <2>1 DEF Alone, Untouched, ThreadTypes, IInv, Types
  <2>3. ~Occupied(Directory)
    BY <1>8 DEF Occupied
  <2>4. ThreadInv(s)'
    BY <1>2, <1>4, <1>5, <1>8, <2>1, <2>3 DEF ThreadInv, Excludes, Uses, Opens, Replaces,
       IsFree, OwnsTemporary, HasCopied, CleansUp, Prunes, HasFailed, Users
  <2>5. QED
    BY <1>1, <1>3, <2>2, <2>4, OwnStep, DiskUntouched
<1>9. QED
  BY <1>6, <1>7, <1>8 DEF Check

(* The check is refused a read: a whole cache goes, and those who are      *)
(* opening it know that they may not find it.                              *)
LEMMA CheckRefusedStep ==
  ASSUME IInv, NEW s \in Threads, CheckRefused(s)
  PROVE  IInv'
<1>1. /\ UNCHANGED <<release, disk, lock, copied, temporary, seen>>
      /\ pc[s] = "check" /\ Exists(Directory)
  BY DEF CheckRefused
<1>2. /\ Directory' = Directory
      /\ Exists(Directory)' <=> Exists(Directory)
      /\ Present(Directory)' = Present(Directory)
  BY <1>1, DiskUntouched DEF Present
<1>3. pc[s] \in Locked /\ lock = s
  BY <1>1 DEF IInv, ThreadInv, Excludes, Locked
<1>4. /\ DOMAIN refused' = Threads /\ refused'[s]
      /\ \A t \in Threads \ {s} : refused'[t] = refused[t]
  BY IsRefused DEF CheckRefused, IInv
<1>5. CASE /\ Discards(s)
           /\ disturbed' = [u \in Threads |->
                              disturbed[u] \/ (Valid(Directory) /\ pc[u] = "open")]
  <2>1. /\ pc' \in [Threads -> Places] /\ pc'[s] = "replace"
        /\ \A t \in Threads \ {s} : pc'[t] = pc[t]
    BY <1>5, Moves DEF Discards, IInv, Places, Locked
  <2>2. /\ DOMAIN doomed' = Threads /\ doomed'[s] = {Directory} \X Present(Directory)
        /\ \A t \in Threads \ {s} : doomed'[t] = doomed[t]
    BY <1>5 DEF Discards, IInv, Types
  <2>3. /\ DOMAIN disturbed' = Threads
        /\ \A u \in Threads : disturbed[u] => disturbed'[u]
        /\ \A u \in Threads : Valid(Directory) /\ pc[u] = "open" => disturbed'[u]
    BY <1>5
  <2>4. Alone(s) /\ ThreadTypes'
    BY <1>1, <1>4, <2>1, <2>2, <2>3 DEF Alone, Untouched, ThreadTypes, IInv, Types
  <2>5. \A u \in Threads : ~Opens(u)'
    <3> SUFFICES ASSUME NEW u \in Threads, Opens(u)' PROVE FALSE
      OBVIOUS
    <3>1. pc[u] = "open" /\ ~disturbed[u] /\ ~disturbed'[u]
      BY <2>1, <2>3 DEF Opens
    <3>2. Valid(Directory)
      BY <3>1 DEF IInv, ThreadInv, Uses, Opens
    <3>3. QED
      BY <2>3, <3>1, <3>2
  <2>6. Replaces(s)'
    <3>1. \A x \in doomed'[s] : x[1] = Directory
      BY <2>2
    <3>2. QED
      BY <1>1, <1>2, <1>4, <2>5, <3>1 DEF Replaces
  <2>7. HasSeen(s)' /\ copied'[s] = 0
    BY <1>1, <2>3 DEF IInv, ThreadInv, HasSeen, HasCopied
  <2>8. ThreadInv(s)'
    BY <1>1, <1>3, <2>1, <2>5, <2>6, <2>7 DEF ThreadInv, Excludes, Uses, IsFree,
       OwnsTemporary, HasCopied, CleansUp, Prunes, HasFailed
  <2>9. QED
    BY <1>1, <1>3, <2>4, <2>8, OwnStep, DiskUntouched
<1>6. CASE Goes(s, "prepare") /\ doomed' = doomed /\ disturbed' = disturbed
  <2>1. /\ pc' \in [Threads -> Places] /\ pc'[s] = "prepare"
        /\ \A t \in Threads \ {s} : pc'[t] = pc[t]
    BY <1>6, Moves DEF IInv, Places, Locked
  <2>2. Alone(s) /\ ThreadTypes'
    BY <1>1, <1>4, <1>6, <2>1 DEF Alone, Untouched, ThreadTypes, IInv, Types
  <2>3. HasSeen(s)' /\ copied'[s] = 0
    BY <1>1, <1>6 DEF IInv, ThreadInv, HasSeen, HasCopied
  <2>4. ThreadInv(s)'
    BY <1>1, <1>3, <1>4, <2>1, <2>3 DEF ThreadInv, Excludes, Uses, Opens, Replaces,
       IsFree, OwnsTemporary, HasCopied, CleansUp, Prunes, HasFailed
  <2>5. QED
    BY <1>1, <1>3, <2>2, <2>4, OwnStep, DiskUntouched
<1>7. QED
  BY <1>5, <1>6 DEF CheckRefused

(* A model is read: it is whole, unless the cache was taken for invalid.   *)
LEMMA OpenModelStep ==
  ASSUME IInv, NEW s \in Threads, OpenModel(s)
  PROVE  IInv'
<1> DEFINE n == Cardinality(seen[s]) + 1
           x == <<Models[n], IF Exists(Directory) THEN disk[Directory][Models[n]] ELSE "absent">>
<1>1. /\ UNCHANGED <<release, disk, lock, pc, copied, temporary, doomed, refused, disturbed>>
      /\ pc[s] = "open" /\ n <= Len(Models)
      /\ seen' = [seen EXCEPT ![s] = seen[s] \cup {x}]
  BY DEF OpenModel
<1>2. ~disturbed[s] => Valid(Directory)
  BY <1>1 DEF IInv, ThreadInv, Uses, Opens
<1>3. n \in 1 .. Len(Models)
  <2>1. Cardinality(seen[s]) \in Nat
    BY FS_CardinalityType DEF IInv, Types
  <2>2. QED
    BY <1>1, <2>1, FileNames
<1> HIDE DEF n
<1>4. ~disturbed[s] => x[2] = "whole"
  BY <1>2, <1>3, FileNames DEF Valid
<1> HIDE DEF x
<1>5. /\ DOMAIN seen' = Threads /\ seen'[s] = seen[s] \cup {x}
      /\ \A t \in Threads \ {s} : seen'[t] = seen[t]
  BY <1>1 DEF IInv, Types
<1>6. IsFiniteSet(seen[s] \cup {x})
  BY FS_AddElement DEF IInv, Types
<1>7. Alone(s) /\ ThreadTypes'
  BY <1>1, <1>5, <1>6 DEF Alone, Untouched, ThreadTypes, IInv, Types
<1>8. HasSeen(s)' /\ (Opens(s)' => Opens(s))
  BY <1>1, <1>4, <1>5 DEF IInv, ThreadInv, HasSeen, Opens
<1>9. Uses(s)'
  BY <1>1, <1>2, DiskUntouched DEF Uses, Opens
<1>10. ThreadInv(s)'
  BY <1>1, <1>8, <1>9 DEF ThreadInv, Excludes, Replaces, IsFree,
     OwnsTemporary, HasCopied, CleansUp, Prunes, HasFailed, Locked
<1>11. QED
  BY <1>1, <1>7, <1>8, <1>10, OwnStep, DiskUntouched

LEMMA OpenedStep ==
  ASSUME IInv, NEW s \in Threads, Opened(s)
  PROVE  IInv'
<1>1. /\ UNCHANGED <<release, disk, lock, copied, temporary, seen, refused, disturbed>>
      /\ pc[s] = "open"
      /\ doomed' = [doomed EXCEPT ![s] = UNION {{d} \X Present(d) : d \in Stale}]
  BY DEF Opened
<1>2. /\ pc' \in [Threads -> Places] /\ pc'[s] = "prune"
      /\ \A t \in Threads \ {s} : pc'[t] = pc[t]
  BY Moves DEF Opened, IInv, Places, Users
<1>3. /\ DOMAIN doomed' = Threads /\ doomed'[s] = UNION {{d} \X Present(d) : d \in Stale}
      /\ \A t \in Threads \ {s} : doomed'[t] = doomed[t]
  BY <1>1 DEF IInv, Types
<1>4. Alone(s) /\ ThreadTypes'
  BY <1>1, <1>2, <1>3 DEF Alone, Untouched, ThreadTypes, IInv, Types
<1>5. \A x \in doomed'[s] : x[1].kind = "cache" /\ x[1] # Directory
  BY <1>3 DEF Stale
<1>6. Directory' = Directory /\ ~Opens(s)'
  BY <1>1, <1>2, DiskUntouched DEF Opens
<1>7. HasSeen(s)'
  BY <1>1 DEF IInv, ThreadInv, HasSeen
<1>8. ThreadInv(s)'
  BY <1>2, <1>5, <1>6, <1>7 DEF ThreadInv, Excludes, Uses, Replaces, IsFree,
     OwnsTemporary, HasCopied, CleansUp, Prunes, HasFailed, Locked
<1>9. QED
  BY <1>1, <1>4, <1>6, <1>8, OwnStep, DiskUntouched

LEMMA PrepareRefusedStep ==
  ASSUME IInv, NEW s \in Threads, PrepareRefused(s)
  PROVE  IInv'
<1>1. /\ UNCHANGED <<release, disk, copied, temporary, doomed, seen, disturbed>>
      /\ pc[s] \in Locked
  BY DEF PrepareRefused, Locked
<1>2. /\ pc' \in [Threads -> Places] /\ pc'[s] = "failed"
      /\ \A t \in Threads \ {s} : pc'[t] = pc[t]
  BY Moves DEF PrepareRefused, IInv, Places
<1>3. /\ DOMAIN refused' = Threads /\ refused'[s]
      /\ \A t \in Threads \ {s} : refused'[t] = refused[t]
  BY IsRefused DEF PrepareRefused, IInv
<1>4. Alone(s) /\ ThreadTypes'
  BY <1>1, <1>2, <1>3 DEF Alone, Untouched, ThreadTypes, IInv, Types
<1>5. HasSeen(s)'
  BY <1>1 DEF IInv, ThreadInv, HasSeen
<1>6. ThreadInv(s)'
  BY <1>2, <1>3, <1>5 DEF ThreadInv, Excludes, Uses, Opens, Replaces, IsFree, OwnsTemporary,
     HasCopied, CleansUp, Prunes, HasFailed, Locked, Users
<1>7. QED
  BY <1>1, <1>4, <1>6, OwnStep, DiskUntouched

(* The catch block of installModelsLocked, entered with something refused: *)
(* a full cache is in the way of the rename only where exists() was.       *)
LEMMA CleanUpStep ==
  ASSUME IInv, NEW s \in Threads, CopyRefused(s) \/ CommitFails(s)
  PROVE  IInv'
<1>1. /\ UNCHANGED <<release, disk, lock, copied, temporary, seen, disturbed>>
      /\ pc[s] \in {"copy", "copying"} /\ CleanUp(s)
      /\ (Occupied(Directory) /\ refused' = refused) \/ Refuses(s)
  BY DEF CopyRefused, CommitFails, Granted
<1>2. (refused[s] \/ ~Occupied(Directory)) /\ lock = s
  BY <1>1 DEF IInv, ThreadInv, IsFree, Excludes, Locked
<1>3. /\ DOMAIN refused' = Threads /\ refused'[s]
      /\ \A t \in Threads \ {s} : refused'[t] = refused[t]
  BY <1>1, <1>2, IsRefused DEF IInv, Types
<1>4. /\ pc' \in [Threads -> Places] /\ pc'[s] = "cleanup"
      /\ \A t \in Threads \ {s} : pc'[t] = pc[t]
  BY <1>1, Moves DEF CleanUp, IInv, Places, Locked
<1>5. /\ DOMAIN doomed' = Threads
      /\ doomed'[s] = {temporary[s]} \X Present(temporary[s])
      /\ \A t \in Threads \ {s} : doomed'[t] = doomed[t]
  BY <1>1 DEF CleanUp, IInv, Types
<1>6. Alone(s) /\ ThreadTypes'
  BY <1>1, <1>3, <1>4, <1>5 DEF Alone, Untouched, ThreadTypes, IInv, Types
<1>7. \A x \in doomed'[s] : x[1] = temporary'[s]
  BY <1>1, <1>5
<1>8. HasSeen(s)'
  BY <1>1 DEF IInv, ThreadInv, HasSeen
<1>9. OwnsTemporary(s)'
  BY <1>1 DEF IInv, ThreadInv, OwnsTemporary
<1>10. ThreadInv(s)'
  BY <1>1, <1>2, <1>3, <1>4, <1>7, <1>8, <1>9 DEF ThreadInv, Excludes, Uses, Opens,
     Replaces, IsFree, HasCopied, CleansUp, Prunes, HasFailed, Users
<1>11. pc[s] \in Locked
  BY <1>1 DEF Locked
<1>12. QED
  BY <1>1, <1>6, <1>10, <1>11, OwnStep, DiskUntouched

(* The process is gone, and with it whoever used the cache.                *)
LEMMA KillStep ==
  ASSUME IInv, Kill
  PROVE  IInv'
<1>1. /\ pc' = [t \in Threads |-> "idle"] /\ disk' = disk
      /\ copied' = [t \in Threads |-> 0] /\ seen' = [t \in Threads |-> {}]
      /\ temporary' = [t \in Threads |-> Nobody] /\ doomed' = [t \in Threads |-> {}]
      /\ refused' = [t \in Threads |-> FALSE] /\ disturbed' = [t \in Threads |-> FALSE]
  BY DEF Kill
<1>2. Types'
  BY <1>1, FS_EmptySet DEF IInv, Types, Places
<1>3. ASSUME NEW t \in Threads PROVE ThreadInv(t)'
  <2>1. pc'[t] = "idle" /\ seen'[t] = {} /\ copied'[t] = 0
    BY <1>1
  <2>2. QED
    BY <2>1 DEF ThreadInv, Excludes, Uses, Opens, HasSeen, Replaces, IsFree, OwnsTemporary,
       HasCopied, CleansUp, Prunes, HasFailed, Locked, Users
<1>4. QED
  BY <1>2, <1>3 DEF IInv

-----------------------------------------------------------------------------
(* Steps that change one directory.                                        *)
OnlyChanges(d) ==
  /\ DOMAIN disk' \cup {d} = DOMAIN disk \cup {d}
  /\ \A e \in DOMAIN disk \ {d} : disk'[e] = disk[e]

LEMMA DirectoryUntouched ==
  ASSUME IInv, release' = release, NEW d, d # Directory, OnlyChanges(d)
  PROVE  /\ SameDirectory /\ Directory' = Directory
         /\ d.kind = "cache" => SameTemporaries
         /\ Exists(Directory)' <=> Exists(Directory)
         /\ Occupied(Directory)' <=> Occupied(Directory)
         /\ \A t \in Threads : Opens(t) => Valid(Directory)'
<1>1. Directory' = Directory
  BY DEF Directory, Cache
<1>2. SameDirectory
  BY DEF OnlyChanges, SameDirectory
<1>3. d.kind = "cache" => SameTemporaries
  BY DEF OnlyChanges, SameTemporaries
<1>4. Exists(Directory)' <=> Exists(Directory)
  BY <1>1, <1>2 DEF SameDirectory, Exists
<1>5. /\ Occupied(Directory)' <=> Occupied(Directory)
      /\ Valid(Directory)' <=> Valid(Directory)
  BY <1>1, <1>2, <1>4 DEF SameDirectory, Exists, Occupied, Present, Valid
<1>6. QED
  BY <1>1, <1>2, <1>3, <1>4, <1>5 DEF IInv, ThreadInv, Uses

(* deleteRecursively on an invalid cache, on the thread's own temporary    *)
(* directory, or on caches of other releases.                              *)
LEMMA DeleteFileStep ==
  ASSUME IInv, NEW s \in Threads, DeleteFile(s)
  PROVE  IInv'
<1>1. /\ UNCHANGED <<release, lock, kills, pc, copied, temporary, seen, disturbed>>
      /\ pc[s] \in {"replace", "cleanup", "prune"}
  BY DEF DeleteFile
<1>2. PICK x \in doomed[s] :
        /\ doomed' = [doomed EXCEPT ![s] = doomed[s] \ {x}]
        /\ \/ /\ Exists(x[1]) /\ refused' = refused
              /\ disk' = [disk EXCEPT ![x[1]][x[2]] = "absent"]
           \/ ~Exists(x[1]) /\ disk' = disk /\ refused' = refused
           \/ Refuses(s) /\ disk' = disk
  BY DEF DeleteFile, Granted
<1>3. /\ DOMAIN doomed' = Threads /\ doomed'[s] = doomed[s] \ {x}
      /\ \A t \in Threads \ {s} : doomed'[t] = doomed[t]
  BY <1>2 DEF IInv, Types
<1>4. /\ DOMAIN refused' = Threads
      /\ refused[s] => refused'[s]
      /\ \A t \in Threads \ {s} : refused'[t] = refused[t]
  BY <1>2, IsRefused DEF IInv, Types
<1>5. /\ DOMAIN disk' = DOMAIN disk /\ OnlyChanges(x[1])
      /\ \A d \in DOMAIN disk' : disk'[d] \in [Files -> States]
  <2>1. \A d \in DOMAIN disk : disk[d] \in [Files -> States]
    BY DEF IInv, Types
  <2>2. CASE disk' = disk
    BY <2>1, <2>2 DEF OnlyChanges
  <2>3. CASE Exists(x[1]) /\ disk' = [disk EXCEPT ![x[1]][x[2]] = "absent"]
    <3>1. disk' = [disk EXCEPT ![x[1]] = [disk[x[1]] EXCEPT ![x[2]] = "absent"]]
      BY <2>3
    <3>2. [disk[x[1]] EXCEPT ![x[2]] = "absent"] \in [Files -> States]
      BY <2>1, <2>3 DEF Exists, States
    <3>3. QED
      BY <2>1, <3>1, <3>2 DEF OnlyChanges
  <2>4. QED
    BY <1>2, <2>2, <2>3
<1>6. Alone(s) /\ ThreadTypes'
  BY <1>1, <1>3, <1>4 DEF Alone, Untouched, ThreadTypes, IInv, Types
<1>7. HasSeen(s)' /\ ~Opens(s)'
  BY <1>1 DEF IInv, ThreadInv, HasSeen, Opens
<1>8. pc'[s] \in Locked => lock' = s
  BY <1>1 DEF IInv, ThreadInv, Excludes
<1>9. CASE pc[s] = "replace"
  <2>1. /\ Exists(Directory) /\ x[1] = Directory /\ \A u \in Threads : ~Opens(u)
        /\ \A y \in doomed[s] : y[1] = Directory
        /\ refused[s] \/ \A f \in Present(Directory) : <<Directory, f>> \in doomed[s]
    BY <1>9 DEF IInv, ThreadInv, Replaces
  <2>2. Directory' = Directory /\ Exists(Directory)'
    BY <1>1, <1>5, <2>1 DEF Directory, Cache, Exists
  <2>3. \A f \in Files : disk'[Directory][f] # "absent" =>
          /\ disk'[Directory][f] = disk[Directory][f]
          /\ disk' # disk => f # x[2]
    <3>1. disk[Directory] \in [Files -> States]
      BY <2>1 DEF Exists, IInv, Types
    <3>2. QED
      BY <1>2, <2>1, <3>1 DEF Exists
  <2>4. \A u \in Threads : ~Opens(u)'
    BY <1>1, <2>1 DEF Opens
  <2>5. refused'[s] \/ \A f \in Present(Directory)' : <<Directory, f>> \in doomed'[s]
    <3>1. CASE refused'[s]
      BY <3>1
    <3>2. CASE ~refused'[s]
      <4>1. /\ \A f \in Present(Directory) : <<Directory, f>> \in doomed[s]
            /\ Exists(x[1]) /\ disk' = [disk EXCEPT ![x[1]][x[2]] = "absent"]
        BY <1>2, <1>4, <2>1, <3>2, IsRefused DEF IInv
      <4>2. \A f \in Present(Directory)' : f \in Present(Directory) /\ f # x[2]
        <5>1. disk[Directory] \in [Files -> States]
          BY <2>1 DEF Exists, IInv, Types
        <5>2. \A f \in Files : disk'[Directory][f] # "absent" => f # x[2]
          BY <2>1, <4>1, <5>1 DEF Exists
        <5>3. QED
          BY <2>2, <2>3, <5>2 DEF Present
      <4>3. QED
        BY <1>3, <4>1, <4>2
    <3>3. QED
      BY <3>1, <3>2
  <2>6. Replaces(s)' /\ copied'[s] = 0
    BY <1>1, <1>3, <1>9, <2>1, <2>2, <2>4, <2>5 DEF Replaces, IInv, ThreadInv, HasCopied
  <2>7. ThreadInv(s)'
    BY <1>1, <1>7, <1>8, <1>9, <2>6 DEF ThreadInv, Excludes, Uses, IsFree,
       OwnsTemporary, HasCopied, CleansUp, Prunes, HasFailed, Users
  <2>8. pc[s] \in Locked
    BY <1>9 DEF Locked
  <2>9. QED
    BY <1>1, <1>5, <1>6, <2>1, <2>7, <2>8, OwnStep
<1>10. CASE pc[s] = "cleanup"
  <2>1. /\ x[1] = temporary[s] /\ x[1].kind = "temporary" /\ temporary[s] \in DOMAIN disk
        /\ refused[s] /\ \A y \in doomed[s] : y[1] = temporary[s]
    BY <1>10 DEF IInv, ThreadInv, OwnsTemporary, CleansUp
  <2>2. x[1] # Directory
    BY <2>1, Kinds
  <2>3. \A t \in Threads : Opens(t) => Valid(Directory)'
    BY <1>1, <1>5, <2>2, DirectoryUntouched
  <2>4. CleansUp(s)' /\ OwnsTemporary(s)'
    BY <1>1, <1>3, <1>4, <1>5, <2>1 DEF CleansUp, OwnsTemporary
  <2>5. ThreadInv(s)'
    BY <1>1, <1>7, <1>8, <1>10, <2>4 DEF ThreadInv, Excludes, Uses, Replaces,
       IsFree, HasCopied, Prunes, HasFailed, Users
  <2>6. pc[s] \in Locked
    BY <1>10 DEF Locked
  <2>7. QED
    BY <1>1, <1>5, <1>6, <2>3, <2>5, <2>6, OwnStep
<1>11. CASE pc[s] = "prune"
  <2>1. \A y \in doomed[s] : y[1].kind = "cache" /\ y[1] # Directory
    BY <1>11 DEF IInv, ThreadInv, Prunes
  <2>2. /\ SameDirectory /\ SameTemporaries /\ Directory' = Directory
        /\ \A t \in Threads : Opens(t) => Valid(Directory)'
    BY <1>1, <1>5, <2>1, DirectoryUntouched
  <2>3. Uses(s)' /\ Prunes(s)'
    BY <1>1, <1>3, <1>7, <2>1, <2>2 DEF Uses, Prunes
  <2>4. ThreadInv(s)'
    BY <1>1, <1>7, <1>11, <2>3 DEF ThreadInv, Excludes, Replaces, IsFree,
       OwnsTemporary, HasCopied, CleansUp, HasFailed, Locked
  <2>5. QED
    BY <1>1, <1>5, <1>6, <1>7, <2>2, <2>4, OwnStep
<1>12. QED
  BY <1>1, <1>9, <1>10, <1>11

(* The invalid cache is gone, unless a file of it could not be deleted.    *)
LEMMA ReplacedStep ==
  ASSUME IInv, NEW s \in Threads, Replaced(s)
  PROVE  IInv'
<1>1. /\ UNCHANGED <<release, copied, temporary, doomed, seen, refused, disturbed>>
      /\ pc[s] = "replace" /\ doomed[s] = {} /\ disk' = Removed(Directory)
  BY DEF Replaced
<1>2. /\ Exists(Directory) /\ copied[s] = 0 /\ \A u \in Threads : ~Opens(u)
      /\ refused[s] \/ Present(Directory) = {}
      /\ HasSeen(s)'
  BY <1>1 DEF IInv, ThreadInv, Replaces, HasSeen, HasCopied
<1>3. Directory' = Directory
  BY <1>1 DEF Directory, Cache
<1>4. pc[s] \in Locked /\ lock = s
  BY <1>1 DEF IInv, ThreadInv, Excludes, Locked
<1>5. CASE Occupied(Directory)
  <2>1. disk' = disk /\ refused'[s] /\ Goes(s, "failed")
    BY <1>1, <1>2, <1>5 DEF Removed, Replaced, Occupied
  <2>2. /\ pc' \in [Threads -> Places] /\ pc'[s] = "failed"
        /\ \A t \in Threads \ {s} : pc'[t] = pc[t]
    BY <2>1, Moves DEF IInv, Places
  <2>3. Alone(s) /\ ThreadTypes'
    BY <1>1, <2>2 DEF Alone, Untouched, ThreadTypes, IInv, Types
  <2>4. ThreadInv(s)'
    BY <1>2, <2>1, <2>2 DEF ThreadInv, Excludes, Uses, Opens, Replaces, IsFree, OwnsTemporary,
       HasCopied, CleansUp, Prunes, HasFailed, Locked, Users
  <2>5. QED
    BY <1>1, <1>4, <2>1, <2>3, <2>4, OwnStep, DiskUntouched
<1>6. CASE ~Occupied(Directory)
  <2>1. disk' = Without(Directory) /\ Goes(s, "prepare") /\ lock' = lock
    BY <1>1, <1>2, <1>6 DEF Removed, Replaced
  <2>2. /\ pc' \in [Threads -> Places] /\ pc'[s] = "prepare"
        /\ \A t \in Threads \ {s} : pc'[t] = pc[t]
    BY <2>1, Moves DEF IInv, Places, Locked
  <2>3. Alone(s) /\ ThreadTypes'
    BY <1>1, <2>2 DEF Alone, Untouched, ThreadTypes, IInv, Types
  <2>4. ~Occupied(Directory)'
    BY <1>3, <2>1 DEF Occupied, Exists, Without
  <2>5. \A d \in DOMAIN disk' : disk'[d] \in [Files -> States]
    BY <2>1 DEF Without, IInv, Types
  <2>6. ThreadInv(s)'
    BY <1>1, <1>2, <1>4, <2>1, <2>2, <2>4 DEF ThreadInv, Excludes, Uses, Opens, Replaces,
       IsFree, OwnsTemporary, HasCopied, CleansUp, Prunes, HasFailed, Users
  <2>7. QED
    BY <1>1, <1>2, <1>4, <2>3, <2>5, <2>6, OwnStep
<1>7. QED
  BY <1>5, <1>6

LEMMA PrepareStep ==
  ASSUME IInv, NEW s \in Threads, Prepare(s)
  PROVE  IInv'
<1>1. /\ UNCHANGED <<release, lock, copied, doomed, seen, refused, disturbed>>
      /\ pc[s] = "prepare" /\ Goes(s, "copy")
  BY DEF Prepare
<1>2. PICK time \in Times :
        /\ disk' = With(Temporary(release, time), EmptyDirectory)
        /\ temporary' = [temporary EXCEPT ![s] = Temporary(release, time)]
  BY DEF Prepare
<1> DEFINE d == Temporary(release, time)
<1>3. d.kind = "temporary" /\ d # Directory
  BY Kinds
<1> HIDE DEF d
<1>4. /\ DOMAIN disk' = DOMAIN disk \cup {d} /\ OnlyChanges(d)
      /\ \A e \in DOMAIN disk' : disk'[e] \in [Files -> States]
  BY <1>2 DEF d, With, OnlyChanges, EmptyDirectory, States, IInv, Types
<1>5. /\ DOMAIN temporary' = Threads /\ temporary'[s] = d
      /\ \A t \in Threads \ {s} : temporary'[t] = temporary[t]
  BY <1>2 DEF d, IInv, Types
<1>6. /\ pc' \in [Threads -> Places] /\ pc'[s] = "copy"
      /\ \A t \in Threads \ {s} : pc'[t] = pc[t]
  BY <1>1, Moves DEF IInv, Places, Locked
<1>7. Alone(s) /\ ThreadTypes'
  BY <1>1, <1>5, <1>6 DEF Alone, Untouched, ThreadTypes, IInv, Types
<1>8. /\ pc[s] \in Locked /\ lock = s /\ copied[s] = 0
      /\ (refused[s] \/ ~Occupied(Directory)) /\ HasSeen(s)'
  BY <1>1 DEF IInv, ThreadInv, Excludes, IsFree, HasCopied, HasSeen, Locked
<1>9. /\ refused'[s] \/ ~Occupied(Directory)'
      /\ \A t \in Threads : Opens(t) => Valid(Directory)'
  BY <1>1, <1>3, <1>4, <1>8, DirectoryUntouched
<1>10. HasCopied(s)' /\ OwnsTemporary(s)'
  BY <1>1, <1>3, <1>4, <1>5, <1>6, <1>8, FileNames DEF HasCopied, OwnsTemporary
<1>11. ThreadInv(s)'
  BY <1>1, <1>6, <1>8, <1>9, <1>10 DEF ThreadInv, Excludes, Uses, Opens, Replaces,
     IsFree, CleansUp, Prunes, HasFailed, Users
<1>12. QED
  BY <1>1, <1>4, <1>7, <1>8, <1>9, <1>11, OwnStep

(* A file of the temporary directory is cut short, then written out.       *)
LEMMA CopyStep ==
  ASSUME IInv, NEW s \in Threads, BeginCopy(s) \/ EndCopy(s)
  PROVE  IInv'
<1> DEFINE d == temporary[s]
           f == Current(s)
<1>1. /\ UNCHANGED <<release, lock, temporary, doomed, seen, refused, disturbed>>
      /\ pc[s] \in {"copy", "copying"}
  BY DEF BeginCopy, EndCopy
<1>2. /\ pc[s] \in Locked /\ lock = s /\ (refused[s] \/ ~Occupied(Directory))
      /\ d \in DOMAIN disk /\ d.kind = "temporary" /\ d # Directory
      /\ HasSeen(s)'
      /\ copied[s] \in Nat
  BY <1>1, Kinds DEF IInv, Types, ThreadInv, Excludes, IsFree, OwnsTemporary, HasSeen, Locked
<1>3. PICK new \in States :
        /\ disk' = [disk EXCEPT ![d] = [disk[d] EXCEPT ![f] = new]]
        /\ pc[s] = "copying" => new = "whole"
  BY DEF BeginCopy, EndCopy, States
<1> HIDE DEF d, f
<1>4. /\ DOMAIN disk' = DOMAIN disk /\ OnlyChanges(d)
      /\ \A e \in DOMAIN disk' : disk'[e] \in [Files -> States]
      /\ \A g \in Files : g # f => disk'[d][g] = disk[d][g]
      /\ f \in Files => disk'[d][f] = new
  BY <1>2, <1>3 DEF OnlyChanges, IInv, Types
<1>5. /\ refused'[s] \/ ~Occupied(Directory)'
      /\ \A t \in Threads : Opens(t) => Valid(Directory)'
  BY <1>1, <1>2, <1>4, DirectoryUntouched
<1>6. temporary'[s] = d
  BY <1>1 DEF d
<1>7. CASE BeginCopy(s)
  <2>1. /\ pc[s] = "copy" /\ copied[s] < Len(Copies) /\ Goes(s, "copying")
        /\ copied' = copied
    BY <1>7 DEF BeginCopy
  <2>2. /\ pc' \in [Threads -> Places] /\ pc'[s] = "copying"
        /\ \A t \in Threads \ {s} : pc'[t] = pc[t]
    BY <2>1, Moves DEF IInv, Places, Locked
  <2>3. Alone(s) /\ ThreadTypes'
    BY <1>1, <2>1, <2>2 DEF Alone, Untouched, ThreadTypes, IInv, Types
  <2>4. Current(s)' = f
    BY <2>1 DEF Current, f
  <2>5. \A i \in 1 .. copied[s] : Copies[i] \in Files /\ disk[d][Copies[i]] = "whole"
    BY <1>2, <2>1, FileNames DEF IInv, ThreadInv, HasCopied, d
  <2>6. HasCopied(s)'
    BY <1>2, <1>4, <1>6, <2>1, <2>2, <2>4, <2>5, FileNames DEF HasCopied
  <2>7. OwnsTemporary(s)'
    BY <1>2, <1>4, <1>6 DEF OwnsTemporary
  <2>8. ThreadInv(s)'
    BY <1>1, <1>2, <1>5, <2>2, <2>6, <2>7 DEF ThreadInv, Excludes, Uses, Opens, Replaces,
       IsFree, CleansUp, Prunes, HasFailed, Users
  <2>9. QED
    BY <1>1, <1>2, <1>4, <1>5, <2>3, <2>8, OwnStep
<1>8. CASE EndCopy(s)
  <2>1. /\ pc[s] = "copying" /\ Goes(s, "copy") /\ new = "whole"
        /\ copied' = [copied EXCEPT ![s] = copied[s] + 1]
    BY <1>3, <1>8 DEF EndCopy
  <2>2. /\ pc' \in [Threads -> Places] /\ pc'[s] = "copy"
        /\ \A t \in Threads \ {s} : pc'[t] = pc[t]
    BY <2>1, Moves DEF IInv, Places, Locked
  <2>3. /\ copied' \in [Threads -> Nat] /\ copied'[s] = copied[s] + 1
        /\ \A t \in Threads \ {s} : copied'[t] = copied[t]
    BY <1>2, <2>1 DEF IInv, Types
  <2>4. Alone(s) /\ ThreadTypes'
    BY <1>1, <2>2, <2>3 DEF Alone, Untouched, ThreadTypes, IInv, Types
  <2>5. /\ copied[s] + 1 <= Len(Copies) /\ f = Copies[copied[s] + 1] /\ f \in Files
        /\ \A i \in 1 .. copied[s] :
             Copies[i] \in Files /\ (Copies[i] # f => disk[d][Copies[i]] = "whole")
    <3>1. HasCopied(s)
      BY DEF IInv, ThreadInv
    <3>2. f = Copies[copied[s] + 1]
      BY DEF Current, f
    <3>3. /\ copied[s] + 1 <= Len(Copies)
          /\ \A i \in 1 .. copied[s] : Copies[i] # f => disk[d][Copies[i]] = "whole"
      BY <2>1, <3>1, <3>2 DEF HasCopied, Current, d
    <3>4. QED
      BY <1>2, <3>2, <3>3, FileNames
  <2>6. \A i \in 1 .. copied[s] + 1 : disk'[d][Copies[i]] = "whole"
    BY <1>2, <1>4, <2>1, <2>5
  <2>7. HasCopied(s)'
    BY <1>6, <2>2, <2>3, <2>5, <2>6 DEF HasCopied
  <2>8. OwnsTemporary(s)'
    BY <1>2, <1>4, <1>6 DEF OwnsTemporary
  <2>9. ThreadInv(s)'
    BY <1>1, <1>2, <1>5, <2>2, <2>7, <2>8 DEF ThreadInv, Excludes, Uses, Opens, Replaces,
       IsFree, CleansUp, Prunes, HasFailed, Users
  <2>10. QED
    BY <1>1, <1>2, <1>4, <1>5, <2>4, <2>9, OwnStep
<1>9. QED
  BY <1>7, <1>8

(* The rename: all files have been copied, so the cache is valid.          *)
LEMMA CommitStep ==
  ASSUME IInv, NEW s \in Threads, Commit(s)
  PROVE  IInv'
<1> DEFINE d == temporary[s]
<1>1. /\ UNCHANGED <<release, copied, temporary, doomed, seen, refused, disturbed>>
      /\ pc[s] = "copy" /\ copied[s] = Len(Copies) /\ Goes(s, "open")
      /\ disk' = [e \in (DOMAIN disk \cup {Directory}) \ {d} |->
                    IF e = Directory THEN disk[d] ELSE disk[e]]
  BY DEF Commit
<1>2. /\ pc[s] \in Locked /\ d \in DOMAIN disk /\ d # Directory
      /\ \A i \in 1 .. Len(Copies) : disk[d][Copies[i]] = "whole"
      /\ HasSeen(s)'
  BY <1>1, Kinds DEF IInv, ThreadInv, OwnsTemporary, HasCopied, HasSeen, Locked
<1> HIDE DEF d
<1>3. \A e \in DOMAIN disk' : disk'[e] \in [Files -> States]
  BY <1>1, <1>2 DEF IInv, Types
<1>4. Valid(Directory)'
  <2>1. Directory' = Directory
    BY <1>1 DEF Directory, Cache
  <2>2. Directory \in DOMAIN disk' /\ disk'[Directory] = disk[d]
    BY <1>1, <1>2
  <2>3. \A f \in Files : disk[d][f] = "whole"
    BY <1>2, FileNames
  <2>4. QED
    BY <2>1, <2>2, <2>3 DEF Valid, Exists
<1>5. /\ pc' \in [Threads -> Places] /\ pc'[s] = "open"
      /\ \A t \in Threads \ {s} : pc'[t] = pc[t]
  BY <1>1, Moves DEF IInv, Places, Users
<1>6. Alone(s) /\ ThreadTypes'
  BY <1>1, <1>5 DEF Alone, Untouched, ThreadTypes, IInv, Types
<1>7. ThreadInv(s)'
  BY <1>1, <1>2, <1>4, <1>5 DEF ThreadInv, Excludes, Uses, Replaces, IsFree,
     OwnsTemporary, HasCopied, CleansUp, Prunes, HasFailed, Locked
<1>8. QED
  BY <1>1, <1>2, <1>3, <1>4, <1>6, <1>7, OwnStep

LEMMA CleanedUpStep ==
  ASSUME IInv, NEW s \in Threads, CleanedUp(s)
  PROVE  IInv'
<1> DEFINE d == temporary[s]
<1>1. /\ UNCHANGED <<release, copied, temporary, doomed, seen, refused, disturbed>>
      /\ pc[s] = "cleanup" /\ Goes(s, "failed") /\ disk' = Removed(d)
  BY DEF CleanedUp
<1>2. /\ pc[s] \in Locked /\ refused[s] /\ d # Directory /\ HasSeen(s)'
  BY <1>1, Kinds DEF IInv, ThreadInv, OwnsTemporary, CleansUp, HasSeen, Locked
<1> HIDE DEF d
<1>3. OnlyChanges(d) /\ \A e \in DOMAIN disk' : disk'[e] \in [Files -> States]
  BY <1>1 DEF Removed, Without, OnlyChanges, IInv, Types
<1>4. \A t \in Threads : Opens(t) => Valid(Directory)'
  BY <1>1, <1>2, <1>3, DirectoryUntouched
<1>5. /\ pc' \in [Threads -> Places] /\ pc'[s] = "failed"
      /\ \A t \in Threads \ {s} : pc'[t] = pc[t]
  BY <1>1, Moves DEF IInv, Places
<1>6. Alone(s) /\ ThreadTypes'
  BY <1>1, <1>5 DEF Alone, Untouched, ThreadTypes, IInv, Types
<1>7. ThreadInv(s)'
  BY <1>1, <1>2, <1>5 DEF ThreadInv, Excludes, Uses, Opens, Replaces, IsFree,
     OwnsTemporary, HasCopied, CleansUp, Prunes, HasFailed, Locked, Users
<1>8. QED
  BY <1>1, <1>2, <1>3, <1>4, <1>6, <1>7, OwnStep

(* The emptied caches of other releases go.                                *)
LEMMA PrunedStep ==
  ASSUME IInv, NEW s \in Threads, Pruned(s)
  PROVE  IInv'
<1>1. /\ UNCHANGED <<release, lock, copied, temporary, doomed, seen, refused, disturbed>>
      /\ pc[s] = "prune" /\ Goes(s, "running")
      /\ disk' = [d \in {e \in DOMAIN disk : e \in Stale => Occupied(e)} |-> disk[d]]
  BY DEF Pruned
<1>2. HasSeen(s)'
  BY <1>1 DEF IInv, ThreadInv, HasSeen
<1>3. /\ \A d \in DOMAIN disk : d \notin Stale => d \in DOMAIN disk'
      /\ DOMAIN disk' \subseteq DOMAIN disk
      /\ \A d \in DOMAIN disk' : disk'[d] = disk[d]
  BY <1>1
<1>4. Directory \notin Stale /\ \A d \in DOMAIN disk : d.kind = "temporary" => d \notin Stale
  BY DEF Stale
<1>5. SameDirectory /\ SameTemporaries
  BY <1>3, <1>4 DEF SameDirectory, SameTemporaries
<1>6. \A d \in DOMAIN disk' : disk'[d] \in [Files -> States]
  BY <1>3 DEF IInv, Types
<1>7. \A t \in Threads : Opens(t) => Valid(Directory)'
  BY <1>1, <1>5 DEF SameDirectory, Valid, Exists, Directory, Cache, IInv, ThreadInv, Uses
<1>8. /\ pc' \in [Threads -> Places] /\ pc'[s] = "running"
      /\ \A t \in Threads \ {s} : pc'[t] = pc[t]
  BY <1>1, Moves DEF IInv, Places, Users
<1>9. Alone(s) /\ ThreadTypes'
  BY <1>1, <1>8 DEF Alone, Untouched, ThreadTypes, IInv, Types
<1>10. ThreadInv(s)'
  BY <1>1, <1>2, <1>7, <1>8 DEF ThreadInv, Excludes, Uses, Opens, Replaces, IsFree,
     OwnsTemporary, HasCopied, CleansUp, Prunes, HasFailed, Locked
<1>11. ~Opens(s)'
  BY <1>8 DEF Opens
<1>12. QED
  BY <1>1, <1>5, <1>6, <1>7, <1>9, <1>10, <1>11, OwnStep

-----------------------------------------------------------------------------
LEMMA Initially == Init => IInv
<1> SUFFICES ASSUME Init PROVE IInv
  OBVIOUS
<1>1. \A t \in Threads : pc[t] = "idle" /\ seen[t] = {} /\ copied[t] = 0
  BY DEF Init
<1>2. Types
  BY FS_EmptySet DEF Init, Types, Places
<1>3. ASSUME NEW t \in Threads PROVE ThreadInv(t)
  BY <1>1 DEF ThreadInv, Excludes, Uses, Opens, HasSeen, Replaces, IsFree, OwnsTemporary,
     HasCopied, CleansUp, Prunes, HasFailed, Locked, Users
<1>4. QED
  BY <1>2, <1>3 DEF IInv

LEMMA Stuttering ==
  ASSUME IInv, UNCHANGED vars
  PROVE  IInv'
BY DEF vars, thread, IInv, Types, ThreadInv, Excludes, Uses, Opens, HasSeen, Replaces, IsFree,
   OwnsTemporary, HasCopied, CleansUp, Prunes, HasFailed, Valid, Exists, Occupied, Present,
   Current, Directory, Cache

LEMMA StepInv == IInv /\ [Next]_vars => IInv'
<1> SUFFICES ASSUME IInv, [Next]_vars PROVE IInv'
  OBVIOUS
<1>1. CASE Kill
  BY <1>1, KillStep
<1>2. ASSUME NEW s \in Threads, Install(s) PROVE IInv'
  BY <1>2, AcquireStep, CheckStep, CheckRefusedStep, ReplacedStep, PrepareStep, PrepareRefusedStep, CopyStep,
     CleanUpStep, CommitStep, CleanedUpStep DEF Install
<1>3. ASSUME NEW s \in Threads, Create(s) PROVE IInv'
  BY <1>2, <1>3, StartStep, DeleteFileStep, OpenModelStep, OpenFailsStep, OpenedStep,
     PrunedStep, CloseStep DEF Create
<1>4. CASE UNCHANGED vars
  BY <1>4, Stuttering
<1>5. QED
  BY <1>1, <1>3, <1>4 DEF Next

LEMMA Invariant == Spec => []IInv
BY Initially, StepInv, PTL DEF Spec

(* nativeCreate reads only whole models, whatever was killed, pruned or    *)
(* refused before (isCachedModelsValid, the rename, modelInstallLock), as  *)
(* long as no other call's check is refused while this one is opening.     *)
THEOREM CacheIsWholeWhenOpened == Spec => []OpensWholeModels
<1>1. IInv => OpensWholeModels
  BY DEF IInv, ThreadInv, HasSeen, OpensWholeModels
<1>2. QED
  BY <1>1, Invariant, PTL

(* createInternal fails only where a file operation of that call was       *)
(* refused, or the check of another while that call was opening: no state  *)
(* of the disk stands in the way of an installation.                       *)
THEOREM NothingLeftBehindBlocks == Spec => []FailsOnlyWhenRefused
<1>1. IInv => FailsOnlyWhenRefused
  BY DEF IInv, ThreadInv, HasFailed, FailsOnlyWhenRefused
<1>2. QED
  BY <1>1, Invariant, PTL

-----------------------------------------------------------------------------
(* The engine of the Web SDK.                                              *)

(* What the constants are: calls, their owners, sizes and orders.          *)
LEMMA Facts ==
  /\ Initialization \in Owners /\ Initialization = 0
  /\ Calls \subseteq Owners /\ \A c \in Calls : c \in Nat /\ c # Initialization /\ c <= MaxCalls
  /\ \A c \in Owners : c \in Nat /\ (c # Initialization => c \in Calls)
  /\ 0 \in Sizes \cup {0} /\ DefaultOrder \in Orders
  /\ \A n \in Sizes \cup {0} : n \in Nat
BY MaxCallsAssumption, SizesAssumption, OrdersAssumption
   DEF Initialization, Owners, Calls

(* A map without entries, as _pending.clear() leaves it. *)
LEMMA NoPromises ==
  DOMAIN <<>> = {} /\ Range(<<>>) = {} /\ Cardinality(DOMAIN <<>>) = 0
<1>1. DOMAIN <<>> = {}
  OBVIOUS
<1>2. QED
  BY <1>1, FS_EmptySet DEF Range

(* A map with at most one entry. *)
LEMMA OnePromise ==
  ASSUME NEW S, \A i, j \in S : i = j
  PROVE  Cardinality(S) <= 1
<1>1. CASE S = {}
  BY <1>1, FS_EmptySet
<1>2. ASSUME NEW i \in S PROVE S = {i}
  OBVIOUS
<1>3. QED
  BY <1>1, <1>2, FS_Singleton

(* A message is posted behind the others, or the first is taken. *)
LEMMA Posted ==
  ASSUME NEW S, NEW s \in Seq(S), NEW e \in S
  PROVE  /\ Append(s, e) \in Seq(S)
         /\ \A k \in DOMAIN Append(s, e) :
              \/ k \in DOMAIN s /\ Append(s, e)[k] = s[k]
              \/ Append(s, e)[k] = e
OBVIOUS

(* Taking the first message leaves the others, one place nearer.           *)
LEMMA Taken ==
  ASSUME NEW S, NEW s \in Seq(S), s # <<>>
  PROVE  /\ Tail(s) \in Seq(S)
         /\ 1 \in DOMAIN s /\ Head(s) = s[1]
         /\ \A k \in DOMAIN Tail(s) : k + 1 \in DOMAIN s /\ Tail(s)[k] = s[k + 1]
BY HeadTailProperties, LenProperties, EmptySeq

(* A module not loaded and one that is new have no picture and no buffer.  *)
LEMMA ModuleTypes ==
  /\ NoModule \in Modules /\ NewModule \in Modules
  /\ NoModule.capacity = 0 /\ NoModule.source = 0 /\ ~NoModule.loaded
  /\ NoModule.picture = Initialization
  /\ NewModule.capacity = 0 /\ NewModule.source = 0 /\ NewModule.engine
  /\ NewModule.loaded /\ NewModule.picture = Initialization
BY Facts DEF NoModule, NewModule, Modules

(* The constructor of the engine establishes the invariant.                *)
LEMMA InitInv == WebInit => EngineInv
<1> SUFFICES ASSUME WebInit PROVE EngineInv
  OBVIOUS
<1>1. DOMAIN pending = {} /\ Awaited = {} /\ Cardinality(DOMAIN pending) = 0
  BY NoPromises DEF WebInit, Awaited
<1>2. TypeOK
  <2>1. heap \in [{"thread", "page"} -> Modules]
    BY ModuleTypes DEF WebInit
  <2>2. call \in [Calls -> [phase: {"unmade", "preparing", "asked", "settled"},
                          size: Sizes \cup {0}, order: Orders, broken: BOOLEAN]]
    BY Facts DEF WebInit
  <2>3. Unsettled \in [code: Codes, picture: Owners, order: Orders]
    BY Facts DEF Unsettled, Codes
  <2>4. answer \in [Calls -> [code: Codes, picture: Owners, order: Orders]]
    BY <2>3 DEF WebInit
  <2>5. worker \in BOOLEAN
    BY DEF WebInit
  <2>6. state = "CREATING" /\ creating = "start" /\ nextRequestId = 1
    BY DEF WebInit
  <2>7. QED
    BY <1>1, <2>1, <2>2, <2>4, <2>5, <2>6 DEF TypeOK
<1>3. MessagesOK
  BY MaxCallsAssumption DEF WebInit, MessagesOK
<1>4. CallsInv
  BY <1>1, Facts DEF WebInit, CallsInv, Busy, Unsettled
<1>5. OwnersAgree
  BY NoPromises DEF WebInit, OwnersAgree
<1>6. EmptyInv /\ HeapInv
  BY NoPromises, ModuleTypes, Facts DEF WebInit, EmptyInv, HeapInv, HoldsNothing
<1>7. AnswersItsCall /\ PictureFits
  BY ModuleTypes DEF WebInit, AnswersItsCall, PictureFits, Unsettled
<1>8. QED
  BY <1>2, <1>3, <1>4, <1>5, <1>6, <1>7 DEF EngineInv

-----------------------------------------------------------------------------
(* What the invariant says of a promise, a message and a module.           *)

(* A promise is filed under the number of a request that was made, and its *)
(* call is waiting.                                                        *)
LEMMA Promises ==
  ASSUME EngineInv
  PROVE  /\ \A i \in DOMAIN pending :
              /\ i \in 1 .. nextRequestId - 1
              /\ pending[i] \in Owners /\ pending[i] \in Awaited
              /\ pending[i] # Initialization =>
                   /\ pending[i] \in Calls /\ call[pending[i]].phase = "asked"
                   /\ pending[i] <= made
         /\ nextRequestId \in Nat \ {0} /\ made \in Nat /\ made <= MaxCalls
<1> USE DEF EngineInv
<1>1. nextRequestId \in Nat \ {0} /\ made \in Nat /\ made <= MaxCalls
  BY MaxCallsAssumption DEF TypeOK, MessagesOK
<1>2. SUFFICES ASSUME NEW i \in DOMAIN pending
      PROVE  /\ i \in 1 .. nextRequestId - 1
             /\ pending[i] \in Owners /\ pending[i] \in Awaited
             /\ pending[i] # Initialization =>
                  /\ pending[i] \in Calls /\ call[pending[i]].phase = "asked"
                  /\ pending[i] <= made
  BY <1>1
<1>3. pending[i] \in Awaited /\ pending[i] \in Owners /\ i \in 1 .. nextRequestId - 1
  BY DEF TypeOK, Awaited, Range
<1>4. ASSUME pending[i] # Initialization
      PROVE  /\ pending[i] \in Calls /\ call[pending[i]].phase = "asked"
             /\ pending[i] <= made
  <2>1. pending[i] \in Calls
    BY <1>3, <1>4, Facts
  <2>2. call[pending[i]].phase = "asked"
    BY <1>3, <2>1 DEF CallsInv
  <2>3. ~(pending[i] > made)
    BY <2>1, <2>2 DEF CallsInv
  <2>4. QED
    <3>1. pending[i] \in Nat /\ made \in Nat
      BY <1>1, <2>1, Facts
    <3>2. QED
      BY <2>1, <2>2, <2>3, <3>1
<1>5. QED
  BY <1>3, <1>4

(* A message on the way has the number of a request that was made.         *)
LEMMA Messages ==
  ASSUME EngineInv
  PROVE  /\ \A k \in DOMAIN inbox :
              /\ inbox[k].id \in 1 .. nextRequestId - 1
              /\ inbox[k].owner \in Owners /\ inbox[k].owner \in Nat
         /\ \A k \in DOMAIN outbox :
              /\ outbox[k].id \in 1 .. nextRequestId - 1
              /\ outbox[k].result \in Results
<1>1. ASSUME NEW k \in DOMAIN inbox
      PROVE  inbox[k] \in [id: 1 .. nextRequestId - 1, owner: Owners]
  BY LenProperties, ElementOfSeq DEF EngineInv, MessagesOK
<1>2. ASSUME NEW k \in DOMAIN outbox
      PROVE  outbox[k] \in [id: 1 .. nextRequestId - 1, result: Results]
  BY LenProperties, ElementOfSeq DEF EngineInv, MessagesOK
<1>3. QED
  BY <1>1, <1>2, Facts

(* The fields of the native modules have their types.                      *)
LEMMA NativeModules ==
  ASSUME EngineInv
  PROVE  /\ heap.thread \in Modules /\ heap.page \in Modules
         /\ \A h \in {"thread", "page"} :
              /\ heap[h].picture \in Owners /\ heap[h].picture \in Nat
              /\ heap[h].capacity \in Nat /\ heap[h].source \in Nat
BY Facts DEF EngineInv, TypeOK, Modules

-----------------------------------------------------------------------------
(* Steps that several actions take.                                        *)

CallTypes == [phase: {"unmade", "preparing", "asked", "settled"},
              size: Sizes \cup {0}, order: Orders, broken: BOOLEAN]
AnswerTypes == [code: Codes, picture: Owners, order: Orders]

(* A call that is being prepared has returned nothing and awaits nothing.  *)
LEMMA Preparing ==
  ASSUME EngineInv, NEW c \in Calls, call[c].phase = "preparing"
  PROVE  /\ DOMAIN pending = {} /\ Awaited = {}
         /\ c <= made /\ creating = "returned"
         /\ state \in {"RUNNING", "DESTROYED"}
<1> USE DEF EngineInv
<1>1. c \in Nat /\ c # 0 /\ made \in Nat
  BY Facts, Promises
<1>2. c <= made
  BY <1>1 DEF CallsInv
<1>3. creating = "returned"
  BY <1>1, <1>2 DEF CallsInv
<1>4. state \in {"RUNNING", "DESTROYED"}
  BY <1>3 DEF CallsInv, TypeOK, Busy
<1>5. DOMAIN pending = {}
  <2> SUFFICES ASSUME NEW i \in DOMAIN pending PROVE FALSE
    OBVIOUS
  <2>1. pending[i] # Initialization
    BY <1>3, Promises DEF CallsInv
  <2>2. pending[i] \in Calls /\ call[pending[i]].phase = "asked"
    BY <2>1, Promises
  <2>3. pending[i] = c
    BY <2>2 DEF CallsInv, Busy
  <2>4. QED
    BY <2>2, <2>3
<1>6. Awaited = {}
  BY <1>5 DEF Awaited, Range
<1>7. QED
  BY <1>2, <1>3, <1>4, <1>5, <1>6

(* The call under way settles: then none is under way.                     *)
LEMMA Settled ==
  ASSUME EngineInv, NEW c \in Calls, NEW r \in AnswerTypes, NEW b \in BOOLEAN,
         SettleCall(c, r, b), Busy(c),
         r.code = "OK" => r.picture = c /\ r.order = call[c].order
  PROVE  /\ call' \in [Calls -> CallTypes] /\ answer' \in [Calls -> AnswerTypes]
         /\ \A d \in Calls :
              /\ call'[d].size = call[d].size /\ call'[d].order = call[d].order
              /\ call'[d].phase \notin {"preparing", "asked"}
              /\ call'[d].phase = "unmade" <=> d > made
              /\ d > made => answer'[d].code = "NONE"
         /\ AnswersItsCall'
         /\ state' \in {"READY", "DESTROYED"}
         /\ state' = "DESTROYED" <=> state = "DESTROYED"
         /\ creating = "returned" /\ c <= made /\ made # 0
<1> USE DEF EngineInv
<1>1. call \in [Calls -> CallTypes] /\ answer \in [Calls -> AnswerTypes]
  BY DEF TypeOK, CallTypes, AnswerTypes
<1>2. call' = [call EXCEPT ![c].phase = "settled", ![c].broken = b]
  BY DEF SettleCall
<1>3. answer' = [answer EXCEPT ![c] = r]
  BY DEF SettleCall
<1>4. call' \in [Calls -> CallTypes]
  BY <1>1, <1>2 DEF CallTypes
<1>5. answer' \in [Calls -> AnswerTypes]
  BY <1>1, <1>3
<1>6. /\ call'[c].phase = "settled" /\ call'[c].size = call[c].size
      /\ call'[c].order = call[c].order /\ answer'[c] = r
      /\ \A d \in Calls : d # c => call'[d] = call[d] /\ answer'[d] = answer[d]
  BY <1>1, <1>2, <1>3 DEF CallTypes
<1>7. ~(c > made) /\ \A d \in Calls : d # c => ~Busy(d)
  BY DEF CallsInv, Busy
<1>8. ASSUME NEW d \in Calls
      PROVE  /\ call'[d].size = call[d].size /\ call'[d].order = call[d].order
             /\ call'[d].phase \notin {"preparing", "asked"}
             /\ call'[d].phase = "unmade" <=> d > made
             /\ d > made => answer'[d].code = "NONE"
  BY <1>6, <1>7 DEF CallsInv, Busy
<1>9. AnswersItsCall'
  BY <1>6 DEF AnswersItsCall
<1>10. creating = "returned" /\ c <= made /\ made # 0
  <2>1. c \in Nat /\ c # 0 /\ made \in Nat
    BY Facts, Promises
  <2>2. QED
    BY <1>7, <2>1 DEF CallsInv
<1>11. /\ state' \in {"READY", "DESTROYED"}
       /\ state' = "DESTROYED" <=> state = "DESTROYED"
  BY DEF SettleCall
<1>12. QED
  BY <1>4, <1>5, <1>8, <1>9, <1>10, <1>11

(* _closeWorker. *)
LEMMA Closed ==
  ASSUME CloseWorker
  PROVE  /\ worker' = FALSE /\ pending' = <<>>
         /\ DOMAIN pending' = {} /\ Awaited' = {} /\ Cardinality(DOMAIN pending') = 0
         /\ DOMAIN inbox' = {} /\ DOMAIN outbox' = {}
         /\ inbox' = <<>> /\ outbox' = <<>>
BY NoPromises DEF CloseWorker, Awaited

(* A request with a new number, while no other is pending.                 *)
LEMMA Requested ==
  ASSUME EngineInv, NEW owner \in Owners, Request(owner), DOMAIN pending = {}
  PROVE  /\ nextRequestId' \in Nat \ {0}
         /\ DOMAIN pending' = {nextRequestId} /\ Awaited' = {owner}
         /\ DOMAIN pending' \subseteq 1 .. nextRequestId' - 1
         /\ Cardinality(DOMAIN pending') <= 1
         /\ inbox' \in Seq([id: 1 .. nextRequestId' - 1, owner: Owners])
         /\ outbox \in Seq([id: 1 .. nextRequestId' - 1, result: Results])
         /\ \A k \in DOMAIN inbox' :
              \/ k \in DOMAIN inbox /\ inbox'[k] = inbox[k]
                 /\ inbox[k].id \notin DOMAIN pending'
              \/ inbox'[k].owner = owner /\ pending'[inbox'[k].id] = owner
         /\ \A k \in DOMAIN outbox : outbox[k].id \notin DOMAIN pending'
<1> USE DEF EngineInv
<1> DEFINE n == nextRequestId
<1>1. n \in Nat \ {0} /\ n' = n + 1
  BY DEF Request, TypeOK
<1>2. pending' = [i \in {n} |-> owner]
  BY DEF Request
<1>3. DOMAIN pending' = {n} /\ pending'[n] = owner /\ Awaited' = {owner}
  BY <1>2 DEF Awaited, Range
<1>4. Cardinality(DOMAIN pending') <= 1
  BY <1>3, OnePromise
<1>5. 1 .. n - 1 \subseteq 1 .. n' - 1 /\ n \in 1 .. n' - 1 /\ n \notin 1 .. n - 1
  BY <1>1
<1>6. inbox \in Seq([id: 1 .. n' - 1, owner: Owners])
  BY <1>5, SeqMonotonic DEF MessagesOK
<1>7. outbox \in Seq([id: 1 .. n' - 1, result: Results])
  BY <1>5, SeqMonotonic DEF MessagesOK
<1>8. [id |-> n, owner |-> owner] \in [id: 1 .. n' - 1, owner: Owners]
  BY <1>5
<1>9. inbox' = Append(inbox, [id |-> n, owner |-> owner])
  BY DEF Request
<1>10. /\ inbox' \in Seq([id: 1 .. n' - 1, owner: Owners])
       /\ \A k \in DOMAIN inbox' :
            \/ k \in DOMAIN inbox /\ inbox'[k] = inbox[k]
            \/ inbox'[k] = [id |-> n, owner |-> owner]
  BY <1>6, <1>8, <1>9, Posted
<1>11. QED
  BY <1>1, <1>3, <1>4, <1>5, <1>7, <1>10, Messages

(* The call under way settles and no promise is left.                      *)
LEMMA SettledCalls ==
  ASSUME EngineInv, NEW c \in Calls, NEW r \in AnswerTypes, NEW b \in BOOLEAN,
         SettleCall(c, r, b), Busy(c),
         r.code = "OK" => r.picture = c /\ r.order = call[c].order,
         DOMAIN pending' = {}, UNCHANGED <<creating, made>>
  PROVE  CallsInv' /\ DOMAIN pending' \subseteq 1 .. nextRequestId' - 1
         /\ Cardinality(DOMAIN pending') <= 1 /\ Awaited' \subseteq Owners
         /\ Awaited' = {}
<1>1. Awaited' = {} /\ Cardinality(DOMAIN pending') <= 1
  BY FS_EmptySet DEF Awaited, Range
<1>2. \A d \in Calls : d \notin Awaited'
  BY <1>1
<1>3. CallsInv'
  <2>1. /\ \A d \in Calls :
             /\ call'[d].phase \notin {"preparing", "asked"}
             /\ call'[d].phase = "unmade" <=> d > made
             /\ d > made => answer'[d].code = "NONE"
        /\ state' \in {"READY", "DESTROYED"}
        /\ creating = "returned"
    BY Settled
  <2>2. /\ \A d \in Calls : /\ (d > made)' <=> d > made
                            /\ ~Busy(d)'
    BY <2>1 DEF Busy
  <2>3. QED
    BY <1>1, <2>1, <2>2 DEF CallsInv
<1>4. QED
  BY <1>1, <1>3

(* What a run leaves in the module it ran in.                              *)
LEMMA Ran ==
  ASSUME EngineInv, NEW m \in Modules, NEW c \in Calls, NEW o \in Outcomes(m, c),
         m.engine, m.capacity <= m.source, m.picture <= made, c <= made,
         m.picture # Initialization => call[m.picture].size <= m.source
  PROVE  /\ o.module \in Modules /\ o.ok \in BOOLEAN
         /\ o.module.loaded = m.loaded /\ o.module.engine
         /\ o.module.capacity <= o.module.source /\ o.module.picture <= made
         /\ o.module.picture # Initialization =>
              call[o.module.picture].size <= o.module.source
         /\ o.ok => o.module.picture = c /\ o.module.order = call[c].order
<1>1. call[c].size \in Sizes \cup {0} /\ call[c].order \in Orders /\ c \in Owners
  BY Facts DEF EngineInv, TypeOK
<1>2. m.capacity \in Nat /\ m.source \in Nat /\ call[c].size \in Nat
  BY <1>1, Facts DEF Modules
<1>3. /\ Grown(m, c) \in Modules /\ Grown(m, c).loaded = m.loaded
      /\ Grown(m, c).engine = m.engine
      /\ Grown(m, c).capacity <= Grown(m, c).source
      /\ call[c].size <= Grown(m, c).source
  <2>1. CASE call[c].size <= m.capacity
    <3>1. Grown(m, c) = m
      BY <2>1 DEF Grown
    <3>2. call[c].size <= m.source
      BY <2>1, <1>2
    <3>3. QED
      BY <3>1, <3>2
  <2>2. CASE ~(call[c].size <= m.capacity)
    <3>1. Grown(m, c) = [m EXCEPT !.source = call[c].size, !.capacity = call[c].size]
      BY <2>2 DEF Grown
    <3>2. Grown(m, c) \in Modules
      BY <1>1, <3>1 DEF Modules
    <3>3. /\ Grown(m, c).loaded = m.loaded /\ Grown(m, c).engine = m.engine
          /\ Grown(m, c).capacity = call[c].size /\ Grown(m, c).source = call[c].size
      BY <3>1 DEF Modules
    <3>4. QED
      BY <1>2, <3>2, <3>3
  <2>3. QED
    BY <2>1, <2>2
<1>4. /\ Loaded(m, c) \in Modules /\ Loaded(m, c).loaded = m.loaded
      /\ Loaded(m, c).engine = m.engine
      /\ Loaded(m, c).capacity <= Loaded(m, c).source
      /\ call[c].size <= Loaded(m, c).source
      /\ Loaded(m, c).picture = c /\ Loaded(m, c).order = call[c].order
  BY <1>1, <1>3 DEF Loaded, Modules
<1>5. /\ o.module \in {Loaded(m, c), m} /\ o.ok \in BOOLEAN
      /\ o.ok => o.module = Loaded(m, c)
  BY DEF Outcomes, NotGrown
<1>6. QED
  BY <1>4, <1>5

-----------------------------------------------------------------------------
(* The application's calls.                                                *)

(* recognize() of a ready engine: no other call is under way.              *)
LEMMA RecognizeStep ==
  ASSUME EngineInv, Recognize
  PROVE  EngineInv'
<1> USE DEF EngineInv
<1>1. made + 1 \in Calls /\ made' = made + 1 /\ made \in Nat
  BY MaxCallsAssumption DEF Recognize, MessagesOK, Calls
<1>2. PICK size \in Sizes, order \in Orders :
        call' = [call EXCEPT ![made + 1] =
                   [phase |-> "preparing", size |-> size, order |-> order,
                    broken |-> FALSE]]
  BY DEF Recognize
<1>3. /\ \A c \in Calls : c # made + 1 => call'[c] = call[c]
      /\ call'[made + 1].phase = "preparing"
  BY <1>1, <1>2 DEF TypeOK
<1>4. TypeOK'
  <2>1. call' \in [Calls -> [phase: {"unmade", "preparing", "asked", "settled"},
                           size: Sizes \cup {0}, order: Orders, broken: BOOLEAN]]
    BY <1>1, <1>2 DEF TypeOK
  <2>2. QED
    BY <2>1 DEF Recognize, TypeOK, workerThread, Awaited
<1>5. MessagesOK'
  BY <1>1, Facts DEF Recognize, MessagesOK, workerThread, Calls
<1>6. CallsInv'
  BY <1>1, <1>3, Facts DEF Recognize, CallsInv, Busy, workerThread, Awaited, TypeOK
<1>7. OwnersAgree'
  BY <1>1, <1>3, Promises, Messages DEF Recognize, OwnersAgree, workerThread
<1>8. EmptyInv' /\ HeapInv'
  BY <1>1, NativeModules DEF Recognize, EmptyInv, HeapInv, HoldsNothing, workerThread
<1>9. AnswersItsCall' /\ PictureFits'
  BY <1>1, <1>3, Facts DEF Recognize, AnswersItsCall, PictureFits, HeapInv, CallsInv, workerThread, TypeOK
<1>10. QED
  BY <1>4, <1>5, <1>6, <1>7, <1>8, <1>9

(* recognize() of an engine that is busy or destroyed settles at once.     *)
LEMMA RecognizeRefusedStep ==
  ASSUME EngineInv, RecognizeRefused
  PROVE  EngineInv'
<1> USE DEF EngineInv
<1> DEFINE c == made + 1
<1>1. c \in Calls /\ made' = made + 1 /\ made \in Nat
  BY MaxCallsAssumption DEF RecognizeRefused, MessagesOK, Calls
<1>2. PICK code \in {"LW_OCR_DESTROYED", "LW_OCR_BUSY"} :
        answer' = [answer EXCEPT ![c] = Refusal(code)]
  BY DEF RecognizeRefused
<1>3. Refusal(code) \in AnswerTypes /\ Refusal(code).code = code
  BY Facts DEF Refusal, Unsettled, AnswerTypes, Codes
<1>4. /\ \A d \in Calls :
           /\ d # c => call'[d] = call[d] /\ answer'[d] = answer[d]
           /\ call'[d].size = call[d].size /\ call'[d].order = call[d].order
      /\ call'[c].phase = "settled" /\ answer'[c].code = code
  BY <1>1, <1>2, <1>3 DEF RecognizeRefused, TypeOK
<1>5. TypeOK'
  <2>1. call' \in [Calls -> CallTypes]
    <3>1. call \in [Calls -> CallTypes]
      BY DEF TypeOK, CallTypes
    <3>2. call' = [call EXCEPT ![c].phase = "settled"]
      BY DEF RecognizeRefused
    <3> HIDE DEF c, EngineInv
    <3>3. QED
      BY <3>1, <3>2 DEF CallTypes
  <2>2. answer' \in [Calls -> AnswerTypes]
    BY <1>2, <1>3 DEF TypeOK, AnswerTypes
  <2>3. QED
    BY <2>1, <2>2 DEF RecognizeRefused, TypeOK, workerThread, Awaited, CallTypes, AnswerTypes
<1>6. MessagesOK'
  BY <1>1, MaxCallsAssumption DEF RecognizeRefused, MessagesOK, workerThread, Calls
<1>7. CallsInv'
  <2>1. call[c].phase = "unmade"
    BY <1>1 DEF CallsInv
  <2>2. c \notin Awaited /\ creating = "returned"
    BY <1>1, <2>1 DEF CallsInv, RecognizeRefused
  <2>3. QED
    BY <1>1, <1>4, <2>1, <2>2, Facts DEF RecognizeRefused, CallsInv, Busy, Awaited
<1>8. OwnersAgree'
  BY <1>1, <1>4, Promises, Messages DEF RecognizeRefused, OwnersAgree, workerThread
<1>9. EmptyInv' /\ HeapInv'
  BY <1>1, NativeModules DEF RecognizeRefused, EmptyInv, HeapInv, HoldsNothing, workerThread
<1>10. AnswersItsCall' /\ PictureFits'
  BY <1>1, <1>4, NativeModules, Facts DEF RecognizeRefused, AnswersItsCall, PictureFits, workerThread
<1>11. QED
  BY <1>5, <1>6, <1>7, <1>8, <1>9, <1>10

(* destroy() settles whoever waits and leaves nothing behind.              *)
LEMMA DestroyStep ==
  ASSUME EngineInv, Destroy
  PROVE  EngineInv'
<1> USE DEF EngineInv
<1> DEFINE r == Refusal("LW_OCR_DESTROYED")
<1>1. r \in AnswerTypes /\ r.code = "LW_OCR_DESTROYED"
  BY Facts DEF Refusal, Unsettled, AnswerTypes, Codes
<1>2. CloseWorker
  BY DEF Destroy
<1>3. /\ \A d \in Calls :
           /\ call'[d].size = call[d].size /\ call'[d].order = call[d].order
           /\ d \in Awaited => call'[d].phase = "settled" /\ answer'[d] = r
           /\ d \notin Awaited => call'[d] = call[d] /\ answer'[d] = answer[d]
      /\ call' \in [Calls -> CallTypes] /\ answer' \in [Calls -> AnswerTypes]
  <2>1. call' = [d \in Calls |-> IF d \in Awaited THEN [call[d] EXCEPT !.phase = "settled"]
                                 ELSE call[d]]
    BY DEF Destroy, RejectAwaited
  <2>2. answer' = [d \in Calls |-> IF d \in Awaited THEN r ELSE answer[d]]
    BY DEF Destroy, RejectAwaited
  <2>3. call \in [Calls -> CallTypes] /\ answer \in [Calls -> AnswerTypes]
    BY DEF TypeOK, CallTypes, AnswerTypes
  <2>4. answer' \in [Calls -> AnswerTypes]
    BY <1>1, <2>2, <2>3
  <2>5. call' \in [Calls -> CallTypes]
    BY <2>1, <2>3 DEF CallTypes
  <2>6. QED
    BY <2>1, <2>2, <2>3, <2>4, <2>5 DEF CallTypes
<1>4. heap' \in [{"thread", "page"} -> Modules] /\ heap' = [thread |-> NoModule, page |-> NoModule]
  BY ModuleTypes DEF Destroy
<1>5. TypeOK'
  <2>1. worker' \in BOOLEAN
    BY <1>2, Closed
  <2>2. QED
    BY <1>2, <1>3, <1>4, <2>1, Closed DEF Destroy, TypeOK, CallTypes, AnswerTypes
<1>6. MessagesOK'
  BY <1>2, EmptySeq, Closed DEF Destroy, MessagesOK
<1>7. CallsInv'
  <2>1. ASSUME NEW d \in Calls
        PROVE  /\ call'[d].phase # "asked"
               /\ call'[d].phase = "preparing" => call[d].phase = "preparing"
               /\ call'[d].phase = "unmade" <=> d > made
               /\ d > made => answer'[d].code = "NONE"
    BY <1>3 DEF CallsInv
  <2>2. creating' = "returned" /\ made' = made /\ state' = "DESTROYED"
    BY DEF Destroy
  <2>3. QED
    BY <1>2, <2>1, <2>2, Closed DEF CallsInv, Busy
<1>8. OwnersAgree'
  BY <1>2, Closed DEF OwnersAgree
<1>9. EmptyInv'
  BY <1>2, <1>4, Closed, ModuleTypes DEF Destroy, EmptyInv, HoldsNothing
<1>10. HeapInv'
  BY <1>2, <1>4, Closed, ModuleTypes, Promises, Facts DEF Destroy, HeapInv
<1>11. AnswersItsCall' /\ PictureFits'
  BY <1>1, <1>3, <1>4, ModuleTypes DEF AnswersItsCall, PictureFits
<1>12. QED
  BY <1>5, <1>6, <1>7, <1>8, <1>9, <1>10, <1>11

-----------------------------------------------------------------------------
(* What follows the preparation of a picture.                              *)

(* An answer that refuses a call has the type of an answer.                *)
LEMMA Refusals ==
  \A code \in Codes : Refusal(code) \in AnswerTypes /\ Refusal(code).code = code
BY Facts DEF Refusal, Unsettled, AnswerTypes

(* The preparation failed, or destroy() took the engine away meanwhile.    *)
LEMMA PreparedInVain ==
  ASSUME EngineInv, NEW c \in Calls, PrepareFails(c) \/ PreparedTooLate(c)
  PROVE  EngineInv'
<1> USE DEF EngineInv
<1>1. PICK code \in {"LW_OCR_FAILED", "STATUS"}, b \in BOOLEAN :
        SettleCall(c, Refusal(code), b)
  BY DEF PrepareFails, PreparedTooLate
<1>2. /\ call[c].phase = "preparing"
      /\ UNCHANGED <<creating, pending, nextRequestId, workerThread, made, errors>>
  BY DEF PrepareFails, PreparedTooLate
<1> DEFINE r == Refusal(code)
<1>3. r \in AnswerTypes /\ r.code # "OK"
  BY Refusals DEF Codes
<1>4. Busy(c) /\ DOMAIN pending' = {}
  BY <1>2, Preparing DEF Busy
<1> HIDE DEF r
<1>5. SettleCall(c, r, b)
  BY <1>1 DEF r
<1>6. /\ CallsInv' /\ DOMAIN pending' \subseteq 1 .. nextRequestId' - 1
      /\ Cardinality(DOMAIN pending') <= 1 /\ Awaited' \subseteq Owners
  BY <1>2, <1>3, <1>4, <1>5, SettledCalls
<1>7. /\ call' \in [Calls -> CallTypes] /\ answer' \in [Calls -> AnswerTypes]
      /\ \A d \in Calls : call'[d].size = call[d].size
      /\ AnswersItsCall' /\ state' \in {"READY", "DESTROYED"}
      /\ state' = "DESTROYED" <=> state = "DESTROYED"
  BY <1>3, <1>4, <1>5, Settled
<1>8. TypeOK'
  BY <1>2, <1>6, <1>7 DEF TypeOK, workerThread, CallTypes, AnswerTypes
<1>9. MessagesOK' /\ OwnersAgree'
  BY <1>2, <1>4 DEF MessagesOK, OwnersAgree, workerThread
<1>10. EmptyInv' /\ HeapInv'
  BY <1>2, <1>7 DEF EmptyInv, HeapInv, HoldsNothing, workerThread
<1>11. PictureFits'
  BY <1>2, <1>7, NativeModules, Facts DEF PictureFits, workerThread
<1>12. QED
  BY <1>6, <1>7, <1>8, <1>9, <1>10, <1>11

(* The call asks the Worker: its promise is the only one.                  *)
LEMMA PreparedForWorkerStep ==
  ASSUME EngineInv, NEW c \in Calls, PreparedForWorker(c)
  PROVE  EngineInv'
<1> USE DEF EngineInv
<1>1. /\ DOMAIN pending = {} /\ Awaited = {} /\ c <= made
      /\ creating = "returned" /\ state \in {"RUNNING", "DESTROYED"}
      /\ c \in Owners /\ c # Initialization
  BY Preparing, Facts DEF PreparedForWorker
<1>2. Request(c) /\ worker
  BY DEF PreparedForWorker
<1>3. /\ \A d \in Calls :
           /\ call'[d].size = call[d].size /\ call'[d].order = call[d].order
           /\ d # c => call'[d] = call[d]
      /\ call'[c].phase = "asked" /\ call[c].phase = "preparing"
      /\ call' \in [Calls -> CallTypes]
  BY DEF PreparedForWorker, TypeOK, CallTypes
<1>4. state # "DESTROYED"
  BY <1>2 DEF EmptyInv, HoldsNothing
<1>5. TypeOK'
  <2>1. Awaited' \subseteq Owners
    BY <1>1, <1>2, Requested
  <2>2. /\ nextRequestId' \in Nat \ {0} /\ DOMAIN pending' \subseteq 1 .. nextRequestId' - 1
        /\ Cardinality(DOMAIN pending') <= 1
    BY <1>1, <1>2, Requested
  <2>3. QED
    BY <1>3, <2>1, <2>2 DEF PreparedForWorker, TypeOK, CallTypes
<1>6. MessagesOK'
  BY <1>1, <1>2, Requested DEF PreparedForWorker, MessagesOK
<1>7. CallsInv'
  <2>1. DOMAIN pending' = {nextRequestId} /\ Awaited' = {c}
    BY <1>1, <1>2, Requested
  <2>2. ASSUME NEW d \in Calls
        PROVE  /\ call'[d].phase \in {"preparing", "asked"} => d = c
               /\ call'[d].phase = "unmade" <=> d > made
               /\ d > made => answer'[d].code = "NONE"
               /\ call'[d].phase = "asked" <=> d = c
    BY <1>1, <1>3 DEF PreparedForWorker, CallsInv, Busy
  <2>3. made' = made /\ creating' = creating /\ state' = state
    BY DEF PreparedForWorker
  <2>4. made # 0
    BY <1>1, Promises, Facts
  <2>5. QED
    BY <1>1, <2>1, <2>2, <2>3, <2>4 DEF CallsInv, Busy
<1>8. OwnersAgree'
  BY <1>1, <1>2, Requested DEF PreparedForWorker, OwnersAgree
<1>9. EmptyInv'
  BY <1>1, <1>2, <1>4 DEF PreparedForWorker, EmptyInv
<1>10. HeapInv'
  BY DEF PreparedForWorker, HeapInv
<1>11. AnswersItsCall' /\ PictureFits'
  BY <1>3, NativeModules, Facts DEF PreparedForWorker, AnswersItsCall, PictureFits
<1>12. QED
  BY <1>5, <1>6, <1>7, <1>8, <1>9, <1>10, <1>11

(* The call runs in the page's own module.                                 *)
LEMMA PreparedRunsHereStep ==
  ASSUME EngineInv, NEW c \in Calls, PreparedRunsHere(c)
  PROVE  EngineInv'
<1> USE DEF EngineInv
<1>1. /\ DOMAIN pending = {} /\ c <= made /\ creating = "returned" /\ Busy(c)
      /\ c \in Owners
  BY Preparing, Facts DEF PreparedRunsHere, Busy
<1>2. heap.page.loaded /\ ~worker
  BY DEF PreparedRunsHere
<1>3. PICK o \in Outcomes(heap.page, c) :
        /\ heap' = [heap EXCEPT !.page = o.module]
        /\ SettleCall(c, IF o.ok THEN Lines(o.module) ELSE Refusal("STATUS"), ~o.ok)
  BY DEF PreparedRunsHere
<1> DEFINE r == IF o.ok THEN Lines(o.module) ELSE Refusal("STATUS")
<1>4. /\ o.module \in Modules /\ o.ok \in BOOLEAN
      /\ o.module.loaded = heap.page.loaded /\ o.module.engine
      /\ o.module.capacity <= o.module.source /\ o.module.picture <= made
      /\ o.module.picture # Initialization => call[o.module.picture].size <= o.module.source
      /\ o.ok => o.module.picture = c /\ o.module.order = call[c].order
  <2>1. /\ heap.page.engine /\ heap.page.capacity <= heap.page.source
        /\ heap.page.picture <= made
    BY <1>2 DEF HeapInv
  <2>2. heap.page.picture # Initialization => call[heap.page.picture].size <= heap.page.source
    BY DEF PictureFits
  <2>3. heap.page \in Modules
    BY NativeModules
  <2>4. QED
    BY <1>1, <2>1, <2>2, <2>3, Ran
<1>5. /\ r \in AnswerTypes
      /\ r.code = "OK" => r.picture = c /\ r.order = call[c].order
  <2>1. CASE o.ok
    BY <2>1, <1>4 DEF Lines, AnswerTypes, Modules, Codes
  <2>2. CASE ~o.ok
    BY <2>2, Refusals DEF Codes
  <2>3. QED
    BY <2>1, <2>2
<1>6. SettleCall(c, r, ~o.ok) /\ (~o.ok) \in BOOLEAN
  <2>1. SettleCall(c, r, ~o.ok)
    BY <1>3
  <2>2. (~o.ok) \in BOOLEAN
    OBVIOUS
  <2>3. QED
    BY <2>1, <2>2
<1>7. UNCHANGED <<creating, made, pending, nextRequestId, worker, inbox, outbox, errors>>
  BY DEF PreparedRunsHere
<1> HIDE DEF r
<1>8. /\ CallsInv' /\ DOMAIN pending' \subseteq 1 .. nextRequestId' - 1
      /\ Cardinality(DOMAIN pending') <= 1 /\ Awaited' \subseteq Owners
  BY <1>1, <1>5, <1>6, <1>7, SettledCalls
<1>9. /\ call' \in [Calls -> CallTypes] /\ answer' \in [Calls -> AnswerTypes]
      /\ \A d \in Calls : call'[d].size = call[d].size
      /\ AnswersItsCall' /\ state' \in {"READY", "DESTROYED"}
      /\ state' = "DESTROYED" <=> state = "DESTROYED"
  BY <1>1, <1>5, <1>6, Settled
<1>10. /\ heap' \in [{"thread", "page"} -> Modules]
       /\ heap'.thread = heap.thread /\ heap'.page = o.module
  BY <1>3, <1>4 DEF TypeOK
<1>11. TypeOK'
  BY <1>7, <1>8, <1>9, <1>10 DEF TypeOK, CallTypes, AnswerTypes
<1>12. MessagesOK' /\ OwnersAgree'
  BY <1>1, <1>7 DEF MessagesOK, OwnersAgree
<1>13. state # "DESTROYED"
  BY <1>2 DEF EmptyInv, HoldsNothing
<1>14. EmptyInv'
  BY <1>1, <1>2, <1>7, <1>9, <1>13 DEF EmptyInv
<1>15. HeapInv'
  BY <1>4, <1>7, <1>10 DEF HeapInv
<1>16. PictureFits'
  <2>1. ASSUME heap'.page.picture # Initialization
        PROVE  heap'.page.engine /\ call'[heap'.page.picture].size <= heap'.page.source
    BY <2>1, <1>4, <1>9, <1>10, Facts DEF Modules
  <2>2. ASSUME heap'.thread.picture # Initialization
        PROVE  heap'.thread.engine /\ call'[heap'.thread.picture].size <= heap'.thread.source
    BY <2>2, <1>9, <1>10, NativeModules, Facts DEF PictureFits
  <2>3. QED
    BY <2>1, <2>2 DEF PictureFits
<1>17. QED
  BY <1>8, <1>9, <1>11, <1>12, <1>14, <1>15, <1>16

-----------------------------------------------------------------------------
(* create() and initialize().                                              *)

(* Before create() has returned there is no call, so none is disturbed.    *)
LEMMA NoCallsYet ==
  ASSUME EngineInv, creating # "returned"
  PROVE  /\ made = 0 /\ state \in {"CREATING", "DESTROYED"}
         /\ \A c \in Calls : /\ call[c].phase = "unmade" /\ c > made
                             /\ answer[c].code = "NONE" /\ c \notin Awaited
<1> USE DEF EngineInv
<1>1. made = 0 /\ state \in {"CREATING", "DESTROYED"}
  BY DEF CallsInv, TypeOK
<1>2. ASSUME NEW c \in Calls
      PROVE  /\ call[c].phase = "unmade" /\ c > made
             /\ answer[c].code = "NONE" /\ c \notin Awaited
  BY <1>1, Facts DEF CallsInv
<1>3. QED
  BY <1>1, <1>2

(* create() starts a Worker and asks it to initialize.                     *)
LEMMA StartWorkerStep ==
  ASSUME EngineInv, StartWorker
  PROVE  EngineInv'
<1> USE DEF EngineInv
<1>1. creating = "start" /\ HoldsNothing /\ state = "CREATING"
  BY DEF StartWorker, EmptyInv, CallsInv
<1>2. DOMAIN pending = {} /\ Initialization \in Owners
  BY <1>1, NoPromises, Facts DEF HoldsNothing
<1>3. Request(Initialization)
  BY DEF StartWorker
<1>4. /\ nextRequestId' \in Nat \ {0}
      /\ DOMAIN pending' = {nextRequestId} /\ Awaited' = {Initialization}
      /\ DOMAIN pending' \subseteq 1 .. nextRequestId' - 1
      /\ Cardinality(DOMAIN pending') <= 1
  BY <1>2, <1>3, Requested
<1>5. /\ creating' = "worker" /\ worker' = TRUE
      /\ UNCHANGED <<state, outbox, heap, call, answer, made, errors>>
  BY DEF StartWorker
<1>6. TypeOK'
  BY <1>2, <1>4, <1>5 DEF TypeOK
<1>7. MessagesOK'
  BY <1>2, <1>3, <1>5, Requested DEF MessagesOK
<1>8. CallsInv'
  <2>1. ASSUME NEW c \in Calls
        PROVE  call[c].phase = "unmade" /\ c > made /\ answer[c].code = "NONE"
    BY <1>1, NoCallsYet
  <2>2. Initialization \notin Calls /\ made = 0
    BY <1>1, Facts, NoCallsYet
  <2>3. QED
    BY <1>1, <1>4, <1>5, <2>1, <2>2 DEF CallsInv, Busy
<1>9. OwnersAgree'
  BY <1>2, <1>3, <1>5, Requested, NoCallsYet, <1>1 DEF OwnersAgree, Initialization
<1>10. EmptyInv' /\ HeapInv'
  BY <1>1, <1>5 DEF EmptyInv, HeapInv, HoldsNothing
<1>11. AnswersItsCall' /\ PictureFits'
  BY <1>5 DEF AnswersItsCall, PictureFits
<1>12. QED
  BY <1>6, <1>7, <1>8, <1>9, <1>10, <1>11

(* create() goes on without a Worker.                                      *)
LEMMA NoWorkerStep ==
  ASSUME EngineInv, NoWorker
  PROVE  EngineInv'
<1> USE DEF EngineInv
<1>1. /\ creating = "start" /\ creating' = "direct"
      /\ UNCHANGED <<state, pending, nextRequestId, call, answer, workerThread, made, errors>>
  BY DEF NoWorker
<1>2. TypeOK' /\ MessagesOK' /\ OwnersAgree'
  BY <1>1 DEF TypeOK, MessagesOK, OwnersAgree, workerThread, Awaited
<1>3. CallsInv'
  BY <1>1 DEF CallsInv, Busy, Awaited
<1>4. EmptyInv' /\ HeapInv'
  BY <1>1 DEF EmptyInv, HeapInv, HoldsNothing, workerThread
<1>5. AnswersItsCall' /\ PictureFits'
  BY <1>1 DEF AnswersItsCall, PictureFits, workerThread
<1>6. QED
  BY <1>2, <1>3, <1>4, <1>5

(* create() loads the page's own module and returns.                       *)
LEMMA InitializeDirectStep ==
  ASSUME EngineInv, InitializeDirect
  PROVE  EngineInv'
<1> USE DEF EngineInv
<1>1. creating = "direct" /\ HoldsNothing /\ state = "CREATING"
  BY DEF InitializeDirect, EmptyInv, CallsInv
<1>2. /\ creating' = "returned" /\ state' = "READY"
      /\ UNCHANGED <<pending, nextRequestId, call, answer, worker, inbox, outbox,
                     made, errors>>
      /\ heap' = [heap EXCEPT !.page = NewModule]
  BY DEF InitializeDirect
<1>3. /\ heap' \in [{"thread", "page"} -> Modules]
      /\ heap'.thread = heap.thread /\ heap'.page = NewModule
  BY <1>2, ModuleTypes DEF TypeOK
<1>4. DOMAIN pending = {} /\ Awaited = {} /\ ~worker
  BY <1>1, NoPromises DEF HoldsNothing, Awaited
<1>5. TypeOK'
  BY <1>2, <1>3 DEF TypeOK, Awaited
<1>6. MessagesOK' /\ OwnersAgree'
  BY <1>2, <1>4 DEF MessagesOK, OwnersAgree
<1>7. CallsInv'
  BY <1>1, <1>2, <1>4, NoCallsYet DEF CallsInv, Busy, Awaited
<1>8. EmptyInv'
  BY <1>2 DEF EmptyInv
<1>9. HeapInv'
  BY <1>2, <1>3, <1>4, ModuleTypes, Promises, Facts DEF HeapInv
<1>10. AnswersItsCall' /\ PictureFits'
  BY <1>2, <1>3, ModuleTypes DEF AnswersItsCall, PictureFits
<1>11. QED
  BY <1>5, <1>6, <1>7, <1>8, <1>9, <1>10

(* The Worker is closed while create() is under way, with or without a     *)
(* module of its own: what is left is an engine that holds nothing.        *)
LEMMA GivenUp ==
  ASSUME EngineInv, creating \in {"worker", "direct"}, CloseWorker,
         heap' \in {[heap EXCEPT !.thread = NoModule], [heap EXCEPT !.page = NoModule]},
         UNCHANGED <<nextRequestId, call, answer, made>>, errors' \in Nat,
         \/ creating' = "direct" /\ state' = state /\ heap' = [heap EXCEPT !.thread = NoModule]
            /\ creating = "worker"
         \/ creating' = "rejected" /\ state' = "DESTROYED" /\ creating = "direct"
            /\ heap' = [heap EXCEPT !.page = NoModule]
  PROVE  EngineInv'
<1> USE DEF EngineInv
<1>1. state = "CREATING"
  BY DEF CallsInv
<1>2. /\ heap' \in [{"thread", "page"} -> Modules]
      /\ ~heap'.thread.loaded /\ ~heap'.page.loaded
      /\ \A h \in {"thread", "page"} : heap'[h] \in {heap[h], NoModule}
  <2>1. creating = "worker" => ~heap.page.loaded
    BY DEF EmptyInv
  <2>2. creating = "direct" => ~heap.thread.loaded
    BY DEF EmptyInv, HoldsNothing
  <2>3. QED
    BY <2>1, <2>2, ModuleTypes DEF TypeOK
<1>3. worker' \in BOOLEAN /\ worker' = FALSE
  BY Closed
<1>4. TypeOK'
  BY <1>1, <1>2, <1>3, Closed DEF TypeOK
<1>5. MessagesOK' /\ OwnersAgree'
  BY Closed, EmptySeq DEF MessagesOK, OwnersAgree
<1>6. CallsInv'
  BY <1>1, Closed, NoCallsYet DEF CallsInv, Busy
<1>7. EmptyInv'
  BY <1>2, <1>3, Closed DEF EmptyInv, HoldsNothing
<1>8. HeapInv'
  BY <1>2, <1>3, Closed, ModuleTypes, Promises, Facts DEF HeapInv
<1>9. AnswersItsCall' /\ PictureFits'
  BY <1>2, ModuleTypes DEF AnswersItsCall, PictureFits
<1>10. QED
  BY <1>4, <1>5, <1>6, <1>7, <1>8, <1>9

-----------------------------------------------------------------------------
(* The Worker answers the first message of its inbox.                      *)

(* A reply about the right picture goes behind the others.                 *)
LEMMA Replied ==
  ASSUME EngineInv, inbox # <<>>, NEW result \in Results, Reply(Head(inbox).id, result),
         UNCHANGED <<page, worker, made, errors>>,
         result.code = "OK" /\ Head(inbox).owner # Initialization =>
           /\ result.picture = Head(inbox).owner
           /\ result.order = call[Head(inbox).owner].order
  PROVE  /\ MessagesOK' /\ OwnersAgree' /\ CallsInv' /\ AnswersItsCall'
         /\ worker /\ creating \notin {"start", "direct"} /\ state # "DESTROYED"
         /\ \A k \in DOMAIN outbox' :
              \/ k \in DOMAIN outbox /\ outbox'[k] = outbox[k]
              \/ outbox'[k].result = result
<1> USE DEF EngineInv
<1>1. UNCHANGED <<state, creating, pending, nextRequestId, call, answer, worker, made, errors>>
  BY DEF page
<1>2. worker /\ creating \notin {"start", "direct"} /\ state # "DESTROYED"
  BY DEF EmptyInv, HoldsNothing
<1>3. /\ inbox' \in Seq([id: 1 .. nextRequestId - 1, owner: Owners])
      /\ 1 \in DOMAIN inbox /\ Head(inbox) = inbox[1]
      /\ \A k \in DOMAIN inbox' : k + 1 \in DOMAIN inbox /\ inbox'[k] = inbox[k + 1]
  BY Taken DEF Reply, MessagesOK
<1> DEFINE reply == [id |-> Head(inbox).id, result |-> result]
<1>4. reply \in [id: 1 .. nextRequestId - 1, result: Results]
  BY <1>3, Messages
<1>5. outbox \in Seq([id: 1 .. nextRequestId - 1, result: Results]) /\ outbox' = Append(outbox, reply)
  BY DEF Reply, MessagesOK
<1>6. /\ outbox' \in Seq([id: 1 .. nextRequestId - 1, result: Results])
      /\ \A k \in DOMAIN outbox' :
           \/ k \in DOMAIN outbox /\ outbox'[k] = outbox[k]
           \/ outbox'[k] = reply
  BY <1>4, <1>5, Posted
<1>7. MessagesOK'
  BY <1>1, <1>3, <1>6 DEF MessagesOK
<1>8. CallsInv' /\ AnswersItsCall'
  BY <1>1 DEF CallsInv, AnswersItsCall, Busy, Awaited
<1>9. OwnersAgree'
  <2>1. ASSUME NEW k \in DOMAIN inbox'
        PROVE  /\ inbox'[k].owner <= made
               /\ inbox'[k].id \in DOMAIN pending => pending[inbox'[k].id] = inbox'[k].owner
    BY <1>3 DEF OwnersAgree
  <2>2. ASSUME reply.id \in DOMAIN pending, result.code = "OK",
               pending[reply.id] # Initialization
        PROVE  /\ result.picture = pending[reply.id]
               /\ result.order = call[pending[reply.id]].order
    <3>1. pending[reply.id] = Head(inbox).owner
      BY <1>3, <2>2 DEF OwnersAgree
    <3>2. QED
      BY <2>2, <3>1
  <2>3. ASSUME NEW k \in DOMAIN outbox', outbox'[k].id \in DOMAIN pending,
               outbox'[k].result.code = "OK", pending[outbox'[k].id] # Initialization
        PROVE  /\ outbox'[k].result.picture = pending[outbox'[k].id]
               /\ outbox'[k].result.order = call[pending[outbox'[k].id]].order
    <3>1. CASE k \in DOMAIN outbox /\ outbox'[k] = outbox[k]
      BY <2>3, <3>1 DEF OwnersAgree
    <3>2. CASE outbox'[k] = reply
      BY <2>2, <2>3, <3>2
    <3>3. QED
      BY <1>6, <3>1, <3>2
  <2>4. QED
    BY <1>1, <2>1, <2>3 DEF OwnersAgree
<1>10. QED
  BY <1>2, <1>6, <1>7, <1>8, <1>9

(* The Worker initializes its module, or fails to.                         *)
LEMMA WorkerInitializeStep ==
  ASSUME EngineInv, WorkerInitialize
  PROVE  EngineInv'
<1> USE DEF EngineInv
<1>1. PICK code \in {"OK", "ERROR"} :
        /\ Reply(Head(inbox).id, Refusal(code))
        /\ \/ code = "OK" /\ heap' = [heap EXCEPT !.thread = NewModule]
           \/ code = "ERROR" /\ heap' = [heap EXCEPT !.thread.loaded = TRUE]
  BY DEF WorkerInitialize
<1>2. /\ inbox # <<>> /\ Head(inbox).owner = Initialization
      /\ UNCHANGED <<page, worker, made, errors>>
  BY DEF WorkerInitialize
<1>3. Refusal(code) \in Results /\ Refusal(code).code = code
  BY Facts DEF Refusal, Unsettled, Results, Codes
<1>4. /\ MessagesOK' /\ OwnersAgree' /\ CallsInv' /\ AnswersItsCall'
      /\ worker /\ creating \notin {"start", "direct"} /\ state # "DESTROYED"
      /\ \A k \in DOMAIN outbox' :
           \/ k \in DOMAIN outbox /\ outbox'[k] = outbox[k]
           \/ outbox'[k].result = Refusal(code)
  BY <1>1, <1>2, <1>3, Replied
<1>5. /\ heap' \in [{"thread", "page"} -> Modules] /\ heap'.page = heap.page
      /\ \/ code = "OK" /\ heap'.thread = NewModule
         \/ /\ code = "ERROR" /\ heap'.thread.engine = heap.thread.engine
            /\ heap'.thread.picture = heap.thread.picture
            /\ heap'.thread.source = heap.thread.source
            /\ heap'.thread.capacity = heap.thread.capacity
  <2>1. CASE code = "OK"
    BY <1>1, <2>1, ModuleTypes DEF TypeOK
  <2>2. CASE code = "ERROR"
    <3>1. heap' = [heap EXCEPT !.thread = [heap.thread EXCEPT !.loaded = TRUE]]
      BY <1>1, <2>2 DEF TypeOK
    <3>2. [heap.thread EXCEPT !.loaded = TRUE] \in Modules
      BY NativeModules DEF Modules
    <3>3. QED
      BY <2>2, <3>1, <3>2, NativeModules DEF TypeOK, Modules
  <2>3. QED
    BY <2>1, <2>2
<1>6. TypeOK'
  BY <1>2, <1>5 DEF TypeOK, page, Awaited
<1>7. EmptyInv'
  BY <1>2, <1>4, <1>5 DEF EmptyInv, page
<1>8. HeapInv'
  <2>1. ASSUME NEW k \in DOMAIN outbox', outbox'[k].result.code = "OK"
        PROVE  heap'.thread.engine
    BY <1>3, <1>4, <1>5, <2>1, ModuleTypes DEF HeapInv
  <2>2. creating = "returned" => heap'.thread.engine
    BY <1>4, <1>5, ModuleTypes DEF HeapInv
  <2>3. \A h \in {"thread", "page"} :
          heap'[h].capacity <= heap'[h].source /\ heap'[h].picture <= made
    BY <1>5, ModuleTypes, Promises, Facts DEF HeapInv
  <2>4. heap'.page.loaded => heap'.page.engine
    BY <1>5 DEF HeapInv
  <2>5. QED
    BY <1>2, <2>1, <2>2, <2>3, <2>4 DEF HeapInv, page
<1>9. PictureFits'
  BY <1>2, <1>5, ModuleTypes DEF PictureFits, page
<1>10. QED
  BY <1>4, <1>6, <1>7, <1>8, <1>9

(* The Worker runs a picture: it has an engine by then.                    *)
LEMMA WorkerRunStep ==
  ASSUME EngineInv, WorkerRun
  PROVE  EngineInv'
<1> USE DEF EngineInv
<1> DEFINE c == Head(inbox).owner
<1>1. /\ inbox # <<>> /\ c # Initialization
      /\ UNCHANGED <<page, worker, made, errors>>
  BY DEF WorkerRun
<1>2. PICK o \in Outcomes(heap.thread, c) :
        /\ heap' = [heap EXCEPT !.thread = o.module]
        /\ Reply(Head(inbox).id, IF o.ok THEN Lines(o.module) ELSE Refusal("ERROR"))
  BY DEF WorkerRun
<1> DEFINE r == IF o.ok THEN Lines(o.module) ELSE Refusal("ERROR")
<1>3. c \in Calls /\ c <= made
  <2>1. 1 \in DOMAIN inbox /\ c = inbox[1].owner
    BY <1>1, Taken DEF MessagesOK
  <2>2. c \in Owners
    BY <2>1, Messages
  <2>3. QED
    BY <1>1, <2>1, <2>2, Facts DEF OwnersAgree
<1>4. creating = "returned" /\ worker /\ heap.thread.engine
  <2>1. worker
    BY <1>1 DEF EmptyInv
  <2>2. creating = "returned"
    <3> HIDE DEF c
    <3>1. c \in Nat /\ c # 0 /\ made \in Nat
      BY <1>3, Facts, Promises
    <3>2. made # 0
      BY <1>3, <3>1
    <3>3. QED
      BY <3>2 DEF CallsInv
  <2>3. QED
    BY <2>1, <2>2 DEF HeapInv
<1> HIDE DEF c
<1>5. /\ o.module \in Modules /\ o.ok \in BOOLEAN /\ o.module.engine
      /\ o.module.capacity <= o.module.source /\ o.module.picture <= made
      /\ o.module.picture # Initialization => call[o.module.picture].size <= o.module.source
      /\ o.ok => o.module.picture = c /\ o.module.order = call[c].order
  <2>1. heap.thread.capacity <= heap.thread.source /\ heap.thread.picture <= made
    BY DEF HeapInv
  <2>2. heap.thread.picture # Initialization =>
          call[heap.thread.picture].size <= heap.thread.source
    BY DEF PictureFits
  <2>3. heap.thread \in Modules
    BY NativeModules
  <2>4. QED
    BY <1>3, <1>4, <2>1, <2>2, <2>3, Ran
<1>6. /\ r \in Results
      /\ r.code = "OK" => r.picture = c /\ r.order = call[c].order
  <2>1. CASE o.ok
    BY <2>1, <1>5 DEF Lines, Results, Modules, Codes
  <2>2. CASE ~o.ok
    BY <2>2, Facts DEF Refusal, Unsettled, Results, Codes
  <2>3. QED
    BY <2>1, <2>2
<1>7. Reply(Head(inbox).id, r)
  BY <1>2
<1> HIDE DEF r
<1>8. /\ MessagesOK' /\ OwnersAgree' /\ CallsInv' /\ AnswersItsCall'
      /\ worker /\ creating \notin {"start", "direct"} /\ state # "DESTROYED"
  BY <1>1, <1>6, <1>7, Replied DEF c
<1>9. /\ heap' \in [{"thread", "page"} -> Modules]
      /\ heap'.thread = o.module /\ heap'.page = heap.page
  BY <1>2, <1>5 DEF TypeOK
<1>10. TypeOK'
  BY <1>1, <1>9 DEF TypeOK, page, Awaited
<1>11. EmptyInv'
  BY <1>1, <1>8, <1>9 DEF EmptyInv, page
<1>12. HeapInv'
  BY <1>1, <1>5, <1>9 DEF HeapInv, page
<1>13. PictureFits'
  BY <1>1, <1>5, <1>9 DEF PictureFits, page
<1>14. QED
  BY <1>8, <1>10, <1>11, <1>12, <1>13
-----------------------------------------------------------------------------
(* The page takes what comes from the Worker.                              *)

(* A reply whose promise is gone changes nothing but the outbox.           *)
LEMMA DropReplyStep ==
  ASSUME EngineInv, DropReply
  PROVE  EngineInv'
<1> USE DEF EngineInv
<1>1. /\ outbox # <<>> /\ outbox' = Tail(outbox)
      /\ UNCHANGED <<state, creating, pending, nextRequestId, call, answer,
                     worker, inbox, heap, made, errors>>
  BY DEF DropReply, page
<1>2. /\ outbox' \in Seq([id: 1 .. nextRequestId - 1, result: Results])
      /\ \A k \in DOMAIN outbox' : k + 1 \in DOMAIN outbox /\ outbox'[k] = outbox[k + 1]
  BY <1>1, Taken DEF MessagesOK
<1>3. TypeOK' /\ MessagesOK'
  BY <1>1, <1>2 DEF TypeOK, MessagesOK, Awaited
<1>4. CallsInv'
  BY <1>1 DEF CallsInv, Busy, Awaited
<1>5. OwnersAgree'
  BY <1>1, <1>2 DEF OwnersAgree
<1>6. worker
  BY <1>1 DEF EmptyInv
<1>7. EmptyInv'
  BY <1>1, <1>6 DEF EmptyInv, HoldsNothing
<1>8. HeapInv'
  BY <1>1, <1>2 DEF HeapInv
<1>9. AnswersItsCall' /\ PictureFits'
  BY <1>1 DEF AnswersItsCall, PictureFits
<1>10. QED
  BY <1>3, <1>4, <1>5, <1>7, <1>8, <1>9

(* The reply that was awaited: afterwards no promise is left.              *)
LEMMA Took ==
  ASSUME EngineInv, TakeReply
  PROVE  /\ DOMAIN pending' = {} /\ Awaited' = {} /\ Cardinality(DOMAIN pending') = 0
         /\ outbox' \in Seq([id: 1 .. nextRequestId - 1, result: Results])
         /\ \A k \in DOMAIN outbox' : k + 1 \in DOMAIN outbox /\ outbox'[k] = outbox[k + 1]
         /\ 1 \in DOMAIN outbox /\ Head(outbox) = outbox[1]
         /\ worker /\ state # "DESTROYED"
<1> USE DEF EngineInv
<1>1. /\ outbox # <<>> /\ Head(outbox).id \in DOMAIN pending
      /\ outbox' = Tail(outbox)
      /\ pending' = Restrict(pending, DOMAIN pending \ {Head(outbox).id})
  BY DEF TakeReply
<1>2. DOMAIN pending' = DOMAIN pending \ {Head(outbox).id}
  BY <1>1 DEF Restrict
<1>3. DOMAIN pending' = {}
  BY <1>1, <1>2 DEF CallsInv
<1>4. Awaited' = {} /\ Cardinality(DOMAIN pending') = 0
  BY <1>3, FS_EmptySet DEF Awaited, Range
<1>5. /\ outbox' \in Seq([id: 1 .. nextRequestId - 1, result: Results])
      /\ \A k \in DOMAIN outbox' : k + 1 \in DOMAIN outbox /\ outbox'[k] = outbox[k + 1]
      /\ 1 \in DOMAIN outbox /\ Head(outbox) = outbox[1]
  BY <1>1, Taken DEF MessagesOK
<1>6. worker /\ state # "DESTROYED"
  BY <1>1 DEF EmptyInv, HoldsNothing
<1>7. QED
  BY <1>3, <1>4, <1>5, <1>6

(* The reply to initialize readies the engine.                             *)
LEMMA WorkerReadyStep ==
  ASSUME EngineInv, WorkerReady
  PROVE  EngineInv'
<1> USE DEF EngineInv
<1>1. TakeReply /\ pending[Head(outbox).id] = Initialization
      /\ Head(outbox).id \in DOMAIN pending /\ Head(outbox).result.code = "OK"
      /\ creating' = "returned" /\ state' = "READY"
      /\ UNCHANGED <<nextRequestId, call, answer, worker, inbox, heap, made, errors>>
  BY DEF WorkerReady, TakeReply
<1>2. creating = "worker" /\ state = "CREATING"
  BY <1>1, Promises DEF CallsInv
<1>3. /\ DOMAIN pending' = {} /\ Awaited' = {} /\ Cardinality(DOMAIN pending') = 0
      /\ outbox' \in Seq([id: 1 .. nextRequestId - 1, result: Results])
      /\ \A k \in DOMAIN outbox' : k + 1 \in DOMAIN outbox /\ outbox'[k] = outbox[k + 1]
      /\ 1 \in DOMAIN outbox /\ Head(outbox) = outbox[1] /\ worker
  BY <1>1, Took
<1>4. TypeOK'
  BY <1>1, <1>3 DEF TypeOK
<1>5. MessagesOK'
  BY <1>1, <1>3 DEF MessagesOK
<1>6. CallsInv'
  BY <1>1, <1>2, <1>3, NoCallsYet DEF CallsInv, Busy
<1>7. OwnersAgree'
  BY <1>1, <1>3 DEF OwnersAgree
<1>8. EmptyInv'
  BY <1>1, <1>3 DEF EmptyInv
<1>9. HeapInv'
  <2>1. heap.thread.engine
    BY <1>1, <1>3 DEF HeapInv
  <2>2. QED
    BY <1>1, <1>3, <2>1 DEF HeapInv
<1>10. AnswersItsCall' /\ PictureFits'
  BY <1>1 DEF AnswersItsCall, PictureFits
<1>11. QED
  BY <1>4, <1>5, <1>6, <1>7, <1>8, <1>9, <1>10

(* A call settles by what came from the Worker: what its promise and the   *)
(* outbox are afterwards, and that nothing else changed, is assumed.       *)
LEMMA SettledByPage ==
  ASSUME EngineInv, NEW c \in Calls, NEW r \in AnswerTypes, NEW b \in BOOLEAN,
         SettleCall(c, r, b), Busy(c),
         r.code = "OK" => r.picture = c /\ r.order = call[c].order,
         DOMAIN pending' = {}, worker,
         UNCHANGED <<creating, nextRequestId, worker, inbox, heap, made>>,
         errors' \in Nat,
         outbox' \in Seq([id: 1 .. nextRequestId - 1, result: Results]),
         \A k \in DOMAIN outbox' :
           \E l \in DOMAIN outbox : outbox'[k] = outbox[l]
  PROVE  EngineInv'
<1> USE DEF EngineInv
<1>1. CallsInv' /\ DOMAIN pending' \subseteq 1 .. nextRequestId' - 1
      /\ Cardinality(DOMAIN pending') <= 1 /\ Awaited' \subseteq Owners
  BY SettledCalls
<1>2. /\ call' \in [Calls -> CallTypes] /\ answer' \in [Calls -> AnswerTypes]
      /\ \A d \in Calls : call'[d].size = call[d].size /\ call'[d].order = call[d].order
      /\ AnswersItsCall' /\ state' \in {"READY", "DESTROYED"}
      /\ state' = "DESTROYED" <=> state = "DESTROYED"
      /\ creating = "returned"
  BY Settled
<1>3. TypeOK'
  BY <1>1, <1>2 DEF TypeOK, CallTypes, AnswerTypes
<1>4. MessagesOK' /\ OwnersAgree'
  BY DEF MessagesOK, OwnersAgree
<1>5. state # "DESTROYED"
  BY DEF EmptyInv, HoldsNothing
<1>6. EmptyInv'
  BY <1>2, <1>5 DEF EmptyInv
<1>7. HeapInv'
  BY DEF HeapInv
<1>8. PictureFits'
  <2>1. ASSUME NEW h \in {"thread", "page"}, heap'[h].picture # Initialization
        PROVE  heap'[h].engine /\ call'[heap'[h].picture].size <= heap'[h].source
    <3>1. heap[h].picture \in Calls
      BY <2>1, NativeModules, Facts
    <3>2. QED
      BY <1>2, <2>1, <3>1 DEF PictureFits
  <2>2. QED
    BY <2>1 DEF PictureFits
<1>9. QED
  BY <1>1, <1>2, <1>3, <1>4, <1>6, <1>7, <1>8

(* The reply to a call settles the call it was filed under, by its lines.  *)
LEMMA WorkerAnswersStep ==
  ASSUME EngineInv, WorkerAnswers
  PROVE  EngineInv'
<1> USE DEF EngineInv
<1>1. /\ TakeReply /\ Head(outbox).id \in DOMAIN pending
      /\ UNCHANGED <<creating, nextRequestId, worker, inbox, heap, made, errors>>
  BY DEF WorkerAnswers, TakeReply
<1> DEFINE result == Head(outbox).result
           r == IF result.code = "ERROR" THEN Refusal("LW_OCR_FAILED") ELSE result
<1>2. PICK c \in Calls :
        pending[Head(outbox).id] = c /\ SettleCall(c, r, result.code = "ERROR")
  BY DEF WorkerAnswers
<1>3. /\ DOMAIN pending' = {}
      /\ outbox' \in Seq([id: 1 .. nextRequestId - 1, result: Results])
      /\ \A k \in DOMAIN outbox' : k + 1 \in DOMAIN outbox /\ outbox'[k] = outbox[k + 1]
      /\ 1 \in DOMAIN outbox /\ Head(outbox) = outbox[1] /\ worker
  BY <1>1, Took
<1>4. Busy(c) /\ c # Initialization
  BY <1>1, <1>2, Promises, Facts DEF Busy
<1>5. result \in Results /\ result = outbox[1].result
  BY <1>3, Messages
<1>6. r \in AnswerTypes
  <2>1. CASE result.code = "ERROR"
    BY <2>1, Refusals DEF Codes
  <2>2. CASE result.code # "ERROR"
    BY <1>5, <2>2 DEF Results, AnswerTypes
  <2>3. QED
    BY <2>1, <2>2
<1>7. r.code = "OK" => r.picture = c /\ r.order = call[c].order
  <2>1. CASE result.code = "ERROR"
    BY <2>1, Refusals DEF Codes
  <2>2. CASE result.code # "ERROR"
    BY <1>1, <1>2, <1>3, <1>4, <2>2 DEF OwnersAgree
  <2>3. QED
    BY <2>1, <2>2
<1>8. errors' \in Nat
  BY <1>1 DEF MessagesOK
<1>9. \A k \in DOMAIN outbox' : \E l \in DOMAIN outbox : outbox'[k] = outbox[l]
  BY <1>3
<1>10. (result.code = "ERROR") \in BOOLEAN
  OBVIOUS
<1> HIDE DEF r, result
<1>11. QED
  BY <1>1, <1>2, <1>3, <1>4, <1>6, <1>7, <1>8, <1>9, <1>10, SettledByPage

(* An error event settles the call that waits and leaves its reply on the  *)
(* way.                                                                    *)
LEMMA WorkerErrorStep ==
  ASSUME EngineInv, WorkerError
  PROVE  EngineInv'
<1> USE DEF EngineInv
<1>1. /\ worker /\ Initialization \notin Awaited /\ errors' = errors + 1
      /\ pending' = <<>>
      /\ UNCHANGED <<creating, nextRequestId, worker, inbox, outbox, heap, made>>
  BY DEF WorkerError, workerThread
<1>2. DOMAIN pending' = {} /\ Awaited' = {} /\ Cardinality(DOMAIN pending') = 0
  BY <1>1, NoPromises DEF Awaited
<1>3. errors' \in Nat
  BY <1>1 DEF MessagesOK
<1>4. CASE Awaited = {}
  <2>1. UNCHANGED <<call, answer, state>>
    BY <1>4 DEF WorkerError
  <2>2. TypeOK'
    BY <1>1, <1>2, <2>1 DEF TypeOK
  <2>3. MessagesOK' /\ OwnersAgree'
    BY <1>1, <1>2, <1>3, <2>1 DEF MessagesOK, OwnersAgree
  <2>4. CallsInv'
    BY <1>1, <1>2, <1>4, <2>1 DEF CallsInv, Busy
  <2>5. state # "DESTROYED" /\ creating \notin {"start", "direct"}
    BY <1>1 DEF EmptyInv, HoldsNothing
  <2>6. EmptyInv' /\ HeapInv'
    BY <1>1, <2>1, <2>5 DEF EmptyInv, HeapInv
  <2>7. AnswersItsCall' /\ PictureFits'
    BY <1>1, <2>1 DEF AnswersItsCall, PictureFits
  <2>8. QED
    BY <2>2, <2>3, <2>4, <2>6, <2>7
<1>5. CASE Awaited # {}
  <2>1. PICK c \in Awaited : SettleCall(c, Refusal("LW_OCR_FAILED"), TRUE)
    BY <1>5 DEF WorkerError
  <2>2. c \in Calls
    BY <1>1, Facts DEF TypeOK
  <2>3. Busy(c)
    BY <2>2 DEF CallsInv, Busy
  <2>4. /\ Refusal("LW_OCR_FAILED") \in AnswerTypes
        /\ Refusal("LW_OCR_FAILED").code # "OK"
    BY Refusals DEF Codes
  <2>5. outbox' \in Seq([id: 1 .. nextRequestId - 1, result: Results])
    BY <1>1 DEF MessagesOK
  <2>6. \A k \in DOMAIN outbox' : \E l \in DOMAIN outbox : outbox'[k] = outbox[l]
    BY <1>1
  <2>7. QED
    BY <1>1, <1>2, <1>3, <2>1, <2>2, <2>3, <2>4, <2>5, <2>6, SettledByPage
<1>6. QED
  BY <1>4, <1>5

(* The three ways in which create() gives up a Worker or the page.         *)
LEMMA GivenUpSteps ==
  ASSUME EngineInv,
         InitializeDirectFails \/ WorkerInitializeFailed \/ WorkerErrorInitializing
  PROVE  EngineInv'
<1> USE DEF EngineInv
<1>1. errors \in Nat /\ errors + 1 \in Nat
  BY DEF MessagesOK
<1>2. CASE InitializeDirectFails
  BY <1>1, <1>2, GivenUp DEF InitializeDirectFails
<1>3. ASSUME FallBack, Initialization \in Awaited, errors' \in Nat
      PROVE  EngineInv'
  <2>1. creating = "worker"
    BY <1>3 DEF CallsInv
  <2>2. QED
    BY <1>3, <2>1, GivenUp DEF FallBack
<1>4. CASE WorkerInitializeFailed
  <2>1. Initialization \in Awaited
    BY <1>4, Promises DEF WorkerInitializeFailed
  <2>2. FallBack /\ errors' = errors
    BY <1>4 DEF WorkerInitializeFailed
  <2>3. QED
    BY <1>1, <1>3, <2>1, <2>2
<1>5. CASE WorkerErrorInitializing
  <2>1. Initialization \in Awaited /\ FallBack /\ errors' = errors + 1
    BY <1>5 DEF WorkerErrorInitializing
  <2>2. QED
    BY <1>1, <1>3, <2>1
<1>6. QED
  BY <1>2, <1>4, <1>5
(* Every step of the engine preserves the invariant.                       *)
LEMMA EngineStep == EngineInv /\ [WebNext]_webVars => EngineInv'
<1> SUFFICES ASSUME EngineInv, [WebNext]_webVars PROVE EngineInv'
  OBVIOUS
<1>1. CASE Initialize
  BY <1>1, StartWorkerStep, NoWorkerStep, InitializeDirectStep, GivenUpSteps
  DEF Initialize
<1>2. CASE Work
  BY <1>2, WorkerInitializeStep, WorkerRunStep DEF Work
<1>3. CASE Handle
  BY <1>3, DropReplyStep, WorkerReadyStep, WorkerAnswersStep, GivenUpSteps DEF Handle
<1>4. CASE WorkerErrorInitializing \/ WorkerError
  BY <1>4, GivenUpSteps, WorkerErrorStep
<1>5. CASE Recognize \/ RecognizeRefused \/ Destroy
  BY <1>5, RecognizeStep, RecognizeRefusedStep, DestroyStep
<1>6. ASSUME NEW c \in Calls, Prepared(c) PROVE EngineInv'
  BY <1>6, PreparedInVain, PreparedForWorkerStep, PreparedRunsHereStep DEF Prepared
<1>7. CASE UNCHANGED webVars
  <2>1. UNCHANGED <<state, creating, pending, nextRequestId, call, answer, worker,
                    inbox, outbox, heap, made, errors>>
    BY <1>7 DEF webVars, page, workerThread
  <2>2. TypeOK' /\ MessagesOK' /\ OwnersAgree'
    BY <2>1 DEF EngineInv, TypeOK, MessagesOK, OwnersAgree, Awaited
  <2>3. CallsInv' /\ EmptyInv' /\ HeapInv'
    BY <2>1 DEF EngineInv, CallsInv, EmptyInv, HeapInv, HoldsNothing, Busy, Awaited
  <2>4. AnswersItsCall' /\ PictureFits'
    BY <2>1 DEF EngineInv, AnswersItsCall, PictureFits
  <2>5. QED
    BY <2>2, <2>3, <2>4 DEF EngineInv
<1>8. QED
  BY <1>1, <1>2, <1>3, <1>4, <1>5, <1>6, <1>7 DEF WebNext

(* A destroyed engine stays destroyed: no continuation of a call that was  *)
(* under way brings it back.                                               *)
LEMMA StaysDestroyed ==
  ASSUME EngineInv, [WebNext]_webVars, state = "DESTROYED"
  PROVE  state' = "DESTROYED"
<1> USE DEF EngineInv
<1>1. /\ ~worker /\ pending = <<>> /\ inbox = <<>> /\ outbox = <<>>
      /\ creating \in {"returned", "rejected"}
  BY DEF EmptyInv, HoldsNothing, CallsInv
<1>2. CASE Initialize
  BY <1>1, <1>2 DEF Initialize, StartWorker, NoWorker, InitializeDirect,
                    InitializeDirectFails
<1>3. CASE Work \/ Handle
  BY <1>1, <1>3 DEF Work, WorkerInitialize, WorkerRun, Handle, DropReply,
                    WorkerReady, WorkerAnswers, WorkerInitializeFailed, TakeReply
<1>4. CASE WorkerErrorInitializing \/ WorkerError
  BY <1>1, <1>4 DEF WorkerErrorInitializing, WorkerError
<1>5. CASE Recognize \/ RecognizeRefused \/ Destroy
  BY <1>5 DEF Recognize, RecognizeRefused, Destroy
<1>6. ASSUME NEW c \in Calls, Prepared(c) PROVE state' = "DESTROYED"
  BY <1>6 DEF Prepared, PrepareFails, PreparedForWorker, PreparedRunsHere,
              PreparedTooLate, SettleCall
<1>7. CASE UNCHANGED webVars
  BY <1>7 DEF webVars, page
<1>8. QED
  BY <1>2, <1>3, <1>4, <1>5, <1>6, <1>7 DEF WebNext

-----------------------------------------------------------------------------
(* The inductive invariant holds of the engine, whatever the sizes and     *)
(* however many calls, error events and moments for destroy() there are.   *)
THEOREM EngineInvariant == WebSpec => []EngineInv
<1>1. WebInit => EngineInv
  BY InitInv
<1>2. EngineInv /\ [WebNext]_webVars => EngineInv'
  BY EngineStep
<1>3. QED
  BY <1>1, <1>2, PTL DEF WebSpec

(* The fields of the SDK's engine keep their types, and at most one        *)
(* promise is filed in _pending.                                           *)
THEOREM Typing == WebSpec => []TypeOK
<1>1. EngineInv => TypeOK
  BY DEF EngineInv
<1>2. QED
  BY <1>1, EngineInvariant, PTL

(* recognize() resolves with the lines of the picture it was given, in the *)
(* order it asked for, also after an error event left the reply to an      *)
(* earlier call on its way.                                                *)
THEOREM AnswersAreTheCalls == WebSpec => []AnswersItsCall
<1>1. EngineInv => AnswersItsCall
  BY DEF EngineInv
<1>2. QED
  BY <1>1, EngineInvariant, PTL

(* A picture is copied only into a source buffer that holds it, also after *)
(* the allocation of a larger one failed.                                  *)
THEOREM PicturesFit == WebSpec => []PictureFits
<1>1. EngineInv => PictureFits
  BY DEF EngineInv
<1>2. QED
  BY <1>1, EngineInvariant, PTL

(* Once destroy() was called, or create() rejected, the engine is never    *)
(* anything but destroyed and holds no Worker, promise or native module.   *)
THEOREM DestroyedForGood == WebSpec => DestroyIsFinal
<1>1. ASSUME EngineInv, [WebNext]_webVars
      PROVE  [(state = "DESTROYED" \/ state' = "DESTROYED") =>
                (state' = "DESTROYED" /\ HoldsNothing')]_webVars
  <2>1. EngineInv'
    BY <1>1, EngineStep
  <2>2. state' = "DESTROYED" => HoldsNothing'
    BY <2>1 DEF EngineInv, EmptyInv
  <2>3. state = "DESTROYED" => state' = "DESTROYED"
    BY <1>1, StaysDestroyed
  <2>4. QED
    BY <2>2, <2>3
<1>2. EngineInv /\ [WebNext]_webVars =>
        [(state = "DESTROYED" \/ state' = "DESTROYED") =>
           (state' = "DESTROYED" /\ HoldsNothing')]_webVars
  BY <1>1
<1>3. QED
  BY <1>2, EngineInvariant, PTL DEF WebSpec, DestroyIsFinal

=============================================================================
