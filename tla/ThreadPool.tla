----------------------------- MODULE ThreadPool -----------------------------
(***************************************************************************)
(* The thread pool of src/src/runtime/parallel.c: worker_loop,             *)
(* lw_thread_pool_create, lw_thread_pool_run and lw_thread_pool_free, with *)
(* the caller's thread (index 0) and one thread per worker index.          *)
(*                                                                         *)
(* The fields of lw_thread_pool are read and written only under its mutex, *)
(* so a critical section is one step.  A wait on a condition variable ends *)
(* the critical section and joins the wait set in that same step; a wake   *)
(* only makes the thread runnable, and the predicate is read again in a    *)
(* later step.  Spurious wake-ups are allowed.  What runs outside the      *)
(* mutex - the callbacks, the start and the join of threads - is a step of *)
(* its own.                                                                *)
(***************************************************************************)
EXTENDS Naturals, FiniteSets

CONSTANTS
  MaxWorkers,         \* LW_PARALLEL_MAX_WORKERS
  MaxRequests         \* bound on the number of lw_thread_pool_run calls

ASSUME MaxWorkersAssumption == MaxWorkers \in Nat \ {0, 1}
ASSUME MaxRequestsAssumption == MaxRequests \in Nat

Indices == 0 .. MaxWorkers - 1
Workers == 1 .. MaxWorkers - 1

VARIABLES
  \* the fields of struct lw_thread_pool; worker_count = 0 is a NULL pool
  worker_count, active_worker_count, pending_worker_count,
  generation, stopping, context,
  \* each pool thread: where it is in worker_loop, and its locals
  wpc, observed_generation, wcontext,
  \* the thread that owns the pool
  cpc, cursor,
  \* the request under way, and what has been called for it
  request, width, calls, returns

pool == <<worker_count, active_worker_count, pending_worker_count,
          generation, stopping, context>>
threads == <<wpc, observed_generation, wcontext>>
history == <<request, width, calls, returns>>
poolVars == <<pool, threads, cpc, cursor, history>>

-----------------------------------------------------------------------------
WorkerStates ==
  {"absent", "ready", "waiting", "running", "reporting", "exited"}
CallerStates ==
  {"idle", "creating", "inline", "calling", "joining", "blocked", "freeing"}

NoThreads == [w \in Workers |-> "absent"]

PoolInit ==
  /\ worker_count = 0 /\ active_worker_count = 0 /\ pending_worker_count = 0
  /\ generation = 0 /\ stopping = 0 /\ context = 0
  /\ wpc = NoThreads
  /\ observed_generation = [w \in Workers |-> 0]
  /\ wcontext = [w \in Workers |-> 0]
  /\ cpc = "idle" /\ cursor = 0
  /\ request = 0 /\ width = 0
  /\ calls = [i \in Indices |-> 0]
  /\ returns = [i \in Indices |-> 0]

(* Mutation: the broadcast is forgotten. *)
WakeNobody == UNCHANGED wpc

(* pthread_cond_broadcast on work_condition. *)
WakeAllWorkers ==
  wpc' = [w \in Workers |-> IF wpc[w] = "waiting" THEN "ready" ELSE wpc[w]]

AtMost(n, bound) == IF n > bound THEN bound ELSE n

-----------------------------------------------------------------------------
(* lw_thread_pool_create.  A count below 2, or a failed allocation or      *)
(* initialisation, returns NULL and changes nothing.  The threads are then *)
(* started one by one; those already started run meanwhile.                *)

CreateBegin(n) ==
  /\ cpc = "idle" /\ worker_count = 0 /\ n >= 2
  /\ worker_count' = 1
  /\ active_worker_count' = 0 /\ pending_worker_count' = 0
  /\ generation' = 0 /\ stopping' = 0 /\ context' = 0
  /\ cursor' = AtMost(n, MaxWorkers)
  /\ cpc' = "creating"
  /\ UNCHANGED <<threads, history>>

CreateThread ==
  /\ cpc = "creating" /\ worker_count < cursor
  /\ wpc' = [wpc EXCEPT ![worker_count] = "ready"]
  /\ observed_generation' = [observed_generation EXCEPT ![worker_count] = 0]
  /\ worker_count' = worker_count + 1
  /\ UNCHANGED <<active_worker_count, pending_worker_count, generation,
                 stopping, context, wcontext, cpc, cursor, history>>

(* A thread cannot be started: the loop breaks, with those started so far. *)
CreateThreadFails ==
  /\ cpc = "creating" /\ worker_count < cursor
  /\ cursor' = worker_count
  /\ UNCHANGED <<pool, threads, cpc, history>>

(* With no thread at all the pool is freed again and NULL is returned. *)
CreateReturn ==
  /\ cpc = "creating" /\ worker_count = cursor
  /\ worker_count' = IF worker_count < 2 THEN 0 ELSE worker_count
  /\ cpc' = "idle" /\ cursor' = 0
  /\ UNCHANGED <<active_worker_count, pending_worker_count, generation,
                 stopping, context, threads, history>>

-----------------------------------------------------------------------------
(* lw_thread_pool_run. *)

StartRequest(n) ==
  /\ request < MaxRequests
  /\ request' = request + 1
  /\ width' = n
  /\ calls' = [i \in Indices |-> IF i = 0 THEN 1 ELSE 0]
  /\ returns' = [i \in Indices |-> 0]

(* Without a pool, or for fewer than two workers, the callback runs here. *)
RunInline(n) ==
  /\ cpc = "idle" /\ (worker_count = 0 \/ n < 2)
  /\ StartRequest(1)
  /\ cpc' = "inline"
  /\ UNCHANGED <<pool, threads, cursor>>

RunInlineReturn ==
  /\ cpc = "inline"
  /\ returns' = [returns EXCEPT ![0] = @ + 1]
  /\ width' = 0
  /\ cpc' = "idle"
  /\ UNCHANGED <<pool, threads, cursor, request, calls>>

(* Mutation: the caller is counted among the workers to wait for. *)
RunPublishCountsCaller(n) ==
  LET m == AtMost(n, worker_count) IN
  /\ cpc = "idle" /\ worker_count # 0 /\ n >= 2
  /\ StartRequest(m)
  /\ context' = request'
  /\ active_worker_count' = m
  /\ pending_worker_count' = m
  /\ generation' = generation + 1
  /\ WakeAllWorkers
  /\ cpc' = "calling"
  /\ UNCHANGED <<worker_count, stopping, observed_generation, wcontext,
                 cursor>>

(* The request is published under the mutex and every waiter is woken. *)
RunPublish(n) ==
  LET m == AtMost(n, worker_count) IN
  /\ cpc = "idle" /\ worker_count # 0 /\ n >= 2
  /\ StartRequest(m)
  /\ context' = request'
  /\ active_worker_count' = m
  /\ pending_worker_count' = m - 1
  /\ generation' = generation + 1
  /\ WakeAllWorkers
  /\ cpc' = "calling"
  /\ UNCHANGED <<worker_count, stopping, observed_generation, wcontext,
                 cursor>>

RunCallerCallback ==
  /\ cpc = "calling"
  /\ returns' = [returns EXCEPT ![0] = @ + 1]
  /\ cpc' = "joining"
  /\ UNCHANGED <<pool, threads, cursor, request, width, calls>>

(* Mutation: the caller does not wait for the others. *)
RunReturnEarly ==
  /\ cpc = "joining"
  /\ width' = 0
  /\ cpc' = "idle"
  /\ UNCHANGED <<pool, threads, cursor, request, calls, returns>>

(* The while loop around wait_for_done: return, or join the wait set. *)
RunReturn ==
  /\ cpc = "joining" /\ pending_worker_count = 0
  /\ width' = 0
  /\ cpc' = "idle"
  /\ UNCHANGED <<pool, threads, cursor, request, calls, returns>>

RunWait ==
  /\ cpc = "joining" /\ pending_worker_count # 0
  /\ cpc' = "blocked"
  /\ UNCHANGED <<pool, threads, cursor, history>>

RunSpuriousWake ==
  /\ cpc = "blocked"
  /\ cpc' = "joining"
  /\ UNCHANGED <<pool, threads, cursor, history>>

-----------------------------------------------------------------------------
(* worker_loop. *)

WorkerWait(w) ==
  /\ wpc[w] = "ready"
  /\ stopping = 0 /\ generation = observed_generation[w]
  /\ wpc' = [wpc EXCEPT ![w] = "waiting"]
  /\ UNCHANGED <<pool, observed_generation, wcontext, cpc, cursor, history>>

WorkerSpuriousWake(w) ==
  /\ wpc[w] = "waiting"
  /\ wpc' = [wpc EXCEPT ![w] = "ready"]
  /\ UNCHANGED <<pool, observed_generation, wcontext, cpc, cursor, history>>

WorkerExit(w) ==
  /\ wpc[w] = "ready" /\ stopping # 0
  /\ wpc' = [wpc EXCEPT ![w] = "exited"]
  /\ UNCHANGED <<pool, observed_generation, wcontext, cpc, cursor, history>>

(* Mutation: the thread does not remember the generation it has served. *)
WorkerTakeForgets(w) ==
  /\ wpc[w] = "ready"
  /\ stopping = 0 /\ generation # observed_generation[w]
  /\ w < active_worker_count
  /\ wpc' = [wpc EXCEPT ![w] = "running"]
  /\ wcontext' = [wcontext EXCEPT ![w] = context]
  /\ calls' = [calls EXCEPT ![w] = @ + 1]
  /\ UNCHANGED <<pool, observed_generation, cpc, cursor, request, width,
                 returns>>

(* The thread copies the request under the mutex and calls it, or goes     *)
(* round its loop again when the request does not reach its index.         *)
WorkerTake(w) ==
  /\ wpc[w] = "ready"
  /\ stopping = 0 /\ generation # observed_generation[w]
  /\ observed_generation' = [observed_generation EXCEPT ![w] = generation]
  /\ wcontext' = [wcontext EXCEPT ![w] = context]
  /\ \/ /\ w >= active_worker_count
        /\ UNCHANGED <<wpc, calls>>
     \/ /\ w < active_worker_count
        /\ wpc' = [wpc EXCEPT ![w] = "running"]
        /\ calls' = [calls EXCEPT ![w] = @ + 1]
  /\ UNCHANGED <<pool, cpc, cursor, request, width, returns>>

WorkerCallbackReturns(w) ==
  /\ wpc[w] = "running"
  /\ wpc' = [wpc EXCEPT ![w] = "reporting"]
  /\ returns' = [returns EXCEPT ![w] = @ + 1]
  /\ UNCHANGED <<pool, observed_generation, wcontext, cpc, cursor, request,
                 width, calls>>

(* The last worker to report signals done_condition. *)
WorkerReport(w) ==
  /\ wpc[w] = "reporting"
  /\ pending_worker_count' = pending_worker_count - 1
  /\ cpc' = IF pending_worker_count' = 0 /\ cpc = "blocked"
            THEN "joining" ELSE cpc
  /\ wpc' = [wpc EXCEPT ![w] = "ready"]
  /\ UNCHANGED <<worker_count, active_worker_count, generation, stopping,
                 context, observed_generation, wcontext, cursor, history>>

-----------------------------------------------------------------------------
(* lw_thread_pool_free: stop, wake everybody, join in index order, and     *)
(* destroy.  The cursor is the next thread to join.                        *)

FreeStop ==
  /\ cpc = "idle" /\ worker_count # 0
  /\ stopping' = 1
  /\ generation' = generation + 1
  /\ WakeAllWorkers
  /\ cpc' = "freeing" /\ cursor' = 1
  /\ UNCHANGED <<worker_count, active_worker_count, pending_worker_count,
                 context, observed_generation, wcontext, history>>

FreeJoin ==
  /\ cpc = "freeing" /\ cursor < worker_count
  /\ wpc[cursor] = "exited"
  /\ cursor' = cursor + 1
  /\ UNCHANGED <<pool, threads, cpc, history>>

FreeDestroy ==
  /\ cpc = "freeing" /\ cursor = worker_count
  /\ worker_count' = 0
  /\ wpc' = [w \in Workers |-> IF wpc[w] = "exited" THEN "absent" ELSE wpc[w]]
  /\ cpc' = "idle" /\ cursor' = 0
  /\ UNCHANGED <<active_worker_count, pending_worker_count, generation,
                 stopping, context, observed_generation, wcontext, history>>

-----------------------------------------------------------------------------
Worker(w) ==
  \/ WorkerWait(w) \/ WorkerSpuriousWake(w) \/ WorkerExit(w)
  \/ WorkerTake(w) \/ WorkerCallbackReturns(w) \/ WorkerReport(w)

(* The steps the owner takes by itself once it is inside a pool call. *)
CallerStep ==
  \/ CreateThread \/ CreateThreadFails \/ CreateReturn
  \/ RunInlineReturn \/ RunCallerCallback \/ RunReturn \/ RunWait
  \/ FreeJoin \/ FreeDestroy

(* The calls its user makes, with one count above the maximum. *)
Call ==
  \/ \E n \in 0 .. MaxWorkers + 1 :
        CreateBegin(n) \/ RunInline(n) \/ RunPublish(n)
  \/ FreeStop

PoolNext ==
  \/ Call \/ CallerStep \/ RunSpuriousWake
  \/ \E w \in Workers : Worker(w)

(* Threads are scheduled: a thread that can step eventually does.  Nobody  *)
(* has to call the pool, and nothing has to wake spuriously.               *)
WorkerStep(w) ==
  \/ WorkerWait(w) \/ WorkerExit(w)
  \/ WorkerTake(w) \/ WorkerCallbackReturns(w) \/ WorkerReport(w)

Fairness ==
  /\ WF_poolVars(CallerStep)
  /\ \A w \in Workers : WF_poolVars(WorkerStep(w))

PoolSafetySpec == PoolInit /\ [][PoolNext]_poolVars
PoolSpec == PoolSafetySpec /\ Fairness

-----------------------------------------------------------------------------
PoolTypeOK ==
  /\ worker_count \in 0 .. MaxWorkers
  /\ active_worker_count \in 0 .. MaxWorkers
  /\ pending_worker_count \in 0 .. MaxWorkers
  /\ generation \in Nat
  /\ stopping \in {0, 1}
  /\ context \in Nat
  /\ wpc \in [Workers -> WorkerStates]
  /\ observed_generation \in [Workers -> Nat]
  /\ wcontext \in [Workers -> Nat]
  /\ cpc \in CallerStates
  /\ cursor \in 0 .. MaxWorkers
  /\ request \in Nat
  /\ width \in 0 .. MaxWorkers
  /\ calls \in [Indices -> Nat]
  /\ returns \in [Indices -> Nat]

-----------------------------------------------------------------------------
(* Why the barrier holds.  A worker owes a report for the published request *)
(* from the moment the request is published until it has reported.         *)
InRun == cpc \in {"calling", "joining", "blocked"}

Owing ==
  {w \in Workers : /\ w < active_worker_count
                   /\ \/ observed_generation[w] # generation
                      \/ wpc[w] \in {"running", "reporting"}}

(* Which threads exist, and in which phase of the pool's life. *)
LifeInv ==
  /\ \A w \in Workers :
        /\ wpc[w] = "absent" <=> w >= worker_count
        /\ wpc[w] = "exited" => stopping = 1
        /\ w < worker_count => observed_generation[w] <= generation
  /\ stopping = 1 => cpc = "freeing" \/ worker_count = 0
  /\ cpc = "freeing" => stopping = 1 /\ cursor >= 1 /\ cursor <= worker_count
  /\ cpc = "freeing" => \A w \in Workers : w < cursor => wpc[w] = "exited"
  /\ cpc = "creating" => /\ worker_count >= 1 /\ worker_count <= cursor
                         /\ active_worker_count = 0
  /\ cpc \notin {"creating"} => worker_count # 1
  /\ InRun => worker_count >= 2

(* Outside a run nobody works and nobody still has to notice its share.    *)
QuietInv ==
  ~InRun =>
    /\ \A w \in Workers : wpc[w] \notin {"running", "reporting"}
    /\ stopping = 0 => \A w \in Workers :
          w < worker_count /\ w < active_worker_count
             => observed_generation[w] = generation
    /\ width = IF cpc = "inline" THEN 1 ELSE 0
    /\ cpc = "inline" => calls[0] = 1 /\ returns[0] = 0

(* During a run the counter is the number of shares not yet reported, and  *)
(* a share has been called exactly when its worker has seen the generation.*)
ShareInv ==
  InRun =>
    /\ width = active_worker_count
    /\ active_worker_count >= 2 /\ active_worker_count <= worker_count
    /\ context = request
    /\ pending_worker_count = Cardinality(Owing)
    /\ calls[0] = 1
    /\ returns[0] = IF cpc = "calling" THEN 0 ELSE 1
    /\ \A w \in Workers :
         LET taken == w < active_worker_count
                        /\ observed_generation[w] = generation
         IN /\ wpc[w] \in {"running", "reporting"} => taken
            /\ wpc[w] = "running" => wcontext[w] = context
            /\ calls[w] = IF taken THEN 1 ELSE 0
            /\ returns[w] = IF taken /\ wpc[w] # "running" THEN 1 ELSE 0

BarrierInv == LifeInv /\ QuietInv /\ ShareInv

-----------------------------------------------------------------------------
(* The callback and its context belong to the caller's stack frame: while  *)
(* any pool thread is inside a callback, the call of lw_thread_pool_run    *)
(* that published this very context has not returned.                      *)
ContextAlive ==
  \A w \in Workers :
     wpc[w] = "running" =>
        /\ cpc \in {"calling", "joining", "blocked"}
        /\ wcontext[w] = request
        /\ w < width

(* The pool is a parallel for: each index below the width is called once,  *)
(* none beyond it, and the run returns after all of them have.             *)
PF == INSTANCE ParallelFor
ImplementsParallelFor == PF!Spec

(* free destroys the mutex, the condition variables and the struct only    *)
(* when no thread is left that could touch them.                           *)
DestroyedAfterLastThread ==
  [][ worker_count # 0 /\ worker_count' = 0 =>
        \A w \in Workers : wpc[w] \in {"absent", "exited"} ]_poolVars

(* No wake-up is lost: a run that was published returns, and a pool that   *)
(* is being freed is freed, whatever the workers were doing.               *)
RunTerminates == width # 0 ~> width = 0
FreeTerminates == (cpc = "freeing") ~> (cpc = "idle" /\ worker_count = 0)
=============================================================================
