----------------------------- MODULE WebEngine -----------------------------
(***************************************************************************)
(* The engine of the Web SDK, class LwPpocrEngine in                       *)
(* src/web/lw_ppocr_sdk.template.js, its Worker (workerMain) and the       *)
(* native module either of them drives (src/web/lw_web_api.c).             *)
(*                                                                         *)
(* JavaScript runs one task at a time on each thread, so the code between  *)
(* two awaits is one step.  An await is where other steps fall: the        *)
(* application may call recognize() or destroy() there, the Worker works   *)
(* through its inbox, and its replies and error events wait to be handled. *)
(* The continuation of an awaited reply is the microtask that follows the  *)
(* handler, before any other task, and belongs to the handler's step.      *)
(***************************************************************************)
EXTENDS Naturals, Sequences, FiniteSets, Functions

CONSTANTS
  MaxCalls,      \* bound on the calls of recognize()
  Sizes,         \* byte lengths of prepared pictures
  Orders,        \* reading orders
  DefaultOrder,  \* the engine's own reading order
  MaxErrors      \* bound on the error events of the Worker

ASSUME MaxCallsAssumption == MaxCalls \in Nat
ASSUME SizesAssumption == Sizes \subseteq Nat \ {0}
ASSUME OrdersAssumption == DefaultOrder \in Orders

Calls == 1 .. MaxCalls
Initialization == 0            \* the owner of the "initialize" request
Owners == Calls \cup {Initialization}

VARIABLES
  state,         \* _state
  creating,      \* how far create() is
  worker,        \* is _worker an open Worker?
  pending,       \* _pending: request id -> the call that awaits its reply
  nextRequestId, \* _nextRequestId
  inbox,         \* messages posted to the Worker
  outbox,        \* replies the page has not handled
  heap,          \* the native module of the Worker and of the page
  made,          \* calls of recognize() so far
  call,          \* what each call was given, and where it is
  answer,        \* what each call settled with
  errors         \* error events of the Worker so far

page == <<state, creating, pending, nextRequestId, call, answer>>
workerThread == <<worker, inbox, outbox, heap>>
webVars == <<page, workerThread, made, errors>>

-----------------------------------------------------------------------------
(* A native module: is it loaded, has lw_web_init made an engine and the   *)
(* SDK its output buffers, how large is the source buffer, how large does  *)
(* the SDK take it to be, whose picture is in it, the order last set.      *)
NoModule == [loaded |-> FALSE, engine |-> FALSE, source |-> 0,
             capacity |-> 0, picture |-> Initialization, order |-> DefaultOrder]
NewModule == [NoModule EXCEPT !.loaded = TRUE, !.engine = TRUE]

Unsettled == [code |-> "NONE", picture |-> Initialization, order |-> DefaultOrder]
Refusal(code) == [Unsettled EXCEPT !.code = code]

WebInit ==
  /\ state = "CREATING" /\ creating = "start"
  /\ worker = FALSE /\ inbox = <<>> /\ outbox = <<>>
  /\ pending = <<>> /\ nextRequestId = 1
  /\ heap = [thread |-> NoModule, page |-> NoModule]
  /\ made = 0 /\ errors = 0
  /\ call = [c \in Calls |-> [phase |-> "unmade", size |-> 0,
                              order |-> DefaultOrder, broken |-> FALSE]]
  /\ answer = [c \in Calls |-> Unsettled]

\* The source buffer, replaced by one of the size of c's picture when it is
\* taken to be too small.
Grown(module, c) ==
  IF call[c].size <= module.capacity THEN module
  ELSE [module EXCEPT !.source = call[c].size, !.capacity = call[c].size]

\* The picture is copied and the call's reading order set before the run.
Loaded(module, c) ==
  [Grown(module, c) EXCEPT !.picture = c, !.order = call[c].order]

\* The new capacity noted before the allocation that fails.
NotGrownNoted(module, c) == [module EXCEPT !.capacity = call[c].size]

\* The larger buffer could not be allocated: the old one is kept.
NotGrown(module, c) == module

\* What a run for call c may leave behind.
Outcomes(module, c) ==
  [module: {Loaded(module, c)}, ok: BOOLEAN] \cup
  [module: {m \in {NotGrown(module, c)} : call[c].size > module.capacity},
   ok: {FALSE}]

\* What the output buffers hold after a run: the lines of that picture.
Lines(module) ==
  [code |-> "OK", picture |-> module.picture, order |-> module.order]

-----------------------------------------------------------------------------
\* The finally block puts the state back to READY whatever it is.
SettleRevives(c, result, broken) ==
  /\ call' = [call EXCEPT ![c].phase = "settled", ![c].broken = broken]
  /\ answer' = [answer EXCEPT ![c] = result]
  /\ state' = "READY"

(* How a call of recognize() ends: its answer, and in the finally block    *)
(* the engine is ready again unless it was destroyed.                      *)
SettleCall(c, result, broken) ==
  /\ call' = [call EXCEPT ![c].phase = "settled", ![c].broken = broken]
  /\ answer' = [answer EXCEPT ![c] = result]
  /\ state' = IF state = "DESTROYED" THEN state ELSE "READY"

\* A request numbered by how many are pending.
RequestReused(owner) ==
  LET id == Cardinality(DOMAIN pending) + 1
  IN  /\ pending' = [i \in DOMAIN pending \cup {id} |->
                       IF i = id THEN owner ELSE pending[i]]
      /\ inbox' = Append(inbox, [id |-> id, owner |-> owner])
      /\ nextRequestId' = id + 1

\* The promise is filed under the number of the next request.
Request(owner) ==
  /\ pending' = [i \in DOMAIN pending \cup {nextRequestId} |->
                   IF i = nextRequestId THEN owner ELSE pending[i]]
  /\ inbox' = Append(inbox, [id |-> nextRequestId, owner |-> owner])
  /\ nextRequestId' = nextRequestId + 1

Awaited == Range(pending)

\* _closeWorker: no more is heard of the Worker, and its module is gone.
CloseWorker ==
  /\ worker' = FALSE /\ pending' = <<>>
  /\ inbox' = <<>> /\ outbox' = <<>>

-----------------------------------------------------------------------------
(* create() and initialize().                                              *)

StartWorker ==
  /\ creating = "start"
  /\ creating' = "worker" /\ worker' = TRUE
  /\ Request(Initialization)
  /\ UNCHANGED <<state, outbox, heap, call, answer, made, errors>>

\* The browser has no Worker, or constructing it throws.
NoWorker ==
  /\ creating = "start"
  /\ creating' = "direct"
  /\ UNCHANGED <<state, pending, nextRequestId, call, answer, workerThread, made,
                 errors>>

InitializeDirect ==
  /\ creating = "direct"
  /\ heap' = [heap EXCEPT !.page = NewModule]
  /\ creating' = "returned" /\ state' = "READY"
  /\ UNCHANGED <<pending, nextRequestId, call, answer, worker, inbox, outbox,
                 made, errors>>

\* The runtime, lw_web_init or an allocation fails: create() destroys the
\* engine and rejects.
InitializeDirectFails ==
  /\ creating = "direct"
  /\ creating' = "rejected" /\ state' = "DESTROYED"
  /\ CloseWorker
  /\ heap' = [heap EXCEPT !.page = NoModule]
  /\ UNCHANGED <<nextRequestId, call, answer, made, errors>>

-----------------------------------------------------------------------------
(* The Worker: one message at a time, a reply for each.                    *)

Reply(id, result) ==
  /\ inbox' = Tail(inbox)
  /\ outbox' = Append(outbox, [id |-> id, result |-> result])

\* What is left of the module when initialize fails is gone with the Worker.
WorkerInitialize ==
  /\ inbox # <<>> /\ Head(inbox).owner = Initialization
  /\ \/ /\ heap' = [heap EXCEPT !.thread = NewModule]
        /\ Reply(Head(inbox).id, Refusal("OK"))
     \/ /\ heap' = [heap EXCEPT !.thread.loaded = TRUE]
        /\ Reply(Head(inbox).id, Refusal("ERROR"))
  /\ UNCHANGED <<page, worker, made, errors>>

WorkerRun ==
  /\ inbox # <<>> /\ Head(inbox).owner # Initialization
  /\ \E o \in Outcomes(heap.thread, Head(inbox).owner) :
       /\ heap' = [heap EXCEPT !.thread = o.module]
       /\ Reply(Head(inbox).id,
                IF o.ok THEN Lines(o.module) ELSE Refusal("ERROR"))
  /\ UNCHANGED <<page, worker, made, errors>>

-----------------------------------------------------------------------------
(* The page's handlers of what comes from the Worker.                      *)

\* The reply to a request that was given up.
DropReply ==
  /\ outbox # <<>> /\ Head(outbox).id \notin DOMAIN pending
  /\ outbox' = Tail(outbox)
  /\ UNCHANGED <<page, worker, inbox, heap, made, errors>>

TakeReply ==
  /\ outbox # <<>> /\ Head(outbox).id \in DOMAIN pending
  /\ outbox' = Tail(outbox)
  /\ pending' = Restrict(pending, DOMAIN pending \ {Head(outbox).id})

\* The reply that readies the engine.
WorkerReady ==
  /\ TakeReply /\ pending[Head(outbox).id] = Initialization
  /\ Head(outbox).result.code = "OK"
  /\ creating' = "returned" /\ state' = "READY"
  /\ UNCHANGED <<nextRequestId, call, answer, worker, inbox, heap, made, errors>>

WorkerAnswers ==
  /\ TakeReply
  /\ LET result == Head(outbox).result
         failed == result.code = "ERROR"
     IN  \E c \in Calls :
           /\ pending[Head(outbox).id] = c
           /\ SettleCall(c, IF failed THEN Refusal("LW_OCR_FAILED") ELSE result,
                     failed)
  /\ UNCHANGED <<creating, nextRequestId, worker, inbox, heap, made, errors>>

\* initialize() could not be done in the Worker: close it, try the page.
FallBack ==
  /\ CloseWorker
  /\ creating' = "direct"
  /\ heap' = [heap EXCEPT !.thread = NoModule]
  /\ UNCHANGED <<state, nextRequestId, call, answer, made>>

WorkerInitializeFailed ==
  /\ outbox # <<>> /\ Head(outbox).id \in DOMAIN pending
  /\ pending[Head(outbox).id] = Initialization
  /\ Head(outbox).result.code = "ERROR"
  /\ FallBack /\ UNCHANGED errors

\* worker.onerror rejects whatever is pending; the Worker goes on.
WorkerErrorInitializing ==
  /\ worker /\ errors < MaxErrors /\ Initialization \in Awaited
  /\ errors' = errors + 1
  /\ FallBack

WorkerError ==
  /\ worker /\ errors < MaxErrors /\ Initialization \notin Awaited
  /\ errors' = errors + 1
  /\ pending' = <<>>
  /\ IF Awaited = {} THEN UNCHANGED <<call, answer, state>>
     ELSE \E c \in Awaited : SettleCall(c, Refusal("LW_OCR_FAILED"), TRUE)
  /\ UNCHANGED <<creating, nextRequestId, workerThread, made>>

-----------------------------------------------------------------------------
(* recognize().                                                            *)

Recognize ==
  /\ creating = "returned" /\ made < MaxCalls /\ state = "READY"
  /\ state' = "RUNNING" /\ made' = made + 1
  /\ \E size \in Sizes, order \in Orders :
       call' = [call EXCEPT ![made + 1] =
                  [phase |-> "preparing", size |-> size, order |-> order,
                   broken |-> FALSE]]
  /\ UNCHANGED <<creating, pending, nextRequestId, answer, workerThread, errors>>

RecognizeRefused ==
  /\ creating = "returned" /\ made < MaxCalls /\ state # "READY"
  /\ made' = made + 1
  /\ call' = [call EXCEPT ![made + 1].phase = "settled"]
  /\ answer' = [answer EXCEPT ![made + 1] =
                  Refusal(IF state = "DESTROYED" THEN "LW_OCR_DESTROYED"
                          ELSE "LW_OCR_BUSY")]
  /\ UNCHANGED <<state, creating, pending, nextRequestId, workerThread, errors>>

\* The picture cannot be decoded or scaled.
PrepareFails(c) ==
  /\ call[c].phase = "preparing"
  /\ \E code \in {"LW_OCR_FAILED", "STATUS"} : SettleCall(c, Refusal(code), TRUE)
  /\ UNCHANGED <<creating, pending, nextRequestId, workerThread, made, errors>>

PreparedForWorker(c) ==
  /\ call[c].phase = "preparing" /\ worker
  /\ call' = [call EXCEPT ![c].phase = "asked"]
  /\ Request(c)
  /\ UNCHANGED <<state, creating, answer, worker, outbox, heap, made, errors>>

PreparedRunsHere(c) ==
  /\ call[c].phase = "preparing" /\ ~worker /\ heap.page.loaded
  /\ \E o \in Outcomes(heap.page, c) :
       /\ heap' = [heap EXCEPT !.page = o.module]
       /\ SettleCall(c, IF o.ok THEN Lines(o.module) ELSE Refusal("STATUS"), ~o.ok)
  /\ UNCHANGED <<creating, pending, nextRequestId, worker, inbox, outbox, made,
                 errors>>

\* destroy() was called during _prepare(): the branch for an engine without
\* a Worker is taken, and reaches through a _module that is null.
PreparedTooLate(c) ==
  /\ call[c].phase = "preparing" /\ ~worker /\ ~heap.page.loaded
  /\ SettleCall(c, Refusal("LW_OCR_FAILED"), FALSE)
  /\ UNCHANGED <<creating, pending, nextRequestId, workerThread, made, errors>>

-----------------------------------------------------------------------------
(* destroy(): the Worker is terminated and its call rejected, the page's   *)
(* buffers are freed and its module shut down.                             *)

\* The map of promises is cleared and nobody told.
RejectNobody(result) == UNCHANGED <<call, answer>>

RejectAwaited(result) ==
  /\ call' = [c \in Calls |->
                IF c \in Awaited THEN [call[c] EXCEPT !.phase = "settled"]
                ELSE call[c]]
  /\ answer' = [c \in Calls |-> IF c \in Awaited THEN result ELSE answer[c]]

Destroy ==
  /\ creating = "returned" /\ state # "DESTROYED"
  /\ CloseWorker
  /\ RejectAwaited(Refusal("LW_OCR_DESTROYED"))
  /\ heap' = [thread |-> NoModule, page |-> NoModule]
  /\ state' = "DESTROYED"
  /\ UNCHANGED <<creating, nextRequestId, made, errors>>

-----------------------------------------------------------------------------
Initialize == StartWorker \/ NoWorker \/ InitializeDirect \/ InitializeDirectFails
Work == WorkerInitialize \/ WorkerRun
Handle == \/ DropReply \/ WorkerReady \/ WorkerAnswers
          \/ WorkerInitializeFailed
Prepared(c) == \/ PrepareFails(c) \/ PreparedForWorker(c)
               \/ PreparedRunsHere(c) \/ PreparedTooLate(c)

WebNext ==
  \/ Initialize \/ Work \/ Handle
  \/ WorkerErrorInitializing \/ WorkerError
  \/ Recognize \/ RecognizeRefused \/ Destroy
  \/ \E c \in Calls : Prepared(c)

\* The Worker's thread and the page's event loop keep running, and decoding
\* a picture comes to an end.  Nobody owes a call, a destroy() or an error.
WebSpec ==
  /\ WebInit /\ [][WebNext]_webVars
  /\ WF_webVars(Initialize) /\ WF_webVars(Work) /\ WF_webVars(Handle)
  /\ \A c \in Calls : WF_webVars(Prepared(c))

-----------------------------------------------------------------------------
Codes == {"NONE", "OK", "STATUS", "LW_OCR_FAILED", "LW_OCR_BUSY",
          "LW_OCR_DESTROYED"}
Modules == [loaded: BOOLEAN, engine: BOOLEAN, source: Sizes \cup {0},
            capacity: Sizes \cup {0}, picture: Owners, order: Orders]

\* The fields of the engine and of its modules.  A promise is filed under
\* the number of a request that was made, at most one at a time.
TypeOK ==
  /\ state \in {"CREATING", "READY", "RUNNING", "DESTROYED"}
  /\ creating \in {"start", "worker", "direct", "returned", "rejected"}
  /\ worker \in BOOLEAN
  /\ nextRequestId \in Nat \ {0}
  /\ DOMAIN pending \subseteq 1 .. nextRequestId - 1
  /\ Cardinality(DOMAIN pending) <= 1 /\ Awaited \subseteq Owners
  /\ heap \in [{"thread", "page"} -> Modules]
  /\ call \in [Calls -> [phase: {"unmade", "preparing", "asked", "settled"},
                         size: Sizes \cup {0}, order: Orders, broken: BOOLEAN]]
  /\ answer \in [Calls -> [code: Codes, picture: Owners, order: Orders]]

-----------------------------------------------------------------------------
(* Why calls and answers stay together, and destroy() is final: the        *)
(* inductive invariant.                                                    *)
Results == [code: Codes \cup {"ERROR"}, picture: Owners, order: Orders]
Busy(c) == call[c].phase \in {"preparing", "asked"}

\* The types of what is on the way between the page and its Worker.
MessagesOK ==
  /\ inbox \in Seq([id: 1 .. nextRequestId - 1, owner: Owners])
  /\ outbox \in Seq([id: 1 .. nextRequestId - 1, result: Results])
  /\ made \in 0 .. MaxCalls /\ errors \in Nat

\* There is one call at a time, and it is the one whose reply is awaited;
\* before create() returns there is none.
CallsInv ==
  /\ \A c, d \in Calls : Busy(c) /\ Busy(d) => c = d
  /\ \A c \in Calls :
       /\ c > made <=> call[c].phase = "unmade"
       /\ c > made => answer[c].code = "NONE"
       /\ state = "READY" => ~Busy(c)
       /\ call[c].phase = "asked" <=> c \in Awaited
  /\ \A i, j \in DOMAIN pending : i = j
  /\ Initialization \in Awaited => creating = "worker"
  /\ creating # "returned" => made = 0
  /\ creating \notin {"returned", "rejected"} <=> state = "CREATING"
  /\ creating = "rejected" => state = "DESTROYED"

\* Whoever awaits the reply with a number is the owner of the request.
OwnersAgree ==
  /\ \A k \in DOMAIN inbox :
       /\ inbox[k].owner <= made
       /\ inbox[k].id \in DOMAIN pending => pending[inbox[k].id] = inbox[k].owner
  /\ \A k \in DOMAIN outbox :
       outbox[k].id \in DOMAIN pending /\ outbox[k].result.code = "OK" =>
         LET c == pending[outbox[k].id]
         IN  c # Initialization =>
               outbox[k].result.picture = c /\ outbox[k].result.order = call[c].order

\* What recognize() resolves with are the lines of the picture it was given,
\* in the order it asked for: never those of an earlier call whose request
\* was rejected by an error event and whose reply came after all, and never
\* in the order an earlier call had set.
AnswersItsCall ==
  \A c \in Calls :
    answer[c].code = "OK" =>
      answer[c].picture = c /\ answer[c].order = call[c].order

\* A picture is copied only into a module with an engine and into a source
\* buffer that holds it, also after an allocation that failed.
PictureFits ==
  \A h \in {"thread", "page"} :
    LET c == heap[h].picture
    IN  c # Initialization =>
          heap[h].engine /\ call[c].size <= heap[h].source

\* What destroy() leaves: no Worker, no promise, no native module.
HoldsNothing ==
  /\ ~worker /\ pending = <<>>
  /\ \A h \in {"thread", "page"} : ~heap[h].loaded

\* From destroy() on, or a create() that failed, the engine holds nothing
\* and is never anything but destroyed, whatever was under way.
DestroyIsFinal ==
  [][(state = "DESTROYED" \/ state' = "DESTROYED") =>
       (state' = "DESTROYED" /\ HoldsNothing')]_webVars

\* An engine holds no native module before create() makes one, and nothing
\* after it was destroyed; without a Worker no message is on the way.
EmptyInv ==
  /\ creating \in {"start", "direct"} => HoldsNothing
  /\ creating = "worker" => ~heap.page.loaded
  /\ state = "DESTROYED" => HoldsNothing
  /\ ~worker => inbox = <<>> /\ outbox = <<>>

\* Whoever runs a picture has an engine, and takes no source buffer to be
\* larger than it is.
HeapInv ==
  /\ creating = "returned" /\ worker => heap.thread.engine
  /\ \A k \in DOMAIN outbox :
       outbox[k].result.code = "OK" => heap.thread.engine
  /\ heap.page.loaded => heap.page.engine
  /\ \A h \in {"thread", "page"} :
       heap[h].capacity <= heap[h].source /\ heap[h].picture <= made

EngineInv ==
  /\ TypeOK /\ MessagesOK /\ CallsInv /\ OwnersAgree /\ EmptyInv /\ HeapInv
  /\ AnswersItsCall /\ PictureFits

\* create() and every recognize() settle, through error events, failed
\* allocations and a destroy() at any moment.
EveryPromiseSettles ==
  /\ <>(creating \in {"returned", "rejected"})
  /\ \A c \in Calls :
       call[c].phase \in {"preparing", "asked"} ~> call[c].phase = "settled"

\* docs/web-sdk.md on LW_OCR_FAILED: "Browser preparation or inference
\* failed".
=============================================================================
