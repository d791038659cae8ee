# Verification of lw.PPOCR.C

lw.PPOCR.C runs the PP-OCR pipeline (text detection, direction classification,
text recognition) on a small inference runtime written in C, and offers it as a
C library, a WebAssembly SDK and bindings for C#, Java and Android.  This
directory holds TLA+ models of the parts of that program whose correctness
depends on order, sharing or failure, the TLC runs that check them and the
TLAPS proofs about them.

Paths below are those of the repository: `src/src/...` is the C library,
`src/web/...` the Web SDK, `src/docs/...` the documents.  `PROJECT.json` maps
every definition of a model to the lines it stands for, lists the runs with
their properties, the hazards with the properties that watch them, the theorems
and the disagreements that were found.

Contents

1. The system: inventory of its components
2. The modules, and how their state and actions correspond to the code
3. The runs: what each checks, its bounds, and what it showed
4. Fairness
5. Where the code disagrees with what is written about it
6. The proofs
7. What is only model-checked, and what is not modelled
8. The plan

To repeat everything in this directory: `tlc -config X.cfg M` for each row of
section 3, and `tlapm M.tla` for the eight modules of section 6.

---

## 1. The system

A call of `lw_ocr_run_bgr_u8` passes through all of it:

```
 caller (C#, Java, Kotlin, C++, JavaScript)
   |                    Web SDK: Promise, Worker, messages   [WebEngine]
   v
 lw_ocr handle          detect -> crops -> schedule -> bands
   |                    -> line workers -> publish           [OcrRequest]
   |---- detector       one session per picture size
   |---- line pool      fork-join over the line workers      [ThreadPool]
   |---- line worker i: classifier_i, recognizer_i
                          recognizer: session per width      [Recognizer]
                            session: packed weights, shared  [PreparedConstants]
                                     workspace, plan         [WorkspacePlanner]
                                     convolutions            [ConvRun]
                            or a fast plan                   [FastPlan]
                            or a compiled program            [RecProgram, DetProgram]
```

### Thread pool (`runtime/parallel.c`)

*State*: worker count, active and pending counts, a generation, a callback with
its context, `stopping`, one mutex, two condition variables; per thread the
generation it has seen.  *Operations*: create (may keep fewer threads than asked
for), run, free, and each thread's loop.  *Interaction*: owned and called by one
thread at a time (the OCR handle, or a session for one node), called back from
all.  *Hard*: a worker may sleep through a request or look late; wake-ups may be
spurious; a partial pool.  *Correct when* it is a parallel for: each index of a
request is called exactly once, the run returns after the last of them and does
return, and nothing is destroyed under a thread.

### OCR handle (`ppocr/ocr.c`)

*State*: line workers (a classifier and a recognizer each, tasks, initial
slots), the line pool, the crop records, schedule, band list and buffer, scratch
lines; per request a shared cursor and a status.  *Operations*: create, run,
free.  *Interaction*: two runs of the pool per page - first the crop bands, then
the lines, drawn from an atomic cursor.  *Hard*: everything the handle keeps from
page to page; errors in the middle of a page; a pool smaller than the number of
workers crops were dealt to.  *Correct when* each detected line is recognized
exactly once from a complete crop, and the caller's buffers change only by a
whole response.

### Detector (`ppocr/detector.c`, `det_preprocess*.c`, `db_postprocess.c`)

*State*: the session of the last picture size with its input and probability
buffers, a compiled instance.  *Operations*: create, detect (ensure a session of
the size, preprocess, run, trace contours, boxes), free.  *Hard*: replacing
session, buffers and instance together when one of them cannot be had.
*Correct when* session, buffers and instance always are of one size.

### Direction classifier (`ppocr/classifier.c`, `cls_preprocess.c`)

One session of a fixed shape per line worker; run, decide by a threshold.  The
recognizer reads the crop rotated when told so.  No sharing, no retained state
other than the session.

### Recognizer (`ppocr/recognizer.c`, `rec_preprocess.c`, `ctc_decode.c`)

*State*: the active session with its width, buffers, fast plan and "plan failed"
flag; one cached session with the same; optionally one resident slot per width;
compiled instances per width; a pool for the work inside a node, borrowed by all
of them.  *Operations*: create, clone for another line worker, enable resident
widths, set the thread count, recognize a line, free.  *Hard*: the fields travel
together through swaps, evictions and failures; the two ways of running a line
(compiled, canonical) fall back to one another.  *Correct when* each session has
one owner, its companions belong to it, every line runs on the session of its
width from the buffer it was written to, and a switch that fails changes nothing.

### Session and its packed weights (`runtime/session.c`)

*State*: tensors and node records bound to a shape, workspace, the block of
packed weights with its reference count.  *Operations*: create, share the
weights of another session, run, set the pool, free.  *Hard*: line workers
configure their sessions in parallel, so blocks are shared and released
concurrently through compare-and-exchange loops.  *Correct when* a block lives
exactly as long as somebody refers to it.

### Workspace planner, execution plan and executor (`runtime/memory.c`, `execution_plan.c`, `executor.c`)

*State*: an offset for each tensor, the free list, the list of elided tensors and
fused nodes.  *Operations*: plan by first fit (default), plan by size (second
planner), choose between them, run the nodes in order, run a fused GELU chain in
one pass.  *Hard*: a range is reused as soon as its tensor is dead; the fused
pass reads and writes outside the lives the planner assumed.  *Correct when* no
node ever reads a range another tensor was written to.

### Layout planner and REC fast plan (`layout_planner.c`, `runtime/x64_rec_fast_*.c`)

*State*: which layouts (NCHW, NHWC) of a tensor are current and where the second
copy lies; operations, packed weights, which may be borrowed from another plan.
*Operations*: build, execute, borrow weights and a pool, free.  *Hard*: a tensor
in two places of which one is stale; a normalisation folded into weights that
another plan shares; slots of the second workspace reused by lifetimes counted
in operations rather than nodes.  *Correct when* each operator reads the current
value of its operands.

### Compiled programs (`runtime/x64_rec_backend_*.c`, `x64_det_backend_*.c`)

*State*: operations after folding, aliases, producers and last uses, offsets in
one arena, packed weights.  *Operations*: compile (lower, plan the arena, lower
again), instantiate, run, free.  *Hard*: an alias that outlives the range of its
root, a chain fused though somebody else reads one of its temporaries, two passes
that must agree, a pair of operations that run interleaved, conversions between
layouts shared by several readers.  *Correct when* a run that succeeds has
evaluated the graph.

### Convolutions (`executor.c`, `kernels/scalar_conv.c`, `packed_conv*.c`, `simd/`)

*State*: none that survives a node.  *Operations*: choose a kernel, cut the
channels into slices for the workers, run a slice.  *Hard*: vectors at the edge
of a row or of the padding, remainders of channels, packed blocks cut between
workers, a slice that chooses another kernel than its neighbour.  *Correct when*
all variants compute the same sum in the same order.

### CTC decoding and CTC head (`ctc_decode.c`, `runtime/ctc_*_internal.c`)

Two passes (count, then write) of the collapse of repeats and blanks; the head
divides rows among workers.  *Correct when* both passes agree with the
definition of CTC collapse and the division covers each row once.

### Reading order (`ppocr/reading_order.c`), crop geometry (`crop.c`, `crop_buffer.c`)

A sort of boxes by a relation that is not transitive (rows are a tolerance of
10 pixels); columns by overlap; crop sizes and warps; a doubling buffer that is
trimmed after a request.

### Model container and other operators (`runtime/model.c`, `validate.c`, `shape.c`, `kernels/`)

Reading (LWM containers, or ONNX directly through `onnx_import.c`), validating
and shape inference of one immutable file; matrix products, elementwise and NHWC
kernels, chosen by the processor's features.  They keep no state.

### Web SDK (`web/lw_ppocr_sdk.template.js`, `lw_web_api.c`)

*State*: the engine's `_state`, the Worker, the map of pending requests and the
next id, the native module of the page or of the Worker with its source buffer
and the reading order.  *Operations*: `create`, `recognize`, `destroy`; in the
Worker `initialize` and `recognize`; `onmessage`, `onerror`.  *Hard*: `destroy()`
during any `await`; error events for requests that are answered after all; a
failing allocation; the fallback from a Worker to the page.  *Correct when* every
call settles with its own picture's lines or with the error that happened, and
nothing outlives `destroy()`.

### Demonstration page and PDF adapter (`web/ocr-demo-ui.js`, `web/pdf/`)

*State*: the chosen file, a selection sequence number, the run in progress, the
PDF document.  *Hard*: a file chosen while another is loading, stopping a run.

### Android engine and its model cache (`android/.../LwPpocr.kt`)

*State*: the handle behind a lock; on disk one directory of models per asset set
with a marker and a manifest.  *Operations*: create (validate the cached models,
or copy them to a temporary directory, verify and rename), prune old directories,
recognize, close.  *Hard*: the process may be killed between any two file
operations, and the cache is opened outside the lock under which it is replaced.
*Correct when* an engine is only ever opened on a complete set of
models, and nothing a killed process left keeps one from being created.

### HTTP server, C#, WinForms, Java (`examples/`)

Owners of one handle that serialize its calls (a mutex, a lock and a `busy`
flag, `synchronized`) and convert arguments and results.

### Converter, tools, tests, build

Offline: ONNX to the LWM container, packaging, checks.  Read for what they state
about the program, not modelled.

---
## 2. The modules, and how their state and actions correspond to the code

| Module | Stands for | Extended or instantiated by |
|---|---|---|
| `ParallelFor` | what a run of the pool promises, with no thread in it (abstract) | `ThreadPool` (refines it), `OcrRequest` (uses it) |
| `ThreadPool` | `runtime/parallel.c` | `SharedStateProofs`, `MCThreadPool` |
| `OcrRequest` | a handle of `ppocr/ocr.c` serving pages | `OcrRequestProofs`, `MCOcrRequest` |
| `Recognizer` | a handle of `ppocr/recognizer.c` | `RecognizerProofs`, `MCRecognizer` |
| `PreparedConstants` | the shared packed weights of `runtime/session.c` | `SharedStateProofs`, `MCPreparedConstants` |
| `WorkspacePlanner` | `runtime/memory.c`, `execution_plan.c`, the walk of `executor.c` | `WorkspacePlannerProofs`, `MCWorkspacePlanner` |
| `ModelGraph` | a graph as the compiling engines read it, and the GELU chain they match | `GraphEvaluation`, `LayoutPlanner`, `RecProgram` |
| `GraphEvaluation` | what one run of a graph promises (abstract) | `RecProgram`, `DetProgram`, `FastPlan` (refine it) |
| `ArenaPlan` | `plan_arena_offsets` of both compilers | `RecProgram`, `DetProgram` |
| `RecProgram` | `x64_rec_backend_compile.c`, `x64_rec_backend_execute.c` | `RecProgramProofs`, `MCRecProgram` |
| `LayoutPlanner` | `layout_planner.c` | `FastPlan`, `DetProgram` |
| `FastPlan` | `x64_rec_fast_plan.c`, `x64_rec_fast_executor.c` | `FastPlanProofs`, `MCFastPlan` (graphs: `MCLayoutGraphs`) |
| `DetProgram` | `x64_det_backend_compile.c`, `x64_det_backend_execute.c` | `DetProgramProofs`, `MCDetProgram` |
| `ConvShapes` | the sizes, taps and sums of a convolution | `Convolution`, `ConvKernels` |
| `Convolution` | what a convolution node promises (abstract) | `ConvRun` (refines it) |
| `ConvKernels` | the NCHW kernels of `kernels/` and `simd/` by their loops, and the choice between them | `ConvRun` |
| `ConvRun` | a convolution node in `executor.c`: slices, blocks, loops | `ConvRunProofs`, `MCConvRun` |
| `WebEngine` | `web/lw_ppocr_sdk.template.js` with its Worker and `lw_web_api.c` | `SharedStateProofs`, `MCWebEngine` |
| `ModelCache` | `createInternal` and the installation of `LwPpocr.kt` | `SharedStateProofs`, `MCModelCache` |

A definition that carries the word *Mutation* in its comment is not part of a
specification.  It is a plausible mistake in the code, written beside the
definition it would replace, and shows that the property it is listed with in
`PROJECT.json` notices that mistake.

`ThreadPool` and `PreparedConstants` name their parts after what they are of
(`PoolInit`, `PoolNext`, `PoolSpec`; `SharedInit`, `SharedNext`, `SharedSpec`), and
`ConvRun` its own (`RunInit`, `RunSpec`), so that one module can extend several.

The build that is modelled is the default native one (persistent line pool,
parallel crop phase, adaptive recognition budget, AVX2 fast path on; resident
widths, streaming crops, prepared execution, second planner, fusion memory,
tiled CTC off).  Where an option changes control flow inside a modelled
component it is a constant (`Builds` with the second planner and fusion memory,
`Avx2`, `FfnTiling`, `Strategies`, `Wasm`) or a state
(`resident_widths_enabled`).

### ParallelFor and ThreadPool

`ParallelFor` has three variables: the width of the request in flight (0: none),
and how often the callback began and returned for each index.  `Start(n)` begins
a request, with index 0 called by the requesting thread; `Begin(i)` and `End(i)`
are the other calls; `Return` needs all of them to have returned.

`ThreadPool` is the code.  Its variables are the fields of `lw_thread_pool` with
their names, `wpc`, `observed_generation` and `wcontext` for each thread's
position and locals, `cpc` and `cursor` for the caller, and the three variables
of `ParallelFor`, which only record what is called.  `worker_count = 0` is a
null pool.

* A critical section is one step: `RunPublish` (fields, generation, broadcast),
  `WorkerTake`, `WorkerReport` (decrement, signal by the last), `RunReturn`,
  `FreeStop`.
* `pthread_cond_wait` is two: the thread joins the wait set in the step in which
  it found the predicate false (`WorkerWait`, `RunWait`), and is runnable again
  after a broadcast, a signal or spuriously (`WorkerSpuriousWake`,
  `RunSpuriousWake`); the predicate is read again in a later step.
* Outside the mutex there are steps for each callback's return
  (`RunCallerCallback`, `WorkerCallbackReturns`), each thread started
  (`CreateThread`, `CreateThreadFails`, which keeps a partial pool) and each
  join (`FreeJoin`).
* `RunInline` is a run of width one or without a pool.

The generation is a `uint64_t` in the code and unbounded here; a wrap-around
needs 2^64 requests.

### OcrRequest

The crop and line phases are runs of `ParallelFor`; the steps of a run are
conjuncts `PF!Start`, `PF!Begin(w)`, `PF!End(w)`, `PF!Return` of the request's
actions, so a worker's callback may be anywhere while another's has ended, which
is exactly what the pool has been shown to allow.

| Code (`ocr.c`) | Actions |
|---|---|
| detection and crop records | `Detect`, `DetectFails` |
| `crop_and_run_adaptive`: reserve, schedule, bands | `Reserve`, `ReserveFails`, `ScheduleCrop`, `ScheduleFails` |
| band phase | `StartBands`, `NoBands`, `RasterBand(w)`, `RasterFails(w)`, `BandsDone(w)`, `BandsReturn` |
| `run_worker_tasks` | `NoLines`, `StartLines` (with `Assignment`) |
| `process_worker_task` | `Claim(w)`, `Recognize(w)`, `RecognizeFails(w)` |
| status collection | `LinesReturn` |
| publication | `ReportCapacity`, `Publish` |

What survives a request is in the tuple `handle`: the pool with its size, the
detected boxes and the crop records, the shared crop buffer, the band list with
its capacity and status, the scratch lines and the width each recognizer is
configured for.  Boxes and records are arrays that a page overwrites only as far as it
needs them: what lies beyond is still there.  A record has its place in the
buffer (`offset`, `byte_count`) and the box it was cut from; a band has a record
and a row.  What a band writes (`Draw`) is looked up when it runs, as in
`execute_crop_bands`: the box through the record, the places from the record's
offset and the box's width.  A place of the buffer holds what it shows of the page
under way, a box and a place in its crop (`Pixel`), or nothing of it (`Blank`).
Turning a crop by half (`MayTurn`) rearranges its places.  A box is reduced to
its target width, the bytes of a row and its height in bands of 16 rows; a box
without a height is one that `lw_crop_quad_size` refuses.  A scratch line is
reduced to the number of the request that wrote it.  A write past the end of the
buffer, which only left-over bands can lead to (section 5), is dropped.

The variable `setting` is chosen once: the number of workers, what the system may
refuse (`"threads"`: a thread of the pool, `"memory"`: a growing buffer or band
list), how many pages come and how many boxes of which shapes they may have.  A
detector, a band and a line may fail in every setting.  `left_over` is a history
variable: the page under way began with bands of an earlier one.

### Recognizer

A handle serves one line at a time, so the module is a sequential machine whose
program counter `pc` is the place in the call at which something may fail.  A
*slot* is a record of the fields that travel together: session, width, fast plan
and "plan failed" flag; `active`, `cached` and `resident[w]` are slots,
`candidate` is the session a call is building.  `Sessions` and `Pools` are
addresses, and a freed one may be handed out again.

Actions: `Create`, `Clone` and `AttachClone`, `Free`, `SetThreads`, `EnableBegin`
/ `EnableSlot` / `EnableFails` / `EnableDone` (resident widths), `Start(w)` for a
line, then the compiled path (`CompiledPreprocess`, `CompiledRejects`,
`ExecuteCompiled`), the configuration of a width (`ConfigureResident`,
`ActivateCached`, `ReleaseCached`, `Build`, `BuildFails`, `CandidateRejected`,
`Publish`) and the canonical path (`Preprocess`, `PreprocessFails`, `NoPlan`,
`UsePlan`, `PlanFails`, `PlanRunFails`, `Execute`).

### PreparedConstants

Here sessions are on threads of their own, because line workers configure their
recognizers at the same time.  `holds` is the counted reference of a session,
`gained` the second one it has between the exchange that shares another block
and the release of its own, `dying` the block whose last reference a release
dropped and whose memory is not yet freed, `observed` the local copy of the
count in a compare-and-exchange loop.  `CreateLayout`, `Pack`, `ShareBegin` (the load),
`ShareExchange` (success or retry), `ShareOverflows`, `ShareReleaseOwn`, `Free`,
`Release` (success or retry) and `Dispose` are the steps between which other
threads run.  A block is allocated once in the model; a re-used address would
only be another block.

### WorkspacePlanner

The graph is an input: nodes with the tensors they read and write, in execution
order, and a size in lines of 64 bytes for each.  `build` is chosen once: whether
the second planner and the elision of fused temporaries are compiled in, and the
limit of the workspace.  The first planner is `V1Expire`, `V1Reuse`, `V1Extend`,
`V1NextNode`, `V1Done`, `V1Fails` with its free list `blocks`, which `V1Expire`
keeps sorted and coalesced as `add_free_block` does; the second is
`V2Move`, `V2Place`, `V2Done`, one candidate offset at a time; `KeepV2`,
`RestoreV1`, `NeitherFits` choose between them.  Then the session runs over a
`memory` that remembers, for each line, which line of which tensor was last
written there: `RunNode` for a node by itself, `RunFusedLine` for one line of the
fused GELU pass, which reads and writes line by line in the order of `avx2_erf.c`.

### ModelGraph, GraphEvaluation and the three compiling engines

`ModelGraph` holds what every engine asks of a graph: producers, readers, how
often a tensor is consumed, and the match of the five-node GELU chain with its
condition that nobody else reads a temporary.

`GraphEvaluation` is the abstract specification they share.  A run has a set
`evaluated`; a step may add any values whose producers' operands are in it; a
successful run has the outputs in it; a run may be given up.  The three engines
record, beside what they do, whether each operation found the values of its
operands where it read (`computed`), and each is shown to implement
`GraphEvaluation` with `evaluated <- computed`.  An operation that reads an
overwritten range, a stale copy or the wrong memory order computes nothing, so
the run's return is not a `Return` of the abstract run.

**ArenaPlan** places values with lifetimes in one arena, largest first: `Bump`
moves the search behind the first value that is in the way, `Place` takes the
free offset, aligned.  `Unit` is the alignment.

**RecProgram** is the compiled recognition program.  `LowerGelu`, `LowerRepack`,
`LowerAlias`, `LowerNode` and `LowerFails` are `lower_ops`, one step per node or
chain, in both passes; `EndFirstPass` marks the FFN pairs, stretches lifetimes and
starts the plan; `PlanStep` is a step of `ArenaPlan`; `BeginSecondPass`,
`EndSecondPass` repeat the lowering with the offsets.  The run is `Begin`,
`RunPointwise`, `RunSpatial`, `RunBinary`, `RunUnary`, `RunMap`, `RunMatrix` (a
family of kernels each), `RunPair` (two operations tile by tile), `RunFails`,
`Finish` (the CTC tail) and `Return`.  `memory` is the set of values the arena
still holds, with their offset and order; an operation's operands must be there
both before and after its result is written, because a kernel reads while it
writes.

**LayoutPlanner** is a fold over the nodes, the pure function
`lw_layout_plan_build`: which nodes run on NHWC maps, and in which layouts a
tensor will be found.

**FastPlan** builds on it: `CompileConv` (packing or borrowing weights, folding a
normalisation, a residual and a Relu), `CompileOther`, `CompileGeneric` (left to
the session's executor), `PlaceNext` and `EndPlace` (the second workspace),
`CreateFails`.  A run keeps `available` - what the code records - beside `copies`
- which copies really hold the current value.  `Ensured` converts operands in the
order of the code; `RunGeneric`, `RunConv`, `RunDepthwise`, `RunElementwise`,
`RunMapWise`, `RunGelu` execute, `RunFails` gives the run up, `Finish` returns the
output in the caller's layout.  `source` is a plan whose packed weights are
borrowed, in every state a half-successful construction leaves it.

**DetProgram** is the compiled detection program, in which every node has a
layout of its own.  `PlanLayouts` fixes them; `LowerConvert` puts a conversion in
front of the first reader in the other layout and fills the value's *alternate
slot*; `LowerGelu`, `LowerAlias`, `LowerNode`, `LowerConv` (with its epilogue),
`LowerOutput` follow; then the plan, the second pass and the run as above, with
an action per family of kernels.

### ConvShapes, Convolution, ConvKernels and ConvRun

`Convolution` promises that each output channel is produced once, and is, at
each element, the bias plus the products of the taps inside the input *in one
order*: sums of floats depend on it, and the project compares its kernels bit by
bit.  A sum is therefore modelled as the sequence of taps added.

`ConvKernels` describes each kernel by its loops - `spread` kernels add one tap
to a range of outputs, `gather` kernels finish one output or vector before the
next, `scatter` kernels walk the input of a transposed convolution - with the
ranges, vector widths and edges of the code, and has the choice between them
(`Conv2d`, `PackedConv1x1`, `PackedConv3x3`, `ConvTranspose2d`).  `ConvRun` cuts
the channels into slices (`Bound`, by whole packed blocks), runs the slices in
any order (`StartSlice`, `FinishSlice`), chooses the kernel of each block of
channels (`StartBlock`, `FinishBlock`) and walks its loops a vector or an element
at a time (`SpreadVector`, `SpreadColumn`, `GatherBlock`, `GatherPixel`,
`ScatterVector`, `ScatterColumn`).  Slices write disjoint channels and meet at
the pool's barrier (`ThreadPool`), so they are run one after the other here.

* The thresholds on the number of multiply-adds that decide whether a node is
  worth several workers are abstracted to a free choice of their number.
* `PackedLayout` unites the layouts a session packs (whole blocks, wide or large
  planes) with those of a compiled program's NCHW nodes (AVX2, any number of
  channels, one worker): only the latter reach the remainder of a packed block.
* A stride-2 gather kernel loads two vectors of the input for one of the output
  and ignores the last float, which may lie one past the row; `LoadsInRow` grants
  it that float.
* The FMA variant of the packed 1x1 kernel is chosen by the shape of the slice,
  so the *rounding* of a product may depend on the number of threads although
  the order of the sum does not; the model has the order.
* `avx2_conv3x3_eight.c` has no caller and no model; the general transposed
  convolution is modelled one channel at a time.

### WebEngine

JavaScript runs one task at a time on a thread, so the code between two `await`s
is one step, and every other step may fall at an `await`.  `pending` is the map
of the engine from a request number to the call that waits, `inbox` and `outbox`
the messages on the way, `heap` the native modules of the Worker's thread and of
the page with their buffers and global reading order.  Actions: `StartWorker`,
`NoWorker`, `InitializeDirect(Fails)`; `WorkerInitialize`, `WorkerRun`;
`WorkerReady`, `WorkerAnswers`, `WorkerInitializeFailed`, `DropReply`;
`WorkerError(Initializing)`; `Recognize`, `RecognizeRefused`, `PrepareFails`,
`PreparedForWorker`, `PreparedRunsHere`, `PreparedTooLate`; `Destroy`.  A result
is abstracted to the picture it was computed from and the order in force.  An
error event of the Worker does not stop it: its reply to the rejected request
may still come.

### ModelCache

Threads create engines; `pc[t]` is the place in `createInternal`.  `disk` maps
each directory under the cache root to its files, each absent, partial or whole.
One file operation is one step, with a place for a kill between any two:
`Acquire` (the installation's lock), `Check`, `DeleteFile` / `Replaced`
(`deleteRecursively`), `Prepare`, `BeginCopy` / `EndCopy`, `Commit` (the rename),
`CommitFails`, `CopyRefused`, `CleanedUp`; then, outside the lock, `OpenModel`
one file at a time, `OpenFails`, `Opened`, and the pruning of other releases'
caches, `DeleteFile` / `Pruned`; `Close`.  `Kill` ends every thread, leaves the
disk as it is, and another release may be the one installed when the process
starts again.  Each operation may be refused (`Refuses`), the reads by which
`isCachedModelsValid` judges the cache included: then it is taken for invalid and
deleted (`CheckRefused`, `Discards`).  `refused` remembers whether the system
refused this very call something, `disturbed` whether such a check condemned a whole
cache while this call was opening it.

What was written survives a kill, because the kernel has it; the loss of unsynced
pages with the power is not modelled.

---

## 3. The runs

State counts are distinct states of TLC's breadth-first search, after symmetry
where it is used.

| Run (`.cfg`) | Question | Bounds | States |
|---|---|---|---|
| `MCThreadPool` | Is the pool a parallel for, does every call return? | 3 threads and the caller, 3 requests, any width up to one too many | 25 453 |
| `MCOcrRequest` | Each line once, from a whole crop, published whole, whatever failed before? | 2 workers and up to 3 boxes of 2 widths; 2 pages on 3 workers with up to 2 boxes of 1 or 2 bands, threads refused; 2 pages on 2 workers and 3 on one, memory refused | 470 903 |
| `MCOcrPartialPool` | (violated) every line recognized with a partial pool | 3 workers, 3 crops, 1 page | - |
| `MCPreparedConstants` | Is a block freed exactly with its last reference? | 3 sessions, 4 blocks, a count full at 2 | 3 467 |
| `MCRecognizer` | Do sessions, plans, widths and pools stay together? | 3 widths, 4 sessions, 2 pools, up to 2 workers | 822 319 |
| `MCWorkspacePlanner` | Is anything read that was overwritten, or that has no place? | every graph of 4 nodes with sizes 1-3, every fused chain; both builds, limits of 9 and 7 lines | 344 203 |
| `MCRecProgram` | Does a compiled REC run evaluate the graph? | graphs of 3 stems, 8 blocks, 8 middles, 3 ends; both strategies, 2 runs | 71 809 |
| `MCFastPlan` | Does a fast-plan run evaluate the graph, from current copies? | 54 graphs, 516 ways to begin (borrowed weights), 1 failure, both input layouts | 76 682 |
| `MCDetProgram` | Does a compiled DET run evaluate the graph? | graphs of 3 stems, 8 blocks, 5 heads; both strategies, both builds | 23 968 |
| `MCConvRun` | Do all kernels compute the same sum, however the channels are cut? | 52 nodes, 5 kinds of processor, vectors of 3 and 2, tiles of 4 and 8, planes of 16 large, 3 workers | 176 937 |
| `MCWebEngine` | Does each call settle, once, with its own lines? | 3 calls, 2 sizes, 2 orders, 2 error events, `destroy()` any time | 122 212 |
| `MCModelCache` | Is every model opened whole, and can the cache always be installed again? | 2 threads, 2 releases, 2 models, 2 kills, any 2 operations refused | 1 848 957 |

### What the runs show, and why the bounds are enough

**MCThreadPool.**  `BarrierInv` is the inductive invariant of section 6.
`ContextAlive`: a thread inside a callback belongs to the run in progress, so the
context on the caller's stack is alive.  `ImplementsParallelFor`: the refinement.
`RunTerminates`, `FreeTerminates`: no wake-up is lost.  Three threads are the
smallest number at which one is active, one inactive and one absent in the same
request; three requests are needed for a thread that sleeps through a whole
request and then meets the next.  The safety part is proved for all values.

**MCOcrRequest.**  `NoLineMissing`: with the pool the handle asked for, what
reaches publication was recognized in this request.  `RecognizedWhole`: the crop
that a worker holds shows its own box of this page in every pixel of its places in
the shared buffer.  `PublishedWhole`: the caller's
buffers change only by a whole response.  `BandsStayDisjoint`: no two bands of a
page write the same place, and each is a row of a crop of this page, inside the
buffer.  `RequestReturns`: every request does.  `RecognizedWhole` and
`BandsStayDisjoint` speak of pages that satisfy `OwnBands`: those that do not
begin with left-over bands, which while memory lasts are all.  What happens to the others
is in section 5.  With three crops and two workers each can
take three, two, one or none, in any order; with two widths the dealing prefers
a worker that is configured for the width (setting `Wide`); crops two bands high
divide their rows among workers, and rows of two places and of one put the crops
at every offset (`Tall`); the second page meets everything the first leaves
behind, a failure at any point of it included.  The band list holds two bands at
first, so that a page can make it grow, or fail to: in `Scarce` the second page
may then begin with bands of the first, and in `Recovering` a third page follows
it, on which everything must hold again.  Boxes that cannot be cut, which `Recovering`
has, make the number of a line differ from that of its box.  All but the liveness
is proved for all values.

**MCPreparedConstants.**  `CountIsReferences`, `NothingDangles`, `NothingLeaks`.
Three sessions on three threads and a full count at two make
every collision of a load with another thread's exchange happen, including the
retry and the refusal.

**MCRecognizer.**  `OneOwner`: a live session is in exactly one slot, and no slot
names a freed one.  `AtMostTwoWidths`: without resident widths nothing more stays in
memory.  `ExecutesItsLine`: what runs is of the line's width and reads the buffer
the line was written to.  `OnePool`: sessions and instances borrow the live pool.
`FailedSwitchKeepsActive`: a switch that fails changes nothing.  Three widths are
one more than a handle keeps in memory, so every switch evicts; four sessions are
the two of the cache, a candidate and a spare for address reuse, and let all
three widths be resident.  Two pools let one replace the other, with fewer
workers than asked for or none.  Deadlock is checked: from any point some call
can be made.  The five properties are proved for all values.

**MCWorkspacePlanner.**  The graphs are enumerated rather than chosen: all shapes
of four nodes with one or two inputs, one node with two outputs, all sizes of one
to three lines, and a GELU chain between neighbours whose tensors live on in all
ways that decide whether it fuses.  `ReadsIntact` and `FusedReadsIntact` look at
the memory itself, `LiveRangesDisjoint` at the plan, `NoElidedTensorIsUsed` at the
nodes that run without a place for a temporary.  The limits - 9 lines for
the default build, 7 for the other - lie between what some graphs need and what
others do, and for some between the two planners, so that both fit, only one, or
none.  The four properties are proved for all graphs.

**MCRecProgram, MCDetProgram, MCFastPlan.**  `EvalSpec` is the refinement of
`GraphEvaluation`.  `OrdersMatch`, `LayoutsMatch`: each kernel finds its operands
in the memory order it reads, which the compilers decide from the graph alone.
That decision is not always right: it is not for some sums of maps of both orders
(section 5).  `OrdersAgree` says of a graph that it is, comparing the order every
tensor is stored in (`StoredOrder`) with what the kernel of each node, and a
convolution's residual, assume.  It is no property of the code, but the condition
under which `OrdersMatch` and `EvalSpec` can be expected; the graphs of
`MCRecProgram` have sums of both orders, and were chosen to satisfy it.  In the same
way the graphs of `MCFastPlan` satisfy `WholeBlocks`.
`PairsAccepted`: the executor refuses no pair that the compiler made.
`PlacesDisjoint`: the arena.  `AvailableIsCurrent`: where the fast plan's record
says a layout is there, that copy is the current value, as long as anybody still
reads it.  The graphs are put together from fragments so that every operator
kind, every chain, every fold (and every reason not to fold), every alias and
every border between layouts meets every other as a neighbour; sizes of one, two
and three lines make slots fit exactly, too small, or with waste.  A second run
over the same arena finds what the first left.  Weights are one line or more,
which is what the code's tests on sizes tell apart.  `PlacesDisjoint` and
`PairsAccepted` are proved for all graphs, both properties of `MCFastPlan` for all
graphs of which `WholeBlocks` holds, `OrdersMatch` and `EvalSpec` of `MCRecProgram`
for all of which `OrdersAgree` does, and `LayoutsMatch` for all of which
`RenamesNchw` does.

**MCConvRun.**  `ConvolutionSpec` is the refinement of `Convolution`;
`LoadsInRow`: no step loads from outside the row of the input, except that the
vector tiles of stride two may take one float past a row of even width, as they do
in the code (section 5; `Spare`); `NoChannelIsLeftOut`: remainders are computed too.  Vectors of 3 and 2 floats instead of 8 and 4 make
planes of at most 9 by 9 wide enough for a whole vector, an edge on both sides
and a remainder; every window, stride and padding that has a kernel of its own
occurs with a neighbour that has none; 3, 4, 8, 12 and 16 channels are whole and
broken blocks and uneven shares of two and three workers.  A plane four lines high
and eight wide lets a tile of stride two end on the last line, where the one float
is past the plane.  The two invariants are proved for all nodes.

**MCWebEngine.**  `AnswersItsCall`, `PictureFits`, `DestroyIsFinal`,
`EveryPromiseSettles`.  Three calls are a call in flight, one refused or run after
its error, and one to which the late reply of the first could be handed; two
error events let a call be rejected, answered late and the next rejected as well;
two sizes make the source buffer grow, fail to grow and be sufficient.

**MCModelCache.**  `OpensWholeModels` and `FailsOnlyWhenRefused`.  Two kills allow
a process that is killed while it cleans up after one that was killed, and two
releases one that comes back to a cache its successor has half pruned; two
threads are one that installs and one that opens, prunes, or waits for the lock;
two models are the least with which one is whole and another not.  One value of
the clock lets a directory of an earlier process be met again.  Any file operation
may be refused, the reads of `isCachedModelsValid` included (`CheckRefused`); two
refusals are one in each thread, or one that misleads a check and one in what
follows from it.  Both properties except a create that was opening a whole cache
when such a check of the other thread condemned it (`disturbed`; section 5).  Both are
proved for all values.

`CHECK_DEADLOCK FALSE` is used where the model really stops: the bounded number
of requests (`OcrRequest`), of calls (`WebEngine`) or of blocks
(`PreparedConstants`) is used up, a graph has been planned and run
(`WorkspacePlanner`), a program or plan was rejected (`RecProgram`, `DetProgram`,
`FastPlan`), or a node is done (`ConvRun`).  `ThreadPool`, `Recognizer` and
`ModelCache` may always go on, and deadlock is checked.

Every bound is a constant of its module: `MaxRequests`, `MaxWorkers`, `MaxCrops`,
`MaxWidth`, `MaxHeight`, `FirstBandCapacity`, `MaxRefs`, `Builds` (the limit of the
workspace), `MaxFailures`, `MaxKills`, `MaxRefusals`, `MaxCalls`, `MaxErrors`.  `MaxRequests`
(in both modules), `MaxCalls`, `MaxErrors`, `MaxKills`, `MaxRefusals` and `MaxFailures` are only
bounds of the model; the others are limits the code has, with smaller values.

---

## 4. Fairness

Liveness needs somebody to keep running, and each assumption is one the code's
environment keeps:

* `ThreadPool`: weak fairness of each thread's step and of the caller's step in a
  call it has made - threads are scheduled, callbacks return.  None on making a
  call, and none on spurious wake-ups.
* `OcrRequest`: weak fairness of the request's own thread and of each callback -
  the pool is live (`ThreadPool`), detection, classification and recognition
  terminate.  None on sending a request.
* `WebEngine`: weak fairness of the Worker's loop, of the page's handlers, of
  `create()` and of the preparation of a picture - browsers deliver messages and
  decoding ends with an image or an error.  None on `recognize()`, on `destroy()`
  or on error events.  A Worker that stops answering without an error event would
  leave a promise pending; the SDK has no timeout and documents none.
* The other modules state no liveness.  They are sequential walks over finite
  data, and the retries of a compare-and-exchange (`PreparedConstants`) end
  because each failure is another thread's success.

---

## 5. Where the code disagrees with what is written about it

One disagreement has a run that TLC ends with a counterexample, and an entry
under `findings`:

**Lines lost with a partial pool** (`MCOcrPartialPool`, `ocr.c:693`).  Initial
crops are dealt to all active workers, but a pool whose threads could not all be
started runs fewer callbacks.  The crops of the missing workers are never
recognized, their tasks read as successful, and the request publishes lines of
an earlier request, against "Publish only after every line succeeded"
(`ocr.c:1267`).  `NoLineMissing` is therefore stated for a pool of the size the
handle asked for.

The others are divergences the models make room for: a property is conditioned
on their absence, or an input that meets them is left out, and the place says so.

* *Bands of an aborted page* (`ocr.c:1060`).  When the band list cannot grow the
  request returns with the bands appended so far (`crop_band_count` is reset only
  behind a band phase, line 1122), and the next page rasterizes them too, against
  "bands are row-disjoint output ranges" (`ocr.c:50`) and "write disjoint crop
  ranges" (`ocr.c:710`).  Each goes through its crop record as it is by then
  (`ocr.c:718`-`728`): a record beyond the lines of the new page still has the
  offset, size and box number of the aborted one, so the band writes rows of some box
  over crops of this page, before or after those are drawn, and the page succeeds
  with a line read from a mixture.  A band whose row its box does not
  have makes the page fail instead (`crop.c:167`).  `BandsStayDisjoint` and
  `RecognizedWhole` except such a page by `OwnBands`; without that condition TLC
  finds both violated in the setting `Scarce`.  The page after it is in order again.
* *A whole cache deleted under an engine* (`LwPpocr.kt:241`).  When a read of
  `isCachedModelsValid` is refused, `getOrDefault(false)` (line 288) reads as an
  invalid cache, and a whole one is deleted - while another thread, which has
  left the lock (line 231), may be in `nativeCreate` on it.  That thread's call fails on
  missing models with nothing refused to it, or reads a part of them.
  `OpensWholeModels` and `FailsOnlyWhenRefused` except the creates that were opening the cache at that
  moment (`disturbed`); without the exception TLC finds both violated.
* *One float past a row* (`avx2_conv3x3.c:388`; likewise lines 529, 689, 817 and
  1004).  The vector tiles of stride two test the inputs they use against the
  width; the last load takes one float more.  On a row of even width that is
  the next row's first, or the next channel's, and on the last row of the last
  channel of the last picture it is past the tensor.  Its value is dropped.  The stream kernel
  tests all that it loads (line 312).  `LoadsInRow` grants exactly this float
  (`Spare`); without it TLC finds a job of `MCConvRun` that violates the property.
* *A folded residual in the other order* (`x64_rec_backend_compile.c:402`).  A sum
  of an NHWC map and a canonical one is gathered element by element ("a
  cross-chain elementwise op ... must remap the NHWC side", line 718).  Where the
  sum follows a convolution, though, `fold_conv_epilogue` takes the canonical map
  along as a residual, without asking for its order, and the kernel adds it as
  NHWC; the comment promises results "bit-identical to the unfused op sequence"
  (line 351).  `OrdersAgree` does not hold of such a graph, and `OrdersMatch` fails on it: a stem, a map
  made from a sequence, and the sum of it and a convolution of the stem's result.
* *A mixed sum claimed to be NHWC* (`x64_rec_backend_compile.c:1146`).  The sum is
  written in canonical order (`x64_rec_backend_execute.c:925`), but
  `rec_value_is_nhwc_physical` walks on to its first operand ("inherit from their
  (non-constant) input", line 1129).  With the NHWC map on the left, the reader
  takes the sum for NHWC and permutes it; `OrdersAgree` does not hold, and
  `OrdersMatch` fails.  The graphs of `MCRecProgram` have mixed sums with the NHWC map on the right.
* *A reshape of an NHWC map* (`x64_det_backend_compile.c:1078`).  The lowering makes
  the result another name of the operand without asking how the operand lies, and
  a reader takes it for what `det_tensor_eff_layout` says of a reshape, NCHW.  If the
  operand is an NHWC map, no conversion is made, nothing refuses the graph, and
  `LayoutsMatch` fails.  The detection models have no reshape
  (`docs/ppocrv6-medium-analysis.md:42`), so this costs nothing today.
  `RenamesNchw` (`RenamesAssumption`) is the condition, and the graphs of
  `MCDetProgram` rename NCHW values only.
* *The fused pass outside its planned life* (`executor.c:1107`).  With fusion
  memory on, the output of the fused chain may be placed over the part of its
  input that the pass has not read yet, against
  `docs/runtime-memory-performance-design.md:262` and `:274`.  An experimental
  build only; `PassIsSafe` names the condition.
* *Weights of a broken block* (`x64_rec_fast_plan.c:940`).  A normalisation is
  folded by scaling whole blocks of 16 output channels, while packing rounds the
  number of blocks up, so the channels of a broken last block stay unscaled.
  `layout_planner.c:192` admits such convolutions, of 12 or 24 channels.  `FastPlan`
  has them (the field `tail`); a plan that folds the normalisation of one computes
  something else, and `AvailableIsCurrent` and `EvalSpec` fail.  `WholeBlocks` says
  of a graph that there is none: it is the hypothesis of both theorems, and the
  graphs of `MCFastPlan` satisfy it.
* *`LW_OCR_FAILED` for a destroyed engine* (`lw_ppocr_sdk.template.js:550`).
  `destroy()` while a picture is prepared makes the call fail on a null module
  rather than report `LW_OCR_DESTROYED`, against `docs/web-sdk.md:281`.
* *Claims of one accumulation order* (`scalar_conv.c:6`,
  `docs/kernel-optimization.md:41`, `avx2_convtranspose2x2.c:34`).  They hold of
  the order (`ConvolutionSpec`), not of the rounding where FMA is chosen by the
  shape of a slice.
* *Temporary directories of a killed installation* (`LwPpocr.kt:323`).  The
  pruning looks for names that begin with the model's id; those of temporary
  directories begin with a dot, so what a killed process leaves is never pruned.
  It blocks nothing (`FailsOnlyWhenRefused`), it only takes space.

---

## 6. The proofs

The proofs are in eight modules of their own, which extend the component and
state every theorem for all values of its constants.

### SharedStateProofs

Four places where threads or processes share something - the fields of the
pool, the count of references to a block, a directory on disk, the engine of the
Web SDK.  They have no variable in common and each has its own specification; the
module extends all four models.

#### The thread pool

*Assumption*: `MaxWorkersAssumption` (at least two indices).
*Specification*: `PoolSafetySpec`, the specification without fairness.

*The inductive invariant* is `PoolTypeOK /\ BarrierInv`.  That the run returns after
all callbacks (`ContextAlive`) is not inductive: the caller returns when
`pending_worker_count` is zero, and nothing in that statement ties the counter to
the threads.  `ShareInv` does: during a run the counter is the number of workers
that *owe* a report - below the active width, and either not yet aware of the
generation or between taking it and reporting - and a share has been called
exactly when its worker has seen the generation.  `QuietInv` says that outside a
run nobody owes anything, which is what publishing needs to start from; `LifeInv`
which threads exist in which phase, which freeing needs.

*The argument*: one lemma per group of actions (`LifeSteps`, `InlineSteps`,
`PublishStep`, `CallerSteps`, `WorkerIdleSteps`, `TakeStep`,
`CallbackReturnsStep`, `ReportStep`), combined in `PoolStep`.  The two that change
the counter count the owing workers: `PublishedShares` when a request is
published, the removal of one element when a worker reports.  `NothingOwed` turns
a zero counter into a fact about each worker.

| Theorem | Establishes |
|---|---|
| `PoolInvariant` | `[](PoolTypeOK /\ BarrierInv)` |
| `ContextOutlivesCallbacks` | no callback outlives its request |
| `NoThreadOutlivesPool` | nothing is destroyed under a thread (an action property) |
| `PoolImplementsParallelFor` | refinement of `ParallelFor`: `RefineInit`, and `RefineStep`, where the invariant supplies that an index is taken once (`TakeStep`) and that the return comes last (`RefineReturn`) |

#### The shared packed weights

*Assumptions*: `Nil` is neither a session nor a block; the sessions are finitely
many; the limit of the count is positive.

*The inductive invariant* is `SharedInv`: `SharedTypeOK`, `CallInv` (what each program point
knows), `BlockInv` (a dead block counts nothing, a live one has a reference or is
about to be freed), `NothingDangles` and `CountIsReferences`.  The last says that
the count is the number of sessions that hold the block plus the number that have
gained it; without `gained` it would be false between the exchange and the
release, and without `dying` a block would leak unnoticed or be freed while
another thread gains it.  That `ShareExchange` may increment a count read earlier
rests on the source of a share not being released meanwhile, which `CallInv`
records.

*The argument*: `Preimages` says how the number of sessions mapped to a block
changes when one session's entry does; `Recount` applies it to both maps;
`LastReference` shows that a count of one leaves no other reference, which is
what a release needs to hand the block to disposal.  One lemma per action that
changes the count (`LayoutStep`, `ShareExchangeStep`, `ReleaseStep`,
`DisposeStep`), one for those that do not (`LocalSteps`).

| Theorem | Establishes |
|---|---|
| `CountIsExact` | the count is the number of references, at any number of threads |
| `NoUseAfterFree` | no reference to a freed or dying block |
| `ReadySessionsArePacked` | a session in use has packed weights |
| `NoLeak` | no block is left when the last session is gone |

`SharedTyping` is the type invariant, with the count never wrapping.

#### The model cache

*Assumptions*: `ModelAssumption` (the models are a sequence of names, not empty)
and `ThreadAssumption`.  Nothing is assumed of the releases, the clock or the
number of kills and refusals, and neither threads nor releases need be finitely many.

*The inductive invariant* is `IInv`: a typing and, for each thread, `ThreadInv`.
`Excludes` makes the thread that installs the only one; `Uses` says the cache of
the installed release is valid while any engine opens it undisturbed (`Opens`);
`Prunes` that a pruning thread has only other caches on its list, so it never
touches that one; `Replaces` that a thread that deletes the cache does so while
nobody opens it undisturbed - it was invalid, or those that opened it are disturbed
from that step on; `HasSeen` that what an undisturbed create has read was whole;
`HasCopied` that what is copied so far is whole, so that the rename publishes a
whole directory; `IsFree` and `Replaces` that its place is free by then, unless
something was refused; `CleansUp` that a failed installation had a refusal.
`OpensWholeModels` alone is not inductive because another thread may act between
two files.

*The argument*: `OwnStep` and `OtherThread` divide a step into the thread that
takes it and the others, for which it suffices that the release's directory and
the temporary directories are left alone (`Untouched`, `SameDirectory`,
`SameTemporaries`).  One lemma per action, combined in `StepInv`; `CheckRefusedStep`
is the one in which `disturbed` is needed.

| Theorem | Establishes |
|---|---|
| `CacheIsWholeWhenOpened` | an engine never reads a model that is missing or short, unless a refused check of another thread condemned the whole cache it was opening |
| `NothingLeftBehindBlocks` | creating an engine fails only where the system refused this call something, or that check of another thread |

#### The engine of the Web SDK

*Specification*: `WebSpec`.
*Assumptions*: `MaxCallsAssumption`, `SizesAssumption` (a picture is not empty),
`OrdersAssumption`.  Nothing is assumed of `MaxErrors`.

*The inductive invariant* is `EngineInv`.  `AnswersItsCall` looks only at what has
settled; that it stays true rests on what is on the way.  `OwnersAgree` is the
heart: whoever awaits the reply with a number is the owner of the request with
that number, so a reply left behind by an error event either finds no promise or
finds its own.  That needs `TypeOK`'s bound (a filed number is below the next
one, so a new request meets no old message) and `CallsInv` (one call at a time,
and it is the one whose reply is awaited, so a reply empties `pending`).
`EmptyInv` says when the engine holds nothing, `HeapInv` that whoever runs a
picture has an engine and takes no buffer to be larger than it is.

*The argument*: lemmas for what actions share - a request (`Requested`), a call
that settles (`Settled`, `SettledCalls`, `SettledByPage`), a run (`Ran`), a reply
(`Replied`, `Took`), a Worker given up (`GivenUp`) - and one lemma per action,
combined in `EngineStep`.  `DestroyedForGood` needs `StaysDestroyed` besides: in a
destroyed engine no promise is filed and no message is on the way, so only
continuations of `_prepare()` are left, and their `finally` tests the state.

| Theorem | Establishes |
|---|---|
| `AnswersAreTheCalls` | a call resolves with the lines of its own picture, in its own order |
| `PicturesFit` | a picture is copied only into a buffer that holds it |
| `DestroyedForGood` | nothing outlives or revives a destroyed engine (an action property) |

`Typing` is the type invariant, `EngineInvariant` the inductive one.

### RecProgramProofs

*Assumptions*: `UnitAssumption` (the alignment is positive), `StrategyAssumption`
and `TilingAssumption`, which type the settings, `GraphsWellFormed` and
`OperandsAssumption`.  The last holds of every graph that reaches the compiler:

* the operands of a convolution after the first are weights (channels first, the
  compiler gives up otherwise, `x64_rec_backend_compile.c:487`; channels last, it
  packs them at once, line 575, without asking whether they are constants);
* an elementwise operator has two operands (`shape.c:224`);
* a reshape has one operand and keeps the number of elements (`shape.c:494`
  refuses another);
* what is convolved, reshaped or multiplied by a matrix is not itself a weight
  (the converter folds those).

#### The arena

*The inductive invariant* is `PlanInv`: `PlanTyped`, `SearchAligned`, `PlacesFit`
and `PlacesDisjoint`.  The last is not inductive alone: the search finds that
`offset_tried` is free, but the value is put at `Align(offset_tried)`, and only
because the search stands at aligned offsets (`SearchAligned`) is that the same
place.

*The argument*: `AlignUp` is the arithmetic of the alignment; `AppendAny` says
what appending does to each position; `BumpStep`, `PlaceStep` and `StartOfPlan`
are the three steps of a plan, `PlanUntouched` every other step of a compiler.
`PlaceStep` has one case for two old places, one for
an old and the new one, in which nothing being in the way is exactly
disjointness.  The proof uses nothing about the lifetimes: an arena has no
conflict whatever the first pass found out.

#### The pairs

That the executor accepts every pair is a statement about all of the compiler:
the executor demands that four places, chosen by the plan, do not overlap at one
moment; the plan only separates values whose lifetimes meet; the lifetimes come
from the first pass, and the pairs the executor runs are marked by the second.

*The inductive invariant* is `ProgramInv`: `PlanInv` and `PassInv`, which says at
each point of the compiler what is known so far.

* `Lowering`, in both passes: the table of operations is that of the nodes behind
  (`Listed`), and what an operation reads is known to live until it runs.
* `FirstPass`: aliases and producers of the results behind are recorded.
* `Planned`, from the plan on: of each value the plan knows that it lives from its
  producer to its last reader under any name, and the input of a pair until the
  pair's second operation (`EntryInv`); every value that is stored is known to the
  plan.  `Embedded`: each name has the offset of the value it stands for.
* `Accepted`, when the program is compiled: the executor's test, `Fits`, holds of
  every marked pair.

`Lowering` and `Planned` speak of operations by *number*, which exist only once a
pass has come to them.  To relate the passes, the proof describes the table by the
graph alone: `Heads` are the nodes an operation or an alias begins at (the least
set with the first node that is closed under what a fold spans), and `Index` is
the number of operations before one.

*The argument*, from the bottom:

* *Folds* take only private temporaries (`FoldFacts`, `SpanFacts`): whatever a
  fold skips has no reader outside it, so an operand of a later operation was
  never folded away (`SoleReader`, `ReaderAfter`).
* *Names*: `RootIs` resolves an alias to the value stored; `OriginFacts`,
  `OnlyName` and `SameSize` say that different results have different roots and
  that a name is as large as its value.
* *Both passes compile alike* (`SameLowering`, `SameOperation`): what is decided at
  a node depends on the graph and on which results are still read afterwards.
* *Pairs*: `PairsAre` and `MarkedAre` give the marking as a condition on the graph
  and the last uses.  Last uses only grow, so the second pass marks no pair that
  the first had not seen; this is why the invariant of an entry may say "or the
  result is read after the pair", in which case it is no longer one.
* *Lifetimes*: `StretchedFacts`, `ExtendedFacts` and `LifeFacts` follow the
  lengthening for aliases and for pairs; `NamesLive` concludes that the entries of
  the four places of a pair contain both operations, `PairFits` that `PlacesDisjoint`
  then gives what the executor demands.
* *Steps*: `EmitStep`, `AliasStep`, `LowerStep`, `FirstPassEnds` (with
  `CandidateStep`), `PlacingStep`, `SecondPassBegins`, `SecondPassEnds`, `RunStep`,
  combined in `ProgramStep`.

#### The run

`OrdersAlwaysMatch` and `ProgramEvaluates` say of a run what the compiler's
decisions are for: that each operation finds its operands, whole and in the
memory order its kernel reads, and that a run evaluates the graph.

*Hypothesis*: `[]OrdersAgree`.  It speaks of the graph alone, and of one node at a
time: were every node an operation of its own, reading and writing in the orders
`compile_node` gives it, each would find what it assumes.  The code does not test
this, and it does fail for some sums of maps of both orders (section 5), so it
cannot be dropped; the graphs of `MCRecProgram` satisfy it.  What is
proved is that nothing else can go wrong: fusing chains, folding bias, residual
and GELU into a convolution, renaming reshapes, reusing places, stretching
lifetimes for pairs, and running pairs tile by tile change neither what is found
nor in which order.

*The inductive invariant* adds `RunInv` to `ProgramInv`.  Before operation `i`,

* `Whole(memory, i)`: whatever an earlier operation has made (`Made`) and the plan
  keeps until `i` (`Kept`) is in memory at the offset of its name (`Has`), and
  whatever is in memory is in the order the graph says, `StoredOrder` (`Right`);
* `Covered(computed, i)`: the nodes of the earlier operations, and the reshapes
  that are other names of their results, are computed.

`OrdersMatch` alone is not inductive: it speaks of the next operation only, and
says nothing of values that a later one reads.  For `ProgramInv` to carry it, the
finished table (`Tabled`) is part of what is known when the program is `Ready`.

*The argument*:

* *Orders.*  `StoredOrderIs` unfolds the recursive function `StoredOrder`;
  `AliasOrder`, `ElementwiseOrder`, `ChainOrder`, `SumOrder` and `FoldOrder` follow
  it through a name, a chain and a fold: an operation made of several nodes gives
  its result the order its last node gives (`CompiledOrders`).
* *Finding.*  `FoundKept`: an operand of an operation was made before it and is
  kept until it has run; this is where `EntryInv` is used, for the tail's
  activation too.  `GoodIs`: so the operation finds its operands in order.
* *Writing.*  `WriteKeeps`: a result destroys nothing that is still kept, by
  `PlacesDisjoint`; `OperationRuns` puts the three together, `ExecuteStep` and
  `PairStep` apply it once and twice.  For a pair the expansion's input must have
  survived the projection's result, which is what the stretched lifetime is for
  (`MarkedWell`).
* *Evaluating.*  `OwnCovered` and `OriginCovered`: what an operation reads is
  computed; `NameGrounded` and `ResultGrounded`: each newly computed value is
  produced by a node whose operands are computed, a name being a reshape of one.
  `FinishIs` and `FinishGrounded` do the same for the tail, and `BackboneCovered`
  says that by then no node is left out.

Induction along the nodes is by `Induction`, which the module derives from the
well-foundedness of finite sets for a *set* of numbers, since a theorem with an
operator as parameter cannot be cited.

| Theorem | Establishes |
|---|---|
| `RecArenaIsSafe` | `[](PlacesDisjoint /\ PlacesFit)` for the whole compiler: values that live together are apart, and inside the arena |
| `NoPairIsRefused` | `[]PairsAccepted`: the executor refuses no pair the compiler made |
| `OrdersAlwaysMatch` | `[]OrdersAgree => []OrdersMatch`: every operation of every run finds its operands in the order its kernel reads |
| `ProgramEvaluates` | `[]OrdersAgree =>` refinement of `GraphEvaluation`: a run computes each value from operands that are still there, and one that ends well has the outputs |

### DetProgramProofs

*Assumptions*: `UnitAssumption` and what `DetProgram` assumes of its graphs
(`GraphsSound` puts it together): they are well formed and well typed, the input is
not a weight, an elementwise operator of two operands has two, and a reshape
renames an NCHW value (`RenamesNchw`, section 5).  `Strategies` and `Wasm` are as
in the code.

#### The arena

The same invariant `PlanInv`, with the same argument, for the values of this
program and their alternate slots.

#### The layouts

`LayoutsAlwaysMatch` says that a kernel never reads a map that lies in the other
layout.  Nothing like `OrdersAgree` is assumed: this compiler converts a map
before the first reader that wants it otherwise, into a second slot of the same
value, and what is proved is that conversions, fusions, names, slots and offsets
fit together.

*The inductive invariant* is `Inv`.  An operation reads at an offset, so the
claim needs to know what lies there:

* `LayoutsInv`: every node runs in one of the two layouts, reshapes and what reads
  them as maps in NCHW.  `Named`: only reshapes make names, so what a name stands
  for is an NCHW value (`RootFacts`).
* In the first pass, `First`: the nodes come to are `Heads`, as
  `lower_ops` skips what it has folded; every result behind has its producer;
  every value that an operation behind wants in the other layout (`Wanted`) has an
  alternate slot, filled after the value was written (`Written`) and before the
  last use of its primary slot; a value that is still to come has none.
* While the arena is planned, `Planned`: a value that is both written and wanted
  has two entries in the plan, and both live when the conversion runs.
* In the second pass, `Settled` and `Second`: the two places of such a value
  differ, and every operation lowered so far (`Right`) reads each operand in the
  place where the wanted layout is, and writes its result where its layout
  belongs.
* In a run, `Memory`: whatever is in the arena lies in one of the two places of
  its value, in the layout of that place (`Kept`).

`LayoutsMatch` is not inductive: it does not say that the two places of a value
differ.  If they were one, a reader could find the map as it was before, or after,
the conversion.  That they differ is a matter of lifetimes, which only the first
pass knows: the conversion reads the one and writes the other, so both live in
that operation, and `PlacesDisjoint` keeps apart what lives together.

*The argument*:

* *What is folded.*  `FoldIs` and `SpanFacts` say which nodes an operation
  stands for; `PendingFacts` which operands it must convert; `ReadIsOlder` that
  what it reads was lowered before.
* *First pass.*  `ConvertFirst`, `EmitFirst` and `AliasFirst` are the three things
  a step may do, `FirstStep` puts them together; `Converted` draws the
  conclusion behind the last node.
* *Plan.*  `PlanStarts` and `PlanGoesOn` carry the lifetimes through the
  placing, and `SecondBegins` concludes with `PlacesDisjoint` that the places
  differ.
* *Second pass.*  `ConvertSecond`, `EmitSecond` and `SecondStep`; an operand's offset
  is chosen by the same comparison of layouts that made the first pass convert
  (`OperandsRight`).
* *Run.*  `Performs`: an operation that `Right` describes leaves `Memory`
  true, and `ReadsRight` that it reads the layout it wants.
* `InvStep` combines the steps.

| Theorem | Establishes |
|---|---|
| `DetArenaIsSafe` | `[](PlacesDisjoint /\ PlacesFit)`: the places of values that live together, alternate slots included, are apart, and inside the arena |
| `LayoutsAlwaysMatch` | `[]LayoutsMatch`: no operation of a detection run reads a map in the wrong layout |

### OcrRequestProofs

*Assumptions*: `CountAssumption`, `BandAssumption`, `WidthAssumption` (workers,
crops, rows of bands, their bytes, the first capacity of the band list and the
widths are positive) and `SettingAssumption`, which types the settings.  Nothing is assumed
of the number of requests, of what the system refuses or of which workers fail.
*Specification*: `Spec`; its fairness is not used.

*Condition*: `OwnBands`, in the statements of `BandsStayDisjoint` and
`RecognizedWhole` (section 5).  It holds of every page while memory lasts
(`FreshInv`), and of every page that begins with an empty band list.

*The inductive invariant* is `IInv`: `TypeInv`, `PhaseInv` (a callback runs
exactly while its fork does), `ScheduleInv` (the schedule names each line once,
and when it is complete every line), `BandsInv` (the bands of such a page are those
of its scheduled crops, each row once), `PixelsInv` and `LinesInv`.
`RecognizedWhole` and `NoLineMissing` are about the moment at which a phase is
over; what makes them true is what holds *during* the phase.

`PixelsInv` is about the shared buffer.  `GeometryInv` and `LayoutInv`: the
records of this page are of its boxes, and scheduled crops lie one behind the other.
`BandsListed`: each row of a scheduled crop has a band.  `BandsCovered`: a
band that is not drawn yet lies on the stride of a worker that has not
returned - so when all have, none is left (`AllDrawn`).  `LinesWhole`: from
then on each crop that a worker may still come to is whole, though others are
being turned; for this `ClaimOnce` says that no slot is promised twice.

`LinesPending`: a line
that is not recognized yet is behind the shared cursor, is the initial or the
drawn slot of a worker that has not returned, or was given up by one that
reported an error - so when all have returned without one, none is left
(`AllRecognized`).  `LinesRun` supplies that a worker returns only when the
cursor has run out, and that the fork is as wide as the crops were dealt; the
last needs `PoolAsAsked` and is exactly what a partial pool breaks (section 5).

*The argument*: `AssignmentIsPermutation` shows that the dealing of initial crops
by width is a permutation of the first slots, by way of the set of slots still
unused (`SomeLeft`, `PickIsUnused`); `CapacityGrows` that doubling reaches what a
page needs, `PlannedBytes` what reserving does; `BandsOfCrop`, `BandsAppended` and
`CropPlaced` what a crop adds to the list and the buffer; `Rows` and `RowOfPlace`
are the arithmetic of rows in a crop, from which bands of one crop are apart
(`BandsApart`) and its rows are all of it; `CropsApart` that different crops are;
`OnAStride` and `NextOnStride` are the arithmetic of the strides.  Then one lemma
per part of the invariant, with one step per action.

| Theorem | Establishes |
|---|---|
| `BandsDisjointAlways` | under `OwnBands`: bands rasterized at once write places that are apart, rows of this page's crops, inside the buffer |
| `RecognizedWholeAlways` | under `OwnBands`: a crop that a worker classifies, turns and recognizes shows its own box in every pixel |
| `NoLineMissingAlways` | with the pool asked for, every line published was recognized in this request |
| `PublishesWhole` | the caller's buffers change only by a whole response (an action property) |

### RecognizerProofs

*Assumptions*: `WidthsAssumption` (widths are positive), `MaxWorkersAssumption`,
`NilAssumption` (`Nil` is no session, pool or width).  Sessions, pools and widths
need not be finitely many.

*The inductive invariant* is `IInv`: `TypeOK`; `ControlInv`, what each point of a
call knows of the slots; `OwnersInv` - each slot fits its session (`SlotsFit`),
no two slots own the same one (`Apart`), and every live session is owned
(`AllOwned`); `WidthsInv`, which widths the slots hold; `PoolInv`, with the
sessions that do not exist borrowing nothing, because a freed address may be
handed out again; `PlansInv`; `NoWidthLost`.  `OneOwner` is not inductive: an
eviction overwrites the cached slot, and that loses no session only because the
slot is empty there (`ControlInv`), and a swap keeps the companions right only
because they fitted before it.

*The argument*: one lemma per part of the invariant, over the actions; those that
open a session share `OwnersOpen` and `Opened`, those that build a plan
`OwnersPlanned` and `Planned`, and `SetWorkersPool` with `Attaches` is the
replacement of the pool under everything that borrows it.

| Theorem | Establishes |
|---|---|
| `OneOwnerAlways` | a live session, plan or instance is held in exactly one place |
| `AtMostTwoWidthsAlways` | without resident widths at most two sessions live, of two widths |
| `ExecutesItsLineAlways` | what runs is of the line's width and reads the buffer the line was written to |
| `OnePoolAlways` | everything borrows the handle's live pool |
| `FailedSwitchKeepsActiveAlways` | a switch that fails changes nothing of the active slot (an action property) |
| `NoWidthLostAlways` | with resident widths a slot of each width is always found, so the error of `recognizer.c:452` is dead code |
| `PlansFollowSessions` | the live plans are those of the slots, each on its slot's own session |

### WorkspacePlannerProofs

*Assumptions*: `GraphAssumption` (a tensor is produced once, before it is read,
and has a positive size) and `BuildAssumption` (fusion memory needs the second planner).
The graphs need not be finitely many and may be of any length.

*The inductive invariant* is `IInv`.  `TypeInv` says that what is placed is a
plan: inside the workspace (`Fitting`) and with tensors that live together apart
(`Disjoint`).  That is not inductive for first fit, which never compares two
lives: it needs `V1Inv`.  There `LiveInv` says that the live tensors are those
placed whose last use is not over, and are apart; `FreeInv` that the free list is
sorted and coalesced and holds no line of a live tensor.  The second planner
compares lives, and `V2Inv` keeps the first plan, which may be restored.
`RunInv` says what memory holds between nodes: whatever is alive (`AliveIntact`),
and inside a fused pass the part of the input still to be read and the part of
the output already written (`PassInv`).

*Three arguments*:

* *Reuse.*  `BeforeIsPrefix`, `Inserted`, `Removed` and `Joined` show
  that freeing a tensor adds exactly its lines to the free list and leaves it
  sorted and coalesced (`Freed`), and that taking part of a block removes exactly
  what is taken (`Taken`).
* *The fused pass of the default build*, whose input is dead before its output is
  placed.  `SourceFreed` says that all of the input's lines are then free;
  because the list is coalesced they lie in one block (`OneBlock`), so first fit,
  for an output of the same size, stops at that block or before it: the output
  begins not behind the input, or apart from it (`PassForward`).  A pass in
  ascending order then never overwrites what it has still to read (`PassInv`).
  Without coalescing neither step would hold.
* *Elided temporaries.*  `ChainsApart`: two fused chains share no node, since only
  the first node of a chain is a division, so the executor, which goes from the
  front of a chain to its end, is never inside one (`Outside`).  An elided tensor
  is written and read in one chain only (`SkippedFacts`), hence by no node that
  runs by itself; where the pass is safe nothing is elided (`NothingSkipped`).

The second planner's order (largest first, then by birth) is a strict order on
finitely many tensors (`TensorsFinite`, `MinimalExists`), so
there is a first one to place until all are (`FirstIs`), which makes an accepted
plan complete.

| Theorem | Establishes |
|---|---|
| `LiveRangesDisjointAlways` | in the plan a session runs with, tensors alive at the same node are apart |
| `NoElidedTensorIsUsedAlways` | a node that runs by itself has a place for all it reads and writes |
| `ReadsIntactAlways` | where the pass is safe, every node reads what was produced for it, and the outputs are whole at the end |
| `FusedReadsIntactAlways` | in the default build the fused pass never overtakes itself |

### FastPlanProofs

*Assumptions*: `GraphsWellFormed` (a graph is a sequence of nodes in execution
order, whose operands are produced before they are read; a convolution has one of
the forms of the code), `ShapesAssumption` (what shape inference guarantees: a
shape fixes the rank and whether the layouts are the same in memory, and an
elementwise chain keeps its shape), `OutputsAssumption` (no node reads an output)
and `FailuresAssumption`.  The graphs may be of any
length and need not be finitely many; any allocation may fail.

*Hypothesis*: `WholeBlocks`, of the graph of the behaviour: a normalised convolution
has whole blocks of channels.  The code does not ask for it and is wrong without it
(section 5), so it cannot be dropped.

*The inductive invariant* is `IInv`.  `PlanInv` is about a plan, `RunInv` about a
run of it.  `CompileInv` (`Ordered`) says that the operations compiled so far
stand for all nodes up to the current one, each node for one operation and in the
order of the graph, and of each that it is what its kernel takes it for
(`OperationRight`): what it writes, whom it asks for a layout, and that nobody
else reads what it folded away.  `PlaceInv` says that what has a place in the NHWC
workspace needs one and, once the plan is ready, that places which are wanted at
the same operation do not overlap.  `RunInv` (`Held`) has three parts.  What the
code records is true as a record (`Honest`): an operation that was run has left
the layout it writes, and no layout is recorded for a tensor not yet written or
without a place.  And what is recorded is current (`Current`) as long as an
operation still reads the tensor.  `AvailableIsCurrent` alone is not inductive:
it does not say why an operation's operands are among the recorded ones, nor why
writing a result leaves the others alone.

*The argument*:

* *Recursive functions.*  The layout plan and the conversions of an operation's
  operands are functions defined by recursion on the number of nodes or operands.
  A statement that can be written as membership in a set is proved for all their
  arguments with `Induction` (the least exception), and `Recursion` says that such
  a function is what its definition says.
* *Layouts* (`VisitsKeep`, `LayoutsAsk`, `LayoutsKept`): what the planner puts on
  NHWC maps could run there, and a node that could but was left on NCHW reads
  nothing but NCHW, so the fused GELU finds its source (`GeluFinds`).
* *Operations* (`SoleReader`, `Grows`, `GeluRight`, `ConvRight`): a tensor counted
  once has one reader, so folding it away loses nothing; a normalisation that is
  folded finds the weights scaled whole (`ScaledWhole`, by `WholeBlocks`).
* *Lifetimes* (`PhysicalOrder`, `LifeFacts`): counting in operations instead of
  nodes keeps the order, so two tensors wanted at one operation are alive together
  and their places are apart (`PlacesApart`).
* *A step of a run*: a conversion leaves what is wanted from there on
  (`ConvertedHeld`), so after the operands of an operation were asked for in turn
  they are all there (`EnsuredHeld`, `ReadsHeld`), also while the result is
  written (`GoodHolds`); and a result destroys only what nobody wants any more
  (`WriteKeeps`, `WrittenHeld`).

| Theorem | Establishes |
|---|---|
| `CurrentCopies` | `WholeBlocks => []AvailableIsCurrent`: a layout recorded as available is the current value, while anybody reads it |
| `PlanEvaluates` | `WholeBlocks =>` refinement of `GraphEvaluation`: every operation of a run computes its nodes from current values, and a run that succeeds has the outputs |

### ConvRunProofs

*Assumptions*: `JobsAssumption` (what the code checks of a node before it runs it:
positive sizes, kernels, strides and dilations, groups that divide the channels,
an output of the size the input gives), `RunAssumption` (positive block sizes, and
blocks of eight channels for packed 3x3 weights, which its kernels are written
for) and `UnsetAssumption`.  Planes, windows, paddings and channels are of any
size, and so are the vectors' widths and the number of workers.

*The inductive invariant* is `IInv`: `CutInv` - the slices left are of one cut of
the channels, and the current one is of the same cut; `BlockInv` - a block begins
at a multiple of the kernel's group of channels, and the kernel that runs is the
one the code would choose again; `OutInv` - each channel is either uncomputed and
waiting, in a slice that is left or in the rest of the current one, or computed
from its own bias and weights; `LoopInv` - the loops are within the kernel's
ranges; `LoadInv` - what was loaded was inside.  `NoChannelIsLeftOut` is not
inductive, as it says nothing before the end; `OutInv` does.  `LoadsInRow` needs
`LoopInv`, which in turn needs that the kernel does not change under the loops
(`BlockInv`).

*The argument*:

* *The cut.*  `BoundFacts` and `SliceFacts`: the bounds are whole blocks, do not
  decrease, begin at nothing and end at the last channel, so each channel is in
  one slice and no other (`Alone`), whatever the division leaves over.
* *The choice of a kernel.*  `EvenKernels`, `EvenConvolutions`, `KernelGroup`: a
  kernel that computes several channels at once is chosen only if they come out
  even in the slice, so no block goes beyond it (`GroupFits`).
* *The loops.*  One lemma per family of kernels says that a place its loops can be
  at loads only from inside the input: `PointwiseSafe`, `CentredSafe`,
  `OtherSpreadsSafe` for those that add one tap to a range of outputs (from
  `UnitRanges`, `Stride2Ranges`, `AxisRanges`, the arithmetic of a range trimmed at
  both ends); `UnitTileSafe`, `Stride2TileSafe`, `WideTileSafe`, `GeneralSafe` and
  `Packed1x1Safe` for those that finish one output before the next.
  `ConvolutionSafe` puts them together along the choice, `KernelIs` along the
  slice.
* *The steps*: `TapStep`, `CollectStep` and `StrewStep` for the three forms of a
  loop, and one lemma per action.

| Theorem | Establishes |
|---|---|
| `EveryChannel` | `[]NoChannelIsLeftOut`: at the end every channel is computed |
| `ChannelsComeOutOnce` | a step computes only a channel that no step did, from that channel's bias and weights (an action property) |
| `LoadsStayInRow` | `[]LoadsInRow`: no kernel loads from outside the rows of its input, but for the one float of `Spare` |

---

## 7. What is only model-checked, and what is not modelled

Only model-checked:

* That the compiled DET program evaluates its graph (`EvalSpec` of `DetProgram`).
  Its arena and its layouts are proved: what an operation finds is never in the
  wrong layout.  That each slot is filled before its first reader, and that
  nothing is put over it until its last, is not: a value has two slots with lives
  of their own.  The same refinement is proved for the fast plan and, under
  `OrdersAgree`, for the REC program.
* That a convolution adds its taps in the one order (`ConvolutionSpec`).  The sums
  are sequences put together by filtering and folding, and what these compute for
  every input is induction over data, out of reach of the provers at hand.
* Every liveness property.  Liveness under fairness and `ENABLED` are out of
  reach of the prover.

No module declares a `RECURSIVE` operator: one would cost its module, and every
module above it, the prover's arithmetic.

Left out of the modelled components:

* pixels, scores and texts (only where they come from is kept), profile counters,
  wording of errors, option checks that return before any state changes;
* what a kernel computes, except the convolutions: for the engines a node's value
  is right when its operands were;
* overflow of 64-bit sizes, which the code tests before each addition;
* weak memory: the pool's fields are under its mutex, and atomics are taken to be
  sequentially consistent;
* streaming crops, the tiled CTC head, the metadata-only sessions of the WASM
  build, prepared execution;
* in the engines, graphs the converter does not make: reshapes and unary
  operators of weights, a reshape that renames a map of the other layout, an
  output that is also read;
* in `ModelCache`, the engine's own lock and `closed` flag and the parsing of the
  manifest.

Not modelled at all are the components with status `not_modelled` in
`PROJECT.json`, each with its reason there: creation of an OCR handle, the
detector's sessions and postprocessing, the classifier, CTC decoding, the reading
order, crop geometry, session creation, reading and validating a model, processor
features, matrix and elementwise kernels, the demonstration page, the HTTP
server, the C# and Java bindings, and the offline tools.

Neither checked nor proved are the conditions `OrdersAgree`, `WholeBlocks` and
`OwnBands`: the code does not establish them, and section 5 says what happens
without them.  The graphs of the runs satisfy the first two by construction; pages
without the third occur in `MCOcrRequest`.

Three hazards have no property yet: the order of replacement in the detector's
WASM build (`detector.c:341`), the weights of a broken block
(`x64_rec_fast_plan.c:940`, section 5), and a file chosen while another is being
opened on the demonstration page (`ocr-demo-ui.js:602`).

---

## 8. The plan

Done: the parts that carry the program's concurrency and sharing (the pool, the
page, the recognizer, the shared weights, the Web engine, the model cache), and
those that run a graph (the workspace, the three compiling engines, the
convolutions).

Still worth modelling, in this order:

1. `DetectorSession` - `ensure_session` of `detector.c`: session, buffers and
   compiled instance replaced together, in the native order (commit, then build
   the instance) and in that of the WASM build (build, then commit).  Invariant:
   what runs is of the size asked for.
2. `OcrHandle` - creation of a handle with its workers, clones and intra-op
   threads, unwound from any failure; it composes `Recognizer`, `ThreadPool` and
   `OcrRequest`.
3. `DemoPage` - selection of files, PDF runs and their stop, changing the
   classifier, over the promises of `WebEngine`.
4. Pure functions, checked against reference definitions over bounded inputs: CTC
   collapse in two passes, the insertion sort of the reading order with its
   non-transitive relation, the doubling buffer.

The theorem worth proving next is `DetProgram!EvalSpec`, on top of the invariant of
`DetProgramProofs` and with the argument of `ProgramEvaluates`: lifetimes per slot instead of per value, and
that the alternate slot of a value is filled before its first reader in the other
layout.
