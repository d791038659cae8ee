----------------------------- MODULE OcrRequest -----------------------------
(***************************************************************************)
(* One lw_ocr handle of src/src/ppocr/ocr.c serving requests one after the *)
(* other: crop_and_run_adaptive (longest-first schedule, row bands, the    *)
(* parallel crop phase), run_worker_tasks (worker assignment, the shared   *)
(* crop cursor, the line workers) and the publication of                   *)
(* ocr_run_bgr_u8_impl.  It is the default native build: persistent line   *)
(* pool, parallel crop phase, no streaming crops.                          *)
(*                                                                         *)
(* The pool is used through the parallel for that ThreadPool implements:   *)
(* PF!Start, PF!Begin, PF!End and PF!Return are the steps of a run.  What  *)
(* one callback does between two accesses to shared state is one step.     *)
(*                                                                         *)
(* A page is the boxes the detector found; a box that is not usable has no *)
(* height.  Heights are counted in bands, buffer places in the bytes that  *)
(* matter: a band of a box takes box.width of them.  A pixel is what it    *)
(* shows of the page under way - which box, and which place in its crop -  *)
(* and a scratch line carries the number of the request whose recognizer   *)
(* wrote it.  A crop that the rasterizer turns by a quarter (crop.c 169,   *)
(* 206) fills columns instead of rows, which are disjoint in the same way. *)
(***************************************************************************)
EXTENDS Integers, Sequences, FiniteSets, FiniteSetsExt

CONSTANTS
  MaxWorkers,         \* largest lw_ocr.worker_count
  MaxCrops,           \* info.max_line_capacity
  Widths,             \* REC target widths
  MaxWidth,           \* widest band, in places of the crop buffer
  MaxHeight,          \* tallest crop, in bands of LW_OCR_CROP_ROWS_PER_BAND
  FirstBandCapacity,  \* 64 in ensure_crop_bands
  MaxRequests,        \* bound on the number of requests
  Settings            \* what the system may refuse, and the pages that come

ASSUME CountAssumption ==
  /\ MaxWorkers \in Nat \ {0} /\ MaxCrops \in Nat \ {0}
  /\ MaxWidth \in Nat \ {0} /\ MaxHeight \in Nat \ {0}
ASSUME BandAssumption == FirstBandCapacity \in Nat \ {0} /\ MaxRequests \in Nat
ASSUME WidthAssumption == Widths \subseteq Nat \ {0} /\ Widths # {}

Box == [target_width : Widths, width : 1 .. MaxWidth, height : 0 .. MaxHeight]
Faults == {"threads", "memory"}

(* A setting: the workers of the handle; whether the system may refuse to  *)
(* start a pool thread or to grow a buffer; how many boxes a page may have *)
(* and of which shapes; how many pages come.                               *)
ASSUME SettingAssumption ==
  Settings \subseteq
    [workers : 1 .. MaxWorkers, faults : SUBSET Faults,
     crops : 0 .. MaxCrops, shapes : SUBSET Box, pages : 0 .. MaxRequests]

Indices == 0 .. MaxWorkers - 1
CropIndex == 0 .. MaxCrops - 1
NoSlot == MaxCrops + MaxWorkers + 1     \* UINT32_MAX: never a real slot

VARIABLES
  setting,            \* chosen once
  \* fields of the handle that outlive a request
  line_pool,          \* worker_count of the pool, 0 when it is NULL
  detected_boxes, crops,   \* boxes and crop records, also of earlier requests
  crop, crop_capacity,     \* the buffer all crops of a request share
  crop_bands, crop_band_capacity, crop_band_status,
  scratch_lines,      \* scratch_lines[i]: the request that wrote line i
  current_width,      \* the width each recognizer is configured for
  \* the request under way
  rpc, request, line_count, crop_used, crop_schedule, next_crop_slot,
  initial_crop_slot, task_status, active, serial,
  left_over,          \* history: it began with bands of an earlier request
  \* the callbacks of its run
  callback, cursor, slot,
  width, calls, returns,
  \* the caller's output buffer: which request's scratch each line came from
  published

records == <<detected_boxes, crops>>
buffer == <<crop, crop_capacity>>
band_list == <<crop_bands, crop_band_capacity, crop_band_status>>
output == <<scratch_lines, current_width>>
handle == <<line_pool, records, buffer, band_list, output>>
page == <<request, line_count, left_over>>
schedule == <<crop_used, crop_schedule>>
tasks == <<next_crop_slot, initial_crop_slot, task_status, active, serial>>
plan == <<page, schedule, tasks>>
work == <<callback, cursor, slot>>
fork == <<width, calls, returns>>
vars == <<setting, handle, rpc, plan, work, fork, published>>

PF == INSTANCE ParallelFor
        WITH width <- width, calls <- calls, returns <- returns

worker_count == setting.workers

-----------------------------------------------------------------------------
Lines == 0 .. line_count - 1
Scheduled == {crop_schedule[s] : s \in DOMAIN crop_schedule}
Smaller(m, n) == IF m < n THEN m ELSE n
Larger(m, n) == IF m < n THEN n ELSE m

(* lw_crop_quad_unrotated_height of the box a crop record points to.       *)
BoxOf(c) == detected_boxes[crops[c].box_index]
Height(c) == BoxOf(c).height
Bytes(box) == box.width * box.height

(* The places of a whole crop, and those that one of its bands writes.     *)
CropPlaces(c) == crops[c].offset .. crops[c].offset + crops[c].byte_count - 1
BandPlaces(band) ==
  LET record == crops[band.crop_index]
      row_bytes == BoxOf(band.crop_index).width
  IN  record.offset + band.row * row_bytes
        .. record.offset + (band.row + 1) * row_bytes - 1

(* What belongs at a place of a crop, and what shows nothing of this page. *)
Pixel(c, place) ==
  [box |-> crops[c].box_index, at |-> place - crops[c].offset]
Blank == [box |-> MaxCrops, at |-> 0]

Init ==
  /\ setting \in Settings
  /\ line_pool = 0
  /\ detected_boxes =
       [b \in CropIndex |-> [target_width |-> 0, width |-> 0, height |-> 0]]
  /\ crops = [c \in CropIndex |->
                [offset |-> 0, byte_count |-> 0, box_index |-> 0, target_width |-> 0]]
  /\ crop = <<>> /\ crop_capacity = 0
  /\ crop_bands = <<>> /\ crop_band_capacity = 0 /\ crop_band_status = "OK"
  /\ scratch_lines = [c \in CropIndex |-> 0]
  /\ current_width = [w \in Indices |-> 0]
  /\ rpc = "idle" /\ request = 0 /\ line_count = 0
  /\ crop_used = 0 /\ crop_schedule = <<>> /\ next_crop_slot = 0
  /\ initial_crop_slot = [w \in Indices |-> NoSlot]
  /\ task_status = [w \in Indices |-> "OK"]
  /\ active = 0 /\ serial = FALSE /\ left_over = FALSE
  /\ callback = "none"
  /\ cursor = [w \in Indices |-> 0]
  /\ slot = [w \in Indices |-> NoSlot]
  /\ published = <<>>
  /\ PF!Init

(* Mutation: the scratch lines are copied out before the status is known. *)
ReturnErrorCopies ==
  /\ rpc' = "idle"
  /\ published' = [s \in 1 .. line_count |-> scratch_lines[s - 1]]

(* Returning an error leaves the caller's buffers alone. *)
ReturnError == rpc' = "idle" /\ UNCHANGED published

-----------------------------------------------------------------------------
(* Of n boxes, of which the first j are looked at, index lists the usable  *)
(* ones in order: line k is cut from box index[k].                         *)
Lists(index, m, boxes, j) ==
  /\ \A k, l \in 0 .. m - 1 : k < l => index[k] < index[l]
  /\ {index[k] : k \in 0 .. m - 1} = {b \in 0 .. j - 1 : boxes[b].height # 0}

(* Detection writes the boxes, crop geometry the records of usable ones:   *)
(* none has a place in the buffer yet.                                     *)
WriteRecords(n, boxes, m, index) ==
  /\ detected_boxes' =
       [b \in CropIndex |-> IF b < n THEN boxes[b] ELSE detected_boxes[b]]
  /\ crops' =
       [c \in CropIndex |->
          IF c < m THEN [offset |-> 0, byte_count |-> Bytes(boxes[index[c]]),
                         box_index |-> index[c],
                         target_width |-> boxes[index[c]].target_width]
          ELSE crops[c]]

(* A page of n boxes, m of them usable. *)
Detect(n, boxes, m, index) ==
  /\ rpc = "idle" /\ request < setting.pages
  /\ Lists(index, m, boxes, n)
  /\ WriteRecords(n, boxes, m, index)
  /\ request' = request + 1
  /\ line_count' = m
  /\ left_over' = (crop_bands # <<>>)
  /\ crop_schedule' = <<>> /\ crop_used' = 0
  /\ rpc' = "reserve"
  /\ UNCHANGED <<line_pool, buffer, band_list, output, tasks, work, fork,
                 published>>

(* The detector fails, or box j is too large to crop: the records of the   *)
(* boxes before it have been written already.                              *)
DetectFails(n, boxes, j, m, index) ==
  /\ rpc = "idle" /\ request < setting.pages
  /\ Lists(index, m, boxes, j)
  /\ WriteRecords(n, boxes, m, index)
  /\ request' = request + 1
  /\ ReturnError
  /\ UNCHANGED <<line_pool, buffer, band_list, output, line_count, left_over,
                 schedule, tasks, work, fork>>

-----------------------------------------------------------------------------
(* ensure_crop_capacity: the buffer only ever grows, keeping its contents. *)
EnsureCapacity(byte_count) ==
  /\ crop_capacity' = Larger(crop_capacity, byte_count)
  /\ crop' = [p \in 0 .. crop_capacity' - 1 |->
               IF p < crop_capacity THEN crop[p] ELSE Blank]

planned_crop_bytes ==
  LET upto[k \in 0 .. line_count] ==
        IF k = 0 THEN 0 ELSE upto[k - 1] + crops[k - 1].byte_count
  IN  upto[line_count]

(* crop_and_run_adaptive reserves room for every crop of the page at once. *)
(* Pixels that earlier pages left in the buffer show nothing of this one.  *)
Reserve ==
  /\ rpc = "reserve"
  /\ crop_capacity' = Larger(crop_capacity, planned_crop_bytes)
  /\ crop' = [p \in 0 .. crop_capacity' - 1 |-> Blank]
  /\ rpc' = "schedule"
  /\ UNCHANGED <<line_pool, records, band_list, output, plan, work, fork,
                 published>>

ReserveFails ==
  /\ "memory" \in setting.faults
  /\ rpc = "reserve" /\ planned_crop_bytes > crop_capacity
  /\ ReturnError
  /\ UNCHANGED <<handle, plan, work, fork>>

(* The widest crop not yet scheduled comes next, the lowest index first    *)
(* among equals; it takes the places behind those scheduled before, and    *)
(* its row bands join the band list.                                       *)
NextCrop ==
  LET left == Lines \ Scheduled
      widest == Max({crops[c].target_width : c \in left})
  IN  Min({c \in left : crops[c].target_width = widest})

PlaceCrop(c) ==
  /\ crops' = [crops EXCEPT ![c].offset = crop_used]
  /\ crop_used' = crop_used + crops[c].byte_count
  /\ crop_schedule' = Append(crop_schedule, c)

Bands(c) == [r \in 1 .. Height(c) |-> [crop_index |-> c, row |-> r - 1]]

(* ensure_crop_bands doubles until the requirement fits. *)
GrownCapacity(required) ==
  IF crop_band_capacity >= required THEN crop_band_capacity
  ELSE LET base == IF crop_band_capacity = 0 THEN FirstBandCapacity
                   ELSE crop_band_capacity
           doubled[k \in 0 .. required] ==
             IF k = 0 THEN base ELSE 2 * doubled[k - 1]
       IN  Min({c \in {doubled[k] : k \in 0 .. required} : c >= required})

ScheduleCrop ==
  LET c == NextCrop
      bands == crop_bands \o Bands(c)
  IN
  /\ rpc = "schedule" /\ Lines \ Scheduled # {}
  /\ EnsureCapacity(crop_used + crops[c].byte_count)
  /\ PlaceCrop(c)
  /\ crop_bands' = bands
  /\ crop_band_capacity' = GrownCapacity(Len(bands))
  /\ UNCHANGED <<line_pool, detected_boxes, crop_band_status, output, rpc, page,
                 tasks, work, fork, published>>

(* The band list cannot grow: the request returns OUT_OF_MEMORY with the   *)
(* bands appended so far still in the list.                                *)
ScheduleFails ==
  LET bands == crop_bands \o Bands(NextCrop) IN
  /\ "memory" \in setting.faults
  /\ rpc = "schedule" /\ Lines \ Scheduled # {}
  /\ Len(bands) > crop_band_capacity
  /\ EnsureCapacity(crop_used + crops[NextCrop].byte_count)
  /\ PlaceCrop(NextCrop)
  /\ crop_bands' = SubSeq(bands, 1, crop_band_capacity)
  /\ ReturnError
  /\ UNCHANGED <<line_pool, detected_boxes, crop_band_capacity, crop_band_status,
                 output, page, tasks, work, fork>>

-----------------------------------------------------------------------------
(* lw_thread_pool_create(worker_count): NULL below two workers or when no  *)
(* thread starts, else a pool of those that started.                       *)
PoolSizes ==
  {0} \cup {k \in 2 .. worker_count : k = worker_count \/ "threads" \in setting.faults}

(* line_pool is created on first use and kept, whatever its size. *)
EnsurePool(needed) ==
  IF line_pool = 0 /\ needed THEN line_pool' \in PoolSizes
  ELSE UNCHANGED line_pool

(* lw_thread_pool_run clamps the width to the pool. *)
RunWidth(n, size) == IF size = 0 \/ n < 2 THEN 1 ELSE Smaller(n, size)

StartBands ==
  LET count == Len(crop_bands)
      band_workers == Smaller(worker_count, count)
  IN
  /\ rpc = "schedule" /\ Lines \subseteq Scheduled /\ count # 0
  /\ EnsurePool(count > 1)
  /\ PF!Start(RunWidth(band_workers, line_pool'))
  /\ crop_band_status' = "OK"
  /\ callback' = "bands" /\ serial' = FALSE
  /\ cursor' = [w \in Indices |-> w]
  /\ rpc' = "running"
  /\ UNCHANGED <<records, buffer, crop_bands, crop_band_capacity, output, page,
                 schedule, next_crop_slot, initial_crop_slot, task_status,
                 active, slot, published>>

(* A page without a usable box goes straight on, with nothing to run. *)
NoBands ==
  /\ rpc = "schedule" /\ Lines \subseteq Scheduled /\ crop_bands = <<>>
  /\ rpc' = "lines"
  /\ UNCHANGED <<handle, plan, work, fork, published>>

Inside(w) == calls[w] = 1 /\ returns[w] = 0 /\ w < width

(* Another worker of the run begins; without a pool they run in turn. *)
Begin(w) ==
  /\ PF!Begin(w)
  /\ serial => \A v \in Indices : v < w => returns[v] = 1
  /\ UNCHANGED <<handle, rpc, plan, work, published>>

(* lw_crop_quad_bgr_u8_band draws the band of the box as it is now where   *)
(* the crop record says; a place past the end of the buffer is nobody's.   *)
Draw(band) ==
  crop' = [p \in DOMAIN crop |->
             IF p \in BandPlaces(band) THEN Pixel(band.crop_index, p) ELSE crop[p]]

(* A band whose rows the box does not have is an invalid argument, and a   *)
(* box that has outgrown its record is out of bounds.                      *)
Drawable(band) ==
  /\ band.row < Height(band.crop_index)
  /\ Bytes(BoxOf(band.crop_index)) <= crops[band.crop_index].byte_count

(* Mutation: the stride is the handle's worker count, not the run's. *)
RasterBandStride(w) ==
  LET band == crop_bands[cursor[w] + 1] IN
  /\ callback = "bands" /\ Inside(w) /\ cursor[w] < Len(crop_bands)
  /\ cursor' = [cursor EXCEPT ![w] = @ + worker_count]
  /\ Drawable(band) /\ Draw(band)
  /\ UNCHANGED <<line_pool, records, crop_capacity, band_list, output, rpc, plan,
                 callback, slot, fork, published>>

(* execute_crop_bands: worker w takes bands w, w + width, w + 2 * width ...*)
RasterBand(w) ==
  LET band == crop_bands[cursor[w] + 1] IN
  /\ callback = "bands" /\ Inside(w) /\ cursor[w] < Len(crop_bands)
  /\ cursor' = [cursor EXCEPT ![w] = @ + width]
  /\ Drawable(band) /\ Draw(band)
  /\ UNCHANGED <<line_pool, records, crop_capacity, band_list, output, rpc, plan,
                 callback, slot, fork, published>>

(* The band is not drawable, or its perspective transform is singular: the *)
(* request will fail, and nobody reads what the band has drawn by then.    *)
RasterFails(w) ==
  /\ callback = "bands" /\ Inside(w) /\ cursor[w] < Len(crop_bands)
  /\ cursor' = [cursor EXCEPT ![w] = @ + width]
  /\ crop_band_status' = "ERROR"
  /\ UNCHANGED <<line_pool, records, buffer, crop_bands, crop_band_capacity,
                 output, rpc, plan, callback, slot, fork, published>>

BandsDone(w) ==
  /\ callback = "bands" /\ Inside(w) /\ cursor[w] >= Len(crop_bands)
  /\ PF!End(w)
  /\ UNCHANGED <<handle, rpc, plan, work, published>>

(* Mutation: the band list is not emptied for the next request. *)
BandsReturnKeeps ==
  /\ callback = "bands" /\ PF!Return
  /\ callback' = "none"
  /\ IF crop_band_status = "OK" THEN rpc' = "lines" ELSE ReturnError
  /\ UNCHANGED <<handle, plan, cursor, slot, published>>

BandsReturn ==
  /\ callback = "bands" /\ PF!Return
  /\ crop_bands' = <<>>
  /\ callback' = "none"
  /\ IF crop_band_status = "OK" THEN rpc' = "lines" ELSE ReturnError
  /\ UNCHANGED <<line_pool, records, buffer, crop_band_capacity,
                 crop_band_status, output, plan, cursor, slot, published>>

-----------------------------------------------------------------------------
(* run_worker_tasks: slot s goes to the first unused worker configured for *)
(* the width of its crop, or else to the first unused worker.              *)
ActiveCount == Smaller(line_count, worker_count)

Assignment ==
  LET pick[s \in 0 .. ActiveCount - 1] ==
        LET unused == (0 .. ActiveCount - 1) \ {pick[t] : t \in 0 .. s - 1}
            wanted == crops[crop_schedule[s + 1]].target_width
            fitting == {w \in unused : current_width[w] = wanted}
        IN  Min(IF fitting # {} THEN fitting ELSE unused)
  IN  pick

NoLines ==
  /\ rpc = "lines" /\ line_count = 0
  /\ rpc' = "publish"
  /\ UNCHANGED <<handle, plan, work, fork, published>>

(* The tasks of the active workers are written, the cursor starts behind   *)
(* their initial slots, and the pool - or this thread, task after task -   *)
(* runs them.                                                              *)
StartLines ==
  LET n == ActiveCount
      pick == Assignment
  IN
  /\ rpc = "lines" /\ line_count # 0
  /\ active' = n
  /\ next_crop_slot' = n
  /\ initial_crop_slot' =
       [w \in Indices |->
          IF w < n THEN CHOOSE s \in 0 .. n - 1 : pick[s] = w
          ELSE initial_crop_slot[w]]
  /\ task_status' = [w \in Indices |-> IF w < n THEN "OK" ELSE task_status[w]]
  /\ EnsurePool(n > 1)
  /\ serial' = (line_pool' = 0)
  /\ PF!Start(IF line_pool' = 0 THEN n ELSE RunWidth(n, line_pool'))
  /\ callback' = "lines"
  /\ slot' = [w \in Indices |-> NoSlot]
  /\ rpc' = "running"
  /\ UNCHANGED <<records, buffer, band_list, output, page, schedule, cursor,
                 published>>

(* Mutation: the initial slot is not cleared once it is taken. *)
ClaimKeepsInitial(w) ==
  LET taken == IF initial_crop_slot[w] # NoSlot THEN initial_crop_slot[w]
               ELSE next_crop_slot
  IN
  /\ callback = "lines" /\ Inside(w) /\ slot[w] = NoSlot
  /\ slot' = [slot EXCEPT ![w] = taken]
  /\ UNCHANGED <<handle, rpc, plan, callback, cursor, fork, published>>

(* process_worker_task: the initial slot first, then the shared cursor,    *)
(* one atomic fetch-and-add at a time, until it passes the schedule.       *)
Claim(w) ==
  LET initial == initial_crop_slot[w] # NoSlot
      taken == IF initial THEN initial_crop_slot[w] ELSE next_crop_slot
  IN
  /\ callback = "lines" /\ Inside(w) /\ slot[w] = NoSlot
  /\ initial_crop_slot' = [initial_crop_slot EXCEPT ![w] = NoSlot]
  /\ next_crop_slot' = IF initial THEN next_crop_slot ELSE next_crop_slot + 1
  /\ \/ /\ taken < line_count
        /\ slot' = [slot EXCEPT ![w] = taken]
        /\ UNCHANGED fork
     \/ /\ taken >= line_count
        /\ PF!End(w)
        /\ UNCHANGED slot
  /\ UNCHANGED <<handle, rpc, page, schedule, task_status, active, serial,
                 callback, cursor, published>>

(* A recognizer that has no compiled slot for the width of a crop is       *)
(* reconfigured before the crop runs, whatever becomes of the run; one     *)
(* that has a slot, or fails before, keeps its canonical width.            *)
MayReconfigure(w, c) ==
  \/ current_width' = [current_width EXCEPT ![w] = crops[c].target_width]
  \/ UNCHANGED current_width

(* lw_rotate_bgr_u8_180: a crop the classifier finds upside down is turned *)
(* where it lies.                                                          *)
MayTurn(c) ==
  \/ crop' = [p \in DOMAIN crop |->
                IF p \in CropPlaces(c)
                THEN crop[2 * crops[c].offset + crops[c].byte_count - 1 - p]
                ELSE crop[p]]
  \/ UNCHANGED crop

(* Classification and recognition of the crop succeed: its line is written.*)
Recognize(w) ==
  LET c == crop_schedule[slot[w] + 1] IN
  /\ callback = "lines" /\ Inside(w) /\ slot[w] # NoSlot
  /\ MayTurn(c)
  /\ scratch_lines' = [scratch_lines EXCEPT ![c] = request]
  /\ MayReconfigure(w, c)
  /\ slot' = [slot EXCEPT ![w] = NoSlot]
  /\ UNCHANGED <<line_pool, records, crop_capacity, band_list, rpc, plan,
                 callback, cursor, fork, published>>

(* A stage fails: the worker stops, its status set, the line unwritten. *)
RecognizeFails(w) ==
  LET c == crop_schedule[slot[w] + 1] IN
  /\ callback = "lines" /\ Inside(w) /\ slot[w] # NoSlot
  /\ MayTurn(c)
  /\ task_status' = [task_status EXCEPT ![w] = "ERROR"]
  /\ slot' = [slot EXCEPT ![w] = NoSlot]
  /\ PF!End(w)
  /\ MayReconfigure(w, c)
  /\ UNCHANGED <<line_pool, records, crop_capacity, band_list, scratch_lines, rpc,
                 page, schedule, next_crop_slot, initial_crop_slot, active,
                 serial, callback, cursor, published>>

(* Mutation: the status of the last active worker is not looked at. *)
LinesReturnSkipsLast ==
  /\ callback = "lines" /\ PF!Return
  /\ callback' = "none"
  /\ IF \A w \in Indices : w + 1 < active => task_status[w] = "OK"
     THEN rpc' = "publish" /\ UNCHANGED published
     ELSE ReturnError
  /\ UNCHANGED <<handle, plan, cursor, slot>>

(* The barrier, and the first failed worker's status in worker order. *)
LinesReturn ==
  /\ callback = "lines" /\ PF!Return
  /\ callback' = "none"
  /\ IF \A w \in Indices : w < active => task_status[w] = "OK"
     THEN rpc' = "publish" /\ UNCHANGED published
     ELSE ReturnError
  /\ UNCHANGED <<handle, plan, cursor, slot>>

-----------------------------------------------------------------------------
(* A capacity query, or buffers that are too small, copy nothing.          *)
ReportCapacity ==
  /\ rpc = "publish"
  /\ rpc' = "idle"
  /\ UNCHANGED <<handle, plan, work, fork, published>>

Publish ==
  /\ rpc = "publish"
  /\ published' = [s \in 1 .. line_count |-> scratch_lines[s - 1]]
  /\ rpc' = "idle"
  /\ UNCHANGED <<handle, plan, work, fork>>

-----------------------------------------------------------------------------
CallbackStep(w) ==
  /\ UNCHANGED setting
  /\ \/ Begin(w) \/ RasterBand(w) \/ RasterFails(w) \/ BandsDone(w)
     \/ Claim(w) \/ Recognize(w) \/ RecognizeFails(w)

RequestStep ==
  /\ UNCHANGED setting
  /\ \/ Reserve \/ ReserveFails \/ ScheduleCrop \/ ScheduleFails
     \/ StartBands \/ NoBands \/ BandsReturn
     \/ NoLines \/ StartLines \/ LinesReturn \/ ReportCapacity \/ Publish

NewRequest ==
  /\ UNCHANGED setting
  /\ \E n \in 0 .. setting.crops : \E boxes \in [0 .. n - 1 -> setting.shapes] :
       \E j \in 0 .. n, m \in 0 .. n : \E index \in [0 .. m - 1 -> 0 .. n - 1] :
         \/ j = n /\ Detect(n, boxes, m, index)
         \/ DetectFails(n, boxes, j, m, index)

Next == NewRequest \/ RequestStep \/ \E w \in Indices : CallbackStep(w)

(* A request that was accepted is driven by its own thread and by threads  *)
(* of the pool; nobody has to send another.                                *)
Fairness ==
  /\ WF_vars(RequestStep)
  /\ \A w \in Indices : WF_vars(CallbackStep(w))

Spec == Init /\ [][Next]_vars /\ Fairness

-----------------------------------------------------------------------------
(* A request that starts with an empty band list rasterizes only its own   *)
(* bands.  One that follows a page whose list could not grow (ocr.c 1060)  *)
(* draws that page's bands too, wherever the old crop records say: nothing *)
(* holds of it.  While memory lasts there is no such request.              *)
OwnBands == "memory" \notin setting.faults \/ ~left_over

(* A crop has every pixel of its box, each in its place.                   *)
CropWhole(c) == \A p \in CropPlaces(c) : crop[p] = Pixel(c, p)

(* ocr.c 529-531, 709-710: crop slots are disjoint, so from the moment a   *)
(* worker takes a crop until it has classified, turned and recognized it,  *)
(* its bytes in the shared buffer are its own rows of this very page: all  *)
(* bands were drawn, nobody draws over them, and no neighbour's turning    *)
(* reaches them.  Holds again for the page after the next, once the band   *)
(* list has failed to grow.                                                *)
RecognizedWhole ==
  OwnBands => \A w \in Indices :
                slot[w] # NoSlot => CropWhole(crop_schedule[slot[w] + 1])

(* ocr.c 53-55, 709-710: bands are row-disjoint.  No two bands of a run    *)
(* write the same place, and each is a row of a crop of this very request, *)
(* inside the buffer.                                                      *)
BandsDisjoint ==
  callback = "bands" =>
    /\ \A i, j \in DOMAIN crop_bands :
         i # j => BandPlaces(crop_bands[i]) \cap BandPlaces(crop_bands[j]) = {}
    /\ \A i \in DOMAIN crop_bands :
         LET band == crop_bands[i] IN
         /\ band.crop_index \in Lines /\ band.row < Height(band.crop_index)
         /\ BandPlaces(band) \subseteq DOMAIN crop

(* The bands stay disjoint from page to page, whatever became of the       *)
(* requests before: a band or a line that failed, a page that was not      *)
(* detected, a pool smaller than asked for, a buffer that could not grow.  *)
BandsStayDisjoint == OwnBands => BandsDisjoint

(* ocr.c 1267-1268: "Publish only after every line succeeded".  Whatever   *)
(* reaches publication was recognized in this request, every line of it.   *)
EveryLineRecognized ==
  rpc = "publish" => \A c \in Lines : scratch_lines[c] = request

(* With the pool the handle asked for, no line is missing from a response, *)
(* whatever the buffers and the requests before it went through.           *)
NoLineMissing == "threads" \notin setting.faults => EveryLineRecognized

(* The caller's buffers change only by a whole, fresh response. *)
PublishedWhole ==
  [][ published' # published =>
        /\ Len(published') = line_count
        /\ "threads" \notin setting.faults =>
             \A s \in DOMAIN published' : published'[s] = request ]_vars

(* A request returns: the barriers release and the shared cursor runs out. *)
RequestReturns == rpc # "idle" ~> rpc = "idle"
=============================================================================
