# Verification of gst_core

gst_core (`src/`) captures 4K NV12 frames from a V4L2 device into DMA buffers,
pushes them without a copy into a GStreamer pipeline, runs YOLOv5 on them on an
RK3588 NPU, draws the boxes it finds and sends the stream out as H.264.  This
directory models how it comes up, how frames, buffers and boxes travel between
its threads, how it goes down, and the algorithms behind the boxes; it checks
the models with TLC and proves the main results with TLAPS.

Paths below are relative to `src/src/`; `ve` stands for
`stream/vision_engine.cpp`.

## 1. The system

### Components, their state and their operations

| Component | State | Operations | Correct when |
|---|---|---|---|
| V4L2 device (`capture/v4l2_camera.c`) | the driver's queued and filled buffers, STREAMON | open, set/get format, REQBUFS, QBUF, DQBUF, STREAMON; STREAMOFF and close are never called | a buffer is queued by its owner only, never twice (QBUF fails and the process exits) |
| DMA heap (`core/dma_buffer.c`) | none | `dmabuf_alloc` | heap fd closed behind each allocation (a failure exits) |
| Push path (`ve` 713-742, 804-866) | `appsrc_thread`, the dequeued buffer | poll, DQBUF, wrap in a GstBuffer, push | each buffer ends up in exactly one place on every error path |
| Release (`ve` 300-307) | qdata of each GstBuffer | runs when the last reference goes, in whichever thread, and queues the buffer | never under a reader |
| appsink callback and frame queue (`ve` 600-658) | `dma_fd_queue`, `frame_mutex_`, `frame_cv_` | pull, ref, drop the oldest, enqueue, notify | references balanced, wakeups not lost |
| Inference task (`ve` 661-710) | the popped sample | wait, scale by RGA, run the model, unref | every sample dropped once |
| RKNN model (`inference/inference.cpp`) | context, tensors, the global `g_bb_q` | `init`, `run`, `get_dma_fd`, `destroy_model` (unused) | each head is read with its own stride and within its memory; the results of a frame reach `g_bb_q`, which stays bounded |
| RGA scaling (`process/gst_rga.c`) | none | `rga_scale_yolo` | a frame that was not scaled is not inferred |
| Post-processing (`inference/postprocess.cc`) | `labels`, the static `init` flag | `post_process`, `nms`, the sort, quantisation | sort orders scores and indices together, NMS keeps one box per object, at most 64 results |
| OSD probe (`ve` 280-588) | none of its own | drain `g_bb_q`, clip, map, draw, unmap | draws the outlines and nothing else, inside the buffer only |
| Life cycle (`ve` 84-278) | `is_running`, `main_loop`, three `std::thread`s, the pipeline state | `init`, `start`, `stop`, destructor | `stop()` returns, ends every thread, frees nothing in use |
| Bus (`ve` 759-793) | none | quit the loop on ERROR and EOS | |
| WebRTC interface (end of `ve`) | none | empty stubs | |

### How they interact

`appsrc_thread` owns a buffer from DQBUF to the push; GStreamer's threads own
it afterwards through references.  The tee sends one GstBuffer down two
branches: `q_rga`, appsink, `on_new_sample` (which passes a second reference to
`inference_thread` through `dma_fd_queue`), and `q_trans`, OSD probe, encoder.
Boxes go back the other way: `inference_thread` pushes them to `g_bb_q`, the
probe of a later frame drains it.  The last unref, in any of these threads,
queues the buffer in the driver.  `is_running` is shared by the application and
both worker threads; `appsrc_thread` also clears it itself.

### What is hard

Five threads and a driver drop references to the same four buffers in any
order; two mutexes, a condition variable whose predicate reads an atomic that
the mutex does not guard, a main loop that can be told to quit before it runs,
error paths that leave a thread but not the engine, bounded queues behind one
tee.  `PROJECT.json` lists each hazard at its line.

## 2. Modules

| Module | What it is |
|---|---|
| `FramePool` | abstract specification: a buffer is empty, filled or lent; only lent buffers are read; the last reader gives a buffer back or it is lost |
| `FramePipeline` | the running engine, from DQBUF to QBUF, with every reference |
| `MCFramePipeline` | the symmetry of the buffers for TLC |
| `FramePipelineProofs` | the inductive invariant and the safety theorems |
| `FramePoolRefinement` | the proof that FramePipeline implements FramePool |
| `EngineLifecycle` | `start`, `stop`, the destructor and the threads they leave behind |
| `EngineLifecycleProofs` | its inductive invariant and theorems |
| `CaptureDevice` | the functions of `v4l2_camera.c` and `dma_buffer.c`, and what each does to the device and to `out_buffers` |
| `RknnModel` | `rknn_model`, `rga_scale_yolo` and the label table: initialisation that stops half way, and what later calls find |
| `Bringup` | composes the two: `init()` and `start()` of the engine, then `appsrc_thread` and `inference_thread` in whatever was built |
| `BringupProofs` | its inductive invariant and theorems |
| `MCBringup` | the models the NPU may be given |
| `OsdProbe` | `osd_probe_callback` and the drawing, against the inference that pushes boxes |
| `OsdProbeProofs` | its inductive invariant and theorems |
| `MCOsdProbe` | frames and boxes |
| `Postprocess` | `post_process` on the outputs of one inference |
| `PostprocessProofs` | its inductive invariant and theorems |
| `MCPostprocess` | the outputs' quantisation and the boxes |

### FramePipeline

`refs[b]` counts the references to the GstBuffer that wraps buffer `b`; a
GstSample holds one reference to its buffer for as long as it lives, so a
reference to the sample is counted as one to the buffer.  Every place that
holds a pointer is a variable (`appsrc_queue`, `tee`, `rga_queue`, `rendering`,
`last_sample`, `pulled`, `dma_fd_queue`, `dctx`, `trans_queue`, `probing`,
`encoding`);
`Holders(b)` counts them.  The code's bug-prone point is that references and
pointers are managed apart: `Holders(b) <= refs[b]` is the property, not a
definition.  `SetRefs` is the destroy notification: a count that falls to zero
puts the buffer back into `queued` in the same step.

Actions correspond to the code as `PROJECT.json` "map" says, one per step that
other threads can see: DQBUF, the push (it succeeds or fails after a failed
dup, a failed allocation, or a flushing appsrc), the tee's two pushes, render,
`on_new_sample`'s enqueue and its return, and `inference_task`'s steps.  The
enqueue and `notify_one` are one step: a notification that comes later can only
wake a thread that waits again, which `SpuriousWakeup` allows anyway.  The
probe takes two: a `queue` frees the place of a frame before it pushes the
frame on (`ProbeCalled`), and only then does the probe drain `g_bb_q` (`Probe`,
`ve` 560-565).  In between the tee may send another frame, and inference may
finish with it.  The drawing after the drain touches only pixels and is part of
`Probe` here; `OsdProbe` has it step by step.

What is assumed of GStreamer, from how the code uses it: a `queue` element
holds at most one frame (a 3840x2160 NV12 frame of 12.4 MB is more than the
default limit of 10 MB) and blocks its producer when it is full; appsrc does
not block (its `block` property defaults to FALSE, against the comment at
`ve` 147, so appsrc's own queue is limited by the buffers only); a tee pushes
to its branches in the order of their pads; a sink keeps its last sample.

`Infer(n)` lets the model find 0 to `MaxBoxes` boxes.  It assumes the labels
were loaded: otherwise `post_process` returns before it clears the group and
the count is uninitialised (`inference.cpp` 185-190), which is in Bringup.

### EngineLifecycle

Each call that `start()` and `stop()` make is an action, so that the other
threads run between any two.  A thread's variable is its program counter;
`"none"` means there is nothing to join.  `main_loop` is the pointer (`"freed"`
between the unref and the store of null) and `loop_flag` the flag inside the
GMainLoop, which `g_main_loop_run` sets and `g_main_loop_quit` clears.  The
condition variable is modelled with the window that matters: `"check"` (the
predicate is evaluated), `"blocking"` (it was false; the mutex is still held),
`"asleep"`.  `on_new_sample` cannot enqueue during `"blocking"`, since it takes
the mutex; `stop()` can notify then, since it does not.
`appsrc_thread` reads `is_running`, then polls, then pushes: it may push long
after `stop()` has cleared the flag.  A quit on a freed loop is undefined
behaviour: it does nothing or crashes.  A second `start()` exits in QBUF or
terminates when it assigns to the joinable `appsrc_thread`; both outcomes are
allowed.  Frames are counted, not named; FramePipeline has their places.

### CaptureDevice, RknnModel, Bringup

`CaptureDevice` and `RknnModel` have an operator for each function, `Bringup`
calls them in the code's order: its `app` is where `init()` and `start()` are.
Nearly every failed call of `v4l2_camera.c` is `exit` (`process = "exited"`);
the exceptions are modelled as they are: G_FMT's result is not looked at, so
`sizeimage` may be zero, and REQBUFS may grant another number of buffers than
four.  Fewer leave entries of `out_buffers` at zero, whose QBUF the driver
refuses, since index 0 is queued already and there is no plane.  A fifth is
written behind the array: its index falls on `num_buffers` (and leaves it at
four), its descriptor on `frame_count`, and its length on the handle of
`appsrc_thread`, which is then "joinable", so that the assignment in `start()`
terminates the process (`ve` 61-70, LP64 layout).

`init()` is a `bool` function that returns `-1` when an element is missing or a
link fails, which is true.  `pipeline` tells apart what it has left: `"null"`
(no pipeline and no allocator either), `"partial"` (not linked; the appsink
callback is connected last, so inference never sees a frame), `"complete"`.
`start()` drops the only reference of a pipeline that will not play
(`"freed"`): a push to its appsrc is undefined behaviour, and crashes, or fails
with the frame lost, or seems to work.

`model->init()` may stop behind any of its calls.  `get_dma_fd()` then reads a
null pointer if there is a context without input memory; without a context it
returns -1, which `imcheck` in `rga_scale_yolo` is taken to refuse (`CanScale`:
an assumption about RGA, so nothing is claimed of it).  `run()` first syncs
every output, a null one too (`SyncsNull`), and then reads the three heads: one
without memory through a null pointer (`ReadsNull`), with two outputs behind the
vector (`ReadsBehind`), and behind an output smaller than the grid that
`process()` walks (`ReadsPast`), where it crashes or takes what it finds for
cells.  `labels` counts the lines read, `group` whether the count of the last
result was ever written.  Queries are taken to succeed once `rknn_init` has.

Here a frame is only `held` by the pipeline, and `Stop` is only the flag: the
references are in FramePipeline, the rest of `stop()` in EngineLifecycle.

### OsdProbe

Positions of bytes written are kept in two sets, `luma` and `chroma`, relative
to the mapping; the constant colours are left out.  `Layout` is what the probe
derives from caps and `GstVideoMeta`, `LumaBytes` and `ChromaBytes` are
`fill_nv12_rect` with its two different checks of the size.  Each `mmap`,
`DMA_BUF_IOCTL_SYNC` and fill is an action, and mapping may fail for each box.
Only NV12 with a meta of two planes comes from this program's appsrc; frames
without a meta, and RGB frames drawn by RGA, are branches the callback has.
Nothing here bounds `g_bb_q`, as nothing in `run()` does: its bound comes from
how frames travel and is `BoxBound` of FramePipeline.  TLC looks at states with
at most `MaxBoxes` boxes queued and being drawn (`FewBoxes`, a state constraint
of the run); the proofs have no such limit.

### Postprocess

One action per loop iteration, or per scan in the sort.  The recursion of
`quick_sort_indice_inverse` is the sequence `calls`; between a scan and the
next the arrays have a hole that the key will fill, which `Scores` and
`Indices` fill for the properties.  Floats are exact integers in units the
configuration chooses, since the properties are about order, truncation and
thresholds, not about rounding; what a cell holds, and the box that its
coordinates decode to, is chosen from small sets.

## 3. Runs

| Run | Instance | Shows |
|---|---|---|
| `pipeline_safety` | 4 buffers, limit 2, queues of 1, 1 box, all failures | all safety properties, and each step is a step of FramePool |
| `pipeline_liveness` | 3 buffers, limit 1, scaling may fail, `FairSpec` | capture, encoding and inference go on |
| `pipeline_leak` | as the first, no failures | violation: an overflow loses a buffer (`ve` 630) |
| `pipeline_backlog` | as the first, no failures | violation: the backlog takes all buffers (`ve` 629) |
| `engine_lifecycle` | 3 frames, limit 1, all failures, `FairSpec` | what the teardown does guarantee |
| `engine_stop_inference` | 2 frames, no failures, `FairSpec` | violation: the wakeup of `stop()` is lost (`ve` 260) |
| `engine_stop_loop` | the same | violation: a quit before the run is lost (`ve` 270) |
| `engine_stop_pushing` | 2 frames, no failures | violation: the stream and the joinable `appsrc_thread` survive `stop()` |
| `engine_stop_early` | 2 frames, push may fail, `FairSpec` | violation: `stop()` returns early and inference waits for ever (`ve` 256) |
| `bringup` | 3 buffers, REQBUFS grants 2 to 4, 7 models, 1 label, every failure, `FairSpec` | which half-built engines run, and what holds in them |
| `osd_draw` | frames of 8x6, and of 1x6, in 11 layouts, 30 boxes, two at a time, lines of 2 | the drawing, exactly, and the mappings |
| `postprocess` | heads of 1, 2 and 1 cells, 2 classes, 4 readings, 3 boxes, 2 results, `FairSpec` | threshold, sort, suppression, cap |

Bounds.  Four buffers and a limit of two are the code's own values; they are
also the smallest at which the overflow can happen and leave the loss bound
tight (an overflow needs three samples in the queue and one on its way).  The
liveness run takes one buffer less and a limit one lower, which keeps the
overflow, the stalled capture and the full queues.  `BoxBound` is 7 there (4
buffers, a place in `q_trans`, a frame at the tee and one in the probe) and
tight: with 6 in its stead TLC finds a violation.  More boxes per result scale
both sides alike.  Nothing else is bounded: `g_bb_q` is not capped by a guard,
its bound is a property.  In EngineLifecycle two frames suffice for each
counterexample, three for every branch of the overflow.  Buffers are symmetric
in the safety runs; the liveness run uses no symmetry.

In `bringup` three buffers keep every case of four: too few granted, too many,
one in each place at once.  The seven models have their heads in and out
of order, a fourth output larger than the heads whose layout is not known, two
outputs, one output, one head twice, and two grids alike.  In `osd_draw` boxes end before, on and behind
each border, are thin, empty and nested, and there are as many layouts as
branches: padded strides, an offset into a larger memory, the aligned layout
the probe assumes without a meta, a memory too small for that, a camera that
chose a smaller resolution, and a frame too narrow for any outline.  In `postprocess` the zero points make the
quantised threshold truncate upwards in one head and downwards in the others;
the boxes form a chain in which the outer two do not overlap; four candidates
against a cap of two reach every order of sort, suppression and cap.

Deadlock is not checked where the system may really stop: after a fault has
ended `appsrc_thread` (`pipeline_safety`), after `stop()` or the end of the
process (`engine_*`, `bringup`), and after the last result (`postprocess`).

Fairness.  Each thread is weakly fair: it runs when it can (`std::thread`s and
GStreamer's streaming threads are scheduled by the kernel).  The driver fills
buffers it has, the encoder releases what it took in.  There is no fairness on
failures, on spurious wakeups (a lost wakeup must not be repaired by one), on
the application's decision to call something, nor strong fairness anywhere.
`bringup` is fair to the application, both threads and the driver, but not to
`Stop` or the release of frames, which nothing promises in a half-linked
pipeline; `postprocess` is one thread that runs to its end.
In `pipeline_liveness` only the failure that no thread dies of is allowed: poll,
push and caps failures end a thread for good, so nothing could go on.

### What the properties say

- `NoDanglingPointer`, `OneOwner`, `NoTornFrame`: in every order in which the
  branches finish and with every failure, no pointer outlives its reference, a
  buffer is in exactly one place (so QBUF is never called for a queued buffer
  while the engine runs), and the device never writes what somebody reads.
- `PoolSpec`: the above as behaviour.  A buffer is given back at the moment its
  last reader is done, or never: whoever forgets it, loses it.
- `LeakBound`: the leak at `ve` 630 is real but stops: an overflow needs
  `BacklogLimit + 2` buffers in play, so at most one of four is lost, and one
  more to a thread that returns with its sample (`ve` 677-686).  That is why
  `CaptureGoesOn` still holds.
- `BoxBound`: boxes cannot pile up in `g_bb_q` although nothing limits it,
  because every inferred frame also passes the probe.  The frame that the probe
  was called for has left its place in `q_trans`, and the boxes are not drained
  yet: that costs one result more than there seems to be room for.
- `CapturedIsEncoded`, `InferenceGoesOn`: the shared tee cannot deadlock the
  branches and no frame's wakeup is lost.
- `SleepsOnlyWithoutFrames` against `InferenceIsJoined`: the same condition
  variable is safe for frames, which are enqueued under the mutex, and unsafe
  for `stop()`, which is not.
- `QuiescentTeardown`, `LoopThreadHasLoop`: the order of the joins in `stop()`
  is right for the two threads that are joined.
- `CaptureEnds`, `StopHangsOnlyAtJoins`: the thread that is not joined ends by
  itself, and a hanging `stop()` hangs at one of two lines for one of two
  reasons, also when the bus callback has ended `loop_thread` before it.
- `StopEndsInference`, `StopEndsPushing` fail, against the header's promise that
  `stop()` ends inference and pushing and releases the resources.  The first
  leaves out of account a thread that `stop()` did not join but that ends by
  itself, as one that is still in `model->init()` does: it is broken only by a
  thread that waits and that nobody will wake.  The second fails even for a
  `stop()` that goes through all its steps.
- `StreamsIntoOwnBuffers`: whatever REQBUFS grants, an engine that streams does
  so into four buffers with memory of their own once `appsrc_thread` runs.  The
  unchecked count costs the process, by `exit` or `std::terminate`, never a torn
  stream; with one buffer too many STREAMON has succeeded and the array is
  overrun by then, but no thread starts.
- `BuffersHaveOnePlace`, `NullPipelineIsNoticed`: the wrong result of `init()`
  is harmless for the buffers; without a pipeline the first push fails, the
  thread ends and the driver has all of them.  Of a pipeline that is not linked
  no such end is claimed.
- `DequeueNeverBlocks`: although the device is opened blocking, against the
  comment at `v4l2_camera.c` 54-56, DQBUF never waits.
- `HeadsByStride`, `ReadsStayInside`: the sort of the outputs finds the heads
  when they are the largest and each the only one of its size.  With ties and
  larger outputs of other kinds it may confuse them, but still reads behind
  none, as long as some output is large enough for the finest grid, another for
  the next and a third for the coarsest.
- `LabelsStayLoaded`, `DescriptorsAreAccounted`: unreadable labels are a matter
  of the first calls only; bring-up leaks no descriptor (every failure in it
  exits, so this is about the calls that succeed).
- `WritesStayInMemory`, `DrawsTheOutlines`: with any strides nothing is written
  outside the frame's memory, and if the planes fit it, the bytes written are
  those of the outlines, the chroma pairs of odd edges included.  In a frame
  whose planes do not fit (a camera that chose a smaller resolution is only
  warned of) luma may run into the chroma, but not out of the memory.
- `MappingIsBalanced`, `EveryBoxIsTried`, `FallbackDrawsTheOutline`: failures of
  mmap or RGA cost the box they hit and nothing else.
- `ScoresFollowIndices`, `BestFirst`, `ResultIsOneCandidate`: `post_process`
  takes a result's score by sorted position and its box by candidate, which is
  right because the sort moves both and suppression moves neither.
- `NoTwins`, `NothingIsLost`: in-place suppression along a chain neither keeps
  an object twice nor loses one, and the cap of 64 drops only the weakest.
- `ThresholdWithinOneStep`: the quantised threshold is off by less than one
  step of the quantisation, in a direction the zero point decides.

Each passing property has a mutant of the code's model that breaks it.

## 4. Proofs

Every safety invariant and every safety action property that the passing runs
check is proved for all values of the constants that satisfy the modules'
assumptions, which TLC evaluates in every run of the module:

- FramePipeline and EngineLifecycle: any finite set of buffers (or number of
  frames), any bounds, any set of faults;
- Bringup: any number of buffers and any answer of REQBUFS above zero, any
  models and any label count above zero, and a model input of at least 32 x 32
  (`ModelSideAssumption`; below that the coarsest head would have no cell);
- OsdProbe: frames with at least one pixel whose memory is as large as it says
  (`FramesAssumption`), boxes with integer corners, any line thickness above
  zero and any length of `g_bb_q`;
- Postprocess: heads with at least one cell and any quantisation with an int8
  zero point and a positive scale (`HeadsAssumption`), any number of classes
  above zero, int8 readings, boxes anywhere whose width and height are not
  negative (`ReadingsAssumption`), any thresholds and any cap on the results
  above zero (`LimitsAssumption`).

Each inductive invariant was checked by TLC before it was proved.

**FramePipeline.**  `NoDanglingPointer` and `OneOwner` are not inductive by
themselves.  `Holders` counts places, and a queue that held a buffer twice would
be counted once: `Distinct` says that no queue does.  A frame before the tee
has one reference (`Fresh`), and a frame has not yet been where it is going
(`Ahead`), so that entering a queue always adds a holder.  For the leak,
`Slack(b) = refs[b] - Holders(b)` counts the references nobody holds; every
step keeps the slack of each buffer, or adds one for the buffer that is
forgotten (`NextInv` says so), and `Exact` says that a frame on its way to
inference has none.  `FramePipelineProofs` has a lemma for each action or pair
of actions alike, and from `NextInv` follow `TypeCorrect`, `PointersAreValid`,
`BuffersHaveOneOwner`, `NoFrameIsTorn` and `LeaksAreBounded` (at an overflow,
the samples in the queue and the one that comes in are `BacklogLimit + 2`
buffers without slack; cardinality does the rest).

`BoxesAreBounded` is about an amount that nothing limits by itself, so its
invariant `BoxInv` is a potential: the boxes in `g_bb_q`, those of the current
result not yet pushed (`Left`), and `MaxBoxes` for each frame that may still be
inferred before the probe drains again (`Coming`: the frames on their way to
inference, the free places in `q_trans` and at the tee, and one place more while
no frame is in the probe, `Entering`).  The tee moves a frame from the free
places to those on their way, the call of the probe moves the place of
`Entering` into `q_trans`, and an inference turns one frame into at most
`MaxBoxes` boxes.  Only the drain raises `Coming`, by the place that becomes
free in the probe; but it takes all boxes away, and the frame that is in the
model is not among those that wait, so the bound holds afresh.

**Refinement.**  `FramePoolRefinement` proves `Spec => PoolSpec`.  The mapping
has a buffer `reading` while anyone holds a pointer to it.  `ReaderStep` is the
core: a step that takes at most one buffer from its last reader, and never a
reference from a buffer whose holders stay, is a `Forget`, a `Return` or a
stutter.  That no step lowers the slack comes from `NextInv`.

**EngineLifecycle.**  `Inv` adds to the properties that frames are counted once
(`FramesAreCounted`), that the mutex keeps the queue empty from the failed
check to the wait (`WaitsWithoutFrames`), and the order of the calls around
`main_loop` (`LoopIsOrdered`).

**Bringup.**  `Inv` has three parts.  `MemoryInv`: `out_buffers` is a function
of the number of allocations (`Entry`), and one was written behind it exactly
if there were more than `NumBuffers`.  `QueueInv`: queueing entry n succeeds
only if n was allocated, so who gets through `Queue` was granted at least
`NumBuffers`, and `Spawn` excludes more; until then no thread holds anything.
`PlaceInv`: each buffer is in one place, and `dequeue` follows a `poll` that
saw a frame, which only `appsrc_thread` could take.  From it follow
`StreamMemoryIsOwn`, `BuffersAreNeverLost`, `NoDescriptorLeaks` and
`DequeueFindsAFrame`.

`ModelInv` is about what only `inference_thread` knows: `heads` is one of the
orders that `std::sort` may leave, and labels are behind their flag.  With it the labels
are read once (`LabelsAreReadOnce`).  `HeadsAreLargeEnough` counts: were the
k-th output of the order too small for the k-th head, all outputs that are
large enough would be among the k - 1 before it.  `HeadsGetTheirStride` is an argument about sorting: of
an order that does not ascend, the first three entries are the three heads if
nothing else is as large as the smallest of them, and they are in the order of
their strides because their grids shrink strictly (here a model side of at
least 32 is needed).

**OsdProbe.**  `FlowInv` ties the mapping and the fills to the program counter.
`TriedInv` computes `tried` from the position in the loop.  `MemInv` is
`WritesStayInMemory`, which each fill keeps by its own check of the size.
`InkInv` says which bytes have been written when the planes fit: those of the
pixels in `Ink`, the borders of the boxes drawn so far and the edges of the
current box done so far; a fill adds exactly the bytes of one edge
(`Monotone` rows inside a plane, `Halves` for the rounding of the chroma), and
after the fourth edge the edges make up a border.

**Postprocess.**  Nothing here is induction over data: the loops are actions,
and the invariant says how far they have come.  `PermInv`: the arrays, with the
hole filled by the key, list each candidate once beside its score.  `OrderInv`:
two places out of order are still in one range of `calls` or of the running
partition, and these ranges are apart; when none is left, the array descends.
`HoleInv` is the loop invariant of one partition, equal scores included.
`NmsInv`: each candidate is in its place or has a better twin that will stay
(`Settled`: its class is done or the loop is past it), and who stays has no
twin behind it.  `EmitInv`: the results so far are those of the places so far,
up to the cap.  The greatest class score and the least class are found by
well-foundedness of `<` (`LeastNat`, `GreatestInt`), since nothing bounds how
many there are.

**What the attempts found.**  Three statements were true on the instances that
were checked, and false in general; the proofs stopped there, TLC confirmed it
on an instance that was added, and the statements were corrected.

- `EveryBoxIsTried`: in a frame one pixel wide or high, clipping leaves nothing
  of any box, although the box crosses the frame (`osd_draw` has such a frame).
- `HeadsByStride`: that the heads are the largest outputs is not enough.  If
  two outputs have the size of one head, the three largest do not include the
  smallest head (`bringup` has a model with a head twice).
- `TypeOK` of Bringup took `heads` for positions of outputs.  A model with one
  output makes `run()` use positions it does not have (`bringup` has one).

**Only model-checked.**  Liveness: `CaptureGoesOn`, `CapturedIsEncoded`,
`InferenceGoesOn`, `CaptureEnds`, `StopHangsOnlyAtJoins`, `Terminates` and
`NullPipelineIsNoticed`, since TLAPS does not reason about fairness and
`ENABLED` here.  And the violations, which are counterexamples.

## 5. Not modelled, and the plan

Next: what the components promise each other, as abstract specifications with
proofs of refinement like the one of FramePool.  The first candidate is the
sort of Postprocess as one step that permutes and orders, the second the
life cycle's frame queue as a bounded buffer.  Further theorems are worth
having where the composition is only argued in prose: that the places of
Bringup's `held` are those of FramePipeline.

Not modelled:

- Pixels, colours, timestamps and the rounding of floats; the hardware behind
  RGA, RKNN and the encoder; printing.
- The probe and the NPU may use one dma-buf at the same time, since the tee
  shares it (`ve` 571); without pixels no property could tell.
- Failures of `rknn_query` and of linking the tee's request pads, whose results
  the code ignores.
- Code nobody calls: `v4l2_stop_capturing`, `v4l2_close_device`,
  `v4l2_print_formats_mplane`, `destroy_model`, `deinitPostProcess` (which
  would leave the static `init` flag set), `sigmoid` and `unsigmoid`.
- The WebRTC stubs (empty), the vendored `rknn_api.h`, the build files.
