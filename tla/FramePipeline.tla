---------------------------- MODULE FramePipeline ----------------------------
(***************************************************************************)
(* The life of a frame between VisionEngine::start() and stop(): the V4L2   *)
(* driver fills a DMA buffer, appsrc_thread dequeues it and pushes it into  *)
(* the pipeline, a tee hands it to the inference branch (appsink,           *)
(* on_new_sample, dma_fd_queue, inference_thread) and to the transmission   *)
(* branch (OSD probe, encoder), and the last reference that goes gives the  *)
(* buffer back to the driver.                                               *)
(*                                                                         *)
(* refs[b] is the number of references to the GstBuffer that wraps V4L2     *)
(* buffer b; a reference to the GstSample that wraps it counts as one.      *)
(* GStreamer and the driver are external: they appear as far as the code    *)
(* relies on them.  Timestamps and pixels are left out.                     *)
(***************************************************************************)
EXTENDS Integers, Sequences, FiniteSets, Functions

CONSTANTS
  Buffers,         \* out_buffers[0 .. num_buffers - 1]
  BacklogLimit,    \* dma_fd_queue drops its head when longer than this: 2
  QueueCap,        \* frames that one GStreamer queue element holds
  MaxBoxes,        \* boxes of one inference result, OBJ_NUMB_MAX_SIZE
  Faults,          \* failures the environment may cause
  None             \* no buffer

FaultKinds == {"poll", "push", "caps", "scale"}

ASSUME BuffersAssumption ==
  /\ IsFiniteSet(Buffers)
  /\ None \notin Buffers
ASSUME BoundsAssumption ==
  /\ BacklogLimit \in Nat
  /\ Cardinality(Buffers) > BacklogLimit
  /\ QueueCap \in Nat \ {0}
  /\ MaxBoxes \in Nat
ASSUME FaultsAssumption == Faults \subseteq FaultKinds

VARIABLES
  queued,          \* buffers queued in the driver, waiting to be filled
  done,            \* filled buffers of the driver, oldest first
  pushing,         \* the buffer appsrc_thread has dequeued and not yet pushed
  capturing,       \* appsrc_thread is in its loop
  is_running,      \* VisionEngine::Impl::is_running
  refs,            \* references to the GstBuffer of each buffer, 0: none exists
  appsrc_queue,    \* appsrc's internal queue
  tee,             \* the frame the tee is handing out, and
  tee_next,        \* the branch it goes to next
  rga_queue,       \* the queue element q_rga
  rendering,       \* the frame the appsink thread renders
  pulled,          \* on_new_sample's sample, from the enqueue to its unref
  last_sample,     \* the frame the appsink keeps as its last-sample
  dma_fd_queue,    \* samples waiting for inference_thread
  inference,       \* program counter of inference_thread
  dctx,            \* the sample inference_thread has popped
  boxes_left,      \* boxes of the current result still to be pushed
  g_bb_q,          \* length of the global queue of boxes
  trans_queue,     \* the queue element q_trans
  probing,         \* the frame its thread has taken out, before the drain
  encoding         \* frames the encoder has taken in

driverVars == <<queued, done>>
captureVars == <<pushing, capturing, is_running>>
teeVars == <<appsrc_queue, tee, tee_next>>
sinkVars == <<rga_queue, rendering, pulled, last_sample>>
inferenceVars == <<inference, dctx, boxes_left>>
encoderVars == <<trans_queue, probing, encoding>>
vars == <<driverVars, captureVars, refs, teeVars, sinkVars, dma_fd_queue,
          inferenceVars, g_bb_q, encoderVars>>

-----------------------------------------------------------------------------
(* Reference counts.  release_v4l2_buffer_when_gst_done is the destroy      *)
(* notification of every GstBuffer: it runs when the last reference goes    *)
(* and queues the V4L2 buffer in the driver again.                          *)

Released(r) == {b \in Buffers : refs[b] > 0 /\ r[b] = 0}

SetRefs(r) ==
  /\ refs' = r
  /\ queued' = queued \cup Released(r)
  /\ UNCHANGED done

Unref(r, b) == IF b = None THEN r ELSE [r EXCEPT ![b] = @ - 1]

Ref(r, b, n) == [r EXCEPT ![b] = @ + n]

-----------------------------------------------------------------------------
(* start(): every buffer is queued in the driver, all threads run.          *)
Init ==
  /\ queued = Buffers
  /\ done = << >>
  /\ pushing = None
  /\ capturing = TRUE
  /\ is_running = TRUE
  /\ refs = [b \in Buffers |-> 0]
  /\ appsrc_queue = << >>
  /\ tee = None
  /\ tee_next = "rga"
  /\ rga_queue = << >>
  /\ rendering = None
  /\ pulled = None
  /\ last_sample = None
  /\ dma_fd_queue = << >>
  /\ inference = "init"
  /\ dctx = None
  /\ boxes_left = 0
  /\ g_bb_q = 0
  /\ trans_queue = << >>
  /\ probing = None
  /\ encoding = {}

(* The device fills a queued buffer.                                        *)
Fill(b) ==
  /\ b \in queued
  /\ queued' = queued \ {b}
  /\ done' = Append(done, b)
  /\ UNCHANGED <<captureVars, refs, teeVars, sinkVars, dma_fd_queue,
                 inferenceVars, g_bb_q, encoderVars>>

-----------------------------------------------------------------------------
(* appsrc_thread: appsrc_push_task, push_one_frame.                         *)

(* poll reports POLLIN and DQBUF returns the oldest filled buffer.          *)
Dequeue ==
  /\ capturing /\ is_running
  /\ pushing = None
  /\ done # << >>
  /\ pushing' = Head(done)
  /\ done' = Tail(done)
  /\ UNCHANGED <<queued, capturing, is_running, refs, teeVars, sinkVars,
                 dma_fd_queue, inferenceVars, g_bb_q, encoderVars>>

(* The loop ends: is_running is false, or poll failed.                      *)
LeaveCapture ==
  /\ capturing
  /\ pushing = None
  /\ ~ is_running \/ "poll" \in Faults
  /\ capturing' = FALSE
  /\ UNCHANGED <<driverVars, pushing, is_running, refs, teeVars, sinkVars,
                 dma_fd_queue, inferenceVars, g_bb_q, encoderVars>>

(* push_one_frame wraps the buffer and appsrc takes it over.                *)
PushFrame ==
  /\ pushing # None
  /\ SetRefs(Ref(refs, pushing, 1))
  /\ appsrc_queue' = Append(appsrc_queue, pushing)
  /\ pushing' = None
  /\ UNCHANGED <<capturing, is_running, tee, tee_next, sinkVars, dma_fd_queue,
                 inferenceVars, g_bb_q, encoderVars>>

(* Mutant: the failing push keeps the buffer.                               *)
PushFailsKeeps ==
  /\ "push" \in Faults
  /\ pushing # None
  /\ pushing' = None
  /\ is_running' = FALSE
  /\ UNCHANGED <<driverVars, capturing, refs, teeVars, sinkVars, dma_fd_queue,
                 inferenceVars, g_bb_q, encoderVars>>

(* dup or the dmabuf allocator fails, or appsrc is flushing: either way the *)
(* buffer is queued in the driver again and the engine is marked stopped.   *)
PushFails ==
  /\ "push" \in Faults
  /\ pushing # None
  /\ queued' = queued \cup {pushing}
  /\ pushing' = None
  /\ is_running' = FALSE
  /\ UNCHANGED <<done, capturing, refs, teeVars, sinkVars, dma_fd_queue,
                 inferenceVars, g_bb_q, encoderVars>>

-----------------------------------------------------------------------------
(* appsrc's streaming thread and the tee.  The tee takes one reference for  *)
(* each branch and drops its own at the end.                                *)

TeeTake ==
  /\ tee = None
  /\ appsrc_queue # << >>
  /\ tee' = Head(appsrc_queue)
  /\ tee_next' = "rga"
  /\ appsrc_queue' = Tail(appsrc_queue)
  /\ UNCHANGED <<driverVars, captureVars, refs, sinkVars, dma_fd_queue,
                 inferenceVars, g_bb_q, encoderVars>>

TeePushRga ==
  /\ tee # None /\ tee_next = "rga"
  /\ Len(rga_queue) < QueueCap
  /\ SetRefs(Ref(refs, tee, 1))
  /\ rga_queue' = Append(rga_queue, tee)
  /\ tee_next' = "trans"
  /\ UNCHANGED <<captureVars, appsrc_queue, tee, rendering, pulled, last_sample,
                 dma_fd_queue, inferenceVars, g_bb_q, encoderVars>>

TeePushTrans ==
  /\ tee # None /\ tee_next = "trans"
  /\ Len(trans_queue) < QueueCap
  /\ SetRefs(Unref(Ref(refs, tee, 1), tee))
  /\ trans_queue' = Append(trans_queue, tee)
  /\ tee' = None
  /\ UNCHANGED <<captureVars, appsrc_queue, tee_next, sinkVars, dma_fd_queue,
                 inferenceVars, g_bb_q, probing, encoding>>

-----------------------------------------------------------------------------
(* q_rga's streaming thread: the appsink and on_new_sample.                 *)

(* The appsink renders the next frame and keeps it as its last-sample       *)
(* instead of the one before.                                               *)
Render ==
  /\ rendering = None
  /\ rga_queue # << >>
  /\ LET b == Head(rga_queue)
     IN /\ rendering' = b
        /\ last_sample' = b
        /\ SetRefs(Unref(Ref(refs, b, 1), last_sample))
  /\ rga_queue' = Tail(rga_queue)
  /\ UNCHANGED <<captureVars, teeVars, pulled, dma_fd_queue, inferenceVars,
                 g_bb_q, encoderVars>>

(* Mutant: the limit is checked one frame late.                             *)
DropOldestLate(q) == IF Len(q) > BacklogLimit + 1 THEN Tail(q) ELSE q

(* What the overflow of dma_fd_queue does: pop() and no unref.              *)
DropOldest(q) == IF Len(q) > BacklogLimit THEN Tail(q) ELSE q

(* Mutant: no wakeup.                                                       *)
NotNotified == inference

(* A waiting inference_thread is woken by notify_one.                       *)
Notified == IF inference = "asleep" THEN "wait" ELSE inference

(* Mutant: gst_sample_ref is forgotten.                                     *)
OnNewSampleNoRef ==
  /\ rendering # None /\ pulled = None
  /\ SetRefs(Ref(refs, rendering, 1))
  /\ pulled' = rendering
  /\ dma_fd_queue' = Append(DropOldest(dma_fd_queue), rendering)
  /\ inference' = Notified
  /\ UNCHANGED <<captureVars, teeVars, rga_queue, rendering, last_sample,
                 dctx, boxes_left, g_bb_q, encoderVars>>

(* on_new_sample pulls the sample, takes a second reference for the queue,  *)
(* makes room, enqueues and notifies.                                       *)
OnNewSample ==
  /\ rendering # None /\ pulled = None
  /\ SetRefs(Ref(refs, rendering, 2))
  /\ pulled' = rendering
  /\ dma_fd_queue' = Append(DropOldest(dma_fd_queue), rendering)
  /\ inference' = Notified
  /\ UNCHANGED <<captureVars, teeVars, rga_queue, rendering, last_sample,
                 dctx, boxes_left, g_bb_q, encoderVars>>

(* on_new_sample drops the pulled sample and the sink the rendered buffer.  *)
OnNewSampleReturn ==
  /\ pulled # None
  /\ SetRefs(Unref(Unref(refs, pulled), rendering))
  /\ pulled' = None
  /\ rendering' = None
  /\ UNCHANGED <<captureVars, teeVars, rga_queue, last_sample, dma_fd_queue,
                 inferenceVars, g_bb_q, encoderVars>>

-----------------------------------------------------------------------------
(* inference_thread: inference_task and rknn_model::run.                    *)

(* model->init() returns; its result is ignored.                            *)
ModelReady ==
  /\ inference = "init"
  /\ inference' = "wait"
  /\ UNCHANGED <<driverVars, captureVars, refs, teeVars, sinkVars, dma_fd_queue,
                 dctx, boxes_left, g_bb_q, encoderVars>>

(* frame_cv_.wait blocks; it wakes by notify_one or spuriously.             *)
WaitForFrame ==
  /\ inference = "wait"
  /\ is_running /\ dma_fd_queue = << >>
  /\ inference' = "asleep"
  /\ UNCHANGED <<driverVars, captureVars, refs, teeVars, sinkVars, dma_fd_queue,
                 dctx, boxes_left, g_bb_q, encoderVars>>

SpuriousWakeup ==
  /\ inference = "asleep"
  /\ inference' = "wait"
  /\ UNCHANGED <<driverVars, captureVars, refs, teeVars, sinkVars, dma_fd_queue,
                 dctx, boxes_left, g_bb_q, encoderVars>>

LeaveInference ==
  /\ inference = "wait"
  /\ ~ is_running
  /\ inference' = "ended"
  /\ UNCHANGED <<driverVars, captureVars, refs, teeVars, sinkVars, dma_fd_queue,
                 dctx, boxes_left, g_bb_q, encoderVars>>

(* Mutant: the sample is dropped as soon as its fd is known.                *)
TakeFrameUnrefs ==
  /\ inference = "wait"
  /\ is_running /\ dma_fd_queue # << >>
  /\ dctx' = Head(dma_fd_queue)
  /\ SetRefs(Unref(refs, Head(dma_fd_queue)))
  /\ dma_fd_queue' = Tail(dma_fd_queue)
  /\ inference' = "scale"
  /\ UNCHANGED <<captureVars, teeVars, sinkVars, boxes_left, g_bb_q,
                 encoderVars>>

TakeFrame ==
  /\ inference = "wait"
  /\ is_running /\ dma_fd_queue # << >>
  /\ dctx' = Head(dma_fd_queue)
  /\ dma_fd_queue' = Tail(dma_fd_queue)
  /\ inference' = "scale"
  /\ UNCHANGED <<driverVars, captureVars, refs, teeVars, sinkVars, boxes_left,
                 g_bb_q, encoderVars>>

(* The sample has no usable caps: the thread returns with the sample.       *)
CapsFail ==
  /\ "caps" \in Faults
  /\ inference = "scale"
  /\ inference' = "ended"
  /\ dctx' = None
  /\ UNCHANGED <<driverVars, captureVars, refs, teeVars, sinkVars, dma_fd_queue,
                 boxes_left, g_bb_q, encoderVars>>

(* Mutant: the frame is skipped without its unref.                          *)
ScaleFailKeeps ==
  /\ "scale" \in Faults
  /\ inference = "scale"
  /\ dctx' = None
  /\ inference' = "wait"
  /\ UNCHANGED <<driverVars, captureVars, refs, teeVars, sinkVars,
                 dma_fd_queue, boxes_left, g_bb_q, encoderVars>>

(* rga_scale_yolo fails: the frame is skipped.                              *)
ScaleFail ==
  /\ "scale" \in Faults
  /\ inference = "scale"
  /\ SetRefs(Unref(refs, dctx))
  /\ dctx' = None
  /\ inference' = "wait"
  /\ UNCHANGED <<captureVars, teeVars, sinkVars, dma_fd_queue, boxes_left,
                 g_bb_q, encoderVars>>

(* The model runs on the scaled frame and finds n boxes.                    *)
Infer(n) ==
  /\ inference = "scale"
  /\ inference' = "run"
  /\ boxes_left' = n
  /\ UNCHANGED <<driverVars, captureVars, refs, teeVars, sinkVars, dma_fd_queue,
                 dctx, g_bb_q, encoderVars>>

(* One box goes to g_bb_q, under g_queue_mutex.                             *)
PushBox ==
  /\ inference = "run"
  /\ boxes_left > 0
  /\ g_bb_q' = g_bb_q + 1
  /\ boxes_left' = boxes_left - 1
  /\ UNCHANGED <<driverVars, captureVars, refs, teeVars, sinkVars, dma_fd_queue,
                 inference, dctx, encoderVars>>

(* run() returns and the sample is dropped.                                 *)
InferenceDone ==
  /\ inference = "run"
  /\ boxes_left = 0
  /\ SetRefs(Unref(refs, dctx))
  /\ dctx' = None
  /\ inference' = "wait"
  /\ UNCHANGED <<captureVars, teeVars, sinkVars, dma_fd_queue, boxes_left,
                 g_bb_q, encoderVars>>

-----------------------------------------------------------------------------
(* q_trans's streaming thread: osd_probe_callback, then the encoder.        *)

(* The queue hands the next frame on: its place in q_trans is free before   *)
(* osd_probe_callback has run.                                              *)
ProbeCalled ==
  /\ probing = None
  /\ trans_queue # << >>
  /\ probing' = Head(trans_queue)
  /\ trans_queue' = Tail(trans_queue)
  /\ UNCHANGED <<driverVars, captureVars, refs, teeVars, sinkVars, dma_fd_queue,
                 inferenceVars, g_bb_q, encoding>>

(* Mutant: the probe draws the boxes of a copy of g_bb_q.                   *)
ProbeCopies ==
  /\ probing # None
  /\ encoding' = encoding \cup {probing}
  /\ probing' = None
  /\ UNCHANGED <<driverVars, captureVars, refs, teeVars, sinkVars, dma_fd_queue,
                 inferenceVars, g_bb_q, trans_queue>>

(* Mutant: the probe returns GST_PAD_PROBE_DROP.                            *)
ProbeDrops ==
  /\ probing # None
  /\ g_bb_q' = 0
  /\ SetRefs(Unref(refs, probing))
  /\ probing' = None
  /\ UNCHANGED <<captureVars, teeVars, sinkVars, dma_fd_queue, inferenceVars,
                 trans_queue, encoding>>

(* The probe drains g_bb_q under g_queue_mutex, draws the boxes and lets    *)
(* the frame go on to the encoder.  The drawing changes pixels only: it is  *)
(* a module of its own, OsdProbe.                                           *)
Probe ==
  /\ probing # None
  /\ g_bb_q' = 0
  /\ encoding' = encoding \cup {probing}
  /\ probing' = None
  /\ UNCHANGED <<driverVars, captureVars, refs, teeVars, sinkVars, dma_fd_queue,
                 inferenceVars, trans_queue>>

Encoded(b) ==
  /\ b \in encoding
  /\ encoding' = encoding \ {b}
  /\ SetRefs(Unref(refs, b))
  /\ UNCHANGED <<captureVars, teeVars, sinkVars, dma_fd_queue, inferenceVars,
                 g_bb_q, trans_queue, probing>>

-----------------------------------------------------------------------------
Capture == Dequeue \/ LeaveCapture \/ PushFrame \/ PushFails
Tee == TeeTake \/ TeePushRga \/ TeePushTrans
Sink == Render \/ OnNewSample \/ OnNewSampleReturn
Inference ==
  \/ ModelReady \/ WaitForFrame \/ SpuriousWakeup \/ LeaveInference
  \/ TakeFrame \/ CapsFail \/ ScaleFail
  \/ \E n \in 0 .. MaxBoxes : Infer(n)
  \/ PushBox \/ InferenceDone
Encoder == ProbeCalled \/ Probe \/ \E b \in Buffers : Encoded(b)

Next ==
  \/ \E b \in Buffers : Fill(b)
  \/ Capture \/ Tee \/ Sink \/ Inference \/ Encoder

Spec == Init /\ [][Next]_vars

(* The threads run as long as they have something to do; the device fills   *)
(* the buffers it is given.  Nobody owes a fault or a spurious wakeup.      *)
Fairness ==
  /\ WF_vars(\E b \in Buffers : Fill(b))
  /\ WF_vars(Dequeue \/ PushFrame)
  /\ WF_vars(Tee)
  /\ WF_vars(Sink)
  /\ WF_vars(\/ ModelReady \/ WaitForFrame \/ TakeFrame
             \/ \E n \in 0 .. MaxBoxes : Infer(n)
             \/ PushBox \/ InferenceDone)
  /\ WF_vars(ProbeCalled \/ Probe)
  /\ \A b \in Buffers : WF_vars(Encoded(b))

FairSpec == Spec /\ Fairness

-----------------------------------------------------------------------------
(* Who holds a pointer to the GstBuffer of b.                               *)

Held(b, S) == IF b \in S THEN 1 ELSE 0

Holders(b) ==
  Held(b, Range(appsrc_queue)) + Held(b, {tee})
    + Held(b, Range(rga_queue)) + Held(b, {rendering}) + Held(b, {pulled})
    + Held(b, {last_sample}) + Held(b, Range(dma_fd_queue)) + Held(b, {dctx})
    + Held(b, Range(trans_queue)) + Held(b, {probing}) + Held(b, encoding)

(* Buffers with a reference that nobody will ever drop.                     *)
Leaked == {b \in Buffers : refs[b] > Holders(b)}

(* Buffers whose frame waits for inference_thread or is with it.            *)
Backlog == Range(dma_fd_queue) \cup ({dctx} \ {None})

-----------------------------------------------------------------------------
TypeOK ==
  /\ queued \in SUBSET Buffers
  /\ done \in Seq(Buffers)
  /\ pushing \in Buffers \cup {None}
  /\ capturing \in BOOLEAN
  /\ is_running \in BOOLEAN
  /\ refs \in [Buffers -> Nat]
  /\ appsrc_queue \in Seq(Buffers)
  /\ tee \in Buffers \cup {None}
  /\ tee_next \in {"rga", "trans"}
  /\ rga_queue \in Seq(Buffers) /\ Len(rga_queue) <= QueueCap
  /\ rendering \in Buffers \cup {None}
  /\ pulled \in Buffers \cup {None}
  /\ last_sample \in Buffers \cup {None}
  /\ dma_fd_queue \in Seq(Buffers) /\ Len(dma_fd_queue) <= BacklogLimit + 1
  /\ inference \in {"init", "wait", "asleep", "scale", "run", "ended"}
  /\ dctx \in Buffers \cup {None}
  /\ boxes_left \in 0 .. MaxBoxes
  /\ g_bb_q \in Nat
  /\ trans_queue \in Seq(Buffers) /\ Len(trans_queue) <= QueueCap
  /\ probing \in Buffers \cup {None}
  /\ encoding \in SUBSET Buffers

(* Every pointer that a thread, a queue or GStreamer holds to a frame has a *)
(* reference behind it, whichever branch finishes first: on_new_sample's    *)
(* ref and unref and inference_task's unref never free a frame too early.   *)
NoDanglingPointer == \A b \in Buffers : Holders(b) <= refs[b]

(* A V4L2 buffer is in exactly one place: queued or filled in the driver,   *)
(* in push_one_frame's hands, or wrapped in one live GstBuffer.  None is    *)
(* lost on a failure of the push, none is queued twice (VIDIOC_QBUF of a    *)
(* queued buffer fails and v4l2_queue_frame_dmabuf exits the process).      *)
OneOwner ==
  \A b \in Buffers :
    Held(b, queued) + Held(b, Range(done)) + Held(b, {pushing})
      + (IF refs[b] > 0 THEN 1 ELSE 0) = 1

(* The overflow of dma_fd_queue pops a sample without dropping its          *)
(* reference.  It needs BacklogLimit + 2 buffers at once, so the loss stops *)
(* when BacklogLimit + 1 buffers are left; the thread that returns with a   *)
(* sample loses one more.                                                   *)
LeakBound ==
  Cardinality(Leaked) <=
    Cardinality(Buffers) - (BacklogLimit + 1)
      + (IF inference = "ended" THEN 1 ELSE 0)

(* g_bb_q has no limit of its own; only the probe empties it.  It stays     *)
(* bounded because every frame that is inferred also passes the probe: no   *)
(* more results gather than there are buffers, places in q_trans, and one   *)
(* frame each in the tee and on its way into the probe.                     *)
BoxBound == g_bb_q <= MaxBoxes * (Cardinality(Buffers) + QueueCap + 2)

-----------------------------------------------------------------------------
(* The pool that this module implements.                                    *)
Pool == INSTANCE FramePool WITH
  empty <- queued,
  filled <- done,
  lent <- Buffers \ (queued \cup Range(done)),
  reading <- {b \in Buffers : b = pushing \/ Holders(b) > 0}

(* No thread reads a buffer while the device may be filling it.             *)
NoTornFrame == Pool!NoTornFrame

(* The reference counts, the two branches and the failures together give    *)
(* every buffer back at the moment its last reader is done, or never: each  *)
(* step is a step of FramePool.                                             *)
PoolSpec == Pool!Spec

-----------------------------------------------------------------------------
(* Liveness, without the faults that end a thread.                          *)

(* appsrc_thread gets frames for ever, in spite of the buffers that the     *)
(* overflow loses and of those the backlog and the last-sample keep.        *)
CaptureGoesOn == []<>(pushing # None)

(* Every captured frame reaches the encoder: the shared tee never lets one  *)
(* branch block the other for good.                                         *)
CapturedIsEncoded == \A b \in Buffers : pushing = b ~> b \in encoding

(* inference_thread always gets another frame: no wakeup by on_new_sample   *)
(* is lost.                                                                 *)
InferenceGoesOn == []<>(inference = "scale")

-----------------------------------------------------------------------------
(* What the comment on the overflow says: old frames are discarded so that  *)
(* the stream keeps its pace.  The code does neither.                       *)

(* A discarded frame is given back: no buffer is lost while inference runs. *)
NoLeak == Leaked = {}

(* However slow inference is, its backlog leaves a buffer to capture into.  *)
BacklogLeavesABuffer == Cardinality(Backlog) < Cardinality(Buffers)
=============================================================================
