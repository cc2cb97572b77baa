------------------------------- MODULE Bringup -------------------------------
(***************************************************************************)
(* From init() to the first frames through the NPU: the device is set up,   *)
(* the pipeline built, the stream turned on and the threads started, and    *)
(* any of it may fail.  Some failures end the process, some leave an engine *)
(* that is half built and yet started, because init() answers true to them, *)
(* start() has no result and nobody looks at that of model->init().         *)
(*                                                                         *)
(* CaptureDevice and RknnModel have the single calls.  References to frames *)
(* are in FramePipeline and stop() is in EngineLifecycle: here a frame is   *)
(* just held by the pipeline, and Stop is only the flag.                    *)
(***************************************************************************)
EXTENDS CaptureDevice, RknnModel

VARIABLES
  app,             \* where the application is in init() and start()
  next,            \* the loops over the buffers: the next one
  pipeline,        \* "null", "partial": not linked, "complete", or "freed"
  is_running,
  capture,         \* appsrc_thread
  buf,             \* the buffer in its hands
  inference,       \* inference_thread
  dctx,            \* the frame in its hands, for good if it ended with it
  held             \* buffers of frames in the pipeline

NoBuffer == NumBuffers
Indices == 0..(NumBuffers - 1)

appVars == <<app, next, pipeline>>
captureThreadVars == <<capture, buf>>
inferenceThreadVars == <<inference, dctx>>
engineVars == <<appVars, is_running, captureThreadVars, inferenceThreadVars, held>>
vars == <<engineVars, captureVars, rknnVars>>

Init ==
  /\ DeviceInit
  /\ ModelInit
  /\ app = "open" /\ next = 0
  /\ pipeline = "null"
  /\ is_running = FALSE
  /\ capture = "none" /\ buf = NoBuffer
  /\ inference = "none" /\ dctx = NoBuffer
  /\ held = {}

-----------------------------------------------------------------------------
(* The application: init().                                                 *)

AppAt(l) == process = "running" /\ app = l
AppGoto(l) == app' = l /\ UNCHANGED <<pipeline, is_running, captureThreadVars,
                                      inferenceThreadVars, held, rknnVars>>

Open == AppAt("open") /\ OpenDevice /\ AppGoto("set_format") /\ UNCHANGED next
Negotiate == AppAt("set_format") /\ SetFormat /\ AppGoto("get_format") /\ UNCHANGED next
ReadFormat == AppAt("get_format") /\ GetFormat /\ AppGoto("request") /\ UNCHANGED next
Request == AppAt("request") /\ RequestBuffers /\ AppGoto("alloc") /\ next' = 0

AllocOpen ==
  /\ AppAt("alloc") /\ next < requested /\ ~ heap_open
  /\ OpenHeap
  /\ AppGoto("alloc") /\ UNCHANGED next

Alloc ==
  /\ AppAt("alloc") /\ next < requested /\ heap_open
  /\ AllocBuffer(next)
  /\ AppGoto("alloc") /\ next' = next + 1

AllocDone ==
  /\ AppAt("alloc") /\ next = requested
  /\ AppGoto("build") /\ UNCHANGED <<next, captureVars>>

(* A call on the device or the heap has failed.                             *)
AppExits ==
  /\ process = "running"
  /\ \/ app \in {"open", "set_format", "request", "queue", "stream_on"}
     \/ app = "alloc" /\ next < requested
  /\ Exit
  /\ UNCHANGED <<engineVars, rknnVars>>

(* An element is missing, or there is no pipeline; the allocator is created *)
(* behind both checks.  A link fails; or all is well.  init() is "true".    *)
Build ==
  /\ AppAt("build")
  /\ pipeline' \in {"null", "partial", "complete"}
  /\ app' = "initialised"
  /\ UNCHANGED <<next, is_running, captureThreadVars, inferenceThreadVars, held,
                 captureVars, rknnVars>>

-----------------------------------------------------------------------------
(* start().                                                                 *)

Start ==
  /\ AppAt("initialised")
  /\ is_running' = TRUE
  /\ app' = "queue" /\ next' = 0
  /\ UNCHANGED <<pipeline, captureThreadVars, inferenceThreadVars, held,
                 captureVars, rknnVars>>

Queue ==
  /\ AppAt("queue") /\ next < NumBuffers
  /\ QueueBuffer(next)
  /\ AppGoto("queue") /\ next' = next + 1

QueueDone ==
  /\ AppAt("queue") /\ next = NumBuffers
  /\ AppGoto("stream_on") /\ UNCHANGED <<next, captureVars>>

StartStream == AppAt("stream_on") /\ StreamOn /\ AppGoto("play") /\ UNCHANGED next

(* Without a pipeline the state change fails, too, but there is nothing to  *)
(* unref.                                                                   *)
Play ==
  /\ AppAt("play")
  /\ pipeline' \in IF pipeline = "null" THEN {"null"} ELSE {pipeline, "freed"}
  /\ app' = "spawn"
  /\ UNCHANGED <<next, is_running, captureThreadVars, inferenceThreadVars, held,
                 captureVars, rknnVars>>

(* The members behind out_buffers are num_buffers, frame_count and the      *)
(* threads.  Of an entry too many, index falls on num_buffers and leaves it *)
(* as it is, and the length falls on the handle of appsrc_thread: a thread  *)
(* to join, it seems, and assigning to it terminates the process.           *)
SpawnTerminates ==
  /\ AppAt("spawn") /\ overrun
  /\ process' = "terminated"
  /\ UNCHANGED <<engineVars, deviceVars, bufferVars, driverVars, rknnVars>>

Spawn ==
  /\ AppAt("spawn") /\ ~ overrun
  /\ capture' = "loop" /\ inference' = "init"
  /\ app' = "started"
  /\ UNCHANGED <<next, pipeline, is_running, buf, dctx, held, captureVars, rknnVars>>

Stop ==
  /\ AppAt("started") /\ is_running
  /\ is_running' = FALSE
  /\ UNCHANGED <<appVars, captureThreadVars, inferenceThreadVars, held,
                 captureVars, rknnVars>>

App == \/ Open \/ Negotiate \/ ReadFormat \/ Request \/ AllocOpen \/ Alloc
       \/ AllocDone \/ AppExits \/ Build \/ Start \/ Queue \/ QueueDone
       \/ StartStream \/ Play \/ SpawnTerminates \/ Spawn

-----------------------------------------------------------------------------
(* appsrc_thread.                                                           *)

CaptureAt(l) == process = "running" /\ capture = l
CaptureUnchanged == UNCHANGED <<appVars, inferenceThreadVars, rknnVars>>

CheckRunning ==
  /\ CaptureAt("loop")
  /\ capture' = IF is_running THEN "poll" ELSE "ended"
  /\ CaptureUnchanged /\ UNCHANGED <<is_running, buf, held, captureVars>>

(* Mutant: whatever poll says, there is a frame.                            *)
PollAlways ==
  /\ CaptureAt("poll")
  /\ capture' \in {"dequeue", "ended"}
  /\ CaptureUnchanged /\ UNCHANGED <<is_running, buf, held, captureVars>>

(* A frame; or the timeout (or POLLERR) with none; or an error of poll.     *)
Poll ==
  /\ CaptureAt("poll")
  /\ capture' \in IF filled = {} THEN {"loop", "ended"} ELSE {"dequeue", "ended"}
  /\ CaptureUnchanged /\ UNCHANGED <<is_running, buf, held, captureVars>>

(* The device is opened blocking: without a frame DQBUF waits for one.      *)
Dequeue ==
  /\ CaptureAt("dequeue")
  /\ \E n \in filled : DequeueBuffer(n) /\ buf' = n
  /\ capture' = "push"
  /\ CaptureUnchanged /\ UNCHANGED <<is_running, held>>

DequeueExits ==
  /\ CaptureAt("dequeue")
  /\ Exit
  /\ UNCHANGED <<engineVars, rknnVars>>

Push ==
  /\ CaptureAt("push") /\ pipeline # "null"
  /\ held' = held \cup {buf}
  /\ buf' = NoBuffer /\ capture' = "loop"
  /\ CaptureUnchanged /\ UNCHANGED <<is_running, captureVars>>

(* Mutant: memory that cannot be wrapped is no error of the flow.           *)
PushFailsQuietly ==
  /\ CaptureAt("push")
  /\ QueueBuffer(buf)
  /\ buf' = NoBuffer /\ capture' = "loop"
  /\ CaptureUnchanged /\ UNCHANGED <<is_running, held>>

(* Mutant: the buffer does not go back.                                     *)
PushFailsKeeps ==
  /\ CaptureAt("push")
  /\ is_running' = FALSE
  /\ buf' = NoBuffer /\ capture' = "loop"
  /\ CaptureUnchanged /\ UNCHANGED <<held, captureVars>>

(* dup fails, or the allocation does: it must without an allocator, which   *)
(* a null pipeline has not got.  The buffer goes back, and the loop ends.   *)
PushFails ==
  /\ CaptureAt("push")
  /\ QueueBuffer(buf)
  /\ is_running' = FALSE
  /\ buf' = NoBuffer /\ capture' = "loop"
  /\ CaptureUnchanged /\ UNCHANGED held

(* QBUF fails on the way.                                                   *)
PushExits ==
  /\ CaptureAt("push")
  /\ Exit
  /\ UNCHANGED <<engineVars, rknnVars>>

(* appsrc has gone with the pipeline: a crash, or an error, and the frame   *)
(* that nobody took stays where it is.                                      *)
PushToFreed ==
  /\ CaptureAt("push") /\ pipeline = "freed"
  /\ \/ /\ process' = "crashed"
        /\ UNCHANGED <<engineVars, deviceVars, bufferVars, driverVars>>
     \/ /\ held' = held \cup {buf}
        /\ is_running' = FALSE
        /\ buf' = NoBuffer /\ capture' = "loop"
        /\ UNCHANGED <<appVars, inferenceThreadVars, captureVars>>
  /\ UNCHANGED rknnVars

CaptureThread == CheckRunning \/ Poll \/ Dequeue \/ DequeueExits \/ Push
                   \/ PushFails \/ PushExits \/ PushToFreed

(* The pipeline's last reference to a frame goes.                           *)
Release ==
  /\ process = "running" /\ pipeline \in {"partial", "complete"}
  /\ \E n \in held \ {dctx} : held' = held \ {n} /\ QueueBuffer(n)
  /\ UNCHANGED <<appVars, is_running, captureThreadVars, inferenceThreadVars, rknnVars>>

-----------------------------------------------------------------------------
(* inference_thread.                                                        *)

InferenceAt(l) == process = "running" /\ inference = l
InferenceUnchanged == UNCHANGED <<appVars, is_running, captureThreadVars, held>>

ModelInitialised ==
  /\ InferenceAt("init")
  /\ LoadModel \/ LoadModelFails
  /\ inference' = "wait"
  /\ InferenceUnchanged /\ UNCHANGED <<dctx, captureVars>>

(* on_new_sample is connected to the appsink last of all.                   *)
TakeFrame ==
  /\ InferenceAt("wait") /\ is_running
  /\ pipeline = "complete"
  /\ \E n \in held : dctx' = n
  /\ inference' = "scale"
  /\ InferenceUnchanged /\ UNCHANGED <<captureVars, rknnVars>>

(* The sample has no usable caps: the thread returns with the sample.       *)
CapsFail ==
  /\ InferenceAt("scale")
  /\ inference' = "ended"
  /\ InferenceUnchanged /\ UNCHANGED <<dctx, captureVars, rknnVars>>

LeaveInference ==
  /\ InferenceAt("wait") /\ ~ is_running
  /\ inference' = "ended"
  /\ InferenceUnchanged /\ UNCHANGED <<dctx, captureVars, rknnVars>>

ScaleCrashes ==
  /\ InferenceAt("scale") /\ GetDmaFdCrashes
  /\ process' = "crashed"
  /\ UNCHANGED <<engineVars, deviceVars, bufferVars, driverVars, rknnVars>>

Scale ==
  /\ InferenceAt("scale") /\ CanScale
  /\ inference' = "run"
  /\ InferenceUnchanged /\ UNCHANGED <<dctx, captureVars, rknnVars>>

ScaleFails ==
  /\ InferenceAt("scale") /\ ~ GetDmaFdCrashes
  /\ inference' = "wait" /\ dctx' = NoBuffer
  /\ InferenceUnchanged /\ UNCHANGED <<captureVars, rknnVars>>

Infer ==
  /\ InferenceAt("run")
  /\ Run \/ RunFails
  /\ inference' = "wait" /\ dctx' = NoBuffer
  /\ InferenceUnchanged /\ UNCHANGED captureVars

InferCrashes ==
  /\ InferenceAt("run")
  /\ RunCrashes
  /\ process' = "crashed"
  /\ UNCHANGED <<engineVars, deviceVars, bufferVars, driverVars>>

InferenceThread == ModelInitialised \/ TakeFrame \/ CapsFail \/ LeaveInference
                     \/ ScaleCrashes \/ Scale \/ ScaleFails \/ Infer \/ InferCrashes

Driver == Fill /\ UNCHANGED <<engineVars, rknnVars>>

-----------------------------------------------------------------------------
Next == App \/ Stop \/ CaptureThread \/ Release \/ InferenceThread \/ Driver

Spec == Init /\ [][Next]_vars

FairSpec == Spec /\ WF_vars(App) /\ WF_vars(CaptureThread)
                 /\ WF_vars(InferenceThread) /\ WF_vars(Driver)

-----------------------------------------------------------------------------
(* Types of every variable.                                                 *)
TypeOK ==
  /\ DeviceTypeOK /\ ModelTypeOK
  /\ app \in {"open", "set_format", "get_format", "request", "alloc", "build",
              "initialised", "queue", "stream_on", "play", "spawn", "started"}
  /\ next \in Nat
  /\ pipeline \in {"null", "partial", "complete", "freed"}
  /\ is_running \in BOOLEAN
  /\ capture \in {"none", "loop", "poll", "dequeue", "push", "ended"}
  /\ inference \in {"none", "init", "wait", "scale", "run", "ended"}
  /\ {buf, dctx} \subseteq Indices \cup {NoBuffer}
  /\ held \subseteq Indices

(* REQBUFS may grant more or fewer buffers than asked for, and neither      *)
(* v4l2_init_dmabuf nor start() looks.  When appsrc_thread nevertheless     *)
(* comes to run, there are as many buffers as were queued, each with DMA    *)
(* memory of its own, and none was written behind the array.  With one too  *)
(* many the stream is on by then, but no thread ever starts.                *)
StreamsIntoOwnBuffers ==
  process = "running" /\ capture # "none" =>
    /\ requested = NumBuffers /\ ~ overrun
    /\ \A n \in Indices : out_buffers[n].index = n /\ out_buffers[n].fd # 0
    /\ \A m, n \in Indices : m # n => out_buffers[m].fd # out_buffers[n].fd

(* Each buffer is in one place in every half-built engine, too: in the      *)
(* driver, in appsrc_thread's hands or in the pipeline.  So no failure of   *)
(* bring-up loses a buffer from under a thread that goes on, and none is    *)
(* queued in the driver while the pipeline has it.                          *)
BuffersHaveOnePlace ==
  process = "running" /\ capture # "none" =>
    /\ queued \cup filled \cup held \cup ({buf} \ {NoBuffer}) = Indices
    /\ (queued \cup filled) \cap held = {}
    /\ buf \notin queued \cup filled \cup held

(* dmabuf_alloc leaves no descriptor of the heap behind, and every DMA      *)
(* buffer is one that out_buffers knows, unless it went behind the array.   *)
DescriptorsAreAccounted ==
  process = "running" /\ app # "alloc" =>
    /\ ~ heap_open
    /\ ~ overrun => {out_buffers[n].fd : n \in Indices} \ {0} = 1..dma_fds

(* The comment on the open call wants O_NONBLOCK, which is not passed, so   *)
(* DQBUF would block and is_running never be read again.  It does not: only *)
(* appsrc_thread takes filled buffers, and only behind POLLIN.              *)
DequeueNeverBlocks ==
  process = "running" /\ capture = "dequeue" => filled # {}

(* Nobody learns from init() that there is no pipeline, yet it shows: the   *)
(* first push fails, appsrc_thread ends and the driver has its buffers.     *)
NullPipelineIsNoticed ==
  app = "started" /\ pipeline = "null" ~>
    \/ process # "running"
    \/ capture = "ended" /\ queued \cup filled = Indices

(* Whatever the order of a model's outputs and however many more it has,    *)
(* post_process finds under each stride a head of the size it will walk, if *)
(* the three heads are the model's largest, each the only output of its     *)
(* size, and in a layout it knows.                                          *)
IsHead(j, k) == GridSize(j) = HeadCells(k)

HeadsByStride ==
  /\ heads # <<>>
  /\ \A k \in 1..3 : \E j \in Outputs : \A i \in Outputs : IsHead(i, k) <=> i = j
  /\ \A j \in Outputs : GridSize(j) < HeadCells(3) \/ \E k \in 1..3 : IsHead(j, k)
  => \A k \in 1..3 : IsHead(heads[k], k)

(* process() takes the size of a head from the model's input and its memory *)
(* from the order of the outputs.  Whatever else the model puts out, and    *)
(* whichever of two equal outputs comes first, it reads behind no output,   *)
(* if there is one large enough for the finest grid, another for the next   *)
(* and a third for the coarsest.                                            *)
LargeEnough(k) == {j \in Outputs : GridSize(j) >= HeadCells(k)}

ReadsStayInside ==
  heads # <<>> /\ (\A k \in 1..3 : Cardinality(LargeEnough(k)) >= k) =>
    ~ ReadsPast(heads) /\ ~ ReadsBehind(heads)

(* Once the labels are read, every later result has a count that was set,   *)
(* and no later call reads the file again: it can be unreadable only        *)
(* before.                                                                  *)
LabelsStayLoaded ==
  [][labels_init \/ labels > 0 => group' # "garbage" /\ labels' = labels]_vars
=============================================================================
