--------------------------- MODULE EngineLifecycle ---------------------------
(***************************************************************************)
(* The life of a VisionEngine: the application calls start(), stop() and    *)
(* the destructor; start() leaves three threads behind (appsrc_thread,      *)
(* loop_thread, inference_thread) which share is_running, main_loop, the    *)
(* pipeline and frame_mutex_/frame_cv_ with it.  The frames are counted     *)
(* only; FramePipeline says where each of them is.                          *)
(*                                                                         *)
(* GMainLoop, the condition variable and the pipeline are external: a quit  *)
(* clears the flag that run sets when it begins, a notification wakes who   *)
(* already waits, and an appsrc in state NULL refuses buffers.              *)
(***************************************************************************)
EXTENDS Naturals

CONSTANTS
  Frames,          \* V4L2 buffers, num_buffers
  BacklogLimit,    \* dma_fd_queue drops its head when longer than this
  Faults           \* failures the environment may cause

ASSUME FramesAssumption == Frames \in Nat \ {0} /\ BacklogLimit \in Nat
ASSUME FaultsAssumption == Faults \subseteq {"poll", "push", "caps", "bus"}

VARIABLES
  app,             \* where the application's thread is, or how all ended
  destroying,      \* the call is ~VisionEngine
  stopped,         \* stop() has returned and start() was not called since
  is_running,      \* Impl::is_running
  pipeline,        \* state of the GStreamer pipeline
  streaming,       \* the V4L2 stream is on
  main_loop,       \* the GMainLoop: "none", "live" or "freed"
  loop_flag,       \* the flag inside the GMainLoop
  loop,            \* loop_thread; "none": no thread to join
  capture,         \* appsrc_thread
  inference,       \* inference_thread
  in_flight,       \* frames between appsrc and on_new_sample
  backlog,         \* length of dma_fd_queue
  lost             \* frames whose reference was forgotten

appVars == <<app, destroying, stopped>>
loopVars == <<main_loop, loop_flag, loop>>
frameVars == <<in_flight, backlog, lost>>
vars == <<appVars, is_running, pipeline, streaming, loopVars, capture,
          inference, frameVars>>

Init ==
  /\ app = "idle"
  /\ destroying = FALSE
  /\ stopped = FALSE
  /\ is_running = FALSE
  /\ pipeline = "NULL"
  /\ streaming = FALSE
  /\ main_loop = "none"
  /\ loop_flag = FALSE
  /\ loop = "none"
  /\ capture = "none"
  /\ inference = "none"
  /\ in_flight = 0
  /\ backlog = 0
  /\ lost = 0

Goto(pc) == app' = pc /\ UNCHANGED <<destroying, stopped>>

(* The process ends, and its threads with it.                               *)
Die(how) ==
  /\ app' = how
  /\ pipeline' = "gone"
  /\ capture' = "killed"
  /\ loop' = "killed"
  /\ inference' = "killed"

-----------------------------------------------------------------------------
(* start(), one action per call it makes.                                   *)

Start ==
  /\ app = "idle" /\ ~ destroying
  /\ ~ is_running
  /\ capture = "none"
  /\ is_running' = TRUE
  /\ streaming' = TRUE
  /\ app' = "start_pipeline"
  /\ stopped' = FALSE
  /\ UNCHANGED <<destroying, pipeline, loopVars, capture, inference, frameVars>>

(* A second start().  The stream was never turned off, so QBUF fails and    *)
(* exits if the driver still has a buffer; else appsrc_thread, which nobody *)
(* joined, is assigned to, and std::thread terminates the process.          *)
Restart ==
  /\ app = "idle" /\ ~ destroying
  /\ ~ is_running
  /\ capture # "none"
  /\ is_running' = TRUE
  /\ stopped' = FALSE
  /\ \E how \in {"exited", "terminated"} : Die(how)
  /\ UNCHANGED <<destroying, streaming, main_loop, loop_flag, frameVars>>

StartPipeline ==
  /\ app = "start_pipeline"
  /\ pipeline' = "PLAYING"
  /\ Goto("start_capture")
  /\ UNCHANGED <<is_running, streaming, loopVars, capture, inference,
                 frameVars>>

StartCapture ==
  /\ app = "start_capture"
  /\ capture' = "loop"
  /\ Goto("start_loop")
  /\ UNCHANGED <<is_running, pipeline, streaming, loopVars, inference,
                 frameVars>>

StartLoop ==
  /\ app = "start_loop"
  /\ main_loop' = "live"
  /\ loop_flag' = FALSE
  /\ Goto("start_loop_thread")
  /\ UNCHANGED <<is_running, pipeline, streaming, loop, capture, inference,
                 frameVars>>

StartLoopThread ==
  /\ app = "start_loop_thread"
  /\ loop' = "starting"
  /\ Goto("start_inference")
  /\ UNCHANGED <<is_running, pipeline, streaming, main_loop, loop_flag, capture,
                 inference, frameVars>>

StartInference ==
  /\ app = "start_inference"
  /\ inference' = "init"
  /\ Goto("idle")
  /\ UNCHANGED <<is_running, pipeline, streaming, loopVars, capture, frameVars>>

-----------------------------------------------------------------------------
(* stop(), one action per call it makes.                                    *)

StopSteps ==
  {"stop_notify", "stop_join_inference", "stop_pipeline", "stop_quit",
   "stop_join_loop", "stop_unref_loop", "stop_clear_loop"}

Stop ==
  /\ app = "idle" /\ ~ stopped
  /\ is_running
  /\ is_running' = FALSE
  /\ Goto("stop_notify")
  /\ UNCHANGED <<pipeline, streaming, loopVars, capture, inference, frameVars>>

(* The early return: is_running is false, by an earlier stop() or because   *)
(* appsrc_thread gave up.                                                   *)
StopEarly ==
  /\ app = "idle" /\ ~ stopped
  /\ ~ is_running
  /\ stopped' = TRUE
  /\ UNCHANGED <<app, destroying, is_running, pipeline, streaming, loopVars,
                 capture, inference, frameVars>>

(* An inference_thread that waits is woken.                                 *)
Woken == IF inference = "asleep" THEN "check" ELSE inference

(* notify_all, without frame_mutex_.                                        *)
StopNotify ==
  /\ app = "stop_notify"
  /\ inference' = Woken
  /\ Goto("stop_join_inference")
  /\ UNCHANGED <<is_running, pipeline, streaming, loopVars, capture, frameVars>>

(* Mutant: inference_thread is detached instead of joined.                  *)
StopDetachInference ==
  /\ app = "stop_join_inference"
  /\ Goto("stop_pipeline")
  /\ UNCHANGED <<is_running, pipeline, streaming, loopVars, capture, inference,
                 frameVars>>

StopJoinInference ==
  /\ app = "stop_join_inference"
  /\ inference \in {"none", "ended"}
  /\ inference' = "none"
  /\ Goto("stop_pipeline")
  /\ UNCHANGED <<is_running, pipeline, streaming, loopVars, capture, frameVars>>

(* State NULL flushes every element.                                        *)
StopPipeline ==
  /\ app = "stop_pipeline"
  /\ pipeline' = "NULL"
  /\ in_flight' = 0
  /\ Goto("stop_quit")
  /\ UNCHANGED <<is_running, streaming, loopVars, capture, inference, backlog,
                 lost>>

StopQuit ==
  /\ app = "stop_quit"
  /\ loop_flag' = FALSE
  /\ Goto("stop_join_loop")
  /\ UNCHANGED <<is_running, pipeline, streaming, main_loop, loop, capture,
                 inference, frameVars>>

(* Mutant: the loop is freed before its thread has ended.                   *)
StopDetachLoop ==
  /\ app = "stop_join_loop"
  /\ Goto("stop_unref_loop")
  /\ UNCHANGED <<is_running, pipeline, streaming, loopVars, capture, inference,
                 frameVars>>

StopJoinLoop ==
  /\ app = "stop_join_loop"
  /\ loop \in {"none", "ended"}
  /\ loop' = "none"
  /\ Goto("stop_unref_loop")
  /\ UNCHANGED <<is_running, pipeline, streaming, main_loop, loop_flag, capture,
                 inference, frameVars>>

StopUnrefLoop ==
  /\ app = "stop_unref_loop"
  /\ main_loop' = "freed"
  /\ Goto("stop_clear_loop")
  /\ UNCHANGED <<is_running, pipeline, streaming, loop_flag, loop, capture,
                 inference, frameVars>>

StopClearLoop ==
  /\ app = "stop_clear_loop"
  /\ main_loop' = "none"
  /\ app' = "idle"
  /\ stopped' = TRUE
  /\ UNCHANGED <<destroying, is_running, pipeline, streaming, loop_flag, loop,
                 capture, inference, frameVars>>

(* ~Impl calls stop(), then the members go: a std::thread that can still be *)
(* joined terminates the process.                                           *)
Destroy ==
  /\ app = "idle" /\ ~ destroying
  /\ destroying' = TRUE
  /\ UNCHANGED <<app, stopped, is_running, pipeline, streaming, loopVars,
                 capture, inference, frameVars>>

DestroyMembers ==
  /\ app = "idle" /\ destroying /\ stopped
  /\ \/ /\ {capture, loop, inference} = {"none"}
        /\ app' = "destroyed"
        /\ UNCHANGED <<pipeline, capture, loop, inference>>
     \/ /\ {capture, loop, inference} # {"none"}
        /\ Die("terminated")
  /\ UNCHANGED <<destroying, stopped, is_running, streaming, main_loop,
                 loop_flag, frameVars>>

-----------------------------------------------------------------------------
(* appsrc_thread.                                                           *)

(* The frames that the driver can fill or has filled.                       *)
Available ==
  Frames - (in_flight + backlog + lost)
    - (IF capture = "push" THEN 1 ELSE 0)
    - (IF inference = "work" THEN 1 ELSE 0)

(* while (is_running), and into poll().                                     *)
CaptureLoop ==
  /\ capture = "loop"
  /\ is_running
  /\ capture' = "poll"
  /\ UNCHANGED <<appVars, is_running, pipeline, streaming, loopVars, inference,
                 frameVars>>

(* A frame arrives; is_running is not looked at again before the push.      *)
CapturePoll ==
  /\ capture = "poll"
  /\ Available > 0
  /\ capture' = "push"
  /\ UNCHANGED <<appVars, is_running, pipeline, streaming, loopVars, inference,
                 frameVars>>

(* Mutant: appsrc_thread only looks at is_running when no frame is there.   *)
CaptureEndLate ==
  /\ capture = "loop"
  /\ ~ is_running /\ Available = 0
  /\ capture' = "ended"
  /\ UNCHANGED <<appVars, is_running, pipeline, streaming, loopVars, inference,
                 frameVars>>

CaptureEnd ==
  /\ capture = "loop"
  /\ ~ is_running
  /\ capture' = "ended"
  /\ UNCHANGED <<appVars, is_running, pipeline, streaming, loopVars, inference,
                 frameVars>>

(* poll fails: the thread ends, the engine goes on.                         *)
PollError ==
  /\ "poll" \in Faults
  /\ capture = "poll"
  /\ capture' = "ended"
  /\ UNCHANGED <<appVars, is_running, pipeline, streaming, loopVars, inference,
                 frameVars>>

(* Half a second passes without a frame, or DQBUF finds none.               *)
CaptureTimeout ==
  /\ capture = "poll"
  /\ capture' = "loop"
  /\ UNCHANGED <<appVars, is_running, pipeline, streaming, loopVars, inference,
                 frameVars>>

PushOk ==
  /\ capture = "push"
  /\ pipeline = "PLAYING"
  /\ in_flight' = in_flight + 1
  /\ capture' = "loop"
  /\ UNCHANGED <<appVars, is_running, pipeline, streaming, loopVars, inference,
                 backlog, lost>>

(* The pipeline is flushing, or the frame cannot be wrapped: the buffer is  *)
(* queued in the driver again.                                              *)
PushFails ==
  /\ capture = "push"
  /\ pipeline = "NULL" \/ "push" \in Faults
  /\ capture' = "quit"
  /\ UNCHANGED <<appVars, is_running, pipeline, streaming, loopVars, inference,
                 frameVars>>

(* g_main_loop_quit on whatever main_loop is: it only warns of a null       *)
(* pointer; what it does with a freed loop is undefined (next action).      *)
CaptureQuit ==
  /\ capture = "quit"
  /\ loop_flag' = IF main_loop = "live" THEN FALSE ELSE loop_flag
  /\ capture' = "give_up"
  /\ UNCHANGED <<appVars, is_running, pipeline, streaming, main_loop, loop,
                 inference, frameVars>>

(* stop() has unrefed the loop and not yet cleared main_loop: the process   *)
(* may crash, or CaptureQuit find nothing to do.                            *)
CaptureQuitCrashes ==
  /\ capture = "quit"
  /\ main_loop = "freed"
  /\ Die("crashed")
  /\ UNCHANGED <<destroying, stopped, is_running, streaming, main_loop,
                 loop_flag, frameVars>>

CaptureGivesUp ==
  /\ capture = "give_up"
  /\ is_running' = FALSE
  /\ capture' = "loop"
  /\ UNCHANGED <<appVars, pipeline, streaming, loopVars, inference, frameVars>>

-----------------------------------------------------------------------------
(* loop_thread and the bus callback that runs in it.                        *)

LoopRun ==
  /\ loop = "starting"
  /\ loop' = "running"
  /\ loop_flag' = TRUE
  /\ UNCHANGED <<appVars, is_running, pipeline, streaming, main_loop, capture,
                 inference, frameVars>>

(* bus_call_back on ERROR or EOS.                                           *)
BusError ==
  /\ "bus" \in Faults
  /\ loop = "running"
  /\ pipeline = "PLAYING"
  /\ loop_flag
  /\ loop_flag' = FALSE
  /\ UNCHANGED <<appVars, is_running, pipeline, streaming, main_loop, loop,
                 capture, inference, frameVars>>

LoopEnd ==
  /\ loop = "running"
  /\ ~ loop_flag
  /\ loop' = "ended"
  /\ UNCHANGED <<appVars, is_running, pipeline, streaming, main_loop, loop_flag,
                 capture, inference, frameVars>>

-----------------------------------------------------------------------------
(* Mutant: the queue drops nothing.                                         *)
OnNewSampleGrows ==
  /\ in_flight > 0
  /\ pipeline = "PLAYING"
  /\ inference # "blocking"
  /\ in_flight' = in_flight - 1
  /\ backlog' = backlog + 1
  /\ inference' = Woken
  /\ UNCHANGED <<appVars, is_running, pipeline, streaming, loopVars, capture,
                 lost>>

(* Mutant: on_new_sample enqueues without frame_mutex_.                     *)
OnNewSampleUnlocked ==
  /\ in_flight > 0
  /\ pipeline = "PLAYING"
  /\ in_flight' = in_flight - 1
  /\ IF backlog > BacklogLimit
     THEN lost' = lost + 1 /\ UNCHANGED backlog
     ELSE backlog' = backlog + 1 /\ UNCHANGED lost
  /\ inference' = Woken
  /\ UNCHANGED <<appVars, is_running, pipeline, streaming, loopVars, capture>>

(* The appsink thread: on_new_sample.  It cannot enqueue while              *)
(* inference_thread holds frame_mutex_, which is between a check that       *)
(* failed and the block inside frame_cv_.wait.                              *)
OnNewSample ==
  /\ in_flight > 0
  /\ pipeline = "PLAYING"
  /\ inference # "blocking"
  /\ in_flight' = in_flight - 1
  /\ IF backlog > BacklogLimit
     THEN lost' = lost + 1 /\ UNCHANGED backlog
     ELSE backlog' = backlog + 1 /\ UNCHANGED lost
  /\ inference' = Woken
  /\ UNCHANGED <<appVars, is_running, pipeline, streaming, loopVars, capture>>

-----------------------------------------------------------------------------
(* inference_thread.                                                        *)

InferenceSet(pc) ==
  /\ inference' = pc
  /\ UNCHANGED <<appVars, is_running, pipeline, streaming, loopVars, capture>>

(* The model is loaded, or a frame is done: while (is_running).             *)
InferenceLoop ==
  /\ inference \in {"init", "work"}
  /\ InferenceSet(IF is_running THEN "check" ELSE "ended")
  /\ UNCHANGED frameVars

(* The predicate of frame_cv_.wait holds.                                   *)
InferenceTake ==
  /\ inference = "check"
  /\ is_running /\ backlog > 0
  /\ backlog' = backlog - 1
  /\ InferenceSet("work")
  /\ UNCHANGED <<in_flight, lost>>

(* Mutant: a woken inference_thread finishes its backlog first.             *)
InferenceEndEmpty ==
  /\ inference = "check"
  /\ ~ is_running /\ backlog = 0
  /\ InferenceSet("ended")
  /\ UNCHANGED frameVars

InferenceEnd ==
  /\ inference = "check"
  /\ ~ is_running
  /\ InferenceSet("ended")
  /\ UNCHANGED frameVars

(* It does not hold: the thread is going to wait.                           *)
InferenceCheckFails ==
  /\ inference = "check"
  /\ is_running /\ backlog = 0
  /\ InferenceSet("blocking")
  /\ UNCHANGED frameVars

InferenceSleep ==
  /\ inference = "blocking"
  /\ InferenceSet("asleep")
  /\ UNCHANGED frameVars

SpuriousWakeup ==
  /\ inference = "asleep"
  /\ InferenceSet("check")
  /\ UNCHANGED frameVars

(* A sample without usable caps: the thread returns with it.                *)
InferenceCapsFail ==
  /\ "caps" \in Faults
  /\ inference = "work"
  /\ lost' = lost + 1
  /\ InferenceSet("ended")
  /\ UNCHANGED <<in_flight, backlog>>

-----------------------------------------------------------------------------
Starting ==
  \/ StartPipeline \/ StartCapture \/ StartLoop \/ StartLoopThread
  \/ StartInference
Stopping ==
  \/ StopNotify \/ StopJoinInference \/ StopPipeline \/ StopQuit \/ StopJoinLoop
  \/ StopUnrefLoop \/ StopClearLoop
Application ==
  Start \/ Restart \/ Starting \/ Stop \/ StopEarly \/ Stopping \/ Destroy
    \/ DestroyMembers
CaptureThread ==
  \/ CaptureLoop \/ CapturePoll \/ CaptureTimeout \/ CaptureEnd
  \/ PushOk \/ PushFails \/ CaptureQuit \/ CaptureQuitCrashes \/ CaptureGivesUp
LoopThread == LoopRun \/ BusError \/ LoopEnd
InferenceThread ==
  \/ InferenceLoop \/ InferenceTake \/ InferenceEnd \/ InferenceCheckFails
  \/ InferenceSleep \/ InferenceCapsFail

Next ==
  \/ Application \/ CaptureThread \/ PollError \/ LoopThread \/ OnNewSample
  \/ InferenceThread \/ SpuriousWakeup

Spec == Init /\ [][Next]_vars

(* Every thread goes on; the application goes on inside a call, and need    *)
(* not make one.  Nobody owes a fault or a spurious wakeup.                 *)
Fairness ==
  /\ WF_vars(Starting \/ Stopping)
  /\ WF_vars(CaptureThread)
  /\ WF_vars(LoopRun \/ LoopEnd)
  /\ WF_vars(OnNewSample)
  /\ WF_vars(InferenceThread)

FairSpec == Spec /\ Fairness

-----------------------------------------------------------------------------
TypeOK ==
  /\ app \in {"idle", "start_pipeline", "start_capture", "start_loop",
              "start_loop_thread", "start_inference",
              "destroyed", "exited", "terminated", "crashed"} \cup StopSteps
  /\ destroying \in BOOLEAN
  /\ stopped \in BOOLEAN
  /\ is_running \in BOOLEAN
  /\ pipeline \in {"NULL", "PLAYING", "gone"}
  /\ streaming \in BOOLEAN
  /\ main_loop \in {"none", "live", "freed"}
  /\ loop_flag \in BOOLEAN
  /\ loop \in {"none", "starting", "running", "ended", "killed"}
  /\ capture \in {"none", "loop", "poll", "push", "quit", "give_up",
                  "ended", "killed"}
  /\ inference \in {"none", "init", "check", "blocking", "asleep", "work",
                    "ended", "killed"}
  /\ in_flight \in 0 .. Frames
  /\ backlog \in 0 .. BacklogLimit + 1
  /\ lost \in 0 .. Frames

(* stop() takes the pipeline and the loop down only when nobody infers any  *)
(* more, whatever appsrc_thread, the bus and the sink do meanwhile.         *)
QuiescentTeardown ==
  app \in {"stop_pipeline", "stop_quit", "stop_join_loop", "stop_unref_loop",
           "stop_clear_loop"}
    => inference = "none"

(* loop_thread, and the bus callback in it, only use a GMainLoop that       *)
(* exists, although stop() frees it and start() stores it from another      *)
(* thread.                                                                  *)
LoopThreadHasLoop == loop \in {"starting", "running"} => main_loop = "live"

(* inference_thread never sleeps over a frame: on_new_sample enqueues under *)
(* frame_mutex_, so the wakeup of a frame cannot fall between the check and *)
(* the wait (as that of stop() can).                                        *)
SleepsOnlyWithoutFrames == inference = "asleep" => backlog = 0

(* However stop() and a failing push meet, appsrc_thread ends once          *)
(* is_running is false, or the process does.                                *)
CaptureEnds == ~ is_running ~> capture \in {"none", "ended", "killed"}

(* A stop() that does not return hangs at one of two joins: either          *)
(* inference_thread missed the notification, or loop_thread the quit.       *)
(* Nothing else keeps it inside for ever, whatever the other threads do.    *)
StopHangsOnlyAtJoins ==
  []<>(\/ app \notin StopSteps
       \/ app = "stop_join_inference" /\ inference = "asleep"
       \/ app = "stop_join_loop" /\ loop = "running")

-----------------------------------------------------------------------------
(* What the comments say of stop().                                         *)

(* "notify the inference thread to exit": the thread is joined.             *)
InferenceIsJoined ==
  app = "stop_join_inference" ~> app # "stop_join_inference"

(* "stop GStreamer and the GMainLoop": the loop's thread is joined.         *)
LoopIsJoined == app = "stop_join_loop" ~> app # "stop_join_loop"

(* "stop pushing, release the resources": after stop() the device does not  *)
(* stream, and the thread that pushes has ended and is joined.              *)
StopEndsPushing ==
  stopped /\ app = "idle" => ~ streaming /\ capture = "none"

(* "stop inference": once stop() has returned, inference_thread does not    *)
(* stay for ever, unless the engine is started again or destroyed.  A       *)
(* thread that stop() did not join may still end by itself; one that waits  *)
(* has nobody to wake it.                                                   *)
StopEndsInference ==
  stopped /\ app = "idle"
    ~> ~ stopped \/ destroying \/ inference \in {"none", "ended", "killed"}
=============================================================================
