------------------------ MODULE EngineLifecycleProofs ------------------------
(***************************************************************************)
(* Proofs about EngineLifecycle, for any number of frames, any backlog      *)
(* limit and any set of failures.                                           *)
(***************************************************************************)
EXTENDS EngineLifecycle, TLAPS

(* The frame in the hands of a thread that is at pc.                        *)
Hand(t, pc) == IF t = pc THEN 1 ELSE 0

(* Every frame is in the driver or in one of the places that are counted.   *)
FramesAreCounted ==
  in_flight + backlog + lost + Hand(capture, "push") + Hand(inference, "work")
    <= Frames

(* The check that led to the wait saw no frame, and frame_mutex_ kept it so.*)
WaitsWithoutFrames == inference \in {"blocking", "asleep"} => backlog = 0

(* The calls of start() and stop() around main_loop are in this order.      *)
LoopIsOrdered ==
  /\ app = "start_loop_thread" => main_loop = "live"
  /\ app \in {"stop_unref_loop", "stop_clear_loop"} => loop = "none"

(* The Boolean variables, apart from the rest of TypeOK.                    *)
FlagsOK ==
  {destroying, stopped, is_running, streaming, loop_flag} \subseteq BOOLEAN

(* The inductive invariant.                                                 *)
Inv ==
  /\ TypeOK
  /\ FramesAreCounted
  /\ WaitsWithoutFrames
  /\ LoopIsOrdered
  /\ QuiescentTeardown
  /\ LoopThreadHasLoop

USE FramesAssumption
USE DEF appVars, loopVars, frameVars, StopSteps, Goto, Die, Hand

LEMMA InitInv == Init => Inv
<1> SUFFICES ASSUME Init PROVE Inv
  OBVIOUS
<1>1. FlagsOK
  BY DEF Init, FlagsOK
<1> QED BY <1>1
        DEF Init, FlagsOK, Inv, TypeOK, FramesAreCounted, WaitsWithoutFrames,
            LoopIsOrdered, QuiescentTeardown, LoopThreadHasLoop

-----------------------------------------------------------------------------
(* The application's thread: start(), stop() and the destructor.            *)
LEMMA ApplicationInv ==
  ASSUME Inv, Application
  PROVE  Inv'
<1> USE DEF Inv, TypeOK, FramesAreCounted, WaitsWithoutFrames, LoopIsOrdered,
            QuiescentTeardown, LoopThreadHasLoop
<1>1. CASE Start
  BY <1>1 DEF Start
<1>2. CASE Restart
  <2>1. FlagsOK'
    BY <1>2 DEF Restart, FlagsOK
  <2> QED BY <1>2, <2>1 DEF Restart, FlagsOK
<1>3. CASE StartPipeline
  BY <1>3 DEF StartPipeline
<1>4. CASE StartCapture
  BY <1>4 DEF StartCapture
<1>5. CASE StartLoop
  <2>1. FlagsOK'
    BY <1>5 DEF StartLoop, FlagsOK
  <2> QED BY <1>5, <2>1 DEF StartLoop, FlagsOK
<1>6. CASE StartLoopThread
  BY <1>6 DEF StartLoopThread
<1>7. CASE StartInference
  BY <1>7 DEF StartInference
<1>8. CASE Stop
  <2>1. FlagsOK'
    BY <1>8 DEF Stop, FlagsOK
  <2> QED BY <1>8, <2>1 DEF Stop, FlagsOK
<1>9. CASE StopEarly
  BY <1>9 DEF StopEarly
<1>10. CASE StopNotify
  BY <1>10 DEF StopNotify, Woken
<1>11. CASE StopJoinInference
  BY <1>11 DEF StopJoinInference
<1>12. CASE StopPipeline
  BY <1>12 DEF StopPipeline
<1>13. CASE StopQuit
  <2>1. FlagsOK'
    BY <1>13 DEF StopQuit, FlagsOK
  <2> QED BY <1>13, <2>1 DEF StopQuit, FlagsOK
<1>14. CASE StopJoinLoop
  BY <1>14 DEF StopJoinLoop
<1>15. CASE StopUnrefLoop
  BY <1>15 DEF StopUnrefLoop
<1>16. CASE StopClearLoop
  BY <1>16 DEF StopClearLoop
<1>17. CASE Destroy
  BY <1>17 DEF Destroy
<1>18. CASE DestroyMembers
  BY <1>18 DEF DestroyMembers
<1> QED BY <1>1, <1>2, <1>3, <1>4, <1>5, <1>6, <1>7, <1>8, <1>9, <1>10,
        <1>11, <1>12, <1>13, <1>14, <1>15, <1>16, <1>17, <1>18
        DEF Application, Starting, Stopping

(* appsrc_thread, the failing poll included.                                *)
LEMMA CaptureThreadInv ==
  ASSUME Inv, CaptureThread \/ PollError
  PROVE  Inv'
<1> USE DEF Inv, TypeOK, FramesAreCounted, WaitsWithoutFrames, LoopIsOrdered,
            QuiescentTeardown, LoopThreadHasLoop
<1>1. CASE CaptureLoop
  BY <1>1 DEF CaptureLoop
<1>2. CASE CapturePoll
  BY <1>2 DEF CapturePoll, Available
<1>3. CASE CaptureTimeout
  BY <1>3 DEF CaptureTimeout
<1>4. CASE CaptureEnd
  BY <1>4 DEF CaptureEnd
<1>5. CASE PollError
  BY <1>5 DEF PollError
<1>6. CASE PushOk
  BY <1>6 DEF PushOk
<1>7. CASE PushFails
  BY <1>7 DEF PushFails
<1>8. CASE CaptureQuit
  <2>1. FlagsOK'
    <3>1. loop_flag' = FALSE \/ loop_flag' = loop_flag
      BY <1>8 DEF CaptureQuit
    <3> QED BY <1>8, <3>1 DEF CaptureQuit, FlagsOK
  <2>2. /\ capture = "quit" /\ capture' = "give_up"
        /\ UNCHANGED <<appVars, is_running, pipeline, streaming, main_loop, loop,
                       inference, frameVars>>
    BY <1>8 DEF CaptureQuit
  <2> QED BY <2>1, <2>2 DEF FlagsOK
<1>9. CASE CaptureQuitCrashes
  BY <1>9 DEF CaptureQuitCrashes
<1>10. CASE CaptureGivesUp
  <2>1. FlagsOK'
    BY <1>10 DEF CaptureGivesUp, FlagsOK
  <2> QED BY <1>10, <2>1 DEF CaptureGivesUp, FlagsOK
<1> QED BY <1>1, <1>2, <1>3, <1>4, <1>5, <1>6, <1>7, <1>8, <1>9, <1>10
        DEF CaptureThread

(* loop_thread and the bus callback.                                        *)
LEMMA LoopThreadInv ==
  ASSUME Inv, LoopThread
  PROVE  Inv'
<1> USE DEF Inv, TypeOK, FramesAreCounted, WaitsWithoutFrames, LoopIsOrdered,
            QuiescentTeardown, LoopThreadHasLoop
<1>1. CASE LoopRun
  BY <1>1 DEF LoopRun
<1>2. CASE BusError
  <2>1. FlagsOK'
    BY <1>2 DEF BusError, FlagsOK
  <2> QED BY <1>2, <2>1 DEF BusError, FlagsOK
<1>3. CASE LoopEnd
  BY <1>3 DEF LoopEnd
<1> QED BY <1>1, <1>2, <1>3
        DEF LoopThread

(* The appsink thread and inference_thread.                                 *)
LEMMA InferenceThreadInv ==
  ASSUME Inv, OnNewSample \/ InferenceThread \/ SpuriousWakeup
  PROVE  Inv'
<1> USE DEF Inv, TypeOK, FramesAreCounted, WaitsWithoutFrames, LoopIsOrdered,
            QuiescentTeardown, LoopThreadHasLoop
<1>1. CASE OnNewSample
  BY <1>1 DEF OnNewSample, Woken
<1>2. CASE InferenceLoop
  BY <1>2 DEF InferenceLoop, InferenceSet
<1>3. CASE InferenceTake
  BY <1>3 DEF InferenceTake, InferenceSet
<1>4. CASE InferenceEnd
  BY <1>4 DEF InferenceEnd, InferenceSet
<1>5. CASE InferenceCheckFails
  BY <1>5 DEF InferenceCheckFails, InferenceSet
<1>6. CASE InferenceSleep
  BY <1>6 DEF InferenceSleep, InferenceSet
<1>7. CASE SpuriousWakeup
  BY <1>7 DEF SpuriousWakeup, InferenceSet
<1>8. CASE InferenceCapsFail
  BY <1>8 DEF InferenceCapsFail, InferenceSet
<1> QED BY <1>1, <1>2, <1>3, <1>4, <1>5, <1>6, <1>7, <1>8
        DEF InferenceThread

LEMMA NextInv ==
  ASSUME Inv, [Next]_vars
  PROVE  Inv'
<1>1. CASE UNCHANGED vars
  BY <1>1 DEF vars, Inv, TypeOK, FramesAreCounted, WaitsWithoutFrames,
              LoopIsOrdered, QuiescentTeardown, LoopThreadHasLoop
<1> QED BY <1>1, ApplicationInv, CaptureThreadInv, LoopThreadInv,
           InferenceThreadInv DEF Next

-----------------------------------------------------------------------------
(* The invariant holds in every state of every run.                         *)
THEOREM Invariance == Spec => []Inv
BY InitInv, NextInv, PTL DEF Spec

(* Type correctness: in particular no more frames are in flight, waiting or *)
(* lost than there are buffers, and dma_fd_queue keeps its limit.           *)
THEOREM TypeCorrect == Spec => []TypeOK
<1>1. Inv => TypeOK
  BY DEF Inv
<1> QED BY <1>1, Invariance, PTL

(* stop() takes the pipeline and the loop down after inference_thread ended.*)
THEOREM TeardownIsQuiescent == Spec => []QuiescentTeardown
<1>1. Inv => QuiescentTeardown
  BY DEF Inv
<1> QED BY <1>1, Invariance, PTL

(* loop_thread never uses a GMainLoop that stop() has freed.                *)
THEOREM LoopOutlivesItsThread == Spec => []LoopThreadHasLoop
<1>1. Inv => LoopThreadHasLoop
  BY DEF Inv
<1> QED BY <1>1, Invariance, PTL

(* The wakeup of an enqueued frame is never lost.                           *)
THEOREM NoSleepOverFrames == Spec => []SleepsOnlyWithoutFrames
<1>1. Inv => SleepsOnlyWithoutFrames
  BY DEF Inv, WaitsWithoutFrames, SleepsOnlyWithoutFrames
<1> QED BY <1>1, Invariance, PTL
=============================================================================
