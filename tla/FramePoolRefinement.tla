------------------------- MODULE FramePoolRefinement -------------------------
(***************************************************************************)
(* FramePipeline implements FramePool: whatever the branches, the queues,   *)
(* the failures and the order of the threads, the V4L2 buffers only see     *)
(* filling, lending, returning and being forgotten.                         *)
(***************************************************************************)
EXTENDS FramePipelineProofs

poolLent == Buffers \ (queued \cup Range(done))
poolReading == {b \in Buffers : b = pushing \/ Holders(b) > 0}

USE DEF driverVars, captureVars, teeVars, sinkVars, inferenceVars, encoderVars

(* The state functions of FramePool under the mapping.                      *)
LEMMA PoolVars ==
  ASSUME queued' = queued, done' = done, poolReading' = poolReading
  PROVE  UNCHANGED Pool!vars
BY DEF Pool!vars, poolReading, Pool!Range, Range

LEMMA PoolInit ==
  ASSUME Init
  PROVE  Pool!Init
<1>1. None \notin Buffers
  BY BuffersAssumption
<1>2. \A b \in Buffers : Holders(b) = 0 /\ b # pushing
  BY EmptyQueue, <1>1 DEF Init, Holders, Held
<1>3. poolReading = {}
  BY <1>2 DEF poolReading
<1>4. queued = Buffers /\ done = << >> /\ poolLent = {}
  BY EmptyQueue DEF Init, poolLent
<1> QED BY <1>3, <1>4 DEF Pool!Init, poolReading, poolLent

-----------------------------------------------------------------------------
(* The steps that change who reads in one buffer x at most: a stutter, or   *)
(* x is forgotten, or x is returned.                                        *)
LEMMA ReaderStep ==
  ASSUME Inv, Inv', NEW x,
         UNCHANGED <<done, pushing>>,
         queued' = queued \cup {b \in Buffers : refs[b] > 0 /\ refs'[b] = 0},
         \A b \in Buffers : Slack(b)' >= Slack(b),
         \A b \in Buffers : b # x => (Holders(b)' > 0 <=> Holders(b) > 0),
         Holders(x)' > 0 => Holders(x) > 0
  PROVE  [Pool!Next]_Pool!vars
<1>1. \A b \in Buffers : /\ refs[b] \in Nat /\ refs'[b] \in Nat
                         /\ Holders(b) \in Nat /\ Holders(b)' \in Nat
                         /\ Holders(b) <= refs[b] /\ Holders(b)' <= refs'[b]
                         /\ refs'[b] - Holders(b)' >= refs[b] - Holders(b)
  <2>1. \A b \in Buffers : Holders(b) \in Nat /\ Holders(b)' \in Nat
    BY DEF Holders, Held
  <2>2. \A b \in Buffers : refs[b] \in Nat /\ refs'[b] \in Nat
    BY DEF Inv, TypeOK
  <2>3. \A b \in Buffers : Holders(b) <= refs[b] /\ Holders(b)' <= refs'[b]
    BY DEF Inv, NoDanglingPointer
  <2> QED BY <2>1, <2>2, <2>3 DEF Slack
<1>2. \A b \in Buffers : refs[b] > 0 /\ refs'[b] = 0 =>
        b = x /\ Holders(b) > 0 /\ Holders(b)' = 0
  BY <1>1
<1>3. CASE x \in Buffers /\ Holders(x) > 0 /\ ~ (Holders(x)' > 0)
  <2>1. x \in poolReading /\ x # pushing /\ refs[x] > 0
    <3>1. refs[x] > 0
      BY <1>1, <1>3
    <3>2. Held(x, queued) + Held(x, Range(done)) + Held(x, {pushing})
            + (IF refs[x] > 0 THEN 1 ELSE 0) = 1
      BY <1>3 DEF Inv, OneOwner
    <3>3. x # pushing /\ x \notin queued /\ x \notin Range(done)
      BY <3>1, <3>2 DEF Held
    <3> QED BY <1>3, <3>1, <3>3 DEF poolReading
  <2>2. poolReading' = poolReading \ {x}
    <3>1. \A b \in Buffers :
            (b = pushing' \/ Holders(b)' > 0) <=> (b = pushing \/ Holders(b) > 0) /\ b # x
      BY <1>3, <2>1
    <3> QED BY <3>1 DEF poolReading
  <2>3. CASE refs'[x] > 0
    <3>1. queued' = queued
      BY <1>2, <2>3
    <3>2. Pool!Forget(x)
      BY <2>1, <2>2, <3>1 DEF Pool!Forget, poolReading, Pool!Range, Range
    <3> QED BY <1>3, <3>2 DEF Pool!Next
  <2>4. CASE ~ (refs'[x] > 0)
    <3>1. queued' = queued \cup {x}
      BY <1>1, <1>2, <1>3, <2>1, <2>4
    <3>2. poolLent' = poolLent \ {x}
      BY <3>1 DEF poolLent
    <3>3. Pool!Return(x)
      BY <2>1, <2>2, <3>1, <3>2
      DEF Pool!Return, poolReading, poolLent, Pool!Range, Range
    <3> QED BY <1>3, <3>3 DEF Pool!Next
  <2> QED BY <2>3, <2>4
<1>4. CASE ~ (x \in Buffers /\ Holders(x) > 0 /\ ~ (Holders(x)' > 0))
  <2>1. \A b \in Buffers : Holders(b)' > 0 <=> Holders(b) > 0
    BY <1>4
  <2>2. queued' = queued
    <3>1. \A b \in Buffers : ~ (refs[b] > 0 /\ refs'[b] = 0)
      BY <1>1, <1>2, <2>1
    <3> QED BY <3>1
  <2>3. poolReading' = poolReading
    BY <2>1 DEF poolReading
  <2> QED BY <2>2, <2>3, PoolVars
<1> QED BY <1>3, <1>4

(* The steps that move buffers from one reader to another.                  *)
LEMMA SameReaders ==
  ASSUME Inv, Inv',
         UNCHANGED <<done, pushing>>,
         queued' = queued \cup {b \in Buffers : refs[b] > 0 /\ refs'[b] = 0},
         \A b \in Buffers : Slack(b)' >= Slack(b),
         \A b \in Buffers : Holders(b)' > 0 <=> Holders(b) > 0
  PROVE  [Pool!Next]_Pool!vars
<1>1. CASE \E x \in Buffers : TRUE
  <2>1. PICK x \in Buffers : TRUE
    BY <1>1
  <2> QED BY <2>1, ReaderStep
<1>2. CASE ~ \E x \in Buffers : TRUE
  <2>1. queued' = queued /\ poolReading' = poolReading
    BY <1>2 DEF poolReading
  <2> QED BY <2>1, PoolVars
<1> QED BY <1>1, <1>2

(* What SetRefs gives back.                                                 *)
LEMMA SetRefsReturns ==
  ASSUME NEW r, SetRefs(r)
  PROVE  /\ done' = done
         /\ queued' = queued \cup {b \in Buffers : refs[b] > 0 /\ refs'[b] = 0}
BY DEF SetRefs, Released

(* No step takes references from a buffer and leaves its holders.           *)
LEMMA SlackGrows ==
  ASSUME Inv, [Next]_vars
  PROVE  \A b \in Buffers : Slack(b)' >= Slack(b)
<1>1. \A b \in Buffers : Slack(b) \in Int
  BY HoldersNat DEF Slack, Inv, TypeOK
<1>2. \/ SlackKept
      \/ \E S \in SUBSET (Buffers \cup Dropped \cup {dctx}) : Forgets(S)
  BY NextInv
<1> QED BY <1>1, <1>2 DEF SlackKept, Forgets

-----------------------------------------------------------------------------
(* The driver and appsrc_thread.                                            *)

LEMMA FillIsFill ==
  ASSUME Inv, NEW x \in Buffers, Fill(x)
  PROVE  Pool!Next
<1>1. Range(done') = Range(done) \cup {x}
  BY RangeAppend DEF Fill, Inv, TypeOK
<1>2. poolLent' = poolLent
  BY <1>1 DEF Fill, poolLent
<1>3. poolReading' = poolReading
  BY DEF Fill, poolReading, Holders, Held
<1>4. Pool!Fill(x)
  BY <1>2, <1>3 DEF Fill, Pool!Fill, poolLent, poolReading, Pool!Range, Range
<1> QED BY <1>4 DEF Pool!Next

LEMMA DequeueIsLend ==
  ASSUME Inv, Dequeue
  PROVE  Pool!Next
<1> DEFINE x == Head(done)
<1>1. /\ x \in Buffers /\ x \in Range(done)
      /\ Range(Tail(done)) = Range(done) \ {x}
      /\ None \notin Buffers
  BY BuffersAssumption, TailInjection DEF Dequeue, Inv, TypeOK, Distinct
<1>2. x \notin queued
  <2>1. Held(x, queued) + Held(x, Range(done)) + Held(x, {pushing})
          + (IF refs[x] > 0 THEN 1 ELSE 0) = 1
    BY <1>1 DEF Inv, OneOwner
  <2> QED BY <1>1, <2>1 DEF Held
<1>3. poolLent' = poolLent \cup {x}
  BY <1>1, <1>2 DEF Dequeue, poolLent
<1>4. poolReading' = poolReading \cup {x}
  BY <1>1 DEF Dequeue, poolReading, Holders, Held
<1>5. Pool!Lend
  BY <1>3, <1>4 DEF Dequeue, Pool!Lend, poolLent, poolReading, Pool!Range, Range
<1> QED BY <1>5 DEF Pool!Next

LEMMA PushFrameStutters ==
  ASSUME Inv, PushFrame
  PROVE  UNCHANGED Pool!vars
<1>1. /\ pushing \in Buffers /\ refs[pushing] = 0 /\ None \notin Buffers
  BY BuffersAssumption, PushingIsFree DEF PushFrame, Inv
<1>2. \A b \in Buffers : refs'[b] >= refs[b] /\ refs[b] \in Nat
  BY <1>1 DEF PushFrame, SetRefs, Ref, Inv, TypeOK
<1>3. queued' = queued /\ done' = done
  <2>1. \A b \in Buffers : ~ (refs[b] > 0 /\ refs'[b] = 0)
    BY <1>2
  <2> QED BY <2>1, SetRefsReturns DEF PushFrame
<1>4. Range(appsrc_queue') = Range(appsrc_queue) \cup {pushing}
  BY <1>1, RangeAppend DEF PushFrame, Inv, TypeOK
<1>5. poolReading' = poolReading
  BY <1>1, <1>4 DEF PushFrame, poolReading, Holders, Held
<1> QED BY <1>3, <1>5, PoolVars

LEMMA PushFailsReturns ==
  ASSUME Inv, PushFails
  PROVE  Pool!Next
<1>1. /\ pushing \in Buffers /\ Holders(pushing) = 0 /\ None \notin Buffers
      /\ pushing \notin Range(done)
  BY BuffersAssumption, PushingIsFree DEF PushFails, Inv
<1>2. poolLent' = poolLent \ {pushing}
  BY DEF PushFails, poolLent
<1>3. poolReading' = poolReading \ {pushing}
  <2>1. \A b \in Buffers : Holders(b)' = Holders(b)
    BY DEF PushFails, Holders, Held
  <2> QED BY <1>1, <2>1 DEF PushFails, poolReading
<1>4. pushing \in poolReading
  BY <1>1 DEF poolReading
<1>5. PICK x \in Buffers : x = pushing
  BY <1>1
<1>6. Pool!Return(x)
  BY <1>1, <1>2, <1>3, <1>4, <1>5
  DEF PushFails, Pool!Return, poolLent, poolReading, Pool!Range, Range
<1> QED BY <1>6 DEF Pool!Next

-----------------------------------------------------------------------------
(* The pipeline: each step takes at most one buffer from its last reader.   *)

LEMMA TeeStep ==
  ASSUME Inv, Tee
  PROVE  [Pool!Next]_Pool!vars
<1>1. Inv' /\ \A b \in Buffers : Slack(b)' >= Slack(b)
  BY NextInv, SlackGrows DEF Next
<1>2. None \notin Buffers
  BY BuffersAssumption
<1>3. CASE TeeTake
  <2>1. Range(appsrc_queue) = Range(appsrc_queue') \cup {tee'}
    BY <1>3, TailInjection DEF TeeTake, Inv, TypeOK, Distinct
  <2>2. \A b \in Buffers : Holders(b)' > 0 <=> Holders(b) > 0
    BY <1>2, <1>3, <2>1 DEF TeeTake, Holders, Held
  <2>3. UNCHANGED <<driverVars, pushing, refs>>
    BY <1>3 DEF TeeTake
  <2>4. queued' = queued \cup {b \in Buffers : refs[b] > 0 /\ refs'[b] = 0}
    BY <2>3
  <2> QED BY <1>1, <2>2, <2>3, <2>4, SameReaders
<1>4. CASE TeePushRga
  <2>1. tee \in Buffers /\ Range(rga_queue') = Range(rga_queue) \cup {tee}
    BY <1>4, RangeAppend DEF TeePushRga, Inv, TypeOK
  <2>2. \A b \in Buffers : Holders(b)' > 0 <=> Holders(b) > 0
    BY <1>2, <1>4, <2>1 DEF TeePushRga, Holders, Held
  <2>3. /\ UNCHANGED <<done, pushing>>
        /\ queued' = queued \cup {b \in Buffers : refs[b] > 0 /\ refs'[b] = 0}
    BY <1>4, SetRefsReturns DEF TeePushRga
  <2> QED BY <1>1, <2>2, <2>3, SameReaders
<1>5. CASE TeePushTrans
  <2>1. tee \in Buffers /\ Range(trans_queue') = Range(trans_queue) \cup {tee}
    BY <1>5, RangeAppend DEF TeePushTrans, Inv, TypeOK
  <2>2. \A b \in Buffers : Holders(b)' > 0 <=> Holders(b) > 0
    BY <1>2, <1>5, <2>1 DEF TeePushTrans, Holders, Held
  <2>3. /\ UNCHANGED <<done, pushing>>
        /\ queued' = queued \cup {b \in Buffers : refs[b] > 0 /\ refs'[b] = 0}
    BY <1>5, SetRefsReturns DEF TeePushTrans
  <2> QED BY <1>1, <2>2, <2>3, SameReaders
<1> QED BY <1>3, <1>4, <1>5 DEF Tee

LEMMA SinkStep ==
  ASSUME Inv, Sink
  PROVE  [Pool!Next]_Pool!vars
<1>1. Inv' /\ \A b \in Buffers : Slack(b)' >= Slack(b)
  BY NextInv, SlackGrows DEF Next
<1>2. None \notin Buffers
  BY BuffersAssumption
<1>3. CASE Render
  <2>1. Range(rga_queue) = Range(rga_queue') \cup {rendering'}
    BY <1>3, TailInjection DEF Render, Inv, TypeOK, Distinct
  <2>2. \A b \in Buffers :
          /\ b # last_sample => (Holders(b)' > 0 <=> Holders(b) > 0)
          /\ Holders(b)' > 0 => Holders(b) > 0
    BY <1>2, <1>3, <2>1 DEF Render, Holders, Held
  <2>3. /\ UNCHANGED <<done, pushing>>
        /\ queued' = queued \cup {b \in Buffers : refs[b] > 0 /\ refs'[b] = 0}
    BY <1>3, SetRefsReturns DEF Render
  <2>4. CASE last_sample \in Buffers
    BY <1>1, <2>2, <2>3, <2>4, ReaderStep
  <2>5. CASE last_sample = None
    <3>1. \A b \in Buffers : Holders(b)' > 0 <=> Holders(b) > 0
      BY <1>2, <2>2, <2>5
    <3> QED BY <1>1, <2>3, <3>1, SameReaders
  <2> QED BY <2>4, <2>5 DEF Inv, TypeOK
<1>4. CASE OnNewSample
  <2>1. /\ rendering \in Buffers
        /\ Dropped \subseteq Range(dma_fd_queue)
        /\ Range(dma_fd_queue') = (Range(dma_fd_queue) \ Dropped) \cup {rendering}
    <3>1. rendering \in Buffers /\ DropOldest(dma_fd_queue) \in Seq(Buffers)
      BY <1>4, DropOldestFacts DEF OnNewSample, Inv, TypeOK
    <3> QED BY <1>4, <3>1, DropOldestFacts, RangeAppend DEF OnNewSample, Inv
  <2>2. \A b \in Buffers :
          /\ b \notin Dropped => (Holders(b)' > 0 <=> Holders(b) > 0)
          /\ Holders(b)' > 0 => Holders(b) > 0
    BY <1>2, <1>4, <2>1 DEF OnNewSample, Holders, Held
  <2>3. /\ UNCHANGED <<done, pushing>>
        /\ queued' = queued \cup {b \in Buffers : refs[b] > 0 /\ refs'[b] = 0}
    BY <1>4, SetRefsReturns DEF OnNewSample
  <2>4. CASE Dropped = {}
    BY <1>1, <2>1, <2>2, <2>3, <2>4, ReaderStep
  <2>5. CASE Dropped # {}
    <3>1. PICK x \in Buffers : Dropped = {x}
      BY <2>5, DropOldestFacts DEF Dropped, Inv
    <3> QED BY <1>1, <2>2, <2>3, <3>1, ReaderStep
  <2> QED BY <2>4, <2>5
<1>5. CASE OnNewSampleReturn
  <2>1. pulled \in Buffers /\ rendering = pulled
    BY <1>2, <1>5 DEF OnNewSampleReturn, Inv, TypeOK, Ahead
  <2>2. \A b \in Buffers :
          /\ b # pulled => (Holders(b)' > 0 <=> Holders(b) > 0)
          /\ Holders(b)' > 0 => Holders(b) > 0
    BY <1>2, <1>5, <2>1 DEF OnNewSampleReturn, Holders, Held
  <2>3. /\ UNCHANGED <<done, pushing>>
        /\ queued' = queued \cup {b \in Buffers : refs[b] > 0 /\ refs'[b] = 0}
    BY <1>5, SetRefsReturns DEF OnNewSampleReturn
  <2> QED BY <1>1, <2>1, <2>2, <2>3, ReaderStep
<1> QED BY <1>3, <1>4, <1>5 DEF Sink

LEMMA InferenceStep ==
  ASSUME Inv, TakeFrame \/ CapsFail \/ ScaleFail \/ InferenceDone
  PROVE  [Pool!Next]_Pool!vars
<1>1. Inv' /\ \A b \in Buffers : Slack(b)' >= Slack(b)
  BY NextInv, SlackGrows DEF Next, Inference
<1>2. None \notin Buffers
  BY BuffersAssumption
<1>3. CASE TakeFrame
  <2>1. /\ Range(dma_fd_queue) = Range(dma_fd_queue') \cup {dctx'}
        /\ dctx = None /\ dctx' \in Buffers
    BY <1>3, TailInjection DEF TakeFrame, Inv, TypeOK, Distinct, Ahead
  <2>2. \A b \in Buffers : Holders(b)' > 0 <=> Holders(b) > 0
    BY <1>2, <1>3, <2>1 DEF TakeFrame, Holders, Held
  <2>3. UNCHANGED <<driverVars, pushing, refs>>
    BY <1>3 DEF TakeFrame
  <2>4. queued' = queued \cup {b \in Buffers : refs[b] > 0 /\ refs'[b] = 0}
    BY <2>3
  <2> QED BY <1>1, <2>1, <2>2, <2>3, <2>4, ReaderStep
<1>4. CASE CapsFail
  <2>1. \A b \in Buffers :
          /\ b # dctx => (Holders(b)' > 0 <=> Holders(b) > 0)
          /\ Holders(b)' > 0 => Holders(b) > 0
    BY <1>2, <1>4 DEF CapsFail, Holders, Held
  <2>2. UNCHANGED <<driverVars, pushing, refs>>
    BY <1>4 DEF CapsFail
  <2>3. queued' = queued \cup {b \in Buffers : refs[b] > 0 /\ refs'[b] = 0}
    BY <2>2
  <2>4. Holders(dctx)' > 0 => Holders(dctx) > 0
    BY <1>4 DEF CapsFail, Holders, Held
  <2> QED BY <1>1, <2>1, <2>2, <2>3, <2>4, ReaderStep
<1>5. CASE ScaleFail \/ InferenceDone
  <2>1. \A b \in Buffers :
          /\ b # dctx => (Holders(b)' > 0 <=> Holders(b) > 0)
          /\ Holders(b)' > 0 => Holders(b) > 0
    BY <1>2, <1>5 DEF ScaleFail, InferenceDone, Holders, Held
  <2>2. /\ UNCHANGED <<done, pushing>>
        /\ queued' = queued \cup {b \in Buffers : refs[b] > 0 /\ refs'[b] = 0}
    BY <1>5, SetRefsReturns DEF ScaleFail, InferenceDone
  <2>3. Holders(dctx)' > 0 => Holders(dctx) > 0
    BY <1>5 DEF ScaleFail, InferenceDone, Holders, Held
  <2> QED BY <1>1, <2>1, <2>2, <2>3, ReaderStep
<1> QED BY <1>3, <1>4, <1>5

LEMMA EncoderStep ==
  ASSUME Inv, Encoder
  PROVE  [Pool!Next]_Pool!vars
<1>1. Inv' /\ \A b \in Buffers : Slack(b)' >= Slack(b)
  BY NextInv, SlackGrows DEF Next
<1>2. CASE ProbeCalled
  <2>1. PICK x \in Buffers : /\ Range(trans_queue) = Range(trans_queue') \cup {x}
                             /\ probing = None /\ probing' = x
    <3>1. /\ Head(trans_queue) \in Buffers
          /\ Range(trans_queue) = Range(trans_queue') \cup {Head(trans_queue)}
      BY <1>2, TailInjection DEF ProbeCalled, Inv, TypeOK, Distinct
    <3> QED BY <1>2, <3>1 DEF ProbeCalled
  <2>2. \A b \in Buffers : Holders(b)' > 0 <=> Holders(b) > 0
    BY <1>2, <2>1, BuffersAssumption DEF ProbeCalled, Holders, Held
  <2>3. UNCHANGED <<driverVars, pushing, refs>>
    BY <1>2 DEF ProbeCalled
  <2>4. queued' = queued \cup {b \in Buffers : refs[b] > 0 /\ refs'[b] = 0}
    BY <2>3
  <2> QED BY <1>1, <2>2, <2>3, <2>4, SameReaders
<1>4. CASE Probe
  <2>1. \A b \in Buffers : Holders(b)' > 0 <=> Holders(b) > 0
    BY <1>4, BuffersAssumption DEF Probe, Holders, Held
  <2>2. UNCHANGED <<driverVars, pushing, refs>>
    BY <1>4 DEF Probe
  <2>3. queued' = queued \cup {b \in Buffers : refs[b] > 0 /\ refs'[b] = 0}
    BY <2>2
  <2> QED BY <1>1, <2>1, <2>2, <2>3, SameReaders
<1>3. ASSUME NEW x \in Buffers, Encoded(x)
      PROVE  [Pool!Next]_Pool!vars
  <2>1. \A b \in Buffers :
          /\ b # x => (Holders(b)' > 0 <=> Holders(b) > 0)
          /\ Holders(b)' > 0 => Holders(b) > 0
    BY <1>3 DEF Encoded, Holders, Held
  <2>2. /\ UNCHANGED <<done, pushing>>
        /\ queued' = queued \cup {b \in Buffers : refs[b] > 0 /\ refs'[b] = 0}
    BY <1>3, SetRefsReturns DEF Encoded
  <2> QED BY <1>1, <1>3, <2>1, <2>2, ReaderStep
<1> QED BY <1>2, <1>3, <1>4 DEF Encoder

LEMMA IdleStutters ==
  ASSUME Idle
  PROVE  UNCHANGED Pool!vars
<1>1. UNCHANGED frames
  BY DEF Idle, LeaveCapture, ModelReady, WaitForFrame, SpuriousWakeup,
         LeaveInference, Infer, PushBox, vars, frames
<1>2. poolReading' = poolReading
  BY <1>1 DEF frames, poolReading, Holders, Held
<1> QED BY <1>1, <1>2, PoolVars DEF frames

(* Every step of the pipeline is a step of the pool or leaves it alone.     *)
LEMMA PoolStep ==
  ASSUME Inv, [Next]_vars
  PROVE  [Pool!Next]_Pool!vars
<1>1. CASE \E b \in Buffers : Fill(b)
  BY <1>1, FillIsFill
<1>2. CASE Dequeue \/ PushFrame \/ PushFails
  BY <1>2, DequeueIsLend, PushFrameStutters, PushFailsReturns
<1>3. CASE Tee \/ Sink \/ Encoder
  BY <1>3, TeeStep, SinkStep, EncoderStep
<1>4. CASE TakeFrame \/ CapsFail \/ ScaleFail \/ InferenceDone
  BY <1>4, InferenceStep
<1>5. CASE Idle
  BY <1>5, IdleStutters
<1> QED BY <1>1, <1>2, <1>3, <1>4, <1>5
        DEF Next, Capture, Inference, Idle

(* FramePipeline implements FramePool: a buffer is filled only when it is   *)
(* empty, lent in capture order, and given back by its last reader or lost. *)
THEOREM Implementation == Spec => PoolSpec
<1>1. Inv /\ [Next]_vars => [Pool!Next]_Pool!vars
  BY PoolStep
<1> QED BY PoolInit, Invariance, <1>1, PTL DEF Spec, PoolSpec, Pool!Spec

=============================================================================
