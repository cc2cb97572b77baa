------------------------- MODULE FramePipelineProofs -------------------------
(***************************************************************************)
(* Proofs about FramePipeline, for every number of buffers, every backlog   *)
(* limit and queue capacity, and every set of faults.                       *)
(***************************************************************************)
EXTENDS FramePipeline, TLAPS, FiniteSetTheorems

-----------------------------------------------------------------------------
(* Queues without repetition, and what enters and leaves them.              *)

(* Append adds its element to the range.                                    *)
LEMMA RangeAppend ==
  ASSUME NEW S, NEW q \in Seq(S), NEW x \in S
  PROVE  /\ Append(q, x) \in Seq(S)
         /\ Len(Append(q, x)) = Len(q) + 1
         /\ Range(Append(q, x)) = Range(q) \cup {x}
<1>1. /\ Append(q, x) \in Seq(S)
      /\ Len(Append(q, x)) = Len(q) + 1
      /\ DOMAIN Append(q, x) = 1 .. Len(q) + 1
      /\ \A i \in 1 .. Len(q) : Append(q, x)[i] = q[i]
      /\ Append(q, x)[Len(q) + 1] = x
  OBVIOUS
<1>2. Range(Append(q, x)) \subseteq Range(q) \cup {x}
  BY <1>1 DEF Range
<1>3. Range(q) \subseteq Range(Append(q, x))
  BY <1>1 DEF Range
<1>4. x \in Range(Append(q, x))
  <2>1. Len(q) + 1 \in 1 .. Len(q) + 1
    OBVIOUS
  <2> QED BY <1>1, <2>1 DEF Range
<1> QED BY <1>1, <1>2, <1>3, <1>4

(* A new element keeps a queue without repetition.                          *)
LEMMA AppendInjection ==
  ASSUME NEW S, NEW q \in Seq(S), IsInjective(q), NEW x \in S, x \notin Range(q)
  PROVE  IsInjective(Append(q, x))
<1>1. /\ DOMAIN Append(q, x) = 1 .. Len(q) + 1
      /\ \A i \in 1 .. Len(q) : Append(q, x)[i] = q[i]
      /\ Append(q, x)[Len(q) + 1] = x
  OBVIOUS
<1>2. \A i \in 1 .. Len(q) : q[i] # x
  BY DEF Range
<1>3. SUFFICES ASSUME NEW i \in 1 .. Len(q) + 1, NEW j \in 1 .. Len(q) + 1,
                      Append(q, x)[i] = Append(q, x)[j]
               PROVE  i = j
  BY <1>1 DEF IsInjective
<1>4. \A a, b \in 1 .. Len(q) : q[a] = q[b] => a = b
  BY DEF IsInjective
<1> QED BY <1>1, <1>2, <1>3, <1>4

(* The head of a queue without repetition leaves its range for good.        *)
LEMMA TailInjection ==
  ASSUME NEW S, NEW q \in Seq(S), q # << >>, IsInjective(q)
  PROVE  /\ Head(q) \in S
         /\ Head(q) \in Range(q)
         /\ Tail(q) \in Seq(S)
         /\ Len(Tail(q)) = Len(q) - 1
         /\ Range(Tail(q)) = Range(q) \ {Head(q)}
         /\ IsInjective(Tail(q))
<1>1. /\ Head(q) = q[1]
      /\ Len(q) \in Nat /\ Len(q) >= 1
      /\ q[1] \in S
      /\ Tail(q) \in Seq(S)
      /\ Len(Tail(q)) = Len(q) - 1
      /\ DOMAIN q = 1 .. Len(q)
      /\ DOMAIN Tail(q) = 1 .. Len(q) - 1
      /\ \A i \in 1 .. Len(q) - 1 : Tail(q)[i] = q[i + 1]
  OBVIOUS
<1>2. \A i, j \in 1 .. Len(q) : q[i] = q[j] => i = j
  BY <1>1 DEF IsInjective
<1>3. Head(q) \in Range(q)
  BY <1>1 DEF Range
<1>4. Range(Tail(q)) \subseteq Range(q) \ {Head(q)}
  <2>1. SUFFICES ASSUME NEW i \in 1 .. Len(q) - 1
                 PROVE  Tail(q)[i] \in Range(q) /\ Tail(q)[i] # Head(q)
    BY <1>1 DEF Range
  <2>2. i + 1 \in 1 .. Len(q) /\ i + 1 # 1 /\ 1 \in 1 .. Len(q)
    BY <1>1
  <2> QED BY <1>1, <1>2, <2>2 DEF Range
<1>5. Range(q) \ {Head(q)} \subseteq Range(Tail(q))
  <2>1. SUFFICES ASSUME NEW i \in 1 .. Len(q), q[i] # Head(q)
                 PROVE  q[i] \in Range(Tail(q))
    BY <1>1 DEF Range
  <2>2. i - 1 \in 1 .. Len(q) - 1 /\ (i - 1) + 1 = i
    BY <1>1, <2>1
  <2>3. Tail(q)[i - 1] = q[i]
    BY <1>1, <2>2
  <2> QED BY <1>1, <2>2, <2>3 DEF Range
<1>6. IsInjective(Tail(q))
  <2>1. SUFFICES ASSUME NEW i \in 1 .. Len(q) - 1, NEW j \in 1 .. Len(q) - 1,
                        Tail(q)[i] = Tail(q)[j]
                 PROVE  i = j
    BY <1>1 DEF IsInjective
  <2>2. q[i + 1] = q[j + 1] /\ i + 1 \in 1 .. Len(q) /\ j + 1 \in 1 .. Len(q)
    BY <1>1, <2>1
  <2> QED BY <1>1, <1>2, <2>2
<1> QED BY <1>1, <1>3, <1>4, <1>5, <1>6

LEMMA EmptyQueue ==
  Range(<< >>) = {} /\ IsInjective(<< >>)
BY DEF Range, IsInjective

-----------------------------------------------------------------------------
(* The inductive invariant.                                                 *)

(* No frame waits twice in one queue.                                       *)
Distinct ==
  /\ IsInjective(done)
  /\ IsInjective(appsrc_queue)
  /\ IsInjective(rga_queue)
  /\ IsInjective(dma_fd_queue)
  /\ IsInjective(trans_queue)

(* Before the tee splits it, a frame has one reference.                     *)
Fresh ==
  /\ \A b \in Range(appsrc_queue) : refs[b] = 1
  /\ tee # None /\ tee_next = "rga" => refs[tee] = 1

(* A frame has not yet been where it is going.                              *)
Ahead ==
  /\ tee # None /\ tee_next = "trans" =>
       tee \notin Range(trans_queue) /\ tee # probing /\ tee \notin encoding
  /\ \A b \in Range(trans_queue) : b # probing /\ b \notin encoding
  /\ probing \notin encoding
  /\ \A b \in Range(rga_queue) :
       b # rendering /\ b \notin Range(dma_fd_queue) /\ b # dctx
  /\ pulled = None \/ pulled = rendering
  /\ rendering # None /\ pulled = None =>
       rendering \notin Range(dma_fd_queue) /\ rendering # dctx
  /\ dctx \notin Range(dma_fd_queue)
  /\ inference \notin {"scale", "run"} => dctx = None

(* References to b that nobody will drop.                                   *)
Slack(b) == refs[b] - Holders(b)

(* A frame that waits for inference or is in it has no such reference.      *)
Exact ==
  \A b \in Buffers :
    \/ b \in Range(rga_queue)
    \/ b = rendering /\ pulled = None
    \/ b \in Range(dma_fd_queue)
    \/ b = dctx
    => Slack(b) = 0

Inv ==
  /\ TypeOK /\ Distinct /\ NoDanglingPointer /\ OneOwner
  /\ Fresh /\ Ahead /\ Exact

(* What most steps do to the references: each that appears or goes has its  *)
(* holder.                                                                  *)
SlackKept == \A b \in Buffers : Slack(b)' = Slack(b)

(* What the others do: the buffers in S lose a holder, and the reference    *)
(* stays.                                                                   *)
Forgets(S) ==
  \A b \in Buffers : Slack(b)' = Slack(b) + (IF b \in S THEN 1 ELSE 0)

(* The sample that on_new_sample drops, if it drops one.                    *)
Dropped ==
  IF Len(dma_fd_queue) > BacklogLimit THEN {Head(dma_fd_queue)} ELSE {}

(* A holder has a reference.                                                *)
LEMMA HolderHasRef ==
  ASSUME TypeOK, NoDanglingPointer, NEW b \in Buffers,
         \/ b \in Range(appsrc_queue) \/ b = tee \/ b \in Range(rga_queue)
         \/ b = rendering \/ b = pulled \/ b = last_sample
         \/ b \in Range(dma_fd_queue) \/ b = dctx
         \/ b \in Range(trans_queue) \/ b = probing \/ b \in encoding
  PROVE  refs[b] > 0
<1>1. refs[b] \in Nat /\ Holders(b) <= refs[b]
  BY DEF TypeOK, NoDanglingPointer
<1>2. Holders(b) >= 1
  BY DEF Holders, Held
<1>3. Holders(b) \in Nat
  BY DEF Holders, Held
<1> QED BY <1>1, <1>2, <1>3

(* A frame with one reference is in one place.                              *)
LEMMA OneRefOnePlace ==
  ASSUME TypeOK, NoDanglingPointer, NEW b \in Buffers, refs[b] = 1,
         b \in Range(appsrc_queue) \/ b = tee
  PROVE  /\ ~ (b \in Range(appsrc_queue) /\ b = tee)
         /\ b \notin Range(rga_queue) /\ b # rendering /\ b # pulled
         /\ b # last_sample /\ b \notin Range(dma_fd_queue) /\ b # dctx
         /\ b \notin Range(trans_queue) /\ b # probing /\ b \notin encoding
<1>1. Holders(b) <= 1
  BY DEF TypeOK, NoDanglingPointer
<1> QED BY <1>1 DEF Holders, Held

(* Giving released buffers back keeps every buffer in one place.            *)
LEMMA SetRefsOwner ==
  ASSUME TypeOK, OneOwner, NEW r \in [Buffers -> Nat], SetRefs(r),
         \A b \in Buffers : r[b] > 0 => refs[b] > 0,
         pushing' = pushing
  PROVE  /\ OneOwner'
         /\ queued' \in SUBSET Buffers
         /\ refs' \in [Buffers -> Nat]
         /\ done' = done
<1>1. /\ refs' = r /\ done' = done
      /\ queued' = queued \cup {b \in Buffers : refs[b] > 0 /\ r[b] = 0}
  BY DEF SetRefs, Released
<1>2. OneOwner'
  <2>1. SUFFICES ASSUME NEW b \in Buffers
                 PROVE  Held(b, queued') + Held(b, Range(done')) + Held(b, {pushing'})
                          + (IF refs'[b] > 0 THEN 1 ELSE 0) = 1
    BY DEF OneOwner
  <2>2. Held(b, queued) + Held(b, Range(done)) + Held(b, {pushing})
          + (IF refs[b] > 0 THEN 1 ELSE 0) = 1
    BY DEF OneOwner
  <2>3. refs[b] \in Nat /\ r[b] \in Nat
    BY DEF TypeOK
  <2> QED BY <1>1, <2>2, <2>3 DEF Held
<1> QED BY <1>1, <1>2 DEF TypeOK

USE DEF driverVars, captureVars, teeVars, sinkVars, inferenceVars, encoderVars

LEMMA HoldersNat ==
  ASSUME NEW b
  PROVE  Holders(b) \in Nat
BY DEF Holders, Held

(* References that keep their holders keep the pointers valid.              *)
LEMMA SlackGivesPointers ==
  ASSUME TypeOK, NoDanglingPointer, TypeOK',
         SlackKept \/ \E S \in SUBSET Buffers : Forgets(S)
  PROVE  NoDanglingPointer'
<1>1. SUFFICES ASSUME NEW b \in Buffers PROVE Holders(b)' <= refs'[b]
  BY DEF NoDanglingPointer
<1>2. Holders(b) <= refs[b] /\ refs[b] \in Nat /\ refs'[b] \in Nat
  BY DEF NoDanglingPointer, TypeOK
<1>3. Holders(b) \in Nat /\ Holders(b)' \in Nat
  BY DEF Holders, Held
<1>4. refs'[b] - Holders(b)' >= refs[b] - Holders(b)
  <2>1. CASE SlackKept
    BY <1>2, <1>3, <2>1 DEF SlackKept, Slack
  <2>2. CASE \E S \in SUBSET Buffers : Forgets(S)
    <3>1. PICK S \in SUBSET Buffers : Forgets(S)
      BY <2>2
    <3> QED BY <1>2, <1>3, <3>1 DEF Forgets, Slack
  <2> QED BY <2>1, <2>2
<1> QED BY <1>2, <1>3, <1>4

(* What dropping a reference does to the counts.                            *)
LEMMA UnrefFacts ==
  ASSUME NEW r \in [Buffers -> Nat], NEW x \in Buffers \cup {None},
         x # None => r[x] > 0
  PROVE  /\ Unref(r, x) \in [Buffers -> Nat]
         /\ \A b \in Buffers : Unref(r, x)[b] = r[b] - (IF b = x THEN 1 ELSE 0)
<1>1. CASE x = None
  BY <1>1, BuffersAssumption DEF Unref
<1>2. CASE x # None
  <2>1. x \in Buffers /\ r[x] \in Nat /\ r[x] > 0
    BY <1>2
  <2>2. Unref(r, x) = [r EXCEPT ![x] = r[x] - 1] /\ r[x] - 1 \in Nat
    BY <1>2, <2>1 DEF Unref
  <2> QED BY <2>1, <2>2
<1> QED BY <1>1, <1>2

(* A frame on its way to the tee, or in it, is nowhere else.                *)
LEMMA FreshIsAlone ==
  ASSUME TypeOK, NoDanglingPointer, Fresh, NEW b,
         b \in Range(appsrc_queue) \/ (b = tee /\ tee # None /\ tee_next = "rga")
  PROVE  /\ b \in Buffers /\ refs[b] = 1
         /\ ~ (b \in Range(appsrc_queue) /\ b = tee)
         /\ b \notin Range(rga_queue) /\ b # rendering /\ b # pulled
         /\ b # last_sample /\ b \notin Range(dma_fd_queue) /\ b # dctx
         /\ b \notin Range(trans_queue) /\ b # probing /\ b \notin encoding
<1>1. b \in Buffers
  BY DEF TypeOK, Range
<1>2. refs[b] = 1
  BY DEF Fresh
<1> QED BY <1>1, <1>2, OneRefOnePlace

LEMMA InitInv ==
  Init => Inv
<1> SUFFICES ASSUME Init PROVE Inv
  OBVIOUS
<1>1. TypeOK
  BY BoundsAssumption, EmptyQueue DEF Init, TypeOK
<1>2. Distinct
  BY EmptyQueue DEF Init, Distinct
<1>3. None \notin Buffers
  BY BuffersAssumption
<1>4. \A b \in Buffers : refs[b] = 0 /\ Holders(b) = 0
  BY EmptyQueue, <1>3 DEF Init, Holders, Held
<1>5. NoDanglingPointer /\ Exact
  BY <1>4 DEF NoDanglingPointer, Exact, Slack
<1>6. OneOwner
  BY EmptyQueue, <1>3 DEF Init, OneOwner, Held
<1>7. Fresh /\ Ahead
  BY EmptyQueue DEF Init, Fresh, Ahead
<1> QED BY <1>1, <1>2, <1>5, <1>6, <1>7 DEF Inv

-----------------------------------------------------------------------------
(* The device and appsrc_thread.                                            *)

LEMMA FillInv ==
  ASSUME Inv, NEW x \in Buffers, Fill(x)
  PROVE  Inv' /\ SlackKept
<1> USE DEF Inv
<1>1. /\ x \in queued /\ x \notin Range(done)
      /\ refs[x] = 0
  <2>1. Held(x, queued) + Held(x, Range(done)) + Held(x, {pushing})
          + (IF refs[x] > 0 THEN 1 ELSE 0) = 1
    BY DEF OneOwner
  <2>2. refs[x] \in Nat /\ x \in queued
    BY DEF Fill, TypeOK
  <2> QED BY <2>1, <2>2 DEF Held
<1>2. /\ Append(done, x) \in Seq(Buffers)
      /\ Range(Append(done, x)) = Range(done) \cup {x}
      /\ IsInjective(Append(done, x))
  BY <1>1, RangeAppend, AppendInjection DEF TypeOK, Distinct
<1>3. TypeOK' /\ Distinct'
  BY <1>2 DEF Fill, TypeOK, Distinct
<1>4. SlackKept
  BY DEF Fill, SlackKept, Slack, Holders, Held
<1>5. NoDanglingPointer'
  BY <1>3, <1>4, SlackGivesPointers
<1>6. OneOwner'
  <2>1. SUFFICES ASSUME NEW b \in Buffers
                 PROVE  Held(b, queued') + Held(b, Range(done')) + Held(b, {pushing'})
                          + (IF refs'[b] > 0 THEN 1 ELSE 0) = 1
    BY DEF OneOwner
  <2>2. Held(b, queued) + Held(b, Range(done)) + Held(b, {pushing})
          + (IF refs[b] > 0 THEN 1 ELSE 0) = 1
    BY DEF OneOwner
  <2> QED BY <1>1, <1>2, <2>2 DEF Fill, Held
<1>7. Fresh' /\ Ahead'
  BY DEF Fill, Fresh, Ahead
<1>8. Exact'
  BY <1>4 DEF Fill, Exact, SlackKept
<1> QED BY <1>3, <1>4, <1>5, <1>6, <1>7, <1>8

LEMMA DequeueInv ==
  ASSUME Inv, Dequeue
  PROVE  Inv' /\ SlackKept
<1> USE DEF Inv
<1>1. /\ Head(done) \in Buffers /\ Head(done) \in Range(done)
      /\ Tail(done) \in Seq(Buffers)
      /\ Range(Tail(done)) = Range(done) \ {Head(done)}
      /\ IsInjective(Tail(done))
  BY TailInjection DEF Dequeue, TypeOK, Distinct
<1>2. None \notin Buffers
  BY BuffersAssumption
<1>3. TypeOK' /\ Distinct'
  BY <1>1 DEF Dequeue, TypeOK, Distinct
<1>4. SlackKept
  BY DEF Dequeue, SlackKept, Slack, Holders, Held
<1>5. NoDanglingPointer'
  BY <1>3, <1>4, SlackGivesPointers
<1>6. OneOwner'
  <2>1. SUFFICES ASSUME NEW b \in Buffers
                 PROVE  Held(b, queued') + Held(b, Range(done')) + Held(b, {pushing'})
                          + (IF refs'[b] > 0 THEN 1 ELSE 0) = 1
    BY DEF OneOwner
  <2>2. Held(b, queued) + Held(b, Range(done)) + Held(b, {pushing})
          + (IF refs[b] > 0 THEN 1 ELSE 0) = 1
    BY DEF OneOwner
  <2> QED BY <1>1, <1>2, <2>2 DEF Dequeue, Held
<1>7. Fresh' /\ Ahead'
  BY DEF Dequeue, Fresh, Ahead
<1>8. Exact'
  BY <1>4 DEF Dequeue, Exact, SlackKept
<1> QED BY <1>3, <1>4, <1>5, <1>6, <1>7, <1>8

(* The frame that is being pushed is in no other hands.                     *)
LEMMA PushingIsFree ==
  ASSUME TypeOK, NoDanglingPointer, OneOwner, pushing # None
  PROVE  /\ pushing \in Buffers /\ refs[pushing] = 0 /\ Holders(pushing) = 0
         /\ pushing \notin queued /\ pushing \notin Range(done)
<1>1. pushing \in Buffers /\ refs[pushing] \in Nat /\ Holders(pushing) <= refs[pushing]
  BY DEF TypeOK, NoDanglingPointer
<1>2. Held(pushing, queued) + Held(pushing, Range(done)) + Held(pushing, {pushing})
        + (IF refs[pushing] > 0 THEN 1 ELSE 0) = 1
  BY <1>1 DEF OneOwner
<1>3. Holders(pushing) \in Nat
  BY HoldersNat
<1> QED BY <1>1, <1>2, <1>3 DEF Held

LEMMA PushFrameInv ==
  ASSUME Inv, PushFrame
  PROVE  Inv' /\ SlackKept
<1> USE DEF Inv
<1> DEFINE x == pushing
<1>1. /\ x \in Buffers /\ refs[x] = 0 /\ Holders(x) = 0
      /\ x \notin queued /\ x \notin Range(done)
      /\ None \notin Buffers
  BY BuffersAssumption, PushingIsFree DEF PushFrame
<1>2. x \notin Range(appsrc_queue) /\ x # tee
  BY <1>1 DEF Holders, Held
<1>3. /\ Append(appsrc_queue, x) \in Seq(Buffers)
      /\ Range(Append(appsrc_queue, x)) = Range(appsrc_queue) \cup {x}
      /\ IsInjective(Append(appsrc_queue, x))
  BY <1>1, <1>2, RangeAppend, AppendInjection DEF TypeOK, Distinct
<1>4. /\ refs' \in [Buffers -> Nat]
      /\ refs'[x] = 1
      /\ \A b \in Buffers \ {x} : refs'[b] = refs[b]
  BY <1>1 DEF PushFrame, SetRefs, Ref, TypeOK
<1>5. queued' = queued /\ done' = done
  <2>1. \A b \in Buffers : ~ (refs[b] > 0 /\ refs'[b] = 0)
    BY <1>1, <1>4
  <2>2. Released(refs') = {}
    BY <2>1 DEF Released
  <2> QED BY <2>2 DEF PushFrame, SetRefs
<1>6. TypeOK' /\ Distinct'
  BY <1>3, <1>4, <1>5 DEF PushFrame, TypeOK, Distinct
<1>7. SlackKept
  <2>1. SUFFICES ASSUME NEW b \in Buffers PROVE Slack(b)' = Slack(b)
    BY DEF SlackKept
  <2>2. refs[b] \in Nat
    BY DEF TypeOK
  <2> QED BY <1>1, <1>2, <1>3, <1>4, <2>2 DEF PushFrame, Slack, Holders, Held
<1>8. NoDanglingPointer'
  BY <1>6, <1>7, SlackGivesPointers
<1>9. OneOwner'
  <2>1. SUFFICES ASSUME NEW b \in Buffers
                 PROVE  Held(b, queued') + Held(b, Range(done')) + Held(b, {pushing'})
                          + (IF refs'[b] > 0 THEN 1 ELSE 0) = 1
    BY DEF OneOwner
  <2>2. Held(b, queued) + Held(b, Range(done)) + Held(b, {pushing})
          + (IF refs[b] > 0 THEN 1 ELSE 0) = 1
    BY DEF OneOwner
  <2> QED BY <1>1, <1>4, <1>5, <2>2 DEF PushFrame, Held
<1>10. Fresh'
  <2>1. \A b \in Range(appsrc_queue) : b \in Buffers
    BY DEF TypeOK, Range
  <2>2. \A b \in Range(appsrc_queue)' : refs'[b] = 1
    BY <1>2, <1>3, <1>4, <2>1 DEF PushFrame, Fresh
  <2>3. tee' # None /\ tee_next' = "rga" => refs'[tee'] = 1
    BY <1>2, <1>4 DEF PushFrame, Fresh, TypeOK
  <2> QED BY <2>2, <2>3 DEF Fresh
<1>11. Ahead'
  BY DEF PushFrame, Ahead
<1>12. Exact'
  BY <1>7 DEF PushFrame, Exact, SlackKept
<1> QED BY <1>6, <1>7, <1>8, <1>9, <1>10, <1>11, <1>12

LEMMA PushFailsInv ==
  ASSUME Inv, PushFails
  PROVE  Inv' /\ SlackKept
<1> USE DEF Inv
<1>1. /\ pushing \in Buffers /\ refs[pushing] = 0
      /\ pushing \notin queued /\ pushing \notin Range(done)
      /\ None \notin Buffers
  BY BuffersAssumption, PushingIsFree DEF PushFails
<1>2. TypeOK' /\ Distinct'
  BY <1>1 DEF PushFails, TypeOK, Distinct
<1>3. SlackKept
  BY DEF PushFails, SlackKept, Slack, Holders, Held
<1>4. NoDanglingPointer'
  BY <1>2, <1>3, SlackGivesPointers
<1>5. OneOwner'
  <2>1. SUFFICES ASSUME NEW b \in Buffers
                 PROVE  Held(b, queued') + Held(b, Range(done')) + Held(b, {pushing'})
                          + (IF refs'[b] > 0 THEN 1 ELSE 0) = 1
    BY DEF OneOwner
  <2>2. Held(b, queued) + Held(b, Range(done)) + Held(b, {pushing})
          + (IF refs[b] > 0 THEN 1 ELSE 0) = 1
    BY DEF OneOwner
  <2> QED BY <1>1, <2>2 DEF PushFails, Held
<1>6. Fresh' /\ Ahead'
  BY DEF PushFails, Fresh, Ahead
<1>7. Exact'
  BY <1>3 DEF PushFails, Exact, SlackKept
<1> QED BY <1>2, <1>3, <1>4, <1>5, <1>6, <1>7

-----------------------------------------------------------------------------
(* The tee.                                                                 *)

LEMMA TeeTakeInv ==
  ASSUME Inv, TeeTake
  PROVE  Inv' /\ SlackKept
<1> USE DEF Inv
<1> DEFINE x == Head(appsrc_queue)
<1>1. /\ x \in Buffers /\ x \in Range(appsrc_queue)
      /\ Tail(appsrc_queue) \in Seq(Buffers)
      /\ Range(Tail(appsrc_queue)) = Range(appsrc_queue) \ {x}
      /\ IsInjective(Tail(appsrc_queue))
  BY TailInjection DEF TeeTake, TypeOK, Distinct
<1>2. None \notin Buffers
  BY BuffersAssumption
<1>3. TypeOK' /\ Distinct'
  BY <1>1 DEF TeeTake, TypeOK, Distinct
<1>4. SlackKept
  BY <1>1, <1>2 DEF TeeTake, SlackKept, Slack, Holders, Held
<1>5. NoDanglingPointer'
  BY <1>3, <1>4, SlackGivesPointers
<1>6. OneOwner'
  BY DEF TeeTake, OneOwner
<1>7. Fresh'
  BY <1>1 DEF TeeTake, Fresh
<1>8. Ahead'
  BY DEF TeeTake, Ahead
<1>9. Exact'
  BY <1>4 DEF TeeTake, Exact, SlackKept
<1> QED BY <1>3, <1>4, <1>5, <1>6, <1>7, <1>8, <1>9

LEMMA TeePushRgaInv ==
  ASSUME Inv, TeePushRga
  PROVE  Inv' /\ SlackKept
<1> USE DEF Inv
<1>1. /\ tee \in Buffers /\ refs[tee] = 1
      /\ None \notin Buffers
  BY BuffersAssumption DEF TeePushRga, TypeOK, Fresh
<1>2. /\ tee \notin Range(appsrc_queue)
      /\ tee \notin Range(rga_queue) /\ tee # rendering /\ tee # pulled
      /\ tee # last_sample /\ tee \notin Range(dma_fd_queue) /\ tee # dctx
      /\ tee \notin Range(trans_queue) /\ tee # probing /\ tee \notin encoding
  BY <1>1, OneRefOnePlace
<1>3. /\ Append(rga_queue, tee) \in Seq(Buffers)
      /\ Len(Append(rga_queue, tee)) = Len(rga_queue) + 1
      /\ Range(Append(rga_queue, tee)) = Range(rga_queue) \cup {tee}
      /\ IsInjective(Append(rga_queue, tee))
  BY <1>1, <1>2, RangeAppend, AppendInjection DEF TypeOK, Distinct
<1>4. /\ Ref(refs, tee, 1) \in [Buffers -> Nat]
      /\ refs' = Ref(refs, tee, 1)
      /\ \A b \in Buffers : refs'[b] = refs[b] + (IF b = tee THEN 1 ELSE 0)
  BY <1>1 DEF TeePushRga, SetRefs, Ref, TypeOK
<1>5. /\ OneOwner' /\ queued' \in SUBSET Buffers
      /\ refs' \in [Buffers -> Nat] /\ done' = done
  <2>1. SUFFICES ASSUME NEW b \in Buffers, refs'[b] > 0 PROVE refs[b] > 0
    BY <1>4, SetRefsOwner DEF TeePushRga
  <2>2. refs[b] \in Nat
    BY DEF TypeOK
  <2> QED BY <1>1, <1>4, <2>1, <2>2
<1>6. TypeOK' /\ Distinct'
  <2>1. Len(rga_queue') <= QueueCap
    BY <1>3, BoundsAssumption DEF TeePushRga, TypeOK
  <2> QED BY <1>3, <1>5, <2>1 DEF TeePushRga, TypeOK, Distinct
<1>7. SlackKept
  <2>1. SUFFICES ASSUME NEW b \in Buffers PROVE Slack(b)' = Slack(b)
    BY DEF SlackKept
  <2>2. refs[b] \in Nat
    BY DEF TypeOK
  <2> QED BY <1>2, <1>3, <1>4, <2>2 DEF TeePushRga, Slack, Holders, Held
<1>8. NoDanglingPointer'
  BY <1>6, <1>7, SlackGivesPointers
<1>9. Fresh'
  <2>1. \A b \in Range(appsrc_queue) : b \in Buffers /\ b # tee
    BY <1>2 DEF TypeOK, Range
  <2> QED BY <1>4, <2>1 DEF TeePushRga, Fresh, TypeOK
<1>10. Ahead'
  BY <1>2, <1>3 DEF TeePushRga, Ahead
<1>11. Exact'
  <2>1. Slack(tee) = 0
    BY <1>1, <1>2 DEF Slack, Holders, Held
  <2> QED BY <1>3, <1>7, <2>1 DEF TeePushRga, Exact, SlackKept
<1> QED BY <1>5, <1>6, <1>7, <1>8, <1>9, <1>10, <1>11

LEMMA TeePushTransInv ==
  ASSUME Inv, TeePushTrans
  PROVE  Inv' /\ SlackKept
<1> USE DEF Inv
<1>1. /\ tee \in Buffers /\ None \notin Buffers
      /\ tee \notin Range(trans_queue) /\ tee # probing /\ tee \notin encoding
  BY BuffersAssumption DEF TeePushTrans, TypeOK, Ahead
<1>2. /\ Append(trans_queue, tee) \in Seq(Buffers)
      /\ Len(Append(trans_queue, tee)) = Len(trans_queue) + 1
      /\ Range(Append(trans_queue, tee)) = Range(trans_queue) \cup {tee}
      /\ IsInjective(Append(trans_queue, tee))
  BY <1>1, RangeAppend, AppendInjection DEF TypeOK, Distinct
<1>3. /\ refs' \in [Buffers -> Nat]
      /\ refs' = Unref(Ref(refs, tee, 1), tee)
      /\ \A b \in Buffers : refs'[b] = refs[b]
  BY <1>1 DEF TeePushTrans, SetRefs, Ref, Unref, TypeOK
<1>4. /\ OneOwner' /\ queued' \in SUBSET Buffers
      /\ refs' \in [Buffers -> Nat] /\ done' = done
  <2>1. pushing' = pushing
    BY DEF TeePushTrans
  <2>2. SetRefs(refs')
    BY <1>3 DEF TeePushTrans
  <2>3. \A b \in Buffers : refs'[b] > 0 => refs[b] > 0
    BY <1>3
  <2> QED BY <1>3, <2>1, <2>2, <2>3, SetRefsOwner
<1>5. TypeOK' /\ Distinct'
  <2>1. Len(trans_queue') <= QueueCap
    BY <1>2, BoundsAssumption DEF TeePushTrans, TypeOK
  <2> QED BY <1>2, <1>4, <2>1 DEF TeePushTrans, TypeOK, Distinct
<1>6. SlackKept
  <2>1. SUFFICES ASSUME NEW b \in Buffers PROVE Slack(b)' = Slack(b)
    BY DEF SlackKept
  <2> QED BY <1>1, <1>2, <1>3, <2>1 DEF TeePushTrans, Slack, Holders, Held
<1>7. NoDanglingPointer'
  BY <1>5, <1>6, SlackGivesPointers
<1>8. Fresh'
  <2>1. \A b \in Range(appsrc_queue) : b \in Buffers
    BY DEF TypeOK, Range
  <2> QED BY <1>3, <2>1 DEF TeePushTrans, Fresh
<1>9. Ahead'
  BY <1>1, <1>2 DEF TeePushTrans, Ahead
<1>10. Exact'
  BY <1>6 DEF TeePushTrans, Exact, SlackKept
<1> QED BY <1>4, <1>5, <1>6, <1>7, <1>8, <1>9, <1>10

-----------------------------------------------------------------------------
(* The appsink and on_new_sample.                                           *)

LEMMA RenderInv ==
  ASSUME Inv, Render
  PROVE  Inv' /\ SlackKept
<1> USE DEF Inv
<1> DEFINE x == Head(rga_queue)
           r == Unref(Ref(refs, x, 1), last_sample)
<1>1. /\ x \in Buffers /\ x \in Range(rga_queue)
      /\ Tail(rga_queue) \in Seq(Buffers)
      /\ Len(Tail(rga_queue)) = Len(rga_queue) - 1
      /\ Range(Tail(rga_queue)) = Range(rga_queue) \ {x}
      /\ IsInjective(Tail(rga_queue))
      /\ None \notin Buffers
  BY BuffersAssumption, TailInjection DEF Render, TypeOK, Distinct
<1>2. refs[x] > 0
  BY <1>1, HolderHasRef
<1>3. last_sample # None => last_sample \in Buffers /\ refs[last_sample] > 0
  BY HolderHasRef DEF TypeOK
<1>4. /\ r \in [Buffers -> Nat]
      /\ \A b \in Buffers : r[b] = refs[b] + (IF b = x THEN 1 ELSE 0)
                                     - (IF b = last_sample THEN 1 ELSE 0)
  <2>1. refs \in [Buffers -> Nat] /\ last_sample \in Buffers \cup {None}
    BY DEF TypeOK
  <2>2. /\ Ref(refs, x, 1) \in [Buffers -> Nat]
        /\ \A b \in Buffers :
             Ref(refs, x, 1)[b] = refs[b] + (IF b = x THEN 1 ELSE 0)
    <3> HIDE DEF x
    <3> QED BY <1>1, <2>1 DEF Ref
  <2>3. last_sample # None => Ref(refs, x, 1)[last_sample] > 0
    BY <1>3, <2>1, <2>2
  <2> QED BY <2>1, <2>2, <2>3, UnrefFacts
<1>5. refs' = r /\ SetRefs(r)
  BY DEF Render, SetRefs
<1>6. /\ OneOwner' /\ queued' \in SUBSET Buffers
      /\ refs' \in [Buffers -> Nat] /\ done' = done
  <2>1. SUFFICES ASSUME NEW b \in Buffers, r[b] > 0 PROVE refs[b] > 0
    BY <1>4, <1>5, SetRefsOwner DEF Render
  <2>2. refs[b] \in Nat
    BY DEF TypeOK
  <2> QED BY <1>2, <1>4, <2>1, <2>2
<1>7. TypeOK' /\ Distinct'
  <2>1. Len(rga_queue') <= QueueCap
    BY <1>1, BoundsAssumption DEF Render, TypeOK
  <2> QED BY <1>1, <1>6, <2>1 DEF Render, TypeOK, Distinct
<1>8. SlackKept
  <2>1. SUFFICES ASSUME NEW b \in Buffers PROVE Slack(b)' = Slack(b)
    BY DEF SlackKept
  <2>2. refs[b] \in Nat
    BY DEF TypeOK
  <2> QED BY <1>1, <1>4, <1>5, <2>2 DEF Render, Slack, Holders, Held
<1>9. NoDanglingPointer'
  BY <1>7, <1>8, SlackGivesPointers
<1>10. Fresh'
  <2>1. SUFFICES ASSUME NEW b, \/ b \in Range(appsrc_queue)
                               \/ b = tee /\ tee # None /\ tee_next = "rga"
                 PROVE  refs'[b] = 1
    BY DEF Render, Fresh
  <2>2. b \in Buffers /\ refs[b] = 1 /\ b # x /\ b # last_sample
    BY <1>1, <2>1, FreshIsAlone
  <2> QED BY <1>4, <1>5, <2>2
<1>11. Ahead'
  BY <1>1 DEF Render, Ahead
<1>12. Exact'
  BY <1>1, <1>8 DEF Render, Exact, SlackKept
<1> QED BY <1>6, <1>7, <1>8, <1>9, <1>10, <1>11, <1>12

(* What is left of dma_fd_queue when on_new_sample has made room.           *)
LEMMA DropOldestFacts ==
  ASSUME TypeOK, Distinct
  PROVE  LET q == DropOldest(dma_fd_queue)
         IN  /\ q \in Seq(Buffers) /\ Len(q) <= BacklogLimit
             /\ Range(q) = Range(dma_fd_queue) \ Dropped
             /\ IsInjective(q)
             /\ Dropped \in SUBSET Buffers
             /\ Dropped \subseteq Range(dma_fd_queue)
<1> DEFINE q == DropOldest(dma_fd_queue)
<1>1. /\ dma_fd_queue \in Seq(Buffers) /\ IsInjective(dma_fd_queue)
      /\ Len(dma_fd_queue) \in Nat /\ Len(dma_fd_queue) <= BacklogLimit + 1
      /\ BacklogLimit \in Nat
  BY BoundsAssumption DEF TypeOK, Distinct
<1>2. CASE Len(dma_fd_queue) > BacklogLimit
  <2>1. dma_fd_queue # << >>
    BY <1>1, <1>2
  <2>2. q = Tail(dma_fd_queue) /\ Dropped = {Head(dma_fd_queue)}
    BY <1>2 DEF DropOldest, Dropped
  <2>3. /\ Head(dma_fd_queue) \in Buffers
        /\ Head(dma_fd_queue) \in Range(dma_fd_queue)
        /\ Tail(dma_fd_queue) \in Seq(Buffers)
        /\ Len(Tail(dma_fd_queue)) = Len(dma_fd_queue) - 1
        /\ Range(Tail(dma_fd_queue)) = Range(dma_fd_queue) \ {Head(dma_fd_queue)}
        /\ IsInjective(Tail(dma_fd_queue))
    BY <1>1, <2>1, TailInjection
  <2> QED BY <1>1, <2>2, <2>3
<1>3. CASE ~ (Len(dma_fd_queue) > BacklogLimit)
  <2>1. q = dma_fd_queue /\ Dropped = {}
    BY <1>3 DEF DropOldest, Dropped
  <2> QED BY <1>1, <1>3, <2>1
<1> QED BY <1>2, <1>3

LEMMA OnNewSampleInv ==
  ASSUME Inv, OnNewSample
  PROVE  Inv' /\ Forgets(Dropped)
<1> USE DEF Inv
<1> DEFINE x == rendering
           q == DropOldest(dma_fd_queue)
<1>1. /\ x \in Buffers /\ refs[x] > 0 /\ x \notin Range(dma_fd_queue)
      /\ x # dctx /\ Slack(x) = 0
      /\ None \notin Buffers
  BY BuffersAssumption, HolderHasRef DEF OnNewSample, TypeOK, Ahead, Exact
<1>2. /\ q \in Seq(Buffers) /\ Len(q) <= BacklogLimit
      /\ Range(q) = Range(dma_fd_queue) \ Dropped
      /\ IsInjective(q)
      /\ Dropped \in SUBSET Buffers
      /\ Dropped \subseteq Range(dma_fd_queue)
  BY DropOldestFacts
<1> HIDE DEF q
<1>3. /\ Append(q, x) \in Seq(Buffers)
      /\ Len(Append(q, x)) = Len(q) + 1
      /\ Range(Append(q, x)) = Range(q) \cup {x}
      /\ IsInjective(Append(q, x))
  BY <1>1, <1>2, RangeAppend, AppendInjection
<1>4. dma_fd_queue' = Append(q, x)
  BY DEF OnNewSample, q
<1>5. /\ refs' \in [Buffers -> Nat] /\ SetRefs(refs')
      /\ \A b \in Buffers : refs'[b] = refs[b] + (IF b = x THEN 2 ELSE 0)
  BY <1>1 DEF OnNewSample, SetRefs, Ref, TypeOK
<1>6. /\ OneOwner' /\ queued' \in SUBSET Buffers
      /\ refs' \in [Buffers -> Nat] /\ done' = done
  <2>1. SUFFICES ASSUME NEW b \in Buffers, refs'[b] > 0 PROVE refs[b] > 0
    BY <1>5, SetRefsOwner DEF OnNewSample
  <2>2. refs[b] \in Nat
    BY DEF TypeOK
  <2> QED BY <1>1, <1>5, <2>1, <2>2
<1>7. TypeOK' /\ Distinct'
  <2>1. Len(dma_fd_queue') <= BacklogLimit + 1
    BY <1>2, <1>3, <1>4, BoundsAssumption
  <2>2. inference' \in {"init", "wait", "asleep", "scale", "run", "ended"}
    BY DEF OnNewSample, Notified, TypeOK
  <2>3. TypeOK'
    BY <1>1, <1>3, <1>4, <1>6, <2>1, <2>2 DEF OnNewSample, TypeOK
  <2>4. Distinct'
    BY <1>3, <1>4, <1>6 DEF OnNewSample, Distinct
  <2> QED BY <2>3, <2>4
<1>8. Forgets(Dropped)
  <2>1. SUFFICES ASSUME NEW b \in Buffers
                 PROVE  Slack(b)' = Slack(b) + (IF b \in Dropped THEN 1 ELSE 0)
    BY DEF Forgets
  <2>2. refs[b] \in Nat
    BY DEF TypeOK
  <2>3. Held(b, Range(dma_fd_queue')) =
          Held(b, Range(dma_fd_queue)) + (IF b = x THEN 1 ELSE 0)
            - (IF b \in Dropped THEN 1 ELSE 0)
    BY <1>1, <1>2, <1>3, <1>4 DEF Held
  <2>4. Held(b, {pulled'}) = Held(b, {pulled}) + (IF b = x THEN 1 ELSE 0)
    BY <1>1 DEF OnNewSample, Held
  <2>5. Holders(b)' = Holders(b) + (IF b = x THEN 2 ELSE 0)
                       - (IF b \in Dropped THEN 1 ELSE 0)
    BY <2>3, <2>4 DEF OnNewSample, Holders, Held
  <2>6. Holders(b) \in Nat
    BY HoldersNat
  <2> QED BY <1>5, <2>2, <2>5, <2>6 DEF Slack
<1>9. NoDanglingPointer'
  BY <1>2, <1>7, <1>8, SlackGivesPointers
<1>10. Fresh'
  <2>1. SUFFICES ASSUME NEW b, \/ b \in Range(appsrc_queue)
                               \/ b = tee /\ tee # None /\ tee_next = "rga"
                 PROVE  refs'[b] = 1
    BY DEF OnNewSample, Fresh
  <2>2. b \in Buffers /\ refs[b] = 1 /\ b # x
    BY <2>1, FreshIsAlone
  <2> QED BY <1>5, <2>2
<1>11. Ahead'
  <2>1. inference' \notin {"scale", "run"} => dctx = None
    BY DEF OnNewSample, Notified, Ahead
  <2> QED BY <1>1, <1>2, <1>3, <1>4, <2>1 DEF OnNewSample, Ahead
<1>12. Exact'
  <2>1. SUFFICES ASSUME NEW b \in Buffers,
                        \/ b \in Range(rga_queue)
                        \/ b \in Range(q) \cup {x}
                        \/ b = dctx
                 PROVE  Slack(b)' = 0
    BY <1>1, <1>3, <1>4 DEF OnNewSample, Exact
  <2>2. b \notin Dropped
    BY <1>1, <1>2, <2>1 DEF Ahead
  <2>3. Slack(b) = 0
    BY <1>1, <1>2, <2>1 DEF Exact
  <2> QED BY <1>8, <2>2, <2>3 DEF Forgets
<1> QED BY <1>6, <1>7, <1>8, <1>9, <1>10, <1>11, <1>12

LEMMA OnNewSampleReturnInv ==
  ASSUME Inv, OnNewSampleReturn
  PROVE  Inv' /\ SlackKept
<1> USE DEF Inv
<1> DEFINE r == Unref(Unref(refs, pulled), rendering)
<1>1. /\ refs \in [Buffers -> Nat] /\ None \notin Buffers
      /\ pulled \in Buffers /\ rendering \in Buffers \cup {None}
      /\ refs[pulled] > 0
  BY BuffersAssumption, HolderHasRef DEF OnNewSampleReturn, TypeOK
<1>2. /\ Unref(refs, pulled) \in [Buffers -> Nat]
      /\ \A b \in Buffers :
           Unref(refs, pulled)[b] = refs[b] - (IF b = pulled THEN 1 ELSE 0)
  BY <1>1, UnrefFacts
<1>3. rendering # None => Unref(refs, pulled)[rendering] > 0
  <2>1. SUFFICES ASSUME rendering # None
                 PROVE  refs[rendering] - (IF rendering = pulled THEN 1 ELSE 0) > 0
    BY <1>1, <1>2
  <2>2. /\ rendering \in Buffers /\ Holders(rendering) <= refs[rendering]
        /\ refs[rendering] \in Nat
    BY <1>1, <2>1 DEF NoDanglingPointer
  <2>3. Holders(rendering) > (IF rendering = pulled THEN 1 ELSE 0)
    BY DEF Holders, Held
  <2>4. Holders(rendering) \in Nat
    BY HoldersNat
  <2> QED BY <2>2, <2>3, <2>4
<1>4. /\ r \in [Buffers -> Nat]
      /\ \A b \in Buffers : r[b] = refs[b] - (IF b = pulled THEN 1 ELSE 0)
                                     - (IF b = rendering THEN 1 ELSE 0)
  BY <1>1, <1>2, <1>3, UnrefFacts
<1>5. refs' = r /\ SetRefs(r)
  BY DEF OnNewSampleReturn, SetRefs
<1> HIDE DEF r
<1>6. /\ OneOwner' /\ queued' \in SUBSET Buffers
      /\ refs' \in [Buffers -> Nat] /\ done' = done
  <2>1. SUFFICES ASSUME NEW b \in Buffers, r[b] > 0 PROVE refs[b] > 0
    BY <1>4, <1>5, SetRefsOwner DEF OnNewSampleReturn
  <2>2. refs[b] \in Nat
    BY <1>1
  <2> QED BY <1>4, <2>1, <2>2
<1>7. TypeOK' /\ Distinct'
  BY <1>6 DEF OnNewSampleReturn, TypeOK, Distinct
<1>8. SlackKept
  <2>1. SUFFICES ASSUME NEW b \in Buffers PROVE Slack(b)' = Slack(b)
    BY DEF SlackKept
  <2>2. refs[b] \in Nat
    BY <1>1
  <2> QED BY <1>1, <1>4, <1>5, <2>2 DEF OnNewSampleReturn, Slack, Holders, Held
<1>9. NoDanglingPointer'
  BY <1>7, <1>8, SlackGivesPointers
<1>10. Fresh'
  <2>1. SUFFICES ASSUME NEW b, \/ b \in Range(appsrc_queue)
                               \/ b = tee /\ tee # None /\ tee_next = "rga"
                 PROVE  refs'[b] = 1
    BY DEF OnNewSampleReturn, Fresh
  <2>2. b \in Buffers /\ refs[b] = 1 /\ b # pulled /\ b # rendering
    BY <2>1, FreshIsAlone
  <2> QED BY <1>4, <1>5, <2>2
<1>11. Ahead'
  <2>1. \A b \in Range(rga_queue) : b # None
    BY <1>1 DEF TypeOK, Range
  <2> QED BY <2>1 DEF OnNewSampleReturn, Ahead
<1>12. Exact'
  <2>1. \A b \in Buffers : b # rendering'
    BY <1>1 DEF OnNewSampleReturn
  <2> QED BY <1>8, <2>1 DEF OnNewSampleReturn, Exact, SlackKept
<1> QED BY <1>6, <1>7, <1>8, <1>9, <1>10, <1>11, <1>12

-----------------------------------------------------------------------------
(* inference_thread.                                                        *)

LEMMA TakeFrameInv ==
  ASSUME Inv, TakeFrame
  PROVE  Inv' /\ SlackKept
<1> USE DEF Inv
<1> DEFINE x == Head(dma_fd_queue)
<1>1. /\ x \in Buffers /\ x \in Range(dma_fd_queue)
      /\ Tail(dma_fd_queue) \in Seq(Buffers)
      /\ Len(Tail(dma_fd_queue)) = Len(dma_fd_queue) - 1
      /\ Range(Tail(dma_fd_queue)) = Range(dma_fd_queue) \ {x}
      /\ IsInjective(Tail(dma_fd_queue))
      /\ None \notin Buffers /\ dctx = None
  BY BuffersAssumption, TailInjection DEF TakeFrame, TypeOK, Distinct, Ahead
<1>2. TypeOK' /\ Distinct'
  <2>1. Len(dma_fd_queue') <= BacklogLimit + 1
    BY <1>1, BoundsAssumption DEF TakeFrame, TypeOK
  <2> QED BY <1>1, <2>1 DEF TakeFrame, TypeOK, Distinct
<1>3. SlackKept
  BY <1>1 DEF TakeFrame, SlackKept, Slack, Holders, Held
<1>4. NoDanglingPointer'
  BY <1>2, <1>3, SlackGivesPointers
<1>5. OneOwner' /\ Fresh'
  BY DEF TakeFrame, OneOwner, Fresh
<1>6. Ahead'
  BY <1>1 DEF TakeFrame, Ahead
<1>7. Exact'
  BY <1>1, <1>3 DEF TakeFrame, Exact, SlackKept
<1> QED BY <1>2, <1>3, <1>4, <1>5, <1>6, <1>7

LEMMA CapsFailInv ==
  ASSUME Inv, CapsFail
  PROVE  Inv' /\ Forgets({dctx} \ {None})
<1> USE DEF Inv
<1>1. None \notin Buffers /\ dctx \in Buffers \cup {None}
  BY BuffersAssumption DEF TypeOK
<1>2. TypeOK' /\ Distinct'
  BY DEF CapsFail, TypeOK, Distinct
<1>3. Forgets({dctx} \ {None})
  <2>1. SUFFICES ASSUME NEW b \in Buffers
                 PROVE  Slack(b)' = Slack(b) + (IF b = dctx THEN 1 ELSE 0)
    BY <1>1 DEF Forgets
  <2>2. refs[b] \in Nat
    BY DEF TypeOK
  <2> QED BY <1>1, <2>2 DEF CapsFail, Slack, Holders, Held
<1>4. NoDanglingPointer'
  BY <1>1, <1>2, <1>3, SlackGivesPointers
<1>5. OneOwner' /\ Fresh'
  BY DEF CapsFail, OneOwner, Fresh
<1>6. Ahead'
  <2>1. None \notin Range(dma_fd_queue) /\ None \notin Range(rga_queue)
    BY <1>1 DEF TypeOK, Range
  <2> QED BY <2>1 DEF CapsFail, Ahead
<1>7. Exact'
  <2>1. SUFFICES ASSUME NEW b \in Buffers,
                        \/ b \in Range(rga_queue)
                        \/ b = rendering /\ pulled = None
                        \/ b \in Range(dma_fd_queue)
                 PROVE  Slack(b)' = 0
    BY <1>1 DEF CapsFail, Exact
  <2>2. b # dctx /\ Slack(b) = 0
    BY <1>1, <2>1 DEF Ahead, Exact
  <2> QED BY <1>3, <2>2 DEF Forgets
<1> QED BY <1>2, <1>3, <1>4, <1>5, <1>6, <1>7

(* The sample is dropped, after a failed scaling or after the inference.    *)
LEMMA DropSampleInv ==
  ASSUME Inv, ScaleFail \/ InferenceDone
  PROVE  Inv' /\ SlackKept
<1> USE DEF Inv
<1> DEFINE r == Unref(refs, dctx)
<1>1. /\ refs \in [Buffers -> Nat] /\ None \notin Buffers
      /\ dctx \in Buffers \cup {None}
      /\ dctx # None => refs[dctx] > 0
  BY BuffersAssumption, HolderHasRef DEF TypeOK
<1>2. /\ r \in [Buffers -> Nat]
      /\ \A b \in Buffers : r[b] = refs[b] - (IF b = dctx THEN 1 ELSE 0)
  BY <1>1, UnrefFacts
<1>3. /\ SetRefs(r) /\ refs' = r
      /\ dctx' = None /\ inference' = "wait"
      /\ UNCHANGED <<captureVars, teeVars, sinkVars, dma_fd_queue, boxes_left,
                     g_bb_q, encoderVars>>
  BY DEF ScaleFail, InferenceDone, SetRefs
<1> HIDE DEF r
<1>4. /\ OneOwner' /\ queued' \in SUBSET Buffers
      /\ refs' \in [Buffers -> Nat] /\ done' = done
  <2>1. SUFFICES ASSUME NEW b \in Buffers, r[b] > 0 PROVE refs[b] > 0
    BY <1>2, <1>3, SetRefsOwner
  <2>2. refs[b] \in Nat
    BY <1>1
  <2> QED BY <1>2, <2>1, <2>2
<1>5. TypeOK' /\ Distinct'
  BY <1>3, <1>4 DEF TypeOK, Distinct
<1>6. SlackKept
  <2>1. SUFFICES ASSUME NEW b \in Buffers PROVE Slack(b)' = Slack(b)
    BY DEF SlackKept
  <2>2. refs[b] \in Nat
    BY <1>1
  <2> QED BY <1>1, <1>2, <1>3, <2>2 DEF Slack, Holders, Held
<1>7. NoDanglingPointer'
  BY <1>5, <1>6, SlackGivesPointers
<1>8. Fresh'
  <2>1. SUFFICES ASSUME NEW b, \/ b \in Range(appsrc_queue)
                               \/ b = tee /\ tee # None /\ tee_next = "rga"
                 PROVE  refs'[b] = 1
    BY <1>3 DEF Fresh
  <2>2. b \in Buffers /\ refs[b] = 1 /\ b # dctx
    BY <2>1, FreshIsAlone
  <2> QED BY <1>2, <1>3, <2>2
<1>9. Ahead'
  <2>1. None \notin Range(dma_fd_queue) /\ None \notin Range(rga_queue)
    BY <1>1 DEF TypeOK, Range
  <2> QED BY <1>3, <2>1 DEF Ahead
<1>10. Exact'
  BY <1>1, <1>3, <1>6 DEF Exact, SlackKept
<1> QED BY <1>4, <1>5, <1>6, <1>7, <1>8, <1>9, <1>10

-----------------------------------------------------------------------------
(* The probe and the encoder.                                               *)

LEMMA ProbeCalledInv ==
  ASSUME Inv, ProbeCalled
  PROVE  Inv' /\ SlackKept
<1> USE DEF Inv
<1> DEFINE x == Head(trans_queue)
<1>1. /\ x \in Buffers /\ x \in Range(trans_queue)
      /\ Tail(trans_queue) \in Seq(Buffers)
      /\ Len(Tail(trans_queue)) = Len(trans_queue) - 1
      /\ Range(Tail(trans_queue)) = Range(trans_queue) \ {x}
      /\ IsInjective(Tail(trans_queue))
      /\ None \notin Buffers
  BY BuffersAssumption, TailInjection DEF ProbeCalled, TypeOK, Distinct
<1>2. x \notin encoding
  BY <1>1 DEF Ahead
<1>3. TypeOK' /\ Distinct'
  <2>1. Len(trans_queue') <= QueueCap
    BY <1>1, BoundsAssumption DEF ProbeCalled, TypeOK
  <2> QED BY <1>1, <2>1 DEF ProbeCalled, TypeOK, Distinct
<1>4. SlackKept
  BY <1>1, <1>2 DEF ProbeCalled, SlackKept, Slack, Holders, Held
<1>5. NoDanglingPointer'
  BY <1>3, <1>4, SlackGivesPointers
<1>6. OneOwner' /\ Fresh'
  BY DEF ProbeCalled, OneOwner, Fresh
<1>7. Ahead'
  BY <1>1, <1>2 DEF ProbeCalled, Ahead
<1>8. Exact'
  BY <1>4 DEF ProbeCalled, Exact, SlackKept
<1> QED BY <1>3, <1>4, <1>5, <1>6, <1>7, <1>8

LEMMA ProbeInv ==
  ASSUME Inv, Probe
  PROVE  Inv' /\ SlackKept
<1> USE DEF Inv
<1>1. /\ probing \in Buffers /\ probing \notin encoding
      /\ None \notin Buffers /\ None \notin encoding
      /\ \A b \in Range(trans_queue) : b \in Buffers
  BY BuffersAssumption DEF Probe, TypeOK, Ahead, Range
<1>2. TypeOK' /\ Distinct'
  BY <1>1 DEF Probe, TypeOK, Distinct
<1>3. SlackKept
  BY <1>1 DEF Probe, SlackKept, Slack, Holders, Held
<1>4. NoDanglingPointer'
  BY <1>2, <1>3, SlackGivesPointers
<1>5. OneOwner' /\ Fresh'
  BY DEF Probe, OneOwner, Fresh
<1>6. Ahead'
  BY <1>1 DEF Probe, Ahead
<1>7. Exact'
  BY <1>3 DEF Probe, Exact, SlackKept
<1> QED BY <1>2, <1>3, <1>4, <1>5, <1>6, <1>7

LEMMA EncodedInv ==
  ASSUME Inv, NEW x \in Buffers, Encoded(x)
  PROVE  Inv' /\ SlackKept
<1> USE DEF Inv
<1> DEFINE r == Unref(refs, x)
<1>1. /\ refs \in [Buffers -> Nat] /\ None \notin Buffers
      /\ x \in encoding /\ refs[x] > 0
  BY BuffersAssumption, HolderHasRef DEF Encoded, TypeOK
<1>2. /\ r \in [Buffers -> Nat]
      /\ \A b \in Buffers : r[b] = refs[b] - (IF b = x THEN 1 ELSE 0)
  BY <1>1, UnrefFacts
<1>3. refs' = r /\ SetRefs(r)
  BY DEF Encoded, SetRefs
<1> HIDE DEF r
<1>4. /\ OneOwner' /\ queued' \in SUBSET Buffers
      /\ refs' \in [Buffers -> Nat] /\ done' = done
  <2>1. SUFFICES ASSUME NEW b \in Buffers, r[b] > 0 PROVE refs[b] > 0
    BY <1>2, <1>3, SetRefsOwner DEF Encoded
  <2>2. refs[b] \in Nat
    BY <1>1
  <2> QED BY <1>2, <2>1, <2>2
<1>5. TypeOK' /\ Distinct'
  <2>1. UNCHANGED <<captureVars, teeVars, sinkVars, dma_fd_queue, inferenceVars, g_bb_q,
                    trans_queue, probing>>
        /\ encoding' \in SUBSET Buffers
    BY DEF Encoded, TypeOK
  <2>2. /\ pushing' \in Buffers \cup {None} /\ capturing' \in BOOLEAN
        /\ is_running' \in BOOLEAN /\ done' \in Seq(Buffers)
    BY <1>4, <2>1 DEF TypeOK
  <2>3. TypeOK'
    BY <1>4, <2>1, <2>2 DEF TypeOK
  <2>4. Distinct'
    BY <1>4, <2>1 DEF Distinct
  <2> QED BY <2>3, <2>4
<1>6. SlackKept
  <2>1. SUFFICES ASSUME NEW b \in Buffers PROVE Slack(b)' = Slack(b)
    BY DEF SlackKept
  <2>2. refs[b] \in Nat
    BY <1>1
  <2> QED BY <1>1, <1>2, <1>3, <2>2 DEF Encoded, Slack, Holders, Held
<1>7. NoDanglingPointer'
  BY <1>5, <1>6, SlackGivesPointers
<1>8. Fresh'
  <2>1. SUFFICES ASSUME NEW b, \/ b \in Range(appsrc_queue)
                               \/ b = tee /\ tee # None /\ tee_next = "rga"
                 PROVE  refs'[b] = 1
    BY DEF Encoded, Fresh
  <2>2. b \in Buffers /\ refs[b] = 1 /\ b # x
    BY <1>1, <2>1, FreshIsAlone
  <2> QED BY <1>2, <1>3, <2>2
<1>9. Ahead'
  BY DEF Encoded, Ahead
<1>10. Exact'
  BY <1>6 DEF Encoded, Exact, SlackKept
<1> QED BY <1>4, <1>5, <1>6, <1>7, <1>8, <1>9, <1>10

-----------------------------------------------------------------------------
(* The steps that touch no frame.                                           *)

frames == <<driverVars, pushing, refs, teeVars, sinkVars, dma_fd_queue, dctx,
            encoderVars>>

Idle ==
  \/ LeaveCapture \/ ModelReady \/ WaitForFrame \/ SpuriousWakeup
  \/ LeaveInference \/ \E n \in 0 .. MaxBoxes : Infer(n)
  \/ PushBox \/ UNCHANGED vars

LEMMA IdleInv ==
  ASSUME Inv, Idle
  PROVE  Inv' /\ SlackKept
<1> USE DEF Inv
<1>1. UNCHANGED frames
  BY DEF Idle, LeaveCapture, ModelReady, WaitForFrame, SpuriousWakeup,
         LeaveInference, Infer, PushBox, vars, frames
<1>2. /\ capturing' \in BOOLEAN /\ is_running' \in BOOLEAN
      /\ inference' \in {"init", "wait", "asleep", "scale", "run", "ended"}
      /\ boxes_left' \in 0 .. MaxBoxes /\ g_bb_q' \in Nat
      /\ inference' \notin {"scale", "run"} => dctx = None
  <2>1. CASE LeaveCapture \/ ModelReady \/ WaitForFrame \/ SpuriousWakeup
    BY <2>1 DEF LeaveCapture, ModelReady, WaitForFrame, SpuriousWakeup, TypeOK,
                Ahead
  <2>2. CASE LeaveInference \/ UNCHANGED vars
    BY <2>2 DEF LeaveInference, vars, TypeOK, Ahead
  <2>3. CASE \E n \in 0 .. MaxBoxes : Infer(n)
    BY <2>3 DEF Infer, TypeOK, Ahead
  <2>4. CASE PushBox
    BY <2>4, BoundsAssumption DEF PushBox, TypeOK, Ahead
  <2> QED BY <2>1, <2>2, <2>3, <2>4 DEF Idle
<1>3. TypeOK' /\ Distinct' /\ OneOwner' /\ Fresh' /\ Ahead'
  BY <1>1, <1>2 DEF frames, TypeOK, Distinct, OneOwner, Fresh, Ahead
<1>4. SlackKept
  BY <1>1 DEF frames, SlackKept, Slack, Holders, Held
<1>5. NoDanglingPointer'
  BY <1>3, <1>4, SlackGivesPointers
<1>6. Exact'
  BY <1>1, <1>4 DEF frames, Exact, SlackKept
<1> QED BY <1>3, <1>4, <1>5, <1>6

-----------------------------------------------------------------------------
(* The invariant of FramePipeline.                                          *)

(* Every step keeps the invariant, and keeps or forgets references.         *)
LEMMA NextInv ==
  ASSUME Inv, [Next]_vars
  PROVE  /\ Inv'
         /\ \/ SlackKept
            \/ OnNewSample /\ Forgets(Dropped)
            \/ CapsFail /\ Forgets({dctx} \ {None})
<1>1. CASE \E b \in Buffers : Fill(b) \/ Encoded(b)
  BY <1>1, FillInv, EncodedInv
<1>2. CASE Dequeue \/ PushFrame \/ PushFails
  BY <1>2, DequeueInv, PushFrameInv, PushFailsInv
<1>3. CASE Tee
  BY <1>3, TeeTakeInv, TeePushRgaInv, TeePushTransInv DEF Tee
<1>4. CASE Sink
  BY <1>4, RenderInv, OnNewSampleInv, OnNewSampleReturnInv DEF Sink
<1>5. CASE TakeFrame \/ CapsFail \/ ScaleFail \/ InferenceDone
  BY <1>5, TakeFrameInv, CapsFailInv, DropSampleInv
<1>6. CASE ProbeCalled \/ Probe
  BY <1>6, ProbeCalledInv, ProbeInv
<1>7. CASE Idle
  BY <1>7, IdleInv
<1> QED BY <1>1, <1>2, <1>3, <1>4, <1>5, <1>6, <1>7
        DEF Next, Capture, Inference, Encoder, Idle

(* Inv holds in every reachable state.                                      *)
THEOREM Invariance == Spec => []Inv
<1>1. Inv /\ [Next]_vars => Inv'
  BY NextInv
<1> QED BY InitInv, <1>1, PTL DEF Spec

(* Every variable keeps its type, for every number of buffers.              *)
THEOREM TypeCorrect == Spec => []TypeOK
BY Invariance, PTL DEF Inv

(* No thread, queue or element holds a pointer to a frame without a         *)
(* reference behind it: no sample is used after it was freed.               *)
THEOREM PointersAreValid == Spec => []NoDanglingPointer
BY Invariance, PTL DEF Inv

(* A V4L2 buffer is in one place: VIDIOC_QBUF is never called on a buffer   *)
(* that the driver already has.                                             *)
THEOREM BuffersHaveOneOwner == Spec => []OneOwner
BY Invariance, PTL DEF Inv

(* No thread reads a buffer while the device may be filling it.             *)
THEOREM NoFrameIsTorn == Spec => []NoTornFrame
<1>1. Inv => NoTornFrame
  <2>1. SUFFICES ASSUME Inv, NEW b \in Buffers, b = pushing \/ Holders(b) > 0
                 PROVE  b \notin queued /\ b \notin Range(done)
    BY DEF NoTornFrame, Pool!NoTornFrame, Pool!Range, Range
  <2>2. CASE b = pushing
    BY <2>1, <2>2, BuffersAssumption, PushingIsFree DEF Inv
  <2>3. CASE Holders(b) > 0
    <3>1. /\ Holders(b) \in Nat /\ Holders(b) <= refs[b] /\ refs[b] \in Nat
      BY <2>1, HoldersNat DEF Inv, NoDanglingPointer, TypeOK
    <3>2. Held(b, queued) + Held(b, Range(done)) + Held(b, {pushing})
            + (IF refs[b] > 0 THEN 1 ELSE 0) = 1
      BY <2>1 DEF Inv, OneOwner
    <3> QED BY <2>3, <3>1, <3>2 DEF Held
  <2> QED BY <2>1, <2>2, <2>3
<1> QED BY Invariance, <1>1, PTL

-----------------------------------------------------------------------------
(* How many buffers the forgotten references can cost.                      *)

(* A queue without repetition holds as many buffers as it is long.          *)
LEMMA RangeCardinality ==
  ASSUME NEW S, NEW q \in Seq(S), IsInjective(q)
  PROVE  IsFiniteSet(Range(q)) /\ Cardinality(Range(q)) = Len(q)
<1>1. /\ Len(q) \in Nat /\ DOMAIN q = 1 .. Len(q)
      /\ q \in [1 .. Len(q) -> Range(q)]
  BY DEF Range
<1>2. q \in Bijection(1 .. Len(q), Range(q))
  BY <1>1 DEF Bijection, Injection, Surjection, Range
<1>3. ExistsBijection(1 .. Len(q), Range(q))
  BY <1>2 DEF ExistsBijection
<1>4. IsFiniteSet(1 .. Len(q)) /\ Cardinality(1 .. Len(q)) = Len(q)
  BY <1>1, FS_Interval
<1> QED BY <1>3, <1>4, FS_Bijection

LEMMA LeakedIsFinite ==
  /\ IsFiniteSet(Leaked) /\ Cardinality(Leaked) \in Nat
  /\ Cardinality(Buffers) \in Nat
BY BuffersAssumption, FS_Subset, FS_CardinalityType DEF Leaked

(* inference_thread does not come back.                                     *)
LEMMA EndedStays ==
  ASSUME [Next]_vars, inference = "ended"
  PROVE  inference' = "ended"
BY DEF Next, vars, Capture, Tee, Sink, Inference, Encoder, Fill, Dequeue,
       LeaveCapture, PushFrame, PushFails, TeeTake, TeePushRga, TeePushTrans,
       Render, OnNewSample, Notified, OnNewSampleReturn, ModelReady,
       WaitForFrame, SpuriousWakeup, LeaveInference, TakeFrame, CapsFail,
       ScaleFail, Infer, PushBox, InferenceDone, ProbeCalled, Probe, Encoded

LEMMA LeakStep ==
  ASSUME Inv, LeakBound, [Next]_vars
  PROVE  LeakBound'
<1> DEFINE N == Cardinality(Buffers)
           Ended == IF inference = "ended" THEN 1 ELSE 0
<1>1. Inv' /\ TypeOK /\ TypeOK'
  BY NextInv DEF Inv
<1>2. /\ Leaked = {b \in Buffers : Slack(b) > 0}
      /\ Leaked' = {b \in Buffers : Slack(b)' > 0}
  <2>1. \A b \in Buffers : Holders(b) \in Nat /\ Holders(b)' \in Nat
    BY DEF Holders, Held
  <2>2. \A b \in Buffers : refs[b] \in Nat /\ refs'[b] \in Nat
    BY <1>1 DEF TypeOK
  <2> QED BY <2>1, <2>2 DEF Leaked, Slack
<1>3. /\ IsFiniteSet(Leaked) /\ Cardinality(Leaked) \in Nat /\ N \in Nat
      /\ IsFiniteSet(Leaked') /\ Cardinality(Leaked') \in Nat
      /\ IsFiniteSet(Buffers) /\ BacklogLimit \in Nat
  <2>1. IsFiniteSet(Leaked') /\ Cardinality(Leaked') \in Nat
    BY <1>2, BuffersAssumption, FS_Subset, FS_CardinalityType
  <2> QED BY <2>1, LeakedIsFinite, BuffersAssumption, BoundsAssumption
<1>4. Cardinality(Leaked) <= N - (BacklogLimit + 1) + Ended
  BY DEF LeakBound
<1>5. Ended' >= Ended /\ Ended \in 0 .. 1 /\ Ended' \in 0 .. 1
  BY EndedStays
<1>6. SUFFICES Cardinality(Leaked') <= N - (BacklogLimit + 1) + Ended'
  BY DEF LeakBound
<1>7. CASE SlackKept \/ (OnNewSample /\ Forgets(Dropped) /\ Dropped = {})
  <2>1. \A b \in Buffers : Slack(b)' = Slack(b)
    <3>1. \A b \in Buffers : Slack(b) \in Int
      BY <1>1, HoldersNat DEF Slack, TypeOK
    <3> QED BY <1>7, <3>1 DEF SlackKept, Forgets
  <2>2. Leaked' = Leaked
    BY <1>2, <2>1
  <2> QED BY <1>3, <1>4, <1>5, <2>2
<1>8. CASE OnNewSample /\ Dropped # {}
  <2>1. /\ Len(dma_fd_queue) = BacklogLimit + 1
        /\ dma_fd_queue \in Seq(Buffers)
    BY <1>1, <1>8, BoundsAssumption DEF Dropped, TypeOK
  <2>2. Len(dma_fd_queue') = BacklogLimit + 1
    <3>1. /\ dma_fd_queue # << >>
          /\ dma_fd_queue' = Append(Tail(dma_fd_queue), rendering)
          /\ rendering \in Buffers
      BY <1>1, <1>3, <1>8, <2>1 DEF OnNewSample, DropOldest, TypeOK
    <3>2. Tail(dma_fd_queue) \in Seq(Buffers) /\ Len(Tail(dma_fd_queue)) = BacklogLimit
      BY <1>3, <2>1, <3>1
    <3> QED BY <3>1, <3>2, RangeAppend
  <2>3. /\ IsFiniteSet(Range(dma_fd_queue'))
        /\ Cardinality(Range(dma_fd_queue')) = BacklogLimit + 1
    BY <1>1, <2>2, RangeCardinality DEF Inv, TypeOK, Distinct
  <2>4. \A b \in Range(dma_fd_queue') : b \in Buffers /\ Slack(b)' = 0
    <3>1. \A b \in Range(dma_fd_queue') : b \in Buffers
      BY <1>1 DEF TypeOK, Range
    <3> QED BY <1>1, <3>1 DEF Inv, Exact
  <2>5. Leaked' \subseteq Buffers \ Range(dma_fd_queue')
    BY <1>2, <2>4
  <2>6. Buffers \cap Range(dma_fd_queue') = Range(dma_fd_queue')
    BY <2>4
  <2>7. /\ IsFiniteSet(Buffers \ Range(dma_fd_queue'))
        /\ Cardinality(Buffers \ Range(dma_fd_queue')) = N - (BacklogLimit + 1)
    <3> DEFINE T == Range(dma_fd_queue')
    <3>1. /\ IsFiniteSet(Buffers \ T)
          /\ Cardinality(Buffers \ T) = N - Cardinality(Buffers \cap T)
      BY <1>3, FS_Difference
    <3> QED BY <2>3, <2>6, <3>1
  <2>8. Cardinality(Leaked') <= N - (BacklogLimit + 1)
    BY <2>5, <2>7, FS_Subset
  <2> QED BY <1>3, <1>5, <2>8
<1>9. CASE CapsFail /\ Forgets({dctx} \ {None})
  <2>1. Ended = 0 /\ Ended' = 1
    BY <1>9 DEF CapsFail
  <2>2. Leaked' \subseteq Leaked \cup {dctx}
    <3>1. \A b \in Buffers : b # dctx => Slack(b)' = Slack(b)
      <4>1. \A b \in Buffers : Slack(b) \in Int
        BY <1>1, HoldersNat DEF Slack, TypeOK
      <4> QED BY <1>9, <4>1 DEF Forgets
    <3> QED BY <1>2, <3>1
  <2>3. /\ IsFiniteSet(Leaked \cup {dctx})
        /\ Cardinality(Leaked \cup {dctx}) <= Cardinality(Leaked) + 1
    BY <1>3, FS_AddElement
  <2>4. Cardinality(Leaked') <= Cardinality(Leaked \cup {dctx})
    BY <2>2, <2>3, FS_Subset
  <2>5. Cardinality(Leaked \cup {dctx}) \in Nat
    BY <2>3, FS_CardinalityType
  <2> QED BY <1>3, <1>4, <2>1, <2>3, <2>4, <2>5
<1> QED BY <1>7, <1>8, <1>9, NextInv

(* The overflow of dma_fd_queue and the return of inference_thread cost     *)
(* that many buffers and no more, whatever the number of buffers and the    *)
(* limit of the backlog.                                                    *)
THEOREM LeaksAreBounded == Spec => []LeakBound
<1>1. Init => LeakBound
  <2>1. SUFFICES ASSUME Init PROVE LeakBound
    OBVIOUS
  <2>2. \A b \in Buffers : refs[b] = 0 /\ Holders(b) = 0
    BY <2>1, EmptyQueue, BuffersAssumption DEF Init, Holders, Held
  <2>3. Leaked = {}
    BY <2>2 DEF Leaked
  <2>4. Cardinality(Leaked) = 0
    BY <2>3, FS_EmptySet
  <2> QED BY <2>1, <2>4, BoundsAssumption, LeakedIsFinite DEF Init, LeakBound
<1>2. Inv /\ LeakBound /\ [Next]_vars => LeakBound'
  BY LeakStep
<1> QED BY Invariance, <1>1, <1>2, PTL DEF Spec

-----------------------------------------------------------------------------
(* How many boxes can gather.                                               *)

(* Frames that are on their way to inference.                               *)
Waiting ==
  {b \in Buffers :
     \/ b \in Range(rga_queue) \/ b \in Range(dma_fd_queue)
     \/ b = rendering /\ pulled = None
     \/ b = dctx /\ inference = "scale"}

(* Frames that can be inferred before the probe drains again: those that    *)
(* wait, and those that can still pass the tee before q_trans is full, once *)
(* its thread has taken a frame out for the probe.                          *)
Split == IF tee # None /\ tee_next = "trans" THEN 1 ELSE 0
Entering == IF probing = None THEN 1 ELSE 0
Coming ==
  Cardinality(Waiting) + ((QueueCap - Len(trans_queue)) + (1 - Split) + Entering)

(* Boxes of the current result that have not been pushed.                   *)
Left == IF inference = "run" THEN boxes_left ELSE 0

BoxInv ==
  /\ inference \in {"scale", "run"} => dctx # None
  /\ (g_bb_q + Left) + MaxBoxes * Coming
       <= MaxBoxes * (Cardinality(Buffers) + (QueueCap + 2))

LEMMA WaitingIsFinite ==
  ASSUME NEW W \in SUBSET Buffers
  PROVE  /\ IsFiniteSet(W) /\ Cardinality(W) \in Nat
         /\ Cardinality(W) <= Cardinality(Buffers) /\ Cardinality(Buffers) \in Nat
         /\ \A V \in SUBSET W : Cardinality(V) <= Cardinality(W)
         /\ \A b \in Buffers \ W : Cardinality(W \cup {b}) = Cardinality(W) + 1
BY BuffersAssumption, FS_Subset, FS_CardinalityType, FS_AddElement

LEMMA ComingIsNat ==
  TypeOK =>
         /\ Waiting \in SUBSET Buffers /\ Coming \in Nat /\ Cardinality(Waiting) \in Nat
         /\ Len(trans_queue) \in Nat /\ QueueCap \in Nat /\ MaxBoxes \in Nat
         /\ Left \in 0 .. MaxBoxes /\ g_bb_q \in Nat /\ Split \in 0 .. 1
         /\ Entering \in 0 .. 1
<1> SUFFICES ASSUME TypeOK
             PROVE  /\ Waiting \in SUBSET Buffers /\ Coming \in Nat
                    /\ Cardinality(Waiting) \in Nat
                    /\ Len(trans_queue) \in Nat /\ QueueCap \in Nat /\ MaxBoxes \in Nat
                    /\ Left \in 0 .. MaxBoxes /\ g_bb_q \in Nat /\ Split \in 0 .. 1
                    /\ Entering \in 0 .. 1
  OBVIOUS
<1>1. Waiting \in SUBSET Buffers
  BY DEF Waiting
<1>2. Cardinality(Waiting) \in Nat
  BY <1>1, WaitingIsFinite
<1>3. /\ Len(trans_queue) \in Nat /\ Len(trans_queue) <= QueueCap
      /\ QueueCap \in Nat /\ MaxBoxes \in Nat
  BY BoundsAssumption DEF TypeOK
<1>4. Split \in 0 .. 1 /\ Entering \in 0 .. 1
  BY DEF Split, Entering
<1>5. Left \in 0 .. MaxBoxes /\ g_bb_q \in Nat
  BY <1>3 DEF TypeOK, Left
<1> QED BY <1>1, <1>2, <1>3, <1>4, <1>5 DEF Coming

LEMMA ComingStaysNat ==
  TypeOK' =>
     /\ Waiting' \in SUBSET Buffers /\ Coming' \in Nat /\ Cardinality(Waiting') \in Nat
     /\ Left' \in 0 .. MaxBoxes /\ Left' \in Nat /\ g_bb_q' \in Nat
<1>1. TypeOK' => (/\ Waiting \in SUBSET Buffers /\ Coming \in Nat /\ Cardinality(Waiting) \in Nat
                  /\ Left \in 0 .. MaxBoxes /\ g_bb_q \in Nat)'
  <2>1. TypeOK => /\ Waiting \in SUBSET Buffers /\ Coming \in Nat /\ Cardinality(Waiting) \in Nat
                  /\ Left \in 0 .. MaxBoxes /\ g_bb_q \in Nat
    BY ComingIsNat
  <2> QED BY <2>1, PTL
<1> QED BY <1>1, BoundsAssumption

LEMMA Sums ==
  /\ \A a, b \in Nat : a + b \in Nat /\ a * b \in Nat
  /\ \A a, b \in Nat : a = b => a <= b
OBVIOUS

LEMMA SumsBounded ==
  ASSUME NEW a \in Nat, NEW b \in Nat, NEW c \in Nat, NEW d \in Nat, NEW e \in Nat,
         a <= b, c <= d, b + d <= e
  PROVE  a + c <= e
OBVIOUS

LEMMA Times ==
  ASSUME NEW m \in Nat, NEW a \in Nat, NEW b \in Nat, a <= b
  PROVE  m * a <= m * b /\ m * a \in Nat /\ m * b \in Nat /\ m * (a + 1) = m * a + m
OBVIOUS

(* A step after which no more frames can come, and no more boxes are there, *)
(* keeps the bound.                                                         *)
LEMMA NoMoreBoxes ==
  ASSUME TypeOK, TypeOK', BoxInv, inference' \in {"scale", "run"} => dctx' # None,
         g_bb_q' + Left' <= g_bb_q + Left, Coming' <= Coming
  PROVE  BoxInv'
<1> DEFINE bound == MaxBoxes * (Cardinality(Buffers) + (QueueCap + 2))
           old == MaxBoxes * Coming
           new == MaxBoxes * Coming'
<1>1. /\ g_bb_q \in Nat /\ Left \in Nat /\ Coming \in Nat /\ MaxBoxes \in Nat
      /\ g_bb_q' \in Nat /\ Left' \in Nat /\ Coming' \in Nat /\ Cardinality(Buffers) \in Nat
      /\ QueueCap \in Nat
  <2>1. g_bb_q' \in Nat /\ Left' \in Nat /\ Coming' \in Nat
    BY ComingStaysNat
  <2> QED BY <2>1, ComingIsNat, WaitingIsFinite
<1>2. new <= old /\ new \in Nat /\ old \in Nat
  BY <1>1, Times
<1>3. (g_bb_q + Left) + old <= bound
  BY DEF BoxInv
<1>4. bound \in Nat
  BY <1>1, Times
<1>5. (g_bb_q' + Left') + new <= bound
  <2>1. g_bb_q' + Left' \in Nat /\ g_bb_q + Left \in Nat
    BY <1>1, Sums, Zenon
  <2> HIDE DEF bound, old, new
  <2> QED BY <1>2, <1>3, <1>4, <2>1, SumsBounded
<1> QED BY <1>5 DEF BoxInv

LEMMA SameWaiting ==
  ASSUME TypeOK, TypeOK', BoxInv, inference' \in {"scale", "run"} => dctx' # None,
         g_bb_q' + Left' = g_bb_q + Left, Waiting' \subseteq Waiting,
         UNCHANGED <<tee, tee_next, trans_queue, probing>>
  PROVE  BoxInv'
<1>1. Cardinality(Waiting') <= Cardinality(Waiting)
  BY ComingIsNat, WaitingIsFinite
<1>2. Split' = Split /\ Entering' = Entering
  BY DEF Split, Entering
<1>3. /\ Cardinality(Waiting) \in Nat /\ Cardinality(Waiting') \in Nat /\ Split \in 0 .. 1
      /\ Entering \in 0 .. 1
      /\ Len(trans_queue) \in Nat /\ QueueCap \in Nat
      /\ g_bb_q \in Nat /\ Left \in Nat /\ g_bb_q' \in Nat /\ Left' \in Nat
  <2>1. Cardinality(Waiting') \in Nat /\ g_bb_q' \in Nat /\ Left' \in Nat
    BY ComingStaysNat
  <2> QED BY <2>1, ComingIsNat
<1>4. Coming' <= Coming
  BY <1>1, <1>2, <1>3 DEF Coming
<1>5. g_bb_q' + Left' <= g_bb_q + Left
  BY <1>3, Sums, Zenon
<1> QED BY <1>4, <1>5, NoMoreBoxes

(* The branch to inference, up to the model.                                *)
LEMMA BranchBoxes ==
  ASSUME Inv, TypeOK', BoxInv,
         Render \/ OnNewSample \/ OnNewSampleReturn \/ TakeFrame
  PROVE  BoxInv'
<1> USE DEF Inv
<1>1. None \notin Buffers
  BY BuffersAssumption
<1>2. CASE Render
  <2>1. /\ rga_queue # << >> /\ rga_queue \in Seq(Buffers) /\ rendering = None
        /\ rga_queue' = Tail(rga_queue) /\ rendering' = Head(rga_queue) /\ pulled' = pulled
        /\ pulled = None
        /\ UNCHANGED <<tee, tee_next, dma_fd_queue, inferenceVars, g_bb_q, trans_queue,
                       probing>>
    BY <1>2 DEF Render, TypeOK, Ahead
  <2>2. Range(rga_queue') \subseteq Range(rga_queue) /\ rendering' \in Range(rga_queue)
    BY <2>1, TailInjection DEF Distinct
  <2>3. Waiting' \subseteq Waiting
    BY <2>1, <2>2 DEF Waiting
  <2>4. Left' = Left
    BY <2>1 DEF Left
  <2> QED BY <2>1, <2>3, <2>4, SameWaiting DEF BoxInv
<1>3. CASE OnNewSample
  <2>1. /\ rendering # None /\ pulled = None /\ pulled' = rendering
        /\ dma_fd_queue' = Append(DropOldest(dma_fd_queue), rendering)
        /\ inference' = Notified
        /\ UNCHANGED <<tee, tee_next, rga_queue, rendering, dctx, boxes_left, g_bb_q, trans_queue,
                       probing>>
    BY <1>3 DEF OnNewSample
  <2>2. inference' = inference \/ (inference = "asleep" /\ inference' = "wait")
    BY <2>1 DEF Notified
  <2>3. Range(dma_fd_queue') \subseteq Range(dma_fd_queue) \cup {rendering}
    BY <2>1, DropOldestFacts, RangeAppend DEF TypeOK
  <2>4. Waiting' \subseteq Waiting
    BY <2>1, <2>2, <2>3 DEF Waiting
  <2>5. Left' = Left
    BY <2>1, <2>2 DEF Left
  <2> QED BY <2>1, <2>2, <2>4, <2>5, SameWaiting DEF BoxInv
<1>4. CASE OnNewSampleReturn
  <2>1. /\ rendering' = None
        /\ UNCHANGED <<tee, tee_next, rga_queue, dma_fd_queue, inferenceVars, g_bb_q, trans_queue,
                       probing>>
    BY <1>4 DEF OnNewSampleReturn
  <2>2. Waiting' \subseteq Waiting
    BY <1>1, <2>1 DEF Waiting
  <2>3. Left' = Left
    BY <2>1 DEF Left
  <2> QED BY <2>1, <2>2, <2>3, SameWaiting DEF BoxInv
<1>5. CASE TakeFrame
  <2>1. /\ dma_fd_queue # << >> /\ dma_fd_queue \in Seq(Buffers) /\ inference = "wait"
        /\ dctx' = Head(dma_fd_queue) /\ dma_fd_queue' = Tail(dma_fd_queue)
        /\ inference' = "scale"
        /\ UNCHANGED <<tee, tee_next, rga_queue, rendering, pulled, boxes_left, g_bb_q,
                       trans_queue, probing>>
    BY <1>5 DEF TakeFrame, TypeOK
  <2>2. /\ Range(dma_fd_queue') \subseteq Range(dma_fd_queue)
        /\ dctx' \in Range(dma_fd_queue) /\ dctx' \in Buffers
    BY <2>1, TailInjection DEF Distinct
  <2>3. Waiting' \subseteq Waiting
    BY <2>1, <2>2 DEF Waiting
  <2>4. Left' = Left
    BY <2>1 DEF Left
  <2> QED BY <1>1, <2>1, <2>2, <2>3, <2>4, SameWaiting
<1> QED BY <1>2, <1>3, <1>4, <1>5

(* The tee: what one branch gets is a place less for the other.             *)
LEMMA TeeBoxes ==
  ASSUME Inv, TypeOK', BoxInv, Tee
  PROVE  BoxInv'
<1> USE DEF Inv
<1>1. /\ UNCHANGED <<inferenceVars, g_bb_q, rendering, pulled, dma_fd_queue>>
      /\ Left' = Left /\ Entering' = Entering
  BY DEF Tee, TeeTake, TeePushRga, TeePushTrans, Left, Entering
<1>2. /\ Cardinality(Waiting) \in Nat /\ Len(trans_queue) \in Nat /\ QueueCap \in Nat
      /\ g_bb_q \in Nat /\ Left \in Nat /\ Entering \in 0 .. 1
  BY ComingIsNat
<1>3. Coming' <= Coming
  <2>1. CASE TeeTake
    <3>1. Split = 0 /\ Split' = 0
      BY <2>1 DEF TeeTake, Split
    <3>2. Waiting' = Waiting /\ trans_queue' = trans_queue
      BY <1>1, <2>1 DEF TeeTake, Waiting
    <3> QED BY <1>1, <1>2, <3>1, <3>2 DEF Coming
  <2>2. CASE TeePushRga
    <3>1. Split = 0 /\ Split' = 1 /\ trans_queue' = trans_queue
      BY <2>2 DEF TeePushRga, Split
    <3>2. tee \in Buffers /\ Range(rga_queue') = Range(rga_queue) \cup {tee}
      BY <2>2, RangeAppend DEF TeePushRga, TypeOK
    <3>3. Waiting' = Waiting \cup {tee}
      BY <1>1, <3>2 DEF Waiting
    <3>4. Cardinality(Waiting') \in Nat /\ Cardinality(Waiting') <= Cardinality(Waiting) + 1
      <4>1. CASE tee \in Waiting
        <5>1. Waiting' = Waiting
          BY <3>3, <4>1
        <5>2. \A c \in Nat : c <= c + 1
          OBVIOUS
        <5> QED BY <1>2, <5>1, <5>2, Zenon
      <4>2. CASE tee \notin Waiting
        <5>1. Waiting \in SUBSET Buffers /\ tee \in Buffers \ Waiting
          BY <3>2, <4>2, ComingIsNat
        <5>2. Cardinality(Waiting \cup {tee}) = Cardinality(Waiting) + 1
          BY <5>1, WaitingIsFinite
        <5>3. Cardinality(Waiting') = Cardinality(Waiting) + 1
          BY <3>3, <5>2
        <5>4. \A c \in Nat : c + 1 \in Nat /\ c + 1 <= c + 1
          OBVIOUS
        <5> QED BY <1>2, <5>3, <5>4, Zenon
      <4> QED BY <4>1, <4>2
    <3> QED BY <1>1, <1>2, <3>1, <3>4 DEF Coming
  <2>3. CASE TeePushTrans
    <3>1. Split = 1 /\ Split' = 0
      BY <2>3 DEF TeePushTrans, Split
    <3>2. Waiting' = Waiting
      BY <1>1, <2>3 DEF TeePushTrans, Waiting
    <3>3. Len(trans_queue') = Len(trans_queue) + 1
      BY <2>3, RangeAppend DEF TeePushTrans, TypeOK
    <3> QED BY <1>1, <1>2, <3>1, <3>2, <3>3 DEF Coming
  <2> QED BY <2>1, <2>2, <2>3 DEF Tee
<1> QED BY <1>1, <1>2, <1>3, NoMoreBoxes DEF BoxInv

(* inference_thread.                                                        *)
LEMMA ThreadBoxes ==
  ASSUME Inv, TypeOK', BoxInv,
         \/ ModelReady \/ WaitForFrame \/ SpuriousWakeup \/ LeaveInference
         \/ CapsFail \/ ScaleFail \/ PushBox \/ InferenceDone
  PROVE  BoxInv'
<1> USE DEF Inv
<1>1. None \notin Buffers
  BY BuffersAssumption
<1>2. UNCHANGED <<tee, tee_next, rga_queue, rendering, pulled, dma_fd_queue, trans_queue,
                  probing>>
  BY DEF ModelReady, WaitForFrame, SpuriousWakeup, LeaveInference, CapsFail, ScaleFail, PushBox,
         InferenceDone
<1>3. Waiting' \subseteq Waiting
  <2>1. \A b \in Buffers : b = dctx' /\ inference' = "scale" => b = dctx /\ inference = "scale"
    BY DEF ModelReady, WaitForFrame, SpuriousWakeup, LeaveInference, CapsFail, ScaleFail, PushBox,
           InferenceDone
  <2> QED BY <1>2, <2>1 DEF Waiting
<1>4. g_bb_q' + Left' = g_bb_q + Left
  <2>1. CASE PushBox
    <3>1. g_bb_q \in Nat /\ boxes_left \in Nat
      BY BoundsAssumption DEF TypeOK
    <3> QED BY <2>1, <3>1 DEF PushBox, Left
  <2>2. CASE ~ PushBox
    <3>1. g_bb_q' = g_bb_q /\ Left' = Left
      BY <2>2 DEF ModelReady, WaitForFrame, SpuriousWakeup, LeaveInference, CapsFail, ScaleFail,
                  InferenceDone, Left
    <3> QED BY <3>1
  <2> QED BY <2>1, <2>2
<1>5. inference' \in {"scale", "run"} => dctx' # None
  BY DEF BoxInv, ModelReady, WaitForFrame, SpuriousWakeup, LeaveInference, CapsFail, ScaleFail,
         PushBox, InferenceDone
<1> QED BY <1>2, <1>3, <1>4, <1>5, SameWaiting

(* The frame in the model turns into its boxes.                             *)
LEMMA InferBoxes ==
  ASSUME Inv, TypeOK', BoxInv, NEW n \in 0 .. MaxBoxes, Infer(n)
  PROVE  BoxInv'
<1> USE DEF Inv
<1> DEFINE bound == MaxBoxes * (Cardinality(Buffers) + (QueueCap + 2))
<1>1. /\ inference = "scale" /\ inference' = "run" /\ boxes_left' = n /\ dctx' = dctx
      /\ UNCHANGED <<tee, tee_next, rga_queue, rendering, pulled, dma_fd_queue, trans_queue,
                     probing, g_bb_q>>
  BY DEF Infer
<1>2. dctx \in Buffers /\ dctx # None
  BY <1>1 DEF BoxInv, TypeOK
<1>3. Left = 0 /\ Left' = n
  BY <1>1 DEF Left
<1>4. dctx \notin Waiting' /\ Waiting = Waiting' \cup {dctx}
  BY <1>1, <1>2 DEF Waiting, Ahead
<1>5. Waiting' \in SUBSET Buffers /\ Cardinality(Waiting') \in Nat
  BY WaitingIsFinite DEF Waiting
<1>6. Cardinality(Waiting) = Cardinality(Waiting') + 1
  BY <1>2, <1>4, <1>5, WaitingIsFinite
<1>7. Split' = Split /\ Entering' = Entering
  BY <1>1 DEF Split, Entering
<1>8. Coming = Coming' + 1 /\ Coming' \in Nat
  <2>1. Coming' \in Nat
    BY ComingStaysNat
  <2> QED BY <1>1, <1>5, <1>6, <1>7, <2>1, ComingIsNat DEF Coming
<1>9. MaxBoxes * Coming = MaxBoxes * Coming' + MaxBoxes /\ MaxBoxes * Coming' \in Nat
  BY <1>8, ComingIsNat, Times
<1>10. (g_bb_q + Left) + MaxBoxes * Coming <= bound
  BY DEF BoxInv
<1>11. bound \in Nat
  BY ComingIsNat, WaitingIsFinite, Times
<1>12. (g_bb_q' + Left') + MaxBoxes * Coming' <= bound
  <2> DEFINE new == MaxBoxes * Coming'
             old == MaxBoxes * Coming
  <2>1. old = new + MaxBoxes /\ new \in Nat /\ (g_bb_q + Left) + old <= bound
    BY <1>9, <1>10
  <2>2. g_bb_q \in Nat /\ MaxBoxes \in Nat /\ g_bb_q' = g_bb_q
    BY <1>1, ComingIsNat
  <2> HIDE DEF bound, new, old
  <2>3. (g_bb_q' + Left') + new <= bound
    BY <1>3, <1>11, <2>1, <2>2
  <2> QED BY <2>3 DEF new
<1> QED BY <1>1, <1>2, <1>12 DEF BoxInv

(* The frame that leaves q_trans makes room for one more.                   *)
LEMMA ProbeCalledBoxes ==
  ASSUME Inv, TypeOK', BoxInv, ProbeCalled
  PROVE  BoxInv'
<1> USE DEF Inv
<1>1. /\ UNCHANGED <<inferenceVars, g_bb_q, rga_queue, rendering, pulled, dma_fd_queue, tee,
                     tee_next>>
      /\ probing = None /\ probing' \in Buffers
      /\ trans_queue # << >> /\ trans_queue' = Tail(trans_queue)
  BY TailInjection DEF ProbeCalled, TypeOK, Distinct
<1>2. Left' = Left /\ Split' = Split /\ Waiting' = Waiting
  BY <1>1 DEF Left, Split, Waiting
<1>3. Entering = 1 /\ Entering' = 0
  BY <1>1, BuffersAssumption DEF Entering
<1>4. Len(trans_queue') = Len(trans_queue) - 1
  BY <1>1 DEF TypeOK
<1>5. /\ Cardinality(Waiting) \in Nat /\ Len(trans_queue) \in Nat /\ QueueCap \in Nat
      /\ g_bb_q \in Nat /\ Left \in Nat /\ Split \in 0 .. 1
  BY ComingIsNat
<1>6. Coming' <= Coming
  BY <1>2, <1>3, <1>4, <1>5 DEF Coming
<1> QED BY <1>1, <1>2, <1>5, <1>6, NoMoreBoxes DEF BoxInv

(* The probe leaves what the buffers and the places before it can bring.    *)
LEMMA ProbeBoxes ==
  ASSUME Inv, TypeOK', BoxInv, Probe
  PROVE  BoxInv'
<1> USE DEF Inv
<1> DEFINE N == Cardinality(Buffers)
           Run == IF inference = "run" THEN 1 ELSE 0
<1>1. /\ g_bb_q' = 0 /\ probing' = None
      /\ UNCHANGED <<tee, tee_next, rga_queue, rendering, pulled, dma_fd_queue, trans_queue,
                     inferenceVars>>
  BY DEF Probe
<1>2. Waiting' = Waiting /\ Left' = Left /\ Split' = Split /\ Entering' = 1
  BY <1>1 DEF Waiting, Left, Split, Entering
<1>3. Len(trans_queue') \in Nat
  BY <1>1 DEF TypeOK
<1>4. Cardinality(Waiting) + Run <= N /\ N \in Nat
  <2>1. CASE inference = "run"
    <3>1. dctx \in Buffers \ Waiting
      BY <2>1 DEF BoxInv, TypeOK, Waiting, Ahead
    <3>2. Waiting \cup {dctx} \in SUBSET Buffers
      BY <3>1, ComingIsNat
    <3>3. Cardinality(Waiting \cup {dctx}) = Cardinality(Waiting) + 1
      BY <3>1, ComingIsNat, WaitingIsFinite
    <3> QED BY <2>1, <3>2, <3>3, WaitingIsFinite
  <2>2. CASE inference # "run"
    BY <2>2, ComingIsNat, WaitingIsFinite
  <2> QED BY <2>1, <2>2
<1>5. Left <= MaxBoxes * Run /\ MaxBoxes * Run \in Nat
  <2>1. MaxBoxes \in Nat /\ Left \in 0 .. MaxBoxes
    BY ComingIsNat
  <2>2. CASE inference = "run"
    BY <2>1, <2>2
  <2>3. CASE inference # "run"
    BY <2>1, <2>3 DEF Left
  <2> QED BY <2>2, <2>3
<1>6. /\ Coming' + Run <= N + (QueueCap + 2)
      /\ Coming' \in Nat /\ MaxBoxes \in Nat /\ QueueCap \in Nat /\ Left \in Nat
  <2>1. Coming' \in Nat
    BY ComingStaysNat
  <2>2. Coming' = Cardinality(Waiting) + ((QueueCap - Len(trans_queue)) + (1 - Split) + 1)
    BY <1>1, <1>2 DEF Coming
  <2>3. Cardinality(Waiting) \in Nat /\ Len(trans_queue) \in Nat /\ Split \in 0 .. 1
        /\ QueueCap \in Nat /\ Run \in 0 .. 1
    BY ComingIsNat
  <2>4. Coming' + Run <= N + (QueueCap + 2)
    <3> HIDE DEF Run, N
    <3> QED BY <1>4, <2>2, <2>3
  <2> QED BY <2>1, <2>4, ComingIsNat
<1>7. MaxBoxes * Coming' + MaxBoxes * Run <= MaxBoxes * (N + (QueueCap + 2))
  <2>1. Coming' + Run \in Nat /\ N + (QueueCap + 2) \in Nat /\ Run \in Nat
    <3>1. Run \in Nat /\ Coming' \in Nat /\ N \in Nat /\ QueueCap + 2 \in Nat
      BY <1>4, <1>6
    <3> HIDE DEF Run, N
    <3> QED BY <3>1, Sums, Zenon
  <2>2. MaxBoxes * (Coming' + Run) <= MaxBoxes * (N + (QueueCap + 2))
    BY <1>6, <2>1, Times
  <2>3. MaxBoxes * (Coming' + Run) = MaxBoxes * Coming' + MaxBoxes * Run
    BY <1>6, <2>1
  <2> QED BY <2>2, <2>3
<1>8. (g_bb_q' + Left') + MaxBoxes * Coming' <= MaxBoxes * (N + (QueueCap + 2))
  <2> DEFINE new == MaxBoxes * Coming'
             bound == MaxBoxes * (N + (QueueCap + 2))
             run == MaxBoxes * Run
  <2>1. new + run <= bound /\ Left <= run /\ run \in Nat
    BY <1>5, <1>7, Zenon
  <2>4. new \in Nat
    BY <1>6, Sums, Zenon
  <2>3. bound \in Nat
    <3>1. N + (QueueCap + 2) \in Nat
      BY <1>4, <1>6
    <3> QED BY <1>6, <3>1, Times
  <2> HIDE DEF new, bound, run
  <2>2. (g_bb_q' + Left') + new <= bound
    BY <1>1, <1>2, <1>6, <2>1, <2>3, <2>4
  <2> QED BY <2>2 DEF new, bound
<1> QED BY <1>1, <1>8 DEF BoxInv

LEMMA BoxStep ==
  ASSUME Inv, BoxInv, [Next]_vars
  PROVE  BoxInv'
<1>1. TypeOK /\ TypeOK'
  BY NextInv DEF Inv
<1>2. CASE \/ UNCHANGED vars \/ LeaveCapture \/ Dequeue \/ PushFrame \/ PushFails
           \/ \E b \in Buffers : Fill(b) \/ Encoded(b)
  <2>1. UNCHANGED <<tee, tee_next, rga_queue, rendering, pulled, dma_fd_queue, trans_queue,
                    probing, inferenceVars, g_bb_q>>
    BY <1>2 DEF vars, LeaveCapture, Dequeue, PushFrame, PushFails, Fill, Encoded
  <2> QED BY <2>1 DEF BoxInv, Coming, Waiting, Split, Entering, Left
<1>3. CASE ProbeCalled \/ Probe
  BY <1>1, <1>3, ProbeCalledBoxes, ProbeBoxes
<1>4. CASE Tee
  BY <1>1, <1>4, TeeBoxes
<1>5. CASE Sink \/ TakeFrame
  BY <1>1, <1>5, BranchBoxes DEF Sink
<1>6. CASE \E n \in 0 .. MaxBoxes : Infer(n)
  BY <1>1, <1>6, InferBoxes
<1>7. CASE \/ ModelReady \/ WaitForFrame \/ SpuriousWakeup \/ LeaveInference
           \/ CapsFail \/ ScaleFail \/ PushBox \/ InferenceDone
  BY <1>1, <1>7, ThreadBoxes
<1> QED BY <1>2, <1>3, <1>4, <1>5, <1>6, <1>7 DEF Next, Capture, Inference, Encoder

(* However long the pipeline runs, no more boxes gather in g_bb_q than the  *)
(* frames before inference, and those that can still get there before the   *)
(* probe is called again, can bring.                                        *)
THEOREM BoxesAreBounded == Spec => []BoxBound
<1>1. Init => BoxInv
  <2>1. SUFFICES ASSUME Init PROVE BoxInv
    OBVIOUS
  <2>2. /\ Waiting = {} /\ Split = 0 /\ Entering = 1 /\ Left = 0 /\ g_bb_q = 0
        /\ Len(trans_queue) = 0
    BY <2>1, EmptyQueue, BuffersAssumption DEF Init, Waiting, Split, Entering, Left
  <2>3. Coming = QueueCap + 2
    BY <2>2, FS_EmptySet, BoundsAssumption DEF Coming
  <2>4. Coming <= Cardinality(Buffers) + (QueueCap + 2) /\ Coming \in Nat
        /\ Cardinality(Buffers) + (QueueCap + 2) \in Nat /\ MaxBoxes \in Nat
    BY <2>3, WaitingIsFinite, BoundsAssumption
  <2>5. MaxBoxes * Coming <= MaxBoxes * (Cardinality(Buffers) + (QueueCap + 2))
        /\ MaxBoxes * Coming \in Nat
    BY <2>4, Times
  <2> QED BY <2>1, <2>2, <2>5 DEF Init, BoxInv
<1>2. Inv /\ BoxInv /\ [Next]_vars => BoxInv'
  BY BoxStep
<1>3. Inv /\ BoxInv => BoxBound
  <2>1. SUFFICES ASSUME Inv, BoxInv PROVE BoxBound
    OBVIOUS
  <2> DEFINE old == MaxBoxes * Coming
             bound == MaxBoxes * (Cardinality(Buffers) + (QueueCap + 2))
  <2>2. g_bb_q \in Nat /\ Left \in Nat /\ old \in Nat /\ bound \in Nat
    BY <2>1, ComingIsNat, WaitingIsFinite, Times DEF Inv
  <2>3. (g_bb_q + Left) + old <= bound
    BY <2>1 DEF BoxInv
  <2>4. bound = MaxBoxes * (Cardinality(Buffers) + QueueCap + 2)
    BY WaitingIsFinite, BoundsAssumption
  <2>5. g_bb_q <= bound
    <3> HIDE DEF old, bound
    <3> QED BY <2>2, <2>3
  <2> QED BY <2>4, <2>5 DEF BoxBound
<1> QED BY Invariance, <1>1, <1>2, <1>3, PTL DEF Spec
=============================================================================
