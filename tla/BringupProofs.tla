---------------------------- MODULE BringupProofs ----------------------------
(***************************************************************************)
(* The safety of bring-up for every number of buffers, every answer of      *)
(* REQBUFS and every model: proofs about Bringup.                           *)
(*                                                                         *)
(* MemoryInv follows the allocation, QueueInv the buffers until start() has *)
(* returned, and PlaceInv the buffers once the threads run.  ModelInv is    *)
(* about the model, of which only inference_thread knows.                   *)
(***************************************************************************)
EXTENDS Bringup, FiniteSetTheorems, SequenceTheorems, TLAPS

Opening == {"open", "set_format", "get_format", "request"}
Built == {"build", "initialised"}
Starting == {"queue", "stream_on", "play", "spawn"}

(* Allocation number n has gone into entry n, or behind the array.          *)
Entry(n) == IF n < dma_fds THEN [index |-> n, num_planes |-> 1, fd |-> n + 1]
            ELSE Zeroed

MemoryInv ==
  /\ dma_fds \in Nat /\ requested \in Nat /\ next \in Nat
  /\ out_buffers = [n \in Indices |-> Entry(n)]
  /\ overrun \in BOOLEAN /\ (overrun = TRUE <=> dma_fds > NumBuffers)
  /\ app \in Opening => dma_fds = 0 /\ heap_open = FALSE
  /\ app = "alloc" =>
       dma_fds = next /\ next <= requested /\ (heap_open = TRUE => next < requested)
  /\ app \notin Opening \cup {"alloc"} => dma_fds = requested /\ heap_open = FALSE
  /\ heap_open \in BOOLEAN

(* A buffer is queued only if it has been allocated, so who gets through    *)
(* the queueing was granted enough of them.                                 *)
QueueInv ==
  /\ app \in Opening \cup {"alloc"} \cup Built \cup Starting \cup {"started"}
  /\ app \in Opening \cup {"alloc"} \cup Built => queued = {}
  /\ app \notin {"play", "spawn", "started"} => filled = {} /\ streaming = FALSE
  /\ app = "queue" => next <= NumBuffers /\ next <= requested /\ queued = 0..(next - 1)
  /\ app \in {"stream_on", "play", "spawn", "started"} => NumBuffers <= requested
  /\ app \in {"stream_on", "play", "spawn"} =>
       \A n \in Indices : n \in queued \/ n \in filled
  /\ app = "started" => overrun = FALSE /\ capture # "none"
  /\ app # "started" => /\ capture = "none" /\ inference = "none"
                        /\ held = {} /\ buf = NoBuffer /\ dctx = NoBuffer

(* Each buffer is in one place; what the threads' program counters say of   *)
(* their hands, and of the driver.                                          *)
PlaceInv ==
  /\ queued \subseteq Indices /\ filled \subseteq Indices /\ held \subseteq Indices
  /\ buf \in Indices \cup {NoBuffer} /\ dctx \in Indices \cup {NoBuffer}
  /\ \A n \in queued : n \notin filled /\ n \notin held /\ n # buf
  /\ \A n \in filled : n \notin held /\ n # buf
  /\ buf \notin held
  /\ capture # "none" => \A n \in Indices : n \in queued \/ n \in filled \/ n \in held \/ n = buf
  /\ capture # "push" => buf = NoBuffer
  /\ capture = "push" => buf # NoBuffer
  /\ capture = "dequeue" => filled # {}

Inv == MemoryInv /\ QueueInv /\ PlaceInv

-----------------------------------------------------------------------------
(* Nothing that Inv speaks of changes.                                      *)
LEMMA InvStutter ==
  ASSUME Inv, UNCHANGED <<app, next, capture, buf, inference, dctx, held, requested,
                          streaming, bufferVars, driverVars>>
  PROVE  Inv'
BY DEF Inv, MemoryInv, Entry, QueueInv, PlaceInv, bufferVars, driverVars

LEMMA InitInv ==
  ASSUME Init
  PROVE  Inv
<1> USE NumBuffersAssumption, DriverCountsAssumption
<1>1. MemoryInv
  <2>1. ASSUME NEW n \in Indices PROVE Entry(n) = Zeroed
    BY DEF Init, DeviceInit, Entry, Indices
  <2>2. out_buffers = [n \in Indices |-> Entry(n)]
    BY <2>1, Zenon DEF Init, DeviceInit, Indices
  <2>3. overrun = FALSE /\ ~ (dma_fds > NumBuffers)
    BY DEF Init, DeviceInit
  <2> QED BY <2>2, <2>3 DEF Init, DeviceInit, MemoryInv, Opening
<1>2. QueueInv
  BY DEF Init, DeviceInit, QueueInv, Opening, Built, Starting, NoBuffer
<1>3. PlaceInv
  BY DEF Init, DeviceInit, PlaceInv, Indices, NoBuffer
<1> QED BY <1>1, <1>2, <1>3 DEF Inv

(* An allocated entry knows its own index.                                  *)
LEMMA EntryIsOwn ==
  ASSUME MemoryInv, NEW n \in Indices
  PROVE  /\ out_buffers[n].num_planes = 1 <=> n < dma_fds
         /\ n < dma_fds => out_buffers[n].index = n /\ out_buffers[n].fd = n + 1
         /\ n >= dma_fds => out_buffers[n].fd = 0
BY NumBuffersAssumption DEF MemoryInv, Entry, Zeroed, Indices

-----------------------------------------------------------------------------
(* init().                                                                  *)
LEMMA OpeningInv ==
  ASSUME Inv, Open \/ Negotiate \/ ReadFormat \/ Request
  PROVE  Inv'
<1> USE NumBuffersAssumption, DriverCountsAssumption
          DEF AppGoto, AppAt, captureThreadVars, inferenceThreadVars, bufferVars, driverVars
<1>1. MemoryInv'
  <2>1. /\ app \in Opening /\ app' \in Opening \cup {"alloc"} /\ next' \in Nat
        /\ requested' \in Nat /\ (app' = "alloc" => next' = 0)
        /\ UNCHANGED bufferVars
    BY DEF Inv, MemoryInv, Opening, Open, OpenDevice, Negotiate, SetFormat, ReadFormat, GetFormat,
           Request, RequestBuffers
  <2> QED BY <2>1 DEF Inv, MemoryInv, Entry, Opening
<1>2. QueueInv'
  BY DEF Inv, QueueInv, Opening, Built, Starting, Open, OpenDevice, Negotiate, SetFormat,
         ReadFormat, GetFormat, Request, RequestBuffers
<1>3. PlaceInv'
  BY DEF Inv, PlaceInv, Open, OpenDevice, Negotiate, SetFormat, ReadFormat, GetFormat,
         Request, RequestBuffers
<1> QED BY <1>1, <1>2, <1>3 DEF Inv

LEMMA AllocInv ==
  ASSUME Inv, AllocOpen \/ Alloc \/ AllocDone
  PROVE  Inv'
<1> USE NumBuffersAssumption
          DEF AppGoto, AppAt, captureThreadVars, inferenceThreadVars, captureVars, deviceVars,
              bufferVars, driverVars
<1>1. MemoryInv'
  <2>1. CASE AllocOpen
    BY <2>1 DEF Inv, MemoryInv, Entry, Opening, AllocOpen, OpenHeap
  <2>2. CASE AllocDone
    BY <2>2 DEF Inv, MemoryInv, Entry, Opening, AllocDone
  <2>3. CASE Alloc
    <3>1. /\ dma_fds' = dma_fds + 1 /\ next' = next + 1 /\ app' = "alloc"
          /\ dma_fds = next /\ next < requested /\ heap_open' = FALSE
          /\ requested' = requested
      BY <2>3 DEF Inv, MemoryInv, Alloc, AllocBuffer
    <3>0. /\ dma_fds' \in Nat /\ requested' \in Nat /\ next' \in Nat
          /\ dma_fds' = next' /\ next' <= requested'
      BY <3>1 DEF Inv, MemoryInv
    <3>2. CASE next < NumBuffers
      <4>1. /\ out_buffers' = [out_buffers EXCEPT ![next] =
                                 [index |-> next, num_planes |-> 1, fd |-> dma_fds']]
            /\ UNCHANGED overrun
        BY <2>3, <3>2 DEF Alloc, AllocBuffer, Store, Inv, MemoryInv
      <4>2. ASSUME NEW n \in Indices
            PROVE  Entry(n)' = IF n = next THEN [index |-> next, num_planes |-> 1, fd |-> dma_fds']
                               ELSE Entry(n)
        BY <3>1 DEF Inv, MemoryInv, Entry, Indices, Zeroed
      <4>3. out_buffers' = [n \in Indices |-> Entry(n)']
        BY <4>1, <4>2, Zenon DEF Inv, MemoryInv
      <4>4. overrun' \in BOOLEAN /\ (overrun' = TRUE <=> dma_fds' > NumBuffers)
        BY <3>1, <3>2, <4>1 DEF Inv, MemoryInv
      <4> QED BY <3>0, <3>1, <4>3, <4>4 DEF MemoryInv, Opening
    <3>3. CASE next >= NumBuffers
      <4>1. overrun' = TRUE /\ UNCHANGED out_buffers
        BY <2>3, <3>3 DEF Alloc, AllocBuffer, Store, Inv, MemoryInv
      <4>2. ASSUME NEW n \in Indices PROVE Entry(n)' = Entry(n)
        BY <3>1, <3>3 DEF Inv, MemoryInv, Entry, Indices
      <4>3. out_buffers' = [n \in Indices |-> Entry(n)']
        BY <4>1, <4>2, Zenon DEF Inv, MemoryInv
      <4>4. overrun' \in BOOLEAN /\ (overrun' = TRUE <=> dma_fds' > NumBuffers)
        BY <3>1, <3>3, <4>1 DEF Inv, MemoryInv
      <4> QED BY <3>0, <3>1, <4>3, <4>4 DEF MemoryInv, Opening
    <3>4. next \in Nat
      BY DEF Inv, MemoryInv
    <3> QED BY <3>2, <3>3, <3>4
  <2> QED BY <2>1, <2>2, <2>3
<1>2. QueueInv'
  BY DEF Inv, QueueInv, Opening, Built, Starting, AllocOpen, OpenHeap, Alloc, AllocBuffer, AllocDone
<1>3. PlaceInv'
  BY DEF Inv, PlaceInv, AllocOpen, OpenHeap, Alloc, AllocBuffer, AllocDone
<1> QED BY <1>1, <1>2, <1>3 DEF Inv

-----------------------------------------------------------------------------
(* start().                                                                 *)
LEMMA StartInv ==
  ASSUME Inv, Build \/ Start \/ QueueDone \/ StartStream \/ Play
  PROVE  Inv'
<1> USE NumBuffersAssumption
          DEF AppGoto, AppAt, captureThreadVars, inferenceThreadVars, captureVars, deviceVars,
              bufferVars, driverVars
<1>1. MemoryInv'
  BY DEF Inv, MemoryInv, Entry, Opening, Build, Start, QueueDone, StartStream, StreamOn, Play
<1>2. QueueInv'
  <2>1. CASE Build
    BY <2>1 DEF Inv, QueueInv, Opening, Built, Starting, Build
  <2>2. CASE Start
    BY <2>2 DEF Inv, MemoryInv, QueueInv, Opening, Built, Starting, Start
  <2>3. CASE QueueDone
    BY <2>3 DEF Inv, MemoryInv, QueueInv, Opening, Built, Starting, QueueDone, Indices
  <2>4. CASE StartStream
    BY <2>4 DEF Inv, QueueInv, Opening, Built, Starting, StartStream, StreamOn
  <2>5. CASE Play
    BY <2>5 DEF Inv, QueueInv, Opening, Built, Starting, Play
  <2> QED BY <2>1, <2>2, <2>3, <2>4, <2>5
<1>3. PlaceInv'
  BY DEF Inv, PlaceInv, Build, Start, QueueDone, StartStream, StreamOn, Play
<1> QED BY <1>1, <1>2, <1>3 DEF Inv

LEMMA QueueStep ==
  ASSUME Inv, Queue
  PROVE  Inv'
<1> USE NumBuffersAssumption
          DEF AppGoto, AppAt, captureThreadVars, inferenceThreadVars, deviceVars, bufferVars
<1>0. next \in Indices /\ app = "queue" /\ app' = "queue" /\ next' = next + 1
  BY DEF Queue, Inv, MemoryInv, Indices
<1>1. next < dma_fds /\ out_buffers[next].index = next
  BY <1>0, EntryIsOwn DEF Queue, QueueBuffer, CanQueue, Inv
<1>2. queued' = queued \cup {next} /\ UNCHANGED filled
  BY <1>1 DEF Queue, QueueBuffer
<1>3. MemoryInv'
  BY <1>0 DEF Inv, MemoryInv, Entry, Opening, Queue, QueueBuffer
<1>4. QueueInv'
  BY <1>0, <1>1, <1>2
     DEF Inv, MemoryInv, QueueInv, Opening, Built, Starting, Queue, QueueBuffer, Indices
<1>5. PlaceInv'
  <2>1. held = {} /\ buf = NoBuffer /\ capture = "none" /\ filled = {} /\ dctx = NoBuffer
    BY <1>0 DEF Inv, QueueInv
  <2>2. next # NoBuffer
    BY <1>0 DEF Indices, NoBuffer
  <2> QED BY <1>0, <1>2, <2>1, <2>2 DEF Inv, PlaceInv, Queue, QueueBuffer
<1> QED BY <1>3, <1>4, <1>5 DEF Inv

LEMMA SpawnInv ==
  ASSUME Inv, Spawn
  PROVE  Inv'
<1> USE NumBuffersAssumption
          DEF AppGoto, AppAt, captureVars, deviceVars, bufferVars, driverVars
<1>1. MemoryInv'
  BY DEF Inv, MemoryInv, Entry, Opening, Spawn
<1>2. QueueInv'
  BY DEF Inv, MemoryInv, QueueInv, Opening, Built, Starting, Spawn
<1>3. PlaceInv'
  BY DEF Inv, QueueInv, PlaceInv, Spawn
<1> QED BY <1>1, <1>2, <1>3 DEF Inv

-----------------------------------------------------------------------------
(* The threads.                                                             *)

(* Whoever holds a buffer runs in a started engine, in which every entry    *)
(* is its buffer's.                                                         *)
LEMMA StartedEntry ==
  ASSUME Inv, app = "started", NEW n \in Indices
  PROVE  out_buffers[n].index = n /\ n < dma_fds
<1>1. n < dma_fds
  BY NumBuffersAssumption DEF Inv, MemoryInv, QueueInv, Opening, Indices
<1> QED BY <1>1, EntryIsOwn DEF Inv

LEMMA CaptureStep ==
  ASSUME Inv, CheckRunning \/ Poll \/ Dequeue \/ Push
  PROVE  Inv'
<1> USE NumBuffersAssumption
          DEF CaptureAt, CaptureUnchanged, appVars, inferenceThreadVars, captureVars, deviceVars,
              bufferVars, driverVars
<1>1. app = "started"
  BY DEF Inv, QueueInv, CheckRunning, Poll, Dequeue, Push
<1>2. MemoryInv'
  BY DEF Inv, MemoryInv, Entry, Opening, CheckRunning, Poll, Dequeue, DequeueBuffer, Push
<1>3. QueueInv'
  BY <1>1 DEF Inv, QueueInv, Opening, Built, Starting, CheckRunning, Poll, Dequeue,
              DequeueBuffer, Push
<1>4. PlaceInv'
  <2>1. CASE CheckRunning
    BY <2>1 DEF Inv, PlaceInv, CheckRunning
  <2>2. CASE Poll
    BY <2>2 DEF Inv, PlaceInv, Poll
  <2>3. CASE Dequeue
    <3>1. PICK n \in filled : DequeueBuffer(n) /\ buf' = n
      BY <2>3 DEF Dequeue
    <3>2. n \in Indices /\ n # NoBuffer /\ NoBuffer \notin Indices
      BY DEF Inv, PlaceInv, Indices, NoBuffer
    <3>3. /\ filled' = filled \ {n} /\ UNCHANGED <<queued, held, dctx>>
          /\ buf = NoBuffer /\ capture = "dequeue" /\ capture' = "push"
      BY <2>3, <3>1 DEF Inv, PlaceInv, Dequeue, DequeueBuffer
    <3>4. /\ n \notin queued /\ n \notin held
          /\ \A m \in Indices : m \in queued \/ m \in filled \/ m \in held
      BY <3>1, <3>2, <3>3 DEF Inv, PlaceInv
    <3> QED BY <3>1, <3>2, <3>3, <3>4 DEF Inv, PlaceInv
  <2>4. CASE Push
    <3>1. NoBuffer \notin Indices
      BY DEF Indices, NoBuffer
    <3> QED BY <2>4, <3>1 DEF Inv, PlaceInv, Push
  <2> QED BY <2>1, <2>2, <2>3, <2>4
<1> QED BY <1>2, <1>3, <1>4 DEF Inv

LEMMA PushFailsStep ==
  ASSUME Inv, PushFails
  PROVE  Inv'
<1> USE NumBuffersAssumption
          DEF CaptureAt, CaptureUnchanged, appVars, inferenceThreadVars, deviceVars, bufferVars
<1>1. app = "started" /\ buf \in Indices /\ capture = "push" /\ capture' = "loop"
  BY DEF Inv, QueueInv, PlaceInv, PushFails
<1>2. queued' = queued \cup {buf} /\ UNCHANGED filled
  BY <1>1, StartedEntry DEF PushFails, QueueBuffer
<1>3. MemoryInv'
  BY DEF Inv, MemoryInv, Entry, Opening, PushFails, QueueBuffer
<1>4. QueueInv'
  BY <1>1 DEF Inv, QueueInv, Opening, Built, Starting, PushFails, QueueBuffer
<1>5. PlaceInv'
  <2>1. NoBuffer \notin Indices
    BY DEF Indices, NoBuffer
  <2> QED BY <1>1, <1>2, <2>1 DEF Inv, PlaceInv, PushFails
<1> QED BY <1>3, <1>4, <1>5 DEF Inv

LEMMA PushToFreedStep ==
  ASSUME Inv, PushToFreed
  PROVE  Inv'
<1> USE NumBuffersAssumption
          DEF CaptureAt, engineVars, appVars, captureThreadVars, inferenceThreadVars, captureVars,
              deviceVars, bufferVars, driverVars
<1>1. CASE UNCHANGED <<engineVars, deviceVars, bufferVars, driverVars>>
  BY <1>1, InvStutter
<1>2. CASE ~ UNCHANGED <<engineVars, deviceVars, bufferVars, driverVars>>
  <2>1. /\ held' = held \cup {buf} /\ buf' = NoBuffer /\ capture' = "loop"
        /\ UNCHANGED <<appVars, inferenceThreadVars, captureVars>>
    BY <1>2 DEF PushToFreed
  <2>2. app = "started" /\ capture = "push"
    BY DEF Inv, QueueInv, PushToFreed
  <2>3. MemoryInv'
    BY <2>1 DEF Inv, MemoryInv, Entry, Opening
  <2>4. QueueInv'
    BY <2>1, <2>2 DEF Inv, QueueInv, Opening, Built, Starting
  <2>5. PlaceInv'
    <3>1. NoBuffer \notin Indices
      BY DEF Indices, NoBuffer
    <3> QED BY <2>1, <2>2, <3>1 DEF Inv, PlaceInv
  <2> QED BY <2>3, <2>4, <2>5 DEF Inv
<1> QED BY <1>1, <1>2

LEMMA ReleaseStep ==
  ASSUME Inv, Release
  PROVE  Inv'
<1> USE NumBuffersAssumption
          DEF appVars, captureThreadVars, inferenceThreadVars, deviceVars, bufferVars
<1>1. PICK n \in held \ {dctx} : held' = held \ {n} /\ QueueBuffer(n)
  BY DEF Release
<1>2. app = "started" /\ n \in Indices
  BY DEF Inv, QueueInv, PlaceInv
<1>3. queued' = queued \cup {n} /\ UNCHANGED filled
  BY <1>1, <1>2, StartedEntry DEF QueueBuffer
<1>4. MemoryInv'
  BY <1>1 DEF Inv, MemoryInv, Entry, Opening, Release, QueueBuffer
<1>5. QueueInv'
  BY <1>1, <1>2 DEF Inv, QueueInv, Opening, Built, Starting, Release, QueueBuffer
<1>6. PlaceInv'
  BY <1>1, <1>2, <1>3 DEF Inv, PlaceInv, Release
<1> QED BY <1>4, <1>5, <1>6 DEF Inv

LEMMA InferenceStep ==
  ASSUME Inv, InferenceThread
  PROVE  Inv'
<1> USE NumBuffersAssumption
          DEF InferenceAt, InferenceUnchanged, engineVars, appVars, captureThreadVars,
              inferenceThreadVars, captureVars, deviceVars, bufferVars, driverVars
<1>1. CASE ScaleCrashes \/ InferCrashes
  BY <1>1, InvStutter DEF ScaleCrashes, InferCrashes
<1>2. CASE \/ ModelInitialised \/ TakeFrame \/ CapsFail \/ LeaveInference \/ Scale
           \/ ScaleFails \/ Infer
  <2>1. app = "started"
    BY <1>2 DEF Inv, QueueInv, ModelInitialised, TakeFrame, CapsFail, LeaveInference, Scale,
                ScaleFails, Infer
  <2>2. /\ UNCHANGED <<app, next, capture, buf, held, requested, streaming, bufferVars, driverVars>>
        /\ dctx' \in {dctx, NoBuffer} \cup held
    BY <1>2 DEF ModelInitialised, TakeFrame, CapsFail, LeaveInference, Scale, ScaleFails, Infer
  <2>3. MemoryInv'
    BY <2>2 DEF Inv, MemoryInv, Entry, Opening
  <2>4. QueueInv'
    BY <2>1, <2>2 DEF Inv, QueueInv, Opening, Built, Starting
  <2>5. PlaceInv'
    BY <2>2 DEF Inv, PlaceInv
  <2> QED BY <2>3, <2>4, <2>5 DEF Inv
<1> QED BY <1>1, <1>2 DEF InferenceThread

LEMMA DriverStep ==
  ASSUME Inv, Driver
  PROVE  Inv'
<1> USE NumBuffersAssumption
          DEF engineVars, appVars, captureThreadVars, inferenceThreadVars, deviceVars, bufferVars
<1>1. PICK n \in queued : queued' = queued \ {n} /\ filled' = filled \cup {n}
  BY DEF Driver, Fill
<1>2. streaming /\ UNCHANGED <<engineVars, deviceVars, bufferVars>>
  BY DEF Driver, Fill
<1>3. MemoryInv'
  BY <1>2 DEF Inv, MemoryInv, Entry, Opening
<1>4. QueueInv'
  BY <1>1, <1>2 DEF Inv, QueueInv, Opening, Built, Starting
<1>5. PlaceInv'
  BY <1>1, <1>2 DEF Inv, PlaceInv
<1> QED BY <1>3, <1>4, <1>5 DEF Inv

LEMMA NextInv ==
  ASSUME Inv, [Next]_vars
  PROVE  Inv'
<1> USE DEF engineVars, appVars, captureThreadVars, inferenceThreadVars, captureVars,
            deviceVars, bufferVars, driverVars
<1>1. CASE UNCHANGED vars
  BY <1>1, InvStutter DEF vars
<1>2. CASE AppExits \/ SpawnTerminates \/ Stop \/ DequeueExits \/ PushExits
  BY <1>2, InvStutter DEF AppExits, SpawnTerminates, Stop, DequeueExits, PushExits, Exit
<1>3. CASE App
  BY <1>2, <1>3, OpeningInv, AllocInv, StartInv, QueueStep, SpawnInv DEF App
<1>4. CASE CaptureThread
  BY <1>2, <1>4, CaptureStep, PushFailsStep, PushToFreedStep DEF CaptureThread
<1> QED BY <1>1, <1>2, <1>3, <1>4, ReleaseStep, InferenceStep, DriverStep DEF Next

-----------------------------------------------------------------------------
LEMMA SpecInv == Spec => []Inv
BY InitInv, NextInv, PTL DEF Spec

(* A process that gets to stream has been granted as many buffers as it      *)
(* queued, each with DMA memory of its own, whatever REQBUFS answered.       *)
THEOREM StreamMemoryIsOwn == Spec => []StreamsIntoOwnBuffers
<1>1. Inv => StreamsIntoOwnBuffers
  <2> SUFFICES ASSUME Inv, capture # "none"
               PROVE  /\ requested = NumBuffers /\ ~ overrun
                      /\ \A n \in Indices : out_buffers[n].index = n /\ out_buffers[n].fd # 0
                      /\ \A m, n \in Indices : m # n => out_buffers[m].fd # out_buffers[n].fd
    BY DEF StreamsIntoOwnBuffers
  <2>1. app = "started"
    BY DEF Inv, QueueInv
  <2>2. overrun = FALSE
    BY <2>1 DEF Inv, QueueInv
  <2>3. requested = NumBuffers
    BY <2>1, <2>2, NumBuffersAssumption DEF Inv, MemoryInv, QueueInv, Opening
  <2>4. ASSUME NEW n \in Indices PROVE out_buffers[n].index = n /\ out_buffers[n].fd = n + 1
    BY <2>1, StartedEntry, EntryIsOwn DEF Inv
  <2> QED BY <2>2, <2>3, <2>4, NumBuffersAssumption DEF Indices
<1> QED BY <1>1, SpecInv, PTL

(* No failure of bring-up loses a buffer from under a thread that goes on,   *)
(* and the driver never has one that the pipeline has, too.                  *)
THEOREM BuffersAreNeverLost == Spec => []BuffersHaveOnePlace
<1>1. Inv => BuffersHaveOnePlace
  <2>1. NoBuffer \notin Indices
    BY NumBuffersAssumption DEF Indices, NoBuffer
  <2> QED BY <2>1 DEF Inv, PlaceInv, BuffersHaveOnePlace
<1> QED BY <1>1, SpecInv, PTL

(* dmabuf_alloc closes the heap, and out_buffers knows every DMA buffer that *)
(* was not put behind it.                                                    *)
THEOREM NoDescriptorLeaks == Spec => []DescriptorsAreAccounted
<1>1. Inv => DescriptorsAreAccounted
  <2> SUFFICES ASSUME Inv, app # "alloc"
               PROVE  /\ ~ heap_open
                      /\ ~ overrun => {out_buffers[n].fd : n \in Indices} \ {0} = 1..dma_fds
    BY DEF DescriptorsAreAccounted
  <2>1. heap_open = FALSE
    BY DEF Inv, MemoryInv
  <2>2. ASSUME ~ overrun PROVE {out_buffers[n].fd : n \in Indices} \ {0} = 1..dma_fds
    <3>1. dma_fds \in Nat /\ dma_fds <= NumBuffers
      BY <2>2, NumBuffersAssumption DEF Inv, MemoryInv
    <3>2. ASSUME NEW n \in Indices
          PROVE  out_buffers[n].fd = IF n < dma_fds THEN n + 1 ELSE 0
      BY <3>1, EntryIsOwn DEF Inv, Indices
    <3>3. ASSUME NEW fd \in 1..dma_fds
          PROVE  \E n \in Indices : out_buffers[n].fd = fd
      <4>1. fd - 1 \in Indices /\ fd - 1 < dma_fds
        BY <3>1, NumBuffersAssumption DEF Indices
      <4>2. out_buffers[fd - 1].fd = fd
        BY <4>1, <3>2
      <4> QED BY <4>1, <4>2
    <3>4. ASSUME NEW n \in Indices, out_buffers[n].fd # 0
          PROVE  out_buffers[n].fd \in 1..dma_fds
      BY <3>1, <3>2, <3>4, NumBuffersAssumption DEF Indices
    <3>5. 0 \notin 1..dma_fds
      BY <3>1
    <3> QED BY <3>3, <3>4, <3>5
  <2> QED BY <2>1, <2>2
<1> QED BY <1>1, SpecInv, PTL

(* DQBUF is called only with a frame waiting, so that the blocking device    *)
(* never keeps appsrc_thread from reading is_running.                        *)
THEOREM DequeueFindsAFrame == Spec => []DequeueNeverBlocks
<1>1. Inv => DequeueNeverBlocks
  BY DEF Inv, PlaceInv, DequeueNeverBlocks
<1> QED BY <1>1, SpecInv, PTL

-----------------------------------------------------------------------------
(* What is left of the types.                                               *)
RestTypes ==
  /\ process \in {"running", "exited", "terminated", "crashed"}
  /\ device \in {"closed", "mplane", "single"}
  /\ sizeimage \in {"none", "asked", "other", "zero"}
  /\ requested \in {0} \cup DriverCounts
  /\ streaming \in BOOLEAN
  /\ pipeline \in {"null", "partial", "complete", "freed"}
  /\ is_running \in BOOLEAN
  /\ capture \in {"none", "loop", "poll", "dequeue", "push", "ended"}
  /\ inference \in {"none", "init", "wait", "scale", "run", "ended"}

(* The heads are in one of the orders that std::sort may give.  Labels are  *)
(* there only behind the flag, and behind the flag the group has always     *)
(* been cleared.                                                            *)
ModelInv ==
  /\ ModelTypeOK
  /\ heads # <<>> => heads \in OutputOrders
  /\ labels_init = TRUE => group # "garbage"
  /\ labels_init = FALSE => labels = 0

(* What changes the model's state.                                          *)
LEMMA ModelSteps ==
  ASSUME Next
  PROVE  UNCHANGED rknnVars \/ LoadModel \/ LoadModelFails \/ Run \/ RunCrashes
<1>1. CASE Open \/ Negotiate \/ ReadFormat \/ Request \/ AllocOpen \/ Alloc \/ AllocDone
  BY <1>1 DEF Open, Negotiate, ReadFormat, Request, AllocOpen, Alloc, AllocDone, AppGoto
<1>2. CASE AppExits \/ Build \/ Start \/ Queue \/ QueueDone \/ StartStream
  BY <1>2 DEF AppExits, Build, Start, Queue, QueueDone, StartStream, AppGoto
<1>3. CASE Play \/ SpawnTerminates \/ Spawn \/ Stop \/ Release \/ Driver
  BY <1>3 DEF Play, SpawnTerminates, Spawn, Stop, Release, Driver
<1>4. CASE CaptureThread
  BY <1>4 DEF CaptureThread, CheckRunning, Poll, Dequeue, DequeueExits, Push, PushFails,
              PushExits, CaptureUnchanged, PushToFreed
<1>5. CASE InferenceThread
  <2>1. CASE ModelInitialised
    BY <2>1 DEF ModelInitialised
  <2>2. CASE TakeFrame \/ CapsFail \/ LeaveInference \/ Scale \/ ScaleFails \/ ScaleCrashes
    BY <2>2 DEF TakeFrame, CapsFail, LeaveInference, Scale, ScaleFails, ScaleCrashes
  <2>3. CASE Infer
    BY <2>3 DEF Infer, RunFails
  <2>4. CASE InferCrashes
    BY <2>4 DEF InferCrashes
  <2> QED BY <1>5, <2>1, <2>2, <2>3, <2>4 DEF InferenceThread
<1> QED BY <1>1, <1>2, <1>3, <1>4, <1>5 DEF Next, App

LEMMA RestStep ==
  ASSUME RestTypes, [Next]_vars
  PROVE  RestTypes'
<1> USE DEF engineVars, appVars, captureThreadVars, inferenceThreadVars, captureVars,
            deviceVars, bufferVars, driverVars
<1>1. CASE UNCHANGED vars
  BY <1>1 DEF vars, RestTypes
<1>2. CASE Open \/ Negotiate \/ ReadFormat \/ Request \/ AllocOpen \/ Alloc \/ AllocDone
  BY <1>2 DEF RestTypes, Open, Negotiate, ReadFormat, Request, AllocOpen, Alloc, AllocDone,
              AppGoto, OpenDevice, SetFormat, GetFormat, RequestBuffers, OpenHeap, AllocBuffer
<1>3. CASE AppExits \/ Build \/ Start \/ Queue \/ QueueDone \/ StartStream
  BY <1>3 DEF RestTypes, AppExits, Exit, Build, Start, Queue, QueueBuffer, QueueDone,
              StartStream, StreamOn, AppGoto
<1>4. CASE Play \/ SpawnTerminates \/ Spawn \/ Stop
  BY <1>4 DEF RestTypes, Play, SpawnTerminates, Spawn, Stop
<1>5. CASE CaptureThread
  BY <1>5 DEF RestTypes, CaptureThread, CheckRunning, Poll, Dequeue, DequeueBuffer, DequeueExits,
              Push, PushFails, QueueBuffer, PushExits, PushToFreed, Exit, CaptureUnchanged
<1>6. CASE Release \/ Driver
  BY <1>6 DEF RestTypes, Release, QueueBuffer, Driver, Fill
<1>7. CASE InferenceThread
  BY <1>7 DEF RestTypes, InferenceThread, ModelInitialised, TakeFrame, CapsFail,
              LeaveInference, ScaleCrashes, Scale, ScaleFails, Infer, InferCrashes,
              InferenceUnchanged
<1> QED BY <1>1, <1>2, <1>3, <1>4, <1>5, <1>6, <1>7 DEF Next, App

(* The model.                                                               *)
LEMMA ModelShape ==
  ASSUME ModelTypeOK
  PROVE  /\ Len(model) \in Nat /\ DOMAIN model = Outputs
         /\ \A j \in Outputs : model[j] \in OutputType /\ GridSize(j) \in Nat
<1>1. model \in Seq(OutputType)
  BY ModelsAssumption DEF ModelTypeOK
<1>2. Len(model) \in Nat /\ DOMAIN model = Outputs
  BY <1>1 DEF Outputs
<1>3. ASSUME NEW j \in Outputs PROVE model[j] \in OutputType /\ GridSize(j) \in Nat
  <2>1. model[j] \in OutputType
    BY <1>1, <1>2, ElementOfSeq
  <2> QED BY <2>1 DEF OutputType, GridSize
<1> QED BY <1>2, <1>3

LEMMA LoadStep ==
  ASSUME ModelInv, LoadModel \/ LoadModelFails
  PROVE  ModelInv'
<1>1. Outputs' = Outputs /\ OutputOrders' = OutputOrders /\ model' = model
  BY DEF LoadModel, LoadModelFails, Outputs, OutputOrders, GridSize
<1>2. Len(model) \in Nat /\ Outputs = 1..Len(model)
  BY ModelShape DEF ModelInv, Outputs
<1>3. /\ UNCHANGED resultVars
      /\ ctx' \in BOOLEAN /\ input_mem' \in BOOLEAN /\ initialised' \in BOOLEAN
  BY DEF ModelInv, ModelTypeOK, LoadModel, LoadModelFails
<1>4. output_mem' \in Seq(BOOLEAN) /\ Len(output_mem') \in {0, Len(model)}
  <2>1. CASE UNCHANGED output_mem
    BY <2>1 DEF ModelInv, ModelTypeOK
  <2>2. ASSUME NEW f \in [Outputs -> BOOLEAN], output_mem' = f
        PROVE  output_mem' \in Seq(BOOLEAN) /\ Len(output_mem') \in {0, Len(model)}
    <3>1. f \in [1..Len(model) -> BOOLEAN]
      BY <1>2
    <3>2. f \in Seq(BOOLEAN)
      BY <1>2, <3>1, IsASeq
    <3>3. Len(f) = Len(model)
      BY <1>2, <3>1, <3>2, LenProperties
    <3> QED BY <2>2, <3>2, <3>3
  <2>3. CASE output_mem' = [k \in Outputs |-> TRUE]
    <3>1. output_mem' \in [Outputs -> BOOLEAN]
      BY <2>3
    <3> QED BY <2>2, <3>1, Zenon
  <2>4. CASE \E n \in Outputs : \/ output_mem' = [k \in Outputs |-> k < n]
                                \/ output_mem' = [k \in Outputs |-> k <= n]
    <3>1. \A k, n \in Outputs : (k < n) \in BOOLEAN /\ (k <= n) \in BOOLEAN
      BY <1>2
    <3>2. output_mem' \in [Outputs -> BOOLEAN]
      <4>1. PICK n \in Outputs : \/ output_mem' = [k \in Outputs |-> k < n]
                                \/ output_mem' = [k \in Outputs |-> k <= n]
        BY <2>4
      <4>2. CASE output_mem' = [k \in Outputs |-> k < n]
        BY <3>1, <4>2, Zenon
      <4>3. CASE output_mem' = [k \in Outputs |-> k <= n]
        BY <3>1, <4>3, Zenon
      <4> QED BY <4>1, <4>2, <4>3
    <3> QED BY <2>2, <3>2, Zenon
  <2> QED BY <2>1, <2>3, <2>4 DEF LoadModel, LoadModelFails
<1> QED BY <1>1, <1>3, <1>4 DEF ModelInv, ModelTypeOK, resultVars

LEMMA OrdersShape ==
  ASSUME ModelTypeOK, NEW o \in OutputOrders
  PROVE  /\ o \in [1..3 -> Outputs \cup 1..3] /\ o # <<>>
         /\ Len(model) >= 3 => o \in [1..3 -> Outputs]
<1>1. CASE Len(model) < 3
  BY <1>1 DEF OutputOrders
<1>2. CASE ~ Len(model) < 3
  <2>1. o \in [1..3 -> Outputs]
    BY <1>2 DEF OutputOrders
  <2>2. DOMAIN o = 1..3 /\ DOMAIN <<>> = {}
    BY <2>1
  <2>3. o # <<>>
    BY <2>2
  <2> QED BY <2>1, <2>3
<1> QED BY <1>1, <1>2, ModelShape

LEMMA LabelsStep ==
  ASSUME ModelInv, LoadLabels
  PROVE  /\ labels_init' \in BOOLEAN /\ labels' \in 0..LabelNum /\ group' \in {"set", "garbage"}
         /\ labels_init' = TRUE => group' # "garbage"
         /\ labels_init' = FALSE => labels' = 0
         /\ labels_init = TRUE => labels' = labels /\ labels_init' = TRUE
<1>1. CASE labels_init /\ UNCHANGED <<labels_init, labels>> /\ group' = "set"
  BY <1>1 DEF ModelInv, ModelTypeOK
<1>2. CASE ~ labels_init /\ labels_init' = TRUE /\ ReadLabels /\ group' = "set"
  BY <1>2 DEF ReadLabels
<1>3. CASE ~ labels_init /\ UNCHANGED <<labels_init, labels>> /\ group' = "garbage"
  BY <1>3 DEF ModelInv, ModelTypeOK
<1> QED BY <1>1, <1>2, <1>3 DEF LoadLabels

LEMMA RunStep ==
  ASSUME ModelInv, Run \/ RunCrashes
  PROVE  ModelInv'
<1>0. UNCHANGED modelVars
  BY DEF Run, RunCrashes
<1>1. Outputs' = Outputs /\ OutputOrders' = OutputOrders /\ UNCHANGED modelVars
  BY <1>0 DEF modelVars, Outputs, OutputOrders, GridSize
<1>2. CASE UNCHANGED resultVars
  BY <1>1, <1>2 DEF ModelInv, ModelTypeOK, modelVars, resultVars
<1>3. CASE LoadLabels /\ \E o \in OutputOrders : heads' = o
  <2>1. heads' \in OutputOrders /\ heads' \in [1..3 -> Outputs \cup 1..3]
    BY <1>3, OrdersShape DEF ModelInv
  <2> QED BY <1>1, <1>3, <2>1, LabelsStep DEF ModelInv, ModelTypeOK, modelVars
<1> QED BY <1>2, <1>3 DEF Run, RunCrashes

LEMMA ModelStep ==
  ASSUME ModelInv, [Next]_vars
  PROVE  ModelInv'
<1>1. CASE UNCHANGED rknnVars
  <2>1. Outputs' = Outputs /\ OutputOrders' = OutputOrders
    BY <1>1 DEF rknnVars, modelVars, Outputs, OutputOrders, GridSize
  <2> QED BY <1>1, <2>1 DEF ModelInv, ModelTypeOK, rknnVars, modelVars, resultVars
<1>2. CASE UNCHANGED vars
  BY <1>1, <1>2 DEF vars
<1> QED BY <1>1, <1>2, ModelSteps, LoadStep, RunStep

-----------------------------------------------------------------------------
AllInv == Inv /\ RestTypes /\ ModelInv

LEMMA AllInit ==
  ASSUME Init
  PROVE  AllInv
<1>1. RestTypes
  BY DEF Init, DeviceInit, RestTypes
<1>2. ModelInv
  <2>1. <<>> \in Seq(BOOLEAN) /\ Len(<<>>) = 0
    BY EmptySeq
  <2>2. /\ model \in Models /\ ctx = FALSE /\ input_mem = FALSE /\ output_mem = <<>>
        /\ initialised = FALSE /\ labels_init = FALSE /\ labels = 0 /\ heads = <<>>
        /\ group = "none"
    BY DEF Init, ModelInit
  <2>3. labels \in 0..LabelNum
    BY <2>2, LabelNumAssumption
  <2>4. ModelTypeOK
    BY <2>1, <2>2, <2>3 DEF ModelTypeOK
  <2> QED BY <2>2, <2>4 DEF ModelInv
<1> QED BY <1>1, <1>2, InitInv DEF AllInv

LEMMA SpecAllInv == Spec => []AllInv
<1>1. AllInv /\ [Next]_vars => AllInv'
  BY NextInv, RestStep, ModelStep DEF AllInv
<1> QED BY AllInit, <1>1, PTL DEF Spec

(* The heads.                                                               *)
LEMMA HeadSizes ==
  /\ \A k \in 1..3 : HeadCells(k) \in Nat
  /\ HeadCells(1) > HeadCells(2) /\ HeadCells(2) > HeadCells(3) /\ HeadCells(3) > 0
<1> DEFINE q(k) == ModelSide \div Stride[k]
<1>1. Stride[1] = 8 /\ Stride[2] = 16 /\ Stride[3] = 32
  BY DEF Stride
<1>2. /\ q(1) \in Nat /\ q(2) \in Nat /\ q(3) \in Nat
      /\ q(1) > q(2) /\ q(2) > q(3) /\ q(3) > 0
  <2>1. /\ ModelSide \div 8 \in Nat /\ ModelSide \div 16 \in Nat /\ ModelSide \div 32 \in Nat
        /\ ModelSide \div 8 > ModelSide \div 16 /\ ModelSide \div 16 > ModelSide \div 32
        /\ ModelSide \div 32 > 0
    BY ModelSideAssumption
  <2> QED BY <1>1, <2>1
<1>3. \A a, b \in Nat : a > b => a * a > b * b /\ a * a \in Nat /\ b * b \in Nat
  <2> SUFFICES ASSUME NEW a \in Nat, NEW b \in Nat, a > b
               PROVE  a * a > b * b /\ a * a \in Nat /\ b * b \in Nat
    OBVIOUS
  <2>1. a * a \in Nat /\ b * b \in Nat /\ a * b \in Nat
    OBVIOUS
  <2>2. a * a >= a * (b + 1)
    OBVIOUS
  <2>3. a * (b + 1) = a * b + a
    OBVIOUS
  <2>4. a * b >= b * b
    OBVIOUS
  <2> QED BY <2>1, <2>2, <2>3, <2>4
<1>4. HeadCells(1) = q(1) * q(1) /\ HeadCells(2) = q(2) * q(2) /\ HeadCells(3) = q(3) * q(3)
  BY DEF HeadCells
<1> HIDE DEF q
<1>5. /\ HeadCells(1) > HeadCells(2) /\ HeadCells(2) > HeadCells(3) /\ HeadCells(3) > 0 * 0
      /\ HeadCells(1) \in Nat /\ HeadCells(2) \in Nat /\ HeadCells(3) \in Nat
  BY <1>2, <1>3, <1>4
<1>6. \A k \in 1..3 : k = 1 \/ k = 2 \/ k = 3
  OBVIOUS
<1>7. 0 * 0 = 0
  OBVIOUS
<1> QED BY <1>5, <1>6, <1>7

-----------------------------------------------------------------------------
(* Types of every variable: the index, the planes and the descriptor of each *)
(* entry of out_buffers stay in range whatever REQBUFS grants, and the heads *)
(* are outputs of the model, or the first three if it has not got as many.   *)
THEOREM BringupTypes == Spec => []TypeOK
<1>1. AllInv => TypeOK
  <2> SUFFICES ASSUME AllInv PROVE TypeOK
    OBVIOUS
  <2> USE DEF AllInv
  <2>1. dma_fds \in Nat /\ requested \in Nat /\ dma_fds <= requested
    BY DEF Inv, MemoryInv, QueueInv
  <2>2. out_buffers \in [0..(NumBuffers - 1) ->
          [index : 0..(NumBuffers - 1), num_planes : {0, 1}, fd : 0..dma_fds]]
    <3>1. \A n \in Indices :
            Entry(n) \in [index : 0..(NumBuffers - 1), num_planes : {0, 1}, fd : 0..dma_fds]
      BY <2>1, NumBuffersAssumption DEF Entry, Zeroed, Indices
    <3>2. out_buffers = [n \in Indices |-> Entry(n)]
      BY DEF Inv, MemoryInv
    <3> HIDE DEF AllInv
    <3> QED BY <3>1, <3>2 DEF Indices
  <2>3. /\ queued \cap filled = {} /\ queued \cup filled \subseteq 0..(NumBuffers - 1)
        /\ held \subseteq Indices /\ {buf, dctx} \subseteq Indices \cup {NoBuffer}
    BY DEF Inv, PlaceInv, Indices
  <2>4. {overrun, heap_open, streaming} \subseteq BOOLEAN
    BY DEF Inv, MemoryInv, RestTypes
  <2>5. /\ app \in {"open", "set_format", "get_format", "request", "alloc", "build",
                    "initialised", "queue", "stream_on", "play", "spawn", "started"}
        /\ next \in Nat
    BY DEF Inv, MemoryInv, QueueInv, Opening, Built, Starting
  <2>6. DeviceTypeOK
    BY <2>1, <2>2, <2>3, <2>4 DEF DeviceTypeOK, RestTypes
  <2> QED BY <2>3, <2>5, <2>6 DEF TypeOK, RestTypes, ModelInv
<1> QED BY <1>1, SpecAllInv, PTL

(* Whatever the order of the outputs and their number, post_process walks    *)
(* each head with the stride of its size, if the three heads are the largest *)
(* outputs and the only ones of their sizes.                                 *)
THEOREM HeadsGetTheirStride == Spec => []HeadsByStride
<1>1. AllInv => HeadsByStride
  <2> SUFFICES ASSUME AllInv, heads # <<>>,
                      \A k \in 1..3 : \E j \in Outputs : \A i \in Outputs : IsHead(i, k) <=> i = j,
                      \A j \in Outputs : GridSize(j) < HeadCells(3) \/ \E k \in 1..3 : IsHead(j, k)
               PROVE  \A k \in 1..3 : IsHead(heads[k], k)
    BY DEF HeadsByStride
  <2>1. /\ Len(model) \in Nat /\ Outputs = 1..Len(model)
        /\ \A j \in Outputs : GridSize(j) \in Nat
    BY ModelShape DEF AllInv, ModelInv, Outputs
  <2> DEFINE c1 == HeadCells(1)
             c2 == HeadCells(2)
             c3 == HeadCells(3)
  <2>2. c1 \in Nat /\ c2 \in Nat /\ c3 \in Nat /\ c1 > c2 /\ c2 > c3
    BY HeadSizes
  <2>3. PICK j1 \in Outputs : \A i \in Outputs : GridSize(i) = c1 <=> i = j1
    BY DEF IsHead
  <2>4. PICK j2 \in Outputs : \A i \in Outputs : GridSize(i) = c2 <=> i = j2
    BY DEF IsHead
  <2>5. PICK j3 \in Outputs : \A i \in Outputs : GridSize(i) = c3 <=> i = j3
    BY DEF IsHead
  <2>6. \A i \in Outputs : \/ GridSize(i) < c3
                           \/ GridSize(i) = c1 \/ GridSize(i) = c2 \/ GridSize(i) = c3
    <3>1. \A k \in 1..3 : k = 1 \/ k = 2 \/ k = 3
      OBVIOUS
    <3> QED BY <3>1 DEF IsHead
  <2> HIDE DEF c1, c2, c3
  <2>7. j1 # j2 /\ j1 # j3 /\ j2 # j3
    BY <2>2, <2>3, <2>4, <2>5
  <2>8. Len(model) >= 3
    BY <2>1, <2>7
  <2>9. /\ heads[1] \in Outputs /\ heads[2] \in Outputs /\ heads[3] \in Outputs
        /\ heads[1] # heads[2] /\ heads[1] # heads[3] /\ heads[2] # heads[3]
        /\ GridSize(heads[1]) >= GridSize(heads[2]) /\ GridSize(heads[2]) >= GridSize(heads[3])
        /\ \A i \in Outputs \ {heads[1], heads[2], heads[3]} : GridSize(i) <= GridSize(heads[3])
    BY <2>1, <2>8 DEF AllInv, ModelInv, OutputOrders
  <2>10. GridSize(heads[1]) = c1
    <3>1. GridSize(heads[1]) >= GridSize(j1)
      <4>1. j1 = heads[1] \/ j1 = heads[2] \/ j1 = heads[3] \/ GridSize(j1) <= GridSize(heads[3])
        BY <2>9
      <4>2. /\ GridSize(heads[1]) \in Nat /\ GridSize(heads[2]) \in Nat
            /\ GridSize(heads[3]) \in Nat /\ GridSize(j1) \in Nat
        BY <2>1, <2>9
      <4>3. /\ GridSize(heads[1]) >= GridSize(heads[1])
            /\ GridSize(heads[1]) >= GridSize(heads[2])
            /\ GridSize(heads[1]) >= GridSize(heads[3])
        BY <2>9, <4>2
      <4>4. CASE GridSize(j1) <= GridSize(heads[3])
        BY <4>2, <4>3, <4>4
      <4> QED BY <4>1, <4>3, <4>4, Zenon
    <3>2. GridSize(j1) = c1 /\ GridSize(heads[1]) \in Nat
      BY <2>1, <2>3, <2>9
    <3> QED BY <2>2, <2>6, <2>9, <3>1, <3>2
  <2>11. GridSize(heads[2]) = c2
    <3>1. heads[1] = j1 /\ heads[2] # j1
      BY <2>3, <2>9, <2>10
    <3>2. GridSize(heads[2]) >= GridSize(j2)
      <4>1. j2 = heads[2] \/ j2 = heads[3] \/ GridSize(j2) <= GridSize(heads[3])
        BY <2>7, <2>9, <3>1
      <4> QED BY <2>1, <2>9, <4>1
    <3>3. GridSize(j2) = c2 /\ GridSize(heads[2]) \in Nat /\ GridSize(heads[2]) # c1
      BY <2>1, <2>3, <2>4, <2>9, <3>1
    <3> QED BY <2>2, <2>6, <2>9, <3>2, <3>3
  <2>12. GridSize(heads[3]) = c3
    <3>1. heads[1] = j1 /\ heads[2] = j2 /\ heads[3] # j1 /\ heads[3] # j2
      BY <2>3, <2>4, <2>9, <2>10, <2>11
    <3>2. GridSize(heads[3]) >= GridSize(j3)
      <4>1. j3 = heads[3] \/ GridSize(j3) <= GridSize(heads[3])
        BY <2>7, <2>9, <3>1
      <4> QED BY <2>1, <2>9, <4>1
    <3>3. GridSize(j3) = c3 /\ GridSize(heads[3]) \in Nat
          /\ GridSize(heads[3]) # c1 /\ GridSize(heads[3]) # c2
      BY <2>1, <2>3, <2>4, <2>5, <2>9, <3>1
    <3> QED BY <2>2, <2>6, <2>9, <3>2, <3>3
  <2>13. \A k \in 1..3 : k = 1 \/ k = 2 \/ k = 3
    OBVIOUS
  <2> QED BY <2>10, <2>11, <2>12, <2>13 DEF c1, c2, c3, IsHead
<1> QED BY <1>1, SpecAllInv, PTL

(* Whatever the order of the outputs, their number and their ties, process() *)
(* reads behind none of the three it is given, if the k largest outputs have *)
(* the cells of the k-th head, for each k.                                   *)
THEOREM HeadsAreLargeEnough == Spec => []ReadsStayInside
<1>1. AllInv => ReadsStayInside
  <2> SUFFICES ASSUME AllInv, heads # <<>>,
                      \A k \in 1..3 : Cardinality(LargeEnough(k)) >= k
               PROVE  ~ ReadsPast(heads) /\ ~ ReadsBehind(heads)
    BY DEF ReadsStayInside
  <2>1. /\ Len(model) \in Nat /\ Outputs = 1..Len(model)
        /\ \A j \in Outputs : model[j] \in OutputType /\ GridSize(j) \in Nat
    BY ModelShape DEF AllInv, ModelInv, Outputs
  <2>2. /\ HeadCells(1) \in Nat /\ HeadCells(2) \in Nat /\ HeadCells(3) \in Nat
        /\ HeadCells(1) > 0 /\ HeadCells(2) > 0 /\ HeadCells(3) > 0
    BY HeadSizes
  <2>3. Len(model) >= 3
    <3>1. IsFiniteSet(Outputs) /\ Cardinality(Outputs) = Len(model)
      <4>1. ASSUME NEW n \in Nat
            PROVE  IsFiniteSet(1..n) /\ Cardinality(1..n) = n
        <5>1. IsFiniteSet(1..n) /\ Cardinality(1..n) = IF 1 > n THEN 0 ELSE n - 1 + 1
          BY FS_Interval
        <5> QED BY <5>1
      <4> QED BY <2>1, <4>1
    <3>2. LargeEnough(3) \subseteq Outputs
      BY DEF LargeEnough
    <3>3. /\ Cardinality(LargeEnough(3)) <= Len(model) /\ Cardinality(LargeEnough(3)) \in Nat
          /\ Cardinality(LargeEnough(3)) >= 3
      BY <3>1, <3>2, FS_Subset, FS_CardinalityType
    <3> QED BY <2>1, <3>3
  <2>4. /\ heads[1] \in Outputs /\ heads[2] \in Outputs /\ heads[3] \in Outputs
        /\ GridSize(heads[1]) >= GridSize(heads[2]) /\ GridSize(heads[2]) >= GridSize(heads[3])
        /\ \A i \in Outputs \ {heads[1], heads[2], heads[3]} : GridSize(i) <= GridSize(heads[3])
    BY <2>1, <2>3 DEF AllInv, ModelInv, OutputOrders
  <2> DEFINE h1 == heads[1]
             h2 == heads[2]
             h3 == heads[3]
  <2>sorted. /\ \A j \in Outputs : GridSize(j) <= GridSize(h1)
             /\ \A j \in Outputs \ {h1} : GridSize(j) <= GridSize(h2)
             /\ \A j \in Outputs \ {h1, h2} : GridSize(j) <= GridSize(h3)
    <3>1. ASSUME NEW j \in Outputs
          PROVE  j = h1 \/ j = h2 \/ j = h3 \/ GridSize(j) <= GridSize(h3)
      BY <2>4
    <3>2. /\ GridSize(h1) \in Nat /\ GridSize(h2) \in Nat /\ GridSize(h3) \in Nat
          /\ GridSize(h1) >= GridSize(h2) /\ GridSize(h2) >= GridSize(h3)
      BY <2>1, <2>4
    <3>3. ASSUME NEW j \in Outputs
          PROVE  /\ GridSize(j) <= GridSize(h1)
                 /\ j # h1 => GridSize(j) <= GridSize(h2)
                 /\ j # h1 /\ j # h2 => GridSize(j) <= GridSize(h3)
      <4>1. \A a, b, c \in Nat : a <= b /\ c >= b => a <= c
        OBVIOUS
      <4>2. GridSize(j) \in Nat /\ GridSize(h1) >= GridSize(h3)
        BY <2>1, <3>2
      <4>3. /\ GridSize(h1) <= GridSize(h1) /\ GridSize(h2) <= GridSize(h2)
            /\ GridSize(h3) <= GridSize(h3) /\ GridSize(h2) <= GridSize(h1)
            /\ GridSize(h3) <= GridSize(h1) /\ GridSize(h3) <= GridSize(h2)
        BY <3>2, <4>2
      <4>4. GridSize(j) <= GridSize(h3) => GridSize(j) <= GridSize(h1) /\ GridSize(j) <= GridSize(h2)
        BY <3>2, <4>1, <4>2
      <4> HIDE DEF h1, h2, h3
      <4> QED BY <3>1, <4>3, <4>4, Zenon
    <3> HIDE DEF h1, h2, h3
    <3> QED BY <3>3
  <2>5. /\ IsFiniteSet({h1}) /\ Cardinality({h1}) = 1
        /\ IsFiniteSet({h1, h2}) /\ Cardinality({h1, h2}) <= 2
        /\ Cardinality({h1, h2}) \in Nat
    <3> HIDE DEF h1, h2
    <3>1. IsFiniteSet({h1}) /\ Cardinality({h1}) = 1
      BY FS_Singleton
    <3>2. /\ IsFiniteSet({h1} \cup {h2})
          /\ Cardinality({h1} \cup {h2}) \in {Cardinality({h1}), Cardinality({h1}) + 1}
      BY <3>1, FS_AddElement
    <3>3. {h1} \cup {h2} = {h1, h2}
      OBVIOUS
    <3>4. IsFiniteSet({h1} \cup {h2}) /\ Cardinality({h1} \cup {h2}) \in {1, 2}
      <4>1. \A n : n = 1 => {n, n + 1} = {1, 2}
        OBVIOUS
      <4> QED BY <3>1, <3>2, <4>1, Zenon
    <3>5. IsFiniteSet({h1, h2}) /\ Cardinality({h1, h2}) \in {1, 2}
      BY <3>3, <3>4, Zenon
    <3>6. \A n \in {1, 2} : n <= 2 /\ n \in Nat
      OBVIOUS
    <3> QED BY <3>1, <3>5, <3>6, Zenon
  <2>6. GridSize(h1) >= HeadCells(1)
    <3>1. SUFFICES ASSUME ~ GridSize(h1) >= HeadCells(1) PROVE FALSE
      OBVIOUS
    <3>2. LargeEnough(1) = {}
      <4>1. ASSUME NEW j \in Outputs PROVE ~ GridSize(j) >= HeadCells(1)
        BY <2>1, <2>2, <2>4, <2>sorted, <3>1
      <4> QED BY <4>1 DEF LargeEnough
    <3>3. Cardinality(LargeEnough(1)) = 0
      BY <3>2, FS_EmptySet, Zenon
    <3>4. Cardinality(LargeEnough(1)) >= 1
      OBVIOUS
    <3> QED BY <3>3, <3>4
  <2>7. GridSize(h2) >= HeadCells(2)
    <3>1. SUFFICES ASSUME ~ GridSize(h2) >= HeadCells(2) PROVE FALSE
      OBVIOUS
    <3>2. LargeEnough(2) \subseteq {h1}
      <4>1. ASSUME NEW j \in Outputs \ {h1} PROVE ~ GridSize(j) >= HeadCells(2)
        BY <2>1, <2>2, <2>4, <2>sorted, <3>1
      <4> QED BY <4>1 DEF LargeEnough
    <3>3. Cardinality(LargeEnough(2)) <= 1 /\ Cardinality(LargeEnough(2)) \in Nat
      BY <2>5, <3>2, FS_Subset, FS_CardinalityType
    <3>4. Cardinality(LargeEnough(2)) >= 2
      OBVIOUS
    <3> QED BY <3>3, <3>4
  <2>8. GridSize(h3) >= HeadCells(3)
    <3>1. SUFFICES ASSUME ~ GridSize(h3) >= HeadCells(3) PROVE FALSE
      OBVIOUS
    <3>2. LargeEnough(3) \subseteq {h1, h2}
      <4>1. ASSUME NEW j \in Outputs \ {h1, h2} PROVE ~ GridSize(j) >= HeadCells(3)
        BY <2>1, <2>2, <2>4, <2>sorted, <3>1
      <4> QED BY <4>1 DEF LargeEnough
    <3>3. Cardinality(LargeEnough(3)) <= 2 /\ Cardinality(LargeEnough(3)) \in Nat
      <4>1. /\ Cardinality(LargeEnough(3)) <= Cardinality({h1, h2})
            /\ Cardinality(LargeEnough(3)) \in Nat
        BY <2>5, <3>2, FS_Subset, FS_CardinalityType
      <4> QED BY <2>5, <4>1
    <3>4. Cardinality(LargeEnough(3)) >= 3
      OBVIOUS
    <3> QED BY <3>3, <3>4
  <2>9. \A k \in 1..3 : GridSize(heads[k]) >= HeadCells(k) /\ heads[k] \in Outputs
                        /\ HeadCells(k) > 0 /\ HeadCells(k) \in Nat
    <3>1. \A k \in 1..3 : k = 1 \/ k = 2 \/ k = 3
      OBVIOUS
    <3> QED BY <2>2, <2>4, <2>6, <2>7, <2>8, <3>1
  <2>10. ASSUME NEW k \in 1..3 PROVE ~ (model[heads[k]].grid < HeadCells(k))
    <3>1. GridSize(heads[k]) \in {model[heads[k]].grid, 0}
      BY DEF GridSize
    <3>2. model[heads[k]].grid \in Nat
      BY <2>1, <2>9 DEF OutputType
    <3> QED BY <2>9, <3>1, <3>2
  <2> QED BY <2>9, <2>10 DEF ReadsPast, ReadsBehind
<1> QED BY <1>1, SpecAllInv, PTL

(* Once a call of post_process has read the labels no later call reads the   *)
(* file, and every later call sets the count of its results.                 *)
THEOREM LabelsAreReadOnce == Spec => LabelsStayLoaded
<1> DEFINE Kept == labels_init \/ labels > 0 => group' # "garbage" /\ labels' = labels
<1>1. ASSUME AllInv, Next, labels_init \/ labels > 0
      PROVE  group' # "garbage" /\ labels' = labels
  <2>1. labels_init = TRUE
    <3>1. labels_init \in BOOLEAN /\ (labels_init = FALSE => labels = 0)
      BY <1>1 DEF AllInv, ModelInv, ModelTypeOK
    <3>2. ~ (0 > 0)
      OBVIOUS
    <3> QED BY <1>1, <3>1, <3>2, Zenon
  <2>2. CASE UNCHANGED resultVars
    BY <1>1, <2>1, <2>2 DEF AllInv, ModelInv, resultVars
  <2>3. CASE LoadLabels
    BY <1>1, <2>1, <2>3, LabelsStep DEF AllInv
  <2> QED BY <1>1, <2>2, <2>3, ModelSteps DEF rknnVars, LoadModel, LoadModelFails, Run, RunCrashes
<1>2. AllInv /\ [Next]_vars => [Kept]_vars
  BY <1>1
<1>3. (Spec => [][Kept]_vars) => (Spec => LabelsStayLoaded)
  BY DEF LabelsStayLoaded
<1> QED BY <1>2, <1>3, SpecAllInv, PTL DEF Spec
=============================================================================
