---------------------------- MODULE CaptureDevice ----------------------------
(***************************************************************************)
(* v4l2_camera.c and dma_buffer.c: what each function does to the device    *)
(* and to the engine's out_buffers, and how it fails.  Nearly every failure *)
(* is exit(EXIT_FAILURE).  Who calls them, and when, is in Bringup.         *)
(*                                                                         *)
(* The device is external.  Buffers are known by the driver's index, from   *)
(* 0; descriptors of DMA buffers are numbered from 1, and 0 is what an      *)
(* entry of out_buffers holds before v4l2_init_dmabuf writes it.            *)
(***************************************************************************)
EXTENDS Integers, FiniteSets

CONSTANTS
  NumBuffers,      \* num_buffers and the length of out_buffers
  DriverCounts     \* counts with which REQBUFS may answer

ASSUME NumBuffersAssumption == NumBuffers \in Nat \ {0}
ASSUME DriverCountsAssumption == DriverCounts \subseteq Nat \ {0}

VARIABLES
  process,         \* "running", or how it ended
  device,          \* "closed", or what the open device can do
  sizeimage,       \* of a plane: "none" until S_FMT, "zero" if G_FMT fails
  requested,       \* req.count as REQBUFS left it
  out_buffers,     \* index, planes and descriptor of each buffer
  overrun,         \* an entry behind out_buffers was written
  heap_open,       \* the descriptor of /dev/dma_heap/system
  dma_fds,         \* DMA buffers allocated
  streaming,       \* STREAMON
  queued, filled   \* indices of buffers in the driver: empty, with a frame

deviceVars == <<device, sizeimage, requested, streaming>>
bufferVars == <<out_buffers, overrun, heap_open, dma_fds>>
driverVars == <<queued, filled>>
captureVars == <<process, deviceVars, bufferVars, driverVars>>

Zeroed == [index |-> 0, num_planes |-> 0, fd |-> 0]

DeviceInit ==
  /\ process = "running"
  /\ device = "closed"
  /\ sizeimage = "none"
  /\ requested = 0
  /\ out_buffers = [n \in 0..(NumBuffers - 1) |-> Zeroed]
  /\ overrun = FALSE
  /\ heap_open = FALSE
  /\ dma_fds = 0
  /\ streaming = FALSE
  /\ queued = {} /\ filled = {}

Exit == process' = "exited" /\ UNCHANGED <<deviceVars, bufferVars, driverVars>>

-----------------------------------------------------------------------------
(* v4l2_open_device: there is no such node, no V4L2 device, no capture or   *)
(* no streaming; a device for single planes passes, too.                    *)
OpenDevice ==
  /\ device' \in {"mplane", "single"}
  /\ UNCHANGED <<process, sizeimage, requested, streaming, bufferVars, driverVars>>

(* v4l2_set_format_mplane: S_FMT fails (it must for a single-plane device), *)
(* or the driver insists on another pixel format, and the process exits.    *)
(* Another resolution is only warned of.                                    *)
SetFormat ==
  /\ device = "mplane"
  /\ sizeimage' \in {"asked", "other"}
  /\ UNCHANGED <<process, device, requested, streaming, bufferVars, driverVars>>

(* v4l2_get_format_mplane does not look at the result of G_FMT.             *)
GetFormat ==
  /\ sizeimage' \in {sizeimage, "zero"}
  /\ UNCHANGED <<process, device, requested, streaming, bufferVars, driverVars>>

(* v4l2_init_dmabuf, before its loop.                                       *)
RequestBuffers ==
  /\ requested' \in DriverCounts
  /\ UNCHANGED <<process, device, sizeimage, streaming, bufferVars, driverVars>>

(* dmabuf_alloc, in two steps: the heap is opened ...                       *)
OpenHeap ==
  /\ heap_open' = TRUE
  /\ UNCHANGED <<process, deviceVars, out_buffers, overrun, dma_fds, driverVars>>

(* Mutant: the indices count from 1.                                        *)
StoreOneBased(n, fd) ==
  /\ n < NumBuffers
  /\ out_buffers' = [out_buffers EXCEPT ![n] =
                      [index |-> n + 1, num_planes |-> 1, fd |-> fd]]
  /\ UNCHANGED overrun

Store(n, fd) ==
  \/ /\ n < NumBuffers
     /\ out_buffers' = [out_buffers EXCEPT ![n] =
                         [index |-> n, num_planes |-> 1, fd |-> fd]]
     /\ UNCHANGED overrun
  \/ /\ n >= NumBuffers
     /\ overrun' = TRUE
     /\ UNCHANGED out_buffers

(* Mutant: the heap stays open.                                             *)
AllocBufferOnly(n) ==
  /\ sizeimage # "zero"
  /\ dma_fds' = dma_fds + 1
  /\ Store(n, dma_fds')
  /\ UNCHANGED <<process, deviceVars, heap_open, driverVars>>

(* Mutant: the allocation is hoisted out of the loop.                       *)
AllocBufferHoisted(n) ==
  /\ dma_fds' = 1
  /\ heap_open' = FALSE
  /\ Store(n, dma_fds')
  /\ UNCHANGED <<process, deviceVars, driverVars>>

(* ... and, unless the ioctl fails (it must for no bytes), closed behind    *)
(* the allocation that goes into entry n, which nothing checks.             *)
AllocBuffer(n) ==
  /\ sizeimage # "zero"
  /\ dma_fds' = dma_fds + 1
  /\ heap_open' = FALSE
  /\ Store(n, dma_fds')
  /\ UNCHANGED <<process, deviceVars, driverVars>>

-----------------------------------------------------------------------------
(* v4l2_queue_frame_dmabuf: the driver refuses an index it does not know or *)
(* already has, and a buffer without its plane.                             *)
CanQueue(b) ==
  /\ b.num_planes = 1
  /\ b.index < requested
  /\ b.index \notin queued \cup filled

QueueBuffer(n) ==
  /\ CanQueue(out_buffers[n])
  /\ queued' = queued \cup {out_buffers[n].index}
  /\ UNCHANGED <<process, deviceVars, bufferVars, filled>>

StreamOn ==
  /\ streaming' = TRUE
  /\ UNCHANGED <<process, device, sizeimage, requested, bufferVars, driverVars>>

(* External: DMA fills a buffer.                                            *)
Fill ==
  /\ process = "running"
  /\ streaming
  /\ \E n \in queued : queued' = queued \ {n} /\ filled' = filled \cup {n}
  /\ UNCHANGED <<process, deviceVars, bufferVars>>

(* v4l2_dequeue_frame_dmabuf with a frame waiting.                          *)
DequeueBuffer(n) ==
  /\ n \in filled
  /\ filled' = filled \ {n}
  /\ UNCHANGED <<process, deviceVars, bufferVars, queued>>

DeviceTypeOK ==
  /\ process \in {"running", "exited", "terminated", "crashed"}
  /\ device \in {"closed", "mplane", "single"}
  /\ sizeimage \in {"none", "asked", "other", "zero"}
  /\ requested \in {0} \cup DriverCounts
  /\ out_buffers \in [0..(NumBuffers - 1) ->
       [index : 0..(NumBuffers - 1), num_planes : {0, 1}, fd : 0..dma_fds]]
  /\ {overrun, heap_open, streaming} \subseteq BOOLEAN
  /\ dma_fds \in 0..requested
  /\ queued \cap filled = {}
  /\ queued \cup filled \subseteq 0..(NumBuffers - 1)
=============================================================================
