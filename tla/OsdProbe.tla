------------------------------- MODULE OsdProbe -------------------------------
(***************************************************************************)
(* The probe on the encoder's sink pad: osd_probe_callback() works out how  *)
(* the frame lies in its memory, drains g_bb_q and draws the boxes, with    *)
(* the CPU into NV12 (draw_rect_nv12) and by RGA into RGB (draw_rect_rga),  *)
(* while inference_thread goes on pushing boxes.                            *)
(*                                                                         *)
(* luma and chroma are the bytes written, as positions in the mapping; the  *)
(* three colour values are left out.  What RGA does is external: only what  *)
(* it is asked for is kept.                                                 *)
(***************************************************************************)
EXTENDS Integers, Sequences

CONSTANTS
  Frames,          \* buffers that may come to the pad, see FrameType
  Boxes,           \* boxes that inference may push, [x1, y1, x2, y2]
  Thickness,       \* of the frame around a box: 8 in the code
  NoFrame          \* the probe is not running

(* size and offset are gst_memory_get_sizes, max_size its third value.  A   *)
(* meta with planes = 0 is no GstVideoMeta.                                 *)
FrameType ==
  [usable : BOOLEAN, format : {"NV12", "RGB", "BGR", "RGBA", "other"},
   width : Nat, height : Nat, offset : Nat, size : Nat, max_size : Nat,
   planes : Nat, stride : Nat \X Nat, uv_offset : Nat]

ASSUME FramesAssumption ==
  /\ Frames \subseteq FrameType /\ NoFrame \notin FrameType
  /\ \A f \in Frames :
       f.width > 0 /\ f.height > 0 /\ f.max_size >= f.offset + f.size
ASSUME BoxesAssumption ==
  /\ Boxes \subseteq [x1 : Int, y1 : Int, x2 : Int, y2 : Int]
  /\ Thickness \in Nat \ {0}

VARIABLES
  g_bb_q,          \* boxes from inference, not yet drawn
  pc,              \* where the probe is
  frame,           \* the buffer it was called for
  boxes, at,       \* what it drained, and the loop over it
  mapped, synced,  \* the mmap, and the dma-buf's CPU access window
  asked,           \* rectangles given to RGA for this box
  luma, chroma,    \* bytes written to the frame
  tried, framed    \* boxes it attempted; those it could map the frame for

bufferVars == <<mapped, synced, luma, chroma>>
drawVars == <<bufferVars, asked, tried, framed>>
vars == <<g_bb_q, pc, frame, boxes, at, drawVars>>

Init ==
  /\ g_bb_q = <<>>
  /\ pc = "idle"
  /\ frame = NoFrame
  /\ boxes = <<>> /\ at = 1
  /\ mapped = FALSE /\ synced = FALSE
  /\ asked = <<>>
  /\ luma = {} /\ chroma = {}
  /\ tried = {} /\ framed = {}

Goto(l) == pc' = l

-----------------------------------------------------------------------------
(* How the frame lies in memory.                                            *)

AlignUp(value, align) == ((value + align - 1) \div align) * align

Layout(f) ==
  LET nv12 == f.format = "NV12"
      full == nv12 /\ f.planes > 1 /\ f.stride[1] > 0
      packed == [wstride |-> f.width, hstride |-> f.height,
                 uv_stride |-> f.width, uv_offset |-> f.width * f.height]
      w == AlignUp(f.width, 16)
      h == AlignUp(f.height, 2)
  IN CASE full ->
            [wstride |-> f.stride[1], hstride |-> f.uv_offset \div f.stride[1],
             uv_stride |-> f.stride[2], uv_offset |-> f.uv_offset]
       [] f.planes > 0 /\ ~ full -> [packed EXCEPT !.wstride = f.stride[1]]
       [] f.planes = 0 /\ nv12 ->
            [wstride |-> w, hstride |-> h, uv_stride |-> w, uv_offset |-> w * h]
       [] OTHER -> packed

-----------------------------------------------------------------------------
(* Geometry.                                                                *)

Clamp(v, low, high) == IF v < low THEN low ELSE IF v > high THEN high ELSE v

(* clip_box: to the last pixel, so a box outside the frame becomes empty.   *)
Clipped(b) ==
  [x1 |-> Clamp(b.x1, 0, frame.width - 1), y1 |-> Clamp(b.y1, 0, frame.height - 1),
   x2 |-> Clamp(b.x2, 0, frame.width - 1), y2 |-> Clamp(b.y2, 0, frame.height - 1)]

Box == Clipped(boxes[at])
IsEmpty(b) == b.x2 <= b.x1 \/ b.y2 <= b.y1

(* Mutant: the line is as thick as asked for.                               *)
LineUnclamped(b) == Thickness

Line(b) ==
  LET w == b.x2 - b.x1
      h == b.y2 - b.y1
  IN Clamp(Thickness, 1, IF w < h THEN w ELSE h)

(* The top, bottom, left and right edge, as both fallbacks draw them.       *)
Edge(b, k) ==
  LET w == b.x2 - b.x1
      h == b.y2 - b.y1
      t == Line(b)
      rect(x, y, rw, rh) == [x |-> x, y |-> y, w |-> rw, h |-> rh]
  IN CASE k = 1 -> rect(b.x1, b.y1, w, t)
       [] k = 2 -> rect(b.x1, b.y2 - t, w, t)
       [] k = 3 -> rect(b.x1, b.y1, t, h)
       [] k = 4 -> rect(b.x2 - t, b.y1, t, h)

(* The pixels of r that lie in the frame.                                   *)
Columns(r) == Clamp(r.x, 0, frame.width)..(Clamp(r.x + r.w, 0, frame.width) - 1)
Rows(r) == Clamp(r.y, 0, frame.height)..(Clamp(r.y + r.h, 0, frame.height) - 1)
Even(n) == (n \div 2) * 2

(* Mutant: an odd last column has no colour.                                *)
ChromaBytesOfPairs(r) ==
  LET pair(row, col) == Layout(frame).uv_offset
                          + (row \div 2) * Layout(frame).uv_stride + Even(col)
      pairs == {pair(row, col) : row \in Rows(r),
                  col \in {c \in Columns(r) : Even(c) + 1 \in Columns(r)}}
  IN {p + k : p \in {p \in pairs : p + 1 < frame.size}, k \in {0, 1}}

(* Mutant: the row is checked where it begins only.                         *)
LumaBytesFrom(r) ==
  LET start(row) == row * Layout(frame).wstride
                      + Clamp(r.x, 0, frame.width)
  IN {row * Layout(frame).wstride + col : row \in
        {row \in Rows(r) : start(row) < frame.size}, col \in Columns(r)}

(* fill_nv12_rect: a row that would leave the memory is left out as a whole *)
LumaBytes(r) ==
  LET stride == Layout(frame).wstride
      start(row) == row * stride + Clamp(r.x, 0, frame.width)
      length == Clamp(r.x + r.w, 0, frame.width) - Clamp(r.x, 0, frame.width)
  IN {row * stride + col : row \in
        {row \in Rows(r) : start(row) + length <= frame.size}, col \in Columns(r)}

(* ... and of the chroma each pair that would.  One pair belongs to two     *)
(* columns and two rows, so the rectangle grows to even coordinates.        *)
ChromaBytes(r) ==
  LET pair(row, col) == Layout(frame).uv_offset
                          + (row \div 2) * Layout(frame).uv_stride + Even(col)
      pairs == {pair(row, col) : row \in Rows(r), col \in Columns(r)}
  IN {p + k : p \in {p \in pairs : p + 1 < frame.size}, k \in {0, 1}}

-----------------------------------------------------------------------------
(* rknn_model::run pushes a box; the probe holds the mutex while it drains. *)
(* Nothing here bounds the queue: FramePipeline!BoxBound does.              *)
PushBox ==
  /\ \E b \in Boxes : g_bb_q' = Append(g_bb_q, b)
  /\ UNCHANGED <<pc, frame, boxes, at, drawVars>>

ProbeCalled ==
  /\ pc = "idle"
  /\ frame' \in Frames
  /\ Goto("entered")
  /\ UNCHANGED <<g_bb_q, boxes, at, drawVars>>

(* No dma-buf, no caps, or a format it cannot draw into: the frame passes   *)
(* as it is and the boxes wait for the next.                                *)
Unsupported ==
  /\ pc = "entered"
  /\ ~ frame.usable \/ frame.format = "other"
  /\ Goto("return")
  /\ UNCHANGED <<g_bb_q, frame, boxes, at, drawVars>>

Drain ==
  /\ pc = "entered"
  /\ frame.usable /\ frame.format # "other"
  /\ boxes' = g_bb_q
  /\ g_bb_q' = <<>>
  /\ at' = 1
  /\ Goto("box")
  /\ UNCHANGED <<frame, drawVars>>

NextBox(l) ==
  /\ at' = at + 1
  /\ Goto(l)

(* Mutant: a box that does not show takes the next one along.               *)
EmptyBoxSkipsNext ==
  /\ pc = "box"
  /\ at <= Len(boxes)
  /\ IsEmpty(Box)
  /\ at' = at + 2
  /\ UNCHANGED <<g_bb_q, pc, frame, boxes, drawVars>>

EmptyBox ==
  /\ pc = "box"
  /\ at <= Len(boxes)
  /\ IsEmpty(Box)
  /\ NextBox("box")
  /\ UNCHANGED <<g_bb_q, frame, boxes, drawVars>>

LastBox ==
  /\ pc = "box"
  /\ at > Len(boxes)
  /\ Goto("return")
  /\ UNCHANGED <<g_bb_q, frame, boxes, at, drawVars>>

Return ==
  /\ pc = "return"
  /\ frame' = NoFrame /\ boxes' = <<>> /\ at' = 1
  /\ luma' = {} /\ chroma' = {} /\ tried' = {} /\ framed' = {}
  /\ asked' = <<>>
  /\ Goto("idle")
  /\ UNCHANGED <<g_bb_q, mapped, synced>>

-----------------------------------------------------------------------------
(* draw_rect_nv12.                                                          *)

Map ==
  /\ pc = "box"
  /\ at <= Len(boxes) /\ ~ IsEmpty(Box) /\ frame.format = "NV12"
  /\ tried' = tried \cup {at}
  /\ framed' = framed \cup {at}
  /\ mapped' = TRUE
  /\ Goto("sync")
  /\ UNCHANGED <<g_bb_q, frame, boxes, at, synced, luma, chroma, asked>>

(* Mutant: without the mapping it gives up the frame.                       *)
MapFailsForAll ==
  /\ pc = "box"
  /\ at <= Len(boxes) /\ ~ IsEmpty(Box) /\ frame.format = "NV12"
  /\ tried' = tried \cup {at}
  /\ Goto("return")
  /\ UNCHANGED <<g_bb_q, frame, boxes, at, bufferVars, asked, framed>>

(* mmap fails.  The result is ignored: the next box is tried.               *)
MapFails ==
  /\ pc = "box"
  /\ at <= Len(boxes) /\ ~ IsEmpty(Box) /\ frame.format = "NV12"
  /\ tried' = tried \cup {at}
  /\ NextBox("box")
  /\ UNCHANGED <<g_bb_q, frame, boxes, bufferVars, asked, framed>>

SyncStart ==
  /\ pc = "sync"
  /\ synced' = TRUE
  /\ Goto("fill1")
  /\ UNCHANGED <<g_bb_q, frame, boxes, at, mapped, luma, chroma, asked, tried,
                 framed>>

FillSteps == <<"fill1", "fill2", "fill3", "fill4", "unsync">>

Fill(k) ==
  /\ pc = FillSteps[k]
  /\ LET edge == Edge(Box, k)
         place(bytes) == {frame.offset + p : p \in bytes}
     IN /\ luma' = luma \cup place(LumaBytes(edge))
        /\ chroma' = chroma \cup place(ChromaBytes(edge))
  /\ Goto(FillSteps[k + 1])
  /\ UNCHANGED <<g_bb_q, frame, boxes, at, mapped, synced, asked, tried, framed>>

SyncEnd ==
  /\ pc = "unsync"
  /\ synced' = FALSE
  /\ Goto("unmap")
  /\ UNCHANGED <<g_bb_q, frame, boxes, at, mapped, luma, chroma, asked, tried,
                 framed>>

(* Mutant: the mapping is left to the next box.                             *)
UnmapNever ==
  /\ pc = "unmap"
  /\ NextBox("box")
  /\ UNCHANGED <<g_bb_q, frame, boxes, drawVars>>

Unmap ==
  /\ pc = "unmap"
  /\ mapped' = FALSE
  /\ NextBox("box")
  /\ UNCHANGED <<g_bb_q, frame, boxes, synced, luma, chroma, asked, tried, framed>>

-----------------------------------------------------------------------------
(* draw_rect_rga: imrectangle, or else four imfill, of which the first that *)
(* fails is the last.                                                       *)

Rectangle ==
  /\ pc = "box"
  /\ at <= Len(boxes) /\ ~ IsEmpty(Box) /\ frame.format # "NV12"
  /\ tried' = tried \cup {at}
  /\ \/ NextBox("box") /\ UNCHANGED asked
     \/ Goto("imfill") /\ asked' = <<>> /\ UNCHANGED at
  /\ UNCHANGED <<g_bb_q, frame, boxes, bufferVars, framed>>

Imfill ==
  /\ pc = "imfill"
  /\ asked' = Append(asked, Edge(Box, Len(asked) + 1))
  /\ \/ NextBox("box")
     \/ Len(asked) < 3 /\ UNCHANGED <<at, pc>>
  /\ UNCHANGED <<g_bb_q, frame, boxes, bufferVars, tried, framed>>

Next ==
  \/ PushBox
  \/ ProbeCalled \/ Unsupported \/ Drain \/ EmptyBox \/ LastBox \/ Return
  \/ Map \/ MapFails \/ SyncStart \/ (\E k \in 1..4 : Fill(k)) \/ SyncEnd \/ Unmap
  \/ Rectangle \/ Imfill

Spec == Init /\ [][Next]_vars

-----------------------------------------------------------------------------
(* Properties.                                                              *)

Steps == {"idle", "entered", "box", "sync", "fill1", "fill2", "fill3", "fill4",
          "unsync", "unmap", "imfill", "return"}

TypeOK ==
  /\ g_bb_q \in Seq(Boxes) /\ boxes \in Seq(Boxes)
  /\ pc \in Steps
  /\ frame \in Frames \cup {NoFrame}
  /\ pc = "idle" <=> frame = NoFrame
  /\ at \in 1..(Len(boxes) + 1)
  /\ {mapped, synced} \subseteq BOOLEAN
  /\ Len(asked) <= 4
  /\ tried \subseteq DOMAIN boxes /\ framed \subseteq tried

(* Whatever strides and offsets the meta gives, also those of a camera that *)
(* chose a smaller resolution than the caps promise, no byte is written     *)
(* outside the memory of the frame, which is inside the mapping.            *)
WritesStayInMemory ==
  luma \cup chroma \subseteq
    IF frame = NoFrame THEN {}
    ELSE frame.offset..(frame.offset + frame.size - 1)

(* Every byte is written inside the mapping's life and the dma-buf's CPU    *)
(* access window, and neither survives its box, on no path: a mapping kept  *)
(* once per box would run the process out of address space.                 *)
MappingIsBalanced ==
  [][/\ pc' \in {"idle", "box", "imfill", "return"} => ~ mapped' /\ ~ synced'
     /\ luma' \cup chroma' # luma \cup chroma /\ pc' # "idle"
          => mapped /\ synced /\ mapped' /\ synced']_vars

Pixels(b) == (b.x1..(b.x2 - 1)) \X (b.y1..(b.y2 - 1))

(* What the probe should draw: the pixels of b next to its outline.         *)
Border(b) ==
  {p \in Pixels(b) :
     \/ p[1] < b.x1 + Thickness \/ p[1] >= b.x2 - Thickness
     \/ p[2] < b.y1 + Thickness \/ p[2] >= b.y2 - Thickness}

(* Rows hold the width, and the planes neither overlap nor exceed the       *)
(* memory.                                                                  *)
Fits(f) ==
  LET l == Layout(f) IN
  /\ l.wstride >= f.width /\ l.uv_stride >= AlignUp(f.width, 2)
  /\ l.uv_offset >= l.wstride * f.height
  /\ f.size >= l.uv_offset + l.uv_stride * ((f.height + 1) \div 2)

(* In a frame that fits its memory, the bytes written are, after each box,  *)
(* exactly the outlines of the boxes drawn: the four edges leave no gap and *)
(* no spill when they meet, overlap or fill the box, luma and chroma never  *)
(* mix, and a box outside the frame leaves nothing.                         *)
DrawsTheOutlines ==
  pc \in {"box", "return"} /\ frame.usable /\ frame.format = "NV12"
    /\ Fits(frame) =>
    LET l == Layout(frame)
        ink == UNION {Border(Clipped(boxes[n])) : n \in framed}
    IN /\ luma = {frame.offset + p[2] * l.wstride + p[1] : p \in ink}
       /\ chroma = {frame.offset + l.uv_offset + (p[2] \div 2) * l.uv_stride
                      + Even(p[1]) + k : p \in ink, k \in {0, 1}}

(* RGA is never asked for a rectangle that is empty or leaves the frame,    *)
(* and the four fills that replace imrectangle make up the same outline.    *)
FallbackDrawsTheOutline ==
  [][asked' \notin {asked, <<>>} =>
       LET covered(r) == (r.x..(r.x + r.w - 1)) \X (r.y..(r.y + r.h - 1))
           last == covered(asked'[Len(asked')])
       IN /\ last # {}
          /\ last \subseteq (0..(frame.width - 1)) \X (0..(frame.height - 1))
          /\ Len(asked') = 4 =>
               UNION {covered(asked'[k]) : k \in 1..4} = Border(Box)]_vars

(* A box that cannot be drawn, because mmap or RGA fails, costs no other    *)
(* box its attempt: when the probe returns, it has tried each box it        *)
(* drained that shows in the frame.  A box ends before the last pixel, so   *)
(* in a frame one pixel wide or high none shows.                            *)
EveryBoxIsTried ==
  pc = "return" =>
    \A n \in DOMAIN boxes :
      LET b == boxes[n] IN
      n \in tried <=>
        /\ frame.width > 1 /\ frame.height > 1
        /\ b.x1 < b.x2 /\ b.x1 < frame.width - 1 /\ b.x2 > 0
        /\ b.y1 < b.y2 /\ b.y1 < frame.height - 1 /\ b.y2 > 0
=============================================================================
