--------------------------- MODULE OsdProbeProofs ---------------------------
(***************************************************************************)
(* The probe draws what it should, and only into the frame's memory, for    *)
(* every frame that may come to the pad, every box, queue and thickness.    *)
(*                                                                         *)
(* Inv says where the probe is in the loop (FlowInv), which boxes are       *)
(* behind it (TriedInv), that it has not left the memory (MemInv) and, for  *)
(* a frame that fits, which pixels the written bytes are (InkInv).          *)
(***************************************************************************)
EXTENDS OsdProbe, SequenceTheorems, TLAPS

Rects == [x : Int, y : Int, w : Int, h : Int]

Filling == {"fill1", "fill2", "fill3", "fill4"}
Drawing == Filling \cup {"sync", "unsync", "unmap"}

FlowInv ==
  /\ pc \in {"idle", "entered"} =>
       /\ boxes = <<>> /\ asked = <<>>
       /\ luma = {} /\ chroma = {} /\ tried = {} /\ framed = {}
  /\ pc = "return" => at = Len(boxes) + 1
  /\ pc \in Drawing => frame.format = "NV12" /\ at \in framed
  /\ pc = "imfill" => frame.format # "NV12" /\ Len(asked) < 4
  /\ pc \in Drawing \cup {"imfill"} => at \in DOMAIN boxes /\ ~ IsEmpty(Box)
  /\ mapped <=> pc \in Drawing
  /\ synced <=> pc \in Filling \cup {"unsync"}
  /\ asked \in Seq(Rects)
  /\ pc = "imfill" => \A k \in DOMAIN asked : asked[k] = Edge(Box, k)

(* The boxes that show, up to the one that is being drawn.                  *)
TriedInv ==
  tried = {n \in DOMAIN boxes :
             /\ n < at \/ (n = at /\ pc \in Drawing \cup {"imfill"})
             /\ ~ IsEmpty(Clipped(boxes[n]))}

MemInv == WritesStayInMemory

Covered(r) == (r.x..(r.x + r.w - 1)) \X (r.y..(r.y + r.h - 1))

LumaAt(p) == frame.offset + p[2] * Layout(frame).wstride + p[1]
ChromaAt(p, k) ==
  frame.offset + Layout(frame).uv_offset
    + (p[2] \div 2) * Layout(frame).uv_stride + Even(p[1]) + k

(* The borders of the boxes that are drawn, and the edges that the current  *)
(* box has so far.                                                          *)
DrawnBoxes == IF pc \in Filling \cup {"sync"} THEN framed \ {at} ELSE framed
EdgesBefore(l) == {j \in 1..4 : \E k \in 1..4 : j < k /\ l = FillSteps[k]}
EdgesDone == EdgesBefore(pc)
Ink == (UNION {Border(Clipped(boxes[n])) : n \in DrawnBoxes})
         \cup (UNION {Covered(Edge(Box, j)) : j \in EdgesDone})

InkInv ==
  pc # "idle" /\ frame.format = "NV12" /\ Fits(frame) =>
    /\ luma = {LumaAt(p) : p \in Ink}
    /\ chroma = {ChromaAt(p, k) : p \in Ink, k \in {0, 1}}

Inv == TypeOK /\ FlowInv /\ TriedInv /\ MemInv /\ InkInv
-----------------------------------------------------------------------------
(* Numbers.                                                                 *)
LEMMA Monotone ==
  ASSUME NEW a \in Nat, NEW b \in Nat, NEW s \in Nat, a <= b
  PROVE  a * s \in Nat /\ a * s <= b * s /\ (a + 1) * s = a * s + s
OBVIOUS

LEMMA Halves ==
  ASSUME NEW n \in Nat
  PROVE  /\ n \div 2 \in Nat /\ Even(n) \in Nat
         /\ Even(n) <= n /\ n <= Even(n) + 1 /\ Even(n) = 2 * (n \div 2)
BY DEF Even

(* A frame's planes begin and advance by natural numbers.                   *)
LEMMA LayoutShape ==
  ASSUME NEW f \in Frames
  PROVE  /\ Layout(f).wstride \in Nat /\ Layout(f).uv_stride \in Nat
         /\ Layout(f).uv_offset \in Nat
<1>1. /\ f.width \in Nat /\ f.height \in Nat /\ f.uv_offset \in Nat /\ f.planes \in Nat
      /\ f.stride[1] \in Nat /\ f.stride[2] \in Nat
  BY FramesAssumption DEF FrameType
<1>2. AlignUp(f.width, 16) \in Nat /\ AlignUp(f.height, 2) \in Nat
  BY <1>1 DEF AlignUp
<1>3. ASSUME NEW a \in Nat, NEW b \in Nat PROVE a * b \in Nat
  OBVIOUS
<1>4. f.width * f.height \in Nat /\ AlignUp(f.width, 16) * AlignUp(f.height, 2) \in Nat
  BY <1>1, <1>2, <1>3
<1> DEFINE nv12 == f.format = "NV12"
           full == nv12 /\ f.planes > 1 /\ f.stride[1] > 0
<1>5. CASE full
  BY <1>1, <1>5 DEF Layout
<1>6. CASE f.planes > 0 /\ ~ full
  BY <1>1, <1>4, <1>6 DEF Layout
<1>7. CASE f.planes = 0 /\ nv12
  BY <1>1, <1>2, <1>4, <1>7 DEF Layout
<1>8. CASE f.planes = 0 /\ ~ nv12
  BY <1>1, <1>4, <1>8 DEF Layout
<1> QED BY <1>1, <1>5, <1>6, <1>7, <1>8

(* The frame that the probe was called for.                                 *)
LEMMA FrameShape ==
  ASSUME TypeOK, pc # "idle"
  PROVE  /\ frame \in Frames
         /\ frame.width \in Nat /\ frame.width > 0 /\ frame.height \in Nat /\ frame.height > 0
         /\ frame.offset \in Nat /\ frame.size \in Nat
         /\ Layout(frame).wstride \in Nat /\ Layout(frame).uv_stride \in Nat
         /\ Layout(frame).uv_offset \in Nat
<1>1. frame \in Frames
  BY DEF TypeOK
<1>2. frame \in FrameType /\ frame.width > 0 /\ frame.height > 0
  BY <1>1, FramesAssumption
<1>3. /\ frame.width \in Nat /\ frame.height \in Nat
      /\ frame.offset \in Nat /\ frame.size \in Nat
  BY <1>2 DEF FrameType
<1> QED BY <1>1, <1>2, <1>3, LayoutShape

-----------------------------------------------------------------------------
(* Geometry.                                                                *)

(* A box that is inside the frame and shows.                                *)
Shows(b) ==
  /\ b.x1 \in Nat /\ b.x2 \in Nat /\ b.y1 \in Nat /\ b.y2 \in Nat
  /\ b.x1 < b.x2 /\ b.x2 < frame.width
  /\ b.y1 < b.y2 /\ b.y2 < frame.height

LEMMA ClippedShape ==
  ASSUME TypeOK, pc # "idle", NEW b \in Boxes
  PROVE  /\ IsEmpty(Clipped(b)) <=>
              ~ /\ frame.width > 1 /\ frame.height > 1
                /\ b.x1 < b.x2 /\ b.x1 < frame.width - 1 /\ b.x2 > 0
                /\ b.y1 < b.y2 /\ b.y1 < frame.height - 1 /\ b.y2 > 0
         /\ ~ IsEmpty(Clipped(b)) => Shows(Clipped(b))
<1>1. b.x1 \in Int /\ b.x2 \in Int /\ b.y1 \in Int /\ b.y2 \in Int
  BY BoxesAssumption
<1>2. /\ frame.width \in Nat /\ frame.width > 0
      /\ frame.height \in Nat /\ frame.height > 0
  BY FrameShape
<1>3. ASSUME NEW a1 \in Int, NEW a2 \in Int, NEW size \in Nat, size > 0
      PROVE  LET c1 == Clamp(a1, 0, size - 1)
                 c2 == Clamp(a2, 0, size - 1)
             IN /\ c1 \in Nat /\ c2 \in Nat /\ c2 < size
                /\ c2 <= c1 <=> ~ (size > 1 /\ a1 < a2 /\ a1 < size - 1 /\ a2 > 0)
  BY <1>3 DEF Clamp
<1> DEFINE c == Clipped(b)
<1>4. /\ c.x1 \in Nat /\ c.x2 \in Nat /\ c.x2 < frame.width
      /\ c.x2 <= c.x1 <=> ~ (frame.width > 1 /\ b.x1 < b.x2 /\ b.x1 < frame.width - 1 /\ b.x2 > 0)
  BY <1>1, <1>2, <1>3 DEF Clipped
<1>5. /\ c.y1 \in Nat /\ c.y2 \in Nat /\ c.y2 < frame.height
      /\ c.y2 <= c.y1 <=> ~ (frame.height > 1 /\ b.y1 < b.y2 /\ b.y1 < frame.height - 1 /\ b.y2 > 0)
  BY <1>1, <1>2, <1>3 DEF Clipped
<1> HIDE DEF c
<1>6. IsEmpty(c) <=>
        ~ /\ frame.width > 1 /\ frame.height > 1
          /\ b.x1 < b.x2 /\ b.x1 < frame.width - 1 /\ b.x2 > 0
          /\ b.y1 < b.y2 /\ b.y1 < frame.height - 1 /\ b.y2 > 0
  BY <1>4, <1>5 DEF IsEmpty
<1>7. ~ IsEmpty(c) => Shows(c)
  BY <1>4, <1>5 DEF IsEmpty, Shows
<1> QED BY <1>6, <1>7 DEF c

LEMMA LineShape ==
  ASSUME NEW b, Shows(b)
  PROVE  /\ Line(b) \in Nat /\ 1 <= Line(b) /\ Line(b) <= Thickness
         /\ Line(b) <= b.x2 - b.x1 /\ Line(b) <= b.y2 - b.y1
         /\ \/ Line(b) = Thickness
            \/ Line(b) = b.x2 - b.x1
            \/ Line(b) = b.y2 - b.y1
BY BoxesAssumption DEF Shows, Line, Clamp

(* Each edge lies in the box and has an area.                               *)
LEMMA EdgeShape ==
  ASSUME NEW b, Shows(b), NEW k \in 1..4
  PROVE  LET r == Edge(b, k)
         IN /\ r \in Rects /\ r.w >= 1 /\ r.h >= 1
            /\ b.x1 <= r.x /\ r.x + r.w <= b.x2
            /\ b.y1 <= r.y /\ r.y + r.h <= b.y2
<1>1. /\ b.x1 \in Int /\ b.x2 \in Int /\ b.y1 \in Int /\ b.y2 \in Int
      /\ b.x1 < b.x2 /\ b.y1 < b.y2
  BY DEF Shows
<1>2. /\ Line(b) \in Int /\ 1 <= Line(b)
      /\ Line(b) <= b.x2 - b.x1 /\ Line(b) <= b.y2 - b.y1
  BY LineShape
<1>3. k = 1 \/ k = 2 \/ k = 3 \/ k = 4
  OBVIOUS
<1>4. CASE k = 1
  BY <1>1, <1>2, <1>4 DEF Edge, Rects
<1>5. CASE k = 2
  BY <1>1, <1>2, <1>5 DEF Edge, Rects
<1>6. CASE k = 3
  BY <1>1, <1>2, <1>6 DEF Edge, Rects
<1>7. CASE k = 4
  BY <1>1, <1>2, <1>7 DEF Edge, Rects
<1> QED BY <1>3, <1>4, <1>5, <1>6, <1>7

(* The four edges leave no gap and no spill.                                *)
LEMMA EdgesMakeBorder ==
  ASSUME NEW b, Shows(b)
  PROVE  UNION {Covered(Edge(b, k)) : k \in 1..4} = Border(b)
<1>1. /\ b.x1 \in Int /\ b.x2 \in Int /\ b.y1 \in Int /\ b.y2 \in Int
      /\ b.x1 < b.x2 /\ b.y1 < b.y2
  BY DEF Shows
<1> DEFINE t == Line(b)
<1>2. /\ t \in Int /\ 1 <= t /\ t <= b.x2 - b.x1 /\ t <= b.y2 - b.y1
      /\ Thickness \in Int /\ t <= Thickness
      /\ t = Thickness \/ t = b.x2 - b.x1 \/ t = b.y2 - b.y1
  BY LineShape, BoxesAssumption
<1>3. ASSUME NEW p
      PROVE  p \in Border(b) <=>
               /\ p \in Pixels(b)
               /\ \/ p[2] < b.y1 + t \/ p[2] >= b.y2 - t
                  \/ p[1] < b.x1 + t \/ p[1] >= b.x2 - t
  <2> HIDE DEF t
  <2> SUFFICES ASSUME p \in Pixels(b)
               PROVE  \/ p[1] < b.x1 + Thickness \/ p[1] >= b.x2 - Thickness
                      \/ p[2] < b.y1 + Thickness \/ p[2] >= b.y2 - Thickness
                      <=>
                      \/ p[2] < b.y1 + t \/ p[2] >= b.y2 - t
                      \/ p[1] < b.x1 + t \/ p[1] >= b.x2 - t
    BY DEF Border
  <2>1. /\ p[1] \in Int /\ p[2] \in Int
        /\ b.x1 <= p[1] /\ p[1] < b.x2 /\ b.y1 <= p[2] /\ p[2] < b.y2
    BY <1>1 DEF Pixels
  <2> QED BY <1>1, <1>2, <2>1
<1>4. ASSUME NEW p
      PROVE  p \in Pixels(b) <=>
               /\ p = <<p[1], p[2]>> /\ p[1] \in Int /\ p[2] \in Int
               /\ b.x1 <= p[1] /\ p[1] < b.x2 /\ b.y1 <= p[2] /\ p[2] < b.y2
  BY <1>1 DEF Pixels
<1>5. ASSUME NEW p, NEW k \in 1..4
      PROVE  LET r == Edge(b, k)
             IN p \in Covered(r) <=>
                  /\ p = <<p[1], p[2]>> /\ p[1] \in Int /\ p[2] \in Int
                  /\ r.x <= p[1] /\ p[1] < r.x + r.w /\ r.y <= p[2] /\ p[2] < r.y + r.h
  <2> DEFINE r == Edge(b, k)
  <2>1. r.x \in Int /\ r.y \in Int /\ r.w \in Int /\ r.h \in Int
    BY EdgeShape DEF Rects
  <2> HIDE DEF r
  <2> QED BY <2>1 DEF Covered, r
<1>6. /\ Edge(b, 1) = [x |-> b.x1, y |-> b.y1, w |-> b.x2 - b.x1, h |-> t]
      /\ Edge(b, 2) = [x |-> b.x1, y |-> b.y2 - t, w |-> b.x2 - b.x1, h |-> t]
      /\ Edge(b, 3) = [x |-> b.x1, y |-> b.y1, w |-> t, h |-> b.y2 - b.y1]
      /\ Edge(b, 4) = [x |-> b.x2 - t, y |-> b.y1, w |-> t, h |-> b.y2 - b.y1]
  BY DEF Edge
<1> HIDE DEF t
<1>7. ASSUME NEW p
      PROVE  /\ p \in Covered(Edge(b, 1)) <=> p \in Pixels(b) /\ p[2] < b.y1 + t
             /\ p \in Covered(Edge(b, 2)) <=> p \in Pixels(b) /\ p[2] >= b.y2 - t
             /\ p \in Covered(Edge(b, 3)) <=> p \in Pixels(b) /\ p[1] < b.x1 + t
             /\ p \in Covered(Edge(b, 4)) <=> p \in Pixels(b) /\ p[1] >= b.x2 - t
  <2>1. p \in Covered(Edge(b, 1)) <=> p \in Pixels(b) /\ p[2] < b.y1 + t
    BY <1>1, <1>2, <1>4, <1>5, <1>6
  <2>2. p \in Covered(Edge(b, 2)) <=> p \in Pixels(b) /\ p[2] >= b.y2 - t
    BY <1>1, <1>2, <1>4, <1>5, <1>6
  <2>3. p \in Covered(Edge(b, 3)) <=> p \in Pixels(b) /\ p[1] < b.x1 + t
    BY <1>1, <1>2, <1>4, <1>5, <1>6
  <2>4. p \in Covered(Edge(b, 4)) <=> p \in Pixels(b) /\ p[1] >= b.x2 - t
    BY <1>1, <1>2, <1>4, <1>5, <1>6
  <2> QED BY <2>1, <2>2, <2>3, <2>4
<1>8. ASSUME NEW p
      PROVE  p \in UNION {Covered(Edge(b, k)) : k \in 1..4} <=> p \in Border(b)
  <2>1. \A k \in 1..4 : k = 1 \/ k = 2 \/ k = 3 \/ k = 4
    OBVIOUS
  <2>2. 1 \in 1..4 /\ 2 \in 1..4 /\ 3 \in 1..4 /\ 4 \in 1..4
    OBVIOUS
  <2>3. p \in UNION {Covered(Edge(b, k)) : k \in 1..4} <=>
          \/ p \in Covered(Edge(b, 1)) \/ p \in Covered(Edge(b, 2))
          \/ p \in Covered(Edge(b, 3)) \/ p \in Covered(Edge(b, 4))
    BY <2>1, <2>2
  <2> QED BY <1>3, <1>7, <2>3
<1> QED BY <1>8

-----------------------------------------------------------------------------
(* Bytes.                                                                   *)
LEMMA ClampShape ==
  ASSUME NEW v \in Int, NEW top \in Nat
  PROVE  /\ Clamp(v, 0, top) \in Nat /\ Clamp(v, 0, top) <= top
         /\ 0 <= v /\ v <= top => Clamp(v, 0, top) = v
BY DEF Clamp

LEMMA ChromaByte ==
  ASSUME NEW r, NEW q
  PROVE  LET pair(row, col) ==
               Layout(frame).uv_offset + (row \div 2) * Layout(frame).uv_stride + Even(col)
         IN q \in ChromaBytes(r) <=>
              \E row \in Rows(r), col \in Columns(r), n \in {0, 1} :
                pair(row, col) + 1 < frame.size /\ q = pair(row, col) + n
<1> DEFINE pair(row, col) ==
             Layout(frame).uv_offset + (row \div 2) * Layout(frame).uv_stride + Even(col)
           pairs == {pair(row, col) : row \in Rows(r), col \in Columns(r)}
<1>1. ChromaBytes(r) = {p + n : p \in {p \in pairs : p + 1 < frame.size}, n \in {0, 1}}
  BY DEF ChromaBytes
<1>2. q \in ChromaBytes(r) <=>
        \E p \in pairs, n \in {0, 1} : p + 1 < frame.size /\ q = p + n
  <2> DEFINE inside == {p \in pairs : p + 1 < frame.size}
  <2>1. q \in ChromaBytes(r) <=> \E p \in inside, n \in {0, 1} : q = p + n
    <3>1. ChromaBytes(r) = {p + n : p \in inside, n \in {0, 1}}
      BY <1>1
    <3> HIDE DEF inside
    <3> QED BY <3>1
  <2>2. \A p : p \in inside <=> p \in pairs /\ p + 1 < frame.size
    <3> HIDE DEF pairs
    <3> QED OBVIOUS
  <2> HIDE DEF inside, pairs
  <2> QED BY <2>1, <2>2
<1>3. \A p : p \in pairs <=> \E row \in Rows(r), col \in Columns(r) : p = pair(row, col)
  <2> HIDE DEF pair
  <2> QED OBVIOUS
<1> HIDE DEF pair, pairs
<1>4. q \in ChromaBytes(r) <=>
        \E row \in Rows(r), col \in Columns(r), n \in {0, 1} :
          pair(row, col) + 1 < frame.size /\ q = pair(row, col) + n
  BY <1>2, <1>3
<1> QED BY <1>4 DEF pair

(* Whatever is drawn, a byte is in the memory of the frame.                 *)
LEMMA BytesInMemory ==
  ASSUME TypeOK, pc # "idle", NEW r \in Rects
  PROVE  /\ LumaBytes(r) \subseteq 0..(frame.size - 1)
         /\ ChromaBytes(r) \subseteq 0..(frame.size - 1)
<1> DEFINE stride == Layout(frame).wstride
           left == Clamp(r.x, 0, frame.width)
           right == Clamp(r.x + r.w, 0, frame.width)
<1>1. /\ stride \in Nat /\ frame.size \in Nat /\ frame.width \in Nat /\ frame.height \in Nat
      /\ Layout(frame).uv_stride \in Nat /\ Layout(frame).uv_offset \in Nat
  BY FrameShape
<1>2. /\ r.x \in Int /\ r.y \in Int /\ r.x + r.w \in Int /\ r.y + r.h \in Int
  BY DEF Rects
<1>3. left \in Nat /\ right \in Nat
  BY <1>1, <1>2, ClampShape
<1>4. \A row \in Rows(r) : row \in Nat
  <2>1. Clamp(r.y, 0, frame.height) \in Nat /\ Clamp(r.y + r.h, 0, frame.height) \in Nat
    BY <1>1, <1>2, ClampShape
  <2> QED BY <2>1 DEF Rows
<1>5. \A col \in Columns(r) : col \in Nat /\ left <= col /\ col < right
  <2>1. Columns(r) = left..(right - 1)
    BY DEF Columns
  <2> HIDE DEF left, right
  <2> QED BY <1>3, <2>1
<1>6. ASSUME NEW q \in LumaBytes(r) PROVE q \in 0..(frame.size - 1)
  <2>1. PICK row \in Rows(r), col \in Columns(r) :
          (row * stride + left) + (right - left) <= frame.size /\ q = row * stride + col
    BY <1>6 DEF LumaBytes
  <2> HIDE DEF stride, left, right
  <2>2. row \in Nat /\ row * stride \in Nat
    BY <1>1, <1>4, Monotone
  <2> QED BY <1>1, <1>3, <1>5, <2>1, <2>2
<1>7. ASSUME NEW q \in ChromaBytes(r) PROVE q \in 0..(frame.size - 1)
  <2> DEFINE pair(row, col) ==
        Layout(frame).uv_offset + (row \div 2) * Layout(frame).uv_stride + Even(col)
  <2>1. PICK row \in Rows(r), col \in Columns(r), k \in {0, 1} :
          pair(row, col) + 1 < frame.size /\ q = pair(row, col) + k
    BY <1>7, ChromaByte
  <2>2. (row \div 2) * Layout(frame).uv_stride \in Nat
    <3> DEFINE y == row \div 2
    <3>1. y \in Nat
      BY <1>4, Halves
    <3> HIDE DEF y
    <3>2. y * Layout(frame).uv_stride \in Nat
      BY <1>1, <3>1, Monotone
    <3> QED BY <3>2 DEF y
  <2>3. Even(col) \in Nat
    BY <1>5, Halves
  <2>4. pair(row, col) \in Nat
    BY <1>1, <2>2, <2>3
  <2> HIDE DEF pair
  <2> QED BY <1>1, <2>1, <2>4
<1> QED BY <1>6, <1>7

LEMMA EdgeInFrame ==
  ASSUME TypeOK, pc # "idle", NEW b, Shows(b), NEW k \in 1..4
  PROVE  LET r == Edge(b, k)
         IN /\ Clamp(r.x, 0, frame.width) = r.x
            /\ Clamp(r.x + r.w, 0, frame.width) = r.x + r.w
            /\ Rows(r) = r.y..(r.y + r.h - 1) /\ Columns(r) = r.x..(r.x + r.w - 1)
            /\ \A y \in Rows(r) : y \in Nat /\ y < frame.height
            /\ \A x \in Columns(r) : x \in Nat /\ x < frame.width
<1> DEFINE r == Edge(b, k)
<1>1. /\ r.x \in Int /\ r.y \in Int /\ r.w \in Int /\ r.h \in Int /\ r.w >= 1 /\ r.h >= 1
      /\ b.x1 <= r.x /\ r.x + r.w <= b.x2 /\ b.y1 <= r.y /\ r.y + r.h <= b.y2
  BY EdgeShape DEF Rects
<1>2. /\ b.x1 \in Nat /\ b.x2 \in Nat /\ b.y1 \in Nat /\ b.y2 \in Nat
      /\ b.x2 < frame.width /\ b.y2 < frame.height
      /\ frame.width \in Nat /\ frame.height \in Nat
  BY FrameShape DEF Shows
<1> HIDE DEF r
<1>3. /\ 0 <= r.x /\ r.x <= frame.width /\ 0 <= r.x + r.w /\ r.x + r.w <= frame.width
      /\ 0 <= r.y /\ r.y <= frame.height /\ 0 <= r.y + r.h /\ r.y + r.h <= frame.height
      /\ r.x + r.w < frame.width /\ r.y + r.h < frame.height
  BY <1>1, <1>2
<1>4. /\ Clamp(r.x, 0, frame.width) = r.x /\ Clamp(r.x + r.w, 0, frame.width) = r.x + r.w
      /\ Clamp(r.y, 0, frame.height) = r.y /\ Clamp(r.y + r.h, 0, frame.height) = r.y + r.h
  BY <1>1, <1>2, <1>3 DEF Clamp
<1>5. Rows(r) = r.y..(r.y + r.h - 1) /\ Columns(r) = r.x..(r.x + r.w - 1)
  <2>1. /\ Rows(r) = r.y..((r.y + r.h) - 1)
        /\ Columns(r) = r.x..((r.x + r.w) - 1)
    BY <1>4 DEF Rows, Columns
  <2> QED BY <1>1, <2>1
<1>6. \A y \in Rows(r) : y \in Nat /\ y < frame.height
  BY <1>1, <1>2, <1>3, <1>5
<1>7. \A x \in Columns(r) : x \in Nat /\ x < frame.width
  BY <1>1, <1>2, <1>3, <1>5
<1> QED BY <1>4, <1>5, <1>6, <1>7 DEF r

LEMMA CoveredPoint ==
  ASSUME TypeOK, pc # "idle", NEW b, Shows(b), NEW k \in 1..4, NEW p \in Covered(Edge(b, k))
  PROVE  /\ p[1] \in Columns(Edge(b, k)) /\ p[2] \in Rows(Edge(b, k))
         /\ p[1] \in Nat /\ p[2] \in Nat
<1>1. p[1] \in Columns(Edge(b, k)) /\ p[2] \in Rows(Edge(b, k))
  BY EdgeInFrame DEF Covered
<1> QED BY <1>1, EdgeInFrame

(* In a frame that fits no row is left out: what fill_nv12_rect writes is   *)
(* the rectangle.                                                           *)
LEMMA LumaOfEdge ==
  ASSUME TypeOK, pc # "idle", Fits(frame), NEW b, Shows(b), NEW k \in 1..4
  PROVE  {frame.offset + q : q \in LumaBytes(Edge(b, k))}
           = {LumaAt(p) : p \in Covered(Edge(b, k))}
<1> DEFINE r == Edge(b, k)
           stride == Layout(frame).wstride
<1>1. /\ stride \in Nat /\ frame.width \in Nat /\ frame.height \in Nat
      /\ frame.size \in Nat /\ frame.offset \in Nat
      /\ Layout(frame).uv_stride \in Nat /\ Layout(frame).uv_offset \in Nat
  BY FrameShape
<1>2. /\ Clamp(r.x, 0, frame.width) = r.x /\ Clamp(r.x + r.w, 0, frame.width) = r.x + r.w
      /\ \A y \in Rows(r) : y \in Nat /\ y < frame.height
      /\ \A x \in Columns(r) : x \in Nat /\ x < frame.width
      /\ Covered(r) = Columns(r) \X Rows(r)
  BY EdgeInFrame DEF Covered
<1>3. r.x \in Int /\ r.w \in Int /\ r.x + r.w <= frame.width
  <2>1. /\ r.x \in Int /\ r.w \in Int /\ r.x + r.w <= b.x2
        /\ b.x2 \in Nat /\ b.x2 < frame.width
    BY EdgeShape DEF Rects, Shows
  <2> HIDE DEF r
  <2> QED BY <1>1, <2>1
<1>4. /\ stride >= frame.width /\ Layout(frame).uv_offset >= stride * frame.height
      /\ frame.size >= Layout(frame).uv_offset
  <2>1. /\ stride >= frame.width /\ Layout(frame).uv_offset >= stride * frame.height
        /\ frame.size >= Layout(frame).uv_offset
                           + Layout(frame).uv_stride * ((frame.height + 1) \div 2)
    BY DEF Fits
  <2>2. (frame.height + 1) \div 2 \in Nat
    BY <1>1
  <2>3. Layout(frame).uv_stride * ((frame.height + 1) \div 2) \in Nat
    <3> DEFINE rows == (frame.height + 1) \div 2
    <3>1. rows \in Nat
      BY <2>2
    <3> HIDE DEF rows
    <3>2. Layout(frame).uv_stride * rows \in Nat
      BY <1>1, <3>1
    <3> QED BY <3>2 DEF rows
  <2> QED BY <1>1, <2>1, <2>3
<1>5. ASSUME NEW row \in Rows(r)
      PROVE  (row * stride + r.x) + ((r.x + r.w) - r.x) <= frame.size /\ row * stride \in Nat
  <2>1. row \in Nat /\ row + 1 \in Nat /\ row + 1 <= frame.height
    BY <1>1, <1>2
  <2>2. row * stride \in Nat /\ row * stride + stride <= frame.height * stride
    <3>1. (row + 1) * stride <= frame.height * stride
      BY <1>1, <2>1, Monotone
    <3>2. (row + 1) * stride = row * stride + stride /\ row * stride \in Nat
      <4> HIDE DEF stride
      <4> QED BY <1>1, <2>1
    <3> QED BY <3>1, <3>2
  <2>3. frame.height * stride = stride * frame.height /\ stride * frame.height \in Nat
    BY <1>1
  <2> HIDE DEF r, stride
  <2> QED BY <1>1, <1>3, <1>4, <2>2, <2>3
<1>6. LumaBytes(r) = {row * stride + col : row \in Rows(r), col \in Columns(r)}
  <2>1. LumaBytes(r) = {row * stride + col : row \in
          {row \in Rows(r) : (row * stride + r.x) + ((r.x + r.w) - r.x) <= frame.size},
          col \in Columns(r)}
    BY <1>2 DEF LumaBytes
  <2> HIDE DEF r, stride
  <2> QED BY <1>5, <2>1
<1>7. ASSUME NEW row \in Rows(r), NEW col \in Columns(r)
      PROVE  LumaAt(<<col, row>>) = frame.offset + (row * stride + col)
  <2>1. row * stride \in Nat /\ col \in Nat
    BY <1>2, <1>5
  <2>2. LumaAt(<<col, row>>) = (frame.offset + row * stride) + col
    BY DEF LumaAt
  <2> HIDE DEF stride
  <2> QED BY <1>1, <2>1, <2>2
<1> HIDE DEF r, stride
<1>8. {frame.offset + q : q \in LumaBytes(r)} = {LumaAt(p) : p \in Covered(r)}
  <2>1. ASSUME NEW q \in LumaBytes(r) PROVE \E p \in Covered(r) : frame.offset + q = LumaAt(p)
    <3>1. PICK row \in Rows(r), col \in Columns(r) : q = row * stride + col
      BY <1>6, <2>1
    <3>2. <<col, row>> \in Covered(r)
      BY <1>2
    <3> QED BY <1>7, <3>1, <3>2
  <2>2. ASSUME NEW p \in Covered(r) PROVE \E q \in LumaBytes(r) : frame.offset + q = LumaAt(p)
    <3>1. p[1] \in Columns(r) /\ p[2] \in Rows(r) /\ p = <<p[1], p[2]>>
      BY <1>2
    <3>2. p[2] * stride + p[1] \in LumaBytes(r)
      BY <1>6, <3>1
    <3>3. LumaAt(p) = frame.offset + (p[2] * stride + p[1])
      BY <1>7, <3>1
    <3> QED BY <3>2, <3>3
  <2> QED BY <2>1, <2>2
<1> QED BY <1>8 DEF r

LEMMA ChromaOfEdge ==
  ASSUME TypeOK, pc # "idle", Fits(frame), NEW b, Shows(b), NEW k \in 1..4
  PROVE  \A c : (\E q \in ChromaBytes(Edge(b, k)) : c = frame.offset + q)
                 <=> \E p \in Covered(Edge(b, k)), n \in {0, 1} : c = ChromaAt(p, n)
<1> DEFINE r == Edge(b, k)
           uv_stride == Layout(frame).uv_stride
           uv_offset == Layout(frame).uv_offset
           rows == (frame.height + 1) \div 2
           pair(row, col) == uv_offset + (row \div 2) * uv_stride + Even(col)
<1>1. /\ uv_stride \in Nat /\ uv_offset \in Nat /\ frame.width \in Nat /\ frame.height \in Nat
      /\ frame.size \in Nat /\ frame.offset \in Nat /\ rows \in Nat
  BY FrameShape
<1>2. /\ \A y \in Rows(r) : y \in Nat /\ y < frame.height
      /\ \A x \in Columns(r) : x \in Nat /\ x < frame.width
      /\ Covered(r) = Columns(r) \X Rows(r)
  BY EdgeInFrame DEF Covered
<1>3. /\ uv_stride >= AlignUp(frame.width, 2) /\ frame.size >= uv_offset + uv_stride * rows
  BY DEF Fits
<1>4. ASSUME NEW row \in Rows(r), NEW col \in Columns(r)
      PROVE  /\ (row \div 2) * uv_stride \in Nat /\ Even(col) \in Nat
             /\ pair(row, col) \in Nat /\ pair(row, col) + 1 < frame.size
  <2>1. row \in Nat /\ row < frame.height /\ col \in Nat /\ col < frame.width
    BY <1>2
  <2>2. row \div 2 \in Nat /\ row \div 2 + 1 <= rows
    BY <1>1, <2>1
  <2>3. Even(col) \in Nat /\ Even(col) + 1 < AlignUp(frame.width, 2)
    BY <1>1, <2>1 DEF Even, AlignUp
  <2>4. AlignUp(frame.width, 2) \in Nat
    BY <1>1 DEF AlignUp
  <2>5. /\ (row \div 2) * uv_stride \in Nat
        /\ (row \div 2) * uv_stride + uv_stride <= uv_stride * rows
        /\ uv_stride * rows \in Nat
    <3> DEFINE y == row \div 2
    <3>1. y \in Nat /\ y + 1 \in Nat /\ y + 1 <= rows
      BY <2>2
    <3> HIDE DEF y, uv_stride, rows
    <3>2. y * uv_stride \in Nat /\ (y + 1) * uv_stride = y * uv_stride + uv_stride
      BY <1>1, <3>1
    <3>3. (y + 1) * uv_stride <= rows * uv_stride
      BY <1>1, <3>1, Monotone
    <3>4. rows * uv_stride = uv_stride * rows /\ uv_stride * rows \in Nat
      BY <1>1
    <3>5. /\ y * uv_stride \in Nat /\ y * uv_stride + uv_stride <= uv_stride * rows
          /\ uv_stride * rows \in Nat
      BY <3>2, <3>3, <3>4
    <3> QED BY <3>5 DEF y
  <2> DEFINE m == (row \div 2) * uv_stride
             c == Even(col)
             s == uv_stride * rows
  <2>6. /\ m \in Nat /\ c \in Nat /\ s \in Nat /\ m + uv_stride <= s
        /\ c + 1 < AlignUp(frame.width, 2)
    BY <2>3, <2>5
  <2>7. frame.size >= uv_offset + s
    BY <1>3
  <2>8. pair(row, col) = (uv_offset + m) + c
    OBVIOUS
  <2> HIDE DEF m, c, s, pair, uv_stride, uv_offset
  <2>9. pair(row, col) \in Nat /\ pair(row, col) + 1 < frame.size
    BY <1>1, <1>3, <2>4, <2>6, <2>7, <2>8
  <2> QED BY <2>3, <2>5, <2>9
<1>5. ASSUME NEW q
      PROVE  q \in ChromaBytes(r) <=>
               \E row \in Rows(r), col \in Columns(r), n \in {0, 1} : q = pair(row, col) + n
  <2>1. q \in ChromaBytes(r) <=>
          \E row \in Rows(r), col \in Columns(r), n \in {0, 1} :
            pair(row, col) + 1 < frame.size /\ q = pair(row, col) + n
    BY ChromaByte
  <2> HIDE DEF pair
  <2> QED BY <1>4, <2>1
<1>6. ASSUME NEW row \in Rows(r), NEW col \in Columns(r), NEW n \in {0, 1}
      PROVE  ChromaAt(<<col, row>>, n) = frame.offset + (pair(row, col) + n)
  <2> DEFINE m == (row \div 2) * uv_stride
             c == Even(col)
  <2>1. m \in Nat /\ c \in Nat
    BY <1>4
  <2>2. /\ ChromaAt(<<col, row>>, n) = (((frame.offset + uv_offset) + m) + c) + n
        /\ pair(row, col) = (uv_offset + m) + c
    BY DEF ChromaAt
  <2> HIDE DEF m, c, pair, uv_offset
  <2> QED BY <1>1, <2>1, <2>2
<1>7. \A c : (\E q \in ChromaBytes(r) : c = frame.offset + q)
              <=> \E p \in Covered(r), n \in {0, 1} : c = ChromaAt(p, n)
  <2> HIDE DEF r, pair
  <2>1. ASSUME NEW q \in ChromaBytes(r)
        PROVE  \E p \in Covered(r), n \in {0, 1} : frame.offset + q = ChromaAt(p, n)
    <3>1. PICK row \in Rows(r), col \in Columns(r), n \in {0, 1} : q = pair(row, col) + n
      BY <1>5, <2>1
    <3>2. <<col, row>> \in Covered(r)
      BY <1>2
    <3> QED BY <1>6, <3>1, <3>2
  <2>2. ASSUME NEW p \in Covered(r), NEW n \in {0, 1}
        PROVE  \E q \in ChromaBytes(r) : frame.offset + q = ChromaAt(p, n)
    <3>1. p[1] \in Columns(r) /\ p[2] \in Rows(r) /\ p = <<p[1], p[2]>>
      BY <1>2
    <3>2. pair(p[2], p[1]) + n \in ChromaBytes(r)
      BY <1>5, <3>1
    <3>3. ChromaAt(p, n) = frame.offset + (pair(p[2], p[1]) + n)
      BY <1>6, <3>1
    <3> QED BY <3>2, <3>3
  <2> QED BY <2>1, <2>2
<1> QED BY <1>7

-----------------------------------------------------------------------------
(* What has been drawn.                                                     *)
LEMMA Edges ==
  ASSUME NEW l
  PROVE  /\ l \notin Filling => EdgesBefore(l) = {}
         /\ \A k \in 1..4 : l = FillSteps[k] =>
              l \in Filling /\ EdgesBefore(l) = {j \in 1..4 : j < k}
<1>1. /\ FillSteps[1] = "fill1" /\ FillSteps[2] = "fill2" /\ FillSteps[3] = "fill3"
      /\ FillSteps[4] = "fill4"
  BY DEF FillSteps
<1>2. \A k \in 1..4 : k = 1 \/ k = 2 \/ k = 3 \/ k = 4
  OBVIOUS
<1>3. \A k \in 1..4 : FillSteps[k] \in Filling
  BY <1>1, <1>2 DEF Filling
<1>4. \A j, k \in 1..4 : FillSteps[j] = FillSteps[k] => j = k
  BY <1>1, <1>2
<1>5. l \notin Filling => EdgesBefore(l) = {}
  BY <1>3 DEF EdgesBefore
<1>6. ASSUME NEW k \in 1..4, l = FillSteps[k]
      PROVE  EdgesBefore(l) = {j \in 1..4 : j < k}
  BY <1>4, <1>6 DEF EdgesBefore
<1> QED BY <1>3, <1>5, <1>6

LEMMA InkPixels ==
  ASSUME NEW p
  PROVE  p \in Ink <=> \/ \E n \in DrawnBoxes : p \in Border(Clipped(boxes[n]))
                       \/ \E j \in EdgesDone : p \in Covered(Edge(Box, j))
BY DEF Ink

(* A step that leaves the frame where it is leaves the geometry.            *)
LEMMA SameGeometry ==
  ASSUME UNCHANGED frame
  PROVE  /\ \A b : Clipped(b)' = Clipped(b)
         /\ \A p : LumaAt(p)' = LumaAt(p)
         /\ \A p, k : ChromaAt(p, k)' = ChromaAt(p, k)
         /\ Fits(frame)' <=> Fits(frame)
<1>1. Layout(frame)' = Layout(frame)
  BY DEF Layout
<1> QED BY <1>1 DEF Clipped, LumaAt, ChromaAt, Fits

(* A step that writes nothing keeps InkInv if the ink is the same.          *)
LEMMA KeptInk ==
  ASSUME Inv, pc # "idle", UNCHANGED <<frame, luma, chroma>>, Ink' = Ink
  PROVE  InkInv'
BY SameGeometry DEF Inv, InkInv

LEMMA SameInk ==
  ASSUME UNCHANGED <<frame, boxes>>, DrawnBoxes' = DrawnBoxes,
         EdgesDone = {}, EdgesDone' = {}
  PROVE  Ink' = Ink
BY SameGeometry DEF Ink

LEMMA NoInk ==
  ASSUME pc' \notin Filling, framed' = {}, luma' = {}, chroma' = {}
  PROVE  InkInv'
<1>1. DrawnBoxes' = {}
  BY DEF DrawnBoxes
<1>2. EdgesDone' = {}
  BY Edges DEF EdgesDone
<1>3. Ink' = {}
  BY <1>1, <1>2 DEF Ink
<1> QED BY <1>3 DEF InkInv

-----------------------------------------------------------------------------
(* The actions.                                                             *)
LEMMA QueueShape ==
  ASSUME TypeOK
  PROVE  /\ Len(boxes) \in Nat /\ DOMAIN boxes = 1..Len(boxes)
         /\ \A n \in DOMAIN boxes : boxes[n] \in Boxes
         /\ Len(g_bb_q) \in Nat /\ at \in Nat /\ at \in 1..(Len(boxes) + 1)
<1>1. boxes \in Seq(Boxes) /\ g_bb_q \in Seq(Boxes) /\ at \in 1..(Len(boxes) + 1)
  BY DEF TypeOK
<1>2. /\ Len(boxes) \in Nat /\ DOMAIN boxes = 1..Len(boxes)
      /\ \A n \in DOMAIN boxes : boxes[n] \in Boxes
      /\ Len(g_bb_q) \in Nat
  BY <1>1, LenProperties, ElementOfSeq
<1> QED BY <1>1, <1>2

LEMMA InitInv ==
  ASSUME Init
  PROVE  Inv
<1> USE DEF Init
<1>1. <<>> \in Seq(Boxes) /\ <<>> \in Seq(Rects) /\ Len(<<>>) = 0 /\ DOMAIN <<>> = {}
  BY EmptySeq
<1>2. TypeOK
  <2>1. at \in 1..(Len(boxes) + 1) /\ Len(asked) <= 4
    BY <1>1
  <2> QED BY <1>1, <2>1 DEF TypeOK, Steps
<1>3. FlowInv
  BY <1>1 DEF FlowInv, Drawing, Filling
<1>4. TriedInv /\ MemInv /\ InkInv
  BY <1>1 DEF TriedInv, MemInv, WritesStayInMemory, InkInv
<1> QED BY <1>2, <1>3, <1>4 DEF Inv

LEMMA PushBoxInv ==
  ASSUME Inv, PushBox
  PROVE  Inv'
<1> USE DEF PushBox, drawVars, bufferVars
<1>1. PICK b \in Boxes : g_bb_q' = Append(g_bb_q, b)
  OBVIOUS
<1>2. g_bb_q' \in Seq(Boxes)
  BY <1>1, AppendProperties DEF Inv, TypeOK
<1>3. TypeOK'
  BY <1>2 DEF Inv, TypeOK
<1>4. FlowInv'
  BY DEF Inv, FlowInv, Box, Clipped
<1>5. TriedInv'
  BY DEF Inv, TriedInv, Clipped
<1>6. MemInv'
  BY DEF Inv, MemInv, WritesStayInMemory
<1>7. InkInv'
  <2>1. Ink' = Ink
    BY DEF Ink, DrawnBoxes, EdgesDone, Clipped, Box
  <2>2. CASE pc = "idle"
    BY <2>2 DEF InkInv
  <2>3. CASE pc # "idle"
    BY <2>1, <2>3, KeptInk
  <2> QED BY <2>2, <2>3
<1> QED BY <1>3, <1>4, <1>5, <1>6, <1>7 DEF Inv

LEMMA ProbeCalledInv ==
  ASSUME Inv, ProbeCalled
  PROVE  Inv'
<1> USE DEF ProbeCalled, Goto, drawVars, bufferVars
<1>1. /\ boxes = <<>> /\ asked = <<>> /\ luma = {} /\ chroma = {} /\ tried = {} /\ framed = {}
      /\ pc = "idle" /\ pc' = "entered"
  BY DEF Inv, FlowInv
<1>2. TypeOK'
  <2>1. frame' # NoFrame
    BY FramesAssumption
  <2> QED BY <2>1 DEF Inv, TypeOK, Steps
<1>3. FlowInv'
  BY <1>1 DEF Inv, FlowInv, Drawing, Filling
<1>4. TriedInv' /\ MemInv'
  BY <1>1, EmptySeq DEF TriedInv, MemInv, WritesStayInMemory
<1>5. InkInv'
  BY <1>1, NoInk DEF Filling
<1> QED BY <1>2, <1>3, <1>4, <1>5 DEF Inv

LEMMA UnsupportedInv ==
  ASSUME Inv, Unsupported
  PROVE  Inv'
<1> USE DEF Unsupported, Goto, drawVars, bufferVars
<1>1. /\ boxes = <<>> /\ asked = <<>> /\ luma = {} /\ chroma = {} /\ tried = {} /\ framed = {}
      /\ pc = "entered" /\ pc' = "return" /\ Len(boxes) = 0 /\ at = 1
  BY EmptySeq, QueueShape DEF Inv, FlowInv
<1>2. TypeOK'
  BY <1>1 DEF Inv, TypeOK, Steps
<1>3. FlowInv'
  BY <1>1 DEF Inv, FlowInv, Drawing, Filling
<1>4. TriedInv' /\ MemInv'
  BY <1>1, EmptySeq DEF TriedInv, MemInv, WritesStayInMemory
<1>5. InkInv'
  BY <1>1, NoInk DEF Filling
<1> QED BY <1>2, <1>3, <1>4, <1>5 DEF Inv

LEMMA DrainInv ==
  ASSUME Inv, Drain
  PROVE  Inv'
<1> USE DEF Drain, Goto, drawVars, bufferVars
<1>1. /\ boxes = <<>> /\ asked = <<>> /\ luma = {} /\ chroma = {} /\ tried = {} /\ framed = {}
      /\ pc = "entered" /\ pc' = "box" /\ Len(boxes) = 0
  BY EmptySeq DEF Inv, FlowInv
<1>2. /\ boxes' \in Seq(Boxes) /\ g_bb_q' \in Seq(Boxes) /\ Len(g_bb_q') = 0
      /\ Len(boxes') = Len(g_bb_q) /\ Len(g_bb_q) \in Nat
  BY EmptySeq, QueueShape DEF Inv, TypeOK
<1>3. TypeOK'
  BY <1>1, <1>2, QueueShape DEF Inv, TypeOK, Steps
<1>4. FlowInv'
  BY <1>1 DEF Inv, FlowInv, Drawing, Filling
<1>5. TriedInv'
  <2>1. \A n \in DOMAIN boxes' : ~ (n < at') /\ pc' \notin Drawing \cup {"imfill"}
    <3>1. DOMAIN boxes' = 1..Len(boxes')
      BY <1>2, LenProperties
    <3>2. pc' \notin Drawing \cup {"imfill"}
      BY <1>1 DEF Drawing, Filling
    <3> QED BY <1>2, <3>1, <3>2
  <2> QED BY <1>1, <2>1 DEF TriedInv
<1>6. MemInv'
  BY <1>1 DEF MemInv, WritesStayInMemory
<1>7. InkInv'
  BY <1>1, NoInk DEF Filling
<1> QED BY <1>3, <1>4, <1>5, <1>6, <1>7 DEF Inv

LEMMA ReturnInv ==
  ASSUME Inv, Return
  PROVE  Inv'
<1> USE DEF Return, Goto
<1>1. <<>> \in Seq(Boxes) /\ <<>> \in Seq(Rects) /\ Len(<<>>) = 0 /\ DOMAIN <<>> = {}
  BY EmptySeq
<1>2. TypeOK'
  BY <1>1 DEF Inv, TypeOK, Steps
<1>3. FlowInv'
  BY <1>1 DEF Inv, FlowInv, Drawing, Filling
<1>4. TriedInv' /\ MemInv' /\ InkInv'
  BY <1>1 DEF TriedInv, MemInv, WritesStayInMemory, InkInv
<1> QED BY <1>2, <1>3, <1>4 DEF Inv

(* A step of the loop that writes nothing and goes to the next box or on.   *)
LEMMA LoopInv ==
  ASSUME Inv, pc \in Steps, pc # "idle", pc # "entered",
         UNCHANGED <<g_bb_q, frame, boxes, luma, chroma>>,
         pc' \in Steps, pc' # "idle", pc' # "entered", pc' # "return" \/ at' = Len(boxes) + 1,
         at' \in 1..(Len(boxes) + 1), FlowInv', TriedInv',
         framed' \subseteq tried', Len(asked') <= 4, {mapped', synced'} \subseteq BOOLEAN
  PROVE  TypeOK' /\ MemInv'
<1>1. tried' \subseteq DOMAIN boxes'
  BY DEF TriedInv
<1>2. TypeOK'
  BY <1>1 DEF Inv, TypeOK
<1>3. MemInv'
  BY DEF Inv, MemInv, WritesStayInMemory
<1> QED BY <1>2, <1>3

LEMMA EmptyBoxInv ==
  ASSUME Inv, EmptyBox
  PROVE  Inv'
<1> USE DEF EmptyBox, NextBox, Goto, drawVars, bufferVars
<1>1. pc = "box" /\ pc' = "box" /\ at' = at + 1 /\ pc \notin Drawing \cup {"imfill"}
  BY DEF Drawing, Filling
<1>2. FlowInv'
  BY <1>1 DEF Inv, FlowInv, Drawing, Filling
<1>3. TriedInv'
  <2>1. ASSUME NEW n \in DOMAIN boxes, ~ IsEmpty(Clipped(boxes[n]))
        PROVE  n < at + 1 <=> n < at
    <3>1. n # at
      BY <2>1 DEF Box
    <3> QED BY <3>1, QueueShape DEF Inv
  <2> QED BY <1>1, <2>1, SameGeometry DEF Inv, TriedInv
<1>4. TypeOK' /\ MemInv'
  <2>1. at' \in 1..(Len(boxes) + 1)
    BY <1>1, QueueShape DEF Inv
  <2> QED BY <1>1, <1>2, <1>3, <2>1, LoopInv DEF Inv, TypeOK, Steps
<1>5. InkInv'
  <2>1. EdgesDone = {} /\ EdgesDone' = {}
    BY <1>1, Edges DEF Drawing, EdgesDone
  <2> QED BY <1>1, <2>1, KeptInk, SameInk DEF DrawnBoxes, Filling
<1> QED BY <1>2, <1>3, <1>4, <1>5 DEF Inv

LEMMA LastBoxInv ==
  ASSUME Inv, LastBox
  PROVE  Inv'
<1> USE DEF LastBox, Goto, drawVars, bufferVars
<1>1. /\ pc = "box" /\ pc' = "return" /\ at' = at
      /\ pc \notin Drawing \cup {"imfill"} /\ pc' \notin Drawing \cup {"imfill"}
      /\ pc \notin Filling \cup {"unsync", "sync"} /\ pc' \notin Filling \cup {"unsync", "sync"}
  BY DEF Drawing, Filling
<1>2. at = Len(boxes) + 1
  BY QueueShape DEF Inv
<1>3. FlowInv'
  BY <1>1, <1>2 DEF Inv, FlowInv
<1>4. TriedInv'
  BY <1>1, SameGeometry DEF Inv, TriedInv
<1>5. TypeOK' /\ MemInv'
  BY <1>1, <1>2, <1>3, <1>4, LoopInv DEF Inv, TypeOK, Steps
<1>6. InkInv'
  <2>1. EdgesDone = {} /\ EdgesDone' = {}
    BY <1>1, Edges DEF EdgesDone
  <2> QED BY <1>1, <2>1, KeptInk, SameInk DEF DrawnBoxes
<1> QED BY <1>3, <1>4, <1>5, <1>6 DEF Inv

(* The box that is drawn next or now.                                       *)
LEMMA BoxShows ==
  ASSUME Inv, pc # "idle", at <= Len(boxes), ~ IsEmpty(Box)
  PROVE  at \in DOMAIN boxes /\ boxes[at] \in Boxes /\ Shows(Box)
<1>1. at \in DOMAIN boxes /\ boxes[at] \in Boxes
  BY QueueShape DEF Inv
<1> QED BY <1>1, ClippedShape DEF Inv, Box

(* The first step of a box that shows makes it one that is tried.           *)
LEMMA TryBox ==
  ASSUME Inv, pc = "box", at <= Len(boxes), ~ IsEmpty(Box), UNCHANGED <<frame, boxes>>,
         tried' = tried \cup {at},
         \/ pc' \in Drawing \cup {"imfill"} /\ at' = at
         \/ pc' = "box" /\ at' = at + 1
  PROVE  TriedInv' /\ at \notin tried
<1>1. pc \notin Drawing \cup {"imfill"}
  BY DEF Drawing, Filling
<1>2. tried = {n \in DOMAIN boxes : n < at /\ ~ IsEmpty(Clipped(boxes[n]))}
  BY <1>1 DEF Inv, TriedInv
<1>3. at \in DOMAIN boxes /\ at \in Nat
  BY BoxShows, QueueShape DEF Inv
<1>4. at \notin tried
  BY <1>2, <1>3
<1>5. ASSUME NEW n \in DOMAIN boxes
      PROVE  (n < at' \/ (n = at' /\ pc' \in Drawing \cup {"imfill"})) <=> (n < at \/ n = at)
  <2>1. n \in Nat
    BY QueueShape DEF Inv
  <2>2. CASE pc' \in Drawing \cup {"imfill"} /\ at' = at
    BY <2>2
  <2>3. CASE pc' = "box" /\ at' = at + 1
    <3>1. pc' \notin Drawing \cup {"imfill"}
      BY <2>3 DEF Drawing, Filling
    <3>2. n < at + 1 <=> (n < at \/ n = at)
      BY <1>3, <2>1
    <3> QED BY <2>3, <3>1, <3>2
  <2> QED BY <2>2, <2>3
<1>6. tried' = {n \in DOMAIN boxes : (n < at \/ n = at) /\ ~ IsEmpty(Clipped(boxes[n]))}
  BY <1>2, <1>3 DEF Box
<1>7. TriedInv'
  BY <1>5, <1>6, SameGeometry DEF TriedInv
<1> QED BY <1>4, <1>7

LEMMA MapInv ==
  ASSUME Inv, Map
  PROVE  Inv'
<1> USE DEF Map, Goto
<1>1. /\ pc = "box" /\ pc' = "sync" /\ at' = at /\ pc' \in Drawing
      /\ pc \notin Filling \cup {"sync"} /\ pc' \notin Filling
  BY DEF Drawing, Filling
<1>2. TriedInv' /\ at \notin framed
  BY <1>1, TryBox DEF Inv, TypeOK
<1>3. FlowInv'
  <2>1. ~ IsEmpty(Box)' /\ at' \in DOMAIN boxes'
    BY BoxShows, SameGeometry DEF Box
  <2>2. /\ ~ synced' /\ asked' \in Seq(Rects) /\ mapped'
    BY <1>1 DEF Inv, FlowInv, Filling
  <2> QED BY <1>1, <2>1, <2>2 DEF FlowInv, Drawing, Filling
<1>4. TypeOK' /\ MemInv'
  BY <1>1, <1>2, <1>3, LoopInv, QueueShape DEF Inv, TypeOK, Steps
<1>5. InkInv'
  <2>1. EdgesDone = {} /\ EdgesDone' = {}
    BY <1>1, Edges DEF EdgesDone
  <2>2. DrawnBoxes = framed /\ DrawnBoxes' = framed
    BY <1>1, <1>2 DEF DrawnBoxes
  <2> QED BY <1>1, <2>1, <2>2, KeptInk, SameInk
<1> QED BY <1>2, <1>3, <1>4, <1>5 DEF Inv

LEMMA MapFailsInv ==
  ASSUME Inv, MapFails
  PROVE  Inv'
<1> USE DEF MapFails, NextBox, Goto, bufferVars
<1>1. /\ pc = "box" /\ pc' = "box" /\ at' = at + 1
      /\ pc \notin Drawing \cup {"imfill"} /\ pc' \notin Drawing \cup {"imfill"}
      /\ pc \notin Filling \cup {"sync"} /\ pc' \notin Filling \cup {"sync"}
  BY DEF Drawing, Filling
<1>2. TriedInv'
  BY <1>1, TryBox
<1>3. FlowInv'
  BY <1>1 DEF Inv, FlowInv, Drawing, Filling
<1>4. TypeOK' /\ MemInv'
  <2>1. at' \in 1..(Len(boxes) + 1)
    BY <1>1, QueueShape DEF Inv
  <2> QED BY <1>1, <1>2, <1>3, <2>1, LoopInv DEF Inv, TypeOK, Steps
<1>5. InkInv'
  <2>1. EdgesDone = {} /\ EdgesDone' = {}
    BY <1>1, Edges DEF EdgesDone
  <2> QED BY <1>1, <2>1, KeptInk, SameInk DEF DrawnBoxes
<1> QED BY <1>2, <1>3, <1>4, <1>5 DEF Inv

(* The steps between, which neither write nor go on to another box.         *)
LEMMA BetweenInv ==
  ASSUME Inv, SyncStart \/ SyncEnd
  PROVE  Inv'
<1> USE DEF SyncStart, SyncEnd, Goto
<1>1. /\ pc \in {"sync", "unsync"} /\ pc \in Drawing /\ pc' \in Drawing /\ pc' \in Steps
      /\ \/ pc = "sync" /\ pc' = "fill1" /\ synced' = TRUE
         \/ pc = "unsync" /\ pc' = "unmap" /\ synced' = FALSE
      /\ UNCHANGED <<g_bb_q, frame, boxes, at, mapped, luma, chroma, asked, tried, framed>>
  BY DEF Drawing, Filling, Steps
<1>2. TriedInv'
  BY <1>1, SameGeometry DEF Inv, TriedInv
<1>3. FlowInv'
  <2>1. IsEmpty(Box)' <=> IsEmpty(Box)
    BY <1>1, SameGeometry DEF Box
  <2>2. synced' <=> pc' \in Filling \cup {"unsync"}
    BY <1>1 DEF Filling
  <2>3. pc' \notin {"idle", "entered", "return", "imfill"}
    BY <1>1
  <2> QED BY <1>1, <2>1, <2>2, <2>3 DEF Inv, FlowInv
<1>4. TypeOK' /\ MemInv'
  BY <1>1, <1>2, <1>3, LoopInv DEF Inv, TypeOK, Steps
<1>5. InkInv'
  <2>1. EdgesDone = {}
    BY <1>1, Edges DEF EdgesDone, Filling
  <2>2. EdgesDone' = {}
    <3>1. CASE pc' = "unmap"
      BY <3>1, Edges DEF EdgesDone, Filling
    <3>2. CASE pc' = "fill1"
      <4>1. "fill1" = FillSteps[1] /\ {j \in 1..4 : j < 1} = {}
        BY DEF FillSteps
      <4>2. EdgesBefore("fill1") = {}
        BY <4>1, Edges
      <4> QED BY <3>2, <4>2 DEF EdgesDone
    <3> QED BY <1>1, <3>1, <3>2
  <2>3. DrawnBoxes' = DrawnBoxes
    BY <1>1 DEF DrawnBoxes, Filling
  <2> QED BY <1>1, <2>1, <2>2, <2>3, KeptInk, SameInk
<1> QED BY <1>2, <1>3, <1>4, <1>5 DEF Inv

LEMMA UnmapInv ==
  ASSUME Inv, Unmap
  PROVE  Inv'
<1> USE DEF Unmap, NextBox, Goto
<1>1. /\ pc = "unmap" /\ pc' = "box" /\ at' = at + 1 /\ pc \in Drawing
      /\ pc' \notin Drawing \cup {"imfill"}
      /\ pc \notin Filling \cup {"sync", "unsync"} /\ pc' \notin Filling \cup {"sync", "unsync"}
  BY DEF Drawing, Filling
<1>2. TriedInv'
  <2>1. ASSUME NEW n \in DOMAIN boxes
        PROVE  n < at + 1 <=> (n < at \/ n = at)
    BY QueueShape DEF Inv
  <2> QED BY <1>1, <2>1, SameGeometry DEF Inv, TriedInv
<1>3. FlowInv'
  BY <1>1 DEF Inv, FlowInv
<1>4. TypeOK' /\ MemInv'
  <2>1. at' \in 1..(Len(boxes) + 1)
    BY <1>1, QueueShape DEF Inv, FlowInv
  <2> QED BY <1>1, <1>2, <1>3, <2>1, LoopInv DEF Inv, TypeOK, Steps
<1>5. InkInv'
  <2>1. EdgesDone = {} /\ EdgesDone' = {}
    BY <1>1, Edges DEF EdgesDone
  <2> QED BY <1>1, <2>1, KeptInk, SameInk DEF DrawnBoxes
<1> QED BY <1>2, <1>3, <1>4, <1>5 DEF Inv

LEMMA RectangleInv ==
  ASSUME Inv, Rectangle
  PROVE  Inv'
<1> USE DEF Rectangle, NextBox, Goto, bufferVars
<1>1. /\ pc = "box" /\ pc \notin Drawing /\ pc' \notin Drawing
      /\ \/ pc' = "box" /\ at' = at + 1 /\ asked' = asked
         \/ pc' = "imfill" /\ at' = at /\ asked' = <<>>
      /\ pc \notin Filling \cup {"sync", "unsync"} /\ pc' \notin Filling \cup {"sync", "unsync"}
  BY DEF Drawing, Filling
<1>2. TriedInv'
  BY <1>1, TryBox
<1>3. FlowInv'
  <2>1. <<>> \in Seq(Rects) /\ Len(<<>>) = 0 /\ DOMAIN <<>> = {}
    BY EmptySeq
  <2>2. at' = at => ~ IsEmpty(Box)' /\ at' \in DOMAIN boxes'
    BY BoxShows, SameGeometry DEF Box
  <2>3. asked' \in Seq(Rects)
    BY <1>1, <2>1 DEF Inv, FlowInv
  <2> QED BY <1>1, <2>1, <2>2, <2>3 DEF Inv, FlowInv
<1>4. TypeOK' /\ MemInv'
  <2>1. at' \in 1..(Len(boxes) + 1)
    BY <1>1, QueueShape DEF Inv
  <2>2. Len(asked') <= 4
    BY <1>1, EmptySeq DEF Inv, TypeOK
  <2>3. framed' \subseteq tried' /\ {mapped', synced'} \subseteq BOOLEAN
    BY DEF Inv, TypeOK
  <2>4. pc' \in Steps
    BY <1>1 DEF Steps
  <2> QED BY <1>1, <1>2, <1>3, <2>1, <2>2, <2>3, <2>4, LoopInv DEF Inv, TypeOK
<1>5. InkInv'
  BY DEF InkInv
<1> QED BY <1>2, <1>3, <1>4, <1>5 DEF Inv

LEMMA Asked ==
  ASSUME Inv, Imfill
  PROVE  /\ asked' \in Seq(Rects) /\ Len(asked') = Len(asked) + 1
         /\ Len(asked) \in Nat /\ Len(asked) < 4 /\ DOMAIN asked' = 1..(Len(asked) + 1)
         /\ \A k \in DOMAIN asked' : asked'[k] = Edge(Box, k)
         /\ Shows(Box) /\ at \in DOMAIN boxes
<1>1. /\ pc = "imfill" /\ asked' = Append(asked, Edge(Box, Len(asked) + 1))
      /\ asked \in Seq(Rects) /\ Len(asked) < 4
      /\ \A k \in DOMAIN asked : asked[k] = Edge(Box, k)
  BY DEF Inv, FlowInv, Imfill
<1>2. Len(asked) \in Nat /\ DOMAIN asked = 1..Len(asked)
  BY <1>1, LenProperties
<1>3. Shows(Box) /\ at \in DOMAIN boxes
  BY <1>1, BoxShows, QueueShape DEF Inv, FlowInv
<1> DEFINE next == Edge(Box, Len(asked) + 1)
<1>4. next \in Rects
  <2>1. Len(asked) + 1 \in 1..4
    BY <1>1, <1>2
  <2> QED BY <1>3, <2>1, EdgeShape
<1>5. asked' = Append(asked, next)
  BY <1>1
<1>6. /\ asked' \in Seq(Rects) /\ Len(asked') = Len(asked) + 1
      /\ \A k \in 1..Len(asked) : asked'[k] = asked[k]
      /\ asked'[Len(asked) + 1] = next
  <2> HIDE DEF next
  <2> QED BY <1>1, <1>4, <1>5, AppendProperties
<1>7. DOMAIN asked' = 1..(Len(asked) + 1)
  BY <1>6, LenProperties
<1>8. ASSUME NEW k \in DOMAIN asked' PROVE asked'[k] = Edge(Box, k)
  <2>1. k \in 1..Len(asked) \/ k = Len(asked) + 1
    BY <1>2, <1>7
  <2> QED BY <1>1, <1>2, <1>6, <2>1
<1> QED BY <1>1, <1>2, <1>3, <1>6, <1>7, <1>8

LEMMA ImfillInv ==
  ASSUME Inv, Imfill
  PROVE  Inv'
<1> USE DEF Imfill, NextBox, Goto, bufferVars
<1>1. /\ pc = "imfill" /\ pc \notin Drawing /\ pc' \notin Drawing
      /\ \/ pc' = "box" /\ at' = at + 1
         \/ pc' = "imfill" /\ at' = at /\ Len(asked) < 3
      /\ pc \notin Filling \cup {"sync", "unsync"} /\ pc' \notin Filling \cup {"sync", "unsync"}
  BY DEF Drawing, Filling
<1>2. TriedInv'
  <2>1. ASSUME NEW n \in DOMAIN boxes
        PROVE  n < at + 1 <=> (n < at \/ n = at)
    BY QueueShape DEF Inv
  <2>2. tried = {n \in DOMAIN boxes : (n < at \/ n = at) /\ ~ IsEmpty(Clipped(boxes[n]))}
    BY <1>1 DEF Inv, TriedInv
  <2> QED BY <1>1, <2>1, <2>2, SameGeometry DEF TriedInv
<1>3. FlowInv'
  <2>1. Box' = Box \/ pc' = "box"
    BY <1>1, SameGeometry DEF Box
  <2>2. pc' = "imfill" => Len(asked') < 4 /\ \A k \in DOMAIN asked' : asked'[k] = Edge(Box', k)
    <3>1. pc' = "imfill" => Len(asked') < 4
      BY <1>1, Asked
    <3> QED BY <2>1, <3>1, Asked
  <2>3. asked' \in Seq(Rects)
    BY Asked
  <2> QED BY <1>1, <2>1, <2>2, <2>3 DEF Inv, FlowInv
<1>4. TypeOK' /\ MemInv'
  <2>1. at' \in 1..(Len(boxes) + 1)
    BY <1>1, Asked, QueueShape DEF Inv
  <2>2. Len(asked') <= 4
    BY Asked
  <2>3. framed' \subseteq tried' /\ {mapped', synced'} \subseteq BOOLEAN
    BY DEF Inv, TypeOK
  <2>4. pc' \in Steps
    BY <1>1 DEF Steps
  <2> QED BY <1>1, <1>2, <1>3, <2>1, <2>2, <2>3, <2>4, LoopInv DEF Inv, TypeOK
<1>5. InkInv'
  BY <1>1 DEF Inv, FlowInv, InkInv
<1> QED BY <1>2, <1>3, <1>4, <1>5 DEF Inv

-----------------------------------------------------------------------------
(* One edge is filled.                                                      *)
LEMMA FillFacts ==
  ASSUME Inv, NEW k \in 1..4, Fill(k)
  PROVE  /\ pc = FillSteps[k] /\ pc' = FillSteps[k + 1]
         /\ pc \in Filling /\ pc \in Drawing /\ pc # "idle" /\ pc' \in Drawing
         /\ pc' \in Filling \cup {"unsync"} /\ pc' # "sync" /\ (pc' = "unsync" <=> k = 4)
         /\ luma' = luma \cup {frame.offset + q : q \in LumaBytes(Edge(Box, k))}
         /\ chroma' = chroma \cup {frame.offset + q : q \in ChromaBytes(Edge(Box, k))}
         /\ UNCHANGED <<g_bb_q, frame, boxes, at, mapped, synced, asked, tried, framed>>
         /\ Shows(Box) /\ at \in DOMAIN boxes /\ at \in framed /\ boxes[at] \in Boxes
         /\ frame.format = "NV12" /\ mapped /\ synced
<1>1. /\ FillSteps[1] = "fill1" /\ FillSteps[2] = "fill2" /\ FillSteps[3] = "fill3"
      /\ FillSteps[4] = "fill4" /\ FillSteps[5] = "unsync"
  BY DEF FillSteps
<1>2. k = 1 \/ k = 2 \/ k = 3 \/ k = 4
  OBVIOUS
<1>3. pc = FillSteps[k] /\ pc' = FillSteps[k + 1]
  BY DEF Fill, Goto
<1>4. /\ pc \in Filling /\ pc \in Drawing /\ pc # "idle" /\ pc' \in Drawing
      /\ pc' \in Filling \cup {"unsync"} /\ pc' # "sync" /\ (pc' = "unsync" <=> k = 4)
  BY <1>1, <1>2, <1>3 DEF Filling, Drawing
<1>5. /\ luma' = luma \cup {frame.offset + q : q \in LumaBytes(Edge(Box, k))}
      /\ chroma' = chroma \cup {frame.offset + q : q \in ChromaBytes(Edge(Box, k))}
      /\ UNCHANGED <<g_bb_q, frame, boxes, at, mapped, synced, asked, tried, framed>>
  BY DEF Fill
<1>6. /\ at \in DOMAIN boxes /\ ~ IsEmpty(Box) /\ at \in framed
      /\ frame.format = "NV12" /\ mapped /\ synced
  BY <1>4 DEF Inv, FlowInv
<1>7. Shows(Box) /\ boxes[at] \in Boxes
  BY <1>4, <1>6, BoxShows, QueueShape DEF Inv
<1> QED BY <1>3, <1>4, <1>5, <1>6, <1>7

LEMMA FillInk ==
  ASSUME Inv, NEW k \in 1..4, Fill(k), NEW p
  PROVE  p \in Ink' <=> p \in Ink \/ p \in Covered(Edge(Box, k))
<1>1. /\ pc = FillSteps[k] /\ pc' = FillSteps[k + 1] /\ pc \in Filling
      /\ pc' \in Filling \cup {"unsync"} /\ pc' # "sync" /\ (pc' = "unsync" <=> k = 4)
      /\ UNCHANGED <<frame, boxes, at, framed>> /\ at \in framed /\ Shows(Box)
  BY FillFacts
<1>2. EdgesDone = {j \in 1..4 : j < k} /\ DrawnBoxes = framed \ {at}
  BY <1>1, Edges DEF EdgesDone, DrawnBoxes
<1>3. Box' = Box /\ \A n : Clipped(boxes[n])' = Clipped(boxes[n])
  BY <1>1, SameGeometry DEF Box
<1>4. p \in Ink <=> \/ \E n \in framed \ {at} : p \in Border(Clipped(boxes[n]))
                    \/ \E j \in {j \in 1..4 : j < k} : p \in Covered(Edge(Box, j))
  BY <1>2, InkPixels
<1>5. p \in Ink' <=> \/ \E n \in DrawnBoxes' : p \in Border(Clipped(boxes[n]))
                     \/ \E j \in EdgesDone' : p \in Covered(Edge(Box, j))
  <2>1. p \in Ink' <=> \/ \E n \in DrawnBoxes' : p \in Border(Clipped(boxes[n])')
                       \/ \E j \in EdgesDone' : p \in Covered(Edge(Box', j))
    BY <1>1 DEF Ink
  <2> QED BY <1>3, <2>1
<1>6. CASE k < 4
  <2>1. pc' \in Filling /\ k + 1 \in 1..4
    BY <1>1, <1>6
  <2>2. EdgesDone' = {j \in 1..4 : j < k + 1}
    BY <1>1, <2>1, Edges DEF EdgesDone
  <2>3. DrawnBoxes' = framed \ {at}
    BY <1>1, <2>1 DEF DrawnBoxes
  <2>4. \A j \in 1..4 : j < k + 1 <=> j < k \/ j = k
    OBVIOUS
  <2> QED BY <1>4, <1>5, <2>2, <2>3, <2>4
<1>7. CASE k = 4
  <2>1. pc' \notin Filling \cup {"sync"}
    BY <1>1, <1>7 DEF Filling
  <2>2. EdgesDone' = {} /\ DrawnBoxes' = framed
    BY <1>1, <2>1, Edges DEF EdgesDone, DrawnBoxes
  <2>3. p \in Border(Box) <=> \E j \in 1..4 : p \in Covered(Edge(Box, j))
    <3>1. p \in Border(Box) <=> p \in UNION {Covered(Edge(Box, j)) : j \in 1..4}
      BY <1>1, EdgesMakeBorder
    <3> QED BY <3>1
  <2>4. \A j \in 1..4 : j < k \/ j = k
    BY <1>7
  <2>5. p \in Ink' <=> \/ \E n \in framed \ {at} : p \in Border(Clipped(boxes[n]))
                       \/ p \in Border(Box)
    BY <1>1, <1>5, <2>2 DEF Box
  <2> QED BY <1>4, <2>3, <2>4, <2>5
<1>8. k < 4 \/ k = 4
  OBVIOUS
<1> QED BY <1>6, <1>7, <1>8

(* The chroma bytes of some pixels, told byte by byte.                      *)
LEMMA ChromaSet ==
  ASSUME NEW S, NEW I, \A c : c \in S <=> \E p \in I, n \in {0, 1} : c = ChromaAt(p, n)
  PROVE  S = {ChromaAt(p, n) : p \in I, n \in {0, 1}}
OBVIOUS

LEMMA FillInv ==
  ASSUME Inv, NEW k \in 1..4, Fill(k)
  PROVE  Inv'
<1>1. /\ pc \in Filling /\ pc \in Drawing /\ pc # "idle" /\ pc' \in Drawing
      /\ pc' \in Filling \cup {"unsync"} /\ pc' # "sync"
      /\ luma' = luma \cup {frame.offset + q : q \in LumaBytes(Edge(Box, k))}
      /\ chroma' = chroma \cup {frame.offset + q : q \in ChromaBytes(Edge(Box, k))}
      /\ UNCHANGED <<g_bb_q, frame, boxes, at, mapped, synced, asked, tried, framed>>
      /\ Shows(Box)
  BY FillFacts
<1>2. TypeOK'
  <2>1. pc' \in Steps /\ pc' # "idle" /\ pc # "idle"
    BY <1>1 DEF Drawing, Filling, Steps
  <2> QED BY <1>1, <2>1 DEF Inv, TypeOK
<1>3. FlowInv'
  <2>1. IsEmpty(Box)' <=> IsEmpty(Box)
    BY <1>1, SameGeometry DEF Box
  <2>2. pc' \notin {"idle", "entered", "return", "imfill"}
    BY <1>1 DEF Drawing, Filling
  <2> QED BY <1>1, <2>1, <2>2 DEF Inv, FlowInv
<1>4. TriedInv'
  BY <1>1, SameGeometry DEF Inv, TriedInv
<1>5. MemInv'
  <2>1. Edge(Box, k) \in Rects
    BY <1>1, EdgeShape
  <2>2. frame # NoFrame /\ frame.offset \in Nat /\ frame.size \in Nat
    BY <1>1, FrameShape DEF Inv, TypeOK
  <2>3. \A q \in 0..(frame.size - 1) :
          frame.offset + q \in frame.offset..(frame.offset + frame.size - 1)
    BY <2>2
  <2>4. /\ LumaBytes(Edge(Box, k)) \subseteq 0..(frame.size - 1)
        /\ ChromaBytes(Edge(Box, k)) \subseteq 0..(frame.size - 1)
    BY <1>1, <2>1, BytesInMemory DEF Inv
  <2>5. luma \cup chroma \subseteq frame.offset..(frame.offset + frame.size - 1)
    BY <2>2 DEF Inv, MemInv, WritesStayInMemory
  <2>6. luma' \cup chroma' \subseteq frame.offset..(frame.offset + frame.size - 1)
    BY <1>1, <2>3, <2>4, <2>5
  <2> QED BY <1>1, <2>2, <2>6 DEF MemInv, WritesStayInMemory
<1>6. InkInv'
  <2>1. ASSUME Fits(frame), frame.format = "NV12"
        PROVE  /\ luma' = {LumaAt(p) : p \in Ink'}
               /\ \A c : c \in chroma' <=> \E p \in Ink', n \in {0, 1} : c = ChromaAt(p, n)
    <3>1. /\ luma = {LumaAt(p) : p \in Ink}
          /\ chroma = {ChromaAt(p, n) : p \in Ink, n \in {0, 1}}
      BY <1>1, <2>1 DEF Inv, InkInv
    <3>2. \A p : p \in Ink' <=> p \in Ink \/ p \in Covered(Edge(Box, k))
      BY FillInk
    <3>3. luma' = {LumaAt(p) : p \in Ink'}
      <4>1. luma' = luma \cup {LumaAt(p) : p \in Covered(Edge(Box, k))}
        BY <1>1, <2>1, LumaOfEdge DEF Inv
      <4> QED BY <3>1, <3>2, <4>1
    <3>4. \A c : c \in chroma' <=> \E p \in Ink', n \in {0, 1} : c = ChromaAt(p, n)
      <4>1. \A c : c \in chroma <=> \E p \in Ink, n \in {0, 1} : c = ChromaAt(p, n)
        BY <3>1
      <4>2. \A c : c \in chroma' <=>
              \/ c \in chroma
              \/ \E p \in Covered(Edge(Box, k)), n \in {0, 1} : c = ChromaAt(p, n)
        <5>1. \A c : (\E q \in ChromaBytes(Edge(Box, k)) : c = frame.offset + q)
                       <=> \E p \in Covered(Edge(Box, k)), n \in {0, 1} : c = ChromaAt(p, n)
          BY <1>1, <2>1, ChromaOfEdge DEF Inv
        <5>2. \A c : c \in chroma' <=>
                c \in chroma \/ \E q \in ChromaBytes(Edge(Box, k)) : c = frame.offset + q
          BY <1>1
        <5> QED BY <5>1, <5>2
      <4> QED BY <3>2, <4>1, <4>2
    <3> QED BY <3>3, <3>4
  <2>2. ASSUME Fits(frame), frame.format = "NV12"
        PROVE  chroma' = {ChromaAt(p, n) : p \in Ink', n \in {0, 1}}
    BY <2>1, <2>2, ChromaSet
  <2>3. /\ \A p : LumaAt(p)' = LumaAt(p)
        /\ \A p, n : ChromaAt(p, n)' = ChromaAt(p, n)
        /\ Fits(frame)' <=> Fits(frame)
        /\ frame' = frame
    BY <1>1, SameGeometry
  <2>4. ASSUME Fits(frame), frame.format = "NV12"
        PROVE  /\ luma' = {LumaAt(p)' : p \in Ink'}
               /\ chroma' = {ChromaAt(p, n)' : p \in Ink', n \in {0, 1}}
    BY <2>1, <2>2, <2>3, <2>4
  <2> QED BY <2>3, <2>4 DEF InkInv
<1> QED BY <1>2, <1>3, <1>4, <1>5, <1>6 DEF Inv

-----------------------------------------------------------------------------
LEMMA NextInv == Inv /\ [Next]_vars => Inv'
<1> SUFFICES ASSUME Inv, [Next]_vars PROVE Inv'
  OBVIOUS
<1>1. CASE PushBox
  BY <1>1, PushBoxInv
<1>2. CASE ProbeCalled
  BY <1>2, ProbeCalledInv
<1>3. CASE Unsupported
  BY <1>3, UnsupportedInv
<1>4. CASE Drain
  BY <1>4, DrainInv
<1>5. CASE EmptyBox
  BY <1>5, EmptyBoxInv
<1>6. CASE LastBox
  BY <1>6, LastBoxInv
<1>7. CASE Return
  BY <1>7, ReturnInv
<1>8. CASE Map
  BY <1>8, MapInv
<1>9. CASE MapFails
  BY <1>9, MapFailsInv
<1>10. CASE SyncStart \/ SyncEnd
  BY <1>10, BetweenInv
<1>11. CASE \E k \in 1..4 : Fill(k)
  BY <1>11, FillInv
<1>12. CASE Unmap
  BY <1>12, UnmapInv
<1>13. CASE Rectangle
  BY <1>13, RectangleInv
<1>14. CASE Imfill
  BY <1>14, ImfillInv
<1>15. CASE UNCHANGED vars
  <2> USE <1>15 DEF vars, drawVars, bufferVars
  <2>1. TypeOK' /\ MemInv'
    BY DEF Inv, TypeOK, MemInv, WritesStayInMemory
  <2>2. FlowInv' /\ TriedInv'
    BY SameGeometry DEF Inv, FlowInv, TriedInv, Box
  <2>3. Ink' = Ink
    BY SameGeometry DEF Ink, DrawnBoxes, EdgesDone, Box
  <2>4. InkInv'
    <3>1. CASE pc = "idle"
      BY <3>1 DEF InkInv
    <3>2. CASE pc # "idle"
      BY <2>3, <3>2, KeptInk
    <3> QED BY <3>1, <3>2
  <2> QED BY <2>1, <2>2, <2>4 DEF Inv
<1> QED BY <1>1, <1>2, <1>3, <1>4, <1>5, <1>6, <1>7, <1>8, <1>9, <1>10, <1>11, <1>12, <1>13,
           <1>14, <1>15 DEF Next

LEMMA SpecInv == Spec => []Inv
BY InitInv, NextInv, PTL DEF Spec

-----------------------------------------------------------------------------
(* The promises.                                                            *)

(* However many boxes gather while it draws, the loop stays within those it *)
(* drained, tries no other, and asks RGA for at most four rectangles a box. *)
THEOREM ProbeTypes == Spec => []TypeOK
<1>1. Inv => TypeOK
  BY DEF Inv
<1> QED BY <1>1, SpecInv, PTL

(* Whatever strides and offsets the meta gives, no byte is written outside  *)
(* the memory of the frame.                                                 *)
THEOREM MemoryIsKept == Spec => []WritesStayInMemory
<1>1. Inv => WritesStayInMemory
  BY DEF Inv, MemInv
<1> QED BY <1>1, SpecInv, PTL

(* When the probe returns it has tried each box that shows in the frame,    *)
(* whichever mmap or RGA call failed.                                       *)
THEOREM BoxesAreTried == Spec => []EveryBoxIsTried
<1>1. Inv => EveryBoxIsTried
  <2> SUFFICES ASSUME Inv, pc = "return", NEW n \in DOMAIN boxes
               PROVE  LET b == boxes[n] IN
                      n \in tried <=>
                        /\ frame.width > 1 /\ frame.height > 1
                        /\ b.x1 < b.x2 /\ b.x1 < frame.width - 1 /\ b.x2 > 0
                        /\ b.y1 < b.y2 /\ b.y1 < frame.height - 1 /\ b.y2 > 0
    BY DEF EveryBoxIsTried
  <2>1. boxes[n] \in Boxes /\ n < at
    <3>1. at = Len(boxes) + 1
      BY DEF Inv, FlowInv
    <3> QED BY <3>1, QueueShape DEF Inv
  <2>2. n \in tried <=> ~ IsEmpty(Clipped(boxes[n]))
    BY <2>1 DEF Inv, TriedInv
  <2> QED BY <2>1, <2>2, ClippedShape DEF Inv
<1> QED BY <1>1, SpecInv, PTL

(* In a frame that fits its memory, the bytes written are exactly the       *)
(* outlines of the boxes that were drawn.                                   *)
THEOREM OutlinesAreDrawn == Spec => []DrawsTheOutlines
<1>1. Inv => DrawsTheOutlines
  <2> DEFINE ink == UNION {Border(Clipped(boxes[n])) : n \in framed}
  <2> SUFFICES ASSUME Inv, pc \in {"box", "return"}, frame.format = "NV12", Fits(frame)
               PROVE  /\ luma = {LumaAt(p) : p \in ink}
                      /\ chroma = {ChromaAt(p, k) : p \in ink, k \in {0, 1}}
    BY DEF DrawsTheOutlines, LumaAt, ChromaAt
  <2>1. Ink = ink
    <3>1. pc \notin Filling \cup {"sync"}
      BY DEF Filling
    <3>2. EdgesDone = {} /\ DrawnBoxes = framed
      BY <3>1, Edges DEF EdgesDone, DrawnBoxes
    <3> QED BY <3>2 DEF Ink
  <2>2. /\ luma = {LumaAt(p) : p \in Ink}
        /\ chroma = {ChromaAt(p, k) : p \in Ink, k \in {0, 1}}
    BY DEF Inv, InkInv
  <2> HIDE DEF ink
  <2> QED BY <2>1, <2>2
<1> QED BY <1>1, SpecInv, PTL

(* Every byte is written while the frame is mapped and its CPU access       *)
(* window is open, and neither outlives its box.                            *)
THEOREM MappingsEnd == Spec => MappingIsBalanced
<1> DEFINE Balanced ==
             /\ pc' \in {"idle", "box", "imfill", "return"} => ~ mapped' /\ ~ synced'
             /\ luma' \cup chroma' # luma \cup chroma /\ pc' # "idle"
                  => mapped /\ synced /\ mapped' /\ synced'
<1>1. Inv' => (pc' \in {"idle", "box", "imfill", "return"} => ~ mapped' /\ ~ synced')
  BY DEF Inv, FlowInv, Drawing, Filling
<1>2. ASSUME Inv, Next, luma' \cup chroma' # luma \cup chroma, pc' # "idle"
      PROVE  mapped /\ synced /\ mapped' /\ synced'
  <2>1. \E k \in 1..4 : Fill(k)
    <3>1. ~ UNCHANGED <<luma, chroma>>
      BY <1>2
    <3> QED BY <1>2, <3>1 DEF Next, PushBox, ProbeCalled, Unsupported, Drain, EmptyBox, LastBox,
               Return, Goto, Map, MapFails, SyncStart, SyncEnd, Unmap, Rectangle, Imfill,
               drawVars, bufferVars
  <2> QED BY <1>2, <2>1, FillFacts
<1>3. Inv /\ Inv' /\ [Next]_vars => [Balanced]_vars
  BY <1>1, <1>2
<1>4. (Spec => [][Balanced]_vars) => (Spec => MappingIsBalanced)
  BY DEF MappingIsBalanced
<1> QED BY <1>3, <1>4, SpecInv, PTL DEF Spec

(* RGA is asked only for rectangles inside the frame that are not empty,    *)
(* and four of them make up the outline of the box.                         *)
THEOREM FallbackIsTheOutline == Spec => FallbackDrawsTheOutline
<1> DEFINE last == Covered(asked'[Len(asked')])
           Good == asked' \notin {asked, <<>>} =>
                     /\ last # {}
                     /\ last \subseteq (0..(frame.width - 1)) \X (0..(frame.height - 1))
                     /\ Len(asked') = 4 =>
                          UNION {Covered(asked'[k]) : k \in 1..4} = Border(Box)
<1>1. ASSUME Inv, Next, asked' \notin {asked, <<>>}
      PROVE  /\ last # {}
             /\ last \subseteq (0..(frame.width - 1)) \X (0..(frame.height - 1))
             /\ Len(asked') = 4 => UNION {Covered(asked'[k]) : k \in 1..4} = Border(Box)
  <2>1. Imfill
    BY <1>1 DEF Next, PushBox, ProbeCalled, Unsupported, Drain, EmptyBox, LastBox,
               Return, Goto, Map, MapFails, SyncStart, SyncEnd, Fill, Unmap, Rectangle,
               drawVars, bufferVars
  <2>2. /\ Len(asked') \in 1..4 /\ DOMAIN asked' = 1..Len(asked') /\ Shows(Box)
        /\ \A k \in DOMAIN asked' : asked'[k] = Edge(Box, k)
    BY <1>1, <2>1, Asked
  <2>3. PICK n \in 1..4 : n = Len(asked') /\ asked'[n] = Edge(Box, n)
    BY <2>2
  <2> DEFINE r == Edge(Box, n)
  <2>4. pc # "idle"
    BY <2>1 DEF Imfill
  <2>5. /\ Covered(r) = Columns(r) \X Rows(r)
        /\ \A y \in Rows(r) : y \in Nat /\ y < frame.height
        /\ \A x \in Columns(r) : x \in Nat /\ x < frame.width
        /\ frame.width \in Nat /\ frame.height \in Nat
    BY <1>1, <2>2, <2>4, EdgeInFrame, FrameShape DEF Covered, Inv
  <2>6. <<r.x, r.y>> \in Covered(r)
    <3>1. r.x \in Int /\ r.y \in Int /\ r.w \in Int /\ r.h \in Int /\ r.w >= 1 /\ r.h >= 1
      BY <2>2, EdgeShape DEF Rects
    <3> HIDE DEF r
    <3> QED BY <3>1 DEF Covered
  <2>7. Covered(r) \subseteq (0..(frame.width - 1)) \X (0..(frame.height - 1))
    <3> HIDE DEF r
    <3> QED BY <2>5
  <2>8. Len(asked') = 4 => UNION {Covered(asked'[k]) : k \in 1..4} = Border(Box)
    <3> SUFFICES ASSUME Len(asked') = 4
                 PROVE  UNION {Covered(asked'[k]) : k \in 1..4} = Border(Box)
      OBVIOUS
    <3>1. \A k \in 1..4 : asked'[k] = Edge(Box, k)
      BY <2>2
    <3>2. UNION {Covered(asked'[k]) : k \in 1..4} = UNION {Covered(Edge(Box, k)) : k \in 1..4}
      BY <3>1
    <3> QED BY <2>2, <3>2, EdgesMakeBorder
  <2> QED BY <2>3, <2>6, <2>7, <2>8
<1>2. Inv /\ [Next]_vars => [Good]_vars
  BY <1>1
<1>3. (Spec => [][Good]_vars) => (Spec => FallbackDrawsTheOutline)
  BY DEF FallbackDrawsTheOutline, Covered
<1> QED BY <1>2, <1>3, SpecInv, PTL DEF Spec
=============================================================================
