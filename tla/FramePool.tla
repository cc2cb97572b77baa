------------------------------ MODULE FramePool ------------------------------
(***************************************************************************)
(* What the capture path of gst_core promises about the V4L2 buffers, with  *)
(* no word of how: a buffer is empty in the driver, filled in the driver,   *)
(* or lent to the pipeline.  The driver fills empty buffers only, the       *)
(* pipeline takes filled buffers in capture order, reads lent buffers only, *)
(* and gives a buffer back when nobody reads it any more.                   *)
(* FramePipeline is shown to implement this specification.                  *)
(***************************************************************************)
EXTENDS Naturals, Sequences, Functions

CONSTANT Buffers    \* the V4L2 buffers

VARIABLES
  empty,     \* buffers the driver may fill by DMA
  filled,    \* filled buffers, oldest first
  lent,      \* buffers the pipeline has
  reading    \* buffers somebody in the pipeline holds a pointer to

vars == <<empty, filled, lent, reading>>

Init ==
  /\ empty = Buffers
  /\ filled = << >>
  /\ lent = {}
  /\ reading = {}

(* The device writes a frame into an empty buffer.                         *)
Fill(b) ==
  /\ b \in empty
  /\ empty' = empty \ {b}
  /\ filled' = Append(filled, b)
  /\ UNCHANGED <<lent, reading>>

(* The oldest frame leaves the driver.                                     *)
Lend ==
  /\ filled # << >>
  /\ lent' = lent \cup {Head(filled)}
  /\ reading' = reading \cup {Head(filled)}
  /\ filled' = Tail(filled)
  /\ UNCHANGED empty

(* A reader stops reading a buffer that stays lent.                        *)
Forget(b) ==
  /\ b \in reading
  /\ reading' = reading \ {b}
  /\ UNCHANGED <<empty, filled, lent>>

(* The last reader gives the buffer back.  A buffer nobody reads any more   *)
(* is not given back later: whoever forgot it has lost it.                  *)
Return(b) ==
  /\ b \in reading
  /\ lent' = lent \ {b}
  /\ reading' = reading \ {b}
  /\ empty' = empty \cup {b}
  /\ UNCHANGED filled

Next ==
  \/ \E b \in Buffers : Fill(b) \/ Forget(b) \/ Return(b)
  \/ Lend

Spec == Init /\ [][Next]_vars

(* Nobody reads a buffer the device may be writing.                        *)
NoTornFrame == reading \cap (empty \cup Range(filled)) = {}
=============================================================================
