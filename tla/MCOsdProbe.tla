------------------------------ MODULE MCOsdProbe ------------------------------
EXTENDS OsdProbe

CONSTANT MaxBoxes      \* queued and being drawn: TLC looks no further

FewBoxes == Len(g_bb_q) + Len(boxes) <= MaxBoxes

Nv12(planes, stride, height, offset, size) ==
  [usable |-> TRUE, format |-> "NV12", width |-> 8, height |-> 6,
   offset |-> offset, size |-> size, max_size |-> offset + size,
   planes |-> planes, stride |-> <<stride, stride>>,
   uv_offset |-> stride * height]

(* What push_one_frame makes of a driver's stride and size: as asked for,   *)
(* padded, and of a smaller resolution than the caps say.  Then frames      *)
(* that only the probe itself foresees: inside a larger memory, without a   *)
(* meta, aligned and not, one pixel wide.                                   *)
MCFrames ==
  LET usual == Nv12(2, 8, 6, 0, 72) IN
  {usual,
   Nv12(2, 10, 8, 0, 120),
   Nv12(2, 4, 3, 0, 18),
   Nv12(2, 8, 6, 5, 72),
   Nv12(0, 0, 6, 0, 144),
   Nv12(0, 0, 6, 0, 72),
   [usual EXCEPT !.planes = 1],
   [usual EXCEPT !.format = "RGB", !.planes = 0, !.size = 144, !.max_size = 144],
   [usual EXCEPT !.format = "RGB", !.planes = 0, !.width = 1],
   [usual EXCEPT !.format = "other"],
   [usual EXCEPT !.usable = FALSE]}

(* Across each border, along it, thin, empty, inside and outside.           *)
MCBoxes ==
  LET xs == {<<-3, 5>>, <<0, 8>>, <<3, 4>>, <<8, 8>>, <<1, 6>>, <<9, 12>>}
      ys == {<<-1, 4>>, <<0, 6>>, <<2, 3>>, <<4, 5>>, <<6, 9>>}
  IN {[x1 |-> x[1], x2 |-> x[2], y1 |-> y[1], y2 |-> y[2]] : x \in xs, y \in ys}
=============================================================================
