---------------------------- MODULE MCPostprocess ----------------------------
(* Three heads of one cell each.  The zero point of the first makes the     *)
(* quantised threshold negative, the others' positive, so it is truncated   *)
(* upwards and downwards; the scales let each head have the best score.     *)
EXTENDS Postprocess

MCCells == <<1, 2, 1>>
MCZeroPoint == <<-4, 0, 0>>
MCScale == <<4, 4, 5>>
MCReadings == {-3, -2, 1, 2}

(* A chain: each overlaps the next, the first and the last do not.          *)
MCBoxes ==
  {[left |-> l, top |-> 0, w |-> 9, h |-> 9] : l \in {-2, 1, 4}}
=============================================================================
