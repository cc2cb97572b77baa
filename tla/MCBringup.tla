------------------------------ MODULE MCBringup ------------------------------
(* Heads of 4x4, 2x2 and 1x1 cells in several orders, with a fourth output  *)
(* that does or does not look like a head, and models that lack a head,     *)
(* have one twice, or have no other output.                                 *)
EXTENDS Bringup

Output(side) == [grid |-> side * side, dims |-> 4, fmt |-> "NCHW"]
Flat == [grid |-> 100, dims |-> 2, fmt |-> "other"]

MCModels ==
  {<<Output(4), Output(2), Output(1)>>, <<Output(1), Output(4), Output(2)>>,
   <<Flat, Output(2), [Output(1) EXCEPT !.fmt = "NHWC"], Output(4)>>,
   <<Output(4), Output(2)>>,
   <<Output(4)>>,
   <<Output(4), Output(4), Output(2), Output(1)>>,
   <<Output(2), Output(2), [Output(4) EXCEPT !.fmt = "other"]>>}
=============================================================================
