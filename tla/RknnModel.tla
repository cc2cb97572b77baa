------------------------------ MODULE RknnModel ------------------------------
(***************************************************************************)
(* rknn_model (inference.cpp), rga_scale_yolo (gst_rga.c) and the label     *)
(* table of post_process() (postprocess.cc): initialisation that stops half *)
(* way, and what the calls for each frame then find.  What post_process     *)
(* computes is in Postprocess; boxes and g_bb_q are in FramePipeline.       *)
(*                                                                         *)
(* The NPU's runtime is external.  Queries are taken to succeed once        *)
(* rknn_init has.  An output is its grid, that is the cells its memory has  *)
(* for each channel, and its layout.                                        *)
(***************************************************************************)
EXTENDS Integers, Sequences, FiniteSets

CONSTANTS
  Models,          \* models there may be: sequences of outputs
  LabelNum,        \* OBJ_CLASS_NUM, lines in a complete label file
  ModelSide        \* the model's input is ModelSide x ModelSide: 640

OutputType == [grid : Nat \ {0}, dims : Nat, fmt : {"NCHW", "NHWC", "other"}]

ASSUME ModelsAssumption == Models \subseteq Seq(OutputType)
ASSUME LabelNumAssumption == LabelNum \in Nat \ {0}
(* The widest of the strides leaves a cell.                                 *)
ASSUME ModelSideAssumption == ModelSide \in Nat /\ ModelSide >= 32

VARIABLES
  model,           \* the outputs of the model file
  ctx,             \* rknn_init has succeeded
  input_mem,       \* rknn_create_mem for the input has
  output_mem,      \* which outputs have memory; empty before the resize
  initialised,     \* what init() returned, which nobody looks at
  labels_init,     \* the static flag of post_process
  labels,          \* lines read into the static table, from the first on
  heads,           \* outputs that the last run gave to post_process
  group            \* the last detect_result_group: is its count set?

modelVars == <<model, ctx, input_mem, output_mem, initialised>>
resultVars == <<labels_init, labels, heads, group>>
rknnVars == <<modelVars, resultVars>>

ModelInit ==
  /\ model \in Models
  /\ ctx = FALSE /\ input_mem = FALSE
  /\ output_mem = <<>>
  /\ initialised = FALSE
  /\ labels_init = FALSE /\ labels = 0
  /\ heads = <<>>
  /\ group = "none"

Outputs == 1..Len(model)

-----------------------------------------------------------------------------
(* init(): everything, or up to the first call that fails.                  *)

LoadModel ==
  /\ ctx' = TRUE /\ input_mem' = TRUE /\ initialised' = TRUE
  /\ output_mem' = [k \in Outputs |-> TRUE]
  /\ UNCHANGED <<model, resultVars>>

(* rknn_init fails; then the memory of the input; then setting it; then the *)
(* memory of the n-th output, or setting it.                                *)
LoadModelFails ==
  /\ \/ UNCHANGED <<ctx, input_mem, output_mem>>
     \/ ctx' = TRUE /\ UNCHANGED <<input_mem, output_mem>>
     \/ ctx' = TRUE /\ input_mem' = TRUE /\ UNCHANGED output_mem
     \/ /\ ctx' = TRUE /\ input_mem' = TRUE
        /\ \E n \in Outputs : \/ output_mem' = [k \in Outputs |-> k < n]
                              \/ output_mem' = [k \in Outputs |-> k <= n]
  /\ UNCHANGED <<model, initialised, resultVars>>

-----------------------------------------------------------------------------
(* get_dma_fd() of a context without input memory reads a null pointer.     *)
GetDmaFdCrashes == ctx /\ ~ input_mem

(* rga_scale_yolo: imcheck is taken to refuse the -1 that get_dma_fd        *)
(* returns without a context.                                               *)
CanScale == ctx /\ input_mem

-----------------------------------------------------------------------------
(* run().                                                                   *)

(* get_output_grid_size.                                                    *)
GridSize(k) ==
  IF model[k].dims >= 4 /\ model[k].fmt # "other" THEN model[k].grid ELSE 0

(* Mutant: the outputs are taken in the order of the model.                 *)
UnsortedHeads == {<<1, 2, 3>>}

(* Mutant: the comparison is turned round.                                  *)
SortedUpwards ==
  {o \in [1..3 -> Outputs] :
     /\ o[1] # o[2] /\ o[1] # o[3] /\ o[2] # o[3]
     /\ GridSize(o[1]) <= GridSize(o[2]) /\ GridSize(o[2]) <= GridSize(o[3])
     /\ \A k \in Outputs \ {o[1], o[2], o[3]} : GridSize(k) >= GridSize(o[3])}

(* output_order: the three largest grids, largest first, in any order that  *)
(* std::sort may leave equal ones in.  With fewer than three outputs the    *)
(* order is 0, 1, 2 all the same, of which one does not exist.              *)
OutputOrders ==
  IF Len(model) < 3 THEN {<<1, 2, 3>>}
  ELSE {o \in [1..3 -> Outputs] :
         /\ o[1] # o[2] /\ o[1] # o[3] /\ o[2] # o[3]
         /\ GridSize(o[1]) >= GridSize(o[2]) /\ GridSize(o[2]) >= GridSize(o[3])
         /\ \A k \in Outputs \ {o[1], o[2], o[3]} : GridSize(k) <= GridSize(o[3])}

(* run() first syncs every output: an output without memory is a null       *)
(* pointer for the runtime, which may refuse it or read through it.         *)
WithMemory == {j \in DOMAIN output_mem : output_mem[j]}
SyncsNull == WithMemory # Outputs

(* A head without memory is read through a null pointer, as is an element   *)
(* of a vector still empty.                                                 *)
ReadsNull(o) == \E k \in 1..3 : o[k] \in Outputs \ WithMemory

(* The third of two outputs: whatever lies behind the vector.               *)
ReadsBehind(o) == \E k \in 1..3 : o[k] \notin Outputs

(* process() walks the grid that the model's input has under a stride, not  *)
(* the grid of the output it was given: of a smaller one it reads what lies *)
(* behind the memory.                                                       *)
Stride == <<8, 16, 32>>
HeadCells(k) == (ModelSide \div Stride[k]) * (ModelSide \div Stride[k])
ReadsPast(o) == \E k \in 1..3 : o[k] \in Outputs /\ model[o[k]].grid < HeadCells(k)

(* readLines: up to LabelNum lines, fewer at the end of the file or of the  *)
(* memory.                                                                  *)
ReadLabels == labels' \in 0..LabelNum

(* Mutant: the static flag is never set.                                    *)
LoadLabelsEachTime ==
  \/ UNCHANGED labels_init /\ labels' \in labels..LabelNum /\ group' = "set"
  \/ UNCHANGED <<labels_init, labels>> /\ group' = "garbage"

(* post_process as far as the labels go: they are read at the first call    *)
(* that can open the file, and short files are not noticed.  When the file  *)
(* cannot be opened it returns before it clears the group, whose count run  *)
(* then reads as it was on the stack.                                       *)
LoadLabels ==
  \/ labels_init /\ UNCHANGED <<labels_init, labels>> /\ group' = "set"
  \/ /\ ~ labels_init
     /\ \/ labels_init' = TRUE /\ ReadLabels /\ group' = "set"
        \/ UNCHANGED <<labels_init, labels>> /\ group' = "garbage"

(* rknn_run fails: no results, and run()'s own result is ignored.           *)
RunFails == UNCHANGED rknnVars

(* It gets through: what it detects has labels, and what it read behind an  *)
(* output too small is taken for cells like any others.                     *)
Run ==
  /\ \E o \in OutputOrders : ~ ReadsNull(o) /\ heads' = o
  /\ LoadLabels
  /\ UNCHANGED modelVars

(* It does not: an output without memory, garbage for memory or for the     *)
(* count of results, a read behind an output's memory, or the name of a     *)
(* class whose label is null.                                               *)
RunCrashes ==
  /\ \/ /\ SyncsNull \/ \E o \in OutputOrders : ReadsBehind(o)
        /\ UNCHANGED resultVars
     \/ /\ \E o \in OutputOrders : ~ ReadsNull(o) /\ heads' = o
        /\ LoadLabels
        /\ group' = "garbage" \/ labels' < LabelNum \/ ReadsPast(heads')
  /\ UNCHANGED modelVars

ModelTypeOK ==
  /\ model \in Models
  /\ {ctx, input_mem, initialised, labels_init} \subseteq BOOLEAN
  /\ output_mem \in Seq(BOOLEAN) /\ Len(output_mem) \in {0, Len(model)}
  /\ labels \in 0..LabelNum
  /\ heads = <<>> \/ heads \in [1..3 -> Outputs \cup 1..3]
  /\ group \in {"none", "set", "garbage"}
=============================================================================
