----------------------------- MODULE Postprocess -----------------------------
(***************************************************************************)
(* post_process() on the outputs of one inference, from the memset of the   *)
(* group on: process() reads the cells of three heads and keeps candidates, *)
(* quick_sort_indice_inverse() orders their scores and indices in place,    *)
(* nms() suppresses per class, and the rest is copied into the group.       *)
(*                                                                         *)
(* What a cell holds is chosen from small sets.  Floats are exact here: a   *)
(* quantised q stands for (q - ZeroPoint) * Scale, and Threshold, scores    *)
(* and boxes are integers in such units.  Indices count from 1, and the     *)
(* code's -1 is Gone.  The pads are zero, as rknn_model::run passes them.   *)
(***************************************************************************)
EXTENDS Integers, Sequences, FiniteSetsExt

CONSTANTS
  Cells,           \* Cells[h]: the cells of head h (3 anchors on its grid)
  ZeroPoint,       \* ZeroPoint[h]: out_zps of head h
  Scale,           \* Scale[h]: out_scales of head h
  Readings,        \* int8 values that the outputs may hold
  ClassNum,        \* OBJ_CLASS_NUM
  Boxes,           \* decoded boxes, [left, top, w, h]
  Threshold,       \* box_conf_threshold
  NmsThreshold,    \* nms_threshold in percent
  ModelW, ModelH,  \* the size of the model's input
  Enlarge,         \* 1 / scale_w and 1 / scale_h
  MaxResults,      \* OBJ_NUMB_MAX_SIZE
  NoCell           \* no cell is being looked at

Heads == 1..3
Classes == 0..(ClassNum - 1)
Gone == 0

ASSUME HeadsAssumption ==
  /\ Cells \in [Heads -> Nat \ {0}]
  /\ ZeroPoint \in [Heads -> -128..127]
  /\ Scale \in [Heads -> Nat \ {0}]
ASSUME ReadingsAssumption ==
  /\ Readings \subseteq -128..127
  /\ ClassNum \in Nat \ {0}
  /\ Boxes \subseteq [left : Int, top : Int, w : Nat, h : Nat]
ASSUME LimitsAssumption ==
  /\ {Threshold, NmsThreshold, ModelW, ModelH} \subseteq Nat
  /\ {Enlarge, MaxResults} \subseteq Nat \ {0}
  /\ NoCell \notin [conf : Readings, probs : [Classes -> Readings], box : Boxes]

VARIABLES
  pc,              \* the loop that runs
  head, at,        \* process: the head and the cell it is about to read
  cell,            \* what that cell holds
  found,           \* class and box of each candidate, and its score unsorted
  objProbs,        \* the scores, sorted in place
  indexArray,      \* objProbs[i] is the score of candidate indexArray[i]
  calls,           \* ranges that the sort still has to be called for
  part,            \* the locals of the sort's running partition
  todo,            \* class_set without the classes nms is done with
  i,               \* loop index of nms and of the last loop
  results          \* the group

processVars == <<head, at, cell, found>>
sortVars == <<calls, part>>
vars == <<pc, processVars, objProbs, indexArray, sortVars, todo, i, results>>

NoPart == [left |-> 1, right |-> 1, low |-> 1, high |-> 1, key |-> 0,
           key_index |-> Gone]

Init ==
  /\ pc = "read"
  /\ head = 1 /\ at = 1
  /\ cell = NoCell
  /\ found = <<>>
  /\ objProbs = <<>>
  /\ indexArray = <<>>
  /\ calls = <<>>
  /\ part = NoPart
  /\ todo = {}
  /\ i = 1
  /\ results = <<>>

-----------------------------------------------------------------------------
(* process().                                                               *)

(* The conversion from float to int8 drops the fraction: n / d rounded      *)
(* towards zero.                                                            *)
Truncate(n, d) == IF n >= 0 THEN n \div d ELSE - ((- n) \div d)

(* Mutant: the zero point is forgotten.                                     *)
SymmetricQuantise(h) ==
  CASE Threshold <= -128 * Scale[h] -> -128
    [] Threshold >= 127 * Scale[h]  -> 127
    [] OTHER                        -> Truncate(Threshold, Scale[h])

(* qnt_f32_to_affine(threshold, zp, scale): threshold / scale + zp, clipped *)
(* to the range of int8.                                                    *)
ThresI8(h) ==
  LET scaled == Threshold + ZeroPoint[h] * Scale[h] IN
  CASE scaled <= -128 * Scale[h] -> -128
    [] scaled >= 127 * Scale[h]  -> 127
    [] OTHER                     -> Truncate(scaled, Scale[h])

(* deqnt_affine_to_f32.                                                     *)
Dequantised(q, h) == (q - ZeroPoint[h]) * Scale[h]

MaxProb(probs) == Max({probs[k] : k \in Classes})
MaxClass(probs) == Min({k \in Classes : probs[k] = MaxProb(probs)})

ReadCell ==
  /\ pc = "read"
  /\ \E conf \in Readings, probs \in [Classes -> Readings], box \in Boxes :
       cell' = [conf |-> conf, probs |-> probs, box |-> box]
  /\ pc' = "test"
  /\ UNCHANGED <<head, at, found, objProbs, indexArray, sortVars, todo, i,
                 results>>

(* The next cell, the next head or, after the last, the sort.  With no      *)
(* candidate at all post_process returns with the group cleared.            *)
NextCell ==
  /\ cell' = NoCell
  /\ \/ /\ at < Cells[head]
        /\ at' = at + 1 /\ UNCHANGED head
        /\ pc' = "read"
     \/ /\ at = Cells[head] /\ head < 3
        /\ head' = head + 1 /\ at' = 1
        /\ pc' = "read"
     \/ /\ at = Cells[head] /\ head = 3
        /\ pc' = IF found' = <<>> THEN "done" ELSE "sort"
        /\ UNCHANGED <<head, at>>
  /\ calls' = IF pc' = "sort" THEN << <<1, Len(found')>> >> ELSE calls
  /\ todo' = IF pc' = "sort" THEN {found'[n].class : n \in DOMAIN found'} ELSE todo
  /\ indexArray' = IF pc' = "sort" THEN [n \in DOMAIN found' |-> n] ELSE indexArray
  /\ UNCHANGED <<part, i, results>>

Passes(c) ==
  /\ c.conf >= ThresI8(head)
  /\ MaxProb(c.probs) > ThresI8(head)

KeepCell ==
  /\ pc = "test"
  /\ Passes(cell)
  /\ LET score == Dequantised(MaxProb(cell.probs), head)
                    * Dequantised(cell.conf, head)
     IN /\ objProbs' = Append(objProbs, score)
        /\ found' = Append(found, [class |-> MaxClass(cell.probs),
                                   box |-> cell.box, score |-> score])
  /\ NextCell

DropCell ==
  /\ pc = "test"
  /\ ~ Passes(cell)
  /\ UNCHANGED <<found, objProbs>>
  /\ NextCell

-----------------------------------------------------------------------------
(* quick_sort_indice_inverse(): descending, in place, with a hole instead   *)
(* of swaps.  calls is the recursion.                                       *)

(* Mutant: a range of two is taken for sorted.                              *)
SortCallOfThree ==
  /\ pc = "sort"
  /\ calls # <<>>
  /\ LET left == Head(calls)[1]
         right == Head(calls)[2]
     IN \/ /\ left + 1 < right
           /\ part' = [left |-> left, right |-> right, low |-> left,
                       high |-> right, key |-> objProbs[left],
                       key_index |-> indexArray[left]]
           /\ pc' = "high"
        \/ /\ left + 1 >= right
           /\ UNCHANGED <<part, pc>>
  /\ calls' = Tail(calls)
  /\ UNCHANGED <<processVars, objProbs, indexArray, todo, i, results>>

SortCall ==
  /\ pc = "sort"
  /\ calls # <<>>
  /\ LET left == Head(calls)[1]
         right == Head(calls)[2]
     IN \/ /\ left < right
           /\ part' = [left |-> left, right |-> right, low |-> left,
                       high |-> right, key |-> objProbs[left],
                       key_index |-> indexArray[left]]
           /\ pc' = "high"
        \/ /\ left >= right
           /\ UNCHANGED <<part, pc>>
  /\ calls' = Tail(calls)
  /\ UNCHANGED <<processVars, objProbs, indexArray, todo, i, results>>

(* high stops at the first score above the key, and that fills the hole.    *)
ScanHigh ==
  /\ pc = "high"
  /\ \E high \in part.low..part.high :
       /\ \A k \in (high + 1)..part.high : objProbs[k] <= part.key
       /\ high = part.low \/ objProbs[high] > part.key
       /\ objProbs' = [objProbs EXCEPT ![part.low] = objProbs[high]]
       /\ indexArray' = [indexArray EXCEPT ![part.low] = indexArray[high]]
       /\ part' = [part EXCEPT !.high = high]
  /\ pc' = "low"
  /\ UNCHANGED <<processVars, calls, todo, i, results>>

(* Mutant: the scores move and their indices do not.                        *)
ScanLowScores ==
  /\ pc = "low"
  /\ \E low \in part.low..part.high :
       /\ \A k \in part.low..(low - 1) : objProbs[k] >= part.key
       /\ low = part.high \/ objProbs[low] < part.key
       /\ objProbs' = [objProbs EXCEPT ![part.high] = objProbs[low]]
       /\ UNCHANGED indexArray
       /\ part' = [part EXCEPT !.low = low]
       /\ pc' = IF low < part.high THEN "high" ELSE "place"
  /\ UNCHANGED <<processVars, calls, todo, i, results>>

(* low stops at the first score below the key, and that fills the hole.     *)
ScanLow ==
  /\ pc = "low"
  /\ \E low \in part.low..part.high :
       /\ \A k \in part.low..(low - 1) : objProbs[k] >= part.key
       /\ low = part.high \/ objProbs[low] < part.key
       /\ objProbs' = [objProbs EXCEPT ![part.high] = objProbs[low]]
       /\ indexArray' = [indexArray EXCEPT ![part.high] = indexArray[low]]
       /\ part' = [part EXCEPT !.low = low]
       /\ pc' = IF low < part.high THEN "high" ELSE "place"
  /\ UNCHANGED <<processVars, calls, todo, i, results>>

(* Mutant: the right part keeps the key.                                    *)
PlaceKeyAgain ==
  /\ pc = "place"
  /\ objProbs' = [objProbs EXCEPT ![part.low] = part.key]
  /\ indexArray' = [indexArray EXCEPT ![part.low] = part.key_index]
  /\ calls' = << <<part.left, part.low - 1>>, <<part.low, part.right>> >>
                \o calls
  /\ pc' = "sort"
  /\ UNCHANGED <<processVars, part, todo, i, results>>

PlaceKey ==
  /\ pc = "place"
  /\ objProbs' = [objProbs EXCEPT ![part.low] = part.key]
  /\ indexArray' = [indexArray EXCEPT ![part.low] = part.key_index]
  /\ calls' = << <<part.left, part.low - 1>>, <<part.low + 1, part.right>> >>
                \o calls
  /\ pc' = "sort"
  /\ UNCHANGED <<processVars, part, todo, i, results>>

SortEnd ==
  /\ pc = "sort"
  /\ calls = <<>>
  /\ pc' = "nms"
  /\ UNCHANGED <<processVars, objProbs, indexArray, sortVars, todo, i, results>>

-----------------------------------------------------------------------------
(* nms(), called for each class in ascending order.                         *)

Least(a, b) == IF a < b THEN a ELSE b
Most(a, b) == IF a > b THEN a ELSE b

(* CalculateOverlap(a, b) > nms_threshold: intersection over union, each    *)
(* side counted with its last pixel.                                        *)
Overlap(a, b) ==
  LET w == Most(0, Least(a.left + a.w, b.left + b.w) - Most(a.left, b.left) + 1)
      h == Most(0, Least(a.top + a.h, b.top + b.h) - Most(a.top, b.top) + 1)
      u == (a.w + 1) * (a.h + 1) + (b.w + 1) * (b.h + 1) - w * h
  IN u > 0 /\ 100 * (w * h) > NmsThreshold * u

OfClass(n, c) == n # Gone /\ found[n].class = c

(* Mutant: the boxes are compared whatever their class is.                  *)
SuppressAllClasses(c) ==
  LET n == indexArray[i] IN
  indexArray' = [j \in DOMAIN indexArray |->
                  IF /\ OfClass(n, c) /\ j > i /\ indexArray[j] # Gone
                     /\ Overlap(found[n].box, found[indexArray[j]].box)
                  THEN Gone ELSE indexArray[j]]

(* Mutant: only the next in order is looked at.                             *)
SuppressNeighbour(c) ==
  LET n == indexArray[i] IN
  indexArray' = [j \in DOMAIN indexArray |->
                  IF /\ OfClass(n, c) /\ j = i + 1 /\ OfClass(indexArray[j], c)
                     /\ Overlap(found[n].box, found[indexArray[j]].box)
                  THEN Gone ELSE indexArray[j]]

(* The inner loop of nms: what the i-th suppresses.                         *)
Suppress(c) ==
  LET n == indexArray[i] IN
  indexArray' = [j \in DOMAIN indexArray |->
                  IF /\ OfClass(n, c) /\ j > i /\ OfClass(indexArray[j], c)
                     /\ Overlap(found[n].box, found[indexArray[j]].box)
                  THEN Gone ELSE indexArray[j]]

Nms ==
  /\ pc = "nms"
  /\ todo # {}
  /\ i <= Len(found)
  /\ Suppress(Min(todo))
  /\ i' = i + 1
  /\ UNCHANGED <<pc, processVars, objProbs, sortVars, todo, results>>

NmsEnd ==
  /\ pc = "nms"
  /\ i > Len(found) \/ todo = {}
  /\ i' = 1
  /\ \/ todo # {} /\ todo' = todo \ {Min(todo)} /\ UNCHANGED pc
     \/ todo = {} /\ pc' = "emit" /\ UNCHANGED todo
  /\ UNCHANGED <<processVars, objProbs, indexArray, sortVars, results>>

-----------------------------------------------------------------------------
(* The last loop: what is left goes into the group, at most MaxResults.     *)

Clamp(v, low, high) == Most(low, Least(v, high))

Scaled(box) ==
  [left   |-> Clamp(box.left, 0, ModelW) * Enlarge,
   top    |-> Clamp(box.top, 0, ModelH) * Enlarge,
   right  |-> Clamp(box.left + box.w, 0, ModelW) * Enlarge,
   bottom |-> Clamp(box.top + box.h, 0, ModelH) * Enlarge]

(* Mutant: the score is looked up as the class and the box are.             *)
ResultByCandidate(k) ==
  LET n == indexArray[k] IN
  [candidate |-> n, class |-> found[n].class, box |-> Scaled(found[n].box),
   score |-> objProbs[n]]

(* The score is looked up by position, the rest by candidate.               *)
Result(k) ==
  LET n == indexArray[k] IN
  [candidate |-> n, class |-> found[n].class, box |-> Scaled(found[n].box),
   score |-> objProbs[k]]

(* Mutant: nothing counts the results.                                      *)
EmitUnlimited ==
  /\ pc = "emit"
  /\ i <= Len(found)
  /\ indexArray[i] # Gone
  /\ results' = Append(results, Result(i))
  /\ i' = i + 1
  /\ UNCHANGED <<pc, processVars, objProbs, indexArray, sortVars, todo>>

Emit ==
  /\ pc = "emit"
  /\ i <= Len(found)
  /\ indexArray[i] # Gone /\ Len(results) < MaxResults
  /\ results' = Append(results, Result(i))
  /\ i' = i + 1
  /\ UNCHANGED <<pc, processVars, objProbs, indexArray, sortVars, todo>>

Skip ==
  /\ pc = "emit"
  /\ i <= Len(found)
  /\ indexArray[i] = Gone \/ Len(results) >= MaxResults
  /\ i' = i + 1
  /\ UNCHANGED <<pc, processVars, objProbs, indexArray, sortVars, todo, results>>

EmitEnd ==
  /\ pc = "emit"
  /\ i > Len(found)
  /\ pc' = "done"
  /\ UNCHANGED <<processVars, objProbs, indexArray, sortVars, todo, i, results>>

Next ==
  \/ ReadCell \/ KeepCell \/ DropCell
  \/ SortCall \/ ScanHigh \/ ScanLow \/ PlaceKey \/ SortEnd
  \/ Nms \/ NmsEnd
  \/ Emit \/ Skip \/ EmitEnd

Spec == Init /\ [][Next]_vars

(* One thread runs it to its end.                                           *)
FairSpec == Spec /\ WF_vars(Next)

-----------------------------------------------------------------------------
(* Properties.                                                              *)

CellType == [conf : Readings, probs : [Classes -> Readings], box : Boxes]

(* Types, and that no loop leaves its arrays.                               *)
TypeOK ==
  /\ pc \in {"read", "test", "sort", "high", "low", "place", "nms", "emit",
             "done"}
  /\ head \in Heads /\ at \in 1..Cells[head]
  /\ cell \in CellType \cup {NoCell}
  /\ pc = "test" <=> cell # NoCell
  /\ found \in Seq([class : Classes, box : Boxes, score : Int])
  /\ objProbs \in Seq(Int) /\ Len(objProbs) = Len(found)
  /\ pc \in {"read", "test"} => indexArray = <<>>
  /\ pc \notin {"read", "test", "done"} =>
       indexArray \in [DOMAIN found -> {Gone} \cup DOMAIN found]
  /\ pc \in {"high", "low", "place"} =>
       /\ {part.left, part.right, part.low, part.high} \subseteq DOMAIN found
       /\ part.left <= part.low /\ part.low <= part.high
       /\ part.high <= part.right
  /\ \A k \in DOMAIN calls :
       calls[k][1] >= 1 /\ calls[k][2] <= Len(found)
  /\ todo \subseteq Classes
  /\ i \in 1..(Len(found) + 1)
  /\ Len(results) <= MaxResults

(* While it partitions, one place of both arrays is a hole that the key     *)
(* will fill.                                                               *)
Hole == IF pc = "low" THEN part.high ELSE part.low
Partitioning == pc \in {"high", "low", "place"}
Scores == IF Partitioning THEN [objProbs EXCEPT ![Hole] = part.key] ELSE objProbs
Indices == IF Partitioning THEN [indexArray EXCEPT ![Hole] = part.key_index]
           ELSE indexArray

(* post_process looks a result's score up by position and everything else   *)
(* by candidate.  At every point of the sort, with the key put back into    *)
(* the hole, each candidate is in the array once and stands at its own      *)
(* score; nms only takes candidates out.                                    *)
ScoresFollowIndices ==
  pc \notin {"read", "test", "done"} =>
    \A k \in DOMAIN found : Indices[k] # Gone =>
      /\ Scores[k] = found[Indices[k]].score
      /\ \A l \in DOMAIN found : Indices[l] = Indices[k] => l = k

(* nms needs the best candidates first: the in-place sort descends, with    *)
(* whatever ties.  That it loses no candidate is ScoresFollowIndices.       *)
BestFirst ==
  pc \in {"nms", "emit"} =>
    \A k, l \in DOMAIN found : k < l => objProbs[k] >= objProbs[l]

(* A result is one candidate: its score, its class and its box belong       *)
(* together, the box lies in the frame, and its corners are in order.       *)
ResultIsOneCandidate ==
  \A k \in DOMAIN results :
    LET r == results[k]
        c == found[r.candidate]
    IN /\ r.score = c.score /\ r.class = c.class
       /\ 0 <= r.box.left /\ r.box.left <= r.box.right
       /\ r.box.right <= ModelW * Enlarge
       /\ 0 <= r.box.top /\ r.box.top <= r.box.bottom
       /\ r.box.bottom <= ModelH * Enlarge
       /\ \A l \in DOMAIN results : results[l].candidate = r.candidate => l = k

Twins(m, n) ==
  found[m].class = found[n].class /\ Overlap(found[m].box, found[n].box)

(* No object is reported twice: two results of a class do not overlap by    *)
(* more than the threshold.                                                 *)
NoTwins ==
  \A k, l \in DOMAIN results :
    k # l => ~ Twins(results[k].candidate, results[l].candidate)

(* No object is lost: a candidate that is not reported either overlaps a    *)
(* reported one of its class that is at least as good, or the group is full *)
(* of results that are at least as good.  With a chain of overlaps this is  *)
(* not obvious: a suppressed candidate must not suppress others, and with   *)
(* the cap a suppressor must not be missing itself.                         *)
NothingIsLost ==
  pc = "done" =>
    \A n \in DOMAIN found :
      \/ \E k \in DOMAIN results :
           /\ results[k].candidate = n \/ Twins(results[k].candidate, n)
           /\ results[k].score >= found[n].score
      \/ /\ Len(results) = MaxResults
         /\ \A k \in DOMAIN results : results[k].score >= found[n].score

(* The truncation of the quantised threshold costs less than one step of    *)
(* the quantisation, on the side that depends on its sign: what is kept has *)
(* a class above the threshold and a box less than one step below it, what  *)
(* is dropped had a box below it or a class less than one step above it.    *)
ThresholdWithinOneStep ==
  [][pc = "test" =>
       LET conf == Dequantised(cell.conf, head)
           prob == Dequantised(MaxProb(cell.probs), head)
       IN IF found' # found
          THEN conf > Threshold - Scale[head] /\ prob > Threshold
          ELSE conf < Threshold \/ prob < Threshold + Scale[head]]_vars

(* The sort, the suppression and the copying end.                           *)
Terminates == <>(pc = "done")
=============================================================================
