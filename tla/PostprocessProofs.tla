-------------------------- MODULE PostprocessProofs --------------------------
(***************************************************************************)
(* post_process keeps its promises for every model output: any number of    *)
(* cells, classes and results, any quantisation, boxes and thresholds.      *)
(*                                                                         *)
(* Inv follows the loops: PermInv and OrderInv the sort, HoleInv one        *)
(* partition of it, NmsInv the suppression and EmitInv the copying.         *)
(***************************************************************************)
EXTENDS Postprocess, SequenceTheorems, WellFoundedInduction, TLAPS

Reading == {"read", "test"}
Sorting == {"sort", "high", "low", "place"}

(* What process() appends to found.                                         *)
Candidate == [class : Classes, box : Boxes, score : Int]

(* What TypeOK leaves open, and where each variable is still as it was.     *)
TypeInv ==
  /\ TypeOK
  /\ pc \in Reading => calls = <<>> /\ todo = {}
  /\ pc \notin {"nms", "emit", "done"} => i = 1
  /\ pc \notin {"emit", "done"} => results = <<>>
  /\ calls \in Seq(Int \X Int)
  /\ part \in [left : Int, right : Int, low : Int, high : Int, key : Int,
               key_index : Int]
  /\ pc \notin Reading => indexArray \in [DOMAIN found -> {Gone} \cup DOMAIN found]
  /\ pc \in {"emit", "done"} => todo = {}
  /\ pc = "done" => i = Len(found) + 1

(* index lists each candidate once, scores has the score of each.           *)
Matches(scores, index, candidates) ==
  /\ \A k \in DOMAIN candidates :
       index[k] \in DOMAIN candidates /\ scores[k] = candidates[index[k]].score
  /\ \A k, l \in DOMAIN candidates : index[k] = index[l] => k = l
  /\ \A n \in DOMAIN candidates : \E k \in DOMAIN candidates : index[k] = n

PermInv ==
  /\ pc \in Reading => \A n \in DOMAIN found : objProbs[n] = found[n].score
  /\ pc \in Sorting => /\ Matches(Scores, Indices, found)
                       /\ todo = {found[n].class : n \in DOMAIN found}

(* The sort still has to put k and l in order.                              *)
Pending(k, l) ==
  \/ \E c \in DOMAIN calls : calls[c][1] <= k /\ l <= calls[c][2]
  \/ Partitioning /\ part.left <= k /\ l <= part.right

(* The ranges of a and b have no place in common.                           *)
Apart(a, b) == a[2] < b[1] \/ b[2] < a[1]

OrderInv ==
  pc \in Sorting =>
    /\ \A k, l \in DOMAIN found : k < l => Scores[k] >= Scores[l] \/ Pending(k, l)
    /\ \A c, d \in DOMAIN calls : c # d => Apart(calls[c], calls[d])
    /\ Partitioning => \A c \in DOMAIN calls : Apart(calls[c], <<part.left, part.right>>)

(* What the partition has put left of low is no worse than the key, and     *)
(* what is right of high no better.                                         *)
HoleInv ==
  Partitioning =>
    /\ part.left <= part.low /\ part.low <= part.high /\ part.high <= part.right
    /\ 1 <= part.left /\ part.right <= Len(found)
    /\ pc = "place" => part.low = part.high
    /\ \A k \in part.left..(part.low - 1) : objProbs[k] >= part.key
    /\ \A k \in (part.high + 1)..part.right : objProbs[k] <= part.key

Placed(k) == indexArray[k] # Gone

(* No later step of nms can take k out: its class is done, or the loop for  *)
(* its class is past it.                                                    *)
Settled(k) ==
  /\ Placed(k)
  /\ \/ found[indexArray[k]].class \notin todo
     \/ found[indexArray[k]].class = Min(todo) /\ k < i

(* Each candidate is in its place or has a better twin that will stay; and  *)
(* who stays has no twin behind it.                                         *)
NmsInv ==
  pc \in {"nms", "emit", "done"} =>
    /\ \A k, l \in DOMAIN found : k < l => objProbs[k] >= objProbs[l]
    /\ \A k \in DOMAIN found : Placed(k) => objProbs[k] = found[indexArray[k]].score
    /\ \A k, l \in DOMAIN found : Placed(k) /\ indexArray[k] = indexArray[l] => k = l
    /\ \A k, l \in DOMAIN found :
         k < l /\ Settled(k) /\ Placed(l) => ~ Twins(indexArray[k], indexArray[l])
    /\ \A n \in DOMAIN found : \E k \in DOMAIN found :
         \/ Placed(k) /\ indexArray[k] = n
         \/ /\ Settled(k) /\ Twins(indexArray[k], n)
            /\ objProbs[k] >= found[n].score

(* The results are the placed candidates up to i, the first MaxResults.     *)
EmitInv ==
  pc \in {"emit", "done"} =>
    /\ results \in Seq({Result(k) : k \in {l \in DOMAIN found : Placed(l)}})
    /\ \A r \in DOMAIN results : \E k \in DOMAIN found :
         k < i /\ Placed(k) /\ results[r] = Result(k)
    /\ \A k \in DOMAIN found : k < i /\ Placed(k) =>
         \/ \E r \in DOMAIN results : results[r] = Result(k)
         \/ /\ Len(results) = MaxResults
            /\ \A r \in DOMAIN results : results[r].score >= objProbs[k]
    /\ \A r, s \in DOMAIN results :
         results[r].candidate = results[s].candidate => r = s

Inv == TypeInv /\ PermInv /\ OrderInv /\ HoleInv /\ NmsInv /\ EmitInv

-----------------------------------------------------------------------------
(* Least and greatest elements.                                             *)
LEMMA LeastNat ==
  ASSUME NEW S, S \subseteq Nat, S # {}
  PROVE  Min(S) \in S /\ \A y \in S : Min(S) <= y
<1>1. PICK x \in S : \A y \in S : <<y, x>> \notin OpToRel(<, Nat)
  BY WFMin, NatLessThanWellFounded
<1>2. ASSUME NEW y \in S PROVE x <= y
  <2>1. SUFFICES ASSUME y < x PROVE FALSE
    OBVIOUS
  <2>2. <<y, x>> \in OpToRel(<, Nat)
    BY <2>1 DEF OpToRel
  <2> QED BY <1>1, <2>2
<1> QED BY <1>2 DEF Min

LEMMA GreatestInt ==
  ASSUME NEW S, NEW top \in Int, S \subseteq Int, S # {}, \A x \in S : x <= top
  PROVE  Max(S) \in S /\ \A y \in S : Max(S) >= y
<1> DEFINE D == {top - x : x \in S}
<1>1. D # {}
  OBVIOUS
<1>2. ASSUME NEW d \in D PROVE d \in Nat
  BY <1>2
<1>3. D \subseteq Nat
  BY <1>2
<1>4. Min(D) \in D /\ \A e \in D : Min(D) <= e
  <2> HIDE DEF D
  <2> QED BY <1>1, <1>3, LeastNat
<1>5. PICK x \in S : Min(D) = top - x
  BY <1>4
<1>6. ASSUME NEW y \in S PROVE x >= y
  <2>1. top - y \in D
    OBVIOUS
  <2>2. top - x <= top - y
    BY <1>4, <1>5, <2>1
  <2>3. x \in Int /\ y \in Int
    OBVIOUS
  <2> QED BY <2>2, <2>3
<1> QED BY <1>6 DEF Max

(* The best class of a cell.                                                *)
LEMMA MaxProbs ==
  ASSUME NEW probs \in [Classes -> Readings]
  PROVE  /\ MaxProb(probs) \in Readings
         /\ MaxClass(probs) \in Classes /\ probs[MaxClass(probs)] = MaxProb(probs)
<1> DEFINE S == {probs[k] : k \in Classes}
<1>1. 0 \in Classes
  BY ReadingsAssumption DEF Classes
<1>2. S \subseteq Readings /\ S # {}
  BY <1>1
<1>3. S \subseteq Int /\ \A x \in S : x <= 127
  BY <1>2, ReadingsAssumption
<1>4. MaxProb(probs) \in S
  <2>1. 127 \in Int
    OBVIOUS
  <2>2. Max(S) \in S
    <3> HIDE DEF S
    <3> QED BY <1>2, <1>3, <2>1, GreatestInt
  <2> QED BY <2>2 DEF MaxProb
<1> DEFINE T == {k \in Classes : probs[k] = MaxProb(probs)}
<1>5. T \subseteq Nat /\ T # {}
  BY <1>4, ReadingsAssumption DEF Classes
<1>6. Min(T) \in T
  <2> HIDE DEF T
  <2> QED BY <1>5, LeastNat
<1> QED BY <1>2, <1>4, <1>6 DEF MaxClass

-----------------------------------------------------------------------------
(* The shape of the arrays.                                                 *)
LEMMA Shape ==
  ASSUME TypeInv
  PROVE  /\ Len(found) \in Nat /\ DOMAIN found = 1..Len(found)
         /\ objProbs \in [DOMAIN found -> Int]
         /\ \A n \in DOMAIN found :
              found[n].class \in Classes /\ found[n].box \in Boxes /\ found[n].score \in Int
         /\ Len(calls) \in Nat /\ DOMAIN calls = 1..Len(calls)
         /\ \A c \in DOMAIN calls : calls[c][1] \in Int /\ calls[c][2] \in Int
         /\ i \in Nat
<1>0. found \in Seq(Candidate) /\ objProbs \in Seq(Int) /\ Len(objProbs) = Len(found)
  BY DEF TypeInv, TypeOK, Candidate
<1>1. /\ Len(found) \in Nat /\ DOMAIN found = 1..Len(found)
      /\ \A n \in DOMAIN found : found[n] \in Candidate
  BY <1>0, LenProperties, ElementOfSeq
<1>2. objProbs \in [DOMAIN found -> Int]
  BY <1>0, <1>1, LenProperties
<1>3. /\ Len(calls) \in Nat /\ DOMAIN calls = 1..Len(calls)
      /\ \A c \in DOMAIN calls : calls[c] \in Int \X Int
  BY LenProperties, ElementOfSeq DEF TypeInv
<1>4. i \in Nat
  BY <1>1 DEF TypeInv, TypeOK
<1>5. \A n \in DOMAIN found :
         found[n].class \in Classes /\ found[n].box \in Boxes /\ found[n].score \in Int
  BY <1>1 DEF Candidate
<1>6. \A c \in DOMAIN calls : calls[c][1] \in Int /\ calls[c][2] \in Int
  BY <1>3
<1> QED BY <1>1, <1>2, <1>3, <1>4, <1>5, <1>6

LEMMA InitInv ==
  ASSUME Init
  PROVE  Inv
<1>1. TypeInv
  <2>1. <<>> \in Seq([class : Classes, box : Boxes, score : Int]) /\ <<>> \in Seq(Int)
        /\ <<>> \in Seq(Int \X Int) /\ Len(<<>>) = 0
    BY EmptySeq
  <2>2. head \in Heads /\ at \in 1..Cells[head]
    BY HeadsAssumption DEF Init, Heads
  <2>3. TypeOK
    BY <2>1, <2>2, LimitsAssumption DEF Init, TypeOK
  <2>4. part \in [left : Int, right : Int, low : Int, high : Int, key : Int, key_index : Int]
    BY DEF Init, NoPart, Gone
  <2> QED BY <2>1, <2>3, <2>4 DEF Init, TypeInv, Reading
<1>2. PermInv /\ OrderInv /\ HoleInv /\ NmsInv /\ EmitInv
  BY DEF Init, PermInv, OrderInv, HoleInv, NmsInv, EmitInv, Reading, Sorting, Partitioning
<1> QED BY <1>1, <1>2 DEF Inv

-----------------------------------------------------------------------------
(* process().                                                               *)
LEMMA ReadCellInv ==
  ASSUME Inv, ReadCell
  PROVE  Inv'
<1> USE DEF ReadCell, sortVars
<1>1. cell' \in CellType
  BY DEF CellType
<1>2. cell' # NoCell
  BY <1>1, LimitsAssumption DEF CellType
<1>3. TypeOK'
  BY <1>1, <1>2 DEF Inv, TypeInv, TypeOK
<1>4. TypeInv'
  BY <1>3 DEF Inv, TypeInv, Reading
<1>5. PermInv' /\ OrderInv' /\ HoleInv' /\ NmsInv' /\ EmitInv'
  BY DEF Inv, PermInv, OrderInv, HoleInv, NmsInv, EmitInv, Reading, Sorting, Partitioning
<1> QED BY <1>4, <1>5 DEF Inv

(* What a cell that is kept appends.                                        *)
LEMMA KeptCell ==
  ASSUME Inv, KeepCell
  PROVE  \E c \in Candidate : found' = Append(found, c) /\ objProbs' = Append(objProbs, c.score)
<1> DEFINE score == Dequantised(MaxProb(cell.probs), head) * Dequantised(cell.conf, head)
           c == [class |-> MaxClass(cell.probs), box |-> cell.box, score |-> score]
<1>1. cell \in CellType /\ head \in Heads
  BY DEF Inv, TypeInv, TypeOK, KeepCell
<1>2. cell.probs \in [Classes -> Readings] /\ cell.conf \in Readings /\ cell.box \in Boxes
  BY <1>1 DEF CellType
<1>3. MaxProb(cell.probs) \in Int /\ cell.conf \in Int
  <2>1. MaxProb(cell.probs) \in Readings
    BY <1>2, MaxProbs
  <2>2. Readings \subseteq Int
    BY ReadingsAssumption
  <2> QED BY <1>2, <2>1, <2>2
<1>4. ZeroPoint[head] \in Int /\ Scale[head] \in Int
  BY <1>1, HeadsAssumption
<1>5. score \in Int
  BY <1>3, <1>4 DEF Dequantised
<1>6. c \in Candidate
  <2> HIDE DEF score
  <2> QED BY <1>2, <1>5, MaxProbs DEF Candidate
<1>7. c.score = score
  OBVIOUS
<1>8. found' = Append(found, c) /\ objProbs' = Append(objProbs, score)
  BY DEF KeepCell
<1> HIDE DEF c
<1> QED BY <1>6, <1>7, <1>8

(* Candidates and scores go on in step.                                     *)
LEMMA CellsInStep ==
  ASSUME Inv, KeepCell \/ DropCell
  PROVE  /\ found' \in Seq(Candidate) /\ objProbs' \in Seq(Int)
         /\ Len(objProbs') = Len(found')
         /\ \A n \in DOMAIN found' : objProbs'[n] = found'[n].score
<1>1. /\ found \in Seq(Candidate) /\ objProbs \in Seq(Int) /\ Len(objProbs) = Len(found)
      /\ pc = "test"
  BY DEF Inv, TypeInv, TypeOK, Candidate, KeepCell, DropCell
<1>2. \A n \in 1..Len(found) : objProbs[n] = found[n].score
  BY <1>1, LenProperties DEF Inv, PermInv, Reading
<1>3. CASE DropCell
  BY <1>1, <1>2, <1>3, LenProperties DEF DropCell
<1>4. CASE KeepCell
  <2>1. PICK c \in Candidate : found' = Append(found, c) /\ objProbs' = Append(objProbs, c.score)
    BY <1>4, KeptCell
  <2>2. c.score \in Int
    BY DEF Candidate
  <2>3. /\ found' \in Seq(Candidate) /\ Len(found') = Len(found) + 1
        /\ \A n \in 1..Len(found) : found'[n] = found[n]
        /\ found'[Len(found) + 1] = c
    BY <1>1, <2>1, AppendProperties
  <2>4. /\ objProbs' \in Seq(Int) /\ Len(objProbs') = Len(objProbs) + 1
        /\ \A n \in 1..Len(objProbs) : objProbs'[n] = objProbs[n]
        /\ objProbs'[Len(objProbs) + 1] = c.score
    BY <1>1, <2>1, <2>2, AppendProperties
  <2>5. Len(found) \in Nat /\ DOMAIN found' = 1..(Len(found) + 1)
    BY <1>1, <2>3, LenProperties
  <2>6. ASSUME NEW n \in DOMAIN found' PROVE objProbs'[n] = found'[n].score
    <3>1. n \in 1..Len(found) \/ n = Len(found) + 1
      BY <2>5
    <3> QED BY <1>1, <1>2, <2>3, <2>4, <3>1
  <2> QED BY <1>1, <2>3, <2>4, <2>6
<1> QED BY <1>3, <1>4

LEMMA CellInv ==
  ASSUME Inv, KeepCell \/ DropCell
  PROVE  Inv'
<1>1. /\ found' \in Seq(Candidate) /\ objProbs' \in Seq(Int)
      /\ Len(objProbs') = Len(found')
      /\ \A n \in DOMAIN found' : objProbs'[n] = found'[n].score
  BY CellsInStep
<1>2. Len(found') \in Nat /\ DOMAIN found' = 1..Len(found')
  BY <1>1, LenProperties
<1>3. /\ pc = "test" /\ calls = <<>> /\ todo = {} /\ i = 1 /\ results = <<>>
      /\ indexArray = <<>>
      /\ part \in [left : Int, right : Int, low : Int, high : Int, key : Int, key_index : Int]
      /\ head \in Heads /\ at \in 1..Cells[head]
  BY DEF Inv, TypeInv, TypeOK, Reading, KeepCell, DropCell
<1>4. NextCell
  BY DEF KeepCell, DropCell
<1>5. i' = 1 /\ results' = <<>> /\ part' = part /\ cell' = NoCell
  BY <1>3, <1>4 DEF NextCell
<1>6. head' \in Heads /\ at' \in 1..Cells[head']
  <2>1. \A h \in Heads : Cells[h] \in Nat \ {0}
    BY HeadsAssumption
  <2> QED BY <1>3, <1>4, <2>1 DEF NextCell, Heads
<1>7. Len(results') <= MaxResults
  BY <1>5, LimitsAssumption, EmptySeq
<1>8. i' \in 1..(Len(found') + 1)
  BY <1>2, <1>5
<1>9. CASE pc' = "read"
  <2>1. /\ calls' = <<>> /\ todo' = {} /\ indexArray' = <<>>
    BY <1>3, <1>4, <1>9 DEF NextCell
  <2>2. TypeOK'
    BY <1>1, <1>2, <1>3, <1>5, <1>6, <1>7, <1>8, <1>9, <2>1 DEF TypeOK, Candidate
  <2>3. calls' \in Seq(Int \X Int)
    BY <2>1, EmptySeq
  <2>4. TypeInv'
    BY <1>3, <1>5, <1>9, <2>1, <2>2, <2>3 DEF TypeInv, Reading
  <2>5. PermInv'
    BY <1>1, <1>9 DEF PermInv, Sorting
  <2>6. OrderInv' /\ HoleInv' /\ NmsInv' /\ EmitInv'
    BY <1>9 DEF OrderInv, HoleInv, NmsInv, EmitInv, Sorting, Partitioning
  <2> QED BY <2>4, <2>5, <2>6 DEF Inv
<1>10. CASE pc' = "done"
  <2>1. found' = <<>> /\ calls' = <<>> /\ todo' = {} /\ indexArray' = <<>>
    BY <1>3, <1>4, <1>10 DEF NextCell
  <2>2. Len(found') = 0 /\ DOMAIN found' = {}
    BY <1>2, <2>1, EmptySeq
  <2>3. TypeOK'
    BY <1>1, <1>2, <1>3, <1>5, <1>6, <1>7, <1>8, <1>10, <2>1, <2>2 DEF TypeOK, Candidate
  <2>4. calls' \in Seq(Int \X Int)
    BY <2>1, EmptySeq
  <2>5. indexArray' \in [DOMAIN found' -> {Gone} \cup DOMAIN found']
    <3>1. <<>> \in Seq({}) /\ Len(<<>>) = 0
      BY EmptySeq
    <3>2. <<>> \in [1..0 -> {}]
      BY <3>1, LenProperties
    <3> QED BY <2>1, <2>2, <3>2
  <2>6. TypeInv'
    BY <1>3, <1>5, <1>10, <2>1, <2>2, <2>3, <2>4, <2>5 DEF TypeInv, Reading
  <2>7. DOMAIN results' = {}
    BY <1>5
  <2>8. PermInv' /\ OrderInv' /\ HoleInv' /\ NmsInv' /\ EmitInv'
    BY <1>10, <2>2, <2>7
       DEF PermInv, OrderInv, HoleInv, NmsInv, EmitInv, Reading, Sorting, Partitioning
  <2> QED BY <2>6, <2>8 DEF Inv
<1>11. CASE pc' = "sort"
  <2>1. /\ calls' = << <<1, Len(found')>> >> /\ todo' = {found'[n].class : n \in DOMAIN found'}
        /\ indexArray' = [n \in DOMAIN found' |-> n]
    BY <1>4, <1>11 DEF NextCell
  <2>2. /\ calls' \in Seq(Int \X Int) /\ DOMAIN calls' = {1}
        /\ calls'[1][1] = 1 /\ calls'[1][2] = Len(found')
    <3> DEFINE r == <<1, Len(found')>>
    <3>1. r \in Int \X Int /\ r[1] = 1 /\ r[2] = Len(found')
      BY <1>2
    <3>2. calls' = <<r>>
      BY <2>1
    <3> HIDE DEF r
    <3> QED BY <3>1, <3>2
  <2>4. todo' \subseteq Classes
    <3>1. \A n \in DOMAIN found' : found'[n] \in Candidate
      BY <1>1, <1>2, ElementOfSeq
    <3> QED BY <2>1, <3>1 DEF Candidate
  <2>5. TypeOK'
    <3>1. indexArray' \in [DOMAIN found' -> {Gone} \cup DOMAIN found']
      BY <2>1
    <3>2. \A k \in DOMAIN calls' : calls'[k][1] >= 1 /\ calls'[k][2] <= Len(found')
      BY <1>2, <2>2
    <3> QED
      BY <1>1, <1>2, <1>3, <1>5, <1>6, <1>7, <1>8, <1>11, <2>4, <3>1, <3>2
         DEF TypeOK, Candidate
  <2>6. TypeInv'
    BY <1>3, <1>5, <1>11, <2>1, <2>2, <2>5 DEF TypeInv, Reading
  <2>7. PermInv'
    BY <1>1, <1>11, <2>1 DEF PermInv, Matches, Scores, Indices, Partitioning, Reading
  <2>8. OrderInv'
    <3>1. \A k, l \in DOMAIN found' : Pending(k, l)'
      BY <1>2, <2>2 DEF Pending
    <3> QED BY <1>11, <2>2, <3>1 DEF OrderInv, Partitioning
  <2>9. HoleInv' /\ NmsInv' /\ EmitInv'
    BY <1>11 DEF HoleInv, NmsInv, EmitInv, Partitioning
  <2> QED BY <2>6, <2>7, <2>8, <2>9 DEF Inv
<1> QED BY <1>3, <1>4, <1>9, <1>10, <1>11 DEF NextCell

-----------------------------------------------------------------------------
(* The sort.  Each step of a partition exchanges the hole and one place.    *)
Exchanged(f, g, a, b, places) ==
  \A k \in places : g[k] = IF k = a THEN f[b] ELSE IF k = b THEN f[a] ELSE f[k]

LEMMA ExchangeMatches ==
  ASSUME NEW candidates, NEW scores, NEW index, NEW scoresNew, NEW indexNew,
         NEW a \in DOMAIN candidates, NEW b \in DOMAIN candidates,
         Exchanged(scores, scoresNew, a, b, DOMAIN candidates),
         Exchanged(index, indexNew, a, b, DOMAIN candidates),
         Matches(scores, index, candidates)
  PROVE  Matches(scoresNew, indexNew, candidates)
<1> DEFINE D == DOMAIN candidates
           from(k) == IF k = a THEN b ELSE IF k = b THEN a ELSE k
<1>1. ASSUME NEW k \in D PROVE /\ from(k) \in D /\ from(from(k)) = k
                               /\ scoresNew[k] = scores[from(k)]
                               /\ indexNew[k] = index[from(k)]
  BY DEF Exchanged
<1>2. ASSUME NEW k \in D
      PROVE  indexNew[k] \in D /\ scoresNew[k] = candidates[indexNew[k]].score
  <2>1. /\ from(k) \in D /\ scoresNew[k] = scores[from(k)]
        /\ indexNew[k] = index[from(k)]
    BY <1>1
  <2> HIDE DEF from
  <2>2. index[from(k)] \in D /\ scores[from(k)] = candidates[index[from(k)]].score
    BY <2>1 DEF Matches
  <2> QED BY <2>1, <2>2
<1>3. ASSUME NEW k \in D, NEW l \in D, indexNew[k] = indexNew[l] PROVE k = l
  <2>1. from(k) = from(l)
    BY <1>1, <1>3 DEF Matches
  <2> QED BY <2>1
<1>4. ASSUME NEW n \in D PROVE \E k \in D : indexNew[k] = n
  <2>1. PICK l \in D : index[l] = n
    BY DEF Matches
  <2>2. from(l) \in D /\ indexNew[from(l)] = n
    BY <1>1, <2>1
  <2> QED BY <2>2
<1> QED BY <1>2, <1>3, <1>4 DEF Matches

LEMMA ExchangeInv ==
  ASSUME Inv, Partitioning, Partitioning', UNCHANGED <<found, calls, todo>>,
         part'.left = part.left, part'.right = part.right,
         NEW a \in part.left..part.right, NEW b \in part.left..part.right,
         Exchanged(Scores, Scores', a, b, DOMAIN found),
         Exchanged(Indices, Indices', a, b, DOMAIN found)
  PROVE  PermInv' /\ OrderInv'
<1>1. pc \in Sorting /\ pc' \in Sorting
  BY DEF Partitioning, Sorting
<1>2. DOMAIN found = 1..Len(found) /\ Len(found) \in Nat
  BY Shape DEF Inv
<1>3. part.left \in Int /\ part.right \in Int /\ 1 <= part.left /\ part.right <= Len(found)
  BY DEF Inv, TypeInv, HoleInv
<1>4. part.left..part.right \subseteq DOMAIN found
  BY <1>2, <1>3
<1>5. PermInv'
  <2>1. Matches(Scores', Indices', found)
    BY <1>1, <1>4, ExchangeMatches DEF Inv, PermInv
  <2> QED BY <1>1, <2>1 DEF Inv, PermInv, Reading, Sorting
<1>6. ASSUME NEW k \in DOMAIN found, NEW l \in DOMAIN found, k < l, ~ Pending(k, l)
      PROVE  Scores'[k] >= Scores'[l]
  <2> DEFINE from(m) == IF m = a THEN b ELSE IF m = b THEN a ELSE m
  <2>1. Scores'[k] = Scores[from(k)] /\ Scores'[l] = Scores[from(l)]
    BY DEF Exchanged
  <2>2. ~ (part.left <= k /\ l <= part.right)
    BY <1>6 DEF Pending
  <2>3. \A c \in DOMAIN calls : /\ ~ (calls[c][1] <= k /\ l <= calls[c][2])
                                /\ calls[c][1] \in Int /\ calls[c][2] \in Int
                                /\ calls[c][2] < part.left \/ part.right < calls[c][1]
    BY <1>1, <1>6, Shape DEF Pending, Inv, OrderInv, Apart
  <2>4. from(k) < from(l)
    <3>1. /\ k \in Int /\ l \in Int /\ a \in Int /\ b \in Int
          /\ part.left <= a /\ a <= part.right /\ part.left <= b /\ b <= part.right
      BY <1>2, <1>3
    <3>2. k < part.left \/ part.right < l
      BY <1>3, <2>2, <3>1
    <3>3. CASE k < part.left
      <4>1. from(k) = k /\ (from(l) = l \/ part.left <= from(l))
        BY <1>3, <3>1, <3>3
      <4>2. from(l) \in Int
        BY <3>1
      <4> HIDE DEF from
      <4> QED BY <1>3, <1>6, <3>1, <3>3, <4>1, <4>2
    <3>4. CASE part.right < l
      <4>1. from(l) = l /\ (from(k) = k \/ from(k) <= part.right)
        BY <1>3, <3>1, <3>4
      <4>2. from(k) \in Int
        BY <3>1
      <4> HIDE DEF from
      <4> QED BY <1>3, <1>6, <3>1, <3>4, <4>1, <4>2
    <3> QED BY <3>2, <3>3, <3>4
  <2>5. ASSUME NEW c \in DOMAIN calls PROVE ~ (calls[c][1] <= from(k) /\ from(l) <= calls[c][2])
    BY <1>2, <1>3, <1>6, <2>2, <2>3
  <2>6. ~ (part.left <= from(k) /\ from(l) <= part.right)
    BY <1>2, <1>3, <1>6, <2>2
  <2>7. ~ Pending(from(k), from(l)) /\ from(k) \in DOMAIN found /\ from(l) \in DOMAIN found
    BY <1>4, <2>5, <2>6 DEF Pending
  <2>8. Scores[from(k)] >= Scores[from(l)]
    BY <1>1, <2>4, <2>7 DEF Inv, OrderInv
  <2> QED BY <2>1, <2>8
<1>7. ASSUME NEW k, NEW l PROVE Pending(k, l)' <=> Pending(k, l)
  BY DEF Pending
<1>8. OrderInv'
  BY <1>1, <1>6, <1>7 DEF Inv, OrderInv, Apart
<1> QED BY <1>5, <1>8

(* The partition's bounds are places of the arrays.                         *)
LEMMA PartBounds ==
  ASSUME Inv, Partitioning
  PROVE  /\ part.left \in Int /\ part.low \in Int /\ part.high \in Int /\ part.right \in Int
         /\ part.key \in Int
         /\ 1 <= part.left /\ part.left <= part.low /\ part.low <= part.high
         /\ part.high <= part.right /\ part.right <= Len(found)
         /\ Len(found) \in Nat /\ DOMAIN found = 1..Len(found)
         /\ objProbs \in [1..Len(found) -> Int]
         /\ indexArray \in [1..Len(found) -> {Gone} \cup DOMAIN found]
         /\ objProbs \in Seq(Int) /\ Len(objProbs) = Len(found)
         /\ \A k \in part.left..(part.low - 1) : objProbs[k] >= part.key
         /\ \A k \in (part.high + 1)..part.right : objProbs[k] <= part.key
<1>1. pc \notin Reading
  BY DEF Partitioning, Reading
<1> QED BY <1>1, Shape DEF Inv, TypeInv, TypeOK, HoleInv

(* The types after a step that only writes places of the arrays.            *)
LEMMA SortTypeInv ==
  ASSUME Inv, pc \in Sorting, pc' \in Sorting, UNCHANGED <<processVars, todo, i, results>>,
         objProbs' \in Seq(Int), Len(objProbs') = Len(found),
         indexArray' \in [DOMAIN found -> {Gone} \cup DOMAIN found],
         calls' \in Seq(Int \X Int),
         \A c \in DOMAIN calls' : calls'[c][1] >= 1 /\ calls'[c][2] <= Len(found),
         part' \in [left : Int, right : Int, low : Int, high : Int, key : Int, key_index : Int],
         Partitioning' => /\ 1 <= part'.left /\ part'.left <= part'.low /\ part'.low <= part'.high
                          /\ part'.high <= part'.right /\ part'.right <= Len(found)
  PROVE  TypeInv'
<1> USE DEF processVars
<1>1. Partitioning' => {part'.left, part'.right, part'.low, part'.high} \subseteq DOMAIN found
  BY Shape DEF Inv
<1>2. TypeOK'
  BY <1>1 DEF Inv, TypeInv, TypeOK, Sorting, Partitioning
<1> QED BY <1>2 DEF Inv, TypeInv, Sorting, Reading

LEMMA ScanHighInv ==
  ASSUME Inv, ScanHigh
  PROVE  Inv'
<1>1. Partitioning /\ Partitioning' /\ pc = "high" /\ pc' = "low"
  BY DEF ScanHigh, Partitioning
<1>2. PICK high \in part.low..part.high :
        /\ \A k \in (high + 1)..part.high : objProbs[k] <= part.key
        /\ objProbs' = [objProbs EXCEPT ![part.low] = objProbs[high]]
        /\ indexArray' = [indexArray EXCEPT ![part.low] = indexArray[high]]
        /\ part' = [part EXCEPT !.high = high]
  BY DEF ScanHigh
<1>3. UNCHANGED <<processVars, calls, todo, i, results>>
  BY DEF ScanHigh
<1>4. part \in [left : Int, right : Int, low : Int, high : Int, key : Int, key_index : Int]
  BY DEF Inv, TypeInv
<1>5. /\ part'.left = part.left /\ part'.right = part.right /\ part'.low = part.low
      /\ part'.high = high /\ part'.key = part.key /\ part'.key_index = part.key_index
      /\ part' \in [left : Int, right : Int, low : Int, high : Int, key : Int, key_index : Int]
  <2>1. high \in Int
    BY <1>1, <1>2, PartBounds
  <2> QED BY <1>2, <1>4, <2>1
<1>6. part.low \in 1..Len(found) /\ high \in 1..Len(found) /\ high \in Int
  BY <1>1, PartBounds
<1>7. /\ objProbs' \in [1..Len(found) -> Int]
      /\ \A k \in 1..Len(found) :
           objProbs'[k] = IF k = part.low THEN objProbs[high] ELSE objProbs[k]
  BY <1>1, <1>2, <1>6, PartBounds
<1>8. TypeInv'
  <2>1. objProbs' \in Seq(Int) /\ Len(objProbs') = Len(found)
    BY <1>1, <1>2, <1>6, PartBounds, ExceptSeq
  <2>2. indexArray' \in [DOMAIN found -> {Gone} \cup DOMAIN found]
    BY <1>1, <1>2, <1>6, PartBounds
  <2>3. pc \in Sorting /\ pc' \in Sorting
    BY <1>1 DEF Sorting
  <2>4. /\ calls' \in Seq(Int \X Int)
        /\ \A c \in DOMAIN calls' : calls'[c][1] >= 1 /\ calls'[c][2] <= Len(found)
    BY <1>3 DEF Inv, TypeInv, TypeOK
  <2>5. /\ 1 <= part'.left /\ part'.left <= part'.low /\ part'.low <= part'.high
        /\ part'.high <= part'.right /\ part'.right <= Len(found)
    BY <1>1, <1>5, PartBounds
  <2> QED BY <1>3, <1>5, <2>1, <2>2, <2>3, <2>4, <2>5, SortTypeInv
<1>9. PermInv' /\ OrderInv'
  <2>1. Scores = [objProbs EXCEPT ![part.low] = part.key]
    BY <1>1 DEF Scores, Hole
  <2>2. Scores' = [objProbs' EXCEPT ![high] = part.key]
    BY <1>1, <1>5 DEF Scores, Hole
  <2>3. Exchanged(Scores, Scores', part.low, high, DOMAIN found)
    BY <1>1, <1>2, <1>6, <2>1, <2>2, PartBounds DEF Exchanged
  <2>4. Indices = [indexArray EXCEPT ![part.low] = part.key_index]
    BY <1>1 DEF Indices, Hole
  <2>5. Indices' = [indexArray' EXCEPT ![high] = part.key_index]
    BY <1>1, <1>5 DEF Indices, Hole
  <2>6. Exchanged(Indices, Indices', part.low, high, DOMAIN found)
    BY <1>1, <1>2, <1>6, <2>4, <2>5, PartBounds DEF Exchanged
  <2>7. part.low \in part.left..part.right /\ high \in part.left..part.right
    BY <1>1, PartBounds
  <2> QED BY <1>1, <1>3, <1>5, <2>3, <2>6, <2>7, ExchangeInv DEF processVars
<1>10. HoleInv'
  <2>1. \A k \in part'.left..(part'.low - 1) : objProbs'[k] >= part'.key
    BY <1>1, <1>5, <1>7, PartBounds
  <2>2. ASSUME NEW k \in (high + 1)..part.right PROVE objProbs'[k] <= part.key
    <3>1. k \in 1..Len(found) /\ objProbs'[k] = objProbs[k]
      BY <1>1, <1>6, <1>7, PartBounds
    <3>2. CASE k <= part.high
      BY <1>1, <1>2, <1>6, <3>1, <3>2, PartBounds
    <3>3. CASE k > part.high
      <4>1. k \in (part.high + 1)..part.right
        BY <1>1, <3>3, PartBounds
      <4> QED BY <1>1, <3>1, <4>1, PartBounds
    <3> QED BY <1>1, <3>1, <3>2, <3>3, PartBounds
  <2> QED BY <1>1, <1>3, <1>5, <2>1, <2>2, PartBounds DEF HoleInv, processVars
<1>11. NmsInv' /\ EmitInv'
  BY <1>1 DEF NmsInv, EmitInv
<1> QED BY <1>8, <1>9, <1>10, <1>11 DEF Inv

LEMMA ScanLowInv ==
  ASSUME Inv, ScanLow
  PROVE  Inv'
<1>1. Partitioning /\ Partitioning' /\ pc = "low" /\ pc' \in {"high", "place"}
  BY DEF ScanLow, Partitioning
<1>2. PICK low \in part.low..part.high :
        /\ \A k \in part.low..(low - 1) : objProbs[k] >= part.key
        /\ low = part.high \/ objProbs[low] < part.key
        /\ objProbs' = [objProbs EXCEPT ![part.high] = objProbs[low]]
        /\ indexArray' = [indexArray EXCEPT ![part.high] = indexArray[low]]
        /\ part' = [part EXCEPT !.low = low]
        /\ pc' = IF low < part.high THEN "high" ELSE "place"
  BY DEF ScanLow
<1>3. UNCHANGED <<processVars, calls, todo, i, results>>
  BY DEF ScanLow
<1>4. part \in [left : Int, right : Int, low : Int, high : Int, key : Int, key_index : Int]
  BY DEF Inv, TypeInv
<1>5. /\ part'.left = part.left /\ part'.right = part.right /\ part'.high = part.high
      /\ part'.low = low /\ part'.key = part.key /\ part'.key_index = part.key_index
      /\ part' \in [left : Int, right : Int, low : Int, high : Int, key : Int, key_index : Int]
  <2>1. low \in Int
    BY <1>1, <1>2, PartBounds
  <2> QED BY <1>2, <1>4, <2>1
<1>6. part.high \in 1..Len(found) /\ low \in 1..Len(found) /\ low \in Int
  BY <1>1, PartBounds
<1>7. /\ objProbs' \in [1..Len(found) -> Int]
      /\ \A k \in 1..Len(found) :
           objProbs'[k] = IF k = part.high THEN objProbs[low] ELSE objProbs[k]
  BY <1>1, <1>2, <1>6, PartBounds
<1>8. TypeInv'
  <2>1. objProbs' \in Seq(Int) /\ Len(objProbs') = Len(found)
    BY <1>1, <1>2, <1>6, PartBounds, ExceptSeq
  <2>2. indexArray' \in [DOMAIN found -> {Gone} \cup DOMAIN found]
    BY <1>1, <1>2, <1>6, PartBounds
  <2>3. pc \in Sorting /\ pc' \in Sorting
    BY <1>1 DEF Sorting
  <2>4. /\ calls' \in Seq(Int \X Int)
        /\ \A c \in DOMAIN calls' : calls'[c][1] >= 1 /\ calls'[c][2] <= Len(found)
    BY <1>3 DEF Inv, TypeInv, TypeOK
  <2>5. /\ 1 <= part'.left /\ part'.left <= part'.low /\ part'.low <= part'.high
        /\ part'.high <= part'.right /\ part'.right <= Len(found)
    BY <1>1, <1>5, PartBounds
  <2> QED BY <1>3, <1>5, <2>1, <2>2, <2>3, <2>4, <2>5, SortTypeInv
<1>9. PermInv' /\ OrderInv'
  <2>0. low < part.high \/ low = part.high
    BY <1>6
  <2>1. Scores = [objProbs EXCEPT ![part.high] = part.key]
    BY <1>1 DEF Scores, Hole
  <2>2. Scores' = [objProbs' EXCEPT ![low] = part.key]
    BY <1>1, <1>5 DEF Scores, Hole
  <2>3. Exchanged(Scores, Scores', part.high, low, DOMAIN found)
    BY <1>1, <1>2, <1>6, <2>1, <2>2, PartBounds DEF Exchanged
  <2>4. Indices = [indexArray EXCEPT ![part.high] = part.key_index]
    BY <1>1 DEF Indices, Hole
  <2>5. Indices' = [indexArray' EXCEPT ![low] = part.key_index]
    BY <1>1, <1>5 DEF Indices, Hole
  <2>6. Exchanged(Indices, Indices', part.high, low, DOMAIN found)
    BY <1>1, <1>2, <1>6, <2>4, <2>5, PartBounds DEF Exchanged
  <2>7. part.high \in part.left..part.right /\ low \in part.left..part.right
    BY <1>1, PartBounds
  <2> QED BY <1>1, <1>3, <1>5, <2>3, <2>6, <2>7, ExchangeInv DEF processVars
<1>10. HoleInv'
  <2>1. ASSUME NEW k \in part.left..(low - 1) PROVE objProbs'[k] >= part.key
    <3>1. k \in 1..Len(found) /\ objProbs'[k] = objProbs[k]
      BY <1>1, <1>2, <1>6, <1>7, PartBounds
    <3>2. CASE k < part.low
      <4>1. k \in part.left..(part.low - 1)
        BY <1>1, <3>2, PartBounds
      <4> QED BY <1>1, <3>1, <4>1, PartBounds
    <3>3. CASE k >= part.low
      BY <1>1, <1>2, <1>6, <3>1, <3>3, PartBounds
    <3> QED BY <1>1, <3>1, <3>2, <3>3, PartBounds
  <2>2. ASSUME NEW k \in (part.high + 1)..part.right PROVE objProbs'[k] <= part.key
    <3>1. k \in 1..Len(found) /\ objProbs'[k] = objProbs[k]
      BY <1>1, <1>6, <1>7, PartBounds
    <3> QED BY <1>1, <3>1, PartBounds
  <2>3. pc' = "place" => low = part.high
    BY <1>2, <1>6
  <2> QED BY <1>1, <1>3, <1>5, <2>1, <2>2, <2>3, PartBounds DEF HoleInv, processVars
<1>11. NmsInv' /\ EmitInv'
  BY <1>1 DEF NmsInv, EmitInv
<1> QED BY <1>8, <1>9, <1>10, <1>11 DEF Inv

LEMMA SortCallInv ==
  ASSUME Inv, SortCall
  PROVE  Inv'
<1> DEFINE left == Head(calls)[1]
           right == Head(calls)[2]
<1>1. /\ pc = "sort" /\ calls # <<>> /\ calls' = Tail(calls)
      /\ UNCHANGED <<processVars, objProbs, indexArray, todo, i, results>>
      /\ \/ /\ left < right /\ pc' = "high"
            /\ part' = [left |-> left, right |-> right, low |-> left, high |-> right,
                        key |-> objProbs[left], key_index |-> indexArray[left]]
         \/ left >= right /\ UNCHANGED <<part, pc>>
  BY DEF SortCall
<1>2. /\ calls \in Seq(Int \X Int)
      /\ part \in [left : Int, right : Int, low : Int, high : Int, key : Int, key_index : Int]
      /\ objProbs \in Seq(Int) /\ Len(objProbs) = Len(found)
      /\ indexArray \in [DOMAIN found -> {Gone} \cup DOMAIN found]
      /\ \A c \in DOMAIN calls : calls[c][1] >= 1 /\ calls[c][2] <= Len(found)
  BY <1>1 DEF Inv, TypeInv, TypeOK, Reading
<1>3. /\ Len(found) \in Nat /\ DOMAIN found = 1..Len(found)
      /\ objProbs \in [DOMAIN found -> Int]
      /\ Len(calls) \in Nat /\ DOMAIN calls = 1..Len(calls)
      /\ \A c \in DOMAIN calls : calls[c][1] \in Int /\ calls[c][2] \in Int
  BY Shape DEF Inv
(* The first range is called, the others stay.                              *)
<1>4. /\ calls' \in Seq(Int \X Int) /\ DOMAIN calls' = 1..(Len(calls) - 1) /\ Len(calls) >= 1
      /\ \A c \in DOMAIN calls' : c + 1 \in DOMAIN calls /\ calls'[c] = calls[c + 1]
      /\ left = calls[1][1] /\ right = calls[1][2]
  <2>1. /\ calls' \in Seq(Int \X Int) /\ Len(calls') = Len(calls) - 1
        /\ \A c \in 1..Len(calls') : calls'[c] = calls[c + 1]
    BY <1>1, <1>2, HeadTailProperties
  <2>2. DOMAIN calls' = 1..Len(calls')
    BY <2>1, LenProperties
  <2>3. Len(calls) >= 1
    BY <1>1, <1>2, <1>3, EmptySeq
  <2>4. Head(calls) = calls[1]
    BY <1>2
  <2> QED BY <1>3, <2>1, <2>2, <2>3, <2>4
<1>5. left \in Int /\ right \in Int /\ 1 <= left /\ right <= Len(found)
  <2>1. 1 \in DOMAIN calls
    BY <1>3, <1>4
  <2> QED BY <1>2, <1>3, <1>4, <2>1
<1>6. \A c \in DOMAIN calls' : calls'[c][1] >= 1 /\ calls'[c][2] <= Len(found)
  BY <1>2, <1>4
<1>7. Scores = objProbs /\ Indices = indexArray /\ ~ Partitioning
  BY <1>1 DEF Scores, Indices, Partitioning
<1>8. \A c, d \in DOMAIN calls : c # d => Apart(calls[c], calls[d])
  BY <1>1 DEF Inv, OrderInv, Sorting
<1>9. \A c, d \in DOMAIN calls' : c # d => Apart(calls'[c], calls'[d])
  BY <1>3, <1>4, <1>8
<1>10. \A c \in DOMAIN calls' : Apart(calls'[c], <<left, right>>)
  <2> SUFFICES ASSUME NEW c \in DOMAIN calls' PROVE Apart(calls'[c], calls[1])
    BY <1>4 DEF Apart
  <2>1. 1 \in DOMAIN calls /\ c + 1 \in DOMAIN calls /\ c + 1 # 1 /\ calls'[c] = calls[c + 1]
    BY <1>3, <1>4
  <2> QED BY <1>8, <2>1
<1>11. \A k, l \in DOMAIN found : k < l /\ Pending(k, l) =>
         \/ \E c \in DOMAIN calls' : calls'[c][1] <= k /\ l <= calls'[c][2]
         \/ left <= k /\ l <= right
  <2> SUFFICES ASSUME NEW k \in DOMAIN found, NEW l \in DOMAIN found, k < l, Pending(k, l),
                      ~ (left <= k /\ l <= right)
               PROVE  \E c \in DOMAIN calls' : calls'[c][1] <= k /\ l <= calls'[c][2]
    OBVIOUS
  <2>1. PICK c \in DOMAIN calls : calls[c][1] <= k /\ l <= calls[c][2]
    BY <1>7 DEF Pending
  <2>2. c # 1
    BY <1>4, <2>1
  <2>3. c - 1 \in DOMAIN calls' /\ calls'[c - 1] = calls[c]
    BY <1>3, <1>4, <2>2
  <2> QED BY <2>1, <2>3
<1> HIDE DEF left, right
<1>12. \A k, l \in DOMAIN found : k < l =>
         objProbs[k] >= objProbs[l] \/ Pending(k, l)
  BY <1>1, <1>7 DEF Inv, OrderInv, Sorting
<1>13. Matches(objProbs, indexArray, found) /\ todo = {found[n].class : n \in DOMAIN found}
  BY <1>1, <1>7 DEF Inv, PermInv, Sorting
<1>14. CASE left < right
  <2>1. /\ pc' = "high" /\ part'.left = left /\ part'.right = right /\ part'.low = left
        /\ part'.high = right /\ part'.key = objProbs[left] /\ part'.key_index = indexArray[left]
        /\ left \in DOMAIN found /\ right \in DOMAIN found
    BY <1>1, <1>3, <1>5, <1>14
  <2>2. Partitioning' /\ pc' \in Sorting /\ pc \in Sorting
    BY <1>1, <2>1 DEF Partitioning, Sorting
  <2>3. part' \in [left : Int, right : Int, low : Int, high : Int, key : Int, key_index : Int]
    <3>1. objProbs[left] \in Int /\ indexArray[left] \in Int
      BY <1>2, <1>3, <2>1 DEF Gone
    <3> QED BY <1>1, <1>5, <1>14, <3>1
  <2>4. TypeInv'
    <3>1. /\ 1 <= part'.left /\ part'.left <= part'.low /\ part'.low <= part'.high
          /\ part'.high <= part'.right /\ part'.right <= Len(found)
      BY <1>5, <1>14, <2>1
    <3>2. objProbs' \in Seq(Int) /\ Len(objProbs') = Len(found)
          /\ indexArray' \in [DOMAIN found -> {Gone} \cup DOMAIN found]
      BY <1>1, <1>2
    <3> QED BY <1>1, <1>4, <1>6, <2>2, <2>3, <3>1, <3>2, SortTypeInv
  <2>5. Scores' = objProbs /\ Indices' = indexArray
    BY <1>1, <1>2, <1>3, <2>1, <2>2 DEF Scores, Indices, Hole
  <2>6. PermInv'
    BY <1>1, <1>13, <2>1, <2>2, <2>5 DEF PermInv, Reading, processVars
  <2>7. \A k, l \in DOMAIN found : k < l /\ Pending(k, l) => Pending(k, l)'
    BY <1>11, <2>1, <2>2 DEF Pending
  <2>8. OrderInv'
    BY <1>1, <1>9, <1>10, <1>12, <2>1, <2>5, <2>7 DEF OrderInv, processVars
  <2>9. HoleInv'
    BY <1>1, <1>3, <1>5, <1>14, <2>1 DEF HoleInv, processVars
  <2>10. NmsInv' /\ EmitInv'
    BY <2>1 DEF NmsInv, EmitInv
  <2> QED BY <2>4, <2>6, <2>8, <2>9, <2>10 DEF Inv
<1>15. CASE left >= right
  <2>1. pc' = "sort" /\ part' = part
    BY <1>1, <1>5, <1>15
  <2>2. ~ Partitioning' /\ pc' \in Sorting /\ pc \in Sorting
    BY <1>1, <2>1 DEF Partitioning, Sorting
  <2>3. TypeInv'
    BY <1>1, <1>2, <1>4, <1>6, <2>1, <2>2, SortTypeInv
  <2>4. Scores' = objProbs /\ Indices' = indexArray
    BY <1>1, <2>2 DEF Scores, Indices
  <2>5. PermInv'
    BY <1>1, <1>13, <2>1, <2>2, <2>4 DEF PermInv, Reading, processVars
  <2>6. \A k, l \in DOMAIN found : k < l /\ Pending(k, l) => Pending(k, l)'
    BY <1>3, <1>5, <1>11, <1>15 DEF Pending
  <2>7. OrderInv'
    BY <1>1, <1>9, <1>12, <2>2, <2>4, <2>6 DEF OrderInv, processVars
  <2>8. HoleInv' /\ NmsInv' /\ EmitInv'
    BY <2>1, <2>2 DEF HoleInv, NmsInv, EmitInv
  <2> QED BY <2>3, <2>5, <2>7, <2>8 DEF Inv
<1> QED BY <1>1, <1>14, <1>15

LEMMA PlaceKeyInv ==
  ASSUME Inv, PlaceKey
  PROVE  Inv'
<1> DEFINE a == <<part.left, part.low - 1>>
           b == <<part.low + 1, part.right>>
<1>1. /\ pc = "place" /\ pc' = "sort" /\ Partitioning /\ ~ Partitioning'
      /\ pc \in Sorting /\ pc' \in Sorting
      /\ objProbs' = [objProbs EXCEPT ![part.low] = part.key]
      /\ indexArray' = [indexArray EXCEPT ![part.low] = part.key_index]
      /\ calls' = <<a, b>> \o calls
      /\ UNCHANGED <<processVars, part, todo, i, results>>
  BY DEF PlaceKey, Partitioning, Sorting
<1>2. /\ calls \in Seq(Int \X Int) /\ Len(calls) \in Nat /\ DOMAIN calls = 1..Len(calls)
      /\ \A c \in DOMAIN calls : /\ calls[c][1] >= 1 /\ calls[c][2] <= Len(found)
                                 /\ calls[c][1] \in Int /\ calls[c][2] \in Int
      /\ part \in [left : Int, right : Int, low : Int, high : Int, key : Int, key_index : Int]
  BY <1>1, Shape DEF Inv, TypeInv, TypeOK
<1>3. part.low = part.high /\ part.low \in 1..Len(found)
  BY <1>1, PartBounds DEF Inv, HoleInv
<1>4. Scores = objProbs' /\ Indices = indexArray'
  BY <1>1 DEF Scores, Indices, Hole
<1>5. Scores' = objProbs' /\ Indices' = indexArray'
  BY <1>1 DEF Scores, Indices
(* Two ranges take the place of the partition's.                            *)
<1>6. a \in Int \X Int /\ b \in Int \X Int
  BY <1>2
<1>7. /\ a[1] = part.left /\ a[2] = part.low - 1
      /\ b[1] = part.low + 1 /\ b[2] = part.right
  OBVIOUS
<1> HIDE DEF a, b
<1>8. /\ calls' \in Seq(Int \X Int) /\ DOMAIN calls' = 1..(Len(calls) + 2)
      /\ calls'[1] = a /\ calls'[2] = b
      /\ \A c \in DOMAIN calls' : c > 2 => c - 2 \in DOMAIN calls /\ calls'[c] = calls[c - 2]
      /\ \A c \in DOMAIN calls : c + 2 \in DOMAIN calls' /\ calls'[c + 2] = calls[c]
  <2>1. <<a, b>> \in Seq(Int \X Int) /\ Len(<<a, b>>) = 2
    BY <1>6
  <2>2. /\ calls' \in Seq(Int \X Int) /\ Len(calls') = 2 + Len(calls)
        /\ \A c \in 1..(2 + Len(calls)) :
             calls'[c] = IF c <= 2 THEN <<a, b>>[c] ELSE calls[c - 2]
    BY <1>1, <1>2, <2>1, ConcatProperties
  <2>3. DOMAIN calls' = 1..(Len(calls) + 2)
    BY <1>2, <2>2, LenProperties
  <2>4. <<a, b>>[1] = a /\ <<a, b>>[2] = b
    OBVIOUS
  <2>5. calls'[1] = a /\ calls'[2] = b
    BY <1>2, <2>2, <2>4
  <2>6. ASSUME NEW c \in DOMAIN calls', c > 2
        PROVE  c - 2 \in DOMAIN calls /\ calls'[c] = calls[c - 2]
    <3>1. c \in 1..(2 + Len(calls)) /\ ~ (c <= 2) /\ c - 2 \in 1..Len(calls)
      BY <1>2, <2>3, <2>6
    <3> QED BY <1>2, <2>2, <3>1
  <2>7. ASSUME NEW c \in DOMAIN calls
        PROVE  c + 2 \in DOMAIN calls' /\ calls'[c + 2] = calls[c]
    <3>1. c \in Int /\ c >= 1 /\ c + 2 \in 1..(2 + Len(calls)) /\ ~ (c + 2 <= 2) /\ (c + 2) - 2 = c
      BY <1>2
    <3> QED BY <1>2, <2>2, <2>3, <3>1
  <2> QED BY <2>2, <2>3, <2>5, <2>6, <2>7
<1>9. ASSUME NEW c \in DOMAIN calls'
      PROVE  \/ c = 1 /\ calls'[c] = a
             \/ c = 2 /\ calls'[c] = b
             \/ c > 2 /\ c - 2 \in DOMAIN calls /\ calls'[c] = calls[c - 2]
  <2>1. c = 1 \/ c = 2 \/ c > 2
    <3>1. c \in 1..(Len(calls) + 2)
      BY <1>8
    <3> QED BY <1>2, <3>1
  <2> QED BY <1>8, <2>1
<1>10. /\ objProbs' \in [DOMAIN found -> Int]
       /\ objProbs' \in Seq(Int) /\ Len(objProbs') = Len(found)
       /\ objProbs'[part.low] = part.key
       /\ \A k \in DOMAIN found \ {part.low} : objProbs'[k] = objProbs[k]
  <2>1. objProbs' \in Seq(Int) /\ Len(objProbs') = Len(found)
    BY <1>1, <1>3, PartBounds, ExceptSeq
  <2> QED BY <1>1, <1>3, <2>1, PartBounds
<1>11. Matches(objProbs', indexArray', found)
  BY <1>1, <1>4 DEF Inv, PermInv
<1>12. TypeInv'
  <2>1. indexArray' \in [DOMAIN found -> {Gone} \cup DOMAIN found]
    <3>1. indexArray' = [k \in DOMAIN found |-> indexArray'[k]]
      BY <1>1, PartBounds
    <3>2. \A k \in DOMAIN found : indexArray'[k] \in DOMAIN found
      BY <1>11 DEF Matches
    <3> QED BY <3>1, <3>2
  <2>2. ASSUME NEW c \in DOMAIN calls' PROVE calls'[c][1] >= 1 /\ calls'[c][2] <= Len(found)
    <3>1. a[1] >= 1 /\ a[2] <= Len(found) /\ b[1] >= 1 /\ b[2] <= Len(found)
      BY <1>1, <1>7, PartBounds
    <3> QED BY <1>2, <1>9, <3>1
  <2> QED BY <1>1, <1>2, <1>8, <1>10, <2>1, <2>2, SortTypeInv
<1>13. PermInv'
  BY <1>1, <1>5, <1>11 DEF Inv, PermInv, Reading, processVars
<1>14. ASSUME NEW k \in DOMAIN found, NEW l \in DOMAIN found, k < l, ~ Pending(k, l)'
       PROVE  objProbs'[k] >= objProbs'[l]
  <2>1. ASSUME NEW c \in DOMAIN calls PROVE ~ (calls[c][1] <= k /\ l <= calls[c][2])
    BY <1>8, <1>14 DEF Pending
  <2>2. CASE ~ (part.left <= k /\ l <= part.right)
    BY <1>1, <1>4, <1>14, <2>1, <2>2 DEF Pending, Inv, OrderInv
  <2>3. CASE part.left <= k /\ l <= part.right
    <3>1. 1 \in DOMAIN calls' /\ 2 \in DOMAIN calls'
      BY <1>2, <1>8
    <3>2. ~ (a[1] <= k /\ l <= a[2]) /\ ~ (b[1] <= k /\ l <= b[2])
      BY <1>8, <1>14, <3>1 DEF Pending
    <3>3. k <= part.low /\ part.low <= l
      <4>1. k \in Int /\ l \in Int
        BY <1>1, PartBounds
      <4>2. l <= part.right /\ ~ (l <= part.low - 1) /\ ~ (part.low + 1 <= k)
        BY <1>7, <2>3, <3>2
      <4>3. part.low \in Int /\ part.right \in Int
        BY <1>2
      <4> QED BY <4>1, <4>2, <4>3
    <3>4. objProbs'[k] >= part.key
      <4>1. k = part.low \/ k \in part.left..(part.low - 1)
        BY <1>1, <2>3, <3>3, PartBounds
      <4> QED BY <1>1, <1>10, <4>1, PartBounds
    <3>5. part.key >= objProbs'[l]
      <4>1. l = part.low \/ l \in (part.high + 1)..part.right
        BY <1>1, <1>3, <2>3, <3>3, PartBounds
      <4> QED BY <1>1, <1>3, <1>10, <4>1, PartBounds
    <3> QED BY <1>1, <1>10, <3>4, <3>5, PartBounds
  <2> QED BY <2>2, <2>3
<1>15. ASSUME NEW c \in DOMAIN calls', NEW d \in DOMAIN calls', c # d
       PROVE  Apart(calls'[c], calls'[d])
  <2>1. /\ \A e, f \in DOMAIN calls : e # f => Apart(calls[e], calls[f])
        /\ \A e \in DOMAIN calls : calls[e][2] < part.left \/ part.right < calls[e][1]
    BY <1>1 DEF Inv, OrderInv, Apart
  <2>2. Apart(a, b) /\ Apart(b, a)
    BY <1>1, <1>7, PartBounds DEF Apart
  <2>3. \A e \in DOMAIN calls : /\ Apart(a, calls[e]) /\ Apart(calls[e], a)
                                /\ Apart(b, calls[e]) /\ Apart(calls[e], b)
    <3> SUFFICES ASSUME NEW e \in DOMAIN calls,
                        calls[e][2] < part.left \/ part.right < calls[e][1]
                 PROVE  /\ \/ a[2] < calls[e][1]
                           \/ calls[e][2] < a[1]
                        /\ \/ b[2] < calls[e][1]
                           \/ calls[e][2] < b[1]
      BY <2>1 DEF Apart
    <3>1. /\ calls[e][1] \in Int /\ calls[e][2] \in Int
          /\ part.left \in Int /\ part.low \in Int /\ part.right \in Int
      BY <1>2
    <3>2. part.left <= part.low /\ part.low <= part.right
      BY <1>1, PartBounds
    <3>3. CASE calls[e][2] < part.left
      BY <1>7, <3>1, <3>2, <3>3
    <3>4. CASE part.right < calls[e][1]
      BY <1>7, <3>1, <3>2, <3>4
    <3> QED BY <3>3, <3>4
  <2>4. c \in Int /\ d \in Int
    BY <1>2, <1>8
  <2> QED BY <1>9, <1>15, <2>1, <2>2, <2>3, <2>4
<1>16. OrderInv'
  BY <1>1, <1>5, <1>14, <1>15 DEF OrderInv, processVars
<1>17. HoleInv' /\ NmsInv' /\ EmitInv'
  BY <1>1 DEF HoleInv, NmsInv, EmitInv
<1> QED BY <1>12, <1>13, <1>16, <1>17 DEF Inv

(* Everything is in order, and no class has been looked at yet.             *)
LEMMA SortEndInv ==
  ASSUME Inv, SortEnd
  PROVE  Inv'
<1>1. /\ pc = "sort" /\ calls = <<>> /\ pc' = "nms" /\ ~ Partitioning /\ ~ Partitioning'
      /\ UNCHANGED <<processVars, objProbs, indexArray, sortVars, todo, i, results>>
  BY DEF SortEnd, Partitioning
<1>2. i = 1 /\ DOMAIN found = 1..Len(found) /\ Len(found) \in Nat
  BY <1>1, Shape DEF Inv, TypeInv
<1>3. TypeInv'
  <2>1. TypeOK'
    BY <1>1 DEF Inv, TypeInv, TypeOK, processVars, sortVars
  <2> QED BY <1>1, <2>1 DEF Inv, TypeInv, Reading, processVars, sortVars
<1>4. PermInv' /\ OrderInv' /\ HoleInv' /\ EmitInv'
  BY <1>1 DEF PermInv, OrderInv, HoleInv, EmitInv, Sorting, Reading
<1>5. /\ Matches(objProbs, indexArray, found)
      /\ todo = {found[n].class : n \in DOMAIN found}
  BY <1>1 DEF Inv, PermInv, Sorting, Scores, Indices
<1>6. \A k, l \in DOMAIN found : k < l => objProbs[k] >= objProbs[l]
  BY <1>1 DEF Inv, OrderInv, Sorting, Scores, Pending
<1>7. \A k \in DOMAIN found : ~ Settled(k)'
  BY <1>1, <1>2, <1>5 DEF Settled, Matches, processVars
<1>8. NmsInv'
  <2>1. \A k \in DOMAIN found : indexArray[k] # Gone
    BY <1>2, <1>5 DEF Matches, Gone
  <2>2. \A n \in DOMAIN found : \E k \in DOMAIN found : Placed(k)' /\ indexArray'[k] = n
    BY <1>1, <1>5, <2>1 DEF Matches, Placed
  <2> QED BY <1>1, <1>5, <1>6, <1>7, <2>2 DEF NmsInv, Matches, processVars
<1> QED BY <1>3, <1>4, <1>8 DEF Inv

-----------------------------------------------------------------------------
(* nms.                                                                     *)

(* The types after a step that leaves the sort behind.                      *)
LEMMA LateTypeInv ==
  ASSUME Inv, pc \in {"nms", "emit", "done"}, pc' \in {"nms", "emit", "done"},
         UNCHANGED <<processVars, objProbs, sortVars>>,
         indexArray' \in [DOMAIN found -> {Gone} \cup DOMAIN found],
         todo' \subseteq Classes, pc' # "nms" => todo' = {},
         i' \in 1..(Len(found) + 1), pc' = "done" => i' = Len(found) + 1,
         Len(results') <= MaxResults, pc' = "nms" => results' = <<>>
  PROVE  TypeInv' /\ PermInv' /\ OrderInv' /\ HoleInv'
<1> USE DEF processVars, sortVars
<1>1. TypeOK'
  BY DEF Inv, TypeInv, TypeOK
<1>2. TypeInv'
  BY <1>1 DEF Inv, TypeInv, Reading
<1> QED BY <1>2 DEF PermInv, OrderInv, HoleInv, Reading, Sorting, Partitioning

(* The arrays as nms finds them.                                            *)
LEMMA LateShape ==
  ASSUME Inv, pc \in {"nms", "emit", "done"}
  PROVE  /\ Len(found) \in Nat /\ DOMAIN found = 1..Len(found)
         /\ objProbs \in [1..Len(found) -> Int]
         /\ indexArray \in [1..Len(found) -> {Gone} \cup DOMAIN found]
         /\ i \in Nat /\ i \in 1..(Len(found) + 1) /\ todo \subseteq Classes
         /\ \A k \in DOMAIN found : Placed(k) => indexArray[k] \in DOMAIN found
         /\ \A n \in DOMAIN found : found[n].class \in Classes /\ found[n].score \in Int
         /\ Len(results) <= MaxResults
<1>1. pc \notin Reading
  BY DEF Reading
<1>2. indexArray \in [DOMAIN found -> {Gone} \cup DOMAIN found]
  BY <1>1 DEF Inv, TypeInv
<1>3. i \in 1..(Len(found) + 1) /\ todo \subseteq Classes /\ Len(results) <= MaxResults
  BY DEF Inv, TypeInv, TypeOK
<1> QED BY <1>2, <1>3, Shape DEF Inv, Placed, Gone

LEMMA FirstClass ==
  ASSUME todo \subseteq Classes, todo # {}
  PROVE  Min(todo) \in todo
<1>1. todo \subseteq Nat
  BY ReadingsAssumption DEF Classes
<1> QED BY <1>1, LeastNat

LEMMA NmsStepInv ==
  ASSUME Inv, Nms
  PROVE  Inv'
<1> DEFINE c == Min(todo)
           n == indexArray[i]
           Suppressed(j) == /\ OfClass(n, c) /\ j > i /\ OfClass(indexArray[j], c)
                            /\ Overlap(found[n].box, found[indexArray[j]].box)
<1>1. /\ pc = "nms" /\ pc' = "nms" /\ todo # {} /\ i <= Len(found) /\ i' = i + 1
      /\ indexArray' = [j \in DOMAIN indexArray |-> IF Suppressed(j) THEN Gone ELSE indexArray[j]]
      /\ UNCHANGED <<processVars, objProbs, sortVars, todo, results>>
  BY DEF Nms, Suppress
<1>2. c \in todo /\ i \in DOMAIN found
  BY <1>1, FirstClass, LateShape
<1>3. ASSUME NEW k \in DOMAIN found
      PROVE  indexArray'[k] = IF Suppressed(k) THEN Gone ELSE indexArray[k]
  BY <1>1, LateShape
<1>4. ASSUME NEW k \in DOMAIN found, Placed(k)'
      PROVE  Placed(k) /\ indexArray'[k] = indexArray[k] /\ ~ Suppressed(k)
  <2> HIDE DEF Suppressed
  <2> QED BY <1>3, <1>4 DEF Placed
<1>5. indexArray'[i] = n
  <2>1. ~ Suppressed(i)
    BY <1>2, LateShape, <1>1
  <2> HIDE DEF Suppressed
  <2> QED BY <1>2, <1>3, <2>1
<1>6. ASSUME NEW k \in DOMAIN found, Settled(k)
      PROVE  Settled(k)' /\ indexArray'[k] = indexArray[k]
  <2>1. ~ Suppressed(k)
    <3>1. CASE found[indexArray[k]].class \notin todo
      BY <1>2, <3>1 DEF OfClass
    <3>2. CASE k < i
      BY <1>1, <3>2, LateShape
    <3> QED BY <1>6, <3>1, <3>2 DEF Settled
  <2>2. indexArray'[k] = indexArray[k]
    <3> HIDE DEF Suppressed
    <3> QED BY <1>3, <2>1
  <2>3. k < i => k < i'
    BY <1>1, LateShape
  <2> QED BY <1>1, <1>6, <2>2, <2>3 DEF Settled, Placed, processVars
<1>7. ASSUME NEW k \in DOMAIN found, Settled(k)'
      PROVE  Settled(k) \/ (k = i /\ found[n].class = c /\ Placed(i))
  <2>1. Placed(k)' /\ Placed(k) /\ indexArray'[k] = indexArray[k]
    BY <1>4, <1>7 DEF Settled
  <2>2. CASE found[indexArray[k]].class \notin todo
    BY <2>1, <2>2 DEF Settled
  <2>3. CASE found[indexArray[k]].class = c /\ k < i + 1
    <3>1. k < i \/ k = i
      BY <1>1, <2>3, LateShape
    <3> QED BY <2>1, <2>3, <3>1 DEF Settled
  <2> QED BY <1>1, <1>7, <2>1, <2>2, <2>3 DEF Settled, processVars
<1>8. TypeInv' /\ PermInv' /\ OrderInv' /\ HoleInv'
  <2>1. indexArray' \in [DOMAIN found -> {Gone} \cup DOMAIN found]
    <3> HIDE DEF Suppressed
    <3> QED BY <1>1, LateShape
  <2>2. i' \in 1..(Len(found) + 1)
    BY <1>1, LateShape
  <2>3. todo' \subseteq Classes /\ Len(results') <= MaxResults /\ results' = <<>>
    BY <1>1 DEF Inv, TypeInv, TypeOK
  <2> QED BY <1>1, <2>1, <2>2, <2>3, LateTypeInv
<1>9. NmsInv'
  <2>1. \A k \in DOMAIN found : Placed(k)' => objProbs[k] = found[indexArray'[k]].score
    BY <1>1, <1>4 DEF Inv, NmsInv
  <2>2. \A k, l \in DOMAIN found : Placed(k)' /\ indexArray'[k] = indexArray'[l] => k = l
    <3> SUFFICES ASSUME NEW k \in DOMAIN found, NEW l \in DOMAIN found,
                        Placed(k)', indexArray'[k] = indexArray'[l]
                 PROVE  k = l
      OBVIOUS
    <3>1. Placed(l)'
      BY DEF Placed
    <3> QED BY <1>1, <1>4, <3>1 DEF Inv, NmsInv
  <2>3. ASSUME NEW k \in DOMAIN found, NEW l \in DOMAIN found,
               k < l, Settled(k)', Placed(l)'
        PROVE  ~ Twins(indexArray'[k], indexArray'[l])
    <3>1. Placed(l) /\ indexArray'[l] = indexArray[l] /\ ~ Suppressed(l)
      BY <1>4, <2>3
    <3>2. CASE Settled(k)
      BY <1>1, <1>6, <2>3, <3>1, <3>2 DEF Inv, NmsInv
    <3>3. CASE k = i /\ found[n].class = c /\ Placed(i)
      <4>1. l > i
        BY <2>3, <3>3, LateShape, <1>1
      <4>2. Twins(n, indexArray[l]) => Suppressed(l)
        BY <3>1, <3>3, <4>1 DEF Twins, OfClass, Placed
      <4> QED BY <1>5, <3>1, <3>3, <4>2
    <3> QED BY <1>7, <2>3, <3>2, <3>3
  <2>4. ASSUME NEW m \in DOMAIN found
        PROVE  \E k \in DOMAIN found :
                 \/ Placed(k)' /\ indexArray'[k] = m
                 \/ /\ Settled(k)' /\ Twins(indexArray'[k], m)
                    /\ objProbs[k] >= found[m].score
    <3>1. PICK k \in DOMAIN found :
                 \/ Placed(k) /\ indexArray[k] = m
                 \/ /\ Settled(k) /\ Twins(indexArray[k], m)
                    /\ objProbs[k] >= found[m].score
      BY <1>1 DEF Inv, NmsInv
    <3>2. CASE Settled(k) /\ Twins(indexArray[k], m) /\ objProbs[k] >= found[m].score
      BY <1>6, <3>2
    <3>3. CASE Placed(k) /\ indexArray[k] = m /\ ~ Suppressed(k)
      <4> HIDE DEF Suppressed
      <4> QED BY <1>3, <3>3 DEF Placed
    <3>4. CASE Placed(k) /\ indexArray[k] = m /\ Suppressed(k)
      <4>1. i < k
        BY <3>4, <1>1, LateShape
      <4>2. objProbs[i] >= objProbs[k] /\ objProbs[k] = found[m].score
        BY <1>1, <1>2, <3>4, <4>1 DEF Inv, NmsInv
      <4>3. Twins(n, m)
        BY <3>4 DEF Twins, OfClass
      <4>4. PICK j \in DOMAIN found : j = i
        BY <1>2
      <4>5. Settled(j)'
        <5>1. j < i'
          BY <1>1, <4>4, LateShape
        <5>2. indexArray'[j] = n /\ n # Gone /\ found[n].class = Min(todo)
          BY <1>5, <3>4, <4>4 DEF OfClass
        <5> QED BY <1>1, <5>1, <5>2 DEF Settled, Placed, processVars
      <4> QED BY <1>5, <4>2, <4>3, <4>4, <4>5
    <3> QED BY <3>1, <3>2, <3>3, <3>4
  <2>5. \A k, l \in DOMAIN found : k < l => objProbs[k] >= objProbs[l]
    BY <1>1 DEF Inv, NmsInv
  <2>6. DOMAIN found' = DOMAIN found /\ found' = found /\ objProbs' = objProbs
    BY <1>1 DEF processVars
  <2>7. \A a, b : Twins(a, b)' = Twins(a, b)
    BY <2>6 DEF Twins
  <2> QED BY <2>1, <2>2, <2>3, <2>4, <2>5, <2>6, <2>7 DEF NmsInv, Twins
<1>10. EmitInv'
  BY <1>1 DEF EmitInv
<1> QED BY <1>8, <1>9, <1>10 DEF Inv

(* A class that is done stays settled.                                      *)
LEMMA NmsEndInv ==
  ASSUME Inv, NmsEnd
  PROVE  Inv'
<1>1. /\ pc = "nms" /\ pc' \in {"nms", "emit"} /\ i' = 1 /\ todo' \subseteq todo
      /\ \/ todo # {} /\ i > Len(found) /\ todo' = todo \ {Min(todo)} /\ pc' = "nms"
         \/ todo = {} /\ pc' = "emit" /\ todo' = {}
      /\ UNCHANGED <<processVars, objProbs, indexArray, sortVars, results>>
  BY DEF NmsEnd
<1>2. TypeInv' /\ PermInv' /\ OrderInv' /\ HoleInv'
  <2>1. indexArray' \in [DOMAIN found -> {Gone} \cup DOMAIN found]
    BY <1>1, LateShape
  <2>2. i' \in 1..(Len(found) + 1) /\ todo' \subseteq Classes
    BY <1>1, LateShape
  <2>3. Len(results') <= MaxResults /\ results' = <<>>
    BY <1>1 DEF Inv, TypeInv, TypeOK
  <2> QED BY <1>1, <2>1, <2>2, <2>3, LateTypeInv
<1>3. ASSUME NEW k \in DOMAIN found
      PROVE  (Settled(k)' <=> Settled(k)) /\ (Placed(k)' <=> Placed(k))
  <2>1. ~ (k < 1)
    BY <1>1, LateShape
  <2>2. CASE todo # {} /\ i > Len(found) /\ todo' = todo \ {Min(todo)}
    <3>1. k < i
      BY <1>1, <2>2, LateShape
    <3>2. Min(todo) \in todo
      BY <1>1, <2>2, FirstClass, LateShape
    <3> QED BY <1>1, <2>1, <2>2, <3>1, <3>2 DEF Settled, Placed, processVars
  <2>3. CASE todo = {} /\ todo' = {}
    BY <1>1, <2>3 DEF Settled, Placed, processVars
  <2> QED BY <1>1, <2>2, <2>3
<1>4. NmsInv'
  <2>1. /\ DOMAIN found' = DOMAIN found /\ found' = found
        /\ objProbs' = objProbs /\ indexArray' = indexArray
    BY <1>1 DEF processVars
  <2> QED BY <1>1, <1>3, <2>1 DEF Inv, NmsInv, Twins
<1>5. EmitInv'
  <2>1. /\ results' = <<>> /\ DOMAIN results' = {}
        /\ results' \in Seq({Result(k)' : k \in {l \in DOMAIN found' : Placed(l)'}})
    BY <1>1, EmptySeq DEF Inv, TypeInv
  <2>2. \A k \in DOMAIN found' : ~ (k < i')
    <3>1. DOMAIN found' = DOMAIN found
      BY <1>1 DEF processVars
    <3> QED BY <1>1, <3>1, LateShape
  <2> QED BY <2>1, <2>2 DEF EmitInv
<1> QED BY <1>2, <1>4, <1>5 DEF Inv

-----------------------------------------------------------------------------
(* The last loop.                                                           *)

(* Once nms is done, who is placed is settled.                              *)
LEMMA AllSettled ==
  ASSUME Inv, pc \in {"emit", "done"}, NEW k \in DOMAIN found
  PROVE  Settled(k) <=> Placed(k)
BY DEF Inv, TypeInv, Settled

(* Nothing that nms left changes any more.                                  *)
LEMMA EmitKeepsNms ==
  ASSUME Inv, pc = "emit", pc' \in {"emit", "done"},
         UNCHANGED <<processVars, objProbs, indexArray, todo>>
  PROVE  NmsInv'
<1>1. ASSUME NEW k \in DOMAIN found
      PROVE  (Settled(k)' <=> Settled(k)) /\ (Placed(k)' <=> Placed(k))
  <2>1. todo = {} /\ todo' = {}
    BY DEF Inv, TypeInv
  <2> QED BY <2>1 DEF Settled, Placed, processVars
<1>2. found' = found
  BY DEF processVars
<1> QED BY <1>1, <1>2 DEF Inv, NmsInv, Twins

LEMMA ResultShape ==
  ASSUME Inv, pc \in {"emit", "done"}, NEW r \in DOMAIN results
  PROVE  /\ Len(results) \in Nat /\ DOMAIN results = 1..Len(results)
         /\ \E k \in DOMAIN found : k < i /\ Placed(k) /\ results[r] = Result(k)
         /\ results[r].score \in Int
<1>1. Len(results) \in Nat /\ DOMAIN results = 1..Len(results)
  BY LenProperties DEF Inv, EmitInv
<1>2. PICK k \in DOMAIN found : k < i /\ Placed(k) /\ results[r] = Result(k)
  BY DEF Inv, EmitInv
<1>3. results[r].score = objProbs[k]
  BY <1>2 DEF Result
<1> QED BY <1>1, <1>2, <1>3, LateShape

LEMMA EmitStepInv ==
  ASSUME Inv, Emit
  PROVE  Inv'
<1> DEFINE Some == {Result(k) : k \in {l \in DOMAIN found : Placed(l)}}
<1>1. /\ pc = "emit" /\ pc' = "emit" /\ i <= Len(found) /\ i' = i + 1
      /\ indexArray[i] # Gone /\ Len(results) < MaxResults
      /\ results' = Append(results, Result(i))
      /\ UNCHANGED <<processVars, objProbs, indexArray, sortVars, todo>>
  BY DEF Emit
<1>2. i \in DOMAIN found /\ Placed(i) /\ i \in Int
  BY <1>1, LateShape DEF Placed
<1>3. results \in Seq(Some) /\ Result(i) \in Some
  BY <1>1, <1>2 DEF Inv, EmitInv
<1>4. /\ Len(results) \in Nat /\ DOMAIN results = 1..Len(results)
      /\ results' \in Seq(Some)
      /\ Len(results') = Len(results) + 1 /\ DOMAIN results' = 1..(Len(results) + 1)
      /\ \A r \in DOMAIN results : results'[r] = results[r]
      /\ results'[Len(results) + 1] = Result(i)
  <2> DEFINE new == Result(i)
  <2>1. results \in Seq(Some) /\ new \in Some /\ results' = Append(results, new)
    BY <1>1, <1>3
  <2> HIDE DEF Some, new
  <2>2. Len(results) \in Nat /\ DOMAIN results = 1..Len(results)
    BY <2>1, LenProperties
  <2>3. /\ results' \in Seq(Some) /\ Len(results') = Len(results) + 1
        /\ \A r \in 1..Len(results) : results'[r] = results[r]
        /\ results'[Len(results) + 1] = new
    BY <2>1, AppendProperties
  <2>4. DOMAIN results' = 1..(Len(results) + 1)
    BY <2>3, LenProperties
  <2> QED BY <2>2, <2>3, <2>4 DEF new
<1>5. ASSUME NEW r \in DOMAIN results'
      PROVE  \/ r \in DOMAIN results /\ results'[r] = results[r]
             \/ r = Len(results) + 1 /\ results'[r] = Result(i)
  <2>1. r \in 1..Len(results) \/ r = Len(results) + 1
    BY <1>4
  <2> QED BY <1>4, <2>1
<1>6. \A k \in DOMAIN found : Result(k)' = Result(k)
  BY <1>1 DEF Result, processVars
<1>7. \A k \in DOMAIN found : Placed(k)' = Placed(k)
  BY <1>1 DEF Placed
<1>8. found' = found /\ objProbs' = objProbs
  BY <1>1 DEF processVars
<1>9. TypeInv' /\ PermInv' /\ OrderInv' /\ HoleInv'
  <2>1. indexArray' \in [DOMAIN found -> {Gone} \cup DOMAIN found]
    BY <1>1, LateShape
  <2>2. /\ i' \in 1..(Len(found) + 1)
        /\ todo' \subseteq Classes /\ todo' = {}
    <3>1. todo = {}
      BY <1>1 DEF Inv, TypeInv
    <3>2. i' \in 1..(Len(found) + 1)
      BY <1>1, LateShape
    <3> QED BY <1>1, <3>1, <3>2
  <2>3. Len(results') <= MaxResults
    BY <1>1, <1>4, LimitsAssumption
  <2> QED BY <1>1, <2>1, <2>2, <2>3, LateTypeInv
<1>10. EmitInv'
  <2>1. results' \in Seq({Result(k)' : k \in {l \in DOMAIN found' : Placed(l)'}})
    <3>1. {Result(k)' : k \in {l \in DOMAIN found' : Placed(l)'}} = Some
      BY <1>6, <1>7, <1>8
    <3> QED BY <1>4, <3>1
  <2>2. ASSUME NEW r \in DOMAIN results'
        PROVE  \E k \in DOMAIN found : k < i' /\ Placed(k) /\ results'[r] = Result(k)
    <3>1. CASE r \in DOMAIN results /\ results'[r] = results[r]
      <4>1. PICK k \in DOMAIN found : k < i /\ Placed(k) /\ results[r] = Result(k)
        BY <1>1, <3>1 DEF Inv, EmitInv
      <4>2. k < i'
        BY <1>1, <1>2, <4>1, LateShape
      <4> QED BY <3>1, <4>1, <4>2
    <3>2. CASE results'[r] = Result(i)
      <4>1. i < i'
        BY <1>1, <1>2
      <4> QED BY <1>2, <3>2, <4>1
    <3> QED BY <1>5, <3>1, <3>2
  <2>3. ASSUME NEW k \in DOMAIN found, k < i', Placed(k)
        PROVE  \E r \in DOMAIN results' : results'[r] = Result(k)
    <3>1. k < i \/ k = i
      BY <1>1, <1>2, <2>3, LateShape
    <3>2. CASE k < i
      <4>1. Len(results) # MaxResults
        BY <1>1, <1>4, LimitsAssumption
      <4>2. PICK r \in DOMAIN results : results[r] = Result(k)
        BY <1>1, <2>3, <3>2, <4>1 DEF Inv, EmitInv
      <4>3. r \in DOMAIN results'
        BY <1>4
      <4> QED BY <1>4, <4>2, <4>3
    <3>3. CASE k = i
      <4>1. Len(results) + 1 \in DOMAIN results'
        BY <1>4
      <4> QED BY <1>4, <3>3, <4>1
    <3> QED BY <3>1, <3>2, <3>3
  <2>4. ASSUME NEW r \in DOMAIN results, results[r].candidate = indexArray[i]
        PROVE  FALSE
    <3>1. PICK k \in DOMAIN found : k < i /\ Placed(k) /\ results[r] = Result(k)
      BY <1>1 DEF Inv, EmitInv
    <3>2. indexArray[k] = indexArray[i]
      BY <2>4, <3>1 DEF Result
    <3>3. k = i
      BY <1>1, <1>2, <3>1, <3>2 DEF Inv, NmsInv
    <3> QED BY <1>2, <3>1, <3>3
  <2>5. ASSUME NEW r \in DOMAIN results', NEW s \in DOMAIN results',
               results'[r].candidate = results'[s].candidate
        PROVE  r = s
    <3>1. Result(i).candidate = indexArray[i]
      BY DEF Result
    <3>2. CASE r \in DOMAIN results /\ s \in DOMAIN results
      BY <1>1, <1>4, <2>5, <3>2 DEF Inv, EmitInv
    <3> QED BY <1>5, <2>4, <2>5, <3>1, <3>2
  <2> QED BY <1>6, <1>7, <1>8, <2>1, <2>2, <2>3, <2>5 DEF EmitInv
<1>11. NmsInv'
  BY <1>1, EmitKeepsNms
<1> QED BY <1>9, <1>10, <1>11 DEF Inv

LEMMA SkipInv ==
  ASSUME Inv, Skip
  PROVE  Inv'
<1>1. /\ pc = "emit" /\ pc' = "emit" /\ i <= Len(found) /\ i' = i + 1
      /\ ~ Placed(i) \/ Len(results) >= MaxResults
      /\ UNCHANGED <<processVars, objProbs, indexArray, sortVars, todo, results>>
  BY DEF Skip, Placed
<1>2. i \in DOMAIN found /\ i \in Int
  BY <1>1, LateShape
<1>3. \A k \in DOMAIN found : Result(k)' = Result(k) /\ Placed(k)' = Placed(k)
  BY <1>1 DEF Result, Placed, processVars
<1>4. found' = found /\ objProbs' = objProbs /\ results' = results
  BY <1>1 DEF processVars
<1>5. TypeInv' /\ PermInv' /\ OrderInv' /\ HoleInv'
  <2>1. indexArray' \in [DOMAIN found -> {Gone} \cup DOMAIN found]
    BY <1>1, LateShape
  <2>2. /\ i' \in 1..(Len(found) + 1)
        /\ todo' \subseteq Classes /\ todo' = {}
    <3>1. todo = {}
      BY <1>1 DEF Inv, TypeInv
    <3>2. i' \in 1..(Len(found) + 1)
      BY <1>1, LateShape
    <3> QED BY <1>1, <3>1, <3>2
  <2>3. Len(results') <= MaxResults
    BY <1>1, LateShape
  <2> QED BY <1>1, <2>1, <2>2, <2>3, LateTypeInv
<1>6. EmitInv'
  <2>1. results' \in Seq({Result(k)' : k \in {l \in DOMAIN found' : Placed(l)'}})
    <3>1. {Result(k)' : k \in {l \in DOMAIN found' : Placed(l)'}}
            = {Result(k) : k \in {l \in DOMAIN found : Placed(l)}}
      BY <1>3, <1>4
    <3> QED BY <1>1, <1>4, <3>1 DEF Inv, EmitInv
  <2>2. ASSUME NEW r \in DOMAIN results
        PROVE  \E k \in DOMAIN found : k < i' /\ Placed(k) /\ results[r] = Result(k)
    <3>1. PICK k \in DOMAIN found : k < i /\ Placed(k) /\ results[r] = Result(k)
      BY <1>1 DEF Inv, EmitInv
    <3>2. k < i'
      BY <1>1, <1>2, <3>1, LateShape
    <3> QED BY <3>1, <3>2
  <2>3. ASSUME NEW k \in DOMAIN found, k < i', Placed(k)
        PROVE  \/ \E r \in DOMAIN results : results[r] = Result(k)
               \/ /\ Len(results) = MaxResults
                  /\ \A r \in DOMAIN results : results[r].score >= objProbs[k]
    <3>1. k < i \/ k = i
      BY <1>1, <1>2, <2>3, LateShape
    <3>2. CASE k < i
      BY <1>1, <2>3, <3>2 DEF Inv, EmitInv
    <3>3. CASE k = i
      <4>1. Len(results) = MaxResults
        <5>1. Len(results) \in Nat
          BY <1>1, LenProperties DEF Inv, EmitInv
        <5> QED BY <1>1, <2>3, <3>3, <5>1, LateShape, LimitsAssumption
      <4>2. ASSUME NEW r \in DOMAIN results PROVE results[r].score >= objProbs[k]
        <5>1. PICK j \in DOMAIN found : j < i /\ Placed(j) /\ results[r] = Result(j)
          BY <1>1 DEF Inv, EmitInv
        <5>2. results[r].score = objProbs[j]
          BY <5>1 DEF Result
        <5> QED BY <1>1, <3>3, <5>1, <5>2 DEF Inv, NmsInv
      <4> QED BY <4>1, <4>2
    <3> QED BY <3>1, <3>2, <3>3
  <2>4. \A r, s \in DOMAIN results : results[r].candidate = results[s].candidate => r = s
    BY <1>1 DEF Inv, EmitInv
  <2> QED BY <1>3, <1>4, <2>1, <2>2, <2>3, <2>4 DEF EmitInv
<1>7. NmsInv'
  BY <1>1, EmitKeepsNms
<1> QED BY <1>5, <1>6, <1>7 DEF Inv

LEMMA EmitEndInv ==
  ASSUME Inv, EmitEnd
  PROVE  Inv'
<1>1. /\ pc = "emit" /\ pc' = "done" /\ i > Len(found)
      /\ UNCHANGED <<processVars, objProbs, indexArray, sortVars, todo, i, results>>
  BY DEF EmitEnd
<1>2. i = Len(found) + 1
  BY <1>1, LateShape
<1>3. TypeInv' /\ PermInv' /\ OrderInv' /\ HoleInv'
  <2>1. indexArray' \in [DOMAIN found -> {Gone} \cup DOMAIN found] /\ i' \in 1..(Len(found) + 1)
    BY <1>1, LateShape
  <2>2. todo' \subseteq Classes /\ todo' = {} /\ Len(results') <= MaxResults
    BY <1>1, LateShape DEF Inv, TypeInv
  <2> QED BY <1>1, <1>2, <2>1, <2>2, LateTypeInv
<1>4. EmitInv'
  BY <1>1 DEF Inv, EmitInv, Result, Placed, processVars
<1>5. NmsInv'
  BY <1>1, EmitKeepsNms
<1> QED BY <1>3, <1>4, <1>5 DEF Inv

-----------------------------------------------------------------------------
LEMMA NextInv == Inv /\ [Next]_vars => Inv'
<1> SUFFICES ASSUME Inv, [Next]_vars PROVE Inv'
  OBVIOUS
<1>1. CASE ReadCell
  BY <1>1, ReadCellInv
<1>2. CASE KeepCell \/ DropCell
  BY <1>2, CellInv
<1>3. CASE SortCall
  BY <1>3, SortCallInv
<1>4. CASE ScanHigh
  BY <1>4, ScanHighInv
<1>5. CASE ScanLow
  BY <1>5, ScanLowInv
<1>6. CASE PlaceKey
  BY <1>6, PlaceKeyInv
<1>7. CASE SortEnd
  BY <1>7, SortEndInv
<1>8. CASE Nms
  BY <1>8, NmsStepInv
<1>9. CASE NmsEnd
  BY <1>9, NmsEndInv
<1>10. CASE Emit
  BY <1>10, EmitStepInv
<1>11. CASE Skip
  BY <1>11, SkipInv
<1>12. CASE EmitEnd
  BY <1>12, EmitEndInv
<1>13. CASE UNCHANGED vars
  <2> USE <1>13 DEF vars, processVars, sortVars
  <2>1. TypeInv'
    BY DEF Inv, TypeInv, TypeOK
  <2>2. PermInv'
    BY DEF Inv, PermInv, Matches, Scores, Indices, Hole, Partitioning
  <2>3. OrderInv'
    BY DEF Inv, OrderInv, Pending, Scores, Hole, Partitioning
  <2>4. HoleInv' /\ NmsInv' /\ EmitInv'
    BY DEF Inv, HoleInv, NmsInv, EmitInv, Partitioning, Placed, Settled, Twins, Result
  <2> QED BY <2>1, <2>2, <2>3, <2>4 DEF Inv
<1> QED BY <1>1, <1>2, <1>3, <1>4, <1>5, <1>6, <1>7, <1>8, <1>9, <1>10, <1>11, <1>12, <1>13 DEF Next

LEMMA SpecInv == Spec => []Inv
BY InitInv, NextInv, PTL DEF Spec

-----------------------------------------------------------------------------
(* Boxes.                                                                   *)

(* Two boxes overlap each other.                                            *)
LEMMA OverlapSymmetric ==
  ASSUME NEW a \in Boxes, NEW b \in Boxes, Overlap(a, b)
  PROVE  Overlap(b, a)
<1>1. /\ a.left \in Int /\ a.top \in Int /\ a.w \in Int /\ a.h \in Int
      /\ b.left \in Int /\ b.top \in Int /\ b.w \in Int /\ b.h \in Int
  BY ReadingsAssumption
<1>2. \A x, y \in Int : Least(x, y) = Least(y, x) /\ Most(x, y) = Most(y, x)
  BY DEF Least, Most
<1>3. /\ Least(a.left + a.w, b.left + b.w) = Least(b.left + b.w, a.left + a.w)
      /\ Most(a.left, b.left) = Most(b.left, a.left)
      /\ Least(a.top + a.h, b.top + b.h) = Least(b.top + b.h, a.top + a.h)
      /\ Most(a.top, b.top) = Most(b.top, a.top)
  BY <1>1, <1>2
<1> DEFINE W(x, y) == Most(0, Least(x.left + x.w, y.left + y.w) - Most(x.left, y.left) + 1)
           H(x, y) == Most(0, Least(x.top + x.h, y.top + y.h) - Most(x.top, y.top) + 1)
           U(x, y) == (x.w + 1) * (x.h + 1) + (y.w + 1) * (y.h + 1) - W(x, y) * H(x, y)
<1>4. U(a, b) > 0 /\ 100 * (W(a, b) * H(a, b)) > NmsThreshold * U(a, b)
  BY DEF Overlap
<1>5. W(a, b) = W(b, a) /\ H(a, b) = H(b, a)
  BY <1>3
<1>6. U(a, b) = U(b, a)
  <2> DEFINE p == (a.w + 1) * (a.h + 1)
             q == (b.w + 1) * (b.h + 1)
             x == W(a, b) * H(a, b)
  <2>1. p \in Int /\ q \in Int
    BY <1>1
  <2>2. x \in Int
    <3>1. ASSUME NEW y \in Int, NEW z \in Int, NEW v \in Int, NEW t \in Int
          PROVE  Most(0, Least(y, z) - Most(v, t) + 1) \in Int
      BY DEF Most, Least
    <3>2. /\ a.left + a.w \in Int /\ b.left + b.w \in Int
          /\ a.top + a.h \in Int /\ b.top + b.h \in Int
      BY <1>1
    <3>3. W(a, b) \in Int
      BY <1>1, <3>1, <3>2
    <3>4. H(a, b) \in Int
      BY <1>1, <3>1, <3>2
    <3> HIDE DEF W, H
    <3> QED BY <3>3, <3>4
  <2>3. x = W(b, a) * H(b, a)
    <3> HIDE DEF W, H
    <3> QED BY <1>5
  <2>4. U(a, b) = p + (q - x) /\ U(b, a) = q + (p - x)
    <3> HIDE DEF W, H
    <3> QED BY <2>3
  <2> HIDE DEF p, q, x, U
  <2> QED BY <2>1, <2>2, <2>4
<1>7. U(b, a) > 0 /\ 100 * (W(b, a) * H(b, a)) > NmsThreshold * U(b, a)
  <2> HIDE DEF W, H, U
  <2> QED BY <1>4, <1>5, <1>6
<1> QED BY <1>7 DEF Overlap

LEMMA TwinsSymmetric ==
  ASSUME Inv, NEW m \in DOMAIN found, NEW n \in DOMAIN found, Twins(m, n)
  PROVE  Twins(n, m)
BY OverlapSymmetric, Shape DEF Inv, Twins

(* Clamp keeps the order and stays in the frame.                            *)
LEMMA ClampInFrame ==
  ASSUME NEW a \in Int, NEW w \in Nat, NEW top \in Nat
  PROVE  /\ 0 <= Clamp(a, 0, top) * Enlarge
         /\ Clamp(a, 0, top) * Enlarge <= Clamp(a + w, 0, top) * Enlarge
         /\ Clamp(a + w, 0, top) * Enlarge <= top * Enlarge
<1> DEFINE x == Clamp(a, 0, top)
           y == Clamp(a + w, 0, top)
<1>1. x \in Nat /\ y \in Nat /\ x <= y /\ y <= top
  BY DEF Clamp, Most, Least
<1>2. Enlarge \in Nat
  BY LimitsAssumption
<1> HIDE DEF x, y
<1>3. ASSUME NEW p \in Nat, NEW q \in Nat, NEW e \in Nat, p <= q
      PROVE  0 <= p * e /\ p * e <= q * e
  BY <1>3
<1> QED BY <1>1, <1>2, <1>3 DEF x, y

LEMMA ScaledInFrame ==
  ASSUME NEW b \in Boxes
  PROVE  /\ 0 <= Scaled(b).left /\ Scaled(b).left <= Scaled(b).right
         /\ Scaled(b).right <= ModelW * Enlarge
         /\ 0 <= Scaled(b).top /\ Scaled(b).top <= Scaled(b).bottom
         /\ Scaled(b).bottom <= ModelH * Enlarge
<1>1. b.left \in Int /\ b.top \in Int /\ b.w \in Nat /\ b.h \in Nat
  BY ReadingsAssumption
<1>2. ModelW \in Nat /\ ModelH \in Nat
  BY LimitsAssumption
<1> QED BY <1>1, <1>2, ClampInFrame DEF Scaled

(* A result shows the candidate that its position holds.                    *)
LEMMA ResultOf ==
  ASSUME Inv, pc \in {"emit", "done"}, NEW k \in DOMAIN found, Placed(k)
  PROVE  /\ Result(k).candidate = indexArray[k] /\ indexArray[k] \in DOMAIN found
         /\ Result(k).score = objProbs[k] /\ objProbs[k] = found[indexArray[k]].score
         /\ Result(k).class = found[indexArray[k]].class
         /\ Result(k).box = Scaled(found[indexArray[k]].box)
BY LateShape DEF Inv, NmsInv, Result

-----------------------------------------------------------------------------
(* The promises.                                                            *)

(* post_process stays in its arrays: the sort's bounds are places of the    *)
(* arrays, the loops end where the arrays end, and the group takes no more  *)
(* than MaxResults results.                                                 *)
THEOREM PostprocessTypes == Spec => []TypeOK
<1>1. Inv => TypeOK
  BY DEF Inv, TypeInv
<1> QED BY <1>1, SpecInv, PTL

(* At every point of the sort and after it, a score stands where its        *)
(* candidate's index stands, and no candidate stands twice.                 *)
THEOREM IndicesCarryScores == Spec => []ScoresFollowIndices
<1>1. Inv => ScoresFollowIndices
  <2> SUFFICES ASSUME Inv, pc \notin {"read", "test", "done"},
                      NEW k \in DOMAIN found, Indices[k] # Gone
               PROVE  /\ Scores[k] = found[Indices[k]].score
                      /\ \A l \in DOMAIN found : Indices[l] = Indices[k] => l = k
    BY DEF ScoresFollowIndices
  <2>1. CASE pc \in Sorting
    BY <2>1 DEF Inv, PermInv, Matches
  <2>2. CASE pc \in {"nms", "emit"}
    <3>1. Scores = objProbs /\ Indices = indexArray
      BY <2>2 DEF Scores, Indices, Partitioning
    <3> QED BY <2>2, <3>1 DEF Inv, NmsInv, Placed
  <2>3. pc \in Sorting \/ pc \in {"nms", "emit"}
    BY DEF Inv, TypeInv, TypeOK, Sorting
  <2> QED BY <2>1, <2>2, <2>3
<1> QED BY <1>1, SpecInv, PTL

(* When nms starts, and while the results are copied, the scores are in     *)
(* descending order.                                                        *)
THEOREM SortDescends == Spec => []BestFirst
<1>1. Inv => BestFirst
  BY DEF Inv, NmsInv, BestFirst
<1> QED BY <1>1, SpecInv, PTL

(* Every result has the score, the class and the box of one candidate, no   *)
(* other result shows that candidate, and the box lies in the frame.        *)
THEOREM ResultsAreCandidates == Spec => []ResultIsOneCandidate
<1>1. Inv => ResultIsOneCandidate
  <2> SUFFICES ASSUME Inv, NEW r \in DOMAIN results
               PROVE  LET x == results[r]
                          c == found[x.candidate]
                      IN /\ x.score = c.score /\ x.class = c.class
                         /\ 0 <= x.box.left /\ x.box.left <= x.box.right
                         /\ x.box.right <= ModelW * Enlarge
                         /\ 0 <= x.box.top /\ x.box.top <= x.box.bottom
                         /\ x.box.bottom <= ModelH * Enlarge
                         /\ \A s \in DOMAIN results :
                              results[s].candidate = x.candidate => s = r
    BY DEF ResultIsOneCandidate
  <2>1. pc \in {"emit", "done"}
    BY DEF Inv, TypeInv
  <2>2. PICK k \in DOMAIN found : Placed(k) /\ results[r] = Result(k)
    BY <2>1 DEF Inv, EmitInv
  <2>3. \A s \in DOMAIN results : results[s].candidate = results[r].candidate => s = r
    BY <2>1 DEF Inv, EmitInv
  <2>4. found[indexArray[k]].box \in Boxes
    BY <2>1, <2>2, ResultOf, Shape DEF Inv
  <2> QED BY <2>1, <2>2, <2>3, <2>4, ResultOf, ScaledInFrame
<1> QED BY <1>1, SpecInv, PTL

(* No two results of a class overlap by more than the threshold.            *)
THEOREM ResultsHaveNoTwins == Spec => []NoTwins
<1>1. Inv => NoTwins
  <2> SUFFICES ASSUME Inv, NEW r \in DOMAIN results, NEW s \in DOMAIN results, r # s
               PROVE  ~ Twins(results[r].candidate, results[s].candidate)
    BY DEF NoTwins
  <2>1. pc \in {"emit", "done"}
    BY DEF Inv, TypeInv
  <2>2. PICK k \in DOMAIN found : Placed(k) /\ results[r] = Result(k)
    BY <2>1 DEF Inv, EmitInv
  <2>3. PICK l \in DOMAIN found : Placed(l) /\ results[s] = Result(l)
    BY <2>1 DEF Inv, EmitInv
  <2>4. results[r].candidate = indexArray[k] /\ results[s].candidate = indexArray[l]
    BY <2>2, <2>3 DEF Result
  <2>5. k # l
    BY <2>1, <2>4 DEF Inv, EmitInv
  <2>6. \A a, b \in DOMAIN found :
          a < b /\ Placed(a) /\ Placed(b) => ~ Twins(indexArray[a], indexArray[b])
    BY <2>1, AllSettled DEF Inv, NmsInv
  <2>7. indexArray[k] \in DOMAIN found /\ indexArray[l] \in DOMAIN found
    BY <2>1, <2>2, <2>3, ResultOf
  <2>8. k < l \/ l < k
    BY <2>1, <2>5, LateShape
  <2>9. CASE k < l
    BY <2>2, <2>3, <2>4, <2>6, <2>9
  <2>10. CASE l < k
    BY <2>2, <2>3, <2>4, <2>6, <2>7, <2>10, TwinsSymmetric
  <2> QED BY <2>8, <2>9, <2>10
<1> QED BY <1>1, SpecInv, PTL

(* When post_process returns, each candidate is reported, or a result of    *)
(* its class that is at least as good covers it, or the group is full of    *)
(* results at least as good.                                                *)
THEOREM EveryObjectIsReported == Spec => []NothingIsLost
<1>1. Inv => NothingIsLost
  <2> SUFFICES ASSUME Inv, pc = "done", NEW n \in DOMAIN found
               PROVE  \/ \E r \in DOMAIN results :
                           /\ results[r].candidate = n \/ Twins(results[r].candidate, n)
                           /\ results[r].score >= found[n].score
                      \/ /\ Len(results) = MaxResults
                         /\ \A r \in DOMAIN results : results[r].score >= found[n].score
    BY DEF NothingIsLost
  <2>1. PICK k \in DOMAIN found :
          /\ Placed(k)
          /\ indexArray[k] = n \/ Twins(indexArray[k], n)
          /\ objProbs[k] >= found[n].score
    <3>1. PICK k \in DOMAIN found :
            \/ Placed(k) /\ indexArray[k] = n
            \/ /\ Settled(k) /\ Twins(indexArray[k], n)
               /\ objProbs[k] >= found[n].score
      BY DEF Inv, NmsInv
    <3>2. CASE Placed(k) /\ indexArray[k] = n
      <4>1. objProbs[k] = found[n].score
        BY <3>2 DEF Inv, NmsInv
      <4>2. objProbs[k] >= found[n].score
        BY <4>1, LateShape
      <4> QED BY <3>2, <4>2
    <3>3. CASE Settled(k) /\ Twins(indexArray[k], n) /\ objProbs[k] >= found[n].score
      BY <3>3 DEF Settled
    <3> QED BY <3>1, <3>2, <3>3
  <2>2. k < i
    <3>1. i = Len(found) + 1
      BY DEF Inv, TypeInv
    <3> QED BY <3>1, LateShape
  <2>3. CASE \E r \in DOMAIN results : results[r] = Result(k)
    BY <2>1, <2>3, ResultOf
  <2>4. CASE /\ Len(results) = MaxResults
             /\ \A r \in DOMAIN results : results[r].score >= objProbs[k]
    <3>1. ASSUME NEW r \in DOMAIN results PROVE results[r].score >= found[n].score
      <4>1. results[r].score \in Int /\ results[r].score >= objProbs[k]
        BY <2>4, ResultShape
      <4>2. objProbs[k] \in Int /\ found[n].score \in Int
        BY LateShape
      <4> QED BY <2>1, <4>1, <4>2
    <3> QED BY <2>4, <3>1
  <2> QED BY <2>1, <2>2, <2>3, <2>4 DEF Inv, EmitInv
<1> QED BY <1>1, SpecInv, PTL

-----------------------------------------------------------------------------
(* The threshold.                                                           *)

(* The quantised threshold is within one step of the exact one, unless it   *)
(* is clipped at the upper end.                                             *)
LEMMA ThresI8Bounds ==
  ASSUME NEW h \in Heads
  PROVE  LET t == ThresI8(h)
             s == Scale[h]
             scaled == Threshold + ZeroPoint[h] * s
         IN /\ t \in Int /\ t * s < scaled + s
            /\ t = 127 \/ t * s > scaled - s
<1> DEFINE t == ThresI8(h)
           s == Scale[h]
           zs == ZeroPoint[h] * s
           scaled == Threshold + zs
<1>1. s \in Nat \ {0} /\ s > 0 /\ ZeroPoint[h] \in -128..127 /\ Threshold \in Nat
  BY HeadsAssumption, LimitsAssumption
<1>2. zs \in Int /\ -128 * s <= zs
  <2> DEFINE z == ZeroPoint[h]
  <2>1. z \in Int /\ s \in Nat /\ -128 <= z
    BY <1>1
  <2> HIDE DEF z, s
  <2>2. z * s \in Int /\ -128 * s <= z * s
    BY <2>1
  <2> QED BY <2>2 DEF z
<1>3. scaled \in Int /\ -128 * s <= scaled
  <2> HIDE DEF zs
  <2>1. -128 * s \in Int
    BY <1>1
  <2> QED BY <1>1, <1>2, <2>1
(* The two ways to round.                                                   *)
<1>4. ASSUME NEW a \in Nat
      PROVE  /\ a \div s \in Nat
             /\ (a \div s) * s <= a /\ a < (a \div s) * s + s
  <2> HIDE DEF s
  <2> QED BY <1>1, <1>4
<1>5. t = CASE scaled <= -128 * s -> -128
            [] scaled >= 127 * s  -> 127
            [] OTHER              -> Truncate(scaled, s)
  BY DEF ThresI8
<1> HIDE DEF t, s, zs, scaled
<1>6. CASE scaled <= -128 * s
  <2>1. t = -128
    <3>1. ~ (scaled >= 127 * s)
      BY <1>1, <1>3, <1>6
    <3> QED BY <1>5, <1>6, <3>1
  <2>2. t * s = scaled
    BY <1>1, <1>3, <1>6, <2>1
  <2> QED BY <1>1, <1>3, <2>1, <2>2 DEF t, s, zs, scaled
<1>7. CASE scaled >= 127 * s
  <2>1. ~ (scaled <= -128 * s)
    BY <1>1, <1>3, <1>7
  <2>2. t = 127
    BY <1>5, <1>7, <2>1
  <2>3. t * s < scaled + s
    BY <1>1, <1>3, <1>7, <2>2
  <2> QED BY <2>2, <2>3 DEF t, s, zs, scaled
<1>8. CASE ~ (scaled <= -128 * s) /\ ~ (scaled >= 127 * s)
  <2>1. t = Truncate(scaled, s)
    BY <1>5, <1>8
  <2>2. t \in Int /\ t * s < scaled + s /\ t * s > scaled - s
    <3>1. CASE scaled >= 0
      <4> DEFINE d == scaled \div s
      <4>1. t = d
        BY <2>1, <3>1 DEF Truncate
      <4>2. d \in Nat /\ d * s <= scaled /\ scaled < d * s + s
        BY <1>3, <1>4, <3>1
      <4> HIDE DEF d
      <4> QED BY <1>1, <1>3, <4>1, <4>2
    <3>2. CASE scaled < 0
      <4> DEFINE d == (- scaled) \div s
      <4>1. t = - d
        BY <1>3, <2>1, <3>2 DEF Truncate
      <4>2. - scaled \in Nat
        BY <1>3, <3>2
      <4>3. d \in Nat /\ d * s <= - scaled /\ - scaled < d * s + s
        BY <1>4, <4>2
      <4> HIDE DEF d
      <4>4. t * s = - (d * s) /\ d * s \in Int
        BY <1>1, <4>1, <4>3
      <4> QED BY <1>1, <1>3, <4>1, <4>3, <4>4
    <3> QED BY <1>3, <3>1, <3>2
  <2> QED BY <2>2 DEF t, s, zs, scaled
<1> QED BY <1>6, <1>7, <1>8

(* The test of a cell against the quantised threshold says the same of the  *)
(* exact values, up to one step.                                            *)
LEMMA PassesWithinOneStep ==
  ASSUME Inv, pc = "test"
  PROVE  LET conf == Dequantised(cell.conf, head)
             prob == Dequantised(MaxProb(cell.probs), head)
         IN IF Passes(cell)
            THEN conf > Threshold - Scale[head] /\ prob > Threshold
            ELSE conf < Threshold \/ prob < Threshold + Scale[head]
<1> DEFINE t == ThresI8(head)
           s == Scale[head]
           zs == ZeroPoint[head] * s
           q == cell.conf
           p == MaxProb(cell.probs)
<1>1. head \in Heads /\ cell \in CellType
  BY DEF Inv, TypeInv, TypeOK
<1>2. q \in Readings /\ p \in Readings
  BY <1>1, MaxProbs DEF CellType
<1>3. q \in -128..127 /\ p \in -128..127
  BY <1>2, ReadingsAssumption
<1>4. s \in Nat \ {0} /\ s > 0 /\ Threshold \in Nat
  BY <1>1, HeadsAssumption, LimitsAssumption
<1>5. zs \in Int
  <2>1. ZeroPoint[head] \in Int
    BY <1>1, HeadsAssumption
  <2> QED BY <1>4, <2>1
<1>6. t \in Int /\ t * s < (Threshold + zs) + s /\ (t = 127 \/ t * s > (Threshold + zs) - s)
  BY <1>1, ThresI8Bounds
<1>7. Dequantised(q, head) = q * s - zs /\ Dequantised(p, head) = p * s - zs
  <2> DEFINE z == ZeroPoint[head]
  <2>1. z \in Int
    BY <1>1, HeadsAssumption
  <2>2. ASSUME NEW v \in Int PROVE (v - z) * s = v * s - z * s
    <3> HIDE DEF z, s
    <3> QED BY <1>4, <2>1
  <2> QED BY <1>3, <2>2 DEF Dequantised
<1>8. Passes(cell) <=> q >= t /\ p > t
  BY DEF Passes
<1> HIDE DEF t, s, zs, q, p
<1>9. ASSUME NEW a \in Int, NEW b \in Int, a <= b PROVE a * s <= b * s
  BY <1>4, <1>9
<1>10. q * s \in Int /\ p * s \in Int /\ t * s \in Int
  BY <1>3, <1>4, <1>6
<1>11. CASE q >= t /\ p > t
  <2>1. t * s > (Threshold + zs) - s
    BY <1>3, <1>6, <1>11
  <2>2. t * s <= q * s
    BY <1>3, <1>6, <1>9, <1>11
  <2>3. t * s + s <= p * s
    <3>1. (t + 1) * s <= p * s
      BY <1>3, <1>6, <1>9, <1>11
    <3>2. (t + 1) * s = t * s + s
      BY <1>4, <1>6
    <3> QED BY <3>1, <3>2
  <2>4. q * s - zs > Threshold - s /\ p * s - zs > Threshold
    BY <1>4, <1>5, <1>10, <2>1, <2>2, <2>3
  <2> QED BY <1>7, <1>8, <1>11, <2>4 DEF s, q, p
<1>12. CASE q < t
  <2>1. q * s + s <= t * s
    <3>1. (q + 1) * s <= t * s
      BY <1>3, <1>6, <1>9, <1>12
    <3>2. (q + 1) * s = q * s + s
      BY <1>3, <1>4
    <3> QED BY <3>1, <3>2
  <2>2. q * s - zs < Threshold
    BY <1>4, <1>5, <1>6, <1>10, <2>1
  <2>3. ~ Passes(cell)
    BY <1>3, <1>6, <1>8, <1>12
  <2> QED BY <1>7, <2>2, <2>3 DEF q
<1>13. CASE p <= t
  <2>1. p * s <= t * s
    BY <1>3, <1>6, <1>9, <1>13
  <2>2. p * s - zs < Threshold + s
    BY <1>4, <1>5, <1>6, <1>10, <2>1
  <2>3. ~ Passes(cell)
    BY <1>3, <1>6, <1>8, <1>13
  <2> QED BY <1>7, <2>2, <2>3 DEF p, s
<1> QED BY <1>3, <1>6, <1>11, <1>12, <1>13

(* Quantising the threshold costs less than one step, on either side: what  *)
(* process() keeps is above it or within the step, what it drops is below   *)
(* it or within the step.                                                   *)
THEOREM ThresholdIsKept == Spec => ThresholdWithinOneStep
<1> DEFINE conf == Dequantised(cell.conf, head)
           prob == Dequantised(MaxProb(cell.probs), head)
           Sound == pc = "test" =>
                      IF found' # found
                      THEN conf > Threshold - Scale[head] /\ prob > Threshold
                      ELSE conf < Threshold \/ prob < Threshold + Scale[head]
<1>1. Inv /\ Next => Sound
  <2> SUFFICES ASSUME Inv, Next, pc = "test" PROVE Sound
    OBVIOUS
  <2>1. KeepCell \/ DropCell
    BY DEF Next, ReadCell, SortCall, ScanHigh, ScanLow, PlaceKey, SortEnd, Nms, NmsEnd,
           Emit, Skip, EmitEnd
  <2>2. CASE KeepCell
    <3>1. Passes(cell) /\ found' # found
      <4>1. found \in Seq([class : Classes, box : Boxes, score : Int])
        BY DEF Inv, TypeInv, TypeOK
      <4>2. Len(found') = Len(found) + 1 /\ Len(found) \in Nat
        BY <2>2, KeptCell, <4>1
      <4> QED BY <2>2, <4>2 DEF KeepCell
    <3> QED BY <3>1, PassesWithinOneStep
  <2>3. CASE DropCell
    <3>1. ~ Passes(cell) /\ found' = found
      BY <2>3 DEF DropCell
    <3> QED BY <3>1, PassesWithinOneStep
  <2> QED BY <2>1, <2>2, <2>3
<1>2. Inv /\ [Next]_vars => [Sound]_vars
  BY <1>1
<1>3. (Spec => [][Sound]_vars) => (Spec => ThresholdWithinOneStep)
  BY DEF ThresholdWithinOneStep
<1> QED BY <1>2, <1>3, SpecInv, PTL DEF Spec
=============================================================================
