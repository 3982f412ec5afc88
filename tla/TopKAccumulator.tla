-------------------------- MODULE TopKAccumulator --------------------------
(***************************************************************************)
(* The bounded top-k accumulator of evoke_core.c: a binary heap in an      *)
(* array with the worst kept item at its root, and the order in which a    *)
(* finished accumulator lists its items.  An item is a record [score, key, *)
(* doc]; key is the persisted tie-break key (born_sequence).               *)
(***************************************************************************)
EXTENDS Integers, Sequences, SequencesExt

(* evoke_cmp_topk_desc: a stands before b in the sorted result. *)
Better(a, b) ==
    \/ a.score > b.score
    \/ a.score = b.score /\ a.key < b.key
    \/ a.score = b.score /\ a.key = b.key /\ a.doc < b.doc

Worse(a, b) == Better(b, a)

SwapItems(heap, i, j) == [heap EXCEPT ![i] = heap[j], ![j] = heap[i]]

(* Array index i of the code is position i + 1 of the sequence. *)
RECURSIVE SiftUp(_, _)
SiftUp(heap, i) ==
    IF i > 1 /\ Worse(heap[i], heap[i \div 2])
    THEN SiftUp(SwapItems(heap, i, i \div 2), i \div 2)
    ELSE heap

WorstOf(heap, i, j) ==
    IF j <= Len(heap) /\ Worse(heap[j], heap[i]) THEN j ELSE i

RECURSIVE SiftDown(_, _)
SiftDown(heap, i) ==
    LET smallest == WorstOf(heap, WorstOf(heap, i, 2 * i), 2 * i + 1)
    IN IF smallest = i THEN heap
       ELSE SiftDown(SwapItems(heap, i, smallest), smallest)

(* evoke_topk_accumulator_offer. *)
Offer(heap, capacity, item) ==
    IF Len(heap) < capacity THEN SiftUp(Append(heap, item), Len(heap) + 1)
    ELSE IF capacity > 0 /\ Better(item, heap[1])
         THEN SiftDown([heap EXCEPT ![1] = item], 1)
    ELSE heap

Full(heap, capacity) == Len(heap) = capacity

(* evoke_page_query_score_may_enter_topk: an equal score may still enter. *)
MayEnter(heap, capacity, score) ==
    capacity > 0 /\ (Len(heap) < capacity \/ score >= heap[1].score)

(* evoke_topk_accumulator_finish, sorted. *)
Finish(heap) == SortSeq(heap, Better)

=============================================================================
