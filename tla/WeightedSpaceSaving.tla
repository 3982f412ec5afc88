------------------------ MODULE WeightedSpaceSaving ------------------------
(***************************************************************************)
(* The bounded heavy-hitter summary of src/src/evoke_weighted_space_       *)
(* saving.c: counters, a min-heap of counter indexes and an open-addressing *)
(* hash table from items to counters, deletion by backward shift.  One     *)
(* action: an item is offered with a weight.  Weights are integers here;   *)
(* overflow to infinity is not modelled.                                   *)
(***************************************************************************)
EXTENDS Naturals, FiniteSets, Sequences, SequencesExt

CONSTANTS
    Item,        \* items, naturals
    Capacity,    \* counters
    HashSize,    \* hash slots: a power of two, at least 2 * Capacity
    Hash,        \* the hash functions considered: functions from items to slots
    Weight,      \* weights offered
    MaxOffer     \* bound: offers

SummaryAssumption ==
    /\ Item \subseteq Nat /\ Capacity \in Nat \ {0} /\ HashSize >= 2 * Capacity
    /\ Hash \subseteq [Item -> 0..(HashSize - 1)]

VARIABLES
    home,      \* [Item -> first slot probed]: the hash function, fixed
    counters,  \* sequence of [item, estimate, error, pos]
    heap,      \* sequence of counter indexes
    slots,     \* [Slot -> counter index or 0, with the item]
    maxError,  \* maximum_error
    offered,   \* history: weight offered per item
    offers     \* number of offers

vars == <<home, counters, heap, slots, maxError, offered, offers>>

Slot == 0..(HashSize - 1)
Empty == [item |-> 0, counter |-> 0]

Init ==
    /\ home \in Hash
    /\ counters = <<>> /\ heap = <<>>
    /\ slots = [s \in Slot |-> Empty]
    /\ maxError = 0
    /\ offered = [i \in Item |-> 0]
    /\ offers = 0

-----------------------------------------------------------------------------
(* The heap of [counters, heap] pairs; positions start at 1. *)

counter_less(h, i, j) ==
    \/ h.counters[i].estimate < h.counters[j].estimate
    \/ /\ h.counters[i].estimate = h.counters[j].estimate
       /\ h.counters[i].item > h.counters[j].item

heap_swap(h, p, q) ==
    [counters |-> [h.counters EXCEPT ![h.heap[p]].pos = q, ![h.heap[q]].pos = p],
     heap |-> [h.heap EXCEPT ![p] = h.heap[q], ![q] = h.heap[p]]]

RECURSIVE heap_up(_, _)
heap_up(h, p) ==
    IF p > 1 /\ counter_less(h, h.heap[p], h.heap[p \div 2])
    THEN heap_up(heap_swap(h, p, p \div 2), p \div 2)
    ELSE h

\* Mutant: only the left child is looked at.
RECURSIVE heap_down_left(_, _)
heap_down_left(h, p) ==
    IF 2 * p <= Len(h.heap) /\ counter_less(h, h.heap[2 * p], h.heap[p])
    THEN heap_down_left(heap_swap(h, p, 2 * p), 2 * p)
    ELSE h

\* The smallest of a position and its children.
Smallest(h, p) ==
    CHOOSE q \in {p, 2 * p, 2 * p + 1} :
        /\ q <= Len(h.heap)
        /\ \A r \in {p, 2 * p, 2 * p + 1} :
            r <= Len(h.heap) /\ r # q => ~counter_less(h, h.heap[r], h.heap[q])

RECURSIVE heap_down(_, _)
heap_down(h, p) ==
    IF Smallest(h, p) = p THEN h
    ELSE heap_down(heap_swap(h, p, Smallest(h, p)), Smallest(h, p))

-----------------------------------------------------------------------------
(* The hash table. *)

\* The slot where a probe for the item ends: its own or the first empty one.
RECURSIVE hash_lookup(_, _, _)
hash_lookup(table, item, slot) ==
    IF table[slot].counter = 0 \/ table[slot].item = item THEN slot
    ELSE hash_lookup(table, item, (slot + 1) % HashSize)

Lookup(table, item) == table[hash_lookup(table, item, home[item])]

hash_insert(table, item, counter) ==
    [table EXCEPT ![hash_lookup(table, item, home[item])] =
        [item |-> item, counter |-> counter]]

Distance(to, from) == (to + HashSize - from) % HashSize

\* Mutant: the hole is left where the item was.
hash_remove_hole(table, item) ==
    [table EXCEPT ![hash_lookup(table, item, home[item])] = Empty]

\* The entries behind the hole move up unless that would put them in front
\* of their home.
RECURSIVE Shift(_, _, _)
Shift(table, hole, scan) ==
    IF table[scan].counter = 0 THEN [table EXCEPT ![hole] = Empty]
    ELSE IF Distance(scan, home[table[scan].item]) >= Distance(scan, hole)
    THEN Shift([table EXCEPT ![hole] = table[scan]], scan, (scan + 1) % HashSize)
    ELSE Shift(table, hole, (scan + 1) % HashSize)

hash_remove(table, item) ==
    LET hole == hash_lookup(table, item, home[item])
    IN  Shift(table, hole, (hole + 1) % HashSize)

-----------------------------------------------------------------------------
(* Offers. *)

\* The item is tracked: its counter grows and sinks in the heap.
Hit(item, w) ==
    LET c == Lookup(slots, item).counter
        h == heap_down([counters |-> [counters EXCEPT ![c].estimate = @ + w],
                        heap |-> heap], counters[c].pos)
    IN  /\ c # 0
        /\ counters' = h.counters /\ heap' = h.heap
        /\ UNCHANGED <<slots, maxError>>

\* A counter is free.
Fill(item, w) ==
    LET n == Len(counters) + 1
        h == heap_up([counters |-> Append(counters,
                        [item |-> item, estimate |-> w, error |-> 0, pos |-> n]),
                      heap |-> Append(heap, n)], n)
    IN  /\ Lookup(slots, item).counter = 0 /\ n <= Capacity
        /\ counters' = h.counters /\ heap' = h.heap
        /\ slots' = hash_insert(slots, item, n)
        /\ UNCHANGED maxError

\* The item takes over the smallest counter, whose estimate is its error.
Replace(item, w) ==
    LET c == heap[1]
        h == heap_down([counters |-> [counters EXCEPT ![c].item = item,
                            ![c].estimate = @ + w, ![c].error = counters[c].estimate],
                        heap |-> heap], 1)
    IN  /\ Lookup(slots, item).counter = 0 /\ Len(counters) = Capacity
        /\ counters' = h.counters /\ heap' = h.heap
        /\ slots' = hash_insert(hash_remove(slots, counters[c].item), item, c)
        /\ maxError' = IF counters[c].estimate > maxError THEN counters[c].estimate
                       ELSE maxError

offer(item, w) ==
    /\ offers < MaxOffer
    /\ Hit(item, w) \/ Fill(item, w) \/ Replace(item, w)
    /\ offered' = [offered EXCEPT ![item] = @ + w]
    /\ offers' = offers + 1
    /\ UNCHANGED home

Next == \E item \in Item, w \in Weight : offer(item, w)

Spec == Init /\ [][Next]_vars

-----------------------------------------------------------------------------
(* Properties. *)

Tracked == {counters[c].item : c \in DOMAIN counters}
CounterOf(item) == CHOOSE c \in DOMAIN counters : counters[c].item = item

\* The hash table of evoke_weighted_space_saving_hash_remove finds exactly
\* the tracked items, at their counters, after any sequence of shifts.
HashExact ==
    /\ \A i \in Item : Lookup(slots, i).counter =
                        IF i \in Tracked THEN CounterOf(i) ELSE 0
    /\ Cardinality(Tracked) = Len(counters)

\* The heap is a heap, knows where each counter is, and its root is the
\* counter the next newcomer replaces.
HeapExact ==
    /\ \A p \in DOMAIN heap : counters[heap[p]].pos = p
    /\ \A p \in 2..Len(heap) :
        ~counter_less([counters |-> counters, heap |-> heap], heap[p], heap[p \div 2])

\* What the summary promises its reader: an estimate is never too low and at
\* most its error too high, and an item that is not tracked was offered at
\* most the smallest estimate.
EstimatesBound ==
    \A i \in Item :
        IF i \in Tracked
        THEN /\ offered[i] <= counters[CounterOf(i)].estimate
             /\ counters[CounterOf(i)].estimate
                    <= offered[i] + counters[CounterOf(i)].error
             /\ counters[CounterOf(i)].error <= maxError
        ELSE offered[i] > 0 => /\ Len(counters) = Capacity
                               /\ offered[i] <= counters[heap[1]].estimate
=============================================================================
