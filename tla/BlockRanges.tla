----------------------------- MODULE BlockRanges -----------------------------
(***************************************************************************)
(* The block-range inventory and the best-fit allocator under every        *)
(* copy-on-write transition (src/src/evoke_block_ranges.c) and the arena   *)
(* that hands retired ranges to the writer of the next manifest            *)
(* (src/src/evoke_segment_pages.c).  An inventory collects ranges, is      *)
(* finalized against the published high watermark, and gives either the    *)
(* complement of what is reachable (a vacuum scan) or, when it held        *)
(* retired ranges, the free ranges themselves (a reader-fenced writer).    *)
(* What the writer leaves is finalized again with the ranges it retires    *)
(* and handed to the free space map.                                       *)
(***************************************************************************)
EXTENDS Naturals, FiniteSets, Sequences, SequencesExt, FiniteSetsExt

CONSTANTS
    MaxBlock,   \* UINT32_MAX of block numbers; the watermark's bound
    MaxAdd,     \* bound: ranges added to an inventory
    MaxAlloc,   \* bound: pages of one object
    Watermark,  \* the high watermarks considered
    Retiring    \* the inventories a writer's retirement may add, as sequences

RangeAssumption ==
    MaxBlock \in Nat \ {0} /\ Watermark \subseteq 1..MaxBlock

VARIABLES
    high,       \* published_block_high_watermark
    added,      \* the ranges added, in order
    inventory,  \* [status, ranges, reachable]: the finalized inventory
    allocator,  \* [status, ranges, available, capacity]
    taken,      \* sequence of ranges allocated
    refused,    \* pages the last allocation asked for and did not get, or 0
    handoff     \* [status, ranges, reachable]: what goes to the free space map

vars == <<high, added, inventory, allocator, taken, refused, handoff>>

AnyRange == [start : 0..MaxBlock, count : 0..MaxBlock]

End(r) == r.start + r.count

NoInventory == [status |-> "open", ranges |-> <<>>, reachable |-> 0]
NoAllocator == [status |-> "none", ranges |-> <<>>, available |-> 0, capacity |-> 0]

Init ==
    /\ high \in Watermark
    /\ added = <<>> /\ taken = <<>> /\ refused = 0
    /\ inventory = NoInventory
    /\ allocator = NoAllocator
    /\ handoff = NoInventory

-----------------------------------------------------------------------------
(* The inventory. *)

CanAdd(r) == r.count > 0 /\ End(r) <= MaxBlock

compare(a, b) == a.start < b.start \/ (a.start = b.start /\ a.count < b.count)

(* One pass over the sorted ranges drops exact duplicates and rejects      *)
(* overlap; acc is [status, ranges].                                       *)
Deduplicate(acc, r, hw) ==
    IF acc.status # "ok" THEN acc
    ELSE IF End(r) > hw THEN [acc EXCEPT !.status = "range"]
    ELSE IF acc.ranges = <<>> THEN [acc EXCEPT !.ranges = <<r>>]
    ELSE IF r = Last(acc.ranges) THEN acc
    ELSE IF r.start < End(Last(acc.ranges)) THEN [acc EXCEPT !.status = "format"]
    ELSE [acc EXCEPT !.ranges = Append(@, r)]

Extended(ranges, r) ==
    [ranges EXCEPT ![Len(ranges)].count = @ + r.count]

Adjoin(ranges, r) ==
    IF ranges # <<>> /\ r.start = End(Last(ranges)) THEN Extended(ranges, r)
    ELSE Append(ranges, r)

(* Mutant: adjacency is merged while duplicates are still being dropped. *)
FinalizeMergedEarly(rs, hw) ==
    LET Step(acc, r) ==
            IF acc.status = "ok" /\ acc.ranges # <<>> /\ r.start = End(Last(acc.ranges))
               /\ End(r) <= hw
            THEN [acc EXCEPT !.ranges = Extended(@, r)]
            ELSE Deduplicate(acc, r, hw)
        merged == FoldLeft(Step, [status |-> "ok", ranges |-> <<>>], SortSeq(rs, compare))
    IN IF rs = <<>> THEN [status |-> "invalid", ranges |-> <<>>, reachable |-> 0]
       ELSE [status |-> merged.status, ranges |-> merged.ranges,
             reachable |-> FoldLeft(LAMBDA n, r : n + r.count, 0, merged.ranges)]

Finalize(rs, hw) ==
    LET unique == FoldLeft(LAMBDA acc, r : Deduplicate(acc, r, hw),
                           [status |-> "ok", ranges |-> <<>>], SortSeq(rs, compare))
        merged == FoldLeft(Adjoin, <<>>, unique.ranges)
        total == FoldLeft(LAMBDA n, r : n + r.count, 0, merged)
    IN IF rs = <<>> THEN [status |-> "invalid", ranges |-> <<>>, reachable |-> 0]
       ELSE IF unique.status # "ok"
       THEN [status |-> unique.status, ranges |-> <<>>, reachable |-> 0]
       ELSE IF total > hw THEN [status |-> "format", ranges |-> <<>>, reachable |-> 0]
       ELSE [status |-> "ok", ranges |-> merged, reachable |-> total]

inventory_add ==
    /\ inventory.status = "open" /\ Len(added) < MaxAdd
    /\ \E r \in AnyRange : CanAdd(r) /\ added' = Append(added, r)
    /\ UNCHANGED <<high, inventory, allocator, taken, refused, handoff>>

inventory_finalize ==
    /\ inventory.status = "open"
    /\ inventory' = Finalize(added, high)
    /\ UNCHANGED <<high, added, allocator, taken, refused, handoff>>

-----------------------------------------------------------------------------
(* The allocator. *)

(* acc is [cursor, gaps]: the gap before each live range, if any. *)
Gap(acc, live) ==
    [cursor |-> End(live),
     gaps |-> IF live.start > acc.cursor
              THEN Append(acc.gaps, [start |-> acc.cursor, count |-> live.start - acc.cursor])
              ELSE acc.gaps]

Gaps(ranges, hw) ==
    Gap(FoldLeft(Gap, [cursor |-> 0, gaps |-> <<>>], ranges), [start |-> hw, count |-> 0]).gaps

Ordered(ranges, hw) ==
    \A i \in DOMAIN ranges :
        End(ranges[i]) <= hw /\ (i > 1 => End(ranges[i - 1]) <= ranges[i].start)

(* The complement has room for as many gaps as there are live ranges,      *)
(* which is enough because block zero is live.                             *)
allocator_build ==
    /\ inventory.status = "ok" /\ allocator = NoAllocator
    /\ inventory.ranges[1].start = 0
    /\ LET gaps == Gaps(inventory.ranges, high)
           blocks == FoldLeft(LAMBDA n, r : n + r.count, 0, gaps)
       IN allocator' =
              [status |-> IF Ordered(inventory.ranges, high) /\ blocks = high - inventory.reachable
                          THEN "complement" ELSE "format",
               ranges |-> gaps, available |-> blocks, capacity |-> Len(inventory.ranges)]
    /\ UNCHANGED <<high, added, inventory, taken, refused, handoff>>

CanonicalFree(ranges, hw) ==
    \A i \in DOMAIN ranges :
        /\ ranges[i].start > 0 /\ ranges[i].count > 0 /\ End(ranges[i]) <= hw
        /\ i > 1 => End(ranges[i - 1]) < ranges[i].start

(* The arena of a reader-fenced writer: the retired ranges of the manifest *)
(* it replaces, as a finalized inventory wrote them.                       *)
allocator_build_free ==
    /\ inventory.status = "ok" /\ allocator = NoAllocator
    /\ inventory.ranges[1].start # 0 /\ high > 1
    /\ allocator' =
           [status |-> IF CanonicalFree(inventory.ranges, high) THEN "free" ELSE "format",
            ranges |-> inventory.ranges, available |-> inventory.reachable,
            capacity |-> Len(inventory.ranges)]
    /\ UNCHANGED <<high, added, inventory, taken, refused, handoff>>

Fits(n) == {i \in DOMAIN allocator.ranges : allocator.ranges[i].count >= n}

Consumed(i, n) ==
    LET shrunk == [allocator.ranges EXCEPT ![i].start = @ + n, ![i].count = @ - n]
    IN IF shrunk[i].count = 0 THEN RemoveAt(shrunk, i) ELSE shrunk

(* The smallest run that holds n pages, the first of equals. *)
BestFit(n) ==
    IF Fits(n) = {} THEN 0
    ELSE CHOOSE i \in Fits(n) : \A j \in Fits(n) :
             \/ allocator.ranges[i].count < allocator.ranges[j].count
             \/ allocator.ranges[i].count = allocator.ranges[j].count /\ i <= j

(* An object the arena cannot place goes to the end of the relation, which *)
(* is not the arena's concern.                                             *)
allocate_best_fit(n) ==
    /\ allocator.status \in {"complement", "free"} /\ handoff.status = "open"
    /\ \E i \in {BestFit(n)} :
          IF i = 0
          THEN refused' = n /\ UNCHANGED <<allocator, taken>>
          ELSE /\ taken' = Append(taken, [start |-> allocator.ranges[i].start, count |-> n])
               /\ allocator' = [allocator EXCEPT !.ranges = Consumed(i, n), !.available = @ - n]
               /\ refused' = 0
    /\ UNCHANGED <<high, added, inventory, handoff>>

-----------------------------------------------------------------------------
(* The fenced writer's retirement: what is left of the arena, and the      *)
(* ranges the transition itself retires, go to the free space map.         *)

Blocks(ranges) == UNION {ranges[i].start..(End(ranges[i]) - 1) : i \in DOMAIN ranges}

Handoff(retired) ==
    IF retired.status # "ok" THEN retired
    ELSE Finalize(allocator.ranges \o retired.ranges, high)

retire(rs) ==
    /\ allocator.status = "free" /\ handoff.status = "open"
    /\ \A i \in DOMAIN rs : rs[i].start > 0 /\ End(rs[i]) <= high
    /\ Blocks(rs) \intersect (Blocks(inventory.ranges)) = {}
    /\ handoff' = Handoff(Finalize(rs, high))
    /\ UNCHANGED <<high, added, inventory, allocator, taken, refused>>

Next ==
    \/ inventory_add \/ inventory_finalize
    \/ allocator_build \/ allocator_build_free
    \/ \E n \in 1..MaxAlloc : allocate_best_fit(n)
    \/ \E rs \in Retiring : retire(rs)

Spec == Init /\ [][Next]_vars

-----------------------------------------------------------------------------
(* Every variable has its type. *)
TypeOK ==
    /\ high \in Watermark
    /\ Range(added) \union Range(taken) \subseteq {r \in AnyRange : r.count > 0 /\ End(r) <= MaxBlock}
    /\ inventory.status \in {"open", "ok", "invalid", "range", "format"}
    /\ allocator.status \in {"none", "complement", "free", "format"}
    /\ refused \in 0..MaxAlloc

Disjoint(r, q) == End(r) <= q.start \/ End(q) <= r.start

(* What a caller may add: ranges below the watermark, any two of them the  *)
(* same or disjoint.                                                       *)
Legal(rs, hw) ==
    /\ rs # <<>>
    /\ \A i \in DOMAIN rs : End(rs[i]) <= hw
    /\ \A i, j \in DOMAIN rs : rs[i] = rs[j] \/ Disjoint(rs[i], rs[j])

(* Sorted, with a hole between any two ranges. *)
Canonical(ranges) ==
    \A i \in DOMAIN ranges : ranges[i].count > 0
        /\ (i > 1 => End(ranges[i - 1]) < ranges[i].start)

(* Finalizing accepts exactly the legal inputs, in whatever order and      *)
(* however often the ranges were added, and then holds exactly their       *)
(* blocks in canonical form, counted once.                                 *)
InventoryExact ==
    inventory.status # "open" =>
        /\ inventory.status = "ok" <=> Legal(added, high)
        /\ inventory.status = "ok" =>
               /\ Canonical(inventory.ranges)
               /\ Blocks(inventory.ranges) = Blocks(added)
               /\ inventory.reachable = Cardinality(Blocks(added))

(* Building an allocator from a finalized inventory never fails and never  *)
(* writes past the array it allocated.                                     *)
AllocatorBuilt ==
    /\ allocator.status # "format"
    /\ allocator.status # "none" => Len(allocator.ranges) <= allocator.capacity

Pool == IF allocator.status = "complement"
        THEN (0..(high - 1)) \ Blocks(inventory.ranges)
        ELSE Blocks(inventory.ranges)

(* The pages handed out and the pages still free partition the pool: no    *)
(* page is handed out twice, is live, or is forgotten, and the count of    *)
(* free pages is exact.                                                    *)
PoolPartitioned ==
    allocator.status \in {"complement", "free"} =>
        /\ Blocks(taken) \union Blocks(allocator.ranges) = Pool
        /\ Blocks(taken) \intersect Blocks(allocator.ranges) = {}
        /\ \A i, j \in DOMAIN taken : i # j => Disjoint(taken[i], taken[j])
        /\ allocator.available = Cardinality(Blocks(allocator.ranges))

(* An object is refused only when no run of its length is free.            *)
RefusedOnlyWhenFull ==
    refused > 0 => \A s \in 0..MaxBlock : ~(s..(s + refused - 1) \subseteq Blocks(allocator.ranges))

(* What a writer leaves of its arena can always be handed over together    *)
(* with what it retires: the handoff is never rejected and loses nothing.  *)
HandoffExact ==
    handoff.status # "open" =>
        /\ handoff.status = "ok"
        /\ \E rs \in Retiring : Blocks(handoff.ranges) = Blocks(allocator.ranges) \union Blocks(rs)
        /\ Canonical(handoff.ranges)
        /\ Blocks(handoff.ranges) \intersect Blocks(taken) = {}

=============================================================================
