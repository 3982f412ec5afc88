------------------------------ MODULE MCPages ------------------------------
(*****************************************************************************)
(* The pages of an index and what is counted about them: PageReclamation in  *)
(* three scenarios and instances of BlockRanges, PostingHeat and             *)
(* WeightedSpaceSaving in one run. A behaviour belongs to one of them, the   *)
(* others' variables rest; the state spaces add up.                          *)
(*****************************************************************************)
EXTENDS PageReclamation, TLC

CONSTANTS m1, m2, b1, b2

VARIABLES
    of,   \* the scenario the behaviour belongs to
    high, added, inventory, allocator, taken, refused, handoff,
    home, counters, heap, slots, maxError, offered, offers,
    heat, now, held, batch, queries, ways, worker, total, asked, settled, tried

\* The value of the variables of modules no instance of which runs.
Idle == 0

\* A range of n blocks from block s, one range, and two out of order with one
\* of them twice.
R(s, n) == [start |-> s, count |-> n]
Retirements == {<<R(1, 2)>>, <<R(5, 1), R(2, 1), R(5, 1)>>}

\* Every hash of the items into two neighbouring slots around the wrap: all
\* the collisions and shifts a cluster of three entries can have.
Clustered == [1..4 -> {7, 0}]

\* Workers are interchangeable, and so are backends.
Symmetric == Permutations({m1, m2}) \cup Permutations({b1, b2})

-----------------------------------------------------------------------------
\* One worker at a time, and no error or crash.
OneWorker ==
    \E m \in Maintainer : \A k \in Maintainer \ {m} : pass'[k] = IdlePass
NoFault == faults' = 0

\* A query, a foreground append and a worker.
Readers == Next /\ OneWorker /\ NoFault

\* Two workers race, beside an append.
Rivals == Next /\ NoFault /\ UNCHANGED reading /\ writes' < MaxWrite

\* Errors and crashes; the free space map survives or not.
Crashes == Next /\ OneWorker /\ UNCHANGED reading /\ writes' < MaxWrite

\* Every inventory of three ranges below six blocks, duplicates, overlaps and
\* ranges past the watermark included.
Ranges == INSTANCE BlockRanges WITH
    MaxBlock <- 6, MaxAdd <- 3, MaxAlloc <- 3, Watermark <- {4, 6},
    Retiring <- Retirements

\* Four items compete for three counters.
Summary == INSTANCE WeightedSpaceSaving WITH
    Item <- 1..4, Capacity <- 3, HashSize <- 8, Hash <- Clustered,
    Weight <- {1, 2}, MaxOffer <- 4

\* Two backends, two terms that share a one-way bucket, on pages.
HeatOnPages == INSTANCE PostingHeat WITH
    root <- heat, Backend <- {b1, b2}, Term <- {1, 2}, Ways <- 1, LocalCapacity <- 1,
    FlushCount <- 2, HalfLife <- 2, Cooldown <- 2, MinQueryHeat <- 2,
    MinRootHeat <- 1, Readiness <- {<<TRUE, FALSE>>}, MaxTerms <- 2,
    Page <- TRUE, MaxTime <- 2, MaxRoot <- 2, MaxQuery <- 3

\* Three terms share a two-way bucket; heat decays and folds cool down.
HeatInMemory == INSTANCE PostingHeat WITH
    root <- heat, Backend <- {b1}, Term <- {1, 2, 3}, Ways <- 2, LocalCapacity <- 2,
    FlushCount <- 2, HalfLife <- 2, Cooldown <- 2, MinQueryHeat <- 2,
    MinRootHeat <- 1, Readiness <- {<<TRUE, FALSE>>, <<TRUE, TRUE>>},
    MaxTerms <- 1, Page <- FALSE, MaxTime <- 4, MaxRoot <- 1, MaxQuery <- 5

\* What the modules assume of their constants.
ASSUME InstancesAssumption ==
    /\ ReclamationAssumption
    /\ Ranges!RangeAssumption
    /\ Summary!SummaryAssumption
    /\ HeatOnPages!HeatAssumption
    /\ HeatInMemory!HeatAssumption

-----------------------------------------------------------------------------
rangeVars == <<high, added, inventory, allocator, taken, refused, handoff>>
RangesIdle ==
    /\ high = Idle /\ added = Idle /\ inventory = Idle /\ allocator = Idle
    /\ taken = Idle /\ refused = Idle /\ handoff = Idle

summaryVars == <<home, counters, heap, slots, maxError, offered, offers>>
SummaryIdle ==
    /\ home = Idle /\ counters = Idle /\ heap = Idle /\ slots = Idle
    /\ maxError = Idle /\ offered = Idle /\ offers = Idle

heatVars == <<heat, now, held, batch, queries, ways, worker, total, asked,
              settled, tried>>
HeatIdle ==
    /\ heat = Idle /\ now = Idle /\ held = Idle /\ batch = Idle
    /\ queries = Idle /\ ways = Idle /\ worker = Idle /\ total = Idle
    /\ asked = Idle /\ settled = Idle /\ tried = Idle

SuiteInit ==
    /\ Init
    /\ \/ /\ of \in {"Readers", "Rivals", "Crashes"}
          /\ RangesIdle /\ SummaryIdle /\ HeatIdle
       \/ of = "Ranges" /\ Ranges!Init /\ SummaryIdle /\ HeatIdle
       \/ of = "Summary" /\ Summary!Init /\ RangesIdle /\ HeatIdle
       \/ of = "HeatOnPages" /\ HeatOnPages!Init /\ RangesIdle /\ SummaryIdle
       \/ of = "HeatInMemory" /\ HeatInMemory!Init /\ RangesIdle /\ SummaryIdle

SuiteNext ==
    /\ UNCHANGED of
    /\ \/ of = "Readers" /\ Readers /\ UNCHANGED <<rangeVars, summaryVars, heatVars>>
       \/ of = "Rivals" /\ Rivals /\ UNCHANGED <<rangeVars, summaryVars, heatVars>>
       \/ of = "Crashes" /\ Crashes /\ UNCHANGED <<rangeVars, summaryVars, heatVars>>
       \/ of = "Ranges" /\ Ranges!Next /\ UNCHANGED <<vars, summaryVars, heatVars>>
       \/ of = "Summary" /\ Summary!Next /\ UNCHANGED <<vars, rangeVars, heatVars>>
       \/ of = "HeatOnPages" /\ HeatOnPages!Next
            /\ UNCHANGED <<vars, rangeVars, summaryVars>>
       \/ of = "HeatInMemory" /\ HeatInMemory!Next
            /\ UNCHANGED <<vars, rangeVars, summaryVars>>

SuiteSpec ==
    SuiteInit /\ [][SuiteNext]_<<of, vars, rangeVars, summaryVars, heatVars>>

-----------------------------------------------------------------------------
\* A finalized inventory holds exactly the blocks added, as sorted disjoint
\* maximal ranges, or reports the range that is out of bounds
\* (evoke_block_range_inventory_finalize).
InventoryExact == of = "Ranges" => Ranges!InventoryExact

\* The allocator starts with exactly the blocks below the watermark the
\* inventory does not hold.
AllocatorBuilt == of = "Ranges" => Ranges!AllocatorBuilt

\* Allocated and available ranges partition the pool at all times.
PoolPartitioned == of = "Ranges" => Ranges!PoolPartitioned

\* An allocation is refused only when no free range is long enough.
RefusedOnlyWhenFull == of = "Ranges" => Ranges!RefusedOnlyWhenFull

\* The handoff to the free space map is the unused pool and the retired
\* ranges, each block once, and nothing that was allocated.
HandoffExact == of = "Ranges" => Ranges!HandoffExact

\* After any sequence of removals and shifts the hash table finds exactly the
\* tracked items, at their counters.
HashExact == of = "Summary" => Summary!HashExact

\* The heap is a heap, knows where each counter is, and its root is the
\* counter the next newcomer replaces.
HeapExact == of = "Summary" => Summary!HeapExact

\* An estimate is never too low and at most its error too high; an untracked
\* item was offered at most the smallest estimate.
EstimatesBound == of = "Summary" => Summary!EstimatesBound

\* A term's recorded heat never exceeds what queries observed, whatever is
\* flushed, evicted, raced or torn down.
HeatNeverInvented == of = "HeatOnPages" => HeatOnPages!HeatNeverInvented

\* Decay is applied for whole half-lives only and reading never changes what a
\* later reader sees.
DecayUnobserved == of = "HeatInMemory" => HeatInMemory!DecayUnobserved

\* A term that was folded is not chosen again before its cooldown has passed.
CooldownRespected == of = "HeatInMemory" => HeatInMemory!CooldownRespected

-----------------------------------------------------------------------------
(* What the run checks.                                                    *)

\* The page inventory, the gaps built from it, the recycled pool and the
\* handoff agree with the blocks they stand for.
RangesExact ==
    /\ of = "Ranges" => Ranges!TypeOK
    /\ InventoryExact /\ AllocatorBuilt /\ PoolPartitioned
    /\ RefusedOnlyWhenFull /\ HandoffExact

\* The heat of a posting is bounded by what was observed: the summary's
\* counters and errors bound the true weights, no merge invents heat, decay
\* does not depend on who looks, and a futile fold is not retried within its
\* cooldown.
HeatHonest ==
    /\ of = "HeatOnPages" => HeatOnPages!TypeOK
    /\ HashExact /\ HeapExact /\ EstimatesBound /\ HeatNeverInvented
    /\ DecayUnobserved /\ CooldownRespected

=============================================================================
