# Evoke: verification project

Evoke is a PostgreSQL index access method for lexical (BM25) and learned sparse
retrieval. This directory models the parts of it that decide whether an index
stays correct while it is written, sealed, compacted, folded, vacuumed,
reclaimed, searched and enriched by background inference, checks them with TLC
on small instances, and proves the most important of their invariants with
TLAPS for every value of the constants.

Contents: 1 the system, 2 the modules, 3 the runs that pass, 4 disagreements
with documentation and comments, 5 what is proved, 6 what is only checked,
7 what is not modelled.

## 1. The system

An index is a **metapage root** (`evoke_segment_read_root`) that names one
immutable **manifest** (segments, copy-on-write trees of documents, terms and
keys, statistics) and two **L0 chains**: the active one takes appends, the
pending one waits to be sealed into a segment.

Foreground writers append to the active chain under the append lock only.
Background jobs hold the per-index maintenance lock
(`evoke_am_try_maintenance_lock`), read the root, build, and swap the root in
`evoke_am_mutation_publish_cow_manifest` if it is still the one they read. VACUUM
takes the maintenance lock too, and the writer barrier while it builds and
publishes. Queries take no lock against any of this; they read one published
root and validate it. Pages replaced by a publication are used again only behind
the **reader fence**. A supervisor and committing sessions start maintenance
workers, which find work through a shared hint table and catalog
reconciliation. Learned encodings come from a pool of runtime workers behind a
request queue, and decoded structures are shared by backends in a preload arena.

| Component (in `src/src/`) | State | What is hard | What makes it correct | Modules |
|---|---|---|---|---|
| Read root, append, publication (`evoke_segments.c`, `evoke_am_mutation.c`) | ids, cursors, two frontiers, manifest | long builds without the append lock, exhaustion, cursor resets | no record lost or sealed twice, no publication undone, every stored root validates | `SegmentRoot`, `RootPublication` |
| Document lifecycle (`evoke_am.c`: seal, semantic completion, compaction, VACUUM, L0 projection, accelerator) | document records, segments, outcomes, quarantine | several publications of one VACUUM, late results, slot reuse, crashes | each committed row is found once, no freed row is, the pending L0 can always be sealed | `DocumentRecord`, `DocumentLifecycle` |
| Term folds (`evoke_am.c`, `evoke_term_cow.c`, `evoke_segment_pages.c`) | term records, fold watermarks, residency | compaction around watermarks, folds of one term in the way of another | a query plan reads every posting once | `TermFolds` |
| Copy-on-write trees (`evoke_document_cow.c`, `evoke_term_cow.c`, `evoke_lexicon_cow.c`, `evoke_prefix_cow.c`) | nodes on pages, summaries | patches beside readers, stale summaries, splits | old roots keep answering, nothing leaks, pruned searches equal scans | `DocumentTree`, `TermTree`, `LexiconTrie`, `PrefixIndex`, `LexicalLookup` |
| Page reclamation (`evoke_am_reclamation.c`, `evoke_segment_pages.c`, `evoke_block_ranges.c`) | fence, retired ranges, free space map | readers of old roots, two workers, an unlogged map after a crash | no page of a readable root is reused, no page is lost without a fault | `PageReclamation`, `BlockRanges` |
| Queries (`evoke_page_query.c`, `evoke_am.c`, `evoke_core.c`) | cursors, top-k heap, filters, scopes | loops that skip blocks, an L0 overlay, a stale baseline | exactly the k best; returned rows visible and matching | `TopKAccumulator`, `TopKQuery`, `FilteredSearch` |
| Shared preload arena (`evoke_am_preload.c`) | entries, references, hash, bump arena | unlocked decrements, retirement under a holder, rekeying | what is held stays; nothing is handed out twice or lost | `SharedPreload` |
| Runtime service (`evoke_semantic.c`) | request slots, lanes, heartbeat | late answers, dead workers, recycled slots | an answer reaches its own request and only it | `RuntimeService` |
| Scheduler (`evoke_am_scheduler.c`, `evoke_am.c`) | hints, reconcile table, session locks, worker reservations | a mark racing a clear, overflow and eviction, lost launches | due work stays announced, locks and reservations balance | `WorkHints`, `MaintenanceScheduler`, `WorkerLaunch` |
| Posting heat, space saving (`evoke_posting_heat.c`, `evoke_weighted_space_saving.c`) | counters, heap, hash | decay on read, eviction, backward shift | estimates bound the truth, no heat is invented | `PostingHeat`, `WeightedSpaceSaving` |

`PROJECT.json` lists every component, the lines each definition stands for
("map"), and every hazard with the properties that cover it.

## 2. The modules

**`SegmentRoot`**: pure operators on the root, one per C function
(`FrontierValid`, `RootValid`, `RotateL0`, `SealPending`, `ReplaceManifest`,
`AdvanceRoot`, `PublishMatches`) with a `Can...` operator for the early returns.
A chain is its frontier metadata.

**`RootPublication`**: one root, appends with soft rotation and hard limit,
background rotation, and any set of `Publishers`. `BeginBuild` is a job's read of
root and pending records, `PublishSeal` and `PublishReplace` are the two forms of
the compare-and-swap, `Abandon` follows a lost race, an error or a crash. It
assumes *no* lock among publishers: what it promises rests on the
compare-and-swap alone. It is the abstract specification `DocumentLifecycle`
implements. `sealed`, `high` and `parent` are history variables.

**`DocumentRecord`**, **`DocumentLifecycle`**: the index as a whole. `manifest`
is `[docs, segs, visible]`, `status` gives every record's transaction outcome,
`rows` and `dead` the heap, `job` the holder of the maintenance lock with what it
read (`base`) and built (`next`), `accel` the accelerator build.

| Actions | Code |
|---|---|
| `Insert` | `evoke_am_append_convergent_l0_upsert` down to `evoke_am_mutation_append_l0_record` |
| `Commit`, `Abort`, `Crash` | transaction callbacks; the L0 record is durable before the outcome |
| `Rotate` | `evoke_am_rotate_convergent_active_l0` |
| `SealBuild`, `SealPublish`, `SealGiveUp` | `evoke_am_try_seal_pending_l0`, `evoke_am_pending_seal_build` |
| `SemanticCollect`, `SemanticAppend`, `SemanticGiveUp` | `evoke_am_complete_convergent_semantic`; the lock is kept to the end of the transaction (`ReleaseLock`) |
| `CompactBuild`, `CompactPublish`, `CompactGiveUp` | `evoke_am_try_compact_segments`, `evoke_segment_payload_merge_excluding` |
| `VacuumBegin` ... `VacuumEnd` | `evoke_ambulkdelete`: collection, `reserve_sequence`, `publish_batch`, `publish_l0` |
| `AcceleratorBegin`, `AcceleratorPublish`, `AcceleratorGiveUp` | `evoke_am_try_publish_accelerator_baseline` |

`SealAccepted`, `PatchAccepted` and `MergeAccepted` collect the error returns of
the code; that they hold is a property, not an assumption. `Workload` names what
happens to the index in an instance. Without `interrupt` VACUUM neither fails nor
crashes once it has reserved its sequence; without `compactEarly` compaction
leaves alone a slot whose RETIRE is still in L0; without `retryEarly` no
quarantine deadline passes while its record is in L0; without `fenceBusy` and
`multiPass` the fence is free and VACUUM needs one pass. **Where a passing run
leaves them out, its properties hold under that restriction only** (section 4).
Further abstractions: a document has length one; a semantic batch has one row;
VACUUM's candidates fit one batch and include all rows dead at its start;
compaction may merge any adjacent run (`TermFolds` has the code's selection).

**`TermFolds`**: the record of each term (extents, major, minor and impact fold)
over segments that are intervals of sequences. `Seal`, `Compact` with the
preflight that refines its range around watermarks, `FoldForward`,
`StructuralFold`, `WorkloadFold`, `Specialize`, and the query plan (`PlanRuns`).
Which workload fold heat selects is free.

**`DocumentTree`**, **`TermTree`**: persistent radix trees with summaries. A
publication loads what it changes, writes the new objects level by level, retires
what it replaced; readers keep the root they started from. Searches that skip by
summary are compared with scans. **`LexiconTrie`**, **`PrefixIndex`** hold the
hash trie and the ordered tree of a vocabulary, **`LexicalLookup`** publishes
both under one manifest.

**`PageReclamation`**: page contents are write identities. `AppendWrite`,
`AppendPublish`, `AppendFail` are a foreground append; `StartRewrite`,
`StartReclaim`, `Stage`, `AcquireFence` / `FenceBusy`, `Publish`, `MarkPage`,
`RecordFree`, `Unfence`, `PassFail` a copy-on-write pass and its handoff;
`TruncateTail` and `Crash` the rest. **`BlockRanges`** is the inventory and
best-fit allocator underneath.

**`TopKQuery`** has one action per scoring loop and step
(`StreamBlock`, `CollectBlock`, `OrderedBlock`, `MaterializedBlock`,
`TermAtATime`, `ScanBlocks`, `ScoreDocument`, `ScoreRemaining`, and the completion
with zero scores), offering to the heap of **`TopKAccumulator`**; contributions
are integers. **`FilteredSearch`** is a semantic search under a structured filter
on an accelerator baseline that writers, VACUUM and TID reuse make stale.

**`SharedPreload`**: one action per critical section of `evoke_preload_lock` or
unlocked compare-and-exchange. **`RuntimeService`**: queue, lanes, dispatch,
results copied without the lock, cancellation, sweeps, worker exit and restart.
**`WorkHints`**: the shared table of work hints, probed linearly, with tombstones
that marks reuse and a wipe when it is idle. **`MaintenanceScheduler`**: that
table, the reconcile table, the session locks and the loop of a worker process,
from consuming preload hints to the result of one action. A worker looks at one
index (`Judge`) or candidate (`PickPreload`, `Apply`) per step, as the code's loops
do, so that writers and other workers run between any two. What is due in an index
is a set of *kinds* of debt (`Debts`): a small, a full and a pending L0, semantic
completions, structural work, an unpublished tail, a hot term, an accelerator that
must be rebuilt and one that may be. `Judge` classifies them as
`evoke_am_get_background_due_candidate` does. Each outcome of
`evoke_am_try_maintain_index_oid` is an action that pays one kind and marks, counts
and clears what the code does for that kind (`Rotate`, `Seal`, `Restructure`,
`CompleteSemantic`, `TruncateTail`, `FoldHot`, `StartBuild`, `FinishBuild`, ...), in
the code's order, in which a build that was found due runs ahead of all but L0
(`Jumps`). A selection may fail as a whole (`JudgeFails`) and a preload may end
without warming or marking anything (`PreloadDeclines`). `faults` records how many
workers were terminated from outside, which indexes an error or a locked relation
made a worker miss (`missed`: also other indexes of its list) and which it could
not preload (`unwarmed`). **`WorkerLaunch`**: the admission of worker processes.
**`PostingHeat`**, **`WeightedSpaceSaving`**: the summaries behind folding.

`...Proofs` modules hold theorems (section 5). `MC...` modules instantiate the
others for TLC.

### How the MC modules combine instances

A run is a *suite*. A variable `of` names the instance a behaviour belongs to,
chosen in `Init` and never changed; the variables of the other modules rest at
`Idle`, so the state spaces add up instead of multiplying. A property of a suite
is a conjunction of `of = "X" => X!Property`. Where a component has theorems its
suite EXTENDS the component, so that the run checks the very definition the
theorem is about; scenarios of such a component are constraints on its steps
(`RequestsOnly`, `Readers`, ...), which only narrow what happens in that scenario.
SYMMETRY is declared where no definition tells the model values apart, and never
in a run with temporal properties but for step properties of `folds`.


## 3. The runs that pass

State counts are TLC's distinct states. Every instance of a suite is exhausted.

### `root_publication`, 650,000 states
`RootPublication` with two publishers, four records, slots to 3, segment ids to
7, chains of two.

* `TypeOK`, `RootAlwaysValid`: every stored root passes
  `evoke_segment_read_root_validate`.
* `NoRecordLost`: a sequence handed out is in one chain or consumed by one seal.
* `UpsertSlotsIncrease`, `TailClosed`, `PendingTailContiguous`: the slots that
  queries and seals rely on, although the cursor is reset and slots are reused.
* `NoLostPublication`: a published manifest was built from the one it replaces.

Chains of two reach the soft and the hard limit with a pending chain present, and
all three integer maxima are reached, so their guards are exercised.

### `document_lifecycle`, 560,000 states
Five workloads: `Vacuums`, `Completions`, `Interrupts`, `Limits`, `Crashes`.

* `AnswersFresh`: a query returns committed rows only, and no row VACUUM has let
  the heap free.
* `AnswersComplete`: a query never fails on the L0 it projects and finds every
  committed live document once.
* `MaintenanceAlwaysPossible`: the pending L0 can be sealed, VACUUM's patch is
  accepted, adjacent segments can be merged.
* `RecordsExact`: statistics and residency agree with what the segments hold.
* `SlotHistoryMovesForward`: no publication takes a slot back in time.
* `ImplementsRootPublication`: every step is a step of `RootPublication` with the
  job and the accelerator as its publishers.

Six records and ten segment ids suffice for insert, seal, death, VACUUM, seal of
the RETIRE, compaction, reuse of the slot and the seal of its second
incarnation. Each property is checked in the workloads under which the code
keeps it; section 4 says what happens in the others.

### `maintenance`, 740,000 states
Nine scenarios: writers mark two indexes of one probe chain while a worker reads,
serves and clears hints (`HintRaces`, the constants of the suite itself); two
workers on one index; two workers around an accelerator build that runs ahead of
semantic completion (`Builds`); one worker among every kind of debt (`AllDebts`); set
backs (busy relations, lost and blocked builds); a hint table of one slot for two
indexes; one reconcile entry for two databases; selections and actions that fail
with two indexes in one list (`Errors`); failing queries and actions and a terminated
worker.

* `SchedulerTyped`: types, and the ranks that stand for the access stamps of the
  reconcile entries.
* `LockMatchesAction`: an index lock is held by the worker acting on the index.
* `HintTableSound`: every hint is found by probing and no index has two.
* `RunningHasWorker`: a class counts as running only while a worker of that database
  runs its catalog query.
* `UrgentDebtRemembered`: an index whose L0 is pending, or full with no document
  waiting for completion, is hinted, in the hands of a worker, or found by the next
  reconciliation. That is the debt appends depend on, and the only one the code never
  forgets: a counted build, hot fold or tail truncation clears the hint it was found
  by without a mark, and semantic, structural, tail and heat debt that is left then
  waits for the next periodic reconciliation (section 4, *Counted without a mark*).
  Indexes an error or a locked relation dropped from a list are excused until that
  reconciliation (`faults.missed`), and all are after a termination (section 4,
  *Failing selection*, *Lost reconcile*).
* `ColdIndexRemembered`: the same for an index that is not preloaded, except where
  its preload declined or failed (`faults.unwarmed`).

Two indexes that hash to one slot are what makes probes, tombstones and eviction
happen; a mark, a clear and a second mark need sequences up to 3. `AllDebts` starts
with five of the seven initial kinds in every combination, so that each order of
paying them occurs. The properties are invariants of the module itself: they
quantify over the indexes and workers a state has, so they hold in every scenario.

### `services`, 710,000 states
Two scenarios of `RuntimeService` (two queries with two workers that exit, stop or
die; queries and documents on three workers) and three instances of
`SharedPreload` (three backends race for an entry; two relations compete for an
arena that is too small; keys collide around the end of the hash).

* `RequestsTracked`: a request somebody waits for is queued, with exactly one
  worker, or answered.
* `AnswersOwn`: a backend copies only the answer to its own request, also when a
  slot is recycled while a late worker still writes.
* `LeasesSound`: counts equal holders, held payloads stay, readers see complete
  ones of their own generation, the hash finds every live entry.
* `ArenaExact`: blocks never overlap, none is stranded above the bump mark or
  leaked, and what admission turns away a reservation would not have taken.

### `pages`, 540,000 states
Three scenarios of `PageReclamation` (a reader and an append beside one worker;
two workers; errors and crashes with the map lost or kept), every inventory of
three ranges below six blocks, four items on three counters under every clustered
hash, and two heat instances.

* `PagesIntact`: pages of every root that can still be read hold what was written.
* `PagesAccounted`: no page is both retired and reachable, none is lost without a
  fault.
* `RangesExact`: the inventory and the allocator equal their set definitions.
* `HeatHonest`: estimates bound the truth, no heat is invented, cooldowns hold.

### `queries`, 710,000 states; `folds`, 68,000
* `TopKExact`: each of the scoring loops returns exactly the k best documents.
  `AnswersCurrent`, `AnswersFilled`: a filtered search returns only rows its
  statement sees and that match, and as many as there are up to k. Five slots in
  blocks of two give skipped, partial and tied blocks.
* `LookupsExact`: term lookup, prefix expansion and the search for the most extents
  equal the vocabulary in every manifest a reader holds; the term trees leak no
  block and refuse no legal patch.
* `SnapshotsKept`: a reader's root of the document tree answers as when it was
  opened, no block leaks, no legal patch is refused. `SummariesExact`: searches that
  skip by summary equal scans. Two records a leaf and two children a node split and
  grow within three batches.
* `ReadsOnce`: a query plan reads every posting of every live document once.
  `FoldsAccepted`: no compaction or fold the preflight let through is refused.
  `CoverageMonotone`: no watermark moves back.

The trees of terms are in the run of `queries`, the tree of documents in that of
`folds`.

### `liveness`, 80,000 states
* `WorkServed`: a pending L0 is sealed, a cold index preloaded, launching goes on
  after lost launches, a zero limit drains the workers. Derived debt and errors are
  left out here: with them an index can be served for ever without progress
  (section 4, `completion_gated` and *Failing index*).
* `ServicesAnswer`: a waiting backend gets an answer or an error, its slot and a
  retired arena block come back.
* `BatchesSealed`: what waits in L0 is sealed in the end.
* `AdmissionExact` (invariant): the shared counters count the worker processes.

*Fairness.* Wherever the code polls with a timeout (supervisor tick, latch waits
of backends and workers, the relaunch of workers for indexes with hints) the step
is weakly fair. `Seal` and `Preload` are strongly fair: transactions end and
readers leave, so a job that is tried again and again is not deferred for ever.
A model run returns; the provider that hangs is a disagreement (section 4).
Inserts, new statements, interrupts, exits, crashes and the start of accelerator
builds are never fair. Except for the launchers, whose fairness is in the
specification, each fairness formula stands in the property that needs it
(`HintsFairness => ...`): the suite's specification then stays small enough for
TLC, and no instance borrows the fairness of another. `Exhausted` and
`IdsExhausted` excuse only the artificial end of a bounded counter.

`CHECK_DEADLOCK FALSE` is set where a bound ends a behaviour or a process may
leave for good (all suites).

Every property has a mutant of a mapped definition (a dropped guard, a missing
reset, a wrong start of a search) under which TLC reports it.

## 4. Disagreements

Four runs must fail:

| Run | Shows |
|---|---|
| `vacuum_second_pass` | Later index passes of one VACUUM are skipped; rows of those passes stay in the index after the heap freed them. |
| `compaction_frees_unsealed_retire` | Compaction frees a slot whose RETIRE record is still in L0. After reuse the seal meets a retirement older than the version and rejects the chain. |
| `filter_hot` | A HOT-updated row satisfies a structured predicate and is not found: the keys hold its own ctid, the index its chain root. |
| `completion_gated` | Documents wait for completion for ever: an accelerator found due by its interval alone jumps ahead of completion, and is then refused the interval because completion is due (`MCBacklog`, with fairness). |

`PROJECT.json` quotes the documentation each contradicts. The models show further
disagreements whose circumstances the passing runs leave out:

* *Quarantine retry* (`evoke_am.c:23008`): a row retried before its quarantine
  record is sealed gets two semantic states in one chain, which the seal rejects.
  Workload member `retryEarly`.
* *Interrupted VACUUM* (`evoke_am.c:24212`): the reservation commits at once; a
  later VACUUM gives the row a placeholder without retirement, and the seal of
  the reservation is rejected. `interrupt`; hence `Interrupts` checks
  `AlwaysMergeable` but not `PendingSealable`.
* *Busy fence* (`evoke_am.c:25076`): VACUUM drops its patch and succeeds; the freed
  row stays listed. `fenceBusy`.
* *Lost reconcile* (`evoke_am_scheduler.c:984`): a worker terminated inside the
  catalog query leaves its class running until restart. `Terminations`; hence the
  three properties about announced work say nothing after a termination.
* *Failing selection* (`evoke_am.c:44656`): an invalid root or a truncated relation
  raises an error (43743, rethrown 43864) that aborts the selection after the
  reconciliation that listed the indexes was marked complete (44607). Every index of
  the list without a hint, healthy ones included, is forgotten until the next periodic
  reconciliation. `JudgeFails`, `faults.missed`.
* *Counted without a mark* (`evoke_am.c:44807`): a build, a fold of a hot term and the
  truncation of a tail (43113) count, which clears the hint, and mark nothing but
  `PRELOAD`. Other debt of the index waits for the next periodic reconciliation,
  also that of an L0 the build preserved, which `CHANGELOG.md:194` says is requeued.
  `FinishBuild`, `FoldHot`, `TruncateTail`; hence `UrgentDebtRemembered` is about L0
  frontiers only: appends mark whenever they make one urgent.
* *Declined preload* (`evoke_am.c:44214`): the result `NONE` leaves neither a hint nor a
  warm generation; only `BUSY` marks again (45044). `PreloadDeclines`.
* *Failing index* (`evoke_am.c:44802`): the fairness cursor moves only after a
  counted result, so an index that always fails can starve the others. `error`.
* *Reserved lane* (`evoke_semantic.c:9046`): dispatch counts ready workers at the
  moment of choice; one that exits later takes the free lane along.
* *Hanging provider* (`evoke_semantic.c:2184`): the monitor only asks; the worker
  and its backend stay. `hang` among `Faults`.
* *Rejected reclamation* (`evoke_segment_pages.c:22018`): with the maximum of retired
  ranges and a first range beyond the budget one range too many remains.
* *Scope count* (`evoke_page_query.c:14235`): a query that a scope posting covers
  takes k up to a count with retired members and fails the completion.
* *Empty vocabulary* (`evoke_term_cow.c:3318`): the page of the first, empty term
  root is never retired. `InitialVocabs` is therefore never empty where
  `NoBlockLeaked` is checked.

## 5. What is proved

Eight modules hold theorems, each for every value of the constants, every number of
processes and every workload. A theorem has the form
`ASSUME Assumption PROVE Spec => []Property`; TLC evaluates the assumptions in the
suites (`InstancesAssumption`). Assumptions are positivity of bounds, finiteness of
sets of processes, that a null value is none of the real ones, and two about the
sizes of shared tables that only the last two theorems of the scheduler need (below).
`WorkHintsProofs` holds the lemmas about the hint table they rest on.

| Theorem | Property | In |
|---|---|---|
| `TypeCorrect`, `RootStaysValid`, `RecordsSurvive`, `SlotsHandedOutInOrder`, `TailStaysClosed`, `PendingTailStaysContiguous`, `PublicationsNotLost` | all seven of `root_publication` | `RootPublicationProofs` |
| `RefinesRootPublication`, `SlotHistoryStaysOrdered`, `ProjectionStaysShaped` | `ImplementsRootPublication`, `SlotHistoryMovesForward`; the shape every projection checks first | `DocumentLifecycleProofs` |
| `PagesStayIntact`, `PagesStayAccounted` | `PagesIntact`, `PagesAccounted` | `PageReclamationProofs` |
| `RequestsStayTracked`, `AnswersStayOwn` | `RequestsTracked`, `AnswersOwn` | `RuntimeServiceProofs` |
| `LocksMatchActions` | `LockMatchesAction` | `MaintenanceSchedulerProofs` |
| `HintTableStaysSound`, `RunningClassHasWorker`, `ColdIndexIsRemembered`, `UrgentDebtIsRemembered` | `HintTableSound`, `RunningHasWorker`, `ColdIndexRemembered`, `UrgentDebtRemembered` | `MaintenanceDebtProofs` |
| `LaunchTypeCorrect`, `AdmissionStaysExact` | types; `AdmissionExact` | `WorkerLaunchProofs` |

None of the properties is inductive alone. The arguments:

**RootPublication.** `IInv` adds `ActiveIsNewest` (a nonempty active chain ends right
before the next sequence), `UpsertsBelowCursor` (why the next upsert takes a
higher slot, and why the cursor is reset only when chains are empty),
`HighWaters` and `ActiveTailContiguous` (the slots handed out before and after the
last rotation meet at `high`), `FiniteRecords`, and `BuildsCurrent`: a build that
read the root's present next segment id read its present slot count and pending
records too. The last is the heart: every rotation and every publication takes
a segment id, so the compare of that one number detects them all.

**DocumentLifecycle.** The refinement is proved step by step: the root, the chains and
both builders are mapped to `RootPublication`, each action to one of its actions or
a stutter. `IInv` is `RootPublication`'s, `ManifestDense` (the manifest's slots are
an initial segment whose length is the root's slot count), and `JobSound` /
`AccelSound` (what the job read is a legal build of the abstract specification,
and what it publishes has the slot count a seal or a replacement must have). The
theorems of `RootPublicationProofs` then hold of the index; `ProjectionStaysShaped`
is one of them read back.

`SlotHistoryStaysOrdered` is about two manifests under construction at once, the
job's and the accelerator's, each built from a manifest that may be old when it is
published. `HInv` says of each of them (`StagedMoves`): as long as the root still has
the segment id the build read, the staged manifest moves every slot of the root's
manifest forward. A rotation or a publication takes an id, so the implication is
kept by making its premise false, and a publication is accepted only when the
premise is true. That a staged manifest moves forward when it is made is a case per
job: a seal and VACUUM's patch are checked record by record
(`evoke_document_cow_record_transition_validate`; `TransitionMoves` shows that it
accepts forward moves only), compaction changes residency and no sequence, and the
accelerator build copies. `DocSound` is what the check relies on without testing
it: an aborted record has neither a retirement nor a semantic state.

**PageReclamation.** Four groups of parts: what a block's contents must be for each
root that can name it (`RootSound`, `DurableSound`, `PagesHeld`); that blocks in
different hands are different (`OwnApart`, `FreesUnmarked`); what a pass may still
do at each of its steps (`PassesSound`, `FenceSound`); and that every block is
known (`EveryBlockKnown`), with a cardinality argument for the block count.
`PagesHeld` carries it: a reader's older root is covered because the fence cannot be
taken while it reads, and a mark is written only under the fence.

**RuntimeService.** `QueueSound`, `RespSound`, `WorkerSound`, `ProcSound` and
`ClientSound` say for each record what its control state lets the others be; a
request id is never reused, so "the slot still has my id" is "it is still mine".
`SweepsSound` covers the sweepers' stale observations, `PoolSound` the census behind
the reserved lane.

**MaintenanceScheduler, session locks.** `WorkersOK` gives each worker at each step
the shape of what it holds (at most one candidate per index) and `LocksOK` the range
of lock holders. Lemmas show that a finite set of candidates has a best one under
the order of `evoke_am_cmp_maintenance_candidate` (mandatory before optional, after the
fairness cursor before at or below it, then by oid) although `CHOOSE` says nothing by
itself. Termination at any step is one of the actions, which is why the locks of a
terminated worker matter.

**MaintenanceScheduler, announced work**, in four layers, each an invariant that
includes the one before:

1. `TInv`: `Sound` says of the hint table that entries are reachable and unique, that
   flags match and that no sequence is ahead of the counter. `WorkHintsProofs` shows
   for each operation on the table that it keeps `Sound`, and two things more: which
   classes of which indexes stay hinted (`Keeps`), and that a sequence an index ever
   shows afterwards is 0, the one it had, or one newer than all before (`Forward`).
2. `SInv`: `RunInv`, a class that is running has a worker in its query. It needs that
   no database has two reconcile entries (`RecOK`) and that an entry changes hands
   only while none of its classes runs.
3. `QInv`: `OwnsInv`, the converse: a worker in its query has the class running and is
   the only one. Without it the end of one query could release a class another
   worker is still querying. This is where `EntriesSuffice` is needed: a worker for
   which no entry can be had is granted the query all the same, and would complete
   or release an entry of another database. There are 256 entries
   (`EVOKE_AM_RECONCILE_DB_CAPACITY`) and a busy entry has a worker process of its
   own, of which there are at most `max_worker_processes`, 8 by default; the
   assumption asks that workers *or* databases are no more than entries.
   `NeverAllBusy` counts them.
4. `CInv` for cold indexes, `DInv` for urgent debt: per index, what announces it after
   a step. For cold indexes a hint is taken off the table first, so `PHand` follows
   the index through the worker that took it. For urgent debt the difficulty is the
   clear: a rotation and a seal mark before they clear, but an idle index, a counted
   build, a fold and a tail truncation clear with no mark. `KnowsOf` says that a
   worker knows no sequence ahead of the table, that an index it found by a hint
   still has one as long as its debt is urgent, and that the hint it may yet clear
   without a mark (`Clears`: it judged the index idle, or builds its accelerator) is
   not the present hint of urgent debt. The last holds because there was no urgent
   debt when the worker read the index or started the build: `DebtMoves` says what
   every step of everybody else does to keep it so, namely that urgent debt keeps
   its hint and that debt which becomes urgent gets a hint newer than all before, and
   `Forward` that a sequence once replaced does not come back. A fold and a
   truncation run only where there is no urgent debt, in the very step that clears.
   `TableSuffices` (no more indexes than hint slots; `EVOKE_AM_WORK_HINT_CAPACITY` is
   4096) makes every mark find a slot: `NeverOverflows`, by counting probes. With a
   full table a mark becomes a request, and a worker that relies on the hint it found
   an index by may find it gone. TLC checks the property in such a table
   (`HintOverflow`) with one worker; the theorem does not cover it.

**WorkerLaunch.** `CountersExact` compares counters with cardinalities of sets of
processes; `ReservationsCovered` and `LaunchesBounded` count launches in flight
against pending reservations, with the history variables `forgotten` and `late` for
launches that outlive their timeout.

## 6. What is only checked

* **Liveness** and everything under fairness (`liveness`): out of this prover's reach.
* **Induction over data.** What a fold or a recursive function computes for every
  input cannot be proved, so these stay with TLC: the hash tables and bump arena
  of `SharedPreload`, `BlockRanges`, `PostingHeat`, `WeightedSpaceSaving`, the trees,
  and the top-k loops.
* **Types of the scheduler** (`SchedulerTyped`): the proofs carry the parts they need
  (`WorkersOK`, `RecOK`, `SharedOK`) instead.
* **Answers and statistics of `DocumentLifecycle`** (`AnswersFresh`,
  `AnswersComplete`, `RecordsExact`, `MaintenanceAlwaysPossible`): their invariants
  relate documents, segments, chains and heap through cardinalities of residency.
  Proved are the use of the root and the order of each slot's history.
* **`TermFolds`**: the input bytes that choose a fold are folds over sets
  (`MapThenSumSet`), whose very type needs induction over data.

## 7. What is not modelled

* Codecs, checksums and page layout (`evoke_segments.c`, `evoke_segment_pages.c`,
  `evoke_storage.c`): encoding, except where a state change depends on it.
* Scoring kernels, compressed postings and the numeric bounds of semantic indexes
  (`evoke_core.c`, `evoke_semantic_bmp.c`, `evoke_semantic_forward*.c`,
  `evoke_semantic_impact_frontier.c`): numeric; the loops that use the bounds are in
  `TopKQuery`.
* Accelerator contents and directories (`evoke_am_accelerator.c`,
  `evoke_semantic_accelerator*.c`): only their publication is modelled.
* Boolean queries, highlighting, planner costs, scope materialisation.
* The document pipeline that batches many encodings per backend: `RuntimeService`
  has one outstanding request per backend.
* Text analysis, SQL functions, options, model runtimes behind their interface.
* The selector's periodic policy beyond the order of its jobs.
