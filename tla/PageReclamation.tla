--------------------------- MODULE PageReclamation ---------------------------
(***************************************************************************)
(* Pages of one index relation: who may write a block, and when a block    *)
(* may be used again.  Copy-on-write passes stage new pages, publish a     *)
(* root and retire the pages it replaces; retired pages are handed to the  *)
(* free space map behind a reader fence; foreground appends and passes     *)
(* take pages from the map or extend the relation; the unpublished tail is *)
(* truncated.  Sources: the page writer and the handoff in                 *)
(* src/src/evoke_segment_pages.c, the fence in evoke_am_reclamation.c, the *)
(* passes and the truncation in evoke_am.c.                                *)
(*                                                                         *)
(* A page's content is the identity of the write that filled it.  The free *)
(* space map is not WAL-logged: after a crash it may say anything.  The    *)
(* relation lock is held by whoever reads, appends or maintains; the fence *)
(* is that lock in exclusive mode, taken only if it is free.               *)
(***************************************************************************)
EXTENDS Naturals, FiniteSets, Functions

CONSTANTS
    Reader,       \* backends running a query
    Appender,     \* backends appending a document
    Maintainer,   \* workers running a copy-on-write pass
    DataPages,    \* contiguous pages of a rewritten object
    MaxRetired,   \* retired ranges a manifest can carry
    Threshold,    \* retired ranges that make reclamation due
    Budget,       \* retired blocks that make it due, and that one hands over
    MaxBlock,     \* bound: blocks of the relation
    MaxWrite,     \* bound: pages written
    MaxFault      \* bound: errors and crashes

ReclamationAssumption ==
    /\ DataPages \in Nat \ {0} /\ MaxRetired \in Nat
    /\ Threshold \in Nat \ {0} /\ Budget \in Nat \ {0}
    /\ MaxBlock \in Nat /\ MaxBlock > DataPages
    /\ MaxWrite \in Nat /\ MaxWrite > 1 + DataPages
    /\ MaxFault \in Nat
    /\ "nobody" \notin Maintainer

VARIABLES
    page,       \* [Block -> content]
    nblocks,    \* length of the relation
    fsm,        \* blocks the free space map lists
    root,       \* [id, refs, manifest, retired, hwm]: the published root
    durable,    \* [page, nblocks, root]: what the flushed WAL recovers to
    reading,    \* [Reader -> the refs of the root it opened, or Nothing]
    appending,  \* [Appender -> the page it wrote and has not published]
    pass,       \* [Maintainer -> the state of its pass]
    fence,      \* holder of the exclusive relation lock
    extender,   \* holder of the relation extension lock across steps
    writes,     \* pages written so far
    faults

vars == <<page, nblocks, fsm, root, durable, reading, appending, pass, fence,
          extender, writes, faults>>

Block == 1..MaxBlock
Zero == 0      \* content of a page that was never written
Marker == 1    \* content of a recyclable page
Nothing == <<>>
Nobody == "nobody"

\* The pages of f, and those of g that f does not replace.
Over(f, g) ==
    [b \in DOMAIN f \cup DOMAIN g |-> IF b \in DOMAIN f THEN f[b] ELSE g[b]]

IdlePass == [at |-> "idle"]
Snapshot == [page |-> page, nblocks |-> nblocks, root |-> root]

\* A relation with a manifest in block 1 and one data object after it.
Init ==
    /\ nblocks = 1 + DataPages
    /\ page = [b \in Block |-> IF b <= 1 + DataPages THEN b + 1 ELSE Zero]
    /\ fsm = {}
    /\ root = [id |-> 2, refs |-> [b \in 1..(1 + DataPages) |-> b + 1],
               manifest |-> 1, retired |-> {}, hwm |-> 1 + DataPages]
    /\ durable = Snapshot
    /\ reading = [r \in Reader |-> Nothing]
    /\ appending = [a \in Appender |-> Nothing]
    /\ pass = [m \in Maintainer |-> IdlePass]
    /\ fence = Nobody /\ extender = Nobody
    /\ writes = 2 + DataPages
    /\ faults = 0

-----------------------------------------------------------------------------
(* Allocation, under the extension lock. *)

Marked == {b \in 1..nblocks : page[b] = Marker}

\* The run of marked blocks a probe from block f collects for n pages: to the
\* left first, then to the right.
RunFrom(f, n) ==
    LET left == CHOOSE l \in 1..f :
                    /\ l..f \subseteq Marked
                    /\ f - l < n
                    /\ \/ f - l + 1 = n
                       \/ l = 1
                       \/ (l - 1) \notin Marked
    IN  left..(left + n - 1)

\* Mutant: the map is believed.
ClaimListed(n) ==
    {run \in {f..(f + n - 1) : f \in fsm} : run \subseteq 1..nblocks}

\* Blocks evoke_segment_claim_fsm_range may return: a run around a listed
\* block, every block of it carrying the recyclable marker.
claim_fsm_range(n) ==
    {run \in {RunFrom(f, n) : f \in fsm \cap Marked} : run \subseteq Marked}

\* n pages are written, into a claimed run or at the end of the relation;
\* listed blocks without a marker are dropped from the map.
WritePages(n, S) ==
    /\ extender = Nobody
    /\ writes + n <= MaxWrite
    /\ IF claim_fsm_range(n) # {} THEN S \in claim_fsm_range(n)
       ELSE S = (nblocks + 1)..(nblocks + n) /\ nblocks + n <= MaxBlock
    /\ page' = [b \in Block |->
                    IF b \in S THEN writes + 1 + Cardinality({c \in S : c < b})
                    ELSE page[b]]
    /\ nblocks' = IF S \subseteq 1..nblocks THEN nblocks ELSE nblocks + n
    /\ fsm' = (fsm \cap Marked) \ S
    /\ writes' = writes + n

-----------------------------------------------------------------------------
(* Readers and foreground appends. *)

\* A query opens the root under the shared relation lock, to the end.
ReaderOpen(r) ==
    /\ reading[r] = Nothing /\ fence = Nobody
    /\ reading' = [reading EXCEPT ![r] = root.refs]
    /\ UNCHANGED <<page, nblocks, fsm, root, durable, appending, pass, fence,
                   extender, writes, faults>>

ReaderClose(r) ==
    /\ reading[r] # Nothing
    /\ reading' = [reading EXCEPT ![r] = Nothing]
    /\ UNCHANGED <<page, nblocks, fsm, root, durable, appending, pass, fence,
                   extender, writes, faults>>

\* evoke_segment_pages_write_l0_record_chain, for a record of one page.
AppendWrite(a) ==
    /\ appending[a] = Nothing /\ fence = Nobody
    /\ \A b \in Appender : appending[b] = Nothing
    /\ \E S \in SUBSET Block : Cardinality(S) = 1 /\ WritePages(1, S)
        /\ appending' = [appending EXCEPT ![a] = [b \in S |-> page'[b]]]
    /\ UNCHANGED <<root, durable, reading, pass, fence, extender, faults>>

\* The root takes the page in and covers the relation.
AppendPublish(a) ==
    /\ appending[a] # Nothing
    /\ root' = [root EXCEPT !.refs = Over(appending[a], @), !.hwm = nblocks]
    /\ appending' = [appending EXCEPT ![a] = Nothing]
    /\ UNCHANGED <<page, nblocks, fsm, durable, reading, pass, fence, extender,
                   writes, faults>>

\* The statement fails after it wrote the page.
AppendFail(a) ==
    /\ appending[a] # Nothing /\ faults < MaxFault
    /\ faults' = faults + 1
    /\ appending' = [appending EXCEPT ![a] = Nothing]
    /\ UNCHANGED <<page, nblocks, fsm, root, durable, reading, pass, fence,
                   extender, writes>>

-----------------------------------------------------------------------------
(* Copy-on-write passes. *)

\* Maximal runs of consecutive blocks.
RangeCount(S) == Cardinality({b \in S : (b - 1) \notin S})

\* evoke_segment_pages_prepare_retired_ranges for a pass that replaces the
\* blocks R: the manifest carries the ranges while it can; else all of them
\* are handed over, behind the fence.
prepare_retired_ranges(build, R) ==
    LET all == build.retired \cup R \cup {build.manifest}
    IN  IF RangeCount(all) <= MaxRetired
        THEN [retired |-> all, handoff |-> {}, fenced |-> FALSE]
        ELSE [retired |-> {}, handoff |-> all, fenced |-> TRUE]

\* The first Budget retired blocks.
Reclaimed(build) ==
    {b \in build.retired :
        Cardinality({c \in build.retired : c < b}) < Budget}

\* Mutant: the replaced manifest is not retired.
ReclaimForgetsManifest(build) ==
    [retired |-> build.retired \ Reclaimed(build),
     handoff |-> Reclaimed(build), fenced |-> TRUE]

\* evoke_segment_pages_prepare_cow_reclaim_ranges.
prepare_cow_reclaim_ranges(build) ==
    [retired |-> (build.retired \ Reclaimed(build)) \cup {build.manifest},
     handoff |-> Reclaimed(build), fenced |-> TRUE]

\* A pass reads the root and decides what it replaces: a seal, a compaction,
\* a fold or an accelerator replaces the pages R of the root by one object;
\* a reclamation replaces the manifest only.
Start(m, R, plan, objects) ==
    /\ pass[m].at = "idle" /\ fence = Nobody
    /\ pass' = [pass EXCEPT ![m] =
                [at |-> "staging", build |-> root, replaced |-> R,
                 plan |-> plan, todo |-> objects, staged |-> Nothing,
                 manifest |-> 0, marking |-> {}]]
    /\ UNCHANGED <<page, nblocks, fsm, root, durable, reading, appending,
                   fence, extender, writes, faults>>

StartRewrite(m) ==
    \E R \in SUBSET (DOMAIN root.refs \ {root.manifest}) :
        Start(m, R, prepare_retired_ranges(root, R), 2)

\* evoke_am_retired_reclamation_due.
retired_reclamation_due ==
    \/ RangeCount(root.retired) >= Threshold
    \/ Cardinality(root.retired) >= Budget

\* What the reclamation leaves retired fits the manifest; if it does not,
\* the action reports an error before it has written anything.
ReclaimFits == RangeCount(prepare_cow_reclaim_ranges(root).retired) <= MaxRetired

StartReclaim(m) ==
    /\ retired_reclamation_due /\ ReclaimFits
    /\ Start(m, {}, prepare_cow_reclaim_ranges(root), 1)

\* The object, then the manifest.
Stage(m) ==
    LET w == pass[m]
        n == IF w.todo = 2 THEN DataPages ELSE 1
    IN  /\ w.at = "staging" /\ w.todo > 0
        /\ \E S \in SUBSET Block : Cardinality(S) = n /\ WritePages(n, S)
            /\ pass' = [pass EXCEPT ![m] = [w EXCEPT
                 !.todo = @ - 1,
                 !.staged = Over([b \in S |-> page'[b]], @),
                 !.manifest = IF w.todo = 1 THEN CHOOSE b \in S : TRUE ELSE @]]
        /\ UNCHANGED <<root, durable, reading, appending, fence, extender, faults>>

\* Nobody but m holds the relation lock.
Alone(m) ==
    /\ \A r \in Reader : reading[r] = Nothing
    /\ \A a \in Appender : appending[a] = Nothing
    /\ \A o \in Maintainer \ {m} : pass[o].at = "idle"

\* The root and the manifest are the ones the pass was built from.
SameRoot(m) == root.id = pass[m].build.id /\ root.manifest = pass[m].build.manifest

\* evoke_am_acquire_convergent_reader_fence: the exclusive lock, if it is
\* free, and the root unchanged under it.
AcquireFence(m) ==
    /\ pass[m].at = "staging" /\ pass[m].todo = 0 /\ pass[m].plan.fenced
    /\ Alone(m) /\ SameRoot(m)
    /\ fence' = m
    /\ pass' = [pass EXCEPT ![m].at = "fenced"]
    /\ UNCHANGED <<page, nblocks, fsm, root, durable, reading, appending,
                   extender, writes, faults>>

\* The lock is busy or the root moved: the staged pages are abandoned.
FenceBusy(m) ==
    /\ pass[m].at = "staging" /\ pass[m].todo = 0 /\ pass[m].plan.fenced
    /\ ~(Alone(m) /\ SameRoot(m))
    /\ pass' = [pass EXCEPT ![m].at = "marking",
                            ![m].marking = DOMAIN pass[m].staged]
    /\ UNCHANGED <<page, nblocks, fsm, root, durable, reading, appending,
                   fence, extender, writes, faults>>

ReadyToPublish(m) ==
    \/ pass[m].at = "fenced"
    \/ pass[m].at = "staging" /\ pass[m].todo = 0 /\ ~pass[m].plan.fenced

\* The successor root: pages appended since the build stay.
NextRoot(w) ==
    [id |-> page[w.manifest], manifest |-> w.manifest,
     refs |-> Over(w.staged, Restrict(root.refs, DOMAIN root.refs
                                    \ (w.replaced \cup {w.build.manifest}))),
     retired |-> w.plan.retired, hwm |-> nblocks]

\* evoke_am_mutation_publish_cow_manifest: the root is flushed before the
\* pass goes on.
Publish(m) ==
    /\ ReadyToPublish(m) /\ SameRoot(m)
    /\ root' = NextRoot(pass[m])
    /\ durable' = [page |-> page, nblocks |-> nblocks, root |-> root']
    /\ pass' = [pass EXCEPT ![m] =
                    IF @.plan.handoff = {} THEN IdlePass
                    ELSE [@ EXCEPT !.at = "published"]]
    /\ UNCHANGED <<page, nblocks, fsm, reading, appending, fence, extender,
                   writes, faults>>

PublishRefused(m) ==
    /\ ReadyToPublish(m) /\ ~SameRoot(m)
    /\ fence' = IF fence = m THEN Nobody ELSE fence
    /\ pass' = [pass EXCEPT ![m].at = "marking",
                            ![m].marking = DOMAIN pass[m].staged]
    /\ UNCHANGED <<page, nblocks, fsm, root, durable, reading, appending,
                   extender, writes, faults>>

\* The fence is released; the handoff follows without it.
Unfence(m) ==
    /\ pass[m].at = "published"
    /\ fence' = IF fence = m THEN Nobody ELSE fence
    /\ pass' = [pass EXCEPT ![m].at = "marking",
                            ![m].marking = pass[m].plan.handoff]
    /\ UNCHANGED <<page, nblocks, fsm, root, durable, reading, appending,
                   extender, writes, faults>>

\* evoke_segment_pages_publish_fsm_handoff: every block gets a marker, one by
\* one under the extension lock, and then all are listed.
MarkPage(m) ==
    LET left == {b \in pass[m].marking : page[b] # Marker}
    IN  /\ pass[m].at = "marking" /\ extender \in {Nobody, m}
        /\ left # {}
        /\ extender' = m
        /\ page' = [page EXCEPT ![CHOOSE b \in left : \A c \in left : b <= c] = Marker]
        /\ UNCHANGED <<nblocks, fsm, root, durable, reading, appending, pass,
                       fence, writes, faults>>

RecordFree(m) ==
    /\ pass[m].at = "marking" /\ extender \in {Nobody, m}
    /\ \A b \in pass[m].marking : page[b] = Marker
    /\ fsm' = fsm \cup pass[m].marking
    /\ extender' = Nobody
    /\ pass' = [pass EXCEPT ![m] = IdlePass]
    /\ UNCHANGED <<page, nblocks, root, durable, reading, appending, fence,
                   writes, faults>>

\* The pass is interrupted: what it staged or had to hand over is left to an
\* explicit scrub.
PassFail(m) ==
    /\ pass[m].at # "idle" /\ faults < MaxFault
    /\ faults' = faults + 1
    /\ pass' = [pass EXCEPT ![m] = IdlePass]
    /\ fence' = IF fence = m THEN Nobody ELSE fence
    /\ extender' = IF extender = m THEN Nobody ELSE extender
    /\ UNCHANGED <<page, nblocks, fsm, root, durable, reading, appending, writes>>

\* evoke_am_try_truncate_convergent_unpublished_tail, between passes.
TruncateTail(m) ==
    /\ pass[m].at = "idle" /\ fence = Nobody
    /\ Alone(m)
    /\ nblocks > root.hwm
    /\ nblocks' = root.hwm
    /\ page' = [b \in Block |-> IF b > root.hwm THEN Zero ELSE page[b]]
    /\ fsm' = fsm \cap 1..root.hwm
    /\ durable' = [page |-> page', nblocks |-> nblocks', root |-> root]
    /\ UNCHANGED <<root, reading, appending, pass, fence, extender, writes, faults>>

-----------------------------------------------------------------------------
(* WAL and crashes. *)

\* The WAL is flushed by a commit or in the background at any time.
Flush ==
    /\ durable # Snapshot
    /\ durable' = Snapshot
    /\ UNCHANGED <<page, nblocks, fsm, root, reading, appending, pass, fence,
                   extender, writes, faults>>

\* Recovery replays the flushed WAL.  The relation keeps the blocks it was
\* extended by, empty, and the map keeps whatever reached the disk.
Crash ==
    /\ faults < MaxFault
    /\ faults' = faults + 1
    /\ page' = durable.page
    /\ root' = durable.root
    /\ \E n \in {durable.nblocks, nblocks} :
        /\ n >= durable.nblocks
        /\ nblocks' = n
        /\ durable' = [durable EXCEPT !.nblocks = n]
    /\ fsm' \in {fsm, {}, 1..nblocks}
    /\ reading' = [r \in Reader |-> Nothing]
    /\ appending' = [a \in Appender |-> Nothing]
    /\ pass' = [m \in Maintainer |-> IdlePass]
    /\ fence' = Nobody /\ extender' = Nobody
    /\ UNCHANGED writes

Next ==
    \/ \E r \in Reader : ReaderOpen(r) \/ ReaderClose(r)
    \/ \E a \in Appender : AppendWrite(a) \/ AppendPublish(a) \/ AppendFail(a)
    \/ \E m \in Maintainer :
        \/ StartRewrite(m) \/ StartReclaim(m) \/ Stage(m)
        \/ AcquireFence(m) \/ FenceBusy(m)
        \/ Publish(m) \/ PublishRefused(m) \/ Unfence(m)
        \/ MarkPage(m) \/ RecordFree(m)
        \/ PassFail(m) \/ TruncateTail(m)
    \/ Flush \/ Crash

Spec == Init /\ [][Next]_vars

-----------------------------------------------------------------------------
(* Properties. *)

TypeOK ==
    /\ page \in [Block -> 0..MaxWrite]
    /\ nblocks \in Block
    /\ fsm \subseteq Block
    /\ root.retired \subseteq Block /\ root.hwm \in Block
    /\ DOMAIN root.refs \subseteq Block
    /\ fence \in Maintainer \cup {Nobody}
    /\ extender \in Maintainer \cup {Nobody}
    /\ faults \in 0..MaxFault

Intact(refs) == \A b \in DOMAIN refs : b <= nblocks /\ page[b] = refs[b]

\* Every page the published root reaches holds what the root means, through
\* reuse, abandoned passes, truncation and crashes; and the root that crash
\* recovery returns to is intact as well.
RootIntact ==
    /\ Intact(root.refs)
    /\ \A b \in DOMAIN durable.root.refs :
        b <= durable.nblocks /\ durable.page[b] = durable.root.refs[b]

\* A query that opened an older root still finds its pages: no page of it is
\* overwritten or truncated before the query ends.
ReadersIntact == \A r \in Reader : Intact(reading[r])

\* A page written and not yet published is nobody else's.
StagedIntact ==
    /\ \A a \in Appender : Intact(appending[a])
    /\ \A m \in Maintainer :
        pass[m].at \in {"staging", "fenced"} => Intact(pass[m].staged)

\* A retired page is retired once: it is not reachable, it is not already
\* recyclable, and no pending handoff will mark it behind the manifest.
RetiredOnce ==
    /\ root.retired \cap DOMAIN root.refs = {}
    /\ \A b \in root.retired : page[b] # Marker
    /\ \A m \in Maintainer :
        pass[m].at \in {"published", "marking"} =>
            pass[m].marking \cap (root.retired \cup DOMAIN root.refs) = {}

\* As long as nothing fails, no page is lost: every block is reachable,
\* retired, recyclable, or in the hands of a pass or of an append.
NothingLost ==
    faults = 0 =>
        \A b \in 1..nblocks :
            \/ b \in DOMAIN root.refs \cup root.retired
            \/ page[b] = Marker
            \/ \E a \in Appender : b \in DOMAIN appending[a]
            \/ \E m \in Maintainer : pass[m].at # "idle"
                /\ b \in DOMAIN pass[m].staged \cup pass[m].plan.handoff

\* A pass and the truncation never find the relation shorter than the root
\* says (the code would report a truncated relation).
TailPublished == root.hwm <= nblocks /\ DOMAIN root.refs \cup root.retired \subseteq 1..root.hwm

\* The pages of the root, of every reader's older root and of every staged
\* object hold what was written there, whatever is reclaimed, truncated,
\* reused or lost in a crash.
PagesIntact == TypeOK /\ RootIntact /\ ReadersIntact /\ StagedIntact

\* A page is retired once, the published watermark covers the tail, and while
\* nothing fails no page is lost.
PagesAccounted == RetiredOnce /\ NothingLost /\ TailPublished

=============================================================================
