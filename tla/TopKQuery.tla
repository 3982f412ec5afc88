----------------------------- MODULE TopKQuery -----------------------------
(***************************************************************************)
(* An exact top-k query over the posting runs of a manifest, an optional   *)
(* document filter and an optional L0 projection (evoke_page_query.c).     *)
(*                                                                         *)
(* The scoring loops differ in what they read and in what they may skip:   *)
(* blocks streamed in order with a block upper bound, blocks ordered by    *)
(* their bound, blocks of materialized runs, a dense term-at-a-time pass,  *)
(* and a document-at-a-time pass that overlays the L0 projection.  Each    *)
(* offers documents of a positive score to the bounded accumulator; what   *)
(* is then missing is completed with documents of no positive score in the *)
(* order of their birth.                                                   *)
(*                                                                         *)
(* A score contribution is an integer, 0 for no posting; the formulas that *)
(* compute it and their floating-point rounding are left out.  A cursor is *)
(* one posting run of one term.                                            *)
(***************************************************************************)
EXTENDS TopKAccumulator, FiniteSets, FiniteSetsExt

CONSTANTS
    N,              \* document slots of the manifest
    BlockSize,      \* documents of a score block (1 << block_shift)
    Cursors,        \* the posting runs of the query's terms: 1 .. n
    Neutral,        \* the cursors of kind LEXICAL_NEUTRAL
    Semantic,       \* the cursors of kind SEMANTIC_IMPACT
    Looseness,      \* what global length extrema add to a neutral bound
    Queries         \* the corpora and queries of the instance

(* A query: post[c][s] the contribution of cursor c to slot s; retired the *)
(* slots that are not live; born the tie-break key of each slot; filtered, *)
(* bitmap and allowed the filter; projected the slots of the L0 projection *)
(* with their live, shadows, born, add (0: no contribution) and lexical    *)
(* (the cursor whose term that contribution is a neutral posting of, or 0) *)
(* and l0 whether there is a projection; many: more than 8 terms; k.       *)
TopKAssumption ==
    /\ N \in Nat \ {0} /\ BlockSize \in Nat \ {0} /\ Looseness \in Nat
    /\ Cursors = 1 .. Cardinality(Cursors)
    /\ Neutral \subseteq Cursors /\ Semantic \subseteq Cursors \ Neutral

VARIABLES
    q,              \* the query, the corpus and the projection
    pc,             \* the loop that runs
    heap,           \* cleanup->accumulator
    pos,            \* block (or document) each cursor stands at, or End
    frequency,      \* live_document_frequency of each cursor's term
    ordered,        \* collected blocks of the ordered path
    scores,         \* dense scores of the term-at-a-time path
    counts,         \* blocks considered, scored and skipped
    seen,           \* projection_document_seen
    candidates,     \* zero-score candidates
    result,         \* doc_ids of the result
    status          \* evoke_status

vars == <<q, pc, heap, pos, frequency, ordered, scores, counts, seen,
          candidates, result, status>>

Slot == 0 .. N - 1
End == N
BlockIds == 0 .. (N - 1) \div BlockSize
BlockOf(s) == s \div BlockSize
SlotsOf(b) == {s \in Slot : BlockOf(s) = b}
InOrder(S) == SetToSortSeq(S, <)
Projected == DOMAIN q.projected

(* document_is_live, document_allowed, block_has_allowed_document. *)
IsLive(s) == s \notin q.retired
Allowed(d) == q.filtered => d \in q.allowed
BlockHasAllowed(b) ==
    (q.filtered /\ q.bitmap) => \E s \in SlotsOf(b) : s \in q.allowed

(* A visible L0 event replaced the slot's immutable version. *)
Shadowed(s) == s \in Projected /\ q.projected[s].shadows

RootAllowed(s) == Allowed(s) /\ ~Shadowed(s)

Item(score, d, key) == [score |-> score, key |-> key, doc |-> d]

(* offer_root, offer_projection. *)
OfferRoot(h, score, s) ==
    IF RootAllowed(s) THEN Offer(h, q.k, Item(score, s, q.born[s])) ELSE h
OfferProjection(h, score, d) ==
    IF Allowed(d) THEN Offer(h, q.k, Item(score, d, q.projected[d].born))
    ELSE h

BlocksOfCursor(c) == {BlockOf(s) : s \in {t \in Slot : q.post[c][t] # 0}}
SlotsOfCursor(c) == {s \in Slot : q.post[c][s] # 0}
OpenCursors == {c \in Cursors : SlotsOfCursor(c) # {}}
FirstOf(S) == IF S = {} THEN End ELSE Min(S)

(* reset_cursors and reset_block_cursors. *)
ResetCursors == [c \in Cursors |-> FirstOf(SlotsOfCursor(c))]
ResetBlockCursors == [c \in Cursors |-> FirstOf(BlocksOfCursor(c))]

(* cursor_advance and advance_block: the cursors that stand at x move on. *)
AdvanceCursors(x) ==
    [c \in Cursors |-> IF pos[c] # x THEN pos[c]
                       ELSE FirstOf({s \in SlotsOfCursor(c) : s > x})]
AdvanceBlock(b) ==
    [c \in Cursors |-> IF pos[c] # b THEN pos[c]
                       ELSE FirstOf({x \in BlocksOfCursor(c) : x > b})]

(* next_document and prepare_next_block_group. *)
Next_ == Min({pos[c] : c \in Cursors})
Group(x) == {c \in Cursors : pos[c] = x}

(* The sum of what the cursors of a set contribute to a slot. *)
Contribution(cs, s) == MapThenSumSet(LAMBDA c : q.post[c][s], cs)

(* count_live_frequencies for the lexical cursors, the projection's own    *)
(* documents included.                                                     *)
LiveFrequency(c) ==
    Cardinality({s \in SlotsOfCursor(c) : IsLive(s) /\ ~Shadowed(s)})
    + Cardinality({d \in Projected :
          q.projected[d].live /\ q.projected[d].lexical = c})

-----------------------------------------------------------------------------
(* block_upper_bound and evoke_posting_block_score_upper_bound: a run      *)
(* never bounds a block below zero; a neutral run of a term with no live   *)
(* document bounds it by zero; the extrema of the whole corpus bound a     *)
(* neutral run more loosely than those of the block.                       *)

CursorBound(c, b, global) ==
    IF c \in Neutral /\ frequency[c] = 0 THEN 0
    ELSE Max({0} \cup {q.post[c][s] : s \in SlotsOf(b)})
         + (IF c \in Neutral /\ global THEN Looseness ELSE 0)

(* Mutant: a run that only lowers a score is counted against the others. *)
CursorBoundUnclamped(c, b) ==
    Max({q.post[c][s] : s \in {t \in SlotsOf(b) : q.post[c][t] # 0}})

UpperBoundUnclamped(group, b, global) ==
    MapThenSumSet(LAMBDA c : CursorBoundUnclamped(c, b), group)

UpperBound(group, b, global) ==
    MapThenSumSet(LAMBDA c : CursorBound(c, b, global), group)

(* The skip test of every block loop. *)
CannotEnter(bound) == Full(heap, q.k) /\ bound < heap[1].score

-----------------------------------------------------------------------------
(* score_block.  A block with a neutral run loads its documents first and  *)
(* scores the live ones; a block of impact runs scores every posting and   *)
(* loads a document only once its score may enter.  A live document in a   *)
(* neutral run of frequency zero is a format error.                        *)

RequiresDocuments(group) == group \cap Neutral # {}

Touched(group, b) ==
    {s \in SlotsOf(b) : Allowed(s) /\ \E c \in group : q.post[c][s] # 0}

BlockError(group, b) ==
    \E s \in Touched(group, b), c \in group \cap Neutral :
        IsLive(s) /\ q.post[c][s] # 0 /\ frequency[c] = 0

ScoreSlot(h, group, s) ==
    LET score == IF RequiresDocuments(group) /\ ~IsLive(s) THEN 0
                 ELSE Contribution(group, s)
    IN IF \/ score <= 0
          \/ ~RequiresDocuments(group) /\ ~MayEnter(h, q.k, score)
          \/ ~IsLive(s)
       THEN h
       ELSE OfferRoot(h, score, s)

ScoreBlock(h, group, b) ==
    FoldLeft(LAMBDA g, s : ScoreSlot(g, group, s), h,
             InOrder(Touched(group, b)))

(* score_materialized_block: a posting of a retired document is an error. *)
MaterializedError(b) ==
    \E s \in SlotsOf(b), c \in Cursors :
        /\ q.post[c][s] # 0
        /\ ~IsLive(s) \/ (c \in Neutral /\ frequency[c] = 0)

MaterializedSlot(h, s) ==
    IF Contribution(Cursors, s) <= 0 THEN h
    ELSE OfferRoot(h, Contribution(Cursors, s), s)

-----------------------------------------------------------------------------
TypeOK ==
    /\ pc \in {"start", "stream", "collect", "ordered", "materialized",
               "terms", "scan", "documents", "remaining", "zero",
               "zeroblocks", "zeroprojected", "done"}
    /\ Len(heap) <= q.k
    /\ \A c \in Cursors : pos[c] \in 0 .. End
    /\ seen \subseteq Projected
    /\ Len(result) <= q.k
    /\ status \in {"OK", "ERR_FORMAT", "ERR_INVALID"}

Init ==
    /\ q \in Queries
    /\ pc = "start"
    /\ heap = <<>>
    /\ pos = [c \in Cursors |-> End]
    /\ frequency = [c \in Cursors |-> 0]
    /\ ordered = <<>>
    /\ scores = [s \in Slot |-> 0]
    /\ counts = [considered |-> 0, scored |-> 0, skipped |-> 0]
    /\ seen = {}
    /\ candidates = {}
    /\ result = <<>>
    /\ status = "OK"

Fail == status' = "ERR_FORMAT" /\ pc' = "done"

(* term_at_a_time_budget, materialization_budget, ordered_block_budget:    *)
(* what each loop requires besides memory for its tables, which it may be  *)
(* refused at any time.                                                    *)
TermAtATimeAllowed == q.many /\ q.retired = {}
Materializable == TermAtATimeAllowed /\ OpenCursors \cap Semantic = {}
Orderable == OpenCursors # {}

(* The loops the dispatch may choose. *)
Paths ==
    IF OpenCursors = {} THEN {"remaining"}
    ELSE IF q.l0 THEN {"documents"}
    ELSE IF q.filtered THEN {"stream"}
    ELSE {"stream"}
         \cup (IF Orderable THEN {"collect"} ELSE {})
         \cup (IF TermAtATimeAllowed THEN {"terms"} ELSE {})
         \cup (IF Materializable THEN {"materialized"} ELSE {})

VisibleCount ==
    Cardinality({s \in Slot : IsLive(s) /\ ~Shadowed(s)})
    + Cardinality({d \in Projected :
          q.projected[d].live /\ q.projected[d].shadows})

(* positive_topk_filtered up to its dispatch: more than is visible or      *)
(* allowed is refused, k = 0 answers at once, and the frequencies are      *)
(* counted and checked before a loop starts.                               *)
Start ==
    /\ pc = "start"
    /\ IF q.k > VisibleCount \/ (q.filtered /\ q.k > Cardinality(q.allowed))
       THEN /\ pc' = "done" /\ status' = "ERR_INVALID"
            /\ UNCHANGED <<pos, frequency>>
       ELSE IF q.k = 0
       THEN /\ pc' = "done"
            /\ UNCHANGED <<pos, frequency, status>>
       ELSE /\ frequency' = [c \in Cursors |-> LiveFrequency(c)]
            /\ \E p \in Paths :
                 /\ pc' = p
                 /\ pos' = IF p = "documents" THEN ResetCursors
                           ELSE ResetBlockCursors
            /\ UNCHANGED status
    /\ UNCHANGED <<q, heap, ordered, scores, counts, seen, candidates,
                   result>>

Balanced(c) == c.scored + c.skipped = c.considered

(* One group of score_positive_blocks. *)
StreamBlock ==
    /\ pc = "stream"
    /\ \E b \in {Next_} : \E group \in {Group(b)} :
        IF b = End
        THEN /\ IF Balanced(counts) THEN pc' = "remaining" /\ UNCHANGED status
                ELSE Fail
             /\ UNCHANGED <<heap, pos, counts>>
        ELSE LET skip == \/ ~BlockHasAllowed(b)
                         \/ CannotEnter(UpperBound(group, b, FALSE))
             IN /\ counts' = [counts EXCEPT !.considered = @ + 1,
                                 !.skipped = @ + (IF skip THEN 1 ELSE 0),
                                 !.scored = @ + (IF skip THEN 0 ELSE 1)]
                /\ IF ~skip /\ BlockError(group, b)
                   THEN Fail /\ UNCHANGED <<heap, pos>>
                   ELSE /\ heap' = IF skip THEN heap
                                   ELSE ScoreBlock(heap, group, b)
                        /\ pos' = AdvanceBlock(b)
                        /\ UNCHANGED <<pc, status>>
    /\ UNCHANGED <<q, frequency, ordered, scores, seen, candidates, result>>

(* One group collected by try_score_ordered_blocks, under global extrema;  *)
(* the collected blocks are sorted when no group is left.                  *)
OrderedBefore(x, y) ==
    \/ x.bound > y.bound
    \/ x.bound = y.bound /\ x.block < y.block

CollectBlock ==
    /\ pc = "collect"
    /\ \E b \in {Next_} : \E group \in {Group(b)} :
        IF b = End
        THEN /\ IF ordered = <<>> THEN Fail /\ UNCHANGED <<ordered, counts>>
                ELSE /\ ordered' = SortSeq(ordered, OrderedBefore)
                     /\ counts' = [counts EXCEPT !.considered = Len(ordered)]
                     /\ pc' = "ordered"
                     /\ UNCHANGED status
             /\ UNCHANGED pos
        ELSE /\ ordered' = Append(ordered,
                    [block |-> b, group |-> group,
                     bound |-> UpperBound(group, b, TRUE)])
             /\ pos' = AdvanceBlock(b)
             /\ UNCHANGED <<pc, counts, status>>
    /\ UNCHANGED <<q, heap, frequency, scores, seen, candidates, result>>

(* The loop over the sorted blocks stops at the first whose global bound   *)
(* cannot enter.                                                           *)
BoundEnds(x) == CannotEnter(x.bound)

(* A full accumulator first refines the bound with the block's own extrema *)
(* and may skip the block; every block not scored counts as skipped.       *)
OrderedBlock ==
    /\ pc = "ordered"
    /\ IF ordered = <<>> \/ BoundEnds(Head(ordered))
       THEN \E c \in {[counts EXCEPT !.skipped = @ + Len(ordered)]} :
              /\ counts' = c
              /\ IF Balanced(c) THEN pc' = "remaining" /\ UNCHANGED status
                 ELSE Fail
              /\ ordered' = <<>>
              /\ UNCHANGED heap
       ELSE \E x \in {Head(ordered)} :
              /\ ordered' = Tail(ordered)
              /\ IF /\ OpenCursors \cap Neutral # {}
                    /\ CannotEnter(UpperBound(x.group, x.block, FALSE))
                 THEN /\ counts' = [counts EXCEPT !.skipped = @ + 1]
                      /\ UNCHANGED <<pc, heap, status>>
                 ELSE IF BlockError(x.group, x.block)
                 THEN Fail /\ UNCHANGED <<heap, counts>>
                 ELSE /\ heap' = ScoreBlock(heap, x.group, x.block)
                      /\ counts' = [counts EXCEPT !.scored = @ + 1]
                      /\ UNCHANGED <<pc, status>>
    /\ UNCHANGED <<q, pos, frequency, scores, seen, candidates, result>>

(* One distinct block of try_materialized_scoring. *)
MaterializedBlock ==
    /\ pc = "materialized"
    /\ \E b \in {Next_} :
        IF b = End
        THEN pc' = "remaining" /\ UNCHANGED <<heap, pos, counts, status>>
        ELSE IF MaterializedError(b)
        THEN Fail /\ UNCHANGED <<heap, pos, counts>>
        ELSE /\ heap' = FoldLeft(MaterializedSlot, heap,
                                 InOrder(Touched(Group(b), b)))
             /\ counts' = [counts EXCEPT !.considered = @ + 1, !.scored = @ + 1]
             /\ pos' = AdvanceBlock(b)
             /\ UNCHANGED <<pc, status>>
    /\ UNCHANGED <<q, frequency, ordered, scores, seen, candidates, result>>

(* One run of score_term_at_a_time added to the dense scores. *)
TermAtATime ==
    /\ pc = "terms"
    /\ \E c \in Cursors :
        /\ pos[c] # End /\ \A e \in Cursors : e < c => pos[e] = End
        /\ IF c \in Neutral /\ frequency[c] = 0
           THEN Fail /\ UNCHANGED <<pos, scores>>
           ELSE /\ scores' = [s \in Slot |-> scores[s] + q.post[c][s]]
                /\ pos' = [pos EXCEPT ![c] = End]
                /\ pc' = IF \A e \in Cursors : pos'[e] = End THEN "scan"
                         ELSE pc
                /\ UNCHANGED status
    /\ UNCHANGED <<q, heap, frequency, ordered, counts, seen, candidates,
                   result>>

ScanSlot(h, s) ==
    IF scores[s] <= 0 \/ ~MayEnter(h, q.k, scores[s]) \/ ~IsLive(s) THEN h
    ELSE OfferRoot(h, scores[s], s)

(* The blocks of the dense scores, those with a competitive score read. *)
ScanBlocks ==
    /\ pc = "scan"
    /\ heap' = FoldLeft(ScanSlot, heap, InOrder(Slot))
    /\ pc' = "remaining"
    /\ UNCHANGED <<q, pos, frequency, ordered, scores, counts, seen,
                   candidates, result, status>>

(* The projected document whose contributions were overlaid is done. *)
OverlaySeen(d, overlay) == IF overlay THEN seen \cup {d} ELSE seen

(* One document of score_positive_documents: the cursors that stand at it  *)
(* and, for a live document the projection only adds to, its L0            *)
(* contributions.                                                          *)
ScoreDocument ==
    /\ pc = "documents"
    /\ \E d \in {Next_} :
        IF d = End
        THEN pc' = "remaining" /\ UNCHANGED <<heap, pos, seen, status>>
        ELSE LET live == IsLive(d) /\ ~Shadowed(d)
                 overlay == /\ live /\ d \in Projected
                            /\ q.projected[d].live /\ q.projected[d].add # 0
                 score == Contribution(Group(d), d)
                          + (IF overlay THEN q.projected[d].add ELSE 0)
             IN IF live /\ \E c \in Group(d) \cap Neutral : frequency[c] = 0
                THEN Fail /\ UNCHANGED <<heap, pos, seen>>
                ELSE /\ seen' = OverlaySeen(d, overlay)
                     /\ heap' = IF live /\ score > 0
                                THEN OfferRoot(heap, score, d) ELSE heap
                     /\ pos' = AdvanceCursors(d)
                     /\ UNCHANGED <<pc, status>>
    /\ UNCHANGED <<q, frequency, ordered, scores, counts, candidates, result>>

(* score_remaining_l0_documents: the projected documents not yet seen. *)
RemainingSlot(h, d) ==
    IF q.projected[d].add <= 0 THEN h
    ELSE OfferProjection(h, q.projected[d].add, d)

ScoreRemaining ==
    /\ pc = "remaining"
    /\ \E rest \in {{d \in Projected \ seen :
                        q.projected[d].live /\ q.projected[d].add # 0}} :
        /\ seen' = seen \cup rest
        /\ \E h \in {FoldLeft(RemainingSlot, heap, InOrder(rest))} :
            /\ heap' = h
            /\ result' = [i \in 1 .. Len(h) |-> Finish(h)[i].doc]
            /\ pc' = IF Len(h) = q.k THEN "done" ELSE "zero"
    /\ UNCHANGED <<q, pos, frequency, ordered, scores, counts, candidates,
                   status>>

-----------------------------------------------------------------------------
(* Zero completion. *)

Candidate(d, key) == [key |-> key, doc |-> d]

(* cmp_zero_candidate. *)
Precedes(x, y) == x.key < y.key \/ (x.key = y.key /\ x.doc < y.doc)

FirstCandidates(S, n) ==
    {x \in S : Cardinality({y \in S : Precedes(y, x)}) < n}

InResult(d) == \E i \in 1 .. Len(result) : result[i] = d
Needed == q.k - Len(result)
RootCandidate(s) == Candidate(s, q.born[s])

(* keep_bounded_zero_candidate. *)
KeepBounded(S, n, x) ==
    IF Cardinality(S) < n THEN S \cup {x}
    ELSE LET worst == CHOOSE y \in S : \A z \in S : z = y \/ Precedes(z, y)
         IN IF n > 0 /\ Precedes(x, worst) THEN (S \ {worst}) \cup {x} ELSE S

(* Live projected documents that own their slot's visible version. *)
ProjectedCandidates ==
    {Candidate(d, q.projected[d].born) :
        d \in {e \in Projected : /\ q.projected[e].live
                                 /\ q.projected[e].shadows
                                 /\ Allowed(e) /\ ~InResult(e)}}

RootMatches(s) ==
    IsLive(s) /\ Allowed(s) /\ ~InResult(s) /\ ~Shadowed(s)

(* The born prefix covers the documents already in the result and those    *)
(* the projection replaced.                                                *)
PrefixLimit ==
    Min({Needed + Len(result) + Cardinality(Projected),
         N - Cardinality(q.retired)})

Completed(S) ==
    LET order == SetToSortSeq(S, Precedes)
        full == result \o [i \in 1 .. Min({Needed, Len(order)}) |->
                              order[i].doc]
    IN /\ result' = full
       /\ pc' = "done"
       /\ status' = IF Len(full) = q.k THEN "OK" ELSE "ERR_FORMAT"

(* complete_zero_scores without a filter. *)
CompleteZero ==
    /\ pc = "zero" /\ ~q.filtered
    /\ \E prefix \in {FirstCandidates(
            {RootCandidate(s) : s \in {t \in Slot : IsLive(t)}},
            PrefixLimit)} :
        /\ candidates' = {x \in prefix : ~Shadowed(x.doc) /\ ~InResult(x.doc)}
                         \cup ProjectedCandidates
        /\ Completed(candidates')
    /\ UNCHANGED <<q, heap, pos, frequency, ordered, scores, counts, seen>>

(* filtered_zero_block_scan_is_lower: the block scan is taken only when a  *)
(* bitmap bounds its work and enough eligible documents are left.          *)
EligibleBlock(b) ==
    /\ BlockHasAllowed(b)
    /\ \E s \in SlotsOf(b) : Allowed(s) /\ ~InResult(s) /\ ~Shadowed(s)

BlockScanIsLower ==
    LET eligible == Cardinality(q.allowed) - Len(result)
        direct == Cardinality({s \in Slot : EligibleBlock(BlockOf(s))})
    IN /\ q.bitmap /\ eligible >= Needed /\ eligible > 0
       /\ direct < (Needed * N + eligible - 1) \div eligible

(* complete_filtered_zero_scores by the matching born prefix ... *)
CompleteZeroByPrefix ==
    /\ pc = "zero" /\ q.filtered /\ ~BlockScanIsLower
    /\ candidates' = FirstCandidates(
            {RootCandidate(s) : s \in {t \in Slot : RootMatches(t)}}, Needed)
    /\ pc' = "zeroprojected"
    /\ UNCHANGED <<q, heap, pos, frequency, ordered, scores, counts, seen,
                   result, status>>

(* ... or by one block after the other, keeping the best so far. *)
StartZeroBlocks ==
    /\ pc = "zero" /\ q.filtered /\ BlockScanIsLower
    /\ pc' = "zeroblocks"
    /\ pos' = [c \in Cursors |-> 0]
    /\ UNCHANGED <<q, heap, frequency, ordered, scores, counts, seen,
                   candidates, result, status>>

ZeroBlock ==
    /\ pc = "zeroblocks"
    /\ \E b \in {pos[1]} :
        IF b \notin BlockIds
        THEN pc' = "zeroprojected" /\ UNCHANGED <<pos, candidates>>
        ELSE /\ candidates' =
                    IF EligibleBlock(b)
                    THEN FoldLeft(LAMBDA S, s : KeepBounded(S, Needed,
                                                            RootCandidate(s)),
                                  candidates,
                                  InOrder({s \in SlotsOf(b) : RootMatches(s)}))
                    ELSE candidates
             /\ pos' = [pos EXCEPT ![1] = b + 1]
             /\ UNCHANGED pc
    /\ UNCHANGED <<q, heap, frequency, ordered, scores, counts, seen,
                   result, status>>

(* The projected candidates, as many as needed again, and the final sort. *)
CompleteZeroProjected ==
    /\ pc = "zeroprojected"
    /\ candidates' = candidates
                     \cup FirstCandidates(ProjectedCandidates, Needed)
    /\ Completed(candidates')
    /\ UNCHANGED <<q, heap, pos, frequency, ordered, scores, counts, seen>>

Next ==
    \/ Start \/ StreamBlock \/ CollectBlock \/ OrderedBlock
    \/ MaterializedBlock \/ TermAtATime \/ ScanBlocks
    \/ ScoreDocument \/ ScoreRemaining
    \/ CompleteZero \/ CompleteZeroByPrefix
    \/ StartZeroBlocks \/ ZeroBlock \/ CompleteZeroProjected

Spec == Init /\ [][Next]_vars

-----------------------------------------------------------------------------
(* The reference: the documents the query may return, the score of each,   *)
(* and the order a user sees.                                              *)

VisibleDocuments ==
    {s \in Slot : RootAllowed(s) /\ IsLive(s)}
    \cup {d \in Projected : q.projected[d].live /\ q.projected[d].shadows
                            /\ Allowed(d)}

Score(d) ==
    (IF d \in Slot /\ ~Shadowed(d) THEN Contribution(Cursors, d) ELSE 0)
    + (IF d \in Projected THEN q.projected[d].add ELSE 0)

Key(d) == IF Shadowed(d) THEN q.projected[d].born ELSE q.born[d]

(* Documents of no positive score rank as equals below the others. *)
Ranked == SetToSortSeq({Item(Max({0, Score(d)}), d, Key(d)) :
                            d \in VisibleDocuments}, Better)

TopK == [i \in 1 .. q.k |-> Ranked[i].doc]

(* Whatever loop the dispatch chose and whatever it skipped, a finished    *)
(* query returns exactly the k best visible and allowed documents, ties in *)
(* the order of their persisted keys.                                      *)
ExactTopK == pc = "done" /\ status = "OK" => result = TopK

(* A well-formed query is never refused as a format error: every block is  *)
(* either scored or skipped, no loop meets a live posting of frequency     *)
(* zero, and completion always finds enough candidates.                    *)
NeverFormatError == status # "ERR_FORMAT"

(* The root of the accumulator is its worst item, so that comparing a      *)
(* bound with it alone is safe.                                            *)
HeapRootWorst ==
    \A i \in 2 .. Len(heap) : Better(heap[i], heap[1])

(* A loop never offers one document twice, whether from the runs and the   *)
(* projection both or from two blocks.                                     *)
OfferedOnce ==
    \A i, j \in 1 .. Len(heap) : heap[i].doc = heap[j].doc => i = j

=============================================================================
