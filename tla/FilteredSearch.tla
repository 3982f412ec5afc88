--------------------------- MODULE FilteredSearch ---------------------------
(***************************************************************************)
(* A page-native semantic search under a structured filter: the snapshot   *)
(* of the statement, the read root it searches, the published accelerator  *)
(* baseline with its scope postings and TID lookup, the route the query    *)
(* takes through them, the ranking loop and the heap check of its results. *)
(*                                                                         *)
(* The heap is a map from the TID an index entry points to (the root of a  *)
(* HOT chain) to the row there; a HOT update moves the row's visible ctid. *)
(* Documents are the sealed records of the manifest, L0 events shadow them *)
(* until the seal.  Only committed L0 records are projected, so aborted    *)
(* writers do not appear here.  A document's score is 0 (no posting for    *)
(* the query) or positive; ties break on the slot, and documents without a *)
(* posting follow in birth order.                                          *)
(***************************************************************************)
EXTENDS Integers, FiniteSets, Sequences, SequencesExt, FiniteSetsExt

CONSTANTS
    Tids,            \* heap addresses an index entry may hold
    Scores,          \* scores a document may have
    Features,        \* what else happens: "hot", "vacuum", "reuse", "publish"
    Filter,          \* "none", "included", "plain" or "mixed"
    K,               \* rows the query asks for
    MaxSlots,        \* bound: document slots
    MaxSequence,     \* bound: sequences assigned
    OverfetchFloor,  \* EVOKE_PAGE_QUERY_ACCELERATOR_STALE_OVERFETCH_FLOOR
    OverfetchMax,    \* EVOKE_PAGE_QUERY_ACCELERATOR_STALE_OVERFETCH_MAX
    Multiplier,      \* EVOKE_AM_STRUCTURED_SCOPE_OVERFETCH_MULTIPLIER
    RankBump,        \* the 64 of evoke_am_next_visibility_rank_limit
    ResolveMaxRows,  \* EVOKE_AM_FILTER_RESOLVE_MAX_ROWS
    PrefixMinK,      \* EVOKE_AM_FILTER_PREFIX_MIN_K, half of FIRST_MAX_K
    PrefixMaxK,      \* EVOKE_AM_FILTER_PREFIX_MAX_K
    PrefixCorpus     \* documents from which a ranked prefix pays

SearchAssumption ==
    /\ IsFiniteSet(Tids)
    /\ Scores \subseteq Nat
    /\ Features \subseteq {"hot", "vacuum", "reuse", "publish"}
    /\ Filter \in {"none", "included", "plain", "mixed"}
    /\ {K, MaxSlots, MaxSequence, Multiplier, RankBump, PrefixMinK}
         \subseteq Nat \ {0}

VARIABLES
    heap,       \* TID -> row: HOT-updated?, deleted?, match, score
    documents,  \* slot -> sealed document record
    l0,         \* slot -> L0 event that shadows it
    sequence,   \* last sequence assigned
    sealed,     \* max_sequence of the manifest
    baseline,   \* published accelerator: sequence, documents; or NoBaseline
    query       \* the statement: phase, snapshot, root, answer

vars == <<heap, documents, l0, sequence, sealed, baseline, query>>

NoBaseline == [sequence |-> 0, slots |-> [s \in {} |-> 0]]

Row(match, score) ==
    [hot |-> FALSE, deleted |-> FALSE, match |-> match, score |-> score]

\* A document holds the columns the index holds: "plain" predicates are not
\* about them.
Document(t, b, match, score) ==
    [tid |-> t, born |-> b, retired |-> FALSE, score |-> score,
     match |-> match /\ Filter = "included"]
Retire(d) == [d EXCEPT !.retired = TRUE]

Idle == [phase |-> "idle"]
Put(f, x, v) == [y \in DOMAIN f \cup {x} |-> IF y = x THEN v ELSE f[y]]

Init ==
    /\ heap = [t \in {} |-> 0]
    /\ documents = [s \in {} |-> 0]
    /\ l0 = [s \in {} |-> 0]
    /\ sequence = 0
    /\ sealed = 0
    /\ baseline = NoBaseline
    /\ query = Idle

-----------------------------------------------------------------------------
(* The heap and the index between queries.                                 *)

NextSlot == Cardinality(DOMAIN documents \cup DOMAIN l0)

\* A slot for a new document: past the last, or one whose document retired.
FreeSlots ==
    (IF NextSlot < MaxSlots THEN {NextSlot} ELSE {})
    \cup (IF "reuse" \in Features
          THEN {s \in DOMAIN documents : documents[s].retired /\ s \notin DOMAIN l0}
          ELSE {})

Insert(t, match, score) ==
    /\ t \notin DOMAIN heap
    /\ sequence < MaxSequence
    /\ \E s \in FreeSlots :
         l0' = Put(l0, s, Document(t, sequence + 1, match, score))
    /\ heap' = Put(heap, t, Row(match, score))
    /\ sequence' = sequence + 1
    /\ UNCHANGED <<documents, sealed, baseline, query>>

Delete(t) ==
    /\ ~heap[t].deleted
    /\ heap' = [heap EXCEPT ![t].deleted = TRUE]
    /\ UNCHANGED <<documents, l0, sequence, sealed, baseline, query>>

\* An update of columns the index does not hold: the index entry stays.
HotUpdate(t) ==
    /\ "hot" \in Features
    /\ ~heap[t].deleted /\ ~heap[t].hot
    /\ heap' = [heap EXCEPT ![t].hot = TRUE,
                            ![t].match = IF Filter = "included" THEN @ ELSE ~@]
    /\ UNCHANGED <<documents, l0, sequence, sealed, baseline, query>>

Seal ==
    /\ DOMAIN l0 # {}
    /\ documents' = [s \in DOMAIN documents \cup DOMAIN l0 |->
                       IF s \in DOMAIN l0 THEN l0[s] ELSE documents[s]]
    /\ l0' = [s \in {} |-> 0]
    /\ sealed' = sequence
    /\ UNCHANGED <<heap, sequence, baseline, query>>

LiveSealed(d) == {s \in DOMAIN d : ~d[s].retired}

\* The accelerator is built from the sealed documents of the manifest.
PublishBaseline ==
    /\ "publish" \in Features
    /\ LiveSealed(documents) # {}
    /\ baseline' = [sequence |-> sealed,
                    slots |-> [s \in LiveSealed(documents) |-> documents[s]]]
    /\ baseline' # baseline
    /\ UNCHANGED <<heap, documents, l0, sequence, sealed, query>>

\* Rows the running statement may still see are not removed.
Needed == IF query.phase = "idle" THEN {} ELSE DOMAIN query.snapshot

\* VACUUM of sealed documents: one L0 record reserves the sequence, every
\* document of the batch is retired by a patch of the manifest, and the heap
\* addresses become free.
Vacuum(batch) ==
    LET slots == {s \in LiveSealed(documents) : documents[s].tid \in batch}
    IN  /\ "vacuum" \in Features
        /\ batch # {}
        /\ \A t \in batch : heap[t].deleted /\ t \notin Needed
        /\ Cardinality(slots) = Cardinality(batch)
        /\ slots \cap DOMAIN l0 = {}
        /\ sequence < MaxSequence
        /\ documents' = [s \in DOMAIN documents |->
                           IF s \in slots THEN Retire(documents[s])
                                          ELSE documents[s]]
        /\ l0' = Put(l0, Min(slots), Retire(documents[Min(slots)]))
        /\ sequence' = sequence + 1
        /\ heap' = [t \in DOMAIN heap \ batch |-> heap[t]]
        /\ UNCHANGED <<sealed, baseline, query>>

-----------------------------------------------------------------------------
(* What a query sees of a root r = [documents, l0, sealed, baseline].      *)

Live(r) ==
    {s \in LiveSealed(r.documents) : s \notin DOMAIN r.l0}
    \cup {s \in DOMAIN r.l0 : ~r.l0[s].retired}

\* The record a slot shows: its L0 event if it has one.
Current(r, s) == IF s \in DOMAIN r.l0 THEN r.l0[s] ELSE r.documents[s]

AcceleratorIsCurrent(r) ==
    /\ DOMAIN r.l0 = {}
    /\ r.baseline.sequence = r.sealed

\* evoke_page_query_stale_accelerator_k
StaleAcceleratorK(r, k) ==
    LET changed == Cardinality(DOMAIN r.l0)
                   + Cardinality({s \in DOMAIN r.documents :
                                    r.documents[s].born > r.baseline.sequence})
        limit == Min({Max({k, OverfetchFloor}), OverfetchMax})
    IN  Min({k + Min({changed, limit}), Cardinality(DOMAIN r.documents)})

FirstOf(seq, n) == SubSeq(seq, 1, Min({n, Len(seq)}))

\* Positive documents in rank order: higher score first, then lower slot.
RankPositive(docs, slots) ==
    SetToSortSeq({s \in slots : docs[s].score > 0},
                 LAMBDA a, b : \/ docs[a].score > docs[b].score
                               \/ docs[a].score = docs[b].score /\ a < b)

\* evoke_page_query_filter_accelerator_baseline: what is still the document
\* the baseline scored.
StillBaseline(r, s) ==
    /\ s \notin DOMAIN r.l0
    /\ ~r.documents[s].retired
    /\ r.documents[s].born <= r.baseline.sequence

PositiveTopK(r, allowed, k) ==
    IF r.baseline = NoBaseline
    THEN FirstOf(RankPositive([s \in Live(r) |-> Current(r, s)],
                              Live(r) \cap allowed), k)
    ELSE IF AcceleratorIsCurrent(r)
    THEN FirstOf(RankPositive(r.baseline.slots,
                              DOMAIN r.baseline.slots \cap allowed), k)
    ELSE FirstOf(SelectSeq(
             FirstOf(RankPositive(r.baseline.slots,
                                  DOMAIN r.baseline.slots \cap allowed),
                     StaleAcceleratorK(r, k)),
             LAMBDA s : StillBaseline(r, s)), k)

\* evoke_page_query_complete_zero_scores and its filtered form
ZeroOrder(r, slots) ==
    SetToSortSeq(slots, LAMBDA a, b :
        \/ Current(r, a).born < Current(r, b).born
        \/ Current(r, a).born = Current(r, b).born /\ a < b)

Error == <<-1>>

TopKFiltered(r, allowed, k) ==
    LET positive == PositiveTopK(r, allowed, k)
        rest == (Live(r) \cap allowed) \ ToSet(positive)
        result == positive \o FirstOf(ZeroOrder(r, rest), k - Len(positive))
    IN  IF Len(result) = k THEN result ELSE Error

-----------------------------------------------------------------------------
(* Resolution of the filter to slots.                                      *)

\* A row version's own address: the index entry's, or the one behind it on
\* the HOT chain.
TidKey(t, hot) == <<t, hot>>

\* evoke_am_document_record_tid on a sealed record, looked up in the keys
RecordTidIn(r, s, keys) ==
    ~r.documents[s].retired /\ TidKey(r.documents[s].tid, FALSE) \in keys

LookupBaselineStale(r) ==
    r.baseline.sequence > 0 /\ r.baseline.sequence < r.sealed

\* evoke_am_tid_filter_mark_immutable_slot
MarksImmutable(r, s, keys) ==
    /\ s \notin DOMAIN r.l0
    /\ LookupBaselineStale(r) => RecordTidIn(r, s, keys)

\* Mutant: rows that are only in L0 are not resolved.
ResolveTidFilterSealed(r, keys) ==
    IF r.baseline # NoBaseline
    THEN {s \in DOMAIN r.baseline.slots :
            TidKey(r.baseline.slots[s].tid, FALSE) \in keys
            /\ MarksImmutable(r, s, keys)}
    ELSE {s \in DOMAIN r.documents \ DOMAIN r.l0 : RecordTidIn(r, s, keys)}

\* evoke_am_resolve_page_native_tid_filter: the baseline's lookup where there
\* is one, all sealed records otherwise, and the documents of the projection.
ResolveTidFilter(r, keys) ==
    (IF r.baseline # NoBaseline
     THEN {s \in DOMAIN r.baseline.slots :
             TidKey(r.baseline.slots[s].tid, FALSE) \in keys
             /\ MarksImmutable(r, s, keys)}
     ELSE {s \in DOMAIN r.documents \ DOMAIN r.l0 : RecordTidIn(r, s, keys)})
    \cup {s \in DOMAIN r.l0 : ~r.l0[s].retired
                                /\ TidKey(r.l0[s].tid, FALSE) \in keys}

-----------------------------------------------------------------------------
(* The ranking loop.                                                       *)

\* evoke_am_resolve_page_native_ranked_tids and evoke_am_tid_visible_as
VisibleSlot(r, snapshot, s) ==
    /\ ~Current(r, s).retired
    /\ Current(r, s).tid \in DOMAIN snapshot

NextRankLimit(current, wanted, max) ==
    LET bump == Max({wanted, RankBump})
        doubled == IF current > max \div 2 THEN max ELSE current * 2
        bumped == IF max - current < bump THEN max ELSE current + bump
    IN  IF current >= max THEN max ELSE Min({Max({doubled, bumped}), max})

RECURSIVE RankUntilVisible(_, _, _, _, _, _)
RankUntilVisible(r, snapshot, allowed, wanted, limit, max) ==
    LET ranked == TopKFiltered(r, allowed, limit)
        visible == SelectSeq(ranked, LAMBDA s : VisibleSlot(r, snapshot, s))
        next == NextRankLimit(limit, wanted, max)
    IN  IF ranked = Error THEN Error
        ELSE IF Len(visible) >= wanted \/ limit >= max \/ next = limit
        THEN FirstOf(visible, wanted)
        ELSE RankUntilVisible(r, snapshot, allowed, wanted, next, max)

\* evoke_am_prepare_page_native_filtered_search_state_at_root
Search(r, snapshot, allowed, count, k) ==
    LET max == Min({count, Cardinality(Live(r))})
        wanted == Min({k, max})
    IN  IF wanted = 0 THEN <<>>
        ELSE RankUntilVisible(r, snapshot, allowed, wanted, wanted, max)

AllSlots(r) == DOMAIN r.documents \cup DOMAIN r.l0

Unfiltered(r, snapshot, k) ==
    Search(r, snapshot, AllSlots(r), Cardinality(AllSlots(r)), k)

-----------------------------------------------------------------------------
(* The routes of evoke_index_semantic_query_native_internal.               *)

\* The statement's rows that satisfy the predicate, by their visible ctid:
\* evoke_filter_collect_tid_keys, or the ctids the caller passes.
MatchingKeys(snapshot) ==
    {TidKey(t, snapshot[t].hot) : t \in {u \in DOMAIN snapshot : snapshot[u].match}}

\* evoke_filter_match_tid_candidates: the predicate on the rows found.
MatchingRows(r, snapshot, slots) ==
    SelectSeq(slots, LAMBDA s : snapshot[Current(r, s).tid].match)

Checked(r, snapshot, slots, k) ==
    IF slots = Error THEN Error
    ELSE FirstOf(MatchingRows(r, snapshot, slots), k)

ScopeSlots(r) ==
    {s \in DOMAIN r.baseline.slots : r.baseline.slots[s].match}

\* evoke_am_try_structured_scope_filter
ScopeRoute(r, snapshot, k) ==
    LET scope == ScopeSlots(r)
        candidates == Min({Multiplier * k, Cardinality(scope)})
    IN  IF candidates = 0 THEN <<>>
        ELSE Checked(r, snapshot,
                     Search(r, snapshot, scope, Cardinality(scope), candidates),
                     k)

\* Mutant: every key is taken to have a document.
TidRouteByKeys(r, snapshot, k) ==
    LET keys == MatchingKeys(snapshot)
    IN  Search(r, snapshot, ResolveTidFilter(r, keys), Cardinality(keys), k)

TidRoute(r, snapshot, k) ==
    LET keys == MatchingKeys(snapshot)
        allowed == ResolveTidFilter(r, keys)
    IN  Search(r, snapshot, allowed, Cardinality(allowed),
               Min({k, Cardinality(keys)}))

\* evoke_am_try_structured_filter_prefix: rank a prefix of all documents and
\* keep its matching rows if there are k of them; otherwise a deeper prefix, as
\* long as the matches so far say that it will do (evoke_am_filter_prefix_-
\* next_probe, for range predicates, which "plain" stands for), and at last
\* the resolution of all matching rows.  Every probe reads its own root, and
\* the answer comes from the last of them: it is the root of the step.
FirstProbe(k) == IF PrefixMinK >= 4 * k THEN PrefixMinK ELSE 2 * PrefixMinK

PowerOfTwoFrom(n) == Min({2 ^ i : i \in {j \in 0 .. n : 2 ^ j >= n}})

NextProbe(probe, matched, k) ==
    IF matched = 0 \/ matched >= k THEN 0
    ELSE LET required == (k * probe + matched - 1) \div matched
         IN  IF required > PrefixMaxK \/ PowerOfTwoFrom(required) <= probe
                \/ PowerOfTwoFrom(required) > PrefixMaxK
             THEN 0 ELSE PowerOfTwoFrom(required)

RECURSIVE PrefixRoute(_, _, _, _)
PrefixRoute(r, snapshot, probe, k) ==
    LET ranked == Unfiltered(r, snapshot, probe)
        found == Checked(r, snapshot, ranked, k)
    IN  IF found = Error THEN Error
        ELSE IF Len(found) >= k THEN found
        ELSE IF NextProbe(probe, Len(found), k) > 0
        THEN PrefixRoute(r, snapshot, NextProbe(probe, Len(found), k), k)
        ELSE TidRoute(r, snapshot, k)

ScopeResolves(r) == Filter = "included" /\ r.baseline # NoBaseline
ScopeResolvesPart(r) == Filter = "mixed" /\ r.baseline # NoBaseline

Route(r, snapshot) ==
    CASE Filter = "none" -> "all"
      [] ScopeResolves(r) -> "scope"
      [] /\ Filter # "none" /\ ~ScopeResolves(r) /\ ~ScopeResolvesPart(r)
         /\ Cardinality(MatchingKeys(snapshot)) > ResolveMaxRows
         /\ Cardinality(AllSlots(r)) > PrefixCorpus
         /\ K <= PrefixMaxK -> "prefix"
      [] OTHER -> "tid"

Answer(r, snapshot, route) ==
    CASE route = "all" -> Unfiltered(r, snapshot, K)
      [] route = "scope" -> ScopeRoute(r, snapshot, K)
      [] route = "prefix" -> PrefixRoute(r, snapshot, FirstProbe(K), K)
      [] OTHER -> TidRoute(r, snapshot, K)

\* The statement takes its snapshot.
Begin ==
    /\ query.phase = "idle"
    /\ query' = [phase |-> "snapshot",
                 snapshot |-> [t \in {u \in DOMAIN heap : ~heap[u].deleted} |->
                                 heap[t]]]
    /\ UNCHANGED <<heap, documents, l0, sequence, sealed, baseline>>

Root == [documents |-> documents, l0 |-> l0, sealed |-> sealed,
         baseline |-> baseline]

\* It reads the meta page, and searches that root whatever is published next.
Run ==
    /\ query.phase = "snapshot"
    /\ \E route \in {Route(Root, query.snapshot)} :
         query' = [phase |-> "done", snapshot |-> query.snapshot, root |-> Root,
                   route |-> route,
                   answer |-> Answer(Root, query.snapshot, route)]
    /\ UNCHANGED <<heap, documents, l0, sequence, sealed, baseline>>

Next ==
    \/ Begin
    \/ Run
    \/ /\ query.phase # "done"
       /\ \/ \E t \in Tids, m \in BOOLEAN, c \in Scores : Insert(t, m, c)
          \/ \E t \in DOMAIN heap : Delete(t) \/ HotUpdate(t)
          \/ Seal
          \/ PublishBaseline
          \/ \E batch \in SUBSET DOMAIN heap : Vacuum(batch)

Spec == Init /\ [][Next]_vars

-----------------------------------------------------------------------------
(* Properties.                                                             *)

Records(slots) ==
    [tid : Tids, born : 1 .. MaxSequence, retired : BOOLEAN, match : BOOLEAN,
     score : Scores]

TypeOK ==
    /\ DOMAIN heap \subseteq Tids
    /\ DOMAIN documents \cup DOMAIN l0 = 0 .. NextSlot - 1
    /\ NextSlot <= MaxSlots
    /\ \A s \in DOMAIN documents : documents[s] \in Records({s})
    /\ \A s \in DOMAIN l0 : l0[s] \in Records({s})
    /\ baseline.sequence <= sealed /\ sealed <= sequence
    /\ query.phase \in {"idle", "snapshot", "done"}

Done == query.phase = "done"
Found == IF Done THEN query.answer ELSE <<>>
FoundTid(i) == Current(query.root, query.answer[i]).tid
MatchedRows ==
    {t \in DOMAIN query.snapshot : Filter = "none" \/ query.snapshot[t].match}

\* No route fails: what the filter allows and the ranking still finds agree
\* on how many documents there are, whatever was retired since the baseline.
QuerySucceeds == Done => query.answer # Error

\* Every returned row is visible to the statement's snapshot and satisfies
\* its predicate there, and none is returned twice, whatever was sealed,
\* retired, moved to another slot or published since the baseline.
ResultsCurrent ==
    (Done /\ query.answer # Error) =>
        /\ \A i \in 1 .. Len(Found) : FoundTid(i) \in MatchedRows
        /\ \A i, j \in 1 .. Len(Found) : i # j => FoundTid(i) # FoundTid(j)

\* The documents of the rows the query should find that its root serves: all
\* of them without a baseline, those of the baseline and of L0 otherwise.
Served(r, t) ==
    \E s \in Live(r) :
        /\ Current(r, s).tid = t
        /\ \/ r.baseline = NoBaseline \/ Filter = "none"
           \/ s \in DOMAIN r.l0
           \/ s \in DOMAIN r.baseline.slots /\ StillBaseline(r, s)

\* The routes that resolve rows by TID, rank a prefix or filter nothing fill
\* the answer: k rows, or all the matching rows the root serves.
AnswerFilled ==
    (Done /\ query.answer # Error /\ query.route # "scope") =>
        Len(Found) >= Min({K, Cardinality({t \in MatchedRows :
                                             Served(query.root, t)})})

\* Without a baseline the answer is the exact top k of the matching rows: the
\* loop over rank limits skips dead and invisible versions without losing one.
ReferenceTopK(r) ==
    LET slots == {s \in Live(r) : Current(r, s).tid \in MatchedRows}
        positive == RankPositive([s \in Live(r) |-> Current(r, s)], slots)
    IN  FirstOf(positive \o ZeroOrder(r, slots \ ToSet(positive)), K)

ExactWithoutBaseline ==
    (Done /\ query.root.baseline = NoBaseline) =>
        query.answer = ReferenceTopK(query.root)
=============================================================================
