----------------------------- MODULE MCQueries -----------------------------
(*****************************************************************************)
(* Searches and the term trees they descend: instances of TopKQuery and      *)
(* FilteredSearch, and of TermTree and LexicalLookup, in one run.  A         *)
(* behaviour belongs to one instance; the state spaces add up.               *)
(*                                                                           *)
(* The top-k instance has a neutral run and a semantic run and four families *)
(* of queries: over an immutable corpus, long tied runs, under a filter, and *)
(* over an L0 projection.  The filtered searches have a few heap addresses   *)
(* and slots, with the code's limits scaled to them.  The trees have two     *)
(* records a leaf and two children a node.                                   *)
(*****************************************************************************)
EXTENDS Integers, FiniteSets, TLC

CONSTANTS t1, t2, t3

VARIABLES
    of,   \* the instance the behaviour belongs to
    q, pc, heap, pos, frequency, ordered, scores, counts, seen, candidates,
    result, status, documents, l0, sequence, sealed, baseline, query,
    store, root, records, retired, held, rejected, manifest

\* The value of the variables of modules no instance of which runs.
Idle == 0

\* Five slots, in blocks of two.
N == 5

AtMost(n, values) ==
    {f \in [0 .. N - 1 -> values] : Cardinality({s \in 0 .. N - 1 : f[s] # 0}) <= n}

Increasing == [s \in 0 .. N - 1 |-> s + 1]
Mixed == [s \in 0 .. N - 1 |-> ((2 * s + 3) % N) + 1]

Corpus(neutral, semantic, gone, born) ==
    {[post |-> <<f, g>>, retired |-> r, born |-> b] :
        f \in neutral, g \in semantic, r \in gone, b \in born}

Query(c, filtered, bitmap, allowed, overlay, projected, many, k) ==
    [post |-> c.post, retired |-> c.retired, born |-> c.born,
     filtered |-> filtered, bitmap |-> bitmap, allowed |-> allowed,
     l0 |-> overlay, projected |-> projected, many |-> many, k |-> k]

None == [d \in {} |-> 0]

(* No filter, no projection: every loop the dispatch may choose. *)
ImmutableQueries ==
    {Query(c, FALSE, FALSE, {}, FALSE, None, m, k) :
        c \in Corpus(AtMost(2, {0, 1, 2}), AtMost(1, {0, -1, 1}),
                     {{}, {0}, {3}}, {Mixed}),
        m \in BOOLEAN, k \in {1, 2}}

(* Long runs, completion included: every slot has a posting or none has. *)
TiedQueries ==
    {Query(c, FALSE, FALSE, {}, FALSE, None, m, k) :
        c \in Corpus([0 .. N - 1 -> {1, 2}] \cup AtMost(1, {0, 1}),
                     AtMost(1, {0, -1, 1}), {{}, {1}},
                     {Increasing, Mixed}),
        m \in {TRUE}, k \in {0, 2, 3, N, N + 1}}

FilteredQueries ==
    {x \in {Query(c, TRUE, bm, a, FALSE, None, FALSE, k) :
            c \in Corpus(AtMost(2, {0, 2}), AtMost(1, {0, 1}),
                         {{}, {0}}, {Mixed}),
            bm \in BOOLEAN, a \in SUBSET (0 .. N - 1), k \in {1, 3}} :
        x.allowed \cap x.retired = {}}

(* A slot's projected state: retired in L0, completed in L0, or (past the  *)
(* manifest's slots) inserted in L0, with or without a contribution.       *)
RetiredInL0(b) ==
    [live |-> FALSE, shadows |-> TRUE, add |-> 0, lexical |-> 0, born |-> b]
CompletedInL0(b) ==
    {[live |-> TRUE, shadows |-> FALSE, add |-> a, lexical |-> 0,
      born |-> b] : a \in {-1, 0, 2}}
InsertedInL0(b) ==
    {[live |-> TRUE, shadows |-> TRUE, add |-> a, lexical |-> l,
      born |-> b] : a \in {0, 1}, l \in {0, 1}}

Projections ==
    {None}
    \cup {[d \in {0} |-> RetiredInL0(Mixed[0])]}
    \cup UNION {{[d \in {0, 1} |-> IF d = 0 THEN x ELSE RetiredInL0(Mixed[1])],
                 [d \in {1} |-> [x EXCEPT !.born = Mixed[1]]]} :
                    x \in CompletedInL0(Mixed[0])}
    \cup {[d \in {2, N, N + 1} |->
             IF d = 2 THEN y ELSE IF d = N THEN x
             ELSE RetiredInL0(N + 2)] :
              x \in InsertedInL0(N + 1),
              y \in {RetiredInL0(Mixed[2])} \cup CompletedInL0(Mixed[2])}

ProjectedQueries ==
    {x \in {Query(c, fl, TRUE, a, TRUE, p, FALSE, k) :
            c \in Corpus(AtMost(1, {0, 1}), AtMost(2, {0, 1}),
                         {{}, {3}}, {Mixed}),
            p \in Projections, fl \in BOOLEAN,
            a \in {{}, {0, 1, N}, {1, 2, 4}}, k \in {1, 3}} :
        /\ x.filtered <=> x.allowed # {}
        /\ \A d \in x.allowed :
               \/ d < N /\ d \notin x.retired
                  /\ (d \in DOMAIN x.projected => ~x.projected[d].shadows)
               \/ /\ d \in DOMAIN x.projected
                  /\ x.projected[d].live /\ x.projected[d].shadows
        /\ \A d \in DOMAIN x.projected : x.projected[d].lexical = 1
                                          => x.projected[d].add # 0}

\* Keys over the bytes 0..2, with 2 the largest.
K == <<<<0>>, <<0, 2>>, <<1>>, <<1, 0>>, <<2>>, <<2, 2>>>>
Keys == {K[i] : i \in 1..6}
\* Hashes of three digits: two keys agree on all of them, two more on the
\* first two.
HashOf == [k \in Keys |->
             CASE k = K[1] -> 5 [] k = K[2] -> 5 [] k = K[3] -> 1
               [] k = K[4] -> 2 [] k = K[5] -> 6 [] k = K[6] -> 7]
QueryPrefixes == {<<0>>, <<1>>, <<2>>, <<0, 2>>, <<2, 2>>, <<1, 1>>}
Vocabularies == {<<>>, <<K[3], K[1], K[5]>>}

Symmetric == Permutations({t1, t2, t3})

-----------------------------------------------------------------------------
\* Every scoring loop, over all four families of queries.
Scoring == INSTANCE TopKQuery WITH
    N <- N, BlockSize <- 2, Cursors <- {1, 2}, Neutral <- {1},
    Semantic <- {2}, Looseness <- 1,
    Queries <- ImmutableQueries \cup TiedQueries \cup FilteredQueries
                 \cup ProjectedQueries

\* A predicate the index does not hold, resolved to TIDs.
ByTid == INSTANCE FilteredSearch WITH
    Tids <- {t1, t2, t3}, Scores <- {0, 1}, Features <- {"vacuum", "publish"},
    Filter <- "plain", K <- 2, MaxSlots <- 4, MaxSequence <- 3,
    OverfetchFloor <- 1, OverfetchMax <- 2, Multiplier <- 2, RankBump <- 1,
    ResolveMaxRows <- 5, PrefixMinK <- 1, PrefixMaxK <- 2, PrefixCorpus <- 2

\* A predicate the index holds, answered from the scope postings while TIDs
\* are reused.
ByScope == INSTANCE FilteredSearch WITH
    Tids <- {t1, t2, t3}, Scores <- {1},
    Features <- {"vacuum", "publish", "reuse"}, Filter <- "included", K <- 2,
    MaxSlots <- 4, MaxSequence <- 4, OverfetchFloor <- 1, OverfetchMax <- 2,
    Multiplier <- 2, RankBump <- 1, ResolveMaxRows <- 5, PrefixMinK <- 1,
    PrefixMaxK <- 2, PrefixCorpus <- 2

\* No predicate: the ranking loop and its heap check.
Unfiltered == INSTANCE FilteredSearch WITH
    Tids <- {t1, t2, t3}, Scores <- {1}, Features <- {"vacuum", "publish"},
    Filter <- "none", K <- 2, MaxSlots <- 4, MaxSequence <- 4,
    OverfetchFloor <- 1, OverfetchMax <- 2, Multiplier <- 2, RankBump <- 1,
    ResolveMaxRows <- 5, PrefixMinK <- 1, PrefixMaxK <- 2, PrefixCorpus <- 2

\* A ranked prefix checked against the heap.
ByPrefix == INSTANCE FilteredSearch WITH
    Tids <- {t1, t2, t3}, Scores <- {1, 2}, Features <- {"vacuum"},
    Filter <- "plain", K <- 2, MaxSlots <- 4, MaxSequence <- 4,
    OverfetchFloor <- 1, OverfetchMax <- 2, Multiplier <- 2, RankBump <- 1,
    ResolveMaxRows <- 0, PrefixMinK <- 1, PrefixMaxK <- 4, PrefixCorpus <- 1

\* Both kinds of predicate at once, with reused TIDs.
Reused == INSTANCE FilteredSearch WITH
    Tids <- {t1, t2, t3}, Scores <- {1},
    Features <- {"vacuum", "publish", "reuse"}, Filter <- "mixed", K <- 2,
    MaxSlots <- 3, MaxSequence <- 4, OverfetchFloor <- 1, OverfetchMax <- 2,
    Multiplier <- 2, RankBump <- 1, ResolveMaxRows <- 5, PrefixMinK <- 1,
    PrefixMaxK <- 2, PrefixCorpus <- 2

\* Appends, replacements and vocabulary growth beside a reader.
TermLists == INSTANCE TermTree WITH
    LeafTerms <- 2, Fanout <- 2, Levels <- 2, MaxExtents <- 2,
    Catalogued <- FALSE, Blocks <- 1..30, InitialVocabs <- {3},
    InitialRuns <- {{0}}, MaxVocab <- 5, MaxPublications <- 3, MaxRuns <- 2,
    MaxReaders <- 1

\* A text vocabulary, whose new terms need a catalog.
Catalogs == INSTANCE TermTree WITH
    LeafTerms <- 2, Fanout <- 2, Levels <- 2, MaxExtents <- 2,
    Catalogued <- TRUE, Blocks <- 1..30, InitialVocabs <- {1},
    InitialRuns <- {{0}}, MaxVocab <- 5, MaxPublications <- 3, MaxRuns <- 2,
    MaxReaders <- 0

\* Batches of new terms over an empty and a filled vocabulary.
Spellings == INSTANCE LexicalLookup WITH
    HashFanout <- 2, HashLevels <- 3, HashOf <- HashOf, EntryHeader <- 1,
    BucketTarget <- 4, LeafMaxEntries <- 1, NodeMaxChildren <- 3,
    MaxByte <- 2, Keys <- Keys, QueryPrefixes <- QueryPrefixes,
    InitialVocabs <- Vocabularies, Blocks <- 1..40, MaxMatches <- 2,
    MaxTokenBytes <- 4, MaxBatch <- 2, MaxPublications <- 3, MaxReaders <- 1

\* One term a batch, four batches deep.
Growth == INSTANCE LexicalLookup WITH
    HashFanout <- 2, HashLevels <- 3, HashOf <- HashOf, EntryHeader <- 1,
    BucketTarget <- 4, LeafMaxEntries <- 1, NodeMaxChildren <- 3,
    MaxByte <- 2, Keys <- Keys, QueryPrefixes <- QueryPrefixes,
    InitialVocabs <- Vocabularies, Blocks <- 1..40, MaxMatches <- 2,
    MaxTokenBytes <- 6, MaxBatch <- 1, MaxPublications <- 4, MaxReaders <- 0

\* What the modules assume of their constants.
ASSUME InstancesAssumption ==
    /\ Scoring!TopKAssumption
    /\ ByTid!SearchAssumption
    /\ ByScope!SearchAssumption
    /\ Unfiltered!SearchAssumption
    /\ ByPrefix!SearchAssumption
    /\ Reused!SearchAssumption
    /\ TermLists!TermTreeAssumption
    /\ Catalogs!TermTreeAssumption
    /\ Spellings!PrefixAssumption

-----------------------------------------------------------------------------
\* The variables of some modules, none of which has an instance that runs.
IdleTopK ==
    /\ q = Idle /\ pc = Idle /\ pos = Idle /\ frequency = Idle
    /\ ordered = Idle /\ scores = Idle /\ counts = Idle /\ seen = Idle
    /\ candidates = Idle /\ result = Idle /\ status = Idle
TopKVars ==
    <<q, pc, pos, frequency, ordered, scores, counts, seen, candidates,
      result, status>>

IdleFiltered ==
    /\ documents = Idle /\ l0 = Idle /\ sequence = Idle /\ sealed = Idle
    /\ baseline = Idle /\ query = Idle
FilteredVars == <<documents, l0, sequence, sealed, baseline, query>>

IdleTrees ==
    /\ store = Idle /\ root = Idle /\ records = Idle /\ retired = Idle
    /\ held = Idle /\ rejected = Idle /\ manifest = Idle
TreeVars == <<store, root, records, retired, held, rejected, manifest>>

InitSearches ==
    \/ of = "Scoring" /\ Scoring!Init /\ IdleFiltered
    \/ /\ IdleTopK
       /\ \/ of = "ByTid" /\ ByTid!Init
          \/ of = "ByScope" /\ ByScope!Init
          \/ of = "Unfiltered" /\ Unfiltered!Init
          \/ of = "ByPrefix" /\ ByPrefix!Init
          \/ of = "Reused" /\ Reused!Init

InitTrees ==
    \/ /\ manifest = Idle
       /\ \/ of = "TermLists" /\ TermLists!Init
          \/ of = "Catalogs" /\ Catalogs!Init
    \/ /\ root = Idle /\ records = Idle
       /\ \/ of = "Spellings" /\ Spellings!Init
          \/ of = "Growth" /\ Growth!Init

Init ==
    \/ InitSearches /\ IdleTrees
    \/ InitTrees /\ IdleTopK /\ IdleFiltered /\ heap = Idle

BesideTopK == <<of, FilteredVars, TreeVars>>
BesideFiltered == <<of, TopKVars, TreeVars>>
BesideTrees == <<of, heap, TopKVars, FilteredVars, manifest>>
BesideLexical == <<of, heap, TopKVars, FilteredVars, root, records>>

Next ==
    \/ of = "Scoring" /\ Scoring!Next /\ UNCHANGED BesideTopK
    \/ of = "ByTid" /\ ByTid!Next /\ UNCHANGED BesideFiltered
    \/ of = "ByScope" /\ ByScope!Next /\ UNCHANGED BesideFiltered
    \/ of = "Unfiltered" /\ Unfiltered!Next /\ UNCHANGED BesideFiltered
    \/ of = "ByPrefix" /\ ByPrefix!Next /\ UNCHANGED BesideFiltered
    \/ of = "Reused" /\ Reused!Next /\ UNCHANGED BesideFiltered
    \/ of = "TermLists" /\ TermLists!Next /\ UNCHANGED BesideTrees
    \/ of = "Catalogs" /\ Catalogs!Next /\ UNCHANGED BesideTrees
    \/ of = "Spellings" /\ Spellings!Next /\ UNCHANGED BesideLexical
    \/ of = "Growth" /\ Growth!Next /\ UNCHANGED BesideLexical

vars == <<of, heap, TopKVars, FilteredVars, TreeVars>>

Spec == Init /\ [][Next]_vars

-----------------------------------------------------------------------------
\* Every variable has its type.
TypeOK ==
    /\ of = "Scoring" => Scoring!TypeOK
    /\ of = "ByTid" => ByTid!TypeOK
    /\ of = "TermLists" => TermLists!TypeOK
    /\ of = "Spellings" => Spellings!TypeOK

\* Whatever loop the dispatch chose and whatever it skipped, a finished query
\* returns exactly the k best visible and allowed documents, ties in the order
\* of their persisted keys.
ExactTopK == of = "Scoring" => Scoring!ExactTopK

\* The root of the accumulator is its worst item, so that comparing a bound
\* with it alone is safe.
HeapRootWorst == of = "Scoring" => Scoring!HeapRootWorst

\* A well-formed query is never refused as a format error: every block is
\* either scored or skipped, no loop meets a live posting of frequency zero,
\* and completion always finds enough candidates.
NeverFormatError == of = "Scoring" => Scoring!NeverFormatError

\* A loop never offers one document twice, whether from the runs and the
\* projection both or from two blocks.
OfferedOnce == of = "Scoring" => Scoring!OfferedOnce

\* No route fails: what the filter allows and the ranking still finds agree on
\* how many documents there are, whatever was retired since the baseline.
QuerySucceeds ==
    /\ of = "ByTid" => ByTid!QuerySucceeds
    /\ of = "Unfiltered" => Unfiltered!QuerySucceeds
    /\ of = "Reused" => Reused!QuerySucceeds

\* Every returned row is visible to the statement's snapshot and satisfies its
\* predicate there, and none is returned twice, whatever was sealed, retired,
\* moved to another slot or published since the baseline.
ResultsCurrent ==
    /\ of = "ByTid" => ByTid!ResultsCurrent
    /\ of = "ByScope" => ByScope!ResultsCurrent
    /\ of = "ByPrefix" => ByPrefix!ResultsCurrent

\* The routes that resolve rows by TID, rank a prefix or filter nothing fill
\* the answer: k rows, or all the matching rows the root serves.
AnswerFilled ==
    /\ of = "ByTid" => ByTid!AnswerFilled
    /\ of = "Unfiltered" => Unfiltered!AnswerFilled
    /\ of = "Reused" => Reused!AnswerFilled

\* While no accelerator baseline is published, a search that found its rows by
\* prefix returned the best of those that match.
ExactWithoutBaseline == of = "ByPrefix" => ByPrefix!ExactWithoutBaseline

\* A root keeps answering with the terms it was published with, whatever later
\* patches wrote and whatever blocks were reused: lookups never report a
\* damaged tree.
SnapshotReads == of = "TermLists" => TermLists!SnapshotReads

\* Every allocated block is reachable from the published root or retired,
\* never both: a patch of any of the three trees retires exactly the objects
\* it replaced.
NoBlockLeaked ==
    /\ of = "TermLists" => TermLists!NoBlockLeaked
    /\ of = "Spellings" => Spellings!NoBlockLeaked

\* A patch of legal updates is never refused by the checks of the patch
\* builders.
PatchAccepted ==
    /\ of = "TermLists" => TermLists!PatchAccepted
    /\ of = "Spellings" => Spellings!PatchAccepted

\* The descent by extent maxima returns the first term at or above a threshold
\* exactly as a scan of the directory would, and nothing when there is none.
PressureExact ==
    /\ of = "TermLists" => TermLists!PressureExact
    /\ of = "Catalogs" => Catalogs!PressureExact

\* Every term of a text vocabulary has the catalog its spelling is read from.
CatalogBound == of = "Catalogs" => Catalogs!CatalogBound

\* The lookup of a term returns the id it was published with, and absence for
\* a term that came later or never, in every manifest a reader may hold,
\* whatever buckets were split and whatever blocks reused since
\* (evoke_segment_pages_lookup_lexicon).
LookupExact ==
    /\ of = "Spellings" => Spellings!LookupExact
    /\ of = "Growth" => Growth!LookupExact

\* The expansion of a prefix is every term that starts with it in key order,
\* or the budget error exactly when they do not fit the budgets
\* (evoke_segment_pages_collect_lexicon_prefix).
ExpansionExact ==
    /\ of = "Spellings" => Spellings!ExpansionExact
    /\ of = "Growth" => Growth!ExpansionExact

\* Both trees of every manifest pass the validation that the inventory of an
\* index runs, and the ordered tree stays balanced, which bounds its depth.
TreesValid ==
    /\ of = "Spellings" => Spellings!TreesValid
    /\ of = "Growth" => Growth!TreesValid

-----------------------------------------------------------------------------
(* What the run checks.                                                    *)

\* Whatever loop the dispatch chose and whatever it skipped, a finished query
\* returns exactly the k best documents, in order, each offered once, and is
\* never refused.
TopKExact ==
    /\ TypeOK /\ ExactTopK /\ HeapRootWorst /\ NeverFormatError /\ OfferedOnce

\* A filtered search on a stale baseline succeeds and returns rows that are
\* visible and satisfy the predicate.
AnswersCurrent ==
    /\ QuerySucceeds /\ ResultsCurrent

\* A filtered search returns k rows while there are that many, the best ones
\* when there is no baseline.
AnswersFilled ==
    /\ AnswerFilled /\ ExactWithoutBaseline

\* Looking a term up, expanding a prefix and searching for the most extents
\* agree with the set of terms after any series of batches, in every manifest a
\* reader may hold; no page leaks and no patch is refused.
LookupsExact ==
    /\ LookupExact /\ ExpansionExact /\ TreesValid
    /\ PressureExact /\ CatalogBound
    /\ SnapshotReads /\ NoBlockLeaked /\ PatchAccepted

=============================================================================
