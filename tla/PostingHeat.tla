---------------------------- MODULE PostingHeat ----------------------------
(***************************************************************************)
(* The decayed per-term query heat that picks the term worth folding.      *)
(* Backends batch observations of the terms they queried and merge the     *)
(* batch into a shared set-associative table; a maintenance worker selects *)
(* the hottest term of the root it serves and notes the attempt             *)
(* (src/src/evoke_posting_heat.c, evoke_am.c, evoke_am_scheduler.c).       *)
(* One index and one bucket of the table.  The seven work counters, which  *)
(* are added, halved and reset together, are one counter; last_extent_     *)
(* count > 1 and impact_specialization_ready, which the code only tests as *)
(* a disjunction, are one flag.  Counters do not saturate.                 *)
(***************************************************************************)
EXTENDS Naturals, FiniteSets, Sequences, SequencesExt

CONSTANTS
    Backend,        \* backends running queries
    Term,           \* term ids of the bucket, naturals
    Ways,           \* EVOKE_POSTING_HEAT_WAYS
    LocalCapacity,  \* EVOKE_AM_POSTING_HEAT_LOCAL_CAPACITY
    FlushCount,     \* EVOKE_AM_POSTING_HEAT_FLUSH_QUERY_COUNT
    HalfLife,       \* EVOKE_AM_POSTING_HEAT_HALF_LIFE_MS, in clock ticks
    Cooldown,       \* EVOKE_AM_POSTING_HEAT_RETRY_COOLDOWN_MS, in clock ticks
    MinQueryHeat,   \* EVOKE_AM_POSTING_HEAT_MIN_QUERY_HEAT
    MinRootHeat,    \* EVOKE_AM_POSTING_HEAT_MIN_ROOT_HEAT
    MaxTerms,       \* bound: distinct terms of a query
    Readiness,      \* pairs <<foldable, republish>> a query may find a term in
    Page,           \* TRUE: page-native queries; FALSE: cached snapshots
    MaxTime,        \* bound: clock
    MaxRoot,        \* bound: root ids
    MaxQuery        \* bound: queries finished

HeatAssumption ==
    /\ Term \subseteq Nat \ {0} /\ Readiness \subseteq BOOLEAN \X BOOLEAN
    /\ {Ways, LocalCapacity, FlushCount, HalfLife, MinRootHeat} \subseteq Nat \ {0}

None == 0

Invalid == [term |-> None]

VARIABLES
    now,      \* the clock
    root,     \* id of the published root
    held,     \* [Backend -> root its running query reads, or None]
    batch,    \* [Backend -> sequence of observations, one per term]
    queries,  \* [Backend -> evoke_am_local_posting_heat_query_count]
    ways,     \* the bucket: Ways entries
    worker,   \* the candidate being folded: [term, root, at], or Invalid
    total,    \* queries finished
    asked,    \* history: [Term -> [root -> query weight observed]]
    settled,  \* history: [Term -> its entry as its last merge left it]
    tried     \* history: [Term -> last attempt not forgiven, as [root, at]]

vars == <<now, root, held, batch, queries, ways, worker, total, asked, settled, tried>>

NotTried == [root |-> None, at |-> 0]

Init ==
    /\ now = 1 /\ root = 1 /\ total = 0
    /\ held = [b \in Backend |-> None]
    /\ batch = [b \in Backend |-> <<>>]
    /\ queries = [b \in Backend |-> 0]
    /\ ways = [w \in 1..Ways |-> Invalid]
    /\ worker = Invalid
    /\ asked = [t \in Term |-> [r \in 1..MaxRoot |-> 0]]
    /\ settled = [t \in Term |-> Invalid]
    /\ tried = [t \in Term |-> NotTried]

-----------------------------------------------------------------------------
(* The shared table. *)

Valid(e) == e.term # None

(* The interval left over keeps counting towards the next halving. *)
EndOfStep(e, time) == time - ((time - e.decayed) % HalfLife)

decay(e, time) ==
    IF ~Valid(e) \/ time <= e.decayed \/ (time - e.decayed) \div HalfLife = 0
    THEN e
    ELSE LET half == 2 ^ ((time - e.decayed) \div HalfLife) IN
         [e EXCEPT !.queryHeat = @ \div half, !.rootHeat = @ \div half,
                   !.work = @ \div half, !.decayed = EndOfStep(e, time)]

Colder(e, f) ==
    \/ e.queryHeat < f.queryHeat
    \/ e.queryHeat = f.queryHeat /\ e.seen < f.seen

(* The way an observation goes to: its entry, else the first free way, else *)
(* the coldest.  Entries that stand before it in the bucket are decayed.   *)
MatchingWays(es, t) == {w \in DOMAIN es : es[w].term = t}

DecayedWays(es, o) ==
    [w \in DOMAIN es |->
        IF \E m \in MatchingWays(es, o.term) : m < w THEN es[w]
        ELSE decay(es[w], o.at)]

Victim(es) ==
    LET free == {w \in DOMAIN es : ~Valid(es[w])} IN
    IF free # {} THEN CHOOSE w \in free : \A v \in free : w <= v
    ELSE CHOOSE w \in DOMAIN es :
             /\ \A v \in DOMAIN es : ~Colder(es[v], es[w])
             /\ \A v \in 1..(w - 1) : Colder(es[w], es[v])

(* An older root adds query heat and nothing else. *)
Merged(e, o) ==
    LET newer == o.root > e.root
        current == o.root >= e.root
        latest == current /\ o.at >= e.seen
        rearm == latest /\ o.republish /\ ~(~newer /\ e.republish)
    IN [e EXCEPT
           !.queryHeat = @ + o.count,
           !.root = IF newer THEN o.root ELSE @,
           !.rootHeat = IF newer THEN o.rootCount
                        ELSE IF current THEN @ + o.rootCount ELSE @,
           !.work = IF newer THEN o.work ELSE IF current THEN @ + o.work ELSE @,
           !.foldable = IF latest THEN o.foldable ELSE IF newer THEN FALSE ELSE @,
           !.republish = IF latest THEN o.republish ELSE IF newer THEN FALSE ELSE @,
           !.attemptRoot = IF rearm THEN None ELSE @,
           !.attemptAt = IF rearm THEN 0 ELSE @,
           !.seen = IF o.at > @ THEN o.at ELSE @]

Fresh(o) ==
    [term |-> o.term, root |-> None, queryHeat |-> 0, rootHeat |-> 0, work |-> 0,
     foldable |-> FALSE, republish |-> FALSE, seen |-> 0, decayed |-> o.at,
     attemptRoot |-> None, attemptAt |-> 0]

merge(es, o) ==
    LET cool == DecayedWays(es, o)
        match == MatchingWays(es, o.term)
    IN IF match # {}
       THEN [w \in DOMAIN es |-> IF w \in match THEN Merged(cool[w], o) ELSE cool[w]]
       ELSE [cool EXCEPT ![Victim(cool)] = Merged(Fresh(o), o)]

(* A batch of observations merged under one hold of the scheduler lock. *)
scheduler_merge(es, os) == FoldLeft(merge, es, os)

Ready(e) == e.foldable \/ e.republish

Better(e, f) ==
    \/ e.work > f.work
    \/ e.work = f.work /\ e.rootHeat > f.rootHeat
    \/ e.work = f.work /\ e.rootHeat = f.rootHeat /\ e.queryHeat > f.queryHeat
    \/ e.work = f.work /\ e.rootHeat = f.rootHeat /\ e.queryHeat = f.queryHeat
       /\ e.term < f.term

Cooling(e) ==
    /\ e.attemptRoot = e.root
    /\ now >= e.attemptAt /\ now - e.attemptAt < Cooldown

Eligible(es, r) ==
    {e \in {es[w] : w \in DOMAIN es} :
        /\ Valid(e) /\ e.root = r
        /\ e.queryHeat >= MinQueryHeat /\ e.rootHeat >= MinRootHeat
        /\ Ready(e) /\ ~Cooling(e)}

Cooled == [w \in DOMAIN ways |-> decay(ways[w], now)]

-----------------------------------------------------------------------------
(* The batch of one backend. *)

NewObservation(t) ==
    [term |-> t, root |-> None, count |-> 0, rootCount |-> 0, work |-> 0,
     foldable |-> FALSE, republish |-> FALSE, at |-> 0]

Observed(o, r, count, foldable, republish) ==
    [o EXCEPT
        !.count = @ + count,
        !.root = IF r > @ THEN r ELSE @,
        !.rootCount = IF r > o.root THEN count ELSE IF r = o.root THEN @ + count ELSE @,
        !.work = LET w == IF foldable THEN count ELSE 0 IN
                 IF r > o.root THEN w ELSE IF r = o.root THEN @ + w ELSE @,
        !.foldable = IF r >= o.root THEN foldable ELSE @,
        !.republish = IF r >= o.root THEN republish ELSE @,
        !.at = IF r >= o.root THEN now ELSE @]

(* A term with no entry in a full batch is dropped. *)
observe_term(os, t, r, count, foldable, republish) ==
    IF \E i \in DOMAIN os : os[i].term = t
    THEN [i \in DOMAIN os |->
             IF os[i].term = t THEN Observed(os[i], r, count, foldable, republish) ELSE os[i]]
    ELSE IF Len(os) < LocalCapacity
    THEN Append(os, Observed(NewObservation(t), r, count, foldable, republish))
    ELSE os

Kept(os, terms) ==
    {t \in terms : \/ \E i \in DOMAIN os : os[i].term = t
                   \/ Len(os) < LocalCapacity}

(* A query of several terms observes neither work nor readiness when it    *)
(* runs on the pages, and the readiness of every term when it runs on a    *)
(* cached snapshot.                                                        *)
Flags(exact) == IF exact \/ ~Page THEN Readiness ELSE {<<FALSE, FALSE>>}

ObserveAll(os, ts, r, count, flags) ==
    FoldLeft(LAMBDA acc, t : observe_term(acc, t, r, count, flags[1], flags[2]), os, ts)

-----------------------------------------------------------------------------
(* Merging a batch: the histories record what each merge did. *)

Present(es) == {es[w].term : w \in DOMAIN es} \ {None}

EntryOf(es, t) == es[CHOOSE w \in DOMAIN es : es[w].term = t]

(* An attempt is forgiven when the entry that remembered it is evicted, and *)
(* when the hot cache of the term newly became worth republishing.         *)
Forgiven(es, next, os, t) ==
    \/ \E n \in 0..Len(os) : t \notin Present(scheduler_merge(es, SubSeq(os, 1, n)))
    \/ /\ EntryOf(next, t).republish
       /\ EntryOf(next, t).root > EntryOf(es, t).root \/ ~EntryOf(es, t).republish

FlushTo(os, next) ==
    LET terms == {os[i].term : i \in DOMAIN os} IN
    /\ ways' = next
    /\ settled' = [t \in Term |->
                      IF t \in terms /\ t \in Present(next) THEN EntryOf(next, t)
                      ELSE IF t \notin Present(next) THEN Invalid
                      ELSE settled[t]]
    /\ tried' = [t \in Term |->
                    IF Forgiven(ways, next, os, t) THEN NotTried ELSE tried[t]]

flush_local(b, os) ==
    /\ FlushTo(os, scheduler_merge(ways, os))
    /\ batch' = [batch EXCEPT ![b] = <<>>]
    /\ queries' = [queries EXCEPT ![b] = 0]

KeepBatch(b, os) ==
    /\ batch' = [batch EXCEPT ![b] = os]
    /\ queries' = [queries EXCEPT ![b] = @ + 1]
    /\ UNCHANGED <<ways, settled, tried>>

Ask(kept, r, count) ==
    asked' = [t \in Term |-> IF t \in kept THEN [asked[t] EXCEPT ![r] = @ + count]
                             ELSE asked[t]]

BeginQuery(b) ==
    /\ held[b] = None
    /\ held' = [held EXCEPT ![b] = root]
    /\ UNCHANGED <<now, root, batch, queries, ways, worker, total, asked, settled, tried>>

(* Duplicates among the query's terms are skipped, so a query is a         *)
(* sequence of distinct terms.                                             *)
Query == {ts \in UNION {[1..n -> Term] : n \in 1..MaxTerms} : Cardinality(Range(ts)) = Len(ts)}

FinishPageNative(b) ==
    /\ Page /\ held[b] # None /\ total < MaxQuery
    /\ \E ts \in Query : \E flags \in Flags(Len(ts) = 1) :
       \E os \in {ObserveAll(batch[b], ts, held[b], 1, flags)} :
          /\ Ask(Kept(os, Range(ts)), held[b], 1)
          /\ IF queries[b] + 1 >= FlushCount THEN flush_local(b, os) ELSE KeepBatch(b, os)
    /\ held' = [held EXCEPT ![b] = None]
    /\ total' = total + 1
    /\ UNCHANGED <<now, root, worker>>

(* A query over a cached snapshot is only counted; the one that completes  *)
(* the batch stands for all of them.                                       *)
FinishCached(b) ==
    /\ ~Page /\ held[b] # None /\ total < MaxQuery
    /\ IF queries[b] + 1 < FlushCount
       THEN KeepBatch(b, batch[b]) /\ UNCHANGED asked
       ELSE \E ts \in Query : \E flags \in Flags(Len(ts) = 1) :
            \E os \in {ObserveAll(batch[b], ts, held[b], queries[b] + 1, flags)} :
               /\ Ask(Kept(os, Range(ts)), held[b], queries[b] + 1)
               /\ flush_local(b, os)
    /\ held' = [held EXCEPT ![b] = None]
    /\ total' = total + 1
    /\ UNCHANGED <<now, root, worker>>

(* A backend exits, in or between queries; the exit callback flushes what is *)
(* left and the next backend takes its place.                              *)
Exit(b) ==
    /\ queries[b] > 0
    /\ flush_local(b, batch[b])
    /\ held' = [held EXCEPT ![b] = None]
    /\ UNCHANGED <<now, root, worker, total, asked>>

-----------------------------------------------------------------------------
(* The maintenance worker, on the root it serves. *)

Select ==
    /\ worker = Invalid
    /\ ways' = Cooled
    /\ LET pool == Eligible(Cooled, root) IN
       worker' = IF pool = {} THEN Invalid
                 ELSE LET best == CHOOSE e \in pool : \A f \in pool \ {e} : Better(e, f)
                      IN [term |-> best.term, root |-> root, at |-> now]
    /\ UNCHANGED <<now, root, held, batch, queries, total, asked, settled, tried>>

Attempted(e) == [e EXCEPT !.attemptRoot = worker.root, !.attemptAt = now]

(* The entry is only stamped while it is still about the attempted root.   *)
NoteAttempt ==
    /\ worker # Invalid
    /\ LET hit == {w \in DOMAIN ways : ways[w].term = worker.term /\ ways[w].root = worker.root} IN
       /\ ways' = [w \in DOMAIN ways |-> IF w \in hit THEN Attempted(ways[w]) ELSE ways[w]]
       /\ settled' = [t \in Term |-> IF t = worker.term /\ hit # {}
                                     THEN Attempted(settled[t]) ELSE settled[t]]
       /\ tried' = [t \in Term |-> IF t = worker.term /\ hit # {}
                                   THEN [root |-> worker.root, at |-> now] ELSE tried[t]]
    /\ worker' = Invalid
    /\ UNCHANGED <<now, root, held, batch, queries, total, asked>>

(* The term's fold was put in the hot cache; the attempt is noted next. *)
NoteResident ==
    /\ worker # Invalid
    /\ LET hit == {w \in DOMAIN ways : ways[w].term = worker.term /\ ways[w].root = worker.root} IN
       /\ ways' = [w \in DOMAIN ways |->
                      IF w \in hit THEN [ways[w] EXCEPT !.republish = FALSE] ELSE ways[w]]
       /\ settled' = [t \in Term |-> IF t = worker.term /\ hit # {}
                                     THEN [settled[t] EXCEPT !.republish = FALSE]
                                     ELSE settled[t]]
    /\ UNCHANGED <<now, root, held, batch, queries, worker, total, asked, tried>>

(* A fold that errors leaves the entry as it was, not even stamped. *)
FoldError ==
    /\ worker # Invalid
    /\ worker' = Invalid
    /\ UNCHANGED <<now, root, held, batch, queries, ways, total, asked, settled, tried>>

Publish ==
    /\ root < MaxRoot
    /\ root' = root + 1
    /\ UNCHANGED <<now, held, batch, queries, ways, worker, total, asked, settled, tried>>

Tick ==
    /\ now < MaxTime
    /\ now' = now + 1
    /\ UNCHANGED <<root, held, batch, queries, ways, worker, total, asked, settled, tried>>

Next ==
    \/ \E b \in Backend : BeginQuery(b) \/ FinishPageNative(b) \/ FinishCached(b) \/ Exit(b)
    \/ Select \/ NoteAttempt \/ NoteResident \/ FoldError
    \/ Publish \/ Tick

Spec == Init /\ [][Next]_vars

-----------------------------------------------------------------------------
(* Every entry is well typed and no term has two. *)
Entry ==
    [term : Term, root : 1..MaxRoot, queryHeat : Nat, rootHeat : Nat, work : Nat,
     foldable : BOOLEAN, republish : BOOLEAN, seen : 1..MaxTime, decayed : 1..MaxTime,
     attemptRoot : 0..MaxRoot, attemptAt : 0..MaxTime]

TypeOK ==
    /\ now \in 1..MaxTime /\ root \in 1..MaxRoot /\ total \in 0..MaxQuery
    /\ held \in [Backend -> 0..MaxRoot]
    /\ queries \in [Backend -> 0..(FlushCount - 1)]
    /\ \A w \in DOMAIN ways : ways[w] = Invalid \/ ways[w] \in Entry
    /\ \A v, w \in DOMAIN ways : v # w /\ Valid(ways[v]) => ways[v].term # ways[w].term

(* The heat and the work of a root never exceed what queries of that root  *)
(* were observed to do: an observation of an older root that arrives late, *)
(* a batch flushed twice or a root change that keeps the old counters      *)
(* would charge a fold to queries that never ran on the root.              *)
HeatNeverInvented ==
    \A w \in DOMAIN ways : Valid(ways[w]) =>
        /\ ways[w].rootHeat <= asked[ways[w].term][ways[w].root]
        /\ ways[w].work <= ways[w].rootHeat
        /\ ways[w].rootHeat <= ways[w].queryHeat

(* Reading the table does not change what it says: however often selection *)
(* and the merges of other terms decayed an entry since its last merge,    *)
(* its heat is what one decay from that merge gives.                       *)
DecayUnobserved ==
    \A w \in DOMAIN ways : Valid(ways[w]) =>
        decay(ways[w], now) = decay(settled[ways[w].term], now)

(* A term is not selected for a root within the cooldown of its last       *)
(* attempt on that root, whatever was merged in between, unless its entry  *)
(* was evicted or its hot cache newly became worth republishing.           *)
CooldownRespected ==
    worker # Invalid =>
        \/ tried[worker.term].root # worker.root
        \/ worker.at - tried[worker.term].at >= Cooldown

=============================================================================
