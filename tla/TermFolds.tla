------------------------------ MODULE TermFolds ------------------------------
(***************************************************************************)
(* The record of each term in the copy-on-write term directory, and the    *)
(* maintenance that rewrites it: sealing, compaction, structural, targeted *)
(* and workload folds, promotion and impact specialisation (evoke_am.c,    *)
(* evoke_term_cow.c, evoke_segments.c, evoke_segment_pages.c).             *)
(*                                                                         *)
(* A segment covers an interval of sequences and holds, for each kind and  *)
(* term, a run of postings.  A term's record lists the runs a query must   *)
(* read (its extents) and up to three folds: the major neutral fold covers *)
(* every posting up to its coverage, the minor one those after it up to    *)
(* its own, and the impact fold specialises the lexical postings of both   *)
(* for one statistics epoch.  An extent a fold consumed leaves the record, *)
(* while its run stays in the segment.                                     *)
(*                                                                         *)
(* A posting is the slot of its document; a run is a set of slots.  The    *)
(* interval of a segment identifies it: a compaction only widens it.       *)
(* Sizes in bytes are posting counts.  The statistics epoch of an impact   *)
(* fold is kept as whether it is the current one.  Heat decides which of   *)
(* the admissible workload folds is made, so any of them may be.           *)
(***************************************************************************)
EXTENDS Integers, FiniteSets, Sequences, FiniteSetsExt

CONSTANTS Terms,             \* term ids, ordered
          Slots,             \* document slots
          Contents,          \* what a document holds: [lex, sem : SUBSET Terms]
          MaxExtents,        \* extents of a record
          Pressure,          \* extents at which maintenance acts
          TargetTail,        \* extents a structural fold leaves
          TierWidth,         \* segments of one size class that are compacted
          MaxSegments,       \* segments of a manifest
          MaxInputSegments,  \* segments of one compaction
          MaxInputBytes,     \* postings of one compaction
          ClassBytes,        \* postings of the smallest size class
          MaxCandidates,     \* windows a refused compaction tries
          FoldBudget,        \* postings of one fold
          MaxSequence,       \* bound on the sealed batches
          Features           \* subset of {"workload", "accelerator", "vacuum"}

FoldsAssumption ==
    /\ Terms \subseteq Nat /\ IsFiniteSet(Terms) /\ IsFiniteSet(Slots)
    /\ Contents \subseteq [lex : SUBSET Terms, sem : SUBSET Terms]
    /\ {MaxExtents, Pressure, TierWidth, MaxSegments, MaxInputSegments} \subseteq Nat \ {0, 1}
    /\ {TargetTail, MaxInputBytes, ClassBytes, MaxCandidates, FoldBudget, MaxSequence} \subseteq Nat

VARIABLES segments,   \* the manifest's segments, in sequence order
          record,     \* the term directory
          document,   \* the document of each slot
          residency,  \* postings of each slot in segments and folds
          l0,         \* runs waiting to be sealed: <<slot, kind>>
          baseline,   \* accelerator baseline sequence, 0 when there is none
          sequence    \* highest sequence sealed

vars == <<segments, record, document, residency, l0, baseline, sequence>>

Kinds == {"lex", "sem"}
NoFold == [cov |-> 0, lex |-> {}, sem |-> {}]
NoImpact == [cov |-> 0, fresh |-> FALSE, lex |-> {}]
EmptyRecord == [df |-> 0, extents |-> {}, major |-> NoFold, minor |-> NoFold,
                impact |-> NoImpact]
FreeSlot == [state |-> "FREE", done |-> FALSE, lex |-> {}, sem |-> {}]

Init ==
    /\ segments = <<>>
    /\ record = [t \in Terms |-> EmptyRecord]
    /\ document = [s \in Slots |-> FreeSlot]
    /\ residency = [s \in Slots |-> 0]
    /\ l0 = {}
    /\ baseline = 0
    /\ sequence = 0

-----------------------------------------------------------------------------
(* Segments and records.  A segment is [min, max, lex, sem], its runs      *)
(* functions from terms to sets of slots.                                  *)

Id(g) == <<g.min, g.max>>
Run(g, k, t) == g[k][t]
Postings(g) == {<<k, t, s>> \in Kinds \X Terms \X Slots : s \in Run(g, k, t)}
Bytes(g) == 1 + Cardinality(Postings(g))
SizeClass(g) == Min({c \in 0..Bytes(g) : Bytes(g) <= ClassBytes * 2^c})

IsBoundary(n) == \E i \in DOMAIN segments : segments[i].max = n

\* The watermark of a record's neutral folds.
Coverage(r) == IF r.minor.cov # 0 THEN r.minor.cov ELSE r.major.cov

Extents(g, t) ==
    {[seg |-> Id(g), kind |-> k, count |-> Cardinality(Run(g, k, t))] :
        k \in {k \in Kinds : Run(g, k, t) # {}}}
Lexical(es) == MapThenSumSet(LAMBDA e : e.count, {e \in es : e.kind = "lex"})

RecordValid(r) ==
    /\ Cardinality(r.extents) <= MaxExtents
    /\ r.minor.cov # 0 => r.major.cov # 0 /\ r.major.cov < r.minor.cov
    /\ r.impact.cov # 0 => r.major.cov # 0 /\ r.impact.cov <= Coverage(r)

\* The postings of slot s in the runs of a segment, and in the folds of a term.
InSegment(g, s) == Cardinality({p \in Postings(g) : p[3] = s})
InFold(f, s) == Cardinality({k \in DOMAIN f \cap Kinds : s \in f[k]})

-----------------------------------------------------------------------------
(* Documents.  A row is appended to L0, sealed, completed by the semantic  *)
(* worker, sealed again, and retired by VACUUM; its slot is reused when no *)
(* posting of it is left.                                                  *)

Sealed(s, k) == /\ document[s].state # "FREE"
                /\ k = "sem" => document[s].done
                /\ <<s, k>> \notin l0

\* Mutant: a retired slot is reused while its postings are resident.
IsReusableRetired(s) == document[s].state \in {"FREE", "RETIRED"}
IsReusable(s) == \/ document[s].state = "FREE"
                 \/ document[s].state = "RETIRED" /\ residency[s] = 0

Insert(s, c) ==
    /\ IsReusable(s)
    /\ sequence < MaxSequence
    /\ document' = [document EXCEPT ![s] = [state |-> "LIVE", done |-> FALSE,
                                            lex |-> c.lex, sem |-> c.sem]]
    /\ l0' = l0 \cup {<<s, "lex">>}
    /\ UNCHANGED <<segments, record, residency, baseline, sequence>>

Complete(s) ==
    /\ document[s].state = "LIVE" /\ Sealed(s, "lex")
    /\ ~document[s].done /\ document[s].sem # {}
    /\ sequence < MaxSequence
    /\ document' = [document EXCEPT ![s].done = TRUE]
    /\ l0' = l0 \cup {<<s, "sem">>}
    /\ UNCHANGED <<segments, record, residency, baseline, sequence>>

\* Every publication that changes the statistics starts a new epoch.
NewEpoch(rs) == [t \in Terms |-> [rs[t] EXCEPT !.impact.fresh = FALSE]]

Retire(s) ==
    /\ "vacuum" \in Features
    /\ document[s].state = "LIVE" /\ \A k \in Kinds : <<s, k>> \notin l0
    /\ document' = [document EXCEPT ![s].state = "RETIRED"]
    /\ record' = NewEpoch(record)
    /\ UNCHANGED <<segments, residency, l0, baseline, sequence>>

-----------------------------------------------------------------------------
(* Sealing L0 into a segment. *)

SealedSegment ==
    [min |-> sequence + 1, max |-> sequence + 1,
     lex |-> [t \in Terms |-> {s \in Slots : <<s, "lex">> \in l0 /\ t \in document[s].lex}],
     sem |-> [t \in Terms |-> {s \in Slots : <<s, "sem">> \in l0 /\ t \in document[s].sem}]]

AppendHasCapacity(g) ==
    /\ Len(segments) < MaxSegments
    /\ \A t \in Terms :
          Cardinality(record[t].extents) + Cardinality(Extents(g, t)) <= MaxExtents

WithExtents(r, es) == [r EXCEPT !.df = @ + Lexical(es), !.extents = @ \cup es]

AppendPatch(g) == [t \in Terms |-> WithExtents(record[t], Extents(g, t))]

Seal ==
    /\ l0 # {}
    /\ \E g \in {SealedSegment} :
          /\ AppendHasCapacity(g)
          /\ segments' = Append(segments, g)
          /\ record' = NewEpoch(AppendPatch(g))
          /\ residency' = [s \in Slots |-> residency[s] + InSegment(g, s)]
    /\ sequence' = sequence + 1
    /\ l0' = {}
    /\ UNCHANGED <<document, baseline>>

-----------------------------------------------------------------------------
(* Selecting segments to compact.  A range is [first, n].                  *)

Last(p) == p.first + p.n - 1
InRange(p) == p.first..Last(p)
InputBytes(p) == MapThenSumSet(LAMBDA i : Bytes(segments[i]), InRange(p))

CrossesBaseline(p) == /\ segments[p.first].min <= baseline
                      /\ segments[Last(p)].max > baseline

MeasureRange(p) ==
    /\ Last(p) <= Len(segments)
    /\ ~CrossesBaseline(p)
    /\ InputBytes(p) <= MaxInputBytes

Ranges == {p \in [first : DOMAIN segments, n : 2..MaxInputSegments] : MeasureRange(p)}

PlanIsBetter(p, q) ==
    \/ p.n < q.n
    \/ p.n = q.n /\ InputBytes(p) < InputBytes(q)
    \/ p.n = q.n /\ InputBytes(p) = InputBytes(q) /\ p.first <= q.first

Best(S) == CHOOSE p \in S : \A q \in S : PlanIsBetter(p, q)

\* The extents of kind k the term has in a range.
Retained(t, k, p) ==
    {e \in record[t].extents : e.kind = k /\ \E i \in InRange(p) : e.seg = Id(segments[i])}

Spans(t, k, p) == \A i \in {p.first, Last(p)} :
                     \E e \in record[t].extents : e.kind = k /\ e.seg = Id(segments[i])

\* Mutant: maintenance acts only on a record past its limit.
PressureTermsLate == {t \in Terms : Cardinality(record[t].extents) > MaxExtents}
PressureTerms == {t \in Terms : Cardinality(record[t].extents) >= Pressure}

NoPlan == [first |-> 0, n |-> 0, term |-> 0, kind |-> "none"]
Plan(p, t, k) == [first |-> p.first, n |-> p.n, term |-> t, kind |-> k]

SelectPlan ==
    LET spanned == IF PressureTerms = {} THEN {}
                   ELSE {p \in Ranges : \E k \in Kinds : Spans(Min(PressureTerms), k, p)}
        tiers == {p \in Ranges : /\ p.n = TierWidth
                                 /\ \A i \in InRange(p) : SizeClass(segments[i]) =
                                                          SizeClass(segments[p.first])}
        pairs == IF Len(segments) + 1 >= MaxSegments THEN {p \in Ranges : p.n = 2} ELSE {}
    IN CASE spanned # {} ->
              LET p == Best(spanned)
                  t == Min(PressureTerms)
              IN Plan(p, t, IF Spans(t, "lex", p) THEN "lex" ELSE "sem")
         [] spanned = {} /\ tiers # {} -> Plan(Best(tiers), 0, "none")
         [] spanned = {} /\ tiers = {} /\ pairs # {} -> Plan(Best(pairs), 0, "none")
         [] OTHER -> NoPlan

RetainsPressure(plan, p) == plan.term = 0 \/ Cardinality(Retained(plan.term, plan.kind, p)) >= 2

-----------------------------------------------------------------------------
(* How a compaction meets the folds of a term.                             *)

HasRun(t, p) == \E i \in InRange(p), k \in Kinds : Run(segments[i], k, t) # {}

FoldRelation(t, p) ==
    LET r == record[t]
        cov == Coverage(r)
        runs == {x \in InRange(p) \X Kinds : Run(segments[x[1]], x[2], t) # {}}
        crossing == {x \in runs : segments[x[1]].min <= cov /\ cov < segments[x[1]].max}
        kept == {x \in crossing : \E e \in r.extents :
                                     e.seg = Id(segments[x[1]]) /\ e.kind = x[2]}
        covered == {x \in runs : segments[x[1]].max <= cov} \cup crossing
        tail == {x \in runs : segments[x[1]].min > cov}
    IN CASE r.major.cov = 0 -> "TAIL"
         [] r.major.cov # 0 /\ \/ kept # {}
                               \/ covered # {} /\ tail # {}
                               \/ /\ tail # {}
                                  /\ segments[p.first].min <= cov
                                  /\ segments[Last(p)].max > cov -> "STRADDLE"
         [] r.major.cov # 0 /\ covered # {} /\ tail = {} -> "COVERED"
         [] OTHER -> "TAIL"

Conflicts(p) == {t \in Terms : HasRun(t, p) /\ FoldRelation(t, p) = "STRADDLE"}

\* The windows inside a refused range, in the order they are tried.
Windows(plan) ==
    LET ws == {p \in [first : InRange(plan), n : 2..(plan.n - 1)] :
                  Last(p) <= Last(plan) /\ RetainsPressure(plan, p)}
        Before(p, q) == p.n < q.n \/ (p.n = q.n /\ p.first < q.first)
    IN {p \in ws : Cardinality({q \in ws : Before(q, p)}) < MaxCandidates}

Refined(plan) ==
    LET safe == {p \in Windows(plan) : Conflicts(p) = {} /\ MeasureRange(p)}
    IN IF Conflicts(plan) = {} THEN plan
       ELSE IF safe = {} THEN NoPlan
       ELSE Best(safe)

Merged(p) ==
    LET Kept(k) == [t \in Terms |->
                      {s \in UNION {Run(segments[i], k, t) : i \in InRange(p)} :
                          document[s].state # "RETIRED"}]
    IN [min |-> segments[p.first].min, max |-> segments[Last(p)].max,
        lex |-> Kept("lex"), sem |-> Kept("sem")]

ReplacedExtents(t, p) == {e \in record[t].extents : \E i \in InRange(p) : e.seg = Id(segments[i])}

\* The record of a term after the range p became the segment g.
ReplacePatch(t, p, g) ==
    LET gone == ReplacedExtents(t, p)
        r == record[t]
    IN IF ~HasRun(t, p) \/ FoldRelation(t, p) = "COVERED" THEN r
       ELSE [r EXCEPT !.df = @ - Lexical(gone) + Lexical(Extents(g, t)),
                      !.extents = (@ \ gone) \cup Extents(g, t)]

\* The runs a patch removes must be the extents the record has.
ReplaceAccepted(t, p, g) ==
    HasRun(t, p) =>
      /\ FoldRelation(t, p) # "STRADDLE"
      /\ FoldRelation(t, p) = "TAIL" =>
            ReplacedExtents(t, p) = UNION {Extents(segments[i], t) : i \in InRange(p)}
      /\ Lexical(ReplacedExtents(t, p)) <= record[t].df
      /\ RecordValid(ReplacePatch(t, p, g))

Replaced(p, g) == SubSeq(segments, 1, p.first - 1) \o <<g>>
                    \o SubSeq(segments, p.first + p.n, Len(segments))

CompactRange(p, g) ==
    /\ segments' = Replaced(p, g)
    /\ record' = [t \in Terms |-> ReplacePatch(t, p, g)]
    /\ residency' = [s \in Slots |->
                        residency[s] + InSegment(g, s)
                          - MapThenSumSet(LAMBDA i : InSegment(segments[i], s), InRange(p))]
    /\ UNCHANGED <<document, l0, baseline, sequence>>

Compact ==
    \E plan \in {SelectPlan} :
       /\ plan.n # 0
       /\ \E p \in {Refined(plan)} :
             /\ p.n # 0
             /\ CompactRange(p, Merged(p))

-----------------------------------------------------------------------------
(* Folds. *)

Consumed(r, cov) == {e \in r.extents : e.seg[2] <= cov}

\* The slots of the runs a set of extents stands for.
RunsOf(t, k, es) ==
    UNION {Run(segments[i], k, t) :
             i \in {i \in DOMAIN segments :
                      \E e \in es : e.kind = k /\ e.seg = Id(segments[i])}}

FoldBytes(f) == Cardinality(f.lex) + Cardinality(f.sem)
ExtentBytes(es) == MapThenSumSet(LAMBDA e : e.count, es)

\* Mutant: a new minor fold forgets the one it replaces.
AdvanceNeutralFresh(t, cov) ==
    LET r == record[t]
        prior == NoFold
    IN [cov |-> cov, lex |-> prior.lex \cup RunsOf(t, "lex", Consumed(r, cov)),
                     sem |-> prior.sem \cup RunsOf(t, "sem", Consumed(r, cov))]

\* The minor fold is advanced once there is a major one.
AdvanceNeutral(t, cov) ==
    LET r == record[t]
        prior == IF r.major.cov # 0 THEN r.minor ELSE NoFold
    IN [cov |-> cov, lex |-> prior.lex \cup RunsOf(t, "lex", Consumed(r, cov)),
                     sem |-> prior.sem \cup RunsOf(t, "sem", Consumed(r, cov))]

MergeNeutral(r) == [cov |-> r.minor.cov, lex |-> r.major.lex \cup r.minor.lex,
                                         sem |-> r.major.sem \cup r.minor.sem]

NeutralFoldPatch(r, major, fold) ==
    [r EXCEPT !.extents = @ \ Consumed(r, fold.cov),
              !.major = IF major THEN fold ELSE @,
              !.minor = IF major THEN NoFold ELSE fold]

\* What compiling, writing and patching a fold insist on.
NeutralFoldAccepted(t, major, fold) ==
    LET r == record[t]
        promoting == major /\ r.minor.cov # 0 /\ fold.cov = r.minor.cov
    IN /\ \A e \in r.extents :
             /\ \E i \in DOMAIN segments : Id(segments[i]) = e.seg
             /\ e.seg[1] > Coverage(r)
             /\ e.seg[2] > fold.cov => e.seg[1] > fold.cov
       /\ \/ promoting
          \/ IsBoundary(fold.cov) /\ fold.cov > Coverage(r) /\ Consumed(r, fold.cov) # {}
       /\ FoldBytes(fold) # 0
       /\ RecordValid(NeutralFoldPatch(r, major, fold))

\* Postings are disjoint: a duplicate slot would be refused.
FoldDisjoint(t, cov) ==
    LET r == record[t]
        prior == IF r.major.cov # 0 THEN r.minor ELSE NoFold
    IN FoldBytes(AdvanceNeutral(t, cov)) = FoldBytes(prior) + ExtentBytes(Consumed(r, cov))

\* Mutant: promotion forgets the residency of the minor fold.
ReplacedFoldsMajor(r, major) == IF major THEN {r.major} ELSE {r.minor}
ReplacedFolds(r, major) == IF major THEN {r.major, r.minor} ELSE {r.minor}

WriteFold(t, major, fold) ==
    /\ record' = [record EXCEPT ![t] = NeutralFoldPatch(record[t], major, fold)]
    /\ residency' = [s \in Slots |->
                        residency[s] + InFold(fold, s)
                          - MapThenSumSet(LAMBDA f : InFold(f, s), ReplacedFolds(record[t], major))]
    /\ UNCHANGED <<segments, document, l0, baseline, sequence>>

Promote(t) == WriteFold(t, TRUE, MergeNeutral(record[t]))
Advance(t, cov) == WriteFold(t, record[t].major.cov = 0, AdvanceNeutral(t, cov))

ShouldPromote(r) == 2 * FoldBytes(r.minor) >= FoldBytes(r.major)

BoundaryRequiresPromotion(r) ==
    /\ baseline # 0 /\ r.minor.cov <= baseline
    /\ \E e \in r.extents : e.seg[2] > baseline

Promotes(r, due) ==
    /\ r.minor.cov # 0
    /\ baseline = 0 \/ r.minor.cov <= baseline
    /\ BoundaryRequiresPromotion(r) \/ due

\* The watermark a structural fold advances to.
StructuralTarget(r) ==
    LET required == IF Cardinality(r.extents) > TargetTail
                    THEN Cardinality(r.extents) - TargetTail ELSE 1
        enough == {i \in DOMAIN segments :
                     Cardinality(Consumed(r, segments[i].max)) >= required}
    IN segments[Min(enough)].max

WithinBudget(r, cov) == ExtentBytes(Consumed(r, cov)) <= FoldBudget

TargetedFoldable(r, target) ==
    /\ Coverage(r) < target
    /\ IsBoundary(target)
    /\ Consumed(r, target) # {}
    /\ WithinBudget(r, target)

TryTargetedFold(t, target) ==
    LET r == record[t]
        promote == Promotes(r, target = Coverage(r))
    IN \/ promote /\ Promote(t)
       \/ ~promote /\ TargetedFoldable(r, target) /\ Advance(t, target)

\* A compaction no window of which is safe first advances the fold in its way.
FoldForward ==
    \E plan \in {SelectPlan} :
       /\ plan.n # 0
       /\ Refined(plan) = NoPlan
       /\ TryTargetedFold(Min(Conflicts(plan)), segments[Last(plan)].max)

StructuralFold ==
    /\ SelectPlan = NoPlan
    /\ PressureTerms # {}
    /\ \E t \in {Min(PressureTerms)} :
          LET r == record[t]
              promote == Promotes(r, ShouldPromote(r))
          IN \/ promote /\ Promote(t)
             \/ /\ ~promote
                /\ WithinBudget(r, StructuralTarget(r))
                /\ Advance(t, StructuralTarget(r))

\* The targets a workload fold may choose, by the benefit the heat promises.
WorkloadTargets(r) ==
    {cov \in {segments[i].max : i \in DOMAIN segments} :
       /\ TargetedFoldable(r, cov)
       /\ \/ r.minor.cov = 0 /\ Cardinality(Consumed(r, cov)) > 1
          \/ r.minor.cov # 0 /\ ExtentBytes(Consumed(r, cov)) >= FoldBytes(r.minor)}

WorkloadPromotes(r) == Promotes(r, ShouldPromote(r) \/ r.extents = {})

WorkloadFold(t) ==
    /\ "workload" \in Features
    /\ SelectPlan = NoPlan /\ PressureTerms = {}
    /\ \/ WorkloadPromotes(record[t]) /\ TryTargetedFold(t, record[t].minor.cov)
       \/ \E cov \in WorkloadTargets(record[t]) : TryTargetedFold(t, cov)

LiveFrequency(t) ==
    Cardinality({s \in record[t].major.lex \cup record[t].minor.lex :
                    document[s].state = "LIVE"})

BuildImpact(r) == [cov |-> Coverage(r), fresh |-> TRUE, lex |-> r.major.lex \cup r.minor.lex]

ImpactCurrent(r) == r.impact.cov = Coverage(r) /\ r.impact.fresh

Specialize(t) ==
    /\ "workload" \in Features
    /\ SelectPlan = NoPlan /\ PressureTerms = {} /\ l0 = {}
    /\ LET r == record[t]
       IN /\ ~\E e \in r.extents : e.kind = "lex"
          /\ r.major.cov # 0 /\ ~ImpactCurrent(r) /\ LiveFrequency(t) # 0
          /\ record' = [record EXCEPT ![t].impact = BuildImpact(r)]
          /\ residency' = [s \in Slots |-> residency[s] + InFold(BuildImpact(r), s)
                                             - InFold(r.impact, s)]
    /\ UNCHANGED <<segments, document, l0, baseline, sequence>>

Accelerate ==
    /\ "accelerator" \in Features
    /\ baseline < sequence
    /\ baseline' = sequence
    /\ UNCHANGED <<segments, record, document, residency, l0, sequence>>

Next ==
    \/ \E s \in Slots, c \in Contents : Insert(s, c)
    \/ \E s \in Slots : Complete(s) \/ Retire(s)
    \/ Seal
    \/ Compact
    \/ FoldForward
    \/ StructuralFold
    \/ \E t \in Terms : WorkloadFold(t) \/ Specialize(t)
    \/ Accelerate

Spec == Init /\ [][Next]_vars

-----------------------------------------------------------------------------
(* What a query reads of a term. *)

UseImpact(r) == l0 = {} /\ Coverage(r) # 0 /\ ImpactCurrent(r)

\* The runs of a kind in the order they are read: folds, then extents.
PlanRuns(t, k) ==
    LET r == record[t]
        folds == IF k = "lex" /\ UseImpact(r) THEN <<r.impact.lex>>
                 ELSE <<r.major[k], r.minor[k]>>
    IN <<RunsOf(t, k, r.extents)>> \o folds

PlanValid(t) ==
    \A e \in record[t].extents :
       /\ \E i \in DOMAIN segments : Id(segments[i]) = e.seg
       /\ e.seg[1] > Coverage(record[t])

Read(t, k) == UNION {PlanRuns(t, k)[i] : i \in DOMAIN PlanRuns(t, k)}

-----------------------------------------------------------------------------
(* Properties. *)

FoldType == [cov : Nat, lex : SUBSET Slots, sem : SUBSET Slots]
ExtentType == [seg : Nat \X Nat, kind : Kinds, count : Nat]
SegmentType == [min : Nat, max : Nat, lex : [Terms -> SUBSET Slots],
                sem : [Terms -> SUBSET Slots]]

(* The manifest, the directory and the documents are of their types, and   *)
(* the segments cover disjoint ascending intervals of sequences.           *)
TypeOK ==
    /\ \A i \in DOMAIN segments :
          /\ segments[i] \in SegmentType
          /\ segments[i].min <= segments[i].max
          /\ i > 1 => segments[i - 1].max < segments[i].min
    /\ \A t \in Terms :
          /\ record[t].df \in Nat
          /\ record[t].extents \subseteq ExtentType
          /\ {record[t].major, record[t].minor} \subseteq FoldType
          /\ record[t].impact.lex \subseteq Slots
          /\ RecordValid(record[t])
    /\ \A s \in Slots : document[s].state \in {"FREE", "LIVE", "RETIRED"} /\ residency[s] \in Nat
    /\ l0 \subseteq Slots \X Kinds
    /\ {baseline, sequence} \subseteq 0..MaxSequence

(* A query of a term reads every sealed posting of every live document     *)
(* once, whatever sealing, compaction and folding did to its record, and   *)
(* nothing of a document that no longer has the term (the plan of          *)
(* evoke_segment_pages_load_query_term_plan_internal).                     *)
ReadsExact ==
    \A t \in Terms, k \in Kinds :
       /\ PlanValid(t)
       /\ {s \in Read(t, k) : document[s].state = "LIVE"} =
             {s \in Slots : document[s].state = "LIVE" /\ Sealed(s, k) /\ t \in document[s][k]}
       /\ \A s \in Read(t, k) : document[s].state # "FREE" /\ t \in document[s][k]
       /\ LET r == record[t]
          IN FoldBytes(r.major) + FoldBytes(r.minor) + ExtentBytes(r.extents)
               = Cardinality({x \in Kinds \X Slots :
                                x[2] \in r.major[x[1]] \cup r.minor[x[1]]
                                            \cup RunsOf(t, x[1], r.extents)})

(* The raw document frequency of a record counts its readable lexical      *)
(* postings: compaction subtracts what it drops, folding changes nothing.  *)
FrequencyExact ==
    \A t \in Terms :
       LET r == record[t]
       IN r.df = Cardinality(r.major.lex \cup r.minor.lex \cup RunsOf(t, "lex", r.extents))

(* The residency of a slot counts its postings in every segment and every  *)
(* fold, so a slot is only reused when none is left anywhere.              *)
ResidencyExact ==
    \A s \in Slots :
       residency[s] =
         MapThenSumSet(LAMBDA i : InSegment(segments[i], s), DOMAIN segments)
         + MapThenSumSet(LAMBDA t : InFold(record[t].major, s) + InFold(record[t].minor, s)
                                      + InFold(record[t].impact, s), Terms)

(* What maintenance selects is never refused: a compaction the preflight   *)
(* let through removes exactly the extents of its runs, and a fold it      *)
(* selects is at a boundary, consumes something and meets no posting twice.*)
MaintenanceAccepted ==
    LET plan == SelectPlan
        p == IF plan = NoPlan THEN NoPlan ELSE Refined(plan)
    IN /\ p.n # 0 => \A t \in Terms : ReplaceAccepted(t, p, Merged(p))
       /\ \A t \in Terms :
             LET r == record[t]
             IN /\ r.minor.cov # 0 =>
                      /\ NeutralFoldAccepted(t, TRUE, MergeNeutral(r))
                      /\ FoldBytes(MergeNeutral(r)) = FoldBytes(r.major) + FoldBytes(r.minor)
                /\ \A i \in DOMAIN segments :
                      TargetedFoldable(r, segments[i].max) =>
                         /\ NeutralFoldAccepted(t, r.major.cov = 0, AdvanceNeutral(t, segments[i].max))
                         /\ FoldDisjoint(t, segments[i].max)

(* The impacts a query uses in place of the lexical folds are of exactly   *)
(* the same documents, under the statistics of the root.                   *)
ImpactMatches ==
    \A t \in Terms :
       UseImpact(record[t]) =>
          /\ record[t].impact.lex = record[t].major.lex \cup record[t].minor.lex
          /\ record[t].impact.fresh
          /\ RunsOf(t, "lex", record[t].extents) = {}

(* The watermark of a term never moves back, and a fold never loses a      *)
(* posting.                                                                *)
CoverageStep ==
    \A t \in Terms :
       /\ Coverage(record[t]) <= Coverage(record'[t])
       /\ \A k \in Kinds : record[t].major[k] \cup record[t].minor[k]
                             \subseteq record'[t].major[k] \cup record'[t].minor[k]
CoverageMonotone == [][CoverageStep]_vars

=============================================================================
