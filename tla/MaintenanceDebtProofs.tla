------------------------ MODULE MaintenanceDebtProofs ------------------------
(***************************************************************************)
(* Proofs about MaintenanceScheduler, for any indexes, databases, workers  *)
(* and table sizes: the hint table stays searchable, a class marked as     *)
(* running has a worker, and no debt of an index is forgotten.             *)
(***************************************************************************)
EXTENDS MaintenanceSchedulerProofs, WorkHintsProofs, FiniteSetTheorems

-----------------------------------------------------------------------------
(***************************************************************************)
(* The shared state                                                        *)
(***************************************************************************)
SharedOK(s) == DOMAIN s = {"hints", "rec"} /\ Sound(s.hints)

\* Shared state t comes after s: the table stays sound and hints only move on.
After(s, t) == DOMAIN t = {"hints", "rec"} /\ Forward(s.hints, t.hints)

\* No index loses a class but i the class flag.
KeepsBut(s, t, i, flag) ==
  \A j \in Indexes, f \in Classes :
    j # i \/ f # flag => Keeps(s.hints, t.hints, j, f)

KeepsAll(s, t) ==
  \A j \in Indexes, f \in Classes : Keeps(s.hints, t.hints, j, f)

LEMMA AfterOK ==
    ASSUME NEW s, NEW t, After(s, t)
    PROVE  SharedOK(t)
    BY DEF After, Forward, SharedOK

LEMMA AfterSame ==
    ASSUME WorkHintsAssumption, NEW s, SharedOK(s), NEW t,
           DOMAIN t = {"hints", "rec"}, t.hints = s.hints
    PROVE  After(s, t) /\ KeepsAll(s, t)
<1>1. s.hints.sequence <= s.hints.sequence
    BY DEF SharedOK, Sound, TableOK
<1> QED
    BY <1>1 DEF SharedOK, After, Forward, KeepsAll, Keeps

LEMMA AfterAgain ==
    ASSUME NEW s, SharedOK(s), NEW t, NEW u, After(s, t), After(t, u)
    PROVE  After(s, u)
<1>1. TableOK(s.hints)
    BY DEF SharedOK, Sound
<1> QED
    BY <1>1, ForwardAgain DEF After

LEMMA KeepsAgain ==
    ASSUME NEW s, NEW t, NEW u, KeepsAll(s, t), KeepsAll(t, u)
    PROVE  KeepsAll(s, u)
    BY DEF KeepsAll, Keeps

\* A mark sets the classes and a new sequence, or becomes a request.
LEMMA MarkedStep ==
    ASSUME WorkHintsAssumption, NEW s, SharedOK(s), NEW i \in Indexes,
           NEW F \in SUBSET Classes, F # {}
    PROVE  /\ After(s, Marked(s, i, F))
           /\ KeepsAll(s, Marked(s, i, F))
           /\ \/ /\ F \subseteq HintOf(Marked(s, i, F).hints, i).flags
                 /\ HintOf(Marked(s, i, F).hints, i).sequence = s.hints.sequence + 1
                 /\ Marked(s, i, F).rec = s.rec
              \/ /\ Overflows(s.hints, i)
                 /\ Marked(s, i, F).hints = s.hints
                 /\ Marked(s, i, F).rec = Requested(s.rec, DbOf[i], F)
<1>1. CASE Overflows(s.hints, i)
    <2>1. PICK t : t = [s EXCEPT !.rec = Requested(s.rec, DbOf[i], F)]
        OBVIOUS
    <2>2. /\ DOMAIN t = {"hints", "rec"} /\ t.hints = s.hints
          /\ t.rec = Requested(s.rec, DbOf[i], F)
        BY <2>1 DEF SharedOK
    <2>3. Marked(s, i, F) = t
        BY <1>1, <2>1 DEF Marked
    <2> QED
        BY <1>1, <2>2, <2>3, AfterSame
<1>2. CASE ~Overflows(s.hints, i)
    <2>1. PICK t : t = [s EXCEPT !.hints = Mark(s.hints, i, F)]
        OBVIOUS
    <2>2. /\ DOMAIN t = {"hints", "rec"} /\ t.hints = Mark(s.hints, i, F)
          /\ t.rec = s.rec
        BY <2>1 DEF SharedOK
    <2>3. Marked(s, i, F) = t
        BY <1>2, <2>1 DEF Marked
    <2>4. /\ Forward(s.hints, Mark(s.hints, i, F))
          /\ HintOf(Mark(s.hints, i, F), i).sequence = s.hints.sequence + 1
          /\ F \subseteq HintOf(Mark(s.hints, i, F), i).flags
          /\ \A j \in Indexes, f \in Classes : Keeps(s.hints, Mark(s.hints, i, F), j, f)
        BY <1>2, MarkEffect DEF SharedOK
    <2> QED
        BY <2>2, <2>3, <2>4 DEF After, KeepsAll
<1> QED
    BY <1>1, <1>2

\* A deferral sets the maintenance class, or becomes a request.
LEMMA DeferredStep ==
    ASSUME WorkHintsAssumption, NEW s, SharedOK(s), NEW i \in Indexes
    PROVE  /\ After(s, Deferred(s, i))
           /\ KeepsAll(s, Deferred(s, i))
           /\ \/ /\ "maintenance" \in HintOf(Deferred(s, i).hints, i).flags
                 /\ Deferred(s, i).rec = s.rec
              \/ /\ Overflows(s.hints, i)
                 /\ Deferred(s, i).hints = s.hints
                 /\ Deferred(s, i).rec = Requested(s.rec, DbOf[i], {"maintenance"})
<1>1. CASE Overflows(s.hints, i)
    <2>1. PICK t : t = [s EXCEPT !.rec = Requested(s.rec, DbOf[i], {"maintenance"})]
        OBVIOUS
    <2>2. /\ DOMAIN t = {"hints", "rec"} /\ t.hints = s.hints
          /\ t.rec = Requested(s.rec, DbOf[i], {"maintenance"})
        BY <2>1 DEF SharedOK
    <2>3. Deferred(s, i) = t
        BY <1>1, <2>1 DEF Deferred
    <2> QED
        BY <1>1, <2>2, <2>3, AfterSame
<1>2. CASE ~Overflows(s.hints, i)
    <2>1. PICK t : t = [s EXCEPT !.hints = DeferAccelerator(s.hints, i)]
        OBVIOUS
    <2>2. /\ DOMAIN t = {"hints", "rec"} /\ t.hints = DeferAccelerator(s.hints, i)
          /\ t.rec = s.rec
        BY <2>1 DEF SharedOK
    <2>3. Deferred(s, i) = t
        BY <1>2, <2>1 DEF Deferred
    <2>4. /\ Forward(s.hints, DeferAccelerator(s.hints, i))
          /\ "maintenance" \in HintOf(DeferAccelerator(s.hints, i), i).flags
          /\ \A j \in Indexes, f \in Classes :
               Keeps(s.hints, DeferAccelerator(s.hints, i), j, f)
        BY <1>2, DeferEffect DEF SharedOK
    <2> QED
        BY <2>2, <2>3, <2>4 DEF After, KeepsAll
<1> QED
    BY <1>1, <1>2

\* A clear takes the maintenance class of one index, and only if its hint has
\* the sequence it was read with.
ClearsAt(s, t, i, n) ==
  /\ After(s, t)
  /\ KeepsBut(s, t, i, "maintenance")
  /\ HintOf(s.hints, i).sequence # n => KeepsAll(s, t)

LEMMA ClearStep ==
    ASSUME WorkHintsAssumption, NEW s, SharedOK(s), NEW i \in Indexes, NEW n,
           NEW t, DOMAIN t = {"hints", "rec"},
           t.hints = ClearIfUnchanged(s.hints, i, "maintenance", n)
    PROVE  ClearsAt(s, t, i, n)
<1>1. /\ Forward(s.hints, t.hints)
      /\ \A j \in Indexes, f \in Classes :
           f # "maintenance" \/ j # i \/ HintOf(s.hints, j).sequence # n
             => Keeps(s.hints, t.hints, j, f)
    BY ClearEffect DEF SharedOK, Classes
<1> QED
    BY <1>1 DEF ClearsAt, After, KeepsBut, KeepsAll

LEMMA ClearedStep ==
    ASSUME WorkHintsAssumption, NEW s, SharedOK(s), NEW i \in Indexes, NEW n
    PROVE  ClearsAt(s, Cleared(s, i, n), i, n) /\ Cleared(s, i, n).rec = s.rec
<1>1. PICK t : t = [s EXCEPT !.hints = ClearIfUnchanged(s.hints, i, "maintenance", n)]
    OBVIOUS
<1>2. /\ DOMAIN t = {"hints", "rec"} /\ t.rec = s.rec
      /\ t.hints = ClearIfUnchanged(s.hints, i, "maintenance", n)
    BY <1>1 DEF SharedOK
<1> QED
    BY <1>1, <1>2, ClearStep DEF Cleared

\* What a counted result leaves of the shared state s.
LEMMA CountedShared ==
    ASSUME WorkHintsAssumption, NEW w \in Workers, NEW s, SharedOK(s),
           worker[w].chosen.index \in Indexes, NEW a \in BOOLEAN, Counted(w, s, a)
    PROVE  /\ ClearsAt(s, sched', worker[w].chosen.index, worker[w].chosen.sequence)
           /\ sched'.rec = Serviced(s.rec, worker[w].db, worker[w].chosen.index)
           /\ ~worker[w].chosen.hinted => KeepsAll(s, sched')
<1>1. PICK i \in Indexes : i = worker[w].chosen.index
    OBVIOUS
<1>2. PICK n : n = worker[w].chosen.sequence
    OBVIOUS
<1>3. PICK h : h = IF a THEN ResetAge(s.hints, i) ELSE s.hints
    OBVIOUS
<1>4. /\ DOMAIN sched' = {"hints", "rec"}
      /\ sched'.rec = Serviced(s.rec, worker[w].db, i)
      /\ \/ sched'.hints = ClearIfUnchanged(h, i, "maintenance", n)
         \/ sched'.hints = h
      /\ ~worker[w].chosen.hinted => sched'.hints = h
    BY <1>1, <1>2, <1>3 DEF Counted
<1>5. /\ Forward(s.hints, h)
      /\ \A j \in Indexes : /\ HintOf(h, j).flags = HintOf(s.hints, j).flags
                            /\ HintOf(h, j).sequence = HintOf(s.hints, j).sequence
    <2>1. CASE a
        BY <1>3, <2>1, ResetAgeEffect DEF SharedOK
    <2>2. CASE ~a
        <3>1. After(s, s)
            BY AfterSame DEF SharedOK
        <3> QED
            BY <1>3, <2>2, <3>1 DEF After
    <2> QED
        BY <2>1, <2>2
<1>6. PICK m : DOMAIN m = {"hints", "rec"} /\ m.hints = h
    <2>1. PICK m : m = [hints |-> h, rec |-> s.rec]
        OBVIOUS
    <2> QED
        BY <2>1
<1>7. After(s, m) /\ KeepsAll(s, m) /\ SharedOK(m)
    BY <1>5, <1>6 DEF After, KeepsAll, Keeps, SharedOK, Forward
<1>8. ClearsAt(m, sched', i, n)
    <2>1. CASE sched'.hints = ClearIfUnchanged(h, i, "maintenance", n)
        BY <1>4, <1>6, <1>7, <2>1, ClearStep
    <2>2. CASE sched'.hints = h
        BY <1>4, <1>6, <1>7, <2>2, AfterSame DEF ClearsAt, KeepsBut, KeepsAll
    <2> QED
        BY <1>4, <2>1, <2>2
<1>9. ClearsAt(s, sched', i, n)
    <2>1. After(s, sched')
        BY <1>7, <1>8, AfterAgain DEF ClearsAt
    <2>2. KeepsBut(s, sched', i, "maintenance")
        BY <1>7, <1>8 DEF ClearsAt, KeepsBut, KeepsAll, Keeps
    <2>3. HintOf(s.hints, i).sequence # n => KeepsAll(s, sched')
        BY <1>5, <1>6, <1>7, <1>8, KeepsAgain DEF ClearsAt
    <2> QED
        BY <2>1, <2>2, <2>3 DEF ClearsAt
<1>10. ~worker[w].chosen.hinted => KeepsAll(s, sched')
    BY <1>4, <1>6, <1>7, AfterSame, KeepsAgain
<1> QED
    BY <1>1, <1>2, <1>4, <1>9, <1>10

\* What an uncounted one leaves.
LEMMA UncountedShared ==
    ASSUME WorkHintsAssumption, NEW w \in Workers, NEW s, SharedOK(s),
           worker[w].chosen.index \in Indexes, Uncounted(w, s)
    PROVE  After(s, sched') /\ KeepsAll(s, sched')
<1>1. CASE worker[w].chosen.hinted
    <2>1. sched' = s
        BY <1>1 DEF Uncounted
    <2> QED
        BY <2>1, AfterSame DEF SharedOK
<1>2. CASE ~worker[w].chosen.hinted
    <2>1. sched' = Marked(s, worker[w].chosen.index, {"maintenance"})
        BY <1>2 DEF Uncounted
    <2> QED
        BY <2>1, MarkedStep DEF Classes
<1> QED
    BY <1>1, <1>2

-----------------------------------------------------------------------------
(***************************************************************************)
(* The hint table stays sound                                              *)
(***************************************************************************)
TInv == IInv /\ SharedOK(sched)

\* What a step of the whole system does to the table: hints move on, and the
\* preload class of an index goes only with a worker that consumes it.
TableMoves ==
  /\ After(sched, sched')
  /\ \A i \in Indexes :
       \/ Keeps(sched.hints, sched'.hints, i, "preload")
       \/ \E w \in Workers : ConsumePreload(w) /\ i \in Mine(worker[w].db)

LEMMA KeptMoves ==
    ASSUME After(sched, sched') /\ KeepsAll(sched, sched')
    PROVE  TableMoves
    BY DEF TableMoves, KeepsAll, Classes

LEMMA ClearedMoves ==
    ASSUME NEW i, NEW n, ClearsAt(sched, sched', i, n)
    PROVE  TableMoves
    BY DEF TableMoves, ClearsAt, KeepsBut, Classes

LEMMA SameHints ==
    ASSUME WorkHintsAssumption, TInv, DOMAIN sched' = {"hints", "rec"},
           sched'.hints = sched.hints
    PROVE  After(sched, sched') /\ KeepsAll(sched, sched')
    BY AfterSame DEF TInv

LEMMA SameShared ==
    ASSUME WorkHintsAssumption, TInv, sched' = sched
    PROVE  After(sched, sched') /\ KeepsAll(sched, sched')
    BY AfterSame DEF TInv, SharedOK

\* The passing of time changes one hint.
LEMMA TimeMoves ==
    ASSUME WorkHintsAssumption, TInv, NEW s \in Slots(sched.hints),
           Age(s) \/ CoolDown(s)
    PROVE  /\ After(sched, sched') /\ KeepsAll(sched, sched')
           /\ sched'.rec = sched.rec
<1>1. s \in Positions /\ sched.hints.slots \in [Positions -> Hint]
    BY DEF TInv, SharedOK, Sound, TableOK, Slots
<1>2. PICK h : h = IF Age(s) THEN [sched.hints.slots[s] EXCEPT !.marked = "aged"]
                   ELSE [sched.hints.slots[s] EXCEPT !.cooldown = FALSE]
    OBVIOUS
<1>3. PICK g \in Hint : g = sched.hints.slots[s]
    BY <1>1
<1>4. /\ h \in Hint /\ h.flags = g.flags /\ h.index = g.index /\ h.sequence = g.sequence
    BY <1>2, <1>3 DEF Hint
<1>5. PICK v : v = [sched.hints EXCEPT !.slots = [@ EXCEPT ![s] = h]]
    OBVIOUS
<1>6. /\ DOMAIN v = {"slots", "sequence"} /\ v.sequence = sched.hints.sequence
      /\ v.slots = [sched.hints.slots EXCEPT ![s] = h]
    BY <1>5 DEF TInv, SharedOK, Sound, TableOK
<1>7. sched' = [sched EXCEPT !.hints = v]
    BY <1>1, <1>2, <1>5 DEF Age, CoolDown, TInv, SharedOK, Sound, TableOK
<1>8. /\ sched'.hints = v /\ sched'.rec = sched.rec /\ DOMAIN sched' = {"hints", "rec"}
    BY <1>7 DEF TInv, SharedOK
<1>9. /\ Forward(sched.hints, v)
      /\ \A i \in Indexes : HintOf(v, i).flags = HintOf(sched.hints, i).flags
    <2>1. PICK t : t = sched.hints
        OBVIOUS
    <2>2. Sound(t)
        BY <2>1 DEF TInv, SharedOK
    <2>3. /\ h.flags = t.slots[s].flags /\ h.index = t.slots[s].index
          /\ h.sequence = t.slots[s].sequence
        BY <1>3, <1>4, <2>1
    <2> QED
        BY <1>1, <1>4, <1>6, <2>1, <2>2, <2>3, OneRefreshed
<1> QED
    BY <1>8, <1>9 DEF After, KeepsAll, Keeps

\* Where a worker acts it has an index.
LEMMA ActsOnIndex ==
    ASSUME TInv, NEW w \in Workers, worker[w].pc \in Acting
    PROVE  worker[w].chosen.index \in Indexes
    BY DEF TInv, IInv, WorkersOK, RecordOK

LEMMA EnvironmentMoves ==
    ASSUME WorkHintsAssumption, TInv, Environment
    PROVE  TableMoves
<1>1. ASSUME NEW i \in Indexes, Write(i) \/ Heat(i)
      PROVE  TableMoves
    <2>1. sched' = Marked(sched, i, {"maintenance"})
        BY <1>1 DEF Write, Heat
    <2> QED
        BY <2>1, MarkedStep, KeptMoves DEF TInv, Classes
<1>2. ASSUME NEW s \in Slots(sched.hints), Age(s) \/ CoolDown(s)
      PROVE  TableMoves
    BY <1>2, TimeMoves, KeptMoves
<1>3. ASSUME NEW d \in Databases, ClearCache(d)
      PROVE  TableMoves
    <2>1. DOMAIN sched' = {"hints", "rec"} /\ sched'.hints = sched.hints
        BY <1>3 DEF ClearCache, TInv, SharedOK
    <2> QED
        BY <2>1, SameHints, KeptMoves
<1>4. ASSUME NEW e \in Entries, NEW flag \in Classes, ReconcileDue(e, flag)
      PROVE  TableMoves
    <2>1. DOMAIN sched' = {"hints", "rec"} /\ sched'.hints = sched.hints
        BY <1>4 DEF ReconcileDue, TInv, SharedOK
    <2> QED
        BY <2>1, SameHints, KeptMoves
<1> QED
    BY <1>1, <1>2, <1>3, <1>4 DEF Environment

LEMMA SelectionMoves ==
    ASSUME WorkHintsAssumption, TInv, NEW w \in Workers,
           \/ ClaimPreload(w) \/ QueryPreload(w) \/ QueryPreloadFails(w)
           \/ SnapshotMaintenance(w) \/ ClaimMaintenance(w) \/ QueryMaintenance(w)
           \/ QueryMaintenanceFails(w) \/ Judge(w) \/ JudgeLocked(w)
           \/ JudgeFails(w) \/ Fail(w) \/ Terminate(w)
    PROVE  TableMoves /\ KeepsAll(sched, sched')
<1>1. DOMAIN sched' = {"hints", "rec"} /\ sched'.hints = sched.hints
    BY DEF TInv, SharedOK, ClaimPreload, QueryPreload, QueryPreloadFails,
           SnapshotMaintenance, ClaimMaintenance, QueryMaintenance,
           QueryMaintenanceFails, Judge, JudgeLocked, JudgeFails, Fail, Terminate
<1> QED
    BY <1>1, SameHints, KeptMoves

LEMMA ConsumeMoves ==
    ASSUME WorkHintsAssumption, TInv, NEW w \in Workers, ConsumePreload(w)
    PROVE  TableMoves
<1>1. PICK mine : mine = Mine(worker[w].db)
    OBVIOUS
<1>2. /\ DOMAIN sched' = {"hints", "rec"}
      /\ sched'.hints = Consume(sched.hints, mine, "preload")
    BY <1>1 DEF ConsumePreload, TInv, SharedOK
<1>3. /\ Forward(sched.hints, Consume(sched.hints, mine, "preload"))
      /\ \A i \in Indexes, f \in Classes :
           f # "preload" \/ i \notin mine
             => Keeps(sched.hints, Consume(sched.hints, mine, "preload"), i, f)
    BY ConsumeEffect DEF TInv, SharedOK, Classes
<1> QED
    BY <1>1, <1>2, <1>3 DEF TableMoves, After, Classes

\* What one index brings about: marks, the end of a cooldown, or nothing.
Allowed(s, i) == [s EXCEPT !.hints = AllowAcceleratorNow(s.hints, i)]

\* The accelerator of an index may be built again.
LEMMA AllowedStep ==
    ASSUME WorkHintsAssumption, NEW s, SharedOK(s), NEW i \in Indexes
    PROVE  /\ After(s, Allowed(s, i)) /\ KeepsAll(s, Allowed(s, i))
           /\ Allowed(s, i).rec = s.rec
           /\ \A j \in Indexes :
                HintOf(Allowed(s, i).hints, j).sequence = HintOf(s.hints, j).sequence
<1>3. PICK t : t = Allowed(s, i)
    OBVIOUS
<1>1. /\ DOMAIN t = {"hints", "rec"} /\ t.rec = s.rec
      /\ t.hints = AllowAcceleratorNow(s.hints, i)
    BY <1>3 DEF SharedOK, Allowed
<1>2. /\ Forward(s.hints, AllowAcceleratorNow(s.hints, i))
      /\ \A j \in Indexes :
           /\ HintOf(AllowAcceleratorNow(s.hints, i), j).flags = HintOf(s.hints, j).flags
           /\ HintOf(AllowAcceleratorNow(s.hints, i), j).sequence
                = HintOf(s.hints, j).sequence
    BY AllowEffect DEF SharedOK
<1> QED
    BY <1>1, <1>2, <1>3 DEF After, KeepsAll, Keeps

\* A preload leaves marks of the two classes, the accelerator's first.
LEMMA PreloadForm ==
    ASSUME NEW w \in Workers, Preload(w) \/ PreloadBusy(w) \/ PreloadDeclines(w)
    PROVE  /\ worker[w].pc \in Acting
           /\ \E i \in {worker[w].chosen.index} :
              \E s \in {sched, Marked(sched, i, {"maintenance"})} :
                sched' \in {s, Marked(s, i, {"preload"})}
    BY DEF Preload, PreloadBusy, PreloadDeclines, AcceleratorMarked, At, Acting

\* The actions that count, ...
Counting(w) ==
  \/ Rotate(w) \/ Seal(w) \/ Restructure(w) \/ CompleteSemantic(w)
  \/ TruncateTail(w) \/ FoldHot(w) \/ FinishBuild(w)

LEMMA CountedForm ==
    ASSUME NEW w \in Workers, Counting(w)
    PROVE  /\ worker[w].pc \in Acting
           /\ \E i \in {worker[w].chosen.index} :
              \E s \in {sched, Marked(sched, i, {"preload"})} :
              \E t \in {s, Marked(s, i, {"maintenance"}), Allowed(s, i)} :
              \E a \in BOOLEAN : Counted(w, t, a)
<1>1. CASE Rotate(w) \/ CompleteSemantic(w)
    BY <1>1 DEF Rotate, CompleteSemantic, SemanticTurn, RestTurn, At, Acting
<1>2. CASE Seal(w) \/ Restructure(w)
    <2>1. worker[w].pc \in Acting
        BY <1>2 DEF Seal, Restructure, SealTurn, RootTurn, RestTurn, At, Acting
    <2>2. \E a \in BOOLEAN : PublishedMarked(w, a)
        BY <1>2 DEF Seal, Restructure
    <2> QED
        BY <2>1, <2>2 DEF PublishedMarked, PreloadScheduled
<1>3. CASE TruncateTail(w) \/ FoldHot(w)
    BY <1>3 DEF TruncateTail, FoldHot, RootTurn, RestTurn, At, Acting, PreloadScheduled
<1>4. CASE FinishBuild(w)
    BY <1>4 DEF FinishBuild, At, Acting, PreloadScheduled, Allowed
<1> QED
    BY <1>1, <1>2, <1>3, <1>4 DEF Counting

\* ... and those that do not.
NotCounting(w) ==
  \/ Defer(w) \/ Stall(w) \/ DeferToBuild(w) \/ NothingDone(w)
  \/ LoseBuild(w) \/ AbandonBuild(w)

LEMMA UncountedForm ==
    ASSUME NEW w \in Workers, NotCounting(w)
    PROVE  /\ worker[w].pc \in Acting
           /\ \E i \in {worker[w].chosen.index} :
              \E s \in {sched, Marked(sched, i, {"maintenance"}), Deferred(sched, i),
                        Allowed(sched, i)} : Uncounted(w, s)
<1>1. CASE Defer(w) \/ Stall(w)
    BY <1>1 DEF Defer, Stall, SealTurn, SemanticTurn, BuildTurn, Jumps, RootTurn,
                RestTurn, At, Acting
<1>2. CASE DeferToBuild(w) \/ NothingDone(w)
    BY <1>2 DEF DeferToBuild, NothingDone, BuildTurn, Jumps, RootTurn, RestTurn, At, Acting
<1>3. CASE LoseBuild(w) \/ AbandonBuild(w)
    BY <1>3 DEF LoseBuild, AbandonBuild, At, Acting, Allowed
<1> QED
    BY <1>1, <1>2, <1>3 DEF NotCounting

\* Where a build starts.
LEMMA StartForm ==
    ASSUME NEW w \in Workers, StartBuild(w)
    PROVE  worker[w].pc = "execute"
    BY DEF StartBuild, BuildTurn, Jumps, RootTurn, RestTurn, At

\* Marks and clears of single indexes during selection.
LEMMA MarkMoves ==
    ASSUME WorkHintsAssumption, TInv, NEW w \in Workers,
           \/ PickPreload(w) \/ Preload(w) \/ PreloadBusy(w) \/ PreloadDeclines(w)
           \/ MarkLow(w) \/ Apply(w)
    PROVE  TableMoves /\ KeepsAll(sched, sched')
<1>1. ASSUME NEW i \in Indexes, NEW F \in SUBSET Classes, F # {},
             sched' = Marked(sched, i, F)
      PROVE  TableMoves /\ KeepsAll(sched, sched')
    BY <1>1, MarkedStep, KeptMoves DEF TInv
<1>2. ASSUME sched' = sched
      PROVE  TableMoves /\ KeepsAll(sched, sched')
    BY <1>2, SameShared, KeptMoves
<1>3. {"preload"} \in SUBSET Classes /\ {"maintenance"} \in SUBSET Classes
    BY DEF Classes
<1>4. CASE PickPreload(w)
    <2>1. PICK i \in worker[w].oids :
            sched' = sched \/ sched' = Marked(sched, i, {"preload"})
        BY <1>4 DEF PickPreload
    <2>2. i \in Indexes
        BY <2>1 DEF TInv, IInv, WorkersOK, RecordOK
    <2> QED
        BY <1>1, <1>2, <1>3, <2>1, <2>2
<1>5. CASE Preload(w) \/ PreloadBusy(w) \/ PreloadDeclines(w)
    <2>1. PICK i : i = worker[w].chosen.index
        OBVIOUS
    <2>2. worker[w].pc \in Acting
        BY <1>5, PreloadForm
    <2>6. i \in Indexes
        BY <2>1, <2>2, ActsOnIndex
    <2>3. PICK s \in {sched, Marked(sched, i, {"maintenance"})} :
            sched' \in {s, Marked(s, i, {"preload"})}
        BY <1>5, <2>1, PreloadForm
    <2>4. After(sched, s) /\ KeepsAll(sched, s) /\ SharedOK(s)
        BY <1>3, <2>6, <2>3, MarkedStep, AfterSame, AfterOK DEF TInv, SharedOK
    <2>5. After(s, sched') /\ KeepsAll(s, sched')
        BY <1>3, <2>6, <2>3, <2>4, MarkedStep, AfterSame DEF SharedOK
    <2> QED
        BY <2>4, <2>5, AfterAgain, KeepsAgain, KeptMoves DEF TInv
<1>7. CASE MarkLow(w)
    <2>1. PICK i : i = worker[w].chosen.index
        OBVIOUS
    <2>2. i \in Indexes
        BY <1>7, <2>1, ActsOnIndex DEF MarkLow, At, Acting
    <2>3. sched' = Marked(sched, i, {"maintenance"})
        BY <1>7, <2>1 DEF MarkLow
    <2> QED
        BY <1>1, <1>3, <2>2, <2>3
<1>6. CASE Apply(w)
    <2>1. PICK c : /\ c = Best(w)
                   /\ sched' = sched \/ sched' = Marked(sched, c.index, {"maintenance"})
        BY <1>6 DEF Apply
    <2>2. worker[w].pc = "apply" /\ Best(w) \in worker[w].candidates
        BY <1>6, BestIsCandidate DEF Apply, At, TInv
    <2>3. c.index \in Indexes
        BY <2>1, <2>2 DEF TInv, IInv, WorkersOK, RecordOK
    <2> QED
        BY <1>1, <1>2, <1>3, <2>1, <2>3
<1> QED
    BY <1>4, <1>5, <1>6, <1>7

LEMMA ButAgain ==
    ASSUME NEW s, NEW t, NEW u, NEW i, KeepsAll(s, t), KeepsBut(t, u, i, "maintenance")
    PROVE  KeepsBut(s, u, i, "maintenance")
    BY DEF KeepsAll, KeepsBut, Keeps

LEMMA ButMoves ==
    ASSUME After(sched, sched'), NEW i, KeepsBut(sched, sched', i, "maintenance")
    PROVE  TableMoves
    BY DEF TableMoves, KeepsBut, Classes

LEMMA ClearMoves ==
    ASSUME WorkHintsAssumption, TInv, NEW w \in Workers, ClearIdle(w)
    PROVE  /\ After(sched, sched')
           /\ KeepsBut(sched, sched', worker[w].chosen.index, "maintenance")
<1>1. PICK i : i = worker[w].chosen.index
    OBVIOUS
<1>2. i \in Indexes
    BY <1>1, ActsOnIndex DEF ClearIdle, At, Acting
<1>3. sched' = Cleared(sched, i, worker[w].chosen.sequence)
    BY <1>1 DEF ClearIdle
<1> QED
    BY <1>1, <1>2, <1>3, ClearedStep DEF ClearsAt, TInv

\* Counted outcomes: marks, then the clear.
LEMMA CountedMoves ==
    ASSUME WorkHintsAssumption, TInv, NEW w \in Workers, Counting(w)
    PROVE  /\ After(sched, sched')
           /\ KeepsBut(sched, sched', worker[w].chosen.index, "maintenance")
<1>1. PICK i : i = worker[w].chosen.index
    OBVIOUS
<1>2. i \in Indexes
    BY <1>1, CountedForm, ActsOnIndex
<1>3. {"preload"} \in SUBSET Classes /\ {"maintenance"} \in SUBSET Classes
    BY DEF Classes
<1>4. PICK s \in {sched, Marked(sched, i, {"preload"})} :
      \E t \in {s, Marked(s, i, {"maintenance"}), Allowed(s, i)} :
      \E a \in BOOLEAN : Counted(w, t, a)
    BY <1>1, CountedForm
<1>5. SharedOK(sched)
    BY DEF TInv
<1>6. After(sched, s) /\ KeepsAll(sched, s) /\ SharedOK(s)
    BY <1>2, <1>3, <1>4, <1>5, MarkedStep, AfterSame, AfterOK DEF SharedOK
<1>7. PICK t \in {s, Marked(s, i, {"maintenance"}), Allowed(s, i)} :
        \E a \in BOOLEAN : Counted(w, t, a)
    BY <1>4
<1>8. After(s, t) /\ KeepsAll(s, t) /\ SharedOK(t)
    <2>1. CASE t = s
        BY <1>6, <2>1, AfterSame DEF SharedOK
    <2>2. CASE t = Marked(s, i, {"maintenance"})
        BY <1>2, <1>3, <1>6, <2>2, MarkedStep, AfterOK
    <2>3. CASE t = Allowed(s, i)
        BY <1>2, <1>6, <2>3, AllowedStep, AfterOK
    <2> QED
        BY <1>7, <2>1, <2>2, <2>3
<1>9. After(sched, t) /\ KeepsAll(sched, t)
    BY <1>5, <1>6, <1>8, AfterAgain, KeepsAgain
<1>10. After(t, sched') /\ KeepsBut(t, sched', i, "maintenance")
    BY <1>1, <1>2, <1>7, <1>8, CountedShared DEF ClearsAt
<1> QED
    BY <1>1, <1>5, <1>9, <1>10, AfterAgain, ButAgain

\* Uncounted outcomes: marks and deferrals; a build that starts defers.
LEMMA UncountedMoves ==
    ASSUME WorkHintsAssumption, TInv, NEW w \in Workers, NotCounting(w) \/ StartBuild(w)
    PROVE  After(sched, sched') /\ KeepsAll(sched, sched')
<1>1. PICK i : i = worker[w].chosen.index
    OBVIOUS
<1>2. i \in Indexes
    BY <1>1, UncountedForm, StartForm, ActsOnIndex DEF Acting
<1>3. SharedOK(sched)
    BY DEF TInv
<1>4. {"maintenance"} \in SUBSET Classes
    BY DEF Classes
<1>5. ASSUME NEW s \in {sched, Marked(sched, i, {"maintenance"}), Deferred(sched, i),
                        Allowed(sched, i)}
      PROVE  After(sched, s) /\ KeepsAll(sched, s)
    BY <1>2, <1>3, <1>4, MarkedStep, DeferredStep, AllowedStep, AfterSame DEF SharedOK
<1>6. CASE NotCounting(w)
    <2>1. PICK s \in {sched, Marked(sched, i, {"maintenance"}), Deferred(sched, i),
                      Allowed(sched, i)} : Uncounted(w, s)
        BY <1>1, <1>6, UncountedForm
    <2>2. After(sched, s) /\ KeepsAll(sched, s)
        BY <1>5, <2>1
    <2>3. After(s, sched') /\ KeepsAll(s, sched')
        BY <1>1, <1>2, <1>3, <2>1, <2>2, AfterOK, UncountedShared
    <2> QED
        BY <1>3, <2>2, <2>3, AfterAgain, KeepsAgain
<1>7. CASE StartBuild(w)
    <2>1. sched' = Deferred(sched, i)
        BY <1>1, <1>7 DEF StartBuild
    <2> QED
        BY <1>5, <2>1
<1> QED
    BY <1>6, <1>7

\* A build that does not fit clears the hint, or marks what had none.
LEMMA BlockMoves ==
    ASSUME WorkHintsAssumption, TInv, NEW w \in Workers, BlockBuild(w)
    PROVE  /\ After(sched, sched')
           /\ KeepsBut(sched, sched', worker[w].chosen.index, "maintenance")
<1>1. PICK i : i = worker[w].chosen.index
    OBVIOUS
<1>2. i \in Indexes
    BY <1>1, ActsOnIndex DEF BlockBuild, At, Acting
<1>3. SharedOK(sched)
    BY DEF TInv
<1>4. CASE sched' = Cleared(sched, i, worker[w].chosen.sequence)
    BY <1>1, <1>2, <1>3, <1>4, ClearedStep DEF ClearsAt
<1>5. CASE Uncounted(w, sched)
    <2>1. After(sched, sched') /\ KeepsAll(sched, sched')
        BY <1>1, <1>2, <1>3, <1>5, UncountedShared
    <2> QED
        BY <2>1 DEF KeepsAll, KeepsBut
<1> QED
    BY <1>1, <1>4, <1>5 DEF BlockBuild

LEMMA NextMoves ==
    ASSUME WorkHintsAssumption, TInv, Next
    PROVE  TableMoves
<1>1. CASE Environment
    BY <1>1, EnvironmentMoves
<1>2. ASSUME NEW w \in Workers, WorkerStep(w) \/ Setback(w)
      PROVE  TableMoves
    BY <1>2, ConsumeMoves, SelectionMoves, MarkMoves, ClearMoves, CountedMoves,
       UncountedMoves, BlockMoves, KeptMoves, ButMoves
       DEF WorkerStep, Setback, Counting, NotCounting
<1>3. ASSUME NEW w \in Workers, Launch(w) \/ \E d \in Databases : TouchLaunch(w, d)
      PROVE  TableMoves
    <2>1. sched' = sched
        BY <1>3 DEF Launch, TouchLaunch
    <2> QED
        BY <2>1, SameShared, KeptMoves
<1> QED
    BY <1>1, <1>2, <1>3 DEF Next

LEMMA InitShared ==
    ASSUME WorkHintsAssumption, Init
    PROVE  SharedOK(sched)
<1>1. DOMAIN sched = {"hints", "rec"} /\ sched.hints = EmptyTable(Capacity)
    BY DEF Init
<1> QED
    BY <1>1, EmptyTableSound DEF SharedOK

LEMMA NextTInv ==
    ASSUME SchedulerAssumption, WorkHintsAssumption, TInv, [Next]_vars
    PROVE  TInv'
<1>1. CASE Next
    <2>1. IInv'
        BY <1>1, NextStep DEF TInv
    <2>2. After(sched, sched')
        BY <1>1, NextMoves DEF TableMoves
    <2> QED
        BY <2>1, <2>2, AfterOK DEF TInv, SharedOK
<1>2. CASE UNCHANGED vars
    <2>1. IInv' /\ sched' = sched
        BY <1>2, NothingMoves DEF TInv, vars
    <2> QED
        BY <2>1 DEF TInv, SharedOK
<1> QED
    BY <1>1, <1>2

LEMMA AlwaysTInv ==
    ASSUME SchedulerAssumption, WorkHintsAssumption
    PROVE  Spec => []TInv
<1>1. Init => TInv
    BY InitHolds, InitShared DEF TInv
<1>2. TInv /\ [Next]_vars => TInv'
    BY NextTInv
<1> QED
    BY <1>1, <1>2, PTL DEF Spec

\* Every hint is found by the probing of the other operations and no index has
\* two, for any hash and any capacity: neither a mark that reuses a tombstone,
\* nor a clear, a consumption or the wiping of an idle table cuts an entry off.
THEOREM HintTableStaysSound ==
    ASSUME SchedulerAssumption, WorkHintsAssumption
    PROVE  Spec => []HintTableSound
<1>1. TInv => HintTableSound
    BY DEF TInv, SharedOK, Sound, HintTableSound
<1> QED
    BY <1>1, AlwaysTInv, PTL

-----------------------------------------------------------------------------
(***************************************************************************)
(* The reconcile table                                                     *)
(***************************************************************************)
EntryOK(v) ==
  /\ DOMAIN v = DOMAIN FreeEntry
  /\ v.db \in Databases \cup {NoDb}
  /\ v.running \subseteq Classes
  /\ v.db = NoDb => v.running = {}

\* A database has at most one entry, and only an entry of a database runs.
RecOK(r) ==
  /\ DOMAIN r = {"entries", "access"}
  /\ DOMAIN r.entries = Entries
  /\ r.access \in [Entries -> Nat]
  /\ \A e \in Entries : EntryOK(r.entries[e])
  /\ \A e, f \in Entries :
       r.entries[e].db = r.entries[f].db /\ r.entries[e].db # NoDb => e = f

\* Class f of database d is being reconciled.
RunningIn(r, d, f) ==
  \E e \in Entries : r.entries[e].db = d /\ f \in r.entries[e].running

\* The next claim of class f in database d is granted.
Pending(r, d, f) ==
  \A e \in Entries : r.entries[e].db = d =>
    /\ f \notin r.entries[e].running
    /\ f \in r.entries[e].requested \/ f \notin r.entries[e].recent

\* Of the entries E some was accessed first.
LEMMA LeastAccessed ==
    ASSUME NEW a \in [Entries -> Nat], NEW E \in SUBSET Entries, E # {}
    PROVE  \E e \in E : \A f \in E : a[e] <= a[f]
<1>1. PICK N : N = { a[e] : e \in E }
    OBVIOUS
<1>2. N \in SUBSET Nat /\ N # {}
    BY <1>1
<1>3. Min(N) \in N /\ \A y \in N : Min(N) <= y
    BY <1>2, MinIsLeast
<1>4. PICK e \in E : a[e] = Min(N)
    BY <1>1, <1>3
<1> QED
    BY <1>1, <1>3, <1>4

\* The entry of a database is its own, or one that is free or idle; there is
\* none when all belong to other databases and are running.
LEMMA EntryForOK ==
    ASSUME SchedulerAssumption, NEW r, RecOK(r), NEW d \in Databases, NEW n,
           n = EntryFor(r, d)
    PROVE  \/ n \in Entries /\ r.entries[n].db = d
           \/ /\ n \in Entries /\ r.entries[n].running = {}
              /\ \A e \in Entries : r.entries[e].db # d
           \/ /\ n = 0
              /\ \A e \in Entries : r.entries[e].db \notin {d, NoDb}
                                    /\ r.entries[e].running # {}
<1>1. PICK own : own = { e \in Entries : r.entries[e].db = d }
    OBVIOUS
<1>2. PICK free : free = { e \in Entries : r.entries[e].db = NoDb }
    OBVIOUS
<1>3. PICK idle : idle = { e \in Entries : r.entries[e].running = {} /\ r.entries[e].db # NoDb }
    OBVIOUS
<1>4. Entries \subseteq Nat /\ d # NoDb
    BY DEF Entries, NoDb, SchedulerAssumption
<1>5. CASE own # {}
    <2>1. n = Min(own)
        BY <1>1, <1>5 DEF EntryFor
    <2>2. own \in SUBSET Nat
        BY <1>1, <1>4
    <2>3. Min(own) \in own
        BY <1>5, <2>2, MinIsLeast
    <2> QED
        BY <1>1, <2>1, <2>3
<1>6. CASE own = {} /\ free # {}
    <2>1. n = Min(free)
        BY <1>1, <1>2, <1>6 DEF EntryFor
    <2>2. free \in SUBSET Nat
        BY <1>2, <1>4
    <2>3. Min(free) \in free
        BY <1>6, <2>2, MinIsLeast
    <2> QED
        BY <1>1, <1>2, <1>6, <2>1, <2>3 DEF RecOK, EntryOK
<1>7. CASE own = {} /\ free = {} /\ idle # {}
    <2>1. n = CHOOSE e \in idle : \A f \in idle : r.access[e] <= r.access[f]
        BY <1>1, <1>2, <1>3, <1>7 DEF EntryFor
    <2>2. \E e \in idle : \A f \in idle : r.access[e] <= r.access[f]
        <3>1. idle \in SUBSET Entries /\ r.access \in [Entries -> Nat]
            BY <1>3 DEF RecOK
        <3> QED
            BY <1>7, <3>1, LeastAccessed
    <2>3. n \in idle
        BY <2>1, <2>2
    <2> QED
        BY <1>1, <1>3, <1>7, <2>3
<1>8. CASE own = {} /\ free = {} /\ idle = {}
    <2>1. n = 0
        BY <1>1, <1>2, <1>3, <1>8 DEF EntryFor
    <2> QED
        BY <1>1, <1>2, <1>3, <1>8, <2>1
<1> QED
    BY <1>5, <1>6, <1>7, <1>8

\* The table with another entry for d, or another content of a foreign one.
LEMMA StoredOK ==
    ASSUME SchedulerAssumption, NEW r, RecOK(r), NEW d \in Databases,
           NEW n \in Entries, n = EntryFor(r, d), NEW v, EntryOK(v),
           v.db \in {d, r.entries[n].db}
    PROVE  /\ RecOK(Stored(r, d, v))
           /\ Stored(r, d, v).entries = [r.entries EXCEPT ![n] = v]
<1>1. PICK t : t = Stored(r, d, v)
    OBVIOUS
<1>2. /\ DOMAIN t = {"entries", "access"}
      /\ t.entries = [r.entries EXCEPT ![n] = v]
      /\ t.access = Touched(r.access, n)
    BY <1>1 DEF Stored
<1>3. t.access \in [Entries -> Nat]
    <2>1. PICK a \in [Entries -> Nat] : a = r.access
        BY DEF RecOK
    <2>2. ReconcileCapacity \in Nat
        BY DEF SchedulerAssumption
    <2>3. ASSUME NEW f \in Entries
          PROVE  (CASE f = n -> ReconcileCapacity
                    [] f # n /\ a[f] > a[n] -> a[f] - 1
                    [] OTHER -> a[f]) \in Nat
        <3>1. CASE f = n
            BY <2>2, <3>1
        <3>2. CASE f # n /\ a[f] > a[n]
            BY <3>2
        <3>3. CASE f # n /\ ~(a[f] > a[n])
            BY <3>3
        <3> QED
            BY <3>1, <3>2, <3>3
    <2> QED
        BY <1>2, <2>1, <2>3 DEF Touched
<1>4. \A e \in Entries : t.entries[e] = IF e = n THEN v ELSE r.entries[e]
    BY <1>2 DEF RecOK
<1>5. DOMAIN t.entries = Entries
    BY <1>2 DEF RecOK
<1>6. \A e \in Entries : EntryOK(t.entries[e])
    BY <1>4 DEF RecOK
<1>7. ASSUME NEW e \in Entries, NEW f \in Entries,
             t.entries[e].db = t.entries[f].db, t.entries[e].db # NoDb
      PROVE  e = f
    <2>1. \A g \in Entries : r.entries[g].db = d => r.entries[n].db = d
        BY EntryForOK
    <2> QED
        BY <1>4, <1>7, <2>1 DEF RecOK
<1> QED
    BY <1>1, <1>2, <1>3, <1>5, <1>6, <1>7 DEF RecOK

\* What is running stays so, and what the next claim is granted.
RecKeeps(r, t) ==
  /\ RecOK(t)
  /\ \A d \in Databases, f \in Classes :
       /\ RunningIn(t, d, f) <=> RunningIn(r, d, f)
       /\ Pending(r, d, f) => Pending(t, d, f)

LEMMA CreatedOK ==
    ASSUME SchedulerAssumption, NEW r, RecOK(r), NEW d \in Databases,
           NEW n \in Entries, n = EntryFor(r, d), NEW c, c = Created(r, d)
    PROVE  /\ EntryOK(c) /\ c.db = d
           /\ r.entries[n].db = d => c = r.entries[n]
           /\ r.entries[n].db # d =>
                /\ c.running = {} /\ c.requested = {} /\ c.recent = {}
                /\ r.entries[n].running = {}
                /\ \A e \in Entries : r.entries[e].db # d
<1>1. n # 0
    BY DEF Entries
<1>2. CASE r.entries[n].db = d
    BY <1>2 DEF Created, RecOK
<1>3. CASE r.entries[n].db # d
    <2>1. c = [FreeEntry EXCEPT !.db = d]
        BY <1>3 DEF Created
    <2>2. EntryOK(c) /\ c.db = d /\ c.running = {} /\ c.requested = {} /\ c.recent = {}
        BY <2>1 DEF EntryOK, FreeEntry
    <2>3. r.entries[n].running = {} /\ \A e \in Entries : r.entries[e].db # d
        BY <1>1, <1>3, EntryForOK
    <2> QED
        BY <1>3, <2>2, <2>3
<1> QED
    BY <1>2, <1>3

\* An entry that only gets more requests changes nothing for any other.
LEMMA EntryKept ==
    ASSUME SchedulerAssumption, NEW r, RecOK(r), NEW d \in Databases,
           NEW n \in Entries, n = EntryFor(r, d), NEW c, c = Created(r, d),
           NEW v, EntryOK(v), v.db = d, v.running = c.running,
           c.requested \subseteq v.requested, v.recent \subseteq c.recent
    PROVE  RecKeeps(r, Stored(r, d, v))
<1>1. PICK t : t = Stored(r, d, v)
    OBVIOUS
<1>2. RecOK(t) /\ t.entries = [r.entries EXCEPT ![n] = v]
    BY <1>1, StoredOK
<1>3. \A e \in Entries : t.entries[e] = IF e = n THEN v ELSE r.entries[e]
    BY <1>2 DEF RecOK
<1>4. /\ r.entries[n].db = d => c = r.entries[n]
      /\ r.entries[n].db # d =>
           /\ c.running = {} /\ c.requested = {} /\ c.recent = {}
           /\ r.entries[n].running = {}
           /\ \A e \in Entries : r.entries[e].db # d
    BY CreatedOK
<1>5. ASSUME NEW b \in Databases, NEW f \in Classes
      PROVE  /\ RunningIn(t, b, f) <=> RunningIn(r, b, f)
             /\ Pending(r, b, f) => Pending(t, b, f)
    <2>1. CASE r.entries[n].db = d
        BY <1>3, <1>4, <2>1 DEF RunningIn, Pending
    <2>2. CASE r.entries[n].db # d
        <3>1. RunningIn(t, b, f) => RunningIn(r, b, f)
            BY <1>3, <1>4, <2>2 DEF RunningIn
        <3>2. RunningIn(r, b, f) => RunningIn(t, b, f)
            BY <1>3, <1>4, <2>2 DEF RunningIn
        <3>3. Pending(r, b, f) => Pending(t, b, f)
            BY <1>3, <1>4, <2>2 DEF Pending
        <3> QED
            BY <3>1, <3>2, <3>3
    <2> QED
        BY <2>1, <2>2
<1> QED
    BY <1>1, <1>2, <1>5 DEF RecKeeps

LEMMA RecKeepsSame ==
    ASSUME NEW r, RecOK(r)
    PROVE  RecKeeps(r, r)
    BY DEF RecKeeps

\* A request is granted at the next claim, unless the class is running.
LEMMA RequestedStep ==
    ASSUME SchedulerAssumption, NEW r, RecOK(r), NEW d \in Databases,
           NEW F \in SUBSET Classes
    PROVE  /\ RecKeeps(r, Requested(r, d, F))
           /\ \A f \in F : RunningIn(r, d, f) \/ Pending(Requested(r, d, F), d, f)
<1>1. PICK n : n = EntryFor(r, d)
    OBVIOUS
<1>2. CASE n = 0
    <2>1. Requested(r, d, F) = r
        BY <1>1, <1>2 DEF Requested
    <2>2. n \notin Entries
        BY <1>2 DEF Entries
    <2>3. \A e \in Entries : r.entries[e].db # d
        BY <1>1, <2>2, EntryForOK
    <2> QED
        BY <2>1, <2>3, RecKeepsSame DEF Pending
<1>3. CASE n # 0
    <2>1. n \in Entries
        BY <1>1, <1>3, EntryForOK
    <2>2. PICK c : c = Created(r, d)
        OBVIOUS
    <2>3. PICK v : v = [c EXCEPT !.requested = @ \cup F]
        OBVIOUS
    <2>4. EntryOK(c) /\ c.db = d
        BY <1>1, <2>1, <2>2, CreatedOK
    <2>5. /\ EntryOK(v) /\ v.db = d /\ v.running = c.running
          /\ v.requested = c.requested \cup F /\ v.recent = c.recent
        BY <2>3, <2>4 DEF EntryOK, FreeEntry
    <2>6. c.requested \subseteq v.requested /\ v.recent \subseteq c.recent
        BY <2>5
    <2>7. Requested(r, d, F) = Stored(r, d, v)
        BY <1>1, <1>3, <2>2, <2>3 DEF Requested
    <2>8. RecKeeps(r, Stored(r, d, v))
        BY <1>1, <2>1, <2>2, <2>5, <2>6, EntryKept
    <2>9. ASSUME NEW f \in F
          PROVE  RunningIn(r, d, f) \/ Pending(Stored(r, d, v), d, f)
        <3>1. PICK t : t = Stored(r, d, v)
            OBVIOUS
        <3>2. RecOK(t) /\ t.entries = [r.entries EXCEPT ![n] = v]
            BY <1>1, <2>1, <2>5, <3>1, StoredOK
        <3>3. t.entries[n] = v
            BY <2>1, <3>2 DEF RecOK
        <3>4. \A e \in Entries : t.entries[e].db = d => e = n
            BY <2>1, <2>5, <3>2, <3>3 DEF RecOK, SchedulerAssumption, NoDb
        <3>5. f \in v.running => RunningIn(t, d, f)
            BY <2>1, <2>5, <3>3 DEF RunningIn
        <3>6. RunningIn(t, d, f) => RunningIn(r, d, f)
            BY <2>8, <3>1 DEF RecKeeps
        <3>7. f \notin v.running => Pending(t, d, f)
            BY <2>5, <3>3, <3>4 DEF Pending
        <3> QED
            BY <3>1, <3>5, <3>6, <3>7
    <2> QED
        BY <2>7, <2>8, <2>9
<1> QED
    BY <1>2, <1>3

\* Noting a service moves the cursor.
LEMMA ServicedStep ==
    ASSUME SchedulerAssumption, NEW r, RecOK(r), NEW d \in Databases, NEW i
    PROVE  RecKeeps(r, Serviced(r, d, i))
<1>1. PICK n : n = EntryFor(r, d)
    OBVIOUS
<1>2. CASE n = 0
    BY <1>1, <1>2, RecKeepsSame DEF Serviced
<1>3. CASE n # 0
    <2>1. n \in Entries
        BY <1>1, <1>3, EntryForOK
    <2>2. PICK c : c = Created(r, d)
        OBVIOUS
    <2>3. PICK v : v = [c EXCEPT !.cursor = i]
        OBVIOUS
    <2>4. EntryOK(c) /\ c.db = d
        BY <1>1, <2>1, <2>2, CreatedOK
    <2>5. /\ EntryOK(v) /\ v.db = d /\ v.running = c.running
          /\ c.requested \subseteq v.requested /\ v.recent \subseteq c.recent
        BY <2>3, <2>4 DEF EntryOK, FreeEntry
    <2>6. Serviced(r, d, i) = Stored(r, d, v)
        BY <1>1, <1>3, <2>2, <2>3 DEF Serviced
    <2> QED
        BY <1>1, <2>1, <2>2, <2>5, <2>6, EntryKept
<1> QED
    BY <1>2, <1>3

\* Time passes for entries, which only makes claims easier.
LEMMA EasierKeeps ==
    ASSUME NEW r, RecOK(r), NEW t, DOMAIN t = {"entries", "access"},
           DOMAIN t.entries = Entries, t.access = r.access,
           \A e \in Entries :
             /\ DOMAIN t.entries[e] = DOMAIN r.entries[e]
             /\ t.entries[e].db = r.entries[e].db
             /\ t.entries[e].running = r.entries[e].running
             /\ t.entries[e].requested = r.entries[e].requested
             /\ t.entries[e].recent \subseteq r.entries[e].recent
    PROVE  RecKeeps(r, t)
<1>1. RecOK(t)
    BY DEF RecOK, EntryOK
<1> QED
    BY <1>1 DEF RecKeeps, RunningIn, Pending

\* Nothing changes for any database and class but these.
RecKeepsBut(r, t, d, f) ==
  /\ RecOK(t)
  /\ \A b \in Databases, g \in Classes : b # d \/ g # f =>
       /\ RunningIn(t, b, g) <=> RunningIn(r, b, g)
       /\ Pending(r, b, g) => Pending(t, b, g)

\* All entries are in use for other databases.
AllBusy(r, d) ==
  \A e \in Entries : r.entries[e].db \notin {d, NoDb} /\ r.entries[e].running # {}

\* A claim that is granted marks the class as running, which it was not,
\* unless no entry could be had.
LEMMA ClaimedStep ==
    ASSUME SchedulerAssumption, NEW r, RecOK(r), NEW d \in Databases,
           NEW f \in Classes
    PROVE  /\ RecKeepsBut(r, Claimed(r, d, f), d, f)
           /\ ~Grants(r, d, f) => Claimed(r, d, f) = r
           /\ Grants(r, d, f) =>
                /\ ~RunningIn(r, d, f)
                /\ RunningIn(Claimed(r, d, f), d, f) \/ AllBusy(r, d)
<1>1. PICK n : n = EntryFor(r, d)
    OBVIOUS
<1>2. CASE n = 0
    <2>1. Claimed(r, d, f) = r
        BY <1>1, <1>2 DEF Claimed
    <2>2. n \notin Entries
        BY <1>2 DEF Entries
    <2>3. AllBusy(r, d)
        BY <1>1, <2>2, EntryForOK DEF AllBusy
    <2>4. ~RunningIn(r, d, f)
        BY <2>3 DEF AllBusy, RunningIn
    <2> QED
        BY <2>1, <2>3, <2>4 DEF RecKeepsBut
<1>3. CASE n # 0 /\ ~Grants(r, d, f)
    BY <1>1, <1>3 DEF Claimed, RecKeepsBut
<1>4. CASE n # 0 /\ Grants(r, d, f)
    <2>1. n \in Entries
        BY <1>1, <1>4, EntryForOK
    <2>2. PICK c : c = Created(r, d)
        OBVIOUS
    <2>3. f \notin c.running
        BY <1>1, <1>4, <2>2 DEF Grants
    <2>4. PICK v : v = [c EXCEPT !.requested = @ \ {f}, !.running = @ \cup {f}]
        OBVIOUS
    <2>5. /\ EntryOK(c) /\ c.db = d
          /\ r.entries[n].db = d => c = r.entries[n]
          /\ r.entries[n].db # d =>
               /\ c.running = {} /\ c.requested = {} /\ c.recent = {}
               /\ r.entries[n].running = {}
               /\ \A e \in Entries : r.entries[e].db # d
        BY <1>1, <2>1, <2>2, CreatedOK
    <2>6. /\ EntryOK(v) /\ v.db = d /\ v.running = c.running \cup {f}
          /\ v.requested = c.requested \ {f} /\ v.recent = c.recent
        BY <2>4, <2>5 DEF EntryOK, FreeEntry, SchedulerAssumption, NoDb
    <2>7. PICK t : t = Stored(r, d, v)
        OBVIOUS
    <2>8. Claimed(r, d, f) = t
        BY <1>1, <1>4, <2>2, <2>4, <2>7 DEF Claimed
    <2>9. RecOK(t) /\ t.entries = [r.entries EXCEPT ![n] = v]
        BY <1>1, <2>1, <2>6, <2>7, StoredOK
    <2>10. \A e \in Entries : t.entries[e] = IF e = n THEN v ELSE r.entries[e]
        BY <2>9 DEF RecOK
    <2>11. RunningIn(t, d, f)
        BY <2>1, <2>6, <2>10 DEF RunningIn
    <2>12. ~RunningIn(r, d, f)
        <3> SUFFICES ASSUME NEW e \in Entries, r.entries[e].db = d,
                            f \in r.entries[e].running
                     PROVE  FALSE
            BY DEF RunningIn
        <3>1. r.entries[n].db = d
            BY <2>5
        <3>2. e = n
            BY <2>1, <3>1 DEF RecOK, SchedulerAssumption, NoDb
        <3> QED
            BY <2>3, <2>5, <3>1, <3>2
    <2>13. ASSUME NEW b \in Databases, NEW g \in Classes, b # d \/ g # f
           PROVE  /\ RunningIn(t, b, g) <=> RunningIn(r, b, g)
                  /\ Pending(r, b, g) => Pending(t, b, g)
        <3>1. RunningIn(t, b, g) => RunningIn(r, b, g)
            BY <2>5, <2>6, <2>10, <2>13 DEF RunningIn
        <3>2. RunningIn(r, b, g) => RunningIn(t, b, g)
            BY <2>5, <2>6, <2>10, <2>13 DEF RunningIn
        <3>3. Pending(r, b, g) => Pending(t, b, g)
            <4> SUFFICES ASSUME Pending(r, b, g), NEW e \in Entries,
                                t.entries[e].db = b
                         PROVE  /\ g \notin t.entries[e].running
                                /\ \/ g \in t.entries[e].requested
                                   \/ g \notin t.entries[e].recent
                BY DEF Pending
            <4>1. CASE e # n
                BY <2>10, <4>1 DEF Pending
            <4>2. CASE e = n
                <5>1. b = d /\ g # f
                    BY <2>6, <2>10, <2>13, <4>2
                <5>2. CASE r.entries[n].db = d
                    BY <2>1, <2>5, <2>6, <2>10, <4>2, <5>1, <5>2 DEF Pending
                <5>3. CASE r.entries[n].db # d
                    BY <2>5, <2>6, <2>10, <4>2, <5>1, <5>3
                <5> QED
                    BY <5>2, <5>3
            <4> QED
                BY <4>1, <4>2
        <3> QED
            BY <3>1, <3>2, <3>3
    <2> QED
        BY <1>4, <2>8, <2>9, <2>11, <2>12, <2>13 DEF RecKeepsBut
<1> QED
    BY <1>2, <1>3, <1>4

\* After the end of a reconciliation its class runs no more, and if it did run
\* nothing else has changed.
Ends(r, t, d, f) ==
  /\ RecOK(t)
  /\ ~RunningIn(t, d, f)
  /\ \A b \in Databases, g \in Classes : RunningIn(t, b, g) => RunningIn(r, b, g)
  /\ RunningIn(r, d, f) => RecKeepsBut(r, t, d, f)

LEMMA EndsNone ==
    ASSUME NEW r, RecOK(r), NEW d, NEW f, \A e \in Entries : r.entries[e].db # d
    PROVE  Ends(r, r, d, f)
    BY DEF Ends, RunningIn

LEMMA EntryEnds ==
    ASSUME SchedulerAssumption, NEW r, RecOK(r), NEW d \in Databases,
           NEW f \in Classes, NEW n \in Entries, n = EntryFor(r, d),
           NEW v, DOMAIN v = DOMAIN FreeEntry, v.db = r.entries[n].db,
           v.running = r.entries[n].running \ {f},
           r.entries[n].requested \subseteq v.requested,
           v.recent \subseteq r.entries[n].recent \cup {f}
    PROVE  /\ Ends(r, Stored(r, d, v), d, f)
           /\ f \in v.requested /\ RunningIn(r, d, f) => Pending(Stored(r, d, v), d, f)
<1>1. PICK t : t = Stored(r, d, v)
    OBVIOUS
<1>2. EntryOK(v)
    BY DEF RecOK, EntryOK
<1>3. RecOK(t) /\ t.entries = [r.entries EXCEPT ![n] = v]
    BY <1>1, <1>2, StoredOK
<1>4. \A e \in Entries : t.entries[e] = IF e = n THEN v ELSE r.entries[e]
    BY <1>3 DEF RecOK
<1>5. \A e \in Entries : r.entries[e].db = d => e = n
    <2>1. \A g \in Entries : r.entries[g].db = d => r.entries[n].db = d
        BY EntryForOK
    <2> QED
        BY <2>1 DEF RecOK, SchedulerAssumption, NoDb
<1>6. ~RunningIn(t, d, f)
    BY <1>4, <1>5 DEF RunningIn
<1>7. \A b \in Databases, g \in Classes : RunningIn(t, b, g) => RunningIn(r, b, g)
    BY <1>4 DEF RunningIn
<1>8. ASSUME RunningIn(r, d, f)
      PROVE  RecKeepsBut(r, t, d, f)
    <2>1. r.entries[n].db = d
        BY <1>5, <1>8 DEF RunningIn
    <2>2. ASSUME NEW b \in Databases, NEW g \in Classes, b # d \/ g # f
          PROVE  /\ RunningIn(t, b, g) <=> RunningIn(r, b, g)
                 /\ Pending(r, b, g) => Pending(t, b, g)
        <3>1. RunningIn(r, b, g) => RunningIn(t, b, g)
            BY <1>4, <2>1, <2>2 DEF RunningIn
        <3>2. Pending(r, b, g) => Pending(t, b, g)
            BY <1>4, <2>1, <2>2 DEF Pending
        <3> QED
            BY <1>7, <3>1, <3>2
    <2> QED
        BY <1>3, <2>2 DEF RecKeepsBut
<1>9. ASSUME f \in v.requested, RunningIn(r, d, f)
      PROVE  Pending(t, d, f)
    BY <1>4, <1>5, <1>9 DEF Pending
<1> QED
    BY <1>1, <1>3, <1>6, <1>7, <1>8, <1>9 DEF Ends

LEMMA CompletedStep ==
    ASSUME SchedulerAssumption, NEW r, RecOK(r), NEW d \in Databases,
           NEW f \in Classes
    PROVE  Ends(r, Completed(r, d, f), d, f)
<1>1. PICK n : n = EntryFor(r, d)
    OBVIOUS
<1>2. CASE n = 0
    <2>1. Completed(r, d, f) = r /\ n \notin Entries
        BY <1>1, <1>2 DEF Completed, Entries
    <2>2. \A e \in Entries : r.entries[e].db # d
        BY <1>1, <2>1, EntryForOK
    <2> QED
        BY <2>1, <2>2, EndsNone
<1>3. CASE n # 0
    <2>1. n \in Entries
        BY <1>1, <1>3, EntryForOK
    <2>2. PICK u : u = r.entries[n]
        OBVIOUS
    <2>3. PICK v : v = [u EXCEPT !.running = @ \ {f}, !.recent = @ \cup {f}, !.quiet = FALSE]
        OBVIOUS
    <2>4. EntryOK(u)
        BY <2>1, <2>2 DEF RecOK
    <2>5. /\ DOMAIN v = DOMAIN FreeEntry /\ v.db = u.db /\ v.running = u.running \ {f}
          /\ v.requested = u.requested /\ v.recent = u.recent \cup {f}
        BY <2>3, <2>4 DEF EntryOK, FreeEntry
    <2>6. Completed(r, d, f) = Stored(r, d, v)
        BY <1>1, <1>3, <2>2, <2>3 DEF Completed
    <2>7. u.requested \subseteq v.requested /\ v.recent \subseteq u.recent \cup {f}
        BY <2>5
    <2> QED
        BY <1>1, <2>1, <2>2, <2>5, <2>6, <2>7, EntryEnds
<1> QED
    BY <1>2, <1>3

LEMMA ReleasedStep ==
    ASSUME SchedulerAssumption, NEW r, RecOK(r), NEW d \in Databases,
           NEW f \in Classes
    PROVE  /\ Ends(r, Released(r, d, f), d, f)
           /\ RunningIn(r, d, f) => Pending(Released(r, d, f), d, f)
<1>1. PICK n : n = EntryFor(r, d)
    OBVIOUS
<1>2. CASE n = 0
    <2>1. Released(r, d, f) = r /\ n \notin Entries
        BY <1>1, <1>2 DEF Released, Entries
    <2>2. \A e \in Entries : r.entries[e].db # d
        BY <1>1, <2>1, EntryForOK
    <2> QED
        BY <2>1, <2>2, EndsNone DEF Pending
<1>3. CASE n # 0
    <2>1. n \in Entries
        BY <1>1, <1>3, EntryForOK
    <2>2. PICK u : u = r.entries[n]
        OBVIOUS
    <2>3. PICK v : v = [u EXCEPT !.running = @ \ {f}, !.requested = @ \cup {f}]
        OBVIOUS
    <2>4. EntryOK(u)
        BY <2>1, <2>2 DEF RecOK
    <2>5. /\ DOMAIN v = DOMAIN FreeEntry /\ v.db = u.db /\ v.running = u.running \ {f}
          /\ v.requested = u.requested \cup {f} /\ v.recent = u.recent
        BY <2>3, <2>4 DEF EntryOK, FreeEntry
    <2>6. Released(r, d, f) = Stored(r, d, v)
        BY <1>1, <1>3, <2>2, <2>3 DEF Released
    <2>7. /\ u.requested \subseteq v.requested /\ v.recent \subseteq u.recent \cup {f}
          /\ f \in v.requested
        BY <2>5
    <2> QED
        BY <1>1, <2>1, <2>2, <2>5, <2>6, <2>7, EntryEnds
<1> QED
    BY <1>2, <1>3

-----------------------------------------------------------------------------
(***************************************************************************)
(* The workers and their databases                                         *)
(***************************************************************************)
Querying == {"queryP", "queryM"}
QueryOf(f) == IF f = "preload" THEN "queryP" ELSE "queryM"

DbOK == \A w \in Workers : worker[w].pc # "off" => worker[w].db \in Databases

FaultsOK ==
  /\ DOMAIN faults = {"terminations", "missed", "unwarmed"}
  /\ faults.terminations \in Nat

\* Worker w goes from where it does not query to record r, which does not
\* query either.
Goes(w, r) ==
  /\ worker' = [worker EXCEPT ![w] = r]
  /\ worker[w].pc \notin Querying /\ r.pc \notin Querying
  /\ r.pc # "off" => r.db \in Databases

\* The oldest hint of a database with hints has a sequence.
LEMMA OldestHintOK ==
    ASSUME WorkHintsAssumption, TInv, NEW d \in Hinted
    PROVE  OldestHint(d) \in Nat
<1>1. PICK N : N = { h.sequence : h \in HintsOf(d) }
    OBVIOUS
<1>2. HintsOf(d) # {}
    BY DEF Hinted
<1>3. ASSUME NEW h \in HintsOf(d)
      PROVE  h.sequence \in Nat
    <2>1. PICK s \in Slots(sched.hints) : h = sched.hints.slots[s]
        BY DEF HintsOf
    <2>2. h.index \in Indexes
        BY DEF HintsOf, Mine
    <2>3. h.index # NoIndex
        BY <2>2 DEF WorkHintsAssumption, NoIndex
    <2>4. h.flags # {}
        BY <2>1, <2>3 DEF TInv, SharedOK, Sound, FlagsMatchIndex
    <2>5. h.sequence \in 1 .. sched.hints.sequence
        BY <2>1, <2>4 DEF TInv, SharedOK, Sound, TableOK, Slots
    <2> QED
        BY <2>5
<1>4. N \in SUBSET Nat /\ N # {}
    BY <1>1, <1>2, <1>3
<1>5. Min(N) \in Nat
    BY <1>4, MinIsLeast
<1> QED
    BY <1>1, <1>5 DEF OldestHint

LEMMA NextDatabaseOK ==
    ASSUME SchedulerAssumption, WorkHintsAssumption, TInv,
           NEW among \in SUBSET Databases, among # {}
    PROVE  NextDatabase(among) \in Databases
<1>1. PICK hinted : hinted = among \cap Hinted
    OBVIOUS
<1>2. PICK later : later = { d \in among : d > lastDb }
    OBVIOUS
<1>3. Databases \subseteq Nat
    BY DEF SchedulerAssumption
<1>4. CASE hinted # {}
    <2>1. NextDatabase(among) = CHOOSE d \in hinted :
                                  \A e \in hinted : OldestHint(d) <= OldestHint(e)
        BY <1>1, <1>4 DEF NextDatabase
    <2>2. PICK N : N = { OldestHint(d) : d \in hinted }
        OBVIOUS
    <2>3. N \in SUBSET Nat /\ N # {}
        BY <1>1, <1>4, <2>2, OldestHintOK
    <2>4. Min(N) \in N /\ \A y \in N : Min(N) <= y
        BY <2>3, MinIsLeast
    <2>5. PICK d \in hinted : OldestHint(d) = Min(N)
        BY <2>2, <2>4
    <2>6. \A e \in hinted : OldestHint(d) <= OldestHint(e)
        BY <2>2, <2>4, <2>5
    <2>7. NextDatabase(among) \in hinted
        BY <2>1, <2>5, <2>6
    <2> QED
        BY <1>1, <2>7
<1>5. CASE hinted = {} /\ later # {}
    <2>1. NextDatabase(among) = Min(later)
        BY <1>1, <1>2, <1>5 DEF NextDatabase
    <2>2. later \in SUBSET Nat
        BY <1>2, <1>3
    <2> QED
        BY <1>2, <1>5, <2>1, <2>2, MinIsLeast
<1>6. CASE hinted = {} /\ later = {}
    <2>1. NextDatabase(among) = Min(among)
        BY <1>1, <1>2, <1>6 DEF NextDatabase
    <2>2. among \in SUBSET Nat
        BY <1>3
    <2> QED
        BY <2>1, <2>2, MinIsLeast
<1> QED
    BY <1>4, <1>5, <1>6

LEMMA LaunchGoes ==
    ASSUME SchedulerAssumption, WorkHintsAssumption, TInv, NEW w \in Workers,
           NEW d \in Databases, Launch(w) \/ TouchLaunch(w, d)
    PROVE  /\ sched' = sched
           /\ \E r : Goes(w, r) /\ r.pc = "consume" /\ worker[w].pc = "off"
<1>1. PICK e \in Databases :
        worker' = [worker EXCEPT ![w] = [OffWorker EXCEPT !.pc = "consume", !.db = e]]
    <2>1. CASE Launch(w)
        <3>1. PICK skipped : /\ Databases \ skipped # {}
                             /\ worker' = [worker EXCEPT ![w] =
                                  [OffWorker EXCEPT !.pc = "consume",
                                     !.db = NextDatabase(Databases \ skipped)]]
            BY <2>1 DEF Launch
        <3>2. NextDatabase(Databases \ skipped) \in Databases
            BY <3>1, NextDatabaseOK
        <3> QED
            BY <3>1, <3>2
    <2>2. CASE TouchLaunch(w, d)
        BY <2>2 DEF TouchLaunch
    <2> QED
        BY <2>1, <2>2
<1>2. PICK r : r = [OffWorker EXCEPT !.pc = "consume", !.db = e]
    OBVIOUS
<1>3. r.pc = "consume" /\ r.db = e
    BY <1>2 DEF OffWorker
<1>4. worker[w].pc = "off" /\ sched' = sched
    BY DEF Launch, TouchLaunch
<1> QED
    BY <1>1, <1>2, <1>3, <1>4 DEF Goes, Querying

\* The loop over the indexes stays in its database and does not query.
LEMMA OnwardGoes ==
    ASSUME NEW r, DOMAIN r = Fields
    PROVE  /\ Onward(r).pc \in {"judge", "apply", "off"}
           /\ Onward(r).pc # "off" => Onward(r).db = r.db
<1>1. CASE r.oids # {}
    <2>1. Onward(r) = [r EXCEPT !.pc = "judge", !.chosen = NoCandidate]
        BY <1>1 DEF Onward
    <2> QED
        BY <2>1 DEF Fields
<1>2. CASE r.oids = {} /\ r.candidates = {}
    <2>1. Onward(r) = OffWorker
        BY <1>2 DEF Onward
    <2> QED
        BY <2>1 DEF OffWorker
<1>3. CASE r.oids = {} /\ r.candidates # {}
    <2>1. Onward(r) = [r EXCEPT !.pc = "apply", !.tokens = {}, !.claimed = FALSE,
                                !.chosen = NoCandidate]
        BY <1>3 DEF Onward
    <2> QED
        BY <2>1 DEF Fields
<1> QED
    BY <1>1, <1>2, <1>3

\* A worker whose next record is given goes there.
LEMMA GoesTo ==
    ASSUME NEW w \in Workers, worker[w].pc \notin Querying, NEW r,
           worker' = [worker EXCEPT ![w] = r], r.pc \notin Querying,
           r.pc # "off" => r.db \in Databases
    PROVE  \E s : Goes(w, s)
    BY DEF Goes

LEMMA OffGoes ==
    ASSUME NEW w \in Workers, worker[w].pc \notin Querying, Stop(w)
    PROVE  \E s : Goes(w, s)
<1>1. OffWorker.pc = "off"
    BY DEF OffWorker
<1>2. worker' = [worker EXCEPT ![w] = OffWorker]
    BY DEF Stop
<1> QED
    BY <1>1, <1>2, GoesTo DEF Querying

\* Steps of a worker that neither claim nor end a reconciliation.
LEMMA SelectionGoes ==
    ASSUME TInv, DbOK, NEW w \in Workers,
           \/ ConsumePreload(w) \/ PickPreload(w)
           \/ Preload(w) \/ PreloadBusy(w) \/ PreloadDeclines(w)
           \/ SnapshotMaintenance(w) \/ Judge(w) \/ JudgeLocked(w) \/ JudgeFails(w)
           \/ MarkLow(w) \/ ClearIdle(w) \/ Apply(w)
    PROVE  \E s : Goes(w, s)
<1>1. DOMAIN worker[w] = Fields /\ DOMAIN worker[w].chosen = DOMAIN NoCandidate
    BY DEF TInv, IInv, WorkersOK, RecordOK
<1>2. worker[w].pc \in {"consume", "pickP", "preload", "snapshot", "judge", "markLow",
                        "clearIdle", "apply"}
    BY DEF ConsumePreload, PickPreload, Preload, PreloadBusy, PreloadDeclines,
           SnapshotMaintenance, Judge, JudgeLocked, JudgeFails, MarkLow, ClearIdle, Apply, At
<1>3. worker[w].pc \notin Querying /\ worker[w].db \in Databases
    BY <1>2 DEF Querying, DbOK
<1>4. OffWorker.pc = "off"
    BY DEF OffWorker
<1>5. ASSUME NEW q, DOMAIN q = Fields, q.db = worker[w].db
      PROVE  /\ Onward(q).pc \notin Querying
             /\ Onward(q).pc # "off" => Onward(q).db \in Databases
    BY <1>3, <1>5, OnwardGoes DEF Querying
<1>6. ASSUME NEW q, worker' = [worker EXCEPT ![w] = q], q.pc \notin Querying,
             q.pc # "off" => q.db \in Databases
      PROVE  \E s : Goes(w, s)
    BY <1>3, <1>6, GoesTo
<1>7. CASE ConsumePreload(w)
    <2>1. PICK o : worker' = [worker EXCEPT ![w] = [@ EXCEPT !.pc = "claimP", !.oids = o]]
        BY <1>7 DEF ConsumePreload
    <2>2. PICK r : r = [worker[w] EXCEPT !.pc = "claimP", !.oids = o]
        OBVIOUS
    <2>3. r.pc = "claimP" /\ r.db = worker[w].db
        BY <1>1, <2>2 DEF Fields
    <2>4. worker' = [worker EXCEPT ![w] = r]
        BY <2>1, <2>2
    <2> QED
        BY <1>3, <1>6, <2>3, <2>4 DEF Querying
<1>8. CASE PickPreload(w)
    <2>1. PICK i \in worker[w].oids :
            LET rest == worker[w].oids \ {i} IN
            \/ worker' = [worker EXCEPT ![w] =
                 [@ EXCEPT !.oids = rest, !.chosen.index = i,
                           !.pc = IF rest = {} THEN "preload" ELSE "pickP"]]
            \/ worker' = [worker EXCEPT ![w] =
                 [@ EXCEPT !.oids = rest, !.pc = IF rest = {} THEN "preload" ELSE "pickP"]]
            \/ worker' = [worker EXCEPT ![w] = OffWorker]
        BY <1>8 DEF PickPreload
    <2>2. PICK o, p : /\ o = worker[w].oids \ {i}
                      /\ p = IF o = {} THEN "preload" ELSE "pickP"
        OBVIOUS
    <2>3. PICK r : r = [worker[w] EXCEPT !.oids = o, !.chosen.index = i, !.pc = p]
        OBVIOUS
    <2>4. PICK q : q = [worker[w] EXCEPT !.oids = o, !.pc = p]
        OBVIOUS
    <2>5. /\ r.pc = p /\ r.db = worker[w].db
          /\ q.pc = p /\ q.db = worker[w].db
        BY <1>1, <2>3, <2>4 DEF Fields
    <2>6. \/ worker' = [worker EXCEPT ![w] = r]
          \/ worker' = [worker EXCEPT ![w] = q]
          \/ worker' = [worker EXCEPT ![w] = OffWorker]
        BY <2>1, <2>2, <2>3, <2>4
    <2>7. p \notin Querying
        BY <2>2 DEF Querying
    <2> QED
        BY <1>3, <1>4, <1>6, <2>5, <2>6, <2>7 DEF Querying
<1>9. CASE Preload(w) \/ PreloadBusy(w) \/ PreloadDeclines(w)
    <2>1. PICK r : r = [OffWorker EXCEPT !.pc = "consume", !.db = worker[w].db,
                                         !.preloaded = TRUE]
        OBVIOUS
    <2>2. r.pc = "consume" /\ r.db = worker[w].db
        BY <2>1 DEF OffWorker
    <2>3. worker' = [worker EXCEPT ![w] = r]
        BY <1>9, <2>1 DEF Preload, PreloadBusy, PreloadDeclines, Preloaded
    <2> QED
        BY <1>3, <1>6, <2>2, <2>3 DEF Querying
<1>10. CASE SnapshotMaintenance(w)
    <2>1. PICK o, ts : worker' = [worker EXCEPT ![w] =
                         [@ EXCEPT !.tokens = ts, !.pc = "claimM", !.oids = o]]
        BY <1>10 DEF SnapshotMaintenance
    <2>2. PICK r : r = [worker[w] EXCEPT !.tokens = ts, !.pc = "claimM", !.oids = o]
        OBVIOUS
    <2>3. r.pc = "claimM" /\ r.db = worker[w].db
        BY <1>1, <2>2 DEF Fields
    <2>4. worker' = [worker EXCEPT ![w] = r]
        BY <2>1, <2>2
    <2> QED
        BY <1>3, <1>6, <2>3, <2>4 DEF Querying
<1>11. CASE Judge(w)
    <2>1. PICK i, t, c :
            LET r == [worker[w] EXCEPT !.oids = @ \ {i}] IN
            \/ worker' = [worker EXCEPT ![w] =
                 Onward([r EXCEPT !.candidates = @ \cup {AsCandidate(i, work[i], t)}])]
            \/ worker' = [worker EXCEPT ![w] = [r EXCEPT !.pc = "markLow", !.chosen = c]]
            \/ worker' = [worker EXCEPT ![w] = [r EXCEPT !.pc = "clearIdle", !.chosen = c]]
            \/ worker' = [worker EXCEPT ![w] = Onward(r)]
        BY <1>11 DEF Judge
    <2>2. PICK r : r = [worker[w] EXCEPT !.oids = @ \ {i}]
        OBVIOUS
    <2>3. DOMAIN r = Fields /\ r.db = worker[w].db
        BY <1>1, <2>2 DEF Fields
    <2>4. PICK a, m, n :
            /\ a = [r EXCEPT !.candidates = @ \cup {AsCandidate(i, work[i], t)}]
            /\ m = [r EXCEPT !.pc = "markLow", !.chosen = c]
            /\ n = [r EXCEPT !.pc = "clearIdle", !.chosen = c]
        OBVIOUS
    <2>5. /\ DOMAIN a = Fields /\ a.db = r.db
          /\ m.pc = "markLow" /\ m.db = r.db
          /\ n.pc = "clearIdle" /\ n.db = r.db
        BY <2>3, <2>4 DEF Fields
    <2>6. \/ worker' = [worker EXCEPT ![w] = Onward(a)]
          \/ worker' = [worker EXCEPT ![w] = m]
          \/ worker' = [worker EXCEPT ![w] = n]
          \/ worker' = [worker EXCEPT ![w] = Onward(r)]
        BY <2>1, <2>2, <2>4
    <2> QED
        BY <1>3, <1>5, <1>6, <2>3, <2>5, <2>6 DEF Querying
<1>12. CASE JudgeLocked(w)
    <2>1. PICK i \in worker[w].oids :
            worker' = [worker EXCEPT ![w] = Onward([worker[w] EXCEPT !.oids = @ \ {i}])]
        BY <1>12 DEF JudgeLocked
    <2>2. PICK r : r = [worker[w] EXCEPT !.oids = @ \ {i}]
        OBVIOUS
    <2>3. DOMAIN r = Fields /\ r.db = worker[w].db
        BY <1>1, <2>2 DEF Fields
    <2> QED
        BY <1>5, <1>6, <2>1, <2>2, <2>3
<1>15. CASE JudgeFails(w)
    BY <1>3, <1>15, OffGoes DEF JudgeFails
<1>13. CASE MarkLow(w) \/ ClearIdle(w)
    <2>1. worker' = [worker EXCEPT ![w] = Onward(worker[w])]
        BY <1>13 DEF MarkLow, ClearIdle, TInv, IInv, WorkersOK
    <2> QED
        BY <1>1, <1>5, <1>6, <2>1
<1>14. CASE Apply(w)
    <2>1. PICK cs, c : Choosing(w, cs, c)
        BY <1>14 DEF Apply
    <2>2. PICK r, q : /\ r = [worker[w] EXCEPT !.candidates = cs, !.chosen = c]
                      /\ q = [OffWorker EXCEPT !.pc = "execute", !.db = worker[w].db,
                                               !.chosen = c]
        OBVIOUS
    <2>3. /\ r.pc = worker[w].pc /\ r.db = worker[w].db
          /\ q.pc = "execute" /\ q.db = worker[w].db
        BY <1>1, <2>2 DEF Fields, OffWorker
    <2>4. \/ worker' = [worker EXCEPT ![w] = r]
          \/ worker' = [worker EXCEPT ![w] = q]
          \/ worker' = [worker EXCEPT ![w] = OffWorker]
        BY <2>1, <2>2 DEF Choosing
    <2> QED
        BY <1>3, <1>4, <1>6, <2>3, <2>4 DEF Querying
<1> QED
    BY <1>7, <1>8, <1>9, <1>10, <1>11, <1>12, <1>13, <1>14, <1>15

LEMMA ActionGoes ==
    ASSUME TInv, DbOK, NEW w \in Workers,
           \/ Counting(w) \/ NotCounting(w)
           \/ StartBuild(w) \/ BlockBuild(w) \/ Fail(w)
    PROVE  \E s : Goes(w, s)
<1>1. DOMAIN worker[w] = Fields
    BY DEF TInv, IInv, WorkersOK, RecordOK
<1>2. worker[w].pc \in Acting \cup {"execute", "build", "preload"}
    BY CountedForm, UncountedForm, StartForm DEF BlockBuild, Fail, At
<1>3. worker[w].pc \notin Querying /\ worker[w].db \in Databases
    BY <1>2 DEF Querying, DbOK, Acting
<1>4. PICK r, q : /\ r = [OffWorker EXCEPT !.pc = "consume", !.db = worker[w].db]
                  /\ q = [worker[w] EXCEPT !.pc = "build"]
    OBVIOUS
<1>5. /\ r.pc = "consume" /\ r.db = worker[w].db
      /\ q.pc = "build" /\ q.db = worker[w].db
    BY <1>1, <1>4 DEF Fields, OffWorker
<1>6. \/ Stop(w)
      \/ worker' = [worker EXCEPT ![w] = r]
      \/ worker' = [worker EXCEPT ![w] = q]
    <2>1. CASE Counting(w)
        <3>1. \E s, a : Counted(w, s, a)
            BY <2>1, CountedForm
        <3> QED
            BY <1>4, <3>1 DEF Counted
    <2>2. CASE NotCounting(w)
        <3>1. \E s : Uncounted(w, s)
            BY <2>2, UncountedForm
        <3> QED
            BY <3>1 DEF Uncounted
    <2>3. CASE StartBuild(w) \/ BlockBuild(w) \/ Fail(w)
        BY <1>4, <2>3 DEF StartBuild, BlockBuild, Fail, Uncounted
    <2> QED
        BY <2>1, <2>2, <2>3
<1> QED
    BY <1>3, <1>5, <1>6, OffGoes, GoesTo DEF Querying

-----------------------------------------------------------------------------
(***************************************************************************)
(* A class that is running has a worker                                    *)
(***************************************************************************)
LEMMA RecKeepsAgain ==
    ASSUME NEW r, NEW t, NEW u, RecKeeps(r, t), RecKeeps(t, u)
    PROVE  RecKeeps(r, u)
    BY DEF RecKeeps

\* A worker will be told about class f of index i.
Announced(s, i, f) ==
  \/ f \in HintOf(s.hints, i).flags
  \/ RunningIn(s.rec, DbOf[i], f)
  \/ Pending(s.rec, DbOf[i], f)

LEMMA AnnouncedStays ==
    ASSUME SchedulerAssumption, NEW s, NEW t, NEW i \in Indexes, NEW f \in Classes,
           Announced(s, i, f), Keeps(s.hints, t.hints, i, f), RecKeeps(s.rec, t.rec)
    PROVE  Announced(t, i, f)
<1>1. DbOf[i] \in Databases
    BY DEF SchedulerAssumption
<1> QED
    BY <1>1 DEF Announced, Keeps, RecKeeps

LEMMA MarkedRec ==
    ASSUME SchedulerAssumption, WorkHintsAssumption, NEW s, SharedOK(s), RecOK(s.rec),
           NEW i \in Indexes, NEW F \in SUBSET Classes, F # {}
    PROVE  /\ RecKeeps(s.rec, Marked(s, i, F).rec)
           /\ \A f \in F : Announced(Marked(s, i, F), i, f)
<1>1. DbOf[i] \in Databases
    BY DEF SchedulerAssumption
<1>2. PICK t : t = Marked(s, i, F)
    OBVIOUS
<1>3. CASE F \subseteq HintOf(t.hints, i).flags /\ t.rec = s.rec
    BY <1>2, <1>3, RecKeepsSame DEF Announced
<1>4. CASE t.rec = Requested(s.rec, DbOf[i], F)
    <2>1. RecKeeps(s.rec, t.rec)
        BY <1>1, <1>4, RequestedStep
    <2>2. \A f \in F : RunningIn(s.rec, DbOf[i], f) \/ Pending(t.rec, DbOf[i], f)
        BY <1>1, <1>4, RequestedStep
    <2> QED
        BY <1>1, <1>2, <2>1, <2>2 DEF Announced, RecKeeps
<1> QED
    BY <1>2, <1>3, <1>4, MarkedStep

LEMMA DeferredRec ==
    ASSUME SchedulerAssumption, WorkHintsAssumption, NEW s, SharedOK(s), RecOK(s.rec),
           NEW i \in Indexes
    PROVE  /\ RecKeeps(s.rec, Deferred(s, i).rec)
           /\ Announced(Deferred(s, i), i, "maintenance")
<1>1. DbOf[i] \in Databases
    BY DEF SchedulerAssumption
<1>2. PICK t : t = Deferred(s, i)
    OBVIOUS
<1>3. CASE "maintenance" \in HintOf(t.hints, i).flags /\ t.rec = s.rec
    BY <1>2, <1>3, RecKeepsSame DEF Announced
<1>4. CASE t.rec = Requested(s.rec, DbOf[i], {"maintenance"})
    <2>1. {"maintenance"} \in SUBSET Classes
        BY DEF Classes
    <2>2. RecKeeps(s.rec, t.rec)
        BY <1>1, <1>4, <2>1, RequestedStep
    <2>3. RunningIn(s.rec, DbOf[i], "maintenance") \/ Pending(t.rec, DbOf[i], "maintenance")
        BY <1>1, <1>4, <2>1, RequestedStep
    <2> QED
        BY <1>1, <1>2, <2>1, <2>2, <2>3 DEF Announced, RecKeeps
<1> QED
    BY <1>2, <1>3, <1>4, DeferredStep

\* What a worker does counted or not keeps the reconcile table.
LEMMA CountedRec ==
    ASSUME SchedulerAssumption, WorkHintsAssumption, NEW w \in Workers, NEW s,
           SharedOK(s), RecOK(s.rec), worker[w].chosen.index \in Indexes,
           worker[w].db \in Databases, NEW a \in BOOLEAN, Counted(w, s, a)
    PROVE  RecKeeps(s.rec, sched'.rec)
    BY CountedShared, ServicedStep

LEMMA UncountedRec ==
    ASSUME SchedulerAssumption, WorkHintsAssumption, NEW w \in Workers, NEW s,
           SharedOK(s), RecOK(s.rec), worker[w].chosen.index \in Indexes,
           Uncounted(w, s)
    PROVE  /\ RecKeeps(s.rec, sched'.rec)
           /\ worker[w].chosen.hinted \/ Announced(sched', worker[w].chosen.index, "maintenance")
<1>1. CASE worker[w].chosen.hinted
    <2>1. sched' = s
        BY <1>1 DEF Uncounted
    <2> QED
        BY <1>1, <2>1, RecKeepsSame
<1>2. CASE ~worker[w].chosen.hinted
    <2>1. sched' = Marked(s, worker[w].chosen.index, {"maintenance"})
        BY <1>2 DEF Uncounted
    <2>2. {"maintenance"} \in SUBSET Classes
        BY DEF Classes
    <2> QED
        BY <2>1, <2>2, MarkedRec
<1> QED
    BY <1>1, <1>2

LEMMA SelectionRec ==
    ASSUME SchedulerAssumption, WorkHintsAssumption, TInv, DbOK, RecOK(sched.rec),
           NEW w \in Workers,
           \/ ConsumePreload(w) \/ PickPreload(w)
           \/ Preload(w) \/ PreloadBusy(w) \/ PreloadDeclines(w)
           \/ SnapshotMaintenance(w) \/ Judge(w) \/ JudgeLocked(w) \/ JudgeFails(w)
           \/ MarkLow(w) \/ ClearIdle(w) \/ Apply(w)
    PROVE  RecKeeps(sched.rec, sched'.rec)
<1>1. SharedOK(sched)
    BY DEF TInv
<1>2. ASSUME sched'.rec = sched.rec
      PROVE  RecKeeps(sched.rec, sched'.rec)
    BY <1>2, RecKeepsSame
<1>3. ASSUME NEW i \in Indexes, NEW F \in SUBSET Classes, F # {},
             sched' = Marked(sched, i, F)
      PROVE  RecKeeps(sched.rec, sched'.rec)
    BY <1>1, <1>3, MarkedRec
<1>4. {"preload"} \in SUBSET Classes /\ {"maintenance"} \in SUBSET Classes
    BY DEF Classes
<1>5. CASE ConsumePreload(w) \/ Judge(w) \/ JudgeLocked(w) \/ JudgeFails(w)
    BY <1>1, <1>2, <1>5 DEF ConsumePreload, Judge, JudgeLocked, JudgeFails, SharedOK
<1>6. CASE PickPreload(w)
    <2>1. PICK i \in worker[w].oids :
            sched' = sched \/ sched' = Marked(sched, i, {"preload"})
        BY <1>6 DEF PickPreload
    <2>2. i \in Indexes
        BY <2>1 DEF TInv, IInv, WorkersOK, RecordOK
    <2> QED
        BY <1>2, <1>3, <1>4, <2>1, <2>2
<1>7. CASE Preload(w) \/ PreloadBusy(w) \/ PreloadDeclines(w)
    <2>1. PICK i : i = worker[w].chosen.index
        OBVIOUS
    <2>2. i \in Indexes
        BY <1>7, <2>1, PreloadForm, ActsOnIndex
    <2>3. PICK s \in {sched, Marked(sched, i, {"maintenance"})} :
            sched' \in {s, Marked(s, i, {"preload"})}
        BY <1>7, <2>1, PreloadForm
    <2>4. SharedOK(s) /\ RecKeeps(sched.rec, s.rec)
        BY <1>1, <1>4, <2>2, <2>3, MarkedStep, AfterOK, MarkedRec, RecKeepsSame
    <2>5. RecKeeps(s.rec, sched'.rec)
        BY <1>4, <2>2, <2>3, <2>4, MarkedRec, RecKeepsSame DEF RecKeeps
    <2> QED
        BY <2>4, <2>5, RecKeepsAgain
<1>11. CASE MarkLow(w)
    <2>1. PICK i : i = worker[w].chosen.index
        OBVIOUS
    <2>2. i \in Indexes
        BY <1>11, <2>1, ActsOnIndex DEF MarkLow, At, Acting
    <2>3. sched' = Marked(sched, i, {"maintenance"})
        BY <1>11, <2>1 DEF MarkLow
    <2> QED
        BY <1>3, <1>4, <2>2, <2>3
<1>8. CASE SnapshotMaintenance(w)
    <2>1. PICK v : v = [e \in Entries |->
             IF sched.rec.entries[e].db = worker[w].db
             THEN [sched.rec.entries[e] EXCEPT !.quiet = TRUE] ELSE sched.rec.entries[e]]
        OBVIOUS
    <2>2. PICK t : t = [sched.rec EXCEPT !.entries = v]
        OBVIOUS
    <2>3. sched' = [sched EXCEPT !.rec = t]
        BY <1>1, <1>8, <2>1, <2>2 DEF SnapshotMaintenance, SharedOK, RecOK
    <2>4. sched'.rec = t
        BY <1>1, <2>3 DEF SharedOK
    <2>5. /\ DOMAIN t = {"entries", "access"} /\ t.entries = v
          /\ t.access = sched.rec.access
        BY <2>2 DEF RecOK
    <2>6. DOMAIN t.entries = Entries
        BY <2>1, <2>5
    <2>7. ASSUME NEW e \in Entries
          PROVE  /\ DOMAIN t.entries[e] = DOMAIN sched.rec.entries[e]
                 /\ t.entries[e].db = sched.rec.entries[e].db
                 /\ t.entries[e].running = sched.rec.entries[e].running
                 /\ t.entries[e].requested = sched.rec.entries[e].requested
                 /\ t.entries[e].recent \subseteq sched.rec.entries[e].recent
        <3>1. DOMAIN sched.rec.entries[e] = DOMAIN FreeEntry
            BY DEF RecOK, EntryOK
        <3> QED
            BY <2>1, <2>5, <3>1 DEF FreeEntry
    <2> QED
        BY <2>4, <2>5, <2>6, <2>7, EasierKeeps
<1>9. CASE ClearIdle(w)
    <2>1. worker[w].chosen.index \in Indexes
        BY <1>9, ActsOnIndex DEF ClearIdle, At, Acting
    <2>2. sched' = Cleared(sched, worker[w].chosen.index, worker[w].chosen.sequence)
        BY <1>9 DEF ClearIdle
    <2> QED
        BY <1>1, <1>2, <2>1, <2>2, ClearedStep
<1>10. CASE Apply(w)
    <2>1. PICK c : /\ c = Best(w)
                   /\ sched' = sched \/ sched' = Marked(sched, c.index, {"maintenance"})
        BY <1>10 DEF Apply
    <2>2. worker[w].pc = "apply" /\ Best(w) \in worker[w].candidates
        BY <1>10, BestIsCandidate DEF Apply, At, TInv
    <2>3. c.index \in Indexes
        BY <2>1, <2>2 DEF TInv, IInv, WorkersOK, RecordOK
    <2> QED
        BY <1>2, <1>3, <1>4, <2>1, <2>3
<1> QED
    BY <1>5, <1>6, <1>7, <1>8, <1>9, <1>10, <1>11

LEMMA ActionRec ==
    ASSUME SchedulerAssumption, WorkHintsAssumption, TInv, DbOK, RecOK(sched.rec),
           NEW w \in Workers,
           \/ Counting(w) \/ NotCounting(w)
           \/ StartBuild(w) \/ BlockBuild(w) \/ Fail(w)
    PROVE  RecKeeps(sched.rec, sched'.rec)
<1>1. SharedOK(sched)
    BY DEF TInv
<1>2. PICK i : i = worker[w].chosen.index
    OBVIOUS
<1>3. {"preload"} \in SUBSET Classes /\ {"maintenance"} \in SUBSET Classes
    BY DEF Classes
<1>4. CASE Fail(w)
    BY <1>4, RecKeepsSame DEF Fail
<1>5. ASSUME ~Fail(w)
      PROVE  i \in Indexes /\ worker[w].db \in Databases
    <2>1. worker[w].pc \in Acting
        BY <1>5, CountedForm, UncountedForm, StartForm DEF BlockBuild, At, Acting
    <2> QED
        BY <1>2, <2>1, ActsOnIndex DEF Acting, DbOK
<1>6. ASSUME ~Fail(w), NEW s, SharedOK(s), RecKeeps(sched.rec, s.rec),
             (\E a \in BOOLEAN : Counted(w, s, a)) \/ Uncounted(w, s)
      PROVE  RecKeeps(sched.rec, sched'.rec)
    <2>1. RecOK(s.rec)
        BY <1>6 DEF RecKeeps
    <2>2. RecKeeps(s.rec, sched'.rec)
        BY <1>2, <1>5, <1>6, <2>1, CountedRec, UncountedRec
    <2> QED
        BY <1>6, <2>2, RecKeepsAgain
<1>7. ASSUME ~Fail(w), NEW s, SharedOK(s), RecKeeps(sched.rec, s.rec),
             NEW t \in {s, Marked(s, i, {"preload"}), Marked(s, i, {"maintenance"}),
                        Deferred(s, i), Allowed(s, i)}
      PROVE  SharedOK(t) /\ RecKeeps(sched.rec, t.rec)
    <2>1. RecOK(s.rec)
        BY <1>7 DEF RecKeeps
    <2>2. CASE t = Allowed(s, i)
        BY <1>5, <1>7, <2>2, AllowedStep, AfterOK
    <2>3. CASE t \in {Marked(s, i, {"preload"}), Marked(s, i, {"maintenance"}), Deferred(s, i)}
        <3>1. SharedOK(t) /\ RecKeeps(s.rec, t.rec)
            BY <1>3, <1>5, <1>7, <2>1, <2>3, MarkedStep, DeferredStep, AfterOK, MarkedRec,
               DeferredRec
        <3> QED
            BY <1>7, <3>1, RecKeepsAgain
    <2> QED
        BY <1>7, <2>2, <2>3
<1>8. RecKeeps(sched.rec, sched.rec)
    BY RecKeepsSame
<1>9. CASE Counting(w) /\ ~Fail(w)
    <2>1. PICK s \in {sched, Marked(sched, i, {"preload"})} :
          \E t \in {s, Marked(s, i, {"maintenance"}), Allowed(s, i)} :
          \E a \in BOOLEAN : Counted(w, t, a)
        BY <1>2, <1>9, CountedForm
    <2>2. SharedOK(s) /\ RecKeeps(sched.rec, s.rec)
        BY <1>1, <1>7, <1>8, <1>9, <2>1
    <2>3. PICK t \in {s, Marked(s, i, {"maintenance"}), Allowed(s, i)} :
            \E a \in BOOLEAN : Counted(w, t, a)
        BY <2>1
    <2>4. SharedOK(t) /\ RecKeeps(sched.rec, t.rec)
        BY <1>7, <1>9, <2>2, <2>3
    <2> QED
        BY <1>6, <1>9, <2>3, <2>4
<1>10. CASE NotCounting(w) /\ ~Fail(w)
    <2>1. PICK s \in {sched, Marked(sched, i, {"maintenance"}), Deferred(sched, i),
                      Allowed(sched, i)} : Uncounted(w, s)
        BY <1>2, <1>10, UncountedForm
    <2>2. SharedOK(s) /\ RecKeeps(sched.rec, s.rec)
        BY <1>1, <1>7, <1>8, <1>10, <2>1
    <2> QED
        BY <1>6, <1>10, <2>1, <2>2
<1>11. CASE StartBuild(w) /\ ~Fail(w)
    <2>1. sched' = Deferred(sched, i)
        BY <1>2, <1>11 DEF StartBuild
    <2> QED
        BY <1>1, <1>7, <1>8, <1>11, <2>1
<1>12. CASE BlockBuild(w) /\ ~Fail(w)
    <2>1. \/ sched' = Cleared(sched, i, worker[w].chosen.sequence)
          \/ Uncounted(w, sched)
        BY <1>2, <1>12 DEF BlockBuild
    <2>2. ASSUME sched' = Cleared(sched, i, worker[w].chosen.sequence)
          PROVE  RecKeeps(sched.rec, sched'.rec)
        BY <1>1, <1>5, <1>8, <1>12, <2>2, ClearedStep
    <2> QED
        BY <1>1, <1>6, <1>8, <1>12, <2>1, <2>2
<1> QED
    BY <1>4, <1>9, <1>10, <1>11, <1>12

\* Worker w claims the reconciliation of class f and goes to record r.
Claims(w, f, r) ==
  /\ worker' = [worker EXCEPT ![w] = r]
  /\ worker[w].pc \notin Querying /\ worker[w].db \in Databases
  /\ sched'.rec = Claimed(sched.rec, worker[w].db, f)
  /\ r.pc # "off" => r.db = worker[w].db
  /\ IF Grants(sched.rec, worker[w].db, f) THEN r.pc = QueryOf(f) ELSE r.pc \notin Querying

\* Its reconciliation of class f ends and it goes to record r.
Finishes(w, f, r) ==
  /\ worker' = [worker EXCEPT ![w] = r]
  /\ worker[w].pc = QueryOf(f) /\ worker[w].db \in Databases
  /\ Ends(sched.rec, sched'.rec, worker[w].db, f)
  /\ r.pc \notin Querying
  /\ r.pc # "off" => r.db = worker[w].db

LEMMA ClaimSteps ==
    ASSUME TInv, DbOK, NEW w \in Workers, ClaimPreload(w) \/ ClaimMaintenance(w)
    PROVE  \E f \in Classes : \E r : Claims(w, f, r)
<1>1. DOMAIN worker[w] = Fields
    BY DEF TInv, IInv, WorkersOK, RecordOK
<1>2. worker[w].pc \notin Querying /\ worker[w].db \in Databases
    BY DEF ClaimPreload, ClaimMaintenance, At, Querying, DbOK
<1>3. CASE ClaimPreload(w)
    <2>1. PICK g \in BOOLEAN : g = Grants(sched.rec, worker[w].db, "preload")
        BY DEF Grants
    <2>2. PICK p : p = IF g THEN "queryP"
                       ELSE IF worker[w].oids = {} THEN "snapshot" ELSE "pickP"
        OBVIOUS
    <2>3. PICK q : q = [worker[w] EXCEPT !.claimed = g, !.pc = p]
        OBVIOUS
    <2>4. q.pc = p /\ q.db = worker[w].db
        BY <1>1, <2>3 DEF Fields
    <2>5. PICK r : r = IF ~g /\ worker[w].oids = {} /\ worker[w].preloaded
                       THEN OffWorker ELSE q
        OBVIOUS
    <2>6. worker' = [worker EXCEPT ![w] = r]
        BY <1>3, <2>1, <2>2, <2>3, <2>5 DEF ClaimPreload
    <2>7. sched'.rec = Claimed(sched.rec, worker[w].db, "preload")
        BY <1>3 DEF ClaimPreload, TInv, SharedOK
    <2>8. /\ r.pc # "off" => r.db = worker[w].db
          /\ IF g THEN r.pc = QueryOf("preload") ELSE r.pc \notin Querying
        BY <2>2, <2>4, <2>5 DEF OffWorker, Querying, QueryOf
    <2> QED
        BY <1>2, <2>1, <2>6, <2>7, <2>8 DEF Claims, Classes
<1>4. CASE ClaimMaintenance(w)
    <2>1. PICK g \in BOOLEAN : g = Grants(sched.rec, worker[w].db, "maintenance")
        BY DEF Grants
    <2>2. PICK c : c = FairnessCursor(sched.rec, worker[w].db)
        OBVIOUS
    <2>3. PICK q, o : /\ q = [worker[w] EXCEPT !.claimed = TRUE, !.pc = "queryM"]
                      /\ o = [worker[w] EXCEPT !.claimed = FALSE, !.cursor = c]
        OBVIOUS
    <2>4. q.pc = "queryM" /\ q.db = worker[w].db /\ o.db = worker[w].db /\ DOMAIN o = Fields
        BY <1>1, <2>3 DEF Fields
    <2>5. PICK r : r = IF g THEN q ELSE Onward(o)
        OBVIOUS
    <2>6. worker' = [worker EXCEPT ![w] = r]
        BY <1>4, <2>1, <2>2, <2>3, <2>5 DEF ClaimMaintenance
    <2>7. sched'.rec = Claimed(sched.rec, worker[w].db, "maintenance")
        BY <1>4 DEF ClaimMaintenance, TInv, SharedOK
    <2>8. /\ Onward(o).pc \in {"judge", "apply", "off"}
          /\ Onward(o).pc # "off" => Onward(o).db = o.db
        BY <2>4, OnwardGoes
    <2>9. /\ r.pc # "off" => r.db = worker[w].db
          /\ IF g THEN r.pc = QueryOf("maintenance") ELSE r.pc \notin Querying
        BY <2>4, <2>5, <2>8 DEF Querying, QueryOf
    <2> QED
        BY <1>2, <2>1, <2>6, <2>7, <2>9 DEF Claims, Classes
<1> QED
    BY <1>3, <1>4

LEMMA QuerySteps ==
    ASSUME SchedulerAssumption, TInv, DbOK, RecOK(sched.rec), NEW w \in Workers,
           \/ QueryPreload(w) \/ QueryPreloadFails(w)
           \/ QueryMaintenance(w) \/ QueryMaintenanceFails(w)
    PROVE  \E f \in Classes : \E r : Finishes(w, f, r)
<1>1. DOMAIN worker[w] = Fields
    BY DEF TInv, IInv, WorkersOK, RecordOK
<1>2. PICK d : d = worker[w].db
    OBVIOUS
<1>3. d \in Databases
    BY <1>2 DEF QueryPreload, QueryPreloadFails, QueryMaintenance, QueryMaintenanceFails,
                At, DbOK
<1>4. "preload" \in Classes /\ "maintenance" \in Classes
    BY DEF Classes
<1>5. OffWorker.pc = "off"
    BY DEF OffWorker
<1>6. CASE QueryPreload(w)
    <2>1. Ends(sched.rec, sched'.rec, d, "preload")
        BY <1>2, <1>3, <1>4, <1>6, CompletedStep DEF QueryPreload, TInv, SharedOK
    <2>2. PICK q, o : /\ q = [worker[w] EXCEPT !.oids = Mine(d) \cap Preloads, !.pc = "pickP"]
                      /\ o = [worker[w] EXCEPT !.oids = {}, !.pc = "snapshot"]
        OBVIOUS
    <2>3. q.pc = "pickP" /\ q.db = d /\ o.pc = "snapshot" /\ o.db = d
        BY <1>1, <1>2, <2>2 DEF Fields
    <2>4. PICK r : /\ r \in {q, o, OffWorker}
                   /\ worker' = [worker EXCEPT ![w] = r]
        BY <1>2, <1>6, <2>2 DEF QueryPreload
    <2>5. worker[w].pc = QueryOf("preload")
        BY <1>6 DEF QueryPreload, At, QueryOf
    <2> QED
        BY <1>2, <1>3, <1>4, <1>5, <2>1, <2>3, <2>4, <2>5 DEF Finishes, Querying
<1>7. CASE QueryMaintenance(w)
    <2>1. Ends(sched.rec, sched'.rec, d, "maintenance")
        BY <1>2, <1>3, <1>4, <1>7, CompletedStep DEF QueryMaintenance, TInv, SharedOK
    <2>2. PICK q : q = [worker[w] EXCEPT !.oids = Mine(d),
                                         !.cursor = FairnessCursor(sched.rec, d)]
        OBVIOUS
    <2>3. DOMAIN q = Fields /\ q.db = d
        BY <1>1, <1>2, <2>2 DEF Fields
    <2>4. worker' = [worker EXCEPT ![w] = Onward(q)]
        BY <1>2, <1>7, <2>2 DEF QueryMaintenance
    <2>5. worker[w].pc = QueryOf("maintenance")
        BY <1>7 DEF QueryMaintenance, At, QueryOf
    <2>6. Onward(q).pc \notin Querying /\ (Onward(q).pc # "off" => Onward(q).db = d)
        BY <2>3, OnwardGoes DEF Querying
    <2> QED
        BY <1>2, <1>3, <1>4, <2>1, <2>4, <2>5, <2>6 DEF Finishes
<1>8. CASE QueryPreloadFails(w)
    <2>1. Ends(sched.rec, sched'.rec, d, "preload")
        BY <1>2, <1>3, <1>4, <1>8, ReleasedStep DEF QueryPreloadFails, TInv, SharedOK
    <2>2. worker[w].pc = QueryOf("preload") /\ worker' = [worker EXCEPT ![w] = OffWorker]
        BY <1>8 DEF QueryPreloadFails, At, QueryOf, Stop
    <2> QED
        BY <1>2, <1>3, <1>4, <1>5, <2>1, <2>2 DEF Finishes, Querying
<1>9. CASE QueryMaintenanceFails(w)
    <2>1. Ends(sched.rec, sched'.rec, d, "maintenance")
        BY <1>2, <1>3, <1>4, <1>9, ReleasedStep DEF QueryMaintenanceFails, TInv, SharedOK
    <2>2. worker[w].pc = QueryOf("maintenance") /\ worker' = [worker EXCEPT ![w] = OffWorker]
        BY <1>9 DEF QueryMaintenanceFails, At, QueryOf, Stop
    <2> QED
        BY <1>2, <1>3, <1>4, <1>5, <2>1, <2>2 DEF Finishes, Querying
<1> QED
    BY <1>6, <1>7, <1>8, <1>9

\* The environment leaves the workers alone.
LEMMA EnvironmentRec ==
    ASSUME SchedulerAssumption, WorkHintsAssumption, TInv, RecOK(sched.rec), Environment
    PROVE  /\ RecKeeps(sched.rec, sched'.rec)
           /\ KeepsAll(sched, sched')
           /\ UNCHANGED <<worker, faults>>
<1>1. SharedOK(sched)
    BY DEF TInv
<1>2. {"maintenance"} \in SUBSET Classes
    BY DEF Classes
<1>3. ASSUME NEW i \in Indexes, Write(i) \/ Heat(i)
      PROVE  /\ RecKeeps(sched.rec, sched'.rec) /\ KeepsAll(sched, sched')
             /\ UNCHANGED <<worker, faults>>
    <2>1. sched' = Marked(sched, i, {"maintenance"})
        BY <1>3 DEF Write, Heat
    <2> QED
        BY <1>1, <1>2, <1>3, <2>1, MarkedStep, MarkedRec DEF Write, Heat
<1>4. ASSUME NEW s \in Slots(sched.hints), Age(s) \/ CoolDown(s)
      PROVE  /\ RecKeeps(sched.rec, sched'.rec) /\ KeepsAll(sched, sched')
             /\ UNCHANGED <<worker, faults>>
    BY <1>4, TimeMoves, RecKeepsSame DEF Age, CoolDown
<1>5. ASSUME NEW d \in Databases, ClearCache(d)
      PROVE  /\ RecKeeps(sched.rec, sched'.rec) /\ KeepsAll(sched, sched')
             /\ UNCHANGED <<worker, faults>>
    <2>1. /\ DOMAIN sched' = {"hints", "rec"} /\ sched'.hints = sched.hints
          /\ sched'.rec = Requested(sched.rec, d, Classes)
        BY <1>1, <1>5 DEF ClearCache, SharedOK
    <2>2. Classes \in SUBSET Classes
        OBVIOUS
    <2>3. RecKeeps(sched.rec, Requested(sched.rec, d, Classes))
        BY <2>2, RequestedStep
    <2>4. KeepsAll(sched, sched')
        BY <2>1, SameHints
    <2> QED
        BY <1>5, <2>1, <2>3, <2>4 DEF ClearCache
<1>6. ASSUME NEW e \in Entries, NEW flag \in Classes, ReconcileDue(e, flag)
      PROVE  /\ RecKeeps(sched.rec, sched'.rec) /\ KeepsAll(sched, sched')
             /\ UNCHANGED <<worker, faults>>
    <2>1. PICK u : u = sched.rec.entries[e]
        OBVIOUS
    <2>2. PICK v : v = [u EXCEPT !.recent = @ \ {flag}]
        OBVIOUS
    <2>3. EntryOK(u)
        BY <2>1 DEF RecOK
    <2>4. /\ DOMAIN v = DOMAIN u /\ v.db = u.db /\ v.running = u.running
          /\ v.requested = u.requested /\ v.recent \subseteq u.recent
        BY <2>2, <2>3 DEF EntryOK, FreeEntry
    <2>5. PICK x : x = [sched.rec.entries EXCEPT ![e] = v]
        OBVIOUS
    <2>6. PICK t : t = [sched.rec EXCEPT !.entries = x]
        OBVIOUS
    <2>7. sched' = [sched EXCEPT !.rec = t]
        BY <1>1, <1>6, <2>1, <2>2, <2>5, <2>6 DEF ReconcileDue, SharedOK, RecOK
    <2>8. DOMAIN sched' = {"hints", "rec"} /\ sched'.hints = sched.hints /\ sched'.rec = t
        BY <1>1, <2>7 DEF SharedOK
    <2>9. /\ DOMAIN t = {"entries", "access"} /\ t.entries = x
          /\ t.access = sched.rec.access
        BY <2>6 DEF RecOK
    <2>10. \A g \in Entries : x[g] = IF g = e THEN v ELSE sched.rec.entries[g]
        BY <2>5 DEF RecOK
    <2>11. DOMAIN x = Entries
        BY <2>5 DEF RecOK
    <2>12. \A g \in Entries :
             /\ DOMAIN t.entries[g] = DOMAIN sched.rec.entries[g]
             /\ t.entries[g].db = sched.rec.entries[g].db
             /\ t.entries[g].running = sched.rec.entries[g].running
             /\ t.entries[g].requested = sched.rec.entries[g].requested
             /\ t.entries[g].recent \subseteq sched.rec.entries[g].recent
        BY <2>1, <2>4, <2>9, <2>10
    <2>13. RecKeeps(sched.rec, t)
        BY <2>9, <2>11, <2>12, EasierKeeps
    <2>14. KeepsAll(sched, sched')
        BY <2>8, SameHints
    <2> QED
        BY <1>6, <2>8, <2>13, <2>14 DEF ReconcileDue
<1> QED
    BY <1>3, <1>4, <1>5, <1>6 DEF Environment

\* What a worker gave up is only added to, but for a reconciliation that lists
\* it again.
LEMMA FaultsStep ==
    ASSUME FaultsOK, NEW w \in Workers, WorkerStep(w) \/ Setback(w)
    PROVE  /\ FaultsOK'
           /\ faults.missed \subseteq faults'.missed \/ QueryMaintenance(w)
           /\ faults.unwarmed \subseteq faults'.unwarmed \/ QueryPreload(w)
           /\ faults'.terminations = 0 => faults.terminations = 0
<1>1. CASE Terminate(w)
    <2>1. PICK n \in Nat : n = faults.terminations
        BY DEF FaultsOK
    <2>2. faults' = [faults EXCEPT !.terminations = n + 1]
        BY <1>1, <2>1 DEF Terminate, FaultsOK
    <2> QED
        BY <2>1, <2>2 DEF FaultsOK
<1>2. CASE PreloadDeclines(w) \/ JudgeLocked(w) \/ JudgeFails(w) \/ Fail(w)
    <2>1. PICK X : \/ faults' = faults
                   \/ faults' = [faults EXCEPT !.missed = @ \cup X]
                   \/ faults' = [faults EXCEPT !.unwarmed = @ \cup X]
        BY <1>2 DEF PreloadDeclines, JudgeLocked, JudgeFails, Fail
    <2> QED
        BY <2>1 DEF FaultsOK
<1>3. CASE QueryPreload(w)
    BY <1>3 DEF QueryPreload, FaultsOK
<1>4. CASE QueryMaintenance(w)
    BY <1>4 DEF QueryMaintenance, FaultsOK
<1>5. CASE \/ Rotate(w) \/ Seal(w) \/ Restructure(w) \/ CompleteSemantic(w)
           \/ TruncateTail(w) \/ FoldHot(w) \/ StartBuild(w) \/ FinishBuild(w)
           \/ NothingDone(w) \/ DeferToBuild(w)
    <2>1. faults' = faults
        BY <1>5 DEF Rotate, Seal, Restructure, CompleteSemantic, TruncateTail,
           FoldHot, StartBuild, FinishBuild, NothingDone, DeferToBuild, PublishedMarked
    <2> QED
        BY <2>1 DEF FaultsOK
<1>6. CASE \/ ConsumePreload(w) \/ ClaimPreload(w) \/ PickPreload(w) \/ Preload(w)
           \/ SnapshotMaintenance(w) \/ ClaimMaintenance(w)
           \/ Judge(w) \/ MarkLow(w) \/ ClearIdle(w) \/ Apply(w)
    <2>1. faults' = faults
        BY <1>6 DEF ConsumePreload, ClaimPreload, PickPreload, Preload,
           SnapshotMaintenance, ClaimMaintenance, Judge, MarkLow, ClearIdle, Apply
    <2> QED
        BY <2>1 DEF FaultsOK
<1>7. CASE \/ QueryPreloadFails(w) \/ PreloadBusy(w) \/ QueryMaintenanceFails(w)
           \/ Defer(w) \/ Stall(w) \/ LoseBuild(w) \/ BlockBuild(w) \/ AbandonBuild(w)
    <2>1. faults' = faults
        BY <1>7 DEF QueryPreloadFails, PreloadBusy, QueryMaintenanceFails,
           Defer, Stall, LoseBuild, BlockBuild, AbandonBuild
    <2> QED
        BY <2>1 DEF FaultsOK
<1> QED
    BY <1>1, <1>2, <1>3, <1>4, <1>5, <1>6, <1>7 DEF WorkerStep, Setback

LEMMA FaultsMove ==
    ASSUME FaultsOK, Next
    PROVE  /\ FaultsOK'
           /\ faults'.terminations = 0 => faults.terminations = 0
           /\ \A w \in Workers : Terminate(w) => faults'.terminations # 0
<1>1. ASSUME NEW w \in Workers, Terminate(w)
      PROVE  faults'.terminations # 0
    <2>1. PICK n \in Nat : n = faults.terminations
        BY DEF FaultsOK
    <2>2. faults' = [faults EXCEPT !.terminations = n + 1]
        BY <1>1, <2>1 DEF Terminate, FaultsOK
    <2> QED
        BY <2>1, <2>2 DEF FaultsOK
<1>2. FaultsOK' /\ (faults'.terminations = 0 => faults.terminations = 0)
    <2>1. CASE Environment
        <3>1. faults' = faults
            BY <2>1 DEF Environment, Write, Heat, Age, CoolDown, ClearCache, ReconcileDue
        <3> QED
            BY <3>1 DEF FaultsOK
    <2>2. ASSUME NEW w \in Workers, WorkerStep(w) \/ Setback(w)
          PROVE  FaultsOK' /\ (faults'.terminations = 0 => faults.terminations = 0)
        BY <2>2, FaultsStep
    <2>3. ASSUME NEW w \in Workers, Launch(w) \/ \E d \in Databases : TouchLaunch(w, d)
          PROVE  FaultsOK' /\ (faults'.terminations = 0 => faults.terminations = 0)
        <3>1. faults' = faults
            BY <2>3 DEF Launch, TouchLaunch
        <3> QED
            BY <3>1 DEF FaultsOK
    <2> QED
        BY <2>1, <2>2, <2>3 DEF Next
<1> QED
    BY <1>1, <1>2

\* What a step means for the reconcile table and the workers that query.
LEMMA QueryMoves ==
    ASSUME SchedulerAssumption, WorkHintsAssumption, TInv, DbOK, RecOK(sched.rec), Next
    PROVE  \/ RecKeeps(sched.rec, sched'.rec) /\ worker' = worker
           \/ \E w \in Workers : \E r : RecKeeps(sched.rec, sched'.rec) /\ Goes(w, r)
           \/ \E w \in Workers, f \in Classes : \E r : Claims(w, f, r) \/ Finishes(w, f, r)
           \/ \E w \in Workers : Terminate(w)
<1>1. CASE Environment
    BY <1>1, EnvironmentRec
<1>2. ASSUME NEW w \in Workers, WorkerStep(w) \/ Setback(w)
      PROVE  \/ \E r : RecKeeps(sched.rec, sched'.rec) /\ Goes(w, r)
             \/ \E f \in Classes : \E r : Claims(w, f, r) \/ Finishes(w, f, r)
             \/ Terminate(w)
    <2>1. CASE \/ ConsumePreload(w) \/ PickPreload(w)
               \/ Preload(w) \/ PreloadBusy(w) \/ PreloadDeclines(w)
               \/ SnapshotMaintenance(w) \/ Judge(w) \/ JudgeLocked(w) \/ JudgeFails(w)
               \/ MarkLow(w) \/ ClearIdle(w) \/ Apply(w)
        BY <2>1, SelectionGoes, SelectionRec
    <2>2. CASE \/ Counting(w) \/ NotCounting(w)
               \/ StartBuild(w) \/ BlockBuild(w) \/ Fail(w)
        BY <2>2, ActionGoes, ActionRec
    <2>3. CASE ClaimPreload(w) \/ ClaimMaintenance(w)
        BY <2>3, ClaimSteps
    <2>4. CASE \/ QueryPreload(w) \/ QueryPreloadFails(w)
               \/ QueryMaintenance(w) \/ QueryMaintenanceFails(w)
        BY <2>4, QuerySteps
    <2> QED
        BY <1>2, <2>1, <2>2, <2>3, <2>4 DEF WorkerStep, Setback, Counting, NotCounting
<1>3. ASSUME NEW w \in Workers, Launch(w) \/ \E d \in Databases : TouchLaunch(w, d)
      PROVE  \E r : RecKeeps(sched.rec, sched'.rec) /\ Goes(w, r)
    <2>1. PICK d \in Databases : Launch(w) \/ TouchLaunch(w, d)
        <3>1. Launch(w) => Databases # {}
            BY DEF Launch
        <3> QED
            BY <1>3, <3>1
    <2> QED
        BY <2>1, LaunchGoes, RecKeepsSame
<1> QED
    BY <1>1, <1>2, <1>3 DEF Next

RunInv ==
  faults.terminations = 0 => \A d \in Databases, f \in Classes :
    RunningIn(sched.rec, d, f) =>
      \E w \in Workers : worker[w].pc = QueryOf(f) /\ worker[w].db = d

SInv == TInv /\ RecOK(sched.rec) /\ DbOK /\ FaultsOK /\ RunInv

\* The two classes are queried for in places of their own.
LEMMA QueryPlaces ==
    /\ \A f \in Classes : QueryOf(f) \in Querying
    /\ \A f, g \in Classes : QueryOf(f) = QueryOf(g) => f = g
    BY DEF QueryOf, Querying, Classes

\* One worker goes on, the others stay where they are.
LEMMA OthersStay ==
    ASSUME TInv, NEW w \in Workers, NEW r, worker' = [worker EXCEPT ![w] = r]
    PROVE  worker'[w] = r /\ \A u \in Workers : u # w => worker'[u] = worker[u]
    BY DEF TInv, IInv, WorkersOK

LEMMA NextSInv ==
    ASSUME SchedulerAssumption, WorkHintsAssumption, SInv, [Next]_vars
    PROVE  SInv'
<1>1. TInv'
    BY NextTInv DEF SInv
<1>2. CASE Next
    <2>1. \/ RecKeeps(sched.rec, sched'.rec) /\ worker' = worker
          \/ \E w \in Workers : \E r : RecKeeps(sched.rec, sched'.rec) /\ Goes(w, r)
          \/ \E w \in Workers, f \in Classes : \E r : Claims(w, f, r) \/ Finishes(w, f, r)
          \/ \E w \in Workers : Terminate(w)
        BY <1>2, QueryMoves DEF SInv
    <2>2. /\ FaultsOK' /\ (faults'.terminations = 0 => faults.terminations = 0)
          /\ \A w \in Workers : Terminate(w) => faults'.terminations # 0
        BY <1>2, FaultsMove DEF SInv
    <2>3. CASE RecKeeps(sched.rec, sched'.rec) /\ worker' = worker
        BY <1>1, <2>2, <2>3 DEF SInv, RecKeeps, DbOK, RunInv
    <2>4. ASSUME NEW w \in Workers, NEW r, RecKeeps(sched.rec, sched'.rec), Goes(w, r)
          PROVE  SInv'
        <3>1. worker'[w] = r /\ \A u \in Workers : u # w => worker'[u] = worker[u]
            BY <2>4, OthersStay DEF SInv, Goes
        <3>2. DbOK'
            BY <2>4, <3>1 DEF SInv, DbOK, Goes
        <3>3. RunInv'
            BY <2>2, <2>4, <3>1, QueryPlaces DEF SInv, RunInv, Goes, RecKeeps
        <3> QED
            BY <1>1, <2>2, <2>4, <3>2, <3>3 DEF SInv, RecKeeps
    <2>5. ASSUME NEW w \in Workers, NEW f \in Classes, NEW r, Claims(w, f, r)
          PROVE  SInv'
        <3>1. worker'[w] = r /\ \A u \in Workers : u # w => worker'[u] = worker[u]
            BY <2>5, OthersStay DEF SInv, Claims
        <3>2. DbOK'
            BY <2>5, <3>1 DEF SInv, DbOK, Claims
        <3>3. PICK d \in Databases : d = worker[w].db
            BY <2>5 DEF Claims
        <3>4. RecKeepsBut(sched.rec, sched'.rec, d, f)
            BY <2>5, <3>3, ClaimedStep DEF SInv, Claims
        <3>5. ASSUME faults'.terminations = 0, NEW b \in Databases, NEW g \in Classes,
                     RunningIn(sched'.rec, b, g)
              PROVE  \E u \in Workers : worker'[u].pc = QueryOf(g) /\ worker'[u].db = b
            <4>1. CASE RunningIn(sched.rec, b, g)
                <5>1. PICK u \in Workers : worker[u].pc = QueryOf(g) /\ worker[u].db = b
                    BY <2>2, <3>5, <4>1 DEF SInv, RunInv
                <5>2. u # w
                    BY <2>5, <5>1, QueryPlaces DEF Claims
                <5> QED
                    BY <3>1, <5>1, <5>2
            <4>2. CASE ~RunningIn(sched.rec, b, g)
                <5>1. b = d /\ g = f
                    BY <3>4, <3>5, <4>2 DEF RecKeepsBut
                <5>2. Grants(sched.rec, d, f)
                    <6>1. ~Grants(sched.rec, d, f) => sched'.rec = sched.rec
                        BY <2>5, <3>3, ClaimedStep DEF SInv, Claims
                    <6> QED
                        BY <3>5, <4>2, <6>1
                <5>3. r.pc = QueryOf(f) /\ r.pc # "off"
                    BY <2>5, <3>3, <5>2 DEF Claims, QueryOf
                <5> QED
                    BY <2>5, <3>1, <3>3, <5>1, <5>3 DEF Claims
            <4> QED
                BY <4>1, <4>2
        <3>6. RunInv'
            BY <3>5 DEF RunInv
        <3> QED
            BY <1>1, <2>2, <3>2, <3>4, <3>6 DEF SInv, RecKeepsBut
    <2>6. ASSUME NEW w \in Workers, NEW f \in Classes, NEW r, Finishes(w, f, r)
          PROVE  SInv'
        <3>1. worker'[w] = r /\ \A u \in Workers : u # w => worker'[u] = worker[u]
            BY <2>6, OthersStay DEF SInv, Finishes
        <3>2. DbOK'
            BY <2>6, <3>1 DEF SInv, DbOK, Finishes
        <3>3. ASSUME faults'.terminations = 0, NEW b \in Databases, NEW g \in Classes,
                     RunningIn(sched'.rec, b, g)
              PROVE  \E u \in Workers : worker'[u].pc = QueryOf(g) /\ worker'[u].db = b
            <4>1. RunningIn(sched.rec, b, g) /\ ~(b = worker[w].db /\ g = f)
                BY <2>6, <3>3 DEF Finishes, Ends
            <4>2. PICK u \in Workers : worker[u].pc = QueryOf(g) /\ worker[u].db = b
                BY <2>2, <3>3, <4>1 DEF SInv, RunInv
            <4>3. u # w
                BY <2>6, <4>1, <4>2, QueryPlaces DEF Finishes
            <4> QED
                BY <3>1, <4>2, <4>3
        <3>4. RunInv'
            BY <3>3 DEF RunInv
        <3> QED
            BY <1>1, <2>2, <2>6, <3>2, <3>4 DEF SInv, Finishes, Ends
    <2>7. ASSUME NEW w \in Workers, Terminate(w)
          PROVE  SInv'
        <3>1. worker' = [worker EXCEPT ![w] = OffWorker] /\ sched' = sched
            BY <2>7 DEF Terminate, Stop
        <3>2. worker'[w] = OffWorker /\ \A u \in Workers : u # w => worker'[u] = worker[u]
            BY <3>1, OthersStay DEF SInv
        <3>3. DbOK'
            BY <3>2 DEF SInv, DbOK, OffWorker
        <3>4. faults'.terminations # 0
            BY <2>2, <2>7
        <3> QED
            BY <1>1, <2>2, <3>1, <3>3, <3>4 DEF SInv, RunInv
    <2> QED
        BY <2>1, <2>3, <2>4, <2>5, <2>6, <2>7
<1>3. CASE UNCHANGED vars
    BY <1>1, <1>3 DEF SInv, RecOK, EntryOK, DbOK, FaultsOK, RunInv, RunningIn, vars
<1> QED
    BY <1>2, <1>3

LEMMA InitSInv ==
    ASSUME SchedulerAssumption, WorkHintsAssumption, Init
    PROVE  SInv
<1>1. TInv
    BY InitHolds, InitShared DEF TInv
<1>2. /\ sched.rec.entries = [e \in Entries |-> FreeEntry]
      /\ sched.rec.access = [e \in Entries |-> 0]
      /\ DOMAIN sched.rec = {"entries", "access"}
    BY DEF Init
<1>3. FreeEntry.db = NoDb /\ FreeEntry.running = {} /\ EntryOK(FreeEntry)
    BY DEF FreeEntry, EntryOK
<1>4. RecOK(sched.rec)
    BY <1>2, <1>3 DEF RecOK
<1>5. \A d \in Databases, f \in Classes : ~RunningIn(sched.rec, d, f)
    BY <1>2, <1>3 DEF RunningIn
<1>6. DbOK /\ FaultsOK
    BY DEF Init, DbOK, FaultsOK, OffWorker
<1> QED
    BY <1>1, <1>4, <1>5, <1>6 DEF SInv, RunInv

LEMMA AlwaysSInv ==
    ASSUME SchedulerAssumption, WorkHintsAssumption
    PROVE  Spec => []SInv
<1>1. Init => SInv
    BY InitSInv
<1>2. SInv /\ [Next]_vars => SInv'
    BY NextSInv
<1> QED
    BY <1>1, <1>2, PTL DEF Spec

\* Unless a worker was terminated from outside, a class of a database that is
\* marked as running, which makes every other claim of it fail, has a worker
\* that runs its catalog query: no error, no failed query and no entry that
\* changed hands leaves the mark behind, for any number of workers, databases
\* and entries.
THEOREM RunningClassHasWorker ==
    ASSUME SchedulerAssumption, WorkHintsAssumption
    PROVE  Spec => []RunningHasWorker
<1>1. SInv => RunningHasWorker
    <2> SUFFICES ASSUME SInv, faults.terminations = 0, NEW e \in Entries,
                        NEW f \in Classes, f \in sched.rec.entries[e].running
                 PROVE  \E w \in DOMAIN worker :
                          /\ worker[w].db = sched.rec.entries[e].db
                          /\ worker[w].pc = IF f = "preload" THEN "queryP" ELSE "queryM"
        BY DEF RunningHasWorker
    <2>0. DOMAIN worker = Workers
        BY DEF SInv, TInv, IInv, WorkersOK
    <2>1. EntryOK(sched.rec.entries[e])
        BY DEF SInv, RecOK
    <2>2. sched.rec.entries[e].db \in Databases
        BY <2>1 DEF EntryOK
    <2>3. RunningIn(sched.rec, sched.rec.entries[e].db, f)
        BY DEF RunningIn
    <2> QED
        BY <2>0, <2>2, <2>3 DEF SInv, RunInv, QueryOf
<1> QED
    BY <1>1, AlwaysSInv, PTL

-----------------------------------------------------------------------------
(***************************************************************************)
(* A worker that queries is marked as running                              *)
(***************************************************************************)
OwnsInv ==
  faults.terminations = 0 => \A w \in Workers, f \in Classes :
    worker[w].pc = QueryOf(f) =>
      /\ RunningIn(sched.rec, worker[w].db, f)
      /\ \A u \in Workers :
           worker[u].pc = QueryOf(f) /\ worker[u].db = worker[w].db => u = w

QInv == SInv /\ OwnsInv

\* Entries that are all busy with other databases need as many workers as there
\* are entries, besides the one that claims.
LEMMA NeverAllBusy ==
    ASSUME SchedulerAssumption, EntriesSuffice, SInv, faults.terminations = 0,
           NEW w \in Workers, worker[w].pc \notin Querying, NEW d \in Databases
    PROVE  ~AllBusy(sched.rec, d)
<1> SUFFICES ASSUME AllBusy(sched.rec, d)
             PROVE  FALSE
    OBVIOUS
<1>1. PICK r : r = sched.rec
    OBVIOUS
<1>2. RecOK(r)
    BY <1>1 DEF SInv
<1>3. ReconcileCapacity \in Nat \ {0} /\ Entries = 1 .. ReconcileCapacity
    BY DEF SchedulerAssumption, Entries
<1>4. IsFiniteSet(Entries) /\ Cardinality(Entries) = ReconcileCapacity
    BY <1>3, FS_Interval
<1>5. ASSUME NEW e \in Entries
      PROVE  /\ r.entries[e].db \in Databases \ {d}
             /\ \E u \in Workers \ {w} : worker[u].db = r.entries[e].db
    <2>1. /\ r.entries[e].db \in Databases \ {d}
          /\ r.entries[e].running # {} /\ r.entries[e].running \subseteq Classes
        BY <1>1, <1>2 DEF AllBusy, RecOK, EntryOK
    <2>2. PICK f \in Classes : f \in r.entries[e].running
        BY <2>1
    <2>3. RunningIn(r, r.entries[e].db, f)
        BY <2>2 DEF RunningIn
    <2>4. PICK u \in Workers : worker[u].pc = QueryOf(f) /\ worker[u].db = r.entries[e].db
        BY <1>1, <2>1, <2>3 DEF SInv, RunInv
    <2>5. u # w
        BY <2>4, QueryPlaces
    <2> QED
        BY <2>1, <2>4, <2>5
<1>6. \A e, f \in Entries : r.entries[e].db = r.entries[f].db => e = f
    BY <1>2, <1>5 DEF RecOK, SchedulerAssumption, NoDb
<1>7. CASE IsFiniteSet(Workers) /\ Cardinality(Workers) <= ReconcileCapacity
    <2>1. PICK g : g = [e \in Entries |->
                          CHOOSE u \in Workers \ {w} : worker[u].db = r.entries[e].db]
        OBVIOUS
    <2>2. \A e \in Entries : g[e] \in Workers \ {w} /\ worker[g[e]].db = r.entries[e].db
        BY <1>5, <2>1
    <2>3. g \in Injection(Entries, Workers \ {w})
        BY <1>6, <2>1, <2>2 DEF Injection, IsInjective
    <2>4. /\ IsFiniteSet(Workers \ {w})
          /\ Cardinality(Workers \ {w}) = Cardinality(Workers) - 1
        BY <1>7, FS_RemoveElement
    <2>5. Cardinality(Entries) <= Cardinality(Workers \ {w})
        BY <2>3, <2>4, FS_Injection
    <2>6. Cardinality(Workers) \in Nat
        BY <1>7, FS_CardinalityType
    <2> QED
        BY <1>3, <1>4, <1>7, <2>4, <2>5, <2>6
<1>8. CASE IsFiniteSet(Databases) /\ Cardinality(Databases) <= ReconcileCapacity
    <2>1. PICK g : g = [e \in Entries |-> r.entries[e].db]
        OBVIOUS
    <2>2. g \in Injection(Entries, Databases \ {d})
        BY <1>5, <1>6, <2>1 DEF Injection, IsInjective
    <2>3. /\ IsFiniteSet(Databases \ {d})
          /\ Cardinality(Databases \ {d}) = Cardinality(Databases) - 1
        BY <1>8, FS_RemoveElement
    <2>4. Cardinality(Entries) <= Cardinality(Databases \ {d})
        BY <2>2, <2>3, FS_Injection
    <2>5. Cardinality(Databases) \in Nat
        BY <1>8, FS_CardinalityType
    <2> QED
        BY <1>3, <1>4, <1>8, <2>3, <2>4, <2>5
<1> QED
    BY <1>7, <1>8 DEF EntriesSuffice

LEMMA NextQInv ==
    ASSUME SchedulerAssumption, WorkHintsAssumption, EntriesSuffice, QInv, [Next]_vars
    PROVE  QInv'
<1>1. SInv'
    BY NextSInv DEF QInv
<1>2. SInv /\ TInv /\ DbOK /\ FaultsOK /\ RecOK(sched.rec)
    BY DEF QInv, SInv
<1>3. CASE Next
    <2>1. \/ RecKeeps(sched.rec, sched'.rec) /\ worker' = worker
          \/ \E w \in Workers : \E r : RecKeeps(sched.rec, sched'.rec) /\ Goes(w, r)
          \/ \E w \in Workers, f \in Classes : \E r : Claims(w, f, r) \/ Finishes(w, f, r)
          \/ \E w \in Workers : Terminate(w)
        BY <1>2, <1>3, QueryMoves
    <2>2. /\ faults'.terminations = 0 => faults.terminations = 0
          /\ \A w \in Workers : Terminate(w) => faults'.terminations # 0
        BY <1>2, <1>3, FaultsMove
    <2> SUFFICES ASSUME faults'.terminations = 0, NEW v \in Workers, NEW g \in Classes,
                        worker'[v].pc = QueryOf(g)
                 PROVE  /\ RunningIn(sched'.rec, worker'[v].db, g)
                        /\ \A u \in Workers : worker'[u].pc = QueryOf(g)
                              /\ worker'[u].db = worker'[v].db => u = v
        BY <1>1 DEF QInv, OwnsInv
    <2>3. faults.terminations = 0
        BY <2>2
    <2>4. ASSUME worker[v].pc = QueryOf(g)
          PROVE  /\ RunningIn(sched.rec, worker[v].db, g)
                 /\ \A u \in Workers : worker[u].pc = QueryOf(g)
                       /\ worker[u].db = worker[v].db => u = v
                 /\ worker[v].db \in Databases
        BY <1>2, <2>3, <2>4 DEF QInv, OwnsInv, DbOK, QueryOf
    <2>5. CASE RecKeeps(sched.rec, sched'.rec) /\ worker' = worker
        BY <2>4, <2>5 DEF RecKeeps
    <2>6. ASSUME NEW w \in Workers, NEW r, RecKeeps(sched.rec, sched'.rec), Goes(w, r)
          PROVE  /\ RunningIn(sched'.rec, worker'[v].db, g)
                 /\ \A u \in Workers : worker'[u].pc = QueryOf(g)
                       /\ worker'[u].db = worker'[v].db => u = v
        <3>1. worker'[w] = r /\ \A u \in Workers : u # w => worker'[u] = worker[u]
            BY <1>2, <2>6, OthersStay DEF Goes
        <3>2. v # w /\ \A u \in Workers : worker'[u].pc = QueryOf(g) => u # w
            BY <2>6, <3>1, QueryPlaces DEF Goes
        <3> QED
            BY <2>4, <2>6, <3>1, <3>2 DEF RecKeeps
    <2>7. ASSUME NEW w \in Workers, NEW f \in Classes, NEW r, Claims(w, f, r)
          PROVE  /\ RunningIn(sched'.rec, worker'[v].db, g)
                 /\ \A u \in Workers : worker'[u].pc = QueryOf(g)
                       /\ worker'[u].db = worker'[v].db => u = v
        <3>1. worker'[w] = r /\ \A u \in Workers : u # w => worker'[u] = worker[u]
            BY <1>2, <2>7, OthersStay DEF Claims
        <3>2. PICK d \in Databases : d = worker[w].db
            BY <2>7 DEF Claims
        <3>3. /\ RecKeepsBut(sched.rec, sched'.rec, d, f)
              /\ ~Grants(sched.rec, d, f) => sched'.rec = sched.rec
              /\ Grants(sched.rec, d, f) => ~RunningIn(sched.rec, d, f)
              /\ Grants(sched.rec, d, f) =>
                   RunningIn(sched'.rec, d, f) \/ AllBusy(sched.rec, d)
            BY <1>2, <2>7, <3>2, ClaimedStep DEF Claims
        <3>4. ~AllBusy(sched.rec, d)
            BY <1>2, <2>3, <2>7, NeverAllBusy DEF Claims
        <3>5. worker[w].pc \notin Querying
            BY <2>7 DEF Claims
        <3>6. ASSUME NEW h \in Classes, worker'[w].pc = QueryOf(h)
              PROVE  h = f /\ Grants(sched.rec, d, f) /\ worker'[w].db = d
            <4>1. r.pc \in Querying /\ r.pc # "off"
                BY <3>1, <3>6, QueryPlaces DEF Querying
            <4>2. Grants(sched.rec, d, f) /\ r.pc = QueryOf(f) /\ r.db = d
                BY <2>7, <3>2, <4>1 DEF Claims
            <4> QED
                BY <3>1, <3>6, <4>2, QueryPlaces
        <3>7. ASSUME Grants(sched.rec, d, f), NEW u \in Workers,
                     worker[u].pc = QueryOf(f), worker[u].db = d
              PROVE  FALSE
            BY <2>3, <3>3, <3>7 DEF QInv, OwnsInv
        <3>8. CASE v = w
            <4>1. g = f /\ Grants(sched.rec, d, f) /\ worker'[v].db = d
                BY <3>6, <3>8
            <4>2. RunningIn(sched'.rec, worker'[v].db, g)
                BY <3>3, <3>4, <4>1
            <4>3. ASSUME NEW u \in Workers, worker'[u].pc = QueryOf(g),
                         worker'[u].db = worker'[v].db, u # v
                  PROVE  FALSE
                BY <3>1, <3>7, <3>8, <4>1, <4>3
            <4> QED
                BY <4>2, <4>3
        <3>9. CASE v # w
            <4>1. worker'[v] = worker[v] /\ worker[v].pc = QueryOf(g)
                BY <3>1, <3>9
            <4>2. /\ RunningIn(sched.rec, worker[v].db, g)
                  /\ \A u \in Workers : worker[u].pc = QueryOf(g)
                        /\ worker[u].db = worker[v].db => u = v
                  /\ worker[v].db \in Databases
                BY <2>4, <4>1
            <4>3. RunningIn(sched'.rec, worker[v].db, g)
                BY <3>3, <3>7, <4>1, <4>2 DEF RecKeepsBut
            <4>4. ASSUME NEW u \in Workers, worker'[u].pc = QueryOf(g),
                         worker'[u].db = worker[v].db
                  PROVE  u = v
                <5>1. CASE u = w
                    BY <3>6, <3>7, <4>1, <4>4, <5>1
                <5>2. CASE u # w
                    BY <3>1, <4>2, <4>4, <5>2
                <5> QED
                    BY <5>1, <5>2
            <4> QED
                BY <4>1, <4>3, <4>4
        <3> QED
            BY <3>8, <3>9
    <2>8. ASSUME NEW w \in Workers, NEW f \in Classes, NEW r, Finishes(w, f, r)
          PROVE  /\ RunningIn(sched'.rec, worker'[v].db, g)
                 /\ \A u \in Workers : worker'[u].pc = QueryOf(g)
                       /\ worker'[u].db = worker'[v].db => u = v
        <3>1. worker'[w] = r /\ \A u \in Workers : u # w => worker'[u] = worker[u]
            BY <1>2, <2>8, OthersStay DEF Finishes
        <3>2. v # w /\ \A u \in Workers : worker'[u].pc = QueryOf(g) => u # w
            BY <2>8, <3>1, QueryPlaces DEF Finishes
        <3>3. RecKeepsBut(sched.rec, sched'.rec, worker[w].db, f)
            BY <2>3, <2>8 DEF QInv, OwnsInv, Finishes, Ends
        <3>4. worker[v].pc = QueryOf(g) /\ worker'[v] = worker[v]
            BY <3>1, <3>2
        <3>5. worker[v].db # worker[w].db \/ g # f
            BY <2>4, <2>8, <3>2, <3>4 DEF Finishes
        <3>6. RunningIn(sched'.rec, worker[v].db, g)
            BY <2>4, <3>3, <3>4, <3>5 DEF RecKeepsBut
        <3> QED
            BY <2>4, <3>1, <3>2, <3>4, <3>6
    <2> QED
        BY <2>1, <2>2, <2>5, <2>6, <2>7, <2>8
<1>4. CASE UNCHANGED vars
    BY <1>1, <1>4 DEF QInv, OwnsInv, RunningIn, vars
<1> QED
    BY <1>3, <1>4

LEMMA AlwaysQInv ==
    ASSUME SchedulerAssumption, WorkHintsAssumption, EntriesSuffice
    PROVE  Spec => []QInv
<1>1. Init => QInv
    BY InitSInv DEF QInv, OwnsInv, Init, OffWorker, QueryOf
<1>2. QInv /\ [Next]_vars => QInv'
    BY NextQInv
<1> QED
    BY <1>1, <1>2, PTL DEF Spec

-----------------------------------------------------------------------------
(***************************************************************************)
(* No cold index is forgotten                                              *)
(***************************************************************************)
\* A worker with record r has index i on its list to preload, or preloads it.
PHand(r, i) ==
  \/ r.pc \in {"claimP", "pickP"} /\ i \in r.oids
  \/ r.pc \in {"pickP", "preload"} /\ r.chosen.index = i

PKnown(i) == Announced(sched, i, "preload") \/ \E w \in Workers : PHand(worker[w], i)

ColdAt(i) == i \in cold \ faults.unwarmed => PKnown(i)

CInv == QInv /\ cold \subseteq Preloads
        /\ (faults.terminations = 0 => \A i \in Indexes : ColdAt(i))

\* One worker moves that has nothing to preload.
LEMMA ColdOther ==
    ASSUME TInv, NEW w \in Workers,
           worker[w].pc \notin {"claimP", "pickP", "preload"},
           NEW r, worker' = [worker EXCEPT ![w] = r], NEW i \in Indexes, PKnown(i),
           Announced(sched, i, "preload") => Announced(sched', i, "preload")
    PROVE  PKnown(i)'
<1>1. \A u \in Workers : u # w => worker'[u] = worker[u]
    BY OthersStay
<1>2. ~PHand(worker[w], i)
    BY DEF PHand
<1> QED
    BY <1>1, <1>2 DEF PKnown

\* One worker moves and keeps what it has to preload, or announces it.
LEMMA ColdOwn ==
    ASSUME TInv, NEW w \in Workers, NEW r, worker' = [worker EXCEPT ![w] = r],
           NEW i \in Indexes, PKnown(i),
           Announced(sched, i, "preload") =>
             Announced(sched', i, "preload") \/ PHand(r, i),
           PHand(worker[w], i) => PHand(r, i) \/ Announced(sched', i, "preload")
    PROVE  PKnown(i)'
<1>1. worker'[w] = r /\ \A u \in Workers : u # w => worker'[u] = worker[u]
    BY OthersStay
<1> QED
    BY <1>1 DEF PKnown

LEMMA SnapshotHas ==
    ASSUME WorkHintsAssumption, NEW t, Sound(t), NEW mine, NEW i \in Indexes \cap mine,
           NEW f, f \in HintOf(t, i).flags
    PROVE  i \in { h.index : h \in Snapshot(t, mine, f) }
<1>1. FindSlot(t, i) # -1
    BY DEF HintOf, HintAt, FreeHint
<1>2. PICK s \in Positions : s = FindSlot(t, i) /\ Owns(t, s, i)
    BY <1>1, ReachedIfFound DEF Sound
<1>3. HintOf(t, i) = t.slots[s]
    BY <1>2, HintOfEntry
<1>4. t.slots[s].index = i /\ s \in Slots(t)
    BY <1>2 DEF Owns, Slots, Sound, TableOK
<1> QED
    BY <1>3, <1>4 DEF Snapshot

\* What stays announced when hints keep the class and reconciliation is kept.
LEMMA ColdAnnounced ==
    ASSUME SchedulerAssumption, NEW i \in Indexes,
           Keeps(sched.hints, sched'.hints, i, "preload"),
           RecKeeps(sched.rec, sched'.rec)
    PROVE  Announced(sched, i, "preload") => Announced(sched', i, "preload")
    BY AnnouncedStays DEF Classes

LEMMA EnvironmentCold ==
    ASSUME SchedulerAssumption, WorkHintsAssumption, QInv, Environment,
           NEW i \in Indexes, ColdAt(i)
    PROVE  ColdAt(i)'
<1>1. /\ RecKeeps(sched.rec, sched'.rec) /\ KeepsAll(sched, sched')
      /\ worker' = worker /\ faults' = faults
    BY EnvironmentRec DEF QInv, SInv
<1>2. Announced(sched, i, "preload") => Announced(sched', i, "preload")
    BY <1>1, ColdAnnounced DEF KeepsAll, Classes
<1>3. PKnown(i) => PKnown(i)'
    BY <1>1, <1>2 DEF PKnown
<1>4. CASE cold' = cold
    BY <1>1, <1>3, <1>4 DEF ColdAt
<1>5. ASSUME NEW d \in Databases, ClearCache(d)
      PROVE  ColdAt(i)'
    <2>1. CASE i \in Mine(d)
        <3>1. sched'.rec = Requested(sched.rec, d, Classes) /\ DbOf[i] = d
            BY <1>5, <2>1 DEF ClearCache, QInv, SInv, TInv, SharedOK, Mine
        <3>2. Classes \in SUBSET Classes /\ "preload" \in Classes /\ RecOK(sched.rec)
            BY DEF Classes, QInv, SInv
        <3>3. RunningIn(sched.rec, d, "preload") \/ Pending(sched'.rec, d, "preload")
            BY <3>1, <3>2, RequestedStep
        <3>4. Announced(sched', i, "preload")
            BY <1>1, <3>1, <3>2, <3>3 DEF Announced, RecKeeps
        <3> QED
            BY <3>4 DEF ColdAt, PKnown
    <2>2. CASE i \notin Mine(d)
        BY <1>1, <1>3, <1>5, <2>2 DEF ColdAt, ClearCache
    <2> QED
        BY <2>1, <2>2
<1> QED
    BY <1>4, <1>5 DEF Environment, Write, Heat, Age, CoolDown, ReconcileDue

\* Steps of maintenance that publish nothing.
LEMMA MaintenanceCold ==
    ASSUME SchedulerAssumption, WorkHintsAssumption, QInv, NEW w \in Workers,
           \/ SnapshotMaintenance(w) \/ Judge(w) \/ JudgeLocked(w) \/ JudgeFails(w)
           \/ MarkLow(w) \/ ClearIdle(w) \/ Apply(w)
           \/ Rotate(w) \/ CompleteSemantic(w) \/ TruncateTail(w)
           \/ NotCounting(w) \/ StartBuild(w) \/ BlockBuild(w),
           faults.unwarmed \subseteq faults'.unwarmed, NEW i \in Indexes, ColdAt(i)
    PROVE  ColdAt(i)'
<1>1. TInv /\ DbOK /\ RecOK(sched.rec)
    BY DEF QInv, SInv
<1>2. /\ worker[w].pc \notin {"claimP", "pickP", "preload"}
      /\ cold' = cold
    <2>1. CASE \/ SnapshotMaintenance(w) \/ Judge(w) \/ JudgeLocked(w) \/ JudgeFails(w)
               \/ MarkLow(w) \/ ClearIdle(w) \/ Apply(w)
        BY <2>1 DEF SnapshotMaintenance, Judge, JudgeLocked, JudgeFails, MarkLow,
           ClearIdle, Apply, At
    <2>2. CASE \/ Rotate(w) \/ CompleteSemantic(w) \/ TruncateTail(w)
               \/ StartBuild(w) \/ BlockBuild(w)
        BY <2>2 DEF Rotate, CompleteSemantic, TruncateTail, SemanticTurn, RootTurn,
           RestTurn, StartBuild, BuildTurn, Jumps, BlockBuild, At
    <2>3. CASE NotCounting(w)
        BY <2>3 DEF NotCounting, Defer, Stall, DeferToBuild, NothingDone, LoseBuild,
           AbandonBuild, SealTurn, SemanticTurn, RootTurn, RestTurn, BuildTurn, Jumps, At
    <2> QED
        BY <2>1, <2>2, <2>3
<1>3. PICK r : Goes(w, r)
    BY <1>1, SelectionGoes, ActionGoes DEF Counting
<1>4. RecKeeps(sched.rec, sched'.rec)
    BY <1>1, SelectionRec, ActionRec DEF Counting
<1>5. Keeps(sched.hints, sched'.hints, i, "preload")
    <2>1. "preload" \in Classes /\ "preload" # "maintenance"
        BY DEF Classes
    <2>2. CASE SnapshotMaintenance(w) \/ Judge(w) \/ JudgeLocked(w) \/ JudgeFails(w)
        BY <1>1, <2>1, <2>2, SelectionMoves DEF KeepsAll
    <2>3. CASE MarkLow(w) \/ Apply(w)
        BY <1>1, <2>1, <2>3, MarkMoves DEF KeepsAll
    <2>4. CASE ClearIdle(w)
        BY <1>1, <2>1, <2>4, ClearMoves DEF KeepsBut
    <2>5. CASE Rotate(w) \/ CompleteSemantic(w) \/ TruncateTail(w)
        BY <1>1, <2>1, <2>5, CountedMoves DEF KeepsBut, Counting
    <2>6. CASE StartBuild(w) \/ NotCounting(w)
        BY <1>1, <2>1, <2>6, UncountedMoves DEF KeepsAll
    <2>7. CASE BlockBuild(w)
        BY <1>1, <2>1, <2>7, BlockMoves DEF KeepsBut
    <2> QED
        BY <2>2, <2>3, <2>4, <2>5, <2>6, <2>7
<1>6. Announced(sched, i, "preload") => Announced(sched', i, "preload")
    BY <1>4, <1>5, ColdAnnounced
<1>7. PKnown(i) => PKnown(i)'
    BY <1>1, <1>2, <1>3, <1>6, ColdOther DEF Goes
<1> QED
    BY <1>2, <1>7 DEF ColdAt

\* A claim and a query for maintenance leave the other class alone.
LEMMA OtherClassCold ==
    ASSUME SchedulerAssumption, WorkHintsAssumption, QInv, NEW w \in Workers,
           ClaimMaintenance(w) \/ QueryMaintenance(w) \/ QueryMaintenanceFails(w),
           faults.terminations = 0, faults.unwarmed \subseteq faults'.unwarmed,
           NEW i \in Indexes, ColdAt(i)
    PROVE  ColdAt(i)'
<1>1. TInv /\ DbOK /\ RecOK(sched.rec)
    BY DEF QInv, SInv
<1>2. /\ worker[w].pc \notin {"claimP", "pickP", "preload"} /\ cold' = cold
      /\ worker[w].pc \in {"claimM", "queryM"}
    BY DEF ClaimMaintenance, QueryMaintenance, QueryMaintenanceFails, At
<1>3. PICK d \in Databases : d = worker[w].db
    BY <1>1, <1>2 DEF DbOK
<1>4. /\ "maintenance" \in Classes /\ "preload" \in Classes
      /\ QueryOf("maintenance") = "queryM"
    BY DEF Classes, QueryOf
<1>5. RecKeepsBut(sched.rec, sched'.rec, d, "maintenance")
    <2>1. CASE ClaimMaintenance(w)
        <3>1. sched'.rec = Claimed(sched.rec, d, "maintenance")
            BY <1>1, <1>3, <2>1 DEF ClaimMaintenance, TInv, SharedOK
        <3> QED
            BY <1>1, <1>4, <3>1, ClaimedStep
    <2>2. CASE QueryMaintenance(w) \/ QueryMaintenanceFails(w)
        <3>1. \/ sched'.rec = Completed(sched.rec, d, "maintenance")
              \/ sched'.rec = Released(sched.rec, d, "maintenance")
            BY <1>1, <1>3, <2>2 DEF QueryMaintenance, QueryMaintenanceFails, TInv, SharedOK
        <3>2. worker[w].pc = QueryOf("maintenance")
            BY <1>4, <2>2 DEF QueryMaintenance, QueryMaintenanceFails, At
        <3>3. RunningIn(sched.rec, d, "maintenance")
            BY <1>3, <1>4, <3>2 DEF QInv, OwnsInv
        <3>4. Ends(sched.rec, sched'.rec, d, "maintenance")
            BY <1>1, <1>4, <3>1, CompletedStep, ReleasedStep
        <3> QED
            BY <3>3, <3>4 DEF Ends
    <2> QED
        BY <2>1, <2>2
<1>6. Keeps(sched.hints, sched'.hints, i, "preload")
    BY <1>1, <1>4, SelectionMoves DEF KeepsAll
<1>7. Announced(sched, i, "preload") => Announced(sched', i, "preload")
    <2>1. DbOf[i] \in Databases /\ "preload" # "maintenance"
        BY DEF SchedulerAssumption
    <2> QED
        BY <1>4, <1>5, <1>6, <2>1 DEF Announced, RecKeepsBut, Keeps
<1>8. PICK r : worker' = [worker EXCEPT ![w] = r]
    BY DEF ClaimMaintenance, QueryMaintenance, QueryMaintenanceFails, Stop
<1>9. PKnown(i) => PKnown(i)'
    BY <1>1, <1>2, <1>7, <1>8, ColdOther
<1> QED
    BY <1>2, <1>9 DEF ColdAt

\* A publication leaves the index cold and announces it.
Publishing(w) == Seal(w) \/ Restructure(w) \/ FoldHot(w) \/ FinishBuild(w)

LEMMA PublicationForm ==
    ASSUME NEW w \in Workers, Publishing(w)
    PROVE  /\ worker[w].pc \in {"execute", "build"} /\ Counting(w)
           /\ \E j \in {worker[w].chosen.index} :
                /\ cold' = cold \cup ({j} \cap Preloads)
                /\ j \in Preloads => \E s \in {Marked(sched, j, {"preload"})} :
                     \E u \in {s, Marked(s, j, {"maintenance"}), Allowed(s, j)} :
                     \E a \in BOOLEAN : Counted(w, u, a)
<1>1. CASE Seal(w) \/ Restructure(w)
    <2>1. worker[w].pc = "execute" /\ cold' = cold \cup ({worker[w].chosen.index} \cap Preloads)
        BY <1>1 DEF Seal, Restructure, SealTurn, RootTurn, RestTurn, At, Publishes
    <2>2. \E a \in BOOLEAN : PublishedMarked(w, a)
        BY <1>1 DEF Seal, Restructure
    <2> QED
        BY <1>1, <2>1, <2>2 DEF PublishedMarked, PreloadScheduled, Counting
<1>2. CASE FoldHot(w)
    BY <1>2 DEF FoldHot, RootTurn, RestTurn, At, Publishes, PreloadScheduled, Counting
<1>3. CASE FinishBuild(w)
    BY <1>3 DEF FinishBuild, At, Publishes, PreloadScheduled, Counting, Allowed
<1> QED
    BY <1>1, <1>2, <1>3 DEF Publishing

LEMMA PublicationCold ==
    ASSUME SchedulerAssumption, WorkHintsAssumption, QInv, NEW w \in Workers,
           Publishing(w), faults' = faults, NEW i \in Indexes, ColdAt(i)
    PROVE  ColdAt(i)'
<1>1. TInv /\ DbOK /\ RecOK(sched.rec) /\ SharedOK(sched)
    BY DEF QInv, SInv, TInv
<1>2. worker[w].pc \in {"execute", "build"}
    BY PublicationForm
<1>3. PICK j : j = worker[w].chosen.index
    OBVIOUS
<1>4. /\ j \in Indexes /\ worker[w].db \in Databases
      /\ cold' = cold \cup ({j} \cap Preloads) /\ Counting(w)
    BY <1>1, <1>2, <1>3, ActsOnIndex, PublicationForm DEF Acting, DbOK
<1>5. "preload" \in Classes /\ "preload" # "maintenance"
    BY DEF Classes
<1>6. PICK r : Goes(w, r)
    BY <1>1, <1>4, ActionGoes
<1>7. RecKeeps(sched.rec, sched'.rec) /\ Keeps(sched.hints, sched'.hints, i, "preload")
    BY <1>1, <1>4, <1>5, ActionRec, CountedMoves DEF KeepsBut
<1>8. Announced(sched, i, "preload") => Announced(sched', i, "preload")
    BY <1>7, ColdAnnounced
<1>9. PKnown(i) => PKnown(i)'
    BY <1>1, <1>2, <1>6, <1>8, ColdOther DEF Goes
<1>10. ASSUME j \in Preloads
       PROVE  Announced(sched', j, "preload")
    <2>2. /\ {"preload"} \in SUBSET Classes /\ {"maintenance"} \in SUBSET Classes
          /\ "preload" \in {"preload"}
        BY DEF Classes
    <2>3. PICK s \in {Marked(sched, j, {"preload"})} :
            \E u \in {s, Marked(s, j, {"maintenance"}), Allowed(s, j)} :
            \E a \in BOOLEAN : Counted(w, u, a)
        BY <1>3, <1>10, PublicationForm
    <2>4. SharedOK(s) /\ RecOK(s.rec) /\ Announced(s, j, "preload")
        BY <1>1, <1>4, <2>2, <2>3, MarkedStep, MarkedRec, AfterOK DEF RecKeeps
    <2>5. PICK t \in {s, Marked(s, j, {"maintenance"}), Allowed(s, j)} :
            \E a \in BOOLEAN : Counted(w, t, a)
        BY <2>3
    <2>6. SharedOK(t) /\ KeepsAll(s, t) /\ RecKeeps(s.rec, t.rec)
        <3>1. CASE t = Marked(s, j, {"maintenance"})
            BY <1>4, <2>2, <2>4, <3>1, MarkedStep, MarkedRec, AfterOK
        <3>2. CASE t = Allowed(s, j)
            BY <1>4, <2>4, <3>2, AllowedStep, AfterOK, RecKeepsSame
        <3>3. CASE t = s
            BY <2>4, <3>3, AfterSame, RecKeepsSame DEF SharedOK
        <3> QED
            BY <2>5, <3>1, <3>2, <3>3
    <2>7. Announced(t, j, "preload")
        BY <1>4, <1>5, <2>4, <2>6, AnnouncedStays DEF KeepsAll
    <2>8. RecOK(t.rec)
        BY <2>6 DEF RecKeeps
    <2>9. ClearsAt(t, sched', j, worker[w].chosen.sequence)
        BY <1>3, <1>4, <2>5, <2>6, CountedShared
    <2>10. Keeps(t.hints, sched'.hints, j, "preload")
        BY <1>4, <1>5, <2>9 DEF ClearsAt, KeepsBut
    <2>11. RecKeeps(t.rec, sched'.rec)
        BY <1>3, <1>4, <2>5, <2>6, <2>8, CountedRec
    <2> QED
        BY <1>4, <1>5, <2>7, <2>10, <2>11, AnnouncedStays
<1>11. CASE i = j /\ j \in Preloads
    BY <1>10, <1>11 DEF ColdAt, PKnown
<1>12. CASE i # j \/ j \notin Preloads
    BY <1>4, <1>9, <1>12 DEF ColdAt
<1> QED
    BY <1>11, <1>12

\* What a worker takes off the table is on its list.
LEMMA ConsumeCold ==
    ASSUME SchedulerAssumption, WorkHintsAssumption, QInv, NEW w \in Workers,
           ConsumePreload(w), NEW i \in Indexes, ColdAt(i)
    PROVE  ColdAt(i)'
<1>1. TInv /\ DbOK /\ RecOK(sched.rec) /\ Sound(sched.hints) /\ DOMAIN worker[w] = Fields
    BY DEF QInv, SInv, TInv, SharedOK, IInv, WorkersOK, RecordOK
<1>2. worker[w].pc = "consume" /\ cold' = cold /\ faults' = faults
    BY DEF ConsumePreload, At
<1>3. PICK mine, o : /\ mine = Mine(worker[w].db)
                     /\ o = { h.index : h \in Snapshot(sched.hints, mine, "preload") }
    OBVIOUS
<1>4. PICK r : r = [worker[w] EXCEPT !.pc = "claimP", !.oids = o]
    OBVIOUS
<1>5. r.pc = "claimP" /\ r.oids = o
    BY <1>1, <1>4 DEF Fields
<1>6. worker' = [worker EXCEPT ![w] = r]
    BY <1>3, <1>4 DEF ConsumePreload
<1>7. RecKeeps(sched.rec, sched'.rec)
    BY <1>1, SelectionRec
<1>8. sched'.hints = Consume(sched.hints, mine, "preload")
    BY <1>1, <1>3 DEF ConsumePreload, TInv, SharedOK
<1>9. ~PHand(worker[w], i)
    BY <1>2 DEF PHand
<1>10. Announced(sched, i, "preload") => Announced(sched', i, "preload") \/ PHand(r, i)
    <2>1. CASE i \in mine /\ "preload" \in HintOf(sched.hints, i).flags
        <3>1. i \in o
            BY <1>1, <1>3, <2>1, SnapshotHas
        <3> QED
            BY <1>5, <3>1 DEF PHand
    <2>2. CASE i \notin mine \/ "preload" \notin HintOf(sched.hints, i).flags
        <3>1. i \notin mine => Keeps(sched.hints, sched'.hints, i, "preload")
            BY <1>1, <1>8, ConsumeEffect DEF Classes
        <3>2. Keeps(sched.hints, sched'.hints, i, "preload")
            BY <2>2, <3>1 DEF Keeps
        <3> QED
            BY <1>7, <3>2, ColdAnnounced
    <2> QED
        BY <2>1, <2>2
<1>11. PKnown(i) => PKnown(i)'
    BY <1>1, <1>6, <1>9, <1>10, ColdOwn
<1> QED
    BY <1>2, <1>11 DEF ColdAt

\* A claim that is granted makes the class run, and the query finds every
\* index of the database.
LEMMA ClaimCold ==
    ASSUME SchedulerAssumption, WorkHintsAssumption, EntriesSuffice, QInv,
           NEW w \in Workers, ClaimPreload(w), faults.terminations = 0,
           NEW i \in Indexes, ColdAt(i)
    PROVE  ColdAt(i)'
<1>1. /\ TInv /\ DbOK /\ RecOK(sched.rec) /\ DOMAIN worker[w] = Fields
      /\ worker[w].oids \subseteq Mine(worker[w].db)
      /\ SInv
    BY DEF QInv, SInv, TInv, SharedOK, IInv, WorkersOK, RecordOK, ClaimPreload, At
<1>2. worker[w].pc = "claimP" /\ cold' = cold /\ faults' = faults
    BY DEF ClaimPreload, At
<1>3. PICK d \in Databases : d = worker[w].db
    BY <1>1, <1>2 DEF DbOK
<1>4. PICK g \in BOOLEAN : g = Grants(sched.rec, d, "preload")
    BY DEF Grants
<1>5. PICK p : p = IF g THEN "queryP"
                   ELSE IF worker[w].oids = {} THEN "snapshot" ELSE "pickP"
    OBVIOUS
<1>6. PICK q : q = [worker[w] EXCEPT !.claimed = g, !.pc = p]
    OBVIOUS
<1>7. q.pc = p /\ q.oids = worker[w].oids
    BY <1>1, <1>6 DEF Fields
<1>8. PICK r : r = IF ~g /\ worker[w].oids = {} /\ worker[w].preloaded
                   THEN OffWorker ELSE q
    OBVIOUS
<1>9. worker' = [worker EXCEPT ![w] = r]
    BY <1>3, <1>4, <1>5, <1>6, <1>8 DEF ClaimPreload
<1>10. sched'.rec = Claimed(sched.rec, d, "preload") /\ "preload" \in Classes
    BY <1>1, <1>3 DEF ClaimPreload, TInv, SharedOK, Classes
<1>11. Keeps(sched.hints, sched'.hints, i, "preload")
    BY <1>1, <1>10, SelectionMoves DEF KeepsAll
<1>12. /\ RecKeepsBut(sched.rec, sched'.rec, d, "preload")
       /\ ~g => sched'.rec = sched.rec
       /\ g => RunningIn(sched'.rec, d, "preload")
    <2>1. ~AllBusy(sched.rec, d)
        BY <1>1, <1>2, NeverAllBusy DEF Querying
    <2> QED
        BY <1>1, <1>4, <1>10, <2>1, ClaimedStep
<1>13. Announced(sched, i, "preload") => Announced(sched', i, "preload")
    <2>1. DbOf[i] \in Databases
        BY DEF SchedulerAssumption
    <2> QED
        BY <1>10, <1>11, <1>12, <2>1 DEF Announced, RecKeepsBut, Keeps
<1>14. PHand(worker[w], i) => PHand(r, i) \/ Announced(sched', i, "preload")
    <2> SUFFICES ASSUME PHand(worker[w], i)
                 PROVE  PHand(r, i) \/ Announced(sched', i, "preload")
        OBVIOUS
    <2>1. i \in worker[w].oids
        BY <1>2 DEF PHand
    <2>2. DbOf[i] = d
        BY <1>1, <1>3, <2>1 DEF Mine
    <2>3. CASE g
        BY <1>12, <2>2, <2>3 DEF Announced
    <2>4. CASE ~g
        BY <1>5, <1>7, <1>8, <2>1, <2>4 DEF PHand
    <2> QED
        BY <2>3, <2>4
<1>15. PKnown(i) => PKnown(i)'
    BY <1>1, <1>9, <1>13, <1>14, ColdOwn
<1> QED
    BY <1>2, <1>15 DEF ColdAt

LEMMA QueryCold ==
    ASSUME SchedulerAssumption, WorkHintsAssumption, QInv, NEW w \in Workers,
           QueryPreload(w) \/ QueryPreloadFails(w), faults.terminations = 0,
           cold \subseteq Preloads, NEW i \in Indexes, ColdAt(i)
    PROVE  ColdAt(i)'
<1>1. TInv /\ DbOK /\ RecOK(sched.rec) /\ DOMAIN worker[w] = Fields /\ FaultsOK
    BY DEF QInv, SInv, TInv, IInv, WorkersOK, RecordOK
<1>2. worker[w].pc = "queryP" /\ cold' = cold
    BY DEF QueryPreload, QueryPreloadFails, At
<1>3. PICK d \in Databases : d = worker[w].db
    BY <1>1, <1>2 DEF DbOK
<1>4. "preload" \in Classes /\ QueryOf("preload") = "queryP"
    BY DEF Classes, QueryOf
<1>5. RunningIn(sched.rec, d, "preload")
    BY <1>2, <1>3, <1>4 DEF QInv, OwnsInv
<1>6. \/ QueryPreload(w) /\ sched'.rec = Completed(sched.rec, d, "preload")
      \/ QueryPreloadFails(w) /\ sched'.rec = Released(sched.rec, d, "preload")
    BY <1>1, <1>3 DEF QueryPreload, QueryPreloadFails, TInv, SharedOK
<1>7. RecKeepsBut(sched.rec, sched'.rec, d, "preload")
    BY <1>1, <1>4, <1>5, <1>6, CompletedStep, ReleasedStep DEF Ends
<1>8. Keeps(sched.hints, sched'.hints, i, "preload")
    BY <1>1, <1>4, SelectionMoves DEF KeepsAll
<1>9. DbOf[i] # d => (Announced(sched, i, "preload") => Announced(sched', i, "preload"))
    <2>1. DbOf[i] \in Databases
        BY DEF SchedulerAssumption
    <2> QED
        BY <1>4, <1>7, <1>8, <2>1 DEF Announced, RecKeepsBut, Keeps
<1>10. ~PHand(worker[w], i)
    BY <1>2 DEF PHand
<1>11. CASE QueryPreloadFails(w)
    <2>1. worker' = [worker EXCEPT ![w] = OffWorker]
        BY <1>11 DEF QueryPreloadFails, Stop
    <2>2. sched'.rec = Released(sched.rec, d, "preload")
        BY <1>1, <1>3, <1>11 DEF QueryPreloadFails, TInv, SharedOK
    <2>3. Pending(sched'.rec, d, "preload")
        BY <1>1, <1>4, <1>5, <2>2, ReleasedStep
    <2>4. Announced(sched, i, "preload") => Announced(sched', i, "preload")
        BY <1>9, <2>3 DEF Announced
    <2>5. PKnown(i) => PKnown(i)'
        BY <1>1, <1>10, <2>1, <2>4, ColdOwn
    <2>6. faults' = faults
        BY <1>11 DEF QueryPreloadFails
    <2> QED
        BY <1>2, <2>5, <2>6 DEF ColdAt
<1>12. CASE QueryPreload(w)
    <2>1. PICK q, o : /\ q = [worker[w] EXCEPT !.oids = Mine(d) \cap Preloads, !.pc = "pickP"]
                      /\ o = [worker[w] EXCEPT !.oids = {}, !.pc = "snapshot"]
        OBVIOUS
    <2>2. q.pc = "pickP" /\ q.oids = Mine(d) \cap Preloads
        BY <1>1, <2>1 DEF Fields
    <2>3. PICK r : /\ r = IF Mine(d) \cap Preloads # {} THEN q
                          ELSE IF worker[w].preloaded THEN OffWorker ELSE o
                   /\ worker' = [worker EXCEPT ![w] = r]
        BY <1>3, <1>12, <2>1 DEF QueryPreload
    <2>4. i \in Mine(d) \cap Preloads => PHand(r, i)
        BY <2>2, <2>3 DEF PHand
    <2>6. faults'.unwarmed = faults.unwarmed \ (Mine(d) \cap Preloads)
        BY <1>1, <1>3, <1>12 DEF QueryPreload, FaultsOK
    <2>7. CASE i \in Mine(d) \cap Preloads
        <3>1. PKnown(i)'
            BY <1>1, <2>3, <2>4, <2>7, OthersStay DEF PKnown
        <3> QED
            BY <3>1 DEF ColdAt
    <2>8. CASE i \notin Preloads
        BY <1>2, <2>8 DEF ColdAt
    <2>9. CASE i \notin Mine(d)
        <3>1. DbOf[i] # d
            BY <2>9 DEF Mine
        <3>2. PKnown(i) => PKnown(i)'
            BY <1>1, <1>9, <1>10, <2>3, <3>1, ColdOwn
        <3> QED
            BY <1>2, <2>6, <2>9, <3>2 DEF ColdAt
    <2> QED
        BY <2>7, <2>8, <2>9
<1> QED
    BY <1>11, <1>12

\* Every index a worker does not preload is marked again.
LEMMA PickCold ==
    ASSUME SchedulerAssumption, WorkHintsAssumption, QInv, NEW w \in Workers,
           PickPreload(w), NEW i \in Indexes, ColdAt(i)
    PROVE  ColdAt(i)'
<1>1. /\ TInv /\ DbOK /\ RecOK(sched.rec) /\ SharedOK(sched)
      /\ DOMAIN worker[w] = Fields /\ DOMAIN worker[w].chosen = DOMAIN NoCandidate
      /\ worker[w].oids \subseteq Indexes
    BY DEF QInv, SInv, TInv, IInv, WorkersOK, RecordOK
<1>2. worker[w].pc = "pickP" /\ cold' = cold /\ faults' = faults
    BY DEF PickPreload, At
<1>3. Announced(sched, i, "preload") => Announced(sched', i, "preload")
    <2>1. Keeps(sched.hints, sched'.hints, i, "preload")
        BY <1>1, MarkMoves DEF KeepsAll, Classes
    <2>2. RecKeeps(sched.rec, sched'.rec)
        BY <1>1, SelectionRec
    <2> QED
        BY <2>1, <2>2, ColdAnnounced
<1>4. PICK j \in worker[w].oids :
        LET rest == worker[w].oids \ {j}
            none == worker[w].chosen.index = NoIndex
        IN
        \/ /\ none
           /\ worker' = [worker EXCEPT ![w] =
                [@ EXCEPT !.oids = rest, !.chosen.index = j,
                          !.pc = IF rest = {} THEN "preload" ELSE "pickP"]]
        \/ /\ sched' = Marked(sched, j, {"preload"})
           /\ worker' = [worker EXCEPT ![w] =
                IF none /\ rest = {} THEN OffWorker
                ELSE [@ EXCEPT !.oids = rest,
                               !.pc = IF rest = {} THEN "preload" ELSE "pickP"]]
    BY DEF PickPreload
<1>5. PICK o, p, x : /\ o = worker[w].oids \ {j}
                     /\ p = IF o = {} THEN "preload" ELSE "pickP"
                     /\ x = [worker[w].chosen EXCEPT !.index = j]
    OBVIOUS
<1>6. x.index = j
    BY <1>1, <1>5 DEF NoCandidate
<1>7. PICK r : r = [worker[w] EXCEPT !.oids = o, !.chosen = x, !.pc = p]
    OBVIOUS
<1>8. PICK q : q = [worker[w] EXCEPT !.oids = o, !.pc = p]
    OBVIOUS
<1>9. /\ r.oids = o /\ r.chosen = x /\ r.pc = p
      /\ q.oids = o /\ q.chosen = worker[w].chosen /\ q.pc = p
    BY <1>1, <1>7, <1>8 DEF Fields
<1>10. NoIndex # i
    BY DEF WorkHintsAssumption, NoIndex
<1>11. CASE worker[w].chosen.index = NoIndex /\ worker' = [worker EXCEPT ![w] = r]
    <2>1. PHand(worker[w], i) => PHand(r, i)
        BY <1>2, <1>5, <1>6, <1>9, <1>10, <1>11 DEF PHand
    <2>2. PKnown(i) => PKnown(i)'
        BY <1>1, <1>3, <1>11, <2>1, ColdOwn
    <2> QED
        BY <1>2, <2>2 DEF ColdAt
<1>12. CASE /\ sched' = Marked(sched, j, {"preload"})
            /\ worker' = [worker EXCEPT ![w] =
                 IF worker[w].chosen.index = NoIndex /\ o = {} THEN OffWorker ELSE q]
    <2>1. PICK s : /\ s = IF worker[w].chosen.index = NoIndex /\ o = {}
                          THEN OffWorker ELSE q
                   /\ worker' = [worker EXCEPT ![w] = s]
        BY <1>12
    <2>2. j \in Indexes /\ {"preload"} \in SUBSET Classes
        BY <1>1, <1>4 DEF Classes
    <2>3. Announced(sched', j, "preload")
        BY <1>1, <1>12, <2>2, MarkedRec
    <2>4. PHand(worker[w], i) => PHand(s, i) \/ Announced(sched', i, "preload")
        BY <1>2, <1>5, <1>9, <1>10, <2>1, <2>3 DEF PHand
    <2>5. PKnown(i) => PKnown(i)'
        BY <1>1, <1>3, <2>1, <2>4, ColdOwn
    <2> QED
        BY <1>2, <2>5 DEF ColdAt
<1> QED
    BY <1>4, <1>5, <1>7, <1>8, <1>11, <1>12

\* A worker that preloads makes its index warm, marks it again or gives it up.
LEMMA PreloadCold ==
    ASSUME SchedulerAssumption, WorkHintsAssumption, QInv, NEW w \in Workers,
           Preload(w) \/ PreloadBusy(w) \/ PreloadDeclines(w),
           NEW i \in Indexes, ColdAt(i)
    PROVE  ColdAt(i)'
<1>1. TInv /\ DbOK /\ RecOK(sched.rec) /\ SharedOK(sched) /\ FaultsOK
    BY DEF QInv, SInv, TInv
<1>2. worker[w].pc = "preload"
    BY DEF Preload, PreloadBusy, PreloadDeclines, At
<1>3. PICK j \in Indexes : j = worker[w].chosen.index
    BY <1>1, <1>2, ActsOnIndex DEF Acting
<1>4. Announced(sched, i, "preload") => Announced(sched', i, "preload")
    <2>1. Keeps(sched.hints, sched'.hints, i, "preload")
        BY <1>1, MarkMoves DEF KeepsAll, Classes
    <2>2. RecKeeps(sched.rec, sched'.rec)
        BY <1>1, SelectionRec
    <2> QED
        BY <2>1, <2>2, ColdAnnounced
<1>5. PICK r : worker' = [worker EXCEPT ![w] = r]
    BY DEF Preload, PreloadBusy, PreloadDeclines, Preloaded
<1>6. PHand(worker[w], i) => i = j
    BY <1>2, <1>3 DEF PHand
<1>9. i # j => (PKnown(i) => PKnown(i)')
    BY <1>1, <1>4, <1>5, <1>6, ColdOwn
<1>7. CASE Preload(w)
    <2>1. cold' = cold \ {j} /\ faults' = faults
        BY <1>3, <1>7 DEF Preload
    <2> QED
        BY <1>9, <2>1 DEF ColdAt
<1>8. CASE PreloadBusy(w)
    <2>1. cold' = cold /\ faults' = faults
        BY <1>8 DEF PreloadBusy
    <2>6. PICK s \in {sched, Marked(sched, j, {"maintenance"})} : sched' = Marked(s, j, {"preload"})
        BY <1>3, <1>8 DEF PreloadBusy, AcceleratorMarked
    <2>2. {"preload"} \in SUBSET Classes /\ {"maintenance"} \in SUBSET Classes
        BY DEF Classes
    <2>7. SharedOK(s) /\ RecOK(s.rec)
        BY <1>1, <1>3, <2>2, <2>6, MarkedStep, MarkedRec, AfterOK DEF RecKeeps
    <2>3. Announced(sched', j, "preload")
        BY <1>3, <2>2, <2>6, <2>7, MarkedRec
    <2>4. PHand(worker[w], i) => Announced(sched', i, "preload")
        BY <1>6, <2>3
    <2>5. PKnown(i) => PKnown(i)'
        BY <1>1, <1>4, <1>5, <2>4, ColdOwn
    <2> QED
        BY <2>1, <2>5 DEF ColdAt
<1>10. CASE PreloadDeclines(w)
    <2>1. cold' = cold /\ faults'.unwarmed = faults.unwarmed \cup {j}
        BY <1>1, <1>3, <1>10 DEF PreloadDeclines, FaultsOK
    <2> QED
        BY <1>9, <2>1 DEF ColdAt
<1> QED
    BY <1>7, <1>8, <1>10

LEMMA FailCold ==
    ASSUME SchedulerAssumption, WorkHintsAssumption, QInv, NEW w \in Workers,
           Fail(w), NEW i \in Indexes, ColdAt(i)
    PROVE  ColdAt(i)'
<1>1. TInv /\ DbOK /\ RecOK(sched.rec) /\ FaultsOK
    BY DEF QInv, SInv
<1>2. /\ worker[w].pc \in {"execute", "preload", "build"} /\ cold' = cold /\ sched' = sched
      /\ worker' = [worker EXCEPT ![w] = OffWorker]
    BY DEF Fail, At, Stop
<1>3. CASE worker[w].pc = "preload"
    <2>1. faults'.unwarmed = faults.unwarmed \cup {worker[w].chosen.index}
        BY <1>1, <1>3 DEF Fail, At, FaultsOK
    <2>2. CASE i = worker[w].chosen.index
        BY <2>1, <2>2 DEF ColdAt
    <2>3. CASE i # worker[w].chosen.index
        <3>1. ~PHand(worker[w], i)
            BY <1>3, <2>3 DEF PHand
        <3>2. PKnown(i) => PKnown(i)'
            BY <1>1, <1>2, <3>1, ColdOwn
        <3> QED
            BY <1>2, <2>1, <3>2 DEF ColdAt
    <2> QED
        BY <2>2, <2>3
<1>4. CASE worker[w].pc # "preload"
    <2>1. faults'.unwarmed = faults.unwarmed
        BY <1>1, <1>4 DEF Fail, At, FaultsOK
    <2>2. PKnown(i) => PKnown(i)'
        BY <1>1, <1>2, <1>4, ColdOther
    <2> QED
        BY <1>2, <2>1, <2>2 DEF ColdAt
<1> QED
    BY <1>3, <1>4

LEMMA LaunchCold ==
    ASSUME SchedulerAssumption, WorkHintsAssumption, QInv, NEW w \in Workers,
           Launch(w) \/ \E d \in Databases : TouchLaunch(w, d),
           NEW i \in Indexes, ColdAt(i)
    PROVE  ColdAt(i)'
<1>1. TInv
    BY DEF QInv, SInv
<1>2. /\ worker[w].pc = "off" /\ sched' = sched /\ cold' = cold /\ faults' = faults
      /\ \E r : worker' = [worker EXCEPT ![w] = r]
    BY DEF Launch, TouchLaunch
<1>3. PKnown(i) => PKnown(i)'
    BY <1>1, <1>2, ColdOther
<1> QED
    BY <1>2, <1>3 DEF ColdAt

LEMMA NextCInv ==
    ASSUME SchedulerAssumption, WorkHintsAssumption, EntriesSuffice, CInv, [Next]_vars
    PROVE  CInv'
<1>1. QInv'
    BY NextQInv DEF CInv
<1>2. QInv /\ TInv /\ FaultsOK
    BY DEF CInv, QInv, SInv
<1>3. CASE Next
    <2>1. /\ faults'.terminations = 0 => faults.terminations = 0
          /\ \A w \in Workers : Terminate(w) => faults'.terminations # 0
        BY <1>2, <1>3, FaultsMove
    <2>2. cold' \subseteq Preloads
        <3>1. CASE cold' = cold
            BY <3>1 DEF CInv
        <3>2. ASSUME NEW d, ClearCache(d)
              PROVE  cold' \subseteq Preloads
            BY <3>2 DEF CInv, ClearCache
        <3>3. ASSUME NEW w \in Workers, Preload(w)
              PROVE  cold' \subseteq Preloads
            BY <3>3 DEF CInv, Preload
        <3>4. ASSUME NEW w \in Workers, Publishing(w)
              PROVE  cold' \subseteq Preloads
            BY <3>4, PublicationForm DEF CInv
        <3>5. CASE Environment
            BY <3>1, <3>2, <3>5 DEF Environment, Write, Heat, Age, CoolDown, ReconcileDue
        <3>6. ASSUME NEW w \in Workers, WorkerStep(w)
              PROVE  cold' \subseteq Preloads
            BY <3>1, <3>3, <3>4, <3>6 DEF WorkerStep, Publishing, ConsumePreload, ClaimPreload,
               QueryPreload, PickPreload, SnapshotMaintenance, ClaimMaintenance,
               QueryMaintenance, Judge, MarkLow, ClearIdle, Apply, Rotate,
               CompleteSemantic, TruncateTail, StartBuild, NothingDone, DeferToBuild
        <3>7. ASSUME NEW w \in Workers, Setback(w)
              PROVE  cold' \subseteq Preloads
            BY <3>1, <3>7 DEF Setback, QueryPreloadFails, PreloadBusy, PreloadDeclines,
               QueryMaintenanceFails, JudgeLocked, JudgeFails, Defer, Stall, LoseBuild,
               BlockBuild, AbandonBuild, Fail, Terminate
        <3>8. ASSUME NEW w \in Workers, Launch(w) \/ \E d \in Databases : TouchLaunch(w, d)
              PROVE  cold' \subseteq Preloads
            BY <3>1, <3>8 DEF Launch, TouchLaunch
        <3> QED
            BY <1>3, <3>5, <3>6, <3>7, <3>8 DEF Next
    <2>3. ASSUME faults'.terminations = 0, NEW i \in Indexes
          PROVE  ColdAt(i)'
        <3>1. faults.terminations = 0 /\ ColdAt(i)
            BY <2>1, <2>3 DEF CInv
        <3>2. CASE Environment
            BY <1>2, <3>1, <3>2, EnvironmentCold
        <3>3. ASSUME NEW w \in Workers, WorkerStep(w) \/ Setback(w)
              PROVE  ColdAt(i)'
            <4>7. faults.unwarmed \subseteq faults'.unwarmed \/ QueryPreload(w)
                BY <1>2, <3>3, FaultsStep
            <4>1. CASE \/ SnapshotMaintenance(w) \/ Judge(w) \/ JudgeLocked(w) \/ JudgeFails(w)
                       \/ MarkLow(w) \/ ClearIdle(w) \/ Apply(w)
                       \/ Rotate(w) \/ CompleteSemantic(w) \/ TruncateTail(w)
                       \/ NotCounting(w) \/ StartBuild(w) \/ BlockBuild(w)
                BY <1>2, <3>1, <4>1, <4>7, MaintenanceCold, QueryCold DEF CInv
            <4>2. CASE ClaimMaintenance(w) \/ QueryMaintenance(w)
                       \/ QueryMaintenanceFails(w)
                BY <1>2, <3>1, <4>2, <4>7, OtherClassCold, QueryCold DEF CInv
            <4>3. CASE Publishing(w)
                <5>1. faults' = faults
                    BY <4>3 DEF Publishing, Seal, Restructure, FoldHot, FinishBuild,
                                PublishedMarked
                <5> QED
                    BY <1>2, <3>1, <4>3, <5>1, PublicationCold
            <4>4. CASE ConsumePreload(w) \/ ClaimPreload(w)
                BY <1>2, <3>1, <4>4, ConsumeCold, ClaimCold
            <4>5. CASE QueryPreload(w) \/ QueryPreloadFails(w) \/ PickPreload(w)
                BY <1>2, <3>1, <4>5, QueryCold, PickCold DEF CInv
            <4>6. CASE Preload(w) \/ PreloadBusy(w) \/ PreloadDeclines(w) \/ Fail(w)
                BY <1>2, <3>1, <4>6, PreloadCold, FailCold
            <4> QED
                BY <2>1, <2>3, <3>3, <4>1, <4>2, <4>3, <4>4, <4>5, <4>6
                   DEF WorkerStep, Setback, Publishing, NotCounting
        <3>4. ASSUME NEW w \in Workers, Launch(w) \/ \E d \in Databases : TouchLaunch(w, d)
              PROVE  ColdAt(i)'
            BY <1>2, <3>1, <3>4, LaunchCold
        <3> QED
            BY <1>3, <3>2, <3>3, <3>4 DEF Next
    <2> QED
        BY <1>1, <2>2, <2>3 DEF CInv
<1>4. CASE UNCHANGED vars
    <2>1. sched' = sched /\ cold' = cold /\ worker' = worker /\ faults' = faults
        BY <1>4 DEF vars
    <2> QED
        BY <1>1, <2>1 DEF CInv, ColdAt, PKnown
<1> QED
    BY <1>3, <1>4

LEMMA AlwaysCInv ==
    ASSUME SchedulerAssumption, WorkHintsAssumption, EntriesSuffice
    PROVE  Spec => []CInv
<1>1. Init => CInv
    <2> SUFFICES ASSUME Init
                 PROVE  CInv
        OBVIOUS
    <2>1. QInv
        BY InitSInv DEF QInv, OwnsInv, Init, OffWorker, QueryOf
    <2>2. cold \subseteq Preloads
        BY DEF Init
    <2>3. /\ sched.rec.entries = [e \in Entries |-> FreeEntry]
          /\ FreeEntry.db = NoDb
        BY DEF Init, FreeEntry
    <2>4. ASSUME NEW i \in Indexes
          PROVE  Announced(sched, i, "preload")
        <3>1. DbOf[i] # NoDb
            BY DEF SchedulerAssumption, NoDb
        <3> QED
            BY <2>3, <3>1 DEF Announced, Pending
    <2> QED
        BY <2>1, <2>2, <2>4 DEF CInv, ColdAt, PKnown
<1>2. CInv /\ [Next]_vars => CInv'
    BY NextCInv
<1> QED
    BY <1>1, <1>2, PTL DEF Spec

\* Unless a worker was terminated from outside, an index whose generation is
\* not preloaded, and that was not given up, is hinted, in the hands of a worker or found by the next
\* reconciliation, although its hint is taken off the table before anything is
\* preloaded: at whatever point the worker stops, fails or finds the index
\* locked, and however full the hint table is.
THEOREM ColdIndexIsRemembered ==
    ASSUME SchedulerAssumption, WorkHintsAssumption, EntriesSuffice
    PROVE  Spec => []ColdIndexRemembered
<1>1. CInv => ColdIndexRemembered
    <2> SUFFICES ASSUME CInv, faults.terminations = 0, NEW i \in cold \ faults.unwarmed
                 PROVE  \/ "preload" \in HintOf(sched.hints, i).flags
                        \/ PreloadInHand(i)
                        \/ ReconcilePending(i, "preload")
        BY DEF ColdIndexRemembered
    <2>1. i \in Indexes /\ PKnown(i) /\ DbOf[i] \in Databases /\ "preload" \in Classes
        BY DEF CInv, ColdAt, SchedulerAssumption, Classes
    <2>2. DOMAIN worker = Workers
        BY DEF CInv, QInv, SInv, TInv, IInv, WorkersOK
    <2>3. RunningIn(sched.rec, DbOf[i], "preload") => PreloadInHand(i)
        BY <2>1, <2>2 DEF CInv, QInv, SInv, RunInv, QueryOf, PreloadInHand
    <2>4. Pending(sched.rec, DbOf[i], "preload") => ReconcilePending(i, "preload")
        BY DEF Pending, ReconcilePending
    <2>5. (\E w \in Workers : PHand(worker[w], i)) => PreloadInHand(i)
        BY <2>2 DEF PHand, PreloadInHand
    <2> QED
        BY <2>1, <2>3, <2>4, <2>5 DEF PKnown, Announced
<1> QED
    BY <1>1, AlwaysCInv, PTL

-----------------------------------------------------------------------------
(***************************************************************************)
(* No urgent debt is forgotten                                             *)
(***************************************************************************)
\* Different probes look at different slots.
LEMMA ProbesDiffer ==
    ASSUME NEW c \in Nat \ {0}, NEW h \in 0 .. c - 1, NEW p \in 0 .. c - 1,
           NEW q \in 0 .. c - 1, (h + p) % c = (h + q) % c
    PROVE  p = q
    OBVIOUS

\* While every index finds an entry no mark overflows: the slots would hold
\* entries of as many other indexes as there are slots.
LEMMA NeverOverflows ==
    ASSUME WorkHintsAssumption, TableSuffices, NEW t, Sound(t), NEW i \in Indexes
    PROVE  ~Overflows(t, i)
<1> SUFFICES ASSUME Overflows(t, i)
             PROVE  FALSE
    OBVIOUS
<1>1. PICK c \in Nat \ {0} : c = Capacity
    BY DEF WorkHintsAssumption
<1>2. PICK h \in 0 .. c - 1 : h = Home[i]
    BY <1>1 DEF WorkHintsAssumption
<1>3. Positions = 0 .. c - 1 /\ TableOK(t) /\ Slots(t) = Positions
    BY <1>1 DEF Positions, Sound, TableOK, Slots
<1>4. PICK stop : stop = FirstStop(Stops(t, i))
    OBVIOUS
<1>5. PICK graves : graves = TombstonesBefore(t, i, stop)
    OBVIOUS
<1>6. Place(t, i, stop, graves) = -1
    BY <1>4, <1>5 DEF Overflows, MarkSlot, PlaceFrom
<1>7. \A p \in Positions : ProbeSlot(i, p) # -1 /\ ProbeSlot(i, p) \in Positions
    BY <1>3, ProbeInTable
<1>8. Stops(t, i) = {}
    <2> SUFFICES ASSUME Stops(t, i) # {}
                 PROVE  FALSE
        OBVIOUS
    <2>1. stop = Min(Stops(t, i))
        BY <1>4 DEF FirstStop
    <2>2. stop \in Positions
        BY <2>1, MinIsLeast, StopsAreProbes, <1>3
    <2>3. graves # {} => Min(graves) \in Positions
        <3>1. graves \in SUBSET Positions /\ Positions \subseteq Nat
            BY <1>3, <1>5 DEF TombstonesBefore
        <3>2. graves \in SUBSET Nat
            BY <3>1
        <3>3. graves # {} => Min(graves) \in graves
            BY <3>2, MinIsLeast
        <3> QED
            BY <3>1, <3>3
    <2>4. stop < Capacity
        BY <1>1, <1>3, <2>2
    <2> QED
        BY <1>6, <1>7, <2>2, <2>3, <2>4 DEF Place
<1>9. graves = {}
    <2> SUFFICES ASSUME graves # {}
                 PROVE  FALSE
        OBVIOUS
    <2>1. stop = Capacity
        BY <1>4, <1>8 DEF FirstStop
    <2>2. graves \in SUBSET Positions /\ Positions \subseteq Nat
        BY <1>3, <1>5 DEF TombstonesBefore
    <2>3. graves \in SUBSET Nat
        BY <2>2
    <2>4. Min(graves) \in graves
        BY <2>3, MinIsLeast
    <2>5. Min(graves) \in Positions
        BY <2>2, <2>4
    <2> QED
        BY <1>1, <1>6, <1>7, <2>1, <2>5 DEF Place
<1>10. ASSUME NEW p \in Positions
       PROVE  /\ t.slots[ProbeSlot(i, p)].flags # {}
              /\ t.slots[ProbeSlot(i, p)].index \in Indexes \ {i}
    <2>1. stop = Capacity /\ p < Capacity
        BY <1>1, <1>3, <1>4, <1>8 DEF FirstStop
    <2>2. p \notin Stops(t, i) /\ p \notin TombstonesBefore(t, i, stop)
        BY <1>5, <1>8, <1>9
    <2>3. t.slots[ProbeSlot(i, p)].flags # {}
        BY <1>3, <2>1, <2>2 DEF Stops, TombstonesBefore
    <2>4. t.slots[ProbeSlot(i, p)].index # i
        BY <1>3, <2>2, <2>3 DEF Stops, Owns
    <2>5. t.slots[ProbeSlot(i, p)].index \in Indexes
        BY <1>3, <1>7, <2>3 DEF Sound, FlagsMatchIndex, TableOK, Hint
    <2> QED
        BY <2>3, <2>4, <2>5
<1>11. PICK g : g = [p \in Positions |-> t.slots[ProbeSlot(i, p)].index]
    OBVIOUS
<1>12. ASSUME NEW p \in Positions, NEW q \in Positions, g[p] = g[q]
       PROVE  p = q
    <2>1. ProbeSlot(i, p) = ProbeSlot(i, q)
        BY <1>3, <1>7, <1>10, <1>11, <1>12 DEF Sound, OneEntryPerIndex
    <2>2. (h + p) % c = (h + q) % c
        BY <1>1, <1>2, <2>1 DEF ProbeSlot
    <2> QED
        BY <1>3, <2>2, ProbesDiffer
<1>13. g \in Injection(Positions, Indexes \ {i})
    BY <1>10, <1>11, <1>12 DEF Injection, IsInjective
<1>14. IsFiniteSet(Positions) /\ Cardinality(Positions) = c
    <2>1. 0 \in Int /\ c - 1 \in Int
        OBVIOUS
    <2>2. Cardinality(0 .. c - 1) = IF 0 > c - 1 THEN 0 ELSE (c - 1) - 0 + 1
        BY <2>1, FS_Interval
    <2> QED
        BY <1>3, <2>1, <2>2, FS_Interval
<1>15. /\ IsFiniteSet(Indexes \ {i})
       /\ Cardinality(Indexes \ {i}) = Cardinality(Indexes) - 1
    BY FS_RemoveElement DEF TableSuffices
<1>16. Cardinality(Positions) <= Cardinality(Indexes \ {i})
    BY <1>13, <1>15, FS_Injection
<1>17. Cardinality(Indexes) \in Nat /\ Cardinality(Indexes) <= c
    BY <1>1, FS_CardinalityType DEF TableSuffices
<1> QED
    BY <1>14, <1>15, <1>16, <1>17

\* The marks needed below never become requests.
LEMMA MarkedRoom ==
    ASSUME WorkHintsAssumption, TableSuffices, NEW s, SharedOK(s), NEW i \in Indexes,
           NEW F \in SUBSET Classes, F # {}
    PROVE  /\ After(s, Marked(s, i, F)) /\ KeepsAll(s, Marked(s, i, F))
           /\ F \subseteq HintOf(Marked(s, i, F).hints, i).flags
           /\ HintOf(Marked(s, i, F).hints, i).sequence = s.hints.sequence + 1
    BY MarkedStep, NeverOverflows DEF SharedOK

Flagged(s, i) == "maintenance" \in HintOf(s.hints, i).flags

\* A hint h, or a candidate c with what it was found by: its sequence is not
\* ahead of the table, and an index found by a hint has it as long as its debt
\* is urgent.
TokenKnown(h, s, wk) ==
  /\ h.sequence \in 1 .. s.hints.sequence
  /\ h.index \in Indexes
  /\ Urgent(wk[h.index]) => Flagged(s, h.index)

CandidateKnown(c, s, wk) ==
  /\ c.sequence \in 0 .. s.hints.sequence
  /\ c.hinted => TokenKnown(c, s, wk)

\* A worker with record r may clear the hint of its index without a mark.
Clears(r) == r.pc = "clearIdle" \/ (r.pc = "build" /\ r.chosen.hinted)

\* What such a worker knows of the hints: one it may clear is not that of urgent
\* debt.
KnowsOf(r, s, wk) ==
  /\ \A h \in r.tokens : TokenKnown(h, s, wk)
  /\ \A c \in r.candidates : CandidateKnown(c, s, wk)
  /\ CandidateKnown(r.chosen, s, wk)
  /\ Clears(r) =>
       /\ r.chosen.sequence # 0
       /\ Urgent(wk[r.chosen.index]) =>
            HintOf(s.hints, r.chosen.index).sequence # r.chosen.sequence

\* From shared state s and debts wk to t and vk: urgent debt keeps its hint, and
\* new urgent debt has a hint that is newer than all before.
DebtMoves(s, t, wk, vk) ==
  /\ Forward(s.hints, t.hints)
  /\ \A i \in Indexes : Urgent(vk[i]) =>
       \/ Urgent(wk[i]) /\ Keeps(s.hints, t.hints, i, "maintenance")
       \/ Flagged(t, i) /\ HintOf(t.hints, i).sequence > s.hints.sequence

LEMMA TokenLater ==
    ASSUME NEW s, SharedOK(s), NEW t, SharedOK(t), NEW wk, NEW vk,
           DebtMoves(s, t, wk, vk), NEW h, TokenKnown(h, s, wk)
    PROVE  TokenKnown(h, t, vk)
<1>1. /\ s.hints.sequence \in Nat /\ t.hints.sequence \in Nat
      /\ s.hints.sequence <= t.hints.sequence
    BY DEF SharedOK, Sound, TableOK, DebtMoves, Forward
<1>2. h.sequence \in 1 .. t.hints.sequence
    BY <1>1 DEF TokenKnown
<1>3. ASSUME Urgent(vk[h.index])
      PROVE  Flagged(t, h.index)
    BY <1>3 DEF DebtMoves, TokenKnown, Keeps, Flagged
<1> QED
    BY <1>2, <1>3 DEF TokenKnown

LEMMA CandidateLater ==
    ASSUME NEW s, SharedOK(s), NEW t, SharedOK(t), NEW wk, NEW vk,
           DebtMoves(s, t, wk, vk), NEW c, CandidateKnown(c, s, wk)
    PROVE  CandidateKnown(c, t, vk)
<1>1. /\ s.hints.sequence \in Nat /\ t.hints.sequence \in Nat
      /\ s.hints.sequence <= t.hints.sequence
    BY DEF SharedOK, Sound, TableOK, DebtMoves, Forward
<1>2. c.sequence \in 0 .. t.hints.sequence
    BY <1>1 DEF CandidateKnown
<1>3. c.hinted => TokenKnown(c, t, vk)
    BY TokenLater DEF CandidateKnown
<1> QED
    BY <1>2, <1>3 DEF CandidateKnown

\* What a worker knows stays true while others move.
LEMMA KnowsLater ==
    ASSUME WorkHintsAssumption, NEW s, SharedOK(s), NEW t, SharedOK(t), NEW wk, NEW vk,
           DebtMoves(s, t, wk, vk), NEW r, KnowsOf(r, s, wk),
           Clears(r) => r.chosen.index \in Indexes
    PROVE  KnowsOf(r, t, vk)
<1>1. /\ s.hints.sequence \in Nat /\ t.hints.sequence \in Nat
      /\ s.hints.sequence <= t.hints.sequence
    BY DEF SharedOK, Sound, TableOK, DebtMoves, Forward
<1>2. /\ \A h \in r.tokens : TokenKnown(h, t, vk)
      /\ \A c \in r.candidates : CandidateKnown(c, t, vk)
      /\ CandidateKnown(r.chosen, t, vk)
    BY TokenLater, CandidateLater DEF KnowsOf
<1>3. ASSUME Clears(r)
      PROVE  /\ r.chosen.sequence # 0
             /\ Urgent(vk[r.chosen.index]) =>
                  HintOf(t.hints, r.chosen.index).sequence # r.chosen.sequence
    <2>1. PICK i \in Indexes : i = r.chosen.index
        BY <1>3
    <2>2. PICK n \in Nat : n = r.chosen.sequence /\ n # 0 /\ n <= s.hints.sequence
        BY <1>1, <1>3 DEF KnowsOf, CandidateKnown
    <2>3. Urgent(wk[i]) => HintOf(s.hints, i).sequence # n
        BY <1>3, <2>1, <2>2 DEF KnowsOf
    <2>4. HintOf(t.hints, i).sequence \in
            {0, HintOf(s.hints, i).sequence} \cup (s.hints.sequence + 1 .. t.hints.sequence)
        BY DEF DebtMoves, Forward
    <2>5. HintOf(t.hints, i).sequence \in Nat
        BY HintOfOK DEF SharedOK
    <2>6. ASSUME Urgent(vk[i])
          PROVE  HintOf(t.hints, i).sequence # n
        <3>1. \/ Urgent(wk[i])
              \/ HintOf(t.hints, i).sequence > s.hints.sequence
            BY <2>6 DEF DebtMoves
        <3> QED
            BY <1>1, <2>2, <2>3, <2>4, <2>5, <3>1
    <2> QED
        BY <2>1, <2>2, <2>6
<1> QED
    BY <1>2, <1>3 DEF KnowsOf

\* From record r to q a worker learns nothing.
Shrinks(r, q) ==
  /\ q.tokens \subseteq r.tokens /\ q.candidates \subseteq r.candidates
  /\ \/ q.chosen \in {NoCandidate, r.chosen} \cup r.candidates
     \/ ~q.chosen.hinted /\ q.chosen.sequence = r.chosen.sequence
  /\ ~Clears(q)

LEMMA NoneKnown ==
    ASSUME NEW s, SharedOK(s), NEW wk
    PROVE  CandidateKnown(NoCandidate, s, wk)
<1>1. s.hints.sequence \in Nat
    BY DEF SharedOK, Sound, TableOK
<1> QED
    BY <1>1 DEF CandidateKnown, NoCandidate

LEMMA KnowsLess ==
    ASSUME NEW s, SharedOK(s), NEW wk, NEW r, KnowsOf(r, s, wk), NEW q, Shrinks(r, q)
    PROVE  KnowsOf(q, s, wk)
<1>1. CandidateKnown(q.chosen, s, wk)
    <2>1. CASE q.chosen \in {NoCandidate, r.chosen} \cup r.candidates
        BY <2>1, NoneKnown DEF KnowsOf
    <2>2. CASE ~q.chosen.hinted /\ q.chosen.sequence = r.chosen.sequence
        BY <2>2 DEF KnowsOf, CandidateKnown
    <2> QED
        BY <2>1, <2>2 DEF Shrinks
<1> QED
    BY <1>1 DEF KnowsOf, Shrinks

LEMMA OffShrinks ==
    ASSUME NEW r
    PROVE  Shrinks(r, OffWorker)
    BY DEF Shrinks, OffWorker, Clears

\* A worker with record r has index i on its list to maintain, or maintains it.
MHand(r, i) ==
  \/ r.pc \in {"judge", "markLow", "clearIdle"} /\ i \in r.oids
  \/ \E c \in r.candidates : c.index = i
  \/ r.pc \in {"apply", "execute"} /\ r.chosen.index = i

\* The loop over the indexes keeps those that are left.
LEMMA OnwardKeeps ==
    ASSUME NEW r, DOMAIN r = Fields
    PROVE  /\ Shrinks(r, Onward(r))
           /\ \A i \in r.oids : MHand(Onward(r), i)
           /\ \A c \in r.candidates : c \in Onward(r).candidates
<1>1. CASE r.oids # {}
    <2>1. PICK q : q = [r EXCEPT !.pc = "judge", !.chosen = NoCandidate]
        OBVIOUS
    <2>2. /\ q.pc = "judge" /\ q.chosen = NoCandidate /\ q.oids = r.oids
          /\ q.tokens = r.tokens /\ q.candidates = r.candidates
        BY <2>1 DEF Fields
    <2>3. Onward(r) = q
        BY <1>1, <2>1 DEF Onward
    <2> QED
        BY <2>2, <2>3 DEF Shrinks, MHand, Clears
<1>2. CASE r.oids = {} /\ r.candidates = {}
    <2>1. Onward(r) = OffWorker
        BY <1>2 DEF Onward
    <2> QED
        BY <1>2, <2>1, OffShrinks
<1>3. CASE r.oids = {} /\ r.candidates # {}
    <2>1. PICK q : q = [r EXCEPT !.pc = "apply", !.tokens = {}, !.claimed = FALSE,
                                 !.chosen = NoCandidate]
        OBVIOUS
    <2>2. /\ q.pc = "apply" /\ q.chosen = NoCandidate
          /\ q.tokens = {} /\ q.candidates = r.candidates
        BY <2>1 DEF Fields
    <2>3. Onward(r) = q
        BY <1>3, <2>1 DEF Onward
    <2> QED
        BY <1>3, <2>2, <2>3 DEF Shrinks, Clears
<1> QED
    BY <1>1, <1>2, <1>3

-----------------------------------------------------------------------------
\* What a step does to debts and their hints.
Moves == DebtMoves(sched, sched', work, work')

WorkOK == DOMAIN work = Indexes

\* No debt changes but that of index j.
OnlyAt(j) == WorkOK' /\ \A i \in Indexes \ {j} : work'[i] = work[i]

LEMMA OneChanged ==
    ASSUME WorkOK, NEW j \in Indexes, NEW ds, work' = [work EXCEPT ![j] = ds]
    PROVE  OnlyAt(j) /\ work'[j] = ds
    BY DEF WorkOK, OnlyAt

LEMMA KeptDebt ==
    ASSUME After(sched, sched'), KeepsAll(sched, sched'), NEW j, OnlyAt(j),
           Urgent(work'[j]) => Urgent(work[j])
    PROVE  Moves
    BY DEF Moves, DebtMoves, After, KeepsAll, Classes, OnlyAt

LEMMA SameDebt ==
    ASSUME After(sched, sched'), KeepsAll(sched, sched'), WorkOK, work' = work
    PROVE  Moves /\ WorkOK'
    BY DEF Moves, DebtMoves, After, KeepsAll, Classes, WorkOK

\* The index whose hint may go has no urgent debt.
LEMMA ButDebt ==
    ASSUME After(sched, sched'), NEW j \in Indexes, OnlyAt(j),
           KeepsBut(sched, sched', j, "maintenance"), ~Urgent(work'[j])
    PROVE  Moves
    BY DEF Moves, DebtMoves, After, KeepsBut, Classes, OnlyAt

\* A mark goes with new urgent debt.
LEMMA MarkedDebt ==
    ASSUME WorkHintsAssumption, TableSuffices, TInv, NEW j \in Indexes,
           sched' = Marked(sched, j, {"maintenance"}), OnlyAt(j)
    PROVE  Moves
<1>1. /\ After(sched, sched') /\ KeepsAll(sched, sched') /\ Flagged(sched', j)
      /\ HintOf(sched'.hints, j).sequence = sched.hints.sequence + 1
    BY MarkedRoom DEF TInv, Classes, Flagged
<1>2. sched.hints.sequence \in Nat
    BY DEF TInv, SharedOK, Sound, TableOK
<1> QED
    BY <1>1, <1>2 DEF Moves, DebtMoves, After, KeepsAll, Classes, OnlyAt

LEMMA EnvironmentDebt ==
    ASSUME SchedulerAssumption, WorkHintsAssumption, TableSuffices, TInv, WorkOK,
           RecOK(sched.rec), Environment
    PROVE  Moves /\ WorkOK'
<1>1. KeepsAll(sched, sched') /\ After(sched, sched')
    BY EnvironmentRec, EnvironmentMoves DEF TableMoves
<1>2. ASSUME NEW i \in Indexes, Write(i) \/ Heat(i)
      PROVE  Moves /\ WorkOK'
    <2>1. \E ds : work' = [work EXCEPT ![i] = ds]
        BY <1>2 DEF Write, Heat
    <2>2. OnlyAt(i)
        BY <2>1, OneChanged
    <2>3. sched' = Marked(sched, i, {"maintenance"})
        BY <1>2 DEF Write, Heat
    <2> QED
        BY <2>2, <2>3, MarkedDebt DEF OnlyAt
<1>3. CASE work' = work
    BY <1>1, <1>3, SameDebt
<1> QED
    BY <1>2, <1>3 DEF Environment, Age, CoolDown, ClearCache, ReconcileDue

LEMMA ConsumeDebt ==
    ASSUME WorkHintsAssumption, TInv, NEW w \in Workers, ConsumePreload(w)
    PROVE  Moves
<1>1. PICK mine : mine = Mine(worker[w].db)
    OBVIOUS
<1>2. work' = work /\ sched'.hints = Consume(sched.hints, mine, "preload")
    BY <1>1 DEF ConsumePreload, TInv, SharedOK
<1>3. /\ Forward(sched.hints, Consume(sched.hints, mine, "preload"))
      /\ \A i \in Indexes : Keeps(sched.hints, Consume(sched.hints, mine, "preload"), i,
                                  "maintenance")
    BY ConsumeEffect DEF TInv, SharedOK, Classes
<1> QED
    BY <1>2, <1>3 DEF Moves, DebtMoves

\* A hint that is cleared because its index was idle when it was read, or
\* because a build that does not fit was started with no urgent debt.
LEMMA ClearedDebt ==
    ASSUME WorkHintsAssumption, TInv, WorkOK, NEW w \in Workers,
           KnowsOf(worker[w], sched, work), Clears(worker[w]), work' = work,
           sched' = Cleared(sched, worker[w].chosen.index, worker[w].chosen.sequence)
    PROVE  Moves /\ WorkOK'
<1>1. PICK i : i = worker[w].chosen.index
    OBVIOUS
<1>2. PICK n : n = worker[w].chosen.sequence
    OBVIOUS
<1>4. i \in Indexes
    BY <1>1, ActsOnIndex DEF Acting, Clears
<1>5. ClearsAt(sched, sched', i, n)
    BY <1>1, <1>2, <1>4, ClearedStep DEF TInv
<1>6. Urgent(work[i]) => HintOf(sched.hints, i).sequence # n
    BY <1>1, <1>2 DEF KnowsOf
<1>7. CASE Urgent(work[i])
    BY <1>5, <1>6, <1>7, SameDebt DEF ClearsAt
<1>8. CASE ~Urgent(work[i])
    BY <1>4, <1>5, <1>8, ButDebt DEF ClearsAt, OnlyAt, WorkOK
<1> QED
    BY <1>7, <1>8

\* A counted action that marks its index: the hint is newer than the one the
\* worker read and is not cleared.
LEMMA MarkedCounted ==
    ASSUME WorkHintsAssumption, TableSuffices, TInv, NEW w \in Workers,
           KnowsOf(worker[w], sched, work), NEW i \in Indexes, i = worker[w].chosen.index,
           OnlyAt(i), NEW u, After(sched, u), KeepsAll(sched, u), NEW a \in BOOLEAN,
           Counted(w, Marked(u, i, {"maintenance"}), a)
    PROVE  Moves /\ Flagged(sched', i)
<1>1. PICK s : s = Marked(u, i, {"maintenance"})
    OBVIOUS
<1>2. PICK k \in Nat, l \in Nat : k = sched.hints.sequence /\ l = u.hints.sequence /\ k <= l
    BY AfterOK DEF TInv, SharedOK, Sound, TableOK, After, Forward
<1>3. /\ After(u, s) /\ KeepsAll(u, s) /\ Flagged(s, i)
      /\ HintOf(s.hints, i).sequence = l + 1
    BY <1>1, <1>2, AfterOK, MarkedRoom DEF Classes, Flagged
<1>4. PICK n : n = worker[w].chosen.sequence
    OBVIOUS
<1>5. n \in 0 .. k
    BY <1>2, <1>4 DEF KnowsOf, CandidateKnown
<1>6. SharedOK(s)
    BY <1>3, AfterOK
<1>7. ClearsAt(s, sched', i, n)
    BY <1>1, <1>4, <1>6, CountedShared
<1>8. After(s, sched') /\ KeepsAll(s, sched')
    BY <1>2, <1>3, <1>5, <1>7 DEF ClearsAt
<1>9. After(sched, sched') /\ KeepsAll(sched, sched') /\ Flagged(sched', i)
    <2>1. After(sched, s) /\ KeepsAll(sched, s)
        BY <1>3, AfterAgain, KeepsAgain DEF TInv
    <2>2. After(sched, sched') /\ KeepsAll(sched, sched')
        BY <1>8, <2>1, AfterAgain, KeepsAgain DEF TInv
    <2> QED
        BY <1>3, <1>8, <2>2 DEF KeepsAll, Keeps, Flagged, Classes
<1>10. HintOf(sched'.hints, i).sequence > k
    <2>1. PICK m \in Nat, p \in Nat : m = s.hints.sequence /\ p = sched'.hints.sequence
        BY <1>6, <1>9, AfterOK DEF SharedOK, Sound, TableOK
    <2>2. l <= m
        BY <1>2, <1>3, <2>1 DEF After, Forward
    <2>3. HintOf(sched'.hints, i).sequence \in {0, l + 1} \cup (m + 1 .. p)
        BY <1>3, <1>8, <2>1 DEF After, Forward
    <2>4. HintOf(sched'.hints, i).sequence # 0
        BY <1>9, HintOfOK DEF After, Forward, Flagged
    <2> QED
        BY <1>2, <2>2, <2>3, <2>4
<1> QED
    BY <1>2, <1>9, <1>10 DEF Moves, DebtMoves, After, KeepsAll, Classes, OnlyAt

\* Rotation, seal, structural work and semantic completion mark.
LEMMA MarkingDebt ==
    ASSUME WorkHintsAssumption, TableSuffices, TInv, WorkOK, NEW w \in Workers,
           Rotate(w) \/ Seal(w) \/ Restructure(w) \/ CompleteSemantic(w),
           KnowsOf(worker[w], sched, work)
    PROVE  Moves /\ WorkOK' /\ Flagged(sched', worker[w].chosen.index)
<1>1. PICK i : i = worker[w].chosen.index
    OBVIOUS
<1>2. i \in Indexes
    BY <1>1, CountedForm, ActsOnIndex DEF Counting
<1>3. OnlyAt(i)
    <2>1. CASE Rotate(w) \/ CompleteSemantic(w)
        <3>1. \E ds : work' = [work EXCEPT ![i] = ds]
            BY <1>1, <2>1 DEF Rotate, CompleteSemantic
        <3> QED
            BY <1>2, <3>1, OneChanged
    <2>2. CASE Seal(w) \/ Restructure(w)
        <3>1. \E ds : work' = [work EXCEPT ![i] = ds]
            BY <1>1, <2>2 DEF Seal, Restructure, Publishes
        <3> QED
            BY <1>2, <3>1, OneChanged
    <2> QED
        BY <2>1, <2>2
<1>4. PICK u \in {sched, Marked(sched, i, {"preload"})}, a \in BOOLEAN :
        Counted(w, Marked(u, i, {"maintenance"}), a)
    BY <1>1 DEF Rotate, CompleteSemantic, Seal, Restructure, PublishedMarked,
       PreloadScheduled
<1>5. After(sched, u) /\ KeepsAll(sched, u)
    <2>1. SharedOK(sched) /\ {"preload"} \in SUBSET Classes
        BY DEF TInv, Classes
    <2> QED
        BY <1>2, <1>4, <2>1, MarkedStep, AfterSame DEF SharedOK
<1>6. Moves /\ Flagged(sched', i)
    BY <1>1, <1>2, <1>3, <1>4, <1>5, MarkedCounted
<1> QED
    BY <1>1, <1>3, <1>6 DEF OnlyAt

\* The immutable root is worked on, and a build starts, only without urgent debt.
LEMMA RootNotUrgent ==
    ASSUME NEW w \in Workers, RootTurn(w) \/ BuildTurn(w)
    PROVE  ~Urgent(Found(w))
<1>1. RestTurn(w) /\ ~RootHeld(w)
    BY DEF RootTurn, BuildTurn, Jumps, RootHeld
<1>2. "pending" \notin Found(w) /\ ~Rotates(w)
    BY <1>1 DEF RestTurn
<1>3. "full" \in Found(w) => "semantic" \in Found(w)
    BY <1>2 DEF Rotates, CheckpointDue
<1> QED
    BY <1>2, <1>3 DEF Urgent

\* Truncation and the fold of a hot term leave none.
LEMMA UnmarkedDebt ==
    ASSUME WorkHintsAssumption, TInv, WorkOK, NEW w \in Workers,
           TruncateTail(w) \/ FoldHot(w)
    PROVE  Moves /\ WorkOK'
<1>1. PICK i : i = worker[w].chosen.index
    OBVIOUS
<1>2. i \in Indexes
    BY <1>1, CountedForm, ActsOnIndex DEF Counting
<1>3. ~Urgent(work[i])
    BY <1>1, RootNotUrgent DEF TruncateTail, FoldHot, Found
<1>4. PICK old \in SUBSET {"tail", "heat"}, new \in SUBSET {"structural", "accel", "eligible"} :
        work' = [work EXCEPT ![i] = (work[i] \ old) \cup new]
    <2>1. CASE TruncateTail(w)
        <3>1. work' = [work EXCEPT ![i] = work[i] \ {"tail"}]
            BY <1>1, <2>1 DEF TruncateTail
        <3>2. (work[i] \ {"tail"}) \cup {} = work[i] \ {"tail"}
            OBVIOUS
        <3>3. {"tail"} \in SUBSET {"tail", "heat"} /\ {} \in SUBSET {"structural", "accel", "eligible"}
            OBVIOUS
        <3> QED
            BY <3>1, <3>2, <3>3
    <2>2. CASE FoldHot(w)
        <3>1. PICK old \in SUBSET (work[i] \cap {"heat"}),
                   new \in SUBSET (Derived \cap {"structural", "accel", "eligible"}) :
                work' = [work EXCEPT ![i] = (work[i] \ ({} \cup old)) \cup new]
            BY <1>1, <2>2 DEF FoldHot, Publishes
        <3>2. {} \cup old = old /\ old \in SUBSET {"tail", "heat"}
              /\ new \in SUBSET {"structural", "accel", "eligible"}
            BY <3>1
        <3> QED
            BY <3>1, <3>2
    <2> QED
        BY <2>1, <2>2
<1>5. OnlyAt(i) /\ work'[i] = (work[i] \ old) \cup new
    BY <1>2, <1>4, OneChanged
<1>6. ~Urgent(work'[i])
    <2>1. \A d \in {"pending", "full", "semantic"} : d \in work'[i] <=> d \in work[i]
        BY <1>4, <1>5
    <2> QED
        BY <1>3, <2>1 DEF Urgent
<1>7. After(sched, sched') /\ KeepsBut(sched, sched', i, "maintenance")
    BY <1>1, CountedMoves DEF Counting
<1> QED
    BY <1>2, <1>5, <1>6, <1>7, ButDebt DEF OnlyAt


\* A published accelerator clears the hint only if no writer marked it since the
\* build started; its index had no urgent debt then.
LEMMA FinishDebt ==
    ASSUME WorkHintsAssumption, TableSuffices, TInv, WorkOK, NEW w \in Workers,
           FinishBuild(w), KnowsOf(worker[w], sched, work)
    PROVE  Moves /\ WorkOK'
<1>1. PICK i : i = worker[w].chosen.index
    OBVIOUS
<1>2. i \in Indexes /\ worker[w].pc = "build"
    BY <1>1, ActsOnIndex DEF FinishBuild, At, Acting
<1>3. PICK s \in {sched, Marked(sched, i, {"preload"})} : Counted(w, Allowed(s, i), TRUE)
    BY <1>1 DEF FinishBuild, PreloadScheduled, Allowed
<1>4. PICK old \in SUBSET {"accel", "eligible", "heat"}, new \in SUBSET {"structural"} :
        work' = [work EXCEPT ![i] = (work[i] \ old) \cup new]
    <2>1. PICK o \in SUBSET (work[i] \cap {"heat"}), new \in SUBSET (Derived \cap {"structural"}) :
            work' = [work EXCEPT ![i] = (work[i] \ ({"accel", "eligible"} \cup o)) \cup new]
        BY <1>1 DEF FinishBuild, Publishes
    <2>2. /\ {"accel", "eligible"} \cup o \in SUBSET {"accel", "eligible", "heat"}
          /\ new \in SUBSET {"structural"}
        BY <2>1
    <2> QED
        BY <2>1, <2>2
<1>5. OnlyAt(i) /\ work'[i] = (work[i] \ old) \cup new
    BY <1>2, <1>4, OneChanged
<1>6. Urgent(work'[i]) <=> Urgent(work[i])
    <2>1. \A d \in {"pending", "full", "semantic"} : d \in work'[i] <=> d \in work[i]
        BY <1>4, <1>5
    <2> QED
        BY <2>1 DEF Urgent
<1>7. PICK k \in Nat : k = sched.hints.sequence
    BY DEF TInv, SharedOK, Sound, TableOK
<1>7a. PICK n : n = worker[w].chosen.sequence
    OBVIOUS
<1>8. n \in 0 .. k
    BY <1>7, <1>7a DEF KnowsOf, CandidateKnown
<1>9. /\ After(sched, s) /\ KeepsAll(sched, s)
      /\ \/ HintOf(s.hints, i).sequence = k + 1
         \/ HintOf(s.hints, i).sequence = HintOf(sched.hints, i).sequence
    <2>1. {"preload"} \in SUBSET Classes
        BY DEF Classes
    <2> QED
        BY <1>2, <1>3, <1>7, <2>1, MarkedRoom, AfterSame DEF TInv, SharedOK
<1>10. PICK t : t = Allowed(s, i)
    OBVIOUS
<1>11. /\ After(s, t) /\ KeepsAll(s, t) /\ SharedOK(t)
       /\ HintOf(t.hints, i).sequence = HintOf(s.hints, i).sequence
    BY <1>2, <1>9, <1>10, AllowedStep, AfterOK
<1>12. After(sched, t) /\ KeepsAll(sched, t)
    BY <1>9, <1>11, AfterAgain, KeepsAgain DEF TInv
<1>13. /\ ClearsAt(t, sched', i, n)
       /\ ~worker[w].chosen.hinted => KeepsAll(t, sched')
    BY <1>1, <1>2, <1>3, <1>7a, <1>10, <1>11, CountedShared
<1>14. After(sched, sched')
    BY <1>12, <1>13, AfterAgain DEF TInv, ClearsAt
<1>15. CASE Urgent(work[i])
    <2>1. worker[w].chosen.hinted => HintOf(sched.hints, i).sequence # n
        BY <1>1, <1>2, <1>7a, <1>15 DEF KnowsOf, Clears
    <2>2. worker[w].chosen.hinted => HintOf(t.hints, i).sequence # n
        BY <1>7, <1>8, <1>9, <1>11, <2>1
    <2>3. KeepsAll(sched, sched')
        BY <1>12, <1>13, <2>2, KeepsAgain DEF ClearsAt
    <2> QED
        BY <1>5, <1>14, <1>15, <2>3, KeptDebt DEF OnlyAt
<1>16. CASE ~Urgent(work[i])
    <2>1. KeepsBut(sched, sched', i, "maintenance")
        BY <1>12, <1>13, ButAgain DEF ClearsAt
    <2> QED
        BY <1>2, <1>5, <1>6, <1>14, <1>16, <2>1, ButDebt DEF OnlyAt
<1> QED
    BY <1>15, <1>16

\* A result that does not count, and the start of a build, leave all hints.
LEMMA UncountedDebt ==
    ASSUME WorkHintsAssumption, TInv, WorkOK, NEW w \in Workers,
           NotCounting(w) \/ StartBuild(w)
    PROVE  Moves /\ WorkOK'
<1>1. PICK i : i = worker[w].chosen.index
    OBVIOUS
<1>2. i \in Indexes
    BY <1>1, UncountedForm, StartForm, ActsOnIndex DEF Acting
<1>3. After(sched, sched') /\ KeepsAll(sched, sched')
    BY UncountedMoves
<1>4. CASE work' = work
    BY <1>3, <1>4, SameDebt
<1>5. CASE LeavesTail(i)
    <2>1. PICK tail \in SUBSET {"tail"} : work' = [work EXCEPT ![i] = work[i] \cup tail]
        BY <1>5 DEF LeavesTail
    <2>2. OnlyAt(i) /\ work'[i] = work[i] \cup tail
        BY <1>2, <2>1, OneChanged
    <2>3. \A d \in {"pending", "full", "semantic"} : d \in work'[i] <=> d \in work[i]
        BY <2>1, <2>2
    <2>4. Urgent(work'[i]) => Urgent(work[i])
        BY <2>3 DEF Urgent
    <2> QED
        BY <1>3, <2>2, <2>4, KeptDebt DEF OnlyAt
<1>6. LeavesTail(i) \/ work' = work
    BY <1>1 DEF NotCounting, Defer, Stall, DeferToBuild, NothingDone, LoseBuild,
                AbandonBuild, StartBuild
<1> QED
    BY <1>4, <1>5, <1>6

LEMMA WorkerDebt ==
    ASSUME SchedulerAssumption, WorkHintsAssumption, TableSuffices, TInv, WorkOK,
           NEW w \in Workers, WorkerStep(w) \/ Setback(w),
           KnowsOf(worker[w], sched, work)
    PROVE  Moves /\ WorkOK'
<1>1. CASE \/ ClaimPreload(w) \/ QueryPreload(w) \/ QueryPreloadFails(w)
           \/ SnapshotMaintenance(w) \/ ClaimMaintenance(w) \/ QueryMaintenance(w)
           \/ QueryMaintenanceFails(w) \/ Judge(w) \/ JudgeLocked(w) \/ JudgeFails(w)
           \/ Fail(w) \/ Terminate(w)
    <2>1. After(sched, sched') /\ KeepsAll(sched, sched')
        BY <1>1, SelectionMoves DEF TableMoves
    <2>2. work' = work
        BY <1>1 DEF ClaimPreload, QueryPreload, QueryPreloadFails, SnapshotMaintenance,
           ClaimMaintenance, QueryMaintenance, QueryMaintenanceFails, Judge, JudgeLocked,
           JudgeFails, Fail, Terminate
    <2> QED
        BY <2>1, <2>2, SameDebt
<1>2. CASE \/ PickPreload(w) \/ Preload(w) \/ PreloadBusy(w) \/ PreloadDeclines(w)
           \/ MarkLow(w) \/ Apply(w)
    <2>1. After(sched, sched') /\ KeepsAll(sched, sched')
        BY <1>2, MarkMoves DEF TableMoves
    <2>2. work' = work
        BY <1>2 DEF PickPreload, Preload, PreloadBusy, PreloadDeclines, MarkLow, Apply
    <2> QED
        BY <2>1, <2>2, SameDebt
<1>3. CASE BlockBuild(w)
    <2>1. worker[w].pc = "build" /\ work' = work
        BY <1>3 DEF BlockBuild, At
    <2>2. CASE worker[w].chosen.hinted
        <3>1. sched' = Cleared(sched, worker[w].chosen.index, worker[w].chosen.sequence)
            BY <1>3, <2>2 DEF BlockBuild
        <3> QED
            BY <2>1, <2>2, <3>1, ClearedDebt DEF Clears
    <2>3. CASE ~worker[w].chosen.hinted
        <3>1. Uncounted(w, sched)
            BY <1>3, <2>3 DEF BlockBuild
        <3>2. After(sched, sched') /\ KeepsAll(sched, sched')
            BY <2>1, <3>1, ActsOnIndex, UncountedShared DEF TInv, Acting
        <3> QED
            BY <2>1, <3>2, SameDebt
    <2> QED
        BY <2>2, <2>3
<1>4. CASE ClearIdle(w)
    <2>1. /\ Clears(worker[w]) /\ work' = work
          /\ sched' = Cleared(sched, worker[w].chosen.index, worker[w].chosen.sequence)
        BY <1>4 DEF ClearIdle, At, Clears
    <2> QED
        BY <2>1, ClearedDebt
<1>5. CASE ConsumePreload(w)
    <2>1. work' = work
        BY <1>5 DEF ConsumePreload
    <2> QED
        BY <1>5, <2>1, ConsumeDebt DEF WorkOK
<1>6. CASE Counting(w) \/ NotCounting(w) \/ StartBuild(w)
    BY <1>6, MarkingDebt, UnmarkedDebt, FinishDebt, UncountedDebt DEF Counting
<1> QED
    BY <1>1, <1>2, <1>3, <1>4, <1>5, <1>6 DEF WorkerStep, Setback, Counting, NotCounting

\* A worker that goes on in the same place of the loop, or ends.
LEMMA PlainShrinks ==
    ASSUME NEW r, NEW q, q.tokens = r.tokens, q.candidates = r.candidates,
           q.chosen = r.chosen, q.pc \notin {"clearIdle", "build"}
    PROVE  Shrinks(r, q)
    BY DEF Shrinks, Clears

LEMMA ChoosingShrinks ==
    ASSUME WorkHintsAssumption, TInv, NEW w \in Workers, worker[w].pc = "apply",
           NEW cs \in SUBSET worker[w].candidates,
           NEW c \in worker[w].candidates \cup {worker[w].chosen}, Choosing(w, cs, c)
    PROVE  /\ \E q : worker' = [worker EXCEPT ![w] = q] /\ Shrinks(worker[w], q)
           /\ \A i \in Indexes :
                (\E b \in cs \cup {c} : b.index = i) => MHand(worker'[w], i)
<1>1. DOMAIN worker[w] = Fields
    BY DEF TInv, IInv, WorkersOK, RecordOK
<1>2. NoCandidate.index \notin Indexes
    BY DEF NoCandidate, NoIndex, WorkHintsAssumption
<1>3. PICK q : q = IF cs # {} THEN [worker[w] EXCEPT !.candidates = cs, !.chosen = c]
                   ELSE IF c = NoCandidate THEN OffWorker
                   ELSE [OffWorker EXCEPT !.pc = "execute", !.db = worker[w].db, !.chosen = c]
    OBVIOUS
<1>4. worker' = [worker EXCEPT ![w] = q] /\ worker'[w] = q
    BY <1>3 DEF Choosing, TInv, IInv, WorkersOK
<1>5. CASE cs # {}
    <2>1. /\ q.pc = "apply" /\ q.candidates = cs /\ q.chosen = c
          /\ q.tokens = worker[w].tokens
        BY <1>1, <1>3, <1>5 DEF Fields
    <2> QED
        BY <1>4, <2>1 DEF Shrinks, Clears, MHand
<1>6. CASE cs = {} /\ c # NoCandidate
    <2>1. q.pc = "execute" /\ q.candidates = {} /\ q.chosen = c /\ q.tokens = {}
        BY <1>3, <1>6 DEF OffWorker
    <2> QED
        BY <1>4, <1>6, <2>1 DEF Shrinks, Clears, MHand
<1>7. CASE cs = {} /\ c = NoCandidate
    <2>1. q = OffWorker
        BY <1>3, <1>7
    <2> QED
        BY <1>2, <1>4, <1>7, <2>1, OffShrinks
<1> QED
    BY <1>5, <1>6, <1>7
\* All steps but the reading of hints and of an index and the start of a build
\* leave a worker with what it knew or less.
LEMMA WorkerShrinks ==
    ASSUME WorkHintsAssumption, TInv, NEW w \in Workers, WorkerStep(w) \/ Setback(w),
           ~SnapshotMaintenance(w), ~Judge(w), ~StartBuild(w),
           KnowsOf(worker[w], sched, work)
    PROVE  \E q : worker' = [worker EXCEPT ![w] = q] /\ Shrinks(worker[w], q)
<1>1. /\ DOMAIN worker[w] = Fields /\ DOMAIN worker[w].chosen = DOMAIN NoCandidate
      /\ worker[w].pc \notin {"judge", "markLow", "clearIdle", "apply"}
           => worker[w].candidates = {}
    BY DEF TInv, IInv, WorkersOK, RecordOK
<1>2. CASE Stop(w)
    BY <1>2, OffShrinks DEF Stop
<1>3. ASSUME NEW q, worker' = [worker EXCEPT ![w] = q], q.pc = "consume",
             q.tokens = {}, q.candidates = {}, q.chosen = NoCandidate
      PROVE  \E u : worker' = [worker EXCEPT ![w] = u] /\ Shrinks(worker[w], u)
    <2>1. Shrinks(worker[w], q)
        BY <1>3 DEF Shrinks, Clears
    <2> QED
        BY <1>3, <2>1
<1>4. CASE ConsumePreload(w)
    <2>1. PICK o : worker' = [worker EXCEPT ![w] = [@ EXCEPT !.pc = "claimP", !.oids = o]]
        BY <1>4 DEF ConsumePreload
    <2>2. PICK q : q = [worker[w] EXCEPT !.pc = "claimP", !.oids = o]
        OBVIOUS
    <2>3. /\ q.pc = "claimP" /\ q.tokens = worker[w].tokens
          /\ q.candidates = worker[w].candidates /\ q.chosen = worker[w].chosen
        BY <1>1, <2>2 DEF Fields
    <2>4. Shrinks(worker[w], q)
        BY <2>3, PlainShrinks
    <2> QED
        BY <2>1, <2>2, <2>4
<1>5. CASE ClaimPreload(w)
    <2>1. PICK g, p : /\ p \in {"queryP", "snapshot", "pickP"}
                      /\ \/ Stop(w)
                         \/ worker' = [worker EXCEPT ![w] =
                                         [@ EXCEPT !.claimed = g, !.pc = p]]
        BY <1>5 DEF ClaimPreload, Stop
    <2>2. PICK q : q = [worker[w] EXCEPT !.claimed = g, !.pc = p]
        OBVIOUS
    <2>3. q.pc = p /\ p \notin {"clearIdle", "build"}
        BY <1>1, <2>1, <2>2 DEF Fields
    <2>4. Shrinks(worker[w], q)
        BY <1>1, <2>2, <2>3, PlainShrinks DEF Fields
    <2> QED
        BY <1>2, <2>1, <2>2, <2>4
<1>6. CASE QueryPreload(w)
    <2>1. PICK o, p : /\ p \in {"snapshot", "pickP"}
                      /\ \/ Stop(w)
                         \/ worker' = [worker EXCEPT ![w] = [@ EXCEPT !.oids = o, !.pc = p]]
        BY <1>6 DEF QueryPreload, Stop
    <2>2. PICK q : q = [worker[w] EXCEPT !.oids = o, !.pc = p]
        OBVIOUS
    <2>3. q.pc = p /\ p \notin {"clearIdle", "build"}
        BY <1>1, <2>1, <2>2 DEF Fields
    <2>4. Shrinks(worker[w], q)
        BY <1>1, <2>2, <2>3, PlainShrinks DEF Fields
    <2> QED
        BY <1>2, <2>1, <2>2, <2>4
<1>7. CASE PickPreload(w)
    <2>1. PICK i, o, p :
            /\ p \in {"preload", "pickP"}
            /\ \/ /\ worker[w].chosen.index = NoIndex
                  /\ worker' = [worker EXCEPT ![w] =
                               [@ EXCEPT !.oids = o, !.chosen.index = i, !.pc = p]]
               \/ worker' = [worker EXCEPT ![w] = [@ EXCEPT !.oids = o, !.pc = p]]
               \/ Stop(w)
        BY <1>7 DEF PickPreload, Stop
    <2>2. PICK c : c = [worker[w].chosen EXCEPT !.index = i]
        OBVIOUS
    <2>3. c.sequence = worker[w].chosen.sequence /\ c.hinted = worker[w].chosen.hinted
        BY <1>1, <2>2 DEF NoCandidate
    <2>4. PICK q, u : /\ q = [worker[w] EXCEPT !.oids = o, !.chosen = c, !.pc = p]
                      /\ u = [worker[w] EXCEPT !.oids = o, !.pc = p]
        OBVIOUS
    <2>5. /\ q.pc = p /\ u.pc = p /\ p \notin {"clearIdle", "build"} /\ q.chosen = c
          /\ q.tokens = worker[w].tokens /\ q.candidates = worker[w].candidates
        BY <1>1, <2>1, <2>4 DEF Fields
    <2>6. Shrinks(worker[w], u)
        BY <1>1, <2>4, <2>5, PlainShrinks DEF Fields
    <2>7. worker[w].chosen.index = NoIndex => Shrinks(worker[w], q)
        <3>1. NoIndex \notin Indexes
            BY DEF NoIndex, WorkHintsAssumption
        <3>2. worker[w].chosen.index = NoIndex => ~c.hinted
            BY <2>3, <3>1 DEF KnowsOf, CandidateKnown, TokenKnown
        <3> QED
            BY <2>3, <2>5, <3>2 DEF Shrinks, Clears
    <2>8. \/ worker[w].chosen.index = NoIndex /\ worker' = [worker EXCEPT ![w] = q]
          \/ worker' = [worker EXCEPT ![w] = u]
          \/ Stop(w)
        BY <1>1, <2>1, <2>2, <2>4 DEF Fields
    <2> QED
        BY <1>2, <2>6, <2>7, <2>8
<1>8. CASE Preload(w) \/ PreloadBusy(w) \/ PreloadDeclines(w)
    <2>1. PICK q : q = [OffWorker EXCEPT !.pc = "consume", !.db = worker[w].db,
                                         !.preloaded = TRUE]
        OBVIOUS
    <2>2. /\ q.pc = "consume" /\ q.tokens = {} /\ q.candidates = {}
          /\ q.chosen = NoCandidate
        BY <2>1 DEF OffWorker
    <2>3. worker' = [worker EXCEPT ![w] = q]
        BY <1>8, <2>1 DEF Preload, PreloadBusy, PreloadDeclines, Preloaded
    <2> QED
        BY <1>3, <2>2, <2>3
<1>9. ASSUME NEW o, DOMAIN o = Fields, o.tokens = worker[w].tokens,
             o.candidates = worker[w].candidates,
             o.chosen = worker[w].chosen,
             worker' = [worker EXCEPT ![w] = Onward(o)]
      PROVE  \E q : worker' = [worker EXCEPT ![w] = q] /\ Shrinks(worker[w], q)
    <2>1. Shrinks(o, Onward(o))
        BY <1>9, OnwardKeeps
    <2>2. Shrinks(worker[w], Onward(o))
        BY <1>9, <2>1 DEF Shrinks
    <2> QED
        BY <1>9, <2>2
<1>10. CASE ClaimMaintenance(w)
    <2>1. PICK q, o, c : /\ q = [worker[w] EXCEPT !.claimed = TRUE, !.pc = "queryM"]
                         /\ o = [worker[w] EXCEPT !.claimed = FALSE, !.cursor = c]
                         /\ \/ worker' = [worker EXCEPT ![w] = q]
                            \/ worker' = [worker EXCEPT ![w] = Onward(o)]
        BY <1>10 DEF ClaimMaintenance
    <2>2. Shrinks(worker[w], q)
        <3>1. /\ q.pc = "queryM" /\ q.tokens = worker[w].tokens
              /\ q.candidates = worker[w].candidates /\ q.chosen = worker[w].chosen
            BY <1>1, <2>1 DEF Fields
        <3> QED
            BY <3>1, PlainShrinks
    <2>3. /\ DOMAIN o = Fields /\ o.tokens = worker[w].tokens
          /\ o.candidates = worker[w].candidates /\ o.chosen = worker[w].chosen
        BY <1>1, <2>1 DEF Fields
    <2> QED
        BY <1>9, <2>1, <2>2, <2>3
<1>11. CASE QueryMaintenance(w) \/ JudgeLocked(w)
    <2>1. PICK o, c, b : /\ \/ o = [worker[w] EXCEPT !.oids = b, !.cursor = c]
                            \/ o = [worker[w] EXCEPT !.oids = b]
                         /\ worker' = [worker EXCEPT ![w] = Onward(o)]
        BY <1>11 DEF QueryMaintenance, JudgeLocked
    <2>2. /\ DOMAIN o = Fields /\ o.tokens = worker[w].tokens
          /\ o.candidates = worker[w].candidates /\ o.chosen = worker[w].chosen
        BY <1>1, <2>1 DEF Fields
    <2> QED
        BY <1>9, <2>1, <2>2
<1>12. CASE MarkLow(w) \/ ClearIdle(w)
    BY <1>1, <1>9, <1>12 DEF MarkLow, ClearIdle
<1>13. CASE Apply(w)
    <2>1. worker[w].pc = "apply" /\ Best(w) \in worker[w].candidates
        BY <1>13, BestIsCandidate DEF Apply, At, TInv
    <2>2. PICK cs \in SUBSET worker[w].candidates,
               c \in worker[w].candidates \cup {worker[w].chosen} : Choosing(w, cs, c)
        BY <1>13, <2>1 DEF Apply
    <2> QED
        BY <2>1, <2>2, ChoosingShrinks
<1>14. CASE Counting(w)
    <2>1. PICK q : q = [OffWorker EXCEPT !.pc = "consume", !.db = worker[w].db]
        OBVIOUS
    <2>2. /\ q.pc = "consume" /\ q.tokens = {} /\ q.candidates = {}
          /\ q.chosen = NoCandidate
        BY <2>1 DEF OffWorker
    <2>3. \E s : \E a \in BOOLEAN : Counted(w, s, a)
        BY <1>14, CountedForm
    <2>4. Stop(w) \/ worker' = [worker EXCEPT ![w] = q]
        BY <2>1, <2>3 DEF Counted
    <2> QED
        BY <1>2, <1>3, <2>2, <2>4
<1>15. CASE NotCounting(w)
    <2>1. \E s : Uncounted(w, s)
        BY <1>15, UncountedForm
    <2> QED
        BY <1>2, <2>1 DEF Uncounted
<1>16. CASE \/ QueryPreloadFails(w) \/ QueryMaintenanceFails(w) \/ JudgeFails(w)
            \/ BlockBuild(w) \/ Fail(w) \/ Terminate(w)
    <2>1. Stop(w)
        BY <1>16 DEF QueryPreloadFails, QueryMaintenanceFails, JudgeFails, BlockBuild,
           Fail, Terminate, Uncounted
    <2> QED
        BY <1>2, <2>1
<1> QED
    BY <1>4, <1>5, <1>6, <1>7, <1>8, <1>10, <1>11, <1>12, <1>13, <1>14, <1>15, <1>16
       DEF WorkerStep, Setback, Counting, NotCounting

LEMMA TokenOfOne ==
    ASSUME WorkHintsAssumption, NEW ts, NEW i \in Indexes
    PROVE  \/ /\ TokenOf(ts, i) \in ts /\ TokenOf(ts, i).index = i
              /\ TokenOf(ts, i) # FreeHint
           \/ TokenOf(ts, i) = FreeHint /\ ~\E h \in ts : h.index = i
<1>1. FreeHint.index = NoIndex /\ NoIndex \notin Indexes
    BY DEF FreeHint, NoIndex, WorkHintsAssumption
<1>2. CASE \E h \in ts : h.index = i
    <2>1. TokenOf(ts, i) = CHOOSE h \in ts : h.index = i
        BY <1>2 DEF TokenOf
    <2>2. TokenOf(ts, i) \in ts /\ TokenOf(ts, i).index = i
        BY <1>2, <2>1
    <2> QED
        BY <1>1, <2>2
<1>3. CASE ~\E h \in ts : h.index = i
    <2>1. TokenOf(ts, i) = FreeHint
        BY <1>3 DEF TokenOf
    <2> QED
        BY <1>3, <2>1
<1> QED
    BY <1>2, <1>3

\* The hints a worker reads are those of the table.
LEMMA SnapshotKnows ==
    ASSUME WorkHintsAssumption, TInv, NEW w \in Workers, SnapshotMaintenance(w),
           KnowsOf(worker[w], sched, work)
    PROVE  KnowsOf(worker'[w], sched', work')
<1>1. /\ DOMAIN worker[w] = Fields /\ worker[w].candidates = {}
      /\ worker[w].pc = "snapshot"
    BY DEF TInv, IInv, WorkersOK, RecordOK, SnapshotMaintenance, At
<1>2. PICK mine, ts, o : /\ mine = Mine(worker[w].db)
                         /\ ts = Snapshot(sched.hints, mine, "maintenance")
                         /\ o = { h.index : h \in ts }
    OBVIOUS
<1>3. PICK q : q = [worker[w] EXCEPT !.tokens = ts, !.pc = "claimM", !.oids = o]
    OBVIOUS
<1>4. /\ q.tokens = ts /\ q.pc = "claimM" /\ q.candidates = {}
      /\ q.chosen = worker[w].chosen
    BY <1>1, <1>3 DEF Fields
<1>5. worker'[w] = q
    BY <1>2, <1>3 DEF SnapshotMaintenance, TInv, IInv, WorkersOK
<1>6. sched'.hints = sched.hints /\ work' = work
    BY DEF SnapshotMaintenance, TInv, SharedOK
<1>7. Sound(sched.hints)
    BY DEF TInv, SharedOK
<1>8. ASSUME NEW h \in ts
      PROVE  TokenKnown(h, sched, work)
    <2>1. PICK s \in Slots(sched.hints) : /\ h = sched.hints.slots[s] /\ h.index \in Indexes
                                          /\ "maintenance" \in h.flags
        BY <1>2 DEF Snapshot, Mine
    <2>2. s \in Positions
        BY <1>7, <2>1 DEF Sound, TableOK, Slots
    <2>3. h.sequence \in 1 .. sched.hints.sequence
        BY <1>7, <2>1, <2>2 DEF Sound
    <2>4. Owns(sched.hints, s, h.index)
        BY <2>1 DEF Owns
    <2>5. HintOf(sched.hints, h.index) = h
        BY <1>7, <2>1, <2>2, <2>4, HintOfEntry
    <2> QED
        BY <2>1, <2>3, <2>5 DEF Flagged, TokenKnown
<1>9. KnowsOf(q, sched, work)
    BY <1>4, <1>8 DEF KnowsOf, Clears
<1>10. KnowsOf(q, sched', work')
    BY <1>6, <1>9 DEF KnowsOf, CandidateKnown, TokenKnown, Flagged
<1> QED
    BY <1>5, <1>10

\* A worker that has learnt no more than what is known.
LEMMA KnowsWith ==
    ASSUME NEW s, NEW wk, NEW r, KnowsOf(r, s, wk), NEW q, q.tokens \subseteq r.tokens,
           \A c \in q.candidates \ r.candidates : CandidateKnown(c, s, wk),
           CandidateKnown(q.chosen, s, wk),
           Clears(q) => q.chosen.sequence # 0 /\ ~Urgent(wk[q.chosen.index])
    PROVE  KnowsOf(q, s, wk)
<1>1. \A h \in q.tokens : TokenKnown(h, s, wk)
    BY DEF KnowsOf
<1>2. \A c \in q.candidates : CandidateKnown(c, s, wk)
    BY DEF KnowsOf
<1> QED
    BY <1>1, <1>2 DEF KnowsOf

\* An index with urgent debt is due; one that is not due has none.
LEMMA UrgentDue ==
    ASSUME NEW ds, NEW t, Urgent(ds)
    PROVE  DueNow(ds, t)
<1>1. CASE "pending" \in ds
    <2>1. "pending" \in Seen(ds)
        BY <1>1 DEF Seen, DerivedDebts
    <2> QED
        BY <2>1 DEF DueNow, StrictNow, Mandatory
<1>2. CASE "pending" \notin ds /\ "full" \in ds
    <2>1. Seen(ds) = ds \ {"structural", "heat"}
        BY <1>2 DEF Seen
    <2>2. "full" \in Seen(ds)
        BY <1>2, <2>1
    <2> QED
        BY <2>2 DEF DueNow, StrictNow, Mandatory
<1> QED
    BY <1>1, <1>2 DEF Urgent

\* The outcomes of the reading of index j by worker w.
JudgedTo(w, j, q) ==
  LET t == TokenOf(worker[w].tokens, j)
      r == [worker[w] EXCEPT !.oids = @ \ {j}]
      c == [NoCandidate EXCEPT !.index = j, !.sequence = t.sequence]
      b == AsCandidate(j, work[j], t)
  IN  \/ q = Onward([r EXCEPT !.candidates = @ \cup {b}])
      \/ /\ ~Urgent(work[j])
         /\ \/ q = [r EXCEPT !.pc = "markLow", !.chosen = c]
            \/ q = [r EXCEPT !.pc = "clearIdle", !.chosen = c] /\ t # FreeHint
            \/ q = Onward(r)

LEMMA JudgeForm ==
    ASSUME TInv, NEW w \in Workers, Judge(w)
    PROVE  /\ DOMAIN worker[w] = Fields /\ worker[w].oids \subseteq Indexes
           /\ worker[w].pc = "judge"
           /\ sched' = sched /\ work' = work /\ faults' = faults
           /\ \E j \in worker[w].oids : \E q :
                worker' = [worker EXCEPT ![w] = q] /\ JudgedTo(w, j, q)
<1>1. /\ DOMAIN worker[w] = Fields /\ worker[w].oids \subseteq Indexes
      /\ worker[w].pc = "judge"
    BY DEF TInv, IInv, WorkersOK, RecordOK, Judge, At
<1>2. sched' = sched /\ work' = work /\ faults' = faults
    BY DEF Judge
<1>3. PICK j \in worker[w].oids : \E t \in {TokenOf(worker[w].tokens, j)} :
        LET r == [worker[w] EXCEPT !.oids = @ \ {j}]
            c == [NoCandidate EXCEPT !.index = j, !.sequence = t.sequence]
        IN  worker' = [worker EXCEPT ![w] =
              IF DueNow(work[j], t)
              THEN Onward([r EXCEPT !.candidates = @ \cup {AsCandidate(j, work[j], t)}])
              ELSE IF LowNow(work[j]) /\ t = FreeHint /\ worker[w].claimed
              THEN [r EXCEPT !.pc = "markLow", !.chosen = c]
              ELSE IF ~LowNow(work[j]) /\ t # FreeHint /\ "accel" \notin Seen(work[j])
              THEN [r EXCEPT !.pc = "clearIdle", !.chosen = c]
              ELSE Onward(r)]
    BY DEF Judge
<1>4. PICK t, r, c, b : /\ t = TokenOf(worker[w].tokens, j)
                        /\ r = [worker[w] EXCEPT !.oids = @ \ {j}]
                        /\ c = [NoCandidate EXCEPT !.index = j, !.sequence = t.sequence]
                        /\ b = AsCandidate(j, work[j], t)
    OBVIOUS
<1>5. \/ worker' = [worker EXCEPT ![w] = Onward([r EXCEPT !.candidates = @ \cup {b}])]
      \/ /\ ~DueNow(work[j], t)
         /\ \/ worker' = [worker EXCEPT ![w] = [r EXCEPT !.pc = "markLow", !.chosen = c]]
            \/ /\ worker' = [worker EXCEPT ![w] = [r EXCEPT !.pc = "clearIdle", !.chosen = c]]
               /\ t # FreeHint
            \/ worker' = [worker EXCEPT ![w] = Onward(r)]
    BY <1>3, <1>4
<1>6. ~DueNow(work[j], t) => ~Urgent(work[j])
    BY UrgentDue
<1>7. PICK o, m, l : /\ o = Onward([r EXCEPT !.candidates = @ \cup {b}])
                     /\ m = [r EXCEPT !.pc = "markLow", !.chosen = c]
                     /\ l = [r EXCEPT !.pc = "clearIdle", !.chosen = c]
    OBVIOUS
<1>8. /\ JudgedTo(w, j, o)
      /\ ~Urgent(work[j]) => JudgedTo(w, j, m) /\ JudgedTo(w, j, Onward(r))
      /\ ~Urgent(work[j]) /\ t # FreeHint => JudgedTo(w, j, l)
    BY <1>4, <1>7 DEF JudgedTo
<1>9. \E q : worker' = [worker EXCEPT ![w] = q] /\ JudgedTo(w, j, q)
    BY <1>5, <1>6, <1>7, <1>8
<1> QED
    BY <1>1, <1>2, <1>9

\* A candidate has the hint its index was read with; a hint is cleared because
\* its index had no urgent debt.
LEMMA JudgeKnows ==
    ASSUME WorkHintsAssumption, TInv, NEW w \in Workers, Judge(w),
           KnowsOf(worker[w], sched, work)
    PROVE  KnowsOf(worker'[w], sched', work')
<1>1. /\ DOMAIN worker[w] = Fields /\ worker[w].oids \subseteq Indexes
      /\ worker[w].pc = "judge" /\ sched' = sched /\ work' = work
    BY JudgeForm
<1>2. PICK i \in worker[w].oids : \E q :
        worker' = [worker EXCEPT ![w] = q] /\ JudgedTo(w, i, q)
    BY JudgeForm
<1>3. PICK q : worker' = [worker EXCEPT ![w] = q] /\ JudgedTo(w, i, q)
    BY <1>2
<1>3a. PICK t, r, c, b : /\ t = TokenOf(worker[w].tokens, i)
                         /\ r = [worker[w] EXCEPT !.oids = @ \ {i}]
                         /\ c = [NoCandidate EXCEPT !.index = i, !.sequence = t.sequence]
                         /\ b = AsCandidate(i, work[i], t)
    OBVIOUS
<1>4. PICK o, m, l : /\ o = [r EXCEPT !.candidates = @ \cup {b}]
                     /\ m = [r EXCEPT !.pc = "markLow", !.chosen = c]
                     /\ l = [r EXCEPT !.pc = "clearIdle", !.chosen = c]
    OBVIOUS
<1>5. /\ worker'[w] = q
      /\ \/ q = Onward(o)
         \/ q = m
         \/ q = l /\ ~Urgent(work[i]) /\ t # FreeHint
         \/ q = Onward(r)
    BY <1>3, <1>3a, <1>4 DEF TInv, IInv, WorkersOK, JudgedTo
<1>6. i \in Indexes /\ SharedOK(sched)
    BY <1>1 DEF TInv
<1>7. PICK k \in Nat : k = sched.hints.sequence
    BY DEF TInv, SharedOK, Sound, TableOK
<1>8. t = FreeHint \/ (TokenKnown(t, sched, work) /\ t.index = i)
    BY <1>3a, <1>6, TokenOfOne DEF KnowsOf
<1>9. t.sequence \in 0 .. k /\ (t # FreeHint => t.sequence # 0)
    BY <1>7, <1>8 DEF TokenKnown, FreeHint
<1>10. /\ r.pc = "judge" /\ r.tokens = worker[w].tokens /\ DOMAIN r = Fields
       /\ r.candidates = worker[w].candidates /\ r.chosen = worker[w].chosen
    BY <1>1, <1>3a DEF Fields
<1>11. c.index = i /\ c.sequence = t.sequence /\ ~c.hinted
    BY <1>3a DEF NoCandidate
<1>12. b.index = i /\ b.sequence = t.sequence /\ (b.hinted <=> t # FreeHint)
    BY <1>3a DEF AsCandidate
<1>13. CandidateKnown(c, sched, work) /\ CandidateKnown(b, sched, work)
    BY <1>7, <1>8, <1>9, <1>11, <1>12 DEF CandidateKnown, TokenKnown
<1>14. KnowsOf(r, sched, work)
    <2>1. Shrinks(worker[w], r)
        BY <1>10, PlainShrinks
    <2> QED
        BY <1>6, <2>1, KnowsLess
<1>15. CASE q = Onward(o)
    <2>1. /\ o.pc = "judge" /\ o.tokens = r.tokens /\ DOMAIN o = Fields
          /\ o.candidates = r.candidates \cup {b} /\ o.chosen = r.chosen
        BY <1>4, <1>10 DEF Fields
    <2>2. KnowsOf(o, sched, work)
        BY <1>13, <1>14, <2>1 DEF KnowsOf, Clears
    <2>3. Shrinks(o, Onward(o))
        BY <2>1, OnwardKeeps
    <2> QED
        BY <1>1, <1>5, <1>6, <1>15, <2>2, <2>3, KnowsLess
<1>16. CASE q = Onward(r)
    <2>1. Shrinks(r, Onward(r))
        BY <1>10, OnwardKeeps
    <2> QED
        BY <1>1, <1>5, <1>6, <1>14, <1>16, <2>1, KnowsLess
<1>17. CASE q = m
    <2>1. /\ m.pc = "markLow" /\ m.tokens = r.tokens
          /\ m.candidates = r.candidates /\ m.chosen = c
        BY <1>4, <1>10 DEF Fields
    <2>2. KnowsOf(m, sched, work)
        BY <1>13, <1>14, <2>1 DEF KnowsOf, Clears
    <2> QED
        BY <1>1, <1>5, <1>17, <2>2
<1>18. CASE q = l /\ ~Urgent(work[i]) /\ t # FreeHint
    <2>1. /\ l.pc = "clearIdle" /\ l.tokens = r.tokens
          /\ l.candidates = r.candidates /\ l.chosen = c
        BY <1>4, <1>10 DEF Fields
    <2>2. ~Urgent(work[l.chosen.index]) /\ l.chosen.sequence # 0
        BY <1>9, <1>11, <1>18, <2>1
    <2>3. KnowsOf(l, sched, work)
        BY <1>13, <1>14, <2>1, <2>2, KnowsWith
    <2> QED
        BY <1>1, <1>5, <1>18, <2>3
<1> QED
    BY <1>5, <1>15, <1>16, <1>17, <1>18

\* A build starts with no urgent debt in its index.
LEMMA StartKnows ==
    ASSUME WorkHintsAssumption, TInv, NEW w \in Workers, StartBuild(w),
           KnowsOf(worker[w], sched', work')
    PROVE  KnowsOf(worker'[w], sched', work')
<1>1. PICK q : q = [worker[w] EXCEPT !.pc = "build"]
    OBVIOUS
<1>2. /\ q.pc = "build" /\ q.tokens = worker[w].tokens
      /\ q.candidates = worker[w].candidates /\ q.chosen = worker[w].chosen
    BY <1>1 DEF TInv, IInv, WorkersOK, RecordOK, Fields
<1>3. worker'[w] = q
    BY <1>1 DEF StartBuild, TInv, IInv, WorkersOK
<1>4. ~Urgent(work'[q.chosen.index])
    BY <1>2, RootNotUrgent DEF StartBuild, Found
<1>5. q.chosen.hinted => q.chosen.sequence # 0
    BY <1>2 DEF KnowsOf, CandidateKnown, TokenKnown
<1>6. KnowsOf(q, sched', work')
    BY <1>2, <1>4, <1>5 DEF KnowsOf, Clears
<1> QED
    BY <1>3, <1>6

-----------------------------------------------------------------------------
KInv == QInv /\ WorkOK /\ \A w \in Workers : KnowsOf(worker[w], sched, work)

LEMMA NextKnows ==
    ASSUME SchedulerAssumption, WorkHintsAssumption, TableSuffices, KInv, TInv', Next
    PROVE  /\ Moves /\ WorkOK'
           /\ \A w \in Workers : KnowsOf(worker[w], sched, work)'
<1>1. TInv /\ WorkOK /\ RecOK(sched.rec) /\ SharedOK(sched) /\ SharedOK(sched')
    BY DEF KInv, QInv, SInv, TInv
<1>2. ASSUME Moves, NEW u \in Workers
      PROVE  KnowsOf(worker[u], sched', work')
    <2>1. Clears(worker[u]) => worker[u].chosen.index \in Indexes
        BY <1>1, ActsOnIndex DEF Acting, Clears
    <2>2. KnowsOf(worker[u], sched, work)
        BY DEF KInv
    <2> QED
        BY <1>1, <1>2, <2>1, <2>2, KnowsLater DEF Moves
<1>3. ASSUME Moves, worker' = worker
      PROVE  \A w \in Workers : KnowsOf(worker[w], sched, work)'
    BY <1>2, <1>3
<1>4. ASSUME Moves, NEW w \in Workers, NEW q, worker' = [worker EXCEPT ![w] = q],
             KnowsOf(worker[w], sched', work') => KnowsOf(q, sched', work')
      PROVE  \A u \in Workers : KnowsOf(worker[u], sched, work)'
    <2>1. worker'[w] = q /\ \A u \in Workers : u # w => worker'[u] = worker[u]
        BY <1>1, <1>4, OthersStay
    <2> QED
        BY <1>2, <1>4, <2>1
<1>5. CASE Environment
    <2>1. Moves /\ WorkOK' /\ worker' = worker
        BY <1>1, <1>5, EnvironmentDebt, EnvironmentRec
    <2> QED
        BY <1>3, <2>1
<1>6. ASSUME NEW w \in Workers, WorkerStep(w) \/ Setback(w)
      PROVE  /\ Moves /\ WorkOK'
             /\ \A u \in Workers : KnowsOf(worker[u], sched, work)'
    <2>1. KnowsOf(worker[w], sched, work)
        BY DEF KInv
    <2>2. Moves /\ WorkOK'
        BY <1>1, <1>6, <2>1, WorkerDebt
    <2>3. CASE SnapshotMaintenance(w) \/ Judge(w)
        <3>1. KnowsOf(worker'[w], sched', work')
            BY <1>1, <2>1, <2>3, SnapshotKnows, JudgeKnows
        <3>2. PICK q : worker' = [worker EXCEPT ![w] = q]
            BY <2>3 DEF SnapshotMaintenance, Judge
        <3>3. worker'[w] = q
            BY <1>1, <3>2, OthersStay
        <3> QED
            BY <1>4, <2>2, <3>1, <3>2, <3>3
    <2>5. CASE StartBuild(w)
        <3>1. KnowsOf(worker[w], sched', work')
            BY <1>2, <2>2
        <3>2. KnowsOf(worker'[w], sched', work')
            BY <1>1, <2>5, <3>1, StartKnows
        <3>3. PICK q : worker' = [worker EXCEPT ![w] = q]
            BY <2>5 DEF StartBuild
        <3>4. worker'[w] = q
            BY <1>1, <3>3, OthersStay
        <3> QED
            BY <1>4, <2>2, <3>2, <3>3, <3>4
    <2>4. CASE ~SnapshotMaintenance(w) /\ ~Judge(w) /\ ~StartBuild(w)
        <3>1. PICK q : worker' = [worker EXCEPT ![w] = q] /\ Shrinks(worker[w], q)
            BY <1>1, <1>6, <2>1, <2>4, WorkerShrinks
        <3>2. KnowsOf(worker[w], sched', work') => KnowsOf(q, sched', work')
            BY <1>1, <3>1, KnowsLess
        <3> QED
            BY <1>4, <2>2, <3>1, <3>2
    <2> QED
        BY <2>3, <2>4, <2>5
<1>7. ASSUME NEW w \in Workers, Launch(w) \/ \E d \in Databases : TouchLaunch(w, d)
      PROVE  /\ Moves /\ WorkOK'
             /\ \A u \in Workers : KnowsOf(worker[u], sched, work)'
    <2>1. sched' = sched /\ work' = work /\ worker[w].pc = "off"
        BY <1>7 DEF Launch, TouchLaunch
    <2>2. Moves /\ WorkOK'
        BY <1>1, <2>1, SameShared, SameDebt
    <2>3. PICK d : worker' = [worker EXCEPT ![w] =
                                [OffWorker EXCEPT !.pc = "consume", !.db = d]]
        BY <1>7 DEF Launch, TouchLaunch
    <2>4. PICK q : q = [OffWorker EXCEPT !.pc = "consume", !.db = d]
        OBVIOUS
    <2>5. /\ q.pc = "consume" /\ q.tokens = {} /\ q.candidates = {}
          /\ q.chosen = NoCandidate
        BY <2>4 DEF OffWorker
    <2>6. Shrinks(worker[w], q)
        BY <2>5 DEF Shrinks, Clears
    <2>7. KnowsOf(worker[w], sched', work') => KnowsOf(q, sched', work')
        BY <1>1, <2>6, KnowsLess
    <2> QED
        BY <1>4, <2>2, <2>3, <2>4, <2>7
<1> QED
    BY <1>5, <1>6, <1>7 DEF Next

-----------------------------------------------------------------------------
MKnown(i) ==
  Announced(sched, i, "maintenance") \/ \E w \in Workers : MHand(worker[w], i)

DebtAt(i) == Urgent(work[i]) /\ i \notin faults.missed => MKnown(i)

DInv == KInv /\ (faults.terminations = 0 => \A i \in Indexes : DebtAt(i))

\* Reconciliation for maintenance of i is not undone.
RecStays(i) ==
  \A d \in {DbOf[i]} :
    /\ RunningIn(sched.rec, d, "maintenance") => RunningIn(sched'.rec, d, "maintenance")
    /\ Pending(sched.rec, d, "maintenance") => Pending(sched'.rec, d, "maintenance")

LEMMA RecKeepsStays ==
    ASSUME SchedulerAssumption, NEW i \in Indexes, NEW d,
           \/ RecKeeps(sched.rec, sched'.rec)
           \/ RecKeepsBut(sched.rec, sched'.rec, d, "preload")
           \/ RecKeepsBut(sched.rec, sched'.rec, d, "maintenance") /\ d # DbOf[i]
    PROVE  RecStays(i)
<1>1. DbOf[i] \in Databases /\ "maintenance" \in Classes /\ "maintenance" # "preload"
    BY DEF SchedulerAssumption, Classes
<1> QED
    BY <1>1 DEF RecStays, RecKeeps, RecKeepsBut

\* Debt that is urgent after a step was announced by it, or was urgent before
\* and is announced if it was.
LEMMA DebtAnnounced ==
    ASSUME Moves, NEW i \in Indexes, RecStays(i), Urgent(work'[i])
    PROVE  \/ Announced(sched', i, "maintenance")
           \/ Urgent(work[i]) /\ ~Announced(sched, i, "maintenance")
<1>1. CASE Flagged(sched', i)
    BY <1>1 DEF Announced, Flagged
<1>2. CASE Urgent(work[i]) /\ Keeps(sched.hints, sched'.hints, i, "maintenance")
    BY <1>2 DEF Announced, Keeps, RecStays
<1> QED
    BY <1>1, <1>2 DEF Moves, DebtMoves

\* One worker moves and keeps what it has to maintain, or announces it.
LEMMA DebtOwn ==
    ASSUME TInv, Moves, NEW w \in Workers, NEW r, worker' = [worker EXCEPT ![w] = r],
           NEW i \in Indexes, RecStays(i), DebtAt(i),
           i \in faults.missed => i \in faults'.missed,
           Urgent(work[i]) /\ Urgent(work'[i]) /\ i \notin faults'.missed
             /\ MHand(worker[w], i) => MHand(r, i) \/ Announced(sched', i, "maintenance")
    PROVE  DebtAt(i)'
<1> SUFFICES ASSUME Urgent(work'[i]), i \notin faults'.missed,
                    ~Announced(sched', i, "maintenance")
             PROVE  \E u \in Workers : MHand(worker'[u], i)
    BY DEF DebtAt, MKnown
<1>1. Urgent(work[i]) /\ ~Announced(sched, i, "maintenance")
    BY DebtAnnounced
<1>2. PICK u \in Workers : MHand(worker[u], i)
    BY <1>1 DEF DebtAt, MKnown
<1>3. worker'[w] = r /\ \A v \in Workers : v # w => worker'[v] = worker[v]
    BY OthersStay
<1>4. CASE u = w
    BY <1>1, <1>2, <1>3, <1>4
<1>5. CASE u # w
    BY <1>2, <1>3, <1>5
<1> QED
    BY <1>4, <1>5

LEMMA NoHand ==
    ASSUME TInv, NEW w \in Workers, NEW i,
           worker[w].pc \notin {"judge", "markLow", "clearIdle", "apply", "execute"}
    PROVE  ~MHand(worker[w], i)
<1>1. worker[w].candidates = {}
    BY DEF TInv, IInv, WorkersOK, RecordOK
<1> QED
    BY <1>1 DEF MHand

LEMMA EnvironmentUrgent ==
    ASSUME SchedulerAssumption, WorkHintsAssumption, QInv, Moves, Environment,
           NEW i \in Indexes, DebtAt(i)
    PROVE  DebtAt(i)'
<1>1. /\ RecKeeps(sched.rec, sched'.rec) /\ worker' = worker /\ faults' = faults
    BY EnvironmentRec DEF QInv, SInv
<1>2. RecStays(i)
    BY <1>1, RecKeepsStays
<1> SUFFICES ASSUME Urgent(work'[i]), i \notin faults'.missed,
                    ~Announced(sched', i, "maintenance")
             PROVE  \E u \in Workers : MHand(worker'[u], i)
    BY DEF DebtAt, MKnown
<1>3. Urgent(work[i]) /\ ~Announced(sched, i, "maintenance")
    BY <1>2, DebtAnnounced
<1> QED
    BY <1>1, <1>3 DEF DebtAt, MKnown

\* Steps of a worker that has nothing to maintain.
LEMMA OtherUrgent ==
    ASSUME SchedulerAssumption, WorkHintsAssumption, EntriesSuffice, QInv, Moves,
           NEW w \in Workers,
           \/ ConsumePreload(w) \/ ClaimPreload(w) \/ QueryPreload(w)
           \/ QueryPreloadFails(w) \/ PickPreload(w) \/ Preload(w) \/ PreloadBusy(w)
           \/ PreloadDeclines(w) \/ SnapshotMaintenance(w)
           \/ FinishBuild(w) \/ LoseBuild(w) \/ AbandonBuild(w) \/ BlockBuild(w)
           \/ Launch(w) \/ (\E d \in Databases : TouchLaunch(w, d))
           \/ Fail(w) /\ worker[w].pc \in {"preload", "build"},
           faults.terminations = 0, faults.missed \subseteq faults'.missed,
           NEW i \in Indexes, DebtAt(i)
    PROVE  DebtAt(i)'
<1>1. TInv /\ DbOK /\ RecOK(sched.rec) /\ SharedOK(sched)
    BY DEF QInv, SInv, TInv
<1>2. ~MHand(worker[w], i)
    BY <1>1, NoHand DEF ConsumePreload, ClaimPreload, QueryPreload, QueryPreloadFails,
       PickPreload, Preload, PreloadBusy, PreloadDeclines, SnapshotMaintenance,
       FinishBuild, LoseBuild, AbandonBuild, BlockBuild, Launch, TouchLaunch, At
<1>3. \E r : worker' = [worker EXCEPT ![w] = r]
    <2>1. CASE FinishBuild(w) \/ LoseBuild(w) \/ AbandonBuild(w) \/ BlockBuild(w) \/ Fail(w)
        BY <1>1, <2>1, ActionGoes DEF Goes, Counting, NotCounting
    <2>2. CASE \/ ConsumePreload(w) \/ PickPreload(w) \/ Preload(w) \/ PreloadBusy(w)
               \/ PreloadDeclines(w) \/ SnapshotMaintenance(w)
        BY <1>1, <2>2, SelectionGoes DEF Goes
    <2>3. CASE \/ ClaimPreload(w) \/ QueryPreload(w) \/ QueryPreloadFails(w)
               \/ Launch(w) \/ \E d \in Databases : TouchLaunch(w, d)
        BY <2>3 DEF ClaimPreload, QueryPreload, QueryPreloadFails, Stop, Launch, TouchLaunch
    <2> QED
        BY <2>1, <2>2, <2>3
<1>4. RecStays(i)
    <2>1. CASE \/ ConsumePreload(w) \/ PickPreload(w) \/ Preload(w) \/ PreloadBusy(w)
               \/ PreloadDeclines(w) \/ SnapshotMaintenance(w)
        BY <1>1, <2>1, SelectionRec, RecKeepsStays
    <2>2. CASE FinishBuild(w) \/ LoseBuild(w) \/ AbandonBuild(w) \/ BlockBuild(w) \/ Fail(w)
        BY <1>1, <2>2, ActionRec, RecKeepsStays DEF Counting, NotCounting
    <2>3. CASE Launch(w) \/ \E d \in Databases : TouchLaunch(w, d)
        BY <2>3 DEF Launch, TouchLaunch, RecStays
    <2>4. CASE ClaimPreload(w) \/ QueryPreload(w) \/ QueryPreloadFails(w)
        <3>1. PICK d \in Databases : d = worker[w].db
            BY <1>1, <2>4 DEF DbOK, ClaimPreload, QueryPreload, QueryPreloadFails, At
        <3>2. "preload" \in Classes /\ QueryOf("preload") = "queryP"
            BY DEF Classes, QueryOf
        <3>3. CASE ClaimPreload(w)
            <4>1. sched'.rec = Claimed(sched.rec, d, "preload")
                BY <1>1, <3>1, <3>3 DEF ClaimPreload, SharedOK
            <4> QED
                BY <1>1, <3>2, <4>1, ClaimedStep, RecKeepsStays
        <3>4. CASE QueryPreload(w) \/ QueryPreloadFails(w)
            <4>1. RunningIn(sched.rec, d, "preload")
                BY <3>1, <3>2, <3>4 DEF QInv, OwnsInv, QueryPreload, QueryPreloadFails, At
            <4>2. \/ sched'.rec = Completed(sched.rec, d, "preload")
                  \/ sched'.rec = Released(sched.rec, d, "preload")
                BY <1>1, <3>1, <3>4 DEF QueryPreload, QueryPreloadFails, SharedOK
            <4>3. RecKeepsBut(sched.rec, sched'.rec, d, "preload")
                BY <1>1, <3>2, <4>1, <4>2, CompletedStep, ReleasedStep DEF Ends
            <4> QED
                BY <4>3, RecKeepsStays
        <3> QED
            BY <2>4, <3>3, <3>4
    <2> QED
        BY <2>1, <2>2, <2>3, <2>4
<1> QED
    BY <1>1, <1>2, <1>3, <1>4, DebtOwn

\* An index whose debt is urgent becomes a candidate.
LEMMA JudgeUrgent ==
    ASSUME SchedulerAssumption, WorkHintsAssumption, QInv, Moves, NEW w \in Workers,
           Judge(w), NEW i \in Indexes, DebtAt(i)
    PROVE  DebtAt(i)'
<1>0. TInv /\ DbOK /\ RecOK(sched.rec)
    BY DEF QInv, SInv, TInv
<1>1. /\ DOMAIN worker[w] = Fields /\ worker[w].pc = "judge"
      /\ faults' = faults /\ work' = work
    BY <1>0, JudgeForm
<1>2. PICK j \in worker[w].oids : \E q :
        worker' = [worker EXCEPT ![w] = q] /\ JudgedTo(w, j, q)
    BY <1>0, JudgeForm
<1>2a. PICK q : worker' = [worker EXCEPT ![w] = q] /\ JudgedTo(w, j, q)
    BY <1>2
<1>3. PICK t, r, c, b :
        /\ t = TokenOf(worker[w].tokens, j)
        /\ r = [worker[w] EXCEPT !.oids = @ \ {j}]
        /\ c = [NoCandidate EXCEPT !.index = j, !.sequence = t.sequence]
        /\ b = AsCandidate(j, work[j], t)
    OBVIOUS
<1>4. PICK o, m, l : /\ o = [r EXCEPT !.candidates = @ \cup {b}]
                     /\ m = [r EXCEPT !.pc = "markLow", !.chosen = c]
                     /\ l = [r EXCEPT !.pc = "clearIdle", !.chosen = c]
    OBVIOUS
<1>5. \/ q = Onward(o)
      \/ ~Urgent(work[j]) /\ q \in {m, l, Onward(r)}
    BY <1>2a, <1>3, <1>4 DEF JudgedTo
<1>6. /\ r.oids = worker[w].oids \ {j} /\ r.candidates = worker[w].candidates
      /\ o.oids = r.oids /\ o.candidates = r.candidates \cup {b}
      /\ m.pc = "markLow" /\ m.oids = r.oids /\ m.candidates = r.candidates
      /\ l.pc = "clearIdle" /\ l.oids = r.oids /\ l.candidates = r.candidates
      /\ DOMAIN r = Fields /\ DOMAIN o = Fields
    BY <1>1, <1>3, <1>4 DEF Fields
<1>7. b.index = j
    BY <1>3 DEF AsCandidate
<1>8. ASSUME Urgent(work[i]), MHand(worker[w], i)
      PROVE  MHand(q, i)
    <2>1. i \in worker[w].oids \/ \E d \in worker[w].candidates : d.index = i
        BY <1>1, <1>8 DEF MHand
    <2>2. CASE q = Onward(o)
        <3>1. i \in o.oids \/ \E d \in o.candidates : d.index = i
            BY <1>6, <1>7, <2>1
        <3> QED
            BY <1>6, <2>2, <3>1, OnwardKeeps DEF MHand
    <2>3. CASE ~Urgent(work[j]) /\ q \in {m, l, Onward(r)}
        <3>1. i \in r.oids \/ \E d \in r.candidates : d.index = i
            BY <1>6, <1>8, <2>1, <2>3
        <3>2. CASE q = Onward(r)
            BY <1>6, <3>1, <3>2, OnwardKeeps DEF MHand
        <3>3. CASE q = m \/ q = l
            BY <1>6, <3>1, <3>3 DEF MHand
        <3> QED
            BY <2>3, <3>2, <3>3
    <2> QED
        BY <1>5, <2>2, <2>3
<1>9. RecStays(i)
    BY <1>0, SelectionRec, RecKeepsStays
<1> QED
    BY <1>0, <1>1, <1>2a, <1>8, <1>9, DebtOwn

\* An index whose relation is locked was found by a hint that is still there, or
\* waits for reconciliation.
LEMMA LockedUrgent ==
    ASSUME SchedulerAssumption, WorkHintsAssumption, KInv, Moves, NEW w \in Workers,
           JudgeLocked(w),
           NEW i \in Indexes, DebtAt(i)
    PROVE  DebtAt(i)'
<1>1. /\ QInv /\ TInv /\ DbOK /\ RecOK(sched.rec) /\ DOMAIN worker[w] = Fields
      /\ worker[w].pc = "judge" /\ sched' = sched /\ work' = work
      /\ DOMAIN faults = {"terminations", "missed", "unwarmed"}
      /\ KnowsOf(worker[w], sched, work)
    BY DEF KInv, QInv, SInv, TInv, FaultsOK, IInv, WorkersOK, RecordOK, JudgeLocked, At
<1>2. PICK j \in worker[w].oids :
        /\ worker' = [worker EXCEPT ![w] = Onward([worker[w] EXCEPT !.oids = @ \ {j}])]
        /\ faults' = IF TokenOf(worker[w].tokens, j) # FreeHint THEN faults
                     ELSE [faults EXCEPT !.missed = @ \cup {j}]
    BY DEF JudgeLocked
<1>3. PICK r : r = [worker[w] EXCEPT !.oids = @ \ {j}]
    OBVIOUS
<1>4. /\ r.oids = worker[w].oids \ {j} /\ r.candidates = worker[w].candidates
      /\ DOMAIN r = Fields
    BY <1>1, <1>3 DEF Fields
<1>5. PICK q : q = Onward(r) /\ worker' = [worker EXCEPT ![w] = q]
    BY <1>2, <1>3
<1>6. ASSUME Urgent(work[i]), MHand(worker[w], i), i \notin faults'.missed
      PROVE  MHand(q, i) \/ Announced(sched', i, "maintenance")
    <2>1. i \in worker[w].oids \/ \E d \in worker[w].candidates : d.index = i
        BY <1>1, <1>6 DEF MHand
    <2>2. CASE i \in r.oids \/ \E d \in r.candidates : d.index = i
        BY <1>4, <1>5, <2>2, OnwardKeeps DEF MHand
    <2>3. CASE i = j
        <3>1. TokenOf(worker[w].tokens, i) # FreeHint
            BY <1>1, <1>2, <1>6, <2>3
        <3>2. PICK h \in worker[w].tokens : h.index = i
            BY <3>1, TokenOfOne
        <3>3. Flagged(sched, i)
            BY <1>1, <1>6, <3>2 DEF KnowsOf, TokenKnown
        <3> QED
            BY <1>1, <3>3 DEF Flagged, Announced
    <2> QED
        BY <1>4, <2>1, <2>2, <2>3
<1>7. RecStays(i)
    BY <1>1, SelectionRec, RecKeepsStays
<1>8. faults.missed \subseteq faults'.missed
    BY <1>1, <1>2
<1> QED
    BY <1>1, <1>5, <1>6, <1>7, <1>8, DebtOwn

\* When the reading fails, an index of the list has its hint or waits for
\* reconciliation.
LEMMA JudgeFailsUrgent ==
    ASSUME SchedulerAssumption, WorkHintsAssumption, KInv, Moves, NEW w \in Workers,
           JudgeFails(w), NEW i \in Indexes, DebtAt(i)
    PROVE  DebtAt(i)'
<1>1. /\ QInv /\ TInv /\ DbOK /\ RecOK(sched.rec)
      /\ worker[w].pc = "judge" /\ sched' = sched /\ work' = work
      /\ DOMAIN faults = {"terminations", "missed", "unwarmed"}
      /\ KnowsOf(worker[w], sched, work)
    BY DEF KInv, QInv, SInv, TInv, FaultsOK, JudgeFails, At
<1>2. /\ worker' = [worker EXCEPT ![w] = OffWorker]
      /\ faults'.missed = faults.missed \cup Unhinted(w)
    BY <1>1 DEF JudgeFails, Stop
<1>3. ASSUME Urgent(work[i]), MHand(worker[w], i), i \notin faults'.missed
      PROVE  Announced(sched', i, "maintenance")
    <2>1. i \notin Unhinted(w)
        BY <1>2, <1>3
    <2>2. CASE i \in worker[w].oids
        <3>1. TokenOf(worker[w].tokens, i) # FreeHint
            BY <2>1, <2>2 DEF Unhinted
        <3>2. PICK h \in worker[w].tokens : h.index = i
            BY <3>1, TokenOfOne
        <3>3. Flagged(sched, i)
            BY <1>1, <1>3, <3>2 DEF KnowsOf, TokenKnown
        <3> QED
            BY <1>1, <3>3 DEF Flagged, Announced
    <2>3. ASSUME NEW c \in worker[w].candidates, c.index = i
          PROVE  Announced(sched', i, "maintenance")
        <3>1. c.hinted
            BY <2>1, <2>3 DEF Unhinted
        <3>2. Flagged(sched, i)
            BY <1>1, <1>3, <2>3, <3>1 DEF KnowsOf, CandidateKnown, TokenKnown
        <3> QED
            BY <1>1, <3>2 DEF Flagged, Announced
    <2> QED
        BY <1>1, <1>3, <2>2, <2>3 DEF MHand
<1>4. RecStays(i)
    BY <1>1, SelectionRec, RecKeepsStays
<1>5. faults.missed \subseteq faults'.missed
    BY <1>2
<1> QED
    BY <1>1, <1>2, <1>3, <1>4, <1>5, DebtOwn

LEMMA LoopUrgent ==
    ASSUME SchedulerAssumption, WorkHintsAssumption, QInv, Moves, NEW w \in Workers,
           MarkLow(w) \/ ClearIdle(w), NEW i \in Indexes, DebtAt(i)
    PROVE  DebtAt(i)'
<1>1. /\ TInv /\ DbOK /\ RecOK(sched.rec) /\ DOMAIN worker[w] = Fields
      /\ worker[w].pc \in {"markLow", "clearIdle"} /\ faults' = faults
    BY DEF QInv, SInv, TInv, IInv, WorkersOK, RecordOK, MarkLow, ClearIdle, At
<1>2. PICK q : q = Onward(worker[w]) /\ worker' = [worker EXCEPT ![w] = q]
    BY DEF MarkLow, ClearIdle
<1>3. MHand(worker[w], i) => MHand(q, i)
    <2>1. MHand(worker[w], i) =>
            i \in worker[w].oids \/ \E d \in worker[w].candidates : d.index = i
        BY <1>1 DEF MHand
    <2> QED
        BY <1>1, <1>2, <2>1, OnwardKeeps DEF MHand
<1>4. RecStays(i)
    BY <1>1, SelectionRec, RecKeepsStays
<1> QED
    BY <1>1, <1>2, <1>3, <1>4, DebtOwn

\* A candidate is chosen, marked again, or still has the hint it was found by.
LEMMA ApplyUrgent ==
    ASSUME SchedulerAssumption, WorkHintsAssumption, KInv, Moves, NEW w \in Workers,
           Apply(w), NEW i \in Indexes, DebtAt(i)
    PROVE  DebtAt(i)'
<1>1. /\ QInv /\ TInv /\ IInv /\ DbOK /\ RecOK(sched.rec) /\ SharedOK(sched)
      /\ worker[w].pc = "apply" /\ faults' = faults /\ work' = work
      /\ KnowsOf(worker[w], sched, work)
    BY DEF KInv, QInv, SInv, TInv, Apply, At
<1>2. PICK c \in worker[w].candidates : c = Best(w)
    BY <1>1, BestIsCandidate
<1>3. PICK cs : cs = worker[w].candidates \ {c}
    OBVIOUS
<1>4. \/ Choosing(w, cs, c) /\ worker[w].chosen = NoCandidate
      \/ ~c.hinted /\ sched' = Marked(sched, c.index, {"maintenance"})
           /\ Choosing(w, cs, worker[w].chosen)
      \/ c.hinted /\ sched' = sched /\ Choosing(w, cs, worker[w].chosen)
    BY <1>2, <1>3 DEF Apply
<1>5. PICK q : worker' = [worker EXCEPT ![w] = q]
    BY <1>4 DEF Choosing
<1>6. worker'[w] = q
    BY <1>1, <1>5, OthersStay
<1>7. ASSUME Urgent(work[i]), MHand(worker[w], i)
      PROVE  MHand(q, i) \/ Announced(sched', i, "maintenance")
    <2>1. \/ \E d \in cs : d.index = i
          \/ c.index = i
          \/ worker[w].chosen.index = i
        BY <1>1, <1>3, <1>7 DEF MHand
    <2>2. cs \in SUBSET worker[w].candidates
        BY <1>3
    <2>3. CASE Choosing(w, cs, c) /\ worker[w].chosen = NoCandidate
        <3>1. worker[w].chosen.index # i
            BY <2>3 DEF NoCandidate, NoIndex, WorkHintsAssumption
        <3>2. \E d \in cs \cup {c} : d.index = i
            BY <2>1, <3>1
        <3> QED
            BY <1>1, <1>6, <2>2, <2>3, <3>2, ChoosingShrinks
    <2>4. CASE Choosing(w, cs, worker[w].chosen) /\ c.index # i
        <3>1. \E d \in cs \cup {worker[w].chosen} : d.index = i
            BY <2>1, <2>4
        <3> QED
            BY <1>1, <1>6, <2>2, <2>4, <3>1, ChoosingShrinks
    <2>5. CASE c.index = i /\ ~c.hinted /\ sched' = Marked(sched, c.index, {"maintenance"})
        <3>1. {"maintenance"} \in SUBSET Classes
            BY DEF Classes
        <3> QED
            BY <1>1, <2>5, <3>1, MarkedRec
    <2>6. CASE c.index = i /\ c.hinted /\ sched' = sched
        <3>1. Flagged(sched, i)
            BY <1>1, <1>2, <1>7, <2>6 DEF KnowsOf, CandidateKnown, TokenKnown
        <3> QED
            BY <2>6, <3>1 DEF Flagged, Announced
    <2> QED
        BY <1>4, <2>3, <2>4, <2>5, <2>6
<1>8. RecStays(i)
    BY <1>1, SelectionRec, RecKeepsStays
<1> QED
    BY <1>1, <1>5, <1>7, <1>8, DebtOwn

\* An action finds no urgent debt, or leaves it announced.
LEMMA ActionUrgent ==
    ASSUME SchedulerAssumption, WorkHintsAssumption, TableSuffices, KInv, Moves,
           NEW w \in Workers,
           \/ Rotate(w) \/ Seal(w) \/ Restructure(w) \/ CompleteSemantic(w)
           \/ TruncateTail(w) \/ FoldHot(w) \/ StartBuild(w) \/ NothingDone(w)
           \/ Defer(w) \/ Stall(w) \/ DeferToBuild(w),
           NEW i \in Indexes, DebtAt(i)
    PROVE  DebtAt(i)'
<1>1. /\ QInv /\ WorkOK /\ TInv /\ DbOK /\ RecOK(sched.rec) /\ SharedOK(sched)
      /\ KnowsOf(worker[w], sched, work)
    BY DEF KInv, QInv, SInv, TInv
<1>2. faults' = faults
    BY DEF Rotate, Seal, Restructure, CompleteSemantic, PublishedMarked, TruncateTail,
           FoldHot, StartBuild, NothingDone, Defer, Stall, DeferToBuild
<1>3. worker[w].pc = "execute"
    BY DEF Rotate, Seal, Restructure, CompleteSemantic, TruncateTail, FoldHot, StartBuild,
           NothingDone, Defer, Stall, DeferToBuild, SealTurn, RestTurn, Jumps,
           SemanticTurn, RootTurn, BuildTurn, At
<1>4. PICK j : j = worker[w].chosen.index
    OBVIOUS
<1>5. j \in Indexes
    BY <1>1, <1>3, <1>4, ActsOnIndex DEF Acting
<1>6. MHand(worker[w], i) => i = j
    BY <1>1, <1>3, <1>4 DEF MHand, TInv, IInv, WorkersOK, RecordOK
<1>7. PICK r : worker' = [worker EXCEPT ![w] = r]
    BY <1>1, ActionGoes DEF Goes, Counting, NotCounting
<1>8. RecStays(i)
    BY <1>1, ActionRec, RecKeepsStays DEF Counting, NotCounting
<1>9. ASSUME Urgent(work[j])
      PROVE  Announced(sched', j, "maintenance")
    <2>1. CASE Rotate(w) \/ Seal(w) \/ Restructure(w) \/ CompleteSemantic(w)
        <3>1. Flagged(sched', j)
            BY <1>1, <1>4, <2>1, MarkingDebt
        <3> QED
            BY <3>1 DEF Flagged, Announced
    <2>2. CASE TruncateTail(w) \/ FoldHot(w) \/ StartBuild(w) \/ NothingDone(w)
        BY <1>4, <1>9, <2>2, RootNotUrgent DEF TruncateTail, FoldHot, StartBuild,
           NothingDone, Found
    <2>3. CASE Defer(w) \/ DeferToBuild(w)
        <3>1. PICK s : /\ s = Marked(sched, j, {"maintenance"}) \/ s = Deferred(sched, j)
                       /\ Uncounted(w, s)
            BY <1>4, <2>3 DEF Defer, DeferToBuild
        <3>2. PICK F : F = {"maintenance"}
            OBVIOUS
        <3>3. F \in SUBSET Classes /\ F # {} /\ "maintenance" \in F
            BY <3>2 DEF Classes
        <3>4. Announced(s, j, "maintenance") /\ SharedOK(s) /\ RecOK(s.rec)
            BY <1>1, <1>5, <3>1, <3>2, <3>3, MarkedRec, DeferredRec, MarkedStep,
               DeferredStep, AfterOK DEF RecKeeps
        <3>5. CASE worker[w].chosen.hinted
            BY <3>1, <3>4, <3>5 DEF Uncounted
        <3>6. CASE ~worker[w].chosen.hinted
            BY <1>4, <1>5, <3>1, <3>4, <3>6, UncountedRec
        <3> QED
            BY <3>5, <3>6
    <2>4. CASE Stall(w)
        <3>1. Uncounted(w, sched)
            BY <2>4 DEF Stall
        <3>2. CASE worker[w].chosen.hinted
            <4>1. sched' = sched
                BY <3>1, <3>2 DEF Uncounted
            <4>2. Flagged(sched, j)
                BY <1>1, <1>4, <1>9, <3>2 DEF KnowsOf, CandidateKnown, TokenKnown
            <4> QED
                BY <4>1, <4>2 DEF Flagged, Announced
        <3>3. CASE ~worker[w].chosen.hinted
            BY <1>1, <1>4, <1>5, <3>1, <3>3, UncountedRec
        <3> QED
            BY <3>2, <3>3
    <2> QED
        BY <2>1, <2>2, <2>3, <2>4
<1> QED
    BY <1>1, <1>2, <1>6, <1>7, <1>8, <1>9, DebtOwn

\* An action that fails leaves the hint, or its index to reconciliation.
LEMMA FailUrgent ==
    ASSUME SchedulerAssumption, WorkHintsAssumption, KInv, Moves, NEW w \in Workers,
           Fail(w), worker[w].pc = "execute", NEW i \in Indexes, DebtAt(i)
    PROVE  DebtAt(i)'
<1>1. /\ TInv /\ DOMAIN faults = {"terminations", "missed", "unwarmed"}
      /\ worker[w].candidates = {} /\ KnowsOf(worker[w], sched, work)
    BY DEF KInv, QInv, SInv, FaultsOK, TInv, IInv, WorkersOK, RecordOK
<1>2. /\ sched' = sched /\ worker' = [worker EXCEPT ![w] = OffWorker]
      /\ faults' = IF worker[w].chosen.hinted THEN faults
                   ELSE [faults EXCEPT !.missed = @ \cup {worker[w].chosen.index}]
    BY DEF Fail, Stop, At
<1>3. faults.missed \subseteq faults'.missed
    BY <1>1, <1>2
<1>4. ASSUME Urgent(work[i]), MHand(worker[w], i), i \notin faults'.missed
      PROVE  Announced(sched', i, "maintenance")
    <2>1. worker[w].chosen.index = i
        BY <1>1, <1>4 DEF MHand
    <2>2. worker[w].chosen.hinted
        BY <1>1, <1>2, <1>4, <2>1
    <2>3. Flagged(sched, i)
        BY <1>1, <1>4, <2>1, <2>2 DEF KnowsOf, CandidateKnown, TokenKnown
    <2> QED
        BY <1>2, <2>3 DEF Flagged, Announced
<1>5. RecStays(i)
    BY <1>2 DEF RecStays
<1> QED
    BY <1>1, <1>2, <1>3, <1>4, <1>5, DebtOwn

\* A claim that is granted announces every index of the database; one that is not
\* leaves those of the hints in hand.
LEMMA ClaimUrgent ==
    ASSUME SchedulerAssumption, WorkHintsAssumption, EntriesSuffice, QInv, Moves,
           NEW w \in Workers, ClaimMaintenance(w), faults.terminations = 0,
           NEW i \in Indexes, DebtAt(i)
    PROVE  DebtAt(i)'
<1>1. /\ SInv /\ TInv /\ DbOK /\ RecOK(sched.rec) /\ SharedOK(sched)
      /\ worker[w].pc = "claimM" /\ faults' = faults
    BY DEF QInv, SInv, TInv, ClaimMaintenance, At
<1>2. PICK d \in Databases : d = worker[w].db
    BY <1>1 DEF DbOK
<1>3. /\ sched'.rec = Claimed(sched.rec, d, "maintenance") /\ "maintenance" \in Classes
      /\ DbOf[i] \in Databases
    BY <1>1, <1>2 DEF ClaimMaintenance, SharedOK, Classes, SchedulerAssumption
<1>4. /\ RecKeepsBut(sched.rec, sched'.rec, d, "maintenance")
      /\ ~Grants(sched.rec, d, "maintenance") => sched'.rec = sched.rec
      /\ Grants(sched.rec, d, "maintenance") => RunningIn(sched'.rec, d, "maintenance")
    <2>1. ~AllBusy(sched.rec, d)
        BY <1>1, NeverAllBusy DEF Querying
    <2> QED
        BY <1>1, <1>3, <2>1, ClaimedStep
<1>5. CASE DbOf[i] = d /\ Grants(sched.rec, d, "maintenance")
    BY <1>4, <1>5 DEF DebtAt, MKnown, Announced
<1>6. CASE DbOf[i] # d \/ ~Grants(sched.rec, d, "maintenance")
    <2>1. RecStays(i)
        <3>1. CASE DbOf[i] # d
            BY <1>4, <3>1, RecKeepsStays
        <3>2. CASE sched'.rec = sched.rec
            BY <3>2 DEF RecStays
        <3> QED
            BY <1>4, <1>6, <3>1, <3>2
    <2>2. ~MHand(worker[w], i)
        BY <1>1, NoHand
    <2>3. PICK r : worker' = [worker EXCEPT ![w] = r]
        BY DEF ClaimMaintenance
    <2> QED
        BY <1>1, <2>1, <2>2, <2>3, DebtOwn
<1> QED
    BY <1>5, <1>6

\* The catalog query finds every index of the database; one that fails will be
\* made again.
LEMMA QueryUrgent ==
    ASSUME SchedulerAssumption, WorkHintsAssumption, QInv, Moves, NEW w \in Workers,
           QueryMaintenance(w) \/ QueryMaintenanceFails(w), faults.terminations = 0,
           NEW i \in Indexes, DebtAt(i)
    PROVE  DebtAt(i)'
<1>1. /\ TInv /\ DbOK /\ RecOK(sched.rec) /\ SharedOK(sched) /\ DOMAIN worker[w] = Fields
      /\ worker[w].pc = "queryM" /\ DOMAIN faults = {"terminations", "missed", "unwarmed"}
    BY DEF QInv, SInv, TInv, FaultsOK, IInv, WorkersOK, RecordOK, QueryMaintenance,
       QueryMaintenanceFails, At
<1>2. PICK d \in Databases : d = worker[w].db
    BY <1>1 DEF DbOK
<1>3. "maintenance" \in Classes /\ QueryOf("maintenance") = "queryM"
    BY DEF Classes, QueryOf
<1>4. RunningIn(sched.rec, d, "maintenance")
    BY <1>1, <1>2, <1>3 DEF QInv, OwnsInv
<1>5. \/ QueryMaintenance(w) /\ sched'.rec = Completed(sched.rec, d, "maintenance")
      \/ QueryMaintenanceFails(w) /\ sched'.rec = Released(sched.rec, d, "maintenance")
    BY <1>1, <1>2 DEF QueryMaintenance, QueryMaintenanceFails, SharedOK
<1>6. CASE DbOf[i] = d /\ QueryMaintenance(w)
    <2>1. PICK c, r : /\ r = [worker[w] EXCEPT !.oids = Mine(d), !.cursor = c]
                      /\ worker' = [worker EXCEPT ![w] = Onward(r)]
        BY <1>2, <1>6 DEF QueryMaintenance
    <2>2. DOMAIN r = Fields /\ r.oids = Mine(d)
        BY <1>1, <2>1 DEF Fields
    <2>3. MHand(Onward(r), i)
        BY <1>6, <2>2, OnwardKeeps DEF Mine
    <2>4. worker'[w] = Onward(r)
        BY <1>1, <2>1, OthersStay
    <2> QED
        BY <2>3, <2>4 DEF DebtAt, MKnown
<1>7. CASE DbOf[i] = d /\ QueryMaintenanceFails(w)
    <2>1. sched'.rec = Released(sched.rec, d, "maintenance")
        BY <1>1, <1>2, <1>7 DEF QueryMaintenanceFails, SharedOK
    <2>2. Pending(sched'.rec, d, "maintenance")
        BY <1>1, <1>3, <1>4, <2>1, ReleasedStep
    <2> QED
        BY <1>7, <2>2 DEF DebtAt, MKnown, Announced
<1>8. CASE DbOf[i] # d
    <2>1. RecKeepsBut(sched.rec, sched'.rec, d, "maintenance")
        BY <1>1, <1>3, <1>4, <1>5, CompletedStep, ReleasedStep DEF Ends
    <2>2. RecStays(i)
        BY <1>8, <2>1, RecKeepsStays
    <2>3. ~MHand(worker[w], i)
        BY <1>1, NoHand
    <2>4. PICK r : worker' = [worker EXCEPT ![w] = r]
        BY DEF QueryMaintenance, QueryMaintenanceFails, Stop
    <2>5. faults' = faults \/ faults' = [faults EXCEPT !.missed = @ \ Mine(d)]
        BY <1>2 DEF QueryMaintenance, QueryMaintenanceFails
    <2>6. i \in faults.missed => i \in faults'.missed
        BY <1>1, <1>8, <2>5 DEF Mine
    <2> QED
        BY <1>1, <2>2, <2>3, <2>4, <2>6, DebtOwn
<1> QED
    BY <1>5, <1>6, <1>7, <1>8

LEMMA NextDInv ==
    ASSUME SchedulerAssumption, WorkHintsAssumption, EntriesSuffice, TableSuffices,
           DInv, [Next]_vars
    PROVE  DInv'
<1>1. QInv' /\ TInv'
    BY NextQInv DEF DInv, KInv, QInv, SInv
<1>2. KInv /\ QInv /\ WorkOK /\ TInv /\ FaultsOK
    BY DEF DInv, KInv, QInv, SInv
<1>3. CASE Next
    <2>1. /\ faults'.terminations = 0 => faults.terminations = 0
          /\ \A w \in Workers : Terminate(w) => faults'.terminations # 0
        BY <1>2, <1>3, FaultsMove
    <2>2. Moves /\ WorkOK' /\ \A w \in Workers : KnowsOf(worker[w], sched, work)'
        BY <1>1, <1>2, <1>3, NextKnows
    <2>3. ASSUME faults'.terminations = 0, NEW i \in Indexes
          PROVE  DebtAt(i)'
        <3>1. faults.terminations = 0 /\ DebtAt(i)
            BY <2>1, <2>3 DEF DInv
        <3>2. CASE Environment
            BY <1>2, <2>2, <3>1, <3>2, EnvironmentUrgent
        <3>3. ASSUME NEW w \in Workers, WorkerStep(w) \/ Setback(w)
              PROVE  DebtAt(i)'
            <4>1. CASE QueryMaintenance(w) \/ QueryMaintenanceFails(w) \/ ClaimMaintenance(w)
                BY <1>2, <2>2, <3>1, <4>1, ClaimUrgent, QueryUrgent
            <4>2. CASE faults.missed \subseteq faults'.missed
                <5>1. CASE \/ ConsumePreload(w) \/ ClaimPreload(w) \/ QueryPreload(w)
                           \/ QueryPreloadFails(w) \/ PickPreload(w) \/ Preload(w)
                           \/ PreloadBusy(w) \/ PreloadDeclines(w) \/ SnapshotMaintenance(w)
                           \/ FinishBuild(w) \/ LoseBuild(w) \/ AbandonBuild(w) \/ BlockBuild(w)
                    BY <1>2, <2>2, <3>1, <4>2, <5>1, OtherUrgent
                <5>2. CASE \/ Judge(w) \/ JudgeLocked(w) \/ JudgeFails(w) \/ MarkLow(w)
                           \/ ClearIdle(w) \/ Apply(w)
                    BY <1>2, <2>2, <3>1, <5>2, JudgeUrgent, LockedUrgent, JudgeFailsUrgent,
                       LoopUrgent, ApplyUrgent
                <5>3. CASE \/ Rotate(w) \/ Seal(w) \/ Restructure(w) \/ CompleteSemantic(w)
                           \/ TruncateTail(w) \/ FoldHot(w) \/ StartBuild(w) \/ NothingDone(w)
                           \/ Defer(w) \/ Stall(w) \/ DeferToBuild(w)
                    BY <1>2, <2>2, <3>1, <5>3, ActionUrgent
                <5>4. CASE Fail(w)
                    <6>1. worker[w].pc \in {"execute", "preload", "build"}
                        BY <5>4 DEF Fail, At
                    <6> QED
                        BY <1>2, <2>2, <3>1, <4>2, <5>4, <6>1, FailUrgent, OtherUrgent
                <5>5. ~Terminate(w)
                    BY <2>1, <2>3
                <5> QED
                    BY <3>3, <4>1, <5>1, <5>2, <5>3, <5>4, <5>5 DEF WorkerStep, Setback
            <4> QED
                BY <1>2, <3>3, <4>1, <4>2, FaultsStep
        <3>4. ASSUME NEW w \in Workers, Launch(w) \/ \E d \in Databases : TouchLaunch(w, d)
              PROVE  DebtAt(i)'
            <4>1. faults' = faults
                BY <3>4 DEF Launch, TouchLaunch
            <4> QED
                BY <1>2, <2>2, <3>1, <3>4, <4>1, OtherUrgent
        <3> QED
            BY <1>3, <3>2, <3>3, <3>4 DEF Next
    <2> QED
        BY <1>1, <2>2, <2>3 DEF DInv, KInv
<1>4. CASE UNCHANGED vars
    <2>1. sched' = sched /\ work' = work /\ worker' = worker /\ faults' = faults
        BY <1>4 DEF vars
    <2> QED
        BY <1>1, <1>2, <2>1 DEF DInv, KInv, WorkOK, DebtAt, MKnown
<1> QED
    BY <1>3, <1>4

LEMMA AlwaysDInv ==
    ASSUME SchedulerAssumption, WorkHintsAssumption, EntriesSuffice, TableSuffices
    PROVE  Spec => []DInv
<1>1. Init => DInv
    <2> SUFFICES ASSUME Init
                 PROVE  DInv
        OBVIOUS
    <2>1. QInv
        BY InitSInv DEF QInv, OwnsInv, Init, OffWorker, QueryOf
    <2>2. WorkOK
        BY DEF Init, WorkOK
    <2>3. ASSUME NEW w \in Workers
          PROVE  KnowsOf(worker[w], sched, work)
        <3>1. SharedOK(sched)
            BY InitShared
        <3>2. /\ worker[w].pc = "off" /\ worker[w].tokens = {}
              /\ worker[w].candidates = {} /\ worker[w].chosen = NoCandidate
            BY DEF Init, OffWorker
        <3> QED
            BY <3>1, <3>2, NoneKnown DEF KnowsOf, Clears
    <2>4. /\ sched.rec.entries = [e \in Entries |-> FreeEntry]
          /\ FreeEntry.db = NoDb
        BY DEF Init, FreeEntry
    <2>5. ASSUME NEW i \in Indexes
          PROVE  Announced(sched, i, "maintenance")
        <3>1. DbOf[i] # NoDb
            BY DEF SchedulerAssumption, NoDb
        <3> QED
            BY <2>4, <3>1 DEF Announced, Pending
    <2> QED
        BY <2>1, <2>2, <2>3, <2>5 DEF DInv, KInv, DebtAt, MKnown
<1>2. DInv /\ [Next]_vars => DInv'
    BY NextDInv
<1> QED
    BY <1>1, <1>2, PTL DEF Spec

\* Unless a worker was terminated from outside, an L0 that must be rotated or
\* sealed is hinted, in the hands of a worker or found by the next
\* reconciliation, although a worker may clear the hint of an index that it read,
\* or started to build the accelerator of, before a writer filled L0: the mark
\* gave the hint a sequence newer than the one the worker read, so the clear
\* leaves it alone, and a hint of that sequence never comes back.
THEOREM UrgentDebtIsRemembered ==
    ASSUME SchedulerAssumption, WorkHintsAssumption, EntriesSuffice, TableSuffices
    PROVE  Spec => []UrgentDebtRemembered
<1>1. DInv => UrgentDebtRemembered
    <2> SUFFICES ASSUME DInv, faults.terminations = 0,
                        NEW i \in DOMAIN work \ faults.missed, Urgent(work[i])
                 PROVE  \/ "maintenance" \in HintOf(sched.hints, i).flags
                        \/ MaintenanceInHand(i)
                        \/ ReconcilePending(i, "maintenance")
        BY DEF UrgentDebtRemembered
    <2>1. /\ i \in Indexes /\ DbOf[i] \in Databases /\ "maintenance" \in Classes
          /\ QueryOf("maintenance") = "queryM"
        BY DEF DInv, KInv, WorkOK, SchedulerAssumption, Classes, QueryOf
    <2>2. MKnown(i)
        BY <2>1 DEF DInv, DebtAt
    <2>3. DOMAIN worker = Workers /\ RunInv /\ faults.terminations = 0
        BY DEF DInv, KInv, QInv, SInv, TInv, IInv, WorkersOK
    <2>4. RunningIn(sched.rec, DbOf[i], "maintenance") => MaintenanceInHand(i)
        BY <2>1, <2>3 DEF RunInv, MaintenanceInHand
    <2>5. Pending(sched.rec, DbOf[i], "maintenance") => ReconcilePending(i, "maintenance")
        BY DEF Pending, ReconcilePending
    <2>6. (\E w \in Workers : MHand(worker[w], i)) => MaintenanceInHand(i)
        BY <2>3 DEF MHand, MaintenanceInHand
    <2> QED
        BY <2>2, <2>4, <2>5, <2>6 DEF MKnown, Announced
<1> QED
    BY <1>1, AlwaysDInv, PTL

=============================================================================
