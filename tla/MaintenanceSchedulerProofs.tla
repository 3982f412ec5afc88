---------------------- MODULE MaintenanceSchedulerProofs ----------------------
(***************************************************************************)
(* Proofs about MaintenanceScheduler, for any indexes, databases, workers  *)
(* and table sizes: who holds the session lock of an index.                *)
(***************************************************************************)
EXTENDS MaintenanceScheduler, WellFoundedInduction, TLAPS

(***************************************************************************)
(* The inductive invariant                                                 *)
(***************************************************************************)
\* Where a worker holds the session lock of the index it has chosen, if any.
Selected == {"pickP", "preload", "apply", "execute"}

Held(r) == IF r.pc \in Selected THEN r.chosen.index ELSE NoIndex

Fields == {"pc", "db", "tokens", "oids", "claimed", "candidates", "cursor",
           "chosen", "preloaded"}

\* Where a worker acts on the index it has chosen.
Acting == {"preload", "markLow", "clearIdle", "execute", "build"}

\* A worker looks at each index of its list once, has chosen nothing before it
\* starts, and has candidates only while it selects.
RecordOK(r) ==
  /\ DOMAIN r = Fields
  /\ DOMAIN r.chosen = DOMAIN NoCandidate
  /\ r.oids \subseteq Indexes
  /\ \A c \in r.candidates : /\ c.index \in Indexes \ r.oids
                             /\ c.optional \in BOOLEAN
                             /\ DOMAIN c = DOMAIN NoCandidate
  /\ \A c, d \in r.candidates : c.index = d.index => c = d
  /\ r.pc \notin {"judge", "markLow", "clearIdle", "apply"} => r.candidates = {}
  /\ r.pc = "apply" => r.candidates # {} /\ r.oids = {}
  /\ r.pc \notin Selected \cup {"markLow", "clearIdle", "build"}
       => r.chosen = NoCandidate
  /\ r.chosen = NoCandidate \/ r.chosen.index \in Indexes
  /\ r.pc \in Acting => r.chosen.index \in Indexes
  /\ r.pc = "claimP" => r.oids \subseteq Mine(r.db)

WorkersOK ==
  /\ DOMAIN worker = Workers
  /\ \A w \in Workers : RecordOK(worker[w])

LocksOK == lock \in [Indexes -> Workers \cup {NoWorker}]

IInv ==
  /\ WorkersOK
  /\ LocksOK
  /\ LockMatchesAction

(***************************************************************************)
(* The order of candidates                                                 *)
(***************************************************************************)
\* A set of indexes has a least one.
LEMMA LeastIndex ==
    ASSUME NEW F, F # {}, \A v \in F : v.index \in Nat
    PROVE  \E v \in F : \A u \in F : v.index <= u.index
<1>1. PICK N : N = { v.index : v \in F }
    OBVIOUS
<1>2. N \subseteq Nat /\ N # {}
    BY <1>1
<1>3. PICK n \in N : \A m \in N : ~(<<m, n>> \in OpToRel(<, Nat))
    BY <1>2, NatLessThanWellFounded, WFMin
<1>4. \A m \in N : ~(m < n)
    BY <1>2, <1>3 DEF OpToRel
<1>5. PICK v \in F : n = v.index
    BY <1>1
<1>6. ASSUME NEW u \in F
      PROVE  v.index <= u.index
    <2>1. u.index \in N
        BY <1>1
    <2>2. v.index \in Nat /\ u.index \in Nat /\ ~(u.index < v.index)
        BY <1>4, <1>5, <2>1
    <2> QED
        BY <2>2
<1> QED
    BY <1>6

\* Whatever candidates are free, one of them comes before all others: the
\* order (mandatory debt, the round after the last index served, the index) is
\* total and has a first element in every set.
LEMMA BestExists ==
    ASSUME NEW F, F # {}, NEW c,
           \A v \in F : v.index \in Nat /\ v.optional \in BOOLEAN,
           \A u, v \in F : u.index = v.index => u = v
    PROVE  \E v \in F : \A u \in F \ {v} : Before(v, u, c)
<1>1. PICK S : S = { v \in F : ~v.optional }
    OBVIOUS
<1>2. PICK G : G = IF S = {} THEN F ELSE S
    OBVIOUS
<1>3. PICK A : A = { v \in G : v.index > c }
    OBVIOUS
<1>4. PICK H : H = IF A = {} THEN G ELSE A
    OBVIOUS
<1>5. H # {} /\ H \subseteq G /\ G \subseteq F
    BY <1>1, <1>2, <1>3, <1>4
<1>6. PICK v \in H : \A u \in H : v.index <= u.index
    BY <1>5, LeastIndex
<1>7. ASSUME NEW u \in F \ {v}
      PROVE  Before(v, u, c)
    <2>1. CASE v.optional # u.optional
        BY <1>1, <1>2, <1>5, <2>1 DEF Before
    <2>2. CASE v.optional = u.optional
        <3>1. u \in G
            BY <1>1, <1>2, <1>5, <2>2
        <3>2. CASE (v.index > c) # (u.index > c)
            BY <1>3, <1>4, <2>2, <3>1, <3>2 DEF Before
        <3>3. CASE (v.index > c) = (u.index > c)
            <4>1. u \in H
                BY <1>3, <1>4, <3>1, <3>3
            <4>2. v.index < u.index
                BY <1>5, <1>6, <4>1
            <4> QED
                BY <2>2, <3>3, <4>2 DEF Before
        <3> QED
            BY <3>2, <3>3
    <2> QED
        BY <2>1, <2>2
<1> QED
    BY <1>5, <1>6, <1>7

(***************************************************************************)
(* How a step of one worker may change the locks                           *)
(***************************************************************************)
LEMMA OffOK ==
    RecordOK(OffWorker) /\ Held(OffWorker) = NoIndex /\ OffWorker.oids = {}
    BY DEF RecordOK, OffWorker, Fields, Selected, Acting, Held, NoCandidate

\* One worker goes from its record to r, and with it the lock of the index it
\* holds; a new one must have been free.
LEMMA LocksFollow ==
    ASSUME SchedulerAssumption, WorkHintsAssumption, IInv,
           NEW w \in Workers, NEW r, RecordOK(r),
           worker' = [worker EXCEPT ![w] = r],
           \A i \in Indexes :
             lock'[i] = IF i = Held(r) THEN w
                        ELSE IF lock[i] = w THEN NoWorker ELSE lock[i],
           Held(r) \in Indexes => lock[Held(r)] \in {w, NoWorker},
           lock' = [i \in Indexes |-> lock'[i]]
    PROVE  IInv'
<1>0. NoWorker \notin Workers /\ NoIndex \notin Indexes
    BY DEF SchedulerAssumption, WorkHintsAssumption, NoIndex
<1>1. WorkersOK'
    BY DEF IInv, WorkersOK
<1>2. LocksOK'
    <2>1. \A i \in Indexes : lock'[i] \in Workers \cup {NoWorker}
        BY DEF IInv, LocksOK
    <2> QED
        BY <2>1 DEF LocksOK
<1>3. LockMatchesAction'
    <2> SUFFICES ASSUME NEW i \in Indexes, NEW u \in Workers
                 PROVE  (lock'[i] = u) <=> /\ worker'[u].pc \in Selected
                                          /\ worker'[u].chosen.index = i
        BY <1>1 DEF LockMatchesAction, Selected, WorkersOK
    <2>1. (lock[i] = u) <=> (worker[u].pc \in Selected /\ worker[u].chosen.index = i)
        BY DEF IInv, LocksOK, WorkersOK, LockMatchesAction, Selected
    <2>2. (i = Held(r)) <=> (r.pc \in Selected /\ r.chosen.index = i)
        BY <1>0 DEF Held
    <2>3. CASE u = w
        BY <1>0, <2>2, <2>3 DEF IInv, WorkersOK, LocksOK
    <2>4. CASE u # w
        BY <1>0, <2>1, <2>4 DEF IInv, WorkersOK, LocksOK
    <2> QED
        BY <2>3, <2>4
<1> QED
    BY <1>1, <1>2, <1>3 DEF IInv

\* The lock of a worker is that of its choice.
LEMMA HeldLock ==
    ASSUME IInv, WorkHintsAssumption, NEW w \in Workers, NEW i \in Indexes
    PROVE  (lock[i] = w) <=> (i = Held(worker[w]))
    BY DEF IInv, WorkersOK, LocksOK, LockMatchesAction, Held, Selected,
           WorkHintsAssumption, NoIndex

\* A worker keeps what it holds.
LEMMA Kept ==
    ASSUME SchedulerAssumption, WorkHintsAssumption, IInv,
           NEW w \in Workers, NEW r, RecordOK(r), Held(r) = Held(worker[w]),
           worker' = [worker EXCEPT ![w] = r], lock' = lock
    PROVE  IInv'
<1>1. \A i \in Indexes : (lock[i] = w) <=> (i = Held(worker[w]))
    BY HeldLock
<1>2. \A i \in Indexes :
        lock'[i] = IF i = Held(r) THEN w ELSE IF lock[i] = w THEN NoWorker ELSE lock[i]
    BY <1>1
<1>3. Held(r) \in Indexes => lock[Held(r)] \in {w, NoWorker}
    BY <1>1
<1>4. lock' = [i \in Indexes |-> lock'[i]]
    BY DEF IInv, LocksOK
<1> QED
    BY <1>2, <1>3, <1>4, LocksFollow

\* A worker gives all it holds back.
LEMMA GivenUp ==
    ASSUME SchedulerAssumption, WorkHintsAssumption, IInv,
           NEW w \in Workers, NEW r, RecordOK(r), Held(r) = NoIndex,
           worker' = [worker EXCEPT ![w] = r], FreeLock(w)
    PROVE  IInv'
<1>1. NoIndex \notin Indexes
    BY DEF WorkHintsAssumption, NoIndex
<1>2. \A i \in Indexes :
        lock'[i] = IF i = Held(r) THEN w ELSE IF lock[i] = w THEN NoWorker ELSE lock[i]
    BY <1>1 DEF FreeLock
<1>3. lock' = [i \in Indexes |-> lock'[i]]
    BY DEF FreeLock
<1> QED
    BY <1>1, <1>2, <1>3, LocksFollow

\* A worker that holds no lock takes a free one.
LEMMA Taken ==
    ASSUME SchedulerAssumption, WorkHintsAssumption, IInv,
           NEW w \in Workers, NEW r, RecordOK(r), Held(worker[w]) = NoIndex,
           NEW k \in Indexes, lock[k] = NoWorker, Held(r) = k,
           worker' = [worker EXCEPT ![w] = r], lock' = [lock EXCEPT ![k] = w]
    PROVE  IInv'
<1>1. \A j \in Indexes : lock[j] # w
    BY HeldLock DEF WorkHintsAssumption, NoIndex
<1>2. \A j \in Indexes :
        lock'[j] = IF j = Held(r) THEN w ELSE IF lock[j] = w THEN NoWorker ELSE lock[j]
    BY <1>1 DEF IInv, LocksOK
<1>3. lock' = [i \in Indexes |-> lock'[i]]
    BY DEF IInv, LocksOK
<1> QED
    BY <1>2, <1>3, LocksFollow

\* A worker gives the lock of the index it has chosen back.
LEMMA GivenBack ==
    ASSUME SchedulerAssumption, WorkHintsAssumption, IInv,
           NEW w \in Workers, NEW r, RecordOK(r), Held(r) = NoIndex,
           worker' = [worker EXCEPT ![w] = r], worker[w].pc \in Selected,
           lock' = [lock EXCEPT ![worker[w].chosen.index] = NoWorker]
    PROVE  IInv'
<1>1. \A i \in Indexes : (lock[i] = w) <=> (i = worker[w].chosen.index)
    BY HeldLock DEF Held
<1>2. NoIndex \notin Indexes
    BY DEF WorkHintsAssumption, NoIndex
<1>3. \A i \in Indexes :
        lock'[i] = IF i = Held(r) THEN w ELSE IF lock[i] = w THEN NoWorker ELSE lock[i]
    BY <1>1, <1>2 DEF IInv, LocksOK
<1>4. lock' = [i \in Indexes |-> lock'[i]]
    BY DEF IInv, LocksOK
<1> QED
    BY <1>2, <1>3, <1>4, LocksFollow

\* What the loop over the indexes of a worker asks of its record, wherever it
\* stands in it.
LoopOK(r) ==
  /\ DOMAIN r = Fields
  /\ r.oids \subseteq Indexes
  /\ \A c \in r.candidates : /\ c.index \in Indexes \ r.oids
                             /\ c.optional \in BOOLEAN
                             /\ DOMAIN c = DOMAIN NoCandidate
  /\ \A c, d \in r.candidates : c.index = d.index => c = d

LEMMA OnwardOK ==
    ASSUME NEW r, LoopOK(r)
    PROVE  RecordOK(Onward(r)) /\ Held(Onward(r)) = NoIndex
<1>1. CASE r.oids # {}
    <2>1. Onward(r) = [r EXCEPT !.pc = "judge", !.chosen = NoCandidate]
        BY <1>1 DEF Onward
    <2> QED
        BY <2>1 DEF LoopOK, RecordOK, Fields, Selected, Acting, Held
<1>2. CASE r.oids = {} /\ r.candidates = {}
    <2>1. Onward(r) = OffWorker
        BY <1>2 DEF Onward
    <2> QED
        BY <2>1, OffOK
<1>3. CASE r.oids = {} /\ r.candidates # {}
    <2>1. Onward(r) = [r EXCEPT !.pc = "apply", !.tokens = {}, !.claimed = FALSE,
                                !.chosen = NoCandidate]
        BY <1>3 DEF Onward
    <2> QED
        BY <1>3, <2>1 DEF LoopOK, RecordOK, Fields, Selected, Acting, Held, NoCandidate
<1> QED
    BY <1>1, <1>2, <1>3

(***************************************************************************)
(* The actions                                                             *)
(***************************************************************************)
LEMMA InitHolds ==
    ASSUME SchedulerAssumption, Init
    PROVE  IInv
<1>1. WorkersOK
    BY OffOK DEF Init, WorkersOK
<1>2. LocksOK
    BY DEF Init, LocksOK
<1>3. LockMatchesAction
    BY DEF Init, SchedulerAssumption, LockMatchesAction, OffWorker
<1> QED
    BY <1>1, <1>2, <1>3 DEF IInv

LEMMA NothingMoves ==
    ASSUME IInv, UNCHANGED <<worker, lock>>
    PROVE  IInv'
    BY DEF IInv, WorkersOK, LocksOK, LockMatchesAction

\* Indexes a worker takes over are indexes of its database.
LEMMA SnapshotIndexes ==
    ASSUME NEW t, NEW d, NEW flag
    PROVE  /\ { h.index : h \in Snapshot(t, Mine(d), flag) } \subseteq Mine(d)
           /\ Mine(d) \subseteq Indexes
    BY DEF Snapshot, Mine

LEMMA LaunchStep ==
    ASSUME SchedulerAssumption, WorkHintsAssumption, IInv,
           NEW w \in Workers, NEW d, Launch(w) \/ TouchLaunch(w, d)
    PROVE  IInv'
<1>1. Held(worker[w]) = NoIndex /\ lock' = lock
    BY DEF Launch, TouchLaunch, Held, Selected
<1>2. PICK e : worker' = [worker EXCEPT ![w] =
                            [OffWorker EXCEPT !.pc = "consume", !.db = e]]
    BY DEF Launch, TouchLaunch
<1>3. PICK r : r = [OffWorker EXCEPT !.pc = "consume", !.db = e]
    OBVIOUS
<1>4. RecordOK(r) /\ Held(r) = NoIndex
    BY <1>3 DEF RecordOK, OffWorker, Fields, Held, Selected, Acting
<1> QED
    BY <1>1, <1>2, <1>3, <1>4, Kept

\* Preload selection, up to the lock.
LEMMA PreloadSelection ==
    ASSUME SchedulerAssumption, WorkHintsAssumption, IInv, NEW w \in Workers,
           \/ ConsumePreload(w) \/ ClaimPreload(w)
           \/ QueryPreload(w) \/ QueryPreloadFails(w)
    PROVE  IInv'
<1>1. RecordOK(worker[w])
    BY DEF IInv, WorkersOK
<1>2. /\ worker[w].pc \in {"consume", "claimP", "queryP"}
      /\ Held(worker[w]) = NoIndex /\ lock' = lock
    BY DEF ConsumePreload, ClaimPreload, QueryPreload, QueryPreloadFails, At,
           Held, Selected
<1>3. worker[w].chosen = NoCandidate /\ worker[w].candidates = {}
    BY <1>1, <1>2 DEF RecordOK, Selected, Acting
<1>4. CASE ConsumePreload(w)
    <2>1. PICK r : r = [worker[w] EXCEPT !.pc = "claimP", !.oids =
              { h.index : h \in Snapshot(sched.hints, Mine(worker[w].db), "preload") }]
        OBVIOUS
    <2>4. r.oids \subseteq Mine(r.db) /\ r.oids \subseteq Indexes
        BY <1>1, <2>1, SnapshotIndexes DEF RecordOK, Fields
    <2>2. RecordOK(r) /\ Held(r) = NoIndex
        BY <1>1, <1>3, <2>1, <2>4 DEF RecordOK, Fields, Held, Selected, Acting
    <2>3. worker' = [worker EXCEPT ![w] = r]
        BY <1>4, <2>1 DEF ConsumePreload, IInv, WorkersOK
    <2> QED
        BY <1>2, <2>2, <2>3, Kept
<1>5. CASE ClaimPreload(w)
    <2>1. PICK g \in {Grants(sched.rec, worker[w].db, "preload")} :
            worker' = [worker EXCEPT ![w] =
              IF ~g /\ worker[w].oids = {} /\ worker[w].preloaded THEN OffWorker
              ELSE [@ EXCEPT !.claimed = g,
                             !.pc = IF g THEN "queryP"
                                    ELSE IF worker[w].oids = {} THEN "snapshot"
                                    ELSE "pickP"]]
        BY <1>5 DEF ClaimPreload
    <2>2. PICK r : r = IF ~g /\ worker[w].oids = {} /\ worker[w].preloaded THEN OffWorker
              ELSE [worker[w] EXCEPT !.claimed = g,
                             !.pc = IF g THEN "queryP"
                                    ELSE IF worker[w].oids = {} THEN "snapshot"
                                    ELSE "pickP"]
        OBVIOUS
    <2>3. RecordOK(r) /\ Held(r) = NoIndex
        <3>1. CASE r = OffWorker
            BY <3>1, OffOK
        <3>2. CASE r # OffWorker
            <4>1. PICK l \in {"queryP", "snapshot", "pickP"} :
                    r = [worker[w] EXCEPT !.claimed = g, !.pc = l]
                BY <2>2, <3>2
            <4> QED
                BY <1>1, <1>3, <4>1 DEF RecordOK, Fields, Held, Selected, Acting, NoCandidate
        <3> QED
            BY <3>1, <3>2
    <2>4. worker' = [worker EXCEPT ![w] = r]
        BY <2>1, <2>2 DEF IInv, WorkersOK
    <2> QED
        BY <1>2, <2>3, <2>4, Kept
<1>6. CASE QueryPreload(w)
    <2>1. PICK r : r = IF Mine(worker[w].db) \cap Preloads # {}
              THEN [worker[w] EXCEPT !.oids = Mine(worker[w].db) \cap Preloads,
                                     !.pc = "pickP"]
              ELSE IF worker[w].preloaded THEN OffWorker
              ELSE [worker[w] EXCEPT !.oids = {}, !.pc = "snapshot"]
        OBVIOUS
    <2>2. RecordOK(r) /\ Held(r) = NoIndex
        <3>1. CASE r = OffWorker
            BY <3>1, OffOK
        <3>2. CASE r # OffWorker
            <4>1. Mine(worker[w].db) \subseteq Indexes
                BY DEF Mine
            <4>2. PICK l \in {"snapshot", "pickP"}, is \in SUBSET Indexes :
                    r = [worker[w] EXCEPT !.oids = is, !.pc = l]
                BY <2>1, <3>2, <4>1
            <4> QED
                BY <1>1, <1>3, <4>2 DEF RecordOK, Fields, Held, Selected, Acting, NoCandidate
        <3> QED
            BY <3>1, <3>2
    <2>3. worker' = [worker EXCEPT ![w] = r]
        BY <1>6, <2>1 DEF QueryPreload, IInv, WorkersOK
    <2> QED
        BY <1>2, <2>2, <2>3, Kept
<1>7. CASE QueryPreloadFails(w)
    BY <1>2, <1>7, OffOK, Kept DEF QueryPreloadFails, Stop
<1> QED
    BY <1>4, <1>5, <1>6, <1>7

\* The first candidate with a free lock is selected, the others pass by.
LEMMA PickPreloadStep ==
    ASSUME SchedulerAssumption, WorkHintsAssumption, IInv,
           NEW w \in Workers, PickPreload(w)
    PROVE  IInv'
<1>1. /\ RecordOK(worker[w]) /\ worker[w].pc = "pickP" /\ worker[w].candidates = {}
      /\ Held(worker[w]) = worker[w].chosen.index
    BY DEF IInv, WorkersOK, PickPreload, At, RecordOK, Held, Selected, Acting
<1>2. PICK i \in worker[w].oids :
        \/ /\ worker[w].chosen.index = NoIndex /\ lock[i] = NoWorker
           /\ lock' = [lock EXCEPT ![i] = w]
           /\ worker' = [worker EXCEPT ![w] =
                [@ EXCEPT !.oids = worker[w].oids \ {i}, !.chosen.index = i,
                   !.pc = IF worker[w].oids \ {i} = {} THEN "preload" ELSE "pickP"]]
        \/ /\ lock' = lock
           /\ worker' = [worker EXCEPT ![w] =
                IF worker[w].chosen.index = NoIndex /\ worker[w].oids \ {i} = {}
                THEN OffWorker
                ELSE [@ EXCEPT !.oids = worker[w].oids \ {i},
                   !.pc = IF worker[w].oids \ {i} = {} THEN "preload" ELSE "pickP"]]
    BY DEF PickPreload
<1>3. i \in Indexes
    BY <1>1, <1>2 DEF RecordOK
<1>4. CASE /\ worker[w].chosen.index = NoIndex /\ lock[i] = NoWorker
           /\ lock' = [lock EXCEPT ![i] = w]
           /\ worker' = [worker EXCEPT ![w] =
                [@ EXCEPT !.oids = worker[w].oids \ {i}, !.chosen.index = i,
                   !.pc = IF worker[w].oids \ {i} = {} THEN "preload" ELSE "pickP"]]
    <2>1. PICK r : r = [worker[w] EXCEPT !.oids = worker[w].oids \ {i},
                          !.chosen.index = i,
                          !.pc = IF worker[w].oids \ {i} = {} THEN "preload" ELSE "pickP"]
        OBVIOUS
    <2>2. RecordOK(r) /\ Held(r) = i
        BY <1>1, <2>1 DEF RecordOK, Fields, Held, Selected, Acting, NoCandidate
    <2>3. worker' = [worker EXCEPT ![w] = r]
        BY <1>4, <2>1 DEF IInv, WorkersOK
    <2>4. Held(worker[w]) = NoIndex
        BY <1>1, <1>4
    <2> QED
        BY <1>3, <1>4, <2>2, <2>3, <2>4, Taken
<1>5. CASE /\ lock' = lock
           /\ worker' = [worker EXCEPT ![w] =
                IF worker[w].chosen.index = NoIndex /\ worker[w].oids \ {i} = {}
                THEN OffWorker
                ELSE [@ EXCEPT !.oids = worker[w].oids \ {i},
                   !.pc = IF worker[w].oids \ {i} = {} THEN "preload" ELSE "pickP"]]
    <2>1. PICK r : r =
            IF worker[w].chosen.index = NoIndex /\ worker[w].oids \ {i} = {}
            THEN OffWorker
            ELSE [worker[w] EXCEPT !.oids = worker[w].oids \ {i},
                   !.pc = IF worker[w].oids \ {i} = {} THEN "preload" ELSE "pickP"]
        OBVIOUS
    <2>2. RecordOK(r) /\ Held(r) = Held(worker[w])
        <3>1. CASE worker[w].chosen.index = NoIndex /\ worker[w].oids \ {i} = {}
            BY <1>1, <2>1, <3>1, OffOK
        <3>2. CASE ~(worker[w].chosen.index = NoIndex /\ worker[w].oids \ {i} = {})
            <4>1. PICK l \in {"preload", "pickP"} :
                    /\ r = [worker[w] EXCEPT !.oids = worker[w].oids \ {i}, !.pc = l]
                    /\ l = "preload" => worker[w].chosen.index # NoIndex
                BY <2>1, <3>2
            <4>2. l = "preload" => worker[w].chosen.index \in Indexes
                BY <1>1, <4>1 DEF RecordOK, NoCandidate
            <4> QED
                BY <1>1, <4>1, <4>2 DEF RecordOK, Fields, Held, Selected, Acting
        <3> QED
            BY <3>1, <3>2
    <2>3. worker' = [worker EXCEPT ![w] = r]
        BY <1>5, <2>1 DEF IInv, WorkersOK
    <2> QED
        BY <1>5, <2>2, <2>3, Kept
<1> QED
    BY <1>2, <1>4, <1>5

LEMMA PreloadStep ==
    ASSUME SchedulerAssumption, WorkHintsAssumption, IInv, NEW w \in Workers,
           Preload(w) \/ PreloadBusy(w) \/ PreloadDeclines(w)
    PROVE  IInv'
<1>1. /\ worker[w].pc \in Selected
      /\ lock' = [lock EXCEPT ![worker[w].chosen.index] = NoWorker]
      /\ worker' = [worker EXCEPT ![w] = [OffWorker EXCEPT !.pc = "consume",
                      !.db = worker[w].db, !.preloaded = TRUE]]
    BY DEF Preload, PreloadBusy, PreloadDeclines, Preloaded, At, Selected
<1>2. PICK r : r = [OffWorker EXCEPT !.pc = "consume", !.db = worker[w].db,
                                     !.preloaded = TRUE]
    OBVIOUS
<1>3. RecordOK(r) /\ Held(r) = NoIndex
    BY <1>2 DEF RecordOK, OffWorker, Fields, Held, Selected, Acting
<1> QED
    BY <1>1, <1>2, <1>3, GivenBack

\* Maintenance selection, up to the loop.
LEMMA MaintenanceSelection ==
    ASSUME SchedulerAssumption, WorkHintsAssumption, IInv, NEW w \in Workers,
           \/ SnapshotMaintenance(w) \/ ClaimMaintenance(w)
           \/ QueryMaintenance(w) \/ QueryMaintenanceFails(w)
    PROVE  IInv'
<1>1. RecordOK(worker[w])
    BY DEF IInv, WorkersOK
<1>2. /\ worker[w].pc \in {"snapshot", "claimM", "queryM"}
      /\ Held(worker[w]) = NoIndex /\ lock' = lock
    BY DEF SnapshotMaintenance, ClaimMaintenance, QueryMaintenance,
           QueryMaintenanceFails, At, Held, Selected
<1>3. worker[w].chosen = NoCandidate /\ worker[w].candidates = {}
    BY <1>1, <1>2 DEF RecordOK, Selected, Acting
<1>4. CASE SnapshotMaintenance(w)
    <2>1. PICK ts : ts = Snapshot(sched.hints, Mine(worker[w].db), "maintenance")
        OBVIOUS
    <2>2. PICK r : r = [worker[w] EXCEPT !.tokens = ts, !.pc = "claimM",
                                         !.oids = { h.index : h \in ts }]
        OBVIOUS
    <2>3. { h.index : h \in ts } \subseteq Indexes
        BY <2>1, SnapshotIndexes
    <2>4. RecordOK(r) /\ Held(r) = NoIndex
        BY <1>1, <1>3, <2>2, <2>3 DEF RecordOK, Fields, Held, Selected, Acting
    <2>5. worker' = [worker EXCEPT ![w] = r]
        BY <1>4, <2>1, <2>2 DEF SnapshotMaintenance, IInv, WorkersOK
    <2> QED
        BY <1>2, <2>4, <2>5, Kept
<1>5. CASE ClaimMaintenance(w)
    <2>1. PICK g : g = Grants(sched.rec, worker[w].db, "maintenance")
        OBVIOUS
    <2>2. PICK f : f = FairnessCursor(sched.rec, worker[w].db)
        OBVIOUS
    <2>3. PICK q : q = [worker[w] EXCEPT !.claimed = FALSE, !.cursor = f]
        OBVIOUS
    <2>4. PICK r : r = IF g THEN [worker[w] EXCEPT !.claimed = TRUE, !.pc = "queryM"]
                       ELSE Onward(q)
        OBVIOUS
    <2>5. LoopOK(q)
        BY <1>1, <1>3, <2>3 DEF RecordOK, Fields, LoopOK
    <2>6. RecordOK(r) /\ Held(r) = NoIndex
        <3>1. CASE g
            BY <1>1, <1>3, <2>4, <3>1 DEF RecordOK, Fields, Held, Selected, Acting
        <3>2. CASE ~g
            BY <2>4, <2>5, <3>2, OnwardOK
        <3> QED
            BY <3>1, <3>2
    <2>7. worker' = [worker EXCEPT ![w] = r]
        BY <1>5, <2>1, <2>2, <2>3, <2>4 DEF ClaimMaintenance, IInv, WorkersOK
    <2> QED
        BY <1>2, <2>6, <2>7, Kept
<1>6. CASE QueryMaintenance(w)
    <2>1. PICK f : f = FairnessCursor(sched.rec, worker[w].db)
        OBVIOUS
    <2>2. PICK q : q = [worker[w] EXCEPT !.oids = Mine(worker[w].db), !.cursor = f]
        OBVIOUS
    <2>3. LoopOK(q)
        BY <1>1, <1>3, <2>2 DEF RecordOK, Fields, LoopOK, Mine
    <2>4. RecordOK(Onward(q)) /\ Held(Onward(q)) = NoIndex
        BY <2>3, OnwardOK
    <2>5. worker' = [worker EXCEPT ![w] = Onward(q)]
        BY <1>6, <2>1, <2>2 DEF QueryMaintenance, IInv, WorkersOK
    <2> QED
        BY <1>2, <2>4, <2>5, Kept
<1>7. CASE QueryMaintenanceFails(w)
    BY <1>2, <1>7, OffOK, Kept DEF QueryMaintenanceFails, Stop
<1> QED
    BY <1>4, <1>5, <1>6, <1>7

\* The index a worker reads leaves its list: what it is judged to be does not
\* matter to the locks, but no index becomes a candidate twice.
LEMMA JudgeStep ==
    ASSUME SchedulerAssumption, WorkHintsAssumption, IInv, NEW w \in Workers,
           Judge(w) \/ JudgeLocked(w) \/ JudgeFails(w)
    PROVE  IInv'
<1>1. RecordOK(worker[w]) /\ worker[w].pc = "judge"
    BY DEF IInv, WorkersOK, Judge, JudgeLocked, JudgeFails, At
<1>2. Held(worker[w]) = NoIndex /\ lock' = lock
    BY <1>1 DEF Judge, JudgeLocked, JudgeFails, Held, Selected
<1>14. CASE JudgeFails(w)
    <2>1. Stop(w)
        BY <1>14 DEF JudgeFails
    <2> QED
        BY <1>2, <2>1, OffOK, Kept DEF Stop
<1>3. CASE Judge(w) \/ JudgeLocked(w)
  <2>3. PICK i \in worker[w].oids :
        \/ worker' = [worker EXCEPT ![w] =
             Onward([worker[w] EXCEPT !.oids = worker[w].oids \ {i}])]
        \/ \E t \in {TokenOf(worker[w].tokens, i)} :
           LET r == [worker[w] EXCEPT !.oids = @ \ {i}]
               c == [NoCandidate EXCEPT !.index = i, !.sequence = t.sequence]
           IN  worker' = [worker EXCEPT ![w] =
             IF DueNow(work[i], t)
             THEN Onward([r EXCEPT !.candidates = @ \cup {AsCandidate(i, work[i], t)}])
             ELSE IF LowNow(work[i]) /\ t = FreeHint /\ worker[w].claimed
             THEN [r EXCEPT !.pc = "markLow", !.chosen = c]
             ELSE IF ~LowNow(work[i]) /\ t # FreeHint /\ "accel" \notin Seen(work[i])
             THEN [r EXCEPT !.pc = "clearIdle", !.chosen = c]
             ELSE Onward(r)]
    <3>1. CASE Judge(w)
        BY <3>1 DEF Judge
    <3>2. CASE JudgeLocked(w)
        BY <3>2 DEF JudgeLocked
    <3> QED
        BY <1>3, <3>1, <3>2
  <2>4. PICK q : q = [worker[w] EXCEPT !.oids = worker[w].oids \ {i}]
    OBVIOUS
  <2>5. LoopOK(q) /\ i \in Indexes /\ i \notin q.oids /\ (\A c \in q.candidates : c.index # i)
    BY <1>1, <2>3, <2>4 DEF RecordOK, Fields, LoopOK
  <2>6. PICK a : a = AsCandidate(i, work[i], TokenOf(worker[w].tokens, i))
    OBVIOUS
  <2>7. a.index = i /\ a.optional \in BOOLEAN /\ DOMAIN a = DOMAIN NoCandidate
    BY <2>6 DEF AsCandidate, NoCandidate
  <2>8. PICK p : p = [q EXCEPT !.candidates = @ \cup {a}]
    OBVIOUS
  <2>9. LoopOK(p)
    BY <2>5, <2>7, <2>8 DEF LoopOK, Fields
  <2>10. PICK c : c = [NoCandidate EXCEPT !.index = i,
                       !.sequence = TokenOf(worker[w].tokens, i).sequence]
    OBVIOUS
  <2>11. \/ worker' = [worker EXCEPT ![w] = Onward(q)]
        \/ worker' = [worker EXCEPT ![w] = Onward(p)]
        \/ worker' = [worker EXCEPT ![w] = [q EXCEPT !.pc = "markLow", !.chosen = c]]
        \/ worker' = [worker EXCEPT ![w] = [q EXCEPT !.pc = "clearIdle", !.chosen = c]]
    BY <2>3, <2>4, <2>6, <2>8, <2>10
  <2>12. ASSUME NEW l \in {"markLow", "clearIdle"},
                worker' = [worker EXCEPT ![w] = [q EXCEPT !.pc = l, !.chosen = c]]
         PROVE  IInv'
      <3>1. PICK r : r = [q EXCEPT !.pc = l, !.chosen = c]
          OBVIOUS
      <3>2. RecordOK(r) /\ Held(r) = NoIndex
          BY <2>5, <2>10, <2>12, <3>1
             DEF LoopOK, RecordOK, Fields, Held, Selected, Acting, NoCandidate
      <3> QED
          BY <1>2, <2>12, <3>1, <3>2, Kept
  <2>13. ASSUME NEW r, LoopOK(r), worker' = [worker EXCEPT ![w] = Onward(r)]
         PROVE  IInv'
      <3>1. RecordOK(Onward(r)) /\ Held(Onward(r)) = NoIndex
          BY <2>13, OnwardOK
      <3> QED
          BY <1>2, <2>13, <3>1, Kept
  <2> QED
      BY <2>5, <2>9, <2>11, <2>12, <2>13
<1> QED
    BY <1>3, <1>14

LEMMA HintStep ==
    ASSUME SchedulerAssumption, WorkHintsAssumption, IInv, NEW w \in Workers,
           MarkLow(w) \/ ClearIdle(w)
    PROVE  IInv'
<1>1. RecordOK(worker[w]) /\ Held(worker[w]) = NoIndex
    BY DEF IInv, WorkersOK, MarkLow, ClearIdle, At, Held, Selected
<1>2. PICK q : q = worker[w]
    OBVIOUS
<1>3. lock' = lock /\ worker' = [worker EXCEPT ![w] = Onward(q)]
    BY <1>2 DEF MarkLow, ClearIdle, IInv, WorkersOK
<1>4. RecordOK(Onward(q)) /\ Held(Onward(q)) = NoIndex
    <2>1. LoopOK(q)
        BY <1>1, <1>2 DEF RecordOK, LoopOK
    <2> QED
        BY <2>1, OnwardOK
<1> QED
    BY <1>1, <1>3, <1>4, Kept

\* The best candidate is one of them.
LEMMA BestIsCandidate ==
    ASSUME WorkHintsAssumption, IInv, NEW w \in Workers, worker[w].pc = "apply"
    PROVE  Best(w) \in worker[w].candidates
<1>1. PICK F : F = worker[w].candidates
    OBVIOUS
<1>2. F # {} /\ (\A c \in F : c.index \in Nat /\ c.optional \in BOOLEAN)
    BY <1>1 DEF RecordOK, WorkHintsAssumption, IInv, WorkersOK
<1>3. \A c, d \in F : c.index = d.index => c = d
    BY <1>1 DEF RecordOK, IInv, WorkersOK
<1>4. \E c \in F : \A d \in F \ {c} : Before(c, d, worker[w].cursor)
    BY <1>2, <1>3, BestExists
<1> QED
    BY <1>1, <1>4 DEF Best

\* The best candidate exists, and is chosen only while its lock is free and
\* nothing has been chosen before.
LEMMA ApplyStep ==
    ASSUME SchedulerAssumption, WorkHintsAssumption, IInv, NEW w \in Workers,
           Apply(w)
    PROVE  IInv'
<1>1. /\ RecordOK(worker[w]) /\ worker[w].pc = "apply"
      /\ worker[w].candidates # {} /\ worker[w].oids = {}
      /\ Held(worker[w]) = worker[w].chosen.index
    BY DEF IInv, WorkersOK, Apply, At, RecordOK, Held, Selected, Acting
<1>2. PICK F : F = worker[w].candidates
    OBVIOUS
<1>3. Best(w) \in F
    BY <1>1, <1>2, BestIsCandidate
<1>4. PICK c : /\ c = Best(w)
               /\ \/ /\ worker[w].chosen = NoCandidate /\ lock[c.index] = NoWorker
                     /\ lock' = [lock EXCEPT ![c.index] = w]
                     /\ Choosing(w, F \ {c}, c)
                  \/ /\ lock' = lock
                     /\ Choosing(w, F \ {c}, worker[w].chosen)
    BY <1>2 DEF Apply
<1>5. c.index \in Indexes /\ c.index # NoIndex /\ DOMAIN c = DOMAIN NoCandidate
    BY <1>1, <1>2, <1>3, <1>4 DEF RecordOK, WorkHintsAssumption, NoIndex
<1>6. ASSUME NEW d, DOMAIN d = DOMAIN NoCandidate, Choosing(w, F \ {c}, d),
             d = NoCandidate \/ d.index \in Indexes
      PROVE  \E r : /\ RecordOK(r) /\ worker' = [worker EXCEPT ![w] = r]
                    /\ Held(r) = d.index
    <2>1. CASE F \ {c} # {}
        <3>1. PICK r : r = [worker[w] EXCEPT !.candidates = F \ {c}, !.chosen = d]
            OBVIOUS
        <3>2. RecordOK(r) /\ Held(r) = d.index
            BY <1>1, <1>2, <1>6, <2>1, <3>1 DEF RecordOK, Fields, Held, Selected, Acting
        <3>3. worker' = [worker EXCEPT ![w] = r]
            BY <1>6, <2>1, <3>1 DEF Choosing, IInv, WorkersOK
        <3> QED
            BY <3>2, <3>3
    <2>2. CASE F \ {c} = {} /\ d = NoCandidate
        <3>1. worker' = [worker EXCEPT ![w] = OffWorker]
            BY <1>6, <2>2 DEF Choosing
        <3>2. d.index = NoIndex
            BY <2>2 DEF NoCandidate
        <3> QED
            BY <3>1, <3>2, OffOK
    <2>3. CASE F \ {c} = {} /\ d # NoCandidate
        <3>1. PICK r : r = [OffWorker EXCEPT !.pc = "execute", !.db = worker[w].db,
                                             !.chosen = d]
            OBVIOUS
        <3>2. RecordOK(r) /\ Held(r) = d.index
            BY <1>6, <2>3, <3>1 DEF RecordOK, OffWorker, Fields, Held, Selected, Acting
        <3>3. worker' = [worker EXCEPT ![w] = r]
            BY <1>6, <2>3, <3>1 DEF Choosing
        <3> QED
            BY <3>2, <3>3
    <2> QED
        BY <2>1, <2>2, <2>3
<1>7. CASE /\ worker[w].chosen = NoCandidate /\ lock[c.index] = NoWorker
           /\ lock' = [lock EXCEPT ![c.index] = w]
           /\ Choosing(w, F \ {c}, c)
    <2>1. PICK r : /\ RecordOK(r) /\ worker' = [worker EXCEPT ![w] = r]
                   /\ Held(r) = c.index
        BY <1>5, <1>6, <1>7
    <2>2. Held(worker[w]) = NoIndex
        BY <1>1, <1>7 DEF NoCandidate
    <2>3. PICK i : i = c.index
        OBVIOUS
    <2> QED
        BY <1>5, <1>7, <2>1, <2>2, <2>3, Taken
<1>8. CASE lock' = lock /\ Choosing(w, F \ {c}, worker[w].chosen)
    <2>1. PICK d : d = worker[w].chosen
        OBVIOUS
    <2>2. PICK r : /\ RecordOK(r) /\ worker' = [worker EXCEPT ![w] = r]
                   /\ Held(r) = d.index
        BY <1>1, <1>6, <1>8, <2>1 DEF RecordOK
    <2> QED
        BY <1>1, <1>8, <2>1, <2>2, Kept
<1> QED
    BY <1>4, <1>7, <1>8

\* Where a worker goes after an action: to its end, or to the next selection.
LEMMA GoesOn ==
    ASSUME NEW w \in Workers,
           \/ Stop(w)
           \/ worker' = [worker EXCEPT ![w] =
                           [OffWorker EXCEPT !.pc = "consume", !.db = worker[w].db]]
    PROVE  \E r : /\ RecordOK(r) /\ Held(r) = NoIndex
                  /\ worker' = [worker EXCEPT ![w] = r]
<1>1. PICK r : r = [OffWorker EXCEPT !.pc = "consume", !.db = worker[w].db]
    OBVIOUS
<1>2. RecordOK(r) /\ Held(r) = NoIndex
    BY <1>1 DEF RecordOK, OffWorker, Fields, Held, Selected, Acting
<1> QED
    BY <1>1, <1>2, OffOK DEF Stop

LEMMA CountedGoesOn ==
    ASSUME NEW w \in Workers, NEW s, NEW a, Counted(w, s, a)
    PROVE  \E r : /\ RecordOK(r) /\ Held(r) = NoIndex
                  /\ worker' = [worker EXCEPT ![w] = r]
<1>1. \/ Stop(w)
      \/ worker' = [worker EXCEPT ![w] =
                      [OffWorker EXCEPT !.pc = "consume", !.db = worker[w].db]]
    BY DEF Counted
<1> QED
    BY <1>1, GoesOn

\* Every outcome of an action under the lock gives the lock up.
LEMMA ExecuteStep ==
    ASSUME SchedulerAssumption, WorkHintsAssumption, IInv, NEW w \in Workers,
           \/ Rotate(w) \/ Seal(w) \/ Restructure(w) \/ CompleteSemantic(w)
           \/ TruncateTail(w) \/ FoldHot(w) \/ Defer(w) \/ Stall(w)
           \/ DeferToBuild(w) \/ NothingDone(w) \/ Fail(w) \/ Terminate(w)
    PROVE  IInv'
<1>1. FreeLock(w)
    BY DEF Rotate, Seal, Restructure, CompleteSemantic, TruncateTail, FoldHot,
           PublishedMarked, Defer, Stall, DeferToBuild, NothingDone, Fail, Terminate
<1>2. PICK r : /\ RecordOK(r) /\ Held(r) = NoIndex
               /\ worker' = [worker EXCEPT ![w] = r]
    <2>1. CASE \E s, a : Counted(w, s, a)
        BY <2>1, CountedGoesOn
    <2>2. CASE Stop(w)
        BY <2>2, GoesOn
    <2>3. (\E s, a : Counted(w, s, a)) \/ Stop(w)
        <3>1. CASE Rotate(w) \/ CompleteSemantic(w)
            BY <3>1 DEF Rotate, CompleteSemantic
        <3>2. CASE Seal(w) \/ Restructure(w)
            BY <3>2 DEF Seal, Restructure, PublishedMarked
        <3>3. CASE TruncateTail(w) \/ FoldHot(w)
            BY <3>3 DEF TruncateTail, FoldHot
        <3>4. CASE \/ Defer(w) \/ Stall(w) \/ DeferToBuild(w) \/ NothingDone(w)
                   \/ Fail(w) \/ Terminate(w)
            BY <3>4 DEF Defer, Stall, DeferToBuild, NothingDone, Fail, Terminate,
                        Uncounted
        <3> QED
            BY <3>1, <3>2, <3>3, <3>4
    <2> QED
        BY <2>1, <2>2, <2>3
<1> QED
    BY <1>1, <1>2, GivenUp

\* An accelerator is built without the lock.
LEMMA BuildStep ==
    ASSUME SchedulerAssumption, WorkHintsAssumption, IInv, NEW w \in Workers,
           \/ StartBuild(w) \/ FinishBuild(w) \/ LoseBuild(w)
           \/ BlockBuild(w) \/ AbandonBuild(w)
    PROVE  IInv'
<1>1. RecordOK(worker[w])
    BY DEF IInv, WorkersOK
<1>2. CASE StartBuild(w)
    <2>1. PICK r : r = [worker[w] EXCEPT !.pc = "build"]
        OBVIOUS
    <2>2. worker[w].pc = "execute"
        BY <1>2 DEF StartBuild, BuildTurn, Jumps, RootTurn, RestTurn, At
    <2>3. RecordOK(r) /\ Held(r) = NoIndex
        BY <1>1, <2>1, <2>2 DEF RecordOK, Fields, Held, Selected, Acting
    <2>4. worker' = [worker EXCEPT ![w] = r]
        BY <1>2, <2>1 DEF StartBuild, IInv, WorkersOK
    <2>5. FreeLock(w)
        BY <1>2 DEF StartBuild
    <2> QED
        BY <2>3, <2>4, <2>5, GivenUp
<1>3. CASE FinishBuild(w) \/ LoseBuild(w) \/ BlockBuild(w) \/ AbandonBuild(w)
    <2>1. Held(worker[w]) = NoIndex /\ lock' = lock
        BY <1>3 DEF FinishBuild, LoseBuild, BlockBuild, AbandonBuild, At, Held, Selected
    <2>2. PICK r : /\ RecordOK(r) /\ Held(r) = NoIndex
                   /\ worker' = [worker EXCEPT ![w] = r]
        <3>1. CASE FinishBuild(w)
            BY <3>1, CountedGoesOn DEF FinishBuild
        <3>2. CASE LoseBuild(w) \/ BlockBuild(w) \/ AbandonBuild(w)
            <4>1. Stop(w)
                BY <3>2 DEF LoseBuild, BlockBuild, AbandonBuild, Uncounted
            <4> QED
                BY <4>1, GoesOn
        <3> QED
            BY <1>3, <3>1, <3>2
    <2> QED
        BY <2>1, <2>2, Kept
<1> QED
    BY <1>2, <1>3

LEMMA NextStep ==
    ASSUME SchedulerAssumption, WorkHintsAssumption, IInv, Next
    PROVE  IInv'
<1>1. CASE Environment
    <2>1. UNCHANGED <<worker, lock>>
        BY <1>1 DEF Environment, Write, Heat, Age, CoolDown, ClearCache, ReconcileDue
    <2> QED
        BY <2>1, NothingMoves
<1>2. ASSUME NEW w \in Workers, WorkerStep(w) \/ Setback(w)
      PROVE  IInv'
    BY <1>2, PreloadSelection, PickPreloadStep, PreloadStep,
       MaintenanceSelection, JudgeStep, HintStep, ApplyStep, ExecuteStep, BuildStep
       DEF WorkerStep, Setback
<1>3. ASSUME NEW w \in Workers,
             Launch(w) \/ \E d \in Databases : TouchLaunch(w, d)
      PROVE  IInv'
    BY <1>3, LaunchStep
<1> QED
    BY <1>1, <1>2, <1>3 DEF Next

(***************************************************************************)
(* The theorem                                                             *)
(***************************************************************************)
\* A session lock is held by the worker that selected the index, preloads or
\* maintains it and by no other, whatever workers compete, fail or are
\* terminated.
THEOREM LocksMatchActions ==
    ASSUME SchedulerAssumption, WorkHintsAssumption
    PROVE  Spec => []LockMatchesAction
<1>1. Init => IInv
    BY InitHolds
<1>2. IInv /\ [Next]_vars => IInv'
    <2>1. IInv /\ UNCHANGED vars => IInv'
        BY NothingMoves DEF vars
    <2> QED
        BY <2>1, NextStep
<1>3. IInv => LockMatchesAction
    BY DEF IInv
<1> QED
    BY <1>1, <1>2, <1>3, PTL DEF Spec

=============================================================================
