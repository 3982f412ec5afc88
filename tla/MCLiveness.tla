---------------------------- MODULE MCLiveness ----------------------------
(*****************************************************************************)
(* What must eventually happen: three scenarios of WorkerLaunch, told apart  *)
(* by a constraint on their steps, and instances of the other modules with   *)
(* fairness, in one run. A behaviour belongs to one of them, and the         *)
(* fairness of a module binds only its own behaviours.                       *)
(*****************************************************************************)
EXTENDS WorkerLaunch, Sequences

CONSTANTS b1, b2, w1, w2, l1, l2, p1, p2, p3, s1, s2, s3, m1, None, NoBuild

VARIABLES
    of,   \* the scenario or instance the behaviour belongs to
    sched, lastDb, work, cold, lock, worker, faults, process, queue, resp, client, lastId, starts, orphan, census, arena, current, view,
    token, pc, segments, record, document, residency, l0, baseline, sequence,
    root, manifest, status, rows, dead, job, accel, high, parent

\* The value of the variables of modules no instance of which runs.
Idle == 0

Bucket(key) == 1

-----------------------------------------------------------------------------
\* Two indexes share a hint table and one worker.
Hints == INSTANCE MaintenanceScheduler WITH
    Indexes <- {1, 2}, Capacity <- 2, Home <- [i \in {1, 2} |-> 0],
    Databases <- {1}, DbOf <- [i \in {1, 2} |-> 1], Workers <- {1},
    ReconcileCapacity <- 1, Preloads <- {1, 2}, Derived <- {},
    Workload <- {"setback"}, Terminations <- 0, MaxSequence <- 5

\* One launcher, whose registrations may be lost, and at most one worker.
LaunchesOnly ==
    /\ limit' <= 1
    /\ launcher'[l2].pc = "idle"
    /\ proc'[p3].pc = "off"

\* Two launchers compete for the only slot; every process starts.
CrowdedOnly ==
    /\ limit' <= 1 /\ reloads' <= 1
    /\ lost' = 0

\* Two slots.
TwoSlotsOnly ==
    /\ reloads' <= 1
    /\ launcher'[l2].pc = "idle"
    /\ proc'[p3].pc = "off"

\* Two backends and two workers that exit or die.
Requests == INSTANCE RuntimeService WITH
    Backends <- {b1, b2}, Workers <- {w1, w2}, Models <- {m1},
    ResponseCapacity <- 1, ReservedResponses <- 1, PipelineDepth <- 2,
    ReserveQueryLane <- TRUE, AffinityBypassLimit <- 1, Kinds <- {"query"},
    Faults <- {"exit", "die"}, Sweepers <- {s1}, MaxRequests <- 2,
    MaxStarts <- 2, proc <- process

\* Two backends and the entry of one relation.
Preloads == INSTANCE SharedPreload WITH
    Backend <- {b1, b2}, Rel <- {"r1"}, Kind <- {"hot"}, EntryCapacity <- 2,
    HashCapacity <- 4, ArenaSize <- 4,
    PayloadSize <- [x \in {<<"r1", "hot">>} |-> 2],
    Priority <- [r \in {"r1"} |-> 1], Database <- [r \in {"r1"} |-> "db"],
    KeyHash <- Bucket, MaxRoot <- 2, MaxEpoch <- 1

\* One term, full records and a full manifest.
Folds == INSTANCE TermFolds WITH
    Terms <- {1}, Slots <- {s1, s2, s3},
    Contents <- {[lex |-> {1}, sem |-> {1}]}, MaxExtents <- 3, Pressure <- 2,
    TargetTail <- 1, TierWidth <- 3, MaxSegments <- 6, MaxInputSegments <- 3,
    MaxInputBytes <- 4, ClassBytes <- 2, MaxCandidates <- 2, FoldBudget <- 20,
    MaxSequence <- 4, Features <- {}

\* A pending L0 among transactions, semantic jobs and a build.
Seals == INSTANCE DocumentLifecycle WITH
    MaxSequence <- 4, MaxSegmentId <- 8, MaxSlot <- 4, RotationLimit <- 1,
    MaxRecords <- 2, MaxSegments <- 4, Workload <- {"semantic", "accelerator"}

-----------------------------------------------------------------------------
\* The variables of WorkerLaunch, and of every other module, while another
\* module runs.
NoLaunches ==
    /\ limit = 0 /\ pending = 0 /\ stamp = "none" /\ active = 0
    /\ phases = [ph \in Phases |-> 0]
    /\ launcher = [l \in Launchers |-> [pc |-> "idle", limit |-> 0]]
    /\ proc = [p \in Procs |-> NoProc]
    /\ lost = 0 /\ reloads = 0 /\ forgotten = {} /\ late = FALSE

launchVars == vars

BesideWorkerLaunch ==
    <<sched, lastDb, work, cold, lock, worker, faults, process, queue,
      resp, client, lastId, starts, orphan, census, arena, current, view,
      token, pc, segments, record, document, residency, l0, baseline,
      sequence, root, manifest, status, rows, dead, job, accel, high, parent>>
WorkerLaunchAlone ==
    /\ sched = Idle /\ lastDb = Idle /\ work = Idle /\ cold = Idle
    /\ lock = Idle /\ worker = Idle /\ faults = Idle /\ process = Idle
    /\ queue = Idle /\ resp = Idle /\ client = Idle /\ lastId = Idle
    /\ starts = Idle /\ orphan = Idle /\ census = Idle /\ arena = Idle
    /\ current = Idle /\ view = Idle /\ token = Idle /\ pc = Idle
    /\ segments = Idle /\ record = Idle /\ document = Idle
    /\ residency = Idle /\ l0 = Idle /\ baseline = Idle /\ sequence = Idle
    /\ root = Idle /\ manifest = Idle /\ status = Idle /\ rows = Idle
    /\ dead = Idle /\ job = Idle /\ accel = Idle /\ high = Idle
    /\ parent = Idle

BesideMaintenanceScheduler ==
    <<launchVars, process, queue, resp, client, lastId, starts, orphan,
      census, arena, current, view, token, pc, segments, record, document,
      residency, l0, baseline, sequence, root, manifest, status, rows, dead,
      job, accel, high, parent>>
MaintenanceSchedulerAlone ==
    /\ NoLaunches /\ process = Idle /\ queue = Idle /\ resp = Idle
    /\ client = Idle /\ lastId = Idle /\ starts = Idle /\ orphan = Idle
    /\ census = Idle /\ arena = Idle /\ current = Idle /\ view = Idle
    /\ token = Idle /\ pc = Idle /\ segments = Idle /\ record = Idle
    /\ document = Idle /\ residency = Idle /\ l0 = Idle /\ baseline = Idle
    /\ sequence = Idle /\ root = Idle /\ manifest = Idle /\ status = Idle
    /\ rows = Idle /\ dead = Idle /\ job = Idle /\ accel = Idle
    /\ high = Idle /\ parent = Idle

BesideRuntimeService ==
    <<launchVars, sched, lastDb, work, cold, lock, faults, arena,
      current, view, token, pc, segments, record, document, residency, l0,
      baseline, sequence, root, manifest, status, rows, dead, job, accel,
      high, parent>>
RuntimeServiceAlone ==
    /\ NoLaunches /\ sched = Idle /\ lastDb = Idle /\ work = Idle
    /\ cold = Idle /\ lock = Idle /\ faults = Idle /\ arena = Idle
    /\ current = Idle /\ view = Idle /\ token = Idle /\ pc = Idle
    /\ segments = Idle /\ record = Idle /\ document = Idle
    /\ residency = Idle /\ l0 = Idle /\ baseline = Idle /\ sequence = Idle
    /\ root = Idle /\ manifest = Idle /\ status = Idle /\ rows = Idle
    /\ dead = Idle /\ job = Idle /\ accel = Idle /\ high = Idle
    /\ parent = Idle

BesideSharedPreload ==
    <<launchVars, sched, lastDb, work, cold, lock, worker, faults,
      process, queue, resp, client, lastId, starts, orphan, census,
      segments, record, document, residency, l0, baseline, sequence, root,
      manifest, status, rows, dead, job, accel, high, parent>>
SharedPreloadAlone ==
    /\ NoLaunches /\ sched = Idle /\ lastDb = Idle /\ work = Idle
    /\ cold = Idle /\ lock = Idle /\ worker = Idle /\ faults = Idle
    /\ process = Idle /\ queue = Idle /\ resp = Idle /\ client = Idle
    /\ lastId = Idle /\ starts = Idle /\ orphan = Idle /\ census = Idle
    /\ segments = Idle /\ record = Idle /\ document = Idle
    /\ residency = Idle /\ l0 = Idle /\ baseline = Idle /\ sequence = Idle
    /\ root = Idle /\ manifest = Idle /\ status = Idle /\ rows = Idle
    /\ dead = Idle /\ job = Idle /\ accel = Idle /\ high = Idle
    /\ parent = Idle

BesideTermFolds ==
    <<launchVars, sched, lastDb, work, cold, lock, worker, faults,
      process, queue, resp, client, lastId, starts, orphan, census, arena,
      current, view, token, pc, root, manifest, status, rows, dead, job,
      accel, high, parent>>
TermFoldsAlone ==
    /\ NoLaunches /\ sched = Idle /\ lastDb = Idle /\ work = Idle
    /\ cold = Idle /\ lock = Idle /\ worker = Idle /\ faults = Idle
    /\ process = Idle /\ queue = Idle /\ resp = Idle /\ client = Idle
    /\ lastId = Idle /\ starts = Idle /\ orphan = Idle /\ census = Idle
    /\ arena = Idle /\ current = Idle /\ view = Idle /\ token = Idle
    /\ pc = Idle /\ root = Idle /\ manifest = Idle /\ status = Idle
    /\ rows = Idle /\ dead = Idle /\ job = Idle /\ accel = Idle
    /\ high = Idle /\ parent = Idle

BesideDocumentLifecycle ==
    <<launchVars, sched, lastDb, work, cold, lock, worker, faults,
      process, queue, resp, client, lastId, starts, orphan, census, arena,
      current, view, token, pc, segments, record, document, residency,
      baseline, sequence>>
DocumentLifecycleAlone ==
    /\ NoLaunches /\ sched = Idle /\ lastDb = Idle /\ work = Idle
    /\ cold = Idle /\ lock = Idle /\ worker = Idle /\ faults = Idle
    /\ process = Idle /\ queue = Idle /\ resp = Idle /\ client = Idle
    /\ lastId = Idle /\ starts = Idle /\ orphan = Idle /\ census = Idle
    /\ arena = Idle /\ current = Idle /\ view = Idle /\ token = Idle
    /\ pc = Idle /\ segments = Idle /\ record = Idle /\ document = Idle
    /\ residency = Idle /\ baseline = Idle /\ sequence = Idle

OnlyHints == UNCHANGED <<of, BesideMaintenanceScheduler>>
OnlyLaunch == UNCHANGED <<of, BesideWorkerLaunch>>
OnlyLaunches == LaunchesOnly /\ OnlyLaunch
OnlyRequests == UNCHANGED <<of, BesideRuntimeService>>
OnlyPreloads == UNCHANGED <<of, BesideSharedPreload>>
OnlyFolds == UNCHANGED <<of, BesideTermFolds>>
OnlySeals == UNCHANGED <<of, BesideDocumentLifecycle>>

SuiteInit ==
    \/ /\ of \in {"Launches", "Crowded", "TwoSlots"}
       /\ Init /\ WorkerLaunchAlone
       /\ of # "TwoSlots" => limit = 1
    \/ of = "Hints" /\ Hints!Init /\ MaintenanceSchedulerAlone
    \/ of = "Requests" /\ Requests!Init /\ RuntimeServiceAlone
    \/ of = "Preloads" /\ Preloads!Init /\ SharedPreloadAlone
    \/ of = "Folds" /\ Folds!Init /\ TermFoldsAlone
    \/ of = "Seals" /\ Seals!Init /\ DocumentLifecycleAlone

SuiteNext ==
    \/ of = "Launches" /\ Next /\ OnlyLaunches
    \/ of = "Crowded" /\ Next /\ CrowdedOnly /\ OnlyLaunch
    \/ of = "TwoSlots" /\ Next /\ TwoSlotsOnly /\ OnlyLaunch
    \/ of = "Hints" /\ Hints!Next /\ OnlyHints
    \/ of = "Requests" /\ Requests!Next /\ OnlyRequests
    \/ of = "Preloads" /\ Preloads!Next /\ OnlyPreloads
    \/ of = "Folds" /\ Folds!Next /\ OnlyFolds
    \/ of = "Seals" /\ Seals!Next /\ OnlySeals

full == <<of, launchVars, BesideWorkerLaunch>>

(* The supervisor ticks, a worker that can go on goes on, timers run out,  *)
(* and an action that keeps being tried is not deferred for ever, since    *)
(* transactions end and readers leave.                                     *)
HintsFairness ==
    /\ WF_full(of = "Hints" /\ Hints!Launch(1) /\ OnlyHints)
    /\ WF_full(of = "Hints" /\ Hints!WorkerStep(1) /\ OnlyHints)
    /\ SF_full(of = "Hints" /\ Hints!Seal(1) /\ OnlyHints)
    /\ SF_full(of = "Hints" /\ Hints!Preload(1) /\ OnlyHints)
    /\ WF_full(/\ of = "Hints"
               /\ \E s \in {0, 1} : Hints!Age(s) \/ Hints!CoolDown(s)
               /\ OnlyHints)
    /\ WF_full(/\ of = "Hints"
               /\ \E e \in Hints!Entries, flag \in Hints!Classes :
                      Hints!ReconcileDue(e, flag)
               /\ OnlyHints)

(* Launchers keep trying, a registered process starts or is lost, a worker *)
(* finishes and exits, and the clock runs.                                 *)
LaunchesFairness ==
    /\ WF_full(of = "Launches" /\ LauncherStep(l1) /\ OnlyLaunches)
    /\ \A p \in {p1, p2} :
         /\ WF_full(of = "Launches" /\ ProcStep(p) /\ OnlyLaunches)
         /\ WF_full(/\ of = "Launches"
                    /\ proc[p].pc = "exit" /\ Exit(p) /\ OnlyLaunches)
    /\ WF_full(of = "Launches" /\ LaunchTimeout /\ OnlyLaunches)

(* Backends and workers poll: every latch wait has a timeout.  A model run *)
(* returns unless the provider hangs.  Interrupts, exits and new           *)
(* statements are not promised.                                            *)
WorkerGoesOn(w) ==
    \/ Requests!WorkerStart(w) \/ Requests!Dispatch(w)
    \/ Requests!DropCanceled(w)
    \/ \E error \in BOOLEAN : Requests!RunReturns(w, error)
    \/ Requests!StoreBegin(w) \/ Requests!FillResponse(w)
    \/ Requests!StoreEnd(w)

RequestsFairness ==
    /\ \A b \in {b1, b2} :
         /\ WF_full(/\ of = "Requests"
                    /\ \/ Requests!Enqueue(b) \/ Requests!SeeAnswer(b)
                       \/ Requests!TakeAnswer(b)
                    /\ OnlyRequests)
         /\ WF_full(/\ of = "Requests"
                    /\ Requests!Ready = {} /\ Requests!CancelWait(b) /\ OnlyRequests)
    /\ \A w \in {w1, w2} :
         WF_full(of = "Requests" /\ WorkerGoesOn(w) /\ OnlyRequests)
    /\ WF_full(/\ of = "Requests"
               /\ \/ Requests!DropOrphan(s1)
                  \/ \E s \in Requests!Slots : Requests!LookForOrphan(s1, s)
               /\ OnlyRequests)
    /\ WF_full(/\ of = "Requests"
               /\ \E w \in {w1, w2} : Requests!LookForDeadWorker(w)
               /\ OnlyRequests)
    /\ WF_full(of = "Requests" /\ Requests!MarkDeadWorker /\ OnlyRequests)

(* Queries end and builds finish; a release, once begun, runs to its end.  *)
PreloadsFairness ==
    \A b \in {b1, b2} :
        /\ WF_full(/\ of = "Preloads"
                   /\ Preloads!LeaseRelease(b) \/ Preloads!LeaseRetire(b)
                   /\ OnlyPreloads)
        /\ WF_full(/\ of = "Preloads"
                   /\ Preloads!Commit(b) \/ Preloads!Abort(b)
                   /\ OnlyPreloads)
        /\ WF_full(of = "Preloads" /\ Preloads!Decrement(b) /\ OnlyPreloads)
        /\ WF_full(of = "Preloads" /\ Preloads!SharedCheck(b) /\ OnlyPreloads)
        /\ WF_full(of = "Preloads" /\ Preloads!ExclusiveFree(b) /\ OnlyPreloads)

(* The maintenance worker comes back to an index with strict debt.         *)
FoldsFairness ==
    /\ WF_full(of = "Folds" /\ Folds!Seal /\ OnlyFolds)
    /\ WF_full(of = "Folds" /\ Folds!Compact /\ OnlyFolds)
    /\ WF_full(of = "Folds" /\ Folds!FoldForward /\ OnlyFolds)
    /\ WF_full(of = "Folds" /\ Folds!StructuralFold /\ OnlyFolds)

(* Sessions end their transactions; the maintenance worker is launched     *)
(* again and again and each of its jobs and the accelerator build run to   *)
(* their end.                                                              *)
SealsFairness ==
    /\ \A x \in 1 .. 4 :
         WF_full(of = "Seals" /\ (Seals!Commit(x) \/ Seals!Abort(x)) /\ OnlySeals)
    /\ WF_full(of = "Seals" /\ Seals!SealBuild /\ OnlySeals)
    /\ WF_full(of = "Seals" /\ (Seals!SealPublish \/ Seals!SealGiveUp) /\ OnlySeals)
    /\ WF_full(/\ of = "Seals"
               /\ Seals!SemanticAppend("COMPLETE") \/ Seals!SemanticGiveUp
               /\ OnlySeals)
    /\ WF_full(/\ of = "Seals"
               /\ Seals!CompactPublish \/ Seals!CompactGiveUp
               /\ OnlySeals)
    /\ WF_full(/\ of = "Seals"
               /\ Seals!AcceleratorPublish \/ Seals!AcceleratorGiveUp
               /\ OnlySeals)

(* The costlier ones are assumed by the properties that need them.      *)
SuiteSpec ==
    /\ SuiteInit /\ [][SuiteNext]_full
    /\ LaunchesFairness

-----------------------------------------------------------------------------
\* The pending L0 of every index is sealed in the end, whatever the others do.
PendingSealed ==
    HintsFairness => (
      \A i \in {1, 2} :
          (of = "Hints" /\ "pending" \in work[i])
              ~> (of = "Hints" => "pending" \notin work[i] \/ Hints!Exhausted))

\* A cold index is preloaded in the end.
ColdIndexPreloaded ==
    HintsFairness => (
      \A i \in {1, 2} :
          (of = "Hints" /\ i \in cold)
              ~> (of = "Hints" => i \notin cold \/ Hints!Exhausted))

\* A reservation whose process never starts does not end launching: launches
\* go on for ever while the limit allows any.
LaunchingResumes ==
    \/ <>[](of = "Launches" => limit = 0)
    \/ []<><<of = "Launches" /\ \E p \in {p1, p2} : Register(l1, p)>>_full

\* Once the limit is zero for good, all workers drain.
ZeroLimitDrains ==
    <>[](of = "Launches" /\ limit = 0)
        => <>[](of = "Launches" => Alive = {})

\* A backend that waits for an answer stops waiting, with a result or an
\* error, whatever workers exit in between and whoever has its model loaded.
Answered ==
    RequestsFairness => (
      \A b \in {b1, b2} :
          (of = "Requests" /\ client[b].pc = "wait")
              ~> (of = "Requests" => client[b].pc # "wait"))

\* Every slot of a vanished or canceled statement is freed again.
SlotsReturned ==
    RequestsFairness => (
      \A s \in Requests!Slots :
          (/\ of = "Requests" /\ resp[s].id # 0
           /\ ~\E b \in {b1, b2} : /\ client[b].pc \in {"wait", "copy"}
                                   /\ client[b].id = resp[s].id)
              ~> (of = "Requests" => resp[s].id = 0))

\* A retired block comes back to the arena once its readers are done.
ObsoleteReclaimed ==
    PreloadsFairness => (
      \A s \in Preloads!Slot :
          (of = "Preloads" /\ arena.entries[s].obsolete)
              ~> (of = "Preloads" => ~arena.entries[s].obsolete))

\* A batch waiting in L0 is eventually sealed: when a record or the manifest
\* is full, compaction, the fold in its way or a structural fold makes room.
EventuallySealed ==
    FoldsFairness => (
      (of = "Folds" /\ l0 # {}) ~> (of = "Folds" => l0 = {}))

\* A rotated L0 is sealed in the end: neither open transactions, nor semantic
\* jobs, nor an accelerator build, nor lost publications hold it up for ever.
PendingEventuallySealed ==
    SealsFairness => (
      (of = "Seals" /\ ~Seals!Absent(root.pending_l0))
          ~> (of = "Seals" => Seals!Absent(root.pending_l0)
                                \/ Seals!IdsExhausted))

-----------------------------------------------------------------------------
(* What the run checks.                                                    *)

\* Strict debt is served, a cold index preloaded, launching goes on after lost
\* launches, and workers drain when the limit is zero.
WorkServed ==
    /\ PendingSealed /\ ColdIndexPreloaded /\ LaunchingResumes
    /\ ZeroLimitDrains

\* A waiting backend gets its answer, its slot is returned in the end, and a
\* retired block comes back to the arena.
ServicesAnswer ==
    /\ Answered /\ SlotsReturned /\ ObsoleteReclaimed

\* What waits in L0 is sealed in the end, whatever stands in its way.
BatchesSealed ==
    /\ EventuallySealed /\ PendingEventuallySealed

=============================================================================
