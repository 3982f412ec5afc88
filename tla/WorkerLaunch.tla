---------------------------- MODULE WorkerLaunch ----------------------------
(***************************************************************************)
(* Admission of background workers: a launcher (the supervisor or a        *)
(* committing session) reserves a launch in shared memory and registers a  *)
(* dynamic worker; the process adopts the reservation, connects, takes one *)
(* of the cluster-wide worker slots, works and exits.  Registration may    *)
(* fail, a registered process may never start, may hang while it connects, *)
(* and may be terminated anywhere.                                         *)
(***************************************************************************)
EXTENDS Integers, FiniteSets, FiniteSetsExt

CONSTANTS
  Launchers,   \* processes that launch workers
  Procs,       \* background worker processes there may be at a time
  MaxLimit,    \* largest evoke.maintenance_worker_limit set
  Losses,      \* bound on processes that never start
  Reloads      \* bound on changes of the limit

LaunchAssumption ==
  /\ IsFiniteSet(Launchers) /\ IsFiniteSet(Procs)
  /\ MaxLimit \in Nat \ {0}
  /\ Losses \in Nat
  /\ Reloads \in Nat

VARIABLES
  limit,       \* maintenance_worker_limit in shared memory
  pending,     \* pending_maintenance_worker_launches
  stamp,       \* last_maintenance_worker_launch: none, fresh, or timed out
  active,      \* active_background_workers
  phases,      \* active_preload_workers and active_index_maintenance_workers
  launcher,    \* [Launchers -> [pc, limit]]
  proc,        \* [Procs -> [pc, counted, reserved, phase, slot]]
  lost,        \* processes that never started so far
  reloads,     \* changes of the limit so far
  forgotten,   \* history: adopted processes whose reservation timed out
  late         \* history: did a timeout forget a launch not yet adopted, or a
               \* forgotten process give back the reservation of another?

vars == <<limit, pending, stamp, active, phases, launcher, proc, lost, reloads,
          forgotten, late>>
history == <<forgotten, late>>

Phases == {"preload", "maintenance"}
NoSlot == -1

NoProc == [pc |-> "off", counted |-> FALSE, reserved |-> FALSE,
           phase |-> "idle", slot |-> NoSlot]

Init ==
  /\ limit \in 1 .. MaxLimit
  /\ pending = 0
  /\ stamp = "none"
  /\ active = 0
  /\ phases = [ph \in Phases |-> 0]
  /\ launcher = [l \in Launchers |-> [pc |-> "idle", limit |-> 0]]
  /\ proc = [p \in Procs |-> NoProc]
  /\ lost = 0
  /\ reloads = 0
  /\ forgotten = {}
  /\ late = FALSE

Decremented(n) == IF n > 0 THEN n - 1 ELSE 0

\* Processes registered with the postmaster and not yet gone.
Alive == { p \in Procs : proc[p].pc # "off" }

\* Launches between their reservation and the start of their process, and
\* processes that have not given theirs back.
Launching == { l \in Launchers : launcher[l].pc = "register" } \cup
             { p \in Procs : proc[p].pc = "queued" }
Reserved == { p \in Procs : proc[p].reserved }

-----------------------------------------------------------------------------
(***************************************************************************)
(* Launching.                                                              *)
(***************************************************************************)
\* evoke.maintenance_worker_limit is reloaded.
SetLimit(n) ==
  /\ reloads < Reloads
  /\ n # limit
  /\ limit' = n
  /\ reloads' = reloads + 1
  /\ UNCHANGED <<pending, stamp, active, phases, launcher, proc, lost, history>>

\* evoke_am_launch_background_maintenance reads the limit ...
ReadLimit(l) ==
  /\ launcher[l].pc = "idle"
  /\ limit > 0
  /\ launcher' = [launcher EXCEPT ![l] = [pc |-> "reserve", limit |-> limit]]
  /\ UNCHANGED <<limit, pending, stamp, active, phases, proc, lost, reloads, history>>

\* The timeout of the last launch has passed, or there is none.
PruneDue == pending > 0 /\ stamp # "fresh"

\* evoke_am_scheduler_prune_worker_launches_locked.
PendingNow == IF PruneDue THEN 0 ELSE pending

\* ... and reserves, or gives up when the limit is reached.
TryReserve(l) ==
  /\ launcher[l].pc = "reserve"
  /\ late' = (late \/ (PruneDue /\ Launching # {}))
  /\ forgotten' = IF PruneDue THEN forgotten \cup Reserved ELSE forgotten
  /\ IF active + PendingNow >= Max({launcher[l].limit, 1})
     THEN /\ pending' = PendingNow
          /\ stamp' = IF PendingNow = 0 THEN "none" ELSE stamp
          /\ launcher' = [launcher EXCEPT ![l].pc = "idle"]
     ELSE /\ pending' = PendingNow + 1
          /\ stamp' = "fresh"
          /\ launcher' = [launcher EXCEPT ![l].pc = "register"]
  /\ UNCHANGED <<limit, active, phases, proc, lost, reloads>>

\* RegisterDynamicBackgroundWorker finds a free postmaster slot, ...
Register(l, p) ==
  /\ launcher[l].pc = "register"
  /\ proc[p].pc = "off"
  /\ proc' = [proc EXCEPT ![p].pc = "queued"]
  /\ launcher' = [launcher EXCEPT ![l].pc = "idle"]
  /\ UNCHANGED <<limit, pending, stamp, active, phases, lost, reloads, history>>

\* ... or none, and the reservation is released.
RegisterFails(l) ==
  /\ launcher[l].pc = "register"
  /\ Alive = Procs
  /\ pending' = Decremented(pending)
  /\ stamp' = IF pending' = 0 THEN "none" ELSE stamp
  /\ launcher' = [launcher EXCEPT ![l].pc = "idle"]
  /\ UNCHANGED <<limit, active, phases, proc, lost, reloads, history>>

\* Thirty seconds pass since the last launch.
LaunchTimeout ==
  /\ stamp = "fresh"
  /\ stamp' = "old"
  /\ UNCHANGED <<limit, pending, active, phases, launcher, proc, lost, reloads, history>>

-----------------------------------------------------------------------------
(***************************************************************************)
(* A worker process.                                                       *)
(***************************************************************************)
\* The postmaster cannot start the process and never tries again.
Lose(p) ==
  /\ proc[p].pc = "queued"
  /\ lost < Losses
  /\ lost' = lost + 1
  /\ proc' = [proc EXCEPT ![p] = NoProc]
  /\ UNCHANGED <<limit, pending, stamp, active, phases, launcher, reloads, history>>

\* evoke_am_scheduler_process_adopt_worker_launch: the process counts as
\* active before it connects, on top of its reservation.
Adopt(p) ==
  /\ proc[p].pc = "queued"
  /\ proc' = [proc EXCEPT ![p].pc = "connect", ![p].reserved = TRUE, ![p].counted = TRUE]
  /\ active' = active + 1
  /\ UNCHANGED <<limit, pending, stamp, phases, launcher, lost, reloads, history>>

\* evoke_am_scheduler_process_release_worker_launch.
GiveBack(p) ==
  /\ pending' = IF proc[p].reserved THEN Decremented(pending) ELSE pending
  /\ stamp' = IF proc[p].reserved /\ pending' = 0 THEN "none" ELSE stamp
  /\ forgotten' = forgotten \ {p}
  /\ late' = (late \/ (p \in forgotten /\ pending > 0))

FreeSlots == (0 .. limit - 1) \ { proc[p].slot : p \in Procs }

\* Connected, the catalog is current and evoke_am_try_maintenance_worker_slot
\* finds a slot: the reservation is given back, the worker starts.
Admit(p) ==
  /\ proc[p].pc = "connect"
  /\ FreeSlots # {}
  /\ GiveBack(p)
  /\ proc' = [proc EXCEPT ![p].pc = "work", ![p].reserved = FALSE,
                          ![p].counted = TRUE, ![p].slot = Min(FreeSlots)]
  /\ active' = IF proc[p].counted THEN active ELSE active + 1
  /\ UNCHANGED <<limit, phases, launcher, lost, reloads>>

\* No slot, or the extension's catalog is not current.
Refuse(p) ==
  /\ proc[p].pc = "connect"
  /\ GiveBack(p)
  /\ proc' = [proc EXCEPT ![p].pc = "exit", ![p].reserved = FALSE]
  /\ UNCHANGED <<limit, active, phases, launcher, lost, reloads>>

\* The counters after p changes to a phase (change_worker_phase).
PhasesAfter(p, ph) ==
  [q \in Phases |-> IF q = ph /\ proc[p].phase # ph THEN phases[q] + 1
                    ELSE IF q = proc[p].phase /\ proc[p].phase # ph
                    THEN Decremented(phases[q]) ELSE phases[q]]

\* evoke_am_scheduler_process_set_phase in the worker's loop.
SetPhase(p, ph) ==
  /\ proc[p].pc = "work"
  /\ proc[p].phase # ph
  /\ phases' = PhasesAfter(p, ph)
  /\ proc' = [proc EXCEPT ![p].phase = ph]
  /\ UNCHANGED <<limit, pending, stamp, active, launcher, lost, reloads, history>>

\* evoke_am_scheduler_process_note_finished.
NoteFinished(p) ==
  /\ phases' = PhasesAfter(p, "idle")
  /\ active' = IF proc[p].counted THEN Decremented(active) ELSE active

\* The loop ends: the worker stops counting, then releases its slot.
Finish(p) ==
  /\ proc[p].pc = "work"
  /\ NoteFinished(p)
  /\ proc' = [proc EXCEPT ![p].pc = "exit", ![p].counted = FALSE, ![p].phase = "idle"]
  /\ UNCHANGED <<limit, pending, stamp, launcher, lost, reloads, history>>

\* Mutant: only the launch callback runs at exit.
ExitCounted(p) ==
  /\ proc[p].pc \in {"connect", "work", "exit"}
  /\ GiveBack(p)
  /\ proc' = [proc EXCEPT ![p] = NoProc]
  /\ UNCHANGED <<limit, active, phases, launcher, lost, reloads>>

\* The process exits, in the end or terminated at any point after adopting:
\* its before_shmem_exit callbacks give back the reservation and the count,
\* and its session locks go.
Exit(p) ==
  /\ proc[p].pc \in {"connect", "work", "exit"}
  /\ GiveBack(p)
  /\ NoteFinished(p)
  /\ proc' = [proc EXCEPT ![p] = NoProc]
  /\ UNCHANGED <<limit, launcher, lost, reloads>>

-----------------------------------------------------------------------------
LauncherStep(l) ==
  ReadLimit(l) \/ TryReserve(l) \/ RegisterFails(l) \/ \E p \in Procs : Register(l, p)

ProcStep(p) == Adopt(p) \/ Admit(p) \/ Refuse(p) \/ Finish(p)

Next ==
  \/ \E l \in Launchers : LauncherStep(l)
  \/ \E p \in Procs : \/ ProcStep(p) \/ Exit(p) \/ Lose(p)
                      \/ \E ph \in Phases : SetPhase(p, ph)
  \/ \E n \in 0 .. MaxLimit : SetLimit(n)
  \/ LaunchTimeout

Spec == Init /\ [][Next]_vars

-----------------------------------------------------------------------------
TypeOK ==
  /\ limit \in 0 .. MaxLimit
  /\ pending \in Nat
  /\ stamp \in {"none", "fresh", "old"}
  /\ active \in Nat
  /\ phases \in [Phases -> Nat]
  /\ launcher \in [Launchers -> [pc : {"idle", "reserve", "register"}, limit : 0 .. MaxLimit]]
  /\ proc \in [Procs -> [pc : {"off", "queued", "connect", "work", "exit"},
                         counted : BOOLEAN, reserved : BOOLEAN,
                         phase : Phases \cup {"idle"}, slot : -1 .. MaxLimit - 1]]
  /\ lost \in 0 .. Losses
  /\ reloads \in 0 .. Reloads
  /\ forgotten \subseteq Procs
  /\ late \in BOOLEAN

\* The shared counters say how many processes are active and what they do,
\* whichever way processes end: normal end, refusal, termination, with the
\* finish noted by the loop and again by the exit callback.
CountersExact ==
  /\ active = Cardinality({ p \in Procs : proc[p].counted })
  /\ \A ph \in Phases : phases[ph] = Cardinality({ p \in Procs : proc[p].phase = ph })

\* Every live process and every launch between reservation and registration
\* is counted, so no more processes exist than the limit admits, however long
\* some of them hang while they connect and whatever the timeout forgets of
\* them.  This is what counting a process before it connects is for; it does
\* not cover a launch whose process starts only after the timeout.
AdmissionBounded ==
  ~late => /\ Cardinality(Alive) <= MaxLimit + Cardinality({ p \in Procs : proc[p].pc = "exit" })
           /\ pending >= Cardinality(Launching) + Cardinality(Reserved \ forgotten)

\* Work runs under distinct slots below the largest limit.
SlotsDistinct ==
  \A p, q \in Procs : (p # q /\ proc[p].slot # NoSlot) => proc[p].slot # proc[q].slot

\* Reservations and active workers are counted once each, bounded by the
\* limit, under distinct slots, whoever starts late, dies or never starts.
AdmissionExact ==
  /\ CountersExact /\ AdmissionBounded /\ SlotsDistinct

=============================================================================
