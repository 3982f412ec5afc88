--------------------------- MODULE MCMaintenance ---------------------------
(*****************************************************************************)
(* Who finds work and who does it: MaintenanceScheduler in several scenarios *)
(* in one run. A behaviour belongs to one scenario; the state spaces add up. *)
(* The constants of this module are those of the scenario HintRaces, and the *)
(* invariants of the component are checked with them in every scenario: they *)
(* quantify over the indexes and workers a state has.                        *)
(*****************************************************************************)
EXTENDS MaintenanceScheduler, TLC

VARIABLE of    \* the scenario the behaviour belongs to

\* All indexes hash to one slot, so that every probe runs over the others.
Colliding(indexes) == [i \in indexes |-> 0]
OneDatabase(indexes) == [i \in indexes |-> 1]
Together == Colliding({1, 2})
Both == OneDatabase({1, 2})

-----------------------------------------------------------------------------
\* One worker alone.
OneWorker == worker'[2].pc = "off"

\* The second worker starts while the first builds.
DuringBuild ==
    worker'[2].pc # "off" => worker[2].pc # "off" \/ worker[1].pc = "build"

\* Writers mark two indexes while a worker reads, serves and clears hints:
\* this module's own constants.

\* Two workers compete for one index.
TwoWorkers == INSTANCE MaintenanceScheduler WITH
    Indexes <- {1}, Home <- Colliding({1}), DbOf <- OneDatabase({1}), Preloads <- {1},
    Capacity <- 1, Workload <- {}, MaxSequence <- 3

\* Two workers on one index, the second while the first builds the accelerator
\* ahead of semantic completion; no preload marks the index.
Builds == INSTANCE MaintenanceScheduler WITH
    Indexes <- {1}, Home <- Colliding({1}), DbOf <- OneDatabase({1}), Preloads <- {},
    Capacity <- 1, Derived <- {"accel", "semantic"}, Workload <- {},
    MaxSequence <- 4

\* One worker among every kind of debt.
AllDebts == INSTANCE MaintenanceScheduler WITH
    Indexes <- {1}, Home <- Colliding({1}), DbOf <- OneDatabase({1}), Preloads <- {},
    Capacity <- 1, Derived <- {"semantic", "structural", "tail", "heat", "accel", "eligible"},
    Workload <- {"write"}, MaxSequence <- 2

\* One worker that is set back: busy relations, lost and blocked builds.
Setbacks == INSTANCE MaintenanceScheduler WITH
    Indexes <- {1}, Home <- Colliding({1}), DbOf <- OneDatabase({1}), Preloads <- {1},
    Capacity <- 1, Derived <- {"structural", "tail", "accel"},
    Workload <- {"write", "setback"}, MaxSequence <- 3

\* A hint table with one slot for two indexes.
HintOverflow == INSTANCE MaintenanceScheduler WITH
    Capacity <- 1, Workload <- {"write", "cache"}, MaxSequence <- 2

\* A second database, without indexes, takes the only reconciliation entry.
Evictions == INSTANCE MaintenanceScheduler WITH
    Workers <- {1}, Databases <- {1, 2},
    Workload <- {"write", "query", "cache"}, MaxSequence <- 2

\* Selections and actions that fail, of two indexes in one list.
Errors == INSTANCE MaintenanceScheduler WITH
    Workers <- {1}, Preloads <- {2}, Workload <- {"write", "error"}, MaxSequence <- 2

\* Actions that fail, and a terminated worker.
Faults == INSTANCE MaintenanceScheduler WITH
    Indexes <- {1}, Home <- Colliding({1}), DbOf <- OneDatabase({1}), Preloads <- {1},
    Capacity <- 1, Derived <- {"accel"}, Workload <- {"write", "query", "error"},
    Terminations <- 1, MaxSequence <- 2

\* What the modules assume of their constants.
ASSUME InstancesAssumption ==
    /\ WorkHintsAssumption
    /\ SchedulerAssumption
    /\ TwoWorkers!WorkHintsAssumption
    /\ TwoWorkers!SchedulerAssumption
    /\ Builds!SchedulerAssumption
    /\ AllDebts!SchedulerAssumption
    /\ Setbacks!SchedulerAssumption
    /\ HintOverflow!SchedulerAssumption
    /\ Evictions!SchedulerAssumption
    /\ Errors!SchedulerAssumption
    /\ Faults!SchedulerAssumption

\* ... and what the theorems about announced work assume beyond that.
ASSUME TablesSuffice ==
    /\ TableSuffices /\ EntriesSuffice
    /\ TwoWorkers!TableSuffices /\ TwoWorkers!EntriesSuffice
    /\ Builds!TableSuffices /\ Builds!EntriesSuffice
    /\ AllDebts!TableSuffices /\ AllDebts!EntriesSuffice
    /\ Setbacks!TableSuffices /\ Setbacks!EntriesSuffice
    /\ HintOverflow!EntriesSuffice
    /\ Evictions!TableSuffices /\ Evictions!EntriesSuffice
    /\ Errors!TableSuffices /\ Errors!EntriesSuffice
    /\ Faults!TableSuffices /\ Faults!EntriesSuffice

-----------------------------------------------------------------------------
SuiteInit ==
    \/ of = "HintRaces" /\ Init
    \/ of = "TwoWorkers" /\ TwoWorkers!Init
    \/ of = "Builds" /\ Builds!Init /\ work[1] = {"accel", "semantic"}
    \/ of = "AllDebts" /\ AllDebts!Init /\ Cardinality(work[1]) = 5
    \/ of = "Setbacks" /\ Setbacks!Init /\ cold = {}
    \/ of = "HintOverflow" /\ HintOverflow!Init
    \/ of = "Evictions" /\ Evictions!Init
    \/ of = "Errors" /\ Errors!Init /\ "pending" \in work[1] /\ cold = {}
    \/ of = "Faults" /\ Faults!Init /\ "accel" \notin work[1]

SuiteNext ==
    \/ of = "HintRaces" /\ Next /\ OneWorker /\ UNCHANGED of
    \/ of = "TwoWorkers" /\ TwoWorkers!Next /\ UNCHANGED of
    \/ of = "Builds" /\ Builds!Next /\ DuringBuild /\ worker'[1].cursor = 0 /\ UNCHANGED of
    \/ of = "AllDebts" /\ AllDebts!Next /\ OneWorker /\ UNCHANGED of
    \/ of = "Setbacks" /\ Setbacks!Next /\ OneWorker /\ UNCHANGED of
    \/ of = "HintOverflow" /\ HintOverflow!Next /\ OneWorker /\ UNCHANGED of
    \/ of = "Evictions" /\ Evictions!Next /\ UNCHANGED of
    \/ of = "Errors" /\ Errors!Next /\ UNCHANGED of
    \/ of = "Faults" /\ Faults!Next /\ OneWorker /\ UNCHANGED of

SuiteSpec == SuiteInit /\ [][SuiteNext]_<<of, vars>>

-----------------------------------------------------------------------------
\* Every variable has its type: the constants are those of HintRaces.
SchedulerTyped == of = "HintRaces" => TypeOK

=============================================================================
