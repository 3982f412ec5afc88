------------------------ MODULE MCDocumentLifecycle ------------------------
(*****************************************************************************)
(* The life of a document, from the foreground append to VACUUM: the index   *)
(* under workloads that combine its jobs two and three at a time, in one     *)
(* run.  A behaviour belongs to one workload; the state spaces add up.  The  *)
(* constants of this module are the largest of them: a step of any workload  *)
(* is a step of the index with these constants.                              *)
(*****************************************************************************)
EXTENDS DocumentLifecycle, TLC

VARIABLE of    \* the workload the behaviour belongs to

-----------------------------------------------------------------------------
\* VACUUM against seals and compactions.
Vacuums == INSTANCE DocumentLifecycle WITH
    MaxSequence <- 6, MaxSegmentId <- 9, MaxSlot <- 5, RotationLimit <- 2,
    MaxRecords <- 3, MaxSegments <- 3, Workload <- {"vacuum", "compaction"}

\* Semantic completion joins them.
Completions == INSTANCE DocumentLifecycle WITH
    MaxSequence <- 5, MaxSegmentId <- 10, MaxSlot <- 5, RotationLimit <- 2,
    MaxRecords <- 3, MaxSegments <- 3,
    Workload <- {"semantic", "vacuum", "compaction"}

\* VACUUM is interrupted, loses the fence, or makes a second pass.
Interrupts == INSTANCE DocumentLifecycle WITH
    MaxSequence <- 5, MaxSegmentId <- 9, MaxSlot <- 5, RotationLimit <- 2,
    MaxRecords <- 3, MaxSegments <- 3,
    Workload <- {"vacuum", "compaction", "interrupt", "fenceBusy", "multiPass"}

\* A manifest of two segments at most.
Limits == INSTANCE DocumentLifecycle WITH
    MaxSequence <- 4, MaxSegmentId <- 8, MaxSlot <- 4, RotationLimit <- 2,
    MaxRecords <- 3, MaxSegments <- 2, Workload <- {"compaction"}

\* An accelerator build in the background, and crashes.
Crashes == INSTANCE DocumentLifecycle WITH
    MaxSequence <- 5, MaxSegmentId <- 6, MaxSlot <- 5, RotationLimit <- 2,
    MaxRecords <- 3, MaxSegments <- 3,
    Workload <- {"semantic", "accelerator", "crash"}

\* What the modules assume of their constants.
ASSUME InstancesAssumption ==
    /\ DocumentLifecycleAssumption
    /\ Vacuums!DocumentLifecycleAssumption
    /\ Completions!DocumentLifecycleAssumption
    /\ Interrupts!DocumentLifecycleAssumption
    /\ Crashes!DocumentLifecycleAssumption
    /\ Limits!DocumentLifecycleAssumption

-----------------------------------------------------------------------------
SuiteInit == Init /\ of \in {"Vacuums", "Completions", "Interrupts", "Limits", "Crashes"}

SuiteNext ==
    /\ \/ of = "Vacuums" /\ Vacuums!Next
       \/ of = "Completions" /\ Completions!Next
       \/ of = "Interrupts" /\ Interrupts!Next
       \/ of = "Limits" /\ Limits!Next
       \/ of = "Crashes" /\ Crashes!Next
    /\ UNCHANGED of

SuiteSpec == SuiteInit /\ [][SuiteNext]_<<vars, of>>

-----------------------------------------------------------------------------
(* What the run checks.                                                    *)

\* A query returns committed rows only, and never a row that VACUUM has let
\* the heap free.
AnswersFresh == of \in {"Vacuums", "Completions"} => NoStaleResult

\* Whatever VACUUM, compaction or a semantic result did meanwhile, the pending
\* L0 can be sealed, VACUUM's patch is accepted, and after an interrupted
\* VACUUM adjacent segments can still be merged.
MaintenanceAlwaysPossible ==
    /\ of \in {"Vacuums", "Completions", "Crashes"} => PendingSealable
    /\ of = "Vacuums" => PatchNeverRejected
    /\ of = "Interrupts" => AlwaysMergeable

\* A query never fails on the L0 it projects and never misses a committed live
\* document.
AnswersComplete ==
    /\ of # "Crashes" => QueryNeverErrors
    /\ of # "Completions" => NoLostDocument

\* The statistics and the residency of the document records agree with what
\* the segments hold, publication after publication, and the manifest never
\* has more segments than its limit.
RecordsExact ==
    /\ of = "Vacuums" => Vacuums!TypeOK
    /\ of = "Limits" => Limits!TypeOK
    /\ of \in {"Vacuums", "Interrupts"} => StatisticsExact
    /\ of # "Crashes" => ResidencyExact
=============================================================================
