------------------------------ MODULE MCFolds ------------------------------
(*****************************************************************************)
(* What maintenance makes of postings and of the records of documents:       *)
(* instances of TermFolds and of DocumentTree in one run. A behaviour        *)
(* belongs to one instance; the state spaces add up. The document trees have *)
(* two records a leaf and two children a node.                               *)
(*****************************************************************************)
EXTENDS Integers, TLC

CONSTANTS s1, s2, s3, s4, t1, t2, t3

VARIABLES
    of,   \* the instance the behaviour belongs to
    segments, record, document, residency, l0, baseline, sequence,
    store, root, records, retired, held, rejected

\* The value of the variables of modules no instance of which runs.
Idle == 0

OneTerm == {[lex |-> {1}, sem |-> {1}]}
TwoTerms == {[lex |-> {1}, sem |-> {}], [lex |-> {1, 2}, sem |-> {}]}

Symmetric == Permutations({s1, s2, s3, s4}) \cup Permutations({t1, t2, t3})

-----------------------------------------------------------------------------
\* One term with workload folds, specialized impacts and vacuum.
SingleTerm == INSTANCE TermFolds WITH
    Terms <- {1}, Slots <- {t1, t2, t3}, Contents <- OneTerm, MaxExtents <- 4,
    Pressure <- 3, TargetTail <- 1, TierWidth <- 3, MaxSegments <- 5,
    MaxInputSegments <- 3, MaxInputBytes <- 20, ClassBytes <- 2,
    MaxCandidates <- 2, FoldBudget <- 20, MaxSequence <- 4,
    Features <- {"workload", "vacuum"}

\* Two terms, where the fold of one stands in the way of a compaction.
InTheWay == INSTANCE TermFolds WITH
    Terms <- {1, 2}, Slots <- {s1, s2, s3, s4}, Contents <- TwoTerms,
    MaxExtents <- 4, Pressure <- 3, TargetTail <- 1, TierWidth <- 2,
    MaxSegments <- 5, MaxInputSegments <- 3, MaxInputBytes <- 7,
    ClassBytes <- 2, MaxCandidates <- 2, FoldBudget <- 20, MaxSequence <- 5,
    Features <- {"workload", "accelerator"}

\* A manifest that fills up, so that structural folds make room.
Structural == INSTANCE TermFolds WITH
    Terms <- {1}, Slots <- {s1, s2, s3, s4}, Contents <- OneTerm,
    MaxExtents <- 4, Pressure <- 3, TargetTail <- 1, TierWidth <- 3,
    MaxSegments <- 6, MaxInputSegments <- 3, MaxInputBytes <- 3,
    ClassBytes <- 2, MaxCandidates <- 2, FoldBudget <- 20, MaxSequence <- 5,
    Features <- {"accelerator"}

\* Patches of two slots beside a reader.
Documents == INSTANCE DocumentTree WITH
    LeafRecords <- 2, Fanout <- 2, Levels <- 2, Lengths <- {1}, Times <- {},
    Stages <- {"COMPLETE", "RETIRED", "REUSABLE", "HOLE"}, Blocks <- 1..40,
    InitialCounts <- {0, 3}, MaxSlots <- 5, MaxPublications <- 3,
    MaxUpdates <- 2, MaxReaders <- 1

\* Every stage but holes, two lengths, one slot a patch.
Searches == INSTANCE DocumentTree WITH
    LeafRecords <- 2, Fanout <- 2, Levels <- 2, Lengths <- {1, 2},
    Times <- {1},
    Stages <- {"COMPLETE", "RETIRED", "REUSABLE", "QUARANTINED", "PENDING"},
    Blocks <- 1..40, InitialCounts <- {3}, MaxSlots <- 5,
    MaxPublications <- 4, MaxUpdates <- 1, MaxReaders <- 0

\* Batches that fill slots out of born order.
BornOrder == INSTANCE DocumentTree WITH
    LeafRecords <- 2, Fanout <- 2, Levels <- 2, Lengths <- {1}, Times <- {},
    Stages <- {"HOLE", "PENDING", "COMPLETE"}, Blocks <- 1..40,
    InitialCounts <- {0}, MaxSlots <- 4, MaxPublications <- 3,
    MaxUpdates <- 3, MaxReaders <- 0

\* What the modules assume of their constants.
ASSUME InstancesAssumption ==
    /\ SingleTerm!FoldsAssumption
    /\ InTheWay!FoldsAssumption
    /\ Structural!FoldsAssumption
    /\ Documents!ShapeAssumption
    /\ Searches!ShapeAssumption
    /\ BornOrder!ShapeAssumption

-----------------------------------------------------------------------------
FoldVars == <<segments, record, document, residency, l0, baseline, sequence>>
TreeVars == <<store, root, records, retired, held, rejected>>

IdleFolds ==
    /\ segments = Idle /\ record = Idle /\ document = Idle
    /\ residency = Idle /\ l0 = Idle /\ baseline = Idle /\ sequence = Idle
IdleTrees ==
    /\ store = Idle /\ root = Idle /\ records = Idle
    /\ retired = Idle /\ held = Idle /\ rejected = Idle

Init ==
    \/ /\ IdleTrees
       /\ \/ of = "SingleTerm" /\ SingleTerm!Init
          \/ of = "InTheWay" /\ InTheWay!Init
          \/ of = "Structural" /\ Structural!Init
    \/ /\ IdleFolds
       /\ \/ of = "Documents" /\ Documents!Init
          \/ of = "Searches" /\ Searches!Init
          \/ of = "BornOrder" /\ BornOrder!Init

Next ==
    \/ of = "SingleTerm" /\ SingleTerm!Next /\ UNCHANGED <<of, TreeVars>>
    \/ of = "InTheWay" /\ InTheWay!Next /\ UNCHANGED <<of, TreeVars>>
    \/ of = "Structural" /\ Structural!Next /\ UNCHANGED <<of, TreeVars>>
    \/ of = "Documents" /\ Documents!Next /\ UNCHANGED <<of, FoldVars>>
    \/ of = "Searches" /\ Searches!Next /\ UNCHANGED <<of, FoldVars>>
    \/ of = "BornOrder" /\ BornOrder!Next /\ UNCHANGED <<of, FoldVars>>

vars == <<of, FoldVars, TreeVars>>

Spec == Init /\ [][Next]_vars

-----------------------------------------------------------------------------
\* Every variable has its type.
TypeOK ==
    /\ of = "SingleTerm" => SingleTerm!TypeOK
    /\ of = "Structural" => Structural!TypeOK
    /\ of = "Documents" => Documents!TypeOK

\* A query of a term reads every sealed posting of every live document once,
\* whatever sealing, compaction and folding did to its record, and nothing of
\* a document that no longer has the term (the plan of
\* evoke_segment_pages_load_query_term_plan_internal).
ReadsExact ==
    /\ of = "SingleTerm" => SingleTerm!ReadsExact
    /\ of = "InTheWay" => InTheWay!ReadsExact
    /\ of = "Structural" => Structural!ReadsExact

\* The raw document frequency of a record counts its readable lexical
\* postings: compaction subtracts what it drops, folding changes nothing.
FrequencyExact == of = "SingleTerm" => SingleTerm!FrequencyExact

\* The residency of a slot counts its postings in every segment and every
\* fold, so a slot is only reused when none is left anywhere.
ResidencyExact == of = "SingleTerm" => SingleTerm!ResidencyExact

\* What maintenance selects is never refused: a compaction the preflight let
\* through removes exactly the extents of its runs, and a fold it selects is
\* at a boundary, consumes something and meets no posting twice.
MaintenanceAccepted ==
    /\ of = "SingleTerm" => SingleTerm!MaintenanceAccepted
    /\ of = "InTheWay" => InTheWay!MaintenanceAccepted
    /\ of = "Structural" => Structural!MaintenanceAccepted

\* The impacts a query uses in place of the lexical folds are of exactly the
\* same documents, under the statistics of the root.
ImpactMatches == of = "SingleTerm" => SingleTerm!ImpactMatches

\* The searches that skip subtrees by their summaries find the first
\* actionable and the first reusable record from any slot, and the oldest live
\* records in born order, exactly as a scan of all records would.
SearchesExact ==
    /\ of = "Searches" => Searches!SearchesExact
    /\ of = "BornOrder" => BornOrder!SearchesExact

\* Length bounds of every slot range and of every block agree with the
\* records: block-max pruning scores with them.
ExtremaExact ==
    /\ of = "Searches" => Searches!ExtremaExact
    /\ of = "BornOrder" => BornOrder!ExtremaExact

\* The watermark of a term never moves back, and a fold never loses a posting.
CoverageMonotone ==
    /\ [][of = "SingleTerm" => SingleTerm!CoverageStep]_vars

-----------------------------------------------------------------------------
(* What the run checks.                                                    *)

\* Every query plan of a term reads every posting of every live document once:
\* its runs, frequency and specialized impacts agree, and no watermark moves
\* back.
ReadsOnce ==
    /\ TypeOK /\ ReadsExact /\ FrequencyExact /\ ImpactMatches

\* No compaction or fold the preflight let through is refused, and a slot's
\* residency counts its postings in segments and folds.
FoldsAccepted ==
    /\ MaintenanceAccepted /\ ResidencyExact

\* A root keeps answering with the documents it was published with, whatever
\* later patches wrote and whatever blocks were reused; every allocated block is
\* reachable from the published root or retired, never both; and no patch of
\* legal updates is refused by the checks of the patch builder.
SnapshotsKept ==
    of = "Documents" =>
        /\ Documents!SnapshotReads
        /\ Documents!NoBlockLeaked
        /\ Documents!PatchAccepted

\* Every search of documents that skips subtrees by their summaries finds what
\* a scan would.
SummariesExact ==
    /\ SearchesExact /\ ExtremaExact

=============================================================================
