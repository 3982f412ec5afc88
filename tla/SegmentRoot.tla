---------------------------- MODULE SegmentRoot ----------------------------
(***************************************************************************)
(* The metapage read root (evoke_segment_read_root) and the pure           *)
(* transitions on it (src/evoke_segments.c, src/evoke_am_mutation.c).      *)
(*                                                                         *)
(* A frontier is the metadata of one linked-L0 chain.  Its pages are left  *)
(* out: the records of a chain are those whose sequence lies in            *)
(* min_sequence..max_sequence.  The manifest reference of the root is the  *)
(* manifest's object id, which root_validate forces to equal root_id, so   *)
(* root_id stands for both.  published_block_high_watermark belongs to the *)
(* page level and is left out.                                             *)
(***************************************************************************)
EXTENDS Integers

CONSTANTS
    MaxSequence,    \* UINT64_MAX of next_sequence
    MaxSegmentId,   \* UINT64_MAX of next_segment_id
    MaxSlot,        \* UINT32_MAX of next_document_slot
    RotationLimit,  \* active-L0 record count that requests a rotation
    MaxRecords      \* EVOKE_ACTIVE_L0_MAX_RECORDS

ASSUME SegmentRootAssumption ==
    /\ MaxSequence \in Nat \ {0}
    /\ MaxSegmentId \in Nat /\ MaxSegmentId > 2
    /\ MaxSlot \in Nat \ {0}
    /\ RotationLimit \in Nat \ {0}
    /\ MaxRecords \in Nat \ {0}
    /\ RotationLimit <= MaxRecords

Kinds == {"UPSERT", "RETIRE", "COMPLETE", "QUARANTINE"}

Frontier == [segment_id: Nat, min_sequence: Nat, max_sequence: Nat,
             record_count: Nat]

ReadRoot == [root_id: Nat, next_sequence: Nat, next_document_slot: Nat,
             cursor: Nat, next_segment_id: Nat,
             active_l0: Frontier, pending_l0: Frontier]

EmptyFrontier(id) ==
    [segment_id |-> id, min_sequence |-> 0, max_sequence |-> 0,
     record_count |-> 0]

\* A frontier whose segment_id is 0 is absent.
Absent(f) == f.segment_id = 0

Sequences(f) ==
    IF f.record_count = 0 THEN {} ELSE f.min_sequence .. f.max_sequence

(***************************************************************************)
(* Validation                                                              *)
(***************************************************************************)
FrontierValid(f, allowAbsent) ==
    IF f.segment_id = 0
    THEN allowAbsent /\ f = EmptyFrontier(0)
    ELSE IF f.record_count = 0
         THEN f = EmptyFrontier(f.segment_id)
         ELSE /\ f.min_sequence # 0
              /\ f.min_sequence <= f.max_sequence
              /\ f.record_count <= MaxRecords
              /\ f.max_sequence - f.min_sequence = f.record_count - 1

RootValid(r) ==
    /\ r.root_id # 0
    /\ r.next_sequence # 0
    /\ r.next_document_slot <= MaxSlot
    /\ r.cursor <= r.next_document_slot
    /\ r.root_id < r.next_segment_id
    /\ FrontierValid(r.active_l0, FALSE)
    /\ FrontierValid(r.pending_l0, TRUE)
    /\ r.active_l0.segment_id < r.next_segment_id
    /\ ~Absent(r.pending_l0) =>
         /\ r.pending_l0.record_count # 0
         /\ r.pending_l0.segment_id # r.active_l0.segment_id
         /\ r.pending_l0.segment_id < r.next_segment_id
         /\ r.pending_l0.max_sequence < r.next_sequence
         /\ r.active_l0.record_count # 0 =>
              r.pending_l0.max_sequence < r.active_l0.min_sequence
    /\ r.active_l0.record_count # 0 =>
         r.active_l0.max_sequence < r.next_sequence

(***************************************************************************)
(* Transitions.  Each Can* is the early-return guard of its transition.    *)
(***************************************************************************)
CanRotate(r) ==
    /\ r.active_l0.record_count # 0
    /\ Absent(r.pending_l0)
    /\ r.next_segment_id # MaxSegmentId

\* Mutant: the new active segment does not consume its id.
RotateWithoutId(r) ==
    [r EXCEPT !.pending_l0 = r.active_l0,
              !.active_l0 = EmptyFrontier(r.next_segment_id)]

RotateL0(r) ==
    [r EXCEPT !.pending_l0 = r.active_l0,
              !.active_l0 = EmptyFrontier(r.next_segment_id),
              !.next_segment_id = @ + 1]

CanSealPending(r) ==
    /\ ~Absent(r.pending_l0)
    /\ r.next_segment_id # MaxSegmentId

\* Mutant: the cursor is reset although the active chain holds upserts.
SealResettingCursor(r) ==
    [r EXCEPT !.root_id = r.next_segment_id,
              !.pending_l0 = EmptyFrontier(0),
              !.cursor = 0,
              !.next_segment_id = @ + 1]

SealPending(r) ==
    [r EXCEPT !.root_id = r.next_segment_id,
              !.pending_l0 = EmptyFrontier(0),
              !.cursor = IF r.active_l0.record_count = 0 THEN 0 ELSE @,
              !.next_segment_id = @ + 1]

CanReplaceManifest(r) == r.next_segment_id # MaxSegmentId

ReplaceManifest(r) ==
    [r EXCEPT !.root_id = r.next_segment_id,
              !.cursor = IF /\ r.active_l0.record_count = 0
                            /\ r.pending_l0.record_count = 0
                         THEN 0 ELSE @,
              !.next_segment_id = @ + 1]

\* The soft limit asks for a rotation, which only an absent pending L0 allows.
WantsRotation(r) ==
    /\ r.active_l0.record_count # 0
    /\ r.active_l0.record_count >= RotationLimit

\* Mutant: the soft limit rotates over a pending chain.
AppendBaseAlways(r) == IF WantsRotation(r) THEN RotateL0(r) ELSE r

\* The root on which the append lands: rotated first when the limit asks for it.
AppendBase(r) ==
    IF WantsRotation(r) /\ Absent(r.pending_l0) THEN RotateL0(r) ELSE r

CanAppend(r) ==
    /\ r.next_sequence # MaxSequence
    /\ WantsRotation(r) /\ Absent(r.pending_l0) =>
         r.next_segment_id # MaxSegmentId
    /\ AppendBase(r).active_l0.record_count < MaxRecords

AdvanceFrontier(f, sequence) ==
    [f EXCEPT !.min_sequence = IF f.record_count = 0 THEN sequence ELSE @,
              !.max_sequence = sequence,
              !.record_count = @ + 1]

\* Mutants: the cursor is placed in front of the slot taken; an upsert that
\* reuses a slot still moves the high water.
AdvanceCursorBehind(r, kind, slot) ==
    [r EXCEPT
       !.active_l0 = AdvanceFrontier(@, r.next_sequence),
       !.next_sequence = @ + 1,
       !.next_document_slot =
          IF kind = "UPSERT" /\ slot = r.next_document_slot
          THEN @ + 1 ELSE @,
       !.cursor = IF kind = "UPSERT" THEN slot - 1 ELSE @]

AdvanceAlwaysFresh(r, kind, slot) ==
    [r EXCEPT
       !.active_l0 = AdvanceFrontier(@, r.next_sequence),
       !.next_sequence = @ + 1,
       !.next_document_slot = IF kind = "UPSERT" THEN @ + 1 ELSE @,
       !.cursor = IF kind = "UPSERT" THEN slot + 1 ELSE @]

AdvanceRoot(r, kind, slot) ==
    [r EXCEPT
       !.active_l0 = AdvanceFrontier(@, r.next_sequence),
       !.next_sequence = @ + 1,
       !.next_document_slot =
          IF kind = "UPSERT" /\ slot = r.next_document_slot
          THEN @ + 1 ELSE @,
       !.cursor = IF kind = "UPSERT" THEN slot + 1 ELSE @]

(***************************************************************************)
(* The compare half of the root compare-and-swap: the latest root against  *)
(* the root the publisher read before it built its manifest.               *)
(***************************************************************************)
\* Mutant: only the pending chain of a seal is compared.
PublishMatchesPending(latest, build, seal, exact) ==
    seal => latest.pending_l0 = build.pending_l0

PublishMatches(latest, build, seal, exact) ==
    /\ latest.root_id = build.root_id
    /\ latest.next_segment_id = build.next_segment_id
    /\ exact => /\ latest.active_l0 = build.active_l0
                /\ latest.pending_l0 = build.pending_l0
    /\ seal => latest.pending_l0 = build.pending_l0

\* What an index build over n rows leaves: manifest 1 with n document slots
\* (born sequences 1..n), active segment 2 and no L0 record.
InitialRoot(n) ==
    [root_id |-> 1, next_sequence |-> n + 1, next_document_slot |-> n,
     cursor |-> 0, next_segment_id |-> 3,
     active_l0 |-> EmptyFrontier(2), pending_l0 |-> EmptyFrontier(0)]
=============================================================================
