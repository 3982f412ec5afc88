----------------------- MODULE RootPublicationProofs -----------------------
(***************************************************************************)
(* Proofs about RootPublication, for any number of publishers and any      *)
(* bounds.  The properties are not inductive one by one: they follow       *)
(* together from IInv.                                                     *)
(***************************************************************************)
EXTENDS RootPublication, FiniteSetTheorems, TLAPS

(***************************************************************************)
(* The inductive invariant                                                 *)
(***************************************************************************)
\* Sets whose cardinality the seal takes.
FiniteRecords ==
    /\ IsFiniteSet(l0)
    /\ \A p \in Publishers :
         build[p] # NoBuild => IsFiniteSet(build[p].records)

\* A nonempty active chain ends in the newest sequence.
ActiveIsNewest ==
    root.active_l0.record_count # 0 =>
      root.active_l0.max_sequence = root.next_sequence - 1

\* The cursor is past every slot an unsealed upsert took.
UpsertsBelowCursor == \A r \in Upserts : r.slot < root.cursor

HighWaters ==
    /\ BuiltDocuments < root.next_sequence
    /\ slotCount <= root.next_document_slot
    /\ high <= root.next_document_slot
    /\ Absent(root.pending_l0) => high <= slotCount

\* The slots that the active chain takes above the manifest start where those
\* of the pending chain end.
ActiveStart == IF slotCount < high THEN high ELSE slotCount
ActiveTailContiguous ==
    Tail(l0 \ PendingRecords, slotCount) =
      ActiveStart .. root.next_document_slot - 1

\* A build whose segment id is still the root's has read the present state.
BuildsCurrent ==
    \A p \in Publishers : build[p] # NoBuild =>
      /\ build[p].root.next_segment_id <= root.next_segment_id
      /\ build[p].root.next_segment_id = root.next_segment_id =>
           /\ build[p].slotCount = slotCount
           /\ build[p].records = PendingRecords

IInv ==
    /\ TypeOK
    /\ FiniteRecords
    /\ RootAlwaysValid
    /\ ActiveIsNewest
    /\ NoRecordLost
    /\ UpsertSlotsIncrease
    /\ UpsertsBelowCursor
    /\ HighWaters
    /\ PendingTailContiguous
    /\ ActiveTailContiguous
    /\ BuildsCurrent

(***************************************************************************)
(* The root transitions, field by field                                    *)
(***************************************************************************)
\* The fields of evoke_segment_read_root have their types.
LEMMA RootFieldTypes ==
    ASSUME NEW r \in ReadRoot
    PROVE  /\ r.root_id \in Nat /\ r.next_sequence \in Nat
           /\ r.next_document_slot \in Nat /\ r.cursor \in Nat
           /\ r.next_segment_id \in Nat
           /\ r.active_l0 \in Frontier /\ r.pending_l0 \in Frontier
BY DEF ReadRoot

\* The frontier of a freshly opened chain.
LEMMA EmptyFrontierType ==
    ASSUME NEW id \in Nat
    PROVE  /\ EmptyFrontier(id) \in Frontier
           /\ EmptyFrontier(id).segment_id = id
           /\ EmptyFrontier(id).record_count = 0
BY DEF EmptyFrontier, Frontier

\* What rotation leaves on the root (evoke_segment_read_root_rotate_l0).
LEMMA RotateFields ==
    ASSUME NEW r \in ReadRoot
    PROVE  /\ RotateL0(r) \in ReadRoot
           /\ RotateL0(r).root_id = r.root_id
           /\ RotateL0(r).next_sequence = r.next_sequence
           /\ RotateL0(r).next_document_slot = r.next_document_slot
           /\ RotateL0(r).cursor = r.cursor
           /\ RotateL0(r).next_segment_id = r.next_segment_id + 1
           /\ RotateL0(r).active_l0 = EmptyFrontier(r.next_segment_id)
           /\ RotateL0(r).pending_l0 = r.active_l0
<1>1. /\ EmptyFrontier(r.next_segment_id) \in Frontier
      /\ r.active_l0 \in Frontier
      /\ r.next_segment_id + 1 \in Nat
  BY EmptyFrontierType, RootFieldTypes
<1>2. RotateL0(r) \in ReadRoot
  BY <1>1 DEF RotateL0, ReadRoot
<1> QED
  BY <1>2 DEF RotateL0, ReadRoot

\* What a published seal leaves on the root.
LEMMA SealFields ==
    ASSUME NEW r \in ReadRoot
    PROVE  /\ SealPending(r) \in ReadRoot
           /\ SealPending(r).root_id = r.next_segment_id
           /\ SealPending(r).next_sequence = r.next_sequence
           /\ SealPending(r).next_document_slot = r.next_document_slot
           /\ SealPending(r).cursor =
                IF r.active_l0.record_count = 0 THEN 0 ELSE r.cursor
           /\ SealPending(r).next_segment_id = r.next_segment_id + 1
           /\ SealPending(r).active_l0 = r.active_l0
           /\ SealPending(r).pending_l0 = EmptyFrontier(0)
<1> DEFINE c == IF r.active_l0.record_count = 0 THEN 0 ELSE r.cursor
<1>1. /\ EmptyFrontier(0) \in Frontier
      /\ r.next_segment_id \in Nat
      /\ r.next_segment_id + 1 \in Nat
      /\ c \in Nat
  BY EmptyFrontierType, RootFieldTypes
<1>2. SealPending(r) = [r EXCEPT !.root_id = r.next_segment_id,
                                 !.pending_l0 = EmptyFrontier(0),
                                 !.cursor = c,
                                 !.next_segment_id = @ + 1]
  BY DEF SealPending
<1> HIDE DEF c
<1>3. SealPending(r) \in ReadRoot
  BY <1>1, <1>2 DEF ReadRoot
<1> QED
  BY <1>3 DEF SealPending, ReadRoot

\* What any other publication leaves on the root.
LEMMA ReplaceFields ==
    ASSUME NEW r \in ReadRoot
    PROVE  /\ ReplaceManifest(r) \in ReadRoot
           /\ ReplaceManifest(r).root_id = r.next_segment_id
           /\ ReplaceManifest(r).next_sequence = r.next_sequence
           /\ ReplaceManifest(r).next_document_slot = r.next_document_slot
           /\ ReplaceManifest(r).cursor =
                IF r.active_l0.record_count = 0 /\ r.pending_l0.record_count = 0
                THEN 0 ELSE r.cursor
           /\ ReplaceManifest(r).next_segment_id = r.next_segment_id + 1
           /\ ReplaceManifest(r).active_l0 = r.active_l0
           /\ ReplaceManifest(r).pending_l0 = r.pending_l0
<1> DEFINE c == IF /\ r.active_l0.record_count = 0
                   /\ r.pending_l0.record_count = 0
                THEN 0 ELSE r.cursor
<1>1. /\ r.next_segment_id \in Nat
      /\ r.next_segment_id + 1 \in Nat
      /\ c \in Nat
  BY RootFieldTypes
<1>2. ReplaceManifest(r) = [r EXCEPT !.root_id = r.next_segment_id,
                                     !.cursor = c,
                                     !.next_segment_id = @ + 1]
  BY DEF ReplaceManifest
<1> HIDE DEF c
<1>3. ReplaceManifest(r) \in ReadRoot
  BY <1>1, <1>2 DEF ReadRoot
<1> QED
  BY <1>3 DEF ReplaceManifest, ReadRoot

\* What an append leaves on the active chain.
LEMMA AdvanceFrontierFields ==
    ASSUME NEW f \in Frontier, NEW sequence \in Nat
    PROVE  LET a == AdvanceFrontier(f, sequence) IN
           /\ a \in Frontier
           /\ a.segment_id = f.segment_id
           /\ a.min_sequence =
                IF f.record_count = 0 THEN sequence ELSE f.min_sequence
           /\ a.max_sequence = sequence
           /\ a.record_count = f.record_count + 1
<1> DEFINE m == IF f.record_count = 0 THEN sequence ELSE f.min_sequence
<1>1. m \in Nat /\ f.record_count + 1 \in Nat
  BY DEF Frontier
<1>2. AdvanceFrontier(f, sequence) = [f EXCEPT !.min_sequence = m,
                                               !.max_sequence = sequence,
                                               !.record_count = @ + 1]
  BY DEF AdvanceFrontier
<1> HIDE DEF m
<1>3. AdvanceFrontier(f, sequence) \in Frontier
  BY <1>1, <1>2 DEF Frontier
<1>4. /\ AdvanceFrontier(f, sequence).segment_id = f.segment_id
      /\ AdvanceFrontier(f, sequence).min_sequence = m
      /\ AdvanceFrontier(f, sequence).max_sequence = sequence
      /\ AdvanceFrontier(f, sequence).record_count = f.record_count + 1
  BY <1>2 DEF Frontier
<1> QED
  BY <1>3, <1>4 DEF m

\* What an append leaves on the root it lands on.
LEMMA AdvanceFields ==
    ASSUME NEW r \in ReadRoot, NEW kind, NEW slot \in Nat
    PROVE  LET a == AdvanceRoot(r, kind, slot) IN
           /\ a \in ReadRoot
           /\ a.root_id = r.root_id
           /\ a.next_sequence = r.next_sequence + 1
           /\ a.next_document_slot =
                IF kind = "UPSERT" /\ slot = r.next_document_slot
                THEN r.next_document_slot + 1 ELSE r.next_document_slot
           /\ a.cursor = IF kind = "UPSERT" THEN slot + 1 ELSE r.cursor
           /\ a.next_segment_id = r.next_segment_id
           /\ a.pending_l0 = r.pending_l0
           /\ a.active_l0.segment_id = r.active_l0.segment_id
           /\ a.active_l0.min_sequence =
                IF r.active_l0.record_count = 0
                THEN r.next_sequence ELSE r.active_l0.min_sequence
           /\ a.active_l0.max_sequence = r.next_sequence
           /\ a.active_l0.record_count = r.active_l0.record_count + 1
<1> DEFINE f == AdvanceFrontier(r.active_l0, r.next_sequence)
           n == IF kind = "UPSERT" /\ slot = r.next_document_slot
                THEN r.next_document_slot + 1 ELSE r.next_document_slot
           c == IF kind = "UPSERT" THEN slot + 1 ELSE r.cursor
           a == [r EXCEPT !.active_l0 = f,
                          !.next_sequence = @ + 1,
                          !.next_document_slot = n,
                          !.cursor = c]
<1>1. /\ r.active_l0 \in Frontier
      /\ r.next_sequence \in Nat /\ r.next_sequence + 1 \in Nat
      /\ n \in Nat /\ c \in Nat
  BY RootFieldTypes
<1>2. /\ f \in Frontier
      /\ f.segment_id = r.active_l0.segment_id
      /\ f.min_sequence = IF r.active_l0.record_count = 0
                          THEN r.next_sequence ELSE r.active_l0.min_sequence
      /\ f.max_sequence = r.next_sequence
      /\ f.record_count = r.active_l0.record_count + 1
  BY <1>1, AdvanceFrontierFields
<1>3. AdvanceRoot(r, kind, slot) = a
  BY DEF AdvanceRoot
<1> HIDE DEF f, n, c
<1>4. a \in ReadRoot
  BY <1>1, <1>2 DEF ReadRoot
<1>5. /\ a.root_id = r.root_id
      /\ a.next_sequence = r.next_sequence + 1
      /\ a.next_document_slot = n
      /\ a.cursor = c
      /\ a.next_segment_id = r.next_segment_id
      /\ a.pending_l0 = r.pending_l0
      /\ a.active_l0 = f
  BY DEF ReadRoot
<1> HIDE DEF a
<1> QED
  BY <1>2, <1>3, <1>4, <1>5 DEF n, c

(***************************************************************************)
(* Consequences of the invariant                                           *)
(***************************************************************************)
\* No records, no fresh slots.
LEMMA TailOfNone ==
    ASSUME NEW c PROVE Tail({}, c) = {}
BY DEF Tail

\* The fresh slots after one more L0 record.
LEMMA TailOfOneMore ==
    ASSUME NEW R, NEW x, NEW c
    PROVE  Tail(R \cup {x}, c) =
             Tail(R, c) \cup
               (IF x.kind = "UPSERT" /\ x.slot >= c THEN {x.slot} ELSE {})
BY DEF Tail

\* The fresh slots of two chains are those of each.
LEMMA TailOfBoth ==
    ASSUME NEW R, NEW S, NEW c
    PROVE  Tail(R \cup S, c) = Tail(R, c) \cup Tail(S, c)
BY DEF Tail

\* Slots that a larger manifest covers leave the tail.
LEMMA TailCut ==
    ASSUME NEW R \in SUBSET Record, NEW c \in Nat, NEW d \in Nat, c <= d
    PROVE  Tail(R, d) = {s \in Tail(R, c) : s >= d}
<1>1. \A r \in R : r.slot \in Nat
  BY DEF Record
<1> QED
  BY <1>1 DEF Tail

\* Which chain holds which record.
LEMMA ChainFacts ==
    ASSUME IInv
    PROVE  /\ Absent(root.pending_l0) => PendingRecords = {}
           /\ \A r \in l0 : r.sequence \in Nat
           /\ \A r \in l0 : r.sequence < root.next_sequence
           /\ \A r \in l0 \ PendingRecords :
                r.sequence \in Sequences(root.active_l0)
           /\ \A r \in PendingRecords :
                r.sequence \notin Sequences(root.active_l0)
           /\ root.active_l0.record_count = 0 => l0 = PendingRecords
           /\ Sequences(root.pending_l0) \cap Sequences(root.active_l0) = {}
<1> USE DEF IInv, TypeOK
<1>1. /\ root.active_l0 \in Frontier /\ root.pending_l0 \in Frontier
      /\ root.next_sequence \in Nat
  BY RootFieldTypes
<1>2. Absent(root.pending_l0) => Sequences(root.pending_l0) = {}
  BY <1>1 DEF RootAlwaysValid, RootValid, FrontierValid, Absent, Sequences,
              EmptyFrontier, Frontier
<1>3. \A r \in l0 : r.sequence \in Nat
  BY DEF Record
<1>4. \A r \in l0 : r.sequence \in BuiltDocuments + 1 .. root.next_sequence - 1
  BY DEF NoRecordLost
<1>5. \A r \in l0 : r.sequence < root.next_sequence
  BY <1>1, <1>3, <1>4, RootPublicationAssumption
<1>6. Sequences(root.pending_l0) \cap Sequences(root.active_l0) = {}
  <2>1. CASE Absent(root.pending_l0)
    BY <2>1, <1>2
  <2>2. CASE ~Absent(root.pending_l0)
    <3>1. root.active_l0.record_count # 0 =>
            root.pending_l0.max_sequence < root.active_l0.min_sequence
      BY <2>2 DEF RootAlwaysValid, RootValid
    <3> QED
      BY <3>1, <1>1 DEF Sequences, Frontier
  <2> QED
    BY <2>1, <2>2
<1>7. \A r \in l0 : r.sequence \in Sequences(root.pending_l0)
                      \cup Sequences(root.active_l0)
  BY DEF NoRecordLost
<1>8. root.active_l0.record_count = 0 => Sequences(root.active_l0) = {}
  BY DEF Sequences
<1> QED
  BY <1>2, <1>3, <1>5, <1>6, <1>7, <1>8 DEF PendingRecords

\* The fresh slots above the manifest are exactly those of unsealed upserts.
LEMMA TailClosedLemma ==
    ASSUME IInv
    PROVE  TailClosed
<1> USE DEF IInv, TypeOK
<1>1. /\ root.next_document_slot \in Nat /\ slotCount \in Nat /\ high \in Nat
      /\ slotCount <= root.next_document_slot
      /\ high <= root.next_document_slot
      /\ Absent(root.pending_l0) => high <= slotCount
  BY RootFieldTypes DEF HighWaters
<1>2. Tail(l0, slotCount) = Tail(PendingRecords, slotCount)
                              \cup Tail(l0 \ PendingRecords, slotCount)
  <2>1. l0 = PendingRecords \cup (l0 \ PendingRecords)
    BY DEF PendingRecords
  <2> QED
    BY <2>1, TailOfBoth
<1>3. Tail(PendingRecords, slotCount) = slotCount .. high - 1
  BY <1>1 DEF PendingTailContiguous
<1>4. (slotCount .. high - 1) \cup (ActiveStart .. root.next_document_slot - 1)
        = slotCount .. root.next_document_slot - 1
  BY <1>1 DEF ActiveStart
<1> QED
  BY <1>1, <1>2, <1>3, <1>4 DEF ActiveTailContiguous, TailClosed

\* What a publisher read before it began to build has its type.
LEMMA BuildFieldTypes ==
    ASSUME TypeOK, NEW p \in Publishers, build[p] # NoBuild
    PROVE  /\ build[p].root \in ReadRoot
           /\ build[p].root.next_segment_id \in Nat
           /\ build[p].slotCount \in Nat
           /\ build[p].records \in SUBSET Record
<1>1. build[p] \in Build
  BY DEF TypeOK
<1>2. build[p].root \in ReadRoot
  BY <1>1 DEF Build
<1> QED
  BY <1>1, <1>2, RootFieldTypes DEF Build

\* A step that takes a segment id makes every build in progress stale.
LEMMA NewSegmentId ==
    ASSUME IInv,
           root'.next_segment_id = root.next_segment_id + 1,
           \A p \in Publishers : build'[p] # NoBuild => build'[p] = build[p]
    PROVE  BuildsCurrent'
<1> SUFFICES ASSUME NEW p \in Publishers, build'[p] # NoBuild
             PROVE  /\ build[p].root.next_segment_id < root'.next_segment_id
                    /\ build'[p] = build[p]
                    /\ build[p].root.next_segment_id \in Nat
                    /\ root'.next_segment_id \in Nat
  BY DEF BuildsCurrent
<1>1. build[p].root.next_segment_id \in Nat /\ root.next_segment_id \in Nat
  BY BuildFieldTypes, RootFieldTypes DEF IInv, TypeOK
<1> QED
  BY <1>1 DEF IInv, BuildsCurrent

(***************************************************************************)
(* Initially                                                               *)
(***************************************************************************)
\* CREATE INDEX leaves a root that satisfies the invariant.
LEMMA InitIInv == Init => IInv
<1> SUFFICES ASSUME Init PROVE IInv
  OBVIOUS
<1> USE RootPublicationAssumption, SegmentRootAssumption DEF Init
<1>1. /\ root \in ReadRoot
      /\ root.root_id = 1 /\ root.next_sequence = BuiltDocuments + 1
      /\ root.next_document_slot = BuiltDocuments /\ root.cursor = 0
      /\ root.next_segment_id = 3
      /\ root.active_l0 = EmptyFrontier(2)
      /\ root.pending_l0 = EmptyFrontier(0)
  BY EmptyFrontierType DEF InitialRoot, ReadRoot
<1>2. /\ root.active_l0.record_count = 0 /\ root.active_l0.segment_id = 2
      /\ root.pending_l0.record_count = 0 /\ root.pending_l0.segment_id = 0
  BY <1>1, EmptyFrontierType
<1>3. TypeOK
  BY <1>1 DEF TypeOK
<1>4. FiniteRecords
  BY FS_EmptySet DEF FiniteRecords
<1>5. RootAlwaysValid
  BY <1>1, <1>2 DEF RootAlwaysValid, RootValid, FrontierValid, Absent
<1>6. ActiveIsNewest /\ UpsertSlotsIncrease /\ UpsertsBelowCursor
  BY <1>2 DEF ActiveIsNewest, UpsertSlotsIncrease, UpsertsBelowCursor, Upserts
<1>7. NoRecordLost
  BY <1>1, <1>2 DEF NoRecordLost, Sequences
<1>8. HighWaters
  BY <1>1 DEF HighWaters
<1>9. PendingTailContiguous /\ ActiveTailContiguous
  <2>1. PendingRecords = {}
    BY DEF PendingRecords
  <2>2. l0 \ PendingRecords = {}
    OBVIOUS
  <2>3. ActiveStart .. root.next_document_slot - 1 = {}
    BY <1>1 DEF ActiveStart
  <2> QED
    BY <1>2, <2>1, <2>2, <2>3, TailOfNone
    DEF PendingTailContiguous, ActiveTailContiguous, Absent
<1>10. BuildsCurrent
  BY DEF BuildsCurrent
<1> QED
  BY <1>3, <1>4, <1>5, <1>6, <1>7, <1>8, <1>9, <1>10 DEF IInv

(***************************************************************************)
(* Every step                                                              *)
(***************************************************************************)
\* A rotated root passes validation.
LEMMA RotateValid ==
    ASSUME NEW r \in ReadRoot, RootValid(r), CanRotate(r)
    PROVE  RootValid(RotateL0(r))
<1>1. /\ r.active_l0 \in Frontier /\ r.next_segment_id \in Nat
      /\ r.root_id \in Nat /\ r.next_sequence \in Nat
  BY RootFieldTypes
<1>2. /\ EmptyFrontier(r.next_segment_id).segment_id = r.next_segment_id
      /\ EmptyFrontier(r.next_segment_id).record_count = 0
  BY <1>1, EmptyFrontierType
<1>3. r.active_l0.segment_id # 0 /\ r.active_l0.segment_id \in Nat
  BY <1>1 DEF RootValid, FrontierValid, Frontier
<1>4. /\ FrontierValid(EmptyFrontier(r.next_segment_id), FALSE)
      /\ FrontierValid(r.active_l0, TRUE)
  BY <1>1, <1>2, <1>3 DEF RootValid, FrontierValid
<1> DEFINE q == RotateL0(r)
<1>5. /\ q.root_id = r.root_id /\ q.next_sequence = r.next_sequence
      /\ q.next_document_slot = r.next_document_slot /\ q.cursor = r.cursor
      /\ q.next_segment_id = r.next_segment_id + 1
      /\ q.active_l0 = EmptyFrontier(r.next_segment_id)
      /\ q.pending_l0 = r.active_l0
  BY RotateFields
<1> HIDE DEF q
<1>6. /\ q.root_id # 0 /\ q.next_sequence # 0
      /\ q.next_document_slot <= MaxSlot
      /\ q.cursor <= q.next_document_slot
      /\ q.root_id < q.next_segment_id
      /\ q.active_l0.segment_id < q.next_segment_id
  BY <1>1, <1>2, <1>5 DEF RootValid
<1>7. FrontierValid(q.active_l0, FALSE) /\ FrontierValid(q.pending_l0, TRUE)
  BY <1>4, <1>5
<1>8. /\ q.pending_l0.record_count # 0
      /\ q.pending_l0.segment_id # q.active_l0.segment_id
      /\ q.pending_l0.segment_id < q.next_segment_id
      /\ q.pending_l0.max_sequence < q.next_sequence
  BY <1>1, <1>2, <1>3, <1>5 DEF RootValid, CanRotate
<1>9. q.active_l0.record_count = 0
  BY <1>2, <1>5
<1>10. RootValid(q)
  BY <1>6, <1>7, <1>8, <1>9 DEF RootValid
<1> QED
  BY <1>10 DEF q

\* The background rotation preserves the invariant.
LEMMA RotateIInv ==
    ASSUME IInv, Rotate
    PROVE  IInv'
<1> USE DEF IInv, TypeOK
<1>1. /\ root' \in ReadRoot
      /\ root'.next_sequence = root.next_sequence
      /\ root'.next_document_slot = root.next_document_slot
      /\ root'.cursor = root.cursor
      /\ root'.next_segment_id = root.next_segment_id + 1
      /\ root'.active_l0 = EmptyFrontier(root.next_segment_id)
      /\ root'.pending_l0 = root.active_l0
  BY RotateFields DEF Rotate
<1>2. /\ root.next_sequence \in Nat /\ root.next_document_slot \in Nat
      /\ root.next_segment_id \in Nat
      /\ root'.active_l0.record_count = 0
      /\ Absent(root.pending_l0) /\ root.active_l0.record_count # 0
      /\ ~Absent(root.active_l0)
      /\ high' = root.next_document_slot
      /\ UNCHANGED <<slotCount, l0, sealed, parent, build>>
  BY <1>1, RootFieldTypes, EmptyFrontierType
  DEF Rotate, CanRotate, RootAlwaysValid, RootValid, FrontierValid, Absent
<1>3. TypeOK'
  BY <1>1, <1>2
<1>4. FiniteRecords'
  BY <1>2 DEF FiniteRecords
<1>5. RootAlwaysValid'
  BY RotateValid DEF Rotate, RootAlwaysValid
<1>6. ActiveIsNewest' /\ UpsertsBelowCursor' /\ UpsertSlotsIncrease'
  BY <1>1, <1>2 DEF ActiveIsNewest, UpsertsBelowCursor, UpsertSlotsIncrease,
                    Upserts
<1>7. Sequences(root'.active_l0) = {} /\ Sequences(root.pending_l0) = {}
  BY <1>2 DEF Sequences, RootAlwaysValid, RootValid, FrontierValid, Absent,
              EmptyFrontier
<1>8. NoRecordLost'
  BY <1>1, <1>2, <1>7 DEF NoRecordLost
<1>9. HighWaters'
  BY <1>1, <1>2 DEF HighWaters
<1>10. PendingRecords' = l0 /\ PendingRecords = {}
  BY <1>1, <1>2, ChainFacts DEF PendingRecords
<1>11. PendingTailContiguous'
  BY <1>1, <1>2, <1>10, TailClosedLemma DEF PendingTailContiguous, TailClosed
<1>12. ActiveTailContiguous'
  <2>1. (l0 \ PendingRecords)' = {}
    BY <1>2, <1>10
  <2>2. (ActiveStart .. root.next_document_slot - 1)' = {}
    BY <1>1, <1>2, <1>9 DEF ActiveStart, HighWaters
  <2> QED
    BY <2>1, <2>2, TailOfNone DEF ActiveTailContiguous
<1>13. BuildsCurrent'
  BY <1>1, <1>2, NewSegmentId
<1> QED
  BY <1>3, <1>4, <1>5, <1>6, <1>8, <1>9, <1>11, <1>12, <1>13

\* The records of l0 that belong to the pending chain of a root.
Chain(f) == {r \in l0 : r.sequence \in Sequences(f)}

\* The root an append lands on is as sound as the root it read, rotated or not.
LEMMA AppendBaseFacts ==
    ASSUME IInv, CanAppend(root)
    PROVE  LET base == AppendBase(root)
               top == IF base = root THEN high ELSE root.next_document_slot
               start == IF slotCount < top THEN top ELSE slotCount
           IN
           /\ base \in ReadRoot
           /\ RootValid(base)
           /\ base.active_l0.record_count # 0 =>
                base.active_l0.max_sequence = base.next_sequence - 1
           /\ base.next_sequence = root.next_sequence
           /\ base.next_document_slot = root.next_document_slot
           /\ base.cursor = root.cursor
           /\ \/ base.next_segment_id = root.next_segment_id + 1
              \/ /\ base.next_segment_id = root.next_segment_id
                 /\ base.pending_l0 = root.pending_l0
           /\ Sequences(base.pending_l0) \cup Sequences(base.active_l0) =
                Sequences(root.pending_l0) \cup Sequences(root.active_l0)
           /\ top \in Nat
           /\ top <= root.next_document_slot
           /\ Absent(base.pending_l0) => top <= slotCount
           /\ Tail(Chain(base.pending_l0), slotCount) =
                IF Absent(base.pending_l0) THEN {} ELSE slotCount .. top - 1
           /\ Tail(l0 \ Chain(base.pending_l0), slotCount) =
                start .. root.next_document_slot - 1
<1> USE DEF IInv, TypeOK
<1> DEFINE base == AppendBase(root)
           top == IF base = root THEN high ELSE root.next_document_slot
           start == IF slotCount < top THEN top ELSE slotCount
<1>1. /\ root.next_sequence \in Nat /\ root.next_document_slot \in Nat
      /\ root.next_segment_id \in Nat
  BY RootFieldTypes
<1>2. CASE ~(WantsRotation(root) /\ Absent(root.pending_l0))
  <2>1. base = root /\ top = high
    BY <1>2 DEF AppendBase
  <2>2. Chain(base.pending_l0) = PendingRecords /\ start = ActiveStart
    BY <2>1 DEF Chain, PendingRecords, ActiveStart
  <2> HIDE DEF base, top, start
  <2> QED
    BY <2>1, <2>2, <1>1 DEF base, top, start, RootAlwaysValid, ActiveIsNewest,
       HighWaters, PendingTailContiguous, ActiveTailContiguous
<1>3. CASE WantsRotation(root) /\ Absent(root.pending_l0)
  <2>1. CanRotate(root)
    BY <1>3 DEF CanAppend, CanRotate, WantsRotation
  <2>2. base = RotateL0(root)
    BY <1>3 DEF AppendBase
  <2>3. /\ base \in ReadRoot
        /\ base.next_sequence = root.next_sequence
        /\ base.next_document_slot = root.next_document_slot
        /\ base.cursor = root.cursor
        /\ base.next_segment_id = root.next_segment_id + 1
        /\ base.active_l0 = EmptyFrontier(root.next_segment_id)
        /\ base.pending_l0 = root.active_l0
    BY <2>2, RotateFields
  <2>4. RootValid(base)
    BY <2>1, <2>2, RotateValid DEF RootAlwaysValid
  <2> HIDE DEF base
  <2>5. base # root
    BY <2>3, <1>1
  <2>6. top = root.next_document_slot
    BY <2>5
  <2>7. start = root.next_document_slot
    BY <2>6, <1>1 DEF HighWaters
  <2> HIDE DEF top, start
  <2>8. base.active_l0.record_count = 0
    BY <2>3, <1>1, EmptyFrontierType
  <2>9. ~Absent(base.pending_l0)
    BY <2>3 DEF RootAlwaysValid, RootValid, FrontierValid, Absent
  <2>10. Sequences(base.active_l0) = {} /\ Sequences(root.pending_l0) = {}
    BY <1>3, <2>8 DEF Sequences, RootAlwaysValid, RootValid, FrontierValid,
                      Absent, EmptyFrontier
  <2>11. Chain(base.pending_l0) = l0
    BY <1>3, <2>3, ChainFacts DEF Chain
  <2>12. Tail(l0, slotCount) = slotCount .. root.next_document_slot - 1
    BY TailClosedLemma DEF TailClosed
  <2>13. Tail(l0 \ Chain(base.pending_l0), slotCount) =
           start .. root.next_document_slot - 1
    <3>1. l0 \ Chain(base.pending_l0) = {}
      BY <2>11
    <3>2. start .. root.next_document_slot - 1 = {}
      BY <2>7, <1>1
    <3> QED
      BY <3>1, <3>2, TailOfNone
  <2> QED
    BY <2>3, <2>4, <2>6, <2>8, <2>9, <2>10, <2>11, <2>12, <2>13, <1>1
    DEF base, top, start
<1> QED
  BY <1>2, <1>3

\* A record appended at the end of a sound root leaves a sound root.
LEMMA AdvanceValid ==
    ASSUME NEW r \in ReadRoot, RootValid(r),
           r.active_l0.record_count # 0 =>
             r.active_l0.max_sequence = r.next_sequence - 1,
           r.active_l0.record_count < MaxRecords,
           NEW kind, NEW slot \in Nat,
           kind = "UPSERT" => slot <= r.next_document_slot,
           kind = "UPSERT" /\ slot = r.next_document_slot => slot < MaxSlot
    PROVE  RootValid(AdvanceRoot(r, kind, slot))
<1> DEFINE a == AdvanceRoot(r, kind, slot)
<1>1. /\ r.next_sequence \in Nat /\ r.next_document_slot \in Nat
      /\ r.cursor \in Nat /\ r.root_id \in Nat /\ r.next_segment_id \in Nat
      /\ r.active_l0 \in Frontier /\ r.pending_l0 \in Frontier
  BY RootFieldTypes
<1>2. /\ a \in ReadRoot
      /\ a.root_id = r.root_id
      /\ a.next_sequence = r.next_sequence + 1
      /\ a.next_document_slot =
           IF kind = "UPSERT" /\ slot = r.next_document_slot
           THEN r.next_document_slot + 1 ELSE r.next_document_slot
      /\ a.cursor = IF kind = "UPSERT" THEN slot + 1 ELSE r.cursor
      /\ a.next_segment_id = r.next_segment_id
      /\ a.pending_l0 = r.pending_l0
  BY AdvanceFields
<1>3. /\ a.active_l0.segment_id = r.active_l0.segment_id
      /\ a.active_l0.min_sequence =
           IF r.active_l0.record_count = 0
           THEN r.next_sequence ELSE r.active_l0.min_sequence
      /\ a.active_l0.max_sequence = r.next_sequence
      /\ a.active_l0.record_count = r.active_l0.record_count + 1
  BY AdvanceFields
<1> HIDE DEF a
<1>4. /\ r.active_l0.segment_id \in Nat \ {0}
      /\ r.active_l0.record_count \in Nat
      /\ r.active_l0.min_sequence \in Nat
      /\ r.active_l0.record_count # 0 =>
           /\ r.active_l0.min_sequence # 0
           /\ r.next_sequence - 1 - r.active_l0.min_sequence =
                r.active_l0.record_count - 1
  BY <1>1 DEF RootValid, FrontierValid, Frontier
<1>5. FrontierValid(a.active_l0, FALSE)
  <2>1. /\ a.active_l0.segment_id # 0
        /\ a.active_l0.record_count # 0
        /\ a.active_l0.record_count <= MaxRecords
    BY <1>3, <1>4, SegmentRootAssumption
  <2>2. /\ a.active_l0.min_sequence # 0
        /\ a.active_l0.min_sequence <= a.active_l0.max_sequence
        /\ a.active_l0.max_sequence - a.active_l0.min_sequence =
             a.active_l0.record_count - 1
    BY <1>1, <1>3, <1>4 DEF RootValid
  <2> QED
    BY <2>1, <2>2 DEF FrontierValid
<1>6. /\ a.root_id # 0 /\ a.next_sequence # 0
      /\ a.next_document_slot <= MaxSlot
      /\ a.cursor <= a.next_document_slot
      /\ a.root_id < a.next_segment_id
      /\ a.active_l0.segment_id < a.next_segment_id
      /\ a.active_l0.max_sequence < a.next_sequence
  BY <1>1, <1>2, <1>3, SegmentRootAssumption DEF RootValid
<1>7. FrontierValid(a.pending_l0, TRUE)
  BY <1>2 DEF RootValid
<1>8. ~Absent(a.pending_l0) =>
        /\ a.pending_l0.record_count # 0
        /\ a.pending_l0.segment_id # a.active_l0.segment_id
        /\ a.pending_l0.segment_id < a.next_segment_id
        /\ a.pending_l0.max_sequence < a.next_sequence
        /\ a.pending_l0.max_sequence < a.active_l0.min_sequence
  <2> SUFFICES ASSUME ~Absent(r.pending_l0)
               PROVE  /\ a.pending_l0.record_count # 0
                      /\ a.pending_l0.segment_id # a.active_l0.segment_id
                      /\ a.pending_l0.segment_id < a.next_segment_id
                      /\ a.pending_l0.max_sequence < a.next_sequence
                      /\ a.pending_l0.max_sequence < a.active_l0.min_sequence
    BY <1>2
  <2>1. /\ r.pending_l0.max_sequence \in Nat
        /\ r.pending_l0.max_sequence < r.next_sequence
        /\ r.active_l0.record_count # 0 =>
             r.pending_l0.max_sequence < r.active_l0.min_sequence
    BY <1>1 DEF RootValid, Frontier
  <2> QED
    BY <1>1, <1>2, <1>3, <1>4, <2>1 DEF RootValid
<1>9. RootValid(a)
  BY <1>5, <1>6, <1>7, <1>8 DEF RootValid
<1> QED
  BY <1>9 DEF a

\* A foreground append, with or without the rotation it may begin with,
\* preserves the invariant.
LEMMA AppendIInv ==
    ASSUME IInv, NEW kind \in RecordKinds,
           NEW slot \in 0 .. root.next_document_slot, Append(kind, slot)
    PROVE  IInv'
<1> USE DEF IInv, TypeOK
<1> DEFINE base == AppendBase(root)
           top == IF base = root THEN high ELSE root.next_document_slot
           start == IF slotCount < top THEN top ELSE slotCount
           rec == [kind |-> kind, slot |-> slot,
                   sequence |-> root.next_sequence]
           pending == Chain(base.pending_l0)
<1>1. /\ root.next_sequence \in Nat /\ root.next_document_slot \in Nat
      /\ root.next_segment_id \in Nat /\ root.cursor \in Nat
      /\ slot \in Nat /\ slot <= root.next_document_slot
      /\ kind \in Kinds
  BY RootFieldTypes, RootPublicationAssumption
<1>2. /\ CanAppend(root)
      /\ kind = "UPSERT" => /\ slot \in UpsertSlots
                            /\ slot = root.next_document_slot => slot < MaxSlot
      /\ root' = AdvanceRoot(base, kind, slot)
      /\ l0' = l0 \cup {rec}
      /\ high' = top
      /\ UNCHANGED <<slotCount, sealed, parent, build>>
  BY DEF Append
<1>3. /\ base \in ReadRoot
      /\ RootValid(base)
      /\ base.active_l0.record_count # 0 =>
           base.active_l0.max_sequence = base.next_sequence - 1
      /\ base.next_sequence = root.next_sequence
      /\ base.next_document_slot = root.next_document_slot
      /\ base.cursor = root.cursor
      /\ \/ base.next_segment_id = root.next_segment_id + 1
         \/ /\ base.next_segment_id = root.next_segment_id
            /\ base.pending_l0 = root.pending_l0
      /\ Sequences(base.pending_l0) \cup Sequences(base.active_l0) =
           Sequences(root.pending_l0) \cup Sequences(root.active_l0)
      /\ top \in Nat
      /\ top <= root.next_document_slot
      /\ Absent(base.pending_l0) => top <= slotCount
      /\ Tail(pending, slotCount) =
           IF Absent(base.pending_l0) THEN {} ELSE slotCount .. top - 1
      /\ Tail(l0 \ pending, slotCount) = start .. root.next_document_slot - 1
  BY <1>2, AppendBaseFacts
<1>4. base.active_l0.record_count < MaxRecords
  BY <1>2 DEF CanAppend
<1> HIDE DEF base, top, rec
<1>5. /\ root' \in ReadRoot
      /\ root'.next_sequence = root.next_sequence + 1
      /\ root'.next_document_slot =
           IF kind = "UPSERT" /\ slot = root.next_document_slot
           THEN root.next_document_slot + 1 ELSE root.next_document_slot
      /\ root'.cursor = IF kind = "UPSERT" THEN slot + 1 ELSE root.cursor
      /\ root'.next_segment_id = base.next_segment_id
      /\ root'.pending_l0 = base.pending_l0
      /\ root'.active_l0.min_sequence =
           IF base.active_l0.record_count = 0
           THEN root.next_sequence ELSE base.active_l0.min_sequence
      /\ root'.active_l0.max_sequence = root.next_sequence
      /\ root'.active_l0.record_count = base.active_l0.record_count + 1
  BY <1>1, <1>2, <1>3, AdvanceFields
<1>6. /\ rec \in Record /\ rec.kind = kind /\ rec.slot = slot
      /\ rec.sequence = root.next_sequence
  BY <1>1 DEF rec, Record
<1>7. TypeOK'
  BY <1>2, <1>3, <1>5, <1>6
<1>8. FiniteRecords'
  BY <1>2, FS_AddElement DEF FiniteRecords
<1>9. RootAlwaysValid'
  BY <1>1, <1>2, <1>3, <1>4, AdvanceValid DEF RootAlwaysValid
<1>10. ActiveIsNewest'
  BY <1>1, <1>5 DEF ActiveIsNewest
<1>11. Sequences(root'.active_l0) =
         Sequences(base.active_l0) \cup {root.next_sequence}
  <2>1. /\ base.active_l0.record_count \in Nat
        /\ base.active_l0.min_sequence \in Nat
    BY <1>3, RootFieldTypes DEF Frontier
  <2>2. base.active_l0.record_count # 0 =>
          /\ base.active_l0.max_sequence = root.next_sequence - 1
          /\ base.active_l0.min_sequence <= root.next_sequence - 1
    BY <1>3 DEF RootValid, FrontierValid
  <2> QED
    BY <1>1, <1>5, <2>1, <2>2 DEF Sequences
<1>12. NoRecordLost'
  <2>1. {r.sequence : r \in l0'} =
          {r.sequence : r \in l0} \cup {root.next_sequence}
    BY <1>2, <1>6
  <2>2. root.next_sequence \notin sealed
    BY <1>1, RootPublicationAssumption DEF NoRecordLost
  <2>3. BuiltDocuments + 1 .. root'.next_sequence - 1 =
          (BuiltDocuments + 1 .. root.next_sequence - 1)
            \cup {root.next_sequence}
    <3>1. root.next_sequence >= BuiltDocuments + 1
      BY <1>1, RootPublicationAssumption DEF HighWaters
    <3> QED
      BY <3>1, <1>1, <1>5, RootPublicationAssumption
  <2> QED
    BY <1>2, <1>3, <1>5, <1>6, <1>11, <2>1, <2>2, <2>3 DEF NoRecordLost
<1>13. slotCount \in Nat /\ slotCount <= root.next_document_slot
  BY DEF HighWaters
<1>14. kind = "UPSERT" => slot >= root.cursor
  BY <1>1, <1>2, <1>13, RootPublicationAssumption
  DEF UpsertSlots, RootAlwaysValid, RootValid
<1>15. UpsertsBelowCursor'
  <2> SUFFICES ASSUME NEW r \in l0', r.kind = "UPSERT"
               PROVE  r.slot < root'.cursor
    BY DEF UpsertsBelowCursor, Upserts
  <2>1. CASE r = rec
    BY <2>1, <1>1, <1>5, <1>6
  <2>2. CASE r \in l0
    <3>1. r.slot \in Nat /\ r.slot < root.cursor
      BY <2>2 DEF Record, UpsertsBelowCursor, Upserts
    <3> QED
      BY <3>1, <1>1, <1>5, <1>14
  <2> QED
    BY <2>1, <2>2, <1>2
<1>16. UpsertSlotsIncrease'
  <2> SUFFICES ASSUME NEW q \in l0', NEW r \in l0', q.kind = "UPSERT",
                      r.kind = "UPSERT", q.sequence < r.sequence
               PROVE  q.slot < r.slot
    BY DEF UpsertSlotsIncrease, Upserts
  <2>1. CASE q \in l0 /\ r \in l0
    BY <2>1 DEF UpsertSlotsIncrease, Upserts
  <2>2. CASE q \in l0 /\ r = rec
    <3>1. q.slot \in Nat /\ q.slot < root.cursor
      BY <2>2 DEF Record, UpsertsBelowCursor, Upserts
    <3> QED
      BY <3>1, <2>2, <1>1, <1>6, <1>14
  <2>3. CASE q = rec
    <3>1. r = rec \/ (r.sequence \in Nat /\ r.sequence < root.next_sequence)
      BY <1>2, ChainFacts
    <3> QED
      BY <3>1, <2>3, <1>1, <1>6
  <2> QED
    BY <2>1, <2>2, <2>3, <1>2
<1>17. HighWaters'
  BY <1>1, <1>2, <1>3, <1>5, <1>13, RootPublicationAssumption DEF HighWaters
<1>18. PendingRecords' = pending
  <2>1. root.next_sequence \notin Sequences(base.pending_l0)
    <3>1. \A q \in Sequences(root.pending_l0) \cup Sequences(root.active_l0) :
            \E r \in l0 : q = r.sequence
      BY DEF NoRecordLost
    <3> QED
      BY <3>1, <1>1, <1>3, ChainFacts
  <2> QED
    BY <2>1, <1>2, <1>5, <1>6 DEF PendingRecords, Chain
<1>19. PendingTailContiguous'
  BY <1>2, <1>3, <1>5, <1>18 DEF PendingTailContiguous
<1>20. ActiveTailContiguous'
  <2>1. (l0 \ PendingRecords)' = (l0 \ pending) \cup {rec}
    <3>1. rec \notin l0
      BY <1>1, <1>6, ChainFacts
    <3> QED
      BY <3>1, <1>2, <1>18 DEF Chain
  <2>2. Tail((l0 \ PendingRecords)', slotCount) =
          (start .. root.next_document_slot - 1) \cup
            (IF kind = "UPSERT" /\ slot >= slotCount THEN {slot} ELSE {})
    <3>1. Tail((l0 \ pending) \cup {rec}, slotCount) =
            Tail(l0 \ pending, slotCount) \cup
              (IF rec.kind = "UPSERT" /\ rec.slot >= slotCount
               THEN {rec.slot} ELSE {})
      BY TailOfOneMore
    <3>2. Tail(l0 \ pending, slotCount) = start .. root.next_document_slot - 1
      BY <1>3
    <3> QED
      BY <2>1, <3>1, <3>2, <1>6
  <2>3. ActiveStart' = start
    BY <1>2 DEF ActiveStart
  <2>4. kind = "UPSERT" /\ slot >= slotCount => slot = root.next_document_slot
    BY <1>1, <1>2, <1>13 DEF UpsertSlots
  <2>5. start \in Nat /\ start <= root.next_document_slot
    BY <1>1, <1>3, <1>13
  <2> HIDE DEF start
  <2>6. (start .. root.next_document_slot - 1) \cup
          (IF kind = "UPSERT" /\ slot >= slotCount THEN {slot} ELSE {})
          = start .. root'.next_document_slot - 1
    <3>1. CASE kind = "UPSERT" /\ slot >= slotCount
      <4>1. slot = root.next_document_slot
        BY <3>1, <2>4
      <4>2. root'.next_document_slot = slot + 1
        BY <3>1, <4>1, <1>5
      <4> QED
        BY <3>1, <4>1, <4>2, <2>5, <1>1
    <3>2. CASE ~(kind = "UPSERT" /\ slot >= slotCount)
      <4>1. root'.next_document_slot = root.next_document_slot
        BY <3>2, <1>1, <1>5, <1>13
      <4> QED
        BY <3>2, <4>1
    <3> QED
      BY <3>1, <3>2
  <2> QED
    BY <2>2, <2>3, <2>6, <1>2 DEF ActiveTailContiguous
<1>21. BuildsCurrent'
  <2>1. CASE base.next_segment_id = root.next_segment_id + 1
    BY <2>1, <1>2, <1>5, NewSegmentId
  <2>2. CASE /\ base.next_segment_id = root.next_segment_id
             /\ base.pending_l0 = root.pending_l0
    <3>1. PendingRecords' = PendingRecords
      BY <2>2, <1>18 DEF PendingRecords, Chain
    <3> QED
      BY <3>1, <2>2, <1>2, <1>5 DEF BuildsCurrent
  <2> QED
    BY <2>1, <2>2, <1>3
<1> QED
  BY <1>7, <1>8, <1>9, <1>10, <1>12, <1>15, <1>16, <1>17, <1>19, <1>20, <1>21

\* Reading the root for a build preserves the invariant.
LEMMA BeginBuildIInv ==
    ASSUME IInv, NEW p \in Publishers, NEW seal \in BOOLEAN,
           NEW exact \in BOOLEAN, BeginBuild(p, seal, exact)
    PROVE  IInv'
<1> USE DEF IInv, TypeOK
<1> DEFINE b == [root |-> root, slotCount |-> slotCount,
                 records |-> PendingRecords, seal |-> seal, exact |-> exact]
<1>1. /\ UNCHANGED <<root, slotCount, l0, sealed, high, parent>>
      /\ build' = [build EXCEPT ![p] = b]
      /\ root.next_segment_id \in Nat
  BY RootFieldTypes DEF BeginBuild
<1>2. PendingRecords' = PendingRecords /\ PendingRecords \subseteq l0
  BY <1>1 DEF PendingRecords
<1>3. TypeOK'
  <2>1. b \in Build
    BY <1>2 DEF Build
  <2> QED
    BY <1>1, <2>1
<1>4. FiniteRecords'
  <2>1. IsFiniteSet(b.records)
    BY <1>2, FS_Subset DEF FiniteRecords
  <2> QED
    BY <1>1, <2>1 DEF FiniteRecords
<1>5. BuildsCurrent'
  <2>1. \A q \in Publishers : q # p => build'[q] = build[q]
    BY <1>1
  <2>2. build'[p] = b
    BY <1>1
  <2>3. /\ b.root.next_segment_id <= root.next_segment_id
        /\ b.slotCount = slotCount
        /\ b.records = PendingRecords
    BY <1>1
  <2> HIDE DEF b
  <2> QED
    BY <1>1, <1>2, <2>1, <2>2, <2>3 DEF BuildsCurrent
<1>6. RootAlwaysValid' /\ ActiveIsNewest' /\ NoRecordLost' /\ HighWaters'
  BY <1>1 DEF RootAlwaysValid, ActiveIsNewest, NoRecordLost, HighWaters
<1>7. UpsertSlotsIncrease' /\ UpsertsBelowCursor'
  BY <1>1 DEF UpsertSlotsIncrease, UpsertsBelowCursor, Upserts
<1>8. PendingTailContiguous' /\ ActiveTailContiguous'
  BY <1>1, <1>2 DEF PendingTailContiguous, ActiveTailContiguous, ActiveStart
<1> QED
  BY <1>3, <1>4, <1>5, <1>6, <1>7, <1>8

\* What the compare-and-swap tells a publisher: nothing it read has changed.
LEMMA MatchFacts ==
    ASSUME IInv, NEW p \in Publishers, build[p] # NoBuild, Matches(build[p])
    PROVE  /\ build[p].slotCount = slotCount
           /\ build[p].records = PendingRecords
           /\ build[p].root.root_id = root.root_id
BY DEF IInv, BuildsCurrent, Matches, PublishMatches

\* A root whose pending chain a seal consumed passes validation.
LEMMA SealValid ==
    ASSUME NEW r \in ReadRoot, RootValid(r)
    PROVE  RootValid(SealPending(r))
<1> DEFINE q == SealPending(r)
<1>1. /\ r.next_segment_id \in Nat /\ r.cursor \in Nat /\ r.root_id \in Nat
      /\ r.next_document_slot \in Nat /\ r.active_l0 \in Frontier
  BY RootFieldTypes
<1>2. /\ q.root_id = r.next_segment_id /\ q.next_sequence = r.next_sequence
      /\ q.next_document_slot = r.next_document_slot
      /\ q.cursor = IF r.active_l0.record_count = 0 THEN 0 ELSE r.cursor
      /\ q.next_segment_id = r.next_segment_id + 1
      /\ q.active_l0 = r.active_l0
      /\ q.pending_l0 = EmptyFrontier(0)
  BY SealFields
<1> HIDE DEF q
<1>3. Absent(q.pending_l0) /\ FrontierValid(q.pending_l0, TRUE)
  BY <1>2, EmptyFrontierType DEF FrontierValid, Absent
<1>4. r.active_l0.segment_id \in Nat
  BY <1>1 DEF Frontier
<1>5. /\ q.root_id # 0 /\ q.next_sequence # 0
      /\ q.next_document_slot <= MaxSlot
      /\ q.cursor <= q.next_document_slot
      /\ q.root_id < q.next_segment_id
      /\ q.active_l0.segment_id < q.next_segment_id
  BY <1>1, <1>2, <1>4 DEF RootValid
<1>6. /\ FrontierValid(q.active_l0, FALSE)
      /\ q.active_l0.record_count # 0 =>
           q.active_l0.max_sequence < q.next_sequence
  BY <1>2 DEF RootValid
<1>7. RootValid(q)
  BY <1>3, <1>5, <1>6 DEF RootValid
<1> QED
  BY <1>7 DEF q

\* Publishing a seal preserves the invariant.
LEMMA PublishSealIInv ==
    ASSUME IInv, NEW p \in Publishers, PublishSeal(p)
    PROVE  IInv'
<1> USE DEF IInv, TypeOK
<1>1. /\ build[p].slotCount = slotCount
      /\ build[p].records = PendingRecords
  BY MatchFacts DEF PublishSeal
<1>2. /\ root' \in ReadRoot
      /\ root'.next_sequence = root.next_sequence
      /\ root'.next_document_slot = root.next_document_slot
      /\ root'.cursor = IF root.active_l0.record_count = 0
                        THEN 0 ELSE root.cursor
      /\ root'.next_segment_id = root.next_segment_id + 1
      /\ root'.active_l0 = root.active_l0
      /\ root'.pending_l0 = EmptyFrontier(0)
  BY SealFields DEF PublishSeal
<1>3. /\ l0' = l0 \ PendingRecords
      /\ sealed' = sealed \cup {r.sequence : r \in PendingRecords}
      /\ build' = [build EXCEPT ![p] = NoBuild]
      /\ high' = high
  BY <1>1 DEF PublishSeal
<1>4. /\ root.next_document_slot \in Nat /\ slotCount \in Nat /\ high \in Nat
      /\ slotCount <= root.next_document_slot
      /\ high <= root.next_document_slot
      /\ BuiltDocuments < root.next_sequence
      /\ root.next_segment_id \in Nat
  BY RootFieldTypes DEF HighWaters
<1>5. ~Absent(root.pending_l0)
  BY DEF PublishSeal, CanSealPending
<1>6. slotCount' = ActiveStart
  <2>1. slotCount' = slotCount + Cardinality(slotCount .. high - 1)
    BY <1>1, <1>5 DEF PublishSeal, SealedSlotCount, PendingTailContiguous
  <2>2. Cardinality(slotCount .. high - 1) =
          IF slotCount > high - 1 THEN 0 ELSE high - 1 - slotCount + 1
    BY <1>4, FS_Interval
  <2> QED
    BY <2>1, <2>2, <1>4 DEF ActiveStart
<1>7. /\ ActiveStart \in Nat /\ slotCount <= ActiveStart
      /\ high <= ActiveStart /\ ActiveStart <= root.next_document_slot
  BY <1>4 DEF ActiveStart
<1>8. PendingRecords \subseteq l0 /\ PendingRecords' = {}
  <2>1. Sequences(root'.pending_l0) = {}
    BY <1>2, EmptyFrontierType DEF Sequences
  <2> QED
    BY <2>1 DEF PendingRecords
<1>9. TypeOK'
  <2>1. parent' \in Nat
    BY BuildFieldTypes, RootFieldTypes DEF PublishSeal
  <2>2. sealed' \subseteq Nat
    BY <1>3, <1>8, ChainFacts
  <2> QED
    BY <1>2, <1>3, <1>6, <1>7, <2>1, <2>2
<1>10. FiniteRecords'
  BY <1>3, FS_Subset DEF FiniteRecords
<1>11. RootAlwaysValid'
  BY SealValid DEF PublishSeal, RootAlwaysValid
<1>12. ActiveIsNewest'
  BY <1>2 DEF ActiveIsNewest
<1>13. NoRecordLost'
  <2>1. {r.sequence : r \in l0'} = Sequences(root.active_l0)
    BY <1>3, ChainFacts DEF NoRecordLost
  <2>2. Sequences(root'.pending_l0) = {}
    BY <1>2, EmptyFrontierType DEF Sequences
  <2>3. sealed' \cup {r.sequence : r \in l0'} =
          sealed \cup {r.sequence : r \in l0}
    BY <1>3, <1>8
  <2>4. \A r \in l0' : r.sequence \notin sealed'
    BY <1>3, ChainFacts DEF NoRecordLost
  <2> QED
    BY <1>2, <2>1, <2>2, <2>3, <2>4 DEF NoRecordLost
<1>14. UpsertSlotsIncrease' /\ UpsertsBelowCursor'
  <2>1. root.active_l0.record_count = 0 => l0' = {}
    BY <1>3, ChainFacts
  <2> QED
    BY <1>2, <1>3, <2>1
    DEF UpsertSlotsIncrease, UpsertsBelowCursor, Upserts
<1>15. HighWaters'
  BY <1>2, <1>3, <1>4, <1>6, <1>7 DEF HighWaters
<1>16. PendingTailContiguous'
  BY <1>2, <1>8, TailOfNone, EmptyFrontierType
  DEF PendingTailContiguous, Absent
<1>17. ActiveTailContiguous'
  <2>1. Tail(l0 \ PendingRecords, ActiveStart) =
          {s \in Tail(l0 \ PendingRecords, slotCount) : s >= ActiveStart}
    BY <1>4, <1>7, TailCut
  <2>2. Tail(l0 \ PendingRecords, ActiveStart) =
          ActiveStart .. root.next_document_slot - 1
    <3>1. {s \in ActiveStart .. root.next_document_slot - 1 :
             s >= ActiveStart} = ActiveStart .. root.next_document_slot - 1
      BY <1>4, <1>7
    <3> QED
      BY <2>1, <3>1 DEF ActiveTailContiguous
  <2>3. ActiveStart' = slotCount'
    <3>1. high' <= slotCount' /\ high' \in Nat /\ slotCount' \in Nat
      BY <1>3, <1>4, <1>6, <1>7
    <3> QED
      BY <3>1 DEF ActiveStart
  <2> QED
    BY <1>2, <1>3, <1>6, <1>8, <2>2, <2>3 DEF ActiveTailContiguous
<1>18. BuildsCurrent'
  BY <1>2, <1>3, NewSegmentId
<1> QED
  BY <1>9, <1>10, <1>11, <1>12, <1>13, <1>14, <1>15, <1>16, <1>17, <1>18

\* A root whose manifest was replaced passes validation.
LEMMA ReplaceValid ==
    ASSUME NEW r \in ReadRoot, RootValid(r)
    PROVE  RootValid(ReplaceManifest(r))
<1> DEFINE q == ReplaceManifest(r)
<1>1. /\ r.next_segment_id \in Nat /\ r.cursor \in Nat /\ r.root_id \in Nat
      /\ r.next_document_slot \in Nat
      /\ r.active_l0 \in Frontier /\ r.pending_l0 \in Frontier
  BY RootFieldTypes
<1>2. /\ q.root_id = r.next_segment_id /\ q.next_sequence = r.next_sequence
      /\ q.next_document_slot = r.next_document_slot
      /\ q.cursor = 0 \/ q.cursor = r.cursor
      /\ q.next_segment_id = r.next_segment_id + 1
      /\ q.active_l0 = r.active_l0
      /\ q.pending_l0 = r.pending_l0
  BY ReplaceFields
<1> HIDE DEF q
<1>3. r.active_l0.segment_id \in Nat /\ r.pending_l0.segment_id \in Nat
  BY <1>1 DEF Frontier
<1>4. /\ q.root_id # 0 /\ q.next_sequence # 0
      /\ q.next_document_slot <= MaxSlot
      /\ q.cursor <= q.next_document_slot
      /\ q.root_id < q.next_segment_id
      /\ q.active_l0.segment_id < q.next_segment_id
  BY <1>1, <1>2, <1>3 DEF RootValid
<1>5. /\ FrontierValid(q.active_l0, FALSE)
      /\ FrontierValid(q.pending_l0, TRUE)
      /\ q.active_l0.record_count # 0 =>
           q.active_l0.max_sequence < q.next_sequence
  BY <1>2 DEF RootValid
<1>6. ~Absent(q.pending_l0) =>
        /\ q.pending_l0.record_count # 0
        /\ q.pending_l0.segment_id # q.active_l0.segment_id
        /\ q.pending_l0.segment_id < q.next_segment_id
        /\ q.pending_l0.max_sequence < q.next_sequence
        /\ q.active_l0.record_count # 0 =>
             q.pending_l0.max_sequence < q.active_l0.min_sequence
  BY <1>1, <1>2, <1>3 DEF RootValid
<1>7. RootValid(q)
  BY <1>4, <1>5, <1>6 DEF RootValid
<1> QED
  BY <1>7 DEF q

\* Publishing any other manifest preserves the invariant.
LEMMA PublishReplaceIInv ==
    ASSUME IInv, NEW p \in Publishers,
           NEW count \in 0 .. root.next_document_slot, PublishReplace(p, count)
    PROVE  IInv'
<1> USE DEF IInv, TypeOK
<1>1. build[p].slotCount = slotCount
  BY MatchFacts DEF PublishReplace
<1>2. /\ root' \in ReadRoot
      /\ root'.next_sequence = root.next_sequence
      /\ root'.next_document_slot = root.next_document_slot
      /\ root'.cursor = IF /\ root.active_l0.record_count = 0
                           /\ root.pending_l0.record_count = 0
                        THEN 0 ELSE root.cursor
      /\ root'.next_segment_id = root.next_segment_id + 1
      /\ root'.active_l0 = root.active_l0
      /\ root'.pending_l0 = root.pending_l0
  BY ReplaceFields DEF PublishReplace
<1>3. /\ slotCount' = count
      /\ build' = [build EXCEPT ![p] = NoBuild]
      /\ UNCHANGED <<l0, sealed, high>>
  BY DEF PublishReplace
<1>4. /\ root.next_document_slot \in Nat /\ slotCount \in Nat /\ high \in Nat
      /\ high <= root.next_document_slot
      /\ BuiltDocuments < root.next_sequence
      /\ Absent(root.pending_l0) => high <= slotCount
  BY RootFieldTypes DEF HighWaters
<1>5. /\ count \in Nat /\ slotCount <= count
      /\ count <= root.next_document_slot
  BY <1>1, <1>4 DEF PublishReplace
<1>6. PendingRecords' = PendingRecords /\ PendingRecords \subseteq l0
  BY <1>2, <1>3 DEF PendingRecords
<1>7. TypeOK'
  <2>1. parent' \in Nat
    BY BuildFieldTypes, RootFieldTypes DEF PublishReplace
  <2> QED
    BY <1>2, <1>3, <1>5, <2>1
<1>8. FiniteRecords'
  BY <1>3 DEF FiniteRecords
<1>9. RootAlwaysValid'
  BY ReplaceValid DEF PublishReplace, RootAlwaysValid
<1>10. ActiveIsNewest' /\ NoRecordLost' /\ UpsertSlotsIncrease'
  BY <1>2, <1>3 DEF ActiveIsNewest, NoRecordLost, UpsertSlotsIncrease, Upserts
<1>11. UpsertsBelowCursor'
  <2>1. ASSUME root.active_l0.record_count = 0,
               root.pending_l0.record_count = 0
        PROVE  l0 = {}
    BY <2>1, ChainFacts DEF PendingRecords, Sequences
  <2> QED
    BY <1>2, <1>3, <2>1 DEF UpsertsBelowCursor, Upserts
<1>12. HighWaters'
  BY <1>2, <1>3, <1>4, <1>5 DEF HighWaters
<1>13. PendingTailContiguous'
  <2>1. Tail(PendingRecords, count) =
          {s \in Tail(PendingRecords, slotCount) : s >= count}
    BY <1>4, <1>5, <1>6, TailCut
  <2>2. {s \in slotCount .. high - 1 : s >= count} = count .. high - 1
    BY <1>4, <1>5
  <2> QED
    BY <1>2, <1>3, <1>6, <2>1, <2>2 DEF PendingTailContiguous
<1>14. ActiveTailContiguous'
  <2>1. Tail(l0 \ PendingRecords, count) =
          {s \in Tail(l0 \ PendingRecords, slotCount) : s >= count}
    BY <1>4, <1>5, <1>6, TailCut
  <2>2. {s \in ActiveStart .. root.next_document_slot - 1 : s >= count}
          = ActiveStart' .. root.next_document_slot - 1
    BY <1>3, <1>4, <1>5 DEF ActiveStart
  <2> QED
    BY <1>2, <1>3, <1>6, <2>1, <2>2 DEF ActiveTailContiguous
<1>15. BuildsCurrent'
  BY <1>2, <1>3, NewSegmentId
<1> QED
  BY <1>7, <1>8, <1>9, <1>10, <1>11, <1>12, <1>13, <1>14, <1>15

\* Dropping staged manifests preserves the invariant.
LEMMA AbandonIInv ==
    ASSUME IInv, NEW P \in SUBSET Publishers, Abandon(P)
    PROVE  IInv'
<1> USE DEF IInv, TypeOK
<1>1. /\ UNCHANGED <<root, slotCount, l0, sealed, high, parent>>
      /\ build' = [p \in Publishers |->
                     IF p \in P THEN NoBuild ELSE build[p]]
  BY DEF Abandon
<1>2. TypeOK'
  BY <1>1
<1>3. FiniteRecords'
  BY <1>1 DEF FiniteRecords
<1>4. PendingRecords' = PendingRecords
  BY <1>1 DEF PendingRecords
<1>5. BuildsCurrent'
  BY <1>1, <1>4 DEF BuildsCurrent
<1>6. RootAlwaysValid' /\ ActiveIsNewest' /\ NoRecordLost' /\ HighWaters'
  BY <1>1 DEF RootAlwaysValid, ActiveIsNewest, NoRecordLost, HighWaters
<1>7. UpsertSlotsIncrease' /\ UpsertsBelowCursor'
  BY <1>1 DEF UpsertSlotsIncrease, UpsertsBelowCursor, Upserts
<1>8. PendingTailContiguous' /\ ActiveTailContiguous'
  BY <1>1, <1>4 DEF PendingTailContiguous, ActiveTailContiguous, ActiveStart
<1> QED
  BY <1>2, <1>3, <1>5, <1>6, <1>7, <1>8

\* Every step, and every stuttering step, preserves the invariant.
LEMMA NextIInv == IInv /\ [Next]_vars => IInv'
<1> SUFFICES ASSUME IInv, [Next]_vars PROVE IInv'
  OBVIOUS
<1>1. ASSUME NEW kind \in RecordKinds,
             NEW slot \in 0 .. root.next_document_slot, Append(kind, slot)
      PROVE  IInv'
  BY <1>1, AppendIInv
<1>2. CASE Rotate
  BY <1>2, RotateIInv
<1>3. ASSUME NEW p \in Publishers, NEW seal \in BOOLEAN, NEW exact \in BOOLEAN,
             BeginBuild(p, seal, exact)
      PROVE  IInv'
  BY <1>3, BeginBuildIInv
<1>4. ASSUME NEW p \in Publishers, PublishSeal(p)
      PROVE  IInv'
  BY <1>4, PublishSealIInv
<1>5. ASSUME NEW p \in Publishers,
             NEW count \in 0 .. root.next_document_slot, PublishReplace(p, count)
      PROVE  IInv'
  BY <1>5, PublishReplaceIInv
<1>6. ASSUME NEW P \in SUBSET Publishers, Abandon(P)
      PROVE  IInv'
  BY <1>6, AbandonIInv
<1>7. CASE UNCHANGED vars
  BY <1>7 DEF vars, IInv, TypeOK, FiniteRecords, RootAlwaysValid,
     ActiveIsNewest, NoRecordLost, UpsertSlotsIncrease, UpsertsBelowCursor,
     HighWaters, PendingTailContiguous, ActiveTailContiguous, ActiveStart,
     BuildsCurrent, Upserts, PendingRecords
<1> QED
  BY <1>1, <1>2, <1>3, <1>4, <1>5, <1>6, <1>7 DEF Next

(***************************************************************************)
(* Theorems                                                                *)
(***************************************************************************)
\* The inductive invariant holds in every reachable state.
LEMMA Invariance == Spec => []IInv
BY InitIInv, NextIInv, PTL DEF Spec

\* The root, the L0 and every build in progress keep their types whatever
\* appends, rotations and publications happen.
THEOREM TypeCorrect == Spec => []TypeOK
<1>1. IInv => TypeOK
  BY DEF IInv
<1> QED
  BY <1>1, Invariance, PTL

\* Every root that append, rotation, seal or replacement stores passes
\* evoke_segment_read_root_validate.
THEOREM RootStaysValid == Spec => []RootAlwaysValid
<1>1. IInv => RootAlwaysValid
  BY DEF IInv
<1> QED
  BY <1>1, Invariance, PTL

\* A sequence handed out by an append is in a chain until one published seal
\* consumes it, for any number of publishers that race each other and the
\* appends.
THEOREM RecordsSurvive == Spec => []NoRecordLost
<1>1. IInv => NoRecordLost
  BY DEF IInv
<1> QED
  BY <1>1, Invariance, PTL

\* No two unsealed upserts share a document slot, and later ones take higher
\* slots: the cursor is reset only when no unsealed upsert is left.
THEOREM SlotsHandedOutInOrder == Spec => []UpsertSlotsIncrease
<1>1. IInv => UpsertSlotsIncrease
  BY DEF IInv
<1> QED
  BY <1>1, Invariance, PTL

\* The slots above the manifest are those of unsealed upserts, so the L0
\* high-water check of a query never fails.
THEOREM TailStaysClosed == Spec => []TailClosed
BY TailClosedLemma, Invariance, PTL

\* The seal finds the fresh slots of its chain contiguous from the manifest's
\* slot count on.
THEOREM PendingTailStaysContiguous == Spec => []PendingTailContiguous
<1>1. IInv => PendingTailContiguous
  BY DEF IInv
<1> QED
  BY <1>1, Invariance, PTL

\* The root compare-and-swap: a publication replaces the manifest it was built
\* from, never one published meanwhile.
THEOREM PublicationsNotLost == Spec => NoLostPublication
<1> DEFINE Step == root'.root_id # root.root_id => parent' = root.root_id
<1>1. IInv /\ [Next]_vars => [Step]_vars
  <2> SUFFICES ASSUME IInv, Next, root'.root_id # root.root_id
               PROVE  parent' = root.root_id
    BY DEF vars
  <2>1. ASSUME NEW kind \in RecordKinds,
               NEW slot \in 0 .. root.next_document_slot, Append(kind, slot)
        PROVE  FALSE
    <3>1. slot \in Nat /\ root \in ReadRoot
      BY RootFieldTypes DEF IInv, TypeOK
    <3>2. AppendBase(root) \in ReadRoot /\ AppendBase(root).root_id = root.root_id
      BY <3>1, RotateFields DEF AppendBase
    <3> QED
      BY <2>1, <3>1, <3>2, AdvanceFields DEF Append
  <2>2. CASE Rotate
    BY <2>2, RotateFields DEF Rotate, IInv, TypeOK
  <2>3. ASSUME NEW p \in Publishers, NEW seal \in BOOLEAN,
               NEW exact \in BOOLEAN, BeginBuild(p, seal, exact)
        PROVE  FALSE
    BY <2>3 DEF BeginBuild
  <2>4. ASSUME NEW p \in Publishers, PublishSeal(p)
        PROVE  parent' = root.root_id
    BY <2>4, MatchFacts DEF PublishSeal
  <2>5. ASSUME NEW p \in Publishers,
               NEW count \in 0 .. root.next_document_slot,
               PublishReplace(p, count)
        PROVE  parent' = root.root_id
    BY <2>5, MatchFacts DEF PublishReplace
  <2>6. ASSUME NEW P \in SUBSET Publishers, Abandon(P)
        PROVE  FALSE
    BY <2>6 DEF Abandon
  <2> QED
    BY <2>1, <2>2, <2>3, <2>4, <2>5, <2>6 DEF Next
<1> QED
  BY <1>1, Invariance, PTL DEF Spec, NoLostPublication
=============================================================================
