-------------------------- MODULE RootPublication --------------------------
(***************************************************************************)
(* How one index root is shared by foreground writers, which append L0     *)
(* records under the append lock, and by publishers of copy-on-write       *)
(* manifests (pending seal, VACUUM patch, compaction, fold, reclamation,   *)
(* accelerator baseline), which read the root, build for a long time       *)
(* without the append lock, and swap the root only if it is still the one  *)
(* they read.                                                              *)
(*                                                                         *)
(* The maintenance lock serialises most publishers; the accelerator build  *)
(* gives it up.  Here any number of publishers run at once, so what holds  *)
(* needs the compare-and-swap only.                                        *)
(*                                                                         *)
(* Which manifest slots are reusable is decided by document state that     *)
(* DocumentLifecycle models; here any manifest slot may be.                *)
(***************************************************************************)
EXTENDS SegmentRoot, FiniteSets

CONSTANTS
    Publishers,     \* backends that build manifests
    BuiltDocuments, \* rows indexed by CREATE INDEX
    RecordKinds,    \* the kinds appended: all but UPSERT act alike here
    NoBuild         \* a publisher that is not building

ASSUME RootPublicationAssumption ==
    /\ BuiltDocuments \in Nat
    /\ RecordKinds \subseteq Kinds
    /\ BuiltDocuments < MaxSequence
    /\ BuiltDocuments <= MaxSlot

VARIABLES
    root,       \* the read root on the metapage
    slotCount,  \* document_slot_count of the root's manifest
    l0,         \* the records of the active and the pending chain
    sealed,     \* history: sequences whose records a published seal consumed
    high,       \* history: next_document_slot at the latest rotation
    parent,     \* parent_manifest_id of the root's manifest
    build       \* publisher -> what it read before it began to build

vars == <<root, slotCount, l0, sealed, high, parent, build>>

Record == [kind: Kinds, slot: Nat, sequence: Nat]
Build  == [root: ReadRoot, slotCount: Nat, records: SUBSET Record,
           seal: BOOLEAN, exact: BOOLEAN]

Upserts == {r \in l0 : r.kind = "UPSERT"}
PendingRecords == {r \in l0 : r.sequence \in Sequences(root.pending_l0)}

Init ==
    /\ root = InitialRoot(BuiltDocuments)
    /\ slotCount = BuiltDocuments
    /\ l0 = {}
    /\ sealed = {}
    /\ high = 0
    /\ parent = 0
    /\ build = [p \in Publishers |-> NoBuild]

(***************************************************************************)
(* Foreground append.  An upsert takes a reusable manifest slot at or      *)
(* after the cursor, else the next fresh slot; any other record names a    *)
(* slot already handed out.                                                *)
(***************************************************************************)
UpsertSlots == (root.cursor .. slotCount - 1) \cup {root.next_document_slot}

Append(kind, slot) ==
    LET base == AppendBase(root) IN
    /\ CanAppend(root)
    /\ IF kind = "UPSERT"
       THEN /\ slot \in UpsertSlots
            /\ slot = root.next_document_slot => slot < MaxSlot
       ELSE slot < root.next_document_slot
    /\ root' = AdvanceRoot(base, kind, slot)
    /\ l0' = l0 \cup {[kind |-> kind, slot |-> slot,
                       sequence |-> root.next_sequence]}
    /\ high' = IF base = root THEN high ELSE root.next_document_slot
    /\ UNCHANGED <<slotCount, sealed, parent, build>>

\* Background rotation of a nonempty active chain.
Rotate ==
    /\ CanRotate(root)
    /\ root' = RotateL0(root)
    /\ high' = root.next_document_slot
    /\ UNCHANGED <<slotCount, l0, sealed, parent, build>>

(***************************************************************************)
(* Publication                                                             *)
(***************************************************************************)
BeginBuild(p, seal, exact) ==
    /\ build[p] = NoBuild
    /\ seal => ~Absent(root.pending_l0)
    /\ build' = [build EXCEPT ![p] =
                   [root |-> root, slotCount |-> slotCount,
                    records |-> PendingRecords,
                    seal |-> seal, exact |-> exact]]
    /\ UNCHANGED <<root, slotCount, l0, sealed, high, parent>>

Matches(b) == PublishMatches(root, b.root, b.seal, b.exact)

\* The fresh slots, from count on, that the upserts among some records took.
Tail(records, count) ==
    {r.slot : r \in {q \in records : q.kind = "UPSERT" /\ q.slot >= count}}

\* Mutant: the manifest is not extended by the fresh slots of the chain.
SealedSlotCountKept(b) == b.slotCount

\* The slot count of the manifest a seal builds.
SealedSlotCount(b) == b.slotCount + Cardinality(Tail(b.records, b.slotCount))

\* The seal is built from the pending records read when the build began; its
\* manifest covers their tail.  Publication drops the pending chain.
PublishSeal(p) ==
    /\ build[p] # NoBuild
    /\ build[p].seal
    /\ Matches(build[p])
    /\ CanSealPending(root)
    /\ root' = SealPending(root)
    /\ slotCount' = SealedSlotCount(build[p])
    /\ l0' = l0 \ PendingRecords
    /\ sealed' = sealed \cup {r.sequence : r \in build[p].records}
    /\ parent' = build[p].root.root_id
    /\ build' = [build EXCEPT ![p] = NoBuild]
    /\ UNCHANGED high

\* Any other publication.  Only one that requires exact frontiers (VACUUM)
\* may give L0-owned slots a document record and so extend the manifest.
PublishReplace(p, count) ==
    /\ build[p] # NoBuild
    /\ ~build[p].seal
    /\ Matches(build[p])
    /\ CanReplaceManifest(root)
    /\ count \in build[p].slotCount .. root.next_document_slot
    /\ count # build[p].slotCount => build[p].exact
    /\ root' = ReplaceManifest(root)
    /\ slotCount' = count
    /\ parent' = build[p].root.root_id
    /\ build' = [build EXCEPT ![p] = NoBuild]
    /\ UNCHANGED <<l0, sealed, high>>

\* The root moved or the publisher failed: the staged manifest is dropped.  A
\* crash drops several.
Abandon(P) ==
    /\ \E p \in P : build[p] # NoBuild
    /\ build' = [p \in Publishers |-> IF p \in P THEN NoBuild ELSE build[p]]
    /\ UNCHANGED <<root, slotCount, l0, sealed, high, parent>>

Next ==
    \/ \E kind \in RecordKinds, slot \in 0 .. root.next_document_slot :
         Append(kind, slot)
    \/ Rotate
    \/ \E p \in Publishers :
         \/ \E seal, exact \in BOOLEAN : BeginBuild(p, seal, exact)
         \/ PublishSeal(p)
         \/ \E count \in 0 .. root.next_document_slot :
              PublishReplace(p, count)
    \/ \E P \in SUBSET Publishers : Abandon(P)

Spec == Init /\ [][Next]_vars

(***************************************************************************)
(* Properties                                                              *)
(***************************************************************************)
TypeOK ==
    /\ root \in ReadRoot
    /\ slotCount \in Nat
    /\ l0 \subseteq Record
    /\ sealed \subseteq Nat
    /\ high \in Nat
    /\ parent \in Nat
    /\ build \in [Publishers -> Build \cup {NoBuild}]

\* The root stored by append, rotation, seal and replacement always passes
\* evoke_segment_read_root_validate, which every reader and writer runs.
RootAlwaysValid == RootValid(root)

\* Every sequence ever handed out is either consumed by exactly one published
\* seal or still in exactly one chain: a publication that races appends and
\* rotations neither loses a record nor seals one it did not read.
NoRecordLost ==
    /\ {r.sequence : r \in l0} =
         Sequences(root.pending_l0) \cup Sequences(root.active_l0)
    /\ sealed \cup {r.sequence : r \in l0} =
         BuiltDocuments + 1 .. root.next_sequence - 1
    /\ \A r \in l0 : r.sequence \notin sealed

\* Unsealed upserts take strictly increasing slots, so no two of them share a
\* document slot, whatever slots compaction frees meanwhile: what the seal,
\* VACUUM and the query overlay each reject as a duplicate upsert.
UpsertSlotsIncrease ==
    \A q, r \in Upserts : q.sequence < r.sequence => q.slot < r.slot

\* The fresh slots above the manifest are exactly those of unsealed upserts:
\* the "L0 document high water" closure every query checks.
TailClosed ==
    /\ slotCount <= root.next_document_slot
    /\ Tail(l0, slotCount) = slotCount .. root.next_document_slot - 1

\* The fresh slots of the pending chain start at the manifest's slot count and
\* leave no gap, which the seal requires of them ("invalid evoke pending tail
\* range"): they are those handed out before the rotation.
PendingTailContiguous ==
    Tail(PendingRecords, slotCount) =
      IF Absent(root.pending_l0) THEN {} ELSE slotCount .. high - 1

\* A published manifest replaces the very manifest it was built from: no
\* publication undoes one that finished while it was building.
NoLostPublication ==
    [][root'.root_id # root.root_id => parent' = root.root_id]_vars
=============================================================================
