----------------------- MODULE DocumentLifecycleProofs -----------------------
(***************************************************************************)
(* The index of DocumentLifecycle uses its root as RootPublication says:   *)
(* every step of an index is an append, a rotation, a publication, an      *)
(* abandoned build or nothing to the root.  What RootPublicationProofs     *)
(* proves of any publishers is used in the argument, and so holds here.    *)
(***************************************************************************)
EXTENDS DocumentLifecycle, FiniteSetTheorems, WellFoundedInduction, TLAPS

\* The builds of the two publishers, and the sequences no chain holds any more.
Maintenance ==
    IF job.kind \in {"seal", "compact", "vacuum"}
    THEN job.base ELSE NoBuild
Builds == [maintenance |-> Maintenance, accelerator |-> accel.base]
Sealed == (1 .. root.next_sequence - 1) \ {r.sequence : r \in l0}

Root ==
    INSTANCE RootPublicationProofs WITH
      Publishers <- {"maintenance", "accelerator"},
      BuiltDocuments <- 0,
      RecordKinds <- Kinds,
      slotCount <- SlotCount(manifest),
      l0 <- Bare(l0),
      sealed <- Sealed,
      build <- Builds

(***************************************************************************)
(* The inductive invariant                                                 *)
(***************************************************************************)
\* The documents of a manifest are slots 0 .. n - 1.
Covers(m, n) == n \in Nat /\ Slots(m) = 0 .. n - 1

\* A build was read from some root, and the manifest it has staged has as many
\* slots as a publication of its kind may give it.
Staged(base, next, seal, exact) ==
    /\ base \in Build
    /\ base.seal = seal /\ base.exact = exact
    /\ base.slotCount <= base.root.next_document_slot
    /\ base.root.next_document_slot <= root.next_document_slot
    /\ seal => Covers(next, Root!SealedSlotCount(base))
    /\ ~seal /\ ~exact => Covers(next, base.slotCount)
    /\ exact => \E n \in base.slotCount .. base.root.next_document_slot :
                  Covers(next, n)

ManifestDense == Covers(manifest, SlotCount(manifest))
VacuumFields ==
    {"kind", "phase", "dead", "cands", "upserts", "ret", "base", "next"}
VacuumSound ==
    /\ DOMAIN job = VacuumFields
    /\ job.base # NoBuild => Staged(job.base, job.next, FALSE, TRUE)
    /\ \A c \in job.cands : c.slot \in Nat
    /\ \A u \in job.upserts : u.slot \in Nat /\ u.slot < root.next_document_slot
JobSound ==
    /\ job.kind = "seal" => Staged(job.base, job.next, TRUE, FALSE)
    /\ job.kind = "compact" => Staged(job.base, job.next, FALSE, FALSE)
    /\ job.kind = "vacuum" => VacuumSound
    /\ job.kind = "semantic" => job.slot \in Nat
AccelSound == Accelerating => Staged(accel.base, accel.next, FALSE, FALSE)

IInv ==
    /\ Root!IInv
    /\ ManifestDense
    /\ JobSound
    /\ AccelSound

(***************************************************************************)
(* The two specifications use the same root transitions                    *)
(***************************************************************************)
\* What RootPublication assumes of its constants.
LEMMA Assumptions == Root!RootPublicationAssumption /\ Root!SegmentRootAssumption
  BY SegmentRootAssumption
  DEF Kinds, Root!Kinds, Root!RootPublicationAssumption, Root!SegmentRootAssumption

LEMMA SameOperators ==
    /\ Root!ReadRoot = ReadRoot /\ Root!Kinds = Kinds
    /\ \A f : Root!Absent(f) = Absent(f) /\ Root!Sequences(f) = Sequences(f)
    /\ \A r : /\ Root!CanRotate(r) = CanRotate(r)
              /\ Root!RotateL0(r) = RotateL0(r)
              /\ Root!CanSealPending(r) = CanSealPending(r)
              /\ Root!SealPending(r) = SealPending(r)
              /\ Root!CanReplaceManifest(r) = CanReplaceManifest(r)
              /\ Root!ReplaceManifest(r) = ReplaceManifest(r)
              /\ Root!AppendBase(r) = AppendBase(r)
              /\ Root!CanAppend(r) = CanAppend(r)
    /\ \A r, kind, slot : Root!AdvanceRoot(r, kind, slot) = AdvanceRoot(r, kind, slot)
    /\ \A r, b, seal, exact :
         Root!PublishMatches(r, b, seal, exact) = PublishMatches(r, b, seal, exact)
    /\ \A n : Root!InitialRoot(n) = InitialRoot(n)
    /\ \A S : Root!Cardinality(S) = Cardinality(S)
<1>1. /\ Root!ReadRoot = ReadRoot /\ Root!Kinds = Kinds
      /\ \A f : Root!Absent(f) = Absent(f) /\ Root!Sequences(f) = Sequences(f)
      /\ \A n : Root!EmptyFrontier(n) = EmptyFrontier(n)
  BY DEF Root!ReadRoot, ReadRoot, Root!Frontier, Frontier, Root!Kinds, Kinds,
     Root!Absent, Absent, Root!Sequences, Sequences, Root!EmptyFrontier,
     EmptyFrontier
<1>2. \A r : /\ Root!CanRotate(r) = CanRotate(r)
             /\ Root!RotateL0(r) = RotateL0(r)
             /\ Root!WantsRotation(r) = WantsRotation(r)
  BY <1>1 DEF Root!CanRotate, CanRotate, Root!RotateL0, RotateL0,
     Root!WantsRotation, WantsRotation
<1>3. \A r : /\ Root!CanSealPending(r) = CanSealPending(r)
             /\ Root!SealPending(r) = SealPending(r)
             /\ Root!CanReplaceManifest(r) = CanReplaceManifest(r)
             /\ Root!ReplaceManifest(r) = ReplaceManifest(r)
  BY <1>1 DEF Root!CanSealPending, CanSealPending, Root!SealPending, SealPending,
     Root!CanReplaceManifest, CanReplaceManifest, Root!ReplaceManifest,
     ReplaceManifest
<1>4. \A r : Root!AppendBase(r) = AppendBase(r)
  BY <1>1, <1>2 DEF Root!AppendBase, AppendBase
<1>5. \A r : Root!CanAppend(r) = CanAppend(r)
  BY <1>1, <1>2, <1>4 DEF Root!CanAppend, CanAppend
<1>6. \A r, kind, slot :
        Root!AdvanceRoot(r, kind, slot) = AdvanceRoot(r, kind, slot)
  BY DEF Root!AdvanceRoot, AdvanceRoot, Root!AdvanceFrontier, AdvanceFrontier
<1>7. \A r, b, seal, exact :
        Root!PublishMatches(r, b, seal, exact) = PublishMatches(r, b, seal, exact)
  BY DEF Root!PublishMatches, PublishMatches
<1>8. \A n : Root!InitialRoot(n) = InitialRoot(n)
  BY <1>1 DEF Root!InitialRoot, InitialRoot
<1>9. \A S : Root!Cardinality(S) = Cardinality(S)
  BY DEF Root!Cardinality, Cardinality
<1> QED
  BY <1>1, <1>2, <1>3, <1>4, <1>5, <1>6, <1>7, <1>8, <1>9

(***************************************************************************)
(* Consequences of the invariant                                           *)
(***************************************************************************)
\* The root, and where the records and the documents are, from the invariant
\* of RootPublication.
LEMMA RootFacts ==
    ASSUME IInv
    PROVE  /\ root \in ReadRoot
           /\ root.next_document_slot \in Nat /\ root.next_sequence \in Nat
           /\ root.next_segment_id \in Nat
           /\ SlotCount(manifest) \in Nat
           /\ SlotCount(manifest) <= root.next_document_slot
           /\ root.next_sequence # 0
           /\ Slots(manifest) = 0 .. SlotCount(manifest) - 1
           /\ \A r \in l0 : r.kind \in Kinds /\ r.slot \in Nat /\ r.sequence \in Nat
<1>1. root \in ReadRoot
  BY SameOperators DEF IInv, Root!IInv, Root!TypeOK
<1>2. /\ root.next_document_slot \in Nat /\ root.next_sequence \in Nat
      /\ root.next_segment_id \in Nat
  BY <1>1 DEF ReadRoot
<1>3. SlotCount(manifest) <= root.next_document_slot
  BY DEF IInv, Root!IInv, Root!HighWaters
<1>4. root.next_sequence # 0
  BY DEF IInv, Root!IInv, Root!RootAlwaysValid, Root!RootValid
<1>5. ASSUME NEW r \in l0
      PROVE  r.kind \in Kinds /\ r.slot \in Nat /\ r.sequence \in Nat
  <2>1. [kind |-> r.kind, slot |-> r.slot, sequence |-> r.sequence] \in Root!Record
    BY DEF IInv, Root!IInv, Root!TypeOK, Bare
  <2> QED
    BY <2>1, SameOperators DEF Root!Record
<1> QED
  BY <1>1, <1>2, <1>3, <1>4, <1>5 DEF IInv, ManifestDense, Covers

\* The type of a build.
LEMMA BuildFields ==
    ASSUME DocumentLifecycleAssumption, NEW b \in Build
    PROVE  /\ b # NoBuild
           /\ b = [root |-> b.root, slotCount |-> b.slotCount,
                   records |-> b.records, seal |-> b.seal, exact |-> b.exact]
           /\ b.root \in ReadRoot /\ b.slotCount \in Nat
           /\ b.root.next_document_slot \in Nat
  BY DEF DocumentLifecycleAssumption, Build, ReadRoot

\* The root after a record was appended, after a rotation and after a
\* publication.
LEMMA RootSteps ==
    ASSUME NEW r \in ReadRoot
    PROVE  /\ AppendBase(r) \in ReadRoot
           /\ AppendBase(r).next_sequence = r.next_sequence
           /\ AppendBase(r).next_document_slot = r.next_document_slot
           /\ \A kind, slot : slot \in Nat =>
                /\ AdvanceRoot(r, kind, slot).next_sequence = r.next_sequence + 1
                /\ AdvanceRoot(r, kind, slot).next_document_slot >= r.next_document_slot
           /\ RotateL0(r).next_sequence = r.next_sequence
           /\ RotateL0(r).next_document_slot = r.next_document_slot
           /\ SealPending(r).next_sequence = r.next_sequence
           /\ SealPending(r).next_document_slot = r.next_document_slot
           /\ ReplaceManifest(r).next_sequence = r.next_sequence
           /\ ReplaceManifest(r).next_document_slot = r.next_document_slot
<1>1. r \in Root!ReadRoot /\ r.next_document_slot \in Nat
  BY SameOperators DEF ReadRoot
<1>2. /\ RotateL0(r) \in ReadRoot
      /\ RotateL0(r).next_sequence = r.next_sequence
      /\ RotateL0(r).next_document_slot = r.next_document_slot
  BY <1>1, Assumptions, SameOperators, Root!RotateFields
<1>3. /\ SealPending(r).next_sequence = r.next_sequence
      /\ SealPending(r).next_document_slot = r.next_document_slot
  BY <1>1, Assumptions, SameOperators, Root!SealFields
<1>4. /\ ReplaceManifest(r).next_sequence = r.next_sequence
      /\ ReplaceManifest(r).next_document_slot = r.next_document_slot
  BY <1>1, Assumptions, SameOperators, Root!ReplaceFields
<1>5. ASSUME NEW kind, NEW slot \in Nat
      PROVE  /\ AdvanceRoot(r, kind, slot).next_sequence = r.next_sequence + 1
             /\ AdvanceRoot(r, kind, slot).next_document_slot >= r.next_document_slot
  BY <1>1, Assumptions, SameOperators, Root!AdvanceFields
<1> QED
  BY <1>1, <1>2, <1>3, <1>4, <1>5 DEF AppendBase

\* What RootPublication sees of the records of a set.
LEMMA BareOfOneMore ==
    ASSUME NEW R, NEW x
    PROVE  /\ Bare(R \cup {x}) =
                Bare(R) \cup {[kind |-> x.kind, slot |-> x.slot,
                              sequence |-> x.sequence]}
           /\ {r.sequence : r \in R \cup {x}} =
                {r.sequence : r \in R} \cup {x.sequence}
  BY DEF Bare

LEMMA BareSequences ==
    ASSUME NEW R
    PROVE  {r.sequence : r \in Bare(R)} = {r.sequence : r \in R}
<1>1. \A r \in R : [kind |-> r.kind, slot |-> r.slot, sequence |-> r.sequence]
                  \in Bare(R)
  BY DEF Bare
<1>2. \A q \in Bare(R) : \E r \in R : q.sequence = r.sequence
  BY DEF Bare
<1>3. \A r \in R : \E q \in Bare(R) : q.sequence = r.sequence
  BY <1>1
<1> QED
  BY <1>2, <1>3

\* Appending a record is an append to the root.
LEMMA Appended ==
    ASSUME DocumentLifecycleAssumption, IInv, NEW kind \in Kinds,
           NEW slot \in Nat, NEW source, NEW atoms, NEW outcome,
           AppendRecord(kind, slot, source, atoms, outcome),
           UNCHANGED <<manifest, parent>>, Builds' = Builds,
           kind = "UPSERT" =>
             /\ slot \in (root.cursor .. SlotCount(manifest) - 1)
                           \cup {root.next_document_slot}
             /\ slot = root.next_document_slot => slot < MaxSlot,
           kind # "UPSERT" => slot < root.next_document_slot
    PROVE  /\ Root!Next
                  /\ root.next_document_slot <= root'.next_document_slot
<1>1. /\ CanAppend(root)
      /\ root' = AdvanceRoot(AppendBase(root), kind, slot)
      /\ l0' = l0 \cup {[kind |-> kind, slot |-> slot,
                         sequence |-> root.next_sequence,
                         source |-> source, atoms |-> atoms]}
      /\ high' = IF AppendBase(root) = root THEN high ELSE root.next_document_slot
  BY DEF AppendRecord
<1>2. /\ root.next_document_slot \in Nat /\ root.next_sequence \in Nat
      /\ root.next_sequence # 0
      /\ SlotCount(manifest) \in Nat
      /\ SlotCount(manifest) <= root.next_document_slot
      /\ root \in ReadRoot
  BY RootFacts
<1>3. /\ root'.next_sequence = root.next_sequence + 1
      /\ root.next_document_slot <= root'.next_document_slot
  BY <1>1, <1>2, RootSteps
<1>x. PICK x : x = [kind |-> kind, slot |-> slot, sequence |-> root.next_sequence,
                    source |-> source, atoms |-> atoms]
  OBVIOUS
<1>5. /\ Bare(l0') = Bare(l0) \cup {[kind |-> kind, slot |-> slot,
                                     sequence |-> root.next_sequence]}
      /\ {r.sequence : r \in l0'} =
           {r.sequence : r \in l0} \cup {root.next_sequence}
  <2>1. l0' = l0 \cup {x}
    BY <1>1, <1>x
  <2>2. /\ Bare(l0') = Bare(l0) \cup {[kind |-> x.kind, slot |-> x.slot,
                                       sequence |-> x.sequence]}
        /\ {r.sequence : r \in l0'} = {r.sequence : r \in l0} \cup {x.sequence}
    BY <2>1, BareOfOneMore
  <2> QED
    BY <2>2, <1>x
<1>6. Sealed' = Sealed
  <2>2. 1 .. root'.next_sequence - 1 = (1 .. root.next_sequence - 1) \cup {root.next_sequence}
    BY <1>2, <1>3
  <2>3. root.next_sequence \notin {r.sequence : r \in l0}
    <3>1. \A r \in Bare(l0) : r.sequence < root.next_sequence
      BY Assumptions, Root!ChainFacts DEF IInv
    <3>2. root.next_sequence \notin {r.sequence : r \in Bare(l0)}
      BY <3>1, <1>2
    <3> QED
      BY <3>2, BareSequences
  <2> QED
    BY <1>5, <2>2, <2>3, <1>2 DEF Sealed
<1>7. slot \in 0 .. root.next_document_slot
  BY <1>2 DEF Kinds
<1>8. Root!Append(kind, slot)
  BY <1>1, <1>2, <1>5, <1>6, SameOperators DEF Root!Append, Root!UpsertSlots
<1> QED
  BY <1>3, <1>7, <1>8 DEF Root!Next

\* The two builds, as a function of the publishers.
LEMMA TwoBuilds ==
    ASSUME NEW a, NEW b
    PROVE  /\ [maintenance |-> a, accelerator |-> b]["maintenance"] = a
           /\ [maintenance |-> a, accelerator |-> b]["accelerator"] = b
           /\ \A x : [[maintenance |-> a, accelerator |-> b]
                        EXCEPT !["maintenance"] = x] =
                     [maintenance |-> x, accelerator |-> b]
           /\ \A x : [[maintenance |-> a, accelerator |-> b]
                        EXCEPT !["accelerator"] = x] =
                     [maintenance |-> a, accelerator |-> x]
           /\ [p \in {"maintenance", "accelerator"} |->
                 IF p = "maintenance" THEN a ELSE b] =
              [maintenance |-> a, accelerator |-> b]
  OBVIOUS

\* What a step must keep for the refinement.
Implements ==
    /\ [Root!Next]_(Root!vars)
    /\ ManifestDense'
    /\ JobSound'
    /\ AccelSound'

\* A build stays sound when the root moves on.
LEMMA StagedKeeps ==
    ASSUME IInv, root'.next_document_slot \in Nat,
           root.next_document_slot <= root'.next_document_slot,
           NEW CONSTANT base, NEW CONSTANT next,
           NEW CONSTANT seal, NEW CONSTANT exact,
           Staged(base, next, seal, exact)
    PROVE  Staged(base, next, seal, exact)'
<1>1. base.root.next_document_slot \in Nat /\ root.next_document_slot \in Nat
  <2>1. base.root \in ReadRoot
    BY DEF Staged, Build
  <2> QED
    BY <2>1, RootFacts DEF ReadRoot
<1> QED
  BY <1>1 DEF Staged

\* Jobs that nobody touches stay sound when the root moves on.
LEMMA JobKeeps ==
    ASSUME IInv, UNCHANGED job, root'.next_document_slot \in Nat,
           root.next_document_slot <= root'.next_document_slot
    PROVE  JobSound'
<1>1. PICK j : j = job
  OBVIOUS
<1>2. job' = j
  BY <1>1
<1>3. root.next_document_slot \in Nat
  BY RootFacts
<1>4. ASSUME j.kind = "seal" PROVE Staged(j.base, j.next, TRUE, FALSE)'
  <2>1. Staged(j.base, j.next, TRUE, FALSE)
    BY <1>1, <1>4 DEF IInv, JobSound
  <2> QED
    BY <2>1, StagedKeeps
<1>5. ASSUME j.kind = "compact" PROVE Staged(j.base, j.next, FALSE, FALSE)'
  <2>1. Staged(j.base, j.next, FALSE, FALSE)
    BY <1>1, <1>5 DEF IInv, JobSound
  <2> QED
    BY <2>1, StagedKeeps
<1>6. ASSUME j.kind = "vacuum", j.base # NoBuild
      PROVE  Staged(j.base, j.next, FALSE, TRUE)'
  <2>1. Staged(j.base, j.next, FALSE, TRUE)
    BY <1>1, <1>6 DEF IInv, JobSound, VacuumSound
  <2> QED
    BY <2>1, StagedKeeps
<1>7. j.kind = "vacuum" =>
        /\ DOMAIN j = VacuumFields
        /\ \A c \in j.cands : c.slot \in Nat
        /\ \A u \in j.upserts : u.slot \in Nat /\ u.slot < root.next_document_slot
  BY <1>1 DEF IInv, JobSound, VacuumSound
<1>8. j.kind = "vacuum" => VacuumSound'
  <2> SUFFICES ASSUME j.kind = "vacuum" PROVE VacuumSound'
    OBVIOUS
  <2>1. \A c \in j.cands : c.slot \in Nat
    BY <1>7
  <2>2. \A u \in j.upserts : u.slot \in Nat /\ u.slot < root'.next_document_slot
    BY <1>3, <1>7
  <2>3. j.base # NoBuild => Staged(j.base, j.next, FALSE, TRUE)'
    BY <1>6
  <2> QED
    BY <1>2, <1>7, <2>1, <2>2, <2>3 DEF VacuumSound
<1>9. j.kind = "semantic" => j.slot \in Nat
  BY <1>1 DEF IInv, JobSound
<1> QED
  BY <1>2, <1>4, <1>5, <1>8, <1>9 DEF JobSound

LEMMA AccelKeeps ==
    ASSUME IInv, UNCHANGED accel, root'.next_document_slot \in Nat,
           root.next_document_slot <= root'.next_document_slot
    PROVE  AccelSound'
<1>1. PICK a : a = accel
  OBVIOUS
<1>2. accel' = a
  BY <1>1
<1>3. ASSUME a.base # NoBuild PROVE Staged(a.base, a.next, FALSE, FALSE)'
  <2>1. Staged(a.base, a.next, FALSE, FALSE)
    BY <1>1, <1>3 DEF IInv, AccelSound, Accelerating
  <2> QED
    BY <2>1, StagedKeeps
<1> QED
  BY <1>2, <1>3 DEF AccelSound, Accelerating

\* The root and the two builds as they are.
LEMMA RootStays ==
    ASSUME IInv, UNCHANGED <<root, manifest, l0, high, parent>>
    PROVE  /\ ManifestDense'
           /\ root'.next_document_slot \in Nat
           /\ root.next_document_slot <= root'.next_document_slot
           /\ Builds' = Builds => UNCHANGED Root!vars
<1>1. root.next_document_slot \in Nat
  BY RootFacts
<1>2. /\ SlotCount(manifest)' = SlotCount(manifest)
      /\ Bare(l0)' = Bare(l0)
      /\ Sealed' = Sealed
  BY DEF SlotCount, Bare, Sealed
<1> QED
  BY <1>1, <1>2 DEF IInv, ManifestDense, Covers, SlotCount, Slots,
     Root!vars

\* A step that leaves the root, the manifest, the L0 and both builds alone.
LEMMA Quiet ==
    ASSUME IInv, UNCHANGED <<root, manifest, l0, job, accel, high, parent>>
    PROVE  Implements
<1>1. UNCHANGED <<root, manifest, l0, high, parent>> /\ UNCHANGED <<job, accel>>
  OBVIOUS
<1>2. Builds' = Builds
  BY <1>1 DEF Builds, Maintenance
<1>3. UNCHANGED job /\ UNCHANGED accel
  BY <1>1
<1> QED
  BY <1>1, <1>2, <1>3, RootStays, JobKeeps, AccelKeeps DEF Implements

\* A step of the maintenance job that RootPublication does not see.
LEMMA JobAlone ==
    ASSUME IInv, UNCHANGED <<root, manifest, l0, accel, high, parent>>,
           Maintenance' = Maintenance, JobSound'
    PROVE  Implements
<1>1. UNCHANGED <<root, manifest, l0, high, parent>> /\ UNCHANGED accel
  OBVIOUS
<1>2. Builds' = Builds
  BY <1>1 DEF Builds
<1> QED
  BY <1>1, <1>2, RootStays, AccelKeeps DEF Implements

\* What a job reads before it builds.
LEMMA BaseIsBuild ==
    ASSUME DocumentLifecycleAssumption, IInv,
           NEW seal \in BOOLEAN, NEW exact \in BOOLEAN
    PROVE  /\ Base(seal, exact) \in Build
           /\ Base(seal, exact) =
                [root |-> root, slotCount |-> SlotCount(manifest),
                 records |-> Root!PendingRecords, seal |-> seal, exact |-> exact]
<1>1. Root!PendingRecords = Bare(PendingRecords)
  BY SameOperators DEF Root!PendingRecords, PendingRecords, Bare
<1>2. Base(seal, exact) \in Build
  <2>1. Bare(PendingRecords) \subseteq [kind : Kinds, slot : Nat, sequence : Nat]
    <3>1. \A r \in PendingRecords : r.kind \in Kinds /\ r.slot \in Nat /\ r.sequence \in Nat
      BY RootFacts DEF PendingRecords
    <3> QED
      BY <3>1 DEF Bare
  <2> QED
    BY <2>1, RootFacts DEF Base, Build
<1>3. /\ Base(seal, exact).root = root
      /\ Base(seal, exact).slotCount = SlotCount(manifest)
      /\ Base(seal, exact).records = Bare(PendingRecords)
      /\ Base(seal, exact).seal = seal
      /\ Base(seal, exact).exact = exact
  BY DEF Base
<1> QED
  BY <1>1, <1>2, <1>3, BuildFields

\* The root and the builds of the other publisher stay when one begins to
\* build.
LEMMA MaintenanceBegins ==
    ASSUME DocumentLifecycleAssumption, IInv,
           NEW seal \in BOOLEAN, NEW exact \in BOOLEAN,
           UNCHANGED <<root, manifest, l0, accel, high, parent>>,
           Maintenance = NoBuild, Maintenance' = Base(seal, exact),
           seal => ~Absent(root.pending_l0), JobSound'
    PROVE  Implements
<1>1. UNCHANGED <<root, manifest, l0, high, parent>> /\ UNCHANGED accel
  OBVIOUS
<1>2. PICK a : a = accel.base
  OBVIOUS
<1>3. PICK b : b = Base(seal, exact)
  OBVIOUS
<1>4. accel.base' = a
  BY <1>1, <1>2
<1>5. /\ Builds = [maintenance |-> NoBuild, accelerator |-> a]
      /\ Builds' = [maintenance |-> b, accelerator |-> a]
  BY <1>2, <1>3, <1>4 DEF Builds
<1>6. Builds["maintenance"] = NoBuild /\ Builds' = [Builds EXCEPT !["maintenance"] = b]
  BY <1>5, TwoBuilds
<1>7. b = [root |-> root, slotCount |-> SlotCount(manifest),
           records |-> Root!PendingRecords, seal |-> seal, exact |-> exact]
  BY <1>3, BaseIsBuild
<1>8. /\ SlotCount(manifest)' = SlotCount(manifest)
      /\ Bare(l0)' = Bare(l0)
      /\ Sealed' = Sealed
  BY DEF SlotCount, Bare, Sealed
<1>9. Root!BeginBuild("maintenance", seal, exact)
  BY <1>1, <1>6, <1>7, <1>8, SameOperators DEF Root!BeginBuild
<1>10. Root!Next
  BY <1>9 DEF Root!Next
<1> QED
  BY <1>1, <1>10, RootStays, AccelKeeps DEF Implements

LEMMA AcceleratorBegins ==
    ASSUME DocumentLifecycleAssumption, IInv,
           UNCHANGED <<root, manifest, l0, job, high, parent>>,
           accel.base = NoBuild,
           accel.base' = Base(FALSE, FALSE), AccelSound'
    PROVE  Implements
<1>1. UNCHANGED <<root, manifest, l0, high, parent>> /\ UNCHANGED job
  OBVIOUS
<1>2. PICK m : m = Maintenance
  OBVIOUS
<1>3. PICK b : b = Base(FALSE, FALSE)
  OBVIOUS
<1>4. Maintenance' = m
  BY <1>1, <1>2 DEF Maintenance
<1>5. /\ Builds = [maintenance |-> m, accelerator |-> NoBuild]
      /\ Builds' = [maintenance |-> m, accelerator |-> b]
  BY <1>2, <1>3, <1>4 DEF Builds
<1>6. Builds["accelerator"] = NoBuild /\ Builds' = [Builds EXCEPT !["accelerator"] = b]
  BY <1>5, TwoBuilds
<1>7. b = [root |-> root, slotCount |-> SlotCount(manifest),
           records |-> Root!PendingRecords, seal |-> FALSE, exact |-> FALSE]
  BY <1>3, BaseIsBuild
<1>8. /\ SlotCount(manifest)' = SlotCount(manifest)
      /\ Bare(l0)' = Bare(l0)
      /\ Sealed' = Sealed
  BY DEF SlotCount, Bare, Sealed
<1>9. Root!BeginBuild("accelerator", FALSE, FALSE)
  BY <1>1, <1>6, <1>7, <1>8, SameOperators DEF Root!BeginBuild
<1>10. Root!Next
  BY <1>9 DEF Root!Next
<1> QED
  BY <1>1, <1>10, RootStays, JobKeeps DEF Implements

\* Builds given up, by one publisher or by both at once.
LEMMA BuildsEnd ==
    ASSUME DocumentLifecycleAssumption, IInv,
           UNCHANGED <<root, manifest, l0, high, parent>>,
           Maintenance' = Maintenance \/ Maintenance' = NoBuild,
           accel.base' = accel.base
             \/ accel.base' = NoBuild,
           JobSound', AccelSound'
    PROVE  Implements
<1>1. UNCHANGED <<root, manifest, l0, high, parent>>
  OBVIOUS
<1>2. PICK m : m = Maintenance
  OBVIOUS
<1>3. PICK a : a = accel.base
  OBVIOUS
<1>4. PICK x : x = Maintenance'
  OBVIOUS
<1>5. PICK y : y = accel.base'
  OBVIOUS
<1>6. /\ Builds = [maintenance |-> m, accelerator |-> a]
      /\ Builds' = [maintenance |-> x, accelerator |-> y]
      /\ x = m \/ x = NoBuild
      /\ y = a \/ y = NoBuild
  BY <1>2, <1>3, <1>4, <1>5 DEF Builds
<1>7. /\ SlotCount(manifest)' = SlotCount(manifest)
      /\ Bare(l0)' = Bare(l0)
      /\ Sealed' = Sealed
  BY DEF SlotCount, Bare, Sealed
<1>8. CASE x = m /\ y = a
  <2>1. Builds' = Builds
    BY <1>6, <1>8
  <2> QED
    BY <1>1, <2>1, RootStays DEF Implements
<1>9. CASE ~(x = m /\ y = a)
  <2> DEFINE P == {p \in {"maintenance", "accelerator"} :
                     IF p = "maintenance" THEN x # m ELSE y # a}
  <2>1. \E p \in P : Builds[p] # NoBuild
    BY <1>6, <1>9, TwoBuilds
  <2>2. \A p \in {"maintenance", "accelerator"} :
          (IF p \in P THEN NoBuild ELSE Builds[p]) =
          (IF p = "maintenance" THEN x ELSE y)
    BY <1>6, TwoBuilds
  <2>3. P \in SUBSET {"maintenance", "accelerator"}
    OBVIOUS
  <2> HIDE DEF P
  <2>4. Builds' = [p \in {"maintenance", "accelerator"} |->
                     IF p \in P THEN NoBuild ELSE Builds[p]]
    <3>1. Builds' = [p \in {"maintenance", "accelerator"} |->
                       IF p = "maintenance" THEN x ELSE y]
      BY <1>6, TwoBuilds
    <3> QED
      BY <3>1, <2>2
  <2>5. Root!Abandon(P)
    BY <1>1, <1>7, <2>1, <2>4 DEF Root!Abandon
  <2>6. Root!Next
    BY <2>3, <2>5 DEF Root!Next
  <2> QED
    BY <1>1, <2>6, RootStays DEF Implements
<1> QED
  BY <1>8, <1>9

\* A manifest with slots 0 .. n - 1 has n of them.
LEMMA CoversCount ==
    ASSUME NEW CONSTANT m, NEW CONSTANT n, Covers(m, n)
    PROVE  SlotCount(m) = n
<1>1. n \in Nat /\ DOMAIN m.docs = 0 .. n - 1
  BY DEF Covers, Slots
<1>2. Cardinality(0 .. n - 1) = IF 0 > n - 1 THEN 0 ELSE n - 1 - 0 + 1
  BY <1>1, FS_Interval
<1> QED
  BY <1>1, <1>2 DEF SlotCount

\* The published manifest becomes the root's.
LEMMA ManifestBecomes ==
    ASSUME NEW CONSTANT m, NEW CONSTANT n, Covers(m, n), manifest' = m
    PROVE  SlotCount(manifest)' = n /\ ManifestDense'
<1>1. SlotCount(m) = n
  BY CoversCount
<1>2. SlotCount(manifest)' = n
  BY <1>1 DEF SlotCount
<1> QED
  BY <1>2 DEF ManifestDense, Covers, Slots

\* Every publication but the seal is a replacement of the manifest.
LEMMA Replaced ==
    ASSUME DocumentLifecycleAssumption, IInv,
           NEW p \in {"maintenance", "accelerator"},
           NEW CONSTANT b \in Build, NEW CONSTANT m, NEW CONSTANT count,
           Builds[p] = b, Builds' = [Builds EXCEPT ![p] = NoBuild],
           ~b.seal, Replace(b, m), Covers(m, count),
           b.root.next_document_slot <= root.next_document_slot,
           count \in b.slotCount .. b.root.next_document_slot,
           count # b.slotCount => b.exact,
           UNCHANGED <<l0, high>>
    PROVE  /\ Root!Next
           /\ ManifestDense'
           /\ root'.next_document_slot \in Nat
           /\ root.next_document_slot <= root'.next_document_slot
<1>1. /\ Matches(b) /\ CanReplaceManifest(root)
      /\ root' = ReplaceManifest(root)
      /\ manifest' = m /\ parent' = b.root.root_id
      /\ UNCHANGED l0 /\ UNCHANGED high
  BY DEF Replace
<1>2. /\ root \in ReadRoot /\ root.next_document_slot \in Nat
      /\ b.root.next_document_slot \in Nat /\ b.slotCount \in Nat
  BY RootFacts DEF Build, ReadRoot
<1>3. /\ root'.next_sequence = root.next_sequence
      /\ root'.next_document_slot = root.next_document_slot
  BY <1>1, <1>2, RootSteps
<1>4. SlotCount(manifest)' = count /\ ManifestDense'
  BY <1>1, ManifestBecomes
<1>5. Bare(l0)' = Bare(l0) /\ Sealed' = Sealed
  BY <1>1, <1>3 DEF Bare, Sealed
<1>7. b # NoBuild
  BY BuildFields
<1>8. Root!Matches(b)
  BY <1>1, <1>7, SameOperators DEF Matches, Root!Matches
<1>9. count \in b.slotCount .. root.next_document_slot
      /\ count \in 0 .. root.next_document_slot
  BY <1>2
<1>10. Root!PublishReplace(p, count)
  BY <1>1, <1>3, <1>4, <1>5, <1>7, <1>8, <1>9, SameOperators
  DEF Root!PublishReplace
<1>11. Root!Next
  BY <1>9, <1>10 DEF Root!Next
<1> QED
  BY <1>2, <1>3, <1>4, <1>11

\* The records that a sealed chain leaves behind.
LEMMA BareRemaining ==
    ASSUME NEW R, NEW S
    PROVE  Bare(R \ {r \in R : r.sequence \in S}) =
             Bare(R) \ {q \in Bare(R) : q.sequence \in S}
<1>1. \A r \in R : [kind |-> r.kind, slot |-> r.slot, sequence |-> r.sequence].sequence
                     = r.sequence
  OBVIOUS
<1> QED
  BY <1>1 DEF Bare

\* The sequences that a sealed chain hands to the manifest.
LEMMA SealedGrows ==
    ASSUME NEW R, NEW S, NEW n \in Nat, \A r \in R : r.sequence \in 1 .. n - 1
    PROVE  (1 .. n - 1) \ {r.sequence : r \in R \ {r \in R : r.sequence \in S}} =
             ((1 .. n - 1) \ {r.sequence : r \in R})
               \cup {r.sequence : r \in {r \in R : r.sequence \in S}}
  OBVIOUS

\* No job, no obligation.
LEMMA NoJobSound == ASSUME job' = NoJob PROVE JobSound' /\ Maintenance' = NoBuild
  BY DEF NoJob, JobSound, Maintenance

\* The job of a seal publishes as PublishSeal says.
LEMMA SealPublishImplements ==
    ASSUME DocumentLifecycleAssumption, IInv, SealPublish
    PROVE  Implements
<1>1. /\ job.kind = "seal" /\ Matches(job.base) /\ CanSealPending(root)
      /\ root' = SealPending(root) /\ manifest' = job.next
      /\ l0' = l0 \ PendingRecords /\ parent' = job.base.root.root_id
      /\ job' = NoJob /\ accel' = accel /\ high' = high
  BY DEF SealPublish
<1>2. PICK b : b = job.base
  OBVIOUS
<1>3. PICK m : m = job.next
  OBVIOUS
<1>5. Staged(b, m, TRUE, FALSE)
  BY <1>1, <1>2, <1>3 DEF IInv, JobSound
<1>6. /\ b \in Build /\ b.seal = TRUE /\ b.exact = FALSE
      /\ Covers(m, Root!SealedSlotCount(b))
  BY <1>5 DEF Staged
<1>7. b # NoBuild
  BY <1>6, BuildFields
<1>8. PICK a : a = accel.base
  OBVIOUS
<1>9. accel.base' = a
  BY <1>1, <1>8
<1>10. /\ Builds = [maintenance |-> b, accelerator |-> a]
       /\ Builds' = [maintenance |-> NoBuild, accelerator |-> a]
  BY <1>1, <1>2, <1>8, <1>9, NoJobSound DEF Builds, Maintenance
<1>11. /\ Builds["maintenance"] = b
       /\ Builds' = [Builds EXCEPT !["maintenance"] = NoBuild]
  BY <1>10, TwoBuilds
<1>12. Root!Matches(Builds["maintenance"])
  BY <1>1, <1>2, <1>7, <1>11, SameOperators DEF Matches, Root!Matches
<1>13. b.records = Root!PendingRecords
  <2>1. Root!IInv /\ Builds["maintenance"] # NoBuild
    BY <1>7, <1>11 DEF IInv
  <2> QED
    BY <1>11, <1>12, <2>1, Assumptions, Root!MatchFacts
<1>14. /\ root.next_sequence \in Nat /\ root.next_document_slot \in Nat
       /\ root \in ReadRoot
  BY RootFacts
<1>15. /\ root'.next_sequence = root.next_sequence
       /\ root'.next_document_slot = root.next_document_slot
  BY <1>1, <1>14, RootSteps
<1>16. PendingRecords = {r \in l0 : r.sequence \in Sequences(root.pending_l0)}
  BY DEF PendingRecords
<1>17. Bare(l0)' = Bare(l0) \ Root!PendingRecords
  <2>1. Bare(l0)' = Bare(l0 \ PendingRecords)
    BY <1>1 DEF Bare
  <2> QED
    BY <1>16, <2>1, BareRemaining, SameOperators DEF Root!PendingRecords
<1>18. Sealed' = Sealed \cup {r.sequence : r \in b.records}
  <2>1. {r.sequence : r \in b.records} = {r.sequence : r \in PendingRecords}
    <3>1. Root!PendingRecords = Bare(PendingRecords)
      BY SameOperators DEF Root!PendingRecords, PendingRecords, Bare
    <3> QED
      BY <1>13, <3>1, BareSequences
  <2>2. \A r \in l0 : r.sequence \in 1 .. root.next_sequence - 1
    <3>1. Sealed \cup {r.sequence : r \in Bare(l0)} = 1 .. root.next_sequence - 1
      BY DEF IInv, Root!IInv, Root!NoRecordLost
    <3>2. {r.sequence : r \in Bare(l0)} = {r.sequence : r \in l0}
      BY BareSequences
    <3>3. {r.sequence : r \in l0} \subseteq 1 .. root.next_sequence - 1
      BY <3>1, <3>2
    <3> QED
      BY <3>3
  <2>3. Sealed' = (1 .. root.next_sequence - 1) \ {r.sequence : r \in l0 \ PendingRecords}
    BY <1>1, <1>15 DEF Sealed
  <2>4. Sealed' = ((1 .. root.next_sequence - 1) \ {r.sequence : r \in l0})
                    \cup {r.sequence : r \in PendingRecords}
    BY <1>14, <1>16, <2>2, <2>3, SealedGrows
  <2> QED
    BY <2>1, <2>4 DEF Sealed
<1>19. SlotCount(manifest)' = Root!SealedSlotCount(b) /\ ManifestDense'
  BY <1>1, <1>3, <1>6, ManifestBecomes
<1>20. Root!PublishSeal("maintenance")
  BY <1>1, <1>2, <1>6, <1>7, <1>11, <1>12, <1>17, <1>18, <1>19, SameOperators
  DEF Root!PublishSeal
<1>21. Root!Next
  BY <1>20 DEF Root!Next
<1>23. JobSound' /\ AccelSound'
  BY <1>1, <1>14, <1>15, NoJobSound, AccelKeeps
<1> QED
  BY <1>19, <1>21, <1>23 DEF Implements

\* A nonempty set of numbers has a least element.
LEMMA LeastElement ==
    ASSUME NEW S \in SUBSET Nat, S # {}
    PROVE  \E x \in S : \A y \in S : x <= y
<1> DEFINE T == {(0 .. n) : n \in S}
<1>1. \A n \in S : (0 .. n) \in SUBSET Nat /\ IsFiniteSet(0 .. n)
  BY FS_Interval
<1>2. T \subseteq FiniteSubsetsOf(Nat) /\ T # {}
  BY <1>1 DEF FiniteSubsetsOf
<1>3. PICK X \in T : \A Y \in T : ~(<<Y, X>> \in StrictSubsetOrdering(Nat))
  <2> HIDE DEF T
  <2> QED
    BY <1>2, FS_StrictSubsetOrderingWellFounded, WFMin
<1>4. PICK x \in S : X = 0 .. x
  OBVIOUS
<1>5. ASSUME NEW y \in S, y < x
      PROVE  FALSE
  <2>1. /\ 0 .. y \subseteq 0 .. x
        /\ 0 .. x # 0 .. y
    <3>1. x \in 0 .. x /\ x \notin 0 .. y
      BY <1>5
    <3> QED
      BY <1>5, <3>1
  <2>2. <<0 .. y, 0 .. x>> \in StrictSubsetOrdering(Nat)
    BY <2>1, <1>1 DEF StrictSubsetOrdering
  <2> QED
    BY <1>3, <1>4, <2>2
<1>6. \A y \in S : x <= y
  BY <1>5
<1> QED
  BY <1>6

\* An append under the job and the accelerator build in progress.
LEMMA AppendBesideBuilds ==
    ASSUME DocumentLifecycleAssumption, IInv, NEW kind \in Kinds,
           NEW slot \in Nat, NEW source, NEW atoms, NEW outcome,
           AppendRecord(kind, slot, source, atoms, outcome),
           UNCHANGED <<manifest, accel, parent>>, Maintenance' = Maintenance,
           (root'.next_document_slot \in Nat
              /\ root.next_document_slot <= root'.next_document_slot) => JobSound',
           kind = "UPSERT" =>
             /\ slot \in (root.cursor .. SlotCount(manifest) - 1)
                           \cup {root.next_document_slot}
             /\ slot = root.next_document_slot => slot < MaxSlot,
           kind # "UPSERT" => slot < root.next_document_slot
    PROVE  Implements
<1>1. UNCHANGED <<manifest, parent>> /\ UNCHANGED accel /\ UNCHANGED manifest
  OBVIOUS
<1>2. Builds' = Builds
  BY <1>1 DEF Builds
<1>3. Root!Next /\ root.next_document_slot <= root'.next_document_slot
  BY <1>1, <1>2, Appended
<1>4. root'.next_document_slot \in Nat
  <2>1. /\ root' = AdvanceRoot(AppendBase(root), kind, slot)
        /\ root \in ReadRoot
    BY RootFacts DEF AppendRecord
  <2>2. AppendBase(root) \in ReadRoot
    BY <2>1, RootSteps
  <2>3. AdvanceRoot(AppendBase(root), kind, slot) \in ReadRoot
    BY <2>2, Assumptions, SameOperators, Root!AdvanceFields
  <2> QED
    BY <2>1, <2>3 DEF ReadRoot
<1>5. ManifestDense'
  BY <1>1 DEF IInv, ManifestDense, Covers, SlotCount, Slots
<1>6. JobSound' /\ AccelSound'
  BY <1>1, <1>3, <1>4, AccelKeeps
<1> QED
  BY <1>3, <1>5, <1>6 DEF Implements

\* The slot an upsert takes is a fresh one or lies behind the cursor.
LEMMA ChosenSlot ==
    ASSUME IInv
    PROVE  /\ ChooseUpsertSlot \in Nat
           /\ ChooseUpsertSlot \in (root.cursor .. SlotCount(manifest) - 1)
                                     \cup {root.next_document_slot}
<1>1. root.cursor \in Nat /\ root.next_document_slot \in Nat
      /\ SlotCount(manifest) \in Nat
  BY RootFacts DEF ReadRoot
<1>2. ReusableSlots(root.cursor) \subseteq root.cursor .. SlotCount(manifest) - 1
  BY <1>1, RootFacts DEF ReusableSlots
<1>3. CASE ReusableSlots(root.cursor) # {} /\ root.cursor < SlotCount(manifest)
  <2>1. \E s \in ReusableSlots(root.cursor) :
          \A t \in ReusableSlots(root.cursor) : s <= t
    <3>1. ReusableSlots(root.cursor) \in SUBSET Nat
      BY <1>1, <1>2
    <3> QED
      BY <1>3, <3>1, LeastElement
  <2>2. ChooseUpsertSlot \in ReusableSlots(root.cursor)
    BY <1>3, <2>1 DEF ChooseUpsertSlot
  <2> QED
    BY <1>1, <1>2, <2>2
<1>4. CASE ~(ReusableSlots(root.cursor) # {} /\ root.cursor < SlotCount(manifest))
  BY <1>1, <1>4 DEF ChooseUpsertSlot
<1> QED
  BY <1>3, <1>4

LEMMA InsertImplements ==
    ASSUME DocumentLifecycleAssumption, IInv, Insert
    PROVE  Implements
<1>1. PICK slot : slot = ChooseUpsertSlot
  OBVIOUS
<1>2. /\ slot = root.next_document_slot => slot < MaxSlot
      /\ AppendRecord("UPSERT", slot, root.next_sequence, 1, "running")
      /\ UNCHANGED <<manifest, accel, parent>> /\ UNCHANGED job
  BY <1>1 DEF Insert
<1>3. Maintenance' = Maintenance
  BY <1>2 DEF Maintenance
<1>4. (root'.next_document_slot \in Nat
         /\ root.next_document_slot <= root'.next_document_slot) => JobSound'
  BY <1>2, JobKeeps
<1>5. slot \in Nat /\ slot \in (root.cursor .. SlotCount(manifest) - 1)
                                 \cup {root.next_document_slot}
  BY <1>1, ChosenSlot
<1>6. "UPSERT" \in Kinds
  BY DEF Kinds
<1> QED
  BY <1>2, <1>3, <1>4, <1>5, <1>6, AppendBesideBuilds

\* The end of a transaction, and of the maintenance lock it holds.
LEMMA TransactionImplements ==
    ASSUME IInv, NEW x, job' = ReleaseLock(x),
           UNCHANGED <<root, manifest, l0, accel, high, parent>>
    PROVE  Implements
<1>1. CASE job = [kind |-> "commit", xid |-> x]
  <2>1. job' = NoJob
    BY <1>1 DEF ReleaseLock
  <2>2. Maintenance = NoBuild
    BY <1>1 DEF Maintenance
  <2> QED
    BY <2>1, <2>2, NoJobSound, JobAlone
<1>2. CASE job # [kind |-> "commit", xid |-> x]
  BY <1>2, Quiet DEF ReleaseLock
<1> QED
  BY <1>1, <1>2

LEMMA RotateImplements ==
    ASSUME IInv, Rotate
    PROVE  Implements
<1>1. /\ CanRotate(root) /\ root' = RotateL0(root)
      /\ high' = root.next_document_slot
      /\ UNCHANGED manifest /\ UNCHANGED l0 /\ UNCHANGED job
      /\ UNCHANGED accel /\ UNCHANGED parent
  BY DEF Rotate
<1>2. /\ root \in ReadRoot
      /\ root.next_document_slot \in Nat /\ root.next_sequence \in Nat
  BY RootFacts
<1>3. /\ root'.next_sequence = root.next_sequence
      /\ root'.next_document_slot = root.next_document_slot
  BY <1>1, <1>2, RootSteps
<1>4. /\ SlotCount(manifest)' = SlotCount(manifest)
      /\ Bare(l0)' = Bare(l0)
      /\ Sealed' = Sealed
      /\ Builds' = Builds
  BY <1>1, <1>3 DEF SlotCount, Bare, Sealed, Builds, Maintenance
<1>5. Root!Next
  BY <1>1, <1>4, SameOperators DEF Root!Next, Root!Rotate
<1>6. ManifestDense'
  BY <1>1 DEF IInv, ManifestDense, Covers, SlotCount, Slots
<1>7. JobSound' /\ AccelSound'
  <2>1. /\ root'.next_document_slot \in Nat
        /\ root.next_document_slot <= root'.next_document_slot
    BY <1>2, <1>3
  <2> QED
    BY <1>1, <2>1, JobKeeps, AccelKeeps
<1> QED
  BY <1>5, <1>6, <1>7 DEF Implements

\* A job that gives up.
LEMMA EndJobImplements ==
    ASSUME DocumentLifecycleAssumption, IInv, EndJob
    PROVE  Implements
<1>1. /\ job' = NoJob /\ UNCHANGED accel
      /\ UNCHANGED <<root, manifest, l0, high, parent>>
  BY DEF EndJob
<1>2. JobSound' /\ Maintenance' = NoBuild
  BY <1>1, NoJobSound
<1>3. AccelSound'
  BY <1>1, RootStays, AccelKeeps
<1> QED
  BY <1>1, <1>2, <1>3, BuildsEnd

\* The fresh slots of some records, with and without the fields that only ride
\* along.
LEMMA FreshSlots ==
    ASSUME NEW R, NEW n \in Nat, \A r \in R : r.slot \in Nat
    PROVE  {r.slot : r \in {q \in {p \in R : p.kind = "UPSERT"} : ~(q.slot < n)}} =
             Root!Tail(Bare(R), n)
<1> DEFINE F == {r.slot : r \in {q \in {p \in R : p.kind = "UPSERT"} : ~(q.slot < n)}}
<1>1. ASSUME NEW s \in F PROVE s \in Root!Tail(Bare(R), n)
  <2>1. PICK r \in R : r.kind = "UPSERT" /\ ~(r.slot < n) /\ s = r.slot
    OBVIOUS
  <2>2. [kind |-> r.kind, slot |-> r.slot, sequence |-> r.sequence] \in Bare(R)
    BY DEF Bare
  <2> QED
    BY <2>1, <2>2 DEF Root!Tail
<1>2. ASSUME NEW s \in Root!Tail(Bare(R), n) PROVE s \in F
  <2>1. PICK q \in Bare(R) : q.kind = "UPSERT" /\ q.slot >= n /\ s = q.slot
    BY DEF Root!Tail
  <2>2. PICK r \in R :
          q = [kind |-> r.kind, slot |-> r.slot, sequence |-> r.sequence]
    BY DEF Bare
  <2> QED
    BY <2>1, <2>2
<1> QED
  BY <1>1, <1>2

\* A seal extends the manifest by the fresh slots of the records it read.
LEMMA SealExtends ==
    ASSUME IInv
    PROVE  /\ NextSlotCount \in Nat
           /\ NextSlotCount =
                SlotCount(manifest)
                  + Cardinality(Root!Tail(Bare(PendingRecords), SlotCount(manifest)))
<1>1. /\ SlotCount(manifest) \in Nat
      /\ \A r \in PendingRecords : r.slot \in Nat
  BY RootFacts DEF PendingRecords
<1>2. TailSlots = Root!Tail(Bare(PendingRecords), SlotCount(manifest))
  BY <1>1, FreshSlots DEF TailSlots, Upserts, InManifest
<1>3. Cardinality(TailSlots) \in Nat
  <2>1. Root!PendingRecords = Bare(PendingRecords)
    BY SameOperators DEF Root!PendingRecords, PendingRecords, Bare
  <2>2. high \in Nat
    BY DEF IInv, Root!IInv, Root!TypeOK
  <2>3. TailSlots = {} \/ TailSlots = SlotCount(manifest) .. high - 1
    BY <1>2, <2>1 DEF IInv, Root!IInv, Root!PendingTailContiguous
  <2>4. IsFiniteSet({}) /\ IsFiniteSet(SlotCount(manifest) .. high - 1)
    BY <1>1, <2>2, FS_EmptySet, FS_Interval
  <2> QED
    BY <2>3, <2>4, FS_CardinalityType
<1> QED
  BY <1>1, <1>2, <1>3 DEF NextSlotCount

LEMMA SealBuildImplements ==
    ASSUME DocumentLifecycleAssumption, IInv, SealBuild
    PROVE  Implements
<1>1. /\ job = NoJob /\ ~Absent(root.pending_l0)
      /\ job' = [kind |-> "seal", base |-> Base(TRUE, FALSE),
                 next |-> SealedManifest]
      /\ UNCHANGED <<root, manifest, l0, accel, high, parent>>
  BY DEF SealBuild
<1>2. PICK b : b = Base(TRUE, FALSE)
  OBVIOUS
<1>3. PICK m : m = SealedManifest
  OBVIOUS
<1>4. /\ job'.kind = "seal" /\ job'.base = b /\ job'.next = m
      /\ root' = root
  BY <1>1, <1>2, <1>3
<1>5. /\ b \in Build
      /\ b = [root |-> root, slotCount |-> SlotCount(manifest),
              records |-> Root!PendingRecords, seal |-> TRUE, exact |-> FALSE]
  BY <1>2, BaseIsBuild
<1>6. Root!PendingRecords = Bare(PendingRecords)
  BY SameOperators DEF Root!PendingRecords, PendingRecords, Bare
<1>7. Covers(m, Root!SealedSlotCount(b))
  <2>1. Root!SealedSlotCount(b) = NextSlotCount /\ NextSlotCount \in Nat
    BY <1>5, <1>6, SealExtends, SameOperators DEF Root!SealedSlotCount
  <2>2. Slots(m) = 0 .. NextSlotCount - 1
    BY <1>3 DEF SealedManifest, Slots
  <2> QED
    BY <2>1, <2>2 DEF Covers
<1>8. JobSound'
  <2>1. /\ SlotCount(manifest) <= root.next_document_slot
        /\ root.next_document_slot <= root.next_document_slot
    BY RootFacts
  <2>2. Staged(b, m, TRUE, FALSE)'
    BY <1>4, <1>5, <1>7, <2>1 DEF Staged
  <2> QED
    BY <1>4, <2>2 DEF JobSound
<1>9. Maintenance = NoBuild /\ Maintenance' = Base(TRUE, FALSE)
  BY <1>1, <1>2, <1>4 DEF Maintenance, NoJob
<1> QED
  BY <1>1, <1>8, <1>9, MaintenanceBegins

\* The maintenance lock around semantic completion publishes nothing.
LEMMA SemanticCollectImplements ==
    ASSUME IInv, NEW s \in Slots(manifest), NEW due \in BOOLEAN,
           SemanticCollect(s, due)
    PROVE  Implements
<1>1. /\ job = NoJob
      /\ job' = [kind |-> "semantic", slot |-> s, source |-> DocAt(s)]
      /\ UNCHANGED <<root, manifest, l0, accel, high, parent>>
  BY DEF SemanticCollect
<1>2. s \in Nat
  BY RootFacts
<1>3. job'.kind = "semantic" /\ job'.slot = s
  BY <1>1
<1>4. JobSound'
  BY <1>2, <1>3 DEF JobSound
<1>5. Maintenance = NoBuild /\ Maintenance' = NoBuild
  BY <1>1, <1>3 DEF Maintenance, NoJob
<1> QED
  BY <1>1, <1>4, <1>5, JobAlone

LEMMA SemanticAppendImplements ==
    ASSUME DocumentLifecycleAssumption, IInv,
           NEW kind \in {"COMPLETE", "QUARANTINE"}, SemanticAppend(kind)
    PROVE  Implements
<1>1. PICK atoms : AppendRecord(kind, job.slot, job.source.born, atoms, "running")
  BY DEF SemanticAppend
<1>2. /\ job.kind = "semantic" /\ job.slot < SlotCount(manifest)
      /\ job' = [kind |-> "commit", xid |-> root.next_sequence]
      /\ UNCHANGED <<manifest, accel, parent>>
  BY DEF SemanticAppend, SourceMatches
<1>3. PICK slot : slot = job.slot
  OBVIOUS
<1>4. slot \in Nat /\ slot < root.next_document_slot
  <2>1. slot \in Nat
    BY <1>2, <1>3 DEF IInv, JobSound
  <2> QED
    BY <1>2, <1>3, <2>1, RootFacts
<1>5. job'.kind = "commit"
  BY <1>2
<1>6. JobSound' /\ Maintenance' = Maintenance
  BY <1>2, <1>5 DEF JobSound, Maintenance
<1>7. PICK source : source = job.source.born
  OBVIOUS
<1>8. AppendRecord(kind, slot, source, atoms, "running") /\ kind \in Kinds
      /\ kind # "UPSERT"
  BY <1>1, <1>3, <1>7 DEF Kinds
<1> QED
  BY <1>2, <1>4, <1>6, <1>8, AppendBesideBuilds

LEMMA CompactBuildImplements ==
    ASSUME DocumentLifecycleAssumption, IInv, NEW i, NEW j, CompactBuild(i, j)
    PROVE  Implements
<1>1. /\ job = NoJob
      /\ job' = [kind |-> "compact", base |-> Base(FALSE, FALSE),
                 next |-> CompactedManifest(i, j)]
      /\ UNCHANGED <<root, manifest, l0, accel, high, parent>>
  BY DEF CompactBuild
<1>2. PICK b : b = Base(FALSE, FALSE)
  OBVIOUS
<1>3. PICK m : m = CompactedManifest(i, j)
  OBVIOUS
<1>4. /\ job'.kind = "compact" /\ job'.base = b /\ job'.next = m
      /\ root' = root
  BY <1>1, <1>2, <1>3
<1>5. /\ b \in Build
      /\ b = [root |-> root, slotCount |-> SlotCount(manifest),
              records |-> Root!PendingRecords, seal |-> FALSE, exact |-> FALSE]
  BY <1>2, BaseIsBuild
<1>6. Covers(m, SlotCount(manifest))
  BY <1>3, RootFacts DEF CompactedManifest, Covers, Slots
<1>7. JobSound'
  <2>1. /\ SlotCount(manifest) <= root.next_document_slot
        /\ root.next_document_slot <= root.next_document_slot
    BY RootFacts
  <2>2. Staged(b, m, FALSE, FALSE)'
    BY <1>4, <1>5, <1>6, <2>1 DEF Staged
  <2> QED
    BY <1>4, <2>2 DEF JobSound
<1>8. Maintenance = NoBuild /\ Maintenance' = Base(FALSE, FALSE)
  BY <1>1, <1>2, <1>4 DEF Maintenance, NoJob
<1> QED
  BY <1>1, <1>7, <1>8, MaintenanceBegins

\* The publication of a job, whatever it has built.
LEMMA MaintenanceReplaces ==
    ASSUME DocumentLifecycleAssumption, IInv,
           NEW CONSTANT b, NEW CONSTANT m, NEW CONSTANT count,
           Maintenance = b, Maintenance' = NoBuild, b \in Build, ~b.seal,
           b.root.next_document_slot <= root.next_document_slot,
           count \in b.slotCount .. b.root.next_document_slot,
           count # b.slotCount => b.exact, Covers(m, count),
           Replace(b, m), UNCHANGED <<l0, accel, high>>,
           (root'.next_document_slot \in Nat
              /\ root.next_document_slot <= root'.next_document_slot) => JobSound'
    PROVE  Implements
<1>1. UNCHANGED accel /\ UNCHANGED <<l0, high>>
  OBVIOUS
<1>2. PICK a : a = accel.base
  OBVIOUS
<1>3. /\ Builds = [maintenance |-> b, accelerator |-> a]
      /\ Builds' = [maintenance |-> NoBuild, accelerator |-> a]
  BY <1>1, <1>2 DEF Builds
<1>4. /\ Builds["maintenance"] = b
      /\ Builds' = [Builds EXCEPT !["maintenance"] = NoBuild]
  BY <1>3, TwoBuilds
<1>5. /\ Root!Next /\ ManifestDense'
      /\ root'.next_document_slot \in Nat
      /\ root.next_document_slot <= root'.next_document_slot
  BY <1>1, <1>4, Replaced
<1>6. JobSound' /\ AccelSound'
  BY <1>1, <1>5, AccelKeeps
<1> QED
  BY <1>5, <1>6 DEF Implements

LEMMA CompactPublishImplements ==
    ASSUME DocumentLifecycleAssumption, IInv, CompactPublish
    PROVE  Implements
<1>1. /\ job.kind = "compact" /\ Replace(job.base, job.next) /\ job' = NoJob
      /\ UNCHANGED <<l0, accel, high>>
  BY DEF CompactPublish
<1>2. PICK b : b = job.base
  OBVIOUS
<1>3. PICK m : m = job.next
  OBVIOUS
<1>4. Staged(b, m, FALSE, FALSE)
  BY <1>1, <1>2, <1>3 DEF IInv, JobSound
<1>5. /\ b \in Build /\ ~b.seal /\ Covers(m, b.slotCount)
      /\ b.slotCount <= b.root.next_document_slot
      /\ b.root.next_document_slot <= root.next_document_slot
  BY <1>4 DEF Staged
<1>6. Maintenance = b /\ Maintenance' = NoBuild /\ JobSound'
  BY <1>1, <1>2, NoJobSound DEF Maintenance
<1>7. Replace(b, m)
  BY <1>1, <1>2, <1>3
<1>8. b.slotCount \in b.slotCount .. b.root.next_document_slot
  BY <1>5, BuildFields
<1>9. PICK count : count = b.slotCount
  OBVIOUS
<1> QED
  BY <1>1, <1>5, <1>6, <1>7, <1>8, <1>9, MaintenanceReplaces

(***************************************************************************)
(* VACUUM                                                                  *)
(***************************************************************************)
\* A VACUUM that goes on with what it has collected.
LEMMA VacuumKeeps ==
    ASSUME IInv, job.kind = "vacuum", job'.kind = "vacuum",
           DOMAIN job' = VacuumFields,
           job'.cands = job.cands, job'.upserts = job.upserts,
           job'.base = NoBuild \/ (job'.base = job.base /\ job'.next = job.next),
           root'.next_document_slot \in Nat,
           root.next_document_slot <= root'.next_document_slot
    PROVE  JobSound'
<1>1. PICK j : j = job
  OBVIOUS
<1>2. PICK k : k = job'
  OBVIOUS
<1>3. VacuumSound /\ root.next_document_slot \in Nat
  BY RootFacts DEF IInv, JobSound
<1>4. ASSUME k.base # NoBuild PROVE Staged(k.base, k.next, FALSE, TRUE)'
  <2>1. Staged(k.base, k.next, FALSE, TRUE)
    BY <1>2, <1>3, <1>4 DEF VacuumSound
  <2> QED
    BY <2>1, StagedKeeps
<1>5. \A c \in k.cands : c.slot \in Nat
  BY <1>2, <1>3 DEF VacuumSound
<1>6. \A u \in k.upserts : u.slot \in Nat /\ u.slot < root'.next_document_slot
  BY <1>2, <1>3 DEF VacuumSound
<1>7. DOMAIN k = VacuumFields /\ job' = k /\ k.kind = "vacuum"
  BY <1>2
<1>8. VacuumSound'
  BY <1>4, <1>5, <1>6, <1>7 DEF VacuumSound
<1> QED
  BY <1>7, <1>8 DEF JobSound

\* A step of VACUUM between two publications.
LEMMA VacuumStepImplements ==
    ASSUME DocumentLifecycleAssumption, IInv,
           job.kind = "vacuum", job'.kind = "vacuum",
           DOMAIN job' = VacuumFields,
           job'.cands = job.cands, job'.upserts = job.upserts,
           job'.base = NoBuild \/ (job'.base = job.base /\ job'.next = job.next),
           UNCHANGED <<root, manifest, l0, accel, high, parent>>
    PROVE  Implements
<1>1. UNCHANGED <<root, manifest, l0, high, parent>> /\ UNCHANGED accel
  OBVIOUS
<1>2. /\ root'.next_document_slot \in Nat
      /\ root.next_document_slot <= root'.next_document_slot
  BY <1>1, RootStays
<1>3. JobSound' /\ AccelSound'
  BY <1>1, <1>2, VacuumKeeps, AccelKeeps
<1>4. Maintenance' = Maintenance \/ Maintenance' = NoBuild
  BY DEF Maintenance
<1> QED
  BY <1>1, <1>3, <1>4, BuildsEnd

LEMMA VacuumBeginImplements ==
    ASSUME DocumentLifecycleAssumption, IInv, NEW pass, VacuumBegin(pass)
    PROVE  Implements
<1>0. PICK cands : cands = Candidates(pass)
  OBVIOUS
<1>u. PICK upserts : upserts = UpsertFates(pass)
  OBVIOUS
<1>1. /\ job' = [kind |-> "vacuum", phase |-> "docs", dead |-> pass,
                 cands |-> cands, upserts |-> upserts,
                 ret |-> 0, base |-> NoBuild, next |-> NoBuild]
      /\ \A c \in cands : c.slot \in Slots(manifest)
      /\ \A u \in upserts : \E r \in Upserts(l0) : u.slot = r.slot
  <2>1. \A c \in cands : c.slot \in Slots(manifest)
    BY <1>0 DEF Candidates
  <2>2. \A u \in upserts : \E r \in Upserts(l0) : u.slot = r.slot
    BY <1>u DEF UpsertFates
  <2> QED
    BY <1>0, <1>u, <2>1, <2>2 DEF VacuumBegin
<1>2. job = NoJob /\ UNCHANGED <<root, manifest, l0, accel, high, parent>>
  BY DEF VacuumBegin
<1>3. \A c \in cands : c.slot \in Nat
  BY <1>1, RootFacts
<1>4. \A u \in upserts : u.slot \in Nat /\ u.slot < root.next_document_slot
  <2>1. ASSUME NEW r \in Upserts(l0)
        PROVE  r.slot \in Nat /\ r.slot < root.next_document_slot
    <3>1. r \in l0 /\ r.kind = "UPSERT" /\ r.slot \in Nat
      BY RootFacts DEF Upserts
    <3>2. [kind |-> r.kind, slot |-> r.slot, sequence |-> r.sequence] \in Bare(l0)
      BY <3>1 DEF Bare
    <3>3. r.slot < root.cursor
      BY <3>1, <3>2 DEF IInv, Root!IInv, Root!UpsertsBelowCursor, Root!Upserts
    <3>4. root.cursor <= root.next_document_slot /\ root.cursor \in Nat
      BY RootFacts DEF ReadRoot, IInv, Root!IInv, Root!RootAlwaysValid, Root!RootValid
    <3> QED
      BY <3>1, <3>3, <3>4, RootFacts
  <2> QED
    BY <1>1, <2>1
<1>5. /\ job'.kind = "vacuum" /\ job'.base = NoBuild
      /\ job'.cands = cands /\ job'.upserts = upserts
      /\ DOMAIN job' = VacuumFields
      /\ root' = root
  BY <1>1, <1>2 DEF VacuumFields
<1>6. JobSound'
  BY <1>3, <1>4, <1>5 DEF JobSound, VacuumSound
<1>7. Maintenance = NoBuild /\ Maintenance' = NoBuild
  BY <1>2, <1>5 DEF Maintenance, NoJob
<1> QED
  BY <1>2, <1>6, <1>7, JobAlone

\* What VACUUM keeps when it moves to its next phase.
LEMMA NextPhaseFields ==
    ASSUME DOMAIN job = VacuumFields, NEW phase,
           job' = [job EXCEPT !.phase = phase, !.base = NoBuild, !.next = NoBuild]
    PROVE  /\ DOMAIN job' = VacuumFields
           /\ job'.kind = job.kind /\ job'.base = NoBuild
           /\ job'.cands = job.cands /\ job'.upserts = job.upserts
<1>1. PICK j : j = job
  OBVIOUS
<1>2. PICK k : k = [j EXCEPT !.phase = phase, !.base = NoBuild, !.next = NoBuild]
  OBVIOUS
<1>3. /\ DOMAIN k = VacuumFields
      /\ k.kind = j.kind /\ k.base = NoBuild
      /\ k.cands = j.cands /\ k.upserts = j.upserts
  BY <1>1, <1>2 DEF VacuumFields
<1> QED
  BY <1>1, <1>2, <1>3

LEMMA VacuumReserveImplements ==
    ASSUME DocumentLifecycleAssumption, IInv, VacuumReserve
    PROVE  Implements
<1>1. PICK c \in Reservable : AppendRecord("RETIRE", c.slot, c.born, 0, "committed")
  BY DEF VacuumReserve
<1>2. /\ job.kind = "vacuum" /\ job' = [job EXCEPT !.ret = root.next_sequence]
      /\ UNCHANGED <<manifest, accel, parent>>
  BY DEF VacuumReserve
<1>3. VacuumSound
  BY <1>2 DEF IInv, JobSound
<1>4. PICK j : j = job
  OBVIOUS
<1>5. PICK k : k = [j EXCEPT !.ret = root.next_sequence]
  OBVIOUS
<1>6. /\ DOMAIN k = VacuumFields /\ k.kind = "vacuum"
      /\ k.cands = j.cands /\ k.upserts = j.upserts
      /\ k.base = j.base /\ k.next = j.next
  BY <1>2, <1>3, <1>4, <1>5 DEF VacuumFields, VacuumSound
<1>7. job' = k
  BY <1>2, <1>4, <1>5
<1>8. c.slot \in Nat /\ c.slot < root.next_document_slot
  <2>1. \/ \E d \in job.cands : c.slot = d.slot /\ d.slot < SlotCount(manifest)
        \/ \E u \in job.upserts : c.slot = u.slot
    BY DEF Reservable, DeadUpserts, InManifest
  <2> QED
    BY <1>3, <2>1, RootFacts DEF VacuumSound
<1>9. (root'.next_document_slot \in Nat
         /\ root.next_document_slot <= root'.next_document_slot) => JobSound'
  BY <1>2, <1>4, <1>6, <1>7, VacuumKeeps
<1>10. Maintenance' = Maintenance
  BY <1>2, <1>4, <1>6, <1>7 DEF Maintenance
<1>11. PICK slot, source : slot = c.slot /\ source = c.born
  OBVIOUS
<1>12. /\ AppendRecord("RETIRE", slot, source, 0, "committed")
       /\ slot \in Nat /\ slot < root.next_document_slot
       /\ "RETIRE" \in Kinds
  BY <1>1, <1>8, <1>11 DEF Kinds
<1> QED
  BY <1>2, <1>9, <1>10, <1>12, AppendBesideBuilds

\* A nonempty set of numbers below n has a greatest element.
LEMMA GreatestElement ==
    ASSUME NEW n \in Nat, NEW S \in SUBSET (0 .. n - 1), S # {}
    PROVE  \E x \in S : \A y \in S : y <= x
<1> DEFINE T == {n - s : s \in S}
<1>1. T \in SUBSET Nat /\ T # {}
  OBVIOUS
<1>2. PICK t \in T : \A u \in T : t <= u
  BY <1>1, LeastElement
<1>3. PICK x \in S : t = n - x
  BY <1>2
<1>4. ASSUME NEW y \in S PROVE y <= x
  <2>1. n - x <= n - y
    BY <1>2, <1>3
  <2> QED
    BY <2>1
<1> QED
  BY <1>4

\* VACUUM extends the manifest only up to slots already handed out.
LEMMA PatchExtends ==
    ASSUME IInv, VacuumSound
    PROVE  PatchedSlotCount \in SlotCount(manifest) .. root.next_document_slot
<1>1. /\ SlotCount(manifest) \in Nat /\ root.next_document_slot \in Nat
      /\ SlotCount(manifest) <= root.next_document_slot
  BY RootFacts
<1>2. \A s \in DeadTail : /\ s \in 0 .. root.next_document_slot - 1
                          /\ SlotCount(manifest) <= s
  BY <1>1 DEF DeadTail, DeadUpserts, InManifest, VacuumSound
<1>3. CASE job.phase = "docs" \/ DeadTail = {}
  BY <1>1, <1>3 DEF PatchedSlotCount
<1>4. CASE ~(job.phase = "docs" \/ DeadTail = {})
  <2>1. \E s \in DeadTail : \A t \in DeadTail : t <= s
    <3>1. DeadTail \in SUBSET (0 .. root.next_document_slot - 1) /\ DeadTail # {}
      BY <1>2, <1>4
    <3> QED
      BY <1>1, <3>1, GreatestElement
  <2>2. PICK s \in DeadTail : PatchedSlotCount = 1 + s
    BY <1>4, <2>1 DEF PatchedSlotCount
  <2> QED
    BY <1>1, <1>2, <2>2
<1> QED
  BY <1>3, <1>4

LEMMA VacuumBuildImplements ==
    ASSUME DocumentLifecycleAssumption, IInv, VacuumBuild
    PROVE  Implements
<1>1. PICK n : n = PatchedSlotCount
  OBVIOUS
<1>2. PICK b : b = Base(FALSE, TRUE)
  OBVIOUS
<1>3. PICK m : m = [docs |-> [s \in 0 .. n - 1 |-> Patched(s)],
                    segs |-> manifest.segs,
                    visible |-> manifest.visible - Cardinality(RetiredInPlace)]
  OBVIOUS
<1>4. /\ job.kind = "vacuum" /\ job.base = NoBuild
      /\ job' = [job EXCEPT !.base = b, !.next = m]
      /\ UNCHANGED <<root, manifest, l0, accel, high, parent>>
  BY <1>1, <1>2, <1>3 DEF VacuumBuild
<1>5. VacuumSound
  BY <1>4 DEF IInv, JobSound
<1>6. PICK j : j = job
  OBVIOUS
<1>7. PICK k : k = [j EXCEPT !.base = b, !.next = m]
  OBVIOUS
<1>8. /\ DOMAIN k = VacuumFields /\ k.kind = "vacuum"
      /\ k.cands = j.cands /\ k.upserts = j.upserts
      /\ k.base = b /\ k.next = m
  BY <1>4, <1>5, <1>6, <1>7 DEF VacuumFields, VacuumSound
<1>9. job' = k /\ root' = root
  BY <1>4, <1>6, <1>7
<1>10. /\ b \in Build
       /\ b = [root |-> root, slotCount |-> SlotCount(manifest),
               records |-> Root!PendingRecords, seal |-> FALSE, exact |-> TRUE]
  BY <1>2, BaseIsBuild
<1>11. n \in SlotCount(manifest) .. root.next_document_slot
  BY <1>1, <1>5, PatchExtends
<1>12. Covers(m, n)
  <2>1. n \in Nat
    BY <1>11, RootFacts
  <2>2. DOMAIN m.docs = 0 .. n - 1
    BY <1>3
  <2> QED
    BY <2>1, <2>2 DEF Covers, Slots
<1>13. Staged(b, m, FALSE, TRUE)'
  <2>1. /\ SlotCount(manifest) <= root.next_document_slot
        /\ root.next_document_slot <= root.next_document_slot
    BY RootFacts
  <2> QED
    BY <1>9, <1>10, <1>11, <1>12, <2>1 DEF Staged
<1>14. JobSound'
  <2>1. /\ \A c \in k.cands : c.slot \in Nat
        /\ \A u \in k.upserts : u.slot \in Nat /\ u.slot < root.next_document_slot
    BY <1>5, <1>6, <1>8 DEF VacuumSound
  <2>2. VacuumSound'
    BY <1>8, <1>9, <1>13, <2>1 DEF VacuumSound
  <2> QED
    BY <1>8, <1>9, <2>2 DEF JobSound
<1>15. Maintenance = NoBuild /\ Maintenance' = Base(FALSE, TRUE)
  BY <1>2, <1>4, <1>8, <1>9 DEF Maintenance
<1> QED
  BY <1>4, <1>14, <1>15, MaintenanceBegins

LEMMA VacuumPublishImplements ==
    ASSUME DocumentLifecycleAssumption, IInv, VacuumPublish
    PROVE  Implements
<1>1. PICK phase : phase = NextPhase(job.phase)
  OBVIOUS
<1>2. /\ job.kind = "vacuum" /\ job.base # NoBuild
      /\ Replace(job.base, job.next)
      /\ job' = [job EXCEPT !.phase = phase, !.base = NoBuild, !.next = NoBuild]
      /\ UNCHANGED <<l0, accel, high>>
  BY <1>1 DEF VacuumPublish
<1>3. VacuumSound
  BY <1>2 DEF IInv, JobSound
<1>4. /\ DOMAIN job' = VacuumFields /\ job'.kind = "vacuum"
      /\ job'.base = NoBuild
      /\ job'.cands = job.cands /\ job'.upserts = job.upserts
  <2>1. DOMAIN job = VacuumFields
    BY <1>3 DEF VacuumSound
  <2> QED
    BY <1>2, <2>1, NextPhaseFields
<1>5. PICK b : b = job.base
  OBVIOUS
<1>6. PICK m : m = job.next
  OBVIOUS
<1>7. Staged(b, m, FALSE, TRUE)
  BY <1>2, <1>3, <1>5, <1>6 DEF VacuumSound
<1>8. PICK count \in b.slotCount .. b.root.next_document_slot : Covers(m, count)
  BY <1>7 DEF Staged
<1>9. /\ b \in Build /\ ~b.seal /\ b.exact
      /\ b.root.next_document_slot <= root.next_document_slot
  BY <1>7 DEF Staged
<1>10. Maintenance = b /\ Maintenance' = NoBuild
  BY <1>2, <1>4, <1>5 DEF Maintenance
<1>11. Replace(b, m)
  BY <1>2, <1>5, <1>6
<1>12. (root'.next_document_slot \in Nat
          /\ root.next_document_slot <= root'.next_document_slot) => JobSound'
  BY <1>2, <1>4, VacuumKeeps
<1> QED
  BY <1>2, <1>8, <1>9, <1>10, <1>11, <1>12, MaintenanceReplaces

\* The other steps of VACUUM publish nothing.
LEMMA VacuumOthersImplement ==
    ASSUME DocumentLifecycleAssumption, IInv,
           \/ VacuumFenceBusy \/ VacuumSkip \/ VacuumEnd \/ VacuumFail
           \/ \E pass \in SUBSET dead : VacuumNextPass(pass)
    PROVE  Implements
<1>1. CASE VacuumFenceBusy
  <2>1. PICK phase : phase = NextPhase(job.phase)
    OBVIOUS
  <2>2. /\ job.kind = "vacuum"
        /\ job' = [job EXCEPT !.phase = phase, !.base = NoBuild, !.next = NoBuild]
        /\ UNCHANGED <<root, manifest, l0, accel, high, parent>>
    BY <1>1, <2>1 DEF VacuumFenceBusy
  <2>3. DOMAIN job = VacuumFields
    BY <2>2 DEF IInv, JobSound, VacuumSound
  <2>4. /\ DOMAIN job' = VacuumFields /\ job'.kind = "vacuum"
        /\ job'.base = NoBuild
        /\ job'.cands = job.cands /\ job'.upserts = job.upserts
    BY <2>2, <2>3, NextPhaseFields
  <2> QED
    BY <2>2, <2>4, VacuumStepImplements
<1>2. CASE VacuumSkip
  <2>1. PICK phase : phase = NextPhase(job.phase)
    OBVIOUS
  <2>2. /\ job.kind = "vacuum" /\ job' = [job EXCEPT !.phase = phase]
        /\ UNCHANGED <<root, manifest, l0, accel, high, parent>>
    BY <1>2, <2>1 DEF VacuumSkip
  <2>3. DOMAIN job = VacuumFields
    BY <2>2 DEF IInv, JobSound, VacuumSound
  <2>4. /\ DOMAIN job' = VacuumFields /\ job'.kind = "vacuum"
        /\ job'.base = job.base /\ job'.next = job.next
        /\ job'.cands = job.cands /\ job'.upserts = job.upserts
    <3>1. PICK j : j = job
      OBVIOUS
    <3>2. PICK k : k = [j EXCEPT !.phase = phase]
      OBVIOUS
    <3>3. /\ DOMAIN k = VacuumFields /\ k.kind = j.kind
          /\ k.base = j.base /\ k.next = j.next
          /\ k.cands = j.cands /\ k.upserts = j.upserts
      BY <2>3, <3>1, <3>2 DEF VacuumFields
    <3> QED
      BY <2>2, <3>1, <3>2, <3>3
  <2> QED
    BY <2>2, <2>4, VacuumStepImplements
<1>3. CASE VacuumEnd
  <2>1. /\ job' = NoJob /\ UNCHANGED accel
        /\ UNCHANGED <<root, manifest, l0, high, parent>>
    BY <1>3 DEF VacuumEnd
  <2>2. JobSound' /\ Maintenance' = NoBuild
    BY <2>1, NoJobSound
  <2>3. AccelSound'
    BY <2>1, RootStays, AccelKeeps
  <2> QED
    BY <2>1, <2>2, <2>3, BuildsEnd
<1>4. CASE VacuumFail
  BY <1>4, EndJobImplements DEF VacuumFail
<1>5. CASE \E pass \in SUBSET dead : VacuumNextPass(pass)
  <2>1. PICK pass \in SUBSET dead : VacuumNextPass(pass)
    BY <1>5
  <2>2. /\ job.kind = "vacuum" /\ job' = [job EXCEPT !.dead = pass]
        /\ UNCHANGED <<root, manifest, l0, accel, high, parent>>
    BY <2>1 DEF VacuumNextPass
  <2>3. DOMAIN job = VacuumFields
    BY <2>2 DEF IInv, JobSound, VacuumSound
  <2>4. /\ DOMAIN job' = VacuumFields /\ job'.kind = "vacuum"
        /\ job'.base = job.base /\ job'.next = job.next
        /\ job'.cands = job.cands /\ job'.upserts = job.upserts
    <3>1. PICK j : j = job
      OBVIOUS
    <3>2. PICK k : k = [j EXCEPT !.dead = pass]
      OBVIOUS
    <3>3. /\ DOMAIN k = VacuumFields /\ k.kind = j.kind
          /\ k.base = j.base /\ k.next = j.next
          /\ k.cands = j.cands /\ k.upserts = j.upserts
      BY <2>3, <3>1, <3>2 DEF VacuumFields
    <3> QED
      BY <2>2, <3>1, <3>2, <3>3
  <2> QED
    BY <2>2, <2>4, VacuumStepImplements
<1> QED
  BY <1>1, <1>2, <1>3, <1>4, <1>5

(***************************************************************************)
(* The accelerator build, and crashes                                      *)
(***************************************************************************)
LEMMA AcceleratorImplements ==
    ASSUME DocumentLifecycleAssumption, IInv,
           AcceleratorBegin \/ AcceleratorPublish \/ AcceleratorGiveUp
    PROVE  Implements
<1>1. CASE AcceleratorBegin
  <2>1. /\ accel.base = NoBuild
        /\ accel' = [base |-> Base(FALSE, FALSE), next |-> manifest]
        /\ UNCHANGED <<root, manifest, l0, job, high, parent>>
    BY <1>1 DEF AcceleratorBegin, Accelerating
  <2>2. PICK b : b = Base(FALSE, FALSE)
    OBVIOUS
  <2>3. PICK m : m = manifest
    OBVIOUS
  <2>4. accel'.base = b /\ accel'.next = m /\ root' = root
    BY <2>1, <2>2, <2>3
  <2>5. /\ b \in Build
        /\ b = [root |-> root, slotCount |-> SlotCount(manifest),
                records |-> Root!PendingRecords, seal |-> FALSE, exact |-> FALSE]
    BY <2>2, BaseIsBuild
  <2>6. Covers(m, SlotCount(manifest))
    BY <2>3 DEF IInv, ManifestDense
  <2>7. AccelSound'
    <3>1. /\ SlotCount(manifest) <= root.next_document_slot
          /\ root.next_document_slot <= root.next_document_slot
      BY RootFacts
    <3>2. Staged(b, m, FALSE, FALSE)'
      BY <2>4, <2>5, <2>6, <3>1 DEF Staged
    <3> QED
      BY <2>4, <3>2 DEF AccelSound
  <2>8. accel.base = NoBuild /\ accel.base' = Base(FALSE, FALSE)
    BY <2>1, <2>2, <2>4
  <2> QED
    BY <2>1, <2>7, <2>8, AcceleratorBegins
<1>2. CASE AcceleratorPublish
  <2>1. /\ accel.base # NoBuild /\ Replace(accel.base, accel.next)
        /\ accel' = NotAccelerating
        /\ UNCHANGED job /\ UNCHANGED <<l0, high>>
    BY <1>2 DEF AcceleratorPublish, Accelerating
  <2>2. PICK b : b = accel.base
    OBVIOUS
  <2>3. PICK m : m = accel.next
    OBVIOUS
  <2>4. Staged(b, m, FALSE, FALSE)
    BY <2>1, <2>2, <2>3 DEF IInv, AccelSound, Accelerating
  <2>5. /\ b \in Build /\ ~b.seal /\ Covers(m, b.slotCount)
        /\ b.slotCount <= b.root.next_document_slot
        /\ b.root.next_document_slot <= root.next_document_slot
    BY <2>4 DEF Staged
  <2>6. PICK j : j = Maintenance
    OBVIOUS
  <2>7. accel'.base = NoBuild /\ Maintenance' = j
    BY <2>1, <2>6 DEF NotAccelerating, Maintenance
  <2>8. /\ Builds = [maintenance |-> j, accelerator |-> b]
        /\ Builds' = [maintenance |-> j, accelerator |-> NoBuild]
    BY <2>2, <2>6, <2>7 DEF Builds
  <2>9. /\ Builds["accelerator"] = b
        /\ Builds' = [Builds EXCEPT !["accelerator"] = NoBuild]
    BY <2>8, TwoBuilds
  <2>10. PICK count : count = b.slotCount
    OBVIOUS
  <2>11. /\ count \in b.slotCount .. b.root.next_document_slot
         /\ count # b.slotCount => b.exact
         /\ Covers(m, count) /\ Replace(b, m)
    BY <2>1, <2>2, <2>3, <2>5, <2>10, BuildFields
  <2>12. /\ Root!Next /\ ManifestDense'
         /\ root'.next_document_slot \in Nat
         /\ root.next_document_slot <= root'.next_document_slot
    BY <2>1, <2>5, <2>9, <2>11, Replaced
  <2>13. JobSound'
    BY <2>1, <2>12, JobKeeps
  <2>14. AccelSound'
    BY <2>7 DEF AccelSound, Accelerating
  <2> QED
    BY <2>12, <2>13, <2>14 DEF Implements
<1>3. CASE AcceleratorGiveUp
  <2>1. /\ accel' = NotAccelerating /\ UNCHANGED job
        /\ UNCHANGED <<root, manifest, l0, high, parent>>
    BY <1>3 DEF AcceleratorGiveUp
  <2>2. accel'.base = NoBuild
    BY <2>1 DEF NotAccelerating
  <2>3. JobSound' /\ AccelSound'
    <3>1. JobSound'
      BY <2>1, RootStays, JobKeeps
    <3> QED
      BY <2>2, <3>1 DEF AccelSound, Accelerating
  <2>4. Maintenance' = Maintenance
    BY <2>1 DEF Maintenance
  <2> QED
    BY <2>1, <2>2, <2>3, <2>4, BuildsEnd
<1> QED
  BY <1>1, <1>2, <1>3

\* A crash drops both builds at once.
LEMMA CrashImplements ==
    ASSUME DocumentLifecycleAssumption, IInv, Crash
    PROVE  Implements
<1>1. /\ job' = NoJob /\ accel' = NotAccelerating
      /\ UNCHANGED <<root, manifest, l0, high, parent>>
  BY DEF Crash
<1>2. JobSound' /\ Maintenance' = NoBuild
  BY <1>1, NoJobSound
<1>3. accel'.base = NoBuild
  BY <1>1 DEF NotAccelerating
<1>4. AccelSound'
  BY <1>3 DEF AccelSound, Accelerating
<1> QED
  BY <1>1, <1>2, <1>3, <1>4, BuildsEnd

(***************************************************************************)
(* Every step, and the initial states                                      *)
(***************************************************************************)
LEMMA StepImplements ==
    ASSUME DocumentLifecycleAssumption, IInv, [Next]_vars
    PROVE  Implements
<1>1. CASE Insert
  BY <1>1, InsertImplements
<1>2. CASE \E x \in DOMAIN status : Commit(x) \/ Abort(x)
  <2>1. PICK x : Commit(x) \/ Abort(x)
    BY <1>2
  <2>2. /\ job' = ReleaseLock(x)
        /\ UNCHANGED <<root, manifest, l0, accel, high, parent>>
    BY <2>1 DEF Commit, Abort
  <2> QED
    BY <2>2, TransactionImplements
<1>3. CASE \E x \in rows : HeapDie(x)
  BY <1>3, Quiet DEF HeapDie
<1>4. CASE Rotate
  BY <1>4, RotateImplements
<1>5. CASE SealBuild \/ SealPublish \/ SealGiveUp
  BY <1>5, SealBuildImplements, SealPublishImplements, EndJobImplements
  DEF SealGiveUp
<1>6. CASE \/ \E s \in Slots(manifest), due \in BOOLEAN : SemanticCollect(s, due)
           \/ \E kind \in {"COMPLETE", "QUARANTINE"} : SemanticAppend(kind)
           \/ SemanticGiveUp
  BY <1>6, SemanticCollectImplements, SemanticAppendImplements, EndJobImplements
  DEF SemanticGiveUp
<1>7. CASE \/ \E i, j \in DOMAIN manifest.segs : i < j /\ CompactBuild(i, j)
           \/ CompactPublish
           \/ CompactGiveUp
  BY <1>7, CompactBuildImplements, CompactPublishImplements, EndJobImplements
  DEF CompactGiveUp
<1>8. CASE \/ \E pass \in SUBSET dead : VacuumBegin(pass)
           \/ VacuumReserve \/ VacuumBuild \/ VacuumPublish
  BY <1>8, VacuumBeginImplements, VacuumReserveImplements,
     VacuumBuildImplements, VacuumPublishImplements
<1>9. CASE \/ VacuumFenceBusy \/ VacuumSkip \/ VacuumEnd \/ VacuumFail
           \/ \E pass \in SUBSET dead : VacuumNextPass(pass)
  BY <1>9, VacuumOthersImplement
<1>10. CASE AcceleratorBegin \/ AcceleratorPublish \/ AcceleratorGiveUp
  BY <1>10, AcceleratorImplements
<1>11. CASE Crash
  BY <1>11, CrashImplements
<1>12. CASE UNCHANGED vars
  BY <1>12, Quiet DEF vars
<1> QED
  BY <1>1, <1>2, <1>3, <1>4, <1>5, <1>6, <1>7, <1>8, <1>9, <1>10, <1>11, <1>12
  DEF Next

LEMMA StepInv ==
    ASSUME DocumentLifecycleAssumption, IInv, [Next]_vars
    PROVE  IInv'
<1>1. Implements
  BY StepImplements
<1>2. Root!IInv /\ [Root!Next]_(Root!vars)
  BY <1>1 DEF IInv, Implements
<1>3. Root!IInv'
  BY <1>2, Assumptions, Root!NextIInv
<1> QED
  BY <1>1, <1>3 DEF IInv, Implements

LEMMA InitImplements ==
    ASSUME DocumentLifecycleAssumption, Init
    PROVE  Root!Init /\ IInv
<1>1. /\ root = InitialRoot(0) /\ l0 = {} /\ job = NoJob
      /\ manifest = [docs |-> << >>, segs |-> << >>, visible |-> 0]
      /\ accel = NotAccelerating /\ high = 0 /\ parent = 0
  BY DEF Init
<1>2. SlotCount(manifest) = 0 /\ Slots(manifest) = {}
  <2>1. DOMAIN << >> = {}
    OBVIOUS
  <2> QED
    BY <1>1, <2>1, FS_EmptySet DEF SlotCount, Slots
<1>3. Bare(l0) = {} /\ Sealed = {}
  BY <1>1 DEF Bare, Sealed, InitialRoot
<1>4. Builds = [p \in {"maintenance", "accelerator"} |-> NoBuild]
  <2>1. Maintenance = NoBuild /\ accel.base = NoBuild
    BY <1>1 DEF Maintenance, NoJob, NotAccelerating
  <2>2. Builds = [maintenance |-> NoBuild, accelerator |-> NoBuild]
    BY <2>1 DEF Builds
  <2>3. [p \in {"maintenance", "accelerator"} |->
           IF p = "maintenance" THEN NoBuild ELSE NoBuild] =
        [maintenance |-> NoBuild, accelerator |-> NoBuild]
    BY TwoBuilds
  <2> QED
    BY <2>2, <2>3
<1>5. Root!Init
  BY <1>1, <1>2, <1>3, <1>4, SameOperators DEF Root!Init
<1>6. Root!IInv
  BY <1>5, Assumptions, Root!InitIInv
<1>7. ManifestDense
  <2>1. 0 .. 0 - 1 = {}
    OBVIOUS
  <2> QED
    BY <1>2, <2>1 DEF ManifestDense, Covers
<1>8. JobSound /\ AccelSound
  BY <1>1 DEF JobSound, AccelSound, NoJob, NotAccelerating, Accelerating
<1> QED
  BY <1>5, <1>6, <1>7, <1>8 DEF IInv

(***************************************************************************)
(* Publication and Root are the same specification                         *)
(***************************************************************************)
LEMMA SameVars ==
    /\ Publication!vars = Root!vars
    /\ Publication!vars' = Root!vars'
  BY DEF Publication!vars, Root!vars, Sealed, Builds, Maintenance

LEMMA SameInit == Root!Init => Publication!Init
  BY DEF Publication!Init, Root!Init, Sealed, Builds, Maintenance,
     Publication!InitialRoot, Root!InitialRoot, Publication!EmptyFrontier,
     Root!EmptyFrontier

LEMMA SameNext == Root!Next => Publication!Next
<1> USE DEF Sealed, Builds, Maintenance
<1>1. ASSUME NEW kind \in Kinds, NEW slot \in 0 .. root.next_document_slot,
             Root!Append(kind, slot)
      PROVE  Publication!Append(kind, slot)
  BY <1>1 DEF Publication!Append, Root!Append, Publication!UpsertSlots,
     Root!UpsertSlots, Publication!CanAppend, Root!CanAppend,
     Publication!AppendBase, Root!AppendBase, Publication!WantsRotation,
     Root!WantsRotation, Publication!RotateL0, Root!RotateL0,
     Publication!EmptyFrontier, Root!EmptyFrontier, Publication!Absent,
     Root!Absent, Publication!AdvanceRoot, Root!AdvanceRoot,
     Publication!AdvanceFrontier, Root!AdvanceFrontier
<1>2. Root!Rotate => Publication!Rotate
  BY DEF Publication!Rotate, Root!Rotate, Publication!CanRotate, Root!CanRotate,
     Publication!RotateL0, Root!RotateL0, Publication!EmptyFrontier,
     Root!EmptyFrontier, Publication!Absent, Root!Absent
<1>3. Publication!PendingRecords = Root!PendingRecords
  BY DEF Publication!PendingRecords, Root!PendingRecords, Publication!Sequences,
     Root!Sequences
<1>4. ASSUME NEW p \in {"maintenance", "accelerator"}, NEW seal \in BOOLEAN,
             NEW exact \in BOOLEAN, Root!BeginBuild(p, seal, exact)
      PROVE  Publication!BeginBuild(p, seal, exact)
  BY <1>3, <1>4 DEF Publication!BeginBuild, Root!BeginBuild, Publication!Absent,
     Root!Absent
<1>5. \A b : Publication!Matches(b) = Root!Matches(b)
  BY DEF Publication!Matches, Root!Matches, Publication!PublishMatches,
     Root!PublishMatches
<1>6. \A b : Publication!SealedSlotCount(b) = Root!SealedSlotCount(b)
  BY DEF Publication!SealedSlotCount, Root!SealedSlotCount, Publication!Tail,
     Root!Tail, Publication!Cardinality, Root!Cardinality
<1>7. ASSUME NEW p \in {"maintenance", "accelerator"}, Root!PublishSeal(p)
      PROVE  Publication!PublishSeal(p)
  BY <1>3, <1>5, <1>6, <1>7 DEF Publication!PublishSeal, Root!PublishSeal,
     Publication!CanSealPending, Root!CanSealPending, Publication!SealPending,
     Root!SealPending, Publication!EmptyFrontier, Root!EmptyFrontier,
     Publication!Absent, Root!Absent
<1>8. ASSUME NEW p \in {"maintenance", "accelerator"},
             NEW count \in 0 .. root.next_document_slot,
             Root!PublishReplace(p, count)
      PROVE  Publication!PublishReplace(p, count)
  BY <1>5, <1>8 DEF Publication!PublishReplace, Root!PublishReplace,
     Publication!CanReplaceManifest, Root!CanReplaceManifest,
     Publication!ReplaceManifest, Root!ReplaceManifest
<1>9. ASSUME NEW P \in SUBSET {"maintenance", "accelerator"}, Root!Abandon(P)
      PROVE  Publication!Abandon(P)
  BY <1>9 DEF Publication!Abandon, Root!Abandon
<1> HIDE DEF Sealed, Builds, Maintenance
<1> QED
  BY <1>1, <1>2, <1>4, <1>7, <1>8, <1>9 DEF Publication!Next, Root!Next

(***************************************************************************)
(* Theorems                                                                *)
(***************************************************************************)
\* Every job of the index (seal, compaction, VACUUM, accelerator) publishes
\* through the root compare-and-swap: whatever interleaving of inserts, rotations,
\* jobs and crashes happens, the root behaves as RootPublication says.
THEOREM RefinesRootPublication ==
    ASSUME DocumentLifecycleAssumption
    PROVE  Spec => ImplementsRootPublication
<1>1. Init => Publication!Init /\ IInv
  BY InitImplements, SameInit
<1>2. IInv /\ [Next]_vars => IInv'
  BY StepInv
<1>3. IInv /\ [Next]_vars => [Publication!Next]_(Publication!vars)
  <2> SUFFICES ASSUME IInv, [Next]_vars
               PROVE  [Publication!Next]_(Publication!vars)
    OBVIOUS
  <2>1. [Root!Next]_(Root!vars)
    BY StepImplements DEF Implements
  <2> QED
    BY <2>1, SameNext, SameVars
<1> QED
  BY <1>1, <1>2, <1>3, PTL DEF Spec, ImplementsRootPublication, Publication!Spec

(***************************************************************************)
(* The L0 projection                                                       *)
(***************************************************************************)
\* A sequence names one record.
RecordsUnique == \A q, r \in l0 : q.sequence = r.sequence => q = r

LEMMA UniqueStep ==
    ASSUME IInv, RecordsUnique, [Next]_vars
    PROVE  RecordsUnique'
<1>1. CASE l0' \subseteq l0
  BY <1>1 DEF RecordsUnique
<1>2. ASSUME NEW kind, NEW slot, NEW source, NEW atoms, NEW outcome,
             AppendRecord(kind, slot, source, atoms, outcome)
      PROVE  RecordsUnique'
  <2>1. PICK x : /\ x.sequence = root.next_sequence
                 /\ l0' = l0 \cup {x}
    <3>1. PICK y : y = [kind |-> kind, slot |-> slot,
                        sequence |-> root.next_sequence,
                        source |-> source, atoms |-> atoms]
      OBVIOUS
    <3> QED
      BY <1>2, <3>1 DEF AppendRecord
  <2>2. root.next_sequence \in Nat /\ \A r \in l0 : r.sequence < root.next_sequence
    <3>1. \A r \in Bare(l0) : r.sequence < root.next_sequence
      BY Assumptions, Root!ChainFacts DEF IInv
    <3>2. \A r \in l0 : [kind |-> r.kind, slot |-> r.slot, sequence |-> r.sequence]
                          \in Bare(l0)
      BY DEF Bare
    <3> QED
      BY <3>1, <3>2, RootFacts
  <2>3. \A r \in l0 : r.sequence # x.sequence
    BY <2>1, <2>2, RootFacts
  <2> QED
    BY <2>1, <2>3 DEF RecordsUnique
<1>3. CASE Insert
  BY <1>2, <1>3 DEF Insert
<1>4. ASSUME NEW kind, SemanticAppend(kind)
      PROVE  RecordsUnique'
  BY <1>2, <1>4 DEF SemanticAppend
<1>5. CASE VacuumReserve
  BY <1>2, <1>5 DEF VacuumReserve
<1>6. CASE SealPublish
  BY <1>1, <1>6 DEF SealPublish
<1>7. CASE UNCHANGED l0
  BY <1>1, <1>7
<1> QED
  BY <1>3, <1>4, <1>5, <1>6, <1>7
  DEF Next, vars, Commit, Abort, HeapDie, Rotate, SealBuild, SealGiveUp, EndJob,
      SemanticCollect, SemanticGiveUp, CompactBuild, CompactPublish,
      CompactGiveUp, VacuumBegin, VacuumBuild, VacuumPublish, VacuumFenceBusy,
      VacuumSkip, VacuumEnd, VacuumFail, VacuumNextPass, AcceleratorBegin,
      AcceleratorPublish, AcceleratorGiveUp, Crash

LEMMA Shaped ==
    ASSUME IInv, RecordsUnique
    PROVE  ProjectionShaped
<1>1. OneEach(Upserts(l0))
  <2> SUFFICES ASSUME NEW q \in l0, NEW r \in l0,
                      q.kind = "UPSERT", r.kind = "UPSERT", q.slot = r.slot
               PROVE  q = r
    BY DEF OneEach, Upserts
  <2>1. /\ q.sequence \in Nat /\ r.sequence \in Nat
        /\ q.slot \in Nat /\ r.slot \in Nat
    BY RootFacts
  <2>2. PICK qq : qq = [kind |-> q.kind, slot |-> q.slot, sequence |-> q.sequence]
    OBVIOUS
  <2>3. PICK rr : rr = [kind |-> r.kind, slot |-> r.slot, sequence |-> r.sequence]
    OBVIOUS
  <2>4. qq \in Root!Upserts /\ rr \in Root!Upserts
    BY <2>2, <2>3 DEF Root!Upserts, Bare
  <2>5. /\ qq.sequence < rr.sequence => qq.slot < rr.slot
        /\ rr.sequence < qq.sequence => rr.slot < qq.slot
    BY <2>4 DEF IInv, Root!IInv, Root!UpsertSlotsIncrease
  <2>6. q.sequence = r.sequence
    BY <2>1, <2>2, <2>3, <2>5
  <2> QED
    BY <2>6 DEF RecordsUnique
<1>2. {r.slot : r \in {u \in Upserts(l0) : ~InManifest(u)}} =
        SlotCount(manifest) .. root.next_document_slot - 1
  <2>1. Root!IInv
    BY DEF IInv
  <2>2. Root!TailClosed
    BY <2>1, Assumptions, Root!TailClosedLemma
  <2>3. SlotCount(manifest) \in Nat /\ \A r \in l0 : r.slot \in Nat
    BY RootFacts
  <2>4. {r.slot : r \in {u \in Upserts(l0) : ~InManifest(u)}} =
          Root!Tail(Bare(l0), SlotCount(manifest))
    BY <2>3, FreshSlots DEF Upserts, InManifest
  <2> QED
    BY <2>2, <2>4 DEF Root!TailClosed
<1> QED
  BY <1>1, <1>2 DEF ProjectionShaped

\* Whatever the transactions, the jobs and the crashes do, no two unsealed
\* upserts take one slot and the slots above the manifest are exactly theirs: a
\* query never ends in "duplicate upsert", "tail range" or "document high water".
THEOREM ProjectionStaysShaped ==
    ASSUME DocumentLifecycleAssumption
    PROVE  Spec => []ProjectionShaped
<1>1. Init => IInv /\ RecordsUnique
  BY InitImplements DEF Init, RecordsUnique
<1>2. IInv /\ RecordsUnique /\ [Next]_vars => (IInv /\ RecordsUnique)'
  BY StepInv, UniqueStep
<1>3. IInv /\ RecordsUnique => ProjectionShaped
  BY Shaped
<1> QED
  BY <1>1, <1>2, <1>3, PTL DEF Spec

(***************************************************************************)
(* The history of the slots                                                *)
(***************************************************************************)
DocFields ==
    {"born", "aborted", "owned", "retired", "state", "stateSeq",
     "lexical", "semantic", "event"}

\* What the sequences of a document record are, whatever its residency.
DocSound(d) ==
    /\ DOMAIN d = DocFields
    /\ d.born \in Nat /\ d.retired \in Nat /\ d.stateSeq \in Nat
    /\ d.aborted => d.retired = 0 /\ d.stateSeq = 0
DocsSound(m) == \A s \in Slots(m) : DocSound(m.docs[s])

\* What SlotHistoryMovesForward asks of one record, and of two manifests.
DocMoves(old, new) ==
    /\ LastSequence(new) >= LastSequence(old)
    /\ IsRetired(old) /\ new.born = old.born => new.retired = old.retired
Moves(m, n) ==
    \A s \in Slots(m) : s \in Slots(n) /\ DocMoves(m.docs[s], n.docs[s])

\* A staged manifest moves the slots forward from the root's manifest for as
\* long as the root has the segment id the build read.
StagedMoves(base, next) ==
    /\ DocsSound(next)
    /\ base.root.next_segment_id = root.next_segment_id => Moves(manifest, next)

VacuumMoves ==
    /\ job.base # NoBuild => StagedMoves(job.base, job.next)
    /\ job.ret \in Nat
    /\ \A u \in job.upserts : u.sequence \in Nat
JobMoves ==
    /\ job.kind \in {"seal", "compact"} => StagedMoves(job.base, job.next)
    /\ job.kind = "vacuum" => VacuumMoves
AccelMoves == Accelerating => StagedMoves(accel.base, accel.next)

HInv == DocsSound(manifest) /\ JobMoves /\ AccelMoves

(***************************************************************************)
(* Document records                                                        *)
(***************************************************************************)
\* The latest sequence of a record is the greatest of its three.
LEMMA GreatestOfThree ==
    ASSUME NEW a \in Nat, NEW b \in Nat, NEW c \in Nat
    PROVE  LET m == CHOOSE q \in {a, b, c} : \A p \in {a, b, c} : p <= q
           IN  m \in {a, b, c} /\ a <= m /\ b <= m /\ c <= m
<1>1. \E q \in {a, b, c} : \A p \in {a, b, c} : p <= q
  <2>1. CASE b <= a /\ c <= a
    BY <2>1
  <2>2. CASE a <= b /\ c <= b
    BY <2>2
  <2>3. CASE a <= c /\ b <= c
    BY <2>3
  <2> QED
    BY <2>1, <2>2, <2>3
<1> QED
  BY <1>1

LEMMA Latest ==
    ASSUME NEW d, DocSound(d)
    PROVE  /\ LastSequence(d) \in {d.born, d.retired, d.stateSeq}
           /\ LastSequence(d) \in Nat
           /\ d.born <= LastSequence(d)
           /\ d.retired <= LastSequence(d)
           /\ d.stateSeq <= LastSequence(d)
<1>1. d.born \in Nat /\ d.retired \in Nat /\ d.stateSeq \in Nat
  BY DEF DocSound
<1>2. /\ LastSequence(d) \in {d.born, d.retired, d.stateSeq}
      /\ d.born <= LastSequence(d)
      /\ d.retired <= LastSequence(d)
      /\ d.stateSeq <= LastSequence(d)
  BY <1>1, GreatestOfThree DEF LastSequence
<1> QED
  BY <1>1, <1>2

\* A record none of whose sequences is lowered moves forward.
LEMMA MovesByFields ==
    ASSUME NEW old, NEW new, DocSound(old), DocSound(new),
           old.born <= new.born, old.retired <= new.retired,
           old.stateSeq <= new.stateSeq,
           old.retired # 0 => new.retired = old.retired
    PROVE  DocMoves(old, new)
<1>1. /\ LastSequence(old) \in {old.born, old.retired, old.stateSeq}
      /\ LastSequence(old) \in Nat /\ LastSequence(new) \in Nat
      /\ new.born <= LastSequence(new)
      /\ new.retired <= LastSequence(new)
      /\ new.stateSeq <= LastSequence(new)
  BY Latest
<1>2. /\ old.born \in Nat /\ old.retired \in Nat /\ old.stateSeq \in Nat
      /\ new.born \in Nat /\ new.retired \in Nat /\ new.stateSeq \in Nat
  BY DEF DocSound
<1>3. LastSequence(new) >= LastSequence(old)
  BY <1>1, <1>2
<1> QED
  BY <1>3 DEF DocMoves, IsRetired

\* evoke_document_cow_record_transition_validate accepts forward moves only.
LEMMA TransitionMoves ==
    ASSUME NEW old, NEW new, DocSound(old), DocSound(new),
           TransitionValid(old, new)
    PROVE  DocMoves(old, new)
<1>1. /\ old.born \in Nat /\ old.retired \in Nat /\ old.stateSeq \in Nat
      /\ new.born \in Nat /\ new.retired \in Nat /\ new.stateSeq \in Nat
      /\ old.aborted => old.retired = 0 /\ old.stateSeq = 0
  BY DEF DocSound
<1>2. SemanticTransitionAllowed(old, new) => old.stateSeq <= new.stateSeq
  BY <1>1 DEF SemanticTransitionAllowed
<1>3. CASE PlaceholderRetires(old, new) /\ old.aborted
  <2>1. /\ new.born = old.born /\ new.retired > new.born
        /\ old.retired = 0 /\ old.stateSeq = 0
    BY <1>1, <1>3 DEF PlaceholderRetires
  <2> QED
    BY <1>1, <2>1, MovesByFields
<1>4. CASE OwnedSealed(old, new)
  <2>1. /\ new.born = old.born /\ new.retired = old.retired
        /\ old.stateSeq <= new.stateSeq
    BY <1>2, <1>4 DEF OwnedSealed
  <2> QED
    BY <1>1, <2>1, MovesByFields
<1>5. CASE SlotReused(old, new)
  <2>1. new.born > LastSequence(old)
    BY <1>5 DEF SlotReused
  <2>2. /\ LastSequence(old) \in Nat /\ old.born <= LastSequence(old)
        /\ LastSequence(new) \in Nat /\ new.born <= LastSequence(new)
    BY Latest
  <2> QED
    BY <1>1, <2>1, <2>2 DEF DocMoves
<1>6. CASE /\ SameVersion(old, new)
           /\ old.retired # 0 => new.retired = old.retired
           /\ SemanticTransitionAllowed(old, new)
  <2>1. new.born = old.born /\ old.stateSeq <= new.stateSeq
    BY <1>2, <1>6 DEF SameVersion
  <2>2. old.retired <= new.retired
    BY <1>1, <1>6
  <2> QED
    BY <1>1, <1>6, <2>1, <2>2, MovesByFields
<1> QED
  BY <1>3, <1>4, <1>5, <1>6 DEF TransitionValid, IsPlaceholder

LEMMA DocStays ==
    ASSUME NEW d, DocSound(d)
    PROVE  DocMoves(d, d)
<1>1. d.born \in Nat /\ d.retired \in Nat /\ d.stateSeq \in Nat
  BY DEF DocSound
<1> QED
  BY <1>1, MovesByFields

LEMMA BlankIsSound == DocSound(BlankDoc)
  BY DEF DocSound, BlankDoc, DocFields

LEMMA VersionIsSound ==
    ASSUME NEW born \in Nat, NEW aborted, NEW owned
    PROVE  /\ DocSound(Version(born, aborted, owned))
           /\ Version(born, aborted, owned).aborted = aborted
  BY DEF Version, DocSound, BlankDoc, DocFields

(***************************************************************************)
(* The manifests that the jobs stage                                       *)
(***************************************************************************)
\* A record of the manifest or, above it, a blank one.
LEMMA Before ==
    ASSUME IInv, DocsSound(manifest), NEW s \in Nat
    PROVE  /\ s < SlotCount(manifest) <=> s \in Slots(manifest)
           /\ DocSound(IF s < SlotCount(manifest) THEN DocAt(s) ELSE BlankDoc)
<1>1. s < SlotCount(manifest) <=> s \in Slots(manifest)
  BY RootFacts
<1> QED
  BY <1>1, BlankIsSound DEF DocsSound, DocAt

LEMMA SealVersionSound ==
    ASSUME NEW d, DocSound(d), NEW u, u.sequence \in Nat
    PROVE  /\ DOMAIN SealVersion(d, u) = DocFields
           /\ SealVersion(d, u).born \in Nat
           /\ SealVersion(d, u).retired \in Nat
           /\ SealVersion(d, u).stateSeq \in Nat
<1>1. PICK v : v = Version(u.sequence, ~Committed(u), FALSE)
  OBVIOUS
<1>2. DocSound(v)
  BY <1>1, VersionIsSound
<1>3. CASE d.owned
  <2>1. SealVersion(d, u) = [d EXCEPT !.born = v.born, !.aborted = v.aborted,
                                      !.owned = FALSE]
    BY <1>1, <1>3 DEF SealVersion
  <2> QED
    BY <1>2, <2>1 DEF DocSound, DocFields
<1>4. CASE ~d.owned
  <2>1. SealVersion(d, u) = v
    BY <1>1, <1>4 DEF SealVersion
  <2> QED
    BY <1>2, <2>1 DEF DocSound
<1> QED
  BY <1>3, <1>4

\* What the seal writes for a slot it touches.
LEMMA SealDocSound ==
    ASSUME IInv, DocsSound(manifest), NEW s \in Nat, RecordValid(SealDoc(s))
    PROVE  DocSound(SealDoc(s))
<1>1. PICK old : old = IF s < SlotCount(manifest) THEN DocAt(s) ELSE BlankDoc
  OBVIOUS
<1>2. DocSound(old)
  BY <1>1, Before
<1>3. ASSUME NEW R, R \subseteq l0, R # {}
      PROVE  AnyOf(R).sequence \in Nat
  <2>1. AnyOf(R) \in R
    BY <1>3 DEF AnyOf
  <2> QED
    BY <1>3, <2>1, RootFacts
<1>4. PICK upsert : upsert = At(Upserts(PendingRecords), s)
  OBVIOUS
<1>5. PICK retire : retire = At(SealedRetires, s)
  OBVIOUS
<1>6. PICK state : state = At(SealedSemantics, s)
  OBVIOUS
<1>7. upsert \subseteq l0 /\ retire \subseteq l0 /\ state \subseteq l0
  BY <1>4, <1>5, <1>6 DEF At, Upserts, SealedRetires, Retires, SealedSemantics,
     Semantics, PendingRecords
<1>8. PICK version :
        version = IF upsert = {} THEN old ELSE SealVersion(old, AnyOf(upsert))
  OBVIOUS
<1>9. /\ DOMAIN version = DocFields
      /\ version.born \in Nat /\ version.retired \in Nat /\ version.stateSeq \in Nat
  <2>1. CASE upsert = {}
    BY <1>2, <1>8, <2>1 DEF DocSound
  <2>2. CASE upsert # {}
    <3>1. AnyOf(upsert).sequence \in Nat
      BY <1>3, <1>7, <2>2
    <3> QED
      BY <1>2, <1>8, <2>2, <3>1, SealVersionSound
  <2> QED
    BY <2>1, <2>2
<1>10. SealDoc(s) =
         [version EXCEPT
            !.retired  = IF retire = {} THEN @ ELSE AnyOf(retire).sequence,
            !.state    = IF state = {} THEN @ ELSE AnyOf(state).kind,
            !.stateSeq = IF state = {} THEN @ ELSE AnyOf(state).sequence,
            !.lexical  = @ + Cardinality(At(SealedLive, s)),
            !.semantic = @ + Cardinality({r \in state : r.atoms # 0}),
            !.event    = @ + Cardinality(At(SealedEvents, s))]
  BY <1>1, <1>4, <1>5, <1>6, <1>8 DEF SealDoc
<1>11. PICK ret : ret = IF retire = {} THEN version.retired
                        ELSE AnyOf(retire).sequence
  OBVIOUS
<1>12. PICK seq : seq = IF state = {} THEN version.stateSeq
                        ELSE AnyOf(state).sequence
  OBVIOUS
<1>13. ret \in Nat /\ seq \in Nat
  BY <1>3, <1>7, <1>9, <1>11, <1>12
<1>14. /\ DOMAIN SealDoc(s) = DocFields
       /\ SealDoc(s).born = version.born
       /\ SealDoc(s).retired = ret
       /\ SealDoc(s).stateSeq = seq
  BY <1>9, <1>10, <1>11, <1>12 DEF DocFields
<1>15. SealDoc(s).aborted => SealDoc(s).retired = 0 /\ SealDoc(s).stateSeq = 0
  BY DEF RecordValid
<1> QED
  BY <1>9, <1>13, <1>14, <1>15 DEF DocSound

LEMMA SealMoves ==
    ASSUME IInv, DocsSound(manifest), SealAccepted
    PROVE  DocsSound(SealedManifest) /\ Moves(manifest, SealedManifest)
<1>1. /\ TailSlots = SlotCount(manifest) .. NextSlotCount - 1
      /\ \A s \in SealTouched :
           /\ RecordValid(SealDoc(s))
           /\ s < SlotCount(manifest) => TransitionValid(DocAt(s), SealDoc(s))
  BY DEF SealAccepted
<1>2. PICK m : m = SealedManifest
  OBVIOUS
<1>3. /\ Slots(m) = 0 .. NextSlotCount - 1
      /\ \A s \in Slots(m) :
           m.docs[s] = IF s \in SealTouched THEN SealDoc(s) ELSE DocAt(s)
  BY <1>2 DEF SealedManifest, Slots
<1>4. /\ NextSlotCount \in Nat /\ SlotCount(manifest) \in Nat
      /\ Slots(manifest) = 0 .. SlotCount(manifest) - 1
  BY SealExtends, RootFacts
<1>5. SlotCount(manifest) <= NextSlotCount
  <2>1. Cardinality(TailSlots) \in Nat
    <3>1. IsFiniteSet(TailSlots)
      BY <1>1, <1>4, FS_Interval
    <3> QED
      BY <3>1, FS_CardinalityType
  <2> QED
    BY <1>4, <2>1 DEF NextSlotCount
<1>6. \A s \in Slots(manifest) : s \in Slots(m)
  BY <1>3, <1>4, <1>5
<1>7. TailSlots \subseteq SealTouched
  BY DEF TailSlots, SealTouched, SealedEvents
<1>8. ASSUME NEW s \in Slots(m)
      PROVE  /\ DocSound(m.docs[s])
             /\ s \in Slots(manifest) => DocMoves(manifest.docs[s], m.docs[s])
  <2>1. s \in Nat
    BY <1>3, <1>4, <1>8
  <2>2. s < SlotCount(manifest) <=> s \in Slots(manifest)
    BY <2>1, Before
  <2>3. CASE s \in SealTouched
    <3>1. m.docs[s] = SealDoc(s)
      BY <1>3, <1>8, <2>3
    <3>2. DocSound(SealDoc(s))
      BY <1>1, <2>1, <2>3, SealDocSound
    <3>3. ASSUME s \in Slots(manifest)
          PROVE  DocMoves(manifest.docs[s], m.docs[s])
      <4>1. TransitionValid(DocAt(s), SealDoc(s))
        BY <1>1, <2>2, <2>3, <3>3
      <4>2. DocSound(DocAt(s))
        BY <3>3 DEF DocsSound, DocAt
      <4>3. DocMoves(DocAt(s), SealDoc(s))
        BY <3>2, <4>1, <4>2, TransitionMoves
      <4> QED
        BY <3>1, <4>3 DEF DocAt
    <3> QED
      BY <3>1, <3>2, <3>3
  <2>4. CASE s \notin SealTouched
    <3>1. m.docs[s] = manifest.docs[s]
      BY <1>3, <1>8, <2>4 DEF DocAt
    <3>2. s \in Slots(manifest)
      BY <1>1, <1>3, <1>4, <1>7, <1>8, <2>1, <2>2, <2>4
    <3>3. DocSound(manifest.docs[s])
      BY <3>2 DEF DocsSound
    <3> QED
      BY <3>1, <3>3, DocStays
  <2> QED
    BY <2>3, <2>4
<1> QED
  BY <1>2, <1>6, <1>8 DEF DocsSound, Moves

\* The merge changes the residency of a record only.
LEMMA CompactMoves ==
    ASSUME DocsSound(manifest), NEW i, NEW j
    PROVE  /\ DocsSound(CompactedManifest(i, j))
           /\ Moves(manifest, CompactedManifest(i, j))
<1>1. PICK old : old = SubSeq(manifest.segs, i, j)
  OBVIOUS
<1>2. PICK new : new = <<Merged(old)>>
  OBVIOUS
<1>3. PICK m : m = CompactedManifest(i, j)
  OBVIOUS
<1>4. /\ Slots(m) = Slots(manifest)
      /\ \A s \in Slots(m) : m.docs[s] = CompactedDoc(DocAt(s), s, old, new)
  BY <1>1, <1>2, <1>3 DEF CompactedManifest, Slots
<1>5. ASSUME NEW s \in Slots(manifest)
      PROVE  DocSound(m.docs[s]) /\ DocMoves(manifest.docs[s], m.docs[s])
  <2>1. PICK d : d = manifest.docs[s]
    OBVIOUS
  <2>2. DocSound(d)
    BY <1>5, <2>1 DEF DocsSound
  <2>3. PICK e : e = CompactedDoc(d, s, old, new)
    OBVIOUS
  <2>4. /\ DOMAIN e = DocFields
        /\ e.born = d.born /\ e.retired = d.retired /\ e.stateSeq = d.stateSeq
        /\ e.aborted = d.aborted
    BY <2>2, <2>3 DEF CompactedDoc, DocSound, DocFields
  <2>5. DocSound(e)
    BY <2>2, <2>4 DEF DocSound
  <2>6. DocMoves(d, e)
    <3>1. d.born \in Nat /\ d.retired \in Nat /\ d.stateSeq \in Nat
      BY <2>2 DEF DocSound
    <3> QED
      BY <2>2, <2>4, <2>5, <3>1, MovesByFields
  <2>7. m.docs[s] = e
    BY <1>4, <1>5, <2>1, <2>3 DEF DocAt
  <2> QED
    BY <2>1, <2>5, <2>6, <2>7
<1> QED
  BY <1>3, <1>4, <1>5 DEF DocsSound, Moves

\* What VACUUM writes for a slot it patches.
LEMMA PatchedSound ==
    ASSUME IInv, DocsSound(manifest), VacuumSound, VacuumMoves,
           NEW s \in PatchedSlots, PatchAccepted
    PROVE  DocSound(Patched(s))
<1>1. job.ret \in Nat /\ \A u \in job.upserts : u.sequence \in Nat
  BY DEF VacuumMoves
<1>2. CASE s \in RetiredInPlace
  <2>1. s \in Slots(manifest)
    <3>1. SlotCount(manifest) \in Nat /\ Slots(manifest) = 0 .. SlotCount(manifest) - 1
      BY RootFacts
    <3>2. s \in Nat /\ s < SlotCount(manifest)
      BY <1>2 DEF RetiredInPlace, Reservable, DeadUpserts, VacuumSound, InManifest
    <3> QED
      BY <3>1, <3>2
  <2>2. DocSound(DocAt(s))
    BY <2>1 DEF DocsSound, DocAt
  <2>3. Patched(s) = [DocAt(s) EXCEPT !.retired = job.ret]
    BY <1>2 DEF Patched
  <2>4. RecordValid(Patched(s))
    BY DEF PatchAccepted
  <2>5. PICK d : d = DocAt(s)
    OBVIOUS
  <2>6. PICK e : e = Patched(s)
    OBVIOUS
  <2>7. /\ DOMAIN e = DocFields
        /\ e.born = d.born /\ e.retired = job.ret /\ e.stateSeq = d.stateSeq
    BY <2>2, <2>3, <2>5, <2>6 DEF DocSound, DocFields
  <2>8. e.aborted => e.retired = 0 /\ e.stateSeq = 0
    BY <2>4, <2>6 DEF RecordValid
  <2> QED
    BY <1>1, <2>2, <2>5, <2>6, <2>7, <2>8 DEF DocSound
<1>3. CASE s \notin RetiredInPlace /\ At(RetiredInL0, s) # {}
  <2>1. PICK u : u = AnyOf(At(RetiredInL0, s))
    OBVIOUS
  <2>2. u \in job.upserts
    BY <1>3, <2>1 DEF AnyOf, At, RetiredInL0, DeadUpserts
  <2>3. Patched(s) = OwnedRetired(u)
    BY <1>3, <2>1 DEF Patched
  <2>4. PICK v : v = Version(u.sequence, FALSE, TRUE)
    OBVIOUS
  <2>5. DocSound(v) /\ v.aborted = FALSE
    BY <1>1, <2>2, <2>4, VersionIsSound
  <2>6. Patched(s) = [v EXCEPT !.retired = job.ret]
    BY <2>3, <2>4 DEF OwnedRetired
  <2> QED
    BY <1>1, <2>5, <2>6 DEF DocSound, DocFields
<1>4. CASE s \notin RetiredInPlace /\ At(RetiredInL0, s) = {}
  <2>1. s \in TailRange
    BY <1>4 DEF PatchedSlots, At
  <2>2. PICK u : u = AnyOf(At(job.upserts, s))
    OBVIOUS
  <2>3. u \in job.upserts
    BY <2>1, <2>2 DEF PatchAccepted, AnyOf, At
  <2>4. Patched(s) = Version(u.sequence, TRUE, TRUE)
    BY <1>4, <2>1, <2>2 DEF Patched, Placeholder
  <2>5. u.sequence \in Nat
    BY <1>1, <2>3
  <2>6. DocSound(Version(u.sequence, TRUE, TRUE))
    BY <2>5, VersionIsSound
  <2> QED
    BY <2>4, <2>6
<1> QED
  BY <1>2, <1>3, <1>4

LEMMA PatchMoves ==
    ASSUME IInv, DocsSound(manifest), VacuumSound, VacuumMoves, PatchAccepted,
           NEW m, m.docs = [s \in 0 .. PatchedSlotCount - 1 |-> Patched(s)]
    PROVE  DocsSound(m) /\ Moves(manifest, m)
<1>1. PatchedSlotCount \in SlotCount(manifest) .. root.next_document_slot
  BY PatchExtends
<1>2. /\ SlotCount(manifest) \in Nat /\ root.next_document_slot \in Nat
      /\ Slots(manifest) = 0 .. SlotCount(manifest) - 1
  BY RootFacts
<1>3. /\ Slots(m) = 0 .. PatchedSlotCount - 1
      /\ \A s \in Slots(m) : m.docs[s] = Patched(s)
  BY DEF Slots
<1>4. \A s \in Slots(manifest) : s \in Slots(m)
  BY <1>1, <1>2, <1>3
<1>5. ASSUME NEW s \in Slots(m)
      PROVE  /\ DocSound(m.docs[s])
             /\ s \in Slots(manifest) => DocMoves(manifest.docs[s], m.docs[s])
  <2>1. m.docs[s] = Patched(s)
    BY <1>3, <1>5
  <2>2. CASE s \in PatchedSlots
    <3>1. DocSound(Patched(s))
      BY <2>2, PatchedSound
    <3>2. ASSUME s \in Slots(manifest)
          PROVE  DocMoves(manifest.docs[s], m.docs[s])
      <4>1. TransitionValid(DocAt(s), Patched(s))
        BY <2>2, <3>2 DEF PatchAccepted
      <4>2. DocSound(DocAt(s))
        BY <3>2 DEF DocsSound, DocAt
      <4>3. DocMoves(DocAt(s), Patched(s))
        BY <3>1, <4>1, <4>2, TransitionMoves
      <4> QED
        BY <2>1, <4>3 DEF DocAt
    <3> QED
      BY <2>1, <3>1, <3>2
  <2>3. CASE s \notin PatchedSlots
    <3>1. s \in Slots(manifest)
      BY <1>1, <1>2, <1>3, <1>5, <2>3 DEF PatchedSlots, TailRange
    <3>2. s \notin RetiredInPlace /\ At(RetiredInL0, s) = {} /\ s \notin TailRange
      BY <2>3 DEF PatchedSlots, At
    <3>3. m.docs[s] = manifest.docs[s]
      BY <2>1, <3>2 DEF Patched, DocAt
    <3>4. DocSound(manifest.docs[s])
      BY <3>1 DEF DocsSound
    <3> QED
      BY <3>3, <3>4, DocStays
  <2> QED
    BY <2>2, <2>3
<1> QED
  BY <1>4, <1>5 DEF DocsSound, Moves

(***************************************************************************)
(* From one step to the next                                               *)
(***************************************************************************)
\* No step takes the segment id back, and none but one that takes an id
\* replaces the manifest.
Onward ==
    /\ root'.next_segment_id \in Nat
    /\ \/ UNCHANGED manifest /\ root'.next_segment_id = root.next_segment_id
       \/ root'.next_segment_id > root.next_segment_id

LEMMA SegmentIds ==
    ASSUME NEW r \in ReadRoot
    PROVE  /\ r.next_segment_id \in Nat
           /\ RotateL0(r) \in ReadRoot
           /\ RotateL0(r).next_segment_id = r.next_segment_id + 1
           /\ SealPending(r).next_segment_id = r.next_segment_id + 1
           /\ ReplaceManifest(r).next_segment_id = r.next_segment_id + 1
           /\ \A kind, slot :
                AdvanceRoot(r, kind, slot).next_segment_id = r.next_segment_id
<1>1. r \in Root!ReadRoot /\ r.next_segment_id \in Nat
  BY SameOperators DEF ReadRoot
<1>2. /\ RotateL0(r) \in ReadRoot
      /\ RotateL0(r).next_segment_id = r.next_segment_id + 1
  BY <1>1, Assumptions, SameOperators, Root!RotateFields
<1>3. SealPending(r).next_segment_id = r.next_segment_id + 1
  BY <1>1, Assumptions, SameOperators, Root!SealFields
<1>4. ReplaceManifest(r).next_segment_id = r.next_segment_id + 1
  BY <1>1, Assumptions, SameOperators, Root!ReplaceFields
<1>5. \A kind, slot :
        AdvanceRoot(r, kind, slot).next_segment_id = r.next_segment_id
  BY DEF AdvanceRoot, ReadRoot
<1> QED
  BY <1>1, <1>2, <1>3, <1>4, <1>5

LEMMA AppendGoesOn ==
    ASSUME IInv, NEW kind, NEW slot, NEW source, NEW atoms, NEW outcome,
           AppendRecord(kind, slot, source, atoms, outcome),
           UNCHANGED manifest
    PROVE  Onward
<1>1. PICK base : base = AppendBase(root)
  OBVIOUS
<1>2. root' = AdvanceRoot(base, kind, slot)
  BY <1>1 DEF AppendRecord
<1>3. /\ base \in ReadRoot /\ root.next_segment_id \in Nat
      /\ \/ base.next_segment_id = root.next_segment_id
         \/ base.next_segment_id = root.next_segment_id + 1
  BY <1>1, RootFacts, SegmentIds DEF AppendBase
<1>4. root'.next_segment_id = base.next_segment_id
  BY <1>2, <1>3, SegmentIds
<1> QED
  BY <1>3, <1>4 DEF Onward

LEMMA StaysOn ==
    ASSUME IInv, UNCHANGED <<root, manifest>>
    PROVE  Onward
  BY RootFacts DEF Onward

LEMMA PublicationGoesOn ==
    ASSUME IInv, root' = SealPending(root) \/ root' = ReplaceManifest(root)
    PROVE  Onward
<1>1. root.next_segment_id \in Nat
  BY RootFacts
<1>2. root'.next_segment_id = root.next_segment_id + 1
  BY RootFacts, SegmentIds
<1> QED
  BY <1>1, <1>2 DEF Onward

\* No build has read a segment id the root has not reached.
LEMMA NotAhead ==
    ASSUME DocumentLifecycleAssumption, IInv
    PROVE  /\ (\/ job.kind \in {"seal", "compact"}
               \/ job.kind = "vacuum" /\ job.base # NoBuild) =>
                /\ job.base.root.next_segment_id \in Nat
                /\ job.base.root.next_segment_id <= root.next_segment_id
           /\ Accelerating =>
                /\ accel.base.root.next_segment_id \in Nat
                /\ accel.base.root.next_segment_id <= root.next_segment_id
<1>1. \A p \in {"maintenance", "accelerator"} :
        Builds[p] # NoBuild =>
          Builds[p].root.next_segment_id <= root.next_segment_id
  BY DEF IInv, Root!IInv, Root!BuildsCurrent
<1>2. Builds["maintenance"] = Maintenance /\ Builds["accelerator"] = accel.base
  BY DEF Builds
<1>3. ASSUME NEW b \in Build
      PROVE  b # NoBuild /\ b.root.next_segment_id \in Nat
  BY <1>3, BuildFields DEF ReadRoot
<1>4. ASSUME \/ job.kind \in {"seal", "compact"}
             \/ job.kind = "vacuum" /\ job.base # NoBuild
      PROVE  /\ job.base.root.next_segment_id \in Nat
             /\ job.base.root.next_segment_id <= root.next_segment_id
  <2>1. job.base \in Build
    BY <1>4 DEF IInv, JobSound, VacuumSound, Staged
  <2>2. Maintenance = job.base
    BY <1>4 DEF Maintenance
  <2> QED
    BY <1>1, <1>2, <1>3, <2>1, <2>2
<1>5. ASSUME Accelerating
      PROVE  /\ accel.base.root.next_segment_id \in Nat
             /\ accel.base.root.next_segment_id <= root.next_segment_id
  <2>1. accel.base \in Build
    BY <1>5 DEF IInv, AccelSound, Staged
  <2> QED
    BY <1>1, <1>2, <1>3, <2>1
<1> QED
  BY <1>4, <1>5

\* A staged manifest stays one that moves forward, or its publication will be
\* refused.
LEMMA StagedCarries ==
    ASSUME IInv, Onward, NEW CONSTANT base, NEW CONSTANT next,
           base.root.next_segment_id \in Nat,
           base.root.next_segment_id <= root.next_segment_id,
           StagedMoves(base, next)
    PROVE  StagedMoves(base, next)'
<1>1. DocsSound(next)
  BY DEF StagedMoves
<1>2. base.root.next_segment_id = root.next_segment_id => Moves(manifest, next)
  BY DEF StagedMoves
<1>3. root.next_segment_id \in Nat
  BY RootFacts
<1>4. CASE UNCHANGED manifest /\ root'.next_segment_id = root.next_segment_id
  <2>1. base.root.next_segment_id = root'.next_segment_id =>
          Moves(manifest, next)'
    BY <1>2, <1>4 DEF Moves, Slots
  <2> QED
    BY <1>1, <2>1 DEF StagedMoves
<1>5. CASE root'.next_segment_id > root.next_segment_id
  <2>1. base.root.next_segment_id # root'.next_segment_id
    BY <1>3, <1>5 DEF Onward
  <2> QED
    BY <1>1, <2>1 DEF StagedMoves
<1> QED
  BY <1>4, <1>5 DEF Onward

\* A job that is not touched, or is one that stages nothing.
LEMMA JobCarries ==
    ASSUME DocumentLifecycleAssumption, IInv, HInv, Onward,
           \/ UNCHANGED job
           \/ job'.kind \notin {"seal", "compact", "vacuum"}
    PROVE  JobMoves'
<1>1. CASE job'.kind \notin {"seal", "compact", "vacuum"}
  BY <1>1 DEF JobMoves
<1>2. CASE UNCHANGED job
  <2>1. PICK j : j = job
    OBVIOUS
  <2>2. job' = j
    BY <1>2, <2>1
  <2>3. ASSUME j.kind \in {"seal", "compact"} PROVE StagedMoves(j.base, j.next)'
    <3>1. StagedMoves(j.base, j.next)
      BY <2>1, <2>3 DEF HInv, JobMoves
    <3>2. /\ j.base.root.next_segment_id \in Nat
          /\ j.base.root.next_segment_id <= root.next_segment_id
      BY <2>1, <2>3, NotAhead
    <3> QED
      BY <3>1, <3>2, StagedCarries
  <2>4. ASSUME j.kind = "vacuum", j.base # NoBuild
        PROVE  StagedMoves(j.base, j.next)'
    <3>1. StagedMoves(j.base, j.next)
      BY <2>1, <2>4 DEF HInv, JobMoves, VacuumMoves
    <3>2. /\ j.base.root.next_segment_id \in Nat
          /\ j.base.root.next_segment_id <= root.next_segment_id
      BY <2>1, <2>4, NotAhead
    <3> QED
      BY <3>1, <3>2, StagedCarries
  <2>5. j.kind = "vacuum" => j.ret \in Nat /\ \A u \in j.upserts : u.sequence \in Nat
    BY <2>1 DEF HInv, JobMoves, VacuumMoves
  <2>6. j.kind = "vacuum" => VacuumMoves'
    BY <2>2, <2>4, <2>5 DEF VacuumMoves
  <2> QED
    BY <2>2, <2>3, <2>6 DEF JobMoves
<1> QED
  BY <1>1, <1>2

\* VACUUM goes on with what it has staged, or without it.
LEMMA VacuumCarries ==
    ASSUME DocumentLifecycleAssumption, IInv, HInv, Onward,
           job.kind = "vacuum", NEW CONSTANT k, job' = k, k.kind = "vacuum",
           k.ret \in Nat, k.upserts = job.upserts,
           k.base = NoBuild \/ (k.base = job.base /\ k.next = job.next)
    PROVE  JobMoves'
<1>1. VacuumMoves
  BY DEF HInv, JobMoves
<1>2. ASSUME k.base # NoBuild PROVE StagedMoves(k.base, k.next)'
  <2>1. StagedMoves(k.base, k.next)
    BY <1>1, <1>2 DEF VacuumMoves
  <2>2. /\ k.base.root.next_segment_id \in Nat
        /\ k.base.root.next_segment_id <= root.next_segment_id
    BY <1>2, NotAhead
  <2> QED
    BY <2>1, <2>2, StagedCarries
<1>3. \A u \in k.upserts : u.sequence \in Nat
  BY <1>1 DEF VacuumMoves
<1>4. VacuumMoves'
  BY <1>2, <1>3 DEF VacuumMoves
<1> QED
  BY <1>4 DEF JobMoves

LEMMA AccelCarries ==
    ASSUME DocumentLifecycleAssumption, IInv, HInv, Onward,
           UNCHANGED accel \/ accel' = NotAccelerating
    PROVE  AccelMoves'
<1>1. CASE accel' = NotAccelerating
  <2>1. accel'.base = NoBuild
    BY <1>1 DEF NotAccelerating
  <2> QED
    BY <2>1 DEF AccelMoves, Accelerating
<1>2. CASE UNCHANGED accel
  <2>1. PICK a : a = accel
    OBVIOUS
  <2>2. accel' = a
    BY <1>2, <2>1
  <2>3. ASSUME a.base # NoBuild PROVE StagedMoves(a.base, a.next)'
    <3>1. Accelerating
      BY <2>1, <2>3 DEF Accelerating
    <3>2. StagedMoves(a.base, a.next)
      BY <2>1, <3>1 DEF HInv, AccelMoves
    <3>3. /\ a.base.root.next_segment_id \in Nat
          /\ a.base.root.next_segment_id <= root.next_segment_id
      BY <2>1, <3>1, NotAhead
    <3> QED
      BY <3>2, <3>3, StagedCarries
  <2> QED
    BY <2>2, <2>3 DEF AccelMoves, Accelerating
<1> QED
  BY <1>1, <1>2

LEMMA DocsCarry ==
    ASSUME DocsSound(manifest), UNCHANGED manifest
    PROVE  DocsSound(manifest)'
  BY DEF DocsSound, Slots

\* What is published was staged from the present manifest.
LEMMA Published ==
    ASSUME IInv, NEW CONSTANT base, NEW CONSTANT next,
           StagedMoves(base, next), Matches(base), manifest' = next
    PROVE  DocsSound(manifest)' /\ Moves(manifest, manifest')
<1>1. base.root.next_segment_id = root.next_segment_id
  BY DEF Matches, PublishMatches
<1>2. DocsSound(next) /\ Moves(manifest, next)
  BY <1>1 DEF StagedMoves
<1> QED
  BY <1>2 DEF DocsSound, Moves, Slots

(***************************************************************************)
(* Every step                                                              *)
(***************************************************************************)
Forward == manifest' # manifest => Moves(manifest, manifest')

\* A step that stages nothing and publishes nothing.
LEMMA StagesNothing ==
    ASSUME DocumentLifecycleAssumption, IInv, HInv, Onward, UNCHANGED manifest,
           \/ UNCHANGED job
           \/ job'.kind \notin {"seal", "compact", "vacuum"},
           UNCHANGED accel \/ accel' = NotAccelerating
    PROVE  HInv' /\ Forward
  BY JobCarries, AccelCarries, DocsCarry DEF HInv, Forward

\* A step of VACUUM that publishes nothing.
LEMMA VacuumStages ==
    ASSUME DocumentLifecycleAssumption, IInv, HInv, Onward,
           UNCHANGED manifest, UNCHANGED accel, JobMoves'
    PROVE  HInv' /\ Forward
  BY AccelCarries, DocsCarry DEF HInv, Forward

LEMMA ForegroundForward ==
    ASSUME DocumentLifecycleAssumption, IInv, HInv,
           \/ Insert
           \/ \E x \in DOMAIN status : Commit(x) \/ Abort(x)
           \/ \E x \in rows : HeapDie(x)
           \/ Rotate \/ Crash \/ UNCHANGED vars
    PROVE  HInv' /\ Forward
<1>1. CASE Insert
  <2>1. PICK slot, source :
          /\ AppendRecord("UPSERT", slot, source, 1, "running")
          /\ UNCHANGED <<manifest, job, accel>>
    BY <1>1 DEF Insert
  <2>2. Onward
    BY <2>1, AppendGoesOn
  <2> QED
    BY <2>1, <2>2, StagesNothing
<1>2. CASE \E x \in DOMAIN status : Commit(x) \/ Abort(x)
  <2>1. PICK x : job' = ReleaseLock(x) /\ UNCHANGED <<root, manifest, accel>>
    BY <1>2 DEF Commit, Abort
  <2>2. \/ UNCHANGED job
        \/ job'.kind \notin {"seal", "compact", "vacuum"}
    BY <2>1 DEF ReleaseLock, NoJob
  <2> QED
    BY <2>1, <2>2, StaysOn, StagesNothing
<1>3. CASE \E x \in rows : HeapDie(x)
  <2>1. UNCHANGED <<root, manifest, job, accel>>
    BY <1>3 DEF HeapDie
  <2> QED
    BY <2>1, StaysOn, StagesNothing
<1>4. CASE Rotate
  <2>1. root' = RotateL0(root) /\ UNCHANGED <<manifest, job, accel>>
    BY <1>4 DEF Rotate
  <2>2. Onward
    BY <2>1, RootFacts, SegmentIds DEF Onward
  <2> QED
    BY <2>1, <2>2, StagesNothing
<1>5. CASE Crash
  <2>1. /\ job' = NoJob /\ accel' = NotAccelerating
        /\ UNCHANGED <<root, manifest>>
    BY <1>5 DEF Crash
  <2>2. job'.kind \notin {"seal", "compact", "vacuum"}
    BY <2>1 DEF NoJob
  <2> QED
    BY <2>1, <2>2, StaysOn, StagesNothing
<1>6. CASE UNCHANGED vars
  <2>1. UNCHANGED <<root, manifest, job, accel>>
    BY <1>6 DEF vars
  <2> QED
    BY <2>1, StaysOn, StagesNothing
<1> QED
  BY <1>1, <1>2, <1>3, <1>4, <1>5, <1>6

LEMMA EndJobForward ==
    ASSUME DocumentLifecycleAssumption, IInv, HInv, EndJob
    PROVE  HInv' /\ Forward
<1>1. job' = NoJob /\ UNCHANGED <<root, manifest, accel>>
  BY DEF EndJob
<1>2. job'.kind \notin {"seal", "compact", "vacuum"}
  BY <1>1 DEF NoJob
<1> QED
  BY <1>1, <1>2, StaysOn, StagesNothing

LEMMA SemanticForward ==
    ASSUME DocumentLifecycleAssumption, IInv, HInv,
           \/ \E s \in Slots(manifest), due \in BOOLEAN : SemanticCollect(s, due)
           \/ \E kind \in {"COMPLETE", "QUARANTINE"} : SemanticAppend(kind)
           \/ SemanticGiveUp
    PROVE  HInv' /\ Forward
<1>1. CASE \E s \in Slots(manifest), due \in BOOLEAN : SemanticCollect(s, due)
  <2>1. job'.kind = "semantic" /\ UNCHANGED <<root, manifest, accel>>
    BY <1>1 DEF SemanticCollect
  <2> QED
    BY <2>1, StaysOn, StagesNothing
<1>2. CASE \E kind \in {"COMPLETE", "QUARANTINE"} : SemanticAppend(kind)
  <2>1. PICK kind, slot, source, atoms :
          /\ AppendRecord(kind, slot, source, atoms, "running")
          /\ job'.kind = "commit" /\ UNCHANGED <<manifest, accel>>
    BY <1>2 DEF SemanticAppend
  <2>2. Onward
    BY <2>1, AppendGoesOn
  <2> QED
    BY <2>1, <2>2, StagesNothing
<1>3. CASE SemanticGiveUp
  BY <1>3, EndJobForward DEF SemanticGiveUp
<1> QED
  BY <1>1, <1>2, <1>3

\* The seal and the compaction stage a manifest, and publish it.
LEMMA StagedByJob ==
    ASSUME DocumentLifecycleAssumption, IInv, HInv,
           UNCHANGED <<root, manifest, accel>>,
           NEW kind \in {"seal", "compact"}, NEW base, NEW CONSTANT next,
           job' = [kind |-> kind, base |-> base, next |-> next],
           DocsSound(next), Moves(manifest, next)
    PROVE  HInv' /\ Forward
<1>1. job'.kind = kind /\ job'.base = base /\ job'.next = next
  OBVIOUS
<1>2. UNCHANGED manifest
  OBVIOUS
<1>3. Moves(manifest, next)'
  BY <1>2 DEF Moves, Slots
<1>4. StagedMoves(job.base, job.next)'
  BY <1>1, <1>3 DEF StagedMoves
<1>5. JobMoves'
  BY <1>1, <1>4 DEF JobMoves
<1> QED
  BY <1>2, <1>5, StaysOn, VacuumStages

LEMMA PublishedByJob ==
    ASSUME DocumentLifecycleAssumption, IInv, HInv,
           job.kind \in {"seal", "compact"}, Matches(job.base),
           manifest' = job.next, job' = NoJob, UNCHANGED accel,
           root' = SealPending(root) \/ root' = ReplaceManifest(root)
    PROVE  HInv' /\ Forward
<1>1. PICK base, next : base = job.base /\ next = job.next
  OBVIOUS
<1>2. StagedMoves(base, next)
  BY <1>1 DEF HInv, JobMoves
<1>3. DocsSound(manifest)' /\ Moves(manifest, manifest')
  BY <1>1, <1>2, Published
<1>4. Onward
  BY PublicationGoesOn
<1>5. job'.kind \notin {"seal", "compact", "vacuum"}
  BY DEF NoJob
<1>6. JobMoves' /\ AccelMoves'
  BY <1>4, <1>5, JobCarries, AccelCarries
<1> QED
  BY <1>3, <1>6 DEF HInv, Forward

LEMMA SealForward ==
    ASSUME DocumentLifecycleAssumption, IInv, HInv,
           SealBuild \/ SealPublish \/ SealGiveUp
    PROVE  HInv' /\ Forward
<1>1. CASE SealBuild
  <2>1. PICK base, next : base = Base(TRUE, FALSE) /\ next = SealedManifest
    OBVIOUS
  <2>2. /\ job' = [kind |-> "seal", base |-> base, next |-> next]
        /\ SealAccepted /\ UNCHANGED <<root, manifest, accel>>
    BY <1>1, <2>1 DEF SealBuild
  <2>3. DocsSound(next) /\ Moves(manifest, next)
    BY <2>1, <2>2, SealMoves DEF HInv
  <2> QED
    BY <2>2, <2>3, StagedByJob
<1>2. CASE SealPublish
  <2>1. /\ job.kind = "seal" /\ Matches(job.base)
        /\ root' = SealPending(root) /\ manifest' = job.next
        /\ job' = NoJob /\ UNCHANGED accel
    BY <1>2 DEF SealPublish
  <2> QED
    BY <2>1, PublishedByJob
<1>3. CASE SealGiveUp
  BY <1>3, EndJobForward DEF SealGiveUp
<1> QED
  BY <1>1, <1>2, <1>3

LEMMA CompactForward ==
    ASSUME DocumentLifecycleAssumption, IInv, HInv,
           \/ \E i, j \in DOMAIN manifest.segs : i < j /\ CompactBuild(i, j)
           \/ CompactPublish
           \/ CompactGiveUp
    PROVE  HInv' /\ Forward
<1>1. CASE \E i, j \in DOMAIN manifest.segs : i < j /\ CompactBuild(i, j)
  <2>1. PICK i, j : CompactBuild(i, j)
    BY <1>1
  <2>2. PICK base, next :
          base = Base(FALSE, FALSE) /\ next = CompactedManifest(i, j)
    OBVIOUS
  <2>3. /\ job' = [kind |-> "compact", base |-> base, next |-> next]
        /\ UNCHANGED <<root, manifest, accel>>
    BY <2>1, <2>2 DEF CompactBuild
  <2>4. DocsSound(next) /\ Moves(manifest, next)
    BY <2>2, CompactMoves DEF HInv
  <2> QED
    BY <2>3, <2>4, StagedByJob
<1>2. CASE CompactPublish
  <2>1. /\ job.kind = "compact" /\ Matches(job.base)
        /\ root' = ReplaceManifest(root) /\ manifest' = job.next
        /\ job' = NoJob /\ UNCHANGED accel
    BY <1>2 DEF CompactPublish, Replace
  <2> QED
    BY <2>1, PublishedByJob
<1>3. CASE CompactGiveUp
  BY <1>3, EndJobForward DEF CompactGiveUp
<1> QED
  BY <1>1, <1>2, <1>3

LEMMA AcceleratorForward ==
    ASSUME DocumentLifecycleAssumption, IInv, HInv,
           AcceleratorBegin \/ AcceleratorPublish \/ AcceleratorGiveUp
    PROVE  HInv' /\ Forward
<1>1. CASE AcceleratorBegin
  <2>1. PICK base, next : base = Base(FALSE, FALSE) /\ next = manifest
    OBVIOUS
  <2>2. /\ accel' = [base |-> base, next |-> next]
        /\ UNCHANGED <<root, manifest, job>>
    BY <1>1, <2>1 DEF AcceleratorBegin
  <2>3. accel'.base = base /\ accel'.next = next
    BY <2>2
  <2>4. DocsSound(next) /\ Moves(manifest, next)
    BY <2>1, DocStays DEF HInv, DocsSound, Moves
  <2>5. Moves(manifest, next)'
    BY <2>2, <2>4 DEF Moves, Slots
  <2>6. AccelMoves'
    BY <2>3, <2>4, <2>5 DEF AccelMoves, StagedMoves
  <2>7. Onward
    BY <2>2, StaysOn
  <2>8. JobMoves' /\ DocsSound(manifest)'
    BY <2>2, <2>7, JobCarries, DocsCarry DEF HInv
  <2> QED
    BY <2>2, <2>6, <2>8 DEF HInv, Forward
<1>2. CASE AcceleratorPublish
  <2>1. PICK base, next : base = accel.base /\ next = accel.next
    OBVIOUS
  <2>2. /\ Accelerating /\ Matches(base)
        /\ root' = ReplaceManifest(root) /\ manifest' = next
        /\ accel' = NotAccelerating /\ UNCHANGED job
    BY <1>2, <2>1 DEF AcceleratorPublish, Replace
  <2>3. StagedMoves(base, next)
    BY <2>1, <2>2 DEF HInv, AccelMoves
  <2>4. DocsSound(manifest)' /\ Moves(manifest, manifest')
    BY <2>2, <2>3, Published
  <2>5. Onward
    BY <2>2, PublicationGoesOn
  <2>6. JobMoves' /\ AccelMoves'
    BY <2>2, <2>5, JobCarries, AccelCarries
  <2> QED
    BY <2>4, <2>6 DEF HInv, Forward
<1>3. CASE AcceleratorGiveUp
  <2>1. accel' = NotAccelerating /\ UNCHANGED <<root, manifest, job>>
    BY <1>3 DEF AcceleratorGiveUp
  <2> QED
    BY <2>1, StaysOn, StagesNothing
<1> QED
  BY <1>1, <1>2, <1>3

LEMMA VacuumForward ==
    ASSUME DocumentLifecycleAssumption, IInv, HInv,
           \/ \E pass \in SUBSET dead : VacuumBegin(pass)
           \/ VacuumReserve \/ VacuumBuild \/ VacuumPublish
    PROVE  HInv' /\ Forward
<1>1. CASE \E pass \in SUBSET dead : VacuumBegin(pass)
  <2>1. PICK pass : VacuumBegin(pass)
    BY <1>1
  <2>2. PICK cands, upserts :
          cands = Candidates(pass) /\ upserts = UpsertFates(pass)
    OBVIOUS
  <2>3. /\ job' = [kind |-> "vacuum", phase |-> "docs", dead |-> pass,
                   cands |-> cands, upserts |-> upserts,
                   ret |-> 0, base |-> NoBuild, next |-> NoBuild]
        /\ UNCHANGED <<root, manifest, accel>>
    BY <2>1, <2>2 DEF VacuumBegin
  <2>4. /\ job'.kind = "vacuum" /\ job'.base = NoBuild
        /\ job'.ret = 0 /\ job'.upserts = upserts
    BY <2>3
  <2>5. \A u \in upserts : u.sequence \in Nat
    <3>1. \A u \in upserts : \E r \in l0 : u.sequence = r.sequence
      BY <2>2 DEF UpsertFates, Upserts
    <3> QED
      BY <3>1, RootFacts
  <2>6. JobMoves'
    BY <2>4, <2>5 DEF JobMoves, VacuumMoves
  <2> QED
    BY <2>3, <2>6, StaysOn, VacuumStages
<1>2. CASE VacuumReserve
  <2>1. PICK slot, source :
          AppendRecord("RETIRE", slot, source, 0, "committed")
    BY <1>2 DEF VacuumReserve
  <2>2. /\ job.kind = "vacuum" /\ job' = [job EXCEPT !.ret = root.next_sequence]
        /\ UNCHANGED manifest /\ UNCHANGED accel
    BY <1>2 DEF VacuumReserve
  <2>3. PICK j : j = job
    OBVIOUS
  <2>4. PICK k : k = [j EXCEPT !.ret = root.next_sequence]
    OBVIOUS
  <2>5. DOMAIN j = VacuumFields
    BY <2>2, <2>3 DEF IInv, JobSound, VacuumSound
  <2>6. /\ k.kind = j.kind /\ k.ret = root.next_sequence
        /\ k.upserts = j.upserts /\ k.base = j.base /\ k.next = j.next
    BY <2>4, <2>5 DEF VacuumFields
  <2>7. k.ret \in Nat
    BY <2>6, RootFacts
  <2>8. job' = k
    BY <2>2, <2>3, <2>4
  <2>9. Onward
    BY <2>1, <2>2, AppendGoesOn
  <2>10. JobMoves'
    BY <2>2, <2>3, <2>6, <2>7, <2>8, <2>9, VacuumCarries
  <2> QED
    BY <2>2, <2>9, <2>10, VacuumStages
<1>3. CASE VacuumBuild
  <2>1. PICK b : b = Base(FALSE, TRUE)
    OBVIOUS
  <2>2. PICK m : m = [docs |-> [s \in 0 .. PatchedSlotCount - 1 |-> Patched(s)],
                      segs |-> manifest.segs,
                      visible |-> manifest.visible - Cardinality(RetiredInPlace)]
    OBVIOUS
  <2>3. /\ job.kind = "vacuum" /\ job' = [job EXCEPT !.base = b, !.next = m]
        /\ PatchAccepted /\ UNCHANGED <<root, manifest, accel>>
    BY <1>3, <2>1, <2>2 DEF VacuumBuild
  <2>4. VacuumSound /\ VacuumMoves
    BY <2>3 DEF IInv, JobSound, HInv, JobMoves
  <2>5. m.docs = [s \in 0 .. PatchedSlotCount - 1 |-> Patched(s)]
    BY <2>2
  <2>6. DocsSound(m) /\ Moves(manifest, m)
    BY <2>3, <2>4, <2>5, PatchMoves DEF HInv
  <2>7. PICK j : j = job
    OBVIOUS
  <2>8. PICK k : k = [j EXCEPT !.base = b, !.next = m]
    OBVIOUS
  <2>9. /\ k.kind = j.kind /\ k.ret = j.ret /\ k.upserts = j.upserts
        /\ k.base = b /\ k.next = m
    BY <2>4, <2>7, <2>8 DEF VacuumSound, VacuumFields
  <2>10. job' = k
    BY <2>3, <2>7, <2>8
  <2>11. Moves(manifest, m)'
    BY <2>3, <2>6 DEF Moves, Slots
  <2>12. StagedMoves(b, m)'
    BY <2>6, <2>11 DEF StagedMoves
  <2>13. k.ret \in Nat /\ \A u \in k.upserts : u.sequence \in Nat
    BY <2>4, <2>7, <2>9 DEF VacuumMoves
  <2>14. VacuumMoves'
    BY <2>9, <2>10, <2>12, <2>13 DEF VacuumMoves
  <2>15. JobMoves'
    BY <2>3, <2>7, <2>9, <2>10, <2>14 DEF JobMoves
  <2> QED
    BY <2>3, <2>15, StaysOn, VacuumStages
<1>4. CASE VacuumPublish
  <2>1. PICK phase : phase = NextPhase(job.phase)
    OBVIOUS
  <2>2. PICK base, next : base = job.base /\ next = job.next
    OBVIOUS
  <2>3. /\ job.kind = "vacuum" /\ base # NoBuild /\ Matches(base)
        /\ root' = ReplaceManifest(root) /\ manifest' = next
        /\ job' = [job EXCEPT !.phase = phase, !.base = NoBuild, !.next = NoBuild]
        /\ UNCHANGED accel
    BY <1>4, <2>1, <2>2 DEF VacuumPublish, Replace
  <2>4. VacuumSound /\ VacuumMoves
    BY <2>3 DEF IInv, JobSound, HInv, JobMoves
  <2>5. DocsSound(manifest)' /\ Moves(manifest, manifest')
    <3>1. StagedMoves(base, next)
      BY <2>2, <2>3, <2>4 DEF VacuumMoves
    <3> QED
      BY <2>3, <3>1, Published
  <2>6. Onward
    BY <2>3, PublicationGoesOn
  <2>7. PICK j : j = job
    OBVIOUS
  <2>8. PICK k : k = [j EXCEPT !.phase = phase, !.base = NoBuild, !.next = NoBuild]
    OBVIOUS
  <2>9. /\ k.kind = j.kind /\ k.ret = j.ret /\ k.upserts = j.upserts
        /\ k.base = NoBuild
    BY <2>4, <2>7, <2>8 DEF VacuumSound, VacuumFields
  <2>10. job' = k /\ k.ret \in Nat
    BY <2>3, <2>4, <2>7, <2>8, <2>9 DEF VacuumMoves
  <2>11. JobMoves'
    BY <2>3, <2>6, <2>7, <2>9, <2>10, VacuumCarries
  <2>12. AccelMoves'
    BY <2>3, <2>6, AccelCarries
  <2> QED
    BY <2>5, <2>11, <2>12 DEF HInv, Forward
<1> QED
  BY <1>1, <1>2, <1>3, <1>4

LEMMA VacuumOthersForward ==
    ASSUME DocumentLifecycleAssumption, IInv, HInv,
           \/ VacuumFenceBusy \/ VacuumSkip \/ VacuumEnd \/ VacuumFail
           \/ \E pass \in SUBSET dead : VacuumNextPass(pass)
    PROVE  HInv' /\ Forward
<1>1. ASSUME job.kind = "vacuum", UNCHANGED <<root, manifest, accel>>,
             NEW CONSTANT k, job' = k, k.kind = job.kind, k.ret = job.ret,
             k.upserts = job.upserts,
             k.base = NoBuild \/ (k.base = job.base /\ k.next = job.next)
      PROVE  HInv' /\ Forward
  <2>1. k.ret \in Nat
    BY <1>1 DEF HInv, JobMoves, VacuumMoves
  <2>2. Onward
    BY <1>1, StaysOn
  <2>3. JobMoves'
    BY <1>1, <2>1, <2>2, VacuumCarries
  <2> QED
    BY <1>1, <2>2, <2>3, VacuumStages
<1>2. PICK j : j = job
  OBVIOUS
<1>3. job.kind = "vacuum" => DOMAIN j = VacuumFields
  BY <1>2 DEF IInv, JobSound, VacuumSound
<1>4. CASE VacuumFenceBusy
  <2>1. PICK phase : phase = NextPhase(job.phase)
    OBVIOUS
  <2>2. PICK k : k = [j EXCEPT !.phase = phase, !.base = NoBuild, !.next = NoBuild]
    OBVIOUS
  <2>3. job.kind = "vacuum" /\ job' = k /\ UNCHANGED <<root, manifest, accel>>
    BY <1>2, <1>4, <2>1, <2>2 DEF VacuumFenceBusy
  <2>4. /\ k.kind = j.kind /\ k.ret = j.ret /\ k.upserts = j.upserts
        /\ k.base = NoBuild
    BY <1>3, <2>2, <2>3 DEF VacuumFields
  <2> QED
    BY <1>1, <1>2, <2>3, <2>4
<1>5. CASE VacuumSkip
  <2>1. PICK phase : phase = NextPhase(job.phase)
    OBVIOUS
  <2>2. PICK k : k = [j EXCEPT !.phase = phase]
    OBVIOUS
  <2>3. job.kind = "vacuum" /\ job' = k /\ UNCHANGED <<root, manifest, accel>>
    BY <1>2, <1>5, <2>1, <2>2 DEF VacuumSkip
  <2>4. /\ k.kind = j.kind /\ k.ret = j.ret /\ k.upserts = j.upserts
        /\ k.base = j.base /\ k.next = j.next
    BY <1>3, <2>2, <2>3 DEF VacuumFields
  <2> QED
    BY <1>1, <1>2, <2>3, <2>4
<1>6. CASE VacuumEnd
  <2>1. job' = NoJob /\ UNCHANGED <<root, manifest, accel>>
    BY <1>6 DEF VacuumEnd
  <2>2. job'.kind \notin {"seal", "compact", "vacuum"}
    BY <2>1 DEF NoJob
  <2> QED
    BY <2>1, <2>2, StaysOn, StagesNothing
<1>7. CASE VacuumFail
  BY <1>7, EndJobForward DEF VacuumFail
<1>8. CASE \E pass \in SUBSET dead : VacuumNextPass(pass)
  <2>1. PICK pass : VacuumNextPass(pass)
    BY <1>8
  <2>2. PICK k : k = [j EXCEPT !.dead = pass]
    OBVIOUS
  <2>3. job.kind = "vacuum" /\ job' = k /\ UNCHANGED <<root, manifest, accel>>
    BY <1>2, <2>1, <2>2 DEF VacuumNextPass
  <2>4. /\ k.kind = j.kind /\ k.ret = j.ret /\ k.upserts = j.upserts
        /\ k.base = j.base /\ k.next = j.next
    BY <1>3, <2>2, <2>3 DEF VacuumFields
  <2> QED
    BY <1>1, <1>2, <2>3, <2>4
<1> QED
  BY <1>4, <1>5, <1>6, <1>7, <1>8

LEMMA HistoryStep ==
    ASSUME DocumentLifecycleAssumption, IInv, HInv, [Next]_vars
    PROVE  HInv' /\ Forward
  BY ForegroundForward, SealForward, SemanticForward, CompactForward,
     VacuumForward, VacuumOthersForward, AcceleratorForward DEF Next

LEMMA HistoryBegins == Init => HInv
<1> SUFFICES ASSUME Init PROVE HInv
  OBVIOUS
<1>1. Slots(manifest) = {}
  <2>1. DOMAIN << >> = {}
    OBVIOUS
  <2> QED
    BY <2>1 DEF Init, Slots
<1>2. job.kind = "none" /\ accel.base = NoBuild
  BY DEF Init, NoJob, NotAccelerating
<1> QED
  BY <1>1, <1>2 DEF HInv, DocsSound, JobMoves, AccelMoves, Accelerating

\* Two manifests may be under construction at once, by a job and by the
\* accelerator build, while appends and rotations move the root.  Whatever
\* their order, no publication takes a slot back: no slot disappears, the latest
\* sequence of its record never decreases, a retired incarnation stays retired.
THEOREM SlotHistoryStaysOrdered ==
    ASSUME DocumentLifecycleAssumption
    PROVE  Spec => SlotHistoryMovesForward
<1>1. Init => IInv /\ HInv
  BY InitImplements, HistoryBegins
<1>2. IInv /\ HInv /\ [Next]_vars => (IInv /\ HInv)'
  BY StepInv, HistoryStep
<1>3. IInv /\ HInv /\ [Next]_vars =>
        [manifest' # manifest =>
           \A s \in Slots(manifest) :
             LET old == manifest.docs[s]
                 new == manifest'.docs[s]
             IN /\ s \in Slots(manifest')
                /\ LastSequence(new) >= LastSequence(old)
                /\ IsRetired(old) /\ new.born = old.born =>
                     new.retired = old.retired]_vars
  BY HistoryStep DEF Forward, Moves, DocMoves
<1> QED
  BY <1>1, <1>2, <1>3, PTL DEF Spec, SlotHistoryMovesForward
=============================================================================
