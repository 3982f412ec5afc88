------------------------- MODULE DocumentLifecycle -------------------------
(***************************************************************************)
(* One evoke index from its creation on an empty table: rows inserted,     *)
(* committed, rolled back and deleted; the active L0 rotated and sealed    *)
(* into segments; semantic completion and quarantine; segment compaction   *)
(* and slot reuse; VACUUM; the accelerator build; crashes.                 *)
(*                                                                         *)
(* Every upsert and every semantic record has a transaction of its own,    *)
(* named by the record's sequence.  A row is named by the sequence of its  *)
(* upsert.  VACUUM's records carry the frozen xid.                         *)
(*                                                                         *)
(* One background job at a time holds the maintenance lock (job); the      *)
(* accelerator build gives it up (accel).  A job that builds a manifest    *)
(* keeps what it read (base) and what it built (next).                     *)
(***************************************************************************)
EXTENDS SegmentRoot, DocumentRecord, FiniteSets, Sequences

CONSTANTS
    MaxSegments,    \* EVOKE_SEGMENT_MANIFEST_MAX_SEGMENTS
    NoBuild,        \* no manifest build in progress
    Workload        \* what happens to the index in this instance

\* "semantic": the index has an SAE contract.  The last five are the
\* circumstances under which known weaknesses of the code show:
\*   interrupt    VACUUM ends between its reservation and its publication
\*   fenceBusy    a reader holds the fence a publication needs
\*   multiPass    VACUUM needs more than one index pass
\*   compactEarly compaction frees slots whose RETIRE is still in L0
\*   retryEarly   a quarantine deadline passes while its record is in L0
Activities ==
    {"semantic", "accelerator", "compaction", "vacuum", "crash",
     "interrupt", "fenceBusy", "multiPass", "compactEarly", "retryEarly"}

\* What a job read before it built a manifest.
Build == [root : ReadRoot, slotCount : Nat,
          records : SUBSET [kind : Kinds, slot : Nat, sequence : Nat],
          seal : BOOLEAN, exact : BOOLEAN]

DocumentLifecycleAssumption ==
    /\ Workload \subseteq Activities
    /\ MaxSegments \in Nat \ {0, 1}
    /\ NoBuild \notin Build

VARIABLES
    root,       \* the read root on the metapage
    manifest,   \* [docs, segs, visible] of the root's manifest
    l0,         \* the records of the active and the pending chain
    status,     \* sequence -> outcome of the record's transaction
    rows,       \* rows some snapshot may still see, or not yet decided
    dead,       \* committed rows proved dead to all and not yet freed
    job,        \* the holder of the maintenance lock
    accel,      \* the accelerator build
    high,       \* history: next_document_slot at the latest rotation
    parent      \* history: manifest the root's manifest was built from

vars == <<root, manifest, l0, status, rows, dead, job, accel, high, parent>>

NoJob == [kind |-> "none"]
NotAccelerating == [base |-> NoBuild, next |-> NoBuild]
Accelerating == accel.base # NoBuild

Init ==
    /\ root = InitialRoot(0)
    /\ manifest = [docs |-> << >>, segs |-> << >>, visible |-> 0]
    /\ l0 = {}
    /\ status = << >>
    /\ rows = {}
    /\ dead = {}
    /\ job = NoJob
    /\ accel = NotAccelerating
    /\ high = 0
    /\ parent = 0

Slots(m) == DOMAIN m.docs
SlotCount(m) == Cardinality(DOMAIN m.docs)

PendingRecords == {r \in l0 : r.sequence \in Sequences(root.pending_l0)}
Upserts(records) == {r \in records : r.kind = "UPSERT"}
Retires(records) == {r \in records : r.kind = "RETIRE"}
Semantics(records) == {r \in records : r.kind \in {"COMPLETE", "QUARANTINE"}}

Committed(r) == status[r.sequence] = "committed"
Running == {q \in DOMAIN status : status[q] = "running"}

(***************************************************************************)
(* Appending to the active L0                                              *)
(***************************************************************************)
\* source is the incarnation the record is meant for, atoms the number of its
\* postings; both ride along unseen by the code's control flow.
AppendRecord(kind, slot, source, atoms, outcome) ==
    LET base == AppendBase(root)
        seq  == root.next_sequence
    IN /\ CanAppend(root)
       /\ root' = AdvanceRoot(base, kind, slot)
       /\ l0' = l0 \cup {[kind |-> kind, slot |-> slot, sequence |-> seq,
                          source |-> source, atoms |-> atoms]}
       /\ status' = Append(status, outcome)
       /\ high' = IF base = root THEN high ELSE root.next_document_slot

ReusableSlots(cursor) ==
    {s \in Slots(manifest) : s >= cursor /\ IsReusable(manifest.docs[s])}

\* The first reusable slot at or after the cursor, else a fresh one.
ChooseUpsertSlot ==
    IF root.cursor < SlotCount(manifest) /\ ReusableSlots(root.cursor) # {}
    THEN CHOOSE s \in ReusableSlots(root.cursor) :
           \A t \in ReusableSlots(root.cursor) : s <= t
    ELSE root.next_document_slot

\* VACUUM holds the writer barrier from its root read to its publication.
BarrierHeld == job.kind = "vacuum" /\ job.base # NoBuild

Insert ==
    LET slot == ChooseUpsertSlot
    IN /\ ~BarrierHeld
       /\ slot = root.next_document_slot => slot < MaxSlot
       /\ AppendRecord("UPSERT", slot, root.next_sequence, 1, "running")
       /\ rows' = rows \cup {root.next_sequence}
       /\ UNCHANGED <<manifest, dead, job, accel, parent>>

(***************************************************************************)
(* Transactions and the heap                                               *)
(***************************************************************************)

\* The end of a transaction releases the maintenance lock it holds.
ReleaseLock(x) == IF job = [kind |-> "commit", xid |-> x] THEN NoJob ELSE job

Commit(x) ==
    /\ x \in Running
    /\ status' = [status EXCEPT ![x] = "committed"]
    /\ job' = ReleaseLock(x)
    /\ UNCHANGED <<root, manifest, l0, rows, dead, accel, high, parent>>

Abort(x) ==
    /\ x \in Running
    /\ status' = [status EXCEPT ![x] = "aborted"]
    /\ rows' = rows \ {x}
    /\ job' = ReleaseLock(x)
    /\ UNCHANGED <<root, manifest, l0, dead, accel, high, parent>>

\* A committed row is deleted and no snapshot sees it any more.
HeapDie(x) ==
    /\ x \in rows
    /\ status[x] = "committed"
    /\ rows' = rows \ {x}
    /\ dead' = dead \cup {x}
    /\ UNCHANGED <<root, manifest, l0, status, job, accel, high, parent>>

(***************************************************************************)
(* Publishing a manifest                                                   *)
(***************************************************************************)
\* The records of some chain without the fields that only ride along.
Bare(records) ==
    {[kind |-> r.kind, slot |-> r.slot, sequence |-> r.sequence] :
       r \in records}

Base(seal, exact) ==
    [root |-> root, slotCount |-> SlotCount(manifest),
     records |-> Bare(PendingRecords), seal |-> seal, exact |-> exact]

\* Mutant: only the pending chain of a seal is compared.
MatchesPending(b) == b.seal => root.pending_l0 = b.root.pending_l0

Matches(b) == PublishMatches(root, b.root, b.seal, b.exact)

Replace(b, next) ==
    /\ Matches(b)
    /\ CanReplaceManifest(root)
    /\ root' = ReplaceManifest(root)
    /\ manifest' = next
    /\ parent' = b.root.root_id

\* A publication may be given up when its reader fence is busy; it must be
\* when the root moved.
MayGiveUp(b) == ~Matches(b) \/ "fenceBusy" \in Workload

EndJob ==
    /\ job' = NoJob
    /\ UNCHANGED <<root, manifest, l0, status, rows, dead, accel, high, parent>>

(***************************************************************************)
(* Rotation and sealing                                                    *)
(***************************************************************************)

\* How the L0 classifies a document: an L0 semantic record that is neither
\* rolled back nor older than the document's record covers it.
Covering(slot, d) ==
    {r \in Semantics(l0) : /\ r.slot = slot
                           /\ r.sequence > LastSequence(d)
                           /\ status[r.sequence] # "aborted"}

RetryableNow(records) ==
    LET latest == CHOOSE r \in records :
                    \A q \in records : q.sequence <= r.sequence
    IN /\ "retryEarly" \in Workload
       /\ latest.kind = "QUARANTINE"
       /\ Committed(latest)

\* Slots the semantic worker takes; retryDue: quarantine deadlines have passed.
Actionable(retryDue) ==
    {s \in Slots(manifest) :
       LET d == manifest.docs[s] IN
       /\ "semantic" \in Workload
       /\ IsActionable(d, retryDue)
       /\ Covering(s, d) # {} => retryDue /\ RetryableNow(Covering(s, d))}

\* The background rotation waits for the semantic work that is due.
Rotate ==
    /\ job = NoJob
    /\ CanRotate(root)
    /\ Actionable(FALSE) = {}
    /\ root' = RotateL0(root)
    /\ high' = root.next_document_slot
    /\ UNCHANGED <<manifest, l0, status, rows, dead, job, accel, parent>>

DocAt(s) == manifest.docs[s]
InManifest(r) == r.slot < SlotCount(manifest)

\* An upsert that VACUUM retired in the manifest while it was in L0.
PreRetired(r) ==
    /\ r.kind = "UPSERT" /\ Committed(r) /\ InManifest(r)
    /\ DocAt(r.slot).owned /\ ~IsPlaceholder(DocAt(r.slot))
    /\ DocAt(r.slot).born = r.sequence
    /\ DocAt(r.slot).retired > r.sequence

\* Mutant: every committed record counts as not yet reflected.
AppliedAlways(r) == Committed(r)

\* A committed record the manifest does not reflect yet.
Applied(r) ==
    /\ Committed(r)
    /\ InManifest(r) =>
         \/ PreRetired(r)
         \/ IsPlaceholder(DocAt(r.slot))
         \/ r.sequence > LastSequence(DocAt(r.slot))

\* What a seal takes from the pending records.
SealedRetires == {r \in Retires(PendingRecords) : Committed(r)}
SealedSemantics == {r \in Semantics(PendingRecords) : Applied(r)}
SealedLive == {r \in Upserts(PendingRecords) : Committed(r) /\ ~PreRetired(r)}
SealedEvents == Upserts(PendingRecords) \cup SealedRetires \cup SealedSemantics

TailSlots == {r.slot : r \in {q \in Upserts(PendingRecords) : ~InManifest(q)}}
NextSlotCount == SlotCount(manifest) + Cardinality(TailSlots)

\* Mutant: the seal forgets that VACUUM already retired an upsert in L0.
SealVersionBlank(d, u) == Version(u.sequence, ~Committed(u), FALSE)

\* The upsert's version: it takes over an L0-owned record and its retirement,
\* and otherwise starts the slot from a blank record.
SealVersion(d, u) ==
    LET version == Version(u.sequence, ~Committed(u), FALSE)
    IN IF d.owned
       THEN [d EXCEPT !.born = version.born, !.aborted = version.aborted,
                      !.owned = FALSE]
       ELSE version

AnyOf(records) == CHOOSE r \in records : TRUE
At(records, s) == {r \in records : r.slot = s}

SealDoc(s) ==
    LET old     == IF s < SlotCount(manifest) THEN DocAt(s) ELSE BlankDoc
        upsert  == At(Upserts(PendingRecords), s)
        retire  == At(SealedRetires, s)
        state   == At(SealedSemantics, s)
        version == IF upsert = {} THEN old ELSE SealVersion(old, AnyOf(upsert))
    IN [version EXCEPT
          !.retired  = IF retire = {} THEN @ ELSE AnyOf(retire).sequence,
          !.state    = IF state = {} THEN @ ELSE AnyOf(state).kind,
          !.stateSeq = IF state = {} THEN @ ELSE AnyOf(state).sequence,
          !.lexical  = @ + Cardinality(At(SealedLive, s)),
          !.semantic = @ + Cardinality({r \in state : r.atoms # 0}),
          !.event    = @ + Cardinality(At(SealedEvents, s))]

SealTouched == {r.slot : r \in SealedEvents}

OneEach(records) == \A q, r \in records : q.slot = r.slot => q = r

\* The errors of the seal: pending_seal_build, attach_semantic,
\* build_document_updates and the document patch.
SealAccepted ==
    /\ OneEach(Upserts(PendingRecords))
    /\ TailSlots = SlotCount(manifest) .. NextSlotCount - 1
    /\ \A r \in Semantics(PendingRecords) : InManifest(r)
    /\ \A r \in SealedRetires : r.slot < NextSlotCount
    /\ OneEach(SealedRetires)
    /\ OneEach(SealedSemantics)
    /\ manifest.visible + Cardinality(SealedLive)
         >= Cardinality({r \in SealedRetires : Applied(r)})
    /\ \A u \in Upserts(PendingRecords) :
         InManifest(u) /\ DocAt(u.slot).owned =>
           /\ DocAt(u.slot).born = u.sequence
           /\ Committed(u) \/ IsPlaceholder(DocAt(u.slot))
    /\ \A s \in SealTouched :
         /\ RecordValid(SealDoc(s))
         /\ s < SlotCount(manifest) => TransitionValid(DocAt(s), SealDoc(s))

Event(r) == [kind |-> r.kind, slot |-> r.slot, sequence |-> r.sequence,
             source |-> r.source]

SealedManifest ==
    [docs |-> [s \in 0 .. NextSlotCount - 1 |->
                 IF s \in SealTouched THEN SealDoc(s) ELSE DocAt(s)],
     segs |-> Append(manifest.segs,
                [events   |-> {Event(r) : r \in SealedEvents},
                 lexical  |-> {r.slot : r \in SealedLive},
                 semantic |-> {r.slot : r \in {q \in SealedSemantics :
                                                 q.atoms # 0}}]),
     visible |-> manifest.visible + Cardinality(SealedLive)
                   - Cardinality({r \in SealedRetires : Applied(r)})]

PendingResolved == \A r \in PendingRecords : r.sequence \notin Running

RoomForSegment == Len(manifest.segs) < MaxSegments

\* An accelerator build defers the seal and what makes room for it, unless both
\* frontiers fill.
SealDeferred == Accelerating /\ root.active_l0.record_count = 0

SealBuild ==
    /\ job = NoJob
    /\ ~Absent(root.pending_l0)
    /\ ~SealDeferred
    /\ RoomForSegment
    /\ PendingResolved
    /\ SealAccepted
    /\ job' = [kind |-> "seal", base |-> Base(TRUE, FALSE),
               next |-> SealedManifest]
    /\ UNCHANGED <<root, manifest, l0, status, rows, dead, accel, high, parent>>

SealPublish ==
    /\ job.kind = "seal"
    /\ Matches(job.base)
    /\ CanSealPending(root)
    /\ root' = SealPending(root)
    /\ manifest' = job.next
    /\ l0' = l0 \ PendingRecords
    /\ parent' = job.base.root.root_id
    /\ job' = NoJob
    /\ UNCHANGED <<status, rows, dead, accel, high>>

SealGiveUp == job.kind = "seal" /\ MayGiveUp(job.base) /\ EndJob

(***************************************************************************)
(* Semantic completion: one document per batch                             *)
(***************************************************************************)
SemanticCollect(s, retryDue) ==
    /\ job = NoJob
    /\ Absent(root.pending_l0) \/ (Accelerating /\ ~WantsRotation(root))
    /\ s \in Actionable(retryDue)
    /\ job' = [kind |-> "semantic", slot |-> s, source |-> DocAt(s)]
    /\ UNCHANGED <<root, manifest, l0, status, rows, dead, accel, high, parent>>

\* The outcome of the inference is appended if the document's record is still
\* the one collected; a row that is gone gets an empty completion.
SourceMatches(slot, source) ==
    slot < SlotCount(manifest) /\ DocAt(slot) = source

SemanticAppend(kind) ==
    LET alive == job.source.born \in rows IN
    /\ job.kind = "semantic"
    /\ kind = "QUARANTINE" => alive
    /\ SourceMatches(job.slot, job.source)
    /\ AppendRecord(kind, job.slot, job.source.born,
                    IF kind = "COMPLETE" /\ alive THEN 1 ELSE 0, "running")
    /\ job' = [kind |-> "commit", xid |-> root.next_sequence]
    /\ UNCHANGED <<manifest, rows, dead, accel, parent>>

\* The source changed, the append failed or the encoder is unavailable.
SemanticGiveUp == job.kind = "semantic" /\ EndJob

(***************************************************************************)
(* Segment compaction                                                      *)
(***************************************************************************)
EventsOf(segs) == UNION {segs[i].events : i \in DOMAIN segs}

\* The slots of the merged segments whose documents are retired: the merge
\* drops their events and postings.
Excluded(segs) ==
    {s \in Slots(manifest) :
       /\ IsRetired(DocAt(s))
       /\ \E e \in EventsOf(segs) : e.slot = s /\ e.kind # "RETIRE"}

\* Of several semantic states of a slot the merge keeps the latest.
Superseded(e, events) ==
    \E f \in events : /\ {e.kind, f.kind} \subseteq {"COMPLETE", "QUARANTINE"}
                      /\ f.slot = e.slot
                      /\ f.sequence > e.sequence

Merged(segs) ==
    LET out    == Excluded(segs)
        events == {e \in EventsOf(segs) : e.slot \notin out}
    IN [events   |-> {e \in events : ~Superseded(e, events)},
        lexical  |-> UNION {segs[i].lexical : i \in DOMAIN segs} \ out,
        semantic |-> UNION {segs[i].semantic : i \in DOMAIN segs} \ out]

MergeAccepted(segs) ==
    LET events == Merged(segs).events
    IN OneEach(Upserts(events)) /\ OneEach(Retires(events))

\* Residency of a slot in some segments: events, lexical, semantic postings.
EventResidency(segs, s) ==
    Cardinality(UNION {{<<i, e>> : e \in At(segs[i].events, s)} :
                         i \in DOMAIN segs})
LexicalResidency(segs, s) ==
    Cardinality({i \in DOMAIN segs : s \in segs[i].lexical})
SemanticResidency(segs, s) ==
    Cardinality({i \in DOMAIN segs : s \in segs[i].semantic})

\* Mutant: the record of a document that the merge drops is cleared.
CompactedDocCleared(d, s, old, new) ==
    IF s \in Excluded(old) THEN BlankDoc ELSE d

CompactedDoc(d, s, old, new) ==
    [d EXCEPT
       !.event = @ - EventResidency(old, s) + EventResidency(new, s),
       !.lexical = @ - LexicalResidency(old, s) + LexicalResidency(new, s),
       !.semantic = @ - SemanticResidency(old, s) + SemanticResidency(new, s)]

CompactedManifest(i, j) ==
    LET old == SubSeq(manifest.segs, i, j)
        new == <<Merged(old)>>
    IN [docs |-> [s \in Slots(manifest) |->
                    CompactedDoc(DocAt(s), s, old, new)],
        segs |-> SubSeq(manifest.segs, 1, i - 1) \o new
                   \o SubSeq(manifest.segs, j + 1, Len(manifest.segs)),
        visible |-> manifest.visible]

\* A slot that the merge would free although the retirement that freed it is
\* still on its way to a segment.
FreesUnsealedRetire(i, j) ==
    \E r \in Retires(l0) :
      /\ r.slot \in Slots(manifest)
      /\ IsReusable(CompactedManifest(i, j).docs[r.slot])

\* Background compaction runs when nothing is pending and no semantic work is
\* left, or to make room for a seal.
CompactBuild(i, j) ==
    /\ job = NoJob
    /\ \/ Absent(root.pending_l0) /\ ~Accelerating /\ Actionable(FALSE) = {}
       \/ ~Absent(root.pending_l0) /\ ~SealDeferred /\ ~RoomForSegment
    /\ MergeAccepted(SubSeq(manifest.segs, i, j))
    /\ "compactEarly" \notin Workload => ~FreesUnsealedRetire(i, j)
    /\ job' = [kind |-> "compact", base |-> Base(FALSE, FALSE),
               next |-> CompactedManifest(i, j)]
    /\ UNCHANGED <<root, manifest, l0, status, rows, dead, accel, high, parent>>

CompactPublish ==
    /\ job.kind = "compact"
    /\ Replace(job.base, job.next)
    /\ job' = NoJob
    /\ UNCHANGED <<l0, status, rows, dead, accel, high>>

CompactGiveUp == job.kind = "compact" /\ MayGiveUp(job.base) /\ EndJob

(***************************************************************************)
(* VACUUM: ambulkdelete with the dead rows of one heap pass                *)
(***************************************************************************)
\* Candidates among the documents, and the L0 upserts with their fate.
RetiredByL0 == {r.slot : r \in {q \in Retires(l0) : Committed(q)}}
Candidates(pass) ==
    {[slot |-> s, born |-> DocAt(s).born] :
       s \in {t \in Slots(manifest) \ RetiredByL0 :
               IsLive(DocAt(t)) /\ DocAt(t).born \in pass}}
UpsertFates(pass) ==
    {[slot |-> u.slot, sequence |-> u.sequence,
      dead |-> /\ Committed(u)
               /\ u.slot \notin RetiredByL0
               /\ u.sequence \in pass] : u \in Upserts(l0)}

VacuumBegin(pass) ==
    /\ job = NoJob
    /\ pass # {}
    /\ pass # dead => "multiPass" \in Workload
    /\ job' = [kind |-> "vacuum", phase |-> "docs", dead |-> pass,
               cands |-> Candidates(pass), upserts |-> UpsertFates(pass),
               ret |-> 0, base |-> NoBuild, next |-> NoBuild]
    /\ UNCHANGED <<root, manifest, l0, status, rows, dead, accel, high, parent>>

DeadUpserts == {u \in job.upserts : u.dead}

\* The slots a RETIRE may still name: same incarnation, not retired yet.
Reservable ==
    IF job.phase = "docs"
    THEN {[slot |-> c.slot, born |-> c.born] :
            c \in {d \in job.cands : /\ InManifest(d)
                                      /\ DocAt(d.slot).born = d.born
                                      /\ ~IsRetired(DocAt(d.slot))}}
    ELSE {[slot |-> u.slot, born |-> u.sequence] :
            u \in {v \in DeadUpserts :
                    InManifest(v) =>
                      \/ DocAt(v.slot).born < v.sequence
                      \/ /\ DocAt(v.slot).born = v.sequence
                         /\ ~IsRetired(DocAt(v.slot))}}

\* One RETIRE reserves the retirement sequence of the whole pass.
VacuumReserve ==
    /\ job.kind = "vacuum"
    /\ job.phase \in {"docs", "l0"}
    /\ job.ret = 0
    /\ \E c \in Reservable :
         /\ \A d \in Reservable : c.slot <= d.slot
         /\ AppendRecord("RETIRE", c.slot, c.born, 0, "committed")
    /\ job' = [job EXCEPT !.ret = root.next_sequence]
    /\ UNCHANGED <<manifest, rows, dead, accel, parent>>

OwnedRetired(u) == [Version(u.sequence, FALSE, TRUE) EXCEPT !.retired = job.ret]
\* Mutant: the placeholder of an upsert that is not dead looks live.
PlaceholderLive(u) == Version(u.sequence, FALSE, TRUE)

Placeholder(u) == Version(u.sequence, TRUE, TRUE)

DeadTail == {u.slot : u \in {v \in DeadUpserts : ~InManifest(v)}}
PatchedSlotCount ==
    IF job.phase = "docs" \/ DeadTail = {} THEN SlotCount(manifest)
    ELSE 1 + CHOOSE s \in DeadTail : \A t \in DeadTail : t <= s
TailRange == SlotCount(manifest) .. PatchedSlotCount - 1

\* Documents that VACUUM retires in place.
RetiredInPlace ==
    IF job.phase = "docs"
    THEN {c.slot : c \in Reservable}
    ELSE {u.slot : u \in {v \in DeadUpserts : /\ InManifest(v)
                                              /\ DocAt(v.slot).born = v.sequence
                                              /\ IsLive(DocAt(v.slot))}}

\* Dead L0 upserts whose manifest slot is a placeholder or still holds the
\* predecessor: they get an L0-owned retired record.
RetiredInL0 ==
    IF job.phase = "docs" THEN {}
    ELSE {u \in DeadUpserts :
            \/ ~InManifest(u)
            \/ DocAt(u.slot).born = u.sequence /\ DocAt(u.slot).aborted
            \/ /\ DocAt(u.slot).born # u.sequence
               /\ u.sequence > LastSequence(DocAt(u.slot))}

Patched(s) ==
    IF s \in RetiredInPlace THEN [DocAt(s) EXCEPT !.retired = job.ret]
    ELSE IF At(RetiredInL0, s) # {} THEN OwnedRetired(AnyOf(At(RetiredInL0, s)))
    ELSE IF s \in TailRange THEN Placeholder(AnyOf(At(job.upserts, s)))
    ELSE DocAt(s)

PatchedSlots ==
    RetiredInPlace \cup {u.slot : u \in RetiredInL0} \cup TailRange

PatchAccepted ==
    /\ OneEach(job.upserts)
    /\ \A s \in TailRange : At(job.upserts, s) # {}
    /\ \A u \in RetiredInL0 : job.ret > u.sequence
    /\ manifest.visible >= Cardinality(RetiredInPlace)
    /\ \A s \in PatchedSlots :
         /\ RecordValid(Patched(s))
         /\ s \in Slots(manifest) => TransitionValid(DocAt(s), Patched(s))

\* Under the writer barrier, so with no writer in flight.
VacuumBuild ==
    /\ job.kind = "vacuum"
    /\ job.phase \in {"docs", "l0"}
    /\ job.base = NoBuild
    /\ job.ret # 0
    /\ Running = {}
    /\ PatchedSlots # {}
    /\ PatchAccepted
    /\ job' = [job EXCEPT
                 !.base = Base(FALSE, TRUE),
                 !.next = [docs |-> [s \in 0 .. PatchedSlotCount - 1 |->
                                       Patched(s)],
                           segs |-> manifest.segs,
                           visible |-> manifest.visible
                                         - Cardinality(RetiredInPlace)]]
    /\ UNCHANGED <<root, manifest, l0, status, rows, dead, accel, high, parent>>

\* Mutant: VACUUM forgets the rows whose upserts are still in L0.
NextPhaseDone(phase) == "done"

NextPhase(phase) == IF phase = "docs" THEN "l0" ELSE "done"

VacuumPublish ==
    /\ job.kind = "vacuum"
    /\ job.base # NoBuild
    /\ Replace(job.base, job.next)
    /\ job' = [job EXCEPT !.phase = NextPhase(@), !.base = NoBuild,
                          !.next = NoBuild]
    /\ UNCHANGED <<l0, status, rows, dead, accel, high>>

\* The reader fence is busy: the staged patch is dropped and VACUUM goes on.
VacuumFenceBusy ==
    /\ "fenceBusy" \in Workload
    /\ job.kind = "vacuum"
    /\ job.base # NoBuild
    /\ job' = [job EXCEPT !.phase = NextPhase(@), !.base = NoBuild,
                          !.next = NoBuild]
    /\ UNCHANGED <<root, manifest, l0, status, rows, dead, accel, high, parent>>

\* Nothing to retire in this phase.
VacuumSkip ==
    /\ job.kind = "vacuum"
    /\ job.phase \in {"docs", "l0"}
    /\ job.base = NoBuild
    /\ IF job.ret = 0 THEN Reservable = {} ELSE Running = {} /\ PatchedSlots = {}
    /\ job' = [job EXCEPT !.phase = NextPhase(@)]
    /\ UNCHANGED <<root, manifest, l0, status, rows, dead, accel, high, parent>>

\* The heap frees the rows of the pass.
VacuumEnd ==
    /\ job.kind = "vacuum"
    /\ job.phase = "done"
    /\ dead' = dead \ job.dead
    /\ job' = NoJob
    /\ UNCHANGED <<root, manifest, l0, status, rows, accel, high, parent>>

\* A further index pass of the same VACUUM: delete_recorded is set, so the
\* index does nothing for it.
VacuumNextPass(pass) ==
    /\ "multiPass" \in Workload
    /\ job.kind = "vacuum"
    /\ job.phase = "done"
    /\ pass # {} /\ pass \cap job.dead = {}
    /\ dead' = dead \ job.dead
    /\ job' = [job EXCEPT !.dead = pass]
    /\ UNCHANGED <<root, manifest, l0, status, rows, accel, high, parent>>

\* ERROR, cancellation or a publication that raced: VACUUM frees nothing.
VacuumFail ==
    /\ job.kind = "vacuum"
    /\ job.phase # "done"
    /\ job.ret # 0 => "interrupt" \in Workload
    /\ EndJob

(***************************************************************************)
(* The accelerator build, and crashes                                      *)
(***************************************************************************)
AcceleratorBegin ==
    /\ job = NoJob
    /\ ~Accelerating
    /\ Absent(root.pending_l0)
    /\ accel' = [base |-> Base(FALSE, FALSE), next |-> manifest]
    /\ UNCHANGED <<root, manifest, l0, status, rows, dead, job, high, parent>>

\* An identity manifest that adds the accelerator directory.
AcceleratorPublish ==
    /\ Accelerating
    /\ Replace(accel.base, accel.next)
    /\ accel' = NotAccelerating
    /\ UNCHANGED <<l0, status, rows, dead, job, high>>

AcceleratorGiveUp ==
    /\ Accelerating
    /\ MayGiveUp(accel.base)
    /\ accel' = NotAccelerating
    /\ UNCHANGED <<root, manifest, l0, status, rows, dead, job, high, parent>>

\* The root, the manifest and the L0 are durable; jobs and locks are not.
Crash ==
    /\ "crash" \in Workload
    /\ job.kind = "vacuum" /\ job.ret # 0 => "interrupt" \in Workload
    /\ job # NoJob \/ Accelerating \/ Running # {}
    /\ status' = [q \in DOMAIN status |->
                    IF q \in Running THEN "aborted" ELSE status[q]]
    /\ rows' = rows \ Running
    /\ job' = NoJob
    /\ accel' = NotAccelerating
    /\ UNCHANGED <<root, manifest, l0, dead, high, parent>>

(***************************************************************************)
(* The specification                                                       *)
(***************************************************************************)
Next ==
    \/ Insert
    \/ \E x \in DOMAIN status : Commit(x) \/ Abort(x)
    \/ \E x \in rows : HeapDie(x)
    \/ Rotate
    \/ SealBuild \/ SealPublish \/ SealGiveUp
    \/ /\ "semantic" \in Workload
       /\ \/ \E s \in Slots(manifest), due \in BOOLEAN : SemanticCollect(s, due)
          \/ \E kind \in {"COMPLETE", "QUARANTINE"} : SemanticAppend(kind)
          \/ SemanticGiveUp
    \/ /\ "compaction" \in Workload
       /\ \/ \E i, j \in DOMAIN manifest.segs : i < j /\ CompactBuild(i, j)
          \/ CompactPublish
          \/ CompactGiveUp
    \/ /\ "vacuum" \in Workload
       /\ \/ \E pass \in SUBSET dead : VacuumBegin(pass)
          \/ VacuumReserve \/ VacuumBuild \/ VacuumPublish
          \/ VacuumFenceBusy \/ VacuumSkip \/ VacuumEnd \/ VacuumFail
          \/ \E pass \in SUBSET dead : VacuumNextPass(pass)
    \/ /\ "accelerator" \in Workload
       /\ AcceleratorBegin \/ AcceleratorPublish \/ AcceleratorGiveUp
    \/ Crash

Spec == Init /\ [][Next]_vars

(***************************************************************************)
(* What a query sees: the manifest overlaid with the committed L0          *)
(***************************************************************************)
Overlay(s) ==
    {r \in At(l0, s) :
       /\ r.kind \in {"UPSERT", "RETIRE"}
       /\ Committed(r)
       /\ InManifest(r) => \/ IsPlaceholder(DocAt(s))
                           \/ r.sequence > LastSequence(DocAt(s))}

ManifestLive(s) == s \in Slots(manifest) /\ IsLive(DocAt(s))

\* The row in slot s after the overlay records in front of sequence q, or 0.
RowBefore(s, q) ==
    LET before == {r \in Overlay(s) : r.sequence < q}
        latest == CHOOSE r \in before :
                    \A p \in before : p.sequence <= r.sequence
    IN IF before = {} THEN (IF ManifestLive(s) THEN DocAt(s).born ELSE 0)
       ELSE IF latest.kind = "UPSERT" THEN latest.sequence ELSE 0

HandedOut == 0 .. root.next_document_slot - 1
RowAt(s) == RowBefore(s, root.next_sequence)

(***************************************************************************)
(* Properties                                                              *)
(***************************************************************************)
TypeOK ==
    /\ root \in ReadRoot
    /\ \A s \in Slots(manifest) : DocAt(s) \in Doc
    /\ Slots(manifest) = 0 .. SlotCount(manifest) - 1
    /\ Len(manifest.segs) <= MaxSegments
    /\ manifest.visible \in Nat
    /\ \A r \in l0 : r.kind \in Kinds /\ r.slot \in HandedOut
    /\ DOMAIN status = 1 .. root.next_sequence - 1
    /\ rows \cup dead \subseteq DOMAIN status
    /\ job.kind \in {"none", "seal", "semantic", "commit", "compact", "vacuum"}

\* Once the transactions of the pending L0 are resolved, no check of the seal
\* rejects it: a pending L0 that cannot be sealed stays in front of every
\* later one and of all semantic, reclamation and compaction work.
PendingSealable ==
    job = NoJob /\ ~Absent(root.pending_l0) /\ PendingResolved => SealAccepted

\* The shape the L0 projection requires of the unsealed upserts: one per slot,
\* and above the manifest one for every slot handed out.
ProjectionShaped ==
    /\ OneEach(Upserts(l0))
    /\ {r.slot : r \in {u \in Upserts(l0) : ~InManifest(u)}} =
         SlotCount(manifest) .. root.next_document_slot - 1

\* No query over the current root ends in one of the L0 projection errors
\* (duplicate upsert, upsert slot, upsert, retirement target, tail range,
\* document high water).
QueryNeverErrors ==
    /\ ProjectionShaped
    /\ \A u \in Upserts(l0) : ~ManifestLive(u.slot)
    /\ \A s \in HandedOut : \A r \in Overlay(s) :
         r.kind = "UPSERT" <=> RowBefore(s, r.sequence) = 0

\* Every committed row that is not dead is found in exactly one document slot,
\* from its commit on and across rotation, seal, compaction, slot reuse,
\* VACUUM and crashes.
NoLostDocument ==
    LET found == [s \in HandedOut |-> RowAt(s)] IN
    \A x \in rows :
      status[x] = "committed" =>
        Cardinality({s \in HandedOut : found[s] = x}) = 1

\* A query returns committed rows only, and never a row that VACUUM has let
\* the heap free: its TID may belong to another row by then.
NoStaleResult ==
    \A x \in {RowAt(s) : s \in HandedOut} \ {0} :
      /\ x \in rows \cup dead
      /\ status[x] = "committed"

\* The visible document count of the manifest, which BM25 statistics come
\* from, is the number of its live documents: no retirement is counted twice
\* by VACUUM's patch and by the seal of its RETIRE.
StatisticsExact ==
    manifest.visible = Cardinality({s \in Slots(manifest) : ManifestLive(s)})

\* The residency counters, which decide slot reuse, equal what the segments
\* hold, and every event a segment holds for a slot is about the incarnation
\* the slot has now: reuse never exposes a predecessor's postings and no late
\* completion or retirement reaches a successor.
ResidencyExact ==
    \A s \in Slots(manifest) :
      /\ DocAt(s).event = EventResidency(manifest.segs, s)
      /\ DocAt(s).lexical = LexicalResidency(manifest.segs, s)
      /\ DocAt(s).semantic = SemanticResidency(manifest.segs, s)
      /\ \A e \in At(EventsOf(manifest.segs), s) : e.source = DocAt(s).born

\* The merge of adjacent segments never meets two versions or two retirements
\* of one slot, which it rejects as a format error.
AlwaysMergeable ==
    \A i, j \in DOMAIN manifest.segs :
      i < j => MergeAccepted(SubSeq(manifest.segs, i, j))

\* VACUUM's patch is never rejected by the document rules it runs under the
\* writer barrier.
PatchNeverRejected ==
    job.kind = "vacuum" /\ job.phase \in {"docs", "l0"} /\ job.ret # 0 =>
      PatchAccepted

\* No publication takes a slot back to an earlier point of its history: no slot
\* disappears, the latest sequence a document record reflects never decreases
\* and a retired incarnation never comes back to life.
SlotHistoryMovesForward ==
    [][manifest' # manifest =>
       \A s \in Slots(manifest) :
         LET old == manifest.docs[s]
             new == manifest'.docs[s]
         IN /\ s \in Slots(manifest')
            /\ LastSequence(new) >= LastSequence(old)
            /\ IsRetired(old) /\ new.born = old.born =>
                 new.retired = old.retired]_vars

\* The segment ids of the instance are used up.
IdsExhausted == root.next_segment_id = MaxSegmentId

(***************************************************************************)
(* Refinement: the root is used as RootPublication says, with the          *)
(* maintenance job and the accelerator build as its two publishers.        *)
(***************************************************************************)
Publication ==
    INSTANCE RootPublication WITH
      Publishers <- {"maintenance", "accelerator"},
      BuiltDocuments <- 0,
      RecordKinds <- Kinds,
      slotCount <- SlotCount(manifest),
      l0 <- Bare(l0),
      sealed <- (1 .. root.next_sequence - 1) \ {r.sequence : r \in l0},
      build <- [maintenance |->
                  IF job.kind \in {"seal", "compact", "vacuum"}
                  THEN job.base ELSE NoBuild,
                accelerator |-> accel.base]

\* Every job publishes through the root compare-and-swap: what RootPublication
\* promises for any publishers holds for the jobs of the index.
ImplementsRootPublication == Publication!Spec
=============================================================================
