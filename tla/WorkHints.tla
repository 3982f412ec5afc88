----------------------------- MODULE WorkHints -----------------------------
(***************************************************************************)
(* The shared table of work hints of evoke_am_scheduler.c: open addressing *)
(* with tombstones, one entry per index, the work classes still wanted for *)
(* it and a sequence that changes with every mark.  All operations run     *)
(* under the scheduler lock, so each is one operator on the table.         *)
(*                                                                         *)
(* A table is [slots, sequence].  Times are abstracted to what the         *)
(* scheduler asks of them: `marked' tells whether the low-debt interval    *)
(* has passed since the first mark, `cooldown' whether the retry time of   *)
(* the accelerator lies in the future.                                     *)
(***************************************************************************)
EXTENDS Integers, FiniteSets, FiniteSetsExt

CONSTANTS
  Indexes,        \* index oids, integers above 0
  Capacity,       \* EVOKE_AM_WORK_HINT_CAPACITY
  Home            \* the hash: [Indexes -> 0 .. Capacity - 1]

WorkHintsAssumption ==
  /\ Indexes \subseteq Nat \ {0}
  /\ Capacity \in Nat \ {0}
  /\ Home \in [Indexes -> 0 .. Capacity - 1]

\* Every index finds an entry: the table has 4096.
TableSuffices == IsFiniteSet(Indexes) /\ Cardinality(Indexes) <= Capacity

Classes == {"maintenance", "preload"}

NoIndex == 0
Tombstone == -1   \* stands for UINT64_MAX in a hint without flags

Hint == [index : Indexes \cup {NoIndex}, flags : SUBSET Classes,
         sequence : Int, marked : {"no", "fresh", "aged"}, cooldown : BOOLEAN]

FreeHint == [index |-> NoIndex, flags |-> {}, sequence |-> 0,
             marked |-> "no", cooldown |-> FALSE]

EmptyTable(n) == [slots |-> [s \in 0 .. n - 1 |-> FreeHint], sequence |-> 0]

Slots(t) == DOMAIN t.slots

(***************************************************************************)
(* Probing.                                                                *)
(***************************************************************************)
ProbeSlot(i, probe) == (Home[i] + probe) % Capacity

Owns(t, s, i) == t.slots[s].flags # {} /\ t.slots[s].index = i

\* The probes at which a search for i ends: its entry or a never used slot.
Stops(t, i) ==
  { p \in Slots(t) : LET s == ProbeSlot(i, p) IN
      \/ Owns(t, s, i)
      \/ t.slots[s].flags = {} /\ t.slots[s].sequence # Tombstone }

TombstonesBefore(t, i, limit) ==
  { p \in Slots(t) : /\ p < limit
                  /\ t.slots[ProbeSlot(i, p)].flags = {}
                  /\ t.slots[ProbeSlot(i, p)].sequence = Tombstone }

\* Where a search that stops at probe `stop' (Capacity: nowhere) and met the
\* tombstones at `graves' puts the entry of i: -1 when the table is full.
Place(t, i, stop, graves) ==
  LET owned == stop < Capacity /\ Owns(t, ProbeSlot(i, stop), i)
  IN  IF ~owned /\ graves # {} THEN ProbeSlot(i, Min(graves))
      ELSE IF stop < Capacity THEN ProbeSlot(i, stop) ELSE -1

PlaceFrom(t, i, stop) == Place(t, i, stop, TombstonesBefore(t, i, stop))

FirstStop(stops) == IF stops = {} THEN Capacity ELSE Min(stops)

\* The slot a mark of i uses.
MarkSlot(t, i) == PlaceFrom(t, i, FirstStop(Stops(t, i)))

\* The slot of the entry of i, or -1; the other operations search it this way.
EntrySlot(t, i, stops) ==
  IF stops # {} /\ Owns(t, ProbeSlot(i, Min(stops)), i)
  THEN ProbeSlot(i, Min(stops)) ELSE -1

FindSlot(t, i) == EntrySlot(t, i, Stops(t, i))

HintAt(t, s) == IF s = -1 THEN FreeHint ELSE t.slots[s]
HintOf(t, i) == HintAt(t, FindSlot(t, i))

(***************************************************************************)
(* Operations.                                                             *)
(***************************************************************************)
Overflows(t, i) == MarkSlot(t, i) = -1

\* evoke_am_scheduler_work_hint_mark, when the table has room.
MarkAt(t, s, i, flags) ==
  LET h == t.slots[s]
      n == t.sequence + 1
      first == "maintenance" \in flags /\ "maintenance" \notin h.flags
  IN  [slots |-> [t.slots EXCEPT ![s] =
         [index    |-> i,
          flags    |-> h.flags \cup flags,
          sequence |-> n,
          marked   |-> IF first THEN "fresh" ELSE IF h.flags = {} THEN "no" ELSE h.marked,
          cooldown |-> h.flags # {} /\ h.cooldown]],
       sequence |-> n]

Mark(t, i, flags) == MarkAt(t, MarkSlot(t, i), i, flags)

\* Mutant: an emptied hint looks never used, which ends probes too early.
DropClassToFree(h, flag) ==
  IF h.flags = {flag} THEN FreeHint
  ELSE [h EXCEPT !.flags = @ \ {flag}, !.marked = IF flag = "maintenance" THEN "no" ELSE @,
                 !.cooldown = flag # "maintenance" /\ @]

\* Takes a class from a hint; a hint without classes becomes a tombstone.
DropClass(h, flag) ==
  LET rest == h.flags \ {flag}
      kept == [h EXCEPT !.flags = rest,
                        !.marked = IF flag = "maintenance" THEN "no" ELSE @,
                        !.cooldown = flag # "maintenance" /\ @]
  IN  IF rest = {} THEN [kept EXCEPT !.index = NoIndex, !.sequence = Tombstone]
      ELSE kept

\* A table without active hints is wiped, which also removes its tombstones.
Wiped(t) ==
  IF \A s \in Slots(t) : t.slots[s].flags = {}
  THEN [t EXCEPT !.slots = [s \in Slots(t) |-> FreeHint]]
  ELSE t

\* evoke_am_scheduler_work_hint_consume for the indexes of one database.
Consume(t, mine, flag) ==
  Wiped([t EXCEPT !.slots = [s \in Slots(t) |->
    IF t.slots[s].index \in mine /\ flag \in t.slots[s].flags
    THEN DropClass(t.slots[s], flag) ELSE t.slots[s]]])

\* evoke_am_scheduler_work_hint_snapshot: the hints of one database.
Snapshot(t, mine, flag) ==
  { t.slots[s] : s \in { u \in Slots(t) : /\ t.slots[u].index \in mine
                                       /\ flag \in t.slots[u].flags } }

\* Mutant: the hint goes although it was marked meanwhile.
ClearAnyway(t, i, flag, sequence) ==
  LET s == FindSlot(t, i) IN
  IF s = -1 THEN t
  ELSE IF flag \notin t.slots[s].flags THEN t
  ELSE Wiped([t EXCEPT !.slots[s] = DropClass(@, flag)])

\* evoke_am_scheduler_work_hint_clear_if_unchanged.
ClearAt(t, s, flag, sequence) ==
  IF s = -1 \/ sequence = 0 THEN t
  ELSE IF t.slots[s].sequence # sequence \/ flag \notin t.slots[s].flags THEN t
  ELSE LET h == DropClass(t.slots[s], flag)
           u == [t EXCEPT !.slots[s] = h]
       IN  IF h.flags = {} THEN Wiped(u) ELSE u

ClearIfUnchanged(t, i, flag, sequence) == ClearAt(t, FindSlot(t, i), flag, sequence)

\* evoke_am_scheduler_work_hint_reset_age.
ResetAgeAt(t, s) ==
  IF s # -1 /\ "maintenance" \in t.slots[s].flags
  THEN [t EXCEPT !.slots[s].marked = "fresh"] ELSE t

ResetAge(t, i) == ResetAgeAt(t, FindSlot(t, i))

\* evoke_am_scheduler_work_hint_allow_accelerator_now.
AllowAt(t, s) == IF s = -1 THEN t ELSE [t EXCEPT !.slots[s].cooldown = FALSE]

AllowAcceleratorNow(t, i) == AllowAt(t, FindSlot(t, i))

\* evoke_am_scheduler_work_hint_defer_accelerator, when the table has room.
\* An existing hint keeps its sequence.
DeferAt(t, s, i) ==
  LET h == t.slots[s]
      fresh == h.flags = {}
  IN  [slots |-> [t.slots EXCEPT ![s] =
         [index    |-> i,
          flags    |-> h.flags \cup {"maintenance"},
          sequence |-> IF fresh THEN t.sequence + 1 ELSE h.sequence,
          marked   |-> IF fresh \/ h.marked = "no" THEN "fresh" ELSE h.marked,
          cooldown |-> TRUE]],
       sequence |-> IF fresh THEN t.sequence + 1 ELSE t.sequence]

DeferAccelerator(t, i) == DeferAt(t, MarkSlot(t, i), i)

(***************************************************************************)
(* What keeps a table usable.                                              *)
(***************************************************************************)
OneEntryPerIndex(t) ==
  \A s, u \in Slots(t) :
    (t.slots[s].flags # {} /\ t.slots[s].index = t.slots[u].index) => s = u

\* A search that starts at the hash of an index finds its entry.
EntriesReachable(t) ==
  \A s \in Slots(t) : t.slots[s].flags # {} => FindSlot(t, t.slots[s].index) = s

FlagsMatchIndex(t) ==
  \A s \in Slots(t) : (t.slots[s].flags = {}) <=> (t.slots[s].index = NoIndex)
=============================================================================
