------------------------ MODULE MaintenanceScheduler ------------------------
(***************************************************************************)
(* Background maintenance as a whole: writers and publications leave work  *)
(* hints, the supervisor starts workers, a worker finds an index through   *)
(* hints and catalog reconciliation, reserves it with a session lock,      *)
(* performs one action in a transaction of its own and goes on.            *)
(*                                                                         *)
(* What maintenance finds and does in an index is abstracted to kinds of   *)
(* debt (`work', `cold'); the order in which it looks for them and the     *)
(* control around it are the code's.                                       *)
(***************************************************************************)
EXTENDS WorkHints

CONSTANTS
  Databases,          \* database oids, integers above 0
  DbOf,               \* [Indexes -> Databases]
  Workers,            \* as many as evoke.maintenance_worker_limit
  ReconcileCapacity,  \* EVOKE_AM_RECONCILE_DB_CAPACITY
  Preloads,           \* the indexes with auto_preload above 0
  Derived,            \* the kinds of DerivedDebts that arise
  Workload,           \* what happens besides maintenance, within WorkloadKinds
  Terminations,       \* how many workers may be terminated from outside
  MaxSequence         \* bound on the sequences of marks, see CanMark

NoWorker == 0

WorkloadKinds == {"write", "cache", "setback", "query", "error"}

\* Debt of the immutable root, which only maintenance and queries bring about:
\* "semantic": documents wait for semantic completion; "structural": segments to
\* compact, terms to fold or pages to reclaim; "tail": unpublished blocks at the
\* end; "heat": a hot term to fold; "accel": the accelerator must be rebuilt;
\* "eligible": a smaller sealed delta, for its periodic refresh.
DerivedDebts == {"semantic", "structural", "tail", "heat", "accel", "eligible"}

\* "low": a small active L0; "full": one at its limit; "pending": a rotated one.
Debts == {"low", "full", "pending"} \cup DerivedDebts

SchedulerAssumption ==
  /\ Workload \subseteq WorkloadKinds
  /\ Preloads \subseteq Indexes
  /\ Derived \subseteq DerivedDebts
  /\ Databases \subseteq Nat \ {0}
  /\ DbOf \in [Indexes -> Databases]
  /\ ReconcileCapacity \in Nat \ {0}
  /\ NoWorker \notin Workers
  /\ Terminations \in Nat
  /\ MaxSequence \in Nat

\* Workers that reconcile at the same time find an entry each: workers are
\* limited by max_worker_processes, 8 by default, and there are 256 entries.
EntriesSuffice ==
  \/ IsFiniteSet(Workers) /\ Cardinality(Workers) <= ReconcileCapacity
  \/ IsFiniteSet(Databases) /\ Cardinality(Databases) <= ReconcileCapacity

VARIABLES
  sched,       \* [hints, rec]: the shared hint and reconcile tables
  lastDb,      \* last_maintenance_db_oid
  work,        \* [Indexes -> SUBSET Debts], what maintenance would find due
  cold,        \* those of Preloads whose current generation is not preloaded
  lock,        \* [Indexes -> Workers or NoWorker], session maintenance locks
  worker,      \* [Workers -> state of the process]
  faults       \* [terminations, missed, unwarmed]: workers terminated from
               \* outside so far; indexes whose maintenance or preload was
               \* given up by an error and waits for reconciliation

vars == <<sched, lastDb, work, cold, lock, worker, faults>>

NoDb == 0
Entries == 1 .. ReconcileCapacity

\* `recent' holds the classes completed within the reconcile interval; `quiet'
\* is the passing of time: see ReconcileDue.
FreeEntry == [db |-> NoDb, requested |-> {}, running |-> {}, recent |-> {},
              cursor |-> NoIndex, quiet |-> FALSE]

\* A candidate of select_maintenance_index, with the hint it was found by;
\* `optional': its class is OPTIONAL, `periodic': periodic_low_debt, `allow' and
\* `prefer': allow_ and prefer_accelerator_build.
Candidate == [index : Indexes \cup {NoIndex}, hinted : BOOLEAN, sequence : Int,
              optional : BOOLEAN, periodic : BOOLEAN, allow : BOOLEAN,
              prefer : BOOLEAN]
NoCandidate == [index |-> NoIndex, hinted |-> FALSE, sequence |-> 0,
                optional |-> FALSE, periodic |-> FALSE, allow |-> FALSE,
                prefer |-> FALSE]

\* pc: off, then preload selection (consume, claimP, queryP, pickP, preload),
\* maintenance selection (snapshot, claimM, queryM, judge with markLow and
\* clearIdle, apply), execution (execute, build).  `oids' are the indexes still
\* to be looked at, `chosen' the one the worker is about to act on.
OffWorker == [pc |-> "off", db |-> NoDb, tokens |-> {}, oids |-> {},
              claimed |-> FALSE, candidates |-> {}, cursor |-> NoIndex,
              chosen |-> NoCandidate, preloaded |-> FALSE]

Mine(d) == { i \in Indexes : DbOf[i] = d }

Init ==
  /\ sched = [hints |-> EmptyTable(Capacity),
              rec |-> [entries |-> [e \in Entries |-> FreeEntry],
                       access  |-> [e \in Entries |-> 0]]]
  /\ lastDb = NoDb
  /\ work \in [Indexes -> SUBSET ({"pending"} \cup Derived)]
  /\ cold \in {{}, Preloads}
  /\ lock = [i \in Indexes |-> NoWorker]
  /\ worker = [w \in Workers |-> OffWorker]
  /\ faults = [terminations |-> 0, missed |-> {}, unwarmed |-> {}]

-----------------------------------------------------------------------------
(***************************************************************************)
(* The reconcile table r: entries, and the order of their last access      *)
(* (last_access_counter) as ranks, 0 for those never accessed.             *)
(***************************************************************************)
\* evoke_am_scheduler_reconcile_db_locked: the entry it returns, 0 for NULL.
\* Without `create' this may be a free one or that of another database.
EntryFor(r, d) ==
  LET own  == { e \in Entries : r.entries[e].db = d }
      free == { e \in Entries : r.entries[e].db = NoDb }
      idle == { e \in Entries : r.entries[e].running = {} /\ r.entries[e].db # NoDb }
  IN  CASE own  # {} -> Min(own)
        [] own = {} /\ free # {} -> Min(free)
        [] own = {} /\ free = {} /\ idle # {} ->
             CHOOSE e \in idle : \A f \in idle : r.access[e] <= r.access[f]
        [] OTHER -> 0

\* Mutant: a foreign entry changes hands with what it says.
CreatedStale(r, d) == [r.entries[EntryFor(r, d)] EXCEPT !.db = d]

\* The entry with `create': a foreign one is reset for d.
Created(r, d) ==
  IF r.entries[EntryFor(r, d)].db = d THEN r.entries[EntryFor(r, d)]
  ELSE [FreeEntry EXCEPT !.db = d]

\* Mutant: the stamp of an entry grows with every access.
TouchedAgain(access, e) ==
  [access EXCEPT ![e] = @ + 1]

\* Entry e becomes the last accessed (reconcile_touch_locked).
Touched(access, e) ==
  [f \in Entries |-> CASE f = e -> ReconcileCapacity
                       [] f # e /\ access[f] > access[e] -> access[f] - 1
                       [] OTHER -> access[f]]

\* Entry v is stored for d and touched.
Stored(r, d, v) ==
  LET e == EntryFor(r, d) IN
  [entries |-> [r.entries EXCEPT ![e] = v], access |-> Touched(r.access, e)]

\* Mutant: only requests are granted, no interval is looked at.
GrantsOnRequest(r, d, flag) ==
  EntryFor(r, d) = 0 \/ flag \in Created(r, d).requested \ Created(r, d).running

\* evoke_am_scheduler_claim_catalog_reconcile: its result ...
Grants(r, d, flag) ==
  \/ EntryFor(r, d) = 0
  \/ LET v == Created(r, d) IN
     /\ flag \notin v.running
     /\ flag \in v.requested \/ flag \notin v.recent

\* ... and its effect.
Claimed(r, d, flag) ==
  IF EntryFor(r, d) = 0 \/ ~Grants(r, d, flag) THEN r
  ELSE Stored(r, d, [Created(r, d) EXCEPT !.requested = @ \ {flag},
                                          !.running = @ \cup {flag}])

\* evoke_am_scheduler_request_catalog_reconcile.
Requested(r, d, flags) ==
  IF EntryFor(r, d) = 0 THEN r
  ELSE Stored(r, d, [Created(r, d) EXCEPT !.requested = @ \cup flags])

\* evoke_am_scheduler_complete_catalog_reconcile.
Completed(r, d, flag) ==
  IF EntryFor(r, d) = 0 THEN r
  ELSE Stored(r, d, [r.entries[EntryFor(r, d)] EXCEPT
         !.running = @ \ {flag}, !.recent = @ \cup {flag}, !.quiet = FALSE])

\* Mutant: the class is requested again while it counts as running.
ReleasedRunning(r, d, flag) ==
  IF EntryFor(r, d) = 0 THEN r
  ELSE Stored(r, d, [r.entries[EntryFor(r, d)] EXCEPT !.requested = @ \cup {flag}])

\* evoke_am_scheduler_release_catalog_reconcile.
Released(r, d, flag) ==
  IF EntryFor(r, d) = 0 THEN r
  ELSE Stored(r, d, [r.entries[EntryFor(r, d)] EXCEPT
         !.running = @ \ {flag}, !.requested = @ \cup {flag}])

\* evoke_am_scheduler_maintenance_fairness_cursor.
FairnessCursor(r, d) ==
  IF EntryFor(r, d) = 0 THEN NoIndex ELSE r.entries[EntryFor(r, d)].cursor

\* evoke_am_scheduler_note_maintenance_service.
Serviced(r, d, i) ==
  IF EntryFor(r, d) = 0 THEN r
  ELSE Stored(r, d, [Created(r, d) EXCEPT !.cursor = i])

(***************************************************************************)
(* The shared state s.  What finds no room in the hint table becomes a     *)
(* request for reconciliation.                                             *)
(***************************************************************************)

Marked(s, i, flags) ==
  IF Overflows(s.hints, i)
  THEN [s EXCEPT !.rec = Requested(s.rec, DbOf[i], flags)]
  ELSE [s EXCEPT !.hints = Mark(s.hints, i, flags)]

Deferred(s, i) ==
  IF Overflows(s.hints, i)
  THEN [s EXCEPT !.rec = Requested(s.rec, DbOf[i], {"maintenance"})]
  ELSE [s EXCEPT !.hints = DeferAccelerator(s.hints, i)]

Cleared(s, i, sequence) ==
  [s EXCEPT !.hints = ClearIfUnchanged(s.hints, i, "maintenance", sequence)]

\* Room for n more marks within the bound.
CanMark(n) == sched.hints.sequence + n <= MaxSequence

-----------------------------------------------------------------------------
(***************************************************************************)
(* Writers and the passing of time.                                        *)
(***************************************************************************)
\* evoke_am_mutation_append_l0_record, the results of one append: the record
\* that reaches the limit leaves the active L0 full, the next one rotates it
\* unless the last one is still pending.
Appends(ds) ==
  LET rest == ds \ {"low", "full"} IN
  IF "full" \notin ds THEN {rest \cup {"low"}, rest \cup {"full"}}
  ELSE IF "pending" \notin ds THEN {rest \cup {"low", "pending"}}
  ELSE {ds}

\* aminsert: the record enters L0, where it may supersede the last document
\* that waits for completion, and the index is marked.
Write(i) ==
  /\ "write" \in Workload
  /\ CanMark(1)
  /\ \E old \in SUBSET (work[i] \cap {"semantic"}) :
     \E ds \in Appends(work[i] \ old) : work' = [work EXCEPT ![i] = ds]
  /\ sched' = Marked(sched, i, {"maintenance"})
  /\ UNCHANGED <<lastDb, cold, lock, worker, faults>>

\* Queries find a term hot and mark the index (evoke_am_posting_heat_flush).
Heat(i) ==
  /\ "heat" \in Derived \ work[i]
  /\ CanMark(1)
  /\ work' = [work EXCEPT ![i] = @ \cup {"heat"}]
  /\ sched' = Marked(sched, i, {"maintenance"})
  /\ UNCHANGED <<lastDb, cold, lock, worker, faults>>

\* evoke_runtime_cache_clear: all generations cold, reconciliation requested.
ClearCache(d) ==
  /\ "cache" \in Workload
  /\ (Mine(d) \cap Preloads) \ cold # {}
  /\ cold' = cold \cup (Mine(d) \cap Preloads)
  /\ sched' = [sched EXCEPT !.rec = Requested(sched.rec, d, Classes)]
  /\ UNCHANGED <<lastDb, work, lock, worker, faults>>

\* The low-debt interval of a hint passes.
Age(s) ==
  /\ sched.hints.slots[s].marked = "fresh"
  /\ sched' = [sched EXCEPT !.hints.slots[s].marked = "aged"]
  /\ UNCHANGED <<lastDb, work, cold, lock, worker, faults>>

\* The accelerator cooldown of a hint passes.
CoolDown(s) ==
  /\ sched.hints.slots[s].cooldown
  /\ sched' = [sched EXCEPT !.hints.slots[s].cooldown = FALSE]
  /\ UNCHANGED <<lastDb, work, cold, lock, worker, faults>>

\* The reconcile interval of a database passes: five minutes, so not before
\* a worker that found nothing to preload has turned to maintenance.
ReconcileDue(e, flag) ==
  /\ sched.rec.entries[e].quiet
  /\ flag \in sched.rec.entries[e].recent
  /\ sched' = [sched EXCEPT !.rec.entries[e].recent = @ \ {flag}]
  /\ UNCHANGED <<lastDb, work, cold, lock, worker, faults>>

(***************************************************************************)
(* The supervisor.                                                         *)
(***************************************************************************)
Running(d) == { w \in Workers : worker[w].pc # "off" /\ worker[w].db = d }

\* The hints of a database.
HintsOf(d) == { h \in { sched.hints.slots[s] : s \in Slots(sched.hints) } : h.index \in Mine(d) }

Hinted == { d \in Databases : HintsOf(d) # {} }

OldestHint(d) == Min({ h.sequence : h \in HintsOf(d) })

\* The database the supervisor launches for first: hinted ones by the oldest
\* sequence among their hints, then the others in turn after the last one.
NextDatabase(among) ==
  LET hinted == among \cap Hinted
      later  == { d \in among : d > lastDb }
  IN  CASE hinted # {} -> CHOOSE d \in hinted :
                            \A e \in hinted : OldestHint(d) <= OldestHint(e)
        [] hinted = {} /\ later # {} -> Min(later)
        [] OTHER -> Min(among)

\* A worker process starts for a database: by the supervisor, which skips
\* the databases it launched for earlier in the same tick, ...
Launch(w) ==
  /\ worker[w].pc = "off"
  /\ \E skipped \in SUBSET { d \in Databases : Running(d) # {} } :
     LET among == Databases \ skipped IN
     /\ among # {}
     /\ worker' = [worker EXCEPT ![w] =
          [OffWorker EXCEPT !.pc = "consume", !.db = NextDatabase(among)]]
     /\ lastDb' = NextDatabase(among)
  /\ UNCHANGED <<sched, work, cold, lock, faults>>

\* ... or by a committing session (evoke_am_touch_background_maintenance).
TouchLaunch(w, d) ==
  /\ worker[w].pc = "off"
  /\ d \in Hinted
  /\ worker' = [worker EXCEPT ![w] = [OffWorker EXCEPT !.pc = "consume", !.db = d]]
  /\ UNCHANGED <<sched, lastDb, work, cold, lock, faults>>

-----------------------------------------------------------------------------
(***************************************************************************)
(* evoke_am_select_auto_preload_index.                                     *)
(***************************************************************************)
At(w, label) == worker[w].pc = label
Stop(w) == worker' = [worker EXCEPT ![w] = OffWorker]

\* The hints of the database are taken off the table ...
ConsumePreload(w) ==
  /\ At(w, "consume")
  /\ LET mine == Mine(worker[w].db) IN
     /\ worker' = [worker EXCEPT ![w] = [@ EXCEPT !.pc = "claimP", !.oids =
                     { h.index : h \in Snapshot(sched.hints, mine, "preload") }]]
     /\ sched' = [sched EXCEPT !.hints = Consume(sched.hints, mine, "preload")]
  /\ UNCHANGED <<lastDb, work, cold, lock, faults>>

\* ... then reconciliation is claimed; without either the worker turns to
\* maintenance, unless it already preloaded.
ClaimPreload(w) ==
  /\ At(w, "claimP")
  /\ LET d == worker[w].db
         granted == Grants(sched.rec, d, "preload")
     IN /\ sched' = [sched EXCEPT !.rec = Claimed(sched.rec, d, "preload")]
        /\ worker' = [worker EXCEPT ![w] =
             IF ~granted /\ worker[w].oids = {} /\ worker[w].preloaded THEN OffWorker
             ELSE [@ EXCEPT !.claimed = granted,
                            !.pc = IF granted THEN "queryP"
                                   ELSE IF worker[w].oids = {} THEN "snapshot"
                                   ELSE "pickP"]]
  /\ UNCHANGED <<lastDb, work, cold, lock, faults>>

\* The catalog query replaces the candidates by all indexes with preload.
QueryPreload(w) ==
  /\ At(w, "queryP")
  /\ sched' = [sched EXCEPT !.rec = Completed(sched.rec, worker[w].db, "preload")]
  /\ \E all \in {Mine(worker[w].db) \cap Preloads} :
       /\ worker' = [worker EXCEPT ![w] =
            IF all # {} THEN [@ EXCEPT !.oids = all, !.pc = "pickP"]
            ELSE IF worker[w].preloaded THEN OffWorker
            ELSE [@ EXCEPT !.oids = {}, !.pc = "snapshot"]]
       /\ faults' = [faults EXCEPT !.unwarmed = @ \ all]
  /\ UNCHANGED <<lastDb, work, cold, lock>>

\* The catalog query fails: reconciliation is requested again.
QueryPreloadFails(w) ==
  /\ "query" \in Workload
  /\ At(w, "queryP")
  /\ sched' = [sched EXCEPT !.rec = Released(sched.rec, worker[w].db, "preload")]
  /\ Stop(w)
  /\ UNCHANGED <<lastDb, work, cold, lock, faults>>

\* One candidate after the other (the order is left open): the first whose
\* session lock is free is selected, every other one is marked again.
PickPreload(w) ==
  /\ At(w, "pickP")
  /\ \E i \in worker[w].oids :
     LET rest == worker[w].oids \ {i}
         none == worker[w].chosen.index = NoIndex
     IN
     \/ /\ none /\ lock[i] = NoWorker
        /\ lock' = [lock EXCEPT ![i] = w]
        /\ worker' = [worker EXCEPT ![w] =
             [@ EXCEPT !.oids = rest, !.chosen.index = i,
                       !.pc = IF rest = {} THEN "preload" ELSE "pickP"]]
        /\ UNCHANGED sched
     \/ /\ ~none \/ lock[i] # NoWorker
        /\ CanMark(1)
        /\ sched' = Marked(sched, i, {"preload"})
        /\ worker' = [worker EXCEPT ![w] =
             IF none /\ rest = {} THEN OffWorker
             ELSE [@ EXCEPT !.oids = rest,
                            !.pc = IF rest = {} THEN "preload" ELSE "pickP"]]
        /\ UNCHANGED lock
  /\ UNCHANGED <<lastDb, work, cold, faults>>

\* The worker goes on to the next selection after preloading index i.
Preloaded(w, i) ==
  /\ lock' = [lock EXCEPT ![i] = NoWorker]
  /\ worker' = [worker EXCEPT ![w] = [OffWorker EXCEPT !.pc = "consume",
                  !.db = worker[w].db, !.preloaded = TRUE]]

\* evoke_am_try_auto_preload_index_oid: with nothing left in L0 a due
\* accelerator is marked before anything is warmed.
AcceleratorMarked(s, i) ==
  IF work[i] \cap {"low", "full", "pending", "accel"} = {"accel"}
  THEN Marked(s, i, {"maintenance"}) ELSE s

\* The generation becomes warm.
Preload(w) ==
  /\ At(w, "preload")
  /\ LET i == worker[w].chosen.index IN
     /\ CanMark(1)
     /\ cold' = cold \ {i}
     /\ sched' = AcceleratorMarked(sched, i)
     /\ Preloaded(w, i)
  /\ UNCHANGED <<lastDb, work, faults>>

\* The relation is locked by another session, or its generation is being
\* changed: the class is marked again.
PreloadBusy(w) ==
  /\ "setback" \in Workload
  /\ At(w, "preload")
  /\ CanMark(2)
  /\ LET i == worker[w].chosen.index IN
     /\ \E s \in {sched, AcceleratorMarked(sched, i)} : sched' = Marked(s, i, {"preload"})
     /\ Preloaded(w, i)
  /\ UNCHANGED <<lastDb, work, cold, faults>>

\* The result is NONE (an unreadable meta page, a payload that must be rebuilt,
\* no room for the generation): nothing is marked again.
PreloadDeclines(w) ==
  /\ "error" \in Workload
  /\ At(w, "preload")
  /\ LET i == worker[w].chosen.index IN
     /\ CanMark(1)
     /\ \E s \in {sched, AcceleratorMarked(sched, i)} : sched' = s
     /\ faults' = [faults EXCEPT !.unwarmed = @ \cup {i}]
     /\ Preloaded(w, i)
  /\ UNCHANGED <<lastDb, work, cold>>

-----------------------------------------------------------------------------
(***************************************************************************)
(* evoke_am_select_maintenance_index.                                      *)
(***************************************************************************)
SnapshotMaintenance(w) ==
  /\ At(w, "snapshot")
  /\ LET ts == Snapshot(sched.hints, Mine(worker[w].db), "maintenance") IN
     worker' = [worker EXCEPT ![w] = [@ EXCEPT !.tokens = ts, !.pc = "claimM",
                                               !.oids = { h.index : h \in ts }]]
  /\ sched' = [sched EXCEPT !.rec.entries = [e \in Entries |->
       IF @[e].db = worker[w].db THEN [@[e] EXCEPT !.quiet = TRUE] ELSE @[e]]]
  /\ UNCHANGED <<lastDb, work, cold, lock, faults>>

\* What a worker with record r does next in the loop over its indexes: it
\* reads another one, ends without candidates, or sorts those it has.
Onward(r) ==
  CASE r.oids # {} -> [r EXCEPT !.pc = "judge", !.chosen = NoCandidate]
    [] r.oids = {} /\ r.candidates = {} -> OffWorker
    [] OTHER -> [r EXCEPT !.pc = "apply", !.tokens = {}, !.claimed = FALSE,
                          !.chosen = NoCandidate]

ClaimMaintenance(w) ==
  /\ At(w, "claimM")
  /\ LET d == worker[w].db
         granted == Grants(sched.rec, d, "maintenance")
     IN /\ sched' = [sched EXCEPT !.rec = Claimed(sched.rec, d, "maintenance")]
        /\ worker' = [worker EXCEPT ![w] =
             IF granted THEN [@ EXCEPT !.claimed = TRUE, !.pc = "queryM"]
             ELSE Onward([@ EXCEPT !.claimed = FALSE,
                                   !.cursor = FairnessCursor(sched.rec, d)])]
  /\ UNCHANGED <<lastDb, work, cold, lock, faults>>

QueryMaintenance(w) ==
  /\ At(w, "queryM")
  /\ LET d == worker[w].db IN
     /\ sched' = [sched EXCEPT !.rec = Completed(sched.rec, d, "maintenance")]
     /\ worker' = [worker EXCEPT ![w] =
          Onward([@ EXCEPT !.oids = Mine(d), !.cursor = FairnessCursor(sched.rec, d)])]
     /\ faults' = [faults EXCEPT !.missed = @ \ Mine(d)]
  /\ UNCHANGED <<lastDb, work, cold, lock>>

QueryMaintenanceFails(w) ==
  /\ "query" \in Workload
  /\ At(w, "queryM")
  /\ sched' = [sched EXCEPT !.rec = Released(sched.rec, worker[w].db, "maintenance")]
  /\ Stop(w)
  /\ UNCHANGED <<lastDb, work, cold, lock, faults>>

\* The token of i in a snapshot, or the free hint.
TokenOf(tokens, i) ==
  IF \E h \in tokens : h.index = i THEN CHOOSE h \in tokens : h.index = i
  ELSE FreeHint

\* evoke_am_get_background_due_candidate looks at the derived debts only when
\* no L0 is pending, at structural ones and hot terms only with an empty L0.
Seen(ds) ==
  CASE "pending" \in ds -> ds \ (DerivedDebts \ {"tail"})
    [] "pending" \notin ds /\ {"low", "full"} \cap ds # {} -> ds \ {"structural", "heat"}
    [] OTHER -> ds

Mandatory == {"full", "pending", "semantic", "structural", "tail"}

\* For an index with debts ds and the hint token t: what must be done now ...
StrictNow(ds, t) ==
  \/ Seen(ds) \cap (Mandatory \cup {"heat"}) # {}
  \/ "accel" \in Seen(ds) /\ ~t.cooldown

\* ... whether the accelerator is to be built ...
AcceleratorNow(ds, t) ==
  /\ ~t.cooldown
  /\ \/ "accel" \in Seen(ds)
     \/ ("eligible" \in Seen(ds) /\ t.marked = "aged")

\* ... whether there is debt that may wait for the interval ...
LowNow(ds) == {"low", "eligible"} \cap Seen(ds) # {}

\* ... and the result: is the index due, and as which candidate?
DueNow(ds, t) ==
  \/ StrictNow(ds, t)
  \/ AcceleratorNow(ds, t)
  \/ ("low" \in ds /\ t.marked = "aged")

AsCandidate(i, ds, t) ==
  [index |-> i, hinted |-> t # FreeHint, sequence |-> t.sequence,
   optional |-> /\ Seen(ds) \cap Mandatory = {}
                /\ "accel" \in Seen(ds) => t.cooldown,
   periodic |-> ~StrictNow(ds, t) /\ LowNow(ds) /\ t.marked = "aged",
   allow |-> ~t.cooldown, prefer |-> AcceleratorNow(ds, t)]

\* The worker reads one index (the order is left open): a due one becomes a
\* candidate; low debt found without a hint will be marked, the hint of an
\* idle index cleared unless it awaits the retry of an accelerator.
Judge(w) ==
  /\ At(w, "judge")
  /\ \E i \in worker[w].oids :
     \E t \in {TokenOf(worker[w].tokens, i)} :
     LET r == [worker[w] EXCEPT !.oids = @ \ {i}]
         c == [NoCandidate EXCEPT !.index = i, !.sequence = t.sequence]
     IN  worker' = [worker EXCEPT ![w] =
           IF DueNow(work[i], t)
           THEN Onward([r EXCEPT !.candidates = @ \cup {AsCandidate(i, work[i], t)}])
           ELSE IF LowNow(work[i]) /\ t = FreeHint /\ worker[w].claimed
           THEN [r EXCEPT !.pc = "markLow", !.chosen = c]
           ELSE IF ~LowNow(work[i]) /\ t # FreeHint /\ "accel" \notin Seen(work[i])
           THEN [r EXCEPT !.pc = "clearIdle", !.chosen = c]
           ELSE Onward(r)]
  /\ UNCHANGED <<sched, lastDb, work, cold, lock, faults>>

\* The indexes worker w looks at, or found due, without a hint.
Unhinted(w) ==
  { i \in worker[w].oids : TokenOf(worker[w].tokens, i) = FreeHint }
    \cup { c.index : c \in { d \in worker[w].candidates : ~d.hinted } }

\* The root of an index is invalid or its relation truncated: the selection is
\* aborted.  The reconciliation that listed the indexes counts as completed, so
\* those without a hint wait for the next one.
JudgeFails(w) ==
  /\ "error" \in Workload
  /\ At(w, "judge")
  /\ faults' = [faults EXCEPT !.missed = @ \cup Unhinted(w)]
  /\ Stop(w)
  /\ UNCHANGED <<sched, lastDb, work, cold, lock>>

\* The relation of an index is locked (a REINDEX, say): an existing hint stays,
\* and nothing else is left behind.
JudgeLocked(w) ==
  /\ "error" \in Workload
  /\ At(w, "judge")
  /\ \E i \in worker[w].oids :
     /\ worker' = [worker EXCEPT ![w] = Onward([worker[w] EXCEPT !.oids = @ \ {i}])]
     /\ faults' = IF TokenOf(worker[w].tokens, i) # FreeHint THEN faults
                  ELSE [faults EXCEPT !.missed = @ \cup {i}]
  /\ UNCHANGED <<sched, lastDb, work, cold, lock>>

MarkLow(w) ==
  /\ At(w, "markLow")
  /\ CanMark(1)
  /\ sched' = Marked(sched, worker[w].chosen.index, {"maintenance"})
  /\ worker' = [worker EXCEPT ![w] = Onward(@)]
  /\ UNCHANGED <<lastDb, work, cold, lock, faults>>

\* The hint goes unless it was marked since the worker read it.
ClearIdle(w) ==
  /\ At(w, "clearIdle")
  /\ sched' = Cleared(sched, worker[w].chosen.index, worker[w].chosen.sequence)
  /\ worker' = [worker EXCEPT ![w] = Onward(@)]
  /\ UNCHANGED <<lastDb, work, cold, lock, faults>>

\* evoke_am_cmp_maintenance_candidate: a before b.
Before(a, b, cursor) ==
  IF a.optional # b.optional THEN b.optional
  ELSE IF (a.index > cursor) # (b.index > cursor) THEN a.index > cursor
  ELSE a.index < b.index

\* The first of the candidates that are left.
Best(w) ==
  CHOOSE c \in worker[w].candidates :
    \A d \in worker[w].candidates \ {c} : Before(c, d, worker[w].cursor)

\* The worker goes on with the candidates cs left and the choice c.
Choosing(w, cs, c) ==
  worker' = [worker EXCEPT ![w] =
    IF cs # {} THEN [@ EXCEPT !.candidates = cs, !.chosen = c]
    ELSE IF c = NoCandidate THEN OffWorker
    ELSE [OffWorker EXCEPT !.pc = "execute", !.db = worker[w].db, !.chosen = c]]

\* One candidate after the other in their order: the first whose session lock
\* is free is chosen, the others are marked again if they had no hint.
Apply(w) ==
  /\ At(w, "apply")
  /\ \E c \in {Best(w)} :
     LET rest  == worker[w].candidates \ {c}
         takes == worker[w].chosen = NoCandidate /\ lock[c.index] = NoWorker
     IN
     \/ /\ takes
        /\ lock' = [lock EXCEPT ![c.index] = w]
        /\ Choosing(w, rest, c)
        /\ UNCHANGED sched
     \/ /\ ~takes /\ ~c.hinted
        /\ CanMark(1)
        /\ sched' = Marked(sched, c.index, {"maintenance"})
        /\ Choosing(w, rest, worker[w].chosen)
        /\ UNCHANGED lock
     \/ /\ ~takes /\ c.hinted
        /\ Choosing(w, rest, worker[w].chosen)
        /\ UNCHANGED <<sched, lock>>
  /\ UNCHANGED <<lastDb, work, cold, faults>>

-----------------------------------------------------------------------------
(***************************************************************************)
(* evoke_am_execute_maintenance_candidate.  Each action below is one       *)
(* outcome of evoke_am_try_maintain_index_oid with what follows from it.   *)
(* That function does the first thing it finds: rotate or seal L0, an      *)
(* accelerator build that was found due, semantic completion, and only     *)
(* then structural work, the tail, a hot term and other builds.            *)
(***************************************************************************)
FreeLock(w) == lock' = [i \in Indexes |-> IF lock[i] = w THEN NoWorker ELSE lock[i]]

\* A counted result after which the shared state is s: the service is noted,
\* the hint cleared if nobody marked it meanwhile; the worker goes on or has
\* used up its budget.
Counted(w, s, ageReset) ==
  \E c \in {worker[w].chosen} :
  \E h \in {IF ageReset THEN ResetAge(s.hints, c.index) ELSE s.hints} :
    /\ sched' =
         [hints |-> IF c.hinted THEN ClearIfUnchanged(h, c.index, "maintenance", c.sequence)
                    ELSE h,
          rec   |-> Serviced(s.rec, worker[w].db, c.index)]
    /\ \/ Stop(w)
       \/ worker' = [worker EXCEPT ![w] =
                       [OffWorker EXCEPT !.pc = "consume", !.db = worker[w].db]]

\* schedule_auto_preload.
PreloadScheduled(s, i) == IF i \in Preloads THEN Marked(s, i, {"preload"}) ELSE s

\* A publication in index i: `paid' goes, some of `due' arises, a hot term is
\* forgotten or not; the generation is cold.
Publishes(i, paid, due) ==
  /\ \E old \in SUBSET (work[i] \cap {"heat"}), new \in SUBSET (Derived \cap due) :
       work' = [work EXCEPT ![i] = (@ \ (paid \cup old)) \cup new]
  /\ cold' = cold \cup ({i} \cap Preloads)

\* Somebody builds the accelerator of i.
BuildRuns(i) == \E u \in Workers : worker[u].pc = "build" /\ worker[u].chosen.index = i

\* The debts of the index that w has come to maintain.
Found(w) == work[worker[w].chosen.index]

\* The active L0 is at its limit, or its interval passed.
CheckpointDue(w) == "full" \in Found(w) \/ (worker[w].chosen.periodic /\ "low" \in Found(w))

\* While the accelerator is built the immutable root is left alone, unless
\* both L0 frontiers must go.
RootHeld(w) ==
  BuildRuns(worker[w].chosen.index) /\ ~("pending" \in Found(w) /\ CheckpointDue(w))

\* The active L0 is not rotated while the last one is pending or documents
\* wait for semantic completion.
Rotates(w) == CheckpointDue(w) /\ {"pending", "semantic"} \cap Found(w) = {}

SealTurn(w) == At(w, "execute") /\ "pending" \in Found(w) /\ ~RootHeld(w)

\* Neither rotation nor seal: first a build that the selection found due, ...
RestTurn(w) ==
  At(w, "execute") /\ ~Rotates(w) /\ ("pending" \in Found(w) => RootHeld(w))
Jumps(w) ==
  RestTurn(w) /\ worker[w].chosen.prefer /\ ~BuildRuns(worker[w].chosen.index)

\* ... then semantic completion, ...
SemanticTurn(w) == RestTurn(w) /\ ~Jumps(w) /\ "semantic" \in Found(w)

\* ... then the immutable root: structural work, the tail, hot terms, ...
RootTurn(w) ==
  RestTurn(w) /\ ~Jumps(w) /\ "semantic" \notin Found(w) /\ ~RootHeld(w)

\* ... and a build after all.  A hot term may turn out not worth a fold.
BuildTurn(w) ==
  Jumps(w) \/ (RootTurn(w) /\ {"structural", "tail"} \cap Found(w) = {})

\* evoke_am_convergent_accelerator_due, with the answer of the selection.
BuildDue(w) ==
  LET c == worker[w].chosen IN
  /\ c.allow
  /\ "accel" \in Found(w) \/ (c.periodic /\ "eligible" \in Found(w))

\* The active L0 is rotated.
Rotate(w) ==
  /\ At(w, "execute")
  /\ Rotates(w)
  /\ LET i == worker[w].chosen.index IN
     /\ CanMark(1)
     /\ work' = [work EXCEPT ![i] = (@ \ {"low", "full"}) \cup {"pending"}]
     /\ \E s \in {Marked(sched, i, {"maintenance"})} : Counted(w, s, FALSE)
  /\ FreeLock(w)
  /\ UNCHANGED <<lastDb, cold, faults>>

\* A publication of w counts; both classes are marked.
PublishedMarked(w, ageReset) ==
  /\ CanMark(2)
  /\ \E i \in {worker[w].chosen.index} :
     \E s \in {PreloadScheduled(sched, i)} :
     \E t \in {Marked(s, i, {"maintenance"})} : Counted(w, t, ageReset)
  /\ FreeLock(w)
  /\ UNCHANGED <<lastDb, faults>>

\* The pending L0 is sealed: any debt but an unpublished tail may follow.
Seal(w) ==
  /\ SealTurn(w)
  /\ Publishes(worker[w].chosen.index, {"pending"}, DerivedDebts \ {"tail", "heat"})
  /\ PublishedMarked(w, TRUE)

\* Compaction, a structural fold or reclamation, before a seal that needs room
\* or in its turn.
Restructure(w) ==
  /\ SealTurn(w) \/ RootTurn(w)
  /\ "structural" \in Found(w)
  /\ Publishes(worker[w].chosen.index, {"structural"}, {"structural", "accel", "eligible"})
  /\ PublishedMarked(w, FALSE)

\* A batch of completions or quarantines is appended to L0, smaller than the
\* limit; documents may be left for another one.
CompleteSemantic(w) ==
  /\ SemanticTurn(w)
  /\ LET i == worker[w].chosen.index IN
     /\ CanMark(1)
     /\ \E done \in SUBSET {"semantic"} :
        \E one \in Appends(work[i] \ done) :
        \E ds \in {one} \cup Appends(one) : work' = [work EXCEPT ![i] = ds]
     /\ \E s \in {Marked(sched, i, {"maintenance"})} : Counted(w, s, FALSE)
  /\ FreeLock(w)
  /\ UNCHANGED <<lastDb, cold, faults>>

\* The tail is truncated.  This counts without a mark.
TruncateTail(w) ==
  /\ RootTurn(w)
  /\ "tail" \in Found(w) /\ "structural" \notin Found(w)
  /\ work' = [work EXCEPT ![worker[w].chosen.index] = @ \ {"tail"}]
  /\ Counted(w, sched, FALSE)
  /\ FreeLock(w)
  /\ UNCHANGED <<lastDb, cold, faults>>

\* A hot term is folded, which marks for preload only.
FoldHot(w) ==
  /\ RootTurn(w)
  /\ "heat" \in Found(w) /\ {"structural", "tail"} \cap Found(w) = {}
  /\ CanMark(1)
  /\ LET i == worker[w].chosen.index IN
     /\ Publishes(i, {}, {"structural", "accel", "eligible"})
     /\ \E s \in {PreloadScheduled(sched, i)} : Counted(w, s, FALSE)
  /\ FreeLock(w)
  /\ UNCHANGED <<lastDb, faults>>

\* A result that does not count, after which the shared state is s: a
\* candidate found without a hint is marked, and the worker ends.
Uncounted(w, s) ==
  /\ sched' = IF worker[w].chosen.hinted THEN s
              ELSE Marked(s, worker[w].chosen.index, {"maintenance"})
  /\ Stop(w)

\* What was staged for a publication may be left as an unpublished tail.
LeavesTail(i) ==
  \E tail \in SUBSET (Derived \cap {"tail"}) : work' = [work EXCEPT ![i] = @ \cup tail]

\* Unresolved transactions, unfinished inference, a busy reader fence or a lost
\* race: the index is marked again.
Defer(w) ==
  /\ "setback" \in Workload
  /\ \/ SealTurn(w) \/ SemanticTurn(w)
     \/ (RootTurn(w) /\ {"structural", "tail"} \cap Found(w) # {})
  /\ CanMark(2)
  /\ \E i \in {worker[w].chosen.index} :
       /\ LeavesTail(i)
       /\ \E s \in {Marked(sched, i, {"maintenance"})} : Uncounted(w, s)
  /\ FreeLock(w)
  /\ UNCHANGED <<lastDb, cold, faults>>

\* Structural work is blocked by limits, or a fold of a hot term loses a race:
\* a hint stays as it is.
Stall(w) ==
  /\ "setback" \in Workload
  /\ \/ ((SealTurn(w) \/ RootTurn(w)) /\ "structural" \in Found(w))
     \/ (BuildTurn(w) /\ ~Jumps(w) /\ "heat" \in Found(w))
  /\ CanMark(1)
  /\ LeavesTail(worker[w].chosen.index)
  /\ Uncounted(w, sched)
  /\ FreeLock(w)
  /\ UNCHANGED <<lastDb, cold, faults>>

\* The root is held for a build of another worker.
DeferToBuild(w) ==
  /\ RestTurn(w) /\ RootHeld(w) /\ "semantic" \notin Found(w)
  /\ CanMark(2)
  /\ \E s \in {Deferred(sched, worker[w].chosen.index)} : Uncounted(w, s)
  /\ FreeLock(w)
  /\ UNCHANGED <<lastDb, work, cold, faults>>

\* Nothing was found to do.
NothingDone(w) ==
  /\ BuildTurn(w) /\ ~BuildDue(w)
  /\ CanMark(1)
  /\ Uncounted(w, sched)
  /\ FreeLock(w)
  /\ UNCHANGED <<lastDb, work, cold, faults>>

\* Mutant: the build keeps the session lock.
StartBuildLocked(w) ==
  /\ BuildTurn(w) /\ BuildDue(w)
  /\ CanMark(1)
  /\ sched' = Deferred(sched, worker[w].chosen.index)
  /\ worker' = [worker EXCEPT ![w] = [@ EXCEPT !.pc = "build"]]
  /\ UNCHANGED <<lastDb, work, cold, lock, faults>>

\* The accelerator build starts, perhaps ahead of other debt: cooldown first,
\* then both maintenance locks are given up while the worker builds.
StartBuild(w) ==
  /\ BuildTurn(w) /\ BuildDue(w)
  /\ CanMark(1)
  /\ sched' = Deferred(sched, worker[w].chosen.index)
  /\ worker' = [worker EXCEPT ![w] = [@ EXCEPT !.pc = "build"]]
  /\ FreeLock(w)
  /\ UNCHANGED <<lastDb, work, cold, faults>>

\* It is published (an L0 that moved on is kept): the cooldown ends, the age
\* restarts, and the result counts with no mark but for preload.
FinishBuild(w) ==
  /\ At(w, "build")
  /\ {"accel", "eligible"} \cap Found(w) # {}
  /\ CanMark(1)
  /\ LET i == worker[w].chosen.index IN
     /\ Publishes(i, {"accel", "eligible"}, {"structural"})
     /\ \E s \in {PreloadScheduled(sched, i)} :
        \E t \in {[s EXCEPT !.hints = AllowAcceleratorNow(s.hints, i)]} :
          Counted(w, t, TRUE)
  /\ UNCHANGED <<lastDb, lock, faults>>

\* It loses the root or the fence: the cooldown starts anew.
LoseBuild(w) ==
  /\ "setback" \in Workload
  /\ At(w, "build")
  /\ CanMark(2)
  /\ \E i \in {worker[w].chosen.index} :
       /\ LeavesTail(i)
       /\ \E s \in {Deferred(sched, i)} : Uncounted(w, s)
  /\ UNCHANGED <<lastDb, cold, lock, faults>>

\* It does not fit its memory: the hint goes, reconciliation will find the
\* index again.
BlockBuild(w) ==
  LET c == worker[w].chosen IN
  /\ "setback" \in Workload
  /\ At(w, "build")
  /\ CanMark(1)
  /\ IF c.hinted THEN sched' = Cleared(sched, c.index, c.sequence) /\ Stop(w)
     ELSE Uncounted(w, sched)
  /\ UNCHANGED <<lastDb, work, cold, lock, faults>>

\* There is nothing to build any more: the cooldown ends.
AbandonBuild(w) ==
  /\ "setback" \in Workload
  /\ At(w, "build")
  /\ CanMark(1)
  /\ \E s \in {[sched EXCEPT !.hints = AllowAcceleratorNow(sched.hints, worker[w].chosen.index)]} :
       Uncounted(w, s)
  /\ UNCHANGED <<lastDb, work, cold, lock, faults>>

\* An error of the action: the transaction aborts, hints stay as they are.
Fail(w) ==
  /\ "error" \in Workload
  /\ At(w, "execute") \/ At(w, "preload") \/ At(w, "build")
  /\ \E c \in {worker[w].chosen} :
       faults' =
         IF At(w, "preload") THEN [faults EXCEPT !.unwarmed = @ \cup {c.index}]
         ELSE IF c.hinted \/ At(w, "build") THEN faults
         ELSE [faults EXCEPT !.missed = @ \cup {c.index}]
  /\ Stop(w)
  /\ FreeLock(w)
  /\ UNCHANGED <<sched, lastDb, work, cold>>

\* pg_terminate_backend: the process exits without running its error
\* handlers; the exit callbacks release locks and counters, nothing else.
Terminate(w) ==
  /\ ~At(w, "off")
  /\ faults.terminations < Terminations
  /\ faults' = [faults EXCEPT !.terminations = @ + 1]
  /\ Stop(w)
  /\ FreeLock(w)
  /\ UNCHANGED <<sched, lastDb, work, cold>>

-----------------------------------------------------------------------------
WorkerStep(w) ==
  \/ ConsumePreload(w) \/ ClaimPreload(w) \/ QueryPreload(w)
  \/ PickPreload(w) \/ Preload(w)
  \/ SnapshotMaintenance(w) \/ ClaimMaintenance(w) \/ QueryMaintenance(w)
  \/ Judge(w) \/ MarkLow(w) \/ ClearIdle(w) \/ Apply(w)
  \/ Rotate(w) \/ Seal(w) \/ Restructure(w) \/ CompleteSemantic(w)
  \/ TruncateTail(w) \/ FoldHot(w) \/ StartBuild(w) \/ FinishBuild(w)
  \/ NothingDone(w) \/ DeferToBuild(w)

Setback(w) ==
  \/ QueryPreloadFails(w) \/ PreloadBusy(w) \/ PreloadDeclines(w)
  \/ QueryMaintenanceFails(w) \/ JudgeLocked(w) \/ JudgeFails(w)
  \/ Defer(w) \/ Stall(w) \/ LoseBuild(w) \/ BlockBuild(w) \/ AbandonBuild(w)
  \/ Fail(w) \/ Terminate(w)

Environment ==
  \/ \E i \in Indexes : Write(i) \/ Heat(i)
  \/ \E s \in Slots(sched.hints) : Age(s) \/ CoolDown(s)
  \/ \E d \in Databases : ClearCache(d)
  \/ \E e \in Entries, flag \in Classes : ReconcileDue(e, flag)

Next ==
  \/ Environment
  \/ \E w \in Workers : WorkerStep(w) \/ Setback(w) \/ Launch(w)
  \/ \E w \in Workers, d \in Databases : TouchLaunch(w, d)

Spec == Init /\ [][Next]_vars

-----------------------------------------------------------------------------
TypeOK ==
  /\ sched.hints.slots \in [0 .. Capacity - 1 -> Hint]
  /\ sched.hints.sequence \in 0 .. MaxSequence
  /\ \A e \in Entries :
       /\ sched.rec.entries[e].db \in Databases \cup {NoDb}
       /\ sched.rec.entries[e].requested \subseteq Classes
       /\ sched.rec.entries[e].running \subseteq Classes
       /\ sched.rec.entries[e].recent \subseteq Classes
       /\ sched.rec.entries[e].cursor \in Indexes \cup {NoIndex}
       /\ sched.rec.entries[e].quiet \in BOOLEAN
  /\ sched.rec.access \in [Entries -> 0 .. ReconcileCapacity]
  /\ lastDb \in Databases \cup {NoDb}
  /\ work \in [Indexes -> SUBSET Debts]
  /\ cold \subseteq Preloads
  /\ lock \in [Indexes -> Workers \cup {NoWorker}]
  /\ \A w \in Workers : worker[w].chosen \in Candidate
  /\ faults \in [terminations : 0 .. Terminations, missed : SUBSET Indexes,
                unwarmed : SUBSET Preloads]

\* Every hint is found by the probing of the other operations and no index
\* has two: clearing, tombstones, their reuse and the wiping of an idle table
\* (evoke_am_scheduler_work_hint_clear_if_unchanged, _consume) never cut off
\* an entry that lies behind the slot they change.
HintTableSound ==
  /\ OneEntryPerIndex(sched.hints)
  /\ EntriesReachable(sched.hints)
  /\ FlagsMatchIndex(sched.hints)

\* The next claim of the class in the database of i is granted.
ReconcilePending(i, flag) ==
  \A e \in Entries : sched.rec.entries[e].db = DbOf[i] =>
    /\ flag \notin sched.rec.entries[e].running
    /\ flag \in sched.rec.entries[e].requested \/ flag \notin sched.rec.entries[e].recent

\* A worker is about to find i in the catalog of its database, has it on its
\* list, or acts on it.
MaintenanceInHand(i) ==
  \E w \in DOMAIN worker :
    \/ worker[w].pc = "queryM" /\ worker[w].db = DbOf[i]
    \/ worker[w].pc \in {"judge", "markLow", "clearIdle"} /\ i \in worker[w].oids
    \/ \E c \in worker[w].candidates : c.index = i
    \/ worker[w].pc \in {"apply", "execute"} /\ worker[w].chosen.index = i

PreloadInHand(i) ==
  \E w \in DOMAIN worker :
    \/ worker[w].pc = "queryP" /\ worker[w].db = DbOf[i]
    \/ worker[w].pc \in {"claimP", "pickP"} /\ i \in worker[w].oids
    \/ worker[w].pc \in {"pickP", "preload"} /\ worker[w].chosen.index = i

\* Urgent: a pending L0, or a full one that maintenance would rotate.
Urgent(ds) == "pending" \in ds \/ ("full" \in ds /\ "semantic" \notin ds)

\* Work that writers depend on is never forgotten: while the L0 of an index
\* must be rotated or sealed its hint is set, a worker has it in hand, or
\* reconciliation will look.  An index that an error made a worker drop from its
\* list without a hint, its own or of another index, waits for the next
\* periodic reconciliation, and so do all after a worker was terminated.
\* The hazards are the clear of a hint by a worker that judged the index idle
\* or that counts a build or a fold, which leave no mark, while a writer fills
\* L0 (select_maintenance_index, clear_if_unchanged), and a mark that found the
\* table full.  Other strict debt is forgotten: see the README.
UrgentDebtRemembered ==
  faults.terminations = 0 => \A i \in DOMAIN work \ faults.missed :
    Urgent(work[i]) =>
      \/ "maintenance" \in HintOf(sched.hints, i).flags
      \/ MaintenanceInHand(i)
      \/ ReconcilePending(i, "maintenance")

\* The same for preloading, whose hints are taken off the table before the
\* work is done (evoke_am_scheduler_work_hint_consume), except for an index
\* that could not be preloaded: it waits for the next reconciliation.
ColdIndexRemembered ==
  faults.terminations = 0 => \A i \in cold \ faults.unwarmed :
    \/ "preload" \in HintOf(sched.hints, i).flags
    \/ PreloadInHand(i)
    \/ ReconcilePending(i, "preload")

\* A class is running only while a worker of that database runs its catalog
\* query: the flag makes every other claim fail (termination leaves it set).
RunningHasWorker ==
  faults.terminations = 0 => \A e \in Entries, flag \in Classes : flag \in sched.rec.entries[e].running =>
    \E w \in DOMAIN worker : /\ worker[w].db = sched.rec.entries[e].db
                             /\ worker[w].pc = IF flag = "preload" THEN "queryP" ELSE "queryM"

\* A session lock is held by the worker that selected the index, preloads or
\* maintains it, and by no other: it survives the commit between selection and
\* action, is given up for an accelerator build, and no error, early end or
\* termination leaves it behind (evoke_maintenance_worker_main).
LockMatchesAction ==
  \A i \in DOMAIN lock, w \in DOMAIN worker :
    (lock[i] = w) <=> /\ worker[w].pc \in {"pickP", "preload", "apply", "execute"}
                      /\ worker[w].chosen.index = i

Exhausted == sched.hints.sequence + 3 > MaxSequence

=============================================================================
