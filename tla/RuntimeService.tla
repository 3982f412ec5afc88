--------------------------- MODULE RuntimeService ---------------------------
(***************************************************************************)
(* The shared runtime service of src/evoke_semantic.c: SQL backends queue  *)
(* encoding requests in shared memory, a pool of background workers runs   *)
(* the model and writes each result into the response slot the request     *)
(* reserved, and the backend copies it out.  One lock guards the tables,   *)
(* but results are copied with the lock released, a backend may give up or *)
(* disappear at any moment, and a worker may exit and restart.             *)
(*                                                                         *)
(* A backend process and a worker incarnation are identities that are not  *)
(* reused (the code compares a pid and a PGPROC number).  The text of a    *)
(* request is its identifier; a result is the identifier of the request it *)
(* answers.                                                                *)
(***************************************************************************)
EXTENDS Integers, FiniteSets, FiniteSetsExt

CONSTANTS
    Backends,             \* backend processes
    Workers,              \* configured worker slots
    Models,               \* model paths with their precision
    None,                 \* no process, no model
    ResponseCapacity,     \* EVOKE_RUNTIME_SERVICE_RESPONSE_CAPACITY
    ReservedResponses,    \* EVOKE_RUNTIME_SERVICE_RESERVED_QUERY_RESPONSES
    PipelineDepth,        \* evoke.runtime_document_pipeline_depth
    ReserveQueryLane,     \* evoke.runtime_reserve_query_lane
    AffinityBypassLimit,  \* EVOKE_RUNTIME_SERVICE_AFFINITY_BYPASS_LIMIT
    Kinds,                \* request kinds the backends submit
    Faults,               \* faults that may happen in this instance
    Sweepers,             \* bound: processes dropping orphans at one time
    MaxRequests,          \* bound: requests admitted
    MaxStarts             \* bound: incarnations after which workers live on

RuntimeConstants ==
    /\ ResponseCapacity \in Nat \ {0}
    /\ ReservedResponses \in Nat \ {0}
    /\ PipelineDepth \in Nat \ {0}
    /\ ReserveQueryLane \in BOOLEAN
    /\ AffinityBypassLimit \in Nat
    /\ Kinds \subseteq {"query", "document"}
    /\ Faults \subseteq {"interrupt", "exit", "stop", "die", "fail", "hang"}
    /\ IsFiniteSet(Workers)
    /\ MaxRequests \in Nat /\ MaxStarts \in Nat
    /\ None \notin Backends \cup Workers \cup Models

VARIABLES
    queue,    \* requests waiting for a worker
    resp,     \* response slots
    worker,   \* worker entries in shared memory
    proc,     \* the worker processes themselves
    client,   \* the backends
    lastId,   \* request_id, the last identifier handed out
    starts,   \* worker incarnations so far
    orphan,   \* what a process that looks for orphan responses has read
    census    \* what a process that counts ready workers has read

shared == <<queue, resp, worker, lastId>>
vars == <<queue, resp, worker, proc, client, lastId, starts, orphan, census>>

Slots == 1 .. ResponseCapacity
Ids == 0 .. MaxRequests
Pids == 0 .. MaxStarts + Cardinality(Workers)

FreeResponse == [id |-> 0, owner |-> None, kind |-> "query", ready |-> FALSE,
                 writing |-> FALSE, error |-> FALSE, data |-> 0]
EmptyWorker == [pid |-> 0, ready |-> FALSE, id |-> 0, slot |-> 0,
                doc |-> FALSE, owner |-> None, cancel |-> FALSE,
                affinity |-> <<>>]
Down == [pc |-> "down", pid |-> 0, id |-> 0, slot |-> 0, kind |-> "query",
         model |-> None, error |-> FALSE]
IdleClient == [pc |-> "idle", kind |-> "query", model |-> None, id |-> 0,
               slot |-> 0, got |-> 0]

Alive(b) == client[b].pc # "exited"
Processing(w) == worker[w].id # 0
Ready == {w \in Workers : worker[w].ready}

(***************************************************************************)
(* Tables under the lock.                                                  *)
(***************************************************************************)
ClearResponse(r, s) == [r EXCEPT ![s] = FreeResponse]

\* Mutant: the waiting backend is told nothing.
UnavailableSilently(w) == resp

\* A worker entry is given up: the request it processed is answered with an
\* error, or its slot released when nobody waits for it any more.
UnavailableResponses(w) ==
    LET s == worker[w].slot
    IN IF ~Processing(w) \/ resp[s].id # worker[w].id THEN resp
       ELSE IF resp[s].owner = None THEN ClearResponse(resp, s)
       ELSE [resp EXCEPT ![s] = [@ EXCEPT !.writing = FALSE, !.error = TRUE,
                                          !.data = 0, !.ready = TRUE]]

MarkUnavailable(w) ==
    /\ resp' = UnavailableResponses(w)
    /\ worker' = [worker EXCEPT ![w] = EmptyWorker]

\* What cancel_request leaves of the response slots: one not dispatched yet or
\* already answered is free, one a worker still uses only loses its owner.
CanceledResponses(id) ==
    LET queued == \E r \in queue : r.id = id
        touched == {worker[w].slot : w \in {v \in Workers : worker[v].id = id}}
    IN [s \in Slots |->
          IF resp[s].id = id /\ (queued \/ resp[s].ready) THEN FreeResponse
          ELSE IF resp[s].id = id \/ s \in touched
               THEN [resp[s] EXCEPT !.owner = None]
          ELSE resp[s]]

\* The worker that runs the request is asked to stop it.
CanceledWorkers(id) ==
    [w \in Workers |-> IF worker[w].id = id
                       THEN [worker[w] EXCEPT !.cancel = TRUE, !.owner = None]
                       ELSE worker[w]]

CanceledQueue(id) ==
    {IF r.id = id THEN [r EXCEPT !.canceled = TRUE] ELSE r : r \in queue}

CancelRequest(id) ==
    /\ queue' = CanceledQueue(id)
    /\ worker' = CanceledWorkers(id)
    /\ resp' = CanceledResponses(id)

\* finish_request_locked: the worker entry lets go of its request.
Finished(w, id) ==
    IF worker[w].id = id
    THEN [worker EXCEPT ![w] = [@ EXCEPT !.id = 0, !.slot = 0, !.doc = FALSE,
                                         !.owner = None, !.cancel = FALSE]]
    ELSE worker

(***************************************************************************)
(* Lanes: how much document work is admitted and dispatched.               *)
(***************************************************************************)
ReservedWorkers(n) == IF ReserveQueryLane /\ n > 1 THEN 1 ELSE 0

LocalPipelineDepth ==
    LET n == Cardinality(Workers)
    IN Max({Min({PipelineDepth, ResponseCapacity, n - ReservedWorkers(n)}), 1})

MaxDocumentWorkers == Cardinality(Ready) - ReservedWorkers(Cardinality(Ready))
ActiveDocumentWorkers == Cardinality({w \in Ready : worker[w].doc})

DocumentCapacity == ActiveDocumentWorkers < MaxDocumentWorkers

PendingDocuments ==
    Cardinality({r \in queue : ~r.canceled /\ r.kind = "document"})
DocumentResponses ==
    Cardinality({s \in Slots : resp[s].id # 0 /\ resp[s].kind = "document"})
ReservedQueryResponses ==
    IF ReserveQueryLane /\ ResponseCapacity > 1
    THEN Min({ReservedResponses, ResponseCapacity - 1})
    ELSE 0

FreeSlots == {s \in Slots : resp[s].id = 0}

QueueFull(kind) ==
    \/ Cardinality(queue) >= ResponseCapacity
    \/ FreeSlots = {}
    \/ /\ kind = "document"
       /\ \/ PendingDocuments >= LocalPipelineDepth
          \/ DocumentResponses >= ResponseCapacity - ReservedQueryResponses

(***************************************************************************)
(* Choice of the next request, oldest first unless a warm model is near.   *)
(***************************************************************************)
Affine(w, r) == worker[w].affinity = <<r.kind, r.model>>

OtherIdleAffine(w, r) ==
    \E v \in Ready \ {w} : ~Processing(v) /\ Affine(v, r)

AdditionalRequest(q, r) ==
    \E o \in q : /\ o.id # r.id /\ o.kind = r.kind /\ o.model = r.model
                 /\ o.kind = "document" => DocumentCapacity

Selectable(w, q) ==
    {r \in q : /\ r.kind = "document" => DocumentCapacity
               /\ \/ Affine(w, r)
                  \/ ~OtherIdleAffine(w, r)
                  \/ AdditionalRequest(q, r)}

Oldest(q) == CHOOSE r \in q : \A o \in q : r.id <= o.id

SelectRequest(w, q) ==
    LET candidates == Selectable(w, q)
        affine == {r \in candidates : Affine(w, r)}
    IN IF /\ affine # {}
          /\ Oldest(affine).id - Oldest(candidates).id <= AffinityBypassLimit
       THEN Oldest(affine)
       ELSE Oldest(candidates)

(***************************************************************************)
(* Backends.                                                               *)
(***************************************************************************)
\* A backend enters evoke_runtime_service_enqueue.
Submit(b, kind, model) ==
    /\ client[b].pc = "idle"
    /\ lastId < MaxRequests
    /\ client' = [client EXCEPT ![b] =
                    [@ EXCEPT !.pc = "admit", !.kind = kind, !.model = model]]
    /\ UNCHANGED <<shared, proc, starts, orphan, census>>

\* try_enqueue_prepared: a response slot and a queue entry are taken together.
Enqueue(b) ==
    /\ client[b].pc = "admit"
    /\ lastId < MaxRequests
    /\ Ready # {}
    /\ ~QueueFull(client[b].kind)
    /\ \E id \in {lastId + 1}, s \in {Min(FreeSlots)} :
         /\ lastId' = id
         /\ resp' = [resp EXCEPT ![s] =
                       [FreeResponse EXCEPT !.id = id, !.owner = b,
                                            !.kind = client[b].kind]]
         /\ queue' = queue \cup
              {[id |-> id, slot |-> s, kind |-> client[b].kind,
                model |-> client[b].model, caller |-> b, canceled |-> FALSE]}
         /\ client' = [client EXCEPT ![b] =
                         [@ EXCEPT !.pc = "wait", !.id = id, !.slot = s]]
    /\ UNCHANGED <<worker, proc, starts, orphan, census>>

\* No worker is ready, or the statement is interrupted, before admission.
GiveUpAdmission(b) ==
    /\ client[b].pc = "admit"
    /\ Ready = {} \/ "interrupt" \in Faults \/ lastId = MaxRequests
    /\ client' = [client EXCEPT ![b] = IdleClient]
    /\ UNCHANGED <<shared, proc, starts, orphan, census>>

Delivered(b) ==
    LET s == client[b].slot
    IN resp[s].ready /\ resp[s].id = client[b].id /\ resp[s].owner = b

\* wait_async sees the answer under the shared lock ...
SeeAnswer(b) ==
    /\ client[b].pc = "wait"
    /\ Delivered(b)
    /\ client' = [client EXCEPT ![b].pc = "copy"]
    /\ UNCHANGED <<shared, proc, starts, orphan, census>>

\* ... copies it without the lock, and releases the slot if it is still its
\* own; otherwise it throws the copy away and waits again.
TakeAnswer(b) ==
    /\ client[b].pc = "copy"
    /\ LET s == client[b].slot
       IN IF Delivered(b)
          THEN /\ resp' = ClearResponse(resp, s)
               /\ client' = [client EXCEPT ![b] =
                     [@ EXCEPT !.pc = "answered", !.got =
                        IF resp[s].error THEN -1 ELSE resp[s].data]]
          ELSE /\ client' = [client EXCEPT ![b].pc = "wait"]
               /\ UNCHANGED resp
    /\ UNCHANGED <<queue, worker, proc, lastId, starts, orphan, census>>

\* The caller uses the result, or reports the error, and goes on.
NextStatement(b) ==
    /\ client[b].pc = "answered"
    /\ client' = [client EXCEPT ![b] = IdleClient]
    /\ UNCHANGED <<shared, proc, starts, orphan, census>>

\* The PG_CATCH of wait_async: the statement is interrupted, or no worker is
\* left, while the request is queued, processed, being answered or answered.
CancelWait(b) ==
    /\ client[b].pc = "wait"
    /\ "interrupt" \in Faults \/ Ready = {}
    /\ CancelRequest(client[b].id)
    /\ client' = [client EXCEPT ![b] = IdleClient]
    /\ UNCHANGED <<proc, lastId, starts, orphan, census>>

\* The backend process ends without running its handlers (a FATAL error);
\* before admission there is nothing it could leave behind.
BackendExit(b) ==
    /\ "exit" \in Faults
    /\ client[b].pc = "wait"
    /\ client' = [client EXCEPT ![b] = [IdleClient EXCEPT !.pc = "exited"]]
    /\ UNCHANGED <<shared, proc, starts, orphan, census>>

(***************************************************************************)
(* Workers.                                                                *)
(***************************************************************************)
\* The postmaster starts or restarts the worker of a slot.
WorkerStart(w) ==
    /\ proc[w].pc = "down"
    /\ starts' = starts + 1
    /\ resp' = UnavailableResponses(w)
    /\ worker' = [worker EXCEPT ![w] = [EmptyWorker EXCEPT
                                          !.pid = starts + 1, !.ready = TRUE]]
    /\ proc' = [proc EXCEPT ![w] = [Down EXCEPT !.pc = "poll",
                                                !.pid = starts + 1]]
    /\ UNCHANGED <<queue, client, lastId, orphan, census>>

\* drop_canceled_requests_locked.
LiveRequests == {r \in queue : ~r.canceled}
DroppedResponses ==
    [s \in Slots |->
       IF \E r \in queue : r.canceled /\ r.slot = s /\ resp[s].id = r.id
       THEN FreeResponse ELSE resp[s]]

\* One turn of the worker's loop under the lock: drop what was canceled and
\* take the selected request off the queue.
Dispatch(w) ==
    /\ proc[w].pc = "poll"
    /\ worker[w].ready /\ ~Processing(w)
    /\ Selectable(w, LiveRequests) # {}
    /\ \E r \in {SelectRequest(w, LiveRequests)} :
         /\ queue' = LiveRequests \ {r}
         /\ worker' = [worker EXCEPT ![w] =
              [@ EXCEPT !.id = r.id, !.slot = r.slot, !.owner = r.caller,
                        !.doc = (r.kind = "document"), !.cancel = FALSE]]
         /\ proc' = [proc EXCEPT ![w] =
              [@ EXCEPT !.pc = "run", !.id = r.id, !.slot = r.slot,
                        !.kind = r.kind, !.model = r.model]]
    /\ resp' = DroppedResponses
    /\ UNCHANGED <<client, lastId, starts, orphan, census>>

\* The same turn when there is nothing for this worker.
DropCanceled(w) ==
    /\ proc[w].pc = "poll"
    /\ LiveRequests # queue
    /\ ~worker[w].ready \/ Selectable(w, LiveRequests) = {}
    /\ queue' = LiveRequests
    /\ resp' = DroppedResponses
    /\ UNCHANGED <<worker, proc, client, lastId, starts, orphan, census>>

\* The model run returns; a canceled one returns an error once the monitor
\* thread has seen the flag.  The entry remembers the warm model.
RunReturns(w, error) ==
    /\ proc[w].pc = "run"
    /\ error => "fail" \in Faults \/ worker[w].cancel
    /\ proc' = [proc EXCEPT ![w] = [@ EXCEPT !.pc = "store", !.error = error]]
    /\ worker' = IF error THEN worker
                 ELSE [worker EXCEPT ![w].affinity =
                         <<proc[w].kind, proc[w].model>>]
    /\ UNCHANGED <<queue, resp, client, lastId, starts, orphan, census>>

\* The provider does not come back, not even when asked to terminate.
RunHangs(w) ==
    /\ "hang" \in Faults
    /\ proc[w].pc = "run"
    /\ proc' = [proc EXCEPT ![w].pc = "hung"]
    /\ UNCHANGED <<shared, client, starts, orphan, census>>

Polling(p) == [Down EXCEPT !.pc = "poll", !.pid = p.pid]

\* store_response, first critical section.
StoreBegin(w) ==
    LET s == proc[w].slot
        id == proc[w].id
    IN /\ proc[w].pc = "store"
       /\ IF resp[s].id = id /\ resp[s].owner # None
          THEN /\ resp' = [resp EXCEPT ![s] =
                    [@ EXCEPT !.ready = FALSE, !.writing = TRUE,
                              !.error = proc[w].error]]
               /\ proc' = [proc EXCEPT ![w].pc = "fill"]
               /\ UNCHANGED worker
          ELSE /\ resp' = IF resp[s].id = id THEN ClearResponse(resp, s)
                          ELSE resp
               /\ proc' = [proc EXCEPT ![w] = Polling(@)]
               /\ worker' = Finished(w, id)
       /\ UNCHANGED <<queue, client, lastId, starts, orphan, census>>

\* The result is copied into the slot with the lock released.
FillResponse(w) ==
    /\ proc[w].pc = "fill"
    /\ proc' = [proc EXCEPT ![w].pc = "commit"]
    /\ resp' = [resp EXCEPT ![proc[w].slot].data =
                  IF proc[w].error THEN 0 ELSE proc[w].id]
    /\ UNCHANGED <<queue, worker, client, lastId, starts, orphan, census>>

\* store_response, second critical section: the slot is answered if it still
\* belongs to the owner read in the first one, and cleared otherwise.
StoreEnd(w) ==
    LET s == proc[w].slot
        id == proc[w].id
    IN /\ proc[w].pc = "commit"
       /\ resp' = IF resp[s].id = id /\ resp[s].owner # None
                  THEN [resp EXCEPT ![s] = [@ EXCEPT !.writing = FALSE,
                                                     !.ready = TRUE]]
                  ELSE ClearResponse(resp, s)
       /\ worker' = Finished(w, id)
       /\ proc' = [proc EXCEPT ![w] = Polling(@)]
       /\ UNCHANGED <<queue, client, lastId, starts, orphan, census>>

\* The worker ends through its exit callback, which gives up its entry ...
WorkerStop(w) ==
    /\ "stop" \in Faults
    /\ starts < MaxStarts
    /\ proc[w].pc \in {"poll", "run"}
    /\ IF worker[w].pid = proc[w].pid
       THEN MarkUnavailable(w)
       ELSE UNCHANGED <<resp, worker>>
    /\ proc' = [proc EXCEPT ![w] = Down]
    /\ UNCHANGED <<queue, client, lastId, starts, orphan, census>>

\* ... or by a termination request, when the callback leaves the entry as is.
WorkerDie(w) ==
    /\ "die" \in Faults
    /\ starts < MaxStarts
    /\ proc[w].pc \in {"poll", "run"}
    /\ proc' = [proc EXCEPT ![w] = Down]
    /\ UNCHANGED <<shared, client, starts, orphan, census>>

(***************************************************************************)
(* Housekeeping, called from the loops of workers and waiting backends.    *)
(* Each reads under the shared lock, looks at the process table, and takes *)
(* the exclusive lock afterwards.  One counting reader is followed at a    *)
(* time.                                                                   *)
(***************************************************************************)
NothingRead == [slot |-> 0, id |-> 0, owner |-> None]
NobodyCounted == [w |-> None, pid |-> 0]

Sweeping == \/ \E w \in Workers : proc[w].pc = "poll"
            \/ \E b \in Backends : client[b].pc = "admit"
Counting == \E b \in Backends : client[b].pc \in {"admit", "wait"}

\* drop_orphan_responses finds a slot whose owner is no longer running.
LookForOrphan(p, s) ==
    /\ Sweeping
    /\ orphan[p] = NothingRead
    /\ resp[s].id # 0 /\ resp[s].owner # None /\ ~Alive(resp[s].owner)
    /\ orphan' = [orphan EXCEPT ![p] = [slot |-> s, id |-> resp[s].id,
                                        owner |-> resp[s].owner]]
    /\ UNCHANGED <<shared, proc, client, starts, census>>

\* Mutant: the slot is not read again under the exclusive lock.
StillOrphanUnchecked(o) == TRUE

StillOrphan(o) == resp[o.slot].id = o.id /\ resp[o.slot].owner = o.owner

\* It drops the slot, or leaves that to the worker that still uses it.
DropOrphan(p) ==
    LET s == orphan[p].slot
        busy == {w \in Workers : worker[w].id = orphan[p].id}
    IN /\ orphan[p] # NothingRead
       /\ orphan' = [orphan EXCEPT ![p] = NothingRead]
       /\ IF ~StillOrphan(orphan[p])
          THEN UNCHANGED <<queue, resp, worker>>
          ELSE IF busy # {} \/ resp[s].writing
          THEN /\ resp' = [resp EXCEPT ![s].owner = None]
               /\ worker' = [w \in Workers |->
                               IF w \in busy
                               THEN [worker[w] EXCEPT !.owner = None]
                               ELSE worker[w]]
               /\ UNCHANGED queue
          ELSE /\ queue' = CanceledQueue(orphan[p].id)
               /\ resp' = ClearResponse(resp, s)
               /\ UNCHANGED worker
       /\ UNCHANGED <<proc, client, lastId, starts, census>>

\* ready_worker_count finds an entry whose process is gone.
LookForDeadWorker(w) ==
    /\ Counting
    /\ census = NobodyCounted
    /\ worker[w].ready /\ worker[w].pid # proc[w].pid
    /\ census' = [w |-> w, pid |-> worker[w].pid]
    /\ UNCHANGED <<shared, proc, client, starts, orphan>>

\* Mutant: the entry is given up without comparing the incarnation.
MarkDeadWorkerUnchecked ==
    /\ census # NobodyCounted
    /\ census' = NobodyCounted
    /\ MarkUnavailable(census.w)
    /\ UNCHANGED <<queue, proc, client, lastId, starts, orphan>>

\* It gives the entry up, unless a new incarnation has taken it over.
MarkDeadWorker ==
    /\ census # NobodyCounted
    /\ census' = NobodyCounted
    /\ IF worker[census.w].pid = census.pid
       THEN MarkUnavailable(census.w)
       ELSE UNCHANGED <<resp, worker>>
    /\ UNCHANGED <<queue, proc, client, lastId, starts, orphan>>

Init ==
    /\ queue = {}
    /\ resp = [s \in Slots |-> FreeResponse]
    /\ worker = [w \in Workers |-> EmptyWorker]
    /\ proc = [w \in Workers |-> Down]
    /\ client = [b \in Backends |-> IdleClient]
    /\ lastId = 0
    /\ starts = 0
    /\ orphan = [p \in Sweepers |-> NothingRead]
    /\ census = NobodyCounted

BackendNext(b) ==
    \/ \E kind \in Kinds, model \in Models : Submit(b, kind, model)
    \/ Enqueue(b) \/ GiveUpAdmission(b)
    \/ SeeAnswer(b) \/ TakeAnswer(b) \/ NextStatement(b)
    \/ CancelWait(b) \/ BackendExit(b)

WorkerNext(w) ==
    \/ WorkerStart(w) \/ Dispatch(w) \/ DropCanceled(w)
    \/ \E error \in BOOLEAN : RunReturns(w, error)
    \/ RunHangs(w)
    \/ StoreBegin(w) \/ FillResponse(w) \/ StoreEnd(w)
    \/ WorkerStop(w) \/ WorkerDie(w)

Housekeeping ==
    \/ \E p \in Sweepers : DropOrphan(p) \/ \E s \in Slots : LookForOrphan(p, s)
    \/ \E w \in Workers : LookForDeadWorker(w)
    \/ MarkDeadWorker

Next == \/ \E b \in Backends : BackendNext(b)
        \/ \E w \in Workers : WorkerNext(w)
        \/ Housekeeping

Spec == Init /\ [][Next]_vars

(***************************************************************************)
(* Properties.                                                             *)
(***************************************************************************)
\* The tables keep their shapes, and the queue never holds more entries than
\* the shared array has, canceled ones that await their removal included.
TypeOK ==
    /\ Cardinality(queue) <= ResponseCapacity
    /\ queue \subseteq [id : Ids \ {0}, slot : Slots,
                        kind : {"query", "document"}, model : Models,
                        caller : Backends, canceled : BOOLEAN]
    /\ resp \in [Slots -> [id : Ids, owner : Backends \cup {None},
                           kind : {"query", "document"}, ready : BOOLEAN,
                           writing : BOOLEAN, error : BOOLEAN, data : Ids]]
    /\ worker \in [Workers ->
         [pid : Pids, ready : BOOLEAN, id : Ids,
          slot : Slots \cup {0}, doc : BOOLEAN,
          owner : Backends \cup {None}, cancel : BOOLEAN,
          affinity : {<<>>} \cup ({"query", "document"} \X Models)]]
    /\ \A w \in Workers :
         proc[w].pc \in {"down", "poll", "run", "hung", "store", "fill",
                         "commit"}
    /\ \A b \in Backends :
         client[b].pc \in {"idle", "admit", "wait", "copy", "answered",
                           "exited"}
    /\ lastId \in Ids /\ starts \in Pids

\* A request somebody waits for is in exactly one place: queued, with one
\* worker, or answered; and its slot is the one the backend looks at.
RequestTracked ==
    \A b \in Backends : client[b].pc \in {"wait", "copy"} =>
        LET id == client[b].id
            s == client[b].slot
        IN /\ resp[s].id = id /\ resp[s].owner = b
           /\ Cardinality({r \in LiveRequests : r.id = id})
              + Cardinality({w \in Workers : worker[w].id = id})
              + (IF resp[s].ready THEN 1 ELSE 0) = 1

\* While a worker process produces, copies or commits a result, the slot it
\* writes to with the lock released belongs to the request it took, and its
\* entry says so: nobody frees or reuses it under the copy.
WriterExclusive ==
    \A w \in Workers : proc[w].pc \in {"run", "hung", "store", "fill", "commit"} =>
        /\ worker[w].pid = proc[w].pid
        /\ worker[w].id = proc[w].id /\ worker[w].slot = proc[w].slot
        /\ resp[proc[w].slot].id = proc[w].id

\* A backend that copies a response out reads an answer nobody else touches,
\* and what it returns is the result of its own request or an error.
AnswerIsOwn ==
    \A b \in Backends :
        /\ client[b].pc = "copy" => Delivered(b)
        /\ client[b].pc = "answered" => client[b].got \in {-1, client[b].id}

\* A slot without owner is still held by a worker that will free it: neither
\* a canceled statement nor a vanished backend leaks a response slot.
OwnerlessInUse ==
    \A s \in Slots : resp[s].id # 0 /\ resp[s].owner = None =>
        \E w \in Workers : worker[w].id = resp[s].id

\* The cancel flag never stops the run of a request somebody waits for.
CancelPrecise ==
    \A w \in Workers : worker[w].cancel =>
        Processing(w) /\ resp[worker[w].slot].owner = None

\* With the query lane reserved, documents leave a response slot to queries,
\* and one of two or more ready workers: as long as every incarnation started
\* is still listed, since a worker that goes away may leave documents on all
\* that remain.
DocumentsLeaveALane ==
    ReserveQueryLane =>
        /\ Cardinality(Ready) = starts /\ starts >= 2 =>
              ActiveDocumentWorkers < Cardinality(Ready)
        /\ ResponseCapacity > 1 => DocumentResponses < ResponseCapacity

\* A request somebody waits for is queued, with one worker, or answered,
\* whoever died, canceled or swept meanwhile; ownerless slots are in use by
\* somebody; and document work leaves queries a lane.
RequestsTracked ==
    /\ TypeOK /\ RequestTracked /\ OwnerlessInUse /\ DocumentsLeaveALane

\* A backend reads the answer to its own request: one writer at a time per
\* slot, and a cancel flag stops the request it was raised for.
AnswersOwn == AnswerIsOwn /\ WriterExclusive /\ CancelPrecise

=============================================================================
