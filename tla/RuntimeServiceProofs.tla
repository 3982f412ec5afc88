------------------------- MODULE RuntimeServiceProofs -------------------------
(***************************************************************************)
(* Proofs about RuntimeService, for any backends, workers, response slots  *)
(* and faults.  The argument follows a request: it is in the queue, with   *)
(* one worker, or answered in its slot, and who may touch the slot next is *)
(* decided by where it is.                                                 *)
(***************************************************************************)
EXTENDS RuntimeService, FiniteSetTheorems, WellFoundedInduction, TLAPS

(***************************************************************************)
(* The inductive invariant                                                 *)
(***************************************************************************)
Kind == {"query", "document"}
Busy == {"run", "hung", "store", "fill", "commit"}

Request == [id : Ids \ {0}, slot : Slots, kind : Kind, model : Models,
            caller : Backends, canceled : BOOLEAN]
Response == [id : Ids, owner : Backends \cup {None}, kind : Kind,
             ready : BOOLEAN, writing : BOOLEAN, error : BOOLEAN, data : Ids]
Entry == [pid : Pids, ready : BOOLEAN, id : Ids, slot : Slots \cup {0},
          doc : BOOLEAN, owner : Backends \cup {None}, cancel : BOOLEAN,
          affinity : {<<>>} \cup (Kind \X Models)]
Process == [pc : {"down", "poll"} \cup Busy, pid : Pids, id : Ids,
            slot : Slots \cup {0}, kind : Kind, model : Models \cup {None},
            error : BOOLEAN]
Client == [pc : {"idle", "admit", "wait", "copy", "answered", "exited"},
           kind : Kind, model : Models \cup {None}, id : Ids,
           slot : Slots \cup {0}, got : Ids \cup {-1}]

Shapes ==
    /\ queue \subseteq Request
    /\ resp \in [Slots -> Response]
    /\ worker \in [Workers -> Entry]
    /\ proc \in [Workers -> Process]
    /\ client \in [Backends -> Client]
    /\ lastId \in Ids /\ starts \in Nat
    /\ orphan \in [Sweepers -> [slot : Slots \cup {0}, id : Ids,
                                owner : Backends \cup {None}]]
    /\ census \in [w : Workers \cup {None}, pid : Pids]

\* The request a slot is reserved for is queued, with a worker, or answered.
Queued(id) == \E r \in queue : r.id = id /\ ~r.canceled
With(id) == \E w \in Workers : worker[w].id = id

QueueSound ==
    /\ IsFiniteSet(queue) /\ Cardinality(queue) <= ResponseCapacity
    /\ \A q, r \in queue : q.id = r.id => q = r
    /\ \A r \in queue :
         /\ r.id <= lastId
         /\ ~With(r.id)
         /\ ~r.canceled => resp[r.slot].id = r.id /\ ~resp[r.slot].ready
         /\ r.canceled => \A s \in Slots : resp[s].id # r.id

RespSound ==
    /\ \A s, t \in Slots : resp[s].id # 0 /\ resp[s].id = resp[t].id => s = t
    /\ \A s \in Slots :
         /\ resp[s].id <= lastId
         /\ resp[s].id # 0 =>
              /\ resp[s].ready => /\ resp[s].owner # None /\ ~With(resp[s].id)
                                  /\ ~resp[s].error => resp[s].data = resp[s].id
              /\ ~resp[s].ready => Queued(resp[s].id) \/ With(resp[s].id)
              /\ resp[s].owner = None \/ resp[s].writing => With(resp[s].id)

WorkerSound ==
    /\ \A v, w \in Workers : worker[v].id # 0 /\ worker[v].id = worker[w].id => v = w
    /\ \A w \in Workers :
         /\ worker[w].pid <= starts
         /\ worker[w].ready => worker[w].pid # 0
         /\ worker[w].id # 0 =>
              /\ worker[w].slot \in Slots
              /\ resp[worker[w].slot].id = worker[w].id
              /\ ~resp[worker[w].slot].ready
         /\ worker[w].cancel =>
              worker[w].id # 0 /\ resp[worker[w].slot].owner = None

ProcessSound(w) ==
    /\ proc[w].pid <= starts
    /\ proc[w].pc = "down" => proc[w].pid = 0
    /\ proc[w].pc # "down" => worker[w].pid = proc[w].pid /\ worker[w].ready
    /\ proc[w].pc = "poll" => worker[w].id = 0
    /\ proc[w].pc \in Busy =>
         /\ worker[w].id = proc[w].id /\ proc[w].id # 0
         /\ worker[w].slot = proc[w].slot /\ proc[w].model \in Models
    /\ proc[w].pc \in {"fill", "commit"} =>
         resp[proc[w].slot].error = proc[w].error
    /\ proc[w].pc = "commit" =>
         resp[proc[w].slot].data = IF proc[w].error THEN 0 ELSE proc[w].id

ProcSound == \A w \in Workers : ProcessSound(w)

BackendSound(b) ==
    /\ client[b].pc = "admit" => client[b].model \in Models
    /\ client[b].pc \in {"wait", "copy"} =>
         /\ client[b].id # 0 /\ client[b].slot \in Slots
         /\ resp[client[b].slot].id = client[b].id
         /\ resp[client[b].slot].owner = b
    /\ client[b].pc = "copy" => resp[client[b].slot].ready
    /\ client[b].pc = "answered" => client[b].got \in {-1, client[b].id}

ClientSound == \A b \in Backends : BackendSound(b)

\* What a housekeeping process has read stays true of those it was about.
SweepsSound ==
    /\ \A p \in Sweepers : orphan[p] # NothingRead =>
         /\ orphan[p].slot \in Slots /\ orphan[p].id # 0
         /\ orphan[p].owner \in Backends
         /\ client[orphan[p].owner].pc = "exited"
    /\ census # NobodyCounted =>
         /\ census.w \in Workers /\ census.pid \in 1 .. starts
         /\ proc[census.w].pid # census.pid

\* How many incarnations there are and what the documents may take.
Up == {w \in Workers : proc[w].pc # "down"}
DocumentWorkers == {w \in Ready : worker[w].doc}
DocumentSlots == {s \in Slots : resp[s].id # 0 /\ resp[s].kind = "document"}

PoolSound ==
    /\ starts <= MaxStarts + Cardinality(Up)
    /\ Cardinality(Ready) <= starts
    /\ ReserveQueryLane /\ Cardinality(Ready) = starts /\ starts >= 2 =>
         Cardinality(DocumentWorkers) < starts
    /\ ReserveQueryLane /\ ResponseCapacity > 1 =>
         Cardinality(DocumentSlots) < ResponseCapacity

IInv ==
    /\ Shapes
    /\ QueueSound
    /\ RespSound
    /\ WorkerSound
    /\ ProcSound
    /\ ClientSound
    /\ SweepsSound
    /\ PoolSound

(***************************************************************************)
(* Lemmas about functions, sets and the operators                          *)
(***************************************************************************)
\* One entry of a table changes.
LEMMA OneChange ==
    ASSUME NEW S, NEW T, NEW f \in [S -> T], NEW a \in S, NEW x \in T,
           NEW g, g = [f EXCEPT ![a] = x]
    PROVE  /\ g \in [S -> T] /\ g[a] = x
           /\ \A b \in S : b # a => g[b] = f[b]
  OBVIOUS

\* The size of a set after one element came or went.
LEMMA OneElement ==
    ASSUME NEW S, IsFiniteSet(S), NEW T, NEW x, T \ {x} = S \ {x}
    PROVE  /\ IsFiniteSet(T)
           /\ Cardinality(S) \in Nat
           /\ Cardinality(T) \in Nat
           /\ (x \in S <=> x \in T) => Cardinality(T) = Cardinality(S)
           /\ x \in S /\ x \notin T => Cardinality(T) = Cardinality(S) - 1
           /\ x \notin S /\ x \in T => Cardinality(T) = Cardinality(S) + 1
<1>1. /\ IsFiniteSet(S \ {x})
      /\ Cardinality(S \ {x}) =
           IF x \in S THEN Cardinality(S) - 1 ELSE Cardinality(S)
  BY FS_RemoveElement
<1>2. Cardinality(S) \in Nat /\ Cardinality(S \ {x}) \in Nat
  BY <1>1, FS_CardinalityType
<1>3. CASE x \in T
  <2>1. T = (S \ {x}) \cup {x}
    BY <1>3
  <2>2. /\ IsFiniteSet(T)
        /\ Cardinality(T) = Cardinality(S \ {x}) + 1
    BY <1>1, <2>1, FS_AddElement
  <2> QED
    BY <1>1, <1>2, <1>3, <2>2
<1>4. CASE x \notin T
  <2>1. T = S \ {x}
    BY <1>4
  <2> QED
    BY <1>1, <1>2, <1>4, <2>1
<1> QED
  BY <1>3, <1>4

\* A nonempty set of naturals has a least element.
LEMMA LeastElement ==
    ASSUME NEW S \in SUBSET Nat, S # {}
    PROVE  \E x \in S : \A y \in S : x <= y
<1> DEFINE T == {0 .. n : n \in S}
<1>1. \A n \in S : (0 .. n) \in SUBSET Nat /\ IsFiniteSet(0 .. n)
  BY FS_Interval
<1>2. T \subseteq FiniteSubsetsOf(Nat) /\ T # {}
  BY <1>1 DEF FiniteSubsetsOf
<1>3. PICK X \in T : \A Y \in T : ~(<<Y, X>> \in StrictSubsetOrdering(Nat))
  <2> HIDE DEF T
  <2> QED
    BY <1>2, FS_StrictSubsetOrderingWellFounded, WFMin
<1>4. PICK x \in S : X = 0 .. x
  OBVIOUS
<1>5. ASSUME NEW y \in S, y < x
      PROVE  FALSE
  <2>1. /\ 0 .. y \subseteq 0 .. x
        /\ 0 .. x # 0 .. y
    <3>1. x \in 0 .. x /\ x \notin 0 .. y
      BY <1>5
    <3> QED
      BY <1>5, <3>1
  <2>2. <<0 .. y, 0 .. x>> \in StrictSubsetOrdering(Nat)
    BY <2>1, <1>1 DEF StrictSubsetOrdering
  <2> QED
    BY <1>3, <1>4, <2>2
<1>6. \A y \in S : x <= y
  BY <1>5
<1> QED
  BY <1>6

\* What a new request gets is a free slot.
LEMMA FreeSlot ==
    ASSUME RuntimeConstants, FreeSlots # {}
    PROVE  Min(FreeSlots) \in Slots /\ resp[Min(FreeSlots)].id = 0
<1>1. FreeSlots \in SUBSET Nat
  BY DEF FreeSlots, Slots, RuntimeConstants
<1>2. \E x \in FreeSlots : \A y \in FreeSlots : x <= y
  BY <1>1, LeastElement
<1>3. Min(FreeSlots) \in FreeSlots
  BY <1>2 DEF Min
<1> QED
  BY <1>3 DEF FreeSlots

\* What a worker takes from the queue is one of the requests it may take.
LEMMA OldestIsElement ==
    ASSUME NEW q, q # {}, \A r \in q : r.id \in Nat
    PROVE  Oldest(q) \in q
<1> DEFINE S == {r.id : r \in q}
<1>1. PICK n \in S : \A m \in S : n <= m
  BY LeastElement
<1>2. PICK r \in q : r.id = n
  OBVIOUS
<1>3. \A o \in q : r.id <= o.id
  BY <1>1, <1>2
<1> QED
  BY <1>3 DEF Oldest

LEMMA SelectedIsSelectable ==
    ASSUME NEW w, NEW q, Selectable(w, q) # {}, \A r \in q : r.id \in Nat
    PROVE  SelectRequest(w, q) \in Selectable(w, q)
<1> DEFINE candidates == Selectable(w, q)
           affine == {r \in candidates : Affine(w, r)}
<1>1. candidates \subseteq q
  BY DEF Selectable
<1>2. candidates # {} => Oldest(candidates) \in candidates
  BY <1>1, OldestIsElement
<1>3. affine # {} => Oldest(affine) \in affine
  BY <1>1, OldestIsElement
<1>4. SelectRequest(w, q) \in {Oldest(affine), Oldest(candidates)}
  BY DEF SelectRequest
<1>5. SelectRequest(w, q) = Oldest(affine) => affine # {} \/ Oldest(affine) = Oldest(candidates)
  BY DEF SelectRequest
<1> HIDE DEF candidates, affine
<1>6. affine \subseteq candidates /\ candidates # {} /\ candidates = Selectable(w, q)
  BY DEF candidates, affine
<1> QED
  BY <1>2, <1>3, <1>4, <1>5, <1>6

\* A lane for queries exists where there are several slots.
LEMMA QueriesKeepASlot ==
    ASSUME RuntimeConstants, ReserveQueryLane, ResponseCapacity > 1
    PROVE  ReservedQueryResponses \in Nat /\ ReservedQueryResponses >= 1
<1> DEFINE S == {ReservedResponses, ResponseCapacity - 1}
<1>1. ReservedResponses \in Nat \ {0} /\ ResponseCapacity \in Nat
  BY DEF RuntimeConstants
<1>2. \A n \in S : n \in Nat /\ n >= 1
  BY <1>1
<1>3. \E x \in S : \A y \in S : x <= y
  BY <1>2, LeastElement
<1>4. Min(S) \in S
  BY <1>3 DEF Min
<1> QED
  BY <1>2, <1>4 DEF ReservedQueryResponses

(***************************************************************************)
(* Consequences of the invariant                                           *)
(***************************************************************************)
\* The types of the fields the arguments below look at.
LEMMA Fields ==
    ASSUME RuntimeConstants, Shapes
    PROVE  /\ \A r \in queue :
                /\ r.id \in Nat \ {0} /\ r.id \in Ids /\ r.slot \in Slots
                /\ r.kind \in Kind /\ r.model \in Models
                /\ r.caller \in Backends /\ r.canceled \in BOOLEAN
           /\ \A s \in Slots :
                /\ resp[s] \in Response /\ resp[s].id \in Nat
                /\ resp[s].owner \in Backends \cup {None}
                /\ resp[s].ready \in BOOLEAN /\ resp[s].writing \in BOOLEAN
           /\ \A w \in Workers :
                /\ worker[w] \in Entry /\ worker[w].id \in Nat
                /\ worker[w].pid \in Nat /\ worker[w].slot \in Slots \cup {0}
           /\ \A w \in Workers : proc[w] \in Process /\ proc[w].pid \in Nat
           /\ \A b \in Backends : client[b] \in Client
           /\ lastId \in Nat /\ starts \in Nat
  BY DEF RuntimeConstants, Shapes, Request, Response, Entry, Process, Client,
         Ids, Pids

\* Where a request is, and which slot is its own.
LEMMA Places ==
    ASSUME RuntimeConstants, IInv
    PROVE  /\ \A s \in Slots : resp[s].id # 0 /\ resp[s].ready =>
                ~Queued(resp[s].id) /\ ~With(resp[s].id)
           /\ \A w \in Workers, s \in Slots :
                worker[w].id # 0 /\ resp[s].id = worker[w].id =>
                  s = worker[w].slot
           /\ \A w \in Workers : worker[w].id <= lastId
           /\ \A r \in queue : ~r.canceled =>
                resp[r.slot].id = r.id /\ ~resp[r.slot].ready
           /\ \A r \in queue, s \in Slots : resp[s].id = r.id =>
                ~r.canceled /\ s = r.slot
<1>f. /\ \A r \in queue : r.id \in Nat \ {0} /\ r.slot \in Slots
      /\ \A s \in Slots : resp[s].id \in Nat
      /\ \A w \in Workers : worker[w].id \in Nat
      /\ lastId \in Nat
  BY Fields DEF IInv
<1>1. \A s \in Slots : resp[s].id # 0 /\ resp[s].ready => ~With(resp[s].id)
  BY DEF IInv, RespSound
<1>2. \A r \in queue : /\ ~r.canceled => resp[r.slot].id = r.id /\ ~resp[r.slot].ready
                       /\ r.canceled => \A s \in Slots : resp[s].id # r.id
  BY DEF IInv, QueueSound
<1>3. \A s, t \in Slots : resp[s].id # 0 /\ resp[s].id = resp[t].id => s = t
  BY DEF IInv, RespSound
<1>4. \A r \in queue, s \in Slots : resp[s].id = r.id => ~r.canceled /\ s = r.slot
  BY <1>f, <1>2, <1>3
<1>5. \A s \in Slots : resp[s].id # 0 /\ resp[s].ready => ~Queued(resp[s].id)
  BY <1>2, <1>4 DEF Queued
<1>6. \A w \in Workers : worker[w].id # 0 =>
        worker[w].slot \in Slots /\ resp[worker[w].slot].id = worker[w].id
  BY DEF IInv, WorkerSound
<1>7. \A s \in Slots : resp[s].id <= lastId
  BY DEF IInv, RespSound
<1>8. \A w \in Workers : worker[w].id <= lastId
  BY <1>6, <1>7, <1>f
<1> QED
  BY <1>1, <1>2, <1>3, <1>4, <1>5, <1>6, <1>8

\* A free slot is a response slot like another.
LEMMA FreeIsResponse ==
    ASSUME RuntimeConstants
    PROVE  /\ FreeResponse \in Response /\ FreeResponse.id = 0
           /\ EmptyWorker \in Entry /\ EmptyWorker.id = 0
           /\ EmptyWorker.pid = 0 /\ ~EmptyWorker.ready /\ ~EmptyWorker.doc
           /\ ~EmptyWorker.cancel
           /\ Down \in Process /\ Down.pc = "down" /\ Down.pid = 0
           /\ IdleClient \in Client /\ IdleClient.pc = "idle"
<1>1. 0 \in Ids /\ 0 \in Pids
  <2>1. Cardinality(Workers) \in Nat
    BY FS_CardinalityType DEF RuntimeConstants
  <2> QED
    BY <2>1 DEF RuntimeConstants, Ids, Pids
<1>2. FreeResponse \in Response /\ FreeResponse.id = 0
  BY <1>1 DEF FreeResponse, Response, Kind
<1>3. /\ EmptyWorker \in Entry /\ EmptyWorker.id = 0
      /\ EmptyWorker.pid = 0 /\ ~EmptyWorker.ready /\ ~EmptyWorker.doc
      /\ ~EmptyWorker.cancel
  BY <1>1 DEF EmptyWorker, Entry
<1>4. Down \in Process /\ Down.pc = "down" /\ Down.pid = 0
  BY <1>1 DEF Down, Process, Kind, Busy
<1>5. IdleClient \in Client /\ IdleClient.pc = "idle"
  BY <1>1 DEF IdleClient, Client, Kind
<1> QED
  BY <1>2, <1>3, <1>4, <1>5

\* Sets of workers and of slots are finite, and sizes are monotonic.
LEMMA FiniteGroups ==
    ASSUME RuntimeConstants
    PROVE  /\ \A S \in SUBSET Workers : IsFiniteSet(S) /\ Cardinality(S) \in Nat
           /\ \A S \in SUBSET Slots : IsFiniteSet(S) /\ Cardinality(S) \in Nat
           /\ \A S \in SUBSET Workers : \A T \in SUBSET S :
                Cardinality(T) <= Cardinality(S)
           /\ \A S \in SUBSET Slots : \A T \in SUBSET S :
                Cardinality(T) <= Cardinality(S)
           /\ \A S \in SUBSET Workers : \A w \in Workers \ S :
                Cardinality(S) < Cardinality(Workers)
<1>1. IsFiniteSet(Workers)
  BY DEF RuntimeConstants
<1>2. IsFiniteSet(Slots)
  BY FS_Interval DEF RuntimeConstants, Slots
<1>3. /\ \A S \in SUBSET Workers : IsFiniteSet(S)
      /\ \A S \in SUBSET Slots : IsFiniteSet(S)
  BY <1>1, <1>2, FS_Subset
<1>4. /\ \A S \in SUBSET Workers : \A T \in SUBSET S :
                Cardinality(T) <= Cardinality(S)
      /\ \A S \in SUBSET Slots : \A T \in SUBSET S :
                Cardinality(T) <= Cardinality(S)
  BY <1>3, FS_Subset
<1>5. \A S \in SUBSET Workers : \A w \in Workers \ S :
                Cardinality(S) < Cardinality(Workers)
  <2> TAKE S \in SUBSET Workers
  <2> TAKE w \in Workers \ S
  <2>1. S # Workers
    OBVIOUS
  <2> QED
    BY <1>1, <2>1, FS_Subset, FS_CardinalityType
<1> QED
  BY <1>3, <1>4, <1>5, FS_CardinalityType

\* A worker's entry changes: the sets counted change by that worker at most.
LEMMA OneEntry ==
    ASSUME RuntimeConstants, Shapes, NEW w \in Workers, NEW e \in Entry,
           worker' = [worker EXCEPT ![w] = e]
    PROVE  /\ worker' \in [Workers -> Entry]
           /\ worker'[w] = e
           /\ \A v \in Workers : v # w => worker'[v] = worker[v]
           /\ Ready' \ {w} = Ready \ {w}
           /\ w \in Ready' <=> e.ready
           /\ DocumentWorkers' \ {w} = DocumentWorkers \ {w}
           /\ w \in DocumentWorkers' <=> e.ready /\ e.doc
           /\ \A i : i # e.id => (With(i)' <=> \E v \in Workers \ {w} : worker[v].id = i)
           /\ With(e.id)'
<1>1. /\ worker' \in [Workers -> Entry] /\ worker'[w] = e
      /\ \A v \in Workers : v # w => worker'[v] = worker[v]
  BY OneChange DEF Shapes
<1>2. /\ Ready' = {v \in Workers : worker'[v].ready}
      /\ DocumentWorkers' = {v \in Ready' : worker'[v].doc}
  BY DEF Ready, DocumentWorkers
<1>3. Ready' \ {w} = Ready \ {w} /\ (w \in Ready' <=> e.ready)
  BY <1>1, <1>2 DEF Ready
<1>4. /\ DocumentWorkers' \ {w} = DocumentWorkers \ {w}
      /\ w \in DocumentWorkers' <=> e.ready /\ e.doc
  BY <1>1, <1>2, <1>3 DEF DocumentWorkers
<1>5. \A i : With(i)' <=> \E v \in Workers : worker'[v].id = i
  BY DEF With
<1> QED
  BY <1>1, <1>3, <1>4, <1>5

\* A response slot changes.
LEMMA OneSlot ==
    ASSUME RuntimeConstants, Shapes, NEW s \in Slots, NEW x \in Response,
           resp' = [resp EXCEPT ![s] = x]
    PROVE  /\ resp' \in [Slots -> Response]
           /\ resp'[s] = x
           /\ \A t \in Slots : t # s => resp'[t] = resp[t]
           /\ DocumentSlots' \ {s} = DocumentSlots \ {s}
           /\ s \in DocumentSlots' <=> x.id # 0 /\ x.kind = "document"
<1>1. /\ resp' \in [Slots -> Response] /\ resp'[s] = x
      /\ \A t \in Slots : t # s => resp'[t] = resp[t]
  BY OneChange DEF Shapes
<1>2. DocumentSlots' = {t \in Slots : resp'[t].id # 0 /\ resp'[t].kind = "document"}
  BY DEF DocumentSlots
<1>3. DocumentSlots' \ {s} = DocumentSlots \ {s}
  BY <1>1, <1>2 DEF DocumentSlots
<1> QED
  BY <1>1, <1>2, <1>3

\* Fewer document slots keep the slot for queries.
LEMMA FewerDocumentSlots ==
    ASSUME RuntimeConstants, IInv, DocumentSlots' \subseteq DocumentSlots
    PROVE  ReserveQueryLane /\ ResponseCapacity > 1 =>
             Cardinality(DocumentSlots') < ResponseCapacity
<1>1. DocumentSlots \in SUBSET Slots /\ DocumentSlots' \in SUBSET DocumentSlots
  BY DEF DocumentSlots
<1>2. /\ Cardinality(DocumentSlots') <= Cardinality(DocumentSlots)
      /\ Cardinality(DocumentSlots) \in Nat /\ Cardinality(DocumentSlots') \in Nat
  BY <1>1, FiniteGroups
<1>3. ReserveQueryLane /\ ResponseCapacity > 1 =>
        Cardinality(DocumentSlots) < ResponseCapacity
  BY DEF IInv, PoolSound
<1>4. ResponseCapacity \in Nat
  BY DEF RuntimeConstants
<1> QED
  BY <1>2, <1>3, <1>4

\* What a slot becomes when its worker lets go of it: free if nobody waits,
\* and answered otherwise.
Settled(old, new) ==
    /\ old.owner = None => new = FreeResponse
    /\ old.owner # None =>
         /\ new.id = old.id /\ new.owner = old.owner /\ new.kind = old.kind
         /\ new.ready /\ ~new.writing
         /\ ~new.error => new.data = new.id

\* A worker's entry without request: whatever way it came to be, the request
\* it had is settled and nothing else moves.
LEMMA LetsGo ==
    ASSUME RuntimeConstants, IInv, NEW w \in Workers, NEW e \in Entry,
           NEW x \in Response,
           e.id = 0, ~e.doc, ~e.cancel,
           worker' = [worker EXCEPT ![w] = e],
           worker[w].id = 0 => resp' = resp,
           worker[w].id # 0 =>
             /\ resp' = [resp EXCEPT ![worker[w].slot] = x]
             /\ Settled(resp[worker[w].slot], x),
           UNCHANGED <<queue, lastId>>
    PROVE  /\ resp' \in [Slots -> Response]
           /\ QueueSound' /\ RespSound'
           /\ UNCHANGED client => ClientSound'
           /\ \A v \in Workers \ {w} : worker'[v] = worker[v]
           /\ \A v \in Workers \ {w} : worker[v].id # 0 =>
                resp'[worker[v].slot] = resp[worker[v].slot]
           /\ DocumentSlots' \subseteq DocumentSlots
           /\ DocumentWorkers' \subseteq DocumentWorkers
           /\ Ready' \ {w} = Ready \ {w}
           /\ w \in Ready' <=> e.ready
<1>d. PICK i, s : i = worker[w].id /\ s = worker[w].slot
  OBVIOUS
<1>s. Shapes
  BY DEF IInv
<1>f. /\ \A r \in queue : r.id \in Nat \ {0} /\ r.slot \in Slots
      /\ \A t \in Slots : resp[t] \in Response /\ resp[t].id \in Nat
      /\ \A v \in Workers : worker[v].id \in Nat /\ worker[v].slot \in Slots \cup {0}
      /\ \A b \in Backends : client[b] \in Client
      /\ lastId \in Nat
  BY <1>s, Fields
<1>w. /\ \A v \in Workers : v # w => worker'[v] = worker[v]
      /\ worker'[w] = e
      /\ Ready' \ {w} = Ready \ {w} /\ (w \in Ready' <=> e.ready)
      /\ DocumentWorkers' \ {w} = DocumentWorkers \ {w}
      /\ w \notin DocumentWorkers'
      /\ \A j : j # 0 => (With(j)' <=> \E v \in Workers \ {w} : worker[v].id = j)
  <2>1. /\ \A v \in Workers : v # w => worker'[v] = worker[v]
        /\ worker'[w] = e
        /\ Ready' \ {w} = Ready \ {w}
        /\ w \in Ready' <=> e.ready
        /\ DocumentWorkers' \ {w} = DocumentWorkers \ {w}
        /\ w \in DocumentWorkers' <=> e.ready /\ e.doc
        /\ \A j : j # e.id => (With(j)' <=> \E v \in Workers \ {w} : worker[v].id = j)
    BY <1>s, OneEntry
  <2> QED
    BY <2>1
<1>p. /\ \A t \in Slots : resp[t].id # 0 /\ resp[t].ready =>
           ~Queued(resp[t].id) /\ ~With(resp[t].id)
      /\ \A v \in Workers, t \in Slots :
           worker[v].id # 0 /\ resp[t].id = worker[v].id => t = worker[v].slot
      /\ \A r \in queue, t \in Slots : resp[t].id = r.id => ~r.canceled /\ t = r.slot
      /\ \A r \in queue : ~r.canceled => resp[r.slot].id = r.id /\ ~resp[r.slot].ready
  BY Places
<1>i. i # 0 => s \in Slots /\ resp[s].id = i /\ ~resp[s].ready
  BY <1>d DEF IInv, WorkerSound
<1>u. \A v \in Workers : worker[v].id # 0 /\ worker[v].id = i => v = w
  BY <1>d DEF IInv, WorkerSound
<1>v. \A v \in Workers \ {w} : worker[v].id # 0 =>
        worker[v].slot \in Slots /\ (i # 0 => worker[v].slot # s)
  BY <1>i, <1>u DEF IInv, WorkerSound
<1>r. /\ resp' \in [Slots -> Response]
      /\ \A t \in Slots : i = 0 \/ t # s => resp'[t] = resp[t]
      /\ i # 0 => resp'[s] = x
      /\ DocumentSlots' \subseteq DocumentSlots
  <2>1. CASE i = 0
    BY <2>1, <1>d, <1>s DEF Shapes, DocumentSlots
  <2>2. CASE i # 0
    <3>1. /\ resp' \in [Slots -> Response] /\ resp'[s] = x
          /\ \A t \in Slots : t # s => resp'[t] = resp[t]
          /\ DocumentSlots' \ {s} = DocumentSlots \ {s}
          /\ s \in DocumentSlots' <=> x.id # 0 /\ x.kind = "document"
      BY <2>2, <1>d, <1>s, <1>i, OneSlot
    <3>2. x.id # 0 /\ x.kind = "document" => s \in DocumentSlots
      BY <2>2, <1>d, <1>i, FreeIsResponse DEF Settled, DocumentSlots
    <3> QED
      BY <2>2, <3>1, <3>2
  <2> QED
    BY <2>1, <2>2
<1>x. i # 0 => /\ x = FreeResponse \/ (x.id = i /\ x.ready /\ ~x.writing /\ x.owner # None)
               /\ ~x.error => x.data = x.id
  BY <1>d, <1>i DEF Settled, FreeResponse
<1>wi. /\ i # 0 => ~With(i)'
       /\ \A j : j # 0 /\ j # i => (With(j)' <=> With(j))
  <2>1. i # 0 => ~\E v \in Workers \ {w} : worker[v].id = i
    BY <1>u
  <2>2. \A j : j # i => (With(j) <=> \E v \in Workers \ {w} : worker[v].id = j)
    BY <1>d DEF With
  <2> QED
    BY <2>1, <2>2, <1>w
<1>nq. \A r \in queue : r.id # i
  BY <1>d, <1>f DEF IInv, QueueSound, With
<1>1. QueueSound'
  <2>1. \A r \in queue : ~With(r.id)'
    BY <1>wi, <1>nq, <1>f DEF IInv, QueueSound
  <2>2. \A r \in queue : ~r.canceled => resp'[r.slot].id = r.id /\ ~resp'[r.slot].ready
    <3> SUFFICES ASSUME NEW r \in queue, ~r.canceled
                 PROVE  resp'[r.slot].id = r.id /\ ~resp'[r.slot].ready
      OBVIOUS
    <3>1. resp[r.slot].id = r.id /\ ~resp[r.slot].ready
      BY <1>p
    <3>2. i # 0 => r.slot # s
      BY <3>1, <1>nq, <1>i
    <3> QED
      BY <3>1, <3>2, <1>r, <1>f
  <2>3. \A r \in queue : r.canceled => \A t \in Slots : resp'[t].id # r.id
    <3> SUFFICES ASSUME NEW r \in queue, r.canceled, NEW t \in Slots
                 PROVE  resp'[t].id # r.id
      OBVIOUS
    <3>1. resp[t].id # r.id
      BY <1>p
    <3>2. i # 0 /\ t = s => resp'[t].id \in {0, i}
      BY <1>r, <1>x, FreeIsResponse
    <3> QED
      BY <3>1, <3>2, <1>r, <1>nq, <1>f
  <2>4. /\ IsFiniteSet(queue) /\ Cardinality(queue) <= ResponseCapacity
        /\ \A q, r \in queue : q.id = r.id => q = r
        /\ \A r \in queue : r.id <= lastId
    BY DEF IInv, QueueSound
  <2> QED
    BY <2>1, <2>2, <2>3, <2>4 DEF QueueSound
<1>2. RespSound'
  <2>1. \A t \in Slots : i = 0 \/ t # s \/ x # FreeResponse => resp'[t].id = resp[t].id
    BY <1>r, <1>x, <1>i
  <2>2. \A t \in Slots : resp'[t].id # 0 => resp'[t].id = resp[t].id
    BY <2>1, <1>r, FreeIsResponse
  <2>3. \A t, u \in Slots : resp'[t].id # 0 /\ resp'[t].id = resp'[u].id => t = u
    BY <2>2 DEF IInv, RespSound
  <2>4. \A t \in Slots : resp'[t].id <= lastId
    BY <2>2, <1>f DEF IInv, RespSound
  <2>5. ASSUME NEW t \in Slots, NEW j, j = resp[t].id, resp'[t].id # 0
        PROVE  /\ resp'[t].ready => /\ resp'[t].owner # None /\ ~With(j)'
                                    /\ ~resp'[t].error => resp'[t].data = j
               /\ ~resp'[t].ready => Queued(j) \/ With(j)'
               /\ resp'[t].owner = None \/ resp'[t].writing => With(j)'
    <3>1. CASE i # 0 /\ t = s
      <4>1. resp'[t] = x /\ x # FreeResponse /\ j = i
        BY <2>5, <3>1, <1>r, <1>i, FreeIsResponse
      <4>2. x.ready /\ ~x.writing /\ x.owner # None /\ (~x.error => x.data = i)
        BY <4>1, <3>1, <1>x
      <4>3. ~With(j)'
        BY <4>1, <3>1, <1>wi
      <4> QED
        BY <4>1, <4>2, <4>3
    <3>2. CASE i = 0 \/ t # s
      <4>1. resp'[t] = resp[t] /\ j # i /\ j # 0
        BY <2>5, <3>2, <1>r, <1>p, <1>f, <1>d
      <4>2. With(j)' <=> With(j)
        BY <4>1, <1>wi
      <4>3. /\ resp[t].ready => /\ resp[t].owner # None /\ ~With(j)
                                /\ ~resp[t].error => resp[t].data = j
            /\ ~resp[t].ready => Queued(j) \/ With(j)
            /\ resp[t].owner = None \/ resp[t].writing => With(j)
        BY <2>5, <4>1 DEF IInv, RespSound
      <4> QED
        BY <4>1, <4>2, <4>3
    <3> QED
      BY <3>1, <3>2
  <2>6. \A j : Queued(j)' <=> Queued(j)
    BY DEF Queued
  <2>7. ASSUME NEW t \in Slots, NEW j, j = resp'[t].id, j # 0
        PROVE  /\ resp'[t].ready => /\ resp'[t].owner # None /\ ~With(j)'
                                    /\ ~resp'[t].error => resp'[t].data = j
               /\ ~resp'[t].ready => Queued(j)' \/ With(j)'
               /\ resp'[t].owner = None \/ resp'[t].writing => With(j)'
    BY <2>7, <2>2, <2>5, <2>6
  <2> QED
    BY <2>3, <2>4, <2>7 DEF RespSound
<1>3. ASSUME UNCHANGED client
      PROVE  ClientSound'
  <2> SUFFICES ASSUME NEW b \in Backends, client[b].pc \in {"wait", "copy"}
               PROVE  /\ resp'[client[b].slot].id = client[b].id
                      /\ resp'[client[b].slot].owner = b
                      /\ client[b].pc = "copy" => resp'[client[b].slot].ready
    BY <1>3 DEF ClientSound, BackendSound, IInv
  <2>1. /\ client[b].slot \in Slots
        /\ resp[client[b].slot].id = client[b].id
        /\ resp[client[b].slot].owner = b /\ b # None
        /\ client[b].pc = "copy" => resp[client[b].slot].ready
    BY DEF IInv, ClientSound, BackendSound, RuntimeConstants
  <2>2. CASE i # 0 /\ client[b].slot = s
    BY <2>1, <2>2, <1>r, <1>d DEF Settled
  <2>3. CASE i = 0 \/ client[b].slot # s
    BY <2>1, <2>3, <1>r
  <2> QED
    BY <2>2, <2>3
<1>4. DocumentWorkers' \subseteq DocumentWorkers
  BY <1>w
<1>5. \A v \in Workers \ {w} : worker[v].id # 0 =>
        resp'[worker[v].slot] = resp[worker[v].slot]
  BY <1>v, <1>r
<1> QED
  BY <1>1, <1>2, <1>3, <1>4, <1>5, <1>r, <1>w

\* A process changes.
LEMMA OneProcess ==
    ASSUME RuntimeConstants, Shapes, NEW w \in Workers, NEW r \in Process,
           proc' = [proc EXCEPT ![w] = r]
    PROVE  /\ proc' \in [Workers -> Process]
           /\ proc'[w] = r
           /\ \A v \in Workers \ {w} : proc'[v] = proc[v]
           /\ Up' \ {w} = Up \ {w}
           /\ w \in Up' <=> r.pc # "down"
<1>1. /\ proc' \in [Workers -> Process] /\ proc'[w] = r
      /\ \A v \in Workers : v # w => proc'[v] = proc[v]
  BY OneChange DEF Shapes
<1>2. Up' = {v \in Workers : proc'[v].pc # "down"}
  BY DEF Up
<1>3. Up' \ {w} = Up \ {w}
  BY <1>1, <1>2 DEF Up
<1> QED
  BY <1>1, <1>2, <1>3

\* The other entries keep what they say when one lets go.
LEMMA EntriesKeep ==
    ASSUME RuntimeConstants, IInv, NEW w \in Workers,
           \A v \in Workers \ {w} : worker'[v] = worker[v],
           \A v \in Workers \ {w} : worker[v].id # 0 =>
             resp'[worker[v].slot] = resp[worker[v].slot],
           worker'[w].id = 0, ~worker'[w].cancel,
           worker'[w].pid <= starts', worker'[w].ready => worker'[w].pid # 0,
           starts' \in Nat, starts <= starts'
    PROVE  WorkerSound'
<1>f. \A v \in Workers : worker[v].pid \in Nat /\ starts \in Nat
  BY Fields DEF IInv
<1>1. ASSUME NEW v \in Workers \ {w}
      PROVE  /\ worker'[v].pid <= starts'
             /\ worker'[v].ready => worker'[v].pid # 0
             /\ worker'[v].id # 0 =>
                  /\ worker'[v].slot \in Slots
                  /\ resp'[worker'[v].slot].id = worker'[v].id
                  /\ ~resp'[worker'[v].slot].ready
             /\ worker'[v].cancel =>
                  worker'[v].id # 0 /\ resp'[worker'[v].slot].owner = None
  <2>1. worker[v].pid <= starts /\ worker[v].pid \in Nat /\ starts \in Nat
    BY <1>f DEF IInv, WorkerSound
  <2>2. /\ worker[v].ready => worker[v].pid # 0
        /\ worker[v].id # 0 =>
                  /\ worker[v].slot \in Slots
                  /\ resp[worker[v].slot].id = worker[v].id
                  /\ ~resp[worker[v].slot].ready
        /\ worker[v].cancel =>
                  worker[v].id # 0 /\ resp[worker[v].slot].owner = None
    BY DEF IInv, WorkerSound
  <2>3. worker'[v] = worker[v]
    OBVIOUS
  <2>4. worker'[v].pid <= starts'
    BY <2>1, <2>3
  <2>5. worker[v].id # 0 => resp'[worker[v].slot] = resp[worker[v].slot]
    OBVIOUS
  <2> QED
    BY <2>2, <2>3, <2>4, <2>5
<1>2. \A u, v \in Workers : worker'[u].id # 0 /\ worker'[u].id = worker'[v].id => u = v
  BY DEF IInv, WorkerSound
<1> QED
  BY <1>1, <1>2 DEF WorkerSound

\* ... and so do the other processes.
LEMMA OtherProcesses ==
    ASSUME RuntimeConstants, IInv, NEW w \in Workers,
           \A v \in Workers \ {w} : worker'[v] = worker[v],
           \A v \in Workers \ {w} : worker[v].id # 0 =>
             resp'[worker[v].slot] = resp[worker[v].slot],
           \A v \in Workers \ {w} : proc'[v] = proc[v],
           starts' \in Nat, starts <= starts'
    PROVE  \A v \in Workers \ {w} : ProcessSound(v)'
<1>f. \A v \in Workers : proc[v].pid \in Nat /\ starts \in Nat
  BY Fields DEF IInv
<1>1. ASSUME NEW v \in Workers \ {w}
      PROVE  /\ proc'[v].pid <= starts'
             /\ proc'[v].pc = "down" => proc'[v].pid = 0
             /\ proc'[v].pc # "down" => worker'[v].pid = proc'[v].pid /\ worker'[v].ready
             /\ proc'[v].pc = "poll" => worker'[v].id = 0
             /\ proc'[v].pc \in Busy =>
                  /\ worker'[v].id = proc'[v].id /\ proc'[v].id # 0
                  /\ worker'[v].slot = proc'[v].slot /\ proc'[v].model \in Models
             /\ proc'[v].pc \in {"fill", "commit"} =>
                  resp'[proc'[v].slot].error = proc'[v].error
             /\ proc'[v].pc = "commit" =>
                  resp'[proc'[v].slot].data = IF proc'[v].error THEN 0 ELSE proc'[v].id
  <2>1. /\ worker'[v] = worker[v] /\ proc'[v] = proc[v]
        /\ worker[v].id # 0 => resp'[worker[v].slot] = resp[worker[v].slot]
    OBVIOUS
  <2>2. proc[v].pid <= starts /\ proc[v].pid \in Nat /\ starts \in Nat
    BY <1>f DEF IInv, ProcSound, ProcessSound
  <2>3. /\ proc[v].pc = "down" => proc[v].pid = 0
        /\ proc[v].pc # "down" => worker[v].pid = proc[v].pid /\ worker[v].ready
        /\ proc[v].pc = "poll" => worker[v].id = 0
        /\ proc[v].pc \in Busy =>
             /\ worker[v].id = proc[v].id /\ proc[v].id # 0
             /\ worker[v].slot = proc[v].slot /\ proc[v].model \in Models
    BY DEF IInv, ProcSound, ProcessSound
  <2>4. /\ proc[v].pc \in {"fill", "commit"} =>
             resp[proc[v].slot].error = proc[v].error
        /\ proc[v].pc = "commit" =>
             resp[proc[v].slot].data = IF proc[v].error THEN 0 ELSE proc[v].id
    BY DEF IInv, ProcSound, ProcessSound
  <2>5. proc[v].pc \in {"fill", "commit"} =>
          worker[v].id # 0 /\ worker[v].slot = proc[v].slot
    BY <2>3 DEF Busy
  <2>6. proc'[v].pid <= starts'
    BY <2>1, <2>2
  <2> QED
    BY <2>1, <2>3, <2>4, <2>5, <2>6
<1> QED
  BY <1>1 DEF ProcessSound

LEMMA ProcessesKeep ==
    ASSUME RuntimeConstants, IInv, NEW w \in Workers,
           \A v \in Workers \ {w} : worker'[v] = worker[v],
           \A v \in Workers \ {w} : worker[v].id # 0 =>
             resp'[worker[v].slot] = resp[worker[v].slot],
           \A v \in Workers \ {w} : proc'[v] = proc[v],
           proc'[w].pc \in {"down", "poll"},
           proc'[w].pid <= starts', proc'[w].pc = "down" => proc'[w].pid = 0,
           proc'[w].pc # "down" =>
             /\ worker'[w].pid = proc'[w].pid /\ worker'[w].ready
             /\ worker'[w].id = 0,
           starts' \in Nat, starts <= starts'
    PROVE  ProcSound'
<1>1. \A v \in Workers \ {w} : ProcessSound(v)'
  BY OtherProcesses
<1>2. proc'[w].pc \notin Busy /\ proc'[w].pc \notin {"fill", "commit"}
  BY DEF Busy
<1>3. ProcessSound(w)'
  BY <1>2 DEF ProcessSound
<1> QED
  BY <1>1, <1>3 DEF ProcSound

\* The slot of a running request becomes what its worker says.
LEMMA OneWrites ==
    ASSUME RuntimeConstants, IInv, NEW w \in Workers,
           \A v \in Workers \ {w} : worker'[v] = worker[v],
           \A v \in Workers \ {w} : worker[v].id # 0 =>
             resp'[worker[v].slot] = resp[worker[v].slot],
           \A v \in Workers \ {w} : proc'[v] = proc[v],
           proc[w].pc \in Busy, proc'[w].pc \in Busy,
           proc'[w].pid = proc[w].pid, proc'[w].id = proc[w].id,
           proc'[w].slot = proc[w].slot, proc'[w].model = proc[w].model,
           worker'[w].pid = worker[w].pid, worker'[w].ready = worker[w].ready,
           worker'[w].id = worker[w].id, worker'[w].slot = worker[w].slot,
           proc'[w].pc \in {"fill", "commit"} =>
             resp'[proc'[w].slot].error = proc'[w].error,
           proc'[w].pc = "commit" => resp'[proc'[w].slot].data =
             IF proc'[w].error THEN 0 ELSE proc'[w].id,
           starts' = starts
    PROVE  ProcSound'
<1>1. \A v \in Workers \ {w} : ProcessSound(v)'
  BY OtherProcesses DEF IInv, Shapes
<1>2. ProcessSound(w)
  BY DEF IInv, ProcSound
<1>3. ProcessSound(w)'
  BY <1>2 DEF ProcessSound, Busy
<1> QED
  BY <1>1, <1>3 DEF ProcSound

\* Fewer documents among the same workers.
LEMMA PoolKeeps ==
    ASSUME RuntimeConstants, IInv, Ready' = Ready, Up' = Up, starts' = starts,
           DocumentWorkers' \subseteq DocumentWorkers,
           DocumentSlots' \subseteq DocumentSlots
    PROVE  PoolSound'
<1>1. Ready \in SUBSET Workers /\ DocumentWorkers \in SUBSET Workers
  BY DEF Ready, DocumentWorkers
<1>2. /\ Cardinality(DocumentWorkers') <= Cardinality(DocumentWorkers)
      /\ Cardinality(DocumentWorkers') \in Nat
      /\ Cardinality(DocumentWorkers) \in Nat
  BY <1>1, FiniteGroups
<1>3. starts \in Nat
  BY DEF IInv, Shapes
<1>4. /\ starts <= MaxStarts + Cardinality(Up)
      /\ Cardinality(Ready) <= starts
      /\ ReserveQueryLane /\ Cardinality(Ready) = starts /\ starts >= 2 =>
           Cardinality(DocumentWorkers) < starts
  BY DEF IInv, PoolSound
<1>5. ReserveQueryLane /\ ResponseCapacity > 1 =>
        Cardinality(DocumentSlots') < ResponseCapacity
  BY FewerDocumentSlots
<1>6. ReserveQueryLane /\ Cardinality(Ready) = starts /\ starts >= 2 =>
        Cardinality(DocumentWorkers') < starts
  BY <1>2, <1>3, <1>4
<1> QED
  BY <1>4, <1>5, <1>6 DEF PoolSound

\* One worker's entry goes: a lane may be missed until it is back.
LEMMA PoolShrinks ==
    ASSUME RuntimeConstants, IInv, NEW w \in Workers,
           Ready' = Ready \ {w}, starts' = starts,
           Up' = Up \/ (Up' = Up \ {w} /\ starts < MaxStarts),
           DocumentWorkers' \subseteq DocumentWorkers,
           DocumentSlots' \subseteq DocumentSlots
    PROVE  PoolSound'
<1>1. /\ Ready \in SUBSET Workers /\ DocumentWorkers \in SUBSET Workers
      /\ Up \in SUBSET Workers
  BY DEF Ready, DocumentWorkers, Up
<1>2. /\ Cardinality(DocumentWorkers') <= Cardinality(DocumentWorkers)
      /\ Cardinality(DocumentWorkers') \in Nat
      /\ Cardinality(DocumentWorkers) \in Nat
      /\ Cardinality(Ready) \in Nat /\ Cardinality(Up) \in Nat
      /\ Cardinality(Up \ {w}) \in Nat
      /\ IsFiniteSet(Ready)
  BY <1>1, FiniteGroups
<1>3. /\ starts \in Nat /\ MaxStarts \in Nat
  BY DEF IInv, Shapes, RuntimeConstants
<1>4. /\ starts <= MaxStarts + Cardinality(Up)
      /\ Cardinality(Ready) <= starts
      /\ ReserveQueryLane /\ Cardinality(Ready) = starts /\ starts >= 2 =>
           Cardinality(DocumentWorkers) < starts
  BY DEF IInv, PoolSound
<1>5. ReserveQueryLane /\ ResponseCapacity > 1 =>
        Cardinality(DocumentSlots') < ResponseCapacity
  BY FewerDocumentSlots
<1>6. Cardinality(Ready') = IF w \in Ready THEN Cardinality(Ready) - 1 ELSE Cardinality(Ready)
  BY <1>2, FS_RemoveElement
<1>7. /\ Cardinality(Ready') <= starts
      /\ ReserveQueryLane /\ Cardinality(Ready') = starts /\ starts >= 2 =>
           Cardinality(DocumentWorkers') < starts
  BY <1>2, <1>3, <1>4, <1>6
<1>8. starts <= MaxStarts + Cardinality(Up')
  BY <1>2, <1>3, <1>4
<1> QED
  BY <1>5, <1>7, <1>8 DEF PoolSound

\* Giving up an entry settles its request.
LEMMA GivesUp ==
    ASSUME RuntimeConstants, IInv, NEW w \in Workers,
           resp' = UnavailableResponses(w)
    PROVE  \E x \in Response :
             /\ worker[w].id = 0 => resp' = resp
             /\ worker[w].id # 0 =>
                  /\ resp' = [resp EXCEPT ![worker[w].slot] = x]
                  /\ Settled(resp[worker[w].slot], x)
<1>d. PICK s : s = worker[w].slot
  OBVIOUS
<1>1. CASE worker[w].id = 0
  BY <1>1, FreeIsResponse DEF UnavailableResponses, Processing
<1>2. CASE worker[w].id # 0
  <2>1. s \in Slots /\ resp[s].id = worker[w].id
    BY <1>2, <1>d DEF IInv, WorkerSound
  <2>2. resp[s] \in Response
    BY <2>1, Fields DEF IInv
  <2>3. CASE resp[s].owner = None
    <3>1. resp' = [resp EXCEPT ![s] = FreeResponse]
      BY <1>2, <1>d, <2>1, <2>3 DEF UnavailableResponses, Processing, ClearResponse
    <3> QED
      BY <1>2, <1>d, <2>3, <3>1, FreeIsResponse DEF Settled
  <2>4. CASE resp[s].owner # None
    <3> DEFINE x == [resp[s] EXCEPT !.writing = FALSE, !.error = TRUE,
                                    !.data = 0, !.ready = TRUE]
    <3>1. resp' = [resp EXCEPT ![s] = x]
      BY <1>2, <1>d, <2>1, <2>4 DEF UnavailableResponses, Processing
    <3>2. 0 \in Ids
      BY DEF Ids, RuntimeConstants
    <3>3. /\ x \in Response
          /\ x.id = resp[s].id /\ x.owner = resp[s].owner /\ x.kind = resp[s].kind
          /\ x.ready /\ ~x.writing /\ x.error
      BY <2>2, <3>2 DEF Response
    <3> HIDE DEF x
    <3> QED
      BY <1>2, <1>d, <2>4, <3>1, <3>3 DEF Settled
  <2> QED
    BY <2>3, <2>4
<1> QED
  BY <1>1, <1>2

\* What the housekeeping has read stays so while incarnations only grow.
LEMMA SweepsKeep ==
    ASSUME RuntimeConstants, IInv, UNCHANGED <<orphan>>,
           \A b \in Backends : client[b].pc = "exited" => client'[b].pc = "exited",
           census' \in {census, NobodyCounted},
           starts' \in Nat, starts <= starts',
           \A w \in Workers : proc'[w].pid \in {proc[w].pid, 0, starts + 1}
    PROVE  SweepsSound'
<1>1. \A p \in Sweepers : orphan'[p] # NothingRead =>
         /\ orphan'[p].slot \in Slots /\ orphan'[p].id # 0
         /\ orphan'[p].owner \in Backends
         /\ client'[orphan'[p].owner].pc = "exited"
  BY DEF IInv, SweepsSound
<1>2. ASSUME census' # NobodyCounted
      PROVE  /\ census'.w \in Workers /\ census'.pid \in 1 .. starts'
             /\ proc'[census'.w].pid # census'.pid
  <2>1. /\ census' = census
        /\ census.w \in Workers /\ census.pid \in 1 .. starts
        /\ proc[census.w].pid # census.pid
    BY <1>2 DEF IInv, SweepsSound
  <2>2. starts \in Nat
    BY DEF IInv, Shapes
  <2>3. proc'[census.w].pid \in {proc[census.w].pid, 0, starts + 1}
    BY <2>1
  <2> QED
    BY <2>1, <2>2, <2>3
<1> QED
  BY <1>1, <1>2 DEF SweepsSound

(***************************************************************************)
(* Workers let go of their requests                                        *)
(***************************************************************************)
LEMMA WorkerStops ==
    ASSUME RuntimeConstants, IInv, NEW w \in Workers, WorkerStop(w)
    PROVE  IInv'
<1>s. Shapes
  BY DEF IInv
<1>c. /\ starts < MaxStarts /\ proc[w].pc \in {"poll", "run"}
      /\ proc' = [proc EXCEPT ![w] = Down]
      /\ UNCHANGED <<queue, client, lastId, starts, orphan, census>>
  BY DEF WorkerStop
<1>p. worker[w].pid = proc[w].pid /\ worker[w].ready
  BY <1>c DEF IInv, ProcSound, ProcessSound
<1>m. /\ resp' = UnavailableResponses(w)
      /\ worker' = [worker EXCEPT ![w] = EmptyWorker]
  BY <1>p DEF WorkerStop, MarkUnavailable
<1>g. PICK x \in Response :
             /\ worker[w].id = 0 => resp' = resp
             /\ worker[w].id # 0 =>
                  /\ resp' = [resp EXCEPT ![worker[w].slot] = x]
                  /\ Settled(resp[worker[w].slot], x)
  BY <1>m, GivesUp
<1>e. /\ EmptyWorker \in Entry /\ EmptyWorker.id = 0
      /\ EmptyWorker.pid = 0 /\ ~EmptyWorker.ready /\ ~EmptyWorker.doc
      /\ ~EmptyWorker.cancel
      /\ Down \in Process /\ Down.pc = "down" /\ Down.pid = 0
  BY FreeIsResponse
<1>1. /\ resp' \in [Slots -> Response]
      /\ QueueSound' /\ RespSound'
      /\ UNCHANGED client => ClientSound'
      /\ \A v \in Workers \ {w} : worker'[v] = worker[v]
      /\ \A v \in Workers \ {w} : worker[v].id # 0 =>
           resp'[worker[v].slot] = resp[worker[v].slot]
      /\ DocumentSlots' \subseteq DocumentSlots
      /\ DocumentWorkers' \subseteq DocumentWorkers
      /\ Ready' \ {w} = Ready \ {w}
      /\ w \in Ready' <=> EmptyWorker.ready
  BY <1>c, <1>m, <1>g, <1>e, LetsGo
<1>2. /\ worker' \in [Workers -> Entry] /\ worker'[w] = EmptyWorker
  BY <1>m, <1>e, <1>s, OneChange DEF Shapes
<1>3. /\ proc' \in [Workers -> Process] /\ proc'[w] = Down
      /\ \A v \in Workers \ {w} : proc'[v] = proc[v]
      /\ Up' \ {w} = Up \ {w} /\ w \notin Up'
  BY <1>c, <1>e, <1>s, OneProcess
<1>4. Shapes'
  BY <1>1, <1>2, <1>3, <1>c, <1>s DEF Shapes
<1>5. starts' \in Nat /\ starts' = starts /\ 0 <= starts
  BY <1>c, <1>s DEF Shapes
<1>6. WorkerSound'
  BY <1>1, <1>2, <1>5, <1>e, EntriesKeep
<1>7. ProcSound'
  BY <1>1, <1>2, <1>3, <1>5, <1>e, ProcessesKeep
<1>8. SweepsSound'
  BY <1>c, <1>3, <1>5, <1>e, SweepsKeep
<1>9. PoolSound'
  BY <1>1, <1>3, <1>5, <1>c, <1>e, PoolShrinks
<1> QED
  BY <1>1, <1>4, <1>6, <1>7, <1>8, <1>9, <1>c DEF IInv

LEMMA DeadWorkerMarked ==
    ASSUME RuntimeConstants, IInv, MarkDeadWorker
    PROVE  IInv'
<1>s. Shapes
  BY DEF IInv
<1>c. /\ census # NobodyCounted /\ census' = NobodyCounted
      /\ UNCHANGED <<queue, proc, client, lastId, starts, orphan>>
  BY DEF MarkDeadWorker
<1>w. PICK w \in Workers : w = census.w
  BY <1>c DEF IInv, SweepsSound
<1>n. NobodyCounted \in [w : Workers \cup {None}, pid : Pids]
  <2>1. 0 \in Pids
    BY FS_CardinalityType DEF RuntimeConstants, Pids
  <2> QED
    BY <2>1 DEF NobodyCounted
<1>5. starts' \in Nat /\ starts' = starts /\ 0 <= starts
  BY <1>c, <1>s DEF Shapes
<1>8. SweepsSound'
  BY <1>c, <1>5, SweepsKeep
<1>p. Up' = Up /\ proc' = proc
  BY <1>c DEF Up
<1>1. CASE worker[w].pid # census.pid
  <2>1. UNCHANGED <<resp, worker>>
    BY <1>1, <1>w DEF MarkDeadWorker
  <2>2. /\ Shapes' /\ QueueSound' /\ RespSound' /\ WorkerSound' /\ ProcSound'
        /\ ClientSound'
    BY <2>1, <1>c, <1>n DEF IInv, Shapes, QueueSound, Queued, With, RespSound,
       WorkerSound, ProcSound, ProcessSound, ClientSound, BackendSound
  <2>3. PoolSound'
    BY <2>1, <1>c DEF IInv, PoolSound, Up, Ready, DocumentWorkers, DocumentSlots
  <2> QED
    BY <2>2, <2>3, <1>8 DEF IInv
<1>2. CASE worker[w].pid = census.pid
  <2>m. /\ resp' = UnavailableResponses(w)
        /\ worker' = [worker EXCEPT ![w] = EmptyWorker]
    BY <1>2, <1>w DEF MarkDeadWorker, MarkUnavailable
  <2>d. proc[w].pc = "down" /\ proc[w].pid = 0
    <3>1. proc[w].pid # census.pid
      BY <1>c, <1>w DEF IInv, SweepsSound
    <3> QED
      BY <3>1, <1>2 DEF IInv, ProcSound, ProcessSound
  <2>g. PICK x \in Response :
             /\ worker[w].id = 0 => resp' = resp
             /\ worker[w].id # 0 =>
                  /\ resp' = [resp EXCEPT ![worker[w].slot] = x]
                  /\ Settled(resp[worker[w].slot], x)
    BY <2>m, GivesUp
  <2>e. /\ EmptyWorker \in Entry /\ EmptyWorker.id = 0
        /\ EmptyWorker.pid = 0 /\ ~EmptyWorker.ready /\ ~EmptyWorker.doc
        /\ ~EmptyWorker.cancel
    BY FreeIsResponse
  <2>1. /\ resp' \in [Slots -> Response]
        /\ QueueSound' /\ RespSound'
        /\ UNCHANGED client => ClientSound'
        /\ \A v \in Workers \ {w} : worker'[v] = worker[v]
        /\ \A v \in Workers \ {w} : worker[v].id # 0 =>
             resp'[worker[v].slot] = resp[worker[v].slot]
        /\ DocumentSlots' \subseteq DocumentSlots
        /\ DocumentWorkers' \subseteq DocumentWorkers
        /\ Ready' \ {w} = Ready \ {w}
        /\ w \in Ready' <=> EmptyWorker.ready
    BY <1>c, <2>m, <2>g, <2>e, LetsGo
  <2>2. /\ worker' \in [Workers -> Entry] /\ worker'[w] = EmptyWorker
    BY <2>m, <2>e, <1>s, OneChange DEF Shapes
  <2>4. Shapes'
    BY <2>1, <2>2, <1>c, <1>n, <1>s DEF Shapes
  <2>6. WorkerSound'
    BY <2>1, <2>2, <1>5, <2>e, EntriesKeep
  <2>7. ProcSound'
    BY <2>1, <2>2, <2>d, <1>p, <1>5, <2>e, ProcessesKeep
  <2>9. PoolSound'
    BY <2>1, <1>p, <1>5, <2>e, PoolShrinks
  <2> QED
    BY <2>1, <2>4, <2>6, <2>7, <1>8, <2>9, <1>c DEF IInv
<1> QED
  BY <1>1, <1>2

LEMMA WorkerStarts ==
    ASSUME RuntimeConstants, IInv, NEW w \in Workers, WorkerStart(w)
    PROVE  IInv'
<1>s. Shapes
  BY DEF IInv
<1>d. PICK n : n = starts + 1
  OBVIOUS
<1> DEFINE e == [EmptyWorker EXCEPT !.pid = n, !.ready = TRUE]
           r == [Down EXCEPT !.pc = "poll", !.pid = n]
<1>c. /\ proc[w].pc = "down" /\ starts' = n
      /\ resp' = UnavailableResponses(w)
      /\ worker' = [worker EXCEPT ![w] = e]
      /\ proc' = [proc EXCEPT ![w] = r]
      /\ UNCHANGED <<queue, client, lastId, orphan, census>>
  BY <1>d DEF WorkerStart
<1>t. starts \in Nat /\ MaxStarts \in Nat /\ n \in Nat /\ n # 0 /\ starts <= n
  BY <1>d DEF IInv, Shapes, RuntimeConstants
<1>u. Up \in SUBSET Workers /\ w \notin Up
  BY <1>c DEF Up
<1>k. /\ Cardinality(Up) \in Nat /\ Cardinality(Workers) \in Nat
      /\ Cardinality(Up) < Cardinality(Workers)
  BY <1>u, FiniteGroups, FS_CardinalityType DEF RuntimeConstants
<1>l. starts <= MaxStarts + Cardinality(Up) /\ Cardinality(Ready) <= starts
  BY DEF IInv, PoolSound
<1>i. n \in Pids
  BY <1>t, <1>k, <1>l, <1>d DEF Pids
<1>e. /\ e \in Entry /\ e.id = 0 /\ ~e.doc /\ ~e.cancel /\ e.pid = n /\ e.ready
      /\ r \in Process /\ r.pc = "poll" /\ r.pid = n
  <2>1. EmptyWorker \in Entry /\ Down \in Process
    BY FreeIsResponse
  <2> QED
    BY <2>1, <1>i DEF EmptyWorker, Entry, Down, Process
<1> HIDE DEF e, r
<1>g. PICK x \in Response :
             /\ worker[w].id = 0 => resp' = resp
             /\ worker[w].id # 0 =>
                  /\ resp' = [resp EXCEPT ![worker[w].slot] = x]
                  /\ Settled(resp[worker[w].slot], x)
  BY <1>c, GivesUp
<1>1. /\ resp' \in [Slots -> Response]
      /\ QueueSound' /\ RespSound'
      /\ UNCHANGED client => ClientSound'
      /\ \A v \in Workers \ {w} : worker'[v] = worker[v]
      /\ \A v \in Workers \ {w} : worker[v].id # 0 =>
           resp'[worker[v].slot] = resp[worker[v].slot]
      /\ DocumentSlots' \subseteq DocumentSlots
      /\ DocumentWorkers' \subseteq DocumentWorkers
      /\ Ready' \ {w} = Ready \ {w}
      /\ w \in Ready' <=> e.ready
  BY <1>c, <1>g, <1>e, LetsGo
<1>2. /\ worker' \in [Workers -> Entry] /\ worker'[w] = e
  BY <1>c, <1>e, <1>s, OneChange DEF Shapes
<1>3. /\ proc' \in [Workers -> Process] /\ proc'[w] = r
      /\ \A v \in Workers \ {w} : proc'[v] = proc[v]
      /\ Up' \ {w} = Up \ {w} /\ w \in Up'
  BY <1>c, <1>e, <1>s, OneProcess
<1>4. Shapes'
  BY <1>1, <1>2, <1>3, <1>c, <1>s, <1>t DEF Shapes
<1>6. WorkerSound'
  BY <1>1, <1>2, <1>c, <1>t, <1>e, EntriesKeep
<1>7. ProcSound'
  BY <1>1, <1>2, <1>3, <1>c, <1>t, <1>e, ProcessesKeep
<1>8. SweepsSound'
  BY <1>c, <1>3, <1>t, <1>d, <1>e, SweepsKeep
<1>9. PoolSound'
  <2>1. /\ Ready \in SUBSET Workers /\ DocumentWorkers' \in SUBSET Ready
    BY <1>1 DEF Ready, DocumentWorkers
  <2>2. /\ IsFiniteSet(Ready) /\ Cardinality(Ready) \in Nat /\ IsFiniteSet(Up)
        /\ Cardinality(DocumentWorkers') <= Cardinality(Ready)
    BY <2>1, <1>u, FiniteGroups
  <2>3. DocumentWorkers' \in SUBSET Workers
    BY <2>1
  <2>4. Cardinality(DocumentWorkers') \in Nat
    BY <2>3, FiniteGroups
  <2>5. Cardinality(Up') = Cardinality(Up) + 1
    BY <1>3, <1>u, <2>2, OneElement
  <2>6. /\ Cardinality(Ready') \in Nat
        /\ Cardinality(Ready') <= Cardinality(Ready) + 1
    BY <1>1, <1>e, <2>2, OneElement
  <2>7. ReserveQueryLane /\ ResponseCapacity > 1 =>
          Cardinality(DocumentSlots') < ResponseCapacity
    BY <1>1, FewerDocumentSlots
  <2>8. /\ starts' <= MaxStarts + Cardinality(Up')
        /\ Cardinality(Ready') <= starts'
        /\ Cardinality(DocumentWorkers') < starts'
    BY <2>2, <2>4, <2>5, <2>6, <1>t, <1>d, <1>c, <1>k, <1>l
  <2> QED
    BY <2>7, <2>8 DEF PoolSound
<1> QED
  BY <1>1, <1>4, <1>6, <1>7, <1>8, <1>9, <1>c DEF IInv

\* A worker is done with its request and polls again.
LEMMA Finishes ==
    ASSUME RuntimeConstants, IInv, NEW w \in Workers, NEW x \in Response,
           worker[w].id # 0, proc[w].pc \in Busy,
           Settled(resp[worker[w].slot], x),
           resp' = [resp EXCEPT ![worker[w].slot] = x],
           worker' = Finished(w, worker[w].id),
           proc' = [proc EXCEPT ![w] = Polling(@)],
           UNCHANGED <<queue, client, lastId, starts, orphan, census>>
    PROVE  IInv'
<1>s. Shapes
  BY DEF IInv
<1> DEFINE e == [worker[w] EXCEPT !.id = 0, !.slot = 0, !.doc = FALSE,
                                  !.owner = None, !.cancel = FALSE]
           r == Polling(proc[w])
<1>c. /\ worker' = [worker EXCEPT ![w] = e]
      /\ proc' = [proc EXCEPT ![w] = r]
  BY DEF Finished
<1>f. /\ worker[w] \in Entry /\ proc[w] \in Process
      /\ proc[w].pid \in Nat /\ worker[w].pid \in Nat
  BY <1>s, Fields
<1>n. 0 \in Ids
  BY DEF Ids, RuntimeConstants
<1>e. /\ e \in Entry /\ e.id = 0 /\ ~e.doc /\ ~e.cancel
      /\ e.pid = worker[w].pid /\ e.ready = worker[w].ready
  BY <1>f, <1>n DEF Entry
<1>r. r \in Process /\ r.pc = "poll" /\ r.pid = proc[w].pid
  <2>1. Down \in Process
    BY FreeIsResponse
  <2> QED
    BY <2>1, <1>f DEF Polling, Down, Process
<1> HIDE DEF e, r
<1>p. /\ worker[w].pid = proc[w].pid /\ worker[w].ready
      /\ worker[w].pid <= starts /\ worker[w].pid # 0
  BY DEF IInv, ProcSound, ProcessSound, WorkerSound, Busy
<1>1. /\ resp' \in [Slots -> Response]
      /\ QueueSound' /\ RespSound'
      /\ UNCHANGED client => ClientSound'
      /\ \A v \in Workers \ {w} : worker'[v] = worker[v]
      /\ \A v \in Workers \ {w} : worker[v].id # 0 =>
           resp'[worker[v].slot] = resp[worker[v].slot]
      /\ DocumentSlots' \subseteq DocumentSlots
      /\ DocumentWorkers' \subseteq DocumentWorkers
      /\ Ready' \ {w} = Ready \ {w}
      /\ w \in Ready' <=> e.ready
  BY <1>c, <1>e, LetsGo
<1>2. /\ worker' \in [Workers -> Entry] /\ worker'[w] = e
  BY <1>c, <1>e, <1>s, OneChange DEF Shapes
<1>3. /\ proc' \in [Workers -> Process] /\ proc'[w] = r
      /\ \A v \in Workers \ {w} : proc'[v] = proc[v]
      /\ Up' \ {w} = Up \ {w} /\ w \in Up'
  BY <1>c, <1>r, <1>s, OneProcess
<1>4. Shapes'
  BY <1>1, <1>2, <1>3, <1>s DEF Shapes
<1>5. starts' \in Nat /\ starts' = starts /\ starts <= starts'
  BY <1>s DEF Shapes
<1>6. WorkerSound'
  BY <1>1, <1>2, <1>5, <1>e, <1>p, EntriesKeep
<1>7. ProcSound'
  <2>1. /\ proc'[w].pc = "poll" /\ proc'[w].pid <= starts'
        /\ worker'[w].pid = proc'[w].pid /\ worker'[w].id = 0
    BY <1>2, <1>3, <1>5, <1>e, <1>r, <1>p
  <2>2. worker'[w].ready
    BY <1>2, <1>e, <1>p
  <2> QED
    BY <2>1, <2>2, <1>1, <1>3, <1>5, ProcessesKeep
<1>8. SweepsSound'
  <2>1. \A v \in Workers : proc'[v].pid \in {proc[v].pid, 0, starts + 1}
    BY <1>3, <1>r
  <2> QED
    BY <2>1, <1>5, SweepsKeep
<1>9. PoolSound'
  <2>1. w \in Ready /\ Ready' = Ready
    BY <1>1, <1>e, <1>p DEF Ready
  <2>2. w \in Up /\ Up' = Up
    BY <1>3 DEF Up, Busy
  <2> QED
    BY <1>1, <2>1, <2>2, PoolKeeps
<1> QED
  BY <1>1, <1>4, <1>6, <1>7, <1>8, <1>9 DEF IInv

\* The slot of the request a worker runs is rewritten, unanswered as it was.
LEMMA WorkedOn ==
    ASSUME RuntimeConstants, IInv, NEW w \in Workers, NEW x \in Response,
           NEW s \in Slots, worker[w].id # 0, s = worker[w].slot,
           resp' = [resp EXCEPT ![s] = x],
           x.id = resp[s].id, x.owner = resp[s].owner, x.kind = resp[s].kind,
           ~x.ready,
           UNCHANGED <<queue, worker, client, lastId, starts>>
    PROVE  /\ resp' \in [Slots -> Response]
           /\ resp'[s] = x
           /\ QueueSound' /\ RespSound' /\ WorkerSound' /\ ClientSound'
           /\ \A v \in Workers \ {w} : worker[v].id # 0 =>
                resp'[worker[v].slot] = resp[worker[v].slot]
           /\ DocumentSlots' \subseteq DocumentSlots
<1>s. Shapes
  BY DEF IInv
<1>1. /\ resp' \in [Slots -> Response]
      /\ resp'[s] = x
      /\ \A t \in Slots : t # s => resp'[t] = resp[t]
      /\ DocumentSlots' \ {s} = DocumentSlots \ {s}
      /\ s \in DocumentSlots' <=> x.id # 0 /\ x.kind = "document"
  BY <1>s, OneSlot
<1>2. \A t \in Slots : /\ resp'[t].id = resp[t].id
                       /\ resp'[t].owner = resp[t].owner
                       /\ t # s => resp'[t] = resp[t]
  BY <1>1
<1>i. resp[s].id = worker[w].id /\ ~resp[s].ready
  BY DEF IInv, WorkerSound
<1>3. \A t \in Slots : resp'[t].ready <=> resp[t].ready
  BY <1>1, <1>i
<1>4. \A j : (With(j)' <=> With(j)) /\ (Queued(j)' <=> Queued(j))
  BY DEF With, Queued
<1>5. QueueSound'
  <2>1. \A r \in queue : r.slot \in Slots
    BY <1>s, Fields
  <2>2. \A r \in queue : ~With(r.id)'
    BY <1>4 DEF IInv, QueueSound
  <2> QED
    BY <2>1, <2>2, <1>2, <1>3 DEF IInv, QueueSound
<1>6. RespSound'
  <2>1. With(resp[s].id)
    BY <1>i DEF With
  <2>2. ASSUME NEW t \in Slots, NEW j, j = resp'[t].id, j # 0
        PROVE  /\ resp'[t].ready => /\ resp'[t].owner # None /\ ~With(j)'
                                    /\ ~resp'[t].error => resp'[t].data = j
               /\ ~resp'[t].ready => Queued(j)' \/ With(j)'
               /\ resp'[t].owner = None \/ resp'[t].writing => With(j)'
    <3>1. CASE t = s
      BY <2>1, <2>2, <3>1, <1>1, <1>2, <1>4
    <3>2. CASE t # s
      <4>1. resp'[t] = resp[t]
        BY <3>2, <1>1
      <4>3. /\ resp[t].ready => /\ resp[t].owner # None /\ ~With(j)
                                /\ ~resp[t].error => resp[t].data = j
            /\ ~resp[t].ready => Queued(j) \/ With(j)
            /\ resp[t].owner = None \/ resp[t].writing => With(j)
        BY <2>2, <4>1 DEF IInv, RespSound
      <4> QED
        BY <4>1, <4>3, <1>4
    <3> QED
      BY <3>1, <3>2
  <2>3. /\ \A t, u \in Slots : resp'[t].id # 0 /\ resp'[t].id = resp'[u].id => t = u
        /\ \A t \in Slots : resp'[t].id <= lastId'
    BY <1>2 DEF IInv, RespSound
  <2> QED
    BY <2>2, <2>3 DEF RespSound
<1>7. WorkerSound'
  <2>1. ASSUME NEW v \in Workers
        PROVE  /\ worker[v].id # 0 =>
                    /\ worker[v].slot \in Slots
                    /\ resp'[worker[v].slot].id = worker[v].id
                    /\ ~resp'[worker[v].slot].ready
               /\ worker[v].cancel =>
                    worker[v].id # 0 /\ resp'[worker[v].slot].owner = None
    BY <1>2, <1>3 DEF IInv, WorkerSound
  <2> QED
    BY <2>1 DEF IInv, WorkerSound
<1>8. ClientSound'
  BY <1>2, <1>3 DEF IInv, ClientSound, BackendSound
<1>9. \A v \in Workers \ {w} : worker[v].id # 0 =>
        resp'[worker[v].slot] = resp[worker[v].slot]
  <2>1. \A v \in Workers \ {w} : worker[v].id # 0 =>
          worker[v].slot \in Slots /\ worker[v].slot # s
    BY <1>i DEF IInv, WorkerSound
  <2> QED
    BY <2>1, <1>1
<1>10. DocumentSlots' \subseteq DocumentSlots
  BY <1>1 DEF DocumentSlots
<1> QED
  BY <1>1, <1>5, <1>6, <1>7, <1>8, <1>9, <1>10

LEMMA StoreBegins ==
    ASSUME RuntimeConstants, IInv, NEW w \in Workers, StoreBegin(w)
    PROVE  IInv'
<1>s. Shapes
  BY DEF IInv
<1>d. PICK s, i : s = proc[w].slot /\ i = proc[w].id
  OBVIOUS
<1>c. /\ proc[w].pc = "store"
      /\ UNCHANGED <<queue, client, lastId, starts, orphan, census>>
  BY DEF StoreBegin
<1>p. /\ proc[w].pc \in Busy
      /\ worker[w].id = i /\ i # 0 /\ worker[w].slot = s
      /\ s \in Slots /\ resp[s].id = i /\ ~resp[s].ready
  <2>1. proc[w].pc \in Busy
    BY <1>c DEF Busy
  <2>2. worker[w].id = i /\ i # 0 /\ worker[w].slot = s
    BY <2>1, <1>d DEF IInv, ProcSound, ProcessSound
  <2> QED
    BY <2>1, <2>2 DEF IInv, WorkerSound
<1>f. resp[s] \in Response /\ proc[w] \in Process
  BY <1>s, <1>p, Fields
<1>1. CASE resp[s].owner = None
  <2>1. /\ resp' = [resp EXCEPT ![worker[w].slot] = FreeResponse]
        /\ proc' = [proc EXCEPT ![w] = Polling(@)]
        /\ worker' = Finished(w, worker[w].id)
    BY <1>1, <1>p, <1>d DEF StoreBegin, ClearResponse
  <2>2. FreeResponse \in Response /\ Settled(resp[worker[w].slot], FreeResponse)
    BY <1>1, <1>p, FreeIsResponse DEF Settled
  <2> QED
    BY <2>1, <2>2, <1>c, <1>p, Finishes
<1>2. CASE resp[s].owner # None
  <2> DEFINE x == [resp[s] EXCEPT !.ready = FALSE, !.writing = TRUE,
                                  !.error = proc[w].error]
             r == [proc[w] EXCEPT !.pc = "fill"]
  <2>1. /\ resp' = [resp EXCEPT ![s] = x]
        /\ proc' = [proc EXCEPT ![w] = r]
        /\ UNCHANGED worker
    BY <1>2, <1>p, <1>d DEF StoreBegin
  <2>2. /\ x \in Response /\ x.id = resp[s].id /\ x.owner = resp[s].owner
        /\ x.kind = resp[s].kind /\ ~x.ready /\ x.error = proc[w].error
    BY <1>f DEF Response, Process
  <2>3. /\ r \in Process /\ r.pc = "fill" /\ r.pid = proc[w].pid /\ r.id = i
        /\ r.slot = s /\ r.model = proc[w].model /\ r.error = proc[w].error
    BY <1>f, <1>d DEF Process, Busy
  <2> HIDE DEF x, r
  <2>4. /\ resp' \in [Slots -> Response]
        /\ resp'[s] = x
        /\ QueueSound' /\ RespSound' /\ WorkerSound' /\ ClientSound'
        /\ \A v \in Workers \ {w} : worker[v].id # 0 =>
             resp'[worker[v].slot] = resp[worker[v].slot]
        /\ DocumentSlots' \subseteq DocumentSlots
    BY <2>1, <2>2, <1>c, <1>p, WorkedOn
  <2>5. /\ proc' \in [Workers -> Process] /\ proc'[w] = r
        /\ \A v \in Workers \ {w} : proc'[v] = proc[v]
        /\ Up' \ {w} = Up \ {w} /\ w \in Up'
    BY <2>1, <2>3, <1>s, OneProcess
  <2>6. Shapes'
    BY <2>1, <2>4, <2>5, <1>c, <1>s DEF Shapes
  <2>7. ProcSound'
    <3>1. starts' = starts /\ proc'[w].pc \in Busy /\ proc'[w].pc # "commit"
      BY <2>3, <2>5, <1>c DEF Busy
    <3>2. /\ proc'[w].pid = proc[w].pid /\ proc'[w].id = proc[w].id
          /\ proc'[w].slot = proc[w].slot /\ proc'[w].model = proc[w].model
          /\ resp'[proc'[w].slot].error = proc'[w].error
      BY <2>2, <2>3, <2>4, <2>5, <1>d
    <3> QED
      BY <3>1, <3>2, <2>1, <2>4, <2>5, <1>p, OneWrites
  <2>8. SweepsSound'
    <3>1. \A v \in Workers : proc'[v].pid \in {proc[v].pid, 0, starts + 1}
      BY <2>3, <2>5
    <3>2. starts \in Nat /\ starts' = starts /\ starts <= starts'
      BY <1>s, <1>c DEF Shapes
    <3> QED
      BY <3>1, <3>2, <1>c, SweepsKeep
  <2>9. PoolSound'
    <3>1. Up' = Up
      BY <2>5, <1>c DEF Up
    <3>2. Ready' = Ready /\ DocumentWorkers' = DocumentWorkers
      BY <2>1 DEF Ready, DocumentWorkers
    <3> QED
      BY <3>1, <3>2, <2>4, <1>c, PoolKeeps
  <2> QED
    BY <2>4, <2>6, <2>7, <2>8, <2>9 DEF IInv
<1> QED
  BY <1>1, <1>2

LEMMA ResponseFills ==
    ASSUME RuntimeConstants, IInv, NEW w \in Workers, FillResponse(w)
    PROVE  IInv'
<1>s. Shapes
  BY DEF IInv
<1>d. PICK s, i : s = proc[w].slot /\ i = proc[w].id
  OBVIOUS
<1> DEFINE x == [resp[s] EXCEPT !.data = IF proc[w].error THEN 0 ELSE i]
           r == [proc[w] EXCEPT !.pc = "commit"]
<1>c. /\ proc[w].pc = "fill"
      /\ proc' = [proc EXCEPT ![w] = r]
      /\ resp' = [resp EXCEPT ![s] = x]
      /\ UNCHANGED <<queue, worker, client, lastId, starts, orphan, census>>
  BY <1>d DEF FillResponse
<1>p. /\ proc[w].pc \in Busy
      /\ worker[w].id = i /\ i # 0 /\ worker[w].slot = s
      /\ s \in Slots /\ resp[s].id = i /\ ~resp[s].ready
      /\ resp[s].error = proc[w].error
  <2>1. proc[w].pc \in Busy
    BY <1>c DEF Busy
  <2>2. /\ worker[w].id = i /\ i # 0 /\ worker[w].slot = s
        /\ resp[s].error = proc[w].error
    BY <2>1, <1>c, <1>d DEF IInv, ProcSound, ProcessSound
  <2> QED
    BY <2>1, <2>2 DEF IInv, WorkerSound
<1>f. resp[s] \in Response /\ proc[w] \in Process
  BY <1>s, <1>p, Fields
<1>n. 0 \in Ids /\ i \in Ids
  BY <1>f, <1>d DEF Ids, RuntimeConstants, Process
<1>x. /\ x \in Response /\ x.id = resp[s].id /\ x.owner = resp[s].owner
      /\ x.kind = resp[s].kind /\ ~x.ready /\ x.error = proc[w].error
      /\ x.data = IF proc[w].error THEN 0 ELSE i
  BY <1>f, <1>n, <1>p DEF Response, Process
<1>r. /\ r \in Process /\ r.pc = "commit" /\ r.pid = proc[w].pid /\ r.id = i
      /\ r.slot = s /\ r.model = proc[w].model /\ r.error = proc[w].error
  BY <1>f, <1>d DEF Process, Busy
<1> HIDE DEF x, r
<1>4. /\ resp' \in [Slots -> Response]
      /\ resp'[s] = x
      /\ QueueSound' /\ RespSound' /\ WorkerSound' /\ ClientSound'
      /\ \A v \in Workers \ {w} : worker[v].id # 0 =>
           resp'[worker[v].slot] = resp[worker[v].slot]
      /\ DocumentSlots' \subseteq DocumentSlots
  BY <1>c, <1>p, <1>x, WorkedOn
<1>5. /\ proc' \in [Workers -> Process] /\ proc'[w] = r
      /\ \A v \in Workers \ {w} : proc'[v] = proc[v]
      /\ Up' \ {w} = Up \ {w} /\ (w \in Up' <=> r.pc # "down")
  BY <1>c, <1>r, <1>s, OneProcess
<1>6. Shapes'
  BY <1>4, <1>5, <1>c, <1>s DEF Shapes
<1>7. ProcSound'
  <2>1. starts' = starts /\ proc'[w].pc \in Busy
    BY <1>r, <1>5, <1>c DEF Busy
  <2>2. /\ proc'[w].pid = proc[w].pid /\ proc'[w].id = proc[w].id
        /\ proc'[w].slot = proc[w].slot /\ proc'[w].model = proc[w].model
        /\ resp'[proc'[w].slot].error = proc'[w].error
        /\ resp'[proc'[w].slot].data =
             IF proc'[w].error THEN 0 ELSE proc'[w].id
    BY <1>x, <1>r, <1>4, <1>5, <1>d
  <2> QED
    BY <2>1, <2>2, <1>4, <1>5, <1>c, <1>p, OneWrites
<1>8. SweepsSound'
  <2>1. \A v \in Workers : proc'[v].pid \in {proc[v].pid, 0, starts + 1}
    BY <1>5, <1>r
  <2>2. starts \in Nat /\ starts' = starts /\ starts <= starts'
    BY <1>s, <1>c DEF Shapes
  <2> QED
    BY <2>1, <2>2, <1>c, SweepsKeep
<1>9. PoolSound'
  <2>1. Up' = Up
    BY <1>5, <1>c, <1>r DEF Up
  <2>2. Ready' = Ready /\ DocumentWorkers' = DocumentWorkers
    BY <1>c DEF Ready, DocumentWorkers
  <2> QED
    BY <2>1, <2>2, <1>4, <1>c, PoolKeeps
<1> QED
  BY <1>4, <1>6, <1>7, <1>8, <1>9 DEF IInv

LEMMA StoreEnds ==
    ASSUME RuntimeConstants, IInv, NEW w \in Workers, StoreEnd(w)
    PROVE  IInv'
<1>s. Shapes
  BY DEF IInv
<1>d. PICK s, i : s = proc[w].slot /\ i = proc[w].id
  OBVIOUS
<1>c. /\ proc[w].pc = "commit"
      /\ UNCHANGED <<queue, client, lastId, starts, orphan, census>>
      /\ worker' = Finished(w, i)
      /\ proc' = [proc EXCEPT ![w] = Polling(@)]
  BY <1>d DEF StoreEnd
<1>p. /\ proc[w].pc \in Busy
      /\ worker[w].id = i /\ i # 0 /\ worker[w].slot = s
      /\ s \in Slots /\ resp[s].id = i
      /\ resp[s].error = proc[w].error
      /\ resp[s].data = IF proc[w].error THEN 0 ELSE i
  <2>1. proc[w].pc \in Busy
    BY <1>c DEF Busy
  <2>2. /\ worker[w].id = i /\ i # 0 /\ worker[w].slot = s
        /\ resp[s].error = proc[w].error
        /\ resp[s].data = IF proc[w].error THEN 0 ELSE i
    BY <2>1, <1>c, <1>d DEF IInv, ProcSound, ProcessSound
  <2> QED
    BY <2>1, <2>2 DEF IInv, WorkerSound
<1>f. resp[s] \in Response /\ proc[w] \in Process
  BY <1>s, <1>p, Fields
<1>1. CASE resp[s].owner = None
  <2>1. resp' = [resp EXCEPT ![worker[w].slot] = FreeResponse]
    BY <1>1, <1>p, <1>d DEF StoreEnd, ClearResponse
  <2>2. FreeResponse \in Response /\ Settled(resp[worker[w].slot], FreeResponse)
    BY <1>1, <1>p, FreeIsResponse DEF Settled
  <2> QED
    BY <2>1, <2>2, <1>c, <1>p, Finishes
<1>2. CASE resp[s].owner # None
  <2> DEFINE x == [resp[s] EXCEPT !.writing = FALSE, !.ready = TRUE]
  <2>1. resp' = [resp EXCEPT ![worker[w].slot] = x]
    BY <1>2, <1>p, <1>d DEF StoreEnd
  <2>2. /\ x \in Response /\ x.id = resp[s].id /\ x.owner = resp[s].owner
        /\ x.kind = resp[s].kind /\ x.ready /\ ~x.writing
        /\ x.error = proc[w].error /\ (~proc[w].error => x.data = i)
    BY <1>f, <1>p DEF Response, Process
  <2> HIDE DEF x
  <2>3. Settled(resp[worker[w].slot], x)
    BY <2>2, <1>2, <1>p DEF Settled
  <2> QED
    BY <2>1, <2>2, <2>3, <1>c, <1>p, Finishes
<1> QED
  BY <1>1, <1>2

(***************************************************************************)
(* Workers come, run and go                                                *)
(***************************************************************************)
\* An entry changes, but for nothing the other tables rely on.
LEMMA RunEnds ==
    ASSUME RuntimeConstants, IInv, NEW w \in Workers, NEW error \in BOOLEAN,
           RunReturns(w, error)
    PROVE  IInv'
<1>s. Shapes
  BY DEF IInv
<1> DEFINE r == [proc[w] EXCEPT !.pc = "store", !.error = error]
           e == IF error THEN worker[w]
                ELSE [worker[w] EXCEPT !.affinity = <<proc[w].kind, proc[w].model>>]
<1>f. worker[w] \in Entry /\ proc[w] \in Process /\ worker \in [Workers -> Entry]
  BY <1>s, Fields DEF Shapes
<1>c. /\ proc[w].pc = "run"
      /\ proc' = [proc EXCEPT ![w] = r]
      /\ worker' = [worker EXCEPT ![w] = e]
      /\ UNCHANGED <<queue, resp, client, lastId, starts, orphan, census>>
  BY <1>f DEF RunReturns
<1>p. proc[w].pc \in Busy /\ proc[w].model \in Models
  BY <1>c DEF Busy, IInv, ProcSound, ProcessSound
<1>r. /\ r \in Process /\ r.pc = "store" /\ r.pid = proc[w].pid
      /\ r.id = proc[w].id /\ r.slot = proc[w].slot /\ r.model = proc[w].model
  BY <1>f DEF Process, Busy
<1>e. /\ e \in Entry /\ e.pid = worker[w].pid /\ e.ready = worker[w].ready
      /\ e.id = worker[w].id /\ e.slot = worker[w].slot
      /\ e.doc = worker[w].doc /\ e.cancel = worker[w].cancel
  <2>1. <<proc[w].kind, proc[w].model>> \in Kind \X Models
    BY <1>f, <1>p DEF Process
  <2> QED
    BY <2>1, <1>f DEF Entry
<1> HIDE DEF r, e
<1>2. /\ worker' \in [Workers -> Entry] /\ worker'[w] = e
      /\ \A v \in Workers : v # w => worker'[v] = worker[v]
  BY <1>c, <1>e, <1>f, OneChange
<1>5. /\ proc' \in [Workers -> Process] /\ proc'[w] = r
      /\ \A v \in Workers \ {w} : proc'[v] = proc[v]
      /\ Up' \ {w} = Up \ {w} /\ (w \in Up' <=> r.pc # "down")
  BY <1>c, <1>r, <1>s, OneProcess
<1>3. \A v \in Workers : /\ worker'[v].id = worker[v].id
                         /\ worker'[v].slot = worker[v].slot
                         /\ worker'[v].pid = worker[v].pid
                         /\ worker'[v].ready = worker[v].ready
                         /\ worker'[v].doc = worker[v].doc
                         /\ worker'[v].cancel = worker[v].cancel
  BY <1>2, <1>e
<1>4. \A j : With(j)' <=> With(j)
  BY <1>3 DEF With
<1>6. Shapes'
  BY <1>2, <1>5, <1>c, <1>s DEF Shapes
<1>q. QueueSound' /\ RespSound'
  <2>1. \A j : Queued(j)' <=> Queued(j)
    BY <1>c DEF Queued
  <2>2. QueueSound'
    BY <1>4, <1>c DEF IInv, QueueSound
  <2>3. ASSUME NEW t \in Slots, NEW j, j = resp[t].id, j # 0
        PROVE  /\ resp[t].ready => /\ resp[t].owner # None /\ ~With(j)'
                                   /\ ~resp[t].error => resp[t].data = j
               /\ ~resp[t].ready => Queued(j)' \/ With(j)'
               /\ resp[t].owner = None \/ resp[t].writing => With(j)'
    BY <2>1, <2>3, <1>4 DEF IInv, RespSound
  <2>4. RespSound'
    BY <2>3, <1>c DEF IInv, RespSound
  <2> QED
    BY <2>2, <2>4
<1>w. WorkerSound'
  BY <1>3, <1>c DEF IInv, WorkerSound
<1>7. ProcSound'
  <2>1. starts' = starts /\ proc'[w].pc \in Busy /\ proc'[w].pc \notin {"fill", "commit"}
    BY <1>r, <1>5, <1>c DEF Busy
  <2>2. /\ proc'[w].pid = proc[w].pid /\ proc'[w].id = proc[w].id
        /\ proc'[w].slot = proc[w].slot /\ proc'[w].model = proc[w].model
    BY <1>r, <1>5
  <2> QED
    BY <2>1, <2>2, <1>2, <1>3, <1>5, <1>c, <1>p, OneWrites
<1>8. SweepsSound'
  <2>1. \A v \in Workers : proc'[v].pid \in {proc[v].pid, 0, starts + 1}
    BY <1>5, <1>r
  <2>2. starts \in Nat /\ starts' = starts /\ starts <= starts'
    BY <1>s, <1>c DEF Shapes
  <2> QED
    BY <2>1, <2>2, <1>c, SweepsKeep
<1>9. PoolSound'
  <2>1. Up' = Up
    BY <1>5, <1>c, <1>r DEF Up
  <2>2. Ready' = Ready /\ DocumentWorkers' = DocumentWorkers
    BY <1>3 DEF Ready, DocumentWorkers
  <2>3. DocumentSlots' = DocumentSlots
    BY <1>c DEF DocumentSlots
  <2> QED
    BY <2>1, <2>2, <2>3, <1>c, PoolKeeps
<1>10. ClientSound'
  BY <1>c DEF IInv, ClientSound, BackendSound
<1> QED
  BY <1>6, <1>q, <1>w, <1>7, <1>8, <1>9, <1>10 DEF IInv

\* Only a process changes.
LEMMA ProcessAlone ==
    ASSUME RuntimeConstants, IInv, NEW w \in Workers, NEW r \in Process,
           proc' = [proc EXCEPT ![w] = r],
           UNCHANGED <<queue, resp, worker, client, lastId, starts, orphan, census>>,
           ProcessSound(w)',
           r.pid \in {proc[w].pid, 0},
           starts <= MaxStarts + Cardinality(Up')
    PROVE  IInv'
<1>s. Shapes
  BY DEF IInv
<1>1. /\ proc' \in [Workers -> Process] /\ proc'[w] = r
      /\ \A v \in Workers \ {w} : proc'[v] = proc[v]
  BY <1>s, OneProcess
<1>2. Shapes'
  BY <1>1, <1>s DEF Shapes
<1>3. /\ QueueSound' /\ RespSound' /\ WorkerSound' /\ ClientSound'
  BY DEF IInv, QueueSound, Queued, With, RespSound, WorkerSound, ClientSound, BackendSound
<1>4. starts \in Nat /\ starts' = starts /\ starts <= starts'
  BY <1>s DEF Shapes
<1>5. ProcSound'
  BY <1>1, <1>4, OtherProcesses DEF ProcSound
<1>6. SweepsSound'
  <2>1. \A v \in Workers : proc'[v].pid \in {proc[v].pid, 0, starts + 1}
    BY <1>1
  <2> QED
    BY <2>1, <1>4, SweepsKeep
<1>7. PoolSound'
  BY DEF IInv, PoolSound, Ready, DocumentWorkers, DocumentSlots
<1> QED
  BY <1>2, <1>3, <1>5, <1>6, <1>7 DEF IInv

LEMMA Hangs ==
    ASSUME RuntimeConstants, IInv, NEW w \in Workers, RunHangs(w)
    PROVE  IInv'
<1>s. Shapes
  BY DEF IInv
<1> DEFINE r == [proc[w] EXCEPT !.pc = "hung"]
<1>c. /\ proc[w].pc = "run"
      /\ proc' = [proc EXCEPT ![w] = r]
      /\ UNCHANGED <<queue, resp, worker, client, lastId, starts, orphan, census>>
  BY DEF RunHangs, shared
<1>f. proc[w] \in Process
  BY <1>s, Fields
<1>r. /\ r \in Process /\ r.pc = "hung" /\ r.pid = proc[w].pid
      /\ r.id = proc[w].id /\ r.slot = proc[w].slot /\ r.model = proc[w].model
  BY <1>f DEF Process, Busy
<1> HIDE DEF r
<1>1. proc'[w] = r /\ Up' \ {w} = Up \ {w} /\ w \in Up'
  BY <1>c, <1>r, <1>s, OneProcess
<1>2. ProcessSound(w)'
  <2>1. ProcessSound(w)
    BY DEF IInv, ProcSound
  <2> QED
    BY <2>1, <1>1, <1>c, <1>r DEF ProcessSound, Busy
<1>3. Up' = Up
  BY <1>1, <1>c DEF Up
<1>4. starts <= MaxStarts + Cardinality(Up')
  BY <1>3 DEF IInv, PoolSound
<1> QED
  BY <1>c, <1>r, <1>2, <1>4, ProcessAlone

LEMMA WorkerDies ==
    ASSUME RuntimeConstants, IInv, NEW w \in Workers, WorkerDie(w)
    PROVE  IInv'
<1>s. Shapes
  BY DEF IInv
<1>c. /\ starts < MaxStarts
      /\ proc' = [proc EXCEPT ![w] = Down]
      /\ UNCHANGED <<queue, resp, worker, client, lastId, starts, orphan, census>>
  BY DEF WorkerDie, shared
<1>r. Down \in Process /\ Down.pc = "down" /\ Down.pid = 0
  BY FreeIsResponse
<1>1. proc'[w] = Down /\ Up' \ {w} = Up \ {w} /\ w \notin Up'
  BY <1>c, <1>r, <1>s, OneProcess
<1>2. ProcessSound(w)'
  BY <1>1, <1>c, <1>r, <1>s DEF ProcessSound, Busy, Shapes
<1>3. Up' \in SUBSET Workers
  BY DEF Up
<1>4. Cardinality(Up') \in Nat
  BY <1>3, FiniteGroups
<1>5. starts <= MaxStarts + Cardinality(Up')
  BY <1>4, <1>c, <1>s DEF Shapes, RuntimeConstants
<1> QED
  BY <1>c, <1>r, <1>2, <1>5, ProcessAlone

(***************************************************************************)
(* Requests leave the queue                                                *)
(***************************************************************************)
\* A canceled request has no slot left to drop.
LEMMA NothingDropped ==
    ASSUME RuntimeConstants, IInv
    PROVE  DroppedResponses = resp
<1>1. \A s \in Slots, r \in queue : r.canceled => resp[s].id # r.id
  BY DEF IInv, QueueSound
<1>2. DroppedResponses = [s \in Slots |-> resp[s]]
  BY <1>1 DEF DroppedResponses
<1>3. resp = [s \in Slots |-> resp[s]]
  BY DEF IInv, Shapes
<1> QED
  BY <1>2, <1>3

\* A smaller queue is finite and within its bound.
LEMMA QueueShrinks ==
    ASSUME RuntimeConstants, IInv, NEW Q \in SUBSET queue
    PROVE  IsFiniteSet(Q) /\ Cardinality(Q) <= ResponseCapacity
<1>1. /\ IsFiniteSet(queue) /\ Cardinality(queue) <= ResponseCapacity
  BY DEF IInv, QueueSound
<1>2. IsFiniteSet(Q) /\ Cardinality(Q) <= Cardinality(queue)
  BY <1>1, FS_Subset
<1>3. Cardinality(Q) \in Nat /\ Cardinality(queue) \in Nat
  BY <1>1, <1>2, FS_CardinalityType
<1> QED
  BY <1>1, <1>2, <1>3 DEF RuntimeConstants

LEMMA CanceledDropped ==
    ASSUME RuntimeConstants, IInv, NEW w \in Workers, DropCanceled(w)
    PROVE  IInv'
<1>s. Shapes
  BY DEF IInv
<1>c. /\ queue' = LiveRequests /\ resp' = resp
      /\ UNCHANGED <<worker, proc, client, lastId, starts, orphan, census>>
  BY NothingDropped DEF DropCanceled
<1>l. queue' \in SUBSET queue /\ \A r \in queue : r \in queue' <=> ~r.canceled
  BY <1>c DEF LiveRequests
<1>1. Shapes'
  BY <1>c, <1>l, <1>s DEF Shapes
<1>2. \A j : (With(j)' <=> With(j)) /\ (Queued(j)' <=> Queued(j))
  BY <1>c, <1>l DEF With, Queued
<1>3. QueueSound'
  <2>1. IsFiniteSet(queue') /\ Cardinality(queue') <= ResponseCapacity
    BY <1>l, QueueShrinks
  <2>2. \A r \in queue' : ~With(r.id)'
    BY <1>l, <1>2 DEF IInv, QueueSound
  <2> QED
    BY <2>1, <2>2, <1>c, <1>l DEF IInv, QueueSound
<1>4. RespSound'
  <2>3. ASSUME NEW t \in Slots, NEW j, j = resp[t].id, j # 0
        PROVE  /\ resp[t].ready => /\ resp[t].owner # None /\ ~With(j)'
                                   /\ ~resp[t].error => resp[t].data = j
               /\ ~resp[t].ready => Queued(j)' \/ With(j)'
               /\ resp[t].owner = None \/ resp[t].writing => With(j)'
    BY <2>3, <1>2 DEF IInv, RespSound
  <2> QED
    BY <2>3, <1>c DEF IInv, RespSound
<1>5. WorkerSound' /\ ProcSound' /\ ClientSound' /\ SweepsSound' /\ PoolSound'
  BY <1>c DEF IInv, WorkerSound, ProcSound, ProcessSound, ClientSound, BackendSound,
     SweepsSound, PoolSound, Up, Ready, DocumentWorkers, DocumentSlots
<1> QED
  BY <1>1, <1>3, <1>4, <1>5 DEF IInv

LEMMA Dispatched ==
    ASSUME RuntimeConstants, IInv, NEW w \in Workers, Dispatch(w)
    PROVE  IInv'
<1>s. Shapes
  BY DEF IInv
<1>q. PICK q : /\ q = SelectRequest(w, LiveRequests)
               /\ queue' = LiveRequests \ {q}
               /\ worker' = [worker EXCEPT ![w] =
                    [worker[w] EXCEPT !.id = q.id, !.slot = q.slot, !.owner = q.caller,
                              !.doc = (q.kind = "document"), !.cancel = FALSE]]
               /\ proc' = [proc EXCEPT ![w] =
                    [proc[w] EXCEPT !.pc = "run", !.id = q.id, !.slot = q.slot,
                              !.kind = q.kind, !.model = q.model]]
  BY DEF Dispatch
<1>c. /\ proc[w].pc = "poll" /\ worker[w].ready /\ worker[w].id = 0
      /\ Selectable(w, LiveRequests) # {}
      /\ resp' = resp
      /\ UNCHANGED <<client, lastId, starts, orphan, census>>
  BY NothingDropped DEF Dispatch, Processing
<1>f. /\ worker[w] \in Entry /\ proc[w] \in Process
      /\ \A r \in queue : /\ r.id \in Nat \ {0} /\ r.id \in Ids /\ r.slot \in Slots
                          /\ r.kind \in Kind /\ r.model \in Models
                          /\ r.caller \in Backends
  BY <1>s, Fields
<1>m. /\ q \in queue /\ ~q.canceled
      /\ q.kind = "document" => DocumentCapacity
  <2>1. LiveRequests \subseteq queue /\ \A r \in LiveRequests : ~r.canceled /\ r.id \in Nat
    BY <1>f DEF LiveRequests
  <2>2. q \in Selectable(w, LiveRequests)
    BY <2>1, <1>c, <1>q, SelectedIsSelectable
  <2> QED
    BY <2>1, <2>2 DEF Selectable
<1> DEFINE e == [worker[w] EXCEPT !.id = q.id, !.slot = q.slot, !.owner = q.caller,
                              !.doc = (q.kind = "document"), !.cancel = FALSE]
           r == [proc[w] EXCEPT !.pc = "run", !.id = q.id, !.slot = q.slot,
                              !.kind = q.kind, !.model = q.model]
<1>e. /\ e \in Entry /\ e.id = q.id /\ e.slot = q.slot /\ ~e.cancel
      /\ e.pid = worker[w].pid /\ e.ready = worker[w].ready
      /\ e.doc <=> q.kind = "document"
  BY <1>f, <1>m DEF Entry
<1>r. /\ r \in Process /\ r.pc = "run" /\ r.pid = proc[w].pid /\ r.id = q.id
      /\ r.slot = q.slot /\ r.model = q.model
  BY <1>f, <1>m DEF Process, Busy
<1>t. /\ worker' = [worker EXCEPT ![w] = e] /\ proc' = [proc EXCEPT ![w] = r]
  BY <1>q
<1> HIDE DEF e, r
<1>2. /\ worker' \in [Workers -> Entry]
      /\ worker'[w] = e
      /\ \A v \in Workers : v # w => worker'[v] = worker[v]
      /\ Ready' \ {w} = Ready \ {w}
      /\ w \in Ready' <=> e.ready
      /\ DocumentWorkers' \ {w} = DocumentWorkers \ {w}
      /\ w \in DocumentWorkers' <=> e.ready /\ e.doc
  BY <1>t, <1>e, <1>s, OneEntry
<1>5. /\ proc' \in [Workers -> Process] /\ proc'[w] = r
      /\ \A v \in Workers \ {w} : proc'[v] = proc[v]
      /\ Up' \ {w} = Up \ {w} /\ (w \in Up' <=> r.pc # "down")
  BY <1>t, <1>r, <1>s, OneProcess
<1>l. /\ queue' \in SUBSET queue
      /\ \A x \in queue : x \in queue' <=> ~x.canceled /\ x # q
  BY <1>q DEF LiveRequests
<1>6. Shapes'
  BY <1>2, <1>5, <1>c, <1>l, <1>s DEF Shapes
<1>i. q.id # 0 /\ ~With(q.id) /\ resp[q.slot].id = q.id /\ ~resp[q.slot].ready
  BY <1>m, <1>f DEF IInv, QueueSound
<1>w. \A j : /\ j # q.id /\ j # 0 => (With(j)' <=> With(j))
             /\ j = q.id => With(j)'
  <2>1. \A j : With(j)' <=> \E v \in Workers : worker'[v].id = j
    BY DEF With
  <2>2. worker'[w].id = q.id /\ worker[w].id = 0
    BY <1>2, <1>e, <1>c
  <2> QED
    BY <2>1, <2>2, <1>2 DEF With
<1>u. \A x \in queue : x.id = q.id => x = q
  BY <1>m DEF IInv, QueueSound
<1>d. \A j : j # q.id => (Queued(j)' <=> Queued(j))
  BY <1>l DEF Queued
<1>3. QueueSound'
  <2>1. IsFiniteSet(queue') /\ Cardinality(queue') <= ResponseCapacity
    BY <1>l, QueueShrinks
  <2>2. \A x \in queue' : ~With(x.id)'
    BY <1>l, <1>w, <1>u, <1>f DEF IInv, QueueSound
  <2> QED
    BY <2>1, <2>2, <1>c, <1>l DEF IInv, QueueSound
<1>4. RespSound'
  <2>3. ASSUME NEW t \in Slots, NEW j, j = resp[t].id, j # 0
        PROVE  /\ resp[t].ready => /\ resp[t].owner # None /\ ~With(j)'
                                   /\ ~resp[t].error => resp[t].data = j
               /\ ~resp[t].ready => Queued(j)' \/ With(j)'
               /\ resp[t].owner = None \/ resp[t].writing => With(j)'
    <3>1. /\ resp[t].ready => /\ resp[t].owner # None /\ ~With(j)
                              /\ ~resp[t].error => resp[t].data = j
          /\ ~resp[t].ready => Queued(j) \/ With(j)
          /\ resp[t].owner = None \/ resp[t].writing => With(j)
      BY <2>3 DEF IInv, RespSound
    <3>2. CASE j = q.id
      <4>1. Queued(j)
        BY <3>2, <1>m DEF Queued
      <4>2. ~resp[t].ready
        BY <2>3, <4>1, Places
      <4>3. With(j)'
        BY <3>2, <1>w
      <4> QED
        BY <4>2, <4>3
    <3>3. CASE j # q.id
      <4>1. (With(j)' <=> With(j)) /\ (Queued(j)' <=> Queued(j))
        BY <3>3, <2>3, <1>w, <1>d
      <4> QED
        BY <3>1, <4>1
    <3> QED
      BY <3>2, <3>3
  <2> QED
    BY <2>3, <1>c DEF IInv, RespSound
<1>7. WorkerSound'
  <2>1. worker[w].pid <= starts /\ (worker[w].ready => worker[w].pid # 0)
    BY DEF IInv, WorkerSound
  <2>2. ASSUME NEW v \in Workers
        PROVE  /\ worker'[v].pid <= starts
               /\ worker'[v].ready => worker'[v].pid # 0
               /\ worker'[v].id # 0 =>
                    /\ worker'[v].slot \in Slots
                    /\ resp[worker'[v].slot].id = worker'[v].id
                    /\ ~resp[worker'[v].slot].ready
               /\ worker'[v].cancel =>
                    worker'[v].id # 0 /\ resp[worker'[v].slot].owner = None
    <3>1. CASE v = w
      BY <2>1, <3>1, <1>2, <1>e, <1>i, <1>f, <1>m
    <3>2. CASE v # w
      BY <3>2, <1>2 DEF IInv, WorkerSound
    <3> QED
      BY <3>1, <3>2
  <2>3. \A u, v \in Workers : worker'[u].id # 0 /\ worker'[u].id = worker'[v].id => u = v
    BY <1>2, <1>e, <1>i DEF With, IInv, WorkerSound
  <2> QED
    BY <2>2, <2>3, <1>c DEF WorkerSound
<1>8. ProcSound'
  <2>1. \A v \in Workers \ {w} : ProcessSound(v)'
    <3>1. starts' \in Nat /\ starts <= starts'
      BY <1>s, <1>c DEF Shapes
    <3> QED
      BY <3>1, <1>2, <1>5, <1>c, OtherProcesses
  <2>2. ProcessSound(w)
    BY DEF IInv, ProcSound
  <2>3. proc'[w].pc \notin {"down", "poll", "fill", "commit"}
    BY <1>5, <1>r
  <2>4. ProcessSound(w)'
    BY <2>2, <2>3, <1>2, <1>5, <1>c, <1>e, <1>r, <1>i, <1>f, <1>m DEF ProcessSound
  <2> QED
    BY <2>1, <2>4 DEF ProcSound
<1>9. SweepsSound'
  <2>1. \A v \in Workers : proc'[v].pid \in {proc[v].pid, 0, starts + 1}
    BY <1>5, <1>r
  <2>2. starts \in Nat /\ starts' = starts /\ starts <= starts'
    BY <1>s, <1>c DEF Shapes
  <2> QED
    BY <2>1, <2>2, <1>c, SweepsKeep
<1>10. ClientSound'
  BY <1>c DEF IInv, ClientSound, BackendSound
<1>11. Ready' = Ready /\ Up' = Up /\ DocumentSlots' = DocumentSlots
  <2>1. w \in Ready /\ w \in Up
    BY <1>c DEF Ready, Up
  <2> QED
    BY <2>1, <1>2, <1>5, <1>e, <1>r, <1>c DEF DocumentSlots
<1>12. PoolSound'
  <2>1. CASE q.kind # "document"
    <3>1. DocumentWorkers' \subseteq DocumentWorkers
      BY <2>1, <1>2, <1>e
    <3> QED
      BY <3>1, <1>11, <1>c, PoolKeeps
  <2>2. CASE q.kind = "document"
    <3>1. DocumentWorkers \in SUBSET Workers /\ Ready \in SUBSET Workers
      BY DEF DocumentWorkers, Ready
    <3>2. IsFiniteSet(DocumentWorkers) /\ Cardinality(Ready) \in Nat
      BY <3>1, FiniteGroups
    <3>3. /\ Cardinality(DocumentWorkers) \in Nat
          /\ Cardinality(DocumentWorkers') \in Nat
          /\ Cardinality(DocumentWorkers') <= Cardinality(DocumentWorkers) + 1
      BY <3>2, <1>2, OneElement
    <3>4. DocumentCapacity
      BY <2>2, <1>m
    <3>5. /\ starts <= MaxStarts + Cardinality(Up)
          /\ Cardinality(Ready) <= starts
          /\ ReserveQueryLane /\ ResponseCapacity > 1 =>
               Cardinality(DocumentSlots) < ResponseCapacity
      BY DEF IInv, PoolSound
    <3>6. starts \in Nat
      BY <1>s DEF Shapes
    <3>7. ReserveQueryLane /\ Cardinality(Ready) = starts /\ starts >= 2 =>
            Cardinality(DocumentWorkers') < starts
      BY <3>2, <3>3, <3>4, <3>6 DEF DocumentCapacity, ActiveDocumentWorkers,
         MaxDocumentWorkers, ReservedWorkers, DocumentWorkers
    <3> QED
      BY <3>5, <3>7, <1>11, <1>c DEF PoolSound
  <2> QED
    BY <2>1, <2>2
<1> QED
  BY <1>3, <1>4, <1>6, <1>7, <1>8, <1>9, <1>10, <1>12 DEF IInv

(***************************************************************************)
(* Backends                                                                *)
(***************************************************************************)
\* Only a backend changes, and it says nothing of the tables that is not so.
LEMMA BackendAlone ==
    ASSUME RuntimeConstants, IInv, NEW b \in Backends, NEW c \in Client,
           client' = [client EXCEPT ![b] = c],
           UNCHANGED <<queue, resp, worker, proc, lastId, starts, orphan, census>>,
           BackendSound(b)',
           client[b].pc # "exited"
    PROVE  IInv'
<1>s. Shapes
  BY DEF IInv
<1>1. /\ client' \in [Backends -> Client] /\ client'[b] = c
      /\ \A d \in Backends : d # b => client'[d] = client[d]
  BY <1>s, OneChange DEF Shapes
<1>2. Shapes'
  BY <1>1, <1>s DEF Shapes
<1>3. QueueSound' /\ RespSound' /\ WorkerSound' /\ ProcSound' /\ PoolSound'
  BY DEF IInv, QueueSound, Queued, With, RespSound, WorkerSound, ProcSound,
     ProcessSound, PoolSound, Up, Ready, DocumentWorkers, DocumentSlots
<1>4. ClientSound'
  <2>1. \A d \in Backends : d # b => BackendSound(d)'
    BY <1>1 DEF IInv, ClientSound, BackendSound
  <2> QED
    BY <2>1 DEF ClientSound
<1>5. SweepsSound'
  <2>1. /\ \A d \in Backends : client[d].pc = "exited" => client'[d].pc = "exited"
        /\ starts \in Nat /\ starts' = starts /\ starts <= starts'
    BY <1>1, <1>s DEF Shapes
  <2> QED
    BY <2>1, SweepsKeep
<1> QED
  BY <1>2, <1>3, <1>4, <1>5 DEF IInv

LEMMA Submits ==
    ASSUME RuntimeConstants, IInv, NEW b \in Backends, NEW kind \in Kinds,
           NEW model \in Models, Submit(b, kind, model)
    PROVE  IInv'
<1> DEFINE c == [client[b] EXCEPT !.pc = "admit", !.kind = kind, !.model = model]
<1>s. Shapes
  BY DEF IInv
<1>1. /\ client[b].pc = "idle" /\ client' = [client EXCEPT ![b] = c]
      /\ UNCHANGED <<queue, resp, worker, proc, lastId, starts, orphan, census>>
  BY DEF Submit, shared
<1>2. client[b] \in Client /\ kind \in Kind
  BY <1>s, Fields DEF RuntimeConstants, Kind
<1>3. c \in Client /\ c.pc = "admit" /\ c.model \in Models
  BY <1>2 DEF Client
<1> HIDE DEF c
<1>4. client'[b] = c
  BY <1>1, <1>s DEF Shapes
<1>5. BackendSound(b)'
  BY <1>3, <1>4 DEF BackendSound
<1> QED
  BY <1>1, <1>3, <1>5, BackendAlone

LEMMA GivesUpAdmission ==
    ASSUME RuntimeConstants, IInv, NEW b \in Backends,
           GiveUpAdmission(b) \/ NextStatement(b)
    PROVE  IInv'
<1>s. Shapes
  BY DEF IInv
<1>1. /\ client[b].pc # "exited" /\ client' = [client EXCEPT ![b] = IdleClient]
      /\ UNCHANGED <<queue, resp, worker, proc, lastId, starts, orphan, census>>
  BY DEF GiveUpAdmission, NextStatement, shared
<1>2. IdleClient \in Client /\ IdleClient.pc = "idle"
  BY FreeIsResponse
<1>3. client'[b] = IdleClient
  BY <1>1, <1>s DEF Shapes
<1>4. BackendSound(b)'
  BY <1>2, <1>3 DEF BackendSound
<1> QED
  BY <1>1, <1>2, <1>4, BackendAlone

LEMMA SeesAnswer ==
    ASSUME RuntimeConstants, IInv, NEW b \in Backends, SeeAnswer(b)
    PROVE  IInv'
<1> DEFINE c == [client[b] EXCEPT !.pc = "copy"]
<1>s. Shapes
  BY DEF IInv
<1>1. /\ client[b].pc = "wait" /\ client' = [client EXCEPT ![b] = c]
      /\ resp[client[b].slot].ready
      /\ UNCHANGED <<queue, resp, worker, proc, lastId, starts, orphan, census>>
  BY DEF SeeAnswer, shared, Delivered
<1>2. client[b] \in Client
  BY <1>s, Fields
<1>3. c \in Client /\ c.pc = "copy" /\ c.id = client[b].id /\ c.slot = client[b].slot
  BY <1>2 DEF Client
<1> HIDE DEF c
<1>4. client'[b] = c
  BY <1>1, <1>s DEF Shapes
<1>5. BackendSound(b)
  BY DEF IInv, ClientSound
<1>6. BackendSound(b)'
  BY <1>1, <1>3, <1>4, <1>5 DEF BackendSound
<1> QED
  BY <1>1, <1>3, <1>6, BackendAlone

LEMMA Exits ==
    ASSUME RuntimeConstants, IInv, NEW b \in Backends, BackendExit(b)
    PROVE  IInv'
<1> DEFINE c == [IdleClient EXCEPT !.pc = "exited"]
<1>s. Shapes
  BY DEF IInv
<1>1. /\ client[b].pc = "wait" /\ client' = [client EXCEPT ![b] = c]
      /\ UNCHANGED <<queue, resp, worker, proc, lastId, starts, orphan, census>>
  BY DEF BackendExit, shared
<1>2. IdleClient \in Client
  BY FreeIsResponse
<1>3. c \in Client /\ c.pc = "exited"
  BY <1>2 DEF Client, IdleClient
<1> HIDE DEF c
<1>4. client'[b] = c
  BY <1>1, <1>s DEF Shapes
<1>5. BackendSound(b)'
  BY <1>3, <1>4 DEF BackendSound
<1> QED
  BY <1>1, <1>3, <1>5, BackendAlone

\* A slot is freed that neither the queue nor a worker knows of any more.
LEMMA Freed ==
    ASSUME RuntimeConstants, IInv, NEW s \in Slots, resp[s].id # 0,
           ~With(resp[s].id),
           resp' = [resp EXCEPT ![s] = FreeResponse],
           UNCHANGED <<worker, lastId, starts>>,
           \A j \in Nat : j # resp[s].id => (Queued(j)' <=> Queued(j))
    PROVE  /\ resp' \in [Slots -> Response] /\ resp'[s] = FreeResponse
           /\ \A t \in Slots : t # s => resp'[t] = resp[t]
           /\ RespSound' /\ WorkerSound'
           /\ \A v \in Workers : worker[v].id # 0 =>
                resp'[worker[v].slot] = resp[worker[v].slot]
           /\ DocumentSlots' \subseteq DocumentSlots
<1>s. Shapes
  BY DEF IInv
<1>f. /\ FreeResponse \in Response /\ FreeResponse.id = 0
      /\ \A t \in Slots : resp[t].id \in Nat
      /\ lastId \in Nat
  BY <1>s, Fields, FreeIsResponse
<1>1. /\ resp' \in [Slots -> Response]
      /\ resp'[s] = FreeResponse
      /\ \A t \in Slots : t # s => resp'[t] = resp[t]
      /\ DocumentSlots' \ {s} = DocumentSlots \ {s}
      /\ s \in DocumentSlots' <=> FreeResponse.id # 0 /\ FreeResponse.kind = "document"
  BY <1>s, <1>f, OneSlot
<1>2. \A v \in Workers : worker[v].id # 0 =>
        /\ worker[v].slot \in Slots /\ worker[v].slot # s
        /\ resp'[worker[v].slot] = resp[worker[v].slot]
  <2>1. \A v \in Workers : worker[v].id # 0 =>
          worker[v].slot \in Slots /\ resp[worker[v].slot].id = worker[v].id
    BY DEF IInv, WorkerSound
  <2> QED
    BY <2>1, <1>1 DEF With
<1>3. RespSound'
  <2>1. ASSUME NEW t \in Slots, NEW j, j = resp'[t].id, j # 0
        PROVE  /\ resp'[t].ready => /\ resp'[t].owner # None /\ ~With(j)'
                                    /\ ~resp'[t].error => resp'[t].data = j
               /\ ~resp'[t].ready => Queued(j)' \/ With(j)'
               /\ resp'[t].owner = None \/ resp'[t].writing => With(j)'
    <3>1. t # s /\ resp'[t] = resp[t] /\ j \in Nat
      BY <2>1, <1>1, <1>f
    <3>2. j # resp[s].id
      BY <2>1, <3>1 DEF IInv, RespSound
    <3>3. (With(j)' <=> With(j)) /\ (Queued(j)' <=> Queued(j))
      BY <3>1, <3>2 DEF With
    <3>4. /\ resp[t].ready => /\ resp[t].owner # None /\ ~With(j)
                              /\ ~resp[t].error => resp[t].data = j
          /\ ~resp[t].ready => Queued(j) \/ With(j)
          /\ resp[t].owner = None \/ resp[t].writing => With(j)
      BY <2>1, <3>1 DEF IInv, RespSound
    <3> QED
      BY <3>1, <3>3, <3>4
  <2>2. \A t \in Slots : resp'[t].id # 0 => t # s /\ resp'[t] = resp[t]
    BY <1>1, <1>f
  <2>3. \A t, u \in Slots : resp'[t].id # 0 /\ resp'[t].id = resp'[u].id => t = u
    BY <2>2 DEF IInv, RespSound
  <2>4. \A t \in Slots : resp'[t].id <= lastId
    <3> TAKE t \in Slots
    <3>1. CASE resp'[t].id # 0
      BY <3>1, <2>2 DEF IInv, RespSound
    <3>2. CASE resp'[t].id = 0
      BY <3>2, <1>f
    <3> QED
      BY <3>1, <3>2
  <2> QED
    BY <2>1, <2>3, <2>4 DEF RespSound
<1>4. WorkerSound'
  BY <1>2 DEF IInv, WorkerSound
<1>5. DocumentSlots' \subseteq DocumentSlots
  BY <1>1, <1>f
<1> QED
  BY <1>1, <1>2, <1>3, <1>4, <1>5

LEMMA TakesAnswer ==
    ASSUME RuntimeConstants, IInv, NEW b \in Backends, TakeAnswer(b)
    PROVE  IInv'
<1>s. Shapes
  BY DEF IInv
<1>d. PICK s, i : s = client[b].slot /\ i = client[b].id
  OBVIOUS
<1>1. /\ client[b].pc = "copy" /\ s \in Slots /\ i # 0
      /\ resp[s].id = i /\ resp[s].owner = b /\ resp[s].ready
  BY <1>d DEF TakeAnswer, IInv, ClientSound, BackendSound
<1> DEFINE g == IF resp[s].error THEN -1 ELSE resp[s].data
           c == [client[b] EXCEPT !.pc = "answered", !.got = g]
<1>2. /\ resp' = [resp EXCEPT ![s] = FreeResponse]
      /\ client' = [client EXCEPT ![b] = c]
      /\ UNCHANGED <<queue, worker, proc, lastId, starts, orphan, census>>
  BY <1>1, <1>d DEF TakeAnswer, Delivered, ClearResponse
<1>w. ~With(resp[s].id) /\ ~Queued(resp[s].id)
  BY <1>1, Places
<1>u. \A j \in Nat : Queued(j)' <=> Queued(j)
  BY <1>2 DEF Queued
<1>3. /\ resp' \in [Slots -> Response] /\ resp'[s] = FreeResponse
      /\ \A t \in Slots : t # s => resp'[t] = resp[t]
      /\ RespSound' /\ WorkerSound'
      /\ \A v \in Workers : worker[v].id # 0 =>
           resp'[worker[v].slot] = resp[worker[v].slot]
      /\ DocumentSlots' \subseteq DocumentSlots
  BY <1>1, <1>2, <1>w, <1>u, Freed
<1>g. g \in {-1, i}
  BY <1>1 DEF IInv, RespSound
<1>c. /\ c \in Client /\ c.pc = "answered" /\ c.id = i /\ c.got = g
  <2>1. client[b] \in Client
    BY <1>s, Fields
  <2>2. g \in Ids \cup {-1}
    BY <2>1, <1>g, <1>d DEF Client
  <2> QED
    BY <2>1, <2>2, <1>d DEF Client
<1> HIDE DEF c, g
<1>4. /\ client' \in [Backends -> Client] /\ client'[b] = c
      /\ \A d \in Backends : d # b => client'[d] = client[d]
  BY <1>2, <1>c, <1>s, OneChange DEF Shapes
<1>5. Shapes'
  BY <1>2, <1>3, <1>4, <1>s DEF Shapes
<1>6. QueueSound'
  <2>1. \A r \in queue : ~r.canceled => r.slot # s
    <3> SUFFICES ASSUME NEW r \in queue, ~r.canceled, r.slot = s
                 PROVE  FALSE
      OBVIOUS
    <3>1. ~resp[s].ready
      BY Places
    <3> QED
      BY <3>1, <1>1
  <2>2. \A r \in queue : r.slot \in Slots /\ r.id # 0
    BY <1>s, Fields
  <2>3. \A r \in queue : ~With(r.id)'
    BY <1>2 DEF IInv, QueueSound, With
  <2>4. \A t \in Slots : resp'[t].id \in {0, resp[t].id}
    BY <1>3, FreeIsResponse
  <2>5. /\ \A r \in queue : ~r.canceled => resp'[r.slot].id = r.id /\ ~resp'[r.slot].ready
        /\ \A r \in queue : r.canceled => \A t \in Slots : resp'[t].id # r.id
    BY <2>1, <2>2, <2>4, <1>3 DEF IInv, QueueSound
  <2> QED
    BY <2>3, <2>5, <1>2 DEF IInv, QueueSound
<1>7. ProcSound'
  <2>1. /\ starts \in Nat /\ starts' = starts /\ starts <= starts'
    BY <1>s, <1>2 DEF Shapes
  <2>2. ASSUME NEW v \in Workers PROVE ProcessSound(v)'
    <3>1. ProcessSound(v)
      BY DEF IInv, ProcSound
    <3>2. worker[v].id # 0 => resp'[worker[v].slot] = resp[worker[v].slot]
      BY <1>3
    <3> QED
      BY <3>1, <3>2, <1>2 DEF ProcessSound, Busy
  <2> QED
    BY <2>2 DEF ProcSound
<1>8. ClientSound'
  <2>1. BackendSound(b)'
    BY <1>4, <1>c, <1>g DEF BackendSound
  <2>2. ASSUME NEW d \in Backends, d # b
        PROVE  BackendSound(d)'
    <3>1. client'[d] = client[d] /\ BackendSound(d)
      BY <2>2, <1>4 DEF IInv, ClientSound
    <3>2. client[d].pc \in {"wait", "copy"} =>
            client[d].slot \in Slots /\ resp'[client[d].slot] = resp[client[d].slot]
      BY <2>2, <3>1, <1>1, <1>3 DEF BackendSound
    <3> QED
      BY <3>1, <3>2 DEF BackendSound
  <2> QED
    BY <2>1, <2>2 DEF ClientSound
<1>9. SweepsSound'
  <2>1. /\ \A d \in Backends : client[d].pc = "exited" => client'[d].pc = "exited"
        /\ starts \in Nat /\ starts' = starts /\ starts <= starts'
    BY <1>1, <1>2, <1>4, <1>s DEF Shapes
  <2> QED
    BY <2>1, <1>2, SweepsKeep
<1>10. PoolSound'
  <2>1. Ready' = Ready /\ Up' = Up /\ DocumentWorkers' = DocumentWorkers
    BY <1>2 DEF Ready, Up, DocumentWorkers
  <2> QED
    BY <2>1, <1>2, <1>3, PoolKeeps
<1> QED
  BY <1>3, <1>5, <1>6, <1>7, <1>8, <1>9, <1>10 DEF IInv

LEMMA Enqueues ==
    ASSUME RuntimeConstants, IInv, NEW b \in Backends, Enqueue(b)
    PROVE  IInv'
<1>s. Shapes
  BY DEF IInv
<1>d. PICK i, s : i = lastId + 1 /\ s = Min(FreeSlots)
  OBVIOUS
<1>e. PICK q, x, c :
        /\ q = [id |-> i, slot |-> s, kind |-> client[b].kind,
                model |-> client[b].model, caller |-> b, canceled |-> FALSE]
        /\ x = [FreeResponse EXCEPT !.id = i, !.owner = b, !.kind = client[b].kind]
        /\ c = [client[b] EXCEPT !.pc = "wait", !.id = i, !.slot = s]
  OBVIOUS
<1>1. /\ client[b].pc = "admit" /\ lastId < MaxRequests
      /\ ~QueueFull(client[b].kind)
      /\ lastId' = i
      /\ resp' = [resp EXCEPT ![s] = x]
      /\ queue' = queue \cup {q}
      /\ client' = [client EXCEPT ![b] = c]
      /\ UNCHANGED <<worker, proc, starts, orphan, census>>
  BY <1>d, <1>e DEF Enqueue
<1>2. s \in Slots /\ resp[s].id = 0
  BY <1>1, <1>d, FreeSlot DEF QueueFull
<1>f. /\ lastId \in Nat /\ MaxRequests \in Nat
      /\ \A t \in Slots : resp[t].id \in Nat
      /\ \A r \in queue : r.id \in Nat \ {0} /\ r.slot \in Slots
      /\ client[b] \in Client
      /\ FreeResponse \in Response
  BY <1>s, Fields, FreeIsResponse DEF RuntimeConstants
<1>i. i \in Ids \ {0} /\ i \in Nat /\ lastId < i
  BY <1>1, <1>d, <1>f DEF Ids
<1>b. BackendSound(b)
  BY DEF IInv, ClientSound
<1>q. /\ q \in Request /\ q.id = i /\ q.slot = s /\ ~q.canceled
      /\ q.kind = client[b].kind
  BY <1>e, <1>1, <1>2, <1>f, <1>i, <1>b DEF Request, Client, BackendSound
<1>x. /\ x \in Response /\ x.id = i /\ x.owner = b /\ x.kind = client[b].kind
      /\ ~x.ready /\ ~x.writing
  BY <1>e, <1>f, <1>i DEF Response, FreeResponse, Client
<1>c. c \in Client /\ c.pc = "wait" /\ c.id = i /\ c.slot = s
  BY <1>e, <1>f, <1>i, <1>2 DEF Client
<1>k. client[b].kind = "document" =>
        DocumentResponses < ResponseCapacity - ReservedQueryResponses
      \/ ~(DocumentResponses >= ResponseCapacity - ReservedQueryResponses)
  BY <1>1 DEF QueueFull
<1>m. ~(Cardinality(queue) >= ResponseCapacity)
  BY <1>1 DEF QueueFull
<1>3. /\ resp' \in [Slots -> Response]
      /\ resp'[s] = x
      /\ \A t \in Slots : t # s => resp'[t] = resp[t]
      /\ DocumentSlots' \ {s} = DocumentSlots \ {s}
      /\ s \in DocumentSlots' <=> x.id # 0 /\ x.kind = "document"
  BY <1>1, <1>2, <1>x, <1>s, OneSlot
<1>4. /\ client' \in [Backends -> Client] /\ client'[b] = c
      /\ \A d \in Backends : d # b => client'[d] = client[d]
  BY <1>1, <1>c, <1>s, OneChange DEF Shapes
<1>5. Shapes'
  <2>1. lastId' \in Ids /\ queue' \subseteq Request
    BY <1>1, <1>i, <1>q, <1>s DEF Shapes
  <2> QED
    BY <2>1, <1>1, <1>3, <1>4, <1>s DEF Shapes
<1>w. /\ \A j : With(j)' <=> With(j)
      /\ \A j : j # i => (Queued(j)' <=> Queued(j))
      /\ Queued(i)' /\ ~With(i)
  <2>1. \A j : With(j)' <=> With(j)
    BY <1>1 DEF With
  <2>2. \A j : j # i => (Queued(j)' <=> Queued(j))
    BY <1>1, <1>q DEF Queued
  <2>3. Queued(i)'
    BY <1>1, <1>q DEF Queued
  <2>4. \A v \in Workers : worker[v].id <= lastId /\ worker[v].id \in Nat
    BY <1>s, Places, Fields
  <2>5. ~With(i)
    BY <2>4, <1>i, <1>f DEF With
  <2> QED
    BY <2>1, <2>2, <2>3, <2>5
<1>6. QueueSound'
  <2>1. IsFiniteSet(queue') /\ Cardinality(queue') <= ResponseCapacity
    <3>1. IsFiniteSet(queue)
      BY DEF IInv, QueueSound
    <3>2. /\ IsFiniteSet(queue')
          /\ Cardinality(queue') = IF q \in queue THEN Cardinality(queue)
                                   ELSE Cardinality(queue) + 1
      BY <3>1, <1>1, FS_AddElement
    <3>3. Cardinality(queue) \in Nat /\ ResponseCapacity \in Nat
      BY <3>1, FS_CardinalityType DEF RuntimeConstants
    <3> QED
      BY <3>2, <3>3, <1>m
  <2>2. \A r \in queue : r.id <= lastId /\ r.id # i /\ ~With(r.id)
    <3>1. \A r \in queue : r.id <= lastId /\ ~With(r.id)
      BY DEF IInv, QueueSound
    <3> QED
      BY <3>1, <1>i, <1>f
  <2>3. \A r, t \in queue' : r.id = t.id => r = t
    <3>1. \A r, t \in queue : r.id = t.id => r = t
      BY DEF IInv, QueueSound
    <3> QED
      BY <2>2, <3>1, <1>1, <1>q
  <2>4. ASSUME NEW r \in queue
        PROVE  /\ r.id <= lastId' /\ ~With(r.id)'
               /\ ~r.canceled => resp'[r.slot].id = r.id /\ ~resp'[r.slot].ready
               /\ r.canceled => \A t \in Slots : resp'[t].id # r.id
    <3>1. r.id <= lastId' /\ ~With(r.id)'
      BY <2>2, <1>1, <1>w, <1>i, <1>f
    <3>2. ~r.canceled => resp[r.slot].id = r.id /\ ~resp[r.slot].ready
      BY DEF IInv, QueueSound
    <3>3. ~r.canceled => r.slot # s
      BY <3>2, <1>2, <1>f
    <3>4. ~r.canceled => resp'[r.slot].id = r.id /\ ~resp'[r.slot].ready
      BY <3>2, <3>3, <1>3, <1>f
    <3>5. r.canceled => \A t \in Slots : resp[t].id # r.id
      BY DEF IInv, QueueSound
    <3>6. r.canceled => \A t \in Slots : resp'[t].id # r.id
      BY <3>5, <2>2, <1>3, <1>x
    <3> QED
      BY <3>1, <3>4, <3>6
  <2>5. /\ q.id <= lastId' /\ ~With(q.id)'
        /\ ~q.canceled
        /\ resp'[q.slot].id = q.id /\ ~resp'[q.slot].ready
    BY <1>q, <1>w, <1>1, <1>i, <1>3, <1>x
  <2> QED
    BY <2>1, <2>3, <2>4, <2>5, <1>1 DEF QueueSound
<1>7. RespSound'
  <2>1. \A t \in Slots : resp[t].id <= lastId /\ resp[t].id # i
    BY <1>i, <1>f DEF IInv, RespSound
  <2>2. \A t, u \in Slots : resp'[t].id # 0 /\ resp'[t].id = resp'[u].id => t = u
    BY <2>1, <1>3, <1>x DEF IInv, RespSound
  <2>3. \A t \in Slots : resp'[t].id <= lastId'
    BY <2>1, <1>1, <1>3, <1>x, <1>i, <1>f
  <2>4. ASSUME NEW t \in Slots, NEW j, j = resp'[t].id, j # 0
        PROVE  /\ resp'[t].ready => /\ resp'[t].owner # None /\ ~With(j)'
                                    /\ ~resp'[t].error => resp'[t].data = j
               /\ ~resp'[t].ready => Queued(j)' \/ With(j)'
               /\ resp'[t].owner = None \/ resp'[t].writing => With(j)'
    <3>1. CASE t = s
      <4>1. resp'[t] = x /\ j = i
        BY <3>1, <2>4, <1>3, <1>x
      <4>2. b # None
        BY DEF RuntimeConstants
      <4>3. Queued(j)'
        BY <4>1, <1>w
      <4> QED
        BY <4>1, <4>2, <4>3, <1>x
    <3>2. CASE t # s
      <4>1. resp'[t] = resp[t] /\ j # i
        BY <3>2, <2>1, <2>4, <1>3
      <4>2. (With(j)' <=> With(j)) /\ (Queued(j)' <=> Queued(j))
        BY <4>1, <1>w
      <4>3. /\ resp[t].ready => /\ resp[t].owner # None /\ ~With(j)
                                /\ ~resp[t].error => resp[t].data = j
            /\ ~resp[t].ready => Queued(j) \/ With(j)
            /\ resp[t].owner = None \/ resp[t].writing => With(j)
        BY <2>4, <4>1 DEF IInv, RespSound
      <4> QED
        BY <4>1, <4>2, <4>3
    <3> QED
      BY <3>1, <3>2
  <2> QED
    BY <2>2, <2>3, <2>4 DEF RespSound
<1>v. \A v \in Workers : worker[v].id # 0 =>
        worker[v].slot \in Slots /\ resp'[worker[v].slot] = resp[worker[v].slot]
  BY <1>2, <1>3 DEF IInv, WorkerSound
<1>8. WorkerSound'
  BY <1>v, <1>1 DEF IInv, WorkerSound
<1>9. ProcSound'
  <2>2. ASSUME NEW v \in Workers PROVE ProcessSound(v)'
    <3>1. ProcessSound(v)
      BY DEF IInv, ProcSound
    <3>2. worker[v].id # 0 => resp'[worker[v].slot] = resp[worker[v].slot]
      BY <1>v
    <3> QED
      BY <3>1, <3>2, <1>1 DEF ProcessSound, Busy
  <2> QED
    BY <2>2 DEF ProcSound
<1>10. ClientSound'
  <2>1. BackendSound(b)'
    BY <1>4, <1>c, <1>3, <1>x, <1>2, <1>i DEF BackendSound
  <2>2. ASSUME NEW d \in Backends, d # b
        PROVE  BackendSound(d)'
    <3>1. client'[d] = client[d] /\ BackendSound(d)
      BY <2>2, <1>4 DEF IInv, ClientSound
    <3>2. client[d].pc \in {"wait", "copy"} =>
            client[d].slot \in Slots /\ resp'[client[d].slot] = resp[client[d].slot]
      BY <3>1, <1>2, <1>3 DEF BackendSound
    <3> QED
      BY <3>1, <3>2 DEF BackendSound
  <2> QED
    BY <2>1, <2>2 DEF ClientSound
<1>11. SweepsSound'
  <2>1. /\ \A d \in Backends : client[d].pc = "exited" => client'[d].pc = "exited"
        /\ starts \in Nat /\ starts' = starts /\ starts <= starts'
    BY <1>1, <1>4, <1>s DEF Shapes
  <2> QED
    BY <2>1, <1>1, SweepsKeep
<1>12. PoolSound'
  <2>1. Ready' = Ready /\ Up' = Up /\ DocumentWorkers' = DocumentWorkers
    BY <1>1 DEF Ready, Up, DocumentWorkers
  <2>2. CASE client[b].kind # "document"
    <3>1. DocumentSlots' \subseteq DocumentSlots
      BY <2>2, <1>3, <1>x
    <3> QED
      BY <3>1, <2>1, <1>1, PoolKeeps
  <2>3. CASE client[b].kind = "document"
    <3>1. DocumentSlots \in SUBSET Slots
      BY DEF DocumentSlots
    <3>2. IsFiniteSet(DocumentSlots)
      BY <3>1, FiniteGroups
    <3>3. /\ Cardinality(DocumentSlots) \in Nat
          /\ Cardinality(DocumentSlots') \in Nat
          /\ Cardinality(DocumentSlots') <= Cardinality(DocumentSlots) + 1
      BY <3>2, <1>3, OneElement
    <3>4. DocumentResponses = Cardinality(DocumentSlots)
      BY DEF DocumentResponses, DocumentSlots
    <3>5. ReserveQueryLane /\ ResponseCapacity > 1 =>
            Cardinality(DocumentSlots') < ResponseCapacity
      <4> SUFFICES ASSUME ReserveQueryLane, ResponseCapacity > 1
                   PROVE  Cardinality(DocumentSlots') < ResponseCapacity
        OBVIOUS
      <4>1. ReservedQueryResponses \in Nat /\ ReservedQueryResponses >= 1
        BY QueriesKeepASlot
      <4>2. ResponseCapacity \in Nat
        BY DEF RuntimeConstants
      <4> QED
        BY <4>1, <4>2, <3>3, <3>4, <2>3, <1>k
    <3> QED
      BY <3>5, <2>1, <1>1 DEF IInv, PoolSound
  <2> QED
    BY <2>2, <2>3
<1> QED
  BY <1>5, <1>6, <1>7, <1>8, <1>9, <1>10, <1>11, <1>12 DEF IInv

(***************************************************************************)
(* Cancellation and housekeeping                                           *)
(***************************************************************************)
\* What a housekeeping process has read.
LEMMA OrphanSeen ==
    ASSUME RuntimeConstants, IInv, NEW p \in Sweepers, NEW s \in Slots,
           LookForOrphan(p, s)
    PROVE  IInv'
<1>s. Shapes
  BY DEF IInv
<1> DEFINE o == [slot |-> s, id |-> resp[s].id, owner |-> resp[s].owner]
<1>1. /\ resp[s].id # 0 /\ resp[s].owner # None
      /\ client[resp[s].owner].pc = "exited"
      /\ orphan' = [orphan EXCEPT ![p] = o]
      /\ UNCHANGED <<queue, resp, worker, lastId, proc, client, starts, census>>
  BY DEF LookForOrphan, Alive, shared
<1>2. resp[s].owner \in Backends /\ resp[s].id \in Ids
  BY <1>1, <1>s, Fields DEF Response
<1>o. o \in [slot : Slots \cup {0}, id : Ids, owner : Backends \cup {None}]
  BY <1>2
<1>3. /\ orphan' \in [Sweepers -> [slot : Slots \cup {0}, id : Ids,
                                  owner : Backends \cup {None}]]
      /\ orphan'[p] = o
      /\ \A t \in Sweepers : t # p => orphan'[t] = orphan[t]
  BY <1>1, <1>o, <1>s DEF Shapes
<1>4. Shapes'
  BY <1>1, <1>3, <1>s DEF Shapes
<1>5. SweepsSound'
  <2>1. \A t \in Sweepers : orphan'[t] # NothingRead =>
         /\ orphan'[t].slot \in Slots /\ orphan'[t].id # 0
         /\ orphan'[t].owner \in Backends
         /\ client[orphan'[t].owner].pc = "exited"
    BY <1>1, <1>2, <1>3 DEF IInv, SweepsSound
  <2> QED
    BY <2>1, <1>1 DEF IInv, SweepsSound
<1>6. /\ QueueSound' /\ RespSound' /\ WorkerSound' /\ ProcSound' /\ ClientSound'
      /\ PoolSound'
  BY <1>1 DEF IInv, QueueSound, Queued, With, RespSound, WorkerSound, ProcSound,
     ProcessSound, ClientSound, BackendSound, PoolSound, Up, Ready,
     DocumentWorkers, DocumentSlots
<1> QED
  BY <1>4, <1>5, <1>6 DEF IInv

LEMMA DeadWorkerSeen ==
    ASSUME RuntimeConstants, IInv, NEW w \in Workers, LookForDeadWorker(w)
    PROVE  IInv'
<1>s. Shapes
  BY DEF IInv
<1> DEFINE c == [w |-> w, pid |-> worker[w].pid]
<1>1. /\ worker[w].ready /\ worker[w].pid # proc[w].pid
      /\ census' = c
      /\ UNCHANGED <<queue, resp, worker, lastId, proc, client, starts, orphan>>
  BY DEF LookForDeadWorker, shared
<1>2. /\ worker[w].pid \in Pids /\ worker[w].pid \in Nat /\ starts \in Nat
      /\ worker[w].pid <= starts /\ worker[w].pid # 0
  BY <1>1, <1>s, Fields DEF Entry, IInv, WorkerSound
<1>3. Shapes'
  BY <1>1, <1>2, <1>s DEF Shapes
<1>4. SweepsSound'
  BY <1>1, <1>2 DEF IInv, SweepsSound
<1>5. /\ QueueSound' /\ RespSound' /\ WorkerSound' /\ ProcSound' /\ ClientSound'
      /\ PoolSound'
  BY <1>1 DEF IInv, QueueSound, Queued, With, RespSound, WorkerSound, ProcSound,
     ProcessSound, ClientSound, BackendSound, PoolSound, Up, Ready,
     DocumentWorkers, DocumentSlots
<1> QED
  BY <1>3, <1>4, <1>5 DEF IInv

\* A request of the queue is flagged, and the queue stays what it is.
LEMMA Canceling ==
    ASSUME RuntimeConstants, IInv, NEW i, queue' = CanceledQueue(i)
    PROVE  /\ queue' \subseteq Request
           /\ IsFiniteSet(queue') /\ Cardinality(queue') <= ResponseCapacity
           /\ \A x \in queue' : \E r \in queue :
                /\ x.id = r.id /\ x.slot = r.slot
                /\ r.id = i => x.canceled
                /\ r.id # i => x = r
           /\ \A x, y \in queue' : x.id = y.id => x = y
           /\ \A j : j # i => (Queued(j)' <=> Queued(j))
<1> DEFINE C(r) == IF r.id = i THEN [r EXCEPT !.canceled = TRUE] ELSE r
           f == [r \in queue |-> C(r)]
<1>s. Shapes
  BY DEF IInv
<1>1. queue' = {C(r) : r \in queue}
  BY DEF CanceledQueue
<1>2. queue \subseteq Request
  BY <1>s DEF Shapes
<1>3. ASSUME NEW r \in queue
      PROVE  /\ C(r) \in Request /\ C(r).id = r.id /\ C(r).slot = r.slot
             /\ r.id = i => C(r).canceled
             /\ r.id # i => C(r) = r
  BY <1>2 DEF Request
<1>4. f \in Surjection(queue, queue')
  BY <1>1 DEF Surjection
<1>5. IsFiniteSet(queue) /\ Cardinality(queue) <= ResponseCapacity
  BY DEF IInv, QueueSound
<1>6. IsFiniteSet(queue') /\ Cardinality(queue') <= Cardinality(queue)
  <2> HIDE DEF f
  <2> QED
    BY <1>4, <1>5, FS_Surjection
<1>7. Cardinality(queue') <= ResponseCapacity
  BY <1>5, <1>6, FS_CardinalityType DEF RuntimeConstants
<1>8. \A q, r \in queue : q.id = r.id => q = r
  BY DEF IInv, QueueSound
<1> HIDE DEF C, f
<1>9. \A x \in queue' : \E r \in queue : x = C(r)
  BY <1>1
<1>10. \A x, y \in queue' : x.id = y.id => x = y
  BY <1>3, <1>8, <1>9
<1>11. ASSUME NEW j, j # i
       PROVE  Queued(j)' <=> Queued(j)
  <2>1. ASSUME Queued(j) PROVE Queued(j)'
    <3>1. PICK r \in queue : r.id = j /\ ~r.canceled
      BY <2>1 DEF Queued
    <3>2. r \in queue'
      BY <3>1, <1>1, <1>3, <1>11
    <3> QED
      BY <3>1, <3>2 DEF Queued
  <2>2. ASSUME Queued(j)' PROVE Queued(j)
    <3>1. PICK x \in queue' : x.id = j /\ ~x.canceled
      BY <2>2 DEF Queued
    <3>2. x \in queue
      BY <3>1, <1>3, <1>9, <1>11
    <3> QED
      BY <3>1, <3>2 DEF Queued
  <2> QED
    BY <2>1, <2>2
<1> QED
  BY <1>1, <1>3, <1>6, <1>7, <1>9, <1>10, <1>11

\* Backends that stay as they are or go idle, none at the slot s.
OthersWait(s) ==
    /\ client' \in [Backends -> Client]
    /\ \A b \in Backends :
         \/ client'[b] = client[b]
         \/ client'[b] = IdleClient /\ client[b].pc # "exited"
    /\ \A b \in Backends : client'[b].pc \in {"wait", "copy"} =>
         client'[b].slot # s

LEMMA OthersServed ==
    ASSUME RuntimeConstants, IInv, NEW s \in Slots, OthersWait(s),
           \A t \in Slots : t # s => resp'[t] = resp[t]
    PROVE  ClientSound'
<1> SUFFICES ASSUME NEW b \in Backends
             PROVE  BackendSound(b)'
  BY DEF ClientSound
<1>1. BackendSound(b)
  BY DEF IInv, ClientSound
<1>2. CASE client'[b] = IdleClient
  BY <1>2, FreeIsResponse DEF BackendSound
<1>3. CASE client'[b] = client[b]
  <2>1. client[b].pc \in {"wait", "copy"} =>
          /\ client[b].slot \in Slots
          /\ resp'[client[b].slot] = resp[client[b].slot]
    BY <1>1, <1>3 DEF OthersWait, BackendSound
  <2> QED
    BY <1>1, <1>3, <2>1 DEF BackendSound
<1> QED
  BY <1>2, <1>3 DEF OthersWait

\* A request that is queued or answered is canceled: its slot is free at once.
LEMMA SlotCanceled ==
    ASSUME RuntimeConstants, IInv, NEW s \in Slots, NEW i,
           i = resp[s].id, i # 0, ~With(i),
           queue' = CanceledQueue(i),
           resp' = [resp EXCEPT ![s] = FreeResponse],
           UNCHANGED <<worker, proc, lastId, starts>>,
           OthersWait(s)
    PROVE  /\ queue' \subseteq Request /\ resp' \in [Slots -> Response]
           /\ QueueSound' /\ RespSound' /\ WorkerSound' /\ ProcSound'
           /\ ClientSound' /\ PoolSound'
<1>s. Shapes
  BY DEF IInv
<1>f. /\ \A r \in queue : r.id \in Nat \ {0} /\ r.slot \in Slots
      /\ \A t \in Slots : resp[t].id \in Nat
  BY <1>s, Fields
<1>1. /\ queue' \subseteq Request
      /\ IsFiniteSet(queue') /\ Cardinality(queue') <= ResponseCapacity
      /\ \A x \in queue' : \E r \in queue :
           /\ x.id = r.id /\ x.slot = r.slot
           /\ r.id = i => x.canceled
           /\ r.id # i => x = r
      /\ \A x, y \in queue' : x.id = y.id => x = y
      /\ \A j : j # i => (Queued(j)' <=> Queued(j))
  BY Canceling
<1>2. /\ resp' \in [Slots -> Response] /\ resp'[s] = FreeResponse
      /\ \A t \in Slots : t # s => resp'[t] = resp[t]
      /\ RespSound' /\ WorkerSound'
      /\ \A v \in Workers : worker[v].id # 0 =>
           resp'[worker[v].slot] = resp[worker[v].slot]
      /\ DocumentSlots' \subseteq DocumentSlots
  BY <1>1, Freed
<1>3. \A t \in Slots : resp'[t].id # 0 =>
        resp'[t] = resp[t] /\ resp[t].id # i
  BY <1>2, FreeIsResponse DEF IInv, RespSound
<1>4. QueueSound'
  <2>1. ASSUME NEW x \in queue'
        PROVE  /\ x.id <= lastId'
               /\ ~With(x.id)'
               /\ ~x.canceled => resp'[x.slot].id = x.id /\ ~resp'[x.slot].ready
               /\ x.canceled => \A t \in Slots : resp'[t].id # x.id
    <3>1. PICK r \in queue : /\ x.id = r.id /\ x.slot = r.slot
                             /\ r.id = i => x.canceled
                             /\ r.id # i => x = r
      BY <1>1
    <3>2. /\ r.id <= lastId
          /\ ~With(r.id)
          /\ ~r.canceled => resp[r.slot].id = r.id /\ ~resp[r.slot].ready
          /\ r.canceled => \A t \in Slots : resp[t].id # r.id
      BY DEF IInv, QueueSound
    <3>3. x.id <= lastId' /\ ~With(x.id)'
      BY <3>1, <3>2 DEF With
    <3>4. CASE r.id = i
      BY <3>1, <3>3, <3>4, <1>3, <1>f
    <3>5. CASE r.id # i
      <4>1. x = r
        BY <3>1, <3>5
      <4>2. ~r.canceled => r.slot # s
        BY <3>2, <3>5
      <4> QED
        BY <4>1, <4>2, <3>2, <3>3, <1>2, <1>3, <1>f
    <3> QED
      BY <3>4, <3>5
  <2> QED
    BY <2>1, <1>1 DEF QueueSound
<1>5. ProcSound'
  <2>2. ASSUME NEW v \in Workers PROVE ProcessSound(v)'
    <3>1. ProcessSound(v)
      BY DEF IInv, ProcSound
    <3>2. worker[v].id # 0 => resp'[worker[v].slot] = resp[worker[v].slot]
      BY <1>2
    <3> QED
      BY <3>1, <3>2 DEF ProcessSound, Busy
  <2> QED
    BY <2>2 DEF ProcSound
<1>6. ClientSound'
  BY <1>2, OthersServed
<1>7. PoolSound'
  <2>1. Ready' = Ready /\ Up' = Up /\ DocumentWorkers' = DocumentWorkers
    BY DEF Ready, Up, DocumentWorkers
  <2> QED
    BY <2>1, <1>2, PoolKeeps
<1> QED
  BY <1>1, <1>2, <1>4, <1>5, <1>6, <1>7

\* A request a worker still runs loses its owner only.
LEMMA OwnerGone ==
    ASSUME RuntimeConstants, IInv, NEW s \in Slots, NEW v \in Workers,
           NEW e \in Entry,
           worker[v].id # 0, worker[v].id = resp[s].id,
           e.pid = worker[v].pid, e.ready = worker[v].ready,
           e.id = worker[v].id, e.slot = worker[v].slot, e.doc = worker[v].doc,
           worker' = [worker EXCEPT ![v] = e],
           resp' = [resp EXCEPT ![s] = [@ EXCEPT !.owner = None]],
           UNCHANGED <<queue, proc, lastId, starts>>,
           OthersWait(s)
    PROVE  /\ resp' \in [Slots -> Response] /\ worker' \in [Workers -> Entry]
           /\ QueueSound' /\ RespSound' /\ WorkerSound' /\ ProcSound'
           /\ ClientSound' /\ PoolSound'
<1>s. Shapes
  BY DEF IInv
<1>d. PICK x : x = [resp[s] EXCEPT !.owner = None]
  OBVIOUS
<1>f. resp[s] \in Response /\ resp[s].ready \in BOOLEAN
  BY <1>s, Fields
<1>x. /\ x \in Response /\ x.id = resp[s].id /\ x.owner = None
      /\ x.kind = resp[s].kind /\ x.ready = resp[s].ready
      /\ x.error = resp[s].error /\ x.data = resp[s].data
  BY <1>d, <1>f DEF Response
<1>i. s = worker[v].slot /\ ~resp[s].ready
  <2>1. s = worker[v].slot
    BY Places
  <2> QED
    BY <2>1 DEF IInv, WorkerSound
<1>1. /\ resp' \in [Slots -> Response]
      /\ resp'[s] = x
      /\ \A t \in Slots : t # s => resp'[t] = resp[t]
      /\ DocumentSlots' \ {s} = DocumentSlots \ {s}
      /\ s \in DocumentSlots' <=> x.id # 0 /\ x.kind = "document"
  BY <1>d, <1>x, <1>s, OneSlot
<1>2. /\ worker' \in [Workers -> Entry] /\ worker'[v] = e
      /\ \A u \in Workers : u # v => worker'[u] = worker[u]
  BY <1>s, OneChange DEF Shapes
<1>3. \A u \in Workers : /\ worker'[u].id = worker[u].id
                         /\ worker'[u].slot = worker[u].slot
                         /\ worker'[u].pid = worker[u].pid
                         /\ worker'[u].ready = worker[u].ready
                         /\ worker'[u].doc = worker[u].doc
  BY <1>2
<1>4. \A j : (With(j)' <=> With(j)) /\ (Queued(j)' <=> Queued(j))
  BY <1>3 DEF With, Queued
<1>5. \A t \in Slots : /\ resp'[t].id = resp[t].id
                       /\ resp'[t].ready = resp[t].ready
                       /\ resp'[t].error = resp[t].error
                       /\ resp'[t].data = resp[t].data
  BY <1>1, <1>x
<1>6. QueueSound'
  <2>1. \A r \in queue : r.slot \in Slots
    BY <1>s, Fields
  <2>2. \A r \in queue : ~With(r.id)'
    BY <1>4 DEF IInv, QueueSound
  <2> QED
    BY <2>1, <2>2, <1>5 DEF IInv, QueueSound
<1>7. RespSound'
  <2>1. With(resp[s].id)
    BY DEF With
  <2>2. ASSUME NEW t \in Slots, NEW j, j = resp'[t].id, j # 0
        PROVE  /\ resp'[t].ready => /\ resp'[t].owner # None /\ ~With(j)'
                                    /\ ~resp'[t].error => resp'[t].data = j
               /\ ~resp'[t].ready => Queued(j)' \/ With(j)'
               /\ resp'[t].owner = None \/ resp'[t].writing => With(j)'
    <3>1. CASE t = s
      <4>1. With(j)'
        BY <2>1, <2>2, <3>1, <1>4, <1>5
      <4>2. ~resp'[t].ready
        BY <3>1, <1>5, <1>i
      <4> QED
        BY <4>1, <4>2
    <3>2. CASE t # s
      <4>1. resp'[t] = resp[t]
        BY <3>2, <1>1
      <4>3. /\ resp[t].ready => /\ resp[t].owner # None /\ ~With(j)
                                /\ ~resp[t].error => resp[t].data = j
            /\ ~resp[t].ready => Queued(j) \/ With(j)
            /\ resp[t].owner = None \/ resp[t].writing => With(j)
        BY <2>2, <4>1 DEF IInv, RespSound
      <4> QED
        BY <4>1, <4>3, <1>4
    <3> QED
      BY <3>1, <3>2
  <2>3. /\ \A t, u \in Slots : resp'[t].id # 0 /\ resp'[t].id = resp'[u].id => t = u
        /\ \A t \in Slots : resp'[t].id <= lastId'
    BY <1>5 DEF IInv, RespSound
  <2> QED
    BY <2>2, <2>3 DEF RespSound
<1>8. WorkerSound'
  <2>1. ASSUME NEW u \in Workers
        PROVE  /\ worker'[u].pid <= starts
               /\ worker'[u].ready => worker'[u].pid # 0
               /\ worker'[u].id # 0 =>
                    /\ worker'[u].slot \in Slots
                    /\ resp'[worker'[u].slot].id = worker'[u].id
                    /\ ~resp'[worker'[u].slot].ready
    BY <1>3, <1>5 DEF IInv, WorkerSound
  <2>2. ASSUME NEW u \in Workers, worker'[u].cancel
        PROVE  worker'[u].id # 0 /\ resp'[worker'[u].slot].owner = None
    <3>1. CASE u = v
      BY <3>1, <1>1, <1>3, <1>i, <1>x
    <3>2. CASE u # v
      <4>1. worker[u].id # 0 /\ resp[worker[u].slot].owner = None /\ worker[u].slot \in Slots
        BY <2>2, <3>2, <1>2 DEF IInv, WorkerSound
      <4> QED
        BY <4>1, <1>1, <1>3, <1>x
    <3> QED
      BY <3>1, <3>2
  <2>3. \A t, u \in Workers : worker'[t].id # 0 /\ worker'[t].id = worker'[u].id => t = u
    BY <1>3 DEF IInv, WorkerSound
  <2> QED
    BY <2>1, <2>2, <2>3 DEF WorkerSound
<1>9. ProcSound'
  <2>2. ASSUME NEW u \in Workers PROVE ProcessSound(u)'
    <3>1. ProcessSound(u)
      BY DEF IInv, ProcSound
    <3>2. worker[u].id # 0 => worker[u].slot \in Slots
      BY DEF IInv, WorkerSound
    <3>3. worker[u].id # 0 => /\ resp'[worker[u].slot].error = resp[worker[u].slot].error
                              /\ resp'[worker[u].slot].data = resp[worker[u].slot].data
      BY <3>2, <1>5
    <3> QED
      BY <3>1, <3>3, <1>3 DEF ProcessSound, Busy
  <2> QED
    BY <2>2 DEF ProcSound
<1>10. ClientSound'
  BY <1>1, OthersServed
<1>11. PoolSound'
  <2>1. Ready' = Ready /\ Up' = Up /\ DocumentWorkers' = DocumentWorkers
    BY <1>3 DEF Ready, Up, DocumentWorkers
  <2>2. DocumentSlots' \subseteq DocumentSlots
    BY <1>1, <1>x DEF DocumentSlots
  <2> QED
    BY <2>1, <2>2, PoolKeeps
<1> QED
  BY <1>1, <1>2, <1>6, <1>7, <1>8, <1>9, <1>10, <1>11

LEMMA Cancels ==
    ASSUME RuntimeConstants, IInv, NEW b \in Backends, CancelWait(b)
    PROVE  IInv'
<1>s. Shapes
  BY DEF IInv
<1>d. PICK s, i : s = client[b].slot /\ i = client[b].id
  OBVIOUS
<1>1. /\ client[b].pc = "wait"
      /\ queue' = CanceledQueue(i)
      /\ worker' = CanceledWorkers(i)
      /\ resp' = CanceledResponses(i)
      /\ client' = [client EXCEPT ![b] = IdleClient]
      /\ UNCHANGED <<proc, lastId, starts, orphan, census>>
  BY <1>d DEF CancelWait, CancelRequest
<1>2. /\ s \in Slots /\ i # 0 /\ resp[s].id = i /\ resp[s].owner = b
  BY <1>1, <1>d DEF IInv, ClientSound, BackendSound
<1>f. /\ \A t \in Slots : resp[t].id \in Nat
      /\ worker \in [Workers -> Entry] /\ resp \in [Slots -> Response]
      /\ queue \subseteq Request
  BY <1>s, Fields DEF Shapes
<1>3. \A t \in Slots : t # s => resp[t].id # i
  BY <1>2 DEF IInv, RespSound
<1>i. IdleClient \in Client /\ IdleClient.pc = "idle"
  BY FreeIsResponse
<1>4. /\ client' \in [Backends -> Client] /\ client'[b] = IdleClient
      /\ \A d \in Backends : d # b => client'[d] = client[d]
  BY <1>1, <1>i, <1>s, OneChange DEF Shapes
<1>5. OthersWait(s)
  <2>1. ASSUME NEW d \in Backends, client'[d].pc \in {"wait", "copy"}
        PROVE  client'[d].slot # s
    <3>1. d # b /\ client'[d] = client[d]
      BY <2>1, <1>4, <1>i
    <3>2. resp[client[d].slot].owner = d
      BY <2>1, <3>1 DEF IInv, ClientSound, BackendSound
    <3> QED
      BY <3>1, <3>2, <1>2
  <2> QED
    BY <2>1, <1>1, <1>4 DEF OthersWait
<1>6. \A v \in Workers : worker[v].id = i => worker[v].slot = s
  BY <1>2, Places
<1>q. (\E r \in queue : r.id = i) => Queued(i)
  BY <1>2, Places DEF Queued
<1>7. SweepsSound'
  <2>1. /\ \A d \in Backends : client[d].pc = "exited" => client'[d].pc = "exited"
        /\ starts \in Nat /\ starts' = starts /\ starts <= starts'
    BY <1>1, <1>4, <1>s DEF Shapes
  <2> QED
    BY <2>1, <1>1, SweepsKeep
<1>8. CASE Queued(i) \/ resp[s].ready
  <2>1. ~With(i)
    <3>1. Queued(i) => ~With(i)
      BY DEF IInv, QueueSound, Queued
    <3>2. resp[s].ready => ~With(i)
      BY <1>2, Places
    <3> QED
      BY <1>8, <3>1, <3>2
  <2>2. worker' = worker
    <3>1. worker' = [v \in Workers |-> worker[v]]
      BY <2>1, <1>1 DEF CanceledWorkers, With
    <3> QED
      BY <3>1, <1>f
  <2>3. resp' = [resp EXCEPT ![s] = FreeResponse]
    <3>1. (\E r \in queue : r.id = i) \/ resp[s].ready
      BY <1>8 DEF Queued
    <3>2. {v \in Workers : worker[v].id = i} = {}
      BY <2>1 DEF With
    <3>3. resp' = [t \in Slots |-> IF t = s THEN FreeResponse ELSE resp[t]]
      BY <3>1, <3>2, <1>1, <1>2, <1>3 DEF CanceledResponses
    <3> QED
      BY <3>3, <1>f
  <2>4. /\ queue' \subseteq Request /\ resp' \in [Slots -> Response]
        /\ QueueSound' /\ RespSound' /\ WorkerSound' /\ ProcSound'
        /\ ClientSound' /\ PoolSound'
    BY <2>1, <2>2, <2>3, <1>1, <1>2, <1>5, SlotCanceled
  <2>5. Shapes'
    BY <2>2, <2>4, <1>1, <1>4, <1>s DEF Shapes
  <2> QED
    BY <2>4, <2>5, <1>7 DEF IInv
<1>9. CASE ~Queued(i) /\ ~resp[s].ready
  <2>1. With(i)
    BY <1>2, <1>9 DEF IInv, RespSound
  <2>2. PICK v \in Workers : worker[v].id = i
    BY <2>1 DEF With
  <2>3. \A u \in Workers : worker[u].id = i => u = v
    BY <2>2, <1>2 DEF IInv, WorkerSound
  <2>4. PICK e : e = [worker[v] EXCEPT !.cancel = TRUE, !.owner = None]
    OBVIOUS
  <2>5. worker[v] \in Entry
    BY <1>f
  <2>6. /\ e \in Entry
        /\ e.pid = worker[v].pid /\ e.ready = worker[v].ready
        /\ e.id = worker[v].id /\ e.slot = worker[v].slot /\ e.doc = worker[v].doc
    BY <2>4, <2>5 DEF Entry
  <2>7. worker' = [worker EXCEPT ![v] = e]
    <3>1. worker' = [u \in Workers |-> IF u = v THEN e ELSE worker[u]]
      BY <2>2, <2>3, <2>4, <1>1 DEF CanceledWorkers
    <3> QED
      BY <3>1, <1>f
  <2>8. queue' = queue
    <3>1. \A r \in queue : r.id # i
      BY <1>9, <1>q
    <3> QED
      BY <3>1, <1>1 DEF CanceledQueue
  <2>9. resp' = [resp EXCEPT ![s] = [@ EXCEPT !.owner = None]]
    <3>1. ~\E r \in queue : r.id = i
      BY <1>9, <1>q
    <3>2. {worker[u].slot : u \in {t \in Workers : worker[t].id = i}} = {s}
      BY <2>2, <1>6
    <3>3. resp' = [t \in Slots |-> IF t = s THEN [resp[s] EXCEPT !.owner = None]
                                   ELSE resp[t]]
      BY <3>1, <3>2, <1>1, <1>2, <1>3, <1>9 DEF CanceledResponses
    <3> QED
      BY <3>3, <1>f
  <2>10. /\ resp' \in [Slots -> Response] /\ worker' \in [Workers -> Entry]
         /\ QueueSound' /\ RespSound' /\ WorkerSound' /\ ProcSound'
         /\ ClientSound' /\ PoolSound'
    BY <2>2, <2>6, <2>7, <2>8, <2>9, <1>1, <1>2, <1>5, OwnerGone
  <2>11. Shapes'
    BY <2>8, <2>10, <1>1, <1>4, <1>s DEF Shapes
  <2> QED
    BY <2>10, <2>11, <1>7 DEF IInv
<1> QED
  BY <1>8, <1>9

LEMMA OrphanDropped ==
    ASSUME RuntimeConstants, IInv, NEW p \in Sweepers, DropOrphan(p)
    PROVE  IInv'
<1>s. Shapes
  BY DEF IInv
<1>d. PICK s, i : s = orphan[p].slot /\ i = orphan[p].id
  OBVIOUS
<1>1. /\ orphan[p] # NothingRead
      /\ orphan' = [orphan EXCEPT ![p] = NothingRead]
      /\ UNCHANGED <<proc, client, lastId, starts, census>>
  BY DEF DropOrphan
<1>f. /\ \A t \in Slots : resp[t] \in Response
      /\ \A b \in Backends : client[b] \in Client
      /\ worker \in [Workers -> Entry] /\ resp \in [Slots -> Response]
  BY <1>s, Fields DEF Shapes
<1>2. /\ s \in Slots /\ i # 0 /\ orphan[p].owner \in Backends
      /\ client[orphan[p].owner].pc = "exited"
  BY <1>1, <1>d DEF IInv, SweepsSound
<1>n. NothingRead \in [slot : Slots \cup {0}, id : Ids, owner : Backends \cup {None}]
  BY DEF NothingRead, Ids, RuntimeConstants
<1>3. /\ orphan' \in [Sweepers -> [slot : Slots \cup {0}, id : Ids,
                                  owner : Backends \cup {None}]]
      /\ orphan'[p] = NothingRead
      /\ \A t \in Sweepers : t # p => orphan'[t] = orphan[t]
  BY <1>1, <1>n, <1>s DEF Shapes
<1>4. SweepsSound'
  BY <1>1, <1>3 DEF IInv, SweepsSound
<1>5. CASE ~StillOrphan(orphan[p])
  <2>1. UNCHANGED <<queue, resp, worker>>
    BY <1>5 DEF DropOrphan
  <2>2. Shapes'
    BY <2>1, <1>1, <1>3, <1>s DEF Shapes
  <2>3. /\ QueueSound' /\ RespSound' /\ WorkerSound' /\ ProcSound' /\ ClientSound'
        /\ PoolSound'
    BY <2>1, <1>1 DEF IInv, QueueSound, Queued, With, RespSound, WorkerSound,
       ProcSound, ProcessSound, ClientSound, BackendSound, PoolSound, Up, Ready,
       DocumentWorkers, DocumentSlots
  <2> QED
    BY <2>2, <2>3, <1>4 DEF IInv
<1>6. CASE StillOrphan(orphan[p])
  <2>1. resp[s].id = i /\ resp[s].owner = orphan[p].owner
    BY <1>6, <1>d DEF StillOrphan
  <2>2. OthersWait(s)
    <3>1. ASSUME NEW b \in Backends, client[b].pc \in {"wait", "copy"}
          PROVE  client[b].slot # s
      <4>1. resp[client[b].slot].owner = b
        BY <3>1 DEF IInv, ClientSound, BackendSound
      <4> QED
        BY <3>1, <4>1, <2>1, <1>2
    <3> QED
      BY <3>1, <1>1, <1>s DEF OthersWait, Shapes
  <2>3. CASE With(i) \/ resp[s].writing
    <3>1. With(i)
      BY <2>1, <2>3, <1>2 DEF IInv, RespSound
    <3>2. PICK v \in Workers : worker[v].id = i
      BY <3>1 DEF With
    <3>3. \A u \in Workers : worker[u].id = i => u = v
      BY <3>2, <1>2 DEF IInv, WorkerSound
    <3>4. PICK e : e = [worker[v] EXCEPT !.owner = None]
      OBVIOUS
    <3>5. worker[v] \in Entry
      BY <1>f
    <3>6. /\ e \in Entry
          /\ e.pid = worker[v].pid /\ e.ready = worker[v].ready
          /\ e.id = worker[v].id /\ e.slot = worker[v].slot /\ e.doc = worker[v].doc
      BY <3>4, <3>5 DEF Entry
    <3>7. {w \in Workers : worker[w].id = i} = {v}
      BY <3>2, <3>3
    <3>8. /\ resp' = [resp EXCEPT ![s].owner = None]
          /\ worker' = [w \in Workers |-> IF w \in {v} THEN [worker[w] EXCEPT !.owner = None]
                                          ELSE worker[w]]
          /\ UNCHANGED queue
      <4>1. {v} # {}
        OBVIOUS
      <4> QED
        BY <3>7, <4>1, <1>6, <1>d DEF DropOrphan
    <3>9. worker' = [worker EXCEPT ![v] = e]
      <4>1. worker' = [w \in Workers |-> IF w = v THEN e ELSE worker[w]]
        BY <3>4, <3>8
      <4> QED
        BY <4>1, <1>f
    <3>10. resp' = [resp EXCEPT ![s] = [@ EXCEPT !.owner = None]]
      BY <3>8
    <3>11. /\ resp' \in [Slots -> Response] /\ worker' \in [Workers -> Entry]
           /\ QueueSound' /\ RespSound' /\ WorkerSound' /\ ProcSound'
           /\ ClientSound' /\ PoolSound'
      <4>1. /\ worker[v].id # 0 /\ worker[v].id = resp[s].id
            /\ s \in Slots /\ v \in Workers
        BY <3>2, <2>1, <1>2
      <4>2. UNCHANGED <<queue, proc, lastId, starts>>
        BY <3>8, <1>1
      <4>3. OthersWait(s)
        BY <2>2
      <4> QED
        BY <3>6, <3>9, <3>10, <4>1, <4>2, <4>3, OwnerGone
    <3>12. Shapes'
      BY <3>8, <3>11, <1>1, <1>3, <1>s DEF Shapes
    <3> QED
      BY <3>11, <3>12, <1>4 DEF IInv
  <2>4. CASE ~With(i) /\ ~resp[s].writing
    <3>1. {w \in Workers : worker[w].id = i} = {}
      BY <2>4 DEF With
    <3>2. /\ queue' = CanceledQueue(i)
          /\ resp' = ClearResponse(resp, s)
          /\ UNCHANGED worker
      BY <3>1, <2>4, <1>6, <1>d DEF DropOrphan
    <3>3. /\ queue' \subseteq Request /\ resp' \in [Slots -> Response]
          /\ QueueSound' /\ RespSound' /\ WorkerSound' /\ ProcSound'
          /\ ClientSound' /\ PoolSound'
      BY <3>2, <2>1, <2>2, <2>4, <1>1, <1>2, SlotCanceled DEF ClearResponse
    <3>4. Shapes'
      BY <3>2, <3>3, <1>1, <1>3, <1>s DEF Shapes
    <3> QED
      BY <3>3, <3>4, <1>4 DEF IInv
  <2> QED
    BY <2>3, <2>4
<1> QED
  BY <1>5, <1>6

(***************************************************************************)
(* The invariant is inductive                                              *)
(***************************************************************************)
LEMMA InitHolds ==
    ASSUME RuntimeConstants, Init
    PROVE  IInv
<1>t. /\ 0 \in Ids /\ 0 \in Pids /\ 0 \in Nat
      /\ None \notin Backends /\ None \notin Workers
  <2>1. Cardinality(Workers) \in Nat
    BY FS_CardinalityType DEF RuntimeConstants
  <2> QED
    BY <2>1 DEF RuntimeConstants, Ids, Pids
<1>1. Shapes
  <2>1. FreeResponse \in Response
    BY <1>t DEF FreeResponse, Response, Kind
  <2>2. EmptyWorker \in Entry
    BY <1>t DEF EmptyWorker, Entry
  <2>3. Down \in Process
    BY <1>t DEF Down, Process, Kind
  <2>4. IdleClient \in Client
    BY <1>t DEF IdleClient, Client, Kind
  <2>5. NothingRead \in [slot : Slots \cup {0}, id : Ids, owner : Backends \cup {None}]
    BY <1>t DEF NothingRead
  <2>6. NobodyCounted \in [w : Workers \cup {None}, pid : Pids]
    BY <1>t DEF NobodyCounted
  <2> QED
    BY <2>1, <2>2, <2>3, <2>4, <2>5, <2>6, <1>t DEF Init, Shapes
<1>e. /\ IsFiniteSet({}) /\ Cardinality({}) = 0
  BY FS_EmptySet
<1>2. QueueSound
  BY <1>e DEF Init, QueueSound, RuntimeConstants
<1>3. /\ \A s \in Slots : resp[s].id = 0
      /\ \A w \in Workers : worker[w].id = 0 /\ worker[w].pid = 0
                            /\ worker[w].ready = FALSE /\ worker[w].cancel = FALSE
      /\ \A w \in Workers : proc[w].pc = "down" /\ proc[w].pid = 0
      /\ \A b \in Backends : client[b].pc = "idle"
  BY DEF Init, FreeResponse, EmptyWorker, Down, IdleClient
<1>4. lastId = 0 /\ starts = 0
  BY DEF Init
<1>5. RespSound
  BY <1>3, <1>4 DEF RespSound
<1>6. WorkerSound
  BY <1>3, <1>4 DEF WorkerSound
<1>7. ProcSound
  BY <1>3, <1>4 DEF ProcSound, ProcessSound, Busy
<1>8. ClientSound
  BY <1>3 DEF ClientSound, BackendSound
<1>9. SweepsSound
  BY DEF Init, SweepsSound
<1>10. PoolSound
  <2>1. Up = {} /\ Ready = {} /\ DocumentSlots = {}
    BY <1>3 DEF Up, Ready, DocumentSlots
  <2> QED
    BY <2>1, <1>e, <1>4 DEF PoolSound, RuntimeConstants
<1> QED
  BY <1>1, <1>2, <1>5, <1>6, <1>7, <1>8, <1>9, <1>10 DEF IInv

LEMMA StepHolds ==
    ASSUME RuntimeConstants, IInv, Next
    PROVE  IInv'
<1>1. ASSUME NEW b \in Backends, BackendNext(b)
      PROVE  IInv'
  <2>1. ASSUME NEW kind \in Kinds, NEW model \in Models, Submit(b, kind, model)
        PROVE  IInv'
    BY <2>1, Submits
  <2>2. CASE Enqueue(b)
    BY <2>2, Enqueues
  <2>3. CASE GiveUpAdmission(b) \/ NextStatement(b)
    BY <2>3, GivesUpAdmission
  <2>4. CASE SeeAnswer(b)
    BY <2>4, SeesAnswer
  <2>5. CASE TakeAnswer(b)
    BY <2>5, TakesAnswer
  <2>6. CASE CancelWait(b)
    BY <2>6, Cancels
  <2>7. CASE BackendExit(b)
    BY <2>7, Exits
  <2> QED
    BY <1>1, <2>1, <2>2, <2>3, <2>4, <2>5, <2>6, <2>7 DEF BackendNext
<1>2. ASSUME NEW w \in Workers, WorkerNext(w)
      PROVE  IInv'
  <2>1. CASE WorkerStart(w)
    BY <2>1, WorkerStarts
  <2>2. CASE Dispatch(w)
    BY <2>2, Dispatched
  <2>3. CASE DropCanceled(w)
    BY <2>3, CanceledDropped
  <2>4. ASSUME NEW error \in BOOLEAN, RunReturns(w, error)
        PROVE  IInv'
    BY <2>4, RunEnds
  <2>5. CASE RunHangs(w)
    BY <2>5, Hangs
  <2>6. CASE StoreBegin(w)
    BY <2>6, StoreBegins
  <2>7. CASE FillResponse(w)
    BY <2>7, ResponseFills
  <2>8. CASE StoreEnd(w)
    BY <2>8, StoreEnds
  <2>9. CASE WorkerStop(w)
    BY <2>9, WorkerStops
  <2>10. CASE WorkerDie(w)
    BY <2>10, WorkerDies
  <2> QED
    BY <1>2, <2>1, <2>2, <2>3, <2>4, <2>5, <2>6, <2>7, <2>8, <2>9, <2>10
    DEF WorkerNext
<1>3. ASSUME Housekeeping
      PROVE  IInv'
  <2>1. ASSUME NEW p \in Sweepers, DropOrphan(p)
        PROVE  IInv'
    BY <2>1, OrphanDropped
  <2>2. ASSUME NEW p \in Sweepers, NEW s \in Slots, LookForOrphan(p, s)
        PROVE  IInv'
    BY <2>2, OrphanSeen
  <2>3. ASSUME NEW w \in Workers, LookForDeadWorker(w)
        PROVE  IInv'
    BY <2>3, DeadWorkerSeen
  <2>4. CASE MarkDeadWorker
    BY <2>4, DeadWorkerMarked
  <2> QED
    BY <1>3, <2>1, <2>2, <2>3, <2>4 DEF Housekeeping
<1> QED
  BY <1>1, <1>2, <1>3 DEF Next

LEMMA StutterHolds ==
    ASSUME IInv, UNCHANGED vars
    PROVE  IInv'
<1>1. Shapes'
  BY DEF vars, IInv, Shapes
<1>2. QueueSound' /\ RespSound' /\ WorkerSound'
  BY DEF vars, IInv, QueueSound, RespSound, WorkerSound, Queued, With
<1>3. ProcSound' /\ ClientSound' /\ SweepsSound'
  BY DEF vars, IInv, ProcSound, ProcessSound, ClientSound, BackendSound, SweepsSound
<1>4. PoolSound'
  BY DEF vars, IInv, PoolSound, Up, Ready, DocumentWorkers, DocumentSlots
<1> QED
  BY <1>1, <1>2, <1>3, <1>4 DEF IInv

LEMMA Inductive ==
    ASSUME RuntimeConstants
    PROVE  Spec => []IInv
<1>1. Init => IInv
  BY InitHolds
<1>2. IInv /\ [Next]_vars => IInv'
  BY StepHolds, StutterHolds
<1> QED
  BY <1>1, <1>2, PTL DEF Spec

(***************************************************************************)
(* Theorems                                                                *)
(***************************************************************************)
\* A request somebody waits for is queued, with one worker, or answered,
\* whoever dies, cancels or sweeps meanwhile; a slot without an owner is still
\* held by a worker that will free it; the queue never holds more than its
\* array; and documents leave a slot, and one of two ready workers, to queries.
THEOREM RequestsStayTracked ==
    ASSUME RuntimeConstants
    PROVE  Spec => []RequestsTracked
<1>1. IInv => RequestsTracked
  <2> SUFFICES ASSUME IInv PROVE RequestsTracked
    OBVIOUS
  <2>s. Shapes
    BY DEF IInv
  <2>w. /\ IsFiniteSet(Workers) /\ Cardinality(Workers) \in Nat
        /\ MaxStarts \in Nat
    BY FS_CardinalityType DEF RuntimeConstants
  <2>1. TypeOK
    <3>1. starts \in Pids
      <4>1. /\ IsFiniteSet(Up) /\ Cardinality(Up) \in Nat
            /\ Cardinality(Up) <= Cardinality(Workers)
        BY <2>w, FS_Subset, FS_CardinalityType DEF Up
      <4> QED
        BY <4>1, <2>w, <2>s DEF IInv, PoolSound, Pids, Shapes
    <3>2. Cardinality(queue) <= ResponseCapacity
      BY DEF IInv, QueueSound
    <3>3. /\ queue \subseteq [id : Ids \ {0}, slot : Slots,
                              kind : {"query", "document"}, model : Models,
                              caller : Backends, canceled : BOOLEAN]
          /\ resp \in [Slots -> [id : Ids, owner : Backends \cup {None},
                           kind : {"query", "document"}, ready : BOOLEAN,
                           writing : BOOLEAN, error : BOOLEAN, data : Ids]]
          /\ worker \in [Workers ->
               [pid : Pids, ready : BOOLEAN, id : Ids,
                slot : Slots \cup {0}, doc : BOOLEAN,
                owner : Backends \cup {None}, cancel : BOOLEAN,
                affinity : {<<>>} \cup ({"query", "document"} \X Models)]]
      BY <2>s DEF Shapes, Request, Response, Entry, Kind
    <3>4. \A w \in Workers :
            proc[w].pc \in {"down", "poll", "run", "hung", "store", "fill", "commit"}
      BY <2>s DEF Shapes, Process, Busy
    <3>5. \A b \in Backends :
            client[b].pc \in {"idle", "admit", "wait", "copy", "answered", "exited"}
      BY <2>s DEF Shapes, Client
    <3> QED
      BY <3>1, <3>2, <3>3, <3>4, <3>5, <2>s DEF TypeOK, Shapes
  <2>2. RequestTracked
    <3> SUFFICES ASSUME NEW b \in Backends, client[b].pc \in {"wait", "copy"}
                 PROVE  LET id == client[b].id
                            s == client[b].slot
                        IN /\ resp[s].id = id /\ resp[s].owner = b
                           /\ Cardinality({r \in LiveRequests : r.id = id})
                              + Cardinality({w \in Workers : worker[w].id = id})
                              + (IF resp[s].ready THEN 1 ELSE 0) = 1
      BY DEF RequestTracked
    <3> PICK i, s : i = client[b].id /\ s = client[b].slot
      OBVIOUS
    <3>1. i # 0 /\ s \in Slots /\ resp[s].id = i /\ resp[s].owner = b
      BY DEF IInv, ClientSound, BackendSound
    <3>2. \/ {r \in LiveRequests : r.id = i} = {} /\ ~Queued(i)
          \/ /\ Queued(i)
             /\ \E q \in queue : {r \in LiveRequests : r.id = i} = {q}
      BY DEF Queued, LiveRequests, IInv, QueueSound
    <3>3. \/ {w \in Workers : worker[w].id = i} = {} /\ ~With(i)
          \/ /\ With(i)
             /\ \E v \in Workers : {w \in Workers : worker[w].id = i} = {v}
      BY <3>1 DEF With, IInv, WorkerSound
    <3>4. /\ Queued(i) => ~With(i)
          /\ resp[s].ready => ~Queued(i) /\ ~With(i)
          /\ ~resp[s].ready => Queued(i) \/ With(i)
      <4>1. Queued(i) => ~With(i)
        BY DEF Queued, IInv, QueueSound
      <4>2. resp[s].ready => ~Queued(i) /\ ~With(i)
        BY <3>1, Places
      <4> QED
        BY <3>1, <4>1, <4>2 DEF IInv, RespSound
    <3>5. Cardinality({r \in LiveRequests : r.id = i}) = IF Queued(i) THEN 1 ELSE 0
      BY <3>2, FS_EmptySet, FS_Singleton
    <3>6. Cardinality({w \in Workers : worker[w].id = i}) = IF With(i) THEN 1 ELSE 0
      BY <3>3, FS_EmptySet, FS_Singleton
    <3>7. Cardinality({r \in LiveRequests : r.id = i})
          + Cardinality({w \in Workers : worker[w].id = i})
          + (IF resp[s].ready THEN 1 ELSE 0) = 1
      BY <3>4, <3>5, <3>6
    <3> QED
      BY <3>1, <3>7
  <2>3. OwnerlessInUse
    BY DEF IInv, RespSound, With, OwnerlessInUse
  <2>4. DocumentsLeaveALane
    BY DEF IInv, PoolSound, DocumentsLeaveALane, DocumentWorkers, DocumentSlots,
       ActiveDocumentWorkers, DocumentResponses
  <2> QED
    BY <2>1, <2>2, <2>3, <2>4 DEF RequestsTracked
<1> QED
  BY <1>1, Inductive, PTL

\* A backend reads the answer to its own request or an error: the slot a
\* worker fills with the lock released belongs to the request it took, and a
\* cancel flag is only raised on a request nobody waits for.
THEOREM AnswersStayOwn ==
    ASSUME RuntimeConstants
    PROVE  Spec => []AnswersOwn
<1>1. IInv => AnswersOwn
  <2> SUFFICES ASSUME IInv PROVE AnswersOwn
    OBVIOUS
  <2>s. Shapes
    BY DEF IInv
  <2>1. AnswerIsOwn
    <3>1. ASSUME NEW b \in Backends, client[b].pc = "copy"
          PROVE  Delivered(b)
      <4>1. /\ client[b].id # 0 /\ client[b].slot \in Slots
            /\ resp[client[b].slot].id = client[b].id
            /\ resp[client[b].slot].owner = b
            /\ resp[client[b].slot].ready
        BY <3>1 DEF IInv, ClientSound, BackendSound
      <4>2. ~resp[client[b].slot].writing
        BY <4>1 DEF IInv, RespSound
      <4>3. ~resp[client[b].slot].error =>
              resp[client[b].slot].data = client[b].id
        BY <4>1 DEF IInv, RespSound
      <4> QED
        BY <4>1, <4>2, <4>3 DEF Delivered
    <3>2. \A b \in Backends :
            client[b].pc = "answered" => client[b].got \in {-1, client[b].id}
      BY DEF IInv, ClientSound, BackendSound
    <3> QED
      BY <3>1, <3>2 DEF AnswerIsOwn
  <2>2. WriterExclusive
    <3> SUFFICES ASSUME NEW w \in Workers,
                        proc[w].pc \in {"run", "hung", "store", "fill", "commit"}
                 PROVE  /\ worker[w].pid = proc[w].pid
                        /\ worker[w].id = proc[w].id
                        /\ worker[w].slot = proc[w].slot
                        /\ resp[proc[w].slot].id = proc[w].id
      BY DEF WriterExclusive
    <3>1. ProcessSound(w)
      BY DEF IInv, ProcSound
    <3>2. /\ worker[w].pid = proc[w].pid
          /\ worker[w].id = proc[w].id /\ proc[w].id # 0
          /\ worker[w].slot = proc[w].slot
      BY <3>1 DEF ProcessSound, Busy
    <3>3. resp[worker[w].slot].id = worker[w].id
      BY <3>2 DEF IInv, WorkerSound
    <3> QED
      BY <3>2, <3>3
  <2>3. CancelPrecise
    BY DEF IInv, WorkerSound, CancelPrecise, Processing
  <2> QED
    BY <2>1, <2>2, <2>3 DEF AnswersOwn
<1> QED
  BY <1>1, Inductive, PTL

=============================================================================
