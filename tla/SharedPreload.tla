---------------------------- MODULE SharedPreload ----------------------------
(***************************************************************************)
(* The shared preload arena of src/src/evoke_am_preload.c: a bump arena in *)
(* shared memory, a registry of entries over it and an open-addressed hash *)
(* over the entries.  Backends attach to a published payload, reserve and  *)
(* publish a new one, and give their references back without the lock;     *)
(* root publication rekeys or retires the entries of a relation meanwhile. *)
(*                                                                         *)
(* One action is one critical section of evoke_preload_lock, or one        *)
(* unlocked compare-and-exchange on a reference count.  A relation's meta  *)
(* page is [rel, epoch, root]: the cache epoch (with the relation file it  *)
(* names) and the segment read root.  A backend works from the copy of the *)
(* meta page it read when it opened the relation, which may be stale.      *)
(* Sizes count alignment units.                                            *)
(***************************************************************************)
EXTENDS Naturals, FiniteSets, Sequences, SequencesExt

CONSTANTS
    Backend,        \* server processes
    Rel,            \* index relations
    Kind,           \* the payload kinds in use, among AllKinds
    EntryCapacity,  \* registry slots
    HashCapacity,   \* buckets of the hash: a power of two
    ArenaSize,      \* units of arena
    PayloadSize,    \* [Rel \X Kind -> units of a payload of that kind]
    Priority,       \* [Rel -> the relation's auto_preload option]
    Database,       \* [Rel -> the database the relation lives in]
    KeyHash(_),     \* the hash of an entry key: a positive number
    MaxRoot,        \* bound: read roots published per epoch
    MaxEpoch        \* bound: rebuilds of a relation

AllKinds == {"warm", "lengths", "tid_lookup", "hot", "pages", "resident"}

PreloadAssumption ==
    /\ Kind \subseteq AllKinds
    /\ EntryCapacity \in Nat \ {0}
    /\ HashCapacity \in Nat /\ HashCapacity >= 2 * EntryCapacity
    /\ ArenaSize \in Nat \ {0}
    /\ PayloadSize \in [Rel \X Kind -> Nat \ {0}]
    /\ Priority \in [Rel -> Nat]

VARIABLES
    arena,      \* [entries, hash, used, lru]: the shared segment
    current,    \* [Rel -> [rel, epoch, root]]: the meta page on disk
    view,       \* [Backend -> the meta copy a backend works from, or NoView]
    token,      \* [Backend -> the lease or reservation it holds, or NoToken]
    pc          \* [Backend -> where a backend is]

vars == <<arena, current, view, token, pc>>

Slot == 1..EntryCapacity
Bucket == 0..(HashCapacity - 1)
SlotOrder == [i \in Slot |-> i]

Meta == [rel: Rel, epoch: 1..MaxEpoch, root: 1..MaxRoot]
NoView == [rel |-> "none"]
NoToken == [slot |-> 0]
EmptyBucket == [slot |-> 0, key |-> 0]

\* A zeroed entry.
FreeEntry == [in_use |-> FALSE, ready |-> FALSE, obsolete |-> FALSE,
              offset |-> 0, mapped |-> 0, alloc |-> 0, ref |-> 0, key |-> 0]

\* An entry whose block may be used again: nothing else in it is read.
UnusedEntry(e) == [FreeEntry EXCEPT !.offset = e.offset, !.mapped = e.mapped,
                                    !.alloc = e.alloc]

HasBlock(e) == e.alloc > 0
End(e) == e.offset + e.alloc

-----------------------------------------------------------------------------
(* Identity of a payload. *)

kind_uses_base_identity(k) == k \in {"warm", "lengths", "tid_lookup"}

kind_rekey_safe(k) == k # "resident"

base_identity_matches(m, n) == m.rel = n.rel /\ m.epoch = n.epoch

\* The kinds keyed by base identity leave the read root out of the hash.
entry_key_hash(m, k) ==
    KeyHash(IF kind_uses_base_identity(k)
            THEN <<k, m.rel, m.epoch>>
            ELSE <<k, m.rel, m.epoch, m.root>>)

entry_same_generation(e, m, k) ==
    /\ e.in_use /\ ~e.obsolete
    /\ e.kind = k
    /\ IF kind_uses_base_identity(k)
       THEN base_identity_matches(e.meta, m)
       ELSE e.meta = m

-----------------------------------------------------------------------------
(* The hash: linear probing, removal by backward shift. *)

Probe(key, i) == (key + i) % HashCapacity

\* Distance of bucket b past bucket h, around the table.
Past(b, h) == (b + HashCapacity - h) % HashCapacity

\* The slot a lookup finds, 0 for none: probing stops at the first hole.
hash_lookup(A, m, k) ==
    LET key == entry_key_hash(m, k)
        At(i) == A.hash[Probe(key, i)]
        Hits == {i \in Bucket :
                    /\ At(i).slot # 0
                    /\ At(i).key = key
                    /\ entry_same_generation(A.entries[At(i).slot], m, k)
                    /\ \A j \in 0..(i - 1) : At(j).slot # 0}
    IN  IF Hits = {} THEN 0
        ELSE At(CHOOSE i \in Hits : \A j \in Hits : i <= j).slot

hash_insert(A, s) ==
    LET key == A.entries[s].key
        i == CHOOSE i \in Bucket :
                /\ A.hash[Probe(key, i)].slot = 0
                /\ \A j \in 0..(i - 1) : A.hash[Probe(key, j)].slot # 0
    IN  [A EXCEPT !.hash[Probe(key, i)] = [slot |-> s, key |-> key]]

\* One bucket of the backward shift: the scan stops at a hole, and an entry
\* moves into the hole when the hole is nearer its home bucket.
ShiftStep(st) ==
    LET b == (st.scan + 1) % HashCapacity
        home == st.hash[b].key % HashCapacity
    IN  IF st.done \/ st.hash[b].slot = 0
        THEN [st EXCEPT !.done = TRUE]
        ELSE IF Past(b, home) > Past(st.hole, home)
             THEN [st EXCEPT !.hash[st.hole] = st.hash[b],
                             !.hole = b, !.scan = b]
             ELSE [st EXCEPT !.scan = b]

CloseHole(A, end) ==
    [A EXCEPT !.hash = [end.hash EXCEPT ![end.hole] = EmptyBucket]]

hash_remove(A, s) ==
    LET key == A.entries[s].key
        Found == {i \in Bucket :
                    /\ A.hash[Probe(key, i)] = [slot |-> s, key |-> key]
                    /\ \A j \in 0..(i - 1) : A.hash[Probe(key, j)].slot # 0}
        start(i) == [hash |-> A.hash, hole |-> Probe(key, i),
                     scan |-> Probe(key, i), done |-> FALSE]
        Step(st, b) == ShiftStep(st)
    IN  IF Found = {} THEN A
        ELSE CloseHole(A, FoldLeft(Step,
                                   start(CHOOSE i \in Found :
                                            \A j \in Found : i <= j),
                                   [b \in 1..HashCapacity |-> b]))

-----------------------------------------------------------------------------
(* Retirement and the arena. *)

\* Mutant: the block is freed whoever still reads it.
GiveUpHeld(A, s) == [A EXCEPT !.entries[s] = UnusedEntry(@)]

\* An entry's block is free when nobody refers to it; otherwise the last
\* reference frees it.
GiveUp(A, s) ==
    [A EXCEPT !.entries[s] = IF @.ref = 0 THEN UnusedEntry(@)
                             ELSE [@ EXCEPT !.ready = FALSE, !.obsolete = TRUE]]

\* An entry leaves the hash at once.
retire_entry(A, s) ==
    IF A.entries[s].in_use THEN GiveUp(hash_remove(A, s), s) ELSE A

\* The unused blocks above the last block in use are dropped, and the arena
\* is used up to the end of that block.
try_rewind(A) ==
    LET used == {s \in Slot : A.entries[s].in_use /\ HasBlock(A.entries[s])}
        ends == {End(A.entries[s]) : s \in used}
        top == IF ends = {} THEN 0
               ELSE CHOOSE x \in ends : \A y \in ends : y <= x
    IN  [A EXCEPT !.used = top,
                  !.entries = [s \in Slot |->
                    IF /\ ~A.entries[s].in_use
                       /\ HasBlock(A.entries[s])
                       /\ End(A.entries[s]) > top
                    THEN FreeEntry ELSE A.entries[s]]]

retire_obsolete(A, m) ==
    LET Step(B, s) ==
            IF /\ B.entries[s].in_use
               /\ B.entries[s].meta.rel = m.rel
               /\ ~entry_same_generation(B.entries[s], m, B.entries[s].kind)
            THEN retire_entry(B, s) ELSE B
    IN  try_rewind(FoldLeft(Step, A, SlotOrder))

\* The access clock, as the order in which the entries in use were touched.
touch(A, s) ==
    LET others(t) == t # s /\ A.entries[t].in_use
    IN  [A EXCEPT !.lru = Append(SelectSeq(@, others), s)]

-----------------------------------------------------------------------------
(* Eviction. *)

relation_evictable(e, m, k) ==
    /\ e.in_use /\ ~e.obsolete /\ e.ready
    /\ e.ref = 0
    /\ Database[e.meta.rel] = Database[m.rel]
    /\ IF entry_same_generation(e, m, e.kind)
       THEN e.kind \notin {"warm", "resident", "tid_lookup", k}
       ELSE e.priority <= Priority[m.rel]

Evictable(A, m, k, size) ==
    {s \in Slot : /\ relation_evictable(A.entries[s], m, k)
                  /\ \/ A.entries[s].alloc >= size
                     \/ End(A.entries[s]) = A.used}

\* The order of preference: low priority, then a block the payload fits in,
\* then the smaller block, then the one touched longest ago.
EvictedBefore(A, size, s, t) ==
    LET e == A.entries[s]
        f == A.entries[t]
        fits(x) == x.alloc >= size
        touched(x) == CHOOSE i \in 1..Len(A.lru) : A.lru[i] = x
    IN  IF e.priority # f.priority THEN e.priority < f.priority
        ELSE IF fits(e) # fits(f) THEN fits(e)
        ELSE IF e.alloc # f.alloc THEN e.alloc < f.alloc
        ELSE touched(s) <= touched(t)

evict_relation_entry(A, m, k, size) ==
    LET S == Evictable(A, m, k, size)
        s == CHOOSE s \in S : \A t \in S : EvictedBefore(A, size, s, t)
    IN  try_rewind(retire_entry(A, s))

-----------------------------------------------------------------------------
(* Reservation. *)

\* Where a payload goes: the smallest unused block that holds it, else fresh
\* space in a slot without a block.
Reusable(A, size) ==
    {s \in Slot : /\ ~A.entries[s].in_use
                  /\ HasBlock(A.entries[s])
                  /\ A.entries[s].alloc >= size}

Blockless(A) == {s \in Slot : ~A.entries[s].in_use /\ ~HasBlock(A.entries[s])}

SmallestReusable(A, size) ==
    LET S == Reusable(A, size)
    IN  CHOOSE s \in S : \A t \in S \ {s} :
            \/ A.entries[s].alloc < A.entries[t].alloc
            \/ A.entries[s].alloc = A.entries[t].alloc /\ s < t

\* The entry written for a new reservation, which holds one reference.
Install(A, s, m, k, offset, alloc) ==
    LET B == [A EXCEPT !.entries[s] =
                [in_use |-> TRUE, ready |-> FALSE, obsolete |-> FALSE,
                 kind |-> k, priority |-> Priority[m.rel], meta |-> m,
                 built |-> m, offset |-> offset,
                 mapped |-> PayloadSize[m.rel, k], alloc |-> alloc,
                 ref |-> 1, key |-> entry_key_hash(m, k)]]
    IN  hash_insert(touch(B, s), s)

Outcome(r, A, s) == [result |-> r, arena |-> A, slot |-> s]

\* The payload goes into the smallest unused block that holds it, else into
\* fresh space in a slot without a block; else an eviction and "RETRY".
Place(A, m, k, size, attempts) ==
    CASE Reusable(A, size) # {} ->
            LET s == SmallestReusable(A, size)
            IN  Outcome("NEW", Install(A, s, m, k, A.entries[s].offset,
                                       A.entries[s].alloc), s)
      [] Reusable(A, size) = {} /\ Blockless(A) # {} /\ A.used + size <= ArenaSize ->
            LET s == CHOOSE s \in Blockless(A) : \A t \in Blockless(A) : s <= t
            IN  Outcome("NEW", [Install(A, s, m, k, A.used, size)
                                    EXCEPT !.used = A.used + size], s)
      [] OTHER ->
            IF attempts < EntryCapacity /\ Evictable(A, m, k, size) # {}
            THEN Outcome("RETRY", evict_relation_entry(A, m, k, size), 0)
            ELSE Outcome("FAILED", A, 0)

FindOrPlace(A, m, k, existing, attempts) ==
    IF existing = 0 THEN Place(A, m, k, PayloadSize[m.rel, k], attempts)
    ELSE Outcome(IF A.entries[existing].ready THEN "READY" ELSE "LOADING", A, 0)

\* One pass of retry_allocate, over the arena without the caller's stale
\* entries.
AllocateOnce(A, m, k, attempts) ==
    FindOrPlace(A, m, k, hash_lookup(A, m, k), attempts)

\* The whole reservation: at most EntryCapacity evictions.
Reserve(A, m, k) ==
    LET Again(r, n) ==
            IF r.result = "RETRY"
            THEN AllocateOnce(retire_obsolete(r.arena, m), m, k, n - 1) ELSE r
    IN  FoldLeft(Again, Outcome("RETRY", A, 0), [n \in 1..(EntryCapacity + 1) |-> n])

\* evoke_am_preload_status_snapshot: what it reports of a payload that is
\* neither resident nor loading.
Admission(A, m, k) ==
    LET size == PayloadSize[m.rel, k]
    IN  IF size > ArenaSize THEN "oversized"
        ELSE IF \/ Reusable(A, size) # {}
                \/ Evictable(A, m, k, size) # {}
                \/ Blockless(A) # {} /\ size <= ArenaSize - A.used
             THEN "admissible"
             ELSE "blocked"

-----------------------------------------------------------------------------
(* Backends. *)

TypeOK ==
    /\ arena.used \in 0..ArenaSize
    /\ \A s \in Slot : LET e == arena.entries[s] IN
        /\ e.in_use \in BOOLEAN /\ e.ready \in BOOLEAN /\ e.obsolete \in BOOLEAN
        /\ e.ref \in 0..Cardinality(Backend)
        /\ e.in_use => e.meta \in Meta /\ e.built \in Meta /\ e.kind \in Kind
    /\ \A b \in Bucket : arena.hash[b].slot \in {0} \cup Slot
    /\ arena.lru \in Seq(Slot)
    /\ current \in [Rel -> Meta]
    /\ view \in [Backend -> Meta \cup {NoView}]
    /\ pc \in [Backend -> {"idle", "leased", "building", "release", "check",
                            "free", "published", "rekey"}]

Init ==
    /\ arena = [entries |-> [s \in Slot |-> FreeEntry],
                hash |-> [b \in Bucket |-> EmptyBucket],
                used |-> 0, lru |-> <<>>]
    /\ current = [r \in Rel |-> [rel |-> r, epoch |-> 1, root |-> 1]]
    /\ view = [p \in Backend |-> NoView]
    /\ token = [p \in Backend |-> NoToken]
    /\ pc = [p \in Backend |-> "idle"]

Goto(p, l) == pc' = [pc EXCEPT ![p] = l]

TokenOf(A, s) ==
    [slot |-> s, kind |-> A.entries[s].kind, built |-> A.entries[s].built,
     offset |-> A.entries[s].offset]

\* A backend opens a relation and reads its meta page; it closes it again.
Open(p, r) ==
    /\ pc[p] = "idle" /\ view[p] = NoView
    /\ view' = [view EXCEPT ![p] = current[r]]
    /\ UNCHANGED <<arena, current, token, pc>>

Close(p) ==
    /\ pc[p] = "idle" /\ view[p] # NoView
    /\ view' = [view EXCEPT ![p] = NoView]
    /\ UNCHANGED <<arena, current, token, pc>>

\* evoke_am_preload_attach, under the shared lock.
Attach(p, k) ==
    /\ pc[p] = "idle" /\ view[p] # NoView
    /\ \E s \in {hash_lookup(arena, view[p], k)} \ {0} :
        /\ arena.entries[s].ready
        /\ arena' = touch([arena EXCEPT !.entries[s].ref = @ + 1], s)
        /\ token' = [token EXCEPT ![p] = TokenOf(arena, s)]
        /\ Goto(p, "leased")
    /\ UNCHANGED <<current, view>>

\* evoke_am_preload_lease_release: what follows is release_token.
LeaseRelease(p) ==
    /\ pc[p] = "leased"
    /\ Goto(p, "release")
    /\ UNCHANGED <<arena, current, view, token>>

\* evoke_am_preload_lease_retire: the payload did not validate.
LeaseRetire(p) ==
    /\ pc[p] = "leased"
    /\ arena' = IF /\ arena.entries[token[p].slot].in_use
                   /\ arena.entries[token[p].slot].ref > 0
                THEN retire_entry(arena, token[p].slot) ELSE arena
    /\ Goto(p, "release")
    /\ UNCHANGED <<current, view, token>>

\* Mutant: the last reference leaves the block to nobody.
DecrementForgets(p) ==
    LET s == token[p].slot
    IN  /\ pc[p] = "release"
        /\ arena' = IF arena.entries[s].ref = 0 THEN arena
                    ELSE [arena EXCEPT !.entries[s].ref = @ - 1]
        /\ token' = [token EXCEPT ![p] = NoToken]
        /\ Goto(p, "idle")
        /\ UNCHANGED <<current, view>>

\* release_token: the reference is given back without the lock.
Decrement(p) ==
    LET s == token[p].slot
        last == arena.entries[s].ref = 1
    IN  /\ pc[p] = "release"
        /\ arena' = IF arena.entries[s].ref = 0 THEN arena
                    ELSE [arena EXCEPT !.entries[s].ref = @ - 1]
        /\ token' = IF last THEN token ELSE [token EXCEPT ![p] = NoToken]
        /\ Goto(p, IF last THEN "check" ELSE "idle")
        /\ UNCHANGED <<current, view>>

\* Under the shared lock, the last holder looks whether it has to free.
SharedCheck(p) ==
    LET e == arena.entries[token[p].slot]
        free == e.ref = 0 /\ e.obsolete
    IN  /\ pc[p] = "check"
        /\ Goto(p, IF free THEN "free" ELSE "idle")
        /\ token' = IF free THEN token ELSE [token EXCEPT ![p] = NoToken]
        /\ UNCHANGED <<arena, current, view>>

\* Under the exclusive lock, it looks again and frees the block.
ExclusiveFree(p) ==
    LET s == token[p].slot
        e == arena.entries[s]
    IN  /\ pc[p] = "free"
        /\ arena' = try_rewind(IF e.ref = 0 /\ e.obsolete
                               THEN [arena EXCEPT !.entries[s] = UnusedEntry(e)]
                               ELSE arena)
        /\ token' = [token EXCEPT ![p] = NoToken]
        /\ Goto(p, "idle")
        /\ UNCHANGED <<current, view>>

\* evoke_am_preload_reserve.
ReservePayload(p, k) ==
    /\ pc[p] = "idle" /\ view[p] # NoView
    /\ \E r \in {Reserve(arena, view[p], k)} :
        /\ arena' = r.arena
        /\ IF r.result = "NEW"
           THEN /\ token' = [token EXCEPT ![p] = TokenOf(r.arena, r.slot)]
                /\ Goto(p, "building")
           ELSE UNCHANGED <<token, pc>>
    /\ UNCHANGED <<current, view>>

\* publish_token: a reservation retired meanwhile is not published.
PublishToken(A, s, ready) ==
    LET e == A.entries[s]
    IN  IF ready /\ e.in_use /\ ~e.obsolete /\ e.ref > 0
        THEN [A EXCEPT !.entries[s].ready = TRUE]
        ELSE try_rewind(retire_entry(A, s))

\* reservation_commit.
Commit(p) ==
    /\ pc[p] = "building"
    /\ arena' = PublishToken(arena, token[p].slot, TRUE)
    /\ Goto(p, "release")
    /\ UNCHANGED <<current, view, token>>

\* reservation_abort: the build failed, or the backend exits in it.
Abort(p) ==
    /\ pc[p] = "building"
    /\ arena' = PublishToken(arena, token[p].slot, FALSE)
    /\ Goto(p, "release")
    /\ UNCHANGED <<current, view, token>>

\* evoke_am_preload_retire_exact: the caller found the payload unusable.
RetireExact(p, k) ==
    /\ pc[p] = "idle" /\ view[p] # NoView
    /\ \E s \in {hash_lookup(arena, view[p], k)} \ {0} :
        arena' = try_rewind(retire_entry(arena, s))
    /\ UNCHANGED <<current, view, token, pc>>

\* evoke_am_preload_clear.
Clear ==
    /\ arena' = try_rewind(FoldLeft(retire_entry, arena, SlotOrder))
    /\ arena' # arena
    /\ UNCHANGED <<current, view, token, pc>>

\* A foreground append publishes a root and leaves the arena alone.
AppendRoot(r) ==
    /\ current[r].root < MaxRoot
    /\ current' = [current EXCEPT ![r].root = @ + 1]
    /\ UNCHANGED <<arena, view, token, pc>>

\* evoke_am_publish_cow_manifest: a root is published; then the meta page is
\* read back, and the arena is told.  keep: the pass gave its source meta.
PublishManifest(p, keep) ==
    LET r == view[p].rel
    IN  /\ pc[p] = "idle" /\ view[p] # NoView
        /\ current[r].root < MaxRoot
        /\ current' = [current EXCEPT ![r].root = @ + 1]
        /\ token' = [token EXCEPT ![p] = [slot |-> 0, keep |-> keep]]
        /\ Goto(p, "published")
        /\ UNCHANGED <<arena, view>>

ReadBack(p) ==
    /\ pc[p] = "published"
    /\ token' = [token EXCEPT ![p] = [slot |-> 0, keep |-> @.keep,
                                      meta |-> current[view[p].rel]]]
    /\ Goto(p, "rekey")
    /\ UNCHANGED <<arena, current, view>>

\* A relation is rebuilt under a new epoch while nobody else has it open.
Rebuild(p, r) ==
    /\ pc[p] = "idle" /\ view[p] = NoView
    /\ \A q \in Backend : view[q].rel # r
    /\ current[r].epoch < MaxEpoch
    /\ \E m \in {[rel |-> r, epoch |-> current[r].epoch + 1, root |-> 1]} :
        /\ current' = [current EXCEPT ![r] = m]
        /\ view' = [view EXCEPT ![p] = m]
        /\ token' = [token EXCEPT ![p] = [slot |-> 0, keep |-> FALSE,
                                          meta |-> m]]
    /\ Goto(p, "rekey")
    /\ UNCHANGED arena

\* An entry moves to the key of another generation.
MoveKey(A, s, new) ==
    hash_insert([hash_remove(A, s) EXCEPT
                    !.entries[s].meta = new,
                    !.entries[s].key = entry_key_hash(new, A.entries[s].kind)], s)

\* One entry of rekey_generation: it follows the root when its kind may and
\* the new generation has no such entry yet.
RekeyEntry(A, s, new) ==
    IF \/ ~kind_rekey_safe(A.entries[s].kind)
       \/ hash_lookup(A, new, A.entries[s].kind) \notin {0, s}
    THEN retire_entry(A, s) ELSE MoveKey(A, s, new)

\* evoke_am_preload_rekey_generation.
rekey_generation(A, old, new) ==
    LET Step(B, s) ==
            IF /\ B.entries[s].in_use
               /\ entry_same_generation(B.entries[s], old, B.entries[s].kind)
            THEN RekeyEntry(B, s, new) ELSE B
    IN  retire_obsolete(FoldLeft(Step, A, SlotOrder), new)

Rekey(p) ==
    /\ pc[p] = "rekey"
    /\ arena' = IF token[p].keep
                THEN rekey_generation(arena, view[p], token[p].meta)
                ELSE retire_obsolete(arena, token[p].meta)
    /\ token' = [token EXCEPT ![p] = NoToken]
    /\ view' = [view EXCEPT ![p] = NoView]
    /\ Goto(p, "idle")
    /\ UNCHANGED current

Next ==
    \/ \E p \in Backend :
        \/ \E r \in Rel : Open(p, r) \/ Rebuild(p, r)
        \/ \E k \in Kind : Attach(p, k) \/ ReservePayload(p, k) \/ RetireExact(p, k)
        \/ Close(p)
        \/ LeaseRelease(p) \/ LeaseRetire(p)
        \/ Decrement(p) \/ SharedCheck(p) \/ ExclusiveFree(p)
        \/ Commit(p) \/ Abort(p)
        \/ \E keep \in BOOLEAN : PublishManifest(p, keep)
        \/ ReadBack(p) \/ Rekey(p)
    \/ \E r \in Rel : AppendRoot(r)
    \/ Clear

Spec == Init /\ [][Next]_vars

-----------------------------------------------------------------------------
(* Properties. *)

Blocks == {s \in Slot : HasBlock(arena.entries[s])}

\* No two blocks of the registry overlap, and every block lies below the
\* arena's used mark: reuse, rewind and eviction never hand a unit out twice.
BlocksDisjoint ==
    \A s \in Blocks : LET e == arena.entries[s] IN
        /\ End(e) <= arena.used
        /\ e.mapped <= e.alloc
        /\ \A t \in Blocks \ {s} :
            LET f == arena.entries[t]
            IN  End(e) <= f.offset \/ End(f) <= e.offset

\* The used mark never stays above an unused block: every path that frees
\* the last block rewinds, so free arena is never stranded behind the mark.
NothingStranded ==
    arena.used > 0 =>
        \E s \in Blocks : arena.entries[s].in_use
                          /\ End(arena.entries[s]) = arena.used

Holders(s) == {p \in Backend : /\ pc[p] \in {"leased", "building", "release"}
                               /\ token[p].slot = s}

\* The reference count of an entry is the number of backends that hold it,
\* through unlocked decrements, retirement under a holder and slot reuse.
RefsExact == \A s \in Slot : arena.entries[s].ref = Cardinality(Holders(s))

\* While a backend reads or fills a payload, the bytes are its own: the slot
\* stays in use, at the same place, with the content it was taken for.
HeldStays ==
    \A p \in Backend : pc[p] \in {"leased", "building", "release"} =>
        LET e == arena.entries[token[p].slot]
        IN  /\ e.in_use
            /\ e.offset = token[p].offset
            /\ e.kind = token[p].kind
            /\ e.built = token[p].built

\* Nobody reads a payload while another backend fills it.
ReadersSeeComplete ==
    \A p, q \in Backend :
        pc[p] = "leased" /\ pc[q] = "building" => token[p].slot # token[q].slot

\* A leased resident fold was built for exactly the root the reader works
\* from; every other payload at least for its epoch of the relation.
LeaseOfOwnGeneration ==
    \A p \in Backend : pc[p] = "leased" =>
        IF kind_rekey_safe(token[p].kind)
        THEN base_identity_matches(token[p].built, view[p])
        ELSE token[p].built = view[p]

\* The hash holds exactly the live entries, each where a probe for its key
\* finds it, and no key twice: removal by backward shift, rekeying and reuse
\* never lose an entry or leave a dangling one.
HashExact ==
    LET Live == {s \in Slot : arena.entries[s].in_use
                              /\ ~arena.entries[s].obsolete}
    IN  /\ {arena.hash[b].slot : b \in Bucket} \ {0} = Live
        /\ \A s \in Live : LET e == arena.entries[s] IN
            /\ hash_lookup(arena, e.meta, e.kind) = s
            /\ Cardinality({b \in Bucket : arena.hash[b].slot = s}) = 1

\* An entry nobody holds is ready to be attached, or a backend is on its way
\* to free it: no block is leaked.
NothingLeaked ==
    \A s \in Slot : LET e == arena.entries[s] IN
        e.in_use /\ e.ref = 0 /\ ~e.ready =>
            \E p \in Backend : pc[p] \in {"check", "free"} /\ token[p].slot = s

\* What the admission status turns away, a reservation would not have taken
\* either (unless a block is just being freed): automatic preload, which
\* asks the status first, is not kept out of space it could have had.
AdmissionComplete ==
    \A p \in Backend, k \in Kind :
        /\ pc[p] = "idle" /\ view[p] # NoView
        /\ \A q \in Backend : pc[q] \notin {"check", "free"}
        /\ hash_lookup(arena, view[p], k) = 0
        /\ Admission(arena, view[p], k) # "admissible"
        => Reserve(arena, view[p], k).result = "FAILED"

=============================================================================
