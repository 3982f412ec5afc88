---------------------------- MODULE DocumentTree ----------------------------
(***************************************************************************)
(* The copy-on-write radix tree of document records, evoke_document_cow.c. *)
(*                                                                         *)
(* A root reference names a tree of immutable objects: leaves of up to     *)
(* LeafRecords records and, above them, Levels levels of nodes of up to    *)
(* Fanout children.  Every reference carries a summary of the records      *)
(* below it, which the searches prune with.  A publication patches the     *)
(* paths to the records it changes, writes the new objects to free blocks, *)
(* and retires the blocks of the objects it replaced; a reader keeps the   *)
(* root it started from, and a retired block is reused only when no reader *)
(* of an older root is left (PageReclamation models that rule itself).     *)
(*                                                                         *)
(* A record keeps what the summaries tell apart: its slot, born sequence,  *)
(* length, retry time and its stage.  A PENDING record waits for the       *)
(* semantic worker, a QUARANTINED one until its retry time; a RETIRED one  *)
(* still has postings, a REUSABLE one has none; a HOLE is an aborted slot. *)
(* A block stands for the page range of one object.                        *)
(***************************************************************************)
EXTENDS Integers, SequencesExt

CONSTANTS LeafRecords, Fanout, Levels,  \* the shape of the tree
          Lengths,                      \* document lengths
          Times,                        \* retry times of a quarantine
          Stages,                       \* stages the updates of a run lead to
          Blocks,                       \* blocks of the relation
          InitialCounts,                \* slots of the tree the build writes
          MaxSlots,                     \* bound on the slots
          MaxPublications,              \* bound on the manifests
          MaxUpdates,                   \* bound on the records of one patch
          MaxReaders                    \* bound on the roots readers hold

ShapeAssumption ==
    /\ LeafRecords \in Nat \ {0} /\ Fanout \in Nat \ {0, 1}
    /\ Levels \in Nat \ {0}
    /\ MaxSlots <= LeafRecords * Fanout^Levels
    /\ InitialCounts \subseteq 0..MaxSlots

VARIABLES store,    \* the object on each block
          root,     \* the published root reference
          records,  \* the records published, by slot
          retired,  \* blocks a publication replaced, and the root that did
          held,     \* the roots of open readers with what they must see
          rejected  \* a patch of legal updates was refused

vars == <<store, root, records, retired, held, rejected>>

-----------------------------------------------------------------------------
(* Records and summaries. *)

Infinity == 1000        \* INT64_MAX and UINT64_MAX

\* A finite set of numbers, or of things with distinct slots, in ascending order.
Sorted(S) ==
    [i \in 1..Cardinality(S) |->
       CHOOSE x \in S : Cardinality({y \in S : y < x}) = i - 1]
BySlot(S) ==
    [i \in 1..Cardinality(S) |->
       CHOOSE x \in S : Cardinality({y \in S : y.slot < x.slot}) = i - 1]

MinOr(S, default) == IF S = {} THEN default ELSE Min(S)
MaxOr(S, default) == IF S = {} THEN default ELSE Max(S)

IsAborted(r) == r.stage = "HOLE"
IsLive(r) == r.stage \in {"PENDING", "QUARANTINED", "COMPLETE"}
IsReusable(r) == r.stage \in {"HOLE", "REUSABLE"}
RetryAfter(r) == IF r.stage = "PENDING" THEN 0
                 ELSE IF r.stage = "QUARANTINED" THEN r.retry ELSE Infinity
IsActionable(r, now) == RetryAfter(r) <= now

\* What a later publication may make of a record.
TransitionValid(r, next) ==
    \/ /\ next.born = r.born /\ next.len = r.len
       /\ \/ IsLive(r) /\ r.stage # "COMPLETE" /\ next.stage \in {"COMPLETE", "QUARANTINED"}
          \/ IsLive(r) /\ next.stage = "RETIRED"
          \/ r.stage = "RETIRED" /\ next.stage = "REUSABLE"
    \/ IsReusable(r) /\ next.stage = "PENDING" /\ next.born > r.born

LeafSummary(rs) ==
    LET all == Range(rs)
        live == {r \in all : IsLive(r)}
        bounded == {r \in all : ~IsAborted(r)}
        reusable == {r \in all : IsReusable(r)}
        pending == {r \in all : RetryAfter(r) # Infinity}
    IN [first |-> rs[1].slot, count |-> Len(rs),
        live |-> Cardinality(live),
        minBorn |-> MinOr({r.born : r \in live}, Infinity),
        pending |-> Cardinality(pending),
        earliest |-> MinOr({RetryAfter(r) : r \in pending}, Infinity),
        bounded |-> Cardinality(bounded),
        minLen |-> MinOr({r.len : r \in bounded}, 0),
        maxLen |-> MaxOr({r.len : r \in bounded}, 0),
        reusable |-> Cardinality(reusable),
        firstReusable |-> MinOr({r.slot : r \in reusable}, Infinity)]

NodeSummary(cs) ==
    LET sums == {c.ref.sum : c \in Range(cs)}
        bounded == {s \in sums : s.bounded # 0}
        Total(F(_)) == FoldLeft(LAMBDA n, c : n + F(c.ref.sum), 0, cs)
    IN [first |-> IF cs = <<>> THEN 0 ELSE cs[1].ref.sum.first,
        count |-> Total(LAMBDA s : s.count),
        live |-> Total(LAMBDA s : s.live),
        minBorn |-> MinOr({s.minBorn : s \in sums}, Infinity),
        pending |-> Total(LAMBDA s : s.pending),
        earliest |-> MinOr({s.earliest : s \in sums}, Infinity),
        bounded |-> Total(LAMBDA s : s.bounded),
        minLen |-> MinOr({s.minLen : s \in bounded}, 0),
        maxLen |-> MaxOr({s.maxLen : s \in bounded}, 0),
        reusable |-> Total(LAMBDA s : s.reusable),
        firstReusable |-> MinOr({s.firstReusable : s \in sums}, Infinity)]

\* The bounds evoke_document_cow_ref_validate puts on a summary.
RefValid(ref) ==
    LET s == ref.sum
    IN /\ ref.id # 0 /\ ref.owner # 0
       /\ s.live + s.reusable <= s.count
       /\ s.bounded <= s.count
       /\ s.pending <= s.live
       /\ (s.pending = 0) = (s.earliest = Infinity)
       /\ s.bounded = 0 => s.minLen = 0 /\ s.maxLen = 0
       /\ s.minLen <= s.maxLen
       /\ s.reusable = 0 => s.firstReusable = Infinity
       /\ s.reusable # 0 => s.firstReusable \in s.first..(s.first + s.count - 1)
       /\ (s.live = 0) = (s.minBorn = Infinity)

-----------------------------------------------------------------------------
(* Objects.  A leaf's key is its first slot and its items are records, a   *)
(* node's key is its prefix and its items are children.                    *)

Leaf == -1              \* the level of a leaf

Object(level, key, items, owner) ==
    [ref |-> [block |-> 0, leaf |-> level = Leaf, id |-> 0, owner |-> owner,
              sum |-> IF level = Leaf THEN LeafSummary(items)
                                      ELSE NodeSummary(items)],
     level |-> level, key |-> key, items |-> items]

NoObject == Object(Levels - 1, 0, <<>>, 0)

Ascending(cs) == \A i \in 2..Len(cs) : cs[i - 1].slot < cs[i].slot

ObjectValid(o) ==
    /\ RefValid(o.ref)
    /\ IF o.ref.leaf
       THEN /\ Len(o.items) \in 1..LeafRecords
            /\ o.key % LeafRecords = 0
            /\ \A i \in DOMAIN o.items : o.items[i].slot = o.key + i - 1
            /\ o.ref.sum = LeafSummary(o.items)
       ELSE /\ o.level < Levels /\ Len(o.items) <= Fanout
            /\ o.level # Levels - 1 => o.items # <<>>
            /\ Ascending(o.items)
            /\ \A i \in DOMAIN o.items :
                 /\ o.items[i].slot < Fanout
                 /\ RefValid(o.items[i].ref)
                 /\ o.items[i].ref.leaf = (o.level = 0)
            /\ o.ref.sum = NodeSummary(o.items)

\* What the loader and the checks behind it return for a reference: a block
\* that was reused holds an object with another reference.
Load(ref) == store[ref.block]
Sound(ref, level) ==
    /\ Load(ref).ref = ref
    /\ ObjectValid(Load(ref))
    /\ Load(ref).level = level

RefEnd(ref) == ref.sum.first + ref.sum.count

\* The tree under construction: objects in the order of their ids.
EmptyTree(owner) == [owner |-> owner, objects |-> <<>>, retired |-> {}, ok |-> TRUE]

AppendObject(t, o) ==
    LET bound == [o EXCEPT !.ref.id = Len(t.objects) + 1]
    IN [t EXCEPT !.objects = Append(@, bound)]

LastRef(t) == Last(t.objects).ref

AddRetiredRef(t, ref) == [t EXCEPT !.retired = @ \cup {ref.block}]

TreeValid(t) ==
    /\ \A i \in DOMAIN t.objects : ObjectValid(t.objects[i])
    /\ LastRef(t).leaf = FALSE /\ Last(t.objects).level = Levels - 1

-----------------------------------------------------------------------------
(* Building and patching. *)

ChildSlot(slot, level) == ((slot \div LeafRecords) \div Fanout^level) % Fanout

\* The runs of sorted records that fall under one child.
ChildSlots(rs, level) ==
    Sorted({ChildSlot(r.slot, level) : r \in Range(rs)})
Under(rs, level, cs) == SelectSeq(rs, LAMBDA r : ChildSlot(r.slot, level) = cs)

BuildLeaf(t, rs) == AppendObject(t, Object(Leaf, rs[1].slot, rs, t.owner))

\* One more child for a node in the making.
WithChild(acc, cs, t) ==
    [t |-> t, items |-> Append(acc.items, [slot |-> cs, ref |-> LastRef(t)])]
BuiltNode(acc, level, prefix) ==
    AppendObject(acc.t, Object(level, prefix, acc.items, acc.t.owner))

RECURSIVE BuildLevel(_, _, _)
BuildLevel(t, level, rs) ==
    LET Child(u, part) == IF level = 0 THEN BuildLeaf(u, part)
                                       ELSE BuildLevel(u, level - 1, part)
        Step(acc, cs) == WithChild(acc, cs, Child(acc.t, Under(rs, level, cs)))
        prefix == IF rs = <<>> THEN 0
                  ELSE (rs[1].slot \div LeafRecords) \div Fanout^(level + 1)
    IN BuiltNode(FoldLeft(Step, [t |-> t, items |-> <<>>], ChildSlots(rs, level)),
                 level, prefix)

BuildTree(rs, owner) == BuildLevel(EmptyTree(owner), Levels - 1, rs)

\* The leaf's records with the updates laid over them; an update past the end
\* appends.
PatchedRecords(o, ups) ==
    FoldLeft(LAMBDA rs, u : LET at == u.slot - o.key + 1
                            IN IF at > Len(rs) THEN Append(rs, u)
                                               ELSE [rs EXCEPT ![at] = u],
             o.items, ups)

\* Mutant: the replaced leaf keeps its block.
PatchLeafLeak(t, ref, ups) ==
    IF ~Sound(ref, Leaf) THEN [t EXCEPT !.ok = FALSE]
    ELSE AppendObject(t, Object(Leaf, Load(ref).key,
                                PatchedRecords(Load(ref), ups), t.owner))

PatchLeaf(t, ref, ups) ==
    LET o == Load(ref)
        legal == \A i \in DOMAIN ups :
                   LET at == ups[i].slot - o.key + 1
                   IN /\ at >= 1 /\ at <= LeafRecords
                      /\ at <= Len(o.items) =>
                           TransitionValid(o.items[at], ups[i])
    IN IF ~Sound(ref, Leaf) \/ ~legal THEN [t EXCEPT !.ok = FALSE]
       ELSE AppendObject(AddRetiredRef(t, ref),
                         Object(Leaf, o.key, PatchedRecords(o, ups), t.owner))

InsertChild(items, child) ==
    LET others == {c \in Range(items) : c.slot # child.slot}
    IN BySlot(others \cup {child})

WithPatched(acc, cs, t) ==
    IF ~acc.t.ok \/ ~t.ok THEN [acc EXCEPT !.t.ok = FALSE]
    ELSE [t |-> t, items |-> InsertChild(acc.items, [slot |-> cs, ref |-> LastRef(t)])]
PatchedNode(acc, level, prefix) ==
    IF ~acc.t.ok THEN acc.t ELSE BuiltNode(acc, level, prefix)

\* A child for slots appended to the tree, which must not be old ones.
BuildChild(t, level, oldCount, ups) ==
    IF ups[1].slot < oldCount THEN [t EXCEPT !.ok = FALSE]
    ELSE IF level = 0 THEN BuildLeaf(t, ups)
    ELSE BuildLevel(t, level - 1, ups)

RECURSIVE PatchLevel(_, _, _, _, _)
PatchLevel(t, ref, level, oldCount, ups) ==
    LET PatchChild(u, old, part) ==
          IF old = <<>> THEN BuildChild(u, level, oldCount, part)
          ELSE IF level = 0 THEN PatchLeaf(u, old[1].ref, part)
          ELSE PatchLevel(u, old[1].ref, level - 1, oldCount, part)
        Step(acc, cs) ==
          WithPatched(acc, cs,
            PatchChild(acc.t, SelectSeq(Load(ref).items, LAMBDA c : c.slot = cs),
                       Under(ups, level, cs)))
    IN IF ~Sound(ref, level) THEN [t EXCEPT !.ok = FALSE]
       ELSE PatchedNode(FoldLeft(Step, [t |-> AddRetiredRef(t, ref),
                                        items |-> Load(ref).items],
                                 ChildSlots(ups, level)),
                        level, Load(ref).key)

CheckedPatch(t, ref, nextCount) ==
    [t EXCEPT !.ok = /\ @
                     /\ t.owner > ref.owner
                     /\ LastRef(t).sum.count = nextCount
                     /\ TreeValid(t)]

\* ups is sorted by slot and appends are contiguous.
BuildPatch(ref, oldCount, nextCount, ups, owner) ==
    CheckedPatch(PatchLevel(EmptyTree(owner), ref, Levels - 1, oldCount, ups),
                 ref, nextCount)

\* Objects are stored in the order of their ids, children first, and a parent
\* takes the blocks of the children written with it.
BoundRef(ref, owner, blocks) ==
    IF ref.owner = owner THEN [ref EXCEPT !.block = blocks[ref.id]] ELSE ref

WriteTree(t, blocks) ==
    [i \in DOMAIN t.objects |->
       LET o == t.objects[i]
           items == IF o.ref.leaf THEN o.items
                    ELSE [j \in DOMAIN o.items |->
                            [o.items[j] EXCEPT !.ref = BoundRef(@, t.owner, blocks)]]
       IN [o EXCEPT !.ref.block = blocks[i], !.items = items]]

-----------------------------------------------------------------------------
(* Reads from a root. *)

Bad == [stage |-> "FORMAT"]     \* EVOKE_ERR_FORMAT

RECURSIVE LookupFrom(_, _, _)
LookupFrom(ref, level, slot) ==
    IF ~Sound(ref, level) THEN Bad
    ELSE IF level = Leaf
    THEN LET at == slot - Load(ref).key + 1
         IN IF at \in DOMAIN Load(ref).items THEN Load(ref).items[at] ELSE Bad
    ELSE LET here == SelectSeq(Load(ref).items,
                               LAMBDA c : c.slot = ChildSlot(slot, level))
         IN IF here = <<>> THEN Bad ELSE LookupFrom(here[1].ref, level - 1, slot)

Lookup(ref, slot) == LookupFrom(ref, Levels - 1, slot)

Overlaps(ref, first, end) == ref.sum.first < end /\ RefEnd(ref) > first

\* The records of [first, end) in order; a leaf must continue where the last
\* one stopped, and a child must cover slots of its own digit only.
RECURSIVE ReadRangeRef(_, _, _, _, _)
ReadRangeRef(out, ref, level, first, end) ==
    LET o == Load(ref)
        from == Max({o.key, first})
        to == Min({o.key + Len(o.items), end})
        Step(acc, c) ==
          IF acc = <<Bad>> \/ ~Overlaps(c.ref, first, end) THEN acc
          ELSE IF \/ c.slot # ChildSlot(c.ref.sum.first, level)
                  \/ c.slot # ChildSlot(RefEnd(c.ref) - 1, level)
          THEN <<Bad>>
          ELSE ReadRangeRef(acc, c.ref, level - 1, first, end)
    IN IF ~Overlaps(ref, first, end) \/ ~Sound(ref, level) THEN <<Bad>>
       ELSE IF level # Leaf THEN FoldLeft(Step, out, o.items)
       ELSE IF from >= to \/ from # first + Len(out) THEN <<Bad>>
       ELSE out \o SubSeq(o.items, from - o.key + 1, to - o.key)

ReadRange(ref, first, end) ==
    LET out == ReadRangeRef(<<>>, ref, Levels - 1, first, end)
    IN IF Len(out) = end - first THEN out ELSE <<Bad>>

\* The whole tree, which validation and the page walk visit: every object's
\* prefix and every leaf's extent, then no object twice.
RECURSIVE WalkRef(_, _, _, _, _)
WalkRef(walk, ref, level, prefix, count) ==
    LET o == Load(ref)
        seen == [walk EXCEPT !.visited = Append(@, ref)]
        Step(acc, c) == IF ~acc.ok THEN acc
                        ELSE WalkRef(acc, c.ref, level - 1, prefix * Fanout + c.slot, count)
        base == prefix * LeafRecords
        expected == Min({LeafRecords, count - base})
    IN IF ref.owner > walk.owner \/ ~Sound(ref, level) THEN [walk EXCEPT !.ok = FALSE]
       ELSE IF level # Leaf
       THEN IF o.key # prefix THEN [walk EXCEPT !.ok = FALSE]
            ELSE FoldLeft(Step, seen, o.items)
       ELSE IF \/ base >= count \/ o.key # base \/ base # walk.next
               \/ Len(o.items) # expected
            THEN [walk EXCEPT !.ok = FALSE]
            ELSE [seen EXCEPT !.next = @ + expected]

Walk(ref, count) ==
    LET w == WalkRef([visited |-> <<>>, next |-> 0, ok |-> TRUE, owner |-> ref.owner],
                     ref, Levels - 1, 0, count)
        unique == \A i, j \in DOMAIN w.visited :
                    i # j => /\ w.visited[i].block # w.visited[j].block
                             /\ <<w.visited[i].owner, w.visited[i].id>>
                                  # <<w.visited[j].owner, w.visited[j].id>>
    IN [w EXCEPT !.ok = w.ok /\ w.next = count /\ unique]

Reachable(ref, count) == {v.block : v \in Range(Walk(ref, count).visited)}

-----------------------------------------------------------------------------
(* Searches that prune with the summaries.  Each returns the empty set or  *)
(* the record found.                                                       *)

FirstOf(rs) == IF rs = <<>> THEN {} ELSE {rs[1]}

RECURSIVE FindActionableRef(_, _, _, _)
FindActionableRef(ref, level, from, now) ==
    IF ref.sum.pending = 0 \/ ref.sum.earliest > now \/ RefEnd(ref) <= from THEN {}
    ELSE IF ~Sound(ref, level) THEN {Bad}
    ELSE LET Step(found, c) ==
               IF found # {} THEN found ELSE FindActionableRef(c.ref, level - 1, from, now)
             found == IF level = Leaf
                      THEN FirstOf(SelectSeq(Load(ref).items, LAMBDA r :
                                     r.slot >= from /\ IsActionable(r, now)))
                      ELSE FoldLeft(Step, {}, Load(ref).items)
         IN IF found = {} /\ from <= ref.sum.first THEN {Bad} ELSE found

FindActionable(ref, count, from, now) ==
    IF from = count THEN {} ELSE FindActionableRef(ref, Levels - 1, from, now)

RECURSIVE FindReusableRef(_, _, _)
FindReusableRef(ref, level, from) ==
    IF ref.sum.reusable = 0 \/ RefEnd(ref) <= from THEN {}
    ELSE IF ~Sound(ref, level) THEN {Bad}
    ELSE IF level = Leaf
    THEN FirstOf(SelectSeq(Load(ref).items, LAMBDA r : r.slot >= from /\ IsReusable(r)))
    ELSE FoldLeft(LAMBDA found, c : IF found # {} THEN found
                                    ELSE FindReusableRef(c.ref, level - 1, from),
                  {}, Load(ref).items)

\* Mutant: a tree whose first reusable slot lies before the start is skipped.
FindReusableSkip(ref, count, from) ==
    IF from = count \/ ref.sum.firstReusable < from THEN {}
    ELSE FindReusableRef(ref, Levels - 1, from)

FindReusable(ref, count, from) ==
    IF from = count THEN {} ELSE FindReusableRef(ref, Levels - 1, from)

\* The oldest live records in the order of their born sequences, best first
\* over a heap of references (kind 0) and records (kind 1).
RefItem(ref) == [born |-> ref.sum.minBorn, kind |-> 0, slot |-> ref.sum.first,
                 level |-> IF ref.leaf THEN Leaf ELSE Load(ref).level, of |-> ref]
RecordItem(r) == [born |-> r.born, kind |-> 1, slot |-> r.slot, level |-> Leaf, of |-> r]

Precedes(x, y) ==
    \/ x.born < y.born
    \/ x.born = y.born /\ x.kind < y.kind
    \/ x.born = y.born /\ x.kind = y.kind /\ x.slot < y.slot

Expanded(ref) ==
    IF ref.leaf THEN {RecordItem(r) : r \in {r \in Range(Load(ref).items) : IsLive(r)}}
    ELSE {RefItem(c.ref) : c \in {c \in Range(Load(ref).items) : c.ref.sum.live # 0}}

\* wanted holds the slots the caller's predicate accepts.
RECURSIVE CollectBorn(_, _, _, _, _, _)
CollectBorn(heap, out, last, target, all, wanted) ==
    IF Len(out) = target THEN out
    ELSE IF heap = {} THEN IF all THEN <<Bad>> ELSE out
    ELSE LET top == CHOOSE x \in heap : \A y \in heap \ {x} : Precedes(x, y)
             rest == heap \ {top}
         IN IF top.kind = 0
            THEN IF ~Sound(top.of, top.level) THEN <<Bad>>
                 ELSE CollectBorn(rest \cup Expanded(top.of), out, last, target, all, wanted)
            ELSE IF last # <<>> /\ ( \/ top.born < last[1]
                                     \/ top.born = last[1] /\ top.slot <= last[2])
            THEN <<Bad>>
            ELSE CollectBorn(rest,
                             IF top.slot \in wanted THEN Append(out, top.of) ELSE out,
                             <<top.born, top.slot>>, target, all, wanted)

BornPrefix(ref, limit, all, wanted) ==
    LET target == Min({limit, ref.sum.live})
    IN IF target = 0 THEN <<>>
       ELSE CollectBorn({RefItem(ref)}, <<>>, <<>>, target, all, wanted)

NoExtrema == [docs |-> 0, minLen |-> 0, maxLen |-> 0]

LengthAdd(x, docs, minLen, maxLen) ==
    IF docs = 0 THEN x
    ELSE IF x.docs = 0 THEN [docs |-> docs, minLen |-> minLen, maxLen |-> maxLen]
    ELSE [docs |-> x.docs + docs, minLen |-> Min({x.minLen, minLen}),
          maxLen |-> Max({x.maxLen, maxLen})]

LengthAddRef(x, ref) == LengthAdd(x, ref.sum.bounded, ref.sum.minLen, ref.sum.maxLen)

BadExtrema == [docs |-> -1, minLen |-> 0, maxLen |-> 0]

\* Length bounds of the slots in [first, end); a summary is used where the
\* range covers all of its slots.
RECURSIVE LengthWalk(_, _, _, _, _)
LengthWalk(x, ref, level, first, end) ==
    IF RefEnd(ref) <= first \/ ref.sum.first >= end THEN x
    ELSE IF level # Levels - 1 /\ first <= ref.sum.first /\ RefEnd(ref) <= end
    THEN LengthAddRef(x, ref)
    ELSE IF ~Sound(ref, level) THEN BadExtrema
    ELSE IF first <= ref.sum.first /\ RefEnd(ref) <= end THEN LengthAddRef(x, ref)
    ELSE IF level # Leaf
    THEN FoldLeft(LAMBDA y, c : IF y = BadExtrema THEN y
                                ELSE LengthWalk(y, c.ref, level - 1, first, end),
                  x, Load(ref).items)
    ELSE FoldLeft(LAMBDA y, r : IF r.slot < first \/ r.slot >= end \/ IsAborted(r) THEN y
                                ELSE LengthAdd(y, 1, r.len, r.len),
                  x, Load(ref).items)

LengthExtrema(ref, first, end) == LengthWalk(NoExtrema, ref, Levels - 1, first, end)

\* The same bounds for every block of 2^shift slots in one walk.
RECURSIVE BlockWalk(_, _, _, _)
BlockWalk(xs, ref, level, size) ==
    LET firstBlock == ref.sum.first \div size
        lastBlock == (RefEnd(ref) - 1) \div size
        Add(ys, r) == IF IsAborted(r) THEN ys
                      ELSE [ys EXCEPT ![r.slot \div size] = LengthAdd(@, 1, r.len, r.len)]
    IN IF 0 \notin DOMAIN xs \/ lastBlock \notin DOMAIN xs THEN <<>>
       ELSE IF level # Levels - 1 /\ firstBlock = lastBlock
       THEN [xs EXCEPT ![firstBlock] = LengthAddRef(@, ref)]
       ELSE IF ~Sound(ref, level) THEN <<>>
       ELSE IF firstBlock = lastBlock
       THEN [xs EXCEPT ![firstBlock] = LengthAddRef(@, ref)]
       ELSE IF level # Leaf
       THEN FoldLeft(LAMBDA ys, c : BlockWalk(ys, c.ref, level - 1, size), xs, Load(ref).items)
       ELSE FoldLeft(Add, xs, Load(ref).items)

BlockExtrema(ref, count, size) ==
    LET blocks == (count + size - 1) \div size
        xs == BlockWalk([b \in 0..(blocks - 1) |-> NoExtrema], ref, Levels - 1, size)
        docs == FoldFunction(LAMBDA x, n : x.docs + n, 0, xs)
    IN IF docs = ref.sum.bounded THEN xs ELSE <<>>

-----------------------------------------------------------------------------
(* Publication, readers and reuse. *)

Slots == 0..(Len(records) - 1)
RecordAt(slot) == records[slot + 1]

FreeBlocks == {b \in Blocks : store[b] = NoObject}
Lowest(n) == SubSeq(Sorted(FreeBlocks), 1, n)

Stored(t, blocks) ==
    LET written == WriteTree(t, blocks)
    IN [b \in Blocks |-> IF \E i \in DOMAIN blocks : blocks[i] = b
                         THEN written[CHOOSE i \in DOMAIN blocks : blocks[i] = b]
                         ELSE store[b]]

Fresh(slot, born) ==
    [slot |-> slot, born |-> born, len |-> 1 + (slot % Cardinality(Lengths)),
     stage |-> "PENDING", retry |-> 0]

\* What an update makes of a record; published under the given sequence.
Target == [stage : Stages \ {"QUARANTINED", "PENDING"}, n : {0}]
            \cup [stage : Stages \cap {"QUARANTINED"}, n : Times]
            \cup [stage : Stages \cap {"PENDING"}, n : Lengths]

Updated(slot, target, owner) ==
    IF target.stage \in {"PENDING", "HOLE"}
    THEN [slot |-> slot, born |-> owner, len |-> target.n, stage |-> target.stage, retry |-> 0]
    ELSE [RecordAt(slot) EXCEPT !.stage = target.stage, !.retry = target.n]

Init ==
    \E n \in InitialCounts :
      LET rs == [i \in 1..n |-> Fresh(i - 1, 1)]
          t == BuildTree(rs, 1)
          blocks == [i \in DOMAIN t.objects |-> i]
          written == WriteTree(t, blocks)
      IN /\ records = rs
         /\ store = [b \in Blocks |-> IF b \in DOMAIN written THEN written[b] ELSE NoObject]
         /\ root = Last(written).ref
         /\ retired = {} /\ held = {} /\ rejected = FALSE

\* Appended slots are new versions or holes; an existing slot takes a legal
\* transition.
LegalTarget(slot, target) ==
    IF slot \in Slots
    THEN TransitionValid(RecordAt(slot), Updated(slot, target, root.owner + 1))
    ELSE target.stage \in {"PENDING", "HOLE"}

Install(t, ups, count, blocks) ==
    /\ store' = Stored(t, blocks)
    /\ root' = BoundRef(LastRef(t), t.owner, blocks)
    /\ records' = [i \in 1..count |->
                     IF \E u \in ups : u.slot = i - 1
                     THEN CHOOSE u \in ups : u.slot = i - 1 ELSE records[i]]
    /\ retired' = retired \cup {[block |-> b, owner |-> t.owner] : b \in t.retired}
    /\ UNCHANGED rejected

Publish(slots, target) ==
    /\ root.owner < MaxPublications
    /\ \A s \in slots : LegalTarget(s, target[s])
    /\ \E ups \in {{Updated(s, target[s], root.owner + 1) : s \in slots}} :
       \E count \in {Len(records) + Cardinality(slots \ Slots)} :
       \E t \in {BuildPatch(root, Len(records), count, BySlot(ups), root.owner + 1)} :
         IF t.ok
         THEN /\ Len(t.objects) <= Cardinality(FreeBlocks)
              /\ Install(t, ups, count, Lowest(Len(t.objects)))
         ELSE rejected' = TRUE /\ UNCHANGED <<store, root, records, retired>>
    /\ UNCHANGED held

OpenReader ==
    /\ Cardinality(held) < MaxReaders
    /\ held' = held \cup {[root |-> root, records |-> records]}
    /\ held' # held
    /\ UNCHANGED <<store, root, records, retired, rejected>>

CloseReader(r) ==
    /\ held' = held \ {r}
    /\ UNCHANGED <<store, root, records, retired, rejected>>

\* A retired block is reused once no reader of an older root is left.
Reclaim ==
    LET old == {x \in retired : \A r \in held : r.root.owner >= x.owner}
    IN /\ old # {}
       /\ store' = [b \in Blocks |-> IF \E x \in old : x.block = b THEN NoObject ELSE store[b]]
       /\ retired' = retired \ old
       /\ UNCHANGED <<root, records, held, rejected>>

SlotSets ==
    {S \cup T : S \in {S \in SUBSET Slots : Cardinality(S) <= MaxUpdates},
                T \in {Len(records)..(n - 1) : n \in Len(records)..MaxSlots}}

Next ==
    \/ \E slots \in {S \in SlotSets : Cardinality(S) \in 1..MaxUpdates} :
         \E target \in [slots -> Target] : Publish(slots, target)
    \/ OpenReader
    \/ \E r \in held : CloseReader(r)
    \/ Reclaim

Spec == Init /\ [][Next]_vars

-----------------------------------------------------------------------------
(* Properties. *)

\* Every root anybody may read from, with the records it was published with.
Snapshots == held \cup {[root |-> root, records |-> records]}

\* The published root counts the slots, blocks hold whole objects, and no
\* reader is newer than the published root.
TypeOK ==
    /\ root.block \in Blocks /\ root.owner \in 1..MaxPublications
    /\ root.sum.count = Len(records)
    /\ \A b \in Blocks : store[b] = NoObject \/ store[b].ref.block = b
    /\ \A x \in retired : x.block \in Blocks /\ x.owner <= root.owner
    /\ \A r \in held : r.root.owner <= root.owner
    /\ rejected \in BOOLEAN

\* A root keeps answering with the records it was published with, whatever
\* later patches wrote and whatever blocks were reused: point lookups and range
\* reads of evoke_document_cow.c never raise EVOKE_ERR_FORMAT.
SnapshotReads ==
    \A s \in Snapshots :
      LET n == Len(s.records)
      IN /\ \A slot \in 0..(n - 1) : Lookup(s.root, slot) = s.records[slot + 1]
         /\ \A first \in 0..(n - 1) : \A end \in (first + 1)..n :
              ReadRange(s.root, first, end) = SubSeq(s.records, first + 1, end)
         /\ Walk(s.root, n).ok

RefActionable(rs, from, now) ==
    FirstOf(SelectSeq(rs, LAMBDA r : r.slot >= from /\ IsActionable(r, now)))
RefReusable(rs, from) ==
    FirstOf(SelectSeq(rs, LAMBDA r : r.slot >= from /\ IsReusable(r)))
RefBorn(rs, limit, wanted) ==
    LET all == {r \in Range(rs) : IsLive(r) /\ r.slot \in wanted}
        Before(r) == {q \in all : q.born < r.born \/ (q.born = r.born /\ q.slot < r.slot)}
    IN [i \in 1..Min({limit, Cardinality(all)}) |->
          CHOOSE r \in all : Cardinality(Before(r)) = i - 1]

\* The searches that skip subtrees by their summaries find the first actionable
\* and the first reusable record from any slot, and the oldest live records in
\* born order, exactly as a scan of all records would.
SearchesExact ==
    \A s \in Snapshots :
      LET n == Len(s.records)
          even == {i \in 0..MaxSlots : i % 2 = 0}
      IN /\ \A from \in 0..n :
              /\ \A now \in {0} \cup Times :
                   FindActionable(s.root, n, from, now) = RefActionable(s.records, from, now)
              /\ FindReusable(s.root, n, from) = RefReusable(s.records, from)
         /\ n > 0 => \A limit \in 0..n :
              /\ BornPrefix(s.root, limit, TRUE, 0..MaxSlots)
                   = RefBorn(s.records, limit, 0..MaxSlots)
              /\ BornPrefix(s.root, limit, FALSE, even) = RefBorn(s.records, limit, even)

RefExtrema(rs, first, end) ==
    FoldLeft(LAMBDA x, r : IF r.slot < first \/ r.slot >= end \/ IsAborted(r) THEN x
                           ELSE LengthAdd(x, 1, r.len, r.len), NoExtrema, rs)

\* Length bounds of every slot range and of every block agree with the records:
\* block-max pruning scores with them.
ExtremaExact ==
    \A s \in Snapshots :
      LET n == Len(s.records)
      IN /\ \A first \in 0..(n - 1) : \A end \in (first + 1)..n :
              LengthExtrema(s.root, first, end) = RefExtrema(s.records, first, end)
         /\ n > 0 => \A size \in {2, 4} :
              BlockExtrema(s.root, n, size) =
                [b \in 0..((n - 1) \div size) |->
                   RefExtrema(s.records, b * size, (b + 1) * size)]

\* Every allocated block is reachable from the published root or retired, never
\* both: a patch retires exactly the objects it replaced.
NoBlockLeaked ==
    LET live == Reachable(root, Len(records))
        gone == {x.block : x \in retired}
    IN /\ live \cap gone = {}
       /\ live \cup gone = Blocks \ FreeBlocks

\* The patch of legal updates is never refused by the checks of
\* evoke_document_cow_build_external_patch.
PatchAccepted == ~rejected
=============================================================================
