---------------------------- MODULE LexiconTrie ----------------------------
(***************************************************************************)
(* The copy-on-write hash trie from the bytes of a term to its id,         *)
(* evoke_lexicon_cow.c.                                                    *)
(*                                                                         *)
(* A bucket holds entries whose hashes agree on the digits of its prefix;  *)
(* when its bytes pass a target it is split by the next digit into a node, *)
(* whose children are again buckets or nodes.  Digits run out: entries     *)
(* that still agree on all of them share a bucket of any size, ordered by  *)
(* hash and then by bytes.                                                 *)
(*                                                                         *)
(* The store, from block to object, is a parameter of every operator.  A   *)
(* tree under construction is a sequence of objects in the order of their  *)
(* ids, the blocks it retires and whether every object it loaded was sound. *)
(***************************************************************************)
EXTENDS Integers, FiniteSets, Sequences, FiniteSetsExt, SequencesExt

CONSTANTS HashFanout,   \* children of a node (EVOKE_LEXICON_COW_RADIX_FANOUT)
          HashLevels,   \* digits of a hash (EVOKE_LEXICON_COW_RADIX_LEVELS)
          HashOf,       \* the hash of each key under the seed of the index
          EntryHeader,  \* bytes of an entry besides its key
          BucketTarget  \* bytes of entries a bucket is split above

Absent == -1
Format == -2    \* EVOKE_ERR_FORMAT

-----------------------------------------------------------------------------
(* Keys are byte sequences. *)

\* memcmp over the common length, then the length.
KeyLess(a, b) ==
    LET differ == {i \in 1..Min({Len(a), Len(b)}) : a[i] # b[i]}
    IN IF differ = {} THEN Len(a) < Len(b) ELSE a[Min(differ)] < b[Min(differ)]

SortedBy(S, Less(_, _)) ==
    [i \in 1..Cardinality(S) |->
       CHOOSE x \in S : Cardinality({y \in S : Less(y, x)}) = i - 1]
Ascending(S) == SortedBy(S, <)

-----------------------------------------------------------------------------
(* Objects. *)

HashSlot(h, level) == (h \div HashFanout^level) % HashFanout
HashPrefix(h, depth) == h % HashFanout^depth
ChildPrefix(prefix, slot, depth) == prefix + slot * HashFanout^depth

EntryLess(a, b) == \/ a.hash < b.hash
                   \/ a.hash = b.hash /\ KeyLess(a.key, b.key)

TrieRefValid(ref) == /\ ref.kind \in {"node", "bucket"}
                     /\ ref.id # 0 /\ ref.owner # 0 /\ ref.block # 0

TrieObjectValid(o) ==
    LET items == o.items
    IN /\ TrieRefValid(o.ref)
       /\ items # <<>>
       /\ IF o.ref.kind = "node"
          THEN /\ o.level < HashLevels
               /\ o.prefix = HashPrefix(o.prefix, o.level)
               /\ \A i \in DOMAIN items :
                    /\ items[i].slot < HashFanout /\ items[i].n # 0
                    /\ TrieRefValid(items[i].ref)
                    /\ i > 1 => items[i - 1].slot < items[i].slot
               /\ MapThenSumSet(LAMBDA i : items[i].n, DOMAIN items) = o.n
          ELSE /\ o.level <= HashLevels
               /\ \A i \in DOMAIN items :
                    /\ HashPrefix(items[i].hash, o.level) = o.prefix
                    /\ i > 1 => EntryLess(items[i - 1], items[i])

NewTree == [objects |-> <<>>, retired |-> {}, ok |-> TRUE]
Failed(t) == [t EXCEPT !.ok = FALSE]

\* The object takes the next id; it has neither block nor owner yet.
StoreObject(t, kind, level, prefix, n, items) ==
    LET ref == [kind |-> kind, block |-> 0, id |-> Len(t.objects) + 1, owner |-> 0]
    IN [t |-> [t EXCEPT !.objects =
                 Append(@, [ref |-> ref, level |-> level, prefix |-> prefix,
                            n |-> n, items |-> items])],
        ref |-> ref]

AddRetired(t, ref) ==
    IF ref.block = 0 THEN t ELSE [t EXCEPT !.retired = @ \cup {ref.block}]

\* The object of a reference, checked against it: a block that was reused holds
\* an object with another reference.
TrieSound(st, ref) == st[ref.block].ref = ref /\ TrieObjectValid(st[ref.block])
TrieSoundAt(st, ref, level, prefix) ==
    /\ TrieSound(st, ref)
    /\ st[ref.block].level = level /\ st[ref.block].prefix = prefix

NodeFindChild(o, slot) == SelectSeq(o.items, LAMBDA c : c.slot = slot)
NodeSetChild(cs, c) ==
    SelectSeq(cs, LAMBDA x : x.slot < c.slot) \o <<c>>
      \o SelectSeq(cs, LAMBDA x : x.slot > c.slot)
BucketFindEntry(o, key) ==
    SelectSeq(o.items, LAMBDA e : e.hash = HashOf[key] /\ e.key = key)

-----------------------------------------------------------------------------
(* Building and patching. *)

BucketFits(es) ==
    MapThenSumSet(LAMBDA e : EntryHeader + Len(e.key), es) <= BucketTarget

CreateBucket(t, es, depth, prefix) ==
    StoreObject(t, "bucket", depth, prefix, Cardinality(es), SortedBy(es, EntryLess))

\* The new keys, whose ids must continue the vocabulary.
PrepareEntries(keys, first) ==
    {[key |-> keys[i], term |-> first + i - 1, hash |-> HashOf[keys[i]]] : i \in DOMAIN keys}

SlotsOf(es, depth) == Ascending({HashSlot(e.hash, depth) : e \in es})
InSlot(es, depth, slot) == {e \in es : HashSlot(e.hash, depth) = slot}

RECURSIVE BuildSubtree(_, _, _, _)
BuildSubtree(t, es, depth, prefix) ==
    IF \/ depth = HashLevels \/ BucketFits(es)
       \/ Len(SlotsOf(es, depth)) < 2 /\ depth + 1 >= HashLevels
    THEN CreateBucket(t, es, depth, prefix)
    ELSE LET children ==
               FoldLeft(LAMBDA acc, slot :
                          LET mine == InSlot(es, depth, slot)
                              sub == BuildSubtree(acc.t, mine, depth + 1,
                                                  ChildPrefix(prefix, slot, depth))
                          IN [t |-> sub.t,
                              items |-> Append(acc.items, [slot |-> slot, ref |-> sub.ref,
                                                           n |-> Cardinality(mine)])],
                        [t |-> t, items |-> <<>>], SlotsOf(es, depth))
         IN StoreObject(children.t, "node", depth, prefix, Cardinality(es), children.items)

TrieBuild(keys) == BuildSubtree(NewTree, PrepareEntries(keys, 0), 0, 0)

\* Mutant: a bucket is split by the digit above it.
PatchDepthOff(depth) == Max({depth - 1, 0})
PatchDepth(depth) == depth

\* The subtree of ref with the entries ups.  A child that already exists is
\* patched in turn, a slot that was empty is built.
RECURSIVE PatchSubtree(_, _, _, _, _, _)
PatchSubtree(st, t, ref, ups, depth, prefix) ==
    LET o == st[ref.block]
        children ==
          FoldLeft(LAMBDA acc, slot :
                     LET mine == InSlot(ups, depth, slot)
                         old == NodeFindChild(o, slot)
                         below == ChildPrefix(prefix, slot, depth)
                         sub == IF old = <<>>
                                THEN BuildSubtree(acc.t, mine, depth + 1, below)
                                ELSE PatchSubtree(st, acc.t, old[1].ref, mine, depth + 1, below)
                     IN [t |-> sub.t,
                         items |-> NodeSetChild(acc.items,
                           [slot |-> slot, ref |-> sub.ref,
                            n |-> Cardinality(mine) + IF old = <<>> THEN 0 ELSE old[1].n])],
                   [t |-> AddRetired(t, ref), items |-> o.items], SlotsOf(ups, depth))
    IN IF ~TrieSoundAt(st, ref, depth, prefix) THEN [t |-> Failed(t), ref |-> ref]
       ELSE IF o.ref.kind = "bucket"
       THEN BuildSubtree(AddRetired(t, ref), Range(o.items) \cup ups, PatchDepth(depth), prefix)
       ELSE StoreObject(children.t, "node", depth, prefix, o.n + Cardinality(ups), children.items)

-----------------------------------------------------------------------------
(* Reads from a root. *)

RECURSIVE LookupExternal(_, _, _, _, _)
LookupExternal(st, ref, key, level, prefix) ==
    LET o == st[ref.block]
        slot == HashSlot(HashOf[key], level)
        entry == BucketFindEntry(o, key)
        child == NodeFindChild(o, slot)
    IN IF ~TrieSoundAt(st, ref, level, prefix) THEN Format
       ELSE IF o.ref.kind = "bucket" THEN IF entry = <<>> THEN Absent ELSE entry[1].term
       ELSE IF child = <<>> THEN Absent
       ELSE LookupExternal(st, child[1].ref, key, level + 1, ChildPrefix(prefix, slot, level))

\* What the bytes of one object answer: an error, a term, no term, or the child
\* to follow.
ProbeSerializedObject(st, ref, level, prefix, key) ==
    LET o == st[ref.block]
    IN IF ~TrieSoundAt(st, ref, level, prefix) THEN [ok |-> FALSE, next |-> <<>>, term |-> Format]
       ELSE IF o.ref.kind = "bucket"
       THEN [ok |-> TRUE, next |-> <<>>,
             term |-> LET e == BucketFindEntry(o, key) IN IF e = <<>> THEN Absent ELSE e[1].term]
       ELSE [ok |-> TRUE, next |-> NodeFindChild(o, HashSlot(HashOf[key], level)), term |-> Absent]

\* One hop per level below the root; the loop ends in a bucket, at a missing
\* child or at an error.
LookupHop(st, key, acc, level) ==
    IF acc.next = <<>> THEN acc
    ELSE LET probe == ProbeSerializedObject(st, acc.next[1].ref, level, acc.prefix, key)
         IN [ok |-> probe.ok, next |-> probe.next, term |-> probe.term,
             prefix |-> ChildPrefix(acc.prefix, HashSlot(HashOf[key], level), level)]

\* The query path: the root object was loaded when the trie was opened.
LookupSerialized(st, root, key) ==
    LET o == st[root.block]
        entry == BucketFindEntry(o, key)
        start == [ok |-> TRUE, term |-> Absent, prefix |-> HashSlot(HashOf[key], 0),
                  next |-> NodeFindChild(o, HashSlot(HashOf[key], 0))]
    IN IF ~TrieSound(st, root) THEN Format
       ELSE IF root.kind = "bucket" THEN IF entry = <<>> THEN Absent ELSE entry[1].term
       ELSE FoldLeft(LAMBDA acc, level : LookupHop(st, key, acc, level),
                     start, [i \in 1..(HashLevels + 1) |-> i]).term

\* Every object below ref: its entries, its blocks and its number of terms.  A
\* node's counts must add up to what its children hold.
RECURSIVE TrieVisit(_, _, _, _)
TrieVisit(st, ref, level, prefix) ==
    LET o == st[ref.block]
        below == [i \in DOMAIN o.items |->
                    TrieVisit(st, o.items[i].ref, level + 1,
                              ChildPrefix(prefix, o.items[i].slot, level))]
    IN IF ~TrieSoundAt(st, ref, level, prefix) THEN [ok |-> FALSE, entries |-> {}, blocks |-> {}]
       ELSE IF o.ref.kind = "bucket"
       THEN [ok |-> \A e \in Range(o.items) : e.hash = HashOf[e.key],
             entries |-> {[key |-> e.key, term |-> e.term] : e \in Range(o.items)},
             blocks |-> {ref.block}]
       ELSE [ok |-> \A i \in DOMAIN o.items :
                      below[i].ok /\ Cardinality(below[i].entries) = o.items[i].n,
             entries |-> UNION {below[i].entries : i \in DOMAIN o.items},
             blocks |-> {ref.block} \cup UNION {below[i].blocks : i \in DOMAIN o.items}]

TrieValidate(st, root, terms) ==
    LET v == TrieVisit(st, root, 0, 0)
    IN v.ok /\ {e.term : e \in v.entries} = 0..(terms - 1) /\ Cardinality(v.entries) = terms
=============================================================================
