------------------------------ MODULE TermTree ------------------------------
(***************************************************************************)
(* The sparse copy-on-write radix tree of the term directory,              *)
(* evoke_term_cow.c and its page store in evoke_segment_pages.c.           *)
(*                                                                         *)
(* A leaf holds the records of LeafTerms consecutive terms, and Levels     *)
(* levels of nodes above it have up to Fanout children each.  A leaf that  *)
(* would only hold empty records is not stored: a missing path stands for  *)
(* them.  A child carries the largest extent count below it, by which      *)
(* maintenance finds the first term under pressure without reading the     *)
(* directory.  A publication loads the leaves it changes, appends the new  *)
(* leaves and then their paths, level by level, and retires the blocks of  *)
(* the objects it loaded; readers keep the root they started from.         *)
(*                                                                         *)
(* A record keeps its extent count, its folds and the owner of its lexical *)
(* catalog (TermFolds models what the extents and folds hold).  A block    *)
(* stands for the page range of one object.                                *)
(***************************************************************************)
EXTENDS Integers, FiniteSets, Sequences, FiniteSetsExt, SequencesExt

CONSTANTS LeafTerms, Fanout, Levels,  \* the shape of the tree
          MaxExtents,                 \* extents of a record
          Catalogued,                 \* the vocabulary is text, with a catalog
          Blocks,                     \* blocks of the relation
          InitialVocabs,              \* vocabulary the build writes
          InitialRuns,                \* terms of it that have postings
          MaxVocab,                   \* bound on the vocabulary
          MaxPublications,            \* bound on the manifests
          MaxRuns,                    \* bound on the terms of one patch
          MaxReaders                  \* bound on the roots readers hold

TermTreeAssumption ==
    /\ {LeafTerms, Levels, MaxExtents} \subseteq Nat \ {0}
    /\ Fanout \in Nat \ {0, 1}
    /\ Catalogued \in BOOLEAN
    /\ MaxVocab <= LeafTerms * Fanout^Levels
    /\ InitialVocabs \subseteq 0..MaxVocab

VARIABLES store,    \* the object on each block
          root,     \* the published root reference
          records,  \* the records published, from term 0
          retired,  \* blocks a publication replaced, and the root that did
          held,     \* the roots of open readers with what they must see
          rejected  \* a patch of legal updates was refused

vars == <<store, root, records, retired, held, rejected>>

-----------------------------------------------------------------------------
(* Objects.  A leaf's key is its first term and its items are records; a   *)
(* node's key is its prefix and its items are children [slot, max, ref].   *)

Leaf == -1              \* the level of a leaf

EmptyRecord(t) == [term |-> t, n |-> 0, fold |-> "none", cat |-> 0]

MaxOf(S) == IF S = {} THEN 0 ELSE Max(S)
LeafMax(rs) == MaxOf({r.n : r \in Range(rs)})
NodeMax(cs) == MaxOf({c.max : c \in Range(cs)})

Object(level, key, items) ==
    [ref |-> [block |-> 0, leaf |-> level = Leaf, id |-> 0, owner |-> 0],
     level |-> level, key |-> key, items |-> items]
NoObject == Object(Levels - 1, 0, <<>>)

RefValid(ref) == ref.id # 0 /\ ref.owner # 0 /\ ref.block # 0

ObjectValid(o) ==
    /\ RefValid(o.ref)
    /\ IF o.ref.leaf
       THEN /\ o.key % LeafTerms = 0
            /\ Len(o.items) \in 1..LeafTerms
            /\ \A i \in DOMAIN o.items : /\ o.items[i].term = o.key + i - 1
                                         /\ o.items[i].n <= MaxExtents
       ELSE /\ o.level < Levels /\ Len(o.items) <= Fanout
            /\ \A i \in DOMAIN o.items :
                 LET c == o.items[i]
                 IN /\ c.slot < Fanout /\ c.max <= MaxExtents
                    /\ RefValid(c.ref) /\ c.ref.leaf = (o.level = 0)
                    /\ \/ c.ref.owner < o.ref.owner
                       \/ c.ref.owner = o.ref.owner /\ c.ref.id < o.ref.id
                    /\ i > 1 => o.items[i - 1].slot < c.slot

PathSlot(li, level) == (li \div Fanout^level) % Fanout
PathPrefix(li, level) == li \div Fanout^(level + 1)

\* What the loader and the checks behind it accept for a reference: a block
\* that was reused holds an object with another reference.
Load(ref) == store[ref.block]
Sound(ref, level, key) ==
    /\ Load(ref).ref = ref
    /\ ObjectValid(Load(ref))
    /\ Load(ref).level = level /\ Load(ref).key = key

NodeChild(o, slot) == SelectSeq(o.items, LAMBDA c : c.slot = slot)

\* Children in slot order with one set.
NodeSetChild(cs, c) ==
    SelectSeq(cs, LAMBDA x : x.slot < c.slot) \o <<c>>
      \o SelectSeq(cs, LAMBDA x : x.slot > c.slot)

Sorted(S) == [i \in 1..Cardinality(S) |->
                CHOOSE x \in S : Cardinality({y \in S : y < x}) = i - 1]
Downwards == [i \in 1..Levels |-> Levels - i]
Upwards == [i \in 1..Levels |-> i - 1]

-----------------------------------------------------------------------------
(* Building and patching.  A tree under construction is the sequence of    *)
(* its objects, in the order of their ids, and the blocks it retires.      *)

LeafCount(vocab) == (vocab + LeafTerms - 1) \div LeafTerms
Expected(base, vocab) == Min({LeafTerms, vocab - base})

\* A leaf of the flat directory of a build.
LeafFromFlat(rs, li) == SubSeq(rs, li * LeafTerms + 1,
                               li * LeafTerms + Expected(li * LeafTerms, Len(rs)))
IsStored(rs, li) == Catalogued \/ \E r \in Range(LeafFromFlat(rs, li)) : r.n # 0

\* The path a patch follows to a leaf: one entry per level, the reference that
\* leads to it or none, and whether what it found is sound.
PathStep(li, acc, level) ==
    IF ~acc.ok \/ acc.refs[1] = <<>> THEN [acc EXCEPT !.refs = <<<<>>>> \o @]
    ELSE LET ref == acc.refs[1][1]
             o == Load(ref)
             child == NodeChild(o, PathSlot(li, level))
         IN IF ~Sound(ref, level, PathPrefix(li, level))
            THEN [ok |-> FALSE, refs |-> <<<<>>>> \o acc.refs]
            ELSE [acc EXCEPT !.refs =
                    <<IF child = <<>> THEN <<>> ELSE <<child[1].ref>>>> \o @]

\* refs[1] is the leaf's reference, refs[level + 2] that of the node at level.
Path(from, li) ==
    FoldLeft(LAMBDA acc, level : PathStep(li, acc, level),
             [ok |-> TRUE, refs |-> <<from>>], Downwards)

\* Records of a patched leaf: what it held, padded to the next vocabulary, with
\* the updates laid over.
PatchLoadLeaf(ref, li, vocab, ups) ==
    LET base == li * LeafTerms
        old == IF ref = <<>> THEN <<>> ELSE Load(ref[1]).items
    IN [i \in 1..Expected(base, vocab) |->
          LET t == base + i - 1
          IN IF t \in DOMAIN ups THEN ups[t]
             ELSE IF i <= Len(old) THEN old[i] ELSE EmptyRecord(t)]

AppendLeaves(old, next, terms) ==
    {t \div LeafTerms : t \in terms}
      \cup (IF next > old /\ old > 0 /\ old % LeafTerms # 0
            THEN {(old - 1) \div LeafTerms} ELSE {})

\* The object, its place among the objects and what its parent must know.
Emit(t, level, key, items, source) ==
    [objects |-> Append(t.objects,
                        [Object(level, key, items) EXCEPT !.ref.id = Len(t.objects) + 1]),
     retired |-> t.retired \cup {r.block : r \in Range(source)},
     below |-> Append(t.below,
                      [key |-> IF level = Leaf THEN key \div LeafTerms ELSE key,
                       max |-> IF level = Leaf THEN LeafMax(items) ELSE NodeMax(items),
                       ref |-> [block |-> 0, leaf |-> level = Leaf,
                                id |-> Len(t.objects) + 1, owner |-> 0]])]

WithChildren(cs, below, prefix) ==
    FoldLeft(LAMBDA acc, b :
               IF b.key \div Fanout # prefix THEN acc
               ELSE NodeSetChild(acc, [slot |-> b.key % Fanout, max |-> b.max, ref |-> b.ref]),
             cs, below)

\* One level of nodes above the objects just emitted.  source[prefix] is the
\* node that is replaced, or none.
ParentLevel(t, level, source) ==
    FoldLeft(LAMBDA acc, prefix :
               Emit(acc, level, prefix,
                    WithChildren(IF source[prefix] = <<>> THEN <<>>
                                 ELSE Load(source[prefix][1]).items, t.below, prefix),
                    source[prefix]),
             [t EXCEPT !.below = <<>>], Sorted({b.key \div Fanout : b \in Range(t.below)}))

NoTree == [objects |-> <<>>, retired |-> {}, below |-> <<>>]

TreeBuild(rs) ==
    LET leaves == Sorted({li \in 0..(LeafCount(Len(rs)) - 1) : IsStored(rs, li)})
        bottom == FoldLeft(LAMBDA t, li : Emit(t, Leaf, li * LeafTerms, LeafFromFlat(rs, li), <<>>),
                           NoTree, leaves)
    IN IF leaves = <<>> THEN Emit(NoTree, Levels - 1, 0, <<>>, <<>>)
       ELSE FoldLeft(LAMBDA t, level :
                       ParentLevel(t, level, [p \in 0..MaxVocab |-> <<>>]),
                     bottom, Upwards)

\* A patch of the leaves lis of the tree under from.
PatchLevels(bottom, paths, lis) ==
    FoldLeft(LAMBDA t, level :
               ParentLevel(t, level,
                 [p \in {PathPrefix(li, level) : li \in lis} |->
                    paths[CHOOSE li \in lis : PathPrefix(li, level) = p].refs[level + 2]]),
             bottom, Upwards)

PatchAppendObjects(paths, lis, vocab, ups) ==
    PatchLevels(
      FoldLeft(LAMBDA t, li :
                 Emit(t, Leaf, li * LeafTerms,
                      PatchLoadLeaf(paths[li].refs[1], li, vocab, ups), paths[li].refs[1]),
               NoTree, Sorted(lis)),
      paths, lis)

\* Every leaf the patch loads must be sound and no longer than the vocabulary.
PatchSound(paths, lis, vocab) ==
    \A li \in lis :
      /\ paths[li].ok
      /\ paths[li].refs[1] # <<>> =>
           /\ Sound(paths[li].refs[1][1], Leaf, li * LeafTerms)
           /\ Len(Load(paths[li].refs[1][1]).items) <= Expected(li * LeafTerms, vocab)

\* An empty vocabulary has a root, which the patch does not follow.
Paths(oldVocab, lis) ==
    [li \in lis |-> Path(IF oldVocab > 0 THEN <<root>> ELSE <<>>, li)]

-----------------------------------------------------------------------------
(* Reads from a root. *)

Bad == [term |-> -1, n |-> 0, fold |-> "FORMAT", cat |-> 0]

Lookup(ref, t) ==
    LET li == t \div LeafTerms
        at == (t % LeafTerms) + 1
        path == Path(<<ref>>, li)
        leaf == path.refs[1]
    IN IF ~path.ok THEN Bad
       ELSE IF leaf = <<>> THEN EmptyRecord(t)
       ELSE IF ~Sound(leaf[1], Leaf, li * LeafTerms) \/ at > Len(Load(leaf[1]).items) THEN Bad
       ELSE Load(leaf[1]).items[at]

\* The descent to the first term with at least threshold extents: at each level
\* the first child that promises one, whose promise must be kept.
PressureStep(threshold, acc, level) ==
    LET o == Load(acc.ref)
        most == NodeMax(o.items)
        hot == SelectSeq(o.items, LAMBDA c : c.max >= threshold)
    IN IF acc.done THEN acc
       ELSE IF ~Sound(acc.ref, level, acc.prefix) THEN [acc EXCEPT !.done = TRUE, !.found = Bad]
       ELSE IF hot = <<>> \/ (acc.expect # -1 /\ most # acc.expect)
       THEN [acc EXCEPT !.done = TRUE, !.found = IF acc.expect = -1 THEN EmptyRecord(-1) ELSE Bad]
       ELSE [acc EXCEPT !.ref = hot[1].ref, !.prefix = @ * Fanout + hot[1].slot,
                        !.expect = hot[1].max]

PressureLeaf(threshold, vocab, acc) ==
    LET o == Load(acc.ref)
        hot == SelectSeq(o.items, LAMBDA r : r.n >= threshold)
    IN IF acc.done THEN acc.found
       ELSE IF \/ ~Sound(acc.ref, Leaf, acc.prefix * LeafTerms)
               \/ acc.prefix * LeafTerms >= vocab
               \/ LeafMax(o.items) # acc.expect
               \/ hot = <<>> THEN Bad
       ELSE hot[1]

FindExtentPressure(ref, vocab, threshold) ==
    PressureLeaf(threshold, vocab,
      FoldLeft(LAMBDA acc, level : PressureStep(threshold, acc, level),
               [ref |-> ref, prefix |-> 0, expect |-> -1, done |-> FALSE, found |-> Bad],
               Downwards))

\* The walk from a root, level by level: the references of a level with the key
\* and the maximum their parents expect.
WalkStep(acc, level) ==
    LET sound == \A x \in acc.level : /\ Sound(x.ref, level, x.key)
                                      /\ x.max = -1 \/ NodeMax(Load(x.ref).items) = x.max
    IN IF ~acc.ok \/ ~sound THEN [acc EXCEPT !.ok = FALSE]
       ELSE [acc EXCEPT
               !.seen = @ \cup {x.ref.block : x \in acc.level},
               !.level = UNION {{[ref |-> c.ref, max |-> c.max,
                                  key |-> (x.key * Fanout + c.slot)
                                            * (IF level = 0 THEN LeafTerms ELSE 1)] :
                                   c \in Range(Load(x.ref).items)} : x \in acc.level}]

Walked(ref, vocab) ==
    LET acc == FoldLeft(WalkStep, [ok |-> TRUE, seen |-> {},
                                   level |-> {[ref |-> ref, key |-> 0, max |-> -1]}], Downwards)
    IN [ok |-> /\ acc.ok
               /\ \A x \in acc.level :
                    /\ Sound(x.ref, Leaf, x.key) /\ x.key < vocab
                    /\ Len(Load(x.ref).items) = Expected(x.key, vocab)
                    /\ LeafMax(Load(x.ref).items) = x.max,
        seen |-> acc.seen \cup {x.ref.block : x \in acc.level},
        leaves |-> {x.ref : x \in acc.level}]

\* The flat directory: gaps between stored leaves are empty records.
Materialize(walk, vocab) ==
    [i \in 1..vocab |->
       LET stored == {r \in UNION {Range(Load(ref).items) : ref \in walk.leaves} :
                         r.term = i - 1}
       IN IF stored = {} THEN EmptyRecord(i - 1) ELSE CHOOSE r \in stored : TRUE]

-----------------------------------------------------------------------------
(* Publication, readers and reuse. *)

Vocab == Len(records)
FreeBlocks == {b \in Blocks : store[b] = NoObject}
Lowest(n) == SubSeq(Sorted(FreeBlocks), 1, n)

\* Objects are written in the order of their ids; a parent takes the blocks of
\* the children written with it.
Bound(ref, owner, blocks) ==
    IF ref.owner = 0 THEN [ref EXCEPT !.owner = owner, !.block = blocks[ref.id]] ELSE ref

Written(o, owner, blocks) ==
    [o EXCEPT !.ref = Bound(@, owner, blocks),
              !.items = IF o.ref.leaf THEN @
                        ELSE [j \in DOMAIN @ |-> [@[j] EXCEPT !.ref = Bound(@, owner, blocks)]]]

Stored(t, owner, blocks) ==
    [b \in Blocks |->
       IF \E i \in DOMAIN blocks : blocks[i] = b
       THEN Written(t.objects[CHOOSE i \in DOMAIN blocks : blocks[i] = b], owner, blocks)
       ELSE store[b]]

InitialRecords(n, terms) ==
    [i \in 1..n |-> [term |-> i - 1, n |-> IF i - 1 \in terms THEN 1 ELSE 0,
                     fold |-> "none", cat |-> IF Catalogued THEN 1 ELSE 0]]

Init ==
    \E n \in InitialVocabs, terms \in InitialRuns :
      \E t \in {TreeBuild(InitialRecords(n, terms))} :
      \E blocks \in {[i \in DOMAIN t.objects |-> i]} :
         /\ records = InitialRecords(n, terms)
         /\ store = [b \in Blocks |-> IF b \in DOMAIN blocks
                                      THEN Written(t.objects[b], 1, blocks) ELSE NoObject]
         /\ root = Bound(Last(t.objects).ref, 1, blocks)
         /\ retired = {} /\ held = {} /\ rejected = FALSE

Install(t, next, blocks) ==
    /\ store' = Stored(t, root.owner + 1, blocks)
    /\ root' = Bound(Last(t.objects).ref, root.owner + 1, blocks)
    /\ retired' = retired \cup {[block |-> b, owner |-> root.owner + 1] : b \in t.retired}
    /\ records' = next
    /\ UNCHANGED <<held, rejected>>

\* Writes the patch of the leaves lis, or refuses it.
Patch(lis, next, ups) ==
    /\ root.owner < MaxPublications
    /\ \E paths \in {Paths(Vocab, lis)} :
         IF PatchSound(paths, lis, Len(next))
         THEN \E t \in {PatchAppendObjects(paths, lis, Len(next), ups)} :
                /\ Len(t.objects) <= Cardinality(FreeBlocks)
                /\ Install(t, next, Lowest(Len(t.objects)))
         ELSE rejected' = TRUE /\ UNCHANGED <<store, root, records, retired, held>>

RecordOf(t) == IF t < Vocab THEN records[t + 1] ELSE EmptyRecord(t)
Updated(ups, n) == [i \in 1..n |-> IF i - 1 \in DOMAIN ups THEN ups[i - 1] ELSE RecordOf(i - 1)]

\* A sealed batch: one more extent for each term it has a run of.  The terms of
\* a text vocabulary enter it with a run and with the catalog of the batch.
AppendPayload(terms, next) ==
    /\ \A t \in terms : RecordOf(t).n < MaxExtents
    /\ Catalogued => Vocab..(next - 1) \subseteq terms
    /\ terms # {}
    /\ LET ups == [t \in terms |->
                     [RecordOf(t) EXCEPT !.n = @ + 1,
                                         !.cat = IF t >= Vocab /\ Catalogued
                                                 THEN root.owner + 1 ELSE @]]
       IN Patch(AppendLeaves(Vocab, next, terms), Updated(ups, next), ups)

\* A compaction: the extents of a term become one, or none when nothing of it
\* is left.
ReplacePayloads(terms, gone) ==
    /\ terms # {} /\ \A t \in terms : RecordOf(t).n # 0
    /\ LET ups == [t \in terms |-> [RecordOf(t) EXCEPT !.n = IF t \in gone THEN 0 ELSE 1]]
       IN Patch({t \div LeafTerms : t \in terms}, Updated(ups, Vocab), ups)

NeutralFold(t) ==
    /\ RecordOf(t).n # 0
    /\ LET ups == t :> [RecordOf(t) EXCEPT !.n = 0, !.fold = "neutral"]
       IN Patch({t \div LeafTerms}, Updated(ups, Vocab), ups)

ImpactFold(t) ==
    /\ RecordOf(t).fold = "neutral"
    /\ LET ups == t :> [RecordOf(t) EXCEPT !.fold = "impact"]
       IN Patch({t \div LeafTerms}, Updated(ups, Vocab), ups)

OpenReader ==
    /\ Cardinality(held) < MaxReaders
    /\ held' = held \cup {[root |-> root, records |-> records]}
    /\ held' # held
    /\ UNCHANGED <<store, root, records, retired, rejected>>

CloseReader(r) ==
    /\ held' = held \ {r}
    /\ UNCHANGED <<store, root, records, retired, rejected>>

\* Mutant: the readers of the root before the retirement are forgotten.
ReusableEarly(x) == \A r \in held : r.root.owner >= x.owner - 1
Reusable(x) == \A r \in held : r.root.owner >= x.owner

Reclaim ==
    /\ \E x \in retired : Reusable(x)
    /\ store' = [b \in Blocks |-> IF \E x \in retired : x.block = b /\ Reusable(x)
                                  THEN NoObject ELSE store[b]]
    /\ retired' = {x \in retired : ~Reusable(x)}
    /\ UNCHANGED <<root, records, held, rejected>>

RunSets(n) == {S \in SUBSET (0..(n - 1)) : Cardinality(S) <= MaxRuns}

Next ==
    \/ \E next \in Vocab..MaxVocab : \E terms \in RunSets(next) : AppendPayload(terms, next)
    \/ \E terms \in RunSets(Vocab) : \E gone \in SUBSET terms : ReplacePayloads(terms, gone)
    \/ \E t \in 0..(Vocab - 1) : NeutralFold(t) \/ ImpactFold(t)
    \/ OpenReader
    \/ \E r \in held : CloseReader(r)
    \/ Reclaim

Spec == Init /\ [][Next]_vars

-----------------------------------------------------------------------------
(* Properties. *)

\* Every root anybody may read from, with the records it was published with.
Snapshots == held \cup {[root |-> root, records |-> records]}

\* Blocks hold whole objects, and no reader or retirement is newer than the
\* published root.
TypeOK ==
    /\ root.block \in Blocks /\ root.owner \in 1..MaxPublications
    /\ \A b \in Blocks : store[b] = NoObject \/ store[b].ref.block = b
    /\ \A x \in retired : x.block \in Blocks /\ x.owner <= root.owner
    /\ \A r \in held : r.root.owner <= root.owner
    /\ rejected \in BOOLEAN

\* A root keeps answering with the records it was published with, whatever
\* later patches wrote and whatever blocks were reused; a path that was never
\* stored answers with empty records (evoke_term_cow_lookup_external and
\* evoke_term_cow_materialize_external never raise EVOKE_ERR_FORMAT).
SnapshotReads ==
    \A s \in Snapshots :
      LET n == Len(s.records)
      IN /\ \A t \in 0..(n - 1) : Lookup(s.root, t) = s.records[t + 1]
         /\ \E walk \in {Walked(s.root, n)} : walk.ok /\ Materialize(walk, n) = s.records

\* The descent by extent maxima returns the first term at or above a threshold
\* exactly as a scan of the directory would, and nothing when there is none.
PressureExact ==
    \A s \in Snapshots, threshold \in 1..MaxExtents :
      LET hot == {i \in DOMAIN s.records : s.records[i].n >= threshold}
      IN FindExtentPressure(s.root, Len(s.records), threshold)
           = IF hot = {} THEN EmptyRecord(-1) ELSE s.records[Min(hot)]

\* Every allocated block is reachable from the published root or retired, never
\* both: a patch retires exactly the objects it replaced.
NoBlockLeaked ==
    LET live == Walked(root, Vocab).seen
        gone == {x.block : x \in retired}
    IN /\ live \cap gone = {}
       /\ live \cup gone = Blocks \ FreeBlocks

\* The patch of legal updates is never refused by the checks of the patch
\* builder.
PatchAccepted == ~rejected

\* Every term of a text vocabulary has the catalog its spelling is read from.
CatalogBound ==
    Catalogued => \A s \in Snapshots : \A t \in 0..(Len(s.records) - 1) :
                     Lookup(s.root, t).cat \in 1..s.root.owner
=============================================================================
