---------------------------- MODULE PrefixIndex ----------------------------
(***************************************************************************)
(* The copy-on-write ordered tree behind prefix expansion,                 *)
(* evoke_prefix_cow.c, and the budgeted collection of its matches in       *)
(* evoke_segment_pages.c.                                                  *)
(*                                                                         *)
(* A leaf holds entries in key order, a branch its children with their     *)
(* largest keys.  A patch merges the new keys into the leaves they belong  *)
(* to, cuts a leaf or a branch that grew too large into several, and adds  *)
(* levels above the root until one object is left.  A span is a written or *)
(* kept object with its largest key.                                       *)
(***************************************************************************)
EXTENDS LexiconTrie

CONSTANTS LeafMaxEntries,    \* entries of a leaf
          NodeMaxChildren,   \* children of a branch
          MaxByte            \* the largest byte, UINT8_MAX

PrefixAssumption ==
    LeafMaxEntries \in Nat \ {0} /\ NodeMaxChildren \in Nat \ {0, 1, 2}

PrefixRefValid(ref) == /\ ref.kind \in {"branch", "leaf"}
                       /\ ref.id # 0 /\ ref.owner # 0 /\ ref.block # 0 /\ ref.n # 0

PrefixObjectValid(o) ==
    LET items == o.items
    IN /\ PrefixRefValid(o.ref)
       /\ IF o.ref.kind = "leaf"
          THEN /\ Len(items) \in 1..LeafMaxEntries /\ Len(items) = o.ref.n
               /\ \A i \in 2..Len(items) : KeyLess(items[i - 1].key, items[i].key)
          ELSE /\ Len(items) \in 2..NodeMaxChildren
               /\ \A i \in DOMAIN items :
                    /\ PrefixRefValid(items[i].ref) /\ items[i].ref.owner <= o.ref.owner
                    /\ i > 1 => KeyLess(items[i - 1].max, items[i].max)
               /\ MapThenSumSet(LAMBDA i : items[i].ref.n, DOMAIN items) = o.ref.n

PrefixSound(st, ref) == st[ref.block].ref = ref /\ PrefixObjectValid(st[ref.block])

-----------------------------------------------------------------------------
(* Building and patching. *)

\* An object with the next id, and its span.
AddObject(t, kind, n, max, items) ==
    LET ref == [kind |-> kind, block |-> 0, id |-> Len(t.objects) + 1, owner |-> 0, n |-> n]
    IN [t |-> [t EXCEPT !.objects = Append(@, [ref |-> ref, items |-> items])],
        span |-> [max |-> max, ref |-> ref]]

MakeLeaf(t, es) == AddObject(t, "leaf", Len(es), Last(es).key, es)
MakeNode(t, spans) ==
    AddObject(t, "branch", MapThenSumSet(LAMBDA i : spans[i].ref.n, DOMAIN spans),
              Last(spans).max, spans)

\* Objects over consecutive groups, in order.
Grouped(t, groups, Make(_, _)) ==
    FoldLeft(LAMBDA acc, g : LET made == Make(acc.t, g)
                             IN [t |-> made.t, spans |-> Append(acc.spans, made.span)],
             [t |-> t, spans |-> <<>>], groups)

CeilDiv(a, b) == (a + b - 1) \div b

\* Leaves are filled to the brim, the last one takes the rest.
LeafGroups(es) ==
    [g \in 1..CeilDiv(Len(es), LeafMaxEntries) |->
       SubSeq(es, ((g - 1) * LeafMaxEntries) + 1, Min({g * LeafMaxEntries, Len(es)}))]
LeavesOf(t, es) == Grouped(t, LeafGroups(es), MakeLeaf)

\* Branches share the children evenly: each takes its part of what remains.
ParentGroups(spans) ==
    LET parents == CeilDiv(Len(spans), NodeMaxChildren)
    IN FoldLeft(LAMBDA acc, p :
                  LET size == Min({(Len(spans) - acc.at) \div (parents - p + 1), NodeMaxChildren})
                  IN [at |-> acc.at + size,
                      groups |-> Append(acc.groups, SubSeq(spans, acc.at + 1, acc.at + size))],
                [at |-> 0, groups |-> <<>>], [p \in 1..parents |-> p]).groups

\* A group of one child is refused.
BuildParentLevel(t, spans) ==
    IF \E g \in Range(ParentGroups(spans)) : Len(g) < 2
    THEN [t |-> Failed(t), spans |-> <<Head(spans)>>]
    ELSE Grouped(t, ParentGroups(spans), MakeNode)

RECURSIVE FinishRoot(_, _)
FinishRoot(t, spans) ==
    IF Len(spans) = 1 THEN [t |-> t, ref |-> spans[1].ref]
    ELSE LET level == BuildParentLevel(t, spans) IN FinishRoot(level.t, level.spans)

ByKey(a, b) == KeyLess(a.key, b.key)
SortKeys(keys, first) ==
    SortedBy({[key |-> keys[i], term |-> first + i - 1] : i \in DOMAIN keys}, ByKey)

PrefixBuild(keys) ==
    LET leaves == LeavesOf(NewTree, SortKeys(keys, 0)) IN FinishRoot(leaves.t, leaves.spans)

MakeNodesForChildren(t, spans) ==
    IF Len(spans) = 1 THEN [t |-> t, spans |-> spans]
    ELSE IF Len(spans) <= NodeMaxChildren THEN Grouped(t, <<spans>>, MakeNode)
    ELSE BuildParentLevel(t, spans)

\* The old entries and the new keys in order; a key that is there already is an
\* error.
PatchLeaf(t, o, es) ==
    IF {e.key : e \in Range(o.items)} \cap {e.key : e \in Range(es)} # {}
    THEN [t |-> Failed(t), spans |-> <<[max |-> Last(o.items).key, ref |-> o.ref]>>]
    ELSE LeavesOf(t, SortedBy(Range(o.items) \cup Range(es), ByKey))

\* The new keys that belong to child i: those up to its largest key that no
\* earlier child took, and for the last child all that are left.
ChildKeys(o, es, i) ==
    SelectSeq(es, LAMBDA e : /\ i = Len(o.items) \/ ~KeyLess(o.items[i].max, e.key)
                             /\ i = 1 \/ KeyLess(o.items[i - 1].max, e.key))

\* A child with no new keys is kept as it is.
RECURSIVE PatchPrefix(_, _, _, _)
PatchPrefix(st, t, ref, es) ==
    LET o == st[ref.block]
        children ==
          FoldLeft(LAMBDA acc, i :
                     LET mine == ChildKeys(o, es, i)
                         sub == IF mine = <<>> THEN [t |-> acc.t, spans |-> <<o.items[i]>>]
                                ELSE PatchPrefix(st, acc.t, o.items[i].ref, mine)
                     IN [t |-> sub.t, spans |-> acc.spans \o sub.spans],
                   [t |-> t, spans |-> <<>>], [i \in DOMAIN o.items |-> i])
        next == IF o.ref.kind = "leaf" THEN PatchLeaf(t, o, es)
                ELSE MakeNodesForChildren(children.t, children.spans)
    IN IF ~PrefixSound(st, ref)
       THEN [t |-> Failed(t), spans |-> <<[max |-> <<>>, ref |-> ref]>>]
       ELSE [t |-> AddRetired(next.t, ref), spans |-> next.spans]

-----------------------------------------------------------------------------
(* Reads from a root. *)

StartsWith(key, prefix) == Len(key) >= Len(prefix) /\ SubSeq(key, 1, Len(prefix)) = prefix

\* The least key above every key with the prefix: the last byte that is not the
\* largest is incremented and the rest is cut.  None if there is no such byte.
UpperKey(prefix) ==
    LET room == {i \in DOMAIN prefix : prefix[i] # MaxByte}
    IN IF room = {} THEN <<>>
       ELSE [SubSeq(prefix, 1, Max(room)) EXCEPT ![Max(room)] = @ + 1]

\* The entries of a leaf from the lower bound up to the first without the prefix.
LeafMatches(o, prefix) ==
    LET from == SelectSeq(o.items, LAMBDA e : ~KeyLess(e.key, prefix))
        stop == {i \in DOMAIN from : ~StartsWith(from[i].key, prefix)}
    IN IF stop = {} THEN from ELSE SubSeq(from, 1, Min(stop) - 1)

\* The children of a branch that a scan descends into: from the first whose
\* largest key reaches the prefix to the first whose largest key passes it.
ScannedChildren(o, prefix, upper) ==
    LET from == SelectSeq(o.items, LAMBDA c : ~KeyLess(c.max, prefix))
        stop == {i \in DOMAIN from : upper # <<>> /\ ~KeyLess(from[i].max, upper)}
    IN IF stop = {} THEN from ELSE SubSeq(from, 1, Min(stop))

RECURSIVE ScanPrefix(_, _, _, _)
ScanPrefix(st, ref, prefix, upper) ==
    LET o == st[ref.block]
    IN IF ~PrefixSound(st, ref) THEN [ok |-> FALSE, hits |-> <<>>]
       ELSE IF o.ref.kind = "leaf" THEN [ok |-> TRUE, hits |-> LeafMatches(o, prefix)]
       ELSE FoldLeft(LAMBDA acc, c :
                       LET sub == ScanPrefix(st, c.ref, prefix, upper)
                       IN [ok |-> acc.ok /\ sub.ok, hits |-> acc.hits \o sub.hits],
                     [ok |-> TRUE, hits |-> <<>>], ScannedChildren(o, prefix, upper))

\* One more match, within the budget of matches and of token bytes.
CollectEntry(acc, e, maxMatches, maxBytes) ==
    IF \/ acc.limit \/ Len(acc.matches) >= maxMatches
       \/ acc.bytes >= maxBytes \/ Len(e.key) > maxBytes - acc.bytes - 1
    THEN [acc EXCEPT !.limit = TRUE]
    ELSE [acc EXCEPT !.matches = Append(@, e), !.bytes = @ + Len(e.key) + 1]

\* The expansion of a prefix, or the error that it exceeds its budget.
CollectLexiconPrefix(st, root, prefix, maxMatches, maxBytes) ==
    LET scan == ScanPrefix(st, root, prefix, UpperKey(prefix))
        got == FoldLeft(LAMBDA acc, e : CollectEntry(acc, e, maxMatches, maxBytes),
                        [matches |-> <<>>, bytes |-> 0, limit |-> FALSE], scan.hits)
    IN [ok |-> scan.ok, limit |-> got.limit,
        matches |-> IF got.limit THEN <<>> ELSE SortedBy(Range(got.matches), ByKey)]

\* Every object below ref with the depth of its leaves: largest keys and counts
\* are those of the children, and children do not overlap.
RECURSIVE PrefixVisit(_, _)
PrefixVisit(st, ref) ==
    LET o == st[ref.block]
        below == [i \in DOMAIN o.items |-> PrefixVisit(st, o.items[i].ref)]
    IN IF ~PrefixSound(st, ref)
       THEN [ok |-> FALSE, min |-> <<>>, max |-> <<>>, terms |-> {}, blocks |-> {}, depth |-> {}]
       ELSE IF o.ref.kind = "leaf"
       THEN [ok |-> TRUE, min |-> Head(o.items).key, max |-> Last(o.items).key,
             terms |-> {e.term : e \in Range(o.items)}, blocks |-> {ref.block}, depth |-> {1}]
       ELSE [ok |-> \A i \in DOMAIN o.items :
                      /\ below[i].ok /\ below[i].max = o.items[i].max
                      /\ Cardinality(below[i].terms) = o.items[i].ref.n
                      /\ i > 1 => KeyLess(below[i - 1].max, below[i].min),
             min |-> Head(below).min, max |-> Last(below).max,
             terms |-> UNION {below[i].terms : i \in DOMAIN below},
             blocks |-> {ref.block} \cup UNION {below[i].blocks : i \in DOMAIN below},
             depth |-> {d + 1 : d \in UNION {below[i].depth : i \in DOMAIN below}}]

PrefixValidate(st, root, terms) ==
    LET v == PrefixVisit(st, root) IN v.ok /\ v.terms = 0..(terms - 1) /\ root.n = terms
=============================================================================
