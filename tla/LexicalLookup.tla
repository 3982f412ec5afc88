--------------------------- MODULE LexicalLookup ---------------------------
(***************************************************************************)
(* The two lookups of a text vocabulary as the segment pages publish them: *)
(* the hash trie that resolves a term and the ordered tree that expands a  *)
(* prefix.  A sealed batch with new terms patches both under the same      *)
(* manifest, from the roots of the manifest before it, and writes the trie *)
(* first; a batch without new terms keeps both roots.  Readers hold the    *)
(* manifest they started from while retired blocks wait to be reused.      *)
(***************************************************************************)
EXTENDS PrefixIndex

CONSTANTS Keys,             \* the terms there may be
          QueryPrefixes,    \* the prefixes queries expand
          InitialVocabs,    \* vocabularies the build writes
          Blocks,           \* blocks of the relation
          MaxMatches, MaxTokenBytes,  \* budgets of an expansion
          MaxBatch,         \* bound on the new terms of a batch
          MaxPublications,  \* bound on the manifests
          MaxReaders        \* bound on the manifests readers hold

VARIABLES store,     \* the object on each block
          manifest,  \* the published manifest: its id, the two roots, the terms
          retired,   \* blocks a publication replaced, and the manifest that did
          held,      \* the manifests of open readers
          rejected   \* a patch of new terms was refused

vars == <<store, manifest, retired, held, rejected>>

Free == [ref |-> [kind |-> "free", block |-> 0, id |-> 0, owner |-> 0], items |-> <<>>]
FreeBlocks == {b \in Blocks : store[b] = Free}
Lowest(n) == SubSeq(Ascending(FreeBlocks), 1, n)

-----------------------------------------------------------------------------
(* Storage.  Objects are written in the order of their ids and a parent     *)
(* takes the blocks of the children written before it.                     *)

Bound(ref, owner, blocks) ==
    IF ref.owner = 0 THEN [ref EXCEPT !.owner = owner, !.block = blocks[ref.id]] ELSE ref

IsParent(o) == o.ref.kind \in {"node", "branch"}

Written(o, owner, blocks) ==
    [o EXCEPT !.ref = Bound(@, owner, blocks),
              !.items = IF ~IsParent(o) THEN @
                        ELSE [i \in DOMAIN @ |-> [@[i] EXCEPT !.ref = Bound(@, owner, blocks)]]]

WriteObjects(st, objects, owner, blocks) ==
    [b \in Blocks |->
       IF b \in Range(blocks)
       THEN Written(objects[CHOOSE i \in DOMAIN blocks : blocks[i] = b], owner, blocks)
       ELSE st[b]]

-----------------------------------------------------------------------------
(* Publication. *)

Vocab == manifest.terms

\* The patch of the trie: a key that is already there is refused.
LexiconAppend(keys) ==
    IF Vocab = <<>> THEN TrieBuild(keys)
    ELSE IF \E i \in DOMAIN keys : LookupExternal(store, manifest.lex[1], keys[i], 0, 0) # Absent
    THEN [t |-> Failed(NewTree), ref |-> manifest.lex[1]]
    ELSE PatchSubtree(store, NewTree, manifest.lex[1], PrepareEntries(keys, Len(Vocab)), 0, 0)

PrefixPatch(patch) == FinishRoot(patch.t, patch.spans)

PrefixAppend(keys) ==
    IF Vocab = <<>> THEN PrefixBuild(keys)
    ELSE PrefixPatch(PatchPrefix(store, NewTree, manifest.pre[1], SortKeys(keys, Len(Vocab))))

Install(lex, pre, lexBlocks, preBlocks, keys) ==
    LET id == manifest.id + 1
    IN /\ store' = WriteObjects(WriteObjects(store, lex.t.objects, id, lexBlocks),
                                pre.t.objects, id, preBlocks)
       /\ manifest' = [id |-> id, lex |-> <<Bound(lex.ref, id, lexBlocks)>>,
                       pre |-> <<Bound(pre.ref, id, preBlocks)>>, terms |-> Vocab \o keys]
       /\ retired' = retired \cup {[block |-> b, by |-> id] : b \in lex.t.retired \cup pre.t.retired}
       /\ UNCHANGED <<held, rejected>>

\* A batch with new terms.
AppendTerms(keys) ==
    /\ manifest.id < MaxPublications /\ keys # <<>>
    /\ \E lex \in {LexiconAppend(keys)}, pre \in {PrefixAppend(keys)} :
         IF lex.t.ok /\ pre.t.ok /\ pre.ref.n = Len(Vocab) + Len(keys)
         THEN LET a == Len(lex.t.objects)
                  b == Len(pre.t.objects)
              IN /\ a + b <= Cardinality(FreeBlocks)
                 /\ \E blocks \in {Lowest(a + b)} :
                      Install(lex, pre, SubSeq(blocks, 1, a), SubSeq(blocks, a + 1, a + b), keys)
         ELSE rejected' = TRUE /\ UNCHANGED <<store, manifest, retired, held>>

\* A batch that brings no new term carries both roots over.
AppendNothing ==
    /\ manifest.id < MaxPublications
    /\ manifest' = [manifest EXCEPT !.id = @ + 1]
    /\ UNCHANGED <<store, retired, held, rejected>>

OpenReader ==
    /\ Cardinality(held) < MaxReaders /\ manifest \notin held
    /\ held' = held \cup {manifest}
    /\ UNCHANGED <<store, manifest, retired, rejected>>

CloseReader(m) ==
    /\ held' = held \ {m}
    /\ UNCHANGED <<store, manifest, retired, rejected>>

\* Mutant: a reader of the manifest before the retirement is forgotten.
ReusableEarly(x) == \A m \in held : m.id >= x.by - 1
Reusable(x) == \A m \in held : m.id >= x.by

Reclaim ==
    /\ \E x \in retired : Reusable(x)
    /\ store' = [b \in Blocks |-> IF \E x \in retired : x.block = b /\ Reusable(x)
                                  THEN Free ELSE store[b]]
    /\ retired' = {x \in retired : ~Reusable(x)}
    /\ UNCHANGED <<manifest, held, rejected>>

Batches ==
    {s \in UNION {[1..n -> Keys] : n \in 1..MaxBatch} :
       /\ \A i, j \in DOMAIN s : i # j => s[i] # s[j]
       /\ Range(s) \cap Range(Vocab) = {}}

Next ==
    \/ \E keys \in Batches : AppendTerms(keys)
    \/ AppendNothing
    \/ OpenReader
    \/ \E m \in held : CloseReader(m)
    \/ Reclaim

InitFrom(lex, pre, keys) ==
    LET a == Len(lex.t.objects)
        b == Len(pre.t.objects)
        lexBlocks == [i \in 1..a |-> i]
        preBlocks == [i \in 1..b |-> a + i]
    IN /\ store = WriteObjects(WriteObjects([x \in Blocks |-> Free], lex.t.objects, 1, lexBlocks),
                               pre.t.objects, 1, preBlocks)
       /\ manifest = [id |-> 1, lex |-> <<Bound(lex.ref, 1, lexBlocks)>>,
                      pre |-> <<Bound(pre.ref, 1, preBlocks)>>, terms |-> keys]

\* An index built over an empty table has no lookups.
Init ==
    /\ \E keys \in InitialVocabs :
         IF keys = <<>>
         THEN /\ store = [x \in Blocks |-> Free]
              /\ manifest = [id |-> 1, lex |-> <<>>, pre |-> <<>>, terms |-> <<>>]
         ELSE InitFrom(TrieBuild(keys), PrefixBuild(keys), keys)
    /\ retired = {} /\ held = {} /\ rejected = FALSE

Spec == Init /\ [][Next]_vars

-----------------------------------------------------------------------------
(* Properties. *)

Snapshots == {m \in held \cup {manifest} : m.terms # <<>>}

\* Blocks hold whole objects and nothing is newer than the published manifest.
TypeOK ==
    /\ manifest.id \in 1..MaxPublications
    /\ \A b \in Blocks : store[b] = Free \/ store[b].ref.block = b
    /\ \A x \in retired : x.block \in Blocks /\ x.by <= manifest.id
    /\ \A m \in held : m.id <= manifest.id
    /\ rejected \in BOOLEAN

\* The lookup of a term returns the id it was published with, and absence for a
\* term that came later or never, in every manifest a reader may hold, whatever
\* buckets were split and whatever blocks reused since
\* (evoke_segment_pages_lookup_lexicon).
LookupExact ==
    \A m \in Snapshots, k \in Keys :
      LookupSerialized(store, m.lex[1], k)
        = IF k \in Range(m.terms) THEN (CHOOSE i \in DOMAIN m.terms : m.terms[i] = k) - 1
          ELSE Absent

\* The expansion of a prefix is every term that starts with it in key order, or
\* the budget error exactly when they do not fit the budgets
\* (evoke_segment_pages_collect_lexicon_prefix).
ExpansionExact ==
    \A m \in Snapshots, p \in QueryPrefixes :
      LET match == {[key |-> m.terms[i], term |-> i - 1] : i \in
                      {j \in DOMAIN m.terms : StartsWith(m.terms[j], p)}}
          fits == /\ Cardinality(match) <= MaxMatches
                  /\ MapThenSumSet(LAMBDA e : Len(e.key) + 1, match) <= MaxTokenBytes
      IN CollectLexiconPrefix(store, m.pre[1], p, MaxMatches, MaxTokenBytes)
           = [ok |-> TRUE, limit |-> ~fits,
              matches |-> IF fits THEN SortedBy(match, ByKey) ELSE <<>>]

\* Both trees of every manifest pass the validation that the inventory of an
\* index runs, and the ordered tree stays balanced, which bounds its depth.
TreesValid ==
    \A m \in Snapshots :
      /\ TrieValidate(store, m.lex[1], Len(m.terms))
      /\ PrefixValidate(store, m.pre[1], Len(m.terms))
      /\ Cardinality(PrefixVisit(store, m.pre[1]).depth) = 1

\* Every allocated block is reachable from the published manifest or retired,
\* never both.
NoBlockLeaked ==
    LET live == IF Vocab = <<>> THEN {}
                ELSE TrieVisit(store, manifest.lex[1], 0, 0).blocks
                       \cup PrefixVisit(store, manifest.pre[1]).blocks
        gone == {x.block : x \in retired}
    IN live \cap gone = {} /\ live \cup gone = Blocks \ FreeBlocks

\* A batch of new terms is never refused by the checks of the patch builders.
PatchAccepted == ~rejected
=============================================================================
