------------------------ MODULE PageReclamationProofs ------------------------
(***************************************************************************)
(* Proofs about PageReclamation, for any readers, appenders, workers and   *)
(* bounds.  The argument is ownership: every block below the end of the    *)
(* relation that somebody may still read or write carries no recyclable    *)
(* marker, and a block that only one process knows of is not among those   *)
(* others may read.                                                        *)
(***************************************************************************)
EXTENDS PageReclamation, FiniteSetTheorems, WellFoundedInduction, TLAPS

(***************************************************************************)
(* The inductive invariant                                                 *)
(***************************************************************************)
\* A root and the pages it stands on: the relation, or what recovery returns to.
Sound(pg, n, rt) ==
    /\ pg \in [Block -> 0..MaxWrite] /\ n \in Block
    /\ DOMAIN rt = {"id", "refs", "manifest", "retired", "hwm"}
    /\ rt.hwm \in Block /\ rt.hwm <= n
    /\ DOMAIN rt.refs \subseteq 1..rt.hwm
    /\ rt.retired \subseteq 1..rt.hwm
    /\ rt.retired \cap DOMAIN rt.refs = {}
    /\ rt.manifest \in DOMAIN rt.refs
    /\ \A b \in DOMAIN rt.refs : pg[b] = rt.refs[b] /\ pg[b] # Marker
    /\ \A b \in rt.retired : pg[b] # Marker

RootSound == Sound(page, nblocks, root)
DurableSound ==
    /\ DOMAIN durable = {"page", "nblocks", "root"}
    /\ Sound(durable.page, durable.nblocks, durable.root)

\* A pass still builds on the root it read, or has pages to mark.
Building(m) == pass[m].at \in {"staging", "fenced"}

\* The pages a pass reads, the blocks it has written, and those it has still
\* to hand over.
Reads(m) == IF Building(m) THEN pass[m].build.refs ELSE Nothing
Stages(m) == IF Building(m) THEN pass[m].staged ELSE Nothing
Frees(m) == IF pass[m].at = "published" THEN pass[m].plan.handoff
            ELSE IF pass[m].at = "marking" THEN pass[m].marking
            ELSE {}

\* Blocks somebody may read, and blocks that are one process's own.
Public == DOMAIN root.refs \cup root.retired
            \cup (UNION {DOMAIN reading[r] : r \in Reader})
            \cup (UNION {DOMAIN Reads(m) : m \in Maintainer})
Appended == UNION {DOMAIN appending[a] : a \in Appender}
Own(m) == DOMAIN Stages(m) \cup Frees(m)

\* Pages that hold what their reader or writer knows.
Held(refs) == Intact(refs) /\ \A b \in DOMAIN refs : b \in Block /\ page[b] # Marker

PagesHeld ==
    /\ \A r \in Reader : Held(reading[r])
    /\ \A a \in Appender : Held(appending[a])
    /\ \A m \in Maintainer : Held(Reads(m)) /\ Held(Stages(m))

\* Blocks to hand over have no marker before the extension lock is taken.
FreesUnmarked ==
    \A m \in Maintainer : \A b \in Frees(m) :
        /\ b \in 1..nblocks
        /\ page[b] = Marker => pass[m].at = "marking" /\ extender = m

OwnApart ==
    /\ Appended \cap Public = {}
    /\ \A a, b \in Appender :
         a # b => DOMAIN appending[a] \cap DOMAIN appending[b] = {}
    /\ \A m \in Maintainer : Own(m) \cap Public = {} /\ Own(m) \cap Appended = {}
    /\ \A m, k \in Maintainer : m # k => Own(m) \cap Own(k) = {}

\* What a pass replaces, retires and hands over is what its root says, as long
\* as that root is published.
PlanSound(w) ==
    /\ w.plan.retired \cup w.plan.handoff
         = w.build.retired \cup w.replaced \cup {w.build.manifest}
    /\ w.plan.retired \cap w.plan.handoff = {}
    /\ w.replaced \subseteq DOMAIN w.build.refs
    /\ w.build.manifest \in DOMAIN w.build.refs
    /\ w.plan.fenced <=> w.plan.handoff # {}

PassSound(m) ==
    /\ pass[m].at \in {"idle", "staging", "fenced", "published", "marking"}
    /\ pass[m].at # "idle" =>
         /\ DOMAIN pass[m] = {"at", "build", "replaced", "plan", "todo",
                              "staged", "manifest", "marking"}
         /\ pass[m].at \in {"staging", "fenced", "published"} =>
              pass[m].marking = {}
         /\ pass[m].marking \subseteq DOMAIN pass[m].staged \cup pass[m].plan.handoff
    /\ Building(m) =>
         /\ PlanSound(pass[m])
         /\ pass[m].todo \in 0..2
         /\ pass[m].at = "fenced" => pass[m].todo = 0 /\ pass[m].plan.fenced
         /\ pass[m].todo = 0 => pass[m].manifest \in DOMAIN pass[m].staged
         /\ root.manifest = pass[m].build.manifest =>
              /\ root.retired = pass[m].build.retired
              /\ DOMAIN pass[m].build.refs \subseteq DOMAIN root.refs

PassesSound == \A m \in Maintainer : PassSound(m)

\* The fence keeps everybody else out until the root is published.
FenceSound ==
    /\ \A m \in Maintainer :
         /\ pass[m].at \in {"fenced", "published"} => fence = m
         /\ fence = m => pass[m].at \in {"fenced", "published"} /\ Alone(m)
    /\ \A m \in Maintainer : extender = m => pass[m].at = "marking"

\* While nothing has failed, every block belongs to somebody.
EveryBlockKnown ==
    faults = 0 =>
        \A b \in 1..nblocks :
            \/ b \in DOMAIN root.refs \cup root.retired
            \/ page[b] = Marker
            \/ b \in Appended
            \/ \E m \in Maintainer : b \in Own(m)

Shapes ==
    /\ DOMAIN reading = Reader /\ DOMAIN appending = Appender
    /\ DOMAIN pass = Maintainer
    /\ writes \in 1..MaxWrite

IInv ==
    /\ TypeOK
    /\ Shapes
    /\ RootSound
    /\ DurableSound
    /\ PagesHeld
    /\ FreesUnmarked
    /\ OwnApart
    /\ PassesSound
    /\ FenceSound
    /\ EveryBlockKnown

(***************************************************************************)
(* Lemmas about the operators                                              *)
(***************************************************************************)
\* Nothing has no pages.
LEMMA NothingEmpty == DOMAIN Nothing = {}
  BY SMT DEF Nothing

\* A merged map has the pages of both, and the first map's content.
LEMMA Merged ==
    ASSUME NEW f, NEW g
    PROVE  /\ DOMAIN Over(f, g) = DOMAIN f \cup DOMAIN g
           /\ \A b \in DOMAIN f : Over(f, g)[b] = f[b]
           /\ \A b \in DOMAIN g : b \notin DOMAIN f => Over(f, g)[b] = g[b]
  BY DEF Over

\* A restricted map keeps the content.
LEMMA Restricted ==
    ASSUME NEW f, NEW S
    PROVE  /\ DOMAIN Restrict(f, S) = S
           /\ \A b \in S : Restrict(f, S)[b] = f[b]
  BY DEF Restrict

\* The blocks of a relation are finitely many.
LEMMA BlocksFinite ==
    ASSUME ReclamationAssumption, NEW S \in SUBSET Block
    PROVE  IsFiniteSet(S) /\ Cardinality(S) \in Nat
  <1>1. IsFiniteSet(1..MaxBlock)
  BY FS_Interval DEF ReclamationAssumption
<1>2. IsFiniteSet(S)
  BY <1>1, FS_Subset DEF Block
<1> QED BY <1>2, FS_CardinalityType

\* Some blocks have a first one.
LEMMA FirstBlock ==
    ASSUME NEW S \in SUBSET Nat, S # {}
    PROVE  \E x \in S : \A y \in S : x <= y
<1> DEFINE T == {0 .. n : n \in S}
<1>1. \A n \in S : (0 .. n) \in SUBSET Nat /\ IsFiniteSet(0 .. n)
  BY FS_Interval
<1>2. T \subseteq FiniteSubsetsOf(Nat) /\ T # {}
  BY <1>1 DEF FiniteSubsetsOf
<1>3. PICK X \in T : \A Y \in T : ~(<<Y, X>> \in StrictSubsetOrdering(Nat))
  <2> HIDE DEF T
  <2> QED
    BY <1>2, FS_StrictSubsetOrderingWellFounded, WFMin
<1>4. PICK x \in S : X = 0 .. x
  OBVIOUS
<1>5. ASSUME NEW y \in S, y < x
      PROVE  FALSE
  <2>1. /\ 0 .. y \subseteq 0 .. x
        /\ 0 .. x # 0 .. y
    <3>1. x \in 0 .. x /\ x \notin 0 .. y
      BY <1>5
    <3> QED
      BY <1>5, <3>1
  <2>2. <<0 .. y, 0 .. x>> \in StrictSubsetOrdering(Nat)
    BY <2>1, <1>1 DEF StrictSubsetOrdering
  <2> QED
    BY <1>3, <1>4, <2>2
<1>6. \A y \in S : x <= y
  BY <1>5
<1> QED
  BY <1>6

\* What writing n pages does: the blocks written were free of owners (beyond
\* the end, or recyclable), hold fresh content, and everything else is as it
\* was.
LEMMA Written ==
    ASSUME ReclamationAssumption, TypeOK, writes \in 1..MaxWrite,
           NEW n \in Nat \ {0}, NEW S \in SUBSET Block, Cardinality(S) = n,
           WritePages(n, S)
    PROVE  /\ page' \in [Block -> 0..MaxWrite]
           /\ \A b \in Block : b \notin S => page'[b] = page[b]
           /\ \A b \in S : page'[b] # Marker
           /\ nblocks' \in Block /\ nblocks <= nblocks'
           /\ \A b \in S : b <= nblocks'
           /\ \A b \in S : b > nblocks \/ page[b] = Marker
           /\ \A b \in 1..nblocks' : b <= nblocks \/ b \in S
           /\ fsm' \subseteq Block
           /\ writes' \in 1..MaxWrite
           /\ extender = Nobody
<1> USE DEF ReclamationAssumption
<1>t. page \in [Block -> 0..MaxWrite] /\ nblocks \in Block /\ fsm \subseteq Block
  BY DEF TypeOK
<1>w. writes' = writes + n /\ writes + n <= MaxWrite /\ extender = Nobody
  BY DEF WritePages
<1>1. \A b \in S : /\ Cardinality({c \in S : c < b}) \in Nat
                   /\ Cardinality({c \in S : c < b}) < n
  <2> TAKE b \in S
  <2> DEFINE L == {c \in S : c < b}
  <2>0. b \in Nat
    BY DEF Block
  <2>1. L \subseteq S /\ L \in SUBSET Block
    OBVIOUS
  <2>2. b \notin L
    BY <2>0
  <2>3. IsFiniteSet(S) /\ Cardinality(L) \in Nat
    BY <2>1, BlocksFinite
  <2>4. Cardinality(L) < Cardinality(S)
    BY <2>1, <2>2, <2>3, FS_Subset
  <2> QED BY <2>3, <2>4
<1>2. page' = [b \in Block |->
                 IF b \in S THEN writes + 1 + Cardinality({c \in S : c < b})
                 ELSE page[b]]
  BY DEF WritePages
<1>3. \A b \in Block : b \notin S => page'[b] = page[b]
  BY <1>2
<1>4. \A b \in S : page'[b] = writes + 1 + Cardinality({c \in S : c < b})
  BY <1>2
<1>5. \A b \in S : page'[b] \in 0..MaxWrite /\ page'[b] # Marker
  <2> TAKE b \in S
  <2> DEFINE k == Cardinality({c \in S : c < b})
  <2>1. k \in Nat /\ k < n /\ page'[b] = writes + 1 + k
    BY <1>1, <1>4
  <2> HIDE DEF k
  <2> QED BY <2>1, <1>w DEF Marker
<1>6. page' \in [Block -> 0..MaxWrite]
  <2>1. \A b \in Block : page'[b] \in 0..MaxWrite
    BY <1>3, <1>5, <1>t
  <2>2. page' = [b \in Block |-> page'[b]]
    BY <1>2
  <2> QED BY <2>1, <2>2
<1>7. CASE claim_fsm_range(n) # {}
  <2>1. S \subseteq Marked
    BY <1>7 DEF WritePages, claim_fsm_range
  <2>2. S \subseteq 1..nblocks /\ \A b \in S : page[b] = Marker
    BY <2>1 DEF Marked
  <2>3. nblocks' = nblocks
    BY <2>2 DEF WritePages
  <2>4. fsm' \subseteq Block
    BY <1>t DEF WritePages
  <2> QED BY <2>2, <2>3, <2>4, <1>3, <1>5, <1>6, <1>w, <1>t DEF Block
<1>8. CASE claim_fsm_range(n) = {}
  <2>1. S = (nblocks + 1)..(nblocks + n) /\ nblocks + n <= MaxBlock
    BY <1>8 DEF WritePages
  <2>2. ~(S \subseteq 1..nblocks)
    BY <2>1, <1>t DEF Block
  <2>3. nblocks' = nblocks + n
    BY <2>2 DEF WritePages
  <2>4. fsm' \subseteq Block
    BY <1>t DEF WritePages
  <2> QED BY <2>1, <2>3, <2>4, <1>3, <1>5, <1>6, <1>w, <1>t DEF Block
<1> QED BY <1>7, <1>8

(***************************************************************************)
(* Consequences of the invariant                                           *)
(***************************************************************************)
\* Every block somebody reads, writes or hands over is below the end of the
\* relation, and recyclable only under the extension lock of its owner.
Taken == Public \cup Appended \cup (UNION {Own(m) : m \in Maintainer})

LEMMA TakenUsed ==
    ASSUME ReclamationAssumption, IInv, NEW b \in Taken
    PROVE  /\ b \in Block /\ b <= nblocks
           /\ page[b] = Marker =>
                \E m \in Maintainer : extender = m /\ b \in Frees(m)
<1> USE DEF ReclamationAssumption
<1>t. nblocks \in Block
  BY DEF IInv, TypeOK
<1>1. CASE b \in DOMAIN root.refs \cup root.retired
  BY <1>1, <1>t DEF IInv, RootSound, Sound, Block
<1>2. ASSUME NEW r \in Reader, b \in DOMAIN reading[r]
      PROVE  b \in Block /\ b <= nblocks /\ page[b] # Marker
  BY <1>2 DEF IInv, PagesHeld, Held, Intact
<1>3. ASSUME NEW m \in Maintainer, b \in DOMAIN Reads(m) \cup DOMAIN Stages(m)
      PROVE  b \in Block /\ b <= nblocks /\ page[b] # Marker
  BY <1>3 DEF IInv, PagesHeld, Held, Intact
<1>4. ASSUME NEW a \in Appender, b \in DOMAIN appending[a]
      PROVE  b \in Block /\ b <= nblocks /\ page[b] # Marker
  BY <1>4 DEF IInv, PagesHeld, Held, Intact
<1>5. ASSUME NEW m \in Maintainer, b \in Frees(m)
      PROVE  b \in Block /\ b <= nblocks /\ (page[b] = Marker => extender = m)
  BY <1>5, <1>t DEF IInv, FreesUnmarked, Block
<1>6. (b \in Public \/ b \in Appended) \/ \E m \in Maintainer : b \in Own(m)
  BY DEF Taken
<1>7. \/ b \in DOMAIN root.refs \cup root.retired
      \/ \E r \in Reader : b \in DOMAIN reading[r]
      \/ \E m \in Maintainer : b \in DOMAIN Reads(m) \cup DOMAIN Stages(m)
      \/ \E a \in Appender : b \in DOMAIN appending[a]
      \/ \E m \in Maintainer : b \in Frees(m)
  BY <1>6 DEF Public, Appended, Own
<1> QED BY <1>1, <1>2, <1>3, <1>4, <1>5, <1>7

\* Pages are written where nobody is.
LEMMA WrittenApart ==
    ASSUME ReclamationAssumption, IInv,
           NEW n \in Nat \ {0}, NEW S \in SUBSET Block, Cardinality(S) = n,
           WritePages(n, S)
    PROVE  /\ Taken \cap S = {}
           /\ \A b \in Taken : page'[b] = page[b] /\ b <= nblocks'
<1> USE DEF ReclamationAssumption
<1>1. /\ \A b \in Block : b \notin S => page'[b] = page[b]
      /\ \A b \in S : b > nblocks \/ page[b] = Marker
      /\ nblocks' \in Block /\ nblocks <= nblocks'
      /\ extender = Nobody
  BY Written DEF IInv, Shapes
<1>2. Nobody \notin Maintainer
  BY DEF Nobody
<1>3. \A b \in Taken : b \in Block /\ b <= nblocks /\ page[b] # Marker
  BY <1>1, <1>2, TakenUsed
<1>4. nblocks \in Block
  BY DEF IInv, TypeOK
<1>5. \A b \in Taken : b \notin S
  BY <1>1, <1>3, <1>4 DEF Block
<1> QED BY <1>1, <1>3, <1>4, <1>5 DEF Block

(***************************************************************************)
(* Steps: readers and appends                                              *)
(***************************************************************************)
\* What a pass reads, writes and frees follows from its own state.
LEMMA PassUnchanged ==
    ASSUME NEW m \in Maintainer, pass'[m] = pass[m]
    PROVE  /\ Building(m)' = Building(m) /\ Reads(m)' = Reads(m)
           /\ Stages(m)' = Stages(m) /\ Frees(m)' = Frees(m)
           /\ Own(m)' = Own(m)
<1>1. Building(m)' = Building(m)
  BY DEF Building
<1>2. Reads(m)' = Reads(m) /\ Stages(m)' = Stages(m) /\ Frees(m)' = Frees(m)
  BY <1>1 DEF Reads, Stages, Frees
<1> QED BY <1>1, <1>2 DEF Own

LEMMA ReaderStep ==
    ASSUME ReclamationAssumption, IInv, NEW r \in Reader,
           ReaderOpen(r) \/ ReaderClose(r)
    PROVE  IInv'
<1> USE DEF ReclamationAssumption
<1>u. UNCHANGED <<page, nblocks, fsm, root, durable, appending, pass, fence,
                  extender, writes, faults>>
  BY DEF ReaderOpen, ReaderClose
<1>r. /\ DOMAIN reading' = Reader
      /\ \A q \in Reader : q # r => reading'[q] = reading[q]
      /\ reading'[r] \in {root.refs, Nothing}
  BY DEF ReaderOpen, ReaderClose, IInv, Shapes
<1>f. reading'[r] # Nothing => fence = Nobody
  BY <1>r DEF ReaderOpen, ReaderClose, IInv, Shapes
<1>p. \A m \in Maintainer :
        /\ Building(m)' = Building(m) /\ Reads(m)' = Reads(m)
        /\ Stages(m)' = Stages(m) /\ Frees(m)' = Frees(m)
        /\ Own(m)' = Own(m)
  BY <1>u, PassUnchanged
<1>1. TypeOK' /\ Shapes' /\ RootSound' /\ DurableSound'
  BY <1>u, <1>r DEF IInv, TypeOK, Shapes, RootSound, DurableSound, Sound, Block
<1>2. PagesHeld'
  <2>1. Held(root.refs)
    BY DEF IInv, RootSound, Sound, Held, Intact, Block
  <2>2. Held(Nothing)
    BY NothingEmpty DEF Held, Intact
  <2> QED BY <1>u, <1>r, <1>p, <2>1, <2>2 DEF IInv, PagesHeld, Held, Intact
<1>3. FreesUnmarked'
  BY <1>u, <1>p DEF IInv, FreesUnmarked
<1>4. OwnApart'
  <2>1. Public' \subseteq Public
    BY <1>u, <1>p, <1>r, NothingEmpty DEF Public
  <2>2. Appended' = Appended
    BY <1>u DEF Appended
  <2> QED BY <1>u, <1>p, <2>1, <2>2 DEF IInv, OwnApart
<1>5. PassesSound'
  BY <1>u, <1>p DEF IInv, PassesSound, PassSound, PlanSound
<1>6. FenceSound'
  BY <1>u, <1>r, <1>f DEF IInv, FenceSound, Alone, Nobody
<1>7. EveryBlockKnown'
  BY <1>u, <1>p DEF IInv, EveryBlockKnown, Appended
<1> QED BY <1>1, <1>2, <1>3, <1>4, <1>5, <1>6, <1>7 DEF IInv

LEMMA AppendWriteStep ==
    ASSUME ReclamationAssumption, IInv, NEW a \in Appender, AppendWrite(a)
    PROVE  IInv'
<1> USE DEF ReclamationAssumption
<1>1. PICK S \in SUBSET Block :
        /\ Cardinality(S) = 1 /\ WritePages(1, S)
        /\ appending' = [appending EXCEPT ![a] = [b \in S |-> page'[b]]]
  BY DEF AppendWrite
<1>u. UNCHANGED <<root, durable, reading, pass, fence, extender, faults>>
  BY DEF AppendWrite
<1>w. /\ page' \in [Block -> 0..MaxWrite]
      /\ \A b \in Block : b \notin S => page'[b] = page[b]
      /\ \A b \in S : page'[b] # Marker
      /\ nblocks' \in Block /\ nblocks <= nblocks'
      /\ \A b \in S : b <= nblocks'
      /\ \A b \in 1..nblocks' : b <= nblocks \/ b \in S
      /\ fsm' \subseteq Block
      /\ writes' \in 1..MaxWrite
      /\ extender = Nobody
  BY <1>1, Written DEF IInv, Shapes
<1>t. /\ Taken \cap S = {}
      /\ \A b \in Taken : page'[b] = page[b] /\ b <= nblocks'
  BY <1>1, WrittenApart
<1>a. /\ DOMAIN appending' = Appender
      /\ DOMAIN appending'[a] = S /\ \A b \in S : appending'[a][b] = page'[b]
      /\ \A c \in Appender : c # a => appending'[c] = Nothing
      /\ \A c \in Appender : appending[c] = Nothing
      /\ fence = Nobody
  <2>1. DOMAIN appending = Appender
    BY DEF IInv, Shapes
  <2>2. appending'[a] = [b \in S |-> page'[b]]
    BY <1>1, <2>1
  <2> QED BY <1>1, <2>1, <2>2 DEF AppendWrite
<1>p. \A m \in Maintainer :
        /\ Building(m)' = Building(m) /\ Reads(m)' = Reads(m)
        /\ Stages(m)' = Stages(m) /\ Frees(m)' = Frees(m)
        /\ Own(m)' = Own(m)
  BY <1>u, PassUnchanged
<1>k. /\ \A b \in DOMAIN root.refs \cup root.retired : b \in Taken
      /\ \A r \in Reader : DOMAIN reading[r] \subseteq Taken
      /\ \A m \in Maintainer : /\ DOMAIN Reads(m) \subseteq Taken
                               /\ DOMAIN Stages(m) \subseteq Taken
                               /\ Frees(m) \subseteq Taken
  BY DEF Taken, Public, Own
<1>2. TypeOK' /\ Shapes'
  BY <1>u, <1>w, <1>a DEF IInv, TypeOK, Shapes
<1>3. RootSound'
  <2>1. root.hwm <= nblocks'
    BY <1>w DEF IInv, RootSound, Sound, Block
  <2> QED BY <1>u, <1>w, <1>t, <1>k, <2>1 DEF IInv, RootSound, Sound
<1>4. DurableSound'
  BY <1>u DEF IInv, DurableSound, Sound, Block
<1>5. PagesHeld'
  <2>1. \A r \in Reader : Held(reading[r])'
    BY <1>u, <1>t, <1>k DEF IInv, PagesHeld, Held, Intact
  <2>2. \A c \in Appender : Held(appending[c])'
    BY <1>w, <1>a, NothingEmpty DEF Held, Intact
  <2>3. \A m \in Maintainer : Held(Reads(m))' /\ Held(Stages(m))'
    <3> TAKE m \in Maintainer
    <3>1. Held(Reads(m)) /\ Held(Stages(m))
      BY DEF IInv, PagesHeld
    <3> QED BY <1>p, <1>t, <1>k, <3>1 DEF Held, Intact
  <2> QED BY <2>1, <2>2, <2>3 DEF PagesHeld
<1>6. FreesUnmarked'
  <2> SUFFICES ASSUME NEW m \in Maintainer, NEW b \in Frees(m)
               PROVE  b \in 1..nblocks' /\ (page'[b] = Marker =>
                        pass[m].at = "marking" /\ extender = m)
    BY <1>u, <1>p DEF FreesUnmarked
  <2> QED BY <1>t, <1>k, <1>w DEF IInv, FreesUnmarked, Block
<1>7. OwnApart'
  <2>1. Public' = Public
    BY <1>u, <1>p DEF Public
  <2>2. Appended' = S
    BY <1>a, NothingEmpty DEF Appended
  <2>3. Public \cap S = {} /\ \A m \in Maintainer : Own(m) \cap S = {}
    BY <1>t DEF Taken
  <2>4. \A c, d \in Appender :
           c # d => DOMAIN appending'[c] \cap DOMAIN appending'[d] = {}
    BY <1>a, NothingEmpty
  <2> QED BY <1>p, <2>1, <2>2, <2>3, <2>4 DEF IInv, OwnApart
<1>8. PassesSound'
  BY <1>u, <1>p DEF IInv, PassesSound, PassSound, PlanSound
<1>9. FenceSound'
  BY <1>u, <1>a DEF IInv, FenceSound, Nobody
<1>10. EveryBlockKnown'
  <2> SUFFICES ASSUME faults = 0, NEW b \in 1..nblocks'
               PROVE  \/ b \in DOMAIN root.refs \cup root.retired
                      \/ page'[b] = Marker
                      \/ b \in Appended'
                      \/ \E m \in Maintainer : b \in Own(m)
    BY <1>u, <1>p DEF EveryBlockKnown
  <2>1. CASE b \in S
    BY <2>1, <1>a DEF Appended
  <2>2. CASE b \notin S
    <3>1. b \in 1..nblocks /\ b \in Block
      BY <2>2, <1>w DEF IInv, TypeOK, Block
    <3>2. page'[b] = page[b]
      BY <2>2, <3>1, <1>w
    <3>3. Appended = {}
      BY <1>a, NothingEmpty DEF Appended
    <3> QED BY <3>1, <3>2, <3>3 DEF IInv, EveryBlockKnown
  <2> QED BY <2>1, <2>2
<1> QED BY <1>2, <1>3, <1>4, <1>5, <1>6, <1>7, <1>8, <1>9, <1>10 DEF IInv

LEMMA AppendPublishStep ==
    ASSUME ReclamationAssumption, IInv, NEW a \in Appender, AppendPublish(a)
    PROVE  IInv'
<1> USE DEF ReclamationAssumption
<1> DEFINE new == Over(appending[a], root.refs)
<1>u. UNCHANGED <<page, nblocks, fsm, durable, reading, pass, fence, extender,
                  writes, faults>>
  BY DEF AppendPublish
<1>r. /\ DOMAIN root' = {"id", "refs", "manifest", "retired", "hwm"}
      /\ root'.refs = new /\ root'.hwm = nblocks
      /\ root'.manifest = root.manifest /\ root'.retired = root.retired
  <2>1. DOMAIN root = {"id", "refs", "manifest", "retired", "hwm"}
    BY DEF IInv, RootSound, Sound
  <2> HIDE DEF new
  <2>2. root' = [root EXCEPT !.refs = new, !.hwm = nblocks]
    BY DEF AppendPublish, new
  <2> QED BY <2>1, <2>2
<1>n. /\ DOMAIN new = DOMAIN appending[a] \cup DOMAIN root.refs
      /\ \A b \in DOMAIN appending[a] : new[b] = appending[a][b]
      /\ \A b \in DOMAIN root.refs : b \notin DOMAIN appending[a] =>
            new[b] = root.refs[b]
  BY Merged
<1> HIDE DEF new
<1>a. /\ DOMAIN appending' = Appender
      /\ DOMAIN appending'[a] = {}
      /\ \A c \in Appender : c # a => appending'[c] = appending[c]
      /\ \A c \in Appender : appending'[c] \in {appending[c], Nothing}
  BY NothingEmpty DEF AppendPublish, IInv, Shapes
<1>h. Held(appending[a]) /\ Held(root.refs)
  BY DEF IInv, PagesHeld, RootSound, Sound, Held, Intact, Block
<1>d. DOMAIN appending[a] \subseteq Appended
  BY DEF Appended
<1>p. \A m \in Maintainer :
        /\ Building(m)' = Building(m) /\ Reads(m)' = Reads(m)
        /\ Stages(m)' = Stages(m) /\ Frees(m)' = Frees(m)
        /\ Own(m)' = Own(m)
  BY <1>u, PassUnchanged
<1>t. page \in [Block -> 0..MaxWrite] /\ nblocks \in Block
  BY DEF IInv, TypeOK
<1>2. RootSound'
  <2>1. /\ root.hwm <= nblocks /\ root.hwm \in Block
        /\ DOMAIN root.refs \subseteq 1..root.hwm
        /\ root.retired \subseteq 1..root.hwm
        /\ root.manifest \in DOMAIN root.refs
        /\ \A b \in root.retired : page[b] # Marker
        /\ root.retired \cap DOMAIN root.refs = {}
    BY DEF IInv, RootSound, Sound
  <2>2. DOMAIN new \subseteq 1..nblocks /\ root.retired \subseteq 1..nblocks
    BY <1>n, <1>h, <2>1, <1>t DEF Held, Intact, Block
  <2>3. root.retired \cap DOMAIN new = {}
    BY <1>n, <1>d, <2>1 DEF IInv, OwnApart, Public
  <2>4. \A b \in DOMAIN new : page[b] = new[b] /\ page[b] # Marker
    BY <1>n, <1>h DEF Held, Intact
  <2>5. nblocks <= nblocks
    BY <1>t DEF Block
  <2> QED BY <1>r, <1>n, <1>u, <1>t, <2>1, <2>2, <2>3, <2>4, <2>5 DEF RootSound, Sound
<1>1. TypeOK' /\ Shapes'
  <2>1. nblocks \in Block /\ DOMAIN new \subseteq Block /\ root.retired \subseteq Block
    BY <1>n, <1>h, <1>t DEF IInv, TypeOK, Held
  <2> QED BY <1>u, <1>r, <1>a, <2>1 DEF IInv, TypeOK, Shapes
<1>3. DurableSound'
  BY <1>u DEF IInv, DurableSound, Sound, Block
<1>4. PagesHeld'
  <2>1. \A c \in Appender : Held(appending[c])'
    BY <1>a, <1>u, NothingEmpty DEF IInv, PagesHeld, Held, Intact
  <2>2. \A r \in Reader : Held(reading[r])'
    BY <1>u DEF IInv, PagesHeld, Held, Intact
  <2>3. \A m \in Maintainer : Held(Reads(m))' /\ Held(Stages(m))'
    BY <1>u, <1>p DEF IInv, PagesHeld, Held, Intact
  <2> QED BY <2>1, <2>2, <2>3 DEF PagesHeld
<1>5. FreesUnmarked'
  BY <1>u, <1>p DEF IInv, FreesUnmarked
<1>6. OwnApart'
  <2>1. Public' = Public \cup DOMAIN appending[a]
    BY <1>u, <1>r, <1>n, <1>p DEF Public
  <2>2. Appended' = Appended \ DOMAIN appending[a]
    <3>1. \A c \in Appender : c # a =>
             DOMAIN appending[c] \cap DOMAIN appending[a] = {}
      BY DEF IInv, OwnApart
    <3>2. \A b : b \in Appended' <=> \E c \in Appender : b \in DOMAIN appending'[c]
      BY DEF Appended
    <3>3. \A b : b \in Appended <=> \E c \in Appender : b \in DOMAIN appending[c]
      BY DEF Appended
    <3> QED BY <1>a, <3>1, <3>2, <3>3
  <2>3. \A c, d \in Appender :
           c # d => DOMAIN appending'[c] \cap DOMAIN appending'[d] = {}
    BY <1>a, NothingEmpty DEF IInv, OwnApart
  <2> QED BY <1>p, <1>d, <2>1, <2>2, <2>3 DEF IInv, OwnApart
<1>7. PassesSound'
  <2>1. DOMAIN root.refs \subseteq DOMAIN root'.refs
    BY <1>r, <1>n
  <2> QED BY <1>u, <1>r, <1>p, <2>1 DEF IInv, PassesSound, PassSound, PlanSound
<1>8. FenceSound'
  BY <1>u, <1>a DEF IInv, FenceSound, Alone
<1>9. EveryBlockKnown'
  <2>1. \A b \in Appended : b \in Appended' \/ b \in DOMAIN appending[a]
    BY <1>a DEF Appended
  <2> QED BY <1>u, <1>p, <1>r, <1>n, <2>1 DEF IInv, EveryBlockKnown
<1> QED BY <1>1, <1>2, <1>3, <1>4, <1>5, <1>6, <1>7, <1>8, <1>9 DEF IInv

LEMMA AppendFailStep ==
    ASSUME ReclamationAssumption, IInv, NEW a \in Appender, AppendFail(a)
    PROVE  IInv'
<1> USE DEF ReclamationAssumption
<1>u. UNCHANGED <<page, nblocks, fsm, root, durable, reading, pass, fence,
                  extender, writes>>
  BY DEF AppendFail
<1>a. /\ DOMAIN appending' = Appender
      /\ \A c \in Appender : appending'[c] \in {appending[c], Nothing}
  BY DEF AppendFail, IInv, Shapes
<1>f. faults' \in 0..MaxFault /\ faults' # 0
  BY DEF AppendFail, IInv, TypeOK
<1>p. \A m \in Maintainer :
        /\ Building(m)' = Building(m) /\ Reads(m)' = Reads(m)
        /\ Stages(m)' = Stages(m) /\ Frees(m)' = Frees(m)
        /\ Own(m)' = Own(m)
  BY <1>u, PassUnchanged
<1>1. TypeOK' /\ Shapes' /\ RootSound' /\ DurableSound'
  BY <1>u, <1>a, <1>f DEF IInv, TypeOK, Shapes, RootSound, DurableSound, Sound, Block
<1>2. PagesHeld'
  <2>1. \A c \in Appender : Held(appending[c])'
    BY <1>u, <1>a, NothingEmpty DEF IInv, PagesHeld, Held, Intact
  <2>2. \A r \in Reader : Held(reading[r])'
    BY <1>u DEF IInv, PagesHeld, Held, Intact
  <2>3. \A m \in Maintainer : Held(Reads(m))' /\ Held(Stages(m))'
    BY <1>u, <1>p DEF IInv, PagesHeld, Held, Intact
  <2> QED BY <2>1, <2>2, <2>3 DEF PagesHeld
<1>3. FreesUnmarked'
  BY <1>u, <1>p DEF IInv, FreesUnmarked
<1>4. OwnApart'
  <2>1. Public' = Public
    BY <1>u, <1>p DEF Public
  <2>2. Appended' \subseteq Appended
    BY <1>a, NothingEmpty DEF Appended
  <2>3. \A c, d \in Appender :
           c # d => DOMAIN appending'[c] \cap DOMAIN appending'[d] = {}
    BY <1>a, NothingEmpty DEF IInv, OwnApart
  <2> QED BY <1>p, <2>1, <2>2, <2>3 DEF IInv, OwnApart
<1>5. PassesSound'
  BY <1>u, <1>p DEF IInv, PassesSound, PassSound, PlanSound
<1>6. FenceSound'
  BY <1>u, <1>a DEF IInv, FenceSound, Alone
<1>7. EveryBlockKnown'
  BY <1>f DEF EveryBlockKnown
<1> QED BY <1>1, <1>2, <1>3, <1>4, <1>5, <1>6, <1>7 DEF IInv

(***************************************************************************)
(* Steps: copy-on-write passes                                             *)
(***************************************************************************)
\* A pass begins with the root as it is, whatever it replaces of it.
LEMMA StartStep ==
    ASSUME ReclamationAssumption, IInv, NEW m \in Maintainer,
           NEW R, NEW plan, NEW objects \in 1..2, Start(m, R, plan, objects),
           R \subseteq DOMAIN root.refs,
           plan.retired \cup plan.handoff
             = root.retired \cup R \cup {root.manifest},
           plan.retired \cap plan.handoff = {},
           plan.fenced <=> plan.handoff # {}
    PROVE  IInv'
<1> USE DEF ReclamationAssumption
<1> DEFINE w == [at |-> "staging", build |-> root, replaced |-> R,
                 plan |-> plan, todo |-> objects, staged |-> Nothing,
                 manifest |-> 0, marking |-> {}]
<1>u. UNCHANGED <<page, nblocks, fsm, root, durable, reading, appending,
                  fence, extender, writes, faults>>
  BY DEF Start
<1>s. pass[m].at = "idle" /\ fence = Nobody
  BY DEF Start
<1>w. /\ DOMAIN w = {"at", "build", "replaced", "plan", "todo", "staged",
                     "manifest", "marking"}
      /\ w.at = "staging" /\ w.build = root /\ w.replaced = R /\ w.plan = plan
      /\ w.todo = objects /\ w.staged = Nothing /\ w.marking = {}
  OBVIOUS
<1>d. DOMAIN pass = Maintainer
  BY DEF IInv, Shapes
<1>p. /\ DOMAIN pass' = Maintainer /\ pass'[m] = w
      /\ \A k \in Maintainer : k # m => pass'[k] = pass[k]
  BY <1>d DEF Start
<1> HIDE DEF w
<1>o. \A k \in Maintainer : k # m =>
        /\ Building(k)' = Building(k) /\ Reads(k)' = Reads(k)
        /\ Stages(k)' = Stages(k) /\ Frees(k)' = Frees(k)
        /\ Own(k)' = Own(k)
  BY <1>p, PassUnchanged
<1>m. /\ Building(m)' /\ Reads(m)' = root.refs /\ Stages(m)' = Nothing
      /\ Frees(m)' = {} /\ Own(m)' = {}
  BY <1>p, <1>w, NothingEmpty DEF Building, Reads, Stages, Frees, Own
<1>b. /\ ~Building(m) /\ Reads(m) = Nothing /\ Stages(m) = Nothing
      /\ Frees(m) = {} /\ Own(m) = {}
  BY <1>s, NothingEmpty DEF Building, Reads, Stages, Frees, Own
<1>1. TypeOK' /\ Shapes' /\ RootSound' /\ DurableSound'
  BY <1>u, <1>p DEF IInv, TypeOK, Shapes, RootSound, DurableSound, Sound, Block
<1>2. PagesHeld'
  <2>1. Held(root.refs) /\ Held(Nothing)
    BY NothingEmpty DEF IInv, RootSound, Sound, Held, Intact, Block
  <2>2. \A k \in Maintainer : Held(Reads(k))' /\ Held(Stages(k))'
    <3> TAKE k \in Maintainer
    <3>1. Held(Reads(k)) /\ Held(Stages(k))
      BY DEF IInv, PagesHeld
    <3> QED BY <1>u, <1>o, <1>m, <2>1, <3>1 DEF Held, Intact
  <2>3. \A r \in Reader : Held(reading[r])'
    BY <1>u DEF IInv, PagesHeld, Held, Intact
  <2>4. \A c \in Appender : Held(appending[c])'
    BY <1>u DEF IInv, PagesHeld, Held, Intact
  <2> QED BY <2>2, <2>3, <2>4 DEF PagesHeld
<1>3. FreesUnmarked'
  BY <1>u, <1>p, <1>o, <1>m DEF IInv, FreesUnmarked
<1>4. OwnApart'
  <2>1. Public' = Public
    BY <1>u, <1>o, <1>m, <1>b, NothingEmpty DEF Public
  <2>2. Appended' = Appended
    BY <1>u DEF Appended
  <2> QED BY <1>u, <1>o, <1>m, <2>1, <2>2 DEF IInv, OwnApart
<1>5. PassesSound'
  <2> SUFFICES ASSUME NEW k \in Maintainer
               PROVE  PassSound(k)'
    BY DEF PassesSound
  <2>1. CASE k = m
    <3>1. root.manifest \in DOMAIN root.refs
      BY DEF IInv, RootSound, Sound
    <3>2. PlanSound(w)
      BY <1>w, <3>1 DEF PlanSound
    <3> QED BY <2>1, <1>u, <1>p, <1>w, <1>m, <3>2 DEF PassSound
  <2>2. CASE k # m
    BY <2>2, <1>u, <1>p, <1>o DEF IInv, PassesSound, PassSound, PlanSound
  <2> QED BY <2>1, <2>2
<1>6. FenceSound'
  BY <1>u, <1>s, <1>p, <1>w DEF IInv, FenceSound, Alone, Nobody
<1>7. EveryBlockKnown'
  <2>1. \A b, k : k \in Maintainer /\ b \in Own(k) => b \in Own(k)'
    BY <1>o, <1>b
  <2> QED BY <1>u, <2>1 DEF IInv, EveryBlockKnown, Appended
<1> QED BY <1>1, <1>2, <1>3, <1>4, <1>5, <1>6, <1>7 DEF IInv

LEMMA StartRewriteStep ==
    ASSUME ReclamationAssumption, IInv, NEW m \in Maintainer, StartRewrite(m)
    PROVE  IInv'
<1>1. PICK R \in SUBSET (DOMAIN root.refs \ {root.manifest}) :
        Start(m, R, prepare_retired_ranges(root, R), 2)
  BY DEF StartRewrite
<1> DEFINE plan == prepare_retired_ranges(root, R)
<1>2. /\ plan.retired \cup plan.handoff
           = root.retired \cup R \cup {root.manifest}
      /\ plan.retired \cap plan.handoff = {}
      /\ plan.fenced <=> plan.handoff # {}
  BY DEF prepare_retired_ranges
<1>3. R \subseteq DOMAIN root.refs
  OBVIOUS
<1>4. Start(m, R, plan, 2)
  BY <1>1
<1> HIDE DEF plan
<1> QED BY <1>2, <1>3, <1>4, StartStep

LEMMA StartReclaimStep ==
    ASSUME ReclamationAssumption, IInv, NEW m \in Maintainer, StartReclaim(m)
    PROVE  IInv'
<1> DEFINE plan == prepare_cow_reclaim_ranges(root)
<1>1. root.manifest \notin root.retired /\ root.retired \in SUBSET Nat
  BY DEF IInv, RootSound, Sound, Block
<1>3. root.retired # {}
  <2> SUFFICES ASSUME root.retired = {} PROVE FALSE
    OBVIOUS
  <2>1. {b \in root.retired : (b - 1) \notin root.retired} = {}
    OBVIOUS
  <2>2. RangeCount(root.retired) = 0 /\ Cardinality(root.retired) = 0
    BY <2>1, FS_EmptySet DEF RangeCount
  <2> QED BY <2>2 DEF StartReclaim, retired_reclamation_due, ReclamationAssumption
<1>4. Reclaimed(root) # {}
  <2>1. PICK b \in root.retired : \A c \in root.retired : b <= c
    BY <1>1, <1>3, FirstBlock
  <2>2. {c \in root.retired : c < b} = {}
    BY <1>1, <2>1
  <2>3. Cardinality({c \in root.retired : c < b}) = 0
    BY <2>2, FS_EmptySet
  <2> QED BY <2>1, <2>3 DEF Reclaimed, ReclamationAssumption
<1>2. /\ plan.retired \cup plan.handoff
           = root.retired \cup {} \cup {root.manifest}
      /\ plan.retired \cap plan.handoff = {}
      /\ plan.fenced <=> plan.handoff # {}
  BY <1>1, <1>4 DEF prepare_cow_reclaim_ranges, Reclaimed
<1>5. Start(m, {}, plan, 1)
  BY DEF StartReclaim
<1> HIDE DEF plan
<1> QED BY <1>2, <1>5, StartStep

\* A pass moves on without touching a page or the root, and keeps or gives up
\* what it owned.
LEMMA PassMoves ==
    ASSUME ReclamationAssumption, IInv, NEW m \in Maintainer,
           UNCHANGED <<page, nblocks, root, durable, reading, appending, writes>>,
           DOMAIN pass' = Maintainer,
           \A k \in Maintainer : k # m => pass'[k] = pass[k],
           Reads(m)' \in {Reads(m), Nothing}, Stages(m)' \in {Stages(m), Nothing},
           Own(m)' \subseteq Own(m),
           \A b \in Frees(m)' : page[b] = Marker =>
                pass'[m].at = "marking" /\ extender' = m,
           fsm' \subseteq Block,
           faults' \in 0..MaxFault,
           faults' = 0 =>
                faults = 0 /\ \A b \in Own(m) : b \in Own(m)' \/ page[b] = Marker,
           fence' \in Maintainer \cup {Nobody},
           extender' \in Maintainer \cup {Nobody},
           extender' = extender \/ extender \in {Nobody, m},
           PassSound(m)', FenceSound'
    PROVE  IInv'
<1> USE DEF ReclamationAssumption
<1>o. \A k \in Maintainer : k # m =>
        /\ Building(k)' = Building(k) /\ Reads(k)' = Reads(k)
        /\ Stages(k)' = Stages(k) /\ Frees(k)' = Frees(k)
        /\ Own(k)' = Own(k)
  BY PassUnchanged
<1>1. TypeOK' /\ Shapes' /\ RootSound' /\ DurableSound'
  BY DEF IInv, TypeOK, Shapes, RootSound, DurableSound, Sound, Block
<1>2. PagesHeld'
  <2>1. \A k \in Maintainer : Held(Reads(k))' /\ Held(Stages(k))'
    <3> TAKE k \in Maintainer
    <3>1. Held(Reads(k)) /\ Held(Stages(k)) /\ Held(Nothing)
      BY NothingEmpty DEF IInv, PagesHeld, Held, Intact
    <3>2. Reads(k)' \in {Reads(k), Nothing} /\ Stages(k)' \in {Stages(k), Nothing}
      BY <1>o
    <3> QED BY <3>1, <3>2 DEF Held, Intact
  <2>2. \A r \in Reader : Held(reading[r])'
    BY DEF IInv, PagesHeld, Held, Intact
  <2>3. \A c \in Appender : Held(appending[c])'
    BY DEF IInv, PagesHeld, Held, Intact
  <2> QED BY <2>1, <2>2, <2>3 DEF PagesHeld
<1>3. FreesUnmarked'
  <2> SUFFICES ASSUME NEW k \in Maintainer, NEW b \in Frees(k)'
               PROVE  b \in 1..nblocks /\ (page[b] = Marker =>
                        pass'[k].at = "marking" /\ extender' = k)
    BY DEF FreesUnmarked
  <2>1. CASE k = m
    <3>1. b \in Taken
      BY <2>1 DEF Own, Taken
    <3>2. b \in Block /\ b <= nblocks /\ nblocks \in Block
      BY <3>1, TakenUsed DEF IInv, TypeOK
    <3> QED BY <2>1, <3>2 DEF Block
  <2>2. CASE k # m
    <3>1. b \in 1..nblocks /\ (page[b] = Marker =>
             pass[k].at = "marking" /\ extender = k)
      BY <2>2, <1>o DEF IInv, FreesUnmarked
    <3> QED BY <2>2, <3>1 DEF Nobody
  <2> QED BY <2>1, <2>2
<1>4. OwnApart'
  <2>1. Public' \subseteq Public
    <3>1. \A k \in Maintainer : DOMAIN Reads(k)' \subseteq DOMAIN Reads(k)
      BY <1>o, NothingEmpty
    <3> QED BY <3>1 DEF Public
  <2>2. Appended' = Appended
    BY DEF Appended
  <2>3. \A k \in Maintainer : Own(k)' \subseteq Own(k)
    BY <1>o
  <2>4. \A k, l \in Maintainer : k # l => Own(k) \cap Own(l) = {}
    BY DEF IInv, OwnApart
  <2>5. \A k, l \in Maintainer : k # l => Own(k)' \cap Own(l)' = {}
    BY <2>3, <2>4
  <2>6. \A k \in Maintainer : Own(k)' \cap Public' = {} /\ Own(k)' \cap Appended' = {}
    BY <2>1, <2>2, <2>3 DEF IInv, OwnApart
  <2> QED BY <2>1, <2>2, <2>5, <2>6 DEF IInv, OwnApart
<1>5. PassesSound'
  <2> SUFFICES ASSUME NEW k \in Maintainer, k # m PROVE PassSound(k)'
    BY DEF PassesSound
  <2>1. PassSound(k)
    BY DEF IInv, PassesSound
  <2> QED BY <2>1, <1>o DEF PassSound, PlanSound
<1>6. EveryBlockKnown'
  <2> SUFFICES ASSUME faults' = 0, NEW b \in 1..nblocks
               PROVE  \/ b \in DOMAIN root.refs \cup root.retired
                      \/ page[b] = Marker
                      \/ b \in Appended
                      \/ \E k \in Maintainer : b \in Own(k)'
    BY DEF EveryBlockKnown, Appended
  <2>1. \/ b \in DOMAIN root.refs \cup root.retired
        \/ page[b] = Marker
        \/ b \in Appended
        \/ \E k \in Maintainer : b \in Own(k)
    BY DEF IInv, EveryBlockKnown
  <2> QED BY <2>1, <1>o
<1> QED BY <1>1, <1>2, <1>3, <1>4, <1>5, <1>6 DEF IInv

\* What a pass still holds when it only changes its state or what it marks.
LEMMA PassTurned ==
    ASSUME ReclamationAssumption, IInv, NEW m \in Maintainer, NEW w,
           pass' = [pass EXCEPT ![m] = w]
    PROVE  /\ DOMAIN pass' = Maintainer /\ pass'[m] = w
           /\ \A k \in Maintainer : k # m => pass'[k] = pass[k]
  BY DEF IInv, Shapes

LEMMA AcquireFenceStep ==
    ASSUME ReclamationAssumption, IInv, NEW m \in Maintainer, AcquireFence(m)
    PROVE  IInv'
<1> DEFINE w == [pass[m] EXCEPT !.at = "fenced"]
<1>s. /\ pass[m].at = "staging" /\ pass[m].todo = 0 /\ pass[m].plan.fenced
      /\ Alone(m) /\ fence' = m
      /\ pass' = [pass EXCEPT ![m] = w]
      /\ UNCHANGED <<page, nblocks, fsm, root, durable, reading, appending,
                     extender, writes, faults>>
  BY DEF AcquireFence, IInv, Shapes
<1>m. PassSound(m)
  BY DEF IInv, PassesSound
<1>w. /\ DOMAIN w = {"at", "build", "replaced", "plan", "todo", "staged",
                     "manifest", "marking"}
      /\ w.at = "fenced" /\ w.build = pass[m].build
      /\ w.replaced = pass[m].replaced /\ w.plan = pass[m].plan
      /\ w.todo = 0 /\ w.staged = pass[m].staged
      /\ w.manifest = pass[m].manifest /\ w.marking = pass[m].marking
  BY <1>m, <1>s DEF PassSound
<1> HIDE DEF w
<1>p. /\ DOMAIN pass' = Maintainer /\ pass'[m] = w
      /\ \A k \in Maintainer : k # m => pass'[k] = pass[k]
  BY <1>s, PassTurned
<1>b. /\ Building(m) /\ Building(m)'
      /\ Reads(m)' = Reads(m) /\ Stages(m)' = Stages(m) /\ Frees(m)' = Frees(m)
  BY <1>s, <1>p, <1>w DEF Building, Reads, Stages, Frees
<1>1. PassSound(m)'
  BY <1>s, <1>p, <1>w, <1>m, <1>b DEF PassSound, PlanSound
<1>2. FenceSound'
  <2>1. \A k \in Maintainer : k # m => pass'[k].at = "idle"
    BY <1>s, <1>p DEF Alone
  <2>2. Alone(m)'
    BY <1>s, <2>1 DEF Alone
  <2>3. \A k \in Maintainer : extender' = k => pass'[k].at = "marking"
    BY <1>s, <1>p, <1>w DEF IInv, FenceSound
  <2> QED BY <1>s, <1>p, <1>w, <2>1, <2>2, <2>3 DEF FenceSound
<1>3. Own(m)' = Own(m)
  BY <1>b DEF Own
<1>4. fsm' \subseteq Block /\ faults' \in 0..MaxFault
      /\ fence' \in Maintainer \cup {Nobody}
      /\ extender' \in Maintainer \cup {Nobody}
  BY <1>s DEF IInv, TypeOK
<1>5. Frees(m)' = {}
  BY <1>p, <1>w DEF Frees
<1> QED BY <1>s, <1>p, <1>b, <1>1, <1>2, <1>3, <1>4, <1>5, PassMoves

\* The staged pages of a pass that gives up become the pages it marks.
LEMMA GivesUp ==
    ASSUME ReclamationAssumption, IInv, NEW m \in Maintainer,
           Building(m),
           fence' = IF fence = m THEN Nobody ELSE fence,
           pass' = [pass EXCEPT ![m].at = "marking",
                                ![m].marking = DOMAIN pass[m].staged],
           UNCHANGED <<page, nblocks, fsm, root, durable, reading, appending,
                       extender, writes, faults>>
    PROVE  IInv'
<1> DEFINE w == [pass[m] EXCEPT !.at = "marking", !.marking = DOMAIN pass[m].staged]
<1>m. PassSound(m) /\ pass[m].at # "idle"
  BY DEF IInv, PassesSound, Building
<1>s. pass' = [pass EXCEPT ![m] = w]
  BY DEF IInv, Shapes
<1>w. /\ DOMAIN w = {"at", "build", "replaced", "plan", "todo", "staged",
                     "manifest", "marking"}
      /\ w.at = "marking" /\ w.marking = DOMAIN pass[m].staged
      /\ w.staged = pass[m].staged /\ w.plan = pass[m].plan
  BY <1>m DEF PassSound
<1> HIDE DEF w
<1>p. /\ DOMAIN pass' = Maintainer /\ pass'[m] = w
      /\ \A k \in Maintainer : k # m => pass'[k] = pass[k]
  BY <1>s, PassTurned
<1>b. /\ ~Building(m)' /\ Reads(m)' = Nothing /\ Stages(m)' = Nothing
      /\ Frees(m)' = DOMAIN pass[m].staged
      /\ Stages(m) = pass[m].staged /\ Frees(m) = {}
  BY <1>p, <1>w DEF Building, Reads, Stages, Frees
<1>1. PassSound(m)'
  BY <1>p, <1>w, <1>b DEF PassSound
<1>2. FenceSound'
  <2>1. \A k \in Maintainer : fence' = k => k # m /\ fence = k
    BY DEF Nobody, ReclamationAssumption
  <2>2. \A k \in Maintainer : k # m => fence # k
    BY <1>m DEF IInv, FenceSound, Alone
  <2>3. \A k \in Maintainer : pass'[k].at \notin {"fenced", "published"}
    BY <1>p, <1>w, <2>2 DEF IInv, FenceSound
  <2>4. \A k \in Maintainer : extender' = k => pass'[k].at = "marking"
    BY <1>p, <1>w DEF IInv, FenceSound
  <2> QED BY <2>1, <2>2, <2>3, <2>4 DEF FenceSound
<1>3. Own(m)' = Own(m)
  BY <1>b, NothingEmpty DEF Own
<1>4. /\ fsm' \subseteq Block /\ faults' \in 0..MaxFault
      /\ fence' \in Maintainer \cup {Nobody}
      /\ extender' \in Maintainer \cup {Nobody}
  BY DEF IInv, TypeOK
<1>5. \A b \in Frees(m)' : page[b] # Marker
  BY <1>b DEF IInv, PagesHeld, Held
<1> QED BY <1>p, <1>b, <1>1, <1>2, <1>3, <1>4, <1>5, PassMoves

LEMMA FenceBusyStep ==
    ASSUME ReclamationAssumption, IInv, NEW m \in Maintainer, FenceBusy(m)
    PROVE  IInv'
<1>1. pass[m].at = "staging" /\ Building(m)
  BY DEF FenceBusy, Building
<1>2. fence # m
  BY <1>1 DEF IInv, FenceSound
<1> QED BY <1>1, <1>2, GivesUp DEF FenceBusy

LEMMA PublishRefusedStep ==
    ASSUME ReclamationAssumption, IInv, NEW m \in Maintainer, PublishRefused(m)
    PROVE  IInv'
<1>1. Building(m)
  BY DEF PublishRefused, ReadyToPublish, Building
<1> QED BY <1>1, GivesUp DEF PublishRefused

LEMMA UnfenceStep ==
    ASSUME ReclamationAssumption, IInv, NEW m \in Maintainer, Unfence(m)
    PROVE  IInv'
<1> DEFINE w == [pass[m] EXCEPT !.at = "marking", !.marking = pass[m].plan.handoff]
<1>s. /\ pass[m].at = "published"
      /\ pass' = [pass EXCEPT ![m] = w]
      /\ fence' = IF fence = m THEN Nobody ELSE fence
      /\ UNCHANGED <<page, nblocks, fsm, root, durable, reading, appending,
                     extender, writes, faults>>
  BY DEF Unfence, IInv, Shapes
<1>m. PassSound(m)
  BY DEF IInv, PassesSound
<1>w. /\ DOMAIN w = {"at", "build", "replaced", "plan", "todo", "staged",
                     "manifest", "marking"}
      /\ w.at = "marking" /\ w.marking = pass[m].plan.handoff
      /\ w.staged = pass[m].staged /\ w.plan = pass[m].plan
  BY <1>m, <1>s DEF PassSound
<1> HIDE DEF w
<1>p. /\ DOMAIN pass' = Maintainer /\ pass'[m] = w
      /\ \A k \in Maintainer : k # m => pass'[k] = pass[k]
  BY <1>s, PassTurned
<1>b. /\ ~Building(m)' /\ Reads(m)' = Nothing /\ Stages(m)' = Nothing
      /\ Frees(m)' = pass[m].plan.handoff
      /\ Stages(m) = Nothing /\ Frees(m) = pass[m].plan.handoff
  BY <1>s, <1>p, <1>w DEF Building, Reads, Stages, Frees
<1>1. PassSound(m)'
  BY <1>p, <1>w, <1>b DEF PassSound
<1>2. FenceSound'
  <2>1. fence = m /\ fence' = Nobody
    BY <1>s DEF IInv, FenceSound
  <2>2. \A k \in Maintainer : pass'[k].at \notin {"fenced", "published"}
    BY <1>p, <1>w, <2>1 DEF IInv, FenceSound
  <2>3. \A k \in Maintainer : extender' = k => pass'[k].at = "marking"
    BY <1>s, <1>p, <1>w DEF IInv, FenceSound
  <2>4. Nobody \notin Maintainer
    BY DEF ReclamationAssumption, Nobody
  <2> QED BY <2>1, <2>2, <2>3, <2>4 DEF FenceSound
<1>3. Own(m)' = Own(m)
  BY <1>b DEF Own
<1>4. /\ fsm' \subseteq Block /\ faults' \in 0..MaxFault
      /\ fence' \in Maintainer \cup {Nobody}
      /\ extender' \in Maintainer \cup {Nobody}
  BY <1>s DEF IInv, TypeOK
<1>5. \A b \in Frees(m)' : page[b] # Marker
  BY <1>s, <1>b DEF IInv, FreesUnmarked
<1> QED BY <1>s, <1>p, <1>b, <1>1, <1>2, <1>3, <1>4, <1>5, PassMoves

\* A pass that ends owns nothing.
LEMMA EndsIdle ==
    ASSUME ReclamationAssumption, IInv, NEW m \in Maintainer,
           pass' = [pass EXCEPT ![m] = IdlePass]
    PROVE  /\ DOMAIN pass' = Maintainer
           /\ \A k \in Maintainer : k # m => pass'[k] = pass[k]
           /\ pass'[m].at = "idle"
           /\ ~Building(m)' /\ Reads(m)' = Nothing /\ Stages(m)' = Nothing
           /\ Frees(m)' = {} /\ Own(m)' = {}
           /\ PassSound(m)'
<1>1. /\ DOMAIN pass' = Maintainer /\ pass'[m] = IdlePass
      /\ \A k \in Maintainer : k # m => pass'[k] = pass[k]
  BY PassTurned
<1>2. pass'[m].at = "idle"
  BY <1>1 DEF IdlePass
<1>3. /\ ~Building(m)' /\ Reads(m)' = Nothing /\ Stages(m)' = Nothing
      /\ Frees(m)' = {}
  BY <1>2 DEF Building, Reads, Stages, Frees
<1> QED BY <1>1, <1>2, <1>3, NothingEmpty DEF Own, PassSound

LEMMA RecordFreeStep ==
    ASSUME ReclamationAssumption, IInv, NEW m \in Maintainer, RecordFree(m)
    PROVE  IInv'
<1>s. /\ pass[m].at = "marking" /\ extender \in {Nobody, m}
      /\ \A b \in pass[m].marking : page[b] = Marker
      /\ fsm' = fsm \cup pass[m].marking /\ extender' = Nobody
      /\ pass' = [pass EXCEPT ![m] = IdlePass]
      /\ UNCHANGED <<page, nblocks, root, durable, reading, appending, fence,
                     writes, faults>>
  BY DEF RecordFree
<1>p. /\ DOMAIN pass' = Maintainer
      /\ \A k \in Maintainer : k # m => pass'[k] = pass[k]
      /\ pass'[m].at = "idle"
      /\ ~Building(m)' /\ Reads(m)' = Nothing /\ Stages(m)' = Nothing
      /\ Frees(m)' = {} /\ Own(m)' = {}
      /\ PassSound(m)'
  BY <1>s, EndsIdle
<1>b. Own(m) = pass[m].marking /\ Frees(m) = pass[m].marking
  BY <1>s, NothingEmpty DEF Own, Building, Stages, Frees
<1>n. Nobody \notin Maintainer
  BY DEF ReclamationAssumption, Nobody
<1>1. fsm' \subseteq Block
  <2>1. fsm \subseteq Block /\ Frees(m) \subseteq Block
    BY DEF IInv, TypeOK, FreesUnmarked, Block, ReclamationAssumption
  <2> QED BY <1>s, <1>b, <2>1
<1>2. FenceSound'
  <2>1. \A k \in Maintainer : fence # k
    BY <1>s DEF IInv, FenceSound, Alone
  <2> QED BY <1>s, <1>p, <1>n, <2>1 DEF IInv, FenceSound
<1>3. /\ faults' \in 0..MaxFault
      /\ fence' \in Maintainer \cup {Nobody}
      /\ extender' \in Maintainer \cup {Nobody}
      /\ extender' = extender \/ extender = m
  BY <1>s DEF IInv, TypeOK
<1> QED BY <1>s, <1>p, <1>b, <1>1, <1>2, <1>3, PassMoves

LEMMA PassFailStep ==
    ASSUME ReclamationAssumption, IInv, NEW m \in Maintainer, PassFail(m)
    PROVE  IInv'
<1>s. /\ pass[m].at # "idle" /\ faults < MaxFault /\ faults' = faults + 1
      /\ pass' = [pass EXCEPT ![m] = IdlePass]
      /\ fence' = IF fence = m THEN Nobody ELSE fence
      /\ extender' = IF extender = m THEN Nobody ELSE extender
      /\ UNCHANGED <<page, nblocks, fsm, root, durable, reading, appending, writes>>
  BY DEF PassFail
<1>p. /\ DOMAIN pass' = Maintainer
      /\ \A k \in Maintainer : k # m => pass'[k] = pass[k]
      /\ pass'[m].at = "idle"
      /\ ~Building(m)' /\ Reads(m)' = Nothing /\ Stages(m)' = Nothing
      /\ Frees(m)' = {} /\ Own(m)' = {}
      /\ PassSound(m)'
  BY <1>s, EndsIdle
<1>n. Nobody \notin Maintainer
  BY DEF ReclamationAssumption, Nobody
<1>1. FenceSound'
  <2>1. \A k \in Maintainer : k # m => fence # k
    BY <1>s DEF IInv, FenceSound, Alone
  <2>2. \A k \in Maintainer : fence' # k
    BY <1>s, <1>n, <2>1
  <2>3. \A k \in Maintainer : pass'[k].at \notin {"fenced", "published"}
    BY <1>p, <2>1 DEF IInv, FenceSound
  <2>4. \A k \in Maintainer : extender' = k => k # m /\ extender = k
    BY <1>s, <1>n
  <2> QED BY <1>p, <2>2, <2>3, <2>4 DEF IInv, FenceSound
<1>2. /\ fsm' \subseteq Block /\ faults' \in 0..MaxFault /\ faults' # 0
      /\ fence' \in Maintainer \cup {Nobody}
      /\ extender' \in Maintainer \cup {Nobody}
      /\ extender' = extender \/ extender = m
  BY <1>s DEF IInv, TypeOK, ReclamationAssumption
<1> QED BY <1>s, <1>p, <1>1, <1>2, PassMoves

LEMMA MarkPageStep ==
    ASSUME ReclamationAssumption, IInv, NEW m \in Maintainer, MarkPage(m)
    PROVE  IInv'
<1> USE DEF ReclamationAssumption
<1> DEFINE left == {b \in pass[m].marking : page[b] # Marker}
<1> DEFINE first == CHOOSE b \in left : \A c \in left : b <= c
<1>s. /\ pass[m].at = "marking" /\ extender \in {Nobody, m} /\ left # {}
      /\ extender' = m
      /\ page' = [page EXCEPT ![first] = Marker]
      /\ UNCHANGED <<nblocks, fsm, root, durable, reading, appending, pass,
                     fence, writes, faults>>
  BY DEF MarkPage
<1>b. Own(m) = pass[m].marking /\ Frees(m) = pass[m].marking /\ ~Building(m)
  BY <1>s, NothingEmpty DEF Own, Building, Stages, Frees
<1>l. left \subseteq Nat
  BY <1>b DEF IInv, FreesUnmarked
<1>c. first \in left
  <2> HIDE DEF left
  <2>1. \E b \in left : \A c \in left : b <= c
    BY <1>s, <1>l, FirstBlock
  <2> QED BY <2>1
<1> HIDE DEF left
<1>d. first \in Own(m) /\ first \in Block
  <2>1. first \in pass[m].marking
    BY <1>c DEF left
  <2> QED BY <2>1, <1>b DEF IInv, FreesUnmarked, TypeOK, Block
<1> HIDE DEF first
<1>g. page' \in [Block -> 0..MaxWrite] /\ \A b \in Block : b # first => page'[b] = page[b]
  BY <1>s, <1>d DEF IInv, TypeOK, Marker
<1>p. \A k \in Maintainer :
        /\ Building(k)' = Building(k) /\ Reads(k)' = Reads(k)
        /\ Stages(k)' = Stages(k) /\ Frees(k)' = Frees(k)
        /\ Own(k)' = Own(k)
  BY <1>s, PassUnchanged
<1>e. /\ first \notin Public /\ first \notin Appended
      /\ \A k \in Maintainer : k # m => first \notin Own(k)
      /\ Stages(m) = Nothing
  BY <1>d, <1>b DEF IInv, OwnApart, Stages
<1>n. Nobody \notin Maintainer
  BY DEF Nobody
<1>1. TypeOK' /\ Shapes'
  BY <1>s, <1>g DEF IInv, TypeOK, Shapes
<1>2. RootSound'
  <2>1. \A b \in DOMAIN root.refs \cup root.retired : page'[b] = page[b]
    <3> TAKE b \in DOMAIN root.refs \cup root.retired
    <3>1. b \in Public
      BY DEF Public
    <3>2. b \in Block
      BY DEF IInv, TypeOK
    <3> QED BY <3>1, <3>2, <1>g, <1>e
  <2> QED BY <1>s, <1>g, <2>1 DEF IInv, RootSound, Sound
<1>3. DurableSound'
  BY <1>s DEF IInv, DurableSound, Sound, Block
<1>4. PagesHeld'
  <2>1. \A r \in Reader : Held(reading[r])'
    <3> TAKE r \in Reader
    <3>1. Held(reading[r])
      BY DEF IInv, PagesHeld
    <3>2. DOMAIN reading[r] \subseteq Public
      BY DEF Public
    <3> QED BY <1>s, <1>g, <1>e, <3>1, <3>2 DEF Held, Intact
  <2>2. \A a \in Appender : Held(appending[a])'
    <3> TAKE a \in Appender
    <3>1. Held(appending[a])
      BY DEF IInv, PagesHeld
    <3>2. DOMAIN appending[a] \subseteq Appended
      BY DEF Appended
    <3> QED BY <1>s, <1>g, <1>e, <3>1, <3>2 DEF Held, Intact
  <2>3. \A k \in Maintainer : Held(Reads(k))' /\ Held(Stages(k))'
    <3> TAKE k \in Maintainer
    <3>1. Held(Reads(k)) /\ Held(Stages(k))
      BY DEF IInv, PagesHeld
    <3>2. DOMAIN Reads(k) \subseteq Public /\ first \notin DOMAIN Stages(k)
      BY <1>e, NothingEmpty DEF Public, Own
    <3> QED BY <1>s, <1>g, <1>e, <1>p, <3>1, <3>2 DEF Held, Intact
  <2> QED BY <2>1, <2>2, <2>3 DEF PagesHeld
<1>5. FreesUnmarked'
  <2> SUFFICES ASSUME NEW k \in Maintainer, NEW b \in Frees(k)
               PROVE  b \in 1..nblocks /\ (page'[b] = Marker =>
                        pass[k].at = "marking" /\ extender' = k)
    BY <1>s, <1>p DEF FreesUnmarked
  <2>1. b \in 1..nblocks /\ b \in Block
    BY DEF IInv, FreesUnmarked, TypeOK, Block
  <2>2. CASE k = m
    BY <2>1, <2>2, <1>s
  <2>3. CASE k # m
    <3>1. page[b] # Marker
      BY <2>3, <1>s, <1>n DEF IInv, FreesUnmarked
    <3>2. b # first
      BY <2>3, <1>e DEF Own
    <3> QED BY <2>1, <3>1, <3>2, <1>g
  <2> QED BY <2>2, <2>3
<1>6. OwnApart'
  <2>1. Public' = Public /\ Appended' = Appended
    BY <1>s, <1>p DEF Public, Appended
  <2> QED BY <1>s, <1>p, <2>1 DEF IInv, OwnApart
<1>7. PassesSound'
  BY <1>s, <1>p DEF IInv, PassesSound, PassSound, PlanSound
<1>8. FenceSound'
  BY <1>s DEF IInv, FenceSound, Alone
<1>9. EveryBlockKnown'
  <2>1. Appended' = Appended
    BY <1>s DEF Appended
  <2>2. \A b \in 1..nblocks : b # first /\ page[b] = Marker => page'[b] = Marker
    BY <1>g DEF IInv, TypeOK, Block
  <2> QED BY <1>s, <1>p, <1>d, <2>1, <2>2 DEF IInv, EveryBlockKnown
<1> QED BY <1>1, <1>2, <1>3, <1>4, <1>5, <1>6, <1>7, <1>8, <1>9 DEF IInv

\* The published root, and the blocks that pass from the pass to it.
LEMMA PublishStep ==
    ASSUME ReclamationAssumption, IInv, NEW m \in Maintainer, Publish(m)
    PROVE  IInv'
<1> USE DEF ReclamationAssumption
<1> DEFINE w == pass[m]
           old == w.replaced \cup {w.build.manifest}
           keep == DOMAIN root.refs \ old
           kept == Restrict(root.refs, keep)
           new == Over(w.staged, kept)
           v == IF w.plan.handoff = {} THEN IdlePass
                ELSE [w EXCEPT !.at = "published"]
<1>r. ReadyToPublish(m) /\ SameRoot(m)
  BY DEF Publish
<1>m. PassSound(m) /\ Building(m) /\ w.at \in {"staging", "fenced"} /\ w.todo = 0
  BY <1>r DEF IInv, PassesSound, PassSound, ReadyToPublish, Building
<1>u. UNCHANGED <<page, nblocks, fsm, reading, appending, fence, extender,
                  writes, faults>>
  BY DEF Publish
<1>s. pass' = [pass EXCEPT ![m] = v]
  BY DEF Publish
<1>n. root' = [id |-> page[w.manifest], manifest |-> w.manifest, refs |-> new,
               retired |-> w.plan.retired, hwm |-> nblocks]
      /\ durable' = [page |-> page, nblocks |-> nblocks, root |-> root']
  BY DEF Publish, NextRoot
<1>q. /\ DOMAIN root' = {"id", "refs", "manifest", "retired", "hwm"}
      /\ root'.refs = new /\ root'.hwm = nblocks
      /\ root'.manifest = w.manifest /\ root'.retired = w.plan.retired
  <2> HIDE DEF new, w
  <2> QED BY <1>n
<1>k. /\ DOMAIN new = DOMAIN w.staged \cup keep
      /\ \A b \in DOMAIN w.staged : new[b] = w.staged[b]
      /\ \A b \in keep : b \notin DOMAIN w.staged => new[b] = root.refs[b]
  <2>1. DOMAIN kept = keep /\ \A b \in keep : kept[b] = root.refs[b]
    <3> HIDE DEF keep
    <3> QED BY Restricted
  <2> HIDE DEF kept, keep
  <2>2. /\ DOMAIN Over(w.staged, kept) = DOMAIN w.staged \cup DOMAIN kept
        /\ \A b \in DOMAIN w.staged : Over(w.staged, kept)[b] = w.staged[b]
        /\ \A b \in DOMAIN kept : b \notin DOMAIN w.staged =>
              Over(w.staged, kept)[b] = kept[b]
    BY Merged
  <2> QED BY <2>1, <2>2
<1>v. /\ v.at \in {"idle", "published"}
      /\ v.at = "idle" => w.plan.handoff = {}
      /\ v.at = "published" =>
           /\ DOMAIN v = {"at", "build", "replaced", "plan", "todo", "staged",
                          "manifest", "marking"}
           /\ v.plan = w.plan /\ v.marking = {}
           /\ w.plan.handoff # {}
  <2>1. CASE w.plan.handoff = {}
    BY <2>1 DEF IdlePass
  <2>2. CASE w.plan.handoff # {}
    BY <2>2, <1>m DEF PassSound
  <2> QED BY <2>1, <2>2
<1> HIDE DEF v, new, kept
<1>p. /\ DOMAIN pass' = Maintainer /\ pass'[m] = v
      /\ \A k \in Maintainer : k # m => pass'[k] = pass[k]
  BY <1>s, PassTurned
<1>o. \A k \in Maintainer : k # m =>
        /\ Building(k)' = Building(k) /\ Reads(k)' = Reads(k)
        /\ Stages(k)' = Stages(k) /\ Frees(k)' = Frees(k)
        /\ Own(k)' = Own(k)
  BY <1>p, PassUnchanged
<1>b. /\ ~Building(m)' /\ Reads(m)' = Nothing /\ Stages(m)' = Nothing
      /\ Frees(m)' = w.plan.handoff /\ Own(m)' = w.plan.handoff
      /\ Stages(m) = w.staged /\ Reads(m) = w.build.refs /\ Frees(m) = {}
      /\ Own(m) = DOMAIN w.staged
  BY <1>p, <1>v, <1>m, NothingEmpty DEF Building, Reads, Stages, Frees, Own
<1>t. page \in [Block -> 0..MaxWrite] /\ nblocks \in Block
  BY DEF IInv, TypeOK
<1>g. /\ w.plan.retired \cup w.plan.handoff
           = w.build.retired \cup w.replaced \cup {w.build.manifest}
      /\ w.plan.retired \cap w.plan.handoff = {}
      /\ w.replaced \subseteq DOMAIN w.build.refs
      /\ w.build.manifest \in DOMAIN w.build.refs
      /\ w.plan.fenced <=> w.plan.handoff # {}
      /\ w.manifest \in DOMAIN w.staged
      /\ root.retired = w.build.retired
      /\ DOMAIN w.build.refs \subseteq DOMAIN root.refs
  BY <1>m, <1>r DEF PassSound, PlanSound, SameRoot
<1>h. /\ Held(w.staged) /\ Held(root.refs)
      /\ \A b \in root.retired : b \in 1..nblocks /\ page[b] # Marker
      /\ root.retired \cap DOMAIN root.refs = {}
  <2>1. Held(w.staged)
    BY <1>b DEF IInv, PagesHeld
  <2> QED BY <2>1, <1>t DEF IInv, RootSound, Sound, Held, Intact, Block
<1>a. /\ DOMAIN w.staged \cap Public = {} /\ DOMAIN w.staged \cap Appended = {}
      /\ \A k \in Maintainer : k # m => DOMAIN w.staged \cap Own(k) = {}
      /\ DOMAIN root.refs \subseteq Public /\ root.retired \subseteq Public
  BY <1>b DEF IInv, OwnApart, Public
\* What the plan names was published: old pages of the root, and retired ones.
<1>l. /\ w.plan.retired \subseteq root.retired \cup DOMAIN root.refs
      /\ w.plan.handoff \subseteq root.retired \cup DOMAIN root.refs
      /\ old \subseteq DOMAIN root.refs
      /\ root.retired \cup old = w.plan.retired \cup w.plan.handoff
  BY <1>g
<1>x. /\ w.plan.retired \cap DOMAIN new = {} /\ w.plan.handoff \cap DOMAIN new = {}
  <2> SUFFICES ASSUME NEW b \in w.plan.retired \cup w.plan.handoff, b \in DOMAIN new
               PROVE  FALSE
    OBVIOUS
  <2>1. b \in root.retired \cup old
    BY <1>l
  <2>2. b \notin DOMAIN w.staged
    BY <1>l, <1>a
  <2>3. b \in keep
    BY <2>2, <1>k
  <2> QED BY <2>1, <2>3, <1>h
<1>2. Sound(page, nblocks, root')
  <2>1. DOMAIN new \subseteq 1..nblocks
    BY <1>k, <1>h, <1>t DEF Held, Intact, Block
  <2>2. w.plan.retired \subseteq 1..nblocks
    BY <1>l, <1>h, <1>t DEF Held, Intact, Block
  <2>3. \A b \in DOMAIN new : page[b] = new[b] /\ page[b] # Marker
    BY <1>k, <1>h DEF Held, Intact
  <2>4. \A b \in w.plan.retired : page[b] # Marker
    BY <1>l, <1>h DEF Held
  <2>5. w.manifest \in DOMAIN new
    BY <1>g, <1>k
  <2>6. nblocks <= nblocks
    BY <1>t DEF Block
  <2> HIDE DEF w
  <2> QED BY <1>q, <1>t, <1>x, <2>1, <2>2, <2>3, <2>4, <2>5, <2>6 DEF Sound
<1>3. RootSound' /\ DurableSound'
  <2>1. DOMAIN durable' = {"page", "nblocks", "root"}
        /\ durable'.page = page /\ durable'.nblocks = nblocks
        /\ durable'.root = root'
    BY <1>n
  <2>2. RootSound'
    BY <1>2, <1>u DEF RootSound, Sound, Block
  <2> QED BY <2>1, <2>2, <1>2 DEF DurableSound, Sound, Block
<1>1. TypeOK' /\ Shapes'
  <2>1. root'.retired \subseteq Block /\ DOMAIN root'.refs \subseteq Block /\ root'.hwm \in Block
    BY <1>2, <1>t DEF Sound, Block
  <2> QED BY <1>u, <1>p, <2>1 DEF IInv, TypeOK, Shapes
<1>4. PagesHeld'
  <2>1. \A k \in Maintainer : Held(Reads(k))' /\ Held(Stages(k))'
    <3> TAKE k \in Maintainer
    <3>1. Held(Reads(k)) /\ Held(Stages(k)) /\ Held(Nothing)
      BY NothingEmpty DEF IInv, PagesHeld, Held, Intact
    <3>2. Reads(k)' \in {Reads(k), Nothing} /\ Stages(k)' \in {Stages(k), Nothing}
      BY <1>o, <1>b
    <3> QED BY <3>1, <3>2, <1>u DEF Held, Intact
  <2>2. \A r \in Reader : Held(reading[r])'
    BY <1>u DEF IInv, PagesHeld, Held, Intact
  <2>3. \A c \in Appender : Held(appending[c])'
    BY <1>u DEF IInv, PagesHeld, Held, Intact
  <2> QED BY <2>1, <2>2, <2>3 DEF PagesHeld
<1>5. FreesUnmarked'
  <2>1. \A b \in w.plan.handoff : b \in 1..nblocks /\ page[b] # Marker
    BY <1>l, <1>h, <1>t DEF Held, Intact, Block
  <2> QED BY <2>1, <1>u, <1>o, <1>b, <1>p DEF IInv, FreesUnmarked
\* While something is to be handed over, nobody else is there.
<1>z. w.plan.handoff # {} =>
        /\ w.at = "fenced" /\ fence = m
        /\ \A r \in Reader : reading[r] = Nothing
        /\ \A c \in Appender : appending[c] = Nothing
        /\ \A k \in Maintainer : k # m => pass[k].at = "idle"
  BY <1>g, <1>r DEF ReadyToPublish, IInv, FenceSound, Alone
<1>y. Public' \subseteq Public \cup DOMAIN w.staged
  <2>1. DOMAIN root'.refs \cup root'.retired \subseteq Public \cup DOMAIN w.staged
    BY <1>q, <1>k, <1>l, <1>a
  <2>2. \A r \in Reader : DOMAIN reading'[r] \subseteq Public
    BY <1>u DEF Public
  <2>3. \A k \in Maintainer : DOMAIN Reads(k)' \subseteq Public
    BY <1>o, <1>b, NothingEmpty DEF Public
  <2> QED BY <2>1, <2>2, <2>3 DEF Public
<1>6. OwnApart'
  <2>1. Appended' = Appended
    BY <1>u DEF Appended
  <2>2. Appended \cap Public' = {}
    BY <1>y, <1>a DEF IInv, OwnApart
  <2>3. \A k \in Maintainer : k # m => Own(k) \cap Public' = {} /\ Own(k) \cap Appended = {}
    BY <1>y, <1>a DEF IInv, OwnApart
  <2>4. /\ w.plan.handoff \cap Public' = {} /\ w.plan.handoff \cap Appended = {}
        /\ \A k \in Maintainer : k # m => w.plan.handoff \cap Own(k) = {}
    <3>1. w.plan.handoff \subseteq Public
      BY <1>l, <1>a
    <3>2. w.plan.handoff # {} => Public' = DOMAIN root'.refs \cup root'.retired
      <4> SUFFICES ASSUME w.plan.handoff # {}
                   PROVE  Public' = DOMAIN root'.refs \cup root'.retired
        OBVIOUS
      <4>1. \A r \in Reader : DOMAIN reading'[r] = {}
        BY <1>z, <1>u, NothingEmpty
      <4>2. \A k \in Maintainer : DOMAIN Reads(k)' = {}
        BY <1>z, <1>o, <1>b, NothingEmpty DEF Reads, Building
      <4> QED BY <4>1, <4>2 DEF Public
    <3>3. w.plan.handoff \cap Public' = {}
      BY <3>2, <1>q, <1>x, <1>g
    <3> QED BY <3>1, <3>3 DEF IInv, OwnApart
  <2>5. \A k, l \in Maintainer : k # l => Own(k)' \cap Own(l)' = {}
    BY <2>4, <1>o, <1>b DEF IInv, OwnApart
  <2>6. \A c, d \in Appender :
           c # d => DOMAIN appending'[c] \cap DOMAIN appending'[d] = {}
    BY <1>u DEF IInv, OwnApart
  <2> QED BY <2>1, <2>2, <2>3, <2>4, <2>5, <2>6, <1>o, <1>b DEF OwnApart
<1>7. PassesSound'
  <2> SUFFICES ASSUME NEW k \in Maintainer PROVE PassSound(k)'
    BY DEF PassesSound
  <2>1. CASE k = m
    BY <2>1, <1>p, <1>v, <1>b DEF PassSound
  <2>2. CASE k # m
    <3>1. PassSound(k)
      BY DEF IInv, PassesSound
    \* A pass built on the old root finds another manifest.
    <3>2. Building(k) => root'.manifest # pass[k].build.manifest
      <4> SUFFICES ASSUME Building(k) PROVE w.manifest # pass[k].build.manifest
        BY <1>q
      <4>1. pass[k].build.manifest \in DOMAIN Reads(k)
        BY <3>1 DEF PassSound, PlanSound, Reads
      <4>2. pass[k].build.manifest \in Public
        BY <4>1 DEF Public
      <4> QED BY <4>2, <1>g, <1>a
    <3> QED BY <2>2, <3>1, <3>2, <1>p, <1>o DEF PassSound, PlanSound
  <2> QED BY <2>1, <2>2
<1>8. FenceSound'
  <2>1. \A k \in Maintainer : pass'[k].at \in {"fenced", "published"} => fence = k
    <3> TAKE k \in Maintainer
    <3>1. CASE k = m
      BY <3>1, <1>p, <1>v, <1>z
    <3>2. CASE k # m
      BY <3>2, <1>p DEF IInv, FenceSound
    <3> QED BY <3>1, <3>2
  <2>2. ASSUME NEW k \in Maintainer, fence = k
        PROVE  pass'[k].at \in {"fenced", "published"} /\ Alone(k)'
    <3>1. k = m
      BY <2>2, <1>m DEF IInv, FenceSound, Alone
    <3>2. Alone(m)
      BY <2>2, <3>1 DEF IInv, FenceSound
    <3>3. Alone(m)'
      BY <3>2, <1>u, <1>p DEF Alone
    <3>4. w.at = "fenced" /\ w.plan.fenced
      BY <2>2, <3>1, <1>m DEF IInv, FenceSound, PassSound
    <3>5. v.at = "published"
      BY <3>4, <1>g, <1>v
    <3> QED BY <3>1, <3>3, <3>5, <1>p DEF Alone
  <2>3. \A k \in Maintainer : extender = k => pass'[k].at = "marking"
    BY <1>p, <1>m DEF IInv, FenceSound
  <2> QED BY <2>1, <2>2, <2>3, <1>u DEF FenceSound
<1>9. EveryBlockKnown'
  <2> SUFFICES ASSUME faults = 0, NEW b \in 1..nblocks
               PROVE  \/ b \in DOMAIN root'.refs \cup root'.retired
                      \/ page[b] = Marker
                      \/ b \in Appended
                      \/ \E k \in Maintainer : b \in Own(k)'
    BY <1>u DEF EveryBlockKnown, Appended
  <2>1. \/ b \in DOMAIN root.refs \cup root.retired
        \/ page[b] = Marker
        \/ b \in Appended
        \/ \E k \in Maintainer : b \in Own(k)
    BY DEF IInv, EveryBlockKnown
  <2>2. CASE b \in DOMAIN root.refs \cup root.retired
    BY <2>2, <1>l, <1>k, <1>q, <1>b
  <2>3. CASE \E k \in Maintainer : b \in Own(k)
    BY <2>3, <1>o, <1>b, <1>k, <1>q
  <2> QED BY <2>1, <2>2, <2>3
<1> QED BY <1>1, <1>3, <1>4, <1>5, <1>6, <1>7, <1>8, <1>9 DEF IInv

\* A pass writes its object or its manifest where nobody is, and owns it.
LEMMA StageStep ==
    ASSUME ReclamationAssumption, IInv, NEW m \in Maintainer, Stage(m)
    PROVE  IInv'
<1> USE DEF ReclamationAssumption
<1> DEFINE w == pass[m]
           n == IF w.todo = 2 THEN DataPages ELSE 1
<1>1. PICK S \in SUBSET Block :
        /\ Cardinality(S) = n /\ WritePages(n, S)
        /\ pass' = [pass EXCEPT ![m] = [w EXCEPT
             !.todo = @ - 1,
             !.staged = Over([b \in S |-> page'[b]], @),
             !.manifest = IF w.todo = 1 THEN CHOOSE b \in S : TRUE ELSE @]]
  BY DEF Stage
<1> DEFINE written == [b \in S |-> page'[b]]
           more == Over(written, w.staged)
           at == IF w.todo = 1 THEN CHOOSE b \in S : TRUE ELSE w.manifest
           v == [w EXCEPT !.todo = w.todo - 1, !.staged = more, !.manifest = at]
<1>u. UNCHANGED <<root, durable, reading, appending, fence, extender, faults>>
  BY DEF Stage
<1>m. /\ w.at = "staging" /\ w.todo \in 1..2 /\ Building(m) /\ PassSound(m)
      /\ n \in Nat \ {0}
  <2>1. w.at = "staging" /\ w.todo > 0
    BY DEF Stage
  <2>2. Building(m) /\ PassSound(m)
    BY <2>1 DEF Building, IInv, PassesSound
  <2>3. w.todo \in 0..2
    BY <2>2 DEF PassSound
  <2> QED BY <2>1, <2>2, <2>3
<1>x. /\ DOMAIN w = {"at", "build", "replaced", "plan", "todo", "staged",
                     "manifest", "marking"}
      /\ w.marking = {}
  BY <1>m DEF PassSound
<1>n. S # {}
  BY <1>1, <1>m, FS_EmptySet
<1>v. /\ DOMAIN v = DOMAIN w /\ v.at = "staging" /\ v.build = w.build
      /\ v.replaced = w.replaced /\ v.plan = w.plan /\ v.marking = {}
      /\ v.todo = w.todo - 1 /\ v.staged = more
      /\ v.todo = 0 => v.manifest \in S
  <2> HIDE DEF more
  <2>1. w.todo = 1 => at \in S
    BY <1>n
  <2> HIDE DEF at
  <2> QED BY <1>m, <1>x, <2>1
<1>s. pass' = [pass EXCEPT ![m] = v]
  BY <1>1
<1>k. /\ DOMAIN more = S \cup DOMAIN w.staged
      /\ \A b \in S : more[b] = page'[b]
      /\ \A b \in DOMAIN w.staged : b \notin S => more[b] = w.staged[b]
  <2>1. DOMAIN written = S /\ \A b \in S : written[b] = page'[b]
    OBVIOUS
  <2> HIDE DEF written
  <2>2. /\ DOMAIN Over(written, w.staged) = DOMAIN written \cup DOMAIN w.staged
        /\ \A b \in DOMAIN written : Over(written, w.staged)[b] = written[b]
        /\ \A b \in DOMAIN w.staged : b \notin DOMAIN written =>
              Over(written, w.staged)[b] = w.staged[b]
    BY Merged
  <2> QED BY <2>1, <2>2
<1> HIDE DEF v, more, written
<1>p. /\ DOMAIN pass' = Maintainer /\ pass'[m] = v
      /\ \A k \in Maintainer : k # m => pass'[k] = pass[k]
  BY <1>s, PassTurned
<1>o. \A k \in Maintainer : k # m =>
        /\ Building(k)' = Building(k) /\ Reads(k)' = Reads(k)
        /\ Stages(k)' = Stages(k) /\ Frees(k)' = Frees(k)
        /\ Own(k)' = Own(k)
  BY <1>p, PassUnchanged
<1>b. /\ Building(m)' /\ Reads(m)' = Reads(m) /\ Stages(m)' = more
      /\ Frees(m)' = {} /\ Own(m)' = S \cup Own(m)
      /\ Stages(m) = w.staged /\ Frees(m) = {} /\ Own(m) = DOMAIN w.staged
  BY <1>p, <1>v, <1>m, <1>k DEF Building, Reads, Stages, Frees, Own
<1>w. /\ page' \in [Block -> 0..MaxWrite]
      /\ \A b \in Block : b \notin S => page'[b] = page[b]
      /\ \A b \in S : page'[b] # Marker
      /\ nblocks' \in Block /\ nblocks <= nblocks'
      /\ \A b \in S : b <= nblocks'
      /\ \A b \in 1..nblocks' : b <= nblocks \/ b \in S
      /\ fsm' \subseteq Block
      /\ writes' \in 1..MaxWrite
  <2> HIDE DEF n
  <2> QED BY <1>1, <1>m, Written DEF IInv, Shapes
<1>t. /\ Taken \cap S = {}
      /\ \A b \in Taken : page'[b] = page[b] /\ b <= nblocks'
  <2> HIDE DEF n
  <2> QED BY <1>1, <1>m, WrittenApart
<1>f. /\ \A b \in DOMAIN root.refs \cup root.retired : b \in Taken
      /\ \A r \in Reader : DOMAIN reading[r] \subseteq Taken
      /\ \A a \in Appender : DOMAIN appending[a] \subseteq Taken
      /\ \A k \in Maintainer : /\ DOMAIN Reads(k) \subseteq Taken
                               /\ DOMAIN Stages(k) \subseteq Taken
                               /\ Frees(k) \subseteq Taken
  BY DEF Taken, Public, Appended, Own
<1> HIDE DEF w, n
<1>2. TypeOK' /\ Shapes'
  BY <1>u, <1>w, <1>p DEF IInv, TypeOK, Shapes
<1>3. RootSound'
  <2>1. root.hwm <= nblocks'
    BY <1>w DEF IInv, RootSound, Sound, Block
  <2> QED BY <1>u, <1>w, <1>t, <1>f, <2>1 DEF IInv, RootSound, Sound
<1>4. DurableSound'
  BY <1>u DEF IInv, DurableSound, Sound, Block
<1>5. PagesHeld'
  <2>1. \A r \in Reader : Held(reading[r])'
    BY <1>u, <1>t, <1>f DEF IInv, PagesHeld, Held, Intact
  <2>2. \A a \in Appender : Held(appending[a])'
    BY <1>u, <1>t, <1>f DEF IInv, PagesHeld, Held, Intact
  <2>3. \A k \in Maintainer : Held(Reads(k))'
    <3> TAKE k \in Maintainer
    <3>1. Held(Reads(k)) /\ Reads(k)' = Reads(k)
      BY <1>o, <1>b DEF IInv, PagesHeld
    <3> QED BY <1>t, <1>f, <3>1 DEF Held, Intact
  <2>4. \A k \in Maintainer : Held(Stages(k))'
    <3> TAKE k \in Maintainer
    <3>1. Held(Stages(k))
      BY DEF IInv, PagesHeld
    <3>2. CASE k # m
      BY <3>1, <3>2, <1>o, <1>t, <1>f DEF Held, Intact
    <3>3. CASE k = m
      <4>1. \A b \in DOMAIN more : b \in Block /\ b <= nblocks' /\ page'[b] # Marker
        BY <3>1, <3>3, <1>b, <1>w, <1>t, <1>f, <1>k DEF Held, Intact
      <4>2. \A b \in DOMAIN more : page'[b] = more[b]
        BY <3>1, <3>3, <1>b, <1>t, <1>f, <1>k DEF Held, Intact
      <4> QED BY <3>3, <4>1, <4>2, <1>b DEF Held, Intact
    <3> QED BY <3>2, <3>3
  <2> QED BY <2>1, <2>2, <2>3, <2>4 DEF PagesHeld
<1>6. FreesUnmarked'
  <2> SUFFICES ASSUME NEW k \in Maintainer, k # m, NEW b \in Frees(k)
               PROVE  b \in 1..nblocks' /\ (page'[b] = Marker =>
                        pass[k].at = "marking" /\ extender = k)
    BY <1>u, <1>o, <1>b, <1>p DEF FreesUnmarked
  <2> QED BY <1>t, <1>f, <1>w DEF IInv, FreesUnmarked, Block
<1>7. OwnApart'
  <2>1. Public' = Public
    BY <1>u, <1>o, <1>b DEF Public
  <2>2. Appended' = Appended
    BY <1>u DEF Appended
  <2>3. /\ Public \cap S = {} /\ Appended \cap S = {}
        /\ \A k \in Maintainer : Own(k) \cap S = {}
    BY <1>t DEF Taken
  <2>4. \A k, l \in Maintainer : k # l => Own(k)' \cap Own(l)' = {}
    BY <1>o, <1>b, <2>3 DEF IInv, OwnApart
  <2>5. \A k \in Maintainer : Own(k)' \cap Public = {} /\ Own(k)' \cap Appended = {}
    BY <1>o, <1>b, <2>3 DEF IInv, OwnApart
  <2> QED BY <1>u, <2>1, <2>2, <2>4, <2>5 DEF IInv, OwnApart
<1>8. PassesSound'
  <2> SUFFICES ASSUME NEW k \in Maintainer PROVE PassSound(k)'
    BY DEF PassesSound
  <2>0. PassSound(k)
    BY DEF IInv, PassesSound
  <2>1. CASE k = m
    <3>1. /\ PlanSound(w)
          /\ root.manifest = w.build.manifest =>
              /\ root.retired = w.build.retired
              /\ DOMAIN w.build.refs \subseteq DOMAIN root.refs
      BY <1>m DEF PassSound, w
    <3>2. PlanSound(v)
      BY <3>1, <1>v DEF PlanSound
    <3>3. v.todo \in 0..2
      BY <1>v, <1>m
    <3>4. v.todo = 0 => v.manifest \in DOMAIN v.staged
      BY <1>v, <1>k
    <3> QED BY <2>1, <1>u, <1>p, <1>v, <1>x, <1>b, <3>1, <3>2, <3>3, <3>4 DEF PassSound
  <2>2. CASE k # m
    BY <2>0, <2>2, <1>u, <1>p, <1>o DEF PassSound, PlanSound
  <2> QED BY <2>1, <2>2
<1>9. FenceSound'
  <2>1. \A k \in Maintainer : fence # k
    BY <1>m DEF IInv, FenceSound, Alone, w
  <2>2. \A k \in Maintainer : pass'[k].at \notin {"fenced", "published"}
    BY <2>1, <1>p, <1>v DEF IInv, FenceSound
  <2>3. \A k \in Maintainer : extender' = k => pass'[k].at = "marking"
    BY <1>u, <1>p, <1>m DEF IInv, FenceSound, w
  <2> QED BY <1>u, <2>1, <2>2, <2>3 DEF FenceSound
<1>10. EveryBlockKnown'
  <2> SUFFICES ASSUME faults = 0, NEW b \in 1..nblocks'
               PROVE  \/ b \in DOMAIN root.refs \cup root.retired
                      \/ page'[b] = Marker
                      \/ b \in Appended
                      \/ \E k \in Maintainer : b \in Own(k)'
    BY <1>u DEF EveryBlockKnown, Appended
  <2>1. CASE b \in S
    BY <2>1, <1>b
  <2>2. CASE b \notin S
    <3>1. b \in 1..nblocks /\ b \in Block
      BY <2>2, <1>w DEF IInv, TypeOK, Block
    <3>2. page'[b] = page[b]
      BY <2>2, <3>1, <1>w
    <3>3. \A k \in Maintainer : Own(k) \subseteq Own(k)'
      BY <1>o, <1>b
    <3> QED BY <3>1, <3>2, <3>3 DEF IInv, EveryBlockKnown
  <2> QED BY <2>1, <2>2
<1> QED BY <1>2, <1>3, <1>4, <1>5, <1>6, <1>7, <1>8, <1>9, <1>10 DEF IInv

(***************************************************************************)
(* Steps: the tail, the WAL and crashes                                    *)
(***************************************************************************)
\* A state in which nobody reads or writes.
Quiet ==
    /\ \A r \in Reader : reading[r] = Nothing
    /\ \A a \in Appender : appending[a] = Nothing
    /\ \A m \in Maintainer : pass[m].at = "idle"

LEMMA NobodyOwns ==
    ASSUME Quiet
    PROVE  /\ \A m \in Maintainer : /\ ~Building(m) /\ Reads(m) = Nothing
                                    /\ Stages(m) = Nothing /\ Frees(m) = {}
                                    /\ Own(m) = {}
           /\ Appended = {} /\ Public = DOMAIN root.refs \cup root.retired
           /\ PagesHeld /\ FreesUnmarked /\ OwnApart /\ PassesSound
<1>1. \A m \in Maintainer : /\ ~Building(m) /\ Reads(m) = Nothing
                            /\ Stages(m) = Nothing /\ Frees(m) = {}
  BY DEF Quiet, Building, Reads, Stages, Frees
<1>2. \A m \in Maintainer : Own(m) = {}
  BY <1>1, NothingEmpty DEF Own
<1>3. Appended = {}
  BY NothingEmpty DEF Quiet, Appended
<1>4. Public = DOMAIN root.refs \cup root.retired
  BY <1>1, NothingEmpty DEF Quiet, Public
<1>5. PagesHeld
  BY <1>1, NothingEmpty DEF Quiet, PagesHeld, Held, Intact
<1>6. FreesUnmarked
  BY <1>1 DEF FreesUnmarked
<1>7. OwnApart
  BY <1>2, <1>3, NothingEmpty DEF OwnApart, Quiet
<1>8. PassesSound
  BY <1>1 DEF Quiet, PassesSound, PassSound
<1> QED BY <1>1, <1>2, <1>3, <1>4, <1>5, <1>6, <1>7, <1>8

LEMMA TruncateTailStep ==
    ASSUME ReclamationAssumption, IInv, NEW m \in Maintainer, TruncateTail(m)
    PROVE  IInv'
<1> USE DEF ReclamationAssumption
<1>s. /\ pass[m].at = "idle" /\ fence = Nobody /\ Alone(m)
      /\ nblocks > root.hwm /\ nblocks' = root.hwm
      /\ page' = [b \in Block |-> IF b > root.hwm THEN Zero ELSE page[b]]
      /\ fsm' = fsm \cap 1..root.hwm
      /\ durable' = [page |-> page', nblocks |-> nblocks', root |-> root]
      /\ UNCHANGED <<root, reading, appending, pass, fence, extender, writes, faults>>
  BY DEF TruncateTail
<1>q. Quiet /\ Quiet'
  BY <1>s DEF Alone, Quiet
<1>t. /\ page \in [Block -> 0..MaxWrite] /\ nblocks \in Block /\ root.hwm \in Block
      /\ fsm \subseteq Block
  BY DEF IInv, TypeOK
<1>g. /\ page' \in [Block -> 0..MaxWrite]
      /\ \A b \in 1..root.hwm : page'[b] = page[b]
  BY <1>s, <1>t DEF Zero, Block
<1>1. TypeOK' /\ Shapes'
  BY <1>s, <1>t, <1>g DEF IInv, TypeOK, Shapes
<1>2. Sound(page', nblocks', root')
  <2>1. Sound(page, nblocks, root)
    BY DEF IInv, RootSound
  <2>2. root.hwm <= root.hwm
    BY <1>t DEF Block
  <2>3. \A b \in DOMAIN root.refs \cup root.retired : page'[b] = page[b]
    BY <2>1, <1>g DEF Sound
  <2> QED BY <1>s, <1>t, <1>g, <2>1, <2>2, <2>3 DEF Sound
<1>3. RootSound' /\ DurableSound'
  <2>1. /\ DOMAIN durable' = {"page", "nblocks", "root"}
        /\ durable'.page = page' /\ durable'.nblocks = nblocks'
        /\ durable'.root = root'
    BY <1>s
  <2> QED BY <1>2, <2>1 DEF RootSound, DurableSound, Sound, Block
<1>4. PagesHeld' /\ FreesUnmarked' /\ OwnApart' /\ PassesSound'
  BY <1>q, NobodyOwns, PTL
<1>5. FenceSound'
  BY <1>s DEF IInv, FenceSound, Nobody, Alone
<1>6. EveryBlockKnown'
  <2> SUFFICES ASSUME faults = 0, NEW b \in 1..root.hwm
               PROVE  b \in DOMAIN root.refs \cup root.retired \/ page'[b] = Marker
    BY <1>s DEF EveryBlockKnown
  <2>1. b \in 1..nblocks
    BY <1>s, <1>t DEF Block
  <2>2. Appended = {} /\ \A k \in Maintainer : Own(k) = {}
    BY <1>q, NobodyOwns
  <2> QED BY <2>1, <2>2, <1>g DEF IInv, EveryBlockKnown
<1> QED BY <1>1, <1>3, <1>4, <1>5, <1>6 DEF IInv

LEMMA FlushStep ==
    ASSUME ReclamationAssumption, IInv, Flush
    PROVE  IInv'
<1>u. UNCHANGED <<page, nblocks, fsm, root, reading, appending, pass, fence,
                  extender, writes, faults>>
  BY DEF Flush
<1>d. /\ DOMAIN durable' = {"page", "nblocks", "root"}
      /\ durable'.page = page /\ durable'.nblocks = nblocks
      /\ durable'.root = root
  BY DEF Flush, Snapshot
<1>p. \A m \in Maintainer :
        /\ Building(m)' = Building(m) /\ Reads(m)' = Reads(m)
        /\ Stages(m)' = Stages(m) /\ Frees(m)' = Frees(m)
        /\ Own(m)' = Own(m)
  BY <1>u, PassUnchanged
<1>q. Public' = Public /\ Appended' = Appended
  BY <1>u, <1>p DEF Public, Appended
<1>1. TypeOK' /\ Shapes' /\ RootSound'
  BY <1>u DEF IInv, TypeOK, Shapes, RootSound, Sound, Block
<1>2. DurableSound'
  BY <1>d DEF IInv, RootSound, DurableSound, Sound, Block
<1>3. PagesHeld' /\ FreesUnmarked'
  BY <1>u, <1>p DEF IInv, PagesHeld, Held, Intact, FreesUnmarked
<1>4. OwnApart'
  BY <1>u, <1>p, <1>q DEF IInv, OwnApart
<1>5. PassesSound'
  BY <1>u, <1>p DEF IInv, PassesSound, PassSound, PlanSound
<1>6. FenceSound'
  BY <1>u DEF IInv, FenceSound, Alone
<1>7. EveryBlockKnown'
  BY <1>u, <1>p, <1>q DEF IInv, EveryBlockKnown
<1> QED BY <1>1, <1>2, <1>3, <1>4, <1>5, <1>6, <1>7 DEF IInv

LEMMA CrashStep ==
    ASSUME ReclamationAssumption, IInv, Crash
    PROVE  IInv'
<1> USE DEF ReclamationAssumption
<1>1. PICK n \in {durable.nblocks, nblocks} :
        /\ n >= durable.nblocks /\ nblocks' = n
        /\ durable' = [durable EXCEPT !.nblocks = n]
  BY DEF Crash
<1>s. /\ faults < MaxFault /\ faults' = faults + 1
      /\ page' = durable.page /\ root' = durable.root
      /\ fsm' \in {fsm, {}, 1..nblocks}
      /\ reading' = [r \in Reader |-> Nothing]
      /\ appending' = [a \in Appender |-> Nothing]
      /\ pass' = [m \in Maintainer |-> IdlePass]
      /\ fence' = Nobody /\ extender' = Nobody /\ writes' = writes
  BY DEF Crash
<1>q. Quiet'
  BY <1>s DEF Quiet, IdlePass
<1>d. /\ DOMAIN durable = {"page", "nblocks", "root"}
      /\ Sound(durable.page, durable.nblocks, durable.root)
  BY DEF IInv, DurableSound
<1>e. /\ DOMAIN durable' = {"page", "nblocks", "root"}
      /\ durable'.page = page' /\ durable'.nblocks = n
      /\ durable'.root = root'
  BY <1>1, <1>s, <1>d
<1>t. n \in Block /\ nblocks \in Block
  BY <1>d DEF IInv, TypeOK, Sound
<1>2. Sound(page', n, root')
  <2>1. /\ Sound(page', durable.nblocks, root') /\ durable.nblocks <= n
        /\ durable.nblocks \in Block
    BY <1>1, <1>s, <1>d DEF Sound, Block
  <2> QED BY <2>1, <1>t DEF Sound, Block
<1>3. RootSound' /\ DurableSound'
  BY <1>1, <1>2, <1>e DEF RootSound, DurableSound, Sound, Block
<1>4. TypeOK' /\ Shapes'
  <2>1. fsm' \subseteq Block
    <3>1. fsm \subseteq Block
      BY DEF IInv, TypeOK
    <3>2. 1..nblocks \subseteq Block
      BY <1>t DEF Block
    <3> QED BY <1>s, <3>1, <3>2
  <2>2. root'.retired \subseteq Block /\ DOMAIN root'.refs \subseteq Block /\ root'.hwm \in Block
    BY <1>2, <1>t DEF Sound, Block
  <2>3. faults' \in 0..MaxFault
    BY <1>s DEF IInv, TypeOK
  <2>4. page' \in [Block -> 0..MaxWrite]
    BY <1>2 DEF Sound
  <2> QED BY <1>1, <1>s, <1>t, <2>1, <2>2, <2>3, <2>4 DEF IInv, TypeOK, Shapes
<1>5. PagesHeld' /\ FreesUnmarked' /\ OwnApart' /\ PassesSound'
  BY <1>q, NobodyOwns, PTL
<1>6. FenceSound'
  BY <1>s, <1>q DEF FenceSound, Quiet, Nobody
<1>7. EveryBlockKnown'
  BY <1>s DEF IInv, TypeOK, EveryBlockKnown
<1> QED BY <1>3, <1>4, <1>5, <1>6, <1>7 DEF IInv

(***************************************************************************)
(* The invariant holds                                                     *)
(***************************************************************************)
LEMMA InitHolds ==
    ASSUME ReclamationAssumption, Init
    PROVE  IInv
<1> USE DEF ReclamationAssumption
<1>i. /\ nblocks = 1 + DataPages
      /\ page = [b \in Block |-> IF b <= 1 + DataPages THEN b + 1 ELSE Zero]
      /\ fsm = {}
      /\ root = [id |-> 2, refs |-> [b \in 1..(1 + DataPages) |-> b + 1],
                 manifest |-> 1, retired |-> {}, hwm |-> 1 + DataPages]
      /\ durable = Snapshot
      /\ reading = [r \in Reader |-> Nothing]
      /\ appending = [a \in Appender |-> Nothing]
      /\ pass = [m \in Maintainer |-> IdlePass]
      /\ fence = Nobody /\ extender = Nobody
      /\ writes = 2 + DataPages /\ faults = 0
  BY DEF Init
<1>q. Quiet
  BY <1>i DEF Quiet, IdlePass
<1>r. /\ DOMAIN root = {"id", "refs", "manifest", "retired", "hwm"}
      /\ DOMAIN root.refs = 1..(1 + DataPages)
      /\ \A b \in 1..(1 + DataPages) : root.refs[b] = b + 1
      /\ root.manifest = 1 /\ root.retired = {} /\ root.hwm = 1 + DataPages
  BY <1>i
<1>p. page \in [Block -> 0..MaxWrite]
  BY <1>i DEF Zero, Block
<1>b. nblocks \in Block /\ 1..(1 + DataPages) \subseteq Block
  BY <1>i DEF Block
<1>1. TypeOK /\ Shapes
  BY <1>i, <1>r, <1>p, <1>b DEF TypeOK, Shapes
<1>2. Sound(page, nblocks, root)
  <2>1. \A b \in DOMAIN root.refs : page[b] = root.refs[b] /\ page[b] # Marker
    BY <1>i, <1>r, <1>b DEF Marker
  <2>2. 1 \in DOMAIN root.refs /\ nblocks <= nblocks
    BY <1>r, <1>b DEF Block
  <2> QED BY <1>i, <1>r, <1>p, <1>b, <2>1, <2>2 DEF Sound
<1>3. RootSound /\ DurableSound
  <2>1. /\ DOMAIN durable = {"page", "nblocks", "root"}
        /\ durable.page = page /\ durable.nblocks = nblocks /\ durable.root = root
    BY <1>i DEF Snapshot
  <2> QED BY <1>2, <2>1 DEF RootSound, DurableSound
<1>4. PagesHeld /\ FreesUnmarked /\ OwnApart /\ PassesSound
  BY <1>q, NobodyOwns
<1>5. FenceSound
  BY <1>i, <1>q DEF FenceSound, Quiet, Nobody
<1>6. EveryBlockKnown
  BY <1>i, <1>r DEF EveryBlockKnown
<1> QED BY <1>1, <1>3, <1>4, <1>5, <1>6 DEF IInv

LEMMA StepHolds ==
    ASSUME ReclamationAssumption, IInv, Next
    PROVE  IInv'
<1>1. ASSUME NEW r \in Reader, ReaderOpen(r) \/ ReaderClose(r)
      PROVE  IInv'
  BY <1>1, ReaderStep
<1>2. ASSUME NEW a \in Appender, AppendWrite(a) \/ AppendPublish(a) \/ AppendFail(a)
      PROVE  IInv'
  BY <1>2, AppendWriteStep, AppendPublishStep, AppendFailStep
<1>3. ASSUME NEW m \in Maintainer, StartRewrite(m) \/ StartReclaim(m) \/ Stage(m)
      PROVE  IInv'
  BY <1>3, StartRewriteStep, StartReclaimStep, StageStep
<1>4. ASSUME NEW m \in Maintainer, AcquireFence(m) \/ FenceBusy(m)
      PROVE  IInv'
  BY <1>4, AcquireFenceStep, FenceBusyStep
<1>5. ASSUME NEW m \in Maintainer, Publish(m) \/ PublishRefused(m) \/ Unfence(m)
      PROVE  IInv'
  BY <1>5, PublishStep, PublishRefusedStep, UnfenceStep
<1>6. ASSUME NEW m \in Maintainer, MarkPage(m) \/ RecordFree(m)
      PROVE  IInv'
  BY <1>6, MarkPageStep, RecordFreeStep
<1>7. ASSUME NEW m \in Maintainer, PassFail(m) \/ TruncateTail(m)
      PROVE  IInv'
  BY <1>7, PassFailStep, TruncateTailStep
<1> QED BY <1>1, <1>2, <1>3, <1>4, <1>5, <1>6, <1>7, FlushStep, CrashStep DEF Next

LEMMA StutterHolds ==
    ASSUME IInv, UNCHANGED vars
    PROVE  IInv'
<1>u. UNCHANGED <<page, nblocks, fsm, root, durable, reading, appending, pass,
                  fence, extender, writes, faults>>
  BY DEF vars
<1>p. \A m \in Maintainer :
        /\ Building(m)' = Building(m) /\ Reads(m)' = Reads(m)
        /\ Stages(m)' = Stages(m) /\ Frees(m)' = Frees(m)
        /\ Own(m)' = Own(m)
  BY <1>u, PassUnchanged
<1>q. Public' = Public /\ Appended' = Appended
  BY <1>u, <1>p DEF Public, Appended
<1>1. TypeOK' /\ Shapes' /\ RootSound' /\ DurableSound'
  BY <1>u DEF IInv, TypeOK, Shapes, RootSound, DurableSound, Sound, Block
<1>3. PagesHeld' /\ FreesUnmarked'
  BY <1>u, <1>p DEF IInv, PagesHeld, Held, Intact, FreesUnmarked
<1>4. OwnApart'
  BY <1>u, <1>p, <1>q DEF IInv, OwnApart
<1>5. PassesSound'
  BY <1>u, <1>p DEF IInv, PassesSound, PassSound, PlanSound
<1>6. FenceSound'
  BY <1>u DEF IInv, FenceSound, Alone
<1>7. EveryBlockKnown'
  BY <1>u, <1>p, <1>q DEF IInv, EveryBlockKnown
<1> QED BY <1>1, <1>3, <1>4, <1>5, <1>6, <1>7 DEF IInv

LEMMA Inductive ==
    ASSUME ReclamationAssumption
    PROVE  Spec => []IInv
<1>1. Init => IInv
  BY InitHolds
<1>2. IInv /\ [Next]_vars => IInv'
  BY StepHolds, StutterHolds
<1> QED BY <1>1, <1>2, PTL DEF Spec

(***************************************************************************)
(* Theorems                                                                *)
(***************************************************************************)
\* The pages of the published root, of the root recovery returns to, of every
\* reader's older root and of every staged object hold what was written there.
THEOREM PagesStayIntact ==
    ASSUME ReclamationAssumption
    PROVE  Spec => []PagesIntact
<1>1. IInv => PagesIntact
  <2> SUFFICES ASSUME IInv PROVE PagesIntact
    OBVIOUS
  <2>1. TypeOK
    BY DEF IInv
  <2>2. RootIntact
    <3>1. Intact(root.refs)
      BY DEF IInv, RootSound, Sound, Intact, Block, ReclamationAssumption
    <3>2. \A b \in DOMAIN durable.root.refs :
            b <= durable.nblocks /\ durable.page[b] = durable.root.refs[b]
      BY DEF IInv, DurableSound, Sound, Block, ReclamationAssumption
    <3> QED BY <3>1, <3>2 DEF RootIntact
  <2>3. ReadersIntact
    BY DEF IInv, PagesHeld, Held, ReadersIntact
  <2>4. StagedIntact
    BY DEF IInv, PagesHeld, Held, Stages, Building, StagedIntact
  <2> QED BY <2>1, <2>2, <2>3, <2>4 DEF PagesIntact
<1> QED BY <1>1, Inductive, PTL

\* A retired page is neither reachable nor recyclable nor about to be marked,
\* the watermark covers what the root names, and while nothing fails every
\* block is in somebody's hands.
THEOREM PagesStayAccounted ==
    ASSUME ReclamationAssumption
    PROVE  Spec => []PagesAccounted
<1>1. IInv => PagesAccounted
  <2> SUFFICES ASSUME IInv PROVE PagesAccounted
    OBVIOUS
  <2>1. RetiredOnce
    <3>1. root.retired \cap DOMAIN root.refs = {}
          /\ \A b \in root.retired : page[b] # Marker
      BY DEF IInv, RootSound, Sound
    <3>2. ASSUME NEW m \in Maintainer, pass[m].at \in {"published", "marking"}
          PROVE  pass[m].marking \cap (root.retired \cup DOMAIN root.refs) = {}
      <4>1. CASE pass[m].at = "published"
        BY <4>1 DEF IInv, PassesSound, PassSound
      <4>2. CASE pass[m].at = "marking"
        <5>1. pass[m].marking \subseteq Own(m)
          BY <4>2 DEF Own, Frees
        <5> QED BY <5>1 DEF IInv, OwnApart, Public
      <4> QED BY <3>2, <4>1, <4>2
    <3> QED BY <3>1, <3>2 DEF RetiredOnce
  <2>2. NothingLost
    <3> SUFFICES ASSUME faults = 0, NEW b \in 1..nblocks
                 PROVE  \/ b \in DOMAIN root.refs \cup root.retired
                        \/ page[b] = Marker
                        \/ \E a \in Appender : b \in DOMAIN appending[a]
                        \/ \E m \in Maintainer : pass[m].at # "idle"
                            /\ b \in DOMAIN pass[m].staged \cup pass[m].plan.handoff
      BY DEF NothingLost
    <3>1. \/ b \in DOMAIN root.refs \cup root.retired
          \/ page[b] = Marker
          \/ b \in Appended
          \/ \E m \in Maintainer : b \in Own(m)
      BY DEF IInv, EveryBlockKnown
    <3>2. ASSUME NEW m \in Maintainer, b \in Own(m)
          PROVE  pass[m].at # "idle"
                   /\ b \in DOMAIN pass[m].staged \cup pass[m].plan.handoff
      <4>1. PassSound(m)
        BY DEF IInv, PassesSound
      <4>2. b \in DOMAIN Stages(m) \/ b \in Frees(m)
        BY <3>2 DEF Own
      <4> QED BY <4>1, <4>2, NothingEmpty DEF PassSound, Stages, Frees, Building
    <3> QED BY <3>1, <3>2 DEF Appended
  <2>3. TailPublished
    BY DEF IInv, RootSound, Sound, TailPublished
  <2> QED BY <2>1, <2>2, <2>3 DEF PagesAccounted
<1> QED BY <1>1, Inductive, PTL

=============================================================================
