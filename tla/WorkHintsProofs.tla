--------------------------- MODULE WorkHintsProofs ---------------------------
(***************************************************************************)
(* Proofs about WorkHints, for any indexes, hash and capacity: the probing *)
(* of every operation finds the one entry of an index, whatever marks,     *)
(* clears, tombstones and wipes came before.                               *)
(***************************************************************************)
EXTENDS WorkHints, WellFoundedInduction, TLAPS

(***************************************************************************)
(* Tables                                                                  *)
(***************************************************************************)
Positions == 0 .. Capacity - 1

TableOK(t) ==
  /\ DOMAIN t = {"slots", "sequence"}
  /\ t.slots \in [Positions -> Hint]
  /\ t.sequence \in Nat

Sound(t) ==
  /\ TableOK(t)
  /\ OneEntryPerIndex(t)
  /\ EntriesReachable(t)
  /\ FlagsMatchIndex(t)
  /\ \A s \in Positions :
       t.slots[s].flags # {} => t.slots[s].sequence \in 1 .. t.sequence

\* A search for i gets to slot s: it is stopped nowhere else before.
Reaches(t, i, s) ==
  \E p \in Positions :
    /\ ProbeSlot(i, p) = s
    /\ \A q \in Stops(t, i) : q < p => ProbeSlot(i, q) = s

\* A set of natural numbers has a least element, and Min finds it.
LEMMA MinIsLeast ==
    ASSUME NEW S \in SUBSET Nat, S # {}
    PROVE  Min(S) \in S /\ \A y \in S : Min(S) <= y
<1>1. PICK n \in S : \A m \in S : ~(<<m, n>> \in OpToRel(<, Nat))
    BY NatLessThanWellFounded, WFMin
<1>2. \A m \in S : n <= m
    <2> SUFFICES ASSUME NEW m \in S PROVE n <= m
        OBVIOUS
    <2>1. ~(m < n) /\ m \in Nat /\ n \in Nat
        BY <1>1 DEF OpToRel
    <2> QED
        BY <2>1
<1> QED
    BY <1>2 DEF Min

\* Every probe is a slot.
LEMMA ProbeInTable ==
    ASSUME WorkHintsAssumption, NEW i \in Indexes, NEW p \in Positions
    PROVE  ProbeSlot(i, p) \in Positions
<1>1. PICK h \in Nat : h = Home[i]
    BY DEF WorkHintsAssumption
<1>2. PICK c \in Nat \ {0} : c = Capacity
    BY DEF WorkHintsAssumption
<1>3. h + p \in Nat
    BY <1>1, <1>2 DEF Positions
<1>4. (h + p) % c \in 0 .. c - 1
    BY <1>2, <1>3
<1> QED
    BY <1>1, <1>2, <1>4 DEF ProbeSlot, Positions

LEMMA StopsAreProbes ==
    ASSUME NEW t, TableOK(t), NEW i
    PROVE  Stops(t, i) \subseteq Positions /\ Stops(t, i) \subseteq Nat
<1>1. Positions \subseteq Nat
    BY DEF Positions
<1>2. Stops(t, i) \subseteq Positions
    <2>1. Stops(t, i) \subseteq Slots(t)
        BY DEF Stops
    <2> QED
        BY <2>1 DEF Slots, TableOK
<1> QED
    BY <1>1, <1>2

\* The search that is stopped at the entry first finds it ...
LEMMA FoundIfReached ==
    ASSUME WorkHintsAssumption, NEW t, TableOK(t), NEW i \in Indexes,
           NEW s, Owns(t, s, i), Reaches(t, i, s)
    PROVE  FindSlot(t, i) = s
<1>1. PICK p \in Positions :
        ProbeSlot(i, p) = s /\ \A q \in Stops(t, i) : q < p => ProbeSlot(i, q) = s
    BY DEF Reaches
<1>2. p \in Stops(t, i)
    BY <1>1 DEF Stops, Slots, TableOK
<1>3. PICK m : m = Min(Stops(t, i))
    OBVIOUS
<1>4. m \in Stops(t, i) /\ m <= p /\ m \in Nat /\ p \in Nat
    BY <1>2, <1>3, MinIsLeast, StopsAreProbes
<1>5. ProbeSlot(i, m) = s
    BY <1>1, <1>4
<1> QED
    BY <1>3, <1>4, <1>5 DEF FindSlot, EntrySlot

\* ... and what a search finds it has reached.
LEMMA ReachedIfFound ==
    ASSUME WorkHintsAssumption, NEW t, TableOK(t), NEW i \in Indexes,
           FindSlot(t, i) # -1
    PROVE  /\ FindSlot(t, i) \in Positions
           /\ Owns(t, FindSlot(t, i), i)
           /\ Reaches(t, i, FindSlot(t, i))
<1>1. PICK m : m = Min(Stops(t, i))
    OBVIOUS
<1>2. /\ Stops(t, i) # {}
      /\ FindSlot(t, i) = ProbeSlot(i, m)
      /\ Owns(t, ProbeSlot(i, m), i)
    BY <1>1 DEF FindSlot, EntrySlot
<1>3. m \in Positions /\ \A q \in Stops(t, i) : m <= q /\ q \in Nat
    BY <1>1, <1>2, MinIsLeast, StopsAreProbes
<1>4. \A q \in Stops(t, i) : ~(q < m)
    BY <1>3 DEF Positions
<1> QED
    BY <1>2, <1>3, <1>4, ProbeInTable DEF Reaches

\* What a table says of an index is what its entry says.
LEMMA HintOfEntry ==
    ASSUME WorkHintsAssumption, NEW t, Sound(t), NEW i \in Indexes,
           NEW s \in Positions, Owns(t, s, i)
    PROVE  FindSlot(t, i) = s /\ HintOf(t, i) = t.slots[s]
<1>1. FindSlot(t, i) = s
    BY DEF Sound, EntriesReachable, Owns, TableOK, Slots
<1>2. s # -1
    BY DEF Positions
<1> QED
    BY <1>1, <1>2 DEF HintOf, HintAt

LEMMA HintOfNone ==
    ASSUME WorkHintsAssumption, NEW t, TableOK(t), NEW i \in Indexes,
           \A s \in Positions : ~Owns(t, s, i)
    PROVE  FindSlot(t, i) = -1 /\ HintOf(t, i) = FreeHint
    BY ReachedIfFound DEF HintOf, HintAt

(***************************************************************************)
(* How operations change a table                                           *)
(***************************************************************************)
\* The slot of a mark is reached, and it is the entry of the index or a slot
\* without an entry while the index has none.
LEMMA MarkSlotReached ==
    ASSUME WorkHintsAssumption, NEW t, Sound(t), NEW i \in Indexes,
           ~Overflows(t, i)
    PROVE  /\ MarkSlot(t, i) \in Positions
           /\ Reaches(t, i, MarkSlot(t, i))
           /\ \/ Owns(t, MarkSlot(t, i), i)
              \/ /\ t.slots[MarkSlot(t, i)].flags = {}
                 /\ \A u \in Positions : ~Owns(t, u, i)
<1>1. PICK stop : stop = IF Stops(t, i) = {} THEN Capacity ELSE Min(Stops(t, i))
    OBVIOUS
<1>2. PICK graves : graves = TombstonesBefore(t, i, stop)
    OBVIOUS
<1>0. MarkSlot(t, i) =
        IF ~(stop < Capacity /\ Owns(t, ProbeSlot(i, stop), i)) /\ graves # {}
        THEN ProbeSlot(i, Min(graves))
        ELSE IF stop < Capacity THEN ProbeSlot(i, stop) ELSE -1
    BY <1>1, <1>2 DEF MarkSlot, PlaceFrom, Place, FirstStop
<1>3. Capacity \in Nat /\ TableOK(t)
    BY DEF WorkHintsAssumption, Sound
<1>4. stop \in 0 .. Capacity /\ \A q \in Stops(t, i) : stop <= q /\ q \in Nat
    BY <1>1, <1>3, MinIsLeast, StopsAreProbes DEF Positions
<1>5. stop < Capacity => stop \in Stops(t, i) /\ stop \in Positions
    BY <1>1, <1>3, MinIsLeast, StopsAreProbes
<1>6. CASE stop < Capacity /\ Owns(t, ProbeSlot(i, stop), i)
    <2>1. MarkSlot(t, i) = ProbeSlot(i, stop)
        BY <1>0, <1>6
    <2>2. \A q \in Stops(t, i) : ~(q < stop)
        BY <1>4
    <2> QED
        BY <1>5, <1>6, <2>1, <2>2, ProbeInTable DEF Reaches
<1>7. CASE ~(stop < Capacity /\ Owns(t, ProbeSlot(i, stop), i))
    <2>1. \A u \in Positions : ~Owns(t, u, i)
        <3> SUFFICES ASSUME NEW u \in Positions, Owns(t, u, i) PROVE FALSE
            OBVIOUS
        <3>1. FindSlot(t, i) = u /\ u # -1
            BY HintOfEntry DEF Positions
        <3>2. Stops(t, i) # {} /\ Owns(t, ProbeSlot(i, Min(Stops(t, i))), i)
            BY <3>1 DEF FindSlot, EntrySlot
        <3>3. Min(Stops(t, i)) \in Positions
            BY <1>3, <3>2, MinIsLeast, StopsAreProbes
        <3> QED
            BY <1>1, <1>3, <1>7, <3>2, <3>3 DEF Positions
    <2>2. CASE graves # {}
        <3>1. graves \subseteq Positions /\ graves \subseteq Nat
            BY <1>2, <1>3 DEF TombstonesBefore, Slots, TableOK, Positions
        <3>2. PICK m : m = Min(graves)
            OBVIOUS
        <3>3. m \in graves /\ m \in Positions
            BY <2>2, <3>1, <3>2, MinIsLeast
        <3>4. m < stop /\ t.slots[ProbeSlot(i, m)].flags = {}
            BY <1>2, <3>3 DEF TombstonesBefore
        <3>5. MarkSlot(t, i) = ProbeSlot(i, m)
            BY <1>0, <1>7, <2>2, <3>2
        <3>6. \A q \in Stops(t, i) : ~(q < m)
            BY <1>4, <3>3, <3>4 DEF Positions
        <3> QED
            BY <2>1, <3>3, <3>4, <3>5, <3>6, ProbeInTable DEF Reaches
    <2>3. CASE graves = {}
        <3>1. stop < Capacity /\ MarkSlot(t, i) = ProbeSlot(i, stop)
            BY <1>0, <1>7, <2>3 DEF Overflows
        <3>2. \A q \in Stops(t, i) : ~(q < stop)
            BY <1>4
        <3>3. t.slots[ProbeSlot(i, stop)].flags = {}
            BY <1>5, <1>7, <3>1 DEF Stops
        <3> QED
            BY <1>5, <2>1, <3>1, <3>2, <3>3, ProbeInTable DEF Reaches
    <2> QED
        BY <2>2, <2>3
<1> QED
    BY <1>6, <1>7

\* An entry put where a mark puts it leaves the table sound.
LEMMA PutSound ==
    ASSUME WorkHintsAssumption, NEW t, Sound(t), NEW i \in Indexes,
           NEW s \in Positions, Reaches(t, i, s),
           Owns(t, s, i) \/ (t.slots[s].flags = {} /\ \A u \in Positions : ~Owns(t, u, i)),
           NEW h \in Hint, h.index = i, h.flags # {},
           NEW v, TableOK(v), v.slots = [t.slots EXCEPT ![s] = h],
           t.sequence <= v.sequence, h.sequence \in 1 .. v.sequence
    PROVE  /\ Sound(v)
           /\ HintOf(v, i) = h
           /\ \A j \in Indexes \ {i} : HintOf(v, j) = HintOf(t, j)
<1>1. NoIndex \notin Indexes /\ i # NoIndex
    BY DEF WorkHintsAssumption, NoIndex
<1>2. v.slots[s] = h /\ \A u \in Positions \ {s} : v.slots[u] = t.slots[u]
    BY DEF Sound, TableOK
<1>3. FlagsMatchIndex(v)
    BY <1>1, <1>2 DEF Sound, TableOK, FlagsMatchIndex, Slots
<1>4. \A u \in Positions : t.slots[u].index = i => u = s
    BY <1>1 DEF Sound, OneEntryPerIndex, FlagsMatchIndex, TableOK, Slots, Owns
<1>5. OneEntryPerIndex(v)
    <2> SUFFICES ASSUME NEW a \in Positions, NEW b \in Positions,
                        v.slots[a].flags # {}, v.slots[a].index = v.slots[b].index
                 PROVE  a = b
        BY DEF OneEntryPerIndex, Slots, TableOK
    <2>1. CASE a = s \/ b = s
        BY <1>2, <1>4, <2>1
    <2>2. CASE a # s /\ b # s
        BY <1>2, <2>2 DEF Sound, OneEntryPerIndex, Slots, TableOK
    <2> QED
        BY <2>1, <2>2
<1>6. EntriesReachable(v)
    <2> SUFFICES ASSUME NEW u \in Positions, v.slots[u].flags # {}
                 PROVE  FindSlot(v, v.slots[u].index) = u
        BY DEF EntriesReachable, Slots, TableOK
    <2>1. PICK j : j = v.slots[u].index
        OBVIOUS
    <2>2. j \in Indexes /\ Owns(v, u, j)
        BY <1>3, <2>1 DEF FlagsMatchIndex, Slots, TableOK, Hint, Owns
    <2>3. ASSUME NEW q \in Stops(v, j), q \notin Stops(t, j)
          PROVE  ProbeSlot(j, q) = s /\ Owns(v, s, j)
        <3>1. q \in Positions /\ ProbeSlot(j, q) \in Positions
            BY <2>2, ProbeInTable, StopsAreProbes
        <3>2. ProbeSlot(j, q) = s
            BY <1>2, <2>3, <3>1 DEF Stops, Owns, Slots, Sound, TableOK
        <3> QED
            BY <1>2, <3>2 DEF Stops, Owns
    <2>4. Reaches(v, j, u)
        <3>1. CASE u = s
            <4>1. j = i
                BY <1>2, <2>1, <3>1
            <4>2. PICK p \in Positions : /\ ProbeSlot(i, p) = s
                    /\ \A q \in Stops(t, i) : q < p => ProbeSlot(i, q) = s
                BY DEF Reaches
            <4>3. \A q \in Stops(v, i) : q < p => ProbeSlot(i, q) = s
                BY <2>3, <4>1, <4>2
            <4> QED
                BY <3>1, <4>1, <4>2, <4>3 DEF Reaches
        <3>2. CASE u # s
            <4>1. t.slots[u] = v.slots[u] /\ Owns(t, u, j) /\ j # i
                BY <1>2, <1>4, <2>1, <2>2, <3>2 DEF Owns
            <4>2. FindSlot(t, j) = u /\ u # -1
                BY <2>2, <4>1, HintOfEntry DEF Positions
            <4>3. Reaches(t, j, u)
                BY <2>2, <4>2, ReachedIfFound DEF Sound
            <4>4. ~Owns(v, s, j)
                BY <1>2, <4>1 DEF Owns
            <4>5. Stops(v, j) \subseteq Stops(t, j)
                BY <2>3, <4>4
            <4> QED
                BY <4>3, <4>5 DEF Reaches
        <3> QED
            BY <3>1, <3>2
    <2> QED
        BY <2>1, <2>2, <2>4, FoundIfReached
<1>7. \A u \in Positions : v.slots[u].flags # {} => v.slots[u].sequence \in 1 .. v.sequence
    <2> SUFFICES ASSUME NEW u \in Positions, v.slots[u].flags # {}
                 PROVE  v.slots[u].sequence \in 1 .. v.sequence
        OBVIOUS
    <2>1. CASE u = s
        BY <1>2, <2>1
    <2>2. CASE u # s
        <3>1. t.slots[u].sequence \in 1 .. t.sequence
            BY <1>2, <2>2 DEF Sound
        <3> QED
            BY <1>2, <2>2, <3>1 DEF Sound, TableOK
    <2> QED
        BY <2>1, <2>2
<1>8. Sound(v)
    BY <1>3, <1>5, <1>6, <1>7 DEF Sound
<1>9. HintOf(v, i) = h
    <2>1. Owns(v, s, i)
        BY <1>2 DEF Owns
    <2>2. \A x : Sound(x) /\ Owns(x, s, i) => HintOf(x, i) = x.slots[s]
        BY HintOfEntry
    <2> QED
        BY <1>2, <1>8, <2>1, <2>2
<1>10. ASSUME NEW j \in Indexes \ {i}
       PROVE  HintOf(v, j) = HintOf(t, j)
    <2>1. \A u \in Positions : Owns(v, u, j) <=> Owns(t, u, j)
        BY <1>2, <1>4 DEF Owns
    <2>2. CASE \E u \in Positions : Owns(t, u, j)
        <3>1. PICK u \in Positions : Owns(t, u, j)
            BY <2>2
        <3>2. u # s /\ Owns(v, u, j)
            BY <1>2, <2>1, <3>1 DEF Owns
        <3>3. HintOf(v, j) = v.slots[u]
            BY <1>8, <3>2, HintOfEntry
        <3>4. HintOf(t, j) = t.slots[u]
            BY <3>1, HintOfEntry
        <3> QED
            BY <1>2, <3>2, <3>3, <3>4
    <2>3. CASE \A u \in Positions : ~Owns(t, u, j)
        BY <2>1, <2>3, HintOfNone DEF Sound
    <2> QED
        BY <2>2, <2>3
<1> QED
    BY <1>8, <1>9, <1>10

\* So do changes that keep an entry where it is, or turn it into a tombstone.
TombOf(h) == h.flags = {} /\ h.index = NoIndex /\ h.sequence = Tombstone

LEMMA ChangeSound ==
    ASSUME WorkHintsAssumption, NEW t, Sound(t), NEW v, TableOK(v),
           v.sequence = t.sequence,
           \A s \in Positions :
             \/ v.slots[s] = t.slots[s]
             \/ /\ (t.slots[s].flags = {}) <=> (v.slots[s].flags = {})
                /\ v.slots[s].index = t.slots[s].index
                /\ v.slots[s].sequence = t.slots[s].sequence
             \/ TombOf(v.slots[s])
    PROVE  /\ Sound(v)
           /\ \A i \in Indexes, s \in Positions : Owns(t, s, i) =>
                HintOf(v, i) = IF v.slots[s].flags = {} THEN FreeHint ELSE v.slots[s]
           /\ \A i \in Indexes : (\A s \in Positions : ~Owns(t, s, i)) =>
                HintOf(v, i) = FreeHint /\ HintOf(t, i) = FreeHint
<1>1. FlagsMatchIndex(v)
    BY DEF Sound, TableOK, FlagsMatchIndex, Slots, TombOf
<1>2. \A s \in Positions : v.slots[s].flags # {} =>
        t.slots[s].flags # {} /\ v.slots[s].index = t.slots[s].index
    BY DEF TombOf
<1>3. OneEntryPerIndex(v)
    <2> SUFFICES ASSUME NEW a \in Positions, NEW b \in Positions,
                        v.slots[a].flags # {}, v.slots[a].index = v.slots[b].index
                 PROVE  a = b
        BY DEF OneEntryPerIndex, Slots, TableOK
    <2>1. v.slots[b].flags # {}
        BY <1>1 DEF FlagsMatchIndex, Slots, TableOK
    <2>2. /\ t.slots[a].flags # {} /\ t.slots[a].index = v.slots[a].index
          /\ t.slots[b].index = v.slots[b].index
        BY <1>2, <2>1
    <2> QED
        BY <2>2 DEF Sound, OneEntryPerIndex, Slots, TableOK
<1>4. EntriesReachable(v)
    <2> SUFFICES ASSUME NEW u \in Positions, v.slots[u].flags # {}
                 PROVE  FindSlot(v, v.slots[u].index) = u
        BY DEF EntriesReachable, Slots, TableOK
    <2>1. PICK j : j = v.slots[u].index
        OBVIOUS
    <2>2. j \in Indexes /\ Owns(v, u, j) /\ Owns(t, u, j)
        BY <1>1, <1>2, <2>1 DEF FlagsMatchIndex, Slots, TableOK, Hint, Owns
    <2>3. Reaches(t, j, u)
        <3>1. FindSlot(t, j) = u /\ u # -1
            BY <2>2, HintOfEntry DEF Positions
        <3> QED
            BY <2>2, <3>1, ReachedIfFound DEF Sound
    <2>4. Stops(v, j) \subseteq Stops(t, j)
        <3> SUFFICES ASSUME NEW q \in Stops(v, j) PROVE q \in Stops(t, j)
            OBVIOUS
        <3>1. q \in Positions /\ ProbeSlot(j, q) \in Positions
            BY <2>2, ProbeInTable, StopsAreProbes
        <3> QED
            BY <1>2, <3>1 DEF Stops, Owns, Slots, Sound, TableOK, TombOf
    <2> QED
        BY <2>1, <2>2, <2>3, <2>4, FoundIfReached DEF Reaches
<1>5. Sound(v)
    BY <1>1, <1>3, <1>4 DEF Sound, TombOf
<1>6. \A i \in Indexes, s \in Positions : Owns(v, s, i) => Owns(t, s, i)
    BY <1>2 DEF Owns
<1>7. ASSUME NEW i \in Indexes, NEW s \in Positions, Owns(t, s, i)
      PROVE  HintOf(v, i) = IF v.slots[s].flags = {} THEN FreeHint ELSE v.slots[s]
    <2>1. CASE v.slots[s].flags # {}
        <3>1. Owns(v, s, i)
            BY <1>2, <1>7, <2>1 DEF Owns
        <3> QED
            BY <1>5, <2>1, <3>1, HintOfEntry
    <2>2. CASE v.slots[s].flags = {}
        <3>1. \A u \in Positions : Owns(t, u, i) => u = s
            BY <1>7 DEF Sound, OneEntryPerIndex, Owns, Slots, TableOK
        <3>2. \A u \in Positions : ~Owns(v, u, i)
            BY <1>6, <2>2, <3>1 DEF Owns
        <3> QED
            BY <2>2, <3>2, HintOfNone
    <2> QED
        BY <2>1, <2>2
<1>8. ASSUME NEW i \in Indexes, \A s \in Positions : ~Owns(t, s, i)
      PROVE  HintOf(v, i) = FreeHint /\ HintOf(t, i) = FreeHint
    BY <1>6, <1>8, HintOfNone DEF Sound
<1> QED
    BY <1>5, <1>7, <1>8

(***************************************************************************)
(* What the operations do to the hint of each index                        *)
(***************************************************************************)
\* A hint changes its sequence only to a new one, or with its removal.
Forward(t, v) ==
  /\ Sound(v)
  /\ t.sequence <= v.sequence
  /\ \A i \in Indexes : HintOf(v, i).sequence \in
       {0, HintOf(t, i).sequence} \cup (t.sequence + 1 .. v.sequence)

Keeps(t, v, i, flag) == flag \in HintOf(t, i).flags => flag \in HintOf(v, i).flags

\* What is known of a hint in a sound table.
LEMMA HintOfOK ==
    ASSUME WorkHintsAssumption, NEW t, Sound(t), NEW i \in Indexes
    PROVE  /\ HintOf(t, i) \in Hint
           /\ HintOf(t, i).sequence \in 0 .. t.sequence
           /\ HintOf(t, i).flags # {} <=> HintOf(t, i).sequence # 0
           /\ HintOf(t, i) # FreeHint => HintOf(t, i).index = i
<1>1. t.sequence \in Nat
    BY DEF Sound, TableOK
<1>2. CASE \E s \in Positions : Owns(t, s, i)
    <2>1. PICK s \in Positions : Owns(t, s, i)
        BY <1>2
    <2>2. HintOf(t, i) = t.slots[s]
        BY <2>1, HintOfEntry
    <2>3. t.slots[s] \in Hint /\ t.slots[s].sequence \in 1 .. t.sequence
        BY <2>1 DEF Sound, TableOK, Owns
    <2> QED
        BY <1>1, <2>1, <2>2, <2>3 DEF Owns
<1>3. CASE \A s \in Positions : ~Owns(t, s, i)
    <2>1. HintOf(t, i) = FreeHint
        BY <1>3, HintOfNone DEF Sound
    <2>2. FreeHint \in Hint /\ FreeHint.sequence = 0 /\ FreeHint.flags = {}
        BY DEF FreeHint, Hint
    <2> QED
        BY <1>1, <2>1, <2>2
<1> QED
    BY <1>2, <1>3

LEMMA ForwardAgain ==
    ASSUME NEW t, NEW u, NEW v, TableOK(t), Forward(t, u), Forward(u, v)
    PROVE  Forward(t, v)
<1>1. t.sequence \in Nat /\ u.sequence \in Nat /\ v.sequence \in Nat
    BY DEF TableOK, Forward, Sound
<1>2. t.sequence <= v.sequence
    BY <1>1 DEF Forward
<1>3. ASSUME NEW i \in Indexes
      PROVE  HintOf(v, i).sequence \in
               {0, HintOf(t, i).sequence} \cup (t.sequence + 1 .. v.sequence)
    <2>1. /\ HintOf(u, i).sequence \in
               {0, HintOf(t, i).sequence} \cup (t.sequence + 1 .. u.sequence)
          /\ HintOf(v, i).sequence \in
               {0, HintOf(u, i).sequence} \cup (u.sequence + 1 .. v.sequence)
        BY DEF Forward
    <2>2. t.sequence <= u.sequence /\ u.sequence <= v.sequence
        BY DEF Forward
    <2> QED
        BY <1>1, <2>1, <2>2
<1> QED
    BY <1>2, <1>3 DEF Forward

LEMMA EmptyTableSound ==
    ASSUME WorkHintsAssumption
    PROVE  Sound(EmptyTable(Capacity))
<1>1. FreeHint \in Hint /\ FreeHint.flags = {} /\ FreeHint.index = NoIndex
    BY DEF FreeHint, Hint
<1>2. /\ EmptyTable(Capacity).slots = [s \in Positions |-> FreeHint]
      /\ EmptyTable(Capacity).sequence = 0
      /\ DOMAIN EmptyTable(Capacity) = {"slots", "sequence"}
    BY DEF EmptyTable, Positions
<1> QED
    BY <1>1, <1>2 DEF Sound, TableOK, OneEntryPerIndex, EntriesReachable,
                      FlagsMatchIndex, Slots

\* A mark: the hint of the index has the classes and a new sequence.
LEMMA MarkEffect ==
    ASSUME WorkHintsAssumption, NEW t, Sound(t), NEW i \in Indexes,
           ~Overflows(t, i), NEW F \in SUBSET Classes, F # {}
    PROVE  /\ Forward(t, Mark(t, i, F))
           /\ Mark(t, i, F).sequence = t.sequence + 1
           /\ HintOf(Mark(t, i, F), i).sequence = t.sequence + 1
           /\ F \subseteq HintOf(Mark(t, i, F), i).flags
           /\ \A j \in Indexes, f \in Classes : Keeps(t, Mark(t, i, F), j, f)
<1>1. PICK s : s = MarkSlot(t, i)
    OBVIOUS
<1>2. /\ s \in Positions /\ Reaches(t, i, s)
      /\ Owns(t, s, i) \/ (t.slots[s].flags = {} /\ \A u \in Positions : ~Owns(t, u, i))
    BY <1>1, MarkSlotReached
<1>3. PICK n : n = t.sequence + 1
    OBVIOUS
<1>4. t.sequence \in Nat /\ n \in Nat /\ t.slots[s] \in Hint
    BY <1>2, <1>3 DEF Sound, TableOK
<1>5. PICK h : h =
         [index    |-> i,
          flags    |-> t.slots[s].flags \cup F,
          sequence |-> n,
          marked   |-> IF "maintenance" \in F /\ "maintenance" \notin t.slots[s].flags
                       THEN "fresh"
                       ELSE IF t.slots[s].flags = {} THEN "no" ELSE t.slots[s].marked,
          cooldown |-> t.slots[s].flags # {} /\ t.slots[s].cooldown]
    OBVIOUS
<1>6. Mark(t, i, F) = [slots |-> [t.slots EXCEPT ![s] = h], sequence |-> n]
    BY <1>1, <1>3, <1>5 DEF Mark, MarkAt
<1>7. h \in Hint /\ h.index = i /\ h.flags # {} /\ h.sequence = n
    BY <1>4, <1>5 DEF Hint
<1>8. TableOK(Mark(t, i, F))
    BY <1>2, <1>4, <1>6, <1>7 DEF Sound, TableOK
<1>9. h.sequence \in 1 .. n /\ t.sequence <= n
    BY <1>3, <1>4, <1>7
<1>10. PICK v : v = Mark(t, i, F)
    OBVIOUS
<1>11. v.slots = [t.slots EXCEPT ![s] = h] /\ v.sequence = n /\ TableOK(v)
    BY <1>6, <1>8, <1>10
<1>12. /\ Sound(v) /\ HintOf(v, i) = h
       /\ \A j \in Indexes \ {i} : HintOf(v, j) = HintOf(t, j)
    BY <1>2, <1>7, <1>9, <1>11, PutSound
<1>13. HintOf(t, i).flags \subseteq h.flags
    <2>1. CASE Owns(t, s, i)
        <3>1. HintOf(t, i) = t.slots[s]
            BY <1>2, <2>1, HintOfEntry
        <3> QED
            BY <1>5, <3>1
    <2>2. CASE \A u \in Positions : ~Owns(t, u, i)
        <3>1. HintOf(t, i) = FreeHint
            BY <2>2, HintOfNone DEF Sound
        <3> QED
            BY <3>1 DEF FreeHint
    <2> QED
        BY <1>2, <2>1, <2>2
<1>14. F \subseteq h.flags
    BY <1>5
<1>15. Forward(t, v)
    BY <1>3, <1>4, <1>7, <1>9, <1>11, <1>12 DEF Forward
<1> QED
    BY <1>3, <1>7, <1>10, <1>11, <1>12, <1>13, <1>14, <1>15 DEF Keeps

\* A deferred accelerator: the index is hinted for maintenance; an existing
\* hint keeps its sequence.
LEMMA DeferEffect ==
    ASSUME WorkHintsAssumption, NEW t, Sound(t), NEW i \in Indexes,
           ~Overflows(t, i)
    PROVE  /\ Forward(t, DeferAccelerator(t, i))
           /\ DeferAccelerator(t, i).sequence <= t.sequence + 1
           /\ "maintenance" \in HintOf(DeferAccelerator(t, i), i).flags
           /\ \A j \in Indexes, f \in Classes : Keeps(t, DeferAccelerator(t, i), j, f)
<1>1. PICK s : s = MarkSlot(t, i)
    OBVIOUS
<1>2. /\ s \in Positions /\ Reaches(t, i, s)
      /\ Owns(t, s, i) \/ (t.slots[s].flags = {} /\ \A u \in Positions : ~Owns(t, u, i))
    BY <1>1, MarkSlotReached
<1>3. PICK n : n = IF t.slots[s].flags = {} THEN t.sequence + 1 ELSE t.sequence
    OBVIOUS
<1>4. /\ t.sequence \in Nat /\ n \in Nat /\ t.slots[s] \in Hint
      /\ n <= t.sequence + 1 /\ t.sequence <= n
    BY <1>2, <1>3 DEF Sound, TableOK
<1>5. PICK h : h =
         [index    |-> i,
          flags    |-> t.slots[s].flags \cup {"maintenance"},
          sequence |-> IF t.slots[s].flags = {} THEN t.sequence + 1 ELSE t.slots[s].sequence,
          marked   |-> IF t.slots[s].flags = {} \/ t.slots[s].marked = "no"
                       THEN "fresh" ELSE t.slots[s].marked,
          cooldown |-> TRUE]
    OBVIOUS
<1>6. DeferAccelerator(t, i) = [slots |-> [t.slots EXCEPT ![s] = h], sequence |-> n]
    BY <1>1, <1>3, <1>5 DEF DeferAccelerator, DeferAt
<1>7. h \in Hint /\ h.index = i /\ h.flags # {}
    BY <1>4, <1>5 DEF Hint, Classes
<1>8. TableOK(DeferAccelerator(t, i))
    BY <1>2, <1>4, <1>6, <1>7 DEF Sound, TableOK
<1>9. h.sequence \in 1 .. n
    <2>1. t.slots[s].flags # {} => t.slots[s].sequence \in 1 .. t.sequence
        BY <1>2 DEF Sound
    <2> QED
        BY <1>3, <1>4, <1>5, <2>1
<1>10. PICK v : v = DeferAccelerator(t, i)
    OBVIOUS
<1>11. v.slots = [t.slots EXCEPT ![s] = h] /\ v.sequence = n /\ TableOK(v)
    BY <1>6, <1>8, <1>10
<1>12. /\ Sound(v) /\ HintOf(v, i) = h
       /\ \A j \in Indexes \ {i} : HintOf(v, j) = HintOf(t, j)
    BY <1>2, <1>4, <1>7, <1>9, <1>11, PutSound
<1>13. /\ HintOf(t, i).flags \subseteq h.flags
       /\ h.sequence \in {HintOf(t, i).sequence} \cup (t.sequence + 1 .. n)
    <2>1. CASE Owns(t, s, i)
        <3>1. HintOf(t, i) = t.slots[s] /\ t.slots[s].flags # {}
            BY <1>2, <2>1, HintOfEntry DEF Owns
        <3> QED
            BY <1>5, <3>1
    <2>2. CASE t.slots[s].flags = {} /\ \A u \in Positions : ~Owns(t, u, i)
        <3>1. HintOf(t, i) = FreeHint
            BY <2>2, HintOfNone DEF Sound
        <3> QED
            BY <1>3, <1>4, <1>5, <2>2, <3>1 DEF FreeHint
    <2> QED
        BY <1>2, <2>1, <2>2
<1>14. "maintenance" \in h.flags
    BY <1>5
<1>15. Forward(t, v)
    BY <1>4, <1>11, <1>12, <1>13 DEF Forward
<1> QED
    BY <1>4, <1>10, <1>11, <1>12, <1>13, <1>14, <1>15 DEF Keeps

\* Wiping an idle table loses no hint.
LEMMA WipeEffect ==
    ASSUME WorkHintsAssumption, NEW t, Sound(t)
    PROVE  /\ Sound(Wiped(t)) /\ Wiped(t).sequence = t.sequence
           /\ \A i \in Indexes : HintOf(Wiped(t), i) = HintOf(t, i)
<1>1. CASE \A s \in Slots(t) : t.slots[s].flags = {}
    <2>1. FreeHint \in Hint /\ FreeHint.flags = {} /\ FreeHint.index = NoIndex
        BY DEF FreeHint, Hint
    <2>2. PICK v : v = Wiped(t)
        OBVIOUS
    <2>3. /\ v.slots = [s \in Positions |-> FreeHint] /\ v.sequence = t.sequence
          /\ DOMAIN v = {"slots", "sequence"}
        BY <1>1, <2>2 DEF Wiped, Sound, TableOK, Slots
    <2>4. Sound(v)
        BY <2>1, <2>3 DEF Sound, TableOK, OneEntryPerIndex, EntriesReachable,
                          FlagsMatchIndex, Slots
    <2>5. ASSUME NEW i \in Indexes
          PROVE  HintOf(v, i) = HintOf(t, i)
        <3>1. \A s \in Positions : ~Owns(v, s, i) /\ ~Owns(t, s, i)
            BY <1>1, <2>1, <2>3 DEF Owns, Sound, TableOK, Slots
        <3>2. HintOf(v, i) = FreeHint
            BY <2>4, <3>1, HintOfNone DEF Sound
        <3>3. HintOf(t, i) = FreeHint
            BY <3>1, HintOfNone DEF Sound
        <3> QED
            BY <3>2, <3>3
    <2> QED
        BY <2>2, <2>3, <2>4, <2>5
<1>2. CASE ~(\A s \in Slots(t) : t.slots[s].flags = {})
    BY <1>2 DEF Wiped
<1> QED
    BY <1>1, <1>2

\* Taking a class from the hints at some positions, and from no other hint,
\* changes what the table says of an index exactly there.
Dropped(t, v, P, flag) ==
  /\ DOMAIN v = {"slots", "sequence"} /\ v.sequence = t.sequence
  /\ \A s \in P : flag \in t.slots[s].flags
  /\ v.slots = [s \in Positions |->
                  IF s \in P THEN DropClass(t.slots[s], flag) ELSE t.slots[s]]

LEMMA DropEffect ==
    ASSUME WorkHintsAssumption, NEW t, Sound(t), NEW flag \in Classes,
           NEW P \in SUBSET Positions, NEW v, Dropped(t, v, P, flag)
    PROVE  /\ Forward(t, v)
           /\ \A i \in Indexes, f \in Classes \ {flag} : Keeps(t, v, i, f)
           /\ \A i \in Indexes :
                (\A s \in P : ~Owns(t, s, i)) => HintOf(v, i) = HintOf(t, i)
<1>1. ASSUME NEW s \in P
      PROVE  /\ DropClass(t.slots[s], flag) \in Hint
             /\ \/ TombOf(DropClass(t.slots[s], flag)) /\ t.slots[s].flags = {flag}
                \/ /\ DropClass(t.slots[s], flag).flags = t.slots[s].flags \ {flag}
                   /\ DropClass(t.slots[s], flag).flags # {}
                   /\ DropClass(t.slots[s], flag).index = t.slots[s].index
                   /\ DropClass(t.slots[s], flag).sequence = t.slots[s].sequence
    <2>1. PICK h \in Hint : h = t.slots[s] /\ flag \in h.flags
        BY DEF Sound, TableOK, Dropped
    <2>2. PICK k : k = [h EXCEPT !.flags = h.flags \ {flag},
                          !.marked = IF flag = "maintenance" THEN "no" ELSE h.marked,
                          !.cooldown = flag # "maintenance" /\ h.cooldown]
        OBVIOUS
    <2>3. /\ k \in Hint /\ k.flags = h.flags \ {flag}
          /\ k.index = h.index /\ k.sequence = h.sequence
        BY <2>2 DEF Hint
    <2>4. DropClass(h, flag) = IF h.flags \ {flag} = {}
                               THEN [k EXCEPT !.index = NoIndex, !.sequence = Tombstone]
                               ELSE k
        BY <2>2 DEF DropClass
    <2>5. CASE h.flags \ {flag} = {}
        <3>1. PICK m : m = [k EXCEPT !.index = NoIndex, !.sequence = Tombstone]
            OBVIOUS
        <3>2. /\ m = [index |-> NoIndex, flags |-> {}, sequence |-> Tombstone,
                      marked |-> k.marked, cooldown |-> k.cooldown]
              /\ k.marked \in {"no", "fresh", "aged"} /\ k.cooldown \in BOOLEAN
            BY <2>3, <2>5, <3>1 DEF Hint
        <3>3. m \in Hint
            BY <3>2 DEF Hint, Tombstone
        <3>4. h.flags = {flag}
            BY <2>1, <2>5
        <3>5. DropClass(h, flag) = m
            BY <2>4, <2>5, <3>1
        <3>6. TombOf(m)
            BY <3>2 DEF TombOf
        <3> QED
            BY <2>1, <3>3, <3>4, <3>5, <3>6
    <2>6. CASE h.flags \ {flag} # {}
        BY <2>1, <2>3, <2>4, <2>6
    <2> QED
        BY <2>5, <2>6
<1>2. TableOK(v)
    BY <1>1 DEF Sound, TableOK, Dropped
<1>3. \A s \in Positions :
        \/ s \notin P /\ v.slots[s] = t.slots[s]
        \/ s \in P /\ TombOf(v.slots[s]) /\ t.slots[s].flags = {flag}
        \/ /\ s \in P
           /\ v.slots[s].flags = t.slots[s].flags \ {flag} /\ v.slots[s].flags # {}
           /\ t.slots[s].flags # {}
           /\ v.slots[s].index = t.slots[s].index
           /\ v.slots[s].sequence = t.slots[s].sequence
    BY <1>1 DEF Dropped
<1>4. /\ Sound(v)
      /\ \A i \in Indexes, s \in Positions : Owns(t, s, i) =>
           HintOf(v, i) = IF v.slots[s].flags = {} THEN FreeHint ELSE v.slots[s]
      /\ \A i \in Indexes : (\A s \in Positions : ~Owns(t, s, i)) =>
           HintOf(v, i) = FreeHint /\ HintOf(t, i) = FreeHint
    <2>1. \A s \in Positions :
             \/ v.slots[s] = t.slots[s]
             \/ /\ (t.slots[s].flags = {}) <=> (v.slots[s].flags = {})
                /\ v.slots[s].index = t.slots[s].index
                /\ v.slots[s].sequence = t.slots[s].sequence
             \/ TombOf(v.slots[s])
        BY <1>3
    <2> QED
        BY <1>2, <2>1, ChangeSound DEF Dropped
<1>5. ASSUME NEW i \in Indexes
      PROVE  /\ HintOf(v, i).sequence \in {0, HintOf(t, i).sequence}
             /\ HintOf(t, i).flags \ {flag} \subseteq HintOf(v, i).flags
             /\ (\A s \in P : ~Owns(t, s, i)) => HintOf(v, i) = HintOf(t, i)
    <2>1. CASE \E s \in Positions : Owns(t, s, i)
        <3>1. PICK s \in Positions : Owns(t, s, i)
            BY <2>1
        <3>2. HintOf(t, i) = t.slots[s]
            BY <3>1, HintOfEntry
        <3>3. HintOf(v, i) = IF v.slots[s].flags = {} THEN FreeHint ELSE v.slots[s]
            BY <1>4, <3>1
        <3>4. FreeHint.sequence = 0 /\ FreeHint.flags = {}
            BY DEF FreeHint
        <3>5. t.slots[s].flags # {}
            BY <3>1 DEF Owns
        <3>6. CASE s \notin P
            BY <1>3, <3>2, <3>3, <3>5, <3>6
        <3>7. CASE s \in P
            BY <1>3, <3>1, <3>2, <3>3, <3>4, <3>7 DEF TombOf
        <3> QED
            BY <3>6, <3>7
    <2>2. CASE \A s \in Positions : ~Owns(t, s, i)
        <3>1. HintOf(v, i) = FreeHint /\ HintOf(t, i) = FreeHint
            BY <1>4, <2>2
        <3> QED
            BY <3>1 DEF FreeHint
    <2> QED
        BY <2>1, <2>2
<1>6. t.sequence \in Nat
    BY DEF Sound, TableOK
<1> QED
    BY <1>4, <1>5, <1>6 DEF Forward, Keeps, Dropped

\* Consuming takes the class off the hints of one database.
LEMMA ConsumeEffect ==
    ASSUME WorkHintsAssumption, NEW t, Sound(t), NEW mine, NEW flag \in Classes
    PROVE  /\ Forward(t, Consume(t, mine, flag))
           /\ Consume(t, mine, flag).sequence = t.sequence
           /\ \A i \in Indexes, f \in Classes :
                f # flag \/ i \notin mine => Keeps(t, Consume(t, mine, flag), i, f)
<1>1. PICK P : P = { s \in Positions : t.slots[s].index \in mine /\ flag \in t.slots[s].flags }
    OBVIOUS
<1>2. PICK u : u = [t EXCEPT !.slots = [s \in Slots(t) |->
                      IF t.slots[s].index \in mine /\ flag \in t.slots[s].flags
                      THEN DropClass(t.slots[s], flag) ELSE t.slots[s]]]
    OBVIOUS
<1>3. Consume(t, mine, flag) = Wiped(u)
    BY <1>2 DEF Consume
<1>4. /\ DOMAIN u = {"slots", "sequence"} /\ u.sequence = t.sequence
      /\ u.slots = [s \in Positions |->
                      IF s \in P THEN DropClass(t.slots[s], flag) ELSE t.slots[s]]
    BY <1>1, <1>2 DEF Sound, TableOK, Slots
<1>5. P \in SUBSET Positions /\ \A s \in P : flag \in t.slots[s].flags
    BY <1>1
<1>6. /\ Forward(t, u)
      /\ \A i \in Indexes, f \in Classes \ {flag} : Keeps(t, u, i, f)
      /\ \A i \in Indexes :
           (\A s \in P : ~Owns(t, s, i)) => HintOf(u, i) = HintOf(t, i)
    <2>1. Dropped(t, u, P, flag)
        BY <1>4, <1>5 DEF Dropped
    <2> QED
        BY <1>5, <2>1, DropEffect
<1>7. /\ Sound(Wiped(u)) /\ Wiped(u).sequence = u.sequence
      /\ \A i \in Indexes : HintOf(Wiped(u), i) = HintOf(u, i)
    BY <1>6, WipeEffect DEF Forward
<1>8. \A i \in Indexes \ mine : \A s \in P : ~Owns(t, s, i)
    BY <1>1 DEF Owns
<1> QED
    BY <1>3, <1>4, <1>6, <1>7, <1>8 DEF Forward, Keeps

\* The clear of a hint that was marked since: nothing happens to it.  No other
\* hint and no other class is cleared in any case.
LEMMA ClearEffect ==
    ASSUME WorkHintsAssumption, NEW t, Sound(t), NEW i \in Indexes,
           NEW flag \in Classes, NEW n
    PROVE  /\ Forward(t, ClearIfUnchanged(t, i, flag, n))
           /\ ClearIfUnchanged(t, i, flag, n).sequence = t.sequence
           /\ \A j \in Indexes, f \in Classes :
                f # flag \/ j # i \/ HintOf(t, j).sequence # n
                  => Keeps(t, ClearIfUnchanged(t, i, flag, n), j, f)
<1>1. Forward(t, t)
    BY DEF Forward, Sound, TableOK
<1>2. PICK s : s = FindSlot(t, i)
    OBVIOUS
<1>3. CASE s = -1 \/ n = 0 \/ t.slots[s].sequence # n \/ flag \notin t.slots[s].flags
    <2>1. ClearIfUnchanged(t, i, flag, n) = t
        BY <1>2, <1>3 DEF ClearIfUnchanged, ClearAt
    <2> QED
        BY <1>1, <2>1 DEF Keeps
<1>4. CASE ~(s = -1 \/ n = 0 \/ t.slots[s].sequence # n \/ flag \notin t.slots[s].flags)
    <2>1. PICK u : u = [t EXCEPT !.slots = [t.slots EXCEPT ![s] = DropClass(t.slots[s], flag)]]
        OBVIOUS
    <2>2. ClearIfUnchanged(t, i, flag, n) =
            IF DropClass(t.slots[s], flag).flags = {} THEN Wiped(u) ELSE u
        BY <1>2, <1>4, <2>1 DEF ClearIfUnchanged, ClearAt
    <2>3. Stops(t, i) # {} /\ s = ProbeSlot(i, Min(Stops(t, i))) /\ Owns(t, s, i)
        BY <1>2, <1>4 DEF FindSlot, EntrySlot
    <2>4. s \in Positions
        <3>1. Min(Stops(t, i)) \in Positions
            BY <2>3, MinIsLeast, StopsAreProbes DEF Sound
        <3> QED
            BY <2>3, <3>1, ProbeInTable
    <2>5. /\ DOMAIN u = {"slots", "sequence"} /\ u.sequence = t.sequence
          /\ u.slots = [p \in Positions |->
                          IF p \in {s} THEN DropClass(t.slots[p], flag) ELSE t.slots[p]]
        BY <2>1, <2>4 DEF Sound, TableOK
    <2>6. PICK P \in SUBSET Positions : P = {s} /\ \A p \in P : flag \in t.slots[p].flags
        <3>1. {s} \in SUBSET Positions /\ flag \in t.slots[s].flags
            BY <1>4, <2>4
        <3> QED
            BY <3>1
    <2>7. /\ Forward(t, u)
          /\ \A j \in Indexes, f \in Classes \ {flag} : Keeps(t, u, j, f)
          /\ \A j \in Indexes :
               (\A p \in P : ~Owns(t, p, j)) => HintOf(u, j) = HintOf(t, j)
        <3>1. Dropped(t, u, P, flag)
            BY <2>5, <2>6 DEF Dropped
        <3> QED
            BY <3>1, DropEffect
    <2>8. /\ Sound(Wiped(u)) /\ Wiped(u).sequence = u.sequence
          /\ \A j \in Indexes : HintOf(Wiped(u), j) = HintOf(u, j)
        BY <2>7, WipeEffect DEF Forward
    <2>9. \A j \in Indexes : j # i \/ HintOf(t, j).sequence # n => ~Owns(t, s, j)
        <3> SUFFICES ASSUME NEW j \in Indexes, Owns(t, s, j)
                     PROVE  j = i /\ HintOf(t, j).sequence = n
            OBVIOUS
        <3>1. HintOf(t, j) = t.slots[s]
            BY <2>4, HintOfEntry
        <3> QED
            BY <1>4, <2>3, <3>1 DEF Owns
    <2> QED
        BY <2>2, <2>5, <2>6, <2>7, <2>8, <2>9 DEF Forward, Keeps
<1> QED
    BY <1>3, <1>4

\* A table whose hints differ from those of a sound one only in their age and
\* cooldown says the same of every index.
Refreshed(t, v) ==
  /\ TableOK(v) /\ v.sequence = t.sequence
  /\ \A s \in Positions : /\ v.slots[s].flags = t.slots[s].flags
                          /\ v.slots[s].index = t.slots[s].index
                          /\ v.slots[s].sequence = t.slots[s].sequence

LEMMA RefreshEffect ==
    ASSUME WorkHintsAssumption, NEW t, Sound(t), NEW v, Refreshed(t, v)
    PROVE  /\ Forward(t, v)
           /\ \A i \in Indexes : /\ HintOf(v, i).flags = HintOf(t, i).flags
                                 /\ HintOf(v, i).sequence = HintOf(t, i).sequence
<1>1. \A s \in Positions :
         \/ v.slots[s] = t.slots[s]
         \/ /\ (t.slots[s].flags = {}) <=> (v.slots[s].flags = {})
            /\ v.slots[s].index = t.slots[s].index
            /\ v.slots[s].sequence = t.slots[s].sequence
         \/ TombOf(v.slots[s])
    BY DEF Refreshed
<1>2. /\ Sound(v)
      /\ \A i \in Indexes, s \in Positions : Owns(t, s, i) =>
           HintOf(v, i) = IF v.slots[s].flags = {} THEN FreeHint ELSE v.slots[s]
      /\ \A i \in Indexes : (\A s \in Positions : ~Owns(t, s, i)) =>
           HintOf(v, i) = FreeHint /\ HintOf(t, i) = FreeHint
    BY <1>1, ChangeSound DEF Refreshed
<1>3. ASSUME NEW i \in Indexes
      PROVE  /\ HintOf(v, i).flags = HintOf(t, i).flags
             /\ HintOf(v, i).sequence = HintOf(t, i).sequence
    <2>1. CASE \E s \in Positions : Owns(t, s, i)
        <3>1. PICK s \in Positions : Owns(t, s, i)
            BY <2>1
        <3>2. HintOf(t, i) = t.slots[s]
            BY <3>1, HintOfEntry
        <3>3. HintOf(v, i) = IF v.slots[s].flags = {} THEN FreeHint ELSE v.slots[s]
            BY <1>2, <3>1
        <3> QED
            BY <3>1, <3>2, <3>3 DEF Owns, Refreshed
    <2>2. CASE \A s \in Positions : ~Owns(t, s, i)
        BY <1>2, <2>2
    <2> QED
        BY <2>1, <2>2
<1>4. t.sequence \in Nat
    BY DEF Sound, TableOK
<1> QED
    BY <1>2, <1>3, <1>4 DEF Forward, Refreshed

\* One hint of a table gets another age or cooldown.
LEMMA OneRefreshed ==
    ASSUME WorkHintsAssumption, NEW t, Sound(t), NEW s \in Positions,
           NEW h \in Hint, h.flags = t.slots[s].flags,
           h.index = t.slots[s].index, h.sequence = t.slots[s].sequence,
           NEW v, DOMAIN v = {"slots", "sequence"}, v.sequence = t.sequence,
           v.slots = [t.slots EXCEPT ![s] = h]
    PROVE  /\ Forward(t, v)
           /\ \A i \in Indexes : /\ HintOf(v, i).flags = HintOf(t, i).flags
                                 /\ HintOf(v, i).sequence = HintOf(t, i).sequence
<1>1. TableOK(v)
    BY DEF Sound, TableOK
<1>2. \A u \in Positions : /\ v.slots[u].flags = t.slots[u].flags
                           /\ v.slots[u].index = t.slots[u].index
                           /\ v.slots[u].sequence = t.slots[u].sequence
    BY DEF Sound, TableOK
<1>3. Refreshed(t, v)
    BY <1>1, <1>2 DEF Refreshed
<1> QED
    BY <1>3, RefreshEffect

LEMMA ResetAgeEffect ==
    ASSUME WorkHintsAssumption, NEW t, Sound(t), NEW i \in Indexes
    PROVE  /\ Forward(t, ResetAge(t, i))
           /\ ResetAge(t, i).sequence = t.sequence
           /\ \A j \in Indexes : /\ HintOf(ResetAge(t, i), j).flags = HintOf(t, j).flags
                                 /\ HintOf(ResetAge(t, i), j).sequence = HintOf(t, j).sequence
<1>1. PICK s : s = FindSlot(t, i)
    OBVIOUS
<1>2. CASE ~(s # -1 /\ "maintenance" \in t.slots[s].flags)
    <2>1. ResetAge(t, i) = t
        BY <1>1, <1>2 DEF ResetAge, ResetAgeAt
    <2> QED
        BY <2>1 DEF Forward, Sound, TableOK
<1>3. CASE s # -1 /\ "maintenance" \in t.slots[s].flags
    <2>1. s \in Positions /\ t.slots[s] \in Hint
        BY <1>1, <1>3, ReachedIfFound DEF Sound, TableOK
    <2>2. PICK h : h = [t.slots[s] EXCEPT !.marked = "fresh"]
        OBVIOUS
    <2>3. /\ h \in Hint /\ h.flags = t.slots[s].flags
          /\ h.index = t.slots[s].index /\ h.sequence = t.slots[s].sequence
        BY <2>1, <2>2 DEF Hint
    <2>4. PICK v : v = ResetAge(t, i)
        OBVIOUS
    <2>5. v = [t EXCEPT !.slots[s].marked = "fresh"]
        BY <1>1, <1>3, <2>4 DEF ResetAge, ResetAgeAt
    <2>6. /\ DOMAIN v = {"slots", "sequence"} /\ v.sequence = t.sequence
          /\ v.slots = [t.slots EXCEPT ![s] = h]
        BY <2>1, <2>2, <2>5 DEF Sound, TableOK
    <2> QED
        BY <2>1, <2>3, <2>4, <2>6, OneRefreshed
<1> QED
    BY <1>2, <1>3

LEMMA AllowEffect ==
    ASSUME WorkHintsAssumption, NEW t, Sound(t), NEW i \in Indexes
    PROVE  /\ Forward(t, AllowAcceleratorNow(t, i))
           /\ AllowAcceleratorNow(t, i).sequence = t.sequence
           /\ \A j \in Indexes :
                /\ HintOf(AllowAcceleratorNow(t, i), j).flags = HintOf(t, j).flags
                /\ HintOf(AllowAcceleratorNow(t, i), j).sequence = HintOf(t, j).sequence
<1>1. PICK s : s = FindSlot(t, i)
    OBVIOUS
<1>2. CASE s = -1
    <2>1. AllowAcceleratorNow(t, i) = t
        BY <1>1, <1>2 DEF AllowAcceleratorNow, AllowAt
    <2> QED
        BY <2>1 DEF Forward, Sound, TableOK
<1>3. CASE s # -1
    <2>1. s \in Positions /\ t.slots[s] \in Hint /\ t.slots[s].flags # {}
        BY <1>1, <1>3, ReachedIfFound DEF Sound, TableOK, Owns
    <2>2. PICK h : h = [t.slots[s] EXCEPT !.cooldown = FALSE]
        OBVIOUS
    <2>3. /\ h \in Hint /\ h.flags = t.slots[s].flags
          /\ h.index = t.slots[s].index /\ h.sequence = t.slots[s].sequence
        BY <2>1, <2>2 DEF Hint
    <2>4. PICK v : v = AllowAcceleratorNow(t, i)
        OBVIOUS
    <2>5. v = [t EXCEPT !.slots[s].cooldown = FALSE]
        BY <1>1, <1>3, <2>4 DEF AllowAcceleratorNow, AllowAt
    <2>6. /\ DOMAIN v = {"slots", "sequence"} /\ v.sequence = t.sequence
          /\ v.slots = [t.slots EXCEPT ![s] = h]
        BY <2>1, <2>2, <2>5 DEF Sound, TableOK
    <2> QED
        BY <2>1, <2>3, <2>4, <2>6, OneRefreshed
<1> QED
    BY <1>2, <1>3

=============================================================================
