---------------------------- MODULE MCServices ----------------------------
(*****************************************************************************)
(* What backends share: two scenarios of RuntimeService, told apart by a     *)
(* constraint on its steps, and instances of SharedPreload, in one run.  A   *)
(* behaviour belongs to one of them; the state spaces add up.                *)
(*****************************************************************************)
EXTENDS RuntimeService, Sequences, TLC

CONSTANTS b1, b2, b3, w1, w2, w3, s1, s2

VARIABLES
    of,   \* the scenario or instance the behaviour belongs to
    arena, current, view, token, pc

\* The value of the variables of modules no instance of which runs.
Idle == 0

\* A hash with many collisions, whose clusters run around the end of the
\* table: the relation and the epoch never change the bucket.
KindNumber == [warm |-> 0, lengths |-> 1, tid_lookup |-> 1,
               hot |-> 2, pages |-> 2, resident |-> 3]
CollidingHash(key) ==
    6 + KindNumber[key[1]] \div 2 + (IF Len(key) = 4 THEN key[4] ELSE 0)

SizeOf(rels, kinds) ==
    [x \in rels \X kinds |-> CASE x[2] \in {"warm", "lengths"} -> 1
                               [] x[2] \in {"hot", "pages", "tid_lookup"} -> 2
                               [] x[2] = "resident" -> 3]
ByRelation(rels) == [r \in rels |-> IF r = "r1" THEN 1 ELSE 0]
OneDatabase(rels) == [r \in rels |-> "db"]

Symmetric == Permutations({b1, b2}) \cup Permutations({w1, w2})
                 \cup Permutations({s1, s2})

-----------------------------------------------------------------------------
\* Two backends, two workers that exit, stop or die, two sweepers, two queries.
RequestsOnly ==
    /\ lastId' <= 2
    /\ proc'[w3].pc = "down"
    /\ \A b \in Backends : client'[b].kind = "query"
    /\ \A w \in Workers : proc'[w].error => proc[w].error \/ worker[w].cancel

\* Queries and documents compete for three workers; nobody stops or gives up.
LanesOnly ==
    /\ \A w \in Workers : proc[w].pc # "down" => proc'[w].pc # "down"
    /\ \A b \in Backends :
         /\ client'[b].pc # "exited"
         /\ client[b].pc = "wait" => client'[b].pc \in {"wait", "copy"}

\* Three backends race for the entry of one relation.
Races == INSTANCE SharedPreload WITH
    Backend <- {b1, b2, b3}, Rel <- {"r1"}, Kind <- {"hot"},
    EntryCapacity <- 2, HashCapacity <- 4, ArenaSize <- 4,
    PayloadSize <- SizeOf({"r1"}, {"hot"}), Priority <- ByRelation({"r1"}),
    Database <- OneDatabase({"r1"}), KeyHash <- CollidingHash, MaxRoot <- 2,
    MaxEpoch <- 1

\* Two relations compete for an arena that is too small.
Space == INSTANCE SharedPreload WITH
    Backend <- {b1, b2}, Rel <- {"r1", "r2"}, Kind <- {"lengths", "resident"},
    EntryCapacity <- 3, HashCapacity <- 8, ArenaSize <- 4,
    PayloadSize <- SizeOf({"r1", "r2"}, {"lengths", "resident"}),
    Priority <- ByRelation({"r1", "r2"}),
    Database <- OneDatabase({"r1", "r2"}), KeyHash <- CollidingHash,
    MaxRoot <- 1, MaxEpoch <- 2

\* Insertions, rekeys and removals in colliding clusters.
Hashing == INSTANCE SharedPreload WITH
    Backend <- {b1, b2}, Rel <- {"r1"}, Kind <- {"hot", "resident"},
    EntryCapacity <- 3, HashCapacity <- 8, ArenaSize <- 7,
    PayloadSize <- SizeOf({"r1"}, {"hot", "resident"}),
    Priority <- ByRelation({"r1"}), Database <- OneDatabase({"r1"}),
    KeyHash <- CollidingHash, MaxRoot <- 2, MaxEpoch <- 1

\* What the modules assume of their constants.
ASSUME InstancesAssumption ==
    /\ RuntimeConstants
    /\ Races!PreloadAssumption
    /\ Space!PreloadAssumption
    /\ Hashing!PreloadAssumption

-----------------------------------------------------------------------------
\* The variables of SharedPreload where only the service runs.
PreloadIdle ==
    /\ arena = Idle /\ current = Idle /\ view = Idle /\ token = Idle
    /\ pc = Idle
preloadVars == <<arena, current, view, token, pc>>

SuiteInit ==
    /\ Init
    /\ \/ of \in {"Requests", "Lanes"} /\ PreloadIdle
       \/ of = "Races" /\ Races!Init
       \/ of = "Space" /\ Space!Init
       \/ of = "Hashing" /\ Hashing!Init

SuiteNext ==
    \/ of = "Requests" /\ Next /\ RequestsOnly /\ UNCHANGED <<of, preloadVars>>
    \/ of = "Lanes" /\ Next /\ LanesOnly /\ UNCHANGED <<of, preloadVars>>
    \/ of = "Races" /\ Races!Next /\ UNCHANGED <<of, vars>>
    \/ of = "Space" /\ Space!Next /\ UNCHANGED <<of, vars>>
    \/ of = "Hashing" /\ Hashing!Next /\ UNCHANGED <<of, vars>>

SuiteSpec == SuiteInit /\ [][SuiteNext]_<<of, preloadVars, vars>>

-----------------------------------------------------------------------------
\* The arena's structures keep their types.
ArenaTypeOK == of = "Space" => Space!TypeOK

\* The reference count of an entry is the number of backends that hold it,
\* through unlocked decrements, retirement under a holder and slot reuse.
RefsExact == of = "Races" => Races!RefsExact

\* While a backend reads or fills a payload, the bytes are its own: the slot
\* stays in use, at the same place, with the content it was taken for.
HeldStays == of = "Races" => Races!HeldStays

\* A backend that attaches to an entry sees a complete payload.
ReadersSeeComplete == of = "Races" => Races!ReadersSeeComplete

\* An entry nobody holds is ready to be attached, or a backend is on its way
\* to free it: no block is leaked.
NothingLeaked == of = "Races" => Races!NothingLeaked

\* Every live entry is found by its key, after any sequence of insertions,
\* removals and rekeys in a cluster.
HashExact == of = "Hashing" => Hashing!HashExact

\* A leased resident fold was built for exactly the root the reader works
\* from; every other payload at least for its epoch of the relation.
LeaseOfOwnGeneration == of = "Hashing" => Hashing!LeaseOfOwnGeneration

\* Payload blocks of entries and of the free list never overlap.
BlocksDisjoint == of = "Space" => Space!BlocksDisjoint

\* The used mark never stays above an unused block: every path that frees the
\* last block rewinds, so free arena is never stranded behind the mark.
NothingStranded == of = "Space" => Space!NothingStranded

\* What the admission status turns away, a reservation would not have taken
\* either (unless a block is just being freed): automatic preload, which asks
\* the status first, is not kept out of space it could have had.
AdmissionComplete == of = "Space" => Space!AdmissionComplete

-----------------------------------------------------------------------------
(* What the run checks.                                                    *)

\* What a backend holds stays, complete and of its own generation, while
\* others evict, retire, rekey and replace.
LeasesSound ==
    /\ RefsExact /\ HeldStays /\ ReadersSeeComplete /\ LeaseOfOwnGeneration

\* The arena hands out no unit twice and loses none, every live entry is found
\* by its key, and admission tells the truth.
ArenaExact ==
    /\ ArenaTypeOK
    /\ BlocksDisjoint /\ NothingStranded /\ NothingLeaked /\ AdmissionComplete
    /\ HashExact

=============================================================================
