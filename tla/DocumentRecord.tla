--------------------------- MODULE DocumentRecord ---------------------------
(***************************************************************************)
(* The document copy-on-write record (evoke_document_cow_record) and the   *)
(* rules src/evoke_document_cow.c applies to every update of one.          *)
(*                                                                         *)
(* A document version is identified by its born sequence.  Heap TID,       *)
(* length and fingerprint are left out: every document has length one and  *)
(* all have the same text, so that no fingerprint comparison can stand in  *)
(* for the sequence checks.  Sequence 0 means none.                        *)
(***************************************************************************)
EXTENDS Integers

Doc == [born: Nat, aborted: BOOLEAN, owned: BOOLEAN,
        retired: Nat, state: {"NONE", "COMPLETE", "QUARANTINE"},
        stateSeq: Nat, lexical: Nat, semantic: Nat, event: Nat]

BlankDoc ==
    [born |-> 0, aborted |-> FALSE, owned |-> FALSE, retired |-> 0,
     state |-> "NONE", stateSeq |-> 0,
     lexical |-> 0, semantic |-> 0, event |-> 0]

\* A zeroed record that carries a version only.
Version(born, aborted, owned) ==
    [BlankDoc EXCEPT !.born = born, !.aborted = aborted, !.owned = owned]

SameVersion(d, e) ==
    d.born = e.born /\ d.aborted = e.aborted /\ d.owned = e.owned

IsRetired(d) == d.retired # 0
IsLive(d) == ~d.aborted /\ ~IsRetired(d)

\* A slot VACUUM gave a record although its upsert is unsealed and not dead.
IsPlaceholder(d) == d.owned /\ d.aborted

NoPostings(d) == d.lexical = 0 /\ d.semantic = 0 /\ d.event = 0

IsReusable(d) ==
    (d.aborted \/ IsRetired(d)) /\ ~d.owned /\ NoPostings(d)

LastSequence(d) ==
    CHOOSE q \in {d.born, d.retired, d.stateSeq} :
      \A p \in {d.born, d.retired, d.stateSeq} : p <= q

\* Work for the semantic worker; whether a quarantine's deadline has passed is
\* the caller's choice.
IsActionable(d, retryDue) ==
    /\ IsLive(d)
    /\ d.state = "NONE" \/ (d.state = "QUARANTINE" /\ retryDue)

RecordValid(d) ==
    /\ d.born # 0
    /\ d.aborted => /\ d.lexical = 0 /\ d.semantic = 0
                    /\ d.retired = 0 /\ d.stateSeq = 0
    /\ d.owned /\ ~d.aborted => NoPostings(d) /\ d.stateSeq = 0
    /\ d.retired # 0 => d.retired > d.born
    /\ d.stateSeq # 0 => d.stateSeq > d.born

SemanticTransitionAllowed(old, next) ==
    IF old.stateSeq = 0 THEN TRUE
    ELSE \/ old.state = next.state /\ old.stateSeq = next.stateSeq
         \/ old.state # "COMPLETE" /\ next.stateSeq > old.stateSeq

\* An L0-owned placeholder becomes an L0-owned retired record.
PlaceholderRetires(old, next) ==
    /\ next.born = old.born
    /\ next.retired > next.born
    /\ NoPostings(next)
    /\ next.stateSeq = 0

\* The seal takes an L0-owned record over.
OwnedSealed(old, next) ==
    /\ next.born = old.born
    /\ next.event # 0
    /\ next.retired = old.retired
    /\ SemanticTransitionAllowed(old, next)
    /\ old.aborted \/ SameVersion([old EXCEPT !.owned = FALSE], next)

\* A reusable slot gets its next incarnation: one that a seal publishes, or one
\* that VACUUM already retires while its upsert is in L0.
SlotReused(old, next) ==
    LET retiredInL0 == /\ next.owned
                       /\ next.retired > next.born
                       /\ NoPostings(next)
    IN /\ IsReusable(old)
       /\ next.born > LastSequence(old)
       /\ next.stateSeq = 0
       /\ retiredInL0 \/ (next.retired = 0 /\ next.event # 0)

TransitionValid(old, next) ==
    IF IsPlaceholder(old) /\ next.owned /\ ~next.aborted
    THEN PlaceholderRetires(old, next)
    ELSE IF old.owned /\ ~next.owned
    THEN OwnedSealed(old, next)
    ELSE IF ~SameVersion(old, next)
    THEN SlotReused(old, next)
    ELSE /\ old.retired # 0 => next.retired = old.retired
         /\ SemanticTransitionAllowed(old, next)
=============================================================================
