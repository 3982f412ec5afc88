----------------------------- MODULE MCBacklog -----------------------------
(***************************************************************************)
(* A backlog of semantic completions beside an accelerator that is due for *)
(* its periodic refresh: one index, one worker, no writers, and everything *)
(* that maintenance or time may do is done in the end.                     *)
(***************************************************************************)
EXTENDS MaintenanceScheduler

OneSlot == [i \in Indexes |-> 0]
OneDatabase == [i \in Indexes |-> 1]

\* Time passes, the supervisor launches, a worker goes on, and each kind of
\* work that is possible again and again is done once.
Fairness ==
  /\ \A s \in 0 .. Capacity - 1 : WF_vars(Age(s)) /\ WF_vars(CoolDown(s))
  /\ \A e \in Entries, flag \in Classes : WF_vars(ReconcileDue(e, flag))
  /\ \A w \in Workers :
       /\ WF_vars(Launch(w)) /\ WF_vars(WorkerStep(w))
       /\ SF_vars(CompleteSemantic(w)) /\ SF_vars(StartBuild(w))
       /\ SF_vars(Rotate(w)) /\ SF_vars(Seal(w))

BacklogSpec == Spec /\ Fairness

\* "A blocked or failed optional refresh yields without stopping semantic
\* completion or L0 convergence" (docs/maintenance-lifecycle.md): documents that
\* wait for completion are taken up by a worker, unless the bound of the
\* model ends the behaviour.  The code prefers an accelerator build found due by
\* the interval alone to the completions, then refuses it the interval because
\* the completions are strict debt, and does neither
\* (evoke_am_get_background_due_candidate, evoke_am_try_maintain_index_oid).
CompletionGoesOn ==
  \A i \in Indexes :
    "semantic" \in work[i] ~>
      \/ "semantic" \notin work[i]
      \/ \E w \in Workers : worker[w].chosen.index = i /\ SemanticTurn(w)
      \/ Exhausted

=============================================================================
