-------------------------- MODULE WorkerLaunchProofs --------------------------
(***************************************************************************)
(* Proofs about WorkerLaunch, for any finite sets of launchers and         *)
(* processes and any limit.  The bound on the processes is not inductive:  *)
(* it follows from what the reservations cover and from the processes that *)
(* are counted before they connect.                                        *)
(***************************************************************************)
EXTENDS WorkerLaunch, FiniteSetTheorems, WellFoundedInduction, TLAPS

(***************************************************************************)
(* The inductive invariant                                                 *)
(***************************************************************************)
\* Launches reserved and not yet registered, registered processes that have
\* not started, and processes that connect or work.
Registering == { l \in Launchers : launcher[l].pc = "register" }
Queued == { p \in Procs : proc[p].pc = "queued" }
Running == { p \in Procs : proc[p].pc \in {"connect", "work"} }
Exiting == { p \in Procs : proc[p].pc = "exit" }

Counted == { p \in Procs : proc[p].counted }
InPhase(ph) == { p \in Procs : proc[p].phase = ph }

\* What a process holds at each point of its life.
ProcShape ==
  \A p \in Procs :
    /\ proc[p].pc \in {"off", "queued"} =>
         /\ ~proc[p].counted /\ ~proc[p].reserved
         /\ proc[p].phase = "idle" /\ proc[p].slot = NoSlot
    /\ proc[p].pc = "connect" =>
         proc[p].counted /\ proc[p].reserved /\ proc[p].phase = "idle"
    /\ proc[p].pc = "work" => proc[p].counted /\ ~proc[p].reserved
    /\ proc[p].pc = "exit" => ~proc[p].reserved /\ proc[p].phase = "idle"

ForgottenReserved == forgotten \subseteq Reserved

\* Every launch under way has its reservation.
ReservationsCovered ==
  ~late => pending >= Cardinality(Registering) + Cardinality(Queued)
                        + Cardinality(Reserved \ forgotten)

\* Launches under way and processes at work are within the limit.
LaunchesBounded ==
  ~late => Cardinality(Registering) + Cardinality(Queued)
             + Cardinality(Running) <= MaxLimit

IInv ==
  /\ TypeOK
  /\ ProcShape
  /\ ForgottenReserved
  /\ CountersExact
  /\ SlotsDistinct
  /\ ReservationsCovered
  /\ LaunchesBounded

(***************************************************************************)
(* Sets and their sizes                                                    *)
(***************************************************************************)
\* The size of a set after one element came or went.
LEMMA OneElement ==
    ASSUME NEW S, IsFiniteSet(S), NEW T, NEW x, T \ {x} = S \ {x}
    PROVE  /\ IsFiniteSet(T)
           /\ Cardinality(S) \in Nat
           /\ Cardinality(T) \in Nat
           /\ x \in S /\ x \in T => Cardinality(T) = Cardinality(S)
           /\ x \notin S /\ x \notin T => Cardinality(T) = Cardinality(S)
           /\ x \in S /\ x \notin T => Cardinality(T) = Cardinality(S) - 1
           /\ x \notin S /\ x \in T => Cardinality(T) = Cardinality(S) + 1
           /\ x \in S => Cardinality(S) >= 1
<1>1. /\ IsFiniteSet(S \ {x})
      /\ Cardinality(S \ {x}) =
           IF x \in S THEN Cardinality(S) - 1 ELSE Cardinality(S)
  BY FS_RemoveElement
<1>2. Cardinality(S) \in Nat /\ Cardinality(S \ {x}) \in Nat
  BY <1>1, FS_CardinalityType
<1>3. CASE x \in T
  <2>1. T = (S \ {x}) \cup {x}
    BY <1>3
  <2>2. /\ IsFiniteSet(T)
        /\ Cardinality(T) = Cardinality(S \ {x}) + 1
    BY <1>1, <2>1, FS_AddElement
  <2> QED
    BY <1>1, <1>2, <1>3, <2>2
<1>4. CASE x \notin T
  <2>1. T = S \ {x}
    BY <1>4
  <2> QED
    BY <1>1, <1>2, <1>4, <2>1
<1> QED
  BY <1>3, <1>4

Bit(b) == IF b THEN 1 ELSE 0

LEMMA OneElementBits ==
    ASSUME NEW S, IsFiniteSet(S), NEW T, NEW x, T \ {x} = S \ {x}
    PROVE  /\ Cardinality(S) \in Nat /\ Cardinality(T) \in Nat
           /\ Cardinality(T) = Cardinality(S) + Bit(x \in T) - Bit(x \in S)
BY OneElement DEF Bit

LEMMA UnionBound ==
    ASSUME NEW S, NEW T, IsFiniteSet(S), IsFiniteSet(T)
    PROVE  /\ IsFiniteSet(S \cup T)
           /\ Cardinality(S) \in Nat /\ Cardinality(T) \in Nat
           /\ Cardinality(S \cup T) \in Nat
           /\ Cardinality(S \cup T) <= Cardinality(S) + Cardinality(T)
<1>1. /\ IsFiniteSet(S \cup T)
      /\ Cardinality(S \cup T) =
           Cardinality(S) + Cardinality(T) - Cardinality(S \cap T)
  BY FS_Union
<1>2. IsFiniteSet(S \cap T)
  BY FS_Intersection
<1>3. /\ Cardinality(S) \in Nat /\ Cardinality(T) \in Nat
      /\ Cardinality(S \cup T) \in Nat /\ Cardinality(S \cap T) \in Nat
  BY <1>1, <1>2, FS_CardinalityType
<1> QED
  BY <1>1, <1>3

\* A nonempty set of naturals has a least element, which Min returns.
LEMMA MinIsElement ==
    ASSUME NEW S \in SUBSET Nat, S # {}
    PROVE  Min(S) \in S
<1> DEFINE T == {0 .. n : n \in S}
<1>1. \A n \in S : (0 .. n) \in SUBSET Nat /\ IsFiniteSet(0 .. n)
  BY FS_Interval
<1>2. T \subseteq FiniteSubsetsOf(Nat) /\ T # {}
  BY <1>1 DEF FiniteSubsetsOf
<1>3. PICK X \in T : \A Y \in T : ~(<<Y, X>> \in StrictSubsetOrdering(Nat))
  <2> HIDE DEF T
  <2> QED
    BY <1>2, FS_StrictSubsetOrderingWellFounded, WFMin
<1>4. PICK x \in S : X = 0 .. x
  OBVIOUS
<1>5. ASSUME NEW y \in S, y < x
      PROVE  FALSE
  <2>1. /\ 0 .. y \subseteq 0 .. x
        /\ 0 .. x # 0 .. y
    <3>1. x \in 0 .. x /\ x \notin 0 .. y
      BY <1>5
    <3> QED
      BY <1>5, <3>1
  <2>2. <<0 .. y, 0 .. x>> \in StrictSubsetOrdering(Nat)
    BY <2>1, <1>1 DEF StrictSubsetOrdering
  <2> QED
    BY <1>3, <1>4, <2>2
<1>6. \A y \in S : x <= y
  BY <1>5
<1> QED
  BY <1>6 DEF Min

\* The admission limit is at least one.
LEMMA LimitAtLeastOne ==
    ASSUME NEW n \in Nat
    PROVE  Max({n, 1}) = IF n >= 1 THEN n ELSE 1
<1>1. \E x \in {n, 1} : \A y \in {n, 1} : x >= y
  OBVIOUS
<1>2. Max({n, 1}) \in {n, 1} /\ \A y \in {n, 1} : Max({n, 1}) >= y
  BY <1>1 DEF Max
<1> QED
  BY <1>2

\* The sets of processes and launchers are finite.
LEMMA FiniteGroups ==
    ASSUME LaunchAssumption
    PROVE  /\ IsFiniteSet(Registering) /\ IsFiniteSet(Queued)
           /\ IsFiniteSet(Running) /\ IsFiniteSet(Exiting)
           /\ IsFiniteSet(Counted) /\ IsFiniteSet(Reserved)
           /\ IsFiniteSet(Reserved \ forgotten)
           /\ \A ph : IsFiniteSet(InPhase(ph))
<1>1. \A S \in SUBSET Procs : IsFiniteSet(S)
  BY FS_Subset DEF LaunchAssumption
<1>2. \A S \in SUBSET Launchers : IsFiniteSet(S)
  BY FS_Subset DEF LaunchAssumption
<1> QED
  BY <1>1, <1>2 DEF Registering, Queued, Running, Exiting, Counted, Reserved, InPhase

\* A step of one process moves at most that process between the sets.
LEMMA OneProcess ==
    ASSUME TypeOK, NEW p \in Procs, NEW r, proc' = [proc EXCEPT ![p] = r]
    PROVE  /\ Queued' \ {p} = Queued \ {p}
           /\ Running' \ {p} = Running \ {p}
           /\ Counted' \ {p} = Counted \ {p}
           /\ Reserved' \ {p} = Reserved \ {p}
           /\ \A ph : InPhase(ph)' \ {p} = InPhase(ph) \ {p}
           /\ p \in Queued' <=> r.pc = "queued"
           /\ p \in Running' <=> r.pc \in {"connect", "work"}
           /\ p \in Counted' <=> r.counted
           /\ p \in Reserved' <=> r.reserved
           /\ \A ph : p \in InPhase(ph)' <=> r.phase = ph
<1>1. /\ \A q \in Procs \ {p} : proc'[q] = proc[q]
      /\ proc'[p] = r
  BY DEF TypeOK
<1> QED
  BY <1>1 DEF Queued, Running, Counted, Reserved, InPhase

\* The phase counters follow the phase of one process.
LEMMA PhasesFollow ==
    ASSUME LaunchAssumption, TypeOK, CountersExact,
           NEW p \in Procs, NEW r, proc' = [proc EXCEPT ![p] = r],
           r.phase \in Phases \cup {"idle"},
           phases' = PhasesAfter(p, r.phase)
    PROVE  /\ phases' \in [Phases -> Nat]
           /\ \A ph \in Phases : phases'[ph] = Cardinality(InPhase(ph)')
<1> SUFFICES ASSUME NEW ph \in Phases
             PROVE  /\ phases'[ph] \in Nat
                    /\ phases'[ph] = Cardinality(InPhase(ph)')
  BY DEF PhasesAfter
<1>1. /\ phases[ph] = Cardinality(InPhase(ph)) /\ phases[ph] \in Nat
      /\ proc[p].phase \in Phases \cup {"idle"}
  BY DEF CountersExact, InPhase, TypeOK
<1>2. /\ IsFiniteSet(InPhase(ph))
      /\ InPhase(ph)' \ {p} = InPhase(ph) \ {p}
      /\ p \in InPhase(ph)' <=> r.phase = ph
      /\ p \in InPhase(ph) <=> proc[p].phase = ph
  <2>1. IsFiniteSet(InPhase(ph))
    BY FiniteGroups
  <2>2. p \in InPhase(ph) <=> proc[p].phase = ph
    BY DEF InPhase
  <2> QED
    BY <2>1, <2>2, OneProcess
<1>3. phases'[ph] = IF ph = r.phase /\ proc[p].phase # r.phase THEN phases[ph] + 1
                    ELSE IF ph = proc[p].phase /\ proc[p].phase # r.phase
                    THEN Decremented(phases[ph]) ELSE phases[ph]
  BY DEF PhasesAfter
<1>4. /\ Cardinality(InPhase(ph)) \in Nat
      /\ Cardinality(InPhase(ph)') \in Nat
      /\ p \in InPhase(ph) /\ p \in InPhase(ph)' =>
           Cardinality(InPhase(ph)') = Cardinality(InPhase(ph))
      /\ p \notin InPhase(ph) /\ p \notin InPhase(ph)' =>
           Cardinality(InPhase(ph)') = Cardinality(InPhase(ph))
      /\ p \in InPhase(ph) /\ p \notin InPhase(ph)' =>
           Cardinality(InPhase(ph)') = Cardinality(InPhase(ph)) - 1
      /\ p \notin InPhase(ph) /\ p \in InPhase(ph)' =>
           Cardinality(InPhase(ph)') = Cardinality(InPhase(ph)) + 1
      /\ p \in InPhase(ph) => Cardinality(InPhase(ph)) >= 1
  BY <1>2, OneElement
<1> QED
  BY <1>1, <1>2, <1>3, <1>4 DEF Decremented
(***************************************************************************)
(* Steps of the launchers                                                  *)
(***************************************************************************)
LEMMA InitStep ==
    ASSUME LaunchAssumption, Init
    PROVE  IInv
<1>1. TypeOK
  <2>1. proc \in [Procs -> [pc : {"off", "queued", "connect", "work", "exit"},
                           counted : BOOLEAN, reserved : BOOLEAN,
                           phase : Phases \cup {"idle"},
                           slot : -1 .. MaxLimit - 1]]
    <3>1. NoSlot \in -1 .. MaxLimit - 1
      BY DEF LaunchAssumption, NoSlot
    <3> QED
      BY <3>1 DEF Init, NoProc
  <2>2. phases \in [Phases -> Nat] /\ limit \in 0 .. MaxLimit
    BY DEF Init, LaunchAssumption
  <2>3. launcher \in [Launchers -> [pc : {"idle", "reserve", "register"},
                                   limit : 0 .. MaxLimit]]
    BY DEF Init, LaunchAssumption
  <2>4. /\ pending \in Nat /\ active \in Nat /\ lost \in 0 .. Losses
        /\ reloads \in 0 .. Reloads /\ stamp \in {"none", "fresh", "old"}
    BY DEF Init, LaunchAssumption
  <2>5. forgotten \subseteq Procs /\ late \in BOOLEAN
    BY DEF Init
  <2> QED
    BY <2>1, <2>2, <2>3, <2>4, <2>5 DEF TypeOK
<1>2. ProcShape /\ ForgottenReserved /\ SlotsDistinct
  BY DEF Init, ProcShape, ForgottenReserved, SlotsDistinct, NoProc, Phases
<1>3. /\ Registering = {} /\ Queued = {} /\ Running = {}
      /\ Reserved \ forgotten = {} /\ Counted = {}
      /\ \A ph \in Phases : InPhase(ph) = {}
  BY DEF Init, Registering, Queued, Running, Reserved, Counted, InPhase, NoProc, Phases
<1>4. CountersExact
  BY <1>3, FS_EmptySet DEF Init, CountersExact, Counted, InPhase
<1>5. ReservationsCovered /\ LaunchesBounded
  BY <1>3, FS_EmptySet
  DEF Init, ReservationsCovered, LaunchesBounded, LaunchAssumption
<1> QED
  BY <1>1, <1>2, <1>4, <1>5 DEF IInv

\* Where no process changes, nothing about processes does.
LEMMA ProcessesKept ==
    ASSUME IInv, UNCHANGED <<active, phases, proc>>
    PROVE  /\ ProcShape' /\ CountersExact' /\ SlotsDistinct'
           /\ Queued' = Queued /\ Running' = Running /\ Reserved' = Reserved
BY DEF IInv, ProcShape, CountersExact, SlotsDistinct, Queued, Running, Reserved

\* A step of one launcher moves at most that launcher.
LEMMA OneLauncher ==
    ASSUME TypeOK, NEW l \in Launchers, NEW r,
           launcher' = [launcher EXCEPT ![l] = r]
    PROVE  /\ Registering' \ {l} = Registering \ {l}
           /\ l \in Registering' <=> r.pc = "register"
<1>1. /\ \A k \in Launchers \ {l} : launcher'[k] = launcher[k]
      /\ launcher'[l] = r
  BY DEF TypeOK
<1> QED
  BY <1>1 DEF Registering

LEMMA QuietStep ==
    ASSUME LaunchAssumption, IInv,
           \/ \E n \in 0 .. MaxLimit : SetLimit(n)
           \/ LaunchTimeout
           \/ \E l \in Launchers : ReadLimit(l)
    PROVE  IInv'
<1>1. UNCHANGED <<pending, active, phases, proc, lost, history>>
  BY DEF SetLimit, LaunchTimeout, ReadLimit
<1>2. Registering' = Registering
  <2>1. CASE UNCHANGED launcher
    BY <2>1 DEF Registering
  <2>2. CASE \E l \in Launchers : ReadLimit(l)
    BY <2>2 DEF ReadLimit, Registering, IInv, TypeOK
  <2> QED
    BY <2>1, <2>2 DEF SetLimit, LaunchTimeout
<1>3. TypeOK'
  BY DEF SetLimit, LaunchTimeout, ReadLimit, IInv, TypeOK, LaunchAssumption, history
<1>4. /\ ProcShape' /\ CountersExact' /\ SlotsDistinct'
      /\ Queued' = Queued /\ Running' = Running /\ Reserved' = Reserved
  BY <1>1, ProcessesKept
<1>5. ForgottenReserved' /\ ReservationsCovered' /\ LaunchesBounded'
  BY <1>1, <1>2, <1>4
  DEF history, IInv, ForgottenReserved, ReservationsCovered, LaunchesBounded
<1> QED
  BY <1>3, <1>4, <1>5 DEF IInv

\* A reservation is taken where the active processes and the reservations that
\* count leave room for one more.
LEMMA TryReserveStep ==
    ASSUME LaunchAssumption, IInv, NEW l \in Launchers, TryReserve(l)
    PROVE  IInv'
<1> USE DEF TryReserve
<1>1. /\ pending \in Nat /\ active \in Nat /\ PendingNow \in Nat
      /\ launcher[l].limit \in 0 .. MaxLimit /\ MaxLimit \in Nat \ {0}
      /\ l \notin Registering
  BY DEF IInv, TypeOK, LaunchAssumption, PendingNow, Registering
<1>2. /\ ProcShape' /\ CountersExact' /\ SlotsDistinct'
      /\ Queued' = Queued /\ Running' = Running /\ Reserved' = Reserved
  BY ProcessesKept
<1>3. ForgottenReserved'
  BY <1>2 DEF IInv, ForgottenReserved
<1>4. TypeOK'
  <2>1. Reserved \subseteq Procs
    BY DEF Reserved
  <2>2. launcher' \in [Launchers -> [pc : {"idle", "reserve", "register"},
                                     limit : 0 .. MaxLimit]]
    BY DEF IInv, TypeOK
  <2>3. pending' \in Nat /\ stamp' \in {"none", "fresh", "old"}
    BY <1>1 DEF IInv, TypeOK
  <2>4. late' \in BOOLEAN /\ forgotten' \subseteq Procs
    BY <2>1 DEF IInv, TypeOK
  <2> QED
    BY <2>2, <2>3, <2>4 DEF IInv, TypeOK
<1>5. /\ IsFiniteSet(Registering) /\ IsFiniteSet(Queued) /\ IsFiniteSet(Running)
      /\ IsFiniteSet(Reserved \ forgotten) /\ IsFiniteSet(Counted)
  BY FiniteGroups
<1>6. /\ Cardinality(Registering) \in Nat /\ Cardinality(Queued) \in Nat
      /\ Cardinality(Running) \in Nat /\ Cardinality(Reserved \ forgotten) \in Nat
  BY <1>5, FS_CardinalityType
<1>7. Cardinality(Running) <= active
  <2>1. Running \subseteq Counted
    BY DEF IInv, ProcShape, Running, Counted
  <2> QED
    BY <1>5, <2>1, FS_Subset DEF IInv, CountersExact, Counted
\* What the launch timeout forgets is covered by nothing any more.
<1>8. ~late' => PendingNow >= Cardinality(Registering) + Cardinality(Queued)
                                + Cardinality(Reserved' \ forgotten')
  <2>1. CASE ~PruneDue
    BY <1>2, <2>1 DEF PendingNow, IInv, ReservationsCovered
  <2>2. CASE PruneDue
    <3>1. Reserved' \ forgotten' = {}
      BY <1>2, <2>2
    <3>2. ~late' => Registering = {} /\ Queued = {}
      BY <2>2 DEF Launching, Registering, Queued
    <3>3. Cardinality({}) = 0 /\ PendingNow = 0
      BY <2>2, FS_EmptySet DEF PendingNow
    <3> HIDE DEF TryReserve
    <3> QED
      BY <3>1, <3>2, <3>3
  <2> QED
    BY <2>1, <2>2
<1>9. CASE active + PendingNow >= Max({launcher[l].limit, 1})
  <2>1. Registering' = Registering
    BY <1>9 DEF Registering, IInv, TypeOK
  <2>2. pending' = PendingNow
    BY <1>9
  <2> QED
    BY <1>2, <1>3, <1>4, <1>6, <1>8, <2>1, <2>2
    DEF IInv, ReservationsCovered, LaunchesBounded
<1>10. CASE ~(active + PendingNow >= Max({launcher[l].limit, 1}))
  <2>1. /\ Registering' \ {l} = Registering \ {l}
        /\ l \in Registering'
    <3>1. launcher' = [launcher EXCEPT ![l] = [launcher[l] EXCEPT !.pc = "register"]]
      BY <1>10
    <3>2. [launcher[l] EXCEPT !.pc = "register"].pc = "register"
      BY DEF IInv, TypeOK
    <3> QED
      BY <3>1, <3>2, OneLauncher DEF IInv
  <2>2. Cardinality(Registering') = Cardinality(Registering) + 1
    BY <1>1, <1>5, <2>1, OneElement
  <2>3. pending' = PendingNow + 1
    BY <1>10
  <2>4. active + PendingNow + 1 <= MaxLimit
    BY <1>1, <1>10, LimitAtLeastOne
  <2>5. ReservationsCovered'
    <3> HIDE DEF TryReserve
    <3>1. Cardinality(Reserved' \ forgotten') \in Nat
      <4>1. Reserved' \ forgotten' \subseteq Reserved
        BY <1>2
      <4>2. IsFiniteSet(Reserved)
        BY FiniteGroups
      <4> QED
        BY <4>1, <4>2, FS_Subset, FS_CardinalityType
    <3> QED
      BY <1>1, <1>2, <1>6, <1>8, <2>2, <2>3, <3>1 DEF ReservationsCovered
  <2>6. LaunchesBounded'
    <3> HIDE DEF TryReserve
    <3>1. Cardinality(Reserved' \ forgotten') \in Nat
      <4>1. Reserved' \ forgotten' \subseteq Reserved
        BY <1>2
      <4>2. IsFiniteSet(Reserved)
        BY FiniteGroups
      <4> QED
        BY <4>1, <4>2, FS_Subset, FS_CardinalityType
    <3> QED
      BY <1>1, <1>2, <1>6, <1>7, <1>8, <2>2, <2>4, <3>1
      DEF LaunchesBounded, LaunchAssumption
  <2> QED
    BY <1>2, <1>3, <1>4, <2>5, <2>6 DEF IInv
<1> QED
  BY <1>9, <1>10
(***************************************************************************)
(* Steps of a process                                                      *)
(***************************************************************************)
\* What a step of process p does to the sizes the invariant speaks of.
LEMMA ProcessCounts ==
    ASSUME LaunchAssumption, TypeOK, NEW p \in Procs, NEW r,
           proc' = [proc EXCEPT ![p] = r], forgotten' \ {p} = forgotten \ {p}
    PROVE  /\ Cardinality(Queued) \in Nat /\ Cardinality(Queued') \in Nat
           /\ Cardinality(Running) \in Nat /\ Cardinality(Running') \in Nat
           /\ Cardinality(Counted) \in Nat /\ Cardinality(Counted') \in Nat
           /\ Cardinality(Reserved \ forgotten) \in Nat
           /\ Cardinality(Reserved' \ forgotten') \in Nat
           /\ Cardinality(Queued') = Cardinality(Queued)
                + Bit(r.pc = "queued") - Bit(proc[p].pc = "queued")
           /\ Cardinality(Running') = Cardinality(Running)
                + Bit(r.pc \in {"connect", "work"})
                - Bit(proc[p].pc \in {"connect", "work"})
           /\ Cardinality(Counted') = Cardinality(Counted)
                + Bit(r.counted) - Bit(proc[p].counted)
           /\ Cardinality(Reserved' \ forgotten') = Cardinality(Reserved \ forgotten)
                + Bit(r.reserved /\ p \notin forgotten')
                - Bit(proc[p].reserved /\ p \notin forgotten)
<1>1. /\ Queued' \ {p} = Queued \ {p}
      /\ Running' \ {p} = Running \ {p}
      /\ Counted' \ {p} = Counted \ {p}
      /\ Reserved' \ {p} = Reserved \ {p}
      /\ p \in Queued' <=> r.pc = "queued"
      /\ p \in Running' <=> r.pc \in {"connect", "work"}
      /\ p \in Counted' <=> r.counted
      /\ p \in Reserved' <=> r.reserved
  BY OneProcess
<1>2. /\ p \in Queued <=> proc[p].pc = "queued"
      /\ p \in Running <=> proc[p].pc \in {"connect", "work"}
      /\ p \in Counted <=> proc[p].counted
      /\ p \in Reserved <=> proc[p].reserved
  BY DEF Queued, Running, Counted, Reserved
<1>3. /\ IsFiniteSet(Queued) /\ IsFiniteSet(Running) /\ IsFiniteSet(Counted)
      /\ IsFiniteSet(Reserved \ forgotten)
  BY FiniteGroups
<1>4. /\ Cardinality(Queued) \in Nat /\ Cardinality(Queued') \in Nat
      /\ Cardinality(Queued') = Cardinality(Queued)
           + Bit(p \in Queued') - Bit(p \in Queued)
  BY <1>1, <1>3, OneElementBits
<1>5. /\ Cardinality(Running) \in Nat /\ Cardinality(Running') \in Nat
      /\ Cardinality(Running') = Cardinality(Running)
           + Bit(p \in Running') - Bit(p \in Running)
  BY <1>1, <1>3, OneElementBits
<1>6. /\ Cardinality(Counted) \in Nat /\ Cardinality(Counted') \in Nat
      /\ Cardinality(Counted') = Cardinality(Counted)
           + Bit(p \in Counted') - Bit(p \in Counted)
  BY <1>1, <1>3, OneElementBits
<1>7. /\ Cardinality(Reserved \ forgotten) \in Nat
      /\ Cardinality(Reserved' \ forgotten') \in Nat
      /\ Cardinality(Reserved' \ forgotten') = Cardinality(Reserved \ forgotten)
           + Bit(p \in Reserved' \ forgotten') - Bit(p \in Reserved \ forgotten)
  <2>1. (Reserved' \ forgotten') \ {p} = (Reserved \ forgotten) \ {p}
    BY <1>1
  <2> QED
    BY <1>3, <2>1, OneElementBits
<1> QED
  BY <1>1, <1>2, <1>4, <1>5, <1>6, <1>7 DEF Bit

\* What stays true of the other processes, and what p has to show.
LEMMA ProcessInvariants ==
    ASSUME LaunchAssumption, IInv, NEW p \in Procs, NEW r,
           proc' = [proc EXCEPT ![p] = r],
           \* The process has one of the shapes.
           /\ r.pc \in {"off", "queued"} =>
                /\ ~r.counted /\ ~r.reserved
                /\ r.phase = "idle" /\ r.slot = NoSlot
           /\ r.pc = "connect" => r.counted /\ r.reserved /\ r.phase = "idle"
           /\ r.pc = "work" => r.counted /\ ~r.reserved
           /\ r.pc = "exit" => ~r.reserved /\ r.phase = "idle",
           \* The counters follow.
           active' \in Nat, active' = active + Bit(r.counted) - Bit(proc[p].counted),
           r.phase \in Phases \cup {"idle"}, phases' = PhasesAfter(p, r.phase),
           forgotten' \subseteq forgotten, forgotten' \ {p} = forgotten \ {p},
           p \in forgotten' => r.reserved,
           \* Its slot is its own.
           r.slot # NoSlot =>
             \/ r.slot = proc[p].slot
             \/ \A q \in Procs : proc[q].slot # r.slot
    PROVE  /\ ProcShape' /\ ForgottenReserved' /\ CountersExact' /\ SlotsDistinct'
           /\ phases' \in [Phases -> Nat]
<1>1. /\ \A q \in Procs \ {p} : proc'[q] = proc[q]
      /\ proc'[p] = r
  BY DEF IInv, TypeOK
<1>2. ProcShape'
  BY <1>1 DEF IInv, ProcShape
<1>3. ForgottenReserved'
  BY <1>1 DEF IInv, ForgottenReserved, Reserved
<1>4. /\ phases' \in [Phases -> Nat]
      /\ \A ph \in Phases : phases'[ph] = Cardinality(InPhase(ph)')
  BY PhasesFollow DEF IInv
<1>5. active' = Cardinality(Counted')
  <2>1. active = Cardinality(Counted)
    BY DEF IInv, CountersExact, Counted
  <2>2. Cardinality(Counted') = Cardinality(Counted)
          + Bit(r.counted) - Bit(proc[p].counted)
    BY ProcessCounts DEF IInv
  <2> QED
    BY <2>1, <2>2
<1>6. CountersExact'
  BY <1>4, <1>5 DEF CountersExact, Counted, InPhase
<1>7. SlotsDistinct'
  BY <1>1 DEF IInv, SlotsDistinct
<1> QED
  BY <1>2, <1>3, <1>4, <1>6, <1>7
\* The processes of a step that gives back the reservation of p.
LEMMA GiveBackCovers ==
    ASSUME LaunchAssumption, IInv, NEW p \in Procs, NEW r, GiveBack(p),
           proc' = [proc EXCEPT ![p] = r],
           r.pc # "queued", proc[p].pc # "queued", ~r.reserved,
           Registering' = Registering
    PROVE  /\ ReservationsCovered'
           /\ pending' \in Nat /\ late' \in BOOLEAN
           /\ stamp' \in {"none", "fresh", "old"}
           /\ forgotten' \subseteq forgotten /\ forgotten' \ {p} = forgotten \ {p}
           /\ p \notin forgotten'
<1>1. /\ pending' = IF proc[p].reserved THEN Decremented(pending) ELSE pending
      /\ stamp' = IF proc[p].reserved /\ pending' = 0 THEN "none" ELSE stamp
      /\ forgotten' = forgotten \ {p}
      /\ late' = (late \/ (p \in forgotten /\ pending > 0))
  BY DEF GiveBack
<1>2. pending \in Nat /\ late \in BOOLEAN /\ stamp \in {"none", "fresh", "old"}
  BY DEF IInv, TypeOK
<1>3. p \in forgotten => proc[p].reserved
  BY DEF IInv, ForgottenReserved, Reserved
<1>4. /\ Cardinality(Queued) \in Nat
      /\ Cardinality(Reserved \ forgotten) \in Nat
      /\ Cardinality(Reserved' \ forgotten') \in Nat
      /\ Cardinality(Queued') = Cardinality(Queued)
      /\ Cardinality(Reserved' \ forgotten') = Cardinality(Reserved \ forgotten)
           - Bit(proc[p].reserved /\ p \notin forgotten)
  <2>1. TypeOK /\ forgotten' \ {p} = forgotten \ {p}
    BY <1>1 DEF IInv
  <2>2. /\ Cardinality(Queued) \in Nat
        /\ Cardinality(Reserved \ forgotten) \in Nat
        /\ Cardinality(Reserved' \ forgotten') \in Nat
        /\ Cardinality(Queued') = Cardinality(Queued)
             + Bit(r.pc = "queued") - Bit(proc[p].pc = "queued")
        /\ Cardinality(Reserved' \ forgotten') = Cardinality(Reserved \ forgotten)
             + Bit(r.reserved /\ p \notin forgotten')
             - Bit(proc[p].reserved /\ p \notin forgotten)
    BY <2>1, ProcessCounts
  <2> QED
    BY <2>2 DEF Bit
<1>5. Cardinality(Registering) \in Nat
  BY FiniteGroups, FS_CardinalityType
<1>6. ~late => pending >= Cardinality(Registering) + Cardinality(Queued)
                            + Cardinality(Reserved \ forgotten)
  BY DEF IInv, ReservationsCovered
<1>7. ReservationsCovered'
  <2> SUFFICES ASSUME ~late'
               PROVE  pending' >= Cardinality(Registering) + Cardinality(Queued)
                                    + Cardinality(Reserved' \ forgotten')
    BY <1>4 DEF ReservationsCovered
  <2>1. ~late /\ ~(p \in forgotten /\ pending > 0)
    BY <1>1
  <2> QED
    BY <1>1, <1>2, <1>3, <1>4, <1>5, <1>6, <2>1 DEF Decremented, Bit
<1> QED
  BY <1>1, <1>2, <1>7 DEF Decremented

\* Registering does not read processes.
LEMMA LaunchersKept ==
    ASSUME UNCHANGED launcher
    PROVE  Registering' = Registering
BY DEF Registering

\* A step that starts no process and lets none in keeps the bound.
LEMMA BoundKept ==
    ASSUME LaunchAssumption, IInv, NEW p \in Procs, NEW r,
           proc' = [proc EXCEPT ![p] = r], forgotten' \ {p} = forgotten \ {p},
           r.pc # "queued", late => late',
           r.pc \in {"connect", "work"} =>
             proc[p].pc \in {"queued", "connect", "work"},
           Registering' = Registering
    PROVE  LaunchesBounded'
<1>1. /\ Cardinality(Queued) \in Nat /\ Cardinality(Running) \in Nat
      /\ Cardinality(Queued') = Cardinality(Queued) - Bit(proc[p].pc = "queued")
      /\ Cardinality(Running') = Cardinality(Running)
           + Bit(r.pc \in {"connect", "work"})
           - Bit(proc[p].pc \in {"connect", "work"})
  <2>1. TypeOK
    BY DEF IInv
  <2>2. /\ Cardinality(Queued) \in Nat /\ Cardinality(Running) \in Nat
        /\ Cardinality(Queued') = Cardinality(Queued)
             + Bit(r.pc = "queued") - Bit(proc[p].pc = "queued")
        /\ Cardinality(Running') = Cardinality(Running)
             + Bit(r.pc \in {"connect", "work"})
             - Bit(proc[p].pc \in {"connect", "work"})
    BY <2>1, ProcessCounts
  <2> QED
    BY <2>2 DEF Bit
<1>2. Cardinality(Registering) \in Nat
  BY FiniteGroups, FS_CardinalityType
<1>3. Cardinality(Queued') + Cardinality(Running')
        <= Cardinality(Queued) + Cardinality(Running)
  BY <1>1 DEF Bit
<1>4. /\ Cardinality(Queued') \in Int /\ Cardinality(Running') \in Int
  BY <1>1 DEF Bit
<1> QED
  BY <1>1, <1>2, <1>3, <1>4 DEF IInv, LaunchesBounded, LaunchAssumption
ProcType == [pc : {"off", "queued", "connect", "work", "exit"},
             counted : BOOLEAN, reserved : BOOLEAN,
             phase : Phases \cup {"idle"}, slot : -1 .. MaxLimit - 1]

\* A free slot is nobody's and below the limit.
LEMMA FreeSlotIsFree ==
    ASSUME LaunchAssumption, TypeOK, FreeSlots # {}
    PROVE  /\ Min(FreeSlots) \in 0 .. limit - 1
           /\ Min(FreeSlots) \in 0 .. MaxLimit - 1
           /\ \A q \in Procs : proc[q].slot # Min(FreeSlots)
<1> DEFINE m == Min(FreeSlots)
<1>1. FreeSlots \in SUBSET Nat
  BY DEF FreeSlots, TypeOK
<1>2. m \in FreeSlots
  BY <1>1, MinIsElement
<1> HIDE DEF m
<1>3. m \in 0 .. limit - 1 /\ \A q \in Procs : proc[q].slot # m
  BY <1>2 DEF FreeSlots
<1>4. limit \in 0 .. MaxLimit /\ limit \in Int /\ MaxLimit \in Nat
  BY DEF TypeOK, LaunchAssumption
<1>5. m \in 0 .. MaxLimit - 1
  BY <1>3, <1>4
<1> QED
  BY <1>3, <1>5 DEF m

\* The process is admitted, refused or ends: its reservation is given back.
LEMMA AdmitStep ==
    ASSUME LaunchAssumption, IInv, NEW p \in Procs, Admit(p)
    PROVE  IInv'
<1> DEFINE r == [proc[p] EXCEPT !.pc = "work", !.reserved = FALSE,
                                !.counted = TRUE, !.slot = Min(FreeSlots)]
<1>1. /\ proc[p].pc = "connect" /\ FreeSlots # {} /\ GiveBack(p)
      /\ proc[p].counted /\ active' = active
      /\ UNCHANGED <<limit, phases, launcher, lost, reloads>>
  BY DEF Admit, IInv, ProcShape
<1>2. /\ proc' = [proc EXCEPT ![p] = r]
      /\ proc[p] \in ProcType
  BY DEF Admit, IInv, TypeOK, ProcType
<1>3. /\ Min(FreeSlots) \in 0 .. MaxLimit - 1
      /\ \A q \in Procs : proc[q].slot # Min(FreeSlots)
  BY <1>1, FreeSlotIsFree DEF IInv
<1>4. /\ r.pc = "work" /\ ~r.reserved /\ r.counted /\ r.phase = proc[p].phase
      /\ r.slot = Min(FreeSlots) /\ r \in ProcType
      /\ r.phase \in Phases \cup {"idle"}
  <2>1. \A m \in 0 .. MaxLimit - 1 : m \in -1 .. MaxLimit - 1
    BY DEF LaunchAssumption
  <2> DEFINE m == Min(FreeSlots)
  <2>2. m \in -1 .. MaxLimit - 1
    BY <1>3, <2>1
  <2> HIDE DEF m
  <2>3. r = [proc[p] EXCEPT !.pc = "work", !.reserved = FALSE,
                            !.counted = TRUE, !.slot = m]
    BY DEF m
  <2>4. /\ r.pc = "work" /\ ~r.reserved /\ r.counted /\ r.phase = proc[p].phase
        /\ r.slot = m /\ r \in ProcType /\ r.phase \in Phases \cup {"idle"}
    <3> HIDE DEF r
    <3> QED
      BY <1>2, <2>2, <2>3 DEF ProcType
  <2> QED
    BY <2>4 DEF m
<1> HIDE DEF r
<1>5. Registering' = Registering
  BY <1>1, LaunchersKept
<1>6. /\ ReservationsCovered'
      /\ pending' \in Nat /\ late' \in BOOLEAN
      /\ stamp' \in {"none", "fresh", "old"}
      /\ forgotten' \subseteq forgotten /\ forgotten' \ {p} = forgotten \ {p}
      /\ p \notin forgotten'
  BY <1>1, <1>2, <1>4, <1>5, GiveBackCovers
<1>7. /\ active' \in Nat
      /\ active' = active + Bit(r.counted) - Bit(proc[p].counted)
      /\ phases' = PhasesAfter(p, r.phase)
  BY <1>1, <1>4 DEF IInv, TypeOK, Bit, PhasesAfter
<1>8. ProcShape' /\ ForgottenReserved' /\ CountersExact' /\ SlotsDistinct'
  BY <1>2, <1>3, <1>4, <1>6, <1>7, ProcessInvariants
<1>9. late => late'
  BY <1>1 DEF GiveBack
<1>10. LaunchesBounded'
  BY <1>1, <1>2, <1>4, <1>5, <1>6, <1>9, BoundKept
<1>11. TypeOK'
  BY <1>1, <1>2, <1>4, <1>6 DEF IInv, TypeOK, ProcType
<1> QED
  BY <1>6, <1>8, <1>10, <1>11 DEF IInv

LEMMA RefuseStep ==
    ASSUME LaunchAssumption, IInv, NEW p \in Procs, Refuse(p)
    PROVE  IInv'
<1> DEFINE r == [proc[p] EXCEPT !.pc = "exit", !.reserved = FALSE]
<1>1. /\ proc[p].pc = "connect" /\ GiveBack(p)
      /\ proc[p].phase = "idle"
      /\ UNCHANGED <<limit, active, phases, launcher, lost, reloads>>
  BY DEF Refuse, IInv, ProcShape
<1>2. /\ proc' = [proc EXCEPT ![p] = r]
      /\ proc[p] \in ProcType
  BY DEF Refuse, IInv, TypeOK, ProcType
<1>4. /\ r.pc = "exit" /\ ~r.reserved /\ r.counted = proc[p].counted
      /\ r.phase = "idle" /\ r.slot = proc[p].slot /\ r \in ProcType
  BY <1>1, <1>2 DEF ProcType
<1> HIDE DEF r
<1>5. Registering' = Registering
  BY <1>1, LaunchersKept
<1>6. /\ ReservationsCovered'
      /\ pending' \in Nat /\ late' \in BOOLEAN
      /\ stamp' \in {"none", "fresh", "old"}
      /\ forgotten' \subseteq forgotten /\ forgotten' \ {p} = forgotten \ {p}
      /\ p \notin forgotten'
  BY <1>1, <1>2, <1>4, <1>5, GiveBackCovers
<1>7. /\ active' \in Nat
      /\ active' = active + Bit(r.counted) - Bit(proc[p].counted)
      /\ phases' = PhasesAfter(p, r.phase)
  BY <1>1, <1>4 DEF IInv, TypeOK, Bit, PhasesAfter
<1>8. ProcShape' /\ ForgottenReserved' /\ CountersExact' /\ SlotsDistinct'
  BY <1>2, <1>4, <1>6, <1>7, ProcessInvariants
<1>9. late => late'
  BY <1>1 DEF GiveBack
<1>10. LaunchesBounded'
  BY <1>1, <1>2, <1>4, <1>5, <1>6, <1>9, BoundKept
<1>11. TypeOK'
  BY <1>1, <1>2, <1>4, <1>6 DEF IInv, TypeOK, ProcType
<1> QED
  BY <1>6, <1>8, <1>10, <1>11 DEF IInv

\* What noting the end of a process does to the count of active ones.
LEMMA FinishCounts ==
    ASSUME LaunchAssumption, IInv, NEW p \in Procs, NoteFinished(p)
    PROVE  /\ active' \in Nat
           /\ active' = active - Bit(proc[p].counted)
           /\ phases' = PhasesAfter(p, "idle")
<1>1. active \in Nat /\ active = Cardinality(Counted)
  BY DEF IInv, TypeOK, CountersExact, Counted
<1>2. proc[p].counted => Cardinality(Counted) >= 1
  <2>1. proc[p].counted => p \in Counted
    BY DEF Counted
  <2> QED
    BY <2>1, FiniteGroups, OneElement
<1> QED
  BY <1>1, <1>2 DEF NoteFinished, Decremented, Bit

LEMMA ExitStep ==
    ASSUME LaunchAssumption, IInv, NEW p \in Procs, Exit(p)
    PROVE  IInv'
<1>1. /\ proc[p].pc \in {"connect", "work", "exit"}
      /\ GiveBack(p) /\ NoteFinished(p)
      /\ proc' = [proc EXCEPT ![p] = NoProc]
      /\ UNCHANGED <<limit, launcher, lost, reloads>>
  BY DEF Exit
<1>2. /\ NoProc.pc = "off" /\ ~NoProc.reserved /\ ~NoProc.counted
      /\ NoProc.phase = "idle" /\ NoProc.slot = NoSlot /\ NoProc \in ProcType
  <2>1. NoSlot \in -1 .. MaxLimit - 1
    BY DEF LaunchAssumption, NoSlot
  <2> QED
    BY <2>1 DEF NoProc, ProcType
<1>3. Registering' = Registering
  BY <1>1, LaunchersKept
<1>4. /\ ReservationsCovered'
      /\ pending' \in Nat /\ late' \in BOOLEAN
      /\ stamp' \in {"none", "fresh", "old"}
      /\ forgotten' \subseteq forgotten /\ forgotten' \ {p} = forgotten \ {p}
      /\ p \notin forgotten'
  BY <1>1, <1>2, <1>3, GiveBackCovers
<1>5. /\ active' \in Nat
      /\ active' = active + Bit(NoProc.counted) - Bit(proc[p].counted)
      /\ phases' = PhasesAfter(p, NoProc.phase)
  BY <1>1, <1>2, FinishCounts DEF IInv, TypeOK, Bit
<1>6. /\ ProcShape' /\ ForgottenReserved' /\ CountersExact' /\ SlotsDistinct'
      /\ phases' \in [Phases -> Nat]
  BY <1>1, <1>2, <1>4, <1>5, ProcessInvariants
<1>7. late => late'
  BY <1>1 DEF GiveBack
<1>8. LaunchesBounded'
  BY <1>1, <1>2, <1>3, <1>4, <1>7, BoundKept
<1>9. TypeOK'
  BY <1>1, <1>2, <1>4, <1>5, <1>6 DEF IInv, TypeOK, ProcType
<1> QED
  BY <1>4, <1>6, <1>8, <1>9 DEF IInv
LEMMA FinishStep ==
    ASSUME LaunchAssumption, IInv, NEW p \in Procs, Finish(p)
    PROVE  IInv'
<1> DEFINE r == [proc[p] EXCEPT !.pc = "exit", !.counted = FALSE, !.phase = "idle"]
<1>1. /\ proc[p].pc = "work" /\ NoteFinished(p) /\ ~proc[p].reserved
      /\ UNCHANGED <<limit, pending, stamp, launcher, lost, reloads, forgotten, late>>
  BY DEF Finish, IInv, ProcShape, history
<1>2. /\ proc' = [proc EXCEPT ![p] = r]
      /\ proc[p] \in ProcType
  BY DEF Finish, IInv, TypeOK, ProcType
<1>3. /\ r.pc = "exit" /\ ~r.reserved /\ ~r.counted
      /\ r.phase = "idle" /\ r.slot = proc[p].slot /\ r \in ProcType
  BY <1>1, <1>2 DEF ProcType
<1> HIDE DEF r
<1>4. p \notin forgotten
  BY <1>1 DEF IInv, ForgottenReserved, Reserved
<1>5. /\ active' \in Nat
      /\ active' = active + Bit(r.counted) - Bit(proc[p].counted)
      /\ phases' = PhasesAfter(p, r.phase)
  BY <1>1, <1>3, FinishCounts DEF IInv, TypeOK, Bit
<1>6. /\ ProcShape' /\ ForgottenReserved' /\ CountersExact' /\ SlotsDistinct'
      /\ phases' \in [Phases -> Nat]
  BY <1>1, <1>2, <1>3, <1>4, <1>5, ProcessInvariants
<1>7. Registering' = Registering
  BY <1>1, LaunchersKept
<1>8. LaunchesBounded'
  BY <1>1, <1>2, <1>3, <1>7, BoundKept
<1>9. ReservationsCovered'
  <2>1. TypeOK /\ forgotten' \ {p} = forgotten \ {p}
    BY <1>1 DEF IInv
  <2>2. /\ Cardinality(Queued) \in Nat
        /\ Cardinality(Reserved \ forgotten) \in Nat
        /\ Cardinality(Queued') = Cardinality(Queued)
             + Bit(r.pc = "queued") - Bit(proc[p].pc = "queued")
        /\ Cardinality(Reserved' \ forgotten') = Cardinality(Reserved \ forgotten)
             + Bit(r.reserved /\ p \notin forgotten')
             - Bit(proc[p].reserved /\ p \notin forgotten)
    BY <1>2, <2>1, ProcessCounts
  <2>3. /\ Cardinality(Queued') = Cardinality(Queued)
        /\ Cardinality(Reserved' \ forgotten') = Cardinality(Reserved \ forgotten)
    BY <1>1, <1>3, <2>2 DEF Bit
  <2> QED
    BY <1>1, <1>7, <2>3 DEF IInv, ReservationsCovered
<1>10. TypeOK'
  BY <1>1, <1>2, <1>3, <1>5, <1>6 DEF IInv, TypeOK, ProcType
<1> QED
  BY <1>6, <1>8, <1>9, <1>10 DEF IInv

LEMMA SetPhaseStep ==
    ASSUME LaunchAssumption, IInv, NEW p \in Procs, NEW ph \in Phases, SetPhase(p, ph)
    PROVE  IInv'
<1> DEFINE r == [proc[p] EXCEPT !.phase = ph]
<1>1. /\ proc[p].pc = "work" /\ ~proc[p].reserved /\ proc[p].counted
      /\ phases' = PhasesAfter(p, ph)
      /\ UNCHANGED <<limit, pending, stamp, active, launcher, lost, reloads,
                     forgotten, late>>
  BY DEF SetPhase, IInv, ProcShape, history
<1>2. /\ proc' = [proc EXCEPT ![p] = r]
      /\ proc[p] \in ProcType
  BY DEF SetPhase, IInv, TypeOK, ProcType
<1>3. /\ r.pc = "work" /\ ~r.reserved /\ r.counted
      /\ r.phase = ph /\ r.slot = proc[p].slot /\ r \in ProcType
  BY <1>1, <1>2 DEF ProcType
<1> HIDE DEF r
<1>4. p \notin forgotten
  BY <1>1 DEF IInv, ForgottenReserved, Reserved
<1>5. /\ active' \in Nat
      /\ active' = active + Bit(r.counted) - Bit(proc[p].counted)
  BY <1>1, <1>3 DEF IInv, TypeOK, Bit
<1>6. /\ ProcShape' /\ ForgottenReserved' /\ CountersExact' /\ SlotsDistinct'
      /\ phases' \in [Phases -> Nat]
  BY <1>1, <1>2, <1>3, <1>4, <1>5, ProcessInvariants
<1>7. Registering' = Registering
  BY <1>1, LaunchersKept
<1>8. LaunchesBounded'
  BY <1>1, <1>2, <1>3, <1>7, BoundKept
<1>9. ReservationsCovered'
  <2>1. \A q \in Procs : /\ proc'[q].pc = proc[q].pc
                         /\ proc'[q].reserved = proc[q].reserved
    <3>1. r.pc = proc[p].pc /\ r.reserved = proc[p].reserved
      BY <1>1, <1>2, <1>3 DEF ProcType
    <3> QED
      BY <1>2, <3>1 DEF IInv, TypeOK
  <2>2. Queued' = Queued /\ Reserved' = Reserved
    BY <2>1 DEF Queued, Reserved
  <2> QED
    BY <1>1, <1>7, <2>2 DEF IInv, ReservationsCovered
<1>10. TypeOK'
  BY <1>1, <1>2, <1>3, <1>5, <1>6 DEF IInv, TypeOK, ProcType
<1> QED
  BY <1>6, <1>8, <1>9, <1>10 DEF IInv

\* A process adopts its launch: the reservation moves with it.
LEMMA AdoptStep ==
    ASSUME LaunchAssumption, IInv, NEW p \in Procs, Adopt(p)
    PROVE  IInv'
<1> DEFINE r == [proc[p] EXCEPT !.pc = "connect", !.reserved = TRUE, !.counted = TRUE]
<1>1. /\ proc[p].pc = "queued" /\ ~proc[p].reserved /\ ~proc[p].counted
      /\ proc[p].phase = "idle" /\ active' = active + 1
      /\ UNCHANGED <<limit, pending, stamp, phases, launcher, lost, reloads,
                     forgotten, late>>
  BY DEF Adopt, IInv, ProcShape, history
<1>2. /\ proc' = [proc EXCEPT ![p] = r]
      /\ proc[p] \in ProcType
  BY DEF Adopt, IInv, TypeOK, ProcType
<1>3. /\ r.pc = "connect" /\ r.reserved /\ r.counted
      /\ r.phase = "idle" /\ r.slot = proc[p].slot /\ r \in ProcType
  BY <1>1, <1>2 DEF ProcType
<1> HIDE DEF r
<1>4. /\ active' \in Nat
      /\ active' = active + Bit(r.counted) - Bit(proc[p].counted)
      /\ phases' = PhasesAfter(p, r.phase)
  BY <1>1, <1>3 DEF IInv, TypeOK, Bit, PhasesAfter
<1>5. /\ ProcShape' /\ ForgottenReserved' /\ CountersExact' /\ SlotsDistinct'
      /\ phases' \in [Phases -> Nat]
  BY <1>1, <1>2, <1>3, <1>4, ProcessInvariants
<1>6. Registering' = Registering
  BY <1>1, LaunchersKept
<1>7. LaunchesBounded'
  BY <1>1, <1>2, <1>3, <1>6, BoundKept
<1>8. ReservationsCovered'
  <2>1. TypeOK /\ forgotten' \ {p} = forgotten \ {p} /\ p \notin forgotten
    BY <1>1 DEF IInv, ForgottenReserved, Reserved
  <2>2. /\ Cardinality(Queued) \in Nat
        /\ Cardinality(Reserved \ forgotten) \in Nat
        /\ Cardinality(Queued') = Cardinality(Queued)
             + Bit(r.pc = "queued") - Bit(proc[p].pc = "queued")
        /\ Cardinality(Reserved' \ forgotten') = Cardinality(Reserved \ forgotten)
             + Bit(r.reserved /\ p \notin forgotten')
             - Bit(proc[p].reserved /\ p \notin forgotten)
    BY <1>2, <2>1, ProcessCounts
  <2>3. /\ Cardinality(Queued') = Cardinality(Queued) - 1
        /\ Cardinality(Reserved' \ forgotten') = Cardinality(Reserved \ forgotten) + 1
    BY <1>1, <1>3, <2>1, <2>2 DEF Bit
  <2>4. Cardinality(Registering) \in Nat
    BY FiniteGroups, FS_CardinalityType
  <2> QED
    BY <1>1, <1>6, <2>2, <2>3, <2>4 DEF IInv, ReservationsCovered, TypeOK
<1>9. TypeOK'
  BY <1>1, <1>2, <1>3, <1>4, <1>5 DEF IInv, TypeOK, ProcType
<1> QED
  BY <1>5, <1>7, <1>8, <1>9 DEF IInv

LEMMA LoseStep ==
    ASSUME LaunchAssumption, IInv, NEW p \in Procs, Lose(p)
    PROVE  IInv'
<1>1. /\ proc[p].pc = "queued" /\ ~proc[p].reserved /\ ~proc[p].counted
      /\ proc[p].phase = "idle" /\ lost < Losses /\ lost' = lost + 1
      /\ proc' = [proc EXCEPT ![p] = NoProc]
      /\ UNCHANGED <<limit, pending, stamp, active, phases, launcher, reloads,
                     forgotten, late>>
  BY DEF Lose, IInv, ProcShape, history
<1>2. /\ NoProc.pc = "off" /\ ~NoProc.reserved /\ ~NoProc.counted
      /\ NoProc.phase = "idle" /\ NoProc.slot = NoSlot /\ NoProc \in ProcType
  <2>1. NoSlot \in -1 .. MaxLimit - 1
    BY DEF LaunchAssumption, NoSlot
  <2> QED
    BY <2>1 DEF NoProc, ProcType
<1>3. /\ active' \in Nat
      /\ active' = active + Bit(NoProc.counted) - Bit(proc[p].counted)
      /\ phases' = PhasesAfter(p, NoProc.phase)
  BY <1>1, <1>2 DEF IInv, TypeOK, Bit, PhasesAfter
<1>4. p \notin forgotten
  BY <1>1 DEF IInv, ForgottenReserved, Reserved
<1>5. /\ ProcShape' /\ ForgottenReserved' /\ CountersExact' /\ SlotsDistinct'
      /\ phases' \in [Phases -> Nat]
  BY <1>1, <1>2, <1>3, <1>4, ProcessInvariants
<1>6. Registering' = Registering
  BY <1>1, LaunchersKept
<1>7. LaunchesBounded'
  BY <1>1, <1>2, <1>6, BoundKept
<1>8. ReservationsCovered'
  <2>1. TypeOK /\ forgotten' \ {p} = forgotten \ {p}
    BY <1>1 DEF IInv
  <2>2. /\ Cardinality(Queued) \in Nat
        /\ Cardinality(Reserved \ forgotten) \in Nat
        /\ Cardinality(Queued') = Cardinality(Queued)
             + Bit(NoProc.pc = "queued") - Bit(proc[p].pc = "queued")
        /\ Cardinality(Reserved' \ forgotten') = Cardinality(Reserved \ forgotten)
             + Bit(NoProc.reserved /\ p \notin forgotten')
             - Bit(proc[p].reserved /\ p \notin forgotten)
    BY <1>1, <2>1, ProcessCounts
  <2>3. /\ Cardinality(Queued') = Cardinality(Queued) - 1
        /\ Cardinality(Reserved' \ forgotten') = Cardinality(Reserved \ forgotten)
    BY <1>1, <1>2, <2>2 DEF Bit
  <2>4. Cardinality(Registering) \in Nat
    BY FiniteGroups, FS_CardinalityType
  <2> QED
    BY <1>1, <1>6, <2>2, <2>3, <2>4 DEF IInv, ReservationsCovered, TypeOK
<1>9. TypeOK'
  BY <1>1, <1>2, <1>3, <1>5 DEF IInv, TypeOK, ProcType, LaunchAssumption
<1> QED
  BY <1>5, <1>7, <1>8, <1>9 DEF IInv

(***************************************************************************)
(* Registration                                                            *)
(***************************************************************************)
\* The launcher leaves "register"; its reservation goes to the process, or is
\* given back.
LEMMA RegistrationLeaves ==
    ASSUME LaunchAssumption, TypeOK, NEW l \in Launchers,
           launcher[l].pc = "register",
           launcher' = [launcher EXCEPT ![l].pc = "idle"]
    PROVE  /\ Cardinality(Registering) \in Nat
           /\ Cardinality(Registering) >= 1
           /\ Cardinality(Registering') = Cardinality(Registering) - 1
           /\ launcher' \in [Launchers -> [pc : {"idle", "reserve", "register"},
                                           limit : 0 .. MaxLimit]]
<1> DEFINE r == [launcher[l] EXCEPT !.pc = "idle"]
<1>1. /\ launcher' = [launcher EXCEPT ![l] = r] /\ r.pc = "idle"
      /\ r \in [pc : {"idle", "reserve", "register"}, limit : 0 .. MaxLimit]
  BY DEF TypeOK
<1> HIDE DEF r
<1>2. /\ Registering' \ {l} = Registering \ {l}
      /\ l \notin Registering' /\ l \in Registering
  BY <1>1, OneLauncher DEF Registering
<1>3. IsFiniteSet(Registering)
  BY FiniteGroups
<1> QED
  BY <1>1, <1>2, <1>3, OneElement DEF TypeOK

LEMMA RegisterStep ==
    ASSUME LaunchAssumption, IInv, NEW l \in Launchers, NEW p \in Procs,
           Register(l, p)
    PROVE  IInv'
<1> DEFINE r == [proc[p] EXCEPT !.pc = "queued"]
<1>1. /\ launcher[l].pc = "register" /\ proc[p].pc = "off"
      /\ ~proc[p].reserved /\ ~proc[p].counted
      /\ proc[p].phase = "idle" /\ proc[p].slot = NoSlot
      /\ launcher' = [launcher EXCEPT ![l].pc = "idle"]
      /\ UNCHANGED <<limit, pending, stamp, active, phases, lost, reloads,
                     forgotten, late>>
  BY DEF Register, IInv, ProcShape, history
<1>2. /\ proc' = [proc EXCEPT ![p] = r]
      /\ proc[p] \in ProcType
  BY DEF Register, IInv, TypeOK, ProcType
<1>3. /\ r.pc = "queued" /\ ~r.reserved /\ ~r.counted
      /\ r.phase = "idle" /\ r.slot = NoSlot /\ r \in ProcType
  BY <1>1, <1>2 DEF ProcType
<1> HIDE DEF r
<1>4. /\ active' \in Nat
      /\ active' = active + Bit(r.counted) - Bit(proc[p].counted)
      /\ phases' = PhasesAfter(p, r.phase)
  BY <1>1, <1>3 DEF IInv, TypeOK, Bit, PhasesAfter
<1>5. p \notin forgotten
  BY <1>1 DEF IInv, ForgottenReserved, Reserved
<1>6. /\ ProcShape' /\ ForgottenReserved' /\ CountersExact' /\ SlotsDistinct'
      /\ phases' \in [Phases -> Nat]
  BY <1>1, <1>2, <1>3, <1>4, <1>5, ProcessInvariants
<1>7. /\ Cardinality(Registering) \in Nat
      /\ Cardinality(Registering') = Cardinality(Registering) - 1
      /\ launcher' \in [Launchers -> [pc : {"idle", "reserve", "register"},
                                      limit : 0 .. MaxLimit]]
  BY <1>1, RegistrationLeaves DEF IInv
<1>8. /\ Cardinality(Queued) \in Nat /\ Cardinality(Running) \in Nat
      /\ Cardinality(Reserved \ forgotten) \in Nat
      /\ Cardinality(Queued') = Cardinality(Queued) + 1
      /\ Cardinality(Running') = Cardinality(Running)
      /\ Cardinality(Reserved' \ forgotten') = Cardinality(Reserved \ forgotten)
  <2>1. TypeOK /\ forgotten' \ {p} = forgotten \ {p}
    BY <1>1 DEF IInv
  <2>2. /\ Cardinality(Queued) \in Nat /\ Cardinality(Running) \in Nat
        /\ Cardinality(Reserved \ forgotten) \in Nat
        /\ Cardinality(Queued') = Cardinality(Queued)
             + Bit(r.pc = "queued") - Bit(proc[p].pc = "queued")
        /\ Cardinality(Running') = Cardinality(Running)
             + Bit(r.pc \in {"connect", "work"})
             - Bit(proc[p].pc \in {"connect", "work"})
        /\ Cardinality(Reserved' \ forgotten') = Cardinality(Reserved \ forgotten)
             + Bit(r.reserved /\ p \notin forgotten')
             - Bit(proc[p].reserved /\ p \notin forgotten)
    BY <1>2, <2>1, ProcessCounts
  <2> QED
    BY <1>1, <1>3, <2>2 DEF Bit
<1>9. ReservationsCovered' /\ LaunchesBounded'
  BY <1>1, <1>7, <1>8 DEF IInv, ReservationsCovered, LaunchesBounded
<1>10. TypeOK'
  BY <1>1, <1>2, <1>3, <1>4, <1>6, <1>7 DEF IInv, TypeOK, ProcType
<1> QED
  BY <1>6, <1>9, <1>10 DEF IInv

LEMMA RegisterFailsStep ==
    ASSUME LaunchAssumption, IInv, NEW l \in Launchers, RegisterFails(l)
    PROVE  IInv'
<1>1. /\ launcher[l].pc = "register"
      /\ pending' = Decremented(pending)
      /\ stamp' = IF pending' = 0 THEN "none" ELSE stamp
      /\ launcher' = [launcher EXCEPT ![l].pc = "idle"]
      /\ UNCHANGED <<limit, active, phases, proc, lost, reloads, forgotten, late>>
  BY DEF RegisterFails, history
<1>2. /\ ProcShape' /\ CountersExact' /\ SlotsDistinct'
      /\ Queued' = Queued /\ Running' = Running /\ Reserved' = Reserved
  BY <1>1, ProcessesKept
<1>3. /\ Cardinality(Registering) \in Nat /\ Cardinality(Registering) >= 1
      /\ Cardinality(Registering') = Cardinality(Registering) - 1
      /\ launcher' \in [Launchers -> [pc : {"idle", "reserve", "register"},
                                      limit : 0 .. MaxLimit]]
  BY <1>1, RegistrationLeaves DEF IInv
<1>4. /\ Cardinality(Queued) \in Nat /\ Cardinality(Running) \in Nat
      /\ Cardinality(Reserved \ forgotten) \in Nat
  BY FiniteGroups, FS_CardinalityType
<1>5. pending \in Nat /\ pending' \in Nat
  BY <1>1 DEF IInv, TypeOK, Decremented
<1>6. ReservationsCovered'
  BY <1>1, <1>2, <1>3, <1>4, <1>5 DEF IInv, ReservationsCovered, Decremented
<1>7. LaunchesBounded'
  BY <1>1, <1>2, <1>3, <1>4 DEF IInv, LaunchesBounded, LaunchAssumption
<1>8. TypeOK' /\ ForgottenReserved'
  BY <1>1, <1>2, <1>3, <1>5 DEF IInv, TypeOK, ForgottenReserved
<1> QED
  BY <1>2, <1>6, <1>7, <1>8 DEF IInv
(***************************************************************************)
(* The theorems                                                            *)
(***************************************************************************)
LEMMA NextStep ==
    ASSUME LaunchAssumption, IInv, [Next]_vars
    PROVE  IInv'
<1>1. CASE \E l \in Launchers : LauncherStep(l)
  BY <1>1, QuietStep, TryReserveStep, RegisterStep, RegisterFailsStep DEF LauncherStep
<1>2. CASE \E p \in Procs : ProcStep(p)
  BY <1>2, AdoptStep, AdmitStep, RefuseStep, FinishStep DEF ProcStep
<1>3. CASE \E p \in Procs : Exit(p) \/ Lose(p)
  BY <1>3, ExitStep, LoseStep
<1>4. CASE \E p \in Procs, ph \in Phases : SetPhase(p, ph)
  BY <1>4, SetPhaseStep
<1>5. CASE (\E n \in 0 .. MaxLimit : SetLimit(n)) \/ LaunchTimeout
  BY <1>5, QuietStep
<1>6. CASE UNCHANGED vars
  <2>1. UNCHANGED <<pending, active, phases, launcher, proc, forgotten, late>>
    BY <1>6 DEF vars
  <2>2. /\ ProcShape' /\ CountersExact' /\ SlotsDistinct'
        /\ Queued' = Queued /\ Running' = Running /\ Reserved' = Reserved
        /\ Registering' = Registering
    BY <2>1, ProcessesKept, LaunchersKept
  <2>3. TypeOK'
    BY <1>6 DEF vars, IInv, TypeOK
  <2> QED
    BY <2>1, <2>2, <2>3
    DEF IInv, ForgottenReserved, ReservationsCovered, LaunchesBounded
<1> QED
  BY <1>1, <1>2, <1>3, <1>4, <1>5, <1>6 DEF Next

\* Why no more processes live than the limit admits.
LEMMA BoundFollows ==
    ASSUME LaunchAssumption, IInv
    PROVE  AdmissionBounded
<1>1. /\ IsFiniteSet(Registering) /\ IsFiniteSet(Queued) /\ IsFiniteSet(Running)
      /\ IsFiniteSet(Exiting) /\ IsFiniteSet(Reserved \ forgotten)
  BY FiniteGroups
<1>2. /\ Cardinality(Registering) \in Nat /\ Cardinality(Queued) \in Nat
      /\ Cardinality(Running) \in Nat /\ Cardinality(Exiting) \in Nat
      /\ Cardinality(Reserved \ forgotten) \in Nat
  BY <1>1, FS_CardinalityType
<1>3. Alive = (Queued \cup Running) \cup Exiting
  BY DEF IInv, TypeOK, Alive, Queued, Running, Exiting
<1>4. /\ Cardinality(Queued \cup Running) <= Cardinality(Queued) + Cardinality(Running)
      /\ IsFiniteSet(Queued \cup Running)
      /\ Cardinality(Queued \cup Running) \in Nat
  BY <1>1, UnionBound
<1>5. /\ Cardinality(Alive) <= Cardinality(Queued \cup Running) + Cardinality(Exiting)
      /\ Cardinality(Alive) \in Nat
  <2> DEFINE S == Queued \cup Running
  <2> HIDE DEF S
  <2>1. IsFiniteSet(S) /\ Cardinality(S) \in Nat
    BY <1>4 DEF S
  <2>3. /\ Cardinality(S \cup Exiting) <= Cardinality(S) + Cardinality(Exiting)
        /\ Cardinality(S \cup Exiting) \in Nat
    BY <1>1, <2>1, UnionBound
  <2> QED
    BY <1>3, <2>3 DEF S
<1>6. Cardinality(Launching) <= Cardinality(Registering) + Cardinality(Queued)
  <2>1. Launching = Registering \cup Queued
    BY DEF Launching, Registering, Queued
  <2> QED
    BY <1>1, <2>1, UnionBound
<1>7. Cardinality(Launching) \in Nat
  BY <1>1, FS_Union, FS_CardinalityType DEF Launching, Registering, Queued
<1>8. MaxLimit \in Nat /\ pending \in Nat
  BY DEF LaunchAssumption, IInv, TypeOK
<1>9. ~late => Cardinality(Alive) <= MaxLimit + Cardinality(Exiting)
  BY <1>2, <1>4, <1>5, <1>8 DEF IInv, LaunchesBounded
<1>10. ~late => pending >= Cardinality(Launching) + Cardinality(Reserved \ forgotten)
  BY <1>2, <1>6, <1>7, <1>8 DEF IInv, ReservationsCovered
<1> QED
  BY <1>9, <1>10 DEF AdmissionBounded, Exiting

\* Every variable of worker admission keeps its type.
THEOREM LaunchTypeCorrect ==
    ASSUME LaunchAssumption
    PROVE  Spec => []TypeOK
<1>1. Init => IInv
  BY InitStep
<1>2. IInv /\ [Next]_vars => IInv'
  BY NextStep
<1>3. IInv => TypeOK
  BY DEF IInv
<1> QED
  BY <1>1, <1>2, <1>3, PTL DEF Spec

\* However launchers, timeouts, reloads of the limit, lost processes and exits
\* interleave: the shared counters count exactly the processes that are active
\* and in a phase, workers have distinct slots, and as long as no launch
\* outlives its timeout no more processes live than the largest limit admits.
THEOREM AdmissionStaysExact ==
    ASSUME LaunchAssumption
    PROVE  Spec => []AdmissionExact
<1>1. Init => IInv
  BY InitStep
<1>2. IInv /\ [Next]_vars => IInv'
  BY NextStep
<1>3. IInv => AdmissionExact
  BY BoundFollows DEF IInv, AdmissionExact
<1> QED
  BY <1>1, <1>2, <1>3, PTL DEF Spec

=============================================================================
