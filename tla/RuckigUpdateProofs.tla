------------------------- MODULE RuckigUpdateProofs -------------------------
(***************************************************************************)
(* Proofs about RuckigUpdate, for every set of plans and states, every     *)
(* solver that meets the assumptions, and every number of candidates.      *)
(*                                                                         *)
(* Every update has one of three outcomes (UpdateOutcome): it is refused,  *)
(* it publishes a solved trajectory for the caller's plan and state, or it *)
(* follows a valid incumbent.  What the output promises follows from that; *)
(* what the search promises needs the effect of each action on the engine. *)
(*                                                                         *)
(* The last part is WaypointPath: on a line, with any plan and any pace of *)
(* the candidates (OnALine), the machine comes to every stop, in order.    *)
(* The way to a stop grows with its number (WayGrows), so the section a    *)
(* time falls into counts the stops within reach (SectionCounts), and a    *)
(* stop passed within a cycle is where the machine stands at its end       *)
(* (PassedIsHere).  Each update keeps the history up with the trajectory   *)
(* it samples.  Facts about all numbers are proved by the least            *)
(* counterexample (LeastNatural).                                          *)
(***************************************************************************)
EXTENDS WaypointPath, TLAPS, FiniteSetTheorems

-----------------------------------------------------------------------------
(* The candidate the engine keeps.                                         *)

\* A nonempty set of natural numbers has a least element.
LEMMA LeastNatural ==
  ASSUME NEW S \in SUBSET Nat, S # {}
  PROVE  \E m \in S : \A n \in S : m <= n
<1> DEFINE Below == {0 .. n : n \in S}
           F == FiniteSubsetsOf(Nat)
           R == StrictSubsetOrdering(Nat)
<1>1. Below \subseteq F /\ Below # {}
  <2>1. \A n \in S : 0 .. n \in F
    BY FS_Interval DEF FiniteSubsetsOf
  <2> QED BY <2>1
<1>2. IsWellFoundedOn(R, F)
  BY FS_StrictSubsetOrderingWellFounded
<1>3. \E b \in Below : \A c \in Below : ~ (<<c, b>> \in R)
  <2> HIDE DEF Below, F, R
  <2> QED BY <1>1, <1>2, WFMin
<1>4. PICK m \in S : \A n \in S : ~ (<<0 .. n, 0 .. m>> \in R)
  BY <1>3
<1>5. ASSUME NEW n \in S, n < m PROVE FALSE
  <2>1. 0 .. n \subseteq 0 .. m /\ 0 .. n # 0 .. m
    BY <1>5
  <2>2. <<0 .. n, 0 .. m>> \in R
    BY <2>1 DEF StrictSubsetOrdering
  <2> QED BY <1>4, <2>2
<1> QED BY <1>5

\* If a candidate improves, the one kept improves and none beats it.
LEMMA BestOfImproves ==
  ASSUME NEW p \in Plans, NEW s \in States,
         NEW K \in SUBSET Candidates, NEW bound \in Nat,
         Improving(p, s, K, bound) # {}
  PROVE  /\ BestOf(p, s, K, bound) \in Improving(p, s, K, bound)
         /\ \A k \in Improving(p, s, K, bound) :
              Duration(p, s, BestOf(p, s, K, bound)) <= Duration(p, s, k)
<1> DEFINE I == Improving(p, s, K, bound)
           D == {Duration(p, s, k) : k \in I}
<1>1. I \subseteq Candidates /\ \A k \in I : Duration(p, s, k) \in Nat
  BY DurationAssumption DEF Improving, Infeasible
<1>2. I \subseteq Nat
  BY <1>1, BoundAssumption DEF Candidates
<1>3. PICK d \in D : \A e \in D : d <= e
  <2>1. D \in SUBSET Nat /\ D # {}
    BY <1>1
  <2> HIDE DEF D
  <2> QED BY <2>1, LeastNatural
<1> DEFINE L == {k \in I : Duration(p, s, k) = d}
<1>4. PICK k \in L : \A j \in L : k <= j
  <2>1. L \in SUBSET Nat /\ L # {}
    BY <1>2, <1>3
  <2> HIDE DEF L
  <2> QED BY <2>1, LeastNatural
<1>5. \A j \in I : \/ Duration(p, s, k) < Duration(p, s, j)
                   \/ Duration(p, s, k) = Duration(p, s, j) /\ k <= j
  BY <1>1, <1>3, <1>4
<1>6. /\ BestOf(p, s, K, bound) \in I
      /\ \A j \in I :
           \/ Duration(p, s, BestOf(p, s, K, bound)) < Duration(p, s, j)
           \/ /\ Duration(p, s, BestOf(p, s, K, bound)) = Duration(p, s, j)
              /\ BestOf(p, s, K, bound) <= j
  BY <1>4, <1>5 DEF BestOf
<1> QED BY <1>1, <1>6

\* What a search publishes is a solved trajectory, shorter than the bound.
LEMMA BestIsSolved ==
  ASSUME NEW p \in Plans, NEW s \in States,
         NEW K \in SUBSET Candidates, NEW bound \in 0 .. Horizon,
         Improving(p, s, K, bound) # {},
         NEW tr, tr = TrajectoryOf(p, s, BestOf(p, s, K, bound))
  PROVE  /\ tr \in Trajectories
         /\ tr.plan = p
         /\ tr.start = s
         /\ Solved(tr)
         /\ tr.duration < bound
<1> DEFINE k == BestOf(p, s, K, bound)
<1>1. k \in Improving(p, s, K, bound)
  BY BestOfImproves, BoundAssumption
<1>2. k \in Candidates /\ Duration(p, s, k) \in 0 .. Horizon
      /\ Duration(p, s, k) < bound
  BY <1>1, DurationAssumption, BoundAssumption DEF Improving, Infeasible
<1> HIDE DEF k
<1>3. tr = [plan |-> p, start |-> s, candidate |-> k,
            duration |-> Duration(p, s, k)]
  BY DEF TrajectoryOf, k
<1> QED BY <1>2, <1>3 DEF Trajectories, Solved

\* So is what the solver alone finds.
LEMMA TargetIsSolved ==
  ASSUME NEW p \in Plans, NEW s \in States,
         Duration(p, s, 1) # Infeasible,
         NEW tr, tr = TrajectoryOf(p, s, 1)
  PROVE  tr \in Trajectories /\ tr.plan = p /\ tr.start = s /\ Solved(tr)
<1>1. 1 \in Candidates /\ Duration(p, s, 1) \in 0 .. Horizon
  BY DurationAssumption, BoundAssumption DEF Candidates, Infeasible
<1> QED BY <1>1 DEF TrajectoryOf, Trajectories, Solved

-----------------------------------------------------------------------------
(* The outcomes of an update.                                              *)

Refused ==
  \E e \in Errors, v, i \in BOOLEAN : (v => output.valid) /\ Refuse(e, v, i)

Published ==
  \E tr \in Trajectories, i \in BOOLEAN :
    /\ tr.plan = input.plan /\ tr.start = input.state /\ Solved(tr)
    /\ Publish(tr, i)

\* An incumbent is followed because its input has not changed, or because the
\* budget of a plan without waypoints ran out.
Followed ==
  \E i \in BOOLEAN :
    /\ output.valid /\ current.initialized
    /\ \/ InputMatchesCurrent
       \/ i /\ ~HasWaypoints(input.plan)
    /\ Follow(i)

\* A fresh optimisation ends at one of the candidates.
LEMMA LastIsCandidate ==
  ASSUME NEW p \in Plans, NEW s \in States
  PROVE  LastCandidate(p, s) \in Candidates
BY BoundAssumption DEF LastCandidate, Candidates

\* A run is only interrupted after one of the candidates it was to evaluate.
LEMMA StopIsCandidate ==
  ASSUME NEW from \in Nat \ {0}, NEW last \in Candidates,
         NEW stop \in Interruptions(from, last)
  PROVE  stop \in from .. last /\ stop \in Candidates
BY BoundAssumption DEF Interruptions, Candidates

\* What a resumed search has to beat is a time.
LEMMA BoundIsTime ==
  ASSUME TypeOK
  PROVE  Remaining \in 0 .. Horizon /\ ResumeBound \in 0 .. Horizon
<1>1. /\ output.trajectory.duration \in 0 .. Horizon
      /\ output.time \in 0 .. Horizon
      /\ engine.best \in 0 .. Horizon
  BY DEF TypeOK, Inputs, Searches, Outputs, Trajectories
<1> QED BY <1>1, BoundAssumption DEF Remaining, ResumeBound

\* A cleared engine has nothing to resume.
LEMMA ClearedType ==
  ASSUME TypeOK
  PROVE  /\ Cleared(engine) \in Searches
         /\ ~Cleared(engine).active /\ ~Cleared(engine).complete
<1>1. 1 \in 1 .. NumCandidates + 1 /\ Horizon \in 0 .. Horizon
  BY BoundAssumption
<1> QED BY <1>1 DEF TypeOK, Inputs, Searches, Outputs, Cleared

\* A fresh optimisation fails and leaves nothing to resume, or publishes the
\* best it found.
LEMMA StartOutcome ==
  ASSUME TypeOK, NEW stop \in Candidates, NEW i \in BOOLEAN, StartRun(stop, i)
  PROVE  \/ /\ Refused
            /\ engine' \in Searches /\ ~engine'.active /\ ~engine'.complete
         \/ /\ Published
            /\ engine' = EngineAt(input.plan, stop, i,
                                  output'.trajectory.duration)
<1> DEFINE p == input.plan
           s == input.state
           K == 1 .. stop
           best == TrajectoryOf(p, s, BestOf(p, s, K, Horizon))
<1>1. p \in Plans /\ s \in States /\ K \in SUBSET Candidates
      /\ Horizon \in 0 .. Horizon
  BY BoundAssumption DEF TypeOK, Inputs, Candidates
<1>2. CASE /\ Improving(p, s, K, Horizon) # {}
           /\ engine' = EngineAt(p, stop, i, best.duration)
           /\ Publish(best, i)
  <2>1. /\ best \in Trajectories /\ best.plan = p /\ best.start = s
        /\ Solved(best)
    <3> HIDE DEF p, s, K
    <3> QED BY <1>1, <1>2, BestIsSolved
  <2> HIDE DEF best
  <2>2. Published
    BY <1>2, <2>1 DEF Published
  <2>3. output'.trajectory = best
    BY <1>2 DEF Publish, Sampled
  <2> QED BY <1>2, <2>2, <2>3
<1>3. CASE /\ engine' = [Cleared(engine) EXCEPT !.identity = p]
           /\ Refuse(IF i THEN "EXECUTION_TIME" ELSE "ERROR", FALSE, i)
  <2>1. Refused
    BY <1>3 DEF Refused, Errors
  <2>2. engine' \in Searches /\ ~engine'.active /\ ~engine'.complete
    BY <1>1, <1>3, ClearedType DEF Searches
  <2> QED BY <2>1, <2>2
<1> QED BY <1>2, <1>3 DEF StartRun

\* A resumed search never fails: it publishes something shorter than what
\* remains of the incumbent, or the incumbent is followed.
LEMMA ResumeOutcome ==
  ASSUME TypeOK, ~NeedsCalculation,
         NEW stop \in Candidates, NEW i \in BOOLEAN, ResumeRun(stop, i)
  PROVE  /\ \/ /\ Published
               /\ output'.trajectory.duration = engine'.best
               /\ engine'.best < Remaining
            \/ /\ Follow(i)
               /\ engine'.best = ResumeBound \/ Remaining <= engine'.best
         /\ engine' = EngineAt(input.plan, stop, i, engine'.best)
         /\ engine'.best \in 0 .. Horizon
<1> DEFINE p == input.plan
           s == input.state
           K == engine.next .. stop
           new == TrajectoryOf(p, s, BestOf(p, s, K, ResumeBound))
<1>1. p \in Plans /\ s \in States
  BY DEF TypeOK, Inputs, Searches, Outputs
<1>2. K \in SUBSET Candidates
  <2>1. engine.next \in 1 .. NumCandidates + 1
    BY DEF TypeOK, Inputs, Searches, Outputs
  <2> QED BY <2>1, BoundAssumption DEF Candidates
<1>3. Remaining \in 0 .. Horizon /\ ResumeBound \in 0 .. Horizon
  BY BoundIsTime
<1>4. CASE /\ engine' = EngineAt(p, stop, i, ResumeBound)
           /\ Follow(i)
  <2>1. engine'.best = ResumeBound
    BY <1>4 DEF EngineAt
  <2> QED BY <1>3, <1>4, <2>1
<1>5. CASE /\ Improving(p, s, K, ResumeBound) # {}
           /\ engine' = EngineAt(p, stop, i, new.duration)
           /\ \/ WorthPublishing(new.duration) /\ Publish(new, i)
              \/ ~WorthPublishing(new.duration) /\ Follow(i)
  <2>1. /\ new \in Trajectories /\ new.plan = p /\ new.start = s
        /\ Solved(new)
    <3> HIDE DEF p, s, K
    <3> QED BY <1>1, <1>2, <1>3, <1>5, BestIsSolved
  <2> HIDE DEF new
  <2>2. engine'.best = new.duration /\ new.duration \in 0 .. Horizon
    BY <1>5, <2>1 DEF EngineAt, Trajectories
  <2>3. CASE WorthPublishing(new.duration) /\ Publish(new, i)
    <3>1. Published
      BY <2>1, <2>3 DEF Published
    <3>2. output'.trajectory = new
      BY <2>3 DEF Publish, Sampled
    <3> QED BY <1>5, <2>2, <2>3, <3>1, <3>2 DEF WorthPublishing
  <2>4. CASE ~WorthPublishing(new.duration) /\ Follow(i)
    <3>1. Remaining <= engine'.best
      BY <1>3, <2>2, <2>4 DEF WorthPublishing
    <3> QED BY <1>5, <2>2, <2>4, <3>1
  <2> QED BY <1>5, <2>3, <2>4
<1> QED BY <1>4, <1>5 DEF ResumeRun

\* The searches a cycle may run, and where each may stop.
\* A fresh optimisation stops at a candidate, complete or interrupted.
LEMMA StartRuns ==
  ASSUME TypeOK, StartWaypoints
  PROVE  \E stop \in Candidates, i \in BOOLEAN : StartRun(stop, i)
<1>1. input.plan \in Plans /\ input.state \in States
  BY DEF TypeOK, Inputs, Searches, Outputs
<1>2. LastCandidate(input.plan, input.state) \in Candidates
  BY <1>1, LastIsCandidate
<1>3. \A stop \in Interruptions(1, LastCandidate(input.plan, input.state)) :
        stop \in Candidates
  BY <1>2, StopIsCandidate
<1> QED BY <1>2, <1>3 DEF StartWaypoints

\* A resumed search stops at a candidate it had not evaluated before.
LEMMA ResumeRuns ==
  ASSUME TypeOK, UpdateResume
  PROVE  \E stop \in Candidates, i \in BOOLEAN : ResumeRun(stop, i)
<1>1. engine.next \in Nat \ {0} /\ NumCandidates \in Candidates
  BY BoundAssumption DEF TypeOK, Inputs, Searches, Outputs, Candidates
<1>2. \A stop \in Interruptions(engine.next, NumCandidates) :
        stop \in Candidates
  BY <1>1, StopIsCandidate
<1> QED BY <1>1, <1>2 DEF UpdateResume

\* What the solver alone found for the caller's input.
LEMMA TargetOutcome ==
  ASSUME TypeOK, Duration(input.plan, input.state, 1) # Infeasible,
         Publish(TrajectoryOf(input.plan, input.state, 1), FALSE)
  PROVE  Published
<1> DEFINE tr == TrajectoryOf(input.plan, input.state, 1)
<1>1. input.plan \in Plans /\ input.state \in States
  BY DEF TypeOK, Inputs, Searches, Outputs
<1>2. /\ tr \in Trajectories /\ tr.plan = input.plan
      /\ tr.start = input.state /\ Solved(tr)
  BY <1>1, TargetIsSolved
<1>3. Publish(tr, FALSE)
  OBVIOUS
<1> HIDE DEF tr
<1> QED BY <1>2, <1>3 DEF Published

\* Every update is refused, publishes, or follows the incumbent.
LEMMA UpdateOutcome ==
  ASSUME TypeOK, Update
  PROVE  Refused \/ Published \/ Followed
<1> USE DEF Errors
<1>1. input.plan \in Plans /\ input.state \in States /\ output.valid \in BOOLEAN
      /\ Horizon \in 0 .. Horizon
  BY BoundAssumption DEF TypeOK, Inputs, Searches, Outputs
<1>2. CASE UpdateTarget
  <2>1. CASE \E e \in Errors : Refuse(e, FALSE, FALSE)
    BY <2>1 DEF Refused
  <2> QED BY <1>2, <2>1, TargetOutcome DEF UpdateTarget
<1>3. CASE UpdateTargetInterruptible
  <2>1. CASE \E e \in Errors : Refuse(e, output.valid, FALSE)
    BY <1>1, <2>1 DEF Refused
  <2>2. CASE HasIncumbent /\ Follow(TRUE)
    BY <1>3, <2>2 DEF UpdateTargetInterruptible, HasIncumbent, Followed
  <2>3. CASE /\ Duration(input.plan, input.state, 1) # Infeasible
             /\ Publish(TrajectoryOf(input.plan, input.state, 1), FALSE)
    BY <2>3, TargetOutcome
  <2> QED BY <1>3, <2>1, <2>2, <2>3 DEF UpdateTargetInterruptible
<1>4. CASE UpdateWaypoints
  <2> DEFINE K == 1 .. LastCandidate(input.plan, input.state)
             tr == TrajectoryOf(input.plan, input.state,
                                BestOf(input.plan, input.state, K, Horizon))
  <2>1. K \in SUBSET Candidates
    BY <1>1, LastIsCandidate, BoundAssumption DEF Candidates
  <2>2. CASE \E e \in Errors, v \in {output.valid, FALSE} : Refuse(e, v, FALSE)
    BY <1>1, <2>2 DEF Refused
  <2>3. CASE /\ Improving(input.plan, input.state, K, Horizon) # {}
             /\ Publish(tr, FALSE)
    <3>1. /\ tr \in Trajectories /\ tr.plan = input.plan
          /\ tr.start = input.state /\ Solved(tr)
      <4> HIDE DEF K
      <4> QED BY <1>1, <2>1, <2>3, BestIsSolved
    <3> HIDE DEF tr
    <3> QED BY <2>3, <3>1 DEF Published
  <2> QED BY <1>4, <2>2, <2>3 DEF UpdateWaypoints
<1>5. CASE RefuseWaypoints
  BY <1>1, <1>5 DEF RefuseWaypoints, Refused
<1>6. CASE StartWaypoints
  BY <1>6, StartRuns, StartOutcome
<1>7. CASE UpdateFollow
  BY <1>1, <1>7 DEF UpdateFollow, NeedsCalculation, InputMatchesCurrent, Followed
<1>8. CASE UpdateResume
  <2>1. output.valid /\ current.initialized /\ InputMatchesCurrent
    BY <1>1, <1>8 DEF UpdateResume, NeedsCalculation, InputMatchesCurrent
  <2>2. Published \/ \E i \in BOOLEAN : Follow(i)
    BY <1>8, ResumeRuns, ResumeOutcome DEF UpdateResume
  <2> QED BY <2>1, <2>2 DEF Followed
<1> QED BY <1>2, <1>3, <1>4, <1>5, <1>6, <1>7, <1>8 DEF Update

-----------------------------------------------------------------------------
(* Types.                                                                  *)

\* One cycle later is a time.
LEMMA TickIsTime ==
  ASSUME NEW t \in 0 .. Horizon
  PROVE  /\ Tick(t) \in t .. Horizon
         /\ Tick(t) <= t + DeltaTime
BY BoundAssumption DEF Tick

\* Sampling a trajectory one cycle further gives a well-formed output.
LEMMA SampledType ==
  ASSUME NEW tr \in Trajectories, NEW t \in 0 .. Horizon,
         NEW section, NEW new \in BOOLEAN, NEW i \in BOOLEAN
  PROVE  Sampled(tr, t, section, new, i) \in Outputs
<1>1. Tick(t) \in 0 .. Horizon
  BY TickIsTime, BoundAssumption
<1>2. StateAt(tr, Tick(t)) \in States /\ SectionAt(tr, Tick(t)) \in Nat
  BY <1>1, StateAssumption, SectionAssumption
<1>3. (SectionAt(tr, Tick(t)) > section) \in BOOLEAN
  OBVIOUS
<1> QED BY <1>1, <1>2, <1>3 DEF Sampled, Outputs

\* Each of the three outcomes of an update leaves well-formed results.
LEMMA OutcomeTypes ==
  ASSUME TypeOK, Refused \/ Published \/ Followed
  PROVE  /\ output' \in Outputs
         /\ current' \in [initialized: BOOLEAN, plan: Plans, state: States,
                          budget: Budgets]
         /\ result' \in OkResults \cup Errors
<1>1. 0 \in 0 .. Horizon
  BY BoundAssumption
<1>2. CASE Refused
  BY <1>2 DEF Refused, Refuse, TypeOK, Inputs, Searches, Outputs
<1>3. ASSUME NEW tr \in Trajectories, NEW t \in 0 .. Horizon
      PROVE  StateAt(tr, Tick(t)) \in States /\ ResultAt(tr, Tick(t)) \in OkResults
  <2>1. Tick(t) \in 0 .. Horizon
    BY TickIsTime, BoundAssumption
  <2> QED BY <2>1, StateAssumption DEF ResultAt, OkResults
<1>4. CASE Published
  <2>1. PICK tr \in Trajectories, i \in BOOLEAN : Publish(tr, i)
    BY <1>4 DEF Published
  <2> QED BY <1>1, <1>3, <2>1, SampledType DEF Publish, TypeOK, Inputs, Searches, Outputs
<1>5. CASE Followed
  <2>1. PICK i \in BOOLEAN : Follow(i)
    BY <1>5 DEF Followed
  <2>2. output.trajectory \in Trajectories /\ output.time \in 0 .. Horizon
    BY DEF TypeOK, Inputs, Searches, Outputs
  <2> QED BY <1>3, <2>1, <2>2, SampledType DEF Follow, TypeOK, Inputs, Searches, Outputs
<1> QED BY <1>2, <1>4, <1>5

-----------------------------------------------------------------------------
(* What an update does to the search.                                      *)

SearchStopped == engine' \in Searches /\ ~engine'.active /\ ~engine'.complete

SearchStarted ==
  /\ Published /\ HasWaypoints(input.plan)
  /\ \E stop \in Candidates, i \in BOOLEAN :
       engine' = EngineAt(input.plan, stop, i, output'.trajectory.duration)

SearchResumed ==
  /\ ~NeedsCalculation /\ CanContinue
  /\ \E stop \in Candidates, i \in BOOLEAN : ResumeRun(stop, i)

SearchKept ==
  /\ engine' = engine
  /\ Refused \/ (output.valid /\ \E i \in BOOLEAN : Follow(i))

\* What an update does to the search, and which of the outcomes goes with it.
LEMMA SearchOutcome ==
  ASSUME TypeOK, Update
  PROVE  SearchStopped \/ SearchStarted \/ SearchResumed \/ SearchKept
<1>1. ASSUME DropEngine PROVE SearchStopped
  BY <1>1, ClearedType DEF DropEngine, SearchStopped
<1>2. CASE UpdateTarget \/ UpdateTargetInterruptible \/ UpdateWaypoints
  BY <1>1, <1>2
     DEF UpdateTarget, UpdateTargetInterruptible, UpdateWaypoints
<1>3. CASE RefuseWaypoints
  <2>1. output.valid \in BOOLEAN
    BY DEF TypeOK, Outputs
  <2>2. CASE \E v \in {output.valid, FALSE} :
               Refuse("INVALID_INPUT", v, FALSE) /\ engine' = engine
    BY <2>1, <2>2 DEF SearchKept, Refused, Errors
  <2> QED BY <1>1, <1>3, <2>2 DEF RefuseWaypoints
<1>4. CASE StartWaypoints
  <2>1. PICK stop \in Candidates, i \in BOOLEAN : StartRun(stop, i)
    BY <1>4, StartRuns
  <2> QED
    BY <1>4, <2>1, StartOutcome
       DEF StartWaypoints, EngineKept, SearchStopped, SearchStarted
<1>5. CASE UpdateFollow
  BY <1>1, <1>5 DEF UpdateFollow, NeedsCalculation, SearchKept, TypeOK, Outputs
<1>6. CASE UpdateResume
  BY <1>6, ResumeRuns DEF UpdateResume, SearchResumed
<1> QED BY <1>2, <1>3, <1>4, <1>5, <1>6 DEF Update

\* Each of these leaves a well-formed engine.
LEMMA SearchType ==
  ASSUME TypeOK, Update
  PROVE  engine' \in Searches
<1>1. ASSUME NEW stop \in Candidates, NEW i \in BOOLEAN,
             NEW best \in 0 .. Horizon
      PROVE  EngineAt(input.plan, stop, i, best) \in Searches
  BY BoundAssumption DEF EngineAt, Searches, Candidates, TypeOK, Inputs
<1>2. CASE SearchStarted
  <2>1. output'.trajectory.duration \in 0 .. Horizon
    BY <1>2, OutcomeTypes DEF SearchStarted, Outputs, Trajectories
  <2> QED BY <1>1, <1>2, <2>1 DEF SearchStarted
<1>3. CASE SearchResumed
  BY <1>1, <1>3, ResumeOutcome DEF SearchResumed
<1>4. CASE SearchStopped \/ SearchKept
  BY <1>4 DEF SearchStopped, SearchKept, TypeOK
<1> QED BY <1>2, <1>3, <1>4, SearchOutcome

\* Every variable keeps its type: in particular no infeasible candidate is
\* ever published and the search never runs past its last candidate.
THEOREM TypeCorrect == Spec => []TypeOK
<1>1. Init => TypeOK
  BY BoundAssumption DEF Init, TypeOK, Inputs, Searches, Outputs, Trajectories,
     Budgets, Candidates
<1>2. TypeOK /\ [Next]_vars => TypeOK'
  <2> SUFFICES ASSUME TypeOK, [Next]_vars PROVE TypeOK'
    OBVIOUS
  <2> USE DEF TypeOK
  <2>1. CASE Update
    <3>1. BeginUpdate
      BY <2>1 DEF Update, UpdateTarget, UpdateTargetInterruptible,
         UpdateWaypoints, RefuseWaypoints, StartWaypoints, UpdateFollow,
         UpdateResume
    <3>2. /\ input' \in Inputs /\ call' = "update" /\ passed' = FALSE
          /\ moves' \in 0 .. MaxMoves
      BY <3>1, BoundAssumption DEF BeginUpdate
    <3> QED BY <2>1, <3>2, UpdateOutcome, OutcomeTypes, SearchType
  <2>2. CASE PassToInput
    BY <2>2 DEF PassToInput, OnInput, Inputs, Outputs
  <2>3. CASE \E s \in States : SetState(s)
    BY <2>3, BoundAssumption DEF SetState, Move, OnInput, Inputs
  <2>4. CASE \E p \in Plans : SetPlan(p)
    BY <2>4, BoundAssumption DEF SetPlan, Move, OnInput, Inputs
  <2>5. CASE \E b \in Budgets : SetBudget(b)
    BY <2>5, BoundAssumption DEF SetBudget, Move, OnInput, Inputs
  <2>6. CASE Calculate
    <3>1. engine' \in Searches
      BY <2>6, ClearedType DEF Calculate, DropEngine
    <3>2. result' \in OkResults \cup Errors
      BY <2>6 DEF Calculate, OkResults, Errors
    <3> QED BY <2>6, <3>1, <3>2, BoundAssumption DEF Calculate, Move
  <2>7. CASE Reset
    <3>1. engine' \in Searches
      BY <2>7, ClearedType DEF Reset, DropEngine
    <3>2. moves' \in 0 .. MaxMoves /\ call' = "reset" /\ result' = "NONE"
      BY <2>7, BoundAssumption DEF Reset, Move
    <3>3. current' \in [initialized: BOOLEAN, plan: Plans, state: States,
                         budget: Budgets]
      BY <2>7 DEF Reset
    <3>4. UNCHANGED <<input, output, passed>>
      BY <2>7 DEF Reset
    <3> QED BY <3>1, <3>2, <3>3, <3>4
  <2>8. CASE UNCHANGED vars
    BY <2>8 DEF vars
  <2> QED
    BY <2>1, <2>2, <2>3, <2>4, <2>5, <2>6, <2>7, <2>8 DEF Next
<1> QED BY <1>1, <1>2, PTL DEF Spec

-----------------------------------------------------------------------------
(* The invariants of the loop.                                             *)

\* No update separates current_input from the trajectory that is followed.
LEMMA UpdateKeepsCommandedState ==
  ASSUME TypeOK, CommandedState, Update
  PROVE  CommandedState'
<1>1. CASE Refused
  BY <1>1 DEF Refused, Refuse, CommandedState, TypeOK, Outputs
<1>2. CASE Published
  <2>1. PICK tr \in Trajectories, i \in BOOLEAN :
          tr.plan = input.plan /\ Solved(tr) /\ Publish(tr, i)
    BY <1>2 DEF Published
  <2> QED BY <2>1 DEF Publish, Sampled, CommandedState
<1>3. CASE Followed
  <2>1. PICK i \in BOOLEAN : Follow(i)
    BY <1>3 DEF Followed
  <2>2. /\ output.trajectory.plan = current.plan
        /\ Solved(output.trajectory)
    BY <1>3 DEF Followed, CommandedState
  <2>3. /\ output'.trajectory = output.trajectory
        /\ output'.state = StateAt(output'.trajectory, output'.time)
        /\ output'.section = SectionAt(output'.trajectory, output'.time)
    BY <2>1 DEF Follow, Sampled
  <2>4. current'.plan = current.plan /\ current'.state = output'.state
    BY <2>1 DEF Follow, Sampled, TypeOK
  <2> QED BY <2>2, <2>3, <2>4 DEF CommandedState
<1> QED BY <1>1, <1>2, <1>3, UpdateOutcome

\* No update leaves a search that belongs to another plan.
LEMMA UpdateKeepsResumableSearch ==
  ASSUME TypeOK, ResumableSearch, Update
  PROVE  ResumableSearch'
<1>1. ASSUME Published
      PROVE  current'.initialized /\ current'.plan = input.plan
  BY <1>1 DEF Published, Publish
<1>2. ASSUME Refused \/ \E i \in BOOLEAN : Follow(i)
      PROVE  /\ current'.initialized = current.initialized
             /\ current'.plan = current.plan
  BY <1>2 DEF Refused, Refuse, Follow, TypeOK
<1>3. ASSUME NEW stop \in Candidates, NEW i, NEW best,
             engine' = EngineAt(input.plan, stop, i, best)
      PROVE  engine'.found /\ engine'.identity = input.plan /\ engine'.next > 1
  BY <1>3, BoundAssumption DEF EngineAt, Candidates
<1>4. CASE SearchStopped
  BY <1>4 DEF SearchStopped, ResumableSearch
<1>5. CASE SearchStarted
  BY <1>1, <1>3, <1>5 DEF SearchStarted, ResumableSearch
<1>6. CASE SearchResumed
  <2>1. /\ current.initialized /\ input.plan = current.plan
        /\ HasWaypoints(input.plan)
    BY <1>6 DEF SearchResumed, NeedsCalculation, InputMatchesCurrent, CanContinue
  <2>2. current'.initialized /\ current'.plan = input.plan
    BY <1>1, <1>2, <1>6, <2>1, ResumeOutcome DEF SearchResumed
  <2>3. engine'.found /\ engine'.identity = input.plan /\ engine'.next > 1
    BY <1>3, <1>6, ResumeOutcome DEF SearchResumed
  <2> QED BY <2>1, <2>2, <2>3 DEF ResumableSearch
<1>7. CASE SearchKept
  BY <1>2, <1>7 DEF SearchKept, ResumableSearch
<1> QED BY <1>4, <1>5, <1>6, <1>7, SearchOutcome

\* No update keeps for itself a better candidate than it follows.
LEMMA UpdateKeepsNeverSlower ==
  ASSUME TypeOK, NeverSlowerThanBest, ResumableSearch, Update
  PROVE  NeverSlowerThanBest'
<1>1. /\ output.time \in 0 .. Horizon /\ output.valid \in BOOLEAN
      /\ output.trajectory.duration \in 0 .. Horizon
      /\ engine.best \in 0 .. Horizon
      /\ Remaining \in 0 .. Horizon /\ ResumeBound \in 0 .. Horizon
  BY BoundIsTime DEF TypeOK, Outputs, Searches, Trajectories
<1>2. output.trajectory.duration <= output.time + Remaining
  BY <1>1, BoundAssumption DEF Remaining
<1>3. ASSUME Published
      PROVE  /\ output'.time \in 0 .. Horizon
             /\ output'.trajectory.duration \in 0 .. Horizon
  BY <1>3, OutcomeTypes DEF Outputs, Trajectories
<1>4. ASSUME NEW i \in BOOLEAN, Follow(i)
      PROVE  /\ output'.trajectory = output.trajectory
             /\ output'.time >= output.time /\ output'.time \in 0 .. Horizon
  BY <1>1, <1>4, TickIsTime, BoundAssumption DEF Follow, Sampled
<1>5. CASE SearchStopped
  BY <1>5 DEF SearchStopped, NeverSlowerThanBest
<1>6. CASE SearchStarted
  <2>1. engine'.best = output'.trajectory.duration
    BY <1>6 DEF SearchStarted, EngineAt
  <2> QED
    BY <1>3, <1>6, <2>1, BoundAssumption DEF SearchStarted, NeverSlowerThanBest
<1>7. CASE SearchResumed
  <2>1. PICK stop \in Candidates, i \in BOOLEAN : ResumeRun(stop, i)
    BY <1>7 DEF SearchResumed
  <2>2. engine'.best \in 0 .. Horizon
    BY <1>7, <2>1, ResumeOutcome DEF SearchResumed
  <2>3. CASE Published /\ output'.trajectory.duration = engine'.best
    BY <1>3, <2>2, <2>3, BoundAssumption DEF NeverSlowerThanBest
  <2>4. CASE Follow(i) /\ Remaining <= engine'.best
    BY <1>1, <1>2, <1>4, <2>2, <2>4, BoundAssumption DEF NeverSlowerThanBest
  <2>5. CASE Follow(i) /\ engine'.best = ResumeBound
    <3>1. engine.active /\ output.valid
      BY <1>7 DEF SearchResumed, CanContinue, NeedsCalculation
    <3>2. output.trajectory.duration <= output.time + engine.best
      BY <3>1 DEF NeverSlowerThanBest
    <3>3. output.trajectory.duration <= output.time + ResumeBound
      BY <1>2, <3>2 DEF ResumeBound
    <3> QED
      BY <1>1, <1>4, <2>5, <3>3, BoundAssumption DEF NeverSlowerThanBest
  <2> QED BY <1>7, <2>1, <2>3, <2>4, <2>5, ResumeOutcome DEF SearchResumed
<1>8. CASE SearchKept
  <2>1. CASE Refused
    <3>1. /\ output'.trajectory = output.trajectory
          /\ output'.time = output.time
          /\ output'.valid => output.valid
      BY <2>1 DEF Refused, Refuse, TypeOK, Outputs
    <3> QED BY <1>8, <3>1 DEF SearchKept, NeverSlowerThanBest
  <2>2. CASE output.valid /\ \E i \in BOOLEAN : Follow(i)
    BY <1>1, <1>4, <1>8, <2>2, BoundAssumption
       DEF SearchKept, NeverSlowerThanBest
  <2> QED BY <1>8, <2>1, <2>2 DEF SearchKept
<1> QED BY <1>5, <1>6, <1>7, <1>8, SearchOutcome

\* Nothing the caller does between two updates breaks the loop invariant.
LEMMA CallerKeepsLoopInv ==
  ASSUME LoopInv,
         \/ PassToInput \/ Calculate \/ Reset
         \/ \E s \in States : SetState(s)
         \/ \E p \in Plans : SetPlan(p)
         \/ \E b \in Budgets : SetBudget(b)
  PROVE  CommandedState' /\ ResumableSearch' /\ NeverSlowerThanBest'
<1> USE DEF LoopInv, CommandedState, ResumableSearch, NeverSlowerThanBest
<1>1. CASE UNCHANGED <<current, engine, output>>
  BY <1>1
<1>2. CASE DropEngine /\ UNCHANGED <<current, output>>
  BY <1>2, ClearedType DEF DropEngine
<1>3. CASE Reset
  <2>1. ~current'.initialized /\ output' = output
    BY <1>3 DEF Reset, TypeOK
  <2>2. ~engine'.active /\ ~engine'.complete
    BY <1>3, ClearedType DEF Reset, DropEngine
  <2> QED BY <2>1, <2>2
<1> QED
  BY <1>1, <1>2, <1>3
     DEF PassToInput, SetState, SetPlan, SetBudget, OnInput, Calculate

\* The loop invariant holds in every state.
THEOREM LoopInvariant == Spec => []LoopInv
<1>1. Init => LoopInv
  <2> SUFFICES ASSUME Init PROVE LoopInv
    OBVIOUS
  <2>1. TypeOK
    BY BoundAssumption DEF Init, TypeOK, Inputs, Searches, Outputs,
       Trajectories, Budgets, Candidates
  <2> QED
    BY <2>1 DEF Init, LoopInv, CommandedState, ResumableSearch,
       NeverSlowerThanBest
<1>2. TypeOK' /\ LoopInv /\ [Next]_vars => LoopInv'
  <2> SUFFICES ASSUME TypeOK', LoopInv, [Next]_vars PROVE LoopInv'
    OBVIOUS
  <2>1. CASE Update
    BY <2>1, UpdateKeepsCommandedState, UpdateKeepsResumableSearch,
       UpdateKeepsNeverSlower DEF LoopInv
  <2>2. CASE UNCHANGED vars
    BY <2>2 DEF vars, LoopInv, CommandedState, ResumableSearch,
       NeverSlowerThanBest
  <2> QED BY <2>1, <2>2, CallerKeepsLoopInv DEF Next, LoopInv
<1> QED BY <1>1, <1>2, TypeCorrect, PTL DEF Spec

\* current_input and the output always describe the same trajectory, however
\* plans, budgets, failures and offline calculations are interleaved.
THEOREM CommandedStateHolds == Spec => []CommandedState
<1>1. LoopInv => CommandedState
  BY DEF LoopInv
<1> QED BY <1>1, LoopInvariant, PTL

\* Only a search for the plan being followed is ever resumed.
THEOREM ResumableSearchHolds == Spec => []ResumableSearch
<1>1. LoopInv => ResumableSearch
  BY DEF LoopInv
<1> QED BY <1>1, LoopInvariant, PTL

\* What the search found is never better than what the machine follows.
THEOREM NeverSlowerThanBestHolds == Spec => []NeverSlowerThanBest
<1>1. LoopInv => NeverSlowerThanBest
  BY DEF LoopInv
<1> QED BY <1>1, LoopInvariant, PTL

-----------------------------------------------------------------------------
(* What a step may not do.                                                 *)

\* Only an update reports success, and what it publishes or follows is known.
LEMMA SuccessfulUpdate ==
  ASSUME TypeOK, Next, Succeeds
  PROVE  Update /\ (Published \/ Followed)
<1>1. Update
  BY DEF Next, Succeeds, Updated, PassToInput, SetState, SetPlan, SetBudget,
     OnInput, Calculate, Reset
<1>2. ~Refused
  BY DEF Refused, Refuse, Succeeds, OkResults, Errors
<1> QED BY <1>1, <1>2, UpdateOutcome

\* A successful update follows the caller's plan, or says that it does not.
THEOREM HonoursInputHolds == Spec => HonoursInput
<1>1. ASSUME LoopInv, Next, Succeeds
      PROVE  \/ output'.trajectory.plan = input.plan
             \/ /\ output'.interrupted
                /\ ~output'.newCalculation
                /\ ~HasWaypoints(input.plan)
  <2>1. CASE Published
    BY <2>1 DEF Published, Publish, Sampled
  <2>2. CASE Followed
    <3>1. PICK i \in BOOLEAN :
            /\ output.valid /\ current.initialized
            /\ InputMatchesCurrent \/ (i /\ ~HasWaypoints(input.plan))
            /\ Follow(i)
      BY <2>2 DEF Followed
    <3>2. /\ output'.trajectory = output.trajectory
          /\ output'.interrupted = i /\ output'.newCalculation = FALSE
      BY <3>1 DEF Follow, Sampled
    <3> QED
      BY <1>1, <3>1, <3>2 DEF LoopInv, CommandedState, InputMatchesCurrent
  <2> QED BY <1>1, <2>1, <2>2, SuccessfulUpdate DEF LoopInv
<1>2. LoopInv /\ [Next]_vars =>
        [Succeeds => \/ output'.trajectory.plan = input.plan
                     \/ /\ output'.interrupted
                        /\ ~output'.newCalculation
                        /\ ~HasWaypoints(input.plan)]_vars
  BY <1>1
<1> QED BY <1>2, LoopInvariant, PTL DEF Spec, HonoursInput

\* The commanded state never jumps for a caller that passes it back.
THEOREM NoJumpHolds == Spec => NoJump
<1>1. ASSUME LoopInv, Next, Succeeds, input.state = output.state
      PROVE  Near(output.state, output'.state)
  <2>1. ASSUME NEW tr \in Trajectories, NEW t \in 0 .. Horizon, Solved(tr)
        PROVE  Near(StateAt(tr, t), StateAt(tr, Tick(t)))
    BY <2>1, TickIsTime, StateAssumption
  <2>2. CASE Published
    <3>1. PICK tr \in Trajectories, i \in BOOLEAN :
            tr.start = input.state /\ Solved(tr) /\ Publish(tr, i)
      BY <2>2 DEF Published
    <3>2. 0 \in 0 .. Horizon
      BY BoundAssumption
    <3>3. output'.state = StateAt(tr, Tick(0)) /\ output.state = StateAt(tr, 0)
      BY <1>1, <3>1, <3>2, StateAssumption DEF Publish, Sampled
    <3> QED BY <2>1, <3>1, <3>2, <3>3
  <2>3. CASE Followed
    <3>1. PICK i \in BOOLEAN :
            output.valid /\ current.initialized /\ Follow(i)
      BY <2>3 DEF Followed
    <3>2. /\ output.trajectory \in Trajectories
          /\ output.time \in 0 .. Horizon
          /\ Solved(output.trajectory)
          /\ output.state = StateAt(output.trajectory, output.time)
      BY <1>1, <3>1 DEF LoopInv, TypeOK, Outputs, CommandedState
    <3>3. output'.state = StateAt(output.trajectory, Tick(output.time))
      BY <3>1 DEF Follow, Sampled
    <3> QED BY <2>1, <3>2, <3>3
  <2> QED BY <1>1, <2>2, <2>3, SuccessfulUpdate DEF LoopInv
<1>2. LoopInv /\ [Next]_vars =>
        [Succeeds /\ input.state = output.state =>
           Near(output.state, output'.state)]_vars
  BY <1>1
<1> QED BY <1>2, LoopInvariant, PTL DEF Spec, NoJump

\* Between publications time and section never move back.
THEOREM OnlyForwardHolds == Spec => OnlyForward
<1>1. ASSUME LoopInv, Next, Succeeds, ~output'.newCalculation
      PROVE  /\ output'.trajectory = output.trajectory
             /\ output'.time >= output.time
             /\ output'.section >= output.section
             /\ output'.sectionChanged = (output'.section # output.section)
  <2>1. ~Published
    BY <1>1 DEF Published, Publish, Sampled
  <2>2. PICK i \in BOOLEAN : output.valid /\ current.initialized /\ Follow(i)
    BY <1>1, <2>1, SuccessfulUpdate DEF LoopInv, Followed
  <2>3. /\ output.trajectory \in Trajectories
        /\ output.time \in 0 .. Horizon
        /\ output.section = SectionAt(output.trajectory, output.time)
    BY <1>1, <2>2 DEF LoopInv, TypeOK, Outputs, CommandedState
  <2>4. Tick(output.time) \in output.time .. Horizon
    BY <2>3, TickIsTime
  <2>5. /\ SectionAt(output.trajectory, output.time) \in Nat
        /\ SectionAt(output.trajectory, Tick(output.time)) \in Nat
        /\ SectionAt(output.trajectory, output.time)
             <= SectionAt(output.trajectory, Tick(output.time))
    BY <2>3, <2>4, BoundAssumption, SectionAssumption
  <2>6. /\ output'.trajectory = output.trajectory
        /\ output'.time = Tick(output.time)
        /\ output'.section = SectionAt(output.trajectory, Tick(output.time))
        /\ output'.sectionChanged = (output'.section > output.section)
    BY <2>2 DEF Follow, Sampled
  <2>7. output'.section >= output.section
        /\ ((output'.section > output.section) <=> (output'.section # output.section))
    BY <2>3, <2>5, <2>6
  <2> QED BY <2>3, <2>4, <2>6, <2>7, BoundAssumption
<1>2. LoopInv /\ [Next]_vars =>
        [Succeeds /\ ~output'.newCalculation =>
           /\ output'.trajectory = output.trajectory
           /\ output'.time >= output.time
           /\ output'.section >= output.section
           /\ output'.sectionChanged = (output'.section # output.section)]_vars
  BY <1>1
<1> QED BY <1>2, LoopInvariant, PTL DEF Spec, OnlyForward

\* The plain loop replaces its trajectory only by one that ends sooner.
THEOREM OnlyShorterHolds == Spec => OnlyShorter
<1> DEFINE Replaces ==
      /\ Succeeds /\ output'.newCalculation
      /\ output.valid /\ current.initialized
      /\ input.plan = current.plan /\ input.budget = current.budget
      /\ input.state = output.state
<1>1. ASSUME LoopInv, Next, Replaces
      PROVE  /\ engine.active
             /\ output'.trajectory.duration + output.time
                  < output.trajectory.duration
  <2>1. Update
    BY <1>1, SuccessfulUpdate DEF LoopInv
  <2>2. ~NeedsCalculation
    BY <1>1 DEF LoopInv, CommandedState, NeedsCalculation, InputMatchesCurrent
  <2>3. \A i \in BOOLEAN : ~Follow(i)
    BY <1>1 DEF Follow, Sampled
  <2>4. UpdateResume
    BY <2>1, <2>2, <2>3 DEF Update, UpdateTarget, UpdateTargetInterruptible,
       UpdateWaypoints, RefuseWaypoints, StartWaypoints, UpdateFollow
  <2>5. PICK stop \in Candidates, i \in BOOLEAN : ResumeRun(stop, i)
    BY <1>1, <2>4, ResumeRuns DEF LoopInv
  <2>6. /\ output'.trajectory.duration = engine'.best
        /\ engine'.best < Remaining
        /\ engine'.best \in 0 .. Horizon
    BY <1>1, <2>2, <2>3, <2>5, ResumeOutcome DEF LoopInv
  <2>7. /\ output.time \in 0 .. Horizon
        /\ output.trajectory.duration \in 0 .. Horizon
    BY <1>1 DEF LoopInv, TypeOK, Outputs, Trajectories
  <2>8. engine.active
    BY <2>4 DEF UpdateResume, CanContinue
  <2> QED BY <2>6, <2>7, <2>8, BoundAssumption DEF Remaining
<1>2. LoopInv /\ [Next]_vars =>
        [Replaces => /\ engine.active
                     /\ output'.trajectory.duration + output.time
                          < output.trajectory.duration]_vars
  BY <1>1
<1> QED BY <1>2, LoopInvariant, PTL DEF Spec, OnlyShorter

-----------------------------------------------------------------------------
(* WaypointPath: the line.                                                 *)

\* Sums over a sequence of distances exist.
LEMMA AlongExists ==
  ASSUME NEW n \in Nat, NEW d
  PROVE  \E f : f = [i \in 1 .. n |-> IF i = 1 THEN 0 ELSE f[i - 1] + d[i]]
<1> DEFINE Sums(f, m) == f = [i \in 1 .. m |-> IF i = 1 THEN 0 ELSE f[i - 1] + d[i]]
           Bad == {m \in Nat : ~ \E f : Sums(f, m)}
<1>1. ASSUME Bad # {} PROVE FALSE
  <2>1. PICK m \in Bad : \A l \in Bad : m <= l
    <3> HIDE DEF Bad
    <3>1. Bad \subseteq Nat BY DEF Bad
    <3> QED BY <1>1, <3>1, LeastNatural
  <2>2. CASE m = 0
    <3> DEFINE g == [i \in 1 .. 0 |-> 0]
    <3>1. Sums(g, 0) OBVIOUS
    <3> QED BY <2>1, <2>2, <3>1
  <2>3. CASE m # 0
    <3>1. m - 1 \in Nat /\ m - 1 \notin Bad
      <4>1. m \in Nat /\ m - 1 \in Nat BY <2>1, <2>3
      <4>2. ~ (m <= m - 1) BY <4>1
      <4> HIDE DEF Bad
      <4> QED BY <2>1, <4>1, <4>2
    <3>2. PICK f : Sums(f, m - 1)
      BY <3>1
    <3> DEFINE g == [i \in 1 .. m |-> IF i = 1 THEN 0 ELSE f[i - 1] + d[i]]
    <3>3. \A i \in 1 .. m - 1 : g[i] = f[i]
      BY <3>2
    <3>4. Sums(g, m)
      <4>1. \A i \in 1 .. m : (IF i = 1 THEN 0 ELSE f[i - 1] + d[i]) = (IF i = 1 THEN 0 ELSE g[i - 1] + d[i])
        <5> TAKE i \in 1 .. m
        <5>1. CASE i = 1 BY <5>1
        <5>2. CASE i # 1
          <6>1. i - 1 \in 1 .. m - 1 BY <5>2, <2>1
          <6> QED BY <6>1, <3>3, <5>2
        <5> QED BY <5>1, <5>2
      <4> QED BY <4>1
    <3> QED BY <2>1, <3>4
  <2> QED BY <2>2, <2>3
<1>2. n \notin Bad
  BY <1>1
<1> QED BY <1>2

\* The way to a point is the way to the one before it and the distance of both.
LEMMA WaySums ==
  ASSUME NEW points, Len(points) \in Nat
  PROVE  Way(points) =
           [i \in 1 .. Len(points) |->
              IF i = 1 THEN 0 ELSE Way(points)[i - 1] + Between(points[i - 1], points[i])]
<1> DEFINE n == Len(points)
           d == [i \in 1 .. n |-> Between(points[i - 1], points[i])]
           Sums(f) == f = [i \in 1 .. n |->
                             IF i = 1 THEN 0 ELSE f[i - 1] + Between(points[i - 1], points[i])]
<1>1. Way(points) = CHOOSE f : Sums(f)
  BY DEF Way
<1>2. PICK f : f = [i \in 1 .. n |-> IF i = 1 THEN 0 ELSE f[i - 1] + d[i]]
  <2> HIDE DEF d
  <2> QED BY AlongExists
<1>3. Sums(f)
  BY <1>2
<1>4. \E g : Sums(g)
  BY <1>3
<1> HIDE DEF Sums
<1>5. Sums(Way(points))
  BY <1>1, <1>4
<1> QED BY <1>5 DEF Sums

\* Points are numbers.
LEMMA PointsAreNumbers ==
  ASSUME NEW q \in Seq(States), States \subseteq Int
  PROVE  Len(q) \in Nat /\ \A i \in 1 .. Len(q) : q[i] \in Int
<1>1. Len(q) \in Nat /\ \A i \in 1 .. Len(q) : q[i] \in States
  OBVIOUS
<1> QED BY <1>1

\* The way to a later point is no shorter, and as long only to the same place.
LEMMA WayGrows ==
  ASSUME NEW points \in Seq(States), States \subseteq Int,
         NEW i \in 1 .. Len(points), NEW j \in i .. Len(points)
  PROVE  /\ Way(points)[i] \in Nat /\ Way(points)[j] \in Nat
         /\ Way(points)[i] <= Way(points)[j]
         /\ Way(points)[i] = Way(points)[j] => points[i] = points[j]
<1> DEFINE w == Way(points)
           n == Len(points)
           Grows(l) == /\ w[i] \in Nat /\ w[l] \in Nat /\ w[i] <= w[l]
                       /\ w[i] = w[l] => points[i] = points[l]
<1>1. /\ n \in Nat /\ \A l \in 1 .. n : points[l] \in Int
      /\ w = [l \in 1 .. n |-> IF l = 1 THEN 0 ELSE w[l - 1] + Between(points[l - 1], points[l])]
  <2>1. n \in Nat /\ \A l \in 1 .. n : points[l] \in Int
    BY PointsAreNumbers
  <2> QED BY <2>1, WaySums
<1> HIDE DEF w, n
<1>2. \A l \in 2 .. n : w[l] = w[l - 1] + Between(points[l - 1], points[l])
  BY <1>1
<1>3. \A l \in 2 .. n : /\ Between(points[l - 1], points[l]) \in Nat
                        /\ Between(points[l - 1], points[l]) = 0 => points[l - 1] = points[l]
  BY <1>1 DEF Between
<1>4. \A l \in 1 .. n : w[l] \in Nat
  <2> DEFINE Bad == {l \in 1 .. n : w[l] \notin Nat}
  <2>1. ASSUME Bad # {} PROVE FALSE
    <3>1. PICK m \in Bad : \A l \in Bad : m <= l
      <4>1. Bad \in SUBSET Nat BY <1>1
      <4> HIDE DEF Bad
      <4> QED BY <2>1, <4>1, LeastNatural
    <3>2. CASE m = 1
      BY <1>1, <3>1, <3>2
    <3>3. CASE m # 1
      <4>1. m \in 2 .. n /\ m - 1 \in 1 .. n /\ ~ (m <= m - 1)
        BY <3>3, <1>1
      <4>2. w[m - 1] \in Nat
        BY <3>1, <4>1
      <4> QED BY <1>2, <1>3, <4>1, <4>2
    <3> QED BY <3>2, <3>3
  <2> QED BY <2>1
<1>5. \A l \in i .. n : Grows(l)
  <2> DEFINE Bad == {l \in i .. n : ~ Grows(l)}
  <2>0. i \in 1 .. n
    BY DEF n
  <2>1. ASSUME Bad # {} PROVE FALSE
    <3>1. PICK m \in Bad : \A l \in Bad : m <= l
      <4>1. Bad \in SUBSET Nat BY <1>1, <2>0
      <4> HIDE DEF Bad
      <4> QED BY <2>1, <4>1, LeastNatural
    <3>2. CASE m = i
      BY <1>4, <2>0, <3>2
    <3>3. CASE m # i
      <4>1. /\ m \in 2 .. n /\ m - 1 \in i .. n /\ ~ (m <= m - 1)
            /\ m \in 1 .. n /\ m - 1 \in 1 .. n
        BY <3>3, <1>1, <2>0
      <4>2. Grows(m - 1)
        BY <3>1, <4>1
      <4>3. w[m] = w[m - 1] + Between(points[m - 1], points[m])
        BY <1>2, <4>1
      <4>4. Grows(m)
        BY <1>3, <4>1, <4>2, <4>3
      <4> QED BY <4>4
    <3> QED BY <3>2, <3>3
  <2> QED BY <2>1
<1>6. j \in i .. n
  BY DEF n
<1> QED BY <1>5, <1>6 DEF w

\* The points of a plan: where the machine is, then the stops.
LEMMA ThePoints ==
  ASSUME OnALine, NEW p \in Plans, NEW s \in States
  PROVE  /\ Len(Stops(p)) \in Nat \ {0}
         /\ Points(p, s) \in Seq(States)
         /\ Len(Points(p, s)) = Len(Stops(p)) + 1
         /\ Points(p, s)[1] = s
         /\ \A i \in 1 .. Len(Stops(p)) :
              Points(p, s)[i + 1] = Stops(p)[i] /\ Stops(p)[i] \in Int
         /\ Along[p][s] = Way(Points(p, s))
<1>1. Stops(p) \in Seq(States) /\ Stops(p) # <<>> /\ States \subseteq Int
  BY DEF OnALine, StopsGiven
<1> DEFINE q == Stops(p)
<1>2. Len(q) \in Nat \ {0} /\ \A i \in 1 .. Len(q) : q[i] \in Int
  <2>1. Len(q) \in Nat /\ \A i \in 1 .. Len(q) : q[i] \in Int
    BY <1>1, PointsAreNumbers
  <2>2. Len(q) # 0
    BY <1>1
  <2> QED BY <2>1, <2>2
<1>3. <<s>> \o q \in Seq(States) /\ Len(<<s>> \o q) = Len(q) + 1
  BY <1>1
<1>4. (<<s>> \o q)[1] = s /\ \A i \in 1 .. Len(q) : (<<s>> \o q)[i + 1] = q[i]
  BY <1>1
<1>5. Along[p][s] = Way(Points(p, s))
  BY DEF Along
<1> QED BY <1>2, <1>3, <1>4, <1>5 DEF Points

\* A later stop is no nearer, and as near only at the same place.
LEMMA StopsAlong ==
  ASSUME OnALine, NEW p \in Plans, NEW s \in States,
         NEW i \in 0 .. Len(Stops(p)), NEW j \in i .. Len(Stops(p))
  PROVE  /\ Along[p][s][i + 1] \in Nat /\ Along[p][s][j + 1] \in Nat
         /\ Along[p][s][i + 1] <= Along[p][s][j + 1]
         /\ Along[p][s][i + 1] = Along[p][s][j + 1] => Points(p, s)[i + 1] = Points(p, s)[j + 1]
<1>1. Points(p, s) \in Seq(States) /\ Len(Points(p, s)) = Len(Stops(p)) + 1
      /\ Along[p][s] = Way(Points(p, s)) /\ Len(Stops(p)) \in Nat
  BY ThePoints
<1>2. i + 1 \in 1 .. Len(Points(p, s)) /\ j + 1 \in i + 1 .. Len(Points(p, s))
  BY <1>1
<1> QED BY <1>1, <1>2, WayGrows DEF OnALine, StopsGiven

\* A set of numbers from 1 on without a gap.
LEMMA PrefixCounts ==
  ASSUME NEW n \in Nat, NEW S \in SUBSET (1 .. n),
         \A i \in S, j \in 1 .. n : j <= i => j \in S
  PROVE  Cardinality(S) \in 0 .. n /\ \A i \in 1 .. n : i \in S <=> i <= Cardinality(S)
<1> DEFINE Out == {i \in 1 .. n + 1 : i \notin S}
<1>1. PICK m \in Out : \A i \in Out : m <= i
  <2>1. Out \in SUBSET Nat /\ n + 1 \in Out
    OBVIOUS
  <2> HIDE DEF Out
  <2> QED BY <2>1, LeastNatural
<1>2. S = 1 .. m - 1
  <2>1. ASSUME NEW i \in S PROVE i \in 1 .. m - 1
    <3>1. i \in 1 .. n /\ m \in 1 .. n + 1 /\ m \notin S
      OBVIOUS
    <3>2. ~ (m <= i)
      BY <3>1
    <3> QED BY <3>1, <3>2
  <2>2. ASSUME NEW i \in 1 .. m - 1 PROVE i \in S
    <3>1. i \in 1 .. n + 1 /\ ~ (m <= i)
      OBVIOUS
    <3> QED BY <1>1, <3>1
  <2> QED BY <2>1, <2>2
<1>3. Cardinality(S) = m - 1
  BY <1>2, FS_Interval
<1> QED BY <1>2, <1>3

\* A pace is a whole number of cycles: multiplying by it keeps the order.
LEMMA PaceOrders ==
  ASSUME NEW k \in Nat \ {0}, NEW a \in Nat, NEW b \in Nat
  PROVE  /\ k * a \in Nat
         /\ a <= b => k * a <= k * b
         /\ k * a = k * b => a = b
         /\ (k * a) \div k = a
OBVIOUS

\* The reported section counts the stops within reach.
LEMMA SectionCounts ==
  ASSUME OnALine, NEW p \in Plans, NEW s \in States, NEW k \in Candidates, NEW t \in 0 .. Horizon
  PROVE  /\ SectionIn[p][s][k][t] \in 0 .. Len(Stops(p))
         /\ \A i \in 1 .. Len(Stops(p)) :
              Pace(k) * Along[p][s][i + 1] <= t <=> i <= SectionIn[p][s][k][t]
<1> DEFINE n == Len(Stops(p))
           S == {i \in 1 .. n : Pace(k) * Along[p][s][i + 1] <= t}
<1>1. n \in Nat /\ Pace(k) \in Nat \ {0} /\ t \in Int
  BY ThePoints, BoundAssumption DEF OnALine, PaceGiven
<1>2. ASSUME NEW i \in S, NEW j \in 1 .. n, j <= i PROVE j \in S
  <2>1. /\ Along[p][s][j + 1] \in Nat /\ Along[p][s][i + 1] \in Nat
        /\ Along[p][s][j + 1] <= Along[p][s][i + 1]
    <3>1. j \in 0 .. n /\ i \in j .. n
      BY <1>1, <1>2
    <3> QED BY <3>1, StopsAlong
  <2>2. Pace(k) * Along[p][s][j + 1] <= Pace(k) * Along[p][s][i + 1]
        /\ Pace(k) * Along[p][s][j + 1] \in Nat /\ Pace(k) * Along[p][s][i + 1] \in Nat
    BY <1>1, <2>1, PaceOrders
  <2>3. Pace(k) * Along[p][s][i + 1] <= t
    OBVIOUS
  <2> QED BY <1>1, <2>2, <2>3
<1>3. SectionIn[p][s][k][t] = Cardinality(S)
  BY DEF SectionIn
<1>4. Cardinality(S) \in 0 .. n /\ \A i \in 1 .. n : i \in S <=> i <= Cardinality(S)
  <2>1. S \in SUBSET (1 .. n)
    OBVIOUS
  <2> HIDE DEF S, n
  <2> QED BY <1>1, <1>2, <2>1, PrefixCounts
<1> QED BY <1>3, <1>4


\* When everything from the next stop to the m-th is here, the history gets there.
LEMMA AdvancedReaches ==
  ASSUME OnALine, NEW p \in Plans, NEW s, NEW n \in 0 .. Len(Stops(p)), NEW m \in 0 .. Len(Stops(p)),
         \A i \in n + 1 .. m : Stops(p)[i] = s
  PROVE  Advanced(p, n, s) \in n .. Len(Stops(p)) /\ m <= Advanced(p, n, s)
<1> DEFINE top == Len(Stops(p))
           ahead == {l \in n .. top : \A i \in n + 1 .. l : Stops(p)[i] = s}
           left == {top - l : l \in ahead}
<1>1. top \in Nat
  BY ThePoints DEF OnALine, StopsGiven
<1>2. n \in ahead
  BY <1>1
<1>3. PICK r \in left : \A q \in left : r <= q
  <2>1. left \in SUBSET Nat /\ left # {}
    BY <1>1, <1>2
  <2> HIDE DEF left
  <2> QED BY <2>1, LeastNatural
<1>4. PICK a \in ahead : r = top - a
  OBVIOUS
<1>5. \A l \in ahead : l <= a
  <2> TAKE l \in ahead
  <2>1. top - l \in left /\ l \in Nat /\ a \in Nat
    BY <1>1
  <2>2. r <= top - l
    <3> HIDE DEF left
    <3> QED BY <1>3, <2>1
  <2> HIDE DEF left, ahead
  <2> QED BY <1>1, <1>4, <2>1, <2>2
<1>6. Advanced(p, n, s) \in ahead /\ \A l \in ahead : l <= Advanced(p, n, s)
  <2>1. Advanced(p, n, s) = CHOOSE x \in ahead : \A l \in ahead : l <= x
    BY DEF Advanced
  <2> HIDE DEF ahead
  <2> QED BY <1>4, <1>5, <2>1
<1>7. CASE n <= m
  <2>1. m \in ahead
    BY <1>1, <1>7
  <2> QED BY <1>6, <2>1
<1>8. CASE ~ (n <= m)
  <2>1. Advanced(p, n, s) \in n .. top
    BY <1>6
  <2> QED BY <1>1, <1>8, <2>1
<1> QED BY <1>7, <1>8

\* The place a candidate has come to when it passes a stop is that stop.
LEMMA PassedIsHere ==
  ASSUME OnALine, NEW p \in Plans, NEW s \in States, NEW k \in Candidates, NEW t \in 0 .. Horizon,
         NEW i \in 1 .. Len(Stops(p)), Pace(k) * Along[p][s][i + 1] = t
  PROVE  Stops(p)[i] = PlaceIn[p][s][k][t]
<1> DEFINE n == Len(Stops(p))
           c == SectionIn[p][s][k][t]
<1>1. n \in Nat /\ Pace(k) \in Nat \ {0} /\ t \in Int
  BY ThePoints, BoundAssumption DEF OnALine, PaceGiven
<1>2. c \in 0 .. n /\ i <= c /\ Pace(k) * Along[p][s][c + 1] <= t
  <2>1. c \in 0 .. n /\ \A j \in 1 .. n : Pace(k) * Along[p][s][j + 1] <= t <=> j <= c
    BY SectionCounts
  <2> HIDE DEF c, n
  <2> QED BY <1>1, <2>1 DEF n
<1>3. /\ Along[p][s][i + 1] \in Nat /\ Along[p][s][c + 1] \in Nat
      /\ Along[p][s][i + 1] <= Along[p][s][c + 1]
      /\ Along[p][s][i + 1] = Along[p][s][c + 1] => Points(p, s)[i + 1] = Points(p, s)[c + 1]
  <2>1. i \in 0 .. n /\ c \in i .. n
    BY <1>1, <1>2
  <2> QED BY <2>1, StopsAlong
<1>4. Pace(k) * Along[p][s][c + 1] = t /\ Along[p][s][i + 1] = Along[p][s][c + 1]
  <2>1. /\ Pace(k) * Along[p][s][i + 1] <= Pace(k) * Along[p][s][c + 1]
        /\ Pace(k) * Along[p][s][c + 1] \in Nat
    BY <1>1, <1>3, PaceOrders
  <2> DEFINE x == Pace(k) * Along[p][s][c + 1]
  <2>2. x = t
    <3>1. t <= x /\ x \in Nat /\ x <= t
      BY <1>2, <2>1
    <3> HIDE DEF x
    <3> QED BY <1>1, <3>1
  <2> QED BY <1>1, <1>3, <2>2, PaceOrders
<1>5. Stops(p)[i] = Stops(p)[c] /\ Points(p, s)[c + 1] = Stops(p)[c] /\ Stops(p)[c] \in Int
  <2>1. c \in 1 .. n
    BY <1>1, <1>2
  <2> QED BY <1>3, <1>4, <2>1, ThePoints
<1>6. t \div Pace(k) = Along[p][s][c + 1]
  BY <1>1, <1>3, <1>4, PaceOrders
<1> DEFINE from == Points(p, s)[c + 1]
           to   == Points(p, s)[c + 2]
           gone == t \div Pace(k) - Along[p][s][c + 1]
<1>7. PlaceIn[p][s][k][t] =
        IF c = n THEN Last(Stops(p)) ELSE IF from < to THEN from + gone ELSE from - gone
  BY DEF PlaceIn
<1>8. gone = 0
  BY <1>3, <1>6
<1>9. Last(Stops(p)) = Stops(p)[n]
  BY DEF Last
<1> HIDE DEF c, n, gone, to
<1> QED BY <1>5, <1>7, <1>8, <1>9


-----------------------------------------------------------------------------
(* The history of an update.                                               *)

\* A solved trajectory is one of the line.
LEMMA OnTheLine ==
  ASSUME OnALine, NEW tr \in Trajectories, Solved(tr)
  PROVE  /\ tr.plan \in Plans /\ tr.start \in States /\ tr.candidate \in Candidates
         /\ tr.duration \in Nat /\ tr.duration < Horizon
         /\ tr.duration = Pace(tr.candidate) * Along[tr.plan][tr.start][Len(Stops(tr.plan)) + 1]
         /\ \A t \in 0 .. Horizon :
              /\ StateAt(tr, t) = PlaceIn[tr.plan][tr.start][tr.candidate][t]
              /\ SectionAt(tr, t) = SectionIn[tr.plan][tr.start][tr.candidate][t]
<1>1. /\ tr.plan \in Plans /\ tr.start \in States /\ tr.candidate \in Candidates
      /\ tr.duration \in 0 .. Horizon
  BY DEF Trajectories
<1>2. tr.duration = DurationOf[tr.plan][tr.start][tr.candidate]
      /\ tr.duration = Duration(tr.plan, tr.start, tr.candidate)
  BY <1>1 DEF Solved, PathDuration, OnALine, LineSolved
<1>3. tr.duration < Horizon
  BY <1>1, <1>2, DurationAssumption
<1>4. tr.duration # Infeasible
  BY <1>1, BoundAssumption DEF Infeasible
<1>5. tr.duration = Pace(tr.candidate) * Last(Along[tr.plan][tr.start])
  BY <1>1, <1>2, <1>4 DEF DurationOf
<1>6. Len(Along[tr.plan][tr.start]) = Len(Stops(tr.plan)) + 1
  <2>1. Along[tr.plan][tr.start] = Way(Points(tr.plan, tr.start))
        /\ Len(Points(tr.plan, tr.start)) = Len(Stops(tr.plan)) + 1
        /\ Len(Stops(tr.plan)) \in Nat
    BY <1>1, ThePoints
  <2> DEFINE points == Points(tr.plan, tr.start)
  <2>2. DOMAIN Way(points) = 1 .. Len(points) /\ Way(points) = [i \in 1 .. Len(points) |-> Way(points)[i]]
    <3> HIDE DEF points
    <3>1. Len(points) \in Nat BY <2>1 DEF points
    <3> QED BY <3>1, WaySums
  <2>3. Len(Way(points)) = Len(points)
    <3> HIDE DEF points
    <3>1. Len(points) \in Nat BY <2>1 DEF points
    <3> QED BY <2>2, <3>1
  <2> QED BY <2>1, <2>3
<1>7. tr.duration = Pace(tr.candidate) * Along[tr.plan][tr.start][Len(Stops(tr.plan)) + 1]
  BY <1>5, <1>6 DEF Last
<1>8. \A t \in 0 .. Horizon :
        /\ StateAt(tr, t) = PlaceIn[tr.plan][tr.start][tr.candidate][t]
        /\ SectionAt(tr, t) = SectionIn[tr.plan][tr.start][tr.candidate][t]
  BY DEF PathState, PathSection, OnALine, LineSolved
<1>9. tr.duration \in Nat
  BY <1>1, BoundAssumption
<1> QED BY <1>1, <1>3, <1>7, <1>8, <1>9

\* A trajectory sampled from a time at which the history was with it: the
\* history stays with it one cycle later.
LEMMA HistoryKeepsUp ==
  ASSUME OnALine, NEW tr \in Trajectories, Solved(tr), NEW t \in 0 .. Horizon,
         NEW n \in 0 .. Len(Stops(tr.plan)), SectionAt(tr, t) <= n
  PROVE  LET m == Advanced(tr.plan, n, StateAt(tr, Tick(t)))
         IN  m \in 0 .. Len(Stops(tr.plan)) /\ SectionAt(tr, Tick(t)) <= m
<1> DEFINE p == tr.plan
           s == tr.start
           k == tr.candidate
           u == Tick(t)
           c == SectionAt(tr, u)
           top == Len(Stops(p))
<1>1. /\ u \in 0 .. Horizon /\ t \in Int /\ u \in Int /\ t <= u /\ u <= t + 1
      /\ top \in Nat /\ p \in Plans /\ s \in States /\ k \in Candidates
      /\ Pace(k) \in Nat \ {0}
  BY TickIsTime, BoundAssumption, ThePoints, OnTheLine DEF OnALine, PaceGiven
<1>2. /\ c = SectionIn[p][s][k][u] /\ StateAt(tr, u) = PlaceIn[p][s][k][u]
      /\ SectionAt(tr, t) = SectionIn[p][s][k][t]
  BY <1>1, OnTheLine
<1>3. /\ c \in 0 .. top
      /\ \A i \in 1 .. top : Pace(k) * Along[p][s][i + 1] <= u <=> i <= c
      /\ SectionAt(tr, t) \in 0 .. top
      /\ \A i \in 1 .. top : Pace(k) * Along[p][s][i + 1] <= t <=> i <= SectionAt(tr, t)
  BY <1>1, <1>2, SectionCounts
<1>4. ASSUME NEW i \in n + 1 .. c PROVE Stops(p)[i] = StateAt(tr, u)
  <2>1. i \in 1 .. top /\ i <= c /\ ~ (i <= SectionAt(tr, t)) /\ i \in 0 .. top
    <3> HIDE DEF c, top
    <3>1. n \in 0 .. top BY DEF top
    <3> QED BY <1>1, <1>3, <3>1
  <2> DEFINE x == Pace(k) * Along[p][s][i + 1]
  <2>2. x \in Nat
    <3>1. Along[p][s][i + 1] \in Nat
      BY <1>1, <2>1, StopsAlong
    <3> QED BY <1>1, <3>1, PaceOrders
  <2>3. x <= u /\ ~ (x <= t)
    BY <1>3, <2>1
  <2>4. x = u
    <3> HIDE DEF x, u
    <3> QED BY <1>1, <2>2, <2>3
  <2> QED BY <1>1, <1>2, <2>1, <2>4, PassedIsHere
<1>5. /\ Advanced(p, n, StateAt(tr, u)) \in n .. top
      /\ c <= Advanced(p, n, StateAt(tr, u))
  BY <1>1, <1>3, <1>4, AdvancedReaches
<1> QED BY <1>1, <1>5

\* A trajectory that is published starts with what is at its start.
LEMMA HistoryBegins ==
  ASSUME OnALine, NEW tr \in Trajectories, Solved(tr), NEW n \in 0 .. Len(Stops(tr.plan))
  PROVE  LET m == Advanced(tr.plan, n, tr.start)
         IN  m \in 0 .. Len(Stops(tr.plan)) /\ SectionAt(tr, 0) <= m
<1> DEFINE p == tr.plan
           s == tr.start
           k == tr.candidate
           c == SectionAt(tr, 0)
           top == Len(Stops(p))
<1>1. /\ 0 \in 0 .. Horizon /\ top \in Nat /\ p \in Plans /\ s \in States
      /\ k \in Candidates /\ Pace(k) \in Nat \ {0}
  BY BoundAssumption, ThePoints, OnTheLine DEF OnALine, PaceGiven
<1>2. c = SectionIn[p][s][k][0]
  BY <1>1, OnTheLine
<1>3. /\ c \in 0 .. top
      /\ \A i \in 1 .. top : Pace(k) * Along[p][s][i + 1] <= 0 <=> i <= c
  BY <1>1, <1>2, SectionCounts
<1>4. ASSUME NEW i \in n + 1 .. c PROVE Stops(p)[i] = s
  <2>1. i \in 1 .. top /\ i <= c /\ i \in 0 .. top /\ 0 \in 0 .. top /\ i \in 0 .. top
    <3> HIDE DEF c, top
    <3>1. n \in 0 .. top BY DEF top
    <3> QED BY <1>1, <1>3, <3>1
  <2>2. /\ Along[p][s][0 + 1] \in Nat /\ Along[p][s][i + 1] \in Nat
        /\ Along[p][s][0 + 1] <= Along[p][s][i + 1]
        /\ Along[p][s][0 + 1] = Along[p][s][i + 1] => Points(p, s)[0 + 1] = Points(p, s)[i + 1]
    BY <1>1, <2>1, StopsAlong
  <2>3. Pace(k) * Along[p][s][i + 1] <= 0
    BY <1>3, <2>1
  <2>4. Along[p][s][i + 1] = 0
    <3>1. Pace(k) * Along[p][s][i + 1] \in Nat /\ Pace(k) * 0 = 0
      BY <1>1, <2>2, PaceOrders
    <3>2. Pace(k) * Along[p][s][i + 1] = Pace(k) * 0
      BY <2>3, <3>1
    <3> QED BY <1>1, <2>2, <3>2, PaceOrders
  <2>5. Points(p, s)[0 + 1] = Points(p, s)[i + 1]
    BY <2>2, <2>4
  <2> QED BY <1>1, <2>1, <2>5, ThePoints
<1>5. /\ Advanced(p, n, s) \in n .. top
      /\ c <= Advanced(p, n, s)
  BY <1>1, <1>3, <1>4, AdvancedReaches
<1> QED BY <1>1, <1>5


-----------------------------------------------------------------------------
(* The invariant.                                                          *)

\* The history belongs to the trajectory at hand, which is a solved one, also
\* after a reset of the solver (CommandedState says so only of one in use).
PathInv ==
  /\ stage \in 0 .. Len(Stops(output.trajectory.plan))
  /\ output.valid => /\ Solved(output.trajectory)
                     /\ output.section = SectionAt(output.trajectory, output.time)
  /\ SectionVisited
  /\ EveryStopVisited

\* Sampling one cycle further keeps the history with the trajectory.
LEMMA SampleKeepsPath ==
  ASSUME OnALine, NEW tr \in Trajectories, Solved(tr), NEW t \in 0 .. Horizon,
         NEW n \in 0 .. Len(Stops(tr.plan)), SectionAt(tr, t) <= n,
         output'.trajectory = tr, output'.time = Tick(t),
         output'.state = StateAt(tr, Tick(t)), output'.section = SectionAt(tr, Tick(t)),
         result' = ResultAt(tr, Tick(t)),
         stage' = Advanced(tr.plan, n, output'.state)
  PROVE  PathInv'
<1> DEFINE top == Len(Stops(tr.plan))
           u == Tick(t)
<1>1. stage' \in 0 .. top /\ SectionAt(tr, u) <= stage'
  BY HistoryKeepsUp
<1>2. SectionVisited'
  BY <1>1 DEF SectionVisited
<1>3. ASSUME result' = "FINISHED"
      PROVE  stage' = top /\ output'.state = Last(Stops(tr.plan))
  <2>1. /\ u > tr.duration /\ u \in 0 .. Horizon
    BY <1>3, TickIsTime, BoundAssumption DEF ResultAt
  <2>2. /\ tr.plan \in Plans /\ tr.start \in States /\ tr.candidate \in Candidates
        /\ tr.duration \in Nat
        /\ tr.duration = Pace(tr.candidate) * Along[tr.plan][tr.start][top + 1]
        /\ SectionAt(tr, u) = SectionIn[tr.plan][tr.start][tr.candidate][u]
        /\ StateAt(tr, u) = PlaceIn[tr.plan][tr.start][tr.candidate][u]
    BY <2>1, OnTheLine
  <2>3. top \in Nat \ {0}
    BY <2>2, ThePoints
  <2>4. SectionAt(tr, u) = top
    <3>1. /\ SectionAt(tr, u) \in 0 .. top
          /\ \A i \in 1 .. top :
               Pace(tr.candidate) * Along[tr.plan][tr.start][i + 1] <= u <=> i <= SectionAt(tr, u)
      <4> DEFINE c == SectionIn[tr.plan][tr.start][tr.candidate][u]
      <4>1. /\ c \in 0 .. top
            /\ \A i \in 1 .. top :
                 Pace(tr.candidate) * Along[tr.plan][tr.start][i + 1] <= u <=> i <= c
        BY <2>1, <2>2, SectionCounts
      <4> HIDE DEF c
      <4>2. SectionAt(tr, u) = c
        BY <2>2 DEF c
      <4> HIDE DEF top, u
      <4> QED BY <4>1, <4>2
    <3>2. top \in 1 .. top /\ Pace(tr.candidate) * Along[tr.plan][tr.start][top + 1] <= u
      <4>1. tr.duration <= u
        BY <2>1, <2>2, BoundAssumption
      <4> QED BY <2>2, <2>3, <4>1
    <3>3. top <= SectionAt(tr, u)
      BY <3>1, <3>2
    <3> HIDE DEF top, u
    <3> QED BY <2>3, <3>1, <3>3
  <2>5. PlaceIn[tr.plan][tr.start][tr.candidate][u] = Last(Stops(tr.plan))
    BY <2>1, <2>2, <2>4 DEF PlaceIn
  <2> QED BY <1>1, <2>2, <2>3, <2>4, <2>5
<1>4. EveryStopVisited'
  BY <1>3 DEF EveryStopVisited
<1> QED BY <1>1, <1>2, <1>4 DEF PathInv

\* A refused update leaves the history; one that publishes or follows samples.
LEMMA UpdateKeepsPath ==
  ASSUME OnALine, TypeOK, PathInv, Update, stage' = IF result' \in OkResults THEN Staged ELSE stage
  PROVE  PathInv'
<1>0. /\ output.trajectory \in Trajectories /\ output.time \in 0 .. Horizon
      /\ output.valid \in BOOLEAN /\ output \in Outputs
      /\ input.plan \in Plans /\ input.state \in States
      /\ 0 \in 0 .. Horizon
  BY BoundAssumption DEF TypeOK, Outputs, Inputs
<1>1. CASE Refused
  <2>1. /\ output'.trajectory = output.trajectory /\ output'.section = output.section
        /\ output'.time = output.time /\ output'.state = output.state
        /\ output'.valid => output.valid
        /\ result' \in Errors
    BY <1>0, <1>1 DEF Refused, Refuse, Outputs
  <2>2. stage' = stage /\ result' # "FINISHED"
    BY <2>1 DEF OkResults, Errors
  <2> QED BY <2>1, <2>2 DEF PathInv, SectionVisited, EveryStopVisited
<1>2. CASE Published
  <2>1. PICK tr \in Trajectories, i \in BOOLEAN :
          /\ tr.plan = input.plan /\ tr.start = input.state /\ Solved(tr)
          /\ Publish(tr, i)
    BY <1>2 DEF Published
  <2>2. /\ output'.trajectory = tr /\ output'.time = Tick(0)
        /\ output'.state = StateAt(tr, Tick(0)) /\ output'.section = SectionAt(tr, Tick(0))
        /\ output'.newCalculation = TRUE
        /\ result' = ResultAt(tr, Tick(0))
    BY <2>1 DEF Publish, Sampled
  <2>3. result' \in OkResults
    BY <2>2 DEF ResultAt, OkResults
  <2> DEFINE before == IF output.valid /\ tr.plan = output.trajectory.plan THEN stage ELSE 0
             n == Advanced(tr.plan, before, tr.start)
  <2>4. stage' = Advanced(tr.plan, n, output'.state)
    BY <2>1, <2>2, <2>3 DEF Staged
  <2>5. before \in 0 .. Len(Stops(tr.plan))
    <3>1. Len(Stops(tr.plan)) \in Nat
      BY <1>0, <2>1, ThePoints
    <3> QED BY <3>1 DEF PathInv
  <2>6. n \in 0 .. Len(Stops(tr.plan)) /\ SectionAt(tr, 0) <= n
    <3> HIDE DEF before
    <3> QED BY <2>1, <2>5, HistoryBegins
  <2> HIDE DEF n
  <2> QED BY <1>0, <2>1, <2>2, <2>4, <2>6, SampleKeepsPath
<1>3. CASE Followed
  <2> DEFINE tr == output.trajectory
  <2>1. PICK i \in BOOLEAN : output.valid /\ Follow(i)
    BY <1>3 DEF Followed
  <2>2. /\ output'.trajectory = tr /\ output'.time = Tick(output.time)
        /\ output'.state = StateAt(tr, Tick(output.time))
        /\ output'.section = SectionAt(tr, Tick(output.time))
        /\ output'.newCalculation = FALSE
        /\ result' = ResultAt(tr, Tick(output.time))
    BY <2>1 DEF Follow, Sampled
  <2>3. result' \in OkResults
    BY <2>2 DEF ResultAt, OkResults
  <2>4. stage' = Advanced(tr.plan, stage, output'.state)
    BY <2>1, <2>2, <2>3 DEF Staged
  <2>5. Solved(tr) /\ SectionAt(tr, output.time) <= stage /\ stage \in 0 .. Len(Stops(tr.plan))
    BY <2>1 DEF PathInv, SectionVisited
  <2> HIDE DEF tr
  <2>6. tr \in Trajectories
    BY <1>0 DEF tr
  <2> QED BY <1>0, <2>2, <2>4, <2>5, <2>6, SampleKeepsPath
<1> QED BY <1>1, <1>2, <1>3, UpdateOutcome

\* Every way of the machine takes is one of the loop's.
LEMMA PathIsLoop == PathSpec => Spec
<1>1. PathInit => Init
  BY DEF PathInit
<1>2. [PathNext]_pathVars => [Next]_vars
  BY DEF PathNext, OtherCall, Next, pathVars
<1> QED BY <1>1, <1>2, PTL DEF PathSpec, Spec

\* No publication, resumed search or call of the caller's cuts a stop off the
\* way: the machine came to every stop the section leaves behind, in order, and
\* to all of them when an update says FINISHED.
THEOREM StopsVisitedHolds ==
  ASSUME OnALine PROVE PathSpec => []StopsVisited
<1>1. PathInit => PathInv
  <2> SUFFICES ASSUME PathInit PROVE PathInv
    OBVIOUS
  <2>1. /\ stage = 0 /\ output.section = 0 /\ output.valid = FALSE /\ call = "create"
        /\ output.trajectory.plan \in Plans
    BY DEF PathInit, Init
  <2>2. Len(Stops(output.trajectory.plan)) \in Nat
    BY <2>1 DEF OnALine, StopsGiven
  <2> QED BY <2>1, <2>2 DEF PathInv, SectionVisited, EveryStopVisited
<1>2. LoopInv /\ PathInv /\ [PathNext]_pathVars => PathInv'
  <2> SUFFICES ASSUME LoopInv, PathInv, [PathNext]_pathVars PROVE PathInv'
    OBVIOUS
  <2>1. CASE Update /\ stage' = IF result' \in OkResults THEN Staged ELSE stage
    BY <2>1, UpdateKeepsPath DEF LoopInv
  <2>2. CASE OtherCall /\ UNCHANGED stage
    <3>1. output' = output /\ stage' = stage /\ call' # "update"
      BY <2>2 DEF OtherCall, PassToInput, SetState, SetPlan, SetBudget, OnInput, Calculate, Reset
    <3> QED BY <3>1 DEF PathInv, SectionVisited, EveryStopVisited
  <2>3. CASE UNCHANGED pathVars
    BY <2>3 DEF pathVars, vars, PathInv, SectionVisited, EveryStopVisited
  <2> QED BY <2>1, <2>2, <2>3 DEF PathNext
<1>3. PathInv => StopsVisited
  BY DEF PathInv, StopsVisited
<1> QED BY <1>1, <1>2, <1>3, PathIsLoop, LoopInvariant, PTL DEF PathSpec
=============================================================================
