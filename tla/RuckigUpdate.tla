---------------------------- MODULE RuckigUpdate ----------------------------
(***************************************************************************)
(* The online loop of ruckig_c: one ruckig_t, the ruckig_input_t the       *)
(* caller owns and the ruckig_output_t that ruckig_update fills once per   *)
(* control cycle.  Between two calls the library remembers                 *)
(*   - current_input, the input of the trajectory it is following, whose   *)
(*     kinematic state is overwritten by each sampled state, and           *)
(*   - the waypoint engine, an optimisation over complete candidates that  *)
(*     a calculation budget may stop and a later cycle may resume.         *)
(* The caller may do anything between two cycles: change the plan, the     *)
(* budget or the measured state, solve offline with the same handle, or    *)
(* reset it.                                                               *)
(*                                                                         *)
(* The numeric solvers are the constants Duration, StateAt and SectionAt:  *)
(* what a candidate lasts and where it is at a time, or Infeasible when    *)
(* the solver finds no trajectory.  Time is counted in units of which      *)
(* delta_time is a whole number.                                           *)
(***************************************************************************)
EXTENDS Integers

CONSTANTS
  Plans,              \* everything in an input but its state and budget
  WaypointPlans,      \* the plans with intermediate positions
  Rejected,           \* the plans ruckig_validate_input refuses
  OverOtg,            \* more waypoints than the ruckig_t was created for
  OverOutput,         \* more waypoints than the output's trajectory holds
  States,             \* kinematic states
  NumCandidates,      \* candidates in a complete waypoint optimisation
  Openers,            \* those tried before the engine gives up unfound
  DeltaTime,          \* the control cycle
  Horizon,            \* bound: output.time saturates here, past every end
  MaxMoves,           \* bound: departures of the caller from the plain loop
  Duration(_, _, _),  \* duration of candidate k of a plan from a state
  StateAt(_, _),      \* state of a trajectory at a time
  SectionAt(_, _),    \* section of a trajectory at a time
  Near(_, _)          \* two states a machine may command in successive cycles

Infeasible == -1
Budgets    == {"none", "zero", "positive"}
Candidates == 1 .. NumCandidates
OkResults  == {"WORKING", "FINISHED"}
Errors     == {"INVALID_INPUT", "ERROR", "EXECUTION_TIME"}
Trajectories ==
  [plan: Plans, start: States, candidate: Candidates, duration: 0 .. Horizon]

ASSUME PlanAssumption ==
  /\ WaypointPlans \subseteq Plans
  /\ Rejected \subseteq Plans
  /\ OverOtg \subseteq WaypointPlans
  /\ OverOutput \subseteq WaypointPlans

ASSUME BoundAssumption ==
  /\ NumCandidates \in Nat \ {0}
  /\ Openers \in Candidates
  /\ DeltaTime \in Nat
  /\ Horizon \in Nat
  /\ MaxMoves \in Nat

ASSUME DurationAssumption ==
  \A p \in Plans, s \in States, k \in Candidates :
    /\ Duration(p, s, k) \in Nat \cup {Infeasible}
    /\ Duration(p, s, k) < Horizon

\* what the solver returned for its plan, start and candidate
Solved(tr) == tr.duration = Duration(tr.plan, tr.start, tr.candidate)

(* A trajectory starts in the state it was planned from, and the states of *)
(* two successive cycles on one trajectory are near each other.            *)
ASSUME StateAssumption ==
  \A tr \in Trajectories, t \in 0 .. Horizon :
    /\ StateAt(tr, t) \in States
    /\ Solved(tr) =>
         /\ StateAt(tr, 0) = tr.start
         /\ \A u \in t .. Horizon :
              u <= t + DeltaTime => Near(StateAt(tr, t), StateAt(tr, u))

ASSUME SectionAssumption ==
  \A tr \in Trajectories, t \in 0 .. Horizon :
    /\ SectionAt(tr, t) \in Nat
    /\ \A u \in t .. Horizon : SectionAt(tr, t) <= SectionAt(tr, u)

VARIABLES
  input,    \* the caller's ruckig_input_t
  current,  \* otg->current_input and current_input_initialized
  engine,   \* otg->waypoint_engine
  output,   \* the caller's ruckig_output_t with its trajectory
  call,     \* the last call
  result,   \* what it returned, "NONE" for one without a result code
  passed,   \* the caller gave a state to the input since the last update
  moves     \* departures of the caller so far

vars == <<input, current, engine, output, call, result, passed, moves>>

Inputs   == [plan: Plans, state: States, budget: Budgets]
Searches ==
  [active: BOOLEAN, complete: BOOLEAN, found: BOOLEAN, identity: Plans,
   next: 1 .. NumCandidates + 1, best: 0 .. Horizon]
Outputs ==
  [valid: BOOLEAN, trajectory: Trajectories, time: 0 .. Horizon,
   state: States, section: Nat, sectionChanged: BOOLEAN,
   newCalculation: BOOLEAN, interrupted: BOOLEAN]

TypeOK ==
  /\ input \in Inputs
  /\ current \in [initialized: BOOLEAN, plan: Plans, state: States,
                  budget: Budgets]
  /\ engine \in Searches
  /\ output \in Outputs
  /\ call \in {"create", "input", "update", "calculate", "reset"}
  /\ result \in OkResults \cup Errors \cup {"NONE"}
  /\ passed \in BOOLEAN
  /\ moves \in 0 .. MaxMoves

-----------------------------------------------------------------------------
(* The waypoint engine, seen from outside: a cursor over the candidates.   *)

HasWaypoints(p) == p \in WaypointPlans

\* ruckig_waypoint_resume_clear.  Horizon stands for DBL_MAX; identity_input
\* keeps its content, which nothing reads while the engine is inactive.
Cleared(e) ==
  [e EXCEPT !.active = FALSE, !.complete = FALSE, !.found = FALSE,
            !.next = 1, !.best = Horizon]

\* ruckig_waypoint_resume_can_continue
CanContinue ==
  /\ HasWaypoints(input.plan)
  /\ input.budget # "none"
  /\ engine.active
  /\ ~engine.complete
  /\ input.plan = engine.identity

\* The candidates of K that beat a duration, and the one the engine keeps:
\* a strict comparison in evaluation order leaves the first of the shortest.
Improving(p, s, K, bound) ==
  {k \in K : Duration(p, s, k) # Infeasible /\ Duration(p, s, k) < bound}

BestOf(p, s, K, bound) ==
  CHOOSE k \in Improving(p, s, K, bound) :
    \A j \in Improving(p, s, K, bound) :
      \/ Duration(p, s, k) < Duration(p, s, j)
      \/ Duration(p, s, k) = Duration(p, s, j) /\ k <= j

TrajectoryOf(p, s, k) ==
  [plan |-> p, start |-> s, candidate |-> k, duration |-> Duration(p, s, k)]

\* The last candidate a fresh optimisation evaluates when nothing stops it.
LastCandidate(p, s) ==
  IF Improving(p, s, 1 .. Openers, Horizon) = {} THEN Openers ELSE NumCandidates

\* Where a run over the candidates from .. last may be interrupted: after a
\* candidate, at the first one for an expired budget, anywhere or nowhere
\* for a positive one.
Interruptions(from, last) ==
  IF input.budget = "zero" /\ from <= last THEN {from} ELSE from .. last

MayComplete(from, last) == input.budget # "zero" \/ from > last

-----------------------------------------------------------------------------
(* The end of every update: sample the trajectory one cycle further.       *)

Tick(t) == IF t + DeltaTime <= Horizon THEN t + DeltaTime ELSE Horizon

\* Fault: staying in a section counts as a change.
SampledAnySection(tr, time, section, new, interrupted) ==
  [valid          |-> TRUE,
   trajectory     |-> tr,
   time           |-> Tick(time),
   state          |-> StateAt(tr, Tick(time)),
   section        |-> SectionAt(tr, Tick(time)),
   sectionChanged |-> SectionAt(tr, Tick(time)) >= section,
   newCalculation |-> new,
   interrupted    |-> interrupted]

Sampled(tr, time, section, new, interrupted) ==
  [valid          |-> TRUE,
   trajectory     |-> tr,
   time           |-> Tick(time),
   state          |-> StateAt(tr, Tick(time)),
   section        |-> SectionAt(tr, Tick(time)),
   sectionChanged |-> SectionAt(tr, Tick(time)) > section,
   newCalculation |-> new,
   interrupted    |-> interrupted]

ResultAt(tr, time) == IF time > tr.duration THEN "FINISHED" ELSE "WORKING"

\* Fault: the time of the old trajectory is kept.
PublishKeepsTime(tr, interrupted) ==
  /\ output'  = Sampled(tr, output.time, 0, TRUE, interrupted)
  /\ current' = [initialized |-> TRUE, plan |-> input.plan,
                 state |-> StateAt(tr, Tick(output.time)),
                 budget |-> input.budget]
  /\ result'  = ResultAt(tr, Tick(output.time))

\* publish_new_trajectory_to_output, then the sample
Publish(tr, interrupted) ==
  /\ output'  = Sampled(tr, 0, 0, TRUE, interrupted)
  /\ current' = [initialized |-> TRUE, plan |-> input.plan,
                 state |-> StateAt(tr, Tick(0)), budget |-> input.budget]
  /\ result'  = ResultAt(tr, Tick(0))

\* Fault: output.time starts again although nothing was published.
FollowRestarts(interrupted) ==
  LET tr == output.trajectory IN
  /\ output'  = Sampled(tr, 0, output.section, FALSE, interrupted)
  /\ current' = [current EXCEPT !.state = StateAt(tr, Tick(0))]
  /\ result'  = ResultAt(tr, Tick(0))

\* no publication: the trajectory at hand is sampled further
Follow(interrupted) ==
  LET tr == output.trajectory IN
  /\ output'  = Sampled(tr, output.time, output.section, FALSE, interrupted)
  /\ current' = [current EXCEPT !.state = StateAt(tr, Tick(output.time))]
  /\ result'  = ResultAt(tr, Tick(output.time))

\* an error return before the sample
Refuse(error, valid, interrupted) ==
  /\ output'  = [output EXCEPT !.valid = valid, !.newCalculation = FALSE,
                               !.interrupted = interrupted]
  /\ result'  = error
  /\ UNCHANGED current

-----------------------------------------------------------------------------
(* ruckig_update, one action per way through the calculation.              *)

\* An update whose input was not given a state since the last one leaves the
\* documented loop; the caller does so at most MaxMoves times.
BeginUpdate ==
  /\ passed \/ moves < MaxMoves
  /\ moves'  = IF passed THEN moves ELSE moves + 1
  /\ passed' = FALSE
  /\ call'   = "update"
  /\ UNCHANGED input

\* Fault: a changed target goes unnoticed.
MatchesStateOnly ==
  /\ current.initialized
  /\ input.state = current.state
  /\ HasWaypoints(input.plan) \/ input.budget = current.budget

InputMatchesCurrent ==
  /\ current.initialized
  /\ input.plan = current.plan
  /\ input.state = current.state
  /\ HasWaypoints(input.plan) \/ input.budget = current.budget

NeedsCalculation == ~output.valid \/ ~InputMatchesCurrent

\* The engine as the calculation finds it: an input without waypoints or
\* without a budget has dropped any resumable search by then.
EngineKept == HasWaypoints(input.plan) /\ input.budget # "none"
DropEngine == engine' = Cleared(engine)

\* No waypoints, no budget: ruckig_calculate into the output's trajectory,
\* which is invalidated before the solver runs.
UpdateTarget ==
  /\ NeedsCalculation /\ ~HasWaypoints(input.plan) /\ input.budget = "none"
  /\ BeginUpdate /\ DropEngine
  /\ \/ input.plan \in Rejected /\ Refuse("INVALID_INPUT", FALSE, FALSE)
     \/ /\ input.plan \notin Rejected
        /\ Duration(input.plan, input.state, 1) = Infeasible
        /\ Refuse("ERROR", FALSE, FALSE)
     \/ /\ input.plan \notin Rejected
        /\ Duration(input.plan, input.state, 1) # Infeasible
        /\ Publish(TrajectoryOf(input.plan, input.state, 1), FALSE)

\* No waypoints and a budget: the solver works in a scratch trajectory; a
\* valid incumbent without waypoints is kept when the budget has elapsed.
HasIncumbent ==
  output.valid /\ current.initialized /\ ~HasWaypoints(current.plan)

UpdateTargetInterruptible ==
  /\ NeedsCalculation /\ ~HasWaypoints(input.plan) /\ input.budget # "none"
  /\ BeginUpdate /\ DropEngine
  /\ \/ /\ input.plan \in Rejected
        /\ Refuse("INVALID_INPUT", output.valid, FALSE)
     \/ /\ input.plan \notin Rejected
        /\ Duration(input.plan, input.state, 1) = Infeasible
        /\ Refuse("ERROR", output.valid, FALSE)
     \/ /\ input.plan \notin Rejected
        /\ Duration(input.plan, input.state, 1) # Infeasible
        /\ HasIncumbent
        /\ Follow(TRUE)
     \/ /\ input.plan \notin Rejected
        /\ Duration(input.plan, input.state, 1) # Infeasible
        /\ ~HasIncumbent \/ input.budget # "zero"
        /\ Publish(TrajectoryOf(input.plan, input.state, 1), FALSE)

\* Waypoints, no budget: a complete solve that leaves no engine behind.  A
\* capacity error returns before the output's trajectory is invalidated.
UpdateWaypoints ==
  LET p    == input.plan
      s    == input.state
      all  == 1 .. LastCandidate(p, s)
  IN
  /\ NeedsCalculation /\ HasWaypoints(p) /\ input.budget = "none"
  /\ BeginUpdate /\ DropEngine
  /\ \/ /\ p \in OverOtg \cup OverOutput
        /\ Refuse("INVALID_INPUT", output.valid, FALSE)
     \/ /\ p \in Rejected \ (OverOtg \cup OverOutput)
        /\ Refuse("INVALID_INPUT", FALSE, FALSE)
     \/ /\ p \notin Rejected \cup OverOtg \cup OverOutput
        /\ Improving(p, s, all, Horizon) = {}
        /\ Refuse("ERROR", FALSE, FALSE)
     \/ /\ p \notin Rejected \cup OverOtg \cup OverOutput
        /\ Improving(p, s, all, Horizon) # {}
        /\ Publish(TrajectoryOf(p, s, BestOf(p, s, all, Horizon)), FALSE)

\* Waypoints and a budget: a fresh optimisation.  Both capacity errors leave
\* a search of an earlier plan in the engine; the one of the ruckig_t comes
\* after the output's trajectory has been invalidated.
RefuseWaypoints ==
  /\ NeedsCalculation /\ EngineKept
  /\ BeginUpdate
  /\ \/ /\ input.plan \in OverOutput
        /\ Refuse("INVALID_INPUT", output.valid, FALSE)
        /\ UNCHANGED engine
     \/ /\ input.plan \in OverOtg \ OverOutput
        /\ Refuse("INVALID_INPUT", FALSE, FALSE)
        /\ UNCHANGED engine
     \/ /\ input.plan \in Rejected \ (OverOtg \cup OverOutput)
        /\ Refuse("INVALID_INPUT", FALSE, FALSE)
        /\ DropEngine

\* The engine after evaluating the candidates up to stop, the best of which
\* lasts `best'; it is complete unless the run was interrupted.
EngineAt(p, stop, interrupted, best) ==
  [active   |-> interrupted,
   complete |-> ~interrupted,
   found    |-> TRUE,
   identity |-> p,
   next     |-> stop + 1,
   best     |-> best]

StartRun(stop, interrupted) ==
  LET p    == input.plan
      s    == input.state
      best == TrajectoryOf(p, s, BestOf(p, s, 1 .. stop, Horizon))
  IN
  \/ /\ Improving(p, s, 1 .. stop, Horizon) # {}
     /\ engine' = EngineAt(p, stop, interrupted, best.duration)
     /\ Publish(best, interrupted)
  \/ /\ Improving(p, s, 1 .. stop, Horizon) = {}
     /\ engine' = [Cleared(engine) EXCEPT !.identity = p]
     /\ Refuse(IF interrupted THEN "EXECUTION_TIME" ELSE "ERROR",
               FALSE, interrupted)

StartWaypoints ==
  LET last == LastCandidate(input.plan, input.state) IN
  /\ NeedsCalculation /\ EngineKept
  /\ input.plan \notin Rejected \cup OverOtg \cup OverOutput
  /\ BeginUpdate
  /\ \/ \E stop \in Interruptions(1, last) : StartRun(stop, TRUE)
     \/ MayComplete(1, last) /\ StartRun(last, FALSE)

\* The trajectory is followed and nothing is left to calculate.
UpdateFollow ==
  /\ ~NeedsCalculation /\ ~CanContinue
  /\ BeginUpdate
  /\ Follow(FALSE)
  /\ IF EngineKept THEN UNCHANGED engine ELSE DropEngine

\* The trajectory is followed and an interrupted search goes on first, from
\* the state the input has now.  What it finds replaces the trajectory only
\* if it is shorter than what remains of it.
Remaining ==
  IF output.trajectory.duration > output.time
  THEN output.trajectory.duration - output.time ELSE 0

\* what the resumed search has to beat
ResumeBound ==
  IF 0 < Remaining /\ Remaining < engine.best THEN Remaining ELSE engine.best

\* Faults: a candidate that does not save more than two cycles is thrown
\* away, and everything the search accepted is published.
PublishesByCycles(duration) == duration + 2 * DeltaTime < Remaining
PublishesAnything(duration) == TRUE

WorthPublishing(duration) == duration < Remaining

ResumeRun(stop, interrupted) ==
  LET p   == input.plan
      s   == input.state
      K   == engine.next .. stop
      new == TrajectoryOf(p, s, BestOf(p, s, K, ResumeBound))
  IN
  \/ /\ Improving(p, s, K, ResumeBound) = {}
     /\ engine' = EngineAt(p, stop, interrupted, ResumeBound)
     /\ Follow(interrupted)
  \/ /\ Improving(p, s, K, ResumeBound) # {}
     /\ engine' = EngineAt(p, stop, interrupted, new.duration)
     /\ \/ WorthPublishing(new.duration) /\ Publish(new, interrupted)
        \/ ~WorthPublishing(new.duration) /\ Follow(interrupted)

UpdateResume ==
  /\ ~NeedsCalculation /\ CanContinue
  /\ BeginUpdate
  /\ \/ \E stop \in Interruptions(engine.next, NumCandidates) :
          ResumeRun(stop, TRUE)
     \/ MayComplete(engine.next, NumCandidates) /\ ResumeRun(NumCandidates, FALSE)

Update ==
  \/ UpdateTarget \/ UpdateTargetInterruptible
  \/ UpdateWaypoints \/ RefuseWaypoints \/ StartWaypoints
  \/ UpdateFollow \/ UpdateResume

-----------------------------------------------------------------------------
(* The caller between two updates.                                         *)

Move == moves < MaxMoves /\ moves' = moves + 1

\* a call on the input alone
OnInput ==
  /\ call' = "input" /\ result' = "NONE"
  /\ UNCHANGED <<current, engine, output>>

\* ruckig_output_pass_to_input
PassToInput ==
  /\ ~passed
  /\ input'  = [input EXCEPT !.state = output.state]
  /\ passed' = TRUE
  /\ OnInput
  /\ UNCHANGED moves

\* a measured state, written through ruckig_input_current_position_data
SetState(s) ==
  /\ Move
  /\ input'  = [input EXCEPT !.state = s]
  /\ passed' = TRUE
  /\ OnInput

\* any of the setters of targets, limits and intermediate positions
SetPlan(p) ==
  /\ Move
  /\ input.plan # p
  /\ input' = [input EXCEPT !.plan = p]
  /\ OnInput
  /\ UNCHANGED passed

\* ruckig_input_set/clear_interrupt_calculation_duration
SetBudget(b) ==
  /\ Move
  /\ input.budget # b
  /\ input' = [input EXCEPT !.budget = b]
  /\ OnInput
  /\ UNCHANGED passed

\* ruckig_calculate with the same handle, into a trajectory of the caller's:
\* it drops the search and touches nothing else of the loop.
Calculate ==
  /\ Move
  /\ call' = "calculate"
  /\ DropEngine
  /\ result' =
       IF input.plan \in Rejected \cup OverOtg THEN "INVALID_INPUT"
       ELSE IF Improving(input.plan, input.state,
                         IF HasWaypoints(input.plan)
                         THEN 1 .. LastCandidate(input.plan, input.state)
                         ELSE {1}, Horizon) = {}
            THEN "ERROR" ELSE "WORKING"
  /\ UNCHANGED <<input, current, output, passed>>

\* ruckig_reset
Reset ==
  /\ Move
  /\ call' = "reset" /\ result' = "NONE"
  /\ DropEngine
  /\ current' = [current EXCEPT !.initialized = FALSE]
  /\ UNCHANGED <<input, output, passed>>

-----------------------------------------------------------------------------

\* ruckig_create, ruckig_output_create and a filled-in input.  The content of
\* the fresh current_input, engine identity and trajectory is never read.
Init ==
  \E p \in Plans, s \in States, b \in Budgets :
    /\ input   = [plan |-> p, state |-> s, budget |-> b]
    /\ current = [initialized |-> FALSE, plan |-> p, state |-> s,
                  budget |-> "none"]
    /\ engine  = [active |-> FALSE, complete |-> FALSE, found |-> FALSE,
                  identity |-> p, next |-> 1, best |-> Horizon]
    /\ output  = [valid |-> FALSE,
                  trajectory |-> [plan |-> p, start |-> s, candidate |-> 1,
                                  duration |-> 0],
                  time |-> 0, state |-> s, section |-> 0,
                  sectionChanged |-> FALSE, newCalculation |-> FALSE,
                  interrupted |-> FALSE]
    /\ call    = "create"
    /\ result  = "NONE"
    /\ passed  = TRUE
    /\ moves   = 0

Next ==
  \/ Update
  \/ PassToInput
  \/ \E s \in States : SetState(s)
  \/ \E p \in Plans : SetPlan(p)
  \/ \E b \in Budgets : SetBudget(b)
  \/ Calculate
  \/ Reset

Spec == Init /\ [][Next]_vars

-----------------------------------------------------------------------------
(* What the loop promises.                                                 *)

\* current_input and the output agree on the trajectory being followed: its
\* plan, the commanded state and the time it was sampled at.  Everything that
\* decides whether the next update recalculates is read from this pair.
CommandedState ==
  output.valid /\ current.initialized =>
    /\ output.trajectory.plan = current.plan
    /\ Solved(output.trajectory)
    /\ output.state = current.state
    /\ output.state = StateAt(output.trajectory, output.time)
    /\ output.section = SectionAt(output.trajectory, output.time)

\* A search that may be resumed is one for the plan being followed and has
\* found something: its identity was copied from an input that was published.
ResumableSearch ==
  engine.active =>
    /\ current.initialized
    /\ engine.found
    /\ engine.identity = current.plan
    /\ HasWaypoints(current.plan)
    /\ engine.next > 1

\* The machine never follows a trajectory slower than the best one the search
\* knows: whatever the search found was published in the cycle that found it,
\* although the comparison is made against a deadline that moves every cycle.
NeverSlowerThanBest ==
  (engine.active \/ engine.complete) /\ output.valid =>
    output.trajectory.duration <= output.time + engine.best

\* Together the loop invariant: the engine's promises rest on one another and
\* on the types, the output's on the types alone; no update, and nothing the
\* caller does in between, breaks one of them.
LoopInv ==
  TypeOK /\ CommandedState /\ ResumableSearch /\ NeverSlowerThanBest

Updated  == call' = "update"
Succeeds == Updated /\ result' \in OkResults

\* A successful update follows the caller's plan.  The one exception is an
\* incumbent kept because the budget of a plan without waypoints ran out, and
\* then the output says so.
HonoursInput ==
  [][Succeeds =>
       \/ output'.trajectory.plan = input.plan
       \/ /\ output'.interrupted
          /\ ~output'.newCalculation
          /\ ~HasWaypoints(input.plan)]_vars

\* A caller that feeds the commanded state back never sees it jump, whatever
\* happens to plans, budgets and searches in between.
NoJump ==
  [][Succeeds /\ input.state = output.state =>
       Near(output.state, output'.state)]_vars

\* Between publications the trajectory only goes forward: the time and the
\* section never move back, and a section change is reported when it happens.
OnlyForward ==
  [][Succeeds /\ ~output'.newCalculation =>
       /\ output'.trajectory = output.trajectory
       /\ output'.time >= output.time
       /\ output'.section >= output.section
       /\ output'.sectionChanged = (output'.section # output.section)]_vars

\* The plain loop (same plan and budget, the commanded state passed back)
\* replaces its trajectory only by a resumed search, and only when that ends
\* strictly sooner than what was left of the old one.
OnlyShorter ==
  [][(/\ Succeeds /\ output'.newCalculation
      /\ output.valid /\ current.initialized
      /\ input.plan = current.plan /\ input.budget = current.budget
      /\ input.state = output.state)
     => /\ engine.active
        /\ output'.trajectory.duration + output.time
             < output.trajectory.duration]_vars

\* "If a background resume cycle is interrupted without a publishable
\* candidate, the old trajectory remains valid and is sampled normally.  The
\* result remains RUCKIG_WORKING": it does not once that trajectory has ended.
ResumeKeepsWorking ==
  [][UpdateResume /\ output'.interrupted /\ ~output'.newCalculation =>
       result' = "WORKING"]_vars

-----------------------------------------------------------------------------
(* Liveness.  A control loop calls ruckig_update and passes its output back *)
(* every cycle, which is weak fairness of the two calls; the caller's other *)
(* calls are never obliged to happen.                                       *)

Loop == WF_vars(Update) /\ WF_vars(PassToInput)
FairSpec == Spec /\ Loop

\* A search does not go on for ever while updates succeed, even if every
\* cycle's budget is spent when the cycle starts: the budget is only looked at
\* after a candidate.  (A plan that is refused leaves an old search alone.)
SearchEnds ==
  []<>(~engine.active \/ (call = "update" /\ result \in Errors))

\* The loop ends in the goal or in an error it keeps reporting: resumed
\* searches cannot replace the trajectory for ever.
Settles ==
  <>[](call = "update" => result \in {"FINISHED"} \cup Errors)

\* Whatever the caller leaves behind, the plain loop comes to an end of its own.
LoopSettles == SearchEnds /\ Settles

\* A new target is followed in the end, unless it is refused or the budget
\* never leaves time for it; the clock is fair if a positive budget is not
\* missed every time.
ClockIsFair == SF_vars(UpdateTargetInterruptible /\ output'.newCalculation)

PlanFollowed ==
  ClockIsFair =>
    <>[](call = "update" =>
           \/ input.budget = "zero"
           \/ result \in Errors
           \/ output.valid /\ output.trajectory.plan = input.plan)
=============================================================================
