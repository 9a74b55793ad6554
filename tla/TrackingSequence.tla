--------------------------- MODULE TrackingSequence ---------------------------
(***************************************************************************)
(* A tracking handle and a sequence continuation: the calculation of a     *)
(* sequence of targets that a time budget may stop, between candidates in  *)
(* Optimized mode and between targets in Fast mode, and that later calls   *)
(* resume (tracking_sequence.c, 105 to 153 and 440 to 1052; the setters of *)
(* tracking.c).                                                            *)
(*                                                                         *)
(* The continuation keeps what the calculation needs: its input, its       *)
(* targets, the settings of the handle, the search of the cycle under way, *)
(* the outputs that are done.  The handle lends it a solver and scratch    *)
(* space, which other uses of the handle overwrite between two calls, as   *)
(* its setters change the settings.                                        *)
(*                                                                         *)
(* A call runs to its end before anything else happens: between the action *)
(* that enters it and the one that returns, running is TRUE and only the   *)
(* actions of the calculation are enabled.                                 *)
(***************************************************************************)
EXTENDS TrackingCandidates

CONSTANTS
  HandleSettings,  \* the settings a caller gives to the handle
  Requests,        \* the calculations a caller asks for
  WaypointPlaces,  \* inputs with intermediate positions
  OtherPlans,      \* what other uses of the handle leave in it
  Origin,          \* a new input
  MaxFailures,     \* bounds how often a caller resumes what failed
  NoRun,           \* see CompleteSequence
  NoPlan           \* an invalid trajectory, an uninitialised solver

VARIABLES
  (* the handle *)
  settings,
  otg,        \* the input the solver remembers: place and aim
  work,       \* the trajectory in work_output and how far it was followed
  workPlace,  \* current state of work_input
  best,       \* scratch copy of the best aim
  (* the continuation *)
  cont,
  (* the caller *)
  output,     \* the places in the caller's output sequence
  result,     \* of the last call about the continuation
  (* the call under way *)
  running,
  saved,      \* the settings to restore
  (* history *)
  chosen,     \* the settings the caller chose
  drifted,    \* a Fast cycle ran by other settings than the captured ones
  failures

handle == <<settings, otg, work, workPlace, best>>
vars == <<handle, cont, output, result, running, saved, chosen, drifted, failures>>

Budgets  == {"none", "zero", "positive"}
Statuses == {"none", "optimized", "fast_fallback", "fast", "error"}
Memories == [at : Places, aim : Aims]
Plans    == [from : Places, aim : Aims, age : Nat]

\* ruckig_tracking_create
Default ==
  [mode |-> "fast", strategy |-> "balanced", reactiveness |-> 1,
   look_ahead |-> 1, max |-> 16]

ASSUME SequenceAssumption ==
  /\ MaxFailures \in Nat
  /\ HandleSettings \subseteq Settings /\ Default \in HandleSettings
  /\ Requests \subseteq [place : Places, budget : Budgets, targets : TargetSequences]
  /\ WaypointPlaces \subseteq Places
  /\ Origin \in Places
  /\ OtherPlans \subseteq Plans
  /\ \A p \in OtherPlans : Move(p.from, p.aim, p.age) \in Places
  /\ NoPlan \notin Plans /\ NoPlan \notin Memories

\* A motion goes on as it would if it were planned again on its way: true of
\* time-optimal motions, not of those stretched to a minimum duration.
ASSUME PlanAssumption ==
  \A p \in Places, a \in Aims : Solvable(p, a) =>
    \A n \in 1 .. Capacity :
      /\ Move(p, a, n) \in Places
      /\ Solvable(Move(p, a, n), a)
      /\ Move(Move(p, a, n), a, 1) = Move(p, a, n + 1)

Continuations ==
  [place : Places, budget : Budgets, targets : TargetSequences \cup {<<>>},
   settings : Settings, prefix : Seq(Places),
   active : BOOLEAN, interrupted : BOOLEAN, complete : BOOLEAN,
   search : Searches \cup {Idle},
   stopped : BOOLEAN,                          \* this cycle, by the budget
   status : Statuses, optimized : Nat, fallback : Nat,
   exhausted : BOOLEAN]                        \* budget_exhausted_count > 0

\* tracking_sequence_continuation_clear_state; the input stays
Cleared(c) ==
  [c EXCEPT !.targets = <<>>, !.settings = Default, !.prefix = <<>>,
            !.active = FALSE, !.interrupted = FALSE, !.complete = FALSE,
            !.search = Idle, !.stopped = FALSE, !.status = "none",
            !.optimized = 0, !.fallback = 0, !.exhausted = FALSE]

Remaining(c) == Len(c.targets) - Len(c.prefix)
Target(c)    == c.targets[Len(c.prefix) + 1]
Cycle(c)     ==
  [place |-> c.place, settings |-> c.settings,
   window |-> Window(c.targets, Len(c.prefix), c.settings)]

-----------------------------------------------------------------------------
(* Between two calls: the setters, and every other use of the handle.       *)

Choose(s) ==
  /\ ~running
  /\ s \in HandleSettings
  /\ settings' = s
  /\ chosen' = s
  /\ UNCHANGED <<work, workPlace, best, cont, output, result, running, saved,
                 drifted, failures>>

SetMode ==
  \E m \in {"fast", "optimized"} : Choose([settings EXCEPT !.mode = m]) /\ otg' = NoPlan

SetOptimizedStrategy ==
  \E s \in Strategies : Choose([settings EXCEPT !.strategy = s]) /\ otg' = NoPlan

SetReactiveness ==
  \E r \in Reactivenesses : Choose([settings EXCEPT !.reactiveness = r]) /\ otg' = NoPlan

SetLookAheadCycles ==
  \E n \in 1 .. MaxLookAhead : Choose([settings EXCEPT !.look_ahead = n]) /\ otg' = NoPlan

SetMaxOptimizedCandidates ==
  \E s \in HandleSettings :
    Choose([settings EXCEPT !.max = s.max]) /\ UNCHANGED otg

\* An online update or another sequence: the solver follows another plan, in
\* work_output or in an output of the caller.
OtherUse ==
  /\ ~running
  /\ \E p \in OtherPlans :
       /\ otg' = [at |-> Move(p.from, p.aim, p.age), aim |-> p.aim]
       /\ work' \in {work, p}
       /\ workPlace' \in {p.from, Move(p.from, p.aim, p.age)}
       /\ best' = p.aim
  /\ UNCHANGED <<settings, cont, output, result, running, saved, chosen,
                 drifted, failures>>

-----------------------------------------------------------------------------
(* The calls.                                                               *)

\* tracking_sequence_process_fast and _optimized, up to their loops
Enter(c) ==
  /\ ~running
  /\ running' = TRUE
  /\ saved' = settings
  /\ cont' = [c EXCEPT !.active = TRUE, !.interrupted = FALSE, !.complete = FALSE]
  /\ output' = c.prefix
  /\ IF c.settings.mode = "fast"
     THEN /\ settings' = [settings EXCEPT !.mode = "fast", !.strategy = c.settings.strategy]
          /\ workPlace' = c.place
          /\ otg' = NoPlan
     ELSE settings' = c.settings /\ UNCHANGED <<otg, workPlace>>
  /\ UNCHANGED <<work, best, result, chosen>>

\* what tracking_sequence_continuation_capture_start stores
Captured(q) ==
  [Cleared(cont) EXCEPT !.place = q.place, !.budget = q.budget, !.targets = q.targets,
                        !.settings = settings]

StartInterruptible ==
  \E q \in Requests :
    /\ q.place \notin WaypointPlaces
    /\ Enter(Captured(q))
    /\ drifted' = FALSE /\ failures' = 0

\* the continuation's input has no room for intermediate positions
StartRefused ==
  /\ ~running
  /\ \E q \in Requests : q.place \in WaypointPlaces
  /\ cont' = Cleared(cont)
  /\ result' = "failed"
  /\ drifted' = FALSE
  /\ UNCHANGED <<handle, output, running, saved, chosen, failures>>

\* whether it was interrupted or failed
Resume ==
  /\ cont.targets # <<>> /\ Remaining(cont) > 0
  /\ failures <= MaxFailures
  /\ Enter(cont)
  /\ UNCHANGED <<drifted, failures>>

ResumeComplete ==
  /\ ~running
  /\ cont.targets # <<>> /\ Remaining(cont) = 0
  /\ output' = cont.prefix
  /\ result' = "working"
  /\ UNCHANGED <<handle, cont, running, saved, chosen, drifted, failures>>

\* arguments that do not fit: dimensions, capacity, delta_time, no sequence
Refuse ==
  /\ ~running
  /\ result' = "refused"
  /\ UNCHANGED <<handle, cont, output, running, saved, chosen, drifted, failures>>

Reset ==
  /\ ~running
  /\ cont' = Cleared(cont)
  /\ result' = "none"
  /\ drifted' = FALSE
  /\ UNCHANGED <<handle, output, running, saved, chosen, failures>>

-----------------------------------------------------------------------------
(* How a call returns.                                                      *)

\* Fault: an interrupted cycle starts over
StoppedAfresh(c) ==
  [c EXCEPT !.active = TRUE, !.interrupted = TRUE, !.complete = FALSE, !.search = Idle]

Stopped(c) == [c EXCEPT !.active = TRUE, !.interrupted = TRUE,  !.complete = FALSE]
Finished(c) == [c EXCEPT !.active = FALSE, !.interrupted = FALSE, !.complete = TRUE]
Failed(c)   == [c EXCEPT !.active = FALSE, !.interrupted = FALSE, !.complete = FALSE]

Return(c, r) ==
  /\ cont' = c
  /\ result' = r
  /\ running' = FALSE
  /\ settings' = saved
  /\ saved' = Default     \* the call's local copy is gone

GoOn(c) ==
  /\ cont' = c
  /\ UNCHANGED <<result, running, settings, saved>>

\* ruckig_interrupt_context_check: a budget of zero is always spent
Checks(budget) ==
  CASE budget = "none" -> {FALSE}
    [] budget = "zero" -> {TRUE}
    [] OTHER           -> BOOLEAN

\* Fault: only the calls that work restore the settings
FailAtOnce(c) ==
  /\ cont' = Failed(c) /\ result' = "failed" /\ running' = FALSE
  /\ failures' = failures + 1
  /\ saved' = Default
  /\ UNCHANGED <<settings, output, chosen>>

Fail(c) ==
  /\ Return(Failed(c), "failed")
  /\ failures' = failures + 1
  /\ UNCHANGED <<output, chosen>>

-----------------------------------------------------------------------------
(* Fast mode: one target after the other, on the handle's own solver.       *)

FastRunning == running /\ cont.settings.mode = "fast"

\* the solver still follows a plan to this aim
Follows(aim) == work # NoPlan /\ otg = [at |-> workPlace, aim |-> aim]

FastPlan(aim) ==
  IF Follows(aim) THEN [work EXCEPT !.age = @ + 1]
  ELSE [from |-> workPlace, aim |-> aim, age |-> 1]

Reached(p) == Move(p.from, p.aim, p.age)

\* Fault: the continuation's input stays where it was
ExtendedInPlace(c, to) == [c EXCEPT !.prefix = Append(@, to)]

\* one more target is done
Extended(c, to) == [c EXCEPT !.place = to, !.prefix = Append(@, to)]

Drifts ==
  drifted' = (drifted \/ settings.reactiveness # cont.settings.reactiveness
                      \/ settings.look_ahead # cont.settings.look_ahead)

\* Fault: a call that is stopped hands over no outputs.
FastReturnsNothing(c) ==
  IF Remaining(c) = 0
  THEN Return(Finished([c EXCEPT !.status = "fast"]), "working") /\ output' = c.prefix
  ELSE \E stop \in Checks(c.budget) :
         IF stop
         THEN /\ Return(Stopped([c EXCEPT !.status = "fast", !.exhausted = TRUE]), "working")
              /\ UNCHANGED output
         ELSE GoOn(c) /\ UNCHANGED output

FastReturns(c) ==
  IF Remaining(c) = 0
  THEN Return(Finished([c EXCEPT !.status = "fast"]), "working") /\ output' = c.prefix
  ELSE \E stop \in Checks(c.budget) :
         IF stop
         THEN /\ Return(Stopped([c EXCEPT !.status = "fast", !.exhausted = TRUE]), "working")
              /\ output' = c.prefix
         ELSE GoOn(c) /\ UNCHANGED output

FastCycle ==
  LET aim == FastAim(Target(cont), settings)
      to  == Reached(FastPlan(aim)) IN
  /\ FastRunning
  /\ workPlace \notin VelocityPlaces /\ aim # NoAim
  /\ Follows(aim) \/ Solvable(workPlace, aim)
  /\ work' = FastPlan(aim)
  /\ otg' = [at |-> to, aim |-> aim]
  /\ workPlace' = to
  /\ FastReturns(Extended(cont, to))
  /\ Drifts
  /\ UNCHANGED <<best, chosen, failures>>

FastFails ==
  LET aim == FastAim(Target(cont), settings) IN
  /\ FastRunning
  /\ \/ (workPlace \in VelocityPlaces \/ aim = NoAim) /\ work' = work
     \/ /\ workPlace \notin VelocityPlaces /\ aim # NoAim
        /\ ~Follows(aim) /\ ~Solvable(workPlace, aim)
        /\ work' = NoPlan
  /\ Fail([cont EXCEPT !.status = "error"])
  /\ Drifts
  /\ UNCHANGED <<otg, workPlace, best>>

-----------------------------------------------------------------------------
(* Optimized mode: one candidate after the other.                           *)

OptimizedRunning == running /\ cont.settings.mode = "optimized"

BeginCycle ==
  /\ OptimizedRunning /\ cont.search = Idle
  /\ ~Unsearchable(Cycle(cont))
  /\ GoOn([cont EXCEPT !.search = Fresh])
  /\ workPlace' = cont.place
  /\ otg' = NoPlan
  /\ UNCHANGED <<work, best, output, chosen, drifted, failures>>

BeginFails ==
  /\ OptimizedRunning /\ cont.search = Idle
  /\ Unsearchable(Cycle(cont))
  /\ Fail([cont EXCEPT !.status = "error"])
  /\ \/ UNCHANGED <<workPlace, otg>>                 \* the targets are not finite
     \/ workPlace' = cont.place /\ otg' = NoPlan     \* the input is not for tracking
  /\ UNCHANGED <<work, best, drifted>>

\* ruckig_calculate overwrites the trajectory in work_output, not its time
Calculated ==
  LET c == Cycle(cont) r == cont.search IN
  IF Aim(c, r) = NoAim \/ Spent(c, r) THEN work
  ELSE IF ~Scored(c, r) THEN NoPlan
  ELSE [from |-> cont.place, aim |-> Aim(c, r), age |-> IF work = NoPlan THEN 0 ELSE work.age]

Searching == OptimizedRunning /\ cont.search # Idle /\ cont.search.phase # "finish"

TryCandidate ==
  LET next == [cont EXCEPT !.search = Tried(Cycle(cont), @)] IN
  /\ Searching
  /\ ~Fails(Cycle(cont), cont.search)
  /\ workPlace' = cont.place
  /\ best' = next.search.best
  /\ work' = Calculated
  /\ IF next.search.phase = "finish" THEN GoOn(next) /\ UNCHANGED output
     ELSE \E stop \in Checks(cont.budget) :
            IF stop
            THEN Return(Stopped([next EXCEPT !.stopped = TRUE]), "working") /\ output' = cont.prefix
            ELSE GoOn(next) /\ UNCHANGED output
  /\ UNCHANGED <<otg, chosen, drifted, failures>>

\* The diagnostics of the cycle say so, those of the sequence do not.
CandidateFails ==
  /\ Searching
  /\ Fails(Cycle(cont), cont.search)
  /\ workPlace' = cont.place
  /\ best' = cont.search.best
  /\ work' = Calculated
  /\ Fail([cont EXCEPT !.search = Stuck(Cycle(cont), @)])
  /\ UNCHANGED <<otg, drifted>>

\* tracking_accumulate_diagnostics
Accumulated(c) ==
  [c EXCEPT !.optimized = IF c.search.improved THEN @ + 1 ELSE @,
            !.fallback  = IF c.search.improved THEN @ ELSE @ + 1,
            !.exhausted = @ \/ c.search.exhausted \/ c.stopped,
            !.search = Idle, !.stopped = FALSE]

FinalStatus(c) ==
  IF c.fallback > 0 \/ c.optimized # Len(c.targets) THEN "fast_fallback" ELSE "optimized"

OptimizedReturns(c) ==
  IF Remaining(c) = 0
  THEN Return(Finished([c EXCEPT !.status = FinalStatus(c)]), "working")
  ELSE \E stop \in Checks(c.budget) :
         IF stop
         THEN Return(Stopped([c EXCEPT !.status = "fast_fallback", !.exhausted = TRUE]), "working")
         ELSE GoOn(c)

\* The solver is reset, since work_output holds the plan of the candidate that
\* was tried last, and starts from the place the last candidate step left.
FinishCycle ==
  LET plan == [from |-> workPlace, aim |-> cont.search.best, age |-> 1]
      c    == Accumulated(Extended(cont, Reached(plan))) IN
  /\ OptimizedRunning /\ cont.search # Idle /\ cont.search.phase = "finish"
  /\ best' = cont.search.best
  /\ work' = plan
  /\ otg' = [at |-> Reached(plan), aim |-> plan.aim]
  /\ output' = c.prefix
  /\ OptimizedReturns(c)
  /\ UNCHANGED <<workPlace, chosen, drifted, failures>>

-----------------------------------------------------------------------------
Init ==
  /\ settings = Default
  /\ otg = NoPlan /\ work = NoPlan /\ best = NoAim
  /\ workPlace = Origin
  /\ cont = [place |-> Origin, budget |-> "none", targets |-> <<>>,
             settings |-> Default, prefix |-> <<>>,
             active |-> FALSE, interrupted |-> FALSE, complete |-> FALSE,
             search |-> Idle, stopped |-> FALSE, status |-> "none",
             optimized |-> 0, fallback |-> 0, exhausted |-> FALSE]
  /\ output = <<>>
  /\ result = "none"
  /\ running = FALSE /\ saved = Default
  /\ chosen = Default
  /\ drifted = FALSE
  /\ failures = 0

Setters == SetMode \/ SetOptimizedStrategy \/ SetReactiveness
           \/ SetLookAheadCycles \/ SetMaxOptimizedCandidates
Calls   == StartInterruptible \/ StartRefused \/ Resume \/ ResumeComplete \/ Refuse
Inside  == FastCycle \/ FastFails \/ BeginCycle \/ BeginFails
           \/ TryCandidate \/ CandidateFails \/ FinishCycle

Next == Setters \/ OtherUse \/ Calls \/ Reset \/ Inside

Spec == Init /\ [][Next]_vars

-----------------------------------------------------------------------------
(* Safety.                                                                  *)

\* The types of the handle's and the continuation's fields: counts stay
\* within the sequence, and an index within its family.
TypeOK ==
  /\ settings \in Settings /\ saved \in Settings /\ chosen \in HandleSettings
  /\ otg \in Memories \cup {NoPlan}
  /\ work \in Plans \cup {NoPlan}
  /\ workPlace \in Places
  /\ best \in Aims \cup {NoAim}
  /\ cont \in Continuations
  /\ cont.search # Idle => cont.search.index < Width(Cycle(cont), cont.search.phase)
  /\ output \in Seq(Places)
  /\ result \in {"none", "working", "failed", "refused"}
  /\ running \in BOOLEAN /\ drifted \in BOOLEAN
  /\ failures \in Nat

\* tracking_sequence_assert_continuation_consistent, which debug builds
\* evaluate after every call: what the accessors of the continuation tell a
\* caller about it agrees with what is stored in it.
Consistent ==
  /\ Len(cont.prefix) <= Len(cont.targets)
  /\ cont.active => Remaining(cont) > 0
  /\ cont.complete => ~cont.active /\ Remaining(cont) = 0
  /\ cont.interrupted => cont.active /\ ~cont.complete
  /\ cont.search # Idle => cont.settings.mode = "optimized" /\ Remaining(cont) > 0

\* Between two calls the handle has the settings that its caller chose,
\* whatever sequences with other settings were resumed on it and however the
\* calls ended.
SettingsRestored == ~running => settings = chosen

\* A caller of a call that worked, complete or interrupted, holds exactly the
\* outputs that are done.
OutputIsPrefix == ~running /\ result = "working" => output = cont.prefix

\* Together: what the continuation stores, what it tells of itself and what its
\* caller holds agree, between any two steps of a sequence.
ContinuationCoherent == TypeOK /\ Consistent /\ OutputIsPrefix

\* The best candidate of an unfinished cycle and its score survive
\* interruptions together: the aim that is stored can be reached from the
\* place that is stored, and is worth the score that is stored.
BestIsWorthItsScore ==
  LET c == Cycle(cont) r == cont.search IN
  r # Idle /\ r.phase # "fast" =>
    /\ r.best \in Aims /\ Solvable(c.place, r.best)
    /\ r.best_score = Score(c.place, r.best, c.window, c.settings.strategy)
                      * (IF r.improved THEN Ratio(c) ELSE 10000)

\* A cycle tries at most the candidates it was captured with, over all the
\* calls it takes, if none of them failed.
WithinBudget ==
  cont.search # Idle /\ failures = 0 =>
    /\ cont.search.count <= cont.settings.max
    /\ cont.search.count = cont.search.valid + cont.search.rejected

\* Together: what an interrupted cycle goes on with is true of the candidates
\* it has tried.
CycleResumable == BestIsWorthItsScore /\ WithinBudget

\* Without the near ties of the aggressive preset, the score of the best
\* candidate of a cycle never rises, over all the calls it takes.
NeverWorse ==
  [][/\ cont.search # Idle /\ cont'.search # Idle
     /\ cont.search.phase # "fast" /\ cont'.search.phase # "fast"
     /\ cont.settings.strategy # "aggressive"
     => cont'.search.best_score <= cont.search.best_score]_vars

-----------------------------------------------------------------------------
(* What the documents say of the continuation and of Optimized mode.        *)

\* ruckig_tracking_sequence_continuation_get_last_diagnostics, with
\* tracking_public_diagnostic_code
PublicCode(c) ==
  CASE c.targets = <<>>           -> "unsupported"   \* unstarted
    [] c.active \/ c.interrupted  -> "interrupted"
    [] c.complete                 -> "none"
    [] c.exhausted                -> "interrupted"
    [] c.status = "error"         -> "unsupported"
    [] OTHER                      -> "none"

\* After a call that failed, and was not cut short by a budget before, the
\* getter shows the error state.
FailureShown ==
  ~running /\ result = "failed" /\ ~cont.exhausted => PublicCode(cont) = "unsupported"

\* A cycle counts as optimized only if the objective of its best candidate
\* is better than the Fast candidate's; otherwise the Fast result stays.
OptimizedImproves ==
  LET r == cont.search IN
  r # Idle /\ r.phase = "finish" /\ r.improved /\ cont.settings.strategy # "aggressive" =>
    Score(cont.place, r.best, Cycle(cont).window, cont.settings.strategy) < r.fast

-----------------------------------------------------------------------------
(* Refinement.                                                              *)

Stage ==
  IF cont.complete THEN "complete" ELSE IF cont.active THEN "running" ELSE "failed"

\* A Fast calculation that drifted is not the one that was asked for.
Asked ==
  IF cont.targets = <<>> \/ drifted THEN NoRun
  ELSE [stage |-> Stage, targets |-> cont.targets, settings |-> cont.settings,
        place |-> cont.place, done |-> cont.prefix, optimized |-> cont.optimized,
        search |-> cont.search]

Complete == INSTANCE CompleteSequence WITH run <- Asked

ASSUME NoRunAssumption == NoRun \notin Complete!Runs

\* However often it is interrupted and resumed, and whatever happens to the
\* handle in between, a sequence gets the outputs, the choices and the
\* failures of the uninterrupted calculation.
SameAsUninterrupted == Complete!Spec

-----------------------------------------------------------------------------
(* Liveness.  The caller goes on resuming, and a call runs to its end.      *)

\* weak fairness of Inside, of which one action is enabled while running
CallsRun == []<>~running \/ []<><<Inside>>_vars

FairSpec == Spec /\ WF_vars(Resume) /\ CallsRun

\* Resuming gets a sequence done, even with a budget that is always spent:
\* it is looked at after a candidate or a target.  Otherwise the calculation
\* fails, or the caller begins others for ever or has none.
SequenceEnds ==
  \/ []<>(cont.complete \/ failures > 0 \/ cont.targets = <<>>)
  \/ []<><<StartInterruptible>>_vars
=============================================================================
