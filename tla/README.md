# ruckig_c in TLA+

Models, model checks and machine-checked proofs for `src/src/ruckig_c`, the C
port of the Ruckig online trajectory generator. Paths below are relative to the
directory that holds `src/`; a bare `x.c` is `src/src/ruckig_c/x.c`.

Most of the library's bulk is floating-point root finding. Its *logic*, which
is what these modules are about, is the control around it: what a control cycle
remembers of the one before, how an optimisation is stopped by a budget and
resumed from another state, how several axes agree on one duration, how a
tracked sequence is calculated in pieces by a handle that does other things in
between, what an input store accepts and compares, and what a sampled
trajectory shows. Where the arithmetic is simple enough to be exact, in
fractions or on a grid, it is modelled too.

| Component | Module | Instance | Proofs |
|---|---|---|---|
| Online update loop | `RuckigUpdate` | `MCRuckigUpdate` | `RuckigUpdateProofs` |
| The loop on a line of stops (composition) | `WaypointPath` | `MCWaypointPath` | `RuckigUpdateProofs` |
| Duration (and, in part, phase) synchronisation | `TimeSync` | `MCTimeSync` | `TimeSyncProofs` |
| Waypoint engine | `WaypointEngine` | `MCWaypointEngine` | `WaypointEngineProofs` |
| What the engine promises its callers | `AnytimeSearch` (abstract) | | refined by `WaypointEngine` |
| Candidate search of Optimized tracking | `TrackingCandidates` (operators) | | `TrackingCandidatesProofs` (lemmas) |
| Tracking handle and sequence continuation | `TrackingSequence` | `MCTrackingSequence` | `TrackingSequenceProofs` |
| A tracked sequence calculated in one piece | `CompleteSequence` (abstract) | | refined by `TrackingSequence` |
| Online tracking updates | `TrackingUpdate` | `MCTrackingUpdate` | `TrackingUpdateProofs` |
| Input store | `InputStore` | `MCInputStore` | `InputStoreProofs` |
| What the input store promises | `InputContract` (abstract) | | refined by `InputStore` |
| Profiles and trajectory sampling | `Profile` (operators), `Trajectory` | `MCTrajectory` | `TrajectoryProofs` |
| First and second order solvers, blocks | `StepSolvers`, `Fractions` (operators) | `MCStepSolvers` | |

## 1. Inventory

### Components

**Online update loop** (`ruckig.c:1323-1846`, `output.c`). State: in the
`ruckig_t`, `current_input` with its `initialized` flag and the waypoint engine;
in the caller's `ruckig_output_t`, the trajectory, the time along it, the
commanded state, the section and two flags. Operations: `ruckig_update`,
`ruckig_output_pass_to_input`, `ruckig_calculate` (offline), `ruckig_reset`, and
the setters of the input. `ruckig_update` compares the input with
`current_input`, calculates, resumes a search or does nothing, may publish a
trajectory, and samples one cycle further. *Correct when* `current_input` and
the output always describe the same trajectory, a resumed search belongs to the
plan being followed, the commanded state never jumps, time and section only go
forward between publications, and the machine is never left on something
slower than what the search already knows.

**Waypoint engine** (`waypoint.c`, `interrupt_context.h`). State: phase, flags,
best duration and candidate, the candidate under work, the cursor of the
refinement, the queue and cursor of the branch search (`internal.h:179-221`).
Operations: `ruckig_calculate_waypoints`, its interruptible form,
`ruckig_waypoint_resume_continue`, `ruckig_waypoint_resume_clear`. *Correct
when* every call returns, the best only improves, a search goes on exactly
where it was stopped, and a resumed call publishes only what ends sooner than
what is being followed.

**Duration synchronisation** (`calculate_with_ops` and its helpers,
`ruckig.c:161-410, 831-895`, `block.c`). State: the blocks, profiles and
independent durations on the caller's trajectory, which outlive a calculation.
*Correct when* the common duration is the first possible one, nothing is given
up that has a solution, every axis follows its own request, and all arrive
together.

**Phase synchronisation** (`ruckig.c:897-1261`). Copies the timing of the
limiting axis to others. *Correct when* an axis it touched either fits or is
replaced.

**Input store** (`input.c`). State: values per input, degree of freedom,
intermediate position and section, validity flags of the optional ones, the
number of intermediate positions in use; in the solver, a copy. Operations: the
setters and clears, the getters, `ruckig_validate_input`, the copy a publication keeps and
three comparisons. *Correct when* a caller reads back what was set for the
present sections and nothing that was set for others, inputs called equal mean
the same plan, an accepted input can be planned with, and the solver remembers
a published plan whole.

**Tracking update** (`tracking.c`, `tracking_update.c`). A target tracker on top
of the target solver. State: in the `ruckig_tracking_t`, the settings (mode,
preset, reactiveness, look-ahead, candidate limit), the solver with the input it
remembers, and scratch inputs and outputs. Operations: the setters, the online
updates, the complete sequence. Fast mode aims at one prediction; Optimized mode
tries five families of candidates around it, within a budget, and keeps the
best. *Correct when* the budget holds, the best is what it is worth, and
Optimized is never reported as better than Fast when it is not.

**Tracking sequence continuation** (`tracking_sequence.c`). State: a copy of the
input, the targets, the settings, the outputs that are done, the search of the
cycle under way, flags and diagnostics. Operations: start, resume, reset and the
accessors. A start or a resume puts the captured settings into the handle,
works until the sequence or the time budget ends, and puts the old ones back.
*Correct when* the outputs are those of the calculation in one piece, whatever
happened to the handle between two calls, the flags agree with what is stored,
and an error leaves neither completion nor interruption reported.

**Trajectory sampling** (`trajectory.c`, `profile.c`). State: sections with a
profile for each degree of freedom, their ends, validity. Operations: writing
sections, `at_time` over sections, brakes and pieces, extrapolation beyond the end,
position extrema, first time at a position. *Correct when* no sample jumps, the limits
hold between the ends of pieces too, the extrema are reached and not passed, and the first
time at a position is the first.

**Profile solvers** (`position_*`, `velocity_*`, `profile.c`, `block.c`,
`brake.c`, `roots.c`). Stateless. Step 1 finds the fastest profile and the block
of durations that are impossible, step 2 a profile of a given duration, the
checks in `profile.c` decide what is accepted. *Correct when* step 2 has a profile for
exactly the durations that step 1 does not block.

**Object creation** (`alloc.c` and the create functions), **diagnostics**
(records describing a result), and what lies outside the library: bindings,
tools, examples and the vendored C++ original.

### How they interact

There are no threads, locks or callbacks. All interaction is by calls on shared
objects that live longer than a call:

* the `ruckig_t` carries `current_input` and the engine from cycle to cycle; an
  offline `ruckig_calculate` on the same handle clears the engine;
* the output's trajectory is overwritten by publications and read by samples;
  its blocks survive into the next calculation;
* the engine calls the target solver for every section of every candidate, in
  a scratch trajectory, and writes the caller's only when it publishes;
* a tracking handle calls the target solver in the same way, and is itself
  lent to the continuations of sequences: any number of them use its solver,
  its scratch space and, while a call runs, its settings.

### What is hard

Long sequences of legal calls (plans, budgets, measured states, resets and
offline solves between cycles), state that outlives a call and is read by a
later one from another state, a budget that may stop a search after any
candidate, the order of publication and sampling within a cycle, errors that
leave a trajectory or an engine behind, and loops bounded by an argument that is
nowhere checked. `PROJECT.json` lists each hazard at its line with the
properties that cover it.

## 2. Plan

In this order; all but the last are done, and all but 9 have proofs (3 as what 4 is
proved to implement).

1. `RuckigUpdate`: the loop, with the engine as a cursor over candidates.
2. `TimeSync`: `calculate_with_ops` on a reused trajectory.
3. `AnytimeSearch`: what the engine promises.
4. `WaypointEngine`: the phases, and the proof that they keep that promise.
5. `TrackingCandidates`, `CompleteSequence`, `TrackingSequence`: the candidate
   search, a sequence in one piece, and the interruptible sequence that
   implements it.
6. `TrackingUpdate`: the online updates, several outputs on one handle, and the
   handle's diagnostics, on `TrackingCandidates`.
7. `InputContract`, `InputStore`: settings of sections, validation, copies and
   comparisons, as an implementation of the contract.
8. `Profile`, `Trajectory`: checks of profiles, sections, sampling and queries.
9. `StepSolvers`: both steps in exact arithmetic, for the assumption of 2 that
   step 2 finds every duration that is not blocked.
10. `WaypointPath`: 1 composed with a machine on a line of stops.
11. *Left*: the third order position solvers and the brakes, which need
    irrational numbers; and the cursor of 1 as a refinement of `AnytimeSearch`, so
    that the two views of the engine are one.

Theorem worth proving next: the refinement of the last item above.

## 3. The models

### RuckigUpdate: the online loop

| In the module | In the code |
|---|---|
| `input`, `current`, `output` | the caller's `ruckig_input_t`, `otg->current_input`, the caller's `ruckig_output_t` |
| `engine` | `otg->waypoint_engine`: flags, `identity_input`, `best_duration`, and `next`, the first candidate not yet evaluated |
| `UpdateTarget`, `UpdateTargetInterruptible` | a plan without intermediate positions, without and with a budget |
| `UpdateWaypoints`, `RefuseWaypoints`, `StartWaypoints` | a plan with them: a complete solve, a refusal, a search that may be stopped |
| `UpdateFollow`, `UpdateResume` | nothing to calculate; a stopped search goes on |
| `PassToInput`, `SetState`, `SetPlan`, `SetBudget`, `Calculate`, `Reset` | the caller between two updates |

Each update action is the whole call: calculation, publication, sample and
result. `call`, `result`, `passed` and `moves` record the last call, what it
returned, whether the input was given a state since, and how many departures the
caller has made.

*Abstractions.* A plan is everything in an input but its state and budget. The
solver is `Duration(plan, state, k)`, the duration of candidate `k`, or
`Infeasible`; the candidates of a resumed search are those not evaluated yet,
which leaves out that the engine's later candidates depend on its earlier ones
(`WaypointEngine` has that). `StateAt` and `SectionAt` say where a trajectory
is. The tolerance of 1e-12 in the publication rule is exact here. Internal
errors that only allocation failure or an invalid handle causes are left out.

*Bounds.* `Horizon` saturates `output.time` past every end and stands for
`DBL_MAX`. `MaxMoves` limits the departures of the caller from the plain loop
(update, pass to input, update, ...); the plain loop itself is unlimited.

*An assumption to know about.* `StateAssumption` says that a trajectory starts
in the state it was planned from. The finding on stale blocks below is a case
where the solver breaks it, so `NoJump` is a statement about the loop given a
solver that does its part.

### TimeSync: one duration for several axes

`calculate_with_ops`, one axis or one pass at a time: `Step1` (each axis alone:
`Disabled`, `SolveAlone`, `NoTrajectoryAlone`), `Finalize` (minimum duration,
discrete rounding, limiting axis), `BeginPass`, `VisitBlock`, `EndAdjustment`
(`adjust_duration_for_blocks`), `ApplyNone`, `EndNone` (unsynchronised axes),
`PhaseSync`, `Step2`, `Finish`. `Calculate` begins the next calculation **on the
same trajectory object**: `blocks`, `profiles` and `independent` keep what they
had, as in the code. `start` and `adjusted` are history.

*Abstractions.* A motion is all that is known of one axis. Step 1 finds
`MinDuration` and two gaps; step 2 has a profile for every duration outside
them. When a profile belongs to another motion than the request, step 2 may
succeed or fail. Whether phase synchronisation fits, and at which axis it fails,
is open. Comparisons up to an epsilon are exact and time is discrete. When step 1
fails, the block is left as it was. `NoMinimum` is -1, below every duration, in
place of a flag.

### WaypointEngine: the optimiser

| In the module | In the code |
|---|---|
| `run` | the call under way and its interrupt context |
| `phase`, `active`, `complete`, `found`, `fresh`, `bestDuration` | the engine's fields; `fresh` is `has_published_candidate` |
| `best`, `candidate` | the two pairs of velocity and acceleration arrays |
| `refine`, `branch` | the two cursors, with the saved original and the queue |
| `trajectory`, `left` | the caller's trajectory and the remaining duration a resumed call is given |
| `Baseline`, `FiniteDifference035/070`, `GiveUp`, `RefineInit`, `Refine`, `BranchInit`, `EndBranch`, `BuildQueue`, `HalveStep`, `TryMove` | the cases of `waypoint_engine_step` and the two step functions; one candidate is one step, because the budget is looked at after a candidate |
| `Start`, `RefuseStart`, `Resume`, `ReturnOffline`, `ReturnInitial`, `ReturnResume`, `Cancel` | the three calls, split at their searches, and the callers' clears |

`rejected` is history: the candidates refused since `best` was accepted.

*Abstractions.* The coordinates are numbered in the order the code visits them,
so "component, axis, waypoint" is one number. Values are counted in fortieths, which
makes 0.25, 0.10 and 0.20 halved down to 0.025 whole for a range of 40;
`\div` cuts smaller ones. `Duration(plan, start, candidate)` stands for solving
all sections. With exact arithmetic all entries of a queue have one lower bound
(it depends on the best duration and the step alone), so the queue is in the
order of the coordinates; in floating point the last bit may differ, which would
only reorder it. `Free(plan)` lists the coordinates that have a range; it is a
constant so that the proofs need no recursion. The caller hands one trajectory
to all calls. The branch that clears the engine when a resumed publication fails
is in the model; `JudgedFromHere` shows that it is unreachable as long as the
solver gives the same answer twice in one call. Fields kept for diagnostics only
are left out.

### AnytimeSearch: what the engine promises

Six variables: the call, its plan and start, whether a search may be resumed,
the caller's trajectory, and what remains of it. A first call answers with a feasible
trajectory for its own plan and state or fails and leaves nothing to resume; a
resumed call never fails and answers only with what ends before the trajectory
being followed. `WorthPublishing`, phases, queues and budgets are not in it.
`WaypointEngine` implements it under

    call <- run.kind, plan <- identity, start <- run.start,
    resumable <- active, answer <- trajectory

### WaypointPath: the loop on a line of stops

`RuckigUpdate` with its constants defined: `Stops(plan)` are the intermediate
positions and the target of a plan, a candidate goes from the place the calculation
started at to each of them in order at its `Pace`, and the solver's answer, the
state and the section at a time follow from that. `stage` is history: how many
stops, in order, the machine came to since the plan is followed. Neither
`ruckig_output_pass_to_input` nor a resumed search takes a passed position off the
list, so a search that improves late sends the machine back to the first;
`StopsVisited` says what holds nevertheless.

`OnALine` collects what the module asks of its constants: places are numbers, each
plan has a target, candidates take at least a cycle for a unit of the way, and the loop's
`Duration`, `StateAt` and `SectionAt` are those of the line. It is a condition and
not an `ASSUME`, so that it does not weaken what is proved of the loop alone;
`MCWaypointPath` assumes it, and TLC evaluates it there.

### TrackingCandidates: one step of the candidate search

Operators only. A *cycle* is the place it starts from, the window of targets it
may look at, and the settings; a *search* is the record a continuation stores:
phase (family), index, the Fast baseline, the best aim with its score, three
counters. `Tried` is `try_tracking_candidate` with the loop around it:
the candidate's `Aim`, whether the budget is `Spent`, whether the calculation
`Fails`, the verdict (`Baseline`, `Beats`, `NearTie`), the counters, and the
advance to the next candidate or family.

*Abstractions.* A place is all the solver starts from, kinematic state and
limits. `Predict`, `Blend` and `Damp` make aims of targets, `Solvable` and `Move` are
the solver, `Score` and `TerminalError` the objective: real functions in the
code, constants here. Compared scores are counted in ten-thousandths so that the
bonus of the families (0.998, 0.9975) is whole, and the epsilon of 1e-12 is a
strict comparison.

### TrackingSequence: a handle lent to a sequence

| In the module | In the code |
|---|---|
| `settings` | the setting fields of the `ruckig_tracking_t` |
| `otg`, `work`, `workPlace`, `best` | what other uses overwrite: the solver's remembered input, `work_output`, `work_input`, the best-aim scratch |
| `cont` | the `ruckig_tracking_sequence_continuation_t` |
| `output`, `result` | what the caller's last call left |
| `running`, `saved` | a call under way and the settings it will restore |
| `SetMode`, ..., `OtherUse` | the setters; online updates and other sequences |
| `StartInterruptible`, `StartRefused`, `Resume`, `ResumeComplete`, `Refuse`, `Reset` | the calls about a continuation, up to their loops |
| `FastCycle`, `FastFails` | an iteration of `tracking_sequence_process_fast` |
| `BeginCycle`, `BeginFails`, `TryCandidate`, `CandidateFails`, `FinishCycle` | an iteration of `tracking_sequence_process_optimized`, one candidate a step |

While `running`, only the last two rows are enabled, and the action that ends the
call is also the step that finds its budget spent. `chosen`, `drifted` and
`failures` are history: what the caller set, whether a Fast cycle ran by
settings other than the captured ones, and how often the sequence failed.

*Drift.* In Fast mode a resume restores the captured mode and preset but goes
by the handle's present reactiveness and look-ahead. Nothing in the repository
says which is meant, so it is not a finding; from such a cycle on, the
refinement asks nothing of the sequence.

*Abstractions.* The outputs are places. A Fast cycle follows the plan it has
while the aim stays the same; `PlanAssumption` says that planning anew on the
way gives the same motion, which is true of time-optimal motions and is what
makes Fast comparable with `CompleteSequence`. Audit counters and the handle's
own diagnostics are left out; of the continuation's diagnostics the status and
what its public code depends on are kept. Arguments that do not fit are
`Refuse`. Allocation happens at creation only.

### CompleteSequence: the same in one piece

One variable, the calculation: its targets and settings, the place reached, the
outputs, the search. Nothing can be interrupted and there is no handle. A failed
calculation may be tried again (`Retry`) and fails again. `TrackingSequence`
implements it under `run <- Asked`, the calculation stored in the continuation;
`NoRun` when there is none, or when it drifted.

### TrackingUpdate: one handle, several outputs

| In the module | In the code |
|---|---|
| `settings`, `otg`, `diagnostics` | the setting fields of the `ruckig_tracking_t`, the input its solver remembers, its diagnostics |
| `outputs` | the trajectory in each of the caller's outputs, and how far it was followed |
| `call`, `result` | the update under way, or the last one that worked, and what it returned |
| `SetMode`, ..., `SetMaxOptimizedCandidates` | the setters; all but the last reset the solver, and each clears the diagnostics |
| `Sequence` | a sequence on the same handle, which leaves something in the solver |
| `FastUpdate`, `FastUpdateFails` | an update in Fast mode: it calculates or goes on with what the output holds |
| `BeginUpdate`, `BeginFails`, `TryCandidate`, `CandidateFails`, `Publish` | an update in Optimized mode, one candidate a step |
| `Refuse` | arguments that do not fit |

A Fast update that the solver refuses leaves the output without a trajectory, a
failing Optimized one leaves the output alone. Optimized looks at every target for
finiteness, also beyond its window, Fast at the first only. The budget is looked
at after each candidate, the last included; `Checks` says what the clock may show: a
budget of zero always stops after the first, a positive one may stop after any.
`follower`, `call.own` and `call.least` are history: which output the solver
followed last, whether it was this one, and the lowest score tried.

*Abstractions.* As in `TrackingCandidates`. Of `budget_exhausted_count` it is kept
whether it is 0. The output's own interruption flag is not kept. `MaxAge` bounds how
long one trajectory is followed.

### InputContract and InputStore: what was asked for

`InputContract` is a store of settings, each given or not. Settings of sections are
given for all sections of the present number of positions, and given up when
that number changes. `InputStore` implements it under `settings <- View(input)`,
`known <- View(current_input)`: what the getters show.

A field has a scope (input, degree of freedom, intermediate position, section and
degree of freedom, or section), and its cells are laid out as in the code: the
arrays have the length of the capacity, what is beyond the present number of positions
stays in them, and an optional field counts while its flag is up. `Write`
stands for the setters without checks, `SetMode`, `SetPerDof`, `SetDuration`,
`SetIntermediatePositions`, `SetPerSection` and the clears for
the others, each with what it refuses. `Accepted` is `ruckig_validate_input`
in its order; `Equals`, `EqualsButInterrupt` and `PlanningIdentityEquals` are the three
comparisons, over the cells in use; `Calculate` validates and copies.

*Abstractions.* Numbers are integers, an infinity and NaN, with C's comparisons. A
setter is offered the values in `Offered`. Allocation failure is left out. *Bound:*
`MaxChanged`, how many fields may differ from those of a new input.

`AcceptedIsRemembered` has exceptions, named in `Unchecked`: NaN equals nothing, so
an input with a NaN that the validation does not look at is planned with and then
differs from its own copy in every cycle. One of them came out of the proof:
the limits of the one section of an input without intermediate positions are
neither checked nor used, but copied and compared (`input.c:893`, `input.c:1116`).

### Profile and Trajectory: what is sampled

`Profile` has the motion of seven pieces and a brake, the jerk patterns and the
acceptance checks of the third, second and first order functions of
`profile.c`. `Trajectory` writes sections out of proposals
that pass them (`WriteSection`, `Finish`) and samples forward (`Sample`); `Extrema`
and `FirstTime` are the queries.

*Abstractions.* Times are whole ticks, velocities are counted in halves and positions
in sixths, so that each motion is whole at every tick and the arithmetic is exact;
the tolerances of the checks are 0. The queries solve quadratics and cubics:
their roots are looked for at the ticks, and `TurnsAtTicks` and `Passed` name the
motions and positions for which that finds them all. `Proposals` stands for the
solvers: `WellFormed` says what they are given and give (a profile begins where its brake
ends, `ruckig_brake_finalize` and `ruckig_profile_set_boundary`; a brake of second order
is one piece without jerk, whose acceleration takes the place of the current one,
`BrakeStart` for `ruckig_brake_finalize_second_order`), `Accepted` that
the check was passed. *Bound:* `Beyond`, how far beyond the end is sampled.

*Conditions.* `Together`, `AllTimed`, `TurnsFound` and `AllInLimits` at the end of the
module are what the theorems of section 6 ask of the proposals; `MCTrajectory` has TLC
evaluate that the main instance meets them (`ConditionsMet`). `CurrentInLimits` and
`TargetInLimits` are the conditions of `ruckig_validate_input` on an acceleration that
has to be brought to 0, or was built up, within the velocity limits (`input.c:805`).

### StepSolvers: blocks and the durations outside them

A problem is what a solver is given: the distance, the rates at both ends, limits
and slopes. `Step1` looks for all profiles that pass the check of `profile.c`
(`None`, `Limit`, upwards and downwards) and makes a block of them as `block.c`
does, twins and all; `Step2` asks for a duration and tries the ways of the
step-2 function (`UpSteadyDown`, `UpSteadyUp`, `Smaller`) after what
`select_block_profile_for_duration` keeps. Position in second order and velocity in
third order are the same mathematics, written twice in C; the few differences
are by `order`. Position in first order and velocity in second order have one piece.
What step 1 tells the caller (`own`) is kept apart from what it stores (`block`): velocity
in second order tells a duration and leaves the block as it was
(`velocity_second_step1.c:22`). The problems are solved in a fresh trajectory, whose block is
not valid; what an old block does there is `TimeSync`'s first finding. A duration is blocked
as `adjust_duration_for_blocks` sees it: below `own`, or in a block that is valid. Step 2 is
not asked when the duration is the own one, and looks at blocks only where the code
does.

*Abstractions.* `Fractions` are exact. A problem (`Exact`) or a duration (`Unclear`)
whose answer depends on an irrational root is not looked at. `Fractions` is
recursive, so nothing is proved about this module.

## 4. The runs

| Run | Instance | Shows |
|---|---|---|
| `update` | four positions, seven plans (refused, over both capacities, infeasible from some states, improving late), four candidates of which two are openers, `MaxMoves` 3 | the safety and action properties of the loop |
| `live` | `WaypointPath`: a line of four positions; plans that turn back, have no solution from some places, have too many positions, have none; five candidates, the fastest last; `MaxMoves` 2, fair loop | `StopsVisited`, that the loop settles, and with a fair clock that a new plan is followed |
| `sync` | two axes, five motions in seven pairs, all four modes, enabled or not, discrete or not, minimum none or 5, `DeltaTime` 2 | the safety properties of a calculation after any others |
| `engine` | one pair, two starts, five landscapes of durations, a refused and an oversized plan, a queue of 3, 12 rejections, fair calls | the engine's safety, that a finished search is a local optimum, that it implements `AnytimeSearch`, and that searches end |
| `tracking` | five positions and a velocity-controlled input, targets 0, 2 and one that is not finite, look-ahead and sequences of two, five settings of the handle, six requests, one failure | the continuation's safety, that it implements `CompleteSequence`, and `SequenceEnds` |
| `tracking_update` | five positions and a velocity-controlled one, two outputs, eight requests with every kind of budget, three settings, look-ahead of two, a limit of 3 or 16 candidates | that counters, best candidate, clock and diagnostics agree, that an output does not jump, and that updates return |
| `input_store` | one degree of freedom, capacity for two positions in the input and one in the solver, eight kinds of settings, `MaxChanged` 2 | the store's types and comparisons, the contract, what is accepted, what is remembered |
| `trajectory` | two axes, one section with and without a brake or two with a position between; one axis does what is asked, the other goes along, and back | samples, limits, extrema, first times and position limits |
| `step_solvers` | 1741 problems in halves and quarters, limits and slopes of equal and different size or zero, 27 durations and the ends of each block | that step 1 and step 2 agree |
| `stale_block`, `phase` | as `sync` with fewer modes or minimums | **violations** of `OwnMotion` and `PhaseSynchronized` |
| `trajectory_limits` | two sections, the second begins at the velocity limit with an acceleration | **violation** of `WithinLimits` |

Some properties are conjunctions of parts that belong together, named and commented
in the modules: `LoopInv` of `TypeOK`, `CommandedState`, `ResumableSearch` and
`NeverSlowerThanBest`; `AdjustedRight` and `ArriveTogether` (synchronisation);
`SearchCoherent`, `SearchFinishes` (engine); `ContinuationCoherent`,
`CycleResumable` (sequences); `Reported` (online tracking), `StoreFaithful`,
`SampledRight`, `Step1Right`.

*Why the bounds are enough.* Loop: three departures are what the longest
interesting story needs (a new plan, a budget, a reset or an offline solve in the
middle of a search), and four candidates let a search be stopped before, between
and after the openers and improve in a later call. `Horizon` 7 is longer than
every duration with its detour. On the line, `Horizon` 21 is one more than the
slowest candidate takes on the longest way, five candidates let a search of one a cycle
improve after the first stop was passed, and the plan that turns back makes coming
to a place different from coming to it in order. Synchronisation: the gaps of `low` and `high`
end inside each other, so leaving one enters the next, several passes are
needed, and a minimum of 5 begins inside a gap; two axes suffice for one axis to
raise the duration into the gap of the other. Engine: one pair has a velocity
and an acceleration, which are two coordinates, so that the refinement goes from one to
the other and on to its second pass; a queue of 3 is too small for their four
moves; 12 rejections end the branch search early in some landscapes
and not in others; the landscapes have one optimum, a coordinate without a
range, many optima with infeasible candidates, an infeasible first opener, and nothing feasible.
Tracking: two targets are the fewest with a boundary between cycles, where the
search is given up and the input moves on, and a window of two has families of
more than one candidate and a last target that is not the first; the axis
reaches three positions, so some candidates are rejected and one baseline
cannot be solved; a limit of two or three candidates is spent in the second family, one
of 16 never; predictions beyond the last aim overflow; requests begin with every
kind of budget, under velocity control, and with intermediate positions.
`MaxFailures` 1 lets a failed sequence be tried again once, `OtherPlans` holds
one plan, to an aim that the sequences have too, so that a forgotten reset of the
solver would show. Online updates: two outputs are the fewest for which the
solver's memory and an output's trajectory disagree; the requests go on from one
another, so that an update follows, and one cannot be solved. Input store: two
departures from a new input are a setting of a section and the number of
positions it belongs to; the two capacities differ, so that a copy may not fit; and
`MCInputStore_accept.cfg` (section 5) goes deeper into the validation, with
three. Trajectories: durations of pieces of up to two ticks reach all eight
patterns of turning, starts are at rest, moving and accelerating, and the brakes are those
of a velocity and an acceleration beyond the limits in either order, and in second order of a
velocity beyond either limit. Solvers: the grid holds
problems with no block, one gap and two, with ties, and with rates beyond their
peak; the durations reach beyond every gap.

### Properties worth knowing

*Loop.* `CommandedState`: what decides about a recalculation and what was
commanded agree. `ResumableSearch`: a search that may be resumed is for the plan
being followed. `NeverSlowerThanBest`: whatever the search found was published
when it was found. `HonoursInput`, `NoJump`, `OnlyForward`, `OnlyShorter` are
properties of a step. `StopsVisited`: the machine is never told of a section it
has not reached in order, and FINISHED means that every stop was come to in order.

*Synchronisation.* `AdjustedRight`: no gap of a synchronised axis contains the
adjusted duration and no smaller duration was possible (`LeastUnblocked`), and the number of
passes is never used up (`BudgetSuffices`). `FailsOnlyForUnsynchronized`: step 2
fails only on account of an axis that did not take part in the adjustment.
`ArriveTogether`: the duration is long enough for all and synchronised axes take
exactly as long. `OwnMotionWithBlock`: where step 1 stores a block, each axis
follows its own request.

*Engine.* `SearchCoherent`: types, `ResumableInTheMiddle`, `OneCoordinate` (the
refinement is never more than one coordinate away from the best, also across calls),
`JudgedFromHere`. `LocallyBest` (a search that was not cut short ends where no
smallest move is better), `OnlyImproves`, the refinement `IsAnytimeSearch`, and
`SearchFinishes`: calls return, and a search that is resumed ends.

*Tracking sequences.* `ContinuationCoherent`: the flags and what is stored agree
(the assertion of the debug build), and a call that worked hands over all that
is done. `SettingsRestored`: between two calls the handle has the settings its
caller chose, however the calls ended. `CycleResumable`: aim and score of
the best candidate survive interruptions together, and the candidate limit holds
over all the calls of a cycle. `NeverWorse` is a property of a step, and
`SameAsUninterrupted` the refinement.

*Tracking updates.* `Reported`: the counters account for each candidate once, within
the limit, however the update ends, and status, counters and result agree.
`BestSoFar`: an interrupted update publishes the best of what it tried, worth what
the diagnostics report. `StopsInTime`, and `NoJump`: while the solver followed no other
output since it last forgot, an update goes on from the state of its input.
Two outputs on one handle *do* jump (`ruckig.c:1620`): that is why `own` is a hypothesis.

*Input store.* `StoreFaithful`: inputs called equal have equal settings in use (and with
a NaN never are). `AcceptedCanBePlanned`: an accepted input has limits of the right
sign on each axis and section, with what is disabled or unlimited as in the code.
`ImplementsContract`, and `AcceptedIsRemembered`: a publication leaves a copy
that shows what the input showed.

*Trajectories.* `SampledRight`: from the end of the first brake velocity and acceleration
limits hold at every tick, not only where they are checked. `ExtremaExact`, `FirstTimeFoundInMotion`,
`PositionsKept` (for profiles that turn with jerk), and `NoJumps`: a tick moves the
sample by the motion it showed, across pieces, sections and the end.

*Solvers.* `FreeIsFound`: a duration that is not blocked has a profile, which is what
`TimeSync` assumes of step 2. `BlockedIsNotFound`: one that is blocked has none, so
nothing faster is missed. `Step1Right`: step 1 fails only where ties mislead the block.

### Fairness, and why the code justifies it

* Loop (`FairSpec`): weak fairness of `Update` and of `PassToInput`, which is
  the documented control loop. The caller's other calls are never obliged.
* `ClockIsFair`: strong fairness of a calculation that finishes within a
  positive budget. The code does not guarantee that, the machine it runs on does; only
  `PlanFollowed` has it, as its hypothesis, and a budget of zero is excluded there.
* Line of stops: the same two, as `FairPathSpec`.
* Engine: weak fairness of `Search` and `Returns` (a call, once begun, runs) and
  of `Resumes` (the loop resumes a search every cycle). Not of `Begins`, so
  `SearchEnds`, the second part of `SearchFinishes`, allows a caller who keeps
  starting new searches.
* Tracking sequences: weak fairness of `Resume`, the caller who wants the sequence, and
  `CallsRun`: a call that was entered takes its steps. `CallsRun` is weak
  fairness of `Inside`, of which exactly one action is enabled while `running`,
  written without ENABLED. The code checks its budget after a candidate or a
  target, so even a budget of zero makes progress; `SequenceEnds` allows a caller
  who keeps starting other sequences.
* Tracking updates: `CallsRun` alone, in the same form.

Deadlock is checked in every run but two: a trajectory is sampled up to its end
(`Trajectory`), and a request is answered once (`StepSolvers`).

## 5. Findings

Where the code does otherwise than the repository says. Three are runs of the
project:

1. **A stale block is taken for an axis' own** (`stale_block`, code bug).
   Velocity control without a jerk limit stores no block, but
   `apply_none_synchronization_duration` copies the block of every
   unsynchronised axis, also one left by an earlier calculation on the same
   trajectory. Compiled against the library, a reused trajectory gives a velocity
   of 0.125 at 0.5 s where a fresh one gives 0.5.
2. **Phase synchronisation leaves unfitting profiles** (`phase`). The timing of an
   axis is overwritten before it is checked, and the fallback skips an axis whose
   own duration equals the common one. Compiled, an axis limited to velocity
   1 is commanded at 1.5. And when the duration was raised by a minimum or a gap,
   the copied timing is that of the limiting axis' fastest profile, so an axis with
   a moving target passes it early (5.82 instead of 5 at the end).
3. **Waypoint trajectories leave the velocity limits** (`trajectory_limits`).
   The engine clamps the velocity and the acceleration of an intermediate position
   each to its own limits (`waypoint.c:303`), and sections are solved without the
   checks of a current state (`ruckig.c:1446`). A section that begins near its
   velocity limit with an acceleration begins with a brake, in the middle of the
   trajectory, and the velocity overshoots. Compiled, of 2000 random trajectories from rest
   to rest with velocity limit 1, 253 exceed it with one intermediate position, 400 with
   two and 477 with three, by up to 37 %. `docs/current/test_coverage_audit.md:1143`
   says that sampled trajectories are checked against the velocity limits of their
   sections, as `test/c/test_waypoint_shared_api.c:96` does on a few inputs.

The others have a configuration each, for `tlc -config X.cfg <MC module>`; it
checks one property that TLC finds violated.

| Configuration | Property | What the code does, and what is said |
|---|---|---|
| `MCRuckigUpdate_resume` | `ResumeKeepsWorking` | once the old trajectory has ended, an interrupted resume reports FINISHED while its search is active; `docs/design/interrupt_calculation_duration.md` says WORKING |
| `MCTimeSync_discrete` | `DiscreteIsMultiple` | durations are rounded before they leave the gaps and before unsynchronised axes raise them |
| `MCTrackingSequence_failure` | `FailureShown` | the error of a failed candidate is recorded for the cycle only, the continuation's public code stays NONE |
| `MCTrackingSequence_fallback` | `OptimizedImproves` | the Fast target is tried again among the optimised families, with their bonus: it beats itself, and the step counts as optimized |
| `MCInputStore_nan` | `NaNRefused` | a NaN in an intermediate position, or in a position under velocity control, is accepted (`input.c:779`, `docs/current/api_diagnostics.md:27`) |
| `MCInputStore_infinite` | `InfiniteDurationTaken` | an infinite minimum duration is refused (`input.c:372`, `api_diagnostics.md:97`) |
| `MCTrajectory_limits` with `WaypointCounts = {0}` | `WithinLimits` | step 2 may stretch a profile with less jerk than the input's (`position_third_step2.c:1456`), and the turn in its first piece is not checked (`profile.c:198`), since with the input's jerk the validation has seen to it; compiled, 712 of 2.3 million inputs near their limits that pass `validate(true, true)` exceed the velocity limit. `README.md:188` of the original says they are guaranteed to be within the limits throughout |
| `MCTrajectory_positions` | `PositionsKept` | turning points are looked for in pieces with jerk only (`profile.c:523`), for the extrema (`ruckig.h:159`) and so for the position limits of waypoint sections (`waypoint.c:382`, `docs/design/0.4.0_original_parity.md:52`); compiled, a minimum of -3 is accepted for a trajectory without jerk limit that reaches -4.65 |
| `MCTrajectory_velocity` | `ExtremaReached` | the final position of a profile is compared too, and under velocity control it is the 0 it was created with (`profile.c:559`, `ruckig.h:159`) |
| `MCTrajectory_disabled` | `ExtremaReached` | the profile of a disabled axis is empty, and its zeros are reported as extrema of an axis that stands elsewhere (`ruckig.c:416`, `api_diagnostics.md:117`) |
| `MCTrajectory_brake` | `FirstTimeFound` | the first time at a position is counted from the end of the brake (`profile.c:571`, `ruckig.h:796`) |
| `MCTrajectory_none` | `NoJumps` | without synchronisation a section lasts as long as its longest profile; an axis that is done earlier is moved on and jumps back (`waypoint.c:333`, `docs/design/0.4.0_original_parity.md:47`) |
| `MCStepSolvers_ties` | `AnyStateIsSolved` | only twins of opposite direction are removed: an even number of profiles from a tie in one direction is an error (`block.c:79`, `README.md:22` of the original) |
| `MCWaypointPath_once` | `NotPassedTwice` | a search that improves late sends the machine back to a position it has passed, and its section is reported again (`output.c:66`, `output_parameter.hpp:84` of the original) |

Also seen, without a sentence they contradict: the extrema skip the second part of a
brake whose first part is empty; the first time after a given time is not found
inside a piece at rest; extrema and first times say nothing of the motion beyond the end.
`MCInputStore_accept.cfg` is a further passing configuration: validation with
`MaxChanged` 3, on other values.

## 6. The proofs

All theorems hold for every value of the constants that meets the named
assumptions. `tlapm` checks each leaf; nothing is assumed without proof but
those assumptions.

**RuckigUpdateProofs.** The inductive invariant is `LoopInv`, which the run `update` checks: `TypeOK`,
`CommandedState`, `ResumableSearch` and `NeverSlowerThanBest` together. None is
inductive alone: that a published search result keeps the last one needs the
engine's identity (the third), which needs the followed plan to be the
`current_input`'s (the second). Lemmas reduce the many ways through an update to
an outcome (refused, published or followed) with a search outcome; that the engine
keeps a shortest candidate (`BestOf`, a CHOOSE) rests on `LeastNatural`. The four
action properties follow from the invariant. Assumptions: `PlanAssumption`,
`BoundAssumption`, `DurationAssumption`, `StateAssumption`, `SectionAssumption`.

The last part of the module is `WaypointPath`: `StopsVisitedHolds`, for every line, plan
and pace that is `OnALine`. `PathInv` adds to `StopsVisited` that the history
is the number of a stop of the followed plan, and that a valid output has a solved
trajectory and its section at its time. Two facts of the line carry it: the
way to a stop grows with its number (`WayGrows`), so that the section of a time,
which is counted, is the last stop within reach (`SectionCounts`); and a cycle is at
most one unit of the way, so that a stop passed in a cycle is where the machine stands at
its end (`PassedIsHere`). Hence sampling keeps the history up with the trajectory
(`HistoryKeepsUp`), and a publication, which begins at the commanded state, starts it
right (`HistoryBegins`). Sums over a sequence and counting would need induction; here
a least counterexample does (`LeastNatural`). That an update only ever publishes or
follows a solved trajectory comes from `LoopInv`.

**TimeSyncProofs.** `SyncInv` adds to the types what step 1 leaves
(`AloneInv`), the minimum (`MinimumInv`), and between two looks at a block
(`AdjustInv`) that every smaller duration is blocked by some axis, that the axes visited in a
pass without change are left, and that the passes left exceed the number of ends
of intervals still ahead of the duration. That number is at most three for each axis
and every pass that moves the duration uses one up, which is why `4 * dofs + 8`
passes suffice. `TimeInv` follows the profiles to the end. `SynchronizedCanLast`
is the step from "no block forbids it" to "step 2 solves it".

**WaypointEngineProofs.** `EngineInv` is the conjunction of the types, `PassInv`
(only two passes), `SearchInv` (phase, flags and call agree: a first call has
accepted what it found, a resumed one takes up something found),
`OneCoordinate`, `JudgedFromHere` and `BranchInv` (the queue in use is that of the
present step and best candidate; what its cursor has passed is in `rejected`; a
step that has run out was used up at the smallest size). `LocallyBest` follows from
the last, `ResumableInTheMiddle` from `SearchInv`. For the refinement every search
step is `Exhaust` or a stutter and every call an action of the same name, or
`Answer`, `Fail` or `Carry`; `Answer` of a resumed call needs
`JudgedFromHere`, because the engine compares the duration it judged by and the
promise is about the one it publishes. Assumptions: `SizeAssumption`,
`PlanAssumption`, `FreeAssumption`, `DurationAssumption`.

**TrackingSequenceProofs.** `SequenceInv` consists of `Held` (the continuation: its
outputs belong to its targets, its search to the cycle that is next and is
`Sound`), `CallInv` (a call restores what the caller chose), `FlagsInv`,
`FastInv` and `FinishInv` (where the scratch space matters it is at the
place of the calculation, and a plan that is followed has been followed from one
of its places), and `BudgetInv`. The pure part is in `TrackingCandidatesProofs`, whose
lemmas up to `TriedSound` say that a step of the search keeps it sound, its best no worse and
its counters in agreement, for every objective and every solver that meet the
assumptions. All six safety properties and `NeverWorse` follow. For the
refinement the two copies of the candidates are shown to be the same
(`SameAim` to `SameTried`); a step inside a call is the step of the same name,
entering a failed calculation is `Retry`, a drift is `Forget`, and all else
stutters. Assumptions: `SizeAssumption`, `AimAssumption`, `ScoreAssumption`,
`IdleAssumption`, `SequenceAssumption`, `PlanAssumption`, `NoRunAssumption`.

**TrackingCandidatesProofs** has no theorems of its own: lemmas about the operators of
`TrackingCandidates`, which the proofs about both of its callers extend.

**TrackingUpdateProofs.** `UpdateInv` consists of the types, the properties, and two
parts that make them inductive. `SearchInv`: while a search is under way it is
`Sound` and `Thrifty`, the diagnostics have counted what it counted and marked
nothing, and it was interrupted or not as its budget says; without this the counters could
not be right when the search publishes (`CandidatesCounted`, `DiagnosticsTell`), nor the
published score (`BestSoFar`). `PlansInv`: every output's plan can be followed, and while
the solver's memory belongs to an output it is the state that output has
reached; without this a solver that compares equal could go on along another output's
trajectory (`NoJump`). There is one lemma for each action; the ends of a call have in
common that nothing is said of a state without one (`WithoutCall`).
Assumptions: `UpdateAssumption`, `PlanAssumption`, `CallAssumption`, and of the
candidates `SizeAssumption`, `AimAssumption`, `ScoreAssumption`, `IdleAssumption`.

**TrajectoryProofs.** `TrajectoryInv` says of every written section that it is a
proposal's profiles, lasts as long as each of them, begins where the one before
it ended and respects the position limits, and that the sample is the one of its time.

* *A profile is joined* (`ProfileJoined`): brake and pieces are nine segments, each of
  which begins in the state the one before it ends in. So a time on a boundary may be
  taken from either side (`StateInSegment`), one tick moves a state as its jerk says
  (`ProfileTicks`), and by the same argument for sections (`Chained`,
  `SampleTicks`) so does a trajectory: `NoJumps`.
* *Extrema*: of the times a profile is at its highest there is a last one, and at it the
  profile has put a mark (`TopIsMarked`): either a segment begins or the profile
  ends there, or the velocity turns inside a segment with jerk, which is looked
  for. The lemma has a sign for a parameter, so lows are the
  highs of the motion turned upside down. Marks are places of the profile (`MarksReached`), so the extrema
  are exact, and with `Respects` position limits hold everywhere.
* *Limits*: within a piece the velocity is between its ends, unless the acceleration
  passes 0 (`PieceKept`). The check looks at the velocities from where the third
  piece ends, and at the turns in the pieces from the third on. The first two velocities
  it does not look at: with speeding up and going on they lie between the first
  velocity and the one after them, or between it and the turn in the first
  piece, which the condition on the current state covers (`RiseAndGoOn`,
  `FirstPiecesKept`). Under velocity control no velocity is checked but
  the last: the pieces in between are empty, and a turn before the target
  is where the target's acceleration was built up from (`TurnsToTarget`). Without
  jerk velocities are between those at the ends (`FlatKept`). So each kind of
  candidate is `Kept`, and every sample with it: `SampledRight`.
* *First times*: a section tells exactly the times it is at a position
  (`TimesExact`), so the first section that tells any has the first one (`FirstFound`).

The theorems name what they need of the proposals, each because the code answers
otherwise without it, as a configuration of section 5 shows (for the brake, the note
below its table).

| Condition | What it says | Without it | Theorems |
|---|---|---|---|
| `Together` | all axes are enabled and end a section together | `MCTrajectory_none`, `MCTrajectory_disabled` | all |
| `AllInLimits` | the limits of a candidate are among those of the samples; a profile with jerk begins in a state that its jerk can stop (`CurrentInLimits`), a velocity target is one a position may have (`TargetInLimits`) and is reached by the pieces the velocity solvers use; a section brakes only at the start of the trajectory | `MCTrajectory_limits`, with one intermediate position and with none | `SampledRightHolds` |
| `TurnsFound` | `Timed`; pieces without jerk do not turn; a brake whose first piece is empty is empty | `MCTrajectory_positions`, `MCTrajectory_velocity` | `PositionsKeptHolds`, `ExtremaExactHolds` |
| `AllTimed` | a velocity target has its duration | `MCTrajectory_velocity` | `FirstTimeFoundHolds` |

`CurrentInLimits` is asked of the state a brake ends in, too. `brake.c` leads there except
where the range of velocities is too narrow to shed an acceleration in it: of random
states compiled with the library, 2.5 % end their brake in a state that needs another.

The remaining assumption, `TrajectoryAssumption`, has the grid in it (`TurnsAtTicks`): the
theorems are about every motion on the grid, not about roots between ticks.

**InputStoreProofs.** `TypeOK` is inductive as it stands: every setter writes through
`With`, and `WithHolds` says that this keeps the arrays' type when the values cover the
cells in use; `CopyHolds` says the same of the solver's copy, whose arrays may be
shorter. On it rest three results. `StoreFaithful`: what a field shows is an
array exactly while the field counts (`ShownIsUsed`), equal positions are equally many
(`SamePoints`, which needs a degree of freedom), and so each comparison sees what is
shown and nothing else (`ComparedAsShown`, once for all three). `AcceptedCanBePlanned`:
the validation and the engine read a section's limits alike, and what passes is
a number of the right sign (`SectionLimits`). `ImplementsContract`: a call that leaves
all fields but one is a `Give` (`GivesOne`), one that changes the number of positions is
a `Divide` (`DividesAnew`), and a copy shows what its source shows
(`CopyShows`), which the capacity check of the validation makes possible.
And a fourth, `AcceptedIsRemembered`: a copy equals its source unless a cell in use is
NaN; most cells are looked at by the validation, the others never hold NaN
(`Clean`, an invariant of its own: their setters look at what they are given), and
what is left are the exceptions of `Unchecked`.
Assumptions: `StoreAssumption` (finite numbers lie between the infinite ones, NaN is
none of them), `ModeAssumption` (the names of modes are not NaN) and
`NotGivenAssumption`.

The grouped properties of section 4 have theorems of their own
(`AdjustedRightHolds`, `ArriveTogetherHolds`, `SearchCoherentHolds`,
`ContinuationCoherentHolds`, `CycleResumableHolds`, `ReportedHolds`), which put their parts together.

**Model-checked only.** Liveness (`LoopSettles`, `PlanFollowed`,
`SearchFinishes`, `SequenceEnds`, `UpdateReturns`): the provers handle neither
fairness with ENABLED nor an induction over the durations still possible.
The three invariants of `StepSolvers`: its fractions and roots are computed with
recursive operators, about which nothing can be proved for every input, and that a free
duration has a profile is a statement about the roots of quadratic equations. And the violations, which need one instance each.

## 7. What is not modelled

* The third order position solvers (`position_third_step1/2.c`), the brake
  decisions (`brake.c`) and the roots of polynomials (`roots.c`): families of quartic and
  quintic equations in floating point, with tolerances, for which there is no exact small
  instance. They enter as constants: `Proposals` of a trajectory, the motions of
  `TimeSync`, the durations of the engine.
* Whether a phase-scaled profile fits: left open for the same reason, in both
  outcomes.
* A candidate search whose final solve fails: the aim was solved from the same
  place before, so the branch is unreachable in the model.
* `ruckig_filter_intermediate_positions`: a stateless geometric filter.
* Object creation: the create and destroy functions roll back what was
  allocated; the repository tests allocation failure by injection. Diagnostics records
  of the calls, which nothing in the library reads.
* Bindings, tools, examples, prototypes and the vendored C++ sources.
