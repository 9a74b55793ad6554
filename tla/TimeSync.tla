------------------------------ MODULE TimeSync ------------------------------
(***************************************************************************)
(* Target-to-target calculation (calculate_with_ops in ruckig.c): each     *)
(* axis is solved alone (step 1), a common duration is chosen, and the     *)
(* axes are stretched to it (step 2).                                      *)
(*                                                                         *)
(* Step 1 leaves a block on the trajectory: the fastest profile of the     *)
(* axis and up to two gaps, intervals of durations for which it has no     *)
(* profile.  The common duration has to leave every gap of every           *)
(* synchronised axis.  The blocks and profiles belong to the caller's      *)
(* trajectory object and are still there when it is used again, so the     *)
(* module runs one calculation after the other on the same object.         *)
(*                                                                         *)
(* A motion is everything a calculation knows of one axis: its state, its  *)
(* target, its limits and its control interface.  The solvers are          *)
(* constants: step 1 finds MinDuration and the gaps, step 2 a profile of   *)
(* every duration that is not blocked.  Time is discrete and the           *)
(* comparisons the code makes up to an epsilon are exact.                  *)
(***************************************************************************)
EXTENDS Integers, FiniteSets

CONSTANTS
  NumDofs,          \* number of axes
  Motions,          \* motions of one axis
  NoMotion,         \* a block that was never stored
  Velocity,         \* motions under velocity control
  Plain,            \* those of them without a jerk limit
  FirstOrder,       \* motions under position control without acceleration limit
  AtRest,           \* motions whose target velocity and acceleration are zero
  DeltaTime,        \* the control cycle
  Requests,         \* inputs that pass the validation
  MinDuration(_),   \* what step 1 returns for a motion
  GapA(_), GapB(_)  \* the gaps of its block; empty when left = right

Dofs       == 1 .. NumDofs
Infeasible == -1
NoMinimum  == -1
Syncs      == {"TIME", "TIME_IF_NECESSARY", "PHASE", "NONE"}
Terminal   == {"idle", "done", "unsolved", "unsynchronized"}

Solvable(m) == MinDuration(m) # Infeasible

ASSUME DofsAssumption == NumDofs \in Nat \ {0} /\ DeltaTime \in Nat

ASSUME MotionAssumption ==
  /\ NoMotion \notin Motions
  /\ Plain \subseteq Velocity /\ Velocity \subseteq Motions
  /\ FirstOrder \subseteq Motions \ Velocity
  /\ AtRest \subseteq Motions
  /\ \A m \in Motions :
       /\ MinDuration(m) \in Nat \cup {Infeasible}
       /\ GapA(m) \in [left: Nat, right: Nat]
       /\ GapB(m) \in [left: Nat, right: Nat]
       /\ m \in Plain \cup FirstOrder =>
            /\ GapA(m).left = GapA(m).right
            /\ GapB(m).left = GapB(m).right

(* One control interface for all axes, unless it is given for each; a      *)
(* discrete duration needs a control cycle (ruckig_validate_input).        *)
ASSUME RequestAssumption ==
  \A r \in Requests :
    /\ r \in [motion: [Dofs -> Motions], enabled: [Dofs -> BOOLEAN],
              sync: [Dofs -> Syncs], perDofControl: BOOLEAN,
              discrete: BOOLEAN, minimum: Nat \cup {NoMinimum}]
    /\ r.discrete => DeltaTime > 0
    /\ \A d, e \in Dofs :
         ~r.perDofControl => (r.motion[d] \in Velocity <=> r.motion[e] \in Velocity)

VARIABLES
  request,      \* the input being solved
  stage,        \* where calculate_with_ops is
  dof,          \* its loop variable
  blocks,       \* trajectory->blocks: the motion whose block is stored
  profiles,     \* trajectory->profiles
  independent,  \* trajectory->independent_min_durations
  duration,     \* sync_duration, in the end trajectory->duration
  limiting,     \* limiting_dof; NumDofs + 1 when no axis limits
  changed,      \* a pass over the blocks moved the duration
  remaining,    \* passes left (remaining_iterations)
  start,        \* history: the duration before the blocks were looked at
  adjusted      \* history: the duration after that

vars == <<request, stage, dof, blocks, profiles, independent, duration,
          limiting, changed, remaining, start, adjusted>>

(* A profile follows the boundary conditions of a motion for a time; it is *)
(* whole when it reaches the motion's target within the limits.            *)
Profiles == [of: Motions, lasts: Nat, whole: BOOLEAN]
Profile(m, t) == [of |-> m, lasts |-> t, whole |-> TRUE]

-----------------------------------------------------------------------------
(* The request                                                             *)

Enabled(d) == request.enabled[d]
Unsynchronized(d) == request.sync[d] = "NONE"

HasSynchronizedDof == \E d \in Dofs : Enabled(d) /\ ~Unsynchronized(d)
HasPhaseSynchronizedDof ==
  \E d \in Dofs : Enabled(d) /\ request.sync[d] = "PHASE"
AllSynchronizedArePhaseOrNone ==
  \A d \in Dofs : Enabled(d) => request.sync[d] \in {"PHASE", "NONE"}

\* Fault: control by degree of freedom does without blocks, too.
OpsAdjustUniform ==
  /\ ~request.perDofControl
  /\ \E d \in Dofs : request.motion[d] \notin Plain
  /\ \E d \in Dofs : request.motion[d] \notin FirstOrder

\* The first-order and the no-jerk velocity calculations do without blocks.
OpsAdjust ==
  \/ request.perDofControl
  \/ /\ \E d \in Dofs : request.motion[d] \notin Plain
     /\ \E d \in Dofs : request.motion[d] \notin FirstOrder

RoundUp(t) ==
  IF t % DeltaTime = 0 THEN t ELSE t + (DeltaTime - (t % DeltaTime))
Discretized(t) == IF request.discrete THEN RoundUp(t) ELSE t
Maximum(a, b) == IF a > b THEN a ELSE b

-----------------------------------------------------------------------------
(* Blocks                                                                  *)

Within(t, gap) == gap.left < t /\ t < gap.right

\* ruckig_block_is_blocked: the motion has no profile of this duration
IsBlocked(m, t) == t < MinDuration(m) \/ Within(t, GapA(m)) \/ Within(t, GapB(m))

\* Fault: the lower end of a gap counts as blocked.
WithinInclusive(t, gap) == gap.left <= t /\ t < gap.right
LeaveInclusive(t, gap) == IF WithinInclusive(t, gap) THEN gap.right ELSE t

Leave(t, gap) == IF Within(t, gap) THEN gap.right ELSE t

\* one look of adjust_duration_for_blocks at one block
LeaveBlock(m, t) == Leave(Leave(Maximum(t, MinDuration(m)), GapA(m)), GapB(m))

\* the blocks the adjustment looks at; a block may be older than the request
Constrains(d) == Enabled(d) /\ ~Unsynchronized(d) /\ blocks[d] # NoMotion
BlocksNow(d, t) == Constrains(d) /\ IsBlocked(blocks[d], t)

-----------------------------------------------------------------------------
(* ruckig_calculate_target                                                 *)

Calculate ==
  /\ stage \in Terminal
  /\ request' \in Requests
  /\ stage' = "step1"
  /\ dof' = 1
  /\ duration' = 0
  /\ limiting' = 1
  /\ changed' = FALSE
  /\ remaining' = 0
  /\ start' = 0
  /\ adjusted' = 0
  /\ UNCHANGED <<blocks, profiles, independent>>

-----------------------------------------------------------------------------
(* Step 1: each axis alone                                                 *)

Solved(m) == Solvable(m)

\* Fault: a block that is there is kept.
StoreFirstOnly(m) == IF blocks[dof] = NoMotion THEN [blocks EXCEPT ![dof] = m]
                                               ELSE blocks

\* velocity_second_step1 has no block to store.
StoreBlock(m) == IF m \in Plain THEN blocks ELSE [blocks EXCEPT ![dof] = m]

\* update_sync_duration_candidate
RaisesSyncDuration(t) ==
  /\ ~HasSynchronizedDof \/ ~Unsynchronized(dof)
  /\ t > duration

Disabled ==
  /\ ~Enabled(dof)
  /\ profiles' = [profiles EXCEPT ![dof] = Profile(request.motion[dof], 0)]
  /\ independent' = [independent EXCEPT ![dof] = 0]
  /\ dof' = dof + 1
  /\ UNCHANGED <<stage, blocks, duration, limiting>>

SolveAlone ==
  LET m == request.motion[dof]
      t == MinDuration(m)
  IN /\ Enabled(dof)
     /\ Solved(m)
     /\ profiles' = [profiles EXCEPT ![dof] = Profile(m, t)]
     /\ blocks' = StoreBlock(m)
     /\ independent' = [independent EXCEPT ![dof] = t]
     /\ duration' = IF RaisesSyncDuration(t) THEN t ELSE duration
     /\ limiting' = IF RaisesSyncDuration(t) THEN dof ELSE limiting
     /\ dof' = dof + 1
     /\ UNCHANGED stage

NoTrajectoryAlone ==
  /\ Enabled(dof)
  /\ ~Solved(request.motion[dof])
  /\ profiles' = [profiles EXCEPT ![dof] =
                    [of |-> request.motion[dof], lasts |-> 0, whole |-> FALSE]]
  /\ stage' = "unsolved"
  /\ UNCHANGED <<dof, blocks, independent, duration, limiting>>

Step1 ==
  /\ stage = "step1"
  /\ dof \in Dofs
  /\ Disabled \/ SolveAlone \/ NoTrajectoryAlone
  /\ UNCHANGED <<request, changed, remaining, start, adjusted>>

-----------------------------------------------------------------------------
(* The common duration                                                     *)

Finalized ==
  IF HasSynchronizedDof
  THEN Discretized(Maximum(duration, request.minimum))
  ELSE Maximum(duration, Discretized(request.minimum))

\* select_limiting_dof_for_duration: the last axis whose rounded duration it is
Selects(d) ==
  Enabled(d) /\ ~Unsynchronized(d) /\ RoundUp(independent[d]) = Finalized

SelectLimiting ==
  IF ~request.discrete THEN limiting' = limiting
  ELSE IF request.minimum # NoMinimum /\ RoundUp(request.minimum) = Finalized
       THEN limiting' = NumDofs + 1
       ELSE \/ /\ \A d \in Dofs : ~Selects(d)
               /\ limiting' = limiting
            \/ \E d \in Dofs : /\ Selects(d)
                               /\ \A e \in Dofs : e > d => ~Selects(e)
                               /\ limiting' = d

\* adjustment_iteration_budget
IterationBudget == 4 * NumDofs + 8

NeedsAdjustment == OpsAdjust /\ (HasSynchronizedDof \/ request.discrete)

Finalize ==
  /\ stage = "step1"
  /\ dof = NumDofs + 1
  /\ SelectLimiting
  /\ duration' = Finalized
  /\ start' = Finalized
  /\ adjusted' = Finalized
  /\ stage' = IF NeedsAdjustment THEN "adjust" ELSE "none"
  /\ dof' = IF NeedsAdjustment THEN NumDofs + 1 ELSE 1
  /\ changed' = TRUE
  /\ remaining' = IterationBudget
  /\ UNCHANGED <<request, blocks, profiles, independent>>

\* the head of the while loop in adjust_duration_for_blocks
BeginPass ==
  /\ stage = "adjust"
  /\ dof = NumDofs + 1
  /\ changed
  /\ remaining > 0
  /\ remaining' = remaining - 1
  /\ changed' = FALSE
  /\ dof' = 1
  /\ UNCHANGED <<request, stage, blocks, profiles, independent, duration,
                 limiting, start, adjusted>>

VisitBlock ==
  /\ stage = "adjust"
  /\ dof \in Dofs
  /\ LET t == IF Constrains(dof) THEN LeaveBlock(blocks[dof], duration)
                                 ELSE duration
     IN /\ duration' = t
        /\ changed' = (changed \/ t > duration)
  /\ dof' = dof + 1
  /\ UNCHANGED <<request, stage, blocks, profiles, independent, limiting,
                 remaining, start, adjusted>>

\* The pass left every block alone, or there is no pass left (the code
\* asserts that this does not happen).
EndAdjustment ==
  /\ stage = "adjust"
  /\ dof = NumDofs + 1
  /\ ~changed \/ remaining = 0
  /\ adjusted' = duration
  /\ stage' = "none"
  /\ dof' = 1
  /\ UNCHANGED <<request, blocks, profiles, independent, duration, limiting,
                 changed, remaining, start>>

\* apply_none_synchronization_duration
RaisesAlone(d) == independent[d] > duration

ApplyNone ==
  LET applies == Enabled(dof) /\ Unsynchronized(dof)
      raises  == applies /\ RaisesAlone(dof)
  IN /\ stage = "none"
     /\ dof \in Dofs
     /\ duration' = IF raises THEN independent[dof] ELSE duration
     /\ limiting' = IF raises THEN dof ELSE limiting
     /\ profiles' =
          IF applies /\ blocks[dof] # NoMotion
          THEN [profiles EXCEPT ![dof] =
                  Profile(blocks[dof], MinDuration(blocks[dof]))]
          ELSE profiles
     /\ dof' = dof + 1
     /\ UNCHANGED <<request, stage, blocks, independent, changed, remaining,
                    start, adjusted>>

EndNone ==
  /\ stage = "none"
  /\ dof = NumDofs + 1
  /\ stage' = "phase"
  /\ dof' = 1
  /\ UNCHANGED <<request, blocks, profiles, independent, duration, limiting,
                 changed, remaining, start, adjusted>>

-----------------------------------------------------------------------------
(* Phase synchronisation: the timing of the limiting axis is copied to     *)
(* each phase axis and checked there.  Whether the axes are proportional   *)
(* and the scaled profile fits an axis is real arithmetic, left open here. *)

PhaseDofs ==
  {d \in Dofs : Enabled(d) /\ request.sync[d] = "PHASE" /\ d # limiting}

Copied(d, fits) ==
  [of |-> profiles[d].of, lasts |-> profiles[limiting].lasts, whole |-> fits]
CopiedTo(axes) ==
  [d \in Dofs |-> IF d \in axes THEN Copied(d, TRUE) ELSE profiles[d]]

PhaseFits ==
  /\ profiles' = CopiedTo(PhaseDofs)
  /\ stage' = IF AllSynchronizedArePhaseOrNone THEN "done" ELSE "step2"

\* The axes before the failing one keep their copies; the failing one is
\* given up before or after its own timing was overwritten.
PhaseFailsAt(d) ==
  /\ \/ profiles' = CopiedTo({e \in PhaseDofs : e < d})
     \/ profiles' = [CopiedTo({e \in PhaseDofs : e < d}) EXCEPT ![d] =
                       Copied(d, FALSE)]
  /\ stage' = "step2"

NoPhase == profiles' = profiles /\ stage' = "step2"

PhaseSync ==
  /\ stage = "phase"
  /\ \/ NoPhase
     \/ /\ HasPhaseSynchronizedDof
        /\ limiting \in Dofs
        /\ PhaseFits \/ \E d \in PhaseDofs : PhaseFailsAt(d)
  /\ UNCHANGED <<request, dof, blocks, independent, duration, limiting,
                 changed, remaining, start, adjusted>>

-----------------------------------------------------------------------------
(* Step 2: each axis stretched to the common duration                      *)

ShouldSkipTimeSync(d) ==
  \/ Unsynchronized(d) /\ ~request.discrete
  \/ request.sync[d] = "TIME_IF_NECESSARY" /\ request.motion[d] \in AtRest

\* Fault: the duration before the gaps were left is compared.
KeptByStart(d) ==
  ~Enabled(d) \/ ShouldSkipTimeSync(d) \/ start = independent[d]

\* The profile of step 1 will do.
Kept(d) ==
  ~Enabled(d) \/ ShouldSkipTimeSync(d) \/ duration = independent[d]

(* Step 2 solves for the boundary conditions in the profile, with the      *)
(* limits of the request; when these belong to different motions nothing   *)
(* is known of the outcome.                                                *)
Foreign(d) == profiles[d].of # request.motion[d]
CanLast(d) == ~IsBlocked(request.motion[d], duration)

KeepProfile ==
  /\ Kept(dof)
  /\ dof' = dof + 1
  /\ UNCHANGED <<stage, profiles>>

Stretch ==
  /\ ~Kept(dof)
  /\ Foreign(dof) \/ CanLast(dof)
  /\ profiles' = [profiles EXCEPT ![dof] = Profile(profiles[dof].of, duration)]
  /\ dof' = dof + 1
  /\ UNCHANGED stage

FailToStretch ==
  /\ ~Kept(dof)
  /\ Foreign(dof) \/ ~CanLast(dof)
  /\ profiles' = [profiles EXCEPT ![dof].whole = FALSE]
  /\ stage' = "unsynchronized"
  /\ UNCHANGED dof

Step2 ==
  /\ stage = "step2"
  /\ dof \in Dofs
  /\ KeepProfile \/ Stretch \/ FailToStretch
  /\ UNCHANGED <<request, blocks, independent, duration, limiting, changed,
                 remaining, start, adjusted>>

\* finalize_calculated_trajectory
Finish ==
  /\ stage = "step2"
  /\ dof = NumDofs + 1
  /\ stage' = "done"
  /\ UNCHANGED <<request, dof, blocks, profiles, independent, duration,
                 limiting, changed, remaining, start, adjusted>>

Next ==
  \/ Calculate \/ Step1 \/ Finalize
  \/ BeginPass \/ VisitBlock \/ EndAdjustment
  \/ ApplyNone \/ EndNone
  \/ PhaseSync \/ Step2 \/ Finish

(* A fresh trajectory: ruckig_trajectory_create clears blocks and profiles. *)
Init ==
  /\ request \in Requests
  /\ stage = "idle"
  /\ dof = 1
  /\ blocks = [d \in Dofs |-> NoMotion]
  /\ profiles = [d \in Dofs |-> Profile(request.motion[d], 0)]
  /\ independent = [d \in Dofs |-> 0]
  /\ duration = 0
  /\ limiting = 1
  /\ changed = FALSE
  /\ remaining = 0
  /\ start = 0
  /\ adjusted = 0

Spec == Init /\ [][Next]_vars

-----------------------------------------------------------------------------
(* Properties                                                              *)

\* Every variable has its type; no infeasible duration gets into the state.
TypeOK ==
  /\ request \in Requests
  /\ stage \in Terminal \cup {"step1", "adjust", "none", "phase", "step2"}
  /\ dof \in 1 .. NumDofs + 1
  /\ blocks \in [Dofs -> {m \in Motions : Solvable(m)} \cup {NoMotion}]
  /\ profiles \in [Dofs -> Profiles]
  /\ independent \in [Dofs -> Nat]
  /\ duration \in Nat
  /\ limiting \in 1 .. NumDofs + 1
  /\ changed \in BOOLEAN
  /\ remaining \in Nat
  /\ start \in Nat
  /\ adjusted \in Nat

\* The adjustment ends at the first duration, from the one it was given on,
\* that no block of a synchronised axis forbids: it leaves every gap, also
\* the ones it enters by leaving another, and skips no possible duration.
LeastUnblocked ==
  (stage = "none" /\ NeedsAdjustment) =>
    /\ \A d \in Dofs : ~BlocksNow(d, adjusted)
    /\ \A t \in start .. adjusted - 1 : \E d \in Dofs : BlocksNow(d, t)

\* The assertion in adjust_duration_for_blocks holds: a pass that is needed
\* always finds one left in the budget.
BudgetSuffices == (stage = "adjust" /\ changed) => remaining > 0

\* Together: the adjustment stays within its types and its budget, and ends
\* at the right duration.
AdjustedRight == TypeOK /\ LeastUnblocked /\ BudgetSuffices

\* The duration of a trajectory is a common upper bound: no enabled axis
\* needs more time alone, and the caller's minimum duration is respected.
LongEnough ==
  stage = "done" =>
    /\ duration >= request.minimum
    /\ \A d \in Dofs : Enabled(d) => duration >= independent[d]

\* A calculation is given up in step 2 only for an unsynchronised axis that
\* cannot last as long as the others, or because an unsynchronised axis
\* raised the duration after the gaps of the others had been left.
FailsOnlyForUnsynchronized ==
  stage = "unsynchronized" => Unsynchronized(dof) \/ duration > adjusted

\* What an axis follows belongs to this request and not to an earlier one on
\* the same trajectory, for every axis whose step 1 stores a block.
OwnMotionWithBlock ==
  stage = "done" =>
    \A d \in Dofs : Enabled(d) /\ request.motion[d] \notin Plain =>
      profiles[d].of = request.motion[d]

\* An axis d is at its target, within its limits, when the trajectory ends.
EndsOnTime(d) == profiles[d].whole /\ profiles[d].lasts = duration

\* Without phase synchronisation every synchronised axis reaches its target
\* exactly when the trajectory ends, unless it may keep its own time.
TimeSynchronized ==
  (stage = "done" /\ ~HasPhaseSynchronizedDof) =>
    \A d \in Dofs : Enabled(d) /\ ~Unsynchronized(d) =>
      EndsOnTime(d) \/ ShouldSkipTimeSync(d)

\* Together: the duration is long enough for every axis, and the synchronised
\* ones arrive when it is over.
ArriveTogether == LongEnough /\ TimeSynchronized

\* The same with phase synchronisation, which as documented falls back to
\* time synchronisation when it cannot be had; an axis may be done earlier
\* where it stays at its target, at rest or under velocity control.
PhaseSynchronized ==
  stage = "done" =>
    \A d \in Dofs : Enabled(d) /\ request.sync[d] = "PHASE" =>
      /\ profiles[d].whole
      /\ \/ profiles[d].lasts = duration
         \/ request.motion[d] \in AtRest \cup Velocity

\* What every enabled axis follows belongs to this request: the documented
\* result of a calculation is the complete trajectory of its input.
OwnMotion ==
  stage = "done" =>
    \A d \in Dofs : Enabled(d) => profiles[d].of = request.motion[d]

\* With discrete durations the common duration of synchronised axes is a
\* multiple of delta_time, as documented.
DiscreteIsMultiple ==
  (stage = "done" /\ request.discrete /\ HasSynchronizedDof) =>
    duration % DeltaTime = 0
=============================================================================
