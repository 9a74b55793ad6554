--------------------------- MODULE TimeSyncProofs ---------------------------
(* Proofs about TimeSync for every number of axes, every set of motions    *)
(* and every set of requests.                                              *)
EXTENDS TimeSync, FiniteSetTheorems, TLAPS

(***************************************************************************)
(* The inductive invariant                                                 *)
(***************************************************************************)
AfterStep1  == {"adjust", "none", "phase", "step2", "done", "unsynchronized"}
AfterAdjust == AfterStep1 \ {"adjust"}
AfterNone   == AfterAdjust \ {"none"}

SolvedAlone(d)     == stage \in AfterStep1 \/ (stage = "step1" /\ d < dof)
NoneApplied(d)     == stage \in AfterNone \/ (stage = "none" /\ d < dof)
Stretched(d)       == stage = "done" \/ (stage = "step2" /\ d < dof)
Counts(d)          == ~HasSynchronizedDof \/ ~Unsynchronized(d)

\* what step 1 leaves behind for an enabled axis
AloneInv ==
  \A d \in Dofs : SolvedAlone(d) /\ Enabled(d) =>
    /\ Solvable(request.motion[d])
    /\ independent[d] = MinDuration(request.motion[d])
    /\ request.motion[d] \notin Plain => blocks[d] = request.motion[d]
    /\ ~Unsynchronized(d) \/ request.motion[d] \notin Plain
         => profiles[d].of = request.motion[d]
    /\ Counts(d) \/ NoneApplied(d) => independent[d] <= duration

MinimumInv == stage \in AfterStep1 => request.minimum <= duration

\* the ends of the intervals that still lie ahead of a duration
End(m, k) == CASE k = 0 -> MinDuration(m)
               [] k = 1 -> GapA(m).right
               [] OTHER -> GapB(m).right
Ahead(t) == {e \in Dofs \X (0 .. 2) :
               blocks[e[1]] # NoMotion /\ End(blocks[e[1]], e[2]) > t}

\* between two looks at a block
AdjustInv ==
  stage = "adjust" =>
    /\ NeedsAdjustment
    /\ start <= duration
    /\ \A t \in Nat : start <= t /\ t < duration => \E d \in Dofs : BlocksNow(d, t)
    /\ ~changed => \A d \in Dofs : d < dof => ~BlocksNow(d, duration)
    /\ remaining + (IF changed THEN 0 ELSE 1) > Cardinality(Ahead(duration)) + 1

AdjustedInv ==
  stage \in AfterAdjust =>
    /\ adjusted <= duration
    /\ NeedsAdjustment =>
         /\ \A d \in Dofs : ~BlocksNow(d, adjusted)
         /\ \A t \in Nat : start <= t /\ t < adjusted => \E d \in Dofs : BlocksNow(d, t)

PhaseInv == stage = "phase" => dof = 1

TimeInv ==
  ~HasPhaseSynchronizedDof =>
    \A d \in Dofs : Enabled(d) /\ ~Unsynchronized(d) =>
      /\ SolvedAlone(d) /\ ~Stretched(d) /\ stage # "unsynchronized"
           => profiles[d] = Profile(request.motion[d], independent[d])
      /\ Stretched(d) => EndsOnTime(d) \/ ShouldSkipTimeSync(d)

SyncInv ==
  /\ TypeOK /\ AloneInv /\ MinimumInv /\ AdjustInv /\ AdjustedInv
  /\ PhaseInv /\ TimeInv

-----------------------------------------------------------------------------
(* Operators                                                               *)

\* Rounding up to a multiple of the control cycle never shortens.
LEMMA RoundUpGrows ==
  ASSUME NEW t \in Int, DeltaTime > 0
  PROVE  RoundUp(t) \in Int /\ RoundUp(t) >= t
BY DofsAssumption DEF RoundUp

\* The duration the blocks are given is natural and long enough.
LEMMA FinalizedLongEnough ==
  ASSUME TypeOK
  PROVE  /\ Finalized \in Nat
         /\ Finalized >= duration
         /\ Finalized >= request.minimum
<1>1. /\ duration \in Nat
      /\ request.minimum \in Nat \cup {NoMinimum}
      /\ request.discrete \in BOOLEAN
      /\ request.discrete => DeltaTime > 0
  BY RequestAssumption DEF TypeOK
<1>2. ASSUME NEW t \in Int
      PROVE  Discretized(t) \in Int /\ Discretized(t) >= t
  BY <1>1, RoundUpGrows DEF Discretized
<1>3. /\ Discretized(request.minimum) \in Int
      /\ Discretized(request.minimum) >= request.minimum
  BY <1>1, <1>2 DEF NoMinimum
<1>4. /\ Maximum(duration, request.minimum) \in Int
      /\ Maximum(duration, request.minimum) >= duration
      /\ Maximum(duration, request.minimum) >= request.minimum
  BY <1>1 DEF Maximum, NoMinimum
<1>5. /\ Discretized(Maximum(duration, request.minimum)) \in Int
      /\ Discretized(Maximum(duration, request.minimum))
           >= Maximum(duration, request.minimum)
  BY <1>2, <1>4
<1> QED
  BY <1>1, <1>3, <1>4, <1>5 DEF Finalized, Maximum, NoMinimum

\* One look at a block moves the duration only over blocked durations, onto
\* the end of a blocked interval, and if it stays there is nothing to leave.
LEMMA LeaveBlockLeaves ==
  ASSUME NEW m \in Motions, Solvable(m), NEW t \in Nat
  PROVE  /\ LeaveBlock(m, t) \in Nat
         /\ LeaveBlock(m, t) >= t
         /\ LeaveBlock(m, t) = t => ~IsBlocked(m, t)
         /\ \A u \in Nat : t <= u /\ u < LeaveBlock(m, t) => IsBlocked(m, u)
         /\ LeaveBlock(m, t) > t =>
              \E k \in 0 .. 2 : LeaveBlock(m, t) = End(m, k)
<1>1. /\ MinDuration(m) \in Nat
      /\ GapA(m).left \in Nat /\ GapA(m).right \in Nat
      /\ GapB(m).left \in Nat /\ GapB(m).right \in Nat
  BY MotionAssumption DEF Solvable
<1> DEFINE x == Maximum(t, MinDuration(m))
           y == Leave(x, GapA(m))
           z == Leave(y, GapB(m))
<1>2. x \in Nat /\ x >= t /\ (x > t => x = MinDuration(m)) /\ x >= MinDuration(m)
  BY <1>1 DEF Maximum
<1>3. y \in Nat /\ y >= x /\ (y > x => y = GapA(m).right /\ GapA(m).left < x)
      /\ (y = x => ~Within(x, GapA(m)))
  BY <1>1, <1>2 DEF Leave, Within
<1>4. z \in Nat /\ z >= y /\ (z > y => z = GapB(m).right /\ GapB(m).left < y)
      /\ (z = y => ~Within(y, GapB(m)))
  BY <1>1, <1>3 DEF Leave, Within
<1>5. LeaveBlock(m, t) = z
  BY DEF LeaveBlock
<1> HIDE DEF x, y, z
<1>6. z = t => ~IsBlocked(m, t)
  BY <1>1, <1>2, <1>3, <1>4 DEF IsBlocked, Within
<1>7. ASSUME NEW u \in Nat, t <= u, u < z PROVE IsBlocked(m, u)
  BY <1>1, <1>2, <1>3, <1>4, <1>7 DEF IsBlocked, Within
<1>8. z > t => \E k \in 0 .. 2 : z = End(m, k)
  <2>1. z > t => z = End(m, 0) \/ z = End(m, 1) \/ z = End(m, 2)
    BY <1>1, <1>2, <1>3, <1>4 DEF End
  <2> QED BY <2>1
<1> QED BY <1>2, <1>3, <1>4, <1>5, <1>6, <1>7, <1>8

\* There are at most three ends for each axis.
LEMMA AheadFinite ==
  ASSUME NEW t
  PROVE  /\ IsFiniteSet(Ahead(t))
         /\ Cardinality(Ahead(t)) \in Nat
         /\ Cardinality(Ahead(t)) <= 3 * NumDofs
<1>1. IsFiniteSet(Dofs) /\ Cardinality(Dofs) = NumDofs
  <2>1. IsFiniteSet(1 .. NumDofs) /\ Cardinality(1 .. NumDofs) = NumDofs
    BY FS_Interval, DofsAssumption
  <2> QED BY <2>1 DEF Dofs
<1>2. IsFiniteSet(0 .. 2) /\ Cardinality(0 .. 2) = 3
  <2>1. /\ IsFiniteSet(0 .. 2)
        /\ Cardinality(0 .. 2) = IF 0 > 2 THEN 0 ELSE 2 - 0 + 1
    <3>1. 0 \in Int /\ 2 \in Int
      OBVIOUS
    <3> QED BY <3>1, FS_Interval, Zenon
  <2> QED BY <2>1
<1>3. /\ IsFiniteSet(Dofs \X (0 .. 2))
      /\ Cardinality(Dofs \X (0 .. 2)) = NumDofs * 3
  BY <1>1, <1>2, FS_Product
<1>4. Ahead(t) \subseteq Dofs \X (0 .. 2)
  BY DEF Ahead
<1>5. /\ IsFiniteSet(Ahead(t))
      /\ Cardinality(Ahead(t)) <= NumDofs * 3
  BY <1>3, <1>4, FS_Subset
<1>6. Cardinality(Ahead(t)) \in Nat
  BY <1>5, FS_CardinalityType
<1> QED BY <1>5, <1>6, DofsAssumption

\* Moving onto an end leaves fewer ends ahead.
LEMMA AheadShrinks ==
  ASSUME TypeOK, NEW t \in Nat, NEW u \in Nat, t < u,
         NEW d \in Dofs, blocks[d] # NoMotion,
         NEW k \in 0 .. 2, u = End(blocks[d], k)
  PROVE  Cardinality(Ahead(u)) < Cardinality(Ahead(t))
<1>1. ASSUME NEW e \in Dofs \X (0 .. 2), blocks[e[1]] # NoMotion
      PROVE  End(blocks[e[1]], e[2]) \in Nat
  BY <1>1, MotionAssumption DEF TypeOK, End, Solvable
<1>2. Ahead(u) \subseteq Ahead(t)
  BY <1>1 DEF Ahead
<1>3. <<d, k>> \in Ahead(t) /\ <<d, k>> \notin Ahead(u)
  BY DEF Ahead
<1>4. Ahead(u) # Ahead(t)
  BY <1>3
<1> QED BY <1>2, <1>4, AheadFinite, FS_Subset

-----------------------------------------------------------------------------
(* Types                                                                   *)

\* What the assumption on requests says of the one being solved.
LEMMA RequestType ==
  ASSUME TypeOK
  PROVE  /\ request.minimum \in Nat \cup {NoMinimum}
         /\ \A d \in Dofs : request.motion[d] \in Motions
BY RequestAssumption DEF TypeOK

\* The initial state is well typed.
LEMMA TypeInit == Init => TypeOK
<1> SUFFICES ASSUME Init PROVE TypeOK
  OBVIOUS
<1>1. \A d \in Dofs : request.motion[d] \in Motions
  BY RequestAssumption DEF Init
<1>2. profiles \in [Dofs -> Profiles]
  BY <1>1 DEF Init, Profile, Profiles
<1>3. dof \in 1 .. NumDofs + 1 /\ limiting \in 1 .. NumDofs + 1
  BY DofsAssumption DEF Init
<1> QED BY <1>2, <1>3 DEF Init, TypeOK, Terminal

\* Step 1 puts only solvable motions and their durations into the state.
LEMMA TypeStep1 == TypeOK /\ Step1 => TypeOK'
<1> SUFFICES ASSUME TypeOK, Step1 PROVE TypeOK'
  OBVIOUS
<1>1. dof \in Dofs /\ request.motion[dof] \in Motions /\ dof + 1 \in 1 .. NumDofs + 1
  BY RequestType, DofsAssumption DEF Step1, TypeOK, Dofs
<1>2. Profile(request.motion[dof], 0) \in Profiles
  BY <1>1 DEF Profile, Profiles
<1>3. CASE Disabled
  BY <1>1, <1>2, <1>3 DEF TypeOK, Step1, Disabled
<1>4. CASE SolveAlone
  <2>1. MinDuration(request.motion[dof]) \in Nat
    BY <1>1, <1>4, MotionAssumption DEF SolveAlone, Solved, Solvable
  <2>2. Profile(request.motion[dof], MinDuration(request.motion[dof])) \in Profiles
    BY <1>1, <2>1 DEF Profile, Profiles
  <2>3. blocks' \in [Dofs -> {m \in Motions : Solvable(m)} \cup {NoMotion}]
    BY <1>1, <1>4 DEF TypeOK, SolveAlone, Solved, StoreBlock
  <2>4. duration' \in Nat /\ limiting' \in 1 .. NumDofs + 1
    BY <1>1, <1>4, <2>1, DofsAssumption DEF TypeOK, SolveAlone, Dofs
  <2> QED BY <1>1, <1>4, <2>1, <2>2, <2>3, <2>4 DEF TypeOK, Step1, SolveAlone
<1>5. CASE NoTrajectoryAlone
  <2>1. [of |-> request.motion[dof], lasts |-> 0, whole |-> FALSE] \in Profiles
    BY <1>1 DEF Profiles
  <2> QED BY <1>1, <1>5, <2>1 DEF TypeOK, Step1, NoTrajectoryAlone, Terminal
<1> QED BY <1>3, <1>4, <1>5 DEF Step1

\* So does the choice of the common duration.
LEMMA TypeFinalize == TypeOK /\ Finalize => TypeOK'
<1> SUFFICES ASSUME TypeOK, Finalize PROVE TypeOK'
  OBVIOUS
<1>1. Finalized \in Nat
  BY FinalizedLongEnough
<1>2. limiting' \in 1 .. NumDofs + 1
  BY DofsAssumption DEF TypeOK, Finalize, SelectLimiting, Dofs
<1>3. IterationBudget \in Nat
  BY DofsAssumption DEF IterationBudget
<1> QED BY <1>1, <1>2, <1>3, DofsAssumption DEF TypeOK, Finalize

\* Copying the timing of the limiting axis gives profiles.
LEMMA TypePhaseSync == TypeOK /\ PhaseSync => TypeOK'
<1> SUFFICES ASSUME TypeOK, PhaseSync PROVE TypeOK'
  OBVIOUS
<1>1. ASSUME limiting \in Dofs, NEW d \in Dofs, NEW b \in BOOLEAN
      PROVE  Copied(d, b) \in Profiles
  BY <1>1 DEF TypeOK, Copied, Profiles
<1>2. ASSUME limiting \in Dofs, NEW axes PROVE CopiedTo(axes) \in [Dofs -> Profiles]
  BY <1>1, <1>2 DEF TypeOK, CopiedTo
<1>3. profiles' \in [Dofs -> Profiles] /\ stage' \in {"step2", "done"}
  <2>1. CASE NoPhase
    BY <2>1 DEF NoPhase, TypeOK
  <2>2. CASE limiting \in Dofs /\ PhaseFits
    BY <1>2, <2>2 DEF PhaseFits
  <2>3. CASE limiting \in Dofs /\ \E d \in PhaseDofs : PhaseFailsAt(d)
    <3>1. PICK d \in PhaseDofs : PhaseFailsAt(d)
      BY <2>3
    <3>2. d \in Dofs
      BY DEF PhaseDofs
    <3> QED BY <1>1, <1>2, <2>3, <3>1, <3>2 DEF PhaseFailsAt
  <2> QED BY <2>1, <2>2, <2>3 DEF PhaseSync
<1> QED BY <1>3 DEF TypeOK, PhaseSync, Terminal

\* Every step keeps the types.
LEMMA TypeNext == TypeOK /\ [Next]_vars => TypeOK'
<1> SUFFICES ASSUME TypeOK, [Next]_vars PROVE TypeOK'
  OBVIOUS
<1>0. 1 \in 1 .. NumDofs + 1
  BY DofsAssumption
<1>1. CASE Calculate
  BY <1>0, <1>1 DEF TypeOK, Calculate
<1>2. CASE Step1
  BY <1>2, TypeStep1
<1>3. CASE Finalize
  BY <1>3, TypeFinalize
<1>4. CASE BeginPass
  <2>1. remaining' \in Nat
    BY <1>4 DEF TypeOK, BeginPass
  <2> QED BY <1>0, <1>4, <2>1 DEF TypeOK, BeginPass
<1>5. CASE VisitBlock
  <2>1. ASSUME Constrains(dof)
        PROVE  LeaveBlock(blocks[dof], duration) \in Nat
    <3>1. blocks[dof] \in Motions /\ Solvable(blocks[dof])
      BY <1>5, <2>1 DEF TypeOK, VisitBlock, Constrains
    <3> QED BY <3>1, LeaveBlockLeaves DEF TypeOK
  <2>2. duration' \in Nat /\ dof' \in 1 .. NumDofs + 1
    BY <1>5, <2>1, DofsAssumption DEF TypeOK, VisitBlock, Dofs
  <2>3. changed' \in BOOLEAN
    BY <1>5 DEF TypeOK, VisitBlock
  <2> QED BY <1>5, <2>2, <2>3 DEF TypeOK, VisitBlock
<1>6. CASE EndAdjustment
  BY <1>0, <1>6 DEF TypeOK, EndAdjustment
<1>7. CASE ApplyNone
  <2>1. ASSUME blocks[dof] # NoMotion
        PROVE  Profile(blocks[dof], MinDuration(blocks[dof])) \in Profiles
    <3>1. blocks[dof] \in Motions /\ Solvable(blocks[dof])
      BY <1>7, <2>1 DEF TypeOK, ApplyNone
    <3>2. MinDuration(blocks[dof]) \in Nat
      BY <3>1, MotionAssumption DEF Solvable
    <3> QED BY <3>1, <3>2 DEF Profile, Profiles
  <2>2. profiles' \in [Dofs -> Profiles]
    <3>1. CASE profiles' = profiles
      BY <3>1 DEF TypeOK
    <3>2. CASE /\ blocks[dof] # NoMotion
               /\ profiles' = [profiles EXCEPT ![dof] =
                     Profile(blocks[dof], MinDuration(blocks[dof]))]
      BY <1>7, <2>1, <3>2 DEF TypeOK
    <3> QED BY <1>7, <3>1, <3>2 DEF ApplyNone
  <2>3. /\ duration' \in Nat /\ dof' \in 1 .. NumDofs + 1
        /\ limiting' \in 1 .. NumDofs + 1
    BY <1>7, DofsAssumption DEF TypeOK, ApplyNone, Dofs
  <2> QED BY <1>7, <2>2, <2>3 DEF TypeOK, ApplyNone
<1>8. CASE EndNone
  BY <1>0, <1>8 DEF TypeOK, EndNone
<1>9. CASE PhaseSync
  BY <1>9, TypePhaseSync
<1>10. CASE Step2
  <2>1. dof \in Dofs /\ dof + 1 \in 1 .. NumDofs + 1
    BY <1>10, DofsAssumption DEF Step2, Dofs
  <2>2. CASE KeepProfile
    BY <1>10, <2>1, <2>2 DEF TypeOK, Step2, KeepProfile
  <2>3. CASE Stretch
    <3>1. Profile(profiles[dof].of, duration) \in Profiles
      BY <2>1 DEF TypeOK, Profile, Profiles
    <3> QED BY <1>10, <2>1, <2>3, <3>1 DEF TypeOK, Step2, Stretch
  <2>4. CASE FailToStretch
    <3>1. profiles' \in [Dofs -> Profiles]
      BY <2>1, <2>4 DEF TypeOK, FailToStretch, Profiles
    <3> QED BY <1>10, <2>4, <3>1 DEF TypeOK, Step2, FailToStretch, Terminal
  <2> QED BY <1>10, <2>2, <2>3, <2>4 DEF Step2
<1>11. CASE Finish
  BY <1>11 DEF TypeOK, Finish, Terminal
<1>12. CASE UNCHANGED vars
  BY <1>12 DEF TypeOK, vars
<1> QED
  BY <1>1, <1>2, <1>3, <1>4, <1>5, <1>6, <1>7, <1>8, <1>9, <1>10, <1>11, <1>12
  DEF Next

\* TypeOK holds for every number of axes, every set of motions and requests:
\* no failure value of a solver ever becomes a duration.
THEOREM TypeCorrect == Spec => []TypeOK
<1>1. Init => TypeOK
  BY TypeInit
<1>2. TypeOK /\ [Next]_vars => TypeOK'
  BY TypeNext
<1> QED BY <1>1, <1>2, PTL DEF Spec

-----------------------------------------------------------------------------
(* What step 1 leaves behind                                               *)

\* Everything asked of the request alone stays while it is being solved.
LEMMA SameRequest ==
  ASSUME request' = request
  PROVE  /\ HasSynchronizedDof' <=> HasSynchronizedDof
         /\ HasPhaseSynchronizedDof' <=> HasPhaseSynchronizedDof
         /\ OpsAdjust' <=> OpsAdjust
         /\ NeedsAdjustment' <=> NeedsAdjustment
         /\ \A d \in Dofs :
              /\ Enabled(d)' <=> Enabled(d)
              /\ Unsynchronized(d)' <=> Unsynchronized(d)
              /\ ShouldSkipTimeSync(d)' <=> ShouldSkipTimeSync(d)
              /\ Counts(d)' <=> Counts(d)
BY DEF HasSynchronizedDof, HasPhaseSynchronizedDof, OpsAdjust, NeedsAdjustment,
       Enabled, Unsynchronized, ShouldSkipTimeSync, Counts

\* After step 1 a step keeps AloneInv if it keeps the blocks, does not
\* shorten the duration and gives no axis a foreign profile.
LEMMA AloneStable ==
  ASSUME TypeOK, TypeOK', AloneInv,
         request' = request, independent' = independent, blocks' = blocks,
         duration <= duration',
         \A d \in Dofs : SolvedAlone(d)' => SolvedAlone(d),
         \A d \in Dofs : Enabled(d) /\ NoneApplied(d)' =>
           Counts(d) \/ NoneApplied(d) \/ independent[d] <= duration',
         \A d \in Dofs : Enabled(d) /\ (~Unsynchronized(d) \/ request.motion[d] \notin Plain) =>
           \/ profiles'[d].of = profiles[d].of
           \/ profiles'[d].of = request.motion[d]
  PROVE  AloneInv'
<1> SUFFICES ASSUME NEW d \in Dofs, SolvedAlone(d)', Enabled(d)'
             PROVE  /\ Solvable(request.motion[d])
                    /\ independent[d] = MinDuration(request.motion[d])
                    /\ request.motion[d] \notin Plain => blocks[d] = request.motion[d]
                    /\ ~Unsynchronized(d) \/ request.motion[d] \notin Plain
                         => profiles'[d].of = request.motion[d]
                    /\ Counts(d) \/ NoneApplied(d)' => independent[d] <= duration'
  BY SameRequest DEF AloneInv
<1>1. SolvedAlone(d) /\ Enabled(d)
  BY SameRequest
<1>2. independent[d] \in Nat /\ duration \in Nat /\ duration' \in Nat
  BY DEF TypeOK
<1> QED BY <1>1, <1>2 DEF AloneInv

\* Step 1 establishes AloneInv axis by axis.
LEMMA AloneStep1 ==
  ASSUME TypeOK, TypeOK', AloneInv, Step1
  PROVE  AloneInv'
<1> SUFFICES ASSUME NEW d \in Dofs, SolvedAlone(d)', Enabled(d)'
             PROVE  /\ Solvable(request.motion[d])
                    /\ independent'[d] = MinDuration(request.motion[d])
                    /\ request.motion[d] \notin Plain => blocks'[d] = request.motion[d]
                    /\ ~Unsynchronized(d) \/ request.motion[d] \notin Plain
                         => profiles'[d].of = request.motion[d]
                    /\ Counts(d) \/ NoneApplied(d)' => independent'[d] <= duration'
  <2>1. request' = request
    BY DEF Step1
  <2> QED BY <2>1, SameRequest DEF AloneInv
<1>1. /\ stage = "step1" /\ dof \in Dofs /\ request' = request
      /\ d \in Int /\ dof \in Int /\ Enabled(d)
  BY DofsAssumption DEF Step1, Dofs, Enabled
<1>2. stage' \in {"step1", "unsolved"} /\ ~NoneApplied(d)'
  BY <1>1 DEF Step1, Disabled, SolveAlone, NoTrajectoryAlone, NoneApplied,
              AfterNone, AfterAdjust, AfterStep1
<1>3. stage' = "step1" /\ dof' = dof + 1 /\ d < dof + 1
  BY <1>1, <1>2 DEF SolvedAlone, Step1, Disabled, SolveAlone, NoTrajectoryAlone,
                    AfterStep1
<1>4. ~NoTrajectoryAlone
  BY <1>3 DEF NoTrajectoryAlone
<1>5. ASSUME d # dof
      PROVE  /\ SolvedAlone(d)
             /\ blocks'[d] = blocks[d]
             /\ profiles'[d] = profiles[d]
             /\ independent'[d] = independent[d]
  <2>1. SolvedAlone(d)
    BY <1>1, <1>3, <1>5 DEF SolvedAlone
  <2> QED BY <1>1, <1>4, <1>5, <2>1
          DEF Step1, Disabled, SolveAlone, StoreBlock, TypeOK
<1>6. /\ duration \in Nat /\ duration' \in Nat
      /\ independent[d] \in Nat /\ independent'[d] \in Nat
  BY DEF TypeOK
<1>7. duration <= duration'
  BY <1>1, <1>4, <1>6 DEF Step1, Disabled, SolveAlone, RaisesSyncDuration
<1>8. CASE d # dof
  BY <1>1, <1>2, <1>5, <1>6, <1>7, <1>8 DEF AloneInv
<1>9. CASE d = dof
  <2>1. SolveAlone
    BY <1>1, <1>4, <1>9 DEF Step1, Disabled
  <2> DEFINE m == request.motion[d]
  <2>2. Solvable(m) /\ independent'[d] = MinDuration(m)
    BY <1>9, <2>1 DEF SolveAlone, Solved, TypeOK
  <2>3. m \notin Plain => blocks'[d] = m
    BY <1>9, <2>1 DEF SolveAlone, StoreBlock, TypeOK
  <2>4. profiles'[d].of = m
    BY <1>9, <2>1 DEF SolveAlone, Profile, TypeOK
  <2>5. MinDuration(m) \in Nat
    BY <1>6, <2>2
  <2>6. Counts(d) => MinDuration(m) <= duration'
    BY <1>6, <1>9, <2>1, <2>5 DEF SolveAlone, RaisesSyncDuration, Counts
  <2> QED BY <1>2, <2>2, <2>3, <2>4, <2>6
<1> QED BY <1>8, <1>9

\* Phase synchronisation changes the timing of a profile, not its motion.
LEMMA PhaseKeepsMotion ==
  ASSUME TypeOK, PhaseSync, NEW d \in Dofs
  PROVE  profiles'[d].of = profiles[d].of
<1>1. ASSUME NEW axes PROVE CopiedTo(axes)[d].of = profiles[d].of
  BY DEF CopiedTo, Copied
<1>2. ASSUME NEW axes, NEW e \in Dofs
      PROVE  [CopiedTo(axes) EXCEPT ![e] = Copied(e, FALSE)][d].of = profiles[d].of
  BY <1>1 DEF CopiedTo, Copied
<1>3. CASE NoPhase
  BY <1>3 DEF NoPhase
<1>4. CASE PhaseFits
  BY <1>1, <1>4 DEF PhaseFits
<1>5. CASE \E e \in PhaseDofs : PhaseFailsAt(e)
  <2>1. PICK e \in PhaseDofs : PhaseFailsAt(e)
    BY <1>5
  <2>2. e \in Dofs
    BY DEF PhaseDofs
  <2> QED BY <1>1, <1>2, <2>1, <2>2 DEF PhaseFailsAt
<1> QED BY <1>3, <1>4, <1>5 DEF PhaseSync

\* Every step keeps AloneInv.
LEMMA AloneNext ==
  ASSUME TypeOK, TypeOK', AloneInv, [Next]_vars
  PROVE  AloneInv'
<1> USE DEF AfterStep1, AfterAdjust, AfterNone
<1>0. /\ duration \in Nat /\ duration' \in Nat /\ dof \in Int
      /\ \A d \in Dofs : d \in Int /\ d >= 1 /\ d < NumDofs + 1
  BY DofsAssumption DEF TypeOK, Dofs
<1>1. CASE Calculate
  BY <1>0, <1>1 DEF AloneInv, Calculate, SolvedAlone
<1>2. CASE Step1
  BY <1>2, AloneStep1
<1>3. CASE Finalize
  <2>1. duration <= duration'
    BY <1>3, FinalizedLongEnough DEF Finalize
  <2>2. \A d \in Dofs : SolvedAlone(d) /\ ~NoneApplied(d)'
    BY <1>0, <1>3 DEF Finalize, SolvedAlone, NoneApplied
  <2> QED BY <1>3, <2>1, <2>2, AloneStable DEF Finalize
<1>4. CASE BeginPass
  BY <1>0, <1>4, AloneStable DEF BeginPass, SolvedAlone, NoneApplied
<1>5. CASE VisitBlock
  <2>1. ASSUME Constrains(dof) PROVE LeaveBlock(blocks[dof], duration) >= duration
    <3>1. blocks[dof] \in Motions /\ Solvable(blocks[dof])
      BY <1>5, <2>1 DEF TypeOK, VisitBlock, Constrains
    <3> QED BY <3>1, LeaveBlockLeaves DEF TypeOK
  <2>2. duration <= duration'
    BY <1>0, <1>5, <2>1 DEF VisitBlock
  <2> QED BY <1>5, <2>2, AloneStable DEF VisitBlock, SolvedAlone, NoneApplied
<1>6. CASE EndAdjustment
  BY <1>0, <1>6, AloneStable DEF EndAdjustment, SolvedAlone, NoneApplied
<1>7. CASE ApplyNone
  <2>1. independent[dof] \in Nat
    BY <1>7 DEF ApplyNone, TypeOK
  <2>2. duration <= duration'
    BY <1>0, <1>7, <2>1 DEF ApplyNone, RaisesAlone
  <2>3. ASSUME NEW d \in Dofs, Enabled(d), NoneApplied(d)'
        PROVE  Counts(d) \/ NoneApplied(d) \/ independent[d] <= duration'
    <3>1. CASE d = dof /\ Unsynchronized(d)
      BY <1>0, <1>7, <2>1, <2>3, <3>1 DEF ApplyNone, RaisesAlone
    <3>2. CASE d = dof /\ ~Unsynchronized(d)
      BY <3>2 DEF Counts
    <3>3. CASE d # dof
      BY <1>0, <1>7, <2>3, <3>3 DEF ApplyNone, NoneApplied
    <3> QED BY <3>1, <3>2, <3>3
  <2>4. ASSUME NEW d \in Dofs, Enabled(d),
               ~Unsynchronized(d) \/ request.motion[d] \notin Plain
        PROVE  \/ profiles'[d].of = profiles[d].of
               \/ profiles'[d].of = request.motion[d]
    <3>1. CASE d = dof /\ request.motion[d] \notin Plain
      <4>1. blocks[d] = request.motion[d]
        BY <1>7, <2>4, <3>1 DEF ApplyNone, AloneInv, SolvedAlone
      <4> QED BY <1>7, <3>1, <4>1 DEF ApplyNone, Profile, TypeOK
    <3>2. CASE d = dof /\ ~Unsynchronized(d)
      BY <1>7, <3>2 DEF ApplyNone
    <3>3. CASE d # dof
      BY <1>7, <3>3 DEF ApplyNone, TypeOK
    <3> QED BY <2>4, <3>1, <3>2, <3>3
  <2>5. \A d \in Dofs : SolvedAlone(d)
    BY <1>7 DEF ApplyNone, SolvedAlone
  <2> QED BY <1>7, <2>2, <2>3, <2>4, <2>5, AloneStable DEF ApplyNone
<1>8. CASE EndNone
  BY <1>0, <1>8, AloneStable DEF EndNone, SolvedAlone, NoneApplied
<1>9. CASE PhaseSync
  BY <1>0, <1>9, AloneStable, PhaseKeepsMotion
  DEF PhaseSync, SolvedAlone, NoneApplied
<1>10. CASE Step2
  <2>1. ASSUME NEW d \in Dofs PROVE profiles'[d].of = profiles[d].of
    BY <1>10 DEF Step2, KeepProfile, Stretch, FailToStretch, Profile, TypeOK, Profiles
  <2>2. \A d \in Dofs : SolvedAlone(d) /\ NoneApplied(d)
    BY <1>10 DEF Step2, SolvedAlone, NoneApplied
  <2> QED BY <1>0, <1>10, <2>1, <2>2, AloneStable DEF Step2
<1>11. CASE Finish
  BY <1>0, <1>11, AloneStable DEF Finish, SolvedAlone, NoneApplied
<1>12. CASE UNCHANGED vars
  BY <1>0, <1>12, AloneStable DEF vars, SolvedAlone, NoneApplied
<1> QED
  BY <1>1, <1>2, <1>3, <1>4, <1>5, <1>6, <1>7, <1>8, <1>9, <1>10, <1>11, <1>12
  DEF Next

-----------------------------------------------------------------------------
(* The duration only grows once it is chosen                               *)

\* From one step to the next of a calculation the duration does not shrink.
LEMMA DurationGrows ==
  ASSUME TypeOK, [Next]_vars, stage \in AfterStep1, stage' \in AfterStep1
  PROVE  duration <= duration' /\ request' = request
<1> USE DEF AfterStep1
<1>0. duration \in Nat
  BY DEF TypeOK
<1>1. CASE VisitBlock
  <2>1. ASSUME Constrains(dof) PROVE LeaveBlock(blocks[dof], duration) >= duration
    <3>1. blocks[dof] \in Motions /\ Solvable(blocks[dof])
      BY <1>1, <2>1 DEF TypeOK, VisitBlock, Constrains
    <3> QED BY <3>1, LeaveBlockLeaves DEF TypeOK
  <2> QED BY <1>0, <1>1, <2>1 DEF VisitBlock
<1>2. CASE ApplyNone
  <2>1. independent[dof] \in Nat
    BY <1>2 DEF ApplyNone, TypeOK
  <2> QED BY <1>0, <1>2, <2>1 DEF ApplyNone, RaisesAlone
<1>3. CASE Calculate \/ Step1 \/ Finalize
  BY <1>3 DEF Calculate, Step1, Finalize
<1>4. CASE \/ BeginPass \/ EndAdjustment \/ EndNone \/ PhaseSync \/ Step2
           \/ Finish \/ UNCHANGED vars
  BY <1>0, <1>4 DEF BeginPass, EndAdjustment, EndNone, PhaseSync, Step2, Finish, vars
<1> QED BY <1>1, <1>2, <1>3, <1>4 DEF Next

\* It stays above the caller's minimum.
LEMMA MinimumNext ==
  ASSUME TypeOK, TypeOK', MinimumInv, [Next]_vars
  PROVE  MinimumInv'
<1> SUFFICES ASSUME stage' \in AfterStep1 PROVE request'.minimum <= duration'
  BY DEF MinimumInv
<1>1. CASE stage \in AfterStep1
  <2>1. request.minimum \in Int /\ duration \in Int /\ duration' \in Int
    BY RequestType DEF TypeOK, NoMinimum
  <2> QED BY <1>1, <2>1, DurationGrows DEF MinimumInv
<1>2. CASE stage \notin AfterStep1
  <2>1. Finalize
    BY <1>2 DEF Next, vars, AfterStep1, Calculate, Step1, Disabled, SolveAlone,
                NoTrajectoryAlone, BeginPass, VisitBlock, EndAdjustment, ApplyNone,
                EndNone, PhaseSync, Step2, Finish
  <2> QED BY <2>1, FinalizedLongEnough DEF Finalize
<1> QED BY <1>1, <1>2

\* Phase synchronisation hands over to step 2 at the first axis.
LEMMA PhaseNext ==
  ASSUME PhaseInv, [Next]_vars
  PROVE  PhaseInv'
BY DEF PhaseInv, Next, vars, Calculate, Step1, Disabled, SolveAlone,
       NoTrajectoryAlone, Finalize, BeginPass, VisitBlock, EndAdjustment,
       ApplyNone, EndNone, PhaseSync, NoPhase, PhaseFits, PhaseFailsAt, Step2,
       KeepProfile, Stretch, FailToStretch, Finish

-----------------------------------------------------------------------------
(* Leaving the blocks                                                      *)

\* Whether a block forbids a duration depends on the request and the blocks.
LEMMA SameBlocks ==
  ASSUME request' = request, blocks' = blocks
  PROVE  /\ \A d \in Dofs : \A t : BlocksNow(d, t)' <=> (BlocksNow(d, t))
         /\ \A t : Ahead(t)' = Ahead(t)
BY DEF BlocksNow, Constrains, Enabled, Unsynchronized, Ahead

\* Before the first pass the budget exceeds three passes for each axis.
LEMMA AdjustFinalize ==
  ASSUME TypeOK, TypeOK', Finalize
  PROVE  AdjustInv'
<1>1. request' = request /\ blocks' = blocks
  BY DEF Finalize
<1>2. CASE NeedsAdjustment
  <2>1. /\ start' = duration' /\ changed' = TRUE /\ remaining' = 4 * NumDofs + 8
        /\ duration' \in Nat
    BY DEF Finalize, IterationBudget, TypeOK
  <2>2. Ahead(duration)' = Ahead(duration')
    BY <1>1 DEF Ahead
  <2>3. /\ Cardinality(Ahead(duration')) \in Nat
        /\ Cardinality(Ahead(duration')) <= 3 * NumDofs
    BY AheadFinite
  <2>4. remaining' + 0 > Cardinality(Ahead(duration')) + 1
    BY <2>1, <2>3, DofsAssumption
  <2>5. \A t \in Nat : ~(start' <= t /\ t < duration')
    BY <2>1
  <2> QED BY <1>1, <1>2, <2>1, <2>2, <2>4, <2>5, SameRequest DEF AdjustInv
<1>3. CASE ~NeedsAdjustment
  BY <1>3 DEF Finalize, AdjustInv
<1> QED BY <1>2, <1>3

\* A pass uses up one of the budget ...
LEMMA AdjustBeginPass ==
  ASSUME TypeOK, TypeOK', AdjustInv, BeginPass
  PROVE  AdjustInv'
<1>1. /\ request' = request /\ blocks' = blocks /\ stage' = stage
      /\ duration' = duration /\ start' = start
      /\ changed = TRUE /\ changed' = FALSE /\ remaining' = remaining - 1
      /\ dof' = 1 /\ stage = "adjust"
  BY DEF BeginPass, TypeOK
<1>2. Ahead(duration)' = Ahead(duration)
  BY <1>1 DEF Ahead
<1>3. Cardinality(Ahead(duration)) \in Nat /\ remaining \in Nat
  BY AheadFinite DEF TypeOK
<1>4. remaining' + 1 > Cardinality(Ahead(duration)) + 1
  BY <1>1, <1>3 DEF AdjustInv
<1>5. \A d \in Dofs : ~(d < 1)
  BY DofsAssumption DEF Dofs
<1> QED BY <1>1, <1>2, <1>4, <1>5, SameRequest, SameBlocks DEF AdjustInv

\* ... and a look that moves the duration uses up an end.
LEMMA AdjustVisit ==
  ASSUME TypeOK, TypeOK', AdjustInv, VisitBlock
  PROVE  AdjustInv'
<1>1. /\ request' = request /\ blocks' = blocks /\ stage' = stage
      /\ start' = start /\ remaining' = remaining /\ dof' = dof + 1
      /\ dof \in Dofs /\ stage = "adjust"
      /\ ~changed' => ~changed /\ ~(duration' > duration)
      /\ changed' => changed \/ duration' > duration
  BY DEF VisitBlock
<1>2. /\ NeedsAdjustment /\ start <= duration
      /\ \A t \in Nat : start <= t /\ t < duration => \E d \in Dofs : BlocksNow(d, t)
      /\ ~changed => \A d \in Dofs : d < dof => ~BlocksNow(d, duration)
      /\ remaining + (IF changed THEN 0 ELSE 1) > Cardinality(Ahead(duration)) + 1
  BY <1>1 DEF AdjustInv
<1>3. /\ start \in Nat /\ duration \in Nat /\ duration' \in Nat /\ dof \in Int
      /\ remaining \in Nat /\ changed \in BOOLEAN
      /\ Cardinality(Ahead(duration)) \in Nat
      /\ Cardinality(Ahead(duration')) \in Nat
  BY AheadFinite DEF TypeOK
<1>4. /\ duration <= duration'
      /\ duration' = duration => ~BlocksNow(dof, duration)
      /\ \A t \in Nat : duration <= t /\ t < duration' => BlocksNow(dof, t)
      /\ duration' > duration =>
           Cardinality(Ahead(duration')) < Cardinality(Ahead(duration))
  <2>1. CASE ~Constrains(dof)
    BY <1>3, <2>1 DEF VisitBlock, BlocksNow
  <2>2. CASE Constrains(dof)
    <3>1. /\ blocks[dof] \in Motions /\ Solvable(blocks[dof])
          /\ blocks[dof] # NoMotion
      BY <1>1, <2>2 DEF TypeOK, Constrains
    <3>2. duration' = LeaveBlock(blocks[dof], duration)
      BY <2>2 DEF VisitBlock
    <3>3. /\ duration' >= duration
          /\ duration' = duration => ~IsBlocked(blocks[dof], duration)
          /\ \A u \in Nat : duration <= u /\ u < duration' => IsBlocked(blocks[dof], u)
          /\ duration' > duration =>
               \E k \in 0 .. 2 : duration' = End(blocks[dof], k)
      BY <1>3, <3>1, <3>2, LeaveBlockLeaves
    <3>4. duration' > duration =>
            Cardinality(Ahead(duration')) < Cardinality(Ahead(duration))
      BY <1>1, <1>3, <3>1, <3>3, AheadShrinks
    <3> QED BY <1>3, <2>2, <3>3, <3>4 DEF BlocksNow
  <2> QED BY <2>1, <2>2
<1>5. \A t \in Nat : start <= t /\ t < duration' => \E d \in Dofs : BlocksNow(d, t)
  BY <1>1, <1>2, <1>3, <1>4
<1>6. ASSUME ~changed' PROVE \A d \in Dofs : d < dof + 1 => ~BlocksNow(d, duration')
  <2>1. duration' = duration /\ ~changed
    BY <1>1, <1>3, <1>4, <1>6
  <2>2. \A d \in Dofs : d < dof + 1 => d < dof \/ d = dof
    BY <1>3, DofsAssumption DEF Dofs
  <2> QED BY <1>2, <1>4, <2>1, <2>2
<1>7. remaining + (IF changed' THEN 0 ELSE 1) > Cardinality(Ahead(duration')) + 1
  <2>1. CASE duration' = duration
    BY <1>1, <1>2, <1>3, <2>1
  <2>2. CASE duration' > duration
    BY <1>1, <1>2, <1>3, <1>4, <2>2
  <2> QED BY <1>3, <1>4, <2>1, <2>2
<1>8. Ahead(duration)' = Ahead(duration')
  BY <1>1 DEF Ahead
<1>9. start <= duration'
  BY <1>2, <1>3, <1>4
<1>10. \A d \in Dofs : BlocksNow(d, duration)' <=> BlocksNow(d, duration')
  BY <1>1 DEF BlocksNow, Constrains, Enabled, Unsynchronized
<1> QED
  BY <1>1, <1>2, <1>5, <1>6, <1>7, <1>8, <1>9, <1>10, SameRequest, SameBlocks
  DEF AdjustInv

\* Every step keeps AdjustInv.
LEMMA AdjustNext ==
  ASSUME TypeOK, TypeOK', AdjustInv, [Next]_vars
  PROVE  AdjustInv'
<1>1. CASE stage' # "adjust"
  BY <1>1 DEF AdjustInv
<1>2. CASE Finalize
  BY <1>2, AdjustFinalize
<1>3. CASE BeginPass
  BY <1>3, AdjustBeginPass
<1>4. CASE VisitBlock
  BY <1>4, AdjustVisit
<1>5. CASE UNCHANGED vars
  <2>1. /\ request' = request /\ blocks' = blocks /\ stage' = stage /\ dof' = dof
        /\ duration' = duration /\ start' = start /\ changed' = changed
        /\ remaining' = remaining
    BY <1>5 DEF vars
  <2> QED BY <2>1, SameRequest
          DEF AdjustInv, Ahead, BlocksNow, Constrains, Enabled, Unsynchronized
<1> QED
  BY <1>1, <1>2, <1>3, <1>4, <1>5
  DEF Next, Calculate, Step1, Disabled, SolveAlone, NoTrajectoryAlone,
      EndAdjustment, ApplyNone, EndNone, PhaseSync, NoPhase, PhaseFits,
      PhaseFailsAt, Step2, KeepProfile, Stretch, FailToStretch, Finish

\* The adjustment ends with nothing left to leave, and what comes after it
\* only lengthens the duration.
LEMMA AdjustedNext ==
  ASSUME TypeOK, TypeOK', AdjustInv, AdjustedInv, [Next]_vars
  PROVE  AdjustedInv'
<1> USE DEF AfterStep1, AfterAdjust
<1>0. /\ duration \in Nat /\ duration' \in Nat
      /\ adjusted \in Nat /\ adjusted' \in Nat
  BY DEF TypeOK
<1>1. CASE stage' \notin AfterAdjust
  BY <1>1 DEF AdjustedInv
<1>2. CASE Finalize
  <2>1. request' = request /\ adjusted' = duration'
    BY <1>2 DEF Finalize
  <2>2. CASE NeedsAdjustment
    BY <1>2, <2>2 DEF Finalize, AdjustedInv
  <2>3. CASE ~NeedsAdjustment
    BY <1>0, <2>1, <2>3, SameRequest DEF AdjustedInv
  <2> QED BY <2>2, <2>3
<1>3. CASE EndAdjustment
  <2>1. /\ request' = request /\ blocks' = blocks /\ start' = start
        /\ duration' = duration /\ adjusted' = duration
        /\ stage = "adjust" /\ dof = NumDofs + 1
    BY <1>3 DEF EndAdjustment
  <2>2. ~changed
    <3>1. Cardinality(Ahead(duration)) \in Nat /\ remaining \in Nat
      BY AheadFinite DEF TypeOK
    <3>2. changed => remaining > 0
      BY <2>1, <3>1 DEF AdjustInv
    <3> QED BY <1>3, <3>1, <3>2 DEF EndAdjustment
  <2>3. \A d \in Dofs : d < dof
    BY <2>1, DofsAssumption DEF Dofs
  <2>4. /\ \A d \in Dofs : ~BlocksNow(d, duration)
        /\ \A t \in Nat : start <= t /\ t < duration => \E d \in Dofs : BlocksNow(d, t)
    BY <2>1, <2>2, <2>3 DEF AdjustInv
  <2>5. /\ \A d \in Dofs : BlocksNow(d, adjusted)' <=> BlocksNow(d, adjusted')
        /\ \A d \in Dofs, t \in Nat : BlocksNow(d, t)' <=> BlocksNow(d, t)
    BY <2>1 DEF BlocksNow, Constrains, Enabled, Unsynchronized
  <2> QED BY <1>0, <2>1, <2>4, <2>5 DEF AdjustedInv
<1>4. CASE stage \in AfterAdjust /\ stage' \in AfterAdjust
  <2>1. duration <= duration' /\ request' = request
    BY <1>4, DurationGrows
  <2>2. blocks' = blocks /\ start' = start /\ adjusted' = adjusted
    BY <1>4 DEF Next, vars, Calculate, Step1, Finalize, BeginPass, VisitBlock,
                EndAdjustment, ApplyNone, EndNone, PhaseSync, Step2, Finish
  <2>3. /\ \A d \in Dofs : BlocksNow(d, adjusted)' <=> BlocksNow(d, adjusted)
        /\ \A d \in Dofs, t \in Nat : BlocksNow(d, t)' <=> BlocksNow(d, t)
        /\ NeedsAdjustment' <=> NeedsAdjustment
    BY <2>1, <2>2, SameRequest DEF BlocksNow, Constrains, Enabled, Unsynchronized
  <2> QED BY <1>0, <1>4, <2>1, <2>2, <2>3 DEF AdjustedInv
<1> QED
  BY <1>1, <1>2, <1>3, <1>4
  DEF Next, vars, Calculate, Step1, Disabled, SolveAlone, NoTrajectoryAlone,
      BeginPass, VisitBlock, ApplyNone, EndNone, PhaseSync, Step2, Finish

-----------------------------------------------------------------------------
(* Reaching the target on time                                             *)

\* Every step keeps TimeInv.
LEMMA TimeNext ==
  ASSUME TypeOK, TypeOK', PhaseInv, TimeInv, [Next]_vars
  PROVE  TimeInv'
<1> USE DEF AfterStep1
<1> SUFFICES ASSUME ~HasPhaseSynchronizedDof', NEW d \in Dofs,
                    Enabled(d)', ~Unsynchronized(d)'
             PROVE  /\ SolvedAlone(d)' /\ ~Stretched(d)' /\ stage' # "unsynchronized"
                         => profiles'[d] = Profile(request'.motion[d], independent'[d])
                    /\ Stretched(d)' => EndsOnTime(d)' \/ ShouldSkipTimeSync(d)'
  BY DEF TimeInv
<1>0. /\ d \in Int /\ d >= 1 /\ d < NumDofs + 1 /\ dof \in Int
  BY DofsAssumption DEF TypeOK, Dofs
<1>1. CASE Calculate
  BY <1>0, <1>1 DEF Calculate, SolvedAlone, Stretched
<1>2. ASSUME request' = request
      PROVE  /\ Enabled(d) /\ ~Unsynchronized(d) /\ ~HasPhaseSynchronizedDof
             /\ SolvedAlone(d) /\ ~Stretched(d) /\ stage # "unsynchronized"
                  => profiles[d] = Profile(request.motion[d], independent[d])
             /\ Stretched(d) => EndsOnTime(d) \/ ShouldSkipTimeSync(d)
             /\ ShouldSkipTimeSync(d)' <=> ShouldSkipTimeSync(d)
  BY <1>2, SameRequest DEF TimeInv
<1>3. CASE Step1
  <2>1. request' = request /\ dof \in Dofs /\ stage = "step1" /\ ~Stretched(d)'
    BY <1>3 DEF Step1, Disabled, SolveAlone, NoTrajectoryAlone, Stretched
  <2>2. CASE NoTrajectoryAlone
    BY <2>1, <2>2 DEF NoTrajectoryAlone, SolvedAlone
  <2>3. CASE ~NoTrajectoryAlone /\ d # dof
    <3>1. profiles'[d] = profiles[d] /\ independent'[d] = independent[d]
      BY <1>3, <2>1, <2>3 DEF Step1, Disabled, SolveAlone, TypeOK
    <3>2. SolvedAlone(d)' => SolvedAlone(d)
      BY <1>0, <1>3, <2>1, <2>3 DEF Step1, Disabled, SolveAlone, SolvedAlone
    <3> QED BY <1>2, <2>1, <3>1, <3>2 DEF Stretched
  <2>4. CASE ~NoTrajectoryAlone /\ d = dof
    BY <1>2, <1>3, <2>1, <2>4 DEF Step1, Disabled, SolveAlone, TypeOK
  <2> QED BY <2>2, <2>3, <2>4
<1>4. CASE Finalize \/ BeginPass \/ VisitBlock \/ EndAdjustment \/ EndNone
  <2>1. /\ request' = request /\ profiles' = profiles
        /\ independent' = independent /\ ~Stretched(d)' /\ ~Stretched(d)
        /\ stage # "unsynchronized"
    BY <1>4 DEF Finalize, BeginPass, VisitBlock, EndAdjustment, EndNone, Stretched
  <2>2. SolvedAlone(d)
    BY <1>0, <1>4 DEF Finalize, BeginPass, VisitBlock, EndAdjustment, EndNone,
                      SolvedAlone
  <2> QED BY <1>2, <2>1, <2>2
<1>5. CASE ApplyNone
  <2>1. /\ request' = request /\ stage = "none" /\ stage' = "none" /\ dof \in Dofs
        /\ independent' = independent
    BY <1>5 DEF ApplyNone
  <2>2. profiles'[d] = profiles[d]
    BY <1>2, <1>5, <2>1 DEF ApplyNone, TypeOK
  <2> QED BY <1>2, <2>1, <2>2 DEF SolvedAlone, Stretched
<1>6. CASE PhaseSync
  <2>1. /\ request' = request /\ stage = "phase" /\ dof' = dof /\ dof = 1
        /\ independent' = independent
    BY <1>6 DEF PhaseSync, PhaseInv
  <2>2. profiles' = profiles /\ stage' = "step2"
    BY <1>2, <1>6, <2>1 DEF PhaseSync, NoPhase
  <2> QED BY <1>0, <1>2, <2>1, <2>2 DEF SolvedAlone, Stretched
<1>7. CASE Step2
  <2>1. /\ request' = request /\ stage = "step2" /\ dof \in Dofs
        /\ independent' = independent /\ duration' = duration
        /\ SolvedAlone(d) /\ stage # "unsynchronized"
    BY <1>7 DEF Step2, SolvedAlone
  <2>2. CASE FailToStretch
    BY <2>2 DEF FailToStretch, Stretched
  <2>3. CASE ~FailToStretch
    <3>1. stage' = "step2" /\ dof' = dof + 1
      BY <1>7, <2>1, <2>3 DEF Step2, KeepProfile, Stretch
    <3>2. CASE d # dof
      <4>1. profiles'[d] = profiles[d]
        BY <1>7, <2>1, <2>3, <3>2 DEF Step2, KeepProfile, Stretch, TypeOK
      <4>2. Stretched(d)' <=> Stretched(d)
        BY <1>0, <2>1, <3>1, <3>2 DEF Stretched
      <4> QED BY <1>2, <2>1, <4>1, <4>2 DEF EndsOnTime
    <3>3. CASE d = dof
      <4>1. Stretched(d)' /\ ~Stretched(d)
        BY <1>0, <2>1, <3>1, <3>3 DEF Stretched
      <4>2. CASE Stretch
        <5>1. profiles'[d] = Profile(profiles[d].of, duration)
          BY <3>3, <4>2 DEF Stretch, TypeOK
        <5> QED BY <2>1, <4>1, <5>1 DEF EndsOnTime, Profile
      <4>3. CASE KeepProfile
        <5>1. profiles[d] = Profile(request.motion[d], independent[d])
          BY <1>2, <2>1, <4>1
        <5>2. profiles' = profiles /\ (ShouldSkipTimeSync(d) \/ duration = independent[d])
          BY <1>2, <2>1, <3>3, <4>3 DEF KeepProfile, Kept
        <5> QED BY <1>2, <2>1, <4>1, <5>1, <5>2 DEF EndsOnTime, Profile
      <4> QED BY <1>7, <2>3, <4>2, <4>3 DEF Step2
    <3> QED BY <3>2, <3>3
  <2> QED BY <2>2, <2>3
<1>8. CASE Finish
  <2>1. /\ request' = request /\ profiles' = profiles /\ duration' = duration
        /\ Stretched(d)
    BY <1>0, <1>8 DEF Finish, Stretched
  <2>2. Stretched(d)'
    BY <1>8 DEF Finish, Stretched
  <2> QED BY <1>2, <2>1, <2>2 DEF EndsOnTime
<1>9. CASE UNCHANGED vars
  <2>1. /\ request' = request /\ profiles' = profiles /\ duration' = duration
        /\ independent' = independent /\ stage' = stage /\ dof' = dof
    BY <1>9 DEF vars
  <2> QED BY <1>2, <2>1 DEF EndsOnTime, Stretched, SolvedAlone
<1> QED
  BY <1>1, <1>3, <1>4, <1>5, <1>6, <1>7, <1>8, <1>9 DEF Next

-----------------------------------------------------------------------------
(* The theorems                                                            *)

\* The invariant holds before anything is calculated.
LEMMA SyncInit == Init => SyncInv
<1> SUFFICES ASSUME Init PROVE SyncInv
  OBVIOUS
<1>1. TypeOK
  BY TypeInit
<1>2. stage = "idle"
  BY DEF Init
<1> QED
  BY <1>1, <1>2
  DEF SyncInv, AloneInv, MinimumInv, AdjustInv, AdjustedInv, PhaseInv, TimeInv,
      SolvedAlone, Stretched, AfterStep1, AfterAdjust

\* SyncInv is an invariant of every calculation on a reused trajectory.
THEOREM SyncInvariant == Spec => []SyncInv
<1>1. Init => SyncInv
  BY SyncInit
<1>2. SyncInv /\ [Next]_vars => SyncInv'
  <2> SUFFICES ASSUME SyncInv, [Next]_vars PROVE SyncInv'
    OBVIOUS
  <2>1. TypeOK /\ TypeOK'
    BY TypeNext DEF SyncInv
  <2> QED
    BY <2>1, AloneNext, MinimumNext, AdjustNext, AdjustedNext, PhaseNext, TimeNext
    DEF SyncInv
<1> QED BY <1>1, <1>2, PTL DEF Spec

\* The duration chosen is the first one that no block forbids.
THEOREM LeastUnblockedHolds == Spec => []LeastUnblocked
<1>1. SyncInv => LeastUnblocked
  <2> SUFFICES ASSUME SyncInv, stage = "none", NeedsAdjustment
               PROVE  /\ \A d \in Dofs : ~BlocksNow(d, adjusted)
                      /\ \A t \in start .. adjusted - 1 : \E d \in Dofs : BlocksNow(d, t)
    BY DEF LeastUnblocked
  <2>1. /\ \A d \in Dofs : ~BlocksNow(d, adjusted)
        /\ \A t \in Nat : start <= t /\ t < adjusted => \E d \in Dofs : BlocksNow(d, t)
    BY DEF SyncInv, AdjustedInv, AfterAdjust, AfterStep1
  <2>2. start \in Nat /\ adjusted \in Nat
    BY DEF SyncInv, TypeOK
  <2> QED BY <2>1, <2>2
<1> QED BY <1>1, SyncInvariant, PTL

\* The assertion on the number of passes cannot fail.
THEOREM BudgetSufficesHolds == Spec => []BudgetSuffices
<1>1. SyncInv => BudgetSuffices
  <2> SUFFICES ASSUME SyncInv, stage = "adjust", changed PROVE remaining > 0
    BY DEF BudgetSuffices
  <2>1. Cardinality(Ahead(duration)) \in Nat /\ remaining \in Nat
    BY AheadFinite DEF SyncInv, TypeOK
  <2> QED BY <2>1 DEF SyncInv, AdjustInv
<1> QED BY <1>1, SyncInvariant, PTL

\* The trajectory lasts as long as every axis and the caller ask for.
THEOREM LongEnoughHolds == Spec => []LongEnough
<1>1. SyncInv => LongEnough
  <2> SUFFICES ASSUME SyncInv, stage = "done" PROVE LongEnough
    BY DEF LongEnough
  <2>1. request.minimum <= duration
    BY DEF SyncInv, MinimumInv, AfterStep1
  <2>2. \A d \in Dofs : SolvedAlone(d) /\ NoneApplied(d)
    BY DEF SolvedAlone, NoneApplied, AfterNone, AfterAdjust, AfterStep1
  <2>3. \A d \in Dofs : Enabled(d) => independent[d] <= duration
    BY <2>2 DEF SyncInv, AloneInv
  <2>4. /\ request.minimum \in Int /\ duration \in Int
        /\ \A d \in Dofs : independent[d] \in Int
    BY RequestType DEF SyncInv, TypeOK, NoMinimum
  <2> QED BY <2>1, <2>3, <2>4 DEF LongEnough
<1> QED BY <1>1, SyncInvariant, PTL

\* Axes with a block follow this request, also on a reused trajectory.
THEOREM OwnMotionWithBlockHolds == Spec => []OwnMotionWithBlock
<1>1. SyncInv => OwnMotionWithBlock
  BY DEF SyncInv, AloneInv, OwnMotionWithBlock, SolvedAlone, AfterStep1
<1> QED BY <1>1, SyncInvariant, PTL

\* Without phase synchronisation all synchronised axes end together.
THEOREM TimeSynchronizedHolds == Spec => []TimeSynchronized
<1>1. SyncInv => TimeSynchronized
  BY DEF SyncInv, TimeInv, TimeSynchronized, Stretched
<1> QED BY <1>1, SyncInvariant, PTL

\* Step 2 solves every synchronised axis whose duration the adjustment chose.
LEMMA SynchronizedCanLast ==
  ASSUME SyncInv, stage = "step2", NEW d \in Dofs,
         Enabled(d), ~Unsynchronized(d), ~(duration > adjusted)
  PROVE  ~Foreign(d) /\ CanLast(d)
<1> DEFINE m == request.motion[d]
<1>1. /\ Solvable(m) /\ profiles[d].of = m
      /\ MinDuration(m) <= duration
      /\ m \notin Plain => blocks[d] = m
  <2>1. SolvedAlone(d) /\ NoneApplied(d)
    BY DEF SolvedAlone, NoneApplied, AfterNone, AfterAdjust, AfterStep1
  <2> QED BY <2>1 DEF SyncInv, AloneInv
<1>2. m \in Motions /\ MinDuration(m) \in Nat /\ duration \in Nat /\ adjusted \in Nat
  BY <1>1, RequestType, MotionAssumption DEF SyncInv, TypeOK, Solvable
<1>3. duration = adjusted
  BY <1>2 DEF SyncInv, AdjustedInv, AfterAdjust, AfterStep1
<1>4. ~Foreign(d)
  BY <1>1 DEF Foreign
<1>5. CASE m \in Plain \cup FirstOrder
  <2>1. /\ GapA(m).left \in Nat /\ GapA(m).left = GapA(m).right
        /\ GapB(m).left \in Nat /\ GapB(m).left = GapB(m).right
    BY <1>2, <1>5, MotionAssumption
  <2> QED BY <1>1, <1>2, <1>4, <2>1 DEF CanLast, IsBlocked, Within
<1>6. CASE m \notin Plain \cup FirstOrder
  <2>1. HasSynchronizedDof
    BY DEF HasSynchronizedDof
  <2>2. OpsAdjust
    BY <1>6 DEF OpsAdjust
  <2>3. NeedsAdjustment
    BY <2>1, <2>2 DEF NeedsAdjustment
  <2>4. ~BlocksNow(d, duration)
    BY <1>3, <2>3 DEF SyncInv, AdjustedInv, AfterAdjust, AfterStep1
  <2>5. blocks[d] = m /\ m # NoMotion
    BY <1>1, <1>2, <1>6, MotionAssumption
  <2> QED BY <1>4, <2>4, <2>5 DEF BlocksNow, Constrains, CanLast
<1> QED BY <1>5, <1>6

\* Giving up in step 2 is always the doing of an unsynchronised axis.
THEOREM FailsOnlyForUnsynchronizedHolds == Spec => []FailsOnlyForUnsynchronized
<1>1. Init => FailsOnlyForUnsynchronized
  BY DEF Init, FailsOnlyForUnsynchronized
<1>2. SyncInv /\ FailsOnlyForUnsynchronized /\ [Next]_vars
        => FailsOnlyForUnsynchronized'
  <2> SUFFICES ASSUME SyncInv, FailsOnlyForUnsynchronized, [Next]_vars,
                      stage' = "unsynchronized"
               PROVE  Unsynchronized(dof)' \/ duration' > adjusted'
    BY DEF FailsOnlyForUnsynchronized
  <2>1. CASE Step2 /\ FailToStretch
    <3>1. /\ dof \in Dofs /\ stage = "step2" /\ ~Kept(dof)
          /\ dof' = dof /\ request' = request
          /\ duration' = duration /\ adjusted' = adjusted
          /\ Foreign(dof) \/ ~CanLast(dof)
      BY <2>1 DEF Step2, FailToStretch
    <3>2. Enabled(dof)
      BY <3>1 DEF Kept
    <3>3. Unsynchronized(dof) \/ duration > adjusted
      BY <3>1, <3>2, SynchronizedCanLast
    <3> QED BY <3>1, <3>3 DEF Unsynchronized
  <2>2. CASE UNCHANGED vars
    BY <2>2 DEF vars, FailsOnlyForUnsynchronized, Unsynchronized
  <2> QED
    BY <2>1, <2>2
    DEF Next, Calculate, Step1, Disabled, SolveAlone, NoTrajectoryAlone,
        Finalize, BeginPass, VisitBlock, EndAdjustment, ApplyNone, EndNone,
        PhaseSync, NoPhase, PhaseFits, PhaseFailsAt, Step2, KeepProfile,
        Stretch, Finish
<1> QED BY <1>1, <1>2, SyncInvariant, PTL DEF Spec

\* The adjustment of the duration keeps its types, never runs out of passes
\* and ends at the least duration that no block forbids.
THEOREM AdjustedRightHolds == Spec => []AdjustedRight
BY TypeCorrect, LeastUnblockedHolds, BudgetSufficesHolds, PTL DEF AdjustedRight

\* A finished calculation lasts long enough for every axis, and the axes that
\* are synchronised in time arrive at its end.
THEOREM ArriveTogetherHolds == Spec => []ArriveTogether
BY LongEnoughHolds, TimeSynchronizedHolds, PTL DEF ArriveTogether
=============================================================================
