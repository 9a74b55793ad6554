------------------------ MODULE WaypointEngineProofs ------------------------
(***************************************************************************)
(* Proofs about WaypointEngine, for every number of coordinates, all       *)
(* limits and states, every duration function that meets the assumptions,  *)
(* and every budget and queue capacity.                                    *)
(***************************************************************************)
EXTENDS WaypointEngine, TLAPS

-----------------------------------------------------------------------------
(* The candidates.                                                         *)

\* Every limit is a value of its coordinate, and so is what is clamped to it.
LEMMA ClampType ==
  ASSUME identity \in Plans, NEW c \in Coordinates, NEW x \in Int
  PROVE  Clamp(c, x) \in Values
BY PlanAssumption DEF Clamp

\* Changing one coordinate of a candidate gives a candidate.
LEMMA WithType ==
  ASSUME identity \in Plans, NEW v \in Candidates,
         NEW c \in Coordinates, NEW x \in Int
  PROVE  With(v, c, x) \in Candidates
BY ClampType DEF With, Candidates

\* Zero is within every limit.
LEMMA ZeroType ==
  ASSUME identity \in Plans
  PROVE  0 \in Values /\ Zero \in Candidates
<1>1. 1 \in Coordinates
  BY SizeAssumption DEF Coordinates
<1>2. 0 \in Values
  BY <1>1, PlanAssumption
<1> QED BY <1>2 DEF Zero, Candidates

\* The two finite-difference openers are candidates.
LEMMA FiniteDifferenceType ==
  ASSUME identity \in Plans, run.start \in Starts, NEW scale \in {7, 14}
  PROVE  FiniteDifference(scale) \in Candidates
<1> SUFFICES ASSUME NEW c \in Coordinates
             PROVE  FiniteDifference(scale)[c] \in Values
  BY DEF FiniteDifference, Candidates
<1>1. Lower(identity, c) \in Int /\ Upper(identity, c) \in Int
  BY PlanAssumption
<1>2. (scale * Upper(identity, c)) \div 20 \in Int
  BY <1>1
<1>3. -((scale * (-Lower(identity, c))) \div 20) \in Int
  BY <1>1
<1>4. 0 \in Values
  BY ZeroType
<1> QED BY <1>2, <1>3, <1>4, ClampType DEF FiniteDifference

\* The refinement tries a candidate and restores one.
LEMMA TriedType ==
  ASSUME TypeOK
  PROVE  Tried \in Candidates /\ Original \in Values /\ Restored \in Candidates
<1>1. /\ refine.coordinate \in Coordinates /\ refine.original \in Values
      /\ candidate \in Candidates /\ identity \in Plans
  BY DEF TypeOK, Cursors
<1>2. Original \in Values
  BY <1>1 DEF Original, Candidates
<1>3. Range(refine.coordinate) \in Int
  BY <1>1, PlanAssumption DEF Range
<1>4. Step \in Int
  BY <1>3 DEF Step
<1>5. Original \in Int
  BY <1>2, SizeAssumption
<1>6. Tried \in Candidates
  BY <1>1, <1>4, <1>5, WithType DEF Tried
<1> QED BY <1>1, <1>2, <1>6 DEF Restored, Candidates

\* The next coordinate, or the first one of the next pass.
LEMMA NextCoordinateType ==
  ASSUME TypeOK, refine.pass # 2
  PROVE  NextCoordinate \in Cursors
<1>1. 0 \in Values
  BY ZeroType DEF TypeOK
<1>2. refine.coordinate \in 1 .. NumCoordinates /\ refine.pass \in {0, 1}
  BY DEF TypeOK, Cursors, Coordinates
<1>3. NumCoordinates \in Nat \ {0}
  BY SizeAssumption
<1> QED BY <1>1, <1>2, <1>3 DEF NextCoordinate, Cursors, Coordinates

-----------------------------------------------------------------------------
(* The queue.                                                              *)

\* The steps of the branch search, in fortieths.
Scales == {8, 4, 2, 1, 0}

\* The number of moves is within the capacity.
LEMMA NumMovesType ==
  ASSUME identity \in Plans
  PROVE  /\ NumMoves \in Nat /\ NumMoves <= QueueCapacity
         /\ \A i \in 1 .. NumMoves :
              (i + 1) \div 2 \in 1 .. Len(Free(identity))
<1>1. Len(Free(identity)) \in Nat /\ QueueCapacity \in Nat
  BY FreeAssumption, SizeAssumption
<1> QED BY <1>1 DEF NumMoves

\* An entry of the queue moves a coordinate of the candidate.
LEMMA MoveType ==
  ASSUME identity \in Plans, NEW scale \in Scales, NEW i \in 1 .. NumMoves
  PROVE  Move(i, scale) \in Moves
<1> DEFINE c == Free(identity)[(i + 1) \div 2]
<1>1. c \in Coordinates
  BY NumMovesType, FreeAssumption
<1>2. Range(c) \in Int
  BY <1>1, PlanAssumption DEF Range
<1>3. Delta(c, scale) \in Int
  BY <1>2 DEF Delta, Scales
<1> QED BY <1>1, <1>3 DEF Move, Moves

\* The queue is a sequence of moves that fits its buffer.
LEMMA QueueType ==
  ASSUME identity \in Plans, NEW scale \in Scales
  PROVE  /\ Queue(scale) \in Seq(Moves)
         /\ Len(Queue(scale)) = NumMoves
         /\ \A i \in 1 .. NumMoves : Queue(scale)[i] = Move(i, scale)
<1>1. NumMoves \in Nat
  BY NumMovesType
<1>2. \A i \in 1 .. NumMoves : Move(i, scale) \in Moves
  BY MoveType
<1> QED BY <1>1, <1>2 DEF Queue

\* The move at the cursor is from the best candidate to another one.
LEMMA MovedType ==
  ASSUME TypeOK, NEW move \in Moves
  PROVE  Moved(move) \in Candidates
<1>1. best \in Candidates /\ identity \in Plans
  BY DEF TypeOK
<1>2. move.coordinate \in Coordinates /\ move.delta \in Int
  BY DEF Moves
<1>3. best[move.coordinate] \in Values
  BY <1>1, <1>2 DEF Candidates
<1>4. best[move.coordinate] \in Int
  BY <1>3, SizeAssumption
<1>5. best[move.coordinate] + move.delta \in Int
  BY <1>2, <1>4
<1> QED BY <1>1, <1>2, <1>5, WithType DEF Moved

-----------------------------------------------------------------------------
(* Types.                                                                  *)

\* What is remembered of the candidates keeps its type when one is judged.
LEMMA TriesType ==
  ASSUME TypeOK, NEW v \in Candidates, Tries(v)
  PROVE  /\ run' \in Runs /\ identity' \in Plans
         /\ active' \in BOOLEAN /\ complete' \in BOOLEAN
         /\ found' \in BOOLEAN /\ fresh' \in BOOLEAN
         /\ bestDuration' \in 0 .. DBL_MAX /\ best' \in Candidates
         /\ trajectory' \in Trajectories /\ left' \in Nat
         /\ rejected' \subseteq Candidates
<1>1. run' \in Runs
  BY DEF TypeOK, Tries, MayStop, Runs
<1>2. Duration(identity, run.start, v) \in Nat \cup {Infeasible}
      /\ Duration(identity, run.start, v) < DBL_MAX
  BY DurationAssumption DEF TypeOK, Runs
<1>3. DBL_MAX \in Nat
  BY SizeAssumption
<1>4. CASE Better(v)
  BY <1>1, <1>2, <1>3, <1>4 DEF TypeOK, Tries, Judge, Better, flags
<1>5. CASE ~Better(v)
  BY <1>1, <1>5 DEF TypeOK, Tries, Judge, flags
<1> QED BY <1>4, <1>5

\* The cursors of a search that has not begun.
LEMMA FirstType ==
  ASSUME TypeOK
  PROVE  /\ FirstRefine \in Cursors
         /\ FirstBranch \in Branches
         /\ [FirstBranch EXCEPT !.scale = 0] \in Branches
         /\ FirstBranch.queue = <<>> /\ FirstBranch.index = 0
         /\ [FirstBranch EXCEPT !.scale = 0].queue = <<>>
         /\ [FirstBranch EXCEPT !.scale = 0].index = 0
         /\ Len(<<>>) = 0 /\ 0 <= QueueCapacity
<1>1. 0 \in Values
  BY ZeroType DEF TypeOK
<1>2. 1 \in Coordinates /\ 0 \in 0 .. 2 /\ 0 \in 0 .. BranchBudget
  BY SizeAssumption DEF Coordinates
<1>3. <<>> \in Seq(Moves) /\ Len(<<>>) = 0 /\ 0 <= QueueCapacity
  BY SizeAssumption
<1> QED BY <1>1, <1>2, <1>3 DEF FirstRefine, FirstBranch, Cursors, Branches

\* The same for a cleared engine.
LEMMA ClearType ==
  ASSUME TypeOK, Clear
  PROVE  /\ phase' \in Phases
         /\ active' \in BOOLEAN /\ complete' \in BOOLEAN
         /\ found' \in BOOLEAN /\ fresh' \in BOOLEAN
         /\ bestDuration' \in 0 .. DBL_MAX /\ best' \in Candidates
         /\ candidate' \in Candidates
         /\ refine' \in Cursors /\ branch' \in Branches
         /\ Len(branch'.queue) <= QueueCapacity
         /\ branch'.index <= Len(branch'.queue)
         /\ rejected' \subseteq Candidates
<1>1. DBL_MAX \in 0 .. DBL_MAX
  BY SizeAssumption
<1>2. branch' = [FirstBranch EXCEPT !.scale = 0] /\ refine' = FirstRefine
  BY DEF Clear
<1>3. /\ branch' \in Branches /\ refine' \in Cursors
      /\ Len(branch'.queue) <= QueueCapacity /\ branch'.index <= Len(branch'.queue)
  BY <1>2, FirstType
<1> QED BY <1>1, <1>3 DEF Clear, TypeOK, Phases

\* What is published is a trajectory.
LEMMA PublishType ==
  ASSUME TypeOK, Publishable, Publish
  PROVE  trajectory' \in Trajectories /\ left' \in Nat
<1>1. run.start \in Starts /\ identity \in Plans /\ best \in Candidates
  BY DEF TypeOK, Runs
<1>2. Duration(identity, run.start, best) \in Nat
  BY <1>1, DurationAssumption DEF Publishable
<1>3. Rest(Duration(identity, run.start, best)) \in Nat
  BY <1>2, SizeAssumption DEF Rest
<1> QED BY <1>1, <1>2, <1>3 DEF Publish, Trajectories

\* The refinement makes two passes; while it runs, neither is over.
PassInv == phase = "REFINE" => refine.pass # 2

\* A turn of the search keeps every type.
LEMMA SearchType ==
  ASSUME TypeOK, PassInv, Search
  PROVE  TypeOK'
<1> USE DEF TypeOK
<1>1. CASE Baseline
  <2>1. Zero \in Candidates
    BY ZeroType
  <2>2. Tries(Zero)
    BY <1>1 DEF Baseline
  <2> QED BY <1>1, <2>1, <2>2, TriesType DEF Baseline, Phases, cursors
<1>2. CASE FiniteDifference035
  <2>1. FiniteDifference(7) \in Candidates
    BY FiniteDifferenceType DEF Runs
  <2>2. Tries(FiniteDifference(7))
    BY <1>2 DEF FiniteDifference035
  <2> QED BY <1>2, <2>1, <2>2, TriesType DEF FiniteDifference035, Phases
<1>3. CASE FiniteDifference070
  <2>1. FiniteDifference(14) \in Candidates
    BY FiniteDifferenceType DEF Runs
  <2>2. Tries(FiniteDifference(14))
    BY <1>3 DEF FiniteDifference070
  <2>3. phase' \in Phases
    BY <1>3 DEF FiniteDifference070, Phases
  <2> QED BY <1>3, <2>1, <2>2, <2>3, TriesType DEF FiniteDifference070
<1>4. CASE GiveUp
  BY <1>4 DEF GiveUp, MarkComplete, Phases, calls, judged, cursors
<1>5. CASE RefineInit
  <2>1. FirstRefine \in Cursors
    BY FirstType
  <2> QED BY <1>5, <2>1 DEF RefineInit, MovesOn, Phases, calls, flags, judged
<1>6. CASE Refine
  <2>1. Tried \in Candidates /\ Original \in Values /\ Restored \in Candidates
    BY TriedType
  <2>2. Tries(Tried)
    BY <1>6 DEF Refine
  <2>3. best' \in Candidates
    BY <2>1, <2>2, TriesType
  <2>4. candidate' \in Candidates
    BY <1>6, <2>1, <2>3 DEF Refine
  <2>5. refine' \in Cursors
    <3>1. NextCoordinate \in Cursors
      BY <1>6, NextCoordinateType DEF PassInv, Refine
    <3>2. refine \in Cursors /\ Original \in Values
      BY <2>1
    <3>3. [refine EXCEPT !.attempt = 1, !.original = Original, !.saved = TRUE]
            \in Cursors
      BY <3>2 DEF Cursors
    <3> QED BY <1>6, <3>1, <3>3 DEF Refine
  <2>6. phase' \in Phases /\ branch' = branch
    BY <1>6 DEF Refine, Phases
  <2> QED BY <2>1, <2>2, <2>4, <2>5, <2>6, TriesType
<1>7. CASE BranchInit
  <2>1. /\ FirstBranch \in Branches /\ Len(FirstBranch.queue) <= QueueCapacity
        /\ FirstBranch.index <= Len(FirstBranch.queue)
    BY FirstType
  <2> QED BY <1>7, <2>1 DEF BranchInit, MovesOn, Phases, calls, flags, judged
<1>8. CASE EndBranch
  BY <1>8 DEF EndBranch, MarkComplete, Phases, calls, judged, cursors
<1>9. CASE BuildQueue
  <2>1. branch \in Branches /\ branch.scale \in Scales /\ identity \in Plans
    BY DEF Branches, Scales
  <2>2. /\ Queue(branch.scale) \in Seq(Moves)
        /\ Len(Queue(branch.scale)) = NumMoves
        /\ NumMoves \in Nat /\ NumMoves <= QueueCapacity
    BY <2>1, QueueType, NumMovesType
  <2>3. branch' = [branch EXCEPT !.queue = Queue(branch.scale),
                                 !.index = 0, !.valid = TRUE]
    BY <1>9 DEF BuildQueue
  <2>4. /\ branch' \in Branches /\ branch'.queue = Queue(branch.scale)
        /\ branch'.index = 0
    BY <2>1, <2>2, <2>3 DEF Branches
  <2>5. branch'.index <= Len(branch'.queue) /\ Len(branch'.queue) <= QueueCapacity
    BY <2>2, <2>4
  <2> QED BY <1>9, <2>4, <2>5 DEF BuildQueue, MovesOn, calls, flags, judged
<1>10. CASE HalveStep
  <2>1. branch.scale \in {8, 4, 2, 1}
    BY <1>10 DEF HalveStep, BranchEnded, Branches
  <2>2. branch.scale \div 2 \in {8, 4, 2, 1, 0}
    BY <2>1
  <2>3. /\ branch' \in Branches /\ branch'.queue = branch.queue
        /\ branch'.index = branch.index
    BY <1>10, <2>2 DEF HalveStep, Branches
  <2> QED BY <1>10, <2>3 DEF HalveStep, MovesOn, calls, flags, judged
<1>11. CASE TryMove
  <2> DEFINE v == Moved(branch.queue[branch.index + 1])
  <2>1. branch \in Branches /\ branch.index \in Nat /\ branch.queue \in Seq(Moves)
    BY DEF Branches
  <2>2. branch.index < Len(branch.queue) /\ Len(branch.queue) \in Nat
    BY <1>11, <2>1 DEF TryMove
  <2>3. branch.queue[branch.index + 1] \in Moves
    BY <2>1, <2>2
  <2>4. v \in Candidates
    BY <2>3, MovedType
  <2>5. Tries(v) /\ candidate' = v /\ branch' = AfterMove(Better(v))
        /\ phase' = phase /\ refine' = refine
    BY <1>11 DEF TryMove
  <2>6. branch.iteration \in 0 .. BranchBudget /\ branch.iteration < BranchBudget
    BY <1>11, <2>1, SizeAssumption DEF TryMove, BranchEnded, Branches
  <2>7. branch.iteration + 1 \in 0 .. BranchBudget
    BY <2>6, SizeAssumption
  <2>8. Better(v) \in BOOLEAN
    BY DEF Better
  <2>9. /\ branch' \in Branches /\ branch'.queue = branch.queue
        /\ branch'.index = branch.index + 1
    <3>1. CASE Better(v)
      <4>1. branch' = [branch EXCEPT !.index = branch.index + 1, !.valid = FALSE]
        BY <2>1, <2>5, <3>1 DEF AfterMove, Branches
      <4>2. branch.index + 1 \in Nat
        BY <2>1
      <4> QED BY <2>1, <4>1, <4>2 DEF Branches
    <3>2. CASE ~Better(v)
      <4>1. branch' = [branch EXCEPT !.index = branch.index + 1, !.valid = TRUE,
                                     !.iteration = branch.iteration + 1]
        BY <2>1, <2>5, <3>2 DEF AfterMove, Branches
      <4>2. branch.index + 1 \in Nat
        BY <2>1
      <4> QED BY <2>1, <2>7, <4>1, <4>2 DEF Branches
    <3> QED BY <3>1, <3>2
  <2>10. branch'.index <= Len(branch'.queue) /\ Len(branch'.queue) <= QueueCapacity
    BY <2>1, <2>2, <2>9
  <2> HIDE DEF v
  <2> QED BY <2>4, <2>5, <2>9, <2>10, TriesType
<1> QED BY <1>1, <1>2, <1>3, <1>4, <1>5, <1>6, <1>7, <1>8, <1>9, <1>10, <1>11
        DEF Search

\* What remains of a trajectory is a time.
LEMMA RestType ==
  ASSUME NEW t \in Nat
  PROVE  Rest(t) \in Nat
BY SizeAssumption DEF Rest

\* A call keeps every type.
LEMMA CallType ==
  ASSUME TypeOK, Begins \/ Refuses \/ Resumes \/ Returns \/ Cancel
  PROVE  TypeOK'
<1> USE DEF TypeOK
<1>1. ASSUME NEW p \in Plans, NEW s \in Starts, NEW b \in Budgets,
             NEW kind \in {"offline", "initial"}, Start(p, s, kind, b)
      PROVE  TypeOK'
  <2>1. run' \in Runs
    BY <1>1 DEF Start, Runs
  <2>2. /\ refine' \in Cursors /\ branch' \in Branches
        /\ Len(branch'.queue) <= QueueCapacity
        /\ branch'.index <= Len(branch'.queue)
    BY <1>1, FirstType DEF Start
  <2>3. trajectory' \in Trajectories
    BY <1>1 DEF Start, Invalidated, Trajectories
  <2>4. bestDuration' \in 0 .. DBL_MAX
    BY <1>1, SizeAssumption DEF Start
  <2> QED BY <1>1, <2>1, <2>2, <2>3, <2>4 DEF Start, Phases
<1>2. ASSUME NEW p \in Plans, NEW kind \in {"offline", "initial"},
             RefuseStart(p, kind)
      PROVE  TypeOK'
  <2>1. trajectory' \in Trajectories
    BY <1>2 DEF RefuseStart, Invalidated, Trajectories
  <2>2. CASE Clear
    BY <1>2, <2>1, <2>2, ClearType DEF RefuseStart
  <2>3. CASE Keep
    BY <1>2, <2>1, <2>3 DEF RefuseStart, Keep, flags, judged, cursors
  <2> QED BY <1>2, <2>2, <2>3 DEF RefuseStart
<1>3. ASSUME NEW s \in Starts, NEW b \in Budgets, Resume(s, b)
      PROVE  TypeOK'
  <2>1. run' \in Runs
    BY <1>3 DEF Resume, Runs
  <2>2. bestDuration' \in 0 .. DBL_MAX
    BY <1>3, SizeAssumption DEF Resume, Cap
  <2> QED BY <1>3, <2>1, <2>2 DEF Resume, FreshAtResume, flags, cursors
<1>4. ASSUME Return PROVE run' \in Runs /\ identity' \in Plans
  BY <1>4 DEF Return, Runs
<1>5. CASE ReturnOffline
  <2>1. trajectory' \in Trajectories /\ left' \in Nat
    BY <1>5, PublishType DEF ReturnOffline
  <2> QED BY <1>4, <1>5, <2>1, ClearType DEF ReturnOffline
<1>6. CASE ReturnInitial
  <2>1. trajectory' \in Trajectories /\ left' \in Nat
    BY <1>6, PublishType DEF ReturnInitial
  <2>2. CASE Clear
    BY <1>4, <1>6, <2>1, <2>2, ClearType DEF ReturnInitial
  <2>3. CASE Keep
    BY <1>4, <1>6, <2>1, <2>3 DEF ReturnInitial, Keep, flags, judged, cursors
  <2> QED BY <1>6, <2>2, <2>3 DEF ReturnInitial
<1>7. CASE ReturnResume
  <2>1. trajectory' \in Trajectories /\ left' \in Nat
    BY <1>7, PublishType, RestType DEF ReturnResume
  <2>2. CASE Clear
    BY <1>4, <1>7, <2>1, <2>2, ClearType DEF ReturnResume
  <2>3. CASE Keep
    BY <1>4, <1>7, <2>1, <2>3 DEF ReturnResume, Keep, flags, judged, cursors
  <2> QED BY <1>7, <2>2, <2>3 DEF ReturnResume
<1>8. CASE Cancel
  BY <1>8, ClearType DEF Cancel, calls
<1> QED
  BY <1>1, <1>2, <1>3, <1>5, <1>6, <1>7, <1>8
     DEF Begins, Refuses, Resumes, Returns

\* Only the refinement's end leads on from its two passes.
LEMMA PassStep ==
  ASSUME TypeOK, PassInv, Next \/ UNCHANGED vars
  PROVE  PassInv'
<1> USE DEF PassInv
<1>1. CASE Search
  BY <1>1 DEF Search, Baseline, FiniteDifference035, FiniteDifference070, GiveUp,
     MarkComplete, RefineInit, FirstRefine, Refine, BranchInit, EndBranch,
     BuildQueue, HalveStep, TryMove, cursors
<1>2. CASE UNCHANGED vars
  BY <1>2 DEF vars, cursors
<1>3. CASE Begins
  BY <1>3 DEF Begins, Start
<1>4. CASE Refuses
  BY <1>4 DEF Refuses, RefuseStart, Clear, Keep, cursors
<1>5. CASE Resumes
  BY <1>5 DEF Resumes, Resume, cursors
<1>6. CASE Returns \/ Cancel
  BY <1>6 DEF Returns, ReturnOffline, ReturnInitial, ReturnResume, Cancel,
     Clear, Keep, cursors
<1> QED BY <1>1, <1>2, <1>3, <1>4, <1>5, <1>6 DEF Next

\* The engine's state keeps its types, whatever it searches and however often
\* it is stopped, resumed and cancelled; the queue never exceeds its buffer
\* (waypoint.c:455-523) and its cursor never leaves it.
THEOREM TypeCorrect == Spec => []TypeOK
<1>1. Init => TypeOK /\ PassInv
  <2> SUFFICES ASSUME Init PROVE TypeOK /\ PassInv
    OBVIOUS
  <2> USE DEF Init
  <2>1. 0 \in Values /\ Zero \in Candidates
    BY ZeroType
  <2>2. 1 \in Coordinates /\ 0 \in 0 .. 2 /\ 0 \in 0 .. BranchBudget
        /\ 0 \in 0 .. DBL_MAX /\ 0 <= QueueCapacity
    BY SizeAssumption DEF Coordinates
  <2>3. run \in Runs
    BY DEF Runs, Budgets
  <2>4. refine \in Cursors
    BY <2>1, <2>2 DEF FirstRefine, Cursors
  <2>5. /\ branch \in Branches /\ Len(branch.queue) <= QueueCapacity
        /\ branch.index <= Len(branch.queue)
    <3>1. <<>> \in Seq(Moves) /\ Len(<<>>) = 0
      OBVIOUS
    <3>2. branch = [scale |-> 0, iteration |-> 0, queue |-> <<>>, index |-> 0,
                    valid |-> FALSE]
      BY DEF FirstBranch
    <3> HIDE DEF Init
    <3>3. branch \in Branches
      BY <2>2, <3>1, <3>2 DEF Branches
    <3>4. branch.queue = <<>> /\ branch.index = 0
      BY <3>2
    <3>5. 0 <= QueueCapacity
      BY SizeAssumption
    <3>6. Len(branch.queue) = 0
      BY <3>1, <3>4
    <3> QED BY <3>3, <3>4, <3>5, <3>6
  <2>6. trajectory \in Trajectories
    BY <2>1 DEF Trajectories
  <2> QED BY <2>1, <2>2, <2>3, <2>4, <2>5, <2>6 DEF TypeOK, Phases, PassInv
<1>2. TypeOK /\ PassInv /\ [Next]_vars => (TypeOK /\ PassInv)'
  <2> SUFFICES ASSUME TypeOK, PassInv, Next \/ UNCHANGED vars
               PROVE  TypeOK' /\ PassInv'
    OBVIOUS
  <2>1. PassInv'
    BY PassStep
  <2>2. CASE Search
    BY <2>1, <2>2, SearchType
  <2>3. CASE Begins \/ Refuses \/ Resumes \/ Returns \/ Cancel
    BY <2>1, <2>3, CallType
  <2>4. CASE UNCHANGED vars
    BY <2>1, <2>4 DEF TypeOK, vars, calls, flags, judged, cursors
  <2> QED BY <2>1, <2>2, <2>3, <2>4 DEF Next
<1> QED BY <1>1, <1>2, PTL DEF Spec

-----------------------------------------------------------------------------
(* What a step does to the engine, stated once for all invariants.         *)

\* A candidate either becomes the best one or joins the rejected ones.
LEMMA TriesEffect ==
  ASSUME TypeOK, NEW v \in Candidates, Tries(v)
  PROVE  /\ run'.kind = run.kind /\ run'.start = run.start
         /\ identity' = identity /\ trajectory' = trajectory /\ left' = left
         /\ active' = active /\ complete' = complete
         /\ \/ /\ Better(v)
               /\ found' /\ fresh' /\ best' = v /\ rejected' = {}
               /\ bestDuration' = Duration(identity, run.start, v)
               /\ bestDuration' < bestDuration /\ bestDuration' < DBL_MAX
            \/ /\ ~Better(v)
               /\ found' = found /\ fresh' = fresh /\ best' = best
               /\ bestDuration' = bestDuration
               /\ rejected' = rejected \cup {v}
<1>1. run'.kind = run.kind /\ run'.start = run.start
  BY DEF TypeOK, Runs, Tries, MayStop
<1>2. run.start \in Starts /\ identity \in Plans
  BY DEF TypeOK, Runs
<1>3. Duration(identity, run.start, v) < DBL_MAX
  BY <1>2, DurationAssumption
<1> QED BY <1>1, <1>3 DEF Tries, Judge, Better, flags

\* The candidates the search tries.
LEMMA TriedBySearch ==
  ASSUME TypeOK
  PROVE  /\ Zero \in Candidates /\ Tried \in Candidates
         /\ FiniteDifference(7) \in Candidates
         /\ FiniteDifference(14) \in Candidates
         /\ \A move \in Moves : Moved(move) \in Candidates
BY ZeroType, TriedType, FiniteDifferenceType, MovedType DEF TypeOK, Runs

\* The move at the cursor of the queue.
NextMove == branch.queue[branch.index + 1]

\* A cursor within the queue is at a move.
LEMMA NextMoveType ==
  ASSUME TypeOK, branch.index < Len(branch.queue)
  PROVE  NextMove \in Moves /\ branch.index \in Nat
<1>1. branch.queue \in Seq(Moves) /\ branch.index \in Nat
  BY DEF TypeOK, Branches
<1> QED BY <1>1 DEF NextMove

\* A call between two searches either begins one, resumes one, leaves the
\* engine as it is, or clears it.
LEMMA CallEffect ==
  ASSUME TypeOK, Refuses \/ Resumes \/ Returns \/ Cancel
  PROVE  \/ /\ Clear /\ run'.kind = "none"
         \/ /\ Keep /\ identity' = identity
            /\ run'.kind = "none" /\ run'.start = run.start
            /\ \/ run.kind = "none"
               \/ Stopped /\ (found \/ run.kind = "resume")
         \/ \E s \in Starts, b \in Budgets : Resume(s, b)
<1>1. CASE Refuses
  <2>1. PICK p \in Plans, kind \in {"offline", "initial"} : RefuseStart(p, kind)
    BY <1>1 DEF Refuses
  <2> QED BY <2>1 DEF RefuseStart
<1>2. CASE Resumes
  BY <1>2 DEF Resumes
<1>3. ASSUME Return PROVE run'.kind = "none" /\ run'.start = run.start
                          /\ identity' = identity
  BY <1>3 DEF Return, TypeOK, Runs
<1>4. CASE Returns
  BY <1>3, <1>4 DEF Returns, ReturnOffline, ReturnInitial, ReturnResume
<1>5. CASE Cancel
  BY <1>5 DEF Cancel, calls
<1> QED BY <1>1, <1>2, <1>4, <1>5

-----------------------------------------------------------------------------
(* How far the search is.                                                  *)

\* The phase, the flags and the call under way agree: a first call has
\* accepted what it has found, a resumed one takes up a search that has found
\* something, and only such a search is left behind by a call.
SearchInv ==
  /\ complete => ~active /\ phase = "COMPLETE"
  /\ active => phase # "IDLE"
  /\ run.kind # "none" /\ ~active => complete
  /\ phase = "BASELINE" =>
       /\ active /\ ~complete /\ ~found
       /\ run.kind \in {"offline", "initial"} /\ ~run.interrupted
  /\ phase = "COMPLETE" /\ ~complete => ~found
  /\ phase \in {"REFINE_INIT", "REFINE", "BRANCH_INIT", "BRANCH"} => found
  /\ fresh => found
  /\ found => bestDuration < DBL_MAX
  /\ run.kind \in {"offline", "initial"} /\ found => fresh
  /\ run.kind = "resume" => found
  /\ run.kind = "none" /\ active => found

\* A turn of the search keeps them in agreement.
LEMMA SearchInvSearch ==
  ASSUME TypeOK, SearchInv, Search
  PROVE  SearchInv'
<1> USE DEF SearchInv
<1>1. CASE Baseline
  <2>1. Tries(Zero) /\ phase' = "FINITE_DIFFERENCE_035" /\ Searching
    BY <1>1 DEF Baseline
  <2> QED BY <1>1, <2>1, TriedBySearch, TriesEffect DEF Searching, Baseline
<1>2. CASE FiniteDifference035
  <2>1. /\ Tries(FiniteDifference(7)) /\ phase' = "FINITE_DIFFERENCE_070"
        /\ Searching
    BY <1>2 DEF FiniteDifference035
  <2> QED BY <2>1, TriedBySearch, TriesEffect DEF Searching
<1>3. CASE FiniteDifference070
  <2>1. /\ Tries(FiniteDifference(14)) /\ Searching
        /\ phase' = IF found' THEN "REFINE_INIT" ELSE "COMPLETE"
    BY <1>3 DEF FiniteDifference070
  <2> QED BY <2>1, TriedBySearch, TriesEffect DEF Searching
<1>4. CASE GiveUp
  BY <1>4 DEF GiveUp, MarkComplete, Searching, calls, judged
<1>5. CASE RefineInit
  BY <1>5 DEF RefineInit, MovesOn, Searching, calls, flags, judged
<1>6. CASE Refine
  <2>1. /\ Tries(Tried) /\ Searching /\ phase = "REFINE"
        /\ phase' \in {"BRANCH_INIT", "REFINE"}
    BY <1>6 DEF Refine
  <2> QED BY <2>1, TriedBySearch, TriesEffect DEF Searching
<1>7. CASE BranchInit
  BY <1>7 DEF BranchInit, MovesOn, Searching, calls, flags, judged
<1>8. CASE EndBranch
  BY <1>8 DEF EndBranch, MarkComplete, Searching, calls, judged
<1>9. CASE BuildQueue
  BY <1>9 DEF BuildQueue, MovesOn, Searching, calls, flags, judged
<1>10. CASE HalveStep
  BY <1>10 DEF HalveStep, MovesOn, Searching, calls, flags, judged
<1>11. CASE TryMove
  <2>1. /\ Tries(Moved(NextMove)) /\ Searching /\ phase = "BRANCH"
        /\ phase' = phase /\ branch.index < Len(branch.queue)
    BY <1>11 DEF TryMove, NextMove
  <2>2. Moved(NextMove) \in Candidates
    BY <2>1, NextMoveType, TriedBySearch
  <2> QED BY <2>1, <2>2, TriesEffect DEF Searching
<1> QED BY <1>1, <1>2, <1>3, <1>4, <1>5, <1>6, <1>7, <1>8, <1>9, <1>10, <1>11
        DEF Search

\* A call that begins or returns keeps them in agreement.
LEMMA SearchInvCall ==
  ASSUME TypeOK, SearchInv, Begins \/ Refuses \/ Resumes \/ Returns \/ Cancel
  PROVE  SearchInv'
<1> USE DEF SearchInv
<1>1. CASE Begins
  <2>1. PICK p \in Plans, s \in Starts, kind \in {"offline", "initial"},
             b \in Budgets : Start(p, s, kind, b)
    BY <1>1 DEF Begins
  <2> QED BY <2>1 DEF Start
<1>2. CASE Clear /\ run'.kind = "none"
  BY <1>2 DEF Clear
<1>3. CASE /\ Keep /\ run'.kind = "none"
           /\ \/ run.kind = "none"
              \/ Stopped /\ (found \/ run.kind = "resume")
  BY <1>3 DEF Keep, Stopped, flags, judged
<1>4. ASSUME NEW s \in Starts, NEW b \in Budgets, Resume(s, b)
      PROVE  SearchInv'
  <2>1. Cap <= bestDuration
    BY SizeAssumption DEF Cap, TypeOK
  <2>2. run'.kind = "resume" /\ ~fresh' /\ bestDuration' = Cap
        /\ active /\ ~complete /\ run.kind = "none"
        /\ phase' = phase /\ active' = active /\ complete' = complete
        /\ found' = found
    BY <1>4 DEF Resume, FreshAtResume, flags
  <2>3. bestDuration < DBL_MAX => bestDuration' < DBL_MAX
    BY <2>1, <2>2, SizeAssumption DEF Cap, TypeOK
  <2> QED BY <2>2, <2>3
<1> HIDE DEF SearchInv
<1>5. CASE Refuses \/ Resumes \/ Returns \/ Cancel
  BY <1>2, <1>3, <1>4, <1>5, CallEffect
<1> QED BY <1>1, <1>5

-----------------------------------------------------------------------------
(* The coordinate under refinement.                                        *)

\* Away from its coordinate a changed candidate is what it was.
LEMMA WithElsewhere ==
  ASSUME NEW v \in Candidates, NEW c \in Coordinates, NEW x,
         NEW d \in Coordinates, d # c
  PROVE  With(v, c, x)[d] = v[d]
BY DEF With, Candidates

\* A step of the refinement keeps the candidate on the best one but for the
\* coordinate it is at, whether it accepts, goes the other way, or restores.
LEMMA OneCoordinateRefine ==
  ASSUME TypeOK, OneCoordinate, Refine
  PROVE  OneCoordinate'
<1> SUFFICES ASSUME phase' = "REFINE"
             PROVE  /\ \A c \in Coordinates :
                         c # refine'.coordinate => candidate'[c] = best'[c]
                    /\ Original' = best'[refine'.coordinate]
  BY DEF OneCoordinate
<1> DEFINE k == refine.coordinate
<1>1. /\ candidate \in Candidates /\ best \in Candidates /\ k \in Coordinates
      /\ refine \in Cursors
  BY DEF TypeOK, Cursors
<1>2. /\ Tries(Tried) /\ phase = "REFINE"
      /\ \A c \in Coordinates : c # k => candidate[c] = best[c]
      /\ Original = best[k]
  BY DEF Refine, OneCoordinate
<1>3. Tried \in Candidates /\ Original \in Values /\ Restored \in Candidates
  BY TriedType
<1>4. \A c \in Coordinates : c # k => Tried[c] = best[c]
  BY <1>1, <1>2, WithElsewhere DEF Tried
<1>5. \A c \in Coordinates : Restored[c] = best[c]
  BY <1>1, <1>2 DEF Restored, Candidates
<1>6. CASE /\ Better(Tried) \/ refine.attempt = 1
           /\ refine' = NextCoordinate
           /\ candidate' = IF ~IsVelocity(k) THEN best'
                           ELSE IF Better(Tried) THEN Tried ELSE Restored
  <2>1. Better(Tried) => best' = Tried
    BY <1>2, <1>3, TriesEffect
  <2>2. ~Better(Tried) => best' = best
    BY <1>2, <1>3, TriesEffect
  <2>3. \A c \in Coordinates : candidate'[c] = best'[c]
    BY <1>5, <1>6, <2>1, <2>2
  <2>4. refine'.coordinate \in Coordinates /\ ~refine'.saved
    BY <1>1, <1>6, SizeAssumption DEF NextCoordinate, Coordinates
  <2>5. Original' = candidate'[refine'.coordinate]
    BY <2>4 DEF Original
  <2> QED BY <2>3, <2>4, <2>5
<1>7. CASE /\ ~Better(Tried)
           /\ refine' = [refine EXCEPT !.attempt = 1, !.original = Original,
                                       !.saved = TRUE]
           /\ candidate' = Tried
  <2>1. best' = best
    BY <1>2, <1>3, <1>7, TriesEffect
  <2>2. refine'.coordinate = k /\ refine'.saved /\ refine'.original = Original
    BY <1>1, <1>7 DEF Cursors
  <2>3. Original' = Original
    BY <2>2 DEF Original
  <2> QED BY <1>2, <1>4, <1>7, <2>1, <2>2, <2>3
<1> QED BY <1>6, <1>7 DEF Refine

\* No other step touches the candidate while coordinates are refined.
LEMMA OneCoordinateStep ==
  ASSUME TypeOK, OneCoordinate, Next \/ UNCHANGED vars
  PROVE  OneCoordinate'
<1>1. CASE Refine
  BY <1>1, OneCoordinateRefine
<1>2. CASE RefineInit
  BY <1>2 DEF RefineInit, FirstRefine, MovesOn, judged, OneCoordinate, Original
<1>3. CASE Search /\ phase' # "REFINE"
  BY <1>3 DEF OneCoordinate
<1>4. CASE Search /\ ~Refine /\ ~RefineInit
  <2>1. phase' # "REFINE"
    BY <1>4 DEF Search, Baseline, FiniteDifference035, FiniteDifference070,
       GiveUp, MarkComplete, BranchInit, EndBranch, BuildQueue, HalveStep,
       TryMove
  <2> QED BY <2>1 DEF OneCoordinate
<1>5. CASE UNCHANGED <<phase, candidate, best, refine>>
  BY <1>5 DEF OneCoordinate, Original
<1>6. CASE Begins
  BY <1>6 DEF Begins, Start, OneCoordinate
<1>7. CASE Clear
  BY <1>7 DEF Clear, OneCoordinate
<1>8. CASE Keep \/ (\E s \in Starts, b \in Budgets : Resume(s, b)) \/ UNCHANGED vars
  BY <1>5, <1>8 DEF Keep, Resume, judged, cursors, vars
<1> QED BY <1>1, <1>2, <1>4, <1>6, <1>7, <1>8, CallEffect DEF Next

-----------------------------------------------------------------------------
(* What this call accepted.                                                *)

\* A call judges from one state, and forgets at its start what was accepted
\* from another.
LEMMA JudgedStep ==
  ASSUME TypeOK, JudgedFromHere, Next \/ UNCHANGED vars
  PROVE  JudgedFromHere'
<1>1. ASSUME NEW v \in Candidates, Tries(v)
      PROVE  JudgedFromHere'
  BY <1>1, TriesEffect DEF JudgedFromHere
<1>2. CASE MovesOn \/ UNCHANGED vars
  BY <1>2 DEF MovesOn, vars, calls, judged, JudgedFromHere
<1>3. CASE Search
  <2>1. CASE TryMove
    <3>1. Tries(Moved(NextMove)) /\ branch.index < Len(branch.queue)
      BY <2>1 DEF TryMove, NextMove
    <3>2. Moved(NextMove) \in Candidates
      BY <3>1, NextMoveType, TriedBySearch
    <3> QED BY <1>1, <3>1, <3>2
  <2>2. CASE Baseline \/ FiniteDifference035 \/ FiniteDifference070 \/ Refine
    BY <1>1, <2>2, TriedBySearch
       DEF Baseline, FiniteDifference035, FiniteDifference070, Refine
  <2>3. CASE RefineInit \/ BranchInit \/ BuildQueue \/ HalveStep
    BY <1>2, <2>3 DEF RefineInit, BranchInit, BuildQueue, HalveStep
  <2>4. CASE GiveUp \/ EndBranch
    BY <2>4 DEF GiveUp, EndBranch, calls, judged, JudgedFromHere
  <2> QED BY <1>3, <2>1, <2>2, <2>3, <2>4 DEF Search
<1>4. CASE Begins
  BY <1>4 DEF Begins, Start, JudgedFromHere
<1>5. CASE Clear
  BY <1>5 DEF Clear, JudgedFromHere
<1>6. CASE Keep /\ identity' = identity /\ run'.start = run.start
  BY <1>6 DEF Keep, judged, JudgedFromHere
<1>7. CASE \E s \in Starts, b \in Budgets : Resume(s, b)
  BY <1>7 DEF Resume, FreshAtResume, JudgedFromHere
<1> QED BY <1>2, <1>3, <1>4, <1>5, <1>6, <1>7, CallEffect DEF Next

-----------------------------------------------------------------------------
(* The branch search.                                                      *)

\* The candidate that a move of a given step leads to from the best one.
Neighbour(i, scale) == Moved(Move(i, scale))

\* The queue in use is the one for the present step and the best candidate,
\* and what the cursor has passed was rejected.  When the step has run out,
\* the smallest one has been used up against the best candidate.
BranchInv ==
  /\ phase = "BRANCH" /\ branch.valid =>
       /\ branch.scale # 0
       /\ branch.queue = Queue(branch.scale)
       /\ \A i \in 1 .. NumMoves :
            i <= branch.index => Neighbour(i, branch.scale) \in rejected
  /\ phase \in {"BRANCH", "COMPLETE"} /\ found /\ branch.scale = 0 =>
       \A i \in 1 .. NumMoves : Neighbour(i, 1) \in rejected
  /\ complete /\ found => BranchEnded

\* Building a queue and halving the step keep what is known of the moves.
LEMMA BranchInvQueue ==
  ASSUME TypeOK, BranchInv, BuildQueue \/ HalveStep
  PROVE  BranchInv'
<1>1. /\ branch \in Branches /\ branch.scale \in Scales /\ branch.index \in Nat
      /\ identity \in Plans /\ NumMoves \in Nat
  BY NumMovesType DEF TypeOK, Branches, Scales
<1>2. /\ best' = best /\ rejected' = rejected /\ identity' = identity
      /\ phase = "BRANCH" /\ phase' = "BRANCH" /\ ~complete /\ complete' = complete
      /\ branch.scale # 0
  BY DEF BuildQueue, HalveStep, MovesOn, judged, calls, flags, Searching,
     BranchEnded
<1>3. /\ NumMoves' = NumMoves
      /\ \A scale : Queue(scale)' = Queue(scale)
      /\ \A i, scale : Neighbour(i, scale)' = Neighbour(i, scale)
  BY <1>2 DEF NumMoves, Queue, Move, Delta, Range, Neighbour, Moved, With, Clamp
<1>4. CASE BuildQueue
  <2>1. /\ branch'.scale = branch.scale /\ branch'.queue = Queue(branch.scale)
        /\ branch'.index = 0
    BY <1>1, <1>4 DEF BuildQueue, Branches
  <2> QED BY <1>1, <1>2, <1>3, <2>1 DEF BranchInv
<1>5. CASE HalveStep
  <2>1. branch.valid /\ branch.index >= Len(branch.queue)
    BY <1>5 DEF HalveStep
  <2>2. branch.queue = Queue(branch.scale) /\ Len(branch.queue) = NumMoves
    BY <1>1, <1>2, <2>1, QueueType DEF BranchInv
  <2>3. branch'.scale = branch.scale \div 2 /\ ~branch'.valid
    BY <1>1, <1>5 DEF HalveStep, Branches
  <2>4. branch'.scale = 0 => branch.scale = 1
    BY <1>1, <1>2, <2>3 DEF Scales
  <2>5. \A i \in 1 .. NumMoves : Neighbour(i, branch.scale) \in rejected
    BY <1>1, <1>2, <2>1, <2>2 DEF BranchInv
  <2> QED BY <1>2, <1>3, <2>3, <2>4, <2>5 DEF BranchInv
<1> QED BY <1>4, <1>5

\* A move that is accepted makes the queue invalid; one that is rejected is
\* one more that was.
LEMMA BranchInvMove ==
  ASSUME TypeOK, BranchInv, TryMove
  PROVE  BranchInv'
<1>1. /\ branch \in Branches /\ branch.scale \in Scales /\ branch.index \in Nat
      /\ identity \in Plans /\ NumMoves \in Nat
  BY NumMovesType DEF TypeOK, Branches, Scales
<1>2. /\ Tries(Moved(NextMove)) /\ branch' = AfterMove(Better(Moved(NextMove)))
      /\ phase = "BRANCH" /\ phase' = "BRANCH" /\ ~complete
      /\ branch.valid /\ branch.index < Len(branch.queue)
  BY DEF TryMove, NextMove, Searching
<1>3. Moved(NextMove) \in Candidates
  BY <1>2, NextMoveType, TriedBySearch
<1>4. /\ branch.scale # 0 /\ branch.queue = Queue(branch.scale)
      /\ Len(branch.queue) = NumMoves
      /\ \A i \in 1 .. NumMoves :
           i <= branch.index => Neighbour(i, branch.scale) \in rejected
  BY <1>1, <1>2, QueueType DEF BranchInv
<1>5. branch'.scale = branch.scale
  BY <1>1, <1>2 DEF AfterMove, Branches
<1>6. ~complete'
  BY <1>2, <1>3, TriesEffect
<1>7. CASE Better(Moved(NextMove))
  <2>1. ~branch'.valid
    BY <1>1, <1>2, <1>7 DEF AfterMove, Branches
  <2> QED BY <1>4, <1>5, <1>6, <2>1 DEF BranchInv
<1>8. CASE ~Better(Moved(NextMove))
  <2>1. /\ best' = best /\ identity' = identity
        /\ rejected' = rejected \cup {Moved(NextMove)}
    BY <1>2, <1>3, <1>8, TriesEffect
  <2>2. /\ NumMoves' = NumMoves
        /\ \A scale : Queue(scale)' = Queue(scale)
        /\ \A i, scale : Neighbour(i, scale)' = Neighbour(i, scale)
    BY <2>1 DEF NumMoves, Queue, Move, Delta, Range, Neighbour, Moved, With, Clamp
  <2>3. branch'.queue = branch.queue /\ branch'.index = branch.index + 1
    BY <1>1, <1>2, <1>8 DEF AfterMove, Branches
  <2>4. NextMove = Move(branch.index + 1, branch.scale)
    BY <1>1, <1>2, <1>4, QueueType DEF NextMove
  <2>5. Moved(NextMove) = Neighbour(branch.index + 1, branch.scale)
    BY <2>4 DEF Neighbour
  <2>6. ASSUME NEW i \in 1 .. NumMoves, i <= branch.index + 1
        PROVE  Neighbour(i, branch.scale) \in rejected'
    <3>1. CASE i <= branch.index
      BY <1>4, <2>1, <3>1
    <3>2. CASE i = branch.index + 1
      BY <2>1, <2>5, <3>2
    <3> QED BY <1>1, <2>6, <3>1, <3>2
  <2> QED BY <1>4, <1>5, <1>6, <2>2, <2>3, <2>6 DEF BranchInv
<1> QED BY <1>7, <1>8

\* Every step keeps what is known of the branch search.
LEMMA BranchInvStep ==
  ASSUME TypeOK, SearchInv, BranchInv, Next \/ UNCHANGED vars
  PROVE  BranchInv'
<1>1. CASE BuildQueue \/ HalveStep
  BY <1>1, BranchInvQueue
<1>2. CASE TryMove
  BY <1>2, BranchInvMove
<1>3. CASE phase' \notin {"BRANCH", "COMPLETE"} /\ ~complete'
  BY <1>3 DEF BranchInv
<1>4. CASE Baseline \/ FiniteDifference035 \/ Refine \/ RefineInit
  <2>1. ~complete
    BY <1>4 DEF Baseline, FiniteDifference035, Refine, RefineInit, Searching
  <2>2. complete' = complete
    BY <1>4 DEF Baseline, FiniteDifference035, Refine, RefineInit, Tries,
       MovesOn, flags
  <2>3. phase' \notin {"BRANCH", "COMPLETE"}
    BY <1>4 DEF Baseline, FiniteDifference035, Refine, RefineInit
  <2> QED BY <1>3, <2>1, <2>2, <2>3
<1>5. CASE FiniteDifference070
  <2>1. /\ ~complete' /\ phase' # "BRANCH"
        /\ phase' = "COMPLETE" => ~found'
    BY <1>5 DEF FiniteDifference070, Searching, Tries, flags
  <2> QED BY <2>1 DEF BranchInv
<1>6. CASE GiveUp
  <2>1. ~found /\ found' = found /\ phase' = "COMPLETE"
    BY <1>6 DEF GiveUp, MarkComplete, Searching, SearchInv, judged
  <2> QED BY <2>1 DEF BranchInv
<1>7. CASE BranchInit
  <2>1. /\ ~complete' /\ branch' = FirstBranch /\ phase' = "BRANCH"
    BY <1>7 DEF BranchInit, MovesOn, Searching, flags
  <2>2. ~branch'.valid /\ branch'.scale = 8
    BY <2>1 DEF FirstBranch
  <2> QED BY <2>1, <2>2 DEF BranchInv
<1>8. ASSUME UNCHANGED <<identity, best, rejected, branch>>
      PROVE  /\ NumMoves' = NumMoves
             /\ \A scale : Queue(scale)' = Queue(scale)
             /\ \A i, scale : Neighbour(i, scale)' = Neighbour(i, scale)
  BY <1>8 DEF NumMoves, Queue, Move, Delta, Range, Neighbour, Moved, With, Clamp
<1>9. CASE EndBranch
  <2>1. /\ phase = "BRANCH" /\ phase' = "COMPLETE" /\ BranchEnded
        /\ UNCHANGED <<identity, best, rejected, branch, found>>
    BY <1>9 DEF EndBranch, MarkComplete, calls, judged, cursors
  <2>2. BranchEnded'
    BY <2>1 DEF BranchEnded
  <2> QED BY <1>8, <2>1, <2>2 DEF BranchInv
<1>10. CASE UNCHANGED <<identity, phase, complete, found, best, rejected, branch>>
  <2>1. BranchEnded' = BranchEnded
    BY <1>10 DEF BranchEnded
  <2> QED BY <1>8, <1>10, <2>1 DEF BranchInv
<1>11. CASE Begins
  <2>1. phase' = "BASELINE" /\ ~complete'
    BY <1>11 DEF Begins, Start
  <2> QED BY <1>3, <2>1
<1>12. CASE Clear
  BY <1>3, <1>12 DEF Clear
<1>13. CASE \/ Keep /\ identity' = identity
            \/ UNCHANGED vars
            \/ \E s \in Starts, b \in Budgets : Resume(s, b)
  BY <1>10, <1>13 DEF Keep, Resume, vars, calls, flags, judged, cursors
<1>14. CASE Search
  BY <1>1, <1>2, <1>4, <1>5, <1>6, <1>7, <1>9, <1>14 DEF Search
<1>15. CASE Refuses \/ Resumes \/ Returns \/ Cancel
  BY <1>12, <1>13, <1>15, CallEffect
<1> QED BY <1>11, <1>13, <1>14, <1>15 DEF Next

-----------------------------------------------------------------------------
(* The theorems.                                                           *)

\* The inductive invariant: everything above together.
EngineInv ==
  /\ TypeOK
  /\ PassInv
  /\ SearchInv
  /\ OneCoordinate
  /\ JudgedFromHere
  /\ BranchInv

\* Everything above holds together, from the first call on.
THEOREM EngineInvariant == Spec => []EngineInv
<1>1. Init => PassInv /\ SearchInv /\ OneCoordinate /\ JudgedFromHere /\ BranchInv
  BY DEF Init, PassInv, SearchInv, OneCoordinate, JudgedFromHere, BranchInv
<1>2. /\ TypeOK /\ PassInv /\ SearchInv /\ OneCoordinate /\ JudgedFromHere
      /\ BranchInv /\ [Next]_vars
      => (PassInv /\ SearchInv /\ OneCoordinate /\ JudgedFromHere /\ BranchInv)'
  <2> SUFFICES ASSUME TypeOK, PassInv, SearchInv, OneCoordinate, JudgedFromHere,
                      BranchInv, Next \/ UNCHANGED vars
               PROVE  /\ PassInv' /\ SearchInv' /\ OneCoordinate'
                      /\ JudgedFromHere' /\ BranchInv'
    OBVIOUS
  <2>1. PassInv' /\ OneCoordinate' /\ JudgedFromHere' /\ BranchInv'
    BY PassStep, OneCoordinateStep, JudgedStep, BranchInvStep
  <2>2. CASE Next
    BY <2>1, <2>2, SearchInvSearch, SearchInvCall DEF Next
  <2>3. CASE UNCHANGED vars
    BY <2>1, <2>3 DEF SearchInv, vars, calls, flags, judged
  <2> QED BY <2>2, <2>3
<1>3. Spec => []TypeOK
  BY TypeCorrect
<1> QED BY <1>1, <1>2, <1>3, PTL DEF Spec, EngineInv

\* A search left behind by a call is in the middle: it has found something, it
\* is not complete, and resuming it goes on where it was (waypoint.c:181-189).
THEOREM ResumableHolds == Spec => []ResumableInTheMiddle
<1>1. EngineInv => ResumableInTheMiddle
  BY DEF EngineInv, SearchInv, ResumableInTheMiddle, TypeOK, Phases
<1> QED BY <1>1, EngineInvariant, PTL

\* While coordinates are refined, at most one of them is away from the best
\* candidate, also after a call that was stopped between the attempt up and
\* the attempt down (waypoint.c:625-725).
THEOREM OneCoordinateHolds == Spec => []OneCoordinate
<1>1. EngineInv => OneCoordinate
  BY DEF EngineInv
<1> QED BY <1>1, EngineInvariant, PTL

\* What a call accepted was judged from the state of that call, so that its
\* publication cannot come out different (waypoint.c:1146, 1005-1028).
THEOREM JudgedFromHereHolds == Spec => []JudgedFromHere
<1>1. EngineInv => JudgedFromHere
  BY DEF EngineInv
<1> QED BY <1>1, EngineInvariant, PTL

\* A search that ends within its budget of rejections ends at a candidate none
\* of whose smallest moves was better (waypoint.c:735-740, 765-769, 799-804).
THEOREM LocallyBestHolds == Spec => []LocallyBest
<1>1. EngineInv => LocallyBest
  <2> SUFFICES ASSUME EngineInv, complete, found, branch.iteration < BranchBudget
               PROVE  \A i \in 1 .. NumMoves : Moved(Move(i, 1)) \in rejected
    BY DEF LocallyBest
  <2>1. branch.iteration \in Nat /\ BranchBudget \in Nat
    BY SizeAssumption DEF EngineInv, TypeOK, Branches
  <2>2. BranchEnded /\ phase = "COMPLETE"
    BY DEF EngineInv, BranchInv, SearchInv
  <2>3. branch.scale = 0
    BY <2>1, <2>2 DEF BranchEnded
  <2> QED BY <2>2, <2>3 DEF EngineInv, BranchInv, Neighbour
<1> QED BY <1>1, EngineInvariant, PTL

\* A step of the search or of a call gives up the best candidate only for a
\* strictly shorter one (waypoint.c:418-441, 1140-1144).
LEMMA ImprovesStep ==
  ASSUME TypeOK, Next \/ UNCHANGED vars, active', ~Begins
  PROVE  /\ bestDuration' <= bestDuration
         /\ best' # best => bestDuration' < bestDuration
<1>0. bestDuration \in Int
  BY SizeAssumption DEF TypeOK
<1>1. CASE UNCHANGED <<bestDuration, best>>
  BY <1>0, <1>1
<1>2. ASSUME NEW v \in Candidates, Tries(v)
      PROVE  \/ bestDuration' < bestDuration /\ bestDuration' \in Int
             \/ UNCHANGED <<bestDuration, best>>
  <2>1. bestDuration' \in 0 .. DBL_MAX
    BY <1>2, TriesType
  <2>2. bestDuration' \in Int
    BY <2>1, SizeAssumption
  <2>3. bestDuration' < bestDuration \/ UNCHANGED <<bestDuration, best>>
    BY <1>2, TriesEffect
  <2> QED BY <2>2, <2>3
<1>3. CASE Search
  <2>1. CASE TryMove
    <3>1. Tries(Moved(NextMove)) /\ branch.index < Len(branch.queue)
      BY <2>1 DEF TryMove, NextMove
    <3>2. Moved(NextMove) \in Candidates
      BY <3>1, NextMoveType, TriedBySearch
    <3> QED BY <1>0, <1>1, <1>2, <3>1, <3>2
  <2>2. CASE Baseline \/ FiniteDifference035 \/ FiniteDifference070 \/ Refine
    <3>1. PICK v \in Candidates : Tries(v)
      BY <2>2, TriedBySearch
         DEF Baseline, FiniteDifference035, FiniteDifference070, Refine
    <3> QED BY <1>0, <1>1, <1>2, <3>1
  <2>3. CASE \/ RefineInit \/ BranchInit \/ BuildQueue \/ HalveStep
             \/ GiveUp \/ EndBranch
    BY <1>1, <2>3 DEF RefineInit, BranchInit, BuildQueue, HalveStep, GiveUp,
       EndBranch, MovesOn, judged
  <2> QED BY <1>3, <2>1, <2>2, <2>3 DEF Search
<1>4. CASE Clear
  BY <1>4 DEF Clear
<1>5. CASE Keep \/ UNCHANGED vars
  BY <1>1, <1>5 DEF Keep, vars, judged
<1>6. CASE \E s \in Starts, b \in Budgets : Resume(s, b)
  <2>1. best' = best /\ bestDuration' = Cap
    BY <1>6 DEF Resume
  <2>2. left \in Int
    BY DEF TypeOK
  <2> QED BY <1>0, <2>1, <2>2 DEF Cap
<1> QED BY <1>3, <1>4, <1>5, <1>6, CallEffect DEF Next

\* From the beginning of a search to its end, over all its calls, the duration
\* to beat never rises and the best candidate only ever gets shorter.
THEOREM OnlyImprovesHolds == Spec => OnlyImproves
<1>1. TypeOK /\ [Next]_vars
      => [active' /\ ~Begins =>
            /\ bestDuration' <= bestDuration
            /\ best' # best => bestDuration' < bestDuration]_vars
  BY ImprovesStep
<1> QED BY <1>1, TypeCorrect, PTL DEF Spec, OnlyImproves

-----------------------------------------------------------------------------
(* The engine implements an anytime search.                                *)

\* What the call and its caller share.
shared == <<run.kind, identity, run.start, active, trajectory, left>>

\* A turn of the search changes none of it, but for the turn that ends it.
LEMMA SearchMaps ==
  ASSUME TypeOK, Search
  PROVE  Anytime!Exhaust \/ UNCHANGED shared
<1>1. ASSUME NEW v \in Candidates, Tries(v)
      PROVE  UNCHANGED shared
  BY <1>1, TriesEffect DEF shared
<1>2. CASE TryMove
  <2>1. Tries(Moved(NextMove)) /\ branch.index < Len(branch.queue)
    BY <1>2 DEF TryMove, NextMove
  <2>2. Moved(NextMove) \in Candidates
    BY <2>1, NextMoveType, TriedBySearch
  <2> QED BY <1>1, <2>1, <2>2
<1>3. CASE Baseline \/ FiniteDifference035 \/ FiniteDifference070 \/ Refine
  BY <1>1, <1>3, TriedBySearch
     DEF Baseline, FiniteDifference035, FiniteDifference070, Refine
<1>4. CASE RefineInit \/ BranchInit \/ BuildQueue \/ HalveStep
  BY <1>4 DEF RefineInit, BranchInit, BuildQueue, HalveStep, MovesOn, calls,
     flags, shared
<1>5. CASE GiveUp \/ EndBranch
  BY <1>5 DEF GiveUp, EndBranch, MarkComplete, Searching, calls, Anytime!Exhaust
<1> QED BY <1>2, <1>3, <1>4, <1>5 DEF Search

\* A call that returns with what it published is an Answer.
LEMMA PublicationMaps ==
  ASSUME TypeOK, Return, Publishable, Publish, run.kind # "none",
         run.kind = "resume" => Duration(identity, run.start, best) < left,
         active' \in {active, FALSE},
         run.kind = "offline" => ~active'
  PROVE  Anytime!Answer
<1>1. /\ run'.kind = "none" /\ run'.start = run.start /\ identity' = identity
      /\ best \in Candidates /\ active' \in {active, FALSE}
  BY DEF Return, TypeOK, Runs
<1>2. /\ trajectory' = [valid |-> TRUE, of |-> best,
                        duration |-> Duration(identity, run.start, best)]
      /\ trajectory'.of = best
      /\ left' = Rest(Duration(identity, run.start, best))
      /\ Duration(identity, run.start, best) # Infeasible
  BY DEF Publish, Publishable
<1> QED BY <1>1, <1>2 DEF Anytime!Answer, Anytime!Trajectory, Anytime!Rest, Rest

\* The calls of the engine are the calls of the abstract search.
LEMMA CallMaps ==
  ASSUME TypeOK, JudgedFromHere,
         Begins \/ Refuses \/ Resumes \/ Returns \/ Cancel
  PROVE  Anytime!Next
<1> USE DEF Anytime!Next
<1>1. CASE Begins
  <2>1. PICK p \in Plans, s \in Starts, kind \in {"offline", "initial"},
             b \in Budgets : Start(p, s, kind, b)
    BY <1>1 DEF Begins
  <2> QED BY <2>1 DEF Start, Invalidated, Anytime!Begin
<1>2. CASE Refuses
  <2>1. PICK p \in Plans, kind \in {"offline", "initial"} : RefuseStart(p, kind)
    BY <1>2 DEF Refuses
  <2>2. active' \in {active, FALSE}
    BY <2>1 DEF RefuseStart, Clear, Keep, flags
  <2> QED BY <2>1, <2>2 DEF RefuseStart, Invalidated, Anytime!Refuse
<1>3. CASE Resumes
  <2>1. PICK s \in Starts, b \in Budgets : Resume(s, b)
    BY <1>3 DEF Resumes
  <2> QED BY <2>1 DEF Resume, flags, Anytime!Resume
<1>4. CASE ReturnOffline
  <2>1. run.kind = "offline" /\ Return /\ active' = FALSE
    BY <1>4 DEF ReturnOffline, Clear
  <2>2. CASE Publishable /\ Publish
    BY <2>1, <2>2, PublicationMaps
  <2>3. CASE UNCHANGED <<trajectory, left>>
    BY <2>1, <2>3 DEF Return, TypeOK, Runs, Anytime!Fail
  <2> QED BY <1>4, <2>2, <2>3 DEF ReturnOffline
<1>5. CASE ReturnInitial
  <2>1. run.kind = "initial" /\ Return
    BY <1>5 DEF ReturnInitial
  <2>2. CASE Publishable /\ Publish /\ Keep
    BY <2>1, <2>2, PublicationMaps DEF Keep, flags
  <2>3. CASE Clear /\ UNCHANGED <<trajectory, left>>
    BY <2>1, <2>3 DEF Clear, Return, TypeOK, Runs, Anytime!Fail
  <2> QED BY <1>5, <2>2, <2>3 DEF ReturnInitial
<1>6. CASE ReturnResume
  <2>1. run.kind = "resume" /\ Return
    BY <1>6 DEF ReturnResume
  <2>2. WorthPublishing =>
          /\ Duration(identity, run.start, best) = bestDuration
          /\ bestDuration < left /\ Publishable
    <3>1. bestDuration # Infeasible
      BY SizeAssumption DEF TypeOK, Infeasible
    <3> QED BY <3>1 DEF WorthPublishing, JudgedFromHere, Publishable
  <2>3. CASE WorthPublishing /\ Publishable /\ Publish /\ Keep
    BY <2>1, <2>2, <2>3, PublicationMaps DEF Keep, flags
  <2>4. CASE Keep /\ UNCHANGED trajectory /\ left' = Rest(left)
    BY <2>1, <2>4 DEF Keep, flags, Return, TypeOK, Runs, Anytime!Carry,
       Anytime!Rest, Rest
  <2> QED BY <1>6, <2>2, <2>3, <2>4 DEF ReturnResume
<1>7. CASE Cancel
  BY <1>7 DEF Cancel, Clear, calls, Anytime!Cancel
<1> QED BY <1>1, <1>2, <1>3, <1>4, <1>5, <1>6, <1>7 DEF Returns

\* The engine implements the abstract search: a first call answers or fails, a
\* resumed one never fails and answers only with what ends sooner, whatever
\* the phases do and wherever the budget stops them.
THEOREM AnytimeRefinement == Spec => IsAnytimeSearch
<1>1. Init => Anytime!Init
  BY DEF Init, Anytime!Init
<1>2. EngineInv /\ [Next]_vars => [Anytime!Next]_(Anytime!vars)
  <2> SUFFICES ASSUME EngineInv, Next \/ UNCHANGED vars
               PROVE  Anytime!Next \/ UNCHANGED shared
    BY DEF Anytime!vars, shared
  <2>1. TypeOK /\ JudgedFromHere
    BY DEF EngineInv
  <2>2. CASE Search
    BY <2>1, <2>2, SearchMaps DEF Anytime!Next
  <2>3. CASE Begins \/ Refuses \/ Resumes \/ Returns \/ Cancel
    BY <2>1, <2>3, CallMaps
  <2>4. CASE UNCHANGED vars
    BY <2>4 DEF vars, calls, flags, shared
  <2> QED BY <2>2, <2>3, <2>4 DEF Next
<1> QED BY <1>1, <1>2, EngineInvariant, PTL
        DEF Spec, IsAnytimeSearch, Anytime!Spec

\* A search can be stopped after any step and gone on with from what it left.
THEOREM SearchCoherentHolds == Spec => []SearchCoherent
BY TypeCorrect, ResumableHolds, OneCoordinateHolds, JudgedFromHereHolds, PTL
   DEF SearchCoherent
=============================================================================
