--------------------------- MODULE WaypointEngine ---------------------------
(***************************************************************************)
(* The waypoint optimiser (waypoint.c).  A candidate gives a velocity and  *)
(* an acceleration to every axis at every intermediate position; its       *)
(* duration is that of its sections put together, each of them solved by   *)
(* ruckig_calculate_target.  The engine tries candidates one by one: three *)
(* openers, two passes of coordinate refinement, and a search over a queue *)
(* of single-coordinate moves from the best candidate, with a step that is *)
(* halved when the queue is used up.                                       *)
(*                                                                         *)
(* A budget may stop it after any candidate.  Everything it needs to go on *)
(* is kept in the engine, and a later cycle resumes it from another state: *)
(* the same candidate then has another duration.                           *)
(*                                                                         *)
(* The coordinates are numbered in the order in which the code visits      *)
(* them: the velocity and then the acceleration of each pair of an         *)
(* intermediate position and an axis.  Their values are counted in         *)
(* fortieths of a unit, so that all steps are whole: 0.25, 0.10, and 0.20  *)
(* halved down to 0.025 of a coordinate's range.                           *)
(***************************************************************************)
EXTENDS Integers, Sequences

CONSTANTS
  Plans,            \* what must not change between a search and its resumption
  Refused,          \* plans ruckig_validate_input refuses
  OverOtg,          \* plans with more intermediate positions than the ruckig_t
  Starts,           \* kinematic states
  Values,           \* values of a coordinate
  NumCoordinates,   \* twice the pairs of intermediate position and axis
  Lower(_, _),      \* limits of a coordinate of a plan
  Upper(_, _),
  Free(_),          \* coordinates of a plan that have a range, in order
  Direction(_, _, _),  \* sign of the motion through a pair, from a start
  Duration(_, _, _),   \* duration of a candidate of a plan from a start
  DeltaTime,        \* the control cycle
  DBL_MAX,          \* longer than every candidate
  BranchBudget,     \* RUCKIG_WAYPOINT_BRANCH_ITERATION_BUDGET
  QueueCapacity     \* RUCKIG_WAYPOINT_BRANCH_QUEUE_CAPACITY

Infeasible  == -1
Coordinates == 1 .. NumCoordinates
Candidates  == [Coordinates -> Values]
Budgets     == {"zero", "positive"}
Phases == {"IDLE", "BASELINE", "FINITE_DIFFERENCE_035", "FINITE_DIFFERENCE_070",
           "REFINE_INIT", "REFINE", "BRANCH_INIT", "BRANCH", "COMPLETE"}

ASSUME SizeAssumption ==
  /\ Values \subseteq Int
  /\ NumCoordinates \in Nat \ {0} /\ NumCoordinates % 2 = 0
  /\ DeltaTime \in Nat \ {0} /\ DBL_MAX \in Nat
  /\ BranchBudget \in Nat /\ QueueCapacity \in Nat \ {0}

ASSUME PlanAssumption ==
  \A p \in Plans, c \in Coordinates :
    /\ Lower(p, c) \in Int /\ Upper(p, c) \in Int
    /\ Lower(p, c) <= 0 /\ 0 <= Upper(p, c)
    /\ Lower(p, c) .. Upper(p, c) \subseteq Values
    /\ \A s \in Starts : Direction(p, s, c) \in {-1, 0, 1}

ASSUME FreeAssumption ==
  \A p \in Plans :
    /\ Free(p) \in Seq(Coordinates)
    /\ \A i, j \in 1 .. Len(Free(p)) : i < j => Free(p)[i] < Free(p)[j]
    /\ \A c \in Coordinates :
         Lower(p, c) < Upper(p, c)
           <=> \E i \in 1 .. Len(Free(p)) : c = Free(p)[i]

ASSUME DurationAssumption ==
  \A p \in Plans, s \in Starts, v \in Candidates :
    /\ Duration(p, s, v) \in Nat \cup {Infeasible}
    /\ Duration(p, s, v) < DBL_MAX

VARIABLES
  run,           \* the call under way and its interrupt context
  identity,      \* engine.identity_input: the plan of the search
  phase,         \* engine.phase
  active, complete, found,  \* the engine's flags
  fresh,         \* engine.has_published_candidate: accepted by this call
  bestDuration,  \* engine.best_duration
  best,          \* engine.best_velocity and best_acceleration
  candidate,     \* engine.candidate_velocity and candidate_acceleration
  refine,        \* the refinement's cursor
  branch,        \* the branch search's step, counter, queue and cursor
  trajectory,    \* the caller's trajectory
  left,          \* what remains of it when the next cycle begins
  rejected       \* history: candidates that failed since best was accepted

calls   == <<run, identity, trajectory, left>>
flags   == <<active, complete>>
judged  == <<found, fresh, bestDuration, best, rejected>>
cursors == <<candidate, refine, branch>>
vars    == <<calls, phase, flags, judged, cursors>>

Runs == [kind: {"none", "offline", "initial", "resume"}, start: Starts,
         budget: Budgets, interrupted: BOOLEAN]
Cursors == [pass: 0 .. 2, coordinate: Coordinates, attempt: {0, 1},
            original: Values, saved: BOOLEAN]
Moves == [coordinate: Coordinates, delta: Int]
Branches == [scale: {8, 4, 2, 1, 0}, iteration: 0 .. BranchBudget,
             queue: Seq(Moves), index: Nat, valid: BOOLEAN]
Trajectories == [valid: BOOLEAN, of: Candidates, duration: Nat]

-----------------------------------------------------------------------------
(* Candidates                                                              *)

Range(c) == Upper(identity, c) - Lower(identity, c)

\* clamp_value
Clamp(c, x) ==
  IF x < Lower(identity, c) THEN Lower(identity, c)
  ELSE IF x > Upper(identity, c) THEN Upper(identity, c)
  ELSE x

\* fill_zero_candidate
Zero == [c \in Coordinates |-> 0]

\* Velocities come before accelerations in each pair.
IsVelocity(c) == c % 2 = 1

\* fill_finite_difference_candidate, with its scale in twentieths
FiniteDifference(scale) ==
  [c \in Coordinates |->
     IF ~IsVelocity(c) THEN Clamp(c, 0)
     ELSE CASE Direction(identity, run.start, c) = 1 ->
                 Clamp(c, (scale * Upper(identity, c)) \div 20)
            [] Direction(identity, run.start, c) = -1 ->
                 Clamp(c, -((scale * (-Lower(identity, c))) \div 20))
            [] OTHER -> 0]

With(v, c, x) == [v EXCEPT ![c] = Clamp(c, x)]

-----------------------------------------------------------------------------
(* Judging a candidate                                                     *)

\* what accept_if_better finds
Better(v) ==
  LET d == Duration(identity, run.start, v) IN
  d # Infeasible /\ d < bestDuration

\* waypoint_engine_accept_if_better
Judge(v) ==
  IF Better(v)
  THEN /\ bestDuration' = Duration(identity, run.start, v)
       /\ best' = v
       /\ found' = TRUE
       /\ fresh' = TRUE
       /\ rejected' = {}
  ELSE /\ rejected' = rejected \cup {v}
       /\ UNCHANGED <<bestDuration, best, found, fresh>>

\* The interrupt context is looked at after a candidate only.  An expired
\* budget stops the first check, a positive one may stop any, and a
\* calculation outside the loop has none.
MayStop ==
  \/ /\ run.kind = "offline" \/ run.budget # "zero"
     /\ UNCHANGED run
  \/ /\ run.kind # "offline"
     /\ run' = [run EXCEPT !.interrupted = TRUE]

\* the condition of the loop in waypoint_engine_run
Searching == run.kind # "none" /\ active /\ ~complete /\ ~run.interrupted

\* one turn of that loop: with a candidate, or on to another phase
Tries(v) ==
  /\ Judge(v)
  /\ MayStop
  /\ UNCHANGED <<identity, trajectory, left, flags>>

MovesOn == UNCHANGED <<calls, flags, judged>>

\* waypoint_engine_mark_complete
MarkComplete == phase' = "COMPLETE" /\ complete' = TRUE /\ active' = FALSE

-----------------------------------------------------------------------------
(* The phases                                                              *)

Baseline ==
  /\ Searching /\ phase = "BASELINE"
  /\ Tries(Zero)
  /\ phase' = "FINITE_DIFFERENCE_035"
  /\ UNCHANGED cursors

FiniteDifference035 ==
  /\ Searching /\ phase = "FINITE_DIFFERENCE_035"
  /\ candidate' = FiniteDifference(7)
  /\ Tries(FiniteDifference(7))
  /\ phase' = "FINITE_DIFFERENCE_070"
  /\ UNCHANGED <<refine, branch>>

FiniteDifference070 ==
  /\ Searching /\ phase = "FINITE_DIFFERENCE_070"
  /\ candidate' = FiniteDifference(14)
  /\ Tries(FiniteDifference(14))
  /\ phase' = IF found' THEN "REFINE_INIT" ELSE "COMPLETE"
  /\ UNCHANGED <<refine, branch>>

\* Nothing was found.  (The later phases look again whether something was
\* found; it always was.)
GiveUp ==
  /\ Searching /\ phase = "COMPLETE"
  /\ MarkComplete
  /\ UNCHANGED <<calls, judged, cursors>>

\* Nothing reads an original that is not saved; it is 0 here.
FirstRefine ==
  [pass |-> 0, coordinate |-> 1, attempt |-> 0, original |-> 0, saved |-> FALSE]

RefineInit ==
  /\ Searching /\ phase = "REFINE_INIT"
  /\ candidate' = best
  /\ refine' = FirstRefine
  /\ phase' = "REFINE"
  /\ MovesOn
  /\ UNCHANGED branch

\* the candidate of waypoint_engine_step_refine: the coordinate is moved up,
\* and then down, from where the best candidate has it
Original ==
  IF refine.saved THEN refine.original ELSE candidate[refine.coordinate]
Step == IF refine.pass = 0 THEN Range(refine.coordinate) \div 4
                           ELSE Range(refine.coordinate) \div 10
Tried == With(candidate, refine.coordinate,
              IF refine.attempt = 0 THEN Original + Step ELSE Original - Step)

\* after two rejections
Restored == [candidate EXCEPT ![refine.coordinate] = Original]

\* The next attempt is at the next coordinate: from a velocity to the
\* acceleration of its pair, from there to the next pair
\* (waypoint_engine_advance_refine_index), and after the last to the next pass.
NextCoordinate ==
  [pass |-> IF refine.coordinate = NumCoordinates THEN refine.pass + 1
            ELSE refine.pass,
   coordinate |-> IF refine.coordinate = NumCoordinates THEN 1
                  ELSE refine.coordinate + 1,
   attempt |-> 0,
   original |-> 0, saved |-> FALSE]

Refine ==
  /\ Searching /\ phase = "REFINE"
  /\ Tries(Tried)
  /\ \/ /\ Better(Tried) \/ refine.attempt = 1
        /\ refine' = NextCoordinate
        /\ candidate' = IF ~IsVelocity(refine.coordinate) THEN best'
                        ELSE IF Better(Tried) THEN Tried ELSE Restored
     \/ /\ ~Better(Tried) /\ refine.attempt = 0
        /\ refine' = [refine EXCEPT !.attempt = 1, !.original = Original,
                                    !.saved = TRUE]
        /\ candidate' = Tried
  /\ phase' = IF refine'.pass = 2 THEN "BRANCH_INIT" ELSE "REFINE"
  /\ UNCHANGED branch

FirstBranch ==
  [scale |-> 8, iteration |-> 0, queue |-> <<>>, index |-> 0, valid |-> FALSE]

BranchInit ==
  /\ Searching /\ phase = "BRANCH_INIT"
  /\ branch' = FirstBranch
  /\ phase' = "BRANCH"
  /\ MovesOn
  /\ UNCHANGED <<candidate, refine>>

(* build_branch_queue: each coordinate up and down.  A coordinate without  *)
(* a range is left out.  The optimistic bound depends on the best duration *)
(* and the step alone, so it is the same for all: insert_branch keeps them *)
(* in the order of the coordinates and drops those past the capacity.      *)
Delta(c, scale) == (scale * Range(c)) \div 40
Move(i, scale) ==
  LET c == Free(identity)[(i + 1) \div 2] IN
  [coordinate |-> c,
   delta |-> IF i % 2 = 1 THEN Delta(c, scale) ELSE -Delta(c, scale)]

NumMoves == IF 2 * Len(Free(identity)) > QueueCapacity THEN QueueCapacity
            ELSE 2 * Len(Free(identity))

Queue(scale) == [i \in 1 .. NumMoves |-> Move(i, scale)]

\* The search ends with its budget of rejected candidates, or when the step
\* is below 0.025.
BranchEnded == branch.iteration >= BranchBudget \/ branch.scale = 0

EndBranch ==
  /\ Searching /\ phase = "BRANCH"
  /\ BranchEnded
  /\ MarkComplete
  /\ UNCHANGED <<calls, judged, cursors>>

BuildQueue ==
  /\ Searching /\ phase = "BRANCH"
  /\ ~BranchEnded /\ ~branch.valid
  /\ branch' = [branch EXCEPT
       !.queue = Queue(branch.scale), !.index = 0, !.valid = TRUE]
  /\ MovesOn
  /\ UNCHANGED <<phase, candidate, refine>>

\* The queue is used up, or there was nothing to put into it.
HalveStep ==
  /\ Searching /\ phase = "BRANCH"
  /\ ~BranchEnded /\ branch.valid /\ branch.index >= Len(branch.queue)
  /\ branch' = [branch EXCEPT !.scale = @ \div 2, !.valid = FALSE]
  /\ MovesOn
  /\ UNCHANGED <<phase, candidate, refine>>

Moved(move) == With(best, move.coordinate, best[move.coordinate] + move.delta)

\* Fault: the queue goes on after an acceptance.
KeepsQueue(accepted) ==
  [branch EXCEPT !.index = @ + 1,
                 !.iteration = IF accepted THEN @ ELSE @ + 1]

\* After an acceptance the queue is built again; only a rejection counts.
AfterMove(accepted) ==
  [branch EXCEPT !.index = @ + 1,
                 !.valid = ~accepted,
                 !.iteration = IF accepted THEN @ ELSE @ + 1]

TryMove ==
  /\ Searching /\ phase = "BRANCH"
  /\ ~BranchEnded /\ branch.valid /\ branch.index < Len(branch.queue)
  /\ LET v == Moved(branch.queue[branch.index + 1]) IN
     /\ candidate' = v
     /\ branch' = AfterMove(Better(v))
     /\ Tries(v)
  /\ UNCHANGED <<phase, refine>>

Search ==
  \/ Baseline \/ FiniteDifference035 \/ FiniteDifference070 \/ GiveUp
  \/ RefineInit \/ Refine
  \/ BranchInit \/ EndBranch \/ BuildQueue \/ HalveStep \/ TryMove

-----------------------------------------------------------------------------
(* The calls                                                               *)

\* ruckig_waypoint_resume_clear; the candidates keep their content
Clear ==
  /\ phase' = "IDLE"
  /\ active' = FALSE /\ complete' = FALSE /\ found' = FALSE /\ fresh' = FALSE
  /\ bestDuration' = DBL_MAX
  /\ refine' = FirstRefine
  /\ branch' = [FirstBranch EXCEPT !.scale = 0]
  /\ rejected' = {}
  /\ UNCHANGED <<best, candidate>>

Keep == UNCHANGED <<phase, flags, judged, cursors>>

Invalidated == [trajectory EXCEPT !.valid = FALSE]

\* waypoint_engine_start from either kind of first call
Start(p, s, kind, budget) ==
  /\ run.kind = "none"
  /\ p \notin Refused \cup OverOtg
  /\ run' = [kind |-> kind, start |-> s, budget |-> budget,
             interrupted |-> FALSE]
  /\ identity' = p
  /\ phase' = "BASELINE"
  /\ active' = TRUE /\ complete' = FALSE /\ found' = FALSE /\ fresh' = FALSE
  /\ bestDuration' = DBL_MAX
  /\ refine' = FirstRefine
  /\ branch' = [FirstBranch EXCEPT !.scale = 0]
  /\ rejected' = {}
  /\ trajectory' = Invalidated
  /\ UNCHANGED <<best, candidate, left>>

\* A refused plan clears the engine.  One with too many intermediate positions
\* for the ruckig_t does not, but an offline calculation has cleared it before.
RefuseStart(p, kind) ==
  /\ run.kind = "none"
  /\ p \in Refused \cup OverOtg
  /\ IF p \in OverOtg
     THEN IF kind = "offline"
          THEN Clear /\ UNCHANGED trajectory
          ELSE Keep /\ trajectory' = Invalidated
     ELSE Clear /\ trajectory' = Invalidated
  /\ UNCHANGED <<run, identity, left>>

\* Fault: what was found before is forgotten.
CapForgotten == IF 0 < left THEN left ELSE DBL_MAX

\* the duration a resumed search has to beat
Cap == IF 0 < left /\ left < bestDuration THEN left ELSE bestDuration

\* Fault: what an earlier call accepted counts as accepted by this one.
FreshStays == fresh

\* A resumed call has accepted nothing yet.
FreshAtResume == FALSE

\* Fault: a resumed search begins again.
ResumeAtBaseline(s, budget) ==
  /\ run.kind = "none"
  /\ active /\ ~complete
  /\ run' = [kind |-> "resume", start |-> s, budget |-> budget,
             interrupted |-> FALSE]
  /\ fresh' = FreshAtResume
  /\ bestDuration' = Cap
  /\ phase' = "BASELINE"
  /\ UNCHANGED <<identity, trajectory, left, flags, found, best, rejected,
                 cursors>>

\* ruckig_waypoint_resume_continue until its search begins
Resume(s, budget) ==
  /\ run.kind = "none"
  /\ active /\ ~complete
  /\ run' = [kind |-> "resume", start |-> s, budget |-> budget,
             interrupted |-> FALSE]
  /\ fresh' = FreshAtResume
  /\ bestDuration' = Cap
  /\ UNCHANGED <<identity, trajectory, left, phase, flags, found, best,
                 rejected, cursors>>

\* the search has stopped and the call returns
Stopped == run.kind # "none" /\ (~active \/ complete \/ run.interrupted)

Return == run' = [run EXCEPT !.kind = "none"] /\ UNCHANGED identity

Rest(t) == IF t > DeltaTime THEN t - DeltaTime ELSE 0

\* waypoint_engine_publish_best_transaction: the sections of the best
\* candidate are solved again, from the state of this call
Publishable == Duration(identity, run.start, best) # Infeasible
Publish ==
  LET d == Duration(identity, run.start, best) IN
  /\ trajectory' = [valid |-> TRUE, of |-> best, duration |-> d]
  /\ left' = Rest(d)

\* ruckig_calculate_waypoints
ReturnOffline ==
  /\ Stopped /\ run.kind = "offline"
  /\ Return
  /\ Clear
  /\ \/ found /\ Publishable /\ Publish
     \/ ~(found /\ Publishable) /\ UNCHANGED <<trajectory, left>>

\* ruckig_calculate_waypoints_interruptible
ReturnInitial ==
  /\ Stopped /\ run.kind = "initial"
  /\ Return
  /\ \/ found /\ Publishable /\ Publish /\ Keep
     \/ ~(found /\ Publishable) /\ Clear /\ UNCHANGED <<trajectory, left>>

\* Fault: everything the call accepted is published.
PublishesAnything == fresh

\* a candidate of this call that ends sooner than what remains
WorthPublishing == fresh /\ bestDuration < left

\* ruckig_waypoint_resume_continue
ReturnResume ==
  /\ Stopped /\ run.kind = "resume"
  /\ Return
  /\ \/ WorthPublishing /\ Publishable /\ Publish /\ Keep
     \/ /\ WorthPublishing /\ ~Publishable
        /\ Clear /\ UNCHANGED trajectory /\ left' = Rest(left)
     \/ /\ ~WorthPublishing
        /\ Keep /\ UNCHANGED trajectory /\ left' = Rest(left)

\* a reset, a new plan, an input without waypoints or without a budget
Cancel ==
  /\ run.kind = "none" /\ active
  /\ Clear
  /\ UNCHANGED calls

Returns == ReturnOffline \/ ReturnInitial \/ ReturnResume

Begins ==
  \E p \in Plans, s \in Starts, kind \in {"offline", "initial"}, b \in Budgets :
    Start(p, s, kind, b)
Refuses ==
  \E p \in Plans, kind \in {"offline", "initial"} : RefuseStart(p, kind)
Resumes == \E s \in Starts, b \in Budgets : Resume(s, b)

Init ==
  /\ identity \in Plans
  /\ \E s \in Starts :
       run = [kind |-> "none", start |-> s, budget |-> "zero",
              interrupted |-> FALSE]
  /\ phase = "IDLE"
  /\ active = FALSE /\ complete = FALSE /\ found = FALSE /\ fresh = FALSE
  /\ bestDuration = 0
  /\ best = Zero /\ candidate = Zero
  /\ refine = FirstRefine
  /\ branch = [FirstBranch EXCEPT !.scale = 0]
  /\ trajectory = [valid |-> FALSE, of |-> Zero, duration |-> 0]
  /\ left = 0
  /\ rejected = {}

Next == Begins \/ Refuses \/ Resumes \/ Search \/ Returns \/ Cancel

Spec == Init /\ [][Next]_vars

-----------------------------------------------------------------------------
(* Properties                                                              *)

\* Every variable has its type; the queue fits its buffer.
TypeOK ==
  /\ run \in Runs
  /\ identity \in Plans
  /\ phase \in Phases
  /\ active \in BOOLEAN /\ complete \in BOOLEAN
  /\ found \in BOOLEAN /\ fresh \in BOOLEAN
  /\ bestDuration \in 0 .. DBL_MAX
  /\ best \in Candidates
  /\ candidate \in Candidates
  /\ refine \in Cursors
  /\ branch \in Branches
  /\ Len(branch.queue) <= QueueCapacity /\ branch.index <= Len(branch.queue)
  /\ trajectory \in Trajectories
  /\ left \in Nat
  /\ rejected \subseteq Candidates

\* What may be resumed is a search in the middle: something was found, it is
\* not complete, and its phase is one of the search's own.
ResumableInTheMiddle ==
  run.kind = "none" /\ active =>
    /\ ~complete /\ found /\ bestDuration < DBL_MAX
    /\ phase \in {"FINITE_DIFFERENCE_035", "FINITE_DIFFERENCE_070",
                  "REFINE_INIT", "REFINE", "BRANCH_INIT", "BRANCH"}

\* While coordinates are refined the candidate is the best one, but for the
\* coordinate being refined; a value saved to be restored is the best one's.
\* Accepting, giving up an attempt and stopping in between all keep it so.
OneCoordinate ==
  phase = "REFINE" =>
    /\ \A c \in Coordinates : c # refine.coordinate => candidate[c] = best[c]
    /\ Original = best[refine.coordinate]

\* What a call accepted was judged from the state of that call, so that the
\* sections solved again for publication give the duration it was judged by.
JudgedFromHere ==
  fresh => Duration(identity, run.start, best) = bestDuration

\* Together: wherever a call stops the search, and after every step of it,
\* what the next step relies on is there.
SearchCoherent ==
  TypeOK /\ ResumableInTheMiddle /\ OneCoordinate /\ JudgedFromHere

\* A search that ends within its budget of rejections has tried every smallest
\* move it had room for, from its best candidate and since that became the
\* best, over however many calls the search was spread.
LocallyBest ==
  complete /\ found /\ branch.iteration < BranchBudget =>
    \A i \in 1 .. NumMoves : Moved(Move(i, 1)) \in rejected

\* The best candidate is only given up for a strictly shorter one, and a
\* resumption lowers the duration to beat and never raises it.
OnlyImproves ==
  [][active' /\ ~Begins =>
       /\ bestDuration' <= bestDuration
       /\ best' # best => bestDuration' < bestDuration]_vars

Anytime == INSTANCE AnytimeSearch WITH
  call <- run.kind, plan <- identity, start <- run.start, resumable <- active,
  answer <- trajectory

\* What a caller sees of the engine is an anytime search: complete feasible
\* trajectories for the state of the call, and a resumed call that never
\* fails and only ever brings the end of the motion forward.
IsAnytimeSearch == Anytime!Spec

-----------------------------------------------------------------------------
(* Liveness.  A call runs until it returns, and the loop calls             *)
(* ruckig_update, which resumes the search, in every cycle.                *)

FairSpec ==
  Spec /\ WF_vars(Search) /\ WF_vars(Returns) /\ WF_vars(Resumes)

\* Every call returns: accepted candidates are not counted by any budget, but
\* each is shorter than the one before.
CallsReturn == (run.kind # "none") ~> (run.kind = "none")

\* An interrupted search ends, unless the caller keeps starting others: also
\* with a budget that is always spent, one candidate is tried in each cycle.
SearchEnds == []<>~active \/ []<><<Begins>>_vars

\* Both: neither a call nor a search goes on for ever.
SearchFinishes == CallsReturn /\ SearchEnds
=============================================================================
