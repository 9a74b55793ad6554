---------------------------- MODULE AnytimeSearch ----------------------------
(***************************************************************************)
(* What the waypoint engine promises to ruckig_calculate and ruckig_update *)
(* (internal.h: ruckig_calculate_waypoints, its interruptible form, and    *)
(* ruckig_waypoint_resume_continue), whatever it searches and in whatever  *)
(* order.  A first call either answers with a feasible trajectory for its  *)
(* own plan and state or fails and leaves nothing to resume.  A search     *)
(* that was stopped may be resumed from another state; a resumed call      *)
(* never fails, and it answers only with a feasible trajectory from that   *)
(* state which ends before the one being followed.                         *)
(***************************************************************************)
EXTENDS Integers

CONSTANTS
  Plans, Starts, Candidates,
  Duration(_, _, _),  \* of a candidate of a plan from a start
  Infeasible,         \* that of a candidate that is no trajectory
  DeltaTime           \* the control cycle

VARIABLES
  call,       \* the call under way: "none", "offline", "initial", "resume"
  plan,       \* of the search
  start,      \* state the call starts from
  resumable,  \* a later cycle may resume the search
  answer,     \* the caller's trajectory: valid or not, candidate, duration
  left        \* what remains of it when the next cycle begins

vars == <<call, plan, start, resumable, answer, left>>

Trajectory(v) ==
  [valid |-> TRUE, of |-> v, duration |-> Duration(plan, start, v)]

Rest(t) == IF t > DeltaTime THEN t - DeltaTime ELSE 0

\* ruckig_calculate or a recalculating ruckig_update: a new search begins
Begin ==
  /\ call = "none"
  /\ call' \in {"offline", "initial"}
  /\ plan' \in Plans
  /\ start' \in Starts
  /\ resumable' = TRUE
  /\ answer' = [answer EXCEPT !.valid = FALSE]
  /\ UNCHANGED left

\* a request that is refused before anything is searched, which may or may
\* not cost the caller the search and the trajectory it had
Refuse ==
  /\ call = "none"
  /\ resumable' \in {resumable, FALSE}
  /\ answer' \in {answer, [answer EXCEPT !.valid = FALSE]}
  /\ UNCHANGED <<call, plan, start, left>>

\* a cycle that follows its trajectory takes the search up again
Resume ==
  /\ call = "none"
  /\ resumable
  /\ call' = "resume"
  /\ start' \in Starts
  /\ UNCHANGED <<plan, resumable, answer, left>>

\* the search has nothing left to try
Exhaust ==
  /\ call # "none"
  /\ resumable
  /\ resumable' = FALSE
  /\ UNCHANGED <<call, plan, start, answer, left>>

\* the call returns a trajectory
Answer ==
  LET v == answer'.of IN
  /\ call # "none"
  /\ call' = "none"
  /\ v \in Candidates
  /\ Duration(plan, start, v) # Infeasible
  /\ call = "resume" => Duration(plan, start, v) < left
  /\ answer' = Trajectory(v)
  /\ left' = Rest(Duration(plan, start, v))
  /\ resumable' \in {resumable, FALSE}
  /\ call = "offline" => ~resumable'
  /\ UNCHANGED <<plan, start>>

\* a first call returns an error
Fail ==
  /\ call \in {"offline", "initial"}
  /\ call' = "none"
  /\ resumable' = FALSE
  /\ UNCHANGED <<plan, start, answer, left>>

\* a resumed call returns and the trajectory goes on
Carry ==
  /\ call = "resume"
  /\ call' = "none"
  /\ left' = Rest(left)
  /\ UNCHANGED <<plan, start, resumable, answer>>

\* the caller drops the search
Cancel ==
  /\ call = "none"
  /\ resumable
  /\ resumable' = FALSE
  /\ UNCHANGED <<call, plan, start, answer, left>>

Init ==
  /\ call = "none"
  /\ plan \in Plans
  /\ start \in Starts
  /\ resumable = FALSE
  /\ answer.valid = FALSE
  /\ left = 0

Next ==
  \/ Begin \/ Refuse \/ Resume
  \/ Exhaust \/ Answer \/ Fail \/ Carry
  \/ Cancel

Spec == Init /\ [][Next]_vars
=============================================================================
