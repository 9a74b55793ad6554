---------------------------- MODULE WaypointPath ----------------------------
(***************************************************************************)
(* The way a machine takes in the online loop when its plan has            *)
(* intermediate positions: RuckigUpdate on a line, with a history of the   *)
(* stops the machine came to.  The fixed positions of a candidate are the  *)
(* state the calculation starts from, every intermediate position of the   *)
(* input and the target, whatever was passed before: neither               *)
(* ruckig_output_pass_to_input nor a resumed search takes one off the list.*)
(***************************************************************************)
EXTENDS RuckigUpdate, FiniteSets, Sequences, SequencesExt

CONSTANTS
  Stops(_),  \* intermediate positions and target of a plan, in order
  Pace(_),   \* cycles a candidate takes for one unit of the way
  Solvable(_, _, _)  \* whether the solver finds all sections of a candidate

\* Places are numbers, and a plan has at least its target.
StopsGiven ==
  /\ States \subseteq Int
  /\ \A p \in Plans : Stops(p) \in Seq(States) /\ Stops(p) # <<>>

PaceGiven ==
  DeltaTime = 1 /\ \A k \in Candidates : Pace(k) \in Nat \ {0}

VARIABLE
  stage  \* history: how many stops, in order, the machine came to since the
         \* plan is followed

pathVars == <<vars, stage>>

-----------------------------------------------------------------------------
(* Candidates on a line                                                    *)

Between(x, y) == IF x < y THEN y - x ELSE x - y

\* set_point_positions: start, intermediate positions, target
Points(p, s) == <<s>> \o Stops(p)

\* how far along the way the i-th of the points is
Way(points) ==
  LET along[i \in 1 .. Len(points)] ==
        IF i = 1 THEN 0 ELSE along[i - 1] + Between(points[i - 1], points[i])
  IN along

Along == [p \in Plans |-> [s \in States |-> Way(Points(p, s))]]

\* the sections of a candidate put together, when there is each of them
DurationOf ==
  [p \in Plans |-> [s \in States |-> [k \in Candidates |->
     IF Solvable(p, s, k) THEN Pace(k) * Last(Along[p][s]) ELSE Infeasible]]]

\* ruckig_trajectory_at_time: the section a time falls into
SectionIn ==
  [p \in Plans |-> [s \in States |-> [k \in Candidates |-> [t \in 0 .. Horizon |->
     Cardinality({i \in 1 .. Len(Stops(p)) : Pace(k) * Along[p][s][i + 1] <= t})]]]]

\* and the position in it, the last one past the end
PlaceIn ==
  [p \in Plans |-> [s \in States |-> [k \in Candidates |-> [t \in 0 .. Horizon |->
     LET section == SectionIn[p][s][k][t]
         from    == Points(p, s)[section + 1]
         to      == Points(p, s)[section + 2]
         gone    == t \div Pace(k) - Along[p][s][section + 1]
     IN IF section = Len(Stops(p)) THEN Last(Stops(p))
        ELSE IF from < to THEN from + gone ELSE from - gone]]]]

PathDuration(p, s, k) == DurationOf[p][s][k]
PathSection(tr, t) == SectionIn[tr.plan][tr.start][tr.candidate][t]
PathState(tr, t)   == PlaceIn[tr.plan][tr.start][tr.candidate][t]

\* The solvers of the loop are those of the line.
LineSolved ==
  /\ \A p \in Plans, s \in States, k \in Candidates :
       Duration(p, s, k) = PathDuration(p, s, k)
  /\ \A tr \in Trajectories, t \in 0 .. Horizon :
       StateAt(tr, t) = PathState(tr, t) /\ SectionAt(tr, t) = PathSection(tr, t)

\* What this module asks of its constants, a condition and not an ASSUME: what
\* is proved of RuckigUpdate holds off the line, too.
OnALine == StopsGiven /\ PaceGiven /\ LineSolved

-----------------------------------------------------------------------------
(* The history looks at the commanded positions only.                      *)

\* The next stop, and those at the same place behind it, when it is here.
Advanced(p, n, s) ==
  LET ahead == {m \in n .. Len(Stops(p)) :
                  \A i \in n + 1 .. m : Stops(p)[i] = s}
  IN CHOOSE m \in ahead : \A l \in ahead : l <= m

\* A plan that was not followed before begins a history.
Staged ==
  LET p      == output'.trajectory.plan
      before == IF output.valid /\ p = output.trajectory.plan THEN stage ELSE 0
      start  == IF output'.newCalculation THEN Advanced(p, before, input.state)
                ELSE before
  IN Advanced(p, start, output'.state)

PathInit == Init /\ stage = 0

\* a call of the caller's other than ruckig_update
OtherCall ==
  \/ PassToInput
  \/ \E s \in States : SetState(s)
  \/ \E p \in Plans : SetPlan(p)
  \/ \E b \in Budgets : SetBudget(b)
  \/ Calculate
  \/ Reset

PathNext ==
  \/ Update /\ stage' = IF result' \in OkResults THEN Staged ELSE stage
  \/ OtherCall /\ UNCHANGED stage

PathSpec == PathInit /\ [][PathNext]_pathVars

\* with the caller who goes on, as in RuckigUpdate
FairPathSpec == PathSpec /\ Loop

-----------------------------------------------------------------------------

\* When ruckig_update says FINISHED the machine has come to every stop of the
\* plan in order, however often the search, the budget or the measured state
\* replaced the trajectory on the way, and it stands at the target.
EveryStopVisited ==
  call = "update" /\ result = "FINISHED" =>
    /\ stage = Len(Stops(output.trajectory.plan))
    /\ output.state = Last(Stops(output.trajectory.plan))

\* The machine came to every stop the reported section leaves behind: the
\* loop's time, its section and its trajectory agree with the way taken.
SectionVisited == output.valid => output.section <= stage

\* Both: no publication, resumed search or call of the caller's cuts a stop
\* off the way.
StopsVisited == SectionVisited /\ EveryStopVisited

\* "Remove first intermediate waypoint if section did change": a machine that
\* came to a stop does not head for it again while its caller only runs the
\* loop.  It does: a resumed search starts from the current state with the
\* full list of stops, and when what it finds ends soon enough the machine
\* goes back to the first.
NotPassedTwice == output.valid => output.section = stage
=============================================================================
