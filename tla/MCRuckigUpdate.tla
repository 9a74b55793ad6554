--------------------------- MODULE MCRuckigUpdate ---------------------------
(***************************************************************************)
(* A one-axis machine on the positions 0 .. 3 that moves at most one       *)
(* position per cycle.  A waypoint candidate takes its detour longer than  *)
(* the direct way; some are infeasible, so that a search may give up, may  *)
(* find nothing before its budget, and may improve late.                   *)
(***************************************************************************)
EXTENDS RuckigUpdate

MCPlans   == {"near", "far", "blend", "stuck", "wide", "long", "bad"}
MCWaypointPlans == {"blend", "stuck", "wide", "long"}
MCStates  == 0 .. 3

Goal(p)   == IF p = "near" THEN 1 ELSE 3
Apart(x, y) == IF x < y THEN y - x ELSE x - y

Detour    == <<3, 2, 2, 0>>

MCDuration(p, s, k) ==
  IF \/ p = "stuck" /\ (k < 3 \/ s = 0)
     \/ p = "far" /\ s = 2
     \/ p = "blend" /\ k = 1 /\ s = 1
  THEN Infeasible
  ELSE Apart(s, Goal(p)) + (IF HasWaypoints(p) THEN Detour[k] ELSE 0)

\* straight to the goal, then at rest there
MCStateAt(tr, t) ==
  IF t >= tr.duration THEN Goal(tr.plan)
  ELSE tr.start + ((Goal(tr.plan) - tr.start) * t) \div tr.duration

\* one waypoint half-way, and the section count once the end is reached
MCSectionAt(tr, t) ==
  IF t >= tr.duration THEN (IF HasWaypoints(tr.plan) THEN 2 ELSE 1)
  ELSE IF HasWaypoints(tr.plan) /\ 2 * t >= tr.duration THEN 1 ELSE 0

MCNear(s, t) == Apart(s, t) <= 1
=============================================================================
