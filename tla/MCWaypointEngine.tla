-------------------------- MODULE MCWaypointEngine --------------------------
(***************************************************************************)
(* Small instances of WaypointEngine: one intermediate position and one    *)
(* axis, of which the acceleration may have no range.  The durations form  *)
(* landscapes that depend on the start, so that what is best from one      *)
(* state need not be from another.                                         *)
(***************************************************************************)
EXTENDS WaypointEngine

CONSTANTS MCPlans, MCStarts

MCValues == -20 .. 20

\* The range of a free coordinate is one unit, 40 fortieths.
Fixed(p, c) == p = "velocity" /\ ~IsVelocity(c)
MCLower(p, c) == IF Fixed(p, c) THEN 0 ELSE -20
MCUpper(p, c) == IF Fixed(p, c) THEN 0 ELSE 20
MCFree(p) == IF p = "velocity" THEN <<1>> ELSE <<1, 2>>
MCDirection(p, s, c) == IF s = 0 THEN 1 ELSE IF s = 1 THEN -1 ELSE 0

Far(x, y) == IF x < y THEN y - x ELSE x - y

\* "valley": one optimum, off the grid of most steps.  "velocity": the
\* acceleration is fixed, and small steps change nothing.  "rugged": many
\* optima and infeasible candidates.
\* "late": the first opener is infeasible.  "none": all of them are.
MCDuration(p, s, v) ==
  CASE p = "valley" -> Far(v[1], 5 - 8 * s) + Far(v[2], 3 + s) + 2
    [] p = "velocity" -> Far(v[1], 3 + 8 * s) \div 3 + 2
    [] p = "rugged" ->
         LET h == (7 * v[1] + 3 * v[2] + 5 * s) % 11 IN
         IF h = 4 THEN Infeasible ELSE h + 1
    [] p = "late" -> IF v[1] <= 0 THEN Infeasible ELSE 9 - v[1] \div 4 + s
    [] OTHER -> Infeasible
=============================================================================
