--------------------------- MODULE MCWaypointPath ---------------------------
(***************************************************************************)
(* A line of four positions; plans that turn back at the first of two      *)
(* intermediate positions, have no solution from some places, have too     *)
(* many positions for the machine, and have none.  The fastest candidate   *)
(* comes last, when a search that tries one a cycle has passed a stop.     *)
(***************************************************************************)
EXTENDS WaypointPath

CONSTANT MCPlans

ASSUME LineAssumption == OnALine

MCStates == 0 .. 3
MCStops(p) ==
  CASE p = "back" -> <<2, 1, 3>>
    [] p = "stuck" -> <<1, 3>>
    [] p = "long" -> <<3, 2>>
    [] OTHER -> <<2>>
MCSolvable(p, s, k) == p = "stuck" => s # 0 /\ k >= 3
MCPace(k) == <<4, 3, 3, 3, 1>>[k]
MCNear(s, t) == Between(s, t) <= 1
=============================================================================
