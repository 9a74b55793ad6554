---------------------------- MODULE MCInputStore ----------------------------
(***************************************************************************)
(* Instances of InputStore: two inputs over the settings of sections, and  *)
(* one input over the settings the validation looks at.                    *)
(***************************************************************************)
EXTENDS InputStore, TLC

CONSTANTS nan

Large == 1000

\* Nothing is offered for the fields that are not named.
Offers(o) == [f \in Fields |-> IF f \in DOMAIN o THEN o[f] ELSE {}]

OneDof  == {"d1"}
TwoDofs == {"d1", "d2"}

\* The life of the settings of the sections, next to some of the others.
StoreOffers == Offers(
  (Points :> {0, nan}) @@
  (<<"section", "min_velocity">> :> {1}) @@
  (<<"section", "max_position">> :> {nan}) @@
  (<<"duration", "minimum_duration">> :> {Large}) @@
  (<<"dof", "max_jerk">> :> {1}) @@
  (<<"dof", "control_interface">> :> {"velocity", "wrong"}) @@
  (<<"input", "duration_discretization">> :> {"continuous", "wrong"}) @@
  (<<"input", "interrupt_calculation_duration">> :> {1}) @@
  (<<"input", "minimum_duration">> :> {nan}))

\* What the validation tells apart: signs, zero, and what is not finite.
AcceptOffers == Offers(
  (Points :> {0}) @@
  (<<"section", "max_velocity">> :> {2, -1}) @@
  (<<"section", "min_velocity">> :> {-2, 1}) @@
  (<<"section", "min_acceleration">> :> {1, nan}) @@
  (<<"section", "max_jerk">> :> {0, 1}) @@
  (<<"dof", "max_velocity">> :> {1}) @@
  (<<"dof", "max_jerk">> :> {1}) @@
  (<<"dof", "min_velocity">> :> {-1}) @@
  (<<"dof", "min_acceleration">> :> {-1}))

\* What the documentation says of values that are not numbers, or not finite.
NumberOffers == Offers(
  (Points :> {0, nan}) @@
  (<<"dof", "current_position">> :> {nan}) @@
  (<<"dof", "max_jerk">> :> {1}) @@
  (<<"dof", "control_interface">> :> {"velocity"}) @@
  (<<"input", "minimum_duration">> :> {0, Large}))
=============================================================================
