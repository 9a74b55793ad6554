--------------------------- MODULE MCStepSolvers ----------------------------
(* Instances of StepSolvers: targets and durations in fractions, the rates *)
(* in whole numbers, limits and slopes of equal and of different size, and *)
(* limits and slopes of zero.                                              *)
EXTENDS StepSolvers

F(n) == <<n, 1>>

Problem(order, dx, r0, rf, max, min, up, down) ==
  [order |-> order, dx |-> dx, r0 |-> F(r0), rf |-> F(rf),
   max |-> F(max), min |-> F(min), up |-> F(up), down |-> F(down)]

TwoSlopes == {PositionSecond, VelocityThird}

Even ==
  {Problem(order, Fraction(n, 2), r0, rf, 2, -2, 1, -1) :
     order \in TwoSlopes, n \in -12 .. 12, r0 \in -2 .. 2, rf \in -2 .. 2}

UnevenLimits ==
  {Problem(order, Fraction(n, 2), r0, rf, 2, -1, 1, -1) :
     order \in TwoSlopes, n \in -8 .. 8, r0 \in -1 .. 2, rf \in -1 .. 2}

\* Only accelerations have slopes of their own in each direction.
UnevenSlopes ==
  {Problem(PositionSecond, Fraction(n, 4), r0, rf, 2, -2, 2, -1) :
     n \in -16 .. 16, r0 \in -2 .. 2, rf \in -2 .. 2}

Still0 ==
  {Problem(VelocityThird, F(dx), r0, r0, 2, -2, 0, 0) : dx \in -2 .. 2, r0 \in -1 .. 1}
  \cup {Problem(PositionSecond, Zero, 0, 0, 0, 0, 1, -1)}

Straight ==
  {Problem(order, F(dx), 0, 0, 2, -1, 0, 0) : order \in OnePiece, dx \in -4 .. 4}

AllProblems == Even \cup UnevenLimits \cup UnevenSlopes \cup Still0 \cup Straight

AllDurations == {Fraction(n, 2) : n \in 1 .. 24} \cup {F(14), F(17), F(20)}
=============================================================================
