------------------------------ MODULE Profile ------------------------------
(***************************************************************************)
(* The profile of one degree of freedom (profile.c): seven pieces, each of *)
(* constant jerk, and before them an optional brake of two.  A solver      *)
(* proposes the durations of the pieces; a check fills in the motion they  *)
(* make and accepts it if it ends in the target state and stays within the *)
(* limits at the ends of the pieces, and where the velocity turns.         *)
(*                                                                         *)
(* Arithmetic is exact, the tolerances of the checks are 0: times are      *)
(* whole ticks, velocities are counted in halves and positions in sixths,  *)
(* so that a motion is whole at every tick.                                *)
(***************************************************************************)
EXTENDS Integers, FiniteSets

Pieces == 0 .. 6

\* The durations of the pieces, and of the two of a brake.
Timings == [Pieces -> Nat]
States  == [p : Int, v : Int, a : Int]

\* ruckig_integrate: n ticks with jerk j.
Move(s, n, j) ==
  [p |-> s.p + 3 * s.v * n + 3 * s.a * n * n + j * n * n * n,
   v |-> s.v + 2 * s.a * n + j * n * n,
   a |-> s.a + j * n]

\* calculate_t_sum: when piece i begins.
Start(t, i) ==
  LET sum[k \in 0 .. 7] == IF k = 0 THEN 0 ELSE sum[k - 1] + t[k - 1]
  IN  sum[i]

Duration(t) == Start(t, 7)

\* The states between the pieces, where some accelerations and velocities
\* are given and the others are carried over.
Motion(from, t, j, a, v) ==
  LET state[i \in 0 .. 7] ==
        LET carried == IF i = 0 THEN from ELSE Move(state[i - 1], t[i - 1], j[i - 1])
        IN  [p |-> carried.p,
             v |-> IF i \in DOMAIN v THEN v[i] ELSE carried.v,
             a |-> IF i \in DOMAIN a THEN a[i] ELSE carried.a]
  IN  state

None == [i \in {} |-> 0]
Rest == [i \in Pieces |-> 0]

-----------------------------------------------------------------------------
(* What a candidate claims to reach.                                       *)

Limits == {"ACC0_ACC1_VEL", "ACC0_VEL", "ACC1_VEL", "VEL",
           "ACC0_ACC1", "ACC0", "ACC1", "NONE"}
Signs  == {"UDDU", "UDUD"}

ReachesVelocity == {"ACC0_ACC1_VEL", "ACC0_VEL", "ACC1_VEL", "VEL"}

\* The pieces a family stands for must be there.
HasItsPieces(limits, t) ==
  /\ limits \in ReachesVelocity => t[3] > 0
  /\ limits \in {"ACC0", "ACC0_ACC1"} => t[1] > 0
  /\ limits \in {"ACC1", "ACC0_ACC1"} => t[5] > 0

\* assign_jerk, and the accelerations of a second-order profile: up, then
\* down, then one of the two first.
Turning(signs, t, up, down) ==
  [i \in Pieces |->
     CASE t[i] = 0 \/ i \in {1, 3, 5} -> 0
       [] t[i] > 0 /\ i = 0 -> up
       [] t[i] > 0 /\ i = 2 -> down
       [] t[i] > 0 /\ i = 4 -> IF signs = "UDDU" THEN down ELSE up
       [] t[i] > 0 /\ i = 6 -> IF signs = "UDDU" THEN up ELSE down]

Jerks(signs, t, jf) == Turning(signs, t, jf, -jf)

\* A check is made for both directions: downwards its limits change places.
Upwards(c) == c.v_max > 0
VelocityLimits(c) == IF Upwards(c) THEN [low |-> c.v_min, high |-> c.v_max]
                     ELSE [low |-> c.v_max, high |-> c.v_min]
AccelerationLimits(c) == IF Upwards(c) THEN [low |-> c.a_min, high |-> c.a_max]
                         ELSE [low |-> c.a_max, high |-> c.a_min]
Within(x, l) == l.low <= x /\ x <= l.high

\* The velocity s.v - s.a^2 / (2 j) where the acceleration passes zero.
TurnsWithin(s, j, l) ==
  LET turn == s.v * j - s.a * s.a
  IN  IF j > 0 THEN l.low * j <= turn /\ turn <= l.high * j
               ELSE l.high * j <= turn /\ turn <= l.low * j

-----------------------------------------------------------------------------
(* The checks.  Each gives the motion, and whether it is accepted.         *)

\* Rounding is undone where the family fixes the acceleration.
Fixed(c) ==
  LET last   == c.limits \in ReachesVelocity \cup {"ACC0_ACC1"}
      both   == c.set_limits /\ c.limits = "ACC0_ACC1"
      second == c.set_limits /\ c.limits = "ACC1"
  IN  [i \in (IF last \/ second THEN {3} ELSE {}) \cup (IF both THEN {1, 5} ELSE {}) |->
         CASE i = 1 -> c.a_max
           [] i = 5 -> c.a_min
           [] OTHER -> IF second THEN c.a_min ELSE 0]

ThirdOrderMotion(c) ==
  Motion(c.from, c.t, Jerks(c.signs, c.t, c.jf), Fixed(c), None)

\* Fault: what happens within a piece is not looked at.
CheckedAtEnds(c) ==
  LET s == ThirdOrderMotion(c)
      v == VelocityLimits(c)
      a == AccelerationLimits(c)
  IN  /\ HasItsPieces(c.limits, c.t)
      /\ s[7] = c.to
      /\ \A i \in {1, 3, 5} : Within(s[i].a, a)
      /\ \A i \in 3 .. 6 : Within(s[i].v, v)

\* ruckig_profile_check_ctx; with_timing: set_limits is FALSE
Checked(c) ==
  LET j == Jerks(c.signs, c.t, c.jf)
      s == ThirdOrderMotion(c)
      v == VelocityLimits(c)
      a == AccelerationLimits(c)
  IN  /\ HasItsPieces(c.limits, c.t)
      /\ \A i \in 2 .. 6 : s[i].a * s[i + 1].a < 0 => TurnsWithin(s[i], j[i], v)
      /\ s[7] = c.to
      /\ \A i \in {1, 3, 5} : Within(s[i].a, a)
      /\ \A i \in 3 .. 6 : Within(s[i].v, v)

\* ruckig_profile_check_for_velocity_ctx: the target has no position.
CheckedForVelocity(c) ==
  LET s == Motion(c.from, c.t, Jerks(c.signs, c.t, c.jf), None, None)
      a == IF c.a_max > 0 THEN [low |-> c.a_min, high |-> c.a_max]
           ELSE [low |-> c.a_max, high |-> c.a_min]
  IN  /\ c.limits = "ACC0" => c.t[1] > 0
      /\ s[7].v = c.to.v /\ s[7].a = c.to.a
      /\ \A i \in {1, 3, 5} : Within(s[i].a, a)

\* ruckig_profile_check_for_second_order_ctx
SecondOrderMotion(c) ==
  LET a == Turning(c.signs, c.t, c.a_up, c.a_down)
  IN  Motion(c.from, c.t, Rest, [i \in 0 .. 7 |-> IF i = 7 THEN c.to.a ELSE a[i]], None)

CheckedSecondOrder(c) ==
  LET s == SecondOrderMotion(c)
  IN  /\ s[7].p = c.to.p /\ s[7].v = c.to.v
      /\ \A i \in 2 .. 6 : Within(s[i].v, VelocityLimits(c))

\* ruckig_profile_check_for_second_order_velocity_ctx: one piece
SecondOrderVelocityMotion(c) ==
  Motion(c.from, c.t, Rest,
         [i \in 0 .. 7 |-> CASE i = 7 -> c.to.a
                             [] i = 1 /\ c.t[1] > 0 -> c.a_up
                             [] OTHER -> 0], None)

CheckedSecondOrderVelocity(c) == SecondOrderVelocityMotion(c)[7].v = c.to.v

\* ruckig_profile_check_for_first_order_ctx: one piece
FirstOrderMotion(c) ==
  Motion(c.from, c.t, Rest,
         [i \in 0 .. 7 |-> IF i = 7 THEN c.to.a ELSE 0],
         [i \in 0 .. 7 |-> CASE i = 7 -> c.to.v
                             [] i = 3 /\ c.t[3] > 0 -> c.v_up
                             [] OTHER -> 0])

CheckedFirstOrder(c) == FirstOrderMotion(c)[7].p = c.to.p

-----------------------------------------------------------------------------
(* Profiles.                                                               *)

\* A brake is two pieces, each with a jerk; ruckig_brake_finalize leaves
\* the profile to begin where it ends.  No brake has no time in it.
NoBrake(from) == [t |-> <<0, 0>>, j |-> <<0, 0>>, s |-> <<from, from>>, to |-> from]

BrakeDuration(brake) == brake.t[1] + brake.t[2]

Braked(from, t, j) ==
  LET middle == Move(from, t[1], j[1])
  IN  [t |-> t, j |-> j, s |-> <<from, middle>>, to |-> Move(middle, t[2], j[2])]

\* Where the brake of a candidate begins.  One of second order has an
\* acceleration of its own, whatever the current one is
\* (ruckig_brake_finalize_second_order).
BrakeStart(c) ==
  IF c.kind = "second" /\ c.brake.t[1] > 0 THEN [c.start EXCEPT !.a = c.brake.s[1].a] ELSE c.start

\* set_disabled_profile_state: a degree of freedom that is not enabled has a
\* profile without time, which starts at 0 and ends where it stands.
DisabledMotion(c) ==
  [i \in 0 .. 7 |-> IF i = 7 THEN c.start ELSE [p |-> 0, v |-> 0, a |-> 0]]

\* What a candidate of each kind becomes, and whether its check accepts it.
MotionOf(c) ==
  CASE c.kind = "third"           -> ThirdOrderMotion(c)
    [] c.kind = "third velocity"  -> Motion(c.from, c.t, Jerks(c.signs, c.t, c.jf), None, None)
    [] c.kind = "second"          -> SecondOrderMotion(c)
    [] c.kind = "second velocity" -> SecondOrderVelocityMotion(c)
    [] c.kind = "first"           -> FirstOrderMotion(c)
    [] c.kind = "disabled"        -> DisabledMotion(c)

Accepted(c) ==
  CASE c.kind = "third"           -> Checked(c)
    [] c.kind = "third velocity"  -> CheckedForVelocity(c)
    [] c.kind = "second"          -> CheckedSecondOrder(c)
    [] c.kind = "second velocity" -> CheckedSecondOrderVelocity(c)
    [] c.kind = "first"           -> CheckedFirstOrder(c)
    [] c.kind = "disabled"        -> TRUE

VelocityKinds == {"third velocity", "second velocity"}

\* A velocity target has no position: only step 2, which is given the
\* duration, fills in where the profile ends (ruckig_profile_set_boundary_for_velocity
\* keeps the 0 of the cleared profile).
ProfileOf(c) ==
  LET s == MotionOf(c)
  IN  [brake |-> c.brake, t |-> c.t, s |-> s,
       j  |-> IF c.kind \in {"third", "third velocity"} THEN Jerks(c.signs, c.t, c.jf) ELSE Rest,
       pf |-> CASE c.kind \notin VelocityKinds \cup {"disabled"} -> c.to.p
                [] c.kind \in VelocityKinds /\ c.timed -> s[7].p
                [] OTHER   -> 0]

\* What the solvers are given and give (ruckig_brake_finalize and
\* ruckig_profile_set_boundary): a profile begins where its brake ends, the
\* brake where the degree of freedom is (in second order a brake is one piece
\* without jerk, and some kinds have none), and a family reaches the
\* accelerations it stands for before rounding is undone.
Kinds == {"third", "third velocity", "second", "second velocity", "first", "disabled"}

WellFormed(c) ==
  /\ c.kind \in Kinds /\ c.t \in Timings /\ c.start \in States /\ c.to \in States
  /\ c.brake.t \in Nat \X Nat /\ c.brake.j \in Int \X Int
  /\ BrakeStart(c) \in States
  /\ c.brake = Braked(BrakeStart(c), c.brake.t, c.brake.j)
  /\ c.kind = "second" => c.brake.t[2] = 0 /\ c.brake.j = <<0, 0>>
  /\ c.kind \in {"second velocity", "first", "disabled"} => BrakeDuration(c.brake) = 0
  /\ c.kind # "disabled" => c.from = c.brake.to
  /\ c.kind \in {"third", "third velocity"} => c.jf \in Int
  /\ c.kind \in {"second", "second velocity"} => c.a_up \in Int
  /\ c.kind = "second" => c.a_down \in Int
  /\ c.kind = "first" => c.v_up \in Int
  /\ c.kind = "third" =>
       ThirdOrderMotion(c) = Motion(c.from, c.t, Jerks(c.signs, c.t, c.jf), None, None)

Ends(profile) == BrakeDuration(profile.brake) + Duration(profile.t)
=============================================================================
