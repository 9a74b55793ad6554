---------------------------- MODULE MCTrajectory ----------------------------
(* Instances of Trajectory.  Velocities are in halves, positions in sixths. *)
EXTENDS Trajectory

\* The limits of the instances.
OneDof  == {"x"}
TwoDofs == {"x", "y"}
Symmetric(n) == [low |-> -n, high |-> n]
Velocities    == Symmetric(4)
Accelerations == Symmetric(1)
Steep         == Symmetric(2)
Anywhere      == Symmetric(1000)
Nearby        == Symmetric(20)
Positions     == {-2, 0, 1, 4}

At(p, v, a) == [p |-> p, v |-> v, a |-> a]

\* The durations of the pieces of a candidate, few and short.
Times(longest, total) ==
  {t \in [Pieces -> 0 .. longest] : Duration(t) \in 1 .. total}

Shape(t) == [i \in Pieces |-> t[i + 1]]

\* Both directions; the candidate aims where its motion ends.
Third(start, brake, t, signs, limits, up) ==
  LET c == [kind |-> "third", start |-> start, brake |-> brake, from |-> brake.to,
            t |-> t, signs |-> signs, limits |-> limits, set_limits |-> FALSE,
            jf    |-> IF up THEN 1 ELSE -1,
            v_max |-> IF up THEN 4 ELSE -4, v_min |-> IF up THEN -4 ELSE 4,
            a_max |-> IF up THEN 1 ELSE -1, a_min |-> IF up THEN -1 ELSE 1,
            to |-> At(0, 0, 0)]
  IN  [c EXCEPT !.to = ThirdOrderMotion(c)[7]]

\* The piece that turns has jerk.
TurnsWithJerk(c) ==
  LET profile == ProfileOf(c)
  IN  \A i \in Pieces :
        profile.j[i] = 0 => profile.s[i].v * profile.s[i + 1].v >= 0

Usable(c) == Accepted(c) /\ TurnsAtTicks(c) /\ TargetInLimits(c.to)

Unbraked == {At(0, 0, 0), At(0, 3, 0), At(0, -3, 0), At(0, 3, 1),
             At(0, -1, 1), At(0, 1, -1)}

Brakes2 == {Braked(At(0, 7, 0), <<1, 1>>, <<-1, 0>>),
            Braked(At(0, 0, -2), <<1, 0>>, <<1, 0>>),
            Braked(At(0, -1, 2), <<1, 0>>, <<-1, 0>>)}

\* A velocity target, with the duration given or not; it starts far from 0.
Velocity(t, up, timed) ==
  LET from == At(60, 0, 0)
      c == [kind |-> "third velocity", start |-> from, brake |-> NoBrake(from),
            from |-> from, t |-> t, signs |-> "UDDU", limits |-> "NONE", timed |-> timed,
            jf    |-> IF up THEN 1 ELSE -1,
            a_max |-> IF up THEN 1 ELSE -1, a_min |-> IF up THEN -1 ELSE 1, to |-> from]
  IN  [c EXCEPT !.to = MotionOf(c)[7]]

VelocityCandidates(timed) ==
  {c \in {Velocity(t, up, timed) : t \in {Shape(<<1, 0, 1, 0, 0, 0, 0>>),
                                            Shape(<<1, 1, 1, 0, 0, 0, 0>>)}, up \in BOOLEAN} :
     Accepted(c) /\ TurnsAtTicks(c)}
UntimedCandidates == VelocityCandidates(FALSE)

ThirdCandidates ==
  VelocityCandidates(TRUE) \cup
  {c \in {Third(s, NoBrake(s), t, signs, "NONE", up) :
            s \in Unbraked, t \in Times(2, 5), signs \in Signs, up \in BOOLEAN} :
     Usable(c) /\ TurnsWithJerk(c)}
  \cup
  {c \in {Third(b.s[1], b, t, "UDDU", "NONE", up) :
            b \in Brakes2, t \in Times(1, 3), up \in BOOLEAN} :
     Usable(c) /\ TurnsWithJerk(c)}

\* Second order: a candidate of the position solver.
Second(start, brake, t, signs, up) ==
  LET c == [kind |-> "second", start |-> start, brake |-> brake, from |-> brake.to,
            t |-> t, signs |-> signs, limits |-> "NONE",
            a_up  |-> IF up THEN 1 ELSE -1, a_down |-> IF up THEN -1 ELSE 1,
            v_max |-> IF up THEN 4 ELSE -4, v_min |-> IF up THEN -4 ELSE 4,
            to |-> start]
      s == SecondOrderMotion(c)
  IN  [c EXCEPT !.to = s[7]]

\* Too fast at first: the brake has an acceleration of its own, and leaves the
\* profile the velocity limit to begin at.
SecondBrakes(up) ==
  IF up THEN <<At(0, 6, 1), Braked(At(0, 6, -1), <<1, 0>>, <<0, 0>>)>>
        ELSE <<At(0, -8, 0), Braked(At(0, -8, 1), <<2, 0>>, <<0, 0>>)>>
BrakedSeconds ==
  {c \in {Second(SecondBrakes(up)[1], SecondBrakes(up)[2], t, signs, up) :
            t \in Times(2, 4), signs \in Signs, up \in BOOLEAN} :
     Usable(c) /\ TurnsWithJerk(c)}

First(start, n, v) ==
  LET c == [kind |-> "first", start |-> start, brake |-> NoBrake(start), from |-> start,
            t |-> Shape(<<0, 0, 0, n, 0, 0, 0>>), v_up |-> v, to |-> start]
  IN  [c EXCEPT !.to = [FirstOrderMotion([c EXCEPT !.to.v = 0])[7] EXCEPT !.v = 0, !.a = 0]]

\* Two sections: from rest to a waypoint, and on.
ThirdShapes  == {Shape(t) : t \in {<<1, 0, 1, 0, 0, 0, 0>>, <<1, 0, 1, 2, 0, 0, 0>>,
                                    <<1, 0, 1, 0, 1, 0, 1>>,
                                    <<0, 0, 0, 2, 1, 0, 1>>}}
SecondShapes == {Shape(t) : t \in {<<1, 0, 1, 0, 0, 0, 0>>, <<1, 1, 0, 0, 0, 0, 0>>,
                                    <<2, 0, 2, 0, 0, 0, 0>>}}
NoneShapes   == {Shape(t) : t \in {<<1, 0, 1, 0, 0, 0, 0>>, <<1, 0, 1, 0, 1, 0, 1>>}}

Half(start) ==
  {c \in {Third(start, NoBrake(start), t, "UDDU", "NONE", up) :
            t \in ThirdShapes, up \in BOOLEAN} \cup
         {Second(start, NoBrake(start), t, "UDDU", up) : t \in SecondShapes, up \in BOOLEAN} \cup
         {First(start, 4, 2)} :
     Usable(c) /\ TurnsWithJerk(c)}

FirstHalf == Half(At(0, 0, 0))
SecondHalf == UNION {Half(s) : s \in {c.to : c \in FirstHalf}}
WaypointCandidates == FirstHalf \cup SecondHalf

\* Some that last shorter than others.
UnequalCandidates ==
  {c \in {Third(At(p, v, 0), NoBrake(At(p, v, 0)), t, "UDDU", "NONE", TRUE) :
            p \in {0, 6, 12}, v \in {0, 2}, t \in NoneShapes} : Usable(c)}

\* Pieces that turn without jerk.
TurningCandidates ==
  {Second(At(0, -2, 0), NoBrake(At(0, -2, 0)), Shape(<<n, 0, 0, 0, 0, 0, 0>>), "UDDU", TRUE) : n \in 2 .. 3} \cup
  {Third(At(0, 2, 0), NoBrake(At(0, 2, 0)), Shape(<<1, 2, 1, 0, 0, 0, 0>>), "UDDU", "NONE", FALSE)}
TurningOn ==
  TurningCandidates \cup
  {c \in {Second(to, NoBrake(to), Shape(<<1, 0, 1, 0, 0, 0, 0>>), "UDDU", up) :
            to \in {c.to : c \in TurningCandidates}, up \in BOOLEAN} : Accepted(c)}
Near == [low |-> -2, high |-> 60]

\* One stands still at 10 and is not enabled.
DisabledCandidates ==
  {[kind |-> "disabled", start |-> At(60, 0, 0), brake |-> NoBrake(At(60, 0, 0)),
    t |-> Rest, to |-> At(60, 0, 0)]} \cup
  {c \in UnequalCandidates : c.start.p = 0}

\* A waypoint come to as fast as is allowed and still speeding up: the section
\* after it begins with a brake, in which the velocity goes on to 5 halves.
Entering == Third(At(0, 1, 0), NoBrake(At(0, 1, 0)), Shape(<<1, 1, 0, 0, 0, 0, 0>>),
                  "UDDU", "NONE", TRUE)
Overshooting == Third(Entering.to, Braked(Entering.to, <<2, 0>>, <<-1, 0>>),
                      Shape(<<1, 0, 0, 0, 0, 0, 0>>), "UDDU", "NONE", TRUE)

\* A state that needs no brake with the jerk of the input, in a profile that was
\* stretched to a given duration by less jerk than that.
Stretched ==
  [Third(At(0, 2, 2), NoBrake(At(0, 2, 2)), Shape(<<4, 0, 0, 0, 0, 0, 0>>), "UDDU", "NONE", FALSE)
     EXCEPT !.a_max = -2, !.a_min = 2]

BrakeCandidates == {c \in ThirdCandidates : BrakeDuration(c.brake) > 0} \cup BrakedSeconds

\* For each degree of freedom.
One(candidates) == {[x |-> c] : c \in candidates}
Pairs(candidates) == {[x |-> b, y |-> c] : b \in candidates, c \in candidates}

\* One axis does what is asked of it, the other goes along for as long as that
\* takes, and after an intermediate position back.
Length(c) == Ends(ProfileOf(c))
Out(c)    == First(At(0, 0, 0), Length(c), 1)
Lengths   == {Length(c) : c \in FirstHalf}
Along     == {[x |-> c, y |-> Out(c)] : c \in ThirdCandidates \cup BrakedSeconds}
OutAndBack ==
  {[x |-> c, y |-> Out(c)] : c \in FirstHalf} \cup
  {[x |-> c, y |-> First(At(3 * n, 0, 0), m, -1)] :
     c \in SecondHalf, n \in Lengths, m \in Lengths}
MCProposals(n) == IF n = 0 THEN Along ELSE OutAndBack

UntimedProposals(n)  == One(UntimedCandidates)
UnequalProposals(n)  == Pairs(UnequalCandidates)
TurningProposals(n)  == One(TurningOn)
DisabledProposals(n) == Pairs(DisabledCandidates)
BrakeProposals(n)    == One(BrakeCandidates)
LimitProposals(n)    == One(IF n = 0 THEN {Stretched} ELSE {Entering, Overshooting})

\* The synchronised axes meet the conditions of the theorems; the instances
\* in which a query fails each miss one.
ASSUME ConditionsMet ==
  (\A n \in WaypointCounts : Proposals(n) = MCProposals(n)) =>
    Together /\ AllTimed /\ TurnsFound /\ AllInLimits
=============================================================================
