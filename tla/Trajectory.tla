----------------------------- MODULE Trajectory -----------------------------
(***************************************************************************)
(* A trajectory (trajectory.c): sections, one after another, each with a   *)
(* profile for every degree of freedom.  The calculation writes them; the  *)
(* caller samples the trajectory over time and asks for the extrema of a   *)
(* position and for the first time a position is reached.                  *)
(*                                                                         *)
(* Time passes in ticks.  The queries solve polynomials; here their roots  *)
(* are looked for at the ticks, which finds them all where velocities turn *)
(* and asked positions are passed at ticks only (TurnsAtTicks, Passed).    *)
(***************************************************************************)
EXTENDS Profile, FiniteSetsExt, Sequences

CONSTANTS
  Dofs,             \* the degrees of freedom
  Proposals(_),     \* what the solvers may propose with so many intermediate positions:
                    \* [kind, start, brake, from, t, ..., to] for each degree of freedom
  WaypointCounts,   \* the numbers of intermediate positions
  Synchronized,     \* whether the degrees of freedom end a section together
  PositionLimits,   \* of the position of a degree of freedom in a section
  VelocityRange,    \* the limits the candidates are checked against
  AccelerationRange,
  Beyond,           \* bound: how many ticks after its end a trajectory is sampled
  Asked             \* the positions asked for

\* Within a tick the acceleration does not pass zero, nor does the velocity.
TurnsAtTicks(c) ==
  LET profile == ProfileOf(c)
      Smooth(s, n, j) ==
        /\ j \in {-1, 0, 1}
        /\ j # 0 => \A k \in 0 .. n - 1 : Move(s, k, j).v * Move(s, k + 1, j).v >= 0
  IN  /\ \A i \in Pieces : Smooth(profile.s[i], c.t[i], profile.j[i])
      /\ \A i \in 1 .. 2 : Smooth(c.brake.s[i], c.brake.t[i], c.brake.j[i])

ASSUME TrajectoryAssumption ==
  /\ WaypointCounts \subseteq Nat /\ Beyond \in Nat
  /\ Synchronized \in BOOLEAN /\ Dofs # {}
  /\ {PositionLimits, VelocityRange, AccelerationRange} \subseteq [low : Int, high : Int]
  /\ \A n \in WaypointCounts : \A choice \in Proposals(n), d \in Dofs :
       /\ WellFormed(choice[d]) /\ Accepted(choice[d]) /\ TurnsAtTicks(choice[d])
       /\ n > 0 => choice[d].kind \notin VelocityKinds

VARIABLES
  waypoints,  \* input.waypoint_count
  sections,   \* for each section its profiles, one for a degree of freedom
  until,      \* cumulative_times: when each section ends
  valid,      \* whether the trajectory is complete
  time,       \* of the last sample
  sample      \* the last sample: [states, section]

vars == <<waypoints, sections, until, valid, time, sample>>

-----------------------------------------------------------------------------
(* Sampling.                                                               *)

With(state, jerk) == [p |-> state.p, v |-> state.v, a |-> state.a, j |-> jerk]

\* The piece under way: the first that ends after the time.
Piece(t, local) == CHOOSE i \in Pieces : Start(t, i) <= local /\ local < Start(t, i + 1)

\* profile_state_at_time
StateAt(profile, at) ==
  LET brake == profile.brake
      local == at - BrakeDuration(brake)
      i     == Piece(profile.t, local)
  IN  CASE at < brake.t[1] ->
             With(Move(brake.s[1], at, brake.j[1]), brake.j[1])
        [] brake.t[1] <= at /\ at < BrakeDuration(brake) ->
             With(Move(brake.s[2], at - brake.t[1], brake.j[2]), brake.j[2])
        [] local >= Duration(profile.t) ->
             With(Move(profile.s[7], local - Duration(profile.t), 0), 0)
        [] OTHER ->
             With(Move(profile.s[i], local - Start(profile.t, i), profile.j[i]), profile.j[i])

\* Fault: time does not start again with a section.
FromTheStart(k) == 0

From(k) == IF k = 1 THEN 0 ELSE until[k - 1]
Last == Len(sections)
Whole == until[Last]

\* The section under way: the first that ends after the time, or the last.
SectionAt(at) == Min({k \in DOMAIN until : at < until[k]} \cup {Last})

\* ruckig_trajectory_at_time
AtTime(at) ==
  LET k == SectionAt(at)
  IN  [states  |-> [d \in Dofs |-> StateAt(sections[k][d], at - From(k))],
       section |-> IF at >= Whole THEN Last + 1 ELSE k]

-----------------------------------------------------------------------------
(* The extrema of a position.                                              *)

\* Where the velocity turns within a piece.
Turns(s, n, j) ==
  IF j = 0 THEN {} ELSE {k \in 1 .. n - 1 : Move(s, k, j).v = 0}

\* check_step_for_position_extremum, check_position_extremum: the positions
\* a piece puts forward, as a minimum, as a maximum.
PutForward(at, s, n, j) ==
  {[time |-> at, p |-> s.p, low |-> TRUE, high |-> TRUE]} \cup
  {[time |-> at + k,
    p    |-> Move(s, k, j).p,
    low  |-> Move(s, k, j).a > 0,
    high |-> Move(s, k, j).a < 0] : k \in Turns(s, n, j)}

\* Fault: the brake takes no time.
ProfileMarksUnshifted(profile) ==
  UNION {PutForward(Start(profile.t, i),
                    profile.s[i], profile.t[i], profile.j[i]) : i \in Pieces}

\* ruckig_profile_get_position_extrema: a brake counts if its first piece
\* has time in it; last comes the position the profile is meant to end in.
ProfileMarks(profile) ==
  LET brake == profile.brake
      Main  == UNION {PutForward(BrakeDuration(brake) + Start(profile.t, i),
                                 profile.s[i], profile.t[i], profile.j[i]) : i \in Pieces}
      Brake == UNION {PutForward(IF i = 1 THEN 0 ELSE brake.t[1],
                                 brake.s[i], brake.t[i], brake.j[i]) :
                        i \in {k \in 1 .. 2 : brake.t[1] > 0 /\ brake.t[k] > 0}}
      End   == [time |-> Ends(profile), p |-> profile.pf, low |-> TRUE, high |-> TRUE]
  IN  Main \cup Brake \cup {End}

\* Of equal positions the first is kept.
Earliest(marks) == CHOOSE m \in marks : \A other \in marks : m.time <= other.time

Extremes(marks) ==
  LET lows  == {m \in marks : m.low}
      highs == {m \in marks : m.high}
      low   == Min({m.p : m \in lows})
      high  == Max({m.p : m \in highs})
  IN  [min |-> low,  t_min |-> Earliest({m \in lows : m.p = low}).time,
       max |-> high, t_max |-> Earliest({m \in highs : m.p = high}).time]

\* ruckig_trajectory_get_position_extrema
Extrema(d) ==
  Extremes(UNION {{[m EXCEPT !.time = From(k) + @] : m \in ProfileMarks(sections[k][d])} :
                    k \in DOMAIN sections})

-----------------------------------------------------------------------------
(* The first time at a position.                                           *)

Resting(s, j) == s.v = 0 /\ s.a = 0 /\ j = 0

\* ruckig_profile_get_first_state_at_position: the times it finds, the
\* brake left out.  A piece at rest has no roots but its start.
TimesFound(profile, position) ==
  LET t == profile.t
      Found(i) ==
        {Start(t, i) : x \in {x \in {0} : profile.s[i].p = position}} \cup
        {Start(t, i) + k : k \in {k \in 1 .. t[i] :
            /\ ~Resting(profile.s[i], profile.j[i])
            /\ Move(profile.s[i], k, profile.j[i]).p = position}}
      AtEnd == (t[6] > 0 \/ Duration(t) = 0) /\ profile.pf = position
  IN  (UNION {Found(i) : i \in {i \in Pieces : t[i] > 0}})
      \cup (IF AtEnd THEN {Duration(t)} ELSE {})

\* Fault: a time before the one asked from is good enough.
TimesBefore(profile, position, after) == TimesFound(profile, position)

TimesAt(profile, position, after) ==
  {x \in TimesFound(profile, position) : x >= after}

NotFound == -1

\* ruckig_trajectory_get_first_time_at_position
FirstTime(d, position, after) ==
  LET Times(k) == TimesAt(sections[k][d], position, Max({after - From(k), 0}))
      found    == {k \in DOMAIN sections : Times(k) # {}}
  IN  IF found = {} THEN NotFound ELSE From(Min(found)) + Min(Times(Min(found)))

-----------------------------------------------------------------------------
(* The calculation writes the sections.                                    *)

Blank == [states |-> [d \in Dofs |-> With([p |-> 0, v |-> 0, a |-> 0], 0)], section |-> 0]

Init ==
  /\ waypoints \in WaypointCounts
  /\ sections = <<>>
  /\ until = <<>>
  /\ valid = FALSE
  /\ time = 0
  /\ sample = Blank

\* Fault: only where the section ends is looked at.
RespectsAtEnd(profiles) == \A d \in Dofs : Within(profiles[d].s[7].p, PositionLimits)

\* section_respects_position_bounds
Respects(profiles) ==
  \A d \in Dofs :
    LET e == Extremes(ProfileMarks(profiles[d]))
    IN  PositionLimits.low <= e.min /\ e.max <= PositionLimits.high

\* write_best_trajectory, or the calculation without waypoints: a section
\* starts where the one before it ends, and lasts as long as its longest profile.
WriteSection ==
  /\ ~valid /\ Len(sections) <= waypoints
  /\ \E choice \in Proposals(waypoints) :
       LET profiles == [d \in Dofs |-> ProfileOf(choice[d])]
           Enabled  == {d \in Dofs : choice[d].kind # "disabled"}
           duration == Max({Ends(profiles[d]) : d \in Dofs})
       IN  /\ sections # <<>> =>
                \A d \in Dofs : choice[d].start = sections[Last][d].s[7]
           /\ Synchronized => \A d \in Enabled : Ends(profiles[d]) = duration
           /\ waypoints > 0 => Respects(profiles)
           /\ sections' = Append(sections, profiles)
           /\ until' = Append(until, (IF until = <<>> THEN 0 ELSE Whole) + duration)
  /\ UNCHANGED <<waypoints, valid, time, sample>>

\* finalize_calculated_trajectory
Finish ==
  /\ ~valid /\ Len(sections) = waypoints + 1
  /\ valid' = TRUE
  /\ sample' = AtTime(0)
  /\ UNCHANGED <<waypoints, sections, until, time>>

\* The caller samples on.
Sample ==
  /\ valid /\ time < Whole + Beyond
  /\ time' = time + 1
  /\ sample' = AtTime(time + 1)
  /\ UNCHANGED <<waypoints, sections, until, valid>>

Next == WriteSection \/ Finish \/ Sample

Spec == Init /\ [][Next]_vars

-----------------------------------------------------------------------------
(* Properties.                                                             *)

\* The records have their types, sections end in order, and the sampled
\* section is one there is, or the one after the last.
TypeOK ==
  /\ \A k \in DOMAIN sections : DOMAIN sections[k] = Dofs
  /\ DOMAIN until = DOMAIN sections
  /\ \A k \in DOMAIN until : From(k) <= until[k]
  /\ valid \in BOOLEAN /\ time \in Nat
  /\ valid => Len(sections) = waypoints + 1
  /\ sample.section \in (IF valid THEN 1 .. Last + 1 ELSE {0})

Moved(d) == Move(sample.states[d], 1, sample.states[d].j)

\* From one sample to the next a degree of freedom moves as the sampled
\* velocity, acceleration and jerk say: no boundary between a brake, pieces,
\* sections and the end is skipped, or looked up in the wrong piece.  In third
\* order velocity and acceleration do not jump, either.
ThirdOrder(d) ==
  \A k \in DOMAIN sections : \E i \in Pieces : sections[k][d].j[i] # 0

NoJumps ==
  [][valid => \A d \in Dofs :
       LET next == sample'.states[d]
       IN  /\ next.p = Moved(d).p
           /\ ThirdOrder(d) => [p |-> next.p, v |-> next.v, a |-> next.a] = Moved(d)]_sample

\* Once the brake is over and until the trajectory ends, velocity and
\* acceleration keep to the limits the profile was checked against, although
\* the check looks only at the ends of pieces and at some turning points.
WithinLimits ==
  valid /\ time <= Whole =>
    \A d \in Dofs :
      BrakeDuration(sections[1][d].brake) <= time =>
        /\ Within(sample.states[d].v, VelocityRange)
        /\ Within(sample.states[d].a, AccelerationRange)

\* Together: the sections are in order, and what is sampled of them keeps to
\* the limits.
SampledRight == TypeOK /\ WithinLimits

\* The extrema are positions the trajectory has, at the times they are told for.
ExtremaReached ==
  valid /\ time = 0 =>
    \A d \in Dofs :
      LET e == Extrema(d)
      IN  /\ AtTime(e.t_min).states[d].p = e.min
          /\ AtTime(e.t_max).states[d].p = e.max

\* Until it ends the trajectory stays between its extrema.
ExtremaBound ==
  valid /\ time <= Whole =>
    \A d \in Dofs : Extrema(d).min <= sample.states[d].p /\ sample.states[d].p <= Extrema(d).max

\* Both: the extrema are exact.
ExtremaExact == ExtremaReached /\ ExtremaBound

\* Waypoint sections keep to the position limits all the time.
PositionsKept ==
  valid /\ waypoints > 0 /\ time <= Whole =>
    \A d \in Dofs : Within(sample.states[d].p, PositionLimits)

\* A motion that passes the asked position does so at a tick.
PositionAt(d, at) == AtTime(at).states[d].p
Passed(d, position) ==
  \A at \in 0 .. Whole - 1 :
    (PositionAt(d, at) - position) * (PositionAt(d, at + 1) - position) >= 0

\* Asked from now on, the first time a position is reached is found: the
\* trajectory has the position then, and not before; not found, it never has it.
FoundFirst(d) ==
  \A position \in {x \in Asked : Passed(d, x)} :
    LET first == FirstTime(d, position, time)
        end   == IF first = NotFound THEN Whole + 1 ELSE first
    IN  /\ first # NotFound => first \in time .. Whole /\ PositionAt(d, first) = position
        /\ \A at \in time .. end - 1 : PositionAt(d, at) # position

FirstTimeFound ==
  valid /\ time <= Whole => \A d \in Dofs : FoundFirst(d)

\* It is so for trajectories that neither brake nor rest.
Brakes(d) == \E k \in DOMAIN sections : BrakeDuration(sections[k][d].brake) > 0
Rests(d) ==
  \E k \in DOMAIN sections, i \in Pieces :
    LET profile == sections[k][d]
    IN  profile.t[i] > 0 /\ Resting(profile.s[i], profile.j[i])

FirstTimeFoundInMotion ==
  valid /\ time <= Whole => \A d \in Dofs : Brakes(d) \/ Rests(d) \/ FoundFirst(d)

-----------------------------------------------------------------------------
(* Conditions on the proposals under which the queries are exact for all   *)
(* trajectories.  Without each of them the code answers otherwise.         *)

\* The degrees of freedom are all enabled and end a section together.
Together ==
  /\ Synchronized
  /\ \A n \in WaypointCounts : \A choice \in Proposals(n), d \in Dofs :
       choice[d].kind # "disabled"

\* A velocity target has its duration given, so pf is where its motion ends.
Timed(c) == c.kind \in VelocityKinds => c.timed = TRUE

AllTimed == \A n \in WaypointCounts : \A choice \in Proposals(n), d \in Dofs : Timed(choice[d])

\* A profile as nine segments: the brake's two and the seven pieces.
Segments == 0 .. 8

StateOf(P, g) == IF g < 2 THEN P.brake.s[g + 1] ELSE P.s[g - 2]
JerkOf(P, g)  == IF g < 2 THEN P.brake.j[g + 1] ELSE P.j[g - 2]
Lasts(P, g)   == IF g < 2 THEN P.brake.t[g + 1] ELSE P.t[g - 2]

\* What check_position_extremum does not look at stays harmless: a brake whose
\* first piece has no time has none at all, and no piece without jerk turns.
TurnsFound ==
  \A n \in WaypointCounts : \A choice \in Proposals(n), d \in Dofs :
    LET c == choice[d]
        P == ProfileOf(c)
    IN  /\ Timed(c)
        /\ P.brake.t[1] = 0 => P.brake.t[2] = 0
        /\ \A g \in Segments : JerkOf(P, g) = 0 =>
             StateOf(P, g).v * Move(StateOf(P, g), Lasts(P, g), 0).v >= 0

\* What ruckig_validate_input asks of the current state: the acceleration can be
\* brought to 0 within the limits.  The jerk is the profile's, 1 by TurnsAtTicks;
\* where step 2 takes less than the input's, this asks more than the validation.
Allowed(s) == Within(s.v, VelocityRange) /\ Within(s.a, AccelerationRange)

CurrentInLimits(s) ==
  /\ Allowed(s)
  /\ s.a > 0 => s.v + s.a * s.a <= VelocityRange.high
  /\ s.a < 0 => s.v - s.a * s.a >= VelocityRange.low

\* And of the target state: its acceleration was built up within the limits.
TargetInLimits(s) ==
  /\ Allowed(s)
  /\ s.a > 0 => s.v - s.a * s.a >= VelocityRange.low
  /\ s.a < 0 => s.v + s.a * s.a <= VelocityRange.high

\* The limits of a candidate are those the samples are to keep, and the state
\* its profile begins in is one that needs no brake.  Under velocity control,
\* where no velocity is checked, the target is one a position may have, and the
\* pieces are the ones the velocity solvers use.
AmongVelocities(x)    == x \in VelocityRange.low .. VelocityRange.high
AmongAccelerations(x) == x \in AccelerationRange.low .. AccelerationRange.high

ThirdInLimits(c) ==
  /\ c.jf # 0 /\ CurrentInLimits(c.from)
  /\ AmongVelocities(c.v_max) /\ AmongVelocities(c.v_min)
  /\ AmongAccelerations(c.a_max) /\ AmongAccelerations(c.a_min)

ThirdVelocityInLimits(c) ==
  /\ c.jf # 0 /\ CurrentInLimits(c.from) /\ TargetInLimits(c.to)
  /\ AmongAccelerations(c.a_max) /\ AmongAccelerations(c.a_min)
  /\ c.t[3] = 0 /\ c.t[4] = 0 /\ c.t[5] = 0 /\ (c.t[2] = 0 \/ c.t[6] = 0)

SecondInLimits(c) ==
  /\ AmongVelocities(c.from.v) /\ AmongVelocities(c.v_max) /\ AmongVelocities(c.v_min)
  /\ AmongAccelerations(c.a_up) /\ AmongAccelerations(c.a_down)

SecondVelocityInLimits(c) == AmongVelocities(c.from.v) /\ AmongAccelerations(c.a_up)

InLimits(c) ==
  /\ Allowed(c.to) /\ AmongVelocities(0) /\ AmongAccelerations(0)
  /\ c.kind = "third"           => ThirdInLimits(c)
  /\ c.kind = "third velocity"  => ThirdVelocityInLimits(c)
  /\ c.kind = "second"          => SecondInLimits(c)
  /\ c.kind = "second velocity" => SecondVelocityInLimits(c)
  /\ c.kind = "first"           => AmongVelocities(c.v_up)

\* No section brakes that begins where another ends.  The engine does not see to
\* that: it keeps a waypoint's velocity and acceleration to the limits one by one.
BrakesAtTheStart ==
  \A n \in WaypointCounts \ {0} :
    LET joints == {<<d, MotionOf(choice[d])[7]>> : choice \in Proposals(n), d \in Dofs}
    IN  \A choice \in Proposals(n), d \in Dofs :
          <<d, choice[d].start>> \in joints => BrakeDuration(choice[d].brake) = 0

AllInLimits ==
  /\ \A n \in WaypointCounts : \A choice \in Proposals(n), d \in Dofs : InLimits(choice[d])
  /\ BrakesAtTheStart
=============================================================================
