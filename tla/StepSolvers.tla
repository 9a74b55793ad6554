---------------------------- MODULE StepSolvers -----------------------------
(***************************************************************************)
(* The two steps in which the duration of a motion is found.  Step 1 gives *)
(* a degree of freedom its fastest profile and a block: the durations it   *)
(* cannot have.  Once the degrees of freedom have agreed on a duration,    *)
(* step 2 finds the profile that takes just this long.                     *)
(*                                                                         *)
(* A position in second order and a velocity in third order are solved     *)
(* alike, by code that is written twice: a value x changes by the rate r,  *)
(* which has limits, and the rate by slopes.  (Position: the rate is the   *)
(* velocity, the slopes are the acceleration limits.  Velocity: the rate   *)
(* is the acceleration, the slopes are the jerk limits.)  A position in    *)
(* first order and a velocity in second order have one piece.              *)
(*                                                                         *)
(* Arithmetic is exact.  A problem or a duration where the code would take *)
(* the root of a number that is no square, and the answer would depend on  *)
(* it, is not looked at (Exact, Unclear).                                  *)
(***************************************************************************)
EXTENDS Fractions, Sequences, FiniteSetsExt

CONSTANTS
  Problems,   \* [order, dx, r0, rf, max, min, up, down], fractions but for the order
  Durations   \* the durations step 2 may be asked for

PositionSecond == "position, second order"
VelocityThird  == "velocity, third order"
PositionFirst  == "position, first order"
VelocitySecond == "velocity, second order"

OnePiece == {PositionFirst, VelocitySecond}

VARIABLES
  problem,    \* what is to be solved
  block,      \* what step 1 stored: [valid, t_min, a, b]
  own,        \* the duration it told: of independent_min_durations
  duration,   \* step 2 was last asked for
  outcome     \* "none", of step 1 "refused" or "solved", of step 2 "found" or "failed"

vars == <<problem, block, own, duration, outcome>>

-----------------------------------------------------------------------------
(* Profiles and their checks.                                              *)

\* Each way of solving is tried in both directions; downwards maximum and
\* minimum change places.
Upward(p)   == [max |-> p.max, min |-> p.min, up |-> p.up, down |-> p.down, direction |-> "up"]
Downward(p) == [max |-> p.min, min |-> p.max, up |-> p.down, down |-> p.up, direction |-> "down"]

Low(o)  == IF Zero \prec o.max THEN o.min ELSE o.max
High(o) == IF Zero \prec o.max THEN o.max ELSE o.min
InLimits(r, o) == Low(o) \preceq r /\ r \preceq High(o)

\* The pieces the solvers use: rising, steady, falling, and rising at the end.
Total(t) == t.rise \oplus t.steady \oplus t.fall \oplus t.last

Times(rise, steady, fall, last) ==
  [rise |-> rise, steady |-> steady, fall |-> fall, last |-> last]

\* A piece adds to the rate, and to the value.
Slope(s, n, slope) ==
  [x |-> s.x \oplus (n \otimes s.r) \oplus Half(slope \otimes Square(n)),
   r |-> s.r \oplus (n \otimes slope)]

\* ruckig_profile_check_for_second_order_ctx, ruckig_profile_check_for_velocity_ctx:
\* the profile ends in the target, and its rate keeps to the limits.
Checked(p, o, t, up, down, reached) ==
  LET start == [x |-> Zero, r |-> p.r0]
      peak  == Slope(Slope(start, t.rise, up), t.steady, Zero)
      low   == Slope(peak, t.fall, down)
      end   == Slope(low, t.last, up)
  IN  /\ \A piece \in {t.rise, t.steady, t.fall, t.last} : Zero \preceq piece
      /\ (p.order = VelocityThird /\ reached) => Zero \prec t.steady
      /\ end.x = p.dx /\ end.r = p.rf
      /\ InLimits(peak.r, o) /\ InLimits(low.r, o)

Profile(t, o) == [duration |-> Total(t), direction |-> o.direction]

-----------------------------------------------------------------------------
(* Step 1: the ways to solve a problem in a direction.                     *)

\* The square of the peak of a profile that reaches no limit.
PeakSquare(p, o) ==
  ((o.up \otimes Square(p.rf)) \ominus
     ((o.down \otimes Square(p.r0)) \oplus (Two \otimes (o.up \otimes (o.down \otimes p.dx)))))
  \oslash (o.up \ominus o.down)

\* Fault: the peak is looked for on one side.
TimesOneSide(p, o) ==
  LET h == Root(PeakSquare(p, o))
  IN  IF ~HasRoot(PeakSquare(p, o)) THEN <<>>
      ELSE <<Times(Minus(p.r0 \oplus h) \oslash o.up, Zero, (p.rf \oplus h) \oslash o.down, Zero)>>

\* append_time_none: the peak may be on either side.
TimesNone(p, o) ==
  LET h == Root(PeakSquare(p, o))
  IN  IF ~HasRoot(PeakSquare(p, o)) THEN <<>>
      ELSE <<Times(Minus(p.r0 \oplus h) \oslash o.up, Zero, (p.rf \oplus h) \oslash o.down, Zero),
             Times((h \ominus p.r0) \oslash o.up, Zero, (p.rf \ominus h) \oslash o.down, Zero)>>

\* append_time_acc0: the rate reaches its limit.
TimesLimit(p, o) ==
  IF o.max = Zero THEN <<>>
  ELSE <<Times((o.max \ominus p.r0) \oslash o.up,
               ((Square(o.max) \ominus PeakSquare(p, o)) \otimes (o.up \ominus o.down))
                 \oslash (Two \otimes (o.up \otimes (o.down \otimes o.max))),
               (p.rf \ominus o.max) \oslash o.down, Zero)>>

\* The profiles among some times that pass the check.
Passing(p, o, times, reached) ==
  LET passing == SelectSeq(times, LAMBDA t : Checked(p, o, t, o.up, o.down, reached))
  IN  [i \in DOMAIN passing |-> Profile(passing[i], o)]

None(p, o)  == Passing(p, o, TimesNone(p, o), FALSE)
Limit(p, o) == Passing(p, o, TimesLimit(p, o), TRUE)

First(profiles) == SubSeq(profiles, 1, Min({1, Len(profiles)}))

\* Fault: a start that leads away from the target is forgotten.
FirstTowards(p) ==
  LET towards == IF Zero \preceq p.dx THEN Upward(p) ELSE Downward(p)
  IN  IF None(p, towards) # <<>> THEN First(None(p, towards)) ELSE Limit(p, towards)

\* A rate that is to end at 0 has no blocked durations: the first profile is
\* the only one that is looked for, first towards the target.
FirstToRest(p) ==
  LET towards == IF Zero \preceq p.dx THEN Upward(p) ELSE Downward(p)
      away    == IF Zero \preceq p.dx THEN Downward(p) ELSE Upward(p)
      found   == <<First(None(p, towards)), Limit(p, towards),
                   First(None(p, away)), Limit(p, away)>>
      tried   == {i \in 1 .. 4 : found[i] # <<>>}
  IN  IF tried = {} THEN <<>> ELSE found[Min(tried)]

Candidates(p) ==
  IF p.rf = Zero THEN FirstToRest(p)
  ELSE None(p, Upward(p)) \o None(p, Downward(p)) \o Limit(p, Upward(p)) \o Limit(p, Downward(p))

\* No limit for the rate, or no slope: the rate stays as it is.
Still(p) ==
  \/ p.order = PositionSecond /\ p.max = Zero /\ p.min = Zero
  \/ p.order = VelocityThird /\ p.up = Zero

\* Where a root is no number here, the code finds no profile: its peak is
\* beyond both limits, or is passed at the start or the end.
Further(p, o) ==
  LET further(r, q) == IF r \prec q THEN q ELSE r
  IN  IF o.direction = "up" THEN further(p.r0, p.rf) ELSE further(Minus(p.r0), Minus(p.rf))
Exact(p) ==
  Still(p) \/ \A o \in {Upward(p), Downward(p)} :
    LET h == PeakSquare(p, o)
    IN  \/ h \prec Zero \/ HasRoot(h)
        \/ Square(p.max) \prec h /\ Square(p.min) \prec h
        \/ Zero \prec Further(p, o) /\ h \prec Square(Further(p, o))

-----------------------------------------------------------------------------
(* The block (block.c).                                                    *)

Never == [left |-> Zero, right |-> Zero]
Infinite == <<1, 0>>
Unstored == [valid |-> FALSE, t_min |-> Zero, a |-> Never, b |-> Never]

Interval(one, other) ==
  IF one.duration \prec other.duration THEN [left |-> one.duration, right |-> other.duration]
  ELSE [left |-> other.duration, right |-> one.duration]

BlockOf(fastest, a, b) == [valid |-> TRUE, t_min |-> fastest.duration, a |-> a, b |-> b]

Twins(one, other) == one.duration = other.duration /\ one.direction # other.direction

Remove(v, i) == SubSeq(v, 1, i - 1) \o SubSeq(v, i + 1, Len(v))

\* Of four profiles two should be the same.
WithoutTwin(v) ==
  CASE Twins(v[1], v[2]) -> Remove(v, 2)
    [] ~Twins(v[1], v[2]) /\ (Twins(v[3], v[4]) \/ Twins(v[1], v[4])) -> Remove(v, 4)
    [] OTHER -> v

\* Those after the fastest, in turn.
Fastest(v) == Min({i \in DOMAIN v : \A k \in DOMAIN v : v[i].duration \preceq v[k].duration})
After(v, i) == v[((Fastest(v) - 1 + i) % Len(v)) + 1]

\* ruckig_block_calculate
BlockOfTwo(v) ==
  IF v[1].duration = v[2].duration THEN BlockOf(v[1], Never, Never)
  ELSE BlockOf(v[Fastest(v)], Interval(v[1], v[2]), Never)

\* Fault: the gap between the slower profiles is forgotten.
BlockOfThreeGapless(v) == BlockOf(v[Fastest(v)], Never, Never)

BlockOfThree(v) == BlockOf(v[Fastest(v)], Interval(After(v, 1), After(v, 2)), Never)

BlockOfFive(v) ==
  IF After(v, 1).direction = After(v, 2).direction
  THEN BlockOf(v[Fastest(v)], Interval(After(v, 1), After(v, 2)), Interval(After(v, 3), After(v, 4)))
  ELSE BlockOf(v[Fastest(v)], Interval(After(v, 1), After(v, 4)), Interval(After(v, 2), After(v, 3)))

Calculate(v) ==
  CASE Len(v) = 1 -> BlockOf(v[1], Never, Never)
    [] Len(v) = 2 -> BlockOfTwo(v)
    [] Len(v) = 3 -> BlockOfThree(v)
    [] Len(v) = 4 /\ Len(WithoutTwin(v)) = 3 -> BlockOfThree(WithoutTwin(v))
    [] Len(v) = 5 -> BlockOfFive(v)
    [] OTHER -> Unstored

\* A duration is raised to what each step 1 told, and out of the blocks that
\* are stored (update_sync_duration_candidate, adjust_duration_for_blocks).
IsBlocked(d) ==
  \/ d \prec own
  \/ /\ block.valid
     /\ \/ d \prec block.t_min
        \/ \E i \in {block.a, block.b} : i.left \prec d /\ d \prec i.right

-----------------------------------------------------------------------------
(* Both steps.                                                             *)

\* time_all_single_step: one piece.
SingleStep(p) ==
  LET t == IF p.r0 = Zero THEN Zero ELSE p.dx \oslash p.r0
  IN  IF /\ p.r0 = p.rf
         /\ p.r0 = Zero => p.dx = Zero
         /\ Checked(p, Upward(p), Times(Zero, t, Zero, Zero), Zero, Zero, FALSE)
      THEN [BlockOf([duration |-> t], Never, Never) EXCEPT
              !.a = IF p.r0 = Zero THEN Never ELSE [left |-> t, right |-> Infinite]]
      ELSE Unstored

\* ruckig_position_first_step1_get_profile, ruckig_velocity_second_step1_get_profile
OneStep(p) ==
  LET r == IF Zero \prec p.dx THEN p.max ELSE p.min
  IN  IF r = Zero THEN Unstored ELSE BlockOf([duration |-> p.dx \oslash r], Never, Never)

\* time_acc0 of step 2: up, steady, down.
SteadySquare(p, o, d) ==
  ((((Two \otimes o.up) \otimes (p.dx \ominus (d \otimes p.rf)))
     \ominus ((Two \otimes o.down) \otimes (p.dx \ominus (d \otimes p.r0))))
    \oplus Square(p.rf \ominus p.r0)) \oslash (o.up \otimes o.down)
  \oplus Square(d)

UpSteadyDown(p, o, d) ==
  LET Way(h, rise) == [times |-> Times(rise, h, d \ominus (rise \oplus h), Zero),
                       up |-> o.up, down |-> o.down, reached |-> TRUE]
      Rise(h) == ((o.up \otimes (p.rf \ominus p.r0)) \ominus ((o.up \otimes o.down) \otimes (d \ominus h)))
                   \oslash (o.up \otimes (o.up \ominus o.down))
  IN  IF o.up = Zero THEN {}
      ELSE {Way(h, Rise(h)) : h \in Roots(SteadySquare(p, o, d))}

\* Up, steady, up; and steady, up.
UpSteadyUp(p, o, d) ==
  LET rd     == p.rf \ominus p.r0
      h      == (o.up \otimes d) \ominus rd
      steady == d \ominus (rd \oslash o.up)
      rise   == ((p.dx \ominus (p.r0 \otimes d)) \oslash h)
                \ominus (Square(rd) \oslash (Two \otimes (o.up \otimes h)))
      Way(t) == [times |-> t, up |-> o.up, down |-> o.down, reached |-> TRUE]
  IN  IF o.up = Zero THEN {}
      ELSE {Way(Times(Zero, steady, Zero, rd \oslash o.up))}
           \cup IF h = Zero THEN {}
                ELSE {Way(Times(rise, steady, Zero, d \ominus (rise \oplus steady)))}

\* time_none of step 2: at rest; and with a smaller slope.
SlopeAllowed(p, o, slope) ==
  IF p.order = PositionSecond THEN o.down \preceq slope /\ slope \preceq o.up
  ELSE Square(slope) \preceq Square(o.up)

Smaller(p, o, d) ==
  LET rd    == p.rf \ominus p.r0
      h     == Two \otimes ((p.rf \otimes d) \ominus p.dx)
      slope == Square(rd) \oslash h
      rise  == h \oslash rd
      Way(t, up) == [times |-> t, up |-> up, down |-> Minus(up), reached |-> FALSE]
  IN  CASE {p.r0, p.rf, p.dx} = {Zero} -> {Way(Times(Zero, d, Zero, Zero), o.up)}
        [] rd # Zero /\ h # Zero /\ SlopeAllowed(p, o, slope) ->
             {Way(Times(rise, d \ominus rise, Zero, Zero), slope)}
        [] OTHER -> {}

Solves(p, o, d) ==
  \E c \in UpSteadyDown(p, o, d) \cup UpSteadyUp(p, o, d) \cup Smaller(p, o, d) :
    Checked(p, o, c.times, c.up, c.down, c.reached)

\* Both directions are tried; a root that is no number here leaves it open.
Solved(p, d) ==
  CASE p.order \in OnePiece ->
         Zero \prec d /\ p.min \preceq (p.dx \oslash d) /\ (p.dx \oslash d) \preceq p.max
    [] p.order \notin OnePiece ->
         /\ p.order = VelocityThird => Zero \prec d
         /\ Solves(p, Upward(p), d) \/ Solves(p, Downward(p), d)

Unclear(p, d) ==
  /\ p.order \notin OnePiece /\ p.up # Zero
  /\ \E o \in {Upward(p), Downward(p)} :
       LET h == SteadySquare(p, o, d) IN Zero \preceq h /\ ~HasRoot(h)

\* Without step 2: the profile step 1 has written lasts as long as is asked,
\* or one of the block does, where blocks are looked at
\* (select_block_profile_for_duration).
Kept(p, d) ==
  \/ d = own
  \/ p.order \notin OnePiece /\ block.valid /\ d \in {block.t_min, block.a.right, block.b.right}

\* The durations worth asking for: the lower bounds of the gaps, too.
Asked(b) == {d \in Durations \cup {b.a.left, b.b.left} : Zero \prec d}

\* The get_profile functions of step 2, after what is kept without them.
Outcome(p, d) ==
  IF Kept(p, d) \/ Solved(p, d) THEN "found" ELSE IF Unclear(p, d) THEN "unclear" ELSE "failed"

-----------------------------------------------------------------------------
Init ==
  /\ problem \in {p \in Problems : p.order \in OnePiece \/ Exact(p)}
  /\ block = Unstored
  /\ own = Zero
  /\ duration = Zero
  /\ outcome = "none"

\* What a solver finds is told to the caller.
Tells(found) ==
  /\ own' = found.t_min
  /\ outcome' = IF found.valid THEN "solved" ELSE "refused"

\* The get_profile functions of step 1.  A velocity in second order leaves the
\* block as it was: that of a trajectory that is not used again is not valid.
Step1 ==
  /\ outcome = "none"
  /\ \/ /\ problem.order = VelocitySecond
        /\ Tells(OneStep(problem)) /\ UNCHANGED block
     \/ /\ problem.order = PositionFirst
        /\ Tells(OneStep(problem)) /\ block' = OneStep(problem)
     \/ /\ problem.order \notin OnePiece /\ Still(problem)
        /\ Tells(SingleStep(problem)) /\ block' = SingleStep(problem)
     \/ /\ problem.order \notin OnePiece /\ ~Still(problem)
        /\ \E found \in {Calculate(valid) : valid \in {Candidates(problem)}} :
             Tells(found) /\ block' = found
  /\ UNCHANGED <<problem, duration>>

\* The duration the degrees of freedom have agreed on is asked for.
Step2 ==
  /\ outcome = "solved"
  /\ \E d \in Asked(block) : \E answer \in {Outcome(problem, d)} :
       /\ answer # "unclear"
       /\ duration' = d
       /\ outcome' = answer
  /\ UNCHANGED <<problem, block, own>>

Next == Step1 \/ Step2

Spec == Init /\ [][Next]_vars

-----------------------------------------------------------------------------
(* Properties.                                                             *)

\* The block's bounds are in order, and it begins with the duration told.
TypeOK ==
  /\ outcome \in {"none", "refused", "solved", "found", "failed"}
  /\ Zero \preceq own
  /\ block.valid => block.t_min = own
  /\ \A i \in {block.a, block.b} : i.left \preceq i.right

\* Any state within the limits is brought to any target within the limits
\* (README.md:22 of the original).  A rate that stays as it is reaches only
\* the targets ahead of it.
InReach(p) ==
  /\ p.order \in OnePiece => Zero \notin {p.max, p.min}
  /\ p.order \notin OnePiece /\ Still(p) =>
       /\ p.r0 = p.rf
       /\ IF p.r0 = Zero THEN p.dx = Zero ELSE Zero \preceq (p.dx \oslash p.r0)
AnyStateIsSolved == InReach(problem) => outcome # "refused"

\* Step 1 finds a motion for each problem that has one; the block it makes of
\* them fails only if it is misled by a tie, two motions in one direction of
\* the same duration (one that just touches a limit is found twice, and only
\* twins of opposite direction are removed).
Tie(v) == \E i, k \in DOMAIN v : i # k /\ v[i] = v[k]
FailsOnlyByTies ==
  outcome = "refused" /\ InReach(problem) =>
    problem.order \notin OnePiece /\ \A valid \in {Candidates(problem)} : Tie(valid)

\* Together: step 1 ends in a block with its bounds in order, or in a tie.
Step1Right == TypeOK /\ FailsOnlyByTies

\* A duration that is not blocked has a profile: the duration the degrees of
\* freedom agree on never fails in step 2.
FreeIsFound == outcome = "failed" => IsBlocked(duration)

\* A duration that is blocked has none: nothing faster is missed, and no
\* duration is refused in vain.
BlockedIsNotFound == outcome = "found" => ~IsBlocked(duration)
=============================================================================
