-------------------------- MODULE TrajectoryProofs --------------------------
(***************************************************************************)
(* Proofs about Trajectory: what a written trajectory gives to the caller  *)
(* who samples it and asks it for extrema and first times.                 *)
(*                                                                         *)
(* A profile is taken as nine segments, two of the brake and seven pieces, *)
(* that are joined: each begins in the state the one before it ends in, so *)
(* a time on the boundary may be taken from either (StateInSegment).  The  *)
(* sections are joined in the same way (Chained), which is the invariant   *)
(* NoJumps needs.  For the extrema: where a profile is last at its highest *)
(* it has put a mark there (TopIsMarked), since a segment neither begins,  *)
(* ends nor turns anywhere else; lows are the highs of the mirrored        *)
(* profile.  For the first time: every section tells exactly the times it  *)
(* is at a position (TimesExact), and the search over sections takes the   *)
(* first.  For the limits: a piece that begins and ends within them leaves *)
(* them only where the acceleration passes 0 (PieceKept); the velocities   *)
(* the check does not look at lie between one it does and the one the      *)
(* profile begins with (RiseAndGoOn).  Facts about all numbers are proved  *)
(* by the least counterexample.                                            *)
(*                                                                         *)
(* The theorems name what they need of the proposals: Together, AllTimed,  *)
(* TurnsFound and AllInLimits, defined with the reasons in Trajectory.     *)
(***************************************************************************)
EXTENDS Trajectory, FiniteSetTheorems, TLAPS

\* A nonempty set of natural numbers has a least element.
LEMMA LeastNatural ==
  ASSUME NEW S \in SUBSET Nat, S # {}
  PROVE  \E m \in S : \A n \in S : m <= n
<1> DEFINE Below == {0 .. n : n \in S}
           F == FiniteSubsetsOf(Nat)
           R == StrictSubsetOrdering(Nat)
<1>1. Below \subseteq F /\ Below # {}
  <2>1. \A n \in S : 0 .. n \in F
    BY FS_Interval DEF FiniteSubsetsOf
  <2> QED BY <2>1
<1>2. IsWellFoundedOn(R, F)
  BY FS_StrictSubsetOrderingWellFounded
<1>3. \E b \in Below : \A c \in Below : ~ (<<c, b>> \in R)
  <2> HIDE DEF Below, F, R
  <2> QED BY <1>1, <1>2, WFMin
<1>4. PICK m \in S : \A n \in S : ~ (<<0 .. n, 0 .. m>> \in R)
  BY <1>3
<1>5. ASSUME NEW n \in S, n < m PROVE FALSE
  <2>1. 0 .. n \subseteq 0 .. m /\ 0 .. n # 0 .. m
    BY <1>5
  <2>2. <<0 .. n, 0 .. m>> \in R
    BY <2>1 DEF StrictSubsetOrdering
  <2> QED BY <1>4, <2>2
<1> QED BY <1>5

\* When each piece begins.
LEMMA StartSums ==
  ASSUME NEW t \in Timings
  PROVE  /\ Start(t, 0) = 0
         /\ \A i \in Pieces : Start(t, i + 1) = Start(t, i) + t[i]
<1> DEFINE Sums(f) == f = [k \in 0 .. 7 |-> IF k = 0 THEN 0 ELSE f[k - 1] + t[k - 1]]
           sum == CHOOSE f : Sums(f)
           s1 == t[0] 
           s2 == s1 + t[1]
           s3 == s2 + t[2]
           s4 == s3 + t[3]
           s5 == s4 + t[4]
           s6 == s5 + t[5]
           s7 == s6 + t[6]
           f == [k \in 0 .. 7 |-> CASE k = 0 -> 0 [] k = 1 -> s1 [] k = 2 -> s2 [] k = 3 -> s3
                                     [] k = 4 -> s4 [] k = 5 -> s5 [] k = 6 -> s6 [] k = 7 -> s7]
<1>1. Sums(f)
  BY DEF Timings, Pieces
<1>2. Sums(sum)
  <2> HIDE DEF Sums, f
  <2> QED BY <1>1
<1>3. \A i : Start(t, i) = sum[i]
  BY DEF Start
<1> HIDE DEF sum
<1> QED BY <1>2, <1>3 DEF Pieces

\* Times of pieces and their sums.
LEMMA StartTypes ==
  ASSUME NEW t \in Timings
  PROVE  /\ \A i \in Pieces : t[i] \in Nat
         /\ \A i \in 0 .. 7 : Start(t, i) \in Nat
         /\ Duration(t) = Start(t, 7)
<1>1. \A i \in Pieces : t[i] \in Nat
  BY DEF Timings
<1>2. Start(t, 0) \in Nat
  BY StartSums
<1>3. \A i \in Pieces : Start(t, i) \in Nat => Start(t, i + 1) \in Nat
  BY <1>1, StartSums
<1>4. /\ Start(t, 1) \in Nat /\ Start(t, 2) \in Nat /\ Start(t, 3) \in Nat /\ Start(t, 4) \in Nat
      /\ Start(t, 5) \in Nat /\ Start(t, 6) \in Nat /\ Start(t, 7) \in Nat
  BY <1>2, <1>3 DEF Pieces
<1> QED BY <1>1, <1>2, <1>4 DEF Duration

\* A state moves to a state.
LEMMA MoveType ==
  ASSUME NEW s \in States, NEW n \in Int, NEW j \in Int
  PROVE  Move(s, n, j) \in States
BY DEF Move, States

\* A state where some velocities and accelerations are given.
Given(i, x, a, v) ==
  [p |-> x.p,
   v |-> IF i \in DOMAIN v THEN v[i] ELSE x.v,
   a |-> IF i \in DOMAIN a THEN a[i] ELSE x.a]

\* The recursion of a motion, piece by piece.
LEMMA MotionSteps ==
  ASSUME NEW from, NEW t, NEW j, NEW a, NEW v
  PROVE  LET s == Motion(from, t, j, a, v)
         IN  /\ s[0] = Given(0, from, a, v)
             /\ \A i \in Pieces : s[i + 1] = Given(i + 1, Move(s[i], t[i], j[i]), a, v)
<1> DEFINE C(i, s) == IF i = 0 THEN from ELSE Move(s, t[i - 1], j[i - 1])
           R(i, s) == [p |-> C(i, s).p,
                       v |-> IF i \in DOMAIN v THEN v[i] ELSE C(i, s).v,
                       a |-> IF i \in DOMAIN a THEN a[i] ELSE C(i, s).a]
           F(f) == f = [i \in 0 .. 7 |-> R(i, f[i - 1])]
           s0 == R(0, from)
           s1 == R(1, s0)
           s2 == R(2, s1)
           s3 == R(3, s2)
           s4 == R(4, s3)
           s5 == R(5, s4)
           s6 == R(6, s5)
           s7 == R(7, s6)
           f == [k \in 0 .. 7 |-> CASE k = 0 -> s0 [] k = 1 -> s1 [] k = 2 -> s2 [] k = 3 -> s3
                                     [] k = 4 -> s4 [] k = 5 -> s5 [] k = 6 -> s6 [] k = 7 -> s7]
<1>1. Motion(from, t, j, a, v) = CHOOSE g : F(g)
  BY DEF Motion
<1>2. \A x, y : R(0, x) = R(0, y)
  OBVIOUS
<1> HIDE DEF R
<1>3. F(f)
  <2>1. \A i \in 0 .. 7 : f[i] = R(i, f[i - 1])
    BY <1>2
  <2> QED BY <2>1
<1>4. \E g : F(g)
  <2> HIDE DEF F, f
  <2> QED BY <1>3
<1>5. F(Motion(from, t, j, a, v))
  <2> HIDE DEF F
  <2> QED BY <1>1, <1>4
<1>6. \A i \in 0 .. 7 : Motion(from, t, j, a, v)[i] = R(i, Motion(from, t, j, a, v)[i - 1])
  BY <1>5
<1> DEFINE s == Motion(from, t, j, a, v)
<1> HIDE DEF s
<1>7. s[0] = R(0, s[0 - 1]) /\ \A i \in Pieces : s[i + 1] = R(i + 1, s[i])
  <2>1. s[0] = R(0, s[0 - 1])
    BY <1>6 DEF s
  <2>2. ASSUME NEW i \in Pieces PROVE s[i + 1] = R(i + 1, s[i])
    <3>1. i + 1 \in 0 .. 7 /\ (i + 1) - 1 = i
      BY DEF Pieces
    <3>2. s[i + 1] = R(i + 1, s[(i + 1) - 1])
      BY <1>6, <3>1 DEF s
    <3> QED BY <3>1, <3>2
  <2> QED BY <2>1, <2>2
<1>8. R(0, s[0 - 1]) = Given(0, from, a, v)
  BY DEF R, Given
<1>9. ASSUME NEW i \in Pieces
      PROVE  R(i + 1, s[i]) = Given(i + 1, Move(s[i], t[i], j[i]), a, v)
  <2>1. i + 1 # 0 /\ (i + 1) - 1 = i
    BY DEF Pieces
  <2>2. R(i + 1, s[i]) = Given(i + 1, C(i + 1, s[i]), a, v)
    BY DEF R, Given
  <2>3. C(i + 1, s[i]) = Move(s[i], t[i], j[i])
    BY <2>1
  <2> QED BY <2>2, <2>3
<1> QED BY <1>7, <1>8, <1>9 DEF s

\* A motion is made of states, each at the position the one before moves to;
\* where nothing is given, the whole state is carried over.
LEMMA MotionJoins ==
  ASSUME NEW from \in States, NEW t \in Timings, NEW j \in [Pieces -> Int],
         NEW a, NEW v, \A i \in DOMAIN a : a[i] \in Int, \A i \in DOMAIN v : v[i] \in Int
  PROVE  LET s == Motion(from, t, j, a, v)
         IN  /\ \A i \in 0 .. 7 : s[i] \in States
             /\ s[0].p = from.p
             /\ \A i \in Pieces : s[i + 1].p = Move(s[i], t[i], j[i]).p
             /\ DOMAIN v = {} /\ DOMAIN a = {} =>
                  s[0] = from /\ \A i \in Pieces : s[i + 1] = Move(s[i], t[i], j[i])
<1> DEFINE s == Motion(from, t, j, a, v)
           c(i) == Move(s[i], t[i], j[i])
           S(i, x) == Given(i, x, a, v)
<1>1. s[0] = S(0, from)
  BY MotionSteps
<1>2. \A i \in Pieces : s[i + 1] = S(i + 1, c(i))
  BY MotionSteps
<1>3. ASSUME NEW i, NEW x \in States
      PROVE  /\ S(i, x) \in States /\ S(i, x).p = x.p
             /\ DOMAIN v = {} /\ DOMAIN a = {} => S(i, x) = x
  BY <1>3 DEF States, Given
<1> HIDE DEF S, s
<1>4. s[0] \in States
  BY <1>1, <1>3
<1>5. \A i \in Pieces : s[i] \in States => c(i) \in States
  <2> TAKE i \in Pieces
  <2>1. t[i] \in Int /\ j[i] \in Int
    BY StartTypes
  <2> QED BY <2>1, MoveType
<1> HIDE DEF c
<1>6. \A i \in Pieces : s[i] \in States => s[i + 1] \in States
  BY <1>2, <1>3, <1>5
<1>7. /\ s[1] \in States /\ s[2] \in States /\ s[3] \in States /\ s[4] \in States
      /\ s[5] \in States /\ s[6] \in States /\ s[7] \in States
  BY <1>4, <1>6 DEF Pieces
<1>8. \A i \in 0 .. 7 : s[i] \in States
  BY <1>4, <1>7
<1>9. \A i \in Pieces : s[i] \in States
  BY <1>8 DEF Pieces
<1> QED BY <1>1, <1>2, <1>3, <1>5, <1>8, <1>9 DEF s, c

-----------------------------------------------------------------------------
(* A profile as nine segments, two of the brake and seven pieces, each with *)
(* a jerk; the last state, which has none, is the tenth.                    *)

Begin(P, g)   ==
  IF g < 2 THEN IF g = 0 THEN 0 ELSE P.brake.t[1]
  ELSE BrakeDuration(P.brake) + Start(P.t, g - 2)

\* Two states at one position; when the whole state is meant, the same one.
Agree(x, y, what) == x.p = y.p /\ (what = "state" => x.v = y.v /\ x.a = y.a)

\* The kinds whose profiles carry the whole state on.
Carries(kind, what) == what = "state" => kind \in {"third", "third velocity"}

Joined(P, start, what) ==
  /\ P.t \in Timings /\ P.brake.t \in Nat \X Nat
  /\ \A g \in 0 .. 9 : StateOf(P, g) \in States
  /\ \A g \in Segments : JerkOf(P, g) \in Int
  /\ Agree(StateOf(P, 0), start, what)
  /\ \A g \in Segments :
       Agree(StateOf(P, g + 1), Move(StateOf(P, g), Lasts(P, g), JerkOf(P, g)), what)

\* Each segment begins where the one before it ends.
LEMMA BeginSums ==
  ASSUME NEW P, P.t \in Timings, P.brake.t \in Nat \X Nat
  PROVE  /\ Begin(P, 0) = 0 /\ Begin(P, 9) = Ends(P) /\ Ends(P) \in Nat
         /\ \A g \in Segments : Begin(P, g + 1) = Begin(P, g) + Lasts(P, g)
         /\ \A g \in Segments : Lasts(P, g) \in Nat
         /\ \A g \in 0 .. 9 : Begin(P, g) \in Nat
<1>1. /\ P.brake.t[1] \in Nat /\ P.brake.t[2] \in Nat
      /\ \A i \in Pieces : P.t[i] \in Nat
      /\ \A i \in 0 .. 7 : Start(P.t, i) \in Nat
      /\ Duration(P.t) = Start(P.t, 7)
  BY StartTypes
<1>2. Begin(P, 0) = 0 /\ Begin(P, 9) = Ends(P) /\ Ends(P) \in Nat
  BY <1>1 DEF Begin, Ends, BrakeDuration
<1>3. \A g \in Segments : Lasts(P, g) \in Nat
  BY <1>1 DEF Segments, Lasts, Pieces
<1>4. \A g \in 0 .. 9 : Begin(P, g) \in Nat
  BY <1>1 DEF Begin, BrakeDuration
<1>5. ASSUME NEW g \in Segments PROVE Begin(P, g + 1) = Begin(P, g) + Lasts(P, g)
  <2>1. CASE g = 0
    BY <1>1, <2>1 DEF Begin, Lasts
  <2>2. CASE g = 1
    BY <1>1, <2>2, StartSums DEF Begin, Lasts, BrakeDuration
  <2>3. CASE g \in 2 .. 8
    <3>1. g - 2 \in Pieces /\ (g + 1) - 2 = (g - 2) + 1
      BY <2>3 DEF Pieces
    <3>2. Start(P.t, (g + 1) - 2) = Start(P.t, g - 2) + P.t[g - 2]
      BY <3>1, StartSums
    <3>3. Start(P.t, g - 2) \in Nat /\ P.t[g - 2] \in Nat
      BY <1>1, <3>1 DEF Pieces
    <3> QED BY <1>1, <2>3, <3>2, <3>3 DEF Begin, Lasts, BrakeDuration
  <2> QED BY <2>1, <2>2, <2>3 DEF Segments
<1> QED BY <1>2, <1>3, <1>4, <1>5

\* A brake is joined, and ends where it says.
LEMMA BrakeJoined ==
  ASSUME NEW start \in States, NEW t \in Nat \X Nat, NEW j \in Int \X Int
  PROVE  LET brake == Braked(start, t, j)
         IN  /\ brake.t = t /\ brake.j = j
             /\ brake.s[1] = start /\ brake.s[2] = Move(start, t[1], j[1])
             /\ brake.to = Move(brake.s[2], t[2], j[2])
             /\ brake.s[1] \in States /\ brake.s[2] \in States /\ brake.to \in States
<1>1. t[1] \in Int /\ t[2] \in Int /\ j[1] \in Int /\ j[2] \in Int
  OBVIOUS
<1> DEFINE middle == Move(start, t[1], j[1])
<1>2. middle \in States
  BY <1>1, MoveType
<1> HIDE DEF middle
<1>3. Move(middle, t[2], j[2]) \in States
  BY <1>1, <1>2, MoveType
<1> QED BY <1>2, <1>3 DEF Braked, middle

\* The jerks of a profile are numbers.
LEMMA JerksType ==
  ASSUME NEW signs, NEW t \in Timings, NEW jf \in Int
  PROVE  Jerks(signs, t, jf) \in [Pieces -> Int]
<1>1. \A i \in Pieces : Jerks(signs, t, jf)[i] \in Int
  <2> TAKE i \in Pieces
  <2>1. t[i] \in Nat /\ (i = 0 \/ i = 1 \/ i = 2 \/ i = 3 \/ i = 4 \/ i = 5 \/ i = 6)
    BY DEF Timings, Pieces
  <2>2. t[i] = 0 \/ t[i] > 0
    BY <2>1
  <2> QED BY <2>1, <2>2 DEF Jerks, Turning
<1> QED BY <1>1 DEF Jerks, Turning

\* The motion of a well-formed candidate, whatever its kind.
LEMMA CandidateMotion ==
  ASSUME NEW c, WellFormed(c), c.kind # "disabled"
  PROVE  LET P == ProfileOf(c)
         IN  /\ P.j \in [Pieces -> Int]
             /\ \A i \in 0 .. 7 : P.s[i] \in States
             /\ P.s[0].p = c.from.p
             /\ \A i \in Pieces : P.s[i + 1].p = Move(P.s[i], c.t[i], P.j[i]).p
             /\ c.kind \in {"third", "third velocity"} =>
                  /\ P.s[0] = c.from
                  /\ \A i \in Pieces : P.s[i + 1] = Move(P.s[i], c.t[i], P.j[i])
<1> DEFINE P == ProfileOf(c)
<1>1. c.t \in Timings /\ c.from \in States /\ c.to \in States
  <2>1. c.brake.to \in States
    <3>1. /\ BrakeStart(c) \in States /\ c.brake.t \in Nat \X Nat /\ c.brake.j \in Int \X Int
          /\ c.brake = Braked(BrakeStart(c), c.brake.t, c.brake.j)
      BY DEF WellFormed
    <3> QED BY <3>1, BrakeJoined
  <2> QED BY <2>1 DEF WellFormed
<1>2. CASE c.kind \in {"third", "third velocity"}
  <2>1. Jerks(c.signs, c.t, c.jf) \in [Pieces -> Int]
    BY <1>1, <1>2, JerksType DEF WellFormed
  <2>2. /\ P.s = Motion(c.from, c.t, Jerks(c.signs, c.t, c.jf), None, None)
        /\ P.j = Jerks(c.signs, c.t, c.jf)
    BY <1>2 DEF ProfileOf, MotionOf, WellFormed
  <2>3. DOMAIN None = {}
    BY DEF None
  <2> DEFINE j == Jerks(c.signs, c.t, c.jf)
  <2> HIDE DEF P, j
  <2>4. /\ \A i \in 0 .. 7 : P.s[i] \in States
        /\ P.s[0].p = c.from.p
        /\ \A i \in Pieces : P.s[i + 1].p = Move(P.s[i], c.t[i], j[i]).p
        /\ P.s[0] = c.from
        /\ \A i \in Pieces : P.s[i + 1] = Move(P.s[i], c.t[i], j[i])
    <3>1. j \in [Pieces -> Int] /\ P.s = Motion(c.from, c.t, j, None, None)
      BY <2>1, <2>2 DEF j
    <3> QED BY <1>1, <2>3, <3>1, MotionJoins
  <2>5. P.j = j /\ j \in [Pieces -> Int]
    BY <2>1, <2>2 DEF j
  <2> QED BY <2>4, <2>5 DEF P
<1>3. CASE c.kind \notin {"third", "third velocity"}
  <2>1. P.j = Rest /\ Rest \in [Pieces -> Int]
    <3>1. P.j = Rest
      BY <1>3 DEF ProfileOf
    <3>2. Rest \in [Pieces -> Int]
      BY DEF Rest
    <3> QED BY <3>1, <3>2
  <2>0. \A i \in DOMAIN None : None[i] \in Int
    BY DEF None
  <2>2. \E a, v : /\ P.s = Motion(c.from, c.t, Rest, a, v)
                  /\ \A i \in DOMAIN a : a[i] \in Int
                  /\ \A i \in DOMAIN v : v[i] \in Int
    <3>1. c.to.a \in Int /\ c.to.v \in Int
      BY <1>1 DEF States
    <3>2. CASE c.kind = "second"
      <4> DEFINE up == Turning(c.signs, c.t, c.a_up, c.a_down)
                 a == [i \in 0 .. 7 |-> IF i = 7 THEN c.to.a ELSE up[i]]
      <4>1. P.s = Motion(c.from, c.t, Rest, a, None)
        BY <3>2 DEF ProfileOf, MotionOf, SecondOrderMotion
      <4>2. \A i \in 0 .. 6 : up[i] \in Int
        <5> TAKE i \in 0 .. 6
        <5>1. c.t[i] \in Nat /\ (i = 0 \/ i = 1 \/ i = 2 \/ i = 3 \/ i = 4 \/ i = 5 \/ i = 6)
          BY <1>1 DEF Timings, Pieces
        <5>2. c.t[i] = 0 \/ c.t[i] > 0
          BY <5>1
        <5>3. c.a_up \in Int /\ c.a_down \in Int
          BY <3>2 DEF WellFormed
        <5> QED BY <5>1, <5>2, <5>3 DEF Turning, Pieces
      <4>3. \A i \in DOMAIN a : a[i] \in Int
        <5> HIDE DEF up
        <5> QED BY <3>1, <4>2
      <4> HIDE DEF a, P
      <4> QED BY <2>0, <4>1, <4>3
    <3>3. CASE c.kind = "second velocity"
      <4> DEFINE a == [i \in 0 .. 7 |-> CASE i = 7 -> c.to.a
                                          [] i = 1 /\ c.t[1] > 0 -> c.a_up
                                          [] OTHER -> 0]
      <4>1. P.s = Motion(c.from, c.t, Rest, a, None)
        BY <3>3 DEF ProfileOf, MotionOf, SecondOrderVelocityMotion
      <4>2. \A i \in DOMAIN a : a[i] \in Int
        <5>1. c.a_up \in Int
          BY <3>3 DEF WellFormed
        <5> QED BY <3>1, <5>1
      <4> HIDE DEF a, P
      <4> QED BY <2>0, <4>1, <4>2
    <3>4. CASE c.kind = "first"
      <4> DEFINE a == [i \in 0 .. 7 |-> IF i = 7 THEN c.to.a ELSE 0]
                 v == [i \in 0 .. 7 |-> CASE i = 7 -> c.to.v
                                          [] i = 3 /\ c.t[3] > 0 -> c.v_up
                                          [] OTHER -> 0]
      <4>1. P.s = Motion(c.from, c.t, Rest, a, v)
        BY <3>4 DEF ProfileOf, MotionOf, FirstOrderMotion
      <4>2. (\A i \in DOMAIN a : a[i] \in Int) /\ (\A i \in DOMAIN v : v[i] \in Int)
        <5>1. c.v_up \in Int
          BY <3>4 DEF WellFormed
        <5> QED BY <3>1, <5>1
      <4> HIDE DEF a, v, P
      <4> QED BY <4>1, <4>2
    <3>5. c.kind \in {"second", "second velocity", "first"}
      BY <1>3 DEF WellFormed, Kinds
    <3> HIDE DEF P
    <3> QED BY <3>2, <3>3, <3>4, <3>5
  <2> HIDE DEF P
  <2>3. PICK a, v : /\ P.s = Motion(c.from, c.t, Rest, a, v)
                    /\ \A i \in DOMAIN a : a[i] \in Int
                    /\ \A i \in DOMAIN v : v[i] \in Int
    BY <2>2
  <2>4. /\ \A i \in 0 .. 7 : P.s[i] \in States
        /\ P.s[0].p = c.from.p
        /\ \A i \in Pieces : P.s[i + 1].p = Move(P.s[i], c.t[i], Rest[i]).p
    BY <1>1, <2>1, <2>3, MotionJoins
  <2> QED BY <1>3, <2>1, <2>4 DEF P
<1> QED BY <1>2, <1>3

\* A profile of the solvers is joined from its brake to its end.
LEMMA ProfileJoined ==
  ASSUME NEW c, WellFormed(c), c.kind # "disabled", NEW what, Carries(c.kind, what)
  PROVE  Joined(ProfileOf(c), c.start, what)
<1> DEFINE P == ProfileOf(c)
<1>1. P.t = c.t /\ P.brake = c.brake
  BY DEF ProfileOf
<1>2. /\ c.t \in Timings /\ c.brake.t \in Nat \X Nat /\ c.brake.j \in Int \X Int
      /\ c.start \in States /\ c.from = c.brake.to
  BY DEF WellFormed
<1>3. /\ c.brake.s[1] = BrakeStart(c)
      /\ c.brake.s[2] = Move(c.brake.s[1], c.brake.t[1], c.brake.j[1])
      /\ c.brake.to = Move(c.brake.s[2], c.brake.t[2], c.brake.j[2])
      /\ c.brake.s[1] \in States /\ c.brake.s[2] \in States /\ c.brake.to \in States
  <2>1. c.brake = Braked(BrakeStart(c), c.brake.t, c.brake.j) /\ BrakeStart(c) \in States
    BY DEF WellFormed
  <2> QED BY <1>2, <2>1, BrakeJoined
<1>4. /\ P.j \in [Pieces -> Int]
      /\ \A i \in 0 .. 7 : P.s[i] \in States
      /\ P.s[0].p = c.from.p
      /\ \A i \in Pieces : P.s[i + 1].p = Move(P.s[i], c.t[i], P.j[i]).p
      /\ what = "state" => /\ P.s[0] = c.from
                 /\ \A i \in Pieces : P.s[i + 1] = Move(P.s[i], c.t[i], P.j[i])
  BY CandidateMotion DEF Carries
<1> HIDE DEF P
<1>5. \A g \in 0 .. 9 : StateOf(P, g) \in States
  BY <1>1, <1>3, <1>4 DEF StateOf
<1>6. \A g \in Segments : JerkOf(P, g) \in Int
  BY <1>1, <1>2, <1>4 DEF JerkOf, Segments, Pieces
<1>7. Agree(StateOf(P, 0), c.start, what)
  <2>1. StateOf(P, 0) = BrakeStart(c)
    BY <1>1, <1>3 DEF StateOf
  <2>2. BrakeStart(c).p = c.start.p
    BY <1>2 DEF BrakeStart, States
  <2>3. what = "state" => c.kind \in {"third", "third velocity"}
    BY DEF Carries
  <2>4. c.kind \in {"third", "third velocity"} => BrakeStart(c) = c.start
    BY DEF BrakeStart
  <2> QED BY <2>1, <2>2, <2>3, <2>4 DEF Agree
<1>8. ASSUME NEW g \in Segments
      PROVE  Agree(StateOf(P, g + 1), Move(StateOf(P, g), Lasts(P, g), JerkOf(P, g)), what)
  <2>1. CASE g = 0
    BY <1>1, <1>3, <2>1 DEF StateOf, JerkOf, Lasts, Agree
  <2>2. CASE g = 1
    BY <1>1, <1>2, <1>3, <1>4, <2>2 DEF StateOf, JerkOf, Lasts, Agree
  <2>3. CASE g \in 2 .. 8
    <3>1. g - 2 \in Pieces /\ (g + 1) - 2 = (g - 2) + 1 /\ ~ (g < 2) /\ ~ (g + 1 < 2)
      BY <2>3 DEF Pieces
    <3> QED BY <1>1, <1>4, <3>1 DEF StateOf, JerkOf, Lasts, Agree
  <2> QED BY <2>1, <2>2, <2>3 DEF Segments
<1>9. Joined(P, c.start, what)
  BY <1>1, <1>2, <1>5, <1>6, <1>7, <1>8 DEF Joined
<1> QED BY <1>9 DEF P

-----------------------------------------------------------------------------
(* Sampling a profile.                                                     *)

\* Not to move, and to move on from where a motion has come to.
LEMMA MovesAdd ==
  ASSUME NEW s \in States, NEW m \in Int, NEW j \in Int
  PROVE  /\ Move(s, 0, j) = s
         /\ Move(s, m + 1, j) = Move(Move(s, m, j), 1, j)
<1>1. s.p \in Int /\ s.v \in Int /\ s.a \in Int /\ s = [p |-> s.p, v |-> s.v, a |-> s.a]
  BY DEF States
<1>2. Move(s, 0, j) = s
  BY <1>1 DEF Move
<1> DEFINE x == s.p
           y == s.v
           z == s.a
<1> HIDE DEF x, y, z
<1>3. x \in Int /\ y \in Int /\ z \in Int
  BY <1>1 DEF x, y, z
<1>4. y + 2 * z * (m + 1) + j * (m + 1) * (m + 1)
        = (y + 2 * z * m + j * m * m) + 2 * (z + j * m) * 1 + j * 1 * 1
  BY <1>3
<1>5. z + j * (m + 1) = (z + j * m) + j * 1
  BY <1>3
<1>6. x + 3 * y * (m + 1) + 3 * z * (m + 1) * (m + 1) + j * (m + 1) * (m + 1) * (m + 1)
        = (x + 3 * y * m + 3 * z * m * m + j * m * m * m)
          + 3 * (y + 2 * z * m + j * m * m) * 1 + 3 * (z + j * m) * 1 * 1 + j * 1 * 1 * 1
  BY <1>3
<1>7. Move(s, m + 1, j) = Move(Move(s, m, j), 1, j)
  BY <1>4, <1>5, <1>6 DEF Move, x, y, z
<1> QED BY <1>2, <1>7

\* Before its end a profile is in one of its segments.
LEMMA SegmentFound ==
  ASSUME NEW P, NEW start, NEW what, Joined(P, start, what),
         NEW at \in Nat, at < Ends(P)
  PROVE  \E g \in Segments :
           /\ Begin(P, g) <= at /\ at < Begin(P, g + 1)
           /\ StateAt(P, at) =
                With(Move(StateOf(P, g), at - Begin(P, g), JerkOf(P, g)), JerkOf(P, g))
<1> DEFINE brake == P.brake
           local == at - BrakeDuration(brake)
<1>1. /\ P.t \in Timings /\ P.brake.t \in Nat \X Nat
  BY DEF Joined
<1>2. /\ brake.t[1] \in Nat /\ brake.t[2] \in Nat
      /\ BrakeDuration(brake) = brake.t[1] + brake.t[2]
      /\ BrakeDuration(brake) \in Nat
  BY <1>1 DEF BrakeDuration
<1>3. /\ \A i \in 0 .. 7 : Start(P.t, i) \in Nat
      /\ Start(P.t, 0) = 0 /\ Duration(P.t) = Start(P.t, 7)
      /\ Ends(P) = BrakeDuration(brake) + Duration(P.t)
  BY <1>1, StartTypes, StartSums DEF Ends
<1>4. CASE at < brake.t[1]
  <2>1. 0 \in Segments /\ Begin(P, 0) = 0 /\ Begin(P, 0 + 1) = brake.t[1]
    BY DEF Segments, Begin
  <2>2. StateAt(P, at) = With(Move(StateOf(P, 0), at - 0, JerkOf(P, 0)), JerkOf(P, 0))
    <3>1. ~ (brake.t[1] <= at) /\ ~ (local >= Duration(P.t))
      BY <1>2, <1>3, <1>4
    <3>2. StateAt(P, at) = With(Move(brake.s[1], at, brake.j[1]), brake.j[1])
      BY <1>4, <3>1 DEF StateAt
    <3> QED BY <3>2 DEF StateOf, JerkOf
  <2> QED BY <1>4, <2>1, <2>2
<1>5. CASE brake.t[1] <= at /\ at < BrakeDuration(brake)
  <2>1. /\ 1 \in Segments /\ Begin(P, 1) = brake.t[1]
        /\ Begin(P, 1 + 1) = BrakeDuration(brake) + Start(P.t, 0)
    BY DEF Segments, Begin
  <2>2. StateAt(P, at) = With(Move(StateOf(P, 1), at - Begin(P, 1), JerkOf(P, 1)), JerkOf(P, 1))
    <3>1. ~ (at < brake.t[1]) /\ ~ (local >= Duration(P.t))
      BY <1>2, <1>3, <1>5
    <3>2. StateAt(P, at) = With(Move(brake.s[2], at - brake.t[1], brake.j[2]), brake.j[2])
      BY <1>5, <3>1 DEF StateAt
    <3> QED BY <2>1, <3>2 DEF StateOf, JerkOf
  <2> QED BY <1>2, <1>3, <1>5, <2>1, <2>2
<1>6. CASE BrakeDuration(brake) <= at
  <2> DEFINE i == Piece(P.t, local)
             In(k) == Start(P.t, k) <= local /\ local < Start(P.t, k + 1)
  <2>1. local \in Nat /\ local < Start(P.t, 7)
    BY <1>2, <1>3, <1>6
  <2>2. \E k \in Pieces : In(k)
    <3> HIDE DEF local
    <3>1. \A k \in Pieces : Start(P.t, k) <= local \/ local < Start(P.t, k)
      BY <1>3, <2>1 DEF Pieces
    <3>2. Start(P.t, 0) <= local
      BY <1>3, <2>1
    <3> DEFINE S(k) == Start(P.t, k)
    <3>3. /\ S(0) \in Nat /\ S(1) \in Nat /\ S(2) \in Nat /\ S(3) \in Nat /\ S(4) \in Nat
          /\ S(5) \in Nat /\ S(6) \in Nat /\ S(7) \in Nat
      BY <1>3
    <3>4. In(0) \/ In(1) \/ In(2) \/ In(3) \/ In(4) \/ In(5) \/ In(6)
      BY <2>1, <3>2, <3>3
    <3> QED BY <3>4 DEF Pieces
  <2>3. i \in Pieces /\ In(i)
    BY <2>2 DEF Piece
  <2>4. StateAt(P, at) = With(Move(P.s[i], local - Start(P.t, i), P.j[i]), P.j[i])
    <3>1. ~ (at < brake.t[1]) /\ ~ (at < BrakeDuration(brake)) /\ ~ (local >= Duration(P.t))
      BY <1>2, <1>3, <1>6, <2>1
    <3> QED BY <3>1 DEF StateAt
  <2> HIDE DEF i, local
  <2>5. i + 2 \in Segments /\ ~ (i + 2 < 2) /\ ~ ((i + 2) + 1 < 2) /\ i \in 0 .. 6
        /\ (i + 2) - 2 = i /\ ((i + 2) + 1) - 2 = i + 1 /\ i + 1 \in 0 .. 7
    BY <2>3 DEF Pieces, Segments
  <2>6. /\ Begin(P, i + 2) = BrakeDuration(brake) + Start(P.t, i)
        /\ Begin(P, (i + 2) + 1) = BrakeDuration(brake) + Start(P.t, i + 1)
        /\ StateOf(P, i + 2) = P.s[i] /\ JerkOf(P, i + 2) = P.j[i]
    BY <2>5 DEF Begin, StateOf, JerkOf
  <2>7. at - Begin(P, i + 2) = local - Start(P.t, i)
    BY <1>2, <1>3, <2>5, <2>6 DEF local
  <2>8. Begin(P, i + 2) <= at /\ at < Begin(P, (i + 2) + 1)
    BY <1>2, <1>3, <2>3, <2>5, <2>6 DEF local
  <2> QED BY <2>4, <2>5, <2>6, <2>7, <2>8
<1> QED BY <1>2, <1>4, <1>5, <1>6

\* Later segments begin later.
LEMMA BeginGrows ==
  ASSUME NEW P, NEW start, NEW what, Joined(P, start, what),
         NEW g \in 0 .. 9, NEW h \in g .. 9
  PROVE  Begin(P, g) <= Begin(P, h)
<1>0. /\ \A k \in Segments : Begin(P, k + 1) = Begin(P, k) + Lasts(P, k)
      /\ \A k \in Segments : Lasts(P, k) \in Nat
      /\ \A k \in 0 .. 9 : Begin(P, k) \in Nat
  BY BeginSums DEF Joined
<1>1. \A k \in g .. 9 : Begin(P, g) <= Begin(P, k)
  <2> DEFINE Bad == {k \in g .. 9 : ~ (Begin(P, g) <= Begin(P, k))}
  <2>1. ASSUME Bad # {} PROVE FALSE
    <3>1. PICK m \in Bad : \A l \in Bad : m <= l
      <4>1. Bad \in SUBSET Nat OBVIOUS
      <4> HIDE DEF Bad
      <4> QED BY <2>1, <4>1, LeastNatural
    <3>2. m # g
      BY <1>0
    <3>3. m - 1 \in g .. 9 /\ m - 1 \in Segments /\ ~ (m <= m - 1) /\ (m - 1) + 1 = m /\ m - 1 \in 0 .. 9
      BY <3>2 DEF Segments
    <3>4. Begin(P, g) <= Begin(P, m - 1)
      BY <3>1, <3>3
    <3>5. Begin(P, m) = Begin(P, m - 1) + Lasts(P, m - 1) /\ Lasts(P, m - 1) \in Nat
      BY <1>0, <3>3
    <3>6. Begin(P, g) <= Begin(P, m)
      BY <1>0, <3>3, <3>4, <3>5
    <3> QED BY <3>6
  <2> QED BY <2>1
<1> QED BY <1>1

\* Segments without time between them are at one state.
LEMMA SameBetween ==
  ASSUME NEW P, NEW start, NEW what, Joined(P, start, what),
         NEW g \in 0 .. 9, NEW h \in g .. 9, Begin(P, h) = Begin(P, g)
  PROVE  Agree(StateOf(P, h), StateOf(P, g), what)
<1>0. /\ \A k \in Segments : Begin(P, k + 1) = Begin(P, k) + Lasts(P, k)
      /\ \A k \in Segments : Lasts(P, k) \in Nat
      /\ \A k \in 0 .. 9 : Begin(P, k) \in Nat
  BY BeginSums DEF Joined
<1>1. \A k \in g .. 9 : Begin(P, g) <= Begin(P, k)
  BY BeginGrows
<1> DEFINE Bad == {k \in g .. 9 : Begin(P, k) = Begin(P, g) /\ ~ Agree(StateOf(P, k), StateOf(P, g), what)}
<1>2. ASSUME Bad # {} PROVE FALSE
  <2>1. PICK m \in Bad : \A l \in Bad : m <= l
    <3>1. Bad \in SUBSET Nat OBVIOUS
    <3> HIDE DEF Bad
    <3> QED BY <1>2, <3>1, LeastNatural
  <2>2. m # g
    BY DEF Agree
  <2>3. m - 1 \in g .. 9 /\ m - 1 \in Segments /\ ~ (m <= m - 1) /\ (m - 1) + 1 = m /\ m - 1 \in 0 .. 9
        /\ m \in 0 .. 9
    BY <2>2 DEF Segments
  <2>4. Begin(P, m - 1) = Begin(P, g) /\ Lasts(P, m - 1) = 0
    <3>1. Begin(P, m) = Begin(P, m - 1) + Lasts(P, m - 1) /\ Lasts(P, m - 1) \in Nat
          /\ Begin(P, g) <= Begin(P, m - 1) /\ Begin(P, m - 1) \in Nat /\ Begin(P, g) \in Nat
          /\ Begin(P, m) = Begin(P, g)
      BY <1>0, <1>1, <2>3
    <3> QED BY <3>1
  <2>5. Agree(StateOf(P, m - 1), StateOf(P, g), what)
    BY <2>1, <2>3, <2>4
  <2>6. Agree(StateOf(P, m), StateOf(P, m - 1), what)
    <3>1. /\ StateOf(P, m - 1) \in States /\ JerkOf(P, m - 1) \in Int
          /\ Agree(StateOf(P, (m - 1) + 1), Move(StateOf(P, m - 1), Lasts(P, m - 1), JerkOf(P, m - 1)), what)
      BY <2>3 DEF Joined
    <3>2. Move(StateOf(P, m - 1), 0, JerkOf(P, m - 1)) = StateOf(P, m - 1)
      BY <3>1, MovesAdd
    <3> QED BY <2>3, <2>4, <3>1, <3>2
  <2> QED BY <2>1, <2>5, <2>6 DEF Agree
<1> QED BY <1>2

\* At its end a profile is in its last state, and goes on from there.
LEMMA StateAtEnd ==
  ASSUME NEW P, NEW start, NEW what, Joined(P, start, what),
         NEW at \in Nat, Ends(P) <= at
  PROVE  StateAt(P, at) = With(Move(StateOf(P, 9), at - Ends(P), 0), 0)
<1> DEFINE brake == P.brake
           local == at - BrakeDuration(brake)
<1>1. /\ brake.t[1] \in Nat /\ brake.t[2] \in Nat /\ P.t \in Timings
      /\ BrakeDuration(brake) = brake.t[1] + brake.t[2]
      /\ Ends(P) = BrakeDuration(brake) + Duration(P.t)
      /\ Duration(P.t) \in Nat
  BY StartTypes DEF Joined, BrakeDuration, Ends
<1>2. /\ ~ (at < brake.t[1]) /\ ~ (at < BrakeDuration(brake)) /\ local >= Duration(P.t)
      /\ local - Duration(P.t) = at - Ends(P)
  BY <1>1
<1>3. StateAt(P, at) = With(Move(P.s[7], local - Duration(P.t), 0), 0)
  BY <1>2 DEF StateAt
<1> QED BY <1>2, <1>3 DEF StateOf

\* At any time of a segment, its ends included, the profile is where the
\* segment moves to: at its end the next one has taken over.
LEMMA StateInSegment ==
  ASSUME NEW P, NEW start, NEW what, Joined(P, start, what),
         NEW g \in Segments, NEW at \in Nat,
         Begin(P, g) <= at, at <= Begin(P, g + 1)
  PROVE  Agree(StateAt(P, at), Move(StateOf(P, g), at - Begin(P, g), JerkOf(P, g)), what)
<1>0. /\ \A k \in Segments : Begin(P, k + 1) = Begin(P, k) + Lasts(P, k)
      /\ \A k \in Segments : Lasts(P, k) \in Nat
      /\ \A k \in 0 .. 9 : Begin(P, k) \in Nat
      /\ Begin(P, 9) = Ends(P) /\ Ends(P) \in Nat
      /\ g \in 0 .. 9 /\ g + 1 \in 0 .. 9
  BY BeginSums DEF Joined, Segments
<1> DEFINE moved == Move(StateOf(P, g), at - Begin(P, g), JerkOf(P, g))
\* The end of the segment is the beginning of any that begins there.
<1>1. ASSUME NEW h \in g + 1 .. 9, Begin(P, h) = at
      PROVE  Agree(StateOf(P, h), moved, what)
  <2>1. Begin(P, g + 1) <= Begin(P, h) /\ h \in 0 .. 9
    BY <1>0, <1>1, BeginGrows
  <2>2. Begin(P, h) = Begin(P, g + 1) /\ at - Begin(P, g) = Lasts(P, g)
    BY <1>0, <1>1, <2>1
  <2>3. Agree(StateOf(P, h), StateOf(P, g + 1), what)
    BY <1>0, <2>1, <2>2, SameBetween
  <2>4. Agree(StateOf(P, g + 1), moved, what)
    BY <2>2 DEF Joined
  <2> QED BY <2>3, <2>4 DEF Agree
<1>2. CASE at < Ends(P)
  <2>1. PICK h \in Segments :
          /\ Begin(P, h) <= at /\ at < Begin(P, h + 1)
          /\ StateAt(P, at) =
               With(Move(StateOf(P, h), at - Begin(P, h), JerkOf(P, h)), JerkOf(P, h))
    BY <1>2, SegmentFound
  <2>2. h \in 0 .. 9 /\ h + 1 \in 0 .. 9
    BY DEF Segments
  <2>3. CASE h = g
    BY <2>1, <2>3 DEF Agree, With
  <2>4. CASE h < g
    <3>1. Begin(P, h + 1) <= Begin(P, g)
      <4>1. g \in h + 1 .. 9
        BY <1>0, <2>2, <2>4
      <4> QED BY <2>2, <4>1, BeginGrows
    <3> QED BY <1>0, <2>1, <2>2, <3>1
  <2>5. CASE h > g
    <3>1. Begin(P, g + 1) <= Begin(P, h) /\ h \in g + 1 .. 9
      <4>1. h \in g + 1 .. 9
        BY <1>0, <2>2, <2>5
      <4> QED BY <1>0, <4>1, BeginGrows
    <3>2. Begin(P, h) = at
      BY <1>0, <2>1, <2>2, <3>1
    <3>3. Agree(StateOf(P, h), moved, what)
      BY <1>1, <3>1, <3>2
    <3>4. StateAt(P, at) = With(StateOf(P, h), JerkOf(P, h))
      <4>1. StateOf(P, h) \in States /\ JerkOf(P, h) \in Int /\ at - Begin(P, h) = 0
        BY <2>2, <3>2 DEF Joined
      <4> QED BY <2>1, <4>1, MovesAdd
    <3> QED BY <3>3, <3>4 DEF Agree, With
  <2> QED BY <1>0, <2>2, <2>3, <2>4, <2>5
<1>3. CASE ~ (at < Ends(P))
  <2>1. Begin(P, g + 1) <= Begin(P, 9)
    <3>1. 9 \in g + 1 .. 9
      BY <1>0
    <3> QED BY <1>0, <3>1, BeginGrows
  <2>2. at = Ends(P) /\ Begin(P, 9) = at /\ 9 \in g + 1 .. 9
    BY <1>0, <1>3, <2>1
  <2>3. Agree(StateOf(P, 9), moved, what)
    BY <1>1, <2>2
  <2>4. StateAt(P, at) = With(StateOf(P, 9), 0)
    <3>1. StateAt(P, at) = With(Move(StateOf(P, 9), at - Ends(P), 0), 0)
      BY <2>2, StateAtEnd
    <3>2. StateOf(P, 9) \in States /\ at - Ends(P) = 0
      BY <2>2 DEF Joined
    <3> QED BY <3>1, <3>2, MovesAdd
  <2> QED BY <2>3, <2>4 DEF Agree, With
<1> QED BY <1>2, <1>3

\* A profile begins where it starts, ends in its last state, and each tick
\* moves it by the motion it shows.
LEMMA ProfileTicks ==
  ASSUME NEW P, NEW start, NEW what, Joined(P, start, what)
  PROVE  /\ Agree(StateAt(P, 0), start, what)
         /\ Agree(StateAt(P, Ends(P)), StateOf(P, 9), what)
         /\ \A at \in Nat :
              Agree(StateAt(P, at + 1), Move(StateAt(P, at), 1, StateAt(P, at).j), what)
<1>0. /\ \A k \in 0 .. 9 : Begin(P, k) \in Nat
      /\ Begin(P, 0) = 0 /\ Begin(P, 9) = Ends(P) /\ Ends(P) \in Nat
      /\ \A g \in 0 .. 9 : StateOf(P, g) \in States
      /\ \A g \in Segments : JerkOf(P, g) \in Int
      /\ 0 \in Segments /\ 0 + 1 \in 0 .. 9
  BY BeginSums DEF Joined, Segments
<1>1. Agree(StateAt(P, 0), start, what)
  <2>1. Begin(P, 0) <= 0 /\ 0 <= Begin(P, 0 + 1)
    BY <1>0
  <2>2. Agree(StateAt(P, 0), Move(StateOf(P, 0), 0 - Begin(P, 0), JerkOf(P, 0)), what)
    BY <1>0, <2>1, StateInSegment
  <2>3. Move(StateOf(P, 0), 0 - Begin(P, 0), JerkOf(P, 0)) = StateOf(P, 0)
    <3>1. StateOf(P, 0) \in States /\ JerkOf(P, 0) \in Int /\ 0 - Begin(P, 0) = 0
      BY <1>0
    <3> QED BY <3>1, MovesAdd
  <2>4. Agree(StateOf(P, 0), start, what)
    BY DEF Joined
  <2> QED BY <2>2, <2>3, <2>4 DEF Agree
<1>2. Agree(StateAt(P, Ends(P)), StateOf(P, 9), what)
  <2>1. StateAt(P, Ends(P)) = With(Move(StateOf(P, 9), Ends(P) - Ends(P), 0), 0)
    BY <1>0, StateAtEnd
  <2>2. Move(StateOf(P, 9), Ends(P) - Ends(P), 0) = StateOf(P, 9)
    <3>1. StateOf(P, 9) \in States /\ Ends(P) - Ends(P) = 0
      BY <1>0
    <3> QED BY <3>1, MovesAdd
  <2> QED BY <2>1, <2>2 DEF Agree, With
<1>3. ASSUME NEW x, NEW n, NEW j
      PROVE  /\ Move(With(x, j), n, j) = Move(x, n, j) /\ With(x, j).j = j
             /\ Agree(With(x, j), x, what)
  BY DEF Move, With, Agree
<1>4. ASSUME NEW at \in Nat
      PROVE  Agree(StateAt(P, at + 1), Move(StateAt(P, at), 1, StateAt(P, at).j), what)
  <2>1. CASE at < Ends(P)
    <3>1. PICK g \in Segments :
            /\ Begin(P, g) <= at /\ at < Begin(P, g + 1)
            /\ StateAt(P, at) =
                 With(Move(StateOf(P, g), at - Begin(P, g), JerkOf(P, g)), JerkOf(P, g))
      BY <2>1, SegmentFound
    <3>2. g \in 0 .. 9 /\ g + 1 \in 0 .. 9
      BY DEF Segments
    <3>3. Agree(StateAt(P, at + 1), Move(StateOf(P, g), (at + 1) - Begin(P, g), JerkOf(P, g)), what)
      <4>1. at + 1 \in Nat /\ Begin(P, g) <= at + 1 /\ at + 1 <= Begin(P, g + 1)
        BY <1>0, <3>1, <3>2
      <4> QED BY <4>1, StateInSegment
    <3>4. Move(StateOf(P, g), (at + 1) - Begin(P, g), JerkOf(P, g))
            = Move(Move(StateOf(P, g), at - Begin(P, g), JerkOf(P, g)), 1, JerkOf(P, g))
      <4>1. /\ (at + 1) - Begin(P, g) = (at - Begin(P, g)) + 1 /\ at - Begin(P, g) \in Int
            /\ StateOf(P, g) \in States /\ JerkOf(P, g) \in Int
        BY <1>0, <3>2
      <4> QED BY <4>1, MovesAdd
    <3> QED BY <1>3, <3>1, <3>3, <3>4
  <2>2. CASE ~ (at < Ends(P))
    <3>1. /\ Ends(P) <= at /\ Ends(P) <= at + 1 /\ at + 1 \in Nat
          /\ (at + 1) - Ends(P) = (at - Ends(P)) + 1 /\ at - Ends(P) \in Int
          /\ StateOf(P, 9) \in States
      BY <1>0, <2>2
    <3>2. /\ StateAt(P, at) = With(Move(StateOf(P, 9), at - Ends(P), 0), 0)
          /\ StateAt(P, at + 1) = With(Move(StateOf(P, 9), (at + 1) - Ends(P), 0), 0)
      BY <3>1, StateAtEnd
    <3>3. Move(StateOf(P, 9), (at + 1) - Ends(P), 0)
            = Move(Move(StateOf(P, 9), at - Ends(P), 0), 1, 0)
      BY <3>1, MovesAdd
    <3> QED BY <1>3, <3>2, <3>3
  <2> QED BY <2>1, <2>2
<1> QED BY <1>1, <1>2, <1>4

-----------------------------------------------------------------------------
(* The sections of a trajectory.                                           *)

ProfilesOf(choice) == [d \in Dofs |-> ProfileOf(choice[d])]

\* A section is one of the proposals, lasts as long as each of its profiles,
\* and starts where the one before it ends.
Written(k, choice) ==
  /\ sections[k] = ProfilesOf(choice)
  /\ \A d \in Dofs : From(k) + Ends(sections[k][d]) = until[k]
  /\ k > 1 => \A d \in Dofs : choice[d].start = sections[k - 1][d].s[7]
  /\ waypoints > 0 => Respects(sections[k])

SectionInv ==
  /\ waypoints \in WaypointCounts
  /\ sections \in Seq({ProfilesOf(choice) : choice \in Proposals(waypoints)})
  /\ until \in Seq(Nat)
  /\ Len(until) = Len(sections)
  /\ \A k \in 1 .. Len(sections) : \E choice \in Proposals(waypoints) : Written(k, choice)

SampleInv ==
  /\ valid \in BOOLEAN /\ time \in Nat
  /\ valid => Len(sections) = waypoints + 1 /\ sample = AtTime(time)
  /\ ~valid => time = 0 /\ sample = Blank

TrajectoryInv == SectionInv /\ SampleInv

\* Every section is joined within, and to the one before it.
Chained(d, what) ==
  \A k \in 1 .. Len(sections) : \E start :
    /\ Joined(sections[k][d], start, what)
    /\ k > 1 => start = StateOf(sections[k - 1][d], 9)

\* What a degree of freedom carries on over all sections.
Carried(d, what) == what = "state" => ThirdOrder(d)

\* The written sections are profiles that are joined within, and the code has
\* each start where the one before it ends.
LEMMA SectionsChained ==
  ASSUME SectionInv, Together, NEW d \in Dofs, NEW what, Carried(d, what)
  PROVE  Chained(d, what)
<1> SUFFICES ASSUME NEW k \in 1 .. Len(sections)
             PROVE  \E start : /\ Joined(sections[k][d], start, what)
                               /\ k > 1 => start = StateOf(sections[k - 1][d], 9)
  BY DEF Chained
<1>1. PICK choice \in Proposals(waypoints) : Written(k, choice)
  BY DEF SectionInv
<1> DEFINE c == choice[d]
<1>2. WellFormed(c) /\ c.kind # "disabled"
  BY TrajectoryAssumption DEF SectionInv, Together
<1>3. sections[k][d] = ProfileOf(c)
  BY <1>1 DEF Written, ProfilesOf
<1>4. Carries(c.kind, what)
  <2>1. CASE what # "state"
    BY <2>1 DEF Carries
  <2>2. CASE what = "state"
    <3>1. k \in DOMAIN sections
      BY DEF SectionInv
    <3>2. PICK i \in Pieces : ProfileOf(c).j[i] # 0
      BY <1>3, <2>2, <3>1 DEF Carried, ThirdOrder
    <3>3. c.kind \notin {"third", "third velocity"} => ProfileOf(c).j = Rest
      BY DEF ProfileOf
    <3>4. c.kind \in {"third", "third velocity"}
      BY <3>2, <3>3 DEF Rest
    <3> QED BY <3>4 DEF Carries
  <2> QED BY <2>1, <2>2
<1>5. Joined(sections[k][d], c.start, what)
  BY <1>2, <1>3, <1>4, ProfileJoined
<1>6. k > 1 => c.start = StateOf(sections[k - 1][d], 9)
  BY <1>1 DEF Written, StateOf
<1> QED BY <1>5, <1>6

\* Sections end in order, each when its profiles do.
LEMMA SectionTimes ==
  ASSUME SectionInv, Together
  PROVE  /\ Len(sections) \in Nat /\ DOMAIN sections = 1 .. Len(sections)
         /\ DOMAIN until = 1 .. Len(sections)
         /\ \A k \in 1 .. Len(sections) :
              /\ From(k) \in Nat /\ until[k] \in Nat /\ From(k) <= until[k]
              /\ \A d \in Dofs : Ends(sections[k][d]) = until[k] - From(k)
<1>1. /\ Len(sections) \in Nat /\ DOMAIN sections = 1 .. Len(sections)
      /\ DOMAIN until = 1 .. Len(sections)
      /\ \A k \in 1 .. Len(sections) : until[k] \in Nat
  BY DEF SectionInv
<1>2. ASSUME NEW k \in 1 .. Len(sections)
      PROVE  /\ From(k) \in Nat /\ until[k] \in Nat /\ From(k) <= until[k]
             /\ \A d \in Dofs : Ends(sections[k][d]) = until[k] - From(k)
  <2>1. From(k) \in Nat
    <3>1. k # 1 => k - 1 \in 1 .. Len(sections)
      BY <1>1
    <3> QED BY <1>1, <3>1 DEF From
  <2>2. ASSUME NEW d \in Dofs
        PROVE  /\ Ends(sections[k][d]) \in Nat
               /\ From(k) + Ends(sections[k][d]) = until[k]
    <3>1. PICK start : Joined(sections[k][d], start, "position")
      <4>1. Carried(d, "position")
        BY DEF Carried
      <4> QED BY <4>1, SectionsChained DEF Chained
    <3>2. Ends(sections[k][d]) \in Nat
      BY <3>1, BeginSums DEF Joined
    <3> QED BY <3>2 DEF SectionInv, Written
  <2>3. PICK d : d \in Dofs
    BY TrajectoryAssumption
  <2> QED BY <1>1, <2>1, <2>2, <2>3
<1> QED BY <1>1, <1>2

\* A later section ends no sooner.
LEMMA UntilGrows ==
  ASSUME SectionInv, Together, NEW k \in 1 .. Len(sections), NEW l \in k .. Len(sections)
  PROVE  until[k] <= until[l]
<1> DEFINE n == Len(sections)
           Bad == {m \in k .. n : ~ (until[k] <= until[m])}
<1>0. /\ n \in Nat
      /\ \A m \in 1 .. n : until[m] \in Nat /\ From(m) <= until[m]
  BY SectionTimes
<1>1. ASSUME Bad # {} PROVE FALSE
  <2>1. PICK m \in Bad : \A x \in Bad : m <= x
    <3>1. Bad \in SUBSET Nat BY <1>0
    <3> HIDE DEF Bad
    <3> QED BY <1>1, <3>1, LeastNatural
  <2>2. m # k
    BY <1>0
  <2>3. m - 1 \in k .. n /\ m - 1 \in 1 .. n /\ m \in 1 .. n /\ m # 1 /\ ~ (m <= m - 1)
    BY <1>0, <2>2
  <2>4. until[k] <= until[m - 1]
    BY <2>1, <2>3
  <2>5. until[m - 1] <= until[m]
    BY <1>0, <2>3 DEF From
  <2>6. until[k] <= until[m]
    <3>1. until[k] \in Nat /\ until[m - 1] \in Nat /\ until[m] \in Nat
      BY <1>0, <2>3
    <3> QED BY <2>4, <2>5, <3>1
  <2> QED BY <2>6
<1>2. l \notin Bad
  BY <1>1
<1> QED BY <1>2

\* The section under way: times before it are over, its own is not, unless
\* it is the last.
LEMMA SectionFound ==
  ASSUME SectionInv, Together, sections # <<>>, NEW at \in Nat
  PROVE  LET K == SectionAt(at)
         IN  /\ K \in 1 .. Len(sections)
             /\ at < until[K] \/ K = Len(sections)
             /\ \A k \in 1 .. Len(sections) : k < K => until[k] <= at
             /\ From(K) <= at
<1> DEFINE n == Len(sections)
           later == {k \in DOMAIN until : at < until[k]} \cup {Last}
           K == SectionAt(at)
<1>0. /\ n \in Nat \ {0} /\ DOMAIN until = 1 .. n /\ Last = n
      /\ \A k \in 1 .. n : until[k] \in Nat
  <2>1. Len(sections) # 0
    BY DEF SectionInv
  <2> QED BY <2>1, SectionTimes DEF Last
<1>1. PICK m \in later : \A x \in later : m <= x
  <2>1. later \in SUBSET Nat /\ later # {}
    BY <1>0
  <2> HIDE DEF later
  <2> QED BY <2>1, LeastNatural
<1>2. K \in later /\ \A x \in later : K <= x
  <2>1. K = CHOOSE x \in later : \A y \in later : x <= y
    BY DEF SectionAt, Min
  <2> HIDE DEF later, K
  <2> QED BY <1>1, <2>1
<1> HIDE DEF K
<1>3. K \in 1 .. n /\ (at < until[K] \/ K = n)
  BY <1>0, <1>2
<1>4. ASSUME NEW k \in 1 .. n, k < K PROVE until[k] <= at
  <2>1. k \notin later
    BY <1>2, <1>3, <1>4
  <2>2. ~ (at < until[k])
    BY <1>0, <2>1
  <2> QED BY <1>0, <2>2
<1>5. From(K) <= at
  <2>1. CASE K = 1
    BY <2>1 DEF From
  <2>2. CASE K # 1
    <3>1. K - 1 \in 1 .. n /\ K - 1 < K
      BY <1>0, <1>3, <2>2
    <3> QED BY <1>4, <2>2, <3>1 DEF From
  <2> QED BY <2>1, <2>2
<1> QED BY <1>3, <1>4, <1>5 DEF K

\* Where nothing lasts between the end of a section and the beginning of a
\* later one, the later one starts where the other ended.
LEMMA StartsWhereItEnded ==
  ASSUME SectionInv, Together, NEW d \in Dofs, NEW what, Chained(d, what),
         NEW k \in 1 .. Len(sections), NEW l \in k + 1 .. Len(sections), From(l) = until[k]
  PROVE  Agree(StateAt(sections[l][d], 0), StateAt(sections[k][d], until[k] - From(k)), what)
<1> DEFINE n == Len(sections)
           ended == StateAt(sections[k][d], until[k] - From(k))
           Bad == {m \in k + 1 .. n : From(m) = until[k] /\ ~ Agree(StateAt(sections[m][d], 0), ended, what)}
<1>0. /\ n \in Nat /\ k \in 1 .. n
      /\ \A m \in 1 .. n : /\ From(m) \in Nat /\ until[m] \in Nat /\ From(m) <= until[m]
                           /\ Ends(sections[m][d]) = until[m] - From(m)
  BY SectionTimes
<1>1. ASSUME NEW m \in 2 .. n
      PROVE  Agree(StateAt(sections[m][d], 0),
                   StateAt(sections[m - 1][d], until[m - 1] - From(m - 1)), what)
  <2>1. m \in 1 .. n /\ m - 1 \in 1 .. n /\ m > 1
    BY <1>0
  <2>2. PICK start : /\ Joined(sections[m][d], start, what)
                     /\ m > 1 => start = StateOf(sections[m - 1][d], 9)
    BY <2>1 DEF Chained
  <2>3. PICK before : Joined(sections[m - 1][d], before, what)
    BY <2>1 DEF Chained
  <2>4. Agree(StateAt(sections[m][d], 0), StateOf(sections[m - 1][d], 9), what)
    <3>1. Agree(StateAt(sections[m][d], 0), start, what)
      BY <2>2, ProfileTicks
    <3> QED BY <2>1, <2>2, <3>1
  <2>5. Agree(StateAt(sections[m - 1][d], Ends(sections[m - 1][d])), StateOf(sections[m - 1][d], 9), what)
    BY <2>3, ProfileTicks
  <2>6. Ends(sections[m - 1][d]) = until[m - 1] - From(m - 1)
    BY <1>0, <2>1
  <2> QED BY <2>4, <2>5, <2>6 DEF Agree
<1>2. ASSUME Bad # {} PROVE FALSE
  <2>1. PICK m \in Bad : \A x \in Bad : m <= x
    <3>1. Bad \in SUBSET Nat BY <1>0
    <3> HIDE DEF Bad
    <3> QED BY <1>2, <3>1, LeastNatural
  <2>2. m \in 2 .. n /\ m \in k + 1 .. n
    BY <1>0
  <2>3. CASE m = k + 1
    <3>1. m - 1 = k
      BY <1>0, <2>3
    <3> QED BY <1>1, <2>2, <3>1
  <2>4. CASE m # k + 1
    <3>1. m - 1 \in k + 1 .. n /\ m - 1 \in 1 .. n /\ ~ (m <= m - 1) /\ m \in 1 .. n /\ m # 1
          /\ k \in 1 .. n /\ m - 1 \in k .. n /\ m - 1 # 1 /\ (m - 1) - 1 \in k .. n /\ (m - 1) - 1 \in 1 .. n
      BY <1>0, <2>2, <2>4
    <3>2. until[m - 1] = until[k] /\ From(m - 1) = until[k]
      <4>1. From(m) = until[k] /\ From(m) = until[m - 1]
        BY <3>1 DEF From
      <4>2. until[k] <= From(m - 1)
        <5>1. From(m - 1) = until[(m - 1) - 1]
          BY <3>1 DEF From
        <5> QED BY <3>1, <5>1, UntilGrows
      <4>3. From(m - 1) <= until[m - 1] /\ From(m - 1) \in Nat /\ until[k] \in Nat
        BY <1>0, <3>1
      <4> QED BY <4>1, <4>2, <4>3
    <3>3. Agree(StateAt(sections[m - 1][d], 0), ended, what)
      BY <2>1, <3>1, <3>2
    <3>4. until[m - 1] - From(m - 1) = 0
      BY <1>0, <3>1, <3>2
    <3>5. Agree(StateAt(sections[m][d], 0), StateAt(sections[m - 1][d], 0), what)
      BY <1>1, <2>2, <3>4
    <3> HIDE DEF ended
    <3>6. Agree(StateAt(sections[m][d], 0), ended, what)
      BY <3>3, <3>5 DEF Agree
    <3> QED BY <2>1, <3>6
  <2> QED BY <2>3, <2>4
<1>3. l \notin Bad
  BY <1>2
<1> QED BY <1>3

\* At any time of a section, its ends included, the trajectory is where the
\* profile of the section is.
LEMMA SampleInSection ==
  ASSUME SectionInv, Together, NEW d \in Dofs, NEW what, Chained(d, what),
         NEW k \in 1 .. Len(sections), NEW at \in Nat, From(k) <= at, at <= until[k]
  PROVE  Agree(AtTime(at).states[d], StateAt(sections[k][d], at - From(k)), what)
<1> DEFINE n == Len(sections)
           K == SectionAt(at)
<1>0. /\ n \in Nat /\ sections # <<>>
      /\ \A m \in 1 .. n : From(m) \in Nat /\ until[m] \in Nat /\ From(m) <= until[m]
  <2>1. Len(sections) # 0
    BY SectionTimes
  <2> QED BY <2>1, SectionTimes
<1>1. /\ K \in 1 .. n
      /\ at < until[K] \/ K = n
      /\ \A m \in 1 .. n : m < K => until[m] <= at
      /\ From(K) <= at
  BY <1>0, SectionFound
<1>2. AtTime(at).states[d] = StateAt(sections[K][d], at - From(K))
  BY DEF AtTime
<1> HIDE DEF K
<1>3. CASE K = k
  BY <1>2, <1>3 DEF Agree
<1>4. CASE K > k
  <2>1. at = until[k]
    BY <1>0, <1>1, <1>4
  <2>2. From(K) = until[k]
    <3>1. K - 1 \in k .. n /\ K # 1
      BY <1>0, <1>1, <1>4
    <3>2. until[k] <= From(K)
      BY <3>1, UntilGrows DEF From
    <3> QED BY <1>0, <1>1, <2>1, <3>2
  <2>3. K \in k + 1 .. n
    BY <1>0, <1>1, <1>4
  <2>4. Agree(StateAt(sections[K][d], 0), StateAt(sections[k][d], until[k] - From(k)), what)
    BY <2>2, <2>3, StartsWhereItEnded
  <2>5. at - From(K) = 0
    BY <1>0, <1>1, <2>1, <2>2
  <2> QED BY <1>2, <2>1, <2>4, <2>5
<1>5. CASE K < k
  <2>1. K # n /\ k # 1 /\ k - 1 \in K .. n
    BY <1>0, <1>1, <1>5
  <2>2. until[K] <= From(k)
    <3>1. until[K] <= until[k - 1]
      BY <1>1, <2>1, UntilGrows
    <3> QED BY <2>1, <3>1 DEF From
  <2> QED BY <1>0, <1>1, <2>1, <2>2
<1> QED BY <1>0, <1>1, <1>3, <1>4, <1>5

\* One tick later a sampled trajectory has moved by the motion it showed.
LEMMA SampleTicks ==
  ASSUME SectionInv, Together, sections # <<>>,
         NEW d \in Dofs, NEW what, Chained(d, what), NEW at \in Nat
  PROVE  LET now == AtTime(at).states[d]
         IN  Agree(AtTime(at + 1).states[d], Move(now, 1, now.j), what)
<1> DEFINE n == Len(sections)
           K == SectionAt(at)
           now == AtTime(at).states[d]
<1>0. /\ n \in Nat
      /\ \A m \in 1 .. n : From(m) \in Nat /\ until[m] \in Nat /\ From(m) <= until[m]
  BY SectionTimes
<1>1. /\ K \in 1 .. n
      /\ at < until[K] \/ K = n
      /\ \A m \in 1 .. n : m < K => until[m] <= at
      /\ From(K) <= at
  BY SectionFound
<1>2. now = StateAt(sections[K][d], at - From(K))
  BY DEF AtTime
<1> HIDE DEF K
<1>3. Agree(StateAt(sections[K][d], (at - From(K)) + 1), Move(now, 1, now.j), what)
  <2>1. PICK start : Joined(sections[K][d], start, what)
    BY <1>1 DEF Chained
  <2>2. at - From(K) \in Nat
    BY <1>0, <1>1
  <2> HIDE DEF now
  <2> QED BY <1>2, <2>1, <2>2, ProfileTicks
<1>4. (at - From(K)) + 1 = (at + 1) - From(K) /\ at + 1 \in Nat
  BY <1>0, <1>1
<1>5. CASE at < until[K]
  <2>1. From(K) <= at + 1 /\ at + 1 <= until[K]
    BY <1>0, <1>1, <1>5
  <2>2. Agree(AtTime(at + 1).states[d], StateAt(sections[K][d], (at + 1) - From(K)), what)
    BY <1>1, <1>4, <2>1, SampleInSection
  <2> HIDE DEF now
  <2>3. Agree(AtTime(at + 1).states[d], Move(now, 1, now.j), what)
    BY <1>3, <1>4, <2>2 DEF Agree
  <2> QED BY <2>3 DEF now
<1>6. CASE K = n
  <2> DEFINE L == SectionAt(at + 1)
  <2>1. /\ L \in 1 .. n
        /\ at + 1 < until[L] \/ L = n
        /\ \A m \in 1 .. n : m < L => until[m] <= at + 1
    BY <1>4, SectionFound
  <2>2. AtTime(at + 1).states[d] = StateAt(sections[L][d], (at + 1) - From(L))
    BY DEF AtTime
  <2> HIDE DEF L, now
  <2>3. L = n
    BY <1>0, <1>1, <1>6, <2>1
  <2>4. Agree(AtTime(at + 1).states[d], Move(now, 1, now.j), what)
    BY <1>3, <1>4, <1>6, <2>2, <2>3
  <2> QED BY <2>4 DEF now
<1> QED BY <1>1, <1>5, <1>6

-----------------------------------------------------------------------------
(* The invariant.                                                          *)

\* A section that is written joins those before it.
LEMMA WritesSection ==
  ASSUME TrajectoryInv, Together, WriteSection
  PROVE  SectionInv'
<1> DEFINE n == Len(sections)
           S == {ProfilesOf(choice) : choice \in Proposals(waypoints)}
<1>1. PICK choice \in Proposals(waypoints) :
        LET profiles == [d \in Dofs |-> ProfileOf(choice[d])]
            Enabled  == {d \in Dofs : choice[d].kind # "disabled"}
            duration == Max({Ends(profiles[d]) : d \in Dofs})
        IN  /\ sections # <<>> =>
                 \A d \in Dofs : choice[d].start = sections[Last][d].s[7]
            /\ Synchronized => \A d \in Enabled : Ends(profiles[d]) = duration
            /\ waypoints > 0 => Respects(profiles)
            /\ sections' = Append(sections, profiles)
            /\ until' = Append(until, (IF until = <<>> THEN 0 ELSE Whole) + duration)
  BY DEF WriteSection
<1> DEFINE profiles == ProfilesOf(choice)
           duration == Max({Ends(profiles[d]) : d \in Dofs})
           before == IF until = <<>> THEN 0 ELSE Whole
<1>2. /\ waypoints' = waypoints /\ waypoints \in WaypointCounts
      /\ sections \in Seq(S) /\ until \in Seq(Nat) /\ Len(until) = n /\ n \in Nat
      /\ profiles \in S
  BY DEF WriteSection, TrajectoryInv, SectionInv
<1>3. /\ sections # <<>> => \A d \in Dofs : choice[d].start = sections[n][d].s[7]
      /\ waypoints > 0 => Respects(profiles)
      /\ sections' = Append(sections, profiles)
      /\ until' = Append(until, before + duration)
  BY <1>1 DEF ProfilesOf, Last
<1>4. ASSUME NEW d \in Dofs PROVE Ends(profiles[d]) = duration /\ Ends(profiles[d]) \in Nat
  <2>1. WellFormed(choice[d]) /\ choice[d].kind # "disabled"
    BY <1>2, TrajectoryAssumption DEF Together
  <2>2. Ends(profiles[d]) = duration
    BY <1>1, <2>1 DEF ProfilesOf, Together
  <2>3. profiles[d] = ProfileOf(choice[d])
    BY DEF ProfilesOf
  <2>4. Joined(ProfileOf(choice[d]), choice[d].start, "position")
    BY <2>1, ProfileJoined DEF Carries
  <2>5. Ends(ProfileOf(choice[d])) \in Nat
    BY <2>4, BeginSums DEF Joined
  <2> QED BY <2>2, <2>3, <2>5
<1>5. duration \in Nat
  BY <1>4, TrajectoryAssumption
<1>6. before \in Nat /\ (n # 0 => before = until[n]) /\ (n = 0 => before = 0)
  BY <1>2 DEF Whole, Last
<1> HIDE DEF S, n, profiles, duration, before
<1>7. /\ sections' \in Seq(S) /\ until' \in Seq(Nat)
      /\ Len(sections') = n + 1 /\ Len(until') = n + 1
      /\ \A k \in 1 .. n : sections'[k] = sections[k] /\ until'[k] = until[k]
      /\ sections'[n + 1] = profiles /\ until'[n + 1] = before + duration
  BY <1>2, <1>3, <1>5, <1>6 DEF n
<1>8. ASSUME NEW k \in 1 .. n + 1
      PROVE  \E other \in Proposals(waypoints) : Written(k, other)'
  <2>1. CASE k = n + 1
    <3>1. From(k)' = before
      <4>1. n # 0 => k # 1 /\ k - 1 = n /\ n \in 1 .. n
        BY <1>2, <2>1
      <4> QED BY <1>2, <1>6, <1>7, <2>1, <4>1 DEF From
    <3>2. sections'[k] = ProfilesOf(choice)
      BY <1>7, <2>1 DEF profiles
    <3>3. \A d \in Dofs : From(k)' + Ends(sections'[k][d]) = until'[k]
      BY <1>4, <1>7, <2>1, <3>1
    <3>4. k > 1 => \A d \in Dofs : choice[d].start = sections'[k - 1][d].s[7]
      <4>1. k > 1 => n \in 1 .. n /\ k - 1 = n /\ sections # <<>>
        BY <1>2, <2>1 DEF n
      <4> QED BY <1>3, <1>7, <4>1
    <3>5. waypoints' > 0 => Respects(sections'[k])
      BY <1>2, <1>3, <1>7, <2>1
    <3> QED BY <3>2, <3>3, <3>4, <3>5 DEF Written
  <2>2. CASE k # n + 1
    <3>1. k \in 1 .. n /\ (k # 1 => k - 1 \in 1 .. n)
      BY <1>2, <2>2
    <3>2. PICK other \in Proposals(waypoints) : Written(k, other)
      BY <3>1 DEF TrajectoryInv, SectionInv, n
    <3>3. From(k)' = From(k) /\ sections'[k] = sections[k] /\ until'[k] = until[k]
          /\ (k > 1 => sections'[k - 1] = sections[k - 1])
      BY <1>7, <3>1 DEF From
    <3> QED BY <1>2, <3>2, <3>3 DEF Written
  <2> QED BY <2>1, <2>2
<1> QED BY <1>2, <1>7, <1>8 DEF SectionInv, S

\* What is sampled at a time depends on the sections and their ends only.
LEMMA SameTrajectory ==
  ASSUME UNCHANGED <<sections, until>>
  PROVE  \A at : AtTime(at)' = AtTime(at)
<1> SUFFICES ASSUME NEW at PROVE AtTime(at)' = AtTime(at)
  OBVIOUS
<1>1. \A k : From(k)' = From(k)
  BY DEF From
<1>2. SectionAt(at)' = SectionAt(at) /\ Last' = Last /\ Whole' = Whole
  BY DEF SectionAt, Last, Whole
<1> QED BY <1>1, <1>2 DEF AtTime

\* The invariant holds in every state.
THEOREM TrajectoryInvariant == ASSUME Together PROVE Spec => []TrajectoryInv
<1>1. Init => TrajectoryInv
  <2> SUFFICES ASSUME Init PROVE TrajectoryInv
    OBVIOUS
  <2>1. SectionInv
    BY DEF Init, SectionInv
  <2>2. SampleInv
    BY DEF Init, SampleInv
  <2> QED BY <2>1, <2>2 DEF TrajectoryInv
<1>2. TrajectoryInv /\ [Next]_vars => TrajectoryInv'
  <2> SUFFICES ASSUME TrajectoryInv, [Next]_vars PROVE TrajectoryInv'
    OBVIOUS
  <2>1. CASE WriteSection
    <3>1. SectionInv'
      BY <2>1, WritesSection
    <3>2. SampleInv'
      BY <2>1 DEF WriteSection, TrajectoryInv, SampleInv
    <3> QED BY <3>1, <3>2 DEF TrajectoryInv
  <2>2. ASSUME UNCHANGED <<waypoints, sections, until>> PROVE SectionInv'
    <3>1. \A k : From(k)' = From(k)
      BY <2>2 DEF From
    <3>2. \A k, choice : Written(k, choice)' = Written(k, choice)
      BY <2>2, <3>1 DEF Written
    <3> QED BY <2>2, <3>2 DEF TrajectoryInv, SectionInv
  <2>3. CASE Finish
    <3>1. SectionInv'
      BY <2>2, <2>3 DEF Finish
    <3>2. time = 0 /\ time' = 0 /\ valid' = TRUE /\ Len(sections') = waypoints' + 1
      BY <2>3 DEF Finish, TrajectoryInv, SampleInv
    <3>3. AtTime(0)' = AtTime(0)
      BY <2>3, SameTrajectory DEF Finish
    <3>4. sample' = AtTime(0)'
      BY <2>3, <3>3 DEF Finish
    <3> QED BY <3>1, <3>2, <3>4 DEF TrajectoryInv, SampleInv
  <2>4. CASE Sample
    <3>1. SectionInv'
      BY <2>2, <2>4 DEF Sample
    <3>2. time \in Nat /\ time' = time + 1 /\ valid' = TRUE /\ Len(sections') = waypoints' + 1
      BY <2>4 DEF Sample, TrajectoryInv, SampleInv
    <3>3. SectionAt(time)' = SectionAt(time + 1) /\ Last' = Last /\ Whole' = Whole
      BY <2>4 DEF Sample, SectionAt, Last, Whole
    <3>4. \A k : From(k)' = From(k)
      BY <2>4 DEF Sample, From
    <3>5. sample' = AtTime(time)'
      BY <2>4, <3>3, <3>4 DEF Sample, AtTime
    <3> QED BY <3>1, <3>2, <3>5 DEF TrajectoryInv, SampleInv
  <2>5. CASE UNCHANGED vars
    <3>1. SectionInv'
      BY <2>2, <2>5 DEF vars
    <3>2. SectionAt(time)' = SectionAt(time) /\ Last' = Last /\ Whole' = Whole
      BY <2>5 DEF vars, SectionAt, Last, Whole
    <3>3. \A k : From(k)' = From(k)
      BY <2>5 DEF vars, From
    <3>4. AtTime(time)' = AtTime(time)
      BY <2>5, <3>2, <3>3 DEF vars, AtTime
    <3> QED BY <2>5, <3>1, <3>4 DEF vars, TrajectoryInv, SampleInv
  <2> QED BY <2>1, <2>3, <2>4, <2>5 DEF Next
<1> QED BY <1>1, <1>2, PTL DEF Spec

\* A complete trajectory has sections, and what was sampled last is where it is.
LEMMA Complete ==
  ASSUME TrajectoryInv, valid
  PROVE  /\ sections # <<>> /\ Len(sections) \in Nat \ {0}
         /\ time \in Nat /\ sample = AtTime(time)
<1>1. Len(sections) = waypoints + 1 /\ sample = AtTime(time) /\ time \in Nat
  BY DEF TrajectoryInv, SampleInv
<1>2. waypoints \in Nat /\ Len(sections) \in Nat
  BY TrajectoryAssumption DEF TrajectoryInv, SectionInv
<1>3. Len(sections) # 0
  BY <1>1, <1>2
<1>4. sections # <<>>
  BY <1>3
<1> QED BY <1>1, <1>2, <1>3, <1>4

\* The sections are in order, and the section told with a sample
\* (ruckig_trajectory_at_time's new section) is one there is, or the one after the last.
THEOREM TypesHold == ASSUME Together PROVE Spec => []TypeOK
<1>1. TrajectoryInv => TypeOK
  <2> SUFFICES ASSUME TrajectoryInv PROVE TypeOK
    OBVIOUS
  <2>1. SectionInv /\ SampleInv
    BY DEF TrajectoryInv
  <2>2. /\ Len(sections) \in Nat /\ DOMAIN sections = 1 .. Len(sections)
        /\ DOMAIN until = 1 .. Len(sections)
        /\ \A k \in 1 .. Len(sections) : From(k) <= until[k]
    BY <2>1, SectionTimes
  <2>3. \A k \in 1 .. Len(sections) : DOMAIN sections[k] = Dofs
    <3> TAKE k \in 1 .. Len(sections)
    <3>1. PICK choice \in Proposals(waypoints) : Written(k, choice)
      BY <2>1 DEF SectionInv
    <3> QED BY <3>1 DEF Written, ProfilesOf
  <2>4. valid \in BOOLEAN /\ time \in Nat /\ (valid => Len(sections) = waypoints + 1)
    BY <2>1 DEF SampleInv
  <2>5. CASE valid
    <3>1. sample = AtTime(time) /\ sections # <<>>
      BY <2>5, Complete
    <3>2. SectionAt(time) \in 1 .. Len(sections)
      BY <2>1, <2>4, <3>1, SectionFound
    <3>3. sample.section = Len(sections) + 1 \/ sample.section = SectionAt(time)
      BY <3>1 DEF AtTime, Last
    <3>4. sample.section \in 1 .. Last + 1
      BY <2>2, <3>2, <3>3 DEF Last
    <3> QED BY <2>2, <2>3, <2>4, <2>5, <3>4 DEF TypeOK
  <2>6. CASE ~ valid
    <3>1. sample.section = 0
      BY <2>1, <2>6 DEF SampleInv, Blank
    <3> QED BY <2>2, <2>3, <2>4, <2>6, <3>1 DEF TypeOK
  <2> QED BY <2>5, <2>6
<1>2. Spec => []TrajectoryInv
  BY TrajectoryInvariant
<1> QED BY <1>1, <1>2, PTL

\* From one sample to the next every degree of freedom moves as the sampled
\* state says: ruckig_trajectory_at_time and profile_state_at_time skip no
\* boundary between a brake, pieces, sections and the end.
THEOREM NoJumpsHolds == ASSUME Together PROVE Spec => NoJumps
<1> DEFINE Step ==
      valid => \A d \in Dofs :
        LET next == sample'.states[d]
        IN  /\ next.p = Moved(d).p
            /\ ThirdOrder(d) => [p |-> next.p, v |-> next.v, a |-> next.a] = Moved(d)
<1>1. TrajectoryInv /\ [Next]_vars => [Step]_sample
  <2> SUFFICES ASSUME TrajectoryInv, [Next]_vars, sample' # sample, valid,
                      NEW d \in Dofs
               PROVE  LET next == sample'.states[d]
                      IN  /\ next.p = Moved(d).p
                          /\ ThirdOrder(d) =>
                               [p |-> next.p, v |-> next.v, a |-> next.a] = Moved(d)
    OBVIOUS
  <2>1. /\ sections # <<>> /\ time \in Nat
        /\ sample = AtTime(time) /\ sample' = AtTime(time + 1)
    <3>1. Sample
      BY DEF Next, WriteSection, Finish, vars
    <3> QED BY <3>1, Complete DEF Sample
  <2>2. ASSUME NEW what, Carried(d, what)
        PROVE  Agree(sample'.states[d], Moved(d), what)
    <3>1. SectionInv /\ Chained(d, what)
      BY <2>2, SectionsChained DEF TrajectoryInv
    <3> QED BY <2>1, <3>1, SampleTicks DEF Moved
  <2>3. sample'.states[d].p = Moved(d).p
    BY <2>2 DEF Carried, Agree
  <2>4. ASSUME ThirdOrder(d)
        PROVE  /\ sample'.states[d].v = Moved(d).v
               /\ sample'.states[d].a = Moved(d).a
    BY <2>2, <2>4 DEF Carried, Agree
  <2>5. Moved(d) = [p |-> Moved(d).p, v |-> Moved(d).v, a |-> Moved(d).a]
    BY DEF Moved, Move
  <2> QED BY <2>3, <2>4, <2>5
<1>2. Spec => []TrajectoryInv
  BY TrajectoryInvariant
<1> QED BY <1>1, <1>2, PTL DEF Spec, NoJumps

-----------------------------------------------------------------------------
(* Least and greatest.                                                     *)

\* Of finitely many numbers one is the greatest, and the last such.
LEMMA GreatestOf ==
  ASSUME NEW n \in Nat, NEW f \in [0 .. n -> Int]
  PROVE  \E k \in 0 .. n : \A l \in 0 .. n : f[l] <= f[k] /\ (l > k => f[l] < f[k])
<1> DEFINE Tops(m) == \E k \in 0 .. m : \A l \in 0 .. m : f[l] <= f[k] /\ (l > k => f[l] < f[k])
           Bad == {m \in 0 .. n : ~ Tops(m)}
<1>1. ASSUME Bad # {} PROVE FALSE
  <2>1. PICK m \in Bad : \A l \in Bad : m <= l
    <3>1. Bad \in SUBSET Nat
      OBVIOUS
    <3> HIDE DEF Bad
    <3> QED BY <1>1, <3>1, LeastNatural
  <2>2. m # 0
    <3>1. Tops(0)
      OBVIOUS
    <3> QED BY <2>1, <3>1
  <2>3. m \in 1 .. n /\ m - 1 \in 0 .. n /\ Tops(m - 1)
    <3>1. m \in 1 .. n /\ m - 1 \in 0 .. n /\ ~ (m <= m - 1)
      BY <2>2
    <3>2. m - 1 \notin Bad
      BY <2>1, <3>1
    <3> HIDE DEF Tops
    <3> QED BY <3>1, <3>2
  <2>4. PICK k \in 0 .. m - 1 :
          \A l \in 0 .. m - 1 : f[l] <= f[k] /\ (l > k => f[l] < f[k])
    BY <2>3
  <2>5. \A l \in 0 .. n : f[l] \in Int
    OBVIOUS
  <2>6. \A l \in 0 .. m : l = m \/ l \in 0 .. m - 1
    BY <2>3
  <2>7. CASE f[m] < f[k]
    <3>1. k \in 0 .. m /\ \A l \in 0 .. m : f[l] <= f[k] /\ (l > k => f[l] < f[k])
      BY <2>3, <2>4, <2>5, <2>6, <2>7
    <3> QED BY <2>1, <3>1
  <2>8. CASE f[m] >= f[k]
    <3>1. m \in 0 .. m /\ \A l \in 0 .. m : f[l] <= f[m] /\ (l > m => f[l] < f[m])
      BY <2>3, <2>4, <2>5, <2>6, <2>8
    <3> QED BY <2>1, <3>1
  <2> QED BY <2>3, <2>5, <2>7, <2>8
<1>2. n \notin Bad
  BY <1>1
<1>3. Tops(n)
  <2> HIDE DEF Tops
  <2> QED BY <1>2
<1> QED BY <1>3

\* Numbers bounded below have a least one.
LEMMA LeastNumber ==
  ASSUME NEW S \in SUBSET Int, S # {}, NEW b \in Int, \A x \in S : b <= x
  PROVE  Min(S) \in S /\ \A x \in S : Min(S) <= x
<1> DEFINE T == {x - b : x \in S}
<1>1. T \in SUBSET Nat /\ T # {}
  <2>1. \A x \in S : x - b \in Nat
    OBVIOUS
  <2> QED BY <2>1
<1>2. PICK t \in T : \A u \in T : t <= u
  BY <1>1, LeastNatural
<1>3. PICK m \in S : t = m - b
  OBVIOUS
<1>4. \A x \in S : m <= x
  <2> TAKE x \in S
  <2>1. m - b <= x - b
    BY <1>2, <1>3
  <2>2. m \in Int /\ x \in Int
    OBVIOUS
  <2> QED BY <2>1, <2>2
<1> QED BY <1>4 DEF Min

\* Numbers bounded above have a greatest one.
LEMMA GreatestNumber ==
  ASSUME NEW S \in SUBSET Int, S # {}, NEW b \in Int, \A x \in S : x <= b
  PROVE  Max(S) \in S /\ \A x \in S : x <= Max(S)
<1> DEFINE T == {b - x : x \in S}
<1>1. T \in SUBSET Nat /\ T # {}
  <2>1. \A x \in S : b - x \in Nat
    OBVIOUS
  <2> QED BY <2>1
<1>2. PICK t \in T : \A u \in T : t <= u
  BY <1>1, LeastNatural
<1>3. PICK m \in S : t = b - m
  OBVIOUS
<1>4. \A x \in S : x <= m
  <2> TAKE x \in S
  <2>1. b - m <= b - x
    BY <1>2, <1>3
  <2>2. m \in Int /\ x \in Int
    OBVIOUS
  <2> QED BY <2>1, <2>2
<1> QED BY <1>4 DEF Max

-----------------------------------------------------------------------------
(* The extrema of a profile.                                               *)

\* A profile that ends in the position it is meant to end in, brakes from the
\* start if it brakes, and turns where the code looks for a turn: at the ends
\* of a tick, and only in pieces with jerk.
Even(P) ==
  /\ P.pf = StateOf(P, 9).p
  /\ P.brake.t[1] = 0 => P.brake.t[2] = 0
  /\ \A g \in Segments :
       LET s == StateOf(P, g)
           n == Lasts(P, g)
           j == JerkOf(P, g)
       IN  /\ j \in {-1, 0, 1}
           /\ j # 0 => \A k \in 0 .. n - 1 : Move(s, k, j).v * Move(s, k + 1, j).v >= 0
           /\ j = 0 => s.v * Move(s, n, 0).v >= 0

\* The marks a segment puts forward.
SegmentMarks(P, g) == PutForward(Begin(P, g), StateOf(P, g), Lasts(P, g), JerkOf(P, g))

\* A mark of a segment is a state of the segment.
LEMMA MarkOfSegment ==
  ASSUME NEW at \in Nat, NEW s \in States, NEW n \in Nat, NEW j \in Int,
         NEW m \in PutForward(at, s, n, j)
  PROVE  \E k \in 0 .. n : m.time = at + k /\ m.p = Move(s, k, j).p
<1>1. CASE m = [time |-> at, p |-> s.p, low |-> TRUE, high |-> TRUE]
  <2>1. Move(s, 0, j).p = s.p
    BY MovesAdd
  <2> QED BY <1>1, <2>1
<1>2. ASSUME NEW k \in Turns(s, n, j),
             m = [time |-> at + k, p |-> Move(s, k, j).p,
                  low |-> Move(s, k, j).a > 0, high |-> Move(s, k, j).a < 0]
      PROVE  \E l \in 0 .. n : m.time = at + l /\ m.p = Move(s, l, j).p
  <2>1. k \in 1 .. n - 1
    BY DEF Turns
  <2>2. k \in 0 .. n
    BY <2>1
  <2> QED BY <1>2, <2>2
<1> QED BY <1>1, <1>2 DEF PutForward

\* Which marks a profile has.
LEMMA MarksOfProfile ==
  ASSUME NEW P, NEW start, NEW what, Joined(P, start, what)
  PROVE  LET end == [time |-> Ends(P), p |-> P.pf, low |-> TRUE, high |-> TRUE]
         IN  /\ end \in ProfileMarks(P)
             /\ \A m \in ProfileMarks(P) :
                  m = end \/ \E g \in Segments : m \in SegmentMarks(P, g)
             /\ \A g \in Segments :
                  (g < 2 => P.brake.t[1] > 0 /\ Lasts(P, g) > 0) =>
                    SegmentMarks(P, g) \subseteq ProfileMarks(P)
<1> DEFINE brake == P.brake
           end == [time |-> Ends(P), p |-> P.pf, low |-> TRUE, high |-> TRUE]
           MainOf(i) == PutForward(BrakeDuration(brake) + Start(P.t, i), P.s[i], P.t[i], P.j[i])
           BrakeOf(i) == PutForward(IF i = 1 THEN 0 ELSE brake.t[1],
                                    brake.s[i], brake.t[i], brake.j[i])
           Braking == {k \in 1 .. 2 : brake.t[1] > 0 /\ brake.t[k] > 0}
<1>1. ProfileMarks(P) =
        (UNION {MainOf(i) : i \in Pieces}) \cup (UNION {BrakeOf(i) : i \in Braking}) \cup {end}
  BY DEF ProfileMarks
<1>2. \A i \in Pieces : i + 2 \in Segments /\ MainOf(i) = SegmentMarks(P, i + 2)
  <2> TAKE i \in Pieces
  <2>1. i + 2 \in Segments /\ ~ (i + 2 < 2) /\ (i + 2) - 2 = i
    BY DEF Pieces, Segments
  <2> QED BY <2>1 DEF SegmentMarks, Begin, StateOf, Lasts, JerkOf
<1>3. /\ 0 \in Segments /\ BrakeOf(1) = SegmentMarks(P, 0)
      /\ 1 \in Segments /\ BrakeOf(2) = SegmentMarks(P, 1)
  BY DEF Segments, SegmentMarks, Begin, StateOf, Lasts, JerkOf
<1>4. Lasts(P, 0) = brake.t[1] /\ Lasts(P, 1) = brake.t[2]
  BY DEF Lasts
<1> HIDE DEF end, MainOf, BrakeOf
<1>5. \A m \in ProfileMarks(P) : m = end \/ \E g \in Segments : m \in SegmentMarks(P, g)
  <2> TAKE m \in ProfileMarks(P)
  <2>1. CASE \E i \in Pieces : m \in MainOf(i)
    BY <1>2, <2>1
  <2>2. CASE \E i \in Braking : m \in BrakeOf(i)
    <3>1. PICK i \in Braking : m \in BrakeOf(i)
      BY <2>2
    <3>2. i = 1 \/ i = 2
      OBVIOUS
    <3> QED BY <1>3, <3>1, <3>2
  <2> QED BY <1>1, <2>1, <2>2
<1>6. ASSUME NEW g \in Segments, g < 2 => brake.t[1] > 0 /\ Lasts(P, g) > 0
      PROVE  SegmentMarks(P, g) \subseteq ProfileMarks(P)
  <2>1. CASE g = 0
    <3>1. 1 \in Braking
      BY <1>6, <2>1
    <3> QED BY <1>1, <1>3, <2>1, <3>1
  <2>2. CASE g = 1
    <3>1. 2 \in Braking
      BY <1>4, <1>6, <2>2
    <3> QED BY <1>1, <1>3, <2>2, <3>1
  <2>3. CASE g \in 2 .. 8
    <3>1. g - 2 \in Pieces /\ (g - 2) + 2 = g
      BY <2>3 DEF Pieces
    <3> QED BY <1>1, <1>2, <3>1
  <2> QED BY <2>1, <2>2, <2>3 DEF Segments
<1> QED BY <1>1, <1>5, <1>6 DEF end

\* A mark is a position the profile has at the time of the mark.
LEMMA MarksReached ==
  ASSUME NEW P, NEW start, NEW what, Joined(P, start, what), P.pf = StateOf(P, 9).p,
         NEW m \in ProfileMarks(P)
  PROVE  /\ m.time \in 0 .. Ends(P) /\ m.p \in Int
         /\ StateAt(P, m.time).p = m.p
<1>0. /\ \A k \in Segments : Begin(P, k + 1) = Begin(P, k) + Lasts(P, k)
      /\ \A k \in Segments : Lasts(P, k) \in Nat
      /\ \A k \in 0 .. 9 : Begin(P, k) \in Nat
      /\ Begin(P, 9) = Ends(P) /\ Ends(P) \in Nat
      /\ \A k \in 0 .. 9 : StateOf(P, k) \in States
      /\ \A k \in Segments : JerkOf(P, k) \in Int
  BY BeginSums DEF Joined
<1> DEFINE end == [time |-> Ends(P), p |-> P.pf, low |-> TRUE, high |-> TRUE]
<1>1. CASE m = end
  <2>1. m.time = Ends(P) /\ m.p = StateOf(P, 9).p
    BY <1>1
  <2>2. StateOf(P, 9).p \in Int
    BY <1>0 DEF States
  <2>3. StateAt(P, Ends(P)).p = StateOf(P, 9).p
    BY ProfileTicks DEF Agree
  <2> QED BY <1>0, <2>1, <2>2, <2>3
<1>2. ASSUME NEW g \in Segments, m \in SegmentMarks(P, g)
      PROVE  m.time \in 0 .. Ends(P) /\ m.p \in Int /\ StateAt(P, m.time).p = m.p
  <2>0. g \in 0 .. 9 /\ g + 1 \in 0 .. 9 /\ 9 \in g + 1 .. 9
    BY DEF Segments
  <2>1. PICK k \in 0 .. Lasts(P, g) :
          m.time = Begin(P, g) + k /\ m.p = Move(StateOf(P, g), k, JerkOf(P, g)).p
    <3>1. /\ Begin(P, g) \in Nat /\ StateOf(P, g) \in States
          /\ Lasts(P, g) \in Nat /\ JerkOf(P, g) \in Int
      BY <1>0, <2>0
    <3>2. m \in PutForward(Begin(P, g), StateOf(P, g), Lasts(P, g), JerkOf(P, g))
      BY <1>2 DEF SegmentMarks
    <3> QED BY <3>1, <3>2, MarkOfSegment
  <2>2. Begin(P, g + 1) <= Ends(P)
    BY <1>0, <2>0, BeginGrows
  <2>3. /\ m.time \in Nat /\ Begin(P, g) <= m.time /\ m.time <= Begin(P, g + 1)
        /\ m.time - Begin(P, g) = k
    BY <1>0, <2>0, <2>1
  <2>4. StateAt(P, m.time).p = Move(StateOf(P, g), k, JerkOf(P, g)).p
    BY <2>3, StateInSegment DEF Agree
  <2>5. Move(StateOf(P, g), k, JerkOf(P, g)) \in States
    <3>1. k \in Int /\ StateOf(P, g) \in States /\ JerkOf(P, g) \in Int
      BY <1>0, <2>0
    <3> QED BY <3>1, MoveType
  <2>6. m.p \in Int
    BY <2>1, <2>5 DEF States
  <2> QED BY <1>0, <2>0, <2>1, <2>2, <2>3, <2>4, <2>6
<1> HIDE DEF end
<1> QED BY <1>1, <1>2, MarksOfProfile DEF end

\* Two numbers whose product is not negative are on one side of 0.
LEMMA SameSide ==
  ASSUME NEW x \in Int, NEW y \in Int, x * y >= 0
  PROVE  (x >= 0 /\ y >= 0) \/ (x <= 0 /\ y <= 0)
OBVIOUS

\* Where a motion with jerk is farther than a tick before and not nearer than
\* a tick after, it turns, if it turns at ticks.
LEMMA TurnsAtTop ==
  ASSUME NEW s \in States, NEW k \in Int, NEW j \in {-1, 1},
         Move(s, k, j).v * Move(s, k + 1, j).v >= 0,
         Move(s, k + 1, j).v * Move(s, (k + 1) + 1, j).v >= 0
  PROVE  /\ /\ Move(s, k, j).p <= Move(s, k + 1, j).p
            /\ Move(s, (k + 1) + 1, j).p <= Move(s, k + 1, j).p
            => Move(s, k + 1, j).v = 0 /\ Move(s, k + 1, j).a < 0
         /\ /\ Move(s, k, j).p >= Move(s, k + 1, j).p
            /\ Move(s, (k + 1) + 1, j).p >= Move(s, k + 1, j).p
            => Move(s, k + 1, j).v = 0 /\ Move(s, k + 1, j).a > 0
<1> DEFINE x == Move(s, k, j)
           y == Move(s, k + 1, j)
           z == Move(s, (k + 1) + 1, j)
<1>1. x \in States /\ y \in States /\ z \in States /\ j \in Int
  BY MoveType
<1>2. y = Move(x, 1, j) /\ z = Move(y, 1, j)
  BY MovesAdd
<1>3. x.v * y.v >= 0 /\ y.v * z.v >= 0
  OBVIOUS
<1> HIDE DEF x, y, z
<1>4. /\ x.p \in Int /\ x.v \in Int /\ x.a \in Int /\ y.p \in Int /\ y.v \in Int /\ y.a \in Int
      /\ z.p \in Int /\ z.v \in Int /\ z.a \in Int
  BY <1>1 DEF States
<1>5. /\ y.p = x.p + 3 * x.v + 3 * x.a + j /\ y.v = x.v + 2 * x.a + j /\ y.a = x.a + j
      /\ z.p = y.p + 3 * y.v + 3 * y.a + j /\ z.v = y.v + 2 * y.a + j
  BY <1>1, <1>2, <1>4 DEF Move
<1>6. /\ (x.v >= 0 /\ y.v >= 0) \/ (x.v <= 0 /\ y.v <= 0)
      /\ (y.v >= 0 /\ z.v >= 0) \/ (y.v <= 0 /\ z.v <= 0)
  BY <1>3, <1>4, SameSide
<1>7. ASSUME x.p <= y.p, z.p <= y.p PROVE y.v = 0 /\ y.a < 0
  <2>1. 0 <= 3 * y.v - 3 * y.a + j /\ 3 * y.v + 3 * y.a + j <= 0
    BY <1>4, <1>5, <1>7
  <2>2. x.v = y.v - 2 * y.a + j /\ z.v = y.v + 2 * y.a + j
    BY <1>4, <1>5
  <2>3. CASE y.v = 0
    BY <1>4, <2>1, <2>3
  <2>4. CASE y.v > 0
    BY <1>4, <1>6, <2>1, <2>2, <2>4
  <2>5. CASE y.v < 0
    BY <1>4, <1>6, <2>1, <2>2, <2>5
  <2> QED BY <1>4, <2>3, <2>4, <2>5
<1>8. ASSUME x.p >= y.p, z.p >= y.p PROVE y.v = 0 /\ y.a > 0
  <2>1. 0 >= 3 * y.v - 3 * y.a + j /\ 3 * y.v + 3 * y.a + j >= 0
    BY <1>4, <1>5, <1>8
  <2>2. x.v = y.v - 2 * y.a + j /\ z.v = y.v + 2 * y.a + j
    BY <1>4, <1>5
  <2>3. CASE y.v = 0
    BY <1>4, <2>1, <2>3
  <2>4. CASE y.v > 0
    BY <1>4, <1>6, <2>1, <2>2, <2>4
  <2>5. CASE y.v < 0
    BY <1>4, <1>6, <2>1, <2>2, <2>5
  <2> QED BY <1>4, <2>3, <2>4, <2>5
<1> QED BY <1>7, <1>8 DEF x, y, z

\* A motion without jerk whose velocity keeps its sign is between its ends.
LEMMA EndsBoundIt ==
  ASSUME NEW s \in States, NEW n \in Nat, NEW k \in 0 .. n, s.v * Move(s, n, 0).v >= 0
  PROVE  \/ s.p <= Move(s, k, 0).p /\ Move(s, k, 0).p <= Move(s, n, 0).p
         \/ s.p >= Move(s, k, 0).p /\ Move(s, k, 0).p >= Move(s, n, 0).p
<1> DEFINE v == s.v
           a == s.a
           w == v + a * k
           m == n - k
<1>1. s.p \in Int /\ v \in Int /\ a \in Int /\ k \in Nat /\ m \in Nat /\ n = m + k
  BY DEF States
<1>2. /\ Move(s, k, 0).p = s.p + 3 * v * k + 3 * a * k * k
      /\ Move(s, n, 0).p = s.p + 3 * v * n + 3 * a * n * n
      /\ Move(s, n, 0).v = v + 2 * a * n
  BY <1>1 DEF Move
<1> HIDE DEF v, a, m
<1>3. /\ Move(s, k, 0).p - s.p = 3 * (k * (v + a * k))
      /\ Move(s, n, 0).p - Move(s, k, 0).p = 3 * (m * (v + a * (n + k)))
  BY <1>1, <1>2
<1>4. (v >= 0 /\ v + 2 * a * n >= 0) \/ (v <= 0 /\ v + 2 * a * n <= 0)
  BY <1>1, <1>2, SameSide DEF v
<1>5. CASE v >= 0 /\ v + 2 * a * n >= 0
  <2>1. v + a * k >= 0 /\ v + a * (n + k) >= 0
    BY <1>1, <1>5
  <2>2. k * (v + a * k) >= 0 /\ m * (v + a * (n + k)) >= 0
    BY <1>1, <2>1
  <2> QED BY <1>1, <1>2, <1>3, <2>2
<1>6. CASE v <= 0 /\ v + 2 * a * n <= 0
  <2>1. v + a * k <= 0 /\ v + a * (n + k) <= 0
    BY <1>1, <1>6
  <2>2. k * (v + a * k) <= 0 /\ m * (v + a * (n + k)) <= 0
    BY <1>1, <2>1
  <2> QED BY <1>1, <1>2, <1>3, <2>2
<1> QED BY <1>4, <1>5, <1>6

\* The positions of a profile are numbers.
LEMMA PositionsAreNumbers ==
  ASSUME NEW P, NEW start, NEW what, Joined(P, start, what), NEW x \in 0 .. Ends(P)
  PROVE  StateAt(P, x).p \in Int
<1>0. /\ \A k \in 0 .. 9 : Begin(P, k) \in Nat
      /\ Begin(P, 9) = Ends(P) /\ Ends(P) \in Nat
      /\ \A k \in 0 .. 9 : StateOf(P, k) \in States
      /\ \A k \in Segments : JerkOf(P, k) \in Int
  BY BeginSums DEF Joined
<1>1. CASE x = Ends(P)
  <2>1. StateAt(P, x).p = StateOf(P, 9).p
    BY <1>1, ProfileTicks DEF Agree
  <2> QED BY <1>0, <2>1 DEF States
<1>2. CASE x # Ends(P)
  <2>1. x \in Nat /\ x < Ends(P)
    BY <1>0, <1>2
  <2>2. PICK g \in Segments : Begin(P, g) <= x /\ x < Begin(P, g + 1)
    BY <2>1, SegmentFound
  <2>3. StateAt(P, x).p = Move(StateOf(P, g), x - Begin(P, g), JerkOf(P, g)).p
    <3>1. g + 1 \in 0 .. 9 /\ Begin(P, g + 1) \in Nat
      BY <1>0 DEF Segments
    <3>2. x <= Begin(P, g + 1)
      BY <2>1, <2>2, <3>1
    <3> QED BY <2>1, <2>2, <3>2, StateInSegment DEF Agree
  <2>4. g \in 0 .. 9 /\ Begin(P, g) \in Int
    BY <1>0 DEF Segments
  <2>5. StateOf(P, g) \in States /\ x - Begin(P, g) \in Int /\ JerkOf(P, g) \in Int
    BY <1>0, <2>4
  <2>6. Move(StateOf(P, g), x - Begin(P, g), JerkOf(P, g)) \in States
    BY <2>5, MoveType
  <2> QED BY <2>3, <2>6 DEF States
<1> QED BY <1>1, <1>2

\* Where a profile is for the last time as high as it gets (e is 1), or as low
\* (e is -1), it has a mark that counts.
LEMMA TopIsMarked ==
  ASSUME NEW P, NEW start, NEW what, Joined(P, start, what), Even(P),
         NEW e \in {-1, 1}, NEW x \in 0 .. Ends(P),
         \A y \in 0 .. Ends(P) :
           /\ e * StateAt(P, y).p <= e * StateAt(P, x).p
           /\ y > x => e * StateAt(P, y).p < e * StateAt(P, x).p
  PROVE  \E m \in ProfileMarks(P) :
           m.p = StateAt(P, x).p /\ (e = 1 => m.high) /\ (e = -1 => m.low)
<1>0. /\ \A k \in Segments : Begin(P, k + 1) = Begin(P, k) + Lasts(P, k)
      /\ \A k \in Segments : Lasts(P, k) \in Nat
      /\ \A k \in 0 .. 9 : Begin(P, k) \in Nat
      /\ Begin(P, 9) = Ends(P) /\ Ends(P) \in Nat
      /\ \A k \in 0 .. 9 : StateOf(P, k) \in States
      /\ \A k \in Segments : JerkOf(P, k) \in Int
  BY BeginSums DEF Joined
<1>1. CASE x = Ends(P)
  <2>1. StateAt(P, Ends(P)).p = StateOf(P, 9).p
    BY ProfileTicks DEF Agree
  <2> DEFINE end == [time |-> Ends(P), p |-> P.pf, low |-> TRUE, high |-> TRUE]
  <2>2. end \in ProfileMarks(P)
    BY MarksOfProfile
  <2>3. end.p = StateAt(P, x).p /\ end.high /\ end.low
    BY <1>1, <2>1 DEF Even
  <2> QED BY <2>2, <2>3
<1>2. CASE x # Ends(P)
  <2>1. x \in Nat /\ x < Ends(P)
    BY <1>0, <1>2
  <2>2. PICK g \in Segments : Begin(P, g) <= x /\ x < Begin(P, g + 1)
    BY <2>1, SegmentFound
  <2> DEFINE s == StateOf(P, g)
             n == Lasts(P, g)
             j == JerkOf(P, g)
             b == Begin(P, g)
             k == x - b
  <2>3. g \in 0 .. 9 /\ g + 1 \in 0 .. 9 /\ 9 \in g + 1 .. 9
    BY DEF Segments
  <2>4. s \in States /\ n \in Nat /\ j \in Int /\ b \in Nat /\ Begin(P, g + 1) = b + n
    BY <1>0, <2>3
  <2>5. k \in 0 .. n - 1 /\ x = b + k /\ n > 0
    BY <2>1, <2>2, <2>4
  <2>6. b + n <= Ends(P)
    BY <1>0, <2>3, <2>4, BeginGrows
  <2>7. /\ j \in {-1, 0, 1}
        /\ j # 0 => \A l \in 0 .. n - 1 : Move(s, l, j).v * Move(s, l + 1, j).v >= 0
        /\ j = 0 => s.v * Move(s, n, 0).v >= 0
    BY DEF Even
  <2>8. SegmentMarks(P, g) \subseteq ProfileMarks(P)
    <3>1. g < 2 => g = 0 \/ g = 1
      BY DEF Segments
    <3>2. P.brake.t[1] \in Nat
      BY DEF Joined
    <3>3. g < 2 => P.brake.t[1] > 0
      BY <2>5, <3>1, <3>2 DEF Even, Lasts
    <3> QED BY <2>5, <3>3, MarksOfProfile
  <2>9. \A l \in 0 .. n : /\ StateAt(P, b + l).p = Move(s, l, j).p
                          /\ Move(s, l, j).p \in Int
                          /\ b + l \in 0 .. Ends(P)
    <3> TAKE l \in 0 .. n
    <3>1. /\ b + l \in Nat /\ b <= b + l /\ b + l <= Begin(P, g + 1) /\ (b + l) - b = l
          /\ b + l \in 0 .. Ends(P) /\ l \in Int
      BY <1>0, <2>4, <2>6
    <3>2. StateAt(P, b + l).p = Move(s, l, j).p
      BY <3>1, StateInSegment DEF Agree
    <3>3. Move(s, l, j) \in States
      BY <2>4, <3>1, MoveType
    <3> QED BY <3>1, <3>2, <3>3 DEF States
  <2>10. SegmentMarks(P, g) = PutForward(b, s, n, j)
    BY DEF SegmentMarks
  <2>11. /\ StateAt(P, x).p = Move(s, k, j).p
         /\ \A l \in 0 .. n : /\ e * Move(s, l, j).p <= e * Move(s, k, j).p
                              /\ l > k => e * Move(s, l, j).p < e * Move(s, k, j).p
    <3>1. StateAt(P, x).p = Move(s, k, j).p
      <4>1. k \in 0 .. n /\ b + k = x
        BY <2>4, <2>5
      <4> HIDE DEF s, n, j, b, k
      <4> QED BY <2>9, <4>1
    <3>2. \A l \in 0 .. n : (l > k => b + l > x) /\ b + l \in 0 .. Ends(P)
      BY <2>4, <2>5, <2>9
    <3> QED BY <2>9, <3>1, <3>2
  <2> HIDE DEF s, n, j, b, k
  <2>12. CASE Move(s, k, j).p = s.p
    <3> DEFINE m == [time |-> b, p |-> s.p, low |-> TRUE, high |-> TRUE]
    <3>1. m \in PutForward(b, s, n, j)
      BY DEF PutForward
    <3>2. m.p = StateAt(P, x).p /\ m.high /\ m.low
      BY <2>11, <2>12
    <3> QED BY <2>8, <2>10, <3>1, <3>2
  <2>13. CASE k # 0 /\ j # 0
    <3>1. /\ k - 1 \in 0 .. n - 1 /\ (k - 1) + 1 = k /\ k - 1 \in Int /\ k \in 0 .. n - 1
          /\ k - 1 \in 0 .. n /\ k + 1 \in 0 .. n /\ k \in 0 .. n /\ k \in 1 .. n - 1
      BY <2>4, <2>5, <2>13
    <3>2. j \in {-1, 1}
      BY <2>7, <2>13
    <3>3. /\ Move(s, k - 1, j).v * Move(s, k, j).v >= 0
          /\ Move(s, k, j).v * Move(s, k + 1, j).v >= 0
      BY <2>7, <2>13, <3>1
    <3>4. /\ /\ Move(s, k - 1, j).p <= Move(s, k, j).p
             /\ Move(s, k + 1, j).p <= Move(s, k, j).p
             => Move(s, k, j).v = 0 /\ Move(s, k, j).a < 0
          /\ /\ Move(s, k - 1, j).p >= Move(s, k, j).p
             /\ Move(s, k + 1, j).p >= Move(s, k, j).p
             => Move(s, k, j).v = 0 /\ Move(s, k, j).a > 0
      <4> DEFINE l == k - 1
      <4>1. l \in Int /\ l + 1 = k
        BY <3>1
      <4> HIDE DEF l
      <4>2. Move(s, l, j).v * Move(s, l + 1, j).v >= 0
            /\ Move(s, l + 1, j).v * Move(s, (l + 1) + 1, j).v >= 0
        BY <3>3, <4>1 DEF l
      <4> QED BY <2>4, <3>2, <4>1, <4>2, TurnsAtTop DEF l
    <3>5. /\ Move(s, k - 1, j).p \in Int /\ Move(s, k, j).p \in Int /\ Move(s, k + 1, j).p \in Int
          /\ e * Move(s, k - 1, j).p <= e * Move(s, k, j).p
          /\ e * Move(s, k + 1, j).p <= e * Move(s, k, j).p
      BY <2>9, <2>11, <3>1
    <3>6. /\ Move(s, k, j).v = 0
          /\ e = 1 => Move(s, k, j).a < 0
          /\ e = -1 => Move(s, k, j).a > 0
      <4>1. CASE e = 1
        BY <3>4, <3>5, <4>1
      <4>2. CASE e = -1
        BY <3>4, <3>5, <4>2
      <4> QED BY <4>1, <4>2
    <3> DEFINE m == [time |-> b + k, p |-> Move(s, k, j).p,
                     low |-> Move(s, k, j).a > 0, high |-> Move(s, k, j).a < 0]
    <3>7. k \in Turns(s, n, j)
      BY <2>13, <3>1, <3>6 DEF Turns
    <3>8. m \in PutForward(b, s, n, j)
      BY <3>7 DEF PutForward
    <3>9. m.p = StateAt(P, x).p /\ (e = 1 => m.high) /\ (e = -1 => m.low)
      BY <2>11, <3>6
    <3> HIDE DEF m
    <3> QED BY <2>8, <2>10, <3>8, <3>9
  <2>14. CASE k # 0 /\ j = 0
    <3>1. k \in 0 .. n /\ n \in 0 .. n /\ n > k /\ 0 \in 0 .. n
      BY <2>4, <2>5
    <3>2. s.v * Move(s, n, 0).v >= 0
      BY <2>7, <2>14
    <3>3. \/ s.p <= Move(s, k, 0).p /\ Move(s, k, 0).p <= Move(s, n, 0).p
          \/ s.p >= Move(s, k, 0).p /\ Move(s, k, 0).p >= Move(s, n, 0).p
      BY <2>4, <3>1, <3>2, EndsBoundIt
    <3>4. Move(s, 0, 0).p = s.p
      BY <2>4, MovesAdd
    <3>5. /\ Move(s, k, 0).p \in Int /\ Move(s, n, 0).p \in Int /\ s.p \in Int
          /\ e * s.p <= e * Move(s, k, 0).p
          /\ e * Move(s, n, 0).p < e * Move(s, k, 0).p
      BY <2>9, <2>11, <2>14, <3>1, <3>4
    <3>6. Move(s, k, 0).p = s.p
      <4>1. CASE e = 1
        BY <3>3, <3>5, <4>1
      <4>2. CASE e = -1
        BY <3>3, <3>5, <4>2
      <4> QED BY <4>1, <4>2
    <3> QED BY <2>12, <2>14, <3>6
  <2>15. CASE k = 0
    <3>1. Move(s, 0, j).p = s.p
      BY <2>4, MovesAdd
    <3> QED BY <2>12, <2>15, <3>1
  <2> QED BY <2>13, <2>14, <2>15
<1> QED BY <1>1, <1>2

\* A profile is always between positions it has marks for.
LEMMA MarksBound ==
  ASSUME NEW P, NEW start, NEW what, Joined(P, start, what), Even(P)
  PROVE  /\ \E m \in ProfileMarks(P) : m.high /\ \A x \in 0 .. Ends(P) : StateAt(P, x).p <= m.p
         /\ \E m \in ProfileMarks(P) : m.low /\ \A x \in 0 .. Ends(P) : m.p <= StateAt(P, x).p
<1>0. Ends(P) \in Nat
  BY BeginSums DEF Joined
<1>1. \A x \in 0 .. Ends(P) : StateAt(P, x).p \in Int
  BY PositionsAreNumbers
<1>2. ASSUME NEW e \in {-1, 1}
      PROVE  \E x \in 0 .. Ends(P) : \A y \in 0 .. Ends(P) :
               /\ e * StateAt(P, y).p <= e * StateAt(P, x).p
               /\ y > x => e * StateAt(P, y).p < e * StateAt(P, x).p
  <2> DEFINE f == [x \in 0 .. Ends(P) |-> e * StateAt(P, x).p]
  <2>1. f \in [0 .. Ends(P) -> Int]
    BY <1>1
  <2> HIDE DEF f
  <2>2. PICK x \in 0 .. Ends(P) : \A y \in 0 .. Ends(P) : f[y] <= f[x] /\ (y > x => f[y] < f[x])
    BY <1>0, <2>1, GreatestOf
  <2> QED BY <2>2 DEF f
<1>3. \E m \in ProfileMarks(P) : m.high /\ \A x \in 0 .. Ends(P) : StateAt(P, x).p <= m.p
  <2>1. PICK x \in 0 .. Ends(P) : \A y \in 0 .. Ends(P) :
               /\ 1 * StateAt(P, y).p <= 1 * StateAt(P, x).p
               /\ y > x => 1 * StateAt(P, y).p < 1 * StateAt(P, x).p
    BY <1>2
  <2>2. PICK m \in ProfileMarks(P) : m.p = StateAt(P, x).p /\ m.high
    BY <2>1, TopIsMarked
  <2> QED BY <1>1, <2>1, <2>2
<1>4. \E m \in ProfileMarks(P) : m.low /\ \A x \in 0 .. Ends(P) : m.p <= StateAt(P, x).p
  <2>1. PICK x \in 0 .. Ends(P) : \A y \in 0 .. Ends(P) :
               /\ (-1) * StateAt(P, y).p <= (-1) * StateAt(P, x).p
               /\ y > x => (-1) * StateAt(P, y).p < (-1) * StateAt(P, x).p
    BY <1>2
  <2>2. PICK m \in ProfileMarks(P) : m.p = StateAt(P, x).p /\ m.low
    BY <2>1, TopIsMarked
  <2> QED BY <1>1, <2>1, <2>2
<1> QED BY <1>3, <1>4

\* What a mark is.
Marks == [time : Nat, p : Int, low : BOOLEAN, high : BOOLEAN]

\* The marks of a joined profile are marks.
LEMMA MarkTypes ==
  ASSUME NEW P, NEW start, NEW what, Joined(P, start, what), P.pf = StateOf(P, 9).p
  PROVE  ProfileMarks(P) \subseteq Marks
<1> SUFFICES ASSUME NEW m \in ProfileMarks(P) PROVE m \in Marks
  OBVIOUS
<1>1. /\ \A k \in 0 .. 9 : Begin(P, k) \in Nat
      /\ Ends(P) \in Nat
      /\ \A k \in 0 .. 9 : StateOf(P, k) \in States
      /\ \A k \in Segments : JerkOf(P, k) \in Int /\ Lasts(P, k) \in Nat
  BY BeginSums DEF Joined
<1> DEFINE end == [time |-> Ends(P), p |-> P.pf, low |-> TRUE, high |-> TRUE]
<1>2. CASE m = end
  <2>1. P.pf \in Int
    BY <1>1 DEF States
  <2> QED BY <1>1, <1>2, <2>1 DEF Marks
<1>3. ASSUME NEW g \in Segments, m \in SegmentMarks(P, g) PROVE m \in Marks
  <2> DEFINE s == StateOf(P, g)
             n == Lasts(P, g)
             j == JerkOf(P, g)
             b == Begin(P, g)
  <2>1. s \in States /\ n \in Nat /\ j \in Int /\ b \in Nat
    BY <1>1 DEF Segments
  <2>2. m \in PutForward(b, s, n, j)
    BY <1>3 DEF SegmentMarks
  <2> HIDE DEF s, n, j, b
  <2>3. CASE m = [time |-> b, p |-> s.p, low |-> TRUE, high |-> TRUE]
    <3>1. s.p \in Int
      BY <2>1 DEF States
    <3> QED BY <2>1, <2>3, <3>1 DEF Marks
  <2>4. ASSUME NEW k \in Turns(s, n, j),
               m = [time |-> b + k, p |-> Move(s, k, j).p,
                    low |-> Move(s, k, j).a > 0, high |-> Move(s, k, j).a < 0]
        PROVE  m \in Marks
    <3>1. k \in 1 .. n - 1
      BY DEF Turns
    <3>2. Move(s, k, j) \in States /\ b + k \in Nat
      BY <2>1, <3>1, MoveType
    <3>3. Move(s, k, j).p \in Int
      BY <3>2 DEF States
    <3>4. (Move(s, k, j).a > 0) \in BOOLEAN /\ (Move(s, k, j).a < 0) \in BOOLEAN
      OBVIOUS
    <3> QED BY <2>4, <3>2, <3>3, <3>4 DEF Marks
  <2> QED BY <2>2, <2>3, <2>4 DEF PutForward
<1> HIDE DEF end
<1> QED BY <1>2, <1>3, MarksOfProfile DEF end

\* The extremes of marks are marks, and bound those that count.
LEMMA ExtremesFound ==
  ASSUME NEW marks \in SUBSET Marks, NEW lo \in Int, NEW hi \in Int,
         \A m \in marks : lo <= m.p /\ m.p <= hi,
         \E m \in marks : m.low, \E m \in marks : m.high
  PROVE  LET e == Extremes(marks)
         IN  /\ e.min \in Int /\ e.max \in Int
             /\ \E m \in marks : m.low /\ m.p = e.min /\ m.time = e.t_min
             /\ \E m \in marks : m.high /\ m.p = e.max /\ m.time = e.t_max
             /\ \A m \in marks : m.low => e.min <= m.p
             /\ \A m \in marks : m.high => m.p <= e.max
<1> DEFINE lows  == {m \in marks : m.low}
           highs == {m \in marks : m.high}
           low   == Min({m.p : m \in lows})
           high  == Max({m.p : m \in highs})
           first == {m \in lows : m.p = low}
           last  == {m \in highs : m.p = high}
<1>1. \A m \in marks : m.p \in Int /\ m.time \in Nat
  BY DEF Marks
<1>2. low \in {m.p : m \in lows} /\ \A x \in {m.p : m \in lows} : low <= x
  <2> DEFINE S == {m.p : m \in lows}
  <2>1. S \in SUBSET Int /\ S # {} /\ \A x \in S : lo <= x
    BY <1>1
  <2> HIDE DEF S
  <2> QED BY <2>1, LeastNumber DEF S
<1>3. high \in {m.p : m \in highs} /\ \A x \in {m.p : m \in highs} : x <= high
  <2> DEFINE S == {m.p : m \in highs}
  <2>1. S \in SUBSET Int /\ S # {} /\ \A x \in S : x <= hi
    BY <1>1
  <2> HIDE DEF S
  <2> QED BY <2>1, GreatestNumber DEF S
<1>4. Extremes(marks) = [min |-> low, t_min |-> Earliest(first).time,
                         max |-> high, t_max |-> Earliest(last).time]
  BY DEF Extremes
<1>5. ASSUME NEW S \in SUBSET marks, S # {} PROVE Earliest(S) \in S
  <2> DEFINE T == {m.time : m \in S}
  <2>1. T \in SUBSET Nat /\ T # {}
    BY <1>1, <1>5
  <2>2. PICK t \in T : \A u \in T : t <= u
    BY <2>1, LeastNatural
  <2>3. PICK m \in S : t = m.time
    OBVIOUS
  <2>4. \A other \in S : m.time <= other.time
    BY <2>2, <2>3
  <2> QED BY <2>4 DEF Earliest
<1> HIDE DEF low, high
<1>6. first \in SUBSET marks /\ first # {} /\ last \in SUBSET marks /\ last # {}
  BY <1>2, <1>3
<1>7. Earliest(first) \in first /\ Earliest(last) \in last
  BY <1>5, <1>6
<1>8. low \in Int /\ high \in Int
  BY <1>1, <1>2, <1>3
<1> DEFINE e == Extremes(marks)
<1>9. /\ e.min = low /\ e.t_min = Earliest(first).time
      /\ e.max = high /\ e.t_max = Earliest(last).time
  BY <1>4
<1> HIDE DEF e
<1>10. \E m \in marks : m.low /\ m.p = e.min /\ m.time = e.t_min
  BY <1>7, <1>9
<1>11. \E m \in marks : m.high /\ m.p = e.max /\ m.time = e.t_max
  BY <1>7, <1>9
<1>12. \A m \in marks : (m.low => e.min <= m.p) /\ (m.high => m.p <= e.max)
  BY <1>2, <1>3, <1>9
<1> QED BY <1>8, <1>9, <1>10, <1>11, <1>12 DEF e

\* The extremes of a profile bound it.
LEMMA ExtremesBound ==
  ASSUME NEW P, NEW start, NEW what, Joined(P, start, what), Even(P)
  PROVE  LET e == Extremes(ProfileMarks(P))
         IN  /\ e.min \in Int /\ e.max \in Int
             /\ \A x \in 0 .. Ends(P) : e.min <= StateAt(P, x).p /\ StateAt(P, x).p <= e.max
<1>1. PICK top \in ProfileMarks(P) :
        top.high /\ \A x \in 0 .. Ends(P) : StateAt(P, x).p <= top.p
  BY MarksBound
<1>2. PICK low \in ProfileMarks(P) :
        low.low /\ \A x \in 0 .. Ends(P) : low.p <= StateAt(P, x).p
  BY MarksBound
<1>3. \A m \in ProfileMarks(P) : /\ m.time \in 0 .. Ends(P) /\ m.p \in Int
                                 /\ StateAt(P, m.time).p = m.p
  BY MarksReached DEF Even
<1>4. ProfileMarks(P) \in SUBSET Marks
  BY MarkTypes DEF Even
<1>5. \A x \in 0 .. Ends(P) : StateAt(P, x).p \in Int
  BY PositionsAreNumbers
<1> DEFINE marks == ProfileMarks(P)
           e == Extremes(marks)
<1> HIDE DEF marks
<1>6. /\ low.p \in Int /\ top.p \in Int /\ \A m \in marks : low.p <= m.p /\ m.p <= top.p
      /\ marks \in SUBSET Marks /\ (\E m \in marks : m.low) /\ (\E m \in marks : m.high)
  BY <1>1, <1>2, <1>3, <1>4 DEF marks
<1>7. /\ e.min \in Int /\ e.max \in Int
      /\ \A m \in marks : m.low => e.min <= m.p
      /\ \A m \in marks : m.high => m.p <= e.max
  BY <1>6, ExtremesFound
<1> HIDE DEF e
<1>8. \A x \in 0 .. Ends(P) : e.min <= StateAt(P, x).p /\ StateAt(P, x).p <= e.max
  <2> TAKE x \in 0 .. Ends(P)
  <2>1. e.min <= low.p /\ low.p <= StateAt(P, x).p /\ top.p <= e.max /\ StateAt(P, x).p <= top.p
    BY <1>1, <1>2, <1>7 DEF marks
  <2> QED BY <1>5, <1>6, <1>7, <2>1
<1> QED BY <1>7, <1>8 DEF e, marks

-----------------------------------------------------------------------------
(* The extrema of a trajectory.                                            *)

\* A profile ends in the position it is meant to end in.
LEMMA EndsAsMeant ==
  ASSUME NEW c, WellFormed(c), Accepted(c), c.kind # "disabled", Timed(c)
  PROVE  ProfileOf(c).pf = StateOf(ProfileOf(c), 9).p
<1>1. StateOf(ProfileOf(c), 9) = MotionOf(c)[7]
  BY DEF StateOf, ProfileOf
<1>2. CASE c.kind \in VelocityKinds
  <2>1. ProfileOf(c).pf = MotionOf(c)[7].p
    BY <1>2 DEF ProfileOf, Timed
  <2> QED BY <1>1, <2>1
<1>3. CASE c.kind \notin VelocityKinds
  <2>1. ProfileOf(c).pf = c.to.p
    BY <1>3 DEF ProfileOf
  <2>2. MotionOf(c)[7].p = c.to.p
    <3>1. c.kind = "third" \/ c.kind = "second" \/ c.kind = "first"
      BY <1>3, Zenon DEF WellFormed, Kinds, VelocityKinds
    <3>2. CASE c.kind = "third"
      BY <3>2 DEF MotionOf, Accepted, Checked
    <3>3. CASE c.kind = "second"
      BY <3>3 DEF MotionOf, Accepted, CheckedSecondOrder
    <3>4. CASE c.kind = "first"
      BY <3>4 DEF MotionOf, Accepted, CheckedFirstOrder
    <3> QED BY <3>1, <3>2, <3>3, <3>4
  <2> QED BY <1>1, <2>1, <2>2
<1> QED BY <1>2, <1>3

\* What is proposed turns only where turns are looked for.
LEMMA ProposalsEven ==
  ASSUME Together, TurnsFound,
         NEW n \in WaypointCounts, NEW choice \in Proposals(n), NEW d \in Dofs
  PROVE  Even(ProfileOf(choice[d]))
<1> DEFINE c == choice[d]
           P == ProfileOf(c)
<1>1. /\ WellFormed(c) /\ Accepted(c) /\ TurnsAtTicks(c) /\ c.kind # "disabled"
      /\ Timed(c)
      /\ P.brake.t[1] = 0 => P.brake.t[2] = 0
      /\ \A g \in Segments : JerkOf(P, g) = 0 =>
           StateOf(P, g).v * Move(StateOf(P, g), Lasts(P, g), 0).v >= 0
  BY TrajectoryAssumption DEF Together, TurnsFound
<1> HIDE DEF c
<1>2. P.pf = StateOf(P, 9).p
  BY <1>1, EndsAsMeant
<1>3. ASSUME NEW g \in Segments
      PROVE  /\ JerkOf(P, g) \in {-1, 0, 1}
             /\ JerkOf(P, g) # 0 =>
                  \A k \in 0 .. Lasts(P, g) - 1 :
                    Move(StateOf(P, g), k, JerkOf(P, g)).v
                      * Move(StateOf(P, g), k + 1, JerkOf(P, g)).v >= 0
  <2>1. P.t = c.t /\ P.brake = c.brake
    BY DEF ProfileOf
  <2>2. CASE g < 2
    <3>1. g + 1 \in 1 .. 2
      BY <2>2 DEF Segments
    <3> QED BY <1>1, <2>1, <2>2, <3>1 DEF TurnsAtTicks, JerkOf, Lasts, StateOf
  <2>3. CASE ~ (g < 2)
    <3>1. g - 2 \in Pieces
      BY <2>3 DEF Segments, Pieces
    <3> QED BY <1>1, <2>1, <2>3, <3>1 DEF TurnsAtTicks, JerkOf, Lasts, StateOf
  <2> QED BY <2>2, <2>3
<1> HIDE DEF P
<1>4. Even(P)
  BY <1>1, <1>2, <1>3 DEF Even
<1> QED BY <1>4 DEF P, c

\* So does every section.
LEMMA SectionsEven ==
  ASSUME SectionInv, Together, TurnsFound, NEW k \in 1 .. Len(sections), NEW d \in Dofs
  PROVE  /\ Even(sections[k][d])
         /\ \E start : Joined(sections[k][d], start, "position")
<1>1. PICK choice \in Proposals(waypoints) : Written(k, choice)
  BY DEF SectionInv
<1>2. waypoints \in WaypointCounts /\ sections[k][d] = ProfileOf(choice[d])
  BY <1>1 DEF SectionInv, Written, ProfilesOf
<1>3. Even(sections[k][d])
  BY <1>2, ProposalsEven
<1>4. Chained(d, "position")
  BY SectionsChained DEF Carried
<1> QED BY <1>3, <1>4 DEF Chained

\* Until the trajectory ends, what is sampled is sampled in the section under way.
LEMMA WithinSection ==
  ASSUME TrajectoryInv, Together, valid, NEW d \in Dofs, NEW at \in 0 .. Whole
  PROVE  \E k \in 1 .. Len(sections) :
           /\ From(k) \in Nat /\ From(k) <= at /\ at <= until[k]
           /\ at - From(k) \in 0 .. Ends(sections[k][d])
           /\ AtTime(at).states[d] = StateAt(sections[k][d], at - From(k))
<1> DEFINE n == Len(sections)
           K == SectionAt(at)
<1>1. sections # <<>> /\ n \in Nat \ {0} /\ SectionInv
  BY Complete DEF TrajectoryInv
<1>2. \A k \in 1 .. n : /\ From(k) \in Nat /\ until[k] \in Nat /\ From(k) <= until[k]
                        /\ Ends(sections[k][d]) = until[k] - From(k)
  BY <1>1, SectionTimes
<1>3. Whole = until[n] /\ Whole \in Nat
  BY <1>1, <1>2 DEF Whole, Last
<1>4. K \in 1 .. n /\ (at < until[K] \/ K = n) /\ From(K) <= at
  BY <1>1, <1>3, SectionFound
<1>5. AtTime(at).states[d] = StateAt(sections[K][d], at - From(K))
  BY DEF AtTime
<1> HIDE DEF K
<1>6. at <= until[K]
  BY <1>2, <1>3, <1>4
<1>7. at - From(K) \in 0 .. Ends(sections[K][d])
  <2>1. /\ From(K) \in Nat /\ until[K] \in Nat /\ From(K) <= at
        /\ Ends(sections[K][d]) = until[K] - From(K)
    BY <1>2, <1>4
  <2> QED BY <1>3, <1>6, <2>1
<1> QED BY <1>2, <1>4, <1>5, <1>6, <1>7

\* A waypoint section that respects the position limits at its extrema does so
\* all the time (section_respects_position_bounds), where the turns are found.
THEOREM PositionsKeptHolds ==
  ASSUME Together, TurnsFound PROVE Spec => []PositionsKept
<1>1. TrajectoryInv => PositionsKept
  <2> SUFFICES ASSUME TrajectoryInv, valid, waypoints > 0, time <= Whole, NEW d \in Dofs
               PROVE  Within(sample.states[d].p, PositionLimits)
    BY DEF PositionsKept
  <2>1. time \in Nat /\ sample = AtTime(time) /\ SectionInv /\ sections # <<>>
        /\ Len(sections) \in Nat \ {0}
    BY Complete DEF TrajectoryInv
  <2>2. time \in 0 .. Whole
    <3>1. Whole \in Nat
      BY <2>1, SectionTimes DEF Whole, Last
    <3> QED BY <2>1, <3>1
  <2>3. PICK k \in 1 .. Len(sections) :
          /\ time - From(k) \in 0 .. Ends(sections[k][d])
          /\ AtTime(time).states[d] = StateAt(sections[k][d], time - From(k))
    BY <2>2, WithinSection
  <2> DEFINE P == sections[k][d]
             e == Extremes(ProfileMarks(P))
  <2>4. Respects(sections[k])
    BY <2>1 DEF SectionInv, Written
  <2>5. PositionLimits.low <= e.min /\ e.max <= PositionLimits.high
    BY <2>4 DEF Respects
  <2>6. /\ e.min \in Int /\ e.max \in Int
        /\ \A x \in 0 .. Ends(P) : e.min <= StateAt(P, x).p /\ StateAt(P, x).p <= e.max
        /\ \A x \in 0 .. Ends(P) : StateAt(P, x).p \in Int
    BY <2>1, SectionsEven, ExtremesBound, PositionsAreNumbers
  <2>7. PositionLimits.low \in Int /\ PositionLimits.high \in Int
    BY TrajectoryAssumption
  <2> DEFINE y == StateAt(P, time - From(k)).p
  <2>8. e.min <= y /\ y <= e.max /\ y \in Int /\ sample.states[d].p = y
    BY <2>1, <2>3, <2>6
  <2> HIDE DEF P, e, y
  <2> QED BY <2>5, <2>6, <2>7, <2>8 DEF Within
<1>2. Spec => []TrajectoryInv
  BY TrajectoryInvariant
<1> QED BY <1>1, <1>2, PTL

\* The marks of a trajectory: those of its profiles, later by their section.
Later(k, m) == [m EXCEPT !.time = From(k) + @]
MarksOf(d) ==
  UNION {{Later(k, m) : m \in ProfileMarks(sections[k][d])} : k \in DOMAIN sections}

\* They are positions the trajectory has, and bound it.
LEMMA TrajectoryMarks ==
  ASSUME TrajectoryInv, Together, TurnsFound, valid, NEW d \in Dofs
  PROVE  /\ Whole \in Nat /\ MarksOf(d) \in SUBSET Marks
         /\ \A m \in MarksOf(d) : m.time \in 0 .. Whole /\ AtTime(m.time).states[d].p = m.p
         /\ \A at \in 0 .. Whole :
              /\ AtTime(at).states[d].p \in Int
              /\ \E m \in MarksOf(d) : m.high /\ AtTime(at).states[d].p <= m.p
              /\ \E m \in MarksOf(d) : m.low /\ m.p <= AtTime(at).states[d].p
<1> DEFINE n == Len(sections)
<1>1. sections # <<>> /\ n \in Nat \ {0} /\ SectionInv
  BY Complete DEF TrajectoryInv
<1>2. /\ \A k \in 1 .. n : /\ From(k) \in Nat /\ until[k] \in Nat /\ From(k) <= until[k]
                           /\ Ends(sections[k][d]) = until[k] - From(k)
      /\ DOMAIN sections = 1 .. n
  BY <1>1, SectionTimes
<1>3. Whole = until[n] /\ Whole \in Nat /\ \A k \in 1 .. n : until[k] <= Whole
  <2>1. Whole = until[n] /\ Whole \in Nat
    BY <1>1, <1>2 DEF Whole, Last
  <2>2. \A k \in 1 .. n : n \in k .. n
    BY <1>1
  <2> QED BY <1>1, <2>1, <2>2, UntilGrows
<1>4. Chained(d, "position")
  BY <1>1, SectionsChained DEF Carried
<1>5. ASSUME NEW k \in 1 .. n, NEW m \in ProfileMarks(sections[k][d])
      PROVE  /\ Later(k, m) \in Marks /\ Later(k, m) \in MarksOf(d)
             /\ Later(k, m).p = m.p /\ Later(k, m).high = m.high /\ Later(k, m).low = m.low
             /\ Later(k, m).time \in 0 .. Whole
             /\ AtTime(Later(k, m).time).states[d].p = Later(k, m).p
  <2>1. PICK start : Joined(sections[k][d], start, "position")
    BY <1>1, SectionsEven
  <2>2. sections[k][d].pf = StateOf(sections[k][d], 9).p
    BY <1>1, SectionsEven DEF Even
  <2>3. /\ m \in Marks /\ m.time \in 0 .. Ends(sections[k][d])
        /\ StateAt(sections[k][d], m.time).p = m.p
    BY <2>1, <2>2, MarkTypes, MarksReached
  <2> DEFINE l == Later(k, m)
             at == From(k) + m.time
  <2>4. l.p = m.p /\ l.high = m.high /\ l.low = m.low /\ l.time = at
    BY <2>3 DEF Later, Marks
  <2>5. From(k) \in Nat /\ m.time \in Nat /\ m.time <= until[k] - From(k) /\ until[k] \in Nat
    BY <1>2, <2>3
  <2>6. /\ at \in Nat /\ From(k) <= at /\ at <= until[k] /\ at - From(k) = m.time
        /\ at \in 0 .. Whole
    <3>1. until[k] <= Whole /\ Whole \in Nat
      BY <1>3
    <3> DEFINE x == From(k)
               y == m.time
               u == until[k]
    <3>2. x \in Nat /\ y \in Nat /\ y <= u - x /\ u \in Nat /\ u <= Whole
      BY <2>5, <3>1
    <3> HIDE DEF x, y, u
    <3>3. x + y \in Nat /\ x <= x + y /\ x + y <= u /\ (x + y) - x = y /\ x + y \in 0 .. Whole
      BY <3>1, <3>2
    <3> QED BY <3>3 DEF x, y, u
  <2>7. l \in Marks
    BY <2>3, <2>6 DEF Later, Marks
  <2>8. l \in MarksOf(d)
    <3> DEFINE S(i) == {Later(i, o) : o \in ProfileMarks(sections[i][d])}
    <3>1. l \in S(k) /\ k \in DOMAIN sections
      BY <1>2
    <3>2. MarksOf(d) = UNION {S(i) : i \in DOMAIN sections}
      BY DEF MarksOf
    <3> HIDE DEF S, l
    <3> QED BY <3>1, <3>2
  <2>9. AtTime(at).states[d].p = m.p
    <3>1. Agree(AtTime(at).states[d], StateAt(sections[k][d], at - From(k)), "position")
      BY <1>1, <1>4, <2>6, SampleInSection
    <3> QED BY <2>3, <2>6, <3>1 DEF Agree
  <2> HIDE DEF l, at
  <2> QED BY <2>4, <2>6, <2>7, <2>8, <2>9 DEF l
<1>6. ASSUME NEW m \in MarksOf(d)
      PROVE  m \in Marks /\ m.time \in 0 .. Whole /\ AtTime(m.time).states[d].p = m.p
  <2>1. PICK k \in 1 .. n : \E o \in ProfileMarks(sections[k][d]) : m = Later(k, o)
    BY <1>2 DEF MarksOf
  <2> QED BY <1>5, <2>1
<1>7. ASSUME NEW at \in 0 .. Whole
      PROVE  /\ AtTime(at).states[d].p \in Int
             /\ \E m \in MarksOf(d) : m.high /\ AtTime(at).states[d].p <= m.p
             /\ \E m \in MarksOf(d) : m.low /\ m.p <= AtTime(at).states[d].p
  <2>1. PICK k \in 1 .. n :
          /\ at - From(k) \in 0 .. Ends(sections[k][d])
          /\ AtTime(at).states[d] = StateAt(sections[k][d], at - From(k))
    BY WithinSection
  <2>2. PICK start : Joined(sections[k][d], start, "position")
    BY <1>1, SectionsEven
  <2>3. Even(sections[k][d])
    BY <1>1, SectionsEven
  <2>4. AtTime(at).states[d].p \in Int
    BY <2>1, <2>2, PositionsAreNumbers
  <2>5. PICK top \in ProfileMarks(sections[k][d]) : top.high /\ AtTime(at).states[d].p <= top.p
    BY <2>1, <2>2, <2>3, MarksBound
  <2>6. PICK low \in ProfileMarks(sections[k][d]) : low.low /\ low.p <= AtTime(at).states[d].p
    BY <2>1, <2>2, <2>3, MarksBound
  <2>7. /\ Later(k, top) \in MarksOf(d) /\ Later(k, top).p = top.p /\ Later(k, top).high = top.high
        /\ Later(k, low) \in MarksOf(d) /\ Later(k, low).p = low.p /\ Later(k, low).low = low.low
    BY <1>5
  <2> QED BY <2>4, <2>5, <2>6, <2>7
<1> QED BY <1>3, <1>6, <1>7

\* So the extremes of the marks are those of the trajectory.
LEMMA ExtremaFound ==
  ASSUME TrajectoryInv, Together, TurnsFound, valid, NEW d \in Dofs
  PROVE  LET e == Extrema(d)
         IN  /\ AtTime(e.t_min).states[d].p = e.min
             /\ AtTime(e.t_max).states[d].p = e.max
             /\ \A at \in 0 .. Whole :
                  e.min <= AtTime(at).states[d].p /\ AtTime(at).states[d].p <= e.max
<1> DEFINE marks == MarksOf(d)
           e == Extremes(marks)
           place(at) == AtTime(at).states[d].p
<1>1. /\ Whole \in Nat /\ marks \in SUBSET Marks
      /\ \A m \in marks : m.time \in 0 .. Whole /\ place(m.time) = m.p
      /\ \A at \in 0 .. Whole :
           /\ place(at) \in Int
           /\ \E m \in marks : m.high /\ place(at) <= m.p
           /\ \E m \in marks : m.low /\ m.p <= place(at)
  BY TrajectoryMarks
<1>2. Extrema(d) = e
  BY DEF Extrema, MarksOf, Later
<1> HIDE DEF marks, place
<1>3. ASSUME NEW s \in {-1, 1}
      PROVE  \E x \in 0 .. Whole : \A y \in 0 .. Whole : s * place(y) <= s * place(x)
  <2> DEFINE f == [x \in 0 .. Whole |-> s * place(x)]
  <2>1. f \in [0 .. Whole -> Int]
    BY <1>1
  <2> HIDE DEF f
  <2>2. PICK x \in 0 .. Whole : \A y \in 0 .. Whole : f[y] <= f[x]
    BY <1>1, <2>1, GreatestOf
  <2> QED BY <2>2 DEF f
<1>4. PICK x \in 0 .. Whole : \A y \in 0 .. Whole : 1 * place(y) <= 1 * place(x)
  BY <1>3
<1>5. PICK z \in 0 .. Whole : \A y \in 0 .. Whole : (-1) * place(y) <= (-1) * place(z)
  BY <1>3
<1>6. /\ place(x) \in Int /\ place(z) \in Int
      /\ \A m \in marks : place(z) <= m.p /\ m.p <= place(x)
      /\ \E m \in marks : m.low
      /\ \E m \in marks : m.high
  BY <1>1, <1>4, <1>5
<1>7. /\ e.min \in Int /\ e.max \in Int
      /\ \E m \in marks : m.low /\ m.p = e.min /\ m.time = e.t_min
      /\ \E m \in marks : m.high /\ m.p = e.max /\ m.time = e.t_max
      /\ \A m \in marks : m.low => e.min <= m.p
      /\ \A m \in marks : m.high => m.p <= e.max
  BY <1>1, <1>6, ExtremesFound
<1> HIDE DEF e
<1>8. place(e.t_min) = e.min /\ place(e.t_max) = e.max
  BY <1>1, <1>7
<1>9. \A at \in 0 .. Whole : e.min <= place(at) /\ place(at) <= e.max
  <2> TAKE at \in 0 .. Whole
  <2>1. PICK top \in marks : top.high /\ place(at) <= top.p
    BY <1>1
  <2>2. PICK low \in marks : low.low /\ low.p <= place(at)
    BY <1>1
  <2>3. place(at) \in Int /\ top.p \in Int /\ low.p \in Int
    BY <1>1 DEF Marks
  <2>4. e.min <= low.p /\ top.p <= e.max
    BY <1>7, <2>1, <2>2
  <2> QED BY <1>7, <2>1, <2>2, <2>3, <2>4
<1> QED BY <1>2, <1>8, <1>9 DEF place

\* The extrema asked for are exact (ruckig_trajectory_get_position_extrema):
\* positions the trajectory has at the times they are told for, and it never
\* leaves them, where the turns are found.
THEOREM ExtremaExactHolds ==
  ASSUME Together, TurnsFound PROVE Spec => []ExtremaExact
<1>1. TrajectoryInv => ExtremaExact
  <2> SUFFICES ASSUME TrajectoryInv PROVE ExtremaExact
    OBVIOUS
  <2>1. ExtremaReached
    BY ExtremaFound DEF ExtremaReached
  <2>2. ExtremaBound
    <3> SUFFICES ASSUME valid, time <= Whole, NEW d \in Dofs
                 PROVE  /\ Extrema(d).min <= sample.states[d].p
                        /\ sample.states[d].p <= Extrema(d).max
      BY DEF ExtremaBound
    <3>1. time \in Nat /\ sample = AtTime(time) /\ Whole \in Nat
      BY Complete, TrajectoryMarks
    <3>2. time \in 0 .. Whole
      BY <3>1
    <3> QED BY <3>1, <3>2, ExtremaFound
  <2> QED BY <2>1, <2>2 DEF ExtremaExact
<1>2. Spec => []TrajectoryInv
  BY TrajectoryInvariant
<1> QED BY <1>1, <1>2, PTL

-----------------------------------------------------------------------------
(* The first time at a position.                                           *)

\* A profile without a brake, and without a piece at rest.
Moving(P) ==
  /\ BrakeDuration(P.brake) = 0
  /\ \A i \in Pieces : P.t[i] > 0 => ~ Resting(P.s[i], P.j[i])

\* The times found for it are all the times it is at the position.
LEMMA TimesExact ==
  ASSUME NEW P, NEW start, NEW what, Joined(P, start, what), P.pf = StateOf(P, 9).p,
         Moving(P), NEW position, NEW x
  PROVE  x \in TimesFound(P, position) <=>
           x \in 0 .. Ends(P) /\ StateAt(P, x).p = position
<1>0. /\ \A k \in Segments : Begin(P, k + 1) = Begin(P, k) + Lasts(P, k)
      /\ \A k \in Segments : Lasts(P, k) \in Nat
      /\ \A k \in 0 .. 9 : Begin(P, k) \in Nat
      /\ Begin(P, 9) = Ends(P) /\ Ends(P) \in Nat
      /\ \A k \in 0 .. 9 : StateOf(P, k) \in States
      /\ \A k \in Segments : JerkOf(P, k) \in Int
  BY BeginSums DEF Joined
<1>1. /\ P.t \in Timings /\ P.brake.t[1] = 0 /\ P.brake.t[2] = 0
      /\ Ends(P) = Duration(P.t) /\ Duration(P.t) \in Nat
  <2>1. P.t \in Timings /\ P.brake.t[1] \in Nat /\ P.brake.t[2] \in Nat
    BY DEF Joined
  <2>2. Duration(P.t) \in Nat
    BY <2>1, StartTypes
  <2> QED BY <2>1, <2>2 DEF Moving, BrakeDuration, Ends
<1>2. ASSUME NEW i \in Pieces
      PROVE  /\ i + 2 \in Segments /\ Begin(P, i + 2) = Start(P.t, i)
             /\ StateOf(P, i + 2) = P.s[i] /\ Lasts(P, i + 2) = P.t[i] /\ JerkOf(P, i + 2) = P.j[i]
             /\ Begin(P, (i + 2) + 1) = Start(P.t, i) + P.t[i]
             /\ Start(P.t, i) \in Nat /\ P.t[i] \in Nat /\ P.j[i] \in Int /\ P.s[i] \in States
             /\ Start(P.t, i) + P.t[i] <= Ends(P)
  <2>1. /\ i + 2 \in Segments /\ ~ (i + 2 < 2) /\ (i + 2) - 2 = i
        /\ i + 2 \in 0 .. 9 /\ (i + 2) + 1 \in 0 .. 9 /\ 9 \in (i + 2) + 1 .. 9
    BY DEF Pieces, Segments
  <2>2. /\ StateOf(P, i + 2) = P.s[i] /\ Lasts(P, i + 2) = P.t[i] /\ JerkOf(P, i + 2) = P.j[i]
    BY <2>1 DEF StateOf, Lasts, JerkOf
  <2>3. Start(P.t, i) \in Nat
    BY <1>1, StartTypes DEF Pieces
  <2>4. Begin(P, i + 2) = Start(P.t, i)
    BY <2>1, <2>3 DEF Begin, Moving
  <2>5. Begin(P, (i + 2) + 1) <= Ends(P)
    BY <1>0, <2>1, BeginGrows
  <2>6. Begin(P, (i + 2) + 1) = Begin(P, i + 2) + Lasts(P, i + 2)
    BY <1>0, <2>1
  <2>7. P.t[i] \in Nat /\ P.j[i] \in Int /\ P.s[i] \in States
    BY <1>0, <2>1, <2>2
  <2> QED BY <2>1, <2>2, <2>3, <2>4, <2>5, <2>6, <2>7
<1>3. ASSUME NEW i \in Pieces, NEW k \in 0 .. P.t[i]
      PROVE  /\ Start(P.t, i) + k \in 0 .. Ends(P)
             /\ StateAt(P, Start(P.t, i) + k).p = Move(P.s[i], k, P.j[i]).p
  <2> DEFINE at == Start(P.t, i) + k
  <2>1. /\ at \in Nat /\ at \in 0 .. Ends(P) /\ at - Start(P.t, i) = k
        /\ Begin(P, i + 2) <= at /\ at <= Begin(P, (i + 2) + 1)
    BY <1>0, <1>2
  <2> HIDE DEF at
  <2>2. i + 2 \in Segments
    BY <1>2
  <2>3. Agree(StateAt(P, at), Move(StateOf(P, i + 2), at - Begin(P, i + 2), JerkOf(P, i + 2)), what)
    BY <2>1, <2>2, StateInSegment
  <2>4. StateAt(P, at).p = Move(P.s[i], k, P.j[i]).p
    BY <1>2, <2>1, <2>3 DEF Agree
  <2> QED BY <2>1, <2>4 DEF at
<1>4. \A i \in Pieces : Move(P.s[i], 0, P.j[i]).p = P.s[i].p
  BY <1>2, MovesAdd
<1> DEFINE Found(i) ==
        {Start(P.t, i) : y \in {y \in {0} : P.s[i].p = position}} \cup
        {Start(P.t, i) + k : k \in {k \in 1 .. P.t[i] :
            /\ ~Resting(P.s[i], P.j[i])
            /\ Move(P.s[i], k, P.j[i]).p = position}}
           AtEnd == (P.t[6] > 0 \/ Duration(P.t) = 0) /\ P.pf = position
<1>5. TimesFound(P, position) =
        (UNION {Found(i) : i \in {i \in Pieces : P.t[i] > 0}})
        \cup (IF AtEnd THEN {Duration(P.t)} ELSE {})
  BY DEF TimesFound
<1>6. StateAt(P, Ends(P)).p = P.pf
  BY ProfileTicks DEF Agree
<1>7. \A i \in Pieces : P.t[i] > 0 =>
        (x \in Found(i) <=>
           \E k \in 0 .. P.t[i] : x = Start(P.t, i) + k /\ Move(P.s[i], k, P.j[i]).p = position)
  <2> TAKE i \in Pieces
  <2> HAVE P.t[i] > 0
  <2>1. ~ Resting(P.s[i], P.j[i])
    BY DEF Moving
  <2>2. P.t[i] \in Nat /\ Start(P.t, i) \in Nat /\ Move(P.s[i], 0, P.j[i]).p = P.s[i].p
    BY <1>2, <1>4
  <2>3. \A k : k \in 0 .. P.t[i] <=> k = 0 \/ k \in 1 .. P.t[i]
    BY <2>2
  <2>4. x \in Found(i) <=>
          \/ P.s[i].p = position /\ x = Start(P.t, i)
          \/ \E k \in 1 .. P.t[i] : x = Start(P.t, i) + k /\ Move(P.s[i], k, P.j[i]).p = position
    BY <2>1
  <2>5. Start(P.t, i) = Start(P.t, i) + 0
    BY <2>2
  <2> HIDE DEF Found
  <2> QED BY <2>2, <2>3, <2>4, <2>5
<1> HIDE DEF Found, AtEnd
<1>8. ASSUME x \in TimesFound(P, position)
      PROVE  x \in 0 .. Ends(P) /\ StateAt(P, x).p = position
  <2>1. CASE \E i \in Pieces : P.t[i] > 0 /\ x \in Found(i)
    <3>1. PICK i \in Pieces : P.t[i] > 0 /\ x \in Found(i)
      BY <2>1
    <3>2. PICK k \in 0 .. P.t[i] :
            x = Start(P.t, i) + k /\ Move(P.s[i], k, P.j[i]).p = position
      BY <1>7, <3>1
    <3> QED BY <1>3, <3>2
  <2>2. CASE AtEnd /\ x = Duration(P.t)
    BY <1>0, <1>1, <1>6, <2>2 DEF AtEnd
  <2>3. (\E i \in Pieces : P.t[i] > 0 /\ x \in Found(i)) \/ (AtEnd /\ x = Duration(P.t))
    BY <1>5, <1>8
  <2> QED BY <2>1, <2>2, <2>3
<1>9. ASSUME x \in 0 .. Ends(P), StateAt(P, x).p = position
      PROVE  x \in TimesFound(P, position)
  <2>1. ASSUME NEW y \in Nat, y < Ends(P), x \in {y, y + 1} PROVE x \in TimesFound(P, position)
    <3>1. PICK g \in Segments : Begin(P, g) <= y /\ y < Begin(P, g + 1)
      BY <2>1, SegmentFound
    <3>2. /\ Begin(P, g + 1) = Begin(P, g) + Lasts(P, g) /\ Lasts(P, g) \in Nat
          /\ Begin(P, g) \in Nat /\ Begin(P, g + 1) \in Nat
      BY <1>0 DEF Segments
    <3>3. ~ (g < 2)
      <4>1. CASE g = 0
        BY <1>1, <3>1, <3>2, <4>1 DEF Lasts
      <4>2. CASE g = 1
        BY <1>1, <3>1, <3>2, <4>2 DEF Lasts
      <4> QED BY <4>1, <4>2 DEF Segments
    <3>4. g - 2 \in Pieces /\ (g - 2) + 2 = g
      BY <3>3 DEF Segments, Pieces
    <3> DEFINE i == g - 2
               k == x - Start(P.t, i)
    <3>5. /\ Begin(P, g) = Start(P.t, i) /\ Lasts(P, g) = P.t[i]
          /\ Start(P.t, i) \in Nat /\ P.t[i] \in Nat
      BY <1>2, <3>4
    <3>6. P.t[i] > 0 /\ k \in 0 .. P.t[i] /\ x = Start(P.t, i) + k
      BY <2>1, <3>1, <3>2, <3>5
    <3>7. i \in Pieces
      BY <3>4
    <3> HIDE DEF i, k
    <3>8. Move(P.s[i], k, P.j[i]).p = position
      BY <1>3, <1>9, <3>6, <3>7
    <3>9. x \in Found(i)
      BY <1>7, <3>6, <3>7, <3>8
    <3> QED BY <1>5, <3>6, <3>7, <3>9
  <2>2. CASE Ends(P) = 0
    <3>1. x = 0 /\ AtEnd /\ Duration(P.t) = 0
      BY <1>1, <1>6, <1>9, <2>2 DEF AtEnd
    <3> QED BY <1>5, <3>1
  <2>3. CASE Ends(P) # 0 /\ x = 0
    BY <1>0, <2>1, <2>3
  <2>4. CASE x # 0
    <3>1. x - 1 \in Nat /\ x - 1 < Ends(P) /\ x = (x - 1) + 1
      BY <1>0, <1>9, <2>4
    <3> QED BY <2>1, <3>1
  <2> QED BY <2>2, <2>3, <2>4
<1> QED BY <1>8, <1>9

\* How long a brake lasts is a number of ticks.
LEMMA BrakeLasts ==
  ASSUME NEW P, NEW start, NEW what, Joined(P, start, what)
  PROVE  BrakeDuration(P.brake) \in Nat
BY DEF Joined, BrakeDuration

\* The later of a time and 0.
LEMMA NotBeforeZero ==
  ASSUME NEW x \in Int
  PROVE  Max({x, 0}) \in Nat /\ x <= Max({x, 0}) /\ (Max({x, 0}) = x \/ Max({x, 0}) = 0)
<1>1. {x, 0} \in SUBSET Int /\ {x, 0} # {}
  OBVIOUS
<1>2. CASE x >= 0
  <2>1. \A y \in {x, 0} : y <= x
    BY <1>2
  <2>2. Max({x, 0}) \in {x, 0} /\ \A y \in {x, 0} : y <= Max({x, 0})
    BY <1>1, <2>1, GreatestNumber
  <2> QED BY <1>2, <2>2
<1>3. CASE x < 0
  <2>1. \A y \in {x, 0} : y <= 0
    BY <1>3
  <2>2. Max({x, 0}) \in {x, 0} /\ \A y \in {x, 0} : y <= Max({x, 0})
    BY <1>1, <2>1, GreatestNumber
  <2> QED BY <1>3, <2>2
<1> QED BY <1>2, <1>3

\* The times a section is at a position, of those asked for.
TimesTold(d, position, k, after) ==
  \A x : x \in TimesAt(sections[k][d], position, after) <=>
           /\ x \in after .. until[k] - From(k)
           /\ AtTime(From(k) + x).states[d].p = position

\* A section tells the times it is at a position, no more and no fewer.
LEMMA SectionTimesExact ==
  ASSUME TrajectoryInv, Together, AllTimed, valid, NEW d \in Dofs, ~ Brakes(d), ~ Rests(d),
         NEW position, NEW k \in 1 .. Len(sections), NEW after \in Nat
  PROVE  TimesTold(d, position, k, after)
<1> SUFFICES ASSUME NEW x
             PROVE  x \in TimesAt(sections[k][d], position, after) <=>
                      /\ x \in after .. until[k] - From(k)
                      /\ AtTime(From(k) + x).states[d].p = position
  BY DEF TimesTold
<1> DEFINE n == Len(sections)
           P == sections[k][d]
<1>1. sections # <<>> /\ n \in Nat \ {0} /\ SectionInv
  BY Complete DEF TrajectoryInv
<1>2. /\ From(k) \in Nat /\ until[k] \in Nat /\ From(k) <= until[k]
      /\ Ends(P) = until[k] - From(k)
      /\ DOMAIN sections = 1 .. n
  BY <1>1, SectionTimes
<1>3. Chained(d, "position")
  BY <1>1, SectionsChained DEF Carried
<1>4. PICK start : Joined(P, start, "position")
  BY <1>3 DEF Chained
<1>5. P.pf = StateOf(P, 9).p
  <2>1. PICK choice \in Proposals(waypoints) : Written(k, choice)
    BY <1>1 DEF SectionInv
  <2>2. waypoints \in WaypointCounts /\ P = ProfileOf(choice[d])
    BY <1>1, <2>1 DEF SectionInv, Written, ProfilesOf
  <2>3. WellFormed(choice[d]) /\ Accepted(choice[d])
        /\ choice[d].kind # "disabled" /\ Timed(choice[d])
    BY <2>2, TrajectoryAssumption DEF Together, AllTimed
  <2> QED BY <2>2, <2>3, EndsAsMeant
<1>6. Moving(P)
  <2>1. BrakeDuration(P.brake) = 0
    <3>1. ~ (BrakeDuration(P.brake) > 0)
      BY <1>2 DEF Brakes
    <3>2. BrakeDuration(P.brake) \in Nat
      BY <1>4, BrakeLasts
    <3> QED BY <3>1, <3>2
  <2>2. \A i \in Pieces : P.t[i] > 0 => ~ Resting(P.s[i], P.j[i])
    BY <1>2 DEF Rests
  <2> QED BY <2>1, <2>2 DEF Moving
<1>7. x \in TimesFound(P, position) <=>
        x \in 0 .. Ends(P) /\ StateAt(P, x).p = position
  BY <1>4, <1>5, <1>6, TimesExact
<1>8. x \in TimesAt(P, position, after) <=> x \in TimesFound(P, position) /\ x >= after
  BY DEF TimesAt
<1>9. ASSUME x \in 0 .. Ends(P) PROVE AtTime(From(k) + x).states[d].p = StateAt(P, x).p
  <2> DEFINE at == From(k) + x
  <2>1. at \in Nat /\ From(k) <= at /\ at <= until[k] /\ at - From(k) = x
    <3> DEFINE f == From(k)
               u == until[k]
    <3>1. f \in Nat /\ u \in Nat /\ x \in 0 .. u - f
      BY <1>2, <1>9
    <3> HIDE DEF f, u
    <3>2. f + x \in Nat /\ f <= f + x /\ f + x <= u /\ (f + x) - f = x
      BY <3>1
    <3> QED BY <3>2 DEF f, u
  <2> HIDE DEF at
  <2>2. Agree(AtTime(at).states[d], StateAt(P, at - From(k)), "position")
    BY <1>1, <1>3, <2>1, SampleInSection
  <2> QED BY <2>1, <2>2 DEF Agree, at
<1>10. x \in after .. until[k] - From(k) <=> x \in 0 .. Ends(P) /\ x >= after
  BY <1>2
<1> QED BY <1>7, <1>8, <1>9, <1>10

\* Asked from any time on, the first time at a position is found, of a degree
\* of freedom that neither brakes nor rests.
LEMMA FirstFound ==
  ASSUME TrajectoryInv, Together, AllTimed, valid, NEW d \in Dofs, ~ Brakes(d), ~ Rests(d),
         NEW position, NEW after \in 0 .. Whole
  PROVE  LET first == FirstTime(d, position, after)
             end   == IF first = NotFound THEN Whole + 1 ELSE first
         IN  /\ first # NotFound => first \in after .. Whole /\ PositionAt(d, first) = position
             /\ \A at \in after .. end - 1 : PositionAt(d, at) # position
<1> DEFINE n == Len(sections)
           from(k) == Max({after - From(k), 0})
           Times(k) == TimesAt(sections[k][d], position, from(k))
           found == {k \in DOMAIN sections : Times(k) # {}}
           first == FirstTime(d, position, after)
           end   == IF first = NotFound THEN Whole + 1 ELSE first
<1>1. sections # <<>> /\ n \in Nat \ {0} /\ SectionInv
  BY Complete DEF TrajectoryInv
<1>2. /\ \A k \in 1 .. n : From(k) \in Nat /\ until[k] \in Nat /\ From(k) <= until[k]
      /\ DOMAIN sections = 1 .. n
  BY <1>1, SectionTimes
<1>3. Whole = until[n] /\ Whole \in Nat /\ \A k \in 1 .. n : until[k] <= Whole
  <2>1. Whole = until[n] /\ Whole \in Nat
    BY <1>1, <1>2 DEF Whole, Last
  <2>2. \A k \in 1 .. n : n \in k .. n
    BY <1>1
  <2> QED BY <1>1, <2>1, <2>2, UntilGrows
<1>4. \A k \in 1 .. n : from(k) \in Nat /\ after - From(k) <= from(k)
                        /\ (from(k) = after - From(k) \/ from(k) = 0)
  <2> TAKE k \in 1 .. n
  <2>1. after - From(k) \in Int
    BY <1>2, <1>3
  <2> QED BY <2>1, NotBeforeZero
<1> HIDE DEF from
<1>5. \A k \in 1 .. n : \A x :
        x \in Times(k) <=> /\ x \in from(k) .. until[k] - From(k)
                           /\ PositionAt(d, From(k) + x) = position
  <2> TAKE k \in 1 .. n
  <2> TAKE x
  <2> DEFINE f == from(k)
  <2>1. f \in Nat
    BY <1>4
  <2> HIDE DEF f
  <2>2. TimesTold(d, position, k, f)
    BY <2>1, SectionTimesExact
  <2> QED BY <2>2 DEF TimesTold, PositionAt, f
<1>6. FirstTime(d, position, after) =
        IF found = {} THEN NotFound ELSE From(Min(found)) + Min(Times(Min(found)))
  BY DEF FirstTime, from
<1> HIDE DEF Times, found, first
<1>7. ASSUME NEW at \in after .. Whole, PositionAt(d, at) = position
      PROVE  \E k \in 1 .. n : k \in found /\ From(k) <= at /\ at - From(k) \in Times(k)
  <2>1. at \in 0 .. Whole /\ at \in Nat /\ after \in Nat
    BY <1>3
  <2>2. PICK k \in 1 .. n : From(k) \in Nat /\ From(k) <= at /\ at <= until[k]
    BY <2>1, WithinSection
  <2>3. at - From(k) \in from(k) .. until[k] - From(k)
    <3> DEFINE f == from(k)
               b == From(k)
               u == until[k]
    <3>1. f \in Nat /\ (f = after - b \/ f = 0) /\ u \in Nat /\ b \in Nat /\ b <= at /\ at <= u
      BY <1>2, <1>4, <2>2
    <3> HIDE DEF f, b, u
    <3>2. at - b \in f .. u - b
      BY <2>1, <3>1
    <3> QED BY <3>2 DEF f, b, u
  <2>4. From(k) + (at - From(k)) = at
    BY <2>1, <2>2
  <2>5. at - From(k) \in Times(k)
    BY <1>5, <1>7, <2>3, <2>4
  <2> QED BY <1>2, <2>2, <2>5 DEF found
<1>8. CASE found = {}
  <2>1. first = NotFound /\ end = Whole + 1
    BY <1>6, <1>8 DEF first
  <2>2. \A at \in after .. end - 1 : PositionAt(d, at) # position
    <3>1. end - 1 = Whole
      BY <1>3, <2>1
    <3> HIDE DEF end
    <3> QED BY <1>7, <1>8, <3>1
  <2> HIDE DEF end
  <2> QED BY <2>1, <2>2 DEF end, first
<1>9. CASE found # {}
  <2> DEFINE K == Min(found)
             X == Min(Times(K))
  <2>1. K \in found /\ \A k \in found : K <= k
    <3>1. found \in SUBSET Int /\ \A k \in found : 0 <= k
      BY <1>2 DEF found
    <3> QED BY <1>9, <3>1, LeastNumber
  <2>2. K \in 1 .. n /\ Times(K) # {}
    BY <1>2, <2>1 DEF found
  <2> HIDE DEF K
  <2>3. from(K) \in Nat /\ after - From(K) <= from(K) /\ From(K) \in Nat /\ until[K] \in Nat
        /\ until[K] <= Whole /\ after \in Nat
    BY <1>2, <1>3, <1>4, <2>2
  <2>4. X \in Times(K) /\ \A x \in Times(K) : X <= x
    <3>1. Times(K) \in SUBSET Int /\ \A x \in Times(K) : 0 <= x
      <4>1. \A x \in Times(K) : x \in from(K) .. until[K] - From(K)
        BY <1>5, <2>2
      <4> QED BY <2>3, <4>1
    <3> QED BY <2>2, <3>1, LeastNumber
  <2> HIDE DEF X
  <2>5. X \in from(K) .. until[K] - From(K) /\ PositionAt(d, From(K) + X) = position
    BY <1>5, <2>2, <2>4
  <2>6. first = From(K) + X
    BY <1>6, <1>9 DEF first, K, X
  <2>7. first \in after .. Whole /\ first <= until[K]
    <3> DEFINE f == from(K)
               b == From(K)
               u == until[K]
    <3>1. /\ f \in Nat /\ after - b <= f /\ b \in Nat /\ u \in Nat /\ u <= Whole
          /\ X \in f .. u - b /\ first = b + X /\ after \in Nat /\ Whole \in Nat
      BY <1>3, <2>3, <2>5, <2>6
    <3> HIDE DEF f, b, u
    <3>2. X \in Int /\ f <= X /\ X <= u - b
      BY <3>1
    <3>3. first \in after .. Whole /\ first <= u
      BY <3>1, <3>2
    <3> QED BY <3>3 DEF u
  <2>8. first # NotFound
    BY <2>3, <2>7 DEF NotFound
  <2>9. end = first
    BY <2>8
  <2>10. ASSUME NEW at \in after .. end - 1 PROVE PositionAt(d, at) # position
    <3>1. at \in after .. Whole /\ at < first
      BY <1>3, <2>7, <2>9
    <3>2. SUFFICES ASSUME PositionAt(d, at) = position PROVE FALSE
      OBVIOUS
    <3>3. PICK k \in 1 .. n : k \in found /\ From(k) <= at /\ at - From(k) \in Times(k)
      BY <1>7, <3>1, <3>2
    <3>4. K <= k
      BY <2>1, <3>3
    <3>5. CASE k = K
      <4>1. X <= at - From(K)
        BY <2>4, <3>3, <3>5
      <4> QED BY <2>3, <2>5, <2>6, <3>1, <4>1
    <3>6. CASE k # K
      <4>1. k # 1 /\ k - 1 \in K .. n /\ k - 1 \in 1 .. n
        BY <1>1, <2>2, <3>4, <3>6
      <4>2. until[K] <= until[k - 1]
        BY <1>1, <2>2, <4>1, UntilGrows
      <4>3. From(k) = until[k - 1]
        BY <4>1 DEF From
      <4>4. until[k - 1] \in Nat
        BY <1>2, <4>1
      <4> QED BY <2>3, <2>7, <3>1, <3>3, <4>2, <4>3, <4>4
    <3> QED BY <3>5, <3>6
  <2> HIDE DEF end
  <2> QED BY <2>5, <2>6, <2>7, <2>10 DEF end, first
<1> QED BY <1>8, <1>9

\* The first time at a position is found (ruckig_trajectory_get_first_time_at_position):
\* asked from the time of any sample on, the trajectory is at the position
\* then and not before; not found, it never is.
THEOREM FirstTimeFoundHolds ==
  ASSUME Together, AllTimed PROVE Spec => []FirstTimeFoundInMotion
<1>1. TrajectoryInv => FirstTimeFoundInMotion
  <2> SUFFICES ASSUME TrajectoryInv, valid, time <= Whole, NEW d \in Dofs,
                      ~ Brakes(d), ~ Rests(d)
               PROVE  FoundFirst(d)
    BY DEF FirstTimeFoundInMotion
  <2>1. time \in 0 .. Whole
    <3>1. time \in Nat /\ sections # <<>> /\ Len(sections) \in Nat \ {0} /\ SectionInv
      BY Complete DEF TrajectoryInv
    <3>2. Whole \in Nat
      BY <3>1, SectionTimes DEF Whole, Last
    <3> QED BY <3>1, <3>2
  <2> QED BY <2>1, FirstFound DEF FoundFirst
<1>2. Spec => []TrajectoryInv
  BY TrajectoryInvariant
<1> QED BY <1>1, <1>2, PTL

-----------------------------------------------------------------------------
(* Within the limits.                                                      *)

\* Both are numbers between the limits.
LEMMA AllowedNumbers ==
  /\ VelocityRange.low \in Int /\ VelocityRange.high \in Int
  /\ AccelerationRange.low \in Int /\ AccelerationRange.high \in Int
  /\ \A x : AmongVelocities(x) <=> x \in Int /\ Within(x, VelocityRange)
  /\ \A x : AmongAccelerations(x) <=> x \in Int /\ Within(x, AccelerationRange)
<1>1. /\ VelocityRange.low \in Int /\ VelocityRange.high \in Int
      /\ AccelerationRange.low \in Int /\ AccelerationRange.high \in Int
  BY TrajectoryAssumption
<1> QED BY <1>1 DEF AmongVelocities, AmongAccelerations, Within

\* A square lies below the larger of the squares around it.
LEMMA SquareBetween ==
  ASSUME NEW x \in Int, NEW y \in Int, NEW z \in Int, x <= y, y <= z
  PROVE  /\ y * y <= x * x \/ y * y <= z * z
         /\ 0 <= x => x * x <= y * y
         /\ z <= 0 => z * z <= y * y
         /\ 0 <= y * y
<1>1. ASSUME NEW m \in Nat, NEW n \in Nat, m <= n PROVE m * m <= n * n
  <2>1. PICK k \in Nat : n = m + k
    BY <1>1
  <2>2. n * n = m * m + (2 * (m * k) + k * k)
    BY <2>1
  <2>3. m * k \in Nat /\ k * k \in Nat
    BY <2>1
  <2> QED BY <2>2, <2>3
<1>2. \A i \in Int : (-i) * (-i) = i * i
  OBVIOUS
<1>3. CASE 0 <= y
  <2>1. y * y <= z * z
    BY <1>1, <1>3
  <2>2. 0 <= x => x * x <= y * y
    BY <1>1, <1>3
  <2>3. 0 <= y * y /\ (z <= 0 => y = z)
    BY <1>3
  <2> QED BY <2>1, <2>2, <2>3
<1>4. CASE ~ (0 <= y)
  <2>1. y * y <= x * x
    <3>1. -y \in Nat /\ -x \in Nat /\ -y <= -x
      BY <1>4
    <3>2. (-y) * (-y) <= (-x) * (-x)
      BY <1>1, <3>1
    <3> QED BY <1>2, <3>2
  <2>2. z <= 0 => z * z <= y * y
    <3>1. z <= 0 => -z \in Nat /\ -y \in Nat /\ -z <= -y
      BY <1>4
    <3>2. z <= 0 => (-z) * (-z) <= (-y) * (-y)
      BY <1>1, <3>1
    <3> QED BY <1>2, <3>2
  <2>3. 0 <= y * y /\ ~ (0 <= x)
    <3>1. -y \in Nat
      BY <1>4
    <3>2. 0 <= (-y) * (-y)
      BY <3>1
    <3> QED BY <1>2, <1>4, <3>2
  <2> QED BY <2>1, <2>2, <2>3
<1> QED BY <1>3, <1>4

\* Rising with jerk 1 from a velocity and an acceleration, one is between the
\* velocities at both ends, or where the acceleration passes 0.
LEMMA RisesBetween ==
  ASSUME NEW v \in Int, NEW a \in Int, NEW n \in Nat, NEW k \in 0 .. n, NEW l \in Int, NEW h \in Int,
         l <= v, v <= h,
         l <= v + 2 * a * n + n * n, v + 2 * a * n + n * n <= h,
         a < 0 /\ a + n > 0 => l <= v - a * a
  PROVE  l <= v + 2 * a * k + k * k /\ v + 2 * a * k + k * k <= h
<1> DEFINE w(i) == v + 2 * a * i + i * i
           sq(i) == (a + i) * (a + i)
<1>1. \A i \in Int : w(i) = (v - a * a) + sq(i)
  OBVIOUS
<1>2. /\ sq(k) <= sq(0) \/ sq(k) <= sq(n)
      /\ 0 <= a => sq(0) <= sq(k)
      /\ a + n <= 0 => sq(n) <= sq(k)
      /\ 0 <= sq(k)
  <2>1. /\ a + 0 \in Int /\ a + k \in Int /\ a + n \in Int
        /\ a + 0 <= a + k /\ a + k <= a + n /\ a + 0 = a
    OBVIOUS
  <2> QED BY <2>1, SquareBetween
<1>3. w(0) = v /\ w(n) = v + 2 * a * n + n * n
  OBVIOUS
<1>4. /\ v - a * a \in Int /\ sq(0) \in Int /\ sq(k) \in Int /\ sq(n) \in Int
      /\ 0 \in Int /\ k \in Int /\ n \in Int
  OBVIOUS
<1>5. w(k) = (v - a * a) + sq(k) /\ w(0) = (v - a * a) + sq(0) /\ w(n) = (v - a * a) + sq(n)
  BY <1>1, <1>4
<1> DEFINE c == v - a * a
<1>6. /\ l <= w(0) /\ w(0) <= h /\ l <= w(n) /\ w(n) <= h
      /\ a < 0 /\ a + n > 0 => l <= c
  BY <1>3
<1>7. c \in Int /\ w(k) = c + sq(k) /\ w(0) = c + sq(0) /\ w(n) = c + sq(n)
  BY <1>4, <1>5
<1> HIDE DEF w, sq, c
<1>8. l <= w(k) /\ w(k) <= h
  <2>1. w(k) <= h
    BY <1>2, <1>4, <1>6, <1>7
  <2>2. l <= w(k)
    BY <1>2, <1>4, <1>6, <1>7
  <2> QED BY <2>1, <2>2
<1> QED BY <1>8 DEF w

\* The sign of a product.
LEMMA ProductSign ==
  ASSUME NEW x \in Int, NEW y \in Int
  PROVE  /\ x >= 0 /\ y >= 0 => x * y >= 0
         /\ x <= 0 /\ y <= 0 => x * y >= 0
         /\ x <= 0 /\ y >= 0 => x * y <= 0
         /\ x < 0 /\ y > 0 => x * y < 0
         /\ x > 0 /\ y < 0 => x * y < 0
         /\ x * y < 0 => (x < 0 /\ y > 0) \/ (x > 0 /\ y < 0)
OBVIOUS

\* Where the acceleration changes its sign within a piece, the velocity is allowed.
TurnAllowed(s, j, e) == j # 0 /\ s.a * e.a < 0 => TurnsWithin(s, j, VelocityRange)

\* A piece that begins and ends within the limits, and turns within them, keeps
\* to them: ruckig_profile_check_ctx looks at no more than that.
LEMMA PieceKept ==
  ASSUME NEW s \in States, NEW n \in Nat, NEW k \in 0 .. n, NEW j \in {-1, 0, 1},
         Allowed(s), Allowed(Move(s, n, j)),
         TurnAllowed(s, j, Move(s, n, j))
  PROVE  Allowed(Move(s, k, j))
<1> DEFINE v == s.v
           a == s.a
           l == VelocityRange.low
           h == VelocityRange.high
           x == AccelerationRange.low
           y == AccelerationRange.high
<1>1. v \in Int /\ a \in Int /\ l \in Int /\ h \in Int /\ x \in Int /\ y \in Int /\ k \in Nat /\ k <= n
  BY AllowedNumbers DEF States
<1>2. \A i : Move(s, i, j).v = v + 2 * a * i + j * i * i /\ Move(s, i, j).a = a + j * i
  BY DEF Move
<1>3. /\ l <= v /\ v <= h /\ x <= a /\ a <= y
      /\ l <= v + 2 * a * n + j * n * n /\ v + 2 * a * n + j * n * n <= h
      /\ x <= a + j * n /\ a + j * n <= y
  BY <1>2 DEF Allowed, Within
<1>4. j # 0 /\ a * (a + j * n) < 0 =>
        IF j > 0 THEN l * j <= v * j - a * a ELSE h * j <= v * j - a * a
  BY <1>2 DEF TurnAllowed, TurnsWithin
<1> SUFFICES /\ l <= v + 2 * a * k + j * k * k /\ v + 2 * a * k + j * k * k <= h
             /\ x <= a + j * k /\ a + j * k <= y
  BY <1>2 DEF Allowed, Within
<1> HIDE DEF v, a, l, h, x, y
<1>5. CASE j = 1
  <2>1. /\ l <= v + 2 * a * n + n * n /\ v + 2 * a * n + n * n <= h
        /\ x <= a + k /\ a + k <= y
    BY <1>1, <1>3, <1>5
  <2>2. ASSUME a < 0 /\ a + n > 0 PROVE l <= v - a * a
    <3>1. a * (a + n) < 0
      BY <1>1, <2>2, ProductSign
    <3>2. l * 1 <= v * 1 - a * a
      BY <1>1, <1>4, <1>5, <3>1
    <3> QED BY <1>1, <3>2
  <2>3. l <= v + 2 * a * k + k * k /\ v + 2 * a * k + k * k <= h
    BY <1>1, <1>3, <2>1, <2>2, RisesBetween
  <2>4. j * k * k = k * k /\ j * k = k
    BY <1>1, <1>5
  <2> QED BY <2>1, <2>3, <2>4
<1>6. CASE j = -1
  <2> DEFINE mv == -v
             ma == -a
             ml == -h
             mh == -l
  <2>1. /\ ml <= mv /\ mv <= mh
        /\ ml <= mv + 2 * ma * n + n * n /\ mv + 2 * ma * n + n * n <= mh
        /\ x <= a - k /\ a - k <= y
    <3>1. v + 2 * a * n + j * n * n = v + 2 * a * n - n * n /\ a + j * n = a - n
      BY <1>1, <1>6
    <3>2. mv + 2 * ma * n + n * n = -(v + 2 * a * n - n * n)
      BY <1>1
    <3>3. v + 2 * a * n - n * n \in Int
      BY <1>1
    <3> DEFINE w == v + 2 * a * n - n * n
    <3>4. mv + 2 * ma * n + n * n = -w /\ l <= w /\ w <= h /\ w \in Int
      BY <1>3, <3>1, <3>2, <3>3
    <3>5. x <= a - k /\ a - k <= y
      BY <1>1, <1>3, <3>1
    <3> HIDE DEF w
    <3> QED BY <1>1, <1>3, <3>4, <3>5
  <2>2. ASSUME ma < 0 /\ ma + n > 0 PROVE ml <= mv - ma * ma
    <3>1. a * (a - n) < 0
      BY <1>1, <2>2, ProductSign
    <3>2. h * (-1) <= v * (-1) - a * a
      BY <1>1, <1>4, <1>6, <3>1
    <3>3. ma * ma = a * a
      BY <1>1
    <3> QED BY <1>1, <3>2, <3>3
  <2>3. mv \in Int /\ ma \in Int /\ ml \in Int /\ mh \in Int
    BY <1>1
  <2>4. ml <= mv + 2 * ma * k + k * k /\ mv + 2 * ma * k + k * k <= mh
    <3> HIDE DEF mv, ma, ml, mh
    <3> QED BY <1>1, <2>1, <2>2, <2>3, RisesBetween
  <2>5. mv + 2 * ma * k + k * k = -(v + 2 * a * k - k * k)
    BY <1>1
  <2>6. j * k * k = -(k * k) /\ j * k = -k
    BY <1>1, <1>6
  <2> DEFINE w == v + 2 * a * k - k * k
  <2>7. ml <= -w /\ -w <= mh /\ w \in Int
    BY <1>1, <2>4, <2>5
  <2>8. l <= w /\ w <= h
    <3> HIDE DEF w
    <3> QED BY <1>1, <2>7
  <2>9. v + 2 * a * k + j * k * k = w /\ a + j * k = a - k
    BY <1>1, <2>6
  <2> QED BY <2>1, <2>8, <2>9
<1>7. CASE j = 0
  <2>1. j * k * k = 0 /\ j * k = 0 /\ j * n * n = 0
    BY <1>1, <1>7
  <2>2. a >= 0 => 0 <= a * k /\ a * k <= a * n
    <3>1. a >= 0 => a * k >= 0 /\ a * (n - k) >= 0
      BY <1>1, ProductSign
    <3>2. a * (n - k) = a * n - a * k
      BY <1>1
    <3> QED BY <1>1, <3>1, <3>2
  <2>3. a <= 0 => 0 >= a * k /\ a * k >= a * n
    <3>1. a <= 0 => a * k <= 0 /\ a * (n - k) <= 0
      BY <1>1, ProductSign
    <3>2. a * (n - k) = a * n - a * k
      BY <1>1
    <3> QED BY <1>1, <3>1, <3>2
  <2>4. 2 * a * k = 2 * (a * k) /\ 2 * a * n = 2 * (a * n) /\ a * k \in Int /\ a * n \in Int
    BY <1>1
  <2> DEFINE p == a * k
             q == a * n
  <2>5. /\ a >= 0 => 0 <= p /\ p <= q
        /\ a <= 0 => 0 >= p /\ p >= q
        /\ p \in Int /\ q \in Int
        /\ v + 2 * a * k + j * k * k = v + 2 * p /\ v + 2 * a * n + j * n * n = v + 2 * q
        /\ a + j * k = a
    BY <1>1, <2>1, <2>2, <2>3, <2>4
  <2>6. l <= v + 2 * p /\ v + 2 * p <= h
    <3> HIDE DEF p, q
    <3> QED BY <1>1, <1>3, <2>5
  <2> QED BY <1>3, <2>5, <2>6
<1> QED BY <1>5, <1>6, <1>7

\* Two pieces before the first checked velocity: speeding up from a state that
\* needs no brake, and on, one stays between its velocity and the next checked.
LEMMA RiseAndGoOn ==
  ASSUME NEW v \in Int, NEW a \in Int, NEW n \in Nat, NEW m \in Nat, NEW o \in Nat,
         NEW j \in {-1, 0, 1}, NEW l \in Int, NEW h \in Int, NEW b \in Int,
         NEW v1 \in Int, NEW v2 \in Int, NEW v3 \in Int,
         b = a + n, v1 = (v - a * a) + b * b, v2 = v1 + 2 * (b * m),
         v3 = v2 + 2 * (b * o) + j * (o * o),
         l <= v, v <= h, l <= v3, v3 <= h,
         a < 0 => l <= v - a * a,
         j = 1 /\ b < 0 /\ b + o > 0 => l <= v2 - b * b,
         j = -1 /\ b > 0 /\ b - o < 0 => v2 + b * b <= h
  PROVE  l <= v1 /\ v1 <= h /\ l <= v2 /\ v2 <= h
<1>1. /\ a * a \in Int /\ b * b \in Int /\ 0 <= b * b /\ b * m \in Int /\ b * o \in Int
      /\ o * o \in Int /\ 0 <= o * o
      /\ 0 <= a => a * a <= b * b
      /\ b <= 0 => b * b <= a * a
  <2>1. a <= b /\ a <= a
    OBVIOUS
  <2>2. (0 <= a => a * a <= b * b) /\ 0 <= b * b
    BY <2>1, SquareBetween
  <2>3. b <= 0 => b * b <= a * a
    BY <2>1, SquareBetween
  <2> QED BY <2>2, <2>3, ProductSign
<1>2. /\ b >= 0 => b * m >= 0 /\ b * o >= 0
      /\ b <= 0 => b * m <= 0 /\ b * o <= 0
  BY ProductSign
<1>3. /\ j = -1 /\ b >= o => 2 * (b * o) - o * o >= 0
      /\ j = 1 /\ b + o <= 0 => 2 * (b * o) + o * o <= 0
  <2>1. 2 * (b * o) - o * o = (b * o) + (b - o) * o
    OBVIOUS
  <2>2. 2 * (b * o) + o * o = (b * o) + (b + o) * o
    OBVIOUS
  <2>3. b >= o => b * o >= 0 /\ (b - o) * o >= 0 /\ (b - o) * o \in Int
    BY ProductSign
  <2>4. b + o <= 0 => b * o <= 0 /\ (b + o) * o <= 0 /\ (b + o) * o \in Int
    BY ProductSign
  <2> DEFINE p == (b - o) * o
             q == (b + o) * o
  <2>5. p \in Int /\ q \in Int
    OBVIOUS
  <2>6. /\ 2 * (b * o) - o * o = (b * o) + p
        /\ 2 * (b * o) + o * o = (b * o) + q
        /\ b >= o => b * o >= 0 /\ p >= 0
        /\ b + o <= 0 => b * o <= 0 /\ q <= 0
    BY <2>1, <2>2, <2>3, <2>4
  <2> HIDE DEF p, q
  <2> QED BY <1>1, <2>5, <2>6
<1>4. /\ j = 1 => j * (o * o) = o * o
      /\ j = 0 => j * (o * o) = 0
      /\ j = -1 => j * (o * o) = -(o * o)
  OBVIOUS
<1> DEFINE aa == a * a
           bb == b * b
           bm == b * m
           bo == b * o
           oo == o * o
           jo == j * (o * o)
<1>5. /\ aa \in Int /\ bb \in Int /\ bm \in Int /\ bo \in Int /\ oo \in Int /\ jo \in Int
      /\ v1 = (v - aa) + bb /\ v2 = v1 + 2 * bm /\ v3 = v2 + 2 * bo + jo
      /\ a < 0 => l <= v - aa
      /\ j = 1 /\ b < 0 /\ b + o > 0 => l <= v2 - bb
      /\ j = -1 /\ b > 0 /\ b - o < 0 => v2 + bb <= h
      /\ 0 <= bb /\ 0 <= oo
      /\ 0 <= a => aa <= bb
      /\ b <= 0 => bb <= aa
      /\ b >= 0 => bm >= 0 /\ bo >= 0
      /\ b <= 0 => bm <= 0 /\ bo <= 0
      /\ j = -1 /\ b >= o => 2 * bo - oo >= 0
      /\ j = 1 /\ b + o <= 0 => 2 * bo + oo <= 0
      /\ j = 1 => jo = oo
      /\ j = 0 => jo = 0
      /\ j = -1 => jo = -oo
  BY <1>1, <1>2, <1>3, <1>4
<1> HIDE DEF aa, bb, bm, bo, oo, jo
<1>6. l <= v1
  BY <1>5
<1>7. CASE b > 0
  <2>1. v1 <= v2 /\ l <= v2
    BY <1>5, <1>6, <1>7
  <2>2. v2 <= h
    BY <1>5, <1>7
  <2> QED BY <1>6, <2>1, <2>2
<1>8. CASE b <= 0
  <2>1. v1 <= h /\ v2 <= v1
    BY <1>5, <1>8
  <2>2. CASE b = 0
    BY <1>5, <1>6, <2>1, <2>2
  <2>3. CASE b < 0
    <3>1. l <= v2
      BY <1>5, <2>3
    <3> QED BY <1>6, <2>1, <3>1
  <2> QED BY <1>6, <1>8, <2>1, <2>2, <2>3
<1> QED BY <1>7, <1>8

\* Three pieces: with jerk i from a state that needs no brake, without jerk, and
\* with jerk j to a velocity that is allowed.
FirstPieces(s, n, i, r, m, q, o, j, e) ==
  /\ s \in States /\ n \in Nat /\ m \in Nat /\ o \in Nat
  /\ i \in {-1, 0, 1} /\ j \in {-1, 0, 1} /\ (n > 0 => i # 0)
  /\ CurrentInLimits(s)
  /\ r = Move(s, n, i) /\ q = Move(r, m, 0) /\ e = Move(q, o, j)
  /\ Within(e.v, VelocityRange) /\ TurnAllowed(q, j, e)

\* The same for a motion, in either direction.
LEMMA FirstPiecesKept ==
  ASSUME NEW s, NEW n, NEW i, NEW r, NEW m, NEW q, NEW o, NEW j, NEW e,
         FirstPieces(s, n, i, r, m, q, o, j, e)
  PROVE  Within(r.v, VelocityRange) /\ Within(q.v, VelocityRange)
<1>0. /\ s \in States /\ n \in Nat /\ m \in Nat /\ o \in Nat
      /\ i \in {-1, 0, 1} /\ j \in {-1, 0, 1} /\ (n > 0 => i # 0)
      /\ CurrentInLimits(s)
      /\ r = Move(s, n, i) /\ q = Move(r, m, 0) /\ e = Move(q, o, j)
      /\ Within(e.v, VelocityRange) /\ TurnAllowed(q, j, e)
  BY DEF FirstPieces
<1> DEFINE l == VelocityRange.low
           h == VelocityRange.high
           v == s.v
           a == s.a
<1>1. /\ l \in Int /\ h \in Int /\ v \in Int /\ a \in Int
      /\ l <= v /\ v <= h
      /\ a < 0 => l <= v - a * a
      /\ a > 0 => v + a * a <= h
  BY <1>0, AllowedNumbers DEF States, CurrentInLimits, Allowed, Within
<1>2. /\ r.v = v + 2 * a * n + i * n * n /\ r.a = a + i * n
      /\ q.v = r.v + 2 * r.a * m + 0 * m * m /\ q.a = r.a + 0 * m
      /\ e.v = q.v + 2 * q.a * o + j * o * o /\ e.a = q.a + j * o
  <2>1. \A x, y, z : /\ Move(x, y, z).v = x.v + 2 * x.a * y + z * y * y
                     /\ Move(x, y, z).a = x.a + z * y
    BY DEF Move
  <2>2. r.v = v + 2 * a * n + i * n * n /\ r.a = a + i * n
    BY <1>0, <2>1
  <2>3. q.v = r.v + 2 * r.a * m + 0 * m * m /\ q.a = r.a + 0 * m
    BY <1>0, <2>1
  <2>4. e.v = q.v + 2 * q.a * o + j * o * o /\ e.a = q.a + j * o
    BY <1>0, <2>1
  <2> QED BY <2>2, <2>3, <2>4
<1>3. r \in States /\ q \in States /\ e \in States
  <2>1. r \in States
    BY <1>0, MoveType
  <2>2. q \in States
    BY <1>0, <2>1, MoveType
  <2> QED BY <1>0, <2>1, <2>2, MoveType
<1>4. /\ l <= e.v /\ e.v <= h
      /\ j # 0 /\ q.a * e.a < 0 =>
           IF j > 0 THEN l * j <= q.v * j - q.a * q.a ELSE h * j <= q.v * j - q.a * q.a
  BY <1>0 DEF Within, TurnAllowed, TurnsWithin
<1>5. /\ r.v \in Int /\ r.a \in Int /\ q.v \in Int /\ q.a \in Int /\ e.v \in Int /\ e.a \in Int
  BY <1>3 DEF States
<1> SUFFICES l <= r.v /\ r.v <= h /\ l <= q.v /\ q.v <= h
  BY DEF Within
<1> HIDE DEF l, h, v, a
<1>6. /\ q.v = r.v + 2 * (r.a * m) /\ q.a = r.a
      /\ e.v = q.v + 2 * (r.a * o) + j * (o * o) /\ e.a = r.a + j * o
  BY <1>0, <1>2, <1>5
<1>7. /\ j = 1 /\ q.a < 0 /\ q.a + o > 0 => l <= q.v - q.a * q.a
      /\ j = -1 /\ q.a > 0 /\ q.a - o < 0 => q.v + q.a * q.a <= h
      /\ j = -1 /\ q.a > 0 /\ q.a - o < 0 => q.v + q.a * q.a <= h
  <2>1. ASSUME j = 1, q.a < 0, q.a + o > 0 PROVE l <= q.v - q.a * q.a
    <3>1. e.a = q.a + o
      BY <1>0, <1>5, <1>6, <2>1
    <3>2. q.a * e.a < 0
      BY <1>0, <1>5, <2>1, <3>1, ProductSign
    <3>3. l * 1 <= q.v * 1 - q.a * q.a
      BY <1>0, <1>4, <2>1, <3>2
    <3> QED BY <1>0, <1>1, <1>5, <3>3
  <2>2. ASSUME j = -1, q.a > 0, q.a - o < 0 PROVE q.v + q.a * q.a <= h
    <3>1. e.a = q.a - o
      BY <1>0, <1>5, <1>6, <2>2
    <3>2. q.a * e.a < 0
      BY <1>0, <1>5, <2>2, <3>1, ProductSign
    <3>3. h * (-1) <= q.v * (-1) - q.a * q.a
      BY <1>0, <1>4, <2>2, <3>2
    <3>4. q.a * q.a \in Int
      BY <1>0, <1>5
    <3> QED BY <1>0, <1>1, <1>5, <3>3, <3>4
  <2> QED BY <2>1, <2>2
<1>8. CASE i = 1 \/ n = 0
  <2>1. r.a = a + n
    BY <1>0, <1>1, <1>2, <1>8
  <2>2. r.v = (v - a * a) + r.a * r.a
    <3>1. r.v = v + 2 * a * n + n * n
      BY <1>0, <1>1, <1>2, <1>8
    <3>2. (a + n) * (a + n) = a * a + (2 * a * n + n * n)
      <4>1. a \in Int /\ n \in Int
        BY <1>0, <1>1
      <4> QED BY <4>1
    <3> QED BY <1>0, <1>1, <2>1, <3>1, <3>2
  <2>3. /\ j = 1 /\ r.a < 0 /\ r.a + o > 0 => l <= q.v - r.a * r.a
        /\ j = -1 /\ r.a > 0 /\ r.a - o < 0 => q.v + r.a * r.a <= h
    BY <1>0, <1>6, <1>7
  <2> DEFINE b  == r.a
             v1 == r.v
             v2 == q.v
             v3 == e.v
  <2>4. /\ b \in Int /\ v1 \in Int /\ v2 \in Int /\ v3 \in Int
        /\ b = a + n /\ v1 = (v - a * a) + b * b /\ v2 = v1 + 2 * (b * m)
        /\ v3 = v2 + 2 * (b * o) + j * (o * o)
        /\ l <= v3 /\ v3 <= h
        /\ j = 1 /\ b < 0 /\ b + o > 0 => l <= v2 - b * b
        /\ j = -1 /\ b > 0 /\ b - o < 0 => v2 + b * b <= h
    BY <1>0, <1>4, <1>5, <1>6, <2>1, <2>2, <2>3
  <2>5. l <= v1 /\ v1 <= h /\ l <= v2 /\ v2 <= h
    <3> HIDE DEF b, v1, v2, v3
    <3> QED BY <1>0, <1>1, <2>4, RiseAndGoOn
  <2> QED BY <2>5
<1>9. CASE i = -1 /\ n > 0
  <2> DEFINE mv == -v
             ma == -a
             ml == -h
             mh == -l
             mj == -j
             mb == -r.a
             v1 == -r.v
             v2 == -q.v
             v3 == -e.v
  <2>1. /\ mv \in Int /\ ma \in Int /\ ml \in Int /\ mh \in Int /\ mj \in {-1, 0, 1}
        /\ mb \in Int /\ v1 \in Int /\ v2 \in Int /\ v3 \in Int
    BY <1>0, <1>1, <1>5
  <2>2. mb = ma + n
    BY <1>0, <1>1, <1>2, <1>5, <1>9
  <2>3. mb * mb = r.a * r.a /\ ma * ma = a * a
    BY <1>0, <1>1, <1>5
  <2>4. v1 = (mv - ma * ma) + mb * mb
    <3>1. r.v = v + 2 * a * n - n * n /\ r.a = a - n
      BY <1>0, <1>1, <1>2, <1>9
    <3>2. (a - n) * (a - n) = a * a - (2 * a * n - n * n)
      <4>1. a \in Int /\ n \in Int
        BY <1>0, <1>1
      <4> QED BY <4>1
    <3> QED BY <1>0, <1>1, <2>3, <3>1, <3>2
  <2>5. v2 = v1 + 2 * (mb * m)
    <3>1. mb * m = -(r.a * m) /\ r.a * m \in Int
      BY <1>0, <1>5
    <3> QED BY <1>0, <1>5, <1>6, <3>1
  <2>6. v3 = v2 + 2 * (mb * o) + mj * (o * o)
    <3>1. mb * o = -(r.a * o) /\ r.a * o \in Int
      BY <1>0, <1>5
    <3>2. mj * (o * o) = -(j * (o * o)) /\ j * (o * o) \in Int
      BY <1>0
    <3> DEFINE x == r.a * o
               y == j * (o * o)
    <3>3. /\ e.v = q.v + 2 * x + y /\ x \in Int /\ y \in Int
          /\ mb * o = -x /\ mj * (o * o) = -y
      BY <1>6, <3>1, <3>2
    <3> HIDE DEF x, y, mb, mj
    <3>4. -e.v = -q.v + 2 * (-x) + (-y)
      BY <1>5, <3>3
    <3> QED BY <3>3, <3>4
  <2>7. /\ ml <= mv /\ mv <= mh /\ ml <= v3 /\ v3 <= mh
    BY <1>0, <1>1, <1>4, <1>5
  <2>8. ma < 0 => ml <= mv - ma * ma
    <3>1. a * a \in Int
      BY <1>1
    <3> QED BY <1>0, <1>1, <2>3, <3>1
  <2>9. /\ mj = 1 /\ mb < 0 /\ mb + o > 0 => ml <= v2 - mb * mb
        /\ mj = -1 /\ mb > 0 /\ mb - o < 0 => v2 + mb * mb <= mh
    <3>1. r.a * r.a \in Int
      BY <1>0, <1>5
    <3>2. /\ j = 1 /\ r.a < 0 /\ r.a + o > 0 => l <= q.v - r.a * r.a
          /\ j = -1 /\ r.a > 0 /\ r.a - o < 0 => q.v + r.a * r.a <= h
      BY <1>0, <1>6, <1>7
    <3> DEFINE z == r.a * r.a
    <3>3. /\ z \in Int /\ mb * mb = z
          /\ j = 1 /\ r.a < 0 /\ r.a + o > 0 => l <= q.v - z
          /\ j = -1 /\ r.a > 0 /\ r.a - o < 0 => q.v + z <= h
      BY <2>3, <3>1, <3>2
    <3> HIDE DEF z
    <3> QED BY <1>0, <1>1, <1>5, <3>3
  <2>10. ml <= v1 /\ v1 <= mh /\ ml <= v2 /\ v2 <= mh
    <3> HIDE DEF mv, ma, ml, mh, mj, mb, v1, v2, v3
    <3> QED BY <1>0, <2>1, <2>2, <2>4, <2>5, <2>6, <2>7, <2>8, <2>9, RiseAndGoOn
  <2> QED BY <1>0, <1>1, <1>5, <2>10
<1> QED BY <1>0, <1>8, <1>9

\* A profile whose pieces begin, end and turn within the limits.
PieceAllowed(s, n, j) ==
  /\ s \in States /\ j \in {-1, 0, 1} /\ Allowed(s) /\ Allowed(Move(s, n, j))
  /\ TurnAllowed(s, j, Move(s, n, j))

Kept(P) ==
  /\ P.t \in Timings /\ P.s[7] \in States /\ Allowed(P.s[7])
  /\ \A i \in Pieces : PieceAllowed(P.s[i], P.t[i], P.j[i])

\* What a third-order profile is known to be before its limits are checked.
Thrice(P) ==
  /\ P.t \in Timings
  /\ \A i \in 0 .. 7 : P.s[i] \in States
  /\ \A i \in Pieces : P.j[i] \in {-1, 0, 1}
  /\ \A i \in Pieces : P.s[i + 1] = Move(P.s[i], P.t[i], P.j[i])
  /\ P.j[1] = 0 /\ P.j[3] = 0 /\ P.j[5] = 0
  /\ P.t[0] > 0 => P.j[0] # 0
  /\ CurrentInLimits(P.s[0]) /\ Allowed(P.s[7])

\* What the checks of a third-order profile look at suffices.
LEMMA ThirdKept ==
  ASSUME NEW P, Thrice(P),
         \A i \in {1, 3, 5} : Within(P.s[i].a, AccelerationRange),
         \A i \in 3 .. 6 : Within(P.s[i].v, VelocityRange),
         \A i \in 2 .. 6 : TurnAllowed(P.s[i], P.j[i], P.s[i + 1])
  PROVE  Kept(P)
<1> DEFINE s == P.s
           t == P.t
           j == P.j
<1>1. /\ \A i \in Pieces : t[i] \in Nat
      /\ \A i \in 0 .. 7 : s[i] \in States
      /\ \A i \in Pieces : j[i] \in {-1, 0, 1}
      /\ \A i \in Pieces : s[i + 1] = Move(s[i], t[i], j[i])
      /\ j[1] = 0 /\ j[3] = 0 /\ j[5] = 0
      /\ t[0] > 0 => j[0] # 0
      /\ CurrentInLimits(s[0]) /\ Allowed(s[0]) /\ Allowed(s[7])
  BY StartTypes DEF Thrice, CurrentInLimits
<1>2. /\ \A i \in {1, 3, 5} : Within(s[i].a, AccelerationRange)
      /\ \A i \in 3 .. 6 : Within(s[i].v, VelocityRange)
      /\ \A i \in 2 .. 6 : TurnAllowed(s[i], j[i], s[i + 1])
  OBVIOUS
<1>3. P.t \in Timings
  BY DEF Thrice
<1> HIDE DEF s, t, j
<1>4. /\ s[1] = Move(s[0], t[0], j[0]) /\ s[2] = Move(s[1], t[1], 0)
      /\ s[3] = Move(s[2], t[2], j[2]) /\ s[4] = Move(s[3], t[3], 0)
      /\ s[6] = Move(s[5], t[5], 0)
  <2>1. \A i \in Pieces : s[i + 1] = Move(s[i], t[i], j[i])
    BY <1>1
  <2>2. /\ s[0 + 1] = Move(s[0], t[0], j[0]) /\ s[1 + 1] = Move(s[1], t[1], j[1])
        /\ s[2 + 1] = Move(s[2], t[2], j[2]) /\ s[3 + 1] = Move(s[3], t[3], j[3])
        /\ s[5 + 1] = Move(s[5], t[5], j[5])
    BY <2>1 DEF Pieces
  <2> QED BY <1>1, <2>2
<1>5. ASSUME NEW x \in States, NEW n \in Nat PROVE Move(x, n, 0).a = x.a
  BY DEF Move, States
<1>6. s[2].a = s[1].a /\ s[4].a = s[3].a /\ s[6].a = s[5].a
  <2>1. t[1] \in Nat /\ t[3] \in Nat /\ t[5] \in Nat /\ s[1] \in States /\ s[3] \in States /\ s[5] \in States
    BY <1>1 DEF Pieces
  <2> QED BY <1>4, <1>5, <2>1
<1>7. Within(s[1].v, VelocityRange) /\ Within(s[2].v, VelocityRange)
  <2>1. /\ s[0] \in States /\ t[0] \in Nat /\ t[1] \in Nat /\ t[2] \in Nat
        /\ j[0] \in {-1, 0, 1} /\ j[2] \in {-1, 0, 1}
    BY <1>1 DEF Pieces
  <2>2. Within(s[3].v, VelocityRange)
    BY <1>2
  <2>3. TurnAllowed(s[2], j[2], s[3])
    <3>1. \A i \in 2 .. 6 : TurnAllowed(s[i], j[i], s[i + 1])
      BY <1>2
    <3>2. 2 \in 2 .. 6 /\ 2 + 1 = 3
      OBVIOUS
    <3> QED BY <3>1, <3>2
  <2>4. FirstPieces(s[0], t[0], j[0], s[1], t[1], s[2], t[2], j[2], s[3])
    BY <1>1, <1>4, <2>1, <2>2, <2>3 DEF FirstPieces
  <2> QED BY <2>4, FirstPiecesKept
<1>8. \A i \in 0 .. 7 : Allowed(s[i])
  <2>1. \A i \in 1 .. 6 : Within(s[i].v, VelocityRange)
    BY <1>2, <1>7
  <2>2. \A i \in 1 .. 6 : Within(s[i].a, AccelerationRange)
    BY <1>2, <1>6
  <2> QED BY <1>1, <2>1, <2>2 DEF Allowed
<1>9. TurnAllowed(s[0], j[0], s[1])
  <2> SUFFICES ASSUME j[0] # 0, s[0].a * s[1].a < 0 PROVE TurnsWithin(s[0], j[0], VelocityRange)
    BY DEF TurnAllowed
  <2> DEFINE v == s[0].v
             a == s[0].a
             l == VelocityRange.low
             h == VelocityRange.high
  <2>1. /\ l \in Int /\ h \in Int /\ v \in Int /\ a \in Int /\ t[0] \in Nat /\ s[1].a \in Int
        /\ l <= v /\ v <= h
        /\ a < 0 => l <= v - a * a
        /\ a > 0 => v + a * a <= h
    BY <1>1, AllowedNumbers DEF States, CurrentInLimits, Allowed, Within, Pieces
  <2>2. s[1].a = a + j[0] * t[0]
    <3>1. \A x, y, z : Move(x, y, z).a = x.a + z * y
      BY DEF Move
    <3> QED BY <1>4, <3>1
  <2>3. (a < 0 /\ s[1].a > 0) \/ (a > 0 /\ s[1].a < 0)
    BY <2>1, ProductSign
  <2>4. a * a \in Int /\ 0 <= a * a
    BY <2>1, SquareBetween
  <2> SUFFICES IF j[0] > 0 THEN l * j[0] <= v * j[0] - a * a /\ v * j[0] - a * a <= h * j[0]
                           ELSE h * j[0] <= v * j[0] - a * a /\ v * j[0] - a * a <= l * j[0]
    BY DEF TurnsWithin
  <2>5. j[0] = 1 \/ j[0] = -1
    BY <1>1 DEF Pieces
  <2> HIDE DEF v, a, l, h
  <2>6. CASE j[0] = 1
    <3>1. a < 0
      BY <2>1, <2>2, <2>3, <2>6
    <3> QED BY <2>1, <2>4, <2>6, <3>1
  <2>7. CASE j[0] = -1
    <3>1. a > 0
      BY <2>1, <2>2, <2>3, <2>7
    <3>2. l * j[0] = -l /\ h * j[0] = -h /\ v * j[0] = -v
      BY <2>1, <2>7
    <3> QED BY <2>1, <2>4, <2>7, <3>1, <3>2
  <2> QED BY <2>5, <2>6, <2>7
<1>10. \A i \in Pieces : TurnAllowed(s[i], j[i], s[i + 1])
  <2> TAKE i \in Pieces
  <2>1. CASE i = 0
    BY <1>9, <2>1
  <2>2. CASE i = 1
    BY <1>1, <2>2 DEF TurnAllowed
  <2>3. CASE i \in 2 .. 6
    BY <1>2, <2>3
  <2> QED BY <2>1, <2>2, <2>3 DEF Pieces
<1>11. \A i \in Pieces : PieceAllowed(s[i], t[i], j[i])
  <2> TAKE i \in Pieces
  <2>1. i \in 0 .. 7 /\ i + 1 \in 0 .. 7
    BY DEF Pieces
  <2> QED BY <1>1, <1>8, <1>10, <2>1 DEF PieceAllowed
<1>12. Allowed(s[7]) /\ s[7] \in States
  BY <1>1
<1> QED BY <1>3, <1>11, <1>12 DEF Kept, s, t, j

\* The profiles of the third-order kinds are what the check takes them for.
LEMMA ThirdOrderIs ==
  ASSUME NEW c, WellFormed(c), TurnsAtTicks(c), Carries(c.kind, "state"),
         c.jf # 0, CurrentInLimits(c.from), Allowed(MotionOf(c)[7])
  PROVE  Thrice(ProfileOf(c)) /\ ProfileOf(c).s = MotionOf(c) /\ ProfileOf(c).t = c.t
<1> DEFINE P == ProfileOf(c)
<1>1. P.s = MotionOf(c) /\ P.t = c.t /\ P.j = Jerks(c.signs, c.t, c.jf)
  <2>1. P.s = MotionOf(c) /\ P.t = c.t
    BY DEF ProfileOf
  <2>2. P.j = Jerks(c.signs, c.t, c.jf)
    <3>1. P.j = IF c.kind \in {"third", "third velocity"} THEN Jerks(c.signs, c.t, c.jf) ELSE Rest
      BY DEF ProfileOf
    <3> QED BY <3>1, Zenon DEF Carries
  <2> QED BY <2>1, <2>2
<1>2. c.t \in Timings /\ c.kind # "disabled"
  <2>1. c.t \in Timings
    BY Zenon DEF WellFormed
  <2>2. c.kind # "disabled"
    BY Zenon DEF Carries
  <2> QED BY <2>1, <2>2
<1>3. /\ \A i \in 0 .. 7 : P.s[i] \in States
      /\ P.s[0] = c.from
      /\ \A i \in Pieces : P.s[i + 1] = Move(P.s[i], c.t[i], P.j[i])
  <2>1. /\ \A i \in 0 .. 7 : P.s[i] \in States
        /\ c.kind \in {"third", "third velocity"} =>
             /\ P.s[0] = c.from
             /\ \A i \in Pieces : P.s[i + 1] = Move(P.s[i], c.t[i], P.j[i])
    BY <1>2, CandidateMotion, Zenon
  <2> HIDE DEF P
  <2> QED BY <2>1, Zenon DEF Carries
<1>4. \A i \in Pieces : P.j[i] \in {-1, 0, 1}
  BY DEF TurnsAtTicks
<1> HIDE DEF P
<1>5. \A i \in Pieces : c.t[i] \in Nat
  BY <1>2, StartTypes
<1>6. P.j[1] = 0 /\ P.j[3] = 0 /\ P.j[5] = 0
  BY <1>1 DEF Jerks, Turning, Pieces
<1>7. c.t[0] > 0 => P.j[0] # 0
  <2> SUFFICES ASSUME c.t[0] > 0 PROVE P.j[0] = c.jf
    OBVIOUS
  <2>1. 0 \in Pieces /\ 0 \notin {1, 3, 5} /\ c.t[0] # 0
    BY <1>5 DEF Pieces
  <2> QED BY <1>1, <2>1 DEF Jerks, Turning
<1>8. Thrice(P)
  BY <1>1, <1>2, <1>3, <1>4, <1>6, <1>7 DEF Thrice
<1> QED BY <1>1, <1>8 DEF P

\* What is within narrower limits is within those for the samples.
LEMMA NarrowerLimits ==
  ASSUME NEW lo, NEW hi, NEW x \in Int
  PROVE  /\ AmongVelocities(lo) /\ AmongVelocities(hi) /\ Within(x, [low |-> lo, high |-> hi]) =>
              Within(x, VelocityRange)
         /\ AmongAccelerations(lo) /\ AmongAccelerations(hi) /\ Within(x, [low |-> lo, high |-> hi]) =>
              Within(x, AccelerationRange)
<1>1. /\ AmongVelocities(lo) => lo \in Int /\ Within(lo, VelocityRange)
      /\ AmongVelocities(hi) => hi \in Int /\ Within(hi, VelocityRange)
      /\ AmongAccelerations(lo) => lo \in Int /\ Within(lo, AccelerationRange)
      /\ AmongAccelerations(hi) => hi \in Int /\ Within(hi, AccelerationRange)
  BY AllowedNumbers
<1>2. /\ VelocityRange.low \in Int /\ VelocityRange.high \in Int
      /\ AccelerationRange.low \in Int /\ AccelerationRange.high \in Int
  BY AllowedNumbers
<1> QED BY <1>1, <1>2 DEF Within

\* So do turns.
LEMMA NarrowerTurns ==
  ASSUME NEW s \in States, NEW j \in {-1, 0, 1}, NEW lo, NEW hi,
         AmongVelocities(lo), AmongVelocities(hi),
         j # 0, TurnsWithin(s, j, [low |-> lo, high |-> hi])
  PROVE  TurnsWithin(s, j, VelocityRange)
<1> DEFINE l == VelocityRange.low
           h == VelocityRange.high
           u == s.v * j - s.a * s.a
<1>1. /\ l \in Int /\ h \in Int /\ lo \in Int /\ hi \in Int
      /\ l <= lo /\ lo <= h /\ l <= hi /\ hi <= h
  BY AllowedNumbers DEF Within
<1>2. u \in Int
  BY DEF States
<1>3. IF j > 0 THEN lo * j <= u /\ u <= hi * j ELSE hi * j <= u /\ u <= lo * j
  BY DEF TurnsWithin
<1> SUFFICES IF j > 0 THEN l * j <= u /\ u <= h * j ELSE h * j <= u /\ u <= l * j
  BY DEF TurnsWithin
<1> HIDE DEF l, h, u
<1>4. CASE j = 1
  BY <1>1, <1>2, <1>3, <1>4
<1>5. CASE j = -1
  <2>1. l * j = -l /\ h * j = -h /\ lo * j = -lo /\ hi * j = -hi
    BY <1>1, <1>5
  <2> QED BY <1>1, <1>2, <1>3, <1>5, <2>1
<1> QED BY <1>4, <1>5

\* What ruckig_profile_check_ctx accepts keeps to the limits.
LEMMA CheckedKept ==
  ASSUME NEW c, WellFormed(c), TurnsAtTicks(c), c.kind = "third", Checked(c),
         ThirdInLimits(c), Allowed(c.to)
  PROVE  Kept(ProfileOf(c))
<1> DEFINE P == ProfileOf(c)
           s == ThirdOrderMotion(c)
           j == Jerks(c.signs, c.t, c.jf)
           lv == VelocityLimits(c).low
           hv == VelocityLimits(c).high
           la == AccelerationLimits(c).low
           ha == AccelerationLimits(c).high
<1>1. P.s = s /\ P.j = j
  BY DEF ProfileOf, MotionOf
<1>2. /\ \A i \in 2 .. 6 : s[i].a * s[i + 1].a < 0 => TurnsWithin(s[i], j[i], VelocityLimits(c))
      /\ s[7] = c.to
      /\ \A i \in {1, 3, 5} : Within(s[i].a, AccelerationLimits(c))
      /\ \A i \in 3 .. 6 : Within(s[i].v, VelocityLimits(c))
  BY DEF Checked
<1>3. /\ AmongVelocities(lv) /\ AmongVelocities(hv) /\ AmongAccelerations(la) /\ AmongAccelerations(ha)
      /\ VelocityLimits(c) = [low |-> lv, high |-> hv]
      /\ AccelerationLimits(c) = [low |-> la, high |-> ha]
  BY DEF ThirdInLimits, VelocityLimits, AccelerationLimits
<1>4. Carries(c.kind, "state") /\ MotionOf(c) = s /\ c.jf # 0 /\ CurrentInLimits(c.from)
  BY DEF MotionOf, ThirdInLimits, Carries
<1> HIDE DEF lv, hv, la, ha, s, j
<1>5. Thrice(P)
  BY <1>2, <1>4, ThirdOrderIs
<1> HIDE DEF P
<1>6. /\ \A i \in 0 .. 7 : s[i] \in States /\ s[i].v \in Int /\ s[i].a \in Int
      /\ \A i \in Pieces : j[i] \in {-1, 0, 1}
  BY <1>1, <1>5 DEF Thrice, States
<1>7. \A i \in {1, 3, 5} : Within(P.s[i].a, AccelerationRange)
  BY <1>1, <1>2, <1>3, <1>6, NarrowerLimits
<1>8. \A i \in 3 .. 6 : Within(P.s[i].v, VelocityRange)
  BY <1>1, <1>2, <1>3, <1>6, NarrowerLimits
<1>9. \A i \in 2 .. 6 : TurnAllowed(P.s[i], P.j[i], P.s[i + 1])
  <2> TAKE i \in 2 .. 6
  <2> SUFFICES ASSUME j[i] # 0, s[i].a * s[i + 1].a < 0
               PROVE  TurnsWithin(s[i], j[i], VelocityRange)
    BY <1>1 DEF TurnAllowed
  <2>1. TurnsWithin(s[i], j[i], [low |-> lv, high |-> hv])
    BY <1>2, <1>3
  <2>2. s[i] \in States /\ j[i] \in {-1, 0, 1}
    BY <1>6 DEF Pieces
  <2> QED BY <1>3, <2>1, <2>2, NarrowerTurns
<1>10. Kept(P)
  BY <1>5, <1>7, <1>8, <1>9, ThirdKept
<1> QED BY <1>10 DEF P

\* No time, no motion.
LEMMA NoTimeNoMotion ==
  ASSUME NEW P, Thrice(P), NEW i \in Pieces, P.t[i] = 0
  PROVE  P.s[i + 1] = P.s[i]
<1>1. /\ P.s[i] \in States /\ P.j[i] \in Int /\ P.s[i + 1] = Move(P.s[i], P.t[i], P.j[i])
  BY DEF Thrice, Pieces
<1> QED BY <1>1, MovesAdd

\* A target that is built up to within the limits is turned to within them.
LEMMA TurnsToTarget ==
  ASSUME NEW s \in States, NEW n \in Nat, NEW j \in {-1, 0, 1}, TargetInLimits(Move(s, n, j))
  PROVE  TurnAllowed(s, j, Move(s, n, j))
<1> DEFINE e == Move(s, n, j)
           l == VelocityRange.low
           h == VelocityRange.high
<1>1. /\ l \in Int /\ h \in Int /\ s.v \in Int /\ s.a \in Int /\ e.v \in Int /\ e.a \in Int
  BY MoveType, AllowedNumbers DEF States
<1>2. /\ l <= e.v /\ e.v <= h
      /\ e.a > 0 => e.v - e.a * e.a >= l
      /\ e.a < 0 => e.v + e.a * e.a <= h
  BY DEF TargetInLimits, Allowed, Within
<1>3. e.v = s.v + 2 * s.a * n + j * n * n /\ e.a = s.a + j * n
  BY DEF Move
<1> SUFFICES ASSUME j # 0, s.a * e.a < 0
             PROVE  TurnsWithin(s, j, VelocityRange)
  BY DEF TurnAllowed
<1> HIDE DEF e, l, h
<1>4. (s.a < 0 /\ e.a > 0) \/ (s.a > 0 /\ e.a < 0)
  BY <1>1, ProductSign
<1>5. /\ s.a * s.a \in Int /\ 0 <= s.a * s.a /\ e.a * e.a \in Int /\ 0 <= e.a * e.a
  BY <1>1, SquareBetween
<1> DEFINE z == e.a * e.a
           w == s.a * s.a
<1>6. CASE j = 1
  <2>1. e.a > 0
    BY <1>1, <1>3, <1>4, <1>6
  <2>2. s.v - w = e.v - z
    <3>1. e.v = s.v + (2 * s.a * n + n * n) /\ e.a = s.a + n
      BY <1>1, <1>3, <1>6
    <3>2. (s.a + n) * (s.a + n) = s.a * s.a + (2 * s.a * n + n * n)
      BY <1>1
    <3> QED BY <1>1, <3>1, <3>2
  <2>3. z \in Int /\ w \in Int /\ 0 <= z
    BY <1>5
  <2>4. l <= e.v - z
    BY <1>2, <2>1
  <2>5. l <= s.v - w /\ s.v - w <= h
    <3> HIDE DEF z, w
    <3> QED BY <1>1, <1>2, <2>2, <2>3, <2>4
  <2>6. l * j = l /\ h * j = h /\ s.v * j = s.v
    BY <1>1, <1>6
  <2> QED BY <1>6, <2>5, <2>6 DEF TurnsWithin, l, h
<1>7. CASE j = -1
  <2>1. e.a < 0
    BY <1>1, <1>3, <1>4, <1>7
  <2>2. s.v + w = e.v + z
    <3>1. e.v = s.v + (2 * s.a * n - n * n) /\ e.a = s.a - n
      BY <1>1, <1>3, <1>7
    <3>2. (s.a - n) * (s.a - n) = s.a * s.a - (2 * s.a * n - n * n)
      BY <1>1
    <3>3. s.a * s.a \in Int /\ 2 * s.a * n - n * n \in Int
      BY <1>1
    <3> QED BY <1>1, <3>1, <3>2, <3>3
  <2>3. z \in Int /\ w \in Int /\ 0 <= z
    BY <1>5
  <2>4. e.v + z <= h
    BY <1>2, <2>1
  <2>5. -h <= -s.v - w /\ -s.v - w <= -l
    <3> HIDE DEF z, w
    <3> QED BY <1>1, <1>2, <2>2, <2>3, <2>4
  <2>6. l * j = -l /\ h * j = -h /\ s.v * j = -s.v
    BY <1>1, <1>7
  <2>7. ~ (j > 0)
    BY <1>7
  <2> QED BY <2>5, <2>6, <2>7 DEF TurnsWithin, l, h
<1> QED BY <1>4, <1>6, <1>7

\* What ruckig_profile_check_for_velocity_ctx accepts keeps to the limits: there
\* is one turn after the first piece, and the target is one that may be turned to.
LEMMA CheckedForVelocityKept ==
  ASSUME NEW c, WellFormed(c), TurnsAtTicks(c), Carries(c.kind, "state"),
         MotionOf(c) = Motion(c.from, c.t, Jerks(c.signs, c.t, c.jf), None, None),
         CheckedForVelocity(c), ThirdVelocityInLimits(c)
  PROVE  Kept(ProfileOf(c))
<1> DEFINE P == ProfileOf(c)
           s == MotionOf(c)
<1>1. /\ c.jf # 0 /\ CurrentInLimits(c.from) /\ TargetInLimits(c.to)
      /\ AmongAccelerations(c.a_max) /\ AmongAccelerations(c.a_min)
      /\ c.t[3] = 0 /\ c.t[4] = 0 /\ c.t[5] = 0 /\ (c.t[2] = 0 \/ c.t[6] = 0)
  BY DEF ThirdVelocityInLimits
<1>2. /\ s[7].v = c.to.v /\ s[7].a = c.to.a
      /\ \A i \in {1, 3, 5} : Within(s[i].a, [low |-> c.a_min, high |-> c.a_max])
                              \/ Within(s[i].a, [low |-> c.a_max, high |-> c.a_min])
  BY DEF CheckedForVelocity
<1> HIDE DEF s
<1>3. TargetInLimits(s[7]) /\ Allowed(s[7])
  BY <1>1, <1>2 DEF TargetInLimits, Allowed
<1>4. Thrice(P) /\ P.s = s /\ P.t = c.t
  BY <1>1, <1>3, ThirdOrderIs DEF s
<1> HIDE DEF P
<1>5. /\ \A i \in 0 .. 7 : s[i] \in States /\ s[i].v \in Int /\ s[i].a \in Int
      /\ \A i \in Pieces : P.j[i] \in {-1, 0, 1} /\ P.t[i] \in Nat
      /\ \A i \in Pieces : s[i + 1] = Move(s[i], P.t[i], P.j[i])
  BY <1>4, StartTypes DEF Thrice, States
<1>6. \A i \in {1, 3, 5} : Within(P.s[i].a, AccelerationRange)
  BY <1>1, <1>2, <1>4, <1>5, NarrowerLimits
<1>7. s[4] = s[3] /\ s[5] = s[4] /\ s[6] = s[5]
  <2>1. \A i \in Pieces : P.t[i] = 0 => s[i + 1] = s[i]
    BY <1>4, NoTimeNoMotion
  <2>2. /\ P.t[3] = 0 => s[3 + 1] = s[3]
        /\ P.t[4] = 0 => s[4 + 1] = s[4]
        /\ P.t[5] = 0 => s[5 + 1] = s[5]
    BY <2>1 DEF Pieces
  <2> QED BY <1>1, <1>4, <2>2
<1>8. /\ s[1] = Move(s[0], P.t[0], P.j[0]) /\ s[2] = Move(s[1], P.t[1], P.j[1])
      /\ s[3] = Move(s[2], P.t[2], P.j[2]) /\ s[7] = Move(s[6], P.t[6], P.j[6])
  <2>1. /\ s[0 + 1] = Move(s[0], P.t[0], P.j[0]) /\ s[1 + 1] = Move(s[1], P.t[1], P.j[1])
        /\ s[2 + 1] = Move(s[2], P.t[2], P.j[2]) /\ s[6 + 1] = Move(s[6], P.t[6], P.j[6])
    BY <1>5 DEF Pieces
  <2> QED BY <2>1
<1>9. /\ P.t[2] = 0 => s[3] = s[2]
      /\ P.t[6] = 0 => s[7] = s[6]
  <2>1. \A i \in Pieces : P.t[i] = 0 => s[i + 1] = s[i]
    BY <1>4, NoTimeNoMotion
  <2>2. /\ P.t[2] = 0 => s[2 + 1] = s[2]
        /\ P.t[6] = 0 => s[6 + 1] = s[6]
    BY <2>1 DEF Pieces
  <2> QED BY <2>2
<1>10. ASSUME NEW i \in Pieces, s[i + 1] = s[i] PROVE TurnAllowed(s[i], P.j[i], s[i + 1])
  <2>1. s[i].a \in Int
    BY <1>5 DEF Pieces
  <2>2. ~ (s[i].a * s[i].a < 0)
    BY <2>1, SquareBetween
  <2> QED BY <1>10, <2>2 DEF TurnAllowed
<1>11. TurnAllowed(s[6], P.j[6], s[7])
  <2>1. s[6] \in States /\ P.t[6] \in Nat /\ P.j[6] \in {-1, 0, 1}
    BY <1>5 DEF Pieces
  <2> QED BY <1>3, <1>8, <2>1, TurnsToTarget
<1>12. TurnAllowed(s[2], P.j[2], s[3])
  <2>1. s[2] \in States /\ P.t[2] \in Nat /\ P.j[2] \in {-1, 0, 1} /\ 2 \in Pieces /\ 2 + 1 = 3
    BY <1>5 DEF Pieces
  <2>2. CASE c.t[2] = 0
    BY <1>4, <1>9, <1>10, <2>1, <2>2
  <2>3. CASE c.t[6] = 0
    <3>1. s[7] = s[3]
      BY <1>4, <1>7, <1>9, <2>3
    <3> QED BY <1>3, <1>8, <2>1, <3>1, TurnsToTarget
  <2> QED BY <1>1, <2>2, <2>3
<1>13. \A i \in 2 .. 6 : TurnAllowed(P.s[i], P.j[i], P.s[i + 1])
  <2> TAKE i \in 2 .. 6
  <2>1. CASE i = 2
    BY <1>4, <1>12, <2>1
  <2>2. CASE i \in 3 .. 5
    <3>1. i \in Pieces /\ s[i + 1] = s[i]
      BY <1>7, <2>2 DEF Pieces
    <3> QED BY <1>4, <1>10, <3>1
  <2>3. CASE i = 6
    BY <1>4, <1>11, <2>3
  <2> QED BY <2>1, <2>2, <2>3
<1>14. Within(s[3].v, VelocityRange)
  <2>1. CASE c.t[6] = 0
    BY <1>3, <1>4, <1>7, <1>9, <2>1 DEF Allowed
  <2>2. CASE c.t[2] = 0
    <3>1. /\ s[0] \in States /\ CurrentInLimits(s[0]) /\ P.j[1] = 0
          /\ P.t[0] > 0 => P.j[0] # 0
      BY <1>4 DEF Thrice
    <3>2. /\ P.t[0] \in Nat /\ P.t[1] \in Nat /\ P.t[6] \in Nat
          /\ P.j[0] \in {-1, 0, 1} /\ P.j[6] \in {-1, 0, 1}
      BY <1>5 DEF Pieces
    <3>3. s[6] = s[2] /\ s[3] = s[2]
      BY <1>4, <1>7, <1>9, <2>2
    <3>4. Within(s[7].v, VelocityRange)
      BY <1>3 DEF Allowed
    <3>5. FirstPieces(s[0], P.t[0], P.j[0], s[1], P.t[1], s[2], P.t[6], P.j[6], s[7])
      BY <1>8, <1>11, <3>1, <3>2, <3>3, <3>4 DEF FirstPieces
    <3> QED BY <3>3, <3>5, FirstPiecesKept
  <2> QED BY <1>1, <2>1, <2>2
<1>15. \A i \in 3 .. 6 : Within(P.s[i].v, VelocityRange)
  BY <1>4, <1>7, <1>14
<1>16. Kept(P)
  BY <1>4, <1>6, <1>13, <1>15, ThirdKept
<1> QED BY <1>16 DEF P

\* Without jerk a piece keeps its acceleration, and its velocity is between those
\* at its ends.
LEMMA FlatKept ==
  ASSUME NEW P, P.t \in Timings,
         \A i \in 0 .. 7 : P.s[i] \in States /\ Allowed(P.s[i]),
         \A i \in Pieces : P.j[i] = 0 /\ Within(Move(P.s[i], P.t[i], 0).v, VelocityRange)
  PROVE  Kept(P)
<1>1. ASSUME NEW i \in Pieces PROVE PieceAllowed(P.s[i], P.t[i], P.j[i])
  <2>1. P.s[i] \in States /\ Allowed(P.s[i]) /\ P.t[i] \in Nat /\ P.j[i] = 0
    BY StartTypes DEF Pieces
  <2>2. Move(P.s[i], P.t[i], 0).a = P.s[i].a
    BY <2>1 DEF Move, States
  <2>3. Allowed(Move(P.s[i], P.t[i], 0))
    BY <2>1, <2>2 DEF Allowed
  <2> QED BY <2>1, <2>3 DEF PieceAllowed, TurnAllowed
<1> QED BY <1>1 DEF Kept

\* A motion whose accelerations are all given.
LEMMA GivenAccelerations ==
  ASSUME NEW from, NEW t, NEW a, DOMAIN a = 0 .. 7
  PROVE  LET s == Motion(from, t, Rest, a, None)
         IN  /\ s[0].v = from.v
             /\ \A i \in Pieces : s[i + 1].v = Move(s[i], t[i], 0).v
             /\ \A i \in 0 .. 7 : s[i].a = a[i]
<1> DEFINE s == Motion(from, t, Rest, a, None)
<1>1. /\ s[0] = Given(0, from, a, None)
      /\ \A i \in Pieces : s[i + 1] = Given(i + 1, Move(s[i], t[i], Rest[i]), a, None)
  BY MotionSteps
<1>2. /\ \A i \in 0 .. 7 : \A x : Given(i, x, a, None).a = a[i]
      /\ \A i, x : Given(i, x, a, None).v = x.v
  BY DEF Given, None
<1>3. \A i \in Pieces : Rest[i] = 0
  BY DEF Rest
<1> HIDE DEF s
<1>4. s[0].v = from.v /\ s[0].a = a[0]
  BY <1>1, <1>2
<1>5. ASSUME NEW i \in Pieces
      PROVE  s[i + 1].v = Move(s[i], t[i], 0).v /\ s[i + 1].a = a[i + 1]
  <2>1. s[i + 1] = Given(i + 1, Move(s[i], t[i], 0), a, None) /\ i + 1 \in 0 .. 7
    BY <1>1, <1>3 DEF Pieces
  <2> QED BY <1>2, <2>1
<1>6. ASSUME NEW i \in 0 .. 7 PROVE s[i].a = a[i]
  <2>1. CASE i = 0
    BY <1>4, <2>1
  <2>2. CASE i \in 1 .. 7
    <3>1. i - 1 \in Pieces /\ (i - 1) + 1 = i
      BY <2>2 DEF Pieces
    <3> QED BY <1>5, <3>1
  <2> QED BY <2>1, <2>2
<1> QED BY <1>4, <1>5, <1>6 DEF s

\* The states of a profile without jerk are numbers.
LEMMA FlatMotion ==
  ASSUME NEW c, WellFormed(c), c.kind # "disabled", ~ Carries(c.kind, "state")
  PROVE  LET P == ProfileOf(c)
         IN  /\ P.t = c.t /\ P.t \in Timings /\ P.s = MotionOf(c)
             /\ \A i \in Pieces : P.j[i] = 0
             /\ \A i \in 0 .. 7 : P.s[i] \in States
             /\ \A i \in 0 .. 7 : P.s[i].v \in Int /\ P.s[i].a \in Int
<1> DEFINE P == ProfileOf(c)
<1>1. P.t = c.t /\ P.s = MotionOf(c)
  BY DEF ProfileOf
<1>2. c.t \in Timings
  BY Zenon DEF WellFormed
<1>3. \A i \in Pieces : P.j[i] = 0
  <2>1. P.j = IF c.kind \in {"third", "third velocity"} THEN Jerks(c.signs, c.t, c.jf) ELSE Rest
    BY DEF ProfileOf
  <2> HIDE DEF P
  <2>2. P.j = Rest
    BY <2>1, Zenon DEF Carries
  <2> QED BY <2>2 DEF Rest
<1>4. \A i \in 0 .. 7 : P.s[i] \in States
  BY CandidateMotion, Zenon
<1> HIDE DEF P
<1>5. \A i \in 0 .. 7 : P.s[i].v \in Int /\ P.s[i].a \in Int
  BY <1>4 DEF States
<1> QED BY <1>1, <1>2, <1>3, <1>4, <1>5 DEF P

\* What ruckig_profile_check_for_second_order_ctx accepts keeps to the limits.
LEMMA CheckedSecondOrderKept ==
  ASSUME NEW c, WellFormed(c), c.kind = "second", CheckedSecondOrder(c), SecondInLimits(c),
         Allowed(c.to), AmongAccelerations(0)
  PROVE  Kept(ProfileOf(c))
<1> DEFINE P == ProfileOf(c)
           s == MotionOf(c)
           up == Turning(c.signs, c.t, c.a_up, c.a_down)
           a == [i \in 0 .. 7 |-> IF i = 7 THEN c.to.a ELSE up[i]]
           lv == VelocityLimits(c).low
           hv == VelocityLimits(c).high
<1>1. /\ P.t = c.t /\ P.t \in Timings /\ P.s = s
      /\ \A i \in Pieces : P.j[i] = 0
      /\ \A i \in 0 .. 7 : s[i] \in States
      /\ \A i \in 0 .. 7 : s[i].v \in Int /\ s[i].a \in Int
  <2>1. c.kind # "disabled" /\ ~ Carries(c.kind, "state")
    BY Zenon DEF Carries
  <2> QED BY <2>1, FlatMotion
<1>2. s = Motion(c.from, c.t, Rest, a, None) /\ s[7].v = c.to.v
      /\ \A i \in 2 .. 6 : Within(s[i].v, VelocityLimits(c))
  <2>1. s = SecondOrderMotion(c)
    BY DEF MotionOf
  <2>2. SecondOrderMotion(c) = Motion(c.from, c.t, Rest, a, None)
    BY DEF SecondOrderMotion
  <2> HIDE DEF s, a
  <2> QED BY <2>1, <2>2 DEF CheckedSecondOrder
<1>3. /\ AmongVelocities(lv) /\ AmongVelocities(hv)
      /\ VelocityLimits(c) = [low |-> lv, high |-> hv]
  BY DEF SecondInLimits, VelocityLimits
<1>4. \A i \in 0 .. 7 : AmongAccelerations(a[i]) \/ Within(a[i], AccelerationRange)
  <2>1. \A i \in 0 .. 6 : up[i] \in {0, c.a_up, c.a_down}
    <3> TAKE i \in 0 .. 6
    <3>1. c.t[i] \in Nat /\ (i = 0 \/ i = 1 \/ i = 2 \/ i = 3 \/ i = 4 \/ i = 5 \/ i = 6)
      BY <1>1, StartTypes DEF Pieces
    <3>2. c.t[i] = 0 \/ c.t[i] > 0
      BY <3>1
    <3> QED BY <3>1, <3>2 DEF Turning, Pieces
  <2> HIDE DEF up
  <2>2. AmongAccelerations(c.a_up) /\ AmongAccelerations(c.a_down) /\ Within(c.to.a, AccelerationRange)
    BY DEF SecondInLimits, Allowed
  <2>3. \A i \in 0 .. 6 : AmongAccelerations(up[i])
    BY <2>1, <2>2
  <2> QED BY <2>2, <2>3
<1>5. up[1] = 0
  BY DEF Turning, Pieces
<1>6. a[1] = up[1] /\ DOMAIN a = 0 .. 7
  OBVIOUS
<1> HIDE DEF P, s, a, up, lv, hv
<1>7. /\ s[0].v = c.from.v
      /\ \A i \in Pieces : s[i + 1].v = Move(s[i], c.t[i], 0).v
      /\ \A i \in 0 .. 7 : s[i].a = a[i]
  BY <1>2, <1>6, GivenAccelerations
<1>8. \A i \in 0 .. 7 : Within(s[i].a, AccelerationRange)
  BY <1>4, <1>7, AllowedNumbers
<1>9. \A i \in 2 .. 7 : Within(s[i].v, VelocityRange)
  <2>1. \A i \in 2 .. 6 : Within(s[i].v, VelocityRange)
    BY <1>1, <1>2, <1>3, NarrowerLimits
  <2>2. Within(s[7].v, VelocityRange)
    BY <1>2 DEF Allowed
  <2> QED BY <2>1, <2>2
<1>10. s[2].v = s[1].v
  <2>1. s[1 + 1].v = Move(s[1], c.t[1], 0).v
    BY <1>7 DEF Pieces
  <2>2. s[1].a = 0 /\ c.t[1] \in Nat /\ s[1].v \in Int
    BY <1>1, <1>5, <1>6, <1>7, StartTypes DEF Pieces
  <2>3. Move(s[1], c.t[1], 0).v = s[1].v
    BY <2>2 DEF Move
  <2> QED BY <2>1, <2>3
<1>11. Within(s[0].v, VelocityRange)
  BY <1>7, AllowedNumbers DEF SecondInLimits
<1>12. \A i \in 0 .. 7 : Within(s[i].v, VelocityRange)
  <2> TAKE i \in 0 .. 7
  <2>1. i = 0 \/ i = 1 \/ i \in 2 .. 7
    OBVIOUS
  <2> QED BY <1>9, <1>10, <1>11, <2>1
<1>13. \A i \in 0 .. 7 : P.s[i] \in States /\ Allowed(P.s[i])
  BY <1>1, <1>8, <1>12 DEF Allowed
<1>14. \A i \in Pieces : P.j[i] = 0 /\ Within(Move(P.s[i], P.t[i], 0).v, VelocityRange)
  <2> TAKE i \in Pieces
  <2>1. i + 1 \in 0 .. 7
    BY DEF Pieces
  <2> QED BY <1>1, <1>7, <1>12, <2>1
<1>15. Kept(P)
  BY <1>1, <1>13, <1>14, FlatKept
<1> QED BY <1>15 DEF P

\* So does what ruckig_profile_check_for_second_order_velocity_ctx accepts.
LEMMA CheckedSecondOrderVelocityKept ==
  ASSUME NEW c, WellFormed(c), c.kind # "disabled", ~ Carries(c.kind, "state"),
         MotionOf(c) = SecondOrderVelocityMotion(c),
         CheckedSecondOrderVelocity(c), SecondVelocityInLimits(c),
         Allowed(c.to), AmongAccelerations(0)
  PROVE  Kept(ProfileOf(c))
<1> DEFINE P == ProfileOf(c)
           s == MotionOf(c)
           a == [i \in 0 .. 7 |-> CASE i = 7 -> c.to.a
                                    [] i = 1 /\ c.t[1] > 0 -> c.a_up
                                    [] OTHER -> 0]
<1>1. /\ P.t = c.t /\ P.t \in Timings /\ P.s = s
      /\ \A i \in Pieces : P.j[i] = 0
      /\ \A i \in 0 .. 7 : s[i] \in States
      /\ \A i \in 0 .. 7 : s[i].v \in Int /\ s[i].a \in Int
  BY FlatMotion
<1>2. s = Motion(c.from, c.t, Rest, a, None) /\ s[7].v = c.to.v
  BY DEF SecondOrderVelocityMotion, CheckedSecondOrderVelocity
<1>3. /\ \A i \in 0 .. 7 : AmongAccelerations(a[i]) \/ Within(a[i], AccelerationRange)
      /\ \A i \in 0 .. 7 : i \notin {1, 7} => a[i] = 0
      /\ DOMAIN a = 0 .. 7
  <2>1. AmongAccelerations(c.a_up) /\ AmongAccelerations(0) /\ Within(c.to.a, AccelerationRange)
    BY DEF SecondVelocityInLimits, Allowed
  <2>2. \A i \in 0 .. 7 : a[i] = c.to.a \/ a[i] = c.a_up \/ a[i] = 0
    OBVIOUS
  <2>3. (\A i \in 0 .. 7 : i \notin {1, 7} => a[i] = 0) /\ DOMAIN a = 0 .. 7
    OBVIOUS
  <2> HIDE DEF a
  <2> QED BY <2>1, <2>2, <2>3
<1> HIDE DEF P, s, a
<1>4. /\ s[0].v = c.from.v
      /\ \A i \in Pieces : s[i + 1].v = Move(s[i], c.t[i], 0).v
      /\ \A i \in 0 .. 7 : s[i].a = a[i]
  BY <1>2, <1>3, GivenAccelerations
<1>5. \A i \in 0 .. 7 : Within(s[i].a, AccelerationRange)
  BY <1>3, <1>4, AllowedNumbers
<1>6. ASSUME NEW i \in Pieces, i # 1 PROVE s[i + 1].v = s[i].v
  <2>1. s[i].a = 0 /\ c.t[i] \in Nat /\ s[i].v \in Int
    BY <1>1, <1>3, <1>4, <1>6, StartTypes DEF Pieces
  <2>2. Move(s[i], c.t[i], 0).v = s[i].v
    BY <2>1 DEF Move
  <2> QED BY <1>4, <2>2
<1>7. Within(s[0].v, VelocityRange) /\ Within(s[7].v, VelocityRange)
  BY <1>2, <1>4, AllowedNumbers DEF SecondVelocityInLimits, Allowed
<1>8. /\ s[1].v = s[0].v /\ s[3].v = s[2].v /\ s[4].v = s[3].v
      /\ s[5].v = s[4].v /\ s[6].v = s[5].v /\ s[7].v = s[6].v
  <2>1. /\ s[0 + 1].v = s[0].v /\ s[2 + 1].v = s[2].v /\ s[3 + 1].v = s[3].v
        /\ s[4 + 1].v = s[4].v /\ s[5 + 1].v = s[5].v /\ s[6 + 1].v = s[6].v
    BY <1>6 DEF Pieces
  <2> QED BY <2>1
<1>9. \A i \in 0 .. 7 : Within(s[i].v, VelocityRange)
  BY <1>7, <1>8
<1>10. \A i \in 0 .. 7 : P.s[i] \in States /\ Allowed(P.s[i])
  BY <1>1, <1>5, <1>9 DEF Allowed
<1>11. \A i \in Pieces : P.j[i] = 0 /\ Within(Move(P.s[i], P.t[i], 0).v, VelocityRange)
  <2> TAKE i \in Pieces
  <2>1. i + 1 \in 0 .. 7
    BY DEF Pieces
  <2> QED BY <1>1, <1>4, <1>9, <2>1
<1>12. Kept(P)
  BY <1>1, <1>10, <1>11, FlatKept
<1> QED BY <1>12 DEF P

\* And what ruckig_profile_check_for_first_order_ctx accepts.
LEMMA CheckedFirstOrderKept ==
  ASSUME NEW c, WellFormed(c), c.kind = "first", AmongVelocities(c.v_up), AmongVelocities(0),
         AmongAccelerations(0), Allowed(c.to)
  PROVE  Kept(ProfileOf(c))
<1> DEFINE P == ProfileOf(c)
           s == MotionOf(c)
           a == [i \in 0 .. 7 |-> IF i = 7 THEN c.to.a ELSE 0]
           v == [i \in 0 .. 7 |-> CASE i = 7 -> c.to.v
                                    [] i = 3 /\ c.t[3] > 0 -> c.v_up
                                    [] OTHER -> 0]
<1>1. /\ P.t = c.t /\ P.t \in Timings /\ P.s = s
      /\ \A i \in Pieces : P.j[i] = 0
      /\ \A i \in 0 .. 7 : s[i] \in States
      /\ \A i \in 0 .. 7 : s[i].v \in Int /\ s[i].a \in Int
  <2>1. c.kind # "disabled" /\ ~ Carries(c.kind, "state")
    BY Zenon DEF Carries
  <2> QED BY <2>1, FlatMotion
<1>2. s = Motion(c.from, c.t, Rest, a, v)
  BY DEF MotionOf, FirstOrderMotion
<1>3. /\ \A i \in 0 .. 7 : Within(a[i], AccelerationRange) /\ Within(v[i], VelocityRange)
      /\ \A i \in Pieces : a[i] = 0
      /\ DOMAIN a = 0 .. 7 /\ DOMAIN v = 0 .. 7
  <2>1. /\ Within(c.v_up, VelocityRange) /\ Within(0, VelocityRange) /\ Within(0, AccelerationRange)
        /\ Within(c.to.v, VelocityRange) /\ Within(c.to.a, AccelerationRange)
    BY AllowedNumbers DEF Allowed
  <2>2. \A i \in 0 .. 7 : v[i] = c.to.v \/ v[i] = c.v_up \/ v[i] = 0
    OBVIOUS
  <2>3. \A i \in 0 .. 7 : a[i] = c.to.a \/ a[i] = 0
    OBVIOUS
  <2>4. (\A i \in Pieces : a[i] = 0) /\ DOMAIN a = 0 .. 7 /\ DOMAIN v = 0 .. 7
    BY DEF Pieces
  <2> HIDE DEF a, v
  <2> QED BY <2>1, <2>2, <2>3, <2>4
<1> HIDE DEF P, s, a, v
<1>4. ASSUME NEW i \in 0 .. 7 PROVE s[i].v = v[i] /\ s[i].a = a[i]
  <2>1. /\ s[0] = Given(0, c.from, a, v)
        /\ \A k \in Pieces : s[k + 1] = Given(k + 1, Move(s[k], c.t[k], Rest[k]), a, v)
    BY <1>2, MotionSteps
  <2>2. \A k \in 0 .. 7 : \A x : Given(k, x, a, v).v = v[k] /\ Given(k, x, a, v).a = a[k]
    BY <1>3 DEF Given
  <2>3. CASE i = 0
    BY <2>1, <2>2, <2>3
  <2>4. CASE i \in 1 .. 7
    <3>1. i - 1 \in Pieces /\ (i - 1) + 1 = i
      BY <2>4 DEF Pieces
    <3> QED BY <2>1, <2>2, <3>1
  <2> QED BY <2>3, <2>4
<1>5. \A i \in 0 .. 7 : P.s[i] \in States /\ Allowed(P.s[i])
  BY <1>1, <1>3, <1>4 DEF Allowed
<1>6. \A i \in Pieces : P.j[i] = 0 /\ Within(Move(P.s[i], P.t[i], 0).v, VelocityRange)
  <2> TAKE i \in Pieces
  <2>1. i \in 0 .. 7
    BY DEF Pieces
  <2>2. s[i].a = 0 /\ c.t[i] \in Nat /\ s[i].v \in Int
    BY <1>1, <1>3, <1>4, <2>1, StartTypes
  <2>3. Move(s[i], c.t[i], 0).v = s[i].v
    BY <2>2 DEF Move
  <2> QED BY <1>1, <1>5, <2>1, <2>3 DEF Allowed
<1>7. Kept(P)
  BY <1>1, <1>5, <1>6, FlatKept
<1> QED BY <1>7 DEF P

\* Every profile the solvers propose keeps to the limits, whatever its kind.
LEMMA CandidateKept ==
  ASSUME NEW c, WellFormed(c), Accepted(c), TurnsAtTicks(c), c.kind # "disabled", InLimits(c)
  PROVE  Kept(ProfileOf(c))
<1>1. Allowed(c.to) /\ AmongVelocities(0) /\ AmongAccelerations(0)
  BY Zenon DEF InLimits
<1>2. CASE c.kind = "third"
  <2>1. Checked(c) /\ ThirdInLimits(c)
    BY <1>2, Zenon DEF Accepted, InLimits
  <2> QED BY <1>1, <1>2, <2>1, CheckedKept
<1>3. CASE c.kind = "third velocity"
  <2>1. CheckedForVelocity(c) /\ ThirdVelocityInLimits(c) /\ Carries(c.kind, "state")
    BY <1>3, Zenon DEF Accepted, InLimits, Carries
  <2>2. MotionOf(c) = Motion(c.from, c.t, Jerks(c.signs, c.t, c.jf), None, None)
    BY <1>3, Zenon DEF MotionOf
  <2> QED BY <2>1, <2>2, CheckedForVelocityKept, Zenon
<1>4. CASE c.kind = "second"
  <2>1. CheckedSecondOrder(c) /\ SecondInLimits(c)
    BY <1>4, Zenon DEF Accepted, InLimits
  <2> QED BY <1>1, <1>4, <2>1, CheckedSecondOrderKept
<1>5. CASE c.kind = "second velocity"
  <2>1. CheckedSecondOrderVelocity(c) /\ SecondVelocityInLimits(c) /\ ~ Carries(c.kind, "state")
    BY <1>5, Zenon DEF Accepted, InLimits, Carries
  <2>2. MotionOf(c) = SecondOrderVelocityMotion(c)
    BY <1>5, Zenon DEF MotionOf
  <2> QED BY <1>1, <2>1, <2>2, CheckedSecondOrderVelocityKept, Zenon
<1>6. CASE c.kind = "first"
  <2>1. AmongVelocities(c.v_up)
    BY <1>6, Zenon DEF InLimits
  <2> QED BY <1>1, <1>6, <2>1, CheckedFirstOrderKept
<1> QED BY <1>2, <1>3, <1>4, <1>5, <1>6, Zenon DEF WellFormed, Kinds

\* Once its brake is over, a profile that is kept to the limits samples within them.
LEMMA SampledKept ==
  ASSUME NEW P, NEW start, Joined(P, start, "position"), Kept(P),
         NEW at \in 0 .. Ends(P), BrakeDuration(P.brake) <= at
  PROVE  Within(StateAt(P, at).v, VelocityRange) /\ Within(StateAt(P, at).a, AccelerationRange)
<1>1. /\ P.t \in Timings /\ P.brake.t \in Nat \X Nat
      /\ at \in Nat /\ BrakeDuration(P.brake) \in Nat
  BY BrakeLasts DEF Joined, Kept
<1>2. \A x, j : With(x, j).v = x.v /\ With(x, j).a = x.a
  BY DEF With
<1>3. CASE at < Ends(P)
  <2>1. PICK g \in Segments :
          /\ Begin(P, g) <= at /\ at < Begin(P, g + 1)
          /\ StateAt(P, at) =
               With(Move(StateOf(P, g), at - Begin(P, g), JerkOf(P, g)), JerkOf(P, g))
    BY <1>1, <1>3, SegmentFound
  <2>2. /\ Begin(P, g + 1) = Begin(P, g) + Lasts(P, g)
        /\ Begin(P, g) \in Nat /\ Lasts(P, g) \in Nat
    BY <1>1, BeginSums DEF Segments
  <2>3. g \in 2 .. 8
    <3>1. Begin(P, 1) <= BrakeDuration(P.brake) /\ Begin(P, 2) = BrakeDuration(P.brake)
      <4>1. P.brake.t[1] \in Nat /\ P.brake.t[2] \in Nat /\ Start(P.t, 0) = 0
        BY <1>1, StartSums
      <4> QED BY <4>1 DEF Begin, BrakeDuration
    <3>2. g = 0 => Begin(P, g + 1) = Begin(P, 1)
      OBVIOUS
    <3>3. g = 1 => Begin(P, g + 1) = Begin(P, 2)
      OBVIOUS
    <3>4. Begin(P, g + 1) \in Nat
      BY <2>2
    <3> QED BY <1>1, <2>1, <3>1, <3>2, <3>3, <3>4 DEF Segments
  <2> DEFINE i == g - 2
             k == at - Begin(P, g)
  <2>4. i \in Pieces /\ StateOf(P, g) = P.s[i] /\ JerkOf(P, g) = P.j[i] /\ Lasts(P, g) = P.t[i]
    BY <2>3 DEF StateOf, JerkOf, Lasts, Pieces
  <2>5. k \in 0 .. P.t[i] /\ P.t[i] \in Nat
    BY <1>1, <2>1, <2>2, <2>4
  <2>6. StateAt(P, at) = With(Move(P.s[i], k, P.j[i]), P.j[i])
    BY <2>1, <2>4
  <2> HIDE DEF i, k
  <2>7. Allowed(Move(P.s[i], k, P.j[i]))
    <3>1. PieceAllowed(P.s[i], P.t[i], P.j[i])
      BY <2>4 DEF Kept
    <3> QED BY <2>5, <3>1, PieceKept DEF PieceAllowed
  <2> QED BY <1>2, <2>6, <2>7 DEF Allowed
<1>4. CASE at = Ends(P)
  <2>1. StateAt(P, at) = With(Move(StateOf(P, 9), at - Ends(P), 0), 0)
    BY <1>1, <1>4, StateAtEnd
  <2>2. StateOf(P, 9) = P.s[7] /\ P.s[7] \in States /\ Allowed(P.s[7])
    BY DEF StateOf, Kept
  <2>3. Ends(P) \in Nat
    BY <1>1, BeginSums
  <2>4. at - Ends(P) = 0
    BY <1>4, <2>3
  <2>5. Move(P.s[7], 0, 0) = P.s[7]
    BY <2>2, MovesAdd
  <2>6. StateAt(P, at) = With(P.s[7], 0)
    BY <2>1, <2>2, <2>4, <2>5
  <2> QED BY <1>2, <2>2, <2>6 DEF Allowed
<1>5. Ends(P) \in Nat
  BY <1>1, BeginSums
<1> QED BY <1>3, <1>4, <1>5

\* The section under way is kept to the limits, and brakes only if it is the first.
LEMMA SectionsKept ==
  ASSUME TrajectoryInv, valid, Together, AllInLimits, NEW k \in 1 .. Len(sections), NEW d \in Dofs
  PROVE  /\ Kept(sections[k][d])
         /\ k > 1 => BrakeDuration(sections[k][d].brake) = 0
<1>0. SectionInv /\ Len(sections) = waypoints + 1
  BY DEF TrajectoryInv, SampleInv
<1>1. PICK choice \in Proposals(waypoints) : Written(k, choice)
  BY <1>0 DEF SectionInv
<1>2. waypoints \in WaypointCounts /\ sections[k][d] = ProfileOf(choice[d])
  BY <1>0, <1>1 DEF SectionInv, Written, ProfilesOf
<1> DEFINE A == ProfileOf(choice[d])
<1>3. A.brake = choice[d].brake
  BY DEF ProfileOf
<1>4. Kept(sections[k][d])
  <2>1. /\ WellFormed(choice[d]) /\ Accepted(choice[d]) /\ TurnsAtTicks(choice[d])
        /\ choice[d].kind # "disabled" /\ InLimits(choice[d])
    BY <1>2, TrajectoryAssumption DEF Together, AllInLimits
  <2> QED BY <1>2, <2>1, CandidateKept
<1> HIDE DEF A
<1>5. ASSUME k > 1 PROVE BrakeDuration(sections[k][d].brake) = 0
  <2>1. k - 1 \in 1 .. Len(sections)
    BY <1>0, <1>5 DEF SectionInv
  <2>2. PICK before \in Proposals(waypoints) : Written(k - 1, before)
    BY <1>0, <2>1 DEF SectionInv
  <2> DEFINE B == ProfileOf(before[d])
  <2>3. B.s = MotionOf(before[d])
    BY DEF ProfileOf
  <2> HIDE DEF B
  <2>4. choice[d].start = MotionOf(before[d])[7]
    <3>1. sections[k - 1][d] = B
      BY <2>2 DEF Written, ProfilesOf, B
    <3> QED BY <1>1, <1>5, <2>3, <3>1 DEF Written
  <2>5. waypoints \in WaypointCounts \ {0}
    <3>1. waypoints \in Nat
      BY <1>2, TrajectoryAssumption
    <3> QED BY <1>0, <1>2, <1>5, <3>1
  <2>6. BrakeDuration(choice[d].brake) = 0
    BY <2>4, <2>5 DEF AllInLimits, BrakesAtTheStart
  <2> QED BY <1>2, <1>3, <2>6 DEF A
<1> QED BY <1>4, <1>5

\* From the end of its brake to its end a trajectory keeps velocity and
\* acceleration to the limits, though ruckig_profile_check_ctx and the other
\* checks look only at the ends of pieces and at some turning points.
THEOREM SampledRightHolds ==
  ASSUME Together, AllInLimits PROVE Spec => []SampledRight
<1>1. TrajectoryInv => WithinLimits
  <2> SUFFICES ASSUME TrajectoryInv, valid, time <= Whole, NEW d \in Dofs,
                      BrakeDuration(sections[1][d].brake) <= time
               PROVE  /\ Within(sample.states[d].v, VelocityRange)
                      /\ Within(sample.states[d].a, AccelerationRange)
    BY DEF WithinLimits
  <2>1. /\ time \in Nat /\ sample = AtTime(time) /\ SectionInv /\ sections # <<>>
        /\ Len(sections) \in Nat \ {0}
    BY Complete DEF TrajectoryInv
  <2>2. time \in 0 .. Whole
    <3>1. Whole \in Nat
      BY <2>1, SectionTimes DEF Whole, Last
    <3> QED BY <2>1, <3>1
  <2>3. PICK k \in 1 .. Len(sections) :
          /\ time - From(k) \in 0 .. Ends(sections[k][d])
          /\ AtTime(time).states[d] = StateAt(sections[k][d], time - From(k))
    BY <2>2, WithinSection
  <2> DEFINE P == sections[k][d]
             at == time - From(k)
  <2>4. Kept(P) /\ (k > 1 => BrakeDuration(P.brake) = 0)
    BY SectionsKept
  <2>5. PICK start : Joined(P, start, "position")
    <3>1. Chained(d, "position")
      BY <2>1, SectionsChained DEF Carried
    <3> QED BY <3>1 DEF Chained
  <2>6. BrakeDuration(P.brake) <= at
    <3>1. CASE k = 1
      BY <2>1, <3>1 DEF From
    <3>2. CASE k # 1
      BY <2>3, <2>4, <3>2
    <3> QED BY <3>1, <3>2
  <2>7. at \in 0 .. Ends(P) /\ sample.states[d] = StateAt(P, at)
    BY <2>1, <2>3
  <2> HIDE DEF P, at
  <2> QED BY <2>4, <2>5, <2>6, <2>7, SampledKept
<1>2. Spec => []TrajectoryInv
  BY TrajectoryInvariant
<1>3. Spec => []TypeOK
  BY TypesHold
<1> QED BY <1>1, <1>2, <1>3, PTL DEF SampledRight
=============================================================================
