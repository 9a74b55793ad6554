----------------------------- MODULE InputStore -----------------------------
(***************************************************************************)
(* The input handle (input.c) and the copy of it a solver keeps to tell    *)
(* whether its trajectory is still the one that was asked for.             *)
(*                                                                         *)
(* An input is a store of fields.  A field has a scope, which says how its *)
(* cells are laid out: one value for the whole input, one for each degree  *)
(* of freedom, one for each intermediate position or section and degree of *)
(* freedom, or one for each section.  An optional field counts only while  *)
(* its flag is up.  The arrays of positions and sections have the length   *)
(* of the handle's capacity, of which the present number is in use.        *)
(*                                                                         *)
(* Numbers are integers, Infinity and NaN, compared as C compares them.    *)
(***************************************************************************)
EXTENDS Integers, FiniteSets

CONSTANTS
  Dofs,
  Capacity,         \* max_number_of_waypoints of the input
  SolverCapacity,   \* and of the solver
  Cyclic,           \* the solver's delta_time is positive
  Offered,          \* what the caller writes to a field
  MaxChanged,       \* bounds how many fields differ from a new input's
  NaN,
  Infinity,
  NotGiven          \* what an optional field shows while its flag is down

VARIABLES
  input,            \* the caller's handle
  current_input,    \* the solver's copy
  initialized,      \* otg->current_input_initialized
  answer            \* of the last call

vars == <<input, current_input, initialized, answer>>

Answers == {"working", "invalid_input"}

Fields ==
  ({"input"} \X {"control_interface", "synchronization", "duration_discretization",
                 "minimum_duration", "interrupt_calculation_duration"})
  \cup ({"dof"} \X {"current_position", "current_velocity", "current_acceleration",
                    "target_position", "target_velocity", "target_acceleration",
                    "max_velocity", "max_acceleration", "max_jerk",
                    "max_position", "min_position", "enabled",
                    "min_velocity", "min_acceleration",
                    "control_interface", "synchronization"})
  \cup ({"section"} \X {"max_velocity", "min_velocity", "max_acceleration",
                        "min_acceleration", "max_jerk", "max_position", "min_position"})
  \cup {<<"point", "position">>, <<"duration", "minimum_duration">>}

Points     == <<"point", "position">>
PerSection == {f \in Fields : f[1] \in {"section", "duration"}}
PerDof     == {"dof"} \X {"min_velocity", "min_acceleration",
                          "control_interface", "synchronization"}
Durations  == {"input"} \X {"minimum_duration", "interrupt_calculation_duration"}
Modes      == {"input"} \X {"control_interface", "synchronization",
                            "duration_discretization"}
Optional   == PerSection \cup PerDof \cup Durations

Limits == {"max_velocity", "min_velocity", "max_acceleration", "min_acceleration", "max_jerk"}

\* A finite number is between the infinite ones.
ASSUME StoreAssumption ==
  /\ Dofs # {}
  /\ Capacity \in Nat /\ SolverCapacity \in Nat
  /\ Infinity \in Nat \ {0} /\ NaN \notin Int
  /\ \A f \in {"dof", "section"} \X Limits :
       Offered[f] \subseteq (-Infinity .. Infinity) \cup {NaN}

\* The cells of a field in use with n intermediate positions.
Cells(f, n) ==
  (CASE f[1] = "point"                   -> 1 .. n
     [] f[1] \in {"section", "duration"} -> 0 .. n
     [] OTHER                            -> {0})
  \X (IF f[1] \in {"dof", "point", "section"} THEN Dofs ELSE {0})

Interfaces       == {"position", "velocity"}
Synchronizations == {"time", "time_if_necessary", "phase", "none"}
Discretizations  == {"continuous", "discrete"}

\* What initialize_input_defaults leaves in a field (calloc left 0).
Default(f) ==
  CASE f[2] = "control_interface"       -> "position"
    [] f[2] = "synchronization"         -> "time"
    [] f[2] = "duration_discretization" -> "continuous"
    [] f = <<"dof", "enabled">>         -> TRUE
    [] f \in {"dof"} \X {"max_acceleration", "max_jerk", "max_position"} -> Infinity
    [] f = <<"dof", "min_position">>    -> -Infinity
    [] OTHER                            -> 0

\* A flag is a flag, and no value of an enumeration is a number.
ASSUME ModeAssumption ==
  /\ Offered[<<"dof", "enabled">>] \subseteq BOOLEAN
  /\ NaN \notin BOOLEAN
  /\ NaN \notin Interfaces \cup Synchronizations \cup Discretizations

\* What is not given is not an array.
ASSUME NotGivenAssumption ==
  \A f \in Fields, n \in (0 .. Capacity) \cup (0 .. SolverCapacity) :
    NotGiven \notin [Cells(f, n) -> Offered[f] \cup {Default(f)}]

Blank(capacity) ==
  [count |-> 0, has |-> {},
   value |-> [f \in Fields |-> [c \in Cells(f, capacity) |-> Default(f)]]]

-----------------------------------------------------------------------------
(* Comparisons of doubles: every one with NaN is false, but for "differs". *)

Less(a, b)     == a # NaN /\ b # NaN /\ a < b
Same(a, b)     == a # NaN /\ a = b
Negated(a)     == IF a = NaN THEN NaN ELSE -a
Finite(a)      == a \notin {NaN, Infinity, -Infinity}
Outside(a, low, high) == Less(high, a) \/ Less(a, low)

\* v_at_a_zero(v, a, j) > limit, and v_at_a_zero(v, a, -j) < limit
RisesAbove(v, a, j, limit) == 2 * j * limit < 2 * j * v + a * a
FallsBelow(v, a, j, limit) == 2 * j * v - a * a < 2 * j * limit

-----------------------------------------------------------------------------
(* What is read of an input.                                               *)

\* The fields that count, and what they hold.
Used(in) == (Fields \ Optional) \cup in.has

\* What the getters give back: the settings as the caller knows them.
View(in) ==
  [f \in Fields |-> IF f \in Used(in)
                    THEN [c \in Cells(f, in.count) |-> in.value[f][c]]
                    ELSE NotGiven]

ForDof(in, name, d) == in.value[<<"dof", name>>][<<0, d>>]

Discretization(in) == in.value[<<"input", "duration_discretization">>][<<0, 0>>]

\* ruckig_effective_control_interface
Interface(in, d) ==
  IF <<"dof", "control_interface">> \in in.has
  THEN ForDof(in, "control_interface", d)
  ELSE in.value[<<"input", "control_interface">>][<<0, 0>>]

\* section_max_velocity and the like: what the waypoint engine plans a
\* section with.
SectionMax(in, name, s, d) ==
  IF <<"section", name>> \in in.has
  THEN in.value[<<"section", name>>][<<s, d>>] ELSE ForDof(in, name, d)

SectionMin(in, name, opposite, s, d) ==
  CASE <<"section", name>> \in in.has -> in.value[<<"section", name>>][<<s, d>>]
    [] <<"section", name>> \notin in.has /\ <<"dof", name>> \in in.has -> ForDof(in, name, d)
    [] OTHER -> Negated(SectionMax(in, opposite, s, d))

\* waypoint_velocity_min .. waypoint_acceleration_max: the limits of the state
\* at an intermediate position, between two sections.
PointMin(in, name, opposite, p, d) ==
  LET left  == SectionMin(in, name, opposite, p - 1, d)
      right == SectionMin(in, name, opposite, p, d)
  IN  IF Less(right, left) THEN left ELSE right

PointMax(in, name, p, d) ==
  LET left  == SectionMax(in, name, p - 1, d)
      right == SectionMax(in, name, p, d)
  IN  IF Less(left, right) THEN left ELSE right

-----------------------------------------------------------------------------
(* ruckig_validate_input.                                                  *)

\* Fault: the solver's capacity is not looked at.
PointsAnywhere(in) ==
  /\ in.count <= Capacity
  /\ in.value[<<"input", "control_interface">>][<<0, 0>>] = "position"
  /\ Discretization(in) = "continuous"
  /\ in.has \cap {<<"input", "minimum_duration">>, <<"dof", "control_interface">>,
                  <<"dof", "synchronization">>} = {}

\* For an input with intermediate positions.
PointsSupported(in) ==
  /\ in.count <= Capacity /\ in.count <= SolverCapacity
  /\ in.value[<<"input", "control_interface">>][<<0, 0>>] = "position"
  /\ Discretization(in) = "continuous"
  /\ in.has \cap {<<"input", "minimum_duration">>, <<"dof", "control_interface">>,
                  <<"dof", "synchronization">>} = {}

StaysPut(in, d) ==
  /\ Same(ForDof(in, "target_position", d), ForDof(in, "current_position", d))
  /\ \A p \in 1 .. in.count :
       Same(in.value[Points][<<p, d>>], ForDof(in, "current_position", d))

\* The checks of every degree of freedom.
DofAccepted(in, d, checkCurrent, checkTarget) ==
  LET j_max == ForDof(in, "max_jerk", d)
      a_max == ForDof(in, "max_acceleration", d)
      a_min == IF <<"dof", "min_acceleration">> \in in.has
               THEN ForDof(in, "min_acceleration", d) ELSE Negated(a_max)
      a0 == ForDof(in, "current_acceleration", d)
      af == ForDof(in, "target_acceleration", d)
  IN  /\ NaN \notin {j_max, a_max, a_min}
      /\ j_max >= 0 /\ a_max >= 0 /\ a_min <= 0
      /\ in.count > 0 => j_max # Infinity
      /\ NaN \notin {a0, af, ForDof(in, "current_velocity", d),
                     ForDof(in, "target_velocity", d)}
      /\ checkCurrent => ~Outside(a0, a_min, a_max)
      /\ checkTarget => ~Outside(af, a_min, a_max)
      /\ in.count > 0 /\ ~ForDof(in, "enabled", d) => StaysPut(in, d)

\* The further checks under position control.
PositionAccepted(in, d, checkCurrent, checkTarget) ==
  LET j_max == ForDof(in, "max_jerk", d)
      v_max == ForDof(in, "max_velocity", d)
      v_min == IF <<"dof", "min_velocity">> \in in.has
               THEN ForDof(in, "min_velocity", d) ELSE Negated(v_max)
      a0 == ForDof(in, "current_acceleration", d)
      af == ForDof(in, "target_acceleration", d)
      v0 == ForDof(in, "current_velocity", d)
      vf == ForDof(in, "target_velocity", d)
      p_max == ForDof(in, "max_position", d)
      p_min == ForDof(in, "min_position", d)
  IN  /\ NaN \notin {ForDof(in, "current_position", d), ForDof(in, "target_position", d),
                     v_max, v_min, p_max, p_min}
      /\ v_max >= 0 /\ v_min <= 0 /\ p_min <= p_max
      /\ checkCurrent =>
           /\ ~Outside(v0, v_min, v_max)
           /\ a0 > 0 /\ j_max > 0 => ~RisesAbove(v0, a0, j_max, v_max)
           /\ a0 < 0 /\ j_max > 0 => ~FallsBelow(v0, a0, j_max, v_min)
      /\ checkTarget =>
           /\ ~Outside(vf, v_min, v_max)
           /\ af < 0 /\ j_max > 0 => ~RisesAbove(vf, af, j_max, v_max)
           /\ af > 0 /\ j_max > 0 => ~FallsBelow(vf, af, j_max, v_min)

\* Fault: the minima of the sections are not looked at.
CheckedMaxima(in, s, d) ==
  LET upper(name) == SectionMax(in, name, s, d)
      lower(name, max) == IF <<"dof", name>> \in in.has THEN ForDof(in, name, d)
                          ELSE Negated(max)
  IN  [max_velocity |-> upper("max_velocity"), max_acceleration |-> upper("max_acceleration"),
       min_velocity |-> lower("min_velocity", upper("max_velocity")),
       min_acceleration |-> lower("min_acceleration", upper("max_acceleration")),
       max_jerk |-> upper("max_jerk"),
       max_position |-> upper("max_position"), min_position |-> upper("min_position")]

\* The section's limits as the validation reads them.
CheckedLimits(in, s, d) ==
  LET has(scope, name) == <<scope, name>> \in in.has
      own(name)   == in.value[<<"section", name>>][<<s, d>>]
      upper(name) == IF has("section", name) THEN own(name) ELSE ForDof(in, name, d)
      lower(name, max) == IF has("section", name) THEN own(name)
                          ELSE IF has("dof", name) THEN ForDof(in, name, d)
                          ELSE Negated(max)
      v == upper("max_velocity")
      a == upper("max_acceleration")
  IN  [max_velocity |-> v, min_velocity |-> lower("min_velocity", v),
       max_acceleration |-> a, min_acceleration |-> lower("min_acceleration", a),
       max_jerk |-> upper("max_jerk"),
       max_position |-> upper("max_position"), min_position |-> upper("min_position")]

LimitsAccepted(l) ==
  /\ \A name \in DOMAIN l : l[name] # NaN
  /\ l.max_jerk # Infinity
  /\ l.max_velocity >= 0 /\ l.min_velocity <= 0
  /\ l.max_acceleration >= 0 /\ l.min_acceleration <= 0
  /\ l.max_jerk > 0
  /\ l.min_position <= l.max_position

SectionsAccepted(in) ==
  \A s \in 0 .. in.count :
    /\ \A d \in Dofs : LimitsAccepted(CheckedLimits(in, s, d))
    /\ <<"duration", "minimum_duration">> \in in.has =>
         LET t == in.value[<<"duration", "minimum_duration">>][<<s, 0>>]
         IN  Finite(t) /\ t >= 0

Accepted(in, checkCurrent, checkTarget) ==
  /\ Cyclic \/ Discretization(in) = "continuous"
  /\ in.count > 0 => PointsSupported(in)
  /\ \A d \in Dofs :
       /\ DofAccepted(in, d, checkCurrent, checkTarget)
       /\ Interface(in, d) = "position" => PositionAccepted(in, d, checkCurrent, checkTarget)
  /\ in.count > 0 => SectionsAccepted(in)

-----------------------------------------------------------------------------
(* Copies and comparisons.                                                 *)

\* ruckig_input_copy_state: every array, those whose flag is down included,
\* over the cells the source uses.
Fits(src, capacity) == src.count <= capacity

Copied(src, dst) ==
  [count |-> src.count, has |-> src.has,
   value |-> [f \in Fields |->
     [c \in DOMAIN dst.value[f] |->
        IF c \in Cells(f, src.count) THEN src.value[f][c] ELSE dst.value[f][c]]]]

\* Fault: as many sections as intermediate positions are compared.
SameFirst(lhs, rhs, fields) ==
  /\ lhs.count = rhs.count
  /\ lhs.has \cap fields = rhs.has \cap fields
  /\ \A f \in Used(lhs) \cap fields :
       \A c \in Cells(f, IF f \in PerSection THEN lhs.count - 1 ELSE lhs.count) :
         Same(lhs.value[f][c], rhs.value[f][c])

\* What all three comparisons do, over the fields each looks at.
SameFields(lhs, rhs, fields) ==
  /\ lhs.count = rhs.count
  /\ lhs.has \cap fields = rhs.has \cap fields
  /\ \A f \in Used(lhs) \cap fields : \A c \in Cells(f, lhs.count) :
       Same(lhs.value[f][c], rhs.value[f][c])

Interrupt == <<"input", "interrupt_calculation_duration">>
StateNow  == {"dof"} \X {"current_position", "current_velocity", "current_acceleration"}

\* ruckig_input_equals, ruckig_input_equals_ignoring_interrupt and
\* waypoint_planning_identity_equals
Equals(lhs, rhs)                 == SameFields(lhs, rhs, Fields)
EqualsButInterrupt(lhs, rhs)     == SameFields(lhs, rhs, Fields \ {Interrupt})
PlanningIdentityEquals(lhs, rhs) == SameFields(lhs, rhs, Fields \ (StateNow \cup {Interrupt}))

-----------------------------------------------------------------------------
(* The calls.                                                              *)

Init ==
  /\ input = Blank(Capacity)
  /\ current_input = Blank(SolverCapacity)
  /\ initialized = FALSE
  /\ answer = "working"

Changed(in) == {f \in Fields : \/ f \in in.has
                               \/ \E c \in DOMAIN in.value[f] : in.value[f][c] # Default(f)}

Refuse  == answer' = "invalid_input" /\ UNCHANGED input
Take(in) == input' = in /\ answer' = "working"

\* The values of a field, its flag up, with n intermediate positions.
With(in, f, n, x) ==
  [in EXCEPT !.value[f] = [c \in DOMAIN @ |-> IF c \in Cells(f, n) THEN x[c] ELSE @[c]],
             !.has = IF f \in Optional THEN @ \cup {f} ELSE @]

Arrays(f, n) == [Cells(f, n) -> Offered[f]]

\* ruckig_input_set_dof_enabled, and a write through a data pointer, which
\* no call of the library sees.
Write ==
  \E f \in Fields \ (Optional \cup Modes \cup {Points}) : \E c \in Cells(f, 0), x \in Offered[f] :
    Take([input EXCEPT !.value[f][c] = x])

\* A value of an enumeration must be one of its own.
Legal(f, x) ==
  /\ f[2] = "control_interface" => x \in Interfaces
  /\ f[2] = "synchronization" => x \in Synchronizations
  /\ f[2] = "duration_discretization" => x \in Discretizations

SetMode ==
  \E f \in Modes : \E x \in Offered[f] :
    IF Legal(f, x)
    THEN Take(With(input, f, 0, [c \in {<<0, 0>>} |-> x]))
    ELSE Refuse

\* The arrays with one value for each degree of freedom.
SetPerDof ==
  \E f \in PerDof : \E x \in Arrays(f, 0) :
    IF \A c \in DOMAIN x : Legal(f, x[c])
    THEN Take(With(input, f, 0, x))
    ELSE Refuse

\* ruckig_input_set_minimum_duration, .._set_interrupt_calculation_duration
AcceptableDuration(t) == Finite(t) /\ t >= 0

SetDuration(f, t) ==
  IF AcceptableDuration(t)
  THEN Take(With(input, f, 0, [c \in {<<0, 0>>} |-> t]))
  ELSE Refuse

\* The clear calls of one field.
Clear ==
  \E f \in Optional : Take([input EXCEPT !.has = @ \ {f}])

WithoutSections(in) == [in EXCEPT !.has = @ \ PerSection]

\* Fault: the settings of the sections go only when there are fewer.
SetFewerPositions ==
  \E n \in 0 .. Capacity : \E x \in Arrays(Points, n) :
    LET kept == IF input.count <= n THEN input ELSE WithoutSections(input)
    IN  Take([With(kept, Points, n, x) EXCEPT !.count = n])

\* One more than the capacity is refused.
SetIntermediatePositions ==
  \E n \in 0 .. Capacity + 1 :
    \/ n > Capacity /\ Refuse
    \/ n <= Capacity /\ \E x \in Arrays(Points, n) :
         LET kept == IF input.count = n THEN input ELSE WithoutSections(input)
         IN  Take([With(kept, Points, n, x) EXCEPT !.count = n])

ClearIntermediatePositions ==
  Take([WithoutSections(input) EXCEPT !.count = 0])

\* The caller says how many sections the values are for.
SetPerSection ==
  \E f \in PerSection : \E n \in {input.count, input.count + 1} : \E x \in Arrays(f, n) :
    IF n = input.count /\ (f[1] = "duration" => \A c \in DOMAIN x : AcceptableDuration(x[c]))
    THEN Take(With(input, f, n, x))
    ELSE Refuse

\* A calculation of ruckig_update that works ends by taking a copy, whose
\* answer is not looked at.
Calculate ==
  IF Accepted(input, FALSE, TRUE)
  THEN /\ current_input' = IF Fits(input, SolverCapacity)
                           THEN Copied(input, current_input) ELSE current_input
       /\ initialized' = TRUE
       /\ answer' = "working"
       /\ UNCHANGED input
  ELSE Refuse /\ UNCHANGED <<current_input, initialized>>

Caller ==
  /\ \/ Write \/ SetMode \/ SetPerDof
     \/ \E f \in Durations : \E t \in Offered[f] : SetDuration(f, t)
     \/ Clear \/ SetIntermediatePositions \/ ClearIntermediatePositions \/ SetPerSection
  /\ Cardinality(Changed(input')) <= MaxChanged
  /\ UNCHANGED <<current_input, initialized>>

Next == Caller \/ Calculate

Spec == Init /\ [][Next]_vars

\* The caller's part alone.
CallerSpec == Init /\ [][Caller]_vars

-----------------------------------------------------------------------------
(* Properties.                                                             *)

\* An input holds, in every cell, what may be written there.
Holds(in, capacity) ==
  /\ in = [count |-> in.count, has |-> in.has,
            value |-> [f \in Fields |-> in.value[f]]]
  /\ in.count \in 0 .. capacity
  /\ in.has \subseteq Optional
  /\ \A f \in Fields : in.value[f] \in [Cells(f, capacity) -> Offered[f] \cup {Default(f)}]

\* Both inputs hold, in every cell of their arrays, what may be written there.
TypeOK ==
  /\ Holds(input, Capacity)
  /\ Holds(current_input, SolverCapacity)
  /\ initialized \in BOOLEAN
  /\ answer \in Answers

\* The store is a set of settings: a call changes one of them, or replaces
\* the intermediate positions together with the settings made for the
\* sections they divide the motion into, and the solver's copy shows the
\* settings it was taken of.  So no limit made for one number of sections is
\* read with another number, and nothing left in an array is (input.c, the
\* setters, the clear calls and ruckig_input_copy_state).
Contract == INSTANCE InputContract WITH
  settings <- View(input),
  known    <- IF initialized THEN View(current_input) ELSE NotGiven

ImplementsContract == Contract!Spec

HasNaN(in) == \E f \in Used(in) : \E c \in Cells(f, in.count) : in.value[f][c] = NaN

\* The same settings but for some fields, and none of them NaN.
Alike(lhs, rhs, fields) ==
  \A f \in fields :
    /\ View(lhs)[f] = View(rhs)[f]
    /\ View(lhs)[f] # NotGiven => \A c \in DOMAIN View(lhs)[f] : View(lhs)[f][c] # NaN

\* The three comparisons that decide whether a trajectory or a search may go
\* on tell inputs apart exactly by their settings, never by what lies behind
\* a flag that is down or beyond the sections in use.
SameMeansSame ==
  /\ Equals(input, current_input) <=> Alike(input, current_input, Fields)
  /\ EqualsButInterrupt(input, current_input)
       <=> Alike(input, current_input, Fields \ {Interrupt})
  /\ PlanningIdentityEquals(input, current_input)
       <=> Alike(input, current_input, Fields \ (StateNow \cup {Interrupt}))

\* Together: the stored cells are what was written, and compared as such.
StoreFaithful == TypeOK /\ SameMeansSame

\* What the engine plans with: the limits of a section allow rest and have a
\* jerk to move with, and the limits at an intermediate position leave room
\* for a state within those of both sections it joins.
PlanLimits(in) ==
  \A d \in Dofs :
    /\ \A s \in 0 .. in.count :
         /\ SectionMin(in, "min_velocity", "max_velocity", s, d) <= 0
         /\ 0 <= SectionMax(in, "max_velocity", s, d)
         /\ SectionMin(in, "min_acceleration", "max_acceleration", s, d) <= 0
         /\ 0 <= SectionMax(in, "max_acceleration", s, d)
         /\ SectionMax(in, "max_jerk", s, d) \in 1 .. Infinity - 1
    /\ \A p \in 1 .. in.count :
         LET low  == PointMin(in, "min_velocity", "max_velocity", p, d)
             high == PointMax(in, "max_velocity", p, d)
         IN  /\ low <= high
             /\ \A s \in {p - 1, p} :
                  /\ SectionMin(in, "min_velocity", "max_velocity", s, d) <= low
                  /\ high <= SectionMax(in, "max_velocity", s, d)

\* An input with intermediate positions that the validation lets through has,
\* for every section, limits the engine can plan with: its reading of the
\* section's limits is the engine's.
AcceptedCanBePlanned ==
  input.count > 0 /\ Accepted(input, FALSE, TRUE) => PlanLimits(input)

\* Once a calculation has worked, and while the caller changes nothing, the
\* solver finds its copy equal, so that the next update goes on instead of
\* calculating again; and the copy, whose answer ruckig_update ignores, was
\* taken.  Not so for what the validation does not check: a position or a
\* velocity limit of a degree of freedom under velocity control, a position
\* between the ends, and the limits of the one section there is without them.
Unchecked(in) ==
  \/ \E d \in Dofs : Interface(in, d) # "position"
  \/ NaN \in {in.value[Points][<<p, d>>] : p \in 1 .. in.count, d \in Dofs}
  \/ in.count = 0 /\ \E f \in in.has, d \in Dofs :
       f[1] = "section" /\ in.value[f][<<0, d>>] = NaN

AcceptedIsRemembered ==
  [][ Calculate /\ answer' = "working" /\ ~Unchecked(input)
        => initialized' /\ Equals(input, current_input)' ]_vars

\* api_diagnostics.md: RUCKIG_ERROR_INVALID_INPUT is returned for "NaN position,
\* velocity, acceleration, or limit values".  The validation looks at the
\* positions of a degree of freedom only under position control, and at no
\* intermediate position.
NaNRefused == Accepted(input, FALSE, TRUE) => ~HasNaN(input)

\* api_diagnostics.md: "`minimum_duration` must be finite or infinite according
\* to normal `double` rules, non-NaN, and non-negative."
InfiniteDurationTaken ==
  [][ SetDuration(<<"input", "minimum_duration">>, Infinity) => answer' = "working" ]_vars
=============================================================================
