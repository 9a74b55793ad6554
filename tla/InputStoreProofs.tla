-------------------------- MODULE InputStoreProofs --------------------------
(***************************************************************************)
(* Proofs about InputStore, for every capacity, every set of fields and of *)
(* values offered for them.                                                *)
(*                                                                         *)
(* Holds follows every setter through the cells it writes, and gives what  *)
(* the comparisons and the contract say.  That a plan is remembered whole  *)
(* needs more: a copy that is compared must compare equal to itself, so no *)
(* number that can be accepted is NaN (Clean).                             *)
(***************************************************************************)
EXTENDS InputStore, TLAPS

\* Fewer intermediate positions use no other cells.
LEMMA FewerCells ==
  ASSUME NEW f, NEW m \in Nat, NEW n \in 0 .. m
  PROVE  Cells(f, n) \subseteq Cells(f, m)
  BY DEF Cells

\* Writing the cells in use keeps the store's type.
LEMMA WithHolds ==
  ASSUME NEW capacity \in Nat, NEW in, Holds(in, capacity),
         NEW f \in Fields, NEW n \in 0 .. capacity, NEW x \in [Cells(f, n) -> Offered[f]]
  PROVE  Holds(With(in, f, n, x), capacity) /\ With(in, f, n, x).count = in.count
  <1> DEFINE cells == [c \in DOMAIN in.value[f] |-> IF c \in Cells(f, n) THEN x[c] ELSE in.value[f][c]]
             value == [in.value EXCEPT ![f] = cells]
             has   == IF f \in Optional THEN in.has \cup {f} ELSE in.has
  <1>0. in = [count |-> in.count, has |-> in.has, value |-> in.value]
    BY DEF Holds
  <1>a. With(in, f, n, x) = [in EXCEPT !.value[f] = cells, !.has = has]
    BY DEF With
  <1>1. With(in, f, n, x) = [count |-> in.count, has |-> has, value |-> value]
    <2> HIDE DEF cells, has
    <2> QED BY <1>0, <1>a
  <1>2. cells \in [Cells(f, capacity) -> Offered[f] \cup {Default(f)}]
    BY DEF Holds
  <1>3. value = [g \in Fields |-> value[g]]
    BY DEF Holds
  <1>4. \A g \in Fields : value[g] \in [Cells(g, capacity) -> Offered[g] \cup {Default(g)}]
    BY <1>2 DEF Holds
  <1>5. has \subseteq Optional
    BY DEF Holds
  <1> HIDE DEF cells, value, has
  <1> QED
    BY <1>1, <1>3, <1>4, <1>5 DEF Holds

\* A record of three fields, changed in one.
LEMMA FieldChanged ==
  ASSUME NEW capacity \in Nat, NEW in, Holds(in, capacity)
  PROVE  /\ \A has : [in EXCEPT !.has = has] = [count |-> in.count, has |-> has, value |-> in.value]
         /\ \A n : [in EXCEPT !.count = n] = [count |-> n, has |-> in.has, value |-> in.value]
         /\ in.value = [f \in Fields |-> in.value[f]]
  <1>1. in = [count |-> in.count, has |-> in.has, value |-> in.value]
    BY DEF Holds
  <1>2. in.value = [f \in Fields |-> in.value[f]]
    BY DEF Holds
  <1> QED BY <1>1, <1>2

\* So does lowering flags.
LEMMA LoweredHolds ==
  ASSUME NEW capacity \in Nat, NEW in, Holds(in, capacity), NEW has, has \subseteq in.has
  PROVE  /\ Holds([in EXCEPT !.has = has], capacity)
         /\ [in EXCEPT !.has = has].count = in.count
  BY FieldChanged DEF Holds

\* And another number of positions within the capacity.
LEMMA CountHolds ==
  ASSUME NEW capacity \in Nat, NEW in, Holds(in, capacity), NEW n \in 0 .. capacity
  PROVE  Holds([in EXCEPT !.count = n], capacity)
  BY FieldChanged DEF Holds

\* Giving up the settings of the sections lowers flags.
LEMMA WithoutSectionsHolds ==
  ASSUME NEW capacity \in Nat, NEW in, Holds(in, capacity)
  PROVE  Holds(WithoutSections(in), capacity) /\ WithoutSections(in).count = in.count
  <1>1. WithoutSections(in) = [in EXCEPT !.has = in.has \ PerSection]
    BY DEF WithoutSections
  <1> QED BY <1>1, LoweredHolds

\* A setting of the whole input has one cell.
LEMMA OneCellHolds ==
  ASSUME NEW capacity \in Nat, NEW in, Holds(in, capacity),
         NEW f \in Modes \cup Durations, NEW x \in Offered[f]
  PROVE  Holds(With(in, f, 0, [c \in {<<0, 0>>} |-> x]), capacity)
  <1>1. f \in Fields /\ f[1] = "input"
    BY DEF Modes, Durations, Fields
  <1>2. Cells(f, 0) = {0} \X {0}
    BY <1>1 DEF Cells
  <1>3. {0} \X {0} = {<<0, 0>>}
    OBVIOUS
  <1>4. [c \in {<<0, 0>>} |-> x] \in [Cells(f, 0) -> Offered[f]]
    BY <1>2, <1>3
  <1> QED BY <1>1, <1>4, WithHolds

\* A new input.
LEMMA BlankHolds ==
  ASSUME NEW capacity \in Nat
  PROVE  Holds(Blank(capacity), capacity)
  <1> DEFINE value == [f \in Fields |-> [c \in Cells(f, capacity) |-> Default(f)]]
  <1>1. Blank(capacity) = [count |-> 0, has |-> {}, value |-> value]
    BY DEF Blank
  <1>2. value = [f \in Fields |-> value[f]]
    OBVIOUS
  <1>3. \A f \in Fields : value[f] \in [Cells(f, capacity) -> Offered[f] \cup {Default(f)}]
    OBVIOUS
  <1> HIDE DEF value
  <1>4. /\ Blank(capacity).count = 0
        /\ Blank(capacity).has = {}
        /\ Blank(capacity).value = value
    BY <1>1
  <1>5. [f \in Fields |-> Blank(capacity).value[f]] = value
    BY <1>2, <1>4
  <1>6. Blank(capacity) = [count |-> Blank(capacity).count, has |-> Blank(capacity).has,
                           value |-> [f \in Fields |-> Blank(capacity).value[f]]]
    BY <1>1, <1>4, <1>5
  <1>7. \A f \in Fields :
          Blank(capacity).value[f] \in [Cells(f, capacity) -> Offered[f] \cup {Default(f)}]
    BY <1>3, <1>4
  <1> QED BY <1>4, <1>6, <1>7 DEF Holds

\* A copy into an input with room for what the source has in use.
LEMMA CopyHolds ==
  ASSUME NEW in, Holds(in, Capacity), NEW known, Holds(known, SolverCapacity),
         Fits(in, SolverCapacity)
  PROVE  Holds(Copied(in, known), SolverCapacity)
  <1> USE StoreAssumption
  <1>1. in.count \in 0 .. SolverCapacity /\ in.count \in 0 .. Capacity
    BY DEF Holds, Fits
  <1>2. \A f \in Fields :
          /\ in.value[f] \in [Cells(f, Capacity) -> Offered[f] \cup {Default(f)}]
          /\ known.value[f] \in [Cells(f, SolverCapacity) -> Offered[f] \cup {Default(f)}]
          /\ Cells(f, in.count) \subseteq Cells(f, Capacity)
    BY <1>1, FewerCells DEF Holds
  <1> DEFINE cells(f) == [c \in DOMAIN known.value[f] |->
                 IF c \in Cells(f, in.count) THEN in.value[f][c] ELSE known.value[f][c]]
  <1>3. \A f \in Fields : cells(f) \in [Cells(f, SolverCapacity) -> Offered[f] \cup {Default(f)}]
    BY <1>2
  <1>4. Copied(in, known) = [count |-> in.count, has |-> in.has, value |-> [f \in Fields |-> cells(f)]]
    BY DEF Copied
  <1>5. in.has \subseteq Optional
    BY DEF Holds
  <1> HIDE DEF cells
  <1> QED BY <1>1, <1>3, <1>4, <1>5 DEF Holds

-----------------------------------------------------------------------------
\* Every call of the caller keeps the type of its input (input.c, the setters).
LEMMA CallerHolds ==
  ASSUME TypeOK, Caller
  PROVE  Holds(input, Capacity)' /\ answer' \in Answers
  <1> USE StoreAssumption
  <1>0. Holds(input, Capacity) /\ 0 \in 0 .. Capacity /\ input.count \in 0 .. Capacity
    BY DEF TypeOK, Holds
  <1>r. CASE Refuse
    BY <1>0, <1>r DEF Refuse, Answers, Holds
  <1>1. CASE Write
    <2>0. PICK f \in Fields : \E c \in Cells(f, 0), x \in Offered[f] :
            Take([input EXCEPT !.value[f][c] = x])
      BY <1>1 DEF Write
    <2>1. PICK c \in Cells(f, 0), x \in Offered[f] :
            Take([input EXCEPT !.value[f][c] = x])
      BY <2>0
    <2>2. input = [count |-> input.count, has |-> input.has, value |-> input.value]
      BY <1>0 DEF Holds
    <2>3. input' = [count |-> input.count, has |-> input.has,
                    value |-> [input.value EXCEPT ![f] = [@ EXCEPT ![c] = x]]]
      BY <2>1, <2>2 DEF Take
    <2>4. c \in Cells(f, Capacity)
      BY <1>0, FewerCells
    <2>5. [input.value[f] EXCEPT ![c] = x] \in [Cells(f, Capacity) -> Offered[f] \cup {Default(f)}]
      BY <1>0, <2>4 DEF Holds
    <2>6. input.value = [g \in Fields |-> input.value[g]]
      BY <1>0, FieldChanged
    <2> QED BY <1>0, <2>1, <2>3, <2>5, <2>6 DEF Holds, Take, Answers
  <1>2. CASE SetMode
    <2>1. PICK f \in Modes : \E x \in Offered[f] :
            IF Legal(f, x) THEN Take(With(input, f, 0, [c \in {<<0, 0>>} |-> x])) ELSE Refuse
      BY <1>2 DEF SetMode
    <2>2. PICK x \in Offered[f] :
            Refuse \/ Take(With(input, f, 0, [c \in {<<0, 0>>} |-> x]))
      BY <2>1
    <2>3. Holds(With(input, f, 0, [c \in {<<0, 0>>} |-> x]), Capacity)
      BY <1>0, OneCellHolds
    <2> QED BY <1>r, <2>2, <2>3 DEF Take, Answers
  <1>3. CASE SetPerDof
    <2>1. PerDof \subseteq Fields
      BY DEF PerDof, Fields
    <2> QED BY <1>0, <1>3, <1>r, <2>1, WithHolds DEF SetPerDof, Take, Answers, Arrays
  <1>4. CASE \E f \in Durations : \E t \in Offered[f] : SetDuration(f, t)
    <2>1. PICK f \in Durations : \E t \in Offered[f] : SetDuration(f, t)
      BY <1>4
    <2>2. PICK t \in Offered[f] :
            Refuse \/ Take(With(input, f, 0, [c \in {<<0, 0>>} |-> t]))
      BY <2>1 DEF SetDuration
    <2>3. Holds(With(input, f, 0, [c \in {<<0, 0>>} |-> t]), Capacity)
      BY <1>0, OneCellHolds
    <2> QED BY <1>r, <2>2, <2>3 DEF Take, Answers
  <1>5. CASE Clear
    BY <1>0, <1>5, LoweredHolds DEF Clear, Take, Answers
  <1>6. CASE SetIntermediatePositions
    <2>1. PICK n \in 0 .. Capacity + 1 :
            \/ n > Capacity /\ Refuse
            \/ n <= Capacity /\ \E x \in Arrays(Points, n) :
                 Take([With(IF input.count = n THEN input ELSE WithoutSections(input), Points, n, x)
                         EXCEPT !.count = n])
      BY <1>6 DEF SetIntermediatePositions
    <2>2. ASSUME n \in 0 .. Capacity, NEW x \in Arrays(Points, n), NEW kept,
                 kept = (IF input.count = n THEN input ELSE WithoutSections(input)),
                 Take([With(kept, Points, n, x) EXCEPT !.count = n])
          PROVE  Holds(input, Capacity)' /\ answer' \in Answers
      <3>1. Holds(kept, Capacity)
        BY <1>0, <2>2, WithoutSectionsHolds
      <3>2. Points \in Fields
        BY DEF Points, Fields
      <3>3. Holds(With(kept, Points, n, x), Capacity)
        BY <2>2, <3>1, <3>2, WithHolds DEF Arrays
      <3>4. Holds([With(kept, Points, n, x) EXCEPT !.count = n], Capacity)
        BY <2>2, <3>3, CountHolds
      <3>5. input' = [With(kept, Points, n, x) EXCEPT !.count = n] /\ answer' = "working"
        BY <2>2 DEF Take
      <3> QED BY <3>4, <3>5 DEF Answers
    <2>3. n <= Capacity => n \in 0 .. Capacity
      BY <2>1
    <2> QED BY <1>r, <2>1, <2>2, <2>3
  <1>7. CASE ClearIntermediatePositions
    BY <1>0, <1>7, WithoutSectionsHolds, CountHolds DEF ClearIntermediatePositions, Take, Answers
  <1>8. CASE SetPerSection
    <2>1. PerSection \subseteq Fields
      BY DEF PerSection
    <2> QED BY <1>0, <1>8, <1>r, <2>1, WithHolds DEF SetPerSection, Take, Answers, Arrays
  <1> QED BY <1>1, <1>2, <1>3, <1>4, <1>5, <1>6, <1>7, <1>8 DEF Caller

\* A new input and a new solver have arrays of the right type.
LEMMA InitType == Init => TypeOK
  BY StoreAssumption, BlankHolds DEF Init, TypeOK, Answers

\* A calculation copies into arrays that are long enough, so its step keeps it too.
LEMMA StepType == TypeOK /\ [Next]_vars => TypeOK'
  <1> SUFFICES ASSUME TypeOK, [Next]_vars PROVE TypeOK'
    OBVIOUS
  <1>1. CASE Caller
    BY <1>1, CallerHolds DEF Caller, TypeOK
  <1>2. CASE Calculate
    BY <1>2, CopyHolds DEF Calculate, Refuse, TypeOK, Answers
  <1>3. CASE UNCHANGED vars
    BY <1>3 DEF vars, TypeOK
  <1> QED BY <1>1, <1>2, <1>3 DEF Next

\* What is in the arrays of both inputs was put there by a setter or at the
\* creation, whatever the caller did.
THEOREM TypeCorrect == Spec => []TypeOK
  BY InitType, StepType, PTL DEF Spec

-----------------------------------------------------------------------------
(* The comparisons.                                                        *)

\* A field that counts shows an array, one that does not shows none.
LEMMA ShownIsUsed ==
  ASSUME NEW capacity \in {Capacity, SolverCapacity}, NEW in, Holds(in, capacity),
         NEW f \in Fields
  PROVE  View(in)[f] # NotGiven <=> f \in Used(in)
  <1> USE StoreAssumption
  <1>1. in.count \in 0 .. capacity /\ capacity \in Nat
    BY DEF Holds
  <1>2. in.value[f] \in [Cells(f, capacity) -> Offered[f] \cup {Default(f)}]
    BY DEF Holds
  <1>3. Cells(f, in.count) \subseteq Cells(f, capacity)
    BY <1>1, FewerCells
  <1>4. [c \in Cells(f, in.count) |-> in.value[f][c]]
          \in [Cells(f, in.count) -> Offered[f] \cup {Default(f)}]
    BY <1>2, <1>3
  <1>5. [c \in Cells(f, in.count) |-> in.value[f][c]] # NotGiven
    BY <1>1, <1>4, NotGivenAssumption
  <1> QED BY <1>5 DEF View

\* The same positions are as many positions.
LEMMA SamePoints ==
  ASSUME NEW lhs, NEW rhs, lhs.count \in Nat, rhs.count \in Nat,
         View(lhs)[Points] = View(rhs)[Points]
  PROVE  lhs.count = rhs.count
  <1>1. Points \in Fields /\ Points \notin Optional
    BY DEF Points, Fields, Optional, PerSection, PerDof, Durations
  <1>2. \A in : DOMAIN View(in)[Points] = (1 .. in.count) \X Dofs
    BY <1>1 DEF View, Used, Cells, Points
  <1>3. (1 .. lhs.count) \X Dofs = (1 .. rhs.count) \X Dofs
    BY <1>2
  <1>4. PICK d : d \in Dofs
    BY StoreAssumption
  <1>5. \A n \in Nat : n \in 1 .. lhs.count <=> n \in 1 .. rhs.count
    <2>1. \A n : n \in 1 .. lhs.count <=> <<n, d>> \in (1 .. lhs.count) \X Dofs
      BY <1>4
    <2>2. \A n : n \in 1 .. rhs.count <=> <<n, d>> \in (1 .. rhs.count) \X Dofs
      BY <1>4
    <2> QED BY <1>3, <2>1, <2>2
  <1> QED BY <1>5

\* A comparison that looks at the positions sees the settings of its fields
\* and nothing else.
LEMMA ComparedAsShown ==
  ASSUME NEW lhs, Holds(lhs, Capacity), NEW rhs, Holds(rhs, SolverCapacity),
         NEW fields \in SUBSET Fields, Points \in fields
  PROVE  SameFields(lhs, rhs, fields) <=> Alike(lhs, rhs, fields)
  <1> USE StoreAssumption
  <1>1. /\ lhs.count \in Nat /\ rhs.count \in Nat
        /\ lhs.has \subseteq Optional /\ rhs.has \subseteq Optional
    BY DEF Holds
  <1> DEFINE l == View(lhs)
             r == View(rhs)
  <1>2. \A f \in fields :
          /\ l[f] # NotGiven <=> f \in Used(lhs)
          /\ r[f] # NotGiven <=> f \in Used(rhs)
    BY ShownIsUsed
  <1>a. Alike(lhs, rhs, fields)
          <=> \A f \in fields : l[f] = r[f] /\ (l[f] # NotGiven => \A c \in DOMAIN l[f] : l[f][c] # NaN)
    BY DEF Alike
  <1>v. \A f \in fields :
          /\ f \in Used(lhs) => l[f] = [c \in Cells(f, lhs.count) |-> lhs.value[f][c]]
          /\ f \in Used(rhs) => r[f] = [c \in Cells(f, rhs.count) |-> rhs.value[f][c]]
    BY DEF View
  <1>p. l[Points] = r[Points] => lhs.count = rhs.count
    BY <1>1, SamePoints
  <1> HIDE DEF l, r
  <1>3. ASSUME SameFields(lhs, rhs, fields), NEW f \in fields
        PROVE  l[f] = r[f] /\ (l[f] # NotGiven => \A c \in DOMAIN l[f] : l[f][c] # NaN)
    <2>1. lhs.count = rhs.count /\ (f \in Used(lhs) <=> f \in Used(rhs))
      BY <1>3 DEF SameFields, Used
    <2>2. CASE f \in Used(lhs)
      <3>1. \A c \in Cells(f, lhs.count) :
              lhs.value[f][c] # NaN /\ lhs.value[f][c] = rhs.value[f][c]
        BY <1>3, <2>2 DEF SameFields, Same
      <3>2. /\ l[f] = [c \in Cells(f, lhs.count) |-> lhs.value[f][c]]
            /\ r[f] = [c \in Cells(f, lhs.count) |-> rhs.value[f][c]]
        BY <1>v, <2>1, <2>2
      <3> QED BY <3>1, <3>2
    <2>3. CASE f \notin Used(lhs)
      BY <1>2, <2>1, <2>3
    <2> QED BY <2>2, <2>3
  <1>4. ASSUME Alike(lhs, rhs, fields)
        PROVE  SameFields(lhs, rhs, fields)
    <2>1. lhs.count = rhs.count
      BY <1>a, <1>p, <1>4
    <2>2. \A f \in fields : f \in Used(lhs) <=> f \in Used(rhs)
      BY <1>2, <1>a, <1>4
    <2>3. lhs.has \cap fields = rhs.has \cap fields
      <3>1. \A in, f : in.has \subseteq Optional /\ f \in Optional
                         => (f \in Used(in) <=> f \in in.has)
        BY DEF Used
      <3> QED BY <1>1, <2>2, <3>1
    <2>4. ASSUME NEW f \in Used(lhs) \cap fields, NEW c \in Cells(f, lhs.count)
          PROVE  Same(lhs.value[f][c], rhs.value[f][c])
      <3>1. /\ l[f] = [x \in Cells(f, lhs.count) |-> lhs.value[f][x]]
            /\ r[f] = [x \in Cells(f, lhs.count) |-> rhs.value[f][x]]
        BY <1>v, <2>1, <2>2
      <3>2. l[f] = r[f] /\ l[f] # NotGiven
        BY <1>2, <1>a, <1>4
      <3>3. l[f][c] # NaN
        BY <1>a, <1>4, <3>1, <3>2
      <3> QED BY <3>1, <3>2, <3>3 DEF Same
    <2> QED BY <2>1, <2>3, <2>4 DEF SameFields
  <1> QED BY <1>3, <1>4, <1>a

\* What is in the arrays was put there by a setter or at the creation, and the
\* comparisons that decide whether a trajectory or a search goes on see the
\* settings, never a cell behind a flag that is down or beyond the sections in
\* use (input.c, ruckig_input_equals; waypoint.c, the planning identity).
THEOREM StoreFaithfulHolds == Spec => []StoreFaithful
  <1>1. TypeOK => SameMeansSame
    <2>1. /\ Points \in Fields
          /\ Points \in Fields \ {Interrupt}
          /\ Points \in Fields \ (StateNow \cup {Interrupt})
      BY DEF Points, Fields, Interrupt, StateNow
    <2> QED BY <2>1, ComparedAsShown
            DEF TypeOK, SameMeansSame, Equals, EqualsButInterrupt, PlanningIdentityEquals
  <1> QED BY <1>1, TypeCorrect, PTL DEF StoreFaithful

-----------------------------------------------------------------------------
(* An accepted input can be planned with.                                  *)

Numbers == (-Infinity .. Infinity) \cup {NaN}

\* The fields of the limits hold numbers.
LEMMA LimitsAreNumbers ==
  ASSUME NEW in, Holds(in, Capacity), NEW name \in Limits, NEW d \in Dofs
  PROVE  /\ ForDof(in, name, d) \in Numbers
         /\ \A s \in 0 .. in.count : in.value[<<"section", name>>][<<s, d>>] \in Numbers
  <1> DEFINE dof == <<"dof", name>>
             section == <<"section", name>>
  <1> USE StoreAssumption
  <1>1. dof \in Fields /\ section \in Fields
    BY DEF Fields, Limits
  <1>2. dof \in {"dof", "section"} \X Limits /\ section \in {"dof", "section"} \X Limits
    OBVIOUS
  <1>3. Offered[dof] \subseteq Numbers /\ Offered[section] \subseteq Numbers
    BY <1>2 DEF Numbers
  <1>4. Default(dof) \in {0, Infinity} /\ Default(section) \in {0, Infinity}
    BY DEF Default, Limits
  <1>5. {0, Infinity} \subseteq Numbers
    BY DEF Numbers
  <1>6. <<0, d>> \in Cells(dof, Capacity)
    BY DEF Cells
  <1>7. \A s \in 0 .. in.count : <<s, d>> \in Cells(section, Capacity)
    BY DEF Cells, Holds
  <1>8. /\ in.value[dof] \in [Cells(dof, Capacity) -> Offered[dof] \cup {Default(dof)}]
        /\ in.value[section] \in [Cells(section, Capacity) -> Offered[section] \cup {Default(section)}]
    BY <1>1 DEF Holds
  <1>9. Offered[dof] \cup {Default(dof)} \subseteq Numbers
    BY <1>3, <1>4, <1>5
  <1>10. Offered[section] \cup {Default(section)} \subseteq Numbers
    BY <1>3, <1>4, <1>5
  <1>11. ForDof(in, name, d) = in.value[dof][<<0, d>>]
    BY DEF ForDof
  <1> HIDE DEF dof, section
  <1>12. in.value[dof][<<0, d>>] \in Numbers
    BY <1>6, <1>8, <1>9
  <1>13. \A s \in 0 .. in.count : in.value[section][<<s, d>>] \in Numbers
    BY <1>7, <1>8, <1>10
  <1> QED BY <1>11, <1>12, <1>13 DEF section

\* The validation and the engine read a section's limits alike, and what the
\* validation accepts are numbers the engine can compare.
LEMMA SectionLimits ==
  ASSUME NEW in, Holds(in, Capacity), SectionsAccepted(in),
         NEW s \in 0 .. in.count, NEW d \in Dofs
  PROVE  /\ SectionMin(in, "min_velocity", "max_velocity", s, d) \in Int
         /\ SectionMin(in, "min_velocity", "max_velocity", s, d) <= 0
         /\ SectionMax(in, "max_velocity", s, d) \in Nat
         /\ SectionMin(in, "min_acceleration", "max_acceleration", s, d) \in Int
         /\ SectionMin(in, "min_acceleration", "max_acceleration", s, d) <= 0
         /\ SectionMax(in, "max_acceleration", s, d) \in Nat
         /\ SectionMax(in, "max_jerk", s, d) \in 1 .. Infinity - 1
  <1> DEFINE l == CheckedLimits(in, s, d)
             v == SectionMax(in, "max_velocity", s, d)
             a == SectionMax(in, "max_acceleration", s, d)
             j == SectionMax(in, "max_jerk", s, d)
             vlow == SectionMin(in, "min_velocity", "max_velocity", s, d)
             alow == SectionMin(in, "min_acceleration", "max_acceleration", s, d)
  <1> USE StoreAssumption
  <1>1. /\ l.max_velocity = v /\ l.max_acceleration = a /\ l.max_jerk = j
        /\ l.min_velocity = vlow /\ l.min_acceleration = alow
    BY DEF CheckedLimits, SectionMax, SectionMin
  <1>2. {"max_velocity", "max_acceleration", "max_jerk", "min_velocity", "min_acceleration"}
          \subseteq DOMAIN l
    BY DEF CheckedLimits
  <1>3. LimitsAccepted(l)
    BY DEF SectionsAccepted
  <1>4. /\ NaN \notin {v, a, j, vlow, alow} /\ j # Infinity
        /\ v >= 0 /\ a >= 0 /\ j > 0 /\ vlow <= 0 /\ alow <= 0
    <2> HIDE DEF l
    <2> QED BY <1>1, <1>2, <1>3 DEF LimitsAccepted
  <1>5. {v, a, j} \subseteq Numbers
    BY LimitsAreNumbers DEF SectionMax, Limits
  <1>6. v \in 0 .. Infinity /\ a \in 0 .. Infinity /\ j \in 1 .. Infinity - 1
    BY <1>4, <1>5 DEF Numbers
  <1>7. vlow \in Numbers \cup {-v} /\ alow \in Numbers \cup {-a}
    BY <1>4, LimitsAreNumbers DEF SectionMin, Limits, Negated
  <1> QED BY <1>4, <1>6, <1>7 DEF Numbers

\* Every section of an accepted input has limits that allow rest and a jerk to
\* move with, and the limits at an intermediate position lie within those of
\* both sections it joins (input.c, validate_waypoint_sections; waypoint.c,
\* the ranges of the velocities).
THEOREM AcceptedCanBePlannedHolds == Spec => []AcceptedCanBePlanned
  <1>1. TypeOK => AcceptedCanBePlanned
    <2> SUFFICES ASSUME TypeOK, input.count > 0, Accepted(input, FALSE, TRUE)
                 PROVE  PlanLimits(input)
      BY DEF AcceptedCanBePlanned
    <2>1. Holds(input, Capacity) /\ SectionsAccepted(input) /\ input.count \in Nat
      BY StoreAssumption DEF TypeOK, Holds, Accepted
    <2>2. ASSUME NEW d \in Dofs, NEW p \in 1 .. input.count
          PROVE  LET low  == PointMin(input, "min_velocity", "max_velocity", p, d)
                     high == PointMax(input, "max_velocity", p, d)
                 IN  /\ low <= high
                     /\ \A s \in {p - 1, p} :
                          /\ SectionMin(input, "min_velocity", "max_velocity", s, d) <= low
                          /\ high <= SectionMax(input, "max_velocity", s, d)
      <3>1. p - 1 \in 0 .. input.count /\ p \in 0 .. input.count /\ p \in Int
        BY <2>1
      <3>2. \A s \in {p - 1, p} :
              /\ SectionMin(input, "min_velocity", "max_velocity", s, d) \in Int
              /\ SectionMin(input, "min_velocity", "max_velocity", s, d) <= 0
              /\ SectionMax(input, "max_velocity", s, d) \in Nat
        BY <2>1, <3>1, SectionLimits
      <3> QED BY <3>2, StoreAssumption DEF PointMin, PointMax, Less
    <2>3. ASSUME NEW d \in Dofs, NEW s \in 0 .. input.count
          PROVE  /\ SectionMin(input, "min_velocity", "max_velocity", s, d) <= 0
                 /\ 0 <= SectionMax(input, "max_velocity", s, d)
                 /\ SectionMin(input, "min_acceleration", "max_acceleration", s, d) <= 0
                 /\ 0 <= SectionMax(input, "max_acceleration", s, d)
                 /\ SectionMax(input, "max_jerk", s, d) \in 1 .. Infinity - 1
      BY <2>1, SectionLimits
    <2> QED BY <2>2, <2>3 DEF PlanLimits
  <1> QED BY <1>1, TypeCorrect, PTL

-----------------------------------------------------------------------------
(* The store keeps its contract.                                           *)

\* What a caller sees of a field depends on its flag, on its values and on the
\* number of positions.
LEMMA SameView ==
  ASSUME NEW in, NEW out, NEW f \in Fields, out.count = in.count,
         f \in out.has <=> f \in in.has, out.value[f] = in.value[f]
  PROVE  View(out)[f] = View(in)[f]
  BY DEF View, Used

\* A call that leaves all fields but one, and the number of positions.
LEMMA GivesOne ==
  ASSUME NEW f \in Fields, input'.count = input.count,
         \A g \in Fields \ {f} :
           (g \in input'.has <=> g \in input.has) /\ input'.value[g] = input.value[g],
         UNCHANGED <<current_input, initialized>>
  PROVE  Contract!Give
  <1>1. \A g \in Fields \ {f} : View(input')[g] = View(input)[g]
    BY SameView
  <1>2. \A g \in Contract!Changed : g = f
    BY <1>1 DEF Contract!Changed
  <1>3. Points \in Fields /\ Points \notin Optional
    BY DEF Points, Fields, Optional, PerSection, PerDof, Durations
  <1>4. DOMAIN View(input')[Points] = DOMAIN View(input)[Points]
    BY <1>3 DEF View, Used
  <1> QED BY <1>2, <1>4 DEF Contract!Give

\* Writing a field is such a change.
LEMMA WithChangesOne ==
  ASSUME NEW capacity \in Nat, NEW in, Holds(in, capacity),
         NEW f \in Fields, NEW n, NEW x
  PROVE  /\ With(in, f, n, x).count = in.count
         /\ With(in, f, n, x) = [count |-> With(in, f, n, x).count,
                                has |-> With(in, f, n, x).has, value |-> With(in, f, n, x).value]
         /\ \A g \in Fields \ {f} :
              /\ g \in With(in, f, n, x).has <=> g \in in.has
              /\ With(in, f, n, x).value[g] = in.value[g]
  <1> DEFINE cells == [c \in DOMAIN in.value[f] |-> IF c \in Cells(f, n) THEN x[c] ELSE in.value[f][c]]
             has   == IF f \in Optional THEN in.has \cup {f} ELSE in.has
  <1>1. in = [count |-> in.count, has |-> in.has, value |-> in.value]
    BY DEF Holds
  <1>2. With(in, f, n, x) = [in EXCEPT !.value[f] = cells, !.has = has]
    BY DEF With
  <1>3. With(in, f, n, x) = [count |-> in.count, has |-> has, value |-> [in.value EXCEPT ![f] = cells]]
    <2> HIDE DEF cells, has
    <2> QED BY <1>1, <1>2
  <1>4. in.value = [g \in Fields |-> in.value[g]]
    BY FieldChanged
  <1>5. \A g \in Fields \ {f} : [in.value EXCEPT ![f] = cells][g] = in.value[g]
    <2> HIDE DEF cells
    <2> QED BY <1>4
  <1>6. \A g \in Fields \ {f} : g \in has <=> g \in in.has
    OBVIOUS
  <1> HIDE DEF cells, has
  <1> QED BY <1>3, <1>5, <1>6

\* The number of positions changes, and what was set for sections is given up.
LEMMA DividesAnew ==
  ASSUME input'.has \cap PerSection = {},
         \A g \in Fields \ (PerSection \cup {Points}) :
           (g \in input'.has <=> g \in input.has) /\ input'.value[g] = input.value[g],
         UNCHANGED <<current_input, initialized>>
  PROVE  Contract!Divide
  <1>1. \A f \in PerSection : f \in Fields /\ f \in Optional /\ View(input')[f] = NotGiven
    BY DEF PerSection, Optional, View, Used
  <1>2. ASSUME NEW g \in Fields \ (PerSection \cup {Points})
        PROVE  View(input')[g] = View(input)[g]
    <2>1. g[1] \in {"input", "dof"}
      BY DEF Fields, PerSection, Points
    <2>2. Cells(g, input'.count) = Cells(g, input.count)
      BY <2>1 DEF Cells
    <2> QED BY <2>2 DEF View, Used
  <1>3. Contract!Changed \subseteq PerSection \cup {Points}
    BY <1>2 DEF Contract!Changed
  <1> QED BY <1>1, <1>3 DEF Contract!Divide

\* A call of the caller changes one setting, or divides the motion anew.
LEMMA CallerKeepsContract ==
  ASSUME TypeOK, Caller
  PROVE  Contract!Next \/ UNCHANGED Contract!vars
  <1> USE StoreAssumption
  <1>0. Holds(input, Capacity) /\ UNCHANGED <<current_input, initialized>>
    BY DEF TypeOK, Caller
  <1>r. CASE Refuse
    BY <1>0, <1>r DEF Refuse, Contract!vars
  <1>w. ASSUME NEW f \in Fields, NEW n, NEW x, Take(With(input, f, n, x))
        PROVE  Contract!Give
    BY <1>0, <1>w, WithChangesOne, GivesOne DEF Take
  <1>f. Modes \subseteq Fields /\ Durations \subseteq Fields /\ PerDof \subseteq Fields
        /\ PerSection \subseteq Fields /\ Optional \subseteq Fields /\ Points \in Fields
        /\ Points \notin PerSection
    BY DEF Modes, Durations, PerDof, PerSection, Points, Fields, Optional
  <1>1. CASE Write
    <2>0. PICK f \in Fields : \E c \in Cells(f, 0), x \in Offered[f] :
            Take([input EXCEPT !.value[f][c] = x])
      BY <1>1 DEF Write
    <2>1. PICK c \in Cells(f, 0), x \in Offered[f] :
            Take([input EXCEPT !.value[f][c] = x])
      BY <2>0
    <2>2. input = [count |-> input.count, has |-> input.has, value |-> input.value]
      BY <1>0 DEF Holds
    <2>3. input' = [count |-> input.count, has |-> input.has,
                    value |-> [input.value EXCEPT ![f] = [@ EXCEPT ![c] = x]]]
      BY <2>1, <2>2 DEF Take
    <2>4. input.value = [g \in Fields |-> input.value[g]]
      BY <1>0, FieldChanged
    <2>5. \A g \in Fields \ {f} : input'.value[g] = input.value[g]
      BY <2>3, <2>4
    <2> QED BY <1>0, <2>3, <2>5, GivesOne DEF Contract!Next
  <1>2. CASE SetMode
    BY <1>r, <1>w, <1>f, <1>2 DEF SetMode, Contract!Next
  <1>3. CASE SetPerDof
    BY <1>r, <1>w, <1>f, <1>3 DEF SetPerDof, Contract!Next
  <1>4. CASE \E f \in Durations : \E t \in Offered[f] : SetDuration(f, t)
    BY <1>r, <1>w, <1>f, <1>4 DEF SetDuration, Contract!Next
  <1>5. CASE Clear
    <2>1. PICK f \in Optional : Take([input EXCEPT !.has = input.has \ {f}])
      BY <1>5 DEF Clear
    <2>2. input' = [count |-> input.count, has |-> input.has \ {f}, value |-> input.value]
      BY <1>0, <2>1, FieldChanged DEF Take
    <2> QED BY <1>0, <1>f, <2>2, GivesOne DEF Contract!Next
  <1>6. CASE SetIntermediatePositions
    <2>1. PICK n \in 0 .. Capacity + 1 :
            \/ Refuse
            \/ \E x \in Arrays(Points, n) :
                 Take([With(IF input.count = n THEN input ELSE WithoutSections(input), Points, n, x)
                         EXCEPT !.count = n])
      BY <1>6 DEF SetIntermediatePositions
    <2>2. ASSUME NEW x \in Arrays(Points, n), NEW kept,
                 kept = (IF input.count = n THEN input ELSE WithoutSections(input)),
                 Take([With(kept, Points, n, x) EXCEPT !.count = n])
          PROVE  Contract!Next
      <3>1. Holds(kept, Capacity)
        BY <1>0, <2>2, WithoutSectionsHolds
      <3> DEFINE new == With(kept, Points, n, x)
      <3>2. \A g \in Fields \ {Points} :
              (g \in new.has <=> g \in kept.has) /\ new.value[g] = kept.value[g]
        BY <1>f, <3>1, WithChangesOne
      <3>3. input' = [count |-> n, has |-> new.has, value |-> new.value]
        <4>1. new = [count |-> new.count, has |-> new.has, value |-> new.value]
          BY <3>1, <1>f, WithChangesOne
        <4>2. input' = [new EXCEPT !.count = n]
          BY <2>2 DEF Take
        <4> HIDE DEF new
        <4> QED BY <4>1, <4>2
      <3> HIDE DEF new
      <3>4. CASE input.count = n
        BY <1>0, <1>f, <2>2, <3>2, <3>3, <3>4, GivesOne DEF Contract!Next
      <3>5. CASE input.count # n
        <4>1. kept = [count |-> input.count, has |-> input.has \ PerSection, value |-> input.value]
          BY <1>0, <2>2, <3>5, FieldChanged DEF WithoutSections
        <4>2. /\ kept.has = input.has \ PerSection
              /\ kept.value = input.value
          BY <4>1
        <4>3. input'.has = new.has /\ input'.value = new.value
          BY <3>3
        <4> QED BY <1>0, <1>f, <3>2, <4>2, <4>3, DividesAnew DEF Contract!Next
      <3> QED BY <3>4, <3>5
    <2> QED BY <1>r, <2>1, <2>2
  <1>7. CASE ClearIntermediatePositions
    <2>1. WithoutSections(input) = [count |-> input.count, has |-> input.has \ PerSection,
                                    value |-> input.value]
      BY <1>0, FieldChanged DEF WithoutSections
    <2>2. input' = [WithoutSections(input) EXCEPT !.count = 0]
      BY <1>7 DEF ClearIntermediatePositions, Take
    <2>3. input' = [count |-> 0, has |-> input.has \ PerSection, value |-> input.value]
      BY <2>1, <2>2
    <2> QED BY <1>0, <2>3, DividesAnew DEF Contract!Next
  <1>8. CASE SetPerSection
    BY <1>r, <1>w, <1>f, <1>8 DEF SetPerSection, Contract!Next
  <1> QED BY <1>1, <1>2, <1>3, <1>4, <1>5, <1>6, <1>7, <1>8 DEF Caller

\* The copy that a calculation leaves shows what the input shows.
LEMMA CopyShows ==
  ASSUME NEW in, Holds(in, Capacity), NEW known, Holds(known, SolverCapacity),
         Fits(in, SolverCapacity)
  PROVE  View(Copied(in, known)) = View(in)
  <1> USE StoreAssumption
  <1>1. in.count \in 0 .. SolverCapacity
    BY DEF Holds, Fits
  <1>2. \A f \in Fields : DOMAIN known.value[f] = Cells(f, SolverCapacity)
    BY DEF Holds
  <1>3. \A f \in Fields : Cells(f, in.count) \subseteq Cells(f, SolverCapacity)
    BY <1>1, FewerCells
  <1> DEFINE new == Copied(in, known)
  <1>4. new.count = in.count /\ new.has = in.has
    BY DEF Copied
  <1>5. \A f \in Fields : \A c \in Cells(f, in.count) : new.value[f][c] = in.value[f][c]
    BY <1>2, <1>3 DEF Copied
  <1> HIDE DEF new
  <1>6. Used(new) = Used(in)
    BY <1>4 DEF Used
  <1>7. \A f \in Fields : View(new)[f] = View(in)[f]
    BY <1>4, <1>5, <1>6 DEF View
  <1>8. View(new) = [f \in Fields |-> View(new)[f]] /\ View(in) = [f \in Fields |-> View(in)[f]]
    BY DEF View
  <1>9. View(new) = View(in)
    <2> DEFINE V(i) == View(i)
    <2>1. \A f \in Fields : V(new)[f] = V(in)[f]
      BY <1>7
    <2>2. V(new) = [f \in Fields |-> V(new)[f]] /\ V(in) = [f \in Fields |-> V(in)[f]]
      BY <1>8
    <2> HIDE DEF V
    <2>3. V(new) = V(in)
      BY <2>1, <2>2
    <2> QED BY <2>3 DEF V
  <1> QED BY <1>9 DEF new

\* A calculation leaves what the caller shows in the solver's copy.
LEMMA CalculateKeepsContract ==
  ASSUME TypeOK, Calculate
  PROVE  Contract!Next \/ UNCHANGED Contract!vars
  <1> USE StoreAssumption
  <1>1. CASE Accepted(input, FALSE, TRUE)
    <2>1. Fits(input, SolverCapacity)
      BY <1>1 DEF TypeOK, Holds, Fits, Accepted, PointsSupported
    <2>2. /\ current_input' = Copied(input, current_input)
          /\ initialized' = TRUE /\ UNCHANGED input
      BY <1>1, <2>1 DEF Calculate
    <2>3. View(current_input') = View(input)
      BY <2>1, <2>2, CopyShows DEF TypeOK
    <2>4. Contract!Calculate
      BY <2>2, <2>3 DEF Contract!Calculate
    <2> QED BY <2>4 DEF Contract!Next
  <1>2. CASE ~Accepted(input, FALSE, TRUE)
    BY <1>2 DEF Calculate, Refuse, Contract!vars
  <1> QED BY <1>1, <1>2

\* A setter changes one setting, new positions take the settings of the
\* sections with them, and the solver's copy shows what was calculated with:
\* nothing that lies behind a flag, or beyond the cells in use, comes to light.
THEOREM KeepsContract == Spec => ImplementsContract
  <1>1. Init => Contract!Init
    <2> SUFFICES ASSUME Init PROVE Contract!Init
      OBVIOUS
    <2>1. input.has = {} /\ ~initialized
      BY DEF Init, Blank
    <2>2. \A f \in PerSection : f \in Fields /\ f \in Optional
      BY DEF PerSection, Optional
    <2> QED BY <2>1, <2>2 DEF Contract!Init, View, Used
  <1>2. TypeOK /\ [Next]_vars => [Contract!Next]_(Contract!vars)
    <2> SUFFICES ASSUME TypeOK, [Next]_vars PROVE [Contract!Next]_(Contract!vars)
      OBVIOUS
    <2>1. CASE UNCHANGED vars
      BY <2>1 DEF vars, Contract!vars
    <2> QED BY <2>1, CallerKeepsContract, CalculateKeepsContract DEF Next
  <1> QED BY <1>1, <1>2, TypeCorrect, PTL DEF Spec, ImplementsContract, Contract!Spec

-----------------------------------------------------------------------------
(* What was accepted is remembered.                                        *)

\* The fields that never hold NaN, accepted or not: the setters of modes and
\* durations look at what they are given, and a flag is no number.
Numbered == Modes \cup Durations
            \cup {<<"dof", "control_interface">>, <<"dof", "synchronization">>,
                  <<"dof", "enabled">>, <<"duration", "minimum_duration">>}

Clean(in) == \A f \in Numbered : \A c \in DOMAIN in.value[f] : in.value[f][c] # NaN

\* Fields that hold numbers are created with numbers.
LEMMA NumberedFields ==
  /\ Numbered \subseteq Fields
  /\ \A f \in Numbered : Default(f) # NaN
<1>1. Numbered \subseteq Fields
  BY DEF Numbered, Modes, Durations, Fields
<1>2. "position" # NaN /\ "time" # NaN /\ "continuous" # NaN
  BY ModeAssumption DEF Interfaces, Synchronizations, Discretizations
<1>3. 0 # NaN
  BY StoreAssumption
<1>4. /\ Default(<<"input", "control_interface">>) = "position"
      /\ Default(<<"dof", "control_interface">>) = "position"
      /\ Default(<<"input", "synchronization">>) = "time"
      /\ Default(<<"dof", "synchronization">>) = "time"
      /\ Default(<<"input", "duration_discretization">>) = "continuous"
  BY DEF Default
<1>5. /\ Default(<<"input", "minimum_duration">>) = 0
      /\ Default(<<"input", "interrupt_calculation_duration">>) = 0
      /\ Default(<<"duration", "minimum_duration">>) = 0
  BY DEF Default
<1>6. Default(<<"dof", "enabled">>) # NaN
  <2>1. Default(<<"dof", "enabled">>) = TRUE
    BY DEF Default
  <2>2. TRUE # NaN
    BY ModeAssumption
  <2> QED BY <2>1, <2>2
<1>7. \A f \in Numbered : Default(f) # NaN
  BY <1>2, <1>3, <1>4, <1>5, <1>6 DEF Numbered, Modes, Durations
<1> QED BY <1>1, <1>7

\* A value of an enumeration is not NaN, nor is a duration that is accepted.
LEMMA LegalIsNumbered ==
  /\ \A f \in Modes \cup {<<"dof", "control_interface">>, <<"dof", "synchronization">>} :
       \A x : Legal(f, x) => x # NaN
  /\ \A t : AcceptableDuration(t) => t # NaN
BY ModeAssumption DEF Legal, Modes, AcceptableDuration, Finite

\* Writing a field keeps the others, and this one if no NaN is written.
LEMMA WithClean ==
  ASSUME NEW in, Holds(in, Capacity), Clean(in), NEW f \in Fields, NEW n, NEW x,
         f \in Numbered => \A c \in Cells(f, n) : x[c] # NaN
  PROVE  Clean(With(in, f, n, x))
<1> DEFINE out == With(in, f, n, x)
           cells == [c \in DOMAIN in.value[f] |-> IF c \in Cells(f, n) THEN x[c] ELSE in.value[f][c]]
<1>1. \A g \in Fields \ {f} : out.value[g] = in.value[g]
  BY StoreAssumption, WithChangesOne
<1>2. out.value[f] = cells
  <2> DEFINE has == IF f \in Optional THEN in.has \cup {f} ELSE in.has
  <2>1. in = [count |-> in.count, has |-> in.has, value |-> in.value]
    BY DEF Holds
  <2>2. out = [in EXCEPT !.value[f] = cells, !.has = has]
    BY DEF With
  <2>3. in.value = [g \in Fields |-> in.value[g]]
    BY StoreAssumption, FieldChanged
  <2> HIDE DEF cells, has, out
  <2>4. out.value = [in.value EXCEPT ![f] = cells]
    BY <2>1, <2>2
  <2> QED BY <2>3, <2>4
<1> HIDE DEF out
<1>3. ASSUME NEW g \in Numbered, NEW c \in DOMAIN out.value[g]
      PROVE  out.value[g][c] # NaN
  <2>1. CASE g = f
    BY <1>2, <1>3, <2>1 DEF Clean
  <2>2. CASE g # f
    BY <1>1, <1>3, <2>2, NumberedFields DEF Clean
  <2> QED BY <2>1, <2>2
<1> QED BY <1>3 DEF Clean, out

\* Lowering flags, and another number of positions, change no value.
LEMMA ValueClean ==
  ASSUME NEW in, Clean(in), NEW out, out.value = in.value
  PROVE  Clean(out)
BY DEF Clean

\* The setters keep NaN out of these fields.
LEMMA CallerClean ==
  ASSUME TypeOK, Clean(input), Caller
  PROVE  Clean(input')
<1> USE StoreAssumption
<1>0. Holds(input, Capacity)
  BY DEF TypeOK
<1>r. CASE Refuse
  BY <1>r DEF Refuse
<1>1. CASE Write
  <2>0. PICK f \in Fields \ (Optional \cup Modes \cup {Points}) :
          \E c \in Cells(f, 0), x \in Offered[f] : Take([input EXCEPT !.value[f][c] = x])
    BY <1>1 DEF Write
  <2>1. PICK c \in Cells(f, 0), x \in Offered[f] :
          Take([input EXCEPT !.value[f][c] = x])
    BY <2>0
  <2>2. input = [count |-> input.count, has |-> input.has, value |-> input.value]
    BY <1>0 DEF Holds
  <2>3. input'.value = [input.value EXCEPT ![f] = [@ EXCEPT ![c] = x]]
    BY <2>1, <2>2 DEF Take
  <2>4. input.value = [g \in Fields |-> input.value[g]]
    BY <1>0, FieldChanged
  <2>5. \A g \in Fields \ {f} : input'.value[g] = input.value[g]
    BY <2>3, <2>4
  <2>6. f \in Numbered => f = <<"dof", "enabled">>
    BY DEF Numbered, Optional, PerSection, PerDof, Durations
  <2>7. f \in Numbered => x # NaN
    BY <2>6, ModeAssumption
  <2>8. input'.value[f] = [input.value[f] EXCEPT ![c] = x]
    BY <2>3, <2>4
  <2>9. f \in Numbered => \A b \in DOMAIN input'.value[f] : input'.value[f][b] # NaN
    BY <2>7, <2>8 DEF Clean
  <2> QED BY <2>5, <2>9, NumberedFields DEF Clean
<1>2. CASE SetMode
  <2>1. PICK f \in Modes : \E x \in Offered[f] :
          IF Legal(f, x) THEN Take(With(input, f, 0, [c \in {<<0, 0>>} |-> x])) ELSE Refuse
    BY <1>2 DEF SetMode
  <2>2. PICK x \in Offered[f] :
          \/ Refuse
          \/ Legal(f, x) /\ Take(With(input, f, 0, [c \in {<<0, 0>>} |-> x]))
    BY <2>1
  <2>3. f \in Fields /\ Cells(f, 0) = {<<0, 0>>}
    BY DEF Modes, Fields, Cells
  <2>4. Legal(f, x) => \A c \in Cells(f, 0) : [b \in {<<0, 0>>} |-> x][c] # NaN
    BY <2>3, LegalIsNumbered
  <2>5. Legal(f, x) => Clean(With(input, f, 0, [c \in {<<0, 0>>} |-> x]))
    BY <1>0, <2>3, <2>4, WithClean
  <2> QED BY <1>r, <2>2, <2>5 DEF Take
<1>3. CASE SetPerDof
  <2>1. PICK f \in PerDof : \E x \in Arrays(f, 0) :
          IF \A c \in DOMAIN x : Legal(f, x[c]) THEN Take(With(input, f, 0, x)) ELSE Refuse
    BY <1>3 DEF SetPerDof
  <2>2. PICK x \in Arrays(f, 0) :
          \/ Refuse
          \/ (\A c \in DOMAIN x : Legal(f, x[c])) /\ Take(With(input, f, 0, x))
    BY <2>1
  <2>3. f \in Fields /\ DOMAIN x = Cells(f, 0)
    BY DEF PerDof, Fields, Arrays
  <2>4. f \in Numbered => f \in {<<"dof", "control_interface">>, <<"dof", "synchronization">>}
    BY DEF PerDof, Numbered, Modes, Durations
  <2>5. (\A c \in DOMAIN x : Legal(f, x[c])) => Clean(With(input, f, 0, x))
    BY <1>0, <2>3, <2>4, LegalIsNumbered, WithClean
  <2> QED BY <1>r, <2>2, <2>5 DEF Take
<1>4. CASE \E f \in Durations : \E t \in Offered[f] : SetDuration(f, t)
  <2>1. PICK f \in Durations : \E t \in Offered[f] : SetDuration(f, t)
    BY <1>4
  <2>2. PICK t \in Offered[f] :
          \/ Refuse
          \/ AcceptableDuration(t) /\ Take(With(input, f, 0, [c \in {<<0, 0>>} |-> t]))
    BY <2>1 DEF SetDuration
  <2>3. f \in Fields /\ Cells(f, 0) = {<<0, 0>>}
    BY DEF Durations, Fields, Cells
  <2>4. AcceptableDuration(t) => \A c \in Cells(f, 0) : [b \in {<<0, 0>>} |-> t][c] # NaN
    BY <2>3, LegalIsNumbered
  <2>5. AcceptableDuration(t) => Clean(With(input, f, 0, [c \in {<<0, 0>>} |-> t]))
    BY <1>0, <2>3, <2>4, WithClean
  <2> QED BY <1>r, <2>2, <2>5 DEF Take
<1>5. CASE Clear
  <2>1. PICK f \in Optional : input' = [input EXCEPT !.has = input.has \ {f}]
    BY <1>5 DEF Clear, Take
  <2>2. input'.value = input.value
    BY <1>0, <2>1, FieldChanged
  <2> QED BY <2>2, ValueClean
<1>6. CASE SetIntermediatePositions
  <2>1. PICK n \in 0 .. Capacity + 1 :
          \/ Refuse
          \/ \E x \in Arrays(Points, n) :
               Take([With(IF input.count = n THEN input ELSE WithoutSections(input), Points, n, x)
                       EXCEPT !.count = n])
    BY <1>6 DEF SetIntermediatePositions
  <2>2. ASSUME NEW x \in Arrays(Points, n), NEW kept,
               kept = (IF input.count = n THEN input ELSE WithoutSections(input)),
               Take([With(kept, Points, n, x) EXCEPT !.count = n])
        PROVE  Clean(input')
    <3>1. Holds(kept, Capacity) /\ kept.value = input.value
      BY <1>0, <2>2, WithoutSectionsHolds, FieldChanged DEF WithoutSections
    <3>2. Points \in Fields \ Numbered
      BY DEF Points, Fields, Numbered, Modes, Durations
    <3> DEFINE new == With(kept, Points, n, x)
    <3>3. Clean(new) /\ new = [count |-> new.count, has |-> new.has, value |-> new.value]
      BY <3>1, <3>2, ValueClean, WithClean, WithChangesOne
    <3>4. input' = [new EXCEPT !.count = n]
      BY <2>2 DEF Take
    <3> HIDE DEF new
    <3>5. input'.value = new.value
      BY <3>3, <3>4
    <3> QED BY <3>3, <3>5, ValueClean
  <2> QED BY <1>r, <2>1, <2>2
<1>7. CASE ClearIntermediatePositions
  <2>1. WithoutSections(input) = [count |-> input.count, has |-> input.has \ PerSection,
                                  value |-> input.value]
    BY <1>0, FieldChanged DEF WithoutSections
  <2>2. input'.value = input.value
    BY <1>7, <2>1 DEF ClearIntermediatePositions, Take
  <2> QED BY <2>2, ValueClean
<1>8. CASE SetPerSection
  <2>1. PICK f \in PerSection, n \in {input.count, input.count + 1} : \E x \in Arrays(f, n) :
          \/ Refuse
          \/ /\ f[1] = "duration" => \A c \in DOMAIN x : AcceptableDuration(x[c])
             /\ Take(With(input, f, n, x))
    BY <1>8 DEF SetPerSection
  <2>2. PICK x \in Arrays(f, n) :
          \/ Refuse
          \/ /\ f[1] = "duration" => \A c \in DOMAIN x : AcceptableDuration(x[c])
             /\ Take(With(input, f, n, x))
    BY <2>1
  <2>3. f \in Fields /\ DOMAIN x = Cells(f, n)
    BY DEF PerSection, Arrays
  <2>4. f \in Numbered => f[1] = "duration"
    BY DEF PerSection, Numbered, Modes, Durations
  <2>5. (f[1] = "duration" => \A c \in DOMAIN x : AcceptableDuration(x[c]))
          => Clean(With(input, f, n, x))
    BY <1>0, <2>3, <2>4, LegalIsNumbered, WithClean
  <2> QED BY <1>r, <2>2, <2>5 DEF Take
<1> QED BY <1>1, <1>2, <1>3, <1>4, <1>5, <1>6, <1>7, <1>8 DEF Caller

\* A new input has numbers in them.
LEMMA BlankClean == Clean(Blank(Capacity))
<1>1. Blank(Capacity).value = [f \in Fields |-> [c \in Cells(f, Capacity) |-> Default(f)]]
  BY DEF Blank
<1> QED BY <1>1, NumberedFields DEF Clean

\* The setters of modes and durations keep NaN out of the input, whatever is
\* written elsewhere.
LEMMA CleanHolds == Spec => []Clean(input)
<1>1. Init => Clean(input)
  BY BlankClean DEF Init
<1>2. TypeOK /\ Clean(input) /\ [Next]_vars => Clean(input)'
  BY CallerClean DEF Next, Calculate, Refuse, vars
<1> QED BY <1>1, <1>2, TypeCorrect, PTL DEF Spec

\* In an accepted input the validation, or a setter before it, has looked at
\* every cell that counts, but for those that Unchecked names.
LEMMA AcceptedIsNumbered ==
  ASSUME NEW in, Holds(in, Capacity), Clean(in), Accepted(in, FALSE, TRUE), ~Unchecked(in),
         NEW f \in Used(in), NEW c \in Cells(f, in.count)
  PROVE  in.value[f][c] # NaN
<1> USE StoreAssumption
<1>0. /\ in.count \in 0 .. Capacity /\ in.has \subseteq Optional /\ f \in Fields
      /\ DOMAIN in.value[f] = Cells(f, Capacity) /\ Cells(f, in.count) \subseteq Cells(f, Capacity)
  <2>1. in.count \in 0 .. Capacity /\ in.has \subseteq Optional
    BY DEF Holds
  <2>2. f \in Fields
    BY <2>1 DEF Used, Optional, PerSection, PerDof, Durations, Fields
  <2> QED BY <2>1, <2>2, FewerCells DEF Holds
<1>1. CASE f \in Numbered
  BY <1>0, <1>1 DEF Clean
<1>2. CASE f = Points
  <2>1. PICK p \in 1 .. in.count, d \in Dofs : c = <<p, d>>
    BY <1>2 DEF Cells, Points
  <2> QED BY <1>2, <2>1 DEF Unchecked
<1>3. CASE f[1] = "section"
  <2>1. PICK s \in 0 .. in.count, d \in Dofs : c = <<s, d>>
    BY <1>3 DEF Cells
  <2>2. f \in in.has
    BY <1>0, <1>3 DEF Used, Optional, PerSection
  <2>3. CASE in.count = 0
    <3>1. c = <<0, d>>
      BY <2>1, <2>3
    <3> QED BY <1>3, <2>2, <2>3, <3>1 DEF Unchecked
  <2>4. CASE in.count # 0
    <3>1. LimitsAccepted(CheckedLimits(in, s, d))
      <4>1. in.count > 0
        BY <1>0, <2>4
      <4>2. SectionsAccepted(in)
        BY <4>1, Zenon DEF Accepted
      <4> QED BY <2>1, <4>2 DEF SectionsAccepted
    <3> DEFINE l == CheckedLimits(in, s, d)
    <3>2. l.max_velocity # NaN /\ l.min_velocity # NaN /\ l.max_acceleration # NaN
          /\ l.min_acceleration # NaN /\ l.max_jerk # NaN
          /\ l.max_position # NaN /\ l.min_position # NaN
      <4>1. \A name \in {"max_velocity", "min_velocity", "max_acceleration",
                         "min_acceleration", "max_jerk", "max_position", "min_position"} :
              name \in DOMAIN l
        BY DEF CheckedLimits
      <4>2. \A name \in DOMAIN l : l[name] # NaN
        BY <3>1 DEF LimitsAccepted
      <4> HIDE DEF l
      <4> QED BY <4>1, <4>2
    <3>3. f \in {"section"} \X {"max_velocity", "min_velocity", "max_acceleration",
                               "min_acceleration", "max_jerk", "max_position", "min_position"}
      BY <1>0, <1>3 DEF Fields
    <3>4. CASE f = <<"section", "max_velocity">>
      BY <2>1, <2>2, <3>2, <3>4 DEF CheckedLimits
    <3>5. CASE f = <<"section", "min_velocity">>
      BY <2>1, <2>2, <3>2, <3>5 DEF CheckedLimits
    <3>6. CASE f = <<"section", "max_acceleration">>
      BY <2>1, <2>2, <3>2, <3>6 DEF CheckedLimits
    <3>7. CASE f = <<"section", "min_acceleration">>
      BY <2>1, <2>2, <3>2, <3>7 DEF CheckedLimits
    <3>8. CASE f = <<"section", "max_jerk">>
      BY <2>1, <2>2, <3>2, <3>8 DEF CheckedLimits
    <3>9. CASE f = <<"section", "max_position">>
      BY <2>1, <2>2, <3>2, <3>9 DEF CheckedLimits
    <3>10. CASE f = <<"section", "min_position">>
      BY <2>1, <2>2, <3>2, <3>10 DEF CheckedLimits
    <3> QED BY <3>3, <3>4, <3>5, <3>6, <3>7, <3>8, <3>9, <3>10
  <2> QED BY <2>3, <2>4
<1>4. CASE f[1] = "dof" /\ f \notin Numbered
  <2>1. PICK d \in Dofs : c = <<0, d>>
    BY <1>4 DEF Cells
  <2>2. DofAccepted(in, d, FALSE, TRUE) /\ PositionAccepted(in, d, FALSE, TRUE)
    <3>1. Interface(in, d) = "position"
      BY <2>1 DEF Unchecked
    <3> QED BY <2>1, <3>1, Zenon DEF Accepted
  <2>3. /\ ForDof(in, "max_jerk", d) # NaN /\ ForDof(in, "max_acceleration", d) # NaN
        /\ ForDof(in, "current_acceleration", d) # NaN /\ ForDof(in, "target_acceleration", d) # NaN
        /\ ForDof(in, "current_velocity", d) # NaN /\ ForDof(in, "target_velocity", d) # NaN
        /\ <<"dof", "min_acceleration">> \in in.has => ForDof(in, "min_acceleration", d) # NaN
    BY <2>2 DEF DofAccepted
  <2>4. /\ ForDof(in, "current_position", d) # NaN /\ ForDof(in, "target_position", d) # NaN
        /\ ForDof(in, "max_velocity", d) # NaN
        /\ ForDof(in, "max_position", d) # NaN /\ ForDof(in, "min_position", d) # NaN
        /\ <<"dof", "min_velocity">> \in in.has => ForDof(in, "min_velocity", d) # NaN
    BY <2>2 DEF PositionAccepted
  <2>5. f \in in.has \/ f \notin {<<"dof", "min_velocity">>, <<"dof", "min_acceleration">>}
    BY DEF Used, Optional, PerDof
  <2>6. \E name \in {"current_position", "current_velocity", "current_acceleration",
                    "target_position", "target_velocity", "target_acceleration",
                    "max_velocity", "max_acceleration", "max_jerk",
                    "max_position", "min_position", "min_velocity", "min_acceleration"} :
          f = <<"dof", name>>
    BY <1>0, <1>4 DEF Fields, Numbered
  <2>7. PICK name \in {"current_position", "current_velocity", "current_acceleration",
                    "target_position", "target_velocity", "target_acceleration",
                    "max_velocity", "max_acceleration", "max_jerk",
                    "max_position", "min_position", "min_velocity", "min_acceleration"} :
          f = <<"dof", name>>
    BY <2>6
  <2>8. in.value[f][c] = ForDof(in, name, d)
    BY <2>1, <2>7 DEF ForDof
  <2> QED BY <2>3, <2>4, <2>5, <2>7, <2>8
<1>5. \/ f \in Numbered \/ f = Points \/ f[1] = "section"
      \/ f[1] = "dof"
  BY <1>0 DEF Fields, Numbered, Modes, Durations, Points
<1> QED BY <1>1, <1>2, <1>3, <1>4, <1>5

\* The copy of an input without NaN in use is equal to it.
LEMMA CopyEquals ==
  ASSUME NEW in, Holds(in, Capacity), NEW known, Holds(known, SolverCapacity),
         Fits(in, SolverCapacity),
         \A f \in Used(in) : \A c \in Cells(f, in.count) : in.value[f][c] # NaN
  PROVE  Equals(in, Copied(in, known))
<1> DEFINE new == Copied(in, known)
<1>1. new.count = in.count /\ new.has = in.has
  BY DEF Copied
<1>2. \A f \in Fields : Cells(f, in.count) \subseteq DOMAIN known.value[f]
  <2>1. in.count \in 0 .. SolverCapacity
    BY StoreAssumption DEF Holds, Fits
  <2>2. \A f \in Fields : DOMAIN known.value[f] = Cells(f, SolverCapacity)
    BY DEF Holds
  <2> QED BY <2>1, <2>2, FewerCells, StoreAssumption
<1>3. \A f \in Fields : \A c \in Cells(f, in.count) : new.value[f][c] = in.value[f][c]
  BY <1>2 DEF Copied
<1> HIDE DEF new
<1>4. Equals(in, new)
  BY <1>1, <1>3 DEF Equals, SameFields, Same
<1> QED BY <1>4 DEF new

\* A calculation that works leaves a copy that the next update finds equal, so
\* that it goes on instead of calculating again (ruckig_update and
\* ruckig_input_equals), unless a value that the validation does not look at
\* is NaN.
THEOREM AcceptedIsRememberedHolds == Spec => AcceptedIsRemembered
<1>1. ASSUME TypeOK, Clean(input), Calculate, answer' = "working", ~Unchecked(input)
      PROVE  initialized' /\ Equals(input, current_input)'
  <2>1. Accepted(input, FALSE, TRUE)
    BY <1>1 DEF Calculate, Refuse
  <2>2. Fits(input, SolverCapacity)
    BY <1>1, <2>1, StoreAssumption DEF TypeOK, Holds, Fits, Accepted, PointsSupported
  <2>3. /\ current_input' = Copied(input, current_input)
        /\ initialized' = TRUE /\ input' = input
    BY <1>1, <2>1, <2>2 DEF Calculate
  <2>4. \A f \in Used(input) : \A c \in Cells(f, input.count) : input.value[f][c] # NaN
    BY <1>1, <2>1, AcceptedIsNumbered DEF TypeOK
  <2>5. Equals(input, Copied(input, current_input))
    BY <1>1, <2>2, <2>4, CopyEquals DEF TypeOK
  <2> QED BY <2>3, <2>5
<1>2. TypeOK /\ Clean(input) =>
        [Calculate /\ answer' = "working" /\ ~Unchecked(input)
           => initialized' /\ Equals(input, current_input)']_vars
  BY <1>1
<1> QED BY <1>2, TypeCorrect, CleanHolds, PTL DEF AcceptedIsRemembered
=============================================================================
