------------------------- MODULE TrackingUpdateProofs -------------------------
(***************************************************************************)
(* Proofs about TrackingUpdate, for all outputs, inputs and settings, any  *)
(* solver and objective that meets the assumptions, and calls in any       *)
(* order.                                                                  *)
(*                                                                         *)
(* UpdateInv says that the diagnostics count what the search under way has *)
(* counted (SearchInv), and that the solver's memory is the state the      *)
(* output it belongs to has reached (PlansInv): the first makes the        *)
(* diagnostics right when a search publishes or fails, the second keeps an *)
(* output from being followed with another's plan.                         *)
(***************************************************************************)
EXTENDS TrackingUpdate, TrackingCandidatesProofs

-----------------------------------------------------------------------------
(* The diagnostics.                                                        *)

Accounted(d) == d.candidates = Total(d.families) /\ d.candidates = d.valid + d.rejected

\* No step has been marked since the last reset.
UnderWay(d) == d.status = "none" /\ d.optimized = 0 /\ d.fallback = 0 /\ d.error = 0

\* A handle that was only made is accounted for.
LEMMA BlankType ==
  Blank \in Diagnostics /\ Accounted(Blank) /\ UnderWay(Blank) /\ Blank.candidates = 0
<1>1. [f \in Families |-> 0] \in [Families -> Nat]
  OBVIOUS
<1>2. Total([f \in Families |-> 0]) = 0
  BY DEF Total, Families, Phases
<1> QED BY <1>1, <1>2 DEF Blank, Diagnostics, Statuses, Accounted, UnderWay

\* A candidate is counted once in its family and once by its fate.
LEMMA NotedType ==
  ASSUME NEW d \in Diagnostics, NEW family \in Families, NEW valid \in BOOLEAN
  PROVE  /\ Noted(d, family, valid) \in Diagnostics
         /\ Noted(d, family, valid).candidates = d.candidates + 1
         /\ Noted(d, family, valid).valid = IF valid THEN d.valid + 1 ELSE d.valid
         /\ Noted(d, family, valid).rejected = IF valid THEN d.rejected ELSE d.rejected + 1
         /\ Noted(d, family, valid).families = [d.families EXCEPT ![family] = @ + 1]
         /\ Accounted(d) => Accounted(Noted(d, family, valid))
         /\ UnderWay(d) => UnderWay(Noted(d, family, valid))
<1> DEFINE n == Noted(d, family, valid)
           f == [d.families EXCEPT ![family] = @ + 1]
<1>1. d.families \in [Families -> Nat]
  BY DEF Diagnostics
<1>2. f \in [Families -> Nat]
  BY <1>1
<1>3. Total(f) = Total(d.families) + 1
  BY <1>1 DEF Total, Families, Phases
<1> DEFINE v == IF valid THEN d.valid + 1 ELSE d.valid
           r == IF valid THEN d.rejected ELSE d.rejected + 1
<1>4. n = [d EXCEPT !.candidates = d.candidates + 1, !.families = f, !.valid = v, !.rejected = r]
  BY <1>1 DEF Noted, Diagnostics
<1>a. v \in Nat /\ r \in Nat /\ d.candidates + 1 \in Nat
  BY DEF Diagnostics
<1> HIDE DEF f, v, r
<1>5. n \in Diagnostics
  BY <1>2, <1>4, <1>a DEF Diagnostics
<1>6. /\ n.candidates = d.candidates + 1
      /\ n.valid = v /\ n.rejected = r
      /\ n.families = f /\ n.status = d.status
      /\ n.optimized = d.optimized /\ n.fallback = d.fallback /\ n.error = d.error
  BY <1>4 DEF Diagnostics
<1>7. /\ d.candidates \in Nat /\ d.valid \in Nat /\ d.rejected \in Nat
      /\ Total(d.families) \in Nat
  BY <1>1 DEF Diagnostics, Total, Families, Phases
<1> HIDE DEF n
<1>8. Accounted(d) => Accounted(n)
  BY <1>3, <1>6, <1>7 DEF Accounted, v, r
<1>9. UnderWay(d) => UnderWay(n)
  BY <1>6 DEF UnderWay
<1> QED BY <1>5, <1>6, <1>8, <1>9 DEF n, f, v, r

\* Marking a step changes the status and one step count.
LEMMA MarkedType ==
  ASSUME NEW d \in Diagnostics, NEW status \in Statuses
  PROVE  /\ Marked(d, status) \in Diagnostics
         /\ Marked(d, status).status = status
         /\ Marked(d, status).candidates = d.candidates
         /\ Marked(d, status).families = d.families
         /\ Marked(d, status).best = d.best
         /\ Accounted(d) => Accounted(Marked(d, status))
         /\ UnderWay(d) =>
              Marked(d, status).optimized + Marked(d, status).fallback + Marked(d, status).error
                = IF status \in {"optimized", "fast_fallback", "error"} THEN 1 ELSE 0
<1> DEFINE m == Marked(d, status)
           Plus(n, is) == IF is THEN n + 1 ELSE n
<1>1. m = [d EXCEPT !.status = status,
                    !.optimized = Plus(d.optimized, status = "optimized"),
                    !.fallback  = Plus(d.fallback, status = "fast_fallback"),
                    !.error     = Plus(d.error, status = "error")]
  BY DEF Marked, Diagnostics
<1>2. d.optimized \in Nat /\ d.fallback \in Nat /\ d.error \in Nat
  BY DEF Diagnostics
<1>3. /\ Plus(d.optimized, status = "optimized") \in Nat
      /\ Plus(d.fallback, status = "fast_fallback") \in Nat
      /\ Plus(d.error, status = "error") \in Nat
  BY <1>2
<1>4. /\ m.status = status /\ m.candidates = d.candidates /\ m.families = d.families
      /\ m.valid = d.valid /\ m.rejected = d.rejected /\ m.best = d.best
      /\ m.optimized = Plus(d.optimized, status = "optimized")
      /\ m.fallback = Plus(d.fallback, status = "fast_fallback")
      /\ m.error = Plus(d.error, status = "error")
  <2> HIDE DEF Plus, m
  <2> QED BY <1>1 DEF Diagnostics
<1>5. m \in Diagnostics
  <2> HIDE DEF Plus, m
  <2> QED BY <1>1, <1>3 DEF Diagnostics
<1>6. UnderWay(d) => m.optimized + m.fallback + m.error
                       = IF status \in {"optimized", "fast_fallback", "error"} THEN 1 ELSE 0
  <2> HIDE DEF m
  <2> QED BY <1>4 DEF UnderWay
<1>7. Accounted(d) => Accounted(m)
  BY <1>4 DEF Accounted
<1> QED BY <1>4, <1>5, <1>6, <1>7

\* The note of a spent budget is not a count.
LEMMA BudgetNotedType ==
  ASSUME NEW d \in Diagnostics
  PROVE  /\ BudgetNoted(d) \in Diagnostics
         /\ BudgetNoted(d).candidates = d.candidates
         /\ BudgetNoted(d).valid = d.valid /\ BudgetNoted(d).rejected = d.rejected
         /\ Accounted(d) => Accounted(BudgetNoted(d))
         /\ UnderWay(d) => UnderWay(BudgetNoted(d))
BY DEF BudgetNoted, Diagnostics, Accounted, UnderWay

\* Nor are the scores.
LEMMA ScoredType ==
  ASSUME NEW d \in Diagnostics, NEW n \in Nat
  PROVE  LET e == [d EXCEPT !.fast = n, !.best = n]
             b == [d EXCEPT !.best = n]
         IN  /\ e \in Diagnostics /\ b \in Diagnostics /\ b.best = n
             /\ e.candidates = d.candidates /\ e.valid = d.valid /\ e.rejected = d.rejected
             /\ b.candidates = d.candidates
             /\ Accounted(d) => Accounted(e) /\ Accounted(b)
             /\ UnderWay(d) => UnderWay(e) /\ UnderWay(b)
BY DEF Diagnostics, Accounted, UnderWay

-----------------------------------------------------------------------------
(* What a call is given.                                                   *)

\* The window of an update begins with the first target.
LEMMA FirstWindow ==
  ASSUME NEW ts \in TargetSequences, NEW s \in Settings
  PROVE  /\ Window(ts, 0, s) \in Windows
         /\ \A i \in 1 .. Len(Window(ts, 0, s)) :
              i \in 1 .. Len(ts) /\ Window(ts, 0, s)[i] = ts[i]
         /\ 1 \in 1 .. Len(ts) /\ ts[1] \in Targets
<1>1. ts \in Seq(Targets) /\ Len(ts) \in Nat \ {0}
  BY TargetsAreSeq, SizeAssumption
<1>2. Window(ts, 0, s) \in Windows /\ ts[0 + 1] \in Targets
  BY <1>1, WindowType
<1> DEFINE n == AtMost(Len(ts) - 0, s.look_ahead)
<1>3. s.look_ahead \in Nat \ {0}
  BY SizeAssumption DEF Settings
<1>4. n \in 1 .. Len(ts)
  BY <1>1, <1>3 DEF AtMost
<1>5. Window(ts, 0, s) = SubSeq(ts, 1, n)
  <2>1. 0 + 1 = 1 /\ 0 + n = n
    BY <1>1, <1>4
  <2> QED BY <2>1 DEF Window
<1> HIDE DEF n
<1>6. Len(SubSeq(ts, 1, n)) = n /\ \A i \in 1 .. n : SubSeq(ts, 1, n)[i] = ts[i]
  BY <1>1, <1>4
<1> QED BY <1>1, <1>2, <1>4, <1>5, <1>6

\* A call is entered with a cycle of the right type.
LEMMA EnteredType ==
  ASSUME TypeOK, NEW o \in Outputs, NEW q \in Inputs
  PROVE  /\ Entered(o, q) \in Calls
         /\ Entered(o, q) = [running |-> FALSE, output |-> o, budget |-> q.budget, search |-> Idle,
              cycle |-> Entered(o, q).cycle, interrupted |-> FALSE,
              own |-> Entered(o, q).own, least |-> 0]
         /\ Entered(o, q).own = (otg = NoPlan \/ follower = o)
         /\ Entered(o, q).cycle \in Cycles
         /\ Entered(o, q).cycle.place = q.place /\ Entered(o, q).cycle.settings = settings
         /\ Entered(o, q).cycle.window = Window(q.targets, 0, settings)
<1>1. q.place \in Places /\ q.budget \in Budgets /\ q.targets \in TargetSequences
  BY UpdateAssumption
<1>2. settings \in Settings
  BY UpdateAssumption DEF TypeOK
<1>3. Window(q.targets, 0, settings) \in Windows
  BY <1>1, <1>2, FirstWindow
<1> DEFINE cycle == [place |-> q.place, settings |-> settings,
                     window |-> Window(q.targets, 0, settings)]
<1>4. cycle \in Cycles
  BY <1>1, <1>2, <1>3 DEF Cycles
<1>5. cycle.place = q.place /\ cycle.settings = settings
      /\ cycle.window = Window(q.targets, 0, settings)
  OBVIOUS
<1> DEFINE own == otg = NoPlan \/ follower = o
<1>6. Entered(o, q) = [running |-> FALSE, output |-> o, budget |-> q.budget, search |-> Idle,
                       cycle |-> cycle, interrupted |-> FALSE, own |-> own, least |-> 0]
  BY DEF Entered
<1>7. own \in BOOLEAN
  OBVIOUS
<1> HIDE DEF cycle, own
<1>8. Entered(o, q) \in Calls
  BY <1>1, <1>4, <1>6, <1>7 DEF Calls
<1> QED BY <1>4, <1>5, <1>6, <1>8 DEF own

-----------------------------------------------------------------------------
(* The inductive invariant.                                                *)

\* While a search is under way the diagnostics have counted what it counted,
\* and nothing has been marked; it is sound, and was interrupted or not as its
\* budget says.
SearchInv ==
  LET c == call.cycle r == call.search d == diagnostics IN
  Running =>
    /\ ~Unsearchable(c) /\ c.settings = settings
    /\ Sound(c, r) /\ Thrifty(c, r)
    /\ r.phase = "fast" => r.count = 0 /\ ~call.interrupted
    /\ r.phase # "fast" /\ c.settings.strategy # "aggressive" => r.best_score = call.least
    /\ call.budget = "zero" => r.phase = "fast" \/ call.interrupted
    /\ d.candidates = r.count /\ d.valid = r.valid /\ d.rejected = r.rejected
    /\ UnderWay(d)

\* Every plan can be followed, and where the solver's memory belongs to an
\* output that was not invalidated it is the state that output has reached.
PlansInv ==
  /\ \A o \in Outputs : outputs[o] # NoPlan =>
       /\ Solvable(outputs[o].from, outputs[o].aim)
       /\ outputs[o].age = 1 \/ outputs[o].age \in 1 .. MaxAge
  /\ follower \in Outputs /\ outputs[follower] # NoPlan =>
       otg = [at |-> Reached(outputs[follower]), aim |-> outputs[follower].aim]

\* An update that worked is remembered as the last call.
CallInv == Worked => call # NoCall

UpdateInv ==
  /\ TypeOK /\ CandidatesCounted /\ DiagnosticsTell
  /\ SearchInv /\ PlansInv /\ CallInv
  /\ BestSoFar /\ StopsInTime /\ NoJump

\* What says nothing of a state without a call that worked.
LEMMA WithoutCall ==
  ASSUME call' = NoCall, result' # "working"
  PROVE  /\ ~Running' /\ SearchInv' /\ CallInv' /\ BestSoFar' /\ StopsInTime' /\ NoJump'
BY DEF Running, Idling, Worked, SearchInv, CallInv, BestSoFar, StopsInTime, NoJump

\* So is the initial state.
LEMMA InitInv == Init => UpdateInv
<1> SUFFICES ASSUME Init PROVE UpdateInv
  OBVIOUS
<1>1. ~Running /\ ~Worked /\ ~Returned
  BY DEF Init, Running, Worked, Returned
<1>2. SearchInv /\ CallInv /\ BestSoFar /\ StopsInTime /\ NoJump /\ DiagnosticsTell
  BY <1>1 DEF SearchInv, CallInv, BestSoFar, StopsInTime, NoJump, DiagnosticsTell, Init
<1>3. TypeOK
  BY <1>1, BlankType DEF Init, TypeOK
<1>4. settings.max \in Nat
  BY UpdateAssumption DEF Init, Settings
<1>5. CandidatesCounted
  BY <1>4, BlankType DEF Init, CandidatesCounted, Accounted
<1>6. PlansInv
  BY UpdateAssumption DEF Init, PlansInv
<1> QED BY <1>2, <1>3, <1>5, <1>6 DEF UpdateInv

-----------------------------------------------------------------------------
(* Every step keeps the invariant.                                         *)

\* A step that ends without a call leaves an account of what it did.
LEMMA AccountLeft ==
  ASSUME NEW d \in Diagnostics, UnderWay(d), Accounted(d), d.candidates <= settings'.max,
         diagnostics' = Marked(d, "error"), result' = "failed"
  PROVE  diagnostics' \in Diagnostics /\ CandidatesCounted' /\ DiagnosticsTell'
<1>1. "error" \in Statuses
  BY DEF Statuses
<1>2. /\ diagnostics' \in Diagnostics /\ diagnostics'.status = "error"
      /\ diagnostics'.candidates = d.candidates /\ Accounted(diagnostics')
      /\ diagnostics'.optimized + diagnostics'.fallback + diagnostics'.error = 1
  BY <1>1, MarkedType
<1> QED BY <1>2 DEF CandidatesCounted, DiagnosticsTell, Accounted

\* The setters give up what was counted, and mostly what the solver remembers.
LEMMA ChooseKeeps ==
  ASSUME UpdateInv, NEW s, Choose(s),
         \/ otg' = NoPlan /\ follower' = Elsewhere
         \/ UNCHANGED <<otg, follower>>
  PROVE  UpdateInv'
<1>1. SearchInv' /\ CallInv' /\ BestSoFar' /\ StopsInTime' /\ NoJump' /\ ~Running'
  BY WithoutCall DEF Choose
<1>2. settings' \in HandleSettings /\ settings'.max \in Nat
  BY UpdateAssumption DEF Choose, Settings
<1>3. TypeOK'
  BY <1>1, <1>2, BlankType DEF Choose, UpdateInv, TypeOK
<1>4. CandidatesCounted' /\ DiagnosticsTell'
  BY <1>2, BlankType DEF Choose, CandidatesCounted, DiagnosticsTell, Returned, Accounted
<1>5. PlansInv'
  BY UpdateAssumption DEF Choose, UpdateInv, PlansInv, Reached
<1> QED BY <1>1, <1>3, <1>4, <1>5 DEF UpdateInv

\* A setter touches neither the search nor the plans.
LEMMA SettersKeep == UpdateInv /\ Setters => UpdateInv'
<1> SUFFICES ASSUME UpdateInv, Setters PROVE UpdateInv'
  OBVIOUS
<1>1. ASSUME NEW s, ChooseAndReset(s)
      PROVE  UpdateInv'
  BY <1>1, ChooseKeeps DEF ChooseAndReset
<1>2. CASE SetMode
  BY <1>1, <1>2 DEF SetMode
<1>3. CASE SetOptimizedStrategy
  BY <1>1, <1>3 DEF SetOptimizedStrategy
<1>4. CASE SetReactiveness
  BY <1>1, <1>4 DEF SetReactiveness
<1>5. CASE SetLookAheadCycles
  BY <1>1, <1>5 DEF SetLookAheadCycles
<1>6. CASE SetMaxOptimizedCandidates
  <2>1. PICK s \in HandleSettings : Choose([settings EXCEPT !.max = s.max])
                                    /\ UNCHANGED <<otg, follower>>
    BY <1>6 DEF SetMaxOptimizedCandidates
  <2> QED BY <2>1, ChooseKeeps
<1> QED BY <1>2, <1>3, <1>4, <1>5, <1>6 DEF Setters

\* A sequence on the handle leaves the memory to no output.
LEMMA SequenceKeeps == UpdateInv /\ Sequence => UpdateInv'
<1> SUFFICES ASSUME UpdateInv, Sequence PROVE UpdateInv'
  OBVIOUS
<1>1. SearchInv' /\ CallInv' /\ BestSoFar' /\ StopsInTime' /\ NoJump' /\ ~Running'
  BY WithoutCall DEF Sequence
<1>2. PICK s \in Statuses : diagnostics' = Marked(Blank, s)
  BY DEF Sequence
<1>3. diagnostics' \in Diagnostics /\ Accounted(diagnostics') /\ diagnostics'.candidates = 0
  BY <1>2, BlankType, MarkedType
<1>4. settings' \in HandleSettings /\ settings'.max \in Nat
  BY UpdateAssumption DEF Sequence, UpdateInv, TypeOK, Settings
<1>5. TypeOK'
  BY <1>1, <1>3, <1>4, UpdateAssumption DEF Sequence, UpdateInv, TypeOK
<1>6. CandidatesCounted' /\ DiagnosticsTell'
  BY <1>3, <1>4 DEF Sequence, CandidatesCounted, DiagnosticsTell, Returned, Accounted
<1>7. PlansInv'
  BY UpdateAssumption DEF Sequence, UpdateInv, PlansInv, Reached
<1> QED BY <1>1, <1>5, <1>6, <1>7 DEF UpdateInv

\* An update that is refused leaves everything but the diagnostics.
LEMMA RefusalKeeps ==
  ASSUME UpdateInv, NEW d \in Diagnostics, UnderWay(d), Accounted(d),
         d.candidates <= settings.max, Fail(d), call' = NoCall,
         UNCHANGED <<settings, otg, outputs, follower>>
  PROVE  UpdateInv'
<1>1. SearchInv' /\ CallInv' /\ BestSoFar' /\ StopsInTime' /\ NoJump' /\ ~Running'
  BY WithoutCall DEF Fail
<1>2. diagnostics' \in Diagnostics /\ CandidatesCounted' /\ DiagnosticsTell'
  BY AccountLeft DEF Fail
<1>3. TypeOK'
  BY <1>1, <1>2 DEF UpdateInv, TypeOK, Fail
<1>4. PlansInv'
  BY DEF UpdateInv, PlansInv, Reached
<1> QED BY <1>1, <1>2, <1>3, <1>4 DEF UpdateInv

\* The settings let at least one candidate be tried.
LEMMA SettingsType ==
  ASSUME TypeOK
  PROVE  settings \in Settings /\ settings.max \in Nat \ {0} /\ 0 <= settings.max
         /\ 1 <= settings.max
BY UpdateAssumption DEF TypeOK, Settings

\* A refused update leaves everything but the diagnostics.
LEMMA RefuseKeeps == UpdateInv /\ Refuse => UpdateInv'
BY BlankType, SettingsType, RefusalKeeps DEF UpdateInv, Refuse

\* So does one whose search cannot begin.
LEMMA BeginFailsKeeps ==
  ASSUME UpdateInv, NEW q \in Inputs, BeginFails(q)
  PROVE  UpdateInv'
BY BlankType, SettingsType, RefusalKeeps DEF UpdateInv, BeginFails

\* A call that has begun runs with the search it was given.
LEMMA CallBegun ==
  ASSUME NEW e \in Calls, NEW r \in Searches
  PROVE  LET n == [e EXCEPT !.running = TRUE, !.search = r]
         IN  /\ n \in Calls /\ n.running /\ n.search = r /\ n.cycle = e.cycle
             /\ n.interrupted = e.interrupted
BY DEF Calls

\* An Optimized update begins with a fresh search that its window allows.
LEMMA BeginUpdateKeeps ==
  ASSUME UpdateInv, NEW o \in Outputs, NEW q \in Inputs, BeginUpdate(o, q)
  PROVE  UpdateInv'
<1> DEFINE e == Entered(o, q)
           c == e.cycle
<1>0. TypeOK /\ settings \in Settings
  BY SettingsType DEF UpdateInv
<1>1. /\ e \in Calls
      /\ e = [running |-> FALSE, output |-> o, budget |-> q.budget, search |-> Idle,
              cycle |-> c, interrupted |-> FALSE, own |-> e.own, least |-> 0]
      /\ c \in Cycles /\ c.place = q.place /\ c.settings = settings
      /\ c.window = Window(q.targets, 0, settings)
  BY <1>0, EnteredType
<1>2. call' = [e EXCEPT !.running = TRUE, !.search = Fresh] /\ ~Unacceptable(q)
  BY DEF BeginUpdate
<1> HIDE DEF e, c
<1>3. Fresh \in Searches /\ Sound(c, Fresh)
  BY <1>1, FreshSound DEF Sound
<1>4. /\ call' \in Calls /\ call'.running /\ call'.search = Fresh /\ call'.cycle = c
      /\ call'.interrupted = FALSE
  <2>1. e \in Calls /\ e.cycle = c /\ e.interrupted = FALSE
    BY <1>1
  <2> QED BY <1>2, <1>3, <2>1, CallBegun
<1>5. ~Unsearchable(c)
  <2>1. q.targets \in TargetSequences
    BY UpdateAssumption
  <2>2. \A i \in 1 .. Len(c.window) : i \in 1 .. Len(q.targets) /\ c.window[i] = q.targets[i]
    BY <1>0, <1>1, <2>1, FirstWindow
  <2> QED BY <1>1, <1>2, <2>2 DEF Unsearchable, Unacceptable, Unprepared
<1>6. /\ diagnostics' = Blank /\ result' = result
      /\ UNCHANGED <<settings, otg, outputs, follower>>
  BY DEF BeginUpdate
<1>7. Running' /\ ~Worked' /\ ~Returned'
  BY <1>4, CallAssumption DEF Running, Worked, Returned, Idling
<1>8. Thrifty(c, Fresh)
  <2>1. 0 <= c.settings.max
    BY <1>0, <1>1, SettingsType
  <2> QED BY <2>1 DEF Thrifty, Fresh
<1>9. SearchInv'
  BY <1>1, <1>3, <1>4, <1>5, <1>6, <1>8, BlankType DEF SearchInv, Fresh, Blank
<1>10. TypeOK'
  BY <1>0, <1>3, <1>4, <1>6, <1>7, BlankType, IdleAssumption DEF TypeOK, Sound
<1>11. CandidatesCounted' /\ DiagnosticsTell' /\ CallInv' /\ BestSoFar' /\ NoJump'
  BY <1>0, <1>6, <1>7, BlankType, SettingsType
     DEF CandidatesCounted, Accounted, DiagnosticsTell, CallInv, BestSoFar, NoJump
<1>12. StopsInTime'
  BY <1>4, <1>6, BlankType DEF StopsInTime
<1>13. PlansInv'
  BY <1>6 DEF UpdateInv, PlansInv, Reached
<1> QED BY <1>9, <1>10, <1>11, <1>12, <1>13 DEF UpdateInv

\* A plan that is followed for one cycle more is at the next state of its way.
LEMMA SteppedPlan ==
  ASSUME NEW p \in Plans, Solvable(p.from, p.aim), p.age \in 1 .. MaxAge
  PROVE  LET q == [p EXCEPT !.age = @ + 1]
         IN  /\ q \in Plans /\ q.from = p.from /\ q.aim = p.aim /\ q.age = p.age + 1
             /\ Reached(q) = Move(Reached(p), p.aim, 1)
BY PlanAssumption DEF Plans, Reached

\* A new plan.
LEMMA NewPlan ==
  ASSUME NEW place \in Places, NEW aim \in Aims, Solvable(place, aim)
  PROVE  LET q == [from |-> place, aim |-> aim, age |-> 1]
         IN  q \in Plans /\ q.from = place /\ q.aim = aim /\ q.age = 1
             /\ Reached(q) = Move(place, aim, 1) /\ Reached(q) \in Places
BY PlanAssumption DEF Plans, Reached

\* Publishing a plan keeps what is known of plans.
LEMMA SteppedKeepsPlans ==
  ASSUME UpdateInv, NEW o \in Outputs, NEW plan \in Plans, Stepped(o, plan),
         Solvable(plan.from, plan.aim), plan.age = 1 \/ plan.age \in 1 .. MaxAge
  PROVE  /\ PlansInv' /\ outputs' \in [Outputs -> Plans \cup {NoPlan}]
         /\ otg' \in Memories \cup {NoPlan} /\ follower' \in Outputs \cup {Elsewhere}
         /\ outputs'[o] = plan
<1>1. outputs \in [Outputs -> Plans \cup {NoPlan}]
  BY DEF UpdateInv, TypeOK
<1>2. /\ outputs' = [outputs EXCEPT ![o] = plan]
      /\ otg' = [at |-> Reached(plan), aim |-> plan.aim] /\ follower' = o
  BY DEF Stepped
<1>3. outputs'[o] = plan /\ \A u \in Outputs \ {o} : outputs'[u] = outputs[u]
  BY <1>1, <1>2
<1>4. Reached(plan) \in Places /\ plan.aim \in Aims
  BY PlanAssumption DEF Plans, Reached
<1>5. \A u \in Outputs : outputs'[u] # NoPlan =>
        /\ Solvable(outputs'[u].from, outputs'[u].aim)
        /\ outputs'[u].age = 1 \/ outputs'[u].age \in 1 .. MaxAge
  BY <1>3 DEF UpdateInv, PlansInv
<1>6. PlansInv'
  BY <1>2, <1>3, <1>5 DEF PlansInv, Reached
<1> QED BY <1>1, <1>2, <1>3, <1>4, <1>6 DEF Memories

\* A Fast update steps one cycle on: from the state of the input when it
\* calculates, and when it goes on, from what its own output has reached.
LEMMA FastUpdateKeeps ==
  ASSUME UpdateInv, NEW o \in Outputs, NEW q \in Inputs, FastUpdate(o, q)
  PROVE  UpdateInv'
<1> DEFINE aim  == FastAim(q.targets[1], settings)
           plan == NextPlan(o, q.place, aim)
           e    == Entered(o, q)
<1>0. TypeOK /\ settings \in Settings /\ settings.max \in Nat \ {0} /\ PlansInv
  BY SettingsType DEF UpdateInv
<1>1. /\ e \in Calls
      /\ e = [running |-> FALSE, output |-> o, budget |-> q.budget, search |-> Idle,
              cycle |-> e.cycle, interrupted |-> FALSE, own |-> e.own, least |-> 0]
      /\ e.own = (otg = NoPlan \/ follower = o)
      /\ e.cycle.place = q.place
  BY <1>0, EnteredType
<1>2. /\ settings' = settings /\ aim # NoAim
      /\ Follows(o, q.place, aim) \/ Solvable(q.place, aim)
      /\ plan.age <= MaxAge /\ Stepped(o, plan) /\ call' = e
      /\ diagnostics' = Marked(Noted(Blank, "fast", TRUE), "fast") /\ result' = "working"
  BY DEF FastUpdate
<1>3. q.place \in Places /\ aim \in Aims
  <2>1. q.place \in Places /\ q.targets \in TargetSequences
    BY UpdateAssumption
  <2>2. q.targets[1] \in Targets
    BY <1>0, <2>1, FirstWindow
  <2>3. 2 * settings.look_ahead \in 0 .. 2 * MaxLookAhead + 4
    BY <1>0, SizeAssumption DEF Settings
  <2>4. aim \in Aims \cup {NoAim}
    BY <1>0, <2>2, <2>3, AimAssumption DEF FastAim, Settings
  <2> QED BY <1>2, <2>1, <2>4
<1> HIDE DEF e, aim
<1>4. /\ plan \in Plans /\ Solvable(plan.from, plan.aim)
      /\ plan.age = 1 \/ plan.age \in 1 .. MaxAge
      /\ e.own => Reached(plan) = Move(q.place, plan.aim, 1)
  <2>1. CASE Follows(o, q.place, aim)
    <3> DEFINE p == outputs[o]
    <3>1. p \in Plans /\ otg = [at |-> q.place, aim |-> aim] /\ plan = [p EXCEPT !.age = @ + 1]
      BY <1>0, <2>1 DEF Follows, NextPlan, TypeOK
    <3>2. otg # NoPlan
      BY <1>3, <3>1, UpdateAssumption DEF Memories
    <3>3. Solvable(p.from, p.aim) /\ p.age \in Nat /\ (p.age = 1 \/ p.age \in 1 .. MaxAge)
          /\ p # NoPlan
      BY <1>0, <2>1, <3>1 DEF PlansInv, Follows, Plans
    <3>4. plan.age = p.age + 1
      BY <3>1 DEF Plans
    <3>5. p.age \in 1 .. MaxAge /\ plan.age \in 1 .. MaxAge
      BY <1>2, <3>3, <3>4, UpdateAssumption
    <3>6. /\ plan \in Plans /\ plan.from = p.from /\ plan.aim = p.aim
          /\ Reached(plan) = Move(Reached(p), p.aim, 1)
      BY <3>1, <3>3, <3>5, SteppedPlan
    <3>7. e.own => otg = [at |-> Reached(p), aim |-> p.aim]
      BY <1>0, <1>1, <3>2, <3>3 DEF PlansInv
    <3> QED BY <3>1, <3>3, <3>5, <3>6, <3>7
  <2>2. CASE ~Follows(o, q.place, aim)
    <3>1. plan = [from |-> q.place, aim |-> aim, age |-> 1] /\ Solvable(q.place, aim)
      BY <1>2, <2>2 DEF NextPlan
    <3> QED BY <1>3, <3>1, NewPlan
  <2> QED BY <2>1, <2>2
<1> HIDE DEF plan
<1>5. /\ PlansInv' /\ outputs' \in [Outputs -> Plans \cup {NoPlan}] /\ outputs'[o] = plan
      /\ otg' \in Memories \cup {NoPlan} /\ follower' \in Outputs \cup {Elsewhere}
  BY <1>2, <1>4, SteppedKeepsPlans
<1>6. /\ diagnostics' \in Diagnostics /\ Accounted(diagnostics')
      /\ diagnostics'.status = "fast" /\ diagnostics'.candidates = 1
      /\ diagnostics'.families["fast"] = 1
      /\ diagnostics'.optimized + diagnostics'.fallback + diagnostics'.error = 0
  <2> DEFINE n == Noted(Blank, "fast", TRUE)
  <2>1. "fast" \in Families /\ "fast" \in Statuses
    BY DEF Families, Phases, Statuses
  <2>2. /\ n \in Diagnostics /\ n.candidates = Blank.candidates + 1
        /\ n.families = [Blank.families EXCEPT !["fast"] = @ + 1]
        /\ Accounted(n) /\ UnderWay(n)
    BY <2>1, BlankType, NotedType
  <2> HIDE DEF n
  <2>3. n.candidates = 1 /\ n.families["fast"] = 1
    <3>1. Blank.candidates = 0 /\ Blank.families = [f \in Families |-> 0]
      BY DEF Blank
    <3> QED BY <2>1, <2>2, <3>1
  <2>4. diagnostics' = Marked(n, "fast")
    BY <1>2 DEF n
  <2> QED BY <2>1, <2>2, <2>3, <2>4, MarkedType
<1>7. call' \in Calls /\ ~call'.running /\ call' # NoCall /\ call'.search = Idle
      /\ call'.cycle.place = q.place /\ call'.output = o /\ call'.own = e.own
  BY <1>1, <1>2, CallAssumption
<1>8. ~Running'
  BY <1>7 DEF Running
<1>9. TypeOK'
  BY <1>0, <1>2, <1>5, <1>6, <1>7, <1>8 DEF TypeOK
<1>10. CandidatesCounted' /\ DiagnosticsTell'
  BY <1>0, <1>2, <1>6, SettingsType DEF CandidatesCounted, Accounted, DiagnosticsTell
<1>11. SearchInv' /\ CallInv' /\ BestSoFar' /\ StopsInTime'
  BY <1>7, <1>8 DEF SearchInv, CallInv, BestSoFar, StopsInTime
<1>12. NoJump'
  <2>1. e.own => Reached(outputs'[o]) = Move(q.place, outputs'[o].aim, 1)
    BY <1>4, <1>5
  <2> QED BY <1>7, <2>1 DEF NoJump, Reached
<1> QED BY <1>5, <1>9, <1>10, <1>11, <1>12 DEF UpdateInv

\* A Fast update that finds no way invalidates its output.
LEMMA FastUpdateFailsKeeps ==
  ASSUME UpdateInv, NEW o \in Outputs, NEW q \in Inputs, FastUpdateFails(o, q)
  PROVE  UpdateInv'
<1>0. TypeOK /\ PlansInv /\ 0 <= settings.max /\ 1 <= settings.max
  BY SettingsType DEF UpdateInv
<1>1. call' = NoCall /\ result' = "failed" /\ UNCHANGED <<settings, otg, follower>>
  BY DEF FastUpdateFails, Fail
<1>2. SearchInv' /\ CallInv' /\ BestSoFar' /\ StopsInTime' /\ NoJump' /\ ~Running'
  BY <1>1, WithoutCall
<1>3. CASE Fail(Blank) /\ UNCHANGED outputs
  BY <1>0, <1>1, <1>3, BlankType, RefusalKeeps
<1>4. CASE /\ Fail(Noted(Blank, "fast", TRUE))
           /\ outputs' = [outputs EXCEPT ![o] = NoPlan]
  <2> DEFINE n == Noted(Blank, "fast", TRUE)
  <2>1. "fast" \in Families
    BY DEF Families, Phases
  <2>2. n \in Diagnostics /\ n.candidates = 0 + 1 /\ Accounted(n) /\ UnderWay(n)
    BY <2>1, BlankType, NotedType
  <2> HIDE DEF n
  <2>3. diagnostics' = Marked(n, "error")
    BY <1>4 DEF Fail, n
  <2>4. diagnostics' \in Diagnostics /\ CandidatesCounted' /\ DiagnosticsTell'
    BY <1>0, <1>1, <2>2, <2>3, AccountLeft
  <2>5. outputs \in [Outputs -> Plans \cup {NoPlan}]
    BY <1>0 DEF TypeOK
  <2>6. outputs' \in [Outputs -> Plans \cup {NoPlan}] /\ outputs'[o] = NoPlan
        /\ \A u \in Outputs \ {o} : outputs'[u] = outputs[u]
    BY <1>4, <2>5
  <2>7. TypeOK'
    BY <1>0, <1>1, <1>2, <2>4, <2>6 DEF TypeOK
  <2>8. PlansInv'
    <3>1. \A u \in Outputs : outputs'[u] # NoPlan =>
            /\ outputs[u] # NoPlan /\ outputs'[u] = outputs[u]
      BY <2>6
    <3> QED BY <1>0, <1>1, <3>1 DEF PlansInv, Reached
  <2> QED BY <1>2, <2>4, <2>7, <2>8 DEF UpdateInv
<1> QED BY <1>3, <1>4 DEF FastUpdateFails

-----------------------------------------------------------------------------
(* A step of the search.                                                    *)

\* The aim depends on where the search is, not on what it found.
LEMMA SameAimScored ==
  ASSUME NEW c, NEW r, NEW q, q.phase = r.phase, q.index = r.index
  PROVE  Aim(c, q) = Aim(c, r) /\ (Scored(c, q) = Scored(c, r))
<1>1. Aim(c, q) = Aim(c, r)
  BY DEF Aim, Ahead, Horizon
<1> QED BY <1>1 DEF Scored

\* A candidate is counted unless the budget of candidates is spent, by what
\* became of it; its score is kept when it is the first or, outside the
\* aggressive preset, when it is lower.
LEMMA TriedAccount ==
  ASSUME NEW c \in Cycles, NEW r, Sound(c, r), ~Unsearchable(c), r.phase # "finish",
         ~Fails(c, r)
  PROVE  LET t == Tried(c, r) IN
         /\ Spent(c, r) =>
              /\ t.count = r.count /\ t.valid = r.valid /\ t.rejected = r.rejected
              /\ t.best_score = r.best_score
         /\ ~Spent(c, r) =>
              /\ t.count = r.count + 1
              /\ t.valid = IF Scored(c, r) THEN r.valid + 1 ELSE r.valid
              /\ t.rejected = IF Scored(c, r) THEN r.rejected ELSE r.rejected + 1
              /\ r.phase = "fast" => Scored(c, r) /\ t.best_score = 10000 * Raw(c, r)
              /\ ~Scored(c, r) => t.best_score = r.best_score
              /\ Scored(c, r) => Raw(c, r) \in Nat
              /\ Scored(c, r) /\ r.phase # "fast" /\ c.settings.strategy # "aggressive" =>
                   t.best_score = IF Beats(c, r) THEN Raw(c, r) * Ratio(c) ELSE r.best_score
<1>1. r \in Searches /\ r.index < Width(c, r.phase) /\ r.best_score \in Nat
  BY DEF Sound, Searches
<1>2. CASE Spent(c, r)
  <2> DEFINE q == [r EXCEPT !.exhausted = TRUE]
  <2>1. /\ q \in Searches
        /\ q.index = r.index /\ q.phase = r.phase /\ q.best = r.best
        /\ q.best_score = r.best_score /\ q.improved = r.improved
        /\ q.count = r.count /\ q.valid = r.valid /\ q.rejected = r.rejected
    BY <1>1 DEF Searches
  <2>2. Tried(c, r) = Advanced(c, q) /\ r.phase # "fast"
    BY <1>2 DEF Tried, Spent
  <2> HIDE DEF q
  <2>3. WorthIt(c, q) /\ q.index < Width(c, q.phase) /\ q.phase # "finish"
    BY <1>1, <2>1, <2>2 DEF Sound, WorthIt
  <2> QED BY <1>2, <2>1, <2>2, <2>3, AdvancedSound
<1>3. CASE ~Spent(c, r)
  <2>1. Aim(c, r) \in Aims
    BY <1>1, <1>3, AimType DEF Fails
  <2> DEFINE q == IF Scored(c, r) THEN Judged(c, r) ELSE r
             n == Counted(c, q)
  <2>2. /\ q \in Searches /\ WorthIt(c, q)
        /\ q.index = r.index /\ q.phase = r.phase /\ q.count = r.count
        /\ q.valid = r.valid /\ q.rejected = r.rejected
    <3>1. CASE Scored(c, r)
      BY <2>1, <3>1, JudgedSound
    <3>2. CASE ~Scored(c, r)
      <4>1. r.phase # "fast"
        BY <2>1, <3>2, AimAssumption DEF Fails
      <4> QED BY <1>1, <3>2, <4>1 DEF Sound
    <3> QED BY <3>1, <3>2
  <2>3. Tried(c, r) = Advanced(c, n)
    BY <1>3 DEF Tried
  <2>4. /\ r.phase = "fast" => Scored(c, r) /\ q.best_score = 10000 * Raw(c, r)
        /\ ~Scored(c, r) => q.best_score = r.best_score
        /\ Scored(c, r) => Raw(c, r) \in Nat
        /\ Scored(c, r) /\ r.phase # "fast" /\ c.settings.strategy # "aggressive" =>
             q.best_score = IF Beats(c, r) THEN Raw(c, r) * Ratio(c) ELSE r.best_score
    <3>1. r.phase = "fast" => Scored(c, r)
      BY <2>1, AimAssumption DEF Fails
    <3>2. r.phase = "fast" => Judged(c, r).best_score = 10000 * Raw(c, r)
      BY <1>1 DEF Judged, Baseline, Searches
    <3>3. Scored(c, r) => Raw(c, r) \in Nat
      BY <1>1, <2>1, ScoreType
    <3>4. r.phase # "fast" /\ c.settings.strategy # "aggressive" =>
            Judged(c, r).best_score = IF Beats(c, r) THEN Raw(c, r) * Ratio(c) ELSE r.best_score
      BY <1>1 DEF Judged, Accepted, NearTie, Searches
    <3> QED BY <3>1, <3>2, <3>3, <3>4
  <2>5. Scored(c, q) = Scored(c, r)
    BY <2>2, SameAimScored
  <2> HIDE DEF q
  <2>6. /\ n.valid = IF Scored(c, r) THEN r.valid + 1 ELSE r.valid
        /\ n.rejected = IF Scored(c, r) THEN r.rejected ELSE r.rejected + 1
    BY <2>2, <2>5 DEF Counted, Searches
  <2>7. /\ n \in Searches /\ n.index = r.index /\ n.phase = r.phase
        /\ n.best = q.best /\ n.best_score = q.best_score /\ n.improved = q.improved
        /\ n.count = r.count + 1
    BY <2>2, CountedType
  <2> HIDE DEF n
  <2>8. WorthIt(c, n) /\ n.index < Width(c, n.phase) /\ n.phase # "finish"
    BY <1>1, <2>2, <2>7 DEF WorthIt
  <2>9. /\ Advanced(c, n).best_score = n.best_score /\ Advanced(c, n).count = n.count
        /\ Advanced(c, n).valid = n.valid /\ Advanced(c, n).rejected = n.rejected
    BY <2>7, <2>8, AdvancedSound
  <2> QED BY <1>3, <2>3, <2>4, <2>6, <2>7, <2>9
<1> QED BY <1>2, <1>3

\* The diagnostics count it alike.
LEMMA TalliedType ==
  ASSUME NEW d \in Diagnostics, Accounted(d), UnderWay(d), NEW c, NEW r,
         r.phase \in Families, ~Spent(c, r) => Scored(c, r) \in BOOLEAN,
         r.phase = "fast" => Raw(c, r) \in Nat
  PROVE  LET t == Tallied(d, c, r) IN
         /\ t \in Diagnostics /\ Accounted(t) /\ UnderWay(t)
         /\ Spent(c, r) =>
              t.candidates = d.candidates /\ t.valid = d.valid /\ t.rejected = d.rejected
         /\ ~Spent(c, r) =>
              /\ t.candidates = d.candidates + 1
              /\ t.valid = IF Scored(c, r) THEN d.valid + 1 ELSE d.valid
              /\ t.rejected = IF Scored(c, r) THEN d.rejected ELSE d.rejected + 1
<1>1. CASE Spent(c, r)
  <2>1. Tallied(d, c, r) = BudgetNoted(d)
    BY <1>1 DEF Tallied
  <2> QED BY <1>1, <2>1, BudgetNotedType
<1>2. CASE ~Spent(c, r)
  <2> DEFINE n == Noted(d, r.phase, Scored(c, r))
             k == 10000 * Raw(c, r)
  <2>1. /\ n \in Diagnostics /\ Accounted(n) /\ UnderWay(n)
        /\ n.candidates = d.candidates + 1
        /\ n.valid = IF Scored(c, r) THEN d.valid + 1 ELSE d.valid
        /\ n.rejected = IF Scored(c, r) THEN d.rejected ELSE d.rejected + 1
    BY <1>2, NotedType
  <2>2. Tallied(d, c, r) = IF r.phase = "fast" THEN [n EXCEPT !.fast = k, !.best = k] ELSE n
    BY <1>2 DEF Tallied
  <2>3. r.phase = "fast" => k \in Nat
    OBVIOUS
  <2> HIDE DEF n, k
  <2>4. CASE r.phase = "fast"
    <3>1. Tallied(d, c, r) = [n EXCEPT !.fast = k, !.best = k] /\ k \in Nat
      BY <2>2, <2>3, <2>4
    <3>2. n \in Diagnostics
      BY <2>1
    <3> DEFINE e == [n EXCEPT !.fast = k, !.best = k]
    <3>3. /\ e \in Diagnostics
          /\ e.candidates = n.candidates /\ e.valid = n.valid /\ e.rejected = n.rejected
          /\ Accounted(n) => Accounted(e)
          /\ UnderWay(n) => UnderWay(e)
      BY <3>1, <3>2, ScoredType
    <3> HIDE DEF e
    <3>4. Tallied(d, c, r) = e
      BY <3>1 DEF e
    <3> QED BY <1>2, <2>1, <3>3, <3>4
  <2>5. CASE r.phase # "fast"
    BY <1>2, <2>1, <2>2, <2>5
  <2> QED BY <2>4, <2>5
<1> QED BY <1>1, <1>2

\* A call that is over is otherwise as it was.
LEMMA CallOver ==
  ASSUME NEW e \in Calls
  PROVE  LET f == [e EXCEPT !.running = FALSE]
         IN  /\ f \in Calls /\ ~f.running /\ f.search = e.search /\ f.cycle = e.cycle
             /\ f.interrupted = e.interrupted /\ f.least = e.least /\ f.budget = e.budget
             /\ f.output = e.output
BY DEF Calls

\* What is known inside an Optimized update.
LEMMA RunningType ==
  ASSUME UpdateInv, Running
  PROVE  /\ call \in Calls /\ call.cycle \in Cycles /\ call.search \in Searches
         /\ call.output \in Outputs /\ call.least \in Nat /\ call.interrupted \in BOOLEAN
         /\ call.budget \in Budgets /\ call.running = TRUE
         /\ diagnostics \in Diagnostics /\ Accounted(diagnostics) /\ UnderWay(diagnostics)
         /\ ~Unsearchable(call.cycle) /\ Sound(call.cycle, call.search)
         /\ Thrifty(call.cycle, call.search) /\ call.cycle.settings = settings
         /\ settings.max \in Nat /\ 1 <= settings.max
<1>1. TypeOK /\ SearchInv /\ CandidatesCounted
  BY DEF UpdateInv
<1>2. call \in Calls /\ call.running
  BY <1>1 DEF TypeOK, Running
<1>3. Sound(call.cycle, call.search) /\ Thrifty(call.cycle, call.search)
      /\ ~Unsearchable(call.cycle) /\ call.cycle.settings = settings /\ UnderWay(diagnostics)
  BY <1>1 DEF SearchInv
<1>4. diagnostics \in Diagnostics /\ Accounted(diagnostics)
  BY <1>1 DEF TypeOK, CandidatesCounted, Accounted
<1>5. call.search \in Searches
  BY <1>3 DEF Sound
<1>6. call.cycle \in Cycles /\ call.output \in Outputs /\ call.least \in Nat
      /\ call.interrupted \in BOOLEAN /\ call.budget \in Budgets /\ call.running = TRUE
  BY <1>2 DEF Calls
<1> QED BY <1>1, <1>2, <1>3, <1>4, <1>5, <1>6, SettingsType

\* The lowest score compared so far is that of the best candidate, but for the
\* near ties of the aggressive preset.
LEMMA LowestKept ==
  ASSUME UpdateInv, Searching, ~Fails(call.cycle, call.search)
  PROVE  LET c == call.cycle r == call.search IN
         /\ Lowest(c, r) \in Nat
         /\ c.settings.strategy # "aggressive" => Tried(c, r).best_score = Lowest(c, r)
<1> DEFINE c == call.cycle
           r == call.search
           t == Tried(c, r)
<1>1. /\ c \in Cycles /\ r \in Searches /\ call.least \in Nat
      /\ ~Unsearchable(c) /\ Sound(c, r)
  BY RunningType DEF Searching
<1>2. r.phase # "finish" /\ ~Fails(c, r) /\ r.best_score \in Nat
      /\ (r.phase # "fast" /\ c.settings.strategy # "aggressive" => r.best_score = call.least)
  BY <1>1 DEF Searching, UpdateInv, SearchInv, Searches
<1> DEFINE x == Raw(c, r) * Ratio(c)
<1>3. /\ Spent(c, r) => t.best_score = r.best_score
      /\ ~Spent(c, r) =>
           /\ r.phase = "fast" => Scored(c, r) /\ t.best_score = 10000 * Raw(c, r)
           /\ ~Scored(c, r) => t.best_score = r.best_score
           /\ Scored(c, r) => Raw(c, r) \in Nat
           /\ Scored(c, r) /\ r.phase # "fast" /\ c.settings.strategy # "aggressive" =>
                t.best_score = IF x < r.best_score THEN x ELSE r.best_score
  <2> HIDE DEF c, r
  <2> QED BY <1>1, <1>2, TriedAccount DEF Beats
<1>4. Scored(c, r) /\ ~Spent(c, r) => x \in Nat
  BY <1>3 DEF Ratio
<1>5. r.phase = "fast" => ~Spent(c, r)
  BY DEF Spent
<1>6. Lowest(c, r) = IF r.phase = "fast" THEN 10000 * Raw(c, r)
                     ELSE IF Spent(c, r) \/ ~Scored(c, r) THEN call.least
                     ELSE IF call.least < x THEN call.least ELSE x
  BY DEF Lowest, AtMost
<1> HIDE DEF c, r, t, x
<1>7. CASE r.phase = "fast"
  <2>1. Raw(c, r) \in Nat
    BY <1>3, <1>5, <1>7
  <2> QED BY <1>3, <1>5, <1>6, <1>7, <2>1 DEF c, r, t
<1>8. CASE r.phase # "fast" /\ (Spent(c, r) \/ ~Scored(c, r))
  BY <1>1, <1>2, <1>3, <1>6, <1>8 DEF c, r, t
<1>9. CASE r.phase # "fast" /\ ~Spent(c, r) /\ Scored(c, r)
  <2>1. x \in Nat /\ call.least \in Nat /\ Lowest(c, r) = IF call.least < x THEN call.least ELSE x
    BY <1>1, <1>4, <1>6, <1>9
  <2>2. c.settings.strategy # "aggressive" =>
          t.best_score = IF x < call.least THEN x ELSE call.least
    BY <1>2, <1>3, <1>9
  <2>3. c.settings.strategy # "aggressive" => t.best_score = Lowest(c, r)
    BY <2>1, <2>2
  <2>4. Lowest(c, r) \in Nat
    BY <2>1
  <2> QED BY <2>3, <2>4 DEF c, r, t
<1> QED BY <1>7, <1>8, <1>9

\* A candidate is tried, and counted in the search and in the diagnostics.
LEMMA TryKeeps == UpdateInv /\ TryCandidate => UpdateInv'
<1> SUFFICES ASSUME UpdateInv, TryCandidate PROVE UpdateInv'
  OBVIOUS
<1> DEFINE c == call.cycle
           r == call.search
           d == Tallied(diagnostics, c, r)
           t == Tried(c, r)
<1>1. Searching /\ Running /\ ~Fails(c, r)
      /\ UNCHANGED <<settings, otg, outputs, result, follower>>
  BY DEF TryCandidate, Searching
<1>2. PICK stop \in Checks(call.budget) :
        /\ call' = [call EXCEPT !.search = t, !.interrupted = stop, !.least = Lowest(c, r)]
        /\ diagnostics' = IF stop THEN BudgetNoted(d) ELSE d
  BY DEF TryCandidate
<1>3. /\ call \in Calls /\ c \in Cycles /\ r \in Searches /\ call.budget \in Budgets
      /\ call.running = TRUE
      /\ diagnostics \in Diagnostics /\ Accounted(diagnostics) /\ UnderWay(diagnostics)
      /\ ~Unsearchable(c) /\ Sound(c, r) /\ Thrifty(c, r)
      /\ c.settings = settings /\ settings.max \in Nat /\ 1 <= settings.max
  BY <1>1, RunningType
<1>4. stop \in BOOLEAN /\ (call.budget = "none" => ~stop) /\ (call.budget = "zero" => stop)
  BY <1>2, <1>3 DEF Checks, Budgets
<1>5. /\ r.phase # "finish" /\ ~call.interrupted
      /\ r.phase = "fast" => r.count = 0
      /\ call.budget = "zero" => r.phase = "fast"
      /\ diagnostics.candidates = r.count /\ diagnostics.valid = r.valid
      /\ diagnostics.rejected = r.rejected
  BY <1>1 DEF Searching, UpdateInv, SearchInv
<1>6. /\ Sound(c, t) /\ t.phase # "fast" /\ Thrifty(c, t) /\ t \in Searches
      /\ t.index < Width(c, t.phase)
  <2> HIDE DEF c, r
  <2>1. Sound(c, t) /\ t.phase # "fast" /\ Thrifty(c, t)
    BY <1>1, <1>3, <1>5, TriedSound
  <2> QED BY <2>1 DEF Sound
<1>7. Lowest(c, r) \in Nat
      /\ (c.settings.strategy # "aggressive" => t.best_score = Lowest(c, r))
  BY <1>1, LowestKept
<1>8. /\ Spent(c, r) => t.count = r.count /\ t.valid = r.valid /\ t.rejected = r.rejected
      /\ ~Spent(c, r) =>
           /\ t.count = r.count + 1
           /\ t.valid = IF Scored(c, r) THEN r.valid + 1 ELSE r.valid
           /\ t.rejected = IF Scored(c, r) THEN r.rejected ELSE r.rejected + 1
      /\ r.phase = "fast" => ~Spent(c, r) /\ Raw(c, r) \in Nat
  <2> HIDE DEF c, r
  <2>1. r.phase = "fast" => ~Spent(c, r)
    BY DEF Spent
  <2> QED BY <1>1, <1>3, <1>5, <2>1, TriedAccount
<1>9. /\ d \in Diagnostics /\ Accounted(d) /\ UnderWay(d)
      /\ d.candidates = t.count /\ d.valid = t.valid /\ d.rejected = t.rejected
  <2>1. r.phase \in Families
    BY <1>3, <1>5 DEF Searches, Families
  <2>2. ~Spent(c, r) => Scored(c, r) \in BOOLEAN
    <3> SUFFICES ASSUME ~Spent(c, r) PROVE Scored(c, r) \in BOOLEAN
      OBVIOUS
    <3>1. Aim(c, r) \in Aims
      <4> HIDE DEF c, r
      <4>1. r.index < Width(c, r.phase)
        BY <1>3 DEF Sound
      <4> QED BY <1>1, <1>3, <4>1, AimType DEF Fails
    <3>2. c.place \in Places
      BY <1>3 DEF Cycles
    <3> QED BY <3>1, <3>2, ScoreAssumption DEF Scored
  <2> HIDE DEF c, r
  <2>3. /\ d \in Diagnostics /\ Accounted(d) /\ UnderWay(d)
        /\ Spent(c, r) => d.candidates = diagnostics.candidates
                          /\ d.valid = diagnostics.valid /\ d.rejected = diagnostics.rejected
        /\ ~Spent(c, r) =>
             /\ d.candidates = diagnostics.candidates + 1
             /\ d.valid = IF Scored(c, r) THEN diagnostics.valid + 1 ELSE diagnostics.valid
             /\ d.rejected = IF Scored(c, r) THEN diagnostics.rejected
                                            ELSE diagnostics.rejected + 1
    BY <1>3, <1>8, <2>1, <2>2, TalliedType
  <2> HIDE DEF d, t
  <2> QED BY <1>5, <1>8, <2>3
<1> HIDE DEF d
<1>10. /\ diagnostics' \in Diagnostics /\ Accounted(diagnostics') /\ UnderWay(diagnostics')
       /\ diagnostics'.candidates = t.count /\ diagnostics'.valid = t.valid
       /\ diagnostics'.rejected = t.rejected
  BY <1>2, <1>9, BudgetNotedType
<1>11. /\ call' \in Calls /\ call'.running = TRUE /\ call'.search = t /\ call'.cycle = c
       /\ call'.interrupted = stop /\ call'.least = Lowest(c, r) /\ call'.budget = call.budget
  <2> DEFINE n == Lowest(c, r)
  <2>1. n \in Nat /\ t \in Searches /\ stop \in BOOLEAN /\ call \in Calls
    BY <1>3, <1>4, <1>6, <1>7
  <2> DEFINE k == [call EXCEPT !.search = t, !.interrupted = stop, !.least = n]
  <2>2. call' = k
    BY <1>2
  <2> HIDE DEF t, n
  <2>3. /\ k \in Calls /\ k.running = call.running /\ k.search = t
        /\ k.cycle = call.cycle /\ k.interrupted = stop /\ k.least = n
        /\ k.budget = call.budget
    BY <2>1 DEF Calls
  <2> HIDE DEF k
  <2> QED BY <1>3, <2>2, <2>3 DEF n
<1>12. Running' /\ ~Worked' /\ ~Returned'
  BY <1>11, CallAssumption DEF Running, Worked, Returned, Idling
<1> HIDE DEF t, c, r
<1>13. t.count <= settings.max
  BY <1>3, <1>6 DEF Thrifty
<1>14. TypeOK'
  BY <1>1, <1>6, <1>10, <1>11, <1>12, IdleAssumption DEF UpdateInv, TypeOK
<1>15. CandidatesCounted' /\ DiagnosticsTell' /\ CallInv' /\ BestSoFar' /\ NoJump'
  BY <1>1, <1>10, <1>12, <1>13
     DEF CandidatesCounted, Accounted, DiagnosticsTell, CallInv, BestSoFar, NoJump
<1>16. SearchInv'
  BY <1>1, <1>3, <1>4, <1>6, <1>7, <1>10, <1>11 DEF SearchInv
<1>17. StopsInTime'
  <2>1. call.budget = "zero" => t.count <= 1
    <3> SUFFICES ASSUME call.budget = "zero" PROVE t.count <= 1
      OBVIOUS
    <3>1. r.count = 0 /\ ~Spent(c, r)
      BY <1>5, <1>8 DEF r
    <3>2. t.count = 0 + 1
      BY <1>8, <3>1
    <3> QED BY <3>2
  <2> QED BY <1>4, <1>10, <1>11, <2>1 DEF StopsInTime
<1>18. PlansInv'
  BY <1>1 DEF UpdateInv, PlansInv, Reached
<1> QED BY <1>14, <1>15, <1>16, <1>17, <1>18 DEF UpdateInv

\* A candidate makes the update fail: it is counted when it was calculated.
LEMMA CandidateFailsKeeps == UpdateInv /\ CandidateFails => UpdateInv'
<1> SUFFICES ASSUME UpdateInv, CandidateFails PROVE UpdateInv'
  OBVIOUS
<1> DEFINE c == call.cycle
           r == call.search
<1>1. Searching /\ Running /\ Fails(c, r) /\ call' = NoCall
      /\ Fail(IF Aim(c, r) = NoAim THEN diagnostics ELSE Noted(diagnostics, r.phase, FALSE))
      /\ UNCHANGED <<settings, otg, outputs, follower>>
  BY DEF CandidateFails, Searching
<1>2. /\ r \in Searches /\ Thrifty(c, r) /\ c.settings = settings
      /\ diagnostics \in Diagnostics /\ Accounted(diagnostics) /\ UnderWay(diagnostics)
      /\ settings.max \in Nat /\ 1 <= settings.max
  BY <1>1, RunningType
<1>3. /\ r.phase = "fast" => r.count = 0
      /\ diagnostics.candidates = r.count
  BY <1>1 DEF Searching, UpdateInv, SearchInv
<1>4. CASE Aim(c, r) = NoAim
  <2>1. diagnostics.candidates <= settings.max
    BY <1>2, <1>3 DEF Thrifty
  <2>2. Fail(diagnostics)
    BY <1>1, <1>4
  <2> QED BY <1>1, <1>2, <2>1, <2>2, RefusalKeeps
<1>5. CASE Aim(c, r) # NoAim
  <2>1. r.phase = "fast" /\ r.phase \in Families
    BY <1>1, <1>5 DEF Fails, Families, Phases
  <2> DEFINE n == Noted(diagnostics, r.phase, FALSE)
  <2>2. /\ n \in Diagnostics /\ Accounted(n) /\ UnderWay(n)
        /\ n.candidates = diagnostics.candidates + 1
    BY <1>2, <2>1, NotedType
  <2>3. Fail(n)
    BY <1>1, <1>5
  <2> HIDE DEF n
  <2>4. diagnostics.candidates = 0
    BY <1>3, <2>1
  <2>5. n.candidates <= settings.max
    BY <1>2, <2>2, <2>4
  <2> QED BY <1>1, <2>2, <2>3, <2>5, RefusalKeeps
<1> QED BY <1>4, <1>5

\* The best candidate is published: a plan that was scored, and that the
\* solver is reset for.
LEMMA PublishKeeps == UpdateInv /\ Publish => UpdateInv'
<1> SUFFICES ASSUME UpdateInv, Publish PROVE UpdateInv'
  OBVIOUS
<1> DEFINE c == call.cycle
           r == call.search
           o == call.output
           d == [diagnostics EXCEPT !.best = r.best_score]
           status == IF r.improved THEN "optimized" ELSE "fast_fallback"
<1>1. /\ Running /\ (call.interrupted \/ r.phase = "finish")
      /\ Stepped(o, BestPlan)
      /\ diagnostics' = Marked(d, status)
      /\ call' = [call EXCEPT !.running = FALSE]
      /\ result' = "working" /\ settings' = settings
  BY DEF Publish, Stepped
<1>2. /\ call \in Calls /\ c \in Cycles /\ r \in Searches /\ o \in Outputs
      /\ call.least \in Nat
      /\ diagnostics \in Diagnostics /\ Accounted(diagnostics) /\ UnderWay(diagnostics)
      /\ Sound(c, r) /\ Thrifty(c, r) /\ c.settings = settings
      /\ settings.max \in Nat
  BY <1>1, RunningType
<1>3. /\ r.phase # "fast"
      /\ c.settings.strategy # "aggressive" => r.best_score = call.least
      /\ diagnostics.candidates = r.count
  BY <1>1 DEF UpdateInv, SearchInv
<1>4. /\ WorthIt(c, r) /\ c.place \in Places /\ r.best_score \in Nat
  BY <1>2, <1>3 DEF Sound, Cycles, Searches
<1>5. /\ BestPlan \in Plans /\ BestPlan.from = c.place /\ BestPlan.aim = r.best
      /\ BestPlan.age = 1 /\ Solvable(BestPlan.from, BestPlan.aim)
      /\ Reached(BestPlan) = Move(c.place, r.best, 1)
  BY <1>4, NewPlan DEF WorthIt, BestPlan
<1>6. /\ PlansInv' /\ outputs' \in [Outputs -> Plans \cup {NoPlan}]
      /\ otg' \in Memories \cup {NoPlan} /\ follower' \in Outputs \cup {Elsewhere}
      /\ outputs'[o] = BestPlan
  BY <1>1, <1>2, <1>5, SteppedKeepsPlans
<1>7. /\ d \in Diagnostics /\ Accounted(d) /\ UnderWay(d)
      /\ d.candidates = diagnostics.candidates /\ d.best = r.best_score
  BY <1>2, <1>4, ScoredType
<1>8. /\ call' \in Calls /\ ~call'.running /\ call'.search = r /\ call'.cycle = c
      /\ call'.interrupted = call.interrupted /\ call'.least = call.least
      /\ call'.budget = call.budget /\ call'.output = o
  BY <1>1, <1>2, CallOver
<1>9. call' # NoCall /\ ~Running'
  BY <1>8, CallAssumption DEF Running
<1> HIDE DEF c, r, o, d
<1>10. status \in {"optimized", "fast_fallback"} /\ status \in Statuses
  BY DEF Statuses
<1> HIDE DEF status
<1>11. /\ diagnostics' \in Diagnostics /\ Accounted(diagnostics')
       /\ diagnostics'.candidates = r.count /\ diagnostics'.best = r.best_score
       /\ diagnostics'.status = status
       /\ diagnostics'.optimized + diagnostics'.fallback + diagnostics'.error = 1
  BY <1>1, <1>3, <1>7, <1>10, MarkedType
<1>12. TypeOK'
  BY <1>1, <1>6, <1>8, <1>9, <1>11 DEF UpdateInv, TypeOK
<1>13. CandidatesCounted'
  BY <1>1, <1>2, <1>11 DEF CandidatesCounted, Accounted, Thrifty
<1>14. DiagnosticsTell'
  BY <1>1, <1>10, <1>11 DEF DiagnosticsTell
<1>15. SearchInv' /\ CallInv'
  BY <1>9 DEF SearchInv, CallInv
<1>16. BestSoFar'
  <2>1. r.best_score = Score(c.place, r.best, c.window, c.settings.strategy)
                       * (IF r.improved THEN Ratio(c) ELSE 10000)
    BY <1>4 DEF WorthIt
  <2> QED BY <1>3, <1>5, <1>6, <1>8, <1>11, <2>1 DEF BestSoFar
<1>17. StopsInTime'
  <2>1. /\ call.budget = "zero" => diagnostics.candidates <= 1
        /\ call.budget = "none" => ~call.interrupted
    <3>1. call # NoCall /\ call.search # Idle
      BY <1>1, IdleAssumption DEF Running, UpdateInv, TypeOK
    <3> QED BY <3>1 DEF UpdateInv, StopsInTime
  <2> QED BY <1>3, <1>8, <1>11, <2>1 DEF StopsInTime
<1>18. NoJump'
  BY <1>5, <1>6, <1>8 DEF NoJump, Reached
<1> QED BY <1>6, <1>12, <1>13, <1>14, <1>15, <1>16, <1>17, <1>18 DEF UpdateInv

\* A step of somebody else's changes nothing.
LEMMA StutterKeeps == UpdateInv /\ UNCHANGED vars => UpdateInv'
<1> SUFFICES ASSUME UpdateInv, UNCHANGED vars PROVE UpdateInv'
  OBVIOUS
<1>1. /\ settings' = settings /\ otg' = otg /\ diagnostics' = diagnostics
      /\ outputs' = outputs /\ call' = call /\ result' = result /\ follower' = follower
  BY DEF vars
<1>2. Running' = Running /\ Worked' = Worked /\ Returned' = Returned
  BY <1>1 DEF Running, Worked, Returned, Idling
<1>3. TypeOK' /\ CandidatesCounted' /\ DiagnosticsTell'
  BY <1>1, <1>2 DEF UpdateInv, TypeOK, CandidatesCounted, DiagnosticsTell
<1>4. SearchInv' /\ PlansInv' /\ CallInv'
  BY <1>1, <1>2 DEF UpdateInv, SearchInv, PlansInv, CallInv, Reached
<1>5. BestSoFar' /\ StopsInTime' /\ NoJump'
  BY <1>1, <1>2 DEF UpdateInv, BestSoFar, StopsInTime, NoJump, Reached
<1> QED BY <1>3, <1>4, <1>5 DEF UpdateInv

-----------------------------------------------------------------------------
(* The theorems.                                                            *)

\* Every step keeps the invariant.
LEMMA StepInv == UpdateInv /\ [Next]_vars => UpdateInv'
<1> SUFFICES ASSUME UpdateInv, [Next]_vars PROVE UpdateInv'
  OBVIOUS
<1>1. ASSUME NEW o \in Outputs, NEW q \in Inputs, Update(o, q)
      PROVE  UpdateInv'
  BY <1>1, FastUpdateKeeps, FastUpdateFailsKeeps, BeginUpdateKeeps, BeginFailsKeeps DEF Update
<1>2. CASE Inside
  BY <1>2, TryKeeps, CandidateFailsKeeps, PublishKeeps DEF Inside
<1> QED BY <1>1, <1>2, SettersKeep, SequenceKeeps, RefuseKeeps, StutterKeeps DEF Next

\* Whatever updates, setters and sequences are called on a tracking handle, and
\* wherever its budget stops a search: the diagnostics, the search under way,
\* the plans in the outputs and the memory of the solver agree (tracking_update.c,
\* 628 to 798).
THEOREM UpdateInvariant == Spec => []UpdateInv
<1>1. Init => UpdateInv
  BY InitInv
<1>2. UpdateInv /\ [Next]_vars => UpdateInv'
  BY StepInv
<1> QED BY <1>1, <1>2, PTL DEF Spec

\* The diagnostics account for every candidate of the last update once, by family
\* and by fate, within the handle's limit, and tell the one step that it was
\* (tracking_note_candidate_family, tracking_mark_step_status).
THEOREM ReportedHolds == Spec => []Reported
<1>1. UpdateInv => Reported
  BY DEF UpdateInv, Reported
<1> QED BY <1>1, UpdateInvariant, PTL

\* An Optimized update publishes the best of the candidates it tried, worth the
\* score it reports, wherever the clock stopped it.
THEOREM BestSoFarHolds == Spec => []BestSoFar
<1>1. UpdateInv => BestSoFar
  BY DEF UpdateInv
<1> QED BY <1>1, UpdateInvariant, PTL

\* A budget of zero leaves the Fast candidate only, and without a budget a search
\* is never interrupted.
THEOREM StopsInTimeHolds == Spec => []StopsInTime
<1>1. UpdateInv => StopsInTime
  BY DEF UpdateInv
<1> QED BY <1>1, UpdateInvariant, PTL

\* While the handle's solver followed no other trajectory, an update that works
\* takes the machine on from the state of its input by one cycle, whether it
\* calculated or went on with what the output holds.
THEOREM NoJumpHolds == Spec => []NoJump
<1>1. UpdateInv => NoJump
  BY DEF UpdateInv
<1> QED BY <1>1, UpdateInvariant, PTL
=============================================================================
