---------------------------- MODULE TrackingUpdate ----------------------------
(***************************************************************************)
(* The online updates of a tracking handle: ruckig_tracking_update and     *)
(* ruckig_tracking_update_with_lookahead (tracking_update.c, 1 to 132 and  *)
(* 628 to 798), the handle's own diagnostics and setters (tracking.c).     *)
(*                                                                         *)
(* A Fast update calculates, or goes on with what the output holds.  An    *)
(* Optimized update tries candidates until none is left or its time budget *)
(* is spent, which is looked at after a candidate, and publishes the best. *)
(*                                                                         *)
(* The handle's solver remembers one input.  Whether an update may go on   *)
(* with a trajectory is decided by that memory, while the trajectory is in *)
(* an output, and there may be several outputs and sequences calculated on *)
(* the handle in between.                                                  *)
(***************************************************************************)
EXTENDS TrackingCandidates

CONSTANTS
  HandleSettings,   \* the settings a caller gives to the handle
  Outputs,          \* the caller's
  Inputs,           \* what the caller asks of an update
  WaypointPlaces,   \* inputs with intermediate positions: no room for them
  OtherMemories,    \* what sequences leave in the solver
  MaxAge,           \* bounds how long one trajectory is followed
  NoPlan,           \* an invalid trajectory, an uninitialised solver
  Elsewhere,        \* not an output of an update
  NoCall

VARIABLES
  settings,
  otg,              \* the input the solver remembers: place and aim
  diagnostics,
  outputs,          \* the trajectory in each, and how far it was followed
  call,             \* the call under way, or the last one that worked
  result,
  (* history *)
  follower          \* where the trajectory of the remembered input is

vars == <<settings, otg, diagnostics, outputs, call, result, follower>>

Budgets  == {"none", "zero", "positive"}
Memories == [at : Places, aim : Aims]
Plans    == [from : Places, aim : Aims, age : Nat]
Statuses == {"none", "fast", "optimized", "fast_fallback", "error"}
Families == Phases \ {"finish"}

ASSUME UpdateAssumption ==
  /\ HandleSettings \subseteq Settings
  /\ Inputs \subseteq [place : Places, budget : Budgets, targets : TargetSequences]
  /\ WaypointPlaces \subseteq Places
  /\ OtherMemories \subseteq Memories
  /\ MaxAge \in Nat
  /\ NoPlan \notin Plans /\ NoPlan \notin Memories
  /\ Elsewhere \notin Outputs

\* A motion goes on as it would if it were planned again on its way.
ASSUME PlanAssumption ==
  \A p \in Places, a \in Aims : Solvable(p, a) =>
    /\ Move(p, a, 1) \in Places
    /\ \A n \in 1 .. MaxAge :
         /\ Move(p, a, n) \in Places
         /\ Move(Move(p, a, n), a, 1) = Move(p, a, n + 1)

Diagnostics ==
  [status : Statuses, families : [Families -> Nat],
   candidates : Nat, valid : Nat, rejected : Nat,
   exhausted : BOOLEAN,                            \* budget_exhausted_count > 0
   optimized : Nat, fallback : Nat, error : Nat,   \* step counts
   fast : Nat, best : Nat]                         \* scores

\* tracking_reset_diagnostics
Blank ==
  [status |-> "none", families |-> [f \in Families |-> 0],
   candidates |-> 0, valid |-> 0, rejected |-> 0, exhausted |-> FALSE,
   optimized |-> 0, fallback |-> 0, error |-> 0, fast |-> 0, best |-> 0]

Calls ==
  [running : BOOLEAN, output : Outputs, cycle : Cycles, budget : Budgets,
   search : Searches \cup {Idle}, interrupted : BOOLEAN,
   own : BOOLEAN,      \* history: the solver followed no other output
   least : Nat]        \* history: the lowest score of a candidate tried

ASSUME CallAssumption == NoCall \notin Calls

Reached(p) == Move(p.from, p.aim, p.age)

-----------------------------------------------------------------------------
(* The diagnostics of a step.                                               *)

\* tracking_mark_step_status
Marked(d, status) ==
  [d EXCEPT !.status    = status,
            !.optimized = IF status = "optimized"     THEN @ + 1 ELSE @,
            !.fallback  = IF status = "fast_fallback" THEN @ + 1 ELSE @,
            !.error     = IF status = "error"         THEN @ + 1 ELSE @]

\* tracking_note_candidate_family, with what became of the candidate
Noted(d, family, valid) ==
  [d EXCEPT !.candidates = @ + 1,
            !.families[family] = @ + 1,
            !.valid    = IF valid THEN @ + 1 ELSE @,
            !.rejected = IF valid THEN @ ELSE @ + 1]

BudgetNoted(d) == [d EXCEPT !.exhausted = TRUE]

\* after a step of the search that did not make the update fail
Tallied(d, c, r) ==
  IF Spent(c, r) THEN BudgetNoted(d)
  ELSE LET n == Noted(d, r.phase, Scored(c, r)) IN
       IF r.phase = "fast" THEN [n EXCEPT !.fast = 10000 * Raw(c, r), !.best = 10000 * Raw(c, r)]
       ELSE n

-----------------------------------------------------------------------------
(* The solver's update, as far as it matters here.                          *)

\* Fault: a caller that sets another state is not heard
FollowsAim(o, place, aim) ==
  outputs[o] # NoPlan /\ otg # NoPlan /\ otg.aim = aim

Follows(o, place, aim) ==
  outputs[o] # NoPlan /\ otg = [at |-> place, aim |-> aim]

NextPlan(o, place, aim) ==
  IF Follows(o, place, aim) THEN [outputs[o] EXCEPT !.age = @ + 1]
  ELSE [from |-> place, aim |-> aim, age |-> 1]

Stepped(o, plan) ==
  /\ outputs' = [outputs EXCEPT ![o] = plan]
  /\ otg' = [at |-> Reached(plan), aim |-> plan.aim]
  /\ follower' = o

-----------------------------------------------------------------------------
(* Between two updates.                                                     *)

Running == call # NoCall /\ call.running
Idling  == ~Running

\* the setters, apart from ruckig_reset
Choose(s) ==
  /\ Idling /\ s \in HandleSettings
  /\ settings' = s
  /\ diagnostics' = Blank
  /\ result' = "none" /\ call' = NoCall
  /\ UNCHANGED outputs

ChooseAndReset(s) == Choose(s) /\ otg' = NoPlan /\ follower' = Elsewhere

SetMode ==
  \E m \in {"fast", "optimized"} : ChooseAndReset([settings EXCEPT !.mode = m])

SetOptimizedStrategy ==
  \E s \in Strategies : ChooseAndReset([settings EXCEPT !.strategy = s])

SetReactiveness ==
  \E r \in Reactivenesses : ChooseAndReset([settings EXCEPT !.reactiveness = r])

SetLookAheadCycles ==
  \E n \in 1 .. MaxLookAhead : ChooseAndReset([settings EXCEPT !.look_ahead = n])

SetMaxOptimizedCandidates ==
  \E s \in HandleSettings :
    Choose([settings EXCEPT !.max = s.max]) /\ UNCHANGED <<otg, follower>>

\* a sequence on the same handle: TrackingSequence has its steps
Sequence ==
  /\ Idling
  /\ otg' \in OtherMemories
  /\ follower' = Elsewhere
  /\ \E s \in Statuses \ {"none"} : diagnostics' = Marked(Blank, s)
  /\ result' = "none" /\ call' = NoCall
  /\ UNCHANGED <<settings, outputs>>

-----------------------------------------------------------------------------
(* The calls.                                                               *)

Entered(o, q) ==
  [running |-> FALSE, output |-> o, budget |-> q.budget, search |-> Idle,
   cycle |-> [place |-> q.place, settings |-> settings,
              window |-> Window(q.targets, 0, settings)],
   interrupted |-> FALSE, own |-> otg = NoPlan \/ follower = o, least |-> 0]

\* Fault: by the solver's update and again by its caller
FailTwice(d) ==
  /\ diagnostics' = Marked(Marked(d, "error"), "error")
  /\ result' = "failed"

Fail(d) ==
  /\ diagnostics' = Marked(d, "error")
  /\ result' = "failed"

\* arguments that do not fit
Refuse ==
  /\ Idling
  /\ Fail(Blank)
  /\ call' = NoCall
  /\ UNCHANGED <<settings, otg, outputs, follower>>

\* what prepare_tracking_base finds
Unprepared(q) == q.place \in VelocityPlaces \cup WaypointPlaces

FastUpdate(o, q) ==
  LET aim  == FastAim(q.targets[1], settings)
      plan == NextPlan(o, q.place, aim) IN
  /\ Idling /\ settings.mode = "fast"
  /\ ~Unprepared(q) /\ aim # NoAim
  /\ Follows(o, q.place, aim) \/ Solvable(q.place, aim)
  /\ plan.age <= MaxAge
  /\ Stepped(o, plan)
  /\ call' = Entered(o, q)
  /\ diagnostics' = Marked(Noted(Blank, "fast", TRUE), "fast")
  /\ result' = "working"
  /\ UNCHANGED settings

\* no target, or no way to it: then the trajectory of the output is invalid
FastUpdateFails(o, q) ==
  LET aim == FastAim(q.targets[1], settings) IN
  /\ Idling /\ settings.mode = "fast"
  /\ call' = NoCall
  /\ \/ /\ Unprepared(q) \/ aim = NoAim
        /\ Fail(Blank)
        /\ UNCHANGED outputs
     \/ /\ ~Unprepared(q) /\ aim # NoAim
        /\ ~Follows(o, q.place, aim) /\ ~Solvable(q.place, aim)
        /\ Fail(Noted(Blank, "fast", TRUE))
        /\ outputs' = [outputs EXCEPT ![o] = NoPlan]
  /\ UNCHANGED <<settings, otg, follower>>

\* every target of the sequence is looked at, also beyond the window
Unacceptable(q) ==
  Unprepared(q) \/ \E i \in 1 .. Len(q.targets) : q.targets[i] \in NonFinite

BeginUpdate(o, q) ==
  /\ Idling /\ settings.mode = "optimized"
  /\ ~Unacceptable(q)
  /\ call' = [Entered(o, q) EXCEPT !.running = TRUE, !.search = Fresh]
  /\ diagnostics' = Blank
  /\ UNCHANGED <<settings, otg, outputs, result, follower>>

BeginFails(q) ==
  /\ Idling /\ settings.mode = "optimized"
  /\ Unacceptable(q)
  /\ call' = NoCall
  /\ Fail(Blank)
  /\ UNCHANGED <<settings, otg, outputs, follower>>

-----------------------------------------------------------------------------
(* Inside an Optimized update.                                              *)

Searching == Running /\ ~call.interrupted /\ call.search.phase # "finish"

\* Fault: a budget of zero is a budget like any other
ChecksClock(budget) == IF budget = "none" THEN {FALSE} ELSE BOOLEAN

Checks(budget) ==
  CASE budget = "none" -> {FALSE}
    [] budget = "zero" -> {TRUE}
    [] OTHER           -> BOOLEAN

\* history: the lowest score so far, as it is compared
Lowest(c, r) ==
  IF r.phase = "fast" THEN 10000 * Raw(c, r)
  ELSE IF Spent(c, r) \/ ~Scored(c, r) THEN call.least
  ELSE AtMost(call.least, Raw(c, r) * Ratio(c))

\* The budget is looked at after the last candidate as well.
TryCandidate ==
  LET c == call.cycle r == call.search d == Tallied(diagnostics, c, r) IN
  /\ Searching /\ ~Fails(c, r)
  /\ \E stop \in Checks(call.budget) :
       /\ call' = [call EXCEPT !.search = Tried(c, r), !.interrupted = stop,
                               !.least = Lowest(c, r)]
       /\ diagnostics' = IF stop THEN BudgetNoted(d) ELSE d
  /\ UNCHANGED <<settings, otg, outputs, result, follower>>

CandidateFails ==
  LET c == call.cycle r == call.search IN
  /\ Searching /\ Fails(c, r)
  /\ call' = NoCall
  /\ Fail(IF Aim(c, r) = NoAim THEN diagnostics ELSE Noted(diagnostics, r.phase, FALSE))
  /\ UNCHANGED <<settings, otg, outputs, follower>>

\* Fault: what was tried last is published
LastTried == [from |-> call.cycle.place, aim |-> Aim(call.cycle, call.search), age |-> 1]

\* the solver is reset, so that it plans anew
BestPlan == [from |-> call.cycle.place, aim |-> call.search.best, age |-> 1]

Publish ==
  LET r == call.search o == call.output IN
  /\ Running /\ (call.interrupted \/ r.phase = "finish")
  /\ outputs' = [outputs EXCEPT ![o] = BestPlan]
  /\ otg' = [at |-> Reached(BestPlan), aim |-> BestPlan.aim]
  /\ follower' = o
  /\ diagnostics' = Marked([diagnostics EXCEPT !.best = r.best_score],
                           IF r.improved THEN "optimized" ELSE "fast_fallback")
  /\ call' = [call EXCEPT !.running = FALSE]
  /\ result' = "working"
  /\ UNCHANGED settings

-----------------------------------------------------------------------------
Init ==
  /\ settings \in HandleSettings /\ settings.mode = "fast"
  /\ otg = NoPlan /\ follower = Elsewhere
  /\ diagnostics = Blank
  /\ outputs = [o \in Outputs |-> NoPlan]
  /\ call = NoCall
  /\ result = "none"

Setters == SetMode \/ SetOptimizedStrategy \/ SetReactiveness
           \/ SetLookAheadCycles \/ SetMaxOptimizedCandidates
Update(o, q) == FastUpdate(o, q) \/ FastUpdateFails(o, q) \/ BeginUpdate(o, q) \/ BeginFails(q)
Inside == TryCandidate \/ CandidateFails \/ Publish

Next ==
  \/ Setters \/ Sequence \/ Refuse
  \/ \E o \in Outputs, q \in Inputs : Update(o, q)
  \/ Inside

Spec == Init /\ [][Next]_vars

-----------------------------------------------------------------------------
(* Properties.                                                              *)

\* The types of the handle's fields, of the outputs and of a call.
TypeOK ==
  /\ settings \in HandleSettings
  /\ otg \in Memories \cup {NoPlan}
  /\ diagnostics \in Diagnostics
  /\ outputs \in [Outputs -> Plans \cup {NoPlan}]
  /\ call \in Calls \cup {NoCall}
  /\ Running =>
       /\ call.search # Idle
       /\ call.search.index < Width(call.cycle, call.search.phase)
  /\ result \in {"none", "working", "failed"}
  /\ follower \in Outputs \cup {Elsewhere}

Returned == Idling /\ result \in {"working", "failed"}
Worked   == Idling /\ result = "working"

Total(f) == f["fast"] + f["instantaneous"] + f["horizon"] + f["lead_lag"]
            + f["terminal_blend"] + f["derivative_damped"]

\* The counters account for every candidate once, by family and by what
\* became of it, and there are no more of them than the limit of the handle,
\* also while the search is under way and however it ends.
CandidatesCounted ==
  LET d == diagnostics IN
  /\ d.candidates = Total(d.families) /\ d.candidates = d.valid + d.rejected
  /\ d.candidates <= settings.max

\* What the handle tells of its last update is about that update: one step,
\* of the kind that the result says; an error and a success exclude each
\* other, whatever was counted before.
DiagnosticsTell ==
  LET d == diagnostics IN
  Returned =>
    /\ (result = "failed") = (d.status = "error")
    /\ d.optimized + d.fallback + d.error = (IF d.status = "fast" THEN 0 ELSE 1)
    /\ d.status = "fast" => d.candidates = 1 /\ d.families["fast"] = 1
    /\ d.status # "none"

\* Together: the handle's own account of its last update is right.
Reported == TypeOK /\ CandidatesCounted /\ DiagnosticsTell

\* An Optimized update publishes the best of the candidates that were tried,
\* however early its budget stopped it: never worse than Fast, and worth the
\* score that the diagnostics report.  (The near ties of the aggressive preset
\* are an exception by design.)
BestSoFar ==
  LET c == call.cycle p == outputs[call.output] IN
  Worked /\ call.search # Idle =>
    /\ p.from = c.place /\ p.age = 1 /\ Solvable(c.place, p.aim)
    /\ diagnostics.best = Score(c.place, p.aim, c.window, c.settings.strategy)
                          * (IF call.search.improved THEN Ratio(c) ELSE 10000)
    /\ c.settings.strategy # "aggressive" => diagnostics.best = call.least

\* A budget of zero leaves one candidate, and only a budget interrupts.
StopsInTime ==
  call # NoCall /\ call.search # Idle =>
    /\ call.budget = "zero" => diagnostics.candidates <= 1
    /\ call.budget = "none" => ~call.interrupted

\* As long as the solver of the handle followed no other trajectory since it
\* last forgot its input, an update that works takes the machine one cycle
\* on from the state of its input, whether it calculated or went on.
NoJump ==
  LET p == outputs[call.output] IN
  Worked /\ call.own =>
    Reached(p) = Move(call.cycle.place, p.aim, 1)

\* An update that was begun returns.
UpdateReturns == Running ~> Idling

\* weak fairness of Inside, of which one action is enabled while running
CallsRun == []<>Idling \/ []<><<Inside>>_vars

FairSpec == Spec /\ CallsRun
=============================================================================
