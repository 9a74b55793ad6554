--------------------------- MODULE CompleteSequence ---------------------------
(***************************************************************************)
(* What ruckig_tracking_calculate_sequence computes in one piece           *)
(* (tracking_sequence.c, 318 to 437, with evaluate_optimized_tracking of   *)
(* tracking_update.c, 628 to 710): for each target the place after one     *)
(* more cycle, by the settings it was called with.  Nothing outside the    *)
(* call has a part in it.  It is the specification of a calculation that   *)
(* may be interrupted, resumed, and mixed with other uses of the handle.   *)
(*                                                                         *)
(* A Fast cycle plans anew here.  The code follows the plan it has while   *)
(* the aim stays the same, which ends in the same place where a plan is    *)
(* not changed by being made again on its way (PlanAssumption).            *)
(***************************************************************************)
EXTENDS TrackingCandidates

CONSTANT
  NoRun  \* no calculation: nothing was asked, or it was given up

VARIABLE run

Runs ==
  [stage : {"running", "failed", "complete"},
   targets : TargetSequences, settings : Settings,
   place : Places,           \* where the next cycle starts
   done : Seq(Places),       \* one for each target that is done
   optimized : Nat,          \* how many of them improved on Fast
   search : Searches \cup {Idle}]

Cycle(r) ==
  [place |-> r.place, settings |-> r.settings,
   window |-> Window(r.targets, Len(r.done), r.settings)]

\* one more target is done
Reached(r, aim) ==
  LET to == Move(r.place, aim, 1) IN
  [r EXCEPT !.place = to, !.done = Append(@, to), !.search = Idle,
            !.stage = IF Len(r.done) + 1 = Len(r.targets) THEN "complete" ELSE @]

-----------------------------------------------------------------------------
Working == run # NoRun /\ run.stage = "running"

\* a calculation of which nothing is done
Begun(p, ts, s) ==
  [stage |-> "running", targets |-> ts, settings |-> s, place |-> p,
   done |-> <<>>, optimized |-> 0, search |-> Idle]

Start ==
  /\ run' # NoRun
  /\ run'.place \in Places /\ run'.targets \in TargetSequences /\ run'.settings \in Settings
  /\ run' = Begun(run'.place, run'.targets, run'.settings)

FastCycle ==
  LET aim == FastAim(run.targets[Len(run.done) + 1], run.settings) IN
  /\ Working /\ run.settings.mode = "fast"
  /\ ~Unsolved(run.place, aim)
  /\ run' = Reached(run, aim)

FastFails ==
  LET aim == FastAim(run.targets[Len(run.done) + 1], run.settings) IN
  /\ Working /\ run.settings.mode = "fast"
  /\ Unsolved(run.place, aim)
  /\ run' = [run EXCEPT !.stage = "failed"]

Begin ==
  /\ Working /\ run.settings.mode = "optimized" /\ run.search = Idle
  /\ ~Unsearchable(Cycle(run))
  /\ run' = [run EXCEPT !.search = Fresh]

BeginFails ==
  /\ Working /\ run.settings.mode = "optimized" /\ run.search = Idle
  /\ Unsearchable(Cycle(run))
  /\ run' = [run EXCEPT !.stage = "failed"]

Try ==
  /\ Working /\ run.search # Idle /\ run.search.phase # "finish"
  /\ ~Fails(Cycle(run), run.search)
  /\ run' = [run EXCEPT !.search = Tried(Cycle(run), @)]

TryFails ==
  /\ Working /\ run.search # Idle /\ run.search.phase # "finish"
  /\ Fails(Cycle(run), run.search)
  /\ run' = [run EXCEPT !.stage = "failed", !.search = Stuck(Cycle(run), @)]

Finish ==
  /\ Working /\ run.search # Idle /\ run.search.phase = "finish"
  /\ run' = [Reached(run, run.search.best) EXCEPT
               !.optimized = IF run.search.improved THEN @ + 1 ELSE @]

\* Asking again changes nothing: what failed fails again.
Retry ==
  /\ run # NoRun /\ run.stage = "failed"
  /\ run' = [run EXCEPT !.stage = "running"]

Forget == run' = NoRun

Init == run = NoRun

Next ==
  \/ Start \/ Retry \/ Forget
  \/ FastCycle \/ FastFails
  \/ Begin \/ BeginFails \/ Try \/ TryFails \/ Finish

Spec == Init /\ [][Next]_run
=============================================================================
