-------------------------- MODULE TrackingCandidates --------------------------
(***************************************************************************)
(* The candidate search of Optimized tracking (tracking_update.c, 128 to   *)
(* 626, with the presets and counters of tracking.c).  For one control     *)
(* cycle it tries targets for the solver in a fixed order: the Fast        *)
(* prediction, then five families around the targets in its window,        *)
(* settings.max in all at most, and keeps the best.  Its operators, on     *)
(* a search record that a sequence continuation stores between calls; the  *)
(* modules that extend this one say when a step of it is taken.            *)
(*                                                                         *)
(* A place is everything the solver starts from: the kinematic state with  *)
(* its limits.  An aim is a target state given to the solver.  The score   *)
(* of an aim is the raw value of the objective; a score that is compared   *)
(* is counted in ten-thousandths of it, so that the ratios of the presets  *)
(* are whole, and the epsilon of 1e-12 becomes a strict comparison.        *)
(***************************************************************************)
EXTENDS Naturals, Sequences

CONSTANTS
  Places, Aims, Targets,
  VelocityPlaces,         \* inputs under velocity control, or with a mix
  NonFinite,              \* targets with a value that is not finite
  Reactivenesses,
  MaxLookAhead,           \* cycles; bounds the setting
  Capacity,               \* most targets of a sequence
  NoAim,                  \* a prediction that overflows
  Idle,                   \* no search
  Predict(_, _, _),       \* a target, so many half cycles ahead, reactiveness
  Blend(_, _, _),         \* an aim drawn to the last target, four strengths
  Damp(_, _),             \* the last target with less velocity, three strengths
  Solvable(_, _),         \* ruckig_calculate finds the way from place to aim
  Move(_, _, _),          \* the place after some cycles on that way
  Score(_, _, _, _),      \* of an aim from a place, for a window and a preset
  TerminalError(_, _, _)  \* square of its position error at the window's end

Strategies == {"stable", "balanced", "aggressive"}
Settings   == [mode : {"fast", "optimized"}, strategy : Strategies,
               reactiveness : Reactivenesses,
               look_ahead : 1 .. MaxLookAhead, max : Nat \ {0}]
Windows    == UNION {[1 .. n -> Targets] : n \in 1 .. MaxLookAhead}
TargetSequences == UNION {[1 .. n -> Targets] : n \in 1 .. Capacity}

ASSUME SizeAssumption == MaxLookAhead \in Nat \ {0} /\ Capacity \in Nat \ {0}

ASSUME AimAssumption ==
  /\ NoAim \notin Aims
  /\ NonFinite \subseteq Targets
  /\ \A t \in Targets, r \in Reactivenesses, h \in 0 .. 2 * MaxLookAhead + 4 :
       Predict(t, h, r) \in Aims \cup {NoAim}
  /\ \A t \in NonFinite, r \in Reactivenesses, h \in 0 .. 2 * MaxLookAhead + 4 :
       Predict(t, h, r) = NoAim
  /\ \A t \in Targets \ NonFinite, i \in 0 .. 3 :
       /\ \A a \in Aims : Blend(a, t, i) \in Aims
       /\ Damp(t, i) \in Aims

ASSUME ScoreAssumption ==
  /\ VelocityPlaces \subseteq Places
  /\ \A p \in Places, a \in Aims : Solvable(p, a) \in BOOLEAN
  /\ \A p \in Places, a \in Aims, w \in Windows : Solvable(p, a) =>
       /\ TerminalError(p, a, w) \in Nat
       /\ \A s \in Strategies : Score(p, a, w, s) \in Nat

-----------------------------------------------------------------------------
(* What a search is given, and what it remembers.                           *)

\* where the cycle starts, the targets it looks at, the settings it goes by
Cycles == [place : Places, window : Windows, settings : Settings]

AtMost(n, k) == IF n < k THEN n ELSE k

\* the targets a cycle may look at, when k of them are done
Window(targets, k, settings) ==
  SubSeq(targets, k + 1, k + AtMost(Len(targets) - k, settings.look_ahead))

Phases == {"fast", "instantaneous", "horizon", "lead_lag", "terminal_blend",
           "derivative_damped", "finish"}

Searches ==
  [phase : Phases, index : Nat,
   fast : Nat, fast_terminal : Nat,        \* of the Fast candidate
   best : Aims \cup {NoAim}, best_score : Nat, improved : BOOLEAN,
   count : Nat, valid : Nat, rejected : Nat,
   exhausted : BOOLEAN]                    \* candidates were left out

ASSUME IdleAssumption == Idle \notin Searches

Fresh ==
  [phase |-> "fast", index |-> 0, fast |-> 0, fast_terminal |-> 0,
   best |-> NoAim, best_score |-> 0, improved |-> FALSE,
   count |-> 0, valid |-> 0, rejected |-> 0, exhausted |-> FALSE]

\* how many candidates a family has
Width(c, phase) ==
  CASE phase \in {"instantaneous", "horizon"}   -> Len(c.window)
    [] phase \in {"lead_lag", "terminal_blend"} -> 4
    [] phase = "derivative_damped"              -> 3
    [] OTHER                                    -> 1

\* Fault: the last family comes again
NextPhaseAgain(c, phase) ==
  CASE phase = "fast"           -> "instantaneous"
    [] phase = "instantaneous"  -> "horizon"
    [] phase = "horizon"        -> "terminal_blend"
    [] OTHER                    -> "derivative_damped"

NextPhase(c, phase) ==
  CASE phase = "fast"           -> "instantaneous"
    [] phase = "instantaneous"  -> "horizon"
    [] phase = "horizon"        ->
         IF c.settings.strategy = "aggressive" THEN "lead_lag" ELSE "terminal_blend"
    [] phase = "lead_lag"       -> "terminal_blend"
    [] phase = "terminal_blend" -> "derivative_damped"
    [] OTHER                    -> "finish"

\* half cycles ahead, of the four lead and lag candidates
LeadLag(w, i) ==
  CASE i = 0 -> 1 [] i = 1 -> 2 * w + 1 [] i = 2 -> 2 * w + 2 [] OTHER -> 2 * w + 4

Horizon(c, r) ==
  CASE r.phase = "fast"           -> 2 * Len(c.window)
    [] r.phase = "horizon"        -> 2 * (r.index + 1)
    [] r.phase = "lead_lag"       -> LeadLag(Len(c.window), r.index)
    [] r.phase = "terminal_blend" -> 2 * c.settings.look_ahead
    [] OTHER                      -> 0

Ahead(c, r) == Predict(c.window[1], Horizon(c, r), c.settings.reactiveness)
Last(c)     == c.window[Len(c.window)]

\* the target state of the next candidate, NoAim if it is not finite
Aim(c, r) ==
  CASE r.phase = "instantaneous" ->
         Predict(c.window[r.index + 1], 0, c.settings.reactiveness)
    [] r.phase = "terminal_blend" ->
         IF Ahead(c, r) = NoAim THEN NoAim ELSE Blend(Ahead(c, r), Last(c), r.index)
    [] r.phase = "derivative_damped" -> Damp(Last(c), r.index)
    [] OTHER -> Ahead(c, r)

Scored(c, r)   == Solvable(c.place, Aim(c, r))
Raw(c, r)      == Score(c.place, Aim(c, r), c.window, c.settings.strategy)
Terminal(c, r) == TerminalError(c.place, Aim(c, r), c.window)

-----------------------------------------------------------------------------
(* What is refused, and the aim of Fast mode.                               *)

FastAim(target, settings) ==
  Predict(target, 2 * settings.look_ahead, settings.reactiveness)

\* the solver has no way from place to aim
Unsolved(place, aim) ==
  place \in VelocityPlaces \/ aim = NoAim \/ ~Solvable(place, aim)

\* no search is begun
Unsearchable(c) ==
  \/ \E i \in 1 .. Len(c.window) : c.window[i] \in NonFinite
  \/ c.place \in VelocityPlaces

-----------------------------------------------------------------------------
(* One step of the search.                                                  *)

\* the candidate budget is spent; the Fast candidate does not ask
Spent(c, r) == r.phase # "fast" /\ r.count >= c.settings.max

\* The calculation fails: its baseline cannot be had, or a prediction
\* overflows, which the blends find out before they look at the budget.
Fails(c, r) ==
  \/ Aim(c, r) = NoAim /\ (Spent(c, r) => r.phase = "terminal_blend")
  \/ r.phase = "fast" /\ Aim(c, r) # NoAim /\ ~Scored(c, r)

\* candidate_family_score_ratio: an optimized candidate is given a bonus
Ratio(c) == IF c.settings.strategy = "aggressive" THEN 9975 ELSE 9980

Beats(c, r) == Raw(c, r) * Ratio(c) < r.best_score

\* Fault: in every preset
NearTieAlways(c, r) == 100 * Raw(c, r) <= 101 * r.fast /\ 2 * Terminal(c, r) <= r.fast_terminal

\* within 1% of the Fast candidate, with half its last position error
NearTie(c, r) ==
  /\ c.settings.strategy = "aggressive"
  /\ 100 * Raw(c, r) <= 101 * r.fast
  /\ 2 * Terminal(c, r) <= r.fast_terminal

Baseline(c, r) ==
  [r EXCEPT !.fast = Raw(c, r), !.fast_terminal = Terminal(c, r),
            !.best = Aim(c, r), !.best_score = 10000 * Raw(c, r)]

\* Fault: the score stays that of the earlier candidate
AcceptedAimOnly(c, r) == [r EXCEPT !.best = Aim(c, r), !.improved = TRUE]

Accepted(c, r) ==
  [r EXCEPT !.best = Aim(c, r), !.best_score = Raw(c, r) * Ratio(c), !.improved = TRUE]

Judged(c, r) ==
  IF r.phase = "fast" THEN Baseline(c, r)
  ELSE IF Beats(c, r) \/ NearTie(c, r) THEN Accepted(c, r) ELSE r

Counted(c, r) ==
  IF Scored(c, r) THEN [r EXCEPT !.count = @ + 1, !.valid = @ + 1]
  ELSE [r EXCEPT !.count = @ + 1, !.rejected = @ + 1]

Advanced(c, r) ==
  IF r.index + 1 < Width(c, r.phase) THEN [r EXCEPT !.index = @ + 1]
  ELSE [r EXCEPT !.index = 0, !.phase = NextPhase(c, @)]

\* the search after a candidate that did not make the calculation fail
Tried(c, r) ==
  Advanced(c,
    IF Spent(c, r) THEN [r EXCEPT !.exhausted = TRUE]
    ELSE IF Scored(c, r) THEN Counted(c, Judged(c, r))
    ELSE Counted(c, r))

\* the counters that are left of one that did
Stuck(c, r) == IF Aim(c, r) = NoAim THEN r ELSE Counted(c, r)
=============================================================================
