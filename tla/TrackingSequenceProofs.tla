------------------------ MODULE TrackingSequenceProofs ------------------------
(***************************************************************************)
(* Proofs about TrackingSequence, for all places, aims, targets and        *)
(* settings, every solver and objective that meets the assumptions, and    *)
(* sequences of any length.                                                *)
(***************************************************************************)
EXTENDS TrackingSequence, TrackingCandidatesProofs

-----------------------------------------------------------------------------
(* Continuations.                                                          *)

\* What is left of a sequence agrees with its counts.
LEMMA ContinuationType ==
  ASSUME NEW c \in Continuations
  PROVE  /\ Len(c.prefix) \in Nat /\ Len(c.targets) \in Nat /\ Len(c.targets) <= Capacity
         /\ Remaining(c) > 0 <=> Len(c.prefix) < Len(c.targets)
         /\ Len(c.prefix) <= Len(c.targets) =>
              (Remaining(c) = 0 <=> Len(c.prefix) = Len(c.targets))
         /\ Len(c.prefix) < Len(c.targets) =>
              /\ Cycle(c) \in Cycles /\ Target(c) \in Targets
              /\ c.targets \in TargetSequences
<1>1. c.prefix \in Seq(Places) /\ c.targets \in TargetSequences \cup {<<>>}
      /\ c.settings \in Settings /\ c.place \in Places
  BY DEF Continuations
<1>2. Len(c.prefix) \in Nat
  BY <1>1, LenProperties
<1>3. Len(c.targets) \in Nat /\ Len(c.targets) <= Capacity
  <2>1. CASE c.targets = <<>>
    BY <2>1, SizeAssumption
  <2>2. CASE c.targets \in TargetSequences
    BY <2>2, TargetsAreSeq, SizeAssumption
  <2> QED BY <1>1, <2>1, <2>2
<1>4. ASSUME Len(c.prefix) < Len(c.targets)
      PROVE  /\ Cycle(c) \in Cycles /\ Target(c) \in Targets
             /\ c.targets \in TargetSequences
  <2>1. c.targets \in TargetSequences
    <3>1. Len(<<>>) = 0
      OBVIOUS
    <3>2. c.targets # <<>>
      BY <1>2, <1>4, <3>1
    <3> QED BY <1>1, <3>2
  <2>2. /\ Window(c.targets, Len(c.prefix), c.settings) \in Windows
        /\ c.targets[Len(c.prefix) + 1] \in Targets
    BY <1>1, <1>2, <1>4, <2>1, WindowType
  <2> QED BY <1>1, <2>1, <2>2 DEF Cycle, Cycles, Target
<1>5. /\ Remaining(c) > 0 <=> Len(c.prefix) < Len(c.targets)
      /\ Len(c.prefix) <= Len(c.targets) =>
           (Remaining(c) = 0 <=> Len(c.prefix) = Len(c.targets))
  <2>1. ASSUME NEW m \in Nat, NEW n \in Nat
        PROVE  (m - n > 0 <=> n < m) /\ (n <= m => (m - n = 0 <=> n = m))
    OBVIOUS
  <2> QED BY <1>2, <1>3, <2>1, Zenon DEF Remaining
<1> QED BY <1>2, <1>3, <1>4, <1>5, Zenon

\* What holds of a continuation at all times: its outputs belong to its
\* targets, and its search to the cycle that is next.
Held(c) ==
  /\ c \in Continuations
  /\ Len(c.prefix) <= Len(c.targets)
  /\ c.search # Idle =>
       /\ c.settings.mode = "optimized" /\ Len(c.prefix) < Len(c.targets)
       /\ ~Unsearchable(Cycle(c)) /\ Sound(Cycle(c), c.search)

\* Two continuations of one calculation, at the same point of it.
Agrees(c, d) ==
  /\ d.place = c.place /\ d.targets = c.targets /\ d.settings = c.settings
  /\ d.prefix = c.prefix /\ d.search = c.search /\ d.optimized = c.optimized

\* Continuations that agree are at the same cycle, and held alike.
LEMMA AgreesHeld ==
  ASSUME NEW c, NEW d \in Continuations, Held(c), Agrees(c, d)
  PROVE  Held(d) /\ Cycle(d) = Cycle(c) /\ Remaining(d) = Remaining(c)
BY DEF Held, Agrees, Cycle, Remaining

\* The flags of a continuation that a call leaves, or enters with.
LEMMA FlagsHeld ==
  ASSUME NEW c, Held(c)
  PROVE  /\ Held(Stopped(c)) /\ Agrees(c, Stopped(c))
         /\ Stopped(c).active /\ Stopped(c).interrupted /\ ~Stopped(c).complete
         /\ Held(Finished(c)) /\ Agrees(c, Finished(c))
         /\ ~Finished(c).active /\ ~Finished(c).interrupted /\ Finished(c).complete
         /\ Held(Failed(c)) /\ Agrees(c, Failed(c))
         /\ ~Failed(c).active /\ ~Failed(c).interrupted /\ ~Failed(c).complete
<1>0. c \in Continuations
  BY DEF Held
<1>1. Stopped(c) \in Continuations
  BY <1>0 DEF Stopped, Continuations
<1>2. Finished(c) \in Continuations
  BY <1>0 DEF Finished, Continuations
<1>3. Failed(c) \in Continuations
  BY <1>0 DEF Failed, Continuations
<1>4. Agrees(c, Stopped(c)) /\ Stopped(c).active /\ Stopped(c).interrupted
      /\ ~Stopped(c).complete
  BY <1>0 DEF Stopped, Continuations, Agrees
<1>5. Agrees(c, Finished(c)) /\ ~Finished(c).active /\ ~Finished(c).interrupted
      /\ Finished(c).complete
  BY <1>0 DEF Finished, Continuations, Agrees
<1>6. Agrees(c, Failed(c)) /\ ~Failed(c).active /\ ~Failed(c).interrupted
      /\ ~Failed(c).complete
  BY <1>0 DEF Failed, Continuations, Agrees
<1> QED BY <1>1, <1>2, <1>3, <1>4, <1>5, <1>6, AgreesHeld

\* What the continuation says of its status is no part of the calculation.
LEMMA StatusHeld ==
  ASSUME NEW c, Held(c), NEW s \in Statuses
  PROVE  /\ Held([c EXCEPT !.status = s]) /\ Agrees(c, [c EXCEPT !.status = s])
         /\ Held([c EXCEPT !.status = s, !.exhausted = TRUE])
         /\ Agrees(c, [c EXCEPT !.status = s, !.exhausted = TRUE])
<1>0. c \in Continuations
  BY DEF Held
<1>1. [c EXCEPT !.status = s] \in Continuations
  BY <1>0 DEF Continuations
<1>2. [c EXCEPT !.status = s, !.exhausted = TRUE] \in Continuations
  BY <1>0 DEF Continuations
<1>3. Agrees(c, [c EXCEPT !.status = s])
  BY <1>0 DEF Continuations, Agrees
<1>4. Agrees(c, [c EXCEPT !.status = s, !.exhausted = TRUE])
  BY <1>0 DEF Continuations, Agrees
<1> QED BY <1>1, <1>2, <1>3, <1>4, AgreesHeld

\* A continuation without targets holds.
LEMMA ClearedHeld ==
  ASSUME NEW c \in Continuations
  PROVE  /\ Held(Cleared(c)) /\ Cleared(c).targets = <<>> /\ Cleared(c).search = Idle
         /\ ~Cleared(c).active /\ ~Cleared(c).interrupted /\ ~Cleared(c).complete
<1>1. Default \in Settings
  BY SequenceAssumption
<1>2. <<>> \in Seq(Places) /\ Len(<<>>) = 0
  OBVIOUS
<1> HIDE DEF Default
<1>3. Cleared(c) \in Continuations
  BY <1>1, <1>2 DEF Cleared, Continuations, Statuses
<1>4. /\ Cleared(c).targets = <<>> /\ Cleared(c).prefix = <<>> /\ Cleared(c).search = Idle
      /\ ~Cleared(c).active /\ ~Cleared(c).interrupted /\ ~Cleared(c).complete
  BY DEF Cleared, Continuations
<1> QED BY <1>2, <1>3, <1>4 DEF Held

\* So does one that was captured from a request.
LEMMA CapturedHeld ==
  ASSUME NEW q \in Requests, cont \in Continuations, settings \in Settings
  PROVE  /\ Held(Captured(q)) /\ Remaining(Captured(q)) > 0
         /\ Captured(q).search = Idle /\ Captured(q).prefix = <<>>
         /\ Captured(q).place = q.place /\ Captured(q).targets = q.targets
         /\ Captured(q).settings = settings /\ Captured(q).optimized = 0
<1>1. q.place \in Places /\ q.budget \in Budgets /\ q.targets \in TargetSequences
  BY SequenceAssumption
<1>2. <<>> \in Seq(Places) /\ Len(<<>>) = 0
  OBVIOUS
<1>3. Captured(q) \in Continuations
  BY <1>1, <1>2 DEF Captured, Cleared, Continuations, Statuses
<1>4. /\ Captured(q).search = Idle /\ Captured(q).prefix = <<>>
      /\ Captured(q).place = q.place /\ Captured(q).targets = q.targets
      /\ Captured(q).settings = settings /\ Captured(q).optimized = 0
  BY DEF Captured, Cleared, Continuations
<1>5. Len(q.targets) \in Nat \ {0}
  BY <1>1, TargetsAreSeq, SizeAssumption
<1>6. Len(Captured(q).prefix) <= Len(Captured(q).targets) /\ Remaining(Captured(q)) > 0
  BY <1>2, <1>4, <1>5 DEF Remaining
<1> QED BY <1>3, <1>4, <1>6 DEF Held

\* A target more is done.
LEMMA ExtendedHeld ==
  ASSUME NEW c \in Continuations, NEW to \in Places, Len(c.prefix) < Len(c.targets)
  PROVE  /\ Extended(c, to) \in Continuations
         /\ Extended(c, to).place = to /\ Extended(c, to).prefix = Append(c.prefix, to)
         /\ Extended(c, to).targets = c.targets /\ Extended(c, to).settings = c.settings
         /\ Extended(c, to).search = c.search /\ Extended(c, to).optimized = c.optimized
         /\ Extended(c, to).active = c.active
         /\ Extended(c, to).interrupted = c.interrupted
         /\ Extended(c, to).complete = c.complete
         /\ Len(Append(c.prefix, to)) = Len(c.prefix) + 1
         /\ Len(Append(c.prefix, to)) <= Len(c.targets)
<1>1. c.prefix \in Seq(Places)
  BY DEF Continuations
<1>2. Append(c.prefix, to) \in Seq(Places)
      /\ Len(Append(c.prefix, to)) = Len(c.prefix) + 1
  BY <1>1, AppendProperties
<1>3. Extended(c, to) \in Continuations
  BY <1>2 DEF Extended, Continuations
<1>4. /\ Extended(c, to).place = to /\ Extended(c, to).prefix = Append(c.prefix, to)
      /\ Extended(c, to).targets = c.targets /\ Extended(c, to).settings = c.settings
      /\ Extended(c, to).search = c.search /\ Extended(c, to).optimized = c.optimized
      /\ Extended(c, to).active = c.active
      /\ Extended(c, to).interrupted = c.interrupted
      /\ Extended(c, to).complete = c.complete
  BY DEF Extended, Continuations
<1> QED BY <1>2, <1>3, <1>4, ContinuationType

\* A cycle that is done is counted, and its search is gone.
LEMMA AccumulatedType ==
  ASSUME NEW c \in Continuations
  PROVE  /\ Accumulated(c) \in Continuations /\ Accumulated(c).search = Idle
         /\ Accumulated(c).place = c.place /\ Accumulated(c).prefix = c.prefix
         /\ Accumulated(c).targets = c.targets /\ Accumulated(c).settings = c.settings
         /\ Accumulated(c).optimized =
              (IF c.search.improved THEN c.optimized + 1 ELSE c.optimized)
         /\ Accumulated(c).active = c.active
         /\ Accumulated(c).interrupted = c.interrupted
         /\ Accumulated(c).complete = c.complete
<1> DEFINE n == IF c.search.improved THEN c.optimized + 1 ELSE c.optimized
           k == IF c.search.improved THEN c.fallback ELSE c.fallback + 1
           e == c.exhausted \/ c.search.exhausted \/ c.stopped
<1>1. n \in Nat /\ k \in Nat
  BY DEF Continuations
<1>2. e \in BOOLEAN
  OBVIOUS
<1>3. Accumulated(c) = [c EXCEPT !.optimized = n, !.fallback = k, !.exhausted = e,
                                 !.search = Idle, !.stopped = FALSE]
  BY Zenon DEF Accumulated
<1> HIDE DEF n, k, e
<1>4. Accumulated(c) \in Continuations
  BY <1>1, <1>2, <1>3 DEF Continuations
<1>5. /\ Accumulated(c).search = Idle
      /\ Accumulated(c).place = c.place /\ Accumulated(c).prefix = c.prefix
      /\ Accumulated(c).targets = c.targets /\ Accumulated(c).settings = c.settings
      /\ Accumulated(c).optimized = n
      /\ Accumulated(c).active = c.active
      /\ Accumulated(c).interrupted = c.interrupted
      /\ Accumulated(c).complete = c.complete
  BY <1>3 DEF Continuations
<1> QED BY <1>4, <1>5 DEF n

\* Another search of the same cycle.
LEMMA SearchedHeld ==
  ASSUME NEW c, Held(c), NEW r, Len(c.prefix) < Len(c.targets),
         c.settings.mode = "optimized", ~Unsearchable(Cycle(c)), Sound(Cycle(c), r)
  PROVE  LET d == [c EXCEPT !.search = r]
         IN  /\ Held(d) /\ d.search = r /\ Cycle(d) = Cycle(c)
             /\ d.place = c.place /\ d.prefix = c.prefix /\ d.targets = c.targets
             /\ d.settings = c.settings /\ d.optimized = c.optimized
             /\ d.active = c.active /\ d.interrupted = c.interrupted
             /\ d.complete = c.complete /\ d.budget = c.budget
<1> DEFINE d == [c EXCEPT !.search = r]
<1>1. c \in Continuations /\ r \in Searches
  BY DEF Held, Sound
<1>2. d \in Continuations
  BY <1>1 DEF Continuations
<1>3. /\ d.search = r
      /\ d.place = c.place /\ d.prefix = c.prefix /\ d.targets = c.targets
      /\ d.settings = c.settings /\ d.optimized = c.optimized
      /\ d.active = c.active /\ d.interrupted = c.interrupted
      /\ d.complete = c.complete /\ d.budget = c.budget
  BY <1>1 DEF Continuations
<1> HIDE DEF d
<1>4. Cycle(d) = Cycle(c)
  BY <1>3 DEF Cycle
<1>5. Held(d)
  BY <1>2, <1>3, <1>4 DEF Held
<1> QED BY <1>3, <1>4, <1>5 DEF d

-----------------------------------------------------------------------------
(* The inductive invariant.                                                *)

\* The settings that a call replaces are the ones it restores.
CallInv ==
  /\ settings \in Settings /\ saved \in Settings /\ chosen \in HandleSettings
  /\ running \in BOOLEAN
  /\ IF running THEN saved = chosen ELSE settings = chosen

\* A calculation under way is active and has a target left.
FlagsInv ==
  /\ cont.active => Len(cont.prefix) < Len(cont.targets)
  /\ cont.complete => ~cont.active /\ Len(cont.prefix) = Len(cont.targets)
  /\ cont.interrupted => cont.active /\ ~cont.complete
  /\ running => cont.active /\ ~cont.complete /\ ~cont.interrupted

ScratchType ==
  /\ otg \in Memories \cup {NoPlan} /\ work \in Plans \cup {NoPlan}
  /\ workPlace \in Places /\ best \in Aims \cup {NoAim}
  /\ output \in Seq(Places) /\ result \in {"none", "working", "failed", "refused"}
  /\ drifted \in BOOLEAN /\ failures \in Nat

\* The solver follows a plan that it has followed for some of the targets.
FollowedPlan ==
  /\ work \in Plans /\ otg = [at |-> workPlace, aim |-> work.aim]
  /\ Solvable(work.from, work.aim)
  /\ 1 <= work.age /\ work.age <= Len(cont.prefix)
  /\ workPlace = Move(work.from, work.aim, work.age)

\* The scratch space is at the place of the calculation where it matters.
FastInv ==
  running /\ cont.settings.mode = "fast" =>
    workPlace = cont.place /\ (otg = NoPlan \/ FollowedPlan)

FinishInv ==
  cont.search # Idle /\ cont.search.phase = "finish" => running /\ workPlace = cont.place

BudgetInv ==
  cont.search # Idle /\ failures = 0 =>
    /\ Thrifty(Cycle(cont), cont.search)
    /\ cont.search.phase = "fast" => cont.search.count = 0

SequenceInv ==
  /\ Held(cont) /\ CallInv /\ FlagsInv /\ ScratchType
  /\ FastInv /\ FinishInv /\ BudgetInv /\ OutputIsPrefix

\* The invariant holds of a handle that was only made.
LEMMA InitInv == Init => SequenceInv
<1> SUFFICES ASSUME Init PROVE SequenceInv
  OBVIOUS
<1>1. Default \in Settings /\ Default \in HandleSettings /\ Origin \in Places
  BY SequenceAssumption
<1>2. <<>> \in Seq(Places) /\ Len(<<>>) = 0
  OBVIOUS
<1>3. cont \in Continuations /\ cont.prefix = <<>> /\ cont.targets = <<>>
      /\ cont.search = Idle /\ ~cont.active /\ ~cont.interrupted /\ ~cont.complete
  <2> HIDE DEF Default
  <2> QED BY <1>1, <1>2 DEF Init, Continuations, Budgets, Statuses
<1>4. Held(cont)
  BY <1>2, <1>3 DEF Held
<1>5. CallInv /\ ScratchType
  BY <1>1, <1>2 DEF Init, CallInv, ScratchType
<1>6. FlagsInv /\ FastInv /\ FinishInv /\ BudgetInv /\ OutputIsPrefix
  BY <1>3 DEF Init, FlagsInv, FastInv, FinishInv, BudgetInv, OutputIsPrefix
<1> QED BY <1>4, <1>5, <1>6 DEF SequenceInv

\* Between two calls the invariant needs little.
LEMMA IdleInv ==
  ASSUME SequenceInv, ~running, running' = running, ScratchType', CallInv', OutputIsPrefix',
         \/ cont' = cont /\ failures' = failures
         \/ cont' = Cleared(cont)
  PROVE  SequenceInv'
<1>1. Held(cont) /\ cont \in Continuations
  BY DEF SequenceInv, Held
<1>2. CASE cont' = cont /\ failures' = failures
  BY <1>2 DEF SequenceInv, FlagsInv, FastInv, FinishInv, BudgetInv
<1>3. CASE cont' = Cleared(cont)
  <2>1. /\ Held(cont') /\ cont'.search = Idle
        /\ ~cont'.active /\ ~cont'.interrupted /\ ~cont'.complete
    BY <1>1, <1>3, ClearedHeld
  <2> QED BY <2>1 DEF SequenceInv, FlagsInv, FastInv, FinishInv, BudgetInv
<1> QED BY <1>2, <1>3

\* What happens between two calls, and the calls that are refused.
LEMMA BetweenInv ==
  ASSUME SequenceInv,
         Setters \/ OtherUse \/ StartRefused \/ ResumeComplete \/ Refuse \/ Reset
  PROVE  SequenceInv'
<1>1. CallInv /\ ScratchType /\ OutputIsPrefix /\ HandleSettings \subseteq Settings
      /\ cont \in Continuations
  BY SequenceAssumption DEF SequenceInv, Held
<1>2. CASE Setters
  <2>1. PICK s \in HandleSettings : Choose(s) /\ otg' \in {otg, NoPlan}
    BY <1>2 DEF Setters, SetMode, SetOptimizedStrategy, SetReactiveness,
       SetLookAheadCycles, SetMaxOptimizedCandidates, Choose
  <2>2. ~running /\ running' = running /\ cont' = cont /\ failures' = failures
    BY <2>1 DEF Choose
  <2>3. CallInv'
    BY <1>1, <2>1 DEF Choose, CallInv
  <2>4. ScratchType' /\ OutputIsPrefix'
    BY <1>1, <2>1 DEF Choose, ScratchType, OutputIsPrefix
  <2> QED BY <2>2, <2>3, <2>4, IdleInv
<1>3. CASE OtherUse
  <2>1. ~running /\ running' = running /\ cont' = cont /\ failures' = failures
    BY <1>3 DEF OtherUse
  <2>2. CallInv' /\ OutputIsPrefix'
    BY <1>1, <1>3 DEF OtherUse, CallInv, OutputIsPrefix
  <2>3. ScratchType'
    <3>1. PICK p \in OtherPlans :
            /\ otg' = [at |-> Move(p.from, p.aim, p.age), aim |-> p.aim]
            /\ work' \in {work, p}
            /\ workPlace' \in {p.from, Move(p.from, p.aim, p.age)}
            /\ best' = p.aim
      BY <1>3 DEF OtherUse
    <3>2. p \in Plans /\ Move(p.from, p.aim, p.age) \in Places
      BY SequenceAssumption
    <3>3. p.from \in Places /\ p.aim \in Aims
      BY <3>2 DEF Plans
    <3>4. otg' \in Memories
      BY <3>1, <3>2, <3>3 DEF Memories
    <3> QED BY <1>1, <1>3, <3>1, <3>2, <3>3, <3>4 DEF OtherUse, ScratchType
  <2> QED BY <2>1, <2>2, <2>3, IdleInv
<1>4. CASE StartRefused \/ Reset
  <2>1. ~running /\ running' = running /\ cont' = Cleared(cont)
    BY <1>4 DEF StartRefused, Reset
  <2>2. /\ UNCHANGED <<handle, output, running, saved, chosen>>
        /\ drifted' = FALSE /\ failures' = failures /\ result' \in {"failed", "none"}
    BY <1>4 DEF StartRefused, Reset
  <2>3. CallInv' /\ OutputIsPrefix' /\ ScratchType'
    BY <1>1, <2>2 DEF handle, CallInv, OutputIsPrefix, ScratchType
  <2> QED BY <2>1, <2>3, IdleInv
<1>5. CASE ResumeComplete \/ Refuse
  <2>1. ~running /\ running' = running /\ cont' = cont /\ failures' = failures
    BY <1>5 DEF ResumeComplete, Refuse
  <2>2. cont.prefix \in Seq(Places)
    BY <1>1 DEF Continuations
  <2>3. CallInv' /\ OutputIsPrefix' /\ ScratchType'
    BY <1>1, <1>5, <2>2
       DEF ResumeComplete, Refuse, handle, CallInv, OutputIsPrefix, ScratchType
  <2> QED BY <2>1, <2>3, IdleInv
<1> QED BY <1>2, <1>3, <1>4, <1>5

\* A call begins to work on a continuation that has a target left.
LEMMA EnterInv ==
  ASSUME SequenceInv, NEW c, Held(c), Remaining(c) > 0, Enter(c),
         drifted' \in BOOLEAN, failures' \in Nat,
         c.search # Idle => c = cont /\ failures' = failures
  PROVE  /\ SequenceInv' /\ Agrees(c, cont')
         /\ cont'.active /\ ~cont'.complete
<1>1. /\ ~running /\ running' = TRUE /\ saved' = settings /\ chosen' = chosen
      /\ c \in Continuations /\ CallInv /\ ScratchType
  BY DEF Enter, SequenceInv, Held
<1>2. c.settings \in Settings /\ c.place \in Places /\ c.prefix \in Seq(Places)
      /\ Len(c.prefix) < Len(c.targets)
  BY <1>1, ContinuationType DEF Continuations
<1>3. cont' \in Continuations
  BY <1>1 DEF Enter, Continuations
<1>4. Agrees(c, cont') /\ cont'.active /\ ~cont'.interrupted /\ ~cont'.complete
  BY <1>1 DEF Enter, Continuations, Agrees
<1>5. Held(cont') /\ Cycle(cont') = Cycle(c)
  BY <1>3, <1>4, AgreesHeld
<1>6. CallInv'
  <2>1. CASE c.settings.mode = "fast"
    <3>1. settings' = [settings EXCEPT !.mode = "fast", !.strategy = c.settings.strategy]
      BY <2>1 DEF Enter
    <3>2. settings' \in Settings
      BY <1>1, <1>2, <3>1 DEF CallInv, Settings
    <3> QED BY <1>1, <3>2 DEF CallInv
  <2>2. CASE c.settings.mode # "fast"
    BY <1>1, <1>2, <2>2 DEF CallInv, Enter
  <2> QED BY <2>1, <2>2
<1>7. ScratchType'
  BY <1>1, <1>2 DEF Enter, ScratchType
<1>8. FlagsInv' /\ OutputIsPrefix'
  BY <1>1, <1>2, <1>4 DEF FlagsInv, Agrees, OutputIsPrefix
<1>9. FastInv'
  BY <1>4 DEF FastInv, Agrees, Enter
<1>10. FinishInv' /\ BudgetInv'
  <2>1. CASE c.search = Idle
    BY <1>4, <2>1 DEF FinishInv, BudgetInv, Agrees
  <2>2. CASE c.search # Idle
    BY <1>1, <1>4, <1>5, <2>2 DEF FinishInv, BudgetInv, Agrees, SequenceInv
  <2> QED BY <2>1, <2>2
<1> QED BY <1>4, <1>5, <1>6, <1>7, <1>8, <1>9, <1>10 DEF SequenceInv

\* Starting a sequence keeps the invariant.
LEMMA StartInv ==
  ASSUME SequenceInv, StartInterruptible
  PROVE  SequenceInv'
<1>1. PICK q \in Requests : Enter(Captured(q)) /\ drifted' = FALSE /\ failures' = 0
  BY DEF StartInterruptible
<1>2. cont \in Continuations /\ settings \in Settings
  BY DEF SequenceInv, Held, CallInv
<1>3. Held(Captured(q)) /\ Remaining(Captured(q)) > 0 /\ Captured(q).search = Idle
  BY <1>2, CapturedHeld
<1> QED BY <1>1, <1>3, EnterInv

\* Resuming one keeps it.
LEMMA ResumeInv ==
  ASSUME SequenceInv, Resume
  PROVE  SequenceInv'
<1>1. Held(cont) /\ drifted' \in BOOLEAN /\ failures' \in Nat /\ failures' = failures
  BY DEF SequenceInv, ScratchType, Resume
<1> QED BY <1>1, EnterInv DEF Resume

-----------------------------------------------------------------------------
(* The steps of a call.                                                    *)

\* A call that returns hands out its continuation and result.
LEMMA ReturnInv ==
  ASSUME CallInv, running, NEW d, NEW r, Return(d, r), chosen' = chosen
  PROVE  CallInv' /\ cont' = d /\ result' = r /\ running' = FALSE
<1>1. chosen \in Settings /\ Default \in Settings
  BY SequenceAssumption DEF CallInv
<1> HIDE DEF Default
<1> QED BY <1>1 DEF CallInv, Return

\* A call that goes on keeps its result open.
LEMMA GoOnInv ==
  ASSUME CallInv, running, NEW d, GoOn(d), chosen' = chosen
  PROVE  CallInv' /\ cont' = d /\ result' = result /\ running' = TRUE
BY DEF CallInv, GoOn

\* A call that fails.
LEMMA FailInv ==
  ASSUME SequenceInv, running, NEW d, Held(d), Fail(d),
         d.search # Idle => d.search.phase # "finish",
         otg' \in Memories \cup {NoPlan}, work' \in Plans \cup {NoPlan},
         workPlace' \in Places, best' \in Aims \cup {NoAim}, drifted' \in BOOLEAN
  PROVE  SequenceInv' /\ cont' = Failed(d) /\ running' = FALSE
<1>1. CallInv /\ ScratchType
  BY DEF SequenceInv
<1>2. CallInv' /\ cont' = Failed(d) /\ result' = "failed" /\ running' = FALSE
  BY <1>1, ReturnInv DEF Fail
<1>3. /\ Held(cont') /\ cont'.search = d.search
      /\ ~cont'.active /\ ~cont'.interrupted /\ ~cont'.complete
  BY <1>2, FlagsHeld DEF Agrees
<1>4. failures' \in Nat /\ failures' # 0 /\ output' = output
  BY <1>1 DEF Fail, ScratchType
<1>5. ScratchType'
  BY <1>1, <1>2, <1>4 DEF ScratchType
<1>6. FlagsInv' /\ FastInv' /\ FinishInv' /\ BudgetInv' /\ OutputIsPrefix'
  BY <1>2, <1>3, <1>4 DEF FlagsInv, FastInv, FinishInv, BudgetInv, OutputIsPrefix
<1> QED BY <1>2, <1>3, <1>5, <1>6 DEF SequenceInv

\* Aiming at a target itself gives an aim, or none.
LEMMA FastAimType ==
  ASSUME NEW t \in Targets, NEW s \in Settings
  PROVE  FastAim(t, s) \in Aims \cup {NoAim}
<1>1. s.look_ahead \in 1 .. MaxLookAhead /\ MaxLookAhead \in Nat
      /\ s.reactiveness \in Reactivenesses
  BY SizeAssumption DEF Settings
<1>2. 2 * s.look_ahead \in 0 .. 2 * MaxLookAhead + 4
  BY <1>1
<1> QED BY <1>1, <1>2, AimAssumption DEF FastAim

\* While a call runs, the next target is there and its cycle makes sense.
LEMMA RunningCycle ==
  ASSUME SequenceInv, running
  PROVE  /\ cont \in Continuations /\ Held(cont)
         /\ Len(cont.prefix) \in Nat /\ Len(cont.targets) \in Nat
         /\ Len(cont.prefix) < Len(cont.targets) /\ Len(cont.targets) <= Capacity
         /\ Target(cont) \in Targets /\ Cycle(cont) \in Cycles
         /\ cont.place \in Places /\ cont.settings \in Settings
         /\ cont.targets \in TargetSequences
         /\ cont.active /\ ~cont.complete /\ ~cont.interrupted
         /\ workPlace \in Places /\ settings \in Settings
<1>1. cont \in Continuations /\ Held(cont) /\ FlagsInv /\ ScratchType /\ CallInv
  BY DEF SequenceInv, Held
<1>2. cont.active /\ ~cont.complete /\ ~cont.interrupted
      /\ Len(cont.prefix) < Len(cont.targets)
  BY <1>1 DEF FlagsInv
<1>3. cont.place \in Places /\ cont.settings \in Settings
  BY <1>1 DEF Continuations
<1> QED BY <1>1, <1>2, <1>3, ContinuationType DEF ScratchType, CallInv

\* A Fast cycle ends where a motion planned anew from its start is after one
\* cycle, whether the solver plans anew or follows the plan it has.
LEMMA FastCycleMoves ==
  ASSUME SequenceInv, FastCycle
  PROVE  LET aim == FastAim(Target(cont), settings)
             to  == Reached(FastPlan(aim)) IN
         /\ aim \in Aims /\ Solvable(cont.place, aim) /\ workPlace = cont.place
         /\ to \in Places /\ to = Move(cont.place, aim, 1)
         /\ work' \in Plans /\ work'.aim = aim /\ Solvable(work'.from, aim)
         /\ 1 <= work'.age /\ work'.age <= Len(cont.prefix) + 1
         /\ to = Move(work'.from, aim, work'.age)
<1> DEFINE aim == FastAim(Target(cont), settings)
           to  == Reached(FastPlan(aim))
           n   == Len(cont.prefix)
<1>1. running /\ cont.settings.mode = "fast" /\ aim # NoAim /\ work' = FastPlan(aim)
      /\ (Follows(aim) \/ Solvable(workPlace, aim))
  BY DEF FastCycle, FastRunning
<1>2. /\ n \in Nat /\ n + 1 <= Capacity /\ Capacity \in Nat /\ 1 <= Capacity
      /\ workPlace \in Places /\ settings \in Settings /\ Target(cont) \in Targets
  BY <1>1, RunningCycle, SizeAssumption
<1>3. aim \in Aims
  BY <1>1, <1>2, FastAimType
<1>4. workPlace = cont.place /\ (otg = NoPlan \/ FollowedPlan)
  BY <1>1 DEF SequenceInv, FastInv
<1> HIDE DEF aim
<1>5. CASE Follows(aim)
  <2>1. work # NoPlan /\ otg = [at |-> workPlace, aim |-> aim]
    BY <1>5 DEF Follows
  <2>2. otg \in Memories
    BY <1>2, <1>3, <2>1 DEF Memories
  <2>3. FollowedPlan
    BY <1>4, <2>2, SequenceAssumption
  <2>4. work.aim = aim
    <3>1. otg.aim = aim /\ otg.aim = work.aim
      BY <2>1, <2>3 DEF FollowedPlan
    <3> QED BY <3>1
  <2>5. /\ work \in Plans /\ work.from \in Places /\ work.age \in Nat
        /\ Solvable(work.from, aim) /\ 1 <= work.age /\ work.age <= n
        /\ workPlace = Move(work.from, aim, work.age)
    BY <2>3, <2>4 DEF FollowedPlan, Plans
  <2>6. work.age \in 1 .. Capacity /\ work.age + 1 \in 1 .. Capacity
    BY <1>2, <2>5
  <2>7. /\ Solvable(workPlace, aim)
        /\ Move(workPlace, aim, 1) = Move(work.from, aim, work.age + 1)
        /\ Move(work.from, aim, work.age + 1) \in Places
    BY <1>3, <2>5, <2>6, PlanAssumption
  <2>8. FastPlan(aim) = [work EXCEPT !.age = @ + 1]
    BY <1>5 DEF FastPlan
  <2>9. /\ FastPlan(aim) \in Plans /\ FastPlan(aim).from = work.from
        /\ FastPlan(aim).aim = aim /\ FastPlan(aim).age = work.age + 1
    BY <2>4, <2>5, <2>8 DEF Plans
  <2>10. to = Move(work.from, aim, work.age + 1)
    BY <2>9 DEF Reached
  <2>11. 1 <= work.age + 1 /\ work.age + 1 <= n + 1
    BY <1>2, <2>5
  <2> HIDE DEF to
  <2> QED BY <1>1, <1>3, <1>4, <2>5, <2>7, <2>9, <2>10, <2>11 DEF aim, to
<1>6. CASE ~Follows(aim)
  <2>1. FastPlan(aim) = [from |-> workPlace, aim |-> aim, age |-> 1] /\ Solvable(workPlace, aim)
    BY <1>1, <1>6 DEF FastPlan
  <2>2. /\ FastPlan(aim) \in Plans /\ FastPlan(aim).from = workPlace
        /\ FastPlan(aim).aim = aim /\ FastPlan(aim).age = 1
    BY <1>2, <1>3, <2>1 DEF Plans
  <2>3. 1 \in 1 .. Capacity /\ 1 <= n + 1
    BY <1>2
  <2>4. Move(workPlace, aim, 1) \in Places
    BY <1>2, <1>3, <2>1, <2>3, PlanAssumption
  <2>5. to = Move(workPlace, aim, 1)
    BY <2>2 DEF Reached
  <2> HIDE DEF to
  <2> QED BY <1>1, <1>3, <1>4, <2>1, <2>2, <2>3, <2>4, <2>5 DEF aim, to
<1> QED BY <1>5, <1>6

\* After a target the call is complete, stops, or goes on.
LEMMA Departs ==
  ASSUME CallInv, ScratchType, running, chosen' = chosen,
         NEW c, Held(c), c.active, ~c.complete, ~c.interrupted,
         NEW d, Held(d), Agrees(c, d), NEW s, Held(s), Agrees(c, s),
         \/ Remaining(c) = 0 /\ Return(Finished(d), "working") /\ output' = c.prefix
         \/ Remaining(c) # 0 /\ Return(Stopped(s), "working") /\ output' = c.prefix
         \/ Remaining(c) # 0 /\ GoOn(c) /\ output' \in {output, c.prefix}
  PROVE  /\ Held(cont') /\ Agrees(c, cont') /\ CallInv' /\ FlagsInv' /\ OutputIsPrefix'
         /\ output' \in Seq(Places) /\ result' \in {"none", "working", "failed", "refused"}
         /\ IF Len(c.prefix) = Len(c.targets) THEN cont'.complete
            ELSE cont'.active /\ ~cont'.complete
<1>1. c \in Continuations /\ c.prefix \in Seq(Places) /\ Len(c.prefix) <= Len(c.targets)
  BY DEF Held, Continuations
<1>2. /\ Len(c.prefix) \in Nat /\ Len(c.targets) \in Nat
      /\ Remaining(c) = 0 <=> Len(c.prefix) = Len(c.targets)
  BY <1>1, ContinuationType
<1>3. Remaining(c) # 0 => Len(c.prefix) < Len(c.targets)
  BY <1>1, <1>2
<1>4. CASE Remaining(c) = 0 /\ Return(Finished(d), "working") /\ output' = c.prefix
  <2>1. CallInv' /\ cont' = Finished(d) /\ result' = "working" /\ running' = FALSE
    BY <1>4, ReturnInv
  <2>2. /\ Held(cont') /\ Agrees(c, cont')
        /\ ~cont'.active /\ ~cont'.interrupted /\ cont'.complete
    BY <2>1, FlagsHeld DEF Agrees
  <2>3. FlagsInv' /\ OutputIsPrefix'
    BY <1>2, <1>4, <2>1, <2>2 DEF FlagsInv, OutputIsPrefix, Agrees
  <2> QED BY <1>1, <1>2, <1>4, <2>1, <2>2, <2>3
<1>5. CASE Remaining(c) # 0 /\ Return(Stopped(s), "working") /\ output' = c.prefix
  <2>1. CallInv' /\ cont' = Stopped(s) /\ result' = "working" /\ running' = FALSE
    BY <1>5, ReturnInv
  <2>2. /\ Held(cont') /\ Agrees(c, cont')
        /\ cont'.active /\ cont'.interrupted /\ ~cont'.complete
    BY <2>1, FlagsHeld DEF Agrees
  <2>3. FlagsInv' /\ OutputIsPrefix'
    BY <1>3, <1>5, <2>1, <2>2 DEF FlagsInv, OutputIsPrefix, Agrees
  <2> QED BY <1>1, <1>2, <1>5, <2>1, <2>2, <2>3
<1>6. CASE Remaining(c) # 0 /\ GoOn(c) /\ output' \in {output, c.prefix}
  <2>1. CallInv' /\ cont' = c /\ result' = result /\ running' = TRUE
    BY <1>6, GoOnInv
  <2>2. FlagsInv' /\ OutputIsPrefix' /\ Agrees(c, cont')
    BY <1>3, <1>6, <2>1 DEF FlagsInv, OutputIsPrefix, Agrees
  <2>3. output' \in Seq(Places)
    BY <1>1, <1>6 DEF ScratchType
  <2> QED BY <1>1, <1>2, <1>6, <2>1, <2>2, <2>3 DEF ScratchType
<1> QED BY <1>4, <1>5, <1>6

\* A fast cycle adds its move and keeps the invariant.
LEMMA FastCycleInv ==
  ASSUME SequenceInv, FastCycle
  PROVE  LET to == Move(cont.place, FastAim(Target(cont), settings), 1) IN
         /\ SequenceInv' /\ Agrees(Extended(cont, to), cont')
         /\ IF Len(cont.prefix) + 1 = Len(cont.targets) THEN cont'.complete
            ELSE cont'.active /\ ~cont'.complete
<1> DEFINE aim == FastAim(Target(cont), settings)
           to  == Move(cont.place, aim, 1)
           c   == Extended(cont, to)
<1>1. CallInv /\ ScratchType
  BY DEF SequenceInv
<1>2. running /\ cont.settings.mode = "fast" /\ Reached(FastPlan(aim)) = to
      /\ otg' = [at |-> to, aim |-> aim] /\ workPlace' = to /\ FastReturns(c)
      /\ drifted' \in BOOLEAN /\ best' = best /\ chosen' = chosen /\ failures' = failures
  BY FastCycleMoves DEF FastCycle, FastRunning, Drifts
<1>3. /\ aim \in Aims /\ to \in Places /\ work' \in Plans /\ work'.aim = aim
      /\ Solvable(work'.from, aim) /\ 1 <= work'.age
      /\ work'.age <= Len(cont.prefix) + 1 /\ to = Move(work'.from, aim, work'.age)
  BY FastCycleMoves
<1>4. /\ cont \in Continuations /\ Held(cont) /\ Len(cont.prefix) < Len(cont.targets)
      /\ cont.active /\ ~cont.complete /\ ~cont.interrupted
  BY <1>2, RunningCycle
<1>5. cont.search = Idle
  BY <1>2, <1>4 DEF Held
<1> HIDE DEF aim, to
<1>6. /\ c \in Continuations /\ c.place = to /\ c.prefix = Append(cont.prefix, to)
      /\ c.targets = cont.targets /\ c.settings = cont.settings /\ c.search = Idle
      /\ c.active /\ ~c.complete /\ ~c.interrupted
      /\ Len(c.prefix) = Len(cont.prefix) + 1 /\ Len(c.prefix) <= Len(c.targets)
  BY <1>3, <1>4, <1>5, ExtendedHeld
<1> HIDE DEF c
<1>7. Held(c)
  BY <1>6 DEF Held
<1> DEFINE d == [c EXCEPT !.status = "fast"]
           s == [c EXCEPT !.status = "fast", !.exhausted = TRUE]
<1>8. Held(d) /\ Agrees(c, d) /\ Held(s) /\ Agrees(c, s)
  BY <1>7, StatusHeld DEF Statuses
<1>9. \/ Remaining(c) = 0 /\ Return(Finished(d), "working") /\ output' = c.prefix
      \/ Remaining(c) # 0 /\ Return(Stopped(s), "working") /\ output' = c.prefix
      \/ Remaining(c) # 0 /\ GoOn(c) /\ output' \in {output, c.prefix}
  BY <1>2 DEF FastReturns
<1> HIDE DEF d, s
<1>10. /\ Held(cont') /\ Agrees(c, cont') /\ CallInv' /\ FlagsInv' /\ OutputIsPrefix'
       /\ output' \in Seq(Places) /\ result' \in {"none", "working", "failed", "refused"}
       /\ IF Len(c.prefix) = Len(c.targets) THEN cont'.complete
          ELSE cont'.active /\ ~cont'.complete
  BY <1>1, <1>2, <1>6, <1>7, <1>8, <1>9, Departs
<1>11. ScratchType'
  <2>1. otg' \in Memories
    BY <1>2, <1>3 DEF Memories
  <2> QED BY <1>1, <1>2, <1>3, <1>10, <2>1 DEF ScratchType
<1>12. FollowedPlan' /\ workPlace' = cont'.place
  BY <1>2, <1>3, <1>6, <1>10 DEF FollowedPlan, Agrees
<1>13. FastInv' /\ FinishInv' /\ BudgetInv'
  BY <1>6, <1>10, <1>12 DEF FastInv, FinishInv, BudgetInv, Agrees
<1> QED BY <1>6, <1>10, <1>11, <1>13 DEF SequenceInv, aim, to, c

\* One that fails leaves the prefix and is not active.
LEMMA FastFailsInv ==
  ASSUME SequenceInv, FastFails
  PROVE  SequenceInv' /\ Agrees(cont, cont') /\ ~cont'.active /\ ~cont'.complete
<1> DEFINE d == [cont EXCEPT !.status = "error"]
<1>1. /\ running /\ Fail(d) /\ work' \in {work, NoPlan} /\ drifted' \in BOOLEAN
      /\ otg' = otg /\ workPlace' = workPlace /\ best' = best
      /\ cont.settings.mode = "fast"
  BY DEF FastFails, FastRunning, Drifts
<1>2. Held(cont) /\ ScratchType
  BY DEF SequenceInv
<1>3. Held(d) /\ Agrees(cont, d)
  BY <1>2, StatusHeld DEF Statuses
<1>4. d.search = Idle
  BY <1>1, <1>2, <1>3 DEF Held, Agrees
<1> HIDE DEF d
<1>5. SequenceInv' /\ cont' = Failed(d)
  BY <1>1, <1>2, <1>3, <1>4, FailInv DEF ScratchType
<1> QED BY <1>3, <1>5, FlagsHeld DEF Agrees

\* A cycle begins with a fresh search.
LEMMA BeginCycleInv ==
  ASSUME SequenceInv, BeginCycle
  PROVE  /\ SequenceInv' /\ Agrees([cont EXCEPT !.search = Fresh], cont')
         /\ cont'.search = Fresh /\ cont'.active /\ ~cont'.complete
<1> DEFINE c == [cont EXCEPT !.search = Fresh]
<1>1. /\ running /\ cont.settings.mode = "optimized" /\ cont.search = Idle
      /\ ~Unsearchable(Cycle(cont)) /\ GoOn(c) /\ workPlace' = cont.place /\ otg' = NoPlan
      /\ UNCHANGED <<work, best, output, chosen, drifted, failures>>
  BY DEF BeginCycle, OptimizedRunning
<1>2. /\ Held(cont) /\ Cycle(cont) \in Cycles /\ Len(cont.prefix) < Len(cont.targets)
      /\ cont.active /\ ~cont.complete /\ ~cont.interrupted /\ cont.place \in Places
      /\ cont.settings \in Settings
  BY <1>1, RunningCycle
<1>3. Sound(Cycle(cont), Fresh)
  BY <1>2, FreshSound
<1>4. /\ Held(c) /\ c.search = Fresh /\ Cycle(c) = Cycle(cont)
      /\ c.place = cont.place /\ c.prefix = cont.prefix /\ c.targets = cont.targets
      /\ c.settings = cont.settings
      /\ c.active /\ ~c.interrupted /\ ~c.complete
  BY <1>1, <1>2, <1>3, SearchedHeld
<1> HIDE DEF c
<1>5. CallInv' /\ cont' = c /\ result' = result /\ running' = TRUE
  BY <1>1, GoOnInv DEF SequenceInv
<1>6. ScratchType'
  BY <1>1, <1>2, <1>5 DEF SequenceInv, ScratchType
<1>7. FlagsInv' /\ FastInv' /\ OutputIsPrefix'
  BY <1>1, <1>2, <1>4, <1>5 DEF FlagsInv, FastInv, OutputIsPrefix
<1>8. FinishInv' /\ BudgetInv'
  <2>1. Fresh.phase = "fast" /\ Fresh.count = 0 /\ Fresh.valid = 0 /\ Fresh.rejected = 0
    BY DEF Fresh
  <2>2. Cycle(cont).settings.max \in Nat
    BY <1>2 DEF Cycles, Settings
  <2>3. Thrifty(Cycle(cont), Fresh)
    BY <2>1, <2>2 DEF Thrifty
  <2> QED BY <1>4, <1>5, <2>1, <2>3 DEF FinishInv, BudgetInv
<1> QED BY <1>4, <1>5, <1>6, <1>7, <1>8 DEF SequenceInv, Agrees, c

\* One that cannot begin is not active.
LEMMA BeginFailsInv ==
  ASSUME SequenceInv, BeginFails
  PROVE  SequenceInv' /\ Agrees(cont, cont') /\ ~cont'.active /\ ~cont'.complete
<1> DEFINE d == [cont EXCEPT !.status = "error"]
<1>1. /\ running /\ cont.search = Idle /\ Fail(d)
      /\ work' = work /\ best' = best /\ drifted' = drifted
      /\ workPlace' \in {workPlace, cont.place} /\ otg' \in {otg, NoPlan}
  BY DEF BeginFails, OptimizedRunning
<1>2. Held(cont) /\ ScratchType /\ cont.place \in Places
  BY <1>1, RunningCycle DEF SequenceInv
<1>3. Held(d) /\ Agrees(cont, d)
  BY <1>2, StatusHeld DEF Statuses
<1>4. d.search = Idle
  BY <1>1, <1>3 DEF Agrees
<1> HIDE DEF d
<1>5. SequenceInv' /\ cont' = Failed(d)
  BY <1>1, <1>2, <1>3, <1>4, FailInv DEF ScratchType
<1> QED BY <1>3, <1>5, FlagsHeld DEF Agrees

\* The solver is left with the plan of the candidate, or with none.
LEMMA CalculatedType ==
  ASSUME SequenceInv, Searching
  PROVE  Calculated \in Plans \cup {NoPlan}
<1> DEFINE c == Cycle(cont)
           r == cont.search
           age == IF work = NoPlan THEN 0 ELSE work.age
<1>1. running /\ r # Idle /\ work \in Plans \cup {NoPlan}
  BY DEF Searching, OptimizedRunning, SequenceInv, ScratchType
<1>2. c \in Cycles /\ cont.place \in Places /\ Sound(c, r) /\ ~Unsearchable(c)
  BY <1>1, RunningCycle DEF Held
<1>3. Aim(c, r) \in Aims \cup {NoAim}
  BY <1>2, AimType DEF Sound
<1>4. age \in Nat
  BY <1>1 DEF Plans
<1> HIDE DEF age
<1>5. Aim(c, r) # NoAim => [from |-> cont.place, aim |-> Aim(c, r), age |-> age] \in Plans
  BY <1>2, <1>3, <1>4 DEF Plans
<1>6. \/ Calculated = work \/ Calculated = NoPlan
      \/ Aim(c, r) # NoAim /\ Calculated = [from |-> cont.place, aim |-> Aim(c, r), age |-> age]
  BY DEF Calculated, age
<1> QED BY <1>1, <1>5, <1>6

\* A candidate that was tried is in the search, and nothing else changed.
LEMMA TryCandidateInv ==
  ASSUME SequenceInv, TryCandidate
  PROVE  LET r == Tried(Cycle(cont), cont.search) IN
         /\ SequenceInv' /\ Agrees([cont EXCEPT !.search = r], cont')
         /\ cont'.search = r /\ cont'.active /\ ~cont'.complete
         /\ cont.search.phase # "fast" /\ cont.settings.strategy # "aggressive" =>
              r.best_score <= cont.search.best_score
<1> DEFINE r == Tried(Cycle(cont), cont.search)
           n == [cont EXCEPT !.search = r]
           s == [n EXCEPT !.stopped = TRUE]
<1>1. /\ running /\ cont.settings.mode = "optimized"
      /\ cont.search # Idle /\ cont.search.phase # "finish"
      /\ ~Fails(Cycle(cont), cont.search)
      /\ workPlace' = cont.place /\ best' = n.search.best /\ work' = Calculated
      /\ UNCHANGED <<otg, chosen, drifted, failures>> /\ Searching
  BY DEF TryCandidate, Searching, OptimizedRunning
<1>2. /\ Held(cont) /\ Cycle(cont) \in Cycles /\ Len(cont.prefix) < Len(cont.targets)
      /\ cont.active /\ ~cont.complete /\ ~cont.interrupted /\ cont.place \in Places
      /\ cont.settings \in Settings /\ cont \in Continuations
  BY <1>1, RunningCycle
<1>3. /\ Sound(Cycle(cont), cont.search) /\ ~Unsearchable(Cycle(cont))
      /\ Cycle(cont).settings = cont.settings
  BY <1>1, <1>2 DEF Held, Cycle
<1>4. /\ Sound(Cycle(cont), r) /\ r.phase # "fast"
      /\ cont.search.phase # "fast" /\ cont.settings.strategy # "aggressive" =>
           r.best_score <= cont.search.best_score
      /\ (cont.search.phase = "fast" => cont.search.count = 0)
         /\ Thrifty(Cycle(cont), cont.search) => Thrifty(Cycle(cont), r)
  BY <1>1, <1>2, <1>3, TriedSound
<1> HIDE DEF r
<1>5. /\ Held(n) /\ n.search = r /\ Cycle(n) = Cycle(cont)
      /\ n.place = cont.place /\ n.prefix = cont.prefix /\ n.targets = cont.targets
      /\ n.settings = cont.settings /\ n.optimized = cont.optimized
      /\ n.active /\ ~n.interrupted /\ ~n.complete
  BY <1>1, <1>2, <1>3, <1>4, SearchedHeld
<1>6. \/ GoOn(n) /\ output' = output
      \/ r.phase # "finish" /\ Return(Stopped(s), "working") /\ output' = cont.prefix
  BY <1>5 DEF TryCandidate, r
<1> HIDE DEF n
<1>7. Held(s) /\ Agrees(n, s)
  <2>1. n \in Continuations
    BY <1>5 DEF Held
  <2>2. s \in Continuations /\ Agrees(n, s)
    BY <2>1 DEF Continuations, Agrees
  <2> QED BY <1>5, <2>2, AgreesHeld
<1> HIDE DEF s
<1>8. /\ CallInv' /\ result' \in {result, "working"} /\ Held(cont') /\ Agrees(n, cont')
      /\ cont'.active /\ ~cont'.complete
      /\ cont'.interrupted => ~running'
      /\ r.phase = "finish" => running'
      /\ ~running' => output' = cont.prefix
      /\ output' \in {output, cont.prefix}
  <2>1. CASE GoOn(n) /\ output' = output
    <3>1. CallInv' /\ cont' = n /\ result' = result /\ running' = TRUE
      BY <1>1, <2>1, GoOnInv DEF SequenceInv
    <3> QED BY <1>5, <2>1, <3>1 DEF Agrees
  <2>2. CASE r.phase # "finish" /\ Return(Stopped(s), "working") /\ output' = cont.prefix
    <3>1. CallInv' /\ cont' = Stopped(s) /\ result' = "working" /\ running' = FALSE
      BY <1>1, <2>2, ReturnInv DEF SequenceInv
    <3> QED BY <1>7, <2>2, <3>1, FlagsHeld DEF Agrees
  <2> QED BY <1>6, <2>1, <2>2
<1>9. ScratchType'
  <2>1. best' \in Aims
    BY <1>1, <1>4, <1>5 DEF Sound, WorthIt
  <2>2. work' \in Plans \cup {NoPlan} /\ cont.prefix \in Seq(Places)
    BY <1>1, <1>2, CalculatedType DEF Continuations
  <2> QED BY <1>1, <1>2, <1>8, <2>1, <2>2 DEF SequenceInv, ScratchType
<1>10. FlagsInv' /\ FastInv' /\ OutputIsPrefix'
  BY <1>1, <1>2, <1>5, <1>8 DEF FlagsInv, FastInv, OutputIsPrefix, Agrees
<1>11. FinishInv'
  BY <1>1, <1>5, <1>8 DEF FinishInv, Agrees
<1>12. BudgetInv'
  <2>1. Cycle(cont') = Cycle(cont) /\ cont'.search = r
    BY <1>5, <1>8 DEF Agrees, Cycle
  <2> QED BY <1>1, <1>4, <2>1 DEF SequenceInv, BudgetInv
<1> QED BY <1>4, <1>5, <1>8, <1>9, <1>10, <1>11, <1>12 DEF SequenceInv, Agrees, n, r

\* One that fails leaves the search where it was, and is not active.
LEMMA CandidateFailsInv ==
  ASSUME SequenceInv, CandidateFails
  PROVE  LET r == Stuck(Cycle(cont), cont.search) IN
         /\ SequenceInv' /\ Agrees([cont EXCEPT !.search = r], cont')
         /\ cont'.search = r /\ ~cont'.active /\ ~cont'.complete
         /\ r.best_score = cont.search.best_score
<1> DEFINE r == Stuck(Cycle(cont), cont.search)
           n == [cont EXCEPT !.search = r]
<1>1. /\ running /\ cont.settings.mode = "optimized"
      /\ cont.search # Idle /\ cont.search.phase # "finish"
      /\ workPlace' = cont.place /\ best' = cont.search.best /\ work' = Calculated
      /\ UNCHANGED <<otg, drifted>> /\ Searching /\ Fail(n)
  BY DEF CandidateFails, Searching, OptimizedRunning
<1>2. /\ Held(cont) /\ Len(cont.prefix) < Len(cont.targets) /\ cont.place \in Places
      /\ ScratchType
  BY <1>1, RunningCycle DEF SequenceInv
<1>3. Sound(Cycle(cont), cont.search) /\ ~Unsearchable(Cycle(cont))
  BY <1>1, <1>2 DEF Held
<1>4. /\ Sound(Cycle(cont), r) /\ r.phase # "finish"
      /\ r.best_score = cont.search.best_score
  BY <1>1, <1>3, StuckSound
<1>5. best' \in Aims \cup {NoAim}
  BY <1>1, <1>3 DEF Sound, Searches
<1> HIDE DEF r
<1>6. Held(n) /\ n.search = r /\ r # Idle
  BY <1>1, <1>2, <1>3, <1>4, SearchedHeld, IdleAssumption DEF Sound
<1> HIDE DEF n
<1>7. SequenceInv' /\ cont' = Failed(n)
  BY <1>1, <1>2, <1>4, <1>5, <1>6, FailInv, CalculatedType DEF ScratchType
<1>8. Agrees(n, cont') /\ ~cont'.active /\ ~cont'.complete
  BY <1>6, <1>7, FlagsHeld
<1> QED BY <1>4, <1>6, <1>7, <1>8 DEF Agrees, n, r

\* A cycle that ends adds the best move and its counts.
LEMMA FinishCycleInv ==
  ASSUME SequenceInv, FinishCycle
  PROVE  LET to == Move(cont.place, cont.search.best, 1) IN
         /\ SequenceInv' /\ Agrees(Accumulated(Extended(cont, to)), cont')
         /\ cont'.search = Idle
         /\ IF Len(cont.prefix) + 1 = Len(cont.targets) THEN cont'.complete
            ELSE cont'.active /\ ~cont'.complete
<1> DEFINE aim  == cont.search.best
           to   == Move(cont.place, aim, 1)
           plan == [from |-> workPlace, aim |-> aim, age |-> 1]
           e    == Extended(cont, to)
           c    == Accumulated(e)
           d    == [c EXCEPT !.status = FinalStatus(c)]
           s    == [c EXCEPT !.status = "fast_fallback", !.exhausted = TRUE]
<1>1. /\ running /\ cont.settings.mode = "optimized"
      /\ cont.search # Idle /\ cont.search.phase = "finish"
      /\ best' = aim /\ work' = plan /\ otg' = [at |-> Reached(plan), aim |-> plan.aim]
      /\ UNCHANGED <<workPlace, chosen, drifted, failures>>
  BY DEF FinishCycle, OptimizedRunning
<1>2. /\ Held(cont) /\ Len(cont.prefix) < Len(cont.targets) /\ cont.place \in Places
      /\ cont.active /\ ~cont.complete /\ ~cont.interrupted /\ cont \in Continuations
      /\ CallInv /\ ScratchType
  BY <1>1, RunningCycle DEF SequenceInv
<1>3. aim \in Aims /\ Solvable(cont.place, aim)
  BY <1>1, <1>2 DEF Held, Sound, WorthIt, Cycle
<1>4. workPlace = cont.place /\ Reached(plan) = to
  BY <1>1 DEF SequenceInv, FinishInv, Reached
<1>5. to \in Places
  <2>1. 1 \in 1 .. Capacity
    BY SizeAssumption
  <2> QED BY <1>2, <1>3, <2>1, PlanAssumption
<1>6. plan \in Plans /\ otg' \in Memories /\ plan.aim = aim
  BY <1>1, <1>2, <1>3, <1>4, <1>5 DEF Plans, Memories
<1>7. output' = c.prefix /\ OptimizedReturns(c)
  BY <1>4 DEF FinishCycle
<1> HIDE DEF aim, to, plan
<1>8. /\ e \in Continuations /\ e.place = to /\ e.prefix = Append(cont.prefix, to)
      /\ e.targets = cont.targets /\ e.settings = cont.settings
      /\ e.active /\ ~e.complete /\ ~e.interrupted
      /\ Len(e.prefix) = Len(cont.prefix) + 1 /\ Len(e.prefix) <= Len(e.targets)
  BY <1>2, <1>5, ExtendedHeld
<1> HIDE DEF e
<1>9. /\ c \in Continuations /\ c.search = Idle
      /\ c.prefix = e.prefix /\ c.targets = e.targets /\ c.settings = e.settings
      /\ c.active /\ ~c.complete /\ ~c.interrupted
  BY <1>8, AccumulatedType
<1> HIDE DEF c
<1>10. Held(c)
  BY <1>8, <1>9 DEF Held
<1>11. Held(d) /\ Agrees(c, d) /\ Held(s) /\ Agrees(c, s)
  <2>1. FinalStatus(c) \in Statuses /\ "fast_fallback" \in Statuses
    BY DEF FinalStatus, Statuses
  <2> QED BY <1>10, <2>1, StatusHeld
<1>12. \/ Remaining(c) = 0 /\ Return(Finished(d), "working") /\ output' = c.prefix
       \/ Remaining(c) # 0 /\ Return(Stopped(s), "working") /\ output' = c.prefix
       \/ Remaining(c) # 0 /\ GoOn(c) /\ output' \in {output, c.prefix}
  BY <1>7 DEF OptimizedReturns
<1> HIDE DEF d, s
<1>13. /\ Held(cont') /\ Agrees(c, cont') /\ CallInv' /\ FlagsInv' /\ OutputIsPrefix'
       /\ output' \in Seq(Places) /\ result' \in {"none", "working", "failed", "refused"}
       /\ IF Len(c.prefix) = Len(c.targets) THEN cont'.complete
          ELSE cont'.active /\ ~cont'.complete
  BY <1>1, <1>2, <1>9, <1>10, <1>11, <1>12, Departs
<1>14. ScratchType'
  BY <1>1, <1>2, <1>3, <1>6, <1>13 DEF ScratchType
<1>15. cont'.search = Idle /\ cont'.settings = cont.settings
  BY <1>8, <1>9, <1>13 DEF Agrees
<1>16. FastInv' /\ FinishInv' /\ BudgetInv'
  BY <1>1, <1>15 DEF FastInv, FinishInv, BudgetInv
<1> QED BY <1>8, <1>9, <1>13, <1>14, <1>15, <1>16 DEF SequenceInv, aim, to, e, c

-----------------------------------------------------------------------------
(* The theorems.                                                           *)

\* Every step keeps the invariant.
LEMMA NextInv == SequenceInv /\ [Next]_vars => SequenceInv'
<1> SUFFICES ASSUME SequenceInv, [Next]_vars PROVE SequenceInv'
  OBVIOUS
<1>1. CASE Setters \/ OtherUse \/ StartRefused \/ ResumeComplete \/ Refuse \/ Reset
  BY <1>1, BetweenInv
<1>2. CASE StartInterruptible
  BY <1>2, StartInv
<1>3. CASE Resume
  BY <1>3, ResumeInv
<1>4. CASE FastCycle
  BY <1>4, FastCycleInv
<1>5. CASE FastFails
  BY <1>5, FastFailsInv
<1>6. CASE BeginCycle
  BY <1>6, BeginCycleInv
<1>7. CASE BeginFails
  BY <1>7, BeginFailsInv
<1>8. CASE TryCandidate
  BY <1>8, TryCandidateInv
<1>9. CASE CandidateFails
  BY <1>9, CandidateFailsInv
<1>10. CASE FinishCycle
  BY <1>10, FinishCycleInv
<1>11. CASE UNCHANGED vars
  BY <1>11 DEF vars, handle, SequenceInv, CallInv, FlagsInv, ScratchType, FastInv,
     FollowedPlan, FinishInv, BudgetInv, OutputIsPrefix
<1> QED BY <1>1, <1>2, <1>3, <1>4, <1>5, <1>6, <1>7, <1>8, <1>9, <1>10, <1>11
        DEF Next, Calls, Inside

\* The invariant holds throughout.
LEMMA SequenceInvariant == Spec => []SequenceInv
BY InitInv, NextInv, PTL DEF Spec

\* The fields of the handle and of the continuation keep their types, whatever
\* is called in whatever order.
THEOREM TypeCorrect == Spec => []TypeOK
<1>1. SequenceInv => TypeOK
  <2> SUFFICES ASSUME SequenceInv PROVE TypeOK
    OBVIOUS
  <2> QED BY DEF SequenceInv, CallInv, ScratchType, Held, Sound, TypeOK
<1> QED BY <1>1, SequenceInvariant, PTL

\* What the accessors of a continuation tell of it agrees with what it stores.
THEOREM AlwaysConsistent == Spec => []Consistent
<1>1. SequenceInv => Consistent
  <2> SUFFICES ASSUME SequenceInv PROVE Consistent
    OBVIOUS
  <2>1. /\ Held(cont) /\ cont \in Continuations /\ FlagsInv
        /\ Len(cont.prefix) <= Len(cont.targets)
    BY DEF SequenceInv, Held
  <2>2. /\ Remaining(cont) > 0 <=> Len(cont.prefix) < Len(cont.targets)
        /\ Remaining(cont) = 0 <=> Len(cont.prefix) = Len(cont.targets)
    BY <2>1, ContinuationType
  <2> QED BY <2>1, <2>2 DEF Held, FlagsInv, Consistent
<1> QED BY <1>1, SequenceInvariant, PTL

\* A resumed sequence never leaves its settings in the handle.
THEOREM SettingsAlwaysRestored == Spec => []SettingsRestored
<1>1. SequenceInv => SettingsRestored
  BY DEF SequenceInv, CallInv, SettingsRestored
<1> QED BY <1>1, SequenceInvariant, PTL

\* What a call that worked hands over is what the continuation has stored.
THEOREM OutputAlwaysPrefix == Spec => []OutputIsPrefix
<1>1. SequenceInv => OutputIsPrefix
  BY DEF SequenceInv
<1> QED BY <1>1, SequenceInvariant, PTL

\* The aim that is stored as the best of a cycle can be reached and is worth the
\* score that is stored with it, after any number of interruptions.
THEOREM BestAlwaysWorthItsScore == Spec => []BestIsWorthItsScore
<1>1. SequenceInv => BestIsWorthItsScore
  BY DEF SequenceInv, Held, Sound, WorthIt, BestIsWorthItsScore
<1> QED BY <1>1, SequenceInvariant, PTL

\* A cycle that is cut into many calls tries no more candidates than one that
\* is not, and accounts for each.
THEOREM AlwaysWithinBudget == Spec => []WithinBudget
<1>1. SequenceInv => WithinBudget
  BY DEF SequenceInv, BudgetInv, Thrifty, Cycle, WithinBudget
<1> QED BY <1>1, SequenceInvariant, PTL

\* Without near ties the best candidate of a cycle never gets worse, however the
\* cycle is cut into calls.
THEOREM NeverGetsWorse == Spec => NeverWorse
<1> DEFINE Goal ==
      cont.search # Idle /\ cont'.search # Idle
      /\ cont.search.phase # "fast" /\ cont'.search.phase # "fast"
      /\ cont.settings.strategy # "aggressive"
      => cont'.search.best_score <= cont.search.best_score
<1>1. SequenceInv /\ [Next]_vars => Goal
  <2> SUFFICES ASSUME SequenceInv, [Next]_vars,
                      cont.search # Idle, cont'.search # Idle,
                      cont.search.phase # "fast", cont.settings.strategy # "aggressive"
               PROVE  cont'.search.best_score <= cont.search.best_score
    OBVIOUS
  <2>1. Held(cont) /\ cont \in Continuations /\ settings \in Settings
    BY DEF SequenceInv, Held, CallInv
  <2>2. cont.settings.mode = "optimized" /\ cont.search.best_score \in Nat
    BY <2>1 DEF Held, Sound, Searches
  <2>3. CASE cont'.search = cont.search
    BY <2>2, <2>3
  <2>4. CASE Setters \/ OtherUse \/ ResumeComplete \/ Refuse \/ UNCHANGED vars
    BY <2>3, <2>4 DEF Setters, SetMode, SetOptimizedStrategy, SetReactiveness,
       SetLookAheadCycles, SetMaxOptimizedCandidates, Choose, OtherUse,
       ResumeComplete, Refuse, vars
  <2>5. CASE StartRefused \/ Reset
    BY <2>1, <2>5, ClearedHeld DEF StartRefused, Reset
  <2>6. CASE StartInterruptible
    <3>1. PICK q \in Requests : Enter(Captured(q)) /\ drifted' = FALSE /\ failures' = 0
      BY <2>6 DEF StartInterruptible
    <3>2. Held(Captured(q)) /\ Remaining(Captured(q)) > 0 /\ Captured(q).search = Idle
      BY <2>1, CapturedHeld
    <3>3. Agrees(Captured(q), cont')
      BY <3>1, <3>2, EnterInv
    <3> QED BY <3>2, <3>3 DEF Agrees
  <2>7. CASE Resume
    <3>1. Agrees(cont, cont')
      BY <2>1, <2>7, EnterInv DEF Resume, SequenceInv, ScratchType
    <3> QED BY <2>3, <3>1 DEF Agrees
  <2>8. CASE FastCycle \/ FastFails
    BY <2>2, <2>8 DEF FastCycle, FastFails, FastRunning
  <2>9. CASE BeginCycle \/ BeginFails
    BY <2>9 DEF BeginCycle, BeginFails
  <2>10. CASE TryCandidate
    BY <2>10, TryCandidateInv
  <2>11. CASE CandidateFails
    BY <2>2, <2>11, CandidateFailsInv
  <2>12. CASE FinishCycle
    BY <2>12, FinishCycleInv
  <2> QED BY <2>4, <2>5, <2>6, <2>7, <2>8, <2>9, <2>10, <2>11, <2>12
          DEF Next, Calls, Inside
<1>2. SequenceInv /\ [Next]_vars => [Goal]_vars
  BY <1>1
<1> QED BY <1>2, SequenceInvariant, PTL DEF Spec, NeverWorse

-----------------------------------------------------------------------------
(* Refinement.                                                             *)

\* The uninterrupted calculation has the same candidates: the two copies of
\* TrackingCandidates say the same.
LEMMA SameSets ==
  /\ Complete!Settings = Settings /\ Complete!TargetSequences = TargetSequences
  /\ Complete!Searches = Searches /\ Complete!Fresh = Fresh
BY DEF Complete!Settings, Settings, Complete!Strategies, Strategies,
   Complete!TargetSequences, TargetSequences, Complete!Searches, Searches,
   Complete!Phases, Phases, Complete!Fresh, Fresh

\* The run sees the same window of targets as the continuation.
LEMMA SameWindow ==
  ASSUME NEW ts, NEW k, NEW s
  PROVE  Complete!Window(ts, k, s) = Window(ts, k, s)
BY DEF Complete!Window, Window, Complete!AtMost, AtMost

\* It goes through the same phases.
LEMMA SameWidth ==
  ASSUME NEW c, NEW phase
  PROVE  /\ Complete!Width(c, phase) = Width(c, phase)
         /\ Complete!NextPhase(c, phase) = NextPhase(c, phase)
BY DEF Complete!Width, Width, Complete!NextPhase, NextPhase

\* It looks as far ahead.
LEMMA SameHorizon ==
  ASSUME NEW c, NEW r
  PROVE  Complete!Horizon(c, r) = Horizon(c, r)
BY DEF Complete!Horizon, Horizon, Complete!LeadLag, LeadLag

\* It aims at the same state.
LEMMA SameAim ==
  ASSUME NEW c, NEW r
  PROVE  Complete!Aim(c, r) = Aim(c, r)
<1>1. Complete!Ahead(c, r) = Ahead(c, r)
  BY SameHorizon DEF Complete!Ahead, Ahead
<1>2. Complete!Last(c) = Last(c)
  BY DEF Complete!Last, Last
<1> QED BY <1>1, <1>2 DEF Complete!Aim, Aim

\* It gives the same score.
LEMMA SameScore ==
  ASSUME NEW c, NEW r
  PROVE  /\ Complete!Scored(c, r) <=> Scored(c, r)
         /\ Complete!Raw(c, r) = Raw(c, r) /\ Complete!Terminal(c, r) = Terminal(c, r)
         /\ Complete!Ratio(c) = Ratio(c) /\ (Complete!Spent(c, r) <=> Spent(c, r))
BY SameAim DEF Complete!Scored, Scored, Complete!Raw, Raw, Complete!Terminal, Terminal,
   Complete!Ratio, Ratio, Complete!Spent, Spent

\* It judges the same.
LEMMA SameVerdict ==
  ASSUME NEW c, NEW r
  PROVE  /\ Complete!Fails(c, r) <=> Fails(c, r)
         /\ Complete!Judged(c, r) = Judged(c, r)
<1>1. Complete!Beats(c, r) <=> Beats(c, r)
  BY SameScore DEF Complete!Beats, Beats
<1>2. Complete!NearTie(c, r) <=> NearTie(c, r)
  BY SameScore DEF Complete!NearTie, NearTie
<1>3. Complete!Baseline(c, r) = Baseline(c, r)
  <2>1. Baseline(c, r) = WithBaseline(r, Raw(c, r), Terminal(c, r), Aim(c, r),
                                      10000 * Raw(c, r))
    BY DEF Baseline, WithBaseline
  <2>2. Complete!Baseline(c, r) =
          WithBaseline(r, Complete!Raw(c, r), Complete!Terminal(c, r),
                       Complete!Aim(c, r), 10000 * Complete!Raw(c, r))
    BY DEF Complete!Baseline, WithBaseline
  <2> QED BY <2>1, <2>2, SameScore, SameAim
<1>4. Complete!Accepted(c, r) = Accepted(c, r)
  BY SameScore, SameAim, Zenon DEF Complete!Accepted, Accepted
<1>5. Complete!Fails(c, r) <=> Fails(c, r)
  BY SameScore, SameAim, Zenon DEF Complete!Fails, Fails
<1> QED BY <1>1, <1>2, <1>3, <1>4, <1>5 DEF Complete!Judged, Judged

\* It counts the same.
LEMMA SameCounted ==
  ASSUME NEW c, NEW r
  PROVE  Complete!Counted(c, r) = Counted(c, r) /\ Complete!Advanced(c, r) = Advanced(c, r)
<1>1. Complete!Counted(c, r) = Counted(c, r)
  BY SameScore, Zenon DEF Complete!Counted, Counted
<1>2. Complete!Advanced(c, r) = Advanced(c, r)
  BY SameWidth, Zenon DEF Complete!Advanced, Advanced
<1> QED BY <1>1, <1>2

\* It tries the same.
LEMMA SameTried ==
  ASSUME NEW c, NEW r
  PROVE  Complete!Tried(c, r) = Tried(c, r) /\ Complete!Stuck(c, r) = Stuck(c, r)
<1>1. Complete!Tried(c, r) = Tried(c, r)
  BY SameScore, SameVerdict, SameCounted, Zenon DEF Complete!Tried, Tried
<1>2. Complete!Stuck(c, r) = Stuck(c, r)
  BY SameAim, SameCounted, Zenon DEF Complete!Stuck, Stuck
<1> QED BY <1>1, <1>2

\* It refuses the same.
LEMMA SameRefusals ==
  ASSUME NEW c, NEW p, NEW a, NEW t, NEW s
  PROVE  /\ Complete!Unsearchable(c) <=> Unsearchable(c)
         /\ Complete!Unsolved(p, a) <=> Unsolved(p, a)
         /\ Complete!FastAim(t, s) = FastAim(t, s)
BY DEF Complete!Unsearchable, Unsearchable, Complete!Unsolved, Unsolved,
   Complete!FastAim, FastAim

\* The calculation that a continuation stands for.
StageOf(c) == IF c.complete THEN "complete" ELSE IF c.active THEN "running" ELSE "failed"

Run(s, ts, st, p, d, o, r) ==
  [stage |-> s, targets |-> ts, settings |-> st, place |-> p, done |-> d,
   optimized |-> o, search |-> r]

RunOf(c) ==
  Run(StageOf(c), c.targets, c.settings, c.place, c.prefix, c.optimized, c.search)

\* The record of a calculation, a field at a time.
LEMMA RunFields ==
  ASSUME NEW s, NEW ts, NEW st, NEW p, NEW d, NEW o, NEW r, NEW x
  PROVE  /\ Run(s, ts, st, p, d, o, r).stage = s /\ Run(s, ts, st, p, d, o, r).targets = ts
         /\ Run(s, ts, st, p, d, o, r).settings = st /\ Run(s, ts, st, p, d, o, r).place = p
         /\ Run(s, ts, st, p, d, o, r).done = d /\ Run(s, ts, st, p, d, o, r).optimized = o
         /\ Run(s, ts, st, p, d, o, r).search = r
         /\ [Run(s, ts, st, p, d, o, r) EXCEPT !.stage = x] = Run(x, ts, st, p, d, o, r)
         /\ [Run(s, ts, st, p, d, o, r) EXCEPT !.place = x] = Run(s, ts, st, x, d, o, r)
         /\ [Run(s, ts, st, p, d, o, r) EXCEPT !.done = x] = Run(s, ts, st, p, x, o, r)
         /\ [Run(s, ts, st, p, d, o, r) EXCEPT !.optimized = x] = Run(s, ts, st, p, d, x, r)
         /\ [Run(s, ts, st, p, d, o, r) EXCEPT !.search = x] = Run(s, ts, st, p, d, o, x)
<1>1. [Run(s, ts, st, p, d, o, r) EXCEPT !.stage = x] = Run(x, ts, st, p, d, o, r)
  BY DEF Run
<1>2. [Run(s, ts, st, p, d, o, r) EXCEPT !.place = x] = Run(s, ts, st, x, d, o, r)
  BY DEF Run
<1>3. [Run(s, ts, st, p, d, o, r) EXCEPT !.done = x] = Run(s, ts, st, p, x, o, r)
  BY DEF Run
<1>4. [Run(s, ts, st, p, d, o, r) EXCEPT !.optimized = x] = Run(s, ts, st, p, d, x, r)
  BY DEF Run
<1>5. [Run(s, ts, st, p, d, o, r) EXCEPT !.search = x] = Run(s, ts, st, p, d, o, x)
  BY DEF Run
<1> QED BY <1>1, <1>2, <1>3, <1>4, <1>5 DEF Run

WithTarget(q, to, d, r, s) ==
  [q EXCEPT !.place = to, !.done = d, !.search = r, !.stage = s]

\* A run that has one more target reached is a run.
LEMMA RunWithTarget ==
  ASSUME NEW s, NEW ts, NEW st, NEW p, NEW d, NEW o, NEW r,
         NEW to, NEW e, NEW i, NEW x
  PROVE  WithTarget(Run(s, ts, st, p, d, o, r), to, e, i, x) = Run(x, ts, st, to, e, o, i)
<1> DEFINE r0 == Run(s, ts, st, p, d, o, r)
           r1 == [r0 EXCEPT !.place = to]
           r2 == [r1 EXCEPT !.done = e]
           r3 == [r2 EXCEPT !.search = i]
           r4 == [r3 EXCEPT !.stage = x]
<1>1. r1 = Run(s, ts, st, to, d, o, r)
  BY DEF Run
<1> HIDE DEF r1
<1>2. r2 = Run(s, ts, st, to, e, o, r)
  BY <1>1 DEF Run
<1> HIDE DEF r2
<1>3. r3 = Run(s, ts, st, to, e, o, i)
  BY <1>2 DEF Run
<1> HIDE DEF r3
<1>4. r4 = Run(x, ts, st, to, e, o, i)
  BY <1>3 DEF Run
<1> QED BY <1>4 DEF r1, r2, r3, WithTarget

\* One more target is done.
LEMMA RunReached ==
  ASSUME NEW s, NEW ts, NEW st, NEW p, NEW d, NEW o, NEW r, NEW aim
  PROVE  Complete!Reached(Run(s, ts, st, p, d, o, r), aim) =
           Run(IF Len(d) + 1 = Len(ts) THEN "complete" ELSE s, ts, st,
               Move(p, aim, 1), Append(d, Move(p, aim, 1)), o, Idle)
<1> DEFINE r0 == Run(s, ts, st, p, d, o, r)
<1>1. /\ r0.place = p /\ r0.done = d /\ r0.targets = ts /\ r0.stage = s
  BY RunFields
<1> HIDE DEF r0
<1>2. Complete!Reached(r0, aim) =
        WithTarget(r0, Move(p, aim, 1), Append(d, Move(p, aim, 1)), Idle,
                   IF Len(d) + 1 = Len(ts) THEN "complete" ELSE s)
  BY <1>1 DEF Complete!Reached, WithTarget
<1> QED BY <1>2, RunWithTarget DEF r0

\* The run that was asked for, before and after a step.
LEMMA AskedRun ==
  /\ Asked = IF cont.targets = <<>> \/ drifted THEN NoRun ELSE RunOf(cont)
  /\ Asked' = IF cont'.targets = <<>> \/ drifted' THEN NoRun ELSE RunOf(cont')
BY DEF Asked, Stage, RunOf, StageOf, Run

\* It is at the same cycle of the same targets as the continuation.
LEMMA RunType ==
  ASSUME NEW c \in Continuations, c.targets # <<>>
  PROVE  /\ RunOf(c) # NoRun /\ Complete!Cycle(RunOf(c)) = Cycle(c)
         /\ RunOf(c).stage = StageOf(c) /\ RunOf(c).targets = c.targets
         /\ RunOf(c).settings = c.settings /\ RunOf(c).place = c.place
         /\ RunOf(c).done = c.prefix /\ RunOf(c).optimized = c.optimized
         /\ RunOf(c).search = c.search
<1>1. /\ c.targets \in TargetSequences /\ c.settings \in Settings /\ c.place \in Places
      /\ c.prefix \in Seq(Places) /\ c.optimized \in Nat /\ c.search \in Searches \cup {Idle}
  BY DEF Continuations
<1>2. StageOf(c) \in {"running", "failed", "complete"}
  BY DEF StageOf
<1>3. RunOf(c) \in Complete!Runs
  BY <1>1, <1>2, SameSets DEF RunOf, Run, Complete!Runs
<1>4. Complete!Cycle(RunOf(c)) = Cycle(c)
  BY SameWindow DEF Complete!Cycle, Cycle, RunOf, Run
<1> QED BY <1>3, <1>4, NoRunAssumption DEF RunOf, Run

\* While a calculation runs that has not drifted, it is the one under way.
LEMMA RunningRun ==
  ASSUME SequenceInv, running, ~drifted
  PROVE  /\ Asked = RunOf(cont) /\ Complete!Working /\ cont.targets # <<>>
         /\ cont \in Continuations /\ StageOf(cont) = "running"
         /\ Complete!Cycle(Asked) = Cycle(cont)
<1>1. /\ cont \in Continuations /\ cont.targets \in TargetSequences
      /\ Len(cont.targets) > 0 /\ cont.active /\ ~cont.complete
  BY RunningCycle
<1>2. cont.targets # <<>>
  BY <1>1
<1>3. StageOf(cont) = "running"
  BY <1>1 DEF StageOf
<1>4. Asked = RunOf(cont)
  BY <1>2, AskedRun
<1> QED BY <1>1, <1>2, <1>3, <1>4, RunType DEF Complete!Working

\* One more target: the record of the calculation changes as the
\* uninterrupted one's does.
LEMMA ReachedRun ==
  ASSUME NEW c \in Continuations, NEW d, NEW aim, c.targets # <<>>,
         StageOf(c) = "running", d.place = Move(c.place, aim, 1),
         d.prefix = Append(c.prefix, Move(c.place, aim, 1)), d.targets = c.targets,
         d.settings = c.settings, d.search = Idle,
         IF Len(c.prefix) + 1 = Len(c.targets) THEN d.complete
         ELSE d.active /\ ~d.complete
  PROVE  /\ RunOf(d) = [Complete!Reached(RunOf(c), aim) EXCEPT !.optimized = d.optimized]
         /\ d.optimized = c.optimized => RunOf(d) = Complete!Reached(RunOf(c), aim)
<1> DEFINE s == IF Len(c.prefix) + 1 = Len(c.targets) THEN "complete" ELSE "running"
           to == Move(c.place, aim, 1)
<1>1. StageOf(d) = s
  BY DEF StageOf
<1>2. Complete!Reached(RunOf(c), aim) =
        Run(s, c.targets, c.settings, to, Append(c.prefix, to), c.optimized, Idle)
  BY RunReached DEF RunOf
<1>3. RunOf(d) = Run(s, c.targets, c.settings, to, Append(c.prefix, to), d.optimized, Idle)
  BY <1>1 DEF RunOf
<1> HIDE DEF s, to
<1>4. ASSUME NEW ts, NEW st, NEW p, NEW e, NEW o, NEW i, NEW n
      PROVE  [Run(s, ts, st, p, e, o, i) EXCEPT !.optimized = n] = Run(s, ts, st, p, e, n, i)
  BY DEF Run
<1>5. [Complete!Reached(RunOf(c), aim) EXCEPT !.optimized = d.optimized] =
        Run(s, c.targets, c.settings, to, Append(c.prefix, to), d.optimized, Idle)
  BY <1>2, <1>4
<1> QED BY <1>2, <1>3, <1>5

\* A fast cycle is one of the run.
LEMMA FastCycleMaps ==
  ASSUME SequenceInv, FastCycle, ~drifted, ~drifted'
  PROVE  Complete!FastCycle
<1> DEFINE aim == FastAim(Target(cont), settings)
           to  == Move(cont.place, aim, 1)
<1>1. running /\ cont.settings.mode = "fast" /\ aim # NoAim /\ workPlace \notin VelocityPlaces
      /\ settings.reactiveness = cont.settings.reactiveness
      /\ settings.look_ahead = cont.settings.look_ahead
  BY DEF FastCycle, FastRunning, Drifts
<1>2. /\ Asked = RunOf(cont) /\ Complete!Working /\ cont.targets # <<>>
      /\ cont \in Continuations /\ StageOf(cont) = "running"
  BY <1>1, RunningRun
<1>3. FastAim(Target(cont), cont.settings) = aim
  BY <1>1 DEF FastAim
<1>4. /\ aim \in Aims /\ Solvable(cont.place, aim) /\ workPlace = cont.place /\ to \in Places
  BY FastCycleMoves
<1>5. /\ Agrees(Extended(cont, to), cont') /\ SequenceInv'
      /\ IF Len(cont.prefix) + 1 = Len(cont.targets) THEN cont'.complete
         ELSE cont'.active /\ ~cont'.complete
  BY FastCycleInv
<1> HIDE DEF aim
<1>6. /\ cont'.place = to /\ cont'.prefix = Append(cont.prefix, to)
      /\ cont'.targets = cont.targets /\ cont'.settings = cont.settings
      /\ cont'.search = Idle /\ cont'.optimized = cont.optimized
  <2>1. Len(cont.prefix) < Len(cont.targets) /\ Held(cont)
    BY <1>1, RunningCycle
  <2>2. cont.search = Idle
    BY <1>1, <2>1 DEF Held
  <2> QED BY <1>2, <1>4, <1>5, <2>1, <2>2, ExtendedHeld DEF Agrees
<1>7. RunOf(cont') = Complete!Reached(RunOf(cont), aim)
  BY <1>2, <1>5, <1>6, ReachedRun
<1>9. Asked' = Complete!Reached(Asked, aim)
  BY <1>2, <1>6, <1>7, AskedRun
<1>10. Complete!FastAim(Asked.targets[Len(Asked.done) + 1], Asked.settings) = aim
  BY <1>2, <1>3, RunType, SameRefusals DEF Target
<1>11. ~Complete!Unsolved(Asked.place, aim) /\ Asked.settings.mode = "fast"
  BY <1>1, <1>2, <1>4, AimAssumption, RunType, SameRefusals DEF Unsolved
<1> QED BY <1>2, <1>9, <1>10, <1>11 DEF Complete!FastCycle

\* A step inside of a cycle changes the stage and the search of the record.
LEMMA UpdatedRun ==
  ASSUME NEW c, NEW d, d.place = c.place, d.targets = c.targets,
         d.settings = c.settings, d.prefix = c.prefix, d.optimized = c.optimized
  PROVE  /\ d.search = c.search /\ StageOf(d) = StageOf(c) => RunOf(d) = RunOf(c)
         /\ d.search = c.search => RunOf(d) = [RunOf(c) EXCEPT !.stage = StageOf(d)]
         /\ StageOf(d) = StageOf(c) => RunOf(d) = [RunOf(c) EXCEPT !.search = d.search]
         /\ RunOf(d) = [RunOf(c) EXCEPT !.stage = StageOf(d), !.search = d.search]
<1>1. RunOf(d) = Run(StageOf(d), c.targets, c.settings, c.place, c.prefix, c.optimized,
                     d.search)
  BY DEF RunOf
<1>2. d.search = c.search => RunOf(d) = [RunOf(c) EXCEPT !.stage = StageOf(d)]
  BY <1>1, RunFields DEF RunOf
<1>3. StageOf(d) = StageOf(c) => RunOf(d) = [RunOf(c) EXCEPT !.search = d.search]
  BY <1>1, RunFields DEF RunOf
<1>4. RunOf(d) = [RunOf(c) EXCEPT !.stage = StageOf(d), !.search = d.search]
  <2> DEFINE q == [RunOf(c) EXCEPT !.stage = StageOf(d)]
  <2>1. q = Run(StageOf(d), c.targets, c.settings, c.place, c.prefix, c.optimized, c.search)
    BY RunFields DEF RunOf
  <2> HIDE DEF q
  <2>2. RunOf(d) = [q EXCEPT !.search = d.search]
    BY <1>1, <2>1, RunFields
  <2> QED BY <2>2 DEF q
<1>5. d.search = c.search /\ StageOf(d) = StageOf(c) => RunOf(d) = RunOf(c)
  BY <1>1 DEF RunOf
<1> QED BY <1>2, <1>3, <1>4, <1>5

\* So is one that fails.
LEMMA FastFailsMaps ==
  ASSUME SequenceInv, FastFails, ~drifted, ~drifted'
  PROVE  Complete!FastFails
<1> DEFINE aim == FastAim(Target(cont), settings)
<1>1. /\ running /\ cont.settings.mode = "fast"
      /\ \/ workPlace \in VelocityPlaces \/ aim = NoAim
         \/ ~Solvable(workPlace, aim)
      /\ settings.reactiveness = cont.settings.reactiveness
      /\ settings.look_ahead = cont.settings.look_ahead
  BY DEF FastFails, FastRunning, Drifts
<1>2. /\ Asked = RunOf(cont) /\ Complete!Working /\ cont.targets # <<>>
      /\ cont \in Continuations
  BY <1>1, RunningRun
<1>3. FastAim(Target(cont), cont.settings) = aim
  BY <1>1 DEF FastAim
<1>4. workPlace = cont.place
  BY <1>1 DEF SequenceInv, FastInv
<1>5. Agrees(cont, cont') /\ ~cont'.active /\ ~cont'.complete
  BY FastFailsInv
<1> HIDE DEF aim
<1>6. RunOf(cont') = [RunOf(cont) EXCEPT !.stage = "failed"] /\ cont'.targets # <<>>
  BY <1>2, <1>5, UpdatedRun DEF Agrees, StageOf
<1>7. Asked' = [Asked EXCEPT !.stage = "failed"]
  BY <1>2, <1>6, AskedRun
<1>8. Complete!FastAim(Asked.targets[Len(Asked.done) + 1], Asked.settings) = aim
  BY <1>2, <1>3, RunType, SameRefusals DEF Target
<1>9. Complete!Unsolved(Asked.place, aim) /\ Asked.settings.mode = "fast"
  BY <1>1, <1>2, <1>4, RunType, SameRefusals DEF Unsolved
<1> QED BY <1>2, <1>7, <1>8, <1>9 DEF Complete!FastFails

\* A cycle that begins is one of the run.
LEMMA BeginCycleMaps ==
  ASSUME SequenceInv, BeginCycle, ~drifted, ~drifted'
  PROVE  Complete!Begin
<1>1. /\ running /\ cont.settings.mode = "optimized" /\ cont.search = Idle
      /\ ~Unsearchable(Cycle(cont))
  BY DEF BeginCycle, OptimizedRunning
<1>2. /\ Asked = RunOf(cont) /\ Complete!Working /\ cont.targets # <<>>
      /\ cont \in Continuations /\ StageOf(cont) = "running"
      /\ Complete!Cycle(Asked) = Cycle(cont)
  BY <1>1, RunningRun
<1>3. /\ Agrees([cont EXCEPT !.search = Fresh], cont')
      /\ cont'.search = Fresh /\ cont'.active /\ ~cont'.complete
  BY BeginCycleInv
<1>4. /\ cont'.place = cont.place /\ cont'.targets = cont.targets
      /\ cont'.settings = cont.settings /\ cont'.prefix = cont.prefix
      /\ cont'.optimized = cont.optimized
  BY <1>2, <1>3 DEF Agrees, Continuations
<1>5. RunOf(cont') = [RunOf(cont) EXCEPT !.search = Fresh]
  BY <1>2, <1>3, <1>4, UpdatedRun DEF StageOf
<1>6. Asked' = [Asked EXCEPT !.search = Complete!Fresh]
  BY <1>2, <1>4, <1>5, AskedRun, SameSets
<1>7. /\ Asked.settings.mode = "optimized" /\ Asked.search = Idle
      /\ ~Complete!Unsearchable(Complete!Cycle(Asked))
  BY <1>1, <1>2, RunType, SameRefusals
<1> QED BY <1>2, <1>6, <1>7 DEF Complete!Begin

\* So is one that cannot.
LEMMA BeginFailsMaps ==
  ASSUME SequenceInv, BeginFails, ~drifted, ~drifted'
  PROVE  Complete!BeginFails
<1>1. /\ running /\ cont.settings.mode = "optimized" /\ cont.search = Idle
      /\ Unsearchable(Cycle(cont))
  BY DEF BeginFails, OptimizedRunning
<1>2. /\ Asked = RunOf(cont) /\ Complete!Working /\ cont.targets # <<>>
      /\ cont \in Continuations /\ Complete!Cycle(Asked) = Cycle(cont)
  BY <1>1, RunningRun
<1>3. Agrees(cont, cont') /\ ~cont'.active /\ ~cont'.complete
  BY BeginFailsInv
<1>4. RunOf(cont') = [RunOf(cont) EXCEPT !.stage = "failed"] /\ cont'.targets # <<>>
  BY <1>2, <1>3, UpdatedRun DEF Agrees, StageOf
<1>5. Asked' = [Asked EXCEPT !.stage = "failed"]
  BY <1>2, <1>4, AskedRun
<1>6. /\ Asked.settings.mode = "optimized" /\ Asked.search = Idle
      /\ Complete!Unsearchable(Complete!Cycle(Asked))
  BY <1>1, <1>2, RunType, SameRefusals
<1> QED BY <1>2, <1>5, <1>6 DEF Complete!BeginFails

\* A candidate that is tried is one of the run.
LEMMA TryCandidateMaps ==
  ASSUME SequenceInv, TryCandidate, ~drifted, ~drifted'
  PROVE  Complete!Try
<1> DEFINE r == Tried(Cycle(cont), cont.search)
<1>1. /\ running /\ cont.search # Idle /\ cont.search.phase # "finish"
      /\ ~Fails(Cycle(cont), cont.search)
  BY DEF TryCandidate, Searching, OptimizedRunning
<1>2. /\ Asked = RunOf(cont) /\ Complete!Working /\ cont.targets # <<>>
      /\ cont \in Continuations /\ StageOf(cont) = "running"
      /\ Complete!Cycle(Asked) = Cycle(cont)
  BY <1>1, RunningRun
<1>3. /\ Agrees([cont EXCEPT !.search = r], cont')
      /\ cont'.search = r /\ cont'.active /\ ~cont'.complete
  BY TryCandidateInv
<1> HIDE DEF r
<1>4. /\ cont'.place = cont.place /\ cont'.targets = cont.targets
      /\ cont'.settings = cont.settings /\ cont'.prefix = cont.prefix
      /\ cont'.optimized = cont.optimized
  BY <1>2, <1>3 DEF Agrees, Continuations
<1>5. RunOf(cont') = [RunOf(cont) EXCEPT !.search = r]
  BY <1>2, <1>3, <1>4, UpdatedRun DEF StageOf
<1>6. Asked.search = cont.search
  BY <1>2, RunType
<1>7. r = Complete!Tried(Complete!Cycle(Asked), Asked.search)
  BY <1>2, <1>6, SameTried DEF r
<1>8. Asked' = [Asked EXCEPT !.search = r]
  BY <1>2, <1>4, <1>5, AskedRun
<1>9. ~Complete!Fails(Complete!Cycle(Asked), Asked.search)
  BY <1>1, <1>2, <1>6, SameVerdict
<1> QED BY <1>1, <1>2, <1>6, <1>7, <1>8, <1>9 DEF Complete!Try

\* So is one that fails.
LEMMA CandidateFailsMaps ==
  ASSUME SequenceInv, CandidateFails, ~drifted, ~drifted'
  PROVE  Complete!TryFails
<1> DEFINE r == Stuck(Cycle(cont), cont.search)
<1>1. /\ running /\ cont.search # Idle /\ cont.search.phase # "finish"
      /\ Fails(Cycle(cont), cont.search)
  BY DEF CandidateFails, Searching, OptimizedRunning
<1>2. /\ Asked = RunOf(cont) /\ Complete!Working /\ cont.targets # <<>>
      /\ cont \in Continuations /\ Complete!Cycle(Asked) = Cycle(cont)
  BY <1>1, RunningRun
<1>3. /\ Agrees([cont EXCEPT !.search = r], cont')
      /\ cont'.search = r /\ ~cont'.active /\ ~cont'.complete
  BY CandidateFailsInv
<1> HIDE DEF r
<1>4. /\ cont'.place = cont.place /\ cont'.targets = cont.targets
      /\ cont'.settings = cont.settings /\ cont'.prefix = cont.prefix
      /\ cont'.optimized = cont.optimized
  BY <1>2, <1>3 DEF Agrees, Continuations
<1>5. RunOf(cont') = [RunOf(cont) EXCEPT !.stage = "failed", !.search = r]
  BY <1>3, <1>4, UpdatedRun DEF StageOf
<1>6. Asked.search = cont.search
  BY <1>2, RunType
<1>7. r = Complete!Stuck(Complete!Cycle(Asked), Asked.search)
  BY <1>2, <1>6, SameTried DEF r
<1>8. Asked' = [Asked EXCEPT !.stage = "failed", !.search = r]
  BY <1>2, <1>4, <1>5, AskedRun
<1>9. Complete!Fails(Complete!Cycle(Asked), Asked.search)
  BY <1>1, <1>2, <1>6, SameVerdict
<1> QED BY <1>1, <1>2, <1>6, <1>7, <1>8, <1>9 DEF Complete!TryFails

\* A cycle that ends is one of the run.
LEMMA FinishCycleMaps ==
  ASSUME SequenceInv, FinishCycle, ~drifted, ~drifted'
  PROVE  Complete!Finish
<1> DEFINE aim == cont.search.best
           to  == Move(cont.place, aim, 1)
           n   == IF cont.search.improved THEN cont.optimized + 1 ELSE cont.optimized
<1>1. /\ running /\ cont.search # Idle /\ cont.search.phase = "finish"
  BY DEF FinishCycle, OptimizedRunning
<1>2. /\ Asked = RunOf(cont) /\ Complete!Working /\ cont.targets # <<>>
      /\ cont \in Continuations /\ StageOf(cont) = "running"
  BY <1>1, RunningRun
<1>3. /\ Agrees(Accumulated(Extended(cont, to)), cont') /\ cont'.search = Idle
      /\ IF Len(cont.prefix) + 1 = Len(cont.targets) THEN cont'.complete
         ELSE cont'.active /\ ~cont'.complete
  BY FinishCycleInv
<1>4. to \in Places /\ Len(cont.prefix) < Len(cont.targets)
  <2>1. /\ Held(cont) /\ cont.place \in Places /\ Len(cont.prefix) < Len(cont.targets)
    BY <1>1, RunningCycle
  <2>2. aim \in Aims /\ Solvable(cont.place, aim)
    BY <1>1, <2>1 DEF Held, Sound, WorthIt, Cycle
  <2>3. 1 \in 1 .. Capacity
    BY SizeAssumption
  <2> QED BY <2>1, <2>2, <2>3, PlanAssumption
<1> HIDE DEF aim, to
<1>5. /\ cont'.place = to /\ cont'.prefix = Append(cont.prefix, to)
      /\ cont'.targets = cont.targets /\ cont'.settings = cont.settings
      /\ cont'.optimized = n
  <2> DEFINE e == Extended(cont, to)
  <2>1. /\ e \in Continuations /\ e.place = to /\ e.prefix = Append(cont.prefix, to)
        /\ e.targets = cont.targets /\ e.settings = cont.settings
        /\ e.search = cont.search /\ e.optimized = cont.optimized
    BY <1>2, <1>4, ExtendedHeld
  <2> HIDE DEF e
  <2>2. /\ Accumulated(e).place = e.place /\ Accumulated(e).prefix = e.prefix
        /\ Accumulated(e).targets = e.targets /\ Accumulated(e).settings = e.settings
        /\ Accumulated(e).optimized = n
    BY <2>1, AccumulatedType
  <2> HIDE DEF n
  <2>3. Agrees(Accumulated(e), cont')
    BY <1>3 DEF e
  <2> QED BY <2>1, <2>2, <2>3 DEF Agrees
<1>6. RunOf(cont') = [Complete!Reached(RunOf(cont), aim) EXCEPT !.optimized = n]
  <2> HIDE DEF n
  <2> QED BY <1>2, <1>3, <1>5, ReachedRun DEF to
<1>7. Asked.search = cont.search
  BY <1>2, RunType
<1>8. Complete!Reached(Asked, aim).optimized = cont.optimized
  BY <1>2, RunReached, RunFields DEF RunOf
<1>9. Asked' = [Complete!Reached(Asked, aim) EXCEPT
                  !.optimized = IF Asked.search.improved THEN @ + 1 ELSE @]
  <2>1. Asked' = [Complete!Reached(Asked, aim) EXCEPT !.optimized = n]
    BY <1>2, <1>5, <1>6, AskedRun
  <2> QED BY <1>7, <1>8, <2>1
<1> QED BY <1>1, <1>2, <1>7, <1>9 DEF Complete!Finish, aim

\* A step of a call is a step of the uninterrupted calculation, or forgets it.
LEMMA InsideMaps ==
  ASSUME SequenceInv, Inside
  PROVE  Complete!Next \/ Asked' = Asked
<1>1. running /\ drifted' \in BOOLEAN /\ (drifted => drifted')
  BY DEF Inside, FastCycle, FastFails, BeginCycle, BeginFails, TryCandidate,
     CandidateFails, FinishCycle, FastRunning, OptimizedRunning, Searching, Drifts,
     SequenceInv, ScratchType
<1>2. CASE drifted
  BY <1>1, <1>2, AskedRun
<1>3. CASE ~drifted /\ drifted'
  BY <1>3, AskedRun DEF Complete!Next, Complete!Forget
<1>4. CASE ~drifted /\ ~drifted'
  BY <1>4, FastCycleMaps, FastFailsMaps, BeginCycleMaps, BeginFailsMaps,
     TryCandidateMaps, CandidateFailsMaps, FinishCycleMaps DEF Inside, Complete!Next
<1> QED BY <1>1, <1>2, <1>3, <1>4

\* To start a sequence is to ask for a run.
LEMMA StartMaps ==
  ASSUME SequenceInv, StartInterruptible
  PROVE  Complete!Start
<1>1. PICK q \in Requests : Enter(Captured(q)) /\ drifted' = FALSE /\ failures' = 0
  BY DEF StartInterruptible
<1>2. cont \in Continuations /\ settings \in Settings
  BY DEF SequenceInv, Held, CallInv
<1>3. /\ Held(Captured(q)) /\ Remaining(Captured(q)) > 0
      /\ Captured(q).search = Idle /\ Captured(q).prefix = <<>>
      /\ Captured(q).place = q.place /\ Captured(q).targets = q.targets
      /\ Captured(q).settings = settings /\ Captured(q).optimized = 0
  BY <1>2, CapturedHeld
<1>4. SequenceInv' /\ Agrees(Captured(q), cont') /\ cont'.active /\ ~cont'.complete
  BY <1>1, <1>3, EnterInv
<1>5. q.place \in Places /\ q.targets \in TargetSequences /\ q.targets # <<>>
  <2>1. q.place \in Places /\ q.targets \in TargetSequences
    BY SequenceAssumption
  <2>2. Len(q.targets) \in Nat \ {0}
    BY <2>1, TargetsAreSeq, SizeAssumption
  <2> QED BY <2>1, <2>2
<1>6. RunOf(cont') = Run("running", q.targets, settings, q.place, <<>>, 0, Idle)
  BY <1>3, <1>4 DEF RunOf, StageOf, Agrees
<1>7. cont'.targets # <<>> /\ cont' \in Continuations
  BY <1>3, <1>4, <1>5 DEF Agrees, SequenceInv, Held
<1>8. Asked' = RunOf(cont')
  BY <1>1, <1>7, AskedRun
<1>9. Asked' # NoRun
  BY <1>7, <1>8, RunType
<1>10. Asked' = Complete!Begun(q.place, q.targets, settings)
  BY <1>6, <1>8 DEF Run, Complete!Begun
<1>11. Asked'.place = q.place /\ Asked'.targets = q.targets /\ Asked'.settings = settings
  BY <1>6, <1>8, RunFields
<1> QED BY <1>2, <1>5, <1>9, <1>10, <1>11, SameSets DEF Complete!Start

\* To resume is to try the run's failure again, or no step of it.
LEMMA ResumeMaps ==
  ASSUME SequenceInv, Resume
  PROVE  Complete!Retry \/ Asked' = Asked
<1>1. /\ Enter(cont) /\ drifted' = drifted /\ failures' = failures
      /\ cont.targets # <<>> /\ Remaining(cont) > 0
  BY DEF Resume
<1>2. Held(cont) /\ cont \in Continuations /\ ScratchType /\ FlagsInv
  BY DEF SequenceInv, Held
<1>3. Agrees(cont, cont') /\ cont'.active /\ ~cont'.complete
  BY <1>1, <1>2, EnterInv DEF ScratchType
<1>4. ~cont.complete
  BY <1>1, <1>2, ContinuationType DEF FlagsInv
<1>5. StageOf(cont') = "running" /\ StageOf(cont) \in {"running", "failed"}
  BY <1>3, <1>4 DEF StageOf
<1>6. /\ cont'.place = cont.place /\ cont'.targets = cont.targets
      /\ cont'.settings = cont.settings /\ cont'.prefix = cont.prefix
      /\ cont'.optimized = cont.optimized /\ cont'.search = cont.search
  BY <1>3 DEF Agrees
<1>7. /\ StageOf(cont') = StageOf(cont) => RunOf(cont') = RunOf(cont)
      /\ RunOf(cont') = [RunOf(cont) EXCEPT !.stage = StageOf(cont')]
  BY <1>6, UpdatedRun
<1>8. CASE drifted
  BY <1>1, <1>8, AskedRun
<1>9. CASE ~drifted /\ StageOf(cont) = "running"
  <2>1. RunOf(cont') = RunOf(cont)
    BY <1>5, <1>7, <1>9
  <2> QED BY <1>1, <1>3, <1>9, <2>1, AskedRun DEF Agrees
<1>10. CASE ~drifted /\ StageOf(cont) = "failed"
  <2>1. RunOf(cont') = [RunOf(cont) EXCEPT !.stage = "running"]
    BY <1>5, <1>7, <1>10
  <2>2. Asked = RunOf(cont) /\ Asked' = RunOf(cont')
    BY <1>1, <1>3, <1>10, AskedRun DEF Agrees
  <2>3. Asked # NoRun /\ Asked.stage = "failed"
    BY <1>1, <1>2, <1>10, <2>2, RunType
  <2> QED BY <2>1, <2>2, <2>3 DEF Complete!Retry
<1> QED BY <1>2, <1>5, <1>8, <1>9, <1>10 DEF ScratchType

\* A sequence that is interrupted and resumed, in calls between which anything
\* happens to the handle, is calculated as it is in one piece.
THEOREM UninterruptedRefinement == Spec => SameAsUninterrupted
<1>1. Init => Complete!Init
  BY DEF Init, Asked, Complete!Init
<1>2. SequenceInv /\ [Next]_vars => [Complete!Next]_(Asked)
  <2> SUFFICES ASSUME SequenceInv, [Next]_vars
               PROVE  Complete!Next \/ Asked' = Asked
    OBVIOUS
  <2>1. CASE Inside
    BY <2>1, InsideMaps
  <2>2. CASE StartInterruptible
    BY <2>2, StartMaps DEF Complete!Next
  <2>3. CASE Resume
    BY <2>3, ResumeMaps DEF Complete!Next
  <2>4. CASE StartRefused \/ Reset
    <3>1. cont \in Continuations
      BY DEF SequenceInv, Held
    <3>2. cont'.targets = <<>>
      BY <2>4, <3>1, ClearedHeld DEF StartRefused, Reset
    <3> QED BY <3>2, AskedRun DEF Complete!Next, Complete!Forget
  <2>5. CASE Setters \/ OtherUse \/ ResumeComplete \/ Refuse \/ UNCHANGED vars
    <3>1. cont' = cont /\ drifted' = drifted
      BY <2>5 DEF Setters, SetMode, SetOptimizedStrategy, SetReactiveness,
         SetLookAheadCycles, SetMaxOptimizedCandidates, Choose, OtherUse,
         ResumeComplete, Refuse, vars
    <3> QED BY <3>1, AskedRun
  <2> QED BY <2>1, <2>2, <2>3, <2>4, <2>5 DEF Next, Calls
<1> QED BY <1>1, <1>2, SequenceInvariant, PTL
        DEF Spec, SameAsUninterrupted, Complete!Spec

\* The continuation, its accessors and the caller's outputs always agree.
THEOREM ContinuationCoherentHolds == Spec => []ContinuationCoherent
BY TypeCorrect, AlwaysConsistent, OutputAlwaysPrefix, PTL
   DEF ContinuationCoherent

\* An interrupted cycle goes on with a best candidate that is worth the score
\* stored with it, and within the budget it was captured with.
THEOREM CycleResumableHolds == Spec => []CycleResumable
BY BestAlwaysWorthItsScore, AlwaysWithinBudget, PTL DEF CycleResumable
=============================================================================
