------------------------ MODULE TrackingCandidatesProofs ------------------------
(***************************************************************************)
(* Lemmas about the candidate search of TrackingCandidates, for all        *)
(* places, aims, targets and settings, every solver and every objective    *)
(* that meets the assumptions.  The proofs about the two callers of the    *)
(* search rest on them.                                                    *)
(***************************************************************************)
EXTENDS TrackingCandidates, SequenceTheorems, TLAPS

-----------------------------------------------------------------------------
(* Targets and windows.                                                    *)

\* A sequence of targets is one in the sense of the library.
LEMMA TargetsAreSeq ==
  ASSUME NEW ts \in TargetSequences
  PROVE  ts \in Seq(Targets) /\ Len(ts) \in 1 .. Capacity
<1>1. PICK n \in 1 .. Capacity : ts \in [1 .. n -> Targets]
  BY DEF TargetSequences
<1>2. n \in Nat
  BY <1>1, SizeAssumption
<1> QED BY <1>1, <1>2

\* A window is a sequence of at least one target.
LEMMA WindowsAreSeq ==
  ASSUME NEW w \in Windows
  PROVE  w \in Seq(Targets) /\ Len(w) \in 1 .. MaxLookAhead
<1>1. PICK n \in 1 .. MaxLookAhead : w \in [1 .. n -> Targets]
  BY DEF Windows
<1>2. n \in Nat
  BY <1>1, SizeAssumption
<1> QED BY <1>1, <1>2

\* While targets are left there is one to go for next, and a window to look at.
LEMMA WindowType ==
  ASSUME NEW ts \in TargetSequences, NEW k \in Nat, k < Len(ts), NEW s \in Settings
  PROVE  Window(ts, k, s) \in Windows /\ ts[k + 1] \in Targets
<1> DEFINE n == AtMost(Len(ts) - k, s.look_ahead)
<1>1. ts \in Seq(Targets) /\ Len(ts) \in Nat
  BY TargetsAreSeq, SizeAssumption
<1>2. s.look_ahead \in 1 .. MaxLookAhead /\ MaxLookAhead \in Nat
  BY SizeAssumption DEF Settings
<1>3. n \in 1 .. MaxLookAhead /\ n <= Len(ts) - k
  BY <1>1, <1>2 DEF AtMost
<1> HIDE DEF n
<1>4. \A i \in k + 1 .. k + n : ts[i] \in Targets
  BY <1>1, <1>3, ElementOfSeq
<1>5. k + 1 \in Int /\ k + n \in Int /\ k + 1 <= k + n /\ (k + n) - (k + 1) + 1 = n
  BY <1>1, <1>2, <1>3
<1>6. SubSeq(ts, k + 1, k + n) \in Seq(Targets) /\ Len(SubSeq(ts, k + 1, k + n)) = n
  BY <1>4, <1>5, SubSeqProperties
<1>7. SubSeq(ts, k + 1, k + n) \in [1 .. n -> Targets]
  BY <1>6, LenProperties
<1>8. Window(ts, k, s) \in Windows
  BY <1>3, <1>7 DEF Window, Windows, n
<1> QED BY <1>1, <1>4, <1>3, <1>8

-----------------------------------------------------------------------------
(* The search.                                                             *)

\* What a search that is being carried on may rely on: it is at a candidate of
\* its family, and what it calls the best is reachable and worth its score.
WorthIt(c, r) ==
  /\ r.best \in Aims /\ Solvable(c.place, r.best)
  /\ r.best_score = Score(c.place, r.best, c.window, c.settings.strategy)
                    * (IF r.improved THEN Ratio(c) ELSE 10000)

Sound(c, r) ==
  /\ r \in Searches
  /\ r.index < Width(c, r.phase)
  /\ r.phase = "fast" => ~r.improved
  /\ r.phase # "fast" => WorthIt(c, r)

\* A family has at least one candidate.
LEMMA WidthType ==
  ASSUME NEW c \in Cycles, NEW phase \in Phases
  PROVE  Width(c, phase) \in Nat \ {0}
<1>1. Len(c.window) \in Nat \ {0}
  BY WindowsAreSeq, SizeAssumption DEF Cycles
<1> QED BY <1>1 DEF Width, Phases

\* After a phase comes one with candidates, or the end.
LEMMA NextPhaseType ==
  ASSUME NEW c \in Cycles, NEW phase \in Phases
  PROVE  NextPhase(c, phase) \in Phases \ {"fast"}
BY DEF NextPhase, Phases

\* The prediction horizon is one that Predict is given.
LEMMA HorizonType ==
  ASSUME NEW c \in Cycles, NEW r \in Searches, r.index < Width(c, r.phase)
  PROVE  Horizon(c, r) \in 0 .. 2 * MaxLookAhead + 4
<1>1. Len(c.window) \in 1 .. MaxLookAhead /\ c.settings.look_ahead \in 1 .. MaxLookAhead
  BY WindowsAreSeq DEF Cycles, Settings
<1>2. MaxLookAhead \in Nat /\ r.index \in Nat /\ r.phase \in Phases
  BY SizeAssumption DEF Searches
<1>3. CASE r.phase = "horizon"
  <2>1. r.index < Len(c.window)
    BY <1>3 DEF Width
  <2> QED BY <1>1, <1>2, <1>3, <2>1 DEF Horizon
<1>4. CASE r.phase = "lead_lag"
  BY <1>1, <1>2, <1>4 DEF Horizon, LeadLag
<1>5. CASE r.phase \notin {"horizon", "lead_lag"}
  BY <1>1, <1>2, <1>5 DEF Horizon
<1> QED BY <1>3, <1>4, <1>5

\* A candidate is a target for the solver or has no finite target.
LEMMA AimType ==
  ASSUME NEW c \in Cycles, NEW r \in Searches, r.index < Width(c, r.phase),
         ~Unsearchable(c)
  PROVE  Aim(c, r) \in Aims \cup {NoAim}
<1>1. c.window \in Seq(Targets) /\ Len(c.window) \in 1 .. MaxLookAhead
  BY WindowsAreSeq DEF Cycles
<1>2. MaxLookAhead \in Nat /\ r.index \in Nat /\ c.settings.reactiveness \in Reactivenesses
  BY SizeAssumption DEF Searches, Cycles, Settings
<1>3. \A i \in 1 .. Len(c.window) : c.window[i] \in Targets \ NonFinite
  BY <1>1, <1>2, ElementOfSeq DEF Unsearchable
<1>4. 1 \in 1 .. Len(c.window) /\ Len(c.window) \in 1 .. Len(c.window)
  BY <1>1, <1>2
<1>5. Last(c) \in Targets \ NonFinite /\ c.window[1] \in Targets
  BY <1>3, <1>4 DEF Last
<1>6. Ahead(c, r) \in Aims \cup {NoAim}
  BY <1>2, <1>5, HorizonType, AimAssumption DEF Ahead
<1>7. CASE r.phase = "instantaneous"
  <2>1. r.index < Len(c.window)
    BY <1>7 DEF Width
  <2>2. r.index + 1 \in 1 .. Len(c.window)
    BY <1>1, <1>2, <2>1
  <2>3. c.window[r.index + 1] \in Targets /\ 0 \in 0 .. 2 * MaxLookAhead + 4
    BY <1>2, <1>3, <2>2
  <2>4. Predict(c.window[r.index + 1], 0, c.settings.reactiveness) \in Aims \cup {NoAim}
    BY <1>2, <2>3, AimAssumption
  <2> QED BY <1>7, <2>4 DEF Aim
<1>8. CASE r.phase = "terminal_blend"
  <2>1. r.index \in 0 .. 3
    BY <1>2, <1>8 DEF Width
  <2> QED BY <1>5, <1>6, <1>8, <2>1, AimAssumption DEF Aim
<1>9. CASE r.phase = "derivative_damped"
  <2>1. r.index \in 0 .. 3
    BY <1>2, <1>9 DEF Width
  <2> QED BY <1>5, <1>9, <2>1, AimAssumption DEF Aim
<1>10. CASE r.phase \notin {"instantaneous", "terminal_blend", "derivative_damped"}
  BY <1>6, <1>10 DEF Aim
<1> QED BY <1>7, <1>8, <1>9, <1>10

\* What is scored has a score and an error.
LEMMA ScoreType ==
  ASSUME NEW c \in Cycles, NEW r \in Searches, Aim(c, r) \in Aims, Scored(c, r)
  PROVE  Raw(c, r) \in Nat /\ Terminal(c, r) \in Nat
<1>1. c.place \in Places /\ c.window \in Windows /\ c.settings.strategy \in Strategies
  BY DEF Cycles, Settings
<1> QED BY <1>1, ScoreAssumption DEF Scored, Raw, Terminal

\* A search begins soundly.
LEMMA FreshSound ==
  ASSUME NEW c \in Cycles
  PROVE  Sound(c, Fresh)
<1>1. Fresh \in Searches
  BY DEF Fresh, Searches, Phases
<1>2. Width(c, "fast") = 1
  BY DEF Width
<1> QED BY <1>1, <1>2 DEF Fresh, Sound

\* Updates of a search of the right types make a search.
WithBaseline(r, n, e, a, k) ==
  [r EXCEPT !.fast = n, !.fast_terminal = e, !.best = a, !.best_score = k]

\* A search with a baseline is a search.
LEMMA BaselineType ==
  ASSUME NEW r \in Searches, NEW n \in Nat, NEW e \in Nat, NEW a \in Aims, NEW k \in Nat
  PROVE  WithBaseline(r, n, e, a, k) \in Searches
BY DEF Searches, WithBaseline

WithBest(r, a, k) == [r EXCEPT !.best = a, !.best_score = k, !.improved = TRUE]

\* A search with a new best candidate is a search.
LEMMA BestType ==
  ASSUME NEW r \in Searches, NEW a \in Aims, NEW k \in Nat
  PROVE  WithBest(r, a, k) \in Searches
BY DEF Searches, WithBest

\* A search that counted one more candidate is a search.
LEMMA CountsType ==
  ASSUME NEW r \in Searches, NEW n \in Nat, NEW k \in Nat
  PROVE  /\ [r EXCEPT !.count = n, !.valid = k] \in Searches
         /\ [r EXCEPT !.count = n, !.rejected = k] \in Searches
BY DEF Searches

\* The verdict on a scored candidate leaves the search where it is, with a best
\* candidate that is worth its score.
LEMMA JudgedSound ==
  ASSUME NEW c \in Cycles, NEW r, Sound(c, r), Aim(c, r) \in Aims, Scored(c, r)
  PROVE  /\ Judged(c, r) \in Searches /\ WorthIt(c, Judged(c, r))
         /\ Judged(c, r).index = r.index /\ Judged(c, r).phase = r.phase
         /\ Judged(c, r).count = r.count /\ Judged(c, r).valid = r.valid
         /\ Judged(c, r).rejected = r.rejected
         /\ r.phase # "fast" /\ c.settings.strategy # "aggressive" =>
              Judged(c, r).best_score <= r.best_score
<1>1. Raw(c, r) \in Nat /\ Terminal(c, r) \in Nat /\ r \in Searches
  BY ScoreType DEF Sound
<1>2. Ratio(c) \in Nat
  BY DEF Ratio
<1>3. Raw(c, r) = Score(c.place, Aim(c, r), c.window, c.settings.strategy) /\ Solvable(c.place, Aim(c, r))
  BY DEF Raw, Scored
<1>4. Raw(c, r) * Ratio(c) \in Nat /\ 10000 * Raw(c, r) \in Nat /\ Raw(c, r) * 10000 = 10000 * Raw(c, r)
  BY <1>1, <1>2
<1>5. CASE r.phase = "fast"
  <2>1. Judged(c, r) = Baseline(c, r)
    BY <1>5 DEF Judged
  <2>2. Baseline(c, r) \in Searches
    <3>1. Baseline(c, r) = WithBaseline(r, Raw(c, r), Terminal(c, r), Aim(c, r),
                                        10000 * Raw(c, r))
      BY Zenon DEF Baseline, WithBaseline
    <3> QED BY <1>1, <1>4, <3>1, BaselineType
  <2>3. /\ Baseline(c, r).best = Aim(c, r) /\ Baseline(c, r).best_score = Raw(c, r) * 10000
        /\ ~Baseline(c, r).improved
        /\ Baseline(c, r).index = r.index /\ Baseline(c, r).phase = r.phase
        /\ Baseline(c, r).count = r.count /\ Baseline(c, r).valid = r.valid
        /\ Baseline(c, r).rejected = r.rejected
    BY <1>1, <1>4, <1>5 DEF Baseline, Searches, Sound
  <2> QED BY <1>3, <1>5, <2>1, <2>2, <2>3 DEF WorthIt
<1>6. CASE r.phase # "fast" /\ (Beats(c, r) \/ NearTie(c, r))
  <2>1. Judged(c, r) = Accepted(c, r)
    BY <1>6 DEF Judged
  <2>2. Accepted(c, r) \in Searches
    <3>1. Accepted(c, r) = WithBest(r, Aim(c, r), Raw(c, r) * Ratio(c))
      BY Zenon DEF Accepted, WithBest
    <3> QED BY <1>1, <1>4, <3>1, BestType
  <2>3. /\ Accepted(c, r).best = Aim(c, r) /\ Accepted(c, r).best_score = Raw(c, r) * Ratio(c)
        /\ Accepted(c, r).improved
        /\ Accepted(c, r).index = r.index /\ Accepted(c, r).phase = r.phase
        /\ Accepted(c, r).count = r.count /\ Accepted(c, r).valid = r.valid
        /\ Accepted(c, r).rejected = r.rejected
    BY <1>1 DEF Accepted, Searches
  <2>4. c.settings.strategy # "aggressive" => Raw(c, r) * Ratio(c) < r.best_score
    BY <1>6 DEF Beats, NearTie
  <2>5. r.best_score \in Nat
    BY <1>1 DEF Searches
  <2>6. c.settings.strategy # "aggressive" => Raw(c, r) * Ratio(c) <= r.best_score
    BY <2>4, <2>5, <1>4
  <2> QED BY <1>3, <1>6, <2>1, <2>2, <2>3, <2>6 DEF WorthIt
<1>7. CASE r.phase # "fast" /\ ~(Beats(c, r) \/ NearTie(c, r))
  <2>1. Judged(c, r) = r
    BY <1>7 DEF Judged
  <2>2. r.best_score \in Nat
    BY <1>1 DEF Searches
  <2>3. WorthIt(c, r)
    BY <1>7 DEF Sound
  <2> QED BY <1>1, <2>1, <2>2, <2>3
<1> QED BY <1>5, <1>6, <1>7

\* Counting a candidate changes nothing else.
LEMMA CountedType ==
  ASSUME NEW c, NEW q \in Searches
  PROVE  /\ Counted(c, q) \in Searches
         /\ Counted(c, q).index = q.index /\ Counted(c, q).phase = q.phase
         /\ Counted(c, q).best = q.best /\ Counted(c, q).best_score = q.best_score
         /\ Counted(c, q).improved = q.improved
         /\ Counted(c, q).count = q.count + 1
         /\ q.count = q.valid + q.rejected =>
              Counted(c, q).count = Counted(c, q).valid + Counted(c, q).rejected
<1>1. q.count \in Nat /\ q.valid \in Nat /\ q.rejected \in Nat
  BY DEF Searches
<1>2. q.count + 1 \in Nat /\ q.valid + 1 \in Nat /\ q.rejected + 1 \in Nat
  BY <1>1
<1>3. CASE Scored(c, q)
  <2>1. [q EXCEPT !.count = @ + 1, !.valid = @ + 1] \in Searches
    BY <1>2, CountsType, Zenon
  <2>2. Counted(c, q) = [q EXCEPT !.count = @ + 1, !.valid = @ + 1]
    BY <1>3 DEF Counted
  <2> QED BY <1>1, <2>1, <2>2 DEF Searches
<1>4. CASE ~Scored(c, q)
  <2>1. [q EXCEPT !.count = @ + 1, !.rejected = @ + 1] \in Searches
    BY <1>2, CountsType, Zenon
  <2>2. Counted(c, q) = [q EXCEPT !.count = @ + 1, !.rejected = @ + 1]
    BY <1>4 DEF Counted
  <2> QED BY <1>1, <2>1, <2>2 DEF Searches
<1> QED BY <1>3, <1>4

\* The search moves on to a candidate of its family, or to the next family.
LEMMA AdvancedSound ==
  ASSUME NEW c \in Cycles, NEW r \in Searches, r.index < Width(c, r.phase), WorthIt(c, r),
         r.phase # "finish"
  PROVE  /\ Sound(c, Advanced(c, r))
         /\ Advanced(c, r).best_score = r.best_score
         /\ Advanced(c, r).count = r.count
         /\ Advanced(c, r).valid = r.valid /\ Advanced(c, r).rejected = r.rejected
         /\ Advanced(c, r).phase # "fast"
<1>1. r.phase \in Phases /\ r.index \in Nat
  BY DEF Searches
<1>2. Width(c, r.phase) \in Nat
  BY <1>1, WidthType
<1>3. CASE r.index + 1 < Width(c, r.phase)
  <2>1. Advanced(c, r) = [r EXCEPT !.index = @ + 1]
    BY <1>3 DEF Advanced
  <2>2. [r EXCEPT !.index = @ + 1] \in Searches
    BY DEF Searches
  <2>3. r.phase # "fast"
    BY <1>1, <1>3 DEF Width
  <2> QED BY <1>1, <1>3, <2>1, <2>2, <2>3 DEF Sound, WorthIt, Searches
<1>4. CASE ~(r.index + 1 < Width(c, r.phase))
  <2> DEFINE next == NextPhase(c, r.phase)
  <2>1. Advanced(c, r) = [r EXCEPT !.index = 0, !.phase = next]
    BY <1>4 DEF Advanced, Searches
  <2>2. next \in Phases \ {"fast"}
    BY <1>1, NextPhaseType
  <2>3. 0 < Width(c, next)
    BY <2>2, WidthType
  <2> HIDE DEF next
  <2>4. [r EXCEPT !.index = 0, !.phase = next] \in Searches
    BY <2>2 DEF Searches
  <2> QED BY <2>1, <2>2, <2>3, <2>4 DEF Sound, WorthIt, Searches
<1> QED BY <1>3, <1>4

\* The counters of a search agree with each other and with its budget.
Thrifty(c, r) == r.count <= c.settings.max /\ r.count = r.valid + r.rejected

\* A candidate that does not make the calculation fail leaves a sound search,
\* whose best candidate is no worse but by a near tie.
LEMMA TriedSound ==
  ASSUME NEW c \in Cycles, NEW r, Sound(c, r), ~Unsearchable(c), r.phase # "finish",
         ~Fails(c, r)
  PROVE  /\ Sound(c, Tried(c, r)) /\ Tried(c, r).phase # "fast"
         /\ r.phase # "fast" /\ c.settings.strategy # "aggressive" =>
              Tried(c, r).best_score <= r.best_score
         /\ (r.phase = "fast" => r.count = 0) /\ Thrifty(c, r) => Thrifty(c, Tried(c, r))
<1>1. r \in Searches /\ r.index < Width(c, r.phase) /\ r.best_score \in Nat
  BY DEF Sound, Searches
<1>2. c.settings.max \in Nat \ {0} /\ r.count \in Nat /\ r.count + 1 \in Nat
  BY <1>1 DEF Cycles, Settings, Searches
<1>3. CASE Spent(c, r)
  <2> DEFINE q == [r EXCEPT !.exhausted = TRUE]
  <2>1. q \in Searches
    BY <1>1 DEF Searches
  <2>2. /\ q.index = r.index /\ q.phase = r.phase /\ q.best = r.best
        /\ q.best_score = r.best_score /\ q.improved = r.improved
        /\ q.count = r.count /\ q.valid = r.valid /\ q.rejected = r.rejected
    BY <1>1 DEF Searches
  <2>3. Tried(c, r) = Advanced(c, q) /\ r.phase # "fast"
    BY <1>3 DEF Tried, Spent
  <2> HIDE DEF q
  <2>4. WorthIt(c, q) /\ q.index < Width(c, q.phase) /\ q.phase # "finish"
    BY <1>1, <2>2, <2>3 DEF Sound, WorthIt
  <2>5. /\ Sound(c, Advanced(c, q)) /\ Advanced(c, q).best_score = r.best_score
        /\ Advanced(c, q).count = r.count /\ Advanced(c, q).valid = r.valid
        /\ Advanced(c, q).rejected = r.rejected /\ Advanced(c, q).phase # "fast"
    BY <2>1, <2>2, <2>4, AdvancedSound
  <2> QED BY <1>1, <2>3, <2>5 DEF Thrifty
<1>4. CASE ~Spent(c, r)
  <2>1. Aim(c, r) \in Aims
    BY <1>1, <1>4, AimType DEF Fails
  <2>2. PICK q \in Searches :
          /\ Tried(c, r) = Advanced(c, Counted(c, q))
          /\ WorthIt(c, q)
          /\ q.index = r.index /\ q.phase = r.phase /\ q.count = r.count
          /\ q.valid = r.valid /\ q.rejected = r.rejected
          /\ r.phase # "fast" /\ c.settings.strategy # "aggressive" =>
               q.best_score <= r.best_score
    <3>1. CASE Scored(c, r)
      <4>1. Tried(c, r) = Advanced(c, Counted(c, Judged(c, r)))
        BY <1>4, <3>1 DEF Tried
      <4> QED BY <2>1, <3>1, <4>1, JudgedSound
    <3>2. CASE ~Scored(c, r)
      <4>1. Tried(c, r) = Advanced(c, Counted(c, r))
        BY <1>4, <3>2 DEF Tried
      <4>2. r.phase # "fast"
        BY <2>1, <3>2, AimAssumption DEF Fails
      <4>3. WorthIt(c, r) /\ r.best_score <= r.best_score
        BY <1>1, <4>2 DEF Sound
      <4> QED BY <1>1, <4>1, <4>3
    <3> QED BY <3>1, <3>2
  <2> DEFINE n == Counted(c, q)
  <2>3. /\ n \in Searches
        /\ n.index = r.index /\ n.phase = r.phase
        /\ n.best = q.best /\ n.best_score = q.best_score /\ n.improved = q.improved
        /\ n.count = r.count + 1
        /\ r.count = r.valid + r.rejected => n.count = n.valid + n.rejected
    BY <2>2, CountedType
  <2> HIDE DEF n
  <2>4. WorthIt(c, n) /\ n.index < Width(c, n.phase) /\ n.phase # "finish"
    BY <1>1, <2>2, <2>3 DEF WorthIt
  <2>5. /\ Sound(c, Advanced(c, n)) /\ Advanced(c, n).best_score = n.best_score
        /\ Advanced(c, n).count = n.count /\ Advanced(c, n).valid = n.valid
        /\ Advanced(c, n).rejected = n.rejected /\ Advanced(c, n).phase # "fast"
    BY <2>3, <2>4, AdvancedSound
  <2>6. Tried(c, r) = Advanced(c, n)
    BY <2>2 DEF n
  <2>7. r.count < c.settings.max \/ r.phase = "fast"
    BY <1>2, <1>4 DEF Spent
  <2>8. r.phase = "fast" /\ r.count = 0 => r.count + 1 <= c.settings.max
    BY <1>2
  <2>9. r.count < c.settings.max => r.count + 1 <= c.settings.max
    BY <1>2
  <2> QED BY <2>2, <2>3, <2>5, <2>6, <2>7, <2>8, <2>9 DEF Thrifty
<1> QED BY <1>3, <1>4

\* What a failed calculation leaves of its search is sound too.
LEMMA StuckSound ==
  ASSUME NEW c, NEW r, Sound(c, r)
  PROVE  Sound(c, Stuck(c, r)) /\ Stuck(c, r).phase = r.phase
         /\ Stuck(c, r).best_score = r.best_score
<1>1. r \in Searches
  BY DEF Sound
<1>2. CASE Aim(c, r) = NoAim
  BY <1>2 DEF Stuck
<1>3. CASE Aim(c, r) # NoAim
  <2>1. Stuck(c, r) = Counted(c, r)
    BY <1>3 DEF Stuck
  <2> QED BY <1>1, <2>1, CountedType DEF Sound, WorthIt
<1> QED BY <1>2, <1>3
=============================================================================
