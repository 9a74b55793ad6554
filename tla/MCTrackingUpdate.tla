--------------------------- MODULE MCTrackingUpdate ---------------------------
(***************************************************************************)
(* A small instance: positions on a line, an axis that moves one position  *)
(* a cycle and does not go further than two.  Predictions beyond the     *)
(* last aim overflow.                                                      *)
(***************************************************************************)
EXTENDS TrackingUpdate

MCPlaces  == 0 .. 4 \cup {9}
Turning   == 9              \* under velocity control
MCAims    == 0 .. 4
Nowhere   == 9              \* a target that is not finite
Apart(x, y) == IF x < y THEN y - x ELSE x - y

MCPredict(t, h, r) ==
  IF t = Nowhere \/ t + (h * r) \div 2 > 4 THEN NoAim ELSE t + (h * r) \div 2

MCBlend(a, t, i) == ((3 - i) * a + (i + 1) * t) \div 4
MCDamp(t, i)     == t

MCSolvable(p, a) == Apart(p, a) <= 2
MCMove(p, a, n)  == IF a < p THEN p - AtMost(n, p - a) ELSE p + AtMost(n, a - p)

ErrorAt(p, a, w, i) == Apart(MCMove(p, a, i), w[i])

MCScore(p, a, w, s) ==
  LET weight == IF s = "aggressive" THEN 2 ELSE 1
      n      == Len(w) IN
  IF n = 1 THEN weight * ErrorAt(p, a, w, 1)
  ELSE ErrorAt(p, a, w, 1) + weight * ErrorAt(p, a, w, n)

MCTerminalError(p, a, w) == ErrorAt(p, a, w, Len(w)) * ErrorAt(p, a, w, Len(w))

MCSetting(m, s, n, k) ==
  [mode |-> m, strategy |-> s, reactiveness |-> 1, look_ahead |-> n, max |-> k]

MCHandleSettings ==
  {MCSetting("fast", "balanced", 2, 16), MCSetting("optimized", "balanced", 2, 16),
   MCSetting("optimized", "balanced", 2, 3)}

MCInput(p, b, ts) == [place |-> p, budget |-> b, targets |-> ts]

\* A Fast update goes on from 1 to 2 and on, cannot begin at 0 with target 2,
\* and an Optimized one cannot reach all its candidates from 3.
MCInputs ==
  {MCInput(1, "zero", <<1>>), MCInput(2, "none", <<1>>), MCInput(0, "positive", <<0, 2>>),
   MCInput(1, "none", <<0, Nowhere>>), MCInput(3, "positive", <<0>>), MCInput(0, "none", <<2>>),
   MCInput(Turning, "none", <<0>>), MCInput(4, "none", <<2>>)}

MCOtherMemories == {[at |-> 2, aim |-> 3]}
=============================================================================
