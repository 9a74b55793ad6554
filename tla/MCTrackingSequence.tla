-------------------------- MODULE MCTrackingSequence --------------------------
(***************************************************************************)
(* A small instance: positions on a line, an axis that moves one position  *)
(* a cycle and does not go further than three, and targets that move one   *)
(* position a cycle.  Predictions beyond the last aim overflow.            *)
(***************************************************************************)
EXTENDS TrackingSequence

MCPlaces  == 0 .. 4 \cup {9}
Turning   == 9              \* under velocity control
MCAims    == 0 .. 4
Nowhere   == 9              \* a target that is not finite
Apart(x, y) == IF x < y THEN y - x ELSE x - y
Least(x, y) == IF x < y THEN x ELSE y

MCPredict(t, h, r) ==
  IF t = Nowhere \/ t + (h * r) \div 2 > 4 THEN NoAim ELSE t + (h * r) \div 2

MCBlend(a, t, i) == ((3 - i) * a + (i + 1) * t) \div 4
MCDamp(t, i)     == t

MCSolvable(p, a) == Apart(p, a) <= 3
MCMove(p, a, n)  == IF a < p THEN p - Least(n, p - a) ELSE p + Least(n, a - p)

ErrorAt(p, a, w, i) == Apart(MCMove(p, a, i), w[i])

MCScore(p, a, w, s) ==
  LET weight == IF s = "aggressive" THEN 2 ELSE 1
      n      == Len(w) IN
  IF n = 1 THEN weight * ErrorAt(p, a, w, 1)
  ELSE ErrorAt(p, a, w, 1) + weight * ErrorAt(p, a, w, n)

MCSetting(m, s, n, k) ==
  [mode |-> m, strategy |-> s, reactiveness |-> 1, look_ahead |-> n, max |-> k]

MCHandleSettings ==
  {MCSetting("fast", "balanced", 1, 16), MCSetting("fast", "balanced", 2, 16),
   MCSetting("optimized", "balanced", 2, 16), MCSetting("optimized", "aggressive", 2, 16),
   MCSetting("optimized", "aggressive", 2, 2)}

MCRequest(p, b, ts) == [place |-> p, budget |-> b, targets |-> ts]

MCRequests ==
  {MCRequest(0, "positive", <<0, 2>>), MCRequest(2, "zero", <<2, 0>>),
   MCRequest(0, "positive", <<0, Nowhere>>),
   MCRequest(0, "none", <<2, 2>>), MCRequest(Turning, "none", <<0>>),
   MCRequest(3, "positive", <<2>>)}

MCOtherPlans == {[from |-> 0, aim |-> 2, age |-> 1]}

MCTerminalError(p, a, w) == ErrorAt(p, a, w, Len(w)) * ErrorAt(p, a, w, Len(w))
=============================================================================
