----------------------------- MODULE Fractions ------------------------------
(***************************************************************************)
(* Fractions <<numerator, denominator>> in lowest terms, the denominator   *)
(* positive: the exact numbers the solvers are checked with.               *)
(***************************************************************************)
EXTENDS Integers, FiniteSets

Absolute(n) == IF n < 0 THEN -n ELSE n

RECURSIVE Divisor(_, _)
Divisor(m, n) == IF n = 0 THEN m ELSE Divisor(n, m % n)

Fraction(n, d) ==
  LET g == Divisor(Absolute(n), d) IN <<n \div g, d \div g>>

Zero == <<0, 1>>
One  == <<1, 1>>
Two  == <<2, 1>>

\* Common divisors are taken out first: TLC's numbers have 32 bits.
x \oplus y ==
  LET g == Divisor(x[2], y[2])
  IN  Fraction(x[1] * (y[2] \div g) + y[1] * (x[2] \div g), x[2] * (y[2] \div g))
Minus(x)    == <<-x[1], x[2]>>
x \ominus y == x \oplus Minus(y)
x \otimes y ==
  LET g == Divisor(Absolute(x[1]), y[2])
      h == Divisor(Absolute(y[1]), x[2])
  IN  <<(x[1] \div g) * (y[1] \div h), (x[2] \div h) * (y[2] \div g)>>
Inverted(y) == IF y[1] < 0 THEN <<-y[2], -y[1]>> ELSE <<y[2], y[1]>>
x \oslash y == x \otimes Inverted(y)
x \prec y ==
  LET g == Divisor(x[2], y[2])
  IN  x[1] * (y[2] \div g) < y[1] * (x[2] \div g)
x \preceq y == ~(y \prec x)

Square(x) == x \otimes x
Half(x)   == Fraction(x[1], 2 * x[2])

\* The whole part of the root, from a guess above it.
RECURSIVE WholeRoot(_, _)
WholeRoot(n, guess) ==
  LET closer == (guess + (n \div guess)) \div 2
  IN  IF guess <= closer THEN guess ELSE WholeRoot(n, closer)
RootOf(n) == IF n = 0 THEN 0 ELSE WholeRoot(n, n)

IsSquare(n) == 0 <= n /\ RootOf(n) * RootOf(n) = n
HasRoot(x) == IsSquare(x[1]) /\ IsSquare(x[2])
Root(x) == <<RootOf(x[1]), RootOf(x[2])>>
Roots(x) == IF HasRoot(x) THEN {Root(x)} ELSE {}
=============================================================================
