--------------------------- MODULE MoneyArithmetic ---------------------------
(***************************************************************************)
(* The arithmetic of package money on int64 minor units: Allocate,         *)
(* AllocateByRatios, Divide, Percentage and Sum.  The functions have no    *)
(* state of their own; a behaviour is one call of one of them.             *)
(*                                                                         *)
(* Divide, Percentage and AllocateByRatios convert to float64, multiply    *)
(* and divide there, and convert back.  A double is modelled by its value: *)
(* a multiple of a power of two, of either sign, with a significand below  *)
(* 2^53, to which the exact result of each operation is rounded, half to   *)
(* even.  No operation here leaves the range of a normal double: products  *)
(* stay below 2^127, quotients above 2^-64.                                *)
(*                                                                         *)
(* Results keep the currency of the amount; Sum refuses mixed currencies,  *)
(* so amounts stand for money of one currency.                             *)
(***************************************************************************)
EXTENDS Int64Arithmetic, Sequences, Functions
Seqs == INSTANCE SequencesExt

CONSTANTS
  Significand,  \* 2^53 in the program: doubles below it have digits to spare
  Beyond,       \* what int64() makes of a double above its range: the least
                \* int64 on amd64, the greatest on arm64
  Whole,        \* basis points of the whole: 10000 in the program
  Amounts,      \* amounts the functions are called on
  Parts,        \* arguments of Allocate
  Divisors,     \* arguments of Divide
  BasisPoints,  \* arguments of Percentage
  Ratios        \* arguments of AllocateByRatios: sequences

PowerOfTwo(p) == \A q \in 2 .. p : p % q = 0 => q % 2 = 0
ASSUME DoubleAssumption == /\ Significand \in 2 .. Int64Half - 1 /\ PowerOfTwo(Significand)
                           /\ Whole \in 1 .. Significand
                           /\ Beyond \in Int64
ASSUME ArgumentsAssumption == /\ Amounts \subseteq Int64
                              /\ Parts \cup Divisors \cup BasisPoints \subseteq Int
                              /\ Ratios \subseteq Seq(Int)

VARIABLES
  call,   \* the function called, with its arguments
  result  \* the amounts it returned

moneyVars == <<call, result>>

\* Go's division truncates towards zero, and its remainder has the dividend's sign.
Magnitude(n) == IF n < 0 THEN -n ELSE n
Sign(n) == IF n < 0 THEN -1 ELSE 1
Quo(n, d) == Sign(n) * Sign(d) * (Magnitude(n) \div Magnitude(d))
Rem(n, d) == n - d * Quo(n, d)

\* math.Round of n / d: half away from zero.
Round(n, d) ==
  Sign(n) * Sign(d) * ((2 * Magnitude(n) + Magnitude(d)) \div (2 * Magnitude(d)))

-----------------------------------------------------------------------------
(***************************************************************************)
(* float64.                                                                *)
(***************************************************************************)
\* The integer nearest to a / b, half to even.
RoundEven(a, b) ==
  IF 2 * (a % b) > b \/ (2 * (a % b) = b /\ (a \div b) % 2 = 1)
  THEN (a \div b) + 1 ELSE a \div b

\* The gap between doubles around a / b >= Significand, and the inverse of the
\* gap around a smaller a / b.
Gap(a, b) ==
  CHOOSE u \in 1 .. a :
    Significand * u * b <= 2 * a /\ a < Significand * u * b /\ PowerOfTwo(u)
InverseGap(a, b) ==
  CHOOSE v \in 1 .. Significand * b :
    Significand * b <= 2 * a * v /\ a * v < Significand * b /\ PowerOfTwo(v)

\* The double nearest to a / b >= Significand.
Large(a, b) == Gap(a, b) * RoundEven(a, Gap(a, b) * b)

\* float64(n), and the product of two doubles that are integers.
ToDouble(n) ==
  IF Magnitude(n) <= Significand THEN n ELSE Sign(n) * Large(Magnitude(n), 1)
Product(m, n) == ToDouble(ToDouble(m) * ToDouble(n))

\* math.Round of the quotient of two doubles that are integers.
TruncatedQuotient(n, d) ==
  LET a == Magnitude(n)
      b == Magnitude(d)
  IN  IF n = 0 THEN 0
      ELSE Sign(n) * Sign(d) *
           IF a >= Significand * b THEN Large(a, b)
           ELSE RoundEven(a * InverseGap(a, b), b) \div InverseGap(a, b)
RoundedQuotient(n, d) ==
  LET a == Magnitude(n)
      b == Magnitude(d)
  IN  IF n = 0 THEN 0
      ELSE Sign(n) * Sign(d) *
           IF a >= Significand * b THEN Large(a, b)
           ELSE Round(RoundEven(a * InverseGap(a, b), b), InverseGap(a, b))

\* int64 of a double that is an integer.
ToInt64(n) == IF n >= Int64Half THEN Beyond ELSE IF n < -Int64Half THEN -Int64Half ELSE n

\* What a call returns that returns no money: nil or a panic.
Nil == <<>>

-----------------------------------------------------------------------------
\* One unit of the remainder for each of the first parts; a negative remainder
\* is distributed to nobody.
WithoutRemainder(amount, parts) ==
  IF parts <= 0 THEN Nil ELSE [i \in 1 .. parts |-> Wrap(Quo(amount, parts))]
Allocate(amount, parts) ==
  LET base == Quo(amount, parts)
  IN  IF parts <= 0 THEN Nil
      ELSE [i \in 1 .. parts |-> Wrap(IF i <= Rem(amount, parts) THEN base + 1 ELSE base)]

Add(m, n) == Wrap(m + n)
Sum(amounts) == Seqs!FoldLeft(Add, 0, amounts)

\* What the rounded shares leave over, or exceed the amount by, goes to the first.
AllocateByRatios(amount, ratios) ==
  LET total == Sum(ratios)
      shares == [i \in DOMAIN ratios |->
                   ToInt64(RoundedQuotient(Product(amount, ratios[i]), ToDouble(total)))]
  IN  IF ratios = <<>> \/ total = 0 THEN Nil
      ELSE [shares EXCEPT ![1] = Add(@, Wrap(amount - Sum(shares)))]

Divide(amount, divisor) ==
  IF divisor = 0 THEN Nil
  ELSE <<ToInt64(RoundedQuotient(ToDouble(amount), ToDouble(divisor)))>>
Percentage(amount, basisPoints) ==
  <<ToInt64(RoundedQuotient(Product(amount, basisPoints), Whole))>>

-----------------------------------------------------------------------------
\* One call of one function.
NoCall == call = [name |-> "none"] /\ result = Nil

Returns(name, amount, argument, value) ==
  /\ call = [name |-> "none"]
  /\ call' = [name |-> name, amount |-> amount, argument |-> argument]
  /\ result' = value

Call ==
  \E n \in Amounts :
    \/ \E parts \in Parts : Returns("Allocate", n, parts, Allocate(n, parts))
    \/ \E ratios \in Ratios : Returns("AllocateByRatios", n, ratios, AllocateByRatios(n, ratios))
    \/ \E divisor \in Divisors : Returns("Divide", n, divisor, Divide(n, divisor))
    \/ \E points \in BasisPoints : Returns("Percentage", n, points, Percentage(n, points))

Calls == NoCall /\ [][Call]_moneyVars

-----------------------------------------------------------------------------
(***************************************************************************)
(* Properties.                                                             *)
(***************************************************************************)
\* The parts of an allocation add up to the amount, whatever digits the doubles
\* lose and whatever is cut off to 64 bits: the first share makes up for it.  An
\* equal allocation of a negative amount loses its remainder.
AllocationsAddUp ==
  result # Nil =>
    /\ call.name = "AllocateByRatios" => Sum(result) = call.amount
    /\ call.name = "Allocate" /\ call.amount >= 0 => Sum(result) = call.amount

\* Below half the significand the doubles have a digit to spare.
Precise(n) == 2 * Magnitude(n) < Significand
IsNearest(q, n, d) == 2 * Magnitude(q * d - n) <= Magnitude(d)

\* Every share is what the ratio makes of the amount, up to half a unit; only the
\* first share may be off by half a unit for each of the others.  So the first
\* share of a positive amount may be negative where its ratio is small.
SharesAreNear ==
  call.name = "AllocateByRatios" /\ result # Nil =>
    LET n == call.amount
        ratios == call.argument
        total == SumFunction(ratios)
    IN  /\ \A i \in DOMAIN ratios : Precise(n * ratios[i])
        /\ Magnitude(total) <= Significand /\ Len(ratios) <= Significand
        => /\ \A i \in DOMAIN ratios \ {1} : IsNearest(result[i], n * ratios[i], total)
           /\ 2 * Magnitude(result[1] * total - n * ratios[1])
                <= (Len(ratios) - 1) * Magnitude(total)

\* Quotients and percentages are the nearest integers, although they are rounded
\* twice, and rounding does not depend on the sign: what is charged and what is
\* given back agree.
QuotientsAreNearest ==
  LET n == call.amount
      d == call.argument
  IN  /\ call.name = "Divide" /\ result # Nil /\ Precise(n) /\ Magnitude(d) <= Significand
         => IsNearest(result[1], n, d) /\ result[1] = -Divide(-n, d)[1]
      /\ call.name = "Percentage" /\ Precise(n * d)
         => IsNearest(result[1], n * d, Whole) /\ result[1] = -Percentage(-n, d)[1]

\* Where the doubles have a digit to spare, in amounts times ratios or basis
\* points below 2^52, results are exact up to one rounding.
ResultsAreNearest == SharesAreNear /\ QuotientsAreNearest
=============================================================================
