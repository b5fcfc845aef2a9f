------------------------------- MODULE Floats -------------------------------
(***************************************************************************)
(* Python's float division, as far as the limiter and the registry can     *)
(* tell it from exact division: the quotient is the nearest float, which   *)
(* may miss the exact one by half the gap between two floats.              *)
(*                                                                         *)
(* Numbers are counted in a unit fine enough that every float met is a     *)
(* whole number, so a float is a natural number, and most natural numbers  *)
(* are not floats.  A double has 53 significant bits: neighbours in Float  *)
(* are then one apart from 2^52 to 2^53 and further apart above.           *)
(***************************************************************************)
EXTENDS Integers

CONSTANTS
  Float,      \* the whole numbers a float can hold
  Mantissa,   \* 2^53: the first number above which floats are not one apart
  Largest     \* the end of the range of floats

\* Below this number there are floats between the whole ones.
Smallest == Mantissa \div 2

\* No float lies between these two.
Adjacent(f, g) == f < g /\ \A h \in Float : h <= f \/ g <= h

\* Neighbouring floats are never closer than a Mantissa-th of the upper one, nor
\* further apart than two Mantissa-ths of the lower one; 2 * f is a float.
ASSUME FloatAssumption ==
  /\ Mantissa \in Nat \ {0} /\ Largest \in Nat
  /\ Float \subseteq Nat /\ Smallest \in Float
  /\ \A f, g \in Float : f < g => g <= (g - f) * Mantissa
  /\ \A k \in Smallest..Largest : \E f, g \in Float :
       f <= k /\ k < g /\ Adjacent(f, g) /\ (g - f) * Mantissa <= 2 * f
  /\ \A f \in Float : 2 * f <= Largest => 2 * f \in Float
  /\ \A f \in Float : Mantissa <= f /\ f <= Largest => f % 2 = 0 /\ f \div 2 \in Float

\* The last float up to k, and the first one after it.
below == [k \in Smallest..Largest |->
            CHOOSE f \in Float : f <= k /\ \A h \in Float : h <= k => h <= f]

above == [k \in Smallest..Largest |->
            CHOOSE g \in Float : k < g /\ \A h \in Float : k < h => g <= h]

\* The float that n / d becomes: the nearer of its neighbours, and the one with
\* the even last digit when both are equally near.
rounded(n, d) ==
  LET lo == below[n \div d]
      hi == above[n \div d]
      down == \/ 2 * n < (lo + hi) * d
              \/ 2 * n = (lo + hi) * d /\ (lo \div (hi - lo)) % 2 = 0
  IN  IF down THEN lo ELSE hi
=============================================================================
