---------------------------- MODULE FloatsProofs ----------------------------
(***************************************************************************)
(* Lemmas about rounding, for every set of floats with the assumed gaps.   *)
(***************************************************************************)
EXTENDS Floats, TLAPS

\* The quotient is in the range of the floats.
InRange(n, d) == n \div d \in Smallest..Largest

\* Every number of the range lies between two neighbouring floats.
LEMMA Neighbours ==
  ASSUME NEW k \in Smallest..Largest
  PROVE  /\ below[k] \in Float /\ above[k] \in Float
         /\ below[k] \in Nat /\ above[k] \in Nat
         /\ below[k] <= k /\ k < above[k]
         /\ \A h \in Float : h <= k => h <= below[k]
         /\ \A h \in Float : k < h => above[k] <= h
         /\ (above[k] - below[k]) * Mantissa <= 2 * below[k]
<1>1. k \in Int /\ Float \subseteq Nat
  BY FloatAssumption DEF Smallest
<1>2. PICK f \in Float, g \in Float :
        f <= k /\ k < g /\ Adjacent(f, g) /\ (g - f) * Mantissa <= 2 * f
  BY FloatAssumption
<1>3. /\ \A h \in Float : h <= k => h <= f
      /\ \A h \in Float : k < h => g <= h
  BY <1>1, <1>2 DEF Adjacent
<1>4. /\ below[k] \in Float /\ below[k] <= k
      /\ \A h \in Float : h <= k => h <= below[k]
  BY <1>2, <1>3 DEF below
<1>5. /\ above[k] \in Float /\ k < above[k]
      /\ \A h \in Float : k < h => above[k] <= h
  BY <1>2, <1>3 DEF above
<1>6. below[k] = f /\ above[k] = g
  <2>1. /\ below[k] \in Nat /\ above[k] \in Nat /\ f \in Nat /\ g \in Nat
    BY <1>1, <1>4, <1>5
  <2>2. below[k] <= f /\ f <= below[k]
    BY <1>2, <1>3, <1>4
  <2>3. above[k] <= g /\ g <= above[k]
    BY <1>2, <1>3, <1>5
  <2> QED
    BY <2>1, <2>2, <2>3
<1> QED
  BY <1>1, <1>2, <1>4, <1>5, <1>6

\* The remainder of a division, as products.
LEMMA Quotient ==
  ASSUME NEW n \in Nat, NEW d \in Nat \ {0}
  PROVE  /\ n \div d \in Nat
         /\ \A f \in Nat : f <= n \div d <=> f * d <= n
<1>1. n \div d \in Nat /\ (n \div d) * d <= n /\ n < (n \div d + 1) * d
  OBVIOUS
<1> DEFINE k == n \div d
<1> HIDE DEF k
<1>2. k \in Nat /\ k * d <= n /\ n < (k + 1) * d
  BY <1>1 DEF k
<1>3. ASSUME NEW f \in Nat, f <= k
      PROVE  f * d <= n
  <2>1. f * d <= k * d
    BY <1>2, <1>3
  <2> QED
    BY <1>2, <2>1
<1>4. ASSUME NEW f \in Nat, ~(f <= k)
      PROVE  ~(f * d <= n)
  <2>1. (k + 1) * d <= f * d
    BY <1>2, <1>4
  <2> QED
    BY <1>2, <2>1
<1> QED
  BY <1>2, <1>3, <1>4 DEF k

\* Rounding goes to one of the two neighbours, and never beyond their middle.
LEMMA RoundedNearest ==
  ASSUME NEW n \in Nat, NEW d \in Nat \ {0}, InRange(n, d)
  PROVE  LET lo == below[n \div d]
             hi == above[n \div d]
         IN  \/ rounded(n, d) = lo /\ 2 * n <= (lo + hi) * d
             \/ rounded(n, d) = hi /\ 2 * n >= (lo + hi) * d
<1>1. below[n \div d] \in Nat /\ above[n \div d] \in Nat
  BY Neighbours DEF InRange
<1> DEFINE lo == below[n \div d]
           hi == above[n \div d]
           middle == (lo + hi) * d
<1>2. lo \in Nat /\ hi \in Nat /\ middle \in Nat
  BY <1>1
<1>3. \/ rounded(n, d) = lo /\ (2 * n < middle \/ 2 * n = middle)
      \/ rounded(n, d) = hi /\ ~(2 * n < middle)
  BY DEF rounded
<1> HIDE DEF lo, hi, middle
<1>4. \/ rounded(n, d) = lo /\ 2 * n <= middle
      \/ rounded(n, d) = hi /\ 2 * n >= middle
  BY <1>2, <1>3
<1> QED
  BY <1>4 DEF lo, hi, middle

\* Rounding does not cross a float.
LEMMA RoundedBetween ==
  ASSUME NEW n \in Nat, NEW d \in Nat \ {0}, InRange(n, d)
  PROVE  /\ rounded(n, d) \in Float /\ rounded(n, d) \in Nat
         /\ \A f \in Float : f * d <= n => f <= rounded(n, d)
         /\ \A f \in Float : n <= f * d => rounded(n, d) <= f
<1> DEFINE k == n \div d
           lo == below[k]
           hi == above[k]
           r == rounded(n, d)
<1>1. /\ k \in Nat
      /\ \A f \in Nat : f <= k <=> f * d <= n
  BY Quotient
<1>2. /\ lo \in Float /\ hi \in Float /\ lo \in Nat /\ hi \in Nat
      /\ lo <= k /\ k < hi
      /\ \A h \in Float : h <= k => h <= lo
      /\ \A h \in Float : k < h => hi <= h
  BY Neighbours DEF InRange
<1>3. \/ r = lo /\ 2 * n <= (lo + hi) * d
      \/ r = hi /\ 2 * n >= (lo + hi) * d
  BY RoundedNearest
<1>4. Float \subseteq Nat
  BY FloatAssumption
<1> HIDE DEF k, lo, hi, r
<1>5. r \in Float /\ lo <= r /\ r <= hi
  BY <1>1, <1>2, <1>3
<1>6. ASSUME NEW f \in Float, f * d <= n
      PROVE  f <= r
  BY <1>1, <1>2, <1>4, <1>5, <1>6
<1>7. ASSUME NEW f \in Float, n <= f * d
      PROVE  r <= f
  <2>1. f \in Nat
    BY <1>4
  <2>2. CASE k < f
    BY <1>1, <1>2, <1>5, <2>1, <2>2
  <2>3. CASE f <= k
    <3>1. f * d = n /\ f <= lo
      BY <1>1, <1>2, <1>7, <2>1, <2>3
    <3>2. lo * d <= n
      BY <1>1, <1>2
    <3>3. CASE f < lo
      <4>1. f * d < lo * d
        BY <1>2, <2>1, <3>3
      <4> QED BY <1>2, <2>1, <3>1, <3>2, <4>1
    <3>4. CASE f = lo
      <4>1. (lo + hi) * d = lo * d + hi * d /\ lo * d < hi * d
        BY <1>1, <1>2
      <4>2. 2 * n < (lo + hi) * d
        BY <1>2, <3>1, <3>4, <4>1
      <4> QED BY <1>2, <1>3, <3>4, <4>2
    <3> QED BY <1>2, <2>1, <3>1, <3>3, <3>4
  <2> QED BY <1>1, <2>1, <2>2, <2>3
<1> QED
  BY <1>4, <1>5, <1>6, <1>7 DEF r

\* The error of rounding is at most a Mantissa-th, of the result when it went
\* down and of the quotient when it went up.
LEMMA RoundedClose ==
  ASSUME NEW n \in Nat, NEW d \in Nat \ {0}, InRange(n, d)
  PROVE  LET r == rounded(n, d)
         IN  /\ (n - r * d) * Mantissa <= r * d
             /\ (n - r * d) * Mantissa <= n
             /\ (r * d - n) * Mantissa <= n
<1> DEFINE k == n \div d
           lo == below[k]
           hi == above[k]
           r == rounded(n, d)
           M == Mantissa
<1>1. /\ lo \in Nat /\ hi \in Nat /\ lo <= k /\ ~(hi <= k)
      /\ (hi - lo) * M <= 2 * lo
  BY Neighbours, Quotient DEF InRange
<1>2. lo * d <= n /\ n < hi * d
  BY <1>1, Quotient
<1>3. \/ r = lo /\ 2 * n <= (lo + hi) * d
      \/ r = hi /\ 2 * n >= (lo + hi) * d
  BY RoundedNearest
<1>4. M \in Nat
  BY FloatAssumption
<1> HIDE DEF k, lo, hi, r, M
<1> DEFINE ld == lo * d
           hd == hi * d
<1>5. ld \in Nat /\ hd \in Nat /\ (lo + hi) * d = ld + hd
  BY <1>1
<1>6. (hd - ld) * M <= 2 * ld
  <2>1. ((hi - lo) * M) * d <= (2 * lo) * d
    BY <1>1, <1>4
  <2>2. ((hi - lo) * M) * d = (hd - ld) * M
    BY <1>1, <1>4
  <2>3. (2 * lo) * d = 2 * ld
    BY <1>1
  <2> QED
    BY <2>1, <2>2, <2>3
<1>7. ld <= n /\ n < hd
  BY <1>2
<1> HIDE DEF ld, hd
<1>8. CASE r = lo /\ 2 * n <= ld + hd
  <2>1. r * d = ld
    BY <1>8 DEF ld
  <2>2. (2 * (n - ld)) * M <= (hd - ld) * M
    <3>1. 2 * (n - ld) <= hd - ld
      BY <1>5, <1>8
    <3> QED
      BY <1>4, <1>5, <3>1
  <2>3. (2 * (n - ld)) * M = 2 * ((n - ld) * M)
    BY <1>4, <1>5
  <2>4. (n - ld) * M <= ld
    BY <1>4, <1>5, <1>6, <2>2, <2>3
  <2>5. (ld - n) * M <= 0
    BY <1>4, <1>5, <1>7
  <2> QED
    BY <1>4, <1>5, <1>7, <2>1, <2>4, <2>5 DEF r, M
<1>9. CASE r = hi /\ 2 * n >= ld + hd
  <2>1. r * d = hd
    BY <1>9 DEF hd
  <2>2. (2 * (hd - n)) * M <= (hd - ld) * M
    <3>1. 2 * (hd - n) <= hd - ld
      BY <1>5, <1>9
    <3> QED
      BY <1>4, <1>5, <3>1
  <2>3. (2 * (hd - n)) * M = 2 * ((hd - n) * M)
    BY <1>4, <1>5
  <2>4. (hd - n) * M <= ld
    BY <1>4, <1>5, <1>6, <2>2, <2>3
  <2>5. (n - hd) * M <= 0
    BY <1>4, <1>5, <1>7
  <2> QED
    BY <1>4, <1>5, <1>7, <2>1, <2>4, <2>5 DEF r, M
<1> QED
  BY <1>3, <1>5, <1>8, <1>9

\* A larger divisor never gives a larger quotient.
LEMMA RoundedFalls ==
  ASSUME NEW n \in Nat, NEW d \in Nat \ {0}, NEW e \in Nat \ {0}, d <= e,
         InRange(n, d), InRange(n, e)
  PROVE  rounded(n, e) <= rounded(n, d)
<1> DEFINE r == rounded(n, d)
           s == rounded(n, e)
           lo == below[n \div d]
           hi == above[n \div d]
<1>1. /\ r \in Float /\ s \in Float /\ r \in Nat /\ s \in Nat
      /\ \A f \in Float : f * d <= n => f <= r
      /\ \A f \in Float : n <= f * e => s <= f
  BY RoundedBetween
<1>2. SUFFICES ASSUME r < s
               PROVE  FALSE
  BY <1>1
<1>3. /\ lo \in Float /\ hi \in Float /\ lo \in Nat /\ hi \in Nat
      /\ lo <= n \div d /\ ~(hi <= n \div d)
      /\ \A h \in Float : h <= n \div d => h <= lo
      /\ \A h \in Float : n \div d < h => hi <= h
  BY Neighbours, Quotient DEF InRange
<1>4. lo * d <= n /\ n < hi * d
  BY <1>3, Quotient
<1>5. lo <= r
  BY <1>1, <1>3, <1>4
<1>6. hi * d <= hi * e
  BY <1>3
<1>7. s <= hi
  BY <1>1, <1>3, <1>4, <1>6
<1>8. \/ r = lo /\ 2 * n <= (lo + hi) * d
      \/ r = hi /\ 2 * n >= (lo + hi) * d
  BY RoundedNearest
<1>9. r = lo /\ 2 * n <= (lo + hi) * d
  BY <1>1, <1>2, <1>3, <1>7, <1>8
<1>10. s = hi
  <2>1. ~(s <= n \div d)
    BY <1>1, <1>2, <1>3, <1>9
  <2> QED BY <1>1, <1>3, <1>7, <2>1, Quotient
<1> DEFINE lo2 == below[n \div e]
           hi2 == above[n \div e]
<1>11. /\ lo2 \in Float /\ hi2 \in Float /\ lo2 \in Nat /\ hi2 \in Nat
       /\ lo2 <= n \div e /\ ~(hi2 <= n \div e)
       /\ \A h \in Float : h <= n \div e => h <= lo2
       /\ \A h \in Float : n \div e < h => hi2 <= h
  BY Neighbours, Quotient DEF InRange
<1>12. lo2 * e <= n /\ n < hi2 * e
  BY <1>11, Quotient
<1>13. \/ s = lo2 /\ 2 * n <= (lo2 + hi2) * e
       \/ s = hi2 /\ 2 * n >= (lo2 + hi2) * e
  BY RoundedNearest
<1> HIDE DEF r, s, lo, hi, lo2, hi2
<1>14. s # lo2
  <2>1. n < s * e
    <3>1. s * d <= s * e
      BY <1>1
    <3> QED BY <1>1, <1>3, <1>4, <1>10, <3>1
  <2> QED BY <1>1, <1>11, <1>12, <2>1
<1>15. s = hi2 /\ 2 * n >= (lo2 + hi2) * e
  BY <1>13, <1>14
<1>16. lo2 = lo
  <2>1. lo2 <= n \div d
    <3>1. lo2 * d <= lo2 * e
      BY <1>11
    <3> QED BY <1>11, <1>12, <3>1, Quotient
  <2>2. lo2 <= lo
    BY <1>3, <1>11, <2>1
  <2>3. lo <= n \div e
    <3>1. ~(n \div e < lo)
      <4>1. ~(hi2 <= lo)
        BY <1>1, <1>2, <1>9, <1>11, <1>15
      <4> QED BY <1>3, <1>11, <4>1
    <3> QED BY <1>3, <3>1, Quotient
  <2>4. lo <= lo2
    BY <1>3, <1>11, <2>3
  <2> QED BY <1>3, <1>11, <2>2, <2>4
<1>17. (lo + hi) * e <= 2 * n /\ 2 * n <= (lo + hi) * d
  BY <1>9, <1>10, <1>15, <1>16
<1>18. d = e
  <2>1. lo + hi \in Nat /\ lo + hi > 0
    BY <1>1, <1>2, <1>3, <1>9, <1>10
  <2>2. CASE d < e
    <3>1. (lo + hi) * d < (lo + hi) * e
      BY <2>1, <2>2
    <3> QED BY <1>17, <2>1, <3>1
  <2> QED BY <2>2
<1> QED
  BY <1>1, <1>2, <1>18 DEF r, s
=============================================================================
