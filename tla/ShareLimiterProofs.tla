------------------------- MODULE ShareLimiterProofs -------------------------
(***************************************************************************)
(* Proofs about the share limiter, for all connections, workers, settings, *)
(* network difficulties and lengths of the ring buffer.                    *)
(***************************************************************************)
EXTENDS ShareLimiter, FloatsProofs

-----------------------------------------------------------------------------
(* The ring buffer *)

\* The buffer has at least one place.
LEMMA BufferNotEmpty == BufferSize \in Nat /\ BufferSize > 0
<1>1. BufferSize \in Nat
  BY LimiterAssumption DEF BufferSize
<1>2. BufferSize # 0
  BY <1>1, LimiterAssumption, BufferAssumption
<1> QED
  BY <1>1, <1>2

\* Appending a gap to a buffer that does not raise keeps it a buffer of the gaps,
\* over the change of class and the first overwriting append.
LEMMA AppendHolds ==
  ASSUME NEW s \in Stats, NEW g \in Seq(Nat), NEW x \in Nat,
         RingHolds(s, g), ~append_raises(s)
  PROVE  /\ append(s, x) \in Stats
         /\ RingHolds(append(s, x), Append(g, x))
         /\ size(append(s, x)) > 0
         /\ append(s, x).last_rtc = s.last_rtc
<1> USE BufferNotEmpty
<1>1. /\ s.data \in Seq(Nat) /\ s.cur \in Nat /\ s.full \in BOOLEAN
      /\ s.float_cur \in BOOLEAN /\ s.last_rtc \in Int /\ s.last_ts \in Nat
  BY DEF Stats
<1>2. ~s.float_cur /\ s.data = g
  BY DEF RingHolds, append_raises
<1>3. Append(g, x) \in Seq(Nat)
  OBVIOUS
<1>4. \A data \in Seq(Nat), cur \in Nat, full \in BOOLEAN, float_cur \in BOOLEAN :
         [s EXCEPT !.data = data, !.cur = cur, !.full = full, !.float_cur = float_cur]
           \in Stats
  BY DEF Stats
<1>5. CASE ~s.full /\ Len(s.data) + 1 = BufferSize
  <2>1. append(s, x) = [s EXCEPT !.data = Append(g, x), !.cur = 0, !.full = TRUE,
                                 !.float_cur = FALSE]
    BY <1>2, <1>5 DEF append, append_growing, Stats
  <2>2. append(s, x) \in Stats
    BY <1>3, <1>4, <2>1
  <2>3. Len(Append(g, x)) = BufferSize
    BY <1>2, <1>5
  <2>4. RingHolds(append(s, x), Append(g, x))
    BY <2>1, <2>3 DEF RingHolds, Stats
  <2> QED
    BY <2>1, <2>2, <2>4 DEF size, Stats
<1>6. CASE ~s.full /\ Len(s.data) + 1 # BufferSize
  <2>1. append(s, x) = [s EXCEPT !.data = Append(g, x), !.cur = s.cur + 1,
                                 !.full = FALSE, !.float_cur = FALSE]
    BY <1>2, <1>6 DEF append, append_growing, Stats
  <2>2. append(s, x) \in Stats
    <3>1. s.cur + 1 \in Nat /\ FALSE \in BOOLEAN
      BY <1>1
    <3> QED
      BY <1>3, <1>4, <2>1, <3>1, Zenon
  <2>3. s.cur = Len(g) /\ Len(g) + 1 < BufferSize /\ Len(Append(g, x)) = Len(g) + 1
    BY <1>1, <1>2, <1>6 DEF RingHolds
  <2>4. RingHolds(append(s, x), Append(g, x))
    BY <2>1, <2>3 DEF RingHolds, Stats
  <2> QED
    BY <1>1, <2>1, <2>2, <2>4 DEF size, Stats
<1>7. CASE s.full
  <2>1. s.cur = 0 /\ Len(g) = BufferSize
    BY <1>2, <1>7 DEF RingHolds
  <2>2. append(s, x) = [s EXCEPT !.data = [g EXCEPT ![1] = x], !.cur = 1 % BufferSize,
                                 !.full = TRUE, !.float_cur = TRUE]
    <3>1. append(s, x) = [s EXCEPT !.data = [g EXCEPT ![1] = x],
                                   !.cur = 1 % BufferSize, !.float_cur = TRUE]
      BY <1>2, <1>7, <2>1 DEF append, append_full
    <3>2. s.full = TRUE
      BY <1>1, <1>7
    <3> QED
      BY <3>1, <3>2 DEF Stats
  <2>3. [g EXCEPT ![1] = x] \in Seq(Nat) /\ Len([g EXCEPT ![1] = x]) = BufferSize
    BY <2>1
  <2>4. 1 % BufferSize \in Nat
    OBVIOUS
  <2>5. append(s, x) \in Stats
    BY <1>4, <2>2, <2>3, <2>4
  <2>6. /\ Len(Append(g, x)) = BufferSize + 1
        /\ Append(g, x)[BufferSize + 1] = x
        /\ \A i \in 2..BufferSize : Append(g, x)[i] = g[i]
    BY <2>1
  <2>7. /\ append(s, x).full /\ append(s, x).float_cur
        /\ append(s, x).cur = 1 % BufferSize
        /\ append(s, x).data = [g EXCEPT ![1] = x]
        /\ append(s, x).last_rtc = s.last_rtc
    BY <2>2 DEF Stats
  <2>8. /\ [g EXCEPT ![1] = x][1] = x
        /\ \A i \in 2..BufferSize : [g EXCEPT ![1] = x][i] = g[i]
    BY <2>1
  <2>9. RingHolds(append(s, x), Append(g, x))
    BY <2>3, <2>6, <2>7, <2>8 DEF RingHolds
  <2> QED
    BY <2>5, <2>7, <2>9 DEF size
<1> QED
  BY <1>1, <1>5, <1>6, <1>7

\* What RingHolds says is what the property says.
LEMMA RingsHoldLatest ==
  ASSUME TypeOK, RingsHold
  PROVE  BufferHoldsLatestGaps
<1> SUFFICES ASSUME NEW w \in Worker, worker_stats[w] # NoStats
             PROVE  IF worker_stats[w].full
                    THEN /\ Len(worker_stats[w].data) = BufferSize
                         /\ worker_stats[w].cur = Len(gaps[w]) % BufferSize
                         /\ Len(gaps[w]) >= BufferSize
                         /\ \A i \in Len(gaps[w]) - BufferSize + 1..Len(gaps[w]) :
                              worker_stats[w].data[((i - 1) % BufferSize) + 1]
                                = gaps[w][i]
                    ELSE /\ worker_stats[w].data = gaps[w]
                         /\ worker_stats[w].cur = Len(gaps[w])
                         /\ Len(gaps[w]) < BufferSize
  BY DEF BufferHoldsLatestGaps
<1> USE BufferNotEmpty
<1>1. gaps[w] \in Seq(Nat) /\ RingHolds(worker_stats[w], gaps[w])
  BY DEF TypeOK, RingsHold
<1>2. \A k \in 0..BufferSize - 1 : k % BufferSize = k
  OBVIOUS
<1>3. BufferSize % BufferSize = 0 /\ (BufferSize + 1) % BufferSize = 1 % BufferSize
  OBVIOUS
<1>4. CASE ~worker_stats[w].full
  BY <1>1, <1>4 DEF RingHolds
<1>5. CASE worker_stats[w].full /\ ~worker_stats[w].float_cur
  <2>1. /\ worker_stats[w].data = gaps[w] /\ worker_stats[w].cur = 0
        /\ Len(gaps[w]) = BufferSize
    BY <1>1, <1>5 DEF RingHolds
  <2>2. \A i \in 1..BufferSize : ((i - 1) % BufferSize) + 1 = i
    BY <1>2
  <2>3. Len(gaps[w]) - BufferSize + 1 = 1 /\ Len(gaps[w]) % BufferSize = 0
    BY <1>3, <2>1
  <2>4. /\ Len(worker_stats[w].data) = BufferSize
        /\ worker_stats[w].cur = Len(gaps[w]) % BufferSize
        /\ Len(gaps[w]) >= BufferSize
    BY <2>1, <2>3
  <2>5. \A i \in Len(gaps[w]) - BufferSize + 1..Len(gaps[w]) :
          worker_stats[w].data[((i - 1) % BufferSize) + 1] = gaps[w][i]
    BY <2>1, <2>2, <2>3
  <2> QED
    BY <1>5, <2>4, <2>5
<1>6. CASE worker_stats[w].full /\ worker_stats[w].float_cur
  <2>1. /\ Len(gaps[w]) = BufferSize + 1 /\ Len(worker_stats[w].data) = BufferSize
        /\ worker_stats[w].cur = 1 % BufferSize
        /\ worker_stats[w].data[1] = gaps[w][BufferSize + 1]
        /\ \A i \in 2..BufferSize : worker_stats[w].data[i] = gaps[w][i]
    BY <1>1, <1>6 DEF RingHolds
  <2>2. \A i \in 2..BufferSize : ((i - 1) % BufferSize) + 1 = i
    BY <1>2
  <2>3. (((BufferSize + 1) - 1) % BufferSize) + 1 = 1
    BY <1>3
  <2>4. ASSUME NEW i \in 2..BufferSize + 1
        PROVE  worker_stats[w].data[((i - 1) % BufferSize) + 1] = gaps[w][i]
    <3>1. CASE i = BufferSize + 1
      BY <2>1, <2>3, <3>1
    <3>2. CASE i # BufferSize + 1
      BY <2>1, <2>2, <2>4, <3>2
    <3> QED
      BY <3>1, <3>2
  <2>5. Len(gaps[w]) - BufferSize + 1 = 2
    BY <2>1
  <2> QED
    BY <1>3, <1>6, <2>1, <2>4, <2>5
<1> QED
  BY <1>1, <1>4, <1>5, <1>6

-----------------------------------------------------------------------------
(* The statistics of a worker *)

\* A worker's entry, gaps and check time are replaced by others that belong
\* together.
LEMMA StatsStep ==
  ASSUME TypeOK, LimiterInv,
         NEW w \in Worker, NEW s \in Stats, NEW g \in Seq(Nat), NEW r \in Int,
         worker_stats' = [worker_stats EXCEPT ![w] = s],
         gaps' = [gaps EXCEPT ![w] = g],
         retargeted' = [retargeted EXCEPT ![w] = r],
         now' = now,
         s.last_ts <= now, r <= s.last_rtc, RingHolds(s, g)
  PROVE  /\ worker_stats' \in [Worker -> Stats \cup {NoStats}]
         /\ gaps' \in [Worker -> Seq(Nat)]
         /\ retargeted' \in [Worker -> Int]
         /\ TimesPast' /\ ChecksStamped' /\ RingsHold'
<1>1. /\ worker_stats' \in [Worker -> Stats \cup {NoStats}]
      /\ gaps' \in [Worker -> Seq(Nat)]
      /\ retargeted' \in [Worker -> Int]
  BY DEF TypeOK
<1>2. /\ worker_stats'[w] = s /\ gaps'[w] = g /\ retargeted'[w] = r
      /\ s # NoStats
  BY NoStatsAssumption DEF TypeOK
<1>3. ASSUME NEW v \in Worker, v # w
      PROVE  /\ worker_stats'[v] = worker_stats[v] /\ gaps'[v] = gaps[v]
             /\ retargeted'[v] = retargeted[v]
  BY <1>3 DEF TypeOK
<1>4. TimesPast'
  BY <1>2, <1>3 DEF LimiterInv, TimesPast
<1>5. ChecksStamped'
  BY <1>2, <1>3 DEF LimiterInv, ChecksStamped
<1>6. RingsHold'
  BY <1>2, <1>3 DEF LimiterInv, RingsHold
<1> QED
  BY <1>1, <1>4, <1>5, <1>6

\* Recording a share adds its gap to the buffer and leaves the time of the last
\* retarget check.
LEMMA Recorded ==
  ASSUME TypeOK, LimiterInv, NEW w \in Worker, CanRecord(w)
  PROVE  /\ recorded(w) \in Stats
         /\ recorded(w).last_ts = now
         /\ recorded(w).last_rtc = worker_stats[w].last_rtc
         /\ size(recorded(w)) > 0
         /\ Append(gaps[w], now - worker_stats[w].last_ts) \in Seq(Nat)
         /\ RingHolds(recorded(w), Append(gaps[w], now - worker_stats[w].last_ts))
<1> DEFINE s == worker_stats[w]
           x == now - s.last_ts
<1>1. s \in Stats /\ ~append_raises(s) /\ gaps[w] \in Seq(Nat) /\ now \in Nat
  BY DEF CanRecord, TypeOK
<1>2. x \in Nat
  BY <1>1 DEF CanRecord, LimiterInv, TimesPast, Stats
<1>3. RingHolds(s, gaps[w])
  BY DEF CanRecord, LimiterInv, RingsHold
<1>4. /\ append(s, x) \in Stats
      /\ RingHolds(append(s, x), Append(gaps[w], x))
      /\ size(append(s, x)) > 0
      /\ append(s, x).last_rtc = s.last_rtc
  BY <1>1, <1>2, <1>3, AppendHolds
<1>5. recorded(w) = [append(s, x) EXCEPT !.last_ts = now]
  BY DEF recorded
<1> HIDE DEF s, x
<1>6. /\ recorded(w) \in Stats /\ recorded(w).last_ts = now
      /\ recorded(w).last_rtc = append(s, x).last_rtc
      /\ recorded(w).data = append(s, x).data /\ recorded(w).cur = append(s, x).cur
      /\ recorded(w).full = append(s, x).full
      /\ recorded(w).float_cur = append(s, x).float_cur
  BY <1>1, <1>4, <1>5 DEF Stats
<1>7. size(recorded(w)) > 0
  BY <1>4, <1>6 DEF size
<1>8. RingHolds(recorded(w), Append(gaps[w], x))
  BY <1>4, <1>6 DEF RingHolds
<1>9. Append(gaps[w], x) \in Seq(Nat)
  BY <1>1, <1>2
<1> QED
  BY <1>4, <1>6, <1>7, <1>8, <1>9 DEF s, x

\* Stamping a retarget check leaves the buffer alone.
LEMMA StampHolds ==
  ASSUME NEW s \in Stats, NEW t \in Int, NEW r, r = [s EXCEPT !.last_rtc = t]
  PROVE  /\ r \in Stats /\ r.last_rtc = t /\ r.last_ts = s.last_ts
         /\ r.data = s.data /\ r.cur = s.cur /\ r.full = s.full
         /\ r.float_cur = s.float_cur
BY DEF Stats

\* An emptied buffer holds no gaps.
LEMMA ClearHolds ==
  ASSUME NEW s \in Stats
  PROVE  /\ clear(s) \in Stats /\ RingHolds(clear(s), <<>>)
         /\ clear(s).last_ts = s.last_ts /\ clear(s).last_rtc = s.last_rtc
<1>1. <<>> \in Seq(Nat) /\ Len(<<>>) = 0
  OBVIOUS
<1>2. clear(s) \in Stats
  BY <1>1 DEF clear, Stats
<1>3. /\ clear(s).data = <<>> /\ clear(s).cur = 0
      /\ clear(s).full = FALSE /\ clear(s).float_cur = FALSE
      /\ clear(s).last_ts = s.last_ts /\ clear(s).last_rtc = s.last_rtc
  BY DEF clear, Stats
<1>4. RingHolds(clear(s), <<>>)
  BY <1>1, <1>3, BufferNotEmpty DEF RingHolds
<1> QED
  BY <1>2, <1>3, <1>4

-----------------------------------------------------------------------------
(* The new difficulty *)

\* A common factor can be divided out.
LEMMA Cancel ==
  ASSUME NEW x \in Int, NEW y \in Int, NEW k \in Nat \ {0}, x * k <= y * k
  PROVE  x <= y
<1>1. SUFFICES ASSUME y + 1 <= x
               PROVE  FALSE
  OBVIOUS
<1>2. (y + 1) * k <= x * k
  BY <1>1
<1>3. (y + 1) * k = y * k + k
  OBVIOUS
<1> QED
  BY <1>2, <1>3

\* What the difficulties and bounds of the limiter are.
LEMMA Bounds ==
  /\ Float \subseteq Nat /\ One \in Nat \ {0} /\ Largest \in Nat /\ Smallest \in Nat
  /\ Mantissa \in Nat \ {0} /\ 2 * Smallest <= Mantissa /\ Mantissa <= 2 * Smallest + 1
  /\ above[VDIFF_MAX_TARGET] \in Nat
  /\ VDIFF_MIN_TARGET \in Float /\ VDIFF_MIN_TARGET <= VDIFF_MAX_TARGET
  /\ \A b \in NetworkDiff \cup {VDIFF_MAX_TARGET, VDIFF_MIN_TARGET} :
       b \in Float /\ b \in Nat /\ Smallest < b
  /\ VDIFF_MAX_TARGET <= Largest
<1>1. Float \subseteq Nat /\ Smallest \in Nat /\ Mantissa \in Nat \ {0} /\ Largest \in Nat
  BY FloatAssumption
<1>2. VDIFF_MAX_TARGET \in Smallest..Largest
  <2>1. /\ VDIFF_MAX_TARGET \in Float /\ Smallest < VDIFF_MAX_TARGET
        /\ VDIFF_MAX_TARGET <= Largest
    BY RoundingAssumption
  <2> QED BY <1>1, <2>1
<1>3. above[VDIFF_MAX_TARGET] \in Nat
  BY <1>2, Neighbours
<1> QED
  BY <1>1, <1>3, RoundingAssumption, LimiterAssumption DEF Smallest

\* The neighbours of a bound up to the maximum.
LEMMA BoundNeighbours ==
  ASSUME NEW b \in Float, Smallest < b, b <= VDIFF_MAX_TARGET
  PROVE  /\ b \in Nat /\ b \in Smallest..Largest /\ b - 1 \in Smallest..Largest
         /\ below[b - 1] \in Float /\ Smallest <= below[b - 1] /\ below[b - 1] < b
         /\ \A h \in Float : h < b => h <= below[b - 1]
         /\ above[b] \in Float /\ b < above[b]
         /\ \A h \in Float : b < h => above[b] <= h
         /\ above[b] <= above[VDIFF_MAX_TARGET] /\ above[b] <= Largest
<1>1. /\ b \in Nat /\ Smallest \in Nat /\ Largest \in Nat /\ Float \subseteq Nat
      /\ VDIFF_MAX_TARGET \in Nat /\ VDIFF_MAX_TARGET <= Largest
      /\ above[VDIFF_MAX_TARGET] \in Nat /\ VDIFF_MAX_TARGET \in Float
  BY Bounds
<1>2. b \in Smallest..Largest /\ b - 1 \in Smallest..Largest
  BY <1>1
<1>3. /\ below[b - 1] \in Float /\ below[b - 1] <= b - 1
      /\ \A h \in Float : h <= b - 1 => h <= below[b - 1]
  BY <1>2, Neighbours
<1>4. /\ above[b] \in Float /\ b < above[b]
      /\ \A h \in Float : b < h => above[b] <= h
  BY <1>2, Neighbours
<1>5. VDIFF_MAX_TARGET < above[VDIFF_MAX_TARGET]
  <2>1. VDIFF_MAX_TARGET \in Smallest..Largest
    BY <1>1
  <2> QED BY <2>1, Neighbours
<1>6. above[b] <= above[VDIFF_MAX_TARGET]
  <2>1. CASE b = VDIFF_MAX_TARGET
    BY <1>1, <2>1
  <2>2. CASE b < VDIFF_MAX_TARGET
    <3>1. above[b] <= VDIFF_MAX_TARGET
      BY <1>1, <1>4, <2>2
    <3>2. above[b] \in Nat
      BY <1>1, <1>4
    <3> QED BY <1>1, <1>5, <3>1, <3>2
  <2> QED BY <1>1, <2>1, <2>2
<1>7. above[b] <= Largest
  <2>1. above[VDIFF_MAX_TARGET] <= Largest /\ above[b] \in Nat
    BY <1>1, <1>4, RoundingAssumption
  <2> QED BY <1>1, <1>6, <2>1
<1>8. /\ Smallest <= below[b - 1] /\ below[b - 1] < b
      /\ \A h \in Float : h < b => h <= below[b - 1]
  <2>1. below[b - 1] \in Nat /\ Smallest \in Float
    BY <1>1, <1>3, FloatAssumption
  <2>2. \A h \in Float : h < b => h <= b - 1
    BY <1>1
  <2> QED BY <1>1, <1>3, <2>1, <2>2
<1> QED
  BY <1>1, <1>2, <1>3, <1>4, <1>6, <1>7, <1>8

\* Two roundings miss the bound by one float at most: the first one moves the
\* product by no more than the way to the next float, and the second one does not
\* cross that float.
LEMMA ScaledNear ==
  ASSUME NEW d \in Float, d > 0, NEW b \in Float, Smallest < b, b <= VDIFF_MAX_TARGET,
         Smallest * d <= b * One, b * One <= Largest * d
  PROVE  /\ scaled(d, b) \in Float
         /\ below[b - 1] <= scaled(d, b) /\ scaled(d, b) <= above[b]
<1> DEFINE n == b * One
           q == rounded(n, d)
           f == below[b - 1]
           g == above[b]
           M == Mantissa
<1>1. /\ One \in Nat \ {0} /\ Largest \in Nat /\ Smallest \in Nat /\ M \in Nat \ {0}
      /\ d \in Nat \ {0} /\ b \in Nat /\ Float \subseteq Nat
  BY Bounds
<1>2. /\ f \in Float /\ f \in Nat /\ Smallest <= f /\ f < b
      /\ g \in Float /\ g \in Nat /\ b < g /\ g <= Largest
  BY <1>1, BoundNeighbours
<1>3. b <= (b - f) * M /\ g <= (g - b) * M
  BY <1>2, FloatAssumption
<1>4. n \in Nat /\ n = b * One
  BY <1>1
<1>5. InRange(n, d)
  <2>1. Smallest <= n \div d
    BY <1>1, <1>4, Quotient
  <2>2. n \div d <= Largest
    <3>1. ~(Largest + 1 <= n \div d)
      <4>1. (Largest + 1) * d = Largest * d + d
        BY <1>1
      <4>2. Largest * d \in Nat /\ n <= Largest * d
        BY <1>1
      <4>3. ~((Largest + 1) * d <= n)
        BY <1>1, <1>4, <4>1, <4>2
      <4> HIDE DEF n
      <4> QED BY <1>1, <1>4, <4>3, Quotient
    <3> QED BY <1>1, <1>4, <3>1, Quotient
  <2> QED BY <1>1, <1>4, <2>1, <2>2, Quotient DEF InRange
<1>6. q \in Nat
  BY <1>1, <1>4, <1>5, RoundedBetween
<1>7. (n - q * d) * M <= n /\ (q * d - n) * M <= n
  BY <1>1, <1>4, <1>5, RoundedClose
<1> DEFINE p == d * q
<1>8. p \in Nat /\ p = q * d
  BY <1>1, <1>6
<1> HIDE DEF n, q, f, g, M, p
<1>9. f * One <= p
  <2>1. n <= ((b - f) * M) * One
    BY <1>1, <1>2, <1>3, <1>4
  <2>2. ((b - f) * M) * One = (n - f * One) * M
    BY <1>1, <1>2, <1>4
  <2>3. (n - p) * M <= (n - f * One) * M
    <3>1. n - p \in Int /\ n - f * One \in Int
      BY <1>1, <1>2, <1>4, <1>8
    <3>2. (n - p) * M \in Int /\ (n - f * One) * M \in Int
      BY <1>1, <3>1
    <3> QED BY <1>4, <1>7, <1>8, <2>1, <2>2, <3>2
  <2>4. n - p \in Int /\ n - f * One \in Int /\ f * One \in Int
    BY <1>1, <1>2, <1>4, <1>8
  <2>5. n - p <= n - f * One
    BY <1>1, <2>3, <2>4, Cancel
  <2> QED BY <1>4, <1>8, <2>4, <2>5
<1>10. p <= g * One
  <2>1. n <= g * One
    BY <1>1, <1>2, <1>4
  <2>2. g * One <= ((g - b) * M) * One
    BY <1>1, <1>2, <1>3
  <2>3. ((g - b) * M) * One = (g * One - n) * M
    BY <1>1, <1>2, <1>4
  <2>4. p - n \in Int /\ g * One - n \in Int /\ g * One \in Int
    BY <1>1, <1>2, <1>4, <1>8
  <2>5. (p - n) * M <= (g * One - n) * M
    <3>1. (p - n) * M \in Int /\ (g * One - n) * M \in Int
      BY <1>1, <2>4
    <3> QED BY <1>4, <1>7, <1>8, <2>1, <2>2, <2>3, <2>4, <3>1
  <2>6. p - n <= g * One - n
    BY <1>1, <2>4, <2>5, Cancel
  <2> QED BY <1>4, <1>8, <2>4, <2>6
<1>11. InRange(p, One)
  <2>1. f <= p \div One
    BY <1>1, <1>2, <1>8, <1>9, Quotient
  <2>2. p \div One <= Largest
    <3>1. ~(g + 1 <= p \div One)
      <4>1. (g + 1) * One = g * One + One /\ g * One \in Nat
        BY <1>1, <1>2
      <4>2. ~((g + 1) * One <= p)
        BY <1>1, <1>8, <1>10, <4>1
      <4> QED BY <1>1, <1>2, <1>8, <4>2, Quotient
    <3>2. p \div One \in Nat
      BY <1>1, <1>8, Quotient
    <3> QED BY <1>1, <1>2, <3>1, <3>2
  <2>3. p \div One \in Nat
    BY <1>1, <1>8, Quotient
  <2> QED BY <1>1, <1>2, <2>1, <2>2, <2>3 DEF InRange
<1>12. scaled(d, b) = rounded(p, One)
  BY DEF scaled, p, q, n
<1>13. /\ rounded(p, One) \in Float
       /\ f <= rounded(p, One) /\ rounded(p, One) <= g
  BY <1>1, <1>2, <1>8, <1>9, <1>10, <1>11, RoundedBetween
<1> QED
  BY <1>12, <1>13 DEF f, g

\* Half, or a float from the minimum; never less than half.
LEMMA SlowerNear ==
  ASSUME NEW d \in SessionDiff
  PROVE  /\ slower(d) \in SessionDiff
         /\ below[VDIFF_MIN_TARGET - 1] <= slower(d) /\ d <= 2 * slower(d)
         /\ slower(d) < d \/ slower(d) <= above[VDIFF_MIN_TARGET]
<1> DEFINE b == VDIFF_MIN_TARGET
           f == below[b - 1]
           g == above[b]
           top == above[VDIFF_MAX_TARGET]
<1>1. /\ d \in Float /\ d \in Nat /\ Smallest <= d /\ d <= top
      /\ One \in Nat \ {0} /\ Largest \in Nat /\ Smallest \in Nat
      /\ Float \subseteq Nat /\ top \in Nat /\ top <= Largest
      /\ b \in Float /\ b \in Nat /\ Smallest < b /\ b <= VDIFF_MAX_TARGET
      /\ 2 * Smallest <= Mantissa /\ Mantissa <= 2 * Smallest + 1 /\ Mantissa \in Nat \ {0}
      /\ Mantissa <= 2 * b /\ Mantissa <= One /\ b * One <= Largest * Smallest
  BY Bounds, RoundingAssumption DEF SessionDiff
<1>2. /\ f \in Float /\ f \in Nat /\ Smallest <= f /\ f < b
      /\ \A h \in Float : h < b => h <= f
      /\ g \in Nat /\ b < g /\ g <= top
  BY <1>1, BoundNeighbours
<1> HIDE DEF b, f, g, top
<1>3. CASE d < 2 * b
  <2>1. slower(d) = scaled(d, b)
    BY <1>3 DEF slower, b
  <2>2. d > 0
    <3>1. Smallest > 0 \/ Mantissa = 1
      BY <1>1
    <3>2. CASE Mantissa = 1
      <4>1. Smallest = 0
        BY <1>1, <3>2
      <4>2. b * One <= 0
        BY <1>1, <4>1
      <4>3. b * One > 0
        BY <1>1
      <4>4. b * One \in Nat
        BY <1>1
      <4> QED BY <4>2, <4>3, <4>4
    <3> QED BY <1>1, <3>1, <3>2
  <2>3. Smallest * d <= b * One
    <3>1. Smallest * d <= Smallest * (2 * b)
      BY <1>1, <1>3
    <3>2. Smallest * (2 * b) = (2 * Smallest) * b
      BY <1>1
    <3>3. (2 * Smallest) * b <= One * b
      BY <1>1
    <3>4. One * b = b * One
      BY <1>1
    <3> QED BY <1>1, <3>1, <3>2, <3>3, <3>4
  <2>4. b * One <= Largest * d
    <3>1. Largest * Smallest <= Largest * d
      BY <1>1
    <3> QED BY <1>1, <3>1
  <2>5. scaled(d, b) \in Float /\ f <= scaled(d, b) /\ scaled(d, b) <= g
    BY <1>1, <2>2, <2>3, <2>4, ScaledNear DEF f, g
  <2>6. d <= 2 * f
    <3>1. CASE d < Mantissa
      BY <1>1, <1>2, <3>1
    <3>2. CASE Mantissa <= d
      <4>1. d % 2 = 0 /\ d \div 2 \in Float
        BY <1>1, <3>2, FloatAssumption
      <4>2. d = 2 * (d \div 2) /\ d \div 2 \in Nat
        BY <1>1, <4>1
      <4>3. d \div 2 < b
        BY <1>1, <1>3, <4>2
      <4>4. d \div 2 <= f
        BY <1>2, <4>1, <4>3
      <4> QED BY <1>1, <1>2, <4>2, <4>4
    <3> QED BY <1>1, <3>1, <3>2
  <2>7. scaled(d, b) \in Nat
    BY <1>1, <2>5
  <2> QED BY <1>1, <1>2, <2>1, <2>5, <2>6, <2>7 DEF SessionDiff, b, f, g, top
<1>4. CASE ~(d < 2 * b)
  <2>1. slower(d) = d \div 2
    BY <1>4 DEF slower, b
  <2>2. d % 2 = 0 /\ d \div 2 \in Float
    BY <1>1, <1>4, FloatAssumption
  <2>3. d = 2 * (d \div 2) /\ d \div 2 \in Nat
    BY <1>1, <2>2
  <2> QED BY <1>1, <1>2, <1>4, <2>1, <2>2, <2>3 DEF SessionDiff, b, f, g, top
<1> QED BY <1>3, <1>4

\* Double, or a float from what the network asks for; never more than double.
LEMMA FasterNear ==
  ASSUME NEW d \in SessionDiff, network_diff \in NetworkDiff \cup {VDIFF_MAX_TARGET}
  PROVE  /\ faster(d) \in SessionDiff
         /\ faster(d) <= 2 * d /\ faster(d) <= above[diff_max]
         /\ faster(d) = 2 * d \/ below[diff_max - 1] <= faster(d)
<1> DEFINE b == diff_max
           f == below[b - 1]
           g == above[b]
           top == above[VDIFF_MAX_TARGET]
<1>1. b \in NetworkDiff \cup {VDIFF_MAX_TARGET}
  BY DEF diff_max
<1>2. /\ d \in Float /\ d \in Nat /\ Smallest <= d /\ d <= top
      /\ One \in Nat \ {0} /\ Largest \in Nat /\ Smallest \in Nat
      /\ Float \subseteq Nat /\ top \in Nat /\ top <= Largest
      /\ b \in Float /\ b \in Nat /\ Smallest < b
      /\ Smallest * top <= b * One /\ 2 * One <= Largest
      /\ VDIFF_MAX_TARGET <= Largest /\ VDIFF_MAX_TARGET \in Nat
      /\ network_diff \in Nat
  BY <1>1, Bounds, RoundingAssumption DEF SessionDiff
<1>3. b <= VDIFF_MAX_TARGET
  BY <1>2 DEF diff_max
<1>4. /\ f \in Float /\ f \in Nat /\ Smallest <= f /\ f < b
      /\ g \in Nat /\ b < g /\ g <= top
      /\ \A h \in Float : b < h => g <= h
  BY <1>2, <1>3, BoundNeighbours
<1> HIDE DEF b, f, g, top
<1>5. CASE 2 * d > b
  <2>1. faster(d) = scaled(d, b)
    BY <1>5 DEF faster, b
  <2>2. d > 0
    BY <1>2, <1>5
  <2>3. Smallest * d <= b * One
    <3>1. Smallest * d <= Smallest * top
      BY <1>2
    <3> QED BY <1>2, <3>1
  <2>4. b * One <= Largest * d
    <3>1. b * One <= (2 * d) * One
      BY <1>2, <1>5
    <3>2. (2 * d) * One = (2 * One) * d
      BY <1>2
    <3>3. (2 * One) * d <= Largest * d
      BY <1>2
    <3> QED BY <1>2, <3>1, <3>2, <3>3
  <2>5. scaled(d, b) \in Float /\ f <= scaled(d, b) /\ scaled(d, b) <= g
    BY <1>2, <1>3, <2>2, <2>3, <2>4, ScaledNear DEF f, g
  <2>6. g <= 2 * d
    <3>1. CASE 2 * d <= Largest
      <4>1. 2 * d \in Float
        BY <1>2, <3>1, FloatAssumption
      <4> QED BY <1>4, <1>5, <4>1
    <3>2. CASE ~(2 * d <= Largest)
      BY <1>2, <1>4, <3>2
    <3> QED BY <3>1, <3>2
  <2>7. scaled(d, b) \in Nat
    BY <1>2, <2>5
  <2> QED BY <1>2, <1>4, <2>1, <2>5, <2>6, <2>7 DEF SessionDiff, b, f, g, top
<1>6. CASE ~(2 * d > b)
  <2>1. faster(d) = 2 * d
    BY <1>6 DEF faster, b
  <2>2. 2 * d <= b /\ 2 * d <= Largest /\ 2 * d <= top
    BY <1>2, <1>3, <1>4, <1>6
  <2>3. 2 * d \in Float
    BY <1>2, <2>2, FloatAssumption
  <2> QED BY <1>2, <1>4, <2>1, <2>2, <2>3 DEF SessionDiff, b, f, g, top
<1> QED BY <1>5, <1>6

\* The new difficulties are in the window if the cap is.
LEMMA NewDifficulty ==
  ASSUME TypeOK, LimiterInv, NEW c \in Conn
  PROVE  /\ slower(difficulty[c]) \in SessionDiff /\ faster(difficulty[c]) \in SessionDiff
         /\ (\A d \in NetworkDiff : d >= VDIFF_MIN_TARGET) =>
              /\ below[VDIFF_MIN_TARGET - 1] <= slower(difficulty[c])
              /\ below[VDIFF_MIN_TARGET - 1] <= faster(difficulty[c])
<1> DEFINE low == below[VDIFF_MIN_TARGET - 1]
           d == difficulty[c]
<1>1. d \in SessionDiff /\ network_diff \in NetworkDiff \cup {VDIFF_MAX_TARGET}
  BY DEF TypeOK
<1>2. /\ slower(d) \in SessionDiff /\ low <= slower(d)
      /\ faster(d) \in SessionDiff
      /\ faster(d) = 2 * d \/ below[diff_max - 1] <= faster(d)
  BY <1>1, SlowerNear, FasterNear
<1>3. ASSUME \A e \in NetworkDiff : e >= VDIFF_MIN_TARGET
      PROVE  low <= faster(d)
  <2>1. low <= d
    BY <1>3 DEF LimiterInv, DifficultyInWindow
  <2>2. VDIFF_MIN_TARGET \in Float /\ Smallest < VDIFF_MIN_TARGET
        /\ VDIFF_MIN_TARGET <= VDIFF_MAX_TARGET /\ VDIFF_MIN_TARGET \in Nat
        /\ Float \subseteq Nat /\ Smallest \in Nat
    BY Bounds
  <2>3. low \in Float /\ low < VDIFF_MIN_TARGET /\ low \in Nat
    BY <2>2, BoundNeighbours
  <2>4. d \in Nat /\ faster(d) \in Nat
    BY <1>1, <1>2, <2>2 DEF SessionDiff
  <2>5. CASE faster(d) = 2 * d
    <3> HIDE DEF low, d
    <3> QED BY <2>1, <2>3, <2>4, <2>5
  <2>6. CASE below[diff_max - 1] <= faster(d)
    <3>1. /\ diff_max \in NetworkDiff \cup {VDIFF_MAX_TARGET}
          /\ network_diff \in Nat /\ VDIFF_MAX_TARGET \in Nat
      BY <1>1, Bounds DEF diff_max
    <3>2. /\ diff_max \in Float /\ diff_max \in Nat /\ Smallest < diff_max
          /\ VDIFF_MIN_TARGET <= diff_max
      BY <1>3, <2>2, <3>1, Bounds
    <3>3. diff_max <= VDIFF_MAX_TARGET
      BY <3>1 DEF diff_max
    <3>4. /\ below[diff_max - 1] \in Float
          /\ \A h \in Float : h < diff_max => h <= below[diff_max - 1]
      BY <3>2, <3>3, BoundNeighbours
    <3>5. low < diff_max
      BY <2>2, <2>3, <3>2
    <3>6. low <= below[diff_max - 1] /\ below[diff_max - 1] \in Nat
      BY <2>2, <2>3, <3>4, <3>5
    <3> HIDE DEF low, d
    <3> QED BY <2>3, <2>4, <2>6, <3>6
  <2> QED BY <1>2, <2>5, <2>6
<1> QED
  BY <1>2, <1>3

\* The pool's target, at which sessions start, is in the window.
LEMMA PoolInWindow ==
  /\ POOL_TARGET \in SessionDiff
  /\ below[VDIFF_MIN_TARGET - 1] <= POOL_TARGET
  /\ POOL_TARGET <= above[VDIFF_MAX_TARGET]
<1>1. /\ POOL_TARGET \in Float /\ POOL_TARGET \in Nat /\ VDIFF_MAX_TARGET \in Nat
      /\ VDIFF_MIN_TARGET <= POOL_TARGET /\ POOL_TARGET <= VDIFF_MAX_TARGET
      /\ VDIFF_MIN_TARGET <= VDIFF_MAX_TARGET /\ VDIFF_MIN_TARGET \in Nat
      /\ VDIFF_MIN_TARGET \in Float /\ VDIFF_MAX_TARGET \in Float
      /\ Smallest < VDIFF_MIN_TARGET /\ Smallest < VDIFF_MAX_TARGET
      /\ Smallest \in Nat /\ Float \subseteq Nat
  BY Bounds, LimiterAssumption, RoundingAssumption
<1>2. below[VDIFF_MIN_TARGET - 1] \in Nat /\ below[VDIFF_MIN_TARGET - 1] < VDIFF_MIN_TARGET
  BY <1>1, BoundNeighbours
<1>3. above[VDIFF_MAX_TARGET] \in Nat /\ VDIFF_MAX_TARGET < above[VDIFF_MAX_TARGET]
  <2>1. VDIFF_MAX_TARGET <= VDIFF_MAX_TARGET
    BY <1>1
  <2>2. /\ above[VDIFF_MAX_TARGET] \in Float
        /\ VDIFF_MAX_TARGET < above[VDIFF_MAX_TARGET]
    BY <1>1, <2>1, BoundNeighbours
  <2> QED BY <1>1, <2>2
<1> QED
  BY <1>1, <1>2, <1>3 DEF SessionDiff

-----------------------------------------------------------------------------
(* The steps *)

\* A tip, a new connection or the passing of time.
LEMMA EnvironmentKeepsInv ==
  ASSUME TypeOK, LimiterInv,
         \/ \E d \in NetworkDiff : update_network_difficulty(d)
         \/ \E c \in Conn : Resubscribe(c)
         \/ \E g \in Gap : Tick(g)
  PROVE  TypeOK' /\ LimiterInv'
<1> USE LimiterAssumption
<1>1. ASSUME NEW d \in NetworkDiff, update_network_difficulty(d)
      PROVE  TypeOK' /\ LimiterInv'
  BY <1>1 DEF update_network_difficulty, TypeOK, LimiterInv, TimesPast, ChecksStamped,
     NetworkAsksMinimum, DifficultyInWindow, RingsHold
<1>2. ASSUME NEW c \in Conn, Resubscribe(c)
      PROVE  TypeOK' /\ LimiterInv'
  <2>1. TypeOK'
    BY <1>2, PoolInWindow DEF Resubscribe, TypeOK
  <2>2. DifficultyInWindow'
    BY <1>2, PoolInWindow DEF Resubscribe, TypeOK, LimiterInv, DifficultyInWindow
  <2> QED
    BY <1>2, <2>1, <2>2 DEF Resubscribe, LimiterInv, TimesPast, ChecksStamped,
       NetworkAsksMinimum, RingsHold
<1>3. ASSUME NEW g \in Gap, Tick(g)
      PROVE  TypeOK' /\ LimiterInv'
  <2>1. now \in Nat /\ g \in Nat /\ now' = now + g
    BY <1>3 DEF Tick, TypeOK
  <2>2. TimesPast'
    <3>1. \A w \in Worker : worker_stats[w] # NoStats => worker_stats[w].last_ts \in Nat
      BY DEF TypeOK, Stats
    <3> QED
      BY <1>3, <2>1, <3>1 DEF Tick, LimiterInv, TimesPast
  <2> QED
    BY <1>3, <2>1, <2>2 DEF Tick, TypeOK, LimiterInv, ChecksStamped,
       NetworkAsksMinimum, DifficultyInWindow, RingsHold
<1> QED
  BY <1>1, <1>2, <1>3

\* The first share of a worker.
LEMMA FirstShareKeepsInv ==
  ASSUME TypeOK, LimiterInv, NEW w \in Worker, FirstShare(w)
  PROVE  TypeOK' /\ LimiterInv'
<1> DEFINE s == [last_rtc |-> now - VDIFF_RETARGET_TIME \div 2, last_ts |-> now,
                 data |-> <<>>, cur |-> 0, full |-> FALSE, float_cur |-> FALSE]
<1>1. /\ now \in Nat /\ VDIFF_RETARGET_TIME \div 2 \in Nat
      /\ VDIFF_RETARGET_TIME \div 2 <= VDIFF_RETARGET_TIME
      /\ VDIFF_RETARGET_TIME \in Nat
  BY LimiterAssumption DEF TypeOK
<1>2. <<>> \in Seq(Nat) /\ Len(<<>>) = 0
  OBVIOUS
<1>3. s \in Stats
  BY <1>1, <1>2 DEF Stats
<1>4. RingHolds(s, <<>>)
  BY <1>2, BufferNotEmpty DEF RingHolds
<1>5. gaps[w] = <<>> /\ retargeted[w] <= -VDIFF_RETARGET_TIME
  BY DEF FirstShare, LimiterInv, RingsHold, ChecksStamped
<1>6. retargeted[w] <= s.last_rtc /\ s.last_ts <= now
  BY <1>1, <1>5 DEF TypeOK
<1>7. /\ worker_stats' = [worker_stats EXCEPT ![w] = s]
      /\ gaps' = [gaps EXCEPT ![w] = <<>>]
      /\ retargeted' = [retargeted EXCEPT ![w] = retargeted[w]]
      /\ now' = now /\ retargeted[w] \in Int
  BY <1>5 DEF FirstShare, TypeOK
<1> HIDE DEF s
<1>8. /\ worker_stats' \in [Worker -> Stats \cup {NoStats}]
      /\ gaps' \in [Worker -> Seq(Nat)]
      /\ retargeted' \in [Worker -> Int]
      /\ TimesPast' /\ ChecksStamped' /\ RingsHold'
  BY <1>2, <1>3, <1>4, <1>6, <1>7, StatsStep
<1> QED
  BY <1>8 DEF FirstShare, TypeOK, LimiterInv, NetworkAsksMinimum, DifficultyInWindow

\* A share that is recorded without a change of difficulty, checked or not.
LEMMA KeptDifficulty ==
  ASSUME TypeOK, LimiterInv, NEW w \in Worker,
         RecordShare(w) \/ KeepDifficulty(w) \/ FailRetarget(w)
  PROVE  TypeOK' /\ LimiterInv'
<1> DEFINE s == recorded(w)
           g == Append(gaps[w], now - worker_stats[w].last_ts)
<1>1. CanRecord(w)
  BY DEF RecordShare, KeepDifficulty, FailRetarget, CheckPace
<1>2. /\ s \in Stats /\ s.last_ts = now /\ s.last_rtc = worker_stats[w].last_rtc
      /\ g \in Seq(Nat) /\ RingHolds(s, g)
  BY <1>1, Recorded
<1>3. now \in Nat /\ retargeted[w] \in Int /\ worker_stats[w] # NoStats
  BY <1>1 DEF TypeOK, CanRecord
<1>4. retargeted[w] <= s.last_rtc
  BY <1>2, <1>3 DEF LimiterInv, ChecksStamped
<1>5. /\ checked(w) \in Stats /\ checked(w).last_ts = now /\ checked(w).last_rtc = now
      /\ RingHolds(checked(w), g)
  <2>1. checked(w) = [s EXCEPT !.last_rtc = now]
    BY DEF checked
  <2> HIDE DEF s, g
  <2>2. now \in Int
    BY <1>3
  <2>3. /\ checked(w) \in Stats /\ checked(w).last_rtc = now
        /\ checked(w).last_ts = s.last_ts
        /\ checked(w).data = s.data /\ checked(w).cur = s.cur
        /\ checked(w).full = s.full /\ checked(w).float_cur = s.float_cur
    BY <1>2, <2>1, <2>2, StampHolds
  <2> QED
    BY <1>2, <2>3 DEF RingHolds
<1>6. /\ gaps' = [gaps EXCEPT ![w] = g] /\ now' = now /\ raised' \in BOOLEAN
      /\ UNCHANGED <<network_diff, difficulty, float_difficulty, vdiff_x2_type>>
  BY DEF RecordShare, KeepDifficulty, FailRetarget, CheckPace, TypeOK
<1>7. \/ /\ worker_stats' = [worker_stats EXCEPT ![w] = s]
         /\ retargeted' = [retargeted EXCEPT ![w] = retargeted[w]]
      \/ /\ worker_stats' = [worker_stats EXCEPT ![w] = checked(w)]
         /\ retargeted' = [retargeted EXCEPT ![w] = now]
  BY DEF RecordShare, KeepDifficulty, FailRetarget, CheckPace, TypeOK
<1> HIDE DEF s, g
<1>8. /\ worker_stats' \in [Worker -> Stats \cup {NoStats}]
      /\ gaps' \in [Worker -> Seq(Nat)]
      /\ retargeted' \in [Worker -> Int]
      /\ TimesPast' /\ ChecksStamped' /\ RingsHold'
  <2>1. CASE /\ worker_stats' = [worker_stats EXCEPT ![w] = s]
             /\ retargeted' = [retargeted EXCEPT ![w] = retargeted[w]]
    <3>1. s.last_ts <= now
      BY <1>2, <1>3
    <3> QED
      BY <1>2, <1>3, <1>4, <1>6, <2>1, <3>1, StatsStep
  <2>2. CASE /\ worker_stats' = [worker_stats EXCEPT ![w] = checked(w)]
             /\ retargeted' = [retargeted EXCEPT ![w] = now]
    <3>1. checked(w).last_ts <= now /\ now <= checked(w).last_rtc /\ now \in Int
      BY <1>3, <1>5
    <3> QED
      BY <1>2, <1>5, <1>6, <2>2, <3>1, StatsStep
  <2> QED
    BY <1>7, <2>1, <2>2
<1> QED
  BY <1>6, <1>8 DEF TypeOK, LimiterInv, NetworkAsksMinimum, DifficultyInWindow

\* A retarget: the buffer is emptied and the session gets its new difficulty.
LEMMA RetargetKeepsInv ==
  ASSUME TypeOK, LimiterInv, NEW w \in Worker, NEW c \in Conn, CanRecord(w),
         SlowDown(c, w) \/ SpeedUp(c, w)
  PROVE  TypeOK' /\ LimiterInv'
<1>1. PICK new_diff, is_float :
        /\ Retarget(c, w, new_diff, is_float)
        /\ new_diff \in {slower(difficulty[c]), faster(difficulty[c])}
  BY DEF SlowDown, SpeedUp
<1>2. /\ new_diff \in SessionDiff
      /\ (\A d \in NetworkDiff : d >= VDIFF_MIN_TARGET) =>
           below[VDIFF_MIN_TARGET - 1] <= new_diff
  BY <1>1, NewDifficulty
<1>3. recorded(w) \in Stats /\ recorded(w).last_ts = now /\ now \in Nat
  BY Recorded DEF TypeOK
<1>4. checked(w) \in Stats /\ checked(w).last_ts = now /\ checked(w).last_rtc = now
  <2>1. checked(w) = [recorded(w) EXCEPT !.last_rtc = now] /\ now \in Int
    BY <1>3 DEF checked
  <2> QED
    BY <1>3, <2>1, StampHolds
<1> DEFINE s == clear(checked(w))
<1>5. /\ s \in Stats /\ RingHolds(s, <<>>) /\ s.last_ts = now /\ s.last_rtc = now
  BY <1>4, ClearHolds
<1>6. /\ worker_stats' = [worker_stats EXCEPT ![w] = s]
      /\ gaps' = [gaps EXCEPT ![w] = <<>>]
      /\ retargeted' = [retargeted EXCEPT ![w] = now]
      /\ difficulty' = [difficulty EXCEPT ![c] = new_diff]
      /\ float_difficulty' \subseteq float_difficulty \cup {c}
      /\ raised' = FALSE
      /\ UNCHANGED <<network_diff, vdiff_x2_type, now>>
  BY <1>1 DEF Retarget, CheckPace, after_retarget
<1> HIDE DEF s
<1>7. /\ worker_stats' \in [Worker -> Stats \cup {NoStats}]
      /\ gaps' \in [Worker -> Seq(Nat)]
      /\ retargeted' \in [Worker -> Int]
      /\ TimesPast' /\ ChecksStamped' /\ RingsHold'
  <2>1. <<>> \in Seq(Nat) /\ s.last_ts <= now /\ now <= s.last_rtc /\ now \in Int
    BY <1>3, <1>5
  <2> QED
    BY <1>5, <1>6, <2>1, StatsStep
<1>8. DifficultyInWindow'
  <2>1. new_diff <= above[VDIFF_MAX_TARGET]
    BY <1>2 DEF SessionDiff
  <2> QED
    BY <1>2, <1>6, <2>1 DEF TypeOK, LimiterInv, DifficultyInWindow
<1> QED
  BY <1>2, <1>6, <1>7, <1>8 DEF TypeOK, LimiterInv, NetworkAsksMinimum

\* Every step keeps the types and the invariant.
LEMMA StepKeepsInv == TypeOK /\ LimiterInv /\ [Next]_limiterVars => TypeOK' /\ LimiterInv'
<1> SUFFICES ASSUME TypeOK, LimiterInv, [Next]_limiterVars
             PROVE  TypeOK' /\ LimiterInv'
  OBVIOUS
<1>1. ASSUME NEW c \in Conn, NEW w \in Worker, submit(c, w)
      PROVE  TypeOK' /\ LimiterInv'
  <2>1. CASE FirstShare(w)
    BY <2>1, FirstShareKeepsInv
  <2>2. CASE FailAppend(w)
    BY <2>2 DEF FailAppend, TypeOK, LimiterInv, TimesPast, ChecksStamped,
       NetworkAsksMinimum, DifficultyInWindow, RingsHold
  <2>3. CASE RecordShare(w) \/ KeepDifficulty(w) \/ FailRetarget(w)
    BY <2>3, KeptDifficulty
  <2>4. CASE CanRecord(w) /\ (SlowDown(c, w) \/ SpeedUp(c, w))
    BY <2>4, RetargetKeepsInv
  <2> QED
    BY <1>1, <2>1, <2>2, <2>3, <2>4 DEF submit
<1>2. CASE UNCHANGED limiterVars
  BY <1>2 DEF limiterVars, TypeOK, LimiterInv, TimesPast, ChecksStamped,
     NetworkAsksMinimum, DifficultyInWindow, RingsHold
<1> QED
  BY <1>1, <1>2, EnvironmentKeepsInv DEF Next

\* The statistics start empty and the difficulties at the pool's target.
LEMMA InitInv == Init => TypeOK /\ LimiterInv
<1> SUFFICES ASSUME Init
             PROVE  TypeOK /\ LimiterInv
  OBVIOUS
<1> USE LimiterAssumption
<1>1. <<>> \in Seq(Nat)
  OBVIOUS
<1>2. TypeOK
  <2>1. -VDIFF_RETARGET_TIME \in Int /\ VDIFF_MAX_TARGET \in Nat /\ POOL_TARGET \in Nat
        /\ 0 \in Nat /\ X2Settings \subseteq BOOLEAN
    OBVIOUS
  <2>2. /\ worker_stats \in [Worker -> Stats \cup {NoStats}]
        /\ gaps \in [Worker -> Seq(Nat)]
        /\ retargeted \in [Worker -> Int]
    BY <1>1, <2>1 DEF Init
  <2>3. /\ network_diff \in NetworkDiff \cup {VDIFF_MAX_TARGET}
        /\ difficulty \in [Conn -> SessionDiff]
        /\ now \in Nat /\ raised \in BOOLEAN /\ float_difficulty \subseteq Conn
    BY <2>1, PoolInWindow DEF Init
  <2>4. vdiff_x2_type \in BOOLEAN
    BY <2>1 DEF Init
  <2> QED
    BY <2>2, <2>3, <2>4 DEF TypeOK
<1>3. LimiterInv
  BY PoolInWindow DEF Init, LimiterInv, TimesPast, ChecksStamped, NetworkAsksMinimum,
     DifficultyInWindow, RingsHold
<1> QED
  BY <1>2, <1>3

-----------------------------------------------------------------------------
(* What the runs check *)

\* The inductive invariant: statistics of the past, stamped checks, a cap and
\* difficulties in the window, and ring buffers of the latest gaps.
THEOREM LimiterInvariant == Spec => [](TypeOK /\ LimiterInv)
BY InitInv, StepKeepsInv, PTL DEF Spec

\* The type invariant: no gap is negative and every difficulty is a float.
THEOREM TypeCorrect == Spec => []TypeOK
BY LimiterInvariant, PTL

\* Halvings, doublings, caps and new connections leave every session difficulty
\* between the minimum and the maximum, or on the next float outside.
THEOREM WindowKept == Spec => []DifficultyInWindow
<1>1. LimiterInv => DifficultyInWindow
  BY DEF LimiterInv
<1> QED
  BY <1>1, LimiterInvariant, PTL

\* The ring buffer of each worker holds its latest gaps, whatever its length.
THEOREM BufferIsLatest == Spec => []BufferHoldsLatestGaps
<1>1. TypeOK /\ LimiterInv => BufferHoldsLatestGaps
  BY RingsHoldLatest DEF LimiterInv
<1> QED
  BY <1>1, LimiterInvariant, PTL

\* Two retarget checks of a worker are at least VDIFF_RETARGET_TIME apart.
THEOREM RetargetsKeepPace == Spec => RetargetPace
<1> DEFINE Paced == \A w \in Worker : retargeted'[w] # retargeted[w] =>
                      now - retargeted[w] >= VDIFF_RETARGET_TIME
<1>1. TypeOK /\ LimiterInv /\ [Next]_limiterVars => [Paced]_limiterVars
  <2> SUFFICES ASSUME TypeOK, LimiterInv, [Next]_limiterVars, NEW w \in Worker,
                      retargeted'[w] # retargeted[w]
               PROVE  now - retargeted[w] >= VDIFF_RETARGET_TIME
    BY DEF limiterVars
  <2>1. CheckPace(w)
    <3>1. PICK v \in Worker : CheckPace(v)
      BY DEF Next, update_network_difficulty, Resubscribe, Tick, submit, FirstShare,
         FailAppend, RecordShare, KeepDifficulty, FailRetarget, SlowDown, SpeedUp,
         Retarget, limiterVars
    <3>2. v = w
      BY <3>1 DEF CheckPace, TypeOK
    <3> QED
      BY <3>1, <3>2
  <2>2. /\ CanRecord(w) /\ size(recorded(w)) > 0
        /\ recorded(w).last_rtc = worker_stats[w].last_rtc
    BY <2>1, Recorded DEF CheckPace
  <2>3. ~(now - worker_stats[w].last_rtc < VDIFF_RETARGET_TIME)
    BY <2>1, <2>2 DEF CheckPace, not_due
  <2>4. /\ worker_stats[w] # NoStats /\ worker_stats[w].last_rtc \in Int
        /\ now \in Nat /\ retargeted[w] \in Int
    BY <2>2 DEF CanRecord, TypeOK, Stats
  <2>5. retargeted[w] <= worker_stats[w].last_rtc
    BY <2>4 DEF LimiterInv, ChecksStamped
  <2> QED
    BY <2>3, <2>4, <2>5, LimiterAssumption
<1> QED
  BY <1>1, LimiterInvariant, PTL DEF Spec, RetargetPace

-----------------------------------------------------------------------------
(* How far the difficulty and the ring buffer can go *)

\* Shares came too slowly: the difficulty falls, to its half at most, unless it
\* ends next to the minimum.
SlowerThan(c, w) ==
  /\ avg_above_tmax(recorded(w))
  /\ difficulty[c] <= 2 * difficulty'[c]
  /\ difficulty'[c] < difficulty[c] \/ difficulty'[c] <= above[VDIFF_MIN_TARGET]

\* Shares came too fast: the difficulty doubles, or ends next to the cap, which
\* may have fallen below it.
FasterThan(c, w) ==
  /\ avg_below_tmin(recorded(w))
  /\ difficulty'[c] <= 2 * difficulty[c] /\ difficulty'[c] <= above[diff_max]
  /\ difficulty'[c] = 2 * difficulty[c] \/ below[diff_max - 1] <= difficulty'[c]

\* A session's difficulty starts anew, or moves with the pace of some worker.
FollowsPace ==
  \A c \in Conn :
    \/ difficulty'[c] \in {difficulty[c], POOL_TARGET}
    \/ \E w \in Worker : CanRecord(w) /\ (SlowerThan(c, w) \/ FasterThan(c, w))

\* No session's difficulty changes but for a pace outside the variance, whatever
\* the quotients are rounded to: it never falls below half for slow shares, and
\* for fast ones it never more than doubles nor passes the cap by more than one
\* float.
THEOREM DifficultyFollowsPace == Spec => [][FollowsPace]_limiterVars
<1>1. ASSUME TypeOK, LimiterInv, [Next]_limiterVars
      PROVE  [FollowsPace]_limiterVars
  <2> SUFFICES ASSUME NEW c \in Conn, difficulty'[c] \notin {difficulty[c], POOL_TARGET}
               PROVE  \E w \in Worker :
                        CanRecord(w) /\ (SlowerThan(c, w) \/ FasterThan(c, w))
    BY DEF FollowsPace
  <2>1. PICK b \in Conn, w \in Worker :
          CanRecord(w) /\ (SlowDown(b, w) \/ SpeedUp(b, w))
    BY <1>1 DEF Next, update_network_difficulty, Resubscribe, Tick, submit, FirstShare,
       FailAppend, RecordShare, KeepDifficulty, FailRetarget, limiterVars, TypeOK
  <2>2. b = c
    BY <1>1, <2>1 DEF SlowDown, SpeedUp, Retarget, TypeOK
  <2>3. /\ difficulty \in [Conn -> SessionDiff] /\ difficulty[c] \in SessionDiff
        /\ network_diff \in NetworkDiff \cup {VDIFF_MAX_TARGET}
    BY <1>1 DEF TypeOK
  <2>4. CASE SlowDown(c, w)
    <3>1. difficulty'[c] = slower(difficulty[c]) /\ avg_above_tmax(recorded(w))
      BY <2>3, <2>4 DEF SlowDown, Retarget
    <3> QED BY <2>1, <2>3, <3>1, SlowerNear DEF SlowerThan
  <2>5. CASE SpeedUp(c, w)
    <3>1. difficulty'[c] = faster(difficulty[c]) /\ avg_below_tmin(recorded(w))
      BY <2>3, <2>5 DEF SpeedUp, Retarget
    <3> QED BY <2>1, <2>3, <3>1, FasterNear DEF FasterThan
  <2> QED BY <2>1, <2>2, <2>4, <2>5
<1> QED BY <1>1, LimiterInvariant, PTL DEF Spec

\* A worker's share raises an exception in the ring buffer.
Stuck(w) == worker_stats[w] # NoStats /\ append_raises(worker_stats[w])

\* A buffer that fills before the difficulty changes takes a single share more:
\* after that one its worker is stuck.
THEOREM FullBufferTakesOne ==
  Spec => [](\A w \in Worker : /\ Len(gaps[w]) <= BufferSize + 1
                               /\ Len(gaps[w]) = BufferSize + 1 => Stuck(w))
<1>1. TypeOK /\ LimiterInv =>
        \A w \in Worker : /\ Len(gaps[w]) <= BufferSize + 1
                          /\ Len(gaps[w]) = BufferSize + 1 => Stuck(w)
  <2> SUFFICES ASSUME TypeOK, LimiterInv, NEW w \in Worker
               PROVE  /\ Len(gaps[w]) <= BufferSize + 1
                      /\ Len(gaps[w]) = BufferSize + 1 => Stuck(w)
    OBVIOUS
  <2>1. BufferSize \in Nat /\ Len(gaps[w]) \in Nat
    BY BufferNotEmpty DEF TypeOK
  <2>2. CASE worker_stats[w] = NoStats
    <3>1. Len(gaps[w]) = 0
      BY <2>2 DEF LimiterInv, RingsHold
    <3> QED BY <2>1, <3>1
  <2>3. CASE worker_stats[w] # NoStats
    <3>1. RingHolds(worker_stats[w], gaps[w])
      BY <2>3 DEF LimiterInv, RingsHold
    <3> QED BY <2>1, <2>3, <3>1 DEF RingHolds, Stuck, append_raises
  <2> QED BY <2>2, <2>3
<1> QED BY <1>1, LimiterInvariant, PTL

\* No step repairs a stuck worker: neither time, nor a new connection, nor a tip,
\* nor another worker's shares.
LEMMA StuckStays ==
  ASSUME TypeOK, NEW w \in Worker, Stuck(w), [Next]_limiterVars
  PROVE  Stuck(w)' /\ gaps'[w] = gaps[w]
<1>1. worker_stats'[w] = worker_stats[w] /\ gaps'[w] = gaps[w]
  <2>1. CASE UNCHANGED <<worker_stats, gaps>>
    BY <2>1
  <2>2. ASSUME NEW v \in Worker, worker_stats[v] = NoStats \/ CanRecord(v),
               \E s : worker_stats' = [worker_stats EXCEPT ![v] = s],
               gaps' = gaps \/ \E g : gaps' = [gaps EXCEPT ![v] = g]
        PROVE  worker_stats'[w] = worker_stats[w] /\ gaps'[w] = gaps[w]
    <3>1. v # w
      BY <2>2 DEF Stuck, CanRecord
    <3> QED BY <2>2, <3>1 DEF TypeOK
  <2> QED
    BY <2>1, <2>2 DEF Next, update_network_difficulty, Resubscribe, Tick, submit,
       FirstShare, FailAppend, RecordShare, KeepDifficulty, FailRetarget, SlowDown,
       SpeedUp, Retarget, CheckPace, limiterVars
<1> QED BY <1>1 DEF Stuck

\* "This is just a customized ring buffer" fails for good: once a worker's buffer
\* has failed, every later share of it fails, and its difficulty is never checked
\* again.
THEOREM StuckForEver == ASSUME NEW w \in Worker PROVE Spec => [](Stuck(w) => []Stuck(w))
<1>1. TypeOK /\ Stuck(w) /\ [Next]_limiterVars => Stuck(w)'
  BY StuckStays
<1> QED BY <1>1, TypeCorrect, PTL DEF Spec
=============================================================================
