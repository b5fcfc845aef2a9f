---------------------------- MODULE ShareLimiter ----------------------------
(***************************************************************************)
(* lib/basic_share_limiter.py: the difficulty of each connection follows   *)
(* the pace at which its worker submits shares.  Statistics are kept per   *)
(* worker name and outlive connections; difficulties are kept per          *)
(* connection.                                                             *)
(*                                                                         *)
(* Difficulties are floats, counted in the unit of Floats: doubling and    *)
(* halving are exact, the quotient of two difficulties and the product     *)
(* with it are rounded.  Whether Python holds a number as int or as float  *)
(* matters for what is sent, and is kept in a flag.                        *)
(***************************************************************************)
EXTENDS Floats, Sequences, Functions

CONSTANTS
  Conn,               \* connections
  Worker,             \* worker names
  NetworkDiff,        \* difficulties of the tips to come
  One,                \* quotients of difficulties are counted in units of 1 / One
  VDIFF_TARGET_TIME, VDIFF_RETARGET_TIME, VDIFF_VARIANCE_PERCENT,
  VDIFF_MIN_TARGET, VDIFF_MAX_TARGET, POOL_TARGET,
  VDIFF_FLOAT,        \* "Use float difficulty"
  X2Settings,         \* the values of VDIFF_X2_TYPE considered
  Gap,                \* seconds that may pass between two events
  MaxTime,            \* bound: seconds in a behaviour
  NoStats             \* a worker without statistics

ASSUME LimiterAssumption ==
  /\ VDIFF_TARGET_TIME \in Nat \ {0} /\ VDIFF_RETARGET_TIME \in Nat \ {0}
  /\ VDIFF_RETARGET_TIME % 2 = 0
  /\ VDIFF_VARIANCE_PERCENT \in 0..100
  /\ VDIFF_MIN_TARGET \in Nat \ {0} /\ VDIFF_MAX_TARGET \in Nat /\ POOL_TARGET \in Nat
  /\ VDIFF_MIN_TARGET <= POOL_TARGET /\ POOL_TARGET <= VDIFF_MAX_TARGET
  /\ NetworkDiff \subseteq Nat \ {0} /\ Gap \subseteq Nat /\ MaxTime \in Nat
  /\ VDIFF_FLOAT \in BOOLEAN /\ X2Settings \subseteq BOOLEAN

\* buffersize = retarget / target * 4
BufferSize == (VDIFF_RETARGET_TIME * 4) \div VDIFF_TARGET_TIME

\* The session difficulties the code can reach: the maximum may be missed by one
\* float.
SessionDiff ==
  {d \in Float : Smallest <= d /\ d <= above[VDIFF_MAX_TARGET]}

\* The settings and the difficulties of the network are whole numbers a float can
\* hold, well inside the range of the floats, and so are their quotients.
ASSUME RoundingAssumption ==
  /\ One \in Nat \ {0} /\ Mantissa <= One /\ 2 * One <= Largest
  /\ {VDIFF_MIN_TARGET, VDIFF_MAX_TARGET, POOL_TARGET} \cup NetworkDiff \subseteq Float
  /\ VDIFF_MAX_TARGET <= Largest /\ above[VDIFF_MAX_TARGET] <= Largest
  /\ Smallest < VDIFF_MIN_TARGET /\ Mantissa <= 2 * VDIFF_MIN_TARGET
  /\ VDIFF_MIN_TARGET * One <= Largest * Smallest
  /\ \A b \in NetworkDiff \cup {VDIFF_MAX_TARGET} :
       Smallest < b /\ Smallest * above[VDIFF_MAX_TARGET] <= b * One

ASSUME BufferAssumption ==
  BufferSize * VDIFF_TARGET_TIME = VDIFF_RETARGET_TIME * 4

\* One worker's entry: the last retarget check, the last share, and the speed
\* buffer with its class (full or not) and the type of its cursor.
Stats == [last_rtc : Int, last_ts : Nat, data : Seq(Nat), cur : Nat,
          full : BOOLEAN, float_cur : BOOLEAN]

ASSUME NoStatsAssumption == NoStats \notin Stats

VARIABLES
  worker_stats,       \* worker -> Stats or NoStats
  network_diff,       \* the cap the template registry last announced
  difficulty,         \* session['difficulty'] of each connection
  float_difficulty,   \* the connections whose difficulty is a float
  vdiff_x2_type,      \* the setting VDIFF_X2_TYPE, fixed at start
  now,                \* clock
  raised,             \* did the last share raise an exception
  gaps,               \* history: a worker's gaps since its buffer was emptied
  retargeted          \* history: when a worker last had a retarget check

limiterVars == <<worker_stats, network_diff, difficulty, float_difficulty,
                 vdiff_x2_type, now, raised, gaps, retargeted>>

TypeOK ==
  /\ worker_stats \in [Worker -> Stats \cup {NoStats}]
  /\ network_diff \in NetworkDiff \cup {VDIFF_MAX_TARGET}
  /\ difficulty \in [Conn -> SessionDiff]
  /\ float_difficulty \subseteq Conn
  /\ vdiff_x2_type \in BOOLEAN
  /\ now \in Nat
  /\ raised \in BOOLEAN
  /\ gaps \in [Worker -> Seq(Nat)]
  /\ retargeted \in [Worker -> Int]

-----------------------------------------------------------------------------
(* The ring buffer: SpeedBuffer until it is full, SpeedBufferFull after *)

\* SpeedBufferFull.append overwrites the entry at the cursor.  The remainder
\* by a float makes the cursor a float.
append_full(s, x) ==
  [s EXCEPT !.data[s.cur + 1] = x, !.cur = (s.cur + 1) % BufferSize,
            !.float_cur = TRUE]

\* Mutant: the cursor is not rewound when the buffer becomes full.
append_growing_no_rewind(s, x) ==
  IF Len(s.data) + 1 = BufferSize
  THEN [s EXCEPT !.data = Append(@, x), !.cur = s.cur, !.full = TRUE]
  ELSE [s EXCEPT !.data = Append(@, x), !.cur = s.cur + 1]

\* SpeedBuffer.append changes the class when the last place is taken.
append_growing(s, x) ==
  IF Len(s.data) + 1 = BufferSize
  THEN [s EXCEPT !.data = Append(@, x), !.cur = 0, !.full = TRUE]
  ELSE [s EXCEPT !.data = Append(@, x), !.cur = s.cur + 1]

append(s, x) == IF s.full THEN append_full(s, x) ELSE append_growing(s, x)

\* A list cannot be indexed by a float.
append_raises(s) == s.full /\ s.float_cur

size(s) == IF s.full THEN BufferSize ELSE s.cur

clear(s) == [s EXCEPT !.data = <<>>, !.cur = 0, !.full = FALSE, !.float_cur = FALSE]

\* avg() as a numerator over size(); an average below one second counts as one.
total(s) ==
  IF SumFunctionOnSet(s.data, DOMAIN s.data) < size(s)
  THEN size(s) ELSE SumFunctionOnSet(s.data, DOMAIN s.data)

\* avg > tmax and avg < tmin, where tmin and tmax are the target time less and
\* plus the variance.
avg_above_tmax(s) ==
  100 * total(s) > size(s) * VDIFF_TARGET_TIME * (100 + VDIFF_VARIANCE_PERCENT)

avg_below_tmin(s) ==
  100 * total(s) < size(s) * VDIFF_TARGET_TIME * (100 - VDIFF_VARIANCE_PERCENT)

-----------------------------------------------------------------------------
(* The new difficulty *)

\* current * (bound / current): the quotient is rounded, and so is the product,
\* which need not be the bound again.
scaled(current, bound) ==
  LET ddiff == rounded(bound * One, current)
  IN  rounded(current * ddiff, One)

\* Mutant: the floor is forgotten.
slower_unbounded(d) == d \div 2

\* Half, but not below the minimum.
slower(d) ==
  IF d < 2 * VDIFF_MIN_TARGET THEN scaled(d, VDIFF_MIN_TARGET) ELSE d \div 2

diff_max == IF VDIFF_MAX_TARGET < network_diff THEN VDIFF_MAX_TARGET ELSE network_diff

\* Double, but not above what the network asks for.
faster(d) == IF 2 * d > diff_max THEN scaled(d, diff_max) ELSE 2 * d

-----------------------------------------------------------------------------
Init ==
  /\ worker_stats = [w \in Worker |-> NoStats]
  /\ network_diff = VDIFF_MAX_TARGET
  /\ difficulty = [c \in Conn |-> POOL_TARGET]
  /\ float_difficulty = {}
  /\ vdiff_x2_type \in X2Settings
  /\ now = 0
  /\ raised = FALSE
  /\ gaps = [w \in Worker |-> <<>>]
  /\ retargeted = [w \in Worker |-> -VDIFF_RETARGET_TIME]

\* The registry saw a new prevhash.
update_network_difficulty(d) ==
  /\ network_diff' = d
  /\ UNCHANGED <<worker_stats, difficulty, float_difficulty, vdiff_x2_type, now,
                 raised, gaps, retargeted>>

\* A connection is replaced by a new one, which subscribes at the pool's target.
Resubscribe(c) ==
  /\ difficulty' = [difficulty EXCEPT ![c] = POOL_TARGET]
  /\ float_difficulty' = float_difficulty \ {c}
  /\ UNCHANGED <<worker_stats, network_diff, vdiff_x2_type, now, raised, gaps,
                 retargeted>>

\* A worker's first share only creates its statistics.
FirstShare(w) ==
  /\ worker_stats[w] = NoStats
  /\ worker_stats' = [worker_stats EXCEPT ![w] =
       [last_rtc |-> now - VDIFF_RETARGET_TIME \div 2, last_ts |-> now,
        data |-> <<>>, cur |-> 0, full |-> FALSE, float_cur |-> FALSE]]
  /\ raised' = FALSE
  /\ UNCHANGED <<network_diff, difficulty, float_difficulty, vdiff_x2_type, now,
                 gaps, retargeted>>

\* TypeError in the ring buffer, before anything is recorded.
FailAppend(w) ==
  /\ worker_stats[w] # NoStats
  /\ append_raises(worker_stats[w])
  /\ raised' = TRUE
  /\ UNCHANGED <<worker_stats, network_diff, difficulty, float_difficulty,
                 vdiff_x2_type, now, gaps, retargeted>>

\* Mutant: the gap is taken the wrong way round.
recorded_reversed(w) ==
  [append(worker_stats[w], worker_stats[w].last_ts - now) EXCEPT !.last_ts = now]

\* The statistics of a worker after its share is recorded.
recorded(w) ==
  [append(worker_stats[w], now - worker_stats[w].last_ts) EXCEPT !.last_ts = now]

CanRecord(w) == worker_stats[w] # NoStats /\ ~append_raises(worker_stats[w])

not_due(s) == now - s.last_rtc < VDIFF_RETARGET_TIME /\ size(s) > 0

\* A share between two retarget checks.
RecordShare(w) ==
  /\ CanRecord(w)
  /\ not_due(recorded(w))
  /\ worker_stats' = [worker_stats EXCEPT ![w] = recorded(w)]
  /\ gaps' = [gaps EXCEPT ![w] = Append(@, now - worker_stats[w].last_ts)]
  /\ raised' = FALSE
  /\ UNCHANGED <<network_diff, difficulty, float_difficulty, vdiff_x2_type, now,
                 retargeted>>

\* A retarget check: the share is recorded and the time of the check is kept.
CheckPace(w) ==
  /\ CanRecord(w)
  /\ ~not_due(recorded(w))
  /\ retargeted' = [retargeted EXCEPT ![w] = now]
  /\ UNCHANGED <<network_diff, vdiff_x2_type, now>>

\* Mutant: the time of the check is not kept.
checked_unstamped(w) == recorded(w)

checked(w) == [recorded(w) EXCEPT !.last_rtc = now]

\* The pace is within the variance: the buffer keeps its entries.
KeepDifficulty(w) ==
  /\ CheckPace(w)
  /\ ~avg_above_tmax(recorded(w)) /\ ~avg_below_tmin(recorded(w))
  /\ worker_stats' = [worker_stats EXCEPT ![w] = checked(w)]
  /\ gaps' = [gaps EXCEPT ![w] = Append(@, now - worker_stats[w].last_ts)]
  /\ raised' = FALSE
  /\ UNCHANGED <<difficulty, float_difficulty>>

\* NameError in calc_ddiff, which reads a "self" it does not have, when the
\* difficulty should change and VDIFF_X2_TYPE is off.
FailRetarget(w) ==
  /\ CheckPace(w)
  /\ ~vdiff_x2_type
  /\ avg_above_tmax(recorded(w)) \/ avg_below_tmin(recorded(w))
  /\ worker_stats' = [worker_stats EXCEPT ![w] = checked(w)]
  /\ gaps' = [gaps EXCEPT ![w] = Append(@, now - worker_stats[w].last_ts)]
  /\ raised' = TRUE
  /\ UNCHANGED <<difficulty, float_difficulty>>

\* Mutant: the buffer keeps its entries when the difficulty changes.
retarget_without_clear(s) == s

after_retarget(s) == clear(s)

Retarget(c, w, new_diff, is_float) ==
  /\ CheckPace(w)
  /\ vdiff_x2_type
  /\ worker_stats' = [worker_stats EXCEPT ![w] = after_retarget(checked(w))]
  /\ gaps' = [gaps EXCEPT ![w] = <<>>]
  /\ difficulty' = [difficulty EXCEPT ![c] = new_diff]
  /\ float_difficulty' = IF is_float THEN float_difficulty \cup {c}
                         ELSE float_difficulty
  /\ raised' = FALSE

\* Shares come too slowly: times 0.5, or times a quotient; both are floats.
SlowDown(c, w) ==
  /\ avg_above_tmax(recorded(w))
  /\ Retarget(c, w, slower(difficulty[c]), TRUE)

\* Shares come too fast: times 2, or times a quotient, which is a float.
SpeedUp(c, w) ==
  /\ avg_below_tmin(recorded(w))
  /\ Retarget(c, w, faster(difficulty[c]), 2 * difficulty[c] > diff_max)

\* A connection submits a share for a worker.
submit(c, w) ==
  \/ FirstShare(w)
  \/ FailAppend(w)
  \/ RecordShare(w)
  \/ KeepDifficulty(w)
  \/ FailRetarget(w)
  \/ CanRecord(w) /\ SlowDown(c, w)
  \/ CanRecord(w) /\ SpeedUp(c, w)

\* Bound: the clock stops at MaxTime.
Tick(g) ==
  /\ now + g <= MaxTime
  /\ now' = now + g
  /\ UNCHANGED <<worker_stats, network_diff, difficulty, float_difficulty,
                 vdiff_x2_type, raised, gaps, retargeted>>

Next ==
  \/ \E d \in NetworkDiff : update_network_difficulty(d)
  \/ \E c \in Conn : Resubscribe(c)
  \/ \E c \in Conn, w \in Worker : submit(c, w)
  \/ \E g \in Gap : Tick(g)

Spec == Init /\ [][Next]_limiterVars

-----------------------------------------------------------------------------
(* Properties *)

\* The ring buffer holds the latest gaps of its worker since the difficulty was
\* last changed, in ring order, over the change of class and the wrap-around;
\* so the average that decides a retarget is over at least one real gap.
BufferHoldsLatestGaps ==
  \A w \in Worker : worker_stats[w] # NoStats =>
    LET s == worker_stats[w]
        g == gaps[w]
    IN  IF s.full
        THEN /\ Len(s.data) = BufferSize /\ s.cur = Len(g) % BufferSize
             /\ Len(g) >= BufferSize
             /\ \A i \in Len(g) - BufferSize + 1..Len(g) :
                  s.data[((i - 1) % BufferSize) + 1] = g[i]
        ELSE s.data = g /\ s.cur = Len(g) /\ Len(g) < BufferSize

\* Two retarget checks of one worker are at least VDIFF_RETARGET_TIME apart,
\* whichever of its connections its shares come from.
RetargetPace ==
  [][\A w \in Worker : retargeted'[w] # retargeted[w] =>
       now - retargeted[w] >= VDIFF_RETARGET_TIME]_limiterVars

\* Provided the network asks for at least the minimum, every session difficulty
\* stays between the minimum and the maximum, through halvings, doublings, caps
\* that fall below it and new connections; rounding takes it at most to the next
\* float outside, and however often it is rescaled never further.
DifficultyInWindow ==
  (\A d \in NetworkDiff : d >= VDIFF_MIN_TARGET) =>
    \A c \in Conn : /\ below[VDIFF_MIN_TARGET - 1] <= difficulty[c]
                    /\ difficulty[c] <= above[VDIFF_MAX_TARGET]

\* VDIFF_FLOAT "Use float difficulty" is off: no session has a float difficulty,
\* which is sent to the miner with a decimal point.
IntegerDifficulty == ~VDIFF_FLOAT => float_difficulty = {}

\* "This is just a customized ring buffer": appending to it never fails.
RingBufferWorks ==
  \A w \in Worker : worker_stats[w] # NoStats => ~append_raises(worker_stats[w])

-----------------------------------------------------------------------------
(* The inductive invariant behind the properties above *)

\* Statistics are of the past.
TimesPast == \A w \in Worker : worker_stats[w] # NoStats => worker_stats[w].last_ts <= now

\* A worker's last retarget check is the one its entry remembers, or was before
\* the entry.
ChecksStamped ==
  \A w \in Worker :
    retargeted[w] <= IF worker_stats[w] = NoStats THEN -VDIFF_RETARGET_TIME
                     ELSE worker_stats[w].last_rtc

\* The network asks for at least the minimum, if every tip does.
NetworkAsksMinimum ==
  (\A d \in NetworkDiff : d >= VDIFF_MIN_TARGET) => network_diff >= VDIFF_MIN_TARGET

\* The ring buffer s holds the gaps g: the full class appends just once before
\* its cursor is a float and it fails.
RingHolds(s, g) ==
  \/ ~s.full /\ ~s.float_cur /\ s.data = g /\ s.cur = Len(g) /\ Len(g) < BufferSize
  \/ s.full /\ ~s.float_cur /\ s.data = g /\ s.cur = 0 /\ Len(g) = BufferSize
  \/ /\ s.full /\ s.float_cur /\ s.cur = 1 % BufferSize
     /\ Len(g) = BufferSize + 1 /\ Len(s.data) = BufferSize
     /\ s.data[1] = g[BufferSize + 1]
     /\ \A i \in 2..BufferSize : s.data[i] = g[i]

RingsHold ==
  \A w \in Worker : IF worker_stats[w] = NoStats THEN gaps[w] = <<>>
                    ELSE RingHolds(worker_stats[w], gaps[w])

LimiterInv ==
  /\ TimesPast /\ ChecksStamped /\ NetworkAsksMinimum /\ DifficultyInWindow
  /\ RingsHold
=============================================================================
