--------------------------- MODULE MCShareLimiter ---------------------------
(* Small instance of ShareLimiter: one worker on two connections, a buffer   *)
(* of four gaps, and network difficulties below and above the pool's.        *)
(* Floats have 4 bits: halving 20 towards the minimum 13 gives 12, doubling  *)
(* 48 towards the maximum 52 gives 56.                                       *)
EXTENDS ShareLimiter, TLC

MCFloat == (0..7) \cup {m * 2^e : m \in 8..15, e \in 0..5}
MCX2 == {TRUE, FALSE}
MCSymmetry == Permutations(Conn)    \* no expression tells them apart
=============================================================================
