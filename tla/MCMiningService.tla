-------------------------- MODULE MCMiningService --------------------------
(* Small instance of MiningService: two connections that come and go, two    *)
(* tips, and shares below and above the user's targets.  Floats have 3 bits. *)
EXTENDS MiningService, TLC

MCFloat == (0..3) \cup {m * 2^e : m \in 4..7, e \in 0..5}
MCExtranonce == {-1, 1}
MCDifficulty == [p \in Prevhash |-> 3]
\* No expression tells connections apart, nor job ids, nor tips of one difficulty.
MCSymmetry == Permutations(Conn) \cup Permutations(Prevhash) \cup
              Permutations(JobId)
=============================================================================
