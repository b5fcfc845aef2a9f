------------------------- MODULE MCTemplateRegistry -------------------------
(* Small instance of TemplateRegistry: two tips, so that the chain can       *)
(* reorganise back, and job ids that NodeCore reuses.  Floats have 3 bits:   *)
(* the largest target over 3 is 42, and 40 as a float; over 2 it is 63 and   *)
(* 64, above it.                                                             *)
EXTENDS TemplateRegistry, TLC

CONSTANTS pA, pB

MCFloat == (0..3) \cup {m * 2^e : m \in 4..7, e \in 0..5}
MCExtranonce == {-1, 1}
MCNtime == {0, 1, 3}          \* too old, good, too far ahead
MCHash == {36, 50}            \* around the targets 42 (pA) and 63 (pB)
MCHashRefused == {36, 41, 50} \* and between the two targets of pA
MCDifficulty == [p \in {pA, pB} |-> IF p = pA THEN 3 ELSE 2]
MCSymmetry == Permutations(JobId)   \* no expression tells the ids apart
=============================================================================
