------------------------------ MODULE JobBoard ------------------------------
(***************************************************************************)
(* What the pool promises about jobs and shares, without job ids, weak     *)
(* references, hashes or targets: a board of the jobs that may be worked   *)
(* on, wiped whenever the chain tip moves, and a credit paid at most once  *)
(* for each solution of a job that is on the board.  TemplateRegistry      *)
(* implements it.                                                          *)
(***************************************************************************)
EXTENDS Naturals, FiniteSets

CONSTANTS Prevhash,     \* block hashes a job can build on
          Solution,     \* (extranonce, ntime, nonce) triples
          NoTip         \* the tip before the first job

VARIABLES tip,          \* the block hash the jobs of the board build on
          published,    \* number of jobs published so far; jobs are numbered
          board,        \* the numbers of the jobs that may be worked on
          credited,     \* the <<job, solution>> pairs paid for
          credits       \* number of credits paid

boardVars == <<tip, published, board, credited, credits>>

Init ==
  /\ tip = NoTip
  /\ published = 0
  /\ board = {}
  /\ credited = {}
  /\ credits = 0

\* A job for the current tip joins the board; a job for another tip wipes it.
Publish(p) ==
  /\ tip' = p
  /\ published' = published + 1
  /\ board' = {published + 1} \cup {j \in board : p = tip}
  /\ UNCHANGED <<credited, credits>>

Credit(j, s) ==
  /\ j \in board
  /\ <<j, s>> \notin credited
  /\ credited' = credited \cup {<<j, s>>}
  /\ credits' = credits + 1
  /\ UNCHANGED <<tip, published, board>>

Next ==
  \/ \E p \in Prevhash : Publish(p)
  \/ \E j \in board, s \in Solution : Credit(j, s)

Spec == Init /\ [][Next]_boardVars
=============================================================================
