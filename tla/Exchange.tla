------------------------------ MODULE Exchange ------------------------------
(***************************************************************************)
(* What the pool's link to NodeCore promises, without lines, queues or     *)
(* request counters: one exchange, that comes up, serves once NodeCore has *)
(* accepted and subscribed the pool, and ends once and for all.  While it  *)
(* serves, every job is delivered, in order and none left out, and every   *)
(* block asked about is answered at most once, the answer reported or      *)
(* dropped.  UcpLink implements it.                                        *)
(***************************************************************************)
EXTENDS Naturals

CONSTANT Ids            \* what a block may be asked about under

VARIABLES phase,        \* "before", "up", "serving" or "over"
          delivered,    \* number of jobs delivered; jobs are numbered
          asked,        \* the ids asked about
          answered,     \* those with an answer
          reported      \* those whose answer was reported

exchangeVars == <<phase, delivered, asked, answered, reported>>

Init ==
  /\ phase = "before"
  /\ delivered = 0
  /\ asked = {} /\ answered = {} /\ reported = {}

Connect ==
  /\ phase = "before"
  /\ phase' = "up"
  /\ UNCHANGED <<delivered, asked, answered, reported>>

Serve ==
  /\ phase = "up"
  /\ phase' = "serving"
  /\ UNCHANGED <<delivered, asked, answered, reported>>

\* The next job, and no other.
Deliver ==
  /\ phase = "serving"
  /\ delivered' = delivered + 1
  /\ UNCHANGED <<phase, asked, answered, reported>>

\* A block solves a job, so there is no question before the first one.
Ask(id) ==
  /\ phase = "serving" /\ delivered # 0
  /\ id \notin asked
  /\ asked' = asked \cup {id}
  /\ UNCHANGED <<phase, delivered, answered, reported>>

Answer(id) ==
  /\ phase = "serving"
  /\ id \in asked \ answered
  /\ answered' = answered \cup {id}
  /\ reported' \in {reported, reported \cup {id}}
  /\ UNCHANGED <<phase, delivered, asked>>

\* Whatever had no answer yet never gets one.
End ==
  /\ phase # "over"
  /\ phase' = "over"
  /\ UNCHANGED <<delivered, asked, answered, reported>>

Next ==
  \/ Connect \/ Serve \/ Deliver \/ End
  \/ \E id \in Ids : Ask(id) \/ Answer(id)

Spec == Init /\ [][Next]_exchangeVars
=============================================================================
