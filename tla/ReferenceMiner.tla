--------------------------- MODULE ReferenceMiner ---------------------------
(***************************************************************************)
(* reference-miner: the main thread that connects and subscribes, the      *)
(* reader thread of StratumClient, and the mining threads JobManager hands *)
(* jobs and difficulties to.  The threads share fields without locks; a    *)
(* step here is one access to a shared field or one call on the socket.    *)
(* The atomic flag read in every round of the mining loop keeps the plain  *)
(* fields from being cached across rounds.                                 *)
(*                                                                         *)
(* Of the pool only what reaches the miner is kept: it answers a           *)
(* subscription, then sends a difficulty, then a job, and new ones at any  *)
(* time, in order.                                                         *)
(***************************************************************************)
EXTENDS Naturals, Sequences, FiniteSets

CONSTANTS NWorkers,       \* mining threads
          MaxJobs,        \* bound: jobs the pool sends
          MaxChanges      \* bound: difficulties the pool sends

ASSUME MinerAssumption ==
  NWorkers \in Nat \ {0} /\ MaxJobs \in Nat /\ MaxChanges \in Nat

Worker == 1..NWorkers

VARIABLES
  main,         \* what the main thread does next: "connect", "start" the
                \* reader, "subscribe", "store" the future, or wait at the "gate"
  connection,   \* "none", "up", "closed" (end of stream) or "reset"
  sent,         \* methods the miner has called
  from_pool,    \* messages on their way to the miner
  issued,       \* number of jobs the pool has sent
  changes,      \* number of difficulties the pool has sent
  requests,     \* ids of the requests with a future
  reader,       \* "off", "read" (at readLine), "first" or "second" (the two
                \* writes of setJob) or "dead"
  at,           \* the worker the reader's loop has reached
  hand,         \* the job the reader is handing over
  pc,           \* what each worker does next
  job,          \* the field job of each worker, 0 for null
  jobUpdated,   \* the workers whose flag is set
  target,       \* the field target of each worker is not null
  work,         \* the job each worker's header was built from
  submitted,    \* history: shares, as the job they name and the job they solve
  dropped       \* history: the subscription's answer found no future

vars == <<main, connection, sent, from_pool, issued, changes, requests, reader,
          at, hand, pc, job, jobUpdated, target, work, submitted, dropped>>

mainVars == <<main, connection, sent, requests>>
poolVars == <<from_pool, issued, changes>>
readerVars == <<reader, at, hand, dropped>>
workerVars == <<pc, job, jobUpdated, target, work, submitted>>

Method == {"mining.subscribe", "mining.authorize"}

Message == [method : {"result"}, id : {1}]
           \cup [method : {"mining.set_difficulty"}, integer : BOOLEAN]
           \cup [method : {"mining.notify"}, job : 1..MaxJobs]

TypeOK ==
  /\ main \in {"connect", "start", "subscribe", "store", "gate"}
  /\ connection \in {"none", "up", "closed", "reset"}
  /\ sent \subseteq Method
  /\ from_pool \in Seq(Message)
  /\ issued \in 0..MaxJobs /\ changes \in 0..MaxChanges
  /\ requests \subseteq {1}
  /\ reader \in {"off", "read", "first", "second", "dead"}
  /\ at \in Worker /\ hand \in 0..MaxJobs
  /\ pc \in [Worker -> {"new", "run", "build", "mine", "clear", "hash", "submit"}]
  /\ job \in [Worker -> 0..MaxJobs] /\ work \in [Worker -> 0..MaxJobs]
  /\ jobUpdated \subseteq Worker /\ target \subseteq Worker
  /\ submitted \subseteq [job : 0..MaxJobs, work : 0..MaxJobs]
  /\ dropped \in BOOLEAN

Init ==
  /\ main = "connect" /\ connection = "none"
  /\ sent = {} /\ requests = {}
  /\ from_pool = <<>> /\ issued = 0 /\ changes = 0
  /\ reader = "off" /\ at = 1 /\ hand = 0 /\ dropped = FALSE
  /\ pc = [w \in Worker |-> "new"]
  /\ job = [w \in Worker |-> 0] /\ work = [w \in Worker |-> 0]
  /\ jobUpdated = {} /\ target = {} /\ submitted = {}

-----------------------------------------------------------------------------
(* The main thread: MainClass.main and StratumClient.start *)

\* The socket connects and the workers are provisioned.  A connection that is
\* refused is tried again a second later.
Connect ==
  /\ main = "connect"
  /\ main' = "start"
  /\ connection' = "up"
  /\ UNCHANGED <<sent, requests, poolVars, readerVars, workerVars>>

StartReader ==
  /\ main = "start"
  /\ main' = "subscribe"
  /\ reader' = "read"
  /\ UNCHANGED <<connection, sent, requests, poolVars, at, hand, dropped, workerVars>>

\* The request goes out, or the failure is printed, before its future is
\* stored.
Subscribe ==
  /\ main = "subscribe"
  /\ main' = "store"
  /\ sent' = sent \cup {m \in {"mining.subscribe"} : connection = "up"}
  /\ UNCHANGED <<connection, requests, poolVars, readerVars, workerVars>>

\* The main thread then waits at a gate that only the end of the JVM opens.
StoreFuture ==
  /\ main = "store"
  /\ main' = "gate"
  /\ requests' = requests \cup {1}
  /\ UNCHANGED <<connection, sent, poolVars, readerVars, workerVars>>

-----------------------------------------------------------------------------
(* The pool and the connection *)

Sends(messages) == from_pool' = from_pool \o messages

\* MiningService.subscribe and _finish_after_subscribe of the pool: the answer to
\* the subscription, then the difficulty; a job that is ready follows as
\* PoolNotifies.  Answers to mining.authorize and mining.submit find no future and
\* change nothing: they are left out.
PoolSubscribes ==
  /\ connection = "up"
  /\ "mining.subscribe" \in sent
  /\ changes = 0 /\ MaxChanges > 0
  /\ changes' = 1
  /\ Sends(<<[method |-> "result", id |-> 1],
             [method |-> "mining.set_difficulty", integer |-> TRUE]>>)
  /\ UNCHANGED <<mainVars, issued, readerVars, workerVars>>

\* on_template of the pool's MiningSubscription broadcasts a job.
PoolNotifies ==
  /\ connection = "up" /\ changes > 0 /\ issued < MaxJobs
  /\ issued' = issued + 1
  /\ Sends(<<[method |-> "mining.notify", job |-> issued + 1]>>)
  /\ UNCHANGED <<mainVars, changes, readerVars, workerVars>>

\* A retarget: the pool's limiter can send a difficulty with a decimal point.
PoolRetargets ==
  /\ connection = "up" /\ changes > 0 /\ changes < MaxChanges
  /\ changes' = changes + 1
  /\ \E integer \in BOOLEAN :
       Sends(<<[method |-> "mining.set_difficulty", integer |-> integer]>>)
  /\ UNCHANGED <<mainVars, issued, readerVars, workerVars>>

\* The connection ends after what was sent, or breaks and loses it.
ConnectionEnds ==
  /\ connection = "up"
  /\ \/ connection' = "closed" /\ UNCHANGED from_pool
     \/ connection' = "reset" /\ from_pool' = <<>>
  /\ UNCHANGED <<main, sent, requests, issued, changes, readerVars, workerVars>>

-----------------------------------------------------------------------------
(* The reader thread: StratumClient.run and the handlers of JobManager *)

Receives(method) ==
  /\ reader = "read" /\ from_pool # <<>>
  /\ Head(from_pool).method = method
  /\ from_pool' = Tail(from_pool)

\* Mutant: the loop over the workers starts at the second.
workers_started_but_first == Worker \ {1}

\* The workers onSubscribed starts.
workers_started == Worker

\* A response completes the future stored under its id.  The subscription's
\* runs handleSubscribeResponse: start the workers, then authorize.  Workers
\* have no job yet, so starting them one by one looks the same to them.
HandleResponse ==
  /\ Receives("result")
  /\ IF Head(from_pool).id \in requests
     THEN /\ pc' = [w \in Worker |-> IF w \in workers_started THEN "run" ELSE pc[w]]
          /\ sent' = sent \cup {m \in {"mining.authorize"} : connection = "up"}
     ELSE UNCHANGED <<pc, sent>>
  /\ dropped' = (dropped \/ Head(from_pool).id \notin requests)
  /\ UNCHANGED <<main, connection, requests, issued, changes, reader, at, hand, job,
                 jobUpdated, target, work, submitted>>

\* Mutant: onDifficultyChanged misses the first worker.
workers_told_but_first == Worker \ {1}

\* The workers onDifficultyChanged sets a target on.
workers_told == Worker

\* new BigInteger of the difficulty; each worker reads only its own target.
HandleDifficulty ==
  /\ Receives("mining.set_difficulty")
  /\ Head(from_pool).integer
  /\ target' = target \cup workers_told
  /\ UNCHANGED <<mainVars, issued, changes, readerVars, pc, job, jobUpdated, work,
                 submitted>>

\* NumberFormatException, or null from readLine at the end of the stream: the
\* reader's task ends and nobody looks at its outcome.  A reset connection is
\* read again for ever.
ReaderDies ==
  /\ \/ Receives("mining.set_difficulty") /\ ~Head(from_pool).integer
     \/ /\ reader = "read" /\ connection = "closed" /\ from_pool = <<>>
        /\ UNCHANGED from_pool
  /\ reader' = "dead"
  /\ UNCHANGED <<mainVars, issued, changes, at, hand, dropped, workerVars>>

\* onJob begins to hand the job to the workers, one after the other.
HandleNotify ==
  /\ Receives("mining.notify")
  /\ hand' = Head(from_pool).job
  /\ at' = 1
  /\ reader' = "first"
  /\ UNCHANGED <<mainVars, issued, changes, dropped, workerVars>>

\* Mutant: setJob raises the flag before it stores the job.
stores_job_second(write) == write = "second"

\* The write of setJob that stores the job; the other one raises the flag.
stores_job(write) == write = "first"

\* Mutant: the loop over the workers runs one too far.
last_worker_off_by_one(w) == w = NWorkers + 1

last_worker(w) == w = NWorkers

\* One of the two writes of setJob.
SetJob ==
  /\ reader \in {"first", "second"}
  /\ IF stores_job(reader)
     THEN job' = [job EXCEPT ![at] = hand] /\ UNCHANGED jobUpdated
     ELSE jobUpdated' = jobUpdated \cup {at} /\ UNCHANGED job
  /\ IF reader = "first"
     THEN reader' = "second" /\ UNCHANGED at
     ELSE IF last_worker(at)
          THEN reader' = "read" /\ UNCHANGED at
          ELSE reader' = "first" /\ at' = at + 1
  /\ UNCHANGED <<mainVars, poolVars, hand, dropped, pc, target, work, submitted>>

-----------------------------------------------------------------------------
(* A mining thread: StratumMiningThread.run *)

Goes(w, from, to) == pc[w] = from /\ pc' = [pc EXCEPT ![w] = to]

OnlyPc == UNCHANGED <<mainVars, poolVars, readerVars, job, jobUpdated, target, work,
                      submitted>>

\* The thread sleeps until there is a job.
AwaitWork(w) == job[w] # 0 /\ Goes(w, "run", "build") /\ OnlyPc

\* The header, known by the job it is built from.
constructPrototype(w) == job[w]

\* The header is built from the job as it is now.
BuildWork(w) ==
  /\ Goes(w, "build", "mine")
  /\ work' = [work EXCEPT ![w] = constructPrototype(w)]
  /\ UNCHANGED <<mainVars, poolVars, readerVars, job, jobUpdated, target, submitted>>

\* A round of the loop: leave it if there is a new job, else go on.
NextNonce(w) ==
  /\ IF w \in jobUpdated THEN Goes(w, "mine", "clear") ELSE Goes(w, "mine", "hash")
  /\ OnlyPc

ClearFlag(w) ==
  /\ Goes(w, "clear", "run")
  /\ jobUpdated' = jobUpdated \ {w}
  /\ UNCHANGED <<mainVars, poolVars, readerVars, job, target, work, submitted>>

\* The nonces are used up: build again with a new timestamp.
ExhaustNonces(w) == Goes(w, "mine", "run") /\ OnlyPc

\* The hash is compared with the target, and is a share or not.
CompareHash(w) ==
  /\ \/ Goes(w, "hash", "mine")
     \/ Goes(w, "hash", "submit")
  /\ OnlyPc

\* mining.submit: the header's fields under the job the field holds now.
submitShare(w) == [job |-> job[w], work |-> work[w]]

SubmitShare(w) ==
  /\ Goes(w, "submit", "mine")
  /\ submitted' = submitted \cup {submitShare(w)}
  /\ UNCHANGED <<mainVars, poolVars, readerVars, job, jobUpdated, target, work>>

-----------------------------------------------------------------------------
MainStep == Connect \/ StartReader \/ Subscribe \/ StoreFuture

PoolStep == PoolSubscribes \/ PoolNotifies \/ PoolRetargets

ReaderStep ==
  HandleResponse \/ HandleDifficulty \/ ReaderDies \/ HandleNotify \/ SetJob

WorkerStep(w) ==
  \/ AwaitWork(w) \/ BuildWork(w) \/ NextNonce(w) \/ ClearFlag(w)
  \/ CompareHash(w) \/ SubmitShare(w)

Next ==
  \/ MainStep \/ PoolStep \/ ConnectionEnds \/ ReaderStep
  \/ \E w \in Worker : WorkerStep(w) \/ ExhaustNonces(w)

\* The scheduler runs every thread that can run, and the pool answers the
\* subscription.  No nonce range has to run out and no job has to come.
Fairness ==
  /\ WF_vars(MainStep) /\ WF_vars(ReaderStep) /\ WF_vars(PoolSubscribes)
  /\ \A w \in Worker : WF_vars(WorkerStep(w))

Spec == Init /\ [][Next]_vars /\ Fairness

-----------------------------------------------------------------------------
(* Properties *)

\* No mining thread compares a hash with a target it does not have yet: the
\* order of subscription, difficulty and job on the connection is the order in
\* which the threads are started, told and put to work.
TargetBeforeWork ==
  \A w \in Worker : pc[w] \in {"mine", "hash", "submit"} => w \in target

\* A thread that mines on a job other than the one it was last handed has its
\* flag raised, or setJob is just about to raise it: whatever way the two
\* writes of setJob fall between test and clear of the flag, no hand-over is
\* lost.
StaleWorkFlagged ==
  \A w \in Worker : pc[w] \in {"mine", "hash", "submit"} /\ work[w] # job[w] =>
    w \in jobUpdated \/ (reader = "second" /\ at = w)

\* A started thread comes to mine on the job it was handed, unless it is handed
\* another one first.
HandedJobIsMined ==
  \A w \in Worker, j \in 1..MaxJobs :
    (pc[w] # "new" /\ job[w] = j) ~> (work[w] = j \/ job[w] # j)

\* A subscription the pool gets leads to running threads, unless its answer
\* came before its future was stored or the connection ended.
MiningStarts ==
  ("mining.subscribe" \in sent) ~>
    ((\A w \in Worker : pc[w] # "new") \/ dropped \/ connection # "up")

\* "ID of job (received by mining.notify) which the current solution is based
\* on": a share names the job it solves.
SharesNameTheirJob == \A s \in submitted : s.job = s.work

-----------------------------------------------------------------------------
(* The inductive invariant behind TargetBeforeWork and StaleWorkFlagged *)

\* Nothing happens before the main thread connects, and the one reader is the
\* one it starts.
MainGoesFirst ==
  /\ main = "connect" => connection = "none" /\ changes = 0
  /\ main \in {"connect", "start"} => reader = "off"

SetsTarget(m) == m.method = "mining.set_difficulty" /\ m.integer

\* Only answers come before the first difficulty that sets a target.
DifficultyLeads(messages) ==
  \E k \in 1..Len(messages) :
    /\ SetsTarget(messages[k])
    /\ \A i \in 1..k - 1 : messages[i].method = "result"

\* Until the workers have a target, nothing but the subscription's answer is on
\* the connection before a difficulty that gives them one.
DifficultyComesFirst ==
  \/ target = Worker
  \/ from_pool = <<>> /\ (changes = 0 \/ connection # "up")
  \/ DifficultyLeads(from_pool)

\* Jobs are handed over only after that.
JobsComeAfter ==
  /\ reader \in {"first", "second"} => target = Worker /\ hand # 0
  /\ \A w \in Worker :
       /\ job[w] # 0 => target = Worker
       /\ pc[w] \notin {"new", "run"} => job[w] # 0

MinerInv ==
  /\ MainGoesFirst /\ DifficultyComesFirst /\ JobsComeAfter
  /\ StaleWorkFlagged
=============================================================================
