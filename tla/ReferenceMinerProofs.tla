------------------------ MODULE ReferenceMinerProofs ------------------------
(***************************************************************************)
(* Proofs about the reference miner, for any number of mining threads,     *)
(* jobs and difficulties.                                                  *)
(***************************************************************************)
EXTENDS ReferenceMiner, SequenceTheorems, TLAPS

-----------------------------------------------------------------------------
(* Types *)

\* Sending keeps the channel a sequence of messages.
LEMMA SendsTyped ==
  ASSUME from_pool \in Seq(Message), NEW messages \in Seq(Message), Sends(messages)
  PROVE  from_pool' \in Seq(Message)
BY DEF Sends

\* Receiving takes a message from the head of the channel.
LEMMA ReceivesTyped ==
  ASSUME from_pool \in Seq(Message), NEW method, Receives(method)
  PROVE  /\ from_pool' \in Seq(Message)
         /\ Head(from_pool) \in Message
         /\ Head(from_pool).method = method
         /\ from_pool # <<>>
<1>1. /\ from_pool # <<>> /\ Head(from_pool).method = method
      /\ from_pool' = Tail(from_pool)
  BY DEF Receives
<1>2. Head(from_pool) \in Message /\ Tail(from_pool) \in Seq(Message)
  BY <1>1, HeadTailProperties
<1> QED
  BY <1>1, <1>2

\* The type invariant: every field keeps its type through every step of every
\* thread, of the pool and of the connection.
THEOREM TypeCorrect == Spec => []TypeOK
<1>1. Init => TypeOK
  <2> SUFFICES ASSUME Init
               PROVE  TypeOK
    OBVIOUS
  <2>1. from_pool \in Seq(Message)
    BY EmptySeq DEF Init
  <2>2. 1 \in Worker /\ 0 \in 0..MaxJobs /\ 0 \in 0..MaxChanges
    BY MinerAssumption DEF Worker
  <2> QED
    BY <2>1, <2>2 DEF Init, TypeOK
<1>2. TypeOK /\ [Next]_vars => TypeOK'
  <2> SUFFICES ASSUME TypeOK, [Next]_vars
               PROVE  TypeOK'
    OBVIOUS
  <2> USE MinerAssumption
  <2>1. CASE MainStep
    BY <2>1 DEF MainStep, Connect, StartReader, Subscribe, StoreFuture, TypeOK,
       Method, poolVars, readerVars, workerVars
  <2>2. CASE PoolSubscribes
    <3>1. <<[method |-> "result", id |-> 1],
            [method |-> "mining.set_difficulty", integer |-> TRUE]>> \in Seq(Message)
      BY DEF Message
    <3>2. from_pool' \in Seq(Message)
      BY <2>2, <3>1, SendsTyped DEF PoolSubscribes, TypeOK
    <3> QED
      BY <2>2, <3>2 DEF PoolSubscribes, TypeOK, mainVars, readerVars, workerVars
  <2>3. CASE PoolNotifies
    <3>1. issued + 1 \in 1..MaxJobs
      BY <2>3 DEF PoolNotifies, TypeOK
    <3>2. <<[method |-> "mining.notify", job |-> issued + 1]>> \in Seq(Message)
      BY <3>1 DEF Message
    <3>3. from_pool' \in Seq(Message)
      BY <2>3, <3>2, SendsTyped DEF PoolNotifies, TypeOK
    <3> QED
      BY <2>3, <3>1, <3>3 DEF PoolNotifies, TypeOK, mainVars, readerVars, workerVars
  <2>4. CASE PoolRetargets
    <3>1. PICK integer \in BOOLEAN :
            Sends(<<[method |-> "mining.set_difficulty", integer |-> integer]>>)
      BY <2>4 DEF PoolRetargets
    <3>2. <<[method |-> "mining.set_difficulty", integer |-> integer]>> \in Seq(Message)
      BY <3>1 DEF Message
    <3>3. from_pool' \in Seq(Message)
      BY <3>1, <3>2, SendsTyped DEF TypeOK
    <3> QED
      BY <2>4, <3>3 DEF PoolRetargets, TypeOK, mainVars, readerVars, workerVars
  <2>5. CASE ConnectionEnds
    <3>1. from_pool' \in Seq(Message)
      BY <2>5, EmptySeq DEF ConnectionEnds, TypeOK
    <3> QED
      BY <2>5, <3>1 DEF ConnectionEnds, TypeOK, readerVars, workerVars
  <2>6. CASE HandleResponse
    <3>1. from_pool' \in Seq(Message)
      BY <2>6, ReceivesTyped DEF HandleResponse, TypeOK
    <3>2. pc' \in [Worker -> {"new", "run", "build", "mine", "clear", "hash", "submit"}]
      BY <2>6 DEF HandleResponse, TypeOK
    <3>3. sent' \subseteq Method
      BY <2>6 DEF HandleResponse, TypeOK, Method
    <3>4. dropped' \in BOOLEAN
      BY <2>6 DEF HandleResponse, TypeOK
    <3> QED
      BY <2>6, <3>1, <3>2, <3>3, <3>4 DEF HandleResponse, TypeOK
  <2>7. CASE HandleDifficulty
    <3>1. from_pool' \in Seq(Message)
      BY <2>7, ReceivesTyped DEF HandleDifficulty, TypeOK
    <3> QED
      BY <2>7, <3>1 DEF HandleDifficulty, TypeOK, mainVars, readerVars, workers_told
  <2>8. CASE ReaderDies
    <3>1. Receives("mining.set_difficulty") \/ UNCHANGED from_pool
      BY <2>8 DEF ReaderDies
    <3>2. Receives("mining.set_difficulty") => from_pool' \in Seq(Message)
      BY ReceivesTyped DEF TypeOK
    <3>3. from_pool' \in Seq(Message)
      BY <3>1, <3>2 DEF TypeOK
    <3> QED
      BY <2>8, <3>3 DEF ReaderDies, TypeOK, mainVars, workerVars
  <2>9. CASE HandleNotify
    <3>1. from_pool' \in Seq(Message) /\ Head(from_pool) \in Message
          /\ Head(from_pool).method = "mining.notify"
      BY <2>9, ReceivesTyped DEF HandleNotify, TypeOK
    <3>2. Head(from_pool).job \in 1..MaxJobs
      BY <3>1 DEF Message
    <3>3. at' \in Worker /\ hand' \in 0..MaxJobs /\ reader' = "first"
      BY <2>9, <3>2 DEF HandleNotify, Worker
    <3> QED
      BY <2>9, <3>1, <3>3 DEF HandleNotify, TypeOK, mainVars, workerVars
  <2>10. CASE SetJob
    <3>1. at' \in Worker
      BY <2>10 DEF SetJob, TypeOK, Worker, last_worker
    <3>2. job' \in [Worker -> 0..MaxJobs] /\ jobUpdated' \subseteq Worker
      BY <2>10 DEF SetJob, TypeOK
    <3>3. reader' \in {"off", "read", "first", "second", "dead"}
      BY <2>10 DEF SetJob
    <3> QED
      BY <2>10, <3>1, <3>2, <3>3 DEF SetJob, TypeOK, mainVars, poolVars
  <2>11. ASSUME NEW w \in Worker, WorkerStep(w) \/ ExhaustNonces(w)
         PROVE  TypeOK'
    <3>1. CASE AwaitWork(w) \/ NextNonce(w) \/ CompareHash(w) \/ ExhaustNonces(w)
      BY <3>1 DEF AwaitWork, NextNonce, CompareHash, ExhaustNonces, Goes, OnlyPc,
         TypeOK, mainVars, poolVars, readerVars
    <3>2. CASE BuildWork(w)
      BY <3>2 DEF BuildWork, constructPrototype, Goes, TypeOK, mainVars, poolVars, readerVars
    <3>3. CASE ClearFlag(w)
      BY <3>3 DEF ClearFlag, Goes, TypeOK, mainVars, poolVars, readerVars
    <3>4. CASE SubmitShare(w)
      BY <3>4 DEF SubmitShare, submitShare, Goes, TypeOK, mainVars, poolVars, readerVars
    <3> QED
      BY <2>11, <3>1, <3>2, <3>3, <3>4 DEF WorkerStep
  <2>12. CASE UNCHANGED vars
    BY <2>12 DEF vars, TypeOK
  <2> QED
    BY <2>1, <2>2, <2>3, <2>4, <2>5, <2>6, <2>7, <2>8, <2>9, <2>10, <2>11, <2>12
       DEF Next, PoolStep, ReaderStep
<1> QED
  BY <1>1, <1>2, PTL DEF Spec

-----------------------------------------------------------------------------
(* The channel: a difficulty that sets a target stays first *)

\* What is sent goes behind a difficulty that leads.
LEMMA SendsKeepsLead ==
  ASSUME from_pool \in Seq(Message), NEW messages \in Seq(Message), Sends(messages),
         DifficultyLeads(from_pool)
  PROVE  DifficultyLeads(from_pool')
<1>1. PICK k \in 1..Len(from_pool) :
        /\ SetsTarget(from_pool[k])
        /\ \A i \in 1..k - 1 : from_pool[i].method = "result"
  BY DEF DifficultyLeads
<1>2. from_pool' = from_pool \o messages
  BY DEF Sends
<1>3. Len(from_pool) \in Nat /\ k \in 1..Len(from_pool')
  BY <1>1, <1>2
<1>4. \A i \in 1..k : from_pool'[i] = from_pool[i]
  BY <1>1, <1>2
<1>5. \A i \in 1..k - 1 : from_pool'[i].method = "result"
  BY <1>1, <1>3, <1>4
<1>6. SetsTarget(from_pool'[k])
  BY <1>1, <1>3, <1>4 DEF SetsTarget
<1> QED
  BY <1>3, <1>5, <1>6 DEF DifficultyLeads

\* An answer that is received was not the difficulty that leads.
LEMMA ResponseKeepsLead ==
  ASSUME from_pool \in Seq(Message), Receives("result"), DifficultyLeads(from_pool)
  PROVE  DifficultyLeads(from_pool')
<1>1. PICK k \in 1..Len(from_pool) :
        /\ SetsTarget(from_pool[k])
        /\ \A i \in 1..k - 1 : from_pool[i].method = "result"
  BY DEF DifficultyLeads
<1>2. /\ from_pool # <<>> /\ from_pool[1].method = "result"
      /\ from_pool' = Tail(from_pool)
  BY DEF Receives
<1>3. k # 1
  BY <1>1, <1>2 DEF SetsTarget
<1>4. Len(from_pool') = Len(from_pool) - 1
      /\ \A i \in 1..Len(from_pool) - 1 : from_pool'[i] = from_pool[i + 1]
  BY <1>2, HeadTailProperties
<1>5. k - 1 \in 1..Len(from_pool') /\ SetsTarget(from_pool'[k - 1])
  BY <1>1, <1>3, <1>4 DEF SetsTarget
<1>6. \A i \in 1..(k - 1) - 1 : from_pool'[i].method = "result"
  BY <1>1, <1>3, <1>4
<1> QED
  BY <1>5, <1>6 DEF DifficultyLeads

\* Behind a difficulty that leads, the first message is an answer or sets a
\* target.
LEMMA LeadHead ==
  ASSUME from_pool \in Seq(Message), DifficultyLeads(from_pool)
  PROVE  from_pool[1].method = "result" \/ SetsTarget(from_pool[1])
BY DEF DifficultyLeads

-----------------------------------------------------------------------------
(* The invariant, one thread at a time *)

\* The main thread changes no field the invariant reads but the reader's start.
LEMMA MainKeepsInv ==
  ASSUME TypeOK, MinerInv, MainStep
  PROVE  MinerInv'
<1>1. /\ UNCHANGED <<pc, work, job, jobUpdated, target, from_pool, changes, at, hand>>
      /\ reader' = reader \/ (reader = "off" /\ reader' = "read")
      /\ connection' = connection \/ main = "connect"
  BY DEF MainStep, Connect, StartReader, Subscribe, StoreFuture, workerVars,
     poolVars, readerVars, MinerInv, MainGoesFirst
<1>2. MainGoesFirst'
  BY DEF MainStep, Connect, StartReader, Subscribe, StoreFuture, readerVars,
     MinerInv, MainGoesFirst
<1>3. DifficultyLeads(from_pool) => DifficultyLeads(from_pool')
  BY <1>1
<1>4. DifficultyComesFirst'
  BY <1>1, <1>3 DEF MinerInv, DifficultyComesFirst, MainGoesFirst
<1>5. JobsComeAfter'
  BY <1>1 DEF MinerInv, JobsComeAfter
<1>6. StaleWorkFlagged'
  BY <1>1 DEF MinerInv, StaleWorkFlagged
<1> QED
  BY <1>2, <1>4, <1>5, <1>6 DEF MinerInv

\* The pool sends a difficulty that sets a target before anything else that is
\* no answer.
LEMMA PoolKeepsInv ==
  ASSUME TypeOK, MinerInv, PoolStep
  PROVE  MinerInv'
<1>1. /\ UNCHANGED <<pc, work, job, jobUpdated, target, at, hand, reader, main,
                     connection>>
      /\ connection = "up"
  BY DEF PoolStep, PoolSubscribes, PoolNotifies, PoolRetargets, workerVars,
     readerVars, mainVars
<1>2. MainGoesFirst' /\ JobsComeAfter' /\ StaleWorkFlagged'
  BY <1>1 DEF MinerInv, MainGoesFirst, JobsComeAfter, StaleWorkFlagged
<1>3. DifficultyComesFirst'
  <2>1. CASE target = Worker
    BY <1>1, <2>1 DEF DifficultyComesFirst
  <2>2. CASE DifficultyLeads(from_pool)
    <3>1. PICK messages \in Seq(Message) : Sends(messages)
      <4>1. CASE PoolSubscribes
        <5>1. <<[method |-> "result", id |-> 1],
                [method |-> "mining.set_difficulty", integer |-> TRUE]>>
                \in Seq(Message)
          BY DEF Message
        <5> QED
          BY <4>1, <5>1 DEF PoolSubscribes
      <4>2. CASE PoolNotifies
        <5>1. issued + 1 \in 1..MaxJobs
          BY <4>2, MinerAssumption DEF PoolNotifies, TypeOK
        <5>2. <<[method |-> "mining.notify", job |-> issued + 1]>> \in Seq(Message)
          BY <5>1 DEF Message
        <5> QED
          BY <4>2, <5>2 DEF PoolNotifies
      <4>3. CASE PoolRetargets
        <5>1. PICK integer \in BOOLEAN :
                Sends(<<[method |-> "mining.set_difficulty", integer |-> integer]>>)
          BY <4>3 DEF PoolRetargets
        <5>2. <<[method |-> "mining.set_difficulty", integer |-> integer]>>
                \in Seq(Message)
          BY <5>1 DEF Message
        <5> QED
          BY <5>1, <5>2
      <4> QED
        BY <4>1, <4>2, <4>3 DEF PoolStep
    <3>2. DifficultyLeads(from_pool')
      BY <2>2, <3>1, SendsKeepsLead DEF TypeOK
    <3> QED
      BY <3>2 DEF DifficultyComesFirst
  <2>3. CASE from_pool = <<>> /\ changes = 0
    <3>1. PoolSubscribes
      BY <2>3 DEF PoolStep, PoolNotifies, PoolRetargets
    <3>2. from_pool' = <<[method |-> "result", id |-> 1],
                         [method |-> "mining.set_difficulty", integer |-> TRUE]>>
      BY <2>3, <3>1 DEF PoolSubscribes, Sends
    <3>3. Len(from_pool') = 2 /\ SetsTarget(from_pool'[2])
          /\ from_pool'[1].method = "result"
      BY <3>2 DEF SetsTarget
    <3>4. DifficultyLeads(from_pool')
      BY <3>3 DEF DifficultyLeads
    <3> QED
      BY <3>4 DEF DifficultyComesFirst
  <2> QED
    BY <1>1, <2>1, <2>2, <2>3 DEF MinerInv, DifficultyComesFirst
<1> QED
  BY <1>2, <1>3 DEF MinerInv

\* A reset empties the channel for good.
LEMMA ConnectionKeepsInv ==
  ASSUME TypeOK, MinerInv, ConnectionEnds
  PROVE  MinerInv'
<1>1. /\ UNCHANGED <<pc, work, job, jobUpdated, target, changes, at, hand, reader, main>>
      /\ connection = "up" /\ connection' # "up"
      /\ from_pool' = from_pool \/ from_pool' = <<>>
  BY DEF ConnectionEnds, workerVars, readerVars
<1>2. MainGoesFirst' /\ JobsComeAfter' /\ StaleWorkFlagged'
  BY <1>1 DEF MinerInv, MainGoesFirst, JobsComeAfter, StaleWorkFlagged
<1>3. DifficultyComesFirst'
  <2>1. CASE from_pool' = <<>>
    BY <1>1, <2>1 DEF DifficultyComesFirst
  <2>2. CASE from_pool' = from_pool
    BY <1>1, <2>2 DEF MinerInv, DifficultyComesFirst
  <2> QED
    BY <1>1, <2>1, <2>2
<1> QED
  BY <1>2, <1>3 DEF MinerInv

\* The reader sees the difficulty that leads before a job, and before a
\* difficulty that ends it.
LEMMA ReaderKeepsInv ==
  ASSUME TypeOK, MinerInv, ReaderStep
  PROVE  MinerInv'
<1>1. CASE HandleResponse
  <2>1. /\ UNCHANGED <<main, connection, changes, reader, at, hand, job, jobUpdated,
                       target, work>>
        /\ Receives("result")
    BY <1>1 DEF HandleResponse
  <2>2. pc \in [Worker -> {"new", "run", "build", "mine", "clear", "hash", "submit"}]
    BY DEF TypeOK
  <2>3. \A w \in Worker : pc'[w] \in {"run", pc[w]}
    BY <1>1, <2>2 DEF HandleResponse
  <2>4. MainGoesFirst'
    BY <2>1 DEF MinerInv, MainGoesFirst
  <2>5. JobsComeAfter'
    BY <2>1, <2>3 DEF MinerInv, JobsComeAfter
  <2>6. StaleWorkFlagged'
    BY <2>1, <2>3 DEF MinerInv, StaleWorkFlagged
  <2>7. DifficultyLeads(from_pool) => DifficultyLeads(from_pool')
    BY <2>1, ResponseKeepsLead DEF TypeOK
  <2>8. DifficultyComesFirst'
    BY <2>1, <2>7 DEF MinerInv, DifficultyComesFirst, Receives
  <2> QED
    BY <2>4, <2>5, <2>6, <2>8 DEF MinerInv
<1>2. CASE HandleDifficulty
  <2>1. /\ UNCHANGED <<main, connection, changes, reader, at, hand, job, jobUpdated,
                       pc, work>>
        /\ target' = Worker
    BY <1>2 DEF HandleDifficulty, mainVars, readerVars, workers_told, TypeOK
  <2> QED
    BY <2>1 DEF MinerInv, MainGoesFirst, JobsComeAfter, StaleWorkFlagged,
       DifficultyComesFirst
<1>3. CASE ReaderDies
  <2>1. /\ UNCHANGED <<main, connection, changes, at, hand, job, jobUpdated, pc, work,
                       target>>
        /\ reader = "read" /\ reader' = "dead"
    BY <1>3 DEF ReaderDies, mainVars, workerVars, Receives
  <2>2. MainGoesFirst' /\ JobsComeAfter' /\ StaleWorkFlagged'
    BY <2>1 DEF MinerInv, MainGoesFirst, JobsComeAfter, StaleWorkFlagged
  <2>3. CASE Receives("mining.set_difficulty") /\ ~Head(from_pool).integer
    <3>1. from_pool # <<>> /\ ~DifficultyLeads(from_pool)
      BY <2>3, LeadHead DEF Receives, SetsTarget, TypeOK
    <3>2. target = Worker
      BY <2>3, <3>1 DEF MinerInv, DifficultyComesFirst
    <3> QED
      BY <2>1, <2>2, <3>2 DEF MinerInv, DifficultyComesFirst
  <2>4. CASE connection = "closed" /\ UNCHANGED from_pool
    BY <2>1, <2>2, <2>4 DEF MinerInv, DifficultyComesFirst
  <2> QED
    BY <1>3, <2>3, <2>4 DEF ReaderDies
<1>4. CASE HandleNotify
  <2>1. /\ UNCHANGED <<main, connection, changes, job, jobUpdated, pc, work, target>>
        /\ reader = "read" /\ reader' = "first" /\ hand' = Head(from_pool).job
    BY <1>4 DEF HandleNotify, mainVars, workerVars, Receives
  <2>2. /\ Head(from_pool) \in Message /\ Head(from_pool).method = "mining.notify"
        /\ from_pool # <<>>
    BY <1>4, ReceivesTyped DEF HandleNotify, TypeOK
  <2>3. hand' # 0
    BY <2>1, <2>2, MinerAssumption DEF Message
  <2>4. ~DifficultyLeads(from_pool)
    BY <2>2, LeadHead DEF SetsTarget, TypeOK
  <2>5. target = Worker
    BY <2>2, <2>4 DEF MinerInv, DifficultyComesFirst
  <2> QED
    BY <2>1, <2>3, <2>5 DEF MinerInv, MainGoesFirst, JobsComeAfter, StaleWorkFlagged,
       DifficultyComesFirst
<1>5. CASE SetJob
  <2>1. /\ UNCHANGED <<main, connection, changes, from_pool, hand, pc, target, work>>
        /\ reader \in {"first", "second"}
    BY <1>5 DEF SetJob, mainVars, poolVars
  <2>2. target = Worker /\ hand # 0
    BY <2>1 DEF MinerInv, JobsComeAfter
  <2>3. MainGoesFirst'
    BY <2>1 DEF MinerInv, MainGoesFirst
  <2>4. \A w \in Worker : job[w] # 0 => job'[w] # 0
    BY <1>5, <2>2 DEF SetJob, TypeOK
  <2>5. JobsComeAfter'
    BY <2>1, <2>2, <2>4 DEF MinerInv, JobsComeAfter
  <2>6. StaleWorkFlagged'
    <3>1. CASE reader = "first"
      <4>1. /\ job' = [job EXCEPT ![at] = hand] /\ reader' = "second"
            /\ UNCHANGED <<jobUpdated, at>>
        BY <1>5, <3>1 DEF SetJob, stores_job
      <4>2. \A w \in Worker : w # at => job'[w] = job[w]
        BY <4>1 DEF TypeOK
      <4> QED
        BY <2>1, <3>1, <4>1, <4>2 DEF MinerInv, StaleWorkFlagged
    <3>2. CASE reader = "second"
      <4>1. jobUpdated' = jobUpdated \cup {at} /\ UNCHANGED job
        BY <1>5, <3>2 DEF SetJob, stores_job
      <4> QED
        BY <2>1, <3>2, <4>1 DEF MinerInv, StaleWorkFlagged
    <3> QED
      BY <2>1, <3>1, <3>2
  <2>7. DifficultyComesFirst'
    BY <2>1, <2>2 DEF DifficultyComesFirst
  <2> QED
    BY <2>3, <2>5, <2>6, <2>7 DEF MinerInv
<1> QED
  BY <1>1, <1>2, <1>3, <1>4, <1>5 DEF ReaderStep

\* A mining thread works only with a job, and forgets its flag only when it goes
\* to build from the job anew.
LEMMA WorkerKeepsInv ==
  ASSUME TypeOK, MinerInv, NEW w \in Worker, WorkerStep(w) \/ ExhaustNonces(w)
  PROVE  MinerInv'
<1>1. UNCHANGED <<main, connection, changes, from_pool, reader, at, hand, job, target>>
  BY DEF WorkerStep, AwaitWork, BuildWork, NextNonce, ClearFlag, CompareHash,
     SubmitShare, ExhaustNonces, OnlyPc, mainVars, poolVars, readerVars
<1>2. MainGoesFirst' /\ DifficultyComesFirst'
  BY <1>1 DEF MinerInv, MainGoesFirst, DifficultyComesFirst
<1>3. \A v \in Worker : v # w =>
        pc'[v] = pc[v] /\ work'[v] = work[v] /\ (v \in jobUpdated' <=> v \in jobUpdated)
  BY DEF WorkerStep, AwaitWork, BuildWork, NextNonce, ClearFlag, CompareHash,
     SubmitShare, submitShare, constructPrototype, ExhaustNonces, Goes, OnlyPc, TypeOK
<1>4. JobsComeAfter'
  <2>1. pc'[w] \notin {"new", "run"} => job[w] # 0
    BY DEF WorkerStep, AwaitWork, BuildWork, NextNonce, ClearFlag, CompareHash,
       SubmitShare, submitShare, constructPrototype, ExhaustNonces, Goes, TypeOK, MinerInv, JobsComeAfter
  <2> QED
    BY <1>1, <1>3, <2>1 DEF MinerInv, JobsComeAfter
<1>5. StaleWorkFlagged'
  <2>1. pc'[w] \in {"mine", "hash", "submit"} =>
          \/ work'[w] = job[w]
          \/ /\ pc[w] \in {"mine", "hash", "submit"}
             /\ work'[w] = work[w] /\ jobUpdated' = jobUpdated
    BY DEF WorkerStep, AwaitWork, BuildWork, NextNonce, ClearFlag, CompareHash,
       SubmitShare, submitShare, constructPrototype, ExhaustNonces, Goes, OnlyPc, TypeOK
  <2> QED
    BY <1>1, <1>3, <2>1 DEF MinerInv, StaleWorkFlagged
<1> QED
  BY <1>2, <1>4, <1>5 DEF MinerInv

\* The inductive invariant holds: the order of answer, difficulty and job on the
\* connection carries over to the workers, and no raised flag is forgotten.
THEOREM MinerInvariant == Spec => []MinerInv
<1>1. Init => MinerInv
  BY DEF Init, MinerInv, MainGoesFirst, DifficultyComesFirst, JobsComeAfter,
     StaleWorkFlagged
<1>2. TypeOK /\ MinerInv /\ [Next]_vars => MinerInv'
  <2> SUFFICES ASSUME TypeOK, MinerInv, [Next]_vars
               PROVE  MinerInv'
    OBVIOUS
  <2>1. CASE UNCHANGED vars
    BY <2>1 DEF vars, MinerInv, MainGoesFirst, DifficultyComesFirst, JobsComeAfter,
       StaleWorkFlagged
  <2> QED
    BY <2>1, MainKeepsInv, PoolKeepsInv, ConnectionKeepsInv, ReaderKeepsInv,
       WorkerKeepsInv DEF Next
<1> QED
  BY <1>1, <1>2, TypeCorrect, PTL DEF Spec

-----------------------------------------------------------------------------
(* What the runs check *)

\* No mining thread compares a hash with a target it does not have.
THEOREM TargetBeforeAnyWork == Spec => []TargetBeforeWork
<1>1. MinerInv => TargetBeforeWork
  BY DEF MinerInv, JobsComeAfter, TargetBeforeWork
<1> QED
  BY <1>1, MinerInvariant, PTL

\* Whatever way the two writes of setJob fall among the steps of the mining
\* loop, a thread that mines on an old job has its flag raised or is about to.
THEOREM NoHandOverLost == Spec => []StaleWorkFlagged
<1>1. MinerInv => StaleWorkFlagged
  BY DEF MinerInv
<1> QED
  BY <1>1, MinerInvariant, PTL

-----------------------------------------------------------------------------
(* The order of jobs, from the pool to the shares *)

IsNotify(m) == m.method = "mining.notify"

\* Jobs are on their way in the order of their numbers, behind those that were
\* handed over already.
JobsQueued ==
  /\ hand <= issued
  /\ \A i \in 1..Len(from_pool) : IsNotify(from_pool[i]) =>
       hand < from_pool[i].job /\ from_pool[i].job <= issued
  /\ \A i, k \in 1..Len(from_pool) :
       i < k /\ IsNotify(from_pool[i]) /\ IsNotify(from_pool[k])
         => from_pool[i].job < from_pool[k].job

\* No thread has a job the reader has not, and none solves or names one that is
\* newer than its own.
JobsRise ==
  /\ \A w \in Worker : job[w] <= hand /\ work[w] <= job[w]
  /\ \A s \in submitted : s.work <= s.job

\* The reader's loop has come past a worker, or there is no loop.
Handed(w) ==
  reader \in {"first", "second"} => w < at \/ (w = at /\ reader = "second")

HandedOver == \A w \in Worker : Handed(w) => job[w] = hand

\* The workers were started, or the answer that would start them was lost on a
\* future that was not stored yet.
Started == dropped \/ \A w \in Worker : pc[w] # "new"

\* Until then the answer is the first message on the connection, and the reader
\* is there to take it.
AnswerLeads ==
  /\ changes = 0 => from_pool = <<>>
  /\ "mining.subscribe" \in sent => main \in {"store", "gate"}
  /\ main \in {"subscribe", "store", "gate"} => reader # "off"
  /\ ~Started /\ connection = "up" => reader \in {"off", "read"}
  /\ ~Started /\ connection = "up" /\ changes > 0
       => from_pool # <<>> /\ Head(from_pool).method = "result"

OrderInv == JobsQueued /\ JobsRise /\ HandedOver /\ AnswerLeads

\* A message that is sent goes behind those that are.
LEMMA SendKeepsQueue ==
  ASSUME from_pool \in Seq(Message), issued \in Nat, hand \in Nat, JobsQueued,
         NEW m \in Message, from_pool' = Append(from_pool, m), hand' = hand,
         IF IsNotify(m) THEN m.job = issued + 1 /\ issued' = issued + 1
                        ELSE issued' = issued
  PROVE  JobsQueued'
<1> DEFINE n == Len(from_pool)
<1>1. /\ n \in Nat /\ Len(from_pool') = n + 1 /\ from_pool'[n + 1] = m
      /\ \A i \in 1..n : from_pool'[i] = from_pool[i]
  OBVIOUS
<1>2. issued <= issued' /\ issued' \in Nat
  OBVIOUS
<1>3. \A i \in 1..n : IsNotify(from_pool[i]) =>
        /\ from_pool[i].job \in Nat
        /\ hand < from_pool[i].job /\ from_pool[i].job <= issued
  <2> SUFFICES ASSUME NEW i \in 1..n, IsNotify(from_pool[i])
               PROVE  from_pool[i].job \in Nat
    BY DEF JobsQueued
  <2>1. from_pool[i] \in Message
    OBVIOUS
  <2> QED BY <2>1, MinerAssumption DEF Message, IsNotify
<1>4. IsNotify(m) => m.job = issued + 1 /\ issued' = issued + 1
  OBVIOUS
<1>5. hand' <= issued'
  BY <1>2 DEF JobsQueued
<1>6. ASSUME NEW i \in 1..n + 1, IsNotify(from_pool'[i])
      PROVE  hand' < from_pool'[i].job /\ from_pool'[i].job <= issued'
  <2>1. CASE i \in 1..n
    <3>1. from_pool'[i] = from_pool[i]
      BY <1>1, <2>1
    <3> QED BY <1>2, <1>3, <1>6, <2>1, <3>1
  <2>2. CASE i = n + 1
    <3>1. from_pool'[i] = m
      BY <1>1, <2>2
    <3> QED BY <1>4, <1>6, <3>1 DEF JobsQueued
  <2> QED BY <1>1, <2>1, <2>2
<1>7. ASSUME NEW i \in 1..n + 1, NEW k \in 1..n + 1, i < k,
             IsNotify(from_pool'[i]), IsNotify(from_pool'[k])
      PROVE  from_pool'[i].job < from_pool'[k].job
  <2>1. i \in 1..n /\ from_pool'[i] = from_pool[i]
    BY <1>1, <1>7
  <2>2. CASE k \in 1..n
    <3>1. from_pool'[k] = from_pool[k]
      BY <1>1, <2>2
    <3> QED BY <1>7, <2>1, <2>2, <3>1 DEF JobsQueued
  <2>3. CASE k = n + 1
    <3>1. from_pool'[k] = m
      BY <1>1, <2>3
    <3> QED BY <1>3, <1>4, <1>7, <2>1, <3>1
  <2> QED BY <1>1, <2>2, <2>3
<1> QED BY <1>1, <1>5, <1>6, <1>7 DEF JobsQueued

\* A message that is read was the first; if it is a job, it is the one handed
\* over next.
LEMMA ReadKeepsQueue ==
  ASSUME from_pool \in Seq(Message), issued \in Nat, hand \in Nat, JobsQueued,
         from_pool # <<>>, from_pool' = Tail(from_pool), issued' = issued,
         \/ hand' = hand
         \/ IsNotify(Head(from_pool)) /\ hand' = Head(from_pool).job
  PROVE  JobsQueued' /\ hand <= hand' /\ hand' \in Nat
<1> DEFINE n == Len(from_pool)
<1>1. /\ n \in Nat /\ n >= 1 /\ Len(from_pool') = n - 1
      /\ \A i \in 1..n - 1 : from_pool'[i] = from_pool[i + 1]
      /\ Head(from_pool) = from_pool[1] /\ 1 \in 1..n
  BY HeadTailProperties
<1>2. CASE hand' = hand
  <2>1. \A i \in 1..n - 1 : i + 1 \in 1..n
    BY <1>1
  <2> QED BY <1>1, <1>2, <2>1 DEF JobsQueued
<1>3. CASE IsNotify(Head(from_pool)) /\ hand' = Head(from_pool).job
  <2>1. from_pool[1] \in Message /\ IsNotify(from_pool[1]) /\ hand' = from_pool[1].job
    BY <1>1, <1>3
  <2>2. hand' \in Nat
    BY <2>1, MinerAssumption DEF Message, IsNotify
  <2>3. hand < hand' /\ hand' <= issued
    BY <1>1, <2>1 DEF JobsQueued
  <2>4. ASSUME NEW i \in 1..n - 1, IsNotify(from_pool'[i])
        PROVE  hand' < from_pool'[i].job /\ from_pool'[i].job <= issued
    <3>1. i + 1 \in 1..n /\ 1 < i + 1 /\ from_pool'[i] = from_pool[i + 1]
      BY <1>1
    <3> QED BY <1>1, <2>1, <2>4, <3>1 DEF JobsQueued
  <2>5. ASSUME NEW i \in 1..n - 1, NEW k \in 1..n - 1, i < k,
               IsNotify(from_pool'[i]), IsNotify(from_pool'[k])
        PROVE  from_pool'[i].job < from_pool'[k].job
    <3>1. i + 1 \in 1..n /\ from_pool'[i] = from_pool[i + 1]
      BY <1>1
    <3>2. k + 1 \in 1..n /\ from_pool'[k] = from_pool[k + 1] /\ i + 1 < k + 1
      BY <1>1, <2>5
    <3> QED BY <2>5, <3>1, <3>2 DEF JobsQueued
  <2>6. JobsQueued'
    BY <1>1, <2>3, <2>4, <2>5 DEF JobsQueued
  <2> QED BY <2>2, <2>3, <2>6
<1> QED BY <1>2, <1>3

\* The numbers of jobs are numbers.
LEMMA JobNumbers ==
  ASSUME TypeOK
  PROVE  /\ hand \in Nat /\ issued \in Nat /\ changes \in Nat /\ at \in Nat
         /\ \A w \in Worker : job[w] \in Nat /\ work[w] \in Nat /\ w \in Nat
BY MinerAssumption DEF TypeOK, Worker

\* The main thread: the reader runs before the subscription is sent.
LEMMA MainKeepsOrder ==
  ASSUME TypeOK, MinerInv, OrderInv, MainStep
  PROVE  OrderInv'
<1>1. /\ UNCHANGED <<pc, work, job, submitted, from_pool, issued, changes, at, hand,
                     dropped>>
      /\ \/ reader' = reader
         \/ reader = "off" /\ reader' = "read"
      /\ connection' = connection \/ (main = "connect" /\ changes = 0)
  BY DEF MainStep, Connect, StartReader, Subscribe, StoreFuture, workerVars,
     poolVars, readerVars, MinerInv, MainGoesFirst
<1>2. JobsQueued' /\ JobsRise' /\ HandedOver' /\ (Started' <=> Started)
  BY <1>1 DEF OrderInv, JobsQueued, JobsRise, HandedOver, Handed, Started
<1>3. AnswerLeads'
  <2>1. changes' = 0 => from_pool' = <<>>
    BY <1>1 DEF OrderInv, AnswerLeads
  <2>2. /\ "mining.subscribe" \in sent' => main' \in {"store", "gate"}
        /\ main' \in {"subscribe", "store", "gate"} => reader' # "off"
    <3>1. CASE Connect \/ StartReader
      BY <3>1 DEF Connect, StartReader, readerVars, OrderInv, AnswerLeads
    <3>2. CASE Subscribe \/ StoreFuture
      BY <3>2 DEF Subscribe, StoreFuture, readerVars, OrderInv, AnswerLeads
    <3> QED BY <3>1, <3>2 DEF MainStep
  <2>3. ~Started' /\ connection' = "up" => reader' \in {"off", "read"}
    BY <1>1, <1>2 DEF MinerInv, MainGoesFirst, OrderInv, AnswerLeads
  <2>4. ~Started' /\ connection' = "up" /\ changes' > 0
          => from_pool' # <<>> /\ Head(from_pool').method = "result"
    BY <1>1, <1>2 DEF OrderInv, AnswerLeads
  <2> QED BY <2>1, <2>2, <2>3, <2>4 DEF AnswerLeads
<1> QED BY <1>2, <1>3 DEF OrderInv

\* What the pool sends goes behind what it sent.
LEMMA PoolKeepsOrder ==
  ASSUME TypeOK, OrderInv, PoolStep
  PROVE  OrderInv'
<1>1. UNCHANGED <<main, connection, sent, pc, work, job, submitted, reader, at, hand,
                  dropped>>
  BY DEF PoolStep, PoolSubscribes, PoolNotifies, PoolRetargets, mainVars, readerVars,
     workerVars
<1>2. JobsRise' /\ HandedOver' /\ (Started' <=> Started)
  BY <1>1 DEF OrderInv, JobsRise, HandedOver, Handed, Started
<1>3. from_pool \in Seq(Message) /\ hand \in Nat /\ issued \in Nat /\ changes \in Nat
  BY JobNumbers DEF TypeOK
<1>4. /\ "mining.subscribe" \in sent' => main' \in {"store", "gate"}
      /\ main' \in {"subscribe", "store", "gate"} => reader' # "off"
      /\ ~Started' /\ connection' = "up" => reader' \in {"off", "read"}
  BY <1>1, <1>2 DEF OrderInv, AnswerLeads
<1>5. CASE PoolSubscribes
  <2> DEFINE r == [method |-> "result", id |-> 1]
             d == [method |-> "mining.set_difficulty", integer |-> TRUE]
  <2>1. from_pool = <<>> /\ changes' = 1 /\ issued' = issued
    BY <1>5 DEF PoolSubscribes, OrderInv, AnswerLeads
  <2>2. from_pool' = <<r, d>>
    BY <1>5, <2>1 DEF PoolSubscribes, Sends
  <2>3. /\ Len(from_pool') = 2 /\ from_pool' # <<>>
        /\ Head(from_pool').method = "result"
        /\ \A i \in 1..2 : ~IsNotify(from_pool'[i])
    BY <2>2 DEF IsNotify
  <2>4. JobsQueued'
    BY <1>1, <2>1, <2>3 DEF OrderInv, JobsQueued
  <2> QED BY <1>2, <1>4, <2>1, <2>3, <2>4 DEF OrderInv, AnswerLeads
<1>6. CASE PoolNotifies \/ PoolRetargets
  <2>1. PICK m \in Message :
          /\ from_pool' = Append(from_pool, m)
          /\ IF IsNotify(m) THEN m.job = issued + 1 /\ issued' = issued + 1
                            ELSE issued' = issued
    <3>1. CASE PoolNotifies
      <4> DEFINE m == [method |-> "mining.notify", job |-> issued + 1]
      <4>1. m \in Message
        BY <1>3, <3>1, MinerAssumption DEF PoolNotifies, Message
      <4>2. from_pool' = Append(from_pool, m) /\ issued' = issued + 1
        BY <1>3, <3>1, <4>1 DEF PoolNotifies, Sends
      <4>3. IsNotify(m) /\ m.job = issued + 1
        BY DEF IsNotify
      <4> QED BY <4>1, <4>2, <4>3
    <3>2. CASE PoolRetargets
      <4>1. PICK integer \in BOOLEAN :
              Sends(<<[method |-> "mining.set_difficulty", integer |-> integer]>>)
        BY <3>2 DEF PoolRetargets
      <4> DEFINE m == [method |-> "mining.set_difficulty", integer |-> integer]
      <4>2. m \in Message
        BY DEF Message
      <4>3. from_pool' = Append(from_pool, m) /\ issued' = issued
        BY <1>3, <3>2, <4>1, <4>2 DEF PoolRetargets, Sends
      <4>4. ~IsNotify(m)
        BY DEF IsNotify
      <4> QED BY <4>2, <4>3, <4>4
    <3> QED BY <1>6, <3>1, <3>2
  <2>2. JobsQueued'
    BY <1>1, <1>3, <2>1, SendKeepsQueue DEF OrderInv
  <2>3. changes > 0 /\ changes' > 0
    BY <1>3, <1>6 DEF PoolNotifies, PoolRetargets
  <2>4. /\ from_pool' # <<>>
        /\ from_pool # <<>> => Head(from_pool') = Head(from_pool)
    BY <1>3, <2>1
  <2>5. ~Started' /\ connection' = "up" /\ changes' > 0
          => from_pool' # <<>> /\ Head(from_pool').method = "result"
    BY <1>1, <1>2, <2>3, <2>4 DEF OrderInv, AnswerLeads
  <2> QED BY <1>2, <1>4, <2>2, <2>3, <2>5 DEF OrderInv, AnswerLeads
<1> QED BY <1>5, <1>6 DEF PoolStep

\* The end of a connection leaves the queue as it is, or empty.
LEMMA ConnectionKeepsOrder ==
  ASSUME TypeOK, OrderInv, ConnectionEnds
  PROVE  OrderInv'
<1>1. /\ UNCHANGED <<main, sent, issued, changes, pc, work, job, submitted, reader, at,
                     hand, dropped>>
      /\ connection' # "up"
      /\ from_pool' = from_pool \/ from_pool' = <<>>
  BY DEF ConnectionEnds, readerVars, workerVars
<1>2. JobsRise' /\ HandedOver' /\ (Started' <=> Started)
  BY <1>1 DEF OrderInv, JobsRise, HandedOver, Handed, Started
<1>3. JobsQueued'
  <2>1. CASE from_pool' = from_pool
    BY <1>1, <2>1 DEF OrderInv, JobsQueued
  <2>2. CASE from_pool' = <<>>
    BY <1>1, <2>2 DEF OrderInv, JobsQueued
  <2> QED BY <1>1, <2>1, <2>2
<1>4. AnswerLeads'
  BY <1>1, <1>2 DEF OrderInv, AnswerLeads
<1> QED BY <1>2, <1>3, <1>4 DEF OrderInv

\* Receiving takes the head of the queue.
LEMMA ReceiveTakesHead ==
  ASSUME NEW method, Receives(method)
  PROVE  /\ reader = "read" /\ from_pool # <<>>
         /\ Head(from_pool).method = method /\ from_pool' = Tail(from_pool)
BY DEF Receives

\* The reader: the answer comes first, and a job that is read is newer than any
\* that was handed over.
LEMMA ReaderKeepsOrder ==
  ASSUME TypeOK, MinerInv, OrderInv, ReaderStep
  PROVE  OrderInv'
<1> USE DEF OrderInv
<1>1. /\ from_pool \in Seq(Message)
      /\ hand \in Nat /\ issued \in Nat /\ changes \in Nat /\ at \in Nat
      /\ \A w \in Worker : job[w] \in Nat /\ work[w] \in Nat /\ w \in Nat
  BY JobNumbers DEF TypeOK
<1>2. CASE HandleResponse
  <2>1. /\ reader = "read" /\ from_pool # <<>> /\ from_pool' = Tail(from_pool)
    BY <1>2, ReceiveTakesHead DEF HandleResponse
  <2>2. /\ UNCHANGED <<main, connection, issued, changes, reader, at, hand, job, work,
                       submitted>>
        /\ sent' \subseteq sent \cup {"mining.authorize"}
    BY <1>2 DEF HandleResponse
  <2>3. JobsQueued'
    BY <1>1, <2>1, <2>2, ReadKeepsQueue
  <2>4. JobsRise' /\ HandedOver'
    BY <2>2 DEF JobsRise, HandedOver, Handed
  <2>5. Started'
    <3>1. CASE Head(from_pool).id \in requests
      <4>1. \A w \in Worker : pc'[w] = "run"
        BY <1>2, <3>1 DEF HandleResponse, workers_started
      <4> QED BY <4>1 DEF Started
    <3>2. CASE Head(from_pool).id \notin requests
      BY <1>2, <3>2 DEF HandleResponse, Started
    <3> QED BY <3>1, <3>2
  <2>6. changes # 0
    BY <2>1 DEF AnswerLeads
  <2>7. AnswerLeads'
    BY <2>2, <2>5, <2>6 DEF AnswerLeads
  <2> QED BY <2>3, <2>4, <2>7
<1>3. CASE HandleDifficulty \/ (ReaderDies /\ from_pool' # from_pool)
  <2>1. /\ reader = "read" /\ from_pool # <<>> /\ from_pool' = Tail(from_pool)
        /\ Head(from_pool).method = "mining.set_difficulty"
    BY <1>3, ReceiveTakesHead DEF HandleDifficulty, ReaderDies
  <2>2. /\ UNCHANGED <<main, connection, sent, issued, changes, at, hand, pc, job, work,
                       submitted, dropped>>
        /\ reader' \in {"read", "dead"}
    BY <1>3, <2>1 DEF HandleDifficulty, ReaderDies, mainVars, readerVars, workerVars
  <2>3. JobsQueued'
    BY <1>1, <2>1, <2>2, ReadKeepsQueue
  <2>4. JobsRise' /\ HandedOver' /\ (Started' <=> Started)
    BY <2>1, <2>2 DEF JobsRise, HandedOver, Handed, Started
  <2>5. changes > 0
    BY <1>1, <2>1 DEF AnswerLeads
  <2>6. Started \/ connection # "up"
    BY <2>1, <2>5 DEF AnswerLeads
  <2>7. AnswerLeads'
    BY <2>2, <2>4, <2>5, <2>6 DEF AnswerLeads
  <2> QED BY <2>3, <2>4, <2>7
<1>4. CASE ReaderDies /\ from_pool' = from_pool
  <2>1. /\ UNCHANGED <<main, connection, sent, from_pool, issued, changes, at, hand, pc,
                       job, work, submitted, dropped>>
        /\ reader = "read" /\ reader' = "dead"
    BY <1>4, ReceiveTakesHead DEF ReaderDies, mainVars, workerVars
  <2>2. connection # "up"
    <3>1. CASE Receives("mining.set_difficulty")
      <4>1. from_pool # <<>> /\ Tail(from_pool) = from_pool
        BY <1>4, <3>1, ReceiveTakesHead
      <4>2. Len(from_pool) \in Nat
        BY <1>1
      <4>3. from_pool # <<>> => Len(Tail(from_pool)) = Len(from_pool) - 1
        BY <1>1, HeadTailProperties
      <4>4. Len(Tail(from_pool)) = Len(from_pool)
        BY <4>1
      <4> QED BY <4>1, <4>2, <4>3, <4>4
    <3>2. CASE ~Receives("mining.set_difficulty")
      BY <1>4, <3>2 DEF ReaderDies
    <3> QED BY <3>1, <3>2
  <2>3. JobsQueued' /\ JobsRise' /\ HandedOver'
    BY <2>1 DEF JobsQueued, JobsRise, HandedOver, Handed
  <2>4. AnswerLeads'
    BY <2>1, <2>2 DEF AnswerLeads
  <2> QED BY <2>3, <2>4
<1>5. CASE HandleNotify
  <2>1. /\ reader = "read" /\ from_pool # <<>> /\ from_pool' = Tail(from_pool)
        /\ Head(from_pool).method = "mining.notify" /\ hand' = Head(from_pool).job
    BY <1>5, ReceiveTakesHead DEF HandleNotify
  <2>2. /\ UNCHANGED <<main, connection, sent, issued, changes, pc, job, work,
                       submitted, dropped>>
        /\ reader' = "first" /\ at' = 1
    BY <1>5 DEF HandleNotify, mainVars, workerVars
  <2>3. JobsQueued' /\ hand <= hand' /\ hand' \in Nat
    BY <1>1, <2>1, <2>2, ReadKeepsQueue DEF IsNotify
  <2>4. JobsRise'
    BY <1>1, <2>2, <2>3 DEF JobsRise
  <2>5. HandedOver'
    BY <2>2 DEF HandedOver, Handed, Worker
  <2>6. Started' <=> Started
    BY <2>2 DEF Started
  <2>7. changes > 0
    BY <1>1, <2>1 DEF AnswerLeads
  <2>8. Started \/ connection # "up"
    BY <2>1, <2>7 DEF AnswerLeads
  <2>9. AnswerLeads'
    BY <2>2, <2>6, <2>7, <2>8 DEF AnswerLeads
  <2> QED BY <2>3, <2>4, <2>5, <2>9
<1>6. CASE SetJob
  <2>1. /\ UNCHANGED <<main, connection, sent, from_pool, issued, changes, hand, pc,
                       work, submitted, dropped>>
        /\ reader \in {"first", "second"} /\ reader' \in {"read", "first", "second"}
    BY <1>6 DEF SetJob, mainVars, poolVars
  <2>2. JobsQueued' /\ (Started' <=> Started)
    BY <2>1 DEF JobsQueued, Started
  <2>3. job \in [Worker -> 0..MaxJobs] /\ at \in Worker
    BY DEF TypeOK
  <2>4. ASSUME reader = "first"
        PROVE  JobsRise' /\ HandedOver'
    <3>1. job' = [job EXCEPT ![at] = hand] /\ reader' = "second" /\ at' = at
      BY <1>6, <2>4 DEF SetJob, stores_job
    <3>2. job'[at] = hand /\ \A w \in Worker : w # at => job'[w] = job[w]
      BY <2>3, <3>1
    <3>3. HandedOver'
      <4> SUFFICES ASSUME NEW w \in Worker, w < at \/ w = at
                   PROVE  job'[w] = hand
        BY <2>1, <3>1 DEF HandedOver, Handed
      <4>1. CASE w = at
        BY <3>2, <4>1
      <4>2. CASE w # at
        BY <2>4, <3>2, <4>2 DEF HandedOver, Handed
      <4> QED BY <4>1, <4>2
    <3>4. JobsRise'
      <4>1. \A w \in Worker : job'[w] <= hand /\ work[w] <= job'[w]
        <5> SUFFICES ASSUME NEW w \in Worker
                     PROVE  job'[w] <= hand /\ work[w] <= job'[w]
          OBVIOUS
        <5>1. work[w] <= job[w] /\ job[w] <= hand
          BY DEF JobsRise
        <5>2. CASE w = at
          BY <1>1, <3>2, <5>1, <5>2
        <5>3. CASE w # at
          BY <3>2, <5>1, <5>3
        <5> QED BY <5>2, <5>3
      <4> QED BY <2>1, <4>1 DEF JobsRise
    <3> QED BY <3>3, <3>4
  <2>5. ASSUME reader = "second"
        PROVE  JobsRise' /\ HandedOver'
    <3>1. /\ job' = job
          /\ \/ at = NWorkers /\ reader' = "read"
             \/ reader' = "first" /\ at' = at + 1
      BY <1>6, <2>5 DEF SetJob, stores_job, last_worker
    <3>2. JobsRise'
      BY <2>1, <3>1 DEF JobsRise
    <3>3. \A w \in Worker : w <= at => job[w] = hand
      BY <1>1, <2>5 DEF HandedOver, Handed
    <3>4. HandedOver'
      <4>1. CASE at = NWorkers /\ reader' = "read"
        BY <2>1, <3>1, <3>3, <4>1, MinerAssumption DEF HandedOver, Handed, Worker
      <4>2. CASE reader' = "first" /\ at' = at + 1
        <5>1. \A w \in Worker : w < at + 1 => w <= at
          BY <1>1
        <5> QED BY <2>1, <3>1, <3>3, <4>2, <5>1 DEF HandedOver, Handed
      <4> QED BY <3>1, <4>1, <4>2
    <3> QED BY <3>2, <3>4
  <2>6. AnswerLeads'
    BY <2>1, <2>2 DEF AnswerLeads
  <2> QED BY <2>1, <2>2, <2>4, <2>5, <2>6
<1> QED BY <1>2, <1>3, <1>4, <1>5, <1>6 DEF ReaderStep

\* A mining thread builds from its own job, and names it in its shares.
LEMMA WorkerKeepsOrder ==
  ASSUME TypeOK, OrderInv, NEW w \in Worker, WorkerStep(w) \/ ExhaustNonces(w)
  PROVE  OrderInv'
<1> USE DEF OrderInv
<1>1. /\ UNCHANGED <<main, connection, sent, from_pool, issued, changes, reader, at,
                     hand, dropped, job>>
      /\ \E to \in {"run", "build", "mine", "clear", "hash", "submit"} :
           pc' = [pc EXCEPT ![w] = to]
  BY DEF WorkerStep, AwaitWork, BuildWork, NextNonce, ClearFlag, CompareHash,
     SubmitShare, ExhaustNonces, OnlyPc, Goes, mainVars, poolVars, readerVars
<1>2. \A v \in Worker : pc'[v] = "new" => pc[v] = "new"
  BY <1>1 DEF TypeOK
<1>3. Started => Started'
  BY <1>1, <1>2 DEF Started
<1>4. JobsQueued' /\ HandedOver' /\ AnswerLeads'
  BY <1>1, <1>3 DEF JobsQueued, HandedOver, Handed, AnswerLeads
<1>5. /\ hand \in Nat
      /\ \A v \in Worker : job[v] \in Nat /\ work[v] \in Nat
  BY JobNumbers
<1>6. \A v \in Worker : work'[v] = work[v] \/ work'[v] = job[v]
  <2>1. work' = work \/ work' = [work EXCEPT ![w] = job[w]]
    BY DEF WorkerStep, AwaitWork, BuildWork, NextNonce, ClearFlag, CompareHash,
       SubmitShare, ExhaustNonces, OnlyPc, constructPrototype
  <2> QED BY <2>1 DEF TypeOK
<1>7. submitted' = submitted \/ submitted' = submitted \cup {submitShare(w)}
  BY DEF WorkerStep, AwaitWork, BuildWork, NextNonce, ClearFlag, CompareHash,
     SubmitShare, ExhaustNonces, OnlyPc
<1>8. \A v \in Worker : job'[v] <= hand' /\ work'[v] <= job'[v]
  BY <1>1, <1>5, <1>6 DEF JobsRise
<1>9. \A s \in submitted' : s.work <= s.job
  BY <1>7 DEF JobsRise, submitShare
<1> QED BY <1>4, <1>8, <1>9 DEF JobsRise

\* The invariant behind the theorems below: from the pool to the shares, jobs
\* keep the order the pool gave them, and the answer to the subscription keeps
\* its place before them.
THEOREM OrderInvariant == Spec => []OrderInv
<1>1. Init => OrderInv
  BY MinerAssumption DEF Init, OrderInv, JobsQueued, JobsRise, HandedOver, Handed,
     AnswerLeads, Started, Worker
<1>2. ASSUME TypeOK, MinerInv, OrderInv, [Next]_vars
      PROVE  OrderInv'
  <2>1. CASE MainStep
    BY <1>2, <2>1, MainKeepsOrder
  <2>2. CASE PoolStep
    BY <1>2, <2>2, PoolKeepsOrder
  <2>3. CASE ConnectionEnds
    BY <1>2, <2>3, ConnectionKeepsOrder
  <2>4. CASE ReaderStep
    BY <1>2, <2>4, ReaderKeepsOrder
  <2>5. ASSUME NEW w \in Worker, WorkerStep(w) \/ ExhaustNonces(w)
        PROVE  OrderInv'
    BY <1>2, <2>5, WorkerKeepsOrder
  <2>6. CASE UNCHANGED vars
    BY <1>2, <2>6 DEF vars, OrderInv, JobsQueued, JobsRise, HandedOver, Handed,
       AnswerLeads, Started
  <2> QED BY <1>2, <2>1, <2>2, <2>3, <2>4, <2>5, <2>6 DEF Next
<1> QED BY <1>1, <1>2, TypeCorrect, MinerInvariant, PTL DEF Spec

\* "ID of job ... which the current solution is based on" fails in one direction
\* only: a share names the job it solves or one that is newer, and never one
\* that the pool had withdrawn before it sent the solved one.
THEOREM SharesNameNoOlderJob == Spec => [](\A s \in submitted : s.work <= s.job)
<1>1. OrderInv => \A s \in submitted : s.work <= s.job
  BY DEF OrderInv, JobsRise
<1> QED BY <1>1, OrderInvariant, PTL

\* When the reader is not in the middle of a hand-over, a mining thread that does
\* not see its flag raised works on the newest job that was read.
NewestOrFlagged ==
  reader \in {"read", "dead"} =>
    \A w \in Worker :
      pc[w] \in {"mine", "hash", "submit"} /\ w \notin jobUpdated => work[w] = hand

\* What is missing to HandedJobIsMined is that the threads go on: once the loop
\* over the workers is done, whoever mines something older than the newest job
\* has its flag raised.
THEOREM NewestJobOrFlag == Spec => []NewestOrFlagged
<1>1. MinerInv /\ OrderInv => NewestOrFlagged
  BY DEF MinerInv, StaleWorkFlagged, OrderInv, HandedOver, Handed, NewestOrFlagged
<1> QED BY <1>1, MinerInvariant, OrderInvariant, PTL

\* A subscription that is out, on a connection that is up, with threads that do
\* not run yet: the pool did not answer, or the reader is about to read the
\* answer.
StartPending ==
  "mining.subscribe" \in sent /\ connection = "up" /\ ~Started =>
    \/ changes = 0
    \/ reader = "read" /\ from_pool # <<>> /\ Head(from_pool).method = "result"

\* What is missing to MiningStarts is that the pool answers and the reader reads:
\* nothing else can keep the threads from running.
THEOREM OnlyTheAnswerIsMissing == Spec => []StartPending
<1>1. TypeOK /\ OrderInv => StartPending
  <2> SUFFICES ASSUME TypeOK, OrderInv, "mining.subscribe" \in sent,
                      connection = "up", ~Started, changes # 0
               PROVE  reader = "read" /\ from_pool # <<>>
                      /\ Head(from_pool).method = "result"
    BY DEF StartPending
  <2>1. changes > 0
    BY JobNumbers
  <2>2. reader # "off" /\ reader \in {"off", "read"}
    BY DEF OrderInv, AnswerLeads
  <2> QED BY <2>1, <2>2 DEF OrderInv, AnswerLeads
<1> QED BY <1>1, TypeCorrect, OrderInvariant, PTL

\* No step gives a thread an older job than it has, or lets it build a header
\* from an older job than its last one.
ThreadsGoForward == \A w \in Worker : job[w] <= job'[w] /\ work[w] <= work'[w]

\* The threads read the fields setJob writes without a lock, and still every one
\* of them sees the jobs in the order the pool sent them.
THEOREM JobsReachThreadsInOrder == Spec => [][ThreadsGoForward]_vars
<1>1. ASSUME TypeOK, OrderInv, [Next]_vars
      PROVE  [ThreadsGoForward]_vars
  <2>1. /\ hand \in Nat
        /\ \A w \in Worker : job[w] \in Nat /\ work[w] \in Nat
        /\ \A w \in Worker : job[w] <= hand /\ work[w] <= job[w]
    BY <1>1, JobNumbers DEF OrderInv, JobsRise
  <2>2. CASE MainStep \/ PoolStep \/ ConnectionEnds
    <3>1. job' = job /\ work' = work
      BY <2>2 DEF MainStep, Connect, StartReader, Subscribe, StoreFuture, PoolStep,
         PoolSubscribes, PoolNotifies, PoolRetargets, ConnectionEnds, workerVars
    <3> QED BY <2>1, <3>1 DEF ThreadsGoForward
  <2>3. CASE ReaderStep
    <3>1. work' = work
      BY <2>3 DEF ReaderStep, HandleResponse, HandleDifficulty, ReaderDies,
         HandleNotify, SetJob, workerVars
    <3>2. job' = job \/ job' = [job EXCEPT ![at] = hand]
      BY <2>3 DEF ReaderStep, HandleResponse, HandleDifficulty, ReaderDies,
         HandleNotify, SetJob, workerVars
    <3>3. \A w \in Worker : job'[w] = job[w] \/ job'[w] = hand
      BY <1>1, <3>2 DEF TypeOK
    <3> QED BY <2>1, <3>1, <3>3 DEF ThreadsGoForward
  <2>4. ASSUME NEW v \in Worker, WorkerStep(v) \/ ExhaustNonces(v)
        PROVE  ThreadsGoForward
    <3>1. job' = job
      BY <2>4 DEF WorkerStep, AwaitWork, BuildWork, NextNonce, ClearFlag, CompareHash,
         SubmitShare, ExhaustNonces, OnlyPc
    <3>2. work' = work \/ work' = [work EXCEPT ![v] = job[v]]
      BY <2>4 DEF WorkerStep, AwaitWork, BuildWork, NextNonce, ClearFlag, CompareHash,
         SubmitShare, ExhaustNonces, OnlyPc, constructPrototype
    <3>3. \A w \in Worker : work'[w] = work[w] \/ work'[w] = job[w]
      BY <1>1, <3>2 DEF TypeOK
    <3> QED BY <2>1, <3>1, <3>3 DEF ThreadsGoForward
  <2> QED BY <1>1, <2>2, <2>3, <2>4 DEF Next
<1> QED BY <1>1, TypeCorrect, OrderInvariant, PTL DEF Spec
=============================================================================
