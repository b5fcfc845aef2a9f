----------------------- MODULE TemplateRegistryProofs -----------------------
(***************************************************************************)
(* Proofs about TemplateRegistry, for every value of its constants.        *)
(***************************************************************************)
EXTENDS TemplateRegistry, FloatsProofs, FiniteSetTheorems, TLAPS

-----------------------------------------------------------------------------
(* Type correctness *)

\* A share that passes the field checks has decoded fields of the right types
\* and a template that was found.
LEMMA DecodedShare ==
  ASSUME TypeOK, NEW id \in JobId, NEW x \in Field(Extranonce),
         NEW t \in Field(Ntime), NEW nonce \in Field(Nonce), NEW now \in Clock,
         decodes(id, x, t, nonce, now)
  PROVE  /\ get_job(id) \in Block
         /\ get_job(id).n \in 1..MaxTemplates
         /\ Solved(x, t, nonce) \in Solution
<1>1. get_job(id) \in Block
  BY DEF TypeOK, decodes, fields_pass, get_job
<1>2. x # BadLength /\ t # BadLength /\ t # NotHex /\ x # NotHex /\ nonce # NotHex
  BY DEF decodes, fields_pass
<1>3. nonce # BadLength
  BY <1>2 DEF decodes, fields_pass
<1>4. x \in Extranonce /\ t \in Ntime /\ nonce \in Nonce
  BY <1>2, <1>3 DEF Field
<1> QED
  BY <1>1, <1>4 DEF Block, Solved, Solution

LEMMA InitType == Init => TypeOK
  BY RegistryAssumption DEF Init, TypeOK

LEMMA AddTemplateType ==
  ASSUME TypeOK, NEW id \in JobId, NEW p \in Prevhash, NEW curtime \in Curtime,
         add_template(id, p, curtime)
  PROVE  TypeOK'
<1> DEFINE block == [n |-> Len(arrived) + 1, job_id |-> id, prevhash |-> p,
                     curtime |-> curtime]
<1>1. block \in Block
  BY RegistryAssumption DEF add_template, Block, TypeOK
<1>2. arrived' \in Seq(Block) /\ Len(arrived') <= MaxTemplates
  BY <1>1, RegistryAssumption DEF add_template, TypeOK
<1>3. prevhashes' \in [Prevhash -> SUBSET Block]
  BY <1>1 DEF add_template, retained, TypeOK
<1>4. jobs' \in [JobId -> Block \cup {NoBlock}] /\ last_block' \in Block \cup {NoBlock}
  BY <1>1 DEF add_template, TypeOK
<1>5. network_diff' \in Nat
  BY RegistryAssumption, FloatAssumption DEF add_template, TypeOK
<1> QED
  BY <1>2, <1>3, <1>4, <1>5 DEF add_template, TypeOK

LEMMA RegisterType ==
  ASSUME TypeOK, NEW id \in JobId, NEW x \in Field(Extranonce),
         NEW t \in Field(Ntime), NEW nonce \in Field(Nonce), NEW now \in Clock,
         Register(id, x, t, nonce, now)
  PROVE  submits' \in [1..MaxTemplates -> SUBSET Solution]
<1>1. decodes(id, x, t, nonce, now)
  BY DEF Register
<1> QED
  BY <1>1, DecodedShare DEF Register, TypeOK

LEMMA CheckWorkType ==
  ASSUME TypeOK, NEW id \in JobId, NEW x \in Field(Extranonce),
         NEW t \in Field(Ntime), NEW nonce \in Field(Nonce), NEW now \in Clock,
         NEW difficulty \in UserDifficulty,
         CheckWork(id, x, t, nonce, now, difficulty)
  PROVE  TypeOK'
<1> DEFINE job == get_job(id)
           sol == Solved(x, t, nonce)
<1>1. Register(id, x, t, nonce, now)
  BY DEF CheckWork
<1>2. job \in Block /\ job.n \in 1..MaxTemplates /\ sol \in Solution
  BY <1>1, DecodedShare DEF Register
<1>3. submits' \in [1..MaxTemplates -> SUBSET Solution]
  BY <1>1, RegisterType
<1>4. PICK hash \in Hash :
        \/ RefuseLow(job, sol, hash, difficulty)
        \/ AcceptShare(job, sol, hash, difficulty)
        \/ AcceptBlock(job, sol, hash, difficulty)
  BY DEF CheckWork
<1> HIDE DEF job, sol
<1>5. ASSUME NEW v \in Verdict, Judge(job.n, sol, hash, difficulty, v)
      PROVE  /\ judged' \subseteq Judgement
             /\ UNCHANGED <<prevhashes, jobs, last_block, network_diff, arrived>>
  BY <1>2, <1>5 DEF Judge, Judgement, TypeOK
<1>6. CASE RefuseLow(job, sol, hash, difficulty)
  BY <1>3, <1>5, <1>6 DEF RefuseLow, Verdict, TypeOK
<1>7. CASE AcceptShare(job, sol, hash, difficulty)
  BY <1>3, <1>5, <1>7 DEF AcceptShare, Verdict, TypeOK
<1>8. CASE AcceptBlock(job, sol, hash, difficulty)
  <2>1. final' \in [1..MaxTemplates ->
                  [sol : Solution, hash : Hash \cup {NoHash}] \cup {NoFinal}]
    BY <1>2, <1>8 DEF AcceptBlock, finalize, calc_hash, TypeOK
  <2>2. sent' \subseteq (1..MaxTemplates) \X Solution
    BY <1>2, <1>8 DEF AcceptBlock, TypeOK
  <2> QED
    BY <2>1, <2>2, <1>3, <1>5, <1>8 DEF AcceptBlock, Verdict, TypeOK
<1> QED
  BY <1>4, <1>6, <1>7, <1>8

LEMMA NextType == TypeOK /\ [Next]_registryVars => TypeOK'
<1> SUFFICES ASSUME TypeOK, [Next]_registryVars
             PROVE  TypeOK'
  OBVIOUS
<1>1. ASSUME NEW id \in JobId, NEW p \in Prevhash, NEW curtime \in Curtime,
             add_template(id, p, curtime)
      PROVE  TypeOK'
  BY <1>1, AddTemplateType
<1>2. ASSUME NEW id \in JobId, Collect(id)
      PROVE  TypeOK'
  BY <1>2 DEF Collect, TypeOK
<1>3. ASSUME NEW id \in JobId, NEW x \in Field(Extranonce), NEW t \in Field(Ntime),
             NEW nonce \in Field(Nonce), NEW now \in Clock,
             submit_share(id, x, t, nonce, now)
      PROVE  TypeOK'
  <2>1. CASE UNCHANGED registryVars
    BY <2>1 DEF registryVars, TypeOK
  <2>2. CASE FailMerkle(id, x, t, nonce, now)
    BY <2>2, RegisterType DEF FailMerkle, TypeOK
  <2>3. ASSUME NEW difficulty \in UserDifficulty,
               CheckWork(id, x, t, nonce, now, difficulty)
        PROVE  TypeOK'
    BY <2>3, CheckWorkType
  <2> QED
    BY <1>3, <2>1, <2>2, <2>3 DEF submit_share, RefuseShare, FailDecoding, RefuseDuplicate
<1>4. CASE UNCHANGED registryVars
  BY <1>4 DEF registryVars, TypeOK
<1> QED
  BY <1>1, <1>2, <1>3, <1>4 DEF Next

\* The registry's state keeps its types: in particular no dictionary ever
\* holds the "no template" mark in the place of a template.
THEOREM TypeCorrect == Spec => []TypeOK
<1> QED
  BY InitType, NextType, PTL DEF Spec

-----------------------------------------------------------------------------
(* The inductive invariant *)

LEMMA InitInv == Init => RegistryInv
<1> SUFFICES ASSUME Init PROVE RegistryInv
  OBVIOUS
<1>1. arrived = <<>> /\ Len(arrived) = 0 /\ 1..Len(arrived) = {}
  BY DEF Init
<1>2. ArrivalOrder /\ LastArrived /\ JobsNewest /\ JobsComplete /\ NetworkDiffTracksTip
  BY <1>1 DEF Init, ArrivalOrder, LastArrived, JobsNewest, JobsComplete,
              NetworkDiffTracksTip
<1>3. RetainedExact
  BY <1>1 DEF Init, RetainedExact
<1>4. JudgedRight /\ SentJudged /\ FinalJudged
  BY DEF Init, JudgedRight, SentJudged, FinalJudged
<1> QED
  BY <1>2, <1>3, <1>4 DEF RegistryInv

\* What a new template changes in the history.
LEMMA Arrival ==
  ASSUME TypeOK, NEW id \in JobId, NEW p \in Prevhash, NEW curtime \in Curtime,
         add_template(id, p, curtime), NEW L, L = Len(arrived)
  PROVE  /\ Len(arrived') = L + 1
         /\ \A k \in 1..L : arrived'[k] = arrived[k]
         /\ \A k : k = L + 1 => Live(k)' /\ Newest(k)'
         /\ \A k \in 1..L :
              /\ Live(k)' <=> Live(k) /\ arrived[k].prevhash = p
              /\ Newest(k)' <=> Newest(k) /\ arrived[k].job_id # id
<1> DEFINE block == [n |-> L + 1, job_id |-> id, prevhash |-> p,
                     curtime |-> curtime]
<1>1. arrived' = Append(arrived, block) /\ arrived \in Seq(Block)
  BY DEF add_template, TypeOK
<1>2. block \in Block /\ L \in Nat
  <2>1. L \in Nat /\ L + 1 \in 1..MaxTemplates
    BY RegistryAssumption DEF add_template, TypeOK
  <2> QED
    BY <2>1 DEF Block
<1>3. Len(arrived') = L + 1
  BY <1>1, <1>2
<1>4. arrived'[L + 1] = block /\ \A k \in 1..L : arrived'[k] = arrived[k]
  BY <1>1, <1>2
<1>5. block.prevhash = p /\ block.job_id = id
  OBVIOUS
<1> HIDE DEF block
<1>6. ASSUME NEW k, k = L + 1
      PROVE  Live(k)' /\ Newest(k)'
  <2>1. k..Len(arrived') = {k} /\ k + 1..Len(arrived') = {}
    BY <1>2, <1>3, <1>6
  <2> QED
    BY <2>1 DEF Live, Newest
<1>7. ASSUME NEW k \in 1..L
      PROVE  /\ Live(k)' <=> Live(k) /\ arrived[k].prevhash = p
             /\ Newest(k)' <=> Newest(k) /\ arrived[k].job_id # id
  <2>1. k..Len(arrived') = (k..L) \cup {L + 1}
    BY <1>2, <1>3
  <2>2. k + 1..Len(arrived') = (k + 1..L) \cup {L + 1}
    BY <1>2, <1>3
  <2>3. k..L \subseteq 1..L /\ k + 1..L \subseteq 1..L
    BY <1>2
  <2>4. Live(k)' <=> Live(k) /\ arrived[k].prevhash = p
    BY <2>1, <2>3, <1>4, <1>5 DEF Live
  <2>5. Newest(k)' <=> Newest(k) /\ arrived[k].job_id # id
    BY <2>2, <2>3, <1>4, <1>5 DEF Newest
  <2> QED
    BY <2>4, <2>5
<1> QED
  BY <1>3, <1>4, <1>6, <1>7 DEF block

LEMMA AddTemplateInv ==
  ASSUME TypeOK, RegistryInv,
         NEW id \in JobId, NEW p \in Prevhash, NEW curtime \in Curtime,
         add_template(id, p, curtime)
  PROVE  RegistryInv'
<1>0. PICK L : L = Len(arrived)
  OBVIOUS
<1> DEFINE block == [n |-> L + 1, job_id |-> id, prevhash |-> p,
                     curtime |-> curtime]
<1>1. /\ Len(arrived') = L + 1 /\ arrived'[L + 1] = block
      /\ \A k \in 1..L : arrived'[k] = arrived[k]
      /\ \A k : k = L + 1 => Live(k)' /\ Newest(k)'
  <2>1. Len(arrived') = L + 1 /\ \A k \in 1..L : arrived'[k] = arrived[k]
    BY <1>0, Arrival
  <2>2. arrived'[L + 1] = block
    <3>1. L + 1 \in 1..MaxTemplates
      BY <1>0, RegistryAssumption DEF add_template, TypeOK
    <3>2. block \in Block
      BY <3>1 DEF Block
    <3>3. arrived' = Append(arrived, block) /\ arrived \in Seq(Block)
      BY <1>0 DEF add_template, TypeOK
    <3> QED
      BY <3>2, <3>3, <1>0
  <2>3. \A k : k = L + 1 => Live(k)' /\ Newest(k)'
    BY <1>0, Arrival
  <2> QED
    BY <2>1, <2>2, <2>3
<1>2. \A k \in 1..L :
        /\ Live(k)' <=> Live(k) /\ arrived[k].prevhash = p
        /\ Newest(k)' <=> Newest(k) /\ arrived[k].job_id # id
  BY <1>0, Arrival
<1>3. /\ block \in Block /\ block.n = L + 1 /\ block.job_id = id
      /\ block.prevhash = p /\ block # NoBlock
      /\ L \in Nat /\ 1..L + 1 = (1..L) \cup {L + 1}
  <2>1. L \in Nat /\ L + 1 \in 1..MaxTemplates
    BY <1>0, RegistryAssumption DEF add_template, TypeOK
  <2>2. block \in Block
    BY <2>1 DEF Block
  <2> QED
    BY <2>1, <2>2, NoBlockAssumption
<1>4. \A k \in 1..L : arrived[k] \in Block
  BY <1>0 DEF TypeOK
<1>5. /\ prevhashes' = [q \in Prevhash |->
                          IF q = p THEN prevhashes[q] \cup {block} ELSE {}]
      /\ jobs' = [jobs EXCEPT ![id] = block]
      /\ last_block' = block
      /\ network_diff' = IF prevhashes[p] = {} THEN Difficulty[p] ELSE network_diff
      /\ UNCHANGED <<submits, final, judged, sent>>
  BY <1>0 DEF add_template, retained, is_new_block
<1> HIDE DEF block
<1>6. ArrivalOrder'
  BY <1>0, <1>1, <1>3 DEF ArrivalOrder, RegistryInv
<1>7. LastArrived'
  BY <1>1, <1>3, <1>5 DEF LastArrived
<1>8. RetainedExact'
  <2>1. ASSUME NEW q \in Prevhash, NEW b \in prevhashes'[q]
        PROVE  \E k \in 1..L + 1 : b = arrived'[k] /\ b.prevhash = q /\ Live(k)'
    <3>1. q = p /\ (b = block \/ b \in prevhashes[p])
      BY <2>1, <1>5
    <3>2. CASE b = block
      BY <3>1, <3>2, <1>1, <1>3
    <3>3. CASE b \in prevhashes[p]
      <4>1. PICK k \in 1..L : b = arrived[k] /\ b.prevhash = p /\ Live(k)
        BY <1>0, <3>3 DEF RegistryInv, RetainedExact
      <4>2. Live(k)' /\ b = arrived'[k] /\ k \in 1..L + 1
        BY <4>1, <1>1, <1>2, <1>3
      <4> QED
        BY <4>1, <4>2, <3>1
    <3> QED
      BY <3>1, <3>2, <3>3
  <2>2. ASSUME NEW k \in 1..L + 1, Live(k)'
        PROVE  arrived'[k] \in prevhashes'[arrived'[k].prevhash]
    <3>1. CASE k = L + 1
      BY <3>1, <1>1, <1>3, <1>5
    <3>2. CASE k \in 1..L
      <4>1. arrived'[k] = arrived[k] /\ arrived[k].prevhash = p /\ Live(k)
        BY <2>2, <3>2, <1>1, <1>2
      <4> QED
        BY <1>0, <3>2, <4>1, <1>5 DEF RegistryInv, RetainedExact
    <3> QED
      BY <3>1, <3>2, <1>3
  <2> QED
    BY <2>1, <2>2, <1>1 DEF RetainedExact
<1>9. JobsNewest'
  <2> SUFFICES ASSUME NEW i \in JobId, jobs'[i] # NoBlock
               PROVE  \E k \in 1..L + 1 : /\ jobs'[i] = arrived'[k]
                                          /\ arrived'[k].job_id = i /\ Newest(k)'
    BY <1>1 DEF JobsNewest
  <2>1. CASE i = id
    BY <2>1, <1>1, <1>3, <1>5 DEF TypeOK
  <2>2. CASE i # id
    <3>1. jobs'[i] = jobs[i]
      BY <2>2, <1>5 DEF TypeOK
    <3>2. PICK k \in 1..L : jobs[i] = arrived[k] /\ arrived[k].job_id = i /\ Newest(k)
      BY <1>0, <3>1 DEF RegistryInv, JobsNewest
    <3> QED
      BY <3>1, <3>2, <2>2, <1>1, <1>2, <1>3
  <2> QED
    BY <2>1, <2>2
<1>10. JobsComplete'
  <2> SUFFICES ASSUME NEW k \in 1..L + 1, Live(k)'
               PROVE  jobs'[arrived'[k].job_id] # NoBlock
    BY <1>1 DEF JobsComplete
  <2>1. CASE k = L + 1
    BY <2>1, <1>1, <1>3, <1>5 DEF TypeOK
  <2>2. CASE k \in 1..L
    <3>1. arrived'[k] = arrived[k] /\ Live(k) /\ arrived[k].job_id \in JobId
      BY <2>2, <1>1, <1>2, <1>4 DEF Block
    <3> QED
      BY <1>0, <3>1, <2>2, <1>3, <1>5 DEF RegistryInv, JobsComplete, TypeOK
  <2> QED
    BY <2>1, <2>2, <1>3
<1>11. NetworkDiffTracksTip'
  <2>1. CASE prevhashes[p] = {}
    BY <2>1, <1>3, <1>5 DEF NetworkDiffTracksTip
  <2>2. CASE prevhashes[p] # {}
    <3>1. PICK k \in 1..L : arrived[k].prevhash = p /\ Live(k)
      BY <1>0, <2>2 DEF RegistryInv, RetainedExact
    <3>2. last_block = arrived[L] /\ arrived[L].prevhash = p /\ L \in 1..L
      BY <1>0, <3>1, <1>3 DEF RegistryInv, LastArrived, Live
    <3>3. last_block # NoBlock
      BY <3>2, <1>4, NoBlockAssumption
    <3> QED
      BY <2>2, <3>2, <3>3, <1>3, <1>5 DEF RegistryInv, NetworkDiffTracksTip
  <2> QED
    BY <2>1, <2>2
<1>12. JudgedRight'
  <2> SUFFICES ASSUME NEW r \in judged
               PROVE  /\ r.n \in 1..L + 1 /\ r.sol \in submits[r.n]
                      /\ RightVerdict(r)'
                      /\ r.verdict = "block" => <<r.n, r.sol>> \in sent
    BY <1>1, <1>5 DEF JudgedRight
  <2>1. /\ r.n \in 1..L /\ r.sol \in submits[r.n] /\ RightVerdict(r)
        /\ r.verdict = "block" => <<r.n, r.sol>> \in sent
    BY <1>0 DEF RegistryInv, JudgedRight
  <2>2. arrived'[r.n] = arrived[r.n]
    BY <2>1, <1>1
  <2> QED
    BY <2>1, <2>2, <1>3 DEF RightVerdict, below_network_target, block_target,
                            above_user_target
<1>13. SentJudged' /\ FinalJudged'
  BY <1>5 DEF RegistryInv, SentJudged, FinalJudged
<1> QED
  BY <1>6, <1>7, <1>8, <1>9, <1>10, <1>11, <1>12, <1>13 DEF RegistryInv

\* The collector takes only what no list holds.
LEMMA CollectInv ==
  ASSUME TypeOK, RegistryInv, NEW id \in JobId, Collect(id)
  PROVE  RegistryInv'
<1>1. /\ jobs[id] # NoBlock /\ jobs[id] \notin prevhashes[jobs[id].prevhash]
      /\ jobs' = [jobs EXCEPT ![id] = NoBlock]
      /\ UNCHANGED <<prevhashes, last_block, submits, final, network_diff,
                     arrived, judged, credits, sent>>
  BY DEF Collect
<1>2. JobsNewest'
  BY <1>1 DEF RegistryInv, JobsNewest, Newest, TypeOK
<1>3. JobsComplete'
  <2> SUFFICES ASSUME NEW k \in 1..Len(arrived), Live(k)
               PROVE  jobs'[arrived[k].job_id] # NoBlock
    BY <1>1 DEF JobsComplete, Live
  <2>1. arrived[k] \in Block /\ arrived[k].job_id \in JobId
    <3>1. arrived[k] \in Block
      BY DEF TypeOK
    <3> QED
      BY <3>1 DEF Block
  <2>2. jobs[arrived[k].job_id] # NoBlock
    BY DEF RegistryInv, JobsComplete
  <2>3. arrived[k].job_id # id
    <3> SUFFICES ASSUME arrived[k].job_id = id
                 PROVE  FALSE
      OBVIOUS
    <3>1. PICK m \in 1..Len(arrived) :
            jobs[id] = arrived[m] /\ arrived[m].job_id = id /\ Newest(m)
      BY <1>1 DEF RegistryInv, JobsNewest
    <3>2. m >= k
      BY <3>1 DEF Newest
    <3>3. Live(m) /\ arrived[m].prevhash = arrived[k].prevhash
      BY <3>2 DEF Live
    <3> QED
      BY <3>1, <3>3, <1>1 DEF RegistryInv, RetainedExact
  <2> QED
    BY <2>1, <2>2, <2>3, <1>1 DEF TypeOK
<1>4. ArrivalOrder' /\ LastArrived' /\ NetworkDiffTracksTip'
  BY <1>1 DEF RegistryInv, ArrivalOrder, LastArrived, NetworkDiffTracksTip
<1>5. RetainedExact'
  BY <1>1 DEF RegistryInv, RetainedExact, Live
<1>6. JudgedRight' /\ SentJudged' /\ FinalJudged'
  BY <1>1 DEF RegistryInv, JudgedRight, RightVerdict, below_network_target,
              block_target, above_user_target, SentJudged, FinalJudged
<1> QED
  BY <1>2, <1>3, <1>4, <1>5, <1>6 DEF RegistryInv

\* A template that get_job returns is in the history at its own number.
LEMMA FoundJob ==
  ASSUME TypeOK, RegistryInv, NEW id \in JobId, get_job(id) # NoBlock
  PROVE  /\ get_job(id) \in Block
         /\ get_job(id).n \in 1..Len(arrived)
         /\ arrived[get_job(id).n] = get_job(id)
         /\ Live(get_job(id).n)
         /\ get_job(id) \in prevhashes[get_job(id).prevhash]
<1>1. /\ get_job(id) = jobs[id] /\ jobs[id] \in Block
      /\ jobs[id] \in prevhashes[jobs[id].prevhash]
  BY DEF get_job, TypeOK
<1>2. jobs[id].prevhash \in Prevhash
  BY <1>1 DEF Block
<1>3. PICK k \in 1..Len(arrived) : jobs[id] = arrived[k] /\ Live(k)
  BY <1>1, <1>2 DEF RegistryInv, RetainedExact
<1>4. arrived[k].n = k
  BY DEF RegistryInv, ArrivalOrder
<1> QED
  BY <1>1, <1>3, <1>4

\* What the parts of the invariant about templates say is kept by any step
\* that leaves the templates alone.
LEMMA TemplatesUnchanged ==
  ASSUME RegistryInv,
         UNCHANGED <<prevhashes, jobs, last_block, network_diff, arrived>>
  PROVE  /\ ArrivalOrder' /\ LastArrived' /\ RetainedExact' /\ JobsNewest'
         /\ JobsComplete' /\ NetworkDiffTracksTip'
<1>1. ArrivalOrder' /\ LastArrived' /\ NetworkDiffTracksTip'
  BY DEF RegistryInv, ArrivalOrder, LastArrived, NetworkDiffTracksTip
<1>2. RetainedExact'
  BY DEF RegistryInv, RetainedExact, Live
<1>3. JobsNewest' /\ JobsComplete'
  BY DEF RegistryInv, JobsNewest, JobsComplete, Live, Newest
<1> QED
  BY <1>1, <1>2, <1>3

LEMMA FailMerkleInv ==
  ASSUME TypeOK, RegistryInv, NEW id \in JobId, NEW x \in Field(Extranonce),
         NEW t \in Field(Ntime), NEW nonce \in Field(Nonce), NEW now \in Clock,
         FailMerkle(id, x, t, nonce, now)
  PROVE  RegistryInv'
<1> DEFINE n == get_job(id).n
           sol == Solved(x, t, nonce)
<1>1. submits' = [submits EXCEPT ![n] = @ \cup {sol}]
  BY DEF FailMerkle, Register
<1>2. UNCHANGED <<prevhashes, jobs, last_block, final, network_diff, arrived,
                  judged, credits, sent>>
  BY DEF FailMerkle
<1> HIDE DEF n, sol
<1>3. JudgedRight'
  <2> SUFFICES ASSUME NEW r \in judged
               PROVE  /\ r.n \in 1..Len(arrived) /\ r.sol \in submits'[r.n]
                      /\ RightVerdict(r)
                      /\ r.verdict = "block" => <<r.n, r.sol>> \in sent
    BY <1>2 DEF JudgedRight, RightVerdict, below_network_target, block_target,
                above_user_target
  <2>1. /\ r.n \in 1..Len(arrived) /\ r.sol \in submits[r.n] /\ RightVerdict(r)
        /\ r.verdict = "block" => <<r.n, r.sol>> \in sent
    BY DEF RegistryInv, JudgedRight
  <2>2. r.n \in 1..MaxTemplates
    BY DEF TypeOK, Judgement
  <2> QED
    BY <2>1, <2>2, <1>1 DEF TypeOK
<1>4. SentJudged' /\ FinalJudged'
  BY <1>2 DEF RegistryInv, SentJudged, FinalJudged
<1> QED
  BY <1>2, <1>3, <1>4, TemplatesUnchanged DEF RegistryInv

LEMMA CheckWorkInv ==
  ASSUME TypeOK, RegistryInv, NEW id \in JobId, NEW x \in Field(Extranonce),
         NEW t \in Field(Ntime), NEW nonce \in Field(Nonce), NEW now \in Clock,
         NEW difficulty \in UserDifficulty,
         CheckWork(id, x, t, nonce, now, difficulty)
  PROVE  RegistryInv'
<1>1. PICK job, sol : job = get_job(id) /\ sol = Solved(x, t, nonce)
  OBVIOUS
<1>2. decodes(id, x, t, nonce, now)
  BY DEF CheckWork, Register
<1>3. job \in Block /\ job.n \in 1..MaxTemplates /\ sol \in Solution
  BY <1>1, <1>2, DecodedShare
<1>4. job.n \in 1..Len(arrived) /\ arrived[job.n] = job
  BY <1>1, <1>2, FoundJob DEF decodes, fields_pass
<1>5. submits' = [submits EXCEPT ![job.n] = @ \cup {sol}]
  BY <1>1 DEF CheckWork, Register
<1>6. PICK hash \in Hash :
        \/ RefuseLow(job, sol, hash, difficulty)
        \/ AcceptShare(job, sol, hash, difficulty)
        \/ AcceptBlock(job, sol, hash, difficulty)
  BY <1>1 DEF CheckWork
<1>7. PICK v \in Verdict :
        /\ Judge(job.n, sol, hash, difficulty, v)
        /\ v = "low" <=> above_user_target(hash, difficulty)
        /\ v = "block" <=> /\ ~above_user_target(hash, difficulty)
                           /\ below_network_target(hash, job.prevhash)
        /\ v = "block" => /\ final' = [final EXCEPT ![job.n] = calc_hash(finalize(@, sol), hash)]
                          /\ sent' = sent \cup {<<job.n, sol>>}
        /\ v # "block" => UNCHANGED <<final, sent>>
  <2>1. CASE RefuseLow(job, sol, hash, difficulty)
    BY <2>1 DEF RefuseLow, Verdict
  <2>2. CASE AcceptShare(job, sol, hash, difficulty)
    BY <2>2 DEF AcceptShare, Verdict
  <2>3. CASE AcceptBlock(job, sol, hash, difficulty)
    BY <2>3 DEF AcceptBlock, Verdict
  <2> QED
    BY <1>6, <2>1, <2>2, <2>3
<1>8. PICK new : new = [n |-> job.n, sol |-> sol, hash |-> hash,
                        difficulty |-> difficulty, verdict |-> v]
  OBVIOUS
<1>9. /\ new.n = job.n /\ new.sol = sol /\ new.hash = hash
      /\ new.difficulty = difficulty /\ new.verdict = v
      /\ judged' = judged \cup {new}
      /\ UNCHANGED <<prevhashes, jobs, last_block, network_diff, arrived>>
  BY <1>7, <1>8 DEF Judge
<1>10. JudgedRight'
  <2> SUFFICES ASSUME NEW r \in judged'
               PROVE  /\ r.n \in 1..Len(arrived) /\ r.sol \in submits'[r.n]
                      /\ RightVerdict(r)
                      /\ r.verdict = "block" => <<r.n, r.sol>> \in sent'
    BY <1>9 DEF JudgedRight, RightVerdict, below_network_target, block_target,
                above_user_target
  <2>1. CASE r = new
    <3>1. r.sol \in submits'[r.n]
      BY <2>1, <1>3, <1>5, <1>9 DEF TypeOK
    <3>2. RightVerdict(r)
      BY <2>1, <1>4, <1>7, <1>9 DEF RightVerdict
    <3> QED
      BY <3>1, <3>2, <2>1, <1>4, <1>7, <1>9
  <2>2. CASE r \in judged
    <3>1. /\ r.n \in 1..Len(arrived) /\ r.sol \in submits[r.n] /\ RightVerdict(r)
          /\ r.verdict = "block" => <<r.n, r.sol>> \in sent
      BY <2>2 DEF RegistryInv, JudgedRight
    <3>2. r.n \in 1..MaxTemplates
      BY <2>2 DEF TypeOK, Judgement
    <3>3. r.sol \in submits'[r.n]
      BY <3>1, <3>2, <1>5 DEF TypeOK
    <3>4. sent \subseteq sent'
      BY <1>7
    <3> QED
      BY <3>1, <3>3, <3>4
  <2> QED
    BY <2>1, <2>2, <1>9
<1>11. SentJudged'
  <2> SUFFICES ASSUME NEW b \in sent'
               PROVE  \E r \in judged' : b = <<r.n, r.sol>> /\ r.verdict = "block"
    BY DEF SentJudged
  <2>1. CASE b \in sent
    BY <2>1, <1>9 DEF RegistryInv, SentJudged
  <2>2. CASE b \notin sent
    <3>1. v = "block" /\ b = <<job.n, sol>>
      BY <2>2, <1>7
    <3> QED
      BY <3>1, <1>9
  <2> QED
    BY <2>1, <2>2
<1>12. FinalJudged'
  <2> SUFFICES ASSUME NEW n \in 1..MaxTemplates, final'[n] # NoFinal
               PROVE  \E r \in judged' :
                        /\ r.n = n /\ r.sol = final'[n].sol
                        /\ r.hash = final'[n].hash /\ r.verdict = "block"
    <3>1. DOMAIN final' = 1..MaxTemplates
      BY <1>7 DEF TypeOK
    <3> QED
      BY <3>1 DEF FinalJudged
  <2>1. CASE v = "block" /\ n = job.n
    <3>1. final'[n].sol = sol /\ final'[n].hash = hash
      BY <2>1, <1>3, <1>7 DEF TypeOK, calc_hash, finalize
    <3> QED
      BY <3>1, <2>1, <1>9
  <2>2. CASE ~(v = "block" /\ n = job.n)
    <3>1. final'[n] = final[n]
      BY <2>2, <1>7 DEF TypeOK
    <3>2. n \in DOMAIN final
      BY DEF TypeOK
    <3> QED
      BY <3>1, <3>2, <1>9 DEF RegistryInv, FinalJudged
  <2> QED
    BY <2>1, <2>2
<1> QED
  BY <1>9, <1>10, <1>11, <1>12, TemplatesUnchanged DEF RegistryInv

LEMMA NextInv == TypeOK /\ RegistryInv /\ [Next]_registryVars => RegistryInv'
<1> SUFFICES ASSUME TypeOK, RegistryInv, [Next]_registryVars
             PROVE  RegistryInv'
  OBVIOUS
<1>1. CASE UNCHANGED registryVars
  <2>1. UNCHANGED <<submits, final, judged, sent, arrived>>
    BY <1>1 DEF registryVars
  <2>2. JudgedRight' /\ SentJudged' /\ FinalJudged'
    BY <2>1 DEF RegistryInv, JudgedRight, RightVerdict, below_network_target,
                block_target, above_user_target, SentJudged, FinalJudged
  <2> QED
    BY <1>1, <2>2, TemplatesUnchanged DEF registryVars, RegistryInv
<1>2. ASSUME NEW id \in JobId, NEW p \in Prevhash, NEW curtime \in Curtime,
             add_template(id, p, curtime)
      PROVE  RegistryInv'
  BY <1>2, AddTemplateInv
<1>3. ASSUME NEW id \in JobId, Collect(id)
      PROVE  RegistryInv'
  BY <1>3, CollectInv
<1>4. ASSUME NEW id \in JobId, NEW x \in Field(Extranonce), NEW t \in Field(Ntime),
             NEW nonce \in Field(Nonce), NEW now \in Clock,
             submit_share(id, x, t, nonce, now)
      PROVE  RegistryInv'
  <2>1. CASE UNCHANGED registryVars
    BY <2>1, <1>1
  <2>2. CASE FailMerkle(id, x, t, nonce, now)
    BY <2>2, FailMerkleInv
  <2>3. ASSUME NEW difficulty \in UserDifficulty,
               CheckWork(id, x, t, nonce, now, difficulty)
        PROVE  RegistryInv'
    BY <2>3, CheckWorkInv
  <2> QED
    BY <1>4, <2>1, <2>2, <2>3
    DEF submit_share, RefuseShare, FailDecoding, RefuseDuplicate
<1> QED
  BY <1>1, <1>2, <1>3, <1>4 DEF Next

\* The inductive invariant, with the types it needs.
THEOREM RegistryInvariant == Spec => [](TypeOK /\ RegistryInv)
<1>1. Init => TypeOK /\ RegistryInv
  BY InitType, InitInv
<1>2. TypeOK /\ RegistryInv /\ [Next]_registryVars => (TypeOK /\ RegistryInv)'
  BY NextType, NextInv
<1> QED
  BY <1>1, <1>2, PTL DEF Spec

-----------------------------------------------------------------------------
(* What follows from the invariant *)

LEMMA LookupFromInv == TypeOK /\ RegistryInv => LookupExact
<1> SUFFICES ASSUME TypeOK, RegistryInv
             PROVE  LookupExact
  OBVIOUS
<1>1. ASSUME NEW k \in 1..Len(arrived)
      PROVE  get_job(arrived[k].job_id) = arrived[k] <=> Live(k) /\ Newest(k)
  <2>1. arrived[k] \in Block
    BY DEF TypeOK
  <2>2. arrived[k].job_id \in JobId /\ arrived[k].prevhash \in Prevhash
        /\ arrived[k] # NoBlock /\ arrived[k].n = k
    BY <2>1, NoBlockAssumption DEF Block, RegistryInv, ArrivalOrder
  <2>3. ASSUME get_job(arrived[k].job_id) = arrived[k]
        PROVE  Live(k) /\ Newest(k)
    <3>1. Live(k)
      BY <2>2, <2>3, FoundJob
    <3>2. jobs[arrived[k].job_id] = arrived[k]
      BY <2>2, <2>3 DEF get_job
    <3>3. PICK m \in 1..Len(arrived) : arrived[k] = arrived[m] /\ Newest(m)
      BY <2>2, <3>2 DEF RegistryInv, JobsNewest
    <3>4. m = k
      BY <3>3 DEF RegistryInv, ArrivalOrder
    <3> QED
      BY <3>1, <3>3, <3>4
  <2>4. ASSUME Live(k), Newest(k)
        PROVE  get_job(arrived[k].job_id) = arrived[k]
    <3>1. jobs[arrived[k].job_id] # NoBlock
      BY <2>4 DEF RegistryInv, JobsComplete
    <3>2. PICK m \in 1..Len(arrived) :
            /\ jobs[arrived[k].job_id] = arrived[m]
            /\ arrived[m].job_id = arrived[k].job_id /\ Newest(m)
      BY <2>2, <3>1 DEF RegistryInv, JobsNewest
    <3>3. m = k
      BY <3>2, <2>4 DEF Newest
    <3>4. arrived[k] \in prevhashes[arrived[k].prevhash]
      BY <2>4 DEF RegistryInv, RetainedExact
    <3> QED
      BY <2>2, <3>2, <3>3, <3>4 DEF get_job
  <2> QED
    BY <2>3, <2>4
<1>2. ASSUME NEW id \in JobId, get_job(id) # NoBlock
      PROVE  \E k \in 1..Len(arrived) :
               arrived[k].job_id = id /\ get_job(id) = arrived[k]
  <2>1. get_job(id) = jobs[id] /\ jobs[id] # NoBlock
    BY <1>2 DEF get_job
  <2> QED
    BY <2>1 DEF RegistryInv, JobsNewest
<1> QED
  BY <1>1, <1>2 DEF LookupExact

\* A job id finds the template that used it last if the tip has not moved
\* since, and nothing otherwise, for any number of templates, prevhashes and
\* job ids and however late the collector runs.
THEOREM LookupIsExact == Spec => []LookupExact
<1> QED
  BY RegistryInvariant, LookupFromInv, PTL

\* The limiter's cap is the difficulty of the tip, after any reorganisation.
THEOREM NetworkDiffIsTips == Spec => []NetworkDiffTracksTip
<1>1. RegistryInv => NetworkDiffTracksTip
  BY DEF RegistryInv
<1> QED
  BY <1>1, RegistryInvariant, PTL

\* The rounding of a target is made up for by any difference between two
\* difficulties, which are floats: a hash that solves the block of D meets the
\* float target of every smaller difficulty d.
LEMMA TargetsOrdered ==
  ASSUME NEW D \in Float \ {0}, NEW d \in Float \ {0}, d < D,
         InRange(MaxTarget, d), NEW h \in Nat, h < MaxTarget \div D
  PROVE  h <= diff_to_target(d)
<1> DEFINE T == MaxTarget
           M == Mantissa
           r == diff_to_target(d)
<1>1. T \in Nat /\ M \in Nat \ {0} /\ D \in Nat \ {0} /\ d \in Nat \ {0}
  BY RegistryAssumption, FloatAssumption
<1>2. r \in Nat /\ (T - r * d) * M <= r * d
  BY <1>1, RoundedBetween, RoundedClose DEF diff_to_target
<1>3. D <= (D - d) * M
  BY FloatAssumption
<1>4. h * D <= T
  BY <1>1, Quotient
<1> HIDE DEF T, M, r
<1> SUFFICES ASSUME r < h
             PROVE  FALSE
  BY <1>1, <1>2 DEF r
<1> DEFINE rd == r * d
           rD == r * D
<1>5. rd \in Nat /\ rD \in Nat
  BY <1>1, <1>2
<1>6. rD + D <= T
  <2>1. (r + 1) * D <= h * D
    BY <1>1, <1>2
  <2>2. (r + 1) * D = rD + D
    BY <1>1, <1>2
  <2> QED
    BY <1>1, <1>4, <1>5, <2>1, <2>2
<1>7. (rD + D - rd) * M <= rd
  <2>1. rD + D - rd <= T - rd
    BY <1>1, <1>5, <1>6
  <2>2. (rD + D - rd) * M <= (T - rd) * M
    BY <1>1, <1>5, <2>1
  <2> QED
    BY <1>1, <1>2, <1>5, <2>2
<1>8. rD <= (rD - rd) * M
  <2>1. r * D <= r * ((D - d) * M)
    BY <1>1, <1>2, <1>3
  <2>2. r * ((D - d) * M) = (rD - rd) * M
    BY <1>1, <1>2
  <2> QED
    BY <2>1, <2>2
<1>9. rd <= rD
  BY <1>1, <1>2
<1> HIDE DEF rd, rD
<1>10. (rD + D - rd) * M = (rD - rd) * M + D * M
  BY <1>1, <1>5
<1>11. D * M > 0
  BY <1>1
<1> QED
  BY <1>1, <1>5, <1>7, <1>8, <1>9, <1>10, <1>11

LEMMA BlocksFromInv == TypeOK /\ RegistryInv => BlocksReachNodeCore
<1> SUFFICES ASSUME TypeOK, RegistryInv
             PROVE  BlocksReachNodeCore
  OBVIOUS
<1>1. ASSUME NEW r \in judged,
             below_network_target(r.hash, arrived[r.n].prevhash),
             r.difficulty < Difficulty[arrived[r.n].prevhash]
      PROVE  <<r.n, r.sol>> \in sent
  <2>1. r.n \in 1..Len(arrived) /\ RightVerdict(r)
        /\ (r.verdict = "block" => <<r.n, r.sol>> \in sent)
    BY DEF RegistryInv, JudgedRight
  <2>2. arrived[r.n] \in Block
    BY <2>1 DEF TypeOK
  <2>3. PICK D \in Float \ {0} : D = Difficulty[arrived[r.n].prevhash]
    BY <2>2, RegistryAssumption DEF Block
  <2>4. PICK d \in UserDifficulty, h \in Nat : d = r.difficulty /\ h = r.hash
    BY RegistryAssumption DEF TypeOK, Judgement
  <2>5. h < MaxTarget \div D /\ d < D
    BY <1>1, <2>3, <2>4 DEF below_network_target, block_target
  <2>6. d \in Float \ {0} /\ InRange(MaxTarget, d)
    BY RegistryAssumption DEF InRange
  <2>7. h <= diff_to_target(d) /\ diff_to_target(d) \in Nat
    <3>1. d \in Nat \ {0} /\ MaxTarget \in Nat
      BY <2>6, FloatAssumption, RegistryAssumption
    <3> QED
      BY <2>5, <2>6, <3>1, TargetsOrdered, RoundedBetween DEF diff_to_target
  <2>8. ~above_user_target(r.hash, r.difficulty)
    BY <2>4, <2>7 DEF above_user_target
  <2> QED
    BY <1>1, <2>1, <2>8 DEF RightVerdict
<1>2. ASSUME NEW b \in sent
      PROVE  \E r \in judged :
               /\ <<r.n, r.sol>> = b
               /\ below_network_target(r.hash, arrived[r.n].prevhash)
  BY DEF RegistryInv, SentJudged, JudgedRight, RightVerdict
<1> QED
  BY <1>1, <1>2 DEF BlocksReachNodeCore

\* Every hash that solves the block reaches NodeCore while the session's
\* difficulty is less than the network's, for every float target in between and
\* every rounding of it, and only such hashes do.
THEOREM NoBlockIsLost == Spec => []BlocksReachNodeCore
<1> QED
  BY RegistryInvariant, BlocksFromInv, PTL

LEMMA FinalFromInv == TypeOK /\ RegistryInv => FinalValidationHolds
<1> SUFFICES ASSUME TypeOK, RegistryInv, NEW n \in DOMAIN final, final[n] # NoFinal
             PROVE  \E r \in judged :
                      /\ r.n = n /\ r.sol = final[n].sol /\ r.hash = final[n].hash
                      /\ r.verdict = "block"
                      /\ r.hash <= block_target(arrived[n].prevhash)
  BY DEF FinalValidationHolds
<1>1. PICK r \in judged :
        /\ r.n = n /\ r.sol = final[n].sol /\ r.hash = final[n].hash
        /\ r.verdict = "block"
  BY DEF RegistryInv, FinalJudged
<1>2. r.hash < block_target(arrived[n].prevhash) /\ n \in 1..Len(arrived)
  BY <1>1 DEF RegistryInv, JudgedRight, RightVerdict, below_network_target
<1>3. arrived[n] \in Block /\ r.hash \in Nat
  <2>1. arrived[n] \in Block
    BY <1>2 DEF TypeOK
  <2>2. r.hash \in Nat
    BY RegistryAssumption DEF TypeOK, Judgement
  <2> QED
    BY <2>1, <2>2
<1>4. Difficulty[arrived[n].prevhash] \in Nat \ {0}
  BY <1>3, RegistryAssumption, FloatAssumption DEF Block
<1>5. block_target(arrived[n].prevhash) \in Int
  BY <1>4, RegistryAssumption DEF block_target
<1> QED
  BY <1>1, <1>2, <1>3, <1>5

\* The final validation of a block candidate never fails.
THEOREM FinalValidationNeverFails == Spec => []FinalValidationHolds
<1> QED
  BY RegistryInvariant, FinalFromInv, PTL

-----------------------------------------------------------------------------
(* Paying once, and the job board *)

\* How a share that reaches its hash changes what was paid: not at all, or by
\* one solution that was not paid before on a template of the tip.
LEMMA CreditStep ==
  ASSUME TypeOK, RegistryInv, NEW id \in JobId, NEW x \in Field(Extranonce),
         NEW t \in Field(Ntime), NEW nonce \in Field(Nonce), NEW now \in Clock,
         NEW difficulty \in UserDifficulty,
         CheckWork(id, x, t, nonce, now, difficulty)
  PROVE  /\ UNCHANGED <<prevhashes, jobs, last_block, arrived>>
         /\ \/ UNCHANGED <<Credited, credits>>
            \/ \E p \in Prevhash : \E job \in prevhashes[p], sol \in Solution :
                 /\ <<job.n, sol>> \notin Credited
                 /\ Credited' = Credited \cup {<<job.n, sol>>}
                 /\ credits' = credits + 1
<1>1. PICK job, sol : job = get_job(id) /\ sol = Solved(x, t, nonce)
  OBVIOUS
<1>2. decodes(id, x, t, nonce, now) /\ is_new_submit(get_job(id).n, Solved(x, t, nonce))
  BY DEF CheckWork, Register
<1>3. job \in Block /\ sol \in Solution
  BY <1>1, <1>2, DecodedShare
<1>4. job \in prevhashes[job.prevhash] /\ job.prevhash \in Prevhash
  BY <1>1, <1>2, <1>3, FoundJob DEF decodes, fields_pass, Block
<1>5. <<job.n, sol>> \notin Credited
  <2> SUFFICES ASSUME NEW r \in judged, <<job.n, sol>> = <<r.n, r.sol>>
               PROVE  FALSE
    BY DEF Credited
  <2>1. r.sol \in submits[r.n]
    BY DEF RegistryInv, JudgedRight
  <2> QED
    BY <2>1, <1>1, <1>2 DEF is_new_submit
<1>6. PICK hash \in Hash :
        \/ RefuseLow(job, sol, hash, difficulty)
        \/ AcceptShare(job, sol, hash, difficulty)
        \/ AcceptBlock(job, sol, hash, difficulty)
  BY <1>1 DEF CheckWork
<1>7. ASSUME NEW v, Judge(job.n, sol, hash, difficulty, v)
      PROVE  /\ UNCHANGED <<prevhashes, jobs, last_block, arrived>>
             /\ v = "low" => Credited' = Credited
             /\ v # "low" => Credited' = Credited \cup {<<job.n, sol>>}
  <2>0. PICK new : new = [n |-> job.n, sol |-> sol, hash |-> hash,
                          difficulty |-> difficulty, verdict |-> v]
    OBVIOUS
  <2>1. /\ judged' = judged \cup {new} /\ new.n = job.n
        /\ new.sol = sol /\ new.verdict = v
    BY <1>7, <2>0 DEF Judge
  <2>2. {j \in judged' : j.verdict # "low"} =
          IF v = "low" THEN {j \in judged : j.verdict # "low"}
          ELSE {j \in judged : j.verdict # "low"} \cup {new}
    BY <2>1
  <2> QED
    BY <2>1, <2>2, <1>7 DEF Credited, Judge
<1>8. CASE RefuseLow(job, sol, hash, difficulty)
  BY <1>7, <1>8 DEF RefuseLow
<1>9. CASE AcceptShare(job, sol, hash, difficulty)
  BY <1>3, <1>4, <1>5, <1>7, <1>9 DEF AcceptShare
<1>10. CASE AcceptBlock(job, sol, hash, difficulty)
  BY <1>3, <1>4, <1>5, <1>7, <1>10 DEF AcceptBlock
<1> QED
  BY <1>6, <1>8, <1>9, <1>10

\* Every other step leaves what was paid alone.
LEMMA NoCreditStep ==
  ASSUME [Next]_registryVars
  PROVE  \/ UNCHANGED <<Credited, credits>>
         \/ \E id \in JobId, x \in Field(Extranonce), t \in Field(Ntime),
               nonce \in Field(Nonce), now \in Clock, difficulty \in UserDifficulty :
              CheckWork(id, x, t, nonce, now, difficulty)
<1>1. ASSUME UNCHANGED <<judged, credits>>
      PROVE  UNCHANGED <<Credited, credits>>
  BY <1>1 DEF Credited
<1>2. CASE UNCHANGED registryVars
  BY <1>1, <1>2 DEF registryVars
<1>3. ASSUME NEW id \in JobId, NEW p \in Prevhash, NEW curtime \in Curtime,
             add_template(id, p, curtime)
      PROVE  UNCHANGED <<Credited, credits>>
  BY <1>1, <1>3 DEF add_template
<1>4. ASSUME NEW id \in JobId, Collect(id)
      PROVE  UNCHANGED <<Credited, credits>>
  BY <1>1, <1>4 DEF Collect
<1>5. ASSUME NEW id \in JobId, NEW x \in Field(Extranonce), NEW t \in Field(Ntime),
             NEW nonce \in Field(Nonce), NEW now \in Clock,
             submit_share(id, x, t, nonce, now)
      PROVE  \/ UNCHANGED <<Credited, credits>>
             \/ \E difficulty \in UserDifficulty :
                  CheckWork(id, x, t, nonce, now, difficulty)
  <2>1. CASE FailMerkle(id, x, t, nonce, now)
    BY <2>1, <1>1 DEF FailMerkle
  <2>2. CASE UNCHANGED registryVars
    BY <2>2, <1>1 DEF registryVars
  <2> QED
    BY <1>5, <2>1, <2>2
    DEF submit_share, RefuseShare, FailDecoding, RefuseDuplicate
<1> QED
  BY <1>2, <1>3, <1>4, <1>5 DEF Next

PaidInv == IsFiniteSet(Credited) /\ PaidOnce

\* submit_share never returns twice for the same solution of a template.
THEOREM EverySharePaidOnce == Spec => []PaidOnce
<1>1. Init => PaidInv
  <2> SUFFICES ASSUME Init PROVE PaidInv
    OBVIOUS
  <2>1. Credited = {} /\ credits = 0
    BY DEF Init, Credited
  <2> QED
    BY <2>1, FS_EmptySet DEF PaidInv, PaidOnce
<1>2. TypeOK /\ RegistryInv /\ PaidInv /\ [Next]_registryVars => PaidInv'
  <2> SUFFICES ASSUME TypeOK, RegistryInv, PaidInv, [Next]_registryVars
               PROVE  PaidInv'
    OBVIOUS
  <2>1. CASE UNCHANGED <<Credited, credits>>
    BY <2>1 DEF PaidInv, PaidOnce
  <2>2. CASE \E c : c \notin Credited /\ Credited' = Credited \cup {c}
                    /\ credits' = credits + 1
    <3>1. PICK c : c \notin Credited /\ Credited' = Credited \cup {c}
                   /\ credits' = credits + 1
      BY <2>2
    <3>2. IsFiniteSet(Credited') /\ Cardinality(Credited') = Cardinality(Credited) + 1
      BY <3>1, FS_AddElement DEF PaidInv
    <3> QED
      BY <3>1, <3>2 DEF PaidInv, PaidOnce
  <2> QED
    BY <2>1, <2>2, NoCreditStep, CreditStep
<1>3. PaidInv => PaidOnce
  BY DEF PaidInv
<1> QED
  BY <1>1, <1>2, <1>3, RegistryInvariant, PTL DEF Spec

LEMMA BoardInit == Init => Board!Init
<1> SUFFICES ASSUME Init PROVE Board!Init
  OBVIOUS
<1>1. UNION {prevhashes[p] : p \in Prevhash} = {} /\ Credited = {}
  BY DEF Init, Credited
<1> QED
  BY <1>1 DEF Init, Board!Init

BoardJobs == {b.n : b \in UNION {prevhashes[p] : p \in Prevhash}}

BoardTip == IF last_block = NoBlock THEN NoBlock ELSE last_block.prevhash

\* A new template publishes a job: the board keeps its jobs when the tip stays
\* and is wiped when it moves.
LEMMA PublishStep ==
  ASSUME TypeOK, RegistryInv, NEW id \in JobId, NEW p \in Prevhash,
         NEW curtime \in Curtime, add_template(id, p, curtime)
  PROVE  Board!Publish(p)
<1>1. PICK L, block : L = Len(arrived) /\
        block = [n |-> L + 1, job_id |-> id, prevhash |-> p, curtime |-> curtime]
  OBVIOUS
<1>2. block.n = L + 1 /\ block.prevhash = p /\ L \in Nat
  BY <1>1 DEF TypeOK
<1>3. /\ prevhashes' = [q \in Prevhash |->
                          IF q = p THEN prevhashes[q] \cup {block} ELSE {}]
      /\ last_block' = block
      /\ UNCHANGED <<judged, credits>>
  BY <1>1, <1>2 DEF add_template, retained
<1>4. Len(arrived') = L + 1
  BY <1>1, Arrival
<1>5. UNION {prevhashes'[q] : q \in Prevhash} = prevhashes[p] \cup {block}
  BY <1>3
<1>6. BoardJobs' = {b.n : b \in prevhashes[p]} \cup {L + 1}
  BY <1>2, <1>5 DEF BoardJobs
<1>7. block # NoBlock
  <2>1. L + 1 \in 1..MaxTemplates
    BY <1>1, RegistryAssumption DEF add_template, TypeOK
  <2>2. block \in Block
    BY <2>1, <1>1 DEF Block
  <2> QED
    BY <2>2, NoBlockAssumption
<1>8. BoardTip' = p
  BY <1>2, <1>3, <1>7 DEF BoardTip
<1>9. \A q \in Prevhash : prevhashes[q] # {} => q = BoardTip
  <2> SUFFICES ASSUME NEW q \in Prevhash, prevhashes[q] # {}
               PROVE  q = BoardTip
    OBVIOUS
  <2>1. PICK k \in 1..L : arrived[k].prevhash = q /\ Live(k)
    BY <1>1 DEF RegistryInv, RetainedExact
  <2>2. L \in 1..L /\ arrived # <<>>
    BY <1>1, <2>1, <1>2
  <2>3. arrived[L].prevhash = q
    BY <1>1, <2>1, <2>2 DEF Live
  <2>4. last_block = arrived[L] /\ last_block # NoBlock
    BY <1>1, <2>2 DEF RegistryInv, LastArrived
  <2> QED
    BY <2>3, <2>4 DEF BoardTip
<1>10. BoardJobs' = {L + 1} \cup {j \in BoardJobs : p = BoardTip}
  <2>1. CASE p = BoardTip
    <3>1. UNION {prevhashes[q] : q \in Prevhash} = prevhashes[p]
      BY <2>1, <1>9
    <3> QED
      BY <2>1, <3>1, <1>6 DEF BoardJobs
  <2>2. CASE p # BoardTip
    <3>1. prevhashes[p] = {}
      BY <2>2, <1>9
    <3> QED
      BY <2>2, <3>1, <1>6
  <2> QED
    BY <2>1, <2>2
<1>11. Credited' = Credited /\ credits' = credits
  BY <1>3 DEF Credited
<1> QED
  BY <1>1, <1>4, <1>8, <1>10, <1>11 DEF Board!Publish, BoardJobs, BoardTip

LEMMA BoardStep ==
  TypeOK /\ RegistryInv /\ [Next]_registryVars => [Board!Next]_(Board!boardVars)
<1> SUFFICES ASSUME TypeOK, RegistryInv, [Next]_registryVars
             PROVE  [Board!Next]_(Board!boardVars)
  OBVIOUS
<1>1. ASSUME UNCHANGED <<prevhashes, last_block, arrived, Credited, credits>>
      PROVE  UNCHANGED Board!boardVars
  BY <1>1 DEF Board!boardVars
<1>2. ASSUME NEW id \in JobId, NEW p \in Prevhash, NEW curtime \in Curtime,
             add_template(id, p, curtime)
      PROVE  Board!Next
  BY <1>2, PublishStep DEF Board!Next
<1>3. ASSUME NEW id \in JobId, NEW x \in Field(Extranonce), NEW t \in Field(Ntime),
             NEW nonce \in Field(Nonce), NEW now \in Clock,
             NEW difficulty \in UserDifficulty,
             CheckWork(id, x, t, nonce, now, difficulty)
      PROVE  Board!Next \/ UNCHANGED Board!boardVars
  <2>1. CASE UNCHANGED <<Credited, credits>>
    BY <1>1, <1>3, <2>1, CreditStep
  <2>2. CASE ~UNCHANGED <<Credited, credits>>
    <3>1. UNCHANGED <<prevhashes, jobs, last_block, arrived>>
      BY <1>3, CreditStep
    <3>2. PICK p \in Prevhash : \E job \in prevhashes[p], sol \in Solution :
            /\ <<job.n, sol>> \notin Credited
            /\ Credited' = Credited \cup {<<job.n, sol>>}
            /\ credits' = credits + 1
      BY <1>3, <2>2, CreditStep
    <3>3. PICK job \in prevhashes[p], sol \in Solution :
            /\ <<job.n, sol>> \notin Credited
            /\ Credited' = Credited \cup {<<job.n, sol>>}
            /\ credits' = credits + 1
      BY <3>2
    <3>4. job.n \in BoardJobs
      BY <3>3 DEF BoardJobs
    <3>5. Board!Credit(job.n, sol)
      BY <3>1, <3>3, <3>4 DEF Board!Credit, BoardJobs
    <3> QED
      BY <3>3, <3>4, <3>5 DEF Board!Next, BoardJobs
  <2> QED
    BY <2>1, <2>2
<1>4. CASE UNCHANGED registryVars
  BY <1>4, <1>1 DEF registryVars, Credited
<1>5. ASSUME NEW id \in JobId, Collect(id)
      PROVE  UNCHANGED Board!boardVars
  BY <1>5, <1>1 DEF Collect, Credited
<1>6. ASSUME NEW id \in JobId, NEW x \in Field(Extranonce), NEW t \in Field(Ntime),
             NEW nonce \in Field(Nonce), NEW now \in Clock,
             submit_share(id, x, t, nonce, now)
      PROVE  Board!Next \/ UNCHANGED Board!boardVars
  <2>1. CASE FailMerkle(id, x, t, nonce, now)
    BY <2>1, <1>1 DEF FailMerkle, Credited
  <2>2. CASE UNCHANGED registryVars
    BY <2>2, <1>1 DEF registryVars, Credited
  <2> QED
    BY <1>3, <1>6, <2>1, <2>2
    DEF submit_share, RefuseShare, FailDecoding, RefuseDuplicate
<1> QED
  BY <1>2, <1>4, <1>5, <1>6 DEF Next

\* The registry implements the job board: shares are paid at most once and
\* only for templates of the current tip.
THEOREM RegistryImplementsJobBoard == Spec => ImplementsJobBoard
<1> QED
  BY BoardInit, BoardStep, RegistryInvariant, PTL
  DEF Spec, ImplementsJobBoard, Board!Spec
=============================================================================
