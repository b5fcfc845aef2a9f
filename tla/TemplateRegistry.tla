-------------------------- MODULE TemplateRegistry --------------------------
(***************************************************************************)
(* lib/template_registry.py with the part of lib/block_template.py it      *)
(* drives: the templates NodeCore sends, the dictionaries that find them   *)
(* by job id, and the validation of submitted shares.                      *)
(*                                                                         *)
(* Every operation runs inside one Twisted reactor event and is atomic.    *)
(* The garbage collector is the only other actor: a template the registry  *)
(* dropped stays in the weak dictionary "jobs" until it is collected.      *)
(*                                                                         *)
(* Difficulties and the largest target are counted in the unit of Floats,  *)
(* which leaves the quotient of two of them what it is.                    *)
(***************************************************************************)
EXTENDS Floats, FiniteSets, Sequences

CONSTANTS
  JobId,            \* request ids of NodeCore's MINING_JOB, used as job ids
  Prevhash,         \* previous block hashes
  Curtime,          \* template timestamps
  Extranonce,       \* decoded extranonces of shares, signed
  Ntime,            \* decoded ntimes of shares, signed
  Nonce,            \* decoded nonces of shares
  Clock,            \* readings of the timestamper
  MaxFuture,        \* seconds an ntime may be ahead of the clock (1000)
  Hash,             \* proof-of-work hashes
  MaxTarget,        \* the target of difficulty 1
  Difficulty,       \* [Prevhash -> difficulty NodeCore asks on top of it]
  UserDifficulty,   \* difficulties a session can have
  MaxNetworkDiff,   \* VDIFF_MAX_TARGET, the limiter's initial network_diff
  MaxTemplates,     \* bound: templates received in a behaviour
  MaxShares,        \* bound: shares registered in a behaviour
  BadLength,        \* a share field of the wrong length
  NotHex,           \* a share field of the right length that is not hex
  NoBlock, NoHash, NoFinal

ASSUME RegistryAssumption ==
  /\ MaxTarget \in Nat /\ MaxTemplates \in Nat /\ MaxShares \in Nat
  /\ MaxFuture \in Nat /\ MaxNetworkDiff \in Nat
  /\ Hash \subseteq Nat /\ Curtime \subseteq Int /\ Clock \subseteq Int
  /\ Extranonce \subseteq Int /\ Ntime \subseteq Int /\ Nonce \subseteq Int
  /\ Difficulty \in [Prevhash -> Float \ {0}]
  /\ UserDifficulty \subseteq Float \ {0}
  /\ \A d \in UserDifficulty : MaxTarget \div d \in Smallest..Largest

\* The marks for what is missing or malformed are told apart from real values.
ASSUME MarkAssumption ==
  /\ BadLength \notin Int /\ NotHex \notin Int /\ BadLength # NotHex
  /\ NoHash \notin Hash /\ NoBlock \notin Prevhash

\* A template.  Python compares templates by identity: n, the template's place
\* in the order of arrival, stands for it.
Block == [n : 1..MaxTemplates, job_id : JobId, prevhash : Prevhash,
          curtime : Curtime]

\* The triples in a template's submits list.
Solution == [extranonce : Extranonce, ntime : Ntime, nonce : Nonce]

ASSUME NoBlockAssumption ==
  /\ NoBlock \notin Block
  /\ NoFinal \notin [sol : Solution, hash : Hash \cup {NoHash}]

Verdict == {"low", "share", "block"}

\* A share whose hash was computed: what it was compared with and the outcome.
Judgement == [n : 1..MaxTemplates, sol : Solution, hash : Hash,
              difficulty : UserDifficulty, verdict : Verdict]

VARIABLES
  prevhashes,     \* prevhash -> retained templates; {} is an absent key
  jobs,           \* the WeakValueDictionary: job id -> template
  last_block,     \* the template served to new requests
  submits,        \* template -> the solutions registered on it
  final,          \* template -> the solution it was finalized with
  network_diff,   \* the limiter's network difficulty, set by a callback
  arrived,        \* history: every template, in order of arrival
  judged,         \* history: every share whose hash was compared
  credits,        \* history: times submit_share returned normally
  sent            \* <<template, solution>> pairs passed to the UCP link

registryVars == <<prevhashes, jobs, last_block, submits, final, network_diff,
                  arrived, judged, credits, sent>>

TypeOK ==
  /\ arrived \in Seq(Block) /\ Len(arrived) <= MaxTemplates
  /\ prevhashes \in [Prevhash -> SUBSET Block]
  /\ jobs \in [JobId -> Block \cup {NoBlock}]
  /\ last_block \in Block \cup {NoBlock}
  /\ submits \in [1..MaxTemplates -> SUBSET Solution]
  /\ final \in [1..MaxTemplates ->
                  [sol : Solution, hash : Hash \cup {NoHash}] \cup {NoFinal}]
  /\ network_diff \in Nat
  /\ judged \subseteq Judgement
  /\ credits \in Nat
  /\ sent \subseteq (1..MaxTemplates) \X Solution

-----------------------------------------------------------------------------
(* Helpers of the two classes *)

\* The target of the network: 192-bit maximum over difficulty, rounded down.
block_target(p) == MaxTarget \div Difficulty[p]

\* Mutant: the largest target has lost its first bit.
diff_to_target_short(difficulty) == rounded(MaxTarget \div 2, difficulty)

\* The target of a session is a float: the same quotient, rounded to the nearest.
diff_to_target(difficulty) == rounded(MaxTarget, difficulty)

\* hash_int > target_user: Python compares an int with a float exactly.
above_user_target(hash, difficulty) == hash > diff_to_target(difficulty)

\* hash_int < job.target
below_network_target(hash, p) == hash < block_target(p)

check_ntime(block, ntime, now) ==
  ntime >= block.curtime /\ ntime <= now + MaxFuture

\* Mutant: the lookup trusts a known prevhash and skips the list.
get_job_by_prevhash(id) ==
  IF jobs[id] # NoBlock /\ prevhashes[jobs[id].prevhash] # {}
  THEN jobs[id] ELSE NoBlock

\* The template of a job id, or NoBlock: it must still be retained under its
\* prevhash, since a dropped template may linger in the weak dictionary.
get_job(id) ==
  IF jobs[id] # NoBlock /\ jobs[id] \in prevhashes[jobs[id].prevhash]
  THEN jobs[id] ELSE NoBlock

\* Mutant: the result of register_submit is ignored.
is_new_submit_ignored(n, sol) == TRUE

\* register_submit returns whether the solution is new on this template.
is_new_submit(n, sol) == sol \notin submits[n]

\* Mutant: finalize keeps the hash cached for the previous solution.
finalize_keeping_hash(old, sol) ==
  [sol |-> sol, hash |-> IF old = NoFinal THEN NoHash ELSE old.hash]

\* finalize forgets the cached hash, and is_valid computes it if there is none.
finalize(old, sol) == [sol |-> sol, hash |-> NoHash]

calc_hash(f, hash) == IF f.hash = NoHash THEN [f EXCEPT !.hash = hash] ELSE f

Solved(x, t, nonce) == [extranonce |-> x, ntime |-> t, nonce |-> nonce]

Registered == UNION {{n} \X submits[n] : n \in DOMAIN submits}

-----------------------------------------------------------------------------
Init ==
  /\ prevhashes = [p \in Prevhash |-> {}]
  /\ jobs = [id \in JobId |-> NoBlock]
  /\ last_block = NoBlock
  /\ submits = [n \in 1..MaxTemplates |-> {}]
  /\ final = [n \in 1..MaxTemplates |-> NoFinal]
  /\ network_diff = MaxNetworkDiff
  /\ arrived = <<>>
  /\ judged = {}
  /\ credits = 0
  /\ sent = {}

\* Mutant: the lists of the other prevhashes stay.
retained_all(block) ==
  [prevhashes EXCEPT ![block.prevhash] = @ \cup {block}]

\* Mutant: the list gets what the job id found before it was stored.
retained_stale(block) ==
  [p \in Prevhash |->
     IF p = block.prevhash THEN prevhashes[p] \cup {jobs[block.job_id]} ELSE {}]

\* The prevhashes dictionary after a template is added: the template joins the
\* list of its prevhash and every other list is deleted.
retained(block) ==
  [p \in Prevhash |->
     IF p = block.prevhash THEN prevhashes[p] \cup {block} ELSE {}]

\* A prevhash is new when the dictionary has no list for it.
is_new_block(p) == prevhashes[p] = {}

\* NodeCore's job reaches the registry.  The whole of add_template: retain the
\* template, drop the others, and tell the limiter when the tip moved.
add_template(id, p, curtime) ==
  /\ Len(arrived) < MaxTemplates
  /\ LET block == [n |-> Len(arrived) + 1, job_id |-> id, prevhash |-> p,
                   curtime |-> curtime]
     IN  /\ arrived' = Append(arrived, block)
         /\ prevhashes' = retained(block)
         /\ jobs' = [jobs EXCEPT ![id] = block]
         /\ last_block' = block
  /\ network_diff' = IF is_new_block(p) THEN Difficulty[p] ELSE network_diff
  /\ UNCHANGED <<submits, final, judged, credits, sent>>

\* The collector frees a template nothing refers to; its entry disappears.
Collect(id) ==
  /\ jobs[id] # NoBlock
  /\ jobs[id] \notin prevhashes[jobs[id].prevhash]
  /\ jobs' = [jobs EXCEPT ![id] = NoBlock]
  /\ UNCHANGED <<prevhashes, last_block, submits, final, network_diff,
                 arrived, judged, credits, sent>>

-----------------------------------------------------------------------------
(* submit_share, one action per way it can end *)

\* The checks that raise SubmitException, in the order of the code: an ntime
\* that is not hex raises another exception before the nonce is looked at.
fields_pass(id, x, t, nonce, now) ==
  /\ x # BadLength
  /\ get_job(id) # NoBlock
  /\ t # BadLength
  /\ t # NotHex => check_ntime(get_job(id), t, now) /\ nonce # BadLength

\* The share passes those checks and unhexlify accepts its three fields.
decodes(id, x, t, nonce, now) ==
  fields_pass(id, x, t, nonce, now) /\ NotHex \notin {x, t, nonce}

\* SubmitException, before anything is registered.
RefuseShare(id, x, t, nonce, now) ==
  /\ ~fields_pass(id, x, t, nonce, now)
  /\ UNCHANGED registryVars

\* binascii.Error, before anything is registered.
FailDecoding(id, x, t, nonce, now) ==
  /\ fields_pass(id, x, t, nonce, now)
  /\ NotHex \in {x, t, nonce}
  /\ UNCHANGED registryVars

\* A share seen before on this template: TypeError from the log statement,
\* which has five placeholders and four arguments.
RefuseDuplicate(id, x, t, nonce, now) ==
  /\ decodes(id, x, t, nonce, now)
  /\ ~is_new_submit(get_job(id).n, Solved(x, t, nonce))
  /\ UNCHANGED registryVars

\* register_submit on a solution that is new on its template.
Register(id, x, t, nonce, now) ==
  /\ decodes(id, x, t, nonce, now)
  /\ is_new_submit(get_job(id).n, Solved(x, t, nonce))
  /\ Cardinality(Registered) < MaxShares
  /\ submits' = [submits EXCEPT ![get_job(id).n] = @ \cup {Solved(x, t, nonce)}]

\* OverflowError from to_bytes on a negative extranonce: the share stays
\* registered, its hash is never computed.
FailMerkle(id, x, t, nonce, now) ==
  /\ Register(id, x, t, nonce, now)
  /\ x < 0
  /\ UNCHANGED <<prevhashes, jobs, last_block, final, network_diff, arrived,
                 judged, credits, sent>>

\* The hash of a registered share is computed and compared.
Judge(n, sol, hash, difficulty, verdict) ==
  /\ judged' = judged \cup
       {[n |-> n, sol |-> sol, hash |-> hash, difficulty |-> difficulty,
         verdict |-> verdict]}
  /\ UNCHANGED <<prevhashes, jobs, last_block, network_diff, arrived>>

\* SubmitException: the hash misses the user's target.
RefuseLow(job, sol, hash, difficulty) ==
  /\ above_user_target(hash, difficulty)
  /\ Judge(job.n, sol, hash, difficulty, "low")
  /\ UNCHANGED <<final, credits, sent>>

\* The share is good and is not a block.
AcceptShare(job, sol, hash, difficulty) ==
  /\ ~above_user_target(hash, difficulty)
  /\ ~below_network_target(hash, job.prevhash)
  /\ Judge(job.n, sol, hash, difficulty, "share")
  /\ credits' = credits + 1
  /\ UNCHANGED <<final, sent>>

\* The share is a block candidate: finalize and re-validate the template, then
\* pass the solution to the UCP link.
AcceptBlock(job, sol, hash, difficulty) ==
  /\ ~above_user_target(hash, difficulty)
  /\ below_network_target(hash, job.prevhash)
  /\ Judge(job.n, sol, hash, difficulty, "block")
  /\ final' = [final EXCEPT ![job.n] = calc_hash(finalize(@, sol), hash)]
  /\ sent' = sent \cup {<<job.n, sol>>}
  /\ credits' = credits + 1

\* A share that gets as far as its hash, at the difficulty of its session.
CheckWork(id, x, t, nonce, now, difficulty) ==
  /\ Register(id, x, t, nonce, now)
  /\ x >= 0
  /\ \E hash \in Hash :
       LET job == get_job(id)
           sol == Solved(x, t, nonce)
       IN  \/ RefuseLow(job, sol, hash, difficulty)
           \/ AcceptShare(job, sol, hash, difficulty)
           \/ AcceptBlock(job, sol, hash, difficulty)

submit_share(id, x, t, nonce, now) ==
  \/ RefuseShare(id, x, t, nonce, now)
  \/ FailDecoding(id, x, t, nonce, now)
  \/ RefuseDuplicate(id, x, t, nonce, now)
  \/ FailMerkle(id, x, t, nonce, now)
  \/ \E difficulty \in UserDifficulty :
       CheckWork(id, x, t, nonce, now, difficulty)

\* The wire values of a share field.
Field(values) == values \cup {BadLength, NotHex}

Next ==
  \/ \E id \in JobId, p \in Prevhash, curtime \in Curtime :
       add_template(id, p, curtime)
  \/ \E id \in JobId : Collect(id)
  \/ \E id \in JobId, x \in Field(Extranonce), t \in Field(Ntime),
        nonce \in Field(Nonce), now \in Clock :
       submit_share(id, x, t, nonce, now)

Spec == Init /\ [][Next]_registryVars

-----------------------------------------------------------------------------
(* Properties *)

\* The tip has not moved since the k-th template arrived.
Live(k) ==
  \A m \in k..Len(arrived) : arrived[m].prevhash = arrived[k].prevhash

\* No later template took the job id of the k-th one.
Newest(k) ==
  \A m \in k + 1..Len(arrived) : arrived[m].job_id # arrived[k].job_id

\* get_job against the history: whatever NodeCore's ids, reorganisations and
\* the collector do, a job id finds the template that last used it if the tip
\* has not moved since that template arrived, and nothing otherwise.
LookupExact ==
  /\ \A k \in 1..Len(arrived) :
       get_job(arrived[k].job_id) = arrived[k] <=> Live(k) /\ Newest(k)
  /\ \A id \in JobId : get_job(id) # NoBlock =>
       \E k \in 1..Len(arrived) : arrived[k].job_id = id /\ get_job(id) = arrived[k]

\* The limiter's cap is the difficulty of the tip being mined, also after a
\* reorganisation back to a prevhash seen before: on_difficulty_callback runs
\* only for a prevhash the registry no longer holds.
NetworkDiffTracksTip ==
  last_block # NoBlock => network_diff = Difficulty[last_block.prevhash]

\* A hash that solves the block goes to NodeCore if the session asks for less
\* work than the network does, however little less: the rounding of its target
\* never costs the pool a block there.  Nothing else goes to NodeCore.
BlocksReachNodeCore ==
  /\ \A r \in judged :
       LET p == arrived[r.n].prevhash
       IN  below_network_target(r.hash, p) /\ r.difficulty < Difficulty[p]
             => <<r.n, r.sol>> \in sent
  /\ \A b \in sent : \E r \in judged :
       /\ <<r.n, r.sol>> = b
       /\ below_network_target(r.hash, arrived[r.n].prevhash)

\* "If it leads to valid block candidate, asynchronously submits the block back
\* to the network", for sessions that ask for no more work than the network:
\* one at the cap, which asks for just as much, is judged by a float target that
\* can be below the network's, and then a hash between the two is refused.
CandidatesSubmitted ==
  \A r \in judged :
    LET p == arrived[r.n].prevhash
    IN  below_network_target(r.hash, p) /\ r.difficulty <= Difficulty[p]
          => <<r.n, r.sol>> \in sent

\* "Final job validation failed! Should not happen" never happens, however
\* many candidates one template yields: the hash a template keeps is the one
\* judged for the solution it was last finalized with, and it is in the target.
FinalValidationHolds ==
  \A n \in DOMAIN final : final[n] # NoFinal =>
    \E r \in judged :
      /\ r.n = n /\ r.sol = final[n].sol /\ r.hash = final[n].hash
      /\ r.verdict = "block" /\ r.hash <= block_target(arrived[n].prevhash)

Credited == {<<r.n, r.sol>> : r \in {j \in judged : j.verdict # "low"}}

\* submit_share pays for a solution of a template once, whatever id it is
\* submitted under and however often the difficulty changes in between.
PaidOnce == credits = Cardinality(Credited)

\* The registry implements the job board.
Board == INSTANCE JobBoard WITH
  NoTip <- NoBlock,
  tip <- IF last_block = NoBlock THEN NoBlock ELSE last_block.prevhash,
  published <- Len(arrived),
  board <- {b.n : b \in UNION {prevhashes[p] : p \in Prevhash}},
  credited <- Credited

\* Refinement: a share is paid only while its template is on the board, which
\* the next tip wipes, and at most once.
ImplementsJobBoard == Board!Spec

-----------------------------------------------------------------------------
(* The inductive invariant behind the properties above *)

ArrivalOrder == \A k \in 1..Len(arrived) : arrived[k].n = k

LastArrived ==
  /\ last_block = NoBlock <=> arrived = <<>>
  /\ arrived # <<>> => last_block = arrived[Len(arrived)]

\* The lists hold exactly the templates of the tip.
RetainedExact ==
  /\ \A p \in Prevhash : \A b \in prevhashes[p] :
       \E k \in 1..Len(arrived) : b = arrived[k] /\ b.prevhash = p /\ Live(k)
  /\ \A k \in 1..Len(arrived) : Live(k) => arrived[k] \in prevhashes[arrived[k].prevhash]

\* A job id leads to the template that used it last, or to nothing.
JobsNewest ==
  \A id \in JobId : jobs[id] # NoBlock =>
    \E k \in 1..Len(arrived) :
      jobs[id] = arrived[k] /\ arrived[k].job_id = id /\ Newest(k)

\* The collector spares the templates of the tip.
JobsComplete ==
  \A k \in 1..Len(arrived) : Live(k) => jobs[arrived[k].job_id] # NoBlock

RightVerdict(r) ==
  LET p == arrived[r.n].prevhash
  IN  /\ r.verdict = "low" <=> above_user_target(r.hash, r.difficulty)
      /\ r.verdict = "block" <=>
           /\ ~above_user_target(r.hash, r.difficulty)
           /\ below_network_target(r.hash, p)

JudgedRight ==
  \A r \in judged :
    /\ r.n \in 1..Len(arrived) /\ r.sol \in submits[r.n]
    /\ RightVerdict(r)
    /\ r.verdict = "block" => <<r.n, r.sol>> \in sent

SentJudged ==
  \A b \in sent : \E r \in judged : b = <<r.n, r.sol>> /\ r.verdict = "block"

FinalJudged ==
  \A n \in DOMAIN final : final[n] # NoFinal =>
    \E r \in judged :
      /\ r.n = n /\ r.sol = final[n].sol /\ r.hash = final[n].hash
      /\ r.verdict = "block"

RegistryInv ==
  /\ ArrivalOrder /\ LastArrived /\ RetainedExact /\ JobsNewest /\ JobsComplete
  /\ NetworkDiffTracksTip
  /\ JudgedRight /\ SentJudged /\ FinalJudged
=============================================================================
