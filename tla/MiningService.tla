--------------------------- MODULE MiningService ---------------------------
(***************************************************************************)
(* The mining service of the pool: mining/service.py, the subscription of  *)
(* mining/subscription.py, the part of stratum/pubsub.py they use and the  *)
(* batches of stratum/protocol.py, over the template registry they share.  *)
(*                                                                         *)
(* A connection's lines are handled one batch (the complete lines of one   *)
(* dataReceived) at a time, and every service of the pool answers at once, *)
(* so a template never arrives in the middle of a batch.  What a           *)
(* subscription still has to send waits for the end of its batch.          *)
(*                                                                         *)
(* The worker manager is external and answers at once.  Of the share       *)
(* limiter this module keeps what it does to a session: nothing, a new     *)
(* difficulty, or an exception; ShareLimiter models when.                  *)
(***************************************************************************)
EXTENDS TemplateRegistry

CONSTANTS
  Conn,             \* connections
  POOL_TARGET,      \* the difficulty of a new session
  MaxSubscribes,    \* bound: extranonces handed out
  NoConn            \* no batch is being handled

ASSUME ServiceAssumption ==
  /\ POOL_TARGET \in UserDifficulty /\ MaxSubscribes \in Nat
  /\ NoConn \notin Conn

VARIABLES
  open,                 \* the connections of the ConnectionRegistry
  extranonce_counter,   \* extranonces handed out, in units of 1000000
  extranonce,           \* session['extranonce'], 0 when absent
  difficulty,           \* session['difficulty'], 0 when absent
  subscribed,           \* connections with a MiningSubscription
  serving,              \* the connection whose batch is being handled
  on_finish,            \* the batch has a subscription waiting for its end
  told_difficulty,      \* the last mining.set_difficulty sent, 0 for none
  told_job,             \* the last mining.notify sent, 0 for none
  resubscribed          \* history: connections that subscribed twice

sessionVars == <<open, extranonce_counter, extranonce, difficulty, subscribed,
                 serving, on_finish, told_difficulty, told_job, resubscribed>>

serviceVars == <<registryVars, sessionVars>>

SessionTypeOK ==
  /\ open \subseteq Conn /\ subscribed \subseteq open
  /\ resubscribed \subseteq subscribed
  /\ extranonce_counter \in 0..MaxSubscribes
  /\ extranonce \in [Conn -> 0..MaxSubscribes]
  /\ difficulty \in [Conn -> UserDifficulty \cup {0}]
  /\ told_difficulty \in [Conn -> UserDifficulty \cup {0}]
  /\ told_job \in [Conn -> 0..MaxTemplates]
  /\ serving \in open \cup {NoConn}
  /\ on_finish \in BOOLEAN

ServiceInit ==
  /\ Init
  /\ open = {} /\ subscribed = {} /\ resubscribed = {}
  /\ extranonce_counter = 0
  /\ extranonce = [c \in Conn |-> 0]
  /\ difficulty = [c \in Conn |-> 0]
  /\ told_difficulty = [c \in Conn |-> 0]
  /\ told_job = [c \in Conn |-> 0]
  /\ serving = NoConn /\ on_finish = FALSE

-----------------------------------------------------------------------------
(* Connections and batches *)

\* connectionMade: a new connection starts with an empty session.
connectionMade(c) ==
  /\ serving = NoConn
  /\ c \notin open
  /\ open' = open \cup {c}
  /\ UNCHANGED <<registryVars, extranonce_counter, extranonce, difficulty,
                 subscribed, serving, on_finish, told_difficulty, told_job,
                 resubscribed>>

\* Mutant: the subscription outlives its connection.
subscriptions_kept(c) == subscribed

subscriptions_without(c) == subscribed \ {c}

\* connectionLost: the session and its subscription go with the connection.
connectionLost(c) ==
  /\ serving = NoConn
  /\ c \in open
  /\ open' = open \ {c}
  /\ subscribed' = subscriptions_without(c)
  /\ resubscribed' = resubscribed \ {c}
  /\ extranonce' = [extranonce EXCEPT ![c] = 0]
  /\ difficulty' = [difficulty EXCEPT ![c] = 0]
  /\ told_difficulty' = [told_difficulty EXCEPT ![c] = 0]
  /\ told_job' = [told_job EXCEPT ![c] = 0]
  /\ UNCHANGED <<registryVars, extranonce_counter, serving, on_finish>>

\* The next line of a batch, or the first of a new one.
Handles(c) ==
  /\ c \in open
  /\ serving \in {NoConn, c}
  /\ serving' = c

\* Mutant: the difficulty the session starts with is told, not its present one.
first_difficulty(c) == POOL_TARGET

\* The difficulty _finish_after_subscribe reads from the session.
finish_difficulty(c) == difficulty[c]

\* What mining.notify carries: the template a miner is to work on.
get_last_broadcast_args == last_block'.n

\* emit_single on the subscription of every one of these connections.
emit(conns) ==
  told_job' = [c \in Conn |-> IF c \in conns THEN get_last_broadcast_args
                              ELSE told_job[c]]

\* Every line of the batch is answered: on_finish runs after_subscribe, which
\* runs _finish_after_subscribe.  The difficulty goes out first; there is no
\* job to send before the first template.
FinishBatch(c) ==
  /\ serving = c
  /\ serving' = NoConn
  /\ on_finish' = FALSE
  /\ UNCHANGED <<registryVars, open, extranonce_counter, extranonce, difficulty,
                 subscribed, resubscribed>>
  /\ IF on_finish
     THEN /\ told_difficulty' = [told_difficulty EXCEPT ![c] = finish_difficulty(c)]
          /\ emit({c} \ {d \in Conn : last_block = NoBlock})
     ELSE UNCHANGED <<told_difficulty, told_job>>

-----------------------------------------------------------------------------
(* The service's methods *)

\* Mutant: every session gets the same extranonce.
get_new_extranonce_constant == 1

get_new_extranonce == extranonce_counter + 1

\* subscribe, up to Pubsub.subscribe: the session is written first.
NewSession(c) ==
  /\ Handles(c)
  /\ extranonce_counter < MaxSubscribes
  /\ extranonce_counter' = extranonce_counter + 1
  /\ extranonce' = [extranonce EXCEPT ![c] = get_new_extranonce]
  /\ difficulty' = [difficulty EXCEPT ![c] = POOL_TARGET]
  /\ UNCHANGED <<registryVars, open, told_difficulty, told_job>>

\* The connection's first subscription.
subscribe(c) ==
  /\ NewSession(c)
  /\ c \notin subscribed
  /\ subscribed' = subscribed \cup {c}
  /\ on_finish' = TRUE
  /\ UNCHANGED resubscribed

\* AlreadySubscribedException: the session was written all the same, and the
\* miner is told neither the new extranonce nor the difficulty.
RefuseSubscribe(c) ==
  /\ NewSession(c)
  /\ c \in subscribed
  /\ resubscribed' = resubscribed \cup {c}
  /\ UNCHANGED <<subscribed, on_finish>>

\* A method that leaves its session as it is.
KeepsSession ==
  UNCHANGED <<registryVars, open, extranonce_counter, extranonce, difficulty,
              subscribed, on_finish, told_difficulty, told_job, resubscribed>>

\* authorize: session['authorized'] is only ever shown to the worker manager.
authorize(c) == Handles(c) /\ KeepsSession

\* SubmitException: the worker manager does not accept the worker, which it may
\* do at any time, whatever authorize was told.
RefuseUnauthorized(c) == Handles(c) /\ KeepsSession

\* SubmitException: the session has no extranonce.
RefuseUnsubscribed(c) ==
  /\ Handles(c)
  /\ extranonce[c] = 0
  /\ KeepsSession

\* The limiter raises an exception: the share goes no further.
FailLimiter(c) ==
  /\ Handles(c)
  /\ extranonce[c] # 0
  /\ KeepsSession

\* What the limiter does with a share: it leaves the session alone, or changes
\* its difficulty and sends mining.set_difficulty at once.
Limit(c) ==
  \/ UNCHANGED <<difficulty, told_difficulty>>
  \/ \E new_diff \in UserDifficulty :
       /\ difficulty' = [difficulty EXCEPT ![c] = new_diff]
       /\ told_difficulty' = [told_difficulty EXCEPT ![c] = new_diff]

\* Mutant: the difficulty is read again after the limiter has run.
difficulty_after_limiter(c) == difficulty'[c]

\* The difficulty a share is judged at, read before the limiter runs.
share_difficulty(c) == difficulty[c]

\* A submit of a subscribed connection that gets as far as the registry.
submit(c, id, x, t, nonce, now) ==
  /\ Handles(c)
  /\ extranonce[c] # 0
  /\ Limit(c)
  /\ \/ RefuseShare(id, x, t, nonce, now)
     \/ FailDecoding(id, x, t, nonce, now)
     \/ RefuseDuplicate(id, x, t, nonce, now)
     \/ FailMerkle(id, x, t, nonce, now)
     \/ CheckWork(id, x, t, nonce, now, share_difficulty(c))
  /\ UNCHANGED <<open, extranonce_counter, extranonce, subscribed, on_finish,
                 told_job, resubscribed>>

-----------------------------------------------------------------------------
(* Templates *)

\* Mutant: the broadcast reaches only those that have a job already.
subscribers_with_job == {c \in subscribed : told_job[c] # 0}

\* The subscriptions a broadcast iterates over.
iterate_subscribers == subscribed

\* add_template ends with on_template, which sends the new template to every
\* subscription.
on_template(id, p, curtime) ==
  /\ serving = NoConn
  /\ add_template(id, p, curtime)
  /\ emit(iterate_subscribers)
  /\ UNCHANGED <<open, extranonce_counter, extranonce, difficulty, subscribed,
                 serving, on_finish, told_difficulty, resubscribed>>

\* The collector can run at any time.
CollectTemplate(id) == Collect(id) /\ UNCHANGED sessionVars

\* Malformed fields differ in the exception only, so the extranonce stands for
\* all three; TemplateRegistry takes every combination.
ServiceNext ==
  \/ \E c \in Conn :
       \/ connectionMade(c) \/ connectionLost(c) \/ FinishBatch(c)
       \/ subscribe(c) \/ RefuseSubscribe(c)
       \/ authorize(c) \/ RefuseUnauthorized(c)
       \/ RefuseUnsubscribed(c) \/ FailLimiter(c)
  \/ \E c \in Conn, id \in JobId, x \in Field(Extranonce), t \in Ntime,
        nonce \in Nonce, now \in Clock :
       submit(c, id, x, t, nonce, now)
  \/ \E id \in JobId, p \in Prevhash, curtime \in Curtime :
       on_template(id, p, curtime)
  \/ \E id \in JobId : CollectTemplate(id)

ServiceSpec == ServiceInit /\ [][ServiceNext]_serviceVars

-----------------------------------------------------------------------------
(* Properties *)

\* Between batches every subscriber works on the newest template, whether it
\* subscribed before the first template or long after the last, and at the
\* difficulty its shares are judged by, whatever limiter and batching did in
\* between; only a refused second subscription can separate the two.
SubscribersInformed ==
  \A c \in subscribed : serving # c =>
    /\ told_job[c] = Len(arrived)
    /\ c \notin resubscribed => told_difficulty[c] = difficulty[c]

\* A share is judged at the difficulty last sent to its miner before its line is
\* handled, never at the one its own retarget sends.  The miner need not have
\* known it when it wrote the line: the retarget of a share before it, in the same
\* batch or an earlier one, may have sent it while the line was on its way.  So a
\* share good enough for the difficulty its miner knew, whichever that was, can be
\* refused as too low, but only after the miner was sent a higher one.
JudgedAsTold ==
  [][\A r \in judged' \ judged :
       LET c == serving'
       IN  told_difficulty[c] # 0 /\ c \notin resubscribed
             => /\ r.difficulty = told_difficulty[c]
                /\ \A known \in UserDifficulty :
                     r.verdict = "low" /\ ~above_user_target(r.hash, known)
                       => told_difficulty[c] > known]_serviceVars

\* Connections mine with different extranonces, through reconnections and
\* refused subscriptions: miners of one template never repeat each other's work.
ExtranoncesDiffer ==
  \A c, d \in open : c # d /\ extranonce[c] # 0 => extranonce[c] # extranonce[d]
=============================================================================
