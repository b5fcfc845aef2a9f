------------------------ MODULE MiningServiceProofs ------------------------
(***************************************************************************)
(* Theorems about the mining service, for any number of connections,       *)
(* subscriptions, templates and shares.                                    *)
(***************************************************************************)
EXTENDS MiningService, TemplateRegistryProofs

\* A session has an extranonce and a difficulty exactly if its connection
\* subscribed, and extranonces are handed out in order.
SessionsHold ==
  /\ \A c \in Conn :
       /\ c \in subscribed <=> extranonce[c] # 0
       /\ c \in subscribed <=> difficulty[c] # 0
       /\ extranonce[c] <= extranonce_counter
  /\ \A c, d \in Conn : c # d /\ extranonce[c] # 0 => extranonce[c] # extranonce[d]

\* Only the batch that is being handled has a subscription waiting for its end.
BatchesHold == on_finish => serving \in subscribed

\* The connection waits for the end of its batch to be told.
Waits(c) == serving = c /\ on_finish

\* What a miner was told is what its session and the registry say, but for
\* what the end of its batch still brings.
TellingHolds ==
  \A c \in Conn :
    /\ told_job[c] \in 0..Len(arrived)
    /\ c \notin subscribed => told_difficulty[c] = 0
    /\ c \in subscribed \ resubscribed => told_difficulty[c] \in {0, difficulty[c]}
    /\ c \in subscribed /\ ~Waits(c) =>
         /\ told_job[c] = Len(arrived)
         /\ c \notin resubscribed => told_difficulty[c] = difficulty[c]

SessionInv == SessionTypeOK /\ SessionsHold /\ BatchesHold /\ TellingHolds

ServiceInv == TypeOK /\ RegistryInv /\ SessionInv

LEMMA ServiceInitInv == ServiceInit => ServiceInv
<1> SUFFICES ASSUME ServiceInit PROVE ServiceInv
  OBVIOUS
<1>1. TypeOK /\ RegistryInv
  BY InitType, InitInv DEF ServiceInit
<1>2. /\ open = {} /\ subscribed = {} /\ resubscribed = {}
      /\ extranonce_counter = 0
      /\ extranonce = [c \in Conn |-> 0]
      /\ difficulty = [c \in Conn |-> 0]
      /\ told_difficulty = [c \in Conn |-> 0]
      /\ told_job = [c \in Conn |-> 0]
      /\ serving = NoConn /\ on_finish = FALSE
  BY DEF ServiceInit
<1>3. Len(arrived) \in Nat
  BY <1>1 DEF TypeOK
<1>4. SessionTypeOK
  <2>1. 0 \in 0..MaxSubscribes /\ 0 \in 0..MaxTemplates
    BY ServiceAssumption, RegistryAssumption
  <2>2. /\ extranonce \in [Conn -> 0..MaxSubscribes]
        /\ difficulty \in [Conn -> UserDifficulty \cup {0}]
        /\ told_difficulty \in [Conn -> UserDifficulty \cup {0}]
        /\ told_job \in [Conn -> 0..MaxTemplates]
    BY <1>2, <2>1
  <2> QED BY <1>2, <2>1, <2>2 DEF SessionTypeOK
<1>5. SessionsHold /\ BatchesHold
  <2>1. \A c \in Conn : extranonce[c] = 0 /\ difficulty[c] = 0
    BY <1>2
  <2> QED BY <1>2, <2>1 DEF SessionsHold, BatchesHold
<1>6. TellingHolds
  BY <1>2, <1>3 DEF TellingHolds
<1> QED BY <1>1, <1>4, <1>5, <1>6 DEF ServiceInv, SessionInv

-----------------------------------------------------------------------------
(* The registry below the service *)

\* A session that can submit asks for a difficulty the registry knows.
LEMMA ShareDifficulty ==
  ASSUME SessionInv, NEW c \in Conn, extranonce[c] # 0
  PROVE  share_difficulty(c) \in UserDifficulty
BY DEF SessionInv, SessionTypeOK, SessionsHold, share_difficulty

LEMMA SubmitIsShare ==
  ASSUME SessionInv, NEW c \in Conn, NEW id \in JobId, NEW x \in Field(Extranonce),
         NEW t \in Ntime, NEW nonce \in Nonce, NEW now \in Clock,
         submit(c, id, x, t, nonce, now)
  PROVE  Next
<1>1. extranonce[c] # 0
  BY DEF submit
<1>2. share_difficulty(c) \in UserDifficulty
  BY <1>1, ShareDifficulty
<1>3. submit_share(id, x, t, nonce, now)
  BY <1>2 DEF submit, submit_share
<1>4. t \in Field(Ntime) /\ nonce \in Field(Nonce)
  BY DEF Field
<1> QED BY <1>3, <1>4 DEF Next

LEMMA ServiceStepIsRegistryStep ==
  ASSUME SessionInv, [ServiceNext]_serviceVars
  PROVE  [Next]_registryVars
<1>1. ASSUME NEW c \in Conn,
             \/ connectionMade(c) \/ connectionLost(c) \/ FinishBatch(c)
             \/ subscribe(c) \/ RefuseSubscribe(c)
             \/ authorize(c) \/ RefuseUnauthorized(c)
             \/ RefuseUnsubscribed(c) \/ FailLimiter(c)
      PROVE  UNCHANGED registryVars
  BY <1>1 DEF connectionMade, connectionLost, FinishBatch, subscribe,
     RefuseSubscribe, NewSession, authorize, RefuseUnauthorized,
     RefuseUnsubscribed, FailLimiter, KeepsSession
<1>2. ASSUME NEW id \in JobId, NEW p \in Prevhash, NEW curtime \in Curtime,
             on_template(id, p, curtime)
      PROVE  Next
  BY <1>2 DEF on_template, Next
<1>3. ASSUME NEW id \in JobId, CollectTemplate(id) PROVE Next
  BY <1>3 DEF CollectTemplate, Next
<1>4. UNCHANGED serviceVars => UNCHANGED registryVars
  BY DEF serviceVars
<1> QED BY <1>1, <1>2, <1>3, <1>4, SubmitIsShare DEF ServiceNext

-----------------------------------------------------------------------------
(* Steps that touch no session *)

\* A step that keeps sessions and templates, and at most begins a batch.
LEMMA QuietStep ==
  ASSUME TypeOK, SessionInv, serving' \in open \cup {NoConn},
         serving \in {NoConn, serving'},
         UNCHANGED <<open, extranonce_counter, extranonce, difficulty, subscribed,
                     on_finish, told_difficulty, told_job, resubscribed>>,
         Len(arrived') = Len(arrived)
  PROVE  SessionInv'
<1>1. NoConn \notin Conn /\ subscribed \subseteq Conn
  BY ServiceAssumption DEF SessionInv, SessionTypeOK
<1>2. SessionTypeOK'
  BY DEF SessionInv, SessionTypeOK
<1>3. SessionsHold'
  BY DEF SessionInv, SessionsHold
<1>4. BatchesHold'
  BY <1>1 DEF SessionInv, BatchesHold
<1>5. \A c \in Conn : Waits(c) => Waits(c)'
  BY <1>1 DEF Waits
<1>6. TellingHolds'
  BY <1>5 DEF SessionInv, TellingHolds
<1> QED BY <1>2, <1>3, <1>4, <1>6 DEF SessionInv

\* A connection comes.
LEMMA MadeKeepsInv ==
  ASSUME TypeOK, SessionInv, NEW c \in Conn, connectionMade(c)
  PROVE  SessionInv'
<1>1. /\ c \notin open /\ open' = open \cup {c}
      /\ UNCHANGED <<arrived, extranonce_counter, extranonce, difficulty,
                     subscribed, serving, on_finish, told_difficulty, told_job,
                     resubscribed>>
  BY DEF connectionMade, registryVars
<1>2. SessionTypeOK'
  BY <1>1 DEF SessionInv, SessionTypeOK
<1>3. SessionsHold' /\ BatchesHold'
  BY <1>1 DEF SessionInv, SessionsHold, BatchesHold
<1>4. TellingHolds'
  BY <1>1 DEF SessionInv, TellingHolds, Waits
<1> QED BY <1>2, <1>3, <1>4 DEF SessionInv

\* A connection goes, and all that was kept for it.
LEMMA LostKeepsInv ==
  ASSUME TypeOK, SessionInv, NEW c \in Conn, connectionLost(c)
  PROVE  SessionInv'
<1>0. SessionTypeOK /\ SessionsHold /\ BatchesHold /\ TellingHolds
  BY DEF SessionInv
<1>1. /\ serving = NoConn /\ open' = open \ {c}
      /\ subscribed' = subscribed \ {c} /\ resubscribed' = resubscribed \ {c}
      /\ UNCHANGED <<arrived, extranonce_counter, serving, on_finish>>
  BY DEF connectionLost, registryVars, subscriptions_without
<1>2. /\ extranonce' = [extranonce EXCEPT ![c] = 0]
      /\ difficulty' = [difficulty EXCEPT ![c] = 0]
      /\ told_difficulty' = [told_difficulty EXCEPT ![c] = 0]
      /\ told_job' = [told_job EXCEPT ![c] = 0]
  BY DEF connectionLost
<1>3. /\ extranonce'[c] = 0 /\ difficulty'[c] = 0
      /\ told_difficulty'[c] = 0 /\ told_job'[c] = 0
  BY <1>0, <1>2 DEF SessionTypeOK
<1>4. \A d \in Conn \ {c} :
        /\ extranonce'[d] = extranonce[d] /\ difficulty'[d] = difficulty[d]
        /\ told_difficulty'[d] = told_difficulty[d] /\ told_job'[d] = told_job[d]
        /\ d \in subscribed' <=> d \in subscribed
        /\ d \in resubscribed' <=> d \in resubscribed
  BY <1>0, <1>1, <1>2 DEF SessionTypeOK
<1>5. extranonce_counter \in Nat /\ Len(arrived) \in Nat /\ MaxTemplates \in Nat
  BY <1>0, ServiceAssumption, RegistryAssumption DEF SessionTypeOK, TypeOK
<1>6. SessionTypeOK'
  <2>1. /\ extranonce' \in [Conn -> 0..MaxSubscribes]
        /\ difficulty' \in [Conn -> UserDifficulty \cup {0}]
        /\ told_difficulty' \in [Conn -> UserDifficulty \cup {0}]
        /\ told_job' \in [Conn -> 0..MaxTemplates]
    BY <1>0, <1>2, <1>5, ServiceAssumption DEF SessionTypeOK
  <2> QED BY <1>0, <1>1, <2>1 DEF SessionTypeOK
<1>7. SessionsHold'
  <2>1. \A d \in Conn :
       /\ d \in subscribed' <=> extranonce'[d] # 0
       /\ d \in subscribed' <=> difficulty'[d] # 0
       /\ extranonce'[d] <= extranonce_counter'
    BY <1>0, <1>1, <1>3, <1>4, <1>5 DEF SessionsHold
  <2>2. \A d, e \in Conn : d # e /\ extranonce'[d] # 0 => extranonce'[d] # extranonce'[e]
    BY <1>0, <1>3, <1>4 DEF SessionsHold
  <2> QED BY <2>1, <2>2 DEF SessionsHold
<1>8. BatchesHold' /\ ~on_finish
  <2>1. NoConn \notin subscribed
    BY <1>0, ServiceAssumption DEF SessionTypeOK
  <2> QED BY <1>0, <1>1, <2>1 DEF BatchesHold
<1>9. TellingHolds'
  <2>1. \A d \in Conn : ~Waits(d) /\ ~Waits(d)'
    BY <1>1, <1>8 DEF Waits
  <2>2. ASSUME NEW d \in Conn
        PROVE /\ told_job'[d] \in 0..Len(arrived')
              /\ d \notin subscribed' => told_difficulty'[d] = 0
              /\ d \in subscribed' \ resubscribed' => told_difficulty'[d] \in {0, difficulty'[d]}
              /\ d \in subscribed' /\ ~Waits(d)' =>
                   /\ told_job'[d] = Len(arrived')
                   /\ d \notin resubscribed' => told_difficulty'[d] = difficulty'[d]
    <3>1. CASE d = c
      BY <1>1, <1>3, <1>5, <3>1
    <3>2. CASE d # c
      BY <1>0, <1>1, <1>4, <2>1, <3>2 DEF TellingHolds
    <3> QED BY <3>1, <3>2
  <2> QED BY <2>2 DEF TellingHolds
<1> QED BY <1>6, <1>7, <1>8, <1>9 DEF SessionInv

-----------------------------------------------------------------------------
(* Subscriptions *)

\* The session of a subscription, also of one that is then refused.
LEMMA NewSessionHolds ==
  ASSUME TypeOK, SessionInv, NEW c \in Conn, NewSession(c),
         subscribed' = subscribed \cup {c}
  PROVE  /\ SessionsHold'
         /\ extranonce' \in [Conn -> 0..MaxSubscribes]
         /\ difficulty' \in [Conn -> UserDifficulty \cup {0}]
         /\ extranonce_counter' \in 0..MaxSubscribes
         /\ \A d \in Conn \ {c} : difficulty'[d] = difficulty[d]
<1>0. SessionTypeOK /\ SessionsHold
  BY DEF SessionInv
<1>1. /\ extranonce_counter < MaxSubscribes
      /\ extranonce_counter' = extranonce_counter + 1
      /\ extranonce' = [extranonce EXCEPT ![c] = extranonce_counter + 1]
      /\ difficulty' = [difficulty EXCEPT ![c] = POOL_TARGET]
  BY DEF NewSession, get_new_extranonce
<1>2. extranonce_counter \in Nat /\ MaxSubscribes \in Nat /\ POOL_TARGET \in UserDifficulty
  BY <1>0, ServiceAssumption DEF SessionTypeOK
<1>3. extranonce_counter' \in 0..MaxSubscribes
  BY <1>1, <1>2
<1>4. /\ extranonce' \in [Conn -> 0..MaxSubscribes]
      /\ difficulty' \in [Conn -> UserDifficulty \cup {0}]
  BY <1>0, <1>1, <1>2, <1>3 DEF SessionTypeOK
<1>5. extranonce'[c] = extranonce_counter + 1 /\ difficulty'[c] = POOL_TARGET
  BY <1>0, <1>1 DEF SessionTypeOK
<1>6. \A d \in Conn \ {c} :
        /\ extranonce'[d] = extranonce[d] /\ difficulty'[d] = difficulty[d]
        /\ d \in subscribed' <=> d \in subscribed
  BY <1>0, <1>1 DEF SessionTypeOK
<1>7. \A d \in Conn : extranonce[d] \in Nat /\ extranonce[d] <= extranonce_counter
  BY <1>0, <1>2 DEF SessionTypeOK, SessionsHold
<1>8. extranonce_counter + 1 # 0 /\ POOL_TARGET # 0
  BY <1>2, RegistryAssumption
<1>9. ASSUME NEW d \in Conn
      PROVE  /\ d \in subscribed' <=> extranonce'[d] # 0
             /\ d \in subscribed' <=> difficulty'[d] # 0
             /\ extranonce'[d] <= extranonce_counter'
  <2>1. CASE d = c
    BY <1>1, <1>2, <1>5, <1>8, <2>1
  <2>2. CASE d # c
    BY <1>0, <1>1, <1>2, <1>6, <1>7, <2>2 DEF SessionsHold
  <2> QED BY <2>1, <2>2
<1>10. ASSUME NEW d \in Conn, NEW e \in Conn, d # e, extranonce'[d] # 0
       PROVE  extranonce'[d] # extranonce'[e]
  <2>1. CASE d = c
    BY <1>2, <1>5, <1>6, <1>7, <1>10, <2>1
  <2>2. CASE e = c
    BY <1>2, <1>5, <1>6, <1>7, <1>10, <2>2
  <2>3. CASE d # c /\ e # c
    BY <1>0, <1>6, <1>10, <2>3 DEF SessionsHold
  <2> QED BY <2>1, <2>2, <2>3
<1>11. SessionsHold'
  BY <1>9, <1>10 DEF SessionsHold
<1> QED BY <1>3, <1>4, <1>6, <1>11

LEMMA SubscribeKeepsInv ==
  ASSUME TypeOK, SessionInv, NEW c \in Conn, subscribe(c) \/ RefuseSubscribe(c)
  PROVE  SessionInv'
<1>0. SessionTypeOK /\ SessionsHold /\ BatchesHold /\ TellingHolds
  BY DEF SessionInv
<1>1. /\ NewSession(c) /\ c \in open /\ serving \in {NoConn, c} /\ serving' = c
      /\ UNCHANGED <<arrived, open, told_difficulty, told_job>>
  BY DEF subscribe, RefuseSubscribe, NewSession, Handles, registryVars
<1>2. subscribed' = subscribed \cup {c}
  BY DEF subscribe, RefuseSubscribe
<1>3. /\ SessionsHold'
      /\ extranonce' \in [Conn -> 0..MaxSubscribes]
      /\ difficulty' \in [Conn -> UserDifficulty \cup {0}]
      /\ extranonce_counter' \in 0..MaxSubscribes
      /\ \A d \in Conn \ {c} : difficulty'[d] = difficulty[d]
  BY <1>1, <1>2, NewSessionHolds
<1>4. /\ resubscribed' \in {resubscribed, resubscribed \cup {c}}
      /\ on_finish' \in {on_finish, TRUE} /\ on_finish \in BOOLEAN
  BY <1>0 DEF subscribe, RefuseSubscribe, SessionTypeOK
<1>5. SessionTypeOK'
  BY <1>0, <1>1, <1>2, <1>3, <1>4 DEF SessionTypeOK
<1>6. BatchesHold'
  BY <1>1, <1>2 DEF BatchesHold
<1>7. \A d \in Conn \ {c} : ~Waits(d) /\ ~Waits(d)'
  BY <1>1, ServiceAssumption DEF Waits
<1>8. ASSUME NEW d \in Conn
      PROVE /\ told_job'[d] \in 0..Len(arrived')
            /\ d \notin subscribed' => told_difficulty'[d] = 0
            /\ d \in subscribed' \ resubscribed' => told_difficulty'[d] \in {0, difficulty'[d]}
            /\ d \in subscribed' /\ ~Waits(d)' =>
                 /\ told_job'[d] = Len(arrived')
                 /\ d \notin resubscribed' => told_difficulty'[d] = difficulty'[d]
  <2>1. CASE d # c
    <3>1. d \in subscribed' <=> d \in subscribed
      BY <1>2, <2>1
    <3>2. d \in resubscribed' <=> d \in resubscribed
      BY <1>4, <2>1
    <3> QED BY <1>0, <1>1, <1>3, <1>7, <2>1, <3>1, <3>2 DEF TellingHolds
  <2>2. CASE d = c /\ subscribe(c)
    <3>1. on_finish' = TRUE /\ c \notin subscribed
      BY <2>2 DEF subscribe
    <3>2. told_difficulty[c] = 0 /\ Waits(c)'
      BY <1>0, <1>1, <3>1 DEF TellingHolds, Waits
    <3> QED BY <1>0, <1>1, <1>2, <2>2, <3>2 DEF TellingHolds
  <2>3. CASE d = c /\ RefuseSubscribe(c)
    <3>1. c \in subscribed /\ c \in resubscribed' /\ on_finish' = on_finish
      BY <2>3 DEF RefuseSubscribe
    <3>2. Waits(c) => Waits(c)'
      BY <1>1, <3>1 DEF Waits
    <3> QED BY <1>0, <1>1, <1>2, <2>3, <3>1, <3>2 DEF TellingHolds
  <2> QED BY <2>1, <2>2, <2>3
<1>9. TellingHolds'
  BY <1>8 DEF TellingHolds
<1> QED BY <1>3, <1>5, <1>6, <1>9 DEF SessionInv

-----------------------------------------------------------------------------
(* The end of a batch *)

LEMMA FinishKeepsInv ==
  ASSUME TypeOK, RegistryInv, SessionInv, NEW c \in Conn, FinishBatch(c)
  PROVE  SessionInv'
<1>0. SessionTypeOK /\ SessionsHold /\ BatchesHold /\ TellingHolds
  BY DEF SessionInv
<1>1. /\ serving = c /\ serving' = NoConn /\ on_finish' = FALSE
      /\ UNCHANGED <<arrived, last_block, open, extranonce_counter, extranonce,
                     difficulty, subscribed, resubscribed>>
  BY DEF FinishBatch, registryVars
<1>2. Len(arrived) \in 0..MaxTemplates
  BY RegistryAssumption DEF TypeOK
<1>3. SessionsHold' /\ BatchesHold'
  BY <1>0, <1>1 DEF SessionsHold, BatchesHold
<1>4. \A d \in Conn : ~Waits(d)' /\ (d # c => ~Waits(d))
  BY <1>1 DEF Waits
<1>5. CASE ~on_finish
  <2>1. UNCHANGED <<told_difficulty, told_job>>
    BY <1>5 DEF FinishBatch
  <2>2. SessionTypeOK'
    BY <1>0, <1>1, <2>1 DEF SessionTypeOK
  <2>3. \A d \in Conn : ~Waits(d)
    BY <1>5 DEF Waits
  <2>4. TellingHolds'
    BY <1>0, <1>1, <2>1, <2>3 DEF TellingHolds
  <2> QED BY <1>3, <2>2, <2>4 DEF SessionInv
<1>6. CASE on_finish
  <2>1. /\ told_difficulty' = [told_difficulty EXCEPT ![c] = difficulty[c]]
        /\ told_job' = [d \in Conn |-> IF d \in {c} \ {e \in Conn : last_block = NoBlock}
                                       THEN last_block'.n ELSE told_job[d]]
    BY <1>6 DEF FinishBatch, finish_difficulty, emit, get_last_broadcast_args
  <2>2. c \in subscribed
    BY <1>0, <1>1, <1>6 DEF BatchesHold
  <2>3. told_difficulty'[c] = difficulty[c]
    BY <1>0, <2>1 DEF SessionTypeOK
  <2>4. told_job'[c] = Len(arrived)
    <3>1. CASE last_block = NoBlock
      <4>1. told_job'[c] = told_job[c]
        BY <2>1, <3>1
      <4>2. arrived = <<>> /\ Len(arrived) = 0
        BY <3>1 DEF RegistryInv, LastArrived
      <4>3. told_job[c] \in 0..0
        BY <1>0, <4>2 DEF TellingHolds
      <4> QED BY <4>1, <4>2, <4>3
    <3>2. CASE last_block # NoBlock
      <4>1. told_job'[c] = last_block.n
        BY <1>1, <2>1, <3>2
      <4>2. arrived # <<>> /\ last_block = arrived[Len(arrived)]
        BY <3>2 DEF RegistryInv, LastArrived
      <4>3. Len(arrived) \in 1..Len(arrived)
        BY <1>2, <4>2 DEF TypeOK
      <4>4. last_block.n = Len(arrived)
        BY <4>2, <4>3 DEF RegistryInv, ArrivalOrder
      <4> QED BY <4>1, <4>4
    <3> QED BY <3>1, <3>2
  <2>5. \A d \in Conn \ {c} :
          told_difficulty'[d] = told_difficulty[d] /\ told_job'[d] = told_job[d]
    BY <1>0, <2>1 DEF SessionTypeOK
  <2>6. SessionTypeOK'
    <3>1. told_difficulty' \in [Conn -> UserDifficulty \cup {0}]
      BY <1>0, <2>1 DEF SessionTypeOK
    <3>2. \A d \in Conn : told_job'[d] \in 0..MaxTemplates
      BY <1>0, <1>2, <2>4, <2>5 DEF SessionTypeOK
    <3>3. told_job' \in [Conn -> 0..MaxTemplates]
      BY <2>1, <3>2
    <3> QED BY <1>0, <1>1, <3>1, <3>3 DEF SessionTypeOK
  <2>7. ASSUME NEW d \in Conn
        PROVE /\ told_job'[d] \in 0..Len(arrived')
              /\ d \notin subscribed' => told_difficulty'[d] = 0
              /\ d \in subscribed' \ resubscribed' => told_difficulty'[d] \in {0, difficulty'[d]}
              /\ d \in subscribed' /\ ~Waits(d)' =>
                   /\ told_job'[d] = Len(arrived')
                   /\ d \notin resubscribed' => told_difficulty'[d] = difficulty'[d]
    <3>1. CASE d = c
      BY <1>1, <1>2, <2>2, <2>3, <2>4, <3>1
    <3>2. CASE d # c
      BY <1>0, <1>1, <1>4, <2>5, <3>2 DEF TellingHolds
    <3> QED BY <3>1, <3>2
  <2>8. TellingHolds'
    BY <2>7 DEF TellingHolds
  <2> QED BY <1>3, <2>6, <2>8 DEF SessionInv
<1> QED BY <1>5, <1>6

-----------------------------------------------------------------------------
(* Shares and templates *)

\* A share leaves the templates alone.
LEMMA SubmitKeepsTemplates ==
  ASSUME NEW c \in Conn, NEW id \in JobId, NEW x \in Field(Extranonce),
         NEW t \in Ntime, NEW nonce \in Nonce, NEW now \in Clock,
         submit(c, id, x, t, nonce, now)
  PROVE  arrived' = arrived
<1>1. CASE UNCHANGED registryVars
  BY <1>1 DEF registryVars
<1>2. CASE FailMerkle(id, x, t, nonce, now)
  BY <1>2 DEF FailMerkle
<1>3. CASE CheckWork(id, x, t, nonce, now, share_difficulty(c))
  BY <1>3 DEF CheckWork, RefuseLow, AcceptShare, AcceptBlock, Judge
<1> QED BY <1>1, <1>2, <1>3 DEF submit, RefuseShare, FailDecoding, RefuseDuplicate

LEMMA SubmitKeepsInv ==
  ASSUME TypeOK, SessionInv, NEW c \in Conn, NEW id \in JobId,
         NEW x \in Field(Extranonce), NEW t \in Ntime, NEW nonce \in Nonce,
         NEW now \in Clock, submit(c, id, x, t, nonce, now)
  PROVE  SessionInv'
<1>0. SessionTypeOK /\ SessionsHold /\ BatchesHold /\ TellingHolds
  BY DEF SessionInv
<1>1. /\ c \in open /\ serving \in {NoConn, c} /\ serving' = c
      /\ extranonce[c] # 0 /\ Limit(c)
      /\ UNCHANGED <<open, extranonce_counter, extranonce, subscribed, on_finish,
                     told_job, resubscribed>>
  BY DEF submit, Handles
<1>2. arrived' = arrived
  BY SubmitKeepsTemplates
<1>4. c \in subscribed
  BY <1>0, <1>1 DEF SessionsHold
<1>5. \A d \in Conn : Waits(d) => Waits(d)'
  BY <1>1, ServiceAssumption DEF Waits
<1>6. BatchesHold'
  BY <1>0, <1>1, <1>4 DEF BatchesHold
<1>7. CASE UNCHANGED <<difficulty, told_difficulty>>
  <2>1. SessionTypeOK'
    BY <1>0, <1>1, <1>7 DEF SessionTypeOK
  <2>2. SessionsHold'
    BY <1>0, <1>1, <1>7 DEF SessionsHold
  <2>3. TellingHolds'
    BY <1>0, <1>1, <1>2, <1>5, <1>7 DEF TellingHolds
  <2> QED BY <1>6, <2>1, <2>2, <2>3 DEF SessionInv
<1>8. ASSUME NEW new_diff \in UserDifficulty,
             difficulty' = [difficulty EXCEPT ![c] = new_diff],
             told_difficulty' = [told_difficulty EXCEPT ![c] = new_diff]
      PROVE  SessionInv'
  <2>1. new_diff # 0
    BY RegistryAssumption
  <2>2. difficulty'[c] = new_diff /\ told_difficulty'[c] = new_diff
    BY <1>0, <1>8 DEF SessionTypeOK
  <2>3. \A d \in Conn \ {c} :
          difficulty'[d] = difficulty[d] /\ told_difficulty'[d] = told_difficulty[d]
    BY <1>0, <1>8 DEF SessionTypeOK
  <2>4. SessionTypeOK'
    <3>1. /\ difficulty' \in [Conn -> UserDifficulty \cup {0}]
          /\ told_difficulty' \in [Conn -> UserDifficulty \cup {0}]
      BY <1>0, <1>8 DEF SessionTypeOK
    <3> QED BY <1>0, <1>1, <3>1 DEF SessionTypeOK
  <2>5. SessionsHold'
    <3>1. \A d \in Conn : d \in subscribed' <=> difficulty'[d] # 0
      BY <1>0, <1>1, <1>4, <2>1, <2>2, <2>3 DEF SessionsHold
    <3> QED BY <1>0, <1>1, <3>1 DEF SessionsHold
  <2>6. ASSUME NEW d \in Conn
        PROVE /\ told_job'[d] \in 0..Len(arrived')
              /\ d \notin subscribed' => told_difficulty'[d] = 0
              /\ d \in subscribed' \ resubscribed' => told_difficulty'[d] \in {0, difficulty'[d]}
              /\ d \in subscribed' /\ ~Waits(d)' =>
                   /\ told_job'[d] = Len(arrived')
                   /\ d \notin resubscribed' => told_difficulty'[d] = difficulty'[d]
    <3>1. CASE d = c
      BY <1>0, <1>1, <1>2, <1>4, <1>5, <2>2, <3>1 DEF TellingHolds
    <3>2. CASE d # c
      BY <1>0, <1>1, <1>2, <1>5, <2>3, <3>2 DEF TellingHolds
    <3> QED BY <3>1, <3>2
  <2>7. TellingHolds'
    BY <2>6 DEF TellingHolds
  <2> QED BY <1>6, <2>4, <2>5, <2>7 DEF SessionInv
<1> QED BY <1>1, <1>7, <1>8 DEF Limit

LEMMA TemplateKeepsInv ==
  ASSUME TypeOK, SessionInv, NEW id \in JobId, NEW p \in Prevhash,
         NEW curtime \in Curtime, on_template(id, p, curtime)
  PROVE  SessionInv'
<1>0. SessionTypeOK /\ SessionsHold /\ BatchesHold /\ TellingHolds
  BY DEF SessionInv
<1>1. /\ serving = NoConn
      /\ UNCHANGED <<open, extranonce_counter, extranonce, difficulty, subscribed,
                     serving, on_finish, told_difficulty, resubscribed>>
  BY DEF on_template
<1>2. /\ Len(arrived) < MaxTemplates /\ last_block'.n = Len(arrived) + 1
      /\ Len(arrived') = Len(arrived) + 1
  BY DEF on_template, add_template, TypeOK
<1>3. Len(arrived) \in Nat /\ Len(arrived') \in 0..MaxTemplates
  BY <1>2, RegistryAssumption DEF TypeOK
<1>4. told_job' = [d \in Conn |-> IF d \in subscribed THEN Len(arrived') ELSE told_job[d]]
  BY <1>2 DEF on_template, emit, iterate_subscribers, get_last_broadcast_args
<1>5. SessionTypeOK'
  <2>1. told_job' \in [Conn -> 0..MaxTemplates]
    BY <1>0, <1>3, <1>4 DEF SessionTypeOK
  <2> QED BY <1>0, <1>1, <2>1 DEF SessionTypeOK
<1>6. SessionsHold' /\ BatchesHold'
  BY <1>0, <1>1 DEF SessionsHold, BatchesHold
<1>7. ~on_finish
  BY <1>0, <1>1, ServiceAssumption DEF BatchesHold, SessionTypeOK
<1>8. ASSUME NEW d \in Conn
      PROVE /\ told_job'[d] \in 0..Len(arrived')
            /\ d \notin subscribed' => told_difficulty'[d] = 0
            /\ d \in subscribed' \ resubscribed' => told_difficulty'[d] \in {0, difficulty'[d]}
            /\ d \in subscribed' /\ ~Waits(d)' =>
                 /\ told_job'[d] = Len(arrived')
                 /\ d \notin resubscribed' => told_difficulty'[d] = difficulty'[d]
  <2>1. told_job[d] \in 0..Len(arrived)
    BY <1>0 DEF TellingHolds
  <2>2. told_job'[d] \in 0..Len(arrived') /\ (d \in subscribed => told_job'[d] = Len(arrived'))
    BY <1>2, <1>3, <1>4, <2>1
  <2>3. ~Waits(d)
    BY <1>7 DEF Waits
  <2> QED BY <1>0, <1>1, <2>2, <2>3 DEF TellingHolds
<1>9. TellingHolds'
  BY <1>8 DEF TellingHolds
<1> QED BY <1>5, <1>6, <1>9 DEF SessionInv

-----------------------------------------------------------------------------
(* Theorems *)

LEMMA ServiceStepKeepsInv == ServiceInv /\ [ServiceNext]_serviceVars => ServiceInv'
<1> SUFFICES ASSUME ServiceInv, [ServiceNext]_serviceVars
             PROVE  ServiceInv'
  OBVIOUS
<1>1. TypeOK /\ RegistryInv /\ SessionInv /\ SessionTypeOK
  BY DEF ServiceInv, SessionInv
<1>2. TypeOK' /\ RegistryInv'
  BY <1>1, ServiceStepIsRegistryStep, NextType, NextInv
<1>3. CASE UNCHANGED serviceVars
  <2>1. UNCHANGED sessionVars /\ arrived' = arrived
    BY <1>3 DEF serviceVars, registryVars
  <2>2. SessionInv'
    BY <1>1, <2>1, QuietStep DEF sessionVars, SessionTypeOK
  <2> QED BY <1>2, <2>2 DEF ServiceInv
<1>4. ASSUME NEW c \in Conn,
             \/ connectionMade(c) \/ connectionLost(c) \/ FinishBatch(c)
             \/ subscribe(c) \/ RefuseSubscribe(c)
      PROVE  SessionInv'
  BY <1>1, <1>4, MadeKeepsInv, LostKeepsInv, FinishKeepsInv, SubscribeKeepsInv
<1>5. ASSUME NEW c \in Conn,
             \/ authorize(c) \/ RefuseUnauthorized(c)
             \/ RefuseUnsubscribed(c) \/ FailLimiter(c)
      PROVE  SessionInv'
  <2>1. /\ c \in open /\ serving \in {NoConn, c} /\ serving' = c
        /\ UNCHANGED <<open, extranonce_counter, extranonce, difficulty, subscribed,
                       on_finish, told_difficulty, told_job, resubscribed>>
        /\ arrived' = arrived
    BY <1>5 DEF authorize, RefuseUnauthorized, RefuseUnsubscribed, FailLimiter,
       KeepsSession, Handles, registryVars
  <2> QED BY <1>1, <2>1, QuietStep
<1>6. ASSUME NEW id \in JobId, CollectTemplate(id) PROVE SessionInv'
  <2>1. UNCHANGED sessionVars /\ arrived' = arrived
    BY <1>6 DEF CollectTemplate, Collect
  <2> QED BY <1>1, <2>1, QuietStep DEF sessionVars, SessionTypeOK
<1>7. CASE ServiceNext
  <2>1. SessionInv'
    BY <1>1, <1>4, <1>5, <1>6, <1>7, SubmitKeepsInv, TemplateKeepsInv DEF ServiceNext
  <2> QED BY <1>2, <2>1 DEF ServiceInv
<1> QED BY <1>3, <1>7

\* The inductive invariant of mining/service.py over the template registry:
\* what sessions hold, which batch still owes a miner something, and what each
\* miner was told.
THEOREM ServiceInvariant == ServiceSpec => []ServiceInv
BY ServiceInitInv, ServiceStepKeepsInv, PTL DEF ServiceSpec

\* Sessions, subscriptions and what is sent keep their types.
THEOREM SessionTypeCorrect == ServiceSpec => []SessionTypeOK
<1>1. ServiceInv => SessionTypeOK
  BY DEF ServiceInv, SessionInv
<1> QED BY <1>1, ServiceInvariant, PTL

\* The service drives the registry only as TemplateRegistry allows: no session
\* without a difficulty gets a share as far as the registry.  Every theorem of
\* the registry therefore holds below the service.
THEOREM ServiceImplementsRegistry == ServiceSpec => Spec
<1>1. ServiceInit => Init
  BY DEF ServiceInit
<1>2. ServiceInv /\ [ServiceNext]_serviceVars => [Next]_registryVars
  BY ServiceStepIsRegistryStep DEF ServiceInv
<1> QED BY <1>1, <1>2, ServiceInvariant, PTL DEF ServiceSpec, Spec

\* Between batches every subscriber has the newest job and, unless its second
\* subscription was refused, the difficulty of its session.
THEOREM SubscribersAreInformed == ServiceSpec => []SubscribersInformed
<1>1. ServiceInv => SubscribersInformed
  BY DEF ServiceInv, SessionInv, SessionTypeOK, TellingHolds, Waits, SubscribersInformed
<1> QED BY <1>1, ServiceInvariant, PTL

\* No two connections mine with one extranonce.
THEOREM ExtranoncesNeverMeet == ServiceSpec => []ExtranoncesDiffer
<1>1. ServiceInv => ExtranoncesDiffer
  BY DEF ServiceInv, SessionInv, SessionTypeOK, SessionsHold, ExtranoncesDiffer
<1> QED BY <1>1, ServiceInvariant, PTL

\* A share is judged at the difficulty last sent to its miner before its line was
\* handled, although the limiter may change the session meanwhile.  If it was good
\* enough for another difficulty the miner may have known, in the rounded target
\* of that one too, and is refused all the same, the miner was sent a higher one.
THEOREM SharesJudgedAsTold == ServiceSpec => JudgedAsTold
<1>1. ServiceInv /\ [ServiceNext]_serviceVars =>
        [\A r \in judged' \ judged :
           LET c == serving'
           IN  told_difficulty[c] # 0 /\ c \notin resubscribed
                 => /\ r.difficulty = told_difficulty[c]
                    /\ \A known \in UserDifficulty :
                         r.verdict = "low" /\ ~above_user_target(r.hash, known)
                           => told_difficulty[c] > known]_serviceVars
  <2> SUFFICES ASSUME ServiceInv, ServiceNext, NEW r \in judged' \ judged,
                      told_difficulty[serving'] # 0, serving' \notin resubscribed
               PROVE  /\ r.difficulty = told_difficulty[serving']
                      /\ \A known \in UserDifficulty :
                           r.verdict = "low" /\ ~above_user_target(r.hash, known)
                             => told_difficulty[serving'] > known
    OBVIOUS
  <2>0. judged' # judged
    OBVIOUS
  <2>1. \E c \in Conn, id \in JobId, x \in Field(Extranonce), t \in Ntime,
           nonce \in Nonce, now \in Clock : submit(c, id, x, t, nonce, now)
    <3>1. ASSUME NEW c \in Conn,
                 \/ connectionMade(c) \/ connectionLost(c) \/ FinishBatch(c)
                 \/ subscribe(c) \/ RefuseSubscribe(c)
                 \/ authorize(c) \/ RefuseUnauthorized(c)
                 \/ RefuseUnsubscribed(c) \/ FailLimiter(c)
          PROVE  judged' = judged
      BY <3>1 DEF connectionMade, connectionLost, FinishBatch, subscribe,
         RefuseSubscribe, NewSession, authorize, RefuseUnauthorized,
         RefuseUnsubscribed, FailLimiter, KeepsSession, registryVars
    <3>2. ASSUME NEW id \in JobId, NEW p \in Prevhash, NEW curtime \in Curtime,
                 on_template(id, p, curtime)
          PROVE  judged' = judged
      BY <3>2 DEF on_template, add_template
    <3>3. ASSUME NEW id \in JobId, CollectTemplate(id) PROVE judged' = judged
      BY <3>3 DEF CollectTemplate, Collect
    <3> QED BY <2>0, <3>1, <3>2, <3>3 DEF ServiceNext
  <2>2. PICK c \in Conn, id \in JobId, x \in Field(Extranonce), t \in Ntime,
           nonce \in Nonce, now \in Clock : submit(c, id, x, t, nonce, now)
    BY <2>1
  <2>3. serving' = c /\ extranonce[c] # 0
    BY <2>2 DEF submit, Handles
  <2>4. CheckWork(id, x, t, nonce, now, difficulty[c])
    <3>1. UNCHANGED registryVars => judged' = judged
      BY DEF registryVars
    <3>2. FailMerkle(id, x, t, nonce, now) => judged' = judged
      BY DEF FailMerkle
    <3> QED BY <2>0, <2>2, <3>1, <3>2 DEF submit, RefuseShare, FailDecoding,
               RefuseDuplicate, share_difficulty
  <2>5. /\ r.difficulty = difficulty[c] /\ r.hash \in Hash
        /\ r.verdict = "low" => above_user_target(r.hash, r.difficulty)
    BY <2>4 DEF CheckWork, RefuseLow, AcceptShare, AcceptBlock, Judge
  <2>6. c \in subscribed \ resubscribed
    BY <2>3 DEF ServiceInv, SessionInv, SessionsHold
  <2>7. told_difficulty[c] \in {0, difficulty[c]}
    BY <2>6 DEF ServiceInv, SessionInv, TellingHolds
  <2>8. r.difficulty = told_difficulty[c] /\ told_difficulty[c] \in UserDifficulty
    <3>1. told_difficulty[c] \in UserDifficulty \cup {0}
      BY DEF ServiceInv, SessionInv, SessionTypeOK
    <3>2. told_difficulty[c] # 0
      BY <2>3
    <3> QED BY <2>5, <2>7, <3>1, <3>2
  <2>9. ASSUME NEW known \in UserDifficulty, r.verdict = "low",
               ~above_user_target(r.hash, known)
        PROVE  told_difficulty[c] > known
    <3> DEFINE told == told_difficulty[c]
    <3>1. /\ MaxTarget \in Nat /\ known \in Nat \ {0} /\ told \in Nat \ {0}
          /\ InRange(MaxTarget, known) /\ InRange(MaxTarget, told) /\ r.hash \in Nat
      <4>1. MaxTarget \in Nat /\ r.hash \in Nat
        BY <2>5, RegistryAssumption
      <4>2. \A d \in UserDifficulty : d \in Nat \ {0} /\ InRange(MaxTarget, d)
        BY RegistryAssumption, FloatAssumption DEF InRange
      <4> QED BY <2>8, <4>1, <4>2
    <3>2. diff_to_target(known) \in Nat /\ diff_to_target(told) \in Nat
      BY <3>1, RoundedBetween DEF diff_to_target
    <3>3. r.hash > diff_to_target(told) /\ ~(r.hash > diff_to_target(known))
      <4>1. above_user_target(r.hash, told)
        BY <2>5, <2>8, <2>9
      <4> QED BY <2>9, <4>1 DEF above_user_target
    <3>4. told <= known => diff_to_target(known) <= diff_to_target(told)
      BY <3>1, RoundedFalls DEF diff_to_target
    <3> HIDE DEF told
    <3>5. told > known
      BY <3>1, <3>2, <3>3, <3>4
    <3> QED BY <3>5 DEF told
  <2> QED BY <2>3, <2>8, <2>9
<1> QED BY <1>1, ServiceInvariant, PTL DEF ServiceSpec, JudgedAsTold

\* What holds for the registry alone holds below the service, whatever the
\* sessions ask for: job ids find the right templates, the limiter's cap is the
\* tip's, a share is paid once, and a solved block reaches NodeCore if the session
\* asks for less than the network.
THEOREM RegistryHoldsBelow ==
  ServiceSpec =>
    /\ [](LookupExact /\ NetworkDiffTracksTip /\ BlocksReachNodeCore)
    /\ [](FinalValidationHolds /\ PaidOnce)
    /\ ImplementsJobBoard
BY ServiceImplementsRegistry, LookupIsExact, NetworkDiffIsTips, NoBlockIsLost,
   FinalValidationNeverFails, EverySharePaidOnce, RegistryImplementsJobBoard, PTL

\* Between batches the job a miner was told last can be submitted to: its id
\* finds exactly that template, although NodeCore reuses ids, tips move away and
\* back and the collector runs when it likes.
ToldJobFound ==
  \A c \in subscribed :
    serving # c /\ told_job[c] # 0
      => get_job(arrived[told_job[c]].job_id) = arrived[told_job[c]]

\* Work sent to a miner is not refused as unknown as long as it is the newest.
THEOREM ToldJobIsFound == ServiceSpec => []ToldJobFound
<1>1. TypeOK /\ LookupExact /\ SubscribersInformed => ToldJobFound
  <2> SUFFICES ASSUME TypeOK, LookupExact, SubscribersInformed,
                      NEW c \in subscribed, serving # c, told_job[c] # 0
               PROVE  get_job(arrived[told_job[c]].job_id) = arrived[told_job[c]]
    BY DEF ToldJobFound
  <2> DEFINE k == Len(arrived)
  <2>1. told_job[c] = k
    BY DEF SubscribersInformed
  <2>2. k \in 1..k /\ k..k = {k} /\ k + 1..k = {}
    <3>1. k \in Nat
      BY DEF TypeOK
    <3> QED BY <2>1, <3>1
  <2>3. Live(k) /\ Newest(k)
    BY <2>2 DEF Live, Newest
  <2> QED BY <2>1, <2>2, <2>3 DEF LookupExact
<1> QED
  BY <1>1, ServiceInvariant, RegistryHoldsBelow, SubscribersAreInformed, PTL
     DEF ServiceInv

\* A connected miner is never sent back to an older job, in whatever order
\* subscriptions, ends of batches and broadcasts come.
JobsNeverGoBack == [][\A c \in open' : told_job'[c] >= told_job[c]]_serviceVars

\* The job a miner was told only changes to the newest.
THEOREM JobsOnlyGoForward == ServiceSpec => JobsNeverGoBack
<1>1. ServiceInv /\ ServiceInv' /\ [ServiceNext]_serviceVars
        => [\A c \in open' : told_job'[c] >= told_job[c]]_serviceVars
  <2> SUFFICES ASSUME ServiceInv, ServiceInv', ServiceNext, NEW c \in open'
               PROVE  told_job'[c] >= told_job[c]
    OBVIOUS
  <2>1. /\ c \in Conn /\ told_job[c] \in 0..Len(arrived) /\ Len(arrived) \in Nat
        /\ told_job \in [Conn -> 0..MaxTemplates]
    BY DEF ServiceInv, SessionInv, SessionTypeOK, TellingHolds, TypeOK
  <2>2. told_job[c] >= told_job[c]
    BY <2>1
  <2>3. CASE told_job' = told_job
    BY <2>2, <2>3
  <2>4. ASSUME NEW d \in Conn, FinishBatch(d), told_job' # told_job
        PROVE  told_job'[c] >= told_job[c]
    <3>1. /\ last_block' = last_block
          /\ told_job' = [e \in Conn |-> IF e \in {d} \ {f \in Conn : last_block = NoBlock}
                                         THEN last_block'.n ELSE told_job[e]]
      BY <2>4 DEF FinishBatch, emit, get_last_broadcast_args, registryVars
    <3>2. last_block # NoBlock => last_block.n = Len(arrived)
      <4> SUFFICES ASSUME last_block # NoBlock PROVE last_block.n = Len(arrived)
        OBVIOUS
      <4>1. arrived # <<>> /\ last_block = arrived[Len(arrived)]
        BY DEF ServiceInv, RegistryInv, LastArrived
      <4>2. Len(arrived) \in 1..Len(arrived)
        BY <4>1 DEF ServiceInv, TypeOK
      <4> QED BY <4>1, <4>2 DEF ServiceInv, RegistryInv, ArrivalOrder
    <3>3. told_job'[c] = Len(arrived) \/ told_job'[c] = told_job[c]
      BY <2>1, <3>1, <3>2
    <3> QED BY <2>1, <3>3
  <2>5. ASSUME NEW id \in JobId, NEW p \in Prevhash, NEW curtime \in Curtime,
               on_template(id, p, curtime)
        PROVE  told_job'[c] >= told_job[c]
    <3>1. /\ last_block'.n = Len(arrived) + 1
          /\ told_job' = [e \in Conn |-> IF e \in subscribed
                                         THEN last_block'.n ELSE told_job[e]]
      BY <2>5 DEF on_template, add_template, emit, iterate_subscribers,
         get_last_broadcast_args
    <3>2. told_job'[c] = Len(arrived) + 1 \/ told_job'[c] = told_job[c]
      BY <2>1, <3>1
    <3> QED BY <2>1, <3>2
  <2>6. ASSUME NEW d \in Conn, connectionLost(d)
        PROVE  told_job'[c] >= told_job[c]
    <3>1. c # d /\ told_job' = [told_job EXCEPT ![d] = 0]
      BY <2>6 DEF connectionLost
    <3>2. told_job'[c] = told_job[c]
      BY <2>1, <3>1
    <3> QED BY <2>2, <3>2
  <2>7. ASSUME NEW d \in Conn,
               \/ connectionMade(d) \/ subscribe(d) \/ RefuseSubscribe(d)
               \/ authorize(d) \/ RefuseUnauthorized(d)
               \/ RefuseUnsubscribed(d) \/ FailLimiter(d)
        PROVE  told_job' = told_job
    BY <2>7 DEF connectionMade, subscribe, RefuseSubscribe, NewSession, authorize,
       RefuseUnauthorized, RefuseUnsubscribed, FailLimiter, KeepsSession
  <2>8. ASSUME NEW d \in Conn, NEW id \in JobId, NEW x \in Field(Extranonce),
               NEW t \in Ntime, NEW nonce \in Nonce, NEW now \in Clock,
               submit(d, id, x, t, nonce, now)
        PROVE  told_job' = told_job
    BY <2>8 DEF submit
  <2>9. ASSUME NEW id \in JobId, CollectTemplate(id)
        PROVE  told_job' = told_job
    BY <2>9 DEF CollectTemplate, sessionVars
  <2> QED
    BY <2>3, <2>4, <2>5, <2>6, <2>7, <2>8, <2>9 DEF ServiceNext
<1> QED BY <1>1, ServiceInvariant, PTL DEF ServiceSpec, JobsNeverGoBack
=============================================================================
