------------------------------ MODULE UcpLink ------------------------------
(***************************************************************************)
(* lib/veriblock_ucp.py: the link to NodeCore.  One protocol object serves *)
(* every connection the reconnecting factory makes.  NodeCore is external: *)
(* it authenticates the pool, subscribes it, sends jobs and answers        *)
(* submitted blocks, over a TCP connection that keeps order and loses what *)
(* is in flight when it breaks.  PoolStartup brings the link and the       *)
(* transports up.                                                          *)
(***************************************************************************)
EXTENDS PoolStartup

CONSTANTS MaxRequests,    \* bound: request ids the pool uses
          MaxJobs         \* bound: jobs NodeCore sends

ASSUME LinkAssumption == MaxRequests \in Nat /\ MaxJobs \in Nat

VARIABLES
  on_connected,         \* has the Deferred on_connected been called
  request_id_counter,
  requests,             \* ids the weak dictionary still has a Deferred for
  to_core,              \* commands on their way to NodeCore
  from_core,            \* commands on their way to the pool
  core,                 \* NodeCore's view of the connection: "new", "auth"
                        \* (authenticated) or "subscribed"
  jobs_sent,            \* jobs NodeCore made
  job,                  \* the last job handed to the template registry
  sent,                 \* history: ids of submits written to a live link
  answered,             \* history: ids whose answer the pool has read
  reported              \* history: ids whose answer reached the share manager

ucpVars == <<on_connected, request_id_counter, requests, to_core, from_core,
             core, jobs_sent, job, sent, answered, reported>>
linkVars == <<link, ucpVars>>

Id == 1..MaxRequests

Command ==
  [command : {"MINING_AUTH", "MINING_SUBSCRIBE", "MINING_SUBMIT"}, id : Id]

Reply ==
  [command : {"MINING_AUTH_SUCCESS", "MINING_AUTH_FAILURE",
              "MINING_SUBMIT_SUCCESS", "MINING_SUBMIT_FAILURE"}, id : Id]
  \cup [command : {"MINING_JOB"}, id : 1..MaxJobs]

TypeOK ==
  /\ StartupTypeOK
  /\ on_connected \in BOOLEAN
  /\ request_id_counter \in 0..MaxRequests
  /\ requests \subseteq Id
  /\ to_core \in Seq(Command)
  /\ from_core \in Seq(Reply)
  /\ core \in {"new", "auth", "subscribed"}
  /\ jobs_sent \in 0..MaxJobs /\ job \in 0..jobs_sent
  /\ sent \subseteq Id /\ answered \subseteq Id /\ reported \subseteq Id

Init ==
  /\ StartupInit
  /\ on_connected = FALSE
  /\ request_id_counter = 0
  /\ requests = {}
  /\ to_core = <<>> /\ from_core = <<>>
  /\ core = "new"
  /\ jobs_sent = 0 /\ job = 0
  /\ sent = {} /\ answered = {} /\ reported = {}

-----------------------------------------------------------------------------
(* The pool *)

\* _next_request_id.  Bound: MaxRequests.
TakeRequestId ==
  /\ request_id_counter < MaxRequests
  /\ request_id_counter' = request_id_counter + 1

\* Mutant: the counter is read before it is advanced.
next_id_before == request_id_counter

next_id == request_id_counter + 1

\* sendLine: written to the transport, which drops it when it is not connected.
written(command) ==
  IF link = "up" THEN Append(to_core, [command |-> command, id |-> next_id])
  ELSE to_core

\* Mutant: on_connected is renewed, so every connection can use it.
first_connection_renewed == TRUE

\* Whether on_connected can be called: a Deferred is called once.
first_connection == ~on_connected

\* connectionMade on the first connection: authenticate.
ConnectionMade ==
  /\ running /\ link = "connecting"
  /\ first_connection
  /\ TakeRequestId
  /\ link' = "up"
  /\ on_connected' = TRUE
  /\ to_core' = <<[command |-> "MINING_AUTH", id |-> next_id]>>
  /\ from_core' = <<>>
  /\ core' = "new"
  /\ UNCHANGED <<startupVars, requests, jobs_sent, job, sent, answered,
                 reported>>

\* connectionMade on a later connection: on_connected was called already, the
\* exception makes Twisted drop the connection and MINING_AUTH is never sent.
\* Bound: the id it takes is not counted.
ConnectionMadeAgain ==
  /\ running /\ link = "connecting"
  /\ ~first_connection
  /\ link' = "down"
  /\ UNCHANGED <<startupVars, on_connected, request_id_counter, requests,
                 to_core, from_core, core, jobs_sent, job, sent, answered,
                 reported>>

\* clientConnectionFailed stops the reactor, and so the application.
ConnectionFailed ==
  /\ running /\ link = "connecting"
  /\ link' = "stopped"
  /\ listening' = {}
  /\ UNCHANGED <<enabled, sslContext, on_load, setup_at, interfaces, services,
                 running, on_connected, request_id_counter, requests, to_core,
                 from_core, core, jobs_sent, job, sent, answered, reported>>

Drop ==
  /\ link' = "down"
  /\ to_core' = <<>> /\ from_core' = <<>>
  /\ core' = "new"

ConnectionLost ==
  /\ link = "up"
  /\ Drop
  /\ UNCHANGED <<startupVars, on_connected, request_id_counter, requests,
                 jobs_sent, job, sent, answered, reported>>

\* ReconnectingClientFactory tries again after its delay.
Retry ==
  /\ link = "down"
  /\ link' = "connecting"
  /\ UNCHANGED <<startupVars, on_connected, request_id_counter, requests,
                 to_core, from_core, core, jobs_sent, job, sent, answered,
                 reported>>

\* The line at the head of the connection.
Arrives(commands) ==
  /\ link = "up" /\ from_core # <<>>
  /\ Head(from_core).command \in commands

\* Mutant: nothing is sent on MINING_AUTH_SUCCESS.
subscribe_forgotten == to_core

\* on_auth_success: subscribe.
subscribe == written("MINING_SUBSCRIBE")

on_auth_success ==
  /\ Arrives({"MINING_AUTH_SUCCESS"})
  /\ TakeRequestId
  /\ to_core' = subscribe
  /\ from_core' = Tail(from_core)
  /\ UNCHANGED <<startupVars, link, on_connected, requests, core, jobs_sent,
                 job, sent, answered, reported>>

\* Lines the dispatch has no branch for.
IgnoreLine ==
  /\ Arrives({"MINING_AUTH_FAILURE"})
  /\ from_core' = Tail(from_core)
  /\ UNCHANGED <<startupVars, link, on_connected, request_id_counter,
                 requests, to_core, core, jobs_sent, job, sent, answered,
                 reported>>

\* A job becomes a template of the registry.
on_mining_job ==
  /\ Arrives({"MINING_JOB"})
  /\ job' = Head(from_core).id
  /\ from_core' = Tail(from_core)
  /\ UNCHANGED <<startupVars, link, on_connected, request_id_counter,
                 requests, to_core, core, jobs_sent, sent, answered,
                 reported>>

\* A job fill_from_job cannot use: the exception ends the connection.
RejectJob ==
  /\ Arrives({"MINING_JOB"})
  /\ Drop
  /\ UNCHANGED <<startupVars, on_connected, request_id_counter, requests,
                 jobs_sent, job, sent, answered, reported>>

\* on_submit_success and on_submit_failure: the Deferred is called if the weak
\* dictionary still has it, and the answer is dropped otherwise.
on_submit_answer ==
  /\ Arrives({"MINING_SUBMIT_SUCCESS", "MINING_SUBMIT_FAILURE"})
  /\ LET id == Head(from_core).id
     IN  /\ answered' = answered \cup {id}
         /\ reported' = reported \cup {i \in {id} : i \in requests}
  /\ from_core' = Tail(from_core)
  /\ UNCHANGED <<startupVars, link, on_connected, request_id_counter,
                 requests, to_core, core, jobs_sent, job, sent>>

\* Mutant: the id of the request before is sent.
submit_id_off_by_one == request_id_counter

\* The request id of a submitted block.
submit_id == next_id

\* submit_share, for a miner's solved block: the caller hooks the share manager to the Deferred and forgets
\* it, so that only the weak dictionary refers to it.
submit_share ==
  /\ job # 0 /\ listening # {}
  /\ TakeRequestId
  /\ requests' = requests \cup {next_id}
  /\ to_core' = IF link = "up"
                THEN Append(to_core, [command |-> "MINING_SUBMIT", id |-> submit_id])
                ELSE to_core
  /\ sent' = sent \cup {i \in {next_id} : link = "up"}
  /\ UNCHANGED <<startupVars, link, on_connected, from_core, core, jobs_sent,
                 job, answered, reported>>

\* The Deferred of a request is freed: nobody but the weak dictionary has it.
Collect(id) ==
  /\ id \in requests
  /\ requests' = requests \ {id}
  /\ UNCHANGED <<startupVars, link, on_connected, request_id_counter, to_core,
                 from_core, core, jobs_sent, job, sent, answered, reported>>

-----------------------------------------------------------------------------
(* NodeCore *)

Receives(command) ==
  /\ link = "up" /\ to_core # <<>>
  /\ Head(to_core).command = command
  /\ to_core' = Tail(to_core)

Replies(command) ==
  from_core' = Append(from_core, [command |-> command, id |-> Head(to_core).id])

CoreAuth ==
  /\ Receives("MINING_AUTH")
  /\ Replies("MINING_AUTH_SUCCESS")
  /\ core' = "auth"
  /\ UNCHANGED <<startupVars, link, on_connected, request_id_counter,
                 requests, jobs_sent, job, sent, answered, reported>>

CoreRefuse ==
  /\ Receives("MINING_AUTH")
  /\ Replies("MINING_AUTH_FAILURE")
  /\ UNCHANGED <<startupVars, link, on_connected, request_id_counter,
                 requests, core, jobs_sent, job, sent, answered, reported>>

CoreSubscribe ==
  /\ Receives("MINING_SUBSCRIBE")
  /\ core' = "subscribed"
  /\ UNCHANGED <<startupVars, link, on_connected, request_id_counter,
                 requests, from_core, jobs_sent, job, sent, answered,
                 reported>>

CoreJob ==
  /\ link = "up" /\ core = "subscribed" /\ jobs_sent < MaxJobs
  /\ jobs_sent' = jobs_sent + 1
  /\ from_core' = Append(from_core, [command |-> "MINING_JOB", id |-> jobs_sent + 1])
  /\ UNCHANGED <<startupVars, link, on_connected, request_id_counter,
                 requests, to_core, core, job, sent, answered, reported>>

CoreAnswer ==
  /\ Receives("MINING_SUBMIT")
  /\ \/ Replies("MINING_SUBMIT_SUCCESS")
     \/ Replies("MINING_SUBMIT_FAILURE")
  /\ UNCHANGED <<startupVars, link, on_connected, request_id_counter,
                 requests, core, jobs_sent, job, sent, answered, reported>>

-----------------------------------------------------------------------------
\* The reactor reads the lines that arrive.
ReadLine == on_auth_success \/ IgnoreLine \/ on_mining_job \/ RejectJob \/ on_submit_answer

\* NodeCore reads the commands that arrive.
CoreReads == CoreAuth \/ CoreRefuse \/ CoreSubscribe \/ CoreAnswer

Next ==
  \/ StartupNext /\ UNCHANGED ucpVars
  \/ ConnectionMade \/ ConnectionMadeAgain \/ ConnectionFailed
  \/ ConnectionLost \/ Retry
  \/ ReadLine \/ submit_share
  \/ \E id \in Id : Collect(id)
  \/ CoreReads \/ CoreJob

\* The reactor handles a readable connection and its timers, and NodeCore reads
\* what it is sent.  Nothing forces jobs, solved blocks, broken links or the
\* collector.
Fairness ==
  /\ WF_linkVars(ReadLine)
  /\ WF_linkVars(CoreReads)
  /\ WF_linkVars(Retry)

Spec == Init /\ [][Next]_<<startupVars, linkVars>> /\ Fairness

-----------------------------------------------------------------------------
(* Properties *)

\* The submits and the answers in flight that carry an id.
InFlight(id) ==
  Cardinality({i \in DOMAIN to_core :
                 to_core[i].command = "MINING_SUBMIT" /\ to_core[i].id = id})
  + Cardinality({i \in DOMAIN from_core :
                 /\ from_core[i].command \in {"MINING_SUBMIT_SUCCESS", "MINING_SUBMIT_FAILURE"}
                 /\ from_core[i].id = id})

\* While the link is up, the submits without an answer are exactly those that
\* one line in flight is about, a submit or its answer: none is lost, doubled or
\* answered for another, and only answers to submits reach the share manager.
AnswersMatchSubmits ==
  /\ \A id \in Id :
       /\ InFlight(id) <= 1
       /\ InFlight(id) = 1 => id \in sent \ answered
       /\ link = "up" /\ id \in sent \ answered => InFlight(id) = 1
  /\ reported \subseteq answered /\ answered \subseteq sent

\* The phase of the exchange with NodeCore.
phase ==
  IF link = "up" THEN IF core = "subscribed" THEN "serving" ELSE "up"
  ELSE IF on_connected \/ link = "stopped" THEN "over" ELSE "before"

NodeCore == INSTANCE Exchange WITH Ids <- Id, delivered <- job, asked <- sent

\* The link is an Exchange: nothing is asked before NodeCore has subscribed the
\* pool, jobs are delivered in order and none left out, and what ends with the
\* first connection never comes back, however often the factory reconnects.
ImplementsExchange == NodeCore!Spec

\* Once NodeCore has accepted the pool, it gets the subscription, unless the
\* link goes away.
SubscribesAfterAuth == (core = "auth") ~> (core = "subscribed" \/ link # "up")

\* Every block written to the link is answered, unless the link goes away.
SubmitsAnswered ==
  \A id \in Id : (id \in sent) ~> (id \in answered \/ link # "up")

\* "Pool sends MINING_SUBMIT to NodeCore. Let's hook to result and report it to
\* share manager": an answer that was read has been reported.
AnswersReported == answered \subseteq reported
=============================================================================
