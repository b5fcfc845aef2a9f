---------------------------- MODULE RpcProtocol ----------------------------
(***************************************************************************)
(* One connection of stratum/protocol.py: the batches of complete lines    *)
(* that dataReceived hands to lineReceived, the request counter that says  *)
(* when a batch is answered, the services that answer later, the calls     *)
(* this side makes, and a subscription that waits for the end of a batch.  *)
(*                                                                         *)
(* The reactor handles a batch to its end before anything else happens on  *)
(* the connection.  A line whose handling raises ends its batch, and       *)
(* dataReceived then returns an error, at which Twisted drops the          *)
(* connection: both are one step.                                          *)
(***************************************************************************)
EXTENDS ServiceFactory, Integers

CONSTANTS
  MaxBatches,        \* bound: batches of a connection
  MaxLines,          \* bound: complete lines of a batch
  MaxCalls,          \* bound: calls this side makes on a connection
  TcpProxyProtocol   \* values TCP_PROXY_PROTOCOL may have

ASSUME ProtocolAssumption ==
  /\ MaxBatches \in Nat /\ MaxLines \in Nat /\ MaxCalls \in Nat
  /\ TcpProxyProtocol \subseteq BOOLEAN

VARIABLES
  conn,           \* "none", "up", "closing" (transport.disconnecting), "lost"
  expect_header,  \* expect_tcp_proxy_protocol_header
  batch,          \* batches received; on_finish is the Deferred of the last
  serving,        \* the batch whose lines are being handled, 0 for none
  size,           \* the lines of each batch
  left,           \* those lineReceived has not counted
  pending,        \* those whose service has not answered
  counter,        \* RequestCounter.counter of each batch
  finished,       \* RequestCounter.on_finish.called of each batch
  subscription,   \* the connection's subscription and the batch it waits on
  request_id,     \* the last id of a call of this side
  lookup_table,   \* ids of calls that wait for a response
  fired           \* history: how often the Deferred of a call was fired

batchVars == <<batch, serving, size, left, pending, counter, finished, subscription>>
callVars == <<request_id, lookup_table, fired>>
protocolVars == <<conn, expect_header, batchVars, callVars>>
vars == <<registry, protocolVars>>

Batch == 1..MaxBatches
Call == 1..MaxCalls

Subscription ==
  [stage : {"none", "after_subscribe", "finish_after_subscribe", "told"},
   on : 0..MaxBatches]

TypeOK ==
  /\ FactoryTypeOK
  /\ conn \in {"none", "up", "closing", "lost"}
  /\ expect_header \in BOOLEAN
  /\ batch \in 0..MaxBatches /\ serving \in 0..batch
  /\ size \in [Batch -> 0..MaxLines] /\ left \in [Batch -> 0..MaxLines]
  /\ pending \in [Batch -> 0..MaxLines]
  /\ counter \in [Batch -> Int]
  /\ finished \in [Batch -> BOOLEAN]
  /\ subscription \in Subscription
  /\ request_id \in 0..MaxCalls
  /\ lookup_table \subseteq 1..request_id
  /\ fired \in [Call -> Nat]

NoSubscription == [stage |-> "none", on |-> 0]

Init ==
  /\ FactoryInit
  /\ conn = "none" /\ expect_header = FALSE
  /\ batch = 0 /\ serving = 0
  /\ size = [b \in Batch |-> 0] /\ left = [b \in Batch |-> 0]
  /\ pending = [b \in Batch |-> 0] /\ counter = [b \in Batch |-> 0]
  /\ finished = [b \in Batch |-> FALSE]
  /\ subscription = NoSubscription
  /\ request_id = 0 /\ lookup_table = {} /\ fired = [c \in Call |-> 0]

-----------------------------------------------------------------------------
(* The connection *)

\* Services register when their modules are imported, before the reactor runs.
ImportService(t, v, is_default) ==
  /\ conn = "none"
  /\ register_service(t, v, is_default)
  /\ UNCHANGED protocolVars

\* A new Protocol object and its session.  The client's subclass makes calls
\* before anything else happens on the connection.
NewConnection(proxied, calls) ==
  /\ conn' = "up" /\ expect_header' = proxied
  /\ batch' = 0 /\ serving' = 0
  /\ size' = [b \in Batch |-> 0] /\ left' = [b \in Batch |-> 0]
  /\ pending' = [b \in Batch |-> 0] /\ counter' = [b \in Batch |-> 0]
  /\ finished' = [b \in Batch |-> FALSE]
  /\ subscription' = NoSubscription
  /\ request_id' = calls /\ lookup_table' = 1..calls
  /\ fired' = [c \in Call |-> 0]
  /\ UNCHANGED registry

connectionMade(proxied) == conn = "none" /\ NewConnection(proxied, 0)

Open == conn \in {"up", "closing"}

\* The transport is gone; the lookup table and its Deferreds stay as they are,
\* and services that have not answered still will.
connectionLost ==
  /\ Open /\ serving = 0
  /\ conn' = "lost"
  /\ UNCHANGED <<registry, expect_header, batchVars, callVars>>

-----------------------------------------------------------------------------
(* The request counter *)

\* What on_finish of a batch runs.  after_subscribe of the mining subscription
\* waits once more, for the batch that is then the connection's last.
told(s, b) ==
  IF s.stage \notin {"after_subscribe", "finish_after_subscribe"} \/ s.on # b
  THEN s
  ELSE IF s.stage = "after_subscribe" /\ batch # b /\ ~finished[batch]
  THEN [stage |-> "finish_after_subscribe", on |-> batch]
  ELSE [stage |-> "told", on |-> b]

\* RequestCounter.finish, for a connection whose subscription is s by now.
finish(b, s) ==
  /\ finished' = [finished EXCEPT ![b] = TRUE]
  /\ subscription' = IF finished[b] THEN s ELSE told(s, b)

\* Mutant: the last answer is taken for one short of it.
decrease_early(b, s) ==
  /\ counter' = [counter EXCEPT ![b] = @ - 1]
  /\ IF counter[b] - 1 <= 1 THEN finish(b, s)
     ELSE finished' = finished /\ subscription' = s

\* Mutant: an answer takes away what the whole batch counted.
decrease_to_zero(b, s) ==
  /\ counter' = [counter EXCEPT ![b] = 0]
  /\ finish(b, s)

\* RequestCounter.decrease.
decrease(b, s) ==
  /\ counter' = [counter EXCEPT ![b] = @ - 1]
  /\ IF counter[b] - 1 <= 0 THEN finish(b, s)
     ELSE finished' = finished /\ subscription' = s

-----------------------------------------------------------------------------
(* Lines *)

\* A segment that completes n lines.  One that completes none has a counter
\* and an on_finish all the same.
dataReceived(n) ==
  /\ conn = "up" /\ serving = 0 /\ batch < MaxBatches
  /\ batch' = batch + 1 /\ serving' = batch + 1
  /\ size' = [size EXCEPT ![batch + 1] = n]
  /\ left' = [left EXCEPT ![batch + 1] = n]
  /\ counter' = [counter EXCEPT ![batch + 1] = n]
  /\ UNCHANGED <<registry, conn, expect_header, pending, finished,
                 subscription, callVars>>

\* lineReceived is handed the next line of batch b.
Line(b) ==
  /\ serving = b /\ left[b] > 0 /\ conn = "up"
  /\ UNCHANGED <<registry, batch, size>>

\* The line is counted and the loop goes on.
Counted(b) ==
  /\ ~expect_header
  /\ left' = [left EXCEPT ![b] = @ - 1]
  /\ UNCHANGED <<conn, expect_header, serving>>

\* Mutant: the error is logged and the rest of the batch forgotten.
Abort_unfinished(b) ==
  /\ conn' = "lost" /\ serving' = 0
  /\ UNCHANGED <<finished, subscription>>

\* The handling of a line raised: the batch counts as finished, its other lines
\* are dropped and so is the connection.
Abort(b) == conn' = "lost" /\ serving' = 0 /\ finish(b, subscription)

\* A call that is answered before the next line is handled: with the result of
\* its service, with an error (of the service, of a lookup that fails, or of a
\* result JSON cannot express), or not at all when it is a notification.
Serve(b) ==
  /\ Line(b) /\ Counted(b)
  /\ decrease(b, subscription)
  /\ UNCHANGED <<pending, callVars>>

\* The first call of a service that subscribes the connection; further ones
\* end in AlreadySubscribedException.
ServeSubscribe(b, path) ==
  /\ Line(b) /\ Counted(b)
  /\ call(path) # {} /\ subscription.stage = "none"
  /\ decrease(b, [stage |-> "after_subscribe", on |-> batch])
  /\ UNCHANGED <<pending, callVars>>

\* The service returns a Deferred that has not been fired.
ServeLater(b, path) ==
  /\ Line(b) /\ Counted(b)
  /\ call(path) # {}
  /\ pending' = [pending EXCEPT ![b] = @ + 1]
  /\ UNCHANGED <<counter, finished, subscription, callVars>>

\* process_response or process_failure of such a call; what it writes is
\* dropped if the connection is gone.
Answer(b) ==
  /\ serving = 0 /\ pending[b] > 0
  /\ pending' = [pending EXCEPT ![b] = @ - 1]
  /\ decrease(b, subscription)
  /\ UNCHANGED <<registry, conn, expect_header, batch, serving, size, left, callVars>>

\* Mutant: the entry stays, so that a response that comes twice is delivered
\* twice.
taken_again(c) == lookup_table

taken(c) == lookup_table \ {c}

\* A response with a result or an error for a call that waits.
Response(b, c) ==
  /\ Line(b) /\ Counted(b)
  /\ c \in lookup_table
  /\ decrease(b, subscription)
  /\ lookup_table' = taken(c)
  /\ fired' = [fired EXCEPT ![c] = @ + 1]
  /\ UNCHANGED <<pending, request_id>>

\* A response whose error is not a triple: its entry is deleted before the
\* exception, so the caller is forgotten.
ResponseMalformed(b, c) ==
  /\ Line(b) /\ ~expect_header
  /\ c \in lookup_table
  /\ lookup_table' = taken(c)
  /\ counter' = [counter EXCEPT ![b] = @ - 1]
  /\ left' = [left EXCEPT ![b] = @ - 1]
  /\ Abort(b)
  /\ UNCHANGED <<expect_header, pending, request_id, fired>>

\* A response nobody waits for, or a message that is neither a call nor a
\* response: it is counted, and raises.
Unexpected(b) ==
  /\ Line(b) /\ ~expect_header
  /\ counter' = [counter EXCEPT ![b] = @ - 1]
  /\ left' = [left EXCEPT ![b] = @ - 1]
  /\ Abort(b)
  /\ UNCHANGED <<expect_header, pending, callVars>>

\* A line too long, not JSON or not a JSON object, or the first line when a
\* proxy header is expected: startswith('PROXY') raises TypeError for bytes.
Undecodable(b) ==
  /\ Line(b)
  /\ expect_header' = FALSE
  /\ Abort(b)
  /\ UNCHANGED <<left, pending, counter, callVars>>

\* The loop sees that this side is closing the connection, which only a client
\* does (ClientTransport).
Disconnecting(b) ==
  /\ serving = b /\ left[b] > 0 /\ conn = "closing"
  /\ serving' = 0
  /\ finish(b, subscription)
  /\ UNCHANGED <<registry, conn, expect_header, batch, size, left, pending,
                 counter, callVars>>

\* All lines are handled; what remains in the buffer is short enough, ...
EndBatch(b) ==
  /\ serving = b /\ left[b] = 0
  /\ serving' = 0
  /\ UNCHANGED <<registry, conn, expect_header, batch, size, left, pending,
                 counter, finished, subscription, callVars>>

\* ... or longer than any line may be.
TailTooLong(b) ==
  /\ serving = b /\ left[b] = 0
  /\ Abort(b)
  /\ UNCHANGED <<registry, expect_header, batch, size, left, pending, counter,
                 callVars>>

-----------------------------------------------------------------------------
(* Calls of this side *)

\* Mutant: the id is taken before it is increased.
get_id_before == request_id

get_id == request_id + 1

\* rpc() with an answer expected.  It may come from a callback in the middle
\* of a batch, or after the connection is lost, when the write is dropped.
rpc ==
  /\ conn # "none" /\ request_id < MaxCalls
  /\ request_id' = get_id
  /\ lookup_table' = lookup_table \cup {get_id}
  /\ UNCHANGED <<registry, conn, expect_header, batchVars, fired>>

-----------------------------------------------------------------------------
HandleLine(b) ==
  \/ Serve(b) \/ Unexpected(b) \/ Undecodable(b)
  \/ \E path \in Path : ServeSubscribe(b, path) \/ ServeLater(b, path)
  \/ \E c \in Call : Response(b, c) \/ ResponseMalformed(b, c)

LeaveBatch(b) == EndBatch(b) \/ TailTooLong(b)

Next ==
  \/ \E t \in ServiceType, v \in Vendor, d \in BOOLEAN : ImportService(t, v, d)
  \/ \E proxied \in TcpProxyProtocol : connectionMade(proxied)
  \/ \E n \in 0..MaxLines : dataReceived(n)
  \/ \E b \in Batch : HandleLine(b) \/ LeaveBatch(b) \/ Answer(b)
  \/ rpc \/ connectionLost

\* The reactor handles a batch to its end, and a service that owes an answer
\* gives it.
Fairness ==
  \A b \in Batch : WF_vars(HandleLine(b) \/ LeaveBatch(b)) /\ WF_vars(Answer(b))

Spec == Init /\ [][Next]_vars

FairSpec == Spec /\ Fairness

-----------------------------------------------------------------------------
(* Properties *)

\* The counter of a batch is what its name says, the requests that still have
\* to be handled or answered, whatever mixture of calls, notifications,
\* responses and broken lines the batch is, and also after an abort.
CounterCounts ==
  \A b \in Batch : counter[b] = left[b] + pending[b]

\* While the connection is up, on_finish of a batch has been called exactly
\* when all its requests are answered: neither before the answer of a slow
\* service, nor never.  A segment without a complete line is the exception.
FinishedWhenAnswered ==
  conn = "up" => \A b \in Batch :
    finished[b] <=> size[b] > 0 /\ left[b] = 0 /\ pending[b] = 0

\* A caller is told at most once and never while its call waits; as long as
\* the connection is open it is told or waits, so that only a lost connection
\* can leave it without an answer.
EachCallerToldOnce ==
  \A c \in 1..request_id :
    /\ fired[c] <= 1
    /\ c \in lookup_table => fired[c] = 0
    /\ Open => c \in lookup_table \/ fired[c] = 1

\* Every batch with a line is finished: by its answers, by an exception or by
\* the end of the connection.  Whatever waits on on_finish runs.
BatchFinishes ==
  \A b \in Batch : batch >= b /\ size[b] > 0 ~> finished[b]

\* As long as no service answers late, a miner that subscribed is sent its
\* difficulty and first job, also when a later line of its batch raises.
SubscriberTold ==
  [](\A b \in Batch : pending[b] = 0)
    => (subscription.stage = "after_subscribe" ~> subscription.stage = "told")
=============================================================================
