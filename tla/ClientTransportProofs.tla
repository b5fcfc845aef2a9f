----------------------- MODULE ClientTransportProofs -----------------------
(***************************************************************************)
(* Theorems about the reconnecting client, for every set of hosts and      *)
(* commands and any number of batches, lines, calls and subscriptions.     *)
(***************************************************************************)
EXTENDS ClientTransport, RpcProtocolProofs

\* The loop over a batch runs on an open connection.
ServingOpen == serving # 0 => Open

\* The factory keeps at most one host for later, the one last asked for.
AskedHost == new_host \in {NoHost, wanted}

ClientInv ==
  /\ Inv
  /\ ClientTypeOK
  /\ ServingOpen
  /\ SubscriptionsInForce
  /\ AskedHost
  /\ HostFollowed
  /\ HostKept

-----------------------------------------------------------------------------
(* Steps of the connection *)

OnProtocol ==
  \/ \E n \in 0..MaxLines : dataReceived(n)
  \/ \E b \in Batch : HandleLine(b) \/ LeaveBatch(b) \/ Disconnecting(b)

\* A step of the protocol needs an open connection, and leaves it as it is or
\* ends it together with the loop.
LEMMA ProtocolStep ==
  ASSUME ServingOpen, OnProtocol
  PROVE  /\ Open
         /\ conn' = conn \/ (conn' = "lost" /\ serving' = 0)
<1>1. CASE \E n \in 0..MaxLines : dataReceived(n)
  BY <1>1 DEF dataReceived, Open
<1>2. ASSUME NEW b \in Batch, HandleLine(b)
      PROVE  /\ conn = "up"
             /\ conn' = conn \/ (conn' = "lost" /\ serving' = 0)
  <2>1. CASE Serve(b)
    BY <2>1 DEF Serve, Line, Counted
  <2>2. CASE Unexpected(b)
    BY <2>2 DEF Unexpected, Line, Abort
  <2>3. CASE Undecodable(b)
    BY <2>3 DEF Undecodable, Line, Abort
  <2>4. CASE \E path \in Path : ServeSubscribe(b, path) \/ ServeLater(b, path)
    BY <2>4 DEF ServeSubscribe, ServeLater, Line, Counted
  <2>5. CASE \E c \in Call : Response(b, c) \/ ResponseMalformed(b, c)
    BY <2>5 DEF Response, ResponseMalformed, Line, Counted, Abort
  <2> QED BY <1>2, <2>1, <2>2, <2>3, <2>4, <2>5 DEF HandleLine
<1>3. ASSUME NEW b \in Batch, LeaveBatch(b) \/ Disconnecting(b)
      PROVE  /\ serving = b
             /\ conn' = conn \/ (conn' = "lost" /\ serving' = 0)
  BY <1>3 DEF LeaveBatch, Disconnecting, EndBatch, TailTooLong, Abort
<1>4. \A b \in Batch : b # 0
  BY ProtocolAssumption DEF Batch
<1> QED BY <1>1, <1>2, <1>3, <1>4 DEF OnProtocol, ServingOpen, Open


\* retry() leaves the connector without a connection, on its way to the host
\* last asked for or stopped with that host kept.
LEMMA RetryEffect ==
  ASSUME ClientInv, NEW asked \in {new_host} \cup Host, retry(asked),
         wanted' = IF asked = new_host THEN wanted ELSE asked
  PROVE  /\ connector' \in {"retrying", "stopped"}
         /\ host' \in Host /\ new_host' \in Host \cup {NoHost} /\ wanted' \in Host
         /\ late' \in BOOLEAN
         /\ new_host' \in {NoHost, wanted'}
         /\ connector' # "stopped" => host' = wanted'
         /\ host' # wanted' => new_host' = wanted'
<1> USE ClientAssumption DEF ClientInv, ClientTypeOK, AskedHost, HostKept
<1>1. asked \in {NoHost, wanted'} /\ wanted' \in Host
  OBVIOUS
<1>2. asked = NoHost => host = wanted'
  OBVIOUS
<1>3. CASE is_reconnecting
  BY <1>1, <1>2, <1>3 DEF retry, retry_host
<1>4. CASE ~is_reconnecting
  <2>1. /\ connector' = "stopped" /\ host' = host /\ new_host' = asked
        /\ late' = late
    BY <1>4 DEF retry
  <2>2. host # wanted' => asked = wanted'
    BY <1>1, <1>2
  <2> QED BY <1>1, <2>1, <2>2
<1> QED BY <1>3, <1>4

\* What the end of a connection does to the factory, however the connection
\* ended.
LEMMA LostKeepsInv ==
  ASSUME ClientInv, Inv', ServingOpen', conn' = "lost", ClientLost
  PROVE  ClientInv'
<1>1. PICK asked \in {new_host} \cup Host :
        /\ wanted' = IF asked = new_host THEN wanted ELSE asked
        /\ retry(asked)
  BY DEF ClientLost
<1>2. /\ connector' \in {"retrying", "stopped"}
      /\ host' \in Host /\ new_host' \in Host \cup {NoHost} /\ wanted' \in Host
      /\ late' \in BOOLEAN
      /\ AskedHost'
      /\ HostFollowed' /\ HostKept'
  BY <1>1, RetryEffect DEF AskedHost, HostFollowed, HostKept
<1>3. ~Open'
  BY DEF Open
<1>4. /\ timeout_handler' = FALSE /\ sent' = <<>>
      /\ UNCHANGED <<is_reconnecting, on_connect, after_connect>>
  BY DEF ClientLost
<1>5. ClientTypeOK'
  <2>1. TypeOK'
    BY DEF Inv
  <2>2. connector' # "connected" /\ connector' \in {"retrying", "stopped"}
    BY <1>2
  <2>3. <<>> \in Seq(Command)
    OBVIOUS
  <2> QED BY <1>2, <1>3, <1>4, <2>1, <2>2, <2>3 DEF ClientInv, ClientTypeOK
<1> QED BY <1>2, <1>3, <1>5 DEF ClientInv, SubscriptionsInForce

\* Steps of the factory that leave the connection alone.
LEMMA ProtocolUnchanged ==
  ASSUME ClientInv, UNCHANGED vars
  PROVE  Inv' /\ ServingOpen' /\ conn' = conn /\ Open' = Open
<1>1. conn' = conn /\ Open' = Open /\ serving' = serving
  BY DEF vars, protocolVars, batchVars, Open
<1>2. TypeOK'
  BY DEF ClientInv, Inv, TypeOK, FactoryTypeOK, vars, protocolVars, batchVars, callVars
<1>3. OneDefault'
  BY DEF ClientInv, Inv, OneDefault, vars
<1>4. BatchInv' /\ CallInv'
  BY <1>1 DEF ClientInv, Inv, BatchInv, CounterCounts, WithinBatch, FinishedWhenAnswered,
     CallInv, EachCallerToldOnce, Uncalled, vars, protocolVars, batchVars, callVars
<1> QED BY <1>1, <1>2, <1>3, <1>4 DEF ClientInv, Inv, ServingOpen

\* Steps of the protocol that leave the factory alone.
LEMMA UnnoticedKeepsInv ==
  ASSUME ClientInv, Inv', ServingOpen', conn' = conn, UNCHANGED factoryVars
  PROVE  ClientInv'
BY DEF ClientInv, ClientTypeOK, Inv, Open, factoryVars, SubscriptionsInForce,
   AskedHost, HostFollowed, HostKept

-----------------------------------------------------------------------------
(* The invariant *)

LEMMA ClientInitInv == ClientInit => ClientInv
<1> SUFFICES ASSUME ClientInit PROVE ClientInv
  OBVIOUS
<1>1. Inv
  BY InitInv DEF ClientInit
<1>2. conn = "none" /\ serving = 0
  BY DEF ClientInit, Init
<1>3. ClientTypeOK
  <2>1. TypeOK /\ ~Open
    BY <1>1, <1>2 DEF Inv, Open
  <2>2. <<>> \in Seq(Command) /\ Len(<<>>) <= MaxSubscribed
    BY ClientAssumption
  <2> QED BY <2>1, <2>2 DEF ClientInit, ClientTypeOK, sockswrapper
<1> QED
  BY <1>1, <1>2, <1>3 DEF ClientInv, ClientInit, ServingOpen, Open,
     SubscriptionsInForce, AskedHost, HostFollowed, HostKept

LEMMA ClientStepKeepsInv == ClientInv /\ [ClientNext]_clientVars => ClientInv'
<1> SUFFICES ASSUME ClientInv, [ClientNext]_clientVars PROVE ClientInv'
  OBVIOUS
<1>1. CASE ClientConnectionMade
  <2>1. Len(resumed) \in 0..MaxCalls
    BY ClientAssumption, ProtocolAssumption DEF ClientInv, ClientTypeOK, resumed
  <2>2. Inv'
    BY <1>1, <2>1, NewConnectionKeepsInv DEF ClientConnectionMade, ClientInv
  <2>3. conn' = "up" /\ connector' = "connected" /\ serving' = 0
    BY <1>1 DEF ClientConnectionMade, NewConnection
  <2>4. sent' = after_connect'
    BY <1>1 DEF ClientConnectionMade, resumed
  <2>5. conn # "closing"
    BY <1>1 DEF ClientConnectionMade, ClientInv, ClientTypeOK, Open
  <2>6. UNCHANGED <<is_reconnecting, host, new_host, after_connect, wanted, late>>
    BY <1>1 DEF ClientConnectionMade
  <2>7. ClientTypeOK'
    <3>1. /\ timeout_handler' = FALSE
          /\ on_connect' \in {on_connect, "connected"}
      BY <1>1 DEF ClientConnectionMade
    <3> QED BY <2>2, <2>3, <2>4, <2>6, <3>1 DEF ClientInv, ClientTypeOK, Inv, Open
  <2>8. HostFollowed' /\ HostKept' /\ AskedHost'
    BY <1>1, <2>5, <2>6 DEF ClientConnectionMade, ClientInv, HostFollowed, HostKept,
       AskedHost
  <2> QED BY <2>2, <2>3, <2>4, <2>7, <2>8 DEF ClientInv, ServingOpen,
     SubscriptionsInForce, Open
<1>2. CASE ClientConnectionFailed
  <2>1. retry(new_host) /\ wanted' = wanted /\ connector = "connecting"
    BY <1>2 DEF ClientConnectionFailed
  <2>2. /\ connector' \in {"retrying", "stopped"}
        /\ host' \in Host /\ new_host' \in Host \cup {NoHost} /\ wanted' \in Host
        /\ late' \in BOOLEAN
        /\ new_host' \in {NoHost, wanted'}
        /\ connector' # "stopped" => host' = wanted'
        /\ host' # wanted' => new_host' = wanted'
    BY <2>1, RetryEffect
  <2>3. Inv' /\ ServingOpen' /\ Open' = Open /\ ~Open
    BY <1>2, <2>1, ProtocolUnchanged DEF ClientConnectionFailed, ClientInv, ClientTypeOK
  <2>4. UNCHANGED <<is_reconnecting, timeout_handler, on_connect, after_connect, sent>>
    BY <1>2 DEF ClientConnectionFailed
  <2>5. ClientTypeOK'
    BY <2>2, <2>3, <2>4 DEF ClientInv, ClientTypeOK, Inv
  <2> QED BY <2>2, <2>3, <2>5 DEF ClientInv, SubscriptionsInForce, AskedHost,
     HostFollowed, HostKept
<1>3. CASE RetryTimer \/ SOCKSConnect \/ connection_timeout \/ UNCHANGED clientVars
  <2>1. Inv' /\ ServingOpen' /\ conn' = conn
    BY <1>3, ProtocolUnchanged DEF RetryTimer, SOCKSConnect, connection_timeout,
       clientVars
  <2>2. UNCHANGED <<is_reconnecting, host, new_host, after_connect, sent, wanted, late>>
    BY <1>3 DEF RetryTimer, SOCKSConnect, connection_timeout, clientVars, factoryVars
  <2>3. /\ timeout_handler' \in {timeout_handler, FALSE}
        /\ on_connect' \in {on_connect, "failed"}
        /\ \/ connector' = connector
           \/ connector = "retrying" /\ connector' = "connecting"
           \/ connector = "proxying" /\ connector' = "stopped"
    BY <1>3 DEF RetryTimer, SOCKSConnect, sockswrapper, connection_timeout,
       timeout_result, clientVars, factoryVars
  <2>4. ClientTypeOK'
    BY <2>1, <2>2, <2>3 DEF ClientInv, ClientTypeOK, Inv, Open
  <2>5. /\ SubscriptionsInForce' /\ AskedHost' /\ HostFollowed' /\ HostKept'
    BY <2>1, <2>2, <2>3 DEF ClientInv, Open, SubscriptionsInForce, AskedHost,
       HostFollowed, HostKept
  <2> QED BY <2>1, <2>4, <2>5 DEF ClientInv
<1>4. CASE ClientConnectionLost
  <2>1. ConnectionStep
    BY <1>4 DEF ClientConnectionLost, ConnectionStep
  <2>3. conn' = "lost" /\ serving' = 0
    BY <1>4 DEF ClientConnectionLost, connectionLost, batchVars
  <2>2. Inv'
    BY <2>1, ConnectionStepKeepsInv DEF ClientInv
  <2> QED BY <1>4, <2>2, <2>3, LostKeepsInv DEF ClientConnectionLost, ServingOpen
<1>5. CASE OnConnection
  <2>1. OnProtocol /\ noticed
    BY <1>5 DEF OnConnection, OnProtocol
  <2>2. Inv'
    BY <2>1, ConnectionStepKeepsInv DEF OnProtocol, ConnectionStep, ClientInv
  <2>3. Open /\ (conn' = conn \/ (conn' = "lost" /\ serving' = 0))
    BY <2>1, ProtocolStep DEF ClientInv
  <2>4. ServingOpen'
    BY <2>3 DEF ServingOpen, Open
  <2>5. CASE conn' = "lost"
    BY <2>1, <2>2, <2>4, <2>5, LostKeepsInv DEF noticed
  <2>6. CASE conn' # "lost"
    BY <2>1, <2>2, <2>3, <2>4, <2>6, UnnoticedKeepsInv DEF noticed
  <2> QED BY <2>5, <2>6
<1>6. ASSUME rpc
      PROVE  Inv' /\ ServingOpen' /\ conn' = conn
  BY <1>6, ConnectionStepKeepsInv DEF ConnectionStep, ClientInv, rpc, batchVars,
     ServingOpen, Open
<1>7. CASE ClientRpc
  BY <1>6, <1>7, UnnoticedKeepsInv DEF ClientRpc
<1>8. ASSUME NEW cmd \in Command, subscribe(cmd)
      PROVE  ClientInv'
  <2>1. Inv' /\ ServingOpen' /\ conn' = conn
    BY <1>6, <1>8 DEF subscribe
  <2>2. /\ Open /\ Len(after_connect) < MaxSubscribed
        /\ after_connect' = Append(after_connect, cmd) /\ sent' = Append(sent, cmd)
        /\ UNCHANGED <<is_reconnecting, connector, host, new_host, timeout_handler,
                       on_connect, wanted, late>>
    BY <1>8 DEF subscribe
  <2>3. /\ after_connect' \in Seq(Command) /\ sent' \in Seq(Command)
        /\ Len(after_connect') <= MaxSubscribed
    <3>1. after_connect \in Seq(Command) /\ sent \in Seq(Command)
      BY DEF ClientInv, ClientTypeOK
    <3>2. Len(Append(after_connect, cmd)) = Len(after_connect) + 1
      BY <3>1
    <3>3. Len(after_connect) \in Nat /\ MaxSubscribed \in Nat
      BY <3>1, ClientAssumption
    <3> QED BY <1>8, <2>2, <3>1, <3>2, <3>3
  <2>4. ClientTypeOK'
    BY <2>1, <2>2, <2>3 DEF ClientInv, ClientTypeOK, Inv, Open
  <2>5. SubscriptionsInForce'
    BY <2>2 DEF ClientInv, SubscriptionsInForce
  <2>6. AskedHost' /\ HostFollowed' /\ HostKept'
    BY <2>1, <2>2 DEF ClientInv, AskedHost, HostFollowed, HostKept
  <2> QED BY <2>1, <2>4, <2>5, <2>6 DEF ClientInv
<1>9. ASSUME NEW h \in Host, reconnect(h)
      PROVE  ClientInv'
  <2>1. /\ new_host' = h /\ wanted' = h /\ late' = ~Open
        /\ conn' = IF Open THEN "closing" ELSE conn
        /\ UNCHANGED <<registry, expect_header, batchVars, callVars>>
        /\ UNCHANGED <<is_reconnecting, connector, host, timeout_handler, on_connect,
                       after_connect, sent>>
    BY <1>9 DEF reconnect
  <2>2. Open' = Open /\ (conn' = "up" => conn = "up") /\ (conn' = "none" <=> conn = "none")
    BY <2>1 DEF Open
  <2>3. Inv' /\ ServingOpen'
    BY <2>1, <2>2 DEF ClientInv, Inv, TypeOK, FactoryTypeOK, OneDefault, BatchInv,
       CounterCounts, WithinBatch, FinishedWhenAnswered, CallInv, EachCallerToldOnce,
       Uncalled, Open, ServingOpen, batchVars, callVars
  <2>4. ClientTypeOK'
    BY <1>9, <2>1, <2>2, <2>3 DEF ClientInv, ClientTypeOK, Inv
  <2>5. SubscriptionsInForce' /\ AskedHost' /\ HostFollowed' /\ HostKept'
    BY <2>1, <2>2 DEF ClientInv, SubscriptionsInForce, AskedHost, HostFollowed,
       HostKept, Open
  <2> QED BY <2>3, <2>4, <2>5 DEF ClientInv
<1>10. ASSUME NEW b \in Batch, ClientDisconnecting(b)
       PROVE  ClientInv'
  <2>1. OnProtocol /\ ConnectionStep /\ UNCHANGED factoryVars
    BY <1>10 DEF ClientDisconnecting, OnProtocol, ConnectionStep
  <2>2. Inv' /\ conn' = conn /\ serving' = 0
    BY <1>10, <2>1, ConnectionStepKeepsInv DEF ClientDisconnecting, Disconnecting,
       ClientInv
  <2> QED BY <2>1, <2>2, UnnoticedKeepsInv DEF ServingOpen
<1> QED BY <1>1, <1>2, <1>3, <1>4, <1>5, <1>7, <1>8, <1>9, <1>10 DEF ClientNext

\* The inductive invariant of the client.
THEOREM ClientInvariant == ClientSpec => []ClientInv
BY ClientInitInv, ClientStepKeepsInv, PTL DEF ClientSpec

\* Every variable keeps its type, and the connector is connected exactly while
\* the protocol's connection is open.
THEOREM ClientTypeCorrect == ClientSpec => []ClientTypeOK
BY ClientInvariant, PTL DEF ClientInv

\* However connections end and come back, an open one has every command that
\* was ever subscribed, once and in order.
THEOREM CommandsResume == ClientSpec => []SubscriptionsInForce
BY ClientInvariant, PTL DEF ClientInv

\* The client goes where it was last told to, unless it was told between two
\* connections.
THEOREM HostIsFollowed == ClientSpec => []HostFollowed
BY ClientInvariant, PTL DEF ClientInv

\* A host the client was told to use is not forgotten before it is used.
THEOREM HostIsKept == ClientSpec => []HostKept
BY ClientInvariant, PTL DEF ClientInv

\* The counters, batches and callers of every connection are right, of the
\* first as of any that comes after it.
THEOREM EveryConnectionIsRight ==
  ClientSpec => [](CounterCounts /\ FinishedWhenAnswered /\ EachCallerToldOnce)
BY ClientInvariant, PTL DEF ClientInv, Inv, BatchInv, CallInv

-----------------------------------------------------------------------------
(* A client without services *)

NoServices == registry = [t \in ServiceType |-> <<>>]

\* No service answers late, and none subscribes.
NoneLate == (\A b \in Batch : pending[b] = 0) /\ subscription = NoSubscription

AloneInv == NoServices /\ NoneLate /\ OwingInv

\* A call finds nothing in an empty table.
LEMMA NothingFound ==
  ASSUME NoServices, NEW path \in Path
  PROVE  call(path) = {}
<1>1. path.service_type \in ServiceType
  BY DEF Path
<1>2. registry[path.service_type] = <<>>
  BY <1>1 DEF NoServices
<1>3. DOMAIN registry[path.service_type] = {}
  BY <1>2
<1>4. lookup(path.service_type, path.vendor) = {}
  BY <1>3 DEF lookup, Default
<1> QED BY <1>4 DEF call

\* A subscription that does not wait stays as it is.
LEMMA NobodyTold ==
  ASSUME NEW b, subscription = NoSubscription,
         finish(b, subscription) \/ decrease(b, subscription)
  PROVE  subscription' = NoSubscription
BY DEF finish, decrease, told, NoSubscription

\* So nothing is ever left to a service.
LEMMA ProtocolStepKeepsAlone ==
  ASSUME Inv, AloneInv, OnProtocol
  PROVE  AloneInv'
<1>1. OwingInv'
  BY ConnectionStepKeepsOwing DEF AloneInv, OnProtocol, ConnectionStep
<1>2. NoServices /\ NoneLate
  BY DEF AloneInv
<1>3. CASE \E n \in 0..MaxLines : dataReceived(n)
  BY <1>1, <1>2, <1>3 DEF dataReceived, AloneInv, NoServices, NoneLate
<1>4. ASSUME NEW b \in Batch, HandleLine(b)
      PROVE  AloneInv'
  <2>1. \A path \in Path : ~ServeSubscribe(b, path) /\ ~ServeLater(b, path)
    BY <1>2, NothingFound DEF ServeSubscribe, ServeLater
  <2>2. \/ Serve(b) \/ Unexpected(b) \/ Undecodable(b)
        \/ \E c \in Call : Response(b, c) \/ ResponseMalformed(b, c)
    BY <1>4, <2>1 DEF HandleLine
  <2>3. /\ registry' = registry /\ pending' = pending
        /\ finish(b, subscription) \/ decrease(b, subscription)
    BY <2>2 DEF Serve, Unexpected, Undecodable, Response, ResponseMalformed, Line, Abort
  <2>4. subscription' = NoSubscription
    BY <1>2, <2>3, NobodyTold DEF NoneLate
  <2> QED BY <1>1, <1>2, <2>3, <2>4 DEF AloneInv, NoServices, NoneLate
<1>5. ASSUME NEW b \in Batch, LeaveBatch(b) \/ Disconnecting(b)
      PROVE  AloneInv'
  <2>1. /\ registry' = registry /\ pending' = pending
        /\ subscription' = subscription \/ finish(b, subscription)
    BY <1>5 DEF LeaveBatch, Disconnecting, EndBatch, TailTooLong, Abort
  <2>2. subscription' = NoSubscription
    BY <1>2, <2>1, NobodyTold DEF NoneLate
  <2> QED BY <1>1, <1>2, <2>1, <2>2 DEF AloneInv, NoServices, NoneLate
<1> QED BY <1>3, <1>4, <1>5 DEF OnProtocol

\* A client never leaves a call to a service, on any of its connections: the
\* answers that the protocol may give late do not exist for it.
THEOREM ClientAnswersAtOnce == ClientSpec => []AloneInv
<1>1. ClientInit => AloneInv
  BY NothingOwedAtFirst
     DEF ClientInit, Init, FactoryInit, AloneInv, NoServices, NoneLate
<1>2. ClientInv /\ AloneInv /\ [ClientNext]_clientVars => AloneInv'
  <2> SUFFICES ASSUME ClientInv, AloneInv, [ClientNext]_clientVars PROVE AloneInv'
    OBVIOUS
  <2>1. CASE OnProtocol
    BY <2>1, ProtocolStepKeepsAlone DEF ClientInv
  <2>2. CASE UNCHANGED <<registry, batchVars>>
    BY <2>2 DEF batchVars, AloneInv, NoServices, NoneLate, OwingInv, OneBatchServed,
       LinesHandled, Unanswered, WaitsForBatch, WaitsFor, Waits
  <2>3. CASE ClientConnectionMade
    <3>1. /\ batch' = 0 /\ serving' = 0 /\ subscription' = NoSubscription
          /\ pending' = [b \in Batch |-> 0] /\ registry' = registry
      BY <2>3 DEF ClientConnectionMade, NewConnection
    <3>2. OwingInv'
      BY <3>1 DEF OwingInv, OneBatchServed, LinesHandled, Unanswered, WaitsForBatch,
         WaitsFor, Waits, NoSubscription
    <3> QED BY <3>1, <3>2 DEF AloneInv, NoServices, NoneLate
  <2>4. CASE OnConnection \/ \E b \in Batch : ClientDisconnecting(b)
    BY <2>1, <2>4 DEF OnConnection, ClientDisconnecting, OnProtocol
  <2>5. CASE \/ ClientConnectionFailed \/ SOCKSConnect \/ RetryTimer
             \/ connection_timeout \/ ClientConnectionLost \/ ClientRpc
             \/ \E cmd \in Command : subscribe(cmd)
             \/ \E h \in Host : reconnect(h)
             \/ UNCHANGED clientVars
    BY <2>2, <2>5 DEF ClientConnectionFailed, SOCKSConnect, RetryTimer,
       connection_timeout, ClientConnectionLost, connectionLost, ClientRpc, subscribe,
       rpc, reconnect, clientVars, vars, protocolVars
  <2> QED BY <2>3, <2>4, <2>5 DEF ClientNext
<1> QED BY <1>1, <1>2, ClientInvariant, PTL DEF ClientSpec

\* A batch of a client that is not finished is the one the reactor is handling.
ServedNow == \A b \in 1..batch : size[b] > 0 /\ ~finished[b] => serving = b

\* Between two events of the reactor a client has no batch that could be
\* finished later, whatever ended the loop.
THEOREM ClientFinishesAtOnce == ClientSpec => []ServedNow
<1>1. Inv /\ AloneInv => ServedNow
  <2> SUFFICES ASSUME Inv, AloneInv, NEW b \in 1..batch, size[b] > 0, ~finished[b],
                      serving # b
               PROVE  FALSE
    BY DEF ServedNow
  <2>1. b \in Batch
    BY ArrivedBatch DEF Inv
  <2>2. left[b] = 0 /\ pending[b] = 0 /\ counter[b] = left[b] + pending[b]
    BY <2>1 DEF Inv, BatchInv, CounterCounts, AloneInv, NoneLate, OwingInv, LinesHandled
  <2> QED BY <2>2 DEF AloneInv, OwingInv, Unanswered
<1> QED BY <1>1, ClientInvariant, ClientAnswersAtOnce, PTL DEF ClientInv

\* Whoever waits for the first connection has the timer to rely on.
WaiterHasTimer == on_connect = "waiting" => timeout_handler

\* No lost connection, failed attempt or proxy cancels the timer of a caller
\* that was told nothing yet: all that FirstWaiterTold needs is that it fires.
THEOREM TimerIsNotLost == ClientSpec => []WaiterHasTimer
<1> DEFINE Told == WaiterHasTimer /\ (Open => on_connect # "waiting")
<1>1. ClientInit => Told
  BY DEF ClientInit, Init, WaiterHasTimer, Open
<1>2. ClientInv /\ Told /\ [ClientNext]_clientVars => Told'
  <2> SUFFICES ASSUME ClientInv, Told, [ClientNext]_clientVars PROVE Told'
    OBVIOUS
  <2>1. CASE ClientConnectionMade
    BY <2>1 DEF ClientConnectionMade, WaiterHasTimer
  <2>2. CASE connection_timeout
    BY <2>2 DEF connection_timeout, timeout_result, WaiterHasTimer
  <2>3. CASE /\ UNCHANGED <<on_connect, timeout_handler>>
             /\ Open' => Open
    BY <2>3 DEF WaiterHasTimer
  <2>4. CASE Open /\ ClientLost
    BY <2>4 DEF ClientLost, WaiterHasTimer
  <2>5. CASE ClientConnectionFailed \/ SOCKSConnect \/ RetryTimer \/ UNCHANGED clientVars
    BY <2>3, <2>5 DEF ClientConnectionFailed, SOCKSConnect, RetryTimer, clientVars, vars,
       protocolVars, factoryVars, Open
  <2>6. CASE ClientConnectionLost
    BY <2>4, <2>6 DEF ClientConnectionLost, connectionLost
  <2>7. CASE OnConnection
    <3>1. Open /\ noticed
      BY <2>7, ProtocolStep DEF OnConnection, OnProtocol, ClientInv
    <3> QED BY <2>3, <2>4, <3>1 DEF noticed, factoryVars
  <2>8. ASSUME NEW b \in Batch, ClientDisconnecting(b)
        PROVE  Told'
    BY <2>3, <2>8 DEF ClientDisconnecting, Disconnecting, factoryVars, Open
  <2>9. CASE ClientRpc \/ (\E cmd \in Command : subscribe(cmd)) \/ \E h \in Host : reconnect(h)
    BY <2>3, <2>9 DEF ClientRpc, subscribe, rpc, reconnect, factoryVars, Open
  <2> QED
    BY <2>1, <2>2, <2>5, <2>6, <2>7, <2>8, <2>9 DEF ClientNext
<1>3. Told => WaiterHasTimer
  OBVIOUS
<1> HIDE DEF Told
<1> QED BY <1>1, <1>2, <1>3, ClientInvariant, PTL DEF ClientSpec
=============================================================================
