-------------------------- MODULE ClientTransport --------------------------
(***************************************************************************)
(* The reconnecting client of stratum/socket_transport.py over the         *)
(* protocol of RpcProtocol: SocketTransportClientFactory and               *)
(* ClientProtocol.  Every connection has a protocol object of its own, so  *)
(* the variables of RpcProtocol start afresh with it.  The connector and   *)
(* the retry timer are Twisted's; an attempt may fail and a connection may *)
(* end at any time.  A factory with a proxy connects through               *)
(* stratum/socksclient.py.                                                 *)
(***************************************************************************)
EXTENDS RpcProtocol

CONSTANTS
  Host,             \* hosts the factory may be told to use
  NoHost,           \* new_host is None
  Command,          \* commands of subscribe()
  MaxSubscribed     \* bound: commands subscribed

ASSUME ClientAssumption ==
  /\ NoHost \notin Host
  /\ MaxSubscribed \in Nat /\ MaxSubscribed <= MaxCalls

VARIABLES
  is_reconnecting,   \* the factory connects again
  connector,         \* "proxying", "connecting", "connected", "retrying" or "stopped"
  host,              \* where the connector connects to; main_host
  new_host,          \* the host reconnect() was given
  timeout_handler,   \* the timer of connection_timeout is set
  on_connect,        \* what became of the first on_connect Deferred
  after_connect,     \* commands to send on every connection
  sent,              \* history: those sent on the present one
  wanted,            \* history: the host last asked for
  late               \* history: it was asked for when no connection was open

factoryVars == <<is_reconnecting, connector, host, new_host, timeout_handler,
                 on_connect, after_connect, sent, wanted, late>>
clientVars == <<vars, factoryVars>>

ClientTypeOK ==
  /\ TypeOK
  /\ is_reconnecting \in BOOLEAN
  /\ connector \in {"proxying", "connecting", "connected", "retrying", "stopped"}
  /\ host \in Host /\ new_host \in Host \cup {NoHost} /\ wanted \in Host
  /\ timeout_handler \in BOOLEAN /\ late \in BOOLEAN
  /\ on_connect \in {"waiting", "connected", "failed"}
  /\ after_connect \in Seq(Command) /\ Len(after_connect) <= MaxSubscribed
  /\ sent \in Seq(Command)
  /\ connector = "connected" <=> Open

\* SOCKSWrapper.connect: a factory of its own connects to the proxy; the
\* client's factory takes part only after the handshake.
sockswrapper == "proxying"

\* The constructor sets the timer and starts to connect, to the host itself or
\* to a proxy.
ClientInit ==
  /\ Init
  /\ is_reconnecting \in BOOLEAN
  /\ connector \in {"connecting", sockswrapper}
  /\ host \in Host /\ wanted = host /\ new_host = NoHost /\ late = FALSE
  /\ timeout_handler = TRUE /\ on_connect = "waiting"
  /\ after_connect = <<>> /\ sent = <<>>

-----------------------------------------------------------------------------
(* Connecting *)

\* Mutant: only the command subscribed last is sent again.
resumed_last ==
  IF after_connect = <<>> THEN <<>> ELSE <<after_connect[Len(after_connect)]>>

resumed == after_connect

\* ClientProtocol.connectionMade: the timer is cancelled and the stored
\* commands are sent before the waiting caller hears of the connection.
ClientConnectionMade ==
  /\ connector = "connecting"
  /\ NewConnection(FALSE, Len(resumed))
  /\ connector' = "connected"
  /\ timeout_handler' = FALSE
  /\ sent' = resumed
  /\ on_connect' = IF on_connect = "waiting" THEN "connected" ELSE on_connect
  /\ UNCHANGED <<is_reconnecting, host, new_host, after_connect, wanted, late>>

\* Mutant: the new host waits for the attempt after the next.
retry_same_host(asked) == host

\* retry() moves the connector to a new host, if there is one.
retry_host(asked) == IF asked = NoHost THEN host ELSE asked

\* retry(), with what reconnect() has left in new_host.
retry(asked) ==
  IF is_reconnecting
  THEN /\ connector' = "retrying"
       /\ host' = retry_host(asked) /\ new_host' = NoHost
       /\ late' = FALSE
  ELSE /\ connector' = "stopped"
       /\ host' = host /\ new_host' = asked
       /\ late' = late

ClientConnectionFailed ==
  /\ connector = "connecting"
  /\ retry(new_host)
  /\ UNCHANGED <<vars, is_reconnecting, timeout_handler, on_connect,
                 after_connect, sent, wanted>>

\* A proxy cannot be reached, or is: then the request for the host raises
\* TypeError, for it adds a str to bytes, and the proxy's connection is
\* dropped.  Neither reaches the factory, which will not try again.
SOCKSConnect ==
  /\ connector = sockswrapper
  /\ connector' = "stopped"
  /\ UNCHANGED <<vars, is_reconnecting, host, new_host, timeout_handler,
                 on_connect, after_connect, sent, wanted, late>>

\* The retry timer of ReconnectingClientFactory.
RetryTimer ==
  /\ connector = "retrying"
  /\ connector' = "connecting"
  /\ UNCHANGED <<vars, is_reconnecting, host, new_host, timeout_handler,
                 on_connect, after_connect, sent, wanted, late>>

\* Mutant: the caller is not told, only the Deferred is renewed.
timeout_silent == on_connect

\* connection_timeout fails the Deferred; a connection cancels the timer, so
\* it never runs once the client is set.
timeout_result == IF on_connect = "waiting" THEN "failed" ELSE on_connect

connection_timeout ==
  /\ timeout_handler
  /\ timeout_handler' = FALSE
  /\ on_connect' = timeout_result
  /\ UNCHANGED <<vars, is_reconnecting, connector, host, new_host,
                 after_connect, sent, wanted, late>>

-----------------------------------------------------------------------------
(* A connection ends *)

\* ClientProtocol.connectionLost and clientConnectionLost.  on_disconnect is
\* fired in between: its callback may ask for another host.
ClientLost ==
  /\ timeout_handler' = FALSE
  /\ \E asked \in {new_host} \cup Host :
       /\ wanted' = IF asked = new_host THEN wanted ELSE asked
       /\ retry(asked)
  /\ sent' = <<>>
  /\ UNCHANGED <<is_reconnecting, on_connect, after_connect>>

ClientConnectionLost == connectionLost /\ ClientLost

\* Mutant: a line that raises ends the connection unseen by the factory.
unnoticed == UNCHANGED factoryVars

noticed == IF conn' = "lost" THEN ClientLost ELSE UNCHANGED factoryVars

\* The steps of the protocol, of which those that raise end the connection.  A
\* client that registers no service answers every call at once, with an error.
OnConnection ==
  /\ \/ \E n \in 0..MaxLines : dataReceived(n)
     \/ \E b \in Batch : HandleLine(b) \/ LeaveBatch(b)
  /\ noticed

\* The rest of a batch is dropped when the connection is being closed.
ClientDisconnecting(b) == Disconnecting(b) /\ UNCHANGED factoryVars

-----------------------------------------------------------------------------
(* Calls of the application; they raise TransportException when no           *)
(* connection is open.                                                       *)

ClientRpc == Open /\ rpc /\ UNCHANGED factoryVars

\* subscribe() stores the command and sends it.
subscribe(cmd) ==
  /\ Open /\ Len(after_connect) < MaxSubscribed
  /\ rpc
  /\ after_connect' = Append(after_connect, cmd)
  /\ sent' = Append(sent, cmd)
  /\ UNCHANGED <<is_reconnecting, connector, host, new_host, timeout_handler,
                 on_connect, wanted, late>>

\* reconnect(host): an open connection is closed, any other state of the
\* connector is left alone.
reconnect(h) ==
  /\ new_host' = h /\ wanted' = h
  /\ conn' = IF Open THEN "closing" ELSE conn
  /\ late' = ~Open
  /\ UNCHANGED <<registry, expect_header, batchVars, callVars, is_reconnecting,
                 connector, host, timeout_handler, on_connect, after_connect, sent>>

-----------------------------------------------------------------------------
ClientNext ==
  \/ ClientConnectionMade \/ ClientConnectionFailed \/ SOCKSConnect
  \/ RetryTimer \/ connection_timeout \/ ClientConnectionLost \/ OnConnection
  \/ \E b \in Batch : ClientDisconnecting(b)
  \/ ClientRpc
  \/ \E cmd \in Command : subscribe(cmd)
  \/ \E h \in Host : reconnect(h)

\* The reactor runs a timer that nobody cancels.
ClientSpec ==
  ClientInit /\ [][ClientNext]_clientVars /\ WF_clientVars(connection_timeout)

-----------------------------------------------------------------------------
(* Properties *)

\* On an open connection every command ever subscribed is in force, those of
\* earlier connections first, each sent once and in order, also when
\* connections end while subscriptions are being made.
SubscriptionsInForce == Open => sent = after_connect

\* The client is connected or on its way to the host last asked for, however
\* requests, lost connections and retries interleave.  A host asked for when
\* no connection is open is the exception: the attempt under way or the timer
\* that runs already has the old one.
HostFollowed ==
  conn # "closing" /\ connector # "stopped" /\ ~late => host = wanted

\* A host that was asked for is not forgotten: what the connector does not
\* have yet is kept for the next retry.
HostKept == host # wanted => new_host = wanted

\* Whoever waits for the factory's first connection is told of it, or of the
\* time-out: no interleaving of timer, attempts and lost connections leaves
\* the Deferred unfired, nor does a proxy that fails unseen.
FirstWaiterTold == on_connect = "waiting" ~> on_connect # "waiting"
=============================================================================
