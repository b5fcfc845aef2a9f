---------------------------- MODULE PoolStartup ----------------------------
(***************************************************************************)
(* How the pool comes up: launcher.tac, mining.setup, the Interfaces it    *)
(* fills and stratum.setup, which makes the pool listen.  The managers may *)
(* be replaced by others, which load when they like; twistd starts the     *)
(* application after it has run launcher.tac.  A web socket transport is   *)
(* never among those that listen: the pinned autobahn has no listenWS      *)
(* where setup_finalize looks for it, and the ImportError ends it there.   *)
(***************************************************************************)
EXTENDS Naturals, Sequences, FiniteSets, SequencesExt

CONSTANT Enabled    \* sets of transports that settings may give a port

Transport == {"socket", "http", "https", "ws", "wss"}

ASSUME StartupAssumption == Enabled \subseteq SUBSET Transport

VARIABLES
  enabled,      \* the transports with a port
  sslContext,   \* whether the key and the certificate could be read
  on_load,      \* what became of the managers' Deferreds
  setup_at,     \* how far mining.setup is: before its call ("launcher"), at the
                \* manager it waits for, "ready", or "raised"
  interfaces,   \* what setup has put in place
  services,     \* transports attached to the application, in order
  running,      \* twistd has started the application
  listening,    \* transports that accept miners
  link          \* the link to NodeCore: "none", "connecting", "up", "down" (until
                \* the retry) or "stopped" (reactor.stop() was called)

startupVars == <<enabled, sslContext, on_load, setup_at, interfaces, services,
                 running, listening>>

Manager == {"share_manager", "worker_manager"}

Interface == {"share_limiter", "template_registry", "mining_job_callback"}

StartupTypeOK ==
  /\ enabled \in Enabled
  /\ sslContext \in BOOLEAN
  /\ on_load \in [Manager -> {"waiting", "loaded", "failed"}]
  /\ setup_at \in Manager \cup {"launcher", "ready", "raised"}
  /\ interfaces \subseteq Interface
  /\ services \in Seq(Transport)
  /\ running \in BOOLEAN
  /\ listening \subseteq Transport
  /\ link \in {"none", "connecting", "up", "down", "stopped"}

\* launcher.tac gives Interfaces its managers; those of interfaces.py have
\* loaded when they are made.
StartupInit ==
  /\ enabled \in Enabled
  /\ sslContext \in BOOLEAN
  /\ on_load \in [Manager -> {"waiting", "loaded"}]
  /\ setup_at = "launcher"
  /\ interfaces = {}
  /\ services = <<>>
  /\ running = FALSE
  /\ listening = {}
  /\ link = "none"

-----------------------------------------------------------------------------
\* What mining.setup meets when it has waited for a manager.
waited(manager, next) ==
  CASE on_load'[manager] = "loaded"  -> next
    [] on_load'[manager] = "failed"  -> "raised"
    [] on_load'[manager] = "waiting" -> manager

\* Mutant: nobody waits for the worker manager.
waits_once == waited("share_manager", "ready")

\* The two yields of mining.setup.
waits == waited("share_manager", waited("worker_manager", "ready"))

\* The services setup_finalize makes, in its order.
attached ==
  LET if_enabled(t) == IF t \in enabled THEN <<t>> ELSE <<>>
  IN  if_enabled("socket") \o if_enabled("http")
      \o (IF sslContext THEN if_enabled("https") ELSE <<>>)

\* Mutant: a service attached to a running application is not started.
starts_with_application(n) == IF running THEN {} ELSE listening

\* A running application starts a service when it is attached.
started(n) == IF running THEN ToSet(SubSeq(attached, 1, n)) ELSE listening

\* setup_finalize, the callback of on_startup: of the services it attaches it
\* starts n, and the port of the next one is taken.
setup_finalize(n) ==
  /\ n < Len(attached) => running
  /\ services' = IF n < Len(attached) THEN SubSeq(attached, 1, n + 1) ELSE attached
  /\ listening' = started(n)

\* The rest of mining.setup: what it puts in place, the connection to NodeCore
\* and, last, on_startup.
Setup ==
  /\ interfaces' = Interface
  /\ link' = "connecting"
  /\ \E n \in 0..Len(attached) : setup_finalize(n)

\* mining.setup goes on as far as the managers allow, in one step.
Continue ==
  /\ setup_at' = waits
  /\ IF setup_at' = "ready"
     THEN Setup
     ELSE UNCHANGED <<interfaces, services, listening, link>>
  /\ UNCHANGED <<enabled, sslContext, running>>

\* The last line of launcher.tac.
Launch ==
  /\ setup_at = "launcher"
  /\ on_load' = on_load
  /\ Continue

\* A manager has loaded, or cannot.  Setup goes on in its callback if it waits
\* for that manager.
Load(manager, result) ==
  /\ running /\ link # "stopped"
  /\ on_load[manager] = "waiting"
  /\ on_load' = [on_load EXCEPT ![manager] = result]
  /\ IF setup_at = manager THEN Continue
     ELSE UNCHANGED <<enabled, sslContext, setup_at, interfaces, services,
                      running, listening, link>>

\* twistd starts the application and then the reactor.
StartApplication ==
  /\ setup_at # "launcher" /\ ~running /\ link # "stopped"
  /\ running' = TRUE
  /\ listening' = ToSet(services)
  /\ UNCHANGED <<enabled, sslContext, on_load, setup_at, interfaces, services, link>>

\* A port is taken: twistd ends.
StartFails ==
  /\ setup_at # "launcher" /\ ~running /\ link # "stopped"
  /\ services # <<>>
  /\ link' = "stopped"
  /\ UNCHANGED startupVars

StartupNext ==
  \/ Launch
  \/ \E manager \in Manager, result \in {"loaded", "failed"} : Load(manager, result)
  \/ StartApplication \/ StartFails

-----------------------------------------------------------------------------
(* Properties *)

\* "Run listening when mining service is ready": no miner can connect to a
\* pool that still waits for a manager or lacks its registry, its limiter or
\* the callback for jobs, in whatever order managers load and twistd starts.
ListensWhenReady ==
  listening # {} =>
    /\ \A manager \in Manager : on_load[manager] = "loaded"
    /\ interfaces = Interface
    /\ link \notin {"none", "stopped"}

\* A pool whose managers have loaded serves: all it has to attach listens,
\* whether they loaded before or after the application started, unless a port
\* is taken: then nothing is attached after that one.
ReadyServes ==
  running /\ link # "stopped" /\ (\A manager \in Manager : on_load[manager] = "loaded") =>
    \E taken \in {0, 1} :
      /\ listening = ToSet(SubSeq(services, 1, Len(services) - taken))
      /\ taken = 0 => services = attached
=============================================================================
