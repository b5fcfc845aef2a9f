--------------------------- MODULE UcpLinkProofs ---------------------------
(***************************************************************************)
(* Theorems of UcpLink: the pool that comes up as PoolStartup says, and    *)
(* the link to NodeCore it then has.                                       *)
(***************************************************************************)
EXTENDS UcpLink, SequenceTheorems, FiniteSetTheorems, TLAPS

-----------------------------------------------------------------------------
(* Coming up *)

\* What mining.setup has done is what its place says, in both directions.
SetupPlace ==
  /\ setup_at \in Manager => on_load[setup_at] = "waiting"
  /\ setup_at = "raised" => \E manager \in Manager : on_load[manager] = "failed"
  /\ setup_at = "launcher" => ~running
  /\ setup_at = "ready" =>
       /\ \A manager \in Manager : on_load[manager] = "loaded"
       /\ interfaces = Interface
  /\ setup_at # "ready" <=> link = "none"
  /\ setup_at # "ready" => services = <<>>

\* Nothing listens before twistd has started the application or after the
\* reactor has stopped.
RunningListens ==
  /\ listening # {} => running /\ link \notin {"none", "stopped"}
  /\ ~running => link \in {"none", "connecting", "stopped"}
  /\ ~running /\ setup_at = "ready" => services = attached

StartupInv == StartupTypeOK /\ SetupPlace /\ RunningListens /\ ReadyServes

LEMMA AttachedType == attached \in Seq(Transport)
BY DEF attached, Transport

LEMMA StartupInitInv == StartupInit => StartupInv
<1> SUFFICES ASSUME StartupInit PROVE StartupInv
  OBVIOUS
<1>1. StartupTypeOK
  <2>1. on_load \in [Manager -> {"waiting", "loaded", "failed"}]
    BY DEF StartupInit
  <2>2. services \in Seq(Transport)
    <3>1. services = <<>>
      BY DEF StartupInit
    <3> QED BY <3>1
  <2>3. /\ interfaces \subseteq Interface /\ listening \subseteq Transport
        /\ enabled \in Enabled /\ sslContext \in BOOLEAN /\ running \in BOOLEAN
    BY DEF StartupInit
  <2>4. setup_at = "launcher" /\ link = "none"
    BY DEF StartupInit
  <2> QED BY <2>1, <2>2, <2>3, <2>4 DEF StartupTypeOK
<1>2. SetupPlace
  BY DEF StartupInit, SetupPlace, Manager
<1>3. RunningListens
  BY DEF StartupInit, RunningListens
<1>4. ReadyServes
  BY DEF StartupInit, ReadyServes
<1> QED BY <1>1, <1>2, <1>3, <1>4 DEF StartupInv

\* Whatever n is, all that is attached but the service that fails is started.
LEMMA FinalizeServes ==
  ASSUME running, NEW n \in 0..Len(attached), setup_finalize(n)
  PROVE  /\ services' \in Seq(Transport)
         /\ listening' \subseteq Transport
         /\ \E taken \in {0, 1} :
              /\ listening' = ToSet(SubSeq(services', 1, Len(services') - taken))
              /\ taken = 0 => services' = attached
<1> DEFINE s == attached
<1>1. s \in Seq(Transport) /\ Len(s) \in Nat
  BY AttachedType
<1>2. listening' = ToSet(SubSeq(s, 1, n))
  BY DEF setup_finalize, started
<1>3. SubSeq(s, 1, n) \in Seq(Transport)
  <2>1. \A i \in 1..n : s[i] \in Transport
    BY <1>1
  <2> QED BY <2>1, SubSeqProperties
<1>4. listening' \subseteq Transport
  BY <1>2, <1>3 DEF ToSet
<1>5. CASE n < Len(s)
  <2>1. services' = SubSeq(s, 1, n + 1)
    BY <1>5 DEF setup_finalize
  <2>2. \A i \in 1..(n + 1) : s[i] \in Transport
    BY <1>1, <1>5
  <2>3. services' \in Seq(Transport) /\ Len(services') = n + 1
    BY <2>1, <2>2, SubSeqProperties
  <2>4. SubSeq(services', 1, n) = SubSeq(s, 1, n)
    <3>1. CASE n = 0
      BY <3>1, SubSeqEmpty
    <3>2. CASE n # 0
      <4>1. n + 1 \in 1..Len(s) /\ n \in 1..(n + 1) - 1 + 1 /\ 1 \in 1..(n + 1) - 1 + 1
            /\ 1 \in 1..Len(s)
        BY <3>2, <1>5, <1>1
      <4>2. SubSeq(SubSeq(s, 1, n + 1), 1, n) = SubSeq(s, 1 + 1 - 1, 1 + n - 1)
        BY <4>1, <1>1, SubSeqOfSubSeq
      <4> QED BY <4>2, <2>1
    <3> QED BY <3>1, <3>2
  <2>5. Len(services') - 1 = n
    BY <2>3
  <2>6. listening' = ToSet(SubSeq(services', 1, Len(services') - 1))
    BY <1>2, <2>4, <2>5
  <2> QED BY <1>4, <2>3, <2>6
<1>6. CASE ~(n < Len(s))
  <2>1. n = Len(s) /\ services' = s
    BY <1>1, <1>6 DEF setup_finalize
  <2> QED BY <1>1, <1>2, <1>4, <2>1
<1> QED BY <1>5, <1>6

-----------------------------------------------------------------------------
LEMMA ContinueKeepsInv ==
  ASSUME StartupInv, Continue,
         on_load' \in [Manager -> {"waiting", "loaded", "failed"}],
         setup_at # "ready",
         \/ setup_at = "launcher"
         \/ running
  PROVE  StartupInv'
<1>1. attached' = attached
  BY DEF Continue, attached
<1>2. setup_at' = waits /\ setup_at' \in Manager \cup {"ready", "raised"}
  BY DEF Continue, waits, waited, Manager
<1>3. UNCHANGED <<enabled, sslContext, running>>
  BY DEF Continue
<1>4. /\ setup_at' \in Manager => on_load'[setup_at'] = "waiting"
      /\ setup_at' = "raised" => \E manager \in Manager : on_load'[manager] = "failed"
      /\ setup_at' = "ready" => \A manager \in Manager : on_load'[manager] = "loaded"
  BY <1>2 DEF waits, waited, Manager
<1>5. CASE setup_at' # "ready"
  <2>1. UNCHANGED <<interfaces, services, listening, link>>
    BY <1>5 DEF Continue
  <2>2. StartupTypeOK'
    BY <1>2, <1>3, <2>1 DEF StartupInv, StartupTypeOK
  <2>3. services = <<>> /\ listening = {} /\ link = "none"
    BY DEF StartupInv, SetupPlace, RunningListens
  <2>4. SetupPlace'
    BY <1>2, <1>4, <1>5, <2>1, <2>3 DEF SetupPlace, Manager
  <2>5. RunningListens'
    BY <1>3, <1>5, <2>1, <2>3 DEF RunningListens
  <2>6. ~(\A manager \in Manager : on_load'[manager] = "loaded")
    BY <1>2, <1>4, <1>5 DEF Manager
  <2>7. ReadyServes'
    BY <2>6 DEF ReadyServes
  <2> QED BY <2>2, <2>4, <2>5, <2>7 DEF StartupInv
<1>6. CASE setup_at' = "ready"
  <2>1. Setup
    BY <1>6 DEF Continue
  <2>2. PICK n \in 0..Len(attached) : setup_finalize(n)
    BY <2>1 DEF Setup
  <2>3. interfaces' = Interface /\ link' = "connecting"
    BY <2>1 DEF Setup
  <2>4. CASE running
    <3>1. /\ services' \in Seq(Transport)
          /\ listening' \subseteq Transport
          /\ \E taken \in {0, 1} :
              /\ listening' = ToSet(SubSeq(services', 1, Len(services') - taken))
              /\ taken = 0 => services' = attached
      BY <2>2, <2>4, FinalizeServes
    <3>2. StartupTypeOK'
      BY <1>2, <1>3, <2>3, <3>1 DEF StartupInv, StartupTypeOK
    <3>3. SetupPlace'
      BY <1>2, <1>4, <1>6, <2>3 DEF SetupPlace, Manager
    <3>4. RunningListens'
      BY <1>3, <2>3, <2>4 DEF RunningListens
    <3>5. ReadyServes'
      BY <1>1, <3>1 DEF ReadyServes
    <3> QED BY <3>2, <3>3, <3>4, <3>5 DEF StartupInv
  <2>5. CASE ~running
    <3>1. services' = attached /\ listening' = listening
      BY <2>2, <2>5 DEF setup_finalize, started
    <3>2. StartupTypeOK'
      BY <1>2, <1>3, <2>3, <3>1, AttachedType DEF StartupInv, StartupTypeOK
    <3>3. SetupPlace'
      BY <1>2, <1>4, <1>6, <2>3 DEF SetupPlace, Manager
    <3>4. RunningListens'
      BY <1>1, <1>3, <2>3, <2>5, <3>1 DEF RunningListens, StartupInv
    <3>5. ReadyServes'
      BY <1>3, <2>5 DEF ReadyServes
    <3> QED BY <3>2, <3>3, <3>4, <3>5 DEF StartupInv
  <2> QED BY <2>4, <2>5
<1> QED BY <1>5, <1>6

\* The actions of the link, which leave the rest of the pool alone.
LEMMA LinkKeepsInv ==
  ASSUME StartupInv, UNCHANGED startupVars,
         \/ link' = link
         \/ /\ running /\ link \notin {"none", "stopped"}
            /\ link' \in {"connecting", "up", "down"}
  PROVE  StartupInv'
<1>1. attached' = attached
  BY DEF attached, startupVars
<1>2. StartupTypeOK'
  BY DEF StartupInv, StartupTypeOK, startupVars
<1>3. SetupPlace'
  BY DEF StartupInv, SetupPlace, startupVars
<1>4. RunningListens'
  BY <1>1 DEF StartupInv, RunningListens, startupVars
<1>5. ReadyServes'
  BY <1>1 DEF StartupInv, ReadyServes, startupVars
<1> QED BY <1>2, <1>3, <1>4, <1>5 DEF StartupInv

LEMMA StartupKeepsInv == StartupInv /\ StartupNext => StartupInv'
<1> SUFFICES ASSUME StartupInv, StartupNext PROVE StartupInv'
  OBVIOUS
<1>0. on_load \in [Manager -> {"waiting", "loaded", "failed"}]
  BY DEF StartupInv, StartupTypeOK
<1>1. CASE Launch
  BY <1>0, <1>1, ContinueKeepsInv DEF Launch
<1>2. ASSUME NEW manager \in Manager, NEW result \in {"loaded", "failed"},
             Load(manager, result)
      PROVE  StartupInv'
  <2>1. on_load' \in [Manager -> {"waiting", "loaded", "failed"}]
    BY <1>0, <1>2 DEF Load
  <2>2. CASE setup_at = manager
    <3>1. setup_at # "ready" /\ running /\ Continue
      BY <1>2, <2>2 DEF Load, Manager
    <3> QED BY <2>1, <3>1, ContinueKeepsInv
  <2>3. CASE setup_at # manager
    <3>1. /\ UNCHANGED <<enabled, sslContext, setup_at, interfaces, services,
                         running, listening, link>>
          /\ running /\ on_load[manager] = "waiting"
          /\ on_load' = [on_load EXCEPT ![manager] = result]
      BY <1>2, <2>3 DEF Load
    <3>2. attached' = attached
      BY <3>1 DEF attached
    <3>3. setup_at # "ready"
      BY <3>1 DEF StartupInv, SetupPlace
    <3>4. StartupTypeOK'
      BY <2>1, <3>1 DEF StartupInv, StartupTypeOK
    <3>5. \A other \in Manager : other # manager => on_load'[other] = on_load[other]
      BY <1>0, <3>1
    <3>6. setup_at' = "raised" => \E other \in Manager : on_load'[other] = "failed"
      <4>1. ASSUME setup_at' = "raised"
            PROVE  \E other \in Manager : on_load'[other] = "failed"
        <5>1. PICK other \in Manager : on_load[other] = "failed"
          BY <3>1, <4>1 DEF StartupInv, SetupPlace
        <5>2. on_load'[other] = "failed"
          BY <3>1, <3>5, <5>1
        <5> QED BY <5>2
      <4> QED BY <4>1
    <3>7. setup_at' \in Manager => on_load'[setup_at'] = "waiting"
      BY <2>3, <3>1, <3>5 DEF StartupInv, SetupPlace
    <3>8. SetupPlace'
      BY <3>1, <3>3, <3>6, <3>7 DEF StartupInv, SetupPlace
    <3>9. RunningListens'
      BY <3>1, <3>2 DEF StartupInv, RunningListens
    <3>10. setup_at \in Manager \cup {"launcher", "raised"} /\ setup_at # "launcher"
      BY <3>1, <3>3 DEF StartupInv, StartupTypeOK, SetupPlace
    <3>11. ~(\A other \in Manager : on_load'[other] = "loaded")
      BY <3>1, <3>6, <3>7, <3>10
    <3>12. ReadyServes'
      BY <3>11 DEF ReadyServes
    <3> QED BY <3>4, <3>8, <3>9, <3>12 DEF StartupInv
  <2> QED BY <2>2, <2>3
<1>3. CASE StartApplication
  <2>1. /\ setup_at # "launcher" /\ ~running /\ link # "stopped"
        /\ running' = TRUE /\ listening' = ToSet(services)
        /\ UNCHANGED <<enabled, sslContext, on_load, setup_at, interfaces,
                       services, link>>
    BY <1>3 DEF StartApplication
  <2>2. attached' = attached
    BY <2>1 DEF attached
  <2>3. services \in Seq(Transport)
    BY DEF StartupInv, StartupTypeOK
  <2>4. listening' \subseteq Transport
    BY <2>1, <2>3 DEF ToSet
  <2>5. StartupTypeOK'
    BY <2>1, <2>4 DEF StartupInv, StartupTypeOK
  <2>6. SetupPlace'
    BY <2>1 DEF StartupInv, SetupPlace
  <2>7. listening' # {} => link' \notin {"none", "stopped"}
    <3>1. services = <<>> => listening' = {}
      BY <2>1 DEF ToSet
    <3> QED BY <2>1, <3>1 DEF StartupInv, SetupPlace
  <2>8. RunningListens'
    BY <2>1, <2>7 DEF RunningListens
  <2>9. ReadyServes'
    <3>1. ASSUME \A manager \in Manager : on_load[manager] = "loaded"
          PROVE  services = attached
      <4>1. setup_at = "ready"
        BY <2>1, <3>1 DEF StartupInv, StartupTypeOK, SetupPlace
      <4> QED BY <2>1, <4>1 DEF StartupInv, RunningListens
    <3>2. SubSeq(services, 1, Len(services) - 0) = services
      BY <2>3, SubSeqFull
    <3>3. listening' = ToSet(SubSeq(services', 1, Len(services') - 0))
      BY <2>1, <3>2
    <3> QED BY <2>1, <2>2, <3>1, <3>3 DEF ReadyServes
  <2> QED BY <2>5, <2>6, <2>8, <2>9 DEF StartupInv
<1>4. CASE StartFails
  <2>1. /\ ~running /\ link # "stopped" /\ services # <<>>
        /\ link' = "stopped" /\ UNCHANGED startupVars
    BY <1>4 DEF StartFails
  <2>2. attached' = attached
    BY <2>1 DEF attached, startupVars
  <2>3. StartupTypeOK'
    BY <2>1 DEF StartupInv, StartupTypeOK, startupVars
  <2>4. SetupPlace'
    BY <2>1 DEF StartupInv, SetupPlace, startupVars
  <2>5. RunningListens' /\ ReadyServes'
    BY <2>1, <2>2 DEF StartupInv, RunningListens, ReadyServes, startupVars
  <2> QED BY <2>3, <2>4, <2>5 DEF StartupInv
<1> QED BY <1>1, <1>2, <1>3, <1>4 DEF StartupNext

-----------------------------------------------------------------------------
(* The link *)

IsSubmit(command) == command.command = "MINING_SUBMIT"

IsAnswer(reply) ==
  reply.command \in {"MINING_SUBMIT_SUCCESS", "MINING_SUBMIT_FAILURE"}

\* No two lines on the link concern the same submitted block.
OneLineEach ==
  /\ \A i, j \in 1..Len(to_core) :
       IsSubmit(to_core[i]) /\ IsSubmit(to_core[j]) /\ to_core[i].id = to_core[j].id
         => i = j
  /\ \A i, j \in 1..Len(from_core) :
       IsAnswer(from_core[i]) /\ IsAnswer(from_core[j])
         /\ from_core[i].id = from_core[j].id
         => i = j
  /\ \A i \in 1..Len(to_core), j \in 1..Len(from_core) :
       IsSubmit(to_core[i]) /\ IsAnswer(from_core[j])
         => to_core[i].id # from_core[j].id

\* What is on the link was sent and is not answered; a job is one NodeCore made.
LinesMatter ==
  /\ \A i \in 1..Len(to_core) :
       IsSubmit(to_core[i]) => to_core[i].id \in sent \ answered
  /\ \A i \in 1..Len(from_core) :
       IsAnswer(from_core[i]) => from_core[i].id \in sent \ answered
  /\ \A i \in 1..Len(from_core) :
       from_core[i].command = "MINING_JOB" => from_core[i].id <= jobs_sent

\* Ids are taken in order, and answers come to what was sent.
HistoryInv ==
  /\ \A id \in sent : id <= request_id_counter
  /\ reported \subseteq answered /\ answered \subseteq sent

LinkInv == StartupInv /\ TypeOK /\ OneLineEach /\ LinesMatter /\ HistoryInv

LEMMA LinkInitInv == Init => LinkInv
<1> SUFFICES ASSUME Init PROVE LinkInv
  OBVIOUS
<1>1. StartupInv
  BY StartupInitInv DEF Init
<1>2. /\ to_core = <<>> /\ from_core = <<>> /\ sent = {} /\ answered = {}
      /\ reported = {} /\ requests = {} /\ on_connected = FALSE
      /\ request_id_counter = 0 /\ core = "new" /\ jobs_sent = 0 /\ job = 0
  BY DEF Init
<1>3. <<>> \in Seq(Command) /\ <<>> \in Seq(Reply)
  OBVIOUS
<1>4. request_id_counter \in 0..MaxRequests /\ jobs_sent \in 0..MaxJobs
      /\ job \in 0..jobs_sent
  BY <1>2, LinkAssumption
<1>5. TypeOK
  BY <1>1, <1>2, <1>3, <1>4 DEF StartupInv, TypeOK
<1>6. Len(to_core) = 0 /\ Len(from_core) = 0
  BY <1>2
<1>7. OneLineEach /\ LinesMatter
  BY <1>6 DEF OneLineEach, LinesMatter
<1>8. HistoryInv
  BY <1>2 DEF HistoryInv
<1> QED BY <1>1, <1>5, <1>7, <1>8 DEF LinkInv

\* The line that is read leaves its queue, and the others keep their order.
LEMMA TailShifts ==
  ASSUME NEW S, NEW s \in Seq(S), s # <<>>
  PROVE  /\ Head(s) = s[1] /\ Head(s) \in S /\ 1 \in 1..Len(s)
         /\ Tail(s) \in Seq(S)
         /\ \A i \in 1..Len(Tail(s)) : i + 1 \in 1..Len(s) /\ Tail(s)[i] = s[i + 1]
<1>1. Len(Tail(s)) = Len(s) - 1 /\ Len(s) \in Nat /\ Len(s) # 0
  BY HeadTailProperties
<1> QED BY <1>1, HeadTailProperties

\* A new line is the last of its queue.
LEMMA AppendExtends ==
  ASSUME NEW S, NEW s \in Seq(S), NEW e \in S
  PROVE  /\ Append(s, e) \in Seq(S) /\ Len(s) \in Nat
         /\ Len(Append(s, e)) = Len(s) + 1
         /\ Append(s, e)[Len(s) + 1] = e
         /\ \A i \in 1..Len(Append(s, e)) :
              \/ i \in 1..Len(s) /\ Append(s, e)[i] = s[i]
              \/ i = Len(s) + 1 /\ Append(s, e)[i] = e
OBVIOUS

-----------------------------------------------------------------------------
(* The startup part of every action *)

LEMMA LinkStepKeepsStartup == LinkInv /\ Next => StartupInv'
<1> SUFFICES ASSUME LinkInv, Next PROVE StartupInv'
  OBVIOUS
<1>0. StartupInv
  BY DEF LinkInv
<1>1. CASE StartupNext /\ UNCHANGED ucpVars
  BY <1>0, <1>1, StartupKeepsInv
<1>2. CASE ConnectionMade \/ ConnectionMadeAgain \/ ConnectionLost \/ Retry
           \/ ReadLine \/ submit_share \/ (\E id \in Id : Collect(id))
           \/ CoreReads \/ CoreJob
  <2>1. link \in {"up", "down"} => running
    BY <1>0 DEF StartupInv, RunningListens
  <2>2. /\ UNCHANGED startupVars
        /\ \/ link' = link
           \/ /\ running /\ link \notin {"none", "stopped"}
              /\ link' \in {"connecting", "up", "down"}
    <3>1. CASE ConnectionMade \/ ConnectionMadeAgain \/ ConnectionLost \/ Retry
      BY <2>1, <3>1 DEF ConnectionMade, ConnectionMadeAgain, ConnectionLost, Retry, Drop
    <3>2. CASE ReadLine
      BY <2>1, <3>2 DEF ReadLine, on_auth_success, IgnoreLine, on_mining_job,
         RejectJob, on_submit_answer, Arrives, Drop
    <3>3. CASE submit_share \/ (\E id \in Id : Collect(id))
      BY <3>3 DEF submit_share, Collect
    <3>4. CASE CoreReads \/ CoreJob
      BY <3>4 DEF CoreReads, CoreAuth, CoreRefuse, CoreSubscribe, CoreAnswer, CoreJob
    <3> QED BY <1>2, <3>1, <3>2, <3>3, <3>4
  <2> QED BY <1>0, <2>2, LinkKeepsInv
<1>3. CASE ConnectionFailed
  <2>1. /\ running /\ link = "connecting" /\ link' = "stopped" /\ listening' = {}
        /\ UNCHANGED <<enabled, sslContext, on_load, setup_at, interfaces, services,
                       running>>
    BY <1>3 DEF ConnectionFailed
  <2>2. attached' = attached
    BY <2>1 DEF attached
  <2>3. StartupTypeOK'
    BY <1>0, <2>1 DEF StartupInv, StartupTypeOK
  <2>4. SetupPlace'
    BY <1>0, <2>1 DEF StartupInv, SetupPlace
  <2>5. RunningListens' /\ ReadyServes'
    BY <2>1 DEF RunningListens, ReadyServes
  <2> QED BY <2>3, <2>4, <2>5 DEF StartupInv
<1> QED BY <1>1, <1>2, <1>3 DEF Next

-----------------------------------------------------------------------------
(* The lines of the link *)

LinesInv == OneLineEach /\ LinesMatter

\* Steps that touch neither what is in flight nor what it is about.
LEMMA SameLines ==
  ASSUME LinesInv, UNCHANGED <<to_core, from_core, jobs_sent, sent, answered>>
  PROVE  LinesInv'
<1>1. OneLineEach'
  BY DEF LinesInv, OneLineEach, IsSubmit, IsAnswer
<1>2. LinesMatter'
  BY DEF LinesInv, LinesMatter, IsSubmit, IsAnswer
<1> QED BY <1>1, <1>2 DEF LinesInv

\* A link that broke, or that has just come up, carries no submit and no reply.
LEMMA NewLines ==
  ASSUME from_core' = <<>>,
         \A i \in 1..Len(to_core') : ~IsSubmit(to_core'[i])
  PROVE  LinesInv'
<1>1. \A i \in 1..Len(from_core') : FALSE
  OBVIOUS
<1> QED BY <1>1 DEF LinesInv, OneLineEach, LinesMatter

\* One more line to the pool, about no submit that another line is about.
LEMMA ReplyAppended ==
  ASSUME LinesInv, TypeOK, NEW reply \in Reply,
         from_core' = Append(from_core, reply),
         UNCHANGED <<sent, answered>>, jobs_sent' \in Nat, jobs_sent <= jobs_sent',
         reply.command = "MINING_JOB" => reply.id <= jobs_sent',
         IsAnswer(reply) => reply.id \in sent \ answered,
         IsAnswer(reply) =>
           /\ \A i \in 1..Len(from_core) : IsAnswer(from_core[i]) => from_core[i].id # reply.id
           /\ \A i \in 1..Len(to_core') : IsSubmit(to_core'[i]) => to_core'[i].id # reply.id,
         NEW a \in Nat,
         \A i \in 1..Len(to_core') : i + a \in 1..Len(to_core) /\ to_core'[i] = to_core[i + a],
         to_core' \in Seq(Command)
  PROVE  LinesInv'
<1>1. from_core \in Seq(Reply) /\ to_core \in Seq(Command) /\ jobs_sent \in Nat
  BY DEF TypeOK
<1>2. /\ Len(from_core) \in Nat
      /\ \A i \in 1..Len(from_core') :
              \/ i \in 1..Len(from_core) /\ from_core'[i] = from_core[i]
              \/ i = Len(from_core) + 1 /\ from_core'[i] = reply
  BY <1>1, AppendExtends
<1>3. Len(to_core') \in Nat
  OBVIOUS
<1>4. \A i, j \in 1..Len(to_core') :
       IsSubmit(to_core'[i]) /\ IsSubmit(to_core'[j]) /\ to_core'[i].id = to_core'[j].id
         => i = j
  <2> SUFFICES ASSUME NEW i \in 1..Len(to_core'), NEW j \in 1..Len(to_core'),
                      IsSubmit(to_core'[i]), IsSubmit(to_core'[j]),
                      to_core'[i].id = to_core'[j].id
               PROVE  i = j
    OBVIOUS
  <2>1. i + a = j + a
    BY DEF LinesInv, OneLineEach
  <2> QED BY <2>1, <1>3
<1>5. \A i, j \in 1..Len(from_core') :
       IsAnswer(from_core'[i]) /\ IsAnswer(from_core'[j])
         /\ from_core'[i].id = from_core'[j].id
         => i = j
  <2> SUFFICES ASSUME NEW i \in 1..Len(from_core'), NEW j \in 1..Len(from_core'),
                      IsAnswer(from_core'[i]), IsAnswer(from_core'[j]),
                      from_core'[i].id = from_core'[j].id
               PROVE  i = j
    OBVIOUS
  <2>1. CASE i \in 1..Len(from_core) /\ from_core'[i] = from_core[i]
    <3>1. CASE j \in 1..Len(from_core) /\ from_core'[j] = from_core[j]
      BY <2>1, <3>1 DEF LinesInv, OneLineEach
    <3>2. CASE j = Len(from_core) + 1 /\ from_core'[j] = reply
      BY <2>1, <3>2
    <3> QED BY <1>2, <3>1, <3>2
  <2>2. CASE i = Len(from_core) + 1 /\ from_core'[i] = reply
    <3>1. CASE j \in 1..Len(from_core) /\ from_core'[j] = from_core[j]
      BY <2>2, <3>1
    <3>2. CASE j = Len(from_core) + 1 /\ from_core'[j] = reply
      BY <2>2, <3>2
    <3> QED BY <1>2, <3>1, <3>2
  <2> QED BY <1>2, <2>1, <2>2
<1>6. \A i \in 1..Len(to_core'), j \in 1..Len(from_core') :
       IsSubmit(to_core'[i]) /\ IsAnswer(from_core'[j])
         => to_core'[i].id # from_core'[j].id
  <2> SUFFICES ASSUME NEW i \in 1..Len(to_core'), NEW j \in 1..Len(from_core'),
                      IsSubmit(to_core'[i]), IsAnswer(from_core'[j])
               PROVE  to_core'[i].id # from_core'[j].id
    OBVIOUS
  <2>1. i + a \in 1..Len(to_core) /\ to_core'[i] = to_core[i + a]
    OBVIOUS
  <2>2. CASE j \in 1..Len(from_core) /\ from_core'[j] = from_core[j]
    BY <2>1, <2>2 DEF LinesInv, OneLineEach
  <2>3. CASE j = Len(from_core) + 1 /\ from_core'[j] = reply
    BY <2>3
  <2> QED BY <1>2, <2>2, <2>3
<1>7. OneLineEach'
  BY <1>4, <1>5, <1>6 DEF OneLineEach, IsSubmit, IsAnswer
<1>8. \A i \in 1..Len(to_core') :
       IsSubmit(to_core'[i]) => to_core'[i].id \in sent \ answered
  BY DEF LinesInv, LinesMatter
<1>9. \A i \in 1..Len(from_core') :
       IsAnswer(from_core'[i]) => from_core'[i].id \in sent \ answered
  BY <1>2 DEF LinesInv, LinesMatter
<1>10. \A i \in 1..Len(from_core') :
       from_core'[i].command = "MINING_JOB" => from_core'[i].id <= jobs_sent'
  <2> SUFFICES ASSUME NEW i \in 1..Len(from_core'), from_core'[i].command = "MINING_JOB"
               PROVE  from_core'[i].id <= jobs_sent'
    OBVIOUS
  <2>1. CASE i \in 1..Len(from_core) /\ from_core'[i] = from_core[i]
    <3>1. from_core[i] \in Reply /\ from_core[i].id <= jobs_sent
      BY <1>1, <2>1 DEF LinesInv, LinesMatter
    <3>2. from_core[i].id \in Int
      BY <3>1, LinkAssumption DEF Reply, Id
    <3> QED BY <1>1, <2>1, <3>1, <3>2
  <2>2. CASE i = Len(from_core) + 1 /\ from_core'[i] = reply
    BY <2>2
  <2> QED BY <1>2, <2>1, <2>2
<1>11. LinesMatter'
  BY <1>8, <1>9, <1>10 DEF LinesMatter, IsSubmit, IsAnswer
<1> QED BY <1>7, <1>11 DEF LinesInv

\* One more command to NodeCore; the pool may have read a line that is no answer.
LEMMA CommandAppended ==
  ASSUME LinesInv, TypeOK, NEW command \in Command,
         \/ to_core' = to_core
         \/ to_core' = Append(to_core, command),
         UNCHANGED <<answered, jobs_sent>>, sent \subseteq sent',
         IsSubmit(command) /\ to_core' # to_core => command.id \in sent' \ answered,
         IsSubmit(command) =>
           /\ \A i \in 1..Len(to_core) : IsSubmit(to_core[i]) => to_core[i].id # command.id
           /\ \A i \in 1..Len(from_core) : IsAnswer(from_core[i]) => from_core[i].id # command.id,
         NEW a \in Nat,
         \A i \in 1..Len(from_core') : i + a \in 1..Len(from_core) /\ from_core'[i] = from_core[i + a],
         from_core' \in Seq(Reply)
  PROVE  LinesInv'
<1>1. to_core \in Seq(Command)
  BY DEF TypeOK
<1>2. /\ Len(to_core) \in Nat
      /\ \A i \in 1..Len(to_core') :
              \/ i \in 1..Len(to_core) /\ to_core'[i] = to_core[i]
              \/ i = Len(to_core) + 1 /\ to_core'[i] = command /\ to_core' # to_core
  <2>1. CASE to_core' = to_core
    BY <1>1, <2>1
  <2>2. CASE to_core' = Append(to_core, command)
    BY <1>1, <2>2, AppendExtends
  <2> QED BY <2>1, <2>2
<1>3. Len(from_core') \in Nat
  OBVIOUS
<1>4. \A i, j \in 1..Len(to_core') :
       IsSubmit(to_core'[i]) /\ IsSubmit(to_core'[j]) /\ to_core'[i].id = to_core'[j].id
         => i = j
  <2> SUFFICES ASSUME NEW i \in 1..Len(to_core'), NEW j \in 1..Len(to_core'),
                      IsSubmit(to_core'[i]), IsSubmit(to_core'[j]),
                      to_core'[i].id = to_core'[j].id
               PROVE  i = j
    OBVIOUS
  <2>1. CASE i \in 1..Len(to_core) /\ to_core'[i] = to_core[i]
    <3>1. CASE j \in 1..Len(to_core) /\ to_core'[j] = to_core[j]
      BY <2>1, <3>1 DEF LinesInv, OneLineEach
    <3>2. CASE j = Len(to_core) + 1 /\ to_core'[j] = command
      BY <2>1, <3>2
    <3> QED BY <1>2, <3>1, <3>2
  <2>2. CASE i = Len(to_core) + 1 /\ to_core'[i] = command
    <3>1. CASE j \in 1..Len(to_core) /\ to_core'[j] = to_core[j]
      BY <2>2, <3>1
    <3>2. CASE j = Len(to_core) + 1 /\ to_core'[j] = command
      BY <2>2, <3>2
    <3> QED BY <1>2, <3>1, <3>2
  <2> QED BY <1>2, <2>1, <2>2
<1>5. \A i, j \in 1..Len(from_core') :
       IsAnswer(from_core'[i]) /\ IsAnswer(from_core'[j])
         /\ from_core'[i].id = from_core'[j].id
         => i = j
  <2> SUFFICES ASSUME NEW i \in 1..Len(from_core'), NEW j \in 1..Len(from_core'),
                      IsAnswer(from_core'[i]), IsAnswer(from_core'[j]),
                      from_core'[i].id = from_core'[j].id
               PROVE  i = j
    OBVIOUS
  <2>1. i + a = j + a
    BY DEF LinesInv, OneLineEach
  <2> QED BY <2>1, <1>3
<1>6. \A i \in 1..Len(to_core'), j \in 1..Len(from_core') :
       IsSubmit(to_core'[i]) /\ IsAnswer(from_core'[j])
         => to_core'[i].id # from_core'[j].id
  <2> SUFFICES ASSUME NEW i \in 1..Len(to_core'), NEW j \in 1..Len(from_core'),
                      IsSubmit(to_core'[i]), IsAnswer(from_core'[j])
               PROVE  to_core'[i].id # from_core'[j].id
    OBVIOUS
  <2>1. j + a \in 1..Len(from_core) /\ from_core'[j] = from_core[j + a]
    OBVIOUS
  <2>2. CASE i \in 1..Len(to_core) /\ to_core'[i] = to_core[i]
    BY <2>1, <2>2 DEF LinesInv, OneLineEach
  <2>3. CASE i = Len(to_core) + 1 /\ to_core'[i] = command
    BY <2>1, <2>3
  <2> QED BY <1>2, <2>2, <2>3
<1>7. OneLineEach'
  BY <1>4, <1>5, <1>6 DEF OneLineEach, IsSubmit, IsAnswer
<1>8. \A i \in 1..Len(to_core') :
       IsSubmit(to_core'[i]) => to_core'[i].id \in sent' \ answered'
  BY <1>2 DEF LinesInv, LinesMatter
<1>9. \A i \in 1..Len(from_core') :
       IsAnswer(from_core'[i]) => from_core'[i].id \in sent' \ answered'
  BY DEF LinesInv, LinesMatter
<1>10. \A i \in 1..Len(from_core') :
       from_core'[i].command = "MINING_JOB" => from_core'[i].id <= jobs_sent'
  BY DEF LinesInv, LinesMatter
<1>11. LinesMatter'
  BY <1>8, <1>9, <1>10 DEF LinesMatter, IsSubmit, IsAnswer
<1> QED BY <1>7, <1>11 DEF LinesInv

\* A line that changes nothing of what the others are about is read.
LEMMA LineRead ==
  ASSUME LinesInv,
         UNCHANGED <<to_core, answered, jobs_sent, sent>>,
         \A i \in 1..Len(from_core') :
           i + 1 \in 1..Len(from_core) /\ from_core'[i] = from_core[i + 1],
         from_core' \in Seq(Reply)
  PROVE  LinesInv'
<1>1. \A i, j \in 1..Len(from_core') :
       IsAnswer(from_core'[i]) /\ IsAnswer(from_core'[j])
         /\ from_core'[i].id = from_core'[j].id
         => i = j
  <2> SUFFICES ASSUME NEW i \in 1..Len(from_core'), NEW j \in 1..Len(from_core'),
                      IsAnswer(from_core'[i]), IsAnswer(from_core'[j]),
                      from_core'[i].id = from_core'[j].id
               PROVE  i = j
    OBVIOUS
  <2>1. i + 1 = j + 1
    BY DEF LinesInv, OneLineEach
  <2> QED BY <2>1
<1>2. /\ \A i \in 1..Len(to_core'), j \in 1..Len(from_core') :
            IsSubmit(to_core'[i]) /\ IsAnswer(from_core'[j])
              => to_core'[i].id # from_core'[j].id
      /\ \A i, j \in 1..Len(to_core') :
            IsSubmit(to_core'[i]) /\ IsSubmit(to_core'[j])
              /\ to_core'[i].id = to_core'[j].id
              => i = j
  BY DEF LinesInv, OneLineEach
<1>3. OneLineEach'
  BY <1>1, <1>2 DEF OneLineEach, IsSubmit, IsAnswer
<1>4. /\ \A i \in 1..Len(to_core') :
           IsSubmit(to_core'[i]) => to_core'[i].id \in sent' \ answered'
      /\ \A i \in 1..Len(from_core') :
           IsAnswer(from_core'[i]) => from_core'[i].id \in sent' \ answered'
      /\ \A i \in 1..Len(from_core') :
           from_core'[i].command = "MINING_JOB" => from_core'[i].id <= jobs_sent'
  BY DEF LinesInv, LinesMatter
<1>5. LinesMatter'
  BY <1>4 DEF LinesMatter, IsSubmit, IsAnswer
<1> QED BY <1>3, <1>5 DEF LinesInv

\* A command nothing answers is read by NodeCore.
LEMMA CommandRead ==
  ASSUME LinesInv,
         UNCHANGED <<from_core, answered, jobs_sent, sent>>,
         \A i \in 1..Len(to_core') :
           i + 1 \in 1..Len(to_core) /\ to_core'[i] = to_core[i + 1],
         to_core' \in Seq(Command)
  PROVE  LinesInv'
<1>1. \A i, j \in 1..Len(to_core') :
       IsSubmit(to_core'[i]) /\ IsSubmit(to_core'[j]) /\ to_core'[i].id = to_core'[j].id
         => i = j
  <2> SUFFICES ASSUME NEW i \in 1..Len(to_core'), NEW j \in 1..Len(to_core'),
                      IsSubmit(to_core'[i]), IsSubmit(to_core'[j]),
                      to_core'[i].id = to_core'[j].id
               PROVE  i = j
    OBVIOUS
  <2>1. i + 1 = j + 1
    BY DEF LinesInv, OneLineEach
  <2> QED BY <2>1
<1>2. /\ \A i \in 1..Len(to_core'), j \in 1..Len(from_core') :
            IsSubmit(to_core'[i]) /\ IsAnswer(from_core'[j])
              => to_core'[i].id # from_core'[j].id
      /\ \A i, j \in 1..Len(from_core') :
            IsAnswer(from_core'[i]) /\ IsAnswer(from_core'[j])
              /\ from_core'[i].id = from_core'[j].id
              => i = j
  BY DEF LinesInv, OneLineEach
<1>3. OneLineEach'
  BY <1>1, <1>2 DEF OneLineEach, IsSubmit, IsAnswer
<1>4. /\ \A i \in 1..Len(to_core') :
           IsSubmit(to_core'[i]) => to_core'[i].id \in sent' \ answered'
      /\ \A i \in 1..Len(from_core') :
           IsAnswer(from_core'[i]) => from_core'[i].id \in sent' \ answered'
      /\ \A i \in 1..Len(from_core') :
           from_core'[i].command = "MINING_JOB" => from_core'[i].id <= jobs_sent'
  BY DEF LinesInv, LinesMatter
<1>5. LinesMatter'
  BY <1>4 DEF LinesMatter, IsSubmit, IsAnswer
<1> QED BY <1>3, <1>5 DEF LinesInv

\* An answer is read: no other line is about its submit.
LEMMA AnswerRead ==
  ASSUME LinesInv, TypeOK, from_core # <<>>, IsAnswer(Head(from_core)),
         from_core' = Tail(from_core),
         answered' = answered \cup {Head(from_core).id},
         UNCHANGED <<to_core, jobs_sent, sent>>
  PROVE  LinesInv' /\ Head(from_core).id \in sent
<1>1. from_core \in Seq(Reply)
  BY DEF TypeOK
<1>2. /\ Head(from_core) = from_core[1] /\ 1 \in 1..Len(from_core)
      /\ \A i \in 1..Len(from_core') :
           i + 1 \in 1..Len(from_core) /\ from_core'[i] = from_core[i + 1]
      /\ Len(from_core') \in Nat
  BY <1>1, TailShifts
<1>3. \A i, j \in 1..Len(from_core') :
       IsAnswer(from_core'[i]) /\ IsAnswer(from_core'[j])
         /\ from_core'[i].id = from_core'[j].id
         => i = j
  <2> SUFFICES ASSUME NEW i \in 1..Len(from_core'), NEW j \in 1..Len(from_core'),
                      IsAnswer(from_core'[i]), IsAnswer(from_core'[j]),
                      from_core'[i].id = from_core'[j].id
               PROVE  i = j
    OBVIOUS
  <2>1. i + 1 = j + 1
    BY <1>2 DEF LinesInv, OneLineEach
  <2> QED BY <2>1, <1>2
<1>4. \A i \in 1..Len(to_core'), j \in 1..Len(from_core') :
       IsSubmit(to_core'[i]) /\ IsAnswer(from_core'[j])
         => to_core'[i].id # from_core'[j].id
  BY <1>2 DEF LinesInv, OneLineEach
<1>5. \A i, j \in 1..Len(to_core') :
       IsSubmit(to_core'[i]) /\ IsSubmit(to_core'[j]) /\ to_core'[i].id = to_core'[j].id
         => i = j
  BY DEF LinesInv, OneLineEach
<1>6. OneLineEach'
  BY <1>3, <1>4, <1>5 DEF OneLineEach, IsSubmit, IsAnswer
<1>7. \A i \in 1..Len(to_core') :
       IsSubmit(to_core'[i]) => to_core'[i].id \in sent' \ answered'
  BY <1>2 DEF LinesInv, LinesMatter, OneLineEach
<1>8. \A i \in 1..Len(from_core') :
       IsAnswer(from_core'[i]) => from_core'[i].id \in sent' \ answered'
  <2> SUFFICES ASSUME NEW i \in 1..Len(from_core'), IsAnswer(from_core'[i])
               PROVE  from_core'[i].id \in sent' \ answered'
    OBVIOUS
  <2>1. i + 1 # 1
    BY <1>2
  <2>2. from_core[i + 1].id # from_core[1].id
    BY <1>2, <2>1 DEF LinesInv, OneLineEach
  <2> QED BY <1>2, <2>2 DEF LinesInv, LinesMatter
<1>9. \A i \in 1..Len(from_core') :
       from_core'[i].command = "MINING_JOB" => from_core'[i].id <= jobs_sent'
  BY <1>2 DEF LinesInv, LinesMatter
<1>10. LinesMatter'
  BY <1>7, <1>8, <1>9 DEF LinesMatter, IsSubmit, IsAnswer
<1>11. Head(from_core).id \in sent
  BY <1>2 DEF LinesInv, LinesMatter
<1> QED BY <1>6, <1>10, <1>11 DEF LinesInv

-----------------------------------------------------------------------------
(* The steps of the link *)

\* Both queues after a step are made of what the rest of TypeOK allows.
LinkScalarsOK ==
  /\ on_connected \in BOOLEAN
  /\ request_id_counter \in 0..MaxRequests
  /\ requests \subseteq Id
  /\ core \in {"new", "auth", "subscribed"}
  /\ jobs_sent \in 0..MaxJobs /\ job \in 0..jobs_sent
  /\ sent \subseteq Id /\ answered \subseteq Id /\ reported \subseteq Id

QueuesOK == to_core \in Seq(Command) /\ from_core \in Seq(Reply)

LEMMA LinkPartsEqual == TypeOK <=> StartupTypeOK /\ LinkScalarsOK /\ QueuesOK
BY DEF TypeOK, LinkScalarsOK, QueuesOK

\* The id a new request takes is fresh.
LEMMA FreshId ==
  ASSUME TypeOK, TakeRequestId
  PROVE  /\ next_id \in Id /\ request_id_counter' = next_id
         /\ request_id_counter' \in 0..MaxRequests
         /\ request_id_counter < next_id
BY LinkAssumption DEF TypeOK, TakeRequestId, next_id, Id

LinkFacts == LinkScalarsOK /\ QueuesOK /\ LinesInv /\ HistoryInv

LEMMA StutterKeepsLink ==
  ASSUME LinkFacts, UNCHANGED ucpVars
  PROVE  LinkFacts'
<1>1. LinesInv'
  BY SameLines DEF LinkFacts, ucpVars
<1>2. LinkScalarsOK' /\ QueuesOK' /\ HistoryInv'
  BY DEF LinkFacts, LinkScalarsOK, QueuesOK, HistoryInv, ucpVars, Id
<1> QED BY <1>1, <1>2 DEF LinkFacts

\* The connection comes up or goes away.
LEMMA ConnectionKeepsLink ==
  ASSUME LinkFacts, TypeOK,
         \/ ConnectionMade \/ ConnectionMadeAgain \/ ConnectionFailed
         \/ ConnectionLost \/ RejectJob \/ Retry
  PROVE  LinkFacts'
<1>1. CASE ConnectionMade
  <2>1. /\ TakeRequestId /\ on_connected' = TRUE /\ core' = "new"
        /\ to_core' = <<[command |-> "MINING_AUTH", id |-> next_id]>>
        /\ from_core' = <<>>
        /\ UNCHANGED <<requests, jobs_sent, job, sent, answered, reported>>
    BY <1>1 DEF ConnectionMade
  <2>2. /\ next_id \in Id /\ request_id_counter' = next_id
        /\ request_id_counter' \in 0..MaxRequests
        /\ request_id_counter < next_id
    BY <2>1, FreshId
  <2>3. LinkScalarsOK'
    BY <2>1, <2>2 DEF LinkFacts, LinkScalarsOK
  <2>4. [command |-> "MINING_AUTH", id |-> next_id] \in Command
    BY <2>2 DEF Command
  <2>5. QueuesOK'
    <3>1. <<>> \in Seq(Reply)
      OBVIOUS
    <3> QED BY <2>1, <2>4, <3>1 DEF QueuesOK
  <2>6. \A i \in 1..Len(to_core') : ~IsSubmit(to_core'[i])
    BY <2>1 DEF IsSubmit
  <2>7. LinesInv'
    BY <2>1, <2>6, NewLines
  <2>8. HistoryInv'
    <3>1. \A id \in sent : id <= request_id_counter /\ id \in Int
      BY LinkAssumption DEF LinkFacts, HistoryInv, LinkScalarsOK, Id
    <3>2. request_id_counter \in Int /\ next_id \in Int
      BY <2>2, LinkAssumption DEF LinkFacts, LinkScalarsOK, Id
    <3>3. \A id \in sent : id <= next_id
      BY <2>2, <3>1, <3>2
    <3> QED BY <2>1, <2>2, <3>3 DEF LinkFacts, HistoryInv
  <2> QED BY <2>3, <2>5, <2>7, <2>8 DEF LinkFacts
<1>2. CASE ConnectionMadeAgain \/ ConnectionFailed \/ Retry
  <2>1. UNCHANGED ucpVars
    BY <1>2 DEF ConnectionMadeAgain, ConnectionFailed, Retry, ucpVars
  <2> QED BY <2>1, StutterKeepsLink
<1>3. CASE ConnectionLost \/ RejectJob
  <2>1. /\ to_core' = <<>> /\ from_core' = <<>> /\ core' = "new"
        /\ UNCHANGED <<on_connected, request_id_counter, requests, jobs_sent,
                       job, sent, answered, reported>>
    BY <1>3 DEF ConnectionLost, RejectJob, Drop
  <2>2. LinkScalarsOK' /\ HistoryInv'
    BY <2>1 DEF LinkFacts, LinkScalarsOK, HistoryInv
  <2>3. QueuesOK'
    <3>1. <<>> \in Seq(Reply) /\ <<>> \in Seq(Command)
      OBVIOUS
    <3> QED BY <2>1, <3>1 DEF QueuesOK
  <2>4. LinesInv'
    BY <2>1, NewLines
  <2> QED BY <2>2, <2>3, <2>4 DEF LinkFacts
<1> QED BY <1>1, <1>2, <1>3

\* The pool reads a line.
LEMMA ReadLineKeepsLink ==
  ASSUME LinkFacts, TypeOK,
         on_auth_success \/ IgnoreLine \/ on_mining_job \/ on_submit_answer
  PROVE  LinkFacts'
<1>1. /\ from_core # <<>> /\ from_core' = Tail(from_core)
      /\ UNCHANGED <<link, on_connected, core, jobs_sent, requests, sent>>
  BY DEF on_auth_success, IgnoreLine, on_mining_job, on_submit_answer, Arrives
<1>2. from_core \in Seq(Reply) /\ to_core \in Seq(Command)
  BY DEF TypeOK
<1>3. /\ Head(from_core) = from_core[1] /\ Head(from_core) \in Reply
      /\ 1 \in 1..Len(from_core) /\ from_core' \in Seq(Reply)
      /\ \A i \in 1..Len(from_core') :
           i + 1 \in 1..Len(from_core) /\ from_core'[i] = from_core[i + 1]
  BY <1>1, <1>2, TailShifts
<1>4. CASE on_auth_success
  <2>1. /\ TakeRequestId
        /\ \/ to_core' = to_core
           \/ to_core' = Append(to_core, [command |-> "MINING_SUBSCRIBE", id |-> next_id])
        /\ UNCHANGED <<job, answered, reported>>
    BY <1>4 DEF on_auth_success, subscribe, written
  <2>2. /\ next_id \in Id /\ request_id_counter' = next_id
        /\ request_id_counter' \in 0..MaxRequests
        /\ request_id_counter < next_id
    BY <2>1, FreshId
  <2> DEFINE command == [command |-> "MINING_SUBSCRIBE", id |-> next_id]
  <2>3. command \in Command /\ ~IsSubmit(command)
    BY <2>2 DEF Command, IsSubmit
  <2>4. \/ to_core' = to_core
        \/ to_core' = Append(to_core, command)
    BY <2>1
  <2> HIDE DEF command
  <2>5. LinesInv'
    <3>1. LinesInv
      BY DEF LinkFacts
    <3>2. UNCHANGED <<answered, jobs_sent>> /\ sent \subseteq sent'
      BY <1>1, <2>1
    <3> QED BY <1>3, <2>3, <2>4, <3>1, <3>2, CommandAppended
  <2>6. QueuesOK'
    <3>1. to_core' \in Seq(Command)
      BY <1>2, <2>3, <2>4, AppendExtends
    <3> QED BY <1>3, <3>1 DEF QueuesOK
  <2>7. LinkScalarsOK'
    BY <1>1, <2>1, <2>2 DEF LinkFacts, LinkScalarsOK
  <2>8. HistoryInv'
    <3>1. \A id \in sent : id <= request_id_counter /\ id \in Int
      BY LinkAssumption DEF LinkFacts, HistoryInv, LinkScalarsOK, Id
    <3>2. request_id_counter \in Int /\ next_id \in Int
      BY <2>2, LinkAssumption DEF LinkFacts, LinkScalarsOK, Id
    <3>3. \A id \in sent : id <= next_id
      BY <2>2, <3>1, <3>2
    <3> QED BY <1>1, <2>1, <2>2, <3>3 DEF LinkFacts, HistoryInv
  <2> QED BY <2>5, <2>6, <2>7, <2>8 DEF LinkFacts
<1>5. CASE IgnoreLine \/ on_mining_job
  <2>1. /\ UNCHANGED <<request_id_counter, to_core, answered, reported>>
        /\ \/ job' = job
           \/ job' = Head(from_core).id /\ Head(from_core).command = "MINING_JOB"
    BY <1>5 DEF IgnoreLine, on_mining_job, Arrives
  <2>2. LinesInv'
    <3>1. LinesInv
      BY DEF LinkFacts
    <3> QED BY <1>1, <1>3, <2>1, <3>1, LineRead
  <2>3. QueuesOK' /\ HistoryInv'
    BY <1>1, <1>2, <1>3, <2>1 DEF LinkFacts, QueuesOK, HistoryInv
  <2>4. job' \in 0..jobs_sent
    <3>1. ASSUME Head(from_core).command = "MINING_JOB"
          PROVE  Head(from_core).id \in 0..jobs_sent
      <4>1. Head(from_core).id <= jobs_sent
        BY <1>3, <3>1 DEF LinkFacts, LinesInv, LinesMatter
      <4>2. Head(from_core).id \in 1..MaxJobs
        BY <1>3, <3>1 DEF Reply
      <4>3. jobs_sent \in Int
        BY LinkAssumption DEF LinkFacts, LinkScalarsOK
      <4> QED BY <4>1, <4>2, <4>3, LinkAssumption
    <3> QED BY <2>1, <3>1 DEF LinkFacts, LinkScalarsOK
  <2>5. LinkScalarsOK'
    BY <1>1, <2>1, <2>4 DEF LinkFacts, LinkScalarsOK
  <2> QED BY <2>2, <2>3, <2>5 DEF LinkFacts
<1>6. CASE on_submit_answer
  <2> DEFINE id == Head(from_core).id
  <2>1. /\ IsAnswer(Head(from_core))
        /\ answered' = answered \cup {id}
        /\ reported' \subseteq reported \cup {id}
        /\ reported \subseteq reported'
        /\ UNCHANGED <<request_id_counter, to_core, job>>
    BY <1>6 DEF on_submit_answer, Arrives, IsAnswer
  <2>2. LinesInv' /\ id \in sent
    <3>1. LinesInv
      BY DEF LinkFacts
    <3> QED BY <1>1, <2>1, <3>1, AnswerRead
  <2> HIDE DEF id
  <2>3. id \in Id
    BY <2>2 DEF LinkFacts, LinkScalarsOK
  <2>4. QueuesOK'
    BY <1>2, <1>3, <2>1 DEF QueuesOK
  <2>5. LinkScalarsOK'
    BY <1>1, <2>1, <2>3 DEF LinkFacts, LinkScalarsOK
  <2>6. HistoryInv'
    BY <1>1, <2>1, <2>2 DEF LinkFacts, HistoryInv
  <2> QED BY <2>2, <2>4, <2>5, <2>6 DEF LinkFacts
<1> QED BY <1>4, <1>5, <1>6

\* A solved block is sent, under an id no line carries.
LEMMA SubmitKeepsLink ==
  ASSUME LinkFacts, TypeOK, submit_share
  PROVE  LinkFacts'
<1>1. /\ TakeRequestId
      /\ requests' = requests \cup {next_id}
      /\ to_core' = IF link = "up"
                    THEN Append(to_core, [command |-> "MINING_SUBMIT", id |-> next_id])
                    ELSE to_core
      /\ sent' = sent \cup {i \in {next_id} : link = "up"}
      /\ UNCHANGED <<on_connected, from_core, core, jobs_sent, job, answered, reported>>
  BY DEF submit_share, submit_id
<1>2. /\ next_id \in Id /\ request_id_counter' = next_id
      /\ request_id_counter' \in 0..MaxRequests
      /\ request_id_counter < next_id
  BY <1>1, FreshId
<1> DEFINE command == [command |-> "MINING_SUBMIT", id |-> next_id]
<1>3. command \in Command /\ command.id = next_id
  BY <1>2 DEF Command
<1>4. \/ to_core' = to_core
      \/ to_core' = Append(to_core, command) /\ next_id \in sent'
  BY <1>1
<1> HIDE DEF command
<1>5. from_core \in Seq(Reply) /\ to_core \in Seq(Command)
  BY DEF TypeOK
<1>6. \A id \in sent : id <= request_id_counter /\ id \in Int
  BY LinkAssumption DEF LinkFacts, HistoryInv, LinkScalarsOK, Id
<1>7. request_id_counter \in Int /\ next_id \in Int
  BY <1>2, LinkAssumption DEF LinkFacts, LinkScalarsOK, Id
<1>8. next_id \notin sent
  BY <1>2, <1>6, <1>7
<1>9. LinesInv'
  <2>1. LinesInv
    BY DEF LinkFacts
  <2>2. /\ \A i \in 1..Len(to_core) : IsSubmit(to_core[i]) => to_core[i].id # command.id
        /\ \A i \in 1..Len(from_core) : IsAnswer(from_core[i]) => from_core[i].id # command.id
    BY <1>3, <1>8, <2>1 DEF LinesInv, LinesMatter
  <2>3. next_id \notin answered
    BY <1>8 DEF LinkFacts, HistoryInv
  <2>4. to_core' # to_core => command.id \in sent' \ answered
    BY <1>3, <1>4, <2>3
  <2>5. \A i \in 1..Len(from_core') :
          i + 0 \in 1..Len(from_core) /\ from_core'[i] = from_core[i + 0]
    BY <1>1, <1>5
  <2>6. from_core' \in Seq(Reply) /\ UNCHANGED <<answered, jobs_sent>> /\ sent \subseteq sent'
    BY <1>1, <1>5
  <2>7. \/ to_core' = to_core
        \/ to_core' = Append(to_core, command)
    BY <1>4
  <2> QED BY <1>3, <2>1, <2>2, <2>4, <2>5, <2>6, <2>7, CommandAppended
<1>10. QueuesOK'
  <2>1. to_core' \in Seq(Command)
    BY <1>3, <1>4, <1>5, AppendExtends
  <2> QED BY <1>1, <1>5, <2>1 DEF QueuesOK
<1>11. LinkScalarsOK'
  BY <1>1, <1>2 DEF LinkFacts, LinkScalarsOK
<1>12. HistoryInv'
  <2>1. \A id \in sent' : id <= next_id
    BY <1>1, <1>2, <1>6, <1>7
  <2> QED BY <1>1, <1>2, <2>1 DEF LinkFacts, HistoryInv
<1> QED BY <1>9, <1>10, <1>11, <1>12 DEF LinkFacts

\* NodeCore reads a command, and may answer it.
LEMMA CoreReadsKeepsLink ==
  ASSUME LinkFacts, TypeOK, CoreReads
  PROVE  LinkFacts'
<1>1. /\ to_core # <<>> /\ to_core' = Tail(to_core)
      /\ core' \in {core, "auth", "subscribed"}
      /\ UNCHANGED <<on_connected, request_id_counter, requests, jobs_sent,
                     job, sent, answered, reported>>
  BY DEF CoreReads, CoreAuth, CoreRefuse, CoreSubscribe, CoreAnswer, Receives
<1>2. from_core \in Seq(Reply) /\ to_core \in Seq(Command) /\ LinesInv
  BY DEF TypeOK, LinkFacts
<1>3. /\ Head(to_core) = to_core[1] /\ Head(to_core) \in Command
      /\ 1 \in 1..Len(to_core) /\ to_core' \in Seq(Command)
      /\ \A i \in 1..Len(to_core') :
           i + 1 \in 1..Len(to_core) /\ to_core'[i] = to_core[i + 1]
  BY <1>1, <1>2, TailShifts
<1>4. Head(to_core).id \in Id
  BY <1>3 DEF Command
<1>5. LinkScalarsOK' /\ HistoryInv'
  BY <1>1 DEF LinkFacts, LinkScalarsOK, HistoryInv
<1>6. jobs_sent' \in Nat /\ jobs_sent \in Nat /\ jobs_sent <= jobs_sent'
  BY <1>1, LinkAssumption DEF LinkFacts, LinkScalarsOK
<1>7. ASSUME NEW reply \in Reply, from_core' = Append(from_core, reply),
             reply.command # "MINING_JOB", reply.id = Head(to_core).id,
             IsAnswer(reply) => IsSubmit(Head(to_core))
      PROVE  LinesInv' /\ QueuesOK'
  <2>1. ASSUME IsAnswer(reply)
        PROVE  /\ reply.id \in sent \ answered
               /\ \A i \in 1..Len(from_core) : IsAnswer(from_core[i]) => from_core[i].id # reply.id
               /\ \A i \in 1..Len(to_core') : IsSubmit(to_core'[i]) => to_core'[i].id # reply.id
    <3>1. IsSubmit(to_core[1]) /\ reply.id = to_core[1].id
      BY <1>3, <1>7, <2>1
    <3>2. reply.id \in sent \ answered
      BY <1>2, <1>3, <3>1 DEF LinesInv, LinesMatter
    <3>3. \A i \in 1..Len(from_core) : IsAnswer(from_core[i]) => from_core[i].id # reply.id
      BY <1>2, <1>3, <3>1 DEF LinesInv, OneLineEach
    <3>4. ASSUME NEW i \in 1..Len(to_core'), IsSubmit(to_core'[i])
          PROVE  to_core'[i].id # reply.id
      <4>1. i + 1 # 1 /\ i + 1 \in 1..Len(to_core) /\ to_core'[i] = to_core[i + 1]
        BY <1>3
      <4> QED BY <1>2, <1>3, <3>1, <3>4, <4>1 DEF LinesInv, OneLineEach
    <3> QED BY <3>2, <3>3, <3>4
  <2>2. UNCHANGED <<sent, answered>>
    BY <1>1
  <2>3. LinesInv'
    BY <1>2, <1>3, <1>6, <1>7, <2>1, <2>2, ReplyAppended
  <2>4. from_core' \in Seq(Reply)
    BY <1>2, <1>7, AppendExtends
  <2> QED BY <1>3, <2>3, <2>4 DEF QueuesOK
<1>8. CASE CoreSubscribe
  <2>1. from_core' = from_core
    BY <1>8 DEF CoreSubscribe
  <2>2. LinesInv'
    BY <1>1, <1>2, <1>3, <2>1, CommandRead
  <2> QED BY <1>2, <1>3, <1>5, <2>1, <2>2 DEF LinkFacts, QueuesOK
<1>9. ASSUME NEW command \in {"MINING_AUTH_SUCCESS", "MINING_AUTH_FAILURE",
                              "MINING_SUBMIT_SUCCESS", "MINING_SUBMIT_FAILURE"},
             Replies(command),
             command \in {"MINING_SUBMIT_SUCCESS", "MINING_SUBMIT_FAILURE"}
               => Head(to_core).command = "MINING_SUBMIT"
      PROVE  LinesInv' /\ QueuesOK'
  <2> DEFINE reply == [command |-> command, id |-> Head(to_core).id]
  <2>1. reply \in Reply
    BY <1>4 DEF Reply
  <2>2. from_core' = Append(from_core, reply)
    BY <1>9 DEF Replies
  <2>3. /\ reply.command # "MINING_JOB" /\ reply.id = Head(to_core).id
        /\ IsAnswer(reply) => IsSubmit(Head(to_core))
    BY <1>9 DEF IsAnswer, IsSubmit
  <2> HIDE DEF reply
  <2> QED BY <1>7, <2>1, <2>2, <2>3
<1>10. CASE CoreAuth
  <2>1. Replies("MINING_AUTH_SUCCESS")
    BY <1>10 DEF CoreAuth
  <2> QED BY <1>5, <1>9, <2>1 DEF LinkFacts
<1>11. CASE CoreRefuse
  <2>1. Replies("MINING_AUTH_FAILURE")
    BY <1>11 DEF CoreRefuse
  <2> QED BY <1>5, <1>9, <2>1 DEF LinkFacts
<1>12. CASE CoreAnswer
  <2>1. /\ Head(to_core).command = "MINING_SUBMIT"
        /\ Replies("MINING_SUBMIT_SUCCESS") \/ Replies("MINING_SUBMIT_FAILURE")
    BY <1>12 DEF CoreAnswer, Receives
  <2> QED BY <1>5, <1>9, <2>1 DEF LinkFacts
<1> QED BY <1>8, <1>10, <1>11, <1>12 DEF CoreReads

\* NodeCore sends a job.
LEMMA CoreJobKeepsLink ==
  ASSUME LinkFacts, TypeOK, CoreJob
  PROVE  LinkFacts'
<1> DEFINE reply == [command |-> "MINING_JOB", id |-> jobs_sent + 1]
<1>1. /\ jobs_sent < MaxJobs /\ jobs_sent' = jobs_sent + 1
      /\ from_core' = Append(from_core, reply)
      /\ UNCHANGED <<on_connected, request_id_counter, requests, to_core, core,
                     job, sent, answered, reported>>
  BY DEF CoreJob
<1>2. from_core \in Seq(Reply) /\ to_core \in Seq(Command) /\ LinesInv
  BY DEF TypeOK, LinkFacts
<1>3. jobs_sent \in 0..MaxJobs /\ job \in 0..jobs_sent
  BY DEF LinkFacts, LinkScalarsOK
<1>4. jobs_sent' \in 0..MaxJobs /\ job' \in 0..jobs_sent' /\ jobs_sent + 1 \in 1..MaxJobs
  BY <1>1, <1>3, LinkAssumption
<1>5. /\ reply \in Reply /\ reply.id <= jobs_sent' /\ ~IsAnswer(reply)
  BY <1>1, <1>3, <1>4, LinkAssumption DEF Reply, IsAnswer
<1> HIDE DEF reply
<1>6. \A i \in 1..Len(to_core') :
        i + 0 \in 1..Len(to_core) /\ to_core'[i] = to_core[i + 0]
  BY <1>1, <1>2
<1>7. jobs_sent' \in Nat /\ jobs_sent <= jobs_sent'
  BY <1>1, <1>3, <1>4, LinkAssumption
<1>8. UNCHANGED <<sent, answered>> /\ to_core' \in Seq(Command)
  BY <1>1, <1>2
<1>9. LinesInv'
  BY <1>1, <1>2, <1>5, <1>6, <1>7, <1>8, ReplyAppended
<1>10. QueuesOK'
  <2>1. from_core' \in Seq(Reply)
    BY <1>1, <1>2, <1>5, AppendExtends
  <2> QED BY <1>8, <2>1 DEF QueuesOK
<1>11. LinkScalarsOK' /\ HistoryInv'
  BY <1>1, <1>4 DEF LinkFacts, LinkScalarsOK, HistoryInv
<1> QED BY <1>9, <1>10, <1>11 DEF LinkFacts

-----------------------------------------------------------------------------
(* Theorems *)

LEMMA LinkStepKeepsInv == LinkInv /\ [Next]_<<startupVars, linkVars>> => LinkInv'
<1> SUFFICES ASSUME LinkInv, [Next]_<<startupVars, linkVars>>
             PROVE  LinkInv'
  OBVIOUS
<1>1. TypeOK /\ LinkFacts /\ StartupInv
  BY LinkPartsEqual DEF LinkInv, LinkFacts, LinesInv
<1>2. StartupInv' /\ LinkFacts' => LinkInv'
  <2>1. (TypeOK <=> StartupTypeOK /\ LinkScalarsOK /\ QueuesOK)'
    BY LinkPartsEqual, PTL
  <2> QED BY <2>1 DEF LinkInv, LinkFacts, LinesInv, StartupInv
<1>3. CASE UNCHANGED <<startupVars, linkVars>>
  <2>1. UNCHANGED startupVars /\ link' = link /\ UNCHANGED ucpVars
    BY <1>3 DEF linkVars
  <2>2. StartupInv'
    BY <1>1, <2>1, LinkKeepsInv
  <2>3. LinkFacts'
    BY <1>1, <2>1, StutterKeepsLink
  <2> QED BY <1>2, <2>2, <2>3
<1>4. CASE Next
  <2>1. StartupInv'
    BY <1>4, LinkStepKeepsStartup
  <2>2. CASE StartupNext /\ UNCHANGED ucpVars
    BY <1>1, <1>2, <2>1, <2>2, StutterKeepsLink
  <2>3. CASE ConnectionMade \/ ConnectionMadeAgain \/ ConnectionFailed
             \/ ConnectionLost \/ Retry \/ RejectJob
    BY <1>1, <1>2, <2>1, <2>3, ConnectionKeepsLink
  <2>4. CASE on_auth_success \/ IgnoreLine \/ on_mining_job \/ on_submit_answer
    BY <1>1, <1>2, <2>1, <2>4, ReadLineKeepsLink
  <2>5. CASE submit_share
    BY <1>1, <1>2, <2>1, <2>5, SubmitKeepsLink
  <2>6. CASE CoreReads
    BY <1>1, <1>2, <2>1, <2>6, CoreReadsKeepsLink
  <2>7. CASE CoreJob
    BY <1>1, <1>2, <2>1, <2>7, CoreJobKeepsLink
  <2>8. ASSUME NEW id \in Id, Collect(id) PROVE LinkInv'
    <3>1. requests' \subseteq requests
      BY <2>8 DEF Collect
    <3>2. UNCHANGED <<on_connected, request_id_counter, to_core, from_core,
                      core, jobs_sent, job, sent, answered, reported>>
      BY <2>8 DEF Collect
    <3>3. LinesInv'
      BY <1>1, <3>2, SameLines DEF LinkFacts
    <3>4. LinkScalarsOK' /\ QueuesOK' /\ HistoryInv'
      BY <1>1, <3>1, <3>2 DEF LinkFacts, LinkScalarsOK, QueuesOK, HistoryInv
    <3> QED BY <1>2, <2>1, <3>3, <3>4 DEF LinkFacts
  <2> QED BY <1>4, <2>2, <2>3, <2>4, <2>5, <2>6, <2>7, <2>8 DEF Next, ReadLine
<1> QED BY <1>3, <1>4

\* The inductive invariant of the pool with its link to NodeCore: how far
\* setup is agrees with what is in place, and every line in flight is about a
\* submit no other line is about.
THEOREM LinkInvariant == Spec => []LinkInv
BY LinkInitInv, LinkStepKeepsInv, PTL DEF Spec

\* Every variable of the start-up and of the link keeps its type: the counter of
\* request ids and the queues of both directions of veriblock_ucp.py among them.
THEOREM LinkTypeCorrect == Spec => []TypeOK
<1>1. LinkInv => TypeOK
  BY DEF LinkInv
<1> QED BY <1>1, LinkInvariant, PTL

\* mining.setup lets no miner in before the managers have loaded and the
\* interfaces are in place, in whatever order managers load and twistd starts
\* the application, for every set of transports settings may enable.
THEOREM ListensOnlyWhenReady == Spec => []ListensWhenReady
<1>1. LinkInv => ListensWhenReady
  <2> SUFFICES ASSUME LinkInv, listening # {}
               PROVE  /\ \A manager \in Manager : on_load[manager] = "loaded"
                      /\ interfaces = Interface
                      /\ link \notin {"none", "stopped"}
    BY DEF ListensWhenReady
  <2>1. link \notin {"none", "stopped"}
    BY DEF LinkInv, StartupInv, RunningListens
  <2> QED BY <2>1 DEF LinkInv, StartupInv, SetupPlace
<1> QED BY <1>1, LinkInvariant, PTL

\* Once its managers have loaded and the application runs, all that
\* setup_finalize attached listens, but for the one whose port is taken.
THEOREM LoadedPoolServes == Spec => []ReadyServes
<1>1. LinkInv => ReadyServes
  BY DEF LinkInv, StartupInv
<1> QED BY <1>1, LinkInvariant, PTL

\* The pool loses NodeCore for good with the first connection: no later one
\* comes up, so no job arrives after it and no block is sent.
FirstConnectionOnly ==
  [][link # "up" /\ on_connected =>
       link' # "up" /\ job' = job /\ sent' = sent]_linkVars

\* connectionMade of veriblock_ucp.py calls on_connected, which can be called
\* once: after the first connection is lost the link never comes up again.
THEOREM FirstConnectionIsTheOnlyOne == Spec => FirstConnectionOnly
<1>1. [Next]_<<startupVars, linkVars>> =>
        [link # "up" /\ on_connected =>
           link' # "up" /\ job' = job /\ sent' = sent]_linkVars
  <2> SUFFICES ASSUME [Next]_<<startupVars, linkVars>>, link # "up", on_connected
               PROVE  (link' # "up" /\ job' = job /\ sent' = sent) \/ UNCHANGED linkVars
    BY DEF linkVars
  <2>1. CASE UNCHANGED <<startupVars, linkVars>>
    BY <2>1
  <2>2. CASE StartupNext /\ UNCHANGED ucpVars
    <3>1. link' # "up"
      BY <2>2 DEF StartupNext, Launch, Load, Continue, Setup, StartApplication, StartFails
    <3> QED BY <2>2, <3>1 DEF ucpVars
  <2>3. CASE ConnectionMade \/ ConnectionMadeAgain \/ ConnectionFailed
             \/ ConnectionLost \/ Retry
    BY <2>3 DEF ConnectionMade, ConnectionMadeAgain, ConnectionFailed, ConnectionLost,
       Retry, first_connection
  <2>4. CASE ReadLine \/ CoreReads \/ CoreJob
    BY <2>4 DEF ReadLine, on_auth_success, IgnoreLine, on_mining_job, RejectJob,
       on_submit_answer, Arrives, CoreReads, CoreAuth, CoreRefuse, CoreSubscribe,
       CoreAnswer, CoreJob, Receives
  <2>5. CASE submit_share \/ \E id \in Id : Collect(id)
    BY <2>5 DEF submit_share, Collect
  <2> QED BY <2>1, <2>2, <2>3, <2>4, <2>5 DEF Next
<1> QED BY <1>1, PTL DEF Spec, FirstConnectionOnly

-----------------------------------------------------------------------------
(* The exchange with NodeCore as a whole: the order of the handshake, that   *)
(* nothing is lost or left out while the link is up, and that the link       *)
(* implements Exchange.                                                      *)

IsJob(reply) == reply.command = "MINING_JOB"

\* Until NodeCore has subscribed the pool one line at most is on the link, the
\* next of the handshake; afterwards only submits, their answers and jobs are.
Handshake ==
  /\ link = "up" /\ core = "new" =>
       \/ /\ Len(to_core) = 1 /\ to_core[1].command = "MINING_AUTH"
          /\ from_core = <<>>
       \/ /\ to_core = <<>>
          /\ \A i \in 1..Len(from_core) : from_core[i].command = "MINING_AUTH_FAILURE"
  /\ core = "auth" =>
       \/ /\ to_core = <<>>
          /\ Len(from_core) = 1 /\ from_core[1].command = "MINING_AUTH_SUCCESS"
       \/ /\ Len(to_core) = 1 /\ to_core[1].command = "MINING_SUBSCRIBE"
          /\ from_core = <<>>
  /\ core = "subscribed" =>
       /\ \A i \in 1..Len(to_core) : IsSubmit(to_core[i])
       /\ \A i \in 1..Len(from_core) : IsJob(from_core[i]) \/ IsAnswer(from_core[i])

\* Where the link is agrees with what has passed over it.
Phases ==
  /\ link # "up" => to_core = <<>> /\ from_core = <<>> /\ core = "new"
  /\ link = "up" => on_connected
  /\ link = "up" /\ core # "subscribed" => jobs_sent = 0 /\ sent = {}
  /\ ~on_connected => jobs_sent = 0 /\ sent = {}

\* The jobs on their way are those after the last one read, all of them while
\* the link is up, in order.
JobsInOrder ==
  /\ \A i, j \in 1..Len(from_core) :
       i < j /\ IsJob(from_core[i]) /\ IsJob(from_core[j])
         => from_core[i].id < from_core[j].id
  /\ \A i \in 1..Len(from_core) : IsJob(from_core[i]) => job < from_core[i].id
  /\ link = "up" =>
       \A n \in 1..jobs_sent : n <= job \/ \E i \in 1..Len(from_core) :
                                           IsJob(from_core[i]) /\ from_core[i].id = n

\* While the link is up a submit without an answer is on its way, or its answer is.
NothingLost ==
  link = "up" =>
    \A id \in sent \ answered :
      \/ \E i \in 1..Len(to_core) : IsSubmit(to_core[i]) /\ to_core[i].id = id
      \/ \E i \in 1..Len(from_core) : IsAnswer(from_core[i]) /\ from_core[i].id = id

ExchangeFacts == Handshake /\ Phases /\ JobsInOrder /\ NothingLost

ExchangeInv == LinkInv /\ ExchangeFacts

-----------------------------------------------------------------------------
(* Queues *)

\* Every line but the head is still there when the head has been read.
LEMMA TailKeeps ==
  ASSUME NEW S, NEW s \in Seq(S), s # <<>>
  PROVE  \A i \in 1..Len(s) : i # 1 => i - 1 \in 1..Len(Tail(s)) /\ Tail(s)[i - 1] = s[i]
<1>1. Len(Tail(s)) = Len(s) - 1 /\ Len(s) \in Nat /\ Len(s) # 0
  BY HeadTailProperties
<1>2. \A j \in 1..Len(Tail(s)) : Tail(s)[j] = s[j + 1]
  BY TailShifts
<1> SUFFICES ASSUME NEW i \in 1..Len(s), i # 1
             PROVE  i - 1 \in 1..Len(Tail(s)) /\ Tail(s)[i - 1] = s[i]
  OBVIOUS
<1>3. i - 1 \in 1..Len(Tail(s)) /\ (i - 1) + 1 = i
  BY <1>1
<1> QED BY <1>2, <1>3

\* A queue with one line is empty once that line has been read.
LEMMA TailOfOne ==
  ASSUME NEW S, NEW s \in Seq(S), Len(s) = 1
  PROVE  Tail(s) = <<>> /\ s # <<>>
<1>1. s # <<>>
  OBVIOUS
<1>2. Tail(s) \in Seq(S) /\ Len(Tail(s)) = 0
  BY <1>1, HeadTailProperties
<1> QED BY <1>1, <1>2, EmptySeq

\* The first line written to an empty queue.
LEMMA AppendToEmpty ==
  ASSUME NEW e
  PROVE  Len(Append(<<>>, e)) = 1 /\ Append(<<>>, e)[1] = e
OBVIOUS

-----------------------------------------------------------------------------
(* The steps of the start-up and of the connection *)

LEMMA ExchangeInit == Init => ExchangeFacts
<1> SUFFICES ASSUME Init PROVE ExchangeFacts
  OBVIOUS
<1>1. /\ to_core = <<>> /\ from_core = <<>> /\ core = "new" /\ link = "none"
      /\ sent = {} /\ jobs_sent = 0
  BY DEF Init, StartupInit
<1>2. Len(from_core) = 0
  BY <1>1
<1>3. Handshake /\ Phases
  BY <1>1 DEF Handshake, Phases
<1>4. JobsInOrder /\ NothingLost
  BY <1>1, <1>2 DEF JobsInOrder, NothingLost
<1> QED BY <1>3, <1>4 DEF ExchangeFacts

\* The start-up never brings the link up and never takes it down.
LEMMA StartupLeavesLink ==
  ASSUME LinkInv, StartupNext
  PROVE  \/ link' = link
         \/ link \notin {"up", "stopped"} /\ link' = "stopped"
         \/ link = "none" /\ link' = "connecting"
<1>1. StartupInv
  BY DEF LinkInv
<1>2. CASE Launch
  <2>1. link = "none"
    BY <1>1, <1>2 DEF Launch, StartupInv, SetupPlace
  <2>2. link' = link \/ link' = "connecting"
    BY <1>2 DEF Launch, Continue, Setup
  <2> QED BY <2>1, <2>2
<1>3. CASE \E manager \in Manager, result \in {"loaded", "failed"} : Load(manager, result)
  <2>1. PICK manager \in Manager, result \in {"loaded", "failed"} : Load(manager, result)
    BY <1>3
  <2>2. CASE setup_at = manager
    <3>1. setup_at # "ready"
      BY <2>2 DEF Manager
    <3>2. link = "none"
      BY <1>1, <3>1 DEF StartupInv, SetupPlace
    <3>3. link' = link \/ link' = "connecting"
      BY <2>1, <2>2 DEF Load, Continue, Setup
    <3> QED BY <3>2, <3>3
  <2>3. CASE setup_at # manager
    BY <2>1, <2>3 DEF Load
  <2> QED BY <2>2, <2>3
<1>4. CASE StartApplication
  BY <1>4 DEF StartApplication
<1>5. CASE StartFails
  BY <1>1, <1>5 DEF StartFails, StartupInv, RunningListens
<1> QED BY <1>2, <1>3, <1>4, <1>5 DEF StartupNext

\* Steps that touch nothing the exchange is made of.
LEMMA SameExchange ==
  ASSUME ExchangeFacts,
         UNCHANGED <<on_connected, to_core, from_core, core, jobs_sent, job, sent, answered>>,
         link' = link \/ (link # "up" /\ link' # "up")
  PROVE  ExchangeFacts'
<1>1. Handshake'
  BY DEF ExchangeFacts, Handshake, IsSubmit, IsAnswer, IsJob
<1>2. Phases'
  BY DEF ExchangeFacts, Phases
<1>3. JobsInOrder'
  BY DEF ExchangeFacts, JobsInOrder, IsJob
<1>4. NothingLost'
  BY DEF ExchangeFacts, NothingLost, IsSubmit, IsAnswer
<1> QED BY <1>1, <1>2, <1>3, <1>4 DEF ExchangeFacts

LEMMA ConnectionKeepsExchange ==
  ASSUME LinkInv, ExchangeFacts,
         \/ ConnectionMade \/ ConnectionMadeAgain \/ ConnectionFailed
         \/ ConnectionLost \/ RejectJob \/ Retry
  PROVE  ExchangeFacts'
<1>1. CASE ConnectionMade
  <2>1. /\ ~on_connected /\ on_connected' = TRUE /\ link' = "up" /\ core' = "new"
        /\ to_core' = <<[command |-> "MINING_AUTH", id |-> next_id]>>
        /\ from_core' = <<>>
        /\ UNCHANGED <<jobs_sent, job, sent, answered>>
    BY <1>1 DEF ConnectionMade, first_connection
  <2>2. jobs_sent' = 0 /\ sent' = {}
    BY <2>1 DEF ExchangeFacts, Phases
  <2>3. Len(to_core') = 1 /\ to_core'[1].command = "MINING_AUTH"
    BY <2>1
  <2>4. \A i \in 1..Len(from_core') : FALSE
    BY <2>1
  <2>5. Handshake'
    BY <2>1, <2>3 DEF Handshake
  <2>6. Phases'
    BY <2>1, <2>2 DEF Phases
  <2>7. JobsInOrder'
    BY <2>2, <2>4 DEF JobsInOrder
  <2>8. NothingLost'
    BY <2>2 DEF NothingLost
  <2> QED BY <2>5, <2>6, <2>7, <2>8 DEF ExchangeFacts
<1>2. CASE ConnectionMadeAgain \/ ConnectionFailed \/ Retry
  <2>1. /\ UNCHANGED <<on_connected, to_core, from_core, core, jobs_sent, job, sent, answered>>
        /\ link # "up" /\ link' # "up"
    BY <1>2 DEF ConnectionMadeAgain, ConnectionFailed, Retry
  <2> QED BY <2>1, SameExchange
<1>3. CASE ConnectionLost \/ RejectJob
  <2>1. /\ link = "up" /\ link' = "down" /\ core' = "new"
        /\ to_core' = <<>> /\ from_core' = <<>>
        /\ UNCHANGED on_connected
    BY <1>3 DEF ConnectionLost, RejectJob, Drop, Arrives
  <2>2. \A i \in 1..Len(from_core') : FALSE
    BY <2>1
  <2>3. on_connected
    BY <2>1 DEF ExchangeFacts, Phases
  <2>4. Handshake' /\ Phases'
    BY <2>1, <2>3 DEF Handshake, Phases
  <2>5. JobsInOrder' /\ NothingLost'
    BY <2>1, <2>2 DEF JobsInOrder, NothingLost
  <2> QED BY <2>4, <2>5 DEF ExchangeFacts
<1> QED BY <1>1, <1>2, <1>3

-----------------------------------------------------------------------------
(* The pool reads and writes *)

\* The facts the steps below share, about a line that is there to be read.
LEMMA HeadOfLink ==
  ASSUME LinkInv, from_core # <<>>, from_core' = Tail(from_core)
  PROVE  /\ Head(from_core) = from_core[1] /\ Head(from_core) \in Reply
         /\ 1 \in 1..Len(from_core) /\ Len(from_core) \in Nat /\ Len(from_core') \in Nat
         /\ from_core' \in Seq(Reply)
         /\ \A i \in 1..Len(from_core') :
              /\ i + 1 \in 1..Len(from_core) /\ i + 1 # 1
              /\ from_core'[i] = from_core[i + 1]
         /\ \A i \in 1..Len(from_core) :
              i # 1 => i - 1 \in 1..Len(from_core') /\ from_core'[i - 1] = from_core[i]
<1>1. from_core \in Seq(Reply)
  BY DEF LinkInv, TypeOK
<1>2. Len(from_core) \in Nat /\ Len(Tail(from_core)) \in Nat
  BY <1>1, TailShifts
<1>3. \A i \in 1..Len(from_core') : i + 1 # 1
  BY <1>2
<1> QED BY <1>1, <1>2, <1>3, TailShifts, TailKeeps

LEMMA SubmittedIds ==
  ASSUME LinkInv
  PROVE  /\ sent \subseteq Id /\ answered \subseteq sent /\ reported \subseteq answered
         /\ to_core \in Seq(Command) /\ from_core \in Seq(Reply)
         /\ jobs_sent \in Nat /\ job \in Nat /\ job <= jobs_sent
         /\ \A id \in Id : id \in Int
BY LinkAssumption DEF LinkInv, TypeOK, HistoryInv, Id

\* What remains is still in order when a line has been read.
LEMMA TailKeepsJobs ==
  ASSUME LinkInv, JobsInOrder, from_core # <<>>, from_core' = Tail(from_core),
         UNCHANGED <<link, jobs_sent>>,
         \/ ~IsJob(Head(from_core)) /\ job' = job
         \/ IsJob(Head(from_core)) /\ job' = Head(from_core).id
  PROVE  JobsInOrder'
<1>1. /\ Head(from_core) = from_core[1] /\ Head(from_core) \in Reply
      /\ 1 \in 1..Len(from_core) /\ Len(from_core) \in Nat /\ Len(from_core') \in Nat
      /\ \A i \in 1..Len(from_core') :
           /\ i + 1 \in 1..Len(from_core) /\ i + 1 # 1
           /\ from_core'[i] = from_core[i + 1]
      /\ \A i \in 1..Len(from_core) :
           i # 1 => i - 1 \in 1..Len(from_core') /\ from_core'[i - 1] = from_core[i]
  BY HeadOfLink
<1>2. job \in Int /\ jobs_sent \in Int
  BY SubmittedIds
<1>3. ASSUME NEW i \in 1..Len(from_core'), NEW j \in 1..Len(from_core'), i < j,
             IsJob(from_core'[i]), IsJob(from_core'[j])
      PROVE  from_core'[i].id < from_core'[j].id
  <2>1. i + 1 < j + 1
    BY <1>1, <1>3
  <2> QED BY <1>1, <1>3, <2>1 DEF JobsInOrder
<1>4. ASSUME NEW i \in 1..Len(from_core'), IsJob(from_core'[i])
      PROVE  job' < from_core'[i].id
  <2>1. IsJob(from_core[i + 1]) /\ i + 1 \in 1..Len(from_core) /\ 1 < i + 1
    BY <1>1, <1>4
  <2>2. CASE job' = job
    BY <1>1, <2>1, <2>2 DEF JobsInOrder
  <2>3. CASE IsJob(Head(from_core)) /\ job' = Head(from_core).id
    BY <1>1, <2>1, <2>3 DEF JobsInOrder
  <2> QED BY <2>2, <2>3
<1>5. ASSUME link = "up", NEW n \in 1..jobs_sent
      PROVE  n <= job' \/ \E i \in 1..Len(from_core') :
                            IsJob(from_core'[i]) /\ from_core'[i].id = n
  <2>1. CASE n <= job
    <3>1. CASE job' = job
      BY <2>1, <3>1
    <3>2. CASE IsJob(Head(from_core)) /\ job' = Head(from_core).id
      <4>1. job < job'
        BY <1>1, <3>2 DEF JobsInOrder
      <4>2. job' \in Int
        BY <1>1, <3>2, LinkAssumption DEF Reply, IsJob, Id
      <4> QED BY <1>2, <2>1, <4>1, <4>2
    <3> QED BY <3>1, <3>2
  <2>2. CASE ~(n <= job)
    <3>1. PICK i \in 1..Len(from_core) : IsJob(from_core[i]) /\ from_core[i].id = n
      BY <1>5, <2>2 DEF JobsInOrder
    <3>2. CASE i = 1
      <4>1. job' = n
        BY <1>1, <3>1, <3>2
      <4> QED BY <4>1
    <3>3. CASE i # 1
      BY <1>1, <3>1, <3>3
    <3> QED BY <3>2, <3>3
  <2> QED BY <2>1, <2>2
<1>6. /\ \A i, j \in 1..Len(from_core') :
           i < j /\ IsJob(from_core'[i]) /\ IsJob(from_core'[j])
             => from_core'[i].id < from_core'[j].id
      /\ \A i \in 1..Len(from_core') : IsJob(from_core'[i]) => job' < from_core'[i].id
      /\ link' = "up" =>
           \A n \in 1..jobs_sent' : n <= job' \/ \E i \in 1..Len(from_core') :
                                    IsJob(from_core'[i]) /\ from_core'[i].id = n
  BY <1>3, <1>4, <1>5
<1> QED BY <1>6 DEF JobsInOrder, IsJob

\* The handshake: MINING_AUTH_SUCCESS is the only line, and MINING_SUBSCRIBE
\* takes its place.
LEMMA AuthSuccessKeepsExchange ==
  ASSUME LinkInv, ExchangeFacts, on_auth_success
  PROVE  ExchangeFacts'
<1>1. /\ link = "up" /\ from_core # <<>> /\ Head(from_core).command = "MINING_AUTH_SUCCESS"
      /\ to_core' = Append(to_core, [command |-> "MINING_SUBSCRIBE", id |-> next_id])
      /\ from_core' = Tail(from_core)
      /\ UNCHANGED <<link, on_connected, core, jobs_sent, job, sent, answered>>
  BY DEF on_auth_success, Arrives, subscribe, written
<1>2. Head(from_core) = from_core[1] /\ 1 \in 1..Len(from_core) /\ from_core \in Seq(Reply)
  BY <1>1, HeadOfLink DEF LinkInv, TypeOK
<1>3. core = "auth"
  <2>1. core # "subscribed"
    BY <1>1, <1>2 DEF ExchangeFacts, Handshake, IsJob, IsAnswer
  <2>2. core # "new"
    BY <1>1, <1>2 DEF ExchangeFacts, Handshake
  <2>3. core \in {"new", "auth", "subscribed"}
    BY DEF LinkInv, TypeOK
  <2> QED BY <2>1, <2>2, <2>3
<1>4. to_core = <<>> /\ Len(from_core) = 1
  BY <1>1, <1>3 DEF ExchangeFacts, Handshake
<1>5. from_core' = <<>>
  BY <1>1, <1>2, <1>4, TailOfOne
<1>6. Len(to_core') = 1 /\ to_core'[1].command = "MINING_SUBSCRIBE"
  BY <1>1, <1>4, AppendToEmpty
<1>7. jobs_sent' = 0 /\ sent' = {}
  BY <1>1, <1>3 DEF ExchangeFacts, Phases
<1>8. \A i \in 1..Len(from_core') : FALSE
  BY <1>5
<1>9. Handshake'
  BY <1>1, <1>3, <1>5, <1>6 DEF Handshake
<1>10. Phases'
  BY <1>1, <1>7 DEF ExchangeFacts, Phases
<1>11. JobsInOrder' /\ NothingLost'
  BY <1>7, <1>8 DEF JobsInOrder, NothingLost
<1> QED BY <1>9, <1>10, <1>11 DEF ExchangeFacts

LEMMA ReadKeepsExchange ==
  ASSUME LinkInv, ExchangeFacts, IgnoreLine \/ on_mining_job \/ on_submit_answer
  PROVE  ExchangeFacts'
<1>1. /\ link = "up" /\ from_core # <<>> /\ from_core' = Tail(from_core)
      /\ Head(from_core).command \in {"MINING_AUTH_FAILURE", "MINING_JOB",
                                      "MINING_SUBMIT_SUCCESS", "MINING_SUBMIT_FAILURE"}
      /\ UNCHANGED <<link, on_connected, core, to_core, jobs_sent, sent>>
      /\ \/ ~IsJob(Head(from_core)) /\ job' = job
         \/ IsJob(Head(from_core)) /\ job' = Head(from_core).id
      /\ \/ ~IsAnswer(Head(from_core)) /\ answered' = answered
         \/ IsAnswer(Head(from_core)) /\ answered' = answered \cup {Head(from_core).id}
  BY DEF IgnoreLine, on_mining_job, on_submit_answer, Arrives, IsJob, IsAnswer
<1>2. /\ Head(from_core) = from_core[1] /\ Head(from_core) \in Reply
      /\ 1 \in 1..Len(from_core) /\ Len(from_core) \in Nat /\ Len(from_core') \in Nat
      /\ \A i \in 1..Len(from_core') :
           /\ i + 1 \in 1..Len(from_core) /\ i + 1 # 1
           /\ from_core'[i] = from_core[i + 1]
      /\ \A i \in 1..Len(from_core) :
           i # 1 => i - 1 \in 1..Len(from_core') /\ from_core'[i - 1] = from_core[i]
  BY <1>1, HeadOfLink
<1>3. core # "auth"
  BY <1>1, <1>2 DEF ExchangeFacts, Handshake
<1>4. Handshake'
  <2>1. core' = "new" =>
          /\ to_core' = <<>>
          /\ \A i \in 1..Len(from_core') : from_core'[i].command = "MINING_AUTH_FAILURE"
    BY <1>1, <1>2 DEF ExchangeFacts, Handshake
  <2>2. core' = "subscribed" =>
          /\ \A i \in 1..Len(to_core') : IsSubmit(to_core'[i])
          /\ \A i \in 1..Len(from_core') : IsJob(from_core'[i]) \/ IsAnswer(from_core'[i])
    BY <1>1, <1>2 DEF ExchangeFacts, Handshake
  <2> QED BY <1>1, <1>3, <2>1, <2>2 DEF Handshake, IsSubmit, IsAnswer, IsJob
<1>5. Phases'
  BY <1>1 DEF ExchangeFacts, Phases
<1>6. JobsInOrder'
  BY <1>1, TailKeepsJobs DEF ExchangeFacts
<1>7. NothingLost'
  <2>1. ASSUME NEW id \in sent \ answered', ~(\E i \in 1..Len(to_core) : IsSubmit(to_core[i]) /\ to_core[i].id = id)
        PROVE  \E i \in 1..Len(from_core') : IsAnswer(from_core'[i]) /\ from_core'[i].id = id
    <3>1. id \in sent \ answered
      BY <1>1
    <3>2. PICK i \in 1..Len(from_core) : IsAnswer(from_core[i]) /\ from_core[i].id = id
      BY <1>1, <2>1, <3>1 DEF ExchangeFacts, NothingLost
    <3>3. i # 1
      BY <1>1, <1>2, <2>1, <3>2
    <3> QED BY <1>2, <3>2, <3>3
  <2>2. \A id \in sent' \ answered' :
          \/ \E i \in 1..Len(to_core') : IsSubmit(to_core'[i]) /\ to_core'[i].id = id
          \/ \E i \in 1..Len(from_core') : IsAnswer(from_core'[i]) /\ from_core'[i].id = id
    BY <1>1, <2>1
  <2> QED BY <2>2 DEF NothingLost, IsSubmit, IsAnswer
<1> QED BY <1>4, <1>5, <1>6, <1>7 DEF ExchangeFacts

\* A submit is written after the handshake, or to no link at all.
LEMMA SubmitKeepsExchange ==
  ASSUME LinkInv, ExchangeFacts, submit_share
  PROVE  ExchangeFacts'
<1>1. /\ job # 0 /\ TakeRequestId
      /\ to_core' = IF link = "up"
                    THEN Append(to_core, [command |-> "MINING_SUBMIT", id |-> next_id])
                    ELSE to_core
      /\ sent' = sent \cup {i \in {next_id} : link = "up"}
      /\ UNCHANGED <<link, on_connected, from_core, core, jobs_sent, job, answered>>
  BY DEF submit_share, submit_id, startupVars
<1>2. CASE link # "up"
  <2>1. to_core' = to_core /\ sent' = sent
    BY <1>1, <1>2
  <2> QED BY <1>1, <2>1, SameExchange
<1>3. CASE link = "up"
  <2> DEFINE command == [command |-> "MINING_SUBMIT", id |-> next_id]
  <2>1. to_core' = Append(to_core, command) /\ sent' = sent \cup {next_id}
    BY <1>1, <1>3
  <2>2. TypeOK
    BY DEF LinkInv
  <2>3. command \in Command /\ IsSubmit(command) /\ command.id = next_id
    BY <1>1, <2>2, FreshId DEF Command, IsSubmit
  <2> HIDE DEF command
  <2>4. to_core \in Seq(Command) /\ jobs_sent # 0
    BY <1>1, SubmittedIds
  <2>5. core = "subscribed"
    BY <1>3, <2>4 DEF ExchangeFacts, Phases
  <2>6. /\ Len(to_core) \in Nat /\ Len(to_core') = Len(to_core) + 1
        /\ to_core'[Len(to_core) + 1] = command
        /\ \A i \in 1..Len(to_core') :
             \/ i \in 1..Len(to_core) /\ to_core'[i] = to_core[i]
             \/ i = Len(to_core) + 1 /\ to_core'[i] = command
    BY <2>1, <2>3, <2>4, AppendExtends
  <2>7. \A i \in 1..Len(to_core) : i \in 1..Len(to_core') /\ to_core'[i] = to_core[i]
    BY <2>6
  <2>8. Len(to_core) + 1 \in 1..Len(to_core')
    BY <2>6
  <2>9. Handshake'
    <3>1. /\ \A i \in 1..Len(to_core') : IsSubmit(to_core'[i])
          /\ \A i \in 1..Len(from_core) : IsJob(from_core[i]) \/ IsAnswer(from_core[i])
      BY <2>3, <2>5, <2>6 DEF ExchangeFacts, Handshake
    <3> QED BY <1>1, <2>5, <3>1 DEF Handshake, IsSubmit, IsAnswer, IsJob
  <2>10. Phases'
    BY <1>1, <1>3, <2>5 DEF ExchangeFacts, Phases
  <2>11. JobsInOrder'
    BY <1>1 DEF ExchangeFacts, JobsInOrder, IsJob
  <2>12. NothingLost'
    <3>1. ASSUME NEW id \in sent' \ answered
          PROVE  \/ \E i \in 1..Len(to_core') : IsSubmit(to_core'[i]) /\ to_core'[i].id = id
                 \/ \E i \in 1..Len(from_core) : IsAnswer(from_core[i]) /\ from_core[i].id = id
      <4>1. CASE id = next_id
        BY <2>3, <2>6, <2>8, <4>1
      <4>2. CASE id \in sent \ answered
        BY <1>3, <2>7, <4>2 DEF ExchangeFacts, NothingLost
      <4> QED BY <2>1, <3>1, <4>1, <4>2
    <3> QED BY <1>1, <3>1 DEF NothingLost, IsSubmit, IsAnswer
  <2> QED BY <2>9, <2>10, <2>11, <2>12 DEF ExchangeFacts
<1> QED BY <1>2, <1>3

-----------------------------------------------------------------------------
(* NodeCore reads and writes *)

\* The line NodeCore reads, and those that stay.
LEMMA HeadToCore ==
  ASSUME LinkInv, to_core # <<>>, to_core' = Tail(to_core)
  PROVE  /\ Head(to_core) = to_core[1] /\ Head(to_core) \in Command
         /\ 1 \in 1..Len(to_core) /\ to_core \in Seq(Command)
         /\ \A i \in 1..Len(to_core') :
              i + 1 \in 1..Len(to_core) /\ to_core'[i] = to_core[i + 1]
         /\ \A i \in 1..Len(to_core) :
              i # 1 => i - 1 \in 1..Len(to_core') /\ to_core'[i - 1] = to_core[i]
<1>1. to_core \in Seq(Command)
  BY DEF LinkInv, TypeOK
<1> QED BY <1>1, TailShifts, TailKeeps

\* NodeCore's part of the handshake: while there is one, nothing else is on the
\* link.
LEMMA CoreHandshakeKeepsExchange ==
  ASSUME LinkInv, ExchangeFacts, CoreAuth \/ CoreRefuse \/ CoreSubscribe
  PROVE  ExchangeFacts'
<1>1. /\ link = "up" /\ to_core # <<>> /\ to_core' = Tail(to_core)
      /\ Head(to_core).command \in {"MINING_AUTH", "MINING_SUBSCRIBE"}
      /\ UNCHANGED <<link, on_connected, jobs_sent, job, sent, answered>>
  BY DEF CoreAuth, CoreRefuse, CoreSubscribe, Receives
<1>2. Head(to_core) = to_core[1] /\ 1 \in 1..Len(to_core) /\ to_core \in Seq(Command)
  BY <1>1, HeadToCore
<1>3. core \in {"new", "auth"}
  <2>1. core # "subscribed"
    BY <1>1, <1>2 DEF ExchangeFacts, Handshake, IsSubmit
  <2>2. core \in {"new", "auth", "subscribed"}
    BY DEF LinkInv, TypeOK
  <2> QED BY <2>1, <2>2
<1>4. Len(to_core) = 1 /\ from_core = <<>>
  BY <1>1, <1>3 DEF ExchangeFacts, Handshake
<1>5. to_core' = <<>>
  BY <1>1, <1>2, <1>4, TailOfOne
<1>6. jobs_sent' = 0 /\ sent' = {} /\ on_connected'
  BY <1>1, <1>3 DEF ExchangeFacts, Phases
<1>7. NothingLost'
  BY <1>6 DEF NothingLost
<1>8. \A i \in 1..Len(to_core') : FALSE
  BY <1>5
<1>9. ASSUME NEW command \in {"MINING_AUTH_SUCCESS", "MINING_AUTH_FAILURE"},
             Replies(command)
      PROVE  /\ Len(from_core') = 1 /\ from_core'[1].command = command
             /\ \A i \in 1..Len(from_core') : from_core'[i].command = command
             /\ JobsInOrder'
  <2> DEFINE reply == [command |-> command, id |-> Head(to_core).id]
  <2>1. from_core' = Append(<<>>, reply)
    BY <1>4, <1>9 DEF Replies
  <2>2. reply.command = command
    OBVIOUS
  <2> HIDE DEF reply
  <2>3. Len(from_core') = 1 /\ from_core'[1].command = command
    BY <2>1, <2>2, AppendToEmpty
  <2>4. \A i \in 1..Len(from_core') : from_core'[i].command = command
    BY <2>3
  <2>5. \A i \in 1..Len(from_core') : ~IsJob(from_core'[i])
    BY <2>4 DEF IsJob
  <2>6. JobsInOrder'
    BY <1>6, <2>5 DEF JobsInOrder, IsJob
  <2> QED BY <2>3, <2>4, <2>6
<1>10. CASE CoreAuth
  <2>1. core' = "auth" /\ Replies("MINING_AUTH_SUCCESS")
    BY <1>10 DEF CoreAuth
  <2>2. Len(from_core') = 1 /\ from_core'[1].command = "MINING_AUTH_SUCCESS" /\ JobsInOrder'
    BY <1>9, <2>1
  <2>3. Handshake'
    BY <1>5, <2>1, <2>2 DEF Handshake
  <2>4. Phases'
    BY <1>1, <1>6, <2>1 DEF Phases
  <2> QED BY <1>7, <2>2, <2>3, <2>4 DEF ExchangeFacts
<1>11. CASE CoreRefuse
  <2>1. core' = core /\ Replies("MINING_AUTH_FAILURE") /\ Head(to_core).command = "MINING_AUTH"
    BY <1>11 DEF CoreRefuse, Receives
  <2>2. /\ \A i \in 1..Len(from_core') : from_core'[i].command = "MINING_AUTH_FAILURE"
        /\ JobsInOrder'
    BY <1>9, <2>1
  <2>3. core = "new"
    BY <1>1, <1>2, <1>3, <1>4, <2>1 DEF ExchangeFacts, Handshake
  <2>4. Handshake'
    BY <1>5, <2>1, <2>2, <2>3 DEF Handshake
  <2>5. Phases'
    BY <1>1, <1>6, <2>1 DEF Phases
  <2> QED BY <1>7, <2>2, <2>4, <2>5 DEF ExchangeFacts
<1>12. CASE CoreSubscribe
  <2>1. core' = "subscribed" /\ from_core' = <<>>
    BY <1>4, <1>12 DEF CoreSubscribe
  <2>2. \A i \in 1..Len(from_core') : FALSE
    BY <2>1
  <2>3. Handshake'
    BY <1>8, <2>1, <2>2 DEF Handshake
  <2>4. Phases'
    BY <1>1, <1>6, <2>1 DEF Phases
  <2>5. JobsInOrder'
    BY <1>6, <2>2 DEF JobsInOrder
  <2> QED BY <1>7, <2>3, <2>4, <2>5 DEF ExchangeFacts
<1> QED BY <1>10, <1>11, <1>12

\* A line for the pool is written behind those on their way.
LEMMA LastFromCore ==
  ASSUME LinkInv, NEW reply \in Reply, from_core' = Append(from_core, reply)
  PROVE  /\ Len(from_core) \in Nat /\ Len(from_core') = Len(from_core) + 1
         /\ from_core'[Len(from_core) + 1] = reply
         /\ Len(from_core) + 1 \in 1..Len(from_core')
         /\ \A i \in 1..Len(from_core') :
              \/ i \in 1..Len(from_core) /\ from_core'[i] = from_core[i]
              \/ i = Len(from_core) + 1 /\ from_core'[i] = reply
         /\ \A i \in 1..Len(from_core) :
              i \in 1..Len(from_core') /\ from_core'[i] = from_core[i]
<1>1. from_core \in Seq(Reply)
  BY DEF LinkInv, TypeOK
<1>2. /\ Len(from_core) \in Nat /\ Len(from_core') = Len(from_core) + 1
      /\ from_core'[Len(from_core) + 1] = reply
      /\ \A i \in 1..Len(from_core') :
           \/ i \in 1..Len(from_core) /\ from_core'[i] = from_core[i]
           \/ i = Len(from_core) + 1 /\ from_core'[i] = reply
  BY <1>1, AppendExtends
<1>3. /\ Len(from_core) + 1 \in 1..Len(from_core')
      /\ \A i \in 1..Len(from_core) : i \in 1..Len(from_core') /\ i # Len(from_core) + 1
  BY <1>2
<1> QED BY <1>2, <1>3

LEMMA AnswerKeepsExchange ==
  ASSUME LinkInv, ExchangeFacts, CoreAnswer
  PROVE  ExchangeFacts'
<1>1. /\ link = "up" /\ to_core # <<>> /\ to_core' = Tail(to_core)
      /\ Head(to_core).command = "MINING_SUBMIT"
      /\ UNCHANGED <<link, on_connected, core, jobs_sent, job, sent, answered>>
  BY DEF CoreAnswer, Receives
<1>2. /\ Head(to_core) = to_core[1] /\ Head(to_core) \in Command
      /\ 1 \in 1..Len(to_core) /\ to_core \in Seq(Command)
      /\ \A i \in 1..Len(to_core') :
           i + 1 \in 1..Len(to_core) /\ to_core'[i] = to_core[i + 1]
      /\ \A i \in 1..Len(to_core) :
           i # 1 => i - 1 \in 1..Len(to_core') /\ to_core'[i - 1] = to_core[i]
  BY <1>1, HeadToCore
<1>3. PICK reply \in Reply :
        /\ from_core' = Append(from_core, reply)
        /\ IsAnswer(reply) /\ ~IsJob(reply) /\ reply.id = Head(to_core).id
  <2>1. PICK command \in {"MINING_SUBMIT_SUCCESS", "MINING_SUBMIT_FAILURE"} : Replies(command)
    BY DEF CoreAnswer
  <2> DEFINE reply == [command |-> command, id |-> Head(to_core).id]
  <2>2. Head(to_core).id \in Id
    BY <1>2 DEF Command
  <2>3. reply \in Reply /\ IsAnswer(reply) /\ ~IsJob(reply) /\ reply.id = Head(to_core).id
    BY <2>2 DEF Reply, IsAnswer, IsJob
  <2>4. from_core' = Append(from_core, reply)
    BY <2>1 DEF Replies
  <2> HIDE DEF reply
  <2> QED BY <2>3, <2>4
<1>4. /\ Len(from_core) \in Nat /\ Len(from_core') = Len(from_core) + 1
      /\ from_core'[Len(from_core) + 1] = reply
      /\ Len(from_core) + 1 \in 1..Len(from_core')
      /\ \A i \in 1..Len(from_core') :
           \/ i \in 1..Len(from_core) /\ from_core'[i] = from_core[i]
           \/ i = Len(from_core) + 1 /\ from_core'[i] = reply
      /\ \A i \in 1..Len(from_core) :
           i \in 1..Len(from_core') /\ from_core'[i] = from_core[i]
  BY <1>3, LastFromCore
<1>5. core = "subscribed"
  <2>1. core \in {"new", "auth", "subscribed"}
    BY DEF LinkInv, TypeOK
  <2>2. core # "new" /\ core # "auth"
    BY <1>1, <1>2 DEF ExchangeFacts, Handshake
  <2> QED BY <2>1, <2>2
<1>6. Handshake'
  <2>1. /\ \A i \in 1..Len(to_core') : IsSubmit(to_core'[i])
        /\ \A i \in 1..Len(from_core') : IsJob(from_core'[i]) \/ IsAnswer(from_core'[i])
    BY <1>2, <1>3, <1>4, <1>5 DEF ExchangeFacts, Handshake
  <2> QED BY <1>1, <1>5, <2>1 DEF Handshake, IsSubmit, IsAnswer, IsJob
<1>7. Phases'
  BY <1>1, <1>5 DEF ExchangeFacts, Phases
<1>8. JobsInOrder'
  <2>1. ASSUME NEW i \in 1..Len(from_core'), IsJob(from_core'[i])
        PROVE  i \in 1..Len(from_core) /\ from_core'[i] = from_core[i]
    BY <1>3, <1>4, <2>1
  <2>2. /\ \A i, j \in 1..Len(from_core') :
             i < j /\ IsJob(from_core'[i]) /\ IsJob(from_core'[j])
               => from_core'[i].id < from_core'[j].id
        /\ \A i \in 1..Len(from_core') : IsJob(from_core'[i]) => job < from_core'[i].id
    BY <2>1 DEF ExchangeFacts, JobsInOrder
  <2>3. ASSUME NEW n \in 1..jobs_sent
        PROVE  n <= job \/ \E i \in 1..Len(from_core') :
                             IsJob(from_core'[i]) /\ from_core'[i].id = n
    BY <1>1, <1>4 DEF ExchangeFacts, JobsInOrder
  <2> QED BY <1>1, <2>2, <2>3 DEF JobsInOrder, IsJob
<1>9. NothingLost'
  <2>1. ASSUME NEW id \in sent \ answered
        PROVE  \/ \E i \in 1..Len(to_core') : IsSubmit(to_core'[i]) /\ to_core'[i].id = id
               \/ \E i \in 1..Len(from_core') : IsAnswer(from_core'[i]) /\ from_core'[i].id = id
    <3>1. CASE id = Head(to_core).id
      BY <1>3, <1>4, <3>1
    <3>2. CASE id # Head(to_core).id
      <4>1. CASE \E i \in 1..Len(to_core) : IsSubmit(to_core[i]) /\ to_core[i].id = id
        <5>1. PICK i \in 1..Len(to_core) : IsSubmit(to_core[i]) /\ to_core[i].id = id
          BY <4>1
        <5>2. i # 1
          BY <1>2, <3>2, <5>1
        <5> QED BY <1>2, <5>1, <5>2
      <4>2. CASE \E i \in 1..Len(from_core) : IsAnswer(from_core[i]) /\ from_core[i].id = id
        BY <1>4, <4>2
      <4> QED BY <1>1, <2>1, <4>1, <4>2 DEF ExchangeFacts, NothingLost
    <3> QED BY <3>1, <3>2
  <2> QED BY <1>1, <2>1 DEF NothingLost, IsSubmit, IsAnswer
<1> QED BY <1>6, <1>7, <1>8, <1>9 DEF ExchangeFacts

LEMMA JobKeepsExchange ==
  ASSUME LinkInv, ExchangeFacts, CoreJob
  PROVE  ExchangeFacts'
<1> DEFINE reply == [command |-> "MINING_JOB", id |-> jobs_sent + 1]
<1>1. /\ link = "up" /\ core = "subscribed" /\ jobs_sent < MaxJobs
      /\ jobs_sent' = jobs_sent + 1
      /\ from_core' = Append(from_core, reply)
      /\ UNCHANGED <<link, on_connected, to_core, core, job, sent, answered>>
  BY DEF CoreJob
<1>2. jobs_sent \in Nat /\ job \in Nat /\ job <= jobs_sent
  BY SubmittedIds
<1>3. reply \in Reply /\ reply.id = jobs_sent + 1 /\ IsJob(reply)
  BY <1>1, <1>2, LinkAssumption DEF Reply, IsJob
<1> HIDE DEF reply
<1>4. /\ Len(from_core) \in Nat /\ Len(from_core') = Len(from_core) + 1
      /\ from_core'[Len(from_core) + 1] = reply
      /\ Len(from_core) + 1 \in 1..Len(from_core')
      /\ \A i \in 1..Len(from_core') :
           \/ i \in 1..Len(from_core) /\ from_core'[i] = from_core[i]
           \/ i = Len(from_core) + 1 /\ from_core'[i] = reply
      /\ \A i \in 1..Len(from_core) :
           i \in 1..Len(from_core') /\ from_core'[i] = from_core[i]
  BY <1>1, <1>3, LastFromCore
<1>5. Handshake'
  <2>1. /\ \A i \in 1..Len(to_core) : IsSubmit(to_core[i])
        /\ \A i \in 1..Len(from_core') : IsJob(from_core'[i]) \/ IsAnswer(from_core'[i])
    BY <1>1, <1>3, <1>4 DEF ExchangeFacts, Handshake
  <2> QED BY <1>1, <2>1 DEF Handshake, IsSubmit, IsAnswer, IsJob
<1>6. Phases'
  BY <1>1 DEF ExchangeFacts, Phases
<1>7. JobsInOrder'
  <2>0. \A i \in 1..Len(from_core) : IsJob(from_core[i]) => from_core[i].id \in Nat /\ from_core[i].id <= jobs_sent
    <3>1. \A i \in 1..Len(from_core) : from_core[i] \in Reply
      BY SubmittedIds
    <3>2. \A r \in Reply : r.id \in Nat
      BY LinkAssumption DEF Reply, Id
    <3> QED BY <3>1, <3>2 DEF LinkInv, LinesMatter, IsJob
  <2>1. ASSUME NEW i \in 1..Len(from_core'), NEW j \in 1..Len(from_core'), i < j,
               IsJob(from_core'[i]), IsJob(from_core'[j])
        PROVE  from_core'[i].id < from_core'[j].id
    <3>1. i \in 1..Len(from_core) /\ from_core'[i] = from_core[i]
      BY <1>4, <2>1
    <3>2. CASE j \in 1..Len(from_core) /\ from_core'[j] = from_core[j]
      BY <2>1, <3>1, <3>2 DEF ExchangeFacts, JobsInOrder
    <3>3. CASE j = Len(from_core) + 1 /\ from_core'[j] = reply
      <4>1. from_core[i].id \in Nat /\ from_core[i].id <= jobs_sent
        BY <2>0, <2>1, <3>1
      <4>2. from_core'[i].id = from_core[i].id /\ from_core'[j].id = jobs_sent + 1
        BY <1>3, <3>1, <3>3
      <4> QED BY <1>2, <4>1, <4>2
    <3> QED BY <1>4, <3>2, <3>3
  <2>2. ASSUME NEW i \in 1..Len(from_core'), IsJob(from_core'[i])
        PROVE  job < from_core'[i].id
    <3>1. CASE i \in 1..Len(from_core) /\ from_core'[i] = from_core[i]
      BY <2>2, <3>1 DEF ExchangeFacts, JobsInOrder
    <3>2. CASE i = Len(from_core) + 1 /\ from_core'[i] = reply
      BY <1>2, <1>3, <3>2
    <3> QED BY <1>4, <3>1, <3>2
  <2>3. ASSUME NEW n \in 1..jobs_sent'
        PROVE  n <= job \/ \E i \in 1..Len(from_core') :
                             IsJob(from_core'[i]) /\ from_core'[i].id = n
    <3>1. CASE n = jobs_sent + 1
      BY <1>3, <1>4, <3>1
    <3>2. CASE n # jobs_sent + 1
      <4>1. n \in 1..jobs_sent
        BY <1>1, <1>2, <3>2
      <4> QED BY <1>1, <1>4, <4>1 DEF ExchangeFacts, JobsInOrder
    <3> QED BY <3>1, <3>2
  <2> QED BY <1>1, <2>1, <2>2, <2>3 DEF JobsInOrder, IsJob
<1>8. NothingLost'
  <2>1. ASSUME NEW id \in sent \ answered
        PROVE  \/ \E i \in 1..Len(to_core) : IsSubmit(to_core[i]) /\ to_core[i].id = id
               \/ \E i \in 1..Len(from_core') : IsAnswer(from_core'[i]) /\ from_core'[i].id = id
    BY <1>1, <1>4 DEF ExchangeFacts, NothingLost
  <2> QED BY <1>1, <2>1 DEF NothingLost, IsSubmit, IsAnswer
<1> QED BY <1>5, <1>6, <1>7, <1>8 DEF ExchangeFacts

-----------------------------------------------------------------------------
(* The invariant *)

LEMMA ExchangeStep == ExchangeInv /\ [Next]_<<startupVars, linkVars>> => ExchangeInv'
<1> SUFFICES ASSUME LinkInv, ExchangeFacts, [Next]_<<startupVars, linkVars>>
             PROVE  ExchangeInv'
  BY DEF ExchangeInv
<1>1. LinkInv'
  BY LinkStepKeepsInv
<1>2. CASE UNCHANGED <<startupVars, linkVars>>
  <2>1. /\ UNCHANGED <<on_connected, to_core, from_core, core, jobs_sent, job, sent, answered>>
        /\ link' = link
    BY <1>2 DEF linkVars, ucpVars
  <2> QED BY <1>1, <2>1, SameExchange DEF ExchangeInv
<1>3. CASE StartupNext /\ UNCHANGED ucpVars
  <2>1. UNCHANGED <<on_connected, to_core, from_core, core, jobs_sent, job, sent, answered>>
    BY <1>3 DEF ucpVars
  <2>2. link' = link \/ (link # "up" /\ link' # "up")
    BY <1>3, StartupLeavesLink
  <2> QED BY <1>1, <2>1, <2>2, SameExchange DEF ExchangeInv
<1>4. CASE ConnectionMade \/ ConnectionMadeAgain \/ ConnectionFailed
           \/ ConnectionLost \/ RejectJob \/ Retry
  BY <1>1, <1>4, ConnectionKeepsExchange DEF ExchangeInv
<1>5. CASE on_auth_success
  BY <1>1, <1>5, AuthSuccessKeepsExchange DEF ExchangeInv
<1>6. CASE IgnoreLine \/ on_mining_job \/ on_submit_answer
  BY <1>1, <1>6, ReadKeepsExchange DEF ExchangeInv
<1>7. CASE submit_share
  BY <1>1, <1>7, SubmitKeepsExchange DEF ExchangeInv
<1>8. CASE \E id \in Id : Collect(id)
  <2>1. /\ UNCHANGED <<on_connected, to_core, from_core, core, jobs_sent, job, sent, answered>>
        /\ link' = link
    BY <1>8 DEF Collect
  <2> QED BY <1>1, <2>1, SameExchange DEF ExchangeInv
<1>9. CASE CoreAuth \/ CoreRefuse \/ CoreSubscribe
  BY <1>1, <1>9, CoreHandshakeKeepsExchange DEF ExchangeInv
<1>10. CASE CoreAnswer
  BY <1>1, <1>10, AnswerKeepsExchange DEF ExchangeInv
<1>11. CASE CoreJob
  BY <1>1, <1>11, JobKeepsExchange DEF ExchangeInv
<1> QED BY <1>2, <1>3, <1>4, <1>5, <1>6, <1>7, <1>8, <1>9, <1>10, <1>11
        DEF Next, ReadLine, CoreReads

\* The inductive invariant of the exchange, over the one of the link: the
\* handshake has its one line, jobs are on their way in order, and a submit
\* without an answer is in flight as long as the link is up.
THEOREM ExchangeInvariant == Spec => []ExchangeInv
<1>1. Init => ExchangeInv
  BY LinkInitInv, ExchangeInit DEF ExchangeInv
<1> QED BY <1>1, ExchangeStep, PTL DEF Spec

\* Until the pool is subscribed a link that is up carries one line, the next of
\* MINING_AUTH, its answer, MINING_SUBSCRIBE, and nothing else; a pool that was
\* refused is sent nothing more.  An accepted pool cannot lose its subscription
\* on the way.
THEOREM HandshakeInOrder == Spec => []Handshake
<1>1. ExchangeInv => Handshake
  BY DEF ExchangeInv, ExchangeFacts
<1> QED BY <1>1, ExchangeInvariant, PTL

\* As long as the link is up, the submits written to it that have no answer are
\* those that exactly one line in flight is about, and what reaches the share
\* manager answers a submit: for any number of requests and jobs, with lines
\* lost to broken links and Deferreds lost to the collector.
THEOREM AnswersAreMatched == Spec => []AnswersMatchSubmits
<1>1. ExchangeInv => AnswersMatchSubmits
  <2> SUFFICES ASSUME ExchangeInv PROVE AnswersMatchSubmits
    OBVIOUS
  <2>1. /\ OneLineEach /\ LinesMatter /\ HistoryInv /\ NothingLost
        /\ to_core \in Seq(Command) /\ from_core \in Seq(Reply)
    BY DEF ExchangeInv, ExchangeFacts, LinkInv, TypeOK
  <2>2. DOMAIN to_core = 1..Len(to_core) /\ DOMAIN from_core = 1..Len(from_core)
    BY <2>1
  <2>3. ASSUME NEW id \in Id
        PROVE  /\ InFlight(id) <= 1
               /\ InFlight(id) = 1 => id \in sent \ answered
               /\ link = "up" /\ id \in sent \ answered => InFlight(id) = 1
    <3> DEFINE A == {i \in DOMAIN to_core :
                       to_core[i].command = "MINING_SUBMIT" /\ to_core[i].id = id}
               B == {i \in DOMAIN from_core :
                       /\ from_core[i].command \in {"MINING_SUBMIT_SUCCESS", "MINING_SUBMIT_FAILURE"}
                       /\ from_core[i].id = id}
    <3>1. InFlight(id) = Cardinality(A) + Cardinality(B)
      BY DEF InFlight
    <3>2. \A i, j \in A : i = j
      BY <2>1, <2>2 DEF OneLineEach, IsSubmit
    <3>3. \A i, j \in B : i = j
      BY <2>1, <2>2 DEF OneLineEach, IsAnswer
    <3>4. A = {} \/ B = {}
      BY <2>1, <2>2 DEF OneLineEach, IsSubmit, IsAnswer
    <3>5. A # {} \/ B # {} => id \in sent \ answered
      BY <2>1, <2>2 DEF LinesMatter, IsSubmit, IsAnswer
    <3>6. link = "up" /\ id \in sent \ answered => A # {} \/ B # {}
      BY <2>1, <2>2 DEF NothingLost, IsSubmit, IsAnswer
    <3> HIDE DEF A, B
    <3>7. \A C : (\A i, j \in C : i = j) => C = {} \/ \E i : C = {i}
      OBVIOUS
    <3>8. /\ \/ Cardinality(A) = 0 /\ A = {}
             \/ Cardinality(A) = 1 /\ A # {}
          /\ \/ Cardinality(B) = 0 /\ B = {}
             \/ Cardinality(B) = 1 /\ B # {}
      BY <3>2, <3>3, <3>7, FS_EmptySet, FS_Singleton
    <3> QED BY <3>1, <3>4, <3>5, <3>6, <3>8
  <2> QED BY <2>1, <2>3 DEF AnswersMatchSubmits, HistoryInv
<1> QED BY <1>1, ExchangeInvariant, PTL

-----------------------------------------------------------------------------
(* The link implements Exchange *)

\* Steps that change nothing Exchange sees.
LEMMA StutterOfExchange ==
  ASSUME phase' = phase, UNCHANGED <<job, sent, answered, reported>>
  PROVE  UNCHANGED NodeCore!exchangeVars
BY DEF NodeCore!exchangeVars

\* The phase is the same when none of what it is read from changes.
LEMMA SamePhase ==
  ASSUME UNCHANGED <<link, core, on_connected>>
  PROVE  phase' = phase
BY DEF phase

\* What is read once NodeCore has subscribed the pool.
LEMMA ReadsWhenServing ==
  ASSUME LinkInv, ExchangeFacts, link = "up", from_core # <<>>,
         IsJob(Head(from_core)) \/ IsAnswer(Head(from_core))
  PROVE  core = "subscribed" /\ phase = "serving" /\ Head(from_core) = from_core[1]
         /\ 1 \in 1..Len(from_core) /\ Head(from_core) \in Reply
<1>1. from_core \in Seq(Reply)
  BY DEF LinkInv, TypeOK
<1>2. Head(from_core) = from_core[1] /\ 1 \in 1..Len(from_core) /\ Head(from_core) \in Reply
  BY <1>1, TailShifts
<1>3. core # "new" /\ core # "auth"
  BY <1>2 DEF ExchangeFacts, Handshake, IsJob, IsAnswer
<1>4. core = "subscribed"
  BY <1>3 DEF LinkInv, TypeOK
<1> QED BY <1>2, <1>4 DEF phase

\* The job that is read is the one after the last.
LEMMA NextJobIsRead ==
  ASSUME LinkInv, ExchangeFacts, on_mining_job
  PROVE  job' = job + 1
<1>1. /\ link = "up" /\ from_core # <<>> /\ IsJob(Head(from_core))
      /\ job' = Head(from_core).id
  BY DEF on_mining_job, Arrives, IsJob
<1>2. Head(from_core) = from_core[1] /\ 1 \in 1..Len(from_core) /\ Head(from_core) \in Reply
  BY <1>1, ReadsWhenServing
<1>3. job \in Nat /\ jobs_sent \in Nat
  BY SubmittedIds
<1>4. job' \in Nat /\ job < job' /\ job' <= jobs_sent
  <2>1. job' \in Nat
    BY <1>1, <1>2, LinkAssumption DEF Reply, Id
  <2>2. job < job'
    BY <1>1, <1>2 DEF ExchangeFacts, JobsInOrder
  <2>3. job' <= jobs_sent
    BY <1>1, <1>2 DEF LinkInv, LinesMatter, IsJob
  <2> QED BY <2>1, <2>2, <2>3
<1>5. job + 1 \in 1..jobs_sent /\ ~(job + 1 <= job)
  BY <1>3, <1>4
<1>6. PICK i \in 1..Len(from_core) : IsJob(from_core[i]) /\ from_core[i].id = job + 1
  BY <1>1, <1>5 DEF ExchangeFacts, JobsInOrder
<1>7. i = 1
  <2>1. ASSUME i # 1 PROVE FALSE
    <3>1. 1 < i
      BY <2>1
    <3>2. job' < job + 1
      BY <1>1, <1>2, <1>6, <3>1 DEF ExchangeFacts, JobsInOrder
    <3> QED BY <1>3, <1>4, <3>2
  <2> QED BY <2>1
<1> QED BY <1>1, <1>2, <1>6, <1>7

LEMMA ConnectionSteps ==
  ASSUME LinkInv, ExchangeFacts,
         \/ ConnectionMade \/ ConnectionMadeAgain \/ ConnectionFailed
         \/ ConnectionLost \/ RejectJob \/ Retry
  PROVE  [NodeCore!Next]_(NodeCore!exchangeVars)
<1>1. CASE ConnectionMade
  <2>1. /\ ~on_connected /\ link = "connecting" /\ link' = "up" /\ core' = "new"
        /\ UNCHANGED <<job, sent, answered, reported>>
    BY <1>1 DEF ConnectionMade, first_connection
  <2>2. phase = "before" /\ phase' = "up"
    BY <2>1 DEF phase
  <2> QED BY <2>1, <2>2 DEF NodeCore!Next, NodeCore!Connect
<1>2. CASE ConnectionMadeAgain
  <2>1. /\ on_connected /\ link = "connecting" /\ link' = "down"
        /\ UNCHANGED <<on_connected, job, sent, answered, reported>>
    BY <1>2 DEF ConnectionMadeAgain, first_connection
  <2>2. phase' = phase
    BY <2>1 DEF phase
  <2> QED BY <2>1, <2>2, StutterOfExchange
<1>3. CASE Retry
  <2>1. /\ link = "down" /\ link' = "connecting"
        /\ UNCHANGED <<on_connected, job, sent, answered, reported>>
    BY <1>3 DEF Retry
  <2>2. phase' = phase
    BY <2>1 DEF phase
  <2> QED BY <2>1, <2>2, StutterOfExchange
<1>4. CASE ConnectionFailed \/ ConnectionLost \/ RejectJob
  <2>1. UNCHANGED <<on_connected, job, sent, answered, reported>>
    BY <1>4 DEF ConnectionFailed, ConnectionLost, RejectJob, Drop
  <2>2. \/ link' = "stopped"
        \/ link = "up" /\ link' = "down"
    BY <1>4 DEF ConnectionFailed, ConnectionLost, RejectJob, Drop, Arrives
  <2>3. link = "up" => on_connected
    BY DEF ExchangeFacts, Phases
  <2>4. phase' = "over"
    BY <2>1, <2>2, <2>3 DEF phase
  <2>5. CASE phase = "over"
    BY <2>1, <2>4, <2>5, StutterOfExchange
  <2>6. CASE phase # "over"
    BY <2>1, <2>4, <2>6 DEF NodeCore!Next, NodeCore!End
  <2> QED BY <2>5, <2>6
<1> QED BY <1>1, <1>2, <1>3, <1>4

LEMMA PoolSteps ==
  ASSUME LinkInv, ExchangeFacts,
         \/ on_auth_success \/ IgnoreLine \/ on_mining_job \/ on_submit_answer
         \/ submit_share \/ \E id \in Id : Collect(id)
  PROVE  [NodeCore!Next]_(NodeCore!exchangeVars)
<1>1. UNCHANGED <<link, core, on_connected>>
  BY DEF on_auth_success, IgnoreLine, on_mining_job, on_submit_answer, submit_share, Collect
<1>2. phase' = phase
  BY <1>1, SamePhase
<1>3. CASE on_auth_success \/ IgnoreLine \/ \E id \in Id : Collect(id)
  <2>1. UNCHANGED <<job, sent, answered, reported>>
    BY <1>3 DEF on_auth_success, IgnoreLine, Collect
  <2> QED BY <1>2, <2>1, StutterOfExchange
<1>4. CASE on_mining_job
  <2>1. /\ link = "up" /\ from_core # <<>> /\ IsJob(Head(from_core))
        /\ UNCHANGED <<sent, answered, reported>>
    BY <1>4 DEF on_mining_job, Arrives, IsJob
  <2>2. phase = "serving"
    BY <2>1, ReadsWhenServing
  <2>3. job' = job + 1
    BY <1>4, NextJobIsRead
  <2> QED BY <1>2, <2>1, <2>2, <2>3 DEF NodeCore!Next, NodeCore!Deliver
<1>5. CASE on_submit_answer
  <2> DEFINE id == Head(from_core).id
  <2>1. /\ link = "up" /\ from_core # <<>> /\ IsAnswer(Head(from_core))
        /\ answered' = answered \cup {id}
        /\ reported' = reported \cup {i \in {id} : i \in requests}
        /\ UNCHANGED <<job, sent>>
    BY <1>5 DEF on_submit_answer, Arrives, IsAnswer
  <2>2. phase = "serving" /\ Head(from_core) = from_core[1] /\ 1 \in 1..Len(from_core)
    BY <2>1, ReadsWhenServing
  <2>3. id \in sent \ answered
    BY <2>1, <2>2 DEF LinkInv, LinesMatter
  <2>4. id \in Id
    BY <2>3, SubmittedIds
  <2> HIDE DEF id
  <2>5. reported' \in {reported, reported \cup {id}}
    <3>1. CASE id \in requests
      <4>1. {i \in {id} : i \in requests} = {id}
        BY <3>1
      <4> QED BY <2>1, <4>1
    <3>2. CASE id \notin requests
      <4>1. {i \in {id} : i \in requests} = {}
        BY <3>2
      <4> QED BY <2>1, <4>1
    <3> QED BY <3>1, <3>2
  <2>6. NodeCore!Answer(id)
    BY <1>2, <2>1, <2>2, <2>3, <2>5 DEF NodeCore!Answer
  <2> QED BY <2>4, <2>6 DEF NodeCore!Next
<1>6. CASE submit_share
  <2>1. /\ job # 0 /\ TakeRequestId
        /\ sent' = sent \cup {i \in {next_id} : link = "up"}
        /\ UNCHANGED <<job, answered, reported>>
    BY <1>6 DEF submit_share
  <2>2. CASE link # "up"
    <3>1. sent' = sent
      BY <2>1, <2>2
    <3> QED BY <1>2, <2>1, <3>1, StutterOfExchange
  <2>3. CASE link = "up"
    <3>1. core = "subscribed"
      <4>1. jobs_sent # 0
        BY <2>1, SubmittedIds
      <4> QED BY <2>3, <4>1 DEF ExchangeFacts, Phases
    <3>2. phase = "serving"
      BY <2>3, <3>1 DEF phase
    <3>3. next_id \in Id /\ request_id_counter < next_id
      BY <2>1, FreshId DEF LinkInv
    <3>4. next_id \notin sent
      <4>1. \A id \in sent : id <= request_id_counter /\ id \in Int
        BY SubmittedIds DEF LinkInv, HistoryInv
      <4>2. request_id_counter \in Int /\ next_id \in Int
        BY <3>3, LinkAssumption DEF LinkInv, TypeOK, Id
      <4> QED BY <3>3, <4>1, <4>2
    <3>5. sent' = sent \cup {next_id}
      BY <2>1, <2>3
    <3>6. NodeCore!Ask(next_id)
      BY <1>2, <2>1, <3>2, <3>4, <3>5 DEF NodeCore!Ask
    <3> QED BY <3>3, <3>6 DEF NodeCore!Next
  <2> QED BY <2>2, <2>3
<1> QED BY <1>3, <1>4, <1>5, <1>6

LEMMA CoreSteps ==
  ASSUME LinkInv, ExchangeFacts, CoreReads \/ CoreJob
  PROVE  [NodeCore!Next]_(NodeCore!exchangeVars)
<1>1. link = "up" /\ UNCHANGED <<link, on_connected, job, sent, answered, reported>>
  BY DEF CoreReads, CoreAuth, CoreRefuse, CoreSubscribe, CoreAnswer, CoreJob, Receives
<1>2. CASE CoreRefuse \/ CoreAnswer \/ CoreJob
  <2>1. core' = core
    BY <1>2 DEF CoreRefuse, CoreAnswer, CoreJob
  <2> QED BY <1>1, <2>1, SamePhase, StutterOfExchange
<1>3. CASE CoreAuth \/ CoreSubscribe
  <2>1. /\ to_core # <<>>
        /\ Head(to_core).command \in {"MINING_AUTH", "MINING_SUBSCRIBE"}
    BY <1>3 DEF CoreAuth, CoreSubscribe, Receives
  <2>2. Head(to_core) = to_core[1] /\ 1 \in 1..Len(to_core)
    <3>1. to_core \in Seq(Command)
      BY DEF LinkInv, TypeOK
    <3> QED BY <2>1, <3>1, TailShifts
  <2>3. core # "subscribed"
    BY <2>1, <2>2 DEF ExchangeFacts, Handshake, IsSubmit
  <2>4. phase = "up"
    BY <1>1, <2>3 DEF phase
  <2>5. CASE CoreAuth
    <3>1. phase' = "up"
      BY <1>1, <2>5 DEF CoreAuth, phase
    <3> QED BY <1>1, <2>4, <3>1, StutterOfExchange
  <2>6. CASE CoreSubscribe
    <3>1. phase' = "serving"
      BY <1>1, <2>6 DEF CoreSubscribe, phase
    <3> QED BY <1>1, <2>4, <3>1 DEF NodeCore!Next, NodeCore!Serve
  <2> QED BY <1>3, <2>5, <2>6
<1> QED BY <1>2, <1>3 DEF CoreReads

LEMMA StepImplementsExchange ==
  ExchangeInv /\ [Next]_<<startupVars, linkVars>> => [NodeCore!Next]_(NodeCore!exchangeVars)
<1> SUFFICES ASSUME LinkInv, ExchangeFacts, [Next]_<<startupVars, linkVars>>
             PROVE  [NodeCore!Next]_(NodeCore!exchangeVars)
  BY DEF ExchangeInv
<1>1. CASE UNCHANGED <<startupVars, linkVars>>
  <2>1. UNCHANGED <<link, core, on_connected, job, sent, answered, reported>>
    BY <1>1 DEF linkVars, ucpVars
  <2> QED BY <2>1, SamePhase, StutterOfExchange
<1>2. CASE StartupNext /\ UNCHANGED ucpVars
  <2>1. UNCHANGED <<core, on_connected, job, sent, answered, reported>>
    BY <1>2 DEF ucpVars
  <2>2. \/ link' = link
        \/ link \notin {"up", "stopped"} /\ link' = "stopped"
        \/ link = "none" /\ link' = "connecting"
    BY <1>2, StartupLeavesLink
  <2>3. CASE phase' = phase
    BY <2>1, <2>3, StutterOfExchange
  <2>4. CASE phase' # phase
    <3>1. phase # "over" /\ phase' = "over"
      BY <2>1, <2>2, <2>4 DEF phase
    <3> QED BY <2>1, <3>1 DEF NodeCore!Next, NodeCore!End
  <2> QED BY <2>3, <2>4
<1>3. CASE ConnectionMade \/ ConnectionMadeAgain \/ ConnectionFailed
           \/ ConnectionLost \/ RejectJob \/ Retry
  BY <1>3, ConnectionSteps
<1>4. CASE \/ on_auth_success \/ IgnoreLine \/ on_mining_job \/ on_submit_answer
           \/ submit_share \/ \E id \in Id : Collect(id)
  BY <1>4, PoolSteps
<1>5. CASE CoreReads \/ CoreJob
  BY <1>5, CoreSteps
<1> QED BY <1>1, <1>2, <1>3, <1>4, <1>5 DEF Next, ReadLine

\* The link to NodeCore implements Exchange: no submit leaves before NodeCore
\* has subscribed the pool, every job is handed to the registry in order, none
\* twice and none left out, every submit is answered at most once, and after
\* the first connection nothing is exchanged ever again, however often the
\* factory reconnects: for every number of requests and jobs.
THEOREM LinkImplementsExchange == Spec => ImplementsExchange
<1>1. Init => NodeCore!Init
  <2> SUFFICES ASSUME Init PROVE NodeCore!Init
    OBVIOUS
  <2>1. link = "none" /\ on_connected = FALSE
    BY DEF Init, StartupInit
  <2>2. phase = "before"
    BY <2>1 DEF phase
  <2> QED BY <2>2 DEF Init, NodeCore!Init
<1>2. ExchangeInv /\ [Next]_<<startupVars, linkVars>> => [NodeCore!Next]_(NodeCore!exchangeVars)
  BY StepImplementsExchange
<1> QED BY <1>1, <1>2, ExchangeInvariant, PTL DEF Spec, ImplementsExchange, NodeCore!Spec
=============================================================================
