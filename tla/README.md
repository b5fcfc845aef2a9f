# A TLA+ model of the VeriBlock stratum pool

This directory holds TLA+ modules that model the core of the repository (the
Python stratum server of a VeriBlock mining pool and its link to NodeCore),
TLC configurations that check them on small instances, and proofs that TLAPS
checks for every instance.  Paths below are relative to `src/stratum-server/`
unless they start with `reference-miner/`.

## The system

    NodeCore <--UCP--> VeriBlockUCP --add_template--> TemplateRegistry
                            ^                            |  |  ^
                            +-------- submit_share ------+  |  | submit_share
             update_network_difficulty                      |  |
       BasicShareLimiter <----------------------------------+  |
            ^   | set_difficulty                 on_template|  |
            |   v                                           v  |
         MiningService <-- ServiceFactory <-- Protocol <--> Pubsub
                                                 ^
                                                 | JSON-RPC lines over TCP
                                             miners (reference-miner)

Everything in the server runs in one Twisted reactor: one event (a segment of
a connection, a line of NodeCore, a timer) is handled to its end before the
next one starts, and every service the pool loads answers at once.  What is
concurrent is outside the reactor: NodeCore, the connections, the garbage
collector that empties the weak dictionaries, and the threads of the miner.

| component | state | operations | what is hard | what makes it correct |
|---|---|---|---|---|
| template registry (`lib/template_registry.py`, `lib/block_template.py`) | templates by prevhash, weak dictionary of jobs, last template, submits and final solution of a template | `add_template`, `get_job`, `submit_share` | reorganisations, reused job ids, dropped templates that linger, several blocks of one template, exceptions half way | a job id finds the right template or none; a share is paid once and only on a live template; a solved block reaches NodeCore |
| share limiter (`lib/basic_share_limiter.py`) | statistics of a worker, ring buffer, network difficulty, session difficulty | `submit`, `update_network_difficulty` | shared statistics of several connections, class change and wrap-around of the buffer, bounds that move | the average is over the latest gaps, retargets keep their distance, difficulty stays in its window |
| mining service (`mining/`) | session of a connection, extranonce counter | `authorize`, `subscribe`, `submit`, `on_template` | the order of difficulty, job and answers; a session changed by a call that then fails | a miner knows its difficulty and the newest job and is judged by what it was told |
| publish/subscribe (`stratum/stratum/pubsub.py`) | subscriptions in sessions and in a weak set | `subscribe`, `unsubscribe`, `emit` | subscribing during a request, closed connections | every live subscriber hears every event |
| service dispatch (`stratum/stratum/services.py`) | table of service classes by type and vendor | `register_service`, `lookup`, `call` | classes that register again, defaults that are found in the order of a dictionary | one class per vendor, one default per type, and the default stays |
| connection protocol (`stratum/stratum/protocol.py`) | lookup table of outgoing calls, request counter and `on_finish` of a batch | `dataReceived`, `lineReceived`, `process_response`, `process_failure`, `rpc`, `connectionLost` | batches, malformed lines, answers that come later or after the connection | a counter counts what is unanswered, `on_finish` fires when the batch is answered, a caller is told once |
| client transport (`stratum/stratum/socket_transport.py`, `socksclient.py`) | commands to resume, host, time-out, `on_connect` | `connectionMade`, `subscribe`, `reconnect`, `retry`, `connection_timeout` | a time-out, attempts and lost connections that race; a change of host at any time | every command is in force on every connection; the client follows the host last asked for |
| start-up (`launcher.tac`, `mining/__init__.py`, `mining/interfaces.py`, `stratum/stratum/__init__.py`) | managers, interfaces, services of the application | `mining.setup`, `stratum.setup`, `setup_finalize` | managers that load before or after twistd starts, ports that are taken | no miner comes in too early, and a pool that is ready serves |
| NodeCore link (`lib/veriblock_ucp.py`) | `on_connected`, request ids, weak dictionary of Deferreds | `authenticate`, `subscribe`, `submit_share`, line handlers | broken and repeated connections, answers to forgotten requests | an answer belongs to its request and is reported |
| reference miner (`reference-miner/`) | pending requests, workers with job, target and extranonce | reader thread, `onSubscribed`, `onJob`, `onDifficultyChanged`, worker loop | threads that share fields without locks | a worker moves on to the newest job; a share belongs to the job it names |
| semaphore, other transports, signatures, helpers | see PROJECT.json | | | |

`PROJECT.json` lists every component with its status and every hazard of the
code with its line.

## Modules

**JobBoard** is what the pool promises about work: a board of jobs that the
next chain tip wipes, and a credit paid at most once for a solution of a job
on the board.

**TemplateRegistry** models the registry.  `add_template` is the whole method
with the callback to the limiter (`network_diff`).  `submit_share` is split by
the way it ends: `RefuseShare` (SubmitException), `FailDecoding`
(binascii.Error), `RefuseDuplicate` (the TypeError of the log statement),
`FailMerkle` (OverflowError after the share is registered) and `CheckWork`,
which ends in `RefuseLow`, `AcceptShare` or `AcceptBlock`.  `Collect` is the
garbage collector.  A template is a record whose number stands for its
identity; a hash is any member of a set of numbers, chosen when it is
computed.  A block's target is the integer quotient of the largest target, a
share's is the float that Python 3's `/` gives (`diff_to_target`), compared with
the exact hash.  The variables `arrived`, `judged` and `credits` are histories
that only properties read.

**Floats** is that division, for registry and limiter: `rounded(n, d)` is the
float nearest to the quotient, the even one of two.  A float is a natural
number, counted in a unit in which every float met is whole; which naturals are
floats is a parameter, of which `FloatAssumption` says how close and how far
apart neighbours are.  Doubles satisfy it over the range in use: with a unit of
2^-40, for instance, `Mantissa` is 2^53, the limiter's minimum of 65536 is 2^56
and `Largest` can be 2^200, with quotients counted in units of 2^-150.  In
the registry the largest target is counted in the unit of the difficulties, so
that targets and hashes are plain numbers.  A session difficulty that is still an int has the same target as one that is a
float of that value: a float makes 2^192 of the largest target first, and no
midpoint of two floats lies between the two quotients.

**ShareLimiter** models `submit` of the limiter, one action per way it
returns, over the two classes of the ring buffer.  Difficulties are floats of
that kind.  Doubling and halving are exact; a difficulty that reaches a bound is
`scaled`, which is `current * (bound / current)` with both roundings, and may
land next to the bound: 1605632 is halved to 100352.0, which becomes
65535.99999999999 and not 65536.  `float_difficulty` and `float_cur` keep what
Python holds as a float where it changes what happens.  A `Tick` lets time pass.

**MiningService** extends TemplateRegistry with connections and sessions.  A
batch (`serving`) is the complete lines of one `dataReceived`; a subscription
sends its difficulty and its job in `FinishBatch`.  Of the limiter it keeps
the effect on a session: none, a new difficulty that is told at once, or an
exception.  `submit` reads `share_difficulty` before the limiter runs, then
takes the registry's step.  The share manager it reports to is not modelled; a
duplicate's TypeError, which goes past that report, changes nothing else.

**ServiceFactory** is the table of service classes: `registered` keeps a
dictionary's order, `lookup` returns the place of the class that answers.

**RpcProtocol** extends it with one connection of `stratum/protocol.py`.
`dataReceived(n)` begins a batch of n complete lines, each `HandleLine` is one
pass of the loop, `EndBatch`, `TailTooLong` and `Abort` are the ways out of
it.  `counter` and `finished` are the two fields of a batch's `RequestCounter`
object; `pending` are the services that have not fired their Deferred, which
`Answer` does later, also after the connection is lost.  A line is a call, a
notification, a response or something that raises, by the exception's place:
before the line is counted (`Undecodable`), after it (`Unexpected`) or after
the caller was taken from the table (`ResponseMalformed`).  `subscription` is
the part of `pubsub.py` and `mining/subscription.py` that hooks `on_finish`.
What Twisted does with an exception (`dataReceived` returns it and the
transport drops the connection) is external and part of the same step.

**ClientTransport** extends RpcProtocol with the reconnecting factory and the
client's protocol class: `NewConnection` starts the protocol's variables
afresh with every connection, `OnConnection` takes the steps of RpcProtocol,
and those that end the connection run `connectionLost` of the factory too.
`sockswrapper` is the connection through a proxy, which Python 3 never gets
past the request.

**PoolStartup** models how a pool comes up.  `Launch` is the last line of
`launcher.tac`; `Continue` takes `mining.setup` as far as the managers allow
and runs `setup_finalize` when it is ready, in one reactor event; `Load` is a
manager's Deferred; `StartApplication` and `StartFails` are twistd, which
starts what is attached by then.

**UcpLink** extends PoolStartup with the link to NodeCore: one protocol object
for every connection of the reconnecting factory, queues in both directions
that a broken connection empties, and NodeCore as the environment.  It shares
`running`, `listening` and `link` with the start-up: blocks come only from
miners that could connect, the reactor connects only once it runs, and
`ConnectionFailed` takes the whole pool down.

**Exchange** is what that link promises: one exchange that comes up, serves
and ends, in which jobs are delivered in order and none is left out, and a
block asked about is answered at most once.  `phase` in UcpLink is its state
seen from the link; `ImplementsExchange` is the refinement.

**ReferenceMiner** models the miner's threads at the grain of their accesses
to shared fields: the main thread that sends the subscription and stores its
future afterwards, the reader thread with the two writes of `setJob` per
worker, and the mining loop of each worker.  The pool's side is what
`mining/service.py`, `mining/subscription.py` and the limiter send a subscriber:
`PoolSubscribes` (answer and difficulty), `PoolNotifies` (a job) and
`PoolRetargets` (another difficulty), in that order first and then at any time.
The connection may end or break.

Eight modules hold the theorems, each named after the module it extends, with
**Proofs** at the end; FloatsProofs has the lemmas on rounding that the registry
and the limiter share.  **MCTemplateRegistry**, **MCShareLimiter** and
**MCMiningService** only define values and symmetry sets for TLC; the others
need none.

A definition marked as a mutant is the operator after it with a plausible bug.
Nothing in a specification uses it; putting it in the operator's place makes
the property named in `PROJECT.json` fail, which shows that the property says
something about the code.

## Runs

| run | what it asks | instance | distinct states |
|---|---|---|---|
| registry | job lookup, the limiter's cap, block delivery, credits and the refinement of JobBoard, over reorganisations, reused ids and the collector | 2 tips, 2 job ids, 3 templates, 2 shares, 2 session difficulties, floats of 3 bits | 22,779 |
| limiter | the ring buffer, the difficulty window and the pace of retargets | 1 worker on 2 connections, buffer of 4, 13 seconds, tips below the pool's target and above the maximum, floats of 4 bits | 1.2 million |
| service | what subscribers know, how shares are judged, whose extranonce is whose | 2 connections that come and go, 3 subscriptions, 2 templates, 2 shares | 199,301 |
| ucp_link | who can connect when, answers and submits over a link that breaks, that both come, and the refinement of Exchange | 2 sets of transports, 5 request ids, 2 jobs | 15,179 |
| rpc | the table of services, what a counter counts, when a batch is finished, who is told what | 1 service of 2 vendors, 2 batches of up to 3 lines, 2 calls | 86,554 |
| client | commands that resume, changes of host, and the time-out | 2 hosts, 2 commands subscribed at most twice, 2 batches of up to 2 lines and 3 calls a connection | 217,524 |
| miner | when threads start, what they mine on, hand-overs of jobs | 2 mining threads, 2 jobs, 2 difficulties | 172,359 |

Each of these ends with every property holding.  Five more runs check one
statement each that a comment or a document of the repository makes, and that
the code does not keep:

| run | statement | what the code does |
|---|---|---|
| block_results_lost | the answer of NodeCore to a block is reported to the share manager (`mining/service.py`) | the Deferred is only in a weak dictionary and may be gone when the answer comes |
| ring_buffer_fails | the speed buffer is a ring buffer | its size is a float in Python 3; the second append after it is full indexes a list by a float |
| float_difficulty | `VDIFF_FLOAT` off means no float difficulty | halving and the cap give floats, and a decimal fraction such as "524288.0" is sent |
| block_refused | a share that leads to a valid block candidate is submitted (`lib/template_registry.py`) | its hash may lie between the float target of a session at the network's difficulty and the integer target of the block: the session's is checked first |
| share_misnamed | a submission names the job its solution is based on | the worker submits under the job the field holds by then |

### Bounds and why they are enough

Every bound is a CONSTANT and stands in a guard; none is in the code.

- Two tips and three templates make the shortest reorganisation away and back,
  with a job id used twice on one tip or across tips.  Two job ids tell a
  reused id from a fresh one.  Two shares make a duplicate, and two blocks of
  one template.  Hashes lie around the targets 42 and 63 of the two
  tips.  As floats of 3 bits these are 40 and 64: one is rounded down, and
  block_refused adds the hash 41 that it costs, the other up.
- The limiter's buffer has four places and a gap is 1, 4 or 8 seconds: below,
  within and above the variance.  Floats have 4 bits, so that roundings miss
  bounds within a few retargets: scaling 20 towards the minimum 13 gives 12, 48
  towards the maximum 52 gives 56.  One tip, 18, is below the pool's 20, the
  other above the maximum.  13 seconds let the buffer fill, change its
  class and fail, and let several retargets pass.  Two connections of one
  worker are the case in which statistics are shared.
- In the service two connections and three subscriptions make a
  reconnection and a second subscription on one connection; two templates make
  one arrive before and one after any of them.
- In rpc two batches are what it takes for a late answer or a subscription of
  the first to meet the second; three lines let one raise after a slow and a
  fast one; two vendors are a default and another one, in every order and as
  often as they like to register again.  In client every connection has its
  own two batches, and the number of connections is not bounded.
- The two sets of transports on the NodeCore link are the one the pool uses
  and one with the order of several, a port that is taken between them and a
  web socket that never listens; managers load before, after or never.
- Five request ids on the NodeCore link are an authentication, a subscription
  and three blocks.  Later connections never get as far as sending.
- Two mining threads are what it takes to stop the reader between them; two
  jobs and two difficulties make a stale one.

All safety properties are proved besides, so for them the bounds only matter
for the confidence that the model can do something.

### Fairness

Four specifications assume any.  In **UcpLink** the reactor handles a
readable connection and runs its retry timer, and NodeCore reads what it was
sent: weak fairness of `ReadLine`, `Retry` and `CoreReads`.  Nothing forces
jobs, solved blocks, lost connections or the collector.  In **ReferenceMiner**
the JVM runs every thread that can run, and the pool answers a subscription:
weak fairness of `MainStep`, `ReaderStep`, `WorkerStep(w)` of each worker and
`PoolSubscribes`.  Nothing forces a nonce range to run out (`ExhaustNonces`)
or a job to come.  In **RpcProtocol** the reactor handles a batch to its end,
as the loop in `lineReceived`'s caller does, and a service that owes an answer
gives it: weak fairness of `HandleLine(b) \/ LeaveBatch(b)` and of `Answer(b)`
for each batch; only the two liveness properties need it, and `SubscriberTold`
says by itself when no service is late.  In **ClientTransport** a timer that
nobody cancels fires: weak fairness of `connection_timeout`.  Nothing forces a
connection, a retry or a line.  Registry, limiter and service react to messages only and
promise nothing by themselves, so their specifications have no fairness.

Deadlock is checked in registry, limiter and service.  The others may stop:
a lost connection has nothing more to do, a client that does not reconnect
ends, so does a pool whose port is taken or whose NodeCore refuses the
connection, and the miner waits for ever when its reader is dead and no job
came.

## Proofs

TLAPS checks them for every value of the constants that satisfies the named
assumptions of the modules (`FloatAssumption`, `RoundingAssumption`,
`RegistryAssumption`, `MarkAssumption`,
`NoBlockAssumption`, `LimiterAssumption`, `BufferAssumption`,
`NoStatsAssumption`, `MinerAssumption`, `VendorAssumption`,
`ProtocolAssumption`, `ClientAssumption`, `StartupAssumption`,
`LinkAssumption`, `ServiceAssumption`); TLC evaluates these in the runs.

**Floats.**  What the other proofs know of rounding is three lemmas: a quotient
between two floats is rounded to one between them (`RoundedBetween`), it
moves by at most a `Mantissa`-th (`RoundedClose`), and a larger divisor never
makes it larger (`RoundedFalls`).

**TemplateRegistry.**  The properties are about what a job id finds now and
about shares judged long ago; neither is inductive.  `RegistryInv` relates
both to the history of arrivals: `ArrivalOrder` and `LastArrived` say that
templates are numbered in order and the last is served; `RetainedExact` that
the lists hold exactly the templates since the last move of the tip;
`JobsNewest` that a job id in the weak dictionary is that of its newest
template; `JobsComplete` that the collector spares what the lists hold;
`JudgedRight`, `SentJudged` and `FinalJudged` tie submits, sent blocks and
finalized templates to the verdicts.  `add_template` and `submit_share` each
disturb some parts and have a lemma.  `TargetsOrdered` is what rounding needs:
two difficulties are floats, hence far enough apart for the float target of the
smaller one to stay above the integer target of the larger.  So a session below
the network's difficulty, however little, has no block refused
(`NoBlockIsLost`); at the network's difficulty it may, which is the run
block_refused.  From the invariant follow also `LookupIsExact`,
`NetworkDiffIsTips`, `FinalValidationNeverFails`,
`EverySharePaidOnce` (with a cardinality argument: every accepted share adds
one judgement and one credit) and `RegistryImplementsJobBoard`.

**ShareLimiter.**  `LimiterInv` adds to the types that statistics are of the
past (so that no gap is negative), that an entry's check time is not before
the worker's last check, that the network's difficulty is at least the minimum
if every tip's is, and `RingsHold`: how the buffer stands to the gaps, class
by class.  The last says what happens after the first overwriting append,
which is also the last one that works.  `AppendHolds` is the lemma on the ring
buffer alone; the bound in time plays no part.  The window is one float wider
than the settings on either side, and stays that wide: `ScaledNear` shows that the
two roundings of a rescaling never cross the neighbour of the bound, whatever
the difficulty was before, and `SlowerNear` and `FasterNear` that halving and
doubling do not either.  From it follow `WindowKept`, `BufferIsLatest` and the action property `RetargetsKeepPace`.
Two theorems say how far the run ring_buffer_fails reaches: a buffer that fills
takes one share more (`FullBufferTakesOne`), and the worker is stuck for ever
(`StuckForEver`, a temporal theorem: no step of anybody repairs it).
`DifficultyFollowsPace` bounds each change of a difficulty by the pace that
caused it: with fast shares it doubles or ends within one float of the cap, and
never more than doubles; with slow ones it falls or ends within one float of the
minimum, and never by more than half.

**ReferenceMiner.**  `MinerInv` carries the order of the connection over to
the threads: until every worker has a target, only answers precede a
difficulty that sets one (`DifficultyComesFirst`), so that a job can only be
handed over afterwards (`JobsComeAfter`); and `StaleWorkFlagged` is part of
it, being inductive itself.  `TargetBeforeAnyWork` and `NoHandOverLost` follow.
`OrderInv` carries the order of jobs the same way: they are queued by rising
numbers behind the one that was handed over last (`JobsQueued`), no thread has
a newer job than the reader and none builds or names one newer than its own
(`JobsRise`), the reader's loop leaves the newest job behind it (`HandedOver`),
and the answer to the subscription is the head of the queue until the threads
run (`AnswerLeads`).  `SendKeepsQueue` and `ReadKeepsQueue` are the lemmas on
the queue.  From it follow `SharesNameNoOlderJob` (what the run share_misnamed
leaves true), `NewestJobOrFlag`, `OnlyTheAnswerIsMissing` and the action
property `JobsReachThreadsInOrder`.

**MiningService.**  A miner is told things at the end of its batch, so what it
knows and what its session holds agree only between batches.  `SessionInv`
says what holds in between: `SessionsHold` (a connection has an extranonce and
a difficulty exactly if it subscribed, and extranonces rise), `BatchesHold`
(a subscription waits only in the batch that is being handled) and
`TellingHolds` (who does not wait has been told, who waits has been told
nothing older).  It needs `RegistryInv`, which says that the last template is
the newest, and that in turn is kept because every step of the service is one
of the registry: `ServiceImplementsRegistry` is `ServiceSpec => Spec`, so that
every theorem about the registry holds below the service.  From the invariant
follow `SubscribersAreInformed`, `ExtranoncesNeverMeet` and the action
property `SharesJudgedAsTold`.  With the refinement the registry's theorems are
stated for the service too (`RegistryHoldsBelow`), and the two invariants
together give what neither gives alone: the job a subscriber was last told is
found under its id (`ToldJobIsFound`), and no connected miner is sent back to an
older one (`JobsOnlyGoForward`).

**RpcProtocol.**  The properties are nearly inductive.  `Inv` adds to them
`WithinBatch` (a batch is never answered more often than it has lines, and one
that has not arrived is empty and unfinished), `Uncalled` (a call not made yet
was not answered), and the types.  `FinishEffect` and `DecreaseEffect` say
once what the answer of a request does to its batch; `RegisterKeepsDefault` is the lemma on
the table of services.  From it follow `CounterIsRight`, `FinishIsExact`,
`CallersToldOnce`, `NeverTwoDefaults` and the action property `DefaultsStay`.
`Inv` does not say who still has to do something for a batch; `OwingInv` does:
outside the loop every line of a batch was handled or dropped
(`LinesHandled`), what is unanswered is what services owe (`Unanswered`), and a
subscription waits on a batch that still has something to come
(`WaitsForBatch`).  From it follow `SomeoneAlwaysOwes` and
`SubscriberWaitsRightly`, and `WorkAlwaysShrinks` adds the variant: twice the
lines left plus the answers owed never grows once the batch arrived, and each
line and each late answer makes it smaller or finishes the batch.

**ClientTransport.**  `ClientInv` adds that the loop over a batch runs on an
open connection only and that `new_host` is nothing or the host last asked
for.  The lemmas about the protocol's steps are those of RpcProtocolProofs;
the new ones say which of them end the connection.  From it follow
`CommandsResume`, `HostIsFollowed` and `HostIsKept`.  The protocol's invariants
hold on every connection anew (`EveryConnectionIsRight`).  A client has no
services, so no answer is late (`AloneInv`), and between two events it has no
unfinished batch (`ClientFinishesAtOnce`); a caller that waits for the first
connection still has its timer (`TimerIsNotLost`).

**UcpLink.**  `StartupInv` ties the place of `mining.setup` to what is in
place (`SetupPlace`) and to what runs (`RunningListens`); the link's actions
keep it because they leave the start-up's variables alone.  For the link
`OneLineEach` says that no two lines in flight, in either direction, are about
one submitted block, `LinesMatter` that what they are about was sent and has
no answer, and `HistoryInv` that ids rise.  One lemma per kind of change of
the two queues (`ReplyAppended`, `CommandAppended`, `AnswerRead`, `LineRead`,
`CommandRead`, `NewLines`) carries them through the actions.  From it follow
`ListensOnlyWhenReady` and `LoadedPoolServes`; `FirstConnectionIsTheOnlyOne`
needs no invariant.

**UcpLink and Exchange.**  `LinkInv` bounds what is in flight from above; that every
submit without an answer is in flight while the link is up needs a bound from
below.  `ExchangeInv` adds it: `Handshake` (until the pool is subscribed the
link carries the next line of the handshake and nothing else, or a refusal), `Phases` (how the
abstract phase stands to the link and to what NodeCore knows), `JobsInOrder`
(jobs in flight are numbered from the one delivered last to the one sent last)
and `NothingLost`.  `HandshakeInOrder` and `AnswersAreMatched` follow, and the
refinement `LinkImplementsExchange`: NodeCore's reading of MINING_SUBSCRIBE is
`Serve`, the pool's of a job `Deliver`, a submit `Ask`, reading its answer `Answer`,
and the loss of the first connection, or a pool that is taken down before it
has one, `End`; every other step stutters.

Only model-checked is liveness (`SubscribesAfterAuth`, `SubmitsAnswered`,
`HandedJobIsMined`, `MiningStarts`, `BatchFinishes`, `SubscriberTold`,
`FirstWaiterTold`), which the installed provers cannot do.  What each of these
relies on besides fairness is proved: nobody waits for something that was lost.

| liveness property | theorem: what is not lost meanwhile |
|---|---|
| SubscribesAfterAuth | HandshakeInOrder: the next line of the handshake is on the link |
| SubmitsAnswered | AnswersAreMatched: the submit or its answer is in flight while the link is up |
| HandedJobIsMined | NewestJobOrFlag: a thread on an old job has its flag raised |
| MiningStarts | OnlyTheAnswerIsMissing: the answer is still to be sent or read |
| BatchFinishes | SomeoneAlwaysOwes, WorkAlwaysShrinks: the loop or a service is still to act, and can act only so often |
| SubscriberTold | SubscriberWaitsRightly: the batch it waits on is not finished |
| FirstWaiterTold | TimerIsNotLost: the timer is running |

That the sum over the ring buffer is the sum over the latest gaps is an
induction over data and is not proved: `BufferIsLatest` says that the entries
are those gaps.

## What is not modelled

- What the worker manager decides: `authorize` and the refusal of a worker are
  steps that may always happen.  The packing of the extranonce is a count.
- Where a share is between miner and pool: the lines of a batch come with it,
  so that a second share can be on its way when the first one changes the
  difficulty, but what its miner knew when it wrote the line is not kept.
  `JudgedAsTold` speaks of the difficulty last sent before the line is handled.
- What the share manager is told: the default one of
  `mining/interfaces.py` only logs it.
- Hashes, Merkle roots, headers and encodings are abstract values; a field of
  the wrong length and one that is not hexadecimal are told apart because they
  end differently.
- With `VDIFF_X2_TYPE` off the limiter reads a name it does not have when the
  difficulty should change: that exception is modelled, and nothing behind it is reached.
- Twisted (the pinned 19.2.1) is external: that an exception in `dataReceived`
  drops the connection, that `loseConnection` stops reading, that a service
  attached to a running application is started at once and that an error in a
  Deferred's callback goes no further are taken from how `src/` relies on them.
- The HTTP transport: `getSession` calls `string.join`, which Python 3 does not
  have, so that no request gets as far as the protocol it would wrap, and the
  semaphore it would use is never reached.  A web socket transport never
  listens (PoolStartup says why), so its protocol class is never made.
- Of the connection protocol the signature of messages, of the client the
  length of a retry's delay, of the service table the decorators `admin`,
  `synchronous` and `signature` and the services of `ServiceDiscovery`, which
  only read it: no service of the pool uses them.
- `unsubscribe` and the lookup by event and key in `pubsub.py`: nothing calls
  them.
- The IRC lurker and its list of peers, which the pool does not read; the
  handshake of the SOCKS client after the request that fails.
- Signatures, configuration, logging, statistics, the proof-of-work hash and
  the example service, which the launcher does not load: `PROJECT.json` has
  the reason for each.

## Plan

Done, in this order: registry with its abstract job board, limiter, service
over the registry, NodeCore link, reference miner, dispatch and connection
protocol, client transport over it, start-up composed with the link, the link's abstract
exchange; each with proofs of its safety, and of the safety that its liveness
rests on.  What could follow:

1. A worker manager that answers late, which makes the service asynchronous:
   RpcProtocol has the protocol's side of it.
2. The quotients of the limiter with `VDIFF_X2_TYPE` off, should the name it
   lacks be put in.
3. The subscription of RpcProtocol joined with the sessions of MiningService,
   once a service of the pool answers late.
