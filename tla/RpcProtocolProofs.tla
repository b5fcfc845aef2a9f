-------------------------- MODULE RpcProtocolProofs --------------------------
(***************************************************************************)
(* Theorems about the service table and the connection protocol, for every *)
(* set of services and vendors and any number of batches, lines and calls. *)
(***************************************************************************)
EXTENDS RpcProtocol, SequenceTheorems, TLAPS

-----------------------------------------------------------------------------
(* The table of services *)

FactoryInv == FactoryTypeOK /\ OneDefault

\* A default of a type is what a call without a vendor finds.
LEMMA DefaultIsFound ==
  ASSUME FactoryInv, NEW t \in ServiceType, NEW k \in Default(t)
  PROVE  k \in lookup(t, NoVendor)
<1>1. \A j \in Default(t) : k <= j
  <2> SUFFICES ASSUME NEW j \in Default(t) PROVE k <= j
    OBVIOUS
  <2>1. k = j
    BY DEF FactoryInv, OneDefault, Default
  <2>2. k \in Nat
    BY DEF FactoryInv, FactoryTypeOK, Default
  <2> QED BY <2>1, <2>2
<1> QED BY <1>1 DEF lookup

\* Registering a class, or replacing one, leaves one class per vendor and one
\* default per type.
LEMMA RegisterKeepsInv ==
  ASSUME FactoryInv, NEW t \in ServiceType, NEW v \in Vendor, NEW d \in BOOLEAN,
         register_service(t, v, d)
  PROVE  FactoryInv'
<1> DEFINE r == registry[t]
           cls == [vendor |-> v, is_default |-> d]
           new == registered(t, cls)
<1>1. r \in Seq(ServiceClass) /\ cls \in ServiceClass
  BY DEF FactoryInv, FactoryTypeOK, ServiceClass
<1>2. v # NoVendor
  BY VendorAssumption
<1>3. d => \A i \in DOMAIN r : ~r[i].is_default
  BY DefaultIsFound DEF register_service, Default
<1>4. \A i, j \in DOMAIN r :
        \/ r[i].vendor = r[j].vendor
        \/ r[i].is_default /\ r[j].is_default
        => i = j
  BY DEF FactoryInv, OneDefault
<1>5. registry' = [registry EXCEPT ![t] = new]
  BY DEF register_service
<1>6. /\ new \in Seq(ServiceClass)
      /\ \A i, j \in DOMAIN new :
           \/ new[i].vendor = new[j].vendor
           \/ new[i].is_default /\ new[j].is_default
           => i = j
  <2>1. CASE \A i \in DOMAIN r : r[i].vendor # v
    <3>1. new = Append(r, cls)
      BY <2>1, <1>2 DEF registered, lookup
    <3>2. new \in Seq(ServiceClass) /\ DOMAIN new = 1..Len(r) + 1
      BY <3>1, <1>1
    <3>3. DOMAIN r = 1..Len(r) /\ Len(r) \in Nat
      BY <1>1
    <3>4. /\ \A i \in DOMAIN r : new[i] = r[i]
          /\ new[Len(r) + 1] = cls
      BY <3>1, <1>1
    <3>5. \A i \in DOMAIN new : i \in DOMAIN r \/ i = Len(r) + 1
      BY <3>2, <3>3
    <3>6. cls.vendor = v /\ cls.is_default = d
      OBVIOUS
    <3> HIDE DEF new, r, cls
    <3> QED BY <1>3, <1>4, <2>1, <3>2, <3>4, <3>5, <3>6
  <2>2. CASE \E i \in DOMAIN r : r[i].vendor = v
    <3>1. new = [i \in DOMAIN r |-> IF r[i].vendor = v THEN cls ELSE r[i]]
      BY <2>2, <1>2 DEF registered, lookup
    <3>2. DOMAIN r = 1..Len(r) /\ Len(r) \in Nat
      BY <1>1
    <3>3. \A i \in DOMAIN r : r[i] \in ServiceClass
      BY <1>1
    <3>4. new \in [1..Len(r) -> ServiceClass]
      BY <3>1, <3>2, <3>3, <1>1
    <3>5. new \in Seq(ServiceClass)
      BY <3>4, <3>2
    <3>6. DOMAIN new = DOMAIN r
      BY <3>1
    <3>7. cls.vendor = v /\ cls.is_default = d
      OBVIOUS
    <3>8. \A i \in DOMAIN r : new[i].vendor = r[i].vendor
      BY <3>1, <3>7
    <3>9. \A i \in DOMAIN r : new[i].is_default =>
            \/ r[i].is_default /\ ~d
            \/ r[i].vendor = v /\ d
      BY <3>1, <3>7, <1>3
    <3> HIDE DEF new, r, cls
    <3> QED BY <1>4, <3>5, <3>6, <3>8, <3>9
  <2> QED BY <2>1, <2>2
<1> HIDE DEF new
<1>7. FactoryTypeOK'
  BY <1>5, <1>6 DEF FactoryInv, FactoryTypeOK
<1>8. OneDefault'
  <2> SUFFICES ASSUME NEW u \in ServiceType,
                      NEW i \in DOMAIN registry'[u], NEW j \in DOMAIN registry'[u],
                      \/ registry'[u][i].vendor = registry'[u][j].vendor
                      \/ registry'[u][i].is_default /\ registry'[u][j].is_default
               PROVE  i = j
    BY DEF OneDefault
  <2>1. CASE u = t
    <3>1. registry'[u] = new
      BY <2>1, <1>5 DEF FactoryInv, FactoryTypeOK
    <3> QED BY <3>1, <1>6
  <2>2. CASE u # t
    <3>1. registry'[u] = registry[u]
      BY <2>2, <1>5 DEF FactoryInv, FactoryTypeOK
    <3> QED BY <3>1 DEF FactoryInv, OneDefault
  <2> QED BY <2>1, <2>2
<1> QED BY <1>7, <1>8 DEF FactoryInv

\* Once a type has a default, a call without a vendor finds it and no other,
\* and registering another class leaves it so.
LEMMA RegisterKeepsDefault ==
  ASSUME FactoryInv, FactoryInv', NEW u \in ServiceType, NEW v \in Vendor,
         NEW d \in BOOLEAN, register_service(u, v, d),
         NEW t \in ServiceType, Default(t) # {}, Default(t)' # {}
  PROVE  Answering(t)' = Answering(t)
<1> DEFINE r == registry[t]
           cls == [vendor |-> v, is_default |-> d]
<1>1. PICK k \in Default(t) : TRUE
  OBVIOUS
<1>2. PICK n \in Default(t)' : TRUE
  OBVIOUS
<1>3. Answering(t) = {r[k].vendor}
  <2>1. Default(t) = {k} /\ k \in Nat
    BY DEF FactoryInv, FactoryTypeOK, OneDefault, Default
  <2>2. lookup(t, NoVendor) = {k}
    BY <2>1 DEF lookup
  <2> QED BY <2>2 DEF Answering
<1>4. Answering(t)' = {registry'[t][n].vendor}
  <2>1. Default(t)' = {n} /\ n \in Nat
    BY DEF FactoryInv, FactoryTypeOK, OneDefault, Default
  <2>2. lookup(t, NoVendor)' = {n}
    BY <2>1 DEF lookup
  <2> QED BY <2>2 DEF Answering
<1>5. registry' = [registry EXCEPT ![u] = registered(u, cls)]
  BY DEF register_service
<1>6. registry'[t][n].vendor = r[k].vendor
  <2>1. CASE t # u
    <3>1. registry'[t] = r
      BY <2>1, <1>5 DEF FactoryInv, FactoryTypeOK
    <3>2. n \in Default(t)
      BY <3>1 DEF Default
    <3> QED BY <3>1, <3>2 DEF FactoryInv, OneDefault, Default
  <2>2. CASE t = u
    <3>1. registry'[t] = registered(t, cls)
      BY <2>2, <1>5 DEF FactoryInv, FactoryTypeOK
    <3>2. ~d
      BY <2>2, <1>1, DefaultIsFound DEF register_service, Default
    <3>3. n \in DOMAIN r /\ registry'[t][n] = r[n]
      <4>1. n \in DOMAIN registered(t, cls) /\ registered(t, cls)[n].is_default
        BY <3>1 DEF Default
      <4>2. ~cls.is_default
        BY <3>2
      <4>3. r \in Seq(ServiceClass)
        BY DEF FactoryInv, FactoryTypeOK
      <4>4. CASE registered(t, cls) = Append(r, cls)
        BY <3>1, <4>1, <4>2, <4>3, <4>4
      <4>5. CASE registered(t, cls) =
                   [i \in DOMAIN r |-> IF r[i].vendor = v THEN cls ELSE r[i]]
        BY <3>1, <4>1, <4>2, <4>5
      <4> QED BY <4>4, <4>5 DEF registered
    <3>4. n \in Default(t)
      BY <3>1, <3>3, <1>2 DEF Default
    <3> QED BY <3>3, <3>4 DEF FactoryInv, OneDefault, Default
  <2> QED BY <2>1, <2>2
<1> QED BY <1>3, <1>4, <1>6

-----------------------------------------------------------------------------
(* The protocol *)

\* A batch is never answered more often than it has lines, and one that has
\* not arrived is empty and unfinished.
WithinBatch ==
  \A b \in Batch :
    /\ left[b] + pending[b] <= size[b]
    /\ b > batch => size[b] = 0 /\ ~finished[b]

\* Calls not made yet have not been answered.
Uncalled == \A c \in Call : c > request_id => fired[c] = 0

BatchInv == CounterCounts /\ WithinBatch /\ FinishedWhenAnswered

CallInv == EachCallerToldOnce /\ Uncalled

Inv == TypeOK /\ OneDefault /\ BatchInv /\ CallInv

\* Whatever waits on a batch, finishing it leaves a subscription.
LEMMA ToldTyped ==
  ASSUME NEW s \in Subscription, NEW b \in Batch, batch \in 0..MaxBatches
  PROVE  told(s, b) \in Subscription
<1>1. b \in 0..MaxBatches
  BY ProtocolAssumption DEF Batch
<1> QED BY <1>1 DEF told, Subscription

\* finish sets one flag and no other.
LEMMA FinishEffect ==
  ASSUME TypeOK, NEW s \in Subscription, NEW b \in Batch, finish(b, s)
  PROVE  /\ finished' = [finished EXCEPT ![b] = TRUE]
         /\ finished' \in [Batch -> BOOLEAN]
         /\ subscription' \in Subscription
<1>1. told(s, b) \in Subscription
  BY ToldTyped DEF TypeOK
<1> QED BY <1>1 DEF finish, TypeOK

\* decrease lowers one counter and finishes its batch when nothing is left.
LEMMA DecreaseEffect ==
  ASSUME TypeOK, NEW s \in Subscription, NEW b \in Batch, decrease(b, s)
  PROVE  /\ counter' = [counter EXCEPT ![b] = @ - 1]
         /\ counter' \in [Batch -> Int]
         /\ finished' \in [Batch -> BOOLEAN]
         /\ \A d \in Batch : finished'[d] <=> finished[d] \/ (d = b /\ counter[b] <= 1)
         /\ subscription' \in Subscription
<1>1. counter' = [counter EXCEPT ![b] = @ - 1] /\ counter[b] \in Int
  BY DEF decrease, TypeOK
<1>2. counter' \in [Batch -> Int]
  BY <1>1 DEF TypeOK
<1>3. CASE counter[b] - 1 <= 0
  <2>1. finish(b, s)
    BY <1>3 DEF decrease
  <2>2. /\ finished' = [finished EXCEPT ![b] = TRUE]
        /\ finished' \in [Batch -> BOOLEAN] /\ subscription' \in Subscription
    BY <2>1, FinishEffect
  <2>3. \A d \in Batch : finished'[d] <=> finished[d] \/ d = b
    <3> SUFFICES ASSUME NEW d \in Batch
                 PROVE  finished'[d] <=> finished[d] \/ d = b
      OBVIOUS
    <3>1. CASE d = b
      BY <2>2, <3>1 DEF TypeOK
    <3>2. CASE d # b
      BY <2>2, <3>2 DEF TypeOK
    <3> QED BY <3>1, <3>2
  <2>4. counter[b] <= 1
    BY <1>1, <1>3
  <2>5. \A d \in Batch : finished'[d] <=> finished[d] \/ (d = b /\ counter[b] <= 1)
    BY <2>3, <2>4
  <2> QED BY <1>1, <1>2, <2>2, <2>5, Zenon
<1>4. CASE ~(counter[b] - 1 <= 0)
  BY <1>1, <1>2, <1>4 DEF decrease, TypeOK
<1> QED BY <1>3, <1>4

\* The steps of one connection, from its first segment to its loss.
ConnectionStep ==
  \/ \E n \in 0..MaxLines : dataReceived(n)
  \/ \E b \in Batch : HandleLine(b) \/ LeaveBatch(b) \/ Disconnecting(b) \/ Answer(b)
  \/ rpc \/ connectionLost

\* A subscription that is registered now.
LEMMA SubscribingTyped ==
  ASSUME TypeOK
  PROVE  [stage |-> "after_subscribe", on |-> batch] \in Subscription
BY DEF TypeOK, Subscription

\* Calls of this side change with rpc and with responses only.
LEMMA CallStep ==
  ASSUME TypeOK, CallInv, ConnectionStep
  PROVE  /\ CallInv' /\ lookup_table' \subseteq 1..request_id'
         /\ request_id' \in 0..MaxCalls /\ fired' \in [Call -> Nat]
<1> USE ProtocolAssumption DEF Call
<1>0. /\ request_id \in 0..MaxCalls /\ lookup_table \subseteq 1..request_id
      /\ fired \in [1..MaxCalls -> Nat]
  BY DEF TypeOK
<1>1. CASE UNCHANGED callVars /\ (Open' => Open)
  BY <1>0, <1>1 DEF callVars, CallInv, EachCallerToldOnce, Uncalled
<1>2. ASSUME NEW b \in Batch, NEW c \in Call, Response(b, c)
      PROVE  CallInv' /\ lookup_table' \subseteq 1..request_id' /\ request_id' \in 0..MaxCalls
             /\ fired' \in [Call -> Nat]
  <2>1. /\ c \in lookup_table /\ lookup_table' = lookup_table \ {c}
        /\ fired' = [fired EXCEPT ![c] = @ + 1] /\ request_id' = request_id
        /\ conn' = conn
    BY <1>2 DEF Response, taken, Counted
  <2> QED BY <1>0, <2>1 DEF CallInv, EachCallerToldOnce, Uncalled, Open
<1>3. ASSUME NEW b \in Batch, NEW c \in Call, ResponseMalformed(b, c)
      PROVE  CallInv' /\ lookup_table' \subseteq 1..request_id' /\ request_id' \in 0..MaxCalls
             /\ fired' \in [Call -> Nat]
  <2>1. /\ lookup_table' = lookup_table \ {c} /\ conn' = "lost"
        /\ fired' = fired /\ request_id' = request_id
    BY <1>3 DEF ResponseMalformed, taken, Abort
  <2> QED BY <1>0, <2>1 DEF CallInv, EachCallerToldOnce, Uncalled, Open
<1>4. CASE rpc
  <2>1. /\ request_id < MaxCalls /\ request_id' = request_id + 1
        /\ lookup_table' = lookup_table \cup {request_id + 1}
        /\ fired' = fired /\ conn' = conn
    BY <1>4 DEF rpc, get_id
  <2> QED BY <1>0, <2>1 DEF CallInv, EachCallerToldOnce, Uncalled, Open
<1>5. CASE \E n \in 0..MaxLines : dataReceived(n)
  BY <1>1, <1>5 DEF dataReceived, Open
<1>6. CASE connectionLost
  BY <1>1, <1>6 DEF connectionLost, Open
<1>7. ASSUME NEW b \in Batch, LeaveBatch(b) \/ Disconnecting(b) \/ Answer(b)
      PROVE  UNCHANGED callVars /\ (Open' => Open)
  BY <1>7 DEF LeaveBatch, Disconnecting, EndBatch, TailTooLong, Answer, Abort, Open
<1>8. ASSUME NEW b \in Batch,
             \/ Serve(b) \/ Unexpected(b) \/ Undecodable(b)
             \/ \E path \in Path : ServeSubscribe(b, path) \/ ServeLater(b, path)
      PROVE  UNCHANGED callVars /\ (Open' => Open)
  BY <1>8 DEF Serve, Unexpected, Undecodable, ServeSubscribe, ServeLater, Counted,
     Abort, Open
<1> QED
  BY <1>1, <1>2, <1>3, <1>4, <1>5, <1>6, <1>7, <1>8 DEF ConnectionStep, HandleLine

\* What a step does to the batches: nothing, one more batch, one line or one
\* answer of a batch counted, or its end.
LEMMA BatchStep ==
  ASSUME TypeOK, BatchInv, ConnectionStep
  PROVE  /\ BatchInv'
         /\ batch' \in 0..MaxBatches /\ serving' \in 0..batch'
         /\ size' \in [Batch -> 0..MaxLines] /\ left' \in [Batch -> 0..MaxLines]
         /\ pending' \in [Batch -> 0..MaxLines] /\ counter' \in [Batch -> Int]
         /\ finished' \in [Batch -> BOOLEAN] /\ subscription' \in Subscription
<1> DEFINE
      Typed == /\ batch' \in 0..MaxBatches /\ serving' \in 0..batch'
               /\ size' \in [Batch -> 0..MaxLines] /\ left' \in [Batch -> 0..MaxLines]
               /\ pending' \in [Batch -> 0..MaxLines] /\ counter' \in [Batch -> Int]
               /\ finished' \in [Batch -> BOOLEAN] /\ subscription' \in Subscription
<1> USE ProtocolAssumption
<1>1. CASE UNCHANGED batchVars /\ (conn' = "up" => conn = "up")
  BY <1>1 DEF batchVars, TypeOK, BatchInv, CounterCounts, WithinBatch, FinishedWhenAnswered
<1>2. ASSUME NEW n \in 0..MaxLines, dataReceived(n)
      PROVE  BatchInv' /\ Typed
  <2>1. /\ batch + 1 \in Batch /\ batch' = batch + 1 /\ serving' = batch + 1
        /\ size' = [size EXCEPT ![batch + 1] = n]
        /\ left' = [left EXCEPT ![batch + 1] = n]
        /\ counter' = [counter EXCEPT ![batch + 1] = n]
        /\ pending' = pending /\ finished' = finished
        /\ subscription' = subscription /\ conn' = conn
    BY <1>2 DEF dataReceived, TypeOK, Batch
  <2>2. Typed
    <3>1. batch' \in 0..MaxBatches /\ serving' \in 0..batch'
      BY <2>1 DEF TypeOK, Batch
    <3>2. /\ size' \in [Batch -> 0..MaxLines] /\ left' \in [Batch -> 0..MaxLines]
          /\ pending' \in [Batch -> 0..MaxLines]
      BY <2>1 DEF TypeOK
    <3>3. n \in Int
      OBVIOUS
    <3>4. counter' \in [Batch -> Int]
      BY <2>1, <3>3 DEF TypeOK
    <3>5. finished' \in [Batch -> BOOLEAN] /\ subscription' \in Subscription
      BY <2>1 DEF TypeOK
    <3> QED BY <3>1, <3>2, <3>4, <3>5
  <2>3. pending[batch + 1] = 0 /\ ~finished[batch + 1]
    BY <2>1 DEF BatchInv, WithinBatch, TypeOK, Batch
  <2>4. CounterCounts' /\ WithinBatch'
    BY <2>1, <2>3 DEF BatchInv, CounterCounts, WithinBatch, TypeOK, Batch
  <2>5. FinishedWhenAnswered'
    <3> SUFFICES ASSUME conn = "up", NEW d \in Batch
                 PROVE  finished[d] <=>
                          size'[d] > 0 /\ left'[d] = 0 /\ pending[d] = 0
      BY <2>1 DEF FinishedWhenAnswered
    <3>1. CASE d = batch + 1
      <4>1. size'[d] = n /\ left'[d] = n /\ n \in Nat
        BY <2>1, <3>1 DEF TypeOK
      <4> QED BY <2>3, <3>1, <4>1
    <3>2. CASE d # batch + 1
      <4>1. size'[d] = size[d] /\ left'[d] = left[d]
        BY <2>1, <3>2 DEF TypeOK
      <4> QED BY <4>1 DEF BatchInv, FinishedWhenAnswered
    <3> QED BY <3>1, <3>2
  <2> QED BY <2>2, <2>4, <2>5 DEF BatchInv
\* A line or an answer is counted.
<1>3. ASSUME NEW b \in Batch, NEW s \in Subscription, decrease(b, s),
             UNCHANGED <<conn, batch, size>>, serving' \in 0..batch,
             \/ /\ left[b] > 0 /\ left' = [left EXCEPT ![b] = @ - 1]
                /\ pending' = pending
             \/ /\ pending[b] > 0 /\ pending' = [pending EXCEPT ![b] = @ - 1]
                /\ left' = left
      PROVE  BatchInv' /\ Typed
  <2>1. /\ counter' = [counter EXCEPT ![b] = @ - 1]
        /\ counter' \in [Batch -> Int]
        /\ finished' \in [Batch -> BOOLEAN]
        /\ \A d \in Batch : finished'[d] <=> finished[d] \/ (d = b /\ counter[b] <= 1)
        /\ subscription' \in Subscription
    BY <1>3, DecreaseEffect
  <2>2. \A d \in Batch : /\ size[d] \in 0..MaxLines /\ left[d] \in 0..MaxLines
                          /\ pending[d] \in 0..MaxLines /\ counter[d] \in Int
    BY DEF TypeOK
  <2>3. /\ left' \in [Batch -> 0..MaxLines] /\ pending' \in [Batch -> 0..MaxLines]
        /\ left'[b] + pending'[b] = left[b] + pending[b] - 1
        /\ \A d \in Batch : d # b => left'[d] = left[d] /\ pending'[d] = pending[d]
    BY <1>3, <2>2 DEF TypeOK
  <2>4. Typed
    BY <1>3, <2>1, <2>3 DEF TypeOK
  <2>5. CounterCounts'
    BY <2>1, <2>2, <2>3 DEF BatchInv, CounterCounts, TypeOK
  <2>6. b <= batch
    BY <1>3, <2>2 DEF BatchInv, WithinBatch, TypeOK, Batch
  <2>7. WithinBatch'
    <3> SUFFICES ASSUME NEW d \in Batch
                 PROVE  /\ left'[d] + pending'[d] <= size[d]
                        /\ d > batch => size[d] = 0 /\ ~finished'[d]
      BY <1>3 DEF WithinBatch
    <3>1. CASE d = b
      BY <2>2, <2>3, <2>6, <3>1 DEF BatchInv, WithinBatch, TypeOK, Batch
    <3>2. CASE d # b
      BY <2>1, <2>3, <3>2 DEF BatchInv, WithinBatch
    <3> QED BY <3>1, <3>2
  <2>8. FinishedWhenAnswered'
    <3> SUFFICES ASSUME conn = "up", NEW d \in Batch
                 PROVE  finished'[d] <=>
                          size[d] > 0 /\ left'[d] = 0 /\ pending'[d] = 0
      BY <1>3 DEF FinishedWhenAnswered
    <3>1. CASE d = b
      <4>1. finished'[d] <=> counter[b] <= 1
        <5>1. ~finished[b]
          BY <1>3, <2>2 DEF BatchInv, FinishedWhenAnswered
        <5> QED BY <2>1, <3>1, <5>1
      <4>2. counter[b] = left[b] + pending[b]
        BY DEF BatchInv, CounterCounts
      <4>3. left'[b] \in Nat /\ pending'[b] \in Nat
        BY <2>3
      <4>4. counter[b] <= 1 <=> left'[b] = 0 /\ pending'[b] = 0
        <5>1. left'[b] + pending'[b] = counter[b] - 1
          BY <2>2, <2>3, <4>2
        <5>2. counter[b] \in Int
          BY <2>2
        <5> QED BY <4>3, <5>1, <5>2
      <4>5. size[b] > 0
        BY <1>3, <2>2 DEF BatchInv, WithinBatch
      <4> QED BY <3>1, <4>1, <4>4, <4>5
    <3>2. CASE d # b
      BY <2>1, <2>3, <3>2 DEF BatchInv, FinishedWhenAnswered
    <3> QED BY <3>1, <3>2
  <2> QED BY <2>4, <2>5, <2>7, <2>8 DEF BatchInv
\* A service will answer later.
<1>4. ASSUME NEW b \in Batch, NEW path \in Path, ServeLater(b, path)
      PROVE  BatchInv' /\ Typed
  <2>1. /\ left[b] > 0 /\ left' = [left EXCEPT ![b] = @ - 1]
        /\ pending' = [pending EXCEPT ![b] = @ + 1]
        /\ UNCHANGED <<conn, batch, serving, size, counter, finished, subscription>>
    BY <1>4 DEF ServeLater, Line, Counted
  <2>2. \A d \in Batch : /\ size[d] \in 0..MaxLines /\ left[d] \in 0..MaxLines
                          /\ pending[d] \in 0..MaxLines /\ counter[d] \in Int
    BY DEF TypeOK
  <2>3. left[b] + pending[b] <= MaxLines
    BY <2>2 DEF BatchInv, WithinBatch
  <2>4. Typed
    BY <2>1, <2>2, <2>3 DEF TypeOK
  <2>5. \A d \in Batch : left'[d] + pending'[d] = left[d] + pending[d]
    BY <2>1, <2>2 DEF TypeOK
  <2>6. CounterCounts' /\ WithinBatch'
    BY <2>1, <2>5 DEF BatchInv, CounterCounts, WithinBatch
  <2>7. FinishedWhenAnswered'
    <3> SUFFICES ASSUME conn = "up", NEW d \in Batch
                 PROVE  finished[d] <=>
                          size[d] > 0 /\ left'[d] = 0 /\ pending'[d] = 0
      BY <2>1 DEF FinishedWhenAnswered
    <3>1. left'[d] \in Nat /\ pending'[d] \in Nat
      BY <2>4
    <3>2. left'[d] = 0 /\ pending'[d] = 0 <=> left[d] = 0 /\ pending[d] = 0
      BY <2>2, <2>5, <3>1
    <3> QED BY <3>2 DEF BatchInv, FinishedWhenAnswered
  <2> QED BY <2>4, <2>6, <2>7 DEF BatchInv
\* A batch is cut short: the connection is not up any more.
<1>5. ASSUME NEW b \in Batch, finish(b, subscription), b <= batch,
             UNCHANGED <<batch, size, pending>>, serving' = 0, conn' # "up",
             \/ UNCHANGED <<left, counter>>
             \/ /\ left[b] > 0 /\ left' = [left EXCEPT ![b] = @ - 1]
                /\ counter' = [counter EXCEPT ![b] = @ - 1]
      PROVE  BatchInv' /\ Typed
  <2>1. /\ finished' = [finished EXCEPT ![b] = TRUE]
        /\ finished' \in [Batch -> BOOLEAN]
        /\ subscription' \in Subscription
    BY <1>5, FinishEffect DEF TypeOK
  <2>2. \A d \in Batch : /\ size[d] \in 0..MaxLines /\ left[d] \in 0..MaxLines
                          /\ pending[d] \in 0..MaxLines /\ counter[d] \in Int
    BY DEF TypeOK
  <2>3. Typed
    BY <1>5, <2>1, <2>2 DEF TypeOK
  <2>4. \A d \in Batch : /\ left'[d] <= left[d]
                          /\ counter'[d] - left'[d] = counter[d] - left[d]
    BY <1>5, <2>2 DEF TypeOK
  <2>5. CounterCounts'
    BY <1>5, <2>2, <2>3, <2>4 DEF BatchInv, CounterCounts
  <2>6. WithinBatch'
    <3> SUFFICES ASSUME NEW d \in Batch
                 PROVE  /\ left'[d] + pending[d] <= size[d]
                        /\ d > batch => size[d] = 0 /\ ~finished'[d]
      BY <1>5 DEF WithinBatch
    <3>1. left'[d] + pending[d] <= size[d]
      <4>1. left'[d] <= left[d] /\ left'[d] \in Int
        BY <2>3, <2>4
      <4> QED BY <2>2, <4>1 DEF BatchInv, WithinBatch
    <3>2. ASSUME d > batch
          PROVE  size[d] = 0 /\ ~finished'[d]
      <4>1. d # b
        BY <1>5, <3>2 DEF TypeOK, Batch
      <4> QED BY <2>1, <3>2, <4>1 DEF BatchInv, WithinBatch
    <3> QED BY <3>1, <3>2
  <2>7. FinishedWhenAnswered'
    BY <1>5 DEF FinishedWhenAnswered
  <2> QED BY <2>3, <2>5, <2>6, <2>7 DEF BatchInv
<1>6. ASSUME NEW b \in Batch, HandleLine(b)
      PROVE  BatchInv' /\ Typed
  <2>1. b <= batch /\ serving = b
    BY <1>6 DEF HandleLine, Serve, Unexpected, Undecodable, ServeSubscribe, ServeLater,
       Response, ResponseMalformed, Line, TypeOK, Batch
  <2>2. CASE Serve(b) \/ \E c \in Call : Response(b, c)
    BY <1>3, <2>2 DEF Serve, Response, Line, Counted, TypeOK
  <2>3. CASE \E path \in Path : ServeSubscribe(b, path)
    BY <1>3, <2>3, SubscribingTyped DEF ServeSubscribe, Line, Counted, TypeOK
  <2>4. CASE \E path \in Path : ServeLater(b, path)
    BY <1>4, <2>4
  <2>5. CASE Unexpected(b) \/ \E c \in Call : ResponseMalformed(b, c)
    BY <1>5, <2>1, <2>5 DEF Unexpected, ResponseMalformed, Abort, Line
  <2>6. CASE Undecodable(b)
    BY <1>5, <2>1, <2>6 DEF Undecodable, Abort, Line
  <2> QED BY <1>6, <2>2, <2>3, <2>4, <2>5, <2>6 DEF HandleLine
<1>7. ASSUME NEW b \in Batch, LeaveBatch(b) \/ Disconnecting(b)
      PROVE  BatchInv' /\ Typed
  <2>1. b <= batch
    BY <1>7 DEF LeaveBatch, Disconnecting, EndBatch, TailTooLong, TypeOK, Batch
  <2>2. CASE Disconnecting(b)
    BY <1>5, <2>1, <2>2 DEF Disconnecting
  <2>3. CASE TailTooLong(b)
    BY <1>5, <2>1, <2>3 DEF TailTooLong, Abort
  <2>4. CASE EndBatch(b)
    <3>1. /\ serving' = 0
          /\ UNCHANGED <<conn, batch, size, left, pending, counter, finished, subscription>>
      BY <2>4 DEF EndBatch
    <3> QED BY <3>1 DEF TypeOK, BatchInv, CounterCounts, WithinBatch, FinishedWhenAnswered
  <2> QED BY <1>7, <2>2, <2>3, <2>4 DEF LeaveBatch
<1>8. ASSUME NEW b \in Batch, Answer(b)
      PROVE  BatchInv' /\ Typed
  BY <1>3, <1>8 DEF Answer, TypeOK
<1>9. CASE rpc \/ connectionLost
  BY <1>1, <1>9 DEF rpc, connectionLost
<1> QED
  BY <1>2, <1>6, <1>7, <1>8, <1>9 DEF ConnectionStep

\* A step of a connection keeps the whole invariant.
LEMMA ConnectionStepKeepsInv ==
  ASSUME Inv, ConnectionStep
  PROVE  Inv'
<1>1. /\ CallInv' /\ lookup_table' \subseteq 1..request_id'
      /\ request_id' \in 0..MaxCalls /\ fired' \in [Call -> Nat]
  BY CallStep DEF Inv
<1>2. /\ BatchInv'
      /\ batch' \in 0..MaxBatches /\ serving' \in 0..batch'
      /\ size' \in [Batch -> 0..MaxLines] /\ left' \in [Batch -> 0..MaxLines]
      /\ pending' \in [Batch -> 0..MaxLines] /\ counter' \in [Batch -> Int]
      /\ finished' \in [Batch -> BOOLEAN] /\ subscription' \in Subscription
  BY BatchStep DEF Inv
<1>3. /\ registry' = registry
      /\ conn' \in {conn, "lost"} /\ expect_header' \in {expect_header, FALSE}
  <2>1. CASE \E b \in Batch : HandleLine(b)
    BY <2>1 DEF HandleLine, Serve, Unexpected, Undecodable, ServeSubscribe, ServeLater,
       Response, ResponseMalformed, Line, Counted, Abort
  <2>2. CASE \E b \in Batch : LeaveBatch(b) \/ Disconnecting(b) \/ Answer(b)
    BY <2>2 DEF LeaveBatch, Disconnecting, EndBatch, TailTooLong, Answer, Abort
  <2>3. CASE (\E n \in 0..MaxLines : dataReceived(n)) \/ rpc \/ connectionLost
    BY <2>3 DEF dataReceived, rpc, connectionLost
  <2> QED BY <2>1, <2>2, <2>3 DEF ConnectionStep
<1>4. TypeOK'
  BY <1>1, <1>2, <1>3 DEF Inv, TypeOK, FactoryTypeOK
<1>5. OneDefault'
  BY <1>3 DEF Inv, OneDefault
<1> QED BY <1>1, <1>2, <1>4, <1>5 DEF Inv

\* So does a new connection, whatever the one before it left behind.
LEMMA NewConnectionKeepsInv ==
  ASSUME Inv, NEW proxied \in BOOLEAN, NEW calls \in 0..MaxCalls,
         NewConnection(proxied, calls)
  PROVE  Inv'
<1> USE ProtocolAssumption
<1>1. TypeOK'
  BY DEF Inv, TypeOK, FactoryTypeOK, NewConnection, Subscription, NoSubscription, Call
<1>2. OneDefault'
  BY DEF Inv, OneDefault, NewConnection
<1>3. BatchInv'
  BY DEF BatchInv, CounterCounts, WithinBatch, FinishedWhenAnswered, NewConnection
<1>4. CallInv'
  BY DEF CallInv, EachCallerToldOnce, Uncalled, NewConnection, Call
<1> QED BY <1>1, <1>2, <1>3, <1>4 DEF Inv

\* The invariant holds before the first service is imported.
LEMMA InitInv == Init => Inv
<1> SUFFICES ASSUME Init PROVE Inv
  OBVIOUS
<1> USE ProtocolAssumption DEF Init
<1>0. <<>> \in Seq(ServiceClass)
  OBVIOUS
<1>1. TypeOK
  <2>1. FactoryTypeOK
    BY <1>0 DEF FactoryInit, FactoryTypeOK
  <2>2. subscription \in Subscription
    BY DEF Subscription, NoSubscription
  <2>3. /\ size \in [Batch -> 0..MaxLines] /\ left \in [Batch -> 0..MaxLines]
        /\ pending \in [Batch -> 0..MaxLines] /\ counter \in [Batch -> Int]
        /\ finished \in [Batch -> BOOLEAN] /\ fired \in [Call -> Nat]
    OBVIOUS
  <2>4. /\ conn \in {"none", "up", "closing", "lost"}
        /\ expect_header \in BOOLEAN
    OBVIOUS
  <2>5. batch = 0 /\ serving = 0 /\ request_id = 0 /\ lookup_table = {}
    OBVIOUS
  <2> HIDE DEF Init
  <2> QED BY <2>1, <2>2, <2>3, <2>4, <2>5 DEF TypeOK
<1>2. OneDefault
  BY DEF OneDefault, FactoryInit
<1>3. BatchInv /\ CallInv
  BY DEF BatchInv, CounterCounts, WithinBatch, FinishedWhenAnswered, CallInv,
     EachCallerToldOnce, Uncalled, Call, Batch
<1> QED BY <1>1, <1>2, <1>3 DEF Inv

\* The inductive invariant of the protocol: what a counter counts, what a
\* batch can still answer, and which calls wait.
THEOREM RpcInvariant == Spec => []Inv
<1>1. Inv /\ [Next]_vars => Inv'
  <2> SUFFICES ASSUME Inv, [Next]_vars PROVE Inv'
    OBVIOUS
  <2>1. ASSUME NEW t \in ServiceType, NEW v \in Vendor, NEW d \in BOOLEAN,
               ImportService(t, v, d)
        PROVE  Inv'
    <3>1. FactoryInv'
      BY <2>1, RegisterKeepsInv DEF ImportService, FactoryInv, Inv, TypeOK
    <3>2. UNCHANGED protocolVars
      BY <2>1 DEF ImportService
    <3>3. TypeOK'
      BY <3>1, <3>2 DEF FactoryInv, Inv, TypeOK, protocolVars, batchVars, callVars
    <3>4. BatchInv' /\ CallInv'
      BY <3>2 DEF Inv, BatchInv, CounterCounts, WithinBatch, FinishedWhenAnswered,
         CallInv, EachCallerToldOnce, Uncalled, Open, protocolVars, batchVars, callVars
    <3> QED BY <3>1, <3>3, <3>4 DEF FactoryInv, Inv
  <2>2. ASSUME NEW proxied \in TcpProxyProtocol, connectionMade(proxied)
        PROVE  Inv'
    BY <2>2, ProtocolAssumption, NewConnectionKeepsInv DEF connectionMade
  <2>3. CASE ConnectionStep
    BY <2>3, ConnectionStepKeepsInv
  <2>4. CASE UNCHANGED vars
    BY <2>4 DEF vars, protocolVars, batchVars, callVars, Inv, TypeOK, FactoryTypeOK,
       OneDefault, BatchInv, CounterCounts, WithinBatch, FinishedWhenAnswered,
       CallInv, EachCallerToldOnce, Uncalled, Open
  <2> QED BY <2>1, <2>2, <2>3, <2>4 DEF Next, ConnectionStep
<1> QED BY <1>1, InitInv, PTL DEF Spec

\* Every variable keeps its type.
THEOREM TypeCorrect == Spec => []TypeOK
BY RpcInvariant, PTL DEF Inv

\* A type of service never gets a second default, and a vendor never a second
\* class, whatever is imported in whatever order.
THEOREM NeverTwoDefaults == Spec => []OneDefault
BY RpcInvariant, PTL DEF Inv

\* No import takes the calls without a vendor away from the default service.
THEOREM DefaultsStay == Spec => DefaultStays
<1>1. Inv /\ Inv' /\ [Next]_vars
        => [\A t \in ServiceType :
              Default(t) # {} /\ Default(t)' # {}
                => Answering(t)' = Answering(t)]_registry
  <2> SUFFICES ASSUME Inv, Inv', [Next]_vars, registry' # registry,
                      NEW t \in ServiceType, Default(t) # {}, Default(t)' # {}
               PROVE  Answering(t)' = Answering(t)
    OBVIOUS
  <2>1. FactoryInv /\ FactoryInv'
    BY DEF FactoryInv, Inv, TypeOK
  <2>2. PICK u \in ServiceType, v \in Vendor, d \in BOOLEAN : ImportService(u, v, d)
    <3>1. ~ConnectionStep
      BY DEF ConnectionStep, HandleLine, LeaveBatch, Line, dataReceived, Serve,
         Unexpected, Undecodable, ServeSubscribe, ServeLater, Response,
         ResponseMalformed, Disconnecting, EndBatch, TailTooLong, Answer, rpc,
         connectionLost
    <3> QED BY <3>1 DEF Next, ConnectionStep, connectionMade, NewConnection, vars
  <2> QED BY <2>1, <2>2, RegisterKeepsDefault DEF ImportService
<1> QED BY <1>1, RpcInvariant, PTL DEF Spec, DefaultStays

\* The request counter is right at every moment, for batches of any length.
THEOREM CounterIsRight == Spec => []CounterCounts
BY RpcInvariant, PTL DEF Inv, BatchInv

\* on_finish fires when the last request of its batch is answered: not before,
\* and not without.
THEOREM FinishIsExact == Spec => []FinishedWhenAnswered
BY RpcInvariant, PTL DEF Inv, BatchInv

\* A caller hears once of its call, or loses it with the connection.
THEOREM CallersToldOnce == Spec => []EachCallerToldOnce
BY RpcInvariant, PTL DEF Inv, CallInv

-----------------------------------------------------------------------------
(* Who still owes an answer: what BatchFinishes and SubscriberTold rest on *)

\* Only the batch that arrived last is handled.
OneBatchServed == serving \in {0, batch}

\* Outside its turn a batch has lines to handle only if it was cut short.
LinesHandled == \A b \in 1..batch : serving # b => left[b] = 0 \/ finished[b]

\* A batch that is not finished counts something.
Unanswered == \A b \in 1..batch : size[b] > 0 /\ ~finished[b] => counter[b] > 0

Waits(s) == s.stage \in {"after_subscribe", "finish_after_subscribe"}

\* A subscription waits on a batch that arrived and is not finished.
WaitsFor(s) == Waits(s) => s.on \in 1..batch /\ ~finished[s.on]

WaitsForBatch == WaitsFor(subscription)

OwingInv == OneBatchServed /\ LinesHandled /\ Unanswered /\ WaitsForBatch

\* Batches that arrived are batches.
LEMMA ArrivedBatch ==
  ASSUME TypeOK, NEW b \in 1..batch
  PROVE  b \in Batch
BY ProtocolAssumption DEF TypeOK, Batch

\* A subscription leaves a batch that is finished, for one that is not.
LEMMA FinishWaits ==
  ASSUME TypeOK, NEW s \in Subscription, WaitsFor(s), NEW b \in 1..batch,
         finish(b, s), batch' = batch
  PROVE  WaitsForBatch'
<1> SUFFICES ASSUME Waits(subscription')
             PROVE  subscription'.on \in 1..batch /\ ~finished'[subscription'.on]
  BY DEF WaitsForBatch, WaitsFor, Waits
<1>1. /\ finished' = [finished EXCEPT ![b] = TRUE]
      /\ subscription' = IF finished[b] THEN s ELSE told(s, b)
  BY DEF finish
<1>2. \A d \in 1..batch : d # b => finished'[d] = finished[d]
  BY <1>1, ArrivedBatch DEF TypeOK
<1>3. CASE subscription' = s
  <2>1. s.on \in 1..batch /\ ~finished[s.on]
    BY <1>3 DEF WaitsFor
  <2>2. s.on # b
    <3> SUFFICES ASSUME s.on = b PROVE FALSE
      OBVIOUS
    <3>1. subscription' = told(s, b)
      BY <1>1, <2>1
    <3>2. ~Waits(told(s, b)) \/ told(s, b).on # b
      BY <1>3 DEF told, Waits
    <3> QED BY <1>3, <3>1, <3>2
  <2> QED BY <1>2, <1>3, <2>1, <2>2
<1>4. CASE subscription' = [stage |-> "finish_after_subscribe", on |-> batch]
           /\ batch # b /\ ~finished[batch]
  <2>1. batch \in 1..batch
    BY DEF TypeOK
  <2> QED BY <1>2, <1>4, <2>1
<1>5. CASE subscription' = [stage |-> "told", on |-> b]
  BY <1>5 DEF Waits
<1> QED BY <1>1, <1>3, <1>4, <1>5 DEF told

\* So it does when a line or an answer is counted.
LEMMA DecreaseWaits ==
  ASSUME TypeOK, NEW s \in Subscription, WaitsFor(s), NEW b \in 1..batch,
         decrease(b, s), batch' = batch
  PROVE  WaitsForBatch'
<1>1. CASE finish(b, s)
  BY <1>1, FinishWaits
<1>2. CASE finished' = finished /\ subscription' = s
  BY <1>2 DEF WaitsForBatch, WaitsFor, Waits
<1> QED BY <1>1, <1>2 DEF decrease

\* A step of a connection keeps account of who owes an answer.
LEMMA ConnectionStepKeepsOwing ==
  ASSUME Inv, OwingInv, ConnectionStep
  PROVE  OwingInv'
<1> USE ProtocolAssumption
<1>0. TypeOK /\ FinishedWhenAnswered /\ CounterCounts
  BY DEF Inv, BatchInv
<1>a. batch \in 0..MaxBatches /\ serving \in 0..batch /\ subscription \in Subscription
  BY <1>0 DEF TypeOK
<1>b. /\ \A b \in 1..batch : b \in Batch
      /\ \A b \in Batch : /\ counter[b] \in Int /\ left[b] \in 0..MaxLines
                          /\ pending[b] \in 0..MaxLines /\ size[b] \in 0..MaxLines
                          /\ finished[b] \in BOOLEAN
  BY <1>0 DEF TypeOK, Batch
<1>1. CASE UNCHANGED batchVars
  BY <1>1 DEF batchVars, OwingInv, OneBatchServed, LinesHandled, Unanswered,
     WaitsForBatch, WaitsFor, Waits
<1>2. ASSUME NEW n \in 0..MaxLines, dataReceived(n)
      PROVE  OwingInv'
  <2>1. /\ batch + 1 \in Batch /\ batch' = batch + 1 /\ serving' = batch + 1
        /\ serving = 0
        /\ size' = [size EXCEPT ![batch + 1] = n]
        /\ left' = [left EXCEPT ![batch + 1] = n]
        /\ counter' = [counter EXCEPT ![batch + 1] = n]
        /\ finished' = finished /\ subscription' = subscription
    BY <1>2, <1>a DEF dataReceived, Batch
  <2>2. \A b \in 1..batch' : b \in 1..batch \/ b = batch + 1
    BY <2>1, <1>a
  <2>3. \A b \in 1..batch : /\ b # batch + 1 /\ b # 0
                            /\ left'[b] = left[b] /\ size'[b] = size[b]
                            /\ counter'[b] = counter[b]
    BY <2>1, <1>a, <1>0, <1>b DEF TypeOK
  <2>4. size'[batch + 1] = n /\ counter'[batch + 1] = n
    BY <2>1, <1>0 DEF TypeOK
  <2>5. OneBatchServed' /\ LinesHandled'
    BY <2>1, <2>2, <2>3 DEF OwingInv, OneBatchServed, LinesHandled
  <2>6. Unanswered'
    BY <2>1, <2>2, <2>3, <2>4 DEF OwingInv, Unanswered
  <2>7. WaitsForBatch'
    BY <2>1, <1>a DEF OwingInv, WaitsForBatch, WaitsFor, Waits
  <2> QED BY <2>5, <2>6, <2>7 DEF OwingInv
\* A line is counted and answered at once, or a late answer comes.
<1>3. ASSUME NEW b \in 1..batch, NEW s \in Subscription, WaitsFor(s), decrease(b, s),
             UNCHANGED <<batch, serving, size>>,
             \/ serving = b /\ left' = [left EXCEPT ![b] = @ - 1]
             \/ left' = left
      PROVE  OwingInv'
  <2>1. b \in Batch
    BY <1>b
  <2>2. /\ counter' = [counter EXCEPT ![b] = @ - 1]
        /\ \A d \in Batch : finished'[d] <=> finished[d] \/ (d = b /\ counter[b] <= 1)
    BY <1>3, <1>0, <2>1, DecreaseEffect
  <2>3. WaitsForBatch'
    BY <1>3, <1>0, DecreaseWaits
  <2>4. LinesHandled'
    <3> SUFFICES ASSUME NEW d \in 1..batch, serving # d
                 PROVE  left'[d] = 0 \/ finished'[d]
      BY <1>3 DEF LinesHandled
    <3>1. left'[d] = left[d]
      BY <1>3, <1>0, <1>b DEF TypeOK
    <3> QED BY <3>1, <2>2, <1>b DEF OwingInv, LinesHandled
  <2>5. Unanswered'
    <3> SUFFICES ASSUME NEW d \in 1..batch, size[d] > 0, ~finished'[d]
                 PROVE  counter'[d] > 0
      BY <1>3 DEF Unanswered
    <3>1. CASE d = b
      <4>1. counter'[b] = counter[b] - 1
        BY <2>1, <2>2, <1>0 DEF TypeOK
      <4> QED BY <3>1, <4>1, <2>1, <2>2, <1>b
    <3>2. CASE d # b
      <4>1. counter'[d] = counter[d] /\ ~finished[d]
        BY <3>2, <2>2, <1>0, <1>b DEF TypeOK
      <4> QED BY <4>1 DEF OwingInv, Unanswered
    <3> QED BY <3>1, <3>2
  <2>6. OneBatchServed'
    BY <1>3 DEF OwingInv, OneBatchServed
  <2> QED BY <2>3, <2>4, <2>5, <2>6 DEF OwingInv
\* The batch is cut short.
<1>4. ASSUME NEW b \in 1..batch, finish(b, subscription), serving = b, serving' = 0,
             UNCHANGED <<batch, size>>,
             \/ UNCHANGED <<left, counter>>
             \/ /\ left' = [left EXCEPT ![b] = @ - 1]
                /\ counter' = [counter EXCEPT ![b] = @ - 1]
      PROVE  OwingInv'
  <2>1. b \in Batch /\ finished' = [finished EXCEPT ![b] = TRUE]
    BY <1>4, <1>b DEF finish
  <2>2. WaitsForBatch'
    BY <1>4, <1>0, <1>a, FinishWaits DEF OwingInv, WaitsForBatch
  <2>3. \A d \in 1..batch :
          finished'[d] \/ /\ d # b /\ left'[d] = left[d]
                          /\ counter'[d] = counter[d] /\ finished'[d] = finished[d]
    <3> SUFFICES ASSUME NEW d \in 1..batch
                 PROVE  finished'[d] \/ /\ d # b /\ left'[d] = left[d]
                                        /\ counter'[d] = counter[d]
                                        /\ finished'[d] = finished[d]
      OBVIOUS
    <3>1. CASE d = b
      BY <3>1, <2>1, <1>0 DEF TypeOK
    <3>2. CASE d # b
      BY <3>2, <2>1, <1>0, <1>b, <1>4 DEF TypeOK
    <3> QED BY <3>1, <3>2
  <2>4. LinesHandled' /\ Unanswered' /\ OneBatchServed'
    BY <1>4, <2>3 DEF OwingInv, LinesHandled, Unanswered, OneBatchServed
  <2> QED BY <2>2, <2>4 DEF OwingInv
<1>5. WaitsFor(subscription)
  BY DEF OwingInv, WaitsForBatch
<1>6. ASSUME NEW b \in Batch, serving = b
      PROVE  b \in 1..batch /\ b = batch
  BY <1>6, <1>a DEF OwingInv, OneBatchServed, Batch
<1>7. ASSUME NEW b \in Batch, HandleLine(b)
      PROVE  OwingInv'
  <2>1. b \in 1..batch /\ b = batch /\ serving = b
    BY <1>7, <1>6 DEF HandleLine, Serve, Unexpected, Undecodable, ServeSubscribe,
       ServeLater, Response, ResponseMalformed, Line
  <2>2. CASE Serve(b) \/ \E c \in Call : Response(b, c)
    BY <1>3, <1>5, <1>a, <2>1, <2>2 DEF Serve, Response, Line, Counted
  <2>3. ASSUME NEW path \in Path, ServeSubscribe(b, path)
        PROVE  OwingInv'
    <3> DEFINE s == [stage |-> "after_subscribe", on |-> batch]
    <3>1. s \in Subscription
      BY <1>0, SubscribingTyped
    <3>2. ~finished[b]
      BY <2>3, <1>0, <1>b DEF FinishedWhenAnswered, ServeSubscribe, Line
    <3>3. WaitsFor(s)
      BY <2>1, <3>2 DEF WaitsFor, Waits
    <3>4. /\ decrease(b, s) /\ UNCHANGED <<batch, serving, size>>
          /\ left' = [left EXCEPT ![b] = @ - 1]
      BY <2>3 DEF ServeSubscribe, Line, Counted
    <3> HIDE DEF s
    <3> QED BY <1>3, <2>1, <3>1, <3>3, <3>4
  <2>4. ASSUME NEW path \in Path, ServeLater(b, path)
        PROVE  OwingInv'
    <3>1. /\ left' = [left EXCEPT ![b] = @ - 1]
          /\ UNCHANGED <<batch, serving, size, counter, finished, subscription>>
      BY <2>4 DEF ServeLater, Line, Counted
    <3>2. LinesHandled'
      BY <2>1, <3>1, <1>0, <1>b DEF OwingInv, LinesHandled, TypeOK
    <3> QED BY <3>1, <3>2 DEF OwingInv, OneBatchServed, Unanswered, WaitsForBatch,
       WaitsFor, Waits
  <2>5. CASE Unexpected(b) \/ \E c \in Call : ResponseMalformed(b, c)
    BY <1>4, <2>1, <2>5 DEF Unexpected, ResponseMalformed, Abort, Line
  <2>6. CASE Undecodable(b)
    BY <1>4, <2>1, <2>6 DEF Undecodable, Abort, Line
  <2> QED BY <1>7, <2>2, <2>3, <2>4, <2>5, <2>6 DEF HandleLine
<1>8. ASSUME NEW b \in Batch, LeaveBatch(b) \/ Disconnecting(b)
      PROVE  OwingInv'
  <2>1. b \in 1..batch /\ serving = b
    BY <1>8, <1>6 DEF LeaveBatch, Disconnecting, EndBatch, TailTooLong
  <2>2. CASE Disconnecting(b)
    BY <1>4, <2>1, <2>2 DEF Disconnecting
  <2>3. CASE TailTooLong(b)
    BY <1>4, <2>1, <2>3 DEF TailTooLong, Abort
  <2>4. CASE EndBatch(b)
    <3>1. /\ serving' = 0 /\ left[b] = 0
          /\ UNCHANGED <<batch, size, left, counter, finished, subscription>>
      BY <2>4 DEF EndBatch
    <3> QED BY <2>1, <3>1 DEF OwingInv, OneBatchServed, LinesHandled, Unanswered,
       WaitsForBatch, WaitsFor, Waits
  <2> QED BY <1>8, <2>2, <2>3, <2>4 DEF LeaveBatch
<1>9. ASSUME NEW b \in Batch, Answer(b)
      PROVE  OwingInv'
  <2>1. b \in 1..batch
    BY <1>9, <1>a, <1>b DEF Inv, BatchInv, WithinBatch, Answer, Batch
  <2> QED BY <1>3, <1>5, <1>9, <1>a, <2>1 DEF Answer
<1>10. CASE rpc \/ connectionLost
  BY <1>1, <1>10 DEF rpc, connectionLost
<1> QED
  BY <1>2, <1>7, <1>8, <1>9, <1>10 DEF ConnectionStep

\* A new connection owes nothing.
LEMMA NothingOwedAtFirst ==
  ASSUME batch = 0, serving = 0, subscription = NoSubscription
  PROVE  OwingInv
BY DEF OwingInv, OneBatchServed, LinesHandled, Unanswered, WaitsForBatch, WaitsFor,
   Waits, NoSubscription

\* Who still owes an answer is known at every moment of a connection.
THEOREM OwingInvariant == Spec => []OwingInv
<1>1. Init => OwingInv
  BY NothingOwedAtFirst DEF Init
<1>2. Inv /\ OwingInv /\ [Next]_vars => OwingInv'
  <2> SUFFICES ASSUME Inv, OwingInv, [Next]_vars PROVE OwingInv'
    OBVIOUS
  <2>1. CASE ConnectionStep
    BY <2>1, ConnectionStepKeepsOwing
  <2>2. CASE UNCHANGED batchVars
    BY <2>2 DEF batchVars, OwingInv, OneBatchServed, LinesHandled, Unanswered,
       WaitsForBatch, WaitsFor, Waits
  <2>3. CASE \E proxied \in TcpProxyProtocol : connectionMade(proxied)
    BY <2>3 DEF connectionMade, NewConnection, OwingInv, OneBatchServed, LinesHandled,
       Unanswered, WaitsForBatch, WaitsFor, Waits, NoSubscription
  <2> QED
    BY <2>1, <2>2, <2>3 DEF Next, ConnectionStep, ImportService, vars, protocolVars
<1> QED BY <1>1, <1>2, RpcInvariant, PTL DEF Spec

\* A batch with a line that is not finished is being handled, or a service
\* still has to answer a call of it: on_finish is never waited for in vain.
SomeoneOwes ==
  \A b \in 1..batch : size[b] > 0 /\ ~finished[b] => serving = b \/ pending[b] > 0

\* While the reactor is not at it, an unfinished batch has a service to hear of.
THEOREM SomeoneAlwaysOwes == Spec => []SomeoneOwes
<1>1. Inv /\ OwingInv => SomeoneOwes
  <2> SUFFICES ASSUME Inv, OwingInv, NEW b \in 1..batch, size[b] > 0, ~finished[b],
                      serving # b
               PROVE  pending[b] > 0
    BY DEF SomeoneOwes
  <2>1. b \in Batch
    BY ArrivedBatch DEF Inv
  <2>2. pending[b] \in Nat /\ left[b] = 0 /\ counter[b] = left[b] + pending[b]
    BY <2>1 DEF Inv, TypeOK, BatchInv, CounterCounts, OwingInv, LinesHandled
  <2> QED BY <2>2 DEF OwingInv, Unanswered
<1> QED BY <1>1, RpcInvariant, OwingInvariant, PTL

\* A miner that subscribed waits only on a batch that is not finished: its
\* callback is never added to an on_finish that will not run it.
THEOREM SubscriberWaitsRightly == Spec => []WaitsForBatch
BY OwingInvariant, PTL DEF OwingInv


-----------------------------------------------------------------------------
(* Why a batch comes to an end *)

\* What is still to be done for a batch: a line may first be handed to a
\* service and then be answered.
Work(b) == 2 * left[b] + pending[b]

\* No step of a connection makes more work for a batch that arrived or takes a
\* finish back, and each line or answer handled lessens the work of its batch
\* or ends it: a batch of n lines takes 2 * n steps at most.
WorkShrinks ==
  [][conn # "none" => \A b \in 1..batch :
       /\ Work(b)' <= Work(b)
       /\ finished[b] => finished'[b]
       /\ HandleLine(b) \/ Answer(b) => Work(b)' < Work(b) \/ finished'[b]]_vars

\* What a step of a connection does to the work of one batch.
LEMMA WorkOfStep ==
  ASSUME TypeOK, TypeOK', ConnectionStep, NEW b \in 1..batch
  PROVE  /\ Work(b)' <= Work(b)
         /\ finished[b] => finished'[b]
         /\ HandleLine(b) \/ Answer(b) => Work(b)' < Work(b) \/ finished'[b]
<1>1. /\ b \in Batch /\ left[b] \in Nat /\ pending[b] \in Nat
      /\ left \in [Batch -> 0..MaxLines] /\ pending \in [Batch -> 0..MaxLines]
      /\ finished \in [Batch -> BOOLEAN] /\ batch \in Nat /\ b # batch + 1
  BY ArrivedBatch DEF TypeOK
<1>2. ASSUME NEW d \in Batch, NEW s, finish(d, s) \/ finished' = finished \/ decrease(d, s)
      PROVE  finished[b] => finished'[b]
  BY <1>1, <1>2 DEF finish, decrease
<1>3. ASSUME NEW d \in Batch, HandleLine(d)
      PROVE  /\ finished[b] => finished'[b]
             /\ d # b => Work(b)' = Work(b)
             /\ d = b => Work(b)' < Work(b) \/ (finished'[b] /\ Work(b)' = Work(b))
  <2>1. CASE Undecodable(d)
    <3>1. finish(d, subscription) /\ left' = left /\ pending' = pending
      BY <2>1 DEF Undecodable, Abort
    <3>2. d = b => finished'[b]
      BY <1>1, <3>1 DEF finish
    <3> QED BY <1>1, <1>2, <3>1, <3>2 DEF Work
  <2>2. CASE \E path \in Path : ServeLater(d, path)
    <3>1. /\ left[d] > 0 /\ left' = [left EXCEPT ![d] = @ - 1]
          /\ pending' = [pending EXCEPT ![d] = @ + 1] /\ finished' = finished
      BY <2>2 DEF ServeLater, Line, Counted
    <3>2. d = b => left'[b] = left[b] - 1 /\ pending'[b] = pending[b] + 1
      BY <1>1, <3>1
    <3>3. d # b => left'[b] = left[b] /\ pending'[b] = pending[b]
      BY <1>1, <3>1
    <3>4. d = b => Work(b)' < Work(b)
      BY <1>1, <3>1, <3>2 DEF Work
    <3>5. d # b => Work(b)' = Work(b)
      BY <3>3 DEF Work
    <3>6. finished[b] => finished'[b]
      BY <3>1
    <3> QED BY <3>4, <3>5, <3>6, Zenon
  <2>3. CASE \/ Serve(d) \/ Unexpected(d)
             \/ \E path \in Path : ServeSubscribe(d, path)
             \/ \E c \in Call : Response(d, c) \/ ResponseMalformed(d, c)
    <3>1. /\ left[d] > 0 /\ left' = [left EXCEPT ![d] = @ - 1] /\ pending' = pending
          /\ \E s : finish(d, s) \/ decrease(d, s)
      BY <2>3 DEF Serve, Unexpected, ServeSubscribe, Response, ResponseMalformed, Line,
         Counted, Abort
    <3>2. d = b => left'[b] = left[b] - 1
      BY <1>1, <3>1
    <3>3. d # b => left'[b] = left[b]
      BY <1>1, <3>1
    <3>4. finished[b] => finished'[b]
      BY <1>2, <3>1
    <3>5. d = b => Work(b)' < Work(b)
      BY <1>1, <3>1, <3>2 DEF Work
    <3>6. d # b => Work(b)' = Work(b)
      BY <3>1, <3>3 DEF Work
    <3> QED BY <3>4, <3>5, <3>6, Zenon
  <2> QED BY <1>3, <2>1, <2>2, <2>3 DEF HandleLine
<1>4. ASSUME NEW d \in Batch, Answer(d)
      PROVE  /\ finished[b] => finished'[b]
             /\ d # b => Work(b)' = Work(b)
             /\ d = b => Work(b)' < Work(b)
  <2>1. /\ pending[d] > 0 /\ pending' = [pending EXCEPT ![d] = @ - 1] /\ left' = left
        /\ decrease(d, subscription)
    BY <1>4 DEF Answer
  <2>2. d = b => pending'[b] = pending[b] - 1
    BY <1>1, <2>1
  <2>3. d # b => pending'[b] = pending[b]
    BY <1>1, <2>1
  <2> QED BY <1>1, <1>2, <2>1, <2>2, <2>3 DEF Work
<1>5. ASSUME NEW d \in Batch, LeaveBatch(d) \/ Disconnecting(d)
      PROVE  Work(b)' = Work(b) /\ (finished[b] => finished'[b])
  <2>1. left' = left /\ pending' = pending /\ (finish(d, subscription) \/ finished' = finished)
    BY <1>5 DEF LeaveBatch, Disconnecting, EndBatch, TailTooLong, Abort
  <2> QED BY <1>2, <2>1 DEF Work
<1>6. ASSUME NEW n \in 0..MaxLines, dataReceived(n)
      PROVE  Work(b)' = Work(b) /\ (finished[b] => finished'[b])
  BY <1>1, <1>6 DEF dataReceived, Work
<1>7. ASSUME rpc \/ connectionLost
      PROVE  Work(b)' = Work(b) /\ (finished[b] => finished'[b])
  <2>1. left' = left /\ pending' = pending /\ finished' = finished
    BY <1>7 DEF rpc, connectionLost, batchVars
  <2> QED BY <2>1 DEF Work
<1>8. Work(b) \in Int /\ Work(b)' \in Int
  <2>1. left'[b] \in Nat /\ pending'[b] \in Nat
    BY <1>1 DEF TypeOK
  <2> QED BY <1>1, <2>1 DEF Work
<1>9. CASE \E d \in Batch : HandleLine(d)
  <2>1. PICK d \in Batch : HandleLine(d)
    BY <1>9
  <2>2. (finished[b] => finished'[b]) /\ Work(b)' <= Work(b)
    BY <1>3, <1>8, <2>1
  <2>3. HandleLine(b) => Work(b)' < Work(b) \/ finished'[b]
    BY <1>1, <1>3
  <2>4. Answer(b) => Work(b)' < Work(b)
    BY <1>1, <1>4
  <2> QED BY <2>2, <2>3, <2>4, Zenon
<1>10. CASE \E d \in Batch : Answer(d)
  <2>1. PICK d \in Batch : Answer(d)
    BY <1>10
  <2>2. (finished[b] => finished'[b]) /\ Work(b)' <= Work(b)
    BY <1>4, <1>8, <2>1
  <2>3. HandleLine(b) => Work(b)' < Work(b) \/ finished'[b]
    BY <1>1, <1>3
  <2>4. Answer(b) => Work(b)' < Work(b)
    BY <1>1, <1>4
  <2> QED BY <2>2, <2>3, <2>4, Zenon
<1>11. CASE ~\E d \in Batch : HandleLine(d) \/ Answer(d)
  <2>1. Work(b)' = Work(b) /\ (finished[b] => finished'[b])
    BY <1>5, <1>6, <1>7, <1>11 DEF ConnectionStep
  <2>2. Work(b)' <= Work(b)
    BY <2>1, <1>8
  <2> QED BY <1>1, <1>11, <2>1, <2>2, Zenon
<1> QED
  BY <1>9, <1>10, <1>11, Zenon

\* A batch takes a bounded number of steps, whatever its lines are and however
\* its answers interleave with those of others.
THEOREM WorkAlwaysShrinks == Spec => WorkShrinks
<1>1. Inv /\ Inv' /\ [Next]_vars
        => [conn # "none" => \A b \in 1..batch :
              /\ Work(b)' <= Work(b)
              /\ finished[b] => finished'[b]
              /\ HandleLine(b) \/ Answer(b) => Work(b)' < Work(b) \/ finished'[b]]_vars
  <2> SUFFICES ASSUME Inv, Inv', Next, conn # "none", NEW b \in 1..batch
               PROVE  /\ Work(b)' <= Work(b)
                      /\ finished[b] => finished'[b]
                      /\ HandleLine(b) \/ Answer(b) => Work(b)' < Work(b) \/ finished'[b]
    BY Zenon
  <2>1. ConnectionStep
    BY DEF Next, ConnectionStep, ImportService, connectionMade
  <2> QED BY <2>1, WorkOfStep DEF Inv
<1> QED BY <1>1, RpcInvariant, PTL DEF Spec, WorkShrinks

=============================================================================
