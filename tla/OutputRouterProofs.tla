------------------------- MODULE OutputRouterProofs ---------------------------
(***************************************************************************)
(* The output routes keep what Delivery promises, whatever the capacity of *)
(* the queue, the routes and the clients that reconfigure them: every step *)
(* of the publisher, of the delivery thread and of a client is one of      *)
(* Delivery's or none.                                                     *)
(***************************************************************************)
EXTENDS OutputRouter, SequenceTheorems, FiniteSetTheorems, TLAPS

(* The queue holds published jobs in their order, all of them later than   *)
(* the one in hand.                                                        *)
QueueIsOrdered ==
  /\ \A i \in 1 .. Len(queue) :
       /\ queue[i].id \in 1 .. Len(published)
       /\ queue[i] = published[queue[i].id]
       /\ worker.job.id < queue[i].id
  /\ \A i, j \in 1 .. Len(queue) : i < j => queue[i].id < queue[j].id

(* The worker has a published job, and routes of its kind for it.          *)
WorkerHasPublished ==
  \/ worker = [job |-> NoJob, todo |-> {}]
  \/ /\ worker.job.id \in 1 .. Len(published)
     /\ worker.job = published[worker.job.id]
     /\ \A r \in worker.todo : Trigger[r] = worker.job.kind

(* Before the first request the cache cannot differ from the file.         *)
NothingChanged ==
  changes = 0 =>
    /\ cache \in {NoCache, config}
    /\ \A c \in Clients : client[c].pc = "idle"

ShownAs(r, payload) ==
  /\ sink[r] # <<>>
  /\ \/ sink[r][Len(sink[r])].payload = payload
     \/ <<sink[r][Len(sink[r])].id, r>> \in reported

(* What a route is compared with is what its sink shows.                   *)
PreviousIsShown ==
  \A r \in Routes :
    previous[r] # Missing => Trigger[r] = "state" /\ ShownAs(r, previous[r])

(* The last state waits, or was handled and is shown, or its loss is told. *)
LastIsHandled ==
  changes = 0 =>
    \A r \in EnabledFor(config, "state"), i \in LastState :
      \/ <<i, r>> \in reported
      \/ Pending(i, r)
      \/ i <= worker.job.id /\ ShownAs(r, published[i].payload)

RouterOrder ==
  /\ TypeOK
  /\ QueueIsOrdered
  /\ WorkerHasPublished
  /\ NothingChanged

DeliveryInvariant == RouterOrder /\ PreviousIsShown /\ LastIsHandled

-----------------------------------------------------------------------------
(* What the types say of sequences and of the worker.                      *)
LEMMA RouterTypes ==
  ASSUME TypeOK
  PROVE  /\ queue \in Seq(Job) /\ Len(queue) \in Nat /\ DOMAIN queue = 1 .. Len(queue)
         /\ published \in Seq(Job) /\ Len(published) \in Nat /\ DOMAIN published = 1 .. Len(published)
         /\ \A i \in 1 .. Len(queue) : queue[i] \in Job
         /\ \A i \in 1 .. Len(published) : published[i] \in Job
         /\ \A r \in Routes : sink[r] \in Seq(Job)
         /\ worker.job \in Job /\ worker.job.id \in Nat /\ worker.job.payload \in Payloads \cup {Missing}
         /\ worker.todo \subseteq Routes
         /\ worker = [job |-> worker.job, todo |-> worker.todo]
<1>1. queue \in Seq(Job) /\ published \in Seq(Job) /\ \A r \in Routes : sink[r] \in Seq(Job)
  BY DEF TypeOK
<1>2. worker \in [job : Job \cup {NoJob}, todo : SUBSET Routes]
  BY DEF TypeOK
<1>3. NoJob \in Job
  BY DEF NoJob, Job, Kind
<1>4. worker.job \in Job /\ worker.todo \subseteq Routes
      /\ worker = [job |-> worker.job, todo |-> worker.todo]
  BY <1>2, <1>3
<1>5. worker.job.id \in Nat /\ worker.job.payload \in Payloads \cup {Missing}
  BY <1>4 DEF Job
<1>6. Len(queue) \in Nat /\ DOMAIN queue = 1 .. Len(queue) /\ \A i \in 1 .. Len(queue) : queue[i] \in Job
  BY <1>1, LenProperties, ElementOfSeq
<1>7. /\ Len(published) \in Nat /\ DOMAIN published = 1 .. Len(published)
      /\ \A i \in 1 .. Len(published) : published[i] \in Job
  BY <1>1, LenProperties, ElementOfSeq
<1>8. QED
  BY <1>1, <1>4, <1>5, <1>6, <1>7

NextJob(kind, payload) == [id |-> Len(published) + 1, kind |-> kind, payload |-> payload]

LEMMA NextJobType ==
  ASSUME TypeOK, NEW kind \in Kind, NEW payload \in Payloads \cup {Missing}
  PROVE  /\ NextJob(kind, payload) \in Job
         /\ Append(published, NextJob(kind, payload)) \in Seq(Job)
         /\ Len(Append(published, NextJob(kind, payload))) = Len(published) + 1
         /\ \A i \in 1 .. Len(published) : Append(published, NextJob(kind, payload))[i] = published[i]
         /\ Append(published, NextJob(kind, payload))[Len(published) + 1] = NextJob(kind, payload)
         /\ Append(queue, NextJob(kind, payload)) \in Seq(Job)
         /\ Len(Append(queue, NextJob(kind, payload))) = Len(queue) + 1
         /\ \A i \in 1 .. Len(queue) : Append(queue, NextJob(kind, payload))[i] = queue[i]
         /\ Append(queue, NextJob(kind, payload))[Len(queue) + 1] = NextJob(kind, payload)
<1> DEFINE job == NextJob(kind, payload)
<1>1. job \in Job
  BY RouterTypes DEF NextJob, Job
<1>2. queue \in Seq(Job) /\ published \in Seq(Job)
  BY RouterTypes
<1> HIDE DEF job
<1>3. /\ Append(published, job) \in Seq(Job) /\ Len(Append(published, job)) = Len(published) + 1
      /\ \A i \in 1 .. Len(published) : Append(published, job)[i] = published[i]
      /\ Append(published, job)[Len(published) + 1] = job
  BY <1>1, <1>2, AppendProperties
<1>4. /\ Append(queue, job) \in Seq(Job) /\ Len(Append(queue, job)) = Len(queue) + 1
      /\ \A i \in 1 .. Len(queue) : Append(queue, job)[i] = queue[i]
      /\ Append(queue, job)[Len(queue) + 1] = job
  BY <1>1, <1>2, AppendProperties
<1>5. QED
  BY <1>1, <1>3, <1>4 DEF job

(* The worker takes the job at the head of the queue.                      *)
LEMMA HeadOfQueue ==
  ASSUME TypeOK, queue # <<>>
  PROVE  /\ Head(queue) = queue[1] /\ Head(queue) \in Job /\ Len(queue) > 0
         /\ Tail(queue) \in Seq(Job) /\ Len(Tail(queue)) = Len(queue) - 1
         /\ \A i \in 1 .. Len(queue) - 1 : Tail(queue)[i] = queue[i + 1]
<1>1. queue \in Seq(Job) /\ Len(queue) \in Nat
  BY RouterTypes
<1>2. Head(queue) = queue[1] /\ Head(queue) \in Job /\ Tail(queue) \in Seq(Job)
      /\ Len(Tail(queue)) = Len(queue) - 1
      /\ \A i \in 1 .. Len(queue) - 1 : Tail(queue)[i] = queue[i + 1]
  BY <1>1, HeadTailProperties
<1>3. Len(queue) > 0
  BY <1>1, EmptySeq
<1>4. QED
  BY <1>2, <1>3

(* Taking a job off the queue.                                             *)
TakesFrom(routes) ==
  /\ WorkerReady
  /\ BeginJob(routes)
  /\ UNCHANGED <<sink, reported, published, configVars>>

LEMMA PublishType ==
  ASSUME TypeOK, NEW kind \in Kind, NEW payload \in Payloads \cup {Missing}, Publish(kind, payload),
         stalled' \in BOOLEAN
  PROVE  TypeOK'
<1>1. published' = Append(published, NextJob(kind, payload))
  BY DEF Publish, NextJob
<1>2. published' \in Seq(Job)
  BY <1>1, NextJobType
<1>3. queue' = queue \/ (queue' = Append(queue, NextJob(kind, payload)) /\ Len(queue) < Capacity)
  BY DEF Publish, NextJob
<1>4. queue' \in Seq(Job) /\ Len(queue') <= Capacity
  <2>1. CASE queue' = queue
    BY <2>1 DEF TypeOK
  <2>2. CASE queue' = Append(queue, NextJob(kind, payload)) /\ Len(queue) < Capacity
    <3>1. queue' \in Seq(Job) /\ Len(queue') = Len(queue) + 1
      BY <2>2, NextJobType
    <3>2. QED
      BY <2>2, <3>1, RouterTypes, RouterAssumption
  <2>3. QED
    BY <1>3, <2>1, <2>2
<1>5. reported' = reported \/ reported' = reported \cup {<<Len(published) + 1, r>> : r \in Routes}
  BY DEF Publish
<1>6. reported' \subseteq Nat \X Routes
  BY <1>5, RouterTypes DEF TypeOK
<1>7. UNCHANGED <<worker, previous, sink, configVars, cache>>
  BY DEF Publish
<1>8. QED
  BY <1>2, <1>4, <1>6, <1>7 DEF TypeOK, configVars

LEMMA TakeType ==
  ASSUME TypeOK, NEW routes \in Settings, TakesFrom(routes), cache' \in Settings,
         stalled' \in BOOLEAN
  PROVE  TypeOK'
<1>1. queue # <<>> /\ BeginJob(routes)
  BY DEF TakesFrom, WorkerReady
<1>2. Head(queue) \in Job /\ Tail(queue) \in Seq(Job) /\ Len(Tail(queue)) <= Capacity
  BY <1>1, HeadOfQueue, RouterTypes, RouterAssumption DEF TypeOK
<1>3. worker' \in [job : Job \cup {NoJob}, todo : SUBSET Routes]
  BY <1>1, <1>2 DEF BeginJob, EnabledFor
<1>4. previous' \in [Routes -> Payloads \cup {Missing}]
  BY <1>1 DEF BeginJob, TypeOK
<1>5. QED
  BY <1>1, <1>2, <1>3, <1>4 DEF TypeOK, TakesFrom, configVars, BeginJob

LEMMA FillFailsType ==
  ASSUME TypeOK, FillFails,
         stalled' \in BOOLEAN
  PROVE  TypeOK'
<1>1. queue # <<>>
  BY DEF FillFails, WorkerReady
<1>2. Head(queue) \in Job /\ Tail(queue) \in Seq(Job) /\ Len(Tail(queue)) <= Capacity
  BY <1>1, HeadOfQueue, RouterTypes, RouterAssumption DEF TypeOK
<1>3. Head(queue).id \in Nat
  BY <1>2 DEF Job
<1>4. reported' \subseteq Nat \X Routes
  BY <1>3 DEF FillFails, TypeOK
<1>5. QED
  BY <1>2, <1>4 DEF TypeOK, FillFails, configVars

(* What the worker does with one route of the job in hand.                 *)
Handles(r) == SkipRoute(r) \/ Deliver(r) \/ DeliveryFails(r) \/ CommandFails(r)

LEMMA HandleEffects ==
  ASSUME TypeOK, NEW r \in Routes, Handles(r)
  PROVE  /\ r \in worker.todo /\ worker' = [job |-> worker.job, todo |-> worker.todo \ {r}]
         /\ UNCHANGED <<queue, published, configVars, cache>>
         /\ \/ sink' = sink
            \/ sink' = [sink EXCEPT ![r] = Append(@, worker.job)] /\ worker.job.payload # Missing
         /\ \/ previous' = previous
            \/ /\ previous' = [previous EXCEPT ![r] = worker.job.payload]
               /\ sink' = [sink EXCEPT ![r] = Append(@, worker.job)]
         /\ reported' = reported \/ reported' = reported \cup {<<worker.job.id, r>>}
<1>1. worker' = [worker EXCEPT !.todo = @ \ {r}]
  BY DEF Handles, SkipRoute, Deliver, DeliveryFails, CommandFails, Done
<1>2. worker' = [job |-> worker.job, todo |-> worker.todo \ {r}]
  <2>1. worker = [job |-> worker.job, todo |-> worker.todo]
    BY RouterTypes
  <2>2. QED
    BY <1>1, <2>1
<1>3. r \in worker.todo /\ UNCHANGED <<queue, published, configVars, cache>>
  BY DEF Handles, SkipRoute, Deliver, DeliveryFails, CommandFails
<1>4. /\ \/ sink' = sink
         \/ sink' = [sink EXCEPT ![r] = Append(@, worker.job)] /\ worker.job.payload # Missing
      /\ \/ previous' = previous
         \/ /\ previous' = [previous EXCEPT ![r] = worker.job.payload]
            /\ sink' = [sink EXCEPT ![r] = Append(@, worker.job)]
      /\ reported' = reported \/ reported' = reported \cup {<<worker.job.id, r>>}
  BY DEF Handles, SkipRoute, Deliver, DeliveryFails, CommandFails
<1>5. QED
  BY <1>2, <1>3, <1>4

LEMMA HandleType ==
  ASSUME TypeOK, NEW r \in Routes, Handles(r),
         stalled' \in BOOLEAN
  PROVE  TypeOK'
<1>1. /\ worker.job \in Job /\ worker.job.id \in Nat /\ worker.job.payload \in Payloads \cup {Missing}
      /\ worker.todo \subseteq Routes /\ sink[r] \in Seq(Job)
  BY RouterTypes
<1>2. Append(sink[r], worker.job) \in Seq(Job)
  BY <1>1, AppendProperties
<1>3. sink' \in [Routes -> Seq(Job)]
  <2>1. sink' = sink \/ sink' = [sink EXCEPT ![r] = Append(sink[r], worker.job)]
    BY HandleEffects
  <2>2. sink \in [Routes -> Seq(Job)]
    BY DEF TypeOK
  <2>3. QED
    BY <1>2, <2>1, <2>2
<1>4. previous' \in [Routes -> Payloads \cup {Missing}]
  BY <1>1, HandleEffects DEF TypeOK
<1>5. reported' \subseteq Nat \X Routes
  BY <1>1, HandleEffects DEF TypeOK
<1>6. worker' \in [job : Job \cup {NoJob}, todo : SUBSET Routes]
  BY <1>1, HandleEffects
<1>7. UNCHANGED <<queue, published, configVars, cache>>
  BY HandleEffects
<1>8. QED
  BY <1>3, <1>4, <1>5, <1>6, <1>7 DEF TypeOK, configVars

(* A client begins a request, writes the file or fails to, and refreshes   *)
(* the cache.                                                              *)
LEMMA ClientEffects ==
  ASSUME TypeOK, NEW c \in Clients, ClientStep(c)
  PROVE  /\ UNCHANGED deliveryVars
         /\ \/ ListRoutes(c)
            \/ \E r \in Routes, setting \in Setting : ChangeRoute(c, r, setting)
            \/ SaveRoutes(c) \/ SaveFails(c) \/ RefreshCache(c)
<1>1. \/ ListRoutes(c)
      \/ \E r \in Routes, setting \in Setting : ChangeRoute(c, r, setting)
      \/ SaveRoutes(c) \/ SaveFails(c) \/ RefreshCache(c)
  BY DEF ClientStep, SetRoute, EnableRoute, RemoveRoute, InstallRecipe, Setting
<1>2. UNCHANGED deliveryVars
  BY <1>1 DEF ListRoutes, ChangeRoute, BeginRequest, SaveRoutes, SaveFails, RefreshCache
<1>3. QED
  BY <1>1, <1>2

LEMMA ClientType ==
  ASSUME TypeOK, NEW c \in Clients, ClientStep(c),
         stalled' \in BOOLEAN
  PROVE  TypeOK'
<1>1. /\ client \in [Clients -> Request] /\ client[c] \in Request /\ client[c].routes \in Settings
      /\ \A d \in Clients : [client[d] EXCEPT !.alone = FALSE] \in Request
      /\ config \in Settings /\ changes \in Nat /\ wanted \in Settings /\ cache \in Settings \cup {NoCache}
      /\ raced \in BOOLEAN /\ AllClientsIdle \in BOOLEAN
  BY DEF TypeOK, Request, AllClientsIdle
<1>2. Resting \in Request
  BY DEF Resting, Request, AllRoutes, Settings, Setting
<1>3. client' \in [Clients -> Request] /\ changes' \in Nat
  <2>1. CASE ListRoutes(c)
    <3>1. [pc |-> "saved", routes |-> config, about |-> {}, alone |-> AllClientsIdle] \in Request
      BY <1>1 DEF Request
    <3>2. QED
      BY <1>1, <2>1, <3>1 DEF ListRoutes, BeginRequest
  <2>2. CASE \E r \in Routes, setting \in Setting : ChangeRoute(c, r, setting)
    <3>1. PICK r \in Routes, setting \in Setting : ChangeRoute(c, r, setting)
      BY <2>2
    <3>2. [config EXCEPT ![r] = setting] \in Settings
      BY <1>1 DEF Settings
    <3>3. [pc |-> "loaded", routes |-> [config EXCEPT ![r] = setting], about |-> {r},
           alone |-> AllClientsIdle] \in Request
      BY <1>1, <3>2 DEF Request
    <3>4. client' = [d \in Clients |->
             IF d = c THEN [pc |-> "loaded", routes |-> [config EXCEPT ![r] = setting],
                            about |-> {r}, alone |-> AllClientsIdle]
             ELSE [client[d] EXCEPT !.alone = FALSE]]
      BY <3>1, {r} # {} DEF ChangeRoute, BeginRequest
    <3>5. changes' \in Nat
      BY <1>1, <3>1 DEF ChangeRoute, BeginRequest
    <3>6. QED
      BY <1>1, <3>3, <3>4, <3>5
  <2>3. CASE SaveRoutes(c)
    <3>1. [client[c] EXCEPT !.pc = "saved"] \in Request
      BY <1>1 DEF Request
    <3>2. QED
      BY <1>1, <2>3, <3>1 DEF SaveRoutes
  <2>4. CASE SaveFails(c) \/ RefreshCache(c)
    BY <1>1, <1>2, <2>4 DEF SaveFails, RefreshCache
  <2>5. QED
    BY <2>1, <2>2, <2>3, <2>4, ClientEffects
<1>4. config' \in Settings /\ cache' \in Settings \cup {NoCache} /\ raced' \in BOOLEAN
  <2>1. CASE ListRoutes(c) \/ \E r \in Routes, setting \in Setting : ChangeRoute(c, r, setting)
    BY <1>1, <2>1 DEF ListRoutes, ChangeRoute, BeginRequest
  <2>2. CASE SaveRoutes(c) \/ SaveFails(c) \/ RefreshCache(c)
    BY <1>1, <2>2 DEF SaveRoutes, SaveFails, RefreshCache
  <2>3. QED
    BY <2>1, <2>2, ClientEffects
<1>5. wanted' \in Settings
  <2>1. \/ wanted' \in {wanted, config}
        \/ wanted' = [r \in Routes |-> IF r \in client[c].about THEN config'[r] ELSE wanted[r]]
    BY ClientEffects DEF ListRoutes, ChangeRoute, BeginRequest, SaveRoutes, SaveFails, RefreshCache
  <2>2. QED
    BY <1>1, <1>4, <2>1 DEF Settings
<1>6. QED
  BY <1>3, <1>4, <1>5, ClientEffects DEF TypeOK, deliveryVars

(* A step, of which only the type of stalled matters: the worker does      *)
(* nothing while it is stalled, and nothing else looks at it.              *)
RoutingNext ==
  \/ \E kind \in Kind, payload \in Payloads \cup {Missing} : Publish(kind, payload)
  \/ TakeJobCached \/ TakeJobFilling \/ FillFails
  \/ \E r \in Routes : Handles(r)
  \/ \E c \in Clients : ClientStep(c)

RoutingStep == (RoutingNext \/ UNCHANGED routingVars) /\ stalled' \in BOOLEAN

LEMMA StepIsRouting ==
  ASSUME TypeOK, [Next]_vars
  PROVE  RoutingStep
<1>1. stalled \in BOOLEAN
  BY DEF TypeOK
<1>2. CASE Next
  <2>1. CASE WorkerStep
    <3>1. stalled' = stalled /\ (\/ TakeJobCached \/ TakeJobFilling \/ FillFails
                                \/ \E r \in Routes : Handles(r))
      BY <2>1 DEF WorkerStep, Handles
    <3> QED  BY <1>1, <3>1, Zenon DEF RoutingStep, RoutingNext
  <2>2. CASE CommandBlocks \/ CommandUnblocks
    BY <2>2 DEF CommandBlocks, CommandUnblocks, RoutingStep
  <2>3. CASE \/ \E kind \in Kind, payload \in Payloads \cup {Missing} :
                  Publish(kind, payload) /\ UNCHANGED stalled
             \/ \E c \in Clients : ClientStep(c) /\ UNCHANGED stalled
    BY <1>1, <2>3, Zenon DEF RoutingStep, RoutingNext
  <2> QED  BY <1>2, <2>1, <2>2, <2>3, Zenon DEF Next
<1>3. CASE UNCHANGED vars
  BY <1>1, <1>3 DEF vars, RoutingStep
<1> QED  BY <1>2, <1>3

LEMMA RouterTypeStep ==
  ASSUME TypeOK, RoutingStep
  PROVE  TypeOK'
<1>0. stalled' \in BOOLEAN
  BY DEF RoutingStep
<1>1. CASE \E kind \in Kind, payload \in Payloads \cup {Missing} : Publish(kind, payload)
  BY <1>1, <1>0, PublishType
<1>2. CASE TakeJobCached
  <2>1. cache \in Settings
    BY <1>2 DEF TakeJobCached, TypeOK
  <2>2. TakesFrom(cache) /\ cache' \in Settings
    BY <1>2, <2>1 DEF TakeJobCached, TakesFrom
  <2>3. QED
    BY <2>1, <2>2, <1>0, TakeType
<1>3. CASE TakeJobFilling
  <2>1. config \in Settings /\ TakesFrom(config) /\ cache' \in Settings
    BY <1>3 DEF TakeJobFilling, TakesFrom, TypeOK
  <2>2. QED
    BY <2>1, <1>0, TakeType
<1>4. CASE FillFails
  BY <1>4, <1>0, FillFailsType
<1>5. CASE \E r \in Routes : Handles(r)
  BY <1>5, <1>0, HandleType
<1>6. CASE \E c \in Clients : ClientStep(c)
  BY <1>6, <1>0, ClientType
<1>7. CASE UNCHANGED routingVars
  BY <1>0, <1>7 DEF TypeOK, routingVars, deliveryVars, configVars
<1>8. QED
  BY <1>1, <1>2, <1>3, <1>4, <1>5, <1>6, <1>7 DEF RoutingStep, RoutingNext

-----------------------------------------------------------------------------
(* Jobs are taken in the order they were published.                        *)
LEMMA OrderOfPublish ==
  ASSUME RouterOrder, NEW kind \in Kind, NEW payload \in Payloads \cup {Missing}, Publish(kind, payload)
  PROVE  QueueIsOrdered' /\ WorkerHasPublished'
<1> DEFINE job == NextJob(kind, payload)
           n == Len(published) + 1
<1>1. TypeOK /\ QueueIsOrdered /\ WorkerHasPublished
  BY DEF RouterOrder
<1>2. Len(published) \in Nat /\ Len(queue) \in Nat /\ worker.job.id \in Nat
  BY <1>1, RouterTypes
<1>3. /\ Len(published') = n /\ published'[n] = job
      /\ \A i \in 1 .. Len(published) : published'[i] = published[i]
  BY <1>1, NextJobType DEF Publish, NextJob
<1>4. job.id = n
  BY DEF NextJob
<1>5. queue' = queue \/ queue' = Append(queue, job)
  BY DEF Publish, NextJob
<1>6. worker' = worker
  BY DEF Publish
<1>7. worker.job.id < n
  <2>1. NoJob.id = 0
    BY DEF NoJob
  <2>2. QED
    BY <1>1, <1>2, <2>1 DEF WorkerHasPublished
<1>8. /\ Len(Append(queue, job)) = Len(queue) + 1
      /\ \A i \in 1 .. Len(queue) : Append(queue, job)[i] = queue[i]
      /\ Append(queue, job)[Len(queue) + 1] = job
  BY <1>1, NextJobType
<1> HIDE DEF job
<1>9. WorkerHasPublished'
  BY <1>1, <1>2, <1>3, <1>6 DEF WorkerHasPublished
<1>10. CASE queue' = queue
  BY <1>1, <1>2, <1>3, <1>6, <1>9, <1>10 DEF QueueIsOrdered
<1>11. CASE queue' = Append(queue, job)
  <2>1. ASSUME NEW i \in 1 .. Len(queue')
        PROVE  /\ queue'[i].id \in 1 .. Len(published') /\ queue'[i] = published'[queue'[i].id]
               /\ worker'.job.id < queue'[i].id
    <3>1. CASE i \in 1 .. Len(queue)
      BY <1>1, <1>2, <1>3, <1>6, <1>8, <1>11, <3>1 DEF QueueIsOrdered
    <3>2. CASE i = Len(queue) + 1
      BY <1>2, <1>3, <1>4, <1>6, <1>7, <1>8, <1>11, <3>2
    <3>3. QED
      BY <1>2, <1>8, <1>11, <3>1, <3>2
  <2>2. ASSUME NEW i \in 1 .. Len(queue'), NEW j \in 1 .. Len(queue'), i < j
        PROVE  queue'[i].id < queue'[j].id
    <3>1. i \in 1 .. Len(queue) /\ queue'[i] = queue[i] /\ queue[i].id \in 1 .. Len(published)
      BY <1>1, <1>2, <1>8, <1>11, <2>2 DEF QueueIsOrdered
    <3>2. CASE j \in 1 .. Len(queue)
      BY <1>1, <1>8, <1>11, <2>2, <3>1, <3>2 DEF QueueIsOrdered
    <3>3. CASE j = Len(queue) + 1
      BY <1>2, <1>4, <1>8, <1>11, <3>1, <3>3
    <3>4. QED
      BY <1>2, <1>8, <1>11, <3>2, <3>3
  <2>3. QED
    BY <1>9, <2>1, <2>2 DEF QueueIsOrdered
<1>12. QED
  BY <1>5, <1>10, <1>11

LEMMA OrderOfTake ==
  ASSUME RouterOrder, WorkerReady, queue' = Tail(queue), UNCHANGED published,
         \/ worker' = worker
         \/ \E routes : worker' = [job |-> Head(queue), todo |-> EnabledFor(routes, Head(queue).kind)]
  PROVE  QueueIsOrdered' /\ WorkerHasPublished'
<1>1. TypeOK /\ QueueIsOrdered /\ WorkerHasPublished /\ queue # <<>>
  BY DEF RouterOrder, WorkerReady
<1>2. /\ Len(queue) \in Nat /\ worker.job.id \in Nat
      /\ Head(queue) = queue[1] /\ Len(queue) > 0
      /\ Len(queue') = Len(queue) - 1
      /\ \A i \in 1 .. Len(queue) - 1 : queue'[i] = queue[i + 1]
  BY <1>1, HeadOfQueue, RouterTypes
<1>3. 1 \in 1 .. Len(queue) /\ Head(queue).id \in 1 .. Len(published)
      /\ Head(queue) = published[Head(queue).id]
  BY <1>1, <1>2 DEF QueueIsOrdered
<1>4. \A i \in 1 .. Len(queue) : worker.job.id < queue[i].id
  BY <1>1 DEF QueueIsOrdered
<1>5. \A i \in 1 .. Len(queue') : i + 1 \in 1 .. Len(queue) /\ queue'[i] = queue[i + 1]
  BY <1>2
<1>6. \A i \in 1 .. Len(queue') : Head(queue).id < queue'[i].id
  BY <1>1, <1>2, <1>3, <1>5 DEF QueueIsOrdered
<1>7. worker'.job.id = worker.job.id \/ worker'.job.id = Head(queue).id
  OBVIOUS
<1>8. WorkerHasPublished'
  <2>1. CASE worker' = worker
    BY <1>1, <2>1 DEF WorkerHasPublished
  <2>2. CASE \E routes : worker' = [job |-> Head(queue), todo |-> EnabledFor(routes, Head(queue).kind)]
    BY <1>3, <2>2 DEF WorkerHasPublished, EnabledFor
  <2>3. QED
    BY <2>1, <2>2
<1>9. QueueIsOrdered'
  <2>1. ASSUME NEW i \in 1 .. Len(queue')
        PROVE  /\ queue'[i].id \in 1 .. Len(published') /\ queue'[i] = published'[queue'[i].id]
               /\ worker'.job.id < queue'[i].id
    BY <1>1, <1>4, <1>5, <1>6, <1>7 DEF QueueIsOrdered
  <2>2. ASSUME NEW i \in 1 .. Len(queue'), NEW j \in 1 .. Len(queue'), i < j
        PROVE  queue'[i].id < queue'[j].id
    <3>1. i + 1 \in 1 .. Len(queue) /\ j + 1 \in 1 .. Len(queue) /\ i + 1 < j + 1
      BY <1>2, <1>5, <2>2
    <3>2. QED
      BY <1>1, <1>5, <3>1 DEF QueueIsOrdered
  <2>3. QED
    BY <2>1, <2>2 DEF QueueIsOrdered
<1>10. QED
  BY <1>8, <1>9

LEMMA OrderStep ==
  ASSUME RouterOrder, RoutingStep
  PROVE  RouterOrder'
<1>1. TypeOK /\ QueueIsOrdered /\ WorkerHasPublished /\ NothingChanged
  BY DEF RouterOrder
<1>2. TypeOK'
  BY <1>1, RouterTypeStep
<1>3. QueueIsOrdered' /\ WorkerHasPublished'
  <2>1. CASE \E kind \in Kind, payload \in Payloads \cup {Missing} : Publish(kind, payload)
    BY <2>1, OrderOfPublish
  <2>2. CASE TakeJobCached \/ TakeJobFilling \/ FillFails
    <3>1. WorkerReady /\ queue' = Tail(queue) /\ UNCHANGED published
      BY <2>2 DEF TakeJobCached, TakeJobFilling, FillFails, BeginJob
    <3>2. \/ worker' = worker
          \/ \E routes : worker' = [job |-> Head(queue), todo |-> EnabledFor(routes, Head(queue).kind)]
      BY <2>2 DEF TakeJobCached, TakeJobFilling, FillFails, BeginJob
    <3>3. QED
      BY <3>1, <3>2, OrderOfTake
  <2>3. CASE \E r \in Routes : Handles(r)
    <3>1. PICK r \in Routes : Handles(r)
      BY <2>3
    <3>2. worker' = [job |-> worker.job, todo |-> worker.todo \ {r}] /\ r \in worker.todo
          /\ UNCHANGED <<queue, published>>
      BY <1>1, <3>1, HandleEffects
    <3>3. worker'.job = worker.job /\ worker'.todo \subseteq worker.todo
      BY <3>2
    <3>4. worker # [job |-> NoJob, todo |-> {}]
      BY <3>2
    <3>5. QED
      BY <1>1, <3>2, <3>3, <3>4 DEF QueueIsOrdered, WorkerHasPublished
  <2>4. CASE (\E c \in Clients : ClientStep(c)) \/ UNCHANGED routingVars
    <3>1. UNCHANGED <<queue, worker, published>>
      BY <1>1, <2>4, ClientEffects DEF routingVars, deliveryVars
    <3>2. QED
      BY <1>1, <3>1 DEF QueueIsOrdered, WorkerHasPublished
  <2>5. QED
    BY <2>1, <2>2, <2>3, <2>4 DEF RoutingStep, RoutingNext
<1>4. NothingChanged'
  <2>1. ASSUME UNCHANGED configVars, cache' = cache \/ cache' = config
        PROVE  NothingChanged'
    BY <1>1, <2>1 DEF NothingChanged, configVars
  <2>2. CASE \E c \in Clients : ClientStep(c)
    <3>1. PICK c \in Clients : ClientStep(c)
      BY <2>2
    <3>2. CASE SaveRoutes(c) \/ SaveFails(c) \/ RefreshCache(c)
      <4>1. client[c].pc # "idle" /\ changes' = changes
        BY <3>2 DEF SaveRoutes, SaveFails, RefreshCache
      <4>2. QED
        BY <1>1, <4>1 DEF NothingChanged
    <3>3. CASE ListRoutes(c) \/ \E r \in Routes, setting \in Setting : ChangeRoute(c, r, setting)
      <4>1. changes' = changes + 1 /\ changes \in Nat
        BY <1>1, <3>3 DEF ListRoutes, ChangeRoute, BeginRequest, TypeOK
      <4>2. QED
        BY <4>1 DEF NothingChanged
    <3>4. QED
      BY <1>1, <3>1, <3>2, <3>3, ClientEffects
  <2>3. QED
    <3>1. CASE \E r \in Routes : Handles(r)
      BY <1>1, <2>1, <3>1, HandleEffects
    <3>2. CASE \E kind \in Kind, payload \in Payloads \cup {Missing} : Publish(kind, payload)
      BY <2>1, <3>2 DEF Publish
    <3>3. CASE TakeJobCached \/ TakeJobFilling \/ FillFails
      BY <2>1, <3>3 DEF TakeJobCached, TakeJobFilling, FillFails
    <3>4. CASE UNCHANGED routingVars
      BY <2>1, <3>4 DEF routingVars
    <3>5. QED
      BY <2>2, <3>1, <3>2, <3>3, <3>4 DEF RoutingStep, RoutingNext
<1>5. QED
  BY <1>2, <1>3, <1>4 DEF RouterOrder

-----------------------------------------------------------------------------
(* What Delivery calls open, and when a step settles a job.                *)
Open(r) == {n \in DOMAIN published : Pending(n, r)}
Owed(n, r) ==
  changes = 0 /\ config[r] = "enabled" /\ Trigger[r] = "event" /\ published[n].kind = "event"

Stays(r) == Open(r)' = Open(r) /\ sink'[r] = sink[r]
Ends(n, r) ==
  /\ n \in Open(r) /\ Open(r)' = Open(r) \ {n} /\ \A m \in Open(r) : n <= m
  /\ \/ sink'[r] = Append(sink[r], published[n]) /\ published[n].kind = Trigger[r]
     \/ sink'[r] = sink[r] /\ (Owed(n, r) => <<n, r>> \in reported')

LEMMA IsSettled ==
  ASSUME TypeOK, NEW n \in DOMAIN published, UNCHANGED published, reported \subseteq reported',
         \A r \in Routes : Stays(r) \/ Ends(n, r)
  PROVE  Promise!Settle(n)
<1>1. \A r \in Routes : Open(r) \subseteq Nat
  BY RouterTypes DEF Open
<1>2. ASSUME NEW r \in Routes, Ends(n, r)
      PROVE  n = Promise!Min(Open(r))
  BY <1>1, <1>2 DEF Ends, Promise!Min
<1>3. QED
  BY <1>2 DEF Promise!Settle, Promise!Closes, Promise!Receives, Promise!Due, Stays, Ends, Owed, Open

(* Publishing opens the job for every route, or for none.                  *)
LEMMA PublishPromised ==
  ASSUME RouterOrder, NEW kind \in Kind, NEW payload \in Payloads \cup {Missing}, Publish(kind, payload)
  PROVE  Promise!Publish
<1> DEFINE n == Len(published) + 1
           job == NextJob(kind, payload)
<1>1. TypeOK /\ QueueIsOrdered /\ WorkerHasPublished /\ NothingChanged
  BY DEF RouterOrder
<1>2. /\ Len(published) \in Nat /\ DOMAIN published = 1 .. Len(published) /\ published \in Seq(Job)
      /\ Len(queue) \in Nat /\ DOMAIN queue = 1 .. Len(queue)
  BY <1>1, RouterTypes
<1>3. /\ published' \in Seq(Job) /\ Len(published') = n /\ published'[n] = job
      /\ \A i \in 1 .. Len(published) : published'[i] = published[i]
  BY <1>1, NextJobType DEF Publish, NextJob
<1>4. DOMAIN published' = 1 .. n
  BY <1>3, LenProperties
<1>5. SubSeq(published', 1, n - 1) = published
  <2>1. n - 1 = Len(published) /\ Len(published) \in 0 .. Len(published')
    BY <1>2, <1>3
  <2>2. SubSeq(published', 1, n - 1) = [i \in 1 .. Len(published) |-> published'[i]]
    BY <1>3, <2>1, SubSeqProperties
  <2>3. published = [i \in 1 .. Len(published) |-> published[i]]
    BY <1>2
  <2>4. QED
    BY <1>3, <2>2, <2>3
<1>6. UNCHANGED <<worker, sink, config, changes, cache>> /\ reported \subseteq reported'
  BY DEF Publish, configVars
<1>7. \A i \in 1 .. Len(queue) : queue[i].id \in 1 .. Len(published)
  BY <1>1 DEF QueueIsOrdered
<1>8. worker.todo # {} => worker.job.id \in 1 .. Len(published)
  BY <1>1 DEF WorkerHasPublished
<1>9. \A r \in Routes : ~Pending(n, r)
  BY <1>2, <1>7, <1>8 DEF Pending
<1>10. job.kind = kind /\ job.id = n
  BY DEF NextJob
<1>11. CASE queue' = queue
  <2>1. \A r \in Routes : Open(r)' = Open(r)
    BY <1>2, <1>4, <1>6, <1>9, <1>11 DEF Open, Pending
  <2>2. ASSUME NEW r \in Routes, changes = 0, config[r] = "enabled", Trigger[r] = "event", kind = "event"
        PROVE  <<n, r>> \in reported'
    <3>1. CASE ~ShouldQueue(kind)
      <4>1. cache = config
        BY <1>1, <2>2, <3>1 DEF ShouldQueue, NothingChanged
      <4>2. r \in EnabledFor(cache, kind)
        BY <2>2, <4>1 DEF EnabledFor
      <4>3. QED
        BY <3>1, <4>2 DEF ShouldQueue
    <3>2. CASE reported' = reported \cup {<<n, q>> : q \in Routes}
      BY <3>2
    <3>3. queue # Append(queue, job)
      <4>1. Len(Append(queue, job)) = Len(queue) + 1
        BY <1>1, NextJobType
      <4>2. \A k \in Nat : k + 1 # k
        OBVIOUS
      <4>3. QED
        BY <1>2, <4>1, <4>2, Zenon
    <3>4. QED
      BY <1>11, <3>1, <3>2, <3>3 DEF Publish, NextJob
  <2>3. \A r \in Routes \ {} : Promise!Due(r, published'[n]) => <<n, r>> \in reported'
    BY <1>3, <1>10, <2>2 DEF Promise!Due
  <2>4. [r \in Routes |-> Open(r)]' = [r \in Routes |-> IF r \in {} THEN Open(r) \cup {n} ELSE Open(r)]
    BY <2>1
  <2>5. \E taken \in SUBSET Routes :
          /\ [r \in Routes |-> Open(r)]' = [r \in Routes |-> IF r \in taken THEN Open(r) \cup {n} ELSE Open(r)]
          /\ \A r \in Routes \ taken : Promise!Due(r, published'[n]) => <<n, r>> \in reported'
    <3>1. WITNESS {} \in SUBSET Routes
    <3>2. QED
      BY <2>3, <2>4
  <2> HIDE DEF job
  <2>6. QED
    BY <1>3, <1>5, <1>6, <2>5 DEF Promise!Publish, Open
<1>12. CASE queue' = Append(queue, job)
  <2>1. /\ Len(queue') = Len(queue) + 1 /\ queue'[Len(queue) + 1] = job
        /\ \A i \in 1 .. Len(queue) : queue'[i] = queue[i]
        /\ DOMAIN queue' = 1 .. Len(queue) + 1
    <3>1. /\ queue' \in Seq(Job) /\ Len(queue') = Len(queue) + 1 /\ queue'[Len(queue) + 1] = job
          /\ \A i \in 1 .. Len(queue) : queue'[i] = queue[i]
      BY <1>1, <1>12, NextJobType
    <3>2. QED
      BY <3>1, LenProperties
  <2> HIDE DEF job
  <2>2. ASSUME NEW r \in Routes, NEW m \in 1 .. n
        PROVE  Pending(m, r)' <=> Pending(m, r) \/ m = n
    <3>1. (\E i \in 1 .. Len(queue) + 1 : queue'[i].id = m)
            <=> (\E i \in 1 .. Len(queue) : queue[i].id = m) \/ m = n
      BY <1>2, <1>10, <2>1
    <3>2. QED
      BY <1>2, <1>6, <2>1, <3>1 DEF Pending
  <2>3. \A r \in Routes : Open(r)' = Open(r) \cup {n}
    BY <1>2, <1>4, <2>2 DEF Open
  <2>4. [r \in Routes |-> Open(r)]' = [r \in Routes |-> IF r \in Routes THEN Open(r) \cup {n} ELSE Open(r)]
    BY <2>3
  <2>5. \A r \in Routes \ Routes : Promise!Due(r, published'[n]) => <<n, r>> \in reported'
    OBVIOUS
  <2>6. QED
    BY <1>3, <1>5, <1>6, <2>4, <2>5 DEF Promise!Publish, Open
<1>13. QED
  BY <1>11, <1>12 DEF Publish, NextJob

(* What is left of the queue without its head.                             *)
LEMMA QueueTail ==
  ASSUME TypeOK, QueueIsOrdered, queue # <<>>, queue' = Tail(queue)
  PROVE  \A m \in 1 .. Len(published) :
           (\E i \in DOMAIN queue' : queue'[i].id = m)
             <=> m # Head(queue).id /\ \E i \in DOMAIN queue : queue[i].id = m
<1> DEFINE n == Head(queue).id
<1>1. /\ Len(queue) \in Nat /\ DOMAIN queue = 1 .. Len(queue)
      /\ Head(queue) = queue[1] /\ Len(queue) > 0
      /\ queue' \in Seq(Job) /\ Len(queue') = Len(queue) - 1
      /\ \A i \in 1 .. Len(queue) - 1 : queue'[i] = queue[i + 1]
  BY HeadOfQueue, RouterTypes
<1>2. DOMAIN queue' = 1 .. Len(queue) - 1
  BY <1>1, LenProperties
<1>3. 1 \in 1 .. Len(queue)
  BY <1>1
<1>4. \A i \in 1 .. Len(queue) : i # 1 => n < queue[i].id
  BY <1>1, <1>3 DEF QueueIsOrdered
<1>5. \A i \in 1 .. Len(queue) : queue[i].id \in Nat /\ n \in Nat
  BY <1>1, <1>3 DEF QueueIsOrdered
<1>6. SUFFICES ASSUME NEW m \in 1 .. Len(published)
               PROVE  (\E i \in DOMAIN queue' : queue'[i].id = m)
                        <=> m # n /\ \E i \in DOMAIN queue : queue[i].id = m
  OBVIOUS
<1>7. ASSUME NEW i \in DOMAIN queue', queue'[i].id = m
      PROVE  m # n /\ \E j \in DOMAIN queue : queue[j].id = m
  <2>1. i + 1 \in 1 .. Len(queue) /\ i + 1 # 1 /\ queue[i + 1].id = m
    BY <1>1, <1>2, <1>7
  <2>2. n < m /\ n \in Nat /\ m \in Nat
    BY <1>4, <1>5, <2>1
  <2>3. QED
    BY <1>1, <2>1, <2>2
<1>8. ASSUME NEW i \in DOMAIN queue, queue[i].id = m, m # n
      PROVE  \E j \in DOMAIN queue' : queue'[j].id = m
  <2>1. i # 1 /\ i \in 1 .. Len(queue)
    BY <1>1, <1>8
  <2>2. i - 1 \in 1 .. Len(queue) - 1 /\ (i - 1) + 1 = i
    BY <1>1, <2>1
  <2>3. QED
    BY <1>1, <1>2, <1>8, <2>2
<1>9. QED
  BY <1>7, <1>8

(* A job is taken: it stays open for the routes the worker turns to.       *)
LEMMA TakePromised ==
  ASSUME RouterOrder, WorkerReady, queue' = Tail(queue), UNCHANGED <<published, sink>>,
         reported \subseteq reported',
         \/ /\ worker' = worker
            /\ \A r \in Routes : <<Head(queue).id, r>> \in reported'
         \/ \E routes \in Settings :
              /\ worker' = [job |-> Head(queue), todo |-> EnabledFor(routes, Head(queue).kind)]
              /\ changes = 0 => routes = config
  PROVE  Promise!Settle(Head(queue).id)
<1> DEFINE n == Head(queue).id
<1>1. TypeOK /\ QueueIsOrdered /\ WorkerHasPublished /\ queue # <<>> /\ worker.todo = {}
  BY DEF RouterOrder, WorkerReady
<1>2. /\ Len(queue) \in Nat /\ DOMAIN queue = 1 .. Len(queue) /\ DOMAIN published = 1 .. Len(published)
      /\ Head(queue) = queue[1] /\ Len(queue) > 0
      /\ queue' \in Seq(Job) /\ Len(queue') = Len(queue) - 1
      /\ \A i \in 1 .. Len(queue) - 1 : queue'[i] = queue[i + 1]
  BY <1>1, HeadOfQueue, RouterTypes
<1>3. DOMAIN queue' = 1 .. Len(queue) - 1
  BY <1>2, LenProperties
<1>4. 1 \in 1 .. Len(queue) /\ n \in 1 .. Len(published) /\ Head(queue) = published[n]
  BY <1>1, <1>2 DEF QueueIsOrdered
<1>5. \A i \in 1 .. Len(queue) : i # 1 => n < queue[i].id
  BY <1>1, <1>2, <1>4 DEF QueueIsOrdered
<1>6. \A i \in 1 .. Len(queue) : queue[i].id \in Nat /\ n \in Nat
  BY <1>1, <1>4 DEF QueueIsOrdered
<1>7. \A r \in Routes : n \in Open(r) /\ \A m \in Open(r) : n <= m
  <2>1. TAKE r \in Routes
  <2>2. n \in Open(r)
    BY <1>2, <1>4 DEF Open, Pending
  <2>3. \A m \in Open(r) : \E i \in 1 .. Len(queue) : queue[i].id = m
    BY <1>1, <1>2 DEF Open, Pending
  <2>4. QED
    BY <1>2, <1>5, <1>6, <2>2, <2>3
<1>8. \A m \in 1 .. Len(published) :
        (\E i \in DOMAIN queue' : queue'[i].id = m) <=> m # n /\ \E i \in DOMAIN queue : queue[i].id = m
  BY <1>1, QueueTail
<1>9. ASSUME NEW r \in Routes, r \notin worker'.todo
      PROVE  Open(r)' = Open(r) \ {n}
  BY <1>1, <1>2, <1>8, <1>9 DEF Open, Pending
<1>10. ASSUME NEW r \in Routes, r \in worker'.todo, worker'.job = Head(queue)
       PROVE  Open(r)' = Open(r)
  <2>1. worker'.job.id = n /\ r \notin worker.todo
    BY <1>1, <1>10
  <2>2. \E i \in DOMAIN queue : queue[i].id = n
    BY <1>2, <1>4
  <2>3. \A m \in 1 .. Len(published) : Pending(m, r)' <=> Pending(m, r)
    BY <1>8, <1>10, <2>1, <2>2 DEF Pending
  <2>4. QED
    BY <1>2, <2>3 DEF Open
<1>11. \A r \in Routes : Stays(r) \/ Ends(n, r)
  <2>1. TAKE r \in Routes
  <2>2. CASE worker' = worker /\ \A q \in Routes : <<n, q>> \in reported'
    <3>1. r \notin worker'.todo
      BY <1>1, <2>2
    <3>2. QED
      BY <1>7, <1>9, <2>2, <3>1 DEF Ends
  <2>3. CASE \E routes \in Settings :
               /\ worker' = [job |-> Head(queue), todo |-> EnabledFor(routes, Head(queue).kind)]
               /\ changes = 0 => routes = config
    <3>1. PICK routes \in Settings :
               /\ worker' = [job |-> Head(queue), todo |-> EnabledFor(routes, Head(queue).kind)]
               /\ changes = 0 => routes = config
      BY <2>3
    <3>2. worker'.job = Head(queue) /\ worker'.todo = EnabledFor(routes, Head(queue).kind)
      BY <3>1
    <3>3. CASE r \in worker'.todo
      BY <1>10, <3>2, <3>3 DEF Stays
    <3>4. CASE r \notin worker'.todo
      <4>1. ~Owed(n, r)
        BY <1>4, <3>1, <3>2, <3>4 DEF Owed, EnabledFor
      <4>2. QED
        BY <1>7, <1>9, <3>4, <4>1 DEF Ends
    <3>5. QED
      BY <3>3, <3>4
  <2>4. QED
    BY <2>2, <2>3
<1>12. QED
  BY <1>1, <1>2, <1>4, <1>11, IsSettled

(* The worker is done with a route, however that went.                     *)
LEMMA HandlePromised ==
  ASSUME RouterOrder, NEW r \in Routes, Handles(r)
  PROVE  Promise!Settle(worker.job.id)
<1> DEFINE n == worker.job.id
<1>1. TypeOK /\ QueueIsOrdered /\ WorkerHasPublished
  BY DEF RouterOrder
<1>2. /\ r \in worker.todo /\ UNCHANGED <<queue, published>>
      /\ worker' = [job |-> worker.job, todo |-> worker.todo \ {r}]
  BY <1>1, HandleEffects
<1>3. worker'.job = worker.job /\ worker'.todo = worker.todo \ {r}
  BY <1>2
<1>4. n \in 1 .. Len(published) /\ worker.job = published[n] /\ Trigger[r] = worker.job.kind
  <2>1. worker # [job |-> NoJob, todo |-> {}]
    BY <1>2
  <2>2. QED
    BY <1>1, <1>2, <2>1 DEF WorkerHasPublished
<1>5. /\ DOMAIN published = 1 .. Len(published) /\ DOMAIN queue = 1 .. Len(queue)
      /\ sink \in [Routes -> Seq(Job)] /\ n \in Nat
  BY <1>1, RouterTypes DEF TypeOK
<1>6. \A i \in DOMAIN queue : n < queue[i].id /\ queue[i].id \in Nat
  BY <1>1, <1>5 DEF QueueIsOrdered
<1>7. n \in Open(r) /\ \A m \in Open(r) : n <= m
  BY <1>2, <1>4, <1>5, <1>6 DEF Open, Pending
<1>8. Open(r)' = Open(r) \ {n}
  BY <1>2, <1>3, <1>5, <1>6 DEF Open, Pending
<1>9. \A q \in Routes \ {r} : Open(q)' = Open(q)
  BY <1>2, <1>3 DEF Open, Pending
<1>10. \A q \in Routes \ {r} : sink'[q] = sink[q]
  <2>1. sink' = sink \/ sink' = [sink EXCEPT ![r] = Append(sink[r], worker.job)]
    BY <1>1, HandleEffects
  <2>2. QED
    BY <1>5, <2>1
<1>11. \/ sink'[r] = Append(sink[r], published[n])
       \/ sink'[r] = sink[r] /\ (Owed(n, r) => <<n, r>> \in reported')
  <2>1. CASE SkipRoute(r)
    BY <1>4, <2>1 DEF SkipRoute, Owed
  <2>2. CASE Deliver(r) \/ CommandFails(r)
    BY <1>4, <1>5, <2>2 DEF Deliver, CommandFails
  <2>3. CASE DeliveryFails(r)
    BY <2>3 DEF DeliveryFails
  <2>4. QED
    BY <2>1, <2>2, <2>3 DEF Handles
<1>12. Ends(n, r)
  BY <1>4, <1>7, <1>8, <1>11 DEF Ends
<1>13. \A q \in Routes : Stays(q) \/ Ends(n, q)
  BY <1>9, <1>10, <1>12 DEF Stays
<1>14. reported \subseteq reported'
  BY <1>1, HandleEffects
<1>15. QED
  BY <1>1, <1>2, <1>4, <1>5, <1>13, <1>14, IsSettled

LEMMA PromiseStep ==
  ASSUME RouterOrder, RoutingStep
  PROVE  [Promise!Next]_(Promise!promised)
<1>1. TypeOK /\ NothingChanged /\ QueueIsOrdered /\ WorkerHasPublished
  BY DEF RouterOrder
<1>2. CASE \E kind \in Kind, payload \in Payloads \cup {Missing} : Publish(kind, payload)
  BY <1>2, PublishPromised DEF Promise!Next
<1>3. CASE TakeJobCached \/ TakeJobFilling \/ FillFails
  <2>1. WorkerReady /\ queue' = Tail(queue) /\ UNCHANGED <<published, sink>> /\ reported \subseteq reported'
    BY <1>3 DEF TakeJobCached, TakeJobFilling, FillFails, BeginJob
  <2>2. \/ /\ worker' = worker
           /\ \A r \in Routes : <<Head(queue).id, r>> \in reported'
        \/ \E routes \in Settings :
             /\ worker' = [job |-> Head(queue), todo |-> EnabledFor(routes, Head(queue).kind)]
             /\ changes = 0 => routes = config
    <3>1. CASE TakeJobCached
      <4>1. cache \in Settings /\ (changes = 0 => cache = config)
        BY <1>1, <3>1 DEF TakeJobCached, TypeOK, NothingChanged
      <4>2. QED
        BY <3>1, <4>1 DEF TakeJobCached, BeginJob
    <3>2. CASE TakeJobFilling
      BY <1>1, <3>2 DEF TakeJobFilling, BeginJob, TypeOK
    <3>3. CASE FillFails
      BY <3>3 DEF FillFails
    <3>4. QED
      BY <1>3, <3>1, <3>2, <3>3
  <2>3. Head(queue).id \in DOMAIN published
    <3>1. Head(queue) = queue[1] /\ 1 \in 1 .. Len(queue)
      BY <1>1, <2>1, HeadOfQueue, RouterTypes DEF WorkerReady
    <3>2. QED
      BY <1>1, <3>1, RouterTypes DEF QueueIsOrdered
  <2>4. QED
    BY <2>1, <2>2, <2>3, TakePromised DEF Promise!Next
<1>4. CASE \E r \in Routes : Handles(r)
  <2>1. PICK r \in Routes : Handles(r)
    BY <1>4
  <2>2. worker.job.id \in DOMAIN published
    <3>1. r \in worker.todo
      BY <1>1, <2>1, HandleEffects
    <3>2. QED
      BY <1>1, <3>1, RouterTypes DEF WorkerHasPublished
  <2>3. QED
    BY <2>1, <2>2, HandlePromised DEF Promise!Next
<1>5. CASE (\E c \in Clients : ClientStep(c)) \/ UNCHANGED routingVars
  <2>1. UNCHANGED deliveryVars
    BY <1>1, <1>5, ClientEffects DEF routingVars, deliveryVars
  <2>2. UNCHANGED Promise!promised
    BY <2>1 DEF Promise!promised, deliveryVars, Pending
  <2>3. QED
    BY <2>2
<1>6. QED
  BY <1>2, <1>3, <1>4, <1>5 DEF RoutingStep, RoutingNext

-----------------------------------------------------------------------------
LEMMA RouterInit ==
  ASSUME Init
  PROVE  RouterOrder /\ Promise!Init
<1>1. /\ queue = <<>> /\ published = <<>> /\ changes = 0 /\ reported = {}
      /\ cache = NoCache /\ config \in Settings /\ wanted = config
      /\ worker = [job |-> NoJob, todo |-> {}]
      /\ previous = [r \in Routes |-> Missing] /\ sink = [r \in Routes |-> <<>>]
      /\ client = [c \in Clients |-> Resting]
  BY DEF Init
<1>2. <<>> \in Seq(Job) /\ Len(<<>>) = 0 /\ DOMAIN <<>> = {}
  OBVIOUS
<1>3. Resting \in Request
      /\ Resting.pc = "idle"
  BY DEF Resting, Request, AllRoutes, Settings, Setting
<1>4. TypeOK
  <2>1. worker \in [job : Job \cup {NoJob}, todo : SUBSET Routes]
    BY <1>1
  <2>2. Len(queue) <= Capacity
    BY <1>1, <1>2, RouterAssumption
  <2>3. client \in [Clients -> Request] /\ raced \in BOOLEAN /\ stalled \in BOOLEAN
    BY <1>1, <1>3 DEF Init
  <2>4. sink \in [Routes -> Seq(Job)] /\ previous \in [Routes -> Payloads \cup {Missing}]
    BY <1>1, <1>2
  <2>5. changes \in Nat
    BY <1>1
  <2>6. QED
    BY <1>1, <1>2, <2>1, <2>2, <2>3, <2>4, <2>5 DEF TypeOK
<1>5. QueueIsOrdered /\ WorkerHasPublished /\ NothingChanged
  BY <1>1, <1>2, <1>3 DEF QueueIsOrdered, WorkerHasPublished, NothingChanged
<1>6. Promise!Init
  BY <1>1, <1>2 DEF Promise!Init
<1>7. QED
  BY <1>4, <1>5, <1>6 DEF RouterOrder

LEMMA OrderHolds == Spec => []RouterOrder
<1>1. Init => RouterOrder
  BY RouterInit
<1>2. RouterOrder /\ [Next]_vars => RouterOrder'
  BY OrderStep, StepIsRouting DEF RouterOrder
<1>3. QED
  BY <1>1, <1>2, PTL DEF Spec

(* SPEC-OUT-002 and SPEC-OUT-004: the queue, the cache and the delivery    *)
(* thread implement Delivery, but for its liveness.  Each route gets its   *)
(* jobs in the order of publication, each at most once and of the route's  *)
(* kind; an event due to a route is delivered, pending or reported lost    *)
(* (Router::publish, the loop of Router::start).                           *)
THEOREM RoutesKeepPromise ==
  Spec => Promise!Init /\ [][Promise!Next]_(Promise!promised)
<1>1. Init => Promise!Init
  BY RouterInit
<1>2. RouterOrder /\ [Next]_vars => [Promise!Next]_(Promise!promised)
  BY PromiseStep, StepIsRouting DEF RouterOrder
<1>3. QED
  BY <1>1, <1>2, OrderHolds, PTL DEF Spec

-----------------------------------------------------------------------------
(* What a sink shows.                                                      *)
LEMMA ShownStays ==
  ASSUME NEW r \in Routes, NEW payload, sink'[r] = sink[r], reported \subseteq reported',
         ShownAs(r, payload)
  PROVE  ShownAs(r, payload)'
BY DEF ShownAs

LEMMA ShownNow ==
  ASSUME TypeOK, NEW r \in Routes, NEW payload,
         sink' = [sink EXCEPT ![r] = Append(sink[r], worker.job)],
         worker.job.payload = payload \/ <<worker.job.id, r>> \in reported'
  PROVE  ShownAs(r, payload)'
<1>1. sink[r] \in Seq(Job) /\ worker.job \in Job /\ sink \in [Routes -> Seq(Job)]
  BY RouterTypes DEF TypeOK
<1>2. Len(sink[r]) \in Nat
  BY <1>1, LenProperties
<1>3. sink'[r] = Append(sink[r], worker.job)
  BY <1>1
<1>4. Len(sink'[r]) = Len(sink[r]) + 1 /\ sink'[r][Len(sink[r]) + 1] = worker.job
  BY <1>1, <1>3, AppendProperties
<1>5. sink'[r] # <<>>
  BY <1>1, <1>2, <1>3, <1>4
<1>6. sink'[r][Len(sink'[r])] = worker.job
  BY <1>4
<1>7. QED
  BY <1>5, <1>6 DEF ShownAs

(* The comparison with the previous payload is with what the sink shows.   *)
LEMMA PreviousStep ==
  ASSUME RouterOrder, PreviousIsShown, RoutingStep
  PROVE  PreviousIsShown'
<1>1. TypeOK /\ WorkerHasPublished
  BY DEF RouterOrder
<1>2. ASSUME sink' = sink, reported \subseteq reported',
             \A q \in Routes : previous'[q] = previous[q] \/ previous'[q] = Missing
      PROVE  PreviousIsShown'
  <2>1. SUFFICES ASSUME NEW q \in Routes, previous'[q] # Missing
                 PROVE  Trigger[q] = "state" /\ ShownAs(q, previous[q])'
    BY DEF PreviousIsShown
  <2>2. previous'[q] = previous[q]
    BY <1>2, <2>1
  <2>3. Trigger[q] = "state" /\ ShownAs(q, previous[q])
    BY <2>1, <2>2 DEF PreviousIsShown
  <2>4. QED
    BY <1>2, <2>2, <2>3 DEF ShownAs
<1>3. CASE \E r \in Routes : Handles(r)
  <2>1. PICK r \in Routes : Handles(r)
    BY <1>3
  <2>2. /\ reported \subseteq reported' /\ previous \in [Routes -> Payloads \cup {Missing}]
        /\ sink \in [Routes -> Seq(Job)] /\ r \in worker.todo
    BY <1>1, <2>1, HandleEffects DEF TypeOK
  <2>3. CASE SkipRoute(r) \/ DeliveryFails(r)
    BY <1>2, <2>2, <2>3 DEF SkipRoute, DeliveryFails
  <2>4. CASE Deliver(r) \/ CommandFails(r)
    <3>1. SUFFICES ASSUME NEW q \in Routes, previous'[q] # Missing
                   PROVE  Trigger[q] = "state" /\ ShownAs(q, previous[q])'
      BY DEF PreviousIsShown
    <3>2. sink' = [sink EXCEPT ![r] = Append(sink[r], worker.job)]
      BY <2>4 DEF Deliver, CommandFails
    <3>3. CASE q # r
      <4>1. previous'[q] = previous[q] /\ sink'[q] = sink[q]
        BY <2>2, <2>4, <3>2, <3>3 DEF Deliver, CommandFails
      <4>2. Trigger[q] = "state" /\ ShownAs(q, previous[q])
        BY <3>1, <4>1 DEF PreviousIsShown
      <4>3. QED
        BY <2>2, <4>1, <4>2 DEF ShownAs
    <3>4. CASE q = r
      <4>1. \/ Trigger[r] = "state" /\ previous'[r] = worker.job.payload
            \/ previous'[r] = previous[r] /\ (Trigger[r] # "state" \/ <<worker.job.id, r>> \in reported')
        BY <2>2, <2>4 DEF Deliver, CommandFails
      <4>2. previous'[r] = previous[r] => Trigger[r] = "state"
        BY <3>1, <3>4 DEF PreviousIsShown
      <4>3. Trigger[r] = "state"
            /\ (worker.job.payload = previous'[r] \/ <<worker.job.id, r>> \in reported')
        BY <4>1, <4>2
      <4>4. \A payload : payload = previous'[r] => ShownAs(r, payload)'
        BY <1>1, <3>2, <4>3, ShownNow
      <4>5. QED
        BY <3>4, <4>3, <4>4 DEF ShownAs
    <3>5. QED
      BY <3>3, <3>4
  <2>5. QED
    BY <2>1, <2>3, <2>4 DEF Handles
<1>4. CASE \E kind \in Kind, payload \in Payloads \cup {Missing} : Publish(kind, payload)
  BY <1>2, <1>4 DEF Publish
<1>5. CASE TakeJobCached \/ TakeJobFilling \/ FillFails
  BY <1>2, <1>5 DEF TakeJobCached, TakeJobFilling, FillFails, BeginJob
<1>6. CASE (\E c \in Clients : ClientStep(c)) \/ UNCHANGED routingVars
  <2>1. UNCHANGED deliveryVars
    BY <1>1, <1>6, ClientEffects DEF routingVars, deliveryVars
  <2>2. QED
    BY <1>2, <2>1 DEF deliveryVars
<1>7. QED
  BY <1>3, <1>4, <1>5, <1>6 DEF RoutingStep, RoutingNext

(* The last state that can be rendered stays the last until the next.      *)
LEMMA LastIsLast ==
  ASSUME TypeOK, NEW i \in LastState
  PROVE  /\ i \in 1 .. Len(published) /\ published[i].kind = "state" /\ published[i].payload # Missing
         /\ \A j \in 1 .. Len(published) :
              published[j].kind = "state" /\ published[j].payload # Missing => j <= i
<1>1. DOMAIN published = 1 .. Len(published)
  BY RouterTypes
<1>2. \A j \in 1 .. Len(published) :
        published[j].kind = "state" /\ published[j].payload # Missing => ~(j > i)
  BY <1>1 DEF LastState
<1>3. QED
  BY <1>1, <1>2, RouterTypes DEF LastState

Handled(i, r) ==
  \/ <<i, r>> \in reported
  \/ Pending(i, r)
  \/ i <= worker.job.id /\ ShownAs(r, published[i].payload)

LEMMA LastOfPublish ==
  ASSUME RouterOrder, LastIsHandled, changes = 0,
         NEW kind \in Kind, NEW payload \in Payloads \cup {Missing}, Publish(kind, payload),
         stalled' \in BOOLEAN, NEW r \in EnabledFor(config, "state"), NEW i \in LastState'
  PROVE  Handled(i, r)'
<1> DEFINE n == Len(published) + 1
           job == NextJob(kind, payload)
<1>1. TypeOK /\ NothingChanged /\ TypeOK' /\ r \in Routes
  BY PublishType DEF RouterOrder, EnabledFor
<1>2. /\ Len(published) \in Nat /\ DOMAIN published = 1 .. Len(published)
      /\ DOMAIN published' = 1 .. Len(published')
      /\ Len(queue) \in Nat /\ DOMAIN queue = 1 .. Len(queue) /\ DOMAIN queue' = 1 .. Len(queue')
  <2>1. DOMAIN published' = 1 .. Len(published') /\ DOMAIN queue' = 1 .. Len(queue')
    BY <1>1, LenProperties DEF TypeOK
  <2>2. QED
    BY <1>1, <2>1, RouterTypes
<1>3. /\ Len(published') = n /\ published'[n] = job
      /\ \A j \in 1 .. Len(published) : published'[j] = published[j]
  BY <1>1, NextJobType DEF Publish, NextJob
<1>4. job.id = n /\ job.kind = kind /\ job.payload = payload
  BY DEF NextJob
<1>5. /\ Len(Append(queue, job)) = Len(queue) + 1 /\ Append(queue, job)[Len(queue) + 1] = job
      /\ \A j \in 1 .. Len(queue) : Append(queue, job)[j] = queue[j]
  BY <1>1, NextJobType
<1>6. UNCHANGED <<worker, sink, cache, config>> /\ reported \subseteq reported'
      /\ (queue' = queue \/ queue' = Append(queue, job))
  BY DEF Publish, NextJob, configVars
<1>7. \/ ~ShouldQueue(kind)
      \/ queue' = Append(queue, job)
      \/ reported' = reported \cup {<<n, q>> : q \in Routes}
  BY DEF Publish, NextJob
<1> HIDE DEF job
<1>8. CASE i = n
  <2>1. kind = "state"
    BY <1>3, <1>4, <1>8 DEF LastState
  <2>2. ShouldQueue(kind)
    BY <1>1, <2>1 DEF ShouldQueue, NothingChanged
  <2>3. CASE queue' = Append(queue, job)
    <3>1. Len(queue) + 1 \in DOMAIN queue' /\ queue'[Len(queue) + 1].id = i
      BY <1>2, <1>4, <1>5, <1>8, <2>3
    <3>2. QED
      BY <3>1 DEF Handled, Pending
  <2>4. CASE reported' = reported \cup {<<n, q>> : q \in Routes}
    BY <1>1, <1>8, <2>4 DEF Handled
  <2>5. QED
    BY <1>7, <2>2, <2>3, <2>4
<1>9. CASE i # n
  <2>1. i \in 1 .. Len(published) /\ i \in LastState
    BY <1>2, <1>3, <1>9 DEF LastState
  <2>2. Handled(i, r)
    BY <2>1 DEF LastIsHandled, Handled
  <2>3. Pending(i, r) => Pending(i, r)'
    <3>1. \A j \in DOMAIN queue : j \in DOMAIN queue' /\ queue'[j] = queue[j]
      <4>1. CASE queue' = queue
        BY <4>1
      <4>2. CASE queue' = Append(queue, job)
        BY <1>2, <1>5, <4>2
      <4>3. QED
        BY <1>6, <4>1, <4>2
    <3>2. QED
      BY <1>6, <3>1 DEF Pending
  <2>4. QED
    BY <1>3, <1>6, <2>1, <2>2, <2>3 DEF Handled, ShownAs
<1>10. QED
  BY <1>8, <1>9

LEMMA LastOfTake ==
  ASSUME RouterOrder, LastIsHandled, changes = 0, WorkerReady, queue' = Tail(queue),
         UNCHANGED <<published, sink>>, reported \subseteq reported',
         \/ worker' = worker /\ \A q \in Routes : <<Head(queue).id, q>> \in reported'
         \/ worker' = [job |-> Head(queue), todo |-> EnabledFor(config, Head(queue).kind)],
         NEW r \in EnabledFor(config, "state"), NEW i \in LastState
  PROVE  Handled(i, r)'
<1> DEFINE n == Head(queue).id
<1>1. TypeOK /\ QueueIsOrdered /\ queue # <<>> /\ worker.todo = {} /\ r \in Routes
  BY DEF RouterOrder, WorkerReady, EnabledFor
<1>2. /\ i \in 1 .. Len(published) /\ published[i].kind = "state"
      /\ Len(published) \in Nat
  BY <1>1, LastIsLast, RouterTypes
<1>3. Head(queue) = published[n] /\ worker.job.id < n /\ n \in Nat /\ worker.job.id \in Nat
  <2>1. Head(queue) = queue[1] /\ 1 \in 1 .. Len(queue)
    BY <1>1, HeadOfQueue, RouterTypes
  <2>2. QED
    BY <1>1, <2>1, RouterTypes DEF QueueIsOrdered
<1>4. Handled(i, r)
  BY DEF LastIsHandled, Handled
<1>5. CASE <<i, r>> \in reported
  BY <1>5 DEF Handled
<1>6. CASE Pending(i, r)
  <2>1. \E j \in DOMAIN queue : queue[j].id = i
    BY <1>1, <1>6 DEF Pending
  <2>2. CASE i # n
    <3>1. \E j \in DOMAIN queue' : queue'[j].id = i
      BY <1>1, <1>2, <2>1, <2>2, QueueTail
    <3>2. QED
      BY <3>1 DEF Handled, Pending
  <2>3. CASE i = n
    <3>1. CASE \A q \in Routes : <<n, q>> \in reported'
      BY <1>1, <2>3, <3>1 DEF Handled
    <3>2. CASE worker' = [job |-> Head(queue), todo |-> EnabledFor(config, Head(queue).kind)]
      <4>1. worker'.job.id = i /\ r \in worker'.todo
        BY <1>2, <1>3, <2>3, <3>2
      <4>2. QED
        BY <4>1 DEF Handled, Pending
    <3>3. QED
      BY <3>1, <3>2
  <2>4. QED
    BY <2>2, <2>3
<1>7. CASE i <= worker.job.id /\ ShownAs(r, published[i].payload)
  <2>1. worker'.job.id = worker.job.id \/ worker'.job.id = n
    OBVIOUS
  <2>2. i <= worker'.job.id
    BY <1>2, <1>3, <1>7, <2>1
  <2>3. QED
    BY <1>7, <2>2 DEF Handled, ShownAs
<1>8. QED
  BY <1>4, <1>5, <1>6, <1>7 DEF Handled

LEMMA LastOfHandle ==
  ASSUME RouterOrder, PreviousIsShown, LastIsHandled, changes = 0, NEW q \in Routes, Handles(q),
         NEW r \in EnabledFor(config, "state"), NEW i \in LastState
  PROVE  Handled(i, r)'
<1> DEFINE n == worker.job.id
<1>1. TypeOK /\ WorkerHasPublished /\ r \in Routes /\ Trigger[r] = "state"
  BY DEF RouterOrder, EnabledFor
<1>2. /\ q \in worker.todo /\ UNCHANGED <<queue, published>> /\ reported \subseteq reported'
      /\ worker' = [job |-> worker.job, todo |-> worker.todo \ {q}]
      /\ sink \in [Routes -> Seq(Job)]
  BY <1>1, HandleEffects DEF TypeOK
<1>3. worker'.job = worker.job /\ worker'.todo = worker.todo \ {q}
  BY <1>2
<1>4. n \in 1 .. Len(published) /\ worker.job = published[n] /\ Trigger[q] = worker.job.kind
  <2>1. worker # [job |-> NoJob, todo |-> {}]
    BY <1>2
  <2>2. QED
    BY <1>1, <1>2, <2>1 DEF WorkerHasPublished
<1>5. /\ i \in 1 .. Len(published) /\ published[i].payload # Missing
      /\ \A j \in 1 .. Len(published) :
           published[j].kind = "state" /\ published[j].payload # Missing => j <= i
      /\ Len(published) \in Nat
  BY <1>1, LastIsLast, RouterTypes
<1>6. Handled(i, r)
  BY DEF LastIsHandled, Handled
<1>7. CASE <<i, r>> \in reported
  BY <1>2, <1>7 DEF Handled
<1>8. CASE Pending(i, r)
  <2>1. CASE \E j \in DOMAIN queue : queue[j].id = i
    BY <1>2, <2>1 DEF Handled, Pending
  <2>2. CASE n = i /\ r \in worker.todo /\ r # q
    BY <1>3, <2>2 DEF Handled, Pending
  <2>3. CASE n = i /\ r = q
    <3>1. n \in Nat /\ i <= worker'.job.id
      BY <1>3, <1>4, <1>5, <2>3
    <3>2. CASE SkipRoute(q)
      <4>1. previous[r] = published[i].payload /\ sink' = sink
        BY <1>4, <1>5, <2>3, <3>2 DEF SkipRoute, Unchanged
      <4>2. ShownAs(r, published[i].payload)
        BY <1>1, <1>5, <4>1 DEF PreviousIsShown
      <4>3. QED
        BY <1>2, <3>1, <4>1, <4>2 DEF Handled, ShownAs
    <3>3. CASE Deliver(q)
      <4>1. sink' = [sink EXCEPT ![r] = Append(sink[r], worker.job)]
            /\ worker.job.payload = published[i].payload
        BY <1>4, <2>3, <3>3 DEF Deliver
      <4>2. ShownAs(r, published[i].payload)'
        <5>1. \A payload : worker.job.payload = payload => ShownAs(r, payload)'
          BY <1>1, <4>1, ShownNow
        <5>2. QED
          BY <1>2, <4>1, <5>1 DEF ShownAs
      <4>3. QED
        BY <3>1, <4>2 DEF Handled
    <3>4. CASE DeliveryFails(q) \/ CommandFails(q)
      BY <2>3, <3>4 DEF DeliveryFails, CommandFails, Handled
    <3>5. QED
      BY <3>2, <3>3, <3>4 DEF Handles
  <2>4. QED
    BY <1>8, <2>1, <2>2, <2>3 DEF Pending
<1>9. CASE i <= n /\ ShownAs(r, published[i].payload)
  <2>1. i <= worker'.job.id
    BY <1>3, <1>9
  <2>2. CASE sink'[r] = sink[r]
    BY <1>2, <1>9, <2>1, <2>2 DEF Handled, ShownAs
  <2>3. CASE sink'[r] # sink[r]
    <3>1. sink' = [sink EXCEPT ![q] = Append(sink[q], worker.job)] /\ worker.job.payload # Missing
      BY <1>1, <2>3, HandleEffects
    <3>2. r = q
      BY <1>1, <1>2, <2>3, <3>1
    <3>3. n = i
      BY <1>1, <1>4, <1>5, <1>9, <3>1, <3>2
    <3>4. \A payload : worker.job.payload = payload => ShownAs(r, payload)'
      BY <1>1, <3>1, <3>2, ShownNow
    <3>5. ShownAs(r, published[i].payload)'
      BY <1>2, <1>4, <3>3, <3>4 DEF ShownAs
    <3>6. QED
      BY <2>1, <3>5 DEF Handled
  <2>4. QED
    BY <2>2, <2>3
<1>10. QED
  BY <1>6, <1>7, <1>8, <1>9 DEF Handled

LEMMA LastStep ==
  ASSUME RouterOrder, PreviousIsShown, LastIsHandled, RoutingStep
  PROVE  LastIsHandled'
<1>1. TypeOK /\ NothingChanged /\ changes \in Nat
  BY DEF RouterOrder, TypeOK
<1>2. SUFFICES ASSUME changes' = 0, NEW r \in EnabledFor(config', "state"), NEW i \in LastState'
               PROVE  Handled(i, r)'
  BY DEF LastIsHandled, Handled, EnabledFor
<1>3. CASE \E kind \in Kind, payload \in Payloads \cup {Missing} : Publish(kind, payload)
  <2>1. UNCHANGED <<changes, config>>
    BY <1>3 DEF Publish, configVars
  <2>2. changes = 0 /\ r \in EnabledFor(config, "state")
    BY <1>2, <2>1
  <2>3. QED
    BY <1>2, <1>3, <2>2, LastOfPublish DEF RoutingStep
<1>4. CASE TakeJobCached \/ TakeJobFilling \/ FillFails
  <2>1. UNCHANGED <<changes, config, published, sink>> /\ WorkerReady /\ queue' = Tail(queue)
        /\ reported \subseteq reported'
    BY <1>4 DEF TakeJobCached, TakeJobFilling, FillFails, BeginJob, configVars
  <2>2. changes = 0 /\ r \in EnabledFor(config, "state") /\ i \in LastState
    BY <1>2, <2>1 DEF LastState
  <2>3. \/ worker' = worker /\ \A q \in Routes : <<Head(queue).id, q>> \in reported'
        \/ worker' = [job |-> Head(queue), todo |-> EnabledFor(config, Head(queue).kind)]
    <3>1. CASE TakeJobCached
      <4>1. cache = config
        BY <1>1, <2>2, <3>1 DEF TakeJobCached, NothingChanged
      <4>2. QED
        BY <3>1, <4>1 DEF TakeJobCached, BeginJob
    <3>2. CASE TakeJobFilling
      BY <3>2 DEF TakeJobFilling, BeginJob
    <3>3. CASE FillFails
      BY <3>3 DEF FillFails
    <3>4. QED
      BY <1>4, <3>1, <3>2, <3>3
  <2>4. QED
    BY <2>1, <2>2, <2>3, LastOfTake
<1>5. CASE \E q \in Routes : Handles(q)
  <2>1. PICK q \in Routes : Handles(q)
    BY <1>5
  <2>2. UNCHANGED <<changes, config, published>>
    BY <1>1, <2>1, HandleEffects DEF configVars
  <2>3. changes = 0 /\ r \in EnabledFor(config, "state") /\ i \in LastState
    BY <1>2, <2>2 DEF LastState
  <2>4. QED
    BY <2>1, <2>3, LastOfHandle
<1>6. CASE UNCHANGED routingVars
  <2>1. changes = 0 /\ r \in EnabledFor(config, "state") /\ i \in LastState
    BY <1>2, <1>6 DEF routingVars, configVars, deliveryVars, LastState
  <2>2. Handled(i, r)
    BY <2>1 DEF LastIsHandled, Handled
  <2>3. QED
    BY <1>6, <2>2 DEF routingVars, deliveryVars, Handled, Pending, ShownAs
<1>7. CASE \E c \in Clients : ClientStep(c)
  <2>1. PICK c \in Clients : ClientStep(c)
    BY <1>7
  <2>2. CASE SaveRoutes(c) \/ SaveFails(c) \/ RefreshCache(c)
    <3>1. client[c].pc # "idle" /\ changes' = changes
      BY <2>2 DEF SaveRoutes, SaveFails, RefreshCache
    <3>2. QED
      BY <1>1, <1>2, <3>1 DEF NothingChanged
  <2>3. CASE ListRoutes(c) \/ \E x \in Routes, setting \in Setting : ChangeRoute(c, x, setting)
    <3>1. changes' = changes + 1
      BY <2>3 DEF ListRoutes, ChangeRoute, BeginRequest
    <3>2. QED
      BY <1>1, <1>2, <3>1
  <2>4. QED
    BY <1>1, <2>1, <2>2, <2>3, ClientEffects
<1>8. QED
  BY <1>3, <1>4, <1>5, <1>6, <1>7 DEF RoutingStep, RoutingNext

(* While nobody has changed the configuration, a worker that has caught up *)
(* has brought every enabled state route to the last state, or told that   *)
(* it failed: comparing with the previous payload hides nothing that the   *)
(* sink does not show (the previous_payloads of Router::start).            *)
THEOREM CaughtUpRoutesAreCurrent ==
  Spec => []CaughtUpIsCurrent
<1>1. Init => DeliveryInvariant
  <2>1. SUFFICES ASSUME Init
                 PROVE  DeliveryInvariant
    OBVIOUS
  <2>2. previous = [r \in Routes |-> Missing] /\ published = <<>>
    BY <2>1 DEF Init
  <2>3. LastState = {}
    BY <2>2 DEF LastState
  <2>4. PreviousIsShown /\ LastIsHandled
    BY <2>2, <2>3 DEF PreviousIsShown, LastIsHandled
  <2>5. QED
    BY <2>1, <2>4, RouterInit DEF DeliveryInvariant
<1>2. DeliveryInvariant /\ [Next]_vars => DeliveryInvariant'
  <2>1. SUFFICES ASSUME DeliveryInvariant, [Next]_vars
                 PROVE  DeliveryInvariant'
    OBVIOUS
  <2>2. RouterOrder /\ PreviousIsShown /\ LastIsHandled /\ RoutingStep
    BY <2>1, StepIsRouting DEF DeliveryInvariant, RouterOrder
  <2>3. QED
    BY <2>2, OrderStep, PreviousStep, LastStep DEF DeliveryInvariant
<1>3. DeliveryInvariant => CaughtUpIsCurrent
  <2>1. SUFFICES ASSUME DeliveryInvariant, changes = 0, worker.todo = {}, queue = <<>>,
                        NEW r \in EnabledFor(config, "state"), NEW i \in LastState
                 PROVE  \/ <<i, r>> \in reported
                        \/ /\ sink[r] # <<>>
                           /\ LET shown == sink[r][Len(sink[r])] IN
                                shown.payload = published[i].payload \/ <<shown.id, r>> \in reported
    BY DEF CaughtUpIsCurrent
  <2>2. ~Pending(i, r)
    BY <2>1 DEF Pending
  <2>3. QED
    BY <2>1, <2>2 DEF DeliveryInvariant, LastIsHandled, ShownAs
<1>4. QED
  BY <1>1, <1>2, <1>3, PTL DEF Spec

-----------------------------------------------------------------------------
(* What a request that runs alone has read differs from the file only      *)
(* where it changes it, and what it has written is the file.  Requests     *)
(* that do not run alone leave raced set.                                  *)
LoneRequest(c) ==
  /\ client[c].pc # "idle"
  /\ config = wanted
  /\ \A d \in Clients \ {c} : client[d].pc = "idle"
  /\ client[c].pc = "loaded" =>
       \A r \in Routes \ client[c].about : client[c].routes[r] = config[r]
  /\ client[c].pc = "saved" => client[c].routes = config

LoneRequests ==
  /\ \A c \in Clients : client[c].alone => LoneRequest(c)
  /\ ~raced => \A c \in Clients : client[c].pc # "idle" => client[c].alone

FileIsWanted ==
  ~raced => /\ config = wanted
            /\ cache \in {NoCache, config} \/ \E c \in Clients : client[c].pc = "saved"

RequestInvariant == LoneRequests /\ FileIsWanted

LEMMA BeginStep ==
  ASSUME TypeOK, RequestInvariant, NEW c \in Clients,
         ListRoutes(c) \/ \E r \in Routes, setting \in Setting : ChangeRoute(c, r, setting)
  PROVE  RequestInvariant'
<1>1. client \in [Clients -> Request] /\ config \in Settings
  BY DEF TypeOK
<1>2. PICK routes, about :
        /\ BeginRequest(c, routes, about)
        /\ about = {} => routes = config
        /\ about # {} => \A r \in Routes \ about : routes[r] = config[r]
  <2>1. CASE ListRoutes(c)
    BY <2>1 DEF ListRoutes
  <2>2. CASE \E r \in Routes, setting \in Setting : ChangeRoute(c, r, setting)
    <3>1. PICK r \in Routes, setting \in Setting : ChangeRoute(c, r, setting)
      BY <2>2
    <3>2. \A q \in Routes \ {r} : [config EXCEPT ![r] = setting][q] = config[q]
      BY <1>1 DEF Settings
    <3>3. BeginRequest(c, [config EXCEPT ![r] = setting], {r}) /\ {r} # {}
      BY <3>1 DEF ChangeRoute
    <3> QED  BY <3>2, <3>3
  <2> QED  BY <2>1, <2>2
<1>3. /\ client[c].pc = "idle" /\ UNCHANGED <<cache, config>>
      /\ raced' = (raced \/ ~AllClientsIdle)
      /\ wanted' = IF AllClientsIdle THEN config ELSE wanted
      /\ client'[c] = [pc |-> IF about = {} THEN "saved" ELSE "loaded",
                       routes |-> routes, about |-> about, alone |-> AllClientsIdle]
      /\ \A d \in Clients \ {c} : client'[d] = [client[d] EXCEPT !.alone = FALSE]
  BY <1>2 DEF BeginRequest
<1>4. /\ client'[c].routes = routes /\ client'[c].about = about
      /\ client'[c].alone = AllClientsIdle /\ client'[c].pc # "idle"
      /\ about = {} => client'[c].pc = "saved"
      /\ about # {} => client'[c].pc = "loaded"
  BY <1>3
<1>5. \A d \in Clients \ {c} : client'[d].pc = client[d].pc /\ ~client'[d].alone
  BY <1>1, <1>3 DEF Request
<1>6. CASE AllClientsIdle
  <2>1. config' = wanted' /\ \A d \in Clients \ {c} : client'[d].pc = "idle"
    BY <1>3, <1>5, <1>6 DEF AllClientsIdle
  <2>2. LoneRequest(c)'
    BY <1>2, <1>3, <1>4, <2>1 DEF LoneRequest
  <2>3. LoneRequests'
    BY <1>4, <1>5, <1>6, <2>1, <2>2 DEF LoneRequests
  <2>4. FileIsWanted'
    <3>1. ~raced => cache \in {NoCache, config}
      BY <1>6 DEF RequestInvariant, FileIsWanted, AllClientsIdle
    <3> QED  BY <1>3, <2>1, <3>1 DEF FileIsWanted
  <2> QED  BY <2>3, <2>4 DEF RequestInvariant
<1>7. CASE ~AllClientsIdle
  <2>1. raced' = TRUE /\ \A d \in Clients : ~client'[d].alone
    BY <1>3, <1>4, <1>5, <1>7
  <2> QED  BY <2>1 DEF RequestInvariant, LoneRequests, FileIsWanted
<1> QED  BY <1>6, <1>7

(* A request ends: the client rests, and any other that is alone would     *)
(* have it idle already.                                                   *)
LEMMA EndStep ==
  ASSUME TypeOK, RequestInvariant, NEW c \in Clients, SaveFails(c) \/ RefreshCache(c)
  PROVE  RequestInvariant'
<1>1. client \in [Clients -> Request] /\ raced \in BOOLEAN /\ client[c].alone \in BOOLEAN
  BY DEF TypeOK, Request
<1>2. /\ UNCHANGED <<config, wanted>> /\ client[c].pc # "idle"
      /\ client' = [client EXCEPT ![c] = Resting]
  BY DEF SaveFails, RefreshCache
<1>3. /\ client'[c].pc = "idle" /\ ~client'[c].alone
      /\ \A d \in Clients \ {c} : client'[d] = client[d]
  BY <1>1, <1>2 DEF Resting
<1>4. \A d \in Clients \ {c} : ~client[d].alone
  BY <1>2 DEF RequestInvariant, LoneRequests, LoneRequest
<1>5. \A d \in Clients : ~client'[d].alone
  BY <1>3, <1>4
<1>6. CASE client[c].alone
  <2>1. LoneRequest(c)
    BY <1>6 DEF RequestInvariant, LoneRequests
  <2>2. \A d \in Clients : client'[d].pc = "idle"
    BY <1>3, <2>1 DEF LoneRequest
  <2>3. FileIsWanted'
    <3>1. CASE SaveFails(c)
      <4>1. UNCHANGED <<raced, cache>> /\ client[c].pc = "loaded"
        BY <3>1 DEF SaveFails
      <4>2. \A d \in Clients : client[d].pc # "saved"
        BY <2>1, <4>1 DEF LoneRequest
      <4> QED  BY <1>2, <4>1, <4>2 DEF RequestInvariant, FileIsWanted
    <3>2. CASE RefreshCache(c)
      <4>1. cache' \in {NoCache, client[c].routes} /\ client[c].pc = "saved"
        BY <3>2 DEF RefreshCache
      <4> QED  BY <1>2, <2>1, <4>1 DEF LoneRequest, FileIsWanted
    <3> QED  BY <3>1, <3>2
  <2> QED  BY <1>5, <2>2, <2>3 DEF RequestInvariant, LoneRequests
<1>7. CASE ~client[c].alone
  <2>1. raced
    BY <1>2, <1>7 DEF RequestInvariant, LoneRequests
  <2>2. raced'
    BY <1>7, <2>1 DEF SaveFails, RefreshCache
  <2> QED  BY <1>5, <2>2 DEF RequestInvariant, LoneRequests, FileIsWanted
<1> QED  BY <1>1, <1>6, <1>7

LEMMA SaveStep ==
  ASSUME TypeOK, TypeOK', RequestInvariant, NEW c \in Clients, SaveRoutes(c)
  PROVE  RequestInvariant'
<1>1. client \in [Clients -> Request]
  BY DEF TypeOK
<1>2. /\ client[c].pc = "loaded" /\ config' = client[c].routes /\ UNCHANGED raced
      /\ wanted' = [r \in Routes |-> IF r \in client[c].about THEN config'[r] ELSE wanted[r]]
      /\ client' = [client EXCEPT ![c].pc = "saved"]
  BY DEF SaveRoutes
<1>3. /\ client'[c].pc = "saved" /\ client'[c].routes = client[c].routes
      /\ client'[c].alone = client[c].alone
      /\ \A d \in Clients \ {c} : client'[d] = client[d]
  BY <1>1, <1>2 DEF Request
<1>4. \A d \in Clients \ {c} : ~client[d].alone
  BY <1>2 DEF RequestInvariant, LoneRequests, LoneRequest
<1>5. CASE client[c].alone
  <2>1. LoneRequest(c)
    BY <1>5 DEF RequestInvariant, LoneRequests
  <2>2. \A r \in Routes : wanted'[r] = config'[r]
    BY <1>2, <2>1 DEF LoneRequest
  <2>3. config' \in [Routes -> Setting] /\ wanted' \in [Routes -> Setting]
    BY DEF TypeOK, Settings
  <2>4. config' = wanted'
    BY <2>2, <2>3
  <2>5. LoneRequest(c)'
    BY <1>2, <1>3, <2>1, <2>4 DEF LoneRequest
  <2>6. \A d \in Clients \ {c} : client'[d].pc = "idle" /\ ~client'[d].alone
    BY <1>3, <1>4, <2>1 DEF LoneRequest
  <2> QED  BY <1>3, <1>5, <2>4, <2>5, <2>6 DEF RequestInvariant, LoneRequests, FileIsWanted
<1>6. CASE ~client[c].alone
  <2>1. raced
    BY <1>2, <1>6 DEF RequestInvariant, LoneRequests
  <2>2. raced' /\ \A d \in Clients : ~client'[d].alone
    BY <1>2, <1>3, <1>4, <1>6, <2>1
  <2> QED  BY <2>2 DEF RequestInvariant, LoneRequests, FileIsWanted
<1> QED  BY <1>5, <1>6

LEMMA RequestStep ==
  ASSUME TypeOK, TypeOK', RequestInvariant, RoutingStep
  PROVE  RequestInvariant'
<1>1. ASSUME UNCHANGED configVars, cache' = cache \/ cache' = config
      PROVE  RequestInvariant'
  <2>1. \A c \in Clients : LoneRequest(c)' <=> LoneRequest(c)
    BY <1>1 DEF configVars, LoneRequest
  <2>2. LoneRequests'
    BY <1>1, <2>1 DEF configVars, RequestInvariant, LoneRequests
  <2>3. FileIsWanted'
    BY <1>1 DEF configVars, RequestInvariant, FileIsWanted
  <2> QED  BY <2>2, <2>3 DEF RequestInvariant
<1>2. CASE \E kind \in Kind, payload \in Payloads \cup {Missing} : Publish(kind, payload)
  BY <1>1, <1>2 DEF Publish
<1>3. CASE TakeJobCached \/ TakeJobFilling \/ FillFails
  BY <1>1, <1>3 DEF TakeJobCached, TakeJobFilling, FillFails
<1>4. CASE \E r \in Routes : Handles(r)
  BY <1>1, <1>4, HandleEffects
<1>5. CASE UNCHANGED routingVars
  BY <1>1, <1>5 DEF routingVars
<1>6. CASE \E c \in Clients : ClientStep(c)
  BY <1>6, ClientEffects, BeginStep, SaveStep, EndStep
<1> QED  BY <1>2, <1>3, <1>4, <1>5, <1>6 DEF RoutingStep, RoutingNext

(* When no request is under way, the cache holds what the file holds and   *)
(* each route has the setting last asked for, unless requests overlapped   *)
(* and none has run alone since (configure_output, routes): one request    *)
(* without another beside it brings file and cache together, whatever the  *)
(* ones before it left, and however the worker fills the cache meanwhile.  *)
THEOREM LoneRequestsStick == Spec => []RouterInvariant
<1>1. Init => RequestInvariant
  BY DEF Init, RequestInvariant, LoneRequests, FileIsWanted, Resting
<1>2. TypeOK /\ TypeOK' /\ RequestInvariant /\ [Next]_vars => RequestInvariant'
  BY RequestStep, StepIsRouting
<1>3. RouterOrder => TypeOK
  BY DEF RouterOrder
<1>4. TypeOK /\ RequestInvariant => RouterInvariant
  BY DEF RouterInvariant, RequestInvariant, FileIsWanted, ConfigurationSticks, AllClientsIdle
<1>5. QED
  BY <1>1, <1>2, <1>3, <1>4, OrderHolds, PTL DEF Spec
=============================================================================
