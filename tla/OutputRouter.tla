---------------------------- MODULE OutputRouter ----------------------------
(***************************************************************************)
(* The output routes of one profile: routes.rs of the daemon (the bounded  *)
(* queue, the route cache and the delivery thread), fed by publishers and  *)
(* reconfigured by clients through LocalConfig.                            *)
(*                                                                         *)
(* Three threads of control meet here.  A publisher looks at the cache to  *)
(* decide whether a job is wanted and queues it without waiting.  The      *)
(* worker takes a job, takes the routes from the cache or fills the cache  *)
(* from the configuration file, and delivers to one route after another.   *)
(* A client reads the file, replaces it, and then replaces or invalidates  *)
(* the cache: three steps, with no lock around them.  The fill is a single *)
(* step, because the worker holds the cache lock while it reads the file.  *)
(*                                                                         *)
(* Routes are sorted by their names, so any order of delivery can occur.   *)
(***************************************************************************)
EXTENDS Naturals, Sequences, FiniteSets

CONSTANTS
  Routes,     \* route ids
  Trigger,    \* route -> "event" or "state"
  Payloads,   \* what a route renders from a job
  Missing,    \* rendering of a state that lacks a placeholder
  Capacity,   \* ROUTE_QUEUE_CAPACITY
  Clients,    \* connections that list or change routes
  NoCache,    \* the profile has no cached routes
  MaxCalls    \* bound: jobs published and requests of clients, together

ASSUME RouterAssumption ==
  /\ IsFiniteSet(Routes)
  /\ Trigger \in [Routes -> {"event", "state"}]
  /\ Missing \notin Payloads
  /\ Capacity \in Nat \ {0}
  /\ MaxCalls \in Nat

Setting == {"absent", "disabled", "enabled"}
Settings == [Routes -> Setting]
ASSUME CacheAssumption == NoCache \notin Settings

VARIABLES
  config,    \* output-routes.json
  cache,     \* route_cache of the profile
  queue,     \* jobs waiting for the worker
  worker,    \* the job in hand and the routes it is still for
  previous,  \* route -> payload delivered last (previous_payloads)
  sink,      \* route -> jobs delivered (history)
  reported,  \* jobs whose loss was reported, for one route or for all (history)
  published, \* jobs published so far (history)
  client,    \* client -> where its request is
  changes,   \* requests begun so far
  wanted,    \* route -> setting last saved for it (history)
  raced,     \* requests overlapped, and none has had the file to itself since (history)
  stalled    \* the worker waits for a command that does not read its input

deliveryVars == <<queue, worker, previous, sink, reported, published>>
configVars == <<config, client, changes, wanted, raced>>
routingVars == <<deliveryVars, configVars, cache>>
vars == <<routingVars, stalled>>

Kind == {"event", "state"}
Job == [id : Nat, kind : Kind, payload : Payloads \cup {Missing}]
NoJob == [id |-> 0, kind |-> "state", payload |-> Missing]
AllRoutes == [r \in Routes |-> "absent"]
Resting == [pc |-> "idle", routes |-> AllRoutes, about |-> {}, alone |-> FALSE]

(* about: the routes a request changes; alone: no other request was under  *)
(* way at any time since it began (history).                               *)
Request ==
  [pc : {"idle", "loaded", "saved"}, routes : Settings, about : SUBSET Routes, alone : BOOLEAN]

TypeOK ==
  /\ config \in Settings
  /\ cache \in Settings \cup {NoCache}
  /\ queue \in Seq(Job)
  /\ Len(queue) <= Capacity
  /\ worker \in [job : Job \cup {NoJob}, todo : SUBSET Routes]
  /\ previous \in [Routes -> Payloads \cup {Missing}]
  /\ sink \in [Routes -> Seq(Job)]
  /\ reported \subseteq Nat \X Routes
  /\ published \in Seq(Job)
  /\ client \in [Clients -> Request]
  /\ changes \in Nat
  /\ wanted \in Settings
  /\ raced \in BOOLEAN
  /\ stalled \in BOOLEAN

Init ==
  /\ config \in Settings
  /\ cache = NoCache
  /\ queue = <<>>
  /\ worker = [job |-> NoJob, todo |-> {}]
  /\ previous = [r \in Routes |-> Missing]
  /\ sink = [r \in Routes |-> <<>>]
  /\ reported = {}
  /\ published = <<>>
  /\ client = [c \in Clients |-> Resting]
  /\ changes = 0
  /\ wanted = config
  /\ raced = FALSE
  /\ stalled = FALSE

-----------------------------------------------------------------------------
EnabledFor(settings, kind) == {r \in Routes : settings[r] = "enabled" /\ Trigger[r] = kind}

(* The cache, if there is one, says whether any route wants the job. *)
ShouldQueue(kind) == cache # NoCache => EnabledFor(cache, kind) # {}

(* Mutant: an overflow of the queue goes unreported. *)
PublishQuietly(kind, payload) ==
  LET job == [id |-> Len(published) + 1, kind |-> kind, payload |-> payload] IN
  /\ Len(published) + changes < MaxCalls
  /\ published' = Append(published, job)
  /\ queue' = IF Len(queue) < Capacity THEN Append(queue, job) ELSE queue
  /\ UNCHANGED <<worker, previous, sink, reported, configVars, cache>>

(* Router::publish: try_send, unless the cache says no route wants the     *)
(* job; the publisher reports a full queue as an output error.             *)
Publish(kind, payload) ==
  LET job == [id |-> Len(published) + 1, kind |-> kind, payload |-> payload]
  IN /\ Len(published) + changes < MaxCalls
     /\ published' = Append(published, job)
     /\ \/ ~ShouldQueue(kind) /\ UNCHANGED <<queue, reported>>
        \/ /\ ShouldQueue(kind)
           /\ Len(queue) < Capacity
           /\ queue' = Append(queue, job)
           /\ UNCHANGED reported
        \/ /\ ShouldQueue(kind)
           /\ Len(queue) = Capacity
           /\ reported' = reported \cup {<<job.id, r>> : r \in Routes}
           /\ UNCHANGED queue
     /\ UNCHANGED <<worker, previous, sink, configVars, cache>>

(* The worker has a job and its routes: it forgets the payloads of routes  *)
(* that are gone, and turns to the enabled routes of the job's kind.       *)
BeginJob(routes) ==
  /\ queue' = Tail(queue)
  /\ worker' = [job |-> Head(queue), todo |-> EnabledFor(routes, Head(queue).kind)]
  /\ previous' = [r \in Routes |-> IF routes[r] = "absent" THEN Missing ELSE previous[r]]

WorkerReady == worker.todo = {} /\ queue # <<>>

TakeJobCached ==
  /\ WorkerReady
  /\ cache # NoCache
  /\ BeginJob(cache)
  /\ UNCHANGED <<sink, reported, published, configVars, cache>>

TakeJobFilling ==
  /\ WorkerReady
  /\ cache = NoCache
  /\ BeginJob(config)
  /\ cache' = config
  /\ UNCHANGED <<sink, reported, published, configVars>>

(* The configuration cannot be read: the job is gone and reported. *)
FillFails ==
  /\ WorkerReady
  /\ cache = NoCache
  /\ queue' = Tail(queue)
  /\ reported' = reported \cup {<<Head(queue).id, r>> : r \in Routes}
  /\ UNCHANGED <<worker, previous, sink, published, configVars, cache>>

Done(r) == worker' = [worker EXCEPT !.todo = @ \ {r}]
Unchanged(r) == Trigger[r] = "state" /\ previous[r] = worker.job.payload

(* A state route is not given what it was given last, nor a state that     *)
(* lacks what its template needs.                                          *)
SkipRoute(r) ==
  /\ r \in worker.todo
  /\ Trigger[r] = "state"
  /\ worker.job.payload = Missing \/ Unchanged(r)
  /\ Done(r)
  /\ UNCHANGED <<queue, previous, sink, reported, published, configVars, cache>>

(* Mutant: a payload that could not be delivered is remembered. *)
FailDelivered(r) ==
  /\ r \in worker.todo
  /\ ~Unchanged(r)
  /\ previous' = [previous EXCEPT ![r] = worker.job.payload]
  /\ reported' = reported \cup {<<worker.job.id, r>>}
  /\ Done(r)
  /\ UNCHANGED <<queue, sink, published, configVars, cache>>

Deliver(r) ==
  /\ r \in worker.todo
  /\ worker.job.payload # Missing
  /\ ~Unchanged(r)
  /\ sink' = [sink EXCEPT ![r] = Append(@, worker.job)]
  /\ previous' = IF Trigger[r] = "state"
                 THEN [previous EXCEPT ![r] = worker.job.payload]
                 ELSE previous
  /\ Done(r)
  /\ UNCHANGED <<queue, reported, published, configVars, cache>>

(* Rendering or the sink fails, and nothing was delivered; for an event a  *)
(* missing placeholder does too.                                           *)
DeliveryFails(r) ==
  /\ r \in worker.todo
  /\ ~Unchanged(r)
  /\ Trigger[r] = "state" => worker.job.payload # Missing
  /\ reported' = reported \cup {<<worker.job.id, r>>}
  /\ Done(r)
  /\ UNCHANGED <<queue, previous, sink, published, configVars, cache>>

(* The worker writes the payload into the pipe of a command (run_command)  *)
(* before it looks at the deadline: as long as the command neither reads   *)
(* nor exits, the worker waits.                                            *)
CommandBlocks ==
  /\ ~stalled
  /\ \E r \in worker.todo : worker.job.payload # Missing /\ ~Unchanged(r)
  /\ stalled' = TRUE
  /\ UNCHANGED routingVars

CommandUnblocks == stalled /\ stalled' = FALSE /\ UNCHANGED routingVars

(* The command has read the payload when it exits with an error, or is     *)
(* killed at its deadline: the sink may show what is reported lost.        *)
CommandFails(r) ==
  /\ r \in worker.todo
  /\ worker.job.payload # Missing
  /\ ~Unchanged(r)
  /\ sink' = [sink EXCEPT ![r] = Append(@, worker.job)]
  /\ reported' = reported \cup {<<worker.job.id, r>>}
  /\ Done(r)
  /\ UNCHANGED <<queue, previous, published, configVars, cache>>

-----------------------------------------------------------------------------
AllClientsIdle == \A c \in Clients : client[c].pc = "idle"

(* output.list, output.set, output.enable and output.remove read the file. *)
BeginRequest(c, routes, about) ==
  /\ client[c].pc = "idle"
  /\ Len(published) + changes < MaxCalls
  /\ changes' = changes + 1
  /\ client' = [d \in Clients |->
       IF d = c THEN [pc |-> IF about = {} THEN "saved" ELSE "loaded",
                      routes |-> routes, about |-> about, alone |-> AllClientsIdle]
       ELSE [client[d] EXCEPT !.alone = FALSE]]
  /\ raced' = (raced \/ ~AllClientsIdle)
  /\ wanted' = IF AllClientsIdle THEN config ELSE wanted
  /\ UNCHANGED <<deliveryVars, cache, config>>

ListRoutes(c) == BeginRequest(c, config, {})

ChangeRoute(c, r, setting) == BeginRequest(c, [config EXCEPT ![r] = setting], {r})

SetRoute(c, r) == \E setting \in {"enabled", "disabled"} : ChangeRoute(c, r, setting)
EnableRoute(c, r) == config[r] # "absent" /\ SetRoute(c, r)
RemoveRoute(c, r) == ChangeRoute(c, r, "absent")
(* A recipe of the profile becomes a new route, which is not enabled. *)
InstallRecipe(c, r) == config[r] = "absent" /\ ChangeRoute(c, r, "disabled")

(* output-routes.json is replaced atomically, *)
SaveRoutes(c) ==
  /\ client[c].pc = "loaded"
  /\ config' = client[c].routes
  /\ wanted' = [r \in Routes |-> IF r \in client[c].about THEN config'[r] ELSE wanted[r]]
  /\ client' = [client EXCEPT ![c].pc = "saved"]
  /\ UNCHANGED <<deliveryVars, cache, changes, raced>>

(* or cannot be written, and the request fails. *)
SaveFails(c) ==
  /\ client[c].pc = "loaded"
  /\ client' = [client EXCEPT ![c] = Resting]
  /\ UNCHANGED <<deliveryVars, cache, config, changes, wanted, raced>>

(* Mutant: the cache is left as it was. *)
ForgetCache(c) ==
  /\ client[c].pc = "saved"
  /\ client' = [client EXCEPT ![c] = Resting]
  /\ raced' = (raced /\ ~client[c].alone)
  /\ UNCHANGED <<deliveryVars, cache, config, changes, wanted>>

(* A removal invalidates the cached routes, every other request replaces   *)
(* them.                                                                   *)
RefreshCache(c) ==
  /\ client[c].pc = "saved"
  /\ cache' = IF \E r \in client[c].about : client[c].routes[r] = "absent"
              THEN NoCache
              ELSE client[c].routes
  /\ client' = [client EXCEPT ![c] = Resting]
  /\ raced' = (raced /\ ~client[c].alone)
  /\ UNCHANGED <<deliveryVars, config, changes, wanted>>

WorkerStep ==
  /\ ~stalled
  /\ \/ TakeJobCached \/ TakeJobFilling \/ FillFails
     \/ \E r \in Routes : SkipRoute(r) \/ Deliver(r) \/ DeliveryFails(r) \/ CommandFails(r)
  /\ UNCHANGED stalled

ClientStep(c) ==
  \/ ListRoutes(c) \/ SaveRoutes(c) \/ SaveFails(c) \/ RefreshCache(c)
  \/ \E r \in Routes :
       SetRoute(c, r) \/ EnableRoute(c, r) \/ RemoveRoute(c, r) \/ InstallRecipe(c, r)

Next ==
  \/ \E kind \in Kind, payload \in Payloads \cup {Missing} :
       Publish(kind, payload) /\ UNCHANGED stalled
  \/ WorkerStep
  \/ CommandBlocks \/ CommandUnblocks
  \/ \E c \in Clients : ClientStep(c) /\ UNCHANGED stalled

Spec == Init /\ [][Next]_vars

(* The delivery thread runs whenever it has something to do and no command *)
(* holds it up.  Nothing makes a command read, so nothing is assumed of    *)
(* CommandUnblocks; files and, once they have read, commands end in time.  *)
FairSpec == Spec /\ WF_vars(WorkerStep)

-----------------------------------------------------------------------------
Pending(n, r) ==
  \/ \E i \in DOMAIN queue : queue[i].id = n
  \/ worker.job.id = n /\ r \in worker.todo

(* SPEC-OUT-002 and SPEC-OUT-004, by refinement: what reaches the sinks is *)
(* what Delivery promises, in order and at most once; an event due to a    *)
(* route is delivered, pending or reported lost; and the worker catches up *)
(* unless a command stalls it for good.                                    *)
Promise ==
  INSTANCE Delivery WITH
    open <- [r \in Routes |-> {n \in DOMAIN published : Pending(n, r)}],
    settings <- config,
    quiet <- changes = 0,
    stalled <- stalled
KeepsPromise == Promise!Spec

(* When the worker has caught up, the sink of an enabled state route shows *)
(* the last state that can be rendered, unless that, or what it does show, *)
(* was reported as a failure: the comparison with the previous payload     *)
(* never silently holds back what the sink does not show.                  *)
LastState == {i \in DOMAIN published :
                /\ published[i].kind = "state"
                /\ published[i].payload # Missing
                /\ \A j \in DOMAIN published :
                     j > i => published[j].kind = "event" \/ published[j].payload = Missing}
CaughtUpIsCurrent ==
  changes = 0 /\ worker.todo = {} /\ queue = <<>>
    => \A r \in EnabledFor(config, "state"), i \in LastState :
         \/ <<i, r>> \in reported
         \/ /\ sink[r] # <<>>
            /\ LET shown == sink[r][Len(sink[r])] IN
                 shown.payload = published[i].payload \/ <<shown.id, r>> \in reported

(* performance.md: the cache is refreshed by list, set, enable, remove and *)
(* install.  With no request under way it holds what the file holds, and   *)
(* ("Creates or replaces one validated output route atomically") each      *)
(* route has the setting last asked for - unless requests overlapped: the  *)
(* three steps of one are not atomic, so that one may undo the change of   *)
(* another and leave the cache behind.  The next request that runs alone   *)
(* brings cache and file together again.                                   *)
ConfigurationSticks ==
  AllClientsIdle /\ ~raced => cache \in {NoCache, config} /\ config = wanted

(* What the worker, a filling worker included, and the clients leave in    *)
(* the cache is the file, and a request that runs alone changes only what  *)
(* it is about, and heals what requests before it left apart               *)
(* (configure_output, routes).                                             *)
RouterInvariant == TypeOK /\ ConfigurationSticks
=============================================================================
