# kigeon in TLA+

kigeon ships the Events of a Kubernetes cluster to Loki. It watches Event
objects (and derives events from OOM-killed containers), puts each into an
embedded NATS JetStream stream on disk, and lets one or more configured senders
take them from there, filter them by namespace, rewrite them with a Starlark
hook and push them. This directory holds TLA+ models of that path, TLC
configurations that check them on small instances, and TLAPS proofs of what
matters most for every size.

Run in this directory, for instance:

    tlc -config EventQueueSender.cfg MCEventQueue
    tlapm EventQueueProofs.tla

`PROJECT.json` lists the components, the runs, the source lines every definition
translates, a plausible mistake per property that the property rejects (the
operators under a comment `Mistake:`; no behaviour of the specifications uses
them), the hazards, the findings and the theorems.

## 1. Inventory

How an event travels:

    API server --watch--> Event informer --handler--\
                                                     channel --> publishingLoop
    API server --watch--> pod informer ---- Push ---/                 |
                                                                PublishEvent
                                                     KV Get, Publish, KV Put
                                                                      |
                                     JetStream stream, bucket, consumers (disk)
                                                                      |
       per sender:   Fetch -> namespace filter -> hook -> push to Loki -> Ack

| Component (source) | State | Operations | Interacts through |
|---|---|---|---|
| Event queue (`internal/eventqueue/eventqueue.go`) | stream, key-value bucket, duplicate window, one durable consumer per sender with its delivery states; all on disk | `StartEventQueue`, `Subscribe`, `PruneConsumers`, `PublishEvent`, `Fetch`, `Ack`, `Stop`; in the server: ack timers, redelivery, limits, expiry | called by the publishing loop and by the senders |
| Event pusher (`internal/eventpusher/eventpusher.go`) | buffered channel, context, wait group, the goroutines of `Run` and of the loop | `Run`, informer handlers, `enqueue`, `Push`, `publishingLoop`, `Stop`, `WaitForStart` | handlers of two informers, `PublishEvent`, `main` |
| Sender pipeline (`internal/eventsender/loki/loki.go`, `filter.go`) | the message in hand, its context | `Run`, `processEvent`, `deliver`, `handleHookError`, `Stop`, `FilteredFetcher.Fetch` | queue, filter, hook, Loki |
| Config hook (`internal/eventsender/loki/hook.go`) | none between calls | `execute` with its timeout | sender context, pod informer |
| Namespace filter (`internal/filter/namespace_filter.go`) | set of allowed namespaces, an informer | `Start`, `IsAllowed`, three handlers, `Stop` | API server, senders |
| Pod informer (`internal/pods/informer.go`) | store, two caches with expiry, whether it is enabled and started | `Enable`, `Start`, `DeleteFunc`, `GetPod`, `OnOOMKilled`, `Stop` | API server, hooks, pusher |
| OOM kill events (`internal/pods/oom.go`) | none | derives an event with a stable UID from each state of a container | pod informer, pusher |
| `main` (`cmd/kigeon/main.go`) | which parts run, the signal context | startup, signal handling, shutdown | all of them |
| Configuration (`internal/config`) | read-only after the start | defaults, the flag, `Validate` | `main` |
| Sender registry (`eventsender/registry.go`, `loki/factory.go`) | the types, filled by `init` functions | `Create`, the checks of a sender's own settings, enabling the pod informer | `main`, senders |
| Metrics (`internal/metrics`) | counters, whether kigeon is ready | `NewServer`, `SetReady`, HTTP | `main` |

The order of the startup in `main`: queue; then per sender its filter,
subscription and sender; pruning; the pod informer; the event pusher; OOM
watching. The order of the shutdown: senders are told to stop, then filters, pod
informer, event pusher, queue; last, `main` waits for the senders.

What is hard in this code, and what makes each component correct:

- **Event queue.** `PublishEvent` is three calls to a server with two memories
  of what was published, and the process may stop or a call fail between any
  two. Correct: an event is stored twice only if both memories are legitimately
  gone; an event skipped as published was published; a message published for a
  configured sender stays until it is acknowledged or a limit strikes; a removed
  sender retains nothing; each message is settled although failing ones occupy
  the places of `MaxAckPending`.
- **Event pusher.** Two producers, a bounded channel and a loop that has to drain
  it before it goes, closed by a third goroutine while the producers may be in
  `select`; a start that must not wait for the loop it is about to start; a
  shutdown in which everybody waits for somebody. Correct: nothing is lost,
  repeated or overtaken in the channel; nobody sends on the closed channel; the
  start and the shutdown end.
- **Sender pipeline.** Push and acknowledgement are two steps; the acknowledgement
  is not confirmed; the first `BackOff` step (one second) replaces `AckWait`, so
  a slow sender races the redelivery of what it holds; the context of a hook
  ends by timeout and by shutdown alike. Correct: what is acknowledged was
  accepted by Loki or given up by a decision.
- **Namespace filter.** A map fed by a watch that breaks, relists, reports
  deletions as tombstones and may leave a change out. Correct: the map follows
  the informer's store in order, and the cluster in the end.
- **Pod informer.** `GetPod` asks the store, the cache of deleted pods, the cache
  of names not found and the API server one after the other, while the informer
  and its handler change three of them. Correct: a deleted pod is returned within
  the retention; "not found" was true at some recent moment; no call goes back to
  an older pod of the name; a pod that stays is found.
- **OOM kills.** A kill is in two places of a container's status one after the
  other, over updates that may be left out, and after a restart again; a cut-off
  age meets the lifetime of deduplication keys. Correct: one process reports a
  kill once; it is published again only as late as the delay in the pusher
  explains; what the cluster still shows is stored in the end, whatever an
  earlier process dropped.
- **`main`.** A startup and a shutdown of many steps, each of which may fail, over
  subscriptions that outlive the process; a wait without a timeout. Correct:
  publications find exactly the configured subscriptions, no failed start deletes
  one, readiness means that everything needed runs, `Push` meets neither a pusher
  that is not started nor one that stops, a signal ends the process.
- **Configuration.** Checks in five places. Correct: together they let no
  unusable configuration become ready.

`PROJECT.json` lists the hazards line by line with the properties that cover
them.

## 2. Modules

| Module | Models | Run by |
|---|---|---|
| `Delivery` | abstract: what the queue promises its senders | as a property of `EventQueue` |
| `EventQueue` | queue, embedded server, the part of `main` around it | `MCEventQueue` |
| `EventPusher` | pusher, informer, OOM producer, start and stop | itself |
| `Shipping` | abstract: what pusher and queue promise together | as a property of `Kigeon` |
| `Kigeon` | `EventPusher` composed with `EventQueue`, process after process | `MCKigeon` |
| `Pipeline` | `EventQueue` composed with the senders | `MCPipeline` |
| `NamespaceFilter` | filter, client-go's reflector, queue and store | itself |
| `Pods` | `GetPod` over the informer, its handler and its caches | itself |
| `Ingest` | OOM kills and Event objects to the stream, with a clock, across restarts | itself |
| `Configuration` | defaults, checks, registry and factory, as operators | `Lifecycle` |
| `Lifecycle` | `main` from start to exit, again and again | `MCLifecycle` |

`EventQueueProofs`, `EventPusherProofs`, `KigeonProofs`, `PipelineProofs`,
`NamespaceFilterProofs`, `PodsProofs`, `IngestProofs` and `LifecycleProofs` hold
the theorems. A behaviour two components share is modelled in full once: the
channel and its goroutines in `EventPusher`, the three calls of `PublishEvent`
under timeouts in `EventQueue`; `Kigeon` puts these two together without a change
to either, while `Ingest` and `Lifecycle` see of them what they need, and say so.

### EventQueue

`log` is every message ever published, in order; a sequence number is an index
of it. `stored` are those still on disk, `kv` and `window` the two memories.
`status[s][m]` and `dcount[s][m]` are what the consumer of sender `s` knows of
message `m`. `subscribed`, `held` and `acks` are the process's side: the
fetchers, the message each sender works on, and acknowledgements sent but not
handled. `pc` and `ev` are the `PublishEvent` under way. `owed`, `evicted`,
`expired`, `unrecorded` and `lapsed` are history, read by properties alone
(`owed` also never guards an action). The last three speak of the latest copy of
an event: its key expired, it was not written, its message id lapsed.

- `Start`, `Subscribe`, `Prune`, `Serve` are the startup of `main`; `Halt` is a
  stop, a crash or a failed start at any point. What is in the process is gone,
  what is on disk stays, and the server rebuilds its duplicate window from the
  messages still stored.
- `Get`, `Publish`, `PublishUnanswered`, `PublishDuplicate`, `PublishFails`,
  `Put`, `PutFails` are the three calls of `PublishEvent` with their outcomes. A
  `Get` that finds the key, and one that fails, change nothing and are
  stutters.
- `Fetch`, `Ack`, `Leave` are a sender's; `HandleAck`, `AckTimer`, `GiveUp`,
  `Evict`, `ExpireKey`, `LapseWindow` the server's. The server is modelled from
  the stream and consumer configuration in `eventqueue.go`, and marked external
  in the map.

`Delivery` is the abstract specification: a message accepted while senders are
configured is due to each of them and kept, until the sender settles it, the
promise lapses (deliveries used up, a limit) or the sender is removed. It has two
variables and knows no consumers, timers, acknowledgements in flight or restarts.
`EventQueue` implements it (`KeepsPromise == Promise!Spec`, an INSTANCE that maps
`kept` to `stored` and `progress` to what `owed`, `status` and `evicted` say of a
message), and its liveness, that nothing stays due for ever
(`EventuallySettled == Promise!DueEnds`).

Time is not a number: a timer fires at any moment, which includes every order the
real durations (`AckWait`, `BackOff`, TTLs, the window of two minutes) allow. The
one-second first step of `BackOff` makes "the timer fires while the sender still
works" an everyday case and not a corner.

### EventPusher

One action per step between two points where goroutines can interleave: a
handler takes a notification (`Handle`) and is then in `select` of `enqueue` with
the event in `hand` (`Send`, `SendOnClosed`, `Drop`); `Run` registers, waits for
the sync, spawns the loop, closes the channel on cancellation and waits
(`Register`, `Sync`, `Close`, `RunReturns`); the loop starts, receives,
publishes, and exits (`LoopStarts`, `Receive`, `Published`, `LoopExits`), and is
`draining` while it publishes under a context already done, which can store
nothing; `main`
waits for the start or times out, stops the pod informer, cancels, and returns
from `Stop`. The wait group counts the loop from its first statement, where the
code calls `Add`. The informer is external: it may buffer any number of
notifications, hands them over one at a time, and on cancellation may still hand
over some or discard them.

### Kigeon and Shipping

`Kigeon` EXTENDS `EventQueue` and has `EventPusher` as an instance, with the
variables of both. What each leaves open the other decides:

- `EventQueue` lets a `PublishEvent` of any event begin at any time. Here `Receive`
  is the loop's taking an event from the channel together with `KV Get`, whose
  outcomes are a missing key, a key that is there, and a failure - the only outcome
  under a context already done. `Publishing` are the other calls, `Published` the
  return to the loop.
- `EventPusher` lives once and is stopped once. Here it begins when `main` starts it,
  after the subscriptions (`Running`), and `End` puts it back to its beginning: what
  was buffered, in hand, in the channel or under way is gone, and the next process
  lists the objects anew.
- A version of an Event object is not yet what the queue deduplicates: `ident` maps
  it to an identifier of UID and `Count`. An update may leave `Count` alone, so two
  versions may share an identifier; which do is chosen for every process.

`Intake`, `QueueStep` and `End` are the remaining steps of the pusher, of the queue,
and the end of a process. `failed` is history: the identifiers whose `PublishEvent`
returned an error in this process.

`Shipping` is the abstract specification, an extension of `Delivery` by the way in:
an event is *pending* from the moment the cluster shows it until it is stored
(`Ship`), found stored before (`Skip`), its publication fails (`Fail`), a stop that
has begun lets go of it (`Abandon`) or the process ends (`Stop`); what is stored
becomes due to every configured sender in the same step. It knows no informers,
handlers, channel, loop, memories or calls. `Kigeon` implements it
(`Ships == Shipped!ShippingSpec`): `open` is a pusher that runs with its context not
done, `pending` the identifiers of what is buffered, in hand, in the channel and
before `Publish`, `known` the events of the log, `kept` and `progress` as for
`Delivery`. The mapping is where the composition could go wrong: a key written
before its event was stored, a loop that loses what it received, a handler that
skips a first version, an event published before the subscriptions would all be
steps `Shipping` does not have.

### Pipeline

`Pipeline` EXTENDS `EventQueue` and replaces its free choice between `Ack` and
`Leave` by the code of the senders: `FetchNext`, `Filter`, `HookReturns`,
`HookFails`, `HookCut`, `Deliver`, `Acknowledge`. Each sender has the settings
that steer it (a hook or none, `onError`, noop), read anew at every start.
`StopSenders` is the signal: contexts are cancelled, and senders go on until they
notice. What the filter, a script and Loki answer is left open; so is whether a
push that failed for the sender still reached Loki.

The abstract specification is `EventQueue!FairSpec` itself, with the same
variables; the refinement mapping is the identity on them. It is checked by TLC
(`PROPERTY FairSpec`, fairness included) and its safety part is proved.

### NamespaceFilter

`cluster` is the API server's truth, `queue`, `known` and `notif` are client-go's
delta queue, store and handler buffer, `allowed` the map of the filter. `List`
is the first list and every relist, which turns a deletion nobody told of into a
tombstone; `Miss` is a change the watch leaves out. `Handle` is the three
handlers. `goroutine` is the one `Start` makes for the informer and `wg` the count
it is entered in before it runs; `RunBegins` and `RunReturns` are its ends, and
`StopReturns` is the `Wait` of `Stop`, which may be called before it ever ran.

### Pods

One namespace and name; pods of that name come and go, counted by `api`, and an
odd count is a pod that exists. `seen` is the change the informer's store is at,
`notif` the deletions `DeleteFunc` has yet to take. `deleted` and `notFound` are
the caches' entries with the time until which they hold; `now` is the clock.
`call` is one `GetPod` per caller, and each place it looks at is a step of its own
(`AskLister`, `AskDeleted`, `AskNotFound`, `AskAPI`, `APIFails`, `Remember`), with
everything else between any two. `Relist` is a list after a broken watch: a
deletion becomes a tombstone, and a pod that was replaced an update that
`DeleteFunc` never hears of. What `owed`, `newest` and the fields `until`,
`known`, `lagged` and `absent` record is history, read by properties alone.

### Ingest

One container, whose status is the OOM kill in its state and the one in its last
state; Event objects beside it. `HandlePod` is both handlers of `OnOOMKilled` with
`OOMKilledEvents`: what the old pod reported is known, what is older than `maxAge`
is left out, and the statuses before the one handled may have been left out by the
watch. `Get`, `Publish` and `Put` are the calls of `PublishEvent`, now with a
clock and a key that expires. `Halt` ends a process anywhere: what is in the
channel, in hand and in memory is gone, which is also all that a shutdown leaves
of it, since it publishes what it drains under a context already done. `main`
passes one duration as `maxAge` and as the lifetime of keys; the theorems ask only
that it be no longer.

### Configuration and Lifecycle

`Configuration` has a file as a record of what the checks tell apart (a quantity by
its sign, a string by whether it is empty, known or another), the defaults and
the override as functions of it, and the checks where the code has them: `Validate`,
the queue, the registry, the factory, the constructor of the sender and of the
hook.

`Lifecycle` walks through `run`: `at` is where it is, with one action per call that
changes state, may fail or may block. `consumers` are the subscriptions in the data
directory, which outlive the process; each start may find another configuration.
`Prune` deletes one subscription after the other and may fail between two. The
other goroutines are those whose state `run` waits for or passes on: the senders'
`Run`, the handler that pushes OOM kills, and the pusher. `Signal` is noted from
`NotifyContext` to `stop` and looked at only after the startup; outside of that,
and for `Crash`, the process is gone. The API may be down for any time.

## 3. Runs

| Run | Instance | Properties | States |
|---|---|---|---|
| `queue_sender` | 1 event published up to 3 times, 1 sender, 1 restart, 2 deliveries | `TypeOK`, `NoDuplicateStored`, `RememberedWasStored`, `EventuallySettled` | 111,888 |
| `queue_delivery` | 2 events, 2 messages, 2 senders, 1 restart, 2 deliveries; symmetry | `OwedIsStored`, `OnlyUndeliveredRetained`, `KeepsPromise` | 1,034,239 |
| `pusher` | 2 objects with 2 versions, 1 resync, 1 OOM kill, channel of 1 | `TypeOK`, `VersionsOnceInOrder`, `EveryVersionAccounted`, `ShutdownEnds`, `AcceptedIsAttempted`, `ObservedIsAttempted` | 147,788 |
| `kigeon` | 1 object with 2 versions, which may share an identifier, 1 OOM kill, channel of 1, 2 messages, 1 restart | `NothingLostSilently`, `StopCutsNoPublication`, `Ships` | 778,168 |
| `pipeline` | 1 message, 1 sender with four different settings, 1 restart | `PipelineTypeOK`, `AcknowledgedIsHandled`, `FairSpec` | 46,644 |
| `filter` | 2 namespaces in any initial state, 2 changes, 1 broken watch, 1 refresh | `TypeOK`, `AllowedFollowsStore`, `StopWaitsForAll`, `FollowsCluster` | 1,172,779 |
| `pods` | 2 calls of `GetPod`, 4 changes of the pod, retention 2, not found for 1, time to 3 | `TypeOK`, `RetainedIsReturned`, `NotFoundWasTrue`, `NoOlderPod`, `StayingPodIsFound` | 1,942,172 |
| `ingest` | any 2 of 2 OOM kills and an Event object, 2 starts, time to 3, `maxAge` and key lifetime 1 | `TypeOK`, `ReportedOnce`, `RepublishedOnlyLate`, `EventuallyStored` | 308,300 |
| `lifecycle` | 3 starts, each with one of 21 configurations of up to two senders | `TypeOK`, `SubscribedFirst`, `ReadyMeansServing`, `NoPushAfterStop`, `ReadyIsSound`, `SubscriptionsKept`, `SignalEnds`, `StartupEnds` | 7,564 |

Nine questions: does deduplication hold call by call and is every message settled
(`queue_sender`); does retention keep exactly what senders still need, through
configuration changes, and is that all a sender has to know (`queue_delivery`); do
the goroutines of the pusher neither lose nor block nor misorder (`pusher`); is a
version the informer saw lost anywhere between the cluster and the stream, and do
pusher and queue together keep one promise (`kigeon`); do the real senders use the queue as it assumes and
acknowledge only what they handled (`pipeline`); does the filter follow the cluster,
and does its `Stop` wait for what `Start` began (`filter`); is each answer of `GetPod` justified (`pods`); what becomes of what the
cluster shows over restarts (`ingest`); what runs when (`lifecycle`).

Three more runs each find what a comment or the README says and the code does not
do:

| Run | Statement | What happens |
|---|---|---|
| `queue_giveup` | `EventsMaxAge` is "how long we store (and retry sending for)" events | `MaxDeliver: 11` ends the retries after some six minutes, with the message stored |
| `pusher_panic` | the `ctx.Done` case "wins over writing to a closed channel" | a `select` with two ready cases picks either: the handler of the Event informer may send on the closed channel and panic |
| `pipeline_stop` | "no events are lost on restart" | with `onError: skip` a hook cut by the shutdown acknowledges its event unsent |

What the models also show, where the truth is weaker than the words, without a
run of its own:

- The loop of the pusher counts itself in, so `Stop` may return before it began.
  `StopCutsNoPublication` is why this is harmless: by then the context is done, and
  whatever such a loop takes fails at its first call.
- `HardRefreshInterval` is "just an additional safeguard against missed watches"
  (`namespace_filter.go:51-53`). It is the resync period of the informer, and a resync
  (`HardRefresh`) repeats the local store and asks the API server nothing:
  `FollowsCluster` has to leave out a namespace whose last change the watch left out.
- An event whose publication failed is in the log of kigeon and nowhere else:
  `failed` in `NothingLostSilently` and `Fail` in `Shipping` are not idle
  disjuncts. The object has to be updated, or the process to end, for another
  attempt.
- "Each event is sent exactly once" (`README.md:18`) is at least once: a stop, a lost
  acknowledgement or a slow push between the push and the acknowledgement repeats
  it, and so does a publication after both memories are gone (`NoDuplicateStored`
  names the conditions for each further copy, `RepublishedOnlyLate` those for OOM
  kills).
- "Deleted pods are returned within the configured retention"
  (`informer.go:142-143`) has a gap: between the pod's leaving the store and the run
  of `DeleteFunc` it is in neither, and `GetPod` answers not found, which it then
  remembers. `RetainedIsReturned` is what holds: once `DeleteFunc` has run. A pod
  that was deleted and created again while the watch was broken is never
  put there.
- `loki/config.go:65` says pod definitions are cached for 30 seconds; there is no such
  cache, but the store, and the retention of five minutes by default.
- No check looks at `kubernetesEventsMaxLifetime` and `pushTimeout`: `ReadyIsSound`
  holds without them, and a configuration with a negative `pushTimeout`, under
  which each publication times out at once, becomes ready (it is among the 21).
- A signal during the startup is only looked at after it. `SignalEnds` and
  `StartupEnds` hold but for the wait for the cache of a namespace filter, which has
  no timeout. Readiness is not withdrawn during the shutdown.
- The timeout of a hook begins after its pod was looked up; that request is bounded
  by the context of the sender and by the client alone.

### Bounds, and why they are enough

- *Messages.* Deduplication is about one event against its own earlier copies:
  one event and three places in the log give a first copy, a legitimate second
  one and a third, for which both memories must be gone once more. Retention is about one message and the consumers, or about
  the order of two; the delivery instance has two of each.
- *`MaxDeliver` 2 (11 in the code), `MaxAckPending` 1 (2 in the code).* The
  smallest values with a redelivery, a last delivery, and a full consumer that
  holds a second message back. The proofs are for all values.
- *`MaxRestarts` 1.* One stop at every point, with whatever configuration comes
  after it. Properties over repeated restarts are proved for any number.
- *Senders.* Two are needed for one to be removed while the other keeps its
  interest.
- *`Recorded`.* The delivery instance leaves out, by an action constraint, the
  expiry of keys and message ids and publications that never write the key:
  these matter to deduplication, which `queue_sender` checks with all of them.
- *`EventPusher`.* A channel of one place is full after one event; two objects
  and two producers are enough to fill it, to wait and to be overtaken. Two
  versions and a resync are enough to repeat or to reorder one object's.
- *`Pipeline`.* The properties speak of one sender and one message each; the log
  of one keeps every interleaving of it with the stop. `received` stops at two,
  the first count that is not "once".
- *`Kigeon`.* One object and one kill share the channel of one place; two versions
  make one identifier or two; a stop at every point and a second process, which
  sees the object again, finds what the first one stored. The action constraint
  `Undelivered` leaves out deliveries and evictions: they need nothing of the
  pusher, and are checked by the runs of the queue. Keys expire and message ids
  lapse, so an event is also stored twice. `VIEW Read` counts states as one that
  differ only in history no guard and no property of the run reads. The theorems are about the
  specification without the constraint.
- *`NamespaceFilter`.* Two namespaces in any initial states and two changes, of one
  of them or of both, before, during or after a break of the watch.
- *`Pods`.* Four changes make two pods of a name with a deletion after each, from a
  cluster with or without one at the start. A retention of two outlives a
  `notFound` entry of one, as in the code, and time to three sees both end. Two
  callers are the fewest of which one remembers for the other.
- *`Ingest`.* Two kills pass through the two places of a status; time to three sees a
  kill grow too old and a key expire, with `maxAge` and lifetime at one; two starts
  are one restart at every point. Of three possible items any two happen.
- *`Lifecycle`.* The third start finds what two earlier ones, with other senders and
  other failures, left. Configurations are four that are accepted, among them every
  way the pod informer is needed or not, and seventeen that each break one rule,
  where the sender is concerned in the second of two.

`CHECK_DEADLOCK FALSE` stands in the runs of `EventPusher`, `Kigeon`,
`NamespaceFilter`, `Pods` and `Ingest`: a process that has shut down or panicked
rests, and so does a cluster whose bound is reached. The queue and the pipeline never rest while the
process may be started again, nor does `Lifecycle`, and their runs check it.

### Fairness

- *Queue.* The process is started again (it is a Deployment), `main` gets through
  its startup, a `Run` loop fetches again after whatever happened, and finishes
  what it holds: the script is bounded by its timeout, the push by the timeout of
  the HTTP client, and the lookup of a pod by the API client answering or failing. The server handles acknowledgements and fires its timers.
  Nothing makes the cluster produce events, a limit strike, a key expire or the
  process stop.
- *Pusher.* Each goroutine that can step does; `pushTimeout` bounds a
  publication. The signal and a start that times out are left to chance.
- *Pipeline.* As the queue, per step of a sender, and a shutdown once begun ends.
- *Filter.* The reflector lists until it succeeds, and the watch tells of what
  it does not leave out.
- *Pods.* The informer follows, its handler runs, a call once begun ends. Changes,
  time, new calls and the shutdown are left to chance.
- *Ingest.* Handlers and the publishing loop go on while kigeon runs, and it is
  started again. The cluster, the clock, failures and ends are left to chance; one
  failure of this very process excuses it, since nothing in it tries again.
- *Lifecycle.* `run` and the other goroutines go on where they can: their waits have
  timeouts, but for the one the property names. The API need not answer.

All of it is weak fairness.

## 4. Proofs

The named assumptions are `EventQueueAssumption`, `PipelineAssumption`,
`EventPusherAssumption`, `KigeonAssumption`, `NamespaceFilterAssumption`, `PodsAssumption`,
`IngestAssumption` and `LifecycleAssumption`: `NoEvent` and `None` are
no events, Event objects and OOM kills have different UIDs, an identifier is a UID
and a count, the bounds are
naturals, `MaxDeliver`, `MaxAckPending`, `Capacity` and the lengths of the caches
are positive, `maxAge` is not longer than the lifetime of keys, and settings and
configurations are records of the fields the code reads. No set is
assumed finite or nonempty otherwise. Every safety property of every passing run
is proved from them.

**Queue** (`EventQueueProofs`). The invariants of the runs are not inductive:

- `TypeInv` adds `NewUndelivered` to `TypeOK`. Without it, `Fetch` of a message
  that was never delivered could count past `MaxDeliver`. -> `TypeCorrect`.
- `DedupInv` ties both memories to the log: of the latest copy of a stored event,
  the message id is in the window or has lapsed, and the key in the bucket unless
  it expired, was never written, or `Put` is the very next call; and `PublishEvent`
  past `Get` has an event whose key was absent. `NoDuplicateStored` is about a step,
  and only storing appends (`OnlyStoreAppends`): it follows at `Publish` and
  `PublishUnanswered`, which look at the window and remember the bucket. The subtle step is `ExpireKey` and `PutFails`
  between the calls. -> `Deduplicated`, `NeverSkipsUnstored`.
- `RetentionInv` says that who is owed a message has a consumer that has not
  acknowledged it, that only such messages are stored, and that while events
  are published the consumers are those of the configuration. The subtle steps
  are `Prune` and `HandleAck`, which take messages off the disk. ->
  `OwedStays`, `NothingRetainedForRemoved`.

**Delivery** (the end of `EventQueueProofs`). `QueueKeepsPromise`
(`Spec => KeepsPromise`) goes action by action: what an action does to the progress
of each message is a step of `Delivery` (`SettleMaps` and its like), or nothing. The
mapped steps are legal because of `RetentionInv`: what is due is on disk
(`DueStored`). The subtle steps are `HandleAck`, which settles a message that may
have lapsed, `Evict`, which ends the promise to every sender at once, and `Prune`.

**Pipeline** (`PipelineProofs`). `PipelineStep` maps each step of the senders
to a step of the queue or to a stutter; hence `PipelineImplementsQueue`
(`PipelineSpec => Spec`), and `PipelineKeepsQueue` and `PipelineKeepsPromise` carry
the queue's theorems over. `AcknowledgedOnlyHandled` needs the inductive `PipelineInv`: besides the
types, that a sender past `Fetch` holds a message and that one at `ack` has
handled it (`StageInv`).

**Pusher** (`EventPusherProofs`). `PusherInv` has three parts besides the types.
`ChannelInv` adds to `NothingLostInChannel` that a loop that has exited left a
closed channel, on which no `Send` follows. `MainInv` ties the context and the
hand of the OOM producer to the stage of `main`. `OrderInv` lays the stations of
an event in a line - accepted, in the hand of a producer, buffered by the
informer, in its store - and says object by object that each is newer than the
one before; a resync repeats a version only where the handler will skip it.
`EveryVersionAccounted` is inductive with it, and `StopInv` says that once `Stop`
waits the context is done and, once it returned, nothing is published that could
still be stored.
-> `ChannelLosesNothing`, `PushesEndBeforeStop`, `PublishedInOrder`, `NoVersionLost`,
`StopEndsPublications`.

`NothingLostInChannel`, `PushNeverAfterStop` and `QueueOutlivesPublications`, which
these state, are parts of that invariant and hold for all sizes; no run repeats them.

**Kigeon** (`KigeonProofs`). The theorems are composed from those of the parts.

- Every step of `Kigeon` but `End` is a step of `EventPusher` or leaves it alone
  (`PusherSees`), and `End` makes its initial state: so `PusherInv`, proved of a
  pusher that lives once, holds through any number of processes
  (`PusherAcrossRestarts`). The lemmas of `EventPusherProofs` are used through an
  instance of that module; `KigeonAssumption` implies its assumption.
- Every step is also one of `EventQueue` or leaves it alone (`QueueSees`): so
  `KigeonImplementsQueue`, and with it all that is proved of the queue
  (`KigeonKeepsQueue`).
- `LinkInv` is the one invariant that speaks of both: `PublishEvent` is under way only
  while the loop is `publishing`. With `StopInv` of the pusher it gives
  `StopsBetweenPublications`, and it is why `Receive` finds the queue `idle`.
- `KigeonShips` (`KigeonSpec => Ships`) maps every step. What a step of the pusher
  alone may do to events on their way is stated once (`Moved`) and shown handler by
  handler (`InformerMoves` to `ControlMoves`); the steps of the queue take
  `StoreRefines` and `OtherStepRefines` over from the proof of Delivery. The subtle
  steps are `Receive`, where the event leaves the channel and is pending on only
  because `pc` says so; a key or a message id found, which needs `DedupInv` to be of
  an event of the log; and `Push`, which needs `MainInv` to come while kigeon is open.
- `LosesNothingSilently` is derived from the refinement: a step of `Shipping` keeps
  account of every event while open (`Accounted`), and a version becomes pending in
  the step that makes it (`VersionMoves`).

**Filter** (`NamespaceFilterProofs`). With the types, `AllowedFollowsStore` is
inductive: stating what the last pending notification of a namespace says is
what makes it so. The subtle steps are `Pop`, which may make a settled
namespace pending, and `Handle` of its last notification. `LifeInv` says that the
goroutine is counted from `Start`, before it runs, until it has returned; so a count
of zero under `StopReturns` means that it has.
-> `TypeCorrect`, `FilterFollowsStore`, `StopIsLast`.

**Pods** (`PodsProofs`). `PodsInv` says of the caches that they hold nothing but
what `DeleteFunc` put there last and what was once true (`CacheInv`); of the newest
pod the store ever had, that it is in the store, the last one on its way to
`DeleteFunc`, or in the deleted cache (`NewestInv`); and of each call what it has
ruled out by the place it has come to (`CallInv`). The subtle steps are those of
others in the middle of a call: a deletion that leaves the store behind a call that
has looked there, and `DeleteFunc` of an older pod.
-> `RetentionKept`, `AbsenceIsReal`, `PodsMoveOn`.

**Ingest** (`IngestProofs`). `TimeInv` orders the moments of an event: the kill, the
check of its age, the write of its key, the lookup. `ReportInv` says that a kill
which has left the status of its container does not come back, neither in the status
the handler saw last nor in those it has yet to see (`GoneInv`, `OnceGoneInv`); then
comparing with the old pod is enough, also across statuses left out.
-> `RepeatsAreLate`, `KillsReportedOnce`.

**Lifecycle** (`LifecycleProofs`). `Inv` says what `run` has done by where it is:
the configuration was accepted (`ConfigInv`), nothing runs before the queue is open
(`NothingInv`), in the loop over the senders exactly those before the present one are
subscribed, filtered and running (`LoopInv`), after it all of them and none else is
subscribed once pruned (`AfterInv`), and how far the pod informer and the pusher are
(`PodsInv`, `PusherInv`). No property is inductive alone: `SubscribedFirst` needs to
know that `Prune` comes after the last sender, `ReadyMeansServing` everything the
startup did on its way. -> `SubscribedBeforePublished`, `OnlyStaleArePruned`,
`ReadyServes`, `ReadyOnSoundConfig`, `PushesBetweenStartAndStop`.

**Checked only by TLC**: all liveness (`EventuallySettled`, `ShutdownEnds`,
`AcceptedIsAttempted`, `ObservedIsAttempted`, `FollowsCluster`,
`StayingPodIsFound`, `EventuallyStored`, `SignalEnds`, `StartupEnds`) and the fairness
half of the refinement by `Pipeline`, since proofs of liveness and of ENABLED are
beyond the prover. It handles neither induction over data with operator parameters
nor RECURSIVE operators; the modules have none of the latter.

## 5. Not modelled, and why

- The Go-Starlark conversion, what a script may change in a configuration, payloads,
  labels, timestamps and wording: data no property tells apart.
- Metrics but for readiness: counters that change no state of the others.
- The answer of the filter for objects without a namespace: a constant.
- `Stop` of the queue gives up after 30 seconds and the process exits anyway;
  `Halt` is that exit, and in `Lifecycle` the stop ends.
- Credentials, TLS, addresses, the tenant and environment variables of a sender.
- Other namespaces and names beside one in `Pods`, other containers in `Ingest`: they
  share nothing with it.
- Helm chart, Dockerfile, CI, examples.

## 6. Plan

Done: every component of the inventory with state of its own, `Delivery` as the
abstract specification of the queue and `Shipping` as that of pusher and queue, and
the proofs of all safety properties of the passing runs and of the refinements.
Left:

1. `Shipping` extended to the senders (handled, or given up for a named reason),
   implemented by `Kigeon` with the steps of `Pipeline`. The parts meet at `Fetch`;
   `Pipeline` covers that meeting, but for events anybody may publish.
2. `Pods` composed with the hook of `Pipeline`: which event is skipped by
   `skipOnPodNotFound`.
3. What a script may change, should the conversion come to matter to a property.
