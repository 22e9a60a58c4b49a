------------------------------ MODULE Lifecycle ------------------------------
(***************************************************************************)
(* kigeon from start to exit (cmd/kigeon/main.go: run), again and again    *)
(* over one data directory: the parts it starts and stops and in which     *)
(* order, its readiness, signals, crashes, a Kubernetes API that comes and *)
(* goes, and subscriptions, which outlive the process.  Each start may     *)
(* find another configuration.                                             *)
(*                                                                         *)
(* A part is only what run and the others see of it: EventQueue,           *)
(* EventPusher, Pipeline, NamespaceFilter and Pods model them.             *)
(*                                                                         *)
(* Bound: MaxStarts starts.                                                *)
(***************************************************************************)
EXTENDS Configuration

CONSTANTS
    Files,     \* configurations a start may find
    None,      \* no configuration
    MaxStarts  \* bound: starts

ASSUME LifecycleAssumption == Files \subseteq Config /\ MaxStarts \in Nat

VARIABLES
    apiUp,      \* the Kubernetes API answers
    consumers,  \* names of the subscriptions in the data directory
    starts,
    at,         \* where run is, "off": no process
    cfg,
    next,       \* the sender run is at
    caught,     \* signals are caught
    noted,      \* sigCtx is done
    ready,      \* its readiness check succeeds
    queue,      \* the event queue is open
    filters,    \* senders whose namespace filter watches
    running,    \* senders whose Run has not returned
    told,       \* senders told to stop
    enabled,    \* the pod informer is enabled
    pods,       \* the pod informer: "off", "syncing", "started", "reporting" or "stopped"
    pushing,    \* its handler is in ep.Push
    pusher      \* "none", "syncing", "spawned", "running" or "ended": the publishing loop

senderVars == <<filters, running, told>>
podVars == <<enabled, pods, pushing>>
process == <<at, cfg, next, caught, noted, ready, queue, senderVars, podVars, pusher>>
vars == <<apiUp, consumers, starts, process>>

Startup == {"client", "metrics", "signals", "queue", "register", "filter", "sync",
            "subscribe", "create", "prune", "pods", "pods sync", "pusher",
            "pusher sync", "oom", "set ready"}
Shutdown == {"stop senders", "stop filters", "stop pods", "pods stopping", "stop pusher",
             "pusher stopping", "stop queue", "stop metrics", "wait group"}

ConfigOf(f) == Override(ApplyDefaults(f))

Sender == cfg.senders[next]
Indices == DOMAIN cfg.senders

TypeOK ==
    /\ apiUp \in BOOLEAN /\ starts \in 0..MaxStarts
    /\ consumers \subseteq UNION {Names(f) : f \in Files}
    /\ at \in {"off", "config", "wait"} \cup Startup \cup Shutdown
    /\ IF at \in {"off", "config"}
       THEN cfg \in Files \cup {None} /\ filters = {} /\ running = {} /\ told = {}
       ELSE /\ \E f \in Files : cfg = ConfigOf(f)
            /\ next \in Indices \/ at \notin {"filter", "sync", "subscribe", "create"}
            /\ filters \subseteq Indices /\ running \subseteq Indices
            /\ told \subseteq Indices
    /\ caught \in BOOLEAN /\ noted \in BOOLEAN
    /\ ready \in BOOLEAN /\ queue \in BOOLEAN /\ enabled \in BOOLEAN
    /\ pods \in {"off", "syncing", "started", "reporting", "stopped"}
    /\ pushing \in BOOLEAN
    /\ pusher \in {"none", "syncing", "spawned", "running", "ended"}

Init ==
    /\ apiUp \in BOOLEAN /\ consumers = {} /\ starts = 0
    /\ at = "off" /\ cfg = None /\ next = 0
    /\ caught = FALSE /\ noted = FALSE /\ ready = FALSE
    /\ queue = FALSE /\ filters = {} /\ running = {} /\ told = {}
    /\ enabled = FALSE /\ pods = "off" /\ pushing = FALSE /\ pusher = "none"

-----------------------------------------------------------------------------
(* The world.                                                              *)

APIChanges ==
    /\ apiUp' = ~apiUp
    /\ UNCHANGED <<consumers, starts, process>>

Start ==
    /\ at = "off" /\ starts < MaxStarts
    /\ starts' = starts + 1 /\ at' = "config"
    /\ \E f \in Files : cfg' = f
    /\ UNCHANGED <<apiUp, consumers, next, caught, noted, ready, queue, senderVars,
                   podVars, pusher>>

\* The process ends, and with it every goroutine, stopped or not.
Return ==
    /\ at' = "off" /\ cfg' = None /\ next' = 0
    /\ caught' = FALSE /\ noted' = FALSE /\ ready' = FALSE
    /\ queue' = FALSE /\ filters' = {} /\ running' = {} /\ told' = {}
    /\ enabled' = FALSE /\ pods' = "off" /\ pushing' = FALSE /\ pusher' = "none"
    /\ UNCHANGED consumers

\* A crash, or SIGKILL.
Crash ==
    /\ at # "off"
    /\ Return /\ UNCHANGED <<apiUp, starts>>

\* SIGTERM or SIGINT: caught from NotifyContext to stop, and more than one is
\* no more than one; before and after, the process ends.
Signal ==
    /\ at # "off"
    /\ IF caught
       THEN /\ noted' = TRUE
            /\ UNCHANGED <<consumers, at, cfg, next, caught, ready, queue, senderVars,
                           podVars, pusher>>
       ELSE Return
    /\ UNCHANGED <<apiUp, starts>>

-----------------------------------------------------------------------------
(* The startup.                                                            *)

\* Load and Validate.
LoadConfig ==
    /\ at = "config"
    /\ LET c == ConfigOf(cfg)
       IN  \/ /\ Valid(c)
              /\ cfg' = c /\ at' = "client"
              /\ UNCHANGED <<consumers, next, caught, noted, ready, queue, senderVars,
                             podVars, pusher>>
           \/ ~Valid(c) /\ Return

\* run goes on from one place to another, or fails there and returns.
GoOn(from, to) == at = from /\ at' = to /\ UNCHANGED <<cfg, noted>>
Step(from, to) ==
    /\ GoOn(from, to)
    /\ UNCHANGED <<consumers, next, caught, ready, queue, senderVars, podVars, pusher>>
Fails(from) == at = from /\ Return

CreateClient == Fails("client") \/ Step("client", "metrics")

\* NewServer, Serve.
StartMetrics == Fails("metrics") \/ Step("metrics", "signals")

NotifyContext ==
    /\ GoOn("signals", "queue")
    /\ caught' = TRUE
    /\ UNCHANGED <<consumers, next, ready, queue, senderVars, podVars, pusher>>

StartQueue ==
    \/ Fails("queue")
    \/ /\ GoOn("queue", "register")
       /\ cfg.eventsMaxBytes > 0
       /\ queue' = TRUE
       /\ UNCHANGED <<consumers, next, caught, ready, senderVars, podVars, pusher>>

\* The collector of the queue is registered, the pod informer enabled for OOM
\* kills, and on to the first sender.
RegisterQueue ==
    \/ Fails("register")
    \/ /\ GoOn("register", "filter")
       /\ enabled' = cfg.oomKilledEvents /\ next' = 1
       /\ UNCHANGED <<consumers, caught, ready, queue, senderVars, pods, pushing,
                      pusher>>

\* NewDynamicNamespaceFilter and its informer.
StartFilter ==
    \/ Fails("filter") /\ Sender.selector = "invalid"
    \/ Step("filter", "subscribe") /\ Sender.selector = "none"
    \/ /\ GoOn("filter", "sync") /\ Sender.selector = "valid"
       /\ filters' = filters \cup {next}
       /\ UNCHANGED <<consumers, next, caught, ready, queue, running, told, podVars,
                      pusher>>

\* Start of the filter waits for its cache under ctx, which nothing cancels.
FilterSynced == apiUp /\ Step("sync", "subscribe")

\* Mistake: the subscriptions of the senders so far are kept, and no others.
SubscribePruned ==
    \/ Fails("subscribe")
    \/ /\ GoOn("subscribe", "create")
       /\ consumers' = (consumers \cap {cfg.senders[i].name : i \in 1..next})
                            \cup {Sender.name}
       /\ UNCHANGED <<next, caught, ready, queue, senderVars, podVars, pusher>>

Subscribe ==
    \/ Fails("subscribe")
    \/ /\ GoOn("subscribe", "create")
       /\ consumers' = consumers \cup {Sender.name}
       /\ UNCHANGED <<next, caught, ready, queue, senderVars, podVars, pusher>>

\* Mistake: the loop goes on for one sender too many.
AfterSenderPast == IF next > Len(cfg.senders) THEN "prune" ELSE "filter"

AfterSender == IF next = Len(cfg.senders) THEN "prune" ELSE "filter"

\* Create, and Run in a goroutine.
CreateSender ==
    \/ Fails("create") /\ ~Creates(Sender)
    \/ /\ GoOn("create", AfterSender) /\ Creates(Sender)
       /\ enabled' = (enabled \/ EnablesPods(Sender))
       /\ running' = running \cup {next} /\ next' = next + 1
       /\ UNCHANGED <<consumers, caught, ready, queue, filters, told, pods, pushing,
                      pusher>>

PruneStale ==
    /\ at = "prune"
    /\ \E name \in consumers \ Names(cfg) : consumers' = consumers \ {name}
    /\ UNCHANGED process

\* Mistake: an error is only logged.
PruneLogsErrors == PruneStale \/ Step("prune", "pods")

\* PruneConsumers deletes one stale subscription after the other, up to an
\* error.
Prune ==
    \/ Fails("prune")
    \/ PruneStale
    \/ Step("prune", "pods") /\ consumers \subseteq Names(cfg)

\* Mistake: only OOM kills are thought of.
PodsNeededForOOM == cfg.oomKilledEvents

PodsNeeded == enabled

StartPods ==
    \/ Step("pods", "pusher") /\ ~PodsNeeded
    \/ /\ GoOn("pods", "pods sync") /\ PodsNeeded
       /\ pods' = "syncing"
       /\ UNCHANGED <<consumers, next, caught, ready, queue, senderVars, enabled,
                      pushing,
                      pusher>>

\* Start waits for its cache, for 30 seconds.
PodsSynced ==
    \/ Fails("pods sync")
    \/ /\ GoOn("pods sync", "pusher") /\ apiUp
       /\ pods' = "started"
       /\ UNCHANGED <<consumers, next, caught, ready, queue, senderVars, enabled,
                      pushing,
                      pusher>>

StartPusher ==
    /\ GoOn("pusher", "pusher sync")
    /\ pusher' = "syncing"
    /\ UNCHANGED <<consumers, next, caught, ready, queue, senderVars, podVars>>

\* Mistake: it waits as long as it takes.
WaitForStartForever == pusher # "syncing" /\ Step("pusher sync", "oom")

\* WaitForStart, for 30 seconds.
WaitForStart ==
    \/ Fails("pusher sync")
    \/ pusher # "syncing" /\ Step("pusher sync", "oom")

\* OnOOMKilled, if wanted: its handler may not be added.
WatchOOMKills ==
    \/ Fails("oom") /\ cfg.oomKilledEvents
    \/ /\ GoOn("oom", "set ready")
       /\ pods' = IF cfg.oomKilledEvents THEN "reporting" ELSE pods
       /\ UNCHANGED <<consumers, next, caught, ready, queue, senderVars, enabled,
                      pushing, pusher>>

SetReady ==
    /\ GoOn("set ready", "wait")
    /\ ready' = TRUE
    /\ UNCHANGED <<consumers, next, caught, queue, senderVars, podVars, pusher>>

-----------------------------------------------------------------------------
(* The shutdown.                                                           *)

\* sigCtx is done; from stop on, a signal ends the process.
SignalSeen ==
    /\ GoOn("wait", "stop senders") /\ noted
    /\ caught' = FALSE
    /\ UNCHANGED <<consumers, next, ready, queue, senderVars, podVars, pusher>>

\* Stop of a sender only signals it.
StopSenders ==
    /\ GoOn("stop senders", "stop filters")
    /\ told' = Indices
    /\ UNCHANGED <<consumers, next, caught, ready, queue, filters, running, podVars,
                   pusher>>

\* Stop of a filter waits for its informer.
StopFilters ==
    /\ GoOn("stop filters", "stop pods")
    /\ filters' = {}
    /\ UNCHANGED <<consumers, next, caught, ready, queue, running, told, podVars,
                   pusher>>

StopPods ==
    /\ GoOn("stop pods", "pods stopping")
    /\ pods' = "stopped"
    /\ UNCHANGED <<consumers, next, caught, ready, queue, senderVars, enabled, pushing,
                   pusher>>

\* Mistake: the handlers are not waited for.
PodsStoppedAtOnce == Step("pods stopping", "stop pusher")

\* Stop of the pod informer waits for its handlers.
PodsStopped == ~pushing /\ Step("pods stopping", "stop pusher")

\* Mistake: the loop is waited for before it is told to end.
StopPusherTooLate == pusher # "running" /\ Step("stop pusher", "pusher stopping")

\* Stop of the event pusher cancels its context, ...
StopPusher == Step("stop pusher", "pusher stopping")

\* ... and waits for its loop, if that has begun (EventPusher).
PusherStopped == pusher # "running" /\ Step("pusher stopping", "stop queue")

StopQueue ==
    /\ GoOn("stop queue", "stop metrics")
    /\ queue' = FALSE
    /\ UNCHANGED <<consumers, next, caught, ready, senderVars, podVars, pusher>>

\* Shutdown of the metrics server, for 5 seconds, and cancel.
StopMetrics == Step("stop metrics", "wait group")

\* All goroutines are done, or 30 seconds passed.
WaitGroup == Fails("wait group")

-----------------------------------------------------------------------------
(* The goroutines.                                                         *)

Others == UNCHANGED <<apiUp, consumers, starts, at, cfg, next, caught, noted, ready,
                      queue,
                      filters, told, enabled, pods>>

SenderReturns ==
    /\ \E i \in running \cap told : running' = running \ {i}
    /\ Others /\ UNCHANGED <<pushing, pusher>>

\* The handler of OnOOMKilled.
Push ==
    /\ pods = "reporting" /\ ~pushing
    /\ pushing' = TRUE
    /\ Others /\ UNCHANGED <<running, pusher>>

\* The loop takes events until it ends, and then Push returns anyway.
PushReturns ==
    /\ pushing
    /\ pushing' = FALSE
    /\ Others /\ UNCHANGED <<running, pusher>>

PusherTold == at \in {"pusher stopping", "stop queue", "stop metrics", "wait group"}

\* Run of the event pusher: its cache is synced, the loop begins, and ends when
\* it has drained the channel.
RunPusher ==
    /\ \/ pusher = "syncing" /\ apiUp /\ pusher' = "spawned"
       \/ pusher = "spawned" /\ pusher' = "running"
       \/ pusher = "running" /\ PusherTold /\ pusher' = "ended"
    /\ Others /\ UNCHANGED <<running, pushing>>

-----------------------------------------------------------------------------
Starting ==
    \/ LoadConfig \/ CreateClient \/ StartMetrics \/ NotifyContext \/ StartQueue
    \/ RegisterQueue \/ StartFilter \/ FilterSynced \/ Subscribe \/ CreateSender \/ Prune
    \/ StartPods \/ PodsSynced \/ StartPusher \/ WaitForStart \/ WatchOOMKills \/ SetReady

Stopping ==
    \/ SignalSeen \/ StopSenders \/ StopFilters \/ StopPods \/ PodsStopped
    \/ StopPusher \/ PusherStopped \/ StopQueue \/ StopMetrics \/ WaitGroup

run == (Starting \/ Stopping) /\ UNCHANGED <<apiUp, starts>>

Next ==
    \/ APIChanges \/ Start \/ Crash \/ Signal
    \/ run
    \/ SenderReturns \/ Push \/ PushReturns \/ RunPusher

Spec == Init /\ [][Next]_vars

\* Goroutines go on.  The API need not answer.
Fairness ==
    /\ WF_vars(run) /\ WF_vars(SenderReturns) /\ WF_vars(PushReturns)
    /\ WF_vars(RunPusher)

FairSpec == Spec /\ Fairness

-----------------------------------------------------------------------------
(* Properties.                                                             *)

\* "The queue only keeps events for existing subscriptions, so this needs to
\* happen before the event pusher starts": while anything can be published,
\* the subscriptions are those of the configured senders, whatever earlier
\* processes left.
SubscribedFirst == pusher # "none" => consumers = Names(cfg)

\* A subscription is only deleted for a sender that is not configured, and
\* when all senders that are have been started: a start that fails on its
\* configuration costs no events.
SubscriptionsKept ==
    [][\A name \in consumers \ consumers' :
            name \notin Names(cfg) /\ running = Indices]_vars

\* "ready once all senders are subscribed and events are watched": until the
\* shutdown each sender runs, with its filter if it has one, on an open queue,
\* the pod informer is synced if and only if someone needs it, and the event
\* pusher has synced.
ReadyMeansServing ==
    ready /\ at = "wait" =>
        /\ queue /\ running = Indices /\ told = {}
        /\ filters = {i \in Indices : cfg.senders[i].selector # "none"}
        /\ pusher \in {"spawned", "running"}
        /\ IF \E i \in Indices : EnablesPods(cfg.senders[i])
           THEN pods \in {"started", "reporting"}
           ELSE pods \in {"off", "reporting"}
        /\ pods = "reporting" <=> cfg.oomKilledEvents

\* "Stop the pod informer before the event pusher, as it pushes OOM killed
\* events": its handler is never in Push when the pusher has not started, or is
\* being stopped and closes its channel.
NoPushAfterStop == pushing => pusher \in {"spawned", "running"} /\ ~PusherTold

\* What the defaults, Validate, StartEventQueue and the factories check, each
\* a part of it, adds up: a configuration that becomes ready is sound.  None of
\* them checks the lifetime of keys and the push timeout.
Sound(c) ==
    /\ c.logLevel \in {"debug", "info", "warn", "error"} /\ c.logFormat \in {"json", "text"}
    /\ c.eventsMaxAge > 0 /\ c.eventsMaxBytes > 0 /\ c.retention > 0
    /\ c.senders # <<>>
    /\ \A i, j \in DOMAIN c.senders : i # j => c.senders[i].name # c.senders[j].name
    /\ \A i \in DOMAIN c.senders : LET s == c.senders[i] IN
        /\ s.name # "" /\ s.type = "loki" /\ s.url /\ s.selector # "invalid"
        /\ s.hook => /\ s.script = "loads"
                     /\ s.onError \in {"", "use-default", "skip", "fail"}

ReadyIsSound == ready => Sound(cfg)

\* A signal that is caught ends the process, even during the startup, unless
\* that waits for the cache of a namespace filter that the API does not answer.
NoAnswer == at = "sync" /\ ~apiUp

SignalEnds == noted ~> at = "off" \/ NoAnswer

\* So does every startup come to an end, in readiness or with an error.
StartupEnds == at = "config" ~> at \in {"off", "wait"} \/ NoAnswer
=============================================================================
