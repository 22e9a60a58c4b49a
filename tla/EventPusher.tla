----------------------------- MODULE EventPusher -----------------------------
(***************************************************************************)
(* internal/eventpusher: from the Event informer and the OOM watcher,      *)
(* through one buffered channel, to PublishEvent; with the part of         *)
(* cmd/kigeon/main.go that starts and stops the pusher.                    *)
(*                                                                         *)
(* Goroutines: Run, publishingLoop, main, and two producers that call      *)
(* enqueue: the handler goroutine of the Event informer ("informer") and   *)
(* that of the pod informer ("oom", through Push).                         *)
(*                                                                         *)
(* client-go is external: `notif' is the unbounded buffer between the      *)
(* informer's store and its handler, the handler takes one notification    *)
(* at a time, HasSynced speaks of the store and not of the handler, and    *)
(* buffered notifications may still be handled after the context ended.    *)
(*                                                                         *)
(* Bounds: MaxVersion versions per Event object, MaxResync resyncs, each   *)
(* OOM kill is observed once.                                              *)
(***************************************************************************)
EXTENDS Naturals, Sequences, FiniteSets

CONSTANTS
    Objects,     \* Event objects of the cluster, by UID
    OomKills,    \* OOM kills the pod informer reports, by their synthetic UID
    None,        \* a producer holds no event
    Capacity,    \* eventChannelBufferSize, 1024 in the code
    MaxVersion,  \* bound: versions of an Event object
    MaxResync    \* bound: resyncs of the informer

ASSUME EventPusherAssumption ==
    /\ Objects \cap OomKills = {}
    /\ None \notin [uid : Objects \cup OomKills, version : Nat]
    /\ Capacity \in Nat \ {0} /\ MaxVersion \in Nat /\ MaxResync \in Nat

VARIABLES
    version,    \* Event object -> its version in the informer's store, 0: absent
    notif,      \* notifications [uid, old, new] the handler has yet to take
    resyncs,
    kills,      \* OOM kills not yet observed
    hand,       \* producer -> the event it is enqueueing, or None
    channel,    \* eventChannel
    closed,     \* close(eventChannel) was called
    cancelled,  \* ep.ctx is done
    run,        \* Run: "new", "syncing", "waiting", "closed", "returned"
    loop,       \* publishingLoop: "none", "spawned", "select", "publishing",
                \*   "draining" (publishing with a context already done), "exited"
    main,       \* main: see the actions of main below
    panicked,   \* producers that sent on the closed channel: the process is gone
    accepted,   \* history: events sent to the channel
    attempted   \* history: events given to PublishEvent

vars == <<version, notif, resyncs, kills, hand, channel, closed, cancelled,
          run, loop, main, panicked, accepted, attempted>>

storeVars    == <<version, notif, resyncs>>
channelVars  == <<channel, closed, panicked, accepted>>
loopVars     == <<loop, attempted>>
shutdownVars == <<cancelled, main>>

Producers == {"informer", "oom"}

\* An event in transit: the UID and the version of the object it was made of.
Event == [uid : Objects \cup OomKills, version : 1..MaxVersion \cup {1}]

Alive == panicked = {} /\ main # "failed"

TypeOK ==
    /\ version \in [Objects -> 0..MaxVersion]
    /\ notif \in Seq([uid : Objects, old : 0..MaxVersion, new : 1..MaxVersion])
    /\ resyncs \in 0..MaxResync
    /\ kills \subseteq OomKills
    /\ hand \in [Producers -> Event \cup {None}]
    /\ channel \in Seq(Event) /\ Len(channel) <= Capacity
    /\ closed \in BOOLEAN /\ cancelled \in BOOLEAN
    /\ run \in {"new", "syncing", "waiting", "closed", "returned"}
    /\ loop \in {"none", "spawned", "select", "publishing", "draining", "exited"}
    /\ main \in {"starting", "failed", "serving", "stoppingPods",
                 "stoppingPusher", "stopped"}
    /\ panicked \subseteq Producers
    /\ accepted \in Seq(Event) /\ attempted \in Seq(Event)

Init ==
    /\ version = [u \in Objects |-> 0]
    /\ notif = <<>> /\ resyncs = 0
    /\ kills = OomKills
    /\ hand = [p \in Producers |-> None]
    /\ channel = <<>> /\ closed = FALSE /\ cancelled = FALSE
    /\ run = "new" /\ loop = "none" /\ main = "starting"
    /\ panicked = {}
    /\ accepted = <<>> /\ attempted = <<>>

-----------------------------------------------------------------------------
(* The informer of client-go, until the context ends.                      *)

Watching == run # "new" /\ ~cancelled

\* The watch or the initial list brings an object, or a version of it.
Observe(u) ==
    /\ Watching /\ version[u] < MaxVersion
    /\ version' = [version EXCEPT ![u] = @ + 1]
    /\ notif' = Append(notif, [uid |-> u, old |-> version[u], new |-> version[u] + 1])
    /\ UNCHANGED <<resyncs, kills, hand, channelVars, loopVars, run, shutdownVars>>

\* The resync notifies of an object of the store again, unchanged.
Resync(u) ==
    /\ Watching /\ version[u] > 0 /\ resyncs < MaxResync
    /\ resyncs' = resyncs + 1
    /\ notif' = Append(notif, [uid |-> u, old |-> version[u], new |-> version[u]])
    /\ UNCHANGED <<version, kills, hand, channelVars, loopVars, run, shutdownVars>>

\* The context ended: the informer throws away what it still buffers.
Discard ==
    /\ cancelled /\ notif # <<>>
    /\ notif' = <<>>
    /\ UNCHANGED <<version, resyncs, kills, hand, channelVars, loopVars, run,
                   shutdownVars>>

-----------------------------------------------------------------------------
(* The handlers.                                                           *)

\* Mistake: UpdateFunc does not compare resource versions.
HandleAlways ==
    /\ notif # <<>> /\ hand["informer"] = None
    /\ notif' = Tail(notif)
    /\ hand' = [hand EXCEPT !["informer"] =
                    [uid |-> Head(notif).uid, version |-> Head(notif).new]]
    /\ UNCHANGED <<version, resyncs, kills, channelVars, loopVars, run, shutdownVars>>

\* Mistake: AddFunc leaves an object to the updates that follow.
HandleUpdates ==
    /\ notif # <<>> /\ hand["informer"] = None
    /\ notif' = Tail(notif)
    /\ LET n == Head(notif)
       IN  hand' = IF n.old \notin {0, n.new}
                   THEN [hand EXCEPT !["informer"] = [uid |-> n.uid, version |-> n.new]]
                   ELSE hand
    /\ UNCHANGED <<version, resyncs, kills, channelVars, loopVars, run, shutdownVars>>

\* AddFunc (old = 0) and UpdateFunc: an unchanged resource version is not
\* enqueued.
Handle ==
    /\ notif # <<>> /\ hand["informer"] = None
    /\ notif' = Tail(notif)
    /\ LET n == Head(notif)
       IN  hand' = IF n.old # n.new
                   THEN [hand EXCEPT !["informer"] = [uid |-> n.uid, version |-> n.new]]
                   ELSE hand
    /\ UNCHANGED <<version, resyncs, kills, channelVars, loopVars, run, shutdownVars>>

\* OnOOMKilled calls Push, from main's registration until the pod informer
\* has stopped.
Push(k) ==
    /\ main \in {"serving", "stoppingPods"} /\ hand["oom"] = None
    /\ k \in kills
    /\ kills' = kills \ {k}
    /\ hand' = [hand EXCEPT !["oom"] = [uid |-> k, version |-> 1]]
    /\ UNCHANGED <<storeVars, channelVars, loopVars, run, shutdownVars>>

\* Mistake: the channel is an unbounded slice.
SendUnbounded(p) ==
    /\ hand[p] # None
    /\ ~closed
    /\ channel' = Append(channel, hand[p])
    /\ accepted' = Append(accepted, hand[p])
    /\ hand' = [hand EXCEPT ![p] = None]
    /\ UNCHANGED <<storeVars, kills, closed, panicked, loopVars, run, shutdownVars>>

\* enqueue: the send case of its select.
Send(p) ==
    /\ hand[p] # None
    /\ ~closed /\ Len(channel) < Capacity
    /\ channel' = Append(channel, hand[p])
    /\ accepted' = Append(accepted, hand[p])
    /\ hand' = [hand EXCEPT ![p] = None]
    /\ UNCHANGED <<storeVars, kills, closed, panicked, loopVars, run, shutdownVars>>

\* A send on a closed channel is ready too, and panics.
SendOnClosed(p) ==
    /\ hand[p] # None /\ closed
    /\ panicked' = panicked \cup {p}
    /\ UNCHANGED <<storeVars, kills, hand, channel, closed, accepted, loopVars,
                   run, shutdownVars>>

\* enqueue: the ctx.Done case drops the event.
Drop(p) ==
    /\ hand[p] # None /\ cancelled
    /\ hand' = [hand EXCEPT ![p] = None]
    /\ UNCHANGED <<storeVars, kills, channelVars, loopVars, run, shutdownVars>>

-----------------------------------------------------------------------------
(* Run.                                                                    *)

\* The handler is registered and the informer started.
Register ==
    /\ run = "new"
    /\ run' = "syncing"
    /\ UNCHANGED <<storeVars, kills, hand, channelVars, loopVars, shutdownVars>>

\* Mistake: waiting until the handler has seen the initial list.
SyncHandled ==
    /\ run = "syncing" /\ ~cancelled
    /\ notif = <<>> /\ hand["informer"] = None
    /\ run' = "waiting" /\ loop' = "spawned"
    /\ UNCHANGED <<storeVars, kills, hand, channelVars, attempted, shutdownVars>>

\* WaitForCacheSync returns, the loop is spawned and the start signalled.
Sync ==
    /\ run = "syncing" /\ ~cancelled
    /\ run' = "waiting" /\ loop' = "spawned"
    /\ UNCHANGED <<storeVars, kills, hand, channelVars, attempted, shutdownVars>>

\* Mistake: Run returns on the cancellation and leaves the channel open.
CloseForgotten ==
    /\ run = "waiting" /\ cancelled
    /\ run' = "closed"
    /\ UNCHANGED <<storeVars, kills, hand, channelVars, loopVars, shutdownVars>>

Close ==
    /\ run = "waiting" /\ cancelled
    /\ run' = "closed" /\ closed' = TRUE
    /\ UNCHANGED <<storeVars, kills, hand, channel, panicked, accepted, loopVars,
                   shutdownVars>>

\* The WaitGroup counts the loop from its first statement, not from `go'.
WaitGroupZero == loop \notin {"select", "publishing", "draining"}

RunReturns ==
    /\ run = "closed" /\ WaitGroupZero
    /\ run' = "returned"
    /\ UNCHANGED <<storeVars, kills, hand, channelVars, loopVars, shutdownVars>>

-----------------------------------------------------------------------------
(* publishingLoop.  Its ctx.Done case only logs: no state changes.         *)

LoopStarts ==
    /\ loop = "spawned"
    /\ loop' = "select"
    /\ UNCHANGED <<storeVars, kills, hand, channelVars, attempted, run, shutdownVars>>

\* An event is taken from the channel and given to PublishEvent, whose
\* context derives from that of the pusher: once cancelled, it can only fail.
Receive ==
    /\ loop = "select" /\ channel # <<>>
    /\ channel' = Tail(channel)
    /\ attempted' = Append(attempted, Head(channel))
    /\ loop' = IF cancelled THEN "draining" ELSE "publishing"
    /\ UNCHANGED <<storeVars, kills, hand, closed, panicked, accepted, run, shutdownVars>>

\* PublishEvent returns, within pushTimeout; an error is only logged.
Published ==
    /\ loop \in {"publishing", "draining"}
    /\ loop' = "select"
    /\ UNCHANGED <<storeVars, kills, hand, channelVars, attempted, run, shutdownVars>>

\* Mistake: the ctx.Done case ends the loop.
LoopExitsOnCancel ==
    /\ loop = "select" /\ cancelled
    /\ loop' = "exited"
    /\ UNCHANGED <<storeVars, kills, hand, channelVars, attempted, run, shutdownVars>>

\* A closed channel is received from until it is empty.
LoopExits ==
    /\ loop = "select" /\ closed /\ channel = <<>>
    /\ loop' = "exited"
    /\ UNCHANGED <<storeVars, kills, hand, channelVars, attempted, run, shutdownVars>>

-----------------------------------------------------------------------------
(* main.                                                                   *)

\* WaitForStart returns; OOM kills are watched from here on.
Serve ==
    /\ main = "starting" /\ run \in {"waiting", "closed", "returned"}
    /\ main' = "serving"
    /\ UNCHANGED <<storeVars, kills, hand, channelVars, loopVars, run, cancelled>>

\* WaitForStart times out and the process ends.
StartTimesOut ==
    /\ main = "starting"
    /\ main' = "failed"
    /\ UNCHANGED <<storeVars, kills, hand, channelVars, loopVars, run, cancelled>>

\* The shutdown begins; the pod informer is told to stop first.
StopPods ==
    /\ main = "serving"
    /\ main' = "stoppingPods"
    /\ UNCHANGED <<storeVars, kills, hand, channelVars, loopVars, run, cancelled>>

\* Mistake: the pusher is stopped without waiting for the pod informer.
CancelEarly ==
    /\ main = "stoppingPods"
    /\ cancelled' = TRUE /\ main' = "stoppingPusher"
    /\ UNCHANGED <<storeVars, kills, hand, channelVars, loopVars, run>>

\* The pod informer's handler has returned; Stop cancels the context.
Cancel ==
    /\ main = "stoppingPods" /\ hand["oom"] = None
    /\ cancelled' = TRUE /\ main' = "stoppingPusher"
    /\ UNCHANGED <<storeVars, kills, hand, channelVars, loopVars, run>>

\* Mistake: Stop cancels and does not wait.
StopReturnsAtOnce ==
    /\ main = "stoppingPusher"
    /\ main' = "stopped"
    /\ UNCHANGED <<storeVars, kills, hand, channelVars, loopVars, run, cancelled>>

\* Stop returns, the event queue is stopped next.
StopReturns ==
    /\ main = "stoppingPusher" /\ WaitGroupZero
    /\ main' = "stopped"
    /\ UNCHANGED <<storeVars, kills, hand, channelVars, loopVars, run, cancelled>>

-----------------------------------------------------------------------------
Informer == Discard \/ \E u \in Objects : Observe(u) \/ Resync(u)
Enqueue(p) == Send(p) \/ SendOnClosed(p) \/ Drop(p)
Run == Register \/ Sync \/ Close \/ RunReturns
PublishingLoop == LoopStarts \/ Receive \/ Published \/ LoopExits
Main == Serve \/ StartTimesOut \/ StopPods \/ Cancel \/ StopReturns

Next ==
    /\ Alive
    /\ \/ Informer
       \/ Handle
       \/ \E k \in OomKills : Push(k)
       \/ \E p \in Producers : Enqueue(p)
       \/ Run \/ PublishingLoop \/ Main

Spec == Init /\ [][Next]_vars

\* Every goroutine that can take a step takes it eventually; the context of
\* a publication bounds it by pushTimeout.  The cluster, a timeout of the
\* start and the signal to stop are left to chance.
Fairness ==
    /\ WF_vars(Alive /\ Handle)
    /\ \A p \in Producers : WF_vars(Alive /\ Enqueue(p))
    /\ WF_vars(Alive /\ Run) /\ WF_vars(Alive /\ PublishingLoop)
    /\ WF_vars(Alive /\ (Serve \/ Cancel \/ StopReturns))

FairSpec == Spec /\ Fairness

-----------------------------------------------------------------------------
(* Properties.                                                             *)

\* The channel neither loses, repeats nor reorders: what producers sent is
\* what the loop gave to PublishEvent and what it has still to receive; a
\* loop that exited left nothing behind.
NothingLostInChannel ==
    /\ accepted = attempted \o channel
    /\ loop = "exited" => channel = <<>>

\* A process publishes each version of an Event object at most once, in
\* order, however often the informer resyncs (UpdateFunc).
VersionsOnceInOrder ==
    \A i, j \in DOMAIN attempted :
        i < j /\ attempted[i].uid = attempted[j].uid =>
            attempted[i].version < attempted[j].version

\* "It must not be called after Stop": main never lets Push meet the closed
\* channel, for the pod informer is stopped before the pusher.
PushNeverAfterStop == hand["oom"] # None => ~cancelled

\* Until the shutdown begins, no version of an Event object the informer saw
\* is lost, from its store through the handler and enqueue to PublishEvent:
\* it waits for the handler, is being enqueued or is past the send.
EveryVersionAccounted ==
    ~cancelled =>
        \A u \in Objects : \A v \in 1..version[u] :
            \/ \E i \in DOMAIN notif :
                   notif[i].uid = u /\ notif[i].new = v /\ notif[i].old # v
            \/ hand["informer"] = [uid |-> u, version |-> v]
            \/ \E i \in DOMAIN accepted : accepted[i] = [uid |-> u, version |-> v]

\* main stops the event queue once Stop has returned.  No publication that
\* may still store its event is under way then, although Stop may miss a
\* loop that has yet to start: what such a loop takes is only drained.
QueueOutlivesPublications == main = "stopped" => loop # "publishing"

\* Shutdown ends: main comes back from the pod informer and from Stop,
\* whatever the producers and the loop are doing.
ShutdownEnds == main = "stoppingPods" ~> main = "stopped" \/ ~Alive

\* Every event in the channel is given to PublishEvent, also on shutdown.
AcceptedIsAttempted ==
    \A n \in 1..(MaxVersion * Cardinality(Objects) + Cardinality(OomKills)) :
        Len(accepted) >= n ~> Len(attempted) >= n \/ ~Alive

\* While kigeon runs, what the informer observes is given to PublishEvent,
\* however long the channel was full.  So the start cannot depend on the
\* handlers either: an initial list longer than the channel does not keep the
\* loop that drains it from being started.
ObservedIsAttempted ==
    \A u \in Objects, v \in 1..MaxVersion :
        version[u] >= v ~>
            \/ \E i \in DOMAIN attempted : attempted[i] = [uid |-> u, version |-> v]
            \/ main \notin {"starting", "serving"} \/ ~Alive

\* The comment on enqueue says of its ctx.Done case that it "wins over
\* writing to a closed channel".  It does not hold: both cases are ready,
\* and the select picks either.
NeverSendsOnClosed == panicked = {}
=============================================================================
