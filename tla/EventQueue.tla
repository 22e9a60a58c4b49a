----------------------------- MODULE EventQueue -----------------------------
(***************************************************************************)
(* internal/eventqueue: the durable queue of kigeon, an embedded NATS      *)
(* JetStream server with one stream, one durable consumer per sender and   *)
(* one key-value bucket, as cmd/kigeon/main.go starts, uses and stops it.  *)
(*                                                                         *)
(*  - The stream is an append-only log.  A sequence number is an index of  *)
(*    log; `stored' holds the sequence numbers still on disk.  Retention   *)
(*    is by interest: a message no consumer needs any more is removed.     *)
(*  - Deduplication has two memories: `kv' (the PROCESSED_UIDS_KV bucket,  *)
(*    entries live KubernetesEventsMaxLifetime) and `window' (the message  *)
(*    ids the server remembers for Duplicates = 2 minutes).                *)
(*  - PublishEvent is three calls to the server: KV Get, Publish, KV Put.  *)
(*    The process may stop, and a call may fail, between any two of them.  *)
(*    Its only caller is the publishing loop of the event pusher, so one   *)
(*    PublishEvent is under way at a time.                                 *)
(*  - A sender fetches one message, works on it and either acknowledges    *)
(*    it or leaves it (eventsender Run loops).  Ack() is not confirmed:    *)
(*    it is in flight until the server handles it, and lost when the       *)
(*    process stops.                                                       *)
(*                                                                         *)
(* Bounds: MaxLog messages are published, the process stops MaxRestarts    *)
(* times.                                                                  *)
(***************************************************************************)
EXTENDS Naturals, Sequences, FiniteSets, Functions

CONSTANTS
    Events,         \* event identifiers: eventIdentifier is <UID>-<Count>
    NoEvent,        \* no PublishEvent is under way
    Senders,        \* names of senders, configured now or in an earlier run
    MaxDeliver,     \* deliveries of a message per consumer, 11 in the code
    MaxAckPending,  \* unacknowledged messages per consumer, 2 in the code
    MaxLog,         \* bound: messages ever published
    MaxRestarts     \* bound: times the process stops

ASSUME EventQueueAssumption ==
    /\ NoEvent \notin Events
    /\ MaxDeliver \in Nat \ {0}
    /\ MaxAckPending \in Nat \ {0}
    /\ MaxLog \in Nat
    /\ MaxRestarts \in Nat

VARIABLES
    \* on disk: these survive a stop of the process
    log,         \* events in publication order
    stored,      \* sequence numbers the stream still holds
    window,      \* message ids in the duplicate window
    kv,          \* keys of the deduplication bucket
    consumers,   \* durable consumers of the stream
    status,      \* consumer -> sequence number -> delivery status
    dcount,      \* consumer -> sequence number -> deliveries, while unacked
    \* in the process
    phase,       \* "down", "starting" or "running"
    cfgd,        \* senders of the configuration the process read
    subscribed,  \* senders Subscribe has returned a fetcher for
    held,        \* sender -> message it works on, 0 if none
    acks,        \* sender -> acknowledgements the server has yet to handle
    pc, ev,      \* the PublishEvent under way: its next call, its event
    restarts,
    \* history
    evicted,     \* messages deleted by EventsMaxAge or EventsMaxBytes
    owed,        \* sender -> messages published while it was configured,
                 \*   less those it acknowledged
                 \* and of the latest copy of an event in the log:
    expired,     \* events whose bucket entry reached its TTL since
    unrecorded,  \* events whose PublishEvent stored it, but never wrote the key
    lapsed       \* events the duplicate window has forgotten since

streamVars   == <<log, stored>>
dedupVars    == <<window, kv>>
consumerVars == <<consumers, status, dcount>>
clientVars   == <<subscribed, held, acks>>
publishVars  == <<pc, ev>>
processVars  == <<phase, cfgd, restarts>>
memoryVars   == <<expired, unrecorded, lapsed>>

vars == <<log, stored, window, kv, consumers, status, dcount, phase, cfgd,
          subscribed, held, acks, pc, ev, restarts, evicted, owed, expired,
          unrecorded, lapsed>>

Seqs == 1..MaxLog

\* "new": never delivered; "pending": delivered, its ack timer runs; "due":
\* its ack timer fired, to be redelivered; "gaveup": not delivered again.
Statuses == {"new", "pending", "due", "acked", "gaveup"}

LogOK ==
    /\ log \in Seq(Events) /\ Len(log) <= MaxLog
    /\ stored \subseteq DOMAIN log /\ evicted \subseteq DOMAIN log

MemoryOK ==
    /\ window \subseteq Events /\ kv \subseteq Events
    /\ expired \subseteq Events /\ unrecorded \subseteq Events
    /\ lapsed \subseteq Events

ConsumerOK ==
    /\ consumers \subseteq Senders
    /\ status \in [Senders -> [Seqs -> Statuses]]
    /\ dcount \in [Senders -> [Seqs -> 0..MaxDeliver]]
    /\ owed \in [Senders -> SUBSET Seqs]

ProcessOK ==
    /\ phase \in {"down", "starting", "running"}
    /\ cfgd \subseteq Senders /\ subscribed \subseteq cfgd
    /\ phase = "down" => subscribed = {}
    /\ held \in [Senders -> {0} \cup Seqs]
    /\ acks \in [Senders -> SUBSET Seqs]
    /\ restarts \in 0..MaxRestarts

PublishOK ==
    /\ pc \in {"idle", "publish", "put"}
    /\ ev \in Events \cup {NoEvent}
    /\ pc = "idle" <=> ev = NoEvent

TypeOK == LogOK /\ MemoryOK /\ ConsumerOK /\ ProcessOK /\ PublishOK

-----------------------------------------------------------------------------
(* The process: run in cmd/kigeon/main.go.                                 *)

Init ==
    /\ log = <<>> /\ stored = {} /\ window = {} /\ kv = {}
    /\ consumers = {}
    /\ status = [s \in Senders |-> [m \in Seqs |-> "new"]]
    /\ dcount = [s \in Senders |-> [m \in Seqs |-> 0]]
    /\ phase = "down" /\ cfgd = {} /\ subscribed = {}
    /\ held = [s \in Senders |-> 0]
    /\ acks = [s \in Senders |-> {}]
    /\ pc = "idle" /\ ev = NoEvent
    /\ restarts = 0
    /\ evicted = {}
    /\ owed = [s \in Senders |-> {}]
    /\ expired = {} /\ unrecorded = {} /\ lapsed = {}

\* StartEventQueue opens the stream, the bucket and the consumers found on
\* disk.  The configuration names at least one sender, any it likes.
Start ==
    /\ phase = "down"
    /\ phase' = "starting"
    /\ \E C \in (SUBSET Senders) \ {{}} : cfgd' = C
    /\ UNCHANGED <<streamVars, dedupVars, consumerVars, clientVars,
                   publishVars, restarts, evicted, owed, memoryVars>>

\* Subscribe creates the durable consumer of a sender or finds it again.  A
\* new one starts at the oldest stored message (DeliverAllPolicy).
Subscribe(s) ==
    /\ phase = "starting"
    /\ s \in cfgd \ subscribed
    /\ subscribed' = subscribed \cup {s}
    /\ consumers' = consumers \cup {s}
    /\ UNCHANGED <<streamVars, dedupVars, status, dcount, held, acks,
                   publishVars, processVars, evicted, owed, memoryVars>>

\* The messages of `stored' a consumer of C still needs: the stream keeps
\* a message while one consumer has neither acknowledged it nor given it up.
Needed(C, st) ==
    {m \in stored : \E s \in C : st[s][m] \notin {"acked", "gaveup"}}

\* PruneConsumers deletes one consumer without a configured sender; with it
\* goes the interest in the messages only this consumer needed.
Prune(s) ==
    /\ phase = "starting" /\ subscribed = cfgd
    /\ s \in consumers \ cfgd
    /\ consumers' = consumers \ {s}
    /\ stored' = Needed(consumers \ {s}, status)
    /\ status' = [status EXCEPT ![s] = [m \in Seqs |-> "new"]]
    /\ dcount' = [dcount EXCEPT ![s] = [m \in Seqs |-> 0]]
    /\ owed' = [owed EXCEPT ![s] = {}]
    /\ UNCHANGED <<log, dedupVars, clientVars, publishVars, processVars,
                   evicted, memoryVars>>

\* Mistake: the event pusher is started before the loop over the senders.
ServeBeforeSubscriptions ==
    /\ phase = "starting"
    /\ consumers \subseteq cfgd
    /\ phase' = "running"
    /\ UNCHANGED <<streamVars, dedupVars, consumerVars, clientVars,
                   publishVars, cfgd, restarts, evicted, owed, memoryVars>>

\* Mistake: subscriptions of removed senders are not pruned.
ServeUnpruned ==
    /\ phase = "starting" /\ subscribed = cfgd
    /\ phase' = "running"
    /\ UNCHANGED <<streamVars, dedupVars, consumerVars, clientVars,
                   publishVars, cfgd, restarts, evicted, owed, memoryVars>>

\* The event pusher is started after every subscription and the pruning.
Serve ==
    /\ phase = "starting" /\ subscribed = cfgd
    /\ consumers \subseteq cfgd
    /\ phase' = "running"
    /\ UNCHANGED <<streamVars, dedupVars, consumerVars, clientVars,
                   publishVars, cfgd, restarts, evicted, owed, memoryVars>>

\* The latest publication of e is still on disk.
LatestStored(e) ==
    \E m \in stored : log[m] = e /\ \A n \in DOMAIN log : log[n] = e => n <= m

\* The process stops: Stop shuts the server down, a crash or a failed start
\* ends it at any point.  Fetched messages, acknowledgements in flight and
\* a PublishEvent under way are gone.  The duplicate window is rebuilt from
\* the messages on disk when the server starts again.
Halt ==
    /\ phase # "down" /\ restarts < MaxRestarts
    /\ phase' = "down" /\ restarts' = restarts + 1
    /\ subscribed' = {} /\ cfgd' = {}
    /\ held' = [s \in Senders |-> 0]
    /\ acks' = [s \in Senders |-> {}]
    /\ pc' = "idle" /\ ev' = NoEvent
    /\ window' = {e \in window : LatestStored(e)}
    /\ lapsed' = lapsed \cup {e \in window : ~LatestStored(e)}
    /\ unrecorded' = unrecorded \cup (IF pc = "put" THEN {ev} ELSE {})
    /\ UNCHANGED <<streamVars, kv, consumerVars, evicted, owed, expired>>

-----------------------------------------------------------------------------
(* PublishEvent, called by the publishing loop.                            *)

PublishReturns == pc' = "idle" /\ ev' = NoEvent

\* Mistake: only the duplicate window is relied on.
GetUnchecked(e) ==
    /\ phase = "running" /\ pc = "idle"
    /\ pc' = "publish" /\ ev' = e
    /\ UNCHANGED <<streamVars, dedupVars, consumerVars, clientVars,
                   processVars, evicted, owed, memoryVars>>

\* Mistake: the key is written before the event is published.
GetThenPut(e) ==
    /\ phase = "running" /\ pc = "idle"
    /\ e \notin kv
    /\ pc' = "put" /\ ev' = e
    /\ UNCHANGED <<streamVars, dedupVars, consumerVars, clientVars,
                   processVars, evicted, owed, memoryVars>>

\* KV Get: an event with a key was published before; PublishEvent returns
\* and nothing changes, as when the call fails.  Otherwise it goes on.
Get(e) ==
    /\ phase = "running" /\ pc = "idle"
    /\ e \notin kv
    /\ pc' = "publish" /\ ev' = e
    /\ UNCHANGED <<streamVars, dedupVars, consumerVars, clientVars,
                   processVars, evicted, owed, memoryVars>>

\* The server appends the event and keeps it if a consumer exists.  Nothing
\* has forgotten this copy yet.
Store ==
    /\ ev \notin window /\ Len(log) < MaxLog
    /\ log' = Append(log, ev)
    /\ stored' = IF consumers = {} THEN stored ELSE stored \cup {Len(log) + 1}
    /\ window' = window \cup {ev}
    /\ owed' = [s \in Senders |-> IF s \in cfgd THEN owed[s] \cup {Len(log) + 1}
                                  ELSE owed[s]]
    /\ expired' = expired \ {ev}
    /\ lapsed' = lapsed \ {ev}

\* Publish: the server stores the message and says so.
Publish ==
    /\ pc = "publish"
    /\ Store
    /\ pc' = "put" /\ ev' = ev
    /\ unrecorded' = unrecorded \ {ev}
    /\ UNCHANGED <<kv, consumerVars, clientVars, processVars, evicted>>

\* Publish fails after the server stored the message: pushTimeout passed
\* before the reply.  PublishEvent returns the error, the key is not written.
PublishUnanswered ==
    /\ pc = "publish"
    /\ Store
    /\ PublishReturns
    /\ unrecorded' = unrecorded \cup {ev}
    /\ UNCHANGED <<kv, consumerVars, clientVars, processVars, evicted>>

\* Publish finds the message id in the window: PublishEvent returns without
\* writing the key.
PublishDuplicate ==
    /\ pc = "publish" /\ ev \in window
    /\ PublishReturns
    /\ UNCHANGED <<streamVars, dedupVars, consumerVars, clientVars,
                   processVars, evicted, owed, memoryVars>>

\* Publish fails before the server stored anything.
PublishFails ==
    /\ pc = "publish"
    /\ PublishReturns
    /\ UNCHANGED <<streamVars, dedupVars, consumerVars, clientVars,
                   processVars, evicted, owed, memoryVars>>

\* KV Put records the event.
Put ==
    /\ pc = "put"
    /\ kv' = kv \cup {ev}
    /\ PublishReturns
    /\ UNCHANGED <<streamVars, window, consumerVars, clientVars, processVars,
                   evicted, owed, memoryVars>>

\* KV Put fails (timeout, cancelled context, bucket full): only a warning.
PutFails ==
    /\ pc = "put"
    /\ PublishReturns
    /\ unrecorded' = unrecorded \cup {ev}
    /\ UNCHANGED <<streamVars, dedupVars, consumerVars, clientVars,
                   processVars, evicted, owed, expired, lapsed>>

-----------------------------------------------------------------------------
(* Fetch and Ack, called by the Run loop of a sender.                      *)

Unacked(s) == {m \in Seqs : status[s][m] \in {"pending", "due"}}

\* Mistake: no MaxDeliver.
RedeliverableForever(s) == {m \in stored : status[s][m] = "due"}

\* What the consumer of s may deliver next: a message whose ack timer
\* fired, else the oldest message it never delivered while fewer than
\* MaxAckPending are unacknowledged.
Redeliverable(s) ==
    {m \in stored : status[s][m] = "due" /\ dcount[s][m] < MaxDeliver}

Fresh(s) ==
    {m \in stored :
        /\ status[s][m] = "new"
        /\ \A n \in stored : status[s][n] = "new" => m <= n
        /\ Cardinality(Unacked(s)) < MaxAckPending}

Deliverable(s) ==
    IF Redeliverable(s) # {} THEN Redeliverable(s) ELSE Fresh(s)

\* Fetch: the message arrives, or is lost (the context of the fetch ended
\* as the server sent it, or its data is no event).  Both are deliveries to
\* the server.  A Fetch that finds nothing changes nothing.
Fetch(s) ==
    /\ s \in subscribed /\ held[s] = 0
    /\ \E m \in Deliverable(s), arrives \in BOOLEAN :
        /\ status' = [status EXCEPT ![s][m] = "pending"]
        /\ dcount' = [dcount EXCEPT ![s][m] = @ + 1]
        /\ held' = [held EXCEPT ![s] = IF arrives THEN m ELSE 0]
    /\ UNCHANGED <<streamVars, dedupVars, consumers, subscribed, acks,
                   publishVars, processVars, evicted, owed, memoryVars>>

\* The sender is done with its message and acknowledges it.
Ack(s) ==
    /\ held[s] # 0
    /\ acks' = [acks EXCEPT ![s] = @ \cup {held[s]}]
    /\ held' = [held EXCEPT ![s] = 0]
    /\ UNCHANGED <<streamVars, dedupVars, consumerVars, subscribed,
                   publishVars, processVars, evicted, owed, memoryVars>>

\* Processing failed: the sender fetches on and leaves the message to its
\* ack timer.
Leave(s) ==
    /\ held[s] # 0
    /\ held' = [held EXCEPT ![s] = 0]
    /\ UNCHANGED <<streamVars, dedupVars, consumerVars, subscribed, acks,
                   publishVars, processVars, evicted, owed, memoryVars>>

\* Mistake: the stream is a work queue, where the first acknowledgement
\* removes a message.
HandleAckOnce(s) ==
    \E m \in acks[s] :
        /\ acks' = [acks EXCEPT ![s] = @ \ {m}]
        /\ IF status[s][m] \in {"pending", "due"}
           THEN /\ status' = [status EXCEPT ![s][m] = "acked"]
                /\ dcount' = [dcount EXCEPT ![s][m] = 0]
                /\ owed' = [owed EXCEPT ![s] = @ \ {m}]
                /\ stored' = stored \ {m}
           ELSE UNCHANGED <<status, dcount, owed, stored>>
        /\ UNCHANGED <<log, dedupVars, consumers, subscribed, held,
                       publishVars, processVars, evicted, memoryVars>>

\* The server handles an acknowledgement.  One that comes after the ack
\* timer but before the redelivery still counts; one for a message given up
\* is ignored.  A message nobody needs any more is removed.
HandleAck(s) ==
    \E m \in acks[s] :
        /\ acks' = [acks EXCEPT ![s] = @ \ {m}]
        /\ IF status[s][m] \in {"pending", "due"}
           THEN /\ status' = [status EXCEPT ![s][m] = "acked"]
                /\ dcount' = [dcount EXCEPT ![s][m] = 0]
                /\ owed' = [owed EXCEPT ![s] = @ \ {m}]
                /\ stored' = stored \ ({m} \ Needed(consumers, status'))
           ELSE UNCHANGED <<status, dcount, owed, stored>>
        /\ UNCHANGED <<log, dedupVars, consumers, subscribed, held,
                       publishVars, processVars, evicted, memoryVars>>

\* Mistake: the BackOff schedule ends before MaxDeliver is reached.
AckTimerOnce(s) ==
    \E m \in Seqs :
        /\ phase # "down"
        /\ status[s][m] = "pending" /\ dcount[s][m] = 1
        /\ status' = [status EXCEPT ![s][m] = "due"]
        /\ UNCHANGED <<streamVars, dedupVars, consumers, dcount, clientVars,
                       publishVars, processVars, evicted, owed, memoryVars>>

\* AckWait or the next BackOff step has passed since the delivery.
AckTimer(s) ==
    \E m \in Seqs :
        /\ phase # "down"
        /\ status[s][m] = "pending"
        /\ status' = [status EXCEPT ![s][m] = "due"]
        /\ UNCHANGED <<streamVars, dedupVars, consumers, dcount, clientVars,
                       publishVars, processVars, evicted, owed, memoryVars>>

\* A message due for redelivery is dropped from the consumer: it was
\* delivered MaxDeliver times, or a limit deleted it from the stream.
GiveUp(s) ==
    \E m \in Seqs :
        /\ phase # "down"
        /\ status[s][m] = "due"
        /\ dcount[s][m] = MaxDeliver \/ m \notin stored
        /\ status' = [status EXCEPT ![s][m] = "gaveup"]
        /\ dcount' = [dcount EXCEPT ![s][m] = 0]
        /\ UNCHANGED <<streamVars, dedupVars, consumers, clientVars,
                       publishVars, processVars, evicted, owed, memoryVars>>

-----------------------------------------------------------------------------
(* Limits of the stream, the bucket and the window.                        *)

\* EventsMaxAge or EventsMaxBytes deletes the oldest message, needed or not.
Evict ==
    \E m \in stored :
        /\ \A n \in stored : m <= n
        /\ stored' = stored \ {m}
        /\ evicted' = evicted \cup {m}
        /\ UNCHANGED <<log, dedupVars, consumerVars, clientVars, publishVars,
                       processVars, owed, memoryVars>>

\* The bucket entry of an event reaches KubernetesEventsMaxLifetime.
ExpireKey(e) ==
    /\ e \in kv
    /\ kv' = kv \ {e}
    /\ expired' = expired \cup {e}
    /\ UNCHANGED <<streamVars, window, consumerVars, clientVars, publishVars,
                   processVars, evicted, owed, unrecorded, lapsed>>

\* A message id leaves the duplicate window.
LapseWindow(e) ==
    /\ e \in window
    /\ window' = window \ {e}
    /\ lapsed' = lapsed \cup {e}
    /\ UNCHANGED <<streamVars, kv, consumerVars, clientVars, publishVars,
                   processVars, evicted, owed, expired, unrecorded>>

-----------------------------------------------------------------------------
PublishEvent ==
    \/ \E e \in Events : Get(e)
    \/ Publish \/ PublishUnanswered \/ PublishDuplicate \/ PublishFails
    \/ Put \/ PutFails

Consume(s) ==
    Fetch(s) \/ Ack(s) \/ Leave(s) \/ HandleAck(s) \/ AckTimer(s) \/ GiveUp(s)

Next ==
    \/ Start \/ Serve \/ Halt
    \/ \E s \in Senders : Subscribe(s) \/ Prune(s)
    \/ PublishEvent
    \/ \E s \in Senders : Consume(s)
    \/ Evict
    \/ \E e \in Events : ExpireKey(e) \/ LapseWindow(e)

Spec == Init /\ [][Next]_vars

\* The process is started again after a stop and main gets through its
\* startup; the Run loop of a sender keeps fetching and settles what it
\* fetched; the server handles acknowledgements and fires ack timers.
\* Nothing makes the cluster produce events, the limits strike or the
\* process stop.
Fairness ==
    /\ WF_vars(Start) /\ WF_vars(Serve)
    /\ \A s \in Senders :
        /\ WF_vars(Subscribe(s)) /\ WF_vars(Prune(s))
        /\ WF_vars(Fetch(s)) /\ WF_vars(Ack(s) \/ Leave(s))
        /\ WF_vars(HandleAck(s)) /\ WF_vars(AckTimer(s)) /\ WF_vars(GiveUp(s))

FairSpec == Spec /\ Fairness

-----------------------------------------------------------------------------
(* Properties.                                                             *)

\* An event is stored again only if both memories have let go of its latest
\* copy: the duplicate window has forgotten it since, AND its entry in the
\* bucket reached the TTL since or was never written by the PublishEvent that
\* stored that copy.  Get, Publish and Put of PublishEvent, across stops at
\* any point; each further copy needs both again.
NoDuplicateStored ==
    [][\A e \in Events :
            log' = Append(log, e) /\ e \in Range(log) =>
                e \in lapsed \cap (expired \cup unrecorded)]_vars

\* What the deduplication remembers was stored: an event PublishEvent skips
\* as published before is never one that was lost.
RememberedWasStored == kv \cup window \subseteq Range(log)

\* A message published while a sender was configured stays in the stream
\* until that sender acknowledged it, whatever restarts and changes of the
\* configuration come between, unless deliveries or a limit ran out or the
\* sender was removed from the configuration.
OwedIsStored ==
    \A s \in Senders : \A m \in owed[s] :
        m \in stored \cup evicted \/ status[s][m] = "gaveup"

\* While events are published, every message in the stream is one that a
\* configured sender has not acknowledged: a removed sender retains nothing.
OnlyUndeliveredRetained ==
    phase = "running" =>
        \A m \in stored : \E s \in cfgd : status[s][m] # "acked"

\* What has become of message m for sender s, as Delivery tells it.
Progress(s, m) ==
    IF status[s][m] = "acked" THEN "settled"
    ELSE IF m \notin owed[s] THEN "none"
    ELSE IF status[s][m] = "gaveup" \/ m \in evicted THEN "lapsed"
    ELSE "due"

Promise == INSTANCE Delivery WITH
    Messages <- Seqs,
    kept <- stored,
    progress <- [s \in Senders |-> [m \in Seqs |-> Progress(s, m)]]

\* The queue implements Delivery: consumers, deliveries, acknowledgements
\* in flight, interest retention, pruning and restarts come to no more than
\* messages that become due, stay kept, and are settled, lapse or end with
\* their sender.
KeepsPromise == Promise!Spec

\* Every message published for a configured sender is eventually
\* acknowledged, given up after MaxDeliver deliveries or deleted by a limit,
\* although failing messages fill the MaxAckPending places: the liveness half
\* of Delivery, under the fairness of FairSpec.
EventuallySettled == Promise!DueEnds

\* The comment on Options.EventsMaxAge: "how long we store (and retry sending
\* for) gathered Kubernetes Events": a stored message is never given up.  It
\* does not hold: MaxDeliver ends the retries long before EventsMaxAge.
RetriedWhileStored ==
    \A s \in Senders : \A m \in stored : status[s][m] # "gaveup"

-----------------------------------------------------------------------------
(* Inductive invariants: TypeInv, and with it DedupInv and RetentionInv.   *)

\* A message never delivered has no deliveries: Fetch stays below MaxDeliver.
NewUndelivered ==
    \A s \in Senders, m \in Seqs : status[s][m] = "new" => dcount[s][m] = 0

TypeInv == TypeOK /\ NewUndelivered

\* Both memories of the deduplication follow the log.  The latest copy of an
\* event is in the window until it lapses, and in the bucket until its key
\* expires unless that was never written or Put is the next call.
DedupInv ==
    /\ \A m \in DOMAIN log :
        /\ log[m] \in window \cup lapsed
        /\ log[m] \in kv \cup expired \cup unrecorded \/ (pc = "put" /\ log[m] = ev)
    /\ \A e \in kv \cup window : \E m \in DOMAIN log : log[m] = e
    /\ pc = "publish" => ev \notin kv
    /\ pc = "put" => \E m \in DOMAIN log : log[m] = ev

\* Who is owed a message has a consumer that has not acknowledged it, and
\* only a message some consumer has not acknowledged is stored.
RetentionInv ==
    /\ subscribed \subseteq consumers
    /\ pc # "idle" => phase = "running"
    /\ phase # "down" => cfgd # {}
    /\ phase = "running" => consumers = cfgd
    /\ \A s \in Senders, m \in Seqs : status[s][m] # "new" => m \in DOMAIN log
    /\ \A s \in Senders : \A m \in owed[s] :
        s \in consumers /\ status[s][m] # "acked"
    /\ \A m \in stored : \E s \in consumers : status[s][m] # "acked"
    /\ OwedIsStored
=============================================================================
