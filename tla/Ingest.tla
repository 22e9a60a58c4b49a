------------------------------- MODULE Ingest -------------------------------
(***************************************************************************)
(* From the cluster to the stream across restarts: which OOM kills the pod *)
(* informer reports (internal/pods/informer.go: OnOOMKilled, oom.go), and  *)
(* what becomes of them and of Event objects in the event pusher and       *)
(* PublishEvent, with a clock.  main passes one duration as the maxAge of  *)
(* OOM kills and as the lifetime of deduplication keys.                    *)
(*                                                                         *)
(* One container is modelled: handlers compare the statuses of one pod,    *)
(* and the UID of a synthetic event is that of the terminated instance.    *)
(* The bounded channel, the goroutines around it and the three calls of    *)
(* PublishEvent under timeouts are those of EventPusher and EventQueue;    *)
(* here a process simply ends, by a crash or a shutdown, which publishes   *)
(* what it drains under a context already done.                            *)
(*                                                                         *)
(* Bounds: MaxTime units of time, MaxStarts starts of kigeon; MaxItems  *)
(* kills and Event objects happen, each once.                              *)
(***************************************************************************)
EXTENDS Naturals, Sequences, FiniteSets

CONSTANTS
    Kills,      \* OOM kills of the container, by the terminated instance
    Objects,    \* Event objects, by UID
    None,       \* no kill, no event
    MaxAge,     \* maxAge of OnOOMKilled
    Lifetime,   \* KubernetesEventsMaxLifetime
    MaxTime,    \* bound: time
    MaxStarts,  \* bound: starts of kigeon
    MaxItems    \* bound: OOM kills and Event objects that happen

Items == Kills \cup Objects

ASSUME IngestAssumption ==
    /\ Kills \cap Objects = {} /\ None \notin Items
    /\ MaxAge \in Nat /\ Lifetime \in Nat /\ MaxAge <= Lifetime
    /\ MaxTime \in Nat \ {0} /\ MaxStarts \in Nat /\ MaxItems \in Nat

VARIABLES
    now,
    born,      \* OOM kill -> when the container was killed, 0: not yet
    status,    \* the status of the container
    events,    \* Event object -> "new", "shown" by the cluster, or "gone"
    starts,
    up,        \* kigeon runs
    pending,   \* statuses the pod informer's handler has yet to see
    old,       \* the one it saw last, oldPod of the next update
    listed,    \* Event objects the Event informer has handled in this process
    reports,   \* history: OOM kill -> how often this process reported it, at most 2
    channel,   \* eventChannel: events [item, checked]
    hand,      \* the event PublishEvent is at, see below
    key,       \* the bucket: item -> when its key was written, 0: never
    stored,    \* history: items the stream has got
    failed     \* history: items this process failed to publish

vars == <<now, born, status, events, starts, up, pending, old, listed, reports,
          channel, hand, key, stored, failed>>

clusterVars == <<now, born, status, events>>
informerVars == <<pending, old, listed, reports>>
queueVars == <<key, stored>>

\* State and LastTerminationState, where an OOM kill terminated the container.
Status == [state : Kills \cup {None}, last : Kills \cup {None}]

Blank == [state |-> None, last |-> None]

\* When the event was handled, and where PublishEvent is with it.
Entry == [item : Items, checked : 1..MaxTime]
Calls == [item : Items, checked : 1..MaxTime, at : {"get", "publish", "put"},
          got : 0..MaxTime]

TypeOK ==
    /\ now \in 1..MaxTime
    /\ born \in [Kills -> 0..now]
    /\ status \in Status /\ pending \in Seq(Status) /\ old \in Status
    /\ events \in [Objects -> {"new", "shown", "gone"}] /\ listed \subseteq Objects
    /\ starts \in 0..MaxStarts /\ up \in BOOLEAN
    /\ reports \in [Kills -> 0..2]
    /\ channel \in Seq(Entry)
    /\ hand \in Calls \cup {None}
    /\ key \in [Items -> 0..now]
    /\ stored \subseteq Items /\ failed \subseteq Items

Init ==
    /\ now = 1 /\ born = [k \in Kills |-> 0]
    /\ status = Blank /\ events = [o \in Objects |-> "new"]
    /\ starts = 0 /\ up = FALSE
    /\ pending = <<>> /\ old = Blank /\ listed = {} /\ reports = [k \in Kills |-> 0]
    /\ channel = <<>> /\ hand = None
    /\ key = [i \in Items |-> 0] /\ stored = {} /\ failed = {}

-----------------------------------------------------------------------------
(* The cluster.                                                            *)

Tick ==
    /\ now < MaxTime
    /\ now' = now + 1
    /\ UNCHANGED <<born, status, events, starts, up, informerVars, channel,
                   hand, queueVars, failed>>

NewStatus(new) ==
    /\ status' = new
    /\ pending' = IF up THEN Append(pending, new) ELSE pending
    /\ UNCHANGED <<now, events, starts, up, old, listed, reports, channel, hand,
                   queueVars, failed>>

Happened == {k \in Kills : born[k] # 0} \cup {o \in Objects : events[o] # "new"}

Room == Cardinality(Happened) < MaxItems

\* The running container is killed.
OOMKill(k) ==
    /\ Room /\ born[k] = 0 /\ status.state = None
    /\ born' = [born EXCEPT ![k] = now]
    /\ NewStatus([status EXCEPT !.state = k])

\* The kubelet restarts a killed container.
RestartContainer ==
    /\ status.state # None
    /\ NewStatus([state |-> None, last |-> status.state])
    /\ UNCHANGED born

\* The container ends for another reason, or the pod is deleted.
OtherEnd ==
    /\ status # Blank
    /\ NewStatus(Blank)
    /\ UNCHANGED born

\* An Event object appears, and expires in the cluster.
EventShown(o) ==
    /\ Room /\ events[o] = "new"
    /\ events' = [events EXCEPT ![o] = "shown"]
    /\ UNCHANGED <<now, born, status, starts, up, informerVars, channel, hand,
                   queueVars, failed>>

EventGone(o) ==
    /\ events[o] = "shown"
    /\ events' = [events EXCEPT ![o] = "gone"]
    /\ UNCHANGED <<now, born, status, starts, up, informerVars, channel, hand,
                   queueVars, failed>>

-----------------------------------------------------------------------------
(* The process.                                                            *)

\* The informers list anew: the next status handled is the current one or a
\* later one, and it is added and not updated.
Start ==
    /\ ~up /\ starts < MaxStarts
    /\ up' = TRUE /\ starts' = starts + 1
    /\ pending' = <<status>>
    /\ UNCHANGED <<clusterVars, old, listed, reports, channel, hand, queueVars, failed>>

\* A crash or a shutdown: what is in the channel or being published is lost to
\* this process, at whatever call PublishEvent was, with all it has in memory.
Halt ==
    /\ up
    /\ up' = FALSE
    /\ pending' = <<>> /\ old' = Blank /\ listed' = {}
    /\ reports' = [k \in Kills |-> 0]
    /\ channel' = <<>> /\ hand' = None /\ failed' = {}
    /\ UNCHANGED <<clusterVars, starts, queueVars>>

-----------------------------------------------------------------------------
(* The handlers.                                                           *)

\* Mistake: the age of a kill is not looked at.
KilledEver(s, k) == k \in {s.state, s.last}

\* OOMKilledEvents: either state, unless it finished before now - maxAge.
Killed(s, k) ==
    /\ k \in {s.state, s.last}
    /\ now - born[k] <= MaxAge

\* Mistake: the old pod is looked at for its state only.
KnownState(k) == k = old.state

\* notify skips what the old pod reported.
Known(k) == Killed(old, k)

\* Mistake: whatever ended the container is reported.
ReportedAny(s) == <<s.state, s.last>>

\* In the order of the two states.
Reported(s) ==
    LET IfNew(k) == IF k \in Kills /\ Killed(s, k) /\ ~Known(k) THEN <<k>> ELSE <<>>
    IN  IfNew(s.state) \o IfNew(s.last)

\* AddFunc and UpdateFunc of OnOOMKilled, which push; a broken watch leaves out
\* the statuses before the one handled.
HandlePod ==
    /\ up
    /\ \E i \in DOMAIN pending :
        LET new == Reported(pending[i])
        IN  /\ pending' = SubSeq(pending, i + 1, Len(pending))
            /\ old' = pending[i]
            /\ channel' = channel \o [j \in DOMAIN new |->
                                         [item |-> new[j], checked |-> now]]
            /\ reports' = [k \in Kills |->
                              IF (\E j \in DOMAIN new : new[j] = k) /\ reports[k] < 2
                              THEN reports[k] + 1 ELSE reports[k]]
    /\ UNCHANGED <<clusterVars, starts, up, listed, hand, queueVars, failed>>

\* AddFunc of the Event informer; a resync is ignored (EventPusher).
HandleEvent(o) ==
    /\ up /\ events[o] = "shown" /\ o \notin listed
    /\ listed' = listed \cup {o}
    /\ channel' = Append(channel, [item |-> o, checked |-> now])
    /\ UNCHANGED <<clusterVars, starts, up, pending, old, reports, hand, queueVars,
                   failed>>

-----------------------------------------------------------------------------
(* publishingLoop and PublishEvent.                                        *)

Receive ==
    /\ up /\ hand = None /\ channel # <<>>
    /\ channel' = Tail(channel)
    /\ hand' = [item |-> Head(channel).item, checked |-> Head(channel).checked,
                at |-> "get", got |-> 0]
    /\ UNCHANGED <<clusterVars, starts, up, informerVars, queueVars, failed>>

At(stage) == up /\ hand # None /\ hand.at = stage

PublishReturns ==
    /\ hand' = None
    /\ UNCHANGED <<clusterVars, starts, up, informerVars, channel>>

\* The key is there until it expires.
Get ==
    /\ At("get")
    /\ IF key[hand.item] # 0 /\ now < key[hand.item] + Lifetime
       THEN PublishReturns
       ELSE /\ hand' = [hand EXCEPT !.at = "publish", !.got = now]
            /\ UNCHANGED <<clusterVars, starts, up, informerVars, channel>>
    /\ UNCHANGED <<queueVars, failed>>

\* Mistake: the key is written before the event is published.
PublishAfterKey ==
    /\ At("publish")
    /\ IF key[hand.item] = now
       THEN stored' = stored \cup {hand.item} /\ PublishReturns /\ UNCHANGED key
       ELSE /\ key' = [key EXCEPT ![hand.item] = now]
            /\ UNCHANGED <<clusterVars, starts, up, informerVars, channel, hand, stored>>
    /\ UNCHANGED failed

Publish ==
    /\ At("publish")
    /\ stored' = stored \cup {hand.item}
    /\ hand' = [hand EXCEPT !.at = "put"]
    /\ UNCHANGED <<clusterVars, starts, up, informerVars, channel, key, failed>>

\* The duplicate window still remembers an event that was stored.
PublishDuplicate ==
    /\ At("publish") /\ hand.item \in stored
    /\ PublishReturns
    /\ UNCHANGED <<queueVars, failed>>

\* An error of Get or Publish, logged by the loop.  Publish may have stored the
\* event although its answer did not come in time.
PublishFails ==
    /\ At("get") \/ At("publish")
    /\ failed' = failed \cup {hand.item}
    /\ \/ UNCHANGED stored
       \/ At("publish") /\ stored' = stored \cup {hand.item}
    /\ PublishReturns
    /\ UNCHANGED key

\* The key is written, or that fails and is only a warning.
Put ==
    /\ At("put")
    /\ \/ key' = [key EXCEPT ![hand.item] = now]
       \/ UNCHANGED key
    /\ PublishReturns
    /\ UNCHANGED <<stored, failed>>

-----------------------------------------------------------------------------
Cluster ==
    \/ Tick \/ RestartContainer \/ OtherEnd
    \/ \E k \in Kills : OOMKill(k)
    \/ \E o \in Objects : EventShown(o) \/ EventGone(o)

PublishingLoop ==
    Receive \/ Get \/ Publish \/ PublishDuplicate \/ PublishFails \/ Put

Next ==
    \/ Cluster \/ Start \/ Halt
    \/ HandlePod \/ \E o \in Objects : HandleEvent(o)
    \/ PublishingLoop

Spec == Init /\ [][Next]_vars

\* The handlers and the publishing loop go on while kigeon runs, and kigeon is
\* started again whenever it ended; the cluster and the clock are left to chance.
Fairness ==
    /\ WF_vars(HandlePod) /\ \A o \in Objects : WF_vars(HandleEvent(o))
    /\ WF_vars(PublishingLoop) /\ WF_vars(Start)

FairSpec == Spec /\ Fairness

-----------------------------------------------------------------------------
(* Properties.                                                             *)

\* "For updated pods, fn is only called for new OOM kills": one process reports
\* a kill once, while it moves through the status of the container.
ReportedOnce == \A k \in Kills : reports[k] <= 1

\* A kill whose key was written is published again only if its event waited
\* for PublishEvent, from the check of its age to the lookup of the key, at
\* least as long as the key was written after the kill: maxAge is not longer
\* than the lifetime of keys.
RepublishedOnlyLate ==
    At("publish") /\ hand.item \in Kills /\ key[hand.item] # 0
        => hand.got - hand.checked >= key[hand.item] - born[hand.item]

\* What the cluster shows is stored in the end, whatever an earlier process
\* dropped, failed to publish or left half published: unless the cluster stops
\* showing it, it grows too old, or this very process failed to publish it.
Showing(i) ==
    \/ i \in Objects /\ events[i] = "shown"
    \/ i \in Kills /\ Killed(status, i)

EventuallyStored ==
    \A i \in Items :
        up /\ Showing(i) ~> i \in stored \/ ~Showing(i) \/ i \in failed \/ ~up
=============================================================================
