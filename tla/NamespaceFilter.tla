-------------------------- MODULE NamespaceFilter --------------------------
(***************************************************************************)
(* internal/filter: the set of namespaces a sender takes events from, kept *)
(* up to date by an informer.                                              *)
(*                                                                         *)
(* The informer is client-go's, external.  Its reflector lists the         *)
(* namespaces, then watches them; what it reads goes through a queue, one  *)
(* entry per namespace, into the store (`known').  The handlers of the     *)
(* filter are notified after the store has changed, one notification at a  *)
(* time, through an unbounded buffer.  A deletion that only a new list     *)
(* reveals is notified as a tombstone.  The hard refresh of the filter is  *)
(* the resync of the informer: it notifies of the store again.             *)
(*                                                                         *)
(* Bounds: MaxChanges changes of the cluster, MaxBreaks broken watches,    *)
(* MaxRefreshes hard refreshes.                                            *)
(***************************************************************************)
EXTENDS Naturals, Sequences

CONSTANTS Namespaces, MaxChanges, MaxBreaks, MaxRefreshes

ASSUME NamespaceFilterAssumption ==
    MaxChanges \in Nat /\ MaxBreaks \in Nat /\ MaxRefreshes \in Nat

VARIABLES
    cluster,    \* namespace -> whether it exists and matches the selector
    connected,  \* the reflector watches
    queue,      \* namespace -> what the reflector read of it, to be popped
    initial,    \* namespaces of the first list that were not popped yet
    listed,     \* the first list was read
    known,      \* namespace -> its state in the store
    notif,      \* notifications [ns, what] for the handlers
    allowed,    \* allowedNamespaces
    phase,      \* of Start and Stop
    goroutine,  \* of the informer: "none", "spawned", "running" or "returned"
    wg,         \* the wait group of Stop
    changes, breaks, refreshes,
    missed      \* history: namespaces whose last change the watch left out

clusterVars == <<cluster, changes>>
readVars    == <<connected, queue, initial, listed>>
boundVars   == <<breaks, refreshes>>
lifeVars    == <<phase, goroutine, wg>>

vars == <<clusterVars, readVars, known, notif, allowed, lifeVars, boundVars,
          missed>>

States == {"absent", "other", "match"}
Deltas == {"other", "match", "deleted", "tombstone"}

\* The informer runs, and its context is not done.
Running == goroutine = "running" /\ phase \in {"syncing", "started", "failed"}

\* Start returns without an error only after the first list is in the store.
TypeOK ==
    /\ cluster \in [Namespaces -> States] /\ known \in [Namespaces -> States]
    /\ connected \in BOOLEAN /\ listed \in BOOLEAN
    /\ queue \in [Namespaces -> Deltas \cup {"none"}]
    /\ initial \subseteq Namespaces
    /\ notif \in Seq([ns : Namespaces, what : Deltas])
    /\ allowed \subseteq Namespaces
    /\ phase \in {"new", "syncing", "started", "failed", "stopping", "stopped"}
    /\ goroutine \in {"none", "spawned", "running", "returned"} /\ wg \in 0..1
    /\ phase = "started" => listed /\ initial = {}
    /\ changes \in 0..MaxChanges /\ breaks \in 0..MaxBreaks
    /\ refreshes \in 0..MaxRefreshes
    /\ missed \subseteq Namespaces

Init ==
    /\ cluster \in [Namespaces -> States]
    /\ connected = FALSE /\ listed = FALSE /\ initial = {}
    /\ queue = [n \in Namespaces |-> "none"]
    /\ known = [n \in Namespaces |-> "absent"]
    /\ notif = <<>> /\ allowed = {}
    /\ phase = "new" /\ goroutine = "none" /\ wg = 0
    /\ changes = 0 /\ breaks = 0 /\ refreshes = 0
    /\ missed = {}

-----------------------------------------------------------------------------
(* The cluster and the informer.                                           *)

\* A namespace is created, deleted or labelled anew.
Change(n) ==
    /\ changes < MaxChanges /\ changes' = changes + 1
    /\ \E x \in States \ {cluster[n]} : cluster' = [cluster EXCEPT ![n] = x]
    /\ missed' = missed \ {n}
    /\ UNCHANGED <<readVars, known, notif, allowed, lifeVars, boundVars>>

StateOf(what) == IF what \in {"other", "match"} THEN what ELSE "absent"

\* What the reflector last read of n.
Seen(n) == IF queue[n] = "none" THEN known[n] ELSE StateOf(queue[n])

\* The list, at the start and after the watch broke: every namespace is
\* read, and those gone since are found out.
List ==
    /\ Running /\ ~connected
    /\ connected' = TRUE /\ listed' = TRUE
    /\ queue' = [n \in Namespaces |->
                    IF cluster[n] # "absent" THEN cluster[n]
                    ELSE IF Seen(n) # "absent" THEN "tombstone" ELSE queue[n]]
    /\ initial' = IF listed THEN initial
                  ELSE {n \in Namespaces : cluster[n] # "absent"}
    /\ missed' = {}
    /\ UNCHANGED <<clusterVars, known, notif, allowed, lifeVars, boundVars>>

\* The watch tells of a change.
Watch(n) ==
    /\ Running /\ connected /\ n \notin missed
    /\ Seen(n) # cluster[n]
    /\ queue' = [queue EXCEPT ![n] =
                    IF cluster[n] = "absent" THEN "deleted" ELSE cluster[n]]
    /\ UNCHANGED <<clusterVars, connected, initial, listed, known, notif,
                   allowed, lifeVars, boundVars, missed>>

\* The watch leaves a change out.
Miss(n) ==
    /\ Running /\ connected /\ n \notin missed
    /\ Seen(n) # cluster[n]
    /\ missed' = missed \cup {n}
    /\ UNCHANGED <<clusterVars, readVars, known, notif, allowed, lifeVars, boundVars>>

Break ==
    /\ Running /\ connected /\ breaks < MaxBreaks
    /\ connected' = FALSE /\ breaks' = breaks + 1
    /\ UNCHANGED <<clusterVars, queue, initial, listed, known, notif, allowed,
                   lifeVars, refreshes, missed>>

\* An entry of the queue is popped: the store changes, the handlers get a
\* notification.
Pop(n) ==
    /\ Running /\ queue[n] # "none"
    /\ known' = [known EXCEPT ![n] = StateOf(queue[n])]
    /\ notif' = Append(notif, [ns |-> n, what |-> queue[n]])
    /\ queue' = [queue EXCEPT ![n] = "none"]
    /\ initial' = initial \ {n}
    /\ UNCHANGED <<clusterVars, connected, listed, allowed, lifeVars, boundVars,
                   missed>>

\* HardRefreshInterval is the resync period of the informer: the namespaces
\* of the store without a queued entry are queued again.
HardRefresh ==
    /\ Running /\ listed /\ refreshes < MaxRefreshes
    /\ refreshes' = refreshes + 1
    /\ queue' = [n \in Namespaces |->
                    IF queue[n] = "none" /\ known[n] # "absent" THEN known[n]
                    ELSE queue[n]]
    /\ UNCHANGED <<clusterVars, connected, initial, listed, known, notif,
                   allowed, lifeVars, breaks, missed>>

-----------------------------------------------------------------------------
(* The filter.                                                             *)

\* Mistake: handleNamespaceDelete does not look into a tombstone.
HandleNoTombstone ==
    /\ goroutine = "running" /\ notif # <<>>
    /\ notif' = Tail(notif)
    /\ LET h == Head(notif)
       IN  allowed' = CASE h.what = "match" -> allowed \cup {h.ns}
                        [] h.what = "tombstone" -> allowed
                        [] OTHER -> allowed \ {h.ns}
    /\ UNCHANGED <<clusterVars, readVars, known, lifeVars, boundVars, missed>>

\* handleNamespaceChange and handleNamespaceDelete.
Handle ==
    /\ goroutine = "running" /\ notif # <<>>
    /\ notif' = Tail(notif)
    /\ LET h == Head(notif)
       IN  allowed' = IF h.what = "match" THEN allowed \cup {h.ns}
                      ELSE allowed \ {h.ns}
    /\ UNCHANGED <<clusterVars, readVars, known, lifeVars, boundVars, missed>>

\* What a sender is told of an event of namespace n.
IsAllowed(n) == n \in allowed

\* Start counts the goroutine of the informer before it starts it, and waits
\* until the first list is in the store.
Start ==
    /\ phase = "new"
    /\ phase' = "syncing" /\ goroutine' = "spawned" /\ wg' = wg + 1
    /\ UNCHANGED <<clusterVars, readVars, known, notif, allowed, boundVars,
                   missed>>

RunBegins ==
    /\ goroutine = "spawned"
    /\ goroutine' = "running"
    /\ UNCHANGED <<clusterVars, readVars, known, notif, allowed, phase, wg,
                   boundVars, missed>>

\* Mistake: Start does not wait.
SyncUnchecked ==
    /\ phase = "syncing"
    /\ phase' = "started"
    /\ UNCHANGED <<clusterVars, readVars, known, notif, allowed, goroutine, wg,
                   boundVars, missed>>

\* HasSynced: Start returns, and main goes on to start the sender.
Sync ==
    /\ phase = "syncing" /\ listed /\ initial = {}
    /\ phase' = "started"
    /\ UNCHANGED <<clusterVars, readVars, known, notif, allowed, goroutine, wg,
                   boundVars, missed>>

\* The context of Start ends first: an error, the informer is left running.
SyncFails ==
    /\ phase = "syncing"
    /\ phase' = "failed"
    /\ UNCHANGED <<clusterVars, readVars, known, notif, allowed, goroutine, wg,
                   boundVars, missed>>

\* Stop cancels the context of the informer ...
Stop ==
    /\ phase \in {"started", "failed"}
    /\ phase' = "stopping"
    /\ UNCHANGED <<clusterVars, readVars, known, notif, allowed, goroutine, wg,
                   boundVars, missed>>

\* ... whose Run returns; what is still buffered is never handled ...
RunReturns ==
    /\ phase \in {"stopping", "stopped"} /\ goroutine = "running"
    /\ goroutine' = "returned" /\ wg' = wg - 1 /\ notif' = <<>>
    /\ UNCHANGED <<clusterVars, readVars, known, allowed, phase, boundVars, missed>>

\* Mistake: the goroutine counts itself, once it has begun.
StopReturnsEarly ==
    /\ phase = "stopping" /\ (wg = 0 \/ goroutine = "spawned")
    /\ phase' = "stopped"
    /\ UNCHANGED <<clusterVars, readVars, known, notif, allowed, goroutine, wg,
                   boundVars, missed>>

\* ... and waits for it.
StopReturns ==
    /\ phase = "stopping" /\ wg = 0
    /\ phase' = "stopped"
    /\ UNCHANGED <<clusterVars, readVars, known, notif, allowed, goroutine, wg,
                   boundVars, missed>>

-----------------------------------------------------------------------------
Reflector == List \/ Break \/ \E n \in Namespaces : Watch(n) \/ Miss(n)

Next ==
    \/ \E n \in Namespaces : Change(n) \/ Pop(n)
    \/ Reflector \/ HardRefresh \/ Handle
    \/ Start \/ RunBegins \/ Sync \/ SyncFails \/ Stop \/ RunReturns \/ StopReturns

Spec == Init /\ [][Next]_vars

\* The reflector lists again until it succeeds, the API server tells of the
\* changes it does not leave out, the informer and its handlers work on.
Fairness ==
    /\ WF_vars(List) /\ WF_vars(Handle)
    /\ WF_vars(Start) /\ WF_vars(RunBegins) /\ WF_vars(Sync \/ SyncFails)
    /\ WF_vars(RunReturns) /\ WF_vars(StopReturns)
    /\ \A n \in Namespaces : WF_vars(Watch(n)) /\ WF_vars(Pop(n))

FairSpec == Spec /\ Fairness

-----------------------------------------------------------------------------
(* Properties.                                                             *)

Pending(n) == {i \in DOMAIN notif : notif[i].ns = n}

\* The filter follows the store, in order: once the notifications of a
\* namespace are handled it is allowed if and only if it matches, and until
\* then the last one says what the store says.  While the informer runs.
AllowedFollowsStore ==
    goroutine # "returned" =>
        \A n \in Namespaces :
            IF Pending(n) = {} THEN IsAllowed(n) <=> known[n] = "match"
            ELSE \E i \in Pending(n) :
                    /\ \A j \in Pending(n) : j <= i
                    /\ StateOf(notif[i].what) = known[n]

\* Stop "waits for all goroutines to exit", and so for the handlers the informer
\* calls, even when it is called before the goroutine of Start has begun.
StopWaitsForAll == phase = "stopped" => goroutine = "returned"

\* What StopWaitsForAll rests on: a goroutine that has not returned is counted.
LifeInv ==
    /\ goroutine = "none" <=> phase = "new"
    /\ wg = IF goroutine \in {"spawned", "running"} THEN 1 ELSE 0
    /\ goroutine = "returned" => phase \in {"stopping", "stopped"}
    /\ StopWaitsForAll

\* The filter catches up with the cluster after any changes, broken watches
\* and deletions nobody told of, but for a change the watch left out.
FollowsCluster ==
    <>[](\/ phase \in {"stopping", "stopped"}
         \/ \A n \in Namespaces \ missed : IsAllowed(n) <=> cluster[n] = "match")
=============================================================================
