------------------------------- MODULE Kigeon -------------------------------
(***************************************************************************)
(* kigeon from the cluster to the senders: the event pusher on top of the  *)
(* event queue, as run in cmd/kigeon/main.go puts them together.           *)
(* PublishEvent, which EventQueue lets come at any time and for any event, *)
(* is here the call of publishingLoop for the event it received; and the   *)
(* pusher of EventPusher, which lives once, is started by every process    *)
(* after the queue has its subscriptions, and ends with it.                *)
(* Once it has panicked or failed to start, no other step is left.         *)
(*                                                                         *)
(* The versions of an Event object are those the informer of this process  *)
(* saw.  Which Count each of them has, and so which identifier, is chosen  *)
(* anew for every process.                                                 *)
(***************************************************************************)
EXTENDS EventQueue

CONSTANTS Objects, OomKills, None, Capacity, MaxVersion, MaxResync

VARIABLES
    version, notif, resyncs, kills, hand, channel, closed, cancelled, run,
    loop, main, panicked, accepted, attempted,  \* of EventPusher
    ident,   \* version of an Event object -> its identifier
    failed   \* history: events of this process whose publication failed

Pusher == INSTANCE EventPusher

ASSUME KigeonAssumption ==
    /\ Objects \cap OomKills = {}
    /\ None \notin [uid : Objects \cup OomKills, version : Nat]
    /\ Capacity \in Nat \ {0} /\ MaxVersion \in Nat /\ MaxResync \in Nat
    /\ Events \subseteq [uid : Objects \cup OomKills, count : Nat]

pusherVars == <<version, notif, resyncs, kills, hand, channel, closed, cancelled,
                run, loop, main, panicked, accepted, attempted>>
kigeonVars == <<vars, pusherVars, ident, failed>>

\* eventIdentifier: updates of an Event object may leave its Count alone.
Idents == {f \in [Pusher!Event -> Events] : \A x \in Pusher!Event : f[x].uid = x.uid}

KigeonInit ==
    /\ Init
    /\ Pusher!Init
    /\ ident \in Idents
    /\ failed = {}

-----------------------------------------------------------------------------
(* The pusher runs in a process whose queue is started.                    *)

Running == phase = "running" /\ Pusher!Alive

\* Informers, handlers, enqueue, Run and main, and the loop between two
\* publications.
Intake ==
    /\ Running
    /\ \/ Pusher!Informer \/ Pusher!Handle
       \/ \E k \in OomKills : Pusher!Push(k)
       \/ \E p \in Pusher!Producers : Pusher!Enqueue(p)
       \/ Pusher!Run \/ Pusher!LoopStarts \/ Pusher!LoopExits \/ Pusher!Main
    /\ UNCHANGED <<vars, ident, failed>>

\* publishingLoop receives an event and calls PublishEvent, which begins with
\* KV Get: the key is missing, or there, or the call fails, as it does under
\* a context already cancelled.
Receive ==
    /\ Running
    /\ Pusher!Receive
    /\ LET e == ident[Head(channel)]
       IN  \/ ~cancelled /\ Get(e) /\ UNCHANGED failed
           \/ ~cancelled /\ e \in kv /\ UNCHANGED <<vars, failed>>
           \/ failed' = failed \cup {e} /\ UNCHANGED vars
    /\ UNCHANGED ident

\* The other calls of PublishEvent.
Publishing ==
    /\ Running
    /\ \/ /\ Publish \/ PublishUnanswered \/ PublishDuplicate \/ Put \/ PutFails
          /\ UNCHANGED failed
       \/ PublishFails /\ failed' = failed \cup {ev}
    /\ UNCHANGED <<pusherVars, ident>>

\* PublishEvent has returned.
Published ==
    /\ Running
    /\ pc = "idle"
    /\ Pusher!Published
    /\ UNCHANGED <<vars, ident, failed>>

\* The start of the process, the senders, and the limits of the queue.
QueueStep ==
    /\ Pusher!Alive
    /\ \/ Start \/ Serve \/ Evict
       \/ \E s \in Senders : Subscribe(s) \/ Prune(s) \/ Consume(s)
       \/ \E e \in Events : ExpireKey(e) \/ LapseWindow(e)
    /\ UNCHANGED <<pusherVars, ident, failed>>

\* The process ends: by a crash, a failed start, a panic, or as main, back
\* from Stop of the pusher, stops the queue.
End ==
    /\ Halt
    /\ version' = [u \in Objects |-> 0] /\ notif' = <<>> /\ resyncs' = 0
    /\ kills' = OomKills
    /\ hand' = [p \in Pusher!Producers |-> None]
    /\ channel' = <<>> /\ closed' = FALSE /\ cancelled' = FALSE
    /\ run' = "new" /\ loop' = "none" /\ main' = "starting"
    /\ panicked' = {}
    /\ accepted' = <<>> /\ attempted' = <<>>
    /\ ident' \in Idents
    /\ failed' = {}

-----------------------------------------------------------------------------
KigeonNext ==
    Intake \/ Receive \/ Publishing \/ Published \/ QueueStep \/ End

KigeonSpec == KigeonInit /\ [][KigeonNext]_kigeonVars

-----------------------------------------------------------------------------
(* Properties.                                                             *)

Open == Running /\ ~cancelled

\* Versions the handlers will enqueue, from the notifications of q.
Changes(q) ==
    {[uid |-> q[i].uid, version |-> q[i].new] :
        i \in {j \in DOMAIN q : q[j].old # q[j].new}}

\* Those, the versions enqueue holds, and those in the channel.
UnderWay ==
    Changes(notif) \cup ({hand[p] : p \in Pusher!Producers} \ {None})
    \cup Range(channel)

Pending == {ident[x] : x \in UnderWay} \cup (IF pc = "publish" THEN {ev} ELSE {})

Shipped == INSTANCE Shipping WITH
    Messages <- Seqs,
    open <- Open,
    pending <- Pending,
    known <- Range(log),
    kept <- stored,
    progress <- [s \in Senders |-> [m \in Seqs |-> Progress(s, m)]]

\* Pusher and queue together implement Shipping: before a stop begins, the
\* ways of an event out of kigeon are the stream, an earlier entry of the
\* stream and an error; and what the stream takes is due to every configured
\* sender.  This crosses the informers, the channel and the three calls of
\* PublishEvent, for versions that share an identifier and across restarts.
Ships == Shipped!ShippingSpec

\* main stops the queue when Stop of the pusher has returned, and Stop may
\* miss a loop that has yet to start.  No PublishEvent is under way then that
\* the stop could cut between Publish and KV Put.
StopCutsNoPublication == main = "stopped" => pc = "idle"

\* Before a stop begins, each version the informer saw is on its way, or its
\* identifier was stored, or its publication failed.
NothingLostSilently ==
    Open => \A u \in Objects : \A v \in 1..version[u] :
        ident[[uid |-> u, version |-> v]] \in Pending \cup Range(log) \cup failed
=============================================================================
