---------------------------- MODULE KigeonProofs ----------------------------
(***************************************************************************)
(* Theorems about Kigeon, for any cluster, channel, senders and number of  *)
(* restarts.  A step of kigeon is a step of the queue and one of the       *)
(* pusher, each in turn or both at once, or the end of a process; so what  *)
(* is proved of each holds of both together, and with what links them they *)
(* implement Shipping.                                                     *)
(*                                                                         *)
(* The pusher is an instance in Kigeon.  Its proofs are instantiated too,  *)
(* and PusherSame says that both instances are of the same module.         *)
(***************************************************************************)
EXTENDS Kigeon, EventQueueProofs

Proved == INSTANCE EventPusherProofs

-----------------------------------------------------------------------------
(* The pusher and the instance its lemmas are about.                       *)

\* The composition's pusher and the one EventPusherProofs is about are the
\* same module over the same variables: their actions are equal.
LEMMA PusherSame ==
    /\ Pusher!Informer => Proved!Informer
    /\ Pusher!Handle => Proved!Handle
    /\ \A k \in OomKills : Pusher!Push(k) => Proved!Push(k)
    /\ \A p \in Pusher!Producers :
        Pusher!Enqueue(p) => p \in Proved!Producers /\ Proved!Enqueue(p)
    /\ Pusher!Run => Proved!Run
    /\ Pusher!PublishingLoop => Proved!PublishingLoop
    /\ Pusher!Main => Proved!Main
  <1> USE DEF Pusher!storeVars, Pusher!channelVars, Pusher!loopVars,
              Pusher!shutdownVars, Proved!storeVars, Proved!channelVars,
              Proved!loopVars, Proved!shutdownVars
  <1>1. Pusher!Informer => Proved!Informer
    BY DEF Pusher!Informer, Pusher!Discard, Pusher!Observe, Pusher!Resync,
           Pusher!Watching, Proved!Informer, Proved!Discard, Proved!Observe,
           Proved!Resync, Proved!Watching
  <1>2. Pusher!Handle => Proved!Handle
    BY DEF Pusher!Handle, Proved!Handle
  <1>3. \A k \in OomKills : Pusher!Push(k) => Proved!Push(k)
    BY DEF Pusher!Push, Proved!Push
  <1>4. \A p \in Pusher!Producers :
            Pusher!Enqueue(p) => p \in Proved!Producers /\ Proved!Enqueue(p)
    BY DEF Pusher!Enqueue, Pusher!Send, Pusher!SendOnClosed, Pusher!Drop,
           Pusher!Producers, Proved!Enqueue, Proved!Send, Proved!SendOnClosed,
           Proved!Drop, Proved!Producers
  <1>5. Pusher!Run => Proved!Run
    BY DEF Pusher!Run, Pusher!Register, Pusher!Sync, Pusher!Close,
           Pusher!RunReturns, Pusher!WaitGroupZero, Proved!Run, Proved!Register,
           Proved!Sync, Proved!Close, Proved!RunReturns, Proved!WaitGroupZero
  <1>6. Pusher!PublishingLoop => Proved!PublishingLoop
    BY DEF Pusher!PublishingLoop, Pusher!LoopStarts, Pusher!Receive,
           Pusher!Published, Pusher!LoopExits, Proved!PublishingLoop,
           Proved!LoopStarts, Proved!Receive, Proved!Published, Proved!LoopExits
  <1>7. Pusher!Main => Proved!Main
    BY DEF Pusher!Main, Pusher!Serve, Pusher!StartTimesOut, Pusher!StopPods,
           Pusher!Cancel, Pusher!StopReturns, Pusher!WaitGroupZero, Proved!Main,
           Proved!Serve, Proved!StartTimesOut, Proved!StopPods, Proved!Cancel,
           Proved!StopReturns, Proved!WaitGroupZero
  <1> QED
    BY <1>1, <1>2, <1>3, <1>4, <1>5, <1>6, <1>7

-----------------------------------------------------------------------------
(* The pusher in kigeon.                                                   *)

PusherHolds == Proved!PusherInv /\ ident \in Idents

\* A new process satisfies the pusher's invariant.
LEMMA PusherStarts == Pusher!Init => Proved!PusherInv
  <1>1. Pusher!Init => Proved!Init
    BY DEF Pusher!Init, Proved!Init, Pusher!Producers, Proved!Producers
  <1> QED
    BY <1>1, Proved!InitPusherInv, KigeonAssumption

\* Every step but the end of the process is one of the pusher or none.
LEMMA PusherSees ==
    [KigeonNext]_kigeonVars => End \/ [Proved!Next]_(Proved!vars)
  <1> SUFFICES ASSUME [KigeonNext]_kigeonVars, ~End
               PROVE  [Proved!Next]_(Proved!vars)
    OBVIOUS
  <1>1. CASE Intake \/ Receive \/ Published
    <2>1. Proved!Alive
      BY <1>1 DEF Intake, Receive, Published, Running, Pusher!Alive, Proved!Alive
    <2>2. CASE Receive \/ Published
      BY <2>1, <2>2, PusherSame
         DEF Receive, Published, Pusher!PublishingLoop, Proved!Next
    <2>3. CASE Intake
      BY <2>1, <2>3, PusherSame DEF Intake, Pusher!PublishingLoop, Proved!Next
    <2> QED
      BY <1>1, <2>2, <2>3
  <1>2. CASE Publishing \/ QueueStep \/ UNCHANGED kigeonVars
    BY <1>2 DEF Publishing, QueueStep, kigeonVars, pusherVars, Proved!vars
  <1> QED
    BY <1>1, <1>2 DEF KigeonNext

\* What is proved of the pusher, which lives once, holds in a process that
\* starts again and again.
THEOREM PusherAcrossRestarts == KigeonSpec => []PusherHolds
  <1>1. KigeonInit => PusherHolds
    BY PusherStarts DEF KigeonInit, PusherHolds
  <1>2. PusherHolds /\ [KigeonNext]_kigeonVars => PusherHolds'
    <2> SUFFICES ASSUME PusherHolds, [KigeonNext]_kigeonVars PROVE PusherHolds'
      OBVIOUS
    <2>1. ident' \in Idents
      BY DEF PusherHolds, KigeonNext, Intake, Receive, Publishing, Published,
             QueueStep, End, kigeonVars
    <2>2. CASE End
      <3>1. Pusher!Init'
        BY <2>2 DEF End, Pusher!Init
      <3>2. (Pusher!Init => Proved!PusherInv)'
        BY PusherStarts, PTL
      <3> QED
        BY <2>1, <3>1, <3>2 DEF PusherHolds
    <2>3. CASE ~End
      BY <2>1, <2>3, PusherSees, Proved!NextPusherInv, KigeonAssumption
         DEF PusherHolds
    <2> QED
      BY <2>2, <2>3
  <1> QED
    BY <1>1, <1>2, PTL DEF KigeonSpec

-----------------------------------------------------------------------------
(* The queue in kigeon.                                                    *)

\* The types the steps below rest on.
Notification == [uid : Objects, old : 0..MaxVersion, new : 1..MaxVersion]

\* What the pusher's invariant says of the notifications, of the handlers'
\* hands and of the channel.
LEMMA PusherTypes ==
    ASSUME PusherHolds
    PROVE  /\ notif \in Seq(Notification)
           /\ version \in [Objects -> 0..MaxVersion]
           /\ hand \in [Pusher!Producers -> Pusher!Event \cup {None}]
           /\ channel \in Seq(Pusher!Event)
           /\ ident \in [Pusher!Event -> Events]
           /\ None \notin Pusher!Event
  <1>1. Pusher!Event = Proved!Event /\ Pusher!Producers = Proved!Producers
    BY DEF Pusher!Event, Proved!Event, Pusher!Producers, Proved!Producers
  <1>2. Proved!TypeOK
    BY DEF PusherHolds, Proved!PusherInv
  <1>3. ident \in [Pusher!Event -> Events]
    BY DEF PusherHolds, Idents
  <1>4. None \notin Pusher!Event
    BY KigeonAssumption DEF Pusher!Event
  <1> QED
    BY <1>1, <1>2, <1>3, <1>4 DEF Proved!TypeOK, Notification

\* PublishEvent as publishingLoop calls it, the start, the senders and the end
\* of the process are steps of the queue.
LEMMA QueueSees == PusherHolds /\ [KigeonNext]_kigeonVars => [Next]_vars
  <1> SUFFICES ASSUME PusherHolds, [KigeonNext]_kigeonVars PROVE [Next]_vars
    OBVIOUS
  <1>1. CASE Intake \/ Published
    BY <1>1 DEF Intake, Published
  <1>2. CASE Receive
    <2>1. CASE Get(ident[Head(channel)])
      <3>1. Head(channel) \in Pusher!Event
        BY <1>2, PusherTypes DEF Receive, Pusher!Receive
      <3>2. ident[Head(channel)] \in Events
        BY <3>1, PusherTypes
      <3> QED
        BY <2>1, <3>2 DEF Next, PublishEvent
    <2> QED
      BY <1>2, <2>1 DEF Receive
  <1>3. CASE Publishing
    BY <1>3 DEF Publishing, Next, PublishEvent
  <1>4. CASE QueueStep
    BY <1>4 DEF QueueStep, Next
  <1>5. CASE End
    BY <1>5 DEF End, Next
  <1>6. CASE UNCHANGED kigeonVars
    BY <1>6 DEF kigeonVars
  <1> QED
    BY <1>1, <1>2, <1>3, <1>4, <1>5, <1>6 DEF KigeonNext

\* publishingLoop uses the queue as EventQueue assumes: one PublishEvent at a
\* time, and only in a process that has its subscriptions.
THEOREM KigeonImplementsQueue == KigeonSpec => Spec
  <1>1. KigeonInit => Init
    BY DEF KigeonInit
  <1> QED
    BY <1>1, QueueSees, PusherAcrossRestarts, PTL DEF KigeonSpec, Spec

\* So the deduplication, the retention and the promise to the senders hold of
\* what the cluster shows and the pusher publishes.
THEOREM KigeonKeepsQueue ==
    KigeonSpec => [](TypeInv /\ DedupInv /\ RetentionInv) /\ KeepsPromise
  BY KigeonImplementsQueue, DedupInvariant, RetentionInvariant,
     QueueKeepsPromise, PTL

-----------------------------------------------------------------------------
(* What links pusher and queue.                                            *)

\* PublishEvent is under way only while publishingLoop waits for it, and the
\* loop is started once.
LinkInv ==
    /\ pc # "idle" => loop = "publishing"
    /\ run \in {"new", "syncing"} => loop = "none"

\* LinkInv is kept by every step, the restarts included.
LEMMA NextLink == LinkInv /\ [KigeonNext]_kigeonVars => LinkInv'
  <1> SUFFICES ASSUME LinkInv, [KigeonNext]_kigeonVars PROVE LinkInv'
    OBVIOUS
  <1> USE DEF LinkInv, Pusher!storeVars, Pusher!channelVars, Pusher!loopVars,
              Pusher!shutdownVars
  <1>1. CASE Intake
    <2>1. pc' = pc
      BY <1>1 DEF Intake, vars
    <2>2. CASE Pusher!Informer \/ Pusher!Handle
      BY <2>1, <2>2 DEF Pusher!Informer, Pusher!Discard, Pusher!Observe,
                        Pusher!Resync, Pusher!Handle
    <2>3. CASE \E k \in OomKills : Pusher!Push(k)
      BY <2>1, <2>3 DEF Pusher!Push
    <2>4. CASE \E p \in Pusher!Producers : Pusher!Enqueue(p)
      BY <2>1, <2>4 DEF Pusher!Enqueue, Pusher!Send, Pusher!SendOnClosed,
                        Pusher!Drop
    <2>5. CASE Pusher!Run
      BY <2>1, <2>5 DEF Pusher!Run, Pusher!Register, Pusher!Sync, Pusher!Close,
                        Pusher!RunReturns
    <2>6. CASE Pusher!LoopStarts \/ Pusher!LoopExits
      BY <2>1, <2>6 DEF Pusher!LoopStarts, Pusher!LoopExits
    <2>7. CASE Pusher!Main
      BY <2>1, <2>7 DEF Pusher!Main, Pusher!Serve, Pusher!StartTimesOut,
                        Pusher!StopPods, Pusher!Cancel, Pusher!StopReturns
    <2> QED
      BY <1>1, <2>2, <2>3, <2>4, <2>5, <2>6, <2>7 DEF Intake
  <1>2. CASE Receive
    BY <1>2 DEF Receive, Pusher!Receive, Get, vars
  <1>3. CASE Publishing
    BY <1>3 DEF Publishing, Publish, PublishUnanswered, PublishDuplicate, Put,
                PutFails, PublishFails, PublishReturns, pusherVars
  <1>4. CASE Published
    BY <1>4 DEF Published, Pusher!Published, vars
  <1>5. CASE QueueStep
    BY <1>5 DEF QueueStep, Start, Serve, Evict, Subscribe, Prune, Consume, Fetch,
                Ack, Leave, HandleAck, AckTimer, GiveUp, ExpireKey, LapseWindow,
                publishVars, pusherVars
  <1>6. CASE End
    BY <1>6 DEF End, Halt
  <1>7. CASE UNCHANGED kigeonVars
    BY <1>7 DEF kigeonVars, pusherVars, vars
  <1> QED
    BY <1>1, <1>2, <1>3, <1>4, <1>5, <1>6, <1>7 DEF KigeonNext

\* The inductive invariant of the whole.
KigeonInv == PusherHolds /\ TypeInv /\ DedupInv /\ RetentionInv /\ LinkInv

\* Every reachable state of pusher and queue (pusher.go, eventqueue.go) keeps
\* the pusher's invariant, the queue's three and the link between the loops.
THEOREM KigeonInvariant == KigeonSpec => []KigeonInv
  <1>1. KigeonInit => LinkInv
    BY DEF KigeonInit, Init, Pusher!Init, LinkInv
  <1> QED
    BY <1>1, NextLink, PusherAcrossRestarts, KigeonKeepsQueue, PTL
       DEF KigeonSpec, KigeonInv

\* StopCutsNoPublication: when main stops the queue, the context of the pusher
\* is done and PublishEvent has returned, also of a loop Stop did not wait for.
THEOREM StopsBetweenPublications == KigeonSpec => []StopCutsNoPublication
  <1>1. KigeonInv => StopCutsNoPublication
    BY DEF KigeonInv, PusherHolds, Proved!PusherInv, Proved!StopInv,
           Proved!QueueOutlivesPublications, LinkInv, StopCutsNoPublication
  <1> QED
    BY <1>1, KigeonInvariant, PTL

-----------------------------------------------------------------------------
(* Events on their way.                                                    *)

\* The version a notification is of.
Version(n) == [uid |-> n.uid, version |-> n.new]

\* A notification at the back adds the version it is of, if it is a change.
LEMMA ChangesAppend ==
    ASSUME NEW S, NEW q \in Seq(S), NEW n \in S
    PROVE  Changes(Append(q, n)) =
               IF n.old # n.new THEN Changes(q) \cup {Version(n)} ELSE Changes(q)
  <1> DEFINE a == Append(q, n)
  <1>1. /\ DOMAIN a = DOMAIN q \cup {Len(q) + 1}
        /\ \A i \in DOMAIN q : a[i] = q[i]
        /\ a[Len(q) + 1] = n
    BY AppendToLog
  <1> HIDE DEF a
  <1>2. ASSUME NEW i \in DOMAIN q, q[i].old # q[i].new
        PROVE  Version(q[i]) \in Changes(a)
    BY <1>1, <1>2 DEF Changes, Version
  <1>3. n.old # n.new => Version(n) \in Changes(a)
    BY <1>1 DEF Changes, Version
  <1>4. ASSUME NEW i \in DOMAIN a, a[i].old # a[i].new
        PROVE  \/ Version(a[i]) \in Changes(q)
               \/ n.old # n.new /\ Version(a[i]) = Version(n)
    BY <1>1, <1>4 DEF Changes, Version
  <1> QED
    BY <1>2, <1>3, <1>4 DEF Changes, Version, a

\* The front notification takes away no more than the version it is of.
LEMMA ChangesTail ==
    ASSUME NEW S, NEW q \in Seq(S), q # <<>>
    PROVE  Changes(q) =
               IF Head(q).old # Head(q).new
               THEN Changes(Tail(q)) \cup {Version(Head(q))}
               ELSE Changes(Tail(q))
  <1> DEFINE t == Tail(q)
             h == Head(q)
  <1>1. /\ DOMAIN q = 1..Len(q) /\ Len(q) \in Nat /\ 1 \in DOMAIN q
        /\ DOMAIN t = 1..(Len(q) - 1) /\ h = q[1]
        /\ \A i \in DOMAIN t : i + 1 \in DOMAIN q /\ t[i] = q[i + 1]
    BY Proved!TailFacts, KigeonAssumption
  <1> HIDE DEF t, h
  <1>2. \A i \in DOMAIN q : i = 1 \/ (i - 1 \in DOMAIN t /\ t[i - 1] = q[i])
    BY <1>1
  <1>3. ASSUME NEW i \in DOMAIN t, t[i].old # t[i].new
        PROVE  Version(t[i]) \in Changes(q)
    BY <1>1, <1>3 DEF Changes, Version
  <1>4. h.old # h.new => Version(h) \in Changes(q)
    BY <1>1 DEF Changes, Version
  <1>5. ASSUME NEW i \in DOMAIN q, q[i].old # q[i].new
        PROVE  \/ Version(q[i]) \in Changes(t)
               \/ h.old # h.new /\ Version(q[i]) = Version(h)
    BY <1>1, <1>2, <1>5 DEF Changes, Version
  <1> QED
    BY <1>3, <1>4, <1>5 DEF Changes, Version, t, h

\* Sending on a channel adds the value to what the channel holds.
LEMMA RangeAppend ==
    ASSUME NEW S, NEW q \in Seq(S), NEW x \in S
    PROVE  Range(Append(q, x)) = Range(q) \cup {x}
  <1>1. /\ DOMAIN Append(q, x) = DOMAIN q \cup {Len(q) + 1}
        /\ \A i \in DOMAIN q : Append(q, x)[i] = q[i]
        /\ Append(q, x)[Len(q) + 1] = x
    BY AppendToLog
  <1>2. \A y \in Range(Append(q, x)) : y \in Range(q) \cup {x}
    BY <1>1 DEF Range
  <1>3. \A y \in Range(q) \cup {x} : y \in Range(Append(q, x))
    BY <1>1 DEF Range
  <1> QED
    BY <1>2, <1>3

\* Receiving from a channel leaves all it holds but the value received.
LEMMA RangeTail ==
    ASSUME NEW S, NEW q \in Seq(S), q # <<>>
    PROVE  Range(q) = Range(Tail(q)) \cup {Head(q)}
  <1>1. /\ DOMAIN q = 1..Len(q) /\ Len(q) \in Nat /\ 1 \in DOMAIN q
        /\ DOMAIN Tail(q) = 1..(Len(q) - 1) /\ Head(q) = q[1]
        /\ \A i \in DOMAIN Tail(q) :
            i + 1 \in DOMAIN q /\ Tail(q)[i] = q[i + 1]
    BY Proved!TailFacts, KigeonAssumption
  <1>2. \A i \in DOMAIN q :
            i = 1 \/ (i - 1 \in DOMAIN Tail(q) /\ Tail(q)[i - 1] = q[i])
    BY <1>1
  <1>3. ASSUME NEW i \in DOMAIN q PROVE q[i] \in Range(Tail(q)) \cup {Head(q)}
    <2>1. CASE i = 1
      BY <1>1, <2>1
    <2>2. CASE i - 1 \in DOMAIN Tail(q) /\ Tail(q)[i - 1] = q[i]
      BY <2>2 DEF Range
    <2> QED
      BY <1>2, <2>1, <2>2
  <1>4. \A y \in Range(Tail(q)) \cup {Head(q)} : y \in Range(q)
    BY <1>1 DEF Range
  <1> QED
    BY <1>3, <1>4 DEF Range

\* What is under way is in the informer's notifications, in the hand of one
\* of the two producers, or in the channel.
LEMMA InHand ==
    UnderWay = Changes(notif) \cup ({hand["informer"], hand["oom"]} \ {None})
               \cup Range(channel)
  BY DEF UnderWay, Pusher!Producers

\* What a step of the pusher alone may do to events on their way.
Moved ==
    \/ (Open' <=> Open) /\ UnderWay' = UnderWay
    \/ ~Open' /\ UnderWay' = UnderWay
    \/ ~Open /\ ~Open' /\ UnderWay' \subseteq UnderWay
    \/ Open /\ Open' /\ \E x \in Pusher!Event : UnderWay' = UnderWay \cup {x}

\* The informer adds a version; once the context is done it throws them away.
LEMMA InformerMoves ==
    ASSUME PusherHolds, Running, phase' = phase, Pusher!Informer
    PROVE  Moved
  <1> USE DEF Pusher!storeVars, Pusher!channelVars, Pusher!loopVars,
              Pusher!shutdownVars
  <1>1. UNCHANGED <<hand, channel, cancelled, panicked, main>>
    BY DEF Pusher!Informer, Pusher!Discard, Pusher!Observe, Pusher!Resync
  <1>2. Open' <=> Open
    BY <1>1 DEF Open, Running, Pusher!Alive
  <1>3. CASE Pusher!Discard
    <2>1. ~Open /\ notif' = <<>>
      BY <1>3 DEF Open, Pusher!Discard
    <2>2. Changes(notif') = {}
      BY <2>1 DEF Changes
    <2>3. UnderWay' \subseteq UnderWay
      BY <1>1, <2>2, InHand DEF UnderWay, Pusher!Producers
    <2> QED
      BY <1>2, <2>1, <2>3 DEF Moved
  <1>4. ASSUME NEW u \in Objects, Pusher!Observe(u) PROVE Moved
    <2> DEFINE n == [uid |-> u, old |-> version[u], new |-> version[u] + 1]
    <2>1. notif' = Append(notif, n) /\ version[u] < MaxVersion /\ ~cancelled
      BY <1>4 DEF Pusher!Observe, Pusher!Watching
    <2>2. n \in Notification /\ n.old # n.new
      BY <2>1, PusherTypes, KigeonAssumption DEF Notification
    <2>4. Version(n) \in Pusher!Event
      BY <2>2 DEF Notification, Version, Pusher!Event
    <2> HIDE DEF n
    <2>3. Changes(notif') = Changes(notif) \cup {Version(n)}
      <3>1. Changes(Append(notif, n)) = Changes(notif) \cup {Version(n)}
        BY <2>2, PusherTypes, ChangesAppend
      <3> QED
        BY <2>1, <3>1
    <2>5. UnderWay' = UnderWay \cup {Version(n)}
      BY <1>1, <2>3 DEF UnderWay, Pusher!Producers
    <2>6. Open
      BY <2>1 DEF Open
    <2> QED
      BY <1>2, <2>4, <2>5, <2>6 DEF Moved
  <1>5. ASSUME NEW u \in Objects, Pusher!Resync(u) PROVE Moved
    <2> DEFINE n == [uid |-> u, old |-> version[u], new |-> version[u]]
    <2>1. notif' = Append(notif, n) /\ version[u] > 0
      BY <1>5 DEF Pusher!Resync
    <2>2. n \in Notification /\ n.old = n.new
      BY <2>1, PusherTypes, KigeonAssumption DEF Notification
    <2> HIDE DEF n
    <2>3. Changes(notif') = Changes(notif)
      BY <2>1, <2>2, PusherTypes, ChangesAppend
    <2>4. UnderWay' = UnderWay
      BY <1>1, <2>3 DEF UnderWay, Pusher!Producers
    <2> QED
      BY <1>2, <2>4 DEF Moved
  <1> QED
    BY <1>3, <1>4, <1>5 DEF Pusher!Informer

\* A handler takes the version of a notification, unless it is unchanged.
LEMMA HandleMoves ==
    ASSUME PusherHolds, Running, phase' = phase, Pusher!Handle
    PROVE  Moved
  <1> DEFINE h == Head(notif)
  <1>1. /\ notif # <<>> /\ hand["informer"] = None /\ notif' = Tail(notif)
        /\ hand' = IF h.old # h.new
                   THEN [hand EXCEPT !["informer"] = Version(h)] ELSE hand
        /\ UNCHANGED <<channel, cancelled, panicked, main>>
    BY DEF Pusher!Handle, Version, Pusher!channelVars, Pusher!shutdownVars
  <1>2. h \in Notification /\ Version(h) \in Pusher!Event
    <2>1. h \in Notification
      BY <1>1, PusherTypes
    <2> QED
      BY <2>1 DEF Notification, Version, Pusher!Event
  <1>3. Changes(notif) = IF h.old # h.new
                         THEN Changes(notif') \cup {Version(h)} ELSE Changes(notif')
    BY <1>1, PusherTypes, ChangesTail
  <1>4. Open' <=> Open
    BY <1>1 DEF Open, Running, Pusher!Alive
  <1> HIDE DEF h
  <1>5. UnderWay' = Changes(notif') \cup ({hand'["informer"], hand'["oom"]} \ {None})
                    \cup Range(channel)
    BY <1>1 DEF UnderWay, Pusher!Producers
  <1>6. CASE h.old # h.new
    <2>1. hand'["informer"] = Version(h) /\ hand'["oom"] = hand["oom"]
      BY <1>1, <1>6, PusherTypes DEF Pusher!Producers
    <2>2. Version(h) # None
      BY <1>2, PusherTypes
    <2>3. UnderWay' = UnderWay
      BY <1>1, <1>3, <1>5, <1>6, <2>1, <2>2, InHand
    <2> QED
      BY <1>4, <2>3 DEF Moved
  <1>7. CASE h.old = h.new
    <2>1. UnderWay' = UnderWay
      BY <1>1, <1>3, <1>5, <1>7, InHand
    <2> QED
      BY <1>4, <2>1 DEF Moved
  <1> QED
    BY <1>6, <1>7

\* An OOM kill comes in; main lets it while the context is not done.
LEMMA PushMoves ==
    ASSUME PusherHolds, Running, phase' = phase, NEW k \in OomKills, Pusher!Push(k)
    PROVE  Moved
  <1> DEFINE x == [uid |-> k, version |-> 1]
  <1>1. /\ main \in {"serving", "stoppingPods"} /\ hand["oom"] = None
        /\ hand' = [hand EXCEPT !["oom"] = x]
        /\ UNCHANGED <<notif, channel, cancelled, panicked, main>>
    BY DEF Pusher!Push, Pusher!storeVars, Pusher!channelVars, Pusher!shutdownVars
  <1>2. x \in Pusher!Event
    BY DEF Pusher!Event
  <1> HIDE DEF x
  <1>3. Open /\ Open'
    BY <1>1 DEF Open, Running, Pusher!Alive, PusherHolds, Proved!PusherInv,
                Proved!MainInv
  <1>4. hand'["oom"] = x /\ hand'["informer"] = hand["informer"] /\ x # None
    BY <1>1, <1>2, PusherTypes DEF Pusher!Producers
  <1>5. UnderWay' = Changes(notif) \cup ({hand'["informer"], hand'["oom"]} \ {None})
                    \cup Range(channel)
    BY <1>1 DEF UnderWay, Pusher!Producers
  <1>6. UnderWay' = UnderWay \cup {x}
    BY <1>1, <1>4, <1>5, InHand
  <1> QED
    BY <1>2, <1>3, <1>6 DEF Moved

\* enqueue moves a version into the channel, panics, or drops a version when
\* the context is done.
LEMMA EnqueueMoves ==
    ASSUME PusherHolds, Running, phase' = phase,
           NEW p \in Pusher!Producers, Pusher!Enqueue(p)
    PROVE  Moved
  <1> USE DEF Pusher!storeVars, Pusher!loopVars, Pusher!shutdownVars
  <1>1. hand[p] # None /\ UNCHANGED <<notif, cancelled, main>>
    BY DEF Pusher!Enqueue, Pusher!Send, Pusher!SendOnClosed, Pusher!Drop
  <1>2. UnderWay' = Changes(notif) \cup ({hand'[q] : q \in Pusher!Producers} \ {None})
                    \cup Range(channel')
    BY <1>1 DEF UnderWay
  <1>3. CASE Pusher!Send(p)
    <2>1. /\ hand' = [hand EXCEPT ![p] = None]
          /\ channel' = Append(channel, hand[p]) /\ panicked' = panicked
      BY <1>3 DEF Pusher!Send
    <2>2. hand[p] \in Pusher!Event /\ channel \in Seq(Pusher!Event)
      BY <1>1, PusherTypes
    <2>3. Range(channel') = Range(channel) \cup {hand[p]}
      BY <2>1, <2>2, RangeAppend
    <2>4. {hand'[q] : q \in Pusher!Producers} \ {None}
              = ({hand[q] : q \in Pusher!Producers} \ {None}) \ {hand[p]}
          \/ {hand'[q] : q \in Pusher!Producers} \ {None}
              = {hand[q] : q \in Pusher!Producers} \ {None}
      <3>1. \A q \in Pusher!Producers : hand'[q] = IF q = p THEN None ELSE hand[q]
        BY <2>1, PusherTypes
      <3> QED
        BY <3>1 DEF Pusher!Producers
    <2>5. UnderWay' = UnderWay
      BY <1>1, <1>2, <2>3, <2>4 DEF UnderWay
    <2> QED
      BY <1>1, <2>1, <2>5 DEF Moved, Open, Running, Pusher!Alive
  <1>4. CASE Pusher!SendOnClosed(p)
    <2>1. panicked' # {} /\ UNCHANGED <<hand, channel>>
      BY <1>4 DEF Pusher!SendOnClosed
    <2> QED
      BY <1>2, <2>1 DEF UnderWay, Moved, Open, Running, Pusher!Alive
  <1>5. CASE Pusher!Drop(p)
    <2>1. /\ cancelled /\ hand' = [hand EXCEPT ![p] = None]
          /\ UNCHANGED <<channel, panicked>>
      BY <1>5 DEF Pusher!Drop, Pusher!channelVars
    <2>2. \A q \in Pusher!Producers : hand'[q] \in {None, hand[q]}
      BY <2>1, PusherTypes
    <2>3. UnderWay' \subseteq UnderWay
      BY <1>2, <2>1, <2>2 DEF UnderWay
    <2> QED
      BY <1>1, <2>1, <2>3 DEF Moved, Open, Running
  <1> QED
    BY <1>3, <1>4, <1>5 DEF Pusher!Enqueue

\* Run, the loop between two publications, and main move no version; main
\* closes kigeon by giving the start up and by Cancel.
LEMMA ControlMoves ==
    ASSUME PusherHolds, Running, phase' = phase,
           Pusher!Run \/ Pusher!LoopStarts \/ Pusher!LoopExits \/ Pusher!Main
    PROVE  Moved
  <1> USE DEF Pusher!storeVars, Pusher!channelVars, Pusher!loopVars,
              Pusher!shutdownVars
  <1>1. CASE Pusher!Run \/ Pusher!LoopStarts \/ Pusher!LoopExits
    <2>1. UNCHANGED <<notif, hand, channel, cancelled, panicked, main>>
      BY <1>1 DEF Pusher!Run, Pusher!Register, Pusher!Sync, Pusher!Close,
                  Pusher!RunReturns, Pusher!LoopStarts, Pusher!LoopExits
    <2> QED
      BY <2>1 DEF Moved, Open, Running, Pusher!Alive, UnderWay
  <1>2. CASE Pusher!Main
    <2>1. /\ UNCHANGED <<notif, hand, channel, panicked>>
          /\ \/ cancelled' = TRUE
             \/ main' = "failed"
             \/ cancelled' = cancelled /\ main' # "failed"
      BY <1>2 DEF Pusher!Main, Pusher!Serve, Pusher!StartTimesOut, Pusher!StopPods,
                  Pusher!Cancel, Pusher!StopReturns
    <2> QED
      BY <2>1 DEF Moved, Open, Running, Pusher!Alive, UnderWay
  <1> QED
    BY <1>1, <1>2

\* Every step of the intake moves changes on or creates new ones.
LEMMA IntakeMoves == ASSUME PusherHolds, Intake PROVE Moved
  <1>1. Running /\ phase' = phase
    BY DEF Intake, vars
  <1> QED
    BY <1>1, InformerMoves, HandleMoves, PushMoves, EnqueueMoves, ControlMoves
       DEF Intake

-----------------------------------------------------------------------------
(* Kigeon implements Shipping: every step of kigeon is one of Shipping, or *)
(* leaves what is mapped alone.                                            *)

Maps == [Shipped!ShippingNext]_(Shipped!shippingVars)

\* The event of which PublishEvent has yet to publish.
Publishes == IF pc = "publish" THEN {ev} ELSE {}

\* A step of the pusher alone.
LEMMA MovedMaps ==
    ASSUME PusherHolds, Moved, UNCHANGED <<vars, ident, failed>>
    PROVE  Maps
  <1> USE DEF Shipped!shippingVars, Shipped!intakeVars, Shipped!queueVars
  <1>1. UNCHANGED <<failed, Range(log), stored, progress>> /\ Publishes' = Publishes
    BY DEF vars, progress, Progress, Publishes
  <1>2. Pending = {ident[x] : x \in UnderWay} \cup Publishes
    BY DEF Pending, Publishes
  <1>3. Pending' = {ident[x] : x \in UnderWay'} \cup Publishes
    BY <1>1 DEF Pending, Publishes
  <1>4. CASE (Open' <=> Open) /\ UnderWay' = UnderWay
    BY <1>1, <1>2, <1>3, <1>4 DEF Maps, progress
  <1>5. CASE ~Open' /\ UnderWay' = UnderWay
    <2>1. Shipped!Close
      BY <1>1, <1>2, <1>3, <1>5 DEF Shipped!Close, progress
    <2> QED
      BY <2>1 DEF Maps, Shipped!ShippingNext
  <1>6. CASE ~Open /\ ~Open' /\ UnderWay' \subseteq UnderWay
    <2>1. Pending' \subseteq Pending
      BY <1>2, <1>3, <1>6
    <2>2. Open' = Open
      BY <1>6 DEF Open
    <2>3. Shipped!Abandon
      BY <1>1, <1>6, <2>1, <2>2 DEF Shipped!Abandon, progress
    <2> QED
      BY <2>3 DEF Maps, Shipped!ShippingNext
  <1>7. ASSUME Open, Open', NEW x \in Pusher!Event, UnderWay' = UnderWay \cup {x}
        PROVE  Maps
    <2>1. ident[x] \in Events
      BY PusherTypes
    <2>2. Pending' = Pending \cup {ident[x]}
      BY <1>2, <1>3, <1>7
    <2>3. Shipped!TakeUp(ident[x])
      BY <1>1, <1>7, <2>2 DEF Shipped!TakeUp, progress
    <2> QED
      BY <2>1, <2>3 DEF Maps, Shipped!ShippingNext
  <1> QED
    BY <1>4, <1>5, <1>6, <1>7 DEF Moved

\* publishingLoop takes an event from the channel: PublishEvent goes on to
\* Publish, finds the event stored before, or fails.
LEMMA ReceiveMaps ==
    ASSUME KigeonInv, Receive
    PROVE  Maps
  <1> USE DEF Shipped!shippingVars, Shipped!intakeVars, Shipped!queueVars
  <1> DEFINE x == Head(channel)
             e == ident[x]
             Others == Changes(notif) \cup ({hand[p] : p \in Pusher!Producers} \ {None})
                       \cup Range(Tail(channel))
  <1>1. /\ channel # <<>> /\ channel' = Tail(channel) /\ loop = "select"
        /\ UNCHANGED <<notif, hand, panicked, cancelled, main, ident>>
    BY DEF Receive, Pusher!Receive, Pusher!storeVars, Pusher!shutdownVars
  <1>2. UNCHANGED <<log, stored, progress>> /\ Open' = Open
    BY <1>1 DEF Receive, Get, vars, streamVars, consumerVars, processVars, progress,
                Progress, Open, Running, Pusher!Alive
  <1>3. x \in Pusher!Event /\ e \in Events
    BY <1>1, PusherTypes DEF KigeonInv
  <1>4. Publishes = {}
    BY <1>1 DEF KigeonInv, LinkInv, Publishes
  <1>5. UnderWay = Others \cup {x} /\ UnderWay' = Others
    <2>1. Range(channel) = Range(Tail(channel)) \cup {x}
      BY <1>1, PusherTypes, RangeTail DEF KigeonInv
    <2> QED
      BY <1>1, <2>1 DEF UnderWay
  <1> HIDE DEF e, x, Others
  <1>6. Pending = {ident[y] : y \in Others} \cup {ident[x]}
    BY <1>4, <1>5 DEF Pending, Publishes
  <1>7. Pending' = {ident[y] : y \in Others} \cup Publishes'
    BY <1>1, <1>5 DEF Pending, Publishes
  <1>8. e = ident[x]
    BY DEF e
  <1>9. Publishes' \subseteq {e} => Shipped!LetGo(e)
    BY <1>2, <1>6, <1>7, <1>8 DEF Shipped!LetGo
  <1>10. CASE Get(e) /\ failed' = failed
    <2>1. Publishes' = {e}
      BY <1>10 DEF Get, Publishes
    <2> QED
      BY <1>2, <1>6, <1>7, <1>8, <1>10, <2>1 DEF Maps, progress
  <1>11. CASE e \in kv /\ UNCHANGED <<vars, failed>>
    <2>1. Publishes' = {}
      BY <1>4, <1>11 DEF Publishes, vars
    <2>2. e \in Range(log)
      BY <1>11 DEF KigeonInv, DedupInv, Range
    <2>3. Shipped!Skip(e)
      BY <1>2, <1>9, <1>11, <2>1, <2>2 DEF Shipped!Skip, progress
    <2> QED
      BY <1>3, <2>3 DEF Maps, Shipped!ShippingNext
  <1>12. CASE failed' = failed \cup {e} /\ UNCHANGED vars
    <2>1. Publishes' = {}
      BY <1>4, <1>12 DEF Publishes, vars
    <2>2. Shipped!Fail(e)
      BY <1>2, <1>9, <1>12, <2>1 DEF Shipped!Fail, progress
    <2> QED
      BY <1>3, <2>2 DEF Maps, Shipped!ShippingNext
  <1> QED
    BY <1>10, <1>11, <1>12 DEF Receive, e, x

\* The other calls of PublishEvent: the event is stored, found in the window,
\* or fails; its key is of no concern to Shipping.
LEMMA PublishingMaps ==
    ASSUME KigeonInv, Shipped!DueIsKept', Publishing
    PROVE  Maps
  <1> USE DEF Shipped!shippingVars, Shipped!intakeVars, Shipped!queueVars
  <1> DEFINE Others == {ident[x] : x \in UnderWay}
  <1>1. UNCHANGED <<phase, ident>> /\ UNCHANGED pusherVars
    BY DEF Publishing, Publish, PublishUnanswered, PublishDuplicate, PublishFails,
           Put, PutFails, processVars
  <1>2. Open' = Open /\ Others' = Others
    BY <1>1 DEF pusherVars, Open, Running, Pusher!Alive, UnderWay, Pusher!Producers
  <1>3. Pending = Others \cup Publishes /\ Pending' = Others \cup Publishes'
    BY <1>2 DEF Pending, Publishes
  <1> HIDE DEF Others
  <1>4. CASE pc = "publish"
    <2>1. ev \in Events /\ Publishes = {ev}
      BY <1>4 DEF KigeonInv, TypeInv, TypeOK, PublishOK, Publishes
    <2>2. pc' # "publish" => Shipped!LetGo(ev)
      BY <1>2, <1>3, <2>1 DEF Shipped!LetGo, Publishes
    <2>3. CASE (Publish \/ PublishUnanswered) /\ failed' = failed
      <3>1. /\ Store /\ UNCHANGED <<status, evicted, failed>> /\ pc' # "publish"
        BY <2>3 DEF Publish, PublishUnanswered, PublishReturns, consumerVars
      <3>2. Promise!Accepting
        BY <1>4, <3>1, StoreRefines DEF KigeonInv
      <3>3. Shipped!Accepting
        BY <3>2 DEF Promise!Accepting, Promise!Accept, Shipped!Accepting,
                    Shipped!Accept, progress
      <3>4. Range(log') = Range(log) \cup {ev}
        BY <2>1, <3>1, RangeAppend
           DEF Store, KigeonInv, TypeInv, TypeOK, LogOK
      <3>5. Shipped!Ship(ev)
        BY <2>2, <3>1, <3>3, <3>4 DEF Shipped!Ship
      <3> QED
        BY <2>1, <3>5 DEF Maps, Shipped!ShippingNext
    <2>4. CASE PublishDuplicate /\ failed' = failed
      <3>1. /\ UNCHANGED <<log, stored, progress>> /\ pc' # "publish"
            /\ ev \in window
        BY <2>4 DEF PublishDuplicate, PublishReturns, streamVars, consumerVars,
                    progress, Progress
      <3>2. ev \in Range(log)
        BY <3>1 DEF KigeonInv, DedupInv, Range
      <3>3. Shipped!Skip(ev)
        BY <2>2, <2>4, <3>1, <3>2 DEF Shipped!Skip, progress
      <3> QED
        BY <2>1, <3>3 DEF Maps, Shipped!ShippingNext
    <2>5. CASE PublishFails /\ failed' = failed \cup {ev}
      <3>1. UNCHANGED <<log, stored, progress>> /\ pc' # "publish"
        BY <2>5 DEF PublishFails, PublishReturns, streamVars, consumerVars,
                    progress, Progress
      <3>2. Shipped!Fail(ev)
        BY <2>2, <2>5, <3>1 DEF Shipped!Fail, progress
      <3> QED
        BY <2>1, <3>2 DEF Maps, Shipped!ShippingNext
    <2> QED
      BY <1>4, <2>3, <2>4, <2>5 DEF Publishing, Put, PutFails
  <1>5. CASE pc # "publish"
    <2>1. /\ UNCHANGED <<log, stored, progress, failed>> /\ pc' # "publish"
      BY <1>5 DEF Publishing, Publish, PublishUnanswered, PublishDuplicate,
                  PublishFails, Put, PutFails, PublishReturns, streamVars,
                  consumerVars, progress, Progress
    <2> QED
      BY <1>2, <1>3, <1>5, <2>1 DEF Maps, Publishes, progress
  <1> QED
    BY <1>4, <1>5

\* PublishEvent returns, and the loop goes on.
LEMMA PublishedMaps == ASSUME Published PROVE Maps
  <1> USE DEF Shipped!shippingVars, Shipped!intakeVars, Shipped!queueVars
  <1>1. UNCHANGED <<vars, notif, hand, channel, cancelled, main, panicked, ident, failed>>
    BY DEF Published, Pusher!Published, Pusher!storeVars, Pusher!channelVars,
           Pusher!shutdownVars
  <1>2. Open' = Open /\ Pending' = Pending
    BY <1>1 DEF vars, Open, Running, Pusher!Alive, Pending, UnderWay, Pusher!Producers
  <1> QED
    BY <1>1, <1>2 DEF Maps, vars, progress, Progress

\* The start of a process may open kigeon; a sender's step or a limit may end
\* what is due.
LEMMA QueueStepMaps ==
    ASSUME KigeonInv, Shipped!DueIsKept', QueueStep
    PROVE  Maps
  <1> USE DEF Shipped!shippingVars, Shipped!intakeVars, Shipped!queueVars,
              streamVars, dedupVars, consumerVars, clientVars, publishVars,
              processVars, memoryVars
  <1>1. UNCHANGED <<log, pc, ev>>
    BY DEF QueueStep, Start, Serve, Subscribe, Prune, Consume, Fetch, Ack, Leave,
           HandleAck, AckTimer, GiveUp, Evict, ExpireKey, LapseWindow
  <1>2. Pending' = Pending /\ failed' = failed
    BY <1>1 DEF QueueStep, pusherVars, Pending, UnderWay, Pusher!Producers
  <1>3. CASE Start \/ Serve
    <2>1. UNCHANGED <<stored, progress>>
      BY <1>3 DEF Start, Serve, progress, Progress
    <2>2. Open' \in BOOLEAN
      BY DEF Open
    <2>3. Shipped!Open \/ Shipped!Close
      BY <1>1, <1>2, <2>1, <2>2 DEF Shipped!Open, Shipped!Close, progress
    <2> QED
      BY <2>3 DEF Maps, Shipped!ShippingNext
  <1>4. CASE ~(Start \/ Serve)
    <2>1. phase' = phase
      BY <1>4 DEF QueueStep, Subscribe, Prune, Consume, Fetch, Ack, Leave,
                  HandleAck, AckTimer, GiveUp, Evict, ExpireKey, LapseWindow
    <2>2. Open' = Open
      BY <2>1 DEF QueueStep, pusherVars, Open, Running, Pusher!Alive
    <2>3. Promise!Ending \/ UNCHANGED PromiseVars
      <3>1. Next
        BY DEF QueueStep, Next
      <3>2. pc' = pc /\ ev' = ev
        BY <1>1
      <3>3. ~(Publish \/ PublishUnanswered)
        BY <3>2 DEF Publish, PublishUnanswered, PublishReturns
      <3> QED
        BY <3>1, <3>3, OtherStepRefines DEF KigeonInv
    <2>4. CASE Promise!Ending
      <3>1. Shipped!Ending
        BY <2>4 DEF Promise!Ending, Promise!Settle, Promise!Lapse, Promise!Remove,
                    Shipped!Ending, Shipped!Settle, Shipped!Lapse, Shipped!Remove,
                    progress
      <3>2. Shipped!Deliver
        BY <1>1, <1>2, <2>2, <3>1 DEF Shipped!Deliver
      <3> QED
        BY <3>2 DEF Maps, Shipped!ShippingNext
    <2>5. CASE UNCHANGED PromiseVars
      BY <1>1, <1>2, <2>2, <2>5 DEF Maps, PromiseVars, progress
    <2> QED
      BY <2>3, <2>4, <2>5
  <1> QED
    BY <1>3, <1>4

\* The end of a process loses what was on its way, and nothing else.
LEMMA EndMaps == ASSUME End PROVE Maps
  <1> USE DEF Shipped!shippingVars, Shipped!intakeVars, Shipped!queueVars
  <1>1. UNCHANGED <<log, stored, progress>> /\ phase' = "down" /\ pc' = "idle"
    BY DEF End, Halt, streamVars, consumerVars, progress, Progress
  <1>2. Open' = FALSE
    BY <1>1 DEF Open, Running
  <1>3. UnderWay' = {}
    <2>1. notif' = <<>> /\ channel' = <<>> /\ hand' = [p \in Pusher!Producers |-> None]
      BY DEF End
    <2>2. Changes(notif') = {} /\ Range(channel') = {}
      BY <2>1 DEF Changes, Range
    <2>3. {hand'[p] : p \in Pusher!Producers} \ {None} = {}
      BY <2>1
    <2> QED
      BY <2>2, <2>3 DEF UnderWay, Pusher!Producers
  <1>4. Pending' = {} /\ failed' = {}
    BY <1>1, <1>3 DEF Pending, End
  <1>5. Shipped!Stop
    BY <1>1, <1>2, <1>4 DEF Shipped!Stop, progress
  <1> QED
    BY <1>5 DEF Maps, Shipped!ShippingNext

\* Every step of pusher and queue is a step of Shipping or a stutter.
LEMMA StepMaps ==
    ASSUME KigeonInv, KigeonInv', [KigeonNext]_kigeonVars
    PROVE  Maps
  <1>1. Shipped!DueIsKept'
    <2>1. (TypeInv /\ RetentionInv => Promise!DueIsKept)'
      BY DueStored, PTL
    <2> QED
      BY <2>1 DEF KigeonInv, Promise!DueIsKept, Shipped!DueIsKept, progress
  <1>2. CASE Intake
    <2>1. UNCHANGED <<vars, ident, failed>>
      BY <1>2 DEF Intake
    <2> QED
      BY <1>2, <2>1, IntakeMoves, MovedMaps DEF KigeonInv
  <1>3. CASE UNCHANGED kigeonVars
    <2>1. UNCHANGED <<vars, pusherVars, ident, failed>>
      BY <1>3 DEF kigeonVars
    <2>2. Open' = Open /\ Pending' = Pending
      BY <2>1 DEF vars, pusherVars, Open, Running, Pusher!Alive, Pending, UnderWay,
                  Pusher!Producers
    <2> QED
      BY <2>1, <2>2 DEF Maps, vars, progress, Progress, Shipped!shippingVars,
                        Shipped!intakeVars, Shipped!queueVars
  <1> QED
    BY <1>1, <1>2, <1>3, ReceiveMaps, PublishingMaps, PublishedMaps,
       QueueStepMaps, EndMaps DEF KigeonNext

\* The initial states are initial states of Shipping.
LEMMA InitMaps == KigeonInit => Shipped!ShippingInit
  <1> SUFFICES ASSUME KigeonInit PROVE Shipped!ShippingInit
    OBVIOUS
  <1>1. phase = "down" /\ pc = "idle" /\ log = <<>> /\ failed = {}
    BY DEF KigeonInit, Init
  <1>2. notif = <<>> /\ channel = <<>> /\ hand = [p \in Pusher!Producers |-> None]
    BY DEF KigeonInit, Pusher!Init
  <1>3. Changes(notif) = {} /\ Range(channel) = {} /\ Range(log) = {}
    BY <1>1, <1>2 DEF Changes, Range
  <1>4. {hand[p] : p \in Pusher!Producers} \ {None} = {}
    BY <1>2
  <1>5. Pending = {}
    BY <1>1, <1>3, <1>4 DEF Pending, UnderWay
  <1>6. Open = FALSE
    BY <1>1 DEF Open, Running
  <1>7. Shipped!Init
    BY InitRefines DEF KigeonInit, Promise!Init, Shipped!Init, progress
  <1> QED
    BY <1>1, <1>3, <1>5, <1>6, <1>7 DEF Shipped!ShippingInit

\* Ships: kigeon implements Shipping.  Whatever the interleaving of informers,
\* handlers, the channel, the loop, the server, the senders, the stop and the
\* restarts, an event that came in is stored, found stored, failed with an
\* error, or dropped by a stop; and what is stored is due to every configured
\* sender and kept for it.
THEOREM KigeonShips == KigeonSpec => Ships
  <1>1. KigeonInv /\ KigeonInv' /\ [KigeonNext]_kigeonVars => Maps
    BY StepMaps
  <1> QED
    BY <1>1, InitMaps, KigeonInvariant, PTL
       DEF KigeonSpec, Ships, Shipped!ShippingSpec, Maps

-----------------------------------------------------------------------------
(* No version is lost silently.                                            *)

\* A step of Shipping keeps account of events while kigeon stays open.
LEMMA Accounted ==
    ASSUME Maps, Open, Open', NEW e \in Pending \cup Range(log) \cup failed
    PROVE  e \in (Pending \cup Range(log) \cup failed)'
  <1> USE DEF Shipped!shippingVars, Shipped!intakeVars, Shipped!queueVars
  <1>1. CASE UNCHANGED Shipped!shippingVars
    BY <1>1
  <1>2. CASE Shipped!Open \/ Shipped!Close \/ Shipped!Abandon \/ Shipped!Stop
             \/ Shipped!Deliver
    BY <1>2 DEF Shipped!Open, Shipped!Close, Shipped!Abandon, Shipped!Stop,
                Shipped!Deliver
  <1>3. CASE \E f \in Events : Shipped!TakeUp(f) \/ Shipped!Ship(f)
                               \/ Shipped!Skip(f) \/ Shipped!Fail(f)
    BY <1>3 DEF Shipped!TakeUp, Shipped!Ship, Shipped!Skip, Shipped!Fail,
                Shipped!LetGo
  <1> QED
    BY <1>1, <1>2, <1>3 DEF Maps, Shipped!ShippingNext

\* Versions are observed in a process that publishes, and are on their way.
LEMMA VersionMoves ==
    ASSUME PusherHolds, [KigeonNext]_kigeonVars, ~End, NEW u \in Objects
    PROVE  /\ ident' = ident
           /\ \/ version'[u] = version[u]
              \/ /\ Open /\ version[u] \in Nat /\ version'[u] = version[u] + 1
                 /\ [uid |-> u, version |-> version'[u]] \in UnderWay'
  <1> USE DEF Pusher!storeVars, Pusher!channelVars, Pusher!loopVars,
              Pusher!shutdownVars
  <1>1. CASE ~Intake
    BY <1>1 DEF KigeonNext, Receive, Pusher!Receive, Publishing, Published,
                Pusher!Published, QueueStep, kigeonVars, pusherVars
  <1>2. CASE Intake /\ ~Pusher!Informer
    BY <1>2 DEF Intake, Pusher!Handle, Pusher!Push, Pusher!Enqueue, Pusher!Send,
                Pusher!SendOnClosed, Pusher!Drop, Pusher!Run, Pusher!Register,
                Pusher!Sync, Pusher!Close, Pusher!RunReturns, Pusher!LoopStarts,
                Pusher!LoopExits, Pusher!Main, Pusher!Serve, Pusher!StartTimesOut,
                Pusher!StopPods, Pusher!Cancel, Pusher!StopReturns
  <1>3. ASSUME Intake, Pusher!Informer,
               NEW o \in Objects, Pusher!Observe(o), version'[u] # version[u]
        PROVE  /\ Open /\ version[u] \in Nat /\ version'[u] = version[u] + 1
               /\ [uid |-> u, version |-> version'[u]] \in UnderWay'
    <2> DEFINE n == [uid |-> o, old |-> version[o], new |-> version[o] + 1]
    <2>1. /\ notif' = Append(notif, n) /\ version[o] < MaxVersion /\ ~cancelled
          /\ version' = [version EXCEPT ![o] = @ + 1]
      BY <1>3 DEF Pusher!Observe, Pusher!Watching
    <2>2. n \in Notification /\ n.old # n.new
      BY <2>1, PusherTypes, KigeonAssumption DEF Notification
    <2>3. u = o /\ version[u] \in Nat /\ version'[u] = version[u] + 1
      BY <1>3, <2>1, PusherTypes, KigeonAssumption
    <2>4. Version(n) = [uid |-> u, version |-> version'[u]]
      BY <2>3 DEF Version
    <2> HIDE DEF n
    <2>5. Changes(Append(notif, n)) = Changes(notif) \cup {Version(n)}
      BY <2>2, PusherTypes, ChangesAppend
    <2>6. Version(n) \in UnderWay'
      BY <2>1, <2>5 DEF UnderWay
    <2> QED
      BY <1>3, <2>1, <2>3, <2>4, <2>6 DEF Intake, Open
  <1>4. CASE Intake /\ Pusher!Informer
    BY <1>3, <1>4 DEF Intake, Pusher!Informer, Pusher!Discard, Pusher!Resync
  <1>5. ident' = ident
    BY DEF KigeonNext, Intake, Receive, Publishing, Published, QueueStep, kigeonVars
  <1> QED
    BY <1>1, <1>2, <1>4, <1>5

\* Kigeon opens as a process begins to publish, and only then.
LEMMA Opens ==
    ASSUME [KigeonNext]_kigeonVars, ~End
    PROVE  /\ Open' => Open \/ phase # "running"
           /\ phase' # "running" => phase # "running"
  <1> USE DEF Pusher!storeVars, Pusher!channelVars, Pusher!loopVars,
              Pusher!shutdownVars
  <1>1. CASE QueueStep \/ Publishing \/ UNCHANGED kigeonVars
    <2>1. UNCHANGED <<cancelled, main, panicked>>
      BY <1>1 DEF QueueStep, Publishing, kigeonVars, pusherVars
    <2>2. phase' = phase \/ phase # "running"
      BY <1>1 DEF QueueStep, Publishing, kigeonVars, vars, Publish, PublishUnanswered,
           PublishDuplicate, PublishFails, Put, PutFails, Start, Serve, Evict,
           Subscribe, Prune, Consume, Fetch, Ack, Leave, HandleAck, AckTimer, GiveUp,
           ExpireKey, LapseWindow, processVars
    <2>3. phase' # "running" => phase # "running"
      BY <1>1, <2>2
    <2> QED
      BY <2>1, <2>2, <2>3 DEF Open, Running, Pusher!Alive
  <1>2. CASE Intake \/ Receive \/ Published
    <2>1. Running /\ phase' = phase
      BY <1>2 DEF Intake, Receive, Published, vars, Get, processVars
    <2>2. ~cancelled' => ~cancelled
      BY <1>2 DEF Intake, Receive, Published, Pusher!Receive, Pusher!Published,
           Pusher!Informer, Pusher!Discard, Pusher!Observe, Pusher!Resync,
           Pusher!Handle, Pusher!Push, Pusher!Enqueue, Pusher!Send,
           Pusher!SendOnClosed, Pusher!Drop, Pusher!Run, Pusher!Register,
           Pusher!Sync, Pusher!Close, Pusher!RunReturns, Pusher!LoopStarts,
           Pusher!LoopExits, Pusher!Main, Pusher!Serve, Pusher!StartTimesOut,
           Pusher!StopPods, Pusher!Cancel, Pusher!StopReturns
    <2> QED
      BY <2>1, <2>2 DEF Open, Running
  <1> QED
    BY <1>1, <1>2 DEF KigeonNext

\* A process that has yet to publish has seen no version.
AccountInv ==
    /\ NothingLostSilently
    /\ phase # "running" => \A u \in Objects : version[u] = 0

\* The account of NothingLostSilently is kept by every step.
LEMMA NextAccount ==
    ASSUME KigeonInv, KigeonInv', AccountInv, [KigeonNext]_kigeonVars
    PROVE  AccountInv'
  <1>1. CASE End
    BY <1>1 DEF End, Halt, AccountInv, NothingLostSilently, Open, Running
  <1>2. ASSUME ~End, phase' # "running", NEW u \in Objects PROVE version'[u] = 0
    BY <1>2, Opens, VersionMoves DEF KigeonInv, AccountInv, Open, Running
  <1>3. ASSUME ~End, Open', NEW u \in Objects, NEW v \in 1..version'[u]
        PROVE  ident'[[uid |-> u, version |-> v]]
                   \in (Pending \cup Range(log) \cup failed)'
    <2> DEFINE x == [uid |-> u, version |-> v]
    <2>1. ident' = ident /\ version[u] \in Nat
      <3>1. version \in [Objects -> 0..MaxVersion]
        BY PusherTypes DEF KigeonInv
      <3>2. ident' = ident
        BY <1>3, VersionMoves DEF KigeonInv
      <3> QED
        BY <3>1, <3>2, KigeonAssumption
    <2>2. CASE version'[u] = version[u]
      <3>1. Open
        BY <1>3, <2>1, <2>2, Opens DEF AccountInv
      <3>2. ident[x] \in Pending \cup Range(log) \cup failed
        BY <2>2, <3>1 DEF AccountInv, NothingLostSilently
      <3> QED
        BY <1>3, <2>1, <3>1, <3>2, StepMaps, Accounted
    <2>3. CASE version'[u] # version[u]
      <3>1. /\ Open /\ version'[u] = version[u] + 1
            /\ [uid |-> u, version |-> version'[u]] \in UnderWay'
        BY <1>3, <2>3, VersionMoves DEF KigeonInv
      <3>2. CASE v = version'[u]
        BY <3>1, <3>2 DEF Pending
      <3>3. CASE v # version'[u]
        <4>1. v \in 1..version[u]
          BY <2>1, <3>1, <3>3
        <4>2. ident[x] \in Pending \cup Range(log) \cup failed
          BY <3>1, <4>1 DEF AccountInv, NothingLostSilently
        <4> QED
          BY <1>3, <2>1, <3>1, <4>2, StepMaps, Accounted
      <3> QED
        BY <3>2, <3>3
    <2> QED
      BY <2>2, <2>3
  <1> QED
    BY <1>1, <1>2, <1>3 DEF AccountInv, NothingLostSilently

\* NothingLostSilently: for any number of objects, versions and restarts, and
\* any identifiers they share, a version the informer saw is not gone without
\* being stored or leaving an error, as long as no stop has begun.
THEOREM LosesNothingSilently == KigeonSpec => []NothingLostSilently
  <1>1. KigeonInit => AccountInv
    BY DEF KigeonInit, Init, Pusher!Init, AccountInv, NothingLostSilently, Open,
           Running
  <1>2. KigeonInv /\ KigeonInv' /\ AccountInv /\ [KigeonNext]_kigeonVars
            => AccountInv'
    BY NextAccount
  <1>3. AccountInv => NothingLostSilently
    BY DEF AccountInv
  <1> QED
    BY <1>1, <1>2, <1>3, KigeonInvariant, PTL DEF KigeonSpec
=============================================================================
