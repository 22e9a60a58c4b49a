------------------------- MODULE EventPusherProofs -------------------------
(***************************************************************************)
(* Theorems about EventPusher, for any number of Event objects, versions,  *)
(* resyncs and OOM kills and any capacity of the channel.                  *)
(***************************************************************************)
EXTENDS EventPusher, TLAPS, SequenceTheorems

-----------------------------------------------------------------------------
(* Inductive invariants, with TypeOK.                                      *)

\* Only a closed channel ends the loop.
ChannelInv == NothingLostInChannel /\ (loop = "exited" => closed)

\* main cancels the context after the pod informer has stopped.
MainInv ==
    /\ cancelled => main \in {"stoppingPusher", "stopped"}
    /\ hand["oom"] # None => main \in {"serving", "stoppingPods"}

\* A notification the handler will not skip.
Changed(n) == n.old # n.new

\* What was accepted is older than what a producer holds, and that is older
\* than what is yet to be notified, object by object.
AcceptedInOrder ==
    \A i, j \in DOMAIN accepted :
        i < j /\ accepted[i].uid = accepted[j].uid =>
            accepted[i].version < accepted[j].version

HandNewer ==
    \A i \in DOMAIN accepted : \A p \in Producers :
        hand[p] # None /\ accepted[i].uid = hand[p].uid =>
            accepted[i].version < hand[p].version

NotifNewer ==
    \A k \in DOMAIN notif :
        Changed(notif[k]) =>
            /\ \A i \in DOMAIN accepted :
                accepted[i].uid = notif[k].uid => accepted[i].version < notif[k].new
            /\ hand["informer"] # None /\ hand["informer"].uid = notif[k].uid =>
                hand["informer"].version < notif[k].new

NotifInOrder ==
    \A k, l \in DOMAIN notif :
        k < l /\ Changed(notif[l]) /\ notif[k].uid = notif[l].uid =>
            notif[k].new < notif[l].new

\* Nothing is newer than the informer's store.
StoreNewest ==
    /\ \A i \in DOMAIN accepted :
        accepted[i].uid \in Objects => accepted[i].version <= version[accepted[i].uid]
    /\ hand["informer"] # None =>
        /\ hand["informer"].uid \in Objects
        /\ hand["informer"].version <= version[hand["informer"].uid]
    /\ \A k \in DOMAIN notif : notif[k].new <= version[notif[k].uid]

\* An OOM kill is pushed once.
KillsOnce ==
    /\ hand["oom"] # None => hand["oom"].uid \in OomKills \ kills
    /\ \A i \in DOMAIN accepted : accepted[i].uid \notin kills

\* Stop has returned: the context is done, and nothing is being published
\* that may still be stored.
StopInv ==
    (main \in {"stoppingPusher", "stopped"} => cancelled) /\ QueueOutlivesPublications

OrderInv ==
    AcceptedInOrder /\ HandNewer /\ NotifNewer /\ NotifInOrder /\ StoreNewest
    /\ KillsOnce

PusherInv ==
    TypeOK /\ ChannelInv /\ MainInv /\ OrderInv /\ StopInv /\ EveryVersionAccounted

-----------------------------------------------------------------------------
(* Sequences.                                                              *)

LEMMA AppendFacts ==
    ASSUME NEW S, NEW seq \in Seq(S), NEW e \in S
    PROVE  /\ Append(seq, e) \in Seq(S)
           /\ Len(seq) \in Nat
           /\ Len(Append(seq, e)) = Len(seq) + 1
           /\ DOMAIN seq = 1..Len(seq)
           /\ DOMAIN Append(seq, e) = 1..(Len(seq) + 1)
           /\ \A i \in DOMAIN seq : Append(seq, e)[i] = seq[i]
           /\ Append(seq, e)[Len(seq) + 1] = e
  OBVIOUS

LEMMA TailFacts ==
    ASSUME NEW S, NEW seq \in Seq(S), seq # <<>>
    PROVE  /\ Head(seq) \in S /\ Tail(seq) \in Seq(S)
           /\ Len(seq) \in Nat /\ Len(Tail(seq)) = Len(seq) - 1
           /\ DOMAIN seq = 1..Len(seq) /\ 1 \in DOMAIN seq
           /\ DOMAIN Tail(seq) = 1..(Len(seq) - 1)
           /\ Head(seq) = seq[1]
           /\ \A i \in DOMAIN Tail(seq) :
                i + 1 \in DOMAIN seq /\ Tail(seq)[i] = seq[i + 1]
  OBVIOUS

\* A prefix of a sequence, and moving its boundary by one.
LEMMA ConcatFacts ==
    ASSUME NEW S, NEW a \in Seq(S), NEW c \in Seq(S)
    PROVE  /\ \A i \in DOMAIN a : i \in DOMAIN (a \o c) /\ (a \o c)[i] = a[i]
           /\ \A e \in S : Append(a \o c, e) = a \o Append(c, e)
           /\ c # <<>> => a \o c = Append(a, Head(c)) \o Tail(c)
  <1>1. \A i \in DOMAIN a : i \in DOMAIN (a \o c) /\ (a \o c)[i] = a[i]
    OBVIOUS
  <1>2. ASSUME NEW e \in S PROVE Append(a \o c, e) = a \o Append(c, e)
    OBVIOUS
  <1>3. c # <<>> => a \o c = Append(a, Head(c)) \o Tail(c)
    OBVIOUS
  <1> QED
    BY <1>1, <1>2, <1>3

-----------------------------------------------------------------------------
(* Types.                                                                  *)

\* What a handler may hold is an event, and None is none.
LEMMA Events == None \notin Event /\ Event \subseteq [uid : Objects \cup OomKills, version : Nat]
  BY EventPusherAssumption DEF Event

LEMMA InitTypes == Init => TypeOK
  <1> SUFFICES ASSUME Init PROVE TypeOK
    OBVIOUS
  <1>1. \A S : <<>> \in Seq(S) /\ Len(<<>>) = 0
    OBVIOUS
  <1>2. hand \in [Producers -> Event \cup {None}]
    BY DEF Init
  <1>3. version \in [Objects -> 0..MaxVersion] /\ resyncs \in 0..MaxResync
    BY EventPusherAssumption DEF Init
  <1>4. /\ notif \in Seq([uid : Objects, old : 0..MaxVersion, new : 1..MaxVersion])
        /\ channel \in Seq(Event) /\ Len(channel) <= Capacity
        /\ accepted \in Seq(Event) /\ attempted \in Seq(Event)
    BY <1>1, EventPusherAssumption DEF Init
  <1> QED
    BY <1>2, <1>3, <1>4 DEF Init, TypeOK

LEMMA NextTypes == TypeOK /\ [Next]_vars => TypeOK'
  <1> SUFFICES ASSUME TypeOK, [Next]_vars PROVE TypeOK'
    OBVIOUS
  <1> USE EventPusherAssumption
  <1>1. CASE UNCHANGED vars
    BY <1>1 DEF vars, TypeOK
  <1>2. ASSUME NEW u \in Objects, Observe(u) PROVE TypeOK'
    <2>1. version[u] + 1 \in 1..MaxVersion /\ version[u] \in 0..MaxVersion
      BY <1>2 DEF Observe, TypeOK
    <2>2. notif' \in Seq([uid : Objects, old : 0..MaxVersion, new : 1..MaxVersion])
      BY <1>2, <2>1, AppendFacts DEF Observe, TypeOK
    <2>3. version' \in [Objects -> 0..MaxVersion]
      BY <1>2, <2>1 DEF Observe, TypeOK
    <2> QED
      BY <1>2, <2>2, <2>3 DEF Observe, TypeOK, channelVars, loopVars, shutdownVars
  <1>3. ASSUME NEW u \in Objects, Resync(u) PROVE TypeOK'
    <2>1. version[u] \in 1..MaxVersion /\ version[u] \in 0..MaxVersion
      BY <1>3 DEF Resync, TypeOK
    <2>2. notif' \in Seq([uid : Objects, old : 0..MaxVersion, new : 1..MaxVersion])
      BY <1>3, <2>1, AppendFacts DEF Resync, TypeOK
    <2> QED
      BY <1>3, <2>2 DEF Resync, TypeOK, channelVars, loopVars, shutdownVars
  <1>4. CASE Discard
    <2>1. notif' \in Seq([uid : Objects, old : 0..MaxVersion, new : 1..MaxVersion])
      BY <1>4 DEF Discard
    <2> QED
      BY <1>4, <2>1 DEF Discard, TypeOK, channelVars, loopVars, shutdownVars
  <1>5. CASE Handle
    <2> DEFINE h == Head(notif)
    <2>1. /\ h \in [uid : Objects, old : 0..MaxVersion, new : 1..MaxVersion]
          /\ notif' \in Seq([uid : Objects, old : 0..MaxVersion, new : 1..MaxVersion])
      BY <1>5, TailFacts DEF Handle, TypeOK
    <2>2. [uid |-> h.uid, version |-> h.new] \in Event
      BY <2>1 DEF Event
    <2>3. hand' \in [Producers -> Event \cup {None}]
      BY <1>5, <2>2 DEF Handle, TypeOK, Producers
    <2> QED
      BY <1>5, <2>1, <2>3 DEF Handle, TypeOK, channelVars, loopVars, shutdownVars
  <1>6. ASSUME NEW k \in OomKills, Push(k) PROVE TypeOK'
    <2>1. [uid |-> k, version |-> 1] \in Event
      BY DEF Event
    <2>2. hand' \in [Producers -> Event \cup {None}]
      BY <1>6, <2>1 DEF Push, TypeOK, Producers
    <2> QED
      BY <1>6, <2>2 DEF Push, TypeOK, storeVars, channelVars, loopVars, shutdownVars
  <1>7. ASSUME NEW p \in Producers, Send(p) PROVE TypeOK'
    <2>1. hand[p] \in Event
      BY <1>7 DEF Send, TypeOK
    <2>2. /\ channel' \in Seq(Event) /\ Len(channel') <= Capacity
          /\ accepted' \in Seq(Event)
      BY <1>7, <2>1, AppendFacts DEF Send, TypeOK
    <2> QED
      BY <1>7, <2>2 DEF Send, TypeOK, storeVars, loopVars, shutdownVars
  <1>8. ASSUME NEW p \in Producers, SendOnClosed(p) \/ Drop(p) PROVE TypeOK'
    BY <1>8 DEF SendOnClosed, Drop, TypeOK, storeVars, channelVars, loopVars,
                shutdownVars
  <1>9. CASE Run
    BY <1>9 DEF Run, Register, Sync, Close, RunReturns, TypeOK, storeVars,
                channelVars, loopVars, shutdownVars
  <1>10. CASE Receive
    <2>1. /\ Head(channel) \in Event /\ channel' \in Seq(Event)
          /\ Len(channel') <= Capacity
      BY <1>10, TailFacts DEF Receive, TypeOK
    <2>2. attempted' \in Seq(Event)
      BY <1>10, <2>1, AppendFacts DEF Receive, TypeOK
    <2> QED
      BY <1>10, <2>1, <2>2 DEF Receive, TypeOK, storeVars, shutdownVars
  <1>11. CASE LoopStarts \/ Published \/ LoopExits
    BY <1>11 DEF LoopStarts, Published, LoopExits, TypeOK, storeVars,
                 channelVars, shutdownVars
  <1>12. CASE Main
    BY <1>12 DEF Main, Serve, StartTimesOut, StopPods, Cancel, StopReturns,
                 TypeOK, storeVars, channelVars, loopVars
  <1> QED
    BY <1>1, <1>2, <1>3, <1>4, <1>5, <1>6, <1>7, <1>8, <1>9, <1>10, <1>11, <1>12
       DEF Next, Informer, Enqueue, PublishingLoop

-----------------------------------------------------------------------------
(* The channel and the shutdown.                                           *)

LEMMA NextChannel == TypeOK /\ ChannelInv /\ [Next]_vars => ChannelInv'
  <1> SUFFICES ASSUME TypeOK, ChannelInv, [Next]_vars PROVE ChannelInv'
    OBVIOUS
  <1>1. ASSUME UNCHANGED <<accepted, attempted, channel>>,
               loop' = "exited" => closed' /\ (loop = "exited" \/ channel = <<>>)
        PROVE  ChannelInv'
    <2>1. accepted' = attempted' \o channel'
      BY <1>1 DEF ChannelInv, NothingLostInChannel
    <2> QED
      BY <1>1, <2>1 DEF ChannelInv, NothingLostInChannel
  <1>2. CASE Informer \/ Handle \/ UNCHANGED vars
    <2>1. UNCHANGED <<accepted, attempted, channel, loop, closed>>
      BY <1>2 DEF Informer, Observe, Resync, Discard, Handle, channelVars,
                  loopVars, vars
    <2> QED
      BY <1>1, <2>1 DEF ChannelInv
  <1>3. ASSUME NEW k \in OomKills, Push(k) PROVE ChannelInv'
    <2>1. UNCHANGED <<accepted, attempted, channel, loop, closed>>
      BY <1>3 DEF Push, channelVars, loopVars
    <2> QED
      BY <1>1, <2>1 DEF ChannelInv
  <1>4. ASSUME NEW p \in Producers, Send(p) PROVE ChannelInv'
    <2>1. /\ accepted' = Append(accepted, hand[p])
          /\ channel' = Append(channel, hand[p])
          /\ UNCHANGED <<attempted, loop, closed>> /\ ~closed
      BY <1>4 DEF Send, loopVars
    <2>2. /\ hand[p] \in Event
          /\ attempted \in Seq(Event) /\ channel \in Seq(Event)
      BY <1>4 DEF Send, TypeOK
    <2>3. Append(attempted \o channel, hand[p])
            = attempted \o Append(channel, hand[p])
      BY <2>2, ConcatFacts
    <2>4. accepted' = attempted' \o channel'
      BY <2>1, <2>3 DEF ChannelInv, NothingLostInChannel
    <2> QED
      BY <2>1, <2>4 DEF ChannelInv, NothingLostInChannel
  <1>5. ASSUME NEW p \in Producers, SendOnClosed(p) \/ Drop(p)
        PROVE  ChannelInv'
    <2>1. UNCHANGED <<accepted, attempted, channel, loop, closed>>
      BY <1>5 DEF SendOnClosed, Drop, channelVars, loopVars
    <2> QED
      BY <1>1, <2>1 DEF ChannelInv
  <1>6. CASE Run
    <2>1. UNCHANGED <<accepted, attempted, channel>>
      BY <1>6 DEF Run, Register, Sync, Close, RunReturns, channelVars, loopVars
    <2>2. /\ loop' = "exited" => loop = "exited"
          /\ closed => closed'
      BY <1>6 DEF Run, Register, Sync, Close, RunReturns, channelVars, loopVars
    <2> QED
      BY <1>1, <2>1, <2>2 DEF ChannelInv
  <1>7. CASE Receive
    <2>1. /\ attempted' = Append(attempted, Head(channel))
          /\ channel # <<>> /\ channel' = Tail(channel)
          /\ UNCHANGED accepted /\ loop' \in {"publishing", "draining"}
      BY <1>7 DEF Receive
    <2>2. attempted \in Seq(Event) /\ channel \in Seq(Event)
      BY DEF TypeOK
    <2>3. attempted \o channel
            = Append(attempted, Head(channel)) \o Tail(channel)
      BY <2>1, <2>2, ConcatFacts
    <2>4. accepted' = attempted' \o channel'
      BY <2>1, <2>3 DEF ChannelInv, NothingLostInChannel
    <2> QED
      BY <2>1, <2>4 DEF ChannelInv, NothingLostInChannel
  <1>8. CASE LoopStarts \/ Published \/ LoopExits
    <2>1. UNCHANGED <<accepted, attempted, channel, closed>>
      BY <1>8 DEF LoopStarts, Published, LoopExits, channelVars
    <2>2. loop' = "exited" => closed /\ channel = <<>>
      BY <1>8 DEF LoopStarts, Published, LoopExits
    <2> QED
      BY <1>1, <2>1, <2>2
  <1>9. CASE Main
    <2>1. UNCHANGED <<accepted, attempted, channel, loop, closed>>
      BY <1>9 DEF Main, Serve, StartTimesOut, StopPods, Cancel, StopReturns,
                  channelVars, loopVars
    <2> QED
      BY <1>1, <2>1 DEF ChannelInv
  <1> QED
    BY <1>2, <1>3, <1>4, <1>5, <1>6, <1>7, <1>8, <1>9
       DEF Next, Enqueue, PublishingLoop

LEMMA NextMain == TypeOK /\ MainInv /\ [Next]_vars => MainInv'
  <1> SUFFICES ASSUME TypeOK, MainInv, [Next]_vars PROVE MainInv'
    OBVIOUS
  <1>1. ASSUME UNCHANGED <<cancelled, main>>,
               hand'["oom"] # None => hand["oom"] # None
        PROVE  MainInv'
    BY <1>1 DEF MainInv
  <1>2. CASE Informer \/ Run \/ PublishingLoop \/ UNCHANGED vars
    <2>1. UNCHANGED <<cancelled, main, hand>>
      BY <1>2 DEF Informer, Observe, Resync, Discard, Run, Register, Sync, Close,
                  RunReturns, PublishingLoop, LoopStarts, Receive, Published,
                  LoopExits, shutdownVars, vars
    <2> QED
      BY <1>1, <2>1
  <1>3. CASE Handle
    <2>1. UNCHANGED <<cancelled, main>> /\ hand'["oom"] = hand["oom"]
      BY <1>3 DEF Handle, TypeOK, Producers, shutdownVars
    <2> QED
      BY <1>1, <2>1
  <1>4. ASSUME NEW k \in OomKills, Push(k) PROVE MainInv'
    <2>1. /\ UNCHANGED <<cancelled, main>>
          /\ main \in {"serving", "stoppingPods"}
      BY <1>4 DEF Push, shutdownVars
    <2> QED
      BY <2>1 DEF MainInv
  <1>5. ASSUME NEW p \in Producers, Enqueue(p) PROVE MainInv'
    <2>1. /\ UNCHANGED <<cancelled, main>>
          /\ hand'["oom"] # None => hand["oom"] # None
      BY <1>5 DEF Enqueue, Send, SendOnClosed, Drop, TypeOK, Producers,
                  shutdownVars
    <2> QED
      BY <1>1, <2>1
  <1>6. CASE Main
    <2>1. CASE Serve \/ StartTimesOut \/ StopPods
      <3>1. /\ UNCHANGED <<cancelled, hand>>
            /\ main \in {"starting", "serving"}
            /\ main = "serving" => main' = "stoppingPods"
        BY <2>1 DEF Serve, StartTimesOut, StopPods
      <3> QED
        BY <3>1 DEF MainInv
    <2>2. CASE Cancel
      <3>1. hand["oom"] = None /\ UNCHANGED hand /\ main' = "stoppingPusher"
        BY <2>2 DEF Cancel
      <3> QED
        BY <3>1 DEF MainInv
    <2>3. CASE StopReturns
      <3>1. main = "stoppingPusher" /\ UNCHANGED hand /\ main' = "stopped"
        BY <2>3 DEF StopReturns
      <3> QED
        BY <3>1 DEF MainInv
    <2> QED
      BY <1>6, <2>1, <2>2, <2>3 DEF Main
  <1> QED
    BY <1>2, <1>3, <1>4, <1>5, <1>6 DEF Next

-----------------------------------------------------------------------------
(* The order of the versions.                                              *)

\* The parts of OrderInv a step disturbs are those of the variables it changes.
LEMMA OrderFrame ==
    ASSUME OrderInv
    PROVE  /\ UNCHANGED accepted => AcceptedInOrder'
           /\ UNCHANGED <<accepted, hand>> => HandNewer'
           /\ UNCHANGED <<accepted, hand, notif>> => NotifNewer'
           /\ UNCHANGED notif => NotifInOrder'
           /\ UNCHANGED <<accepted, hand, notif, version>> => StoreNewest'
           /\ UNCHANGED <<accepted, hand, kills>> => KillsOnce'
  <1>1. UNCHANGED accepted => AcceptedInOrder'
    BY DEF OrderInv, AcceptedInOrder
  <1>2. UNCHANGED <<accepted, hand>> => HandNewer'
    BY DEF OrderInv, HandNewer
  <1>3. UNCHANGED <<accepted, hand, notif>> => NotifNewer'
    BY DEF OrderInv, NotifNewer, Changed
  <1>4. UNCHANGED notif => NotifInOrder'
    BY DEF OrderInv, NotifInOrder, Changed
  <1>5. UNCHANGED <<accepted, hand, notif, version>> => StoreNewest'
    BY DEF OrderInv, StoreNewest
  <1>6. UNCHANGED <<accepted, hand, kills>> => KillsOnce'
    BY DEF OrderInv, KillsOnce
  <1> QED
    BY <1>1, <1>2, <1>3, <1>4, <1>5, <1>6

Notification == [uid : Objects, old : 0..MaxVersion, new : 1..MaxVersion]

\* The informer appends a notification: of the newest version of its object,
\* newer than all before it unless it repeats one.
LEMMA NotifyOrder ==
    ASSUME TypeOK, OrderInv, NEW n \in Notification,
           notif' = Append(notif, n), UNCHANGED <<accepted, hand, kills>>,
           version' \in [Objects -> 0..MaxVersion],
           \A u \in Objects : version[u] <= version'[u],
           n.new <= version'[n.uid],
           Changed(n) => version[n.uid] < n.new
    PROVE  OrderInv'
  <1>1. /\ Len(notif) \in Nat
        /\ DOMAIN notif = 1..Len(notif) /\ DOMAIN notif' = 1..(Len(notif) + 1)
        /\ \A k \in DOMAIN notif : notif[k] \in Notification /\ notif'[k] = notif[k]
        /\ notif'[Len(notif) + 1] = n
    <2>1. notif \in Seq(Notification)
      BY DEF TypeOK, Notification
    <2>2. \A k \in 1..Len(notif) : notif[k] \in Notification
      BY <2>1, ElementOfSeq
    <2> QED
      BY <2>1, <2>2, AppendFacts
  <1>2. /\ accepted \in Seq(Event) /\ hand \in [Producers -> Event \cup {None}]
        /\ version \in [Objects -> 0..MaxVersion]
        /\ \A i \in DOMAIN accepted : accepted[i] \in Event
    BY ElementOfSeq DEF TypeOK
  <1>3. AcceptedInOrder' /\ HandNewer' /\ KillsOnce'
    BY OrderFrame
  <1>4. ASSUME NEW k \in DOMAIN notif', Changed(notif'[k]),
               NEW i \in DOMAIN accepted, accepted[i].uid = notif'[k].uid
        PROVE  accepted[i].version < notif'[k].new
    <2>1. CASE k \in DOMAIN notif
      BY <1>1, <1>4, <2>1 DEF OrderInv, NotifNewer
    <2>2. CASE k = Len(notif) + 1
      <3>1. accepted[i].version <= version[n.uid] /\ version[n.uid] < n.new
        BY <1>1, <1>4, <2>2 DEF OrderInv, StoreNewest, Notification
      <3>2. accepted[i].version \in Nat /\ version[n.uid] \in Nat /\ n.new \in Nat
        BY <1>2, EventPusherAssumption DEF Event, Notification
      <3> QED
        BY <1>1, <2>2, <3>1, <3>2
    <2> QED
      BY <1>1, <2>1, <2>2
  <1>5. ASSUME NEW k \in DOMAIN notif', Changed(notif'[k]),
               hand["informer"] # None, hand["informer"].uid = notif'[k].uid
        PROVE  hand["informer"].version < notif'[k].new
    <2>1. CASE k \in DOMAIN notif
      BY <1>1, <1>5, <2>1 DEF OrderInv, NotifNewer
    <2>2. CASE k = Len(notif) + 1
      <3>1. hand["informer"].version <= version[n.uid] /\ version[n.uid] < n.new
        BY <1>1, <1>5, <2>2 DEF OrderInv, StoreNewest, Notification
      <3>2. hand["informer"] \in Event
        BY <1>2, <1>5 DEF Producers
      <3>3. hand["informer"].version \in Nat /\ version[n.uid] \in Nat /\ n.new \in Nat
        BY <1>2, <3>2, EventPusherAssumption DEF Event, Notification
      <3> QED
        BY <1>1, <2>2, <3>1, <3>3
    <2> QED
      BY <1>1, <2>1, <2>2
  <1>6. NotifNewer'
    BY <1>4, <1>5 DEF NotifNewer, Changed
  <1>7. ASSUME NEW k \in DOMAIN notif', NEW l \in DOMAIN notif', k < l,
               Changed(notif'[l]), notif'[k].uid = notif'[l].uid
        PROVE  notif'[k].new < notif'[l].new
    <2>1. k \in DOMAIN notif
      BY <1>1, <1>7
    <2>2. CASE l \in DOMAIN notif
      BY <1>1, <1>7, <2>1, <2>2 DEF OrderInv, NotifInOrder
    <2>3. CASE l = Len(notif) + 1
      <3>1. notif[k].new <= version[n.uid] /\ version[n.uid] < n.new
        BY <1>1, <1>7, <2>1, <2>3 DEF OrderInv, StoreNewest
      <3>2. notif[k].new \in Nat /\ version[n.uid] \in Nat /\ n.new \in Nat
        BY <1>1, <1>2, <2>1, EventPusherAssumption DEF Notification
      <3> QED
        BY <1>1, <2>1, <2>3, <3>1, <3>2
    <2> QED
      BY <1>1, <2>2, <2>3
  <1>8. NotifInOrder'
    BY <1>7 DEF NotifInOrder, Changed
  <1>9. StoreNewest'
    <2>1. ASSUME NEW x \in Nat, NEW u \in Objects, x <= version[u]
          PROVE  x <= version'[u]
      BY <1>2, <2>1, EventPusherAssumption
    <2>2. ASSUME NEW i \in DOMAIN accepted, accepted[i].uid \in Objects
          PROVE  accepted[i].version <= version'[accepted[i].uid]
      <3>1. accepted[i].version \in Nat
        BY <1>2, EventPusherAssumption DEF Event
      <3> QED
        BY <2>1, <2>2, <3>1 DEF OrderInv, StoreNewest
    <2>3. ASSUME hand["informer"] # None
          PROVE  /\ hand["informer"].uid \in Objects
                 /\ hand["informer"].version <= version'[hand["informer"].uid]
      <3>1. hand["informer"].version \in Nat
        BY <1>2, <2>3, EventPusherAssumption DEF Event, Producers
      <3> QED
        BY <2>1, <2>3, <3>1 DEF OrderInv, StoreNewest
    <2>4. ASSUME NEW k \in DOMAIN notif'
          PROVE  notif'[k].new <= version'[notif'[k].uid]
      <3>1. CASE k \in DOMAIN notif
        <4>1. notif[k].new \in Nat /\ notif[k].uid \in Objects
          BY <1>1, <3>1 DEF Notification
        <4> QED
          BY <1>1, <2>1, <3>1, <4>1 DEF OrderInv, StoreNewest
      <3>2. CASE k = Len(notif) + 1
        BY <1>1, <3>2
      <3> QED
        BY <1>1, <3>1, <3>2
    <2> QED
      BY <2>2, <2>3, <2>4 DEF StoreNewest
  <1> QED
    BY <1>3, <1>6, <1>8, <1>9 DEF OrderInv

\* The handler takes the oldest notification: what it then holds is newer than
\* all accepted and older than all that is left.
LEMMA HandleOrder == TypeOK /\ OrderInv /\ Handle => OrderInv'
  <1> SUFFICES ASSUME TypeOK, OrderInv, Handle PROVE OrderInv'
    OBVIOUS
  <1> DEFINE h == Head(notif)
  <1>1. /\ notif # <<>> /\ notif' = Tail(notif) /\ hand["informer"] = None
        /\ UNCHANGED <<accepted, kills, version>>
        /\ hand' = IF Changed(h)
                   THEN [hand EXCEPT !["informer"] = [uid |-> h.uid, version |-> h.new]]
                   ELSE hand
    BY DEF Handle, Changed, channelVars
  <1>2. /\ Len(notif) \in Nat
        /\ h = notif[1] /\ 1 \in DOMAIN notif /\ DOMAIN notif = 1..Len(notif)
        /\ DOMAIN notif' = 1..(Len(notif) - 1)
        /\ \A k \in DOMAIN notif' : k + 1 \in DOMAIN notif /\ notif'[k] = notif[k + 1]
        /\ h \in Notification
    <2>1. notif \in Seq(Notification)
      BY DEF TypeOK, Notification
    <2> QED
      BY <1>1, <2>1, TailFacts
  <1>3. /\ hand'["oom"] = hand["oom"]
        /\ hand'["informer"] # None =>
            /\ Changed(h) /\ hand'["informer"].uid = h.uid
            /\ hand'["informer"].version = h.new
    BY <1>1 DEF TypeOK, Producers
  <1>4. AcceptedInOrder' /\ KillsOnce'
    BY <1>1, <1>3, OrderFrame DEF OrderInv, KillsOnce
  <1>5. ASSUME NEW i \in DOMAIN accepted, NEW p \in Producers,
               hand'[p] # None, accepted[i].uid = hand'[p].uid
        PROVE  accepted[i].version < hand'[p].version
    <2>1. CASE p = "oom"
      BY <1>3, <1>5, <2>1 DEF OrderInv, HandNewer
    <2>2. CASE p = "informer"
      BY <1>2, <1>3, <1>5, <2>2 DEF OrderInv, NotifNewer
    <2> QED
      BY <2>1, <2>2 DEF Producers
  <1>6. HandNewer'
    BY <1>1, <1>5 DEF HandNewer
  <1>7. ASSUME NEW k \in DOMAIN notif', Changed(notif'[k])
        PROVE  /\ \A i \in DOMAIN accepted :
                    accepted[i].uid = notif'[k].uid =>
                        accepted[i].version < notif'[k].new
               /\ hand'["informer"] # None /\ hand'["informer"].uid = notif'[k].uid =>
                    hand'["informer"].version < notif'[k].new
    <2>1. k + 1 \in DOMAIN notif /\ 1 < k + 1 /\ notif'[k] = notif[k + 1]
      BY <1>2
    <2>2. \A i \in DOMAIN accepted :
            accepted[i].uid = notif'[k].uid => accepted[i].version < notif'[k].new
      BY <1>7, <2>1 DEF OrderInv, NotifNewer
    <2>3. h.uid = notif'[k].uid => h.new < notif'[k].new
      BY <1>2, <1>7, <2>1 DEF OrderInv, NotifInOrder
    <2> QED
      BY <1>3, <2>2, <2>3
  <1>8. NotifNewer'
    BY <1>1, <1>7 DEF NotifNewer, Changed
  <1>9. NotifInOrder'
    <2>1. ASSUME NEW k \in DOMAIN notif', NEW l \in DOMAIN notif', k < l,
                 Changed(notif'[l]), notif'[k].uid = notif'[l].uid
          PROVE  notif'[k].new < notif'[l].new
      <3>1. k + 1 < l + 1
        BY <1>2, <2>1
      <3> QED
        BY <1>2, <2>1, <3>1 DEF OrderInv, NotifInOrder
    <2> QED
      BY <2>1 DEF NotifInOrder, Changed
  <1>10. StoreNewest'
    <2>1. h.uid \in Objects /\ h.new <= version[h.uid]
      BY <1>2 DEF OrderInv, StoreNewest, Notification
    <2>2. \A k \in DOMAIN notif' : notif'[k].new <= version[notif'[k].uid]
      BY <1>2 DEF OrderInv, StoreNewest
    <2> QED
      BY <1>1, <1>3, <2>1, <2>2 DEF OrderInv, StoreNewest
  <1> QED
    BY <1>4, <1>6, <1>8, <1>9, <1>10 DEF OrderInv

\* A producer that lets go of its event, or of none, leaves the order alone.
LEMMA LetGoOrder ==
    ASSUME OrderInv, UNCHANGED <<version, notif, kills, accepted>>,
           \A p \in Producers : hand'[p] = hand[p] \/ hand'[p] = None
    PROVE  OrderInv'
  <1>1. AcceptedInOrder' /\ NotifInOrder'
    BY OrderFrame
  <1>2. HandNewer'
    BY DEF OrderInv, HandNewer
  <1>3. hand'["informer"] = hand["informer"] \/ hand'["informer"] = None
    BY DEF Producers
  <1>4. hand'["oom"] = hand["oom"] \/ hand'["oom"] = None
    BY DEF Producers
  <1>5. NotifNewer'
    BY <1>3 DEF OrderInv, NotifNewer, Changed
  <1>6. StoreNewest'
    BY <1>3 DEF OrderInv, StoreNewest
  <1>7. KillsOnce'
    BY <1>4 DEF OrderInv, KillsOnce
  <1> QED
    BY <1>1, <1>2, <1>5, <1>6, <1>7 DEF OrderInv

\* enqueue sends what a producer holds: newer than all accepted before it, and
\* of another object than what the other producer holds.
LEMMA SendOrder ==
    ASSUME TypeOK, OrderInv, NEW p \in Producers, Send(p)
    PROVE  OrderInv'
  <1>1. /\ hand[p] # None /\ accepted' = Append(accepted, hand[p])
        /\ hand' = [hand EXCEPT ![p] = None]
        /\ UNCHANGED <<version, notif, kills>>
    BY DEF Send, storeVars
  <1>2. hand[p] \in Event
    BY <1>1 DEF TypeOK
  <1>3. /\ Len(accepted) \in Nat
        /\ DOMAIN accepted = 1..Len(accepted)
        /\ DOMAIN accepted' = 1..(Len(accepted) + 1)
        /\ \A i \in DOMAIN accepted : accepted'[i] = accepted[i]
        /\ accepted'[Len(accepted) + 1] = hand[p]
    <2>1. accepted \in Seq(Event)
      BY DEF TypeOK
    <2> QED
      BY <1>1, <1>2, <2>1, AppendFacts
  <1>4. \A q \in Producers : hand'[q] = IF q = p THEN None ELSE hand[q]
    BY <1>1 DEF TypeOK
  <1>5. \A q \in Producers : q # p /\ hand[q] # None => hand[q].uid # hand[p].uid
    BY <1>1, EventPusherAssumption DEF OrderInv, StoreNewest, KillsOnce, Producers
  <1>6. AcceptedInOrder'
    <2>1. ASSUME NEW i \in DOMAIN accepted', NEW j \in DOMAIN accepted',
                 i < j, accepted'[i].uid = accepted'[j].uid
          PROVE  accepted'[i].version < accepted'[j].version
      <3>1. i \in DOMAIN accepted
        BY <1>3, <2>1
      <3>2. CASE j \in DOMAIN accepted
        BY <1>3, <2>1, <3>1, <3>2 DEF OrderInv, AcceptedInOrder
      <3>3. CASE j = Len(accepted) + 1
        BY <1>1, <1>3, <2>1, <3>1, <3>3 DEF OrderInv, HandNewer
      <3> QED
        BY <1>3, <3>2, <3>3
    <2> QED
      BY <2>1 DEF AcceptedInOrder
  <1>7. HandNewer'
    <2>1. ASSUME NEW i \in DOMAIN accepted', NEW q \in Producers,
                 hand'[q] # None, accepted'[i].uid = hand'[q].uid
          PROVE  accepted'[i].version < hand'[q].version
      <3>1. q # p /\ hand'[q] = hand[q]
        BY <1>4, <2>1
      <3>2. i # Len(accepted) + 1
        BY <1>3, <1>5, <2>1, <3>1
      <3>3. i \in DOMAIN accepted /\ accepted'[i] = accepted[i]
        BY <1>3, <3>2
      <3> QED
        BY <2>1, <3>1, <3>3 DEF OrderInv, HandNewer
    <2> QED
      BY <2>1 DEF HandNewer
  <1>8. NotifNewer'
    <2>1. ASSUME NEW k \in DOMAIN notif, Changed(notif[k]),
                 NEW i \in DOMAIN accepted', accepted'[i].uid = notif[k].uid
          PROVE  accepted'[i].version < notif[k].new
      <3>1. CASE i \in DOMAIN accepted
        BY <1>3, <2>1, <3>1 DEF OrderInv, NotifNewer
      <3>2. CASE i = Len(accepted) + 1
        <4>1. notif[k].uid \in Objects
          <5>1. notif \in Seq(Notification)
            BY DEF TypeOK, Notification
          <5>2. notif[k] \in Notification
            BY <5>1, ElementOfSeq, LenProperties
          <5> QED
            BY <5>2 DEF Notification
        <4>2. p = "informer"
          BY <1>1, <1>3, <2>1, <3>2, <4>1, EventPusherAssumption
             DEF OrderInv, KillsOnce, Producers
        <4> QED
          BY <1>1, <1>3, <2>1, <3>2, <4>2 DEF OrderInv, NotifNewer
      <3> QED
        BY <1>3, <3>1, <3>2
    <2>2. hand'["informer"] = hand["informer"] \/ hand'["informer"] = None
      BY <1>4 DEF Producers
    <2>3. ASSUME NEW k \in DOMAIN notif, Changed(notif[k]),
                 hand'["informer"] # None, hand'["informer"].uid = notif[k].uid
          PROVE  hand'["informer"].version < notif[k].new
      BY <2>2, <2>3 DEF OrderInv, NotifNewer
    <2> QED
      BY <1>1, <2>1, <2>3 DEF NotifNewer, Changed
  <1>9. NotifInOrder'
    BY <1>1, OrderFrame
  <1>10. StoreNewest'
    <2>1. ASSUME NEW i \in DOMAIN accepted', accepted'[i].uid \in Objects
          PROVE  accepted'[i].version <= version[accepted'[i].uid]
      <3>1. CASE i \in DOMAIN accepted
        BY <1>3, <2>1, <3>1 DEF OrderInv, StoreNewest
      <3>2. CASE i = Len(accepted) + 1
        <4>1. p = "informer"
          BY <1>1, <1>3, <2>1, <3>2, EventPusherAssumption
             DEF OrderInv, KillsOnce, Producers
        <4> QED
          BY <1>1, <1>3, <3>2, <4>1 DEF OrderInv, StoreNewest
      <3> QED
        BY <1>3, <3>1, <3>2
    <2>2. hand'["informer"] = hand["informer"] \/ hand'["informer"] = None
      BY <1>4 DEF Producers
    <2> QED
      BY <1>1, <2>1, <2>2 DEF OrderInv, StoreNewest
  <1>11. KillsOnce'
    <2>1. hand'["oom"] = hand["oom"] \/ hand'["oom"] = None
      BY <1>4 DEF Producers
    <2>2. hand[p].uid \notin kills
      BY <1>1, EventPusherAssumption
         DEF OrderInv, StoreNewest, KillsOnce, Producers, TypeOK
    <2>3. \A i \in DOMAIN accepted' : accepted'[i].uid \notin kills
      BY <1>3, <2>2 DEF OrderInv, KillsOnce
    <2> QED
      BY <1>1, <2>1, <2>3 DEF OrderInv, KillsOnce
  <1> QED
    BY <1>6, <1>7, <1>8, <1>9, <1>10, <1>11 DEF OrderInv

LEMMA PushOrder ==
    ASSUME TypeOK, OrderInv, NEW k \in OomKills, Push(k)
    PROVE  OrderInv'
  <1>1. /\ k \in kills /\ kills' = kills \ {k}
        /\ hand' = [hand EXCEPT !["oom"] = [uid |-> k, version |-> 1]]
        /\ UNCHANGED <<version, notif, accepted>>
    BY DEF Push, storeVars, channelVars
  <1>2. /\ hand'["informer"] = hand["informer"]
        /\ hand'["oom"] = [uid |-> k, version |-> 1]
    BY <1>1 DEF TypeOK, Producers
  <1>3. AcceptedInOrder' /\ NotifInOrder'
    BY <1>1, OrderFrame
  <1>4. HandNewer'
    <2>1. \A i \in DOMAIN accepted : accepted[i].uid # k
      BY <1>1 DEF OrderInv, KillsOnce
    <2> QED
      BY <1>1, <1>2, <2>1 DEF OrderInv, HandNewer, Producers
  <1>5. NotifNewer'
    BY <1>1, <1>2 DEF OrderInv, NotifNewer, Changed
  <1>6. StoreNewest'
    BY <1>1, <1>2 DEF OrderInv, StoreNewest
  <1>7. KillsOnce'
    BY <1>1, <1>2 DEF OrderInv, KillsOnce
  <1> QED
    BY <1>3, <1>4, <1>5, <1>6, <1>7 DEF OrderInv

LEMMA NextOrder == TypeOK /\ OrderInv /\ [Next]_vars => OrderInv'
  <1> SUFFICES ASSUME TypeOK, OrderInv, [Next]_vars PROVE OrderInv'
    OBVIOUS
  <1>1. ASSUME NEW u \in Objects, Observe(u) PROVE OrderInv'
    <2> DEFINE n == [uid |-> u, old |-> version[u], new |-> version[u] + 1]
    <2>1. /\ version[u] < MaxVersion /\ notif' = Append(notif, n)
          /\ version' = [version EXCEPT ![u] = @ + 1]
          /\ UNCHANGED <<accepted, hand, kills>>
      BY <1>1 DEF Observe, channelVars
    <2>2. version \in [Objects -> 0..MaxVersion]
      BY DEF TypeOK
    <2>3. n \in Notification
      BY <2>1, <2>2, EventPusherAssumption DEF Notification
    <2>4. /\ version' \in [Objects -> 0..MaxVersion]
          /\ \A v \in Objects : version[v] <= version'[v]
          /\ n.new <= version'[n.uid] /\ version[n.uid] < n.new
      BY <2>1, <2>2, EventPusherAssumption
    <2> HIDE DEF n
    <2> QED
      BY <2>1, <2>3, <2>4, NotifyOrder
  <1>2. ASSUME NEW u \in Objects, Resync(u) PROVE OrderInv'
    <2> DEFINE n == [uid |-> u, old |-> version[u], new |-> version[u]]
    <2>1. /\ version[u] > 0 /\ notif' = Append(notif, n)
          /\ UNCHANGED <<version, accepted, hand, kills>>
      BY <1>2 DEF Resync, channelVars
    <2>2. version \in [Objects -> 0..MaxVersion]
      BY DEF TypeOK
    <2>3. n \in Notification
      BY <2>1, <2>2, EventPusherAssumption DEF Notification
    <2>4. /\ version' \in [Objects -> 0..MaxVersion]
          /\ \A v \in Objects : version[v] <= version'[v]
          /\ n.new <= version'[n.uid] /\ ~Changed(n)
      BY <2>1, <2>2, EventPusherAssumption DEF Changed
    <2> HIDE DEF n
    <2> QED
      BY <2>1, <2>3, <2>4, NotifyOrder
  <1>3. CASE Discard
    <2>1. notif' = <<>> /\ UNCHANGED <<version, kills, hand, accepted>>
      BY <1>3 DEF Discard, channelVars
    <2>2. AcceptedInOrder' /\ HandNewer' /\ KillsOnce'
      BY <2>1, OrderFrame
    <2>3. NotifNewer' /\ NotifInOrder' /\ StoreNewest'
      BY <2>1 DEF OrderInv, NotifNewer, NotifInOrder, StoreNewest
    <2> QED
      BY <2>2, <2>3 DEF OrderInv
  <1>4. CASE Handle
    BY <1>4, HandleOrder
  <1>5. ASSUME NEW k \in OomKills, Push(k) PROVE OrderInv'
    BY <1>5, PushOrder
  <1>6. ASSUME NEW p \in Producers, Send(p) PROVE OrderInv'
    BY <1>6, SendOrder
  <1>7. ASSUME NEW p \in Producers, SendOnClosed(p) \/ Drop(p) PROVE OrderInv'
    <2>1. /\ UNCHANGED <<version, notif, kills, accepted>>
          /\ \A q \in Producers : hand'[q] = hand[q] \/ hand'[q] = None
      BY <1>7 DEF SendOnClosed, Drop, storeVars, channelVars, TypeOK
    <2> QED
      BY <2>1, LetGoOrder
  <1>8. CASE Run \/ PublishingLoop \/ Main \/ UNCHANGED vars
    <2>1. UNCHANGED <<version, notif, kills, hand, accepted>>
      BY <1>8 DEF Run, Register, Sync, Close, RunReturns, PublishingLoop,
                  LoopStarts, Receive, Published, LoopExits, Main, Serve,
                  StartTimesOut, StopPods, Cancel, StopReturns, storeVars,
                  channelVars, vars
    <2> QED
      BY <2>1, LetGoOrder
  <1> QED
    BY <1>1, <1>2, <1>3, <1>4, <1>5, <1>6, <1>7, <1>8 DEF Next, Informer, Enqueue

\* Stop misses a loop yet to start, which then drains with a context done.
LEMMA NextStop == StopInv /\ [Next]_vars => StopInv'
  <1> SUFFICES ASSUME StopInv, [Next]_vars PROVE StopInv'
    OBVIOUS
  <1> USE DEF StopInv, QueueOutlivesPublications
  <1>1. CASE PublishingLoop
    BY <1>1 DEF PublishingLoop, LoopStarts, Receive, Published, LoopExits,
                shutdownVars
  <1>2. CASE Main
    BY <1>2 DEF Main, Serve, StartTimesOut, StopPods, Cancel, StopReturns,
                WaitGroupZero, loopVars
  <1>3. CASE Run
    BY <1>3 DEF Run, Register, Sync, Close, RunReturns, loopVars, shutdownVars
  <1>4. CASE UNCHANGED vars
    BY <1>4 DEF vars
  <1>5. CASE Informer \/ Handle
    BY <1>5 DEF Informer, Observe, Resync, Discard, Handle, loopVars, shutdownVars
  <1>6. ASSUME NEW k \in OomKills, Push(k) PROVE StopInv'
    BY <1>6 DEF Push, loopVars, shutdownVars
  <1>7. ASSUME NEW p \in Producers, Enqueue(p) PROVE StopInv'
    BY <1>7 DEF Enqueue, Send, SendOnClosed, Drop, loopVars, shutdownVars
  <1> QED
    BY <1>1, <1>2, <1>3, <1>4, <1>5, <1>6, <1>7 DEF Next

-----------------------------------------------------------------------------
(* No version is lost before the shutdown.                                 *)

\* Where a version of an object may be, short of lost.
Waits(u, v, q) == \E i \in DOMAIN q : q[i].uid = u /\ q[i].new = v /\ q[i].old # v
IsSent(u, v, a) == \E i \in DOMAIN a : a[i] = [uid |-> u, version |-> v]
Accounted(u, v) ==
    \/ Waits(u, v, notif)
    \/ hand["informer"] = [uid |-> u, version |-> v]
    \/ IsSent(u, v, accepted)

LEMMA AccountedSame ==
    EveryVersionAccounted
        <=> (~cancelled => \A u \in Objects : \A v \in 1..version[u] : Accounted(u, v))
  BY DEF EveryVersionAccounted, Accounted, Waits, IsSent

\* The handler takes a notification: the version moves to its hand, or waits on.
LEMMA HandleKeeps ==
    ASSUME TypeOK, Handle, NEW u \in Objects, NEW v \in Nat, Accounted(u, v)
    PROVE  Accounted(u, v)'
  <1> DEFINE n == Head(notif)
  <1>1. /\ notif # <<>> /\ hand["informer"] = None /\ notif' = Tail(notif)
        /\ hand' = IF n.old # n.new
                   THEN [hand EXCEPT !["informer"] = [uid |-> n.uid, version |-> n.new]]
                   ELSE hand
        /\ UNCHANGED accepted
    BY DEF Handle, channelVars
  <1>2. notif \in Seq(Notification)
    BY DEF TypeOK, Notification
  <1>3. /\ DOMAIN notif = 1..Len(notif) /\ Len(notif) \in Nat
        /\ DOMAIN Tail(notif) = 1..(Len(notif) - 1)
        /\ n = notif[1] /\ n \in Notification
        /\ \A i \in DOMAIN Tail(notif) : Tail(notif)[i] = notif[i + 1]
    BY <1>1, <1>2, TailFacts
  <1>4. CASE Waits(u, v, notif)
    <2>1. PICK i \in DOMAIN notif :
            notif[i].uid = u /\ notif[i].new = v /\ notif[i].old # v
      BY <1>4 DEF Waits
    <2>2. CASE i = 1
      BY <1>1, <1>3, <2>1, <2>2 DEF Accounted, TypeOK, Producers
    <2>3. CASE i # 1
      <3>1. i - 1 \in DOMAIN Tail(notif) /\ Tail(notif)[i - 1] = notif[i]
        BY <1>3, <2>3
      <3>2. Waits(u, v, Tail(notif))
        BY <2>1, <3>1 DEF Waits
      <3> QED
        BY <1>1, <3>2 DEF Accounted
    <2> QED
      BY <2>2, <2>3
  <1>5. CASE hand["informer"] = [uid |-> u, version |-> v]
    BY <1>1, <1>5, EventPusherAssumption
  <1>6. CASE IsSent(u, v, accepted)
    BY <1>1, <1>6 DEF Accounted
  <1> QED
    BY <1>4, <1>5, <1>6 DEF Accounted

\* A version enqueued is one accepted, and appending loses none.
LEMMA SendKeeps ==
    ASSUME TypeOK, NEW p \in Producers, Send(p),
           NEW u \in Objects, NEW v \in Nat, Accounted(u, v)
    PROVE  Accounted(u, v)'
  <1>1. /\ hand[p] # None /\ hand[p] \in Event
        /\ accepted' = Append(accepted, hand[p])
        /\ hand' = [hand EXCEPT ![p] = None]
        /\ UNCHANGED notif
    BY DEF Send, storeVars, TypeOK
  <1>2. /\ Len(accepted) \in Nat
        /\ DOMAIN accepted = 1..Len(accepted)
        /\ DOMAIN accepted' = 1..(Len(accepted) + 1)
        /\ \A i \in DOMAIN accepted : accepted'[i] = accepted[i]
        /\ accepted'[Len(accepted) + 1] = hand[p]
    <2>1. accepted \in Seq(Event)
      BY DEF TypeOK
    <2> QED
      BY <1>1, <2>1, AppendFacts
  <1>3. CASE Waits(u, v, notif)
    BY <1>1, <1>3 DEF Accounted
  <1>4. CASE hand["informer"] = [uid |-> u, version |-> v]
    <2>1. CASE p = "informer"
      BY <1>2, <1>4, <2>1 DEF Accounted, IsSent
    <2>2. CASE p # "informer"
      BY <1>1, <1>4, <2>2 DEF Accounted, TypeOK, Producers
    <2> QED
      BY <2>1, <2>2
  <1>5. CASE IsSent(u, v, accepted)
    BY <1>2, <1>5 DEF Accounted, IsSent
  <1> QED
    BY <1>3, <1>4, <1>5 DEF Accounted

\* A notification appended keeps those that wait.
LEMMA AppendKeepsWaiting ==
    ASSUME NEW q \in Seq(Notification), NEW n \in Notification,
           NEW u, NEW v, Waits(u, v, q)
    PROVE  Waits(u, v, Append(q, n))
  <1>1. DOMAIN q \subseteq DOMAIN Append(q, n) /\ \A i \in DOMAIN q : Append(q, n)[i] = q[i]
    BY AppendFacts
  <1> QED
    BY <1>1 DEF Waits

LEMMA NextAccounted == TypeOK /\ EveryVersionAccounted /\ [Next]_vars => EveryVersionAccounted'
  <1> SUFFICES ASSUME TypeOK, EveryVersionAccounted, [Next]_vars
               PROVE  EveryVersionAccounted'
    OBVIOUS
  <1> USE EventPusherAssumption
  <1>0. ASSUME ~cancelled, NEW u \in Objects, NEW v \in 1..version[u]
        PROVE  Accounted(u, v)
    BY <1>0, AccountedSame
  <1>a. SUFFICES ~cancelled' => \A u \in Objects : \A v \in 1..version'[u] : Accounted(u, v)'
    BY DEF EveryVersionAccounted, Accounted, Waits, IsSent
  <1>t. version \in [Objects -> 0..MaxVersion] /\ notif \in Seq(Notification)
    BY DEF TypeOK, Notification
  <1>1. ASSUME NEW w \in Objects, Observe(w), ~cancelled',
               NEW u \in Objects, NEW v \in 1..version'[u]
        PROVE  Accounted(u, v)'
    <2> DEFINE n == [uid |-> w, old |-> version[w], new |-> version[w] + 1]
    <2>1. /\ ~cancelled /\ version[w] < MaxVersion
          /\ version' = [version EXCEPT ![w] = @ + 1]
          /\ notif' = Append(notif, n) /\ UNCHANGED <<hand, accepted>>
      BY <1>1 DEF Observe, shutdownVars, channelVars
    <2>2. n \in Notification
      BY <1>t, <2>1 DEF Notification
    <2>3. CASE v \in 1..version[u]
      <3>1. Accounted(u, v)
        BY <1>0, <2>1, <2>3
      <3>2. Waits(u, v, notif) => Waits(u, v, notif')
        BY <1>t, <2>1, <2>2, AppendKeepsWaiting
      <3> QED
        BY <2>1, <3>1, <3>2 DEF Accounted
    <2>4. CASE v \notin 1..version[u]
      <3>1. u = w /\ v = version[w] + 1
        BY <1>1, <1>t, <2>1, <2>4
      <3>2. Len(notif) + 1 \in DOMAIN notif' /\ notif'[Len(notif) + 1] = n
        BY <1>t, <2>1, <2>2, AppendFacts
      <3>3. version[w] # version[w] + 1
        BY <1>t
      <3> QED
        BY <3>1, <3>2, <3>3 DEF Accounted, Waits
    <2> QED
      BY <2>3, <2>4
  <1>2. ASSUME NEW w \in Objects, Resync(w), ~cancelled',
               NEW u \in Objects, NEW v \in 1..version'[u]
        PROVE  Accounted(u, v)'
    <2> DEFINE n == [uid |-> w, old |-> version[w], new |-> version[w]]
    <2>1. /\ ~cancelled /\ version[w] > 0
          /\ notif' = Append(notif, n) /\ UNCHANGED <<version, hand, accepted>>
      BY <1>2 DEF Resync, shutdownVars, channelVars
    <2>2. n \in Notification
      BY <1>t, <2>1 DEF Notification
    <2>3. Accounted(u, v)
      BY <1>0, <1>2, <2>1
    <2>4. Waits(u, v, notif) => Waits(u, v, notif')
      BY <1>t, <2>1, <2>2, AppendKeepsWaiting
    <2> QED
      BY <2>1, <2>3, <2>4 DEF Accounted
  <1>3. ASSUME Handle, ~cancelled', NEW u \in Objects, NEW v \in 1..version'[u]
        PROVE  Accounted(u, v)'
    <2>1. ~cancelled /\ UNCHANGED version /\ v \in Nat
      BY <1>3, <1>t DEF Handle, shutdownVars
    <2> QED
      BY <1>0, <1>3, <2>1, HandleKeeps
  <1>4. ASSUME NEW p \in Producers, Send(p), ~cancelled',
               NEW u \in Objects, NEW v \in 1..version'[u]
        PROVE  Accounted(u, v)'
    <2>1. ~cancelled /\ UNCHANGED version /\ v \in Nat
      BY <1>4, <1>t DEF Send, shutdownVars, storeVars
    <2> QED
      BY <1>0, <1>4, <2>1, SendKeeps
  <1>5. ASSUME NEW k \in OomKills, Push(k), ~cancelled',
               NEW u \in Objects, NEW v \in 1..version'[u]
        PROVE  Accounted(u, v)'
    <2>1. /\ ~cancelled /\ UNCHANGED <<version, notif, accepted>>
          /\ hand'["informer"] = hand["informer"]
      BY <1>5 DEF Push, shutdownVars, storeVars, channelVars, TypeOK, Producers
    <2> QED
      BY <1>0, <1>5, <2>1 DEF Accounted
  <1>6. ASSUME Discard \/ (\E p \in Producers : Drop(p)) PROVE cancelled'
    BY <1>6 DEF Discard, Drop, shutdownVars
  <1>7. ASSUME NEW p \in Producers,
               SendOnClosed(p) \/ Run \/ PublishingLoop \/ Main \/ UNCHANGED vars,
               ~cancelled', NEW u \in Objects, NEW v \in 1..version'[u]
        PROVE  Accounted(u, v)'
    <2>1. ~cancelled /\ UNCHANGED <<version, notif, hand, accepted>>
      BY <1>7 DEF SendOnClosed, Run, Register, Sync, Close, RunReturns,
                  PublishingLoop, LoopStarts, Receive, Published, LoopExits, Main,
                  Serve, StartTimesOut, StopPods, Cancel, StopReturns, storeVars,
                  channelVars, loopVars, shutdownVars, vars
    <2> QED
      BY <1>0, <1>7, <2>1 DEF Accounted
  <1> QED
    <2>1. "oom" \in Producers
      BY DEF Producers
    <2> QED
      BY <1>1, <1>2, <1>3, <1>4, <1>5, <1>6, <1>7, <2>1 DEF Next, Informer, Enqueue

LEMMA InitPusherInv == Init => PusherInv
  <1> SUFFICES ASSUME Init PROVE PusherInv
    OBVIOUS
  <1>1. <<>> \o <<>> = <<>> /\ DOMAIN <<>> = {}
    OBVIOUS
  <1>2. ChannelInv /\ MainInv
    BY <1>1 DEF Init, ChannelInv, NothingLostInChannel, MainInv, Producers
  <1>3. /\ accepted = <<>> /\ notif = <<>>
        /\ \A p \in Producers : hand[p] = None
    BY DEF Init
  <1>4. AcceptedInOrder /\ HandNewer /\ NotifNewer /\ NotifInOrder
    BY <1>1, <1>3 DEF AcceptedInOrder, HandNewer, NotifNewer, NotifInOrder
  <1>5. StoreNewest /\ KillsOnce
    BY <1>1, <1>3 DEF StoreNewest, KillsOnce, Producers
  <1>6. StopInv
    BY DEF Init, StopInv, QueueOutlivesPublications
  <1>7. EveryVersionAccounted
    BY DEF Init, EveryVersionAccounted
  <1> QED
    BY <1>2, <1>4, <1>5, <1>6, <1>7, InitTypes DEF PusherInv, OrderInv

LEMMA NextPusherInv == PusherInv /\ [Next]_vars => PusherInv'
  BY NextTypes, NextChannel, NextMain, NextOrder, NextStop, NextAccounted
     DEF PusherInv

\* The invariant of the pusher.
THEOREM PusherInvariant == Spec => []PusherInv
  BY InitPusherInv, NextPusherInv, PTL DEF Spec

\* The types of NewEventPusher's fields, of main and of the goroutines.
THEOREM PusherTypeCorrect == Spec => []TypeOK
  <1>1. PusherInv => TypeOK
    BY DEF PusherInv
  <1> QED
    BY <1>1, PusherInvariant, PTL

\* EveryVersionAccounted: the informer handlers, enqueue and the channel lose
\* no version of an Event object before the shutdown.
THEOREM NoVersionLost == Spec => []EveryVersionAccounted
  <1>1. PusherInv => EveryVersionAccounted
    BY DEF PusherInv
  <1> QED
    BY <1>1, PusherInvariant, PTL

\* QueueOutlivesPublications: when Stop has returned, and main goes on to stop
\* the event queue, no publication is under way that could still succeed.
THEOREM StopEndsPublications == Spec => []QueueOutlivesPublications
  <1>1. PusherInv => QueueOutlivesPublications
    BY DEF PusherInv, StopInv
  <1> QED
    BY <1>1, PusherInvariant, PTL

\* PushNeverAfterStop: main, stopping, waits for the pod informer's handler
\* before it cancels the context Run closes the channel on.
THEOREM PushesEndBeforeStop == Spec => []PushNeverAfterStop
  <1>1. PusherInv => PushNeverAfterStop
    BY DEF PusherInv, MainInv, PushNeverAfterStop
  <1> QED
    BY <1>1, PusherInvariant, PTL

\* NothingLostInChannel: enqueue, the channel and the publishing loop, for any
\* number of events and any capacity.
THEOREM ChannelLosesNothing == Spec => []NothingLostInChannel
  <1>1. PusherInv => NothingLostInChannel
    BY DEF PusherInv, ChannelInv
  <1> QED
    BY <1>1, PusherInvariant, PTL

\* VersionsOnceInOrder: what was given to PublishEvent is a prefix of what was
\* accepted, and that is in order through the informer, its handler and enqueue.
THEOREM PublishedInOrder == Spec => []VersionsOnceInOrder
  <1>1. PusherInv => VersionsOnceInOrder
    <2> SUFFICES ASSUME PusherInv PROVE VersionsOnceInOrder
      OBVIOUS
    <2>1. attempted \in Seq(Event) /\ channel \in Seq(Event)
      BY DEF PusherInv, TypeOK
    <2>2. \A i \in DOMAIN attempted :
            i \in DOMAIN accepted /\ accepted[i] = attempted[i]
      BY <2>1, ConcatFacts DEF PusherInv, ChannelInv, NothingLostInChannel
    <2> QED
      BY <2>2 DEF PusherInv, OrderInv, AcceptedInOrder, VersionsOnceInOrder
  <1> QED
    BY <1>1, PusherInvariant, PTL
=============================================================================
