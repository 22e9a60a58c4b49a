---------------------------- MODULE IngestProofs ----------------------------
(***************************************************************************)
(* Theorems about Ingest, for any number of OOM kills, Event objects and   *)
(* starts, any maxAge and any lifetime of keys that is not shorter.        *)
(***************************************************************************)
EXTENDS Ingest, TLAPS, SequenceTheorems

-----------------------------------------------------------------------------
(* The inductive invariant, with TypeOK.                                   *)

Has(s, k) == k \in {s.state, s.last}

\* The times of an event on its way: the kill, the check of its age, the write
\* of its key.
Timely(e) ==
    /\ e.checked <= now
    /\ e.item \in Kills =>
        /\ born[e.item] # 0 /\ e.checked - born[e.item] <= MaxAge

TimeInv ==
    /\ \A i \in DOMAIN channel : Timely(channel[i])
    /\ hand # None => Timely(hand)
    /\ \A k \in Kills : key[k] # 0 => born[k] # 0 /\ key[k] >= born[k]
    /\ hand # None /\ hand.at = "publish" /\ key[hand.item] # 0
        => hand.got >= key[hand.item] + Lifetime

\* The handler has seen all but the statuses pending, and a new process has
\* seen none.
HandlerInv ==
    /\ ~up => pending = <<>> /\ old = Blank /\ \A k \in Kills : reports[k] = 0
    /\ up /\ pending = <<>> => old = status
    /\ pending # <<>> => pending[Len(pending)] = status

\* A kill that is in a status or reported has happened.
HappenedInv ==
    \A k \in Kills :
        /\ Has(status, k) \/ Has(old, k) \/ reports[k] # 0 => born[k] # 0
        /\ \A i \in DOMAIN pending : Has(pending[i], k) => born[k] # 0

\* A kill that has left the status does not come back: not to the handler that
\* reported it, ...
GoneInv ==
    \A k \in Kills : ~Has(old, k) /\ reports[k] # 0 =>
        \A i \in DOMAIN pending : ~Has(pending[i], k)

\* ... nor after a status that lacks it among those the handler has yet to see.
OnceGoneInv ==
    \A k \in Kills : \A i, j \in DOMAIN pending :
        i < j /\ ~Has(pending[i], k) =>
            /\ Has(old, k) => ~Has(pending[j], k)
            /\ \A h \in DOMAIN pending : h < i /\ Has(pending[h], k) => ~Has(pending[j], k)

ReportInv ==
    /\ HandlerInv /\ HappenedInv /\ GoneInv /\ OnceGoneInv
    /\ ReportedOnce

IngestInv == TypeOK /\ TimeInv /\ ReportInv

-----------------------------------------------------------------------------
(* What the handler reports.                                               *)

NewIn(s, k) == k \in Kills /\ Killed(s, k) /\ ~Known(k)

\* Only new kills of the status, and no others.
LEMMA ReportedFacts ==
    ASSUME NEW s \in Status
    PROVE  /\ Reported(s) \in Seq(Kills)
           /\ \A j \in DOMAIN Reported(s) : NewIn(s, Reported(s)[j])
  <1> DEFINE a == IF NewIn(s, s.state) THEN <<s.state>> ELSE <<>>
             b == IF NewIn(s, s.last) THEN <<s.last>> ELSE <<>>
  <1>1. Reported(s) = a \o b
    BY DEF Reported, NewIn
  <1>2. /\ a \in Seq(Kills) /\ \A j \in DOMAIN a : NewIn(s, a[j])
        /\ b \in Seq(Kills) /\ \A j \in DOMAIN b : NewIn(s, b[j])
    <2>1. CASE NewIn(s, s.state) /\ NewIn(s, s.last)
      BY <2>1 DEF NewIn
    <2>2. CASE NewIn(s, s.state) /\ ~NewIn(s, s.last)
      BY <2>2 DEF NewIn
    <2>3. CASE ~NewIn(s, s.state) /\ NewIn(s, s.last)
      BY <2>3 DEF NewIn
    <2>4. CASE ~NewIn(s, s.state) /\ ~NewIn(s, s.last)
      BY <2>4 DEF NewIn
    <2> QED
      BY <2>1, <2>2, <2>3, <2>4
  <1> HIDE DEF a, b
  <1>3. /\ a \o b \in Seq(Kills) /\ DOMAIN (a \o b) = 1..(Len(a) + Len(b))
        /\ \A j \in DOMAIN (a \o b) :
            \/ j \in DOMAIN a /\ (a \o b)[j] = a[j]
            \/ j - Len(a) \in DOMAIN b /\ (a \o b)[j] = b[j - Len(a)]
    BY <1>2
  <1> QED
    BY <1>1, <1>2, <1>3

\* What HandlePod appends to the channel.
LEMMA EntryFacts ==
    ASSUME TypeOK, NEW new \in Seq(Kills), NEW q \in Seq(Entry)
    PROVE  LET entries == [j \in DOMAIN new |-> [item |-> new[j], checked |-> now]]
           IN  /\ q \o entries \in Seq(Entry)
               /\ \A i \in DOMAIN (q \o entries) :
                    \/ i \in DOMAIN q /\ (q \o entries)[i] = q[i]
                    \/ \E j \in DOMAIN new :
                        (q \o entries)[i] = [item |-> new[j], checked |-> now]
  <1> DEFINE entries == [j \in DOMAIN new |-> [item |-> new[j], checked |-> now]]
  <1>1. now \in 1..MaxTime /\ DOMAIN new = 1..Len(new) /\ Len(new) \in Nat
    BY DEF TypeOK
  <1>2. \A j \in DOMAIN new : [item |-> new[j], checked |-> now] \in Entry
    BY <1>1 DEF Entry, Items
  <1>3. entries \in Seq(Entry) /\ Len(entries) = Len(new) /\ DOMAIN entries = DOMAIN new
    BY <1>1, <1>2
  <1>4. \A j \in DOMAIN new : entries[j] = [item |-> new[j], checked |-> now]
    OBVIOUS
  <1> HIDE DEF entries
  <1>5. /\ q \o entries \in Seq(Entry)
        /\ \A i \in DOMAIN (q \o entries) :
            \/ i \in DOMAIN q /\ (q \o entries)[i] = q[i]
            \/ i - Len(q) \in DOMAIN entries /\ (q \o entries)[i] = entries[i - Len(q)]
    BY <1>3
  <1>6. q \o entries \in Seq(Entry)
        /\ \A i \in DOMAIN (q \o entries) :
            \/ i \in DOMAIN q /\ (q \o entries)[i] = q[i]
            \/ \E j \in DOMAIN new :
                (q \o entries)[i] = [item |-> new[j], checked |-> now]
    BY <1>3, <1>4, <1>5
  <1> QED
    BY <1>6 DEF entries

\* The statuses after the one handled.
LEMMA LaterFacts ==
    ASSUME NEW S, NEW q \in Seq(S), NEW i \in DOMAIN q
    PROVE  /\ SubSeq(q, i + 1, Len(q)) \in Seq(S) /\ q[i] \in S
           /\ i \in 1..Len(q) /\ Len(q) \in Nat /\ DOMAIN q = 1..Len(q)
           /\ Len(SubSeq(q, i + 1, Len(q))) = Len(q) - i
           /\ DOMAIN SubSeq(q, i + 1, Len(q)) = 1..(Len(q) - i)
           /\ \A j \in 1..(Len(q) - i) : SubSeq(q, i + 1, Len(q))[j] = q[i + j]
  <1>1. i \in 1..Len(q) /\ Len(q) \in Nat /\ DOMAIN q = 1..Len(q) /\ q[i] \in S
    OBVIOUS
  <1> QED
    BY <1>1, SubSeqProperties

LEMMA AppendedFacts ==
    ASSUME NEW S, NEW q \in Seq(S), NEW e \in S
    PROVE  /\ Append(q, e) \in Seq(S) /\ Append(q, e) # <<>>
           /\ Len(q) \in Nat /\ DOMAIN q = 1..Len(q)
           /\ Len(Append(q, e)) = Len(q) + 1
           /\ DOMAIN Append(q, e) = 1..(Len(q) + 1)
           /\ \A i \in DOMAIN q : Append(q, e)[i] = q[i]
           /\ Append(q, e)[Len(q) + 1] = e
  OBVIOUS

-----------------------------------------------------------------------------
(* Types and times.                                                        *)

LEMMA InitInv == Init => IngestInv
  <1> SUFFICES ASSUME Init PROVE IngestInv
    OBVIOUS
  <1> USE IngestAssumption DEF Init
  <1>1. Blank \in Status /\ \A k \in Kills : ~Has(Blank, k)
    BY DEF Blank, Status, Has, Items
  <1>2. \A S : <<>> \in Seq(S) /\ DOMAIN <<>> = {} /\ Len(<<>>) = 0
    BY EmptySeq
  <1>4. now \in 1..MaxTime /\ starts \in 0..MaxStarts
    <2>1. /\ MaxTime \in Nat /\ MaxTime # 0 /\ MaxStarts \in Nat
          /\ now = 1 /\ starts = 0
      OBVIOUS
    <2> HIDE IngestAssumption DEF Init
    <2> QED
      BY <2>1
  <1>3. TypeOK
    <2>1. /\ born \in [Kills -> 0..now] /\ key \in [Items -> 0..now]
          /\ reports \in [Kills -> 0..2]
          /\ events \in [Objects -> {"new", "shown", "gone"}]
      OBVIOUS
    <2>2. pending \in Seq(Status) /\ channel \in Seq(Entry)
      BY <1>2
    <2>3. up \in BOOLEAN
      OBVIOUS
    <2>4. status \in Status /\ old \in Status /\ hand \in Calls \cup {None}
      BY <1>1
    <2>5. listed \subseteq Objects /\ stored \subseteq Items /\ failed \subseteq Items
      OBVIOUS
    <2> HIDE DEF Init
    <2> QED
      BY <1>4, <2>1, <2>2, <2>3, <2>4, <2>5 DEF TypeOK
  <1>8. TimeInv
    BY <1>2 DEF TimeInv, Items
  <1>5. HandlerInv /\ HappenedInv
    BY <1>1, <1>2 DEF HandlerInv, HappenedInv
  <1>6. GoneInv /\ OnceGoneInv /\ ReportedOnce
    BY <1>2 DEF GoneInv, OnceGoneInv, ReportedOnce
  <1> QED
    BY <1>3, <1>8, <1>5, <1>6 DEF IngestInv, ReportInv

\* The steps of PublishEvent, alike: nothing of the cluster or the informers.
LoopStep == Receive \/ Get \/ Publish \/ PublishDuplicate \/ PublishFails \/ Put

LEMMA LoopFrame ==
    LoopStep => up /\ UNCHANGED <<clusterVars, starts, up, informerVars>>
  BY DEF LoopStep, Receive, Get, Publish, PublishDuplicate, PublishFails, Put,
         PublishReturns, At

\* What HandlePod does, for the status it handles.
LEMMA HandlePodFacts ==
    ASSUME TypeOK, HandlePod
    PROVE  \E i \in DOMAIN pending :
            /\ up /\ UNCHANGED <<clusterVars, starts, up, listed, hand, queueVars, failed>>
            /\ pending' = SubSeq(pending, i + 1, Len(pending)) /\ old' = pending[i]
            /\ pending' \in Seq(Status) /\ pending[i] \in Status
            /\ channel' \in Seq(Entry) /\ reports' \in [Kills -> 0..2]
            /\ \A n \in DOMAIN channel' :
                \/ n \in DOMAIN channel /\ channel'[n] = channel[n]
                \/ \E k \in Kills : /\ NewIn(pending[i], k)
                                    /\ channel'[n] = [item |-> k, checked |-> now]
            /\ \A k \in Kills :
                \/ reports'[k] = reports[k]
                \/ reports'[k] = reports[k] + 1 /\ NewIn(pending[i], k)
  <1>1. PICK i \in DOMAIN pending :
            LET new == Reported(pending[i])
            IN  /\ pending' = SubSeq(pending, i + 1, Len(pending))
                /\ old' = pending[i]
                /\ channel' = channel \o [j \in DOMAIN new |->
                                             [item |-> new[j], checked |-> now]]
                /\ reports' = [k \in Kills |->
                                  IF (\E j \in DOMAIN new : new[j] = k) /\ reports[k] < 2
                                  THEN reports[k] + 1 ELSE reports[k]]
    BY DEF HandlePod
  <1> DEFINE new == Reported(pending[i])
  <1>2. pending[i] \in Status /\ pending' \in Seq(Status)
    BY <1>1, LaterFacts DEF TypeOK
  <1>3. /\ new \in Seq(Kills)
        /\ \A j \in DOMAIN new : new[j] \in Kills /\ NewIn(pending[i], new[j])
    BY <1>2, ReportedFacts DEF NewIn
  <1> HIDE DEF new
  <1>4. /\ channel' \in Seq(Entry)
        /\ \A n \in DOMAIN channel' :
            \/ n \in DOMAIN channel /\ channel'[n] = channel[n]
            \/ \E k \in Kills : /\ NewIn(pending[i], k)
                                /\ channel'[n] = [item |-> k, checked |-> now]
    <2>1. channel \in Seq(Entry)
      BY DEF TypeOK
    <2>2. channel' = channel \o [j \in DOMAIN new |-> [item |-> new[j], checked |-> now]]
      BY <1>1 DEF new
    <2> QED
      BY <1>3, <2>1, <2>2, EntryFacts
  <1>5. /\ reports' = [k \in Kills |->
                          IF (\E j \in DOMAIN new : new[j] = k) /\ reports[k] < 2
                          THEN reports[k] + 1 ELSE reports[k]]
        /\ reports \in [Kills -> 0..2]
    BY <1>1 DEF new, TypeOK
  <1>6. /\ reports' \in [Kills -> 0..2]
        /\ \A k \in Kills :
            \/ reports'[k] = reports[k]
            \/ reports'[k] = reports[k] + 1 /\ NewIn(pending[i], k)
    BY <1>3, <1>5
  <1>7. up /\ UNCHANGED <<clusterVars, starts, up, listed, hand, queueVars, failed>>
    BY DEF HandlePod
  <1> QED
    BY <1>1, <1>2, <1>4, <1>6, <1>7

LEMMA NextTypes == TypeOK /\ [Next]_vars => TypeOK'
  <1> SUFFICES ASSUME TypeOK, [Next]_vars PROVE TypeOK'
    OBVIOUS
  <1> USE IngestAssumption
  <1>0. /\ now \in 1..MaxTime /\ now \in Nat /\ pending \in Seq(Status)
        /\ channel \in Seq(Entry) /\ status \in Status
        /\ born \in [Kills -> 0..now] /\ key \in [Items -> 0..now]
    BY DEF TypeOK
  <1>1. CASE Tick
    BY <1>0, <1>1 DEF Tick, TypeOK, informerVars, queueVars
  <1>2. ASSUME NEW s \in Status, NewStatus(s), born' \in [Kills -> 0..now]
        PROVE  TypeOK'
    <2>1. pending' \in Seq(Status)
      BY <1>0, <1>2, AppendedFacts DEF NewStatus
    <2> QED
      BY <1>2, <2>1 DEF NewStatus, TypeOK, queueVars
  <1>3. CASE \E k \in Kills : OOMKill(k)
    <2>1. PICK k \in Kills : OOMKill(k)
      BY <1>3
    <2>2. [status EXCEPT !.state = k] \in Status /\ born' \in [Kills -> 0..now]
      BY <1>0, <2>1 DEF OOMKill, Status
    <2> QED
      BY <1>2, <2>1, <2>2 DEF OOMKill
  <1>4. CASE RestartContainer \/ OtherEnd
    <2>1. [state |-> None, last |-> status.state] \in Status /\ Blank \in Status
      BY <1>0 DEF Status, Blank
    <2> QED
      BY <1>0, <1>2, <1>4, <2>1 DEF RestartContainer, OtherEnd
  <1>5. CASE \E o \in Objects : EventShown(o) \/ EventGone(o)
    BY <1>5 DEF EventShown, EventGone, TypeOK, informerVars, queueVars
  <1>6. CASE Start
    <2>1. <<status>> \in Seq(Status)
      BY <1>0
    <2> QED
      BY <1>6, <2>1 DEF Start, TypeOK, clusterVars, queueVars
  <1>7. CASE Halt
    <2>1. <<>> \in Seq(Status) /\ <<>> \in Seq(Entry) /\ Blank \in Status
      BY EmptySeq DEF Blank, Status
    <2>2. /\ up' = FALSE /\ pending' = <<>> /\ old' = Blank /\ listed' = {}
          /\ channel' = <<>> /\ hand' = None /\ failed' = {}
          /\ UNCHANGED <<now, born, status, events, starts, key, stored>>
      BY <1>7 DEF Halt, clusterVars, queueVars
    <2>3. reports' \in [Kills -> 0..2]
      BY <1>7 DEF Halt
    <2> QED
      BY <2>1, <2>2, <2>3 DEF TypeOK
  <1>8. CASE HandlePod
    <2>1. /\ pending' \in Seq(Status) /\ old' \in Status /\ channel' \in Seq(Entry)
          /\ reports' \in [Kills -> 0..2]
          /\ UNCHANGED <<clusterVars, starts, up, listed, hand, queueVars, failed>>
      BY <1>8, HandlePodFacts
    <2> QED
      BY <2>1 DEF TypeOK, clusterVars, queueVars
  <1>9. CASE \E o \in Objects : HandleEvent(o)
    <2>1. PICK o \in Objects : HandleEvent(o)
      BY <1>9
    <2>2. [item |-> o, checked |-> now] \in Entry
      BY <1>0 DEF Entry, Items
    <2>3. channel' \in Seq(Entry)
      BY <1>0, <2>1, <2>2, AppendedFacts DEF HandleEvent
    <2> QED
      BY <2>1, <2>3 DEF HandleEvent, TypeOK, clusterVars, queueVars
  <1>10. CASE LoopStep
    <2>1. UNCHANGED <<clusterVars, starts, up, informerVars>>
      BY <1>10, LoopFrame
    <2>2. CASE Receive
      <3>1. Head(channel) \in Entry /\ Tail(channel) \in Seq(Entry)
        BY <1>0, <2>2, HeadTailProperties DEF Receive
      <3>2. hand' \in Calls
        BY <2>2, <3>1 DEF Receive, Entry, Calls
      <3> QED
        BY <2>1, <2>2, <3>1, <3>2 DEF Receive, TypeOK, clusterVars, informerVars, queueVars
    <2>3. CASE Get \/ Publish \/ PublishDuplicate \/ PublishFails \/ Put
      <3>1. hand # None /\ hand \in Calls /\ hand.item \in Items
        BY <2>3 DEF Get, Publish, PublishDuplicate, PublishFails, Put, At, TypeOK, Calls
      <3>2. UNCHANGED channel
        BY <2>3 DEF Get, Publish, PublishDuplicate, PublishFails, Put, PublishReturns
      <3>3. hand' \in Calls \cup {None}
        <4>1. /\ hand \in Calls /\ now \in 0..MaxTime
              /\ "publish" \in {"get", "publish", "put"} /\ "put" \in {"get", "publish", "put"}
          BY <1>0, <3>1
        <4>2. [hand EXCEPT !.at = "publish", !.got = now] \in Calls
          BY <4>1 DEF Calls
        <4>3. [hand EXCEPT !.at = "put"] \in Calls
          BY <4>1 DEF Calls
        <4> QED
          BY <2>3, <3>1, <4>2, <4>3 DEF Get, Publish, PublishDuplicate, PublishFails, Put,
                                        PublishReturns
      <3>4. key' \in [Items -> 0..now]
        <4>1. [key EXCEPT ![hand.item] = now] \in [Items -> 0..now]
          BY <1>0, <3>1
        <4> QED
          BY <1>0, <2>3, <4>1 DEF Get, Publish, PublishDuplicate, PublishFails, Put,
                                  queueVars
      <3>5. stored' \subseteq Items
        <4>1. stored \subseteq Items /\ stored \cup {hand.item} \subseteq Items
          BY <3>1 DEF TypeOK
        <4> QED
          BY <2>3, <4>1 DEF Get, Publish, PublishDuplicate, PublishFails, Put, queueVars
      <3>6. failed' \subseteq Items
        <4>1. failed \subseteq Items /\ failed \cup {hand.item} \subseteq Items
          BY <3>1 DEF TypeOK
        <4> QED
          BY <2>3, <4>1 DEF Get, Publish, PublishDuplicate, PublishFails, Put
      <3> QED
        BY <2>1, <3>2, <3>3, <3>4, <3>5, <3>6 DEF TypeOK, clusterVars, informerVars
    <2> QED
      BY <1>10, <2>2, <2>3 DEF LoopStep
  <1>11. CASE UNCHANGED vars
    BY <1>11 DEF vars, TypeOK
  <1> QED
    BY <1>1, <1>3, <1>4, <1>5, <1>6, <1>7, <1>8, <1>9, <1>10, <1>11
       DEF Next, Cluster, PublishingLoop, LoopStep

\* A kill born meanwhile is none that is on its way or has a key.
LEMMA NextTimes == TypeOK /\ TimeInv /\ HappenedInv /\ [Next]_vars => TimeInv'
  <1> SUFFICES ASSUME TypeOK, TimeInv, HappenedInv, [Next]_vars PROVE TimeInv'
    OBVIOUS
  <1> USE IngestAssumption
  <1>0. /\ now \in 1..MaxTime /\ now \in Nat /\ channel \in Seq(Entry)
        /\ born \in [Kills -> 0..now] /\ key \in [Items -> 0..now]
        /\ hand \in Calls \cup {None}
        /\ \A i \in DOMAIN channel : channel[i] \in Entry
        /\ \A k \in Kills : k \in Items
    BY DEF TypeOK, Items
  <1>1. CASE Tick
    <2>1. now' = now + 1 /\ UNCHANGED <<born, channel, hand, key>>
      BY <1>1 DEF Tick, queueVars
    <2>2. ASSUME NEW e \in Entry \cup Calls, Timely(e) PROVE Timely(e)'
      BY <1>0, <2>1, <2>2 DEF Timely, Entry, Calls
    <2> QED
      BY <1>0, <2>1, <2>2 DEF TimeInv
  <1>2. CASE \E k \in Kills : OOMKill(k)
    <2>1. PICK k \in Kills : OOMKill(k)
      BY <1>2
    <2>2. /\ born[k] = 0 /\ born' = [born EXCEPT ![k] = now]
          /\ UNCHANGED <<now, channel, hand, key>>
      BY <2>1 DEF OOMKill, NewStatus, queueVars
    <2>3. ASSUME NEW e, Timely(e) PROVE Timely(e)'
      BY <1>0, <2>2, <2>3 DEF Timely
    <2>4. \A i \in DOMAIN channel' : Timely(channel[i])'
      BY <2>2, <2>3 DEF TimeInv
    <2>5. hand # None => Timely(hand)'
      <3>1. hand # None => Timely(hand)
        BY DEF TimeInv
      <3>2. hand' = hand /\ born' = [born EXCEPT ![k] = now] /\ now' = now
        BY <2>2
      <3> QED
        BY <1>0, <2>2, <3>1, <3>2 DEF Timely
    <2>6. \A l \in Kills : key[l] # 0 => born'[l] # 0 /\ key[l] >= born'[l]
      <3>1. \A l \in Kills : born'[l] = IF l = k THEN now ELSE born[l]
        BY <1>0, <2>2
      <3> QED
        BY <1>0, <2>2, <3>1 DEF TimeInv
    <2> QED
      BY <2>2, <2>4, <2>5, <2>6 DEF TimeInv, Timely
  <1>3. CASE HandlePod
    <2>1. PICK i \in DOMAIN pending :
            /\ UNCHANGED <<clusterVars, hand, queueVars>>
            /\ \A n \in DOMAIN channel' :
                \/ n \in DOMAIN channel /\ channel'[n] = channel[n]
                \/ \E k \in Kills : /\ NewIn(pending[i], k)
                                    /\ channel'[n] = [item |-> k, checked |-> now]
      BY <1>3, HandlePodFacts
    <2>2. ASSUME NEW k \in Kills, NewIn(pending[i], k)
          PROVE  Timely([item |-> k, checked |-> now])
      <3>1. Has(pending[i], k) /\ now - born[k] <= MaxAge
        BY <2>2 DEF NewIn, Killed, Has
      <3> QED
        BY <1>0, <3>1 DEF HappenedInv, Timely
    <2>3. UNCHANGED <<now, born, hand, key>>
      BY <2>1 DEF clusterVars, queueVars
    <2>4. \A n \in DOMAIN channel' : Timely(channel'[n])
      BY <2>1, <2>2 DEF TimeInv
    <2> QED
      BY <2>3, <2>4 DEF TimeInv, Timely
  <1>4. CASE \E o \in Objects : HandleEvent(o)
    <2>1. PICK o \in Objects : HandleEvent(o)
      BY <1>4
    <2>2. channel' = Append(channel, [item |-> o, checked |-> now])
          /\ UNCHANGED <<now, born, hand, key>>
      BY <2>1 DEF HandleEvent, clusterVars, queueVars
    <2>3. [item |-> o, checked |-> now] \in Entry
      BY <1>0 DEF Entry, Items
    <2>4. Timely([item |-> o, checked |-> now])
      BY <1>0 DEF Timely
    <2>5. \A n \in DOMAIN channel' : Timely(channel'[n])
      BY <1>0, <2>2, <2>3, <2>4, AppendedFacts DEF TimeInv
    <2> QED
      BY <2>2, <2>5 DEF TimeInv, Timely
  <1>5. CASE Halt
    <2>1. channel' = <<>> /\ hand' = None /\ UNCHANGED <<born, key>>
      BY <1>5 DEF Halt, clusterVars, queueVars
    <2> QED
      BY <1>0, <2>1 DEF TimeInv
  <1>6. CASE LoopStep
    <2>1. UNCHANGED <<now, born>>
      BY <1>6, LoopFrame DEF clusterVars
    <2>2. CASE Receive
      <3>1. /\ channel # <<>> /\ channel' = Tail(channel) /\ UNCHANGED key
            /\ hand' = [item |-> Head(channel).item, checked |-> Head(channel).checked,
                        at |-> "get", got |-> 0]
        BY <2>2 DEF Receive, queueVars
      <3>2. /\ \A n \in DOMAIN Tail(channel) :
                n + 1 \in DOMAIN channel /\ Tail(channel)[n] = channel[n + 1]
            /\ 1 \in DOMAIN channel /\ Head(channel) = channel[1]
        BY <1>0, <3>1
      <3>3. Timely(hand')
        BY <3>1, <3>2 DEF TimeInv, Timely
      <3>4. \A n \in DOMAIN channel' : Timely(channel'[n])
        BY <3>1, <3>2 DEF TimeInv
      <3>5. hand'.at # "publish"
        BY <3>1
      <3> QED
        BY <2>1, <3>1, <3>3, <3>4, <3>5 DEF TimeInv, Timely
    <2>3. CASE Get
      <3>1. hand # None /\ hand \in Calls /\ UNCHANGED <<channel, key>>
        BY <1>0, <2>3 DEF Get, At, PublishReturns, queueVars
      <3>2. \/ hand' = None
            \/ /\ hand' = [hand EXCEPT !.at = "publish", !.got = now]
               /\ key[hand.item] # 0 => now >= key[hand.item] + Lifetime
        BY <1>0, <2>3, <3>1 DEF Get, PublishReturns, Calls
      <3>3. hand' # None => /\ hand'.item = hand.item /\ hand'.checked = hand.checked
                            /\ hand'.got = now
        BY <3>1, <3>2 DEF Calls
      <3>4. hand' # None => Timely(hand')
        BY <3>1, <3>3 DEF TimeInv, Timely
      <3> QED
        BY <2>1, <3>1, <3>2, <3>3, <3>4 DEF TimeInv, Timely
    <2>4. CASE Publish
      <3>1. /\ hand # None /\ hand \in Calls /\ UNCHANGED <<channel, key>>
            /\ hand' = [hand EXCEPT !.at = "put"]
        BY <1>0, <2>4 DEF Publish, At
      <3>2. hand'.item = hand.item /\ hand'.checked = hand.checked /\ hand'.at = "put"
        BY <3>1 DEF Calls
      <3> QED
        BY <2>1, <3>1, <3>2 DEF TimeInv, Timely
    <2>5. CASE PublishDuplicate \/ PublishFails
      <3>1. hand' = None /\ UNCHANGED <<channel, key>>
        BY <2>5 DEF PublishDuplicate, PublishFails, PublishReturns, queueVars
      <3> QED
        BY <2>1, <3>1 DEF TimeInv, Timely
    <2>6. CASE Put
      <3>1. /\ hand' = None /\ UNCHANGED channel
            /\ hand \in Calls /\ hand.item \in Items
            /\ key' = [key EXCEPT ![hand.item] = now] \/ key' = key
        BY <1>0, <2>6 DEF Put, PublishReturns, At, Calls
      <3>3. \A k \in Kills : key'[k] # 0 => born[k] # 0 /\ key'[k] >= born[k]
        <4>1. \A k \in Kills : key'[k] = key[k] \/ (k = hand.item /\ key'[k] = now)
          <5> SUFFICES ASSUME NEW k \in Kills, key'[k] # key[k]
                       PROVE  k = hand.item /\ key'[k] = now
            OBVIOUS
          <5>1. key' = [key EXCEPT ![hand.item] = now]
            BY <3>1
          <5>2. k \in Items
            BY <1>0
          <5> QED
            BY <1>0, <5>1, <5>2
        <4>2. hand.item \in Kills => born[hand.item] # 0
          BY <2>6 DEF TimeInv, Timely, Put, At
        <4> QED
          BY <1>0, <4>1, <4>2 DEF TimeInv
      <3> QED
        BY <2>1, <3>1, <3>3 DEF TimeInv, Timely
    <2> QED
      BY <1>6, <2>2, <2>3, <2>4, <2>5, <2>6 DEF LoopStep
  <1>7. CASE \/ RestartContainer \/ OtherEnd \/ Start \/ UNCHANGED vars
             \/ \E o \in Objects : EventShown(o) \/ EventGone(o)
    <2>1. UNCHANGED <<now, born, channel, hand, key>>
      BY <1>7 DEF RestartContainer, OtherEnd, NewStatus, Start, EventShown, EventGone,
                  clusterVars, queueVars, vars
    <2> QED
      BY <2>1 DEF TimeInv, Timely
  <1> QED
    BY <1>1, <1>2, <1>3, <1>4, <1>5, <1>6, <1>7
       DEF Next, Cluster, PublishingLoop, LoopStep

-----------------------------------------------------------------------------
(* A kill leaves the status of the container for good.                     *)

\* A new status holds no kill that has left it.
LEMMA StatusReport ==
    ASSUME TypeOK, ReportInv, NEW s \in Status, NewStatus(s),
           \A k \in Kills : Has(s, k) => Has(status, k) \/ born[k] = 0,
           \A k \in Kills : born[k] # 0 \/ Has(s, k) => born'[k] # 0
    PROVE  ReportInv'
  <1>1. /\ pending \in Seq(Status) /\ status' = s
        /\ UNCHANGED <<up, old, reports>>
    BY DEF NewStatus, TypeOK
  <1>2. CASE ~up
    <2>1. pending = <<>> /\ pending' = <<>> /\ old = Blank /\ \A k \in Kills : reports[k] = 0
      BY <1>2 DEF NewStatus, ReportInv, HandlerInv
    <2>2. HandlerInv'
      BY <1>1, <1>2, <2>1 DEF HandlerInv
    <2>3. HappenedInv'
      BY <1>1, <2>1 DEF ReportInv, HappenedInv
    <2>4. GoneInv' /\ OnceGoneInv' /\ ReportedOnce'
      BY <1>1, <2>1 DEF ReportInv, GoneInv, OnceGoneInv, ReportedOnce
    <2> QED
      BY <2>2, <2>3, <2>4 DEF ReportInv
  <1>3. CASE up
    <2> DEFINE n == Len(pending)
    <2>1. /\ n \in Nat /\ DOMAIN pending = 1..n /\ pending' # <<>>
          /\ Len(pending') = n + 1 /\ DOMAIN pending' = 1..(n + 1)
          /\ \A i \in 1..n : pending'[i] = pending[i]
          /\ pending'[n + 1] = s
      <3>1. pending' = Append(pending, s)
        BY <1>3 DEF NewStatus
      <3> QED
        BY <1>1, <3>1, AppendedFacts
    <2>2. IF n = 0 THEN old = status ELSE pending[n] = status
      <3>1. n = 0 <=> pending = <<>>
        BY <1>1
      <3> QED
        BY <1>3, <3>1 DEF ReportInv, HandlerInv
    <2> HIDE DEF n
    <2>3. HandlerInv'
      BY <1>1, <1>3, <2>1 DEF HandlerInv
    <2>4. HappenedInv'
      <3>1. \A k \in Kills : \A i \in 1..n : Has(pending[i], k) => born[k] # 0
        BY <2>1 DEF ReportInv, HappenedInv
      <3>2. \A k \in Kills : \A i \in DOMAIN pending' : Has(pending'[i], k) => born'[k] # 0
        BY <2>1, <3>1
      <3> QED
        BY <1>1, <3>2 DEF ReportInv, HappenedInv
    <2>5. GoneInv'
      <3> SUFFICES ASSUME NEW k \in Kills, ~Has(old, k), reports[k] # 0,
                          NEW i \in 1..(n + 1), Has(pending'[i], k)
                   PROVE  FALSE
        BY <1>1, <2>1 DEF GoneInv
      <3>1. \A j \in 1..n : ~Has(pending[j], k)
        BY <2>1 DEF ReportInv, GoneInv
      <3>2. i = n + 1 /\ Has(s, k)
        BY <2>1, <3>1
      <3>3. Has(status, k)
        BY <3>2 DEF ReportInv, HappenedInv
      <3> QED
        BY <2>1, <2>2, <3>1, <3>3
    <2>6. OnceGoneInv'
      <3> SUFFICES ASSUME NEW k \in Kills, NEW i \in 1..(n + 1), NEW j \in 1..(n + 1),
                          i < j, ~Has(pending'[i], k), Has(pending'[j], k),
                          \/ Has(old, k)
                          \/ \E h \in 1..(n + 1) : h < i /\ Has(pending'[h], k)
                   PROVE  FALSE
        BY <1>1, <2>1 DEF OnceGoneInv
      <3>1. /\ i \in 1..n /\ ~Has(pending[i], k)
            /\ Has(old, k) \/ \E h \in 1..n : h < i /\ Has(pending[h], k)
        BY <2>1
      <3>2. \A l \in 1..n : i < l => ~Has(pending[l], k)
        BY <2>1, <3>1 DEF ReportInv, OnceGoneInv
      <3>3. j = n + 1 /\ Has(s, k)
        BY <2>1, <3>2
      <3>4. born[k] # 0
        BY <2>1, <3>1 DEF ReportInv, HappenedInv
      <3>5. Has(status, k)
        BY <3>3, <3>4
      <3>6. n \in 1..n /\ Has(pending[n], k)
        BY <2>1, <2>2, <3>1, <3>5
      <3> QED
        BY <2>1, <3>1, <3>2, <3>6
    <2>7. ReportedOnce'
      BY <1>1 DEF ReportInv, ReportedOnce
    <2> QED
      BY <2>3, <2>4, <2>5, <2>6, <2>7 DEF ReportInv
  <1> QED
    BY <1>2, <1>3

\* The handler reports a kill of the status that neither the old pod holds nor,
\* by GoneInv, was reported before.
LEMMA HandlerReport ==
    ASSUME TypeOK, ReportInv, HandlePod
    PROVE  ReportInv'
  <1>1. PICK i \in DOMAIN pending :
            /\ up /\ UNCHANGED <<clusterVars, up>>
            /\ pending' = SubSeq(pending, i + 1, Len(pending)) /\ old' = pending[i]
            /\ \A k \in Kills :
                \/ reports'[k] = reports[k]
                \/ reports'[k] = reports[k] + 1 /\ NewIn(pending[i], k)
    BY HandlePodFacts
  <1> DEFINE n == Len(pending)
  <1>2. /\ pending \in Seq(Status) /\ now \in Nat
        /\ born \in [Kills -> 0..now] /\ reports \in [Kills -> 0..2]
    BY DEF TypeOK
  <1>3. /\ i \in 1..n /\ n \in Nat /\ DOMAIN pending = 1..n
        /\ Len(pending') = n - i /\ DOMAIN pending' = 1..(n - i)
        /\ \A j \in 1..(n - i) : pending'[j] = pending[i + j]
        /\ pending' = <<>> <=> n = i
    <2>1. /\ i \in 1..n /\ n \in Nat /\ DOMAIN pending = 1..n
          /\ pending' \in Seq(Status)
          /\ Len(pending') = n - i /\ DOMAIN pending' = 1..(n - i)
          /\ \A j \in 1..(n - i) : pending'[j] = pending[i + j]
      BY <1>1, <1>2, LaterFacts
    <2> HIDE DEF n
    <2>2. pending' = <<>> <=> Len(pending') = 0
      BY <2>1
    <2> QED
      BY <2>1, <2>2
  <1>4. UNCHANGED <<now, born, status>> /\ pending[n] = status
    <2>1. pending # <<>>
      BY <1>2, <1>3
    <2> QED
      BY <1>1, <2>1 DEF clusterVars, ReportInv, HandlerInv
  <1> HIDE DEF n
  <1>5. HandlerInv'
    <2>1. pending' = <<>> => old' = status
      BY <1>1, <1>3, <1>4
    <2>2. pending' # <<>> => pending'[Len(pending')] = status
      <3> SUFFICES ASSUME pending' # <<>> PROVE pending'[n - i] = status
        BY <1>3
      <3>1. n - i \in 1..(n - i) /\ i + (n - i) = n
        BY <1>3
      <3>2. pending'[n - i] = pending[i + (n - i)]
        BY <1>3, <3>1
      <3> QED
        BY <1>4, <3>1, <3>2
    <2>3. up' /\ status' = status
      BY <1>1, <1>4
    <2> QED
      BY <2>1, <2>2, <2>3 DEF HandlerInv
  <1>6. HappenedInv'
    <2> SUFFICES ASSUME NEW k \in Kills
                 PROVE  /\ Has(status, k) \/ Has(pending[i], k) \/ reports'[k] # 0 => born[k] # 0
                        /\ \A j \in 1..(n - i) : Has(pending'[j], k) => born[k] # 0
      BY <1>1, <1>3, <1>4 DEF HappenedInv
    <2>1. \A j \in 1..n : Has(pending[j], k) => born[k] # 0
      BY <1>3 DEF ReportInv, HappenedInv
    <2>2. NewIn(pending[i], k) => Has(pending[i], k)
      BY DEF NewIn, Killed, Has
    <2>3. Has(status, k) \/ Has(pending[i], k) \/ reports'[k] # 0 => born[k] # 0
      BY <1>1, <1>3, <2>1, <2>2 DEF ReportInv, HappenedInv
    <2>4. \A j \in 1..(n - i) : Has(pending'[j], k) => born[k] # 0
      BY <1>3, <2>1
    <2> QED
      BY <2>3, <2>4
  <1>7. GoneInv'
    <2> SUFFICES ASSUME NEW k \in Kills, ~Has(pending[i], k), reports'[k] # 0,
                        NEW j \in 1..(n - i)
                 PROVE  ~Has(pending[i + j], k)
      BY <1>1, <1>3 DEF GoneInv
    <2>1. reports[k] # 0
      BY <1>1 DEF NewIn, Killed, Has
    <2>2. i + j \in 1..n /\ i < i + j
      BY <1>3
    <2>3. CASE Has(old, k)
      BY <1>3, <2>2, <2>3 DEF ReportInv, OnceGoneInv
    <2>4. CASE ~Has(old, k)
      BY <1>3, <2>1, <2>2, <2>4 DEF ReportInv, GoneInv
    <2> QED
      BY <2>3, <2>4
  <1>8. OnceGoneInv'
    <2> SUFFICES ASSUME NEW k \in Kills, NEW a \in 1..(n - i), NEW b \in 1..(n - i),
                        a < b, ~Has(pending'[a], k),
                        \/ Has(pending[i], k)
                        \/ \E h \in 1..(n - i) : h < a /\ Has(pending'[h], k)
                 PROVE  ~Has(pending'[b], k)
      BY <1>1, <1>3 DEF OnceGoneInv
    <2>1. /\ i + a \in 1..n /\ i + b \in 1..n /\ i + a < i + b
          /\ pending'[a] = pending[i + a] /\ pending'[b] = pending[i + b]
      BY <1>3
    <2>2. \E h \in 1..n : h < i + a /\ Has(pending[h], k)
      <3>1. CASE Has(pending[i], k)
        BY <1>3, <3>1
      <3>2. CASE \E h \in 1..(n - i) : h < a /\ Has(pending'[h], k)
        <4>1. PICK h \in 1..(n - i) : h < a /\ Has(pending'[h], k)
          BY <3>2
        <4>2. i + h \in 1..n /\ i + h < i + a /\ pending'[h] = pending[i + h]
          BY <1>3, <4>1
        <4> QED
          BY <4>1, <4>2
      <3> QED
        BY <3>1, <3>2
    <2> QED
      BY <1>3, <2>1, <2>2 DEF ReportInv, OnceGoneInv
  <1>9. ReportedOnce'
    <2> SUFFICES ASSUME NEW k \in Kills, NewIn(pending[i], k)
                 PROVE  reports[k] = 0
      BY <1>1, <1>2 DEF ReportInv, ReportedOnce
    <2>1. Has(pending[i], k) /\ ~Has(old, k)
      BY DEF NewIn, Killed, Known, Has
    <2> QED
      BY <2>1 DEF ReportInv, GoneInv
  <1> QED
    BY <1>5, <1>6, <1>7, <1>8, <1>9 DEF ReportInv

LEMMA NextReport == TypeOK /\ ReportInv /\ [Next]_vars => ReportInv'
  <1> SUFFICES ASSUME TypeOK, ReportInv, [Next]_vars PROVE ReportInv'
    OBVIOUS
  <1> USE IngestAssumption
  <1>0. /\ status \in Status /\ now \in 1..MaxTime /\ born \in [Kills -> 0..now]
        /\ \A k \in Kills : k # None
    BY DEF TypeOK, Items
  <1>1. CASE \E k \in Kills : OOMKill(k)
    <2>1. PICK k \in Kills : OOMKill(k)
      BY <1>1
    <2> DEFINE s == [status EXCEPT !.state = k]
    <2>2. /\ NewStatus(s) /\ s \in Status /\ born[k] = 0
          /\ born' = [born EXCEPT ![k] = now]
      BY <1>0, <2>1 DEF OOMKill, Status
    <2>3. \A l \in Kills : Has(s, l) => Has(status, l) \/ l = k
      BY <1>0 DEF Has, Status
    <2> HIDE DEF s
    <2>4. \A l \in Kills : born[l] # 0 \/ Has(s, l) => born'[l] # 0
      BY <1>0, <2>2, <2>3 DEF ReportInv, HappenedInv
    <2> QED
      BY <2>2, <2>3, <2>4, StatusReport
  <1>2. CASE RestartContainer \/ OtherEnd
    <2> DEFINE s == IF RestartContainer THEN [state |-> None, last |-> status.state] ELSE Blank
    <2>1. /\ NewStatus(s) /\ s \in Status /\ born' = born
      BY <1>0, <1>2 DEF RestartContainer, OtherEnd, Status, Blank
    <2>2. \A l \in Kills : Has(s, l) => Has(status, l)
      BY <1>0 DEF Has, Status, Blank
    <2> HIDE DEF s
    <2>3. \A l \in Kills : born[l] # 0 \/ Has(s, l) => born'[l] # 0
      BY <2>1, <2>2 DEF ReportInv, HappenedInv
    <2> QED
      BY <2>1, <2>2, <2>3, StatusReport
  <1>3. CASE Start
    <2>1. /\ ~up /\ up' /\ pending' = <<status>>
          /\ UNCHANGED <<born, status, old, reports>>
      BY <1>3 DEF Start, clusterVars
    <2>2. /\ DOMAIN pending' = {1} /\ pending'[1] = status /\ Len(pending') = 1
          /\ pending' # <<>> /\ \A k \in Kills : reports[k] = 0
      BY <2>1 DEF ReportInv, HandlerInv
    <2>3. HandlerInv'
      BY <2>1, <2>2 DEF HandlerInv
    <2>4. HappenedInv'
      BY <2>1, <2>2 DEF ReportInv, HappenedInv
    <2>5. GoneInv' /\ OnceGoneInv' /\ ReportedOnce'
      BY <2>1, <2>2 DEF GoneInv, OnceGoneInv, ReportedOnce
    <2> QED
      BY <2>3, <2>4, <2>5 DEF ReportInv
  <1>4. CASE Halt
    <2>1. /\ up' = FALSE /\ pending' = <<>> /\ old' = Blank
          /\ \A k \in Kills : reports'[k] = 0
          /\ UNCHANGED <<born, status>>
      BY <1>4 DEF Halt, clusterVars
    <2>2. \A k \in Kills : ~Has(Blank, k)
      BY <1>0 DEF Has, Blank
    <2>3. HandlerInv'
      BY <2>1 DEF HandlerInv
    <2>4. HappenedInv'
      BY <2>1, <2>2 DEF ReportInv, HappenedInv
    <2>5. GoneInv' /\ OnceGoneInv' /\ ReportedOnce'
      BY <2>1 DEF GoneInv, OnceGoneInv, ReportedOnce
    <2> QED
      BY <2>3, <2>4, <2>5 DEF ReportInv
  <1>5. CASE HandlePod
    BY <1>5, HandlerReport
  <1>6. CASE \/ Tick \/ LoopStep \/ UNCHANGED vars
             \/ \E o \in Objects : EventShown(o) \/ EventGone(o) \/ HandleEvent(o)
    <2>1. UNCHANGED <<born, status, up, pending, old, reports>>
      BY <1>6, LoopFrame DEF Tick, EventShown, EventGone, HandleEvent,
                             clusterVars, informerVars, vars
    <2> QED
      BY <2>1 DEF ReportInv, HandlerInv, HappenedInv, GoneInv, OnceGoneInv, ReportedOnce
  <1> QED
    BY <1>1, <1>2, <1>3, <1>4, <1>5, <1>6 DEF Next, Cluster, PublishingLoop, LoopStep

-----------------------------------------------------------------------------
(* The theorems.                                                           *)

\* Everything below follows from one invariant.
THEOREM IngestInvariant == Spec => []IngestInv
  <1>1. IngestInv /\ [Next]_vars => IngestInv'
    BY NextTypes, NextTimes, NextReport DEF IngestInv, ReportInv
  <1> QED
    BY InitInv, <1>1, PTL DEF Spec

\* The types of Ingest: among them, no write of a key and no OOM kill is later
\* than now, and no process reports a kill more than twice.
THEOREM IngestTypeCorrect == Spec => []TypeOK
  BY IngestInvariant, PTL DEF IngestInv

\* OnOOMKilled calls fn once for a kill, however the container restarts and
\* whatever statuses a broken watch leaves out.
THEOREM KillsReportedOnce == Spec => []ReportedOnce
  BY IngestInvariant, PTL DEF IngestInv, ReportInv

\* A report after a restart of kigeon is only published again when its key
\* expired while it waited in the event pusher.
THEOREM RepeatsAreLate == Spec => []RepublishedOnlyLate
  <1>1. IngestInv => RepublishedOnlyLate
    <2> SUFFICES ASSUME IngestInv, At("publish"), hand.item \in Kills, key[hand.item] # 0
                 PROVE  hand.got - hand.checked >= key[hand.item] - born[hand.item]
      BY DEF RepublishedOnlyLate
    <2>1. /\ hand \in Calls /\ hand.got \in Nat /\ hand.checked \in Nat
          /\ key[hand.item] \in Nat /\ born[hand.item] \in Nat
          /\ MaxAge \in Nat /\ Lifetime \in Nat /\ MaxAge <= Lifetime
      <3>1. hand \in Calls /\ now \in Nat
        BY IngestAssumption DEF IngestInv, TypeOK, At
      <3>2. hand.got \in 0..MaxTime /\ hand.checked \in 1..MaxTime /\ hand.item \in Items
        BY <3>1 DEF Calls
      <3>3. key[hand.item] \in 0..now /\ born[hand.item] \in 0..now
        BY <3>2 DEF IngestInv, TypeOK
      <3> QED
        BY <3>1, <3>2, <3>3, IngestAssumption
    <2>2. /\ hand.got >= key[hand.item] + Lifetime
          /\ hand.checked - born[hand.item] <= MaxAge
      BY DEF IngestInv, TimeInv, Timely, At
    <2> QED
      BY <2>1, <2>2
  <1> QED
    BY IngestInvariant, <1>1, PTL
=============================================================================
