----------------------- MODULE NamespaceFilterProofs -----------------------
(***************************************************************************)
(* Theorems about NamespaceFilter, for any namespaces and any number of    *)
(* changes, broken watches and hard refreshes.                             *)
(***************************************************************************)
EXTENDS NamespaceFilter, TLAPS, SequenceTheorems

Notification == [ns : Namespaces, what : Deltas]

-----------------------------------------------------------------------------
(* Sequences.                                                              *)

LEMMA AppendFacts ==
    ASSUME NEW S, NEW seq \in Seq(S), NEW e \in S
    PROVE  /\ Append(seq, e) \in Seq(S)
           /\ Len(seq) \in Nat
           /\ DOMAIN seq = 1..Len(seq)
           /\ DOMAIN Append(seq, e) = 1..(Len(seq) + 1)
           /\ \A i \in DOMAIN seq : Append(seq, e)[i] = seq[i]
           /\ Append(seq, e)[Len(seq) + 1] = e
  OBVIOUS

LEMMA TailFacts ==
    ASSUME NEW S, NEW seq \in Seq(S), seq # <<>>
    PROVE  /\ Head(seq) \in S /\ Tail(seq) \in Seq(S)
           /\ Len(seq) \in Nat
           /\ DOMAIN seq = 1..Len(seq) /\ 1 \in DOMAIN seq
           /\ DOMAIN Tail(seq) = 1..(Len(seq) - 1)
           /\ Head(seq) = seq[1]
           /\ \A i \in DOMAIN Tail(seq) : Tail(seq)[i] = seq[i + 1]
  OBVIOUS

-----------------------------------------------------------------------------
(* Types, and what Start has waited for when it returns.                   *)

LEMMA StateTypes == \A d \in Deltas : StateOf(d) \in States
  BY DEF StateOf, States, Deltas

LEMMA InitTypes == Init => TypeOK
  <1> SUFFICES ASSUME Init PROVE TypeOK
    OBVIOUS
  <1>1. <<>> \in Seq(Notification)
    OBVIOUS
  <1>2. notif \in Seq([ns : Namespaces, what : Deltas])
    BY <1>1 DEF Init, Notification
  <1>3. /\ cluster \in [Namespaces -> States] /\ known \in [Namespaces -> States]
        /\ queue \in [Namespaces -> Deltas \cup {"none"}]
    BY DEF Init, States
  <1>4. /\ changes \in 0..MaxChanges /\ breaks \in 0..MaxBreaks
        /\ refreshes \in 0..MaxRefreshes /\ wg \in 0..1
    BY NamespaceFilterAssumption DEF Init
  <1> QED
    BY <1>2, <1>3, <1>4 DEF Init, TypeOK

LEMMA InitLife == Init => LifeInv
  BY DEF Init, LifeInv, StopWaitsForAll

\* The goroutine of the informer: counted from Start on, it is waited for.
LEMMA NextLife == TypeOK /\ LifeInv /\ [Next]_vars => LifeInv'
  <1> SUFFICES ASSUME TypeOK, LifeInv, [Next]_vars PROVE LifeInv'
    OBVIOUS
  <1> USE DEF LifeInv, StopWaitsForAll
  <1>1. CASE UNCHANGED lifeVars
    BY <1>1 DEF lifeVars
  <1>2. CASE Start
    BY <1>2 DEF Start
  <1>3. CASE RunBegins
    BY <1>3 DEF RunBegins
  <1>4. CASE Sync \/ SyncFails \/ Stop
    BY <1>4 DEF Sync, SyncFails, Stop
  <1>5. CASE RunReturns
    BY <1>5 DEF RunReturns
  <1>6. CASE StopReturns
    BY <1>6 DEF StopReturns, TypeOK
  <1>7. CASE \/ \E n \in Namespaces : Change(n) \/ Pop(n)
             \/ Reflector \/ HardRefresh \/ Handle \/ UNCHANGED vars
    <2>1. UNCHANGED lifeVars
      BY <1>7 DEF Change, Pop, Reflector, List, Break, Watch, Miss, HardRefresh,
                  Handle, vars
    <2> QED
      BY <1>1, <2>1
  <1> QED
    BY <1>2, <1>3, <1>4, <1>5, <1>6, <1>7 DEF Next

LEMMA NextTypes == TypeOK /\ LifeInv /\ [Next]_vars => TypeOK'
  <1> SUFFICES ASSUME TypeOK, LifeInv, [Next]_vars PROVE TypeOK'
    OBVIOUS
  <1> USE NamespaceFilterAssumption
  <1>1. CASE UNCHANGED vars
    BY <1>1 DEF vars, TypeOK, clusterVars, readVars, boundVars, lifeVars
  <1>2. ASSUME NEW n \in Namespaces, Change(n) PROVE TypeOK'
    <2>1. cluster' \in [Namespaces -> States] /\ changes' \in 0..MaxChanges
      BY <1>2 DEF Change, TypeOK
    <2> QED
      BY <1>2, <2>1 DEF Change, TypeOK, readVars, boundVars, lifeVars
  <1>3. ASSUME NEW n \in Namespaces, Pop(n) PROVE TypeOK'
    <2>1. queue[n] \in Deltas
      BY <1>3 DEF Pop, TypeOK
    <2>2. notif' \in Seq([ns : Namespaces, what : Deltas])
      BY <1>3, <2>1, AppendFacts DEF Pop, TypeOK
    <2>3. known' \in [Namespaces -> States]
      BY <1>3, <2>1, StateTypes DEF Pop, TypeOK
    <2>4. queue' \in [Namespaces -> Deltas \cup {"none"}]
      BY <1>3 DEF Pop, TypeOK
    <2> QED
      BY <1>3, <2>2, <2>3, <2>4
         DEF Pop, TypeOK, clusterVars, boundVars, lifeVars
  <1>4. CASE List
    <2>1. queue' \in [Namespaces -> Deltas \cup {"none"}]
      BY <1>4 DEF List, TypeOK, States, Deltas
    <2>2. initial' \subseteq Namespaces /\ (phase = "started" => initial' = {})
      BY <1>4 DEF List, TypeOK
    <2> QED
      BY <1>4, <2>1, <2>2 DEF List, TypeOK, clusterVars, boundVars, lifeVars
  <1>5. ASSUME NEW n \in Namespaces, Watch(n) PROVE TypeOK'
    <2>1. queue' \in [Namespaces -> Deltas \cup {"none"}]
      BY <1>5 DEF Watch, TypeOK, States, Deltas
    <2> QED
      BY <1>5, <2>1 DEF Watch, TypeOK, clusterVars, boundVars, lifeVars
  <1>6. ASSUME NEW n \in Namespaces, Miss(n) PROVE TypeOK'
    BY <1>6 DEF Miss, TypeOK, clusterVars, readVars, boundVars, lifeVars
  <1>7. CASE Break
    <2>1. breaks' \in 0..MaxBreaks
      BY <1>7 DEF Break, TypeOK
    <2> QED
      BY <1>7, <2>1 DEF Break, TypeOK, clusterVars, lifeVars
  <1>8. CASE HardRefresh
    <2>1. queue' \in [Namespaces -> Deltas \cup {"none"}]
      BY <1>8 DEF HardRefresh, TypeOK, States, Deltas
    <2>2. refreshes' \in 0..MaxRefreshes
      BY <1>8 DEF HardRefresh, TypeOK
    <2> QED
      BY <1>8, <2>1, <2>2 DEF HardRefresh, TypeOK, clusterVars, lifeVars
  <1>9. CASE Handle
    <2>1. /\ Head(notif).ns \in Namespaces
          /\ notif' \in Seq([ns : Namespaces, what : Deltas])
      <3>1. notif \in Seq(Notification) /\ notif # <<>> /\ notif' = Tail(notif)
        BY <1>9 DEF Handle, TypeOK, Notification
      <3>2. Head(notif) \in Notification /\ notif' \in Seq(Notification)
        BY <3>1, TailFacts
      <3> QED
        BY <3>2 DEF Notification
    <2>2. allowed' \subseteq Namespaces
      BY <1>9, <2>1 DEF Handle, TypeOK
    <2> QED
      BY <1>9, <2>1, <2>2
         DEF Handle, TypeOK, clusterVars, readVars, boundVars, lifeVars
  <1>10. CASE Start \/ RunBegins \/ Sync \/ SyncFails \/ Stop \/ StopReturns
    BY <1>10 DEF Start, RunBegins, Sync, SyncFails, Stop, StopReturns, LifeInv,
                 TypeOK, clusterVars, readVars, boundVars
  <1>11. CASE RunReturns
    <2>1. notif' \in Seq([ns : Namespaces, what : Deltas])
      BY <1>11 DEF RunReturns
    <2> QED
      BY <1>11, <2>1
         DEF RunReturns, LifeInv, TypeOK, clusterVars, readVars, boundVars
  <1> QED
    BY <1>1, <1>2, <1>3, <1>4, <1>5, <1>6, <1>7, <1>8, <1>9, <1>10, <1>11
       DEF Next, Reflector

\* TypeOK: Start returns only after the first list is in the store, whatever
\* the watch does meanwhile.
THEOREM TypeCorrect == Spec => []TypeOK
  <1>1. Init => TypeOK /\ LifeInv
    BY InitTypes, InitLife
  <1>2. TypeOK /\ LifeInv /\ [Next]_vars => (TypeOK /\ LifeInv)'
    BY NextTypes, NextLife
  <1> QED
    BY <1>1, <1>2, PTL DEF Spec

\* StopWaitsForAll: Stop returns after the goroutine of Start, whenever that
\* began, because Start counts it first.
THEOREM StopIsLast == Spec => []StopWaitsForAll
  <1>1. Init => TypeOK /\ LifeInv
    BY InitTypes, InitLife
  <1>2. TypeOK /\ LifeInv /\ [Next]_vars => (TypeOK /\ LifeInv)'
    BY NextTypes, NextLife
  <1>3. LifeInv => StopWaitsForAll
    BY DEF LifeInv
  <1> QED
    BY <1>1, <1>2, <1>3, PTL DEF Spec

-----------------------------------------------------------------------------
(* The filter and the store.                                               *)

\* The popped state is the newest notification; all others are as before.
LEMMA PopFollows ==
    ASSUME TypeOK, AllowedFollowsStore, NEW n \in Namespaces, Pop(n)
    PROVE  AllowedFollowsStore'
  <1> DEFINE e == [ns |-> n, what |-> queue[n]]
             last == Len(notif) + 1
  <1>1. /\ goroutine # "returned" /\ notif' = Append(notif, e)
        /\ known' = [known EXCEPT ![n] = StateOf(queue[n])]
        /\ UNCHANGED <<allowed, goroutine>>
    BY DEF Pop, Running, lifeVars
  <1>2. /\ Len(notif) \in Nat
        /\ DOMAIN notif = 1..Len(notif) /\ DOMAIN notif' = 1..last
        /\ \A i \in DOMAIN notif : notif'[i] = notif[i]
        /\ notif'[last] = e
    <2>1. notif \in Seq(Notification) /\ e \in Notification
      BY DEF TypeOK, Notification, Pop
    <2> HIDE DEF e
    <2> QED
      BY <1>1, <2>1, AppendFacts
  <1>3. /\ last \in Pending(n)'
        /\ \A j \in Pending(n)' : j <= last
        /\ StateOf(notif'[last].what) = known'[n]
    BY <1>1, <1>2 DEF Pending, TypeOK
  <1>4. ASSUME NEW m \in Namespaces, m # n
        PROVE  Pending(m)' = Pending(m) /\ known'[m] = known[m]
    BY <1>1, <1>2, <1>4 DEF Pending, TypeOK
  <1>5. ASSUME NEW m \in Namespaces
        PROVE  IF Pending(m)' = {} THEN IsAllowed(m)' <=> known'[m] = "match"
               ELSE \E i \in Pending(m)' :
                       /\ \A j \in Pending(m)' : j <= i
                       /\ StateOf(notif'[i].what) = known'[m]
    <2>1. CASE m = n
      BY <1>3, <2>1
    <2>2. CASE m # n /\ Pending(m) = {}
      BY <1>1, <1>4, <2>2 DEF AllowedFollowsStore, IsAllowed
    <2>3. CASE m # n /\ Pending(m) # {}
      <3>1. PICK i \in Pending(m) :
                /\ \A j \in Pending(m) : j <= i
                /\ StateOf(notif[i].what) = known[m]
        BY <1>1, <2>3 DEF AllowedFollowsStore
      <3>2. notif'[i] = notif[i]
        BY <1>2 DEF Pending
      <3> QED
        BY <1>4, <2>3, <3>1, <3>2
    <2> QED
      BY <2>1, <2>2, <2>3
  <1> QED
    BY <1>1, <1>5 DEF AllowedFollowsStore

\* The handler that takes the last notification of a namespace makes the map
\* say what the store says.
LEMMA HandleFollows ==
    ASSUME TypeOK, AllowedFollowsStore, Handle
    PROVE  AllowedFollowsStore'
  <1> DEFINE h == Head(notif)
  <1>1. /\ goroutine # "returned" /\ notif # <<>> /\ notif' = Tail(notif)
        /\ allowed' = IF h.what = "match" THEN allowed \cup {h.ns}
                      ELSE allowed \ {h.ns}
        /\ UNCHANGED <<known, goroutine>>
    BY DEF Handle, lifeVars
  <1>2. /\ Len(notif) \in Nat
        /\ h \in Notification /\ h = notif[1] /\ 1 \in DOMAIN notif
        /\ DOMAIN notif = 1..Len(notif) /\ DOMAIN notif' = 1..(Len(notif) - 1)
        /\ \A i \in DOMAIN notif' : notif'[i] = notif[i + 1]
    <2>1. notif \in Seq(Notification)
      BY DEF TypeOK, Notification
    <2> QED
      BY <1>1, <2>1, TailFacts
  <1>3. \A m : \A i \in Pending(m) : i = 1 \/ i - 1 \in Pending(m)'
    BY <1>2 DEF Pending
  <1>4. \A m : \A i \in Pending(m)' : i + 1 \in Pending(m) /\ i \in Nat
    BY <1>2 DEF Pending
  <1>5. ASSUME NEW m \in Namespaces
        PROVE  IF Pending(m)' = {} THEN IsAllowed(m)' <=> known'[m] = "match"
               ELSE \E i \in Pending(m)' :
                       /\ \A j \in Pending(m)' : j <= i
                       /\ StateOf(notif'[i].what) = known'[m]
    <2>1. CASE Pending(m) = {}
      <3>1. Pending(m)' = {} /\ m # h.ns
        BY <1>2, <1>4, <2>1 DEF Pending
      <3> QED
        BY <1>1, <2>1, <3>1 DEF AllowedFollowsStore, IsAllowed
    <2>2. CASE Pending(m) # {}
      <3>1. PICK i \in Pending(m) :
                /\ \A j \in Pending(m) : j <= i
                /\ StateOf(notif[i].what) = known[m]
        BY <1>1, <2>2 DEF AllowedFollowsStore
      <3>2. CASE i = 1
        <4>1. Pending(m)' = {}
          <5>1. \A j \in Pending(m)' : j + 1 <= 1 /\ j \in Nat /\ j >= 1
            BY <1>2, <1>4, <3>1, <3>2 DEF Pending
          <5> QED
            BY <5>1
        <4>2. h.ns = m /\ StateOf(h.what) = known[m]
          BY <1>2, <3>1, <3>2 DEF Pending
        <4>3. h.what = "match" <=> known[m] = "match"
          BY <1>2, <4>2 DEF StateOf, Notification, Deltas
        <4> QED
          BY <1>1, <4>1, <4>2, <4>3 DEF IsAllowed
      <3>3. CASE i # 1
        <4>1. i - 1 \in Pending(m)' /\ i \in Nat
          BY <1>2, <1>3, <3>3 DEF Pending
        <4>2. \A j \in Pending(m)' : j <= i - 1
          BY <1>4, <3>1, <4>1
        <4>3. notif'[i - 1] = notif[i]
          BY <1>2, <4>1 DEF Pending
        <4> QED
          BY <1>1, <3>1, <4>1, <4>2, <4>3
      <3> QED
        BY <3>2, <3>3
    <2> QED
      BY <2>1, <2>2
  <1> QED
    BY <1>1, <1>5 DEF AllowedFollowsStore

LEMMA NextFollows ==
    TypeOK /\ LifeInv /\ AllowedFollowsStore /\ [Next]_vars => AllowedFollowsStore'
  <1> SUFFICES ASSUME TypeOK, LifeInv, AllowedFollowsStore, [Next]_vars
               PROVE  AllowedFollowsStore'
    OBVIOUS
  <1>1. ASSUME UNCHANGED <<notif, known, allowed>>,
               goroutine = "returned" => goroutine' = "returned"
        PROVE  AllowedFollowsStore'
    BY <1>1 DEF AllowedFollowsStore, Pending, IsAllowed
  <1>2. ASSUME NEW n \in Namespaces, Change(n) \/ Watch(n) \/ Miss(n)
        PROVE  AllowedFollowsStore'
    <2>1. UNCHANGED <<notif, known, allowed, goroutine>>
      BY <1>2 DEF Change, Watch, Miss, lifeVars
    <2> QED
      BY <1>1, <2>1
  <1>3. CASE List \/ Break \/ HardRefresh \/ UNCHANGED vars
    <2>1. UNCHANGED <<notif, known, allowed, goroutine>>
      BY <1>3 DEF List, Break, HardRefresh, vars, lifeVars
    <2> QED
      BY <1>1, <2>1
  <1>4. CASE Start \/ RunBegins \/ Sync \/ SyncFails \/ Stop \/ StopReturns
    <2>1. /\ UNCHANGED <<notif, known, allowed>>
          /\ goroutine = "returned" => goroutine' = "returned"
      BY <1>4 DEF Start, RunBegins, Sync, SyncFails, Stop, StopReturns, LifeInv
    <2> QED
      BY <1>1, <2>1
  <1>5. CASE RunReturns
    <2>1. goroutine' = "returned"
      BY <1>5 DEF RunReturns
    <2> QED
      BY <2>1 DEF AllowedFollowsStore
  <1> QED
    BY <1>2, <1>3, <1>4, <1>5, PopFollows, HandleFollows DEF Next, Reflector

\* AllowedFollowsStore: the handlers of the filter, fed with additions, updates,
\* deletions and tombstones in the order of the store, keep the map in step.
THEOREM FilterFollowsStore == Spec => []AllowedFollowsStore
  <1> DEFINE Inv == TypeOK /\ LifeInv /\ AllowedFollowsStore
  <1>1. Init => Inv
    <2>1. DOMAIN <<>> = {}
      OBVIOUS
    <2>2. Init => AllowedFollowsStore
      BY <2>1 DEF Init, AllowedFollowsStore, Pending, IsAllowed
    <2> QED
      BY <2>2, InitTypes, InitLife
  <1>2. Inv /\ [Next]_vars => Inv'
    BY NextTypes, NextLife, NextFollows
  <1>3. Inv => AllowedFollowsStore
    OBVIOUS
  <1> QED
    BY <1>1, <1>2, <1>3, PTL DEF Spec
=============================================================================
