----------------------------- MODULE PodsProofs -----------------------------
(***************************************************************************)
(* Theorems about Pods, for any number of concurrent calls of GetPod, of   *)
(* changes of the cluster, and any lengths of the two caches.              *)
(***************************************************************************)
EXTENDS Pods, TLAPS, SequenceTheorems

-----------------------------------------------------------------------------
(* The inductive invariant, with TypeOK.                                   *)

Running(c) == call[c].at \notin {"idle", "answered", "failed"}

\* The deleted cache holds what DeleteFunc promised last, and both caches hold
\* nothing but what was once true.
CacheInv ==
    /\ deleted.until = owed
    /\ deleted.until > 0 => deleted.pod # 0
    /\ notFound.until > 0 => notFound.absent

\* The newest pod the store has had is in it, or is the last one DeleteFunc is
\* told of, or is what DeleteFunc put into the deleted cache.
NewestInv ==
    /\ Pod(seen) => newest = seen
    /\ ~Pod(seen) /\ notif = <<>> => deleted.pod >= newest
    /\ ~Pod(seen) /\ notif # <<>> => notif[Len(notif)].pod >= newest
    /\ phase \in {"new", "listing"} => seen = 0 /\ notif = <<>>

\* How far a call has come, and what it has ruled out so far.
CallInv(c) ==
    /\ call[c].at = "direct" => call[c].until = 0
    /\ call[c].at \in {"lister", "deleted"} => call[c].until <= owed
    /\ call[c].at \in {"notFound", "api", "remember"} => call[c].until <= now
    /\ Running(c) /\ ~Pod(api) => call[c].absent
    /\ call[c].at = "remember" => call[c].absent
    /\ Running(c) => call[c].known <= newest
    /\ call[c].at \in {"lister", "deleted"} /\ ~call[c].lagged => notif = <<>>
    /\ call[c].at = "deleted" /\ ~call[c].lagged => deleted.pod >= call[c].known
    /\ call[c].at = "answered" /\ call[c].answer = 0 =>
        call[c].absent /\ call[c].until <= now
    /\ call[c].at = "answered" /\ call[c].answer # 0 /\ ~call[c].lagged =>
        call[c].answer >= call[c].known

PodsInv == TypeOK /\ CacheInv /\ NewestInv /\ \A c \in Callers : CallInv(c)

-----------------------------------------------------------------------------
(* Types.                                                                  *)

Deletion == [pod : 1..MaxChange, tombstone : BOOLEAN]

\* The first of several deletions is taken, the last one stays.
LEMMA TailKeepsLast ==
    ASSUME NEW q \in Seq(Deletion), q # <<>>
    PROVE  /\ Head(q) \in Deletion /\ Tail(q) \in Seq(Deletion)
           /\ Tail(q) = <<>> => Head(q) = q[Len(q)]
           /\ Tail(q) # <<>> => Tail(q)[Len(Tail(q))] = q[Len(q)]
  <1>1. /\ Len(q) \in Nat /\ Len(q) >= 1 /\ Head(q) \in Deletion /\ Head(q) = q[1]
        /\ Tail(q) \in Seq(Deletion) /\ Len(Tail(q)) = Len(q) - 1
        /\ \A i \in 1..Len(Tail(q)) : Tail(q)[i] = q[i + 1]
    OBVIOUS
  <1>2. CASE Len(q) = 1
    <2>1. Len(Tail(q)) = 0
      BY <1>1, <1>2
    <2>2. Tail(q) = <<>>
      BY <1>1, <2>1, EmptySeq
    <2> QED
      BY <1>1, <1>2, <2>2
  <1>3. CASE Len(q) # 1
    <2>1. Len(Tail(q)) \in 1..Len(Tail(q)) /\ Len(Tail(q)) # 0
      BY <1>1, <1>3
    <2>2. Tail(q) # <<>>
      BY <2>1, EmptySeq
    <2> QED
      BY <1>1, <2>1, <2>2
  <1> QED
    BY <1>1, <1>2, <1>3

LEMMA AppendIsLast ==
    ASSUME NEW q \in Seq(Deletion), NEW d \in Deletion
    PROVE  /\ Append(q, d) \in Seq(Deletion) /\ Append(q, d) # <<>>
           /\ Append(q, d)[Len(Append(q, d))] = d
  OBVIOUS

\* There is no pod before the first change.
LEMMA NoPodAtFirst == ~Pod(0)
  BY DEF Pod

\* What a step of one call changes.
LEMMA CallTypes ==
    ASSUME TypeOK, NEW c \in Callers, GetPod(c) \/ Return(c) \/ Begin(c)
    PROVE  /\ call' \in [Callers -> Calls]
           /\ UNCHANGED <<now, api, storeVars, deleted, owed>>
  <1> USE PodsAssumption
  <1>1. /\ api \in 0..MaxChange /\ seen \in 0..MaxChange /\ newest \in 0..MaxChange
        /\ deleted.pod \in 0..MaxChange /\ owed \in Nat
        /\ notFound.absent \in BOOLEAN /\ call \in [Callers -> Calls]
    BY DEF TypeOK
  <1>2. call[c] \in Calls
    BY <1>1
  <1>3. ASSUME NEW stage \in Stages PROVE [call EXCEPT ![c].at = stage] \in [Callers -> Calls]
    BY <1>1, <1>2, <1>3 DEF Calls
  <1>4. ASSUME NEW pod \in 0..MaxChange
        PROVE  [call EXCEPT ![c].at = "answered", ![c].answer = pod] \in [Callers -> Calls]
    BY <1>1, <1>2, <1>4 DEF Calls, Stages
  <1>5. [call EXCEPT ![c].at = "answered", ![c].answer = 0,
                     ![c].absent = notFound.absent] \in [Callers -> Calls]
    <2>1. [call[c] EXCEPT !.at = "answered", !.answer = 0, !.absent = notFound.absent] \in Calls
      <3>1. ASSUME NEW r \in Calls, NEW b \in BOOLEAN
            PROVE  [r EXCEPT !.at = "answered", !.answer = 0, !.absent = b] \in Calls
        <4>1. 0 \in 0..MaxChange /\ "answered" \in Stages
          BY DEF Stages
        <4> QED
          BY <3>1, <4>1 DEF Calls
      <3> QED
        BY <1>1, <1>2, <3>1
    <2> QED
      BY <1>1, <2>1
  <1>6. Idle \in Calls
    BY DEF Idle, Calls, Stages
  <1>7. CASE Begin(c)
    <2>1. [at |-> IF HasStarted THEN "lister" ELSE "direct",
           answer |-> 0, until |-> IF HasStarted THEN owed ELSE 0,
           known |-> newest, lagged |-> (notif # <<>>), absent |-> ~Pod(api)] \in Calls
      BY <1>1 DEF Calls, Stages
    <2> QED
      BY <1>1, <1>7, <2>1 DEF Begin, cacheVars
  <1>8. CASE Return(c)
    BY <1>1, <1>6, <1>8 DEF Return, cacheVars
  <1>9. CASE AskDirectly(c)
    <2>1. (IF Pod(api) THEN api ELSE 0) \in 0..MaxChange
      BY <1>1
    <2> QED
      BY <1>4, <1>9, <2>1 DEF AskDirectly, Answer, cacheVars
  <1>10. CASE AskLister(c)
    BY <1>1, <1>3, <1>4, <1>10 DEF AskLister, Answer, Goto, Stages, cacheVars
  <1>11. CASE AskDeleted(c)
    BY <1>1, <1>3, <1>4, <1>11 DEF AskDeleted, Answer, Goto, Stages, cacheVars
  <1>12. CASE AskNotFound(c)
    BY <1>1, <1>3, <1>5, <1>12 DEF AskNotFound, Goto, Stages, cacheVars
  <1>13. CASE AskAPI(c)
    BY <1>1, <1>3, <1>4, <1>13 DEF AskAPI, Answer, Goto, Stages, cacheVars
  <1>14. CASE APIFails(c)
    BY <1>3, <1>14 DEF APIFails, Goto, Stages, cacheVars
  <1>15. CASE Remember(c)
    <2>1. 0 \in 0..MaxChange
      OBVIOUS
    <2> QED
      BY <1>4, <1>15, <2>1 DEF Remember, Answer
  <1> QED
    BY <1>7, <1>8, <1>9, <1>10, <1>11, <1>12, <1>13, <1>14, <1>15 DEF GetPod

\* What a step of one call leaves of the notFound cache.
LEMMA NotFoundTypes ==
    ASSUME TypeOK, NEW c \in Callers, GetPod(c) \/ Return(c) \/ Begin(c)
    PROVE  \/ UNCHANGED notFound
           \/ /\ call[c].at = "remember"
              /\ notFound' = [until |-> now + NotFoundTTL, absent |-> call[c].absent]
  BY DEF GetPod, Begin, Return, AskDirectly, AskLister, AskDeleted, AskNotFound,
         AskAPI, APIFails, Remember, Goto, cacheVars

\* What a step of the store does.
LEMMA StoreTypes ==
    ASSUME TypeOK, NEW change \in seen..api, NEW tombstone \in BOOLEAN,
           Store(change, tombstone)
    PROVE  /\ call' \in [Callers -> Calls]
           /\ notif' \in Seq(Deletion)
           /\ seen' \in 0..api /\ newest' \in 0..change /\ seen' = change
           /\ UNCHANGED <<now, api, phase, cacheVars>>
  <1> USE PodsAssumption
  <1>1. /\ call \in [Callers -> Calls] /\ notif \in Seq(Deletion) /\ seen \in 0..api
        /\ newest \in 0..seen /\ api \in 0..MaxChange
    BY DEF TypeOK, Deletion
  <1>2. CASE Pod(seen) /\ ~Pod(change)
    <2>1. [pod |-> seen, tombstone |-> tombstone] \in Deletion
      BY <1>1, <1>2, NoPodAtFirst DEF Deletion
    <2>2. notif' \in Seq(Deletion)
      BY <1>1, <1>2, <2>1, AppendIsLast DEF Store
    <2>3. call' \in [Callers -> Calls]
      <3>1. ASSUME NEW c \in Callers
            PROVE  [call[c] EXCEPT !.lagged = (call[c].at # "idle")] \in Calls
        BY <1>1, <3>1 DEF Calls
      <3> QED
        BY <1>2, <3>1 DEF Store
    <2> QED
      BY <1>1, <2>2, <2>3 DEF Store
  <1>3. CASE ~(Pod(seen) /\ ~Pod(change))
    BY <1>1, <1>3 DEF Store
  <1> QED
    BY <1>2, <1>3

LEMMA NextTypes == TypeOK /\ [Next]_vars => TypeOK'
  <1> SUFFICES ASSUME TypeOK, [Next]_vars PROVE TypeOK'
    OBVIOUS
  <1> USE PodsAssumption
  <1>0. /\ now \in 0..MaxTime /\ api \in 0..MaxChange /\ seen \in 0..api
        /\ newest \in 0..seen /\ notif \in Seq(Deletion)
        /\ call \in [Callers -> Calls]
    BY DEF TypeOK, Deletion
  <1>1. CASE Tick
    BY <1>1 DEF Tick, TypeOK, storeVars, cacheVars
  <1>2. CASE Change
    <2>1. ASSUME NEW c \in Callers PROVE [call[c] EXCEPT !.absent = TRUE] \in Calls
      BY <1>0, <2>1 DEF Calls
    <2>2. call' \in [Callers -> Calls]
      BY <1>0, <1>2, <2>1 DEF Change
    <2> QED
      BY <1>2, <2>2 DEF Change, TypeOK, storeVars, cacheVars
  <1>3. CASE Watch \/ Relist
    <2>1. PICK change \in seen..api, tombstone \in BOOLEAN : Store(change, tombstone)
      <3>1. seen < api => seen + 1 \in seen..api /\ api \in seen..api
        BY <1>0
      <3> QED
        BY <1>3, <3>1 DEF Watch, Relist
    <2> QED
      BY <1>0, <2>1, StoreTypes DEF TypeOK, Deletion, cacheVars
  <1>4. CASE List
    BY <1>0, <1>4, NoPodAtFirst DEF List, TypeOK, cacheVars
  <1>5. CASE StartInformer \/ Started \/ Stop
    BY <1>5 DEF StartInformer, Started, Stop, TypeOK, cacheVars
  <1>6. CASE DeleteFunc
    <2>1. /\ Head(notif) \in Deletion /\ notif' \in Seq(Deletion)
          /\ deleted' = [pod |-> Head(notif).pod, until |-> now + Retention]
          /\ owed' = now + Retention
          /\ UNCHANGED <<now, api, phase, seen, newest, notFound, call>>
      BY <1>0, <1>6, TailKeepsLast DEF DeleteFunc
    <2> QED
      BY <1>0, <2>1 DEF TypeOK, Deletion
  <1>7. ASSUME NEW c \in Callers, GetPod(c) \/ Return(c) \/ Begin(c) PROVE TypeOK'
    <2>1. /\ call' \in [Callers -> Calls]
          /\ UNCHANGED <<now, api, phase, seen, newest, notif, deleted, owed>>
      BY <1>7, CallTypes DEF storeVars
    <2>2. call[c].absent \in BOOLEAN
      BY <1>0 DEF Calls
    <2>3. notFound' \in [until : 0..(now + NotFoundTTL), absent : BOOLEAN]
      BY <1>0, <1>7, <2>2, NotFoundTypes DEF TypeOK
    <2> QED
      BY <2>1, <2>3 DEF TypeOK
  <1>8. CASE UNCHANGED vars
    BY <1>8 DEF vars, TypeOK
  <1> QED
    BY <1>1, <1>2, <1>3, <1>4, <1>5, <1>6, <1>7, <1>8 DEF Next, Informer

-----------------------------------------------------------------------------
(* The caches and the store.                                               *)

LEMMA InitInv == Init => PodsInv
  <1> SUFFICES ASSUME Init PROVE PodsInv
    OBVIOUS
  <1> USE PodsAssumption DEF Init
  <1>1. Idle \in Calls /\ call \in [Callers -> Calls]
    BY DEF Idle, Calls, Stages
  <1>2. <<>> \in Seq(Deletion)
    BY EmptySeq
  <1>3. TypeOK
    BY <1>1, <1>2 DEF TypeOK, Deletion
  <1>4. CacheInv /\ NewestInv
    BY NoPodAtFirst DEF CacheInv, NewestInv
  <1>5. ASSUME NEW c \in Callers PROVE CallInv(c)
    BY <1>5 DEF CallInv, Running, Idle
  <1> QED
    BY <1>3, <1>4, <1>5 DEF PodsInv

\* The notFound cache is told only what the API server said, the deleted cache
\* only of pods.
LEMMA NextCache == PodsInv /\ [Next]_vars => CacheInv'
  <1> SUFFICES ASSUME PodsInv, [Next]_vars PROVE CacheInv'
    OBVIOUS
  <1> USE PodsAssumption
  <1>0. /\ TypeOK /\ CacheInv /\ \A c \in Callers : CallInv(c)
        /\ now \in Nat /\ notif \in Seq(Deletion)
    BY DEF PodsInv, TypeOK, Deletion
  <1>1. CASE DeleteFunc
    <2>1. Head(notif) \in Deletion
      BY <1>0, <1>1, TailKeepsLast DEF DeleteFunc
    <2>2. /\ deleted' = [pod |-> Head(notif).pod, until |-> now + Retention]
          /\ owed' = now + Retention /\ UNCHANGED notFound
      BY <1>1 DEF DeleteFunc
    <2> QED
      BY <1>0, <2>1, <2>2 DEF CacheInv, Deletion
  <1>2. ASSUME NEW c \in Callers, GetPod(c) \/ Return(c) \/ Begin(c) PROVE CacheInv'
    <2>1. UNCHANGED <<deleted, owed>>
      BY <1>0, <1>2, CallTypes
    <2>2. notFound'.until > 0 => notFound'.absent
      BY <1>0, <1>2, NotFoundTypes DEF CacheInv, CallInv
    <2> QED
      BY <1>0, <2>1, <2>2 DEF CacheInv
  <1>3. CASE Tick \/ Change \/ Informer \/ Stop \/ UNCHANGED vars
    <2>1. UNCHANGED <<deleted, owed, notFound>>
      BY <1>3 DEF Tick, Change, Informer, StartInformer, List, Started, Watch,
                  Relist, Store, Stop, cacheVars, vars
    <2> QED
      BY <1>0, <2>1 DEF CacheInv
  <1> QED
    BY <1>1, <1>2, <1>3 DEF Next

\* The newest pod goes from the store through the handler to the cache.
LEMMA NextNewest == TypeOK /\ NewestInv /\ [Next]_vars => NewestInv'
  <1> SUFFICES ASSUME TypeOK, NewestInv, [Next]_vars PROVE NewestInv'
    OBVIOUS
  <1> USE PodsAssumption
  <1>0. /\ seen \in Nat /\ newest \in 0..seen /\ notif \in Seq(Deletion)
        /\ deleted.pod \in Nat /\ api \in 0..MaxChange
    BY DEF TypeOK, Deletion
  <1>1. CASE Watch \/ Relist
    <2>1. PICK change \in seen..api, tombstone \in BOOLEAN :
            Store(change, tombstone)
      <3>1. seen < api => seen + 1 \in seen..api /\ api \in seen..api
        BY <1>0
      <3> QED
        BY <1>1, <3>1 DEF Watch, Relist
    <2>2. /\ seen' = change /\ newest' = (IF Pod(change) THEN change ELSE newest)
          /\ UNCHANGED <<phase, deleted>>
      BY <2>1 DEF Store, cacheVars
    <2>3. phase \notin {"new", "listing"}
      BY <1>1 DEF Watch, Relist, Watching
    <2>4. CASE Pod(seen) /\ ~Pod(change)
      <3>1. [pod |-> seen, tombstone |-> tombstone] \in Deletion
        BY <1>0, <2>1, <2>4, NoPodAtFirst DEF Deletion
      <3>2. notif' = Append(notif, [pod |-> seen, tombstone |-> tombstone])
        BY <2>1, <2>4 DEF Store
      <3>3. notif' # <<>> /\ notif'[Len(notif')].pod = seen
        BY <1>0, <3>1, <3>2, AppendIsLast
      <3> QED
        BY <1>0, <2>2, <2>3, <2>4, <3>3 DEF NewestInv
    <2>5. CASE ~(Pod(seen) /\ ~Pod(change))
      <3>1. UNCHANGED notif
        BY <2>1, <2>5 DEF Store
      <3> QED
        BY <2>2, <2>3, <2>5, <3>1 DEF NewestInv
    <2> QED
      BY <2>4, <2>5
  <1>2. CASE List
    BY <1>0, <1>2 DEF List, NewestInv, cacheVars
  <1>3. CASE DeleteFunc
    <2>1. /\ notif # <<>> /\ notif' = Tail(notif) /\ deleted'.pod = Head(notif).pod
          /\ UNCHANGED <<seen, newest, phase>>
      BY <1>3 DEF DeleteFunc
    <2>2. /\ notif' = <<>> => Head(notif) = notif[Len(notif)]
          /\ notif' # <<>> => notif'[Len(notif')] = notif[Len(notif)]
      BY <1>0, <2>1, TailKeepsLast
    <2> QED
      BY <2>1, <2>2 DEF NewestInv
  <1>4. ASSUME NEW c \in Callers, GetPod(c) \/ Return(c) \/ Begin(c) PROVE NewestInv'
    BY <1>4, CallTypes DEF NewestInv, storeVars
  <1>5. CASE Tick \/ Change \/ StartInformer \/ Started \/ Stop \/ UNCHANGED vars
    BY <1>5 DEF Tick, Change, StartInformer, Started, Stop, storeVars, cacheVars,
                vars, NewestInv
  <1> QED
    BY <1>1, <1>2, <1>3, <1>4, <1>5 DEF Next, Informer

-----------------------------------------------------------------------------
(* The calls.                                                              *)

\* A step of one call keeps what it has ruled out.
LEMMA OwnStep ==
    ASSUME PodsInv, NEW c \in Callers, GetPod(c) \/ Return(c) \/ Begin(c)
    PROVE  CallInv(c)'
  <1> USE PodsAssumption
  <1>0. /\ TypeOK /\ CacheInv /\ NewestInv /\ CallInv(c)
        /\ now \in Nat /\ api \in Nat /\ seen \in 0..api /\ newest \in 0..seen
        /\ call \in [Callers -> Calls] /\ call[c] \in Calls
        /\ deleted.pod \in Nat /\ owed \in Nat
    BY DEF PodsInv, TypeOK
  <1>1. UNCHANGED <<now, api, phase, seen, newest, notif, deleted, owed>>
    BY <1>0, CallTypes DEF storeVars
  <1>2. call[c].known \in Nat /\ call[c].until \in Nat
    BY <1>0 DEF Calls
  <1>3. CASE Begin(c)
    <2> DEFINE behind == (notif # <<>>)
               gone == ~Pod(api)
    <2>1. call'[c] = [at |-> IF HasStarted THEN "lister" ELSE "direct",
                      answer |-> 0, until |-> IF HasStarted THEN owed ELSE 0,
                      known |-> newest, lagged |-> behind, absent |-> gone]
      BY <1>0, <1>3 DEF Begin
    <2> HIDE DEF behind, gone
    <2>2. /\ call'[c].at \in {"lister", "direct"}
          /\ call'[c].at = "lister" => call'[c].until = owed
          /\ call'[c].at = "direct" => call'[c].until = 0
          /\ call'[c].known = newest
      BY <2>1
    <2>a. call'[c].lagged = behind /\ call'[c].absent = gone
      BY <2>1
    <2>b. (call'[c].lagged <=> notif # <<>>) /\ (call'[c].absent <=> ~Pod(api))
      BY <2>a, Zenon DEF behind, gone
    <2>3. (~call'[c].lagged => notif = <<>>) /\ (~Pod(api) => call'[c].absent)
      BY <2>b
    <2>4. Pod(api') = Pod(api)
      BY <1>1
    <2> QED
      BY <1>0, <1>1, <2>2, <2>3, <2>4 DEF CallInv, Running
  <1>4. CASE Return(c)
    <2>1. call'[c] = Idle
      BY <1>0, <1>4 DEF Return
    <2> QED
      BY <2>1 DEF CallInv, Running, Idle
  <1>5. ASSUME NEW stage, call' = [call EXCEPT ![c].at = stage]
        PROVE  call'[c] = [call[c] EXCEPT !.at = stage]
    BY <1>0, <1>5
  <1>6. ASSUME NEW pod, call' = [call EXCEPT ![c].at = "answered", ![c].answer = pod]
        PROVE  call'[c] = [call[c] EXCEPT !.at = "answered", !.answer = pod]
    BY <1>0, <1>6
  <1>7. CASE AskDirectly(c)
    <2>1. call'[c] = [call[c] EXCEPT !.at = "answered",
                                     !.answer = IF Pod(api) THEN api ELSE 0]
      BY <1>6, <1>7 DEF AskDirectly, Answer
    <2> QED
      BY <1>0, <1>1, <1>2, <1>7, <2>1, NoPodAtFirst
         DEF AskDirectly, CallInv, Running, Calls
  <1>8. CASE AskLister(c)
    <2>1. CASE Pod(seen)
      <3>1. call'[c] = [call[c] EXCEPT !.at = "answered", !.answer = seen]
        BY <1>6, <1>8, <2>1 DEF AskLister, Answer
      <3>2. seen >= call[c].known /\ seen # 0
        BY <1>0, <1>2, <1>8, <2>1, NoPodAtFirst DEF AskLister, CallInv, Running
      <3> QED
        BY <1>0, <1>1, <3>1, <3>2 DEF CallInv, Running, Calls
    <2>2. CASE ~Pod(seen)
      <3>1. call'[c] = [call[c] EXCEPT !.at = "deleted"]
        BY <1>5, <1>8, <2>2 DEF AskLister, Goto
      <3>2. call[c].known <= newest /\ (~call[c].lagged => notif = <<>>)
        BY <1>0, <1>8 DEF AskLister, CallInv, Running
      <3>3. ~call[c].lagged => deleted.pod >= call[c].known
        BY <1>0, <1>2, <2>2, <3>2 DEF NewestInv
      <3> QED
        BY <1>0, <1>1, <1>8, <3>1, <3>2, <3>3 DEF AskLister, CallInv, Running, Calls
    <2> QED
      BY <2>1, <2>2
  <1>9. CASE AskDeleted(c)
    <2>1. CASE now < deleted.until
      <3>1. call'[c] = [call[c] EXCEPT !.at = "answered", !.answer = deleted.pod]
        BY <1>6, <1>9, <2>1 DEF AskDeleted, Answer
      <3>2. deleted.pod # 0 /\ (~call[c].lagged => deleted.pod >= call[c].known)
        BY <1>0, <1>9, <2>1 DEF AskDeleted, CallInv, CacheInv, TypeOK
      <3> QED
        BY <1>0, <1>1, <3>1, <3>2 DEF CallInv, Running, Calls
    <2>2. CASE ~(now < deleted.until)
      <3>1. call'[c] = [call[c] EXCEPT !.at = "notFound"]
        BY <1>5, <1>9, <2>2 DEF AskDeleted, Goto
      <3>2. call[c].until <= now
        BY <1>0, <1>2, <1>9, <2>2 DEF AskDeleted, CallInv, CacheInv
      <3> QED
        BY <1>0, <1>1, <1>9, <3>1, <3>2 DEF AskDeleted, CallInv, Running, Calls
    <2> QED
      BY <2>1, <2>2
  <1>10. CASE AskNotFound(c)
    <2>1. CASE now < notFound.until
      <3>1. call'[c] = [call[c] EXCEPT !.at = "answered", !.answer = 0,
                                       !.absent = notFound.absent]
        BY <1>0, <1>10, <2>1 DEF AskNotFound
      <3>2. notFound.absent /\ call[c].until <= now
        BY <1>0, <1>10, <2>1 DEF AskNotFound, CallInv, CacheInv, TypeOK
      <3> QED
        BY <1>0, <1>1, <3>1, <3>2 DEF CallInv, Running, Calls
    <2>2. CASE ~(now < notFound.until)
      <3>1. call'[c] = [call[c] EXCEPT !.at = "api"]
        BY <1>5, <1>10, <2>2 DEF AskNotFound, Goto
      <3> QED
        BY <1>0, <1>1, <1>10, <3>1 DEF AskNotFound, CallInv, Running, Calls
    <2> QED
      BY <2>1, <2>2
  <1>11. CASE AskAPI(c)
    <2>1. CASE Pod(api)
      <3>1. call'[c] = [call[c] EXCEPT !.at = "answered", !.answer = api]
        BY <1>6, <1>11, <2>1 DEF AskAPI, Answer
      <3>2. api # 0 /\ api >= call[c].known
        BY <1>0, <1>2, <1>11, <2>1, NoPodAtFirst DEF AskAPI, CallInv, Running
      <3> QED
        BY <1>0, <1>1, <3>1, <3>2 DEF CallInv, Running, Calls
    <2>2. CASE ~Pod(api)
      <3>1. call'[c] = [call[c] EXCEPT !.at = "remember"]
        BY <1>5, <1>11, <2>2 DEF AskAPI, Goto
      <3>2. call[c].absent
        BY <1>0, <1>11, <2>2 DEF AskAPI, CallInv, Running
      <3> QED
        BY <1>0, <1>1, <1>11, <3>1, <3>2 DEF AskAPI, CallInv, Running, Calls
    <2> QED
      BY <2>1, <2>2
  <1>12. CASE APIFails(c)
    <2>1. call'[c] = [call[c] EXCEPT !.at = "failed"]
      BY <1>5, <1>12 DEF APIFails, Goto
    <2> QED
      BY <1>0, <2>1 DEF CallInv, Running, Calls
  <1>13. CASE Remember(c)
    <2>1. call'[c] = [call[c] EXCEPT !.at = "answered", !.answer = 0]
      BY <1>6, <1>13 DEF Remember, Answer
    <2> QED
      BY <1>0, <1>1, <1>13, <2>1 DEF Remember, CallInv, Running, Calls
  <1> QED
    BY <1>3, <1>4, <1>7, <1>8, <1>9, <1>10, <1>11, <1>12, <1>13 DEF GetPod

LEMMA NextCalls ==
    ASSUME PodsInv, [Next]_vars, NEW c \in Callers
    PROVE  CallInv(c)'
  <1> USE PodsAssumption
  <1>0. /\ TypeOK /\ CacheInv /\ NewestInv /\ CallInv(c)
        /\ now \in Nat /\ api \in Nat /\ seen \in 0..api /\ newest \in 0..seen
        /\ call \in [Callers -> Calls] /\ call[c] \in Calls
        /\ deleted.pod \in Nat /\ owed \in 0..(now + Retention)
        /\ call[c].known \in Nat /\ call[c].until \in Nat
    BY DEF PodsInv, TypeOK, Calls
  <1>1. CASE Tick
    <2>1. now' = now + 1 /\ UNCHANGED <<api, seen, newest, notif, deleted, owed, call>>
      BY <1>1 DEF Tick, storeVars, cacheVars
    <2> QED
      BY <1>0, <2>1 DEF CallInv, Running
  <1>2. CASE Change
    <2>1. UNCHANGED <<now, seen, newest, notif, deleted, owed>>
      BY <1>2 DEF Change, storeVars, cacheVars
    <2>2. call'[c] = IF ~Running(c) \/ Pod(api') THEN call[c]
                     ELSE [call[c] EXCEPT !.absent = TRUE]
      BY <1>0, <1>2 DEF Change, Running
    <2> QED
      BY <1>0, <2>1, <2>2 DEF CallInv, Running, Calls
  <1>3. CASE Watch \/ Relist
    <2>1. PICK change \in seen..api, tombstone \in BOOLEAN : Store(change, tombstone)
      <3>1. seen < api => seen + 1 \in seen..api /\ api \in seen..api
        BY <1>0
      <3> QED
        BY <1>3, <3>1 DEF Watch, Relist
    <2>2. /\ UNCHANGED <<now, api, deleted, owed>>
          /\ newest' \in Nat /\ newest <= newest'
      BY <1>0, <2>1 DEF Store, cacheVars
    <2>3. CASE Pod(seen) /\ ~Pod(change)
      <3>1. call'[c] = [call[c] EXCEPT !.lagged = (call[c].at # "idle")]
        BY <1>0, <2>1, <2>3 DEF Store
      <3>2. call'[c].at # "idle" => call'[c].lagged
        BY <1>0, <3>1 DEF Calls
      <3>3. /\ call'[c].at = call[c].at /\ call'[c].answer = call[c].answer
            /\ call'[c].until = call[c].until /\ call'[c].known = call[c].known
            /\ call'[c].absent = call[c].absent
        BY <1>0, <3>1 DEF Calls
      <3> QED
        BY <1>0, <2>2, <3>2, <3>3 DEF CallInv, Running
    <2>4. CASE ~(Pod(seen) /\ ~Pod(change))
      <3>1. UNCHANGED <<notif, call>>
        BY <2>1, <2>4 DEF Store
      <3> QED
        BY <1>0, <2>2, <3>1 DEF CallInv, Running
    <2> QED
      BY <2>3, <2>4
  <1>4. CASE List
    <2>1. /\ UNCHANGED <<now, api, notif, deleted, owed, call>>
          /\ newest' \in Nat /\ newest <= newest'
      BY <1>0, <1>4 DEF List, cacheVars, NewestInv
    <2> QED
      BY <1>0, <2>1 DEF CallInv, Running
  <1>5. CASE DeleteFunc
    <2>1. /\ notif # <<>> /\ UNCHANGED <<now, api, newest, call>>
          /\ owed' = now + Retention
      BY <1>5 DEF DeleteFunc
    <2> QED
      BY <1>0, <2>1 DEF CallInv, Running
  <1>6. CASE GetPod(c) \/ Return(c) \/ Begin(c)
    BY <1>6, OwnStep
  <1>7. ASSUME NEW d \in Callers, d # c, GetPod(d) \/ Return(d) \/ Begin(d)
        PROVE  CallInv(c)'
    <2>1. UNCHANGED <<now, api, seen, newest, notif, deleted, owed>>
      BY <1>0, <1>7, CallTypes DEF storeVars
    <2>2. call'[c] = call[c]
      BY <1>0, <1>7 DEF GetPod, Begin, Return, AskDirectly, AskLister, AskDeleted,
                        AskNotFound, AskAPI, APIFails, Remember, Goto, Answer
    <2> QED
      BY <1>0, <2>1, <2>2 DEF CallInv, Running
  <1>8. CASE StartInformer \/ Started \/ Stop \/ UNCHANGED vars
    <2>1. UNCHANGED <<now, api, newest, notif, deleted, owed, call>>
      BY <1>8 DEF StartInformer, Started, Stop, cacheVars, vars
    <2> QED
      BY <1>0, <2>1 DEF CallInv, Running
  <1> QED
    BY <1>1, <1>2, <1>3, <1>4, <1>5, <1>6, <1>7, <1>8 DEF Next, Informer

-----------------------------------------------------------------------------
(* Theorems.                                                               *)

\* The invariant of the pod informer.
THEOREM PodsInvariant == Spec => []PodsInv
  <1>1. PodsInv /\ [Next]_vars => PodsInv'
    BY NextTypes, NextCache, NextNewest, NextCalls DEF PodsInv
  <1> QED
    BY <1>1, InitInv, PTL DEF Spec

\* The types of the caches and calls: no entry outlives its retention.
THEOREM PodsTypeCorrect == Spec => []TypeOK
  <1>1. PodsInv => TypeOK
    BY DEF PodsInv
  <1> QED
    BY <1>1, PodsInvariant, PTL

\* RetainedIsReturned: GetPod finds what DeleteFunc kept, for any retention and
\* any number of calls.
THEOREM RetentionKept == Spec => []RetainedIsReturned
  <1>1. PodsInv => RetainedIsReturned
    BY DEF PodsInv, TypeOK, Calls, CallInv, RetainedIsReturned, Answered
  <1> QED
    BY <1>1, PodsInvariant, PTL

\* NotFoundWasTrue: GetPod and the notFound cache invent no absence.
THEOREM AbsenceIsReal == Spec => []NotFoundWasTrue
  <1>1. PodsInv => NotFoundWasTrue
    BY DEF PodsInv, CallInv, NotFoundWasTrue, Answered
  <1> QED
    BY <1>1, PodsInvariant, PTL

\* NoOlderPod: the order in which GetPod asks lister and caches never brings
\* back a predecessor of a pod the store had.
THEOREM PodsMoveOn == Spec => []NoOlderPod
  <1>1. PodsInv => NoOlderPod
    BY DEF PodsInv, CallInv, NoOlderPod, Answered
  <1> QED
    BY <1>1, PodsInvariant, PTL
=============================================================================
