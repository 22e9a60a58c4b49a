-------------------------- MODULE EventQueueProofs --------------------------
(***************************************************************************)
(* Theorems about EventQueue, for any number of events, senders, messages, *)
(* deliveries and restarts.  Each property follows from an inductive       *)
(* invariant of EventQueue: TypeInv, DedupInv, RetentionInv.               *)
(***************************************************************************)
EXTENDS EventQueue, TLAPS, SequenceTheorems

-----------------------------------------------------------------------------
(* The log.                                                                *)

\* The facts about Append the proofs below rest on.
LEMMA AppendToLog ==
    ASSUME NEW S, NEW seq \in Seq(S), NEW e \in S
    PROVE  /\ Append(seq, e) \in Seq(S)
           /\ Len(seq) \in Nat
           /\ Len(Append(seq, e)) = Len(seq) + 1
           /\ DOMAIN seq = 1..Len(seq)
           /\ DOMAIN Append(seq, e) = 1..(Len(seq) + 1)
           /\ \A m \in DOMAIN seq : Append(seq, e)[m] = seq[m]
           /\ Append(seq, e)[Len(seq) + 1] = e
  OBVIOUS

\* What the server's acceptance of a publication does to the typed state.
LEMMA StoreTypes ==
    ASSUME TypeInv, Store, pc = "publish"
    PROVE  /\ ev \in Events
           /\ log' = Append(log, ev)
           /\ log' \in Seq(Events) /\ Len(log') <= MaxLog
           /\ Len(log) + 1 \in Seqs
           /\ DOMAIN log = 1..Len(log) /\ DOMAIN log' = 1..(Len(log) + 1)
           /\ stored' \subseteq DOMAIN log'
           /\ window' \subseteq Events
           /\ owed' \in [Senders -> SUBSET Seqs]
  <1>1. ev \in Events
    BY DEF TypeInv, TypeOK, PublishOK
  <1>2. log' = Append(log, ev) /\ log \in Seq(Events) /\ Len(log) < MaxLog
    BY DEF TypeInv, TypeOK, LogOK, Store
  <1>3. /\ log' \in Seq(Events) /\ Len(log') = Len(log) + 1
        /\ DOMAIN log = 1..Len(log) /\ DOMAIN log' = 1..(Len(log) + 1)
        /\ Len(log) \in Nat
    BY <1>1, <1>2, AppendToLog
  <1>4. Len(log) + 1 \in Seqs /\ Len(log') <= MaxLog
    BY <1>2, <1>3, EventQueueAssumption DEF Seqs
  <1>5. stored' \subseteq DOMAIN log'
    BY <1>3 DEF TypeInv, TypeOK, LogOK, Store
  <1>6. window' \subseteq Events
    BY <1>1 DEF TypeInv, TypeOK, MemoryOK, Store
  <1>7. owed' \in [Senders -> SUBSET Seqs]
    BY <1>4 DEF TypeInv, TypeOK, ConsumerOK, Store
  <1> QED
    BY <1>1, <1>2, <1>3, <1>4, <1>5, <1>6, <1>7

-----------------------------------------------------------------------------
(* Types.                                                                  *)

\* A step that leaves the variables of a part alone leaves the part true.
LEMMA Frame ==
    /\ LogOK /\ UNCHANGED <<log, stored, evicted>> => LogOK'
    /\ MemoryOK /\ UNCHANGED <<window, kv, expired, unrecorded, lapsed>>
          => MemoryOK'
    /\ ConsumerOK /\ UNCHANGED <<consumers, status, dcount, owed>>
          => ConsumerOK'
    /\ ProcessOK /\ UNCHANGED <<phase, cfgd, subscribed, held, acks, restarts>>
          => ProcessOK'
    /\ PublishOK /\ UNCHANGED <<pc, ev>> => PublishOK'
    /\ NewUndelivered /\ UNCHANGED <<status, dcount>> => NewUndelivered'
  <1>1. LogOK /\ UNCHANGED <<log, stored, evicted>> => LogOK'
    BY DEF LogOK
  <1>2. MemoryOK /\ UNCHANGED <<window, kv, expired, unrecorded, lapsed>>
          => MemoryOK'
    BY DEF MemoryOK
  <1>3. ConsumerOK /\ UNCHANGED <<consumers, status, dcount, owed>>
          => ConsumerOK'
    BY DEF ConsumerOK
  <1>4. ProcessOK
          /\ UNCHANGED <<phase, cfgd, subscribed, held, acks, restarts>>
          => ProcessOK'
    BY DEF ProcessOK
  <1>5. PublishOK /\ UNCHANGED <<pc, ev>> => PublishOK'
    BY DEF PublishOK
  <1>6. NewUndelivered /\ UNCHANGED <<status, dcount>> => NewUndelivered'
    BY DEF NewUndelivered
  <1> QED
    BY <1>1, <1>2, <1>3, <1>4, <1>5, <1>6

LEMMA InitTypeInv == Init => TypeInv
  <1> SUFFICES ASSUME Init PROVE TypeInv
    OBVIOUS
  <1>1. LogOK
    <2>1. <<>> \in Seq(Events) /\ Len(<<>>) = 0 /\ DOMAIN <<>> = {}
      OBVIOUS
    <2> QED
      BY <2>1, EventQueueAssumption DEF Init, LogOK
  <1>2. MemoryOK
    BY DEF Init, MemoryOK
  <1>3. ConsumerOK
    BY EventQueueAssumption DEF Init, ConsumerOK, Seqs, Statuses
  <1>4. ProcessOK
    BY EventQueueAssumption DEF Init, ProcessOK
  <1>5. PublishOK
    BY EventQueueAssumption DEF Init, PublishOK
  <1>6. NewUndelivered
    BY DEF Init, NewUndelivered
  <1> QED
    BY <1>1, <1>2, <1>3, <1>4, <1>5, <1>6 DEF TypeInv, TypeOK

\* The process: starting, subscribing, pruning, serving, stopping.
LEMMA ProcessTypeInv ==
    ASSUME TypeInv,
           \/ Start \/ Serve \/ Halt
           \/ \E s \in Senders : Subscribe(s) \/ Prune(s)
    PROVE  TypeInv'
  <1> USE DEF streamVars, dedupVars, consumerVars, clientVars, publishVars,
              processVars, memoryVars
  <1>0. LogOK /\ MemoryOK /\ ConsumerOK /\ ProcessOK /\ PublishOK /\ NewUndelivered
    BY DEF TypeInv, TypeOK
  <1>1. CASE Start
    <2>1. ProcessOK'
      BY <1>0, <1>1 DEF Start, ProcessOK
    <2> QED
      BY <1>0, <1>1, <2>1, Frame DEF Start, TypeInv, TypeOK
  <1>2. CASE Serve
    <2>1. ProcessOK'
      BY <1>0, <1>2 DEF Serve, ProcessOK
    <2> QED
      BY <1>0, <1>2, <2>1, Frame DEF Serve, TypeInv, TypeOK
  <1>3. CASE Halt
    <2>1. ProcessOK'
      <3>1. restarts' \in 0..MaxRestarts
        BY <1>0, <1>3, EventQueueAssumption DEF Halt, ProcessOK
      <3> QED
        BY <1>3, <3>1 DEF Halt, ProcessOK
    <2>2. MemoryOK'
      <3>1. pc = "put" => ev \in Events
        BY <1>0 DEF PublishOK
      <3> QED
        BY <1>0, <1>3, <3>1 DEF Halt, MemoryOK
    <2>3. PublishOK'
      BY <1>3 DEF Halt, PublishOK
    <2> QED
      BY <1>0, <1>3, <2>1, <2>2, <2>3, Frame DEF Halt, TypeInv, TypeOK
  <1>4. ASSUME NEW s \in Senders, Subscribe(s) PROVE TypeInv'
    <2>1. ProcessOK'
      BY <1>0, <1>4 DEF Subscribe, ProcessOK
    <2>2. ConsumerOK'
      BY <1>0, <1>4 DEF Subscribe, ConsumerOK
    <2> QED
      BY <1>0, <1>4, <2>1, <2>2, Frame DEF Subscribe, TypeInv, TypeOK
  <1>5. ASSUME NEW s \in Senders, Prune(s) PROVE TypeInv'
    <2>1. LogOK'
      BY <1>0, <1>5 DEF Prune, Needed, LogOK
    <2>2. ConsumerOK'
      BY <1>0, <1>5, EventQueueAssumption DEF Prune, ConsumerOK, Statuses
    <2>3. NewUndelivered'
      BY <1>0, <1>5 DEF Prune, NewUndelivered, ConsumerOK
    <2> QED
      BY <1>0, <1>5, <2>1, <2>2, <2>3, Frame DEF Prune, TypeInv, TypeOK
  <1> QED
    BY <1>1, <1>2, <1>3, <1>4, <1>5

LEMMA PublishTypeInv == ASSUME TypeInv, PublishEvent PROVE TypeInv'
  <1> USE DEF streamVars, dedupVars, consumerVars, clientVars, publishVars,
              processVars, memoryVars
  <1>0. LogOK /\ MemoryOK /\ ConsumerOK /\ ProcessOK /\ PublishOK /\ NewUndelivered
    BY DEF TypeInv, TypeOK
  <1>1. ASSUME NEW e \in Events, Get(e) PROVE TypeInv'
    <2>1. PublishOK'
      BY <1>0, <1>1, EventQueueAssumption DEF Get, PublishOK
    <2> QED
      BY <1>0, <1>1, <2>1, Frame DEF Get, TypeInv, TypeOK
  <1>2. CASE Publish
    <2>1. pc = "publish" /\ Store
      BY <1>2 DEF Publish
    <2>2. LogOK'
      BY <1>0, <1>2, <2>1, StoreTypes DEF Publish, LogOK
    <2>3. MemoryOK'
      BY <1>0, <1>2, <2>1, StoreTypes DEF Publish, Store, MemoryOK
    <2>4. ConsumerOK'
      BY <1>0, <1>2, <2>1, StoreTypes DEF Publish, ConsumerOK
    <2>5. PublishOK'
      BY <1>0, <1>2 DEF Publish, PublishOK
    <2> QED
      BY <1>0, <1>2, <2>2, <2>3, <2>4, <2>5, Frame DEF Publish, TypeInv, TypeOK
  <1>3. CASE PublishUnanswered
    <2>1. pc = "publish" /\ Store
      BY <1>3 DEF PublishUnanswered
    <2>2. LogOK'
      BY <1>0, <1>3, <2>1, StoreTypes DEF PublishUnanswered, LogOK
    <2>3. MemoryOK'
      BY <1>0, <1>3, <2>1, StoreTypes DEF PublishUnanswered, Store, MemoryOK
    <2>4. ConsumerOK'
      BY <1>0, <1>3, <2>1, StoreTypes DEF PublishUnanswered, ConsumerOK
    <2>5. PublishOK'
      BY <1>3 DEF PublishUnanswered, PublishReturns, PublishOK
    <2> QED
      BY <1>0, <1>3, <2>2, <2>3, <2>4, <2>5, Frame
         DEF PublishUnanswered, TypeInv, TypeOK
  <1>4. CASE PublishDuplicate \/ PublishFails
    <2>1. PublishOK'
      BY <1>4 DEF PublishDuplicate, PublishFails, PublishReturns, PublishOK
    <2> QED
      BY <1>0, <1>4, <2>1, Frame
         DEF PublishDuplicate, PublishFails, TypeInv, TypeOK
  <1>5. CASE Put \/ PutFails
    <2>1. PublishOK'
      BY <1>5 DEF Put, PutFails, PublishReturns, PublishOK
    <2>2. MemoryOK'
      <3>1. ev \in Events
        BY <1>0, <1>5 DEF Put, PutFails, PublishOK
      <3> QED
        BY <1>0, <1>5, <3>1 DEF Put, PutFails, MemoryOK
    <2> QED
      BY <1>0, <1>5, <2>1, <2>2, Frame DEF Put, PutFails, TypeInv, TypeOK
  <1> QED
    BY <1>1, <1>2, <1>3, <1>4, <1>5 DEF PublishEvent

LEMMA ConsumeTypeInv ==
    ASSUME TypeInv, NEW s \in Senders, Consume(s)
    PROVE  TypeInv'
  <1> USE DEF streamVars, dedupVars, consumerVars, clientVars, publishVars,
              processVars, memoryVars
  <1>0. LogOK /\ MemoryOK /\ ConsumerOK /\ ProcessOK /\ PublishOK /\ NewUndelivered
    BY DEF TypeInv, TypeOK
  <1>1. CASE Fetch(s)
    <2>1. PICK m \in Deliverable(s), arrives \in BOOLEAN :
            /\ status' = [status EXCEPT ![s][m] = "pending"]
            /\ dcount' = [dcount EXCEPT ![s][m] = @ + 1]
            /\ held' = [held EXCEPT ![s] = IF arrives THEN m ELSE 0]
      BY <1>1 DEF Fetch
    <2>2. m \in Seqs /\ m \in stored
      <3>1. m \in DOMAIN log
        BY <1>0, <2>1 DEF Deliverable, Redeliverable, Fresh, LogOK
      <3>2. DOMAIN log = 1..Len(log) /\ Len(log) \in Nat /\ Len(log) <= MaxLog
        BY <1>0 DEF LogOK
      <3> QED
        BY <1>0, <2>1, <3>1, <3>2, EventQueueAssumption
           DEF Deliverable, Redeliverable, Fresh, Seqs
    <2>3. dcount[s][m] \in 0..MaxDeliver /\ dcount[s][m] < MaxDeliver
      <3>1. dcount[s][m] < MaxDeliver \/ status[s][m] = "new"
        BY <2>1 DEF Deliverable, Redeliverable, Fresh
      <3> QED
        BY <1>0, <2>2, <3>1, EventQueueAssumption DEF ConsumerOK, NewUndelivered
    <2>4. ConsumerOK'
      <3>1. status' \in [Senders -> [Seqs -> Statuses]]
        BY <1>0, <2>1, <2>2 DEF ConsumerOK, Statuses
      <3>2. dcount' \in [Senders -> [Seqs -> 0..MaxDeliver]]
        BY <1>0, <2>1, <2>2, <2>3, EventQueueAssumption DEF ConsumerOK
      <3> QED
        BY <1>0, <1>1, <3>1, <3>2 DEF Fetch, ConsumerOK
    <2>5. ProcessOK'
      BY <1>0, <1>1, <2>1, <2>2 DEF Fetch, ProcessOK
    <2>6. NewUndelivered'
      BY <1>0, <2>1, <2>2 DEF ConsumerOK, NewUndelivered
    <2> QED
      BY <1>0, <1>1, <2>4, <2>5, <2>6, Frame DEF Fetch, TypeInv, TypeOK
  <1>2. CASE Ack(s) \/ Leave(s)
    <2>1. ProcessOK'
      BY <1>0, <1>2 DEF Ack, Leave, ProcessOK
    <2> QED
      BY <1>0, <1>2, <2>1, Frame DEF Ack, Leave, TypeInv, TypeOK
  <1>3. CASE HandleAck(s)
    <2>1. PICK m \in acks[s] :
            /\ acks' = [acks EXCEPT ![s] = @ \ {m}]
            /\ IF status[s][m] \in {"pending", "due"}
               THEN /\ status' = [status EXCEPT ![s][m] = "acked"]
                    /\ dcount' = [dcount EXCEPT ![s][m] = 0]
                    /\ owed' = [owed EXCEPT ![s] = @ \ {m}]
                    /\ stored' = stored \ ({m} \ Needed(consumers, status'))
               ELSE UNCHANGED <<status, dcount, owed, stored>>
      BY <1>3 DEF HandleAck
    <2>2. m \in Seqs
      BY <1>0, <2>1 DEF ProcessOK
    <2>3. LogOK'
      BY <1>0, <1>3, <2>1 DEF HandleAck, LogOK
    <2>4. ConsumerOK'
      <3>1. CASE UNCHANGED <<status, dcount, owed>>
        BY <1>0, <1>3, <3>1 DEF HandleAck, ConsumerOK
      <3>2. CASE /\ status' = [status EXCEPT ![s][m] = "acked"]
                 /\ dcount' = [dcount EXCEPT ![s][m] = 0]
                 /\ owed' = [owed EXCEPT ![s] = @ \ {m}]
        <4>1. status' \in [Senders -> [Seqs -> Statuses]]
          BY <1>0, <2>2, <3>2 DEF ConsumerOK, Statuses
        <4>2. dcount' \in [Senders -> [Seqs -> 0..MaxDeliver]]
          BY <1>0, <2>2, <3>2, EventQueueAssumption DEF ConsumerOK
        <4>3. owed' \in [Senders -> SUBSET Seqs]
          BY <1>0, <3>2 DEF ConsumerOK
        <4> QED
          BY <1>0, <1>3, <4>1, <4>2, <4>3 DEF HandleAck, ConsumerOK
      <3> QED
        BY <2>1, <3>1, <3>2
    <2>5. ProcessOK'
      BY <1>0, <1>3, <2>1 DEF HandleAck, ProcessOK
    <2>6. NewUndelivered'
      BY <1>0, <2>1, <2>2 DEF ConsumerOK, NewUndelivered
    <2> QED
      BY <1>0, <1>3, <2>3, <2>4, <2>5, <2>6, Frame DEF HandleAck, TypeInv, TypeOK
  <1>4. CASE AckTimer(s)
    <2>1. PICK m \in Seqs : status' = [status EXCEPT ![s][m] = "due"]
      BY <1>4 DEF AckTimer
    <2>2. ConsumerOK'
      <3>1. status' \in [Senders -> [Seqs -> Statuses]]
        BY <1>0, <2>1 DEF ConsumerOK, Statuses
      <3> QED
        BY <1>0, <1>4, <3>1 DEF AckTimer, ConsumerOK
    <2>3. NewUndelivered'
      BY <1>0, <1>4, <2>1 DEF AckTimer, ConsumerOK, NewUndelivered
    <2> QED
      BY <1>0, <1>4, <2>2, <2>3, Frame DEF AckTimer, TypeInv, TypeOK
  <1>5. CASE GiveUp(s)
    <2>1. PICK m \in Seqs : /\ status' = [status EXCEPT ![s][m] = "gaveup"]
                            /\ dcount' = [dcount EXCEPT ![s][m] = 0]
      BY <1>5 DEF GiveUp
    <2>2. ConsumerOK'
      <3>1. status' \in [Senders -> [Seqs -> Statuses]]
        BY <1>0, <2>1 DEF ConsumerOK, Statuses
      <3>2. dcount' \in [Senders -> [Seqs -> 0..MaxDeliver]]
        BY <1>0, <2>1, EventQueueAssumption DEF ConsumerOK
      <3> QED
        BY <1>0, <1>5, <3>1, <3>2 DEF GiveUp, ConsumerOK
    <2>3. NewUndelivered'
      BY <1>0, <2>1 DEF ConsumerOK, NewUndelivered
    <2> QED
      BY <1>0, <1>5, <2>2, <2>3, Frame DEF GiveUp, TypeInv, TypeOK
  <1> QED
    BY <1>1, <1>2, <1>3, <1>4, <1>5 DEF Consume

LEMMA LimitTypeInv ==
    ASSUME TypeInv, Evict \/ \E e \in Events : ExpireKey(e) \/ LapseWindow(e)
    PROVE  TypeInv'
  <1> USE DEF streamVars, dedupVars, consumerVars, clientVars, publishVars,
              processVars, memoryVars
  <1>0. LogOK /\ MemoryOK /\ ConsumerOK /\ ProcessOK /\ PublishOK /\ NewUndelivered
    BY DEF TypeInv, TypeOK
  <1>1. CASE Evict
    <2>1. LogOK'
      BY <1>0, <1>1 DEF Evict, LogOK
    <2> QED
      BY <1>0, <1>1, <2>1, Frame DEF Evict, TypeInv, TypeOK
  <1>2. ASSUME NEW e \in Events, ExpireKey(e) \/ LapseWindow(e) PROVE TypeInv'
    <2>1. MemoryOK'
      BY <1>0, <1>2 DEF ExpireKey, LapseWindow, MemoryOK
    <2> QED
      BY <1>0, <1>2, <2>1, Frame DEF ExpireKey, LapseWindow, TypeInv, TypeOK
  <1> QED
    BY <1>1, <1>2

LEMMA NextTypeInv == TypeInv /\ [Next]_vars => TypeInv'
  <1> SUFFICES ASSUME TypeInv, [Next]_vars PROVE TypeInv'
    OBVIOUS
  <1>1. CASE UNCHANGED vars
    BY <1>1, Frame DEF vars, TypeInv, TypeOK
  <1>2. CASE Next
    BY <1>2, ProcessTypeInv, PublishTypeInv, ConsumeTypeInv, LimitTypeInv DEF Next
  <1> QED
    BY <1>1, <1>2

\* Type correctness: the sequence numbers, statuses and delivery counts stay
\* in range; no message is delivered more than MaxDeliver times.
THEOREM TypeCorrect == Spec => []TypeOK
  <1>1. TypeInv => TypeOK
    BY DEF TypeInv
  <1> QED
    BY <1>1, InitTypeInv, NextTypeInv, PTL DEF Spec

-----------------------------------------------------------------------------
(* Deduplication.                                                          *)

\* The copy stored is the latest now, in the window, its key about to be
\* written or never written; all other events are as before.
LEMMA StoreDedup ==
    ASSUME TypeInv, DedupInv, Store, pc = "publish", UNCHANGED kv,
           unrecorded \ {ev} \subseteq unrecorded'
    PROVE  /\ \A m \in DOMAIN log' :
                /\ log'[m] \in window' \cup lapsed'
                /\ log'[m] \in kv' \cup expired' \cup unrecorded' \/ log'[m] = ev
           /\ \A e \in kv' \cup window' : \E m \in DOMAIN log' : log'[m] = e
           /\ \E m \in DOMAIN log' : log'[m] = ev
  <1> DEFINE new == Len(log) + 1
  <1>1. /\ ev \in Events /\ log \in Seq(Events) /\ log' = Append(log, ev)
        /\ DOMAIN log = 1..Len(log) /\ DOMAIN log' = 1..new
        /\ Len(log) \in Nat
    BY StoreTypes, AppendToLog DEF TypeInv, TypeOK, LogOK
  <1>2. /\ \A m \in DOMAIN log : log'[m] = log[m]
        /\ log'[new] = ev
    BY <1>1, AppendToLog
  <1>3. DOMAIN log' = DOMAIN log \cup {new}
    BY <1>1
  <1>4. /\ window' = window \cup {ev}
        /\ lapsed' = lapsed \ {ev} /\ expired' = expired \ {ev}
    BY DEF Store
  <1>5. \A m \in DOMAIN log :
            /\ log[m] \in window' \cup lapsed'
            /\ log[m] \in kv' \cup expired' \cup unrecorded' \/ log[m] = ev
    BY <1>4 DEF DedupInv
  <1>6. \A m \in DOMAIN log' :
            /\ log'[m] \in window' \cup lapsed'
            /\ log'[m] \in kv' \cup expired' \cup unrecorded' \/ log'[m] = ev
    BY <1>2, <1>3, <1>4, <1>5
  <1>7. \E m \in DOMAIN log' : log'[m] = ev
    BY <1>2, <1>3
  <1>8. \A e \in kv' \cup window' : \E m \in DOMAIN log' : log'[m] = e
    BY <1>2, <1>3, <1>4, <1>7 DEF DedupInv
  <1> HIDE DEF new
  <1> QED
    BY <1>6, <1>7, <1>8

LEMMA NextDedup ==
    ASSUME TypeInv, DedupInv, [Next]_vars PROVE DedupInv'
  <1> USE DEF streamVars, dedupVars, consumerVars, clientVars, publishVars,
              processVars, memoryVars
  <1>1. CASE UNCHANGED <<log, window, kv, pc, ev, expired, unrecorded, lapsed>>
    BY <1>1 DEF DedupInv
  <1>2. CASE Halt
    <2>1. /\ \A m \in DOMAIN log :
               /\ log[m] \in window' \cup lapsed'
               /\ log[m] \in kv \cup expired \cup unrecorded'
          /\ \A e \in kv \cup window' : \E m \in DOMAIN log : log[m] = e
      BY <1>2 DEF Halt, DedupInv
    <2> QED
      BY <1>2, <2>1 DEF Halt, DedupInv
  <1>3. ASSUME NEW e \in Events, Get(e) PROVE DedupInv'
    BY <1>3 DEF Get, DedupInv
  <1>4. CASE Publish
    <2>1. pc = "publish" /\ Store /\ UNCHANGED <<kv, ev>>
          /\ unrecorded' = unrecorded \ {ev} /\ pc' = "put"
      BY <1>4 DEF Publish
    <2> QED
      BY <2>1, StoreDedup DEF DedupInv
  <1>5. CASE PublishUnanswered
    <2>1. /\ pc = "publish" /\ Store /\ UNCHANGED kv
          /\ unrecorded' = unrecorded \cup {ev} /\ pc' = "idle"
      BY <1>5 DEF PublishUnanswered, PublishReturns
    <2> QED
      BY <2>1, StoreDedup DEF DedupInv
  <1>6. CASE PublishDuplicate \/ PublishFails
    <2>1. pc = "publish" /\ pc' = "idle"
          /\ UNCHANGED <<log, window, kv, expired, unrecorded, lapsed>>
      BY <1>6 DEF PublishDuplicate, PublishFails, PublishReturns
    <2> QED
      BY <2>1 DEF DedupInv
  <1>7. CASE Put \/ PutFails
    <2>1. /\ pc = "put" /\ pc' = "idle"
          /\ UNCHANGED <<log, window, expired, lapsed>>
          /\ \/ kv' = kv \cup {ev} /\ unrecorded' = unrecorded
             \/ kv' = kv /\ unrecorded' = unrecorded \cup {ev}
      BY <1>7 DEF Put, PutFails, PublishReturns
    <2>2. \A e \in kv' \cup window : \E m \in DOMAIN log : log[m] = e
      BY <2>1 DEF DedupInv
    <2> QED
      BY <2>1, <2>2 DEF DedupInv
  <1>8. ASSUME NEW e \in Events, ExpireKey(e) \/ LapseWindow(e) PROVE DedupInv'
    BY <1>8 DEF ExpireKey, LapseWindow, DedupInv
  <1>9. ASSUME NEW s \in Senders, Subscribe(s) \/ Prune(s) \/ Consume(s)
        PROVE  DedupInv'
    <2>1. UNCHANGED <<log, window, kv, pc, ev, expired, unrecorded, lapsed>>
      BY <1>9 DEF Subscribe, Prune, Consume, Fetch, Ack, Leave, HandleAck,
                  AckTimer, GiveUp
    <2> QED
      BY <1>1, <2>1
  <1>10. CASE Start \/ Serve \/ Evict \/ UNCHANGED vars
    <2>1. UNCHANGED <<log, window, kv, pc, ev, expired, unrecorded, lapsed>>
      BY <1>10 DEF Start, Serve, Evict, vars
    <2> QED
      BY <1>1, <2>1
  <1> QED
    BY <1>2, <1>3, <1>4, <1>5, <1>6, <1>7, <1>8, <1>9, <1>10
       DEF Next, PublishEvent

\* The deduplication invariant, for any number of events and restarts.
THEOREM DedupInvariant == Spec => [](TypeInv /\ DedupInv)
  <1>1. Init => TypeInv /\ DedupInv
    <2>1. Init => DedupInv
      <3>1. DOMAIN <<>> = {}
        OBVIOUS
      <3> QED
        BY <3>1 DEF Init, DedupInv
    <2> QED
      BY <2>1, InitTypeInv
  <1>2. TypeInv /\ DedupInv /\ [Next]_vars => (TypeInv /\ DedupInv)'
    BY NextTypeInv, NextDedup
  <1> QED
    BY <1>1, <1>2, PTL DEF Spec

\* A step that appends an event is the server's acceptance of the PublishEvent
\* under way.
LEMMA OnlyStoreAppends ==
    ASSUME TypeInv, [Next]_vars, NEW e \in Events, log' = Append(log, e)
    PROVE  pc = "publish" /\ ev = e /\ ev \notin window
  <1>1. log \in Seq(Events)
    BY DEF TypeInv, TypeOK, LogOK
  <1>2. log' # log
    BY <1>1, AppendToLog
  <1>3. Publish \/ PublishUnanswered
    BY <1>2 DEF Next, vars, PublishEvent, Consume, Start, Serve, Halt, Subscribe,
                Prune, Get, PublishDuplicate, PublishFails, Put, PutFails, Fetch,
                Ack, Leave, HandleAck, AckTimer, GiveUp, Evict, ExpireKey,
                LapseWindow, streamVars
  <1>4. pc = "publish" /\ Store
    BY <1>3 DEF Publish, PublishUnanswered
  <1>5. log'[Len(log) + 1] = e /\ log'[Len(log) + 1] = ev
    BY <1>1, <1>4, StoreTypes, AppendToLog
  <1> QED
    BY <1>4, <1>5 DEF Store

\* PublishEvent stores an event again only if, since its latest copy, the
\* window forgot it and its key expired, or was never written for that copy:
\* Publish looks at the window, and what Get saw of the bucket still holds.
THEOREM Deduplicated == Spec => NoDuplicateStored
  <1> DEFINE Forgotten ==
                 \A e \in Events :
                    log' = Append(log, e) /\ e \in Range(log) =>
                        e \in lapsed \cap (expired \cup unrecorded)
  <1>1. TypeInv /\ DedupInv /\ [Next]_vars => [Forgotten]_vars
    <2> SUFFICES ASSUME TypeInv, DedupInv, [Next]_vars, NEW e \in Events,
                        log' = Append(log, e), e \in Range(log)
                 PROVE  e \in lapsed \cap (expired \cup unrecorded)
      OBVIOUS
    <2>1. pc = "publish" /\ ev = e /\ ev \notin window
      BY OnlyStoreAppends
    <2>2. PICK m \in DOMAIN log : log[m] = e
      BY DEF Range
    <2> QED
      BY <2>1, <2>2 DEF DedupInv
  <1> QED
    BY <1>1, DedupInvariant, PTL DEF Spec, NoDuplicateStored

\* PublishEvent skips only events that were stored.
THEOREM NeverSkipsUnstored == Spec => []RememberedWasStored
  <1>1. TypeInv /\ DedupInv => RememberedWasStored
    BY DEF DedupInv, RememberedWasStored, Range
  <1> QED
    BY <1>1, DedupInvariant, PTL

-----------------------------------------------------------------------------
(* Retention.                                                              *)

\* Publishing for the configured senders: they all have a consumer by now,
\* none of which knows the new message.
LEMMA StoreRetention ==
    ASSUME TypeInv, RetentionInv, Store, pc = "publish", phase = "running",
           UNCHANGED <<consumers, status, subscribed, phase, cfgd, evicted>>
    PROVE  RetentionInv'
  <1> DEFINE new == Len(log) + 1
  <1>1. /\ DOMAIN log = 1..Len(log) /\ DOMAIN log' = 1..new
        /\ new \in Seqs /\ Len(log) \in Nat
    BY StoreTypes DEF TypeInv, TypeOK, LogOK
  <1>2. DOMAIN log \subseteq DOMAIN log' /\ new \notin DOMAIN log
    BY <1>1
  <1>3. \A s \in Senders : status[s][new] = "new"
    BY <1>1, <1>2 DEF RetentionInv
  <1>4. \A s \in Senders :
            owed'[s] = IF s \in cfgd THEN owed[s] \cup {new} ELSE owed[s]
    BY DEF Store
  <1>5. stored' = IF consumers = {} THEN stored ELSE stored \cup {new}
    BY DEF Store
  <1>6. consumers = cfgd
    BY DEF RetentionInv
  <1>7. consumers \subseteq Senders
    BY DEF TypeInv, TypeOK, ConsumerOK
  <1> HIDE DEF new
  <1>8. \A s \in Senders : \A m \in owed'[s] :
            /\ s \in consumers /\ status[s][m] # "acked"
            /\ m \in stored' \cup evicted \/ status[s][m] = "gaveup"
    <2> TAKE s \in Senders
    <2> TAKE m \in owed'[s]
    <2>1. CASE m \in owed[s]
      BY <1>5, <2>1 DEF RetentionInv, OwedIsStored
    <2>2. CASE m = new /\ s \in cfgd
      BY <1>3, <1>5, <1>6, <2>2
    <2> QED
      BY <1>4, <2>1, <2>2
  <1>9. \A m \in stored' : \E s \in consumers : status[s][m] # "acked"
    BY <1>3, <1>5, <1>7 DEF RetentionInv
  <1>10. \A s \in Senders, m \in Seqs : status[s][m] # "new" => m \in DOMAIN log'
    BY <1>2 DEF RetentionInv
  <1> QED
    BY <1>6, <1>8, <1>9, <1>10 DEF RetentionInv, OwedIsStored

\* Pruning takes only messages the remaining consumers do not need.
LEMMA PruneRetention ==
    ASSUME TypeInv, RetentionInv, NEW s \in Senders, Prune(s)
    PROVE  RetentionInv'
  <1> USE DEF dedupVars, clientVars, publishVars, processVars, memoryVars
  <1>1. /\ phase = "starting" /\ subscribed = cfgd /\ s \notin cfgd
        /\ consumers' = consumers \ {s}
        /\ stored' = Needed(consumers \ {s}, status)
        /\ status' = [status EXCEPT ![s] = [m \in Seqs |-> "new"]]
        /\ owed' = [owed EXCEPT ![s] = {}]
        /\ UNCHANGED <<log, subscribed, phase, cfgd, evicted, pc>>
    BY DEF Prune
  <1>2. /\ \A t \in Senders \ {s} : status'[t] = status[t] /\ owed'[t] = owed[t]
        /\ owed'[s] = {} /\ \A m \in Seqs : status'[s][m] = "new"
    BY <1>1 DEF TypeInv, TypeOK, ConsumerOK
  <1>3. consumers \subseteq Senders
    BY DEF TypeInv, TypeOK, ConsumerOK
  <1>4. \A t \in Senders : \A m \in owed'[t] :
            /\ t \in consumers' /\ status'[t][m] # "acked"
            /\ m \in stored' \cup evicted \/ status'[t][m] = "gaveup"
    BY <1>1, <1>2 DEF RetentionInv, OwedIsStored, Needed
  <1>5. \A m \in stored' : \E t \in consumers' : status'[t][m] # "acked"
    BY <1>1, <1>2, <1>3 DEF Needed
  <1>6. \A t \in Senders, m \in Seqs : status'[t][m] # "new" => m \in DOMAIN log
    BY <1>2 DEF RetentionInv
  <1> QED
    BY <1>1, <1>4, <1>5, <1>6 DEF RetentionInv, OwedIsStored

\* An acknowledgement takes its message only when no consumer needs it.
LEMMA HandleAckRetention ==
    ASSUME TypeInv, RetentionInv, NEW s \in Senders, HandleAck(s)
    PROVE  RetentionInv'
  <1> USE DEF dedupVars, publishVars, processVars, memoryVars
  <1>1. PICK m \in acks[s] :
            IF status[s][m] \in {"pending", "due"}
            THEN /\ status' = [status EXCEPT ![s][m] = "acked"]
                 /\ owed' = [owed EXCEPT ![s] = @ \ {m}]
                 /\ stored' = stored \ ({m} \ Needed(consumers, status'))
            ELSE UNCHANGED <<status, owed, stored>>
    BY DEF HandleAck
  <1>2. UNCHANGED <<log, consumers, subscribed, phase, cfgd, evicted, pc>>
    BY DEF HandleAck
  <1>3. m \in Seqs
    BY <1>1 DEF TypeInv, TypeOK, ProcessOK
  <1>4. CASE status[s][m] \notin {"pending", "due"}
    BY <1>1, <1>2, <1>4 DEF RetentionInv, OwedIsStored
  <1>5. CASE status[s][m] \in {"pending", "due"}
    <2>1. /\ status' = [status EXCEPT ![s][m] = "acked"]
          /\ owed' = [owed EXCEPT ![s] = @ \ {m}]
          /\ stored' = stored \ ({m} \ Needed(consumers, status'))
      BY <1>1, <1>5
    <2>2. \A t \in Senders, n \in Seqs :
              status'[t][n] = IF t = s /\ n = m THEN "acked" ELSE status[t][n]
      BY <1>3, <2>1 DEF TypeInv, TypeOK, ConsumerOK
    <2>3. \A t \in Senders : owed'[t] = IF t = s THEN owed[t] \ {m} ELSE owed[t]
      BY <2>1 DEF TypeInv, TypeOK, ConsumerOK
    <2>4. owed \in [Senders -> SUBSET Seqs] /\ consumers \subseteq Senders
      BY DEF TypeInv, TypeOK, ConsumerOK
    <2>5. stored \subseteq Seqs
      BY EventQueueAssumption DEF TypeInv, TypeOK, LogOK, Seqs
    <2>6. ASSUME NEW t \in Senders, NEW n \in owed'[t]
          PROVE  /\ t \in consumers /\ status'[t][n] # "acked"
                 /\ n \in stored' \cup evicted \/ status'[t][n] = "gaveup"
      <3>1. n \in owed[t] /\ n \in Seqs /\ ~(t = s /\ n = m)
        BY <2>3, <2>4, <2>6
      <3>2. /\ t \in consumers /\ status[t][n] # "acked"
            /\ n \in stored \cup evicted \/ status[t][n] = "gaveup"
        BY <3>1 DEF RetentionInv, OwedIsStored
      <3>3. status'[t][n] = status[t][n]
        BY <2>2, <3>1
      <3>4. ASSUME n \in stored, status[t][n] # "gaveup" PROVE n \in stored'
        BY <2>1, <3>2, <3>3, <3>4 DEF Needed
      <3> QED
        BY <3>2, <3>3, <3>4
    <2>7. ASSUME NEW n \in stored' PROVE \E t \in consumers : status'[t][n] # "acked"
      <3>1. n \in stored /\ n \in Seqs
        BY <2>1, <2>5
      <3>2. CASE n = m
        BY <2>1, <3>2 DEF Needed
      <3>3. CASE n # m
        <4>1. PICK t \in consumers : status[t][n] # "acked"
          BY <3>1 DEF RetentionInv
        <4> QED
          BY <2>2, <2>4, <3>1, <3>3, <4>1
      <3> QED
        BY <3>2, <3>3
    <2>8. \A t \in Senders, n \in Seqs : status'[t][n] # "new" => n \in DOMAIN log
      BY <1>5, <2>2 DEF RetentionInv
    <2> QED
      BY <1>2, <2>6, <2>7, <2>8 DEF RetentionInv, OwedIsStored
  <1> QED
    BY <1>4, <1>5

\* Delivering, timing out and giving up change the status of one message,
\* never to or from "acked", and "gaveup" only becomes more.
LEMMA DeliveryRetention ==
    ASSUME TypeInv, RetentionInv, NEW s \in Senders,
           Fetch(s) \/ AckTimer(s) \/ GiveUp(s)
    PROVE  RetentionInv'
  <1> USE DEF streamVars, dedupVars, clientVars, publishVars, processVars, memoryVars
  <1>1. /\ UNCHANGED <<log, stored, consumers, subscribed, phase, cfgd,
                       evicted, owed, pc>>
        /\ \E m \in Seqs, x \in {"pending", "due", "gaveup"} :
             /\ status' = [status EXCEPT ![s][m] = x]
             /\ status[s][m] \in {"new", "pending", "due"}
             /\ m \in DOMAIN log
    <2>1. stored \subseteq Seqs /\ stored \subseteq DOMAIN log
      BY EventQueueAssumption DEF TypeInv, TypeOK, LogOK, Seqs
    <2>2. CASE Fetch(s)
      <3>1. PICK m \in Deliverable(s) : status' = [status EXCEPT ![s][m] = "pending"]
        BY <2>2 DEF Fetch
      <3>2. m \in stored /\ status[s][m] \in {"new", "due"}
        BY <3>1 DEF Deliverable, Redeliverable, Fresh
      <3> QED
        BY <2>1, <2>2, <3>1, <3>2 DEF Fetch
    <2>3. CASE AckTimer(s)
      BY <2>3 DEF AckTimer, RetentionInv
    <2>4. CASE GiveUp(s)
      BY <2>4 DEF GiveUp, RetentionInv
    <2> QED
      BY <2>2, <2>3, <2>4
  <1>2. PICK m \in Seqs, x \in {"pending", "due", "gaveup"} :
             /\ status' = [status EXCEPT ![s][m] = x]
             /\ status[s][m] \in {"new", "pending", "due"}
             /\ m \in DOMAIN log
    BY <1>1
  <1>3. \A t \in Senders, n \in Seqs :
            status'[t][n] = IF t = s /\ n = m THEN x ELSE status[t][n]
    BY <1>2 DEF TypeInv, TypeOK, ConsumerOK
  <1>4. \A t \in Senders : owed[t] \subseteq Seqs
    BY DEF TypeInv, TypeOK, ConsumerOK
  <1>5. consumers \subseteq Senders /\ stored \subseteq Seqs
    BY EventQueueAssumption DEF TypeInv, TypeOK, ConsumerOK, LogOK, Seqs
  <1>6. \A t \in Senders : \A n \in owed[t] :
            /\ t \in consumers /\ status'[t][n] # "acked"
            /\ n \in stored \cup evicted \/ status'[t][n] = "gaveup"
    BY <1>2, <1>3, <1>4 DEF RetentionInv, OwedIsStored
  <1>7. \A n \in stored : \E t \in consumers : status'[t][n] # "acked"
    BY <1>3, <1>5 DEF RetentionInv
  <1>8. \A t \in Senders, n \in Seqs : status'[t][n] # "new" => n \in DOMAIN log
    BY <1>2, <1>3 DEF RetentionInv
  <1> QED
    BY <1>1, <1>6, <1>7, <1>8 DEF RetentionInv, OwedIsStored

LEMMA NextRetention ==
    ASSUME TypeInv, RetentionInv, [Next]_vars PROVE RetentionInv'
  <1> USE DEF streamVars, dedupVars, consumerVars, clientVars, publishVars,
              processVars, memoryVars
  <1>1. CASE UNCHANGED <<log, stored, consumers, status, subscribed, phase,
                         cfgd, evicted, owed, pc>>
    BY <1>1 DEF RetentionInv, OwedIsStored
  <1>2. CASE Start
    BY <1>2 DEF Start, RetentionInv, OwedIsStored
  <1>3. CASE Serve
    BY <1>3 DEF Serve, RetentionInv, OwedIsStored
  <1>4. CASE Halt
    BY <1>4 DEF Halt, RetentionInv, OwedIsStored
  <1>5. ASSUME NEW s \in Senders, Subscribe(s) PROVE RetentionInv'
    <2>1. /\ consumers' = consumers \cup {s} /\ subscribed' = subscribed \cup {s}
          /\ phase = "starting"
          /\ UNCHANGED <<log, stored, status, phase, cfgd, evicted, owed, pc>>
      BY <1>5 DEF Subscribe
    <2> QED
      BY <2>1 DEF RetentionInv, OwedIsStored
  <1>6. ASSUME NEW s \in Senders, Prune(s) PROVE RetentionInv'
    BY <1>6, PruneRetention
  <1>7. CASE Publish \/ PublishUnanswered
    <2>1. phase = "running"
      BY <1>7 DEF Publish, PublishUnanswered, RetentionInv
    <2>2. pc = "publish" /\ Store
          /\ UNCHANGED <<consumers, status, subscribed, phase, cfgd, evicted>>
      BY <1>7 DEF Publish, PublishUnanswered
    <2> QED
      BY <2>1, <2>2, StoreRetention
  <1>8. ASSUME NEW s \in Senders, Consume(s) PROVE RetentionInv'
    <2>1. CASE Ack(s) \/ Leave(s)
      BY <1>1, <2>1 DEF Ack, Leave
    <2> QED
      BY <1>8, <2>1, HandleAckRetention, DeliveryRetention DEF Consume
  <1>9. CASE Evict
    <2>1. PICK m \in stored : stored' = stored \ {m} /\ evicted' = evicted \cup {m}
      BY <1>9 DEF Evict
    <2>2. UNCHANGED <<log, consumers, status, subscribed, phase, cfgd, owed, pc>>
      BY <1>9 DEF Evict
    <2> QED
      BY <2>1, <2>2 DEF RetentionInv, OwedIsStored
  <1>10. CASE \/ \E e \in Events : Get(e) \/ ExpireKey(e) \/ LapseWindow(e)
              \/ PublishDuplicate \/ PublishFails \/ Put \/ PutFails
              \/ UNCHANGED vars
    <2>1. /\ UNCHANGED <<log, stored, consumers, status, subscribed, phase, cfgd,
                         evicted, owed>>
          /\ pc' = pc \/ pc' = "idle" \/ phase = "running"
      BY <1>10 DEF Get, ExpireKey, LapseWindow, PublishDuplicate,
                   PublishFails, Put, PutFails, PublishReturns, vars
    <2> QED
      BY <2>1 DEF RetentionInv, OwedIsStored
  <1> QED
    BY <1>2, <1>3, <1>4, <1>5, <1>6, <1>7, <1>8, <1>9, <1>10
       DEF Next, PublishEvent

\* The retention invariant, for any number of senders, messages and restarts.
THEOREM RetentionInvariant == Spec => [](TypeInv /\ RetentionInv)
  <1>1. Init => TypeInv /\ RetentionInv
    <2>1. Init => RetentionInv
      BY DEF Init, RetentionInv, OwedIsStored
    <2> QED
      BY <2>1, InitTypeInv
  <1>2. TypeInv /\ RetentionInv /\ [Next]_vars => (TypeInv /\ RetentionInv)'
    BY NextTypeInv, NextRetention
  <1> QED
    BY <1>1, <1>2, PTL DEF Spec

\* No event a configured sender has yet to acknowledge leaves the stream but
\* by the limits, or by running out of deliveries.
THEOREM OwedStays == Spec => []OwedIsStored
  <1>1. TypeInv /\ RetentionInv => OwedIsStored
    BY DEF RetentionInv
  <1> QED
    BY <1>1, RetentionInvariant, PTL

\* While events are published, removed senders retain nothing.
THEOREM NothingRetainedForRemoved == Spec => []OnlyUndeliveredRetained
  <1>1. TypeInv /\ RetentionInv => OnlyUndeliveredRetained
    BY DEF RetentionInv, OnlyUndeliveredRetained
  <1> QED
    BY <1>1, RetentionInvariant, PTL

-----------------------------------------------------------------------------
(***************************************************************************)
(* EventQueue implements Delivery: every step of the queue is a step of    *)
(* Delivery under the mapping of EventQueue!Promise, or leaves what is     *)
(* mapped alone.  The invariants above are what makes the mapped steps     *)
(* legal.                                                                  *)
(***************************************************************************)

\* The mapped variable progress.
progress == [s \in Senders |-> [m \in Seqs |-> Progress(s, m)]]

PromiseVars == <<stored, progress>>

\* What is due is on disk.
LEMMA DueStored == TypeInv /\ RetentionInv => Promise!DueIsKept
  <1> SUFFICES ASSUME TypeInv, RetentionInv, NEW s \in Senders, NEW m \in Seqs,
                      Progress(s, m) = "due"
               PROVE  m \in stored
    BY DEF Promise!DueIsKept
  <1>1. m \in owed[s] /\ m \notin evicted /\ status[s][m] # "gaveup"
    BY DEF Progress
  <1> QED
    BY <1>1 DEF RetentionInv, OwedIsStored

\* Sequence numbers on disk, and those owed, are of messages in the log.
LEMMA OwedInLog ==
    ASSUME TypeInv, RetentionInv
    PROVE  /\ stored \subseteq DOMAIN log /\ evicted \subseteq DOMAIN log
           /\ DOMAIN log = 1..Len(log) /\ Len(log) \in Nat
           /\ \A s \in Senders : owed[s] \subseteq DOMAIN log
  <1>1. /\ stored \subseteq DOMAIN log /\ evicted \subseteq DOMAIN log
        /\ log \in Seq(Events)
    BY DEF TypeInv, TypeOK, LogOK
  <1>2. DOMAIN log = 1..Len(log) /\ Len(log) \in Nat
    BY <1>1
  <1>3. owed \in [Senders -> SUBSET Seqs]
    BY DEF TypeInv, TypeOK, ConsumerOK
  <1>4. ASSUME NEW s \in Senders, NEW m \in owed[s] PROVE m \in DOMAIN log
    <2>1. m \in Seqs
      BY <1>3
    <2>2. m \in stored \cup evicted \/ status[s][m] # "new"
      BY DEF RetentionInv, OwedIsStored
    <2> QED
      BY <1>1, <2>1, <2>2 DEF RetentionInv
  <1> QED
    BY <1>1, <1>2, <1>4

-----------------------------------------------------------------------------
(* Steps, from what they do to the progress of each message.               *)

LEMMA SettleMaps ==
    ASSUME NEW s \in Senders, NEW m \in Seqs,
           Progress(s, m) # "settled",
           \A t \in Senders, n \in Seqs :
               Progress(t, n)' = IF t = s /\ n = m THEN "settled" ELSE Progress(t, n),
           stored' \subseteq stored, stored \subseteq stored' \cup {m}
    PROVE  Promise!Ending
  <1>1. progress' = [progress EXCEPT ![s][m] = "settled"]
    BY DEF progress
  <1>2. Promise!Settle(s, m)
    BY <1>1 DEF Promise!Settle, progress
  <1> QED
    BY <1>2 DEF Promise!Ending

LEMMA LapseMaps ==
    ASSUME NEW m \in Seqs, NEW S \in SUBSET Senders,
           \A s \in S : Progress(s, m) = "due",
           \A t \in Senders, n \in Seqs :
               Progress(t, n)' = IF t \in S /\ n = m THEN "lapsed" ELSE Progress(t, n),
           stored' \subseteq stored, stored \subseteq stored' \cup {m}
    PROVE  Promise!Ending
  <1>1. progress' = [s \in Senders |->
                        IF s \in S THEN [progress[s] EXCEPT ![m] = "lapsed"]
                        ELSE progress[s]]
    BY DEF progress
  <1>2. Promise!Lapse(m, S)
    BY <1>1 DEF Promise!Lapse, progress
  <1> QED
    BY <1>2 DEF Promise!Ending

LEMMA AcceptMaps ==
    ASSUME NEW m \in Seqs, NEW S \in (SUBSET Senders) \ {{}},
           m \notin stored, stored' = stored \cup {m},
           \A s \in Senders : Progress(s, m) = "none",
           \A t \in Senders, n \in Seqs :
               Progress(t, n)' = IF t \in S /\ n = m THEN "due" ELSE Progress(t, n)
    PROVE  Promise!Accepting
  <1>1. progress' = [s \in Senders |->
                        IF s \in S THEN [progress[s] EXCEPT ![m] = "due"]
                        ELSE progress[s]]
    BY DEF progress
  <1>2. Promise!Accept(m, S)
    BY <1>1 DEF Promise!Accept, progress
  <1> QED
    BY <1>2 DEF Promise!Accepting

LEMMA RemoveMaps ==
    ASSUME NEW s \in Senders,
           \A t \in Senders, n \in Seqs :
               Progress(t, n)' = IF t = s THEN "none" ELSE Progress(t, n),
           stored' \subseteq stored
    PROVE  Promise!Ending
  <1>1. progress' = [progress EXCEPT ![s] = [m \in Seqs |-> "none"]]
    BY DEF progress
  <1>2. Promise!Remove(s)
    BY <1>1 DEF Promise!Remove, progress
  <1> QED
    BY <1>2 DEF Promise!Ending

LEMMA NothingMaps ==
    ASSUME \A t \in Senders, n \in Seqs : Progress(t, n)' = Progress(t, n),
           stored' = stored
    PROVE  UNCHANGED PromiseVars
  <1>1. progress' = progress
    BY DEF progress
  <1> QED
    BY <1>1 DEF PromiseVars

-----------------------------------------------------------------------------
(* The steps of the queue.                                                 *)

\* A stored event becomes due to every configured sender, and there is one.
LEMMA StoreRefines ==
    ASSUME TypeInv, RetentionInv, Store, pc = "publish", UNCHANGED <<status, evicted>>
    PROVE  Promise!Accepting
  <1> DEFINE new == Len(log) + 1
  <1>1. /\ Len(log) < MaxLog
        /\ stored' = IF consumers = {} THEN stored ELSE stored \cup {new}
        /\ owed' = [s \in Senders |-> IF s \in cfgd THEN owed[s] \cup {new}
                                      ELSE owed[s]]
    BY DEF Store
  <1>2. new \in Seqs /\ new \notin DOMAIN log
    BY <1>1, OwedInLog, EventQueueAssumption DEF Seqs
  <1>3. consumers = cfgd /\ cfgd \in (SUBSET Senders) \ {{}}
    BY DEF RetentionInv, TypeInv, TypeOK, ProcessOK
  <1>4. \A s \in Senders : status[s][new] = "new" /\ new \notin owed[s]
    BY <1>2, OwedInLog DEF RetentionInv
  <1>5. new \notin stored /\ new \notin evicted
    BY <1>2, OwedInLog
  <1>6. \A s \in Senders : Progress(s, new) = "none"
    BY <1>4 DEF Progress
  <1>7. \A t \in Senders, n \in Seqs :
            Progress(t, n)' = IF t \in cfgd /\ n = new THEN "due" ELSE Progress(t, n)
    BY <1>1, <1>4, <1>5 DEF Progress
  <1> QED
    BY <1>1, <1>2, <1>3, <1>5, <1>6, <1>7, AcceptMaps

LEMMA HandleAckRefines ==
    ASSUME TypeInv, RetentionInv, NEW s \in Senders, HandleAck(s)
    PROVE  Promise!Ending \/ UNCHANGED PromiseVars
  <1>1. PICK m \in acks[s] :
            IF status[s][m] \in {"pending", "due"}
            THEN /\ status' = [status EXCEPT ![s][m] = "acked"]
                 /\ owed' = [owed EXCEPT ![s] = @ \ {m}]
                 /\ stored' = stored \ ({m} \ Needed(consumers, status'))
            ELSE UNCHANGED <<status, owed, stored>>
    BY DEF HandleAck
  <1>2. evicted' = evicted
    BY DEF HandleAck
  <1>3. m \in Seqs
    BY <1>1 DEF TypeInv, TypeOK, ProcessOK
  <1>4. CASE status[s][m] \notin {"pending", "due"}
    BY <1>1, <1>2, <1>4, NothingMaps DEF Progress
  <1>5. CASE status[s][m] \in {"pending", "due"}
    <2>1. \A t \in Senders, n \in Seqs :
              status'[t][n] = IF t = s /\ n = m THEN "acked" ELSE status[t][n]
      BY <1>1, <1>3, <1>5 DEF TypeInv, TypeOK, ConsumerOK
    <2>2. \A t \in Senders : owed'[t] = IF t = s THEN owed[t] \ {m} ELSE owed[t]
      BY <1>1, <1>5 DEF TypeInv, TypeOK, ConsumerOK
    <2>3. \A t \in Senders, n \in Seqs :
              Progress(t, n)' = IF t = s /\ n = m THEN "settled" ELSE Progress(t, n)
      BY <1>2, <2>1, <2>2 DEF Progress
    <2>4. Progress(s, m) # "settled"
      BY <1>5 DEF Progress
    <2>5. stored' \subseteq stored /\ stored \subseteq stored' \cup {m}
      BY <1>1, <1>5
    <2> QED
      BY <1>3, <2>3, <2>4, <2>5, SettleMaps
  <1> QED
    BY <1>4, <1>5

LEMMA PruneRefines ==
    ASSUME TypeInv, RetentionInv, NEW s \in Senders, Prune(s)
    PROVE  Promise!Ending
  <1>1. /\ stored' = Needed(consumers \ {s}, status)
        /\ status' = [status EXCEPT ![s] = [m \in Seqs |-> "new"]]
        /\ owed' = [owed EXCEPT ![s] = {}]
        /\ evicted' = evicted
    BY DEF Prune
  <1>2. \A t \in Senders, n \in Seqs :
            Progress(t, n)' = IF t = s THEN "none" ELSE Progress(t, n)
    BY <1>1 DEF Progress, TypeInv, TypeOK, ConsumerOK
  <1>3. stored' \subseteq stored
    BY <1>1 DEF Needed
  <1> QED
    BY <1>2, <1>3, RemoveMaps

LEMMA EvictRefines ==
    ASSUME TypeInv, RetentionInv, Evict
    PROVE  Promise!Ending
  <1>1. PICK m \in stored : stored' = stored \ {m} /\ evicted' = evicted \cup {m}
    BY DEF Evict
  <1>2. UNCHANGED <<status, owed>>
    BY DEF Evict, consumerVars
  <1>3. m \in Seqs
    BY EventQueueAssumption DEF TypeInv, TypeOK, LogOK, Seqs
  <1> DEFINE S == {s \in Senders : Progress(s, m) = "due"}
  <1>4. \A t \in Senders, n \in Seqs :
            Progress(t, n)' = IF t \in S /\ n = m THEN "lapsed" ELSE Progress(t, n)
    BY <1>1, <1>2 DEF Progress
  <1> QED
    BY <1>1, <1>3, <1>4, LapseMaps

\* Fetch and the ack timer change no progress; giving up ends one.
LEMMA DeliveryRefines ==
    ASSUME TypeInv, RetentionInv, NEW s \in Senders,
           Fetch(s) \/ AckTimer(s) \/ GiveUp(s)
    PROVE  Promise!Ending \/ UNCHANGED PromiseVars
  <1> USE DEF streamVars
  <1>1. UNCHANGED <<stored, owed, evicted>>
    BY DEF Fetch, AckTimer, GiveUp
  <1>2. CASE Fetch(s)
    <2>1. PICK m \in Deliverable(s) : status' = [status EXCEPT ![s][m] = "pending"]
      BY <1>2 DEF Fetch
    <2>2. m \in stored /\ status[s][m] \in {"new", "due"}
      BY <2>1 DEF Deliverable, Redeliverable, Fresh
    <2>3. m \in Seqs
      BY <2>2, EventQueueAssumption DEF TypeInv, TypeOK, LogOK, Seqs
    <2>4. \A t \in Senders, n \in Seqs :
              status'[t][n] = IF t = s /\ n = m THEN "pending" ELSE status[t][n]
      BY <2>1, <2>3 DEF TypeInv, TypeOK, ConsumerOK
    <2> QED
      BY <1>1, <2>2, <2>4, NothingMaps DEF Progress
  <1>3. CASE AckTimer(s)
    <2>1. PICK m \in Seqs : /\ status[s][m] = "pending"
                            /\ status' = [status EXCEPT ![s][m] = "due"]
      BY <1>3 DEF AckTimer
    <2>2. \A t \in Senders, n \in Seqs :
              status'[t][n] = IF t = s /\ n = m THEN "due" ELSE status[t][n]
      BY <2>1 DEF TypeInv, TypeOK, ConsumerOK
    <2> QED
      BY <1>1, <2>1, <2>2, NothingMaps DEF Progress
  <1>4. CASE GiveUp(s)
    <2>1. PICK m \in Seqs : /\ status[s][m] = "due"
                            /\ status' = [status EXCEPT ![s][m] = "gaveup"]
      BY <1>4 DEF GiveUp
    <2>2. \A t \in Senders, n \in Seqs :
              status'[t][n] = IF t = s /\ n = m THEN "gaveup" ELSE status[t][n]
      BY <2>1 DEF TypeInv, TypeOK, ConsumerOK
    <2>3. CASE Progress(s, m) = "due"
      <3>1. \A t \in Senders, n \in Seqs :
                Progress(t, n)' =
                    IF t \in {s} /\ n = m THEN "lapsed" ELSE Progress(t, n)
        BY <1>1, <2>1, <2>2, <2>3 DEF Progress
      <3> QED
        BY <1>1, <2>3, <3>1, LapseMaps
    <2>4. CASE Progress(s, m) # "due"
      BY <1>1, <2>1, <2>2, <2>4, NothingMaps DEF Progress
    <2> QED
      BY <2>3, <2>4
  <1> QED
    BY <1>2, <1>3, <1>4

\* Steps that store nothing.
LEMMA OtherStepRefines ==
    ASSUME TypeInv, RetentionInv, [Next]_vars, ~(Publish \/ PublishUnanswered)
    PROVE  Promise!Ending \/ UNCHANGED PromiseVars
  <1> USE DEF streamVars, dedupVars, consumerVars, clientVars, publishVars,
              processVars, memoryVars
  <1>1. CASE UNCHANGED <<stored, status, owed, evicted>>
    BY <1>1, NothingMaps DEF Progress
  <1>2. CASE Start \/ Serve \/ Halt \/ \E s \in Senders : Subscribe(s)
    BY <1>1, <1>2 DEF Start, Serve, Halt, Subscribe
  <1>3. CASE \E s \in Senders : Prune(s)
    BY <1>3, PruneRefines
  <1>4. ASSUME NEW s \in Senders, Consume(s)
        PROVE  Promise!Ending \/ UNCHANGED PromiseVars
    <2>1. CASE Ack(s) \/ Leave(s)
      BY <1>1, <2>1 DEF Ack, Leave
    <2> QED
      BY <1>4, <2>1, HandleAckRefines, DeliveryRefines DEF Consume
  <1>5. CASE Evict
    BY <1>5, EvictRefines
  <1>6. CASE \/ \E e \in Events : Get(e) \/ ExpireKey(e) \/ LapseWindow(e)
             \/ PublishDuplicate \/ PublishFails \/ Put \/ PutFails
             \/ UNCHANGED vars
    BY <1>1, <1>6 DEF Get, ExpireKey, LapseWindow, PublishDuplicate,
                      PublishFails, Put, PutFails, vars
  <1> QED
    BY <1>2, <1>3, <1>4, <1>5, <1>6 DEF Next, PublishEvent

LEMMA StepRefines ==
    ASSUME TypeInv, RetentionInv, [Next]_vars
    PROVE  Promise!Accepting \/ Promise!Ending \/ UNCHANGED PromiseVars
  <1>1. CASE Publish \/ PublishUnanswered
    BY <1>1, StoreRefines DEF Publish, PublishUnanswered, consumerVars
  <1>2. CASE ~(Publish \/ PublishUnanswered)
    BY <1>2, OtherStepRefines
  <1> QED
    BY <1>1, <1>2

LEMMA InitRefines == Init => Promise!Init
  <1> SUFFICES ASSUME Init PROVE Promise!Init
    OBVIOUS
  <1>1. \A s \in Senders, m \in Seqs : Progress(s, m) = "none"
    BY DEF Init, Progress
  <1> QED
    BY <1>1 DEF Init, Promise!Init

-----------------------------------------------------------------------------
\* The queue implements Delivery, for any senders, messages, deliveries and
\* restarts: whatever consumers, acknowledgements in flight, pruning and stops
\* of the process do, a message due to a sender is kept until it is settled,
\* its deliveries are used up, a limit strikes or the sender is removed.
THEOREM QueueKeepsPromise == Spec => KeepsPromise
  <1>1. Init => Promise!Init
    BY InitRefines
  <1>2. TypeInv /\ RetentionInv /\ (TypeInv /\ RetentionInv)' /\ [Next]_vars
            => [Promise!Next]_PromiseVars
    <2> SUFFICES ASSUME TypeInv, RetentionInv, (TypeInv /\ RetentionInv)', [Next]_vars
                 PROVE  Promise!Next \/ UNCHANGED PromiseVars
      OBVIOUS
    <2>1. Promise!DueIsKept'
      BY DueStored, PTL
    <2> QED
      BY <2>1, StepRefines DEF Promise!Next
  <1>3. [][Promise!Next]_PromiseVars /\ Promise!Init => Promise!Spec
    BY PTL DEF Promise!Spec, PromiseVars, progress
  <1> QED
    BY <1>1, <1>2, <1>3, RetentionInvariant, PTL DEF Spec, KeepsPromise
=============================================================================
