--------------------------- MODULE PipelineProofs ---------------------------
(***************************************************************************)
(* Theorems about Pipeline, for any number of senders and any settings:    *)
(* the senders of the code use the queue only as EventQueue allows, so     *)
(* what is proved of the queue holds with them, and what they acknowledge  *)
(* they have handled.                                                      *)
(***************************************************************************)
EXTENDS Pipeline, EventQueueProofs

-----------------------------------------------------------------------------
(* Refinement.                                                             *)

\* A step of the senders is a step of the queue or leaves the queue alone.
LEMMA PipelineStep == [PipelineNext]_pipelineVars => [Next]_vars
  <1> SUFFICES ASSUME [PipelineNext]_pipelineVars PROVE [Next]_vars
    OBVIOUS
  <1>1. CASE StartPipeline \/ HaltPipeline
    BY <1>1 DEF StartPipeline, HaltPipeline, Next
  <1>2. CASE StopSenders
    BY <1>2 DEF StopSenders
  <1>3. CASE QueueStep
    BY <1>3 DEF QueueStep, Next, Consume
  <1>4. ASSUME NEW s \in Senders, FetchNext(s) PROVE Next
    BY <1>4 DEF FetchNext, Next, Consume
  <1>5. ASSUME NEW s \in Senders, ProcessEvent(s) PROVE [Next]_vars
    <2>1. CASE Filter(s) \/ HookReturns(s) \/ HookCut(s)
      BY <2>1 DEF Filter, HookReturns, HookCut
    <2>2. CASE HookFails(s)
      BY <2>2 DEF HookFails, Fail, Next, Consume
    <2>3. CASE Deliver(s)
      BY <2>3 DEF Deliver, Fail, Next, Consume
    <2>4. CASE Acknowledge(s)
      BY <2>4 DEF Acknowledge, Next, Consume
    <2> QED
      BY <1>5, <2>1, <2>2, <2>3, <2>4 DEF ProcessEvent
  <1>6. CASE UNCHANGED pipelineVars
    BY <1>6 DEF pipelineVars
  <1> QED
    BY <1>1, <1>2, <1>3, <1>4, <1>5, <1>6 DEF PipelineNext

\* The queue with the senders of the code implements the queue with senders
\* that acknowledge or leave a message as they like.
THEOREM PipelineImplementsQueue == PipelineSpec => Spec
  <1>1. PipelineInit => Init
    BY DEF PipelineInit
  <1> QED
    BY <1>1, PipelineStep, PTL DEF PipelineSpec, Spec

\* So what holds of the queue holds with the senders, e.g. of its log and of
\* what it retains.
THEOREM PipelineKeepsQueue ==
    PipelineSpec => [](TypeInv /\ DedupInv /\ RetentionInv)
  BY PipelineImplementsQueue, DedupInvariant, RetentionInvariant, PTL

\* KeepsPromise, of the queue with the senders of the code: a message due to a
\* sender is kept through filters, hooks, failed pushes and a shutdown in the
\* middle of any of them, until the sender has settled it.
THEOREM PipelineKeepsPromise == PipelineSpec => KeepsPromise
  BY PipelineImplementsQueue, QueueKeepsPromise, PTL

-----------------------------------------------------------------------------
(* Types.                                                                  *)

\* Adding a message to the record of a sender.
LEMMA AddMessage ==
    ASSUME NEW f \in [Senders -> SUBSET Seqs], NEW s \in Senders, NEW m \in Seqs
    PROVE  [f EXCEPT ![s] = @ \cup {m}] \in [Senders -> SUBSET Seqs]
  <1>1. f[s] \cup {m} \in SUBSET Seqs
    OBVIOUS
  <1> QED
    BY <1>1

LEMMA NextPipelineTypes ==
    ASSUME TypeInv, PipelineInv, [PipelineNext]_pipelineVars
    PROVE  PipelineTypeOK'
  <1> USE DEF PipelineTypeOK
  <1>1. TypeOK'
    BY PipelineStep, NextTypeInv DEF TypeInv
  <1>2. /\ settings \in [Senders -> Settings] /\ stage \in [Senders -> Stages]
        /\ stopping \in BOOLEAN /\ received \in [Senders -> [Seqs -> 0..2]]
        /\ dropped \in [Senders -> SUBSET Seqs] /\ cut \in [Senders -> SUBSET Seqs]
    BY DEF PipelineInv
  <1>3. CASE StartPipeline
    BY <1>1, <1>2, <1>3 DEF StartPipeline
  <1>4. CASE StopSenders
    BY <1>1, <1>2, <1>4 DEF StopSenders
  <1>5. CASE HaltPipeline
    BY <1>1, <1>2, <1>5 DEF HaltPipeline, Stages
  <1>6. CASE QueueStep \/ UNCHANGED pipelineVars
    BY <1>1, <1>2, <1>6 DEF QueueStep, senderVars, pipelineVars
  <1>7. ASSUME NEW s \in Senders, FetchNext(s) PROVE PipelineTypeOK'
    BY <1>1, <1>2, <1>7 DEF FetchNext, GoTo, Stages
  <1>8. ASSUME NEW s \in Senders, ProcessEvent(s) PROVE PipelineTypeOK'
    <2>1. stage[s] # "fetch"
      BY <1>8 DEF ProcessEvent, Filter, HookReturns, HookFails, HookCut,
                  Deliver, Acknowledge
    <2>2. held[s] \in Seqs
      BY <2>1 DEF PipelineInv, StageInv
    <2>3. UNCHANGED <<settings, stopping>>
      BY <1>8 DEF ProcessEvent, Filter, HookReturns, HookFails, HookCut,
                  Deliver, Acknowledge
    <2>4. \E x \in Stages : stage' = [stage EXCEPT ![s] = x]
      BY <1>8 DEF ProcessEvent, Filter, HookReturns, HookFails, HookCut,
                  Deliver, Acknowledge, Fail, GoTo, Stages
    <2>5. received' = received \/ Reach(s)
      BY <1>8 DEF ProcessEvent, Filter, HookReturns, HookFails, HookCut,
                  Deliver, Acknowledge, Fail
    <2>6. received' \in [Senders -> [Seqs -> 0..2]]
      <3>1. CASE received' = received
        BY <1>2, <3>1
      <3>2. CASE Reach(s)
        <4> DEFINE n == received[s][held[s]]
        <4>1. n \in 0..2
          BY <1>2, <2>2
        <4>2. (IF n = 2 THEN 2 ELSE n + 1) \in 0..2
          BY <4>1
        <4>3. received' = [received EXCEPT ![s][held[s]] = IF n = 2 THEN 2 ELSE n + 1]
          BY <3>2 DEF Reach
        <4> HIDE DEF n
        <4> QED
          BY <1>2, <2>2, <4>2, <4>3
      <3> QED
        BY <2>5, <3>1, <3>2
    <2>7. /\ dropped' = dropped \/ DropHeld(s)
          /\ cut' = cut \/ cut' = [cut EXCEPT ![s] = @ \cup {held[s]}]
      BY <1>8 DEF ProcessEvent, Filter, HookReturns, HookFails, HookCut,
                  Deliver, Acknowledge, Fail
    <2>8. dropped' \in [Senders -> SUBSET Seqs] /\ cut' \in [Senders -> SUBSET Seqs]
      <3>1. [dropped EXCEPT ![s] = @ \cup {held[s]}] \in [Senders -> SUBSET Seqs]
        BY <1>2, <2>2, AddMessage
      <3>2. [cut EXCEPT ![s] = @ \cup {held[s]}] \in [Senders -> SUBSET Seqs]
        BY <1>2, <2>2, AddMessage
      <3> QED
        BY <1>2, <2>7, <3>1, <3>2 DEF DropHeld
    <2> QED
      BY <1>1, <1>2, <2>3, <2>4, <2>6, <2>8
  <1> QED
    BY <1>3, <1>4, <1>5, <1>6, <1>7, <1>8 DEF PipelineNext

-----------------------------------------------------------------------------
(* What is acknowledged is handled.                                        *)

\* Acknowledged: the server knows, or the acknowledgement is on its way.
Acked(s, m) == status[s][m] = "acked" \/ m \in acks[s]

\* Nothing but Ack makes a message acknowledged that was not.
LEMMA OnlyAckAcknowledges ==
    ASSUME TypeInv,
           \/ Start \/ Serve \/ Halt \/ PublishEvent \/ Evict \/ UNCHANGED vars
           \/ \E s \in Senders : \/ Subscribe(s) \/ Prune(s) \/ Fetch(s) \/ Leave(s)
                                 \/ HandleAck(s) \/ AckTimer(s) \/ GiveUp(s)
           \/ \E e \in Events : ExpireKey(e) \/ LapseWindow(e)
    PROVE  \A t \in Senders, n \in Seqs : Acked(t, n)' => Acked(t, n)
  <1> USE DEF Acked, streamVars, dedupVars, consumerVars, clientVars,
              publishVars, processVars, memoryVars
  <1>1. /\ status \in [Senders -> [Seqs -> Statuses]]
        /\ acks \in [Senders -> SUBSET Seqs]
    BY DEF TypeInv, TypeOK, ConsumerOK, ProcessOK
  <1>2. CASE UNCHANGED <<status, acks>>
    BY <1>2
  <1>3. CASE Halt
    BY <1>1, <1>3 DEF Halt
  <1>4. ASSUME NEW s \in Senders, NEW m \in Seqs, NEW x \in Statuses \ {"acked"},
               status' = [status EXCEPT ![s][m] = x], acks' = acks
        PROVE  \A t \in Senders, n \in Seqs : Acked(t, n)' => Acked(t, n)
    <2>1. \A t \in Senders, n \in Seqs :
              status'[t][n] = IF t = s /\ n = m THEN x ELSE status[t][n]
      BY <1>1, <1>4
    <2> QED
      BY <1>4, <2>1
  <1>5. ASSUME NEW s \in Senders, Prune(s)
        PROVE  \A t \in Senders, n \in Seqs : Acked(t, n)' => Acked(t, n)
    <2>1. /\ status' = [status EXCEPT ![s] = [m \in Seqs |-> "new"]]
          /\ acks' = acks
      BY <1>5 DEF Prune
    <2> QED
      BY <1>1, <2>1
  <1>6. ASSUME NEW s \in Senders, HandleAck(s)
        PROVE  \A t \in Senders, n \in Seqs : Acked(t, n)' => Acked(t, n)
    <2>1. PICK m \in acks[s] :
              /\ acks' = [acks EXCEPT ![s] = @ \ {m}]
              /\ \/ status' = [status EXCEPT ![s][m] = "acked"]
                 \/ status' = status
      BY <1>6 DEF HandleAck
    <2>2. m \in Seqs
      BY <1>1, <2>1
    <2>3. \A t \in Senders, n \in Seqs :
              status'[t][n] = "acked" => status[t][n] = "acked" \/ (t = s /\ n = m)
      BY <1>1, <2>1, <2>2
    <2>4. \A t \in Senders : acks'[t] \subseteq acks[t]
      BY <1>1, <2>1
    <2> QED
      BY <2>1, <2>3, <2>4
  <1>7. ASSUME NEW s \in Senders, Fetch(s) \/ AckTimer(s) \/ GiveUp(s)
        PROVE  \A t \in Senders, n \in Seqs : Acked(t, n)' => Acked(t, n)
    <2>1. stored \subseteq Seqs
      BY EventQueueAssumption DEF TypeInv, TypeOK, LogOK, Seqs
    <2>2. /\ \E m \in Seqs, x \in Statuses \ {"acked"} :
                 status' = [status EXCEPT ![s][m] = x]
          /\ acks' = acks
      BY <1>7, <2>1 DEF Fetch, AckTimer, GiveUp, Deliverable, Redeliverable,
                        Fresh, Statuses
    <2> QED
      BY <1>4, <2>2
  <1>8. ASSUME NEW s \in Senders, Subscribe(s) \/ Leave(s)
        PROVE  UNCHANGED <<status, acks>>
    BY <1>8 DEF Subscribe, Leave
  <1>9. ASSUME NEW e \in Events, ExpireKey(e) \/ LapseWindow(e)
        PROVE  UNCHANGED <<status, acks>>
    BY <1>9 DEF ExpireKey, LapseWindow
  <1>10. ASSUME PublishEvent PROVE UNCHANGED <<status, acks>>
    BY <1>10 DEF PublishEvent, Get, Publish, PublishUnanswered,
                 PublishDuplicate, PublishFails, Put, PutFails
  <1>11. ASSUME Start \/ Serve \/ Evict \/ UNCHANGED vars
         PROVE  UNCHANGED <<status, acks>>
    BY <1>11 DEF Start, Serve, Evict, vars
  <1> QED
    BY <1>2, <1>3, <1>5, <1>6, <1>7, <1>8, <1>9, <1>10, <1>11

\* What processEvent may do to the message s holds: let it go handled or
\* unhandled, or keep it; it is handled before the stage is "ack".
LEMMA ProcessEventEffect ==
    ASSUME TypeInv, PipelineInv, NEW s \in Senders, ProcessEvent(s)
    PROVE  /\ stage[s] # "fetch" /\ held[s] \in Seqs
           /\ \A t \in Senders, n \in Seqs : Handled(t, n) => Handled(t, n)'
           /\ \A t \in Senders \ {s} : stage'[t] = stage[t] /\ held'[t] = held[t]
           /\ stage'[s] = "fetch" \/ held'[s] = held[s]
           /\ stage'[s] = "ack" => Handled(s, held[s])'
           /\ \/ \A t \in Senders, n \in Seqs : Acked(t, n)' => Acked(t, n)
              \/ stage[s] = "ack" /\ Ack(s)
  <1>1. /\ stage \in [Senders -> Stages]
        /\ received \in [Senders -> [Seqs -> 0..2]]
        /\ dropped \in [Senders -> SUBSET Seqs] /\ cut \in [Senders -> SUBSET Seqs]
        /\ held \in [Senders -> {0} \cup Seqs]
    BY DEF PipelineInv, PipelineTypeOK, TypeOK, ProcessOK
  <1>2. stage[s] # "fetch" /\ held[s] \in Seqs
    <2>1. stage[s] # "fetch"
      BY DEF ProcessEvent, Filter, HookReturns, HookFails, HookCut, Deliver,
             Acknowledge
    <2> QED
      BY <2>1 DEF PipelineInv, StageInv
  <1>3. \/ UNCHANGED vars
        \/ Leave(s) /\ stage' = [stage EXCEPT ![s] = "fetch"]
        \/ Ack(s) /\ stage[s] = "ack" /\ stage' = [stage EXCEPT ![s] = "fetch"]
    BY DEF ProcessEvent, Filter, HookReturns, HookFails, HookCut, Deliver,
           Acknowledge, Fail, GoTo
  <1>4. /\ UNCHANGED vars => held' = held
        /\ Leave(s) \/ Ack(s) => held' = [held EXCEPT ![s] = 0]
    BY DEF vars, Leave, Ack
  <1>5. \E x \in Stages : stage' = [stage EXCEPT ![s] = x]
    BY DEF ProcessEvent, Filter, HookReturns, HookFails, HookCut, Deliver,
           Acknowledge, Fail, GoTo, Stages
  <1>6. \A t \in Senders \ {s} : stage'[t] = stage[t] /\ held'[t] = held[t]
    BY <1>1, <1>3, <1>4, <1>5
  <1>7. stage'[s] = "fetch" \/ held'[s] = held[s]
    BY <1>1, <1>3, <1>4
  <1>8. \A t \in Senders, n \in Seqs : received[t][n] > 0 => received'[t][n] > 0
    <2>1. CASE received' = received
      BY <2>1
    <2>2. CASE Reach(s)
      <3> DEFINE r == received[s][held[s]]
      <3>1. r \in 0..2
        BY <1>1, <1>2
      <3>2. (IF r = 2 THEN 2 ELSE r + 1) > 0
        BY <3>1
      <3>3. received' = [received EXCEPT ![s][held[s]] = IF r = 2 THEN 2 ELSE r + 1]
        BY <2>2 DEF Reach
      <3> HIDE DEF r
      <3> QED
        BY <1>1, <1>2, <3>2, <3>3
    <2> QED
      BY <2>1, <2>2 DEF ProcessEvent, Filter, HookReturns, HookFails, HookCut,
                        Deliver, Acknowledge, Fail
  <1>9. /\ dropped' = dropped \/ DropHeld(s)
        /\ cut' = cut \/ cut' = [cut EXCEPT ![s] = @ \cup {held[s]}]
    BY DEF ProcessEvent, Filter, HookReturns, HookFails, HookCut, Deliver,
           Acknowledge, Fail
  <1>10. \A t \in Senders : dropped[t] \subseteq dropped'[t] /\ cut[t] \subseteq cut'[t]
    BY <1>1, <1>9 DEF DropHeld
  <1>11. \A t \in Senders, n \in Seqs : Handled(t, n) => Handled(t, n)'
    BY <1>8, <1>10 DEF Handled
  <1>12. stage'[s] = "ack" =>
            \/ stage[s] = "ack" \/ DropHeld(s) \/ Reach(s)
            \/ cut' = [cut EXCEPT ![s] = @ \cup {held[s]}]
    <2>1. \A x \in {"fetch", "filter", "hook", "deliver"} :
              GoTo(s, x) => stage'[s] = x
      BY <1>1 DEF GoTo
    <2> QED
      BY <2>1 DEF ProcessEvent, Filter, HookReturns, HookFails, HookCut,
                  Deliver, Acknowledge, Fail
  <1>13. stage'[s] = "ack" => Handled(s, held[s])'
    <2> SUFFICES ASSUME stage'[s] = "ack"
                 PROVE  received'[s][held[s]] > 0 \/ held[s] \in dropped'[s] \cup cut'[s]
      BY <1>7 DEF Handled
    <2>1. CASE stage[s] = "ack"
      BY <1>2, <1>11, <2>1 DEF PipelineInv, StageInv, Handled
    <2>2. CASE DropHeld(s)
      BY <1>1, <2>2 DEF DropHeld
    <2>3. CASE Reach(s)
      <3>1. received'[s][held[s]] = (IF received[s][held[s]] = 2 THEN 2
                                     ELSE received[s][held[s]] + 1)
        BY <1>1, <1>2, <2>3 DEF Reach
      <3>2. received[s][held[s]] \in 0..2
        BY <1>1, <1>2
      <3>3. received'[s][held[s]] > 0
        BY <3>1, <3>2
      <3> QED
        BY <3>3
    <2>4. CASE cut' = [cut EXCEPT ![s] = @ \cup {held[s]}]
      BY <1>1, <2>4
    <2> QED
      BY <1>12, <2>1, <2>2, <2>3, <2>4
  <1>14. \/ \A t \in Senders, n \in Seqs : Acked(t, n)' => Acked(t, n)
         \/ stage[s] = "ack" /\ Ack(s)
    BY <1>3, OnlyAckAcknowledges
  <1> QED
    BY <1>2, <1>6, <1>7, <1>11, <1>13, <1>14

LEMMA NextPipelineInv ==
    ASSUME TypeInv, PipelineInv, [PipelineNext]_pipelineVars
    PROVE  PipelineInv'
  <1>1. PipelineTypeOK'
    BY NextPipelineTypes
  <1>2. /\ stage \in [Senders -> Stages] /\ held \in [Senders -> {0} \cup Seqs]
        /\ acks \in [Senders -> SUBSET Seqs] /\ stored \subseteq Seqs
    BY EventQueueAssumption
       DEF PipelineInv, PipelineTypeOK, TypeOK, ProcessOK, LogOK, Seqs
  <1>3. AcknowledgedIsHandled <=>
            \A t \in Senders, n \in Seqs : Acked(t, n) => Handled(t, n)
    BY DEF AcknowledgedIsHandled, Acked
  <1>4. ASSUME UNCHANGED <<received, dropped, cut>>,
               \A t \in Senders, n \in Seqs : Acked(t, n)' => Acked(t, n)
        PROVE  AcknowledgedIsHandled'
    BY <1>4 DEF PipelineInv, AcknowledgedIsHandled, Acked, Handled
  <1>5. ASSUME UNCHANGED <<received, dropped, cut, stage, held>>
        PROVE  StageInv'
    BY <1>5 DEF PipelineInv, StageInv, Handled
  <1>6. CASE StartPipeline \/ StopSenders \/ QueueStep \/ UNCHANGED pipelineVars
    <2>1. UNCHANGED <<received, dropped, cut, stage, held>>
      BY <1>6 DEF StartPipeline, StopSenders, QueueStep, senderVars,
                  pipelineVars, vars, clientVars, Start, Serve, PublishEvent,
                  Get, Publish, PublishUnanswered, PublishDuplicate,
                  PublishFails, Put, PutFails, Evict, Subscribe, Prune,
                  HandleAck, AckTimer, GiveUp, ExpireKey, LapseWindow
    <2>2. \A t \in Senders, n \in Seqs : Acked(t, n)' => Acked(t, n)
      BY <1>6, OnlyAckAcknowledges
         DEF StartPipeline, StopSenders, QueueStep, pipelineVars
    <2> QED
      BY <1>1, <1>4, <1>5, <2>1, <2>2 DEF PipelineInv
  <1>7. CASE HaltPipeline
    <2>1. UNCHANGED <<received, dropped, cut>>
      BY <1>7 DEF HaltPipeline
    <2>2. StageInv'
      BY <1>7 DEF HaltPipeline, StageInv
    <2>3. \A t \in Senders, n \in Seqs : Acked(t, n)' => Acked(t, n)
      BY <1>7, OnlyAckAcknowledges DEF HaltPipeline
    <2> QED
      BY <1>1, <1>4, <2>1, <2>2, <2>3 DEF PipelineInv
  <1>8. ASSUME NEW s \in Senders, FetchNext(s) PROVE PipelineInv'
    <2>1. UNCHANGED <<received, dropped, cut>>
      BY <1>8 DEF FetchNext
    <2>2. \A t \in Senders, n \in Seqs : Acked(t, n)' => Acked(t, n)
      BY <1>8, OnlyAckAcknowledges DEF FetchNext
    <2>3. StageInv'
      <3>1. PICK m \in {0} \cup Seqs : held' = [held EXCEPT ![s] = m]
        BY <1>2, <1>8 DEF FetchNext, Fetch, Deliverable, Redeliverable, Fresh
      <3>2. stage' = [stage EXCEPT ![s] = IF m = 0 THEN "fetch" ELSE "filter"]
        BY <1>2, <1>8, <3>1 DEF FetchNext, GoTo
      <3> QED
        BY <1>2, <2>1, <3>1, <3>2 DEF PipelineInv, StageInv, Handled
    <2> QED
      BY <1>1, <1>4, <2>1, <2>2, <2>3 DEF PipelineInv
  <1>9. ASSUME NEW s \in Senders, ProcessEvent(s) PROVE PipelineInv'
    <2>1. \A t \in Senders, n \in Seqs : Handled(t, n) => Handled(t, n)'
      BY <1>9, ProcessEventEffect
    <2>2. StageInv'
      <3>1. ASSUME NEW t \in Senders, t # s
            PROVE  /\ stage'[t] # "fetch" => held'[t] \in Seqs
                   /\ stage'[t] = "ack" => Handled(t, held[t])'
        <4>1. stage'[t] = stage[t] /\ held'[t] = held[t]
          BY <1>9, <3>1, ProcessEventEffect
        <4> QED
          BY <2>1, <4>1 DEF PipelineInv, StageInv, Handled
      <3>2. /\ stage'[s] # "fetch" => held'[s] \in Seqs
            /\ stage'[s] = "ack" => Handled(s, held[s])'
        BY <1>9, ProcessEventEffect
      <3> QED
        BY <3>1, <3>2 DEF StageInv
    <2>3. AcknowledgedIsHandled'
      <3>1. CASE \A t \in Senders, n \in Seqs : Acked(t, n)' => Acked(t, n)
        BY <1>3, <2>1, <3>1 DEF PipelineInv, AcknowledgedIsHandled, Acked
      <3>2. CASE stage[s] = "ack" /\ Ack(s)
        <4>1. /\ acks' = [acks EXCEPT ![s] = @ \cup {held[s]}]
              /\ status' = status
          BY <3>2 DEF Ack, consumerVars
        <4>2. held[s] \in Seqs /\ Handled(s, held[s])
          BY <3>2 DEF PipelineInv, StageInv
        <4>3. \A t \in Senders, n \in Seqs :
                  Acked(t, n)' => Acked(t, n) \/ (t = s /\ n = held[s])
          BY <1>2, <4>1 DEF Acked
        <4> QED
          BY <1>3, <2>1, <4>2, <4>3 DEF PipelineInv, AcknowledgedIsHandled, Acked
      <3> QED
        BY <1>9, <3>1, <3>2, ProcessEventEffect
    <2> QED
      BY <1>1, <2>2, <2>3 DEF PipelineInv
  <1> QED
    BY <1>6, <1>7, <1>8, <1>9 DEF PipelineNext

\* The invariant of the pipeline, for any settings of any senders.
THEOREM PipelineInvariant == PipelineSpec => [](TypeInv /\ PipelineInv)
  <1>1. PipelineInit => TypeInv /\ PipelineInv
    <2>1. PipelineInit => TypeInv
      BY InitTypeInv DEF PipelineInit
    <2>2. PipelineInit => PipelineTypeOK
      <3>1. [m \in Seqs |-> 0] \in [Seqs -> 0..2]
        OBVIOUS
      <3> QED
        BY <2>1, <3>1 DEF PipelineInit, PipelineTypeOK, TypeInv, Stages
    <2>3. PipelineInit => StageInv /\ AcknowledgedIsHandled
      BY DEF PipelineInit, Init, StageInv, AcknowledgedIsHandled
    <2> QED
      BY <2>1, <2>2, <2>3 DEF PipelineInv
  <1>2. TypeInv /\ PipelineInv /\ [PipelineNext]_pipelineVars
            => (TypeInv /\ PipelineInv)'
    BY PipelineStep, NextTypeInv, NextPipelineInv
  <1> QED
    BY <1>1, <1>2, PTL DEF PipelineSpec

\* Only handled messages are ever acknowledged.
THEOREM AcknowledgedOnlyHandled == PipelineSpec => []AcknowledgedIsHandled
  <1>1. TypeInv /\ PipelineInv => AcknowledgedIsHandled
    BY DEF PipelineInv
  <1> QED
    BY <1>1, PipelineInvariant, PTL

\* PipelineTypeOK: the settings, the stage of processEvent and the histories of
\* any number of senders, with the types of the queue.
THEOREM PipelineTypeCorrect == PipelineSpec => []PipelineTypeOK
  <1>1. PipelineInv => PipelineTypeOK
    BY DEF PipelineInv
  <1> QED
    BY <1>1, PipelineInvariant, PTL
=============================================================================
