------------------------------ MODULE Pipeline ------------------------------
(***************************************************************************)
(* The event queue with its senders: internal/eventsender (FilteredFetcher *)
(* and the loki sender) on top of EventQueue.  EventQueue lets a sender    *)
(* acknowledge or leave a message as it likes; here it decides as the code *)
(* does: the namespace filter, the hook with its onError setting, the push *)
(* to Loki, the acknowledgement.                                           *)
(*                                                                         *)
(* A stop may fall between any two of these steps.  On a signal, main      *)
(* first cancels the contexts of the senders (`stopping'), which go on     *)
(* until they notice, and stops the queue at the end (Halt).               *)
(*                                                                         *)
(* Abstraction: what filter, hook and Loki answer is left to chance, as is *)
(* whether a push that failed for the sender still reached Loki.  Counting *)
(* what Loki received stops at two.                                        *)
(***************************************************************************)
EXTENDS EventQueue

CONSTANT Settings   \* settings a sender may have: hook, onError, noop

ASSUME PipelineAssumption ==
    /\ Settings \subseteq [hook : BOOLEAN, noop : BOOLEAN,
                           onError : {"use-default", "skip", "fail"}]
    /\ Settings # {}

VARIABLES
    settings,  \* sender -> its settings in this run of the process
    stage,     \* sender -> what it does next with the message it holds
    stopping,  \* the contexts of the senders are cancelled
    received,  \* history: sender -> message -> times Loki accepted it
    dropped,   \* history: sender -> messages it decided not to send
    cut        \* history: sender -> messages skipped for a hook cut short
               \*   by the shutdown

senderVars   == <<settings, stage, stopping, received, dropped, cut>>
pipelineVars == <<vars, senderVars>>

Stages == {"fetch", "filter", "hook", "deliver", "ack"}

PipelineTypeOK ==
    /\ TypeOK
    /\ settings \in [Senders -> Settings]
    /\ stage \in [Senders -> Stages]
    /\ stopping \in BOOLEAN
    /\ received \in [Senders -> [Seqs -> 0..2]]
    /\ dropped \in [Senders -> SUBSET Seqs] /\ cut \in [Senders -> SUBSET Seqs]

PipelineInit ==
    /\ Init
    /\ settings \in [Senders -> Settings]
    /\ stage = [s \in Senders |-> "fetch"]
    /\ stopping = FALSE
    /\ received = [s \in Senders |-> [m \in Seqs |-> 0]]
    /\ dropped = [s \in Senders |-> {}] /\ cut = [s \in Senders |-> {}]

-----------------------------------------------------------------------------
(* The process.                                                            *)

\* A start reads the configuration anew.
StartPipeline ==
    /\ Start
    /\ settings' \in [Senders -> Settings]
    /\ UNCHANGED <<stage, stopping, received, dropped, cut>>

\* main got a signal and calls Stop of every sender.
StopSenders ==
    /\ phase = "running" /\ ~stopping /\ restarts < MaxRestarts
    /\ stopping' = TRUE
    /\ UNCHANGED <<vars, settings, stage, received, dropped, cut>>

HaltPipeline ==
    /\ Halt
    /\ stage' = [s \in Senders |-> "fetch"]
    /\ stopping' = FALSE
    /\ UNCHANGED <<settings, received, dropped, cut>>

\* Steps of the queue that are none of a sender's.
QueueStep ==
    /\ \/ Serve \/ PublishEvent \/ Evict
       \/ \E s \in Senders : \/ Subscribe(s) \/ Prune(s)
                             \/ HandleAck(s) \/ AckTimer(s) \/ GiveUp(s)
       \/ \E e \in Events : ExpireKey(e) \/ LapseWindow(e)
    /\ UNCHANGED senderVars

-----------------------------------------------------------------------------
(* processEvent of the loki sender.                                        *)

GoTo(s, next) == stage' = [stage EXCEPT ![s] = next]

DropHeld(s) == dropped' = [dropped EXCEPT ![s] = @ \cup {held[s]}]

\* Mistake: a failure is retried at once, the message never let go.
RetryAtOnce(s) == GoTo(s, "filter") /\ UNCHANGED <<vars, dropped, cut>>

\* processEvent returns an error: the message is left to its ack timer.
Fail(s) == Leave(s) /\ GoTo(s, "fetch") /\ UNCHANGED <<dropped, cut>>

\* Mistake: a fetch without a message is not told from one with.
FetchUnchecked(s) ==
    /\ stage[s] = "fetch"
    /\ Fetch(s)
    /\ GoTo(s, "filter")
    /\ UNCHANGED <<settings, stopping, received, dropped, cut>>

\* Fetch: with a message in hand the sender goes on, without it fetches again.
FetchNext(s) ==
    /\ stage[s] = "fetch"
    /\ Fetch(s)
    /\ GoTo(s, IF held'[s] = 0 THEN "fetch" ELSE "filter")
    /\ UNCHANGED <<settings, stopping, received, dropped, cut>>

\* FilteredFetcher: a rejected event is acknowledged and skipped.
Filter(s) ==
    /\ stage[s] = "filter"
    /\ \/ /\ GoTo(s, IF settings[s].hook THEN "hook" ELSE "deliver")
          /\ UNCHANGED dropped
       \/ GoTo(s, "ack") /\ DropHeld(s)
    /\ UNCHANGED <<vars, settings, stopping, received, cut>>

\* execute: the hook returns a config, or None (as skipOnPodNotFound does)
\* and the event is acknowledged unsent.
HookReturns(s) ==
    /\ stage[s] = "hook"
    /\ \/ GoTo(s, "deliver") /\ UNCHANGED dropped
       \/ GoTo(s, "ack") /\ DropHeld(s)
    /\ UNCHANGED <<vars, settings, stopping, received, cut>>

\* handleHookError: the script failed or took longer than its timeout.
HookFails(s) ==
    /\ stage[s] = "hook"
    /\ \/ /\ settings[s].onError = "use-default"
          /\ GoTo(s, "deliver") /\ UNCHANGED <<vars, dropped>>
       \/ /\ settings[s].onError = "skip"
          /\ GoTo(s, "ack") /\ DropHeld(s) /\ UNCHANGED vars
       \/ settings[s].onError = "fail" /\ Fail(s)
    /\ UNCHANGED <<settings, stopping, received, cut>>

\* The same when the shutdown cancelled the context the script runs under.
HookCut(s) ==
    /\ stage[s] = "hook" /\ stopping
    /\ settings[s].onError = "skip"
    /\ GoTo(s, "ack")
    /\ cut' = [cut EXCEPT ![s] = @ \cup {held[s]}]
    /\ UNCHANGED <<vars, settings, stopping, received, dropped>>

Reach(s) == received' = [received EXCEPT ![s][held[s]] = IF @ = 2 THEN 2 ELSE @ + 1]

\* Mistake: the event is acknowledged whatever Loki answered.
DeliverCareless(s) ==
    /\ stage[s] = "deliver"
    /\ \/ Reach(s) \/ UNCHANGED received
    /\ GoTo(s, "ack")
    /\ UNCHANGED <<vars, settings, stopping, dropped, cut>>

\* deliver: a noop sender and a push Loki rejects with 400 end in an
\* acknowledgement, as a push Loki accepts; any other failure in none.
Deliver(s) ==
    /\ stage[s] = "deliver"
    /\ \/ /\ ~settings[s].noop
          /\ Reach(s)
          /\ GoTo(s, "ack")
          /\ UNCHANGED <<vars, dropped>>
       \/ /\ DropHeld(s)
          /\ GoTo(s, "ack")
          /\ UNCHANGED <<vars, received>>
       \/ /\ ~settings[s].noop
          /\ Reach(s) \/ UNCHANGED received
          /\ Fail(s)
    /\ UNCHANGED <<settings, stopping, cut>>

\* Ack, or its failure.
Acknowledge(s) ==
    /\ stage[s] = "ack"
    /\ Ack(s) \/ Leave(s)
    /\ GoTo(s, "fetch")
    /\ UNCHANGED <<settings, stopping, received, dropped, cut>>

-----------------------------------------------------------------------------
ProcessEvent(s) ==
    \/ Filter(s) \/ HookReturns(s) \/ HookFails(s) \/ HookCut(s)
    \/ Deliver(s) \/ Acknowledge(s)

PipelineNext ==
    \/ StartPipeline \/ StopSenders \/ HaltPipeline
    \/ QueueStep
    \/ \E s \in Senders : FetchNext(s) \/ ProcessEvent(s)

PipelineSpec == PipelineInit /\ [][PipelineNext]_pipelineVars

\* As in EventQueue; a sender finishes what it began, for the hook is
\* bounded by its timeout and the push by that of the HTTP client; and a
\* shutdown that began ends.
PipelineFairness ==
    /\ WF_pipelineVars(StartPipeline)
    /\ WF_pipelineVars(Serve /\ UNCHANGED senderVars)
    /\ WF_pipelineVars(stopping /\ HaltPipeline)
    /\ \A s \in Senders :
        /\ WF_pipelineVars(Subscribe(s) /\ UNCHANGED senderVars)
        /\ WF_pipelineVars(Prune(s) /\ UNCHANGED senderVars)
        /\ WF_pipelineVars(FetchNext(s))
        /\ WF_pipelineVars(ProcessEvent(s))
        /\ WF_pipelineVars(HandleAck(s) /\ UNCHANGED senderVars)
        /\ WF_pipelineVars(AckTimer(s) /\ UNCHANGED senderVars)
        /\ WF_pipelineVars(GiveUp(s) /\ UNCHANGED senderVars)

FairPipelineSpec == PipelineSpec /\ PipelineFairness

-----------------------------------------------------------------------------
(* Properties.                                                             *)

\* The sender s has dealt with message m: Loki accepted it, or a decision gave
\* it up - of the filter, the hook, its onError setting or Loki.
Handled(s, m) == received[s][m] > 0 \/ m \in dropped[s] \cup cut[s]

\* Whatever a sender acknowledges, and whenever the acknowledgement arrives,
\* was handled.  A stop between the push and Ack never leaves a message
\* acknowledged that was not.
AcknowledgedIsHandled ==
    \A s \in Senders, m \in Seqs :
        status[s][m] = "acked" \/ m \in acks[s] => Handled(s, m)

\* README: "embedded NATS JetStream store so no events are lost on restart".
\* It does not hold with onError: skip: a hook that runs as the shutdown
\* begins is cancelled and its event acknowledged unsent.
NotLostOnStop ==
    \A s \in Senders, m \in Seqs :
        status[s][m] = "acked" => received[s][m] > 0 \/ m \in dropped[s]

-----------------------------------------------------------------------------
(* Inductive invariant, with TypeInv of EventQueue.                        *)

\* A sender past Fetch holds a message, and one about to acknowledge it has
\* handled it.
StageInv ==
    \A s \in Senders :
        /\ stage[s] # "fetch" => held[s] \in Seqs
        /\ stage[s] = "ack" => Handled(s, held[s])

PipelineInv == PipelineTypeOK /\ StageInv /\ AcknowledgedIsHandled
=============================================================================
