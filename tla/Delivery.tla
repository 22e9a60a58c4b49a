------------------------------ MODULE Delivery ------------------------------
(***************************************************************************)
(* What the event queue promises its senders, without consumers, timers,   *)
(* acknowledgements in flight or restarts.  A message accepted while a     *)
(* sender is configured is due to that sender, and is kept, until the      *)
(* sender has settled it, or the promise lapses: its deliveries are used   *)
(* up or a limit deleted it.  Removing a sender ends what is due to it.    *)
(*                                                                         *)
(* EventQueue implements this specification (EventQueue!KeepsPromise); a   *)
(* restart of the process is a step in which nothing happens.              *)
(***************************************************************************)
CONSTANTS Senders, Messages

VARIABLES
    kept,      \* messages that can still be delivered
    progress   \* sender -> message -> what has become of the promise

States == {"none", "due", "lapsed", "settled"}

Init ==
    /\ kept = {}
    /\ progress = [s \in Senders |-> [m \in Messages |-> "none"]]

\* Only a message due to nobody may go.
DueIsKept ==
    \A s \in Senders, m \in Messages : progress[s][m] = "due" => m \in kept

\* A new message becomes due to the senders of S, all at once.
Accept(m, S) ==
    /\ m \notin kept
    /\ \A s \in Senders : progress[s][m] = "none"
    /\ kept' = kept \cup {m}
    /\ progress' = [s \in Senders |->
                       IF s \in S THEN [progress[s] EXCEPT ![m] = "due"]
                       ELSE progress[s]]

\* A sender settles a message: also one whose promise had lapsed while the
\* sender held it, and one accepted before it was configured.
Settle(s, m) ==
    /\ progress[s][m] # "settled"
    /\ progress' = [progress EXCEPT ![s][m] = "settled"]
    /\ kept' \subseteq kept /\ kept \subseteq kept' \cup {m}

\* The deliveries to one sender are used up, or a limit strikes for all.
Lapse(m, S) ==
    /\ \A s \in S : progress[s][m] = "due"
    /\ progress' = [s \in Senders |->
                       IF s \in S THEN [progress[s] EXCEPT ![m] = "lapsed"]
                       ELSE progress[s]]
    /\ kept' \subseteq kept /\ kept \subseteq kept' \cup {m}

\* A sender is no longer configured.
Remove(s) ==
    /\ progress' = [progress EXCEPT ![s] = [m \in Messages |-> "none"]]
    /\ kept' \subseteq kept

Accepting == \E m \in Messages, S \in (SUBSET Senders) \ {{}} : Accept(m, S)

Ending ==
    \/ \E s \in Senders, m \in Messages : Settle(s, m)
    \/ \E m \in Messages, S \in SUBSET Senders : Lapse(m, S)
    \/ \E s \in Senders : Remove(s)

Next == (Accepting \/ Ending) /\ DueIsKept'

Spec == Init /\ [][Next]_<<kept, progress>>

\* Nothing stays due for ever.
DueEnds ==
    \A s \in Senders, m \in Messages :
        progress[s][m] = "due" ~> progress[s][m] # "due"

FairSpec == Spec /\ DueEnds
=============================================================================
