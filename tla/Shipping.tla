------------------------------ MODULE Shipping ------------------------------
(***************************************************************************)
(* What kigeon promises end to end, without informers, channels, memories  *)
(* of the deduplication or consumers.  An event the cluster shows while    *)
(* kigeon is open is pending until it is stored, is found stored before,   *)
(* or its publication fails, of which the log tells.  Only a stop lets go  *)
(* of pending events in any other way.  A stored event is due to every     *)
(* sender then configured, and what is due is kept, as Delivery tells.     *)
(*                                                                         *)
(* Kigeon implements this specification (Kigeon!Ships).                    *)
(***************************************************************************)
EXTENDS Delivery

CONSTANT Events   \* event identifiers

VARIABLES
    open,      \* kigeon runs, and its stop has not begun
    pending,   \* events on their way to the queue
    failed,    \* events of this run whose publication failed
    known      \* events ever stored

intakeVars   == <<open, pending, failed>>
queueVars    == <<known, kept, progress>>
shippingVars == <<intakeVars, queueVars>>

ShippingInit ==
    /\ open = FALSE /\ pending = {} /\ failed = {} /\ known = {}
    /\ Init

-----------------------------------------------------------------------------
Open  == open' = TRUE  /\ UNCHANGED <<pending, failed, queueVars>>
Close == open' = FALSE /\ UNCHANGED <<pending, failed, queueVars>>

\* The cluster shows an event, or a new version of it.
TakeUp(e) ==
    /\ open
    /\ pending' = pending \cup {e}
    /\ UNCHANGED <<open, failed, queueVars>>

\* An event is done with; another version of it may still be on its way.
LetGo(e) ==
    /\ e \in pending
    /\ pending' \in {pending, pending \ {e}}
    /\ UNCHANGED open

\* The event is stored, as a message that becomes due to its senders.
Ship(e) ==
    /\ LetGo(e)
    /\ known' = known \cup {e}
    /\ Accepting /\ DueIsKept'
    /\ UNCHANGED failed

\* The event was stored before.
Skip(e) ==
    /\ LetGo(e)
    /\ e \in known
    /\ UNCHANGED <<failed, queueVars>>

\* Its publication fails.
Fail(e) ==
    /\ LetGo(e)
    /\ failed' = failed \cup {e}
    /\ UNCHANGED queueVars

\* A stop has begun, and pending events may be dropped.
Abandon ==
    /\ ~open
    /\ pending' \subseteq pending
    /\ UNCHANGED <<open, failed, queueVars>>

\* The process ends.
Stop ==
    /\ open' = FALSE /\ pending' = {} /\ failed' = {}
    /\ UNCHANGED queueVars

\* What becomes of messages that are due.
Deliver ==
    /\ Ending /\ DueIsKept'
    /\ UNCHANGED <<intakeVars, known>>

ShippingNext ==
    \/ Open \/ Close \/ Abandon \/ Stop \/ Deliver
    \/ \E e \in Events : TakeUp(e) \/ Ship(e) \/ Skip(e) \/ Fail(e)

ShippingSpec == ShippingInit /\ [][ShippingNext]_shippingVars
=============================================================================
