---------------------------- MODULE MCEventQueue ----------------------------
(* EventQueue on small instances.                                          *)
EXTENDS EventQueue, TLC

\* Events and senders are interchangeable: no definition tells two apart.
Symmetry == Permutations(Events) \cup Permutations(Senders)

\* The delivery instance is about consumers.  It leaves the expiry of keys
\* and message ids, and a PublishEvent that does not write its key, to the
\* deduplication instance.
Recorded ==
    /\ kv \subseteq kv' /\ unrecorded' = unrecorded
    /\ phase' = "down" \/ window \subseteq window'
=============================================================================
