------------------------------ MODULE MCKigeon ------------------------------
(* Kigeon on a small instance.                                             *)
EXTENDS Kigeon

\* An Event object may be counted up; an OOM kill is counted once.
MCEvents ==
    [uid : Objects, count : {1, 2}] \cup [uid : OomKills, count : {1}]

\* The instance is about the way into the stream.  Deliveries and the limits
\* of the stream, which need nothing of the pusher, are left to the instances
\* of EventQueue.
Undelivered == UNCHANGED <<status, evicted>>

\* States that differ in history no guard and no property of the run reads -
\* expired, unrecorded, lapsed, accepted, attempted - count as one.
Read == <<log, stored, window, kv, consumers, status, dcount, phase, cfgd,
          subscribed, held, acks, pc, ev, restarts, evicted, owed,
          version, notif, resyncs, kills, hand, channel, closed, cancelled, run,
          loop, main, panicked, ident, failed>>
=============================================================================
