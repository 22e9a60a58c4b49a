----------------------------- MODULE MCLifecycle -----------------------------
(* Instances of Lifecycle for TLC: a configuration of two senders, others   *)
(* that are as good, and others that differ from it in one value.           *)
EXTENDS Lifecycle

Plain == [name |-> "a", type |-> "loki", selector |-> "none", refresh |-> 0,
          json |-> TRUE, url |-> TRUE, hook |-> FALSE, enrichPod |-> FALSE,
          script |-> "", onError |-> ""]

Full == [Plain EXCEPT !.name = "b", !.selector = "valid", !.refresh = 1, !.hook = TRUE,
                      !.enrichPod = TRUE, !.script = "loads", !.onError = "skip"]

Base == [dataDir |-> "", logLevel |-> "", logFormat |-> "", flag |-> "",
         eventsMaxAge |-> 0, eventsMaxBytes |-> 0, lifetime |-> 0, retention |-> 0,
         pushTimeout |-> 0, oomKilledEvents |-> FALSE, senders |-> <<Plain, Full>>]

\* The last one has values no check of kigeon looks at.
Good == {Base,
         [Base EXCEPT !.senders = <<Plain>>, !.oomKilledEvents = TRUE],
         [Base EXCEPT !.senders = <<Full, [Plain EXCEPT !.name = "c"]>>,
                      !.oomKilledEvents = TRUE, !.flag = "debug"],
         [Base EXCEPT !.senders = <<Plain>>, !.lifetime = -1, !.pushTimeout = -1]}

BadGlobal == {[Base EXCEPT !.flag = "other"], [Base EXCEPT !.logFormat = "other"],
              [Base EXCEPT !.eventsMaxAge = -1], [Base EXCEPT !.eventsMaxBytes = -1],
              [Base EXCEPT !.retention = -1]}

BadSecond(s) == [Base EXCEPT !.senders[2] = s]

BadSenders == {BadSecond([Full EXCEPT !.name = "a"]), BadSecond([Full EXCEPT !.name = ""]),
               BadSecond([Full EXCEPT !.type = "file"]), BadSecond([Full EXCEPT !.type = ""]),
               BadSecond([Full EXCEPT !.refresh = -1]),
               BadSecond([Full EXCEPT !.selector = "invalid"]),
               BadSecond([Full EXCEPT !.json = FALSE]), BadSecond([Full EXCEPT !.url = FALSE]),
               BadSecond([Full EXCEPT !.script = "fails"]),
               BadSecond([Full EXCEPT !.script = ""]),
               BadSecond([Full EXCEPT !.onError = "retry"]),
               [Base EXCEPT !.senders = <<>>]}

MCFiles == Good \cup BadGlobal \cup BadSenders
=============================================================================
