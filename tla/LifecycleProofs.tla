--------------------------- MODULE LifecycleProofs ---------------------------
(***************************************************************************)
(* Theorems about Lifecycle, for any set of configurations and any number  *)
(* of starts.                                                              *)
(***************************************************************************)
EXTENDS Lifecycle, TLAPS

-----------------------------------------------------------------------------
(* The inductive invariant: what run has done, by where it is.             *)

Nothing == {"off", "config", "client", "metrics", "signals", "queue", "register"}
Loop == {"filter", "sync", "subscribe", "create"}
AfterLoop == {"prune", "pods", "pods sync", "pusher", "pusher sync", "oom", "set ready",
              "wait"} \cup Shutdown
BeforePusher == Nothing \cup Loop \cup {"prune", "pods", "pods sync", "pusher"}

\* The configuration is one that was accepted.
ConfigInv ==
    /\ at = "config" => cfg \in Files
    /\ at \notin {"off", "config"} => Valid(cfg) /\ \E f \in Files : cfg = ConfigOf(f)

\* Nothing has been started, but the queue when its collector is registered.
NothingInv ==
    at \in Nothing =>
        /\ ~ready /\ (queue <=> at = "register") /\ ~enabled /\ ~pushing
        /\ at = "register" => cfg.eventsMaxBytes > 0
        /\ filters = {} /\ running = {} /\ told = {} /\ pods = "off"

\* The senders up to m have been created.
Filtered(m) == {i \in 1..m : cfg.senders[i].selector # "none"}

Created(m) ==
    /\ \A i \in 1..m : /\ Creates(cfg.senders[i]) /\ cfg.senders[i].selector # "invalid"
                       /\ cfg.senders[i].name \in consumers
    /\ enabled = (cfg.oomKilledEvents \/ \E i \in 1..m : EnablesPods(cfg.senders[i]))
    /\ cfg.eventsMaxBytes > 0

\* Run is at sender next.
LoopInv ==
    at \in Loop =>
        /\ next \in Indices /\ Created(next - 1)
        /\ queue /\ running = 1..(next - 1) /\ told = {} /\ pods = "off"
        /\ ~pushing /\ ~ready
        /\ IF at = "filter"
           THEN filters = Filtered(next - 1)
           ELSE filters = Filtered(next) /\ Sender.selector # "invalid"
        /\ at = "create" => Sender.name \in consumers

AfterInv ==
    at \in AfterLoop =>
        /\ Created(Len(cfg.senders))
        /\ at \notin Shutdown => /\ queue /\ running = Indices /\ told = {}
                                 /\ filters = Filtered(Len(cfg.senders))
        /\ filters \subseteq Indices /\ running \subseteq Indices /\ told \subseteq Indices
        /\ at # "prune" => consumers = Names(cfg)
        /\ ready => at = "wait" \/ at \in Shutdown

\* The pod informer and its handler.
PodsInv ==
    at \in AfterLoop =>
        /\ pods = CASE at \in {"prune", "pods"} -> "off"
                    [] at = "pods sync" -> "syncing"
                    [] at \in {"pusher", "pusher sync", "oom"} ->
                        IF enabled THEN "started" ELSE "off"
                    [] at \in {"set ready", "wait", "stop senders", "stop filters",
                               "stop pods"} ->
                        IF cfg.oomKilledEvents THEN "reporting"
                        ELSE IF enabled THEN "started" ELSE "off"
                    [] OTHER -> "stopped"
        /\ at = "pods sync" => enabled
        /\ pushing => pods = "reporting" \/ at = "pods stopping"

\* The event pusher.
PusherInv ==
    /\ at \in BeforePusher => pusher = "none"
    /\ at \notin BeforePusher /\ at # "pusher sync" =>
        pusher \in {"spawned", "running", "ended"}
    /\ pusher = "ended" => PusherTold
    /\ at = "pusher sync" => pusher # "none"

Inv ==
    /\ TypeOK /\ ConfigInv /\ NothingInv /\ LoopInv /\ AfterInv /\ PodsInv /\ PusherInv

-----------------------------------------------------------------------------
(* The configuration.                                                      *)

\* A default leaves no zero.
LEMMA DefaultSign ==
    ASSUME NEW x \in -1..1
    PROVE  Default(x, 0, 1) \in -1..1 /\ Default(x, 0, 1) # 0
  BY DEF Default

\* Defaults and the flag change no sender, and leave nothing empty or zero.
LEMMA ConfigOfFacts ==
    ASSUME NEW f \in Files
    PROVE  LET c == ConfigOf(f)
           IN  /\ c \in Config /\ c.senders = f.senders
               /\ c.oomKilledEvents = f.oomKilledEvents
               /\ c.logLevel # "" /\ c.logFormat # "" /\ c.eventsMaxAge # 0
               /\ c.eventsMaxBytes # 0 /\ c.retention # 0
  <1> DEFINE d == ApplyDefaults(f)
  <1>1. f \in Config
    BY LifecycleAssumption
  <1>2. /\ d.senders = f.senders /\ d.oomKilledEvents = f.oomKilledEvents
        /\ d.flag = f.flag /\ d.dataDir = Default(f.dataDir, "", "dir")
        /\ d.logLevel = Default(f.logLevel, "", "info")
        /\ d.logFormat = Default(f.logFormat, "", "json")
    BY <1>1 DEF ApplyDefaults, Config
  <1>3. /\ d.eventsMaxAge = Default(f.eventsMaxAge, 0, 1)
        /\ d.eventsMaxBytes = Default(f.eventsMaxBytes, 0, 1)
        /\ d.lifetime = Default(f.lifetime, 0, 1)
        /\ d.retention = Default(f.retention, 0, 1)
        /\ d.pushTimeout = Default(f.pushTimeout, 0, 1)
    BY <1>1 DEF ApplyDefaults, Config
  <1>4. /\ d.dataDir \in {"", "dir"} /\ d.flag \in Level
        /\ d.logLevel \in Level /\ d.logLevel # ""
        /\ d.logFormat \in {"", "json", "text", "other"} /\ d.logFormat # ""
        /\ d.oomKilledEvents \in BOOLEAN /\ d.senders \in Seq(EventSenderConfig)
    <2> HIDE DEF d
    <2>1. /\ f.dataDir \in {"", "dir"} /\ f.flag \in Level /\ f.logLevel \in Level
          /\ f.logFormat \in {"", "json", "text", "other"}
          /\ f.oomKilledEvents \in BOOLEAN /\ f.senders \in Seq(EventSenderConfig)
      BY <1>1 DEF Config
    <2> QED
      BY <1>2, <2>1 DEF Default, Level
  <1>5. /\ d.eventsMaxAge \in -1..1 /\ d.eventsMaxAge # 0
        /\ d.eventsMaxBytes \in -1..1 /\ d.eventsMaxBytes # 0
        /\ d.lifetime \in -1..1 /\ d.pushTimeout \in -1..1
        /\ d.retention \in -1..1 /\ d.retention # 0
    <2> HIDE DEF d
    <2>1. /\ f.eventsMaxAge \in -1..1 /\ f.eventsMaxBytes \in -1..1
          /\ f.lifetime \in -1..1 /\ f.retention \in -1..1 /\ f.pushTimeout \in -1..1
      BY <1>1 DEF Config
    <2> QED
      BY <1>3, <2>1, DefaultSign
  <1>6. d \in Config
    <2> HIDE DEF d
    <2> DEFINE texts == [f EXCEPT !.dataDir = d.dataDir, !.logLevel = d.logLevel,
                                  !.logFormat = d.logFormat]
               queues == [texts EXCEPT !.eventsMaxAge = d.eventsMaxAge,
                                       !.eventsMaxBytes = d.eventsMaxBytes]
               all == [queues EXCEPT !.lifetime = d.lifetime, !.retention = d.retention,
                                     !.pushTimeout = d.pushTimeout]
    <2>1. texts \in Config
      BY <1>1, <1>4 DEF Config
    <2>2. queues \in Config
      <3> HIDE DEF texts
      <3> QED
        BY <2>1, <1>5 DEF Config
    <2>3. all \in Config
      <3> HIDE DEF queues
      <3> QED
        BY <2>2, <1>5 DEF Config
    <2>4. d = all
      BY <1>1, <1>2, <1>3 DEF d, ApplyDefaults, Config
    <2> QED
      BY <2>3, <2>4
  <1> HIDE DEF d
  <1>7. \A x \in Config : x.logLevel # "" =>
            LET o == Override(x)
            IN  /\ o \in Config /\ o.senders = x.senders
                /\ o.oomKilledEvents = x.oomKilledEvents
                /\ o.logLevel # "" /\ o.logFormat = x.logFormat
                /\ o.eventsMaxAge = x.eventsMaxAge
                /\ o.eventsMaxBytes = x.eventsMaxBytes /\ o.retention = x.retention
    BY DEF Override, Default, Config, Level
  <1> QED
    BY <1>2, <1>4, <1>5, <1>6, <1>7 DEF ConfigOf, d

\* What is known of the configuration while kigeon runs on it.
LEMMA AcceptedFacts ==
    ASSUME ConfigInv, at \notin {"off", "config"}
    PROVE  /\ cfg \in Config /\ Valid(cfg)
           /\ \E f \in Files : cfg.senders = f.senders
           /\ cfg.oomKilledEvents \in BOOLEAN
           /\ Len(cfg.senders) \in Nat /\ Len(cfg.senders) > 0
           /\ Indices = 1..Len(cfg.senders)
           /\ \A i \in Indices : cfg.senders[i] \in EventSenderConfig
  <1>1. PICK f \in Files : cfg = ConfigOf(f)
    BY DEF ConfigInv
  <1>2. cfg \in Config /\ cfg.senders = f.senders /\ Valid(cfg)
    BY <1>1, ConfigOfFacts DEF ConfigInv
  <1>3. cfg.senders \in Seq(EventSenderConfig) /\ cfg.oomKilledEvents \in BOOLEAN
    BY <1>2 DEF Config
  <1>4. cfg.senders # <<>>
    BY <1>2 DEF Valid, ValidSenders
  <1> QED
    BY <1>2, <1>3, <1>4 DEF Indices

-----------------------------------------------------------------------------
(* Beginning and end of a process.                                         *)

LEMMA InitInv == Init => Inv
  <1> SUFFICES ASSUME Init PROVE Inv
    OBVIOUS
  <1>1. TypeOK
    <2>1. /\ apiUp \in BOOLEAN /\ caught \in BOOLEAN /\ noted \in BOOLEAN
          /\ ready \in BOOLEAN /\ queue \in BOOLEAN /\ enabled \in BOOLEAN
          /\ pushing \in BOOLEAN
      BY DEF Init
    <2>2. /\ starts \in 0..MaxStarts /\ consumers = {} /\ at = "off" /\ cfg = None
          /\ filters = {} /\ running = {} /\ told = {} /\ pods = "off" /\ pusher = "none"
      BY LifecycleAssumption DEF Init
    <2> QED
      BY <2>1, <2>2 DEF TypeOK
  <1>2. ConfigInv /\ NothingInv /\ LoopInv /\ AfterInv /\ PodsInv /\ PusherInv
    BY DEF Init, ConfigInv, NothingInv, LoopInv, AfterInv, PodsInv, PusherInv, Nothing,
           Loop, AfterLoop, BeforePusher, PusherTold, Shutdown
  <1> QED
    BY <1>1, <1>2 DEF Inv

LEMMA ReturnInv ==
    ASSUME TypeOK, Return, UNCHANGED <<apiUp, starts>>
    PROVE  Inv'
  BY DEF Return, Inv, TypeOK, ConfigInv, NothingInv, LoopInv, AfterInv, PodsInv,
      PusherInv, Nothing, Loop, AfterLoop, BeforePusher, PusherTold, Shutdown, Startup

LEMMA StartInv == Inv /\ Start => Inv'
  <1> SUFFICES ASSUME Inv, Start PROVE Inv'
    OBVIOUS
  <1>1. /\ at = "off" /\ at' = "config" /\ cfg' \in Files /\ starts' = starts + 1
        /\ starts < MaxStarts
        /\ UNCHANGED <<apiUp, consumers, next, caught, noted, ready, queue, filters,
                       running, told, enabled, pods, pushing, pusher>>
    BY DEF Start, senderVars, podVars
  <1>2. TypeOK'
    BY <1>1, LifecycleAssumption DEF Inv, TypeOK
  <1>3. NothingInv'
    BY <1>1 DEF Inv, NothingInv, Nothing
  <1>4. ConfigInv'
    BY <1>1 DEF ConfigInv
  <1>5. LoopInv' /\ AfterInv' /\ PodsInv'
    BY <1>1 DEF LoopInv, AfterInv, PodsInv, Loop, AfterLoop, Shutdown
  <1>6. PusherInv'
    BY <1>1 DEF Inv, PusherInv, BeforePusher, Nothing, Loop, PusherTold
  <1> QED
    BY <1>2, <1>3, <1>4, <1>5, <1>6 DEF Inv

LEMMA LoadInv == Inv /\ LoadConfig /\ UNCHANGED <<apiUp, starts>> => Inv'
  <1> SUFFICES ASSUME Inv, LoadConfig, UNCHANGED <<apiUp, starts>> PROVE Inv'
    OBVIOUS
  <1>1. CASE Return
    BY <1>1, ReturnInv DEF Inv
  <1>2. CASE ~Return
    <2>1. /\ at = "config" /\ at' = "client" /\ cfg' = ConfigOf(cfg) /\ Valid(cfg')
          /\ UNCHANGED <<apiUp, starts, consumers, next, caught, noted, ready, queue,
                         filters, running, told, enabled, pods, pushing, pusher>>
      BY <1>2 DEF LoadConfig, senderVars, podVars
    <2>2. cfg \in Files
      BY <2>1 DEF Inv, ConfigInv
    <2>3. NothingInv /\ NothingInv'
      BY <2>1 DEF Inv, NothingInv, Nothing
    <2>4. ConfigInv'
      BY <2>1, <2>2 DEF ConfigInv
    <2>5. TypeOK'
      BY <2>1, <2>2, <2>3 DEF Inv, TypeOK, NothingInv, Nothing, Startup
    <2>6. LoopInv' /\ AfterInv' /\ PodsInv'
      BY <2>1 DEF LoopInv, AfterInv, PodsInv, Loop, AfterLoop, Shutdown
    <2>7. PusherInv'
      BY <2>1 DEF Inv, PusherInv, BeforePusher, Nothing, Loop, PusherTold
    <2> QED
      BY <2>3, <2>4, <2>5, <2>6, <2>7 DEF Inv
  <1> QED
    BY <1>1, <1>2

-----------------------------------------------------------------------------
(* The startup, up to the senders.                                         *)

\* The first steps keep the configuration, and there is nothing yet.
LEMMA EarlyInv ==
    Inv /\ (CreateClient \/ StartMetrics \/ NotifyContext) /\ UNCHANGED <<apiUp, starts>>
        => Inv'
  <1> SUFFICES ASSUME Inv, CreateClient \/ StartMetrics \/ NotifyContext,
                      UNCHANGED <<apiUp, starts>>
               PROVE  Inv'
    OBVIOUS
  <1>1. CASE Return
    BY <1>1, ReturnInv DEF Inv
  <1>2. CASE ~Return
    <2>1. /\ at \in {"client", "metrics", "signals"} /\ at' \in {"metrics", "signals", "queue"}
          /\ caught' \in BOOLEAN
          /\ UNCHANGED <<apiUp, starts, consumers, cfg, next, noted, ready, queue,
                         filters, running, told, enabled, pods, pushing, pusher>>
      BY <1>2 DEF CreateClient, StartMetrics, NotifyContext, Fails, Step, GoOn,
          senderVars, podVars, Inv, TypeOK
    <2>2. TypeOK'
      <3>1. /\ at' \in Startup /\ at' \notin {"filter", "sync", "subscribe", "create"}
            /\ \E f \in Files : cfg' = ConfigOf(f)
            /\ filters' = {} /\ running' = {} /\ told' = {}
        BY <2>1 DEF Inv, ConfigInv, NothingInv, Nothing, Startup
      <3>2. at' \notin {"off", "config"}
        BY <2>1
      <3> QED
        BY <2>1, <3>1, <3>2 DEF Inv, TypeOK
    <2>3. ConfigInv' /\ NothingInv'
      BY <2>1 DEF Inv, ConfigInv, NothingInv, Nothing
    <2>4. LoopInv' /\ AfterInv' /\ PodsInv'
      BY <2>1 DEF LoopInv, AfterInv, PodsInv, Loop, AfterLoop, Shutdown
    <2>5. PusherInv'
      BY <2>1 DEF Inv, PusherInv, BeforePusher, Nothing, Loop, PusherTold
    <2> QED
      BY <2>2, <2>3, <2>4, <2>5 DEF Inv
  <1> QED
    BY <1>1, <1>2

LEMMA StartQueueInv == Inv /\ StartQueue /\ UNCHANGED <<apiUp, starts>> => Inv'
  <1> SUFFICES ASSUME Inv, StartQueue, UNCHANGED <<apiUp, starts>> PROVE Inv'
    OBVIOUS
  <1>1. CASE Return
    BY <1>1, ReturnInv DEF Inv
  <1>2. CASE ~Return
    <2>1. /\ at = "queue" /\ at' = "register" /\ cfg.eventsMaxBytes > 0
          /\ queue' = TRUE
          /\ UNCHANGED <<apiUp, starts, consumers, cfg, next, caught, noted, ready,
                         filters, running, told, enabled, pods, pushing, pusher>>
      BY <1>2 DEF StartQueue, Fails, GoOn, senderVars, podVars
    <2>2. TypeOK'
      <3>1. /\ at' \in Startup /\ at' \notin {"filter", "sync", "subscribe", "create"}
            /\ \E f \in Files : cfg' = ConfigOf(f)
            /\ filters' = {} /\ running' = {} /\ told' = {}
        BY <2>1 DEF Inv, ConfigInv, NothingInv, Nothing, Startup
      <3>2. at' \notin {"off", "config"} /\ queue' \in BOOLEAN
        BY <2>1
      <3> QED
        BY <2>1, <3>1, <3>2 DEF Inv, TypeOK
    <2>3. ConfigInv' /\ NothingInv'
      BY <2>1 DEF Inv, ConfigInv, NothingInv, Nothing
    <2>4. LoopInv' /\ AfterInv' /\ PodsInv'
      BY <2>1 DEF LoopInv, AfterInv, PodsInv, Loop, AfterLoop, Shutdown
    <2>5. PusherInv'
      BY <2>1 DEF Inv, PusherInv, BeforePusher, Nothing, Loop, PusherTold
    <2> QED
      BY <2>2, <2>3, <2>4, <2>5 DEF Inv
  <1> QED
    BY <1>1, <1>2

LEMMA RegisterQueueInv == Inv /\ RegisterQueue /\ UNCHANGED <<apiUp, starts>> => Inv'
  <1> SUFFICES ASSUME Inv, RegisterQueue, UNCHANGED <<apiUp, starts>> PROVE Inv'
    OBVIOUS
  <1>1. CASE Return
    BY <1>1, ReturnInv DEF Inv
  <1>2. CASE ~Return
    <2>1. /\ at = "register" /\ at' = "filter" /\ cfg.eventsMaxBytes > 0 /\ queue
          /\ enabled' = cfg.oomKilledEvents /\ next' = 1
          /\ UNCHANGED <<apiUp, starts, consumers, cfg, caught, noted, ready, queue,
                         filters, running, told, pods, pushing, pusher>>
      BY <1>2 DEF RegisterQueue, Fails, GoOn, senderVars, Inv, NothingInv, Nothing
    <2>2. /\ cfg.oomKilledEvents \in BOOLEAN /\ 1 \in Indices /\ Indices' = Indices
      BY <2>1, AcceptedFacts DEF Inv, Indices
    <2>3. TypeOK'
      BY <2>1, <2>2 DEF Inv, TypeOK, Startup
    <2>4. ConfigInv' /\ NothingInv'
      BY <2>1 DEF Inv, ConfigInv, NothingInv, Nothing
    <2>5. Created(0)' /\ Filtered(0)' = {}
      BY <2>1, <2>2 DEF Created, Filtered
    <2>6. LoopInv'
      BY <2>1, <2>2, <2>5 DEF Inv, NothingInv, Nothing, LoopInv, Loop
    <2>7. AfterInv' /\ PodsInv'
      BY <2>1 DEF AfterInv, PodsInv, AfterLoop, Shutdown
    <2>8. PusherInv'
      BY <2>1 DEF Inv, PusherInv, BeforePusher, Nothing, Loop, PusherTold
    <2> QED
      BY <2>3, <2>4, <2>6, <2>7, <2>8 DEF Inv
  <1> QED
    BY <1>1, <1>2

-----------------------------------------------------------------------------
(* The senders.                                                            *)

LEMMA StartFilterInv == Inv /\ StartFilter /\ UNCHANGED <<apiUp, starts>> => Inv'
  <1> SUFFICES ASSUME Inv, StartFilter, UNCHANGED <<apiUp, starts>> PROVE Inv'
    OBVIOUS
  <1>1. CASE Return
    BY <1>1, ReturnInv DEF Inv
  <1>2. CASE ~Return
    <2>1. /\ at = "filter" /\ at' \in {"sync", "subscribe"} /\ Sender.selector # "invalid"
          /\ filters' = filters \cup (IF Sender.selector = "none" THEN {} ELSE {next})
          /\ UNCHANGED <<apiUp, starts, consumers, cfg, next, caught, noted, ready, queue,
                         running, told, enabled, pods, pushing, pusher>>
      BY <1>2 DEF StartFilter, Fails, Step, GoOn, senderVars, podVars
    <2>2. /\ next \in Indices /\ Created(next - 1) /\ filters = Filtered(next - 1)
          /\ queue /\ running = 1..(next - 1) /\ told = {} /\ pods = "off"
          /\ ~pushing /\ ~ready
      BY <2>1 DEF Inv, LoopInv, Loop
    <2>3. Indices = 1..Len(cfg.senders) /\ Len(cfg.senders) \in Nat
      BY <2>1, AcceptedFacts DEF Inv
    <2>4. filters' = Filtered(next) /\ filters' \subseteq Indices
      BY <2>1, <2>2, <2>3 DEF Filtered, Sender
    <2>5. Created(next - 1)' /\ Filtered(next)' = Filtered(next) /\ Sender' = Sender
          /\ Indices' = Indices
      BY <2>1, <2>2 DEF Created, Filtered, Sender, Indices
    <2>6. TypeOK'
      BY <2>1, <2>2, <2>4, <2>5 DEF Inv, TypeOK, Startup
    <2>7. ConfigInv' /\ NothingInv'
      BY <2>1 DEF Inv, ConfigInv, NothingInv, Nothing
    <2>8. LoopInv'
      BY <2>1, <2>2, <2>4, <2>5 DEF LoopInv, Loop
    <2>9. AfterInv' /\ PodsInv'
      BY <2>1 DEF AfterInv, PodsInv, AfterLoop, Shutdown
    <2>10. PusherInv'
      BY <2>1 DEF Inv, PusherInv, BeforePusher, Nothing, Loop, PusherTold
    <2> QED
      BY <2>6, <2>7, <2>8, <2>9, <2>10 DEF Inv
  <1> QED
    BY <1>1, <1>2

LEMMA FilterSyncedInv == Inv /\ FilterSynced /\ UNCHANGED <<apiUp, starts>> => Inv'
  <1> SUFFICES ASSUME Inv, FilterSynced, UNCHANGED <<apiUp, starts>> PROVE Inv'
    OBVIOUS
  <1>1. /\ at = "sync" /\ at' = "subscribe"
        /\ UNCHANGED <<apiUp, starts, consumers, cfg, next, caught, noted, ready, queue,
                       filters, running, told, enabled, pods, pushing, pusher>>
    BY DEF FilterSynced, Step, GoOn, senderVars, podVars
  <1>2. LoopInv'
    BY <1>1 DEF Inv, LoopInv, Loop, Created, Filtered, Sender, Indices
  <1>3. TypeOK'
    BY <1>1 DEF Inv, TypeOK, Startup, Indices
  <1>4. ConfigInv' /\ NothingInv'
    BY <1>1 DEF Inv, ConfigInv, NothingInv, Nothing
  <1>5. AfterInv' /\ PodsInv'
    BY <1>1 DEF AfterInv, PodsInv, AfterLoop, Shutdown
  <1>6. PusherInv'
    BY <1>1 DEF Inv, PusherInv, BeforePusher, Nothing, Loop, PusherTold
  <1> QED
    BY <1>2, <1>3, <1>4, <1>5, <1>6 DEF Inv

LEMMA SubscribeInv == Inv /\ Subscribe /\ UNCHANGED <<apiUp, starts>> => Inv'
  <1> SUFFICES ASSUME Inv, Subscribe, UNCHANGED <<apiUp, starts>> PROVE Inv'
    OBVIOUS
  <1>1. CASE Return
    BY <1>1, ReturnInv DEF Inv
  <1>2. CASE ~Return
    <2>1. /\ at = "subscribe" /\ at' = "create"
          /\ consumers' = consumers \cup {Sender.name}
          /\ UNCHANGED <<apiUp, starts, cfg, next, caught, noted, ready, queue, filters,
                         running, told, enabled, pods, pushing, pusher>>
      BY <1>2 DEF Subscribe, Fails, GoOn, senderVars, podVars
    <2>2. /\ next \in Indices /\ Created(next - 1) /\ filters = Filtered(next)
          /\ queue /\ running = 1..(next - 1) /\ told = {} /\ pods = "off"
          /\ ~pushing /\ ~ready /\ Sender.selector # "invalid"
      BY <2>1 DEF Inv, LoopInv, Loop
    <2>3. Created(next - 1)' /\ Filtered(next)' = Filtered(next) /\ Sender' = Sender
          /\ Indices' = Indices
      BY <2>1, <2>2 DEF Created, Filtered, Sender, Indices
    <2>4. Sender.name \in UNION {Names(f) : f \in Files}
      <3>1. PICK f \in Files : cfg.senders = f.senders
        BY <2>1, AcceptedFacts DEF Inv
      <3>2. Sender.name \in Names(f)
        BY <2>2, <3>1 DEF Sender, Names, Indices
      <3> QED
        BY <3>2
    <2>5. TypeOK'
      <3>1. consumers' \subseteq UNION {Names(f) : f \in Files}
        BY <2>1, <2>4 DEF Inv, TypeOK
      <3> QED
        BY <2>1, <2>2, <2>3, <3>1 DEF Inv, TypeOK, Startup
    <2>6. ConfigInv' /\ NothingInv'
      BY <2>1 DEF Inv, ConfigInv, NothingInv, Nothing
    <2>7. LoopInv'
      BY <2>1, <2>2, <2>3 DEF LoopInv, Loop
    <2>8. AfterInv' /\ PodsInv'
      BY <2>1 DEF AfterInv, PodsInv, AfterLoop, Shutdown
    <2>9. PusherInv'
      BY <2>1 DEF Inv, PusherInv, BeforePusher, Nothing, Loop, PusherTold
    <2> QED
      BY <2>5, <2>6, <2>7, <2>8, <2>9 DEF Inv
  <1> QED
    BY <1>1, <1>2

LEMMA CreateSenderInv == Inv /\ CreateSender /\ UNCHANGED <<apiUp, starts>> => Inv'
  <1> SUFFICES ASSUME Inv, CreateSender, UNCHANGED <<apiUp, starts>> PROVE Inv'
    OBVIOUS
  <1>1. CASE Return
    BY <1>1, ReturnInv DEF Inv
  <1>2. CASE ~Return
    <2>1. /\ at = "create" /\ at' = AfterSender /\ Creates(Sender)
          /\ enabled' = (enabled \/ EnablesPods(Sender))
          /\ running' = running \cup {next} /\ next' = next + 1
          /\ UNCHANGED <<apiUp, starts, consumers, cfg, caught, noted, ready, queue,
                         filters, told, pods, pushing, pusher>>
      BY <1>2 DEF CreateSender, Fails, GoOn
    <2>2. /\ next \in Indices /\ Created(next - 1) /\ filters = Filtered(next)
          /\ queue /\ running = 1..(next - 1) /\ told = {} /\ pods = "off"
          /\ ~pushing /\ ~ready /\ Sender.selector # "invalid"
          /\ Sender.name \in consumers
      BY <2>1 DEF Inv, LoopInv, Loop
    <2>3. /\ Indices = 1..Len(cfg.senders) /\ Len(cfg.senders) \in Nat
          /\ cfg.senders[next] \in EventSenderConfig /\ Indices' = Indices
      BY <2>1, <2>2, AcceptedFacts DEF Inv, Indices
    <2>4. next \in Int /\ 1..next = (1..(next - 1)) \cup {next}
      BY <2>2, <2>3
    <2>5. Created(next - 1)'
      <3>1. \A i \in 1..next : /\ Creates(cfg.senders[i])
                               /\ cfg.senders[i].selector # "invalid"
                               /\ cfg.senders[i].name \in consumers
        BY <2>1, <2>2, <2>4 DEF Created, Sender
      <3>2. enabled = (cfg.oomKilledEvents
                        \/ \E i \in 1..(next - 1) : EnablesPods(cfg.senders[i]))
        BY <2>2 DEF Created
      <3>3. enabled' = (cfg.oomKilledEvents
                        \/ \E i \in 1..next : EnablesPods(cfg.senders[i]))
        BY <2>1, <2>4, <3>2, Zenon DEF Sender
      <3>4. cfg.eventsMaxBytes > 0
        BY <2>2 DEF Created
      <3>5. (next - 1)' = next
        BY <2>1, <2>4
      <3> QED
        BY <2>1, <3>1, <3>3, <3>4, <3>5, Zenon DEF Created
    <2>6. Filtered(next - 1)' = filters' /\ running' = 1..next
      BY <2>1, <2>2, <2>4 DEF Filtered
    <2>7. /\ filters \subseteq Indices /\ running' \subseteq Indices /\ next <= Len(cfg.senders)
          /\ next + 1 \in Indices \/ next = Len(cfg.senders)
      BY <2>2, <2>3, <2>4, <2>6 DEF Filtered
    <2>8. /\ at' \in {"filter", "prune"}
          /\ at' = "filter" => next' \in Indices'
          /\ at' = "prune" => next = Len(cfg.senders)
      BY <2>1, <2>3, <2>7 DEF AfterSender
    <2>9. TypeOK'
      <3>1. enabled' \in BOOLEAN /\ caught \in BOOLEAN /\ noted \in BOOLEAN /\ ready \in BOOLEAN
            /\ queue \in BOOLEAN /\ pushing \in BOOLEAN
        BY <2>1 DEF Inv, TypeOK, EnablesPods
      <3>2. \E f \in Files : cfg' = ConfigOf(f)
        BY <2>1 DEF Inv, ConfigInv
      <3>3. /\ apiUp \in BOOLEAN /\ starts \in 0..MaxStarts
            /\ consumers \subseteq UNION {Names(f) : f \in Files}
            /\ pods \in {"off", "syncing", "started", "reporting", "stopped"}
            /\ pusher \in {"none", "syncing", "spawned", "running", "ended"}
        BY DEF Inv, TypeOK
      <3> QED
        BY <2>1, <2>2, <2>3, <2>7, <2>8, <3>1, <3>2, <3>3 DEF TypeOK, Startup
    <2>10. ConfigInv' /\ NothingInv'
      BY <2>1, <2>8 DEF Inv, ConfigInv, NothingInv, Nothing
    <2>11. LoopInv'
      BY <2>1, <2>2, <2>4, <2>5, <2>6, <2>8 DEF LoopInv, Loop
    <2>12. AfterInv'
      <3> SUFFICES ASSUME at' = "prune" PROVE AfterInv'
        BY <2>8 DEF AfterInv, AfterLoop, Shutdown
      <3>1. Len(cfg.senders)' = (next - 1)' /\ Len(cfg.senders)' = next
        BY <2>1, <2>4, <2>8
      <3>2. Created(Len(cfg.senders))' /\ Filtered(Len(cfg.senders))' = filters'
        BY <2>5, <2>6, <3>1
      <3> QED
        BY <2>1, <2>2, <2>3, <2>6, <2>7, <2>8, <3>1, <3>2 DEF AfterInv, AfterLoop, Shutdown
    <2>13. PodsInv'
      BY <2>1, <2>2, <2>8 DEF PodsInv, AfterLoop, Shutdown
    <2>14. PusherInv'
      BY <2>1, <2>8 DEF Inv, PusherInv, BeforePusher, Nothing, Loop, PusherTold
    <2> QED
      BY <2>9, <2>10, <2>11, <2>12, <2>13, <2>14 DEF Inv
  <1> QED
    BY <1>1, <1>2

-----------------------------------------------------------------------------
(* After the senders.                                                      *)

\* What a step after the loop must see to: the rest stays as it is.
LEMMA Onward ==
    ASSUME Inv, at \in AfterLoop, at' \in AfterLoop \ {"prune"}, consumers = Names(cfg),
           UNCHANGED <<apiUp, starts, consumers, cfg, next, enabled>>,
           caught' \in BOOLEAN, noted' \in BOOLEAN, ready' \in BOOLEAN,
           ready' => at' = "wait" \/ at' \in Shutdown,
           \/ at \notin Shutdown /\ UNCHANGED <<queue, filters, running, told>>
           \/ /\ at' \in Shutdown /\ queue' \in BOOLEAN
              /\ filters' \subseteq Indices /\ running' \subseteq Indices
              /\ told' \subseteq Indices,
           pods' \in {"off", "syncing", "started", "reporting", "stopped"},
           pushing' \in BOOLEAN,
           pusher' \in {"none", "syncing", "spawned", "running", "ended"},
           PodsInv', PusherInv'
    PROVE  Inv'
  <1>1. at \notin {"off", "config"} /\ at' \notin {"off", "config"}
    BY DEF AfterLoop, Shutdown
  <1>2. ConfigInv'
    BY <1>1 DEF Inv, ConfigInv
  <1>3. AfterInv'
    <2>1. /\ Created(Len(cfg.senders)) /\ filters \subseteq Indices
          /\ running \subseteq Indices /\ told \subseteq Indices
          /\ at \notin Shutdown => /\ queue /\ running = Indices /\ told = {}
                                  /\ filters = Filtered(Len(cfg.senders))
      BY DEF Inv, AfterInv
    <2>2. Created(Len(cfg.senders))' /\ Indices' = Indices
          /\ Filtered(Len(cfg.senders))' = Filtered(Len(cfg.senders))
      BY <2>1 DEF Created, Filtered, Indices
    <2>3. consumers' = Names(cfg)'
      BY DEF Names
    <2> QED
      BY <2>1, <2>2, <2>3 DEF AfterInv
  <1>4. TypeOK'
    <2>1. /\ at' \in {"wait"} \cup Startup \cup Shutdown
          /\ at' \notin {"filter", "sync", "subscribe", "create"}
      BY DEF AfterLoop, Shutdown, Startup
    <2>2. /\ apiUp' \in BOOLEAN /\ starts' \in 0..MaxStarts /\ enabled' \in BOOLEAN
          /\ consumers' \subseteq UNION {Names(f) : f \in Files}
      BY DEF Inv, TypeOK
    <2>3. /\ \E f \in Files : cfg' = ConfigOf(f)
          /\ filters' \subseteq Indices' /\ running' \subseteq Indices'
          /\ told' \subseteq Indices' /\ queue' \in BOOLEAN
      BY <1>1, <1>3 DEF Inv, ConfigInv, AfterInv, TypeOK, Indices
    <2> QED
      BY <1>1, <2>1, <2>2, <2>3 DEF TypeOK
  <1>5. NothingInv' /\ LoopInv'
    BY DEF NothingInv, LoopInv, Nothing, Loop, AfterLoop, Shutdown
  <1> QED
    BY <1>2, <1>3, <1>4, <1>5 DEF Inv

LEMMA PruneInv == Inv /\ Prune /\ UNCHANGED <<apiUp, starts>> => Inv'
  <1> SUFFICES ASSUME Inv, Prune, UNCHANGED <<apiUp, starts>> PROVE Inv'
    OBVIOUS
  <1>1. at = "prune"
    BY DEF Prune, Fails, PruneStale, Step, GoOn
  <1>2. CASE Return
    BY <1>2, ReturnInv DEF Inv
  <1>3. CASE PruneStale
    <2>1. PICK name \in consumers \ Names(cfg) : consumers' = consumers \ {name}
      BY <1>3 DEF PruneStale
    <2>2. UNCHANGED <<apiUp, starts, at, cfg, next, caught, noted, ready, queue, filters,
                     running, told, enabled, pods, pushing, pusher>>
      BY <1>3 DEF PruneStale, process, senderVars, podVars
    <2>3. Indices = 1..Len(cfg.senders) /\ Indices' = Indices
      BY <1>1, <2>2, AcceptedFacts DEF Inv, Indices
    <2>4. TypeOK'
      BY <2>1, <2>2, <2>3 DEF Inv, TypeOK
    <2>5. Created(Len(cfg.senders)) => Created(Len(cfg.senders))'
      BY <2>1, <2>2, <2>3 DEF Created, Names, Indices
    <2>6. AfterInv'
      BY <1>1, <2>2, <2>3, <2>5 DEF Inv, AfterInv, AfterLoop, Filtered, Shutdown
    <2>7. ConfigInv' /\ NothingInv' /\ LoopInv'
      BY <1>1, <2>2 DEF Inv, ConfigInv, NothingInv, Nothing, LoopInv, Loop
    <2>8. PodsInv' /\ PusherInv'
      BY <1>1, <2>2 DEF Inv, PodsInv, PusherInv, AfterLoop, BeforePusher, Shutdown,
          PusherTold
    <2> QED
      BY <2>4, <2>6, <2>7, <2>8 DEF Inv
  <1>4. CASE Step("prune", "pods") /\ consumers \subseteq Names(cfg)
    <2>1. /\ at' = "pods"
          /\ UNCHANGED <<apiUp, starts, consumers, cfg, next, caught, noted, ready, queue,
                         filters, running, told, enabled, pods, pushing, pusher>>
      BY <1>4 DEF Step, GoOn, senderVars, podVars
    <2>2. consumers = Names(cfg)
      <3>1. Created(Len(cfg.senders)) /\ Indices = 1..Len(cfg.senders)
        BY <1>1, AcceptedFacts DEF Inv, AfterInv, AfterLoop
      <3>2. Names(cfg) \subseteq consumers
        BY <3>1 DEF Created, Names, Indices
      <3> QED
        BY <1>4, <3>2
    <2>3. PodsInv' /\ PusherInv'
      BY <1>1, <2>1 DEF Inv, PodsInv, PusherInv, AfterLoop, BeforePusher, Shutdown,
          PusherTold
    <2>4. /\ at \in AfterLoop \ Shutdown /\ at' \in AfterLoop \ {"prune"} /\ ~ready
      BY <1>1, <2>1 DEF Inv, AfterInv, AfterLoop, Shutdown
    <2>5. TypeOK
      BY DEF Inv
    <2> QED
      BY <2>1, <2>2, <2>3, <2>4, <2>5, Onward DEF TypeOK
  <1> QED
    BY <1>2, <1>3, <1>4 DEF Prune, Fails

\* The pod informer, the event pusher and readiness.
LEMMA GoReadyInv ==
    ASSUME Inv, UNCHANGED <<apiUp, starts>>,
           \/ StartPods \/ PodsSynced \/ StartPusher \/ WaitForStart
           \/ WatchOOMKills \/ SetReady
    PROVE  Inv'
  <1>1. CASE Return
    BY <1>1, ReturnInv DEF Inv
  <1>2. /\ caught \in BOOLEAN /\ noted \in BOOLEAN /\ ready \in BOOLEAN /\ queue \in BOOLEAN
        /\ pods \in {"off", "syncing", "started", "reporting", "stopped"}
        /\ pushing \in BOOLEAN
        /\ pusher \in {"none", "syncing", "spawned", "running", "ended"}
    BY DEF Inv, TypeOK
  <1>3. /\ at \in AfterLoop \ {"prune"} =>
            /\ consumers = Names(cfg) /\ (ready => at = "wait" \/ at \in Shutdown)
            /\ filters \subseteq Indices /\ running \subseteq Indices
            /\ told \subseteq Indices
    BY DEF Inv, AfterInv
  <1>4. CASE StartPods /\ ~Return
    <2>1. /\ at = "pods" /\ at' \in {"pods sync", "pusher"}
          /\ pods' = IF enabled THEN "syncing" ELSE pods
          /\ at' = "pods sync" <=> enabled
          /\ UNCHANGED <<consumers, cfg, next, enabled, caught, noted, ready, queue,
                         filters, running, told, pushing, pusher>>
      BY <1>4 DEF StartPods, Fails, GoOn, Step, senderVars, podVars, PodsNeeded
    <2>2. PodsInv'
      BY <2>1, <1>2 DEF Inv, PodsInv, AfterLoop, Shutdown
    <2>3. PusherInv'
      BY <2>1, <1>2 DEF Inv, PusherInv, BeforePusher, Nothing, Loop, PusherTold
    <2>4. at \in AfterLoop \ {"prune"} /\ at' \in AfterLoop \ {"prune"}
      BY <2>1 DEF AfterLoop, Shutdown
    <2> QED
      BY <1>2, <1>3, <2>1, <2>2, <2>3, <2>4, Onward DEF Shutdown
  <1>5. CASE PodsSynced /\ ~Return
    <2>1. /\ at = "pods sync" /\ at' = "pusher" /\ pods' = "started"
          /\ UNCHANGED <<consumers, cfg, next, enabled, caught, noted, ready, queue,
                         filters, running, told, pushing, pusher>>
      BY <1>5 DEF PodsSynced, Fails, GoOn, Step, senderVars, podVars
    <2>2. PodsInv'
      BY <2>1, <1>2 DEF Inv, PodsInv, AfterLoop, Shutdown
    <2>3. PusherInv'
      BY <2>1, <1>2 DEF Inv, PusherInv, BeforePusher, Nothing, Loop, PusherTold
    <2>4. at \in AfterLoop \ {"prune"} /\ at' \in AfterLoop \ {"prune"}
      BY <2>1 DEF AfterLoop, Shutdown
    <2> QED
      BY <1>2, <1>3, <2>1, <2>2, <2>3, <2>4, Onward DEF Shutdown
  <1>6. CASE StartPusher /\ ~Return
    <2>1. /\ at = "pusher" /\ at' = "pusher sync" /\ pusher' = "syncing"
          /\ UNCHANGED <<consumers, cfg, next, enabled, caught, noted, ready, queue,
                         filters, running, told, pods, pushing>>
      BY <1>6 DEF StartPusher, Fails, GoOn, Step, senderVars, podVars
    <2>2. PodsInv'
      BY <2>1, <1>2 DEF Inv, PodsInv, AfterLoop, Shutdown
    <2>3. PusherInv'
      BY <2>1, <1>2 DEF Inv, PusherInv, BeforePusher, Nothing, Loop, PusherTold
    <2>4. at \in AfterLoop \ {"prune"} /\ at' \in AfterLoop \ {"prune"}
      BY <2>1 DEF AfterLoop, Shutdown
    <2> QED
      BY <1>2, <1>3, <2>1, <2>2, <2>3, <2>4, Onward DEF Shutdown
  <1>7. CASE WaitForStart /\ ~Return
    <2>1. /\ at = "pusher sync" /\ at' = "oom" /\ pusher # "syncing"
          /\ UNCHANGED <<consumers, cfg, next, enabled, caught, noted, ready, queue, filters,
                         running, told, pods, pushing, pusher>>
      BY <1>7 DEF WaitForStart, Fails, GoOn, Step, senderVars, podVars
    <2>2. PodsInv'
      BY <2>1, <1>2 DEF Inv, PodsInv, AfterLoop, Shutdown
    <2>3. PusherInv'
      BY <2>1, <1>2 DEF Inv, PusherInv, BeforePusher, Nothing, Loop, PusherTold
    <2>4. at \in AfterLoop \ {"prune"} /\ at' \in AfterLoop \ {"prune"}
      BY <2>1 DEF AfterLoop, Shutdown
    <2> QED
      BY <1>2, <1>3, <2>1, <2>2, <2>3, <2>4, Onward DEF Shutdown
  <1>8. CASE WatchOOMKills /\ ~Return
    <2>1. /\ at = "oom" /\ at' = "set ready"
          /\ pods' = IF cfg.oomKilledEvents THEN "reporting" ELSE pods
          /\ UNCHANGED <<consumers, cfg, next, enabled, caught, noted, ready, queue,
                         filters, running, told, pushing, pusher>>
      BY <1>8 DEF WatchOOMKills, Fails, GoOn, Step, senderVars, podVars
    <2>2. PodsInv'
      BY <2>1, <1>2 DEF Inv, PodsInv, AfterLoop, Shutdown
    <2>3. PusherInv'
      BY <2>1, <1>2 DEF Inv, PusherInv, BeforePusher, Nothing, Loop, PusherTold
    <2>4. at \in AfterLoop \ {"prune"} /\ at' \in AfterLoop \ {"prune"}
      BY <2>1 DEF AfterLoop, Shutdown
    <2> QED
      BY <1>2, <1>3, <2>1, <2>2, <2>3, <2>4, Onward DEF Shutdown
  <1>9. CASE SetReady /\ ~Return
    <2>1. /\ at = "set ready" /\ at' = "wait" /\ ready' = TRUE
          /\ UNCHANGED <<consumers, cfg, next, enabled, caught, noted, queue, filters,
                         running, told, pods, pushing, pusher>>
      BY <1>9 DEF SetReady, Fails, GoOn, Step, senderVars, podVars
    <2>2. PodsInv'
      BY <2>1, <1>2 DEF Inv, PodsInv, AfterLoop, Shutdown
    <2>3. PusherInv'
      BY <2>1, <1>2 DEF Inv, PusherInv, BeforePusher, Nothing, Loop, PusherTold
    <2>4. at \in AfterLoop \ {"prune"} /\ at' \in AfterLoop \ {"prune"}
      BY <2>1 DEF AfterLoop, Shutdown
    <2> QED
      BY <1>2, <1>3, <2>1, <2>2, <2>3, <2>4, Onward DEF Shutdown
  <1> QED
    BY <1>1, <1>4, <1>5, <1>6, <1>7, <1>8, <1>9

-----------------------------------------------------------------------------
(* The shutdown.                                                           *)

\* The parts are stopped one after the other.
LEMMA StopInv ==
    ASSUME Inv, UNCHANGED <<apiUp, starts>>,
           \/ SignalSeen \/ StopSenders \/ StopFilters \/ StopPods \/ PodsStopped
           \/ StopPusher \/ PusherStopped \/ StopQueue \/ StopMetrics
    PROVE  Inv'
  <1>1. /\ caught \in BOOLEAN /\ noted \in BOOLEAN /\ ready \in BOOLEAN /\ queue \in BOOLEAN
        /\ pods \in {"off", "syncing", "started", "reporting", "stopped"}
        /\ pushing \in BOOLEAN
        /\ pusher \in {"none", "syncing", "spawned", "running", "ended"}
    BY DEF Inv, TypeOK
  <1>2. /\ at \in AfterLoop \ {"prune"} =>
            /\ consumers = Names(cfg) /\ (ready => at = "wait" \/ at \in Shutdown)
            /\ filters \subseteq Indices /\ running \subseteq Indices
            /\ told \subseteq Indices
    BY DEF Inv, AfterInv
  <1>3. CASE SignalSeen
    <2>1. /\ at = "wait" /\ at' = "stop senders" /\ caught' = FALSE
          /\ UNCHANGED <<consumers, cfg, next, enabled, noted, ready, queue, filters,
                         running, told, pods, pushing, pusher>>
      BY <1>3 DEF SignalSeen, Fails, GoOn, Step, senderVars, podVars
    <2>2. PodsInv'
      BY <2>1, <1>1 DEF Inv, PodsInv, AfterLoop, Shutdown
    <2>3. PusherInv'
      BY <2>1, <1>1 DEF Inv, PusherInv, BeforePusher, Nothing, Loop, PusherTold
    <2>4. at \in AfterLoop \ {"prune"} /\ at' \in AfterLoop \ {"prune"}
      BY <2>1 DEF AfterLoop, Shutdown
    <2> QED
      BY <1>1, <1>2, <2>1, <2>2, <2>3, <2>4, Onward DEF Shutdown
  <1>4. CASE StopSenders
    <2>1. /\ at = "stop senders" /\ at' = "stop filters" /\ told' = Indices
          /\ UNCHANGED <<consumers, cfg, next, enabled, caught, noted, ready, queue,
                         filters, running, pods, pushing, pusher>>
      BY <1>4 DEF StopSenders, Fails, GoOn, Step, senderVars, podVars
    <2>2. PodsInv'
      BY <2>1, <1>1 DEF Inv, PodsInv, AfterLoop, Shutdown
    <2>3. PusherInv'
      BY <2>1, <1>1 DEF Inv, PusherInv, BeforePusher, Nothing, Loop, PusherTold
    <2>4. at \in AfterLoop \ {"prune"} /\ at' \in AfterLoop \ {"prune"}
      BY <2>1 DEF AfterLoop, Shutdown
    <2> QED
      BY <1>1, <1>2, <2>1, <2>2, <2>3, <2>4, Onward DEF Shutdown
  <1>5. CASE StopFilters
    <2>1. /\ at = "stop filters" /\ at' = "stop pods" /\ filters' = {}
          /\ UNCHANGED <<consumers, cfg, next, enabled, caught, noted, ready, queue,
                         running, told, pods, pushing, pusher>>
      BY <1>5 DEF StopFilters, Fails, GoOn, Step, senderVars, podVars
    <2>2. PodsInv'
      BY <2>1, <1>1 DEF Inv, PodsInv, AfterLoop, Shutdown
    <2>3. PusherInv'
      BY <2>1, <1>1 DEF Inv, PusherInv, BeforePusher, Nothing, Loop, PusherTold
    <2>4. at \in AfterLoop \ {"prune"} /\ at' \in AfterLoop \ {"prune"}
      BY <2>1 DEF AfterLoop, Shutdown
    <2> QED
      BY <1>1, <1>2, <2>1, <2>2, <2>3, <2>4, Onward DEF Shutdown
  <1>6. CASE StopPods
    <2>1. /\ at = "stop pods" /\ at' = "pods stopping" /\ pods' = "stopped"
          /\ UNCHANGED <<consumers, cfg, next, enabled, caught, noted, ready, queue,
                         filters, running, told, pushing, pusher>>
      BY <1>6 DEF StopPods, Fails, GoOn, Step, senderVars, podVars
    <2>2. PodsInv'
      BY <2>1, <1>1 DEF Inv, PodsInv, AfterLoop, Shutdown
    <2>3. PusherInv'
      BY <2>1, <1>1 DEF Inv, PusherInv, BeforePusher, Nothing, Loop, PusherTold
    <2>4. at \in AfterLoop \ {"prune"} /\ at' \in AfterLoop \ {"prune"}
      BY <2>1 DEF AfterLoop, Shutdown
    <2> QED
      BY <1>1, <1>2, <2>1, <2>2, <2>3, <2>4, Onward DEF Shutdown
  <1>7. CASE PodsStopped
    <2>1. /\ at = "pods stopping" /\ at' = "stop pusher" /\ ~pushing
          /\ UNCHANGED <<consumers, cfg, next, enabled, caught, noted, ready, queue, filters,
                         running, told, pods, pushing, pusher>>
      BY <1>7 DEF PodsStopped, Fails, GoOn, Step, senderVars, podVars
    <2>2. PodsInv'
      BY <2>1, <1>1 DEF Inv, PodsInv, AfterLoop, Shutdown
    <2>3. PusherInv'
      BY <2>1, <1>1 DEF Inv, PusherInv, BeforePusher, Nothing, Loop, PusherTold
    <2>4. at \in AfterLoop \ {"prune"} /\ at' \in AfterLoop \ {"prune"}
      BY <2>1 DEF AfterLoop, Shutdown
    <2> QED
      BY <1>1, <1>2, <2>1, <2>2, <2>3, <2>4, Onward DEF Shutdown
  <1>8. CASE StopPusher
    <2>1. /\ at = "stop pusher" /\ at' = "pusher stopping"
          /\ UNCHANGED <<consumers, cfg, next, enabled, caught, noted, ready, queue, filters,
                         running, told, pods, pushing, pusher>>
      BY <1>8 DEF StopPusher, Fails, GoOn, Step, senderVars, podVars
    <2>2. PodsInv'
      BY <2>1, <1>1 DEF Inv, PodsInv, AfterLoop, Shutdown
    <2>3. PusherInv'
      BY <2>1, <1>1 DEF Inv, PusherInv, BeforePusher, Nothing, Loop, PusherTold
    <2>4. at \in AfterLoop \ {"prune"} /\ at' \in AfterLoop \ {"prune"}
      BY <2>1 DEF AfterLoop, Shutdown
    <2> QED
      BY <1>1, <1>2, <2>1, <2>2, <2>3, <2>4, Onward DEF Shutdown
  <1>9. CASE PusherStopped
    <2>1. /\ at = "pusher stopping" /\ at' = "stop queue"
          /\ UNCHANGED <<consumers, cfg, next, enabled, caught, noted, ready, queue, filters,
                         running, told, pods, pushing, pusher>>
      BY <1>9 DEF PusherStopped, Fails, GoOn, Step, senderVars, podVars
    <2>2. PodsInv'
      BY <2>1, <1>1 DEF Inv, PodsInv, AfterLoop, Shutdown
    <2>3. PusherInv'
      BY <2>1, <1>1 DEF Inv, PusherInv, BeforePusher, Nothing, Loop, PusherTold
    <2>4. at \in AfterLoop \ {"prune"} /\ at' \in AfterLoop \ {"prune"}
      BY <2>1 DEF AfterLoop, Shutdown
    <2> QED
      BY <1>1, <1>2, <2>1, <2>2, <2>3, <2>4, Onward DEF Shutdown
  <1>10. CASE StopQueue
    <2>1. /\ at = "stop queue" /\ at' = "stop metrics" /\ queue' = FALSE
          /\ UNCHANGED <<consumers, cfg, next, enabled, caught, noted, ready, filters,
                         running, told, pods, pushing, pusher>>
      BY <1>10 DEF StopQueue, Fails, GoOn, Step, senderVars, podVars
    <2>2. PodsInv'
      BY <2>1, <1>1 DEF Inv, PodsInv, AfterLoop, Shutdown
    <2>3. PusherInv'
      BY <2>1, <1>1 DEF Inv, PusherInv, BeforePusher, Nothing, Loop, PusherTold
    <2>4. at \in AfterLoop \ {"prune"} /\ at' \in AfterLoop \ {"prune"}
      BY <2>1 DEF AfterLoop, Shutdown
    <2> QED
      BY <1>1, <1>2, <2>1, <2>2, <2>3, <2>4, Onward DEF Shutdown
  <1>11. CASE StopMetrics
    <2>1. /\ at = "stop metrics" /\ at' = "wait group"
          /\ UNCHANGED <<consumers, cfg, next, enabled, caught, noted, ready, queue, filters,
                         running, told, pods, pushing, pusher>>
      BY <1>11 DEF StopMetrics, Fails, GoOn, Step, senderVars, podVars
    <2>2. PodsInv'
      BY <2>1, <1>1 DEF Inv, PodsInv, AfterLoop, Shutdown
    <2>3. PusherInv'
      BY <2>1, <1>1 DEF Inv, PusherInv, BeforePusher, Nothing, Loop, PusherTold
    <2>4. at \in AfterLoop \ {"prune"} /\ at' \in AfterLoop \ {"prune"}
      BY <2>1 DEF AfterLoop, Shutdown
    <2> QED
      BY <1>1, <1>2, <2>1, <2>2, <2>3, <2>4, Onward DEF Shutdown
  <1> QED
    BY <1>3, <1>4, <1>5, <1>6, <1>7, <1>8, <1>9, <1>10, <1>11

-----------------------------------------------------------------------------
(* The world and the goroutines.                                           *)

\* A step that changes nothing but the senders that run, the informer's handler
\* and the event pusher.
LEMMA GoroutineKeeps ==
    ASSUME Inv, Others, running' \subseteq running,
           running' = running \/ at \in Shutdown,
           pushing' \in BOOLEAN,
           pusher' \in {"none", "syncing", "spawned", "running", "ended"},
           PusherInv', pushing' => pushing \/ (at \in AfterLoop /\ pods = "reporting")
    PROVE  Inv'
  <1>1. UNCHANGED <<apiUp, consumers, starts, at, cfg, next, caught, noted, ready, queue,
                   filters, told, enabled, pods>>
    BY DEF Others
  <1>2. ConfigInv'
    BY <1>1 DEF Inv, ConfigInv
  <1>3. NothingInv'
    BY <1>1 DEF Inv, NothingInv, Nothing, AfterLoop, Shutdown
  <1>4. LoopInv'
    <2> SUFFICES ASSUME at \in Loop PROVE LoopInv'
      BY <1>1 DEF LoopInv
    <2>1. running' = running /\ ~pushing'
      BY DEF Inv, LoopInv, Loop, AfterLoop, Shutdown
    <2> QED
      BY <1>1, <2>1 DEF Inv, LoopInv, Created, Filtered, Sender, Indices
  <1>5. AfterInv'
    <2> SUFFICES ASSUME at \in AfterLoop PROVE AfterInv'
      BY <1>1 DEF AfterInv
    <2>1. /\ Created(Len(cfg.senders)) = Created(Len(cfg.senders))'
          /\ Filtered(Len(cfg.senders)) = Filtered(Len(cfg.senders))'
          /\ Indices = Indices' /\ Names(cfg) = Names(cfg)'
      BY <1>1 DEF Created, Filtered, Indices, Names
    <2> QED
      BY <1>1, <2>1 DEF Inv, AfterInv
  <1>6. PodsInv'
    BY <1>1 DEF Inv, PodsInv
  <1>7. TypeOK'
    BY <1>1 DEF Inv, TypeOK, Indices
  <1> QED
    BY <1>2, <1>3, <1>4, <1>5, <1>6, <1>7 DEF Inv

LEMMA GoroutineInv ==
    ASSUME Inv, SenderReturns \/ Push \/ PushReturns \/ RunPusher
    PROVE  Inv'
  <1>1. /\ pushing \in BOOLEAN
        /\ pusher \in {"none", "syncing", "spawned", "running", "ended"}
    BY DEF Inv, TypeOK
  <1>2. CASE SenderReturns
    <2>1. PICK i \in running \cap told : running' = running \ {i}
      BY <1>2 DEF SenderReturns
    <2>2. Others /\ UNCHANGED <<pushing, pusher>>
      BY <1>2 DEF SenderReturns
    <2>3. at \in Shutdown
      <3>1. told # {} /\ at \notin Nothing /\ at \notin Loop
        BY <2>1 DEF Inv, NothingInv, LoopInv
      <3>2. at \in AfterLoop
        BY <3>1 DEF Inv, TypeOK, Nothing, Loop, AfterLoop, Startup, Shutdown
      <3> QED
        BY <3>1, <3>2 DEF Inv, AfterInv
    <2>4. PusherInv'
      BY <2>2 DEF Inv, PusherInv, Others, PusherTold
    <2> QED
      BY <1>1, <2>1, <2>2, <2>3, <2>4, GoroutineKeeps
  <1>3. CASE Push
    <2>1. /\ pods = "reporting" /\ pushing' = TRUE /\ Others
          /\ UNCHANGED <<running, pusher>>
      BY <1>3 DEF Push
    <2>2. at \in AfterLoop
      <3>1. at \notin Nothing /\ at \notin Loop
        BY <2>1 DEF Inv, NothingInv, LoopInv
      <3> QED
        BY <3>1 DEF Inv, TypeOK, Nothing, Loop, AfterLoop, Startup, Shutdown
    <2>3. PusherInv'
      BY <2>1 DEF Inv, PusherInv, Others, PusherTold
    <2> QED
      BY <1>1, <2>1, <2>2, <2>3, GoroutineKeeps
  <1>4. CASE PushReturns
    <2>1. pushing' = FALSE /\ Others /\ UNCHANGED <<running, pusher>>
      BY <1>4 DEF PushReturns
    <2>2. PusherInv'
      BY <2>1 DEF Inv, PusherInv, Others, PusherTold
    <2> QED
      BY <1>1, <2>1, <2>2, GoroutineKeeps
  <1>5. CASE RunPusher
    <2>1. Others /\ UNCHANGED <<running, pushing>>
      BY <1>5 DEF RunPusher
    <2>2. PusherInv' /\ pusher' \in {"none", "syncing", "spawned", "running", "ended"}
      BY <1>5, <2>1 DEF RunPusher, Inv, PusherInv, Others, PusherTold
    <2> QED
      BY <1>1, <2>1, <2>2, GoroutineKeeps
  <1> QED
    BY <1>2, <1>3, <1>4, <1>5

\* Nothing changes but the API and what is known of signals.
LEMMA WorldInv ==
    ASSUME Inv, apiUp' \in BOOLEAN, noted' \in BOOLEAN,
           UNCHANGED <<consumers, starts, at, cfg, next, caught, ready, queue, filters,
                       running, told, enabled, pods, pushing, pusher>>
    PROVE  Inv'
  <1>1. TypeOK'
    BY DEF Inv, TypeOK, Indices
  <1>2. ConfigInv' /\ NothingInv'
    BY DEF Inv, ConfigInv, NothingInv
  <1>3. LoopInv'
    BY DEF Inv, LoopInv, Created, Filtered, Sender, Indices
  <1>4. AfterInv'
    <2>1. /\ Created(Len(cfg.senders)) = Created(Len(cfg.senders))'
          /\ Filtered(Len(cfg.senders)) = Filtered(Len(cfg.senders))'
          /\ Indices = Indices' /\ Names(cfg) = Names(cfg)'
      BY DEF Created, Filtered, Indices, Names
    <2> QED
      BY <2>1 DEF Inv, AfterInv
  <1>5. PodsInv' /\ PusherInv'
    BY DEF Inv, PodsInv, PusherInv, PusherTold
  <1> QED
    BY <1>1, <1>2, <1>3, <1>4, <1>5 DEF Inv

LEMMA NextInv == Inv /\ [Next]_vars => Inv'
  <1> SUFFICES ASSUME Inv, [Next]_vars PROVE Inv'
    OBVIOUS
  <1>1. TypeOK /\ apiUp \in BOOLEAN /\ noted \in BOOLEAN
    BY DEF Inv, TypeOK
  <1>2. CASE UNCHANGED vars
    BY <1>1, <1>2, WorldInv DEF vars, process, senderVars, podVars
  <1>3. CASE APIChanges
    BY <1>1, <1>3, WorldInv DEF APIChanges, process, senderVars, podVars
  <1>4. CASE Start
    BY <1>4, StartInv
  <1>5. CASE Crash
    BY <1>1, <1>5, ReturnInv DEF Crash
  <1>6. CASE Signal
    BY <1>1, <1>6, ReturnInv, WorldInv DEF Signal, senderVars, podVars
  <1>7. CASE Starting /\ UNCHANGED <<apiUp, starts>>
    BY <1>7, LoadInv, EarlyInv, StartQueueInv, RegisterQueueInv, StartFilterInv,
       FilterSyncedInv, SubscribeInv, CreateSenderInv, PruneInv, GoReadyInv DEF Starting
  <1>8. CASE Stopping /\ UNCHANGED <<apiUp, starts>>
    BY <1>1, <1>8, StopInv, ReturnInv DEF Stopping, WaitGroup, Fails
  <1>9. CASE SenderReturns \/ Push \/ PushReturns \/ RunPusher
    BY <1>9, GoroutineInv
  <1> QED
    BY <1>2, <1>3, <1>4, <1>5, <1>6, <1>7, <1>8, <1>9 DEF Next, run

\* Wherever run is, it has done what comes before, and what it runs on was
\* accepted.
THEOREM LifecycleInvariant == Spec => []Inv
  BY InitInv, NextInv, PTL DEF Spec

-----------------------------------------------------------------------------
(* What follows.                                                           *)

\* run, the parts it starts and the subscriptions keep to their types.
THEOREM LifecycleTypeCorrect == Spec => []TypeOK
  <1>1. Inv => TypeOK
    BY DEF Inv
  <1> QED
    BY <1>1, LifecycleInvariant, PTL

\* Where run is, by what has been done.
LEMMA WhereRunIs ==
    ASSUME Inv
    PROVE  /\ at \in Nothing \/ at \in Loop \/ at \in AfterLoop
           /\ pusher # "none" => at \in AfterLoop \ {"prune"}
           /\ ready => at = "wait" \/ at \in Shutdown
           /\ pushing => at \in AfterLoop
  <1>1. at \in Nothing \/ at \in Loop \/ at \in AfterLoop
    BY DEF Inv, TypeOK, Nothing, Loop, AfterLoop, Startup, Shutdown
  <1>2. pusher # "none" => at \in AfterLoop \ {"prune"}
    BY <1>1 DEF Inv, PusherInv, BeforePusher
  <1>3. ready => at = "wait" \/ at \in Shutdown
    BY <1>1 DEF Inv, NothingInv, LoopInv, AfterInv
  <1>4. pushing => at \in AfterLoop
    BY <1>1 DEF Inv, NothingInv, LoopInv
  <1> QED
    BY <1>1, <1>2, <1>3, <1>4

\* While anything can be published, the subscriptions are those of the
\* configured senders: run subscribes and prunes before it starts the pusher.
THEOREM SubscribedBeforePublished == Spec => []SubscribedFirst
  <1>1. Inv => SubscribedFirst
    BY WhereRunIs DEF Inv, AfterInv, SubscribedFirst
  <1> QED
    BY <1>1, LifecycleInvariant, PTL

\* The handler of OnOOMKilled is in Push only between the start of the pusher
\* and its stop: run stops the pod informer first and waits for it.
THEOREM PushesBetweenStartAndStop == Spec => []NoPushAfterStop
  <1>1. Inv => NoPushAfterStop
    <2> SUFFICES ASSUME Inv, pushing
                 PROVE  pusher \in {"spawned", "running"} /\ ~PusherTold
      BY DEF NoPushAfterStop
    <2>1. at \in AfterLoop
      BY WhereRunIs
    <2>2. at \in {"set ready", "wait", "stop senders", "stop filters", "stop pods",
                 "pods stopping"}
      BY <2>1 DEF Inv, PodsInv, AfterLoop, Shutdown
    <2> QED
      BY <2>2 DEF Inv, PusherInv, BeforePusher, Nothing, Loop, PusherTold
  <1> QED
    BY <1>1, LifecycleInvariant, PTL

\* Until the shutdown, a process that is ready has everything that is
\* configured running.
THEOREM ReadyServes == Spec => []ReadyMeansServing
  <1>1. Inv => ReadyMeansServing
    <2> SUFFICES ASSUME Inv, ready, at = "wait" PROVE ReadyMeansServing
      BY DEF ReadyMeansServing
    <2>1. Indices = 1..Len(cfg.senders) /\ cfg.oomKilledEvents \in BOOLEAN
      BY AcceptedFacts DEF Inv
    <2>2. /\ queue /\ running = Indices /\ told = {} /\ filters = Filtered(Len(cfg.senders))
          /\ Created(Len(cfg.senders))
      BY DEF Inv, AfterInv, AfterLoop, Shutdown
    <2>3. filters = {i \in Indices : cfg.senders[i].selector # "none"}
      BY <2>1, <2>2 DEF Filtered
    <2>4. pusher \in {"spawned", "running"}
      BY DEF Inv, PusherInv, BeforePusher, Nothing, Loop, PusherTold
    <2>5. pods = IF cfg.oomKilledEvents THEN "reporting"
                 ELSE IF enabled THEN "started" ELSE "off"
      BY DEF Inv, PodsInv, AfterLoop
    <2>6. enabled = (cfg.oomKilledEvents \/ \E i \in Indices : EnablesPods(cfg.senders[i]))
      BY <2>1, <2>2, Zenon DEF Created
    <2> QED
      BY <2>1, <2>2, <2>3, <2>4, <2>5, <2>6 DEF ReadyMeansServing
  <1> QED
    BY <1>1, LifecycleInvariant, PTL

\* What run becomes ready on satisfies all the checks of its configuration.
THEOREM ReadyOnSoundConfig == Spec => []ReadyIsSound
  <1>1. Inv => ReadyIsSound
    <2> SUFFICES ASSUME Inv, ready PROVE Sound(cfg)
      BY DEF ReadyIsSound
    <2>1. at \in AfterLoop /\ at \notin {"off", "config"}
      BY WhereRunIs DEF AfterLoop, Shutdown
    <2>2. Valid(cfg) /\ \E f \in Files : cfg = ConfigOf(f)
      BY <2>1 DEF Inv, ConfigInv
    <2>3. /\ cfg \in Config /\ cfg.logLevel # "" /\ cfg.logFormat # ""
          /\ cfg.eventsMaxAge # 0 /\ cfg.eventsMaxBytes # 0 /\ cfg.retention # 0
      BY <2>2, ConfigOfFacts
    <2>4. Indices = 1..Len(cfg.senders) /\ Created(Len(cfg.senders))
      BY <2>1, AcceptedFacts DEF Inv, AfterInv
    <2>5. /\ cfg.logLevel \in {"debug", "info", "warn", "error"}
          /\ cfg.logFormat \in {"json", "text"}
      BY <2>2, <2>3 DEF Valid, ValidGlobal
    <2>6. cfg.eventsMaxAge > 0 /\ cfg.eventsMaxBytes > 0 /\ cfg.retention > 0
      <3>1. /\ cfg.eventsMaxAge \in -1..1 /\ cfg.eventsMaxBytes \in -1..1
            /\ cfg.retention \in -1..1
        BY <2>3 DEF Config
      <3>2. cfg.eventsMaxAge >= 0 /\ cfg.eventsMaxBytes >= 0 /\ cfg.retention >= 0
        BY <2>2 DEF Valid, ValidQueue
      <3>3. \A x \in -1..1 : x >= 0 /\ x # 0 => x > 0
        OBVIOUS
      <3> QED
        BY <2>3, <3>1, <3>2, <3>3, Zenon
    <2>7. /\ cfg.senders # <<>>
          /\ \A i \in Indices : cfg.senders[i].name # "" /\ cfg.senders[i].type # ""
          /\ \A i \in Indices : \A j \in 1..(i - 1) :
                cfg.senders[j].name # cfg.senders[i].name
      BY <2>2 DEF Valid, ValidSenders, Indices
    <2>8. \A i, j \in Indices : i # j => cfg.senders[i].name # cfg.senders[j].name
      <3> SUFFICES ASSUME NEW i \in Indices, NEW j \in Indices, i # j
                   PROVE  cfg.senders[i].name # cfg.senders[j].name
        OBVIOUS
      <3>1. i \in 1..(j - 1) \/ j \in 1..(i - 1)
        BY <2>4
      <3> QED
        BY <2>7, <3>1
    <2>9. ASSUME NEW i \in Indices
          PROVE  LET s == cfg.senders[i]
                 IN  /\ s.type = "loki" /\ s.url /\ s.selector # "invalid"
                     /\ s.hook => /\ s.script = "loads"
                                  /\ s.onError \in {"", "use-default", "skip", "fail"}
      <3>1. Creates(cfg.senders[i]) /\ cfg.senders[i].selector # "invalid"
        BY <2>4 DEF Created
      <3> QED
        BY <3>1 DEF Creates, Registered, Parses, ValidHook, NewSender,
            NewHookExecutor
    <2> QED
      BY <2>5, <2>6, <2>7, <2>8, <2>9 DEF Sound, Indices
  <1> QED
    BY <1>1, LifecycleInvariant, PTL

\* Only Prune deletes subscriptions, only those of no configured sender, and
\* only when every sender has been created.
THEOREM OnlyStaleArePruned == Spec => SubscriptionsKept
  <1> DEFINE A == \A name \in consumers \ consumers' :
                        name \notin Names(cfg) /\ running = Indices
  <1>1. Inv /\ [Next]_vars => [A]_vars
    <2> SUFFICES ASSUME Inv, [Next]_vars, consumers' # consumers,
                        NEW name \in consumers \ consumers'
                 PROVE  name \notin Names(cfg) /\ running = Indices
      BY DEF vars
    <2>1. CASE PruneStale
      <3>1. at = "prune" /\ name \notin Names(cfg)
        BY <2>1 DEF PruneStale
      <3> QED
        BY <3>1 DEF Inv, AfterInv, AfterLoop, Shutdown
    <2>2. CASE ~PruneStale
      <3>1. consumers \subseteq consumers'
        BY <2>2 DEF Next, vars, process, APIChanges, Start, Crash, Signal, Return, run,
           Starting, Stopping, LoadConfig, CreateClient, StartMetrics, NotifyContext,
           StartQueue, RegisterQueue, StartFilter, FilterSynced, Subscribe,
           CreateSender, Prune,
           StartPods, PodsSynced, StartPusher, WaitForStart, WatchOOMKills, SetReady,
           SignalSeen, StopSenders, StopFilters, StopPods, PodsStopped, StopPusher,
           PusherStopped, StopQueue, StopMetrics, WaitGroup, Step, Fails,
           SenderReturns, Push, PushReturns, RunPusher, Others
      <3> QED
        BY <3>1
    <2> QED
      BY <2>1, <2>2
  <1>2. Spec => [][Next]_vars
    BY DEF Spec
  <1>3. Spec => [][A]_vars
    BY <1>1, <1>2, LifecycleInvariant, PTL
  <1> QED
    BY <1>3 DEF SubscriptionsKept, A
=============================================================================
