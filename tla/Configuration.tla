---------------------------- MODULE Configuration ----------------------------
(***************************************************************************)
(* The configuration (internal/config) and what the factory of a sender    *)
(* makes of its part of it (internal/eventsender: registry.go, loki).      *)
(*                                                                         *)
(* A file is a record of the values its checks tell apart: a duration or   *)
(* quantity is -1, 0 or 1 by its sign, a string "" or a known value or     *)
(* another one.  Addresses, credentials, labels and texts are left out.    *)
(* The flag -log-level is a field of the file.                             *)
(***************************************************************************)
EXTENDS Integers, Sequences

\* An entry of eventsenders: its name and type, whether its filter has labels
\* and they are valid, the sign of hardRefreshInterval, and its config: whether
\* it parses and has a URL and a hook, with what becomes of its script.
EventSenderConfig ==
    [name : STRING, type : STRING,
     selector : {"none", "valid", "invalid"}, refresh : -1..1,
     json : BOOLEAN, url : BOOLEAN, hook : BOOLEAN, enrichPod : BOOLEAN,
     script : {"", "loads", "fails"}, onError : STRING]

Level == {"", "debug", "info", "warn", "error", "other"}

\* lifetime is kubernetesEventsMaxLifetime, retention deletedPodRetention.
Config ==
    [dataDir : {"", "dir"}, logLevel : Level, flag : Level,
     logFormat : {"", "json", "text", "other"},
     eventsMaxAge : -1..1, eventsMaxBytes : -1..1, lifetime : -1..1,
     retention : -1..1, pushTimeout : -1..1, oomKilledEvents : BOOLEAN,
     senders : Seq(EventSenderConfig)]

Default(value, zero, default) == IF value = zero THEN default ELSE value

\* applyDefaults.
ApplyDefaults(c) ==
    [c EXCEPT !.dataDir        = Default(@, "", "dir"),
              !.logLevel       = Default(@, "", "info"),
              !.logFormat      = Default(@, "", "json"),
              !.eventsMaxAge   = Default(@, 0, 1),
              !.eventsMaxBytes = Default(@, 0, 1),
              !.lifetime       = Default(@, 0, 1),
              !.retention      = Default(@, 0, 1),
              !.pushTimeout    = Default(@, 0, 1)]

\* run overrides the level of the file.
Override(c) == [c EXCEPT !.logLevel = Default(c.flag, "", @)]

-----------------------------------------------------------------------------
(* Validate: it collects all errors, and accepts if there is none.         *)

ValidGlobal(c) ==
    /\ c.dataDir # ""
    /\ c.logLevel \in {"", "debug", "info", "warn", "error"}
    /\ c.logFormat \in {"", "json", "text"}

\* The lifetime and the push timeout are not looked at.
ValidQueue(c) == c.eventsMaxAge >= 0 /\ c.eventsMaxBytes >= 0

ValidFilter(s) == s.refresh >= 0

\* Mistake: a name used before is not looked for.
ValidSendersRepeated(senders) ==
    /\ senders # <<>>
    /\ \A i \in DOMAIN senders :
        senders[i].name # "" /\ senders[i].type # "" /\ ValidFilter(senders[i])

ValidSenders(senders) ==
    /\ senders # <<>>
    /\ \A i \in DOMAIN senders :
        /\ senders[i].name # "" /\ senders[i].type # ""
        /\ \A j \in 1..(i - 1) : senders[j].name # senders[i].name
        /\ ValidFilter(senders[i])

Valid(c) ==
    /\ ValidGlobal(c) /\ ValidQueue(c) /\ c.retention >= 0
    /\ ValidSenders(c.senders)

-----------------------------------------------------------------------------
(* Create, and the factory of the only registered type.                    *)

Registered == {"loki"}

\* ConfigHook.validate.
ValidHook(s) ==
    s.script # "" /\ s.onError \in {"", "use-default", "skip", "fail"}

\* Factory up to the call of NewSender.
Parses(s) == s.json /\ (s.hook => ValidHook(s))

\* The script of a hook runs and defines a function transform.
NewHookExecutor(s) == s.script = "loads"

NewSender(s) == s.name # "" /\ s.url /\ (s.hook => NewHookExecutor(s))

Creates(s) == s.type \in Registered /\ Parses(s) /\ NewSender(s)

\* The factory enables the pod informer.
EnablesPods(s) == s.hook /\ s.enrichPod

\* The names PruneConsumers keeps.
Names(c) == {c.senders[i].name : i \in DOMAIN c.senders}
=============================================================================
