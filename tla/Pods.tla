-------------------------------- MODULE Pods --------------------------------
(***************************************************************************)
(* internal/pods/informer.go: GetPod, which the hooks of the senders call, *)
(* over the store of the informer, the cache of deleted pods and that of   *)
(* pods which do not exist, while the cluster, the informer and its        *)
(* handler go on.  The caches share nothing between keys, so one           *)
(* namespace and name is modelled: pods of that name come and go.          *)
(*                                                                         *)
(* The API server counts the changes of the name: `api' is odd while the   *)
(* pod created with that change exists.  client-go is external: its store  *)
(* is the cluster as of change `seen', it follows change by change or by a *)
(* new list, and its handler is told of deletions afterwards.              *)
(*                                                                         *)
(* Bounds: MaxChange changes of the cluster, MaxTime units of time.        *)
(***************************************************************************)
EXTENDS Naturals, Sequences

CONSTANTS
    Callers,      \* concurrent calls of GetPod for the name
    Retention,    \* DeletedPodRetention
    NotFoundTTL,  \* notFoundTTL, one minute
    MaxChange,    \* bound: changes of the cluster
    MaxTime       \* bound: time

ASSUME PodsAssumption ==
    /\ Retention \in Nat \ {0} /\ NotFoundTTL \in Nat \ {0}
    /\ MaxChange \in Nat \ {0} /\ MaxTime \in Nat

VARIABLES
    now,
    api,       \* changes of the cluster so far
    phase,     \* Start and Stop: "new", "listing", "listed", "started", "stopped"
    seen,      \* the change the informer's store is at
    newest,    \* history: the newest pod the store has had, 0: none
    notif,     \* deletions [pod, tombstone] DeleteFunc has yet to take
    deleted,   \* deleted: the pod, and until when it is returned
    owed,      \* history: until when DeleteFunc's latest pod is to be returned
    notFound,  \* notFound: until when, and whether it was ever true (history)
    call       \* caller -> its call of GetPod

vars == <<now, api, phase, seen, newest, notif, deleted, owed, notFound, call>>

storeVars == <<phase, seen, newest, notif>>
cacheVars == <<deleted, owed, notFound>>

Pod(change) == change % 2 = 1

\* The steps of GetPod.  An answer of 0 stands for not found.
Stages == {"idle", "direct", "lister", "deleted", "notFound", "api", "remember",
           "answered", "failed"}

\* at, answer: of the call itself.  The rest is history: what `owed' was
\* as the call began (0 before Start), the newest pod the store had had by
\* then, whether a deletion was on its way to DeleteFunc at some moment since,
\* and whether the API server had no pod at some moment since.
Calls == [at : Stages, answer : 0..MaxChange, until : Nat,
          known : 0..MaxChange, lagged : BOOLEAN, absent : BOOLEAN]

Idle == [at |-> "idle", answer |-> 0, until |-> 0, known |-> 0, lagged |-> FALSE,
         absent |-> FALSE]

TypeOK ==
    /\ now \in 0..MaxTime /\ api \in 0..MaxChange
    /\ phase \in {"new", "listing", "listed", "started", "stopped"}
    /\ seen \in 0..api /\ newest \in 0..seen
    /\ notif \in Seq([pod : 1..MaxChange, tombstone : BOOLEAN])
    /\ deleted \in [pod : 0..MaxChange, until : 0..(now + Retention)]
    /\ owed \in 0..(now + Retention)
    /\ notFound \in [until : 0..(now + NotFoundTTL), absent : BOOLEAN]
    /\ call \in [Callers -> Calls]

\* The pod may be there before kigeon is.
Init ==
    /\ now = 0 /\ api \in {0, 1}
    /\ phase = "new" /\ seen = 0 /\ newest = 0 /\ notif = <<>>
    /\ deleted = [pod |-> 0, until |-> 0] /\ owed = 0
    /\ notFound = [until |-> 0, absent |-> FALSE]
    /\ call = [c \in Callers |-> Idle]

-----------------------------------------------------------------------------
(* The cluster and the clock.                                              *)

Tick ==
    /\ now < MaxTime
    /\ now' = now + 1
    /\ UNCHANGED <<api, storeVars, cacheVars, call>>

\* The pod is created or deleted.
Change ==
    /\ api < MaxChange
    /\ api' = api + 1
    /\ call' = [c \in Callers |->
                   IF call[c].at \in {"idle", "answered", "failed"} \/ Pod(api') THEN call[c]
                   ELSE [call[c] EXCEPT !.absent = TRUE]]
    /\ UNCHANGED <<now, storeVars, cacheVars>>

-----------------------------------------------------------------------------
(* The informer.                                                           *)

\* The store moves on to a later change; DeleteFunc is told of a pod that left.
Store(change, tombstone) ==
    /\ seen' = change
    /\ newest' = IF Pod(change) THEN change ELSE newest
    /\ IF Pod(seen) /\ ~Pod(change)
       THEN /\ notif' = Append(notif, [pod |-> seen, tombstone |-> tombstone])
            /\ call' = [c \in Callers |-> [call[c] EXCEPT !.lagged = (call[c].at # "idle")]]
       ELSE UNCHANGED <<notif, call>>
    /\ UNCHANGED <<now, api, phase, cacheVars>>

Watching == phase \in {"listed", "started"}

Watch == Watching /\ seen < api /\ Store(seen + 1, FALSE)

\* The watch broke; a deletion it left out is told as a tombstone, and a pod
\* that was replaced meanwhile as an update, which DeleteFunc does not hear of.
Relist == Watching /\ seen < api /\ Store(api, TRUE)

\* Start registers DeleteFunc and starts the informer.
StartInformer ==
    /\ phase = "new"
    /\ phase' = "listing"
    /\ UNCHANGED <<now, api, seen, newest, notif, cacheVars, call>>

List ==
    /\ phase = "listing"
    /\ phase' = "listed" /\ seen' = api
    /\ newest' = IF Pod(api) THEN api ELSE 0
    /\ UNCHANGED <<now, api, notif, cacheVars, call>>

\* WaitForCacheSync returns and Start sets started.
Started ==
    /\ phase = "listed"
    /\ phase' = "started"
    /\ UNCHANGED <<now, api, seen, newest, notif, cacheVars, call>>

\* Stop: the store stays as it is, and what DeleteFunc has not been told of by
\* the time Shutdown returns it is never told of.
Stop ==
    /\ phase = "started"
    /\ phase' = "stopped"
    /\ UNCHANGED <<now, api, seen, newest, notif, cacheVars, call>>

\* Mistake: a pod deleted before keeps its entry.
DeleteFuncOnce ==
    /\ notif # <<>>
    /\ notif' = Tail(notif)
    /\ deleted' = IF now < deleted.until THEN deleted
                  ELSE [pod |-> Head(notif).pod, until |-> now + Retention]
    /\ owed' = now + Retention
    /\ UNCHANGED <<now, api, phase, seen, newest, notFound, call>>

\* Mistake: toPod does not unwrap tombstones.
DeleteNoTombstone ==
    /\ notif # <<>>
    /\ notif' = Tail(notif)
    /\ deleted' = IF Head(notif).tombstone THEN deleted
                  ELSE [pod |-> Head(notif).pod, until |-> now + Retention]
    /\ owed' = now + Retention
    /\ UNCHANGED <<now, api, phase, seen, newest, notFound, call>>

\* DeleteFunc, with toPod: the pod of a tombstone is a pod too.
DeleteFunc ==
    /\ notif # <<>>
    /\ notif' = Tail(notif)
    /\ deleted' = [pod |-> Head(notif).pod, until |-> now + Retention]
    /\ owed' = now + Retention
    /\ UNCHANGED <<now, api, phase, seen, newest, notFound, call>>

-----------------------------------------------------------------------------
(* GetPod.                                                                 *)

Goto(c, stage) ==
    /\ call' = [call EXCEPT ![c].at = stage]
    /\ UNCHANGED <<now, api, storeVars, cacheVars>>

Answer(c, pod) ==
    /\ call' = [call EXCEPT ![c].at = "answered", ![c].answer = pod]
    /\ UNCHANGED <<now, api, storeVars>>

HasStarted == phase \in {"started", "stopped"}

Begin(c) ==
    /\ call[c].at = "idle"
    /\ call' = [call EXCEPT ![c] =
                   [at |-> IF HasStarted THEN "lister" ELSE "direct",
                    answer |-> 0, until |-> IF HasStarted THEN owed ELSE 0,
                    known |-> newest, lagged |-> (notif # <<>>),
                    absent |-> ~Pod(api)]]
    /\ UNCHANGED <<now, api, storeVars, cacheVars>>

\* Not started yet: the API server decides.
AskDirectly(c) ==
    /\ call[c].at = "direct"
    /\ Answer(c, IF Pod(api) THEN api ELSE 0)
    /\ UNCHANGED cacheVars

\* Mistake: a name that was not found is not looked up before a minute
\* without a call for it has passed.
AskListerLast(c) ==
    /\ call[c].at = "lister"
    /\ IF now < notFound.until
       THEN /\ call' = [call EXCEPT ![c].at = "answered", ![c].answer = 0]
            /\ notFound' = [notFound EXCEPT !.until = now + NotFoundTTL]
            /\ UNCHANGED <<now, api, storeVars, deleted, owed>>
       ELSE IF Pod(seen) THEN Answer(c, seen) /\ UNCHANGED cacheVars
       ELSE Goto(c, "deleted")

AskLister(c) ==
    /\ call[c].at = "lister"
    /\ IF Pod(seen) THEN Answer(c, seen) /\ UNCHANGED cacheVars
       ELSE Goto(c, "deleted")

\* Both caches hold an entry before its time has come.
AskDeleted(c) ==
    /\ call[c].at = "deleted"
    /\ IF now < deleted.until THEN Answer(c, deleted.pod) /\ UNCHANGED cacheVars
       ELSE Goto(c, "notFound")

AskNotFound(c) ==
    /\ call[c].at = "notFound"
    /\ IF now < notFound.until
       THEN /\ call' = [call EXCEPT ![c].at = "answered", ![c].answer = 0,
                                    ![c].absent = notFound.absent]
            /\ UNCHANGED <<now, api, storeVars, cacheVars>>
       ELSE Goto(c, "api")

\* The pod may not have been observed yet.
AskAPI(c) ==
    /\ call[c].at = "api"
    /\ IF Pod(api) THEN Answer(c, api) /\ UNCHANGED cacheVars
       ELSE Goto(c, "remember")

\* Mistake: any error of the API server is remembered.
APIFailsRemembered(c) ==
    /\ call[c].at \in {"direct", "api"}
    /\ Goto(c, "remember")

\* Another error of the API server, or the end of the context.
APIFails(c) ==
    /\ call[c].at \in {"direct", "api"}
    /\ Goto(c, "failed")

\* Mistake: a name not found is remembered as long as a deleted pod.
RememberTooLong(c) ==
    /\ call[c].at = "remember"
    /\ notFound' = [until |-> now + Retention, absent |-> call[c].absent]
    /\ Answer(c, 0)
    /\ UNCHANGED <<deleted, owed>>

\* Only what the API server does not know is remembered.
Remember(c) ==
    /\ call[c].at = "remember"
    /\ notFound' = [until |-> now + NotFoundTTL, absent |-> call[c].absent]
    /\ Answer(c, 0)
    /\ UNCHANGED <<deleted, owed>>

\* The caller has its answer.
Return(c) ==
    /\ call[c].at \in {"answered", "failed"}
    /\ call' = [call EXCEPT ![c] = Idle]
    /\ UNCHANGED <<now, api, storeVars, cacheVars>>

-----------------------------------------------------------------------------
Informer == StartInformer \/ List \/ Started \/ Watch \/ Relist

GetPod(c) ==
    \/ AskDirectly(c) \/ AskLister(c) \/ AskDeleted(c) \/ AskNotFound(c)
    \/ AskAPI(c) \/ APIFails(c) \/ Remember(c)

Next ==
    \/ Tick \/ Change
    \/ Informer \/ Stop \/ DeleteFunc
    \/ \E c \in Callers : Begin(c) \/ GetPod(c) \/ Return(c)

Spec == Init /\ [][Next]_vars

\* The informer and its handler go on, and so does a call once begun; the
\* cluster, the clock, new calls and the shutdown are left to chance.
Fairness ==
    /\ WF_vars(Informer) /\ WF_vars(DeleteFunc)
    /\ \A c \in Callers : WF_vars(GetPod(c)) /\ WF_vars(Return(c))

FairSpec == Spec /\ Fairness

-----------------------------------------------------------------------------
(* Properties.                                                             *)

Answered(c) == call[c].at = "answered"

\* "Deleted pods are returned within the configured retention", as far as it
\* holds: a call begun after Start and after DeleteFunc ran does not answer not found before
\* the retention has passed, whatever notFound remembers of an earlier pod.
RetainedIsReturned ==
    \A c \in Callers :
        Answered(c) /\ call[c].answer = 0 => now >= call[c].until

\* Not found was true: the API server had no such pod at some moment of this
\* call, or of the one that remembered it at most notFoundTTL ago.
NotFoundWasTrue ==
    \A c \in Callers : Answered(c) /\ call[c].answer = 0 => call[c].absent

\* A pod gives way to the next one of its name for good: no call answers a pod
\* older than the newest one the store had had as it began, unless a deletion
\* was on its way from the store to DeleteFunc meanwhile.
NoOlderPod ==
    \A c \in Callers :
        Answered(c) /\ call[c].answer # 0 /\ ~call[c].lagged
            => call[c].answer >= call[c].known

\* A pod that stays is what GetPod answers in the end, although it may have
\* been remembered as not found, or its predecessor as deleted, before.
StayingPodIsFound ==
    \A p \in {n \in 1..MaxChange : Pod(n)} :
        <>[](api = p /\ phase = "started")
            => <>[](\A c \in Callers : Answered(c) => call[c].answer = p)
=============================================================================
