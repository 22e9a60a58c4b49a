----------------------------- MODULE MCPipeline -----------------------------
(* Pipeline on small instances.                                            *)
EXTENDS Pipeline

\* A hook with each onError setting, and a noop sender without a hook.
AllSettings ==
    {[hook |-> TRUE, noop |-> FALSE, onError |-> o] :
        o \in {"use-default", "skip", "fail"}}
    \cup {[hook |-> FALSE, noop |-> TRUE, onError |-> "use-default"]}

SkipOnError == {[hook |-> TRUE, noop |-> FALSE, onError |-> "skip"]}
=============================================================================
