------------------------------- MODULE Lifespan -------------------------------
(***************************************************************************)
(* The life of the gateway's process (gateway/src/lifespan.py): it         *)
(* connects its storages, starts its loops (gateway/src/cleanup_tasks.py,  *)
(* health_monitor.py, products/payments/src/scheduler.py), serves, and     *)
(* after a SIGTERM waits for its requests, closes the connectors, cancels  *)
(* the loops and closes the storages, each in its order.  A request of     *)
(* this module is a loop, or the task of a webhook delivery, for which     *)
(* nobody waits.  systemd kills a process that does not come to its end.   *)
(***************************************************************************)
EXTENDS ConnectorProxy, Sequences

VARIABLES
    life,     \* "connecting", "starting", "serving", "draining", "connectors",
              \* "loops", "storages", "down", "aborted", "failed", "killed"
    todo,     \* what this part of its life still goes through
    open,     \* the storages that are connected
    closed    \* history: who found a storage closed

lifeVars == <<life, todo, open, closed>>

ConnectOrder == <<"billing", "paywall", "payments", "trust", "identity", "marketplace",
                  "events", "messaging", "gatekeeper", "disputes", "webhooks">>
LoopOrder == <<"scheduler", "health", "rates", "eventCleanup", "nonces", "aggregates",
               "lifecycle", "sessions">>
CancelOrder == <<"health", "scheduler", "rates", "eventCleanup", "nonces", "aggregates",
                 "lifecycle", "sessions">>
CloseOrder == <<"gatekeeper", "messaging", "disputes", "webhooks", "events", "identity",
                "trust", "marketplace", "payments", "paywall", "billing">>
Storages == {ConnectOrder[i] : i \in DOMAIN ConnectOrder}

\* What a round of each loop, or a delivery, works with.
Uses == [scheduler |-> {"payments", "billing"}, health |-> {"marketplace", "events"},
         rates |-> {"paywall"}, eventCleanup |-> {"events"}, nonces |-> {"identity"},
         aggregates |-> {"identity"}, lifecycle |-> {"identity"}, sessions |-> {"billing"}]

\* The life of a process is followed with its loops, its deliveries and the
\* callers of its connectors; nobody times out a loop or a delivery.
Living == {"loop", "send"}
ASSUME LifeConstants == \A w \in Workloads :
    (\E r \in Requests : w[r].op \in Living) =>
        \A r \in Requests :
            /\ w[r].op \in Living \cup {"connector", "idle"}
            /\ w[r].op \in Living => w[r].background
            /\ w[r].op = "loop" => w[r].name \in DOMAIN Uses
Loop(r) == Op(r) = "loop"
Loops(name) == {r \in Requests : Loop(r) /\ job[r].name = name}

\* The other workloads meet a process that serves.
Lived == \E r \in Requests : Op(r) \in Living
Serves == life = "serving"

Enter(next, list) == life' = next /\ todo' = list
Pass == todo' = Tail(todo) /\ UNCHANGED life
\* What runs is lost with the process, and so are its children.
Exit(next) == /\ life' = next
              /\ pc' = [r \in Requests |-> IF Running(r) THEN "lost" ELSE pc[r]]
              /\ cut' = [r \in Requests |-> IF Running(r) THEN pc[r] ELSE cut[r]]
              /\ ConnectorCrash
              /\ UNCHANGED todo

-----------------------------------------------------------------------------
\* A storage that cannot be connected ends the start.
ConnectStorage ==
    /\ life = "connecting"
    /\ \/ /\ todo = <<>> /\ Enter("starting", LoopOrder)
          /\ UNCHANGED <<pc, cut, open, connectorVars>>
       \/ /\ todo # <<>> /\ Pass
          /\ open' = open \cup {Head(todo)}
          /\ UNCHANGED <<pc, cut, connectorVars>>
       \/ /\ todo # <<>> /\ Exit("failed")
          /\ UNCHANGED open
    /\ UNCHANGED closed

StartLoop ==
    /\ life = "starting"
    /\ IF todo = <<>> THEN Enter("serving", <<>>) /\ UNCHANGED pc
       ELSE /\ pc' = [r \in Requests |-> IF r \in Loops(Head(todo)) THEN "working" ELSE pc[r]]
            /\ Pass
    /\ UNCHANGED <<cut, open, closed, connectorVars>>

\* SIGTERM, and uvicorn takes no more requests; those it has come to their end,
\* however long that takes.
Terminate ==
    /\ Serves
    /\ Enter("draining", <<>>)
    /\ pc' = [r \in Requests |-> IF pc[r] = "new" THEN "rejected" ELSE pc[r]]
    /\ UNCHANGED <<cut, open, closed, connectorVars>>

Drain ==
    /\ life = "draining"
    /\ \A r \in Requests : Op(r) = "connector" => ~Running(r)
    /\ Enter("connectors", <<>>)
    /\ UNCHANGED <<pc, cut, open, closed, connectorVars>>

\* close of the connections: the task of the reader is awaited, and raises what
\* it has failed with.
CloseConnectors ==
    /\ life = "connectors"
    /\ IF current # Nobody /\ reader[current] = "failed"
       THEN Exit("aborted")
       ELSE /\ Enter("loops", CancelOrder)
            /\ current' = Nobody
            /\ child' = IF current = Nobody \/ child[current] # "up" THEN child
                        ELSE [child EXCEPT ![current] = "reaped"]
            /\ reader' = IF current = Nobody THEN reader ELSE [reader EXCEPT ![current] = "ended"]
            /\ UNCHANGED <<pc, cut, starter, via, pending, inbox, reply, served, unwritten>>
    /\ UNCHANGED <<open, closed>>

\* cancel and await, which ends a round at its await.
CancelLoop ==
    /\ life = "loops"
    /\ IF todo = <<>> THEN Enter("storages", CloseOrder) /\ UNCHANGED <<pc, cut>>
       ELSE LET ends == {r \in Loops(Head(todo)) : Running(r)} IN
            /\ pc' = [r \in Requests |-> IF r \in ends THEN "done" ELSE pc[r]]
            /\ cut' = [r \in Requests |-> IF r \in ends THEN pc[r] ELSE cut[r]]
            /\ Pass
    /\ UNCHANGED <<open, closed, connectorVars>>

CloseStorage ==
    /\ life = "storages"
    /\ IF todo = <<>> THEN Exit("down") /\ UNCHANGED open
       ELSE /\ open' = open \ {Head(todo)}
            /\ Pass
            /\ UNCHANGED <<pc, cut, connectorVars>>
    /\ UNCHANGED closed

\* Patience ends: a stream that stays open is enough.
Kill ==
    /\ life \in {"draining", "connectors", "loops", "storages"}
    /\ Exit("killed")
    /\ UNCHANGED <<open, closed>>

LifeStep == Lived /\ (ConnectStorage \/ StartLoop \/ Terminate \/ Drain \/ CloseConnectors
                      \/ CancelLoop \/ CloseStorage \/ Kill)

-----------------------------------------------------------------------------
\* A round of a loop, whose failure is logged; and its interval.
Finds(r, storages) ==
    closed' = IF storages \subseteq open THEN closed ELSE closed \cup {r}
WorkRound(r) ==
    /\ Loop(r) /\ pc[r] = "working"
    /\ Finds(r, Uses[job[r].name])
    /\ Go(r, "asleep")
    /\ UNCHANGED <<life, todo, open>>
WakeLoop(r) ==
    /\ Loop(r) /\ pc[r] = "asleep"
    /\ Go(r, "working")
    /\ UNCHANGED lifeVars

\* A delivery: its row is there; the POST; the UPDATE, if the storage is.
StartSend(r) ==
    /\ At(r, "send", "new") /\ Serves
    /\ Go(r, "post")
    /\ UNCHANGED lifeVars
EndSend(r) ==
    /\ At(r, "send", "post")
    /\ Finds(r, {"webhooks"})
    /\ Go(r, IF "webhooks" \in open THEN "done" ELSE "error")
    /\ UNCHANGED <<life, todo, open>>

LoopStep(r) == WorkRound(r) \/ WakeLoop(r) \/ StartSend(r) \/ EndSend(r)

\* A crash is one of the process; the other workloads go on in the next one.
LifeCrash == life' = (IF Lived THEN "killed" ELSE life) /\ UNCHANGED <<todo, open, closed>>

LifeInit ==
    /\ life = IF Lived THEN "connecting" ELSE "serving"
    /\ todo = IF Lived THEN ConnectOrder ELSE <<>>
    /\ open = IF Lived THEN {} ELSE Storages
    /\ closed = {}

-----------------------------------------------------------------------------
Over == {"down", "aborted", "failed", "killed"}

\* No loop finds a storage that it works with closed, at the start or at the
\* end; a process that serves has all of them, and its loops run.
LoopsFindStorages ==
    /\ \A r \in Requests : Loop(r) => r \notin closed
    /\ Serves => open = Storages /\ \A r \in Requests : Loop(r) => Running(r)

\* A process that comes to its end has closed every storage and cancelled
\* every loop; it does not come there, unless it is killed, only when
\* a caller of the connector was cancelled.  A delivery that cannot note its
\* end met an end of the process.
EndsOrderly ==
    /\ life = "down" => open = {} /\ \A r \in Requests : ~Running(r)
    /\ life = "aborted" => \E n \in Requests : Deafened(n)
    /\ \A r \in Requests : Op(r) = "send" /\ pc[r] = "error" => life \in {"storages"} \cup Over

LifeOrderly == LoopsFindStorages /\ EndsOrderly
============================================================================
