---------------------------- MODULE EventDelivery ----------------------------
(***************************************************************************)
(* The event bus (products/shared/src/event_bus.py), the handlers that     *)
(* suspend the services of a provider whose score dropped                  *)
(* (gateway/src/event_handlers.py, products/marketplace), and the webhook  *)
(* manager (gateway/src/webhooks.py).  All services are of one provider.   *)
(* A storage write with its commit is one step.  The code schedules no     *)
(* retries: a request stands for whoever calls process_retries.            *)
(***************************************************************************)
EXTENDS Coroutines, FiniteSets

CONSTANTS Services, FirstServices,  \* those that are active at the start
          NameOf,                   \* the name of each service
          Hooks, NoDelivery,
          MaxAttempts

\* A service is offered once, under an id of its own, and those that are there
\* at the start differ in their names.
ASSUME EventConstants ==
    /\ MaxAttempts \in Nat \ {0} /\ NoDelivery \notin Requests \X Hooks
    /\ Requests \cap (Requests \X Hooks) = {}
    /\ \A s, t \in FirstServices : NameOf[s] = NameOf[t] => s = t
    /\ \A w \in Workloads : \A q, r \in Requests : w[r].op = "offer" =>
          /\ w[r].service \notin FirstServices
          /\ q # r /\ w[q].op = "offer" => w[q].service # w[r].service

VARIABLES
    published,   \* the events table: the request and the type
    services,    \* status of each service
    listed,      \* the services a handler, the deliveries a retry still goes through
    hooks,       \* webhooks that are active
    deliveries,  \* webhook_deliveries, by <<request, webhook>>
    sending,     \* the tasks that send a delivery: where they stand, what they know
    received,    \* deliveries that have reached their endpoint
    had,         \* history: the services that were active when an event was published
    undone,      \* history: requests whose handler stopped at a failure
    confirmed,   \* history: deliveries whose success was recorded
    crossed,     \* history: deliveries sent by two tasks at a time
    stranded,    \* history: deliveries that a crash met before their first UPDATE
    namesakes    \* history: registrations that overlapped

busVars == <<published, services, listed, had, undone, namesakes>>
hookVars == <<hooks, deliveries, sending, received, confirmed, crossed, stranded>>
eventVars == <<busVars, hookVars>>

-----------------------------------------------------------------------------
\* publish and _dispatch: the handlers run within the publisher's request, and
\* their failures are logged.  A low score is published again as a drop.
PublishEvent(r) ==
    /\ At(r, "publish", "new")
    /\ published' = published \cup {<<r, job[r].type>>}
    /\ had' = [had EXCEPT ![r] = {s \in Services : services[s] = "active"}]
    /\ Go(r, CASE job[r].type = "low" -> "republish"
               [] job[r].type = "drop" -> "list"
               [] OTHER -> "done")
    /\ UNCHANGED <<services, listed, undone, namesakes, hookVars>>

PublishDrop(r) ==
    /\ At(r, "publish", "republish")
    /\ published' = published \cup {<<r, "drop">>}
    /\ Go(r, "list")
    /\ UNCHANGED <<services, listed, had, undone, namesakes, hookVars>>

\* marketplace_suspend_handler: the services it has read, one at a time.
ListServices(r) ==
    /\ At(r, "publish", "list")
    /\ listed' = [listed EXCEPT ![r] = {s \in Services : services[s] = "active"}]
    /\ Go(r, "suspend")
    /\ UNCHANGED <<published, services, had, undone, namesakes, hookVars>>

\* Mutant: one service is enough.
SuspendOne(r) ==
    /\ At(r, "publish", "suspend")
    /\ IF listed[r] = {} THEN UNCHANGED services
       ELSE \E s \in listed[r] : services' = [services EXCEPT ![s] = "inactive"]
    /\ Go(r, "done")
    /\ UNCHANGED <<published, listed, had, undone, namesakes, hookVars>>

SuspendService(r) ==
    /\ At(r, "publish", "suspend")
    /\ \/ /\ listed[r] = {}
          /\ Go(r, "done")
          /\ UNCHANGED <<services, listed, undone>>
       \/ \E s \in listed[r] :
             /\ services' = [services EXCEPT ![s] = "inactive"]
             /\ listed' = [listed EXCEPT ![r] = @ \ {s}]
             /\ UNCHANGED <<pc, undone>>
       \/ /\ listed[r] # {}
          /\ undone' = undone \cup {r}
          /\ Go(r, "done")
          /\ UNCHANGED <<services, listed>>
    /\ UNCHANGED <<published, had, namesakes, hookVars>>

\* register_service: an active service of the name is a duplicate.
FindName(r) ==
    /\ At(r, "offer", "new")
    /\ Go(r, IF \E s \in Services : services[s] = "active" /\ NameOf[s] = NameOf[job[r].service]
             THEN "rejected" ELSE "insert")
    /\ namesakes' = IF \E q \in Requests : At(q, "offer", "insert")
                    THEN namesakes \cup {r} ELSE namesakes
    /\ UNCHANGED <<published, services, listed, had, undone, hookVars>>

InsertService(r) ==
    /\ At(r, "offer", "insert")
    /\ services' = [services EXCEPT ![job[r].service] = "active"]
    /\ Go(r, "done")
    /\ UNCHANGED <<published, listed, had, undone, namesakes, hookVars>>

DeactivateService(r) ==
    /\ At(r, "deactivate", "new")
    /\ services' = [services EXCEPT ![job[r].service] =
                       IF @ = "none" THEN "none" ELSE "inactive"]
    /\ Go(r, IF services[job[r].service] = "none" THEN "rejected" ELSE "done")
    /\ UNCHANGED <<published, listed, had, undone, namesakes, hookVars>>

-----------------------------------------------------------------------------
\* Webhooks.  A delivery is a row, "pending" and without a time for a retry,
\* and a task of its own that sends it.
NoRow == [status |-> "none", attempts |-> 0, retry |-> FALSE]
Idle == [by |-> NoDelivery, at |-> "idle", ok |-> FALSE, attempts |-> 0]
Delivery == Requests \X Hooks

\* Tasks: the one deliver starts for a delivery, those of the retries.
Tasks == Delivery \cup Requests
Sends(t, d) == sending[t].at # "idle" /\ sending[t].by = d

\* The active webhooks that an event concerns, by its type and agent.
DeliverEvent(r) ==
    /\ At(r, "deliver", "new")
    /\ listed' = [listed EXCEPT ![r] = {<<r, k>> : k \in hooks \cap job[r].concerns}]
    /\ Go(r, "queue")
    /\ UNCHANGED <<published, services, had, undone, namesakes, hookVars>>

QueueDelivery(r) ==
    /\ At(r, "deliver", "queue")
    /\ \/ listed[r] = {} /\ Go(r, "done") /\ UNCHANGED <<listed, deliveries, sending>>
       \/ \E d \in listed[r] :
             /\ deliveries' = [deliveries EXCEPT ![d] = [NoRow EXCEPT !.status = "pending"]]
             /\ sending' = [sending EXCEPT ![d] = [Idle EXCEPT !.by = d, !.at = "post"]]
             /\ listed' = [listed EXCEPT ![r] = @ \ {d}]
             /\ UNCHANGED pc
    /\ UNCHANGED <<published, services, had, undone, namesakes, hooks, received, confirmed,
                   crossed, stranded>>

\* process_retries: the deliveries whose time has come, which it may at once,
\* also those of webhooks that were deleted.
Retriable == {d \in Delivery : deliveries[d].status = "pending" /\ deliveries[d].retry}

ListRetries(r) ==
    /\ At(r, "retry", "new")
    /\ listed' = [listed EXCEPT ![r] = Retriable]
    /\ crossed' = crossed \cup {d \in Retriable :
                      \E q \in Requests : At(q, "retry", "resend") /\ (d \in listed[q] \/ Sends(q, d))}
    /\ Go(r, "resend")
    /\ UNCHANGED <<published, services, had, undone, namesakes, hooks, deliveries, sending,
                   received, confirmed, stranded>>

NextRetry(r) ==
    /\ At(r, "retry", "resend") /\ sending[r].at = "idle"
    /\ \/ listed[r] = {} /\ Go(r, "done") /\ UNCHANGED <<listed, sending>>
       \/ \E d \in listed[r] :
             /\ sending' = [sending EXCEPT ![r] = [Idle EXCEPT !.by = d, !.at = "post"]]
             /\ listed' = [listed EXCEPT ![r] = @ \ {d}]
             /\ UNCHANGED pc
    /\ UNCHANGED <<published, services, had, undone, namesakes, hooks, deliveries,
                   received, confirmed, crossed, stranded>>

\* _send: the POST, whose answer may get lost; the attempts so far; the UPDATE.
PostDelivery(t) ==
    /\ sending[t].at = "post"
    /\ \E arrives, ok \in BOOLEAN :
          /\ ok => arrives
          /\ received' = IF arrives THEN received \cup {sending[t].by} ELSE received
          /\ sending' = [sending EXCEPT ![t].at = "count", ![t].ok = ok]
    /\ UNCHANGED <<pc, busVars, hooks, deliveries, confirmed, crossed, stranded>>

CountAttempt(t) ==
    /\ sending[t].at = "count"
    /\ sending' = [sending EXCEPT ![t].at = "update",
                                  ![t].attempts = deliveries[sending[t].by].attempts + 1]
    /\ UNCHANGED <<pc, busVars, hooks, deliveries, received, confirmed, crossed, stranded>>

UpdateDelivery(t) ==
    /\ sending[t].at = "update"
    /\ LET s == sending[t]
           status == CASE s.ok -> "delivered"
                       [] ~s.ok /\ s.attempts >= MaxAttempts -> "failed"
                       [] OTHER -> "pending"
       IN deliveries' = [deliveries EXCEPT ![s.by] =
             [status |-> status, attempts |-> s.attempts, retry |-> status = "pending"]]
    /\ confirmed' = IF sending[t].ok THEN confirmed \cup {sending[t].by} ELSE confirmed
    /\ sending' = [sending EXCEPT ![t] = Idle]
    /\ UNCHANGED <<pc, busVars, hooks, received, crossed, stranded>>

DeleteWebhook(r) ==
    /\ At(r, "unhook", "new")
    /\ hooks' = hooks \ {job[r].hook}
    /\ Go(r, IF job[r].hook \in hooks THEN "done" ELSE "rejected")
    /\ UNCHANGED <<busVars, deliveries, sending, received, confirmed, crossed, stranded>>

EventStep(r) == \/ PublishEvent(r) \/ PublishDrop(r) \/ ListServices(r) \/ SuspendService(r)
                \/ FindName(r) \/ InsertService(r) \/ DeactivateService(r)
                \/ DeliverEvent(r) \/ QueueDelivery(r) \/ ListRetries(r) \/ NextRetry(r)
                \/ DeleteWebhook(r)
SendStep(t) == PostDelivery(t) \/ CountAttempt(t) \/ UpdateDelivery(t)

\* A crash ends the tasks, too, and a timeout what its request was sending.
EventCrash == /\ sending' = [t \in Tasks |-> Idle]
              /\ stranded' = stranded \cup {d \in Delivery : deliveries[d] = [NoRow EXCEPT !.status = "pending"]}
              /\ UNCHANGED <<busVars, hooks, deliveries, received, confirmed, crossed>>
EventTimeOut(r) == /\ sending' = [sending EXCEPT ![r] = Idle]
                   /\ UNCHANGED <<busVars, hooks, deliveries, received, confirmed, crossed, stranded>>

EventInit ==
    /\ services = [s \in Services |-> IF s \in FirstServices THEN "active" ELSE "none"]
    /\ hooks = Hooks
    /\ deliveries = [d \in Delivery |-> NoRow]
    /\ sending = [t \in Tasks |-> Idle]
    /\ listed = [r \in Requests |-> {}]
    /\ published = {} /\ received = {} /\ confirmed = {}
    /\ undone = {} /\ crossed = {} /\ stranded = {} /\ namesakes = {}
    /\ had = [r \in Requests |-> {}]

-----------------------------------------------------------------------------
\* A score that drops suspends the services the provider had when the event
\* was published: unless the publisher was cut (the event is there, and nothing
\* dispatches it again) or one of the deactivations failed.
Reacting(r) == pc[r] \in {"republish", "list", "suspend"}
DropSuspends ==
    \A e \in published : LET r == e[1] IN
       \/ e[2] \notin {"low", "drop"} \/ Reacting(r) \/ cut[r] # "never" \/ r \in undone
       \/ \A s \in had[r] : services[s] = "inactive"

\* Two active services have one name only when their registrations overlapped.
NamesDiffer == \A s, t \in Services :
    s # t /\ NameOf[s] = NameOf[t] /\ services[s] = "active" /\ services[t] = "active" =>
       \E r \in namesakes : job[r].service \in {s, t}

\* A delivery that is recorded as a success was received, and stays one; one
\* that has failed used up its attempts, and no more: unless two retries sent
\* it.  One that is pending is being sent or will be found by process_retries,
\* unless a crash came before its first UPDATE.
DeliveriesAccounted == \A d \in Delivery : LET row == deliveries[d] IN
    /\ row.status = "delivered" => d \in received
    /\ d \in confirmed => row.status = "delivered" \/ d \in crossed
    /\ row.status = "failed" => row.attempts = MaxAttempts \/ d \in crossed
    /\ row.attempts <= MaxAttempts \/ d \in crossed
    /\ row.status = "pending" => row.retry \/ Sends(d, d) \/ d \in stranded

\* What follows an event is done, or left undone for a reason.
ReactionsCarriedOut == DropSuspends /\ NamesDiffer /\ DeliveriesAccounted
============================================================================
