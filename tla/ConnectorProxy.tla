--------------------------- MODULE ConnectorProxy ---------------------------
(***************************************************************************)
(* The connectors (gateway/src/mcp_proxy.py): tools that a child process   *)
(* serves, over its stdin and stdout.  A call starts the child if there is *)
(* none, under a lock; requests carry an id, and one task per child reads  *)
(* the responses and wakes whoever waits for the id.  The connectors do    *)
(* not share anything: one of them is modelled.  A child is named by the   *)
(* request that started it.                                                *)
(***************************************************************************)
EXTENDS Coroutines

CONSTANT Nobody

ASSUME ConnectorConstants == Nobody \notin Requests

VARIABLES starter,  \* who holds the lock of the connector
          current,  \* _connections[connector], Nobody when it has none
          child,    \* the processes: "none", "up", "down", or "reaped", which
                    \* is when the gateway knows
          reader,   \* their _read_loop: "none", "reading", "ended", "failed"
          via,      \* the child a request talks to
          pending,  \* _pending of each: the ids somebody waits for
          inbox,    \* what was written to the stdin of each
          reply,    \* what a future was resolved with: "result", "error", or
                    \* "cancelled", and "late" if a result came even so
          served,   \* history: calls that a child carried out
          unwritten \* history: requests whose pipe was closed

connectorVars == <<starter, current, child, reader, via, pending, inbox, reply, served, unwritten>>

Waits(r) == Op(r) = "connector" /\ pc[r] \in {"handshake", "await"}
\* The id of what r waits for, or waited for when it was cancelled.
IdOf(r, place) == [by |-> r, place |-> place]
Abandoned(id) == pc[id.by] = "504" /\ cut[id.by] = id.place
Release(r) == starter' = IF starter = r THEN Nobody ELSE starter
Write(r, n, place) ==
    /\ pending' = [pending EXCEPT ![n] = @ \cup {IdOf(r, place)}]
    /\ inbox' = [inbox EXCEPT ![n] = @ \cup {IdOf(r, place)}]

\* Mutant: two requests may be in _ensure_connection.
EnterAnyway(r) ==
    /\ At(r, "connector", "new")
    /\ starter' = r
    /\ Go(r, "ensure")
    /\ UNCHANGED <<current, child, reader, via, pending, inbox, reply, served, unwritten>>

AcquireLock(r) ==
    /\ At(r, "connector", "new") /\ starter = Nobody
    /\ starter' = r
    /\ Go(r, "ensure")
    /\ UNCHANGED <<current, child, reader, via, pending, inbox, reply, served, unwritten>>

\* _ensure_connection: a child that is not known to have ended is good.
EnsureConnection(r) ==
    /\ At(r, "connector", "ensure")
    /\ IF current # Nobody /\ child[current] # "reaped"
       THEN /\ via' = [via EXCEPT ![r] = current]
            /\ Release(r)
            /\ Go(r, "send")
            /\ UNCHANGED current
       ELSE /\ current' = Nobody
            /\ Go(r, "spawn")
            /\ UNCHANGED <<starter, via>>
    /\ UNCHANGED <<child, reader, pending, inbox, reply, served, unwritten>>

\* The child cannot be started, or it is, with its reader, and is sent
\* "initialize".
StartConnector(r) ==
    /\ At(r, "connector", "spawn")
    /\ \/ /\ child' = [child EXCEPT ![r] = "up"]
          /\ reader' = [reader EXCEPT ![r] = "reading"]
          /\ via' = [via EXCEPT ![r] = r]
          /\ Write(r, r, "handshake")
          /\ Go(r, "handshake")
          /\ UNCHANGED starter
       \/ /\ Release(r)
          /\ Go(r, "error")
          /\ UNCHANGED <<child, reader, via, pending, inbox>>
    /\ UNCHANGED <<current, reply, served, unwritten>>

\* The answer to "initialize" came; the notification is not answered.
Initialized(r) ==
    /\ At(r, "connector", "handshake") /\ reply[r] \in {"result", "error"}
    /\ \/ /\ reply[r] = "result" /\ child[via[r]] = "up"
          /\ current' = r
          /\ Go(r, "send")
       \/ /\ reply[r] = "error" \/ child[via[r]] # "up"
          /\ Go(r, "error")
          /\ UNCHANGED current
    /\ Release(r)
    /\ reply' = [reply EXCEPT ![r] = "none"]
    /\ UNCHANGED <<child, reader, via, pending, inbox, served, unwritten>>

\* _send_request: the future is pending before the pipe is known to be closed.
SendCall(r) ==
    /\ At(r, "connector", "send")
    /\ Write(r, via[r], "await")
    /\ \/ Go(r, "await") /\ UNCHANGED unwritten
       \/ /\ child[via[r]] # "up"
          /\ Go(r, "error")
          /\ unwritten' = unwritten \cup {r}
    /\ UNCHANGED <<starter, current, child, reader, via, reply, served>>

ReceiveReply(r) ==
    /\ At(r, "connector", "await") /\ reply[r] \in {"result", "error"}
    /\ Go(r, IF reply[r] = "result" THEN "done" ELSE "error")
    /\ UNCHANGED connectorVars

\* wait_for of 30 seconds cancels the future; when its turn comes, the request
\* takes its id back.
ReplyTimeOut(r) ==
    /\ Waits(r) /\ reply[r] = "none"
    /\ reply' = [reply EXCEPT ![r] = "cancelled"]
    /\ UNCHANGED <<pc, starter, current, child, reader, via, pending, inbox, served, unwritten>>

TakeBack(r) ==
    /\ Waits(r) /\ reply[r] \in {"cancelled", "late"}
    /\ pending' = [pending EXCEPT ![via[r]] = @ \ {IdOf(r, pc[r])}]
    /\ Release(r)
    /\ Go(r, "error")
    /\ UNCHANGED <<current, child, reader, via, inbox, reply, served, unwritten>>

ConnectorStep(r) ==
    \/ AcquireLock(r) \/ EnsureConnection(r) \/ StartConnector(r) \/ Initialized(r)
    \/ SendCall(r) \/ ReceiveReply(r) \/ ReplyTimeOut(r) \/ TakeBack(r)

\* The child answers what it has read, and _read_loop reads the answer: whoever
\* still waits gets it.  A future that was cancelled is still in _pending, and
\* refuses the result: nothing catches that, and the task is over.
Serve(n) ==
    /\ child[n] = "up"
    /\ \E id \in inbox[n], result \in {"result", "error"} :
          /\ inbox' = [inbox EXCEPT ![n] = @ \ {id}]
          /\ served' = IF id.place = "await" THEN served \cup {id.by} ELSE served
          /\ IF reader[n] # "reading" \/ id \notin pending[n]
             THEN UNCHANGED <<pending, reply, reader>>
             ELSE /\ pending' = [pending EXCEPT ![n] = @ \ {id}]
                  /\ IF Abandoned(id) \/ reply[id.by] = "cancelled"
                     THEN /\ reader' = [reader EXCEPT ![n] = "failed"]
                          /\ reply' = [reply EXCEPT ![id.by] = "late"]
                     ELSE reply' = [reply EXCEPT ![id.by] = result] /\ UNCHANGED reader
    /\ UNCHANGED <<pc, faults, cut, starter, current, child, via, unwritten>>

\* A child ends; its reader sees the end of stdout, and the gateway hears of it.
ChildEnds(n) ==
    /\ child[n] = "up" /\ faults < MaxFaults
    /\ faults' = faults + 1
    /\ child' = [child EXCEPT ![n] = "down"]
    /\ UNCHANGED <<pc, cut, starter, current, reader, via, pending, inbox, reply, served, unwritten>>

EndOfOutput(n) ==
    /\ child[n] # "up" /\ reader[n] = "reading"
    /\ reader' = [reader EXCEPT ![n] = "ended"]
    /\ UNCHANGED <<pc, faults, cut, starter, current, child, via, pending, inbox, reply, served, unwritten>>

Reap(n) ==
    /\ child[n] = "down"
    /\ child' = [child EXCEPT ![n] = "reaped"]
    /\ UNCHANGED <<pc, faults, cut, starter, current, reader, via, pending, inbox, reply, served, unwritten>>

ChildStep(n) == Serve(n) \/ ChildEnds(n) \/ EndOfOutput(n) \/ Reap(n)

\* A request that is cancelled leaves the lock, and its id.
ConnectorTimeOut(r) ==
    /\ Release(r)
    /\ UNCHANGED <<current, child, reader, via, pending, inbox, reply, served, unwritten>>

\* The children end with the gateway, whose pipes close.
ConnectorCrash ==
    /\ starter' = Nobody /\ current' = Nobody
    /\ child' = [n \in Requests |-> IF child[n] = "none" THEN "none" ELSE "reaped"]
    /\ reader' = [n \in Requests |-> IF reader[n] = "none" THEN "none" ELSE "ended"]
    /\ pending' = [n \in Requests |-> {}] /\ inbox' = [n \in Requests |-> {}]
    /\ UNCHANGED <<via, reply, served, unwritten>>

ConnectorInit ==
    /\ starter = Nobody /\ current = Nobody
    /\ child = [n \in Requests |-> "none"] /\ reader = [n \in Requests |-> "none"]
    /\ via = [r \in Requests |-> Nobody]
    /\ pending = [n \in Requests |-> {}] /\ inbox = [n \in Requests |-> {}]
    /\ reply = [r \in Requests |-> "none"]
    /\ served = {} /\ unwritten = {}

-----------------------------------------------------------------------------
\* There is one child ("prevent race conditions where two coroutines could
\* both see a dead process and both start a replacement"): any other that runs
\* was left behind by a start that did not come to its end.
OneChild == \A n \in Requests :
    child[n] = "up" => n = current \/ (starter = n /\ pc[n] = "handshake")
                       \/ pc[n] \in {"504", "error"}

\* A child that runs is listened to; unless an answer came when its caller had
\* been cancelled, and his id was still there.
Deafened(n) == \E q \in Requests : via[q] = n /\ reply[q] = "late"
Listened == \A n \in Requests : child[n] = "up" => reader[n] = "reading" \/ Deafened(n)

\* Nobody is forgotten, nor waited for in vain: what is pending has somebody
\* waiting for it, who was cancelled or could not write if he does not, and
\* whoever waits is pending or has his reply.
PendingMatches ==
    /\ \A n \in Requests : \A id \in pending[n] :
          (pc[id.by] = id.place /\ via[id.by] = n) \/ Abandoned(id) \/ id.by \in unwritten
    /\ \A r \in Requests : Waits(r) =>
          IdOf(r, pc[r]) \in pending[via[r]] \/ reply[r] # "none"
    /\ \A r \in Requests : Op(r) = "connector" /\ pc[r] = "done" => r \in served

ConnectorsAnswer == OneChild /\ Listened /\ PendingMatches

-----------------------------------------------------------------------------
(***************************************************************************)
(* The calls that the connectors for Stripe and GitHub make to their       *)
(* upstreams (products/connectors/stripe/src/client.py and tools.py,       *)
(* products/connectors/github/src/client.py): a bucket of tokens           *)
(* (products/shared/src/rate_limiter.py) and a retry loop                  *)
(* (products/shared/src/retry.py) around each.  A request is one write;    *)
(* reads go the same way, and change nothing.  A unit of time brings one   *)
(* token.  The children are not cancelled by the gateway's timeout.        *)
(***************************************************************************)

CONSTANTS Burst,       \* max_requests
          MaxTries,    \* max_retries + 1
          MaxClock

Apis == {"stripe", "github"}

ASSUME UpstreamConstants ==
    /\ Burst \in Nat \ {0} /\ MaxTries \in Nat \ {0} /\ MaxClock \in Nat
    /\ \A w \in Workloads : \A r \in Requests : w[r].op = "upstream" => w[r].api \in Apis

VARIABLES
    clock,
    bucket,     \* of each connector: its tokens, and the time of the last refill
    tries,      \* the attempts of a call
    recorded,   \* external: the idempotency keys that Stripe has
    effects,    \* external: how often a write was carried out
    doubtful,   \* history: attempts whose answer did not tell, of each call
    granted     \* history: tokens taken from each bucket

upstreamVars == <<clock, bucket, tries, recorded, effects, doubtful, granted>>

Api(r) == job[r].api
\* Every tool of Stripe that writes has its key from the client.
Key(r) == job[r].upstreamKey
WithKey(r) == Api(r) = "stripe"

\* _refill, when somebody looks.
Tokens(b) == IF b.tokens + (clock - b.last) < Burst THEN b.tokens + (clock - b.last) ELSE Burst

BeginUpstream(r) ==
    /\ At(r, "upstream", "new")
    /\ Go(r, "acquire")
    /\ UNCHANGED upstreamVars

AcquireToken(r) ==
    /\ At(r, "upstream", "acquire") /\ Tokens(bucket[Api(r)]) > 0
    /\ bucket' = [bucket EXCEPT ![Api(r)] = [tokens |-> Tokens(@) - 1, last |-> clock]]
    /\ granted' = [granted EXCEPT ![Api(r)] = @ + 1]
    /\ Go(r, "attempt")
    /\ UNCHANGED <<clock, tries, recorded, effects, doubtful>>

\* What the upstream does with an attempt: a key that it has is not a new write.
CarryOut(r) ==
    IF WithKey(r) /\ Key(r) \in recorded THEN UNCHANGED <<recorded, effects>>
    ELSE /\ recorded' = IF WithKey(r) THEN recorded \cup {Key(r)} ELSE recorded
         /\ effects' = [effects EXCEPT ![r] = @ + 1]

\* The retry is around the token for Stripe, and within it for GitHub.
Once(r) == tries' = [tries EXCEPT ![r] = @ + 1]
Retry(r) == IF tries'[r] = MaxTries THEN "error" ELSE IF Api(r) = "stripe" THEN "acquire" ELSE "attempt"

Succeed(r) ==
    /\ CarryOut(r)
    /\ Go(r, "done")
    /\ UNCHANGED <<bucket, doubtful>>

\* 4xx: not carried out, not retried.
Refused(r) ==
    /\ Go(r, "error")
    /\ UNCHANGED <<bucket, recorded, effects, doubtful>>

\* 429, for which GitHub's client empties the bucket and waits; and the 403 that
\* is a limit too, for which it does so if it is told how long, but which is not
\* retried.
EmptyBucket == bucket' = [bucket EXCEPT !["github"].tokens = 0]
TooMany(r) ==
    /\ \/ Api(r) = "stripe" /\ Go(r, Retry(r)) /\ UNCHANGED bucket
       \/ Api(r) = "github" /\ Go(r, Retry(r)) /\ EmptyBucket
       \/ Api(r) = "github" /\ Go(r, "error") /\ EmptyBucket
    /\ UNCHANGED <<recorded, effects, doubtful>>

\* 500, 502, 503, 504 and a time-out are retried, another broken connection,
\* or a 5xx that is not listed, is not.  The write may be carried out.
NotTold(r) ==
    /\ CarryOut(r) \/ UNCHANGED <<recorded, effects>>
    /\ doubtful' = [doubtful EXCEPT ![r] = @ + 1]
    /\ Go(r, Retry(r)) \/ Go(r, "error")
    /\ UNCHANGED bucket

SendAttempt(r) ==
    /\ At(r, "upstream", "attempt")
    /\ Once(r)
    /\ Succeed(r) \/ Refused(r) \/ TooMany(r) \/ NotTold(r)
    /\ UNCHANGED <<clock, granted>>

\* The bound of the clock.
Starved(r) == At(r, "upstream", "acquire") /\ clock = MaxClock

UpstreamStep(r) == BeginUpstream(r) \/ AcquireToken(r) \/ SendAttempt(r)

UpstreamTick ==
    /\ \E r \in Requests : Op(r) = "upstream" /\ pc[r] \notin Terminal
    /\ clock < MaxClock
    /\ clock' = clock + 1
    /\ UNCHANGED <<bucket, tries, recorded, effects, doubtful, granted>>

UpstreamInit ==
    /\ clock = 0
    /\ bucket = [a \in Apis |-> [tokens |-> Burst, last |-> 0]]
    /\ tries = [r \in Requests |-> 0]
    /\ recorded = {}
    /\ effects = [r \in Requests |-> 0]
    /\ doubtful = [r \in Requests |-> 0]
    /\ granted = [a \in Apis |-> 0]

-----------------------------------------------------------------------------
\* Whatever Stripe is asked with one key, in how many attempts and by how many
\* calls, it does once; a write on GitHub, which has no keys, is only repeated
\* after attempts that did not tell whether they had done it.
WrittenOnce ==
    /\ \A r, q \in Requests : Op(r) = "upstream" /\ Op(q) = "upstream"
          /\ WithKey(r) /\ WithKey(q) /\ Key(r) = Key(q) =>
             effects[r] + (IF q = r THEN 0 ELSE effects[q]) <= 1
    /\ \A r \in Requests : effects[r] <= doubtful[r] + (IF pc[r] = "done" THEN 1 ELSE 0)

\* A call that succeeded was carried out, in an attempt of its own or, with its
\* key, in another call; and no upstream is asked oftener than tokens came, but
\* by GitHub's retries, nor a call attempted without end.
UpstreamPaced ==
    /\ \A r \in Requests : Op(r) = "upstream" /\ pc[r] = "done" =>
          effects[r] > 0 \/ (WithKey(r) /\ Key(r) \in recorded)
    /\ \A a \in Apis : granted[a] <= Burst + clock
    /\ \A r \in Requests : tries[r] <= MaxTries

UpstreamSafe == WrittenOnce /\ UpstreamPaced
=============================================================================
