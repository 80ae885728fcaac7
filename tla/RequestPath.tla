----------------------------- MODULE RequestPath -----------------------------
(***************************************************************************)
(* The way of a paid call through the gateway: require_tool and            *)
(* finalize_response, which the REST routes go through (deps/), POST       *)
(* /v1/execute and POST /v1/batch, the Idempotency-Key gate of POST        *)
(* /v1/payments/intents, and the x402 proofs that pay for a call without   *)
(* an API key.  One agent calls with its key; the payers of proofs have no *)
(* account.  A storage write with its commit is one step, and so is a      *)
(* wallet call (see Wallet); every other await is a place where the other  *)
(* requests run, and where the 30 seconds of the request may be over.      *)
(***************************************************************************)
EXTENDS Sums, Sequences, Functions

CONSTANTS Requests,
          Workloads,            \* what the requests may ask: a set of functions
          Tools, Cost, ToolLimit, \* the catalog: price, calls per hour
          HourLimit, BurstLimit,  \* the tier: calls per hour, and per minute
          DailyCap,             \* the agent's budget; a month's is checked alike
          Start,                \* the agent's credits
          Keys, NoKey, OldKeys, \* idempotency keys; those with a placeholder
          OldBody, Bodies, Proofs, NoProof,
          Minute, Hour, Day, Ttl, \* the windows, in ticks of the clock
          MaxTime,
          MaxFaults             \* crashes and timeouts

Routes == {"rest", "gate", "execute", "batch", "retry", "idle"}

\* A call over the agent's key, or paid for with a proof; the key of the
\* gate is in the header or in the body only.
Job == [route : Routes, calls : Seq(Tools), key : Keys \cup {NoKey}, header : BOOLEAN,
        body : Bodies, proof : Proofs \cup {NoProof}]

ASSUME RequestConstants ==
    /\ NoKey \notin Keys /\ OldKeys \subseteq Keys /\ OldBody \in Bodies /\ NoProof \notin Proofs
    /\ Cost \in [Tools -> Nat] /\ ToolLimit \in [Tools -> Nat]
    /\ {HourLimit, BurstLimit, DailyCap, Start, MaxTime, MaxFaults} \subseteq Nat
    /\ {Minute, Hour, Day, Ttl} \subseteq Nat
    /\ \A w \in Workloads : \A r \in Requests :
          /\ w[r] \in Job
          /\ w[r].route # "batch" => Len(w[r].calls) = 1
          /\ w[r].proof # NoProof => w[r].route \in {"execute", "batch"}

\* A gateway has had finitely many requests; an idempotency row (24 hours)
\* outlives two of them (30 seconds each), which last a tick.
ASSUME RequestTable == IsFiniteSet(Requests) /\ Ttl >= 2

VARIABLES
    job, now, faults,
    pc, call,     \* the await each request stands at, the call it is at
    since, stamp, \* its locals: when it began, the time it last read
    events,       \* rate_events
    usage,        \* usage_records
    balance,      \* the agent's wallet
    cache,        \* idempotency_cache, NoRow where there is none
    nonces,       \* x402_nonces
    queues, view, \* pending_settlements, as the lists it has been; where a
                  \* retry is in the list it goes through
    settled,      \* proofs the facilitator has settled
    ran,          \* history: <<request, call>> the tool of which succeeded
    charged,      \* history: what was charged, and when its usage was recorded
    admitted,     \* history: REST calls admitted within one tick
    unbudgeted,   \* history: requests whose cost the budget did not see
    entered,      \* history: who passed the gate, under the row of which time
    after,        \* history: the requests answered when this one began
    clobbered,    \* history: keys whose row was evicted while in use
    dropped       \* history: proofs that were forgotten, by a named cause

vars == <<job, now, faults, pc, call, since, stamp, events, usage, balance,
          cache, nonces, queues, view, settled, ran, charged, admitted, unbudgeted,
          entered, after, clobbered, dropped>>
clock == <<job, now, faults>>
begun == <<since, after>>
rates == <<events, admitted>>
bill == <<usage, balance, charged, unbudgeted>>
gate == <<cache, entered, clobbered>>
proofs == <<nonces, queues, view, settled, dropped>>

Go(r, next) == pc' = [pc EXCEPT ![r] = next]
Route(r) == job[r].route
Key(r) == job[r].key
Proof(r) == job[r].proof
ByProof(r) == Proof(r) # NoProof
Rest(r) == Route(r) \in {"rest", "gate"}
Tool(r) == job[r].calls[call[r]]

\* calculate_tool_cost, of each call and of them all.
PriceOf(calls) == Sum([n \in DOMAIN calls |-> Cost[calls[n]]], DOMAIN calls)
TotalCost(r) == PriceOf(job[r].calls)

NoRow == [body |-> 0, reply |-> {}, at |-> -1]
OldRow == [body |-> OldBody, reply |-> {}, at |-> 0]
Expired(row, time) == row.at < time - Ttl

Terminal == {"done", "replayed", "rejected", "error", "504", "lost"}
Running(r) == pc[r] \notin Terminal \cup {"new"}

-----------------------------------------------------------------------------
\* Authentication.  The key is good; who has none shows a proof.
Begin(r) ==
    /\ pc[r] = "new"
    /\ Go(r, IF ByProof(r) THEN "nonce"
             ELSE CASE Rest(r) -> "record"
                    [] Route(r) = "retry" -> "next"
                    [] OTHER -> "count")
    /\ since' = [since EXCEPT ![r] = now]
    /\ after' = [after EXCEPT ![r] = {q \in Requests : pc[q] = "done"}]
    /\ view' = IF Route(r) = "retry"
               THEN [view EXCEPT ![r] = [list |-> Len(queues), next |-> 1, left |-> <<>>]]
               ELSE view
    /\ UNCHANGED <<clock, call, stamp, rates, bill, gate, nonces, queues, settled, dropped, ran>>

-----------------------------------------------------------------------------
\* Rate limits.  A REST route records its event before it counts, and the
\* events of rejected calls stay; /v1/execute and /v1/batch record theirs
\* when the call is over.

EventOf(r) == [by |-> r, call |-> call[r], tool |-> Tool(r), at |-> now]
Recent(window) == {e \in events : e.at >= now - window}

RecordEvent(r) ==
    /\ pc[r] = "record"
    /\ events' = events \cup {EventOf(r)}
    /\ Go(r, "count")
    /\ UNCHANGED <<clock, call, begun, stamp, admitted, bill, gate, proofs, ran>>

\* The whole tier's window, and the minute's when it is full.
Counted(r) == IF Route(r) = "batch" THEN "balance" ELSE "countTool"

CountHour(r) ==
    /\ pc[r] = "count"
    /\ Go(r, IF Cardinality(Recent(Hour)) >= HourLimit THEN "burst" ELSE Counted(r))
    /\ UNCHANGED <<clock, call, begun, stamp, rates, bill, gate, proofs, ran>>

CountBurst(r) ==
    /\ pc[r] = "burst"
    /\ Go(r, IF Cardinality(Recent(Minute)) >= BurstLimit THEN "rejected" ELSE Counted(r))
    /\ UNCHANGED <<clock, call, begun, stamp, rates, bill, gate, proofs, ran>>

\* The limits of the tools of a batch are looked at call by call, unless a
\* proof pays; a batch may have no calls.
EnterCall(r) == IF Route(r) = "batch" /\ ~ByProof(r) THEN "countTool" ELSE "run"
FirstCall(r) == IF job[r].calls # <<>> THEN EnterCall(r)
                ELSE IF ByProof(r) THEN "settle" ELSE "done"

\* A call of a batch is over: on to the next one.
NextCall(r) ==
    IF call[r] < Len(job[r].calls)
    THEN call' = [call EXCEPT ![r] = @ + 1] /\ Go(r, EnterCall(r))
    ELSE /\ UNCHANGED call
         /\ Go(r, CASE ByProof(r) -> "settle"
                    [] Route(r) = "gate" /\ Key(r) # NoKey /\ job[r].header -> "respond"
                    [] OTHER -> "done")

\* Mutant: a REST call is not counted until it is over.
CountOthers(r) ==
    /\ pc[r] = "countTool"
    /\ LET calls == {e \in Recent(Hour) : e.tool = Tool(r) /\ e.by \in after[r]} IN
       IF Cardinality(calls) < ToolLimit[Tool(r)]
       THEN /\ IF Route(r) = "batch" THEN Go(r, "run") ELSE Go(r, "balance")
            /\ UNCHANGED call
            /\ admitted' = IF Rest(r) /\ since[r] = now
                           THEN admitted \cup {EventOf(r)} ELSE admitted
       ELSE /\ IF Route(r) = "batch" THEN NextCall(r) ELSE Go(r, "rejected") /\ UNCHANGED call
            /\ UNCHANGED admitted
    /\ UNCHANGED <<clock, begun, stamp, events, bill, gate, proofs, ran>>

\* The tool's own limit.  A batch leaves the call out and goes on.
CountTool(r) ==
    /\ pc[r] = "countTool"
    /\ LET calls == {e \in Recent(Hour) : e.tool = Tool(r)} IN
       IF Cardinality(calls) < ToolLimit[Tool(r)]
       THEN /\ IF Route(r) = "batch" THEN Go(r, "run") ELSE Go(r, "balance")
            /\ UNCHANGED call
            /\ admitted' = IF Rest(r) /\ since[r] = now
                           THEN admitted \cup {EventOf(r)} ELSE admitted
       ELSE /\ IF Route(r) = "batch" THEN NextCall(r) ELSE Go(r, "rejected") /\ UNCHANGED call
            /\ UNCHANGED admitted
    /\ UNCHANGED <<clock, begun, stamp, events, bill, gate, proofs, ran>>

RecordEventAfter(r) ==
    /\ pc[r] = "event"
    /\ events' = events \cup {EventOf(r)}
    /\ NextCall(r)
    /\ UNCHANGED <<clock, begun, stamp, admitted, bill, gate, proofs, ran>>

-----------------------------------------------------------------------------
\* The balance, of which nothing is held, and the budget, which only the REST
\* routes ask about.
CheckBalance(r) ==
    /\ pc[r] = "balance"
    /\ Go(r, IF TotalCost(r) > 0 /\ balance < TotalCost(r) THEN "rejected"
             ELSE IF Rest(r) THEN "budget" ELSE FirstCall(r))
    /\ UNCHANGED <<clock, call, begun, stamp, rates, bill, gate, proofs, ran>>

CostOf(S) == Sum([x \in S |-> x.cost], S)
SpentSince(time) == CostOf({u \in usage : ~ByProof(u.by) /\ u.at >= time})

Past(r) == IF Route(r) = "gate" /\ Key(r) # NoKey THEN "reserve" ELSE "run"

\* Requests the budget has admitted and not recorded yet.
Admitted == {"reserve", "lookup", "evict", "reinsert", "run", "findUsage", "insertUsage"}
Unrecorded(r) == \E q \in Requests \ {r} : Rest(q) /\ pc[q] \in Admitted

\* Mutant: what has been spent is compared, what is asked for is not.
CheckSpent(r) ==
    /\ pc[r] = "budget"
    /\ Go(r, IF (TotalCost(r) > 0 \/ Route(r) = "gate") /\ SpentSince(now - Day) > DailyCap
             THEN "rejected" ELSE Past(r))
    /\ unbudgeted' = IF Unrecorded(r) THEN unbudgeted \cup {r} ELSE unbudgeted
    /\ UNCHANGED <<clock, call, begun, stamp, rates, usage, balance, charged, gate, proofs, ran>>

\* A free call is not checked, unless it names an amount.
CheckBudget(r) ==
    /\ pc[r] = "budget"
    /\ Go(r, IF /\ TotalCost(r) > 0 \/ Route(r) = "gate"
                /\ SpentSince(now - Day) + TotalCost(r) > DailyCap
             THEN "rejected" ELSE Past(r))
    /\ unbudgeted' = IF Unrecorded(r) THEN unbudgeted \cup {r} ELSE unbudgeted
    /\ UNCHANGED <<clock, call, begun, stamp, rates, usage, balance, charged, gate, proofs, ran>>

-----------------------------------------------------------------------------
\* The Idempotency-Key gate, check_idempotency and record_idempotent_response.

Enter(r, row) == /\ entered' = entered \cup {[by |-> r, at |-> row.at]}
                 /\ Go(r, "run")

NewRow(r, time) == [body |-> job[r].body, reply |-> {}, at |-> time]

\* INSERT OR IGNORE of a placeholder.
ReserveKey(r) ==
    /\ pc[r] = "reserve"
    /\ stamp' = [stamp EXCEPT ![r] = now]
    /\ cache' = IF cache[Key(r)] = NoRow THEN [cache EXCEPT ![Key(r)] = NewRow(r, now)] ELSE cache
    /\ Go(r, "lookup")
    /\ UNCHANGED <<clock, call, begun, rates, bill, entered, clobbered, proofs, ran>>

\* Mutant: the row is not asked for its body.
LookupAnyBody(r) ==
    /\ pc[r] = "lookup"
    /\ LET row == cache[Key(r)] IN
       IF row = NoRow THEN Enter(r, NewRow(r, stamp[r]))
       ELSE IF Expired(row, stamp[r]) THEN Go(r, "evict") /\ UNCHANGED entered
       ELSE IF row.reply = {} THEN Enter(r, row)
       ELSE Go(r, "replayed") /\ UNCHANGED entered
    /\ clobbered' = IF cache[Key(r)] = NoRow THEN clobbered \cup {Key(r)} ELSE clobbered
    /\ UNCHANGED <<clock, call, begun, stamp, rates, bill, cache, proofs, ran>>

\* The SELECT: an old row makes place, another body is a conflict, a
\* placeholder lets the request through, a response is the answer.
LookupKey(r) ==
    /\ pc[r] = "lookup"
    /\ LET row == cache[Key(r)] IN
       IF row = NoRow THEN Enter(r, NewRow(r, stamp[r]))
       ELSE IF Expired(row, stamp[r]) THEN Go(r, "evict") /\ UNCHANGED entered
       ELSE IF row.body # job[r].body THEN Go(r, "rejected") /\ UNCHANGED entered
       ELSE IF row.reply = {} THEN Enter(r, row)
       ELSE Go(r, "replayed") /\ UNCHANGED entered
    /\ clobbered' = IF cache[Key(r)] = NoRow THEN clobbered \cup {Key(r)} ELSE clobbered
    /\ UNCHANGED <<clock, call, begun, stamp, rates, bill, cache, proofs, ran>>

\* The DELETE of an old row, or of the one that has replaced it by now.
InUse(r) == \E q \in Requests \ {r} :
    /\ Route(q) = "gate" /\ Key(q) = Key(r)
    /\ pc[q] \in {"run", "findUsage", "insertUsage", "charge", "respond"}

EvictKey(r) ==
    /\ pc[r] = "evict"
    /\ clobbered' = IF \/ InUse(r)
                       \/ cache[Key(r)] # NoRow /\ ~Expired(cache[Key(r)], stamp[r])
                    THEN clobbered \cup {Key(r)} ELSE clobbered
    /\ cache' = [cache EXCEPT ![Key(r)] = NoRow]
    /\ Go(r, "reinsert")
    /\ UNCHANGED <<clock, call, begun, stamp, rates, bill, entered, proofs, ran>>

\* The INSERT, which the primary key refuses when another one was faster.
ReinsertKey(r) ==
    /\ pc[r] = "reinsert"
    /\ IF cache[Key(r)] = NoRow
       THEN /\ cache' = [cache EXCEPT ![Key(r)] = NewRow(r, stamp[r])]
            /\ Enter(r, NewRow(r, stamp[r]))
       ELSE Go(r, "error") /\ UNCHANGED <<cache, entered>>
    /\ UNCHANGED <<clock, call, begun, stamp, rates, bill, clobbered, proofs, ran>>

\* The response goes to whatever row has the key by now.
RecordResponse(r) ==
    /\ pc[r] = "respond"
    /\ cache' = IF cache[Key(r)] = NoRow THEN cache ELSE [cache EXCEPT ![Key(r)].reply = {r}]
    /\ Go(r, "done")
    /\ UNCHANGED <<clock, call, begun, stamp, rates, bill, entered, clobbered, proofs, ran>>

-----------------------------------------------------------------------------
\* The tool, which may refuse; what a call of it does is modelled elsewhere.
RunTool(r) ==
    /\ pc[r] = "run"
    /\ \/ ran' = ran \cup {<<r, call[r]>>} /\ Go(r, "findUsage")
       \/ UNCHANGED ran /\ Go(r, IF Route(r) = "batch" THEN "findUsage" ELSE "error")
    /\ UNCHANGED <<clock, call, begun, stamp, rates, bill, gate, proofs>>

\* record_usage.  The key of the row is the header's, which the calls of a
\* batch extend with their number, or the request's own.
UsageKey(r) == CASE Key(r) = NoKey \/ ~(job[r].header \/ Route(r) = "execute") ->
                        <<r, call[r]>>
                 [] OTHER -> <<Key(r), IF Route(r) = "batch" THEN call[r] ELSE 0>>

UsageKnown(r) == \E u \in usage : u.key = UsageKey(r)

\* What follows a usage record.
Billed(r) == IF ByProof(r) THEN IF Route(r) = "batch" THEN NextCall(r)
                                ELSE Go(r, "settle") /\ UNCHANGED call
             ELSE Go(r, "charge") /\ UNCHANGED call

\* The SELECT: a record with the key is enough, and the call is charged for.
FindUsage(r) ==
    /\ pc[r] = "findUsage"
    /\ stamp' = [stamp EXCEPT ![r] = now]
    /\ IF UsageKnown(r)
       THEN unbudgeted' = unbudgeted \cup {r} /\ Billed(r)
       ELSE UNCHANGED <<unbudgeted, call>> /\ Go(r, "insertUsage")
    /\ UNCHANGED <<clock, begun, rates, usage, balance, charged, gate, proofs, ran>>

\* The INSERT, which the UNIQUE index on the key may refuse: nothing catches
\* that, and nothing is charged.
InsertUsage(r) ==
    /\ pc[r] = "insertUsage"
    /\ IF UsageKnown(r)
       THEN Go(r, "error") /\ UNCHANGED <<call, usage>>
       ELSE /\ usage' = usage \cup {[by |-> r, key |-> UsageKey(r), cost |-> Cost[Tool(r)],
                                     at |-> stamp[r]]}
            /\ Billed(r)
    /\ UNCHANGED <<clock, begun, stamp, rates, balance, charged, unbudgeted, gate, proofs, ran>>

\* Whether the caller's rate event is still to come.
Charged(r) == IF Rest(r) THEN NextCall(r) ELSE Go(r, "event") /\ UNCHANGED call

\* Mutant: what cannot be paid is not charged, and the call succeeds.
ChargeIfPossible(r) ==
    /\ pc[r] = "charge"
    /\ LET n == Cost[Tool(r)] IN
       IF n > 0 /\ balance >= n
       THEN /\ balance' = balance - n
            /\ charged' = charged \cup {[by |-> r, call |-> call[r], cost |-> n, at |-> stamp[r]]}
       ELSE UNCHANGED <<balance, charged>>
    /\ Charged(r)
    /\ UNCHANGED <<clock, begun, stamp, rates, usage, unbudgeted, gate, proofs, ran>>

\* wallet.charge: too little left is the answer, after the tool has run.
ChargeCall(r) ==
    /\ pc[r] = "charge"
    /\ LET n == Cost[Tool(r)] IN
       IF n = 0 THEN Charged(r) /\ UNCHANGED <<balance, charged>>
       ELSE IF balance >= n
       THEN /\ balance' = balance - n
            /\ charged' = charged \cup {[by |-> r, call |-> call[r], cost |-> n, at |-> stamp[r]]}
            /\ Charged(r)
       ELSE Go(r, "error") /\ UNCHANGED <<balance, charged, call>>
    /\ UNCHANGED <<clock, begun, stamp, rates, usage, unbudgeted, gate, proofs, ran>>

-----------------------------------------------------------------------------
\* x402: the proof pays for the call, and is settled after it.

\* The facilitator may refuse a proof, and may be out of reach.
Pending == queues[Len(queues)]
Enqueue(p) == queues' = [queues EXCEPT ![Len(queues)] = Append(@, p)]

\* Mutant: the nonce is looked for, and left to mark_nonce_used.
CheckNonce(r) ==
    /\ pc[r] = "nonce"
    /\ Go(r, IF Proof(r) \in nonces THEN "rejected" ELSE "verify")
    /\ UNCHANGED <<clock, call, begun, stamp, rates, bill, gate, proofs, ran>>

\* check_replay_persistent: the INSERT of the nonce decides.
ReserveNonce(r) ==
    /\ pc[r] = "nonce"
    /\ IF Proof(r) \in nonces
       THEN Go(r, "rejected") /\ UNCHANGED nonces
       ELSE Go(r, "verify") /\ nonces' = nonces \cup {Proof(r)}
    /\ UNCHANGED <<clock, call, begun, stamp, rates, bill, gate, queues, view, settled, dropped, ran>>

\* verify_with_facilitator: a refused proof keeps its nonce.
VerifyProof(r) ==
    /\ pc[r] = "verify"
    /\ \/ Go(r, FirstCall(r))
       \/ Go(r, "rejected")
    /\ UNCHANGED <<clock, call, begun, stamp, rates, bill, gate, proofs, ran>>

\* settle_with_facilitator: a failure, which may come after the fact, is queued
\* in memory, unless the call was a batch.
SettleProof(r) ==
    /\ pc[r] = "settle"
    /\ Go(r, "done")
    /\ \/ settled' = settled \cup {Proof(r)} /\ UNCHANGED <<queues, dropped>>
       \/ /\ settled' \in {settled, settled \cup {Proof(r)}}
          /\ IF Route(r) = "batch" THEN dropped' = dropped \cup {Proof(r)} /\ UNCHANGED queues
                                   ELSE Enqueue(Proof(r)) /\ UNCHANGED dropped
    /\ UNCHANGED <<clock, call, begun, stamp, rates, bill, gate, nonces, view, ran>>

\* retry_pending_settlements goes through the list, which may grow while it
\* waits, and replaces it by what was left when it began: another retry may
\* have replaced it before.
ListOf(r) == queues[view[r].list]

RetrySettlement(r) ==
    /\ pc[r] = "next" /\ view[r].next <= Len(ListOf(r))
    /\ LET p == ListOf(r)[view[r].next] IN
       \/ /\ settled' = settled \cup {p}
          /\ view' = [view EXCEPT ![r].next = @ + 1]
       \/ /\ settled' \in {settled, settled \cup {p}}
          /\ view' = [view EXCEPT ![r].next = @ + 1, ![r].left = Append(@, p)]
    /\ UNCHANGED <<clock, pc, call, begun, stamp, rates, bill, gate, nonces, queues, dropped, ran>>

ReplaceQueue(r) ==
    /\ pc[r] = "next" /\ view[r].next > Len(ListOf(r))
    /\ queues' = Append(queues, view[r].left)
    /\ dropped' = IF view[r].list = Len(queues) THEN dropped
                  ELSE dropped \cup (Range(Pending) \ Range(view[r].left))
    /\ Go(r, "done")
    /\ UNCHANGED <<clock, call, begun, stamp, rates, bill, gate, nonces, view, settled, ran>>

-----------------------------------------------------------------------------
\* The environment.

\* A request is over before the clock ticks twice.
Tick == /\ now < MaxTime
        /\ \A r \in Requests : Running(r) => since[r] = now
        /\ now' = now + 1
        /\ UNCHANGED <<job, faults, pc, call, begun, stamp, rates, bill, gate, proofs, ran>>

\* RequestTimeoutMiddleware cancels the request at the await it stands at.
TimeOut(r) ==
    /\ Running(r) /\ faults < MaxFaults
    /\ faults' = faults + 1
    /\ Go(r, "504")
    /\ UNCHANGED <<job, now, call, begun, stamp, rates, bill, gate, proofs, ran>>

\* A crash ends every coroutine, and the list of pending settlements.
Crash ==
    /\ faults < MaxFaults /\ \E r \in Requests : Running(r) \/ Len(Pending) > 0
    /\ faults' = faults + 1
    /\ pc' = [r \in Requests |-> IF Running(r) THEN "lost" ELSE pc[r]]
    /\ queues' = Append(queues, <<>>)
    /\ dropped' = dropped \cup Range(Pending)
    /\ UNCHANGED <<job, now, call, begun, stamp, rates, bill, gate, nonces, view,
                   settled, ran>>

Step(r) == \/ Begin(r) \/ RecordEvent(r) \/ CountHour(r) \/ CountBurst(r) \/ CountTool(r)
           \/ CheckBalance(r) \/ CheckBudget(r) \/ RunTool(r) \/ FindUsage(r)
           \/ InsertUsage(r) \/ ChargeCall(r) \/ RecordEventAfter(r)
           \/ ReserveKey(r) \/ LookupKey(r) \/ EvictKey(r) \/ ReinsertKey(r) \/ RecordResponse(r)
           \/ ReserveNonce(r) \/ VerifyProof(r) \/ SettleProof(r)
           \/ RetrySettlement(r) \/ ReplaceQueue(r)

Terminating == (\A r \in Requests : pc[r] \in Terminal) /\ UNCHANGED vars

Init ==
    /\ job \in Workloads
    /\ now = 0 /\ faults = 0
    /\ pc = [r \in Requests |-> IF job[r].route = "idle" THEN "done" ELSE "new"]
    /\ call = [r \in Requests |-> 1]
    /\ since = [r \in Requests |-> 0] /\ stamp = [r \in Requests |-> 0]
    /\ events = {} /\ usage = {} /\ balance = Start
    /\ cache = [k \in Keys |-> IF k \in OldKeys THEN OldRow ELSE NoRow]
    /\ nonces = {} /\ settled = {}
    /\ queues = <<<<>>>>
    /\ view = [r \in Requests |-> [list |-> 1, next |-> 1, left |-> <<>>]]
    /\ ran = {} /\ charged = {} /\ admitted = {} /\ unbudgeted = {}
    /\ entered = {} /\ clobbered = {} /\ dropped = {}
    /\ after = [r \in Requests |-> {}]

Next == (\E r \in Requests : Step(r) \/ TimeOut(r)) \/ Tick \/ Crash \/ Terminating

Spec == Init /\ [][Next]_vars

-----------------------------------------------------------------------------
\* Properties.

\* deps/rate_limit.py records before it counts "so that concurrent requests
\* each see an up-to-date count": the REST calls of a tool that are admitted
\* within an hour stay below its limit, however they interleave.  A call that
\* is recorded in one tick and counted in the next is left out.
RateBounded ==
    \A x \in admitted :
       Cardinality({y \in admitted : /\ y.tool = x.tool
                                     /\ y.at \in (x.at - Hour)..x.at}) < ToolLimit[x.tool]

\* What the calls the budget saw have cost within a day is never more than the
\* budget: whoever was admitted while another one had not been recorded, and
\* whoever repeated the key of a usage record, is not among them.
BudgetRespected ==
    \A t \in 0..now :
       CostOf({c \in charged : Rest(c.by) /\ c.by \notin unbudgeted /\ c.at \in (t - Day)..t})
       <= DailyCap

\* Who gets an answer has paid for what has run, once, and for nothing else: a
\* batch also for the calls that failed and never for those it left out;
\* who was rejected, or got a recorded answer, has paid nothing; a proof pays
\* for everything by itself.
ChargesOf(r) == {c \in charged : c.by = r}
PaidFor(r) == {c.call : c \in ChargesOf(r)}
WorkOf(r) == {n \in DOMAIN job[r].calls : <<r, n>> \in ran}
BillsMatchWork ==
    /\ balance = Start - CostOf(charged)
    /\ \A r \in Requests :
          LET costly == {n \in DOMAIN job[r].calls : Cost[job[r].calls[n]] > 0} IN
          /\ Cardinality(ChargesOf(r)) = Cardinality(PaidFor(r))
          /\ pc[r] \in {"rejected", "replayed"} \/ ByProof(r) => ChargesOf(r) = {}
          /\ Route(r) # "batch" => PaidFor(r) \subseteq WorkOf(r)
          /\ pc[r] = "done" /\ ~ByProof(r) =>
                WorkOf(r) \cap costly \subseteq PaidFor(r)

\* A key stands for one request body (deps/idempotency.py): two bodies pass
\* the gate with one key only when the row of the first had expired, and who
\* asks after the answer was recorded does not pass again; unless an eviction
\* removed a row that another one had just made.  The response that is
\* replayed is one to the same body.  A key in the body only gets no recorded
\* answer.
KeyBindsBody ==
    /\ \A k \in Keys \ clobbered : \A q \in cache[k].reply : job[q].body = cache[k].body
    /\ \A x, y \in entered : LET q == x.by  r == y.by IN
          Key(q) = Key(r) /\ q # r /\ Key(q) \notin clobbered =>
             /\ job[q].body # job[r].body => x.at < y.at - Ttl \/ y.at < x.at - Ttl
             /\ job[q].header /\ q \in after[r] => x.at # y.at

\* A proof pays for one request (x402.py); and when that request was answered
\* well, the proof is settled or waits to be, unless a crash, a batch whose
\* settlement failed or overlapping retries lost it; and a call whose tool
\* failed does not settle its proof, but a batch does.
ProofAccounted ==
    /\ \A q, r \in Requests :
          ByProof(q) /\ q # r /\ Proof(q) = Proof(r) => WorkOf(q) = {} \/ WorkOf(r) = {}
    /\ \A r \in Requests : ByProof(r) =>
          /\ pc[r] = "done" => Proof(r) \in settled \cup Range(Pending) \cup dropped
          /\ Proof(r) \in settled /\ Route(r) = "execute" =>
                \E q \in Requests : Proof(q) = Proof(r) /\ (WorkOf(q) # {} \/ Route(q) = "batch")
=============================================================================
