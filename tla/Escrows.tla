------------------------------- MODULE Escrows -------------------------------
(***************************************************************************)
(* Escrows and the disputes about them: PaymentEngine's escrow methods     *)
(* (products/payments/src/engine.py), the subscription scheduler's expiry  *)
(* pass (scheduler.py) and gateway/src/disputes.py.  Funds, escrow rows    *)
(* and disputes live in three databases, so each method is a sequence of   *)
(* separately committed steps, and anybody may run between two of them.    *)
(* A wallet call is one step here; Wallet.tla looks inside.  So is a       *)
(* storage write with its commit.                                          *)
(***************************************************************************)
EXTENDS Sums

CONSTANTS Agents, Escrows, Disputes, Keys, NoKey, None,
          Requests, Scheduler,
          Workloads,        \* what the requests may ask: a set of functions
          Terms,            \* payer, payee, amount, timeout? of each escrow
          Subject,          \* the escrow of each dispute
          Held0, Open0,     \* escrows held and disputes open at the start
          RowId,            \* the order of the rows in their tables
          Wallets0, Start,  \* agents with a wallet, and their credits
          Freezable,        \* wallets an administrator may freeze
          MaxFaults         \* crashes and request timeouts

Procs == Requests \cup {Scheduler}

Ops == {"create", "release", "refund", "perf", "due",
        "open", "respond", "resolve", "sweep"}
Verdicts == {"release", "refund"}
Job == [op : Ops, esc : Escrows \cup {None}, dispute : Disputes \cup {None},
        key : Keys \cup {NoKey}, verdict : Verdicts]
EscrowOps == {"create", "release", "refund", "perf"}
DisputeOps == {"open", "respond", "resolve"}

\* A created row has an id of its own; the others name any row.
FreshIds(w) ==
    /\ \A r \in Requests :
           /\ w[r].op \in EscrowOps => w[r].esc \in Escrows
           /\ w[r].op \in DisputeOps => w[r].dispute \in Disputes
           /\ w[r].op = "create" => w[r].esc \notin Held0
           /\ w[r].op = "open" => w[r].dispute \notin Open0
    /\ \A r, s \in Requests : r # s /\ w[r].op = w[s].op =>
           /\ w[r].op = "create" => w[r].esc # w[s].esc
           /\ w[r].op = "open" => w[r].dispute # w[s].dispute

ASSUME EscrowConstants ==
    /\ NoKey \notin Keys
    /\ None \notin Escrows \cup Disputes
    /\ Scheduler \notin Requests
    /\ Escrows \cap Disputes = {}
    /\ Terms \in [Escrows -> [payer : Agents, payee : Agents, amount : Int,
                              timed : BOOLEAN, gated : BOOLEAN]]
    /\ Subject \in [Disputes -> Escrows]
    /\ Held0 \subseteq Escrows /\ Open0 \subseteq Disputes
    /\ \A d \in Open0 : Subject[d] \in Held0
    /\ \A e \in Held0 : Terms[e].amount > 0 /\ Terms[e].payer \in Wallets0
    /\ RowId \in [Escrows \cup Disputes -> Nat]
    /\ Wallets0 \subseteq Agents /\ Freezable \subseteq Agents
    /\ Start \in [Agents -> Nat]
    /\ Workloads \subseteq [Requests -> Job]
    /\ \A w \in Workloads : FreshIds(w)
    /\ MaxFaults \in Nat

\* Tables have finitely many rows.
ASSUME EscrowTables == IsFiniteSet(Agents) /\ IsFiniteSet(Escrows)

VARIABLES
    job,          \* the workload
    balance,      \* credits of each wallet
    frozen,       \* frozen wallets
    status,       \* escrows.status, "none" before the row exists
    settlements,  \* settlement rows: who inserted one, for which escrow
    dispute,      \* disputes.status and disputes.resolution
    overdue,      \* escrows and disputes past timeout_at / deadline_at
    pc, loc,      \* where each coroutine is, and its locals
    faults,
    paid,         \* history: how often each escrow was paid out
    raced         \* history: escrows whose steps overlapped another's

vars == <<job, balance, frozen, status, settlements, dispute, overdue,
          pc, loc, faults, paid, raced>>
tables == <<balance, status, settlements, dispute>>
history == <<paid, raced>>
environment == <<job, frozen, overdue, faults>>

Closed == {"settled", "refunded", "expired"}

Outcome == [release |-> "settled", refund |-> "refunded", expire |-> "expired"]

Terminal == {"done", "rejected", "error", "lost", "504"}
Running == {"hold", "insert", "read", "pay", "record", "close", "decide",
            "next", "resolve", "openInsert", "respondWrite"}

Op(p) == IF p = Scheduler THEN "due" ELSE job[p].op
Key(p) == IF p = Scheduler \/ Op(p) # "release" THEN NoKey ELSE job[p].key

Beneficiary(e, how) == IF how = "release" THEN Terms[e].payee ELSE Terms[e].payer

Go(p, next) == pc' = [pc EXCEPT ![p] = next]

\* Where a payout that succeeded leaves its caller.
Succeeded(p) == IF loc[p].dispute # None THEN "decide"
                ELSE IF Op(p) = "due" THEN "next" ELSE "done"

\* Mutant: an exception ends the polling loop.
RaisedEndsLoop(p) == IF Op(p) = "sweep" THEN "next" ELSE "error"

\* Where one that raised does: the first exception aborts an expiry pass, the
\* dispute sweep logs it and goes on.
Raised(p) == IF Op(p) = "sweep" THEN "next"
             ELSE IF p = Scheduler THEN "idle" ELSE "error"
Finished(p) == IF Op(p) = "sweep" THEN "next" ELSE "done"

-----------------------------------------------------------------------------
\* create_escrow

KeyHeld(k) == \E r \in Requests : /\ job[r].op = "create" /\ job[r].key = k
                                  /\ status[job[r].esc] # "none"

Creating(k) == {r \in Requests : /\ job[r].op = "create" /\ job[r].key = k
                                 /\ pc[r] \in {"hold", "insert"}}

Invalid(e) == Terms[e].amount <= 0 \/ Terms[e].payer = Terms[e].payee

\* Mutant: the key is not looked up.
LookupEscrowNoKey(r) ==
    /\ pc[r] = "new" /\ Op(r) = "create"
    /\ Go(r, IF Invalid(job[r].esc) THEN "rejected" ELSE "hold")
    /\ UNCHANGED <<tables, environment, loc, history>>

\* Validation, then the lookup of the key.
LookupEscrow(r) ==
    /\ pc[r] = "new" /\ Op(r) = "create"
    /\ LET k == job[r].key
           others == IF k = NoKey THEN {} ELSE Creating(k)
       IN IF Invalid(job[r].esc)
          THEN Go(r, "rejected") /\ UNCHANGED raced
          ELSE IF k # NoKey /\ KeyHeld(k)
          THEN Go(r, "done") /\ UNCHANGED raced
          ELSE /\ Go(r, "hold")
               /\ raced' = IF others = {} THEN raced
                           ELSE raced \cup {job[s].esc : s \in others \cup {r}}
    /\ UNCHANGED <<tables, environment, loc, paid>>

\* wallet.withdraw of the payer.
Hold(r) ==
    /\ pc[r] = "hold"
    /\ LET t == Terms[job[r].esc] IN
       IF t.payer \in Wallets0 \ frozen /\ balance[t.payer] >= t.amount
       THEN /\ balance' = [balance EXCEPT ![t.payer] = @ - t.amount]
            /\ Go(r, "insert")
       ELSE Go(r, "rejected") /\ UNCHANGED balance
    /\ UNCHANGED <<status, settlements, dispute, environment, loc, history>>

\* insert_escrow: the UNIQUE index on the key may refuse the row after the
\* payer has paid.
InsertEscrow(r) ==
    /\ pc[r] = "insert"
    /\ IF job[r].key # NoKey /\ KeyHeld(job[r].key)
       THEN Go(r, "error") /\ UNCHANGED status
       ELSE /\ status' = [status EXCEPT ![job[r].esc] = "held"]
            /\ Go(r, "done")
    /\ UNCHANGED <<balance, settlements, dispute, environment, loc, history>>

-----------------------------------------------------------------------------
\* The payouts: release_escrow, refund_escrow and expire_escrow.

StartPayout(p, e, how) ==
    /\ loc' = [loc EXCEPT ![p].esc = e, ![p].how = how]
    /\ Go(p, "read")

Settled(k) == \E s \in settlements : Key(s[1]) = k

Releasing(k) == {r \in Requests : /\ Key(r) = k
                                  /\ pc[r] \in {"read", "pay", "record"}}

\* release_escrow: the settlement with the key, if any, is the answer.
LookupSettlement(r) ==
    /\ pc[r] = "new" /\ Op(r) = "release"
    /\ LET k == Key(r)
           others == IF k = NoKey THEN {} ELSE Releasing(k)
       IN IF k # NoKey /\ Settled(k)
          THEN Go(r, "done") /\ UNCHANGED <<loc, raced>>
          ELSE /\ StartPayout(r, job[r].esc, "release")
               /\ raced' = IF others = {} THEN raced
                           ELSE raced \cup {job[s].esc : s \in others \cup {r}}
    /\ UNCHANGED <<tables, environment, paid>>

CancelEscrow(r) ==
    /\ pc[r] = "new" /\ Op(r) = "refund"
    /\ StartPayout(r, job[r].esc, "refund")
    /\ UNCHANGED <<tables, environment, history>>

\* check_performance_escrow: releases, without a key, a held gated escrow
\* whose payee has a claim that meets the threshold.
CheckPerformance(r, met) ==
    /\ pc[r] = "new" /\ Op(r) = "perf"
    /\ LET e == job[r].esc IN
       IF Terms[e].gated /\ status[e] = "held" /\ met
       THEN StartPayout(r, e, "release")
       ELSE Go(r, "done") /\ UNCHANGED loc
    /\ UNCHANGED <<tables, environment, history>>

Paying(e) == {p \in Procs : loc[p].esc = e /\ pc[p] \in {"pay", "record", "close"}}

\* Mutant: the status is not checked.
ReadAnyEscrow(p) ==
    /\ pc[p] = "read"
    /\ Go(p, IF status[loc[p].esc] # "none" THEN "pay" ELSE Raised(p))
    /\ raced' = IF Paying(loc[p].esc) # {} THEN raced \cup {loc[p].esc} ELSE raced
    /\ UNCHANGED <<tables, environment, loc, paid>>

\* get_escrow and the status check; a keyed refund of a refunded escrow is
\* answered again.
ReadEscrow(p) ==
    /\ pc[p] = "read"
    /\ LET e == loc[p].esc IN
       IF status[e] = "held"
       THEN /\ Go(p, "pay")
            /\ raced' = IF Paying(e) # {} THEN raced \cup {e} ELSE raced
       ELSE /\ Go(p, IF /\ Op(p) = "refund" /\ job[p].key # NoKey
                        /\ status[e] = "refunded"
                     THEN "done" ELSE Raised(p))
            /\ UNCHANGED raced
    /\ UNCHANGED <<tables, environment, loc, paid>>

\* Mutant: an exception of the deposit is swallowed.
PayRegardless(p) ==
    /\ pc[p] = "pay"
    /\ LET e == loc[p].esc
           a == Beneficiary(e, loc[p].how)
           ok == a \in Wallets0 \ frozen
       IN /\ balance' = IF ok THEN [balance EXCEPT ![a] = @ + Terms[e].amount]
                        ELSE balance
          /\ paid' = IF ok THEN [paid EXCEPT ![e] = @ + 1] ELSE paid
    /\ Go(p, IF loc[p].how = "release" THEN "record" ELSE "close")
    /\ UNCHANGED <<status, settlements, dispute, environment, loc, raced>>

\* wallet.deposit raises for a frozen wallet and for no wallet.
Pay(p) ==
    /\ pc[p] = "pay"
    /\ LET e == loc[p].esc
           a == Beneficiary(e, loc[p].how)
       IN IF a \in Wallets0 \ frozen
          THEN /\ balance' = [balance EXCEPT ![a] = @ + Terms[e].amount]
               /\ paid' = [paid EXCEPT ![e] = @ + 1]
               /\ Go(p, IF loc[p].how = "release" THEN "record" ELSE "close")
          ELSE Go(p, Raised(p)) /\ UNCHANGED <<balance, paid>>
    /\ UNCHANGED <<status, settlements, dispute, environment, loc, raced>>

\* insert_settlement, whose UNIQUE key may refuse the row after the payee
\* has been paid.
Record(p) ==
    /\ pc[p] = "record"
    /\ IF Key(p) # NoKey /\ Settled(Key(p))
       THEN Go(p, Raised(p)) /\ UNCHANGED settlements
       ELSE /\ settlements' = settlements \cup {<<p, loc[p].esc>>}
            /\ Go(p, "close")
    /\ UNCHANGED <<balance, status, dispute, environment, loc, history>>

\* update_escrow_status has no condition on the status it replaces.
Close(p) ==
    /\ pc[p] = "close"
    /\ status' = [status EXCEPT ![loc[p].esc] = Outcome[loc[p].how]]
    /\ Go(p, Succeeded(p))
    /\ UNCHANGED <<balance, settlements, dispute, environment, loc, history>>

-----------------------------------------------------------------------------
\* process_expired_escrows, by the polling loop and by the tool call.

\* get_expired_escrows: a snapshot.
ListExpired(p) ==
    /\ Op(p) = "due" /\ pc[p] = IF p = Scheduler THEN "idle" ELSE "new"
    /\ loc' = [loc EXCEPT ![p].todo = {e \in Escrows \cap overdue : status[e] = "held"}]
    /\ Go(p, "next")
    /\ UNCHANGED <<tables, environment, history>>

\* process_expired_disputes: a snapshot of the disputes past their deadline.
ListLate(r) ==
    /\ pc[r] = "new" /\ Op(r) = "sweep"
    /\ loc' = [loc EXCEPT ![r].todo =
                  {d \in Disputes \cap overdue : dispute[d].status \in {"open", "responded"}}]
    /\ Go(r, "next")
    /\ UNCHANGED <<tables, environment, history>>

\* The next row of the snapshot; a query without ORDER BY lists by rowid.
NextRow(p, x) ==
    /\ pc[p] = "next" /\ x \in loc[p].todo
    /\ \A y \in loc[p].todo : RowId[x] <= RowId[y]
    /\ loc' = [loc EXCEPT ![p].todo = @ \ {x},
                          ![p].esc = IF x \in Escrows THEN x ELSE @,
                          ![p].how = IF x \in Escrows THEN "expire" ELSE @,
                          ![p].dispute = IF x \in Disputes THEN x ELSE None]
    /\ Go(p, IF x \in Escrows THEN "read" ELSE "resolve")
    /\ UNCHANGED <<tables, environment, history>>

EndPass(p) ==
    /\ pc[p] = "next" /\ loc[p].todo = {}
    /\ Go(p, IF p = Scheduler THEN "idle" ELSE "done")
    /\ UNCHANGED <<tables, environment, loc, history>>

-----------------------------------------------------------------------------
\* Disputes.

\* open_dispute: only about a held escrow - at the time of reading.
OpenDispute(r) ==
    /\ pc[r] = "new" /\ Op(r) = "open"
    /\ Go(r, IF status[Subject[job[r].dispute]] = "held" THEN "openInsert"
             ELSE "rejected")
    /\ UNCHANGED <<tables, environment, loc, history>>

InsertDispute(r) ==
    /\ pc[r] = "openInsert"
    /\ dispute' = [dispute EXCEPT ![job[r].dispute].status = "open"]
    /\ Go(r, "done")
    /\ UNCHANGED <<balance, status, settlements, environment, loc, history>>

Respond(r) ==
    /\ pc[r] = "new" /\ Op(r) = "respond"
    /\ Go(r, IF dispute[job[r].dispute].status = "open" THEN "respondWrite"
             ELSE "rejected")
    /\ UNCHANGED <<tables, environment, loc, history>>

WriteResponse(r) ==
    /\ pc[r] = "respondWrite"
    /\ dispute' = [dispute EXCEPT ![job[r].dispute].status = "responded"]
    /\ Go(r, "done")
    /\ UNCHANGED <<balance, status, settlements, environment, loc, history>>

\* Mutant: a dispute about an escrow that is closed already is resolved.
ResolveWithoutPayout(r) ==
    /\ \/ pc[r] = "resolve"
       \/ pc[r] = "new" /\ Op(r) = "resolve"
    /\ LET d == IF Op(r) = "sweep" THEN loc[r].dispute ELSE job[r].dispute
           verdict == IF Op(r) = "sweep" THEN "refund" ELSE job[r].verdict
       IN IF dispute[d].status \in {"open", "responded"}
          THEN /\ loc' = [loc EXCEPT ![r].esc = Subject[d], ![r].how = verdict,
                                     ![r].dispute = d]
               /\ Go(r, IF status[Subject[d]] = "held" THEN "read" ELSE "decide")
          ELSE Go(r, Raised(r)) /\ UNCHANGED loc
    /\ UNCHANGED <<tables, environment, history>>

\* resolve_dispute: the status check and the branch on the resolution; the
\* sweep resolves every dispute of its list as a refund.
ResolveDispute(r) ==
    /\ \/ pc[r] = "resolve"
       \/ pc[r] = "new" /\ Op(r) = "resolve"
    /\ LET d == IF Op(r) = "sweep" THEN loc[r].dispute ELSE job[r].dispute
           verdict == IF Op(r) = "sweep" THEN "refund" ELSE job[r].verdict
       IN IF dispute[d].status \in {"open", "responded"}
          THEN /\ loc' = [loc EXCEPT ![r].esc = Subject[d], ![r].how = verdict,
                                     ![r].dispute = d]
               /\ Go(r, "read")
          ELSE Go(r, Raised(r)) /\ UNCHANGED loc
    /\ UNCHANGED <<tables, environment, history>>

\* The UPDATE that closes the dispute, after the payout.
Decide(r) ==
    /\ pc[r] = "decide"
    /\ dispute' = [dispute EXCEPT ![loc[r].dispute] =
                      [status |-> "resolved", resolution |-> loc[r].how]]
    /\ Go(r, Finished(r))
    /\ UNCHANGED <<balance, status, settlements, environment, loc, history>>

-----------------------------------------------------------------------------
\* Time passes; an administrator freezes and unfreezes wallets.
Expire(x) ==
    /\ x \notin overdue
    /\ IF x \in Escrows THEN Terms[x].timed /\ status[x] = "held"
       ELSE dispute[x].status # "none"
    /\ overdue' = overdue \cup {x}
    /\ UNCHANGED <<job, tables, frozen, pc, loc, faults, history>>

SetFrozen(a) ==
    /\ frozen' = IF a \in frozen THEN frozen \ {a} ELSE frozen \cup {a}
    /\ UNCHANGED <<job, tables, overdue, pc, loc, faults, history>>

\* What a coroutine leaves half done when it is cut off where it stands: an
\* escrow paid for without its row, or one paid out under the status HELD.
LeftBehind(p) == IF pc[p] = "insert" THEN {job[p].esc}
                 ELSE IF pc[p] \in {"record", "close"} THEN {loc[p].esc} ELSE {}

\* RequestTimeoutMiddleware cancels the request.  No handler of the engine or
\* of the disputes catches the CancelledError; the scheduler is no request.
TimeOut(r) ==
    /\ pc[r] \in Running /\ faults < MaxFaults
    /\ faults' = faults + 1
    /\ Go(r, "504")
    /\ raced' = raced \cup LeftBehind(r)
    /\ UNCHANGED <<job, tables, frozen, overdue, loc, paid>>

\* Everything is committed step by step, so a crash only loses coroutines;
\* the lifespan starts a new scheduler.
CrashProcess ==
    /\ faults < MaxFaults
    /\ faults' = faults + 1
    /\ pc' = [p \in Procs |-> IF p = Scheduler THEN "idle"
                              ELSE IF pc[p] \in Running THEN "lost" ELSE pc[p]]
    /\ raced' = raced \cup UNION {LeftBehind(p) : p \in Procs}
    /\ UNCHANGED <<job, tables, frozen, overdue, loc, paid>>

-----------------------------------------------------------------------------
Init ==
    /\ job \in Workloads
    /\ balance = Start
    /\ frozen = {}
    /\ status = [e \in Escrows |-> IF e \in Held0 THEN "held" ELSE "none"]
    /\ settlements = {}
    /\ dispute = [d \in Disputes |-> [status |-> IF d \in Open0 THEN "open" ELSE "none",
                                      resolution |-> "none"]]
    /\ overdue = {}
    /\ pc = [p \in Procs |-> IF p = Scheduler THEN "idle" ELSE "new"]
    /\ loc = [p \in Procs |-> [esc |-> None, how |-> "release", dispute |-> None, todo |-> {}]]
    /\ faults = 0
    /\ paid = [e \in Escrows |-> 0]
    /\ raced = {}

Arrive(r) ==
    \/ LookupEscrow(r) \/ LookupSettlement(r) \/ CancelEscrow(r)
    \/ (\E met \in BOOLEAN : CheckPerformance(r, met))
    \/ ListLate(r) \/ OpenDispute(r) \/ Respond(r)

Continue(p) ==
    \/ ReadEscrow(p) \/ Pay(p) \/ Record(p) \/ Close(p)
    \/ (\E x \in Escrows \cup Disputes : NextRow(p, x)) \/ EndPass(p)

ContinueRequest(r) ==
    \/ Continue(r) \/ Hold(r) \/ InsertEscrow(r)
    \/ InsertDispute(r) \/ WriteResponse(r) \/ Decide(r)
    \/ pc[r] = "resolve" /\ ResolveDispute(r)

Next ==
    \/ \E r \in Requests : Arrive(r) \/ ResolveDispute(r) \/ ContinueRequest(r) \/ TimeOut(r)
    \/ \E p \in Procs : ListExpired(p)
    \/ Continue(Scheduler)
    \/ \E x \in Escrows \cup Disputes : Expire(x)
    \/ \E a \in Freezable : SetFrozen(a)
    \/ CrashProcess

\* The event loop runs every ready coroutine, and the scheduler's loop polls
\* for ever (scheduler.run has no end in the gateway).  Requests, the clock,
\* the administrator, timeouts and crashes owe nothing.
Fairness ==
    /\ \A r \in Requests : WF_vars(ContinueRequest(r))
    /\ WF_vars(ListExpired(Scheduler) \/ Continue(Scheduler))

Spec == Init /\ [][Next]_vars /\ Fairness

-----------------------------------------------------------------------------
Quiet == \A p \in Procs : pc[p] \in {"new", "idle"} \cup Terminal

\* An escrow is paid out once, to one side, whatever release, cancellation,
\* performance check, expiry and dispute try, as long as no two of them were
\* between reading HELD and writing the status at the same time and no crash
\* or timeout fell between.
PaidOnce == \A e \in Escrows \ raced : paid[e] <= 1

\* A closed escrow has been paid out, and a held one that nobody is working
\* on has not: the status never promises a payout that did not happen, even
\* after a crash, a timeout or a failed deposit.
StatusTellsPayout ==
    \A e \in Escrows :
        /\ status[e] \in Closed => paid[e] >= 1
        /\ status[e] = "held" /\ e \notin raced /\ Paying(e) = {} => paid[e] = 0

\* Settlement rows and statuses are separate commits: a settled escrow has
\* its row, and a row without a settled escrow needs a race, a timeout or a crash.
SettlementMatches ==
    \A e \in Escrows :
        LET rows == {s \in settlements : s[2] = e} IN
        /\ status[e] = "settled" => rows # {}
        /\ Quiet /\ e \notin raced /\ rows # {} => status[e] = "settled"

\* What was paid out, the status and the settlement row tell the same.
PayoutsRecorded == StatusTellsPayout /\ SettlementMatches

\* No credit appears or disappears between the wallets and the escrows: when
\* nothing is in flight their sum is what it was at the start.
Price == [e \in Escrows |-> Terms[e].amount]
FundsConserved ==
    Quiet /\ raced = {} =>
        Sum(balance, Agents) + Sum(Price, {e \in Escrows : status[e] = "held"})
        = Sum(Start, Agents) + Sum(Price, Held0)

\* A decision about a dispute is carried out before it is written down: the
\* escrow of a decided dispute was paid out by a resolution, and, without a
\* race, to the side the decision names.
ResolutionCarriedOut ==
    \A d \in Disputes :
        dispute[d].resolution # "none" =>
            /\ status[Subject[d]] \in Closed
            /\ Subject[d] \notin raced =>
                   status[Subject[d]] = Outcome[dispute[d].resolution]

\* A closed escrow stays as it was closed, unless it was raced.
ClosedForGood ==
    [][\A e \in Escrows \ raced' : status[e] \in Closed => status'[e] = status[e]]_vars

\* Once no wallet is frozen any more, every overdue escrow is closed: the
\* polling loop survives exceptions, rows that others closed under it, and a
\* crash of the process.
OverdueCloses ==
    <>[](frozen = {}) =>
        \A e \in Escrows : (e \in overdue /\ status[e] = "held") ~> status[e] \in Closed

-----------------------------------------------------------------------------
\* What the sources promise without these conditions.

\* engine.py: "All monetary operations are atomic via transactions."
EscrowPaidOnce == \A e \in Escrows : paid[e] <= 1

\* scheduler.py: "Process all due subscriptions and expired escrows."  An
\* escrow whose own payer is not frozen should be expired.
AllOverdueClose ==
    \A e \in Escrows :
        <>[](Terms[e].payer \notin frozen) =>
            ((e \in overdue /\ status[e] = "held") ~> status[e] \in Closed)

\* disputes.py: "dispute lifecycle: open -> respond -> resolve".
DisputeLifecycle ==
    [][\A d \in Disputes : dispute[d].status = "resolved" =>
           dispute'[d].status = "resolved"]_vars
=============================================================================
