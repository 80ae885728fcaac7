-------------------------- MODULE SettlementRefund --------------------------
(***************************************************************************)
(* PaymentEngine.refund_settlement (products/payments/src/engine.py) on    *)
(* the payments connection, statement by statement.  Its BEGIN IMMEDIATE   *)
(* is meant to keep concurrent refunds apart, but the connection is the    *)
(* one every other payment write uses, and those commit for everybody.     *)
(* The funds move in the billing database, where a wallet call is one step *)
(* (see Wallet).                                                           *)
(***************************************************************************)
EXTENDS Sums, SqliteConnection

CONSTANTS Agents, Settlements, Keys, NoKey, Requests,
          Workloads,       \* what the requests may ask: a set of functions
          Terms,           \* payer, payee and amount of each settlement
          Wallets0, Start, \* agents with a wallet, and their credits
          Freezable,       \* wallets an administrator may freeze
          MaxFaults        \* crashes and timeouts

\* An amount of 0 asks for all that is left.  A write is any other method of
\* the payment storage, one statement and one commit; a refused one repeats a
\* UNIQUE key.
Ops == {"refund", "write", "refused"}
Job == [op : Ops, settlement : Settlements, key : Keys \cup {NoKey}, amount : Nat]

ASSUME RefundConstants ==
    /\ NoKey \notin Keys
    /\ Terms \in [Settlements -> [payer : Agents, payee : Agents, amount : Nat]]
    /\ Wallets0 \subseteq Agents /\ Freezable \subseteq Agents
    /\ Start \in [Agents -> Nat]
    /\ Workloads \subseteq [Requests -> Job]
    /\ MaxFaults \in Nat
ASSUME RefundTables == IsFiniteSet(Requests)

VARIABLES
    job,          \* the workload
    conn,         \* the payments connection and its tables
    balance,      \* credits of each wallet
    frozen,       \* frozen wallets
    pc,           \* the await each request stands at
    total, part,  \* its locals: refunded so far, and what it refunds
    faults,
    took, gave,   \* history: what a request took from the payee, gave to the payer
    broken,       \* history: requests that lost the shelter of a transaction
    leftOpen      \* history: who left a transaction open, since it was last ended

vars == <<job, conn, balance, frozen, pc, total, part, faults, took, gave, broken,
          leftOpen>>
funds == <<balance, took, gave>>
locals == <<total, part>>
environment == <<job, frozen, faults>>
history == <<broken, leftOpen>>

Statuses == {"settled", "partially_refunded", "refunded"}
Tables == [refunds : SUBSET (Requests \X Nat), status : [Settlements -> Statuses],
           written : SUBSET Requests]

Settlement(r) == job[r].settlement
Amount(s) == Terms[s].amount
Refunds(d, s) == {x \in d.refunds : Settlement(x[1]) = s}
Refunded(d, s) == Amounts(Refunds(d, s))
KeyUsed(k) == \E x \in conn.data.refunds : job[x[1]].key = k

CanReceive(a) == a \in Wallets0 \ frozen
CanPay(a, n) == CanReceive(a) /\ balance[a] >= n

Terminal == {"done", "error", "504", "lost"}
Sheltered == {"read", "withdraw", "deposit", "insert"}
Running == Sheltered \cup {"begin", "commitRefund", "update", "commitStatus", "final",
                           "rollback", "commitRow"}
\* Where a statement of the request's own is not yet committed or rolled back.
Closing == Sheltered \cup {"commitRefund", "commitStatus", "rollback", "commitRow"}

Go(r, next) == pc' = [pc EXCEPT ![r] = next]

\* Whoever commits ends the transaction of a refund that has not inserted its
\* row yet; whoever rolls back also discards what others have not committed.
Committing(r) ==
    /\ broken' = broken \cup {q \in Requests \ {r} : pc[q] \in Sheltered}
    /\ leftOpen' = {}
RollingBack(r) ==
    /\ broken' = broken \cup {q \in Requests \ {r} :
                  pc[q] \in Sheltered \cup {"commitRefund", "commitStatus", "commitRow"}}
    /\ leftOpen' = {}
Break(r) == broken' = broken \cup {r} /\ UNCHANGED leftOpen

-----------------------------------------------------------------------------
\* The lookup of the key, before the transaction.
LookupRefund(r) ==
    /\ pc[r] = "new" /\ job[r].op = "refund"
    /\ Go(r, IF job[r].key # NoKey /\ KeyUsed(job[r].key) THEN "done" ELSE "begin")
    /\ UNCHANGED <<conn, funds, locals, environment, history>>

\* Mutant: the transaction begins at the first write.
BeginLater(r) ==
    /\ pc[r] = "begin"
    /\ Go(r, "read")
    /\ UNCHANGED <<conn, funds, locals, environment, history>>

\* BEGIN IMMEDIATE is outside the try block.
BeginRefund(r) ==
    /\ pc[r] = "begin"
    /\ IF CanBegin(conn)
       THEN conn' = Begin(conn) /\ Go(r, "read")
       ELSE Go(r, "error") /\ UNCHANGED conn
    /\ UNCHANGED <<funds, locals, environment, history>>

\* The two SELECTs and the checks: a refunded settlement has nothing left, so
\* its status adds nothing to what the sum says.
ReadTotal(r) ==
    /\ pc[r] = "read"
    /\ LET s == Settlement(r)
           left == Amount(s) - Refunded(conn.data, s)
           n == IF job[r].amount = 0 THEN left ELSE job[r].amount
       IN IF conn.data.status[s] # "refunded" /\ n > 0 /\ n <= left
          THEN /\ total' = [total EXCEPT ![r] = Refunded(conn.data, s)]
               /\ part' = [part EXCEPT ![r] = n]
               /\ Go(r, "withdraw")
          ELSE Go(r, "rollback") /\ UNCHANGED locals
    /\ UNCHANGED <<conn, funds, environment, history>>

WithdrawRefund(r) ==
    /\ pc[r] = "withdraw"
    /\ LET a == Terms[Settlement(r)].payee IN
       IF CanPay(a, part[r])
       THEN /\ balance' = [balance EXCEPT ![a] = @ - part[r]]
            /\ took' = [took EXCEPT ![r] = part[r]]
            /\ Go(r, "deposit")
       ELSE Go(r, "rollback") /\ UNCHANGED <<balance, took>>
    /\ UNCHANGED <<conn, gave, locals, environment, history>>

\* The rollback after a deposit that raises is of the payments database only:
\* the payee has paid.
DepositRefund(r) ==
    /\ pc[r] = "deposit"
    /\ LET a == Terms[Settlement(r)].payer IN
       IF CanReceive(a)
       THEN /\ balance' = [balance EXCEPT ![a] = @ + part[r]]
            /\ gave' = [gave EXCEPT ![r] = part[r]]
            /\ Go(r, "insert") /\ UNCHANGED history
       ELSE Go(r, "rollback") /\ Break(r) /\ UNCHANGED <<balance, gave>>
    /\ UNCHANGED <<conn, took, locals, environment>>

\* Mutant: a repeated key is ignored.
InsertRefundOrIgnore(r) ==
    /\ pc[r] = "insert"
    /\ conn' = IF job[r].key # NoKey /\ KeyUsed(job[r].key) THEN ExecuteImplicit(conn, conn.data)
               ELSE ExecuteImplicit(conn, [conn.data EXCEPT !.refunds = @ \cup {<<r, part[r]>>}])
    /\ Go(r, "commitRefund")
    /\ UNCHANGED <<funds, locals, environment, history>>

\* insert_refund: the UNIQUE key may refuse the row after the funds moved.
InsertRefund(r) ==
    /\ pc[r] = "insert"
    /\ IF job[r].key # NoKey /\ KeyUsed(job[r].key)
       THEN /\ conn' = ExecuteImplicit(conn, conn.data)
            /\ Go(r, "rollback") /\ Break(r)
       ELSE /\ conn' = ExecuteImplicit(conn, [conn.data EXCEPT !.refunds = @ \cup {<<r, part[r]>>}])
            /\ Go(r, "commitRefund") /\ UNCHANGED history
    /\ UNCHANGED <<funds, locals, environment>>

\* insert_refund commits by itself, and so ends the transaction.
CommitRefund(r) ==
    /\ pc[r] = "commitRefund"
    /\ conn' = Commit(conn)
    /\ Go(r, "update") /\ Committing(r)
    /\ UNCHANGED <<funds, locals, environment>>

\* Mutant: every refund is taken for a full one.
UpdateStatusFull(r) ==
    /\ pc[r] = "update"
    /\ conn' = ExecuteImplicit(conn, [conn.data EXCEPT !.status[Settlement(r)] = "refunded"])
    /\ Go(r, "commitStatus")
    /\ UNCHANGED <<funds, locals, environment, history>>

\* The new status comes from the total read at the beginning.
UpdateStatus(r) ==
    /\ pc[r] = "update"
    /\ LET s == Settlement(r)
           new == IF total[r] + part[r] >= Amount(s) THEN "refunded" ELSE "partially_refunded"
       IN conn' = ExecuteImplicit(conn, [conn.data EXCEPT !.status[s] = new])
    /\ Go(r, "commitStatus")
    /\ UNCHANGED <<funds, locals, environment, history>>

CommitStatus(r) ==
    /\ pc[r] = "commitStatus"
    /\ conn' = Commit(conn)
    /\ Go(r, "final") /\ Committing(r)
    /\ UNCHANGED <<funds, locals, environment>>

\* The commit of the BEGIN above has nothing of its own left to commit.
CommitFinal(r) ==
    /\ pc[r] = "final"
    /\ conn' = Commit(conn)
    /\ Go(r, "done") /\ Committing(r)
    /\ UNCHANGED <<funds, locals, environment>>

\* Mutant: the exception passes without a rollback.
RollbackForgotten(r) ==
    /\ pc[r] = "rollback"
    /\ Go(r, "error")
    /\ UNCHANGED <<conn, funds, locals, environment, history>>

RollbackRefund(r) ==
    /\ pc[r] = "rollback"
    /\ conn' = Rollback(conn)
    /\ Go(r, "error") /\ RollingBack(r)
    /\ UNCHANGED <<funds, locals, environment>>

-----------------------------------------------------------------------------
\* The other writers of the connection.

WriteRow(r) ==
    /\ pc[r] = "new" /\ job[r].op = "write"
    /\ conn' = ExecuteImplicit(conn, [conn.data EXCEPT !.written = @ \cup {r}])
    /\ Go(r, "commitRow")
    /\ UNCHANGED <<funds, locals, environment, history>>

\* Mutant: the writer answers without a commit.
CommitRowNot(r) ==
    /\ pc[r] = "commitRow"
    /\ Go(r, "done")
    /\ UNCHANGED <<conn, funds, locals, environment, history>>

CommitRow(r) ==
    /\ pc[r] = "commitRow"
    /\ conn' = Commit(conn)
    /\ Go(r, "done") /\ Committing(r)
    /\ UNCHANGED <<funds, locals, environment>>

\* A refused INSERT leaves the transaction that the driver opened for it.
RefusedRow(r) ==
    /\ pc[r] = "new" /\ job[r].op = "refused"
    /\ conn' = ExecuteImplicit(conn, conn.data)
    /\ Go(r, "error")
    /\ leftOpen' = leftOpen \cup {r}
    /\ UNCHANGED <<funds, locals, environment, broken>>

SetFrozen(a) ==
    /\ frozen' = IF a \in frozen THEN frozen \ {a} ELSE frozen \cup {a}
    /\ UNCHANGED <<job, conn, funds, pc, locals, faults, history>>

\* The funds have moved, and their row is not in the file.
Moving == {"deposit", "insert", "commitRefund"}

\* RequestTimeoutMiddleware cancels the request: no handler of refund_settlement
\* catches that, and what its statements did stays in the open transaction.
TimeOut(r) ==
    /\ pc[r] \in Running /\ faults < MaxFaults
    /\ faults' = faults + 1
    /\ Go(r, "504")
    /\ broken' = IF pc[r] \in Moving THEN broken \cup {r} ELSE broken
    /\ leftOpen' = IF pc[r] \in Closing THEN leftOpen \cup {r} ELSE leftOpen
    /\ UNCHANGED <<conn, funds, locals, job, frozen>>

CrashProcess ==
    /\ faults < MaxFaults
    /\ faults' = faults + 1
    /\ conn' = Crash(conn)
    /\ pc' = [r \in Requests |-> IF pc[r] \in Running THEN "lost" ELSE pc[r]]
    /\ broken' = broken \cup {r \in Requests : pc[r] \in Moving}
    /\ leftOpen' = {}
    /\ UNCHANGED <<job, frozen, funds, locals>>

-----------------------------------------------------------------------------
Init ==
    /\ job \in Workloads
    /\ conn = Connected([refunds |-> {}, status |-> [s \in Settlements |-> "settled"],
                         written |-> {}])
    /\ balance = Start
    /\ frozen = {}
    /\ pc = [r \in Requests |-> "new"]
    /\ total = [r \in Requests |-> 0]
    /\ part = [r \in Requests |-> 0]
    /\ faults = 0
    /\ took = [r \in Requests |-> 0]
    /\ gave = [r \in Requests |-> 0]
    /\ broken = {}
    /\ leftOpen = {}

Arrive(r) == LookupRefund(r) \/ WriteRow(r) \/ RefusedRow(r)

Continue(r) ==
    \/ BeginRefund(r) \/ ReadTotal(r) \/ WithdrawRefund(r) \/ DepositRefund(r)
    \/ InsertRefund(r) \/ CommitRefund(r) \/ UpdateStatus(r) \/ CommitStatus(r)
    \/ CommitFinal(r) \/ RollbackRefund(r) \/ CommitRow(r)

Terminating == (\A r \in Requests : pc[r] \in Terminal) /\ UNCHANGED vars

Next ==
    \/ \E r \in Requests : Arrive(r) \/ Continue(r) \/ TimeOut(r)
    \/ \E a \in Freezable : SetFrozen(a)
    \/ CrashProcess
    \/ Terminating

Spec == Init /\ [][Next]_vars /\ \A r \in Requests : WF_vars(Continue(r))

-----------------------------------------------------------------------------
Of(s) == {r \in Requests : job[r].op = "refund" /\ Settlement(r) = s}
Unbroken(s) == Of(s) \cap broken = {}
Idle(s) == \A r \in Of(s) : pc[r] \in {"new"} \cup Terminal

\* Never more than the settlement is refunded, in rows and in funds, as long
\* as BEGIN IMMEDIATE keeps the refunds of it apart.
RefundBounded ==
    \A s \in Settlements : Unbroken(s) =>
        /\ Refunded(conn.data, s) <= Amount(s)
        /\ Sum(gave, Of(s)) <= Amount(s)

\* Two databases: when no refund of a settlement is under way, the durable
\* refund rows are what the payee paid and what the payer received.
RefundsMatchFunds ==
    \A s \in Settlements : Unbroken(s) /\ Idle(s) =>
        /\ Refunded(conn.saved, s) = Sum(took, Of(s))
        /\ Refunded(conn.saved, s) = Sum(gave, Of(s))

\* What was answered is durable: the row of a refund that moved funds, and
\* the row of any other writer, unless another's rollback discarded it.
AckDurable ==
    \A r \in Requests \ broken : pc[r] = "done" =>
        /\ job[r].op = "refund" /\ gave[r] > 0 => <<r, gave[r]>> \in conn.saved.refunds
        /\ job[r].op = "write" => r \in conn.saved.written

\* A settlement marked as refunded has been refunded in full, also after a
\* crash.  (The converse fails: the last of two overlapping updates wins.)
StatusNotAhead ==
    \A s \in Settlements : Unbroken(s) =>
        (conn.saved.status[s] = "refunded" => Refunded(conn.saved, s) = Amount(s))

\* When everybody has been answered no transaction stays open, which would
\* make every BEGIN fail, unless a refused INSERT or a request timed out in the
\* middle of a transaction left one, and nobody has committed since.
LockReleased ==
    (\A r \in Requests : pc[r] \in {"new"} \cup Terminal) /\ conn.open =>
        \E r \in leftOpen : pc[r] = "504" \/ (job[r].op = "refused" /\ pc[r] = "error")

-----------------------------------------------------------------------------
\* refund_settlement's docstring: "Uses BEGIN IMMEDIATE to serialize concurrent
\* refund attempts and prevent double-spend race conditions."
NoDoubleSpend == \A s \in Settlements : Sum(gave, Of(s)) <= Amount(s)
=============================================================================
