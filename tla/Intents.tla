------------------------------- MODULE Intents -------------------------------
(***************************************************************************)
(* Payment intents: PaymentEngine.create_intent, capture, partial_capture  *)
(* and void (products/payments/src/engine.py) with the tool handlers that  *)
(* call them, refund_intent among them (gateway/src/tools/payments.py).    *)
(* Intents and settlements are in the payments database, the funds in the  *)
(* billing one.  As in Escrows, a wallet call is one step, and so is a     *)
(* storage write with its commit; every other await is a place where the   *)
(* other requests run.                                                     *)
(***************************************************************************)
EXTENDS Sums

CONSTANTS Agents, Intents, Keys, NoKey, Requests,
          Workloads,          \* what the requests may ask: a set of functions
          Terms,              \* payer, payee and amount of each intent
          Pending0,           \* intents that are pending at the start
          Wallets0, Start,    \* agents with a wallet, and their credits
          Freezable,          \* wallets an administrator may freeze
          Percent, MinFee, MaxFee,  \* the pricing of create_intent
          MaxFaults           \* crashes and timeouts

Ops == {"create", "capture", "partial", "refund"}
Job == [op : Ops, intent : Intents, key : Keys \cup {NoKey}, amount : Int]

\* A created intent has an id of its own.
FreshIds(w) ==
    \A r \in Requests : w[r].op = "create" =>
        /\ w[r].intent \notin Pending0
        /\ \A s \in Requests \ {r} : w[s].op = "create" => w[s].intent # w[r].intent

ASSUME IntentConstants ==
    /\ NoKey \notin Keys
    /\ Terms \in [Intents -> [payer : Agents, payee : Agents, amount : Int]]
    /\ Pending0 \subseteq Intents
    /\ \A i \in Pending0 : Terms[i].amount > 0 /\ Terms[i].payer # Terms[i].payee
    /\ \A i \in Pending0 : Terms[i].payer \in Wallets0
    /\ Wallets0 \subseteq Agents /\ Freezable \subseteq Agents
    /\ Start \in [Agents -> Nat]
    /\ Workloads \subseteq [Requests -> Job]
    /\ \A w \in Workloads : FreshIds(w)
    /\ {Percent, MinFee, MaxFee, MaxFaults} \subseteq Nat
ASSUME IntentTables == IsFiniteSet(Requests)

VARIABLES
    job,          \* the workload
    balance,      \* credits of each wallet
    frozen,       \* frozen wallets
    status,       \* payment_intents.status, "none" before the row exists
    amount,       \* payment_intents.amount
    settlements,  \* settlement rows: who inserted one, of how much
    pc,           \* the await each request stands at
    seen, part,   \* its locals: the intent's amount as read, what it moves
    faults,
    abandoned,    \* history: captures that a fault ended with their reservation
    gave, got,    \* history: what a request took from payers, gave to payees
    fee,          \* history: gateway fees charged and not credited back
    short,        \* history: requests whose reversal found too little
    raced         \* history: intents disturbed, see Disturb

vars == <<job, balance, frozen, status, amount, settlements, pc, seen, part,
          faults, abandoned, gave, got, fee, short, raced>>
rows == <<status, amount, settlements>>
funds == <<balance, gave, got, fee>>
locals == <<seen, part>>
environment == <<job, frozen, faults, abandoned>>

Go(r, next) == pc' = [pc EXCEPT ![r] = next]
Op(r) == job[r].op
Intent(r) == job[r].intent
Payer(r) == Terms[Intent(r)].payer
Payee(r) == Terms[Intent(r)].payee

Terminal == {"done", "rejected", "error", "504", "lost"}
Running == {"insert", "charge", "read", "reserve", "withdraw", "deposit", "record",
            "finish", "debitBack", "creditBack", "revert", "readVoid", "void",
            "takeBack", "giveBack", "creditFee"}

\* Between two transfers, or between them and the rows that record them.
Midway == {"deposit", "record", "finish", "debitBack", "creditBack", "giveBack"}

\* Where a capture holds its intent.
Reserved == {"withdraw", "deposit", "record", "finish", "debitBack", "creditBack", "revert"}
Reserving(r) == Op(r) = "capture" /\ pc[r] \in Reserved

\* A wallet call raises for a frozen wallet, for none, and for too little.
CanReceive(a) == a \in Wallets0 \ frozen
CanPay(a, n) == CanReceive(a) /\ balance[a] >= n

\* calculate_tool_cost of create_intent: a percentage, clamped.
FeeOf(n) == Max({MinFee, Min({MaxFee, (n * Percent) \div 100})})

-----------------------------------------------------------------------------
\* History.  An intent is disturbed when a request that takes no reservation
\* (a partial capture or a refund) and another one are at work on it
\* together, when a crash, a timeout or an exception falls between two
\* transfers that nothing compensates, and when a reversal cannot take the funds back.

AtWork(i) == {r \in Requests : /\ Intent(r) = i
                               /\ pc[r] \in Running \ {"insert", "charge", "read", "creditFee"}}

Overlap(r) == \E s \in AtWork(Intent(r)) \ {r} : {Op(r), Op(s)} # {"capture"}

Disturb(r, cause) == raced' = IF cause THEN raced \cup {Intent(r)} ELSE raced

-----------------------------------------------------------------------------
\* create_intent, and the charge for the call after it.

KeyTaken(k) == \E r \in Requests : /\ Op(r) = "create" /\ job[r].key = k
                                   /\ status[Intent(r)] # "none"

\* The pipeline's balance check, validation, and the lookup of the key: an
\* intent that exists is the answer, and the call is charged for again.
LookupIntent(r) ==
    /\ pc[r] = "new" /\ Op(r) = "create"
    /\ LET t == Terms[Intent(r)] IN
       Go(r, IF \/ t.amount <= 0 \/ t.payer = t.payee
                \/ t.payer \notin Wallets0 \/ balance[t.payer] < FeeOf(t.amount)
             THEN "rejected"
             ELSE IF job[r].key # NoKey /\ KeyTaken(job[r].key)
             THEN "charge" ELSE "insert")
    /\ UNCHANGED <<rows, funds, locals, environment, short, raced>>

\* insert_intent, which the UNIQUE index on the key may refuse.
InsertIntent(r) ==
    /\ pc[r] = "insert"
    /\ IF job[r].key # NoKey /\ KeyTaken(job[r].key)
       THEN Go(r, "error") /\ UNCHANGED <<status, amount>>
       ELSE /\ status' = [status EXCEPT ![Intent(r)] = "pending"]
            /\ amount' = [amount EXCEPT ![Intent(r)] = Terms[Intent(r)].amount]
            /\ Go(r, "charge")
    /\ UNCHANGED <<settlements, funds, locals, environment, short, raced>>

\* record_usage_and_charge; its exception is the answer, after the fact.
ChargeFee(r) ==
    /\ pc[r] = "charge"
    /\ LET n == FeeOf(Terms[Intent(r)].amount) IN
       IF n = 0 THEN Go(r, "done") /\ UNCHANGED <<balance, fee>>
       ELSE IF CanPay(Payer(r), n)
       THEN /\ balance' = [balance EXCEPT ![Payer(r)] = @ - n]
            /\ fee' = [fee EXCEPT ![Intent(r)] = @ + n]
            /\ Go(r, "done")
       ELSE Go(r, "error") /\ UNCHANGED <<balance, fee>>
    /\ UNCHANGED <<rows, gave, got, locals, environment, short, raced>>

-----------------------------------------------------------------------------
\* capture and partial_capture.

SettledWith(k) == \E s \in settlements : job[s[1]].key = k

\* The tool finds the intent; a settlement with the key is the answer.
LookupCapture(r) ==
    /\ pc[r] = "new" /\ Op(r) \in {"capture", "partial"}
    /\ Go(r, IF status[Intent(r)] = "none" THEN "rejected"
             ELSE IF job[r].key # NoKey /\ SettledWith(job[r].key)
             THEN "done" ELSE "read")
    /\ UNCHANGED <<rows, funds, locals, environment, short, raced>>

\* Mutant: the status is not checked.
ReadIntentAnyStatus(r) ==
    /\ pc[r] = "read"
    /\ LET n == IF Op(r) = "capture" THEN amount[Intent(r)] ELSE job[r].amount IN
       IF n > 0 /\ n <= amount[Intent(r)]
       THEN /\ seen' = [seen EXCEPT ![r] = amount[Intent(r)]]
            /\ part' = [part EXCEPT ![r] = n]
            /\ Go(r, IF Op(r) = "capture" THEN "reserve" ELSE "withdraw")
            /\ Disturb(r, Overlap(r))
       ELSE Go(r, "error") /\ UNCHANGED <<locals, raced>>
    /\ UNCHANGED <<rows, funds, environment, short>>

\* get_intent and the checks.  A capture moves the amount it read; a partial
\* capture goes on without reserving the intent.
ReadIntent(r) ==
    /\ pc[r] = "read"
    /\ LET n == IF Op(r) = "capture" THEN amount[Intent(r)] ELSE job[r].amount IN
       IF /\ status[Intent(r)] = "pending"
          /\ n > 0 /\ n <= amount[Intent(r)]
       THEN /\ seen' = [seen EXCEPT ![r] = amount[Intent(r)]]
            /\ part' = [part EXCEPT ![r] = n]
            /\ Go(r, IF Op(r) = "capture" THEN "reserve" ELSE "withdraw")
            /\ Disturb(r, Overlap(r))
       ELSE Go(r, "error") /\ UNCHANGED <<locals, raced>>
    /\ UNCHANGED <<rows, funds, environment, short>>

\* Mutant: the UPDATE has no condition on the status.
ReserveAlways(r) ==
    /\ pc[r] = "reserve"
    /\ status' = [status EXCEPT ![Intent(r)] = "captured"]
    /\ Go(r, "withdraw")
    /\ UNCHANGED <<amount, settlements, funds, locals, environment, short, raced>>

\* compare_and_set_intent_status: pending -> captured.
Reserve(r) ==
    /\ pc[r] = "reserve"
    /\ IF status[Intent(r)] = "pending"
       THEN /\ status' = [status EXCEPT ![Intent(r)] = "captured"]
            /\ Go(r, "withdraw")
       ELSE Go(r, "error") /\ UNCHANGED status
    /\ UNCHANGED <<amount, settlements, funds, locals, environment, short, raced>>

\* Mutant: a refused withdrawal is raised without the reversal.
WithdrawOutsideTry(r) ==
    /\ pc[r] = "withdraw"
    /\ IF CanPay(Payer(r), part[r])
       THEN /\ balance' = [balance EXCEPT ![Payer(r)] = @ - part[r]]
            /\ gave' = [gave EXCEPT ![r] = @ + part[r]]
            /\ Go(r, "deposit")
       ELSE Go(r, "error") /\ UNCHANGED <<balance, gave>>
    /\ UNCHANGED <<rows, got, fee, locals, environment, short, raced>>

\* wallet.withdraw: only a capture has something to revert when it raises.
Withdraw(r) ==
    /\ pc[r] = "withdraw"
    /\ IF CanPay(Payer(r), part[r])
       THEN /\ balance' = [balance EXCEPT ![Payer(r)] = @ - part[r]]
            /\ gave' = [gave EXCEPT ![r] = @ + part[r]]
            /\ Go(r, "deposit")
       ELSE /\ Go(r, IF Op(r) = "capture" THEN "revert" ELSE "error")
            /\ UNCHANGED <<balance, gave>>
    /\ UNCHANGED <<rows, got, fee, locals, environment, short, raced>>

\* Mutant: withdraw_done is forgotten.
DepositWithoutReversal(r) ==
    /\ pc[r] = "deposit"
    /\ IF CanReceive(Payee(r))
       THEN /\ balance' = [balance EXCEPT ![Payee(r)] = @ + part[r]]
            /\ got' = [got EXCEPT ![r] = @ + part[r]]
            /\ Go(r, "record")
            /\ UNCHANGED raced
       ELSE /\ Go(r, IF Op(r) = "capture" THEN "revert" ELSE "error")
            /\ Disturb(r, Op(r) = "partial")
            /\ UNCHANGED <<balance, got>>
    /\ UNCHANGED <<rows, gave, fee, locals, environment, short>>

\* Only a capture gives the payer's credits back when the payee cannot
\* receive them.
Deposit(r) ==
    /\ pc[r] = "deposit"
    /\ IF CanReceive(Payee(r))
       THEN /\ balance' = [balance EXCEPT ![Payee(r)] = @ + part[r]]
            /\ got' = [got EXCEPT ![r] = @ + part[r]]
            /\ Go(r, "record")
            /\ UNCHANGED raced
       ELSE /\ Go(r, IF Op(r) = "capture" THEN "creditBack" ELSE "error")
            /\ Disturb(r, Op(r) = "partial")
            /\ UNCHANGED <<balance, got>>
    /\ UNCHANGED <<rows, gave, fee, locals, environment, short>>

\* insert_settlement, which the UNIQUE index on the key may refuse.
RecordSettlement(r) ==
    /\ pc[r] = "record"
    /\ IF job[r].key # NoKey /\ SettledWith(job[r].key)
       THEN /\ Go(r, IF Op(r) = "capture" THEN "debitBack" ELSE "error")
            /\ Disturb(r, Op(r) = "partial")
            /\ UNCHANGED settlements
       ELSE /\ settlements' = settlements \cup {<<r, part[r]>>}
            /\ Go(r, "finish")
            /\ UNCHANGED raced
    /\ UNCHANGED <<status, amount, funds, locals, environment, short>>

\* Mutant: the amount that remains is not written.
FinishKeepsAmount(r) ==
    /\ pc[r] = "finish"
    /\ status' = IF Op(r) = "capture" \/ seen[r] - part[r] <= 0
                 THEN [status EXCEPT ![Intent(r)] = "settled"] ELSE status
    /\ Go(r, "done")
    /\ UNCHANGED <<amount, settlements, funds, locals, environment, short, raced>>

\* Mutant: a part settles the intent.
FinishSettles(r) ==
    /\ pc[r] = "finish"
    /\ status' = [status EXCEPT ![Intent(r)] = "settled"]
    /\ Go(r, "done")
    /\ UNCHANGED <<amount, settlements, funds, locals, environment, short, raced>>

\* update_intent_status or update_intent_amount, neither with a condition on
\* what it replaces.
Finish(r) ==
    /\ pc[r] = "finish"
    /\ IF Op(r) = "capture" \/ seen[r] - part[r] <= 0
       THEN /\ status' = [status EXCEPT ![Intent(r)] = "settled"]
            /\ UNCHANGED amount
       ELSE /\ amount' = [amount EXCEPT ![Intent(r)] = seen[r] - part[r]]
            /\ UNCHANGED status
    /\ Go(r, "done")
    /\ UNCHANGED <<settlements, funds, locals, environment, short, raced>>

\* Mutant: the UPDATE has no condition on the balance.
DebitBackUnguarded(r) ==
    /\ pc[r] = "debitBack"
    /\ balance' = [balance EXCEPT ![Payee(r)] = @ - part[r]]
    /\ got' = [got EXCEPT ![r] = @ - part[r]]
    /\ Go(r, "creditBack")
    /\ UNCHANGED <<rows, gave, fee, locals, environment, short, raced>>

\* The reversals of a failed capture go to the storage directly, past any
\* freeze, and ignore what it answers: too little leaves the payee as it is.
DebitBack(r) ==
    /\ pc[r] = "debitBack"
    /\ LET p == Payee(r) IN
       IF balance[p] >= part[r]
       THEN /\ balance' = [balance EXCEPT ![p] = @ - part[r]]
            /\ got' = [got EXCEPT ![r] = @ - part[r]]
            /\ UNCHANGED <<short, raced>>
       ELSE /\ short' = short \cup {r}
            /\ Disturb(r, TRUE)
            /\ UNCHANGED <<balance, got>>
    /\ Go(r, "creditBack")
    /\ UNCHANGED <<rows, gave, fee, locals, environment>>

CreditBack(r) ==
    /\ pc[r] = "creditBack"
    /\ balance' = [balance EXCEPT ![Payer(r)] = @ + part[r]]
    /\ gave' = [gave EXCEPT ![r] = @ - part[r]]
    /\ Go(r, "revert")
    /\ UNCHANGED <<rows, got, fee, locals, environment, short, raced>>

\* compare_and_set_intent_status: captured -> pending, then the exception.
Revert(r) ==
    /\ pc[r] = "revert"
    /\ status' = IF status[Intent(r)] = "captured"
                 THEN [status EXCEPT ![Intent(r)] = "pending"] ELSE status
    /\ Go(r, "error")
    /\ UNCHANGED <<amount, settlements, funds, locals, environment, short, raced>>

-----------------------------------------------------------------------------
\* refund_intent: voids a pending intent, transfers a settled one back.

ReadRefund(r) ==
    /\ pc[r] = "new" /\ Op(r) = "refund"
    /\ LET s == status[Intent(r)] IN
       /\ Go(r, IF s = "none" THEN "rejected"
                ELSE IF s = "pending" THEN "readVoid"
                ELSE IF s = "settled" THEN "takeBack"
                ELSE IF s = "voided" /\ job[r].key # NoKey THEN "done"
                ELSE "error")
       /\ Disturb(r, s \in {"pending", "settled"} /\ Overlap(r))
       /\ seen' = [seen EXCEPT ![r] = amount[Intent(r)]]
       /\ part' = [part EXCEPT ![r] = amount[Intent(r)]]
    /\ UNCHANGED <<rows, funds, environment, short>>

\* void reads the intent again; with a key, a voided one will do.
ReadVoid(r) ==
    /\ pc[r] = "readVoid"
    /\ LET s == status[Intent(r)] IN
       Go(r, IF s = "voided" /\ job[r].key # NoKey THEN "creditFee"
             ELSE IF s = "pending" THEN "void" ELSE "error")
    /\ UNCHANGED <<rows, funds, locals, environment, short, raced>>

\* update_intent_status has no condition on the status it replaces.
Void(r) ==
    /\ pc[r] = "void"
    /\ status' = [status EXCEPT ![Intent(r)] = "voided"]
    /\ Go(r, "creditFee")
    /\ UNCHANGED <<amount, settlements, funds, locals, environment, short, raced>>

TakeBack(r) ==
    /\ pc[r] = "takeBack"
    /\ IF CanPay(Payee(r), part[r])
       THEN /\ balance' = [balance EXCEPT ![Payee(r)] = @ - part[r]]
            /\ got' = [got EXCEPT ![r] = @ - part[r]]
            /\ Go(r, "giveBack")
       ELSE Go(r, "error") /\ UNCHANGED <<balance, got>>
    /\ UNCHANGED <<rows, gave, fee, locals, environment, short, raced>>

\* Mutant: the fee of a settled intent is kept (the earlier policy).
GiveBackWithoutFee(r) ==
    /\ pc[r] = "giveBack"
    /\ IF CanReceive(Payer(r))
       THEN /\ balance' = [balance EXCEPT ![Payer(r)] = @ + part[r]]
            /\ gave' = [gave EXCEPT ![r] = @ - part[r]]
            /\ Go(r, "done")
            /\ UNCHANGED raced
       ELSE /\ Go(r, "error")
            /\ Disturb(r, TRUE)
            /\ UNCHANGED <<balance, gave>>
    /\ UNCHANGED <<rows, got, fee, locals, environment, short>>

\* Nothing returns the payee's credits when the payer cannot receive them.
GiveBack(r) ==
    /\ pc[r] = "giveBack"
    /\ IF CanReceive(Payer(r))
       THEN /\ balance' = [balance EXCEPT ![Payer(r)] = @ + part[r]]
            /\ gave' = [gave EXCEPT ![r] = @ - part[r]]
            /\ Go(r, "creditFee")
            /\ UNCHANGED raced
       ELSE /\ Go(r, "error")
            /\ Disturb(r, TRUE)
            /\ UNCHANGED <<balance, gave>>
    /\ UNCHANGED <<rows, got, fee, locals, environment, short>>

\* _credit_fee_back, of the fee for the amount read, swallows exceptions.
CreditFee(r) ==
    /\ pc[r] = "creditFee"
    /\ LET n == FeeOf(seen[r]) IN
       IF n > 0 /\ CanReceive(Payer(r))
       THEN /\ balance' = [balance EXCEPT ![Payer(r)] = @ + n]
            /\ fee' = [fee EXCEPT ![Intent(r)] = @ - n]
       ELSE UNCHANGED <<balance, fee>>
    /\ Go(r, "done")
    /\ UNCHANGED <<rows, gave, got, locals, environment, short, raced>>

-----------------------------------------------------------------------------
SetFrozen(a) ==
    /\ frozen' = IF a \in frozen THEN frozen \ {a} ELSE frozen \cup {a}
    /\ UNCHANGED <<job, rows, funds, pc, locals, faults, abandoned, short, raced>>

\* RequestTimeoutMiddleware cancels the request.  The CancelledError is none
\* of the exceptions that capture and the tools catch: no reversal, no revert.
TimeOut(r) ==
    /\ pc[r] \in Running /\ faults < MaxFaults
    /\ faults' = faults + 1
    /\ Go(r, "504")
    /\ Disturb(r, pc[r] \in Midway)
    /\ abandoned' = IF Reserving(r) THEN abandoned \cup {r} ELSE abandoned
    /\ UNCHANGED <<job, frozen, rows, funds, locals, short>>

\* Every step is committed, so a crash only loses the coroutines.
CrashProcess ==
    /\ faults < MaxFaults
    /\ faults' = faults + 1
    /\ pc' = [r \in Requests |-> IF pc[r] \in Running THEN "lost" ELSE pc[r]]
    /\ raced' = raced \cup {Intent(r) : r \in {q \in Requests : pc[q] \in Midway}}
    /\ abandoned' = abandoned \cup {r \in Requests : Reserving(r)}
    /\ UNCHANGED <<job, frozen, rows, funds, locals, short>>

-----------------------------------------------------------------------------
Init ==
    /\ job \in Workloads
    /\ balance = Start
    /\ frozen = {}
    /\ status = [i \in Intents |-> IF i \in Pending0 THEN "pending" ELSE "none"]
    /\ amount = [i \in Intents |-> IF i \in Pending0 THEN Terms[i].amount ELSE 0]
    /\ settlements = {}
    /\ pc = [r \in Requests |-> "new"]
    /\ seen = [r \in Requests |-> 0]
    /\ part = [r \in Requests |-> 0]
    /\ faults = 0
    /\ abandoned = {}
    /\ gave = [r \in Requests |-> 0]
    /\ got = [r \in Requests |-> 0]
    /\ fee = [i \in Intents |-> IF i \in Pending0 THEN FeeOf(Terms[i].amount) ELSE 0]
    /\ short = {}
    /\ raced = {}

Arrive(r) == LookupIntent(r) \/ LookupCapture(r) \/ ReadRefund(r)

Continue(r) ==
    \/ InsertIntent(r) \/ ChargeFee(r)
    \/ ReadIntent(r) \/ Reserve(r) \/ Withdraw(r) \/ Deposit(r)
    \/ RecordSettlement(r) \/ Finish(r)
    \/ DebitBack(r) \/ CreditBack(r) \/ Revert(r)
    \/ ReadVoid(r) \/ Void(r) \/ TakeBack(r) \/ GiveBack(r) \/ CreditFee(r)

\* All requests have been answered or lost.
Terminating == (\A r \in Requests : pc[r] \in Terminal) /\ UNCHANGED vars

Next ==
    \/ \E r \in Requests : Arrive(r) \/ Continue(r) \/ TimeOut(r)
    \/ \E a \in Freezable : SetFrozen(a)
    \/ CrashProcess
    \/ Terminating

\* The event loop runs every ready coroutine; arrivals, freezes, crashes
\* and timeouts owe nothing.
Spec == Init /\ [][Next]_vars /\ \A r \in Requests : WF_vars(Continue(r))

-----------------------------------------------------------------------------
TypeOK ==
    /\ job \in Workloads
    /\ balance \in [Agents -> Nat]
    /\ frozen \subseteq Agents
    /\ status \in [Intents -> {"none", "pending", "captured", "settled", "voided"}]
    /\ amount \in [Intents -> Nat]
    /\ settlements \subseteq Requests \X Nat
    /\ pc \in [Requests -> {"new"} \cup Running \cup Terminal]
    /\ seen \in [Requests -> Nat]
    /\ part \in [Requests -> Nat]
    /\ faults \in 0..MaxFaults
    /\ abandoned \subseteq Requests
    /\ gave \in [Requests -> Int]
    /\ got \in [Requests -> Int]
    /\ fee \in [Intents -> Int]
    /\ short \subseteq Requests
    /\ raced \subseteq Intents

Moving(i) == {r \in Requests : Intent(r) = i /\ Op(r) # "refund"}
Rows(i) == {s \in settlements : Intent(s[1]) = i}
SettledSum(i) == Amounts(Rows(i))
Net(i) == Sum(gave, {r \in Requests : Intent(r) = i})

Holding(i) == {r \in Requests : Reserving(r) /\ Intent(r) = i}

\* The status 'captured' is a lock: of the captures of one intent at most one
\* is between the reservation and the last write, whatever partial captures,
\* refunds, failures and reversals do to the status meanwhile.
CaptureExclusive == \A i \in Intents : \A r, s \in Holding(i) : r = s

\* Captures and partial captures, keyed or not, together never take more
\* than the intent is for, and nothing before it exists.
Worth(i) == IF status[i] = "none" THEN 0 ELSE Terms[i].amount
NeverOvercaptured ==
    \A i \in Intents \ raced :
        SettledSum(i) <= Worth(i) /\ Sum(gave, Moving(i)) <= Worth(i)

\* The intent row, the settlement rows and the wallets are three places: when
\* nobody is at work on an intent, the settlements are what was taken from
\* the payer and what the payee was given, and the row says what is left,
\* also after failures, and after a fault that left the row captured.
StatusTellsFunds ==
    \A i \in Intents \ raced : status[i] # "none" /\ AtWork(i) = {} =>
        /\ Sum(gave, Moving(i)) = SettledSum(i)
        /\ Sum(got, Moving(i)) = SettledSum(i)
        /\ SettledSum(i) = IF status[i] = "settled" THEN Terms[i].amount
                           ELSE Terms[i].amount - amount[i]

\* A capture that has been answered moved the whole amount and has its
\* settlement, or moved nothing and has none: the reversals are complete,
\* unless the payee had spent the credits.
AllOrNothing ==
    \A r \in Requests \ short :
        Op(r) = "capture" /\ pc[r] \in {"done", "error"} =>
            \/ /\ pc[r] = "done" /\ <<r, part[r]>> \in settlements
               /\ gave[r] = part[r] /\ got[r] = part[r]
            \/ /\ \A s \in settlements : s[1] # r
               /\ gave[r] = 0 /\ got[r] = 0

Idle(i) == \A r \in Requests : Intent(r) = i => pc[r] \in {"new"} \cup Terminal
Refunders(i) == {r \in Requests : Op(r) = "refund" /\ Intent(r) = i /\ pc[r] = "done"}

\* One refund of an intent, voided or captured at once, returns to the payer
\* all that was taken, the fee of create_intent included.  A crash or a timeout
\* before the fee is credited loses it, for a retry does not.
Answered(i) == \A r \in Requests : Intent(r) = i => pc[r] \notin {"504", "lost"}
PayerMadeWhole ==
    \A i \in Pending0 \ raced :
        /\ Idle(i) /\ Answered(i) /\ Cardinality(Refunders(i)) = 1
        /\ \A s \in Rows(i) : s[2] = Terms[i].amount
        => /\ Net(i) = 0
           /\ Terms[i].payer \notin Freezable => fee[i] = 0

\* The life of an intent: nothing undoes a settlement or a void.
Steps == {<<"none", "pending">>, <<"pending", "captured">>, <<"captured", "pending">>,
          <<"captured", "settled">>, <<"pending", "settled">>, <<"pending", "voided">>}
IntentLifecycle ==
    [][\A i \in Intents \ raced' :
          status'[i] # status[i] => <<status[i], status'[i]>> \in Steps]_vars

\* A reserved intent is settled or pending again in the end, whatever failed:
\* only a crash, or the request timeout, of the very capture that holds it
\* leaves it captured, and then no call takes it any further.
ReservationEnds ==
    \A i \in Intents :
        []<>(status[i] # "captured" \/ \E r \in abandoned : Intent(r) = i)

-----------------------------------------------------------------------------
\* tools/payments.py: "a full refund must return the customer whole" - also
\* when the settled intent was captured in parts.
RefundMakesWhole ==
    \A i \in Pending0 \ raced :
        Idle(i) /\ status[i] = "settled" /\ Cardinality(Refunders(i)) = 1 => Net(i) = 0
==============================================================================
