---------------------------- MODULE Subscriptions ----------------------------
(***************************************************************************)
(* Recurring payments: the subscriptions of the payment engine, and the    *)
(* passes of the scheduler over those that are due, by the background task *)
(* every 300 seconds and by process_due_subscriptions at any time          *)
(* (products/payments/src/engine.py, scheduler.py).  A storage write with  *)
(* its commit is one step, and so is a wallet call (see Wallet); all       *)
(* subscriptions are of one payer and of one amount, and what the payer    *)
(* spends or deposits elsewhere may leave too little for it at any time.   *)
(***************************************************************************)
EXTENDS Coroutines, FiniteSets

CONSTANTS Subs, FirstSubs,      \* those that exist, and are due, at the start
          SubKeys, NoSubKey,
          MaxSubTime            \* an interval is one tick of the clock

ASSUME SubConstants ==
    /\ FirstSubs \subseteq Subs /\ NoSubKey \notin SubKeys /\ MaxSubTime \in Nat
    /\ \A w \in Workloads : \A r \in Requests :
          /\ w[r].op \in {"subscribe", "cancelSub", "reactivate"} => w[r].sub \in Subs
          /\ w[r].op = "subscribe" => w[r].sub \notin FirstSubs
          /\ \A q \in Requests \ {r} :
                w[r].op = "subscribe" /\ w[q].op = "subscribe" => w[r].sub # w[q].sub

VARIABLES subTime,
          subs,         \* table subscriptions, NoSub where there is none
          due,          \* what each pass still has to charge
          target, seen, \* the subscription a coroutine is at, its row as read
          charges,      \* history: withdrawals, for which date of which subscription
          paid, booked, \* history: those the payee got, those with a settlement
          overlapping,  \* history: passes that ran at the same time
          contended     \* history: subscriptions with two writers at a time

subVars == <<subTime, subs, due, target, seen, charges, paid, booked,
             overlapping, contended>>
subFunds == <<charges, paid, booked>>

NoSub == [status |-> "none", next |-> 0, count |-> 0, key |-> NoSubKey]
SubsWithKey(k) == {s \in Subs : subs[s].status # "none" /\ subs[s].key = k}

PassPlaces == {"next", "read", "withdraw", "suspend", "deposit", "settle", "book"}
InPass(r) == Op(r) = "pass" /\ pc[r] \in PassPlaces
\* Coroutines that have read a row they are going to write.
Writing(r, s) == {q \in Requests \ {r} :
    /\ pc[q] \in {"withdraw", "suspend", "deposit", "settle", "book", "update"}
    /\ target[q] = s}
Contend(r, s) == contended' = IF Writing(r, s) # {} THEN contended \cup {s} ELSE contended

\* create_subscription: a known key answers with the first subscription.
LookupSubKey(r) ==
    /\ At(r, "subscribe", "new")
    /\ Go(r, IF job[r].subKey # NoSubKey /\ SubsWithKey(job[r].subKey) # {}
             THEN "done" ELSE "insert")
    /\ UNCHANGED subVars

\* The INSERT, which the unique index on the key may refuse.
InsertSub(r) ==
    /\ At(r, "subscribe", "insert")
    /\ IF job[r].subKey # NoSubKey /\ SubsWithKey(job[r].subKey) # {}
       THEN Go(r, "error") /\ UNCHANGED subs
       ELSE /\ subs' = [subs EXCEPT ![job[r].sub] =
                 [status |-> "active", next |-> subTime + 1, count |-> 0, key |-> job[r].subKey]]
            /\ Go(r, "done")
    /\ UNCHANGED <<subTime, subFunds, due, target, seen, overlapping, contended>>

\* cancel_subscription and reactivate_subscription: a read, and an UPDATE of
\* whatever status the row has by then.
ReadStatus(r) ==
    /\ Op(r) \in {"cancelSub", "reactivate"} /\ pc[r] = "new"
    /\ LET status == subs[job[r].sub].status IN
       Go(r, IF Op(r) = "cancelSub"
             THEN IF status \in {"active", "suspended"} THEN "update" ELSE "rejected"
             ELSE CASE status = "suspended" -> "update"
                    [] status = "active" /\ job[r].subKey # NoSubKey -> "done"
                    [] OTHER -> "rejected")
    /\ target' = [target EXCEPT ![r] = job[r].sub]
    /\ Contend(r, job[r].sub)
    /\ UNCHANGED <<subTime, subFunds, subs, due, seen, overlapping>>

UpdateStatus(r) ==
    /\ Op(r) \in {"cancelSub", "reactivate"} /\ pc[r] = "update"
    /\ subs' = [subs EXCEPT ![target[r]].status =
                   IF Op(r) = "cancelSub" THEN "cancelled" ELSE "active"]
    /\ Go(r, "done")
    /\ UNCHANGED <<subTime, subFunds, due, target, seen, overlapping, contended>>

-----------------------------------------------------------------------------
\* process_due.  The expired escrows come first (see Escrows); when one cannot
\* be expired the pass is over.
ListDue(r) ==
    /\ At(r, "pass", "new")
    /\ \/ /\ due' = [due EXCEPT ![r] = {s \in Subs : /\ subs[s].status = "active"
                                                    /\ subs[s].next <= subTime}]
          /\ Go(r, "next")
          /\ overlapping' = IF \E q \in Requests : InPass(q)
                            THEN overlapping \cup {r} \cup {q \in Requests : InPass(q)}
                            ELSE overlapping
       \/ Go(r, "error") /\ UNCHANGED <<due, overlapping>>
    /\ UNCHANGED <<subTime, subFunds, subs, target, seen, contended>>

NextDue(r) ==
    /\ At(r, "pass", "next")
    /\ IF due[r] = {} THEN Go(r, "done") /\ UNCHANGED <<due, target>>
       ELSE \E s \in due[r] : /\ due' = [due EXCEPT ![r] = @ \ {s}]
                              /\ target' = [target EXCEPT ![r] = s]
                              /\ Go(r, "read")
    /\ UNCHANGED <<subTime, subFunds, subs, seen, overlapping, contended>>

\* charge_subscription reads the row again: its status, not its date.
\* Mutant: it charges what the list of the pass says.
ReadAnySub(r) ==
    /\ At(r, "pass", "read")
    /\ seen' = [seen EXCEPT ![r] = subs[target[r]]]
    /\ Go(r, "withdraw")
    /\ Contend(r, target[r])
    /\ UNCHANGED <<subTime, subFunds, subs, due, target, overlapping>>

ReadSub(r) ==
    /\ At(r, "pass", "read")
    /\ seen' = [seen EXCEPT ![r] = subs[target[r]]]
    /\ Go(r, IF subs[target[r]].status = "active" THEN "withdraw" ELSE "next")
    /\ Contend(r, target[r])
    /\ UNCHANGED <<subTime, subFunds, subs, due, target, overlapping>>

ChargeOf(r) == [by |-> r, sub |-> target[r], date |-> seen[r].next]

\* Too little left suspends the subscription, whatever it is by then; a frozen
\* wallet is logged.
WithdrawDue(r) ==
    /\ At(r, "pass", "withdraw")
    /\ \/ charges' = charges \cup {ChargeOf(r)} /\ Go(r, "deposit")
       \/ (Go(r, "suspend") \/ Go(r, "next")) /\ UNCHANGED charges
    /\ UNCHANGED <<subTime, paid, booked, subs, due, target, seen, overlapping, contended>>

SuspendSub(r) ==
    /\ At(r, "pass", "suspend")
    /\ subs' = [subs EXCEPT ![target[r]].status = "suspended"]
    /\ Go(r, "next")
    /\ UNCHANGED <<subTime, subFunds, due, target, seen, overlapping, contended>>

\* A refused deposit is logged, and the withdrawal stands.
PayDue(r) ==
    /\ At(r, "pass", "deposit")
    /\ \/ paid' = paid \cup {ChargeOf(r)} /\ Go(r, "settle")
       \/ Go(r, "next") /\ UNCHANGED paid
    /\ UNCHANGED <<subTime, charges, booked, subs, due, target, seen, overlapping, contended>>

SettleDue(r) ==
    /\ At(r, "pass", "settle")
    /\ booked' = booked \cup {ChargeOf(r)}
    /\ Go(r, "book")
    /\ UNCHANGED <<subTime, charges, paid, subs, due, target, seen, overlapping, contended>>

\* The count is the one that was read; the next date is counted from now.
BookCharge(r) ==
    /\ At(r, "pass", "book")
    /\ subs' = [subs EXCEPT ![target[r]].count = seen[r].count + 1,
                            ![target[r]].next = subTime + 1]
    /\ Go(r, "next")
    /\ UNCHANGED <<subTime, subFunds, due, target, seen, overlapping, contended>>

SubStep(r) == \/ LookupSubKey(r) \/ InsertSub(r) \/ ReadStatus(r) \/ UpdateStatus(r)
              \/ ListDue(r) \/ NextDue(r) \/ ReadSub(r) \/ WithdrawDue(r) \/ SuspendSub(r)
              \/ PayDue(r) \/ SettleDue(r) \/ BookCharge(r)

SubTick == /\ subTime < MaxSubTime /\ \E r \in Requests : Op(r) = "pass"
           /\ subTime' = subTime + 1
           /\ UNCHANGED <<subFunds, subs, due, target, seen, overlapping, contended>>

SubInit ==
    /\ subTime = 0
    /\ subs = [s \in Subs |-> IF s \in FirstSubs THEN [NoSub EXCEPT !.status = "active"] ELSE NoSub]
    /\ due = [r \in Requests |-> {}]
    /\ target = [r \in Requests |-> "none"] /\ seen = [r \in Requests |-> NoSub]
    /\ charges = {} /\ paid = {} /\ booked = {} /\ overlapping = {} /\ contended = {}

-----------------------------------------------------------------------------
\* A pass takes a payment once for each date of a subscription, and not before
\* that date, unless one of the two passes overlapped another, which may book an
\* early date as taken, or the payment before was not booked: its deposit was
\* refused, or the pass was cut after it withdrew.
\* What the payee gets is what was withdrawn, and has a settlement.
Charging == {"deposit", "settle", "book"}
InFlight(c) == InPass(c.by) /\ pc[c.by] \in Charging /\ ChargeOf(c.by) = c
WasCut(c) == cut[c.by] \in Charging /\ ChargeOf(c.by) = c
Refused(c) == c \notin paid /\ ~InFlight(c)
Unsure(c) == c.by \in overlapping \/ WasCut(c) \/ Refused(c)
\* A subscription that is cancelled stays so, and is not charged any more,
\* unless a coroutine that had read its row before wrote it after.
\* A key stands for one subscription.
CancelStands(s) ==
    \A r \in Requests : Op(r) = "cancelSub" /\ pc[r] = "done" /\ job[r].sub = s =>
       /\ subs[s].status = "cancelled" \/ s \in contended
       /\ \A q \in Requests : InPass(q) /\ pc[q] = "withdraw" /\ target[q] = s => s \in contended
ChargedWhenDue ==
    /\ \A c, d \in charges : c # d /\ c.sub = d.sub /\ c.date = d.date =>
          Unsure(c) \/ Unsure(d)
    /\ \A c \in charges : c.date <= subTime \/ c.by \in overlapping
    /\ booked \subseteq paid /\ paid \subseteq charges
    /\ \A c \in charges \ booked : InFlight(c) \/ WasCut(c) \/ Refused(c)
    /\ \A s \in Subs : CancelStands(s)
    /\ \A s \in Subs : subs[s].count = Cardinality({c \in booked : c.sub = s})
          \/ \E c \in booked : c.sub = s /\ (InFlight(c) \/ Unsure(c))
    /\ \A k \in SubKeys : Cardinality(SubsWithKey(k)) <= 1
============================================================================
