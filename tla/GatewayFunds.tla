---------------------------- MODULE GatewayFunds ----------------------------
(***************************************************************************)
(* The money that the gateway itself moves over the wallet.                *)
(*                                                                         *)
(* Credits bought with Stripe (gateway/src/stripe_checkout.py): the        *)
(* handler of checkout.session.completed, which Stripe delivers at least   *)
(* once, and repeats until it is answered with 200.                        *)
(*                                                                         *)
(* Payments split between several payees (gateway/src/tools/payments.py),  *)
(* by POST /v1/payments/intents/split, which has no idempotency key, or as *)
(* a call of /v1/batch, which may have one.  The amount is 10000 units, so *)
(* that a share in hundredths of a percent is a number of units; a wallet  *)
(* call with its commit is one step (see Wallet).                          *)
(***************************************************************************)
EXTENDS Coroutines, Integers, FiniteSets, Sequences, Functions

CONSTANT Huge       \* sessions of more than 1,000,000 credits

VARIABLES memory,     \* _processed_sessions
          processed,  \* processed_stripe_sessions
          credited,   \* deposits: the session and the delivery
          forgotten,  \* history: sessions whose row could not be written
          entwined    \* history: sessions found new twice before one was recorded

topUpVars == <<memory, processed, credited, forgotten, entwined>>

Session(r) == job[r].session
DepositOf(r) == [by |-> r, session |-> Session(r)]

RecallSession(r) ==
    /\ At(r, "webhook", "new")
    /\ Go(r, IF Session(r) \in memory THEN "done" ELSE "select")
    /\ UNCHANGED topUpVars

Unrecorded(r) == {q \in Requests \ {r} : /\ Op(q) = "webhook" /\ Session(q) = Session(r)
                                         /\ pc[q] \in {"deposit", "remember"}}

\* Mutant: the table is not read, the memory of the process decides.
TrustMemory(r) ==
    /\ At(r, "webhook", "select")
    /\ Go(r, IF Session(r) \in Huge THEN "rejected" ELSE "deposit")
    /\ entwined' = IF Unrecorded(r) # {} THEN entwined \cup {Session(r)} ELSE entwined
    /\ UNCHANGED <<memory, processed, credited, forgotten>>

\* The row is the primary source; without the table nothing is credited.  A
\* checkout may be of any amount, its completion may not.
FindSession(r) ==
    /\ At(r, "webhook", "select")
    /\ \/ /\ Session(r) \in processed
          /\ memory' = memory \cup {Session(r)}
          /\ Go(r, "done")
          /\ UNCHANGED entwined
       \/ /\ Session(r) \notin processed
          /\ Go(r, IF Session(r) \in Huge THEN "rejected" ELSE "deposit")
          /\ entwined' = IF Unrecorded(r) # {} THEN entwined \cup {Session(r)} ELSE entwined
          /\ UNCHANGED memory
       \/ Go(r, "error") /\ UNCHANGED <<memory, entwined>>
    /\ UNCHANGED <<processed, credited, forgotten>>

\* wallet.create, whose failure is ignored, and wallet.deposit, which a frozen
\* wallet refuses.
DepositCredits(r) ==
    /\ At(r, "webhook", "deposit")
    /\ \/ credited' = credited \cup {DepositOf(r)} /\ Go(r, "remember")
       \/ Go(r, "error") /\ UNCHANGED credited
    /\ UNCHANGED <<memory, processed, forgotten, entwined>>

\* The answer is 200 whether or not the row is written.
RememberSession(r) ==
    /\ At(r, "webhook", "remember")
    /\ memory' = memory \cup {Session(r)}
    /\ \/ processed' = processed \cup {Session(r)} /\ UNCHANGED forgotten
       \/ forgotten' = forgotten \cup {Session(r)} /\ UNCHANGED processed
    /\ Go(r, "done")
    /\ UNCHANGED <<credited, entwined>>

TopUpStep(r) == RecallSession(r) \/ FindSession(r) \/ DepositCredits(r) \/ RememberSession(r)

TopUpCrash == memory' = {} /\ UNCHANGED <<processed, credited, forgotten, entwined>>

TopUpInit == memory = {} /\ processed = {} /\ credited = {} /\ forgotten = {} /\ entwined = {}

-----------------------------------------------------------------------------
\* However often Stripe delivers a session, also after a crash, its credits are
\* deposited once ("DB is the primary source of truth" of stripe_webhook),
\* unless two deliveries found it new at the same time, or its row was not
\* written: the first delivery was cut before it, or the write failed.  And a
\* delivery is answered with 200 only when the credits are there.
HalfRecorded(s) == \E r \in Requests : /\ Op(r) = "webhook" /\ Session(r) = s
                                       /\ cut[r] \in {"deposit", "remember"}
CreditedOnce ==
    /\ \A x, y \in credited : x.session = y.session /\ x # y =>
          \/ x.session \in entwined \cup forgotten
          \/ HalfRecorded(x.session)
    /\ \A r \in Requests : Op(r) = "webhook" /\ pc[r] = "done" =>
          \E x \in credited : x.session = Session(r)

-----------------------------------------------------------------------------
\* Split payments.
CONSTANTS SplitKeys, NoSplitKey,
          Unknown,      \* a payee who has no wallet
          SplitPurse    \* what the payer has

ASSUME SplitConstants ==
    /\ SplitPurse \in Nat /\ NoSplitKey \notin SplitKeys
    /\ \A w \in Workloads : \A r \in Requests :
          w[r].op = "split" => w[r].splits \in Seq({w[r].splits[i] : i \in DOMAIN w[r].splits})

VARIABLES markers,      \* rows "split_intent" of the ledger: the keys
          splitPurse,
          shared,       \* how many shares each request has paid
          taken,        \* history: requests that took the amount
          raced         \* history: requests that looked a key up together

splitVars == <<markers, splitPurse, shared, taken, raced>>

Amount == 10000
\* wallet.deposit wants a wallet, and a positive amount.
Unpayable(s) == s.payee = Unknown \/ s.share <= 0
Shares(r) == [i \in DOMAIN job[r].splits |-> job[r].splits[i].share]
Added(shares) == FoldFunction(LAMBDA x, y : x + y, 0, shares)
SumOfShares(r) == Added(Shares(r))
SplitKey(r) == job[r].splitKey
Keyed(r) == SplitKey(r) # NoSplitKey
Splitting(r) == Op(r) = "split" /\ pc[r] \in {"withdraw", "deposit", "marker"}

\* The key comes first, then the sum of the percentages, within a hundredth.
LookupSplit(r) ==
    /\ At(r, "split", "new")
    /\ Go(r, IF Keyed(r) /\ SplitKey(r) \in markers THEN "done"
             ELSE IF SumOfShares(r) \in (Amount - 1)..(Amount + 1) THEN "withdraw"
             ELSE "rejected")
    /\ LET rivals == {q \in Requests : Splitting(q) /\ Keyed(q) /\ SplitKey(q) = SplitKey(r)} IN
       raced' = IF rivals # {} THEN raced \cup rivals \cup {r} ELSE raced
    /\ UNCHANGED <<markers, splitPurse, shared, taken>>

WithdrawSplit(r) ==
    /\ At(r, "split", "withdraw")
    /\ IF splitPurse < Amount
       THEN Go(r, "rejected") /\ UNCHANGED <<splitPurse, taken>>
       ELSE /\ splitPurse' = splitPurse - Amount
            /\ taken' = taken \cup {r}
            /\ Go(r, "deposit")
    /\ UNCHANGED <<markers, shared, raced>>

\* One payee after the other; nothing is given back when one cannot be paid.
DepositShare(r) ==
    /\ At(r, "split", "deposit")
    /\ IF shared[r] = Len(job[r].splits)
       THEN Go(r, IF Keyed(r) THEN "marker" ELSE "done") /\ UNCHANGED shared
       ELSE IF Unpayable(job[r].splits[shared[r] + 1])
            THEN Go(r, "rejected") /\ UNCHANGED shared
            ELSE shared' = [shared EXCEPT ![r] = @ + 1] /\ UNCHANGED pc
    /\ UNCHANGED <<markers, splitPurse, taken, raced>>

\* The marker is last; the unique index may refuse it.
RecordMarker(r) ==
    /\ At(r, "split", "marker")
    /\ Go(r, IF SplitKey(r) \in markers THEN "rejected" ELSE "done")
    /\ markers' = markers \cup {SplitKey(r)}
    /\ UNCHANGED <<splitPurse, shared, taken, raced>>

SplitStep(r) == LookupSplit(r) \/ WithdrawSplit(r) \/ DepositShare(r) \/ RecordMarker(r)

SplitInit ==
    /\ markers = {} /\ splitPurse = SplitPurse
    /\ shared = [r \in Requests |-> 0]
    /\ taken = {} /\ raced = {}

-----------------------------------------------------------------------------
CutShort(r) == pc[r] \in {"504", "lost"}
PaidBy(r) == Added(SubSeq(Shares(r), 1, shared[r]))

\* What the payer gave went to the payees, but for a unit of rounding, unless
\* the request was cut short or came to a payee it cannot pay (the docstring
\* promises "withdraws full amount from payer, deposits to each payee"); and
\* a success that is replayed tells of a payment that was made.
SplitsPaid ==
    /\ \A r \in Requests : shared[r] > 0 => r \in taken
    /\ \A r \in taken :
          \/ PaidBy(r) \in (Amount - 1)..(Amount + 1)
          \/ Splitting(r) \/ CutShort(r)
          \/ pc[r] = "rejected" /\ Unpayable(job[r].splits[shared[r] + 1])
    /\ \A r \in Requests : At(r, "split", "done") /\ r \notin taken =>
          \E q \in taken : SplitKey(q) = SplitKey(r) /\ shared[q] = Len(job[q].splits)

\* One key pays once, unless two requests looked it up together, or the first
\* was gone before its marker.
SplitOnce ==
    \A p, q \in taken : p # q /\ Keyed(p) /\ SplitKey(p) = SplitKey(q) =>
        {p, q} \subseteq raced \/ \E r \in {p, q} : pc[r] # "done"
=============================================================================
