------------------------------- MODULE Wallet -------------------------------
(***************************************************************************)
(* The billing wallet (products/billing/src/wallet.py on storage.py): one  *)
(* coroutine per request, all on ONE autocommit connection, every awaited  *)
(* statement a step.  atomic_* methods hold an asyncio lock from BEGIN     *)
(* IMMEDIATE to COMMIT; every other method (ledger insert, event insert,   *)
(* convert_currency's own transaction) runs without it.                    *)
(***************************************************************************)
EXTENDS Sums, SqliteConnection

CONSTANTS Agents, Currencies, CREDITS, Keys, NoKey, NoOne,
          Requests,         \* request coroutines
          Workloads,        \* what the requests may ask: a set of functions
          Wallets0,         \* agents that have a wallet row at the start
          Start,            \* balances at the start
          SignupBonus,
          Reload,           \* auto_reload_config row of an agent
          Reloading0,       \* agents whose auto-reload is enabled at the start
          MaxFaults         \* crashes and timeouts

Accounts == Agents \X Currencies
Parts == {"bonus", "main", "to", "reload"}
Legs == Requests \X Parts

MoneyOps == {"create", "deposit", "withdraw", "charge", "convert"}
ConfigOps == {"freeze", "unfreeze", "enable_reload", "disable_reload"}
Job == [op : MoneyOps \cup ConfigOps, agent : Agents, cur : Currencies,
        amount : Int, key : Keys \cup {NoKey}, to : Currencies, gain : Nat]

ASSUME WalletConstants ==
    /\ CREDITS \in Currencies
    /\ NoKey \notin Keys
    /\ NoOne \notin Requests
    /\ Workloads \subseteq [Requests -> Job]
    \* only deposit and withdraw take an idempotency key
    /\ \A w \in Workloads, r \in Requests :
           w[r].op \notin {"deposit", "withdraw"} => w[r].key = NoKey
    /\ Wallets0 \subseteq Agents
    /\ Start \in [Accounts -> Nat]
    /\ SignupBonus \in Nat
    /\ Reload \in [Agents -> [threshold : Nat, amount : Nat]]
    /\ Reloading0 \subseteq Agents
    /\ MaxFaults \in Nat

\* The tables hold finitely many rows.
ASSUME WalletTables == IsFiniteSet(Requests)

VARIABLES
    job,      \* the workload: what each request asks
    conn,     \* the shared connection (see SqliteConnection)
    holder,   \* who holds storage._txn_lock
    pc,       \* where each coroutine is
    loc,      \* its locals: the leg being applied, rowcount > 0, balance read
    faults,
    tainted,  \* history: a rollback discarded another coroutine's statements
    raced     \* history: keys looked up while another request was using them

vars == <<job, conn, holder, pc, loc, faults, tainted, raced>>

(***************************************************************************)
(* Tables.  applied is history kept inside the tables, so that commits and *)
(* rollbacks move it with the balances it explains.                        *)
(***************************************************************************)
Tables == [wallets : SUBSET Agents, balance : [Accounts -> Int],
           applied : SUBSET Legs, rows : SUBSET Legs, events : SUBSET Legs,
           frozen : SUBSET Agents, reloading : SUBSET Agents]

Tables0 == [wallets |-> Wallets0, balance |-> Start, applied |-> {},
            rows |-> {}, events |-> {}, frozen |-> {},
            reloading |-> Reloading0]

Local0 == [leg |-> "main", ok |-> FALSE, seen |-> 0]

Terminal == {"done", "replayed", "rejected", "error", "504", "lost"}
Running == {"check", "begin", "update", "commit", "row", "rowCommit",
            "event", "eventCommit", "reload", "insertWallet", "insertCommit",
            "cBegin", "cDebit", "cCredit", "cRow1", "cRow2", "cCommit", "cUndo",
            "config", "configCommit"}

db == conn.data

AccountOf(r, p) ==
    <<job[r].agent, IF p = "to" THEN job[r].to
                    ELSE IF p = "reload" \/ job[r].op = "create" THEN CREDITS
                    ELSE job[r].cur>>

AmountOf(r, p) ==
    IF p = "bonus" THEN SignupBonus
    ELSE IF p = "to" THEN job[r].gain
    ELSE IF p = "reload" THEN Reload[job[r].agent].amount
    ELSE IF job[r].op \in {"create", "deposit"} THEN job[r].amount
    ELSE -job[r].amount

\* Balance and history after leg p of request r.
WithLeg(d, r, p) ==
    [d EXCEPT !.balance[AccountOf(r, p)] = @ + AmountOf(r, p),
              !.applied = @ \cup {<<r, p>>}]

KeyUsed(d, k) == \E l \in d.rows : l[2] = "main" /\ job[l[1]].key = k

Go(r, next) == pc' = [pc EXCEPT ![r] = next]
Write(d) == conn' = ExecuteAutocommit(conn, d)
Keep == UNCHANGED <<job, faults>>
History == UNCHANGED <<tainted, raced>>

-----------------------------------------------------------------------------
\* Requests with the same key that are between their lookup and their row.
UsingKey(k) ==
    {r \in Requests : /\ job[r].key = k
                      /\ loc[r].leg = "main"
                      /\ pc[r] \in {"check", "begin", "update", "commit", "row"}}

\* Mutant: the key is not looked up.
LookupNoKey(r) ==
    /\ pc[r] = "new"
    /\ job[r].op \in {"deposit", "withdraw"}
    /\ Go(r, "check")
    /\ UNCHANGED <<conn, holder, loc, tainted, raced>> /\ Keep

\* deposit/withdraw: an existing transaction with the key is replayed.
Lookup(r) ==
    /\ pc[r] = "new"
    /\ job[r].op \in {"deposit", "withdraw"}
    /\ LET k == job[r].key IN
       /\ Go(r, IF k # NoKey /\ KeyUsed(db, k) THEN "replayed" ELSE "check")
       /\ raced' = IF k # NoKey /\ ~KeyUsed(db, k) /\ UsingKey(k) # {}
                   THEN raced \cup {k} ELSE raced
    /\ UNCHANGED <<conn, holder, loc, tainted>> /\ Keep

\* charge and convert_currency have no key; configuration calls no checks.
Enter(r) ==
    /\ pc[r] = "new"
    /\ job[r].op \in {"charge", "convert"} \cup ConfigOps
    /\ Go(r, IF job[r].op \in ConfigOps THEN "config" ELSE "check")
    /\ UNCHANGED <<conn, holder, loc>> /\ Keep /\ History

\* amount <= 0, the freeze (charge ignores it) and a missing wallet reject.
\* A deposit does not look for the wallet: only its UPDATE will tell.
Check(r) ==
    /\ pc[r] = "check"
    /\ LET j == job[r]
           bad == \/ j.amount <= 0
                  \/ j.op # "charge" /\ j.agent \in db.frozen
                  \/ j.op # "deposit" /\ j.agent \notin db.wallets
       IN Go(r, IF bad THEN "rejected"
                ELSE IF j.op = "convert" THEN "cBegin" ELSE "begin")
    /\ UNCHANGED <<conn, holder, loc>> /\ Keep /\ History

\* atomic_*: take the lock, BEGIN IMMEDIATE.  BEGIN fails inside a
\* transaction somebody else has open, and the error leaves the handler.
BeginTxn(r) ==
    /\ pc[r] = "begin" /\ holder = NoOne
    /\ IF CanBegin(conn)
       THEN /\ conn' = Begin(conn) /\ holder' = r /\ Go(r, "update")
       ELSE /\ Go(r, "error") /\ UNCHANGED <<conn, holder>>
    /\ UNCHANGED loc /\ Keep /\ History

\* Mutant: UPDATE without "AND balance >= ?".
UpdateUnguarded(r) ==
    /\ pc[r] = "update"
    /\ LET d == WithLeg(db, r, loc[r].leg)
       IN /\ Write(d)
          /\ loc' = [loc EXCEPT ![r].ok = TRUE,
                     ![r].seen = d.balance[AccountOf(r, loc[r].leg)]]
    /\ Go(r, "commit")
    /\ UNCHANGED holder /\ Keep /\ History

\* The guarded UPDATE and the SELECT that follows it.
Update(r) ==
    /\ pc[r] = "update"
    /\ LET p   == loc[r].leg
           a   == AccountOf(r, p)
           amt == AmountOf(r, p)
           ok  == /\ amt < 0 => db.balance[a] >= -amt
                  /\ amt >= 0 /\ a[2] = CREDITS => a[1] \in db.wallets
           d   == IF ok THEN WithLeg(db, r, p) ELSE db
       IN /\ Write(d)
          /\ loc' = [loc EXCEPT ![r].ok = ok, ![r].seen = d.balance[a]]
    /\ Go(r, "commit")
    /\ UNCHANGED holder /\ Keep /\ History

\* Mutant: the rowcount of the UPDATE is ignored.
CommitTxnIgnoresRowcount(r) ==
    /\ pc[r] = "commit"
    /\ conn' = Commit(conn)
    /\ holder' = NoOne
    /\ Go(r, "row")
    /\ UNCHANGED loc /\ Keep /\ History

\* Mutant: the lock is not released when nothing was updated.
CommitTxnKeepsLock(r) ==
    /\ pc[r] = "commit"
    /\ conn' = Commit(conn)
    /\ holder' = IF loc[r].ok THEN NoOne ELSE holder
    /\ Go(r, IF loc[r].ok THEN "row" ELSE "rejected")
    /\ UNCHANGED loc /\ Keep /\ History

CommitTxn(r) ==
    /\ pc[r] = "commit"
    /\ conn' = Commit(conn)
    /\ holder' = NoOne
    /\ Go(r, IF loc[r].ok THEN "row"
             ELSE IF loc[r].leg = "reload" THEN "done" ELSE "rejected")
    /\ UNCHANGED loc /\ Keep /\ History

\* Mutant: INSERT OR IGNORE.
InsertRowOrIgnore(r) ==
    /\ pc[r] = "row"
    /\ LET p == loc[r].leg
           duplicate == p = "main" /\ job[r].key # NoKey /\ KeyUsed(db, job[r].key)
       IN Write([db EXCEPT !.rows = IF duplicate THEN @ ELSE @ \cup {<<r, p>>}])
    /\ Go(r, "rowCommit")
    /\ UNCHANGED <<holder, loc>> /\ Keep /\ History

\* record_transaction: the UNIQUE index on idempotency_key may refuse the
\* row, after the balance has moved.
InsertRow(r) ==
    /\ pc[r] = "row"
    /\ LET p == loc[r].leg
           duplicate == p = "main" /\ job[r].key # NoKey /\ KeyUsed(db, job[r].key)
       IN IF duplicate
          THEN Go(r, "error") /\ UNCHANGED conn
          ELSE /\ Write([db EXCEPT !.rows = @ \cup {<<r, p>>}])
               /\ Go(r, "rowCommit")
    /\ UNCHANGED <<holder, loc>> /\ Keep /\ History

\* charge emits no event of its own.
CommitRow(r) ==
    /\ pc[r] = "rowCommit"
    /\ conn' = Commit(conn)
    /\ Go(r, IF job[r].op = "charge" /\ loc[r].leg = "main"
             THEN "reload" ELSE "event")
    /\ UNCHANGED <<holder, loc>> /\ Keep /\ History

EmitEvent(r) ==
    /\ pc[r] = "event"
    /\ Write([db EXCEPT !.events = @ \cup {<<r, loc[r].leg>>}])
    /\ Go(r, "eventCommit")
    /\ UNCHANGED <<holder, loc>> /\ Keep /\ History

\* What follows the event: create logs its bonus first, convert_currency
\* emits for both legs, a CREDITS withdrawal looks at auto-reload.
CommitEvent(r) ==
    /\ pc[r] = "eventCommit"
    /\ conn' = Commit(conn)
    /\ LET j == job[r]
           first == loc[r].leg
           leg(p) == loc' = [loc EXCEPT ![r].leg = p]
       IN CASE j.op = "create" /\ first = "bonus" ->
                 leg("main") /\ Go(r, IF j.amount > 0 THEN "row" ELSE "event")
            [] j.op = "convert" /\ first = "main" -> leg("to") /\ Go(r, "event")
            [] j.op = "withdraw" /\ first = "main" /\ j.cur = CREDITS ->
                 UNCHANGED loc /\ Go(r, "reload")
            [] OTHER -> UNCHANGED loc /\ Go(r, "done")
    /\ UNCHANGED holder /\ Keep /\ History

\* Mutant: the comparison uses the balance before the debit.
MaybeReloadTooLate(r) ==
    /\ pc[r] = "reload"
    /\ LET a == job[r].agent IN
       IF a \in db.reloading /\ loc[r].seen + job[r].amount < Reload[a].threshold
       THEN loc' = [loc EXCEPT ![r].leg = "reload"] /\ Go(r, "begin")
       ELSE UNCHANGED loc /\ Go(r, "done")
    /\ UNCHANGED <<conn, holder>> /\ Keep /\ History

\* _maybe_auto_reload compares the balance its own debit saw.
MaybeReload(r) ==
    /\ pc[r] = "reload"
    /\ LET a == job[r].agent IN
       IF a \in db.reloading /\ loc[r].seen < Reload[a].threshold
       THEN loc' = [loc EXCEPT ![r].leg = "reload"] /\ Go(r, "begin")
       ELSE UNCHANGED loc /\ Go(r, "done")
    /\ UNCHANGED <<conn, holder>> /\ Keep /\ History

-----------------------------------------------------------------------------
\* Wallet.create: existence check, then an INSERT that fails on a second row
\* for the agent and on a negative amount.
CheckNoWallet(r) ==
    /\ pc[r] = "new" /\ job[r].op = "create"
    /\ Go(r, IF job[r].agent \in db.wallets THEN "rejected" ELSE "insertWallet")
    /\ UNCHANGED <<conn, holder, loc>> /\ Keep /\ History

InsertWallet(r) ==
    /\ pc[r] = "insertWallet"
    /\ LET a == job[r].agent
           initial == SignupBonus + job[r].amount
       IN IF a \in db.wallets \/ initial < 0
          THEN Go(r, "error") /\ UNCHANGED conn
          ELSE /\ Write([db EXCEPT !.wallets = @ \cup {a},
                                   !.balance[<<a, CREDITS>>] = @ + initial,
                                   !.applied = @ \cup {<<r, "bonus">>, <<r, "main">>}])
               /\ Go(r, "insertCommit")
    /\ UNCHANGED <<holder, loc>> /\ Keep /\ History

\* The bonus, when there is one, is logged and announced before the deposit.
CommitWallet(r) ==
    /\ pc[r] = "insertCommit"
    /\ conn' = Commit(conn)
    /\ loc' = [loc EXCEPT ![r].leg = IF SignupBonus > 0 THEN "bonus" ELSE "main"]
    /\ Go(r, IF SignupBonus > 0 \/ job[r].amount > 0 THEN "row" ELSE "event")
    /\ UNCHANGED holder /\ Keep /\ History

-----------------------------------------------------------------------------
\* convert_currency: its own BEGIN IMMEDIATE on the same connection, taken
\* without the lock and outside its try block.
BeginConversion(r) ==
    /\ pc[r] = "cBegin"
    /\ IF CanBegin(conn)
       THEN conn' = Begin(conn) /\ Go(r, "cDebit")
       ELSE Go(r, "error") /\ UNCHANGED conn
    /\ UNCHANGED <<holder, loc>> /\ Keep /\ History

DebitSource(r) ==
    /\ pc[r] = "cDebit"
    /\ IF db.balance[AccountOf(r, "main")] >= job[r].amount
       THEN Write(WithLeg(db, r, "main")) /\ Go(r, "cCredit")
       ELSE Go(r, "cUndo") /\ UNCHANGED conn
    /\ UNCHANGED <<holder, loc>> /\ Keep /\ History

CreditTarget(r) ==
    /\ pc[r] = "cCredit"
    /\ Write(WithLeg(db, r, "to"))
    /\ Go(r, "cRow1")
    /\ UNCHANGED <<holder, loc>> /\ Keep /\ History

\* The two ledger INSERTs of the conversion.
RecordConversion(r) ==
    /\ \/ pc[r] = "cRow1" /\ Write([db EXCEPT !.rows = @ \cup {<<r, "main">>}])
                            /\ Go(r, "cRow2")
       \/ pc[r] = "cRow2" /\ Write([db EXCEPT !.rows = @ \cup {<<r, "to">>}])
                            /\ Go(r, "cCommit")
    /\ UNCHANGED <<holder, loc>> /\ Keep /\ History

CommitConversion(r) ==
    /\ pc[r] = "cCommit"
    /\ conn' = Commit(conn)
    /\ Go(r, "event")
    /\ UNCHANGED <<holder, loc>> /\ Keep /\ History

\* Mutant: the debit that failed is taken back as if it had happened.
UndoConversionByCredit(r) ==
    /\ pc[r] = "cUndo"
    /\ conn' = Commit([conn EXCEPT
            !.data.balance[AccountOf(r, "main")] = @ + job[r].amount])
    /\ Go(r, "rejected")
    /\ UNCHANGED <<holder, loc, tainted, raced>> /\ Keep

\* rollback() discards every uncommitted statement on the connection.
UndoConversion(r) ==
    /\ pc[r] = "cUndo"
    /\ conn' = Rollback(conn)
    /\ tainted' = (tainted \/ conn.data # conn.saved)
    /\ Go(r, "rejected")
    /\ UNCHANGED <<holder, loc, raced>> /\ Keep

-----------------------------------------------------------------------------
\* set_wallet_frozen, enable_auto_reload, disable_auto_reload: upsert, commit.
Configure(r) ==
    /\ pc[r] = "config"
    /\ LET a == {job[r].agent} IN
       Write(CASE job[r].op = "freeze" -> [db EXCEPT !.frozen = @ \cup a]
               [] job[r].op = "unfreeze" -> [db EXCEPT !.frozen = @ \ a]
               [] job[r].op = "enable_reload" -> [db EXCEPT !.reloading = @ \cup a]
               [] OTHER -> [db EXCEPT !.reloading = @ \ a])   \* disable_reload
    /\ Go(r, "configCommit")
    /\ UNCHANGED <<holder, loc>> /\ Keep /\ History

CommitConfig(r) ==
    /\ pc[r] = "configCommit"
    /\ conn' = Commit(conn)
    /\ Go(r, "done")
    /\ UNCHANGED <<holder, loc>> /\ Keep /\ History

\* RequestTimeoutMiddleware cancels the request: the lock is released on the
\* way out, but no rollback follows a CancelledError, and a transaction it has
\* begun stays open for the next commit on the connection to end.
TimeOut(r) ==
    /\ pc[r] \in Running /\ faults < MaxFaults
    /\ faults' = faults + 1
    /\ holder' = IF holder = r THEN NoOne ELSE holder
    /\ Go(r, "504")
    /\ UNCHANGED <<job, conn, loc, tainted, raced>>

\* The process dies: coroutines are gone, the file keeps what was committed.
CrashProcess ==
    /\ faults < MaxFaults
    /\ faults' = faults + 1
    /\ conn' = Crash(conn)
    /\ holder' = NoOne
    /\ pc' = [r \in Requests |-> IF pc[r] \in Running THEN "lost" ELSE pc[r]]
    /\ UNCHANGED <<job, loc, tainted, raced>>

-----------------------------------------------------------------------------
Init ==
    /\ job \in Workloads
    /\ conn = Connected(Tables0)
    /\ holder = NoOne
    /\ pc = [r \in Requests |-> "new"]
    /\ loc = [r \in Requests |-> Local0]
    /\ faults = 0
    /\ tainted = FALSE
    /\ raced = {}

Arrive(r) == Lookup(r) \/ Enter(r) \/ CheckNoWallet(r)

Continue(r) ==
    \/ Check(r) \/ BeginTxn(r) \/ Update(r) \/ CommitTxn(r)
    \/ InsertRow(r) \/ CommitRow(r) \/ EmitEvent(r) \/ CommitEvent(r)
    \/ MaybeReload(r) \/ InsertWallet(r) \/ CommitWallet(r)
    \/ BeginConversion(r) \/ DebitSource(r) \/ CreditTarget(r)
    \/ RecordConversion(r) \/ CommitConversion(r) \/ UndoConversion(r)
    \/ Configure(r) \/ CommitConfig(r)

\* Every request answered: the gateway idles.
Idle == (\A r \in Requests : pc[r] \in Terminal) /\ UNCHANGED vars

Next ==
    \/ \E r \in Requests : Arrive(r) \/ Continue(r) \/ TimeOut(r)
    \/ CrashProcess \/ Idle

\* The event loop runs every ready coroutine and asyncio.Lock is FIFO; nobody
\* promises that a request arrives, that it is cancelled or that the process
\* crashes.
Fairness == \A r \in Requests : WF_vars(Continue(r))

Spec == Init /\ [][Next]_vars /\ Fairness

-----------------------------------------------------------------------------
\* Types; a connection with no open transaction has nothing to lose.
TypeOK ==
    /\ job \in Workloads
    /\ conn \in Connection(Tables) /\ Settled(conn)
    /\ holder \in Requests \cup {NoOne}
    /\ pc \in [Requests -> {"new"} \cup Running \cup Terminal]
    /\ loc \in [Requests -> [leg : Parts, ok : BOOLEAN, seen : Int]]
    /\ faults \in 0..MaxFaults
    /\ tainted \in BOOLEAN
    /\ raced \subseteq Keys

\* "UPDATE ... WHERE balance >= ?": no interleaving of debits, conversions,
\* commits, rollbacks, timeouts and crashes shows or leaves a balance below
\* zero.
NonNegative ==
    \A a \in Accounts : conn.data.balance[a] >= 0 /\ conn.saved.balance[a] >= 0

Quiet == \A r \in Requests : pc[r] \in {"new"} \cup Terminal
Undisturbed == faults = 0 /\ ~tainted

\* An operation that answered success keeps its balance change and its ledger
\* row through any later crash, although it shares its connection with
\* everybody - unless a conversion rolled back on top of it.
AckDurable ==
    ~tainted => \A r \in Requests :
        pc[r] = "done" /\ job[r].op \in MoneyOps \ {"create"} =>
            LET parts == IF job[r].op = "convert" THEN {"main", "to"} ELSE {"main"}
            IN {r} \X parts \subseteq conn.saved.applied \cap conn.saved.rows

\* Wallet.create records its opening amount only when that is positive, but
\* credits it (a negative one lowers the bonus) in any case.
Unbooked ==
    {l \in Legs : l[2] = "main" /\ job[l[1]].op = "create" /\ job[l[1]].amount <= 0}

LegAmounts == [l \in Legs |-> AmountOf(l[1], l[2])]
LegsOf(L, a) == {l \in L : AccountOf(l[1], l[2]) = a}

\* wallets.balance and transactions are separate commits: when nothing is in
\* flight they agree again, up to opening amounts that have no row, provided
\* no key was raced and no crash, timeout or conversion rollback fell between
\* them.
LedgerReconciles ==
    Quiet /\ Undisturbed /\ raced = {} =>
        /\ conn.data = conn.saved
        /\ db.events \subseteq db.rows \cup Unbooked
        /\ \A a \in Accounts :
               db.balance[a] = Start[a] +
                   Sum(LegAmounts, LegsOf(db.rows \cup (Unbooked \cap db.applied), a))

\* deposit/withdraw with idempotency_key: retries that do not overlap the
\* first attempt move the balance once.
KeyedOnce ==
    Undisturbed => \A k \in Keys \ raced :
        \A r, s \in {x \in Requests : job[x].key = k} :
            <<r, "main">> \in db.applied /\ <<s, "main">> \in db.applied => r = s

\* Auto-reload decides on the balance its own debit saw, after the lock is
\* released; concurrent debits may reload more than once but never leave the
\* wallet below its threshold.
ReloadRestores ==
    Quiet /\ Undisturbed /\ (\A r \in Requests : pc[r] # "error") =>
        \A a \in Reloading0 :
            LET mine == {r \in Requests : job[r].agent = a}
                debit == {r \in mine : /\ job[r].op \in {"withdraw", "charge"}
                                       /\ job[r].cur = CREDITS
                                       /\ <<r, "main">> \in db.applied}
            IN /\ debit # {}
               /\ \A r \in mine : job[r].op \notin ConfigOps \cup {"convert"}
               /\ Reload[a].amount >= Reload[a].threshold
               => db.balance[<<a, CREDITS>>] >= Reload[a].threshold

\* Every request that entered the wallet is answered, be it with 504, or lost
\* to a crash: the
\* transaction lock is always handed on.
Termination ==
    \A r \in Requests : pc[r] \in Running ~> pc[r] \in Terminal

\* The durable tables implement the abstract ledger, unconditionally.
LegRecord(l) == [id |-> l, acct |-> AccountOf(l[1], l[2]),
                 amount |-> AmountOf(l[1], l[2])]

Durable == INSTANCE DurableLedger WITH
    legs <- {LegRecord(l) : l \in Legs},
    applied <- {LegRecord(l) : l \in conn.saved.applied},
    balance <- conn.saved.balance

ImplementsDurableLedger == Durable!Spec
============================================================================
