# A verification development for the a2a gateway

TLA+ modules, TLC configurations and TLAPS proofs kept beside the agent-to-agent
commerce gateway.  They model what the server keeps and moves - money, keys,
events, jobs, measures - as it is written: which step is awaited, what is read
before it and used after it, what one commit makes durable and what a crash
leaves behind.  Beside the server they model what its clients send, retry and
read, the children it talks to and the upstreams these call, the life of the
process, its backups, and the scripts that release it and upgrade its host.

## 1. The system

One Python process runs a FastAPI application on one asyncio event loop.  Every
request is a coroutine; background loops (subscription scheduler, cleanups,
health monitor) are coroutines too.  Coroutines switch only at `await`, so the
code between two awaits is atomic and everything else interleaves.  Each product
keeps its state in a SQLite file of its own, and `lifespan.py` opens **one**
aiosqlite connection per product, shared by all coroutines.  That has three
consequences the models are built on:

* a transaction belongs to the connection, not to the coroutine that began it:
  `commit()` and `rollback()` of anybody end it for everybody;
* an operation that touches two products (escrow rows and wallet balances, say)
  is a sequence of separate commits, never one transaction;
* when the process dies, an open transaction is rolled back and every coroutine
  is lost between two of its steps.

A request that runs for 30 seconds is cancelled (`RequestTimeoutMiddleware`,
middleware/timeout.py:38-60).  The `CancelledError` is raised at the await where its
coroutine stands, and the handlers `except Exception` of the engines do not catch
it: locks that an `async with` holds are released, but nothing is rolled back, reversed
or reverted.  Every model of requests has that step, `TimeOut`.

### Inventory

| Component | State it keeps | Operations | Talks to | What is hard |
|---|---|---|---|---|
| Shared connection (`shared/base_storage.py`) | open transaction, uncommitted writes | execute, BEGIN, commit, rollback | every storage | foreign commits and rollbacks |
| Billing wallet (`billing/wallet.py`, `storage.py`) | wallets, currency balances, transactions, billing events, freeze, auto-reload | create, deposit, withdraw, charge, convert, freeze, configure reload | everything that costs or moves money | lock and lock-free writers on one connection; balance, ledger row and event are three commits; keys |
| Escrows (`payments/engine.py`, `scheduler.py`, tool handlers) | escrows, settlements | create, release, cancel, performance check, expiry pass | wallet, identity claims, disputes | read-await-write on the status, two databases, expiry loop |
| Disputes (`gateway/disputes.py`) | disputes | open, respond, resolve, deadline sweep | escrows | lifecycle under overlap; decision and payout in two databases |
| Payment intents (`payments/engine.py`) | intents, settlements | create, capture, partial capture, void, refund | wallet | compare-and-set in capture only; compensation that may fail |
| Settlement refunds (`payments/engine.py`) | refunds, settlement status | refund_settlement | wallet | its BEGIN IMMEDIATE shares the connection with implicit transactions |
| Split payments (`tools/payments.py`) | transactions of the wallet | split | wallet, retrying clients | several deposits, no compensation, no key on the route |
| Subscriptions (`payments/engine.py`, `scheduler.py`) | subscriptions | create, cancel, reactivate, charge | wallet, scheduler | charge against concurrent cancel; two passes at once |
| Request path (`deps/`, `routes/execute.py`, `routes/batch.py`) | usage, caps, rate events, keys of responses | authorise, limit, check balance and cap, run, charge afterwards, record | wallet, paywall, x402 | check before, charge after; a placeholder that does not exclude a second runner |
| x402 (`gateway/x402.py`) | nonces, settlements to retry | verify, settle, retry | facilitator over HTTP | queue in memory, replaced after awaits |
| Accounts (`routes/register.py`, `paywall/`, `identity/api.py`) | wallets, API keys, public keys | register, create, rotate, revoke, bind | every request | a rotation whose transaction is everybody's |
| Organisations (`tools/identity.py`) | organisations, memberships | create, add, remove | - | the last owner |
| Metrics and their lifecycle (`identity/`, `cleanup_tasks.py`) | points, daily and monthly rows, nonces | ingest, compress, clean | background tasks | passes beside writers on one transaction |
| Trust (`trust/`) | servers, scores | register, score, delete | - | a score computed for what is being deleted |
| Claims (`identity/api.py`, `storage.py`) | commitments, secrets, attestations, claims, reputations, chains | attest, reveal, revoke, list, search, chain | trust, disputes | one submission is many rows and commits; expiry and revocation beside readers |
| Marketplace (`marketplace/`) | services, tags, ratings | register, amend, withdraw, rate, suspend, search | event handlers, trust | a name checked before it is taken; rows and tags on an implicit transaction |
| Brokering (`tools/marketplace.py`) | - | discover, preflight, broker | marketplace, trust, payments | a listing that changes between search, check and payment |
| Messaging (`messaging/`) | negotiations, messages | negotiate, counter, accept, reject | - | answers that cross |
| Gatekeeper (`gatekeeper/`) | jobs, proofs | submit, cancel | remote solver, billing | one request that spans the whole job |
| Event bus and streams (`shared/event_bus.py`, `routes/sse.py`, `routes/websocket.py`) | events, subscriptions, queues | publish, stream, listen, purge | handlers, clients | a row that is read before it is committed; replay before registration |
| Webhooks (`gateway/webhooks.py`) | webhooks, deliveries | deliver, send, retry | receivers over HTTP | attempts counted by read-then-write, lost background sends |
| Stripe checkout (`gateway/stripe_checkout.py`) | processed sessions (memory and table) | webhook | wallet | redelivery between the check and the mark |
| Connectors (`gateway/mcp_proxy.py`) | children, pending requests | start, call, read | child processes | a late reply, a dead reader, a lock across awaits |
| Upstream calls (`connectors/stripe`, `connectors/github`) | tokens | call, retry | Stripe, GitHub | an attempt without an answer may have been carried out |
| Process life (`gateway/lifespan.py`) | storages, loops, tasks | connect, serve, drain, close | systemd | an order in which each step may wait, raise or be killed |
| Backups (`shared/db_security.py`, `tools/infrastructure.py`) | backup files, keys | back up, restore | threads, file system | threads that a time-out does not stop, files named by the second |
| REST routes and tools (`gateway/routes/v1/`, `gateway/tools/`) | - | one tool per route | every product | where a key goes, what a repetition does, what the answer looks like |
| SDKs (`sdk/`, `sdk-ts/`) | - | 96 methods, retry loops | the gateway | retries of what was already done; inputs and answers that the two sides name differently |
| Releases (`scripts/release.sh`, `publish.sh`, `.github/workflows/`) | commits, tags, runs | release, publish, clean up | git, CI | what is deployed and merged has to be what was tested |
| Deployment (`scripts/deploy.sh`, `migrate_db.sh`, `shared/migrate.py`, `DEBIAN/`) | package, databases, shadow copies, service | install, migrate, verify, roll back, start | systemd, the service | a copy taken from a live database; versions after a rollback |
| Money arithmetic (`shared/money.py`) | - | convert, split | - | rounding |
| Scoring, catalog, reports, other scripts, website | - | formulas, documents, I/O | - | not state machines |

What makes each correct:

* wallet: no balance below zero; an acknowledged change is durable; ledger rows
  explain balances; a key applies once; the lock is handed on; conversions are
  all or nothing;
* escrows and disputes: each escrow is paid once, to the side its status names;
  credits are conserved; a closed escrow stays closed; an overdue one closes; a
  dispute's decision is the one that was carried out;
* intents: captured once, and either settled or wholly compensated;
* refunds: never more than was settled;
* request path: a limit, a budget and a balance that concurrent calls share; what
  ran was charged once; a key stands for one body; a proof pays once;
* accounts and organisations: who has an account has a key that works, except in
  named windows; an organisation has an owner;
* money in: what Stripe sold is credited once, a subscription is charged when due,
  a split arrives;
* work: a job has one end and one bill; an agreement holds;
* events: what follows an event is done, and who listens hears it, once, in order;
* measures: a point is in one summary, a claim rests on an attestation that holds,
  a score has a server;
* host: what is booked survives every upgrade and restore, and what is released is
  what was tested;
* process: a connector answers whom it may, an upstream carries out a write once, the
  loops run between the opening and the closing of what they use;
* contract: what an SDK sends is taken, what it repeats is done once where a key
  says so, and what it returns is what was done.

## 2. The modules

| Module | Models |
|---|---|
| `SqliteConnection` | the shared connection as a record and pure operators on it: what a statement, BEGIN, commit, rollback and a crash do to *seen* and *durable* data |
| `Wallet` | the billing wallet, statement by statement, on that connection |
| `DurableLedger` | what the billing file promises: balances move by whole legs, each at most once, never below zero |
| `MCWallet` | workloads and constants for TLC |
| `WalletProofs` | TLAPS proofs about `Wallet`: its connection and acknowledgements; its money and the refinement of `DurableLedger` |
| `Sums`, `SumLemmas` | what `SELECT SUM(...)` and a total of balances are, and TLAPS proofs of how they change |
| `Escrows` | escrow methods, the expiry pass and the dispute engine, on a wallet whose calls are one step |
| `MCEscrows` | workloads and constants for TLC |
| `EscrowProofs` | TLAPS proofs about `Escrows` |
| `Intents` | payment intents: create, capture, partial capture, void, refund |
| `MCIntents` | workloads and constants for TLC |
| `IntentProofs` | TLAPS proofs about `Intents` |
| `SettlementRefund` | `refund_settlement`, statement by statement, on the payments connection and among its other writers |
| `MCSettlementRefund` | workloads and constants for TLC |
| `RefundProofs` | TLAPS proofs about `SettlementRefund` |
| `RequestPath` | a paid call from authentication to its recorded response, on all three paths, with rate limits, budget, keys and x402 proofs |
| `MCRequestPath` | workloads and constants for TLC |
| `RequestProofs` | TLAPS proofs about `RequestPath` |
| `Coroutines` | what the handlers of the products share: a request at an await, timeout, crash |
| `Accounts`, `Metrics`, `Claims`, `TrustScores` | the products about people: keys and members, measures, claims, scores |
| `GatewayFunds`, `Subscriptions` | the products that move money over the wallet: Stripe checkouts and split payments; subscriptions |
| `Verification`, `Negotiations`, `Brokering`, `EventDelivery`, `EventStreams` | jobs, agreements, who finds whom, events and who reacts to, polls for or listens to them |
| `SdkCalls` | the retry loops of both SDKs, and a call of a method over its attempts, against a table of methods, of routes and of tools (constants) |
| `SdkMethods`, `RestRoutes` | the values that `MCProducts` gives these tables: what each method sends and reads; what each route takes and runs, how each tool repeats and what it answers |
| `Money` | conversion and division of amounts |
| `Products` | the composition of all these in one process, with its clients, faults and the clock |
| `MCProducts` | workloads and constants for TLC |
| `ProductProofs` | TLAPS proofs about `Products` |
| `ConnectorProxy`, `Lifespan` | the children of the process and the upstreams they call, its start and its end |
| `Backups`, `Upgrades`, `Releases` | what is done to its databases, to its host, and to what the host installs |
| `Hosting` | the composition of these around one process |
| `MCHosting` | workloads and constants for TLC |
| `HostingProofs` | TLAPS proofs about `Hosting` |

### `Wallet`

`job` is the workload: what each request coroutine asks.  `pc[r]` is the await
the coroutine stands at and `loc[r]` its locals.  `conn` is the connection with
all billing tables in it; `holder` is `storage._txn_lock`.  An action is one
awaited statement, with the code up to the next await:

| Actions | Code |
|---|---|
| `Lookup`, `Enter`, `Check` | the head of deposit, withdraw, charge, convert: key lookup, amount, freeze, wallet |
| `BeginTxn`, `Update`, `CommitTxn` | `atomic_debit_strict`, `atomic_credit` and their per-currency forms |
| `InsertRow`, `CommitRow`, `EmitEvent`, `CommitEvent` | `record_transaction` and `emit_event`, each an autocommit INSERT and a `commit()` |
| `MaybeReload` | `_maybe_auto_reload`, whose credit runs through the same statements as leg `reload` |
| `CheckNoWallet`, `InsertWallet`, `CommitWallet` | `Wallet.create` |
| `BeginConversion` ... `UndoConversion` | `convert_currency` |
| `Configure`, `CommitConfig` | freeze, unfreeze, enable and disable auto-reload |
| `TimeOut` | a request is cancelled; it leaves the lock, and a transaction it has begun stays open for the next commit on the connection to end |
| `CrashProcess` | the process dies |

A balance change is a *leg* `<<request, part>>`; `applied` in the tables records
the legs, so it commits and rolls back with the balances it explains.  `tainted`
and `raced` are history: a rollback that discarded foreign statements, and keys
looked up while another request was using them.

Abstractions, all in the direction the code justifies: taking the lock and BEGIN
are one step, so are the guarded UPDATE and the SELECT after it, and the two
reads of the freeze and of the wallet.  Amounts are small integers in atomic
units; `credits_to_atomic` is exact for them.  The "database is locked" retry of
`atomic_credit` needs a second connection and cannot happen here.  The
`signup_bonus=False` variant of create and organisation wallets are left out.

Every credit has its ledger row, with one exception: `Wallet.create` credits
`initial + bonus` in any case but records the opening amount only when it is
positive.  `POST /v1/billing/wallets` (routes/v1/billing.py:51) puts no lower bound
on `initial_balance`, so a negative one takes from the bonus and leaves no row.
`LedgerReconciles` therefore speaks of the rows *and* of the `Unbooked` legs.

### `Escrows`

`status[e]` is the escrow row, `settlements` the settlement rows with who wrote
them, `dispute[d]` the dispute row, `balance` the wallets, `frozen` the freezes,
`overdue` the rows whose timeout or deadline has passed.  Processes are the
request coroutines and `Scheduler`.  All payouts run through the same four
awaits, as in the code: `ReadEscrow` (get_escrow and the HELD check), `Pay`
(wallet.deposit), `Record` (insert_settlement, releases only) and `Close`
(unconditional status write).  `loc[p].how` is the kind of payout, `Succeeded`
and `Raised` say where success or an exception leaves the caller: a request
answers, the dispute sweep goes on with its next row, the expiry pass is aborted.

| Actions | Code |
|---|---|
| `LookupEscrow`, `Hold`, `InsertEscrow` | `create_escrow` |
| `LookupSettlement`, `CancelEscrow`, `CheckPerformance` | heads of the release, cancel and performance tools |
| `ReadEscrow`, `Pay`, `Record`, `Close` | `release_escrow`, `refund_escrow`, `expire_escrow` |
| `ListExpired`, `NextRow`, `EndPass` | `process_due` by the polling loop and by the tool call |
| `ListLate`, `ResolveDispute`, `Decide` | `process_expired_disputes` and `resolve_dispute` |
| `OpenDispute`, `InsertDispute`, `Respond`, `WriteResponse` | the other dispute methods |
| `Expire`, `SetFrozen`, `TimeOut`, `CrashProcess` | the clock, the administrator, the 30 seconds of a request, the process |

A wallet call is one step here (`Wallet` shows what it consists of), and so is a
storage write with its commit.  `raced` holds the escrows for which two payouts
were both past the HELD check, two calls looked up the same key together, or a
crash or the timeout fell between a transfer of funds and the row that records it
(`LeftBehind`).  It is set by the *cause*, never by the outcome, and the conditional
properties say that nothing else goes wrong.  The deadline sweep is modelled although no loop of the
gateway calls it.

### `Intents`

`status[i]` and `amount[i]` are the intent row, `settlements` the settlement rows
with who wrote them, `seen[r]` and `part[r]` the amount a request read and the
amount it moves.  Captures and partial captures share the awaits of the transfer
and differ where the code does: only a capture passes `Reserve` and only its
failures are reversed.

| Actions | Code |
|---|---|
| `LookupIntent`, `InsertIntent`, `ChargeFee` | `create_intent` and the charge of the call after it |
| `LookupCapture`, `ReadIntent` | the heads of `capture` and `partial_capture` |
| `Reserve`, `Withdraw`, `Deposit`, `RecordSettlement`, `Finish` | their bodies |
| `DebitBack`, `CreditBack`, `Revert` | the `except` branch of `capture` |
| `ReadRefund`, `ReadVoid`, `Void`, `TakeBack`, `GiveBack`, `CreditFee` | `refund_intent` and `void` |
| `SetFrozen`, `TimeOut`, `CrashProcess` | the administrator, the 30 seconds of a request, the process |

`gave[r]` and `got[r]` are history: what request `r` took from payers and gave to
payees, net of what it reversed.  `short` holds the requests whose reversal found
the payee's wallet short, `raced` the intents that were disturbed: a request that
takes no reservation (partial capture, refund) overlapped another one, a crash, a
timeout or an exception fell between two transfers that nothing compensates, or a
reversal was short.  `abandoned` holds the captures that a timeout or a crash ended
between reservation and end: the row stays `captured` although nobody holds it,
since the `except` branch that would revert it does not see a `CancelledError`.
Captures that overlap captures are never a disturbance: for them the compare-and-set
has to be enough.

### `SettlementRefund`

`conn` is the payments connection with the refund rows, the settlement statuses
and the rows of other writers in it; `total[r]` and `part[r]` are the locals of
`refund_settlement`.  `BeginRefund`, `ReadTotal`, `WithdrawRefund`, `DepositRefund`,
`InsertRefund`, `CommitRefund`, `UpdateStatus`, `CommitStatus`, `CommitFinal` and
`RollbackRefund` are its awaits in order, the commits that `insert_refund` and
`update_settlement_status` make by themselves included; `TimeOut` cancels it at any of them.  `WriteRow`, `CommitRow` and
`RefusedRow` stand for every other method of the payment storage: one statement
and one commit, or an INSERT that the database refuses, after which the implicit
transaction stays open.  The settlement is read together with its total.  `leftOpen`
is history: who left a transaction open since it was last ended, a refused INSERT or
a request that the timeout took out of the middle of one.

`took[r]` and `gave[r]` are history, what request `r` took from the payee and gave
to the payer.  `broken` holds the requests that lost the shelter of their
transaction: somebody else's commit fell between their BEGIN and their INSERT, a
rollback discarded what they had not committed, or they died, timed out or raised
with funds already moved.  The conditional properties are about settlements with no broken
refund: for those the transaction has to be enough.

### `RequestPath`

One agent's calls share its window of rate events, its usage rows, its balance,
the keys of the gate and the proofs.  `pc[r]` is the await of request `r`, `call[r]`
the call of a batch it is at, `cache[k]` the row of an idempotency key, `queues` the
lists of settlements to retry (a retry builds a new list and puts it in place after
its awaits).

| Actions | Code |
|---|---|
| `Begin`, `RecordEvent`, `CountHour`, `CountBurst`, `CountTool`, `RecordEventAfter` | authentication and `check_rate_limits`; `/execute` and `/batch` count their own way |
| `CheckBalance`, `CheckBudget` | before the call, over what was recorded until then |
| `ReserveKey`, `LookupKey`, `EvictKey`, `ReinsertKey`, `RecordResponse` | `check_idempotency` and what follows the response |
| `RunTool`, `NextCall`, `FindUsage`, `InsertUsage`, `ChargeCall` | the tool, and `record_usage_and_charge` |
| `ReserveNonce`, `VerifyProof`, `SettleProof`, `RetrySettlement`, `ReplaceQueue` | `x402.py` and its callers |
| `Tick`, `TimeOut`, `Crash` | the clock, the 30 seconds of a request, the process |

`unbudgeted`, `clobbered`, `dropped` and `after` are history, set by causes: a call
admitted while another one's cost was not yet recorded, a key whose fresh row an
eviction took, a settlement that a crash or an overlapping retry lost, who asked
after an answer was recorded.  The administrator's bypass, scopes, the monthly cap
and the errors of the usage write are left out.

### `Products` and what it composes

`Coroutines` has `job`, `pc`, `cut` (the await at which a request was ended) and
the faults; each product module adds its tables, one action per await, its part of a
crash and its invariant.  `Products` runs them in one process: a timeout cancels one
request, a crash ends all and what they keep in memory.

| Module | Actions | Code |
|---|---|---|
| `Accounts` | `CreateWallet`, `RequestKey`, `InsertKey`, `CommitKey`, `LookupIdentity`, `OfferKey`, `StoreIdentity` | registration, key creation with the automatic identity, binding |
| | `ValidateKey`, `BeginRotation`, `RevokeKey`, `CommitRevoke`, `CommitRotation`, `Abort`, `GraceOver` | `_rotate_key`, whose transaction `revoke_key` commits |
| | `InsertOrg` ... `CommitOrg`, `ReadRole`, `CountOwners`, `DeleteMember` | the organisation tools, statement by statement |
| `Metrics` | `CheckNonce`, `StoreNonce`, `StorePoint`, `CommitIngest` | `ingest_timeseries` |
| | `ListRaw`, `ListDaily`, `WriteGroup`, `DeleteOld`, `CommitLevel`, `CleanNonces`, `RotateLogs` | `data_lifecycle.py`, nonce cleanup |
| `TrustScores` | `RegisterServer`, `LookupServer`, `ReadScore`, `StoreScore`, `DeleteServer`, `DeleteScores`, `CommitTrust` | `trust/` |
| `GatewayFunds` | `RecallSession`, `FindSession`, `DepositCredits`, `RememberSession` | the Stripe webhook |
| `Subscriptions` | `LookupSubKey`, `InsertSub`, `ReadStatus`, `UpdateStatus`, `ListDue`, `ReadSub`, `WithdrawDue`, `PayDue`, `SettleDue`, `BookCharge`, `SuspendSub` | subscription tools and `process_due` |
| `GatewayFunds` | `LookupSplit`, `WithdrawSplit`, `DepositShare`, `RecordMarker` | `_create_split_intent` |
| `Verification` | `LookupJob` ... `BillJob`, `ReadJob`, `CancelJob` | `gatekeeper/api.py` and its route |
| `Negotiations` | `Propose`, `ReadTalk`, `UpdateTalk`, `SendMessage` | `messaging/api.py` |
| `EventDelivery` | `PublishDrop`, `ListServices`, `SuspendService`, `FindName`, `InsertService`, `DeactivateService` | event handlers and the marketplace |
| | `DeliverEvent`, `QueueDelivery`, `PostDelivery`, `CountAttempt`, `UpdateDelivery`, `ListRetries`, `DeleteWebhook` | `webhooks.py` |
| `Claims` | `StampSubmission`, `InsertCommitment`, `InsertSecret`, `InsertAttestation`, `InsertClaim` | `submit_metrics` |
| | `RevokeAttestation`, `ListClaims`, `SearchClaims`, `RevealCommitment` | the other methods of claims |
| | `ReadAttestations`, `ReadCommitments`, `InsertReputation`, `ReadLeaves`, `InsertChain` | reputations and claim chains, over the newest `PageLimit` rows |
| `Brokering` | `InsertListing`, `FindListing`, `AmendRow`, `DeleteTags`, `InsertTag`, `WithdrawRow`, `RateListing`, `CommitMarket` | `marketplace/storage.py`, statement by statement |
| | `ReadFirst`, `ReadSecond`, `SearchListings`, `FilterTrust`, `WeighListing`, `ReadCandidate`, `ProbeEndpoint`, `CheckCandidate`, `IntendPayment` | search, `atlas_discover`, preflight and broker |
| `EventStreams` | `InsertEvent`, `SaveEvent`, `DispatchEvent`, `PurgeEvents` | `event_bus.publish`, cleanup |
| | `OpenStream`, `PollEvents`, `CloseStream` | `sse.py`; a job with `after` is a client that comes back with `Last-Event-ID` |
| | `OpenSession`, `Subscribe`, `ReplayEvents`, `RegisterPattern`, `SendQueued`, `CloseSession` | `websocket.py`, whose replay is one read of `ReadLimit` rows |
| `SdkCalls` | `TakeAnswer`, `RetryStatus`, `Limited`, `GiveUp`, `Broken` | the loops of both SDKs |
| | `Receive`, `Reserve`, `RecordAnswer` | the validation of a route, the gate of `POST /v1/payments/intents` |
| | `FindKey`, `CheckState`, `Make`, `Beaten`, `NoteKey`, `Look`, `Miss`, `Refuse`, `Respond` | a tool, as its row of `Tools` says |
| | `Parse` | `from_dict` of the Python models, the cast of the TypeScript client |

A storage write with its commit is one step where the module's head says so, and
statement and commit are apart where the transaction is shared and the difference
shows (`Accounts`, `Metrics`, `TrustScores`, `EventStreams`, `Brokering`).

`SdkCalls` looks at all methods at once, and therefore at each of them coarsely.  It says
what a call does given five tables, its constants: `PythonSdk`, `TypeScriptSdk`, `RouteAt`,
`ToolNamed` and `TextFields`.  Their values are read off the code: `SdkMethods` off the
bodies of the methods and the response models, the routes of `RestRoutes` off the request
models and handlers, its tools off the tools, `TextFields` off `serialization.py`.  The
tables have a row for every method, route and tool, and in it the names of all fields,
because `InputsTaken`, `OutcomeTrue` and `ValuesTyped` compare exactly these between the two
sides, and each divergence listed in section 3 is one name in one row; what no property
reads (descriptions, bounds of values, headers other than keys) is not in them.  `made` are
the requests that did what was asked, `noted` is the one whose key the tool recorded,
`slot` the row of the gate, `outcome` what the caller of the SDK gets.  How a tool repeats
is one of five effects (it reads, makes, sets, looks whether it was done once, or claims
it in one statement) and one of four memories (no key, a key looked for and inserted
afterwards, a key in the row that is made, a key that excuses a state already reached).
The products' own modules are about the steps in between.

### `Hosting` and what it composes

| Module | Actions | Code |
|---|---|---|
| `ConnectorProxy` | `AcquireLock`, `EnsureConnection`, `StartConnector`, `Initialized`, `SendCall`, `ReceiveReply` | `MCPProxyManager`, `MCPConnection` |
| | `ReplyTimeOut`, `TakeBack` | the cancellation of the future by `wait_for`, and the removal of its id afterwards |
| | `Serve`, `ChildEnds`, `EndOfOutput`, `Reap` | the child and its reader task |
| | `BeginUpstream`, `AcquireToken`, `SendAttempt`, `UpstreamTick` | the clients of Stripe and GitHub, `rate_limiter.py`, `retry.py` |
| `Lifespan` | `ConnectStorage`, `StartLoop`, `Terminate`, `Drain`, `CloseConnectors`, `CancelLoop`, `CloseStorage`, `Kill` | `lifespan`, systemd |
| | `WorkRound`, `WakeLoop`, `StartSend`, `EndSend` | a loop, and the task of a webhook delivery |
| `Backups` | `DepositBalance`, `RecordDeposit` | a client's writes beside it |
| | `BeginBackup`, `CopyLive`, `EncryptFile`, `AfterCopy`, `EndBackup` | `_backup_database` and its threads |
| | `BeginRestore`, `DecryptFile`, `AfterDecryption`, `LoadFile`, `EndRestore` | `_restore_database` and its threads |
| `Upgrades` | `BackUpPackage`, `InstallPackage`, `VerifyService`, `RollBack`, `EndPostinst` | `deploy.sh`, `postinst`, `prerm` |
| | `BeginMigration`, `NextProduct`, `MigrateShadow`, `StopService`, `MoveShadow`, `EndMigration` | `migrate_db.sh`, which deployments run and which may be run by hand |
| | `ServiceStarts`, `StampVersion`, `BookRow`, `HostCrash` | `BaseStorage.connect`, a client's write, the host |
| `Releases` | `BeginRelease`, `BumpVersions`, `CommitRelease`, `PushBranch`, `FindRun`, `AwaitRun`, `TriggerDeploy`, `TagRelease`, `PushTag` | `release.sh` up to the tag |
| | `CheckoutMain`, `PullMain`, `MergeRelease`, `PushMain`, `DeleteBranch`, `DeleteRemote`, `CleanUp` | `release.sh`, its end and its clean-up |
| | `FetchTags`, `LocateRelease` | `publish.sh`, which looks for the commit of a version or is given it with `--sha` |
| | `DispatchDeploy`, `MergePullRequest`, `ListRun`, `RunChecks`, `ReleaseGate`, `DeployCommit` | GitHub and the workflows; a deployment dispatched by hand on `main` passes no gate |

`service` in `Upgrades` is what systemd says of the unit: a migration stops it only if it
`is-active`, once per script.  A service that comes up while a shadow copy is moved into
place keeps the replaced file open; `unlinked` is that file, and rows booked in it are in no
database once the service ends.  `late` and `behind` are history: rows booked beside a
migration or into an unlinked file, and rows booked under a release ahead of the database.

A thread of a backup goes on when its request has timed out; a child, a workflow and
systemd act by themselves; an interrupt of a release script is the time-out of its
request.

## 3. The runs

| Run | Question | Result |
|---|---|---|
| `wallet` | do three coroutines, timeouts and crashes keep the wallet's promises? | passes: 8 properties |
| `escrows` | do competing payouts, freezes, and a timeout or a crash keep the escrows' promises? | passes: 6 properties |
| `escrow_paid_once` | the same without the condition on races | violated |
| `escrow_expiry` | does every overdue escrow with an unfrozen payer close? | violated |
| `dispute_lifecycle` | does a resolved dispute stay resolved? | violated |
| `intents` | do captures, parts, refunds and retries of intents keep rows and funds together, over timeouts and crashes? | passes: 8 properties |
| `intent_refund` | does the refund of an intent captured in parts make the payer whole? | violated |
| `settlement_refund` | do refunds whose transaction nobody ends stay within the settlement? | passes: 5 properties |
| `refund_double_spend` | do all refunds? | violated |
| `requests` | do limits, budget, bills, keys and proofs hold over all paths of a paid call? | passes: 5 properties |
| `products` | does each product, and each method of an SDK, keep what it promises across awaits, retries and faults? | passes: 6 properties |
| `hosting` | do the process, its children, its backups, its host and its releases stay whole? | passes: 2 properties |

`TypeOK` is checked where proofs rest on it (`Wallet`, `Intents`).

**Bounds of `wallet`.**  Two agents, two currencies, three requests and two
faults, each a timeout or a crash (140,000 states); seven workloads choose what the
three ask, so that each hazard occurs: a retried key against a debit that wants the
money, two debits below the reload threshold, two creations against a deposit, freezes
and reload changes under a withdrawal, conversions that succeed and fail beside single-statement writers.
Three coroutines are what the faults found need (two that overlap and one whose
`commit()` interferes); two faults let a request leave a transaction open, and the
process die before or after another one's commit has ended it.

**Bounds of `escrows`.**  One escrow held at the start, one that is created (its
payee has no wallet, so it can only expire), one that repeats its key, one
dispute, three requests, the scheduler, one timeout or crash, one wallet that is frozen
and unfrozen at will (281,000 states).  Storage writes are one step with their commit, so
that what a cancelled request leaves behind is rows, never a transaction, and a second
fault meets what the first has met.  `escrow_expiry` freezes the payer of the first row
instead; this run and the other two violations about escrows need no fault and have none.

**Bounds of `intents`.**  Two intents that are pending at the start and pay in
opposite directions, so that a payee can spend what a capture brought before it
is reversed; two that are created, one for a payee without a wallet; one key, three
requests, two faults, one wallet frozen at will (89,000 states).  Three requests allow
two captures and a refund, two parts and what follows them, and a key shared by two
intents; two faults, a capture that is left reserved and a reversal that is cut.

**Bounds of `settlement_refund`.**  One settlement of two credits, three requests
(parts and the rest, full refunds, a retried part, another writer, a refused one),
two faults, a payer that is frozen at will (166,000 states).  Two faults are a refund
cancelled inside its transaction, and a crash or a second one before anybody ends it.
Refunds of different settlements share nothing but the transaction, which the other
writer stands for.

**Bounds of `requests`.**  Three requests and seventeen workloads, each about one
thing the requests share; a limit of two per hour and of three in a burst, a budget
of three and a balance of four, so that two calls fit and a third does not; one key
with an expired row at the start; two proofs; the clock moves three times and a row
of the gate lives for two ticks (a request sees one tick at most, since it ends after 30
seconds); one crash or timeout.

**Bounds of `products`.**  Three requests, one fault, and one product for each of
66 workloads: requests to different products share nothing but the process, whose
crash every module has in it.  Three requests are two that collide and one that
finds what they left, or the attempts of a client with one or two retries.  Per module:
two accounts; two organisations; one metric whose days are two ticks and months two
days, with passes that see the clock move once; one server id; two Stripe sessions;
three subscriptions; a purse for two splits; one key for
jobs; two negotiations; three services, two of one name; two hooks and two attempts;
three events, sessions of two patterns and two subscriptions; three submissions
attested before, one tick after which they expire, trees of up to seven leaves; a replay of
two events, pages of three attestations or commitments and of three claims, where the code
has 100, 100 and 50, so that workloads reach each limit and pass it by one row; three
listings, one of them free and one not there yet, two raters, trust from -1 (none) to 2.
None of the counters is reached by more requests than that.  To these come a workload
for every method of the two SDKs, two attempts with all that the method can send (and
two with what it always sends, where the route tells them apart; three with a key, where
the method takes one), and two direct calls with one key for each route that passes a
key on, 119 workloads in all; and 422,000 states altogether.

**Bounds of `hosting`.**  Three requests or scripts, one fault, 33 workloads, one
million states: one connector and its child, each loop and two storages' order; two
tries and a bucket of one token, a clock of three ticks; two backups in the same second
or in two; two releases of the package, the second of which converts both databases; two
clones, two versions and a pull request.  Longer waits, third tries and third clones
repeat what two do.

**Fairness.**  Every coroutine that has started is weakly fair: the event loop
runs every ready callback, aiosqlite answers each statement, and `asyncio.Lock`
wakes its waiters in order.  The scheduler's `run` has no end in the gateway and
is weakly fair as well.  The arrival of requests, time, freezes and crashes get
no fairness: nothing promises them.  `requests`, `products` and `hosting` check
invariants only: what they promise "in the end" is stated of the states in which
everybody has ended, and a state in which somebody waits for ever is a deadlock, unless
it is one the module names (the caller of a deafened connector).

**Properties worth knowing.**

* `AckDurable`: an operation that answered keeps balance change *and* ledger row
  through a crash, although it never holds a transaction over both; the one
  exception is a conversion's rollback on top of it (`tainted`).
* `ImplementsDurableLedger`: whatever commits, rollbacks and crashes do, the
  file is an abstract ledger.
* `ReloadRestores`: auto-reload works on a stale balance; concurrent debits may
  reload twice but never leave the wallet below its threshold.
* `PayoutsRecorded`: three commits in two databases, and what each of the escrow's
  status, its settlement and its funds may be ahead of the others by.
* `ResolutionCarriedOut`: a written decision was carried out, by the payout it
  names unless raced.
* `CaptureExclusive`, `AllOrNothing`: the status `captured` is a lock that only its
  holder opens, and the reversals bring the funds back in every order of failures,
  except when the payee has spent them meanwhile (`short`).
* `ReservationEnds`: that lock is opened again, also after failures and reversals that
  fail, but not after a timeout or a crash of its holder (`abandoned`): no later request
  passes the compare-and-set, and nothing sweeps the row.
* `StatusTellsFunds`: intent row, settlement rows and wallets agree whenever nobody
  is at work, in parts and after failures.
* `RefundBounded`, `RefundsMatchFunds`: rows in one database, funds in another, and
  a transaction that is over as soon as the first row is in.
* `LockReleased`: a transaction that stays open makes every later BEGIN fail.  Nobody
  leaves one but an INSERT that was refused, and a refund that the timeout cancels
  between its BEGIN and its commit; then it is open until somebody else commits.
* `RateBounded`, `BudgetRespected`: recording before counting holds a limit that a
  count before the record would not; the budget holds for calls that saw each other.
* `BillsMatchWork`, `KeyBindsBody`, `ProofAccounted`: what ran, what was charged and
  what was answered agree over the three paths, retries and proofs.
* `AccessKept`: a registered agent has a key unless a cut, a rollback of another
  coroutine or its own revocations took it, and an organisation keeps an owner
  unless two removals overlapped.
* `FundsArrive`, `ChargedWhenDue`: each loss and each double payment has one of the
  named causes, also under the retries of the SDKs.
* `WorkAccounted`: one proof and one bill per job; an acceptance binds what its agent
  was last offered, unless answers crossed; the suspensions and deliveries that follow an
  event are carried out; a score has a server, unless that was deleted while it was
  computed.
* `AnswersHeard`, in three parts.  `StreamsHeard`: a stream shows events in the order of
  ids, none twice and none left out, but for an id that a crash made free again; sessions
  hear what came after the event they name but for what fell between replay and
  registration, and for what is beyond the 100 rows that one replay reads
  (`BeyondLimit`): nothing reads the rest, and the session's cursor passes it.
  `MarketHolds`: who searches finds what is listed, as it was written last, and pays for
  what was active when it was read (a listing refused for a repeated tag leaves its row in
  the open transaction, overlapping writes cross, and preflight does not look at the
  status again).  `CallsAnswered`: a thing is done twice only for a client that had no
  answer or one of failure, and not with a key that its tool keeps (`DoneOnce`); no method
  is refused for what it sends but those of `NeverServed` (`InputsTaken`); a value means
  that it was done, an exception that it was not, or that an attempt was lost, or that the
  answer cannot be read (`OutcomeTrue`); and the TypeScript values are what their
  interfaces say, but for `Incomplete` and amounts and dates (`ValuesTyped`).
* `MeasuresKept`: a point is counted in one summary; a claim, a reputation and a chain
  rest on attestations that were there, unrevoked or not yet expired, when they were
  read, and leave out only what is beyond their page.
* `HostSafe`: a row that was booked stays through deployments, rollbacks and crashes, in
  the unit its release reads, unless it was booked beside a running migration, into a file
  that the migration has replaced, or under a release that is ahead of the database, and the
  service comes back; a restore brings what its backup held, and deposits made after its
  answer stay, unless two backups share a second, two restores overlap or one timed out;
  what is deployed, tagged, published and merged was tested (of a deployment dispatched on
  `main`, where the workflow has no gate, or a tag that `publish.sh --sha` sets, that is only
  true of a commit of the version before it); and a release that ended well is in main,
  unless its merge was refused.
* `ProcessSafe`: one child at a time, callers wait for ids that a live reader will see,
  or for one that a late reply deafened (the child answers an id after `wait_for` or the
  request's timeout has cancelled its future, and before the id is taken back); an upstream
  carries out a write once per key and is not asked oftener than its tokens allow, but for GitHub's retries; loops find their
  storages open and end before these close, unless the process is killed, or a deafened
  connector's close raises and leaves the rest undone.
* `OverdueCloses`: expiry survives exceptions, rows closed under the pass, and a
  crash, as soon as no wallet stays frozen.

**Disagreements between the code and what it says**, one violation run each: the
engine's monetary operations are "atomic", but a release and a cancellation both pay; the
scheduler processes "all" expired escrows, but one that raises stops the rest in every
pass; disputes go "open -> respond -> resolve", but a response can overwrite a
resolution; a full refund "must return the customer whole", but an intent captured in
parts keeps only its last part; refunds use BEGIN IMMEDIATE "to serialize concurrent
refund attempts", but any commit on the shared connection ends it and two refunds pay out
the same remainder.

Others met while modelling, which the invariants except by their cause:

* `convert_currency` is "a single SQLite transaction" (billing/src/wallet.py:279);
  another coroutine's `commit()` ends it.
* `capture` reverts its reservation "On ANY failure" (payments/src/engine.py:135, and :144);
  a `CancelledError` passes its `except Exception` (:205), and the intent stays `captured`.
* `refund_settlement` rolls back in `except Exception` (engine.py:442), which a timeout passes:
  its transaction stays open, and the next refund's BEGIN fails.
* `_rotate_key`'s docstring (tools/infrastructure.py:196) says revocation and
  creation are atomic, "no window"; `revoke_key` commits by itself.
* The gate's docstring (deps/idempotency.py:23-31) sends every later request to the
  replay path; two with one body both pass over a placeholder.
* `migrate_db.sh` calls itself an atomic migration; it copies a database that the
  service still writes, stops the service afterwards and moves the copy over it.  A service
  that was not active yet is not stopped, and goes on with the file that is gone.
* A release is deployed through a gate; a dispatch of Deploy Production on `main`
  (deploy-production.yml:49, 83, 141) passes none, and `publish.sh --sha` (:34-37, 158) tags a
  commit of main that may never have been deployed.
* docs/infra/runbooks/rollback.md:113 says the application accepts a database that is
  ahead of it; `check_schema_version` demands equality, so that after a rollback
  behind a migrated billing database the service does not start.
* `PaywallStorage.connect` leaves a new database without a version; the next
  migration converts small costs in it a second time.
* mcp_proxy.py:8 keeps a child "for the gateway's lifetime"; a reply to a call that
  was cancelled ends its reader, and later calls wait in vain.
* A split payment "withdraws the full amount, deposits to each payee"; with an unknown
  payee or a zero share the rest is in no wallet.
* Server-Sent Events show rows before their commit; after a crash the id is given
  again, and a client that resumes after it misses the event.
* A WebSocket client that names the last event it has seen is replayed the next 100
  (websocket.py:282-294, event_bus.py:200-242) and never the rest.
* Claim chains are built of "all valid attestations" (identity/src/api.py:451); the read
  returns the newest 100 (storage.py:381, 390).  A search reads 50 claims before it keeps
  one for each agent (api.py:345, 359-369), so one agent's claims can fill it.
* A negotiation's date of expiry is never looked at; an acceptance that crosses a
  counter accepts an amount its message does not name.
* The connectors are torn down at shutdown (lifespan.py:127, mcp_proxy.py:179); closing
  one whose reader has failed raises, and the storages are not closed.
* A release keeps the versions of all packages in step (test_sync_versions.py:303);
  release.sh:449 leaves the marker of SKILL.md out of its commit.
* `revoke_attestation` is "invalidating all linked claims" (identity/src/api.py:320);
  `search_claims` (storage.py:494-546) does not look at revocations.
* The search for claims keeps the largest bound as the best one (api.py:340-379), for
  metrics of which less is better too.
* `_get_org` (tools/identity.py:214-232) reads the members from `agent_identities.org_id`;
  memberships are in `org_memberships`.
* `atlas_broker` pays 1 credit for a free service, whatever the budget
  (tools/marketplace.py:547-554).
* A listing refused for a repeated tag (marketplace/src/storage.py:159-169) has left its
  row in the open transaction, which the next write commits.
* The hourly window of a gated function never fills: `increment_rate_count` stores a
  window that starts an hour ago (paywall/src/middleware.py:227, storage.py:279-303).
* `split_amount` "guarantees" the sum (money.py:57-59): it truncates what is finer than
  an atomic unit, and with 10^18 units and a sum of ratios above 1, which its tolerance
  allows, the last part is negative.
* `batch` charges a call whose tool raised (routes/batch.py:225-290).

Where the SDKs and the gateway do not fit, which `InputsTaken`, `OutcomeTrue` and
`ValuesTyped` except by name:

* `rate_service` and `rateService` send `agent_id`, which `RateServiceRequest` forbids;
  `registerAgent` sends `display_name`: 422, always.  `register_webhook` without a secret: 422.
* `create_api_key` posts to a route that answers 410; `rotate_key` does not send the
  header without which it is answered with 428.
* `negotiate_price` answers the row of its table, with `id`; the models ask for
  `negotiation_id`: the Python client raises after the negotiation is stored, the
  TypeScript client reads undefined.
* `submit_metrics`: the Python model wants `verified_at` as a number, and gets a text,
  after the attestation is stored.
* `execute`: the route is gone but for connectors' tools, whose answer has no `success`.
* `checkout` reads `result`, and the answer has none (stripe_checkout.py:224).
* `get_org` and `add_agent_to_org` answer an unknown organisation with 200 and `error`.
* The TypeScript interfaces declare amounts and dates numbers, which come as texts.
* Without a key, which most methods cannot send although the routes take one, a retry
  after a time-out deposits, captures in part or holds again.

## 4. The proofs

`WalletProofs` proves, for any agents, currencies, requests, workloads and number
of timeouts and crashes allowed by `WalletConstants`:

* `WalletTypes`: `Spec => []TypeOK`.  `TypeOK` contains `Settled(conn)`: without
  an open transaction nothing is uncommitted.  That part is what later steps need
  when a commit or an autocommitted statement runs.
* `WalletNonNegative`: `Spec => []NonNegative`.  Not inductive alone: a leg with a
  positive amount must be known to be positive.  `ShapeOK` relates each program
  counter to the amounts checked on the way to it.
* `WalletAckDurable`: `Spec => []AckDurable`.  `AckInv` says, for each program
  counter, which legs and rows are already durable, or will be at the next
  commit, as long as nothing was tainted; the steps are carried by two lemmas
  about the connection, that seen and durable tables only grow until a rollback.

The second part of `WalletProofs` is about the money.  Its four results rest on one description of
what a step does to the tables (`TableSteps`: nothing, a leg, a row, an event, a new
wallet, a configuration, a rollback) and on `BalanceInv`: every leg is applied at
most once (`Fresh` says at which awaits it is not yet) and, seen or durable, a
balance is its start plus the legs applied since (`Explained`).

* `WalletImplementsLedger`: `Spec => ImplementsDurableLedger`, the refinement.  A
  step of the wallet adds some set of legs to the file; each balance moves by what
  these legs are worth (`ExplainedDifference`), and none falls below zero.  A commit
  may make the legs of several coroutines durable at once, which is why the abstract
  step takes a set.
* `WalletKeyedOnce`: `Spec => []KeyedOnce`.  `Solo`: of the requests with a key
  nobody raced at most one is between its lookup and its row, then no row of the key
  exists, and every leg applied under the key has its row or its request is there.
* `WalletLedgerReconciles`: `Spec => []LedgerReconciles`.  `Books` says at each await
  which applied legs still owe their row and which events have one; `OpenFor` that an
  open transaction has somebody on the way to end it, so a quiet connection shows
  what the file holds.
* `WalletReloadRestores`: `Spec => []ReloadRestores`.  `LowCovered`: a wallet below its
  threshold after a debit has a request that saw it low and is on its way to reload it
  (`WillReload`).  A debit that leaves the wallet low is itself that request; a
  reload, or a debit that ends above the threshold, discharges all of them.

`SumLemmas` is what these need of `Sum`, a fold of the community modules.  A fold is a
recursive function over sets, and what it computes is shown without induction over
data, by a least counterexample: were a sum over some finite set not what it should
be, there would be one of least cardinality, and it is compared with the set without
one element (`IterExists`, `SolutionUnique`).  That the order does not matter
(`SumRemove`) is shown the same way; the other lemmas say what one new, changed or
left out summand does.

`EscrowProofs` proves, for any escrows, disputes, workloads, freezes, timeouts and
crashes:

* `TypesHold`: rows, locals and coroutines are what the tables and the code say.
* `EscrowPaidOnceUnlessRaced`, `EscrowPayoutsRecorded`, `EscrowClosedForGood`:
  `PaidOnce`, `PayoutsRecorded` and the action property `ClosedForGood`.  The
  invariant is `Ordered`: who has read HELD and not written the status yet is alone
  (`PayerAlone`), has paid or not according to its await (`PaidFirst`), and nobody
  works on an escrow before its row (`Unborn`, `KeysAlone`).  The unconditional
  UPDATE of the status then replaces HELD only.
* `EscrowResolutionCarriedOut`: `Deciding` follows a resolution from the payout to the
  write of the decision.
* `EscrowFundsConserved`: `Conserved` counts the prices that are in no wallet: of the
  escrows held and not paid out yet, whatever the status is about to become, and of
  those whose creator has withdrawn the price and not inserted the row.

`IntentProofs` proves, for any intents, requests, workloads, prices, timeouts and
crashes allowed by `IntentConstants`:

* `IntentTypes`: `Spec => []TypeOK`, with the validation that precedes an insert.
* `CapturesExclude`: `Spec => []CaptureExclusive`.  Inductive with `Locked` (a held
  intent is not pending) and `Unborn` (nobody works on an intent without a row, and
  its creation is the only one that will insert it): otherwise an insert could set
  a held intent back to pending.
* `CapturesAllOrNothing`: `Spec => []AllOrNothing`.  `Flow` says what a capture has
  taken and given at each await; `FlowOthers` that nobody else disturbs it.
* `IntentsFollowLife`: `Spec => IntentLifecycle`.  While an intent is undisturbed, a
  partial capture or refund is alone at work on it and the row is as it read it
  (`Alone`, `AsRead`), so the unconditional updates replace what they expect.
* `IntentsNeverOvercaptured`, `IntentStatusTellsFunds`, `IntentPayerMadeWhole`, from
  one invariant about the funds: the row's amount plus the settlements is what the
  intent is for, or the one who is at work accounts for the difference (`Tallies`);
  `Trails`, `Repaids` and `Offers` say, await by await, what a capture, a refund and
  a creation have taken and given, `Voided` and `Untouched` what the status implies,
  `Fees` that the fee is owed once and given back at most once.

`RequestProofs` proves, for any requests and batches, prices, limits, windows, keys and
proofs allowed by `RequestConstants` and `RequestTable`:

* `RequestRateBounded`: `Spec => []RateBounded`.  `Rated`: whoever is between its record
  and the count has its event in the table, stamped since it began, and every
  admitted call left one.  Of the calls admitted within an hour the last to count has
  counted the others and itself, so there are fewer than the limit.
* `RequestBudgetRespected`: `Spec => []BudgetRespected`.  `BudgetInv`: the usage rows
  the cap can see stay within it in every window (`Capped`); who has passed the check
  and not recorded its cost yet has room for it (`Room`), from the time it will stamp on,
  and a second one that passes meanwhile marks both as unseen; a charge has the row
  it was read from (`Booked`, `Entry`).  Windows in the future are part of the
  invariant: the row of a call that waits counts in windows that end after now.
* `RequestBillsMatchWork`: `Spec => []BillsMatchWork`.  `BillInv` says which of the calls of
  a request have been charged at each await (`Working`), and that a charge is of one call,
  at its price (`Charging`), so that a sum over charges falls by what the balance loses.
* `RequestProofAccounted`: `Spec => []ProofAccounted`.  `Alone`: one request per proof is
  at work or has worked, and its nonce is in the table.  `Queued` follows the lists of failed settlements: a retry goes
  through a list that may no longer be the current one (`Retrying`), and what is in
  any of them has been earned (`AllEarned`); what an answered request left is settled,
  in the current list, or was dropped when that list was replaced.
* `RequestKeyBindsBody`: `Spec => []KeyBindsBody`.  `KeyInv`: who is through the gate is
  backed by the row it found or made, of its body (`Inside`); who is between deleting an
  expired row and inserting its own is the only reason for there to be none
  (`Replacing`); two bodies are apart by more than the life of a row (`Apart`), unless an
  eviction took a fresh one.

All five rest on a frame: `Places` (where a request of each route may stand, and what
its clock and counters are there), `Writers` (which action writes which table) and
`Leads` (where each await leads).  `RequestTable` asks for a row of the gate to outlive
two ticks, that is two requests of 30 seconds; the code gives it 24 hours.  With a life
of one tick the last property is false, by evictions among four requests across two ticks.

`RefundProofs` proves, for any settlements, requests, workloads, timeouts and crashes:

* `RefundLockReleased`: `Spec => []LockReleased`.  `Attended` names who will close an
  open transaction: a request that still has to commit or to roll back, or nobody, after
  a refused INSERT or a timeout inside the transaction (`leftOpen`), until the next commit,
  rollback or crash ends it, whoever that is.
* `RefundsApart`: between its BEGIN and the commit of its row a refund that no other
  writer's commit has disturbed (that is not in `broken`) is the only such refund.  This
  is what BEGIN IMMEDIATE gives; the run `refund_double_spend` shows what is left without it.
* `RefundAckDurable`: `Spec => []AckDurable`.  `Promised` says at each await where the
  row of a request is: nowhere before the deposit, seen once inserted, in the file after
  the commit.

* `RefundNeverExceeds`, `RefundRowsMatchFunds`, `RefundStatusNotAhead`: the invariant
  `Kept`.  `Counted` is about the one refund of a settlement that holds the
  transaction: the total it has read is still the total, so the row it is about to
  insert keeps the sum within the amount, and the status it writes is right.
  `Moved` says, await by await, what it took and gave; `Ledger` that the rows of
  the others are exactly what they moved.

They rest on `Places`: the shape of the connection and its tables, that what is in the
file is seen, and that only refunds stand at the awaits of refunds.

`ProductProofs` proves, for any workload (any number of requests, to any of the products,
in one process that may cut one off, or die, at every await), four results about
`Products`.  A request runs one operation, so each product's invariant meets its own
steps, one of its requests that is cut off, and a crash; the first part of the module
(`Frame`, one lemma per product) shows that nobody else touches its tables.

* `FundsAlwaysArrive`: `Spec => []FundsArrive`.  `TopUpInv`: a session is credited by one
  request, or two were past the check together, or memory was lost before the row;
  `SplitInv`: what each request has taken and given at its awaits, and what a marker is
  worth to a retry; `ClientInv`: attempts are sent after the earlier ones ended or were
  given up.
* `AccessAlwaysKept`: `Spec => []AccessKept`.  `KeysInv` says, of the connection's seen and
  durable tables apart, which key a registered account still has (`FileKeys`: in the file,
  while a rotation is half committed); `BindInv` is about the identity that two bindings
  share, `OrgInv` about who is counted as an owner while a member is deleted.
* `ChargesAlwaysDue`: `Spec => []ChargedWhenDue`, from `SubInv`, whose parts are named for
  what they say: a pass that overlaps no other knows the rows as they are (`Lone`,
  `UpToDate`), goes from charge to deposit, settlement and row (`Taken`, `Staged`), and
  moves the date on (`Dated`, `Single`); two that hold one row contend for it (`Contests`);
  what is cancelled stays so (`Cancels`); the count is of booked charges (`Counts`); a key
  has one subscription (`OneForKey`).
* `WorkAlwaysAccounted`: `Spec => []WorkAccounted`, from the results about its parts:
  `AgreementsAlwaysHold` (`TalkInv`), `ScoresAlwaysHaveServers` (`TrustInv`),
  `JobsAlwaysAccounted` (`JobInv`) and `ReactionsAlwaysCarriedOut` (`BusInv` for services and
  their names, `HookInv` for deliveries and their attempts).

`HostingProofs` proves, for any workload of connector calls, loops, upstream writes,
backups and scripts:

* `ProcessAlwaysSafe`: `Spec => []ProcessSafe`.  `ConnInv`: one holder of the lock, one child
  and one reader per connector, and a reader that ended was deafened by a late reply, or
  its child is gone; `UpInv`: what a key has done so far, and tokens against attempts;
  `LifeInv`: what is open and runs in each phase of the process.
* `BackupsAlwaysRight`: `Spec => []BackupsRight`, from `BackInv`, which follows each thread and
  the file it works on (`Worked`, `Stored`), and what the live database keeps after a restore
  (`Restored`, `Later`).
* `UpgradesAlwaysSafe`: `Spec => []UpgradesSafe`, from `HostInv`: a row is in the database and
  in the copy that is to replace it (`RowsThere`), in the unit its version says
  (`RowsSound`); one script at a time has a service that is down when a copy takes its
  place (`OneScript`, `Copying`), and that somebody will start again (`Returning`).

The assumptions on constants are the named ASSUME of each module, and TLC
evaluates them in every run.  Those that are not types: the tables hold finitely many
rows (`WalletTables`, `EscrowTables`, `IntentTables`, `RefundTables`,
`RequestTable`: finitely many requests), only deposit and
withdraw take an idempotency key, the payers of the intents that exist at the
start have a wallet, and requests of a workload name what they are about as calls of the
gateway do (the attempts of a call are numbered and repeat it, a restore names a backup,
and so on).  Before they were proved the inductive invariants were checked
by TLC on the instances of the runs, and on a few more workloads.

**Only model-checked**: the liveness (`Termination`, `OverdueCloses`,
`ReservationEnds`), which is outside the prover; the five properties that fail, whose
counterexamples the runs show; of `Products`, `MeasuresKept` (metrics and claims) and
`AnswersHeard` (streams, market, calls of the SDKs); and of `HostSafe` the part about
releases (`ReleasesRight`).  There is no theorem about what `Money` and the tree hashes of
`Claims` compute, which is induction over data.

## 5. Plan

What is left, in the order in which it would pay:

1. `StreamsHeard`: the order of a stream under two writers, with the connection's
   transaction and the limit of a replay; then `MarketHolds`, on the same kind of connection.
2. `ClaimsHold` and `MetricsAccounted`, whose invariants are over several tables at once.
3. `ReleasesRight`, over the graph of commits, and with it `HostSafe` as a whole.
4. `CallsAnswered` is a statement about two given tables; TLC's enumeration of them is what
   there is to show, and no theorem is planned.

## 6. Not modelled, and why

The map names about a third of the implementation's lines: those that decide what the
state does, and what the two sides of the REST interface expect of each other.  Of the
rest, most is not state: documents, headers and logging, the catalog and its schemas,
formulas of scores and ranks, queries and reports, load tests, benchmarks, the website,
the MCP servers and the LangChain and CrewAI tools around the SDKs, which pass calls on,
and `customer_agent_report.py`, which calls an installation and prints what it finds.

Parts with state that are left out:

* the Postgres connector, whose state is in a database of somebody else;
* `plans.py`, `org_api.py` and the paywall's decorators, which the gateway does not call,
  sub-identities and the rotation of the auditor's key;
* the publish-only mode, the release notes and what the workflows' jobs do inside;
* organisation wallets, rate policies, the monthly cap, the public limit by address (a
  counter without awaits), tiers, scopes and the administrator's bypass;
* the registration and the test ping of a webhook, plain messages, and other single
  writes that nobody else reads between two awaits;
* `acknowledge`, `suspend_subscription` and the other methods that nothing calls;
* numeric formatting and float conversion at the API boundary (the tables hold
  integers); cryptography, scoring formulas and the solver, which are functions on data;
* a `-wal` file that a running service leaves beside a database that is moved over;
* a child that does not speak the protocol: the reader of a connector ends on such lines
  too (mcp_proxy.py:169-173), in the model on the end of output and on late replies only;
* the firewall, nginx, the
  virtual environment and the other packages of the host.
