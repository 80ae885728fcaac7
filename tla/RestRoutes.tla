----------------------------- MODULE RestRoutes -----------------------------
(***************************************************************************)
(* The REST routes of the gateway (gateway/src/routes/v1/): what the body  *)
(* or the query of each may and must hold, the tool it runs, and where an  *)
(* Idempotency-Key goes.  A body with a field that its model does not      *)
(* name is refused, a query is not.  The ranges of the values are left out.*)
(* And what the tools (gateway/src/tools/) do and answer: how a repetition *)
(* fares, what becomes of an idempotency key, and the fields of the        *)
(* result.  What a tool does in detail is in the module of its product.    *)
(***************************************************************************)
LOCAL INSTANCE TLC

Body(needs, may) == [needs |-> needs, takes |-> needs \cup may, strict |-> TRUE]
Query(needs) == [needs |-> needs, takes |-> needs, strict |-> FALSE]
Nothing == Query({})

\* The key of the header goes to the tool, or to the gate, or nowhere; that of
\* the body goes to the tool.
Route(tool, input) == [tool |-> tool, input |-> input, key |-> "none", open |-> "yes"]
PassesKey(route) == [route EXCEPT !.key = "header"]
PassesBodyKey(route) == [route EXCEPT !.key = "body"]
Gated(route) == [route EXCEPT !.key = "gate"]

-----------------------------------------------------------------------------
\* payments.py.  What _inject_caller builds takes the header's key with it; the
\* body's key of an intent, though it be None, keeps the header's out.
PaymentBodies == [
    CreateIntent |-> Body({"payer", "payee", "amount"},
                          {"description", "currency", "metadata", "idempotency_key"}),
    CreateEscrow |-> Body({"payer", "payee", "amount"},
                          {"description", "currency", "timeout_hours", "metadata"}),
    CreatePerformanceEscrow |->
        Body({"payer", "payee", "amount", "metric_name", "threshold"},
             {"description", "conditions"})]

CaptureBodies == [
    PartialCapture     |-> Body({"amount"}, {}),
    CreateSplitIntent  |-> Body({"payer", "amount", "splits"}, {"description", "currency"}),
    RefundSettlement   |-> Body({}, {"amount", "reason"}),
    CreateSubscription |-> Body({"payer", "payee", "amount", "interval"},
                                {"description", "currency", "metadata"})]

IntentRoutes ==
    ("POST /v1/payments/intents/split" :>
        PassesKey(Route("create_split_intent", CaptureBodies.CreateSplitIntent))) @@
    ("POST /v1/payments/intents" :> Gated(Route("create_intent", PaymentBodies.CreateIntent))) @@
    ("GET /v1/payments/intents" :> Route("list_intents", Query({"agent_id"}))) @@
    ("GET /v1/payments/intents/{}" :> Route("get_intent", Nothing)) @@
    ("POST /v1/payments/intents/{}/capture" :> PassesKey(Route("capture_intent", Nothing))) @@
    ("POST /v1/payments/intents/{}/partial-capture" :>
        PassesKey(Route("partial_capture", CaptureBodies.PartialCapture))) @@
    ("POST /v1/payments/intents/{}/refund" :> PassesKey(Route("refund_intent", Nothing)))

EscrowRoutes ==
    ("POST /v1/payments/escrows/performance" :>
        PassesKey(Route("create_performance_escrow", PaymentBodies.CreatePerformanceEscrow))) @@
    ("POST /v1/payments/escrows" :>
        PassesKey(Route("create_escrow", PaymentBodies.CreateEscrow))) @@
    ("GET /v1/payments/escrows" :> Route("list_escrows", Query({"agent_id"}))) @@
    ("GET /v1/payments/escrows/{}" :> Route("get_escrow", Nothing)) @@
    ("POST /v1/payments/escrows/{}/release" :> PassesKey(Route("release_escrow", Nothing))) @@
    ("POST /v1/payments/escrows/{}/cancel" :> PassesKey(Route("cancel_escrow", Nothing))) @@
    ("POST /v1/payments/escrows/{}/check-performance" :>
        PassesKey(Route("check_performance_escrow", Nothing)))

SubscriptionRoutes ==
    ("POST /v1/payments/settlements/{}/refund" :>
        PassesKey(Route("refund_settlement", CaptureBodies.RefundSettlement))) @@
    ("GET /v1/payments/history" :> Route("get_payment_history", Query({"agent_id"}))) @@
    ("POST /v1/payments/subscriptions/process-due" :>
        PassesKey(Route("process_due_subscriptions", Nothing))) @@
    ("POST /v1/payments/subscriptions" :>
        PassesKey(Route("create_subscription", CaptureBodies.CreateSubscription))) @@
    ("GET /v1/payments/subscriptions" :> Route("list_subscriptions", Nothing)) @@
    ("GET /v1/payments/subscriptions/{}" :> Route("get_subscription", Nothing)) @@
    ("POST /v1/payments/subscriptions/{}/cancel" :>
        PassesKey(Route("cancel_subscription", Nothing))) @@
    ("POST /v1/payments/subscriptions/{}/reactivate" :>
        PassesKey(Route("reactivate_subscription", Nothing)))

-----------------------------------------------------------------------------
\* billing.py.
BillingBodies == [
    CreateWallet        |-> Body({"agent_id"}, {"initial_balance", "signup_bonus"}),
    Deposit             |-> Body({"amount"}, {"currency", "description"}),
    Withdraw            |-> Body({"amount"}, {"currency", "description"}),
    BudgetCap           |-> Body({}, {"daily", "monthly", "daily_cap", "monthly_cap",
                                      "alert_threshold"}),
    CreateBillingApiKey |-> Body({}, {"tier"}),
    ConvertCurrency     |-> Body({"amount", "from_currency", "to_currency"}, {})]

WalletRoutes ==
    ("GET /v1/billing/wallets/{}/balance" :> Route("get_balance", Nothing)) @@
    ("POST /v1/billing/wallets" :> Route("create_wallet", BillingBodies.CreateWallet)) @@
    ("POST /v1/billing/wallets/{}/deposit" :>
        PassesKey(Route("deposit", BillingBodies.Deposit))) @@
    ("POST /v1/billing/wallets/{}/withdraw" :>
        PassesKey(Route("withdraw", BillingBodies.Withdraw))) @@
    ("POST /v1/billing/wallets/{}/freeze" :> Route("freeze_wallet", Nothing)) @@
    ("POST /v1/billing/wallets/{}/unfreeze" :> Route("unfreeze_wallet", Nothing)) @@
    ("GET /v1/billing/wallets/{}/transactions" :> Route("get_transactions", Nothing))

UsageRoutes ==
    ("GET /v1/billing/wallets/{}/usage" :> Route("get_usage_summary", Nothing)) @@
    ("GET /v1/billing/wallets/{}/analytics" :> Route("get_service_analytics", Nothing)) @@
    ("GET /v1/billing/wallets/{}/revenue" :> Route("get_revenue_report", Nothing)) @@
    ("GET /v1/billing/wallets/{}/timeseries" :> Route("get_metrics_timeseries", Nothing)) @@
    ("PUT /v1/billing/wallets/{}/budget" :> Route("set_budget_cap", BillingBodies.BudgetCap)) @@
    ("GET /v1/billing/wallets/{}/budget" :> Route("get_budget_status", Nothing)) @@
    ("GET /v1/billing/leaderboard" :> Route("get_agent_leaderboard", Nothing)) @@
    ("GET /v1/billing/discounts" :>
        Route("get_volume_discount", Query({"agent_id", "tool_name"})))

PriceRoutes ==
    ("GET /v1/billing/estimate" :> Route("estimate_cost", Query({"tool_name"}))) @@
    ("GET /v1/billing/exchange-rates" :>
        Route("get_exchange_rate", Query({"from_currency", "to_currency"}))) @@
    ("POST /v1/billing/keys" :> Route("create_api_key", BillingBodies.CreateBillingApiKey)) @@
    ("GET /v1/billing/keys" :> Route("list_own_api_keys", Nothing)) @@
    ("POST /v1/billing/wallets/{}/convert" :>
        Route("convert_currency", BillingBodies.ConvertCurrency))

-----------------------------------------------------------------------------
\* marketplace.py.
MarketplaceBodies == [
    RegisterService |-> Body({"provider_id", "name", "description", "category"},
                             {"tools", "tags", "endpoint", "pricing"}),
    UpdateService   |-> Body({}, {"name", "description", "category", "tags", "endpoint",
                                  "metadata"}),
    RateService     |-> Body({"rating"}, {"review"}),
    AtlasDiscover   |-> Body({"query"}, {"budget", "min_trust_score", "prefer", "capabilities",
                                         "limit"}),
    AtlasPreflight  |-> Body({"service_id"}, {"min_trust_score", "expected_cost"}),
    AtlasBroker     |-> Body({"query", "payer"},
                             {"budget", "min_trust_score", "prefer", "description"})]

ServiceRoutes ==
    ("POST /v1/marketplace/services" :>
        Route("register_service", MarketplaceBodies.RegisterService)) @@
    ("GET /v1/marketplace/services" :> Route("search_services", Nothing)) @@
    ("GET /v1/marketplace/services/{}" :> Route("get_service", Nothing)) @@
    ("PUT /v1/marketplace/services/{}" :>
        Route("update_service", MarketplaceBodies.UpdateService)) @@
    ("POST /v1/marketplace/services/{}/deactivate" :> Route("deactivate_service", Nothing)) @@
    ("POST /v1/marketplace/services/{}/ratings" :>
        Route("rate_service", MarketplaceBodies.RateService)) @@
    ("GET /v1/marketplace/services/{}/ratings" :> Route("get_service_ratings", Nothing))

MatchRoutes ==
    ("GET /v1/marketplace/match" :> Route("best_match", Query({"query"}))) @@
    ("GET /v1/marketplace/agents" :> Route("search_agents", Query({"query"}))) @@
    ("GET /v1/marketplace/strategies" :> Route("list_strategies", Nothing)) @@
    ("POST /v1/marketplace/atlas/discover" :>
        Route("atlas_discover", MarketplaceBodies.AtlasDiscover)) @@
    ("POST /v1/marketplace/atlas/preflight" :>
        Route("atlas_preflight", MarketplaceBodies.AtlasPreflight)) @@
    ("POST /v1/marketplace/atlas/broker" :>
        Route("atlas_broker", MarketplaceBodies.AtlasBroker))

-----------------------------------------------------------------------------
\* identity.py.
IdentityBodies == [
    RegisterAgent |-> Body({"agent_id"}, {"public_key", "name", "capabilities"}),
    VerifyAgent   |-> Body({"message", "signature"}, {}),
    SubmitMetrics |-> Body({"metrics"}, {"data_source"}),
    CreateOrg     |-> Body({"org_name"}, {"agent_id"}),
    AddMember     |-> Body({"agent_id"}, {"role"}),
    IngestMetrics |-> Body({"agent_id", "metrics"}, {"data_source", "signature", "nonce"})]

AgentRoutes ==
    ("POST /v1/identity/agents" :> Route("register_agent", IdentityBodies.RegisterAgent)) @@
    ("GET /v1/identity/agents" :> Route("search_agents_by_metrics", Query({"metric_name"}))) @@
    ("GET /v1/identity/agents/{}" :> Route("get_agent_identity", Nothing)) @@
    ("POST /v1/identity/agents/{}/verify" :> Route("verify_agent", IdentityBodies.VerifyAgent)) @@
    ("GET /v1/identity/agents/{}/reputation" :> Route("get_agent_reputation", Nothing)) @@
    ("GET /v1/identity/agents/{}/claims" :> Route("get_verified_claims", Nothing)) @@
    ("POST /v1/identity/agents/{}/metrics" :>
        Route("submit_metrics", IdentityBodies.SubmitMetrics)) @@
    ("POST /v1/identity/agents/{}/claim-chains" :> Route("build_claim_chain", Nothing)) @@
    ("GET /v1/identity/agents/{}/claim-chains" :> Route("get_claim_chains", Nothing))

OrgRoutes ==
    ("POST /v1/identity/orgs" :> Route("create_org", IdentityBodies.CreateOrg)) @@
    ("GET /v1/identity/orgs/{}" :> Route("get_org", Nothing)) @@
    ("POST /v1/identity/orgs/{}/members" :>
        Route("add_agent_to_org", IdentityBodies.AddMember)) @@
    ("DELETE /v1/identity/orgs/{}/members/{}" :> Route("remove_agent_from_org", Nothing)) @@
    ("POST /v1/identity/metrics/ingest" :>
        Route("ingest_metrics", IdentityBodies.IngestMetrics)) @@
    ("GET /v1/identity/metrics" :> Route("query_metrics", Query({"agent_id", "metric_name"}))) @@
    ("GET /v1/identity/metrics/deltas" :> Route("get_metric_deltas", Query({"agent_id"}))) @@
    ("GET /v1/identity/metrics/averages" :> Route("get_metric_averages", Query({"agent_id"})))


-----------------------------------------------------------------------------
\* infra.py.  The keys are made elsewhere by now, and to change one's own takes
\* a header of its own.
InfraBodies == [
    RevokeApiKey    |-> Body({"key_hash_prefix"}, {}),
    RotateKey       |-> Body({"current_key"}, {}),
    RegisterWebhook |-> Body({"url", "event_types", "secret"}, {"filter_agent_ids"}),
    PublishEvent    |-> Body({"event_type", "source"}, {"payload"}),
    RegisterEventSchema |-> Body({"event_type", "schema"}, {}),
    BackupDatabase  |-> Body({}, {"encrypt"}),
    RestoreDatabase |-> Body({}, {"backup_path", "filename", "key", "key_id"})]

KeyRoutes ==
    ("POST /v1/infra/keys" :> [Route("none", Nothing) EXCEPT !.open = "gone"]) @@
    ("GET /v1/infra/keys" :> Route("list_api_keys", Nothing)) @@
    ("POST /v1/infra/keys/revoke" :> Route("revoke_api_key", InfraBodies.RevokeApiKey)) @@
    ("POST /v1/infra/keys/rotate" :>
        [Route("rotate_key", InfraBodies.RotateKey) EXCEPT !.open = "confirmed"])

EventRoutes ==
    ("POST /v1/infra/webhooks" :> Route("register_webhook", InfraBodies.RegisterWebhook)) @@
    ("GET /v1/infra/webhooks" :> Route("list_webhooks", Nothing)) @@
    ("POST /v1/infra/webhooks/{}/test" :> Route("test_webhook", Nothing)) @@
    ("DELETE /v1/infra/webhooks/{}" :> Route("delete_webhook", Nothing)) @@
    ("GET /v1/infra/webhooks/{}/deliveries" :> Route("get_webhook_deliveries", Nothing)) @@
    ("POST /v1/infra/events/schemas" :>
        Route("register_event_schema", InfraBodies.RegisterEventSchema)) @@
    ("POST /v1/infra/events" :> Route("publish_event", InfraBodies.PublishEvent)) @@
    ("GET /v1/infra/events/schemas/{}" :> Route("get_event_schema", Nothing)) @@
    ("GET /v1/infra/events" :> Route("get_events", Nothing))

DatabaseRoutes ==
    ("GET /v1/infra/audit-log" :> Route("get_global_audit_log", Nothing)) @@
    ("GET /v1/infra/databases/backups" :> Route("list_backups", Nothing)) @@
    ("POST /v1/infra/databases/{}/backup" :>
        Route("backup_database", InfraBodies.BackupDatabase)) @@
    ("POST /v1/infra/databases/{}/restore" :>
        Route("restore_database", InfraBodies.RestoreDatabase)) @@
    ("GET /v1/infra/databases/{}/integrity" :> Route("check_db_integrity", Nothing))

-----------------------------------------------------------------------------
\* gatekeeper.py, trust.py, disputes.py, messaging.py.
GatekeeperRoutes ==
    ("POST /v1/gatekeeper/jobs" :> PassesBodyKey(Route("submit_verification",
        Body({"agent_id", "properties"},
             {"scope", "timeout_seconds", "webhook_url", "idempotency_key", "metadata"})))) @@
    ("GET /v1/gatekeeper/jobs" :> Route("list_verification_jobs", Query({"agent_id"}))) @@
    ("GET /v1/gatekeeper/jobs/{}" :> Route("get_verification_status", Nothing)) @@
    ("POST /v1/gatekeeper/jobs/{}/cancel" :> Route("cancel_verification", Nothing)) @@
    ("GET /v1/gatekeeper/proofs/{}" :> Route("get_proof", Nothing)) @@
    ("POST /v1/gatekeeper/proofs/verify" :> Route("verify_proof", Body({"proof_hash"}, {})))

TrustRoutes ==
    ("POST /v1/trust/servers" :>
        Route("register_server", Body({"name", "url"}, {"transport_type", "server_id"}))) @@
    ("GET /v1/trust/servers" :> Route("search_servers", Nothing)) @@
    ("GET /v1/trust/servers/{}/score" :> Route("get_trust_score", Nothing)) @@
    ("PUT /v1/trust/servers/{}" :> Route("update_server", Body({}, {"name", "url"}))) @@
    ("DELETE /v1/trust/servers/{}" :> Route("delete_server", Nothing)) @@
    ("GET /v1/trust/servers/{}/sla" :> Route("check_sla_compliance", Nothing))

DisputeRoutes ==
    ("POST /v1/disputes" :> Route("open_dispute", Body({"escrow_id", "opener"}, {"reason"}))) @@
    ("GET /v1/disputes" :> Route("list_disputes", Query({"agent_id"}))) @@
    ("GET /v1/disputes/{}" :> Route("get_dispute", Nothing)) @@
    ("POST /v1/disputes/{}/respond" :>
        Route("respond_to_dispute", Body({"respondent", "response"}, {}))) @@
    ("POST /v1/disputes/{}/resolve" :>
        Route("resolve_dispute", Body({"resolution", "resolved_by"}, {"notes"})))

MessagingRoutes ==
    ("POST /v1/messaging/messages" :> Route("send_message",
        Body({"sender", "recipient", "message_type"},
             {"subject", "body", "metadata", "thread_id"}))) @@
    ("GET /v1/messaging/messages" :> Route("get_messages", Query({"agent_id"}))) @@
    ("POST /v1/messaging/negotiations" :> Route("negotiate_price",
        Body({"initiator", "responder", "amount"}, {"service_id", "expires_hours"})))

-----------------------------------------------------------------------------
\* The routes beside the products'.  Of the tools, the removed one still runs
\* the connectors'.
OpenRoutes ==
    ("GET /v1/health" :> Route("health", Nothing)) @@
    ("GET /v1/pricing" :> Route("pricing", Nothing)) @@
    ("GET /v1/pricing/{}" :> Route("pricing_detail", Nothing)) @@
    ("POST /v1/execute" :>
        [Route("execute", Body({"tool"}, {"params"})) EXCEPT !.open = "connectors"])
CheckoutRoute ==
    "POST /v1/checkout" :> Route("create_checkout", Query({}))
BatchRoute ==
    "POST /v1/batch" :> Route("batch", Query({"calls"}))

AllRoutes == IntentRoutes @@ EscrowRoutes @@ SubscriptionRoutes @@ WalletRoutes @@ UsageRoutes
             @@ PriceRoutes @@ ServiceRoutes @@ MatchRoutes @@ AgentRoutes @@ OrgRoutes
             @@ KeyRoutes @@ EventRoutes @@ DatabaseRoutes @@ GatekeeperRoutes @@ TrustRoutes
             @@ DisputeRoutes @@ MessagingRoutes @@ OpenRoutes @@ CheckoutRoute @@ BatchRoute

-----------------------------------------------------------------------------
\* The tools.
\* A tool "reads", or "makes" something of each call, or "sets" what a
\* repetition sets again; or it looks whether it was done "once", or "claims"
\* the doing in one statement.
Tool(effect, fields) ==
    [effect |-> effect, memory |-> "none", fields |-> fields, misses |-> {}]
Reads(fields) == Tool("reads", fields)
Makes(fields) == Tool("makes", fields)
Sets(fields) == Tool("sets", fields)
Once(fields) == Tool("once", fields)
Claims(fields) == Tool("claims", fields)

\* The key is looked for first, and inserted after what was done, or in one row
\* with it; or it turns a state that was reached already into a success.
KeyAfter(tool) == [tool EXCEPT !.memory = "after"]
KeyWithin(tool) == [tool EXCEPT !.memory = "within"]
KeyExcuses(tool) == [tool EXCEPT !.memory = "state"]
\* An answer of these fields, if nothing was done.
OrMisses(tool, fields) == [tool EXCEPT !.misses = fields]

-----------------------------------------------------------------------------
\* serialization.py: amounts and known times go out as texts.
MonetaryFields == {"balance", "amount", "cost", "billed_cost", "fee", "new_balance", "price",
    "charged", "total", "min_fee", "max_fee", "per_call", "refund_amount", "original_amount",
    "net_amount", "remaining", "spent", "cap", "used", "average_rating", "discount_percent",
    "original_price", "discounted_price", "rate", "from_amount", "to_amount"}
TimestampFields == {"created_at", "updated_at", "captured_at", "settled_at", "expires_at",
    "expired_at", "cancelled_at", "refunded_at", "released_at", "resolved_at", "suspended_at",
    "reactivated_at", "registered_at", "verified_at", "last_seen", "timestamp", "revoked_at",
    "restored_at"}
Texts == MonetaryFields \cup TimestampFields

-----------------------------------------------------------------------------
\* payments.py.  What captures answers with the id of the settlement.
IntentTools == [
    create_intent  |-> Makes({"id", "status", "amount", "currency", "gateway_fee"}),
    get_intent     |-> Reads({"id", "status", "payer", "payee", "amount", "description",
                              "created_at", "gateway_fee"}),
    capture_intent |-> KeyAfter(Claims({"id", "status", "amount"}))]
\* A pending one is voided once, a settled one is paid back again.
RefundTool == "refund_intent" :> Makes({"id", "status", "amount", "gateway_fee", "fee_refunded",
                                        "fee_retained", "fee_policy"})
CaptureTools == [
    get_payment_history |-> Reads({"history"}),
    partial_capture |-> KeyAfter(Makes({"id", "status", "amount", "remaining_amount"})),
    list_intents    |-> Reads({"intents", "count"}),
    list_escrows    |-> Reads({"escrows", "count"})]
SettlementTools == [
    refund_settlement   |-> KeyAfter(Makes({"id", "settlement_id", "amount", "reason", "status"})),
    create_split_intent |-> KeyAfter(Makes({"status", "payer", "total_amount", "currency",
                                            "settlements"}))]

EscrowTools == [
    create_escrow  |-> KeyAfter(Makes({"id", "status", "amount", "currency"})),
    get_escrow     |-> Reads({"id", "status", "payer", "payee", "amount", "description",
                              "created_at"}),
    release_escrow |-> KeyAfter(Once({"id", "status", "amount"})),
    cancel_escrow  |-> KeyExcuses(Once({"id", "status", "amount"})),
    create_performance_escrow |-> KeyAfter(Makes({"escrow_id", "status", "amount", "metric_name",
                                                  "threshold"})),
    check_performance_escrow |->
        OrMisses(Once({"released", "settlement_id"}), {"released", "reason"})]

SubscriptionTools == [
    create_subscription |-> KeyWithin(Makes({"id", "status", "amount", "interval",
                                             "next_charge_at", "currency"})),
    cancel_subscription |-> Once({"id", "status"}),
    get_subscription    |-> Reads({"id", "payer", "payee", "amount", "interval", "status",
                                   "next_charge_at", "charge_count", "created_at"}),
    list_subscriptions  |-> Reads({"subscriptions"}),
    reactivate_subscription   |-> KeyExcuses(Once({"id", "status"})),
    process_due_subscriptions |-> Sets({"processed", "succeeded", "failed", "suspended",
                                        "expired_escrows"})]

DisputeTools == [
    open_dispute       |-> Makes({"id", "escrow_id", "opener", "status", "reason", "created_at",
                                  "deadline_at"}),
    respond_to_dispute |-> Once({"id", "status", "respondent", "response", "responded_at"}),
    get_dispute        |-> Reads({"id", "escrow_id", "opener", "respondent", "status"}),
    list_disputes      |-> Reads({"disputes"}),
    resolve_dispute    |-> Once({"id", "status", "resolution", "resolved_by", "notes",
                                 "resolved_at"})]

\* billing.py.
WalletTools == [
    get_balance       |-> Reads({"balance"}),
    get_usage_summary |-> Reads({"total_calls", "total_cost", "total_tokens"}),
    deposit           |-> KeyAfter(Makes({"new_balance", "transaction_id"})),
    get_transactions  |-> Reads({"transactions"}),
    create_wallet     |-> Once({"agent_id", "balance", "created_at", "updated_at"}),
    withdraw          |-> KeyAfter(Makes({"new_balance"}))]
ExchangeTools == [
    freeze_wallet     |-> Sets({"agent_id", "frozen"}),
    unfreeze_wallet   |-> Sets({"agent_id", "frozen"}),
    convert_currency  |-> Makes({"from_amount", "to_amount", "rate"}),
    get_exchange_rate |-> Reads({"from_currency", "to_currency", "rate"})]

UsageTools == [
    get_metrics_timeseries |-> Reads({"buckets"}),
    get_agent_leaderboard  |-> Reads({"leaderboard"})]
PriceTools == [
    get_volume_discount    |-> Reads({"agent_id", "tool_name", "historical_calls",
                                      "discount_pct", "unit_price", "discounted_price"}),
    estimate_cost          |-> Reads({"tool_name", "quantity", "unit_price", "discount_pct",
                                      "total_cost"})]
AnalyticsTools == [
    get_service_analytics  |-> Reads({"agent_id", "total_calls", "total_cost", "total_tokens"}),
    get_revenue_report     |-> Reads({"agent_id", "total_revenue", "payment_count", "history"})]
BudgetTools == [
    set_budget_cap    |-> Sets({"agent_id", "daily_cap", "monthly_cap", "alert_threshold"}),
    get_budget_status |-> Reads({"agent_id", "daily_spend", "daily_cap", "daily_pct",
                                 "monthly_spend", "monthly_cap", "monthly_pct",
                                 "alert_triggered", "cap_exceeded"})]

\* marketplace.py.
ListingTools == [
    search_services    |-> Reads({"services"}),
    best_match         |-> Reads({"matches"})]
ServiceTools == [
    get_service        |-> Reads({"id", "name", "description", "category", "pricing", "tags",
                                  "endpoint", "trust_score", "status"}),
    update_service     |-> Sets({"id", "name", "description", "category", "pricing", "tags",
                                 "endpoint", "status"}),
    deactivate_service |-> Sets({"id", "name", "status"}),
    register_service   |-> Makes({"id", "name", "status"}),
    list_strategies    |-> Reads({"strategies"})]
RatingTools == [
    rate_service        |-> Sets({"service_id", "agent_id", "rating", "review"}),
    get_service_ratings |-> Reads({"average_rating", "count", "ratings"}),
    search_agents       |-> Reads({"agents"})]
AtlasTools == [
    atlas_discover  |-> Reads({"results"}),
    atlas_preflight |-> Reads({"ready", "checks", "service_id", "latency_ms"})]
BrokerTool == "atlas_broker" :>
    OrMisses(Makes({"match", "intent_id", "intent_status", "atlas_score", "preflight"}),
             {"match", "error"})

\* identity.py.
AgentTools == [
    register_agent |-> Sets({"agent_id", "public_key", "created_at"}),
    verify_agent   |-> Reads({"valid"}),
    submit_metrics |-> Makes({"agent_id", "commitment_hashes", "verified_at", "valid_until",
                              "data_source", "signature"}),
    get_agent_identity  |-> Reads({"agent_id", "public_key", "created_at", "org_id", "found"}),
    get_verified_claims |-> Reads({"claims"}),
    search_agents_by_metrics |-> Reads({"agents"}),
    get_agent_reputation |-> Reads({"agent_id", "payment_reliability", "data_source_quality",
                                    "transaction_volume_score", "composite_score", "confidence",
                                    "found"})]
ChainTools == [
    build_claim_chain   |-> Makes({"merkle_root", "leaf_count", "period_start", "period_end",
                                   "chain_id"}),
    get_claim_chains    |-> Reads({"chains"})]
MetricTools == [
    ingest_metrics      |-> Makes({"accepted", "rejected"}),
    query_metrics       |-> Reads({"data"}),
    get_metric_deltas   |-> Reads({"deltas"}),
    get_metric_averages |-> Reads({"averages"})]
OrgTools == [
    create_org |-> Makes({"org_id", "name", "created_at"}),
    get_org    |-> OrMisses(Reads({"org_id", "name", "created_at", "members"}), {"error"})]
MemberTools == [
    remove_agent_from_org |-> Once({"org_id", "agent_id", "removed"}),
    add_agent_to_org      |-> OrMisses(Sets({"agent_id", "org_id"}), {"error"})]

\* infrastructure.py.
EventTools == [
    get_global_audit_log  |-> Reads({"entries"}),
    publish_event         |-> Makes({"event_id"}),
    get_events            |-> Reads({"events"}),
    register_event_schema |-> Sets({"event_type", "registered"}),
    get_event_schema      |-> OrMisses(Reads({"event_type", "schema", "found"}),
                                       {"event_type", "found"})]
WebhookTools == [
    register_webhook |-> Makes({"id", "agent_id", "url", "event_types", "secret", "created_at",
                                "active", "filter_agent_ids"}),
    list_webhooks    |-> Reads({"webhooks"}),
    delete_webhook   |-> OrMisses(Claims({"deleted"}), {"deleted"}),
    get_webhook_deliveries |-> Reads({"deliveries"}),
    test_webhook     |-> Makes({"delivery_id", "status", "response_code"})]
RotateTool == "rotate_key" :>
    Makes({"new_key", "tier", "agent_id", "revoked", "grace_period_seconds", "grace_expires_at"})
KeyTools == [
    list_api_keys  |-> Reads({"keys"}),
    list_own_api_keys |-> Reads({"keys"}),
    revoke_api_key |-> OrMisses(Once({"revoked", "key_hash_prefix"}),
                                {"revoked", "key_hash_prefix"}),
    create_api_key |-> Makes({"key", "agent_id", "tier", "created_at"})]
DatabaseTools == [
    backup_database    |-> Makes({"filename", "size_bytes", "created_at", "database"}),
    restore_database   |-> Sets({"size_bytes", "restored_at", "database"}),
    check_db_integrity |-> Reads({"ok", "details", "page_count", "freelist_count", "checked_at",
                                  "database"}),
    list_backups       |-> Reads({"backups"})]

\* gatekeeper.py.
VerificationTools == [
    submit_verification |-> KeyWithin(Makes({"job_id", "status", "result", "cost",
                                             "created_at"})),
    get_verification_status |-> Reads({"job_id", "agent_id", "status", "result",
                                       "proof_artifact_id", "cost", "billed_cost", "created_at",
                                       "updated_at"}),
    list_verification_jobs  |-> Reads({"jobs", "count"}),
    cancel_verification     |-> Once({"job_id", "status"}),
    get_proof    |-> Reads({"proof_id", "job_id", "agent_id", "result", "proof_hash",
                            "valid_until", "property_results", "created_at"}),
    verify_proof |-> OrMisses(Reads({"valid", "proof_id", "job_id", "agent_id", "result",
                                     "valid_until"}), {"valid", "reason"})]

\* trust.py, messaging.py.
TrustTools == [
    register_server |-> Makes({"id", "name", "url", "transport_type"}),
    get_trust_score |-> Reads({"server_id", "composite_score", "reliability_score",
                               "security_score", "documentation_score", "responsiveness_score",
                               "confidence", "window"}),
    search_servers  |-> Reads({"servers"}),
    delete_server   |-> Once({"deleted"}),
    update_server   |-> Sets({"id", "name", "url", "transport_type"}),
    check_sla_compliance |-> Reads({"server_id", "claimed_uptime", "actual_uptime", "compliant",
                                    "violation_pct", "confidence"})]
\* A negotiation goes out as the row of its table.
MessagingTools == [
    send_message    |-> Makes({"id", "sender", "recipient", "message_type", "thread_id",
                               "created_at"}),
    get_messages    |-> Reads({"messages"}),
    negotiate_price |-> Makes({"id", "thread_id", "initiator", "responder", "proposed_amount",
                               "current_amount", "status", "service_id", "expires_at",
                               "created_at", "updated_at"})]

\* The routes that run no tool of these.  The result of a connector's tool is
\* the answer, with no envelope; its fields are left out.
OpenTools == [
    health          |-> Reads({"status", "version", "tools", "db", "databases", "docs_url"}),
    pricing         |-> Reads({"tools", "total", "limit", "offset", "has_more"}),
    pricing_detail  |-> Reads({"tool"})]
ConnectorTool == "execute" :> Makes({})
BatchTool == "batch" :> Makes({"results"})
CheckoutTool ==
    "create_checkout" :> Makes({"checkout_url", "session_id", "credits", "amount_usd"})

Tools == IntentTools @@ RefundTool @@ CaptureTools @@ SettlementTools @@ EscrowTools
         @@ SubscriptionTools @@ DisputeTools @@ WalletTools @@ ExchangeTools @@ UsageTools
         @@ PriceTools @@ BudgetTools @@ AnalyticsTools @@ ListingTools @@ ServiceTools
         @@ RatingTools @@ AtlasTools @@ BrokerTool @@ AgentTools @@ ChainTools @@ MetricTools
         @@ OrgTools @@ MemberTools @@ EventTools @@ WebhookTools @@ RotateTool @@ KeyTools
         @@ DatabaseTools @@ VerificationTools @@ TrustTools @@ MessagingTools @@ OpenTools
         @@ ConnectorTool @@ BatchTool @@ CheckoutTool
=============================================================================
