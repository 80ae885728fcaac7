----------------------------- MODULE SdkMethods -----------------------------
(***************************************************************************)
(* What the methods of the two SDKs ask for and what they read of the      *)
(* answer: sdk/src/a2a_client/client.py with the response models of        *)
(* models.py, and sdk-ts/src/client.ts, which takes any answer.            *)
(***************************************************************************)
LOCAL INSTANCE TLC

\* The fields that a model demands, and those among them that are declared to be
\* numbers.  A Timestamp of the Python models can be a number or a text, a
\* Decimal as well.
Fields(fields) == [fields |-> fields, numbers |-> {}]
Numbers(numbers, fields) == [fields |-> fields \cup numbers, numbers |-> numbers]
Untyped == Fields({})

InfrastructureModels == [
    ExecuteResponse |-> Fields({"success"}),
    ToolPricing     |-> Fields({"name", "service", "description"}),
    HealthResponse  |-> Fields({"status", "version", "tools"}),
    BalanceResponse |-> Fields({"balance"}),
    DepositResponse |-> Fields({"new_balance"})]

PaymentModels == [
    PaymentIntentResponse    |-> Fields({"id", "status", "amount"}),
    EscrowResponse           |-> Fields({"id", "status", "amount"}),
    CancelEscrowResponse     |-> Fields({"id", "status", "amount"}),
    VoidPaymentResponse      |-> Fields({"id", "status", "amount"}),
    RefundSettlementResponse |-> Fields({"id", "settlement_id", "amount", "status"})]

SubscriptionModels == [
    SubscriptionResponse |->
        Numbers({"next_charge_at"}, {"id", "status", "amount", "interval"}),
    CancelSubscriptionResponse |-> Fields({"id", "status"}),
    GetSubscriptionResponse |->
        Numbers({"next_charge_at", "charge_count"},
                {"id", "payer", "payee", "amount", "interval", "status", "created_at"}),
    ListSubscriptionsResponse |-> Fields({"subscriptions"})]

MarketplaceModels == [
    RegisterServiceResponse |-> Fields({"id", "name", "status"}),
    SearchServicesResponse  |-> Fields({"services"}),
    GetServiceResponse      |-> Fields({"id", "name", "description", "category", "status"}),
    RateServiceResponse     |-> Numbers({"rating"}, {"service_id", "agent_id"}),
    ServiceMatches          |-> Fields({"matches"}),
    TrustScoreResponse |->
        Numbers({"composite_score", "reliability_score", "security_score", "confidence"},
                {"server_id", "window"}),
    SearchServersResponse   |-> Fields({"servers"})]

IdentityModels == [
    RegisterAgentResponse    |-> Fields({"agent_id", "public_key", "created_at"}),
    GetAgentIdentityResponse |-> Fields({"agent_id"}),
    VerifyAgentResponse      |-> Fields({"valid"}),
    SubmitMetricsResponse |->
        Numbers({"verified_at", "valid_until"},
                {"agent_id", "commitment_hashes", "data_source", "signature"}),
    GetVerifiedClaimsResponse |-> Fields({"claims"})]

MessagingModels == [
    SendMessageResponse    |-> Fields({"id", "sender", "recipient", "thread_id"}),
    GetMessagesResponse    |-> Fields({"messages"}),
    NegotiatePriceResponse |->
        Fields({"negotiation_id", "thread_id", "status", "proposed_amount"}),
    RegisterWebhookResponse |->
        Fields({"id", "agent_id", "url", "event_types", "created_at", "active"}),
    ListWebhooksResponse    |-> Fields({"webhooks"}),
    DeleteWebhookResponse   |-> Fields({"deleted"})]

AccountModels == [
    CreateApiKeyResponse  |-> Fields({"key", "agent_id", "tier", "created_at"}),
    RotateKeyResponse     |-> Fields({"new_key", "tier", "agent_id", "revoked"}),
    PublishEventResponse  |-> Numbers({"event_id"}, {}),
    GetEventsResponse     |-> Fields({"events"}),
    CreateOrgResponse     |-> Fields({"org_id", "name", "created_at"}),
    GetOrgResponse        |-> Fields({"org_id", "name", "created_at", "members"}),
    AddAgentToOrgResponse |-> Fields({"agent_id", "org_id"})]

VerificationModels == [
    SubmitVerificationResponse |-> Fields({"job_id", "status"}),
    VerificationJobResponse    |-> Fields({"job_id", "status"}),
    VerifyProofResponse        |-> Fields({"valid"})]

Models == InfrastructureModels @@ PaymentModels @@ SubscriptionModels @@ MarketplaceModels
          @@ IdentityModels @@ MessagingModels @@ AccountModels @@ VerificationModels

-----------------------------------------------------------------------------
\* A method: where it goes, what it always sends and what it may send besides,
\* in the body or the query, whether it can send a key, and what it reads.
Sends(url, sends, may, reads) ==
    [url |-> url, sends |-> sends, may |-> may, key |-> "none", reads |-> reads]
SendsKey(where, method) == [method EXCEPT !.key = where]
Asks(url, reads) == Sends(url, {}, {}, reads)

PythonCore == [
    health       |-> Asks("GET /v1/health", Models.HealthResponse),
    pricing      |-> Asks("GET /v1/pricing", Untyped),
    pricing_tool |-> Asks("GET /v1/pricing/{}", Untyped),
    execute      |-> Sends("POST /v1/execute", {"tool", "params"}, {}, Models.ExecuteResponse),
    get_balance  |-> Asks("GET /v1/billing/wallets/{}/balance", Models.BalanceResponse),
    deposit      |-> Sends("POST /v1/billing/wallets/{}/deposit", {"amount", "description"}, {},
                           Models.DepositResponse),
    get_usage_summary |-> Sends("GET /v1/billing/wallets/{}/usage", {}, {"since"}, Untyped)]

PythonPayments == [
    create_payment_intent |-> SendsKey("header",
        Sends("POST /v1/payments/intents",
              {"payer", "payee", "amount", "description", "currency"}, {},
              Models.PaymentIntentResponse)),
    capture_payment |->
        Asks("POST /v1/payments/intents/{}/capture", Models.PaymentIntentResponse),
    void_payment |-> Asks("POST /v1/payments/intents/{}/refund", Models.VoidPaymentResponse),
    refund_settlement |->
        Sends("POST /v1/payments/settlements/{}/refund", {}, {"amount", "reason"},
              Models.RefundSettlementResponse),
    get_payment_history |->
        Sends("GET /v1/payments/history", {"agent_id", "limit", "offset"}, {},
              Fields({"history"})),
    create_escrow |->
        Sends("POST /v1/payments/escrows", {"payer", "payee", "amount", "description"},
              {"timeout_hours"}, Models.EscrowResponse),
    release_escrow |-> Asks("POST /v1/payments/escrows/{}/release", Models.EscrowResponse),
    cancel_escrow  |-> Asks("POST /v1/payments/escrows/{}/cancel", Models.CancelEscrowResponse)]

PythonSubscriptions == [
    create_subscription |->
        Sends("POST /v1/payments/subscriptions", {"payer", "payee", "amount", "interval"},
              {"description"}, Models.SubscriptionResponse),
    cancel_subscription |->
        Sends("POST /v1/payments/subscriptions/{}/cancel", {}, {"cancelled_by"},
              Models.CancelSubscriptionResponse),
    get_subscription |->
        Asks("GET /v1/payments/subscriptions/{}", Models.GetSubscriptionResponse),
    list_subscriptions |->
        Sends("GET /v1/payments/subscriptions", {"limit", "offset"}, {"agent_id", "status"},
              Models.ListSubscriptionsResponse)]

PythonMarketplace == [
    register_service |->
        Sends("POST /v1/marketplace/services", {"provider_id", "name", "description", "category"},
              {"tools", "tags", "endpoint", "pricing"}, Models.RegisterServiceResponse),
    search_services |->
        Sends("GET /v1/marketplace/services", {"limit"}, {"query", "category", "tags", "max_cost"},
              Models.SearchServicesResponse),
    best_match |->
        Sends("GET /v1/marketplace/match", {"query", "prefer", "limit"},
              {"budget", "min_trust_score"}, Models.ServiceMatches),
    get_service |-> Asks("GET /v1/marketplace/services/{}", Models.GetServiceResponse),
    rate_service |->
        Sends("POST /v1/marketplace/services/{}/ratings", {"agent_id", "rating"}, {"review"},
              Models.RateServiceResponse),
    get_trust_score |->
        Sends("GET /v1/trust/servers/{}/score", {"window"}, {"recompute"},
              Models.TrustScoreResponse),
    search_servers |->
        Sends("GET /v1/trust/servers", {"limit"}, {"name_contains", "min_score"},
              Models.SearchServersResponse)]

PythonIdentity == [
    register_agent |->
        Sends("POST /v1/identity/agents", {"agent_id"}, {"public_key"},
              Models.RegisterAgentResponse),
    get_agent_identity |-> Asks("GET /v1/identity/agents/{}", Models.GetAgentIdentityResponse),
    verify_agent |->
        Sends("POST /v1/identity/agents/{}/verify", {"message", "signature"}, {},
              Models.VerifyAgentResponse),
    submit_metrics |->
        Sends("POST /v1/identity/agents/{}/metrics", {"metrics", "data_source"}, {},
              Models.SubmitMetricsResponse),
    get_verified_claims |->
        Asks("GET /v1/identity/agents/{}/claims", Models.GetVerifiedClaimsResponse),
    send_message |->
        Sends("POST /v1/messaging/messages", {"sender", "recipient", "message_type"},
              {"body", "subject", "thread_id"}, Models.SendMessageResponse),
    get_messages |->
        Sends("GET /v1/messaging/messages", {"agent_id", "limit"}, {"thread_id"},
              Models.GetMessagesResponse),
    negotiate_price |->
        Sends("POST /v1/messaging/negotiations",
              {"initiator", "responder", "amount", "expires_hours"}, {"service_id"},
              Models.NegotiatePriceResponse)]

PythonInfra == [
    register_webhook |->
        Sends("POST /v1/infra/webhooks", {"url", "event_types"}, {"secret", "filter_agent_ids"},
              Models.RegisterWebhookResponse),
    list_webhooks  |-> Asks("GET /v1/infra/webhooks", Models.ListWebhooksResponse),
    delete_webhook |-> Asks("DELETE /v1/infra/webhooks/{}", Models.DeleteWebhookResponse),
    create_api_key |->
        Sends("POST /v1/infra/keys", {}, {"tier"}, Models.CreateApiKeyResponse),
    rotate_key     |->
        Sends("POST /v1/infra/keys/rotate", {"current_key"}, {}, Models.RotateKeyResponse),
    publish_event  |->
        Sends("POST /v1/infra/events", {"event_type", "source"}, {"payload"},
              Models.PublishEventResponse),
    get_events     |->
        Sends("GET /v1/infra/events", {"since_id", "limit"}, {"event_type"},
              Models.GetEventsResponse),
    create_org     |-> Sends("POST /v1/identity/orgs", {"org_name"}, {}, Models.CreateOrgResponse),
    get_org        |-> Asks("GET /v1/identity/orgs/{}", Models.GetOrgResponse),
    add_agent_to_org |->
        Sends("POST /v1/identity/orgs/{}/members", {"agent_id"}, {},
              Models.AddAgentToOrgResponse)]

PythonVerification == [
    submit_verification |-> SendsKey("body",
        Sends("POST /v1/gatekeeper/jobs", {"agent_id", "properties", "scope", "timeout_seconds"},
              {"webhook_url", "metadata"}, Models.SubmitVerificationResponse)),
    get_verification_status |->
        Asks("GET /v1/gatekeeper/jobs/{}", Models.VerificationJobResponse),
    cancel_verification |->
        Asks("POST /v1/gatekeeper/jobs/{}/cancel", Models.VerificationJobResponse),
    list_verification_jobs |->
        Sends("GET /v1/gatekeeper/jobs", {"agent_id", "limit"}, {"status", "cursor"}, Untyped),
    verify_proof |->
        Sends("POST /v1/gatekeeper/proofs/verify", {"proof_hash"}, {},
              Models.VerifyProofResponse),
    get_proof |-> Asks("GET /v1/gatekeeper/proofs/{}", Untyped),
    batch_execute |-> Sends("POST /v1/batch", {"calls"}, {}, Untyped)]

PythonMethods == PythonCore @@ PythonPayments @@ PythonSubscriptions @@ PythonMarketplace
                 @@ PythonIdentity @@ PythonInfra @@ PythonVerification

-----------------------------------------------------------------------------
\* The interfaces of types.ts, which the answers are cast to.
PaymentTypes == [
    ExecuteResponse |-> Numbers({"charged"}, {"success", "result"}),
    HealthResponse  |-> Numbers({"tools"}, {"status", "version"}),
    TrustScore |->
        Numbers({"composite_score", "reliability_score", "security_score",
                 "documentation_score", "responsiveness_score", "confidence"},
                {"server_id", "window"}),
    PaymentIntent   |-> Numbers({"amount"}, {"id", "status"}),
    BalanceResponse |-> Numbers({"balance"}, {}),
    UsageSummaryResponse   |-> Numbers({"total_cost", "total_calls", "total_tokens"}, {}),
    PaymentHistoryResponse |-> Fields({"history"}),
    EscrowResponse  |-> Numbers({"amount"}, {"id", "status"}),
    RefundResponse  |-> Numbers({"amount"}, {"id", "settlement_id", "status"}),
    SubscriptionResponse |->
        Numbers({"amount", "next_charge_at"}, {"id", "status", "interval"}),
    SubscriptionDetailResponse |->
        Numbers({"amount", "next_charge_at", "charge_count", "created_at"},
                {"id", "payer", "payee", "interval", "status"}),
    SubscriptionListResponse |-> Fields({"subscriptions"})]

ProductTypes == [
    ServiceRegistrationResponse |-> Fields({"id", "name", "status"}),
    ServiceDetailResponse |-> Fields({"id", "name", "description", "category", "status"}),
    ServiceRatingResponse |-> Numbers({"rating"}, {"service_id", "agent_id"}),
    ServerSearchResponse  |-> Fields({"servers"}),
    AgentIdentityResponse |-> Numbers({"created_at"}, {"agent_id", "public_key", "found"}),
    VerifyAgentResponse   |-> Fields({"valid"}),
    MetricsSubmissionResponse |->
        Numbers({"verified_at", "valid_until"},
                {"agent_id", "commitment_hashes", "data_source", "signature"}),
    VerifiedClaimsResponse |-> Fields({"claims"}),
    WebhookResponse |->
        Numbers({"created_at"},
                {"id", "agent_id", "url", "event_types", "filter_agent_ids", "active"}),
    WebhookListResponse   |-> Fields({"webhooks"}),
    WebhookDeleteResponse |-> Fields({"deleted"}),
    ApiKeyResponse        |-> Numbers({"created_at"}, {"key", "agent_id", "tier"}),
    KeyRotationResponse   |-> Fields({"new_key", "tier", "agent_id", "revoked"}),
    EventPublishResponse  |-> Numbers({"event_id"}, {}),
    EventListResponse     |-> Fields({"events"}),
    OrgResponse           |-> Numbers({"created_at"}, {"org_id", "name"}),
    OrgDetailResponse     |-> Numbers({"created_at"}, {"org_id", "name", "members"}),
    OrgMemberResponse     |-> Fields({"agent_id", "org_id"}),
    NegotiationResponse |->
        Numbers({"proposed_amount"}, {"negotiation_id", "thread_id", "status"}),
    MessageListResponse   |-> Fields({"messages"})]

Types == PaymentTypes @@ ProductTypes

TypeScriptCore == [
    health      |-> Asks("GET /v1/health", Types.HealthResponse),
    pricing     |-> Asks("GET /v1/pricing", Untyped),
    pricingTool |-> Asks("GET /v1/pricing/{}", Untyped),
    execute     |-> Sends("POST /v1/execute", {"tool", "params"}, {}, Types.ExecuteResponse),
    checkout    |->
        Sends("POST /v1/checkout", {}, {"package", "credits", "success_url", "cancel_url"},
              Fields({"result"})),
    getBalance  |-> Asks("GET /v1/billing/wallets/{}/balance", Types.BalanceResponse),
    deposit     |->
        Sends("POST /v1/billing/wallets/{}/deposit", {"amount", "description"}, {},
              Fields({"new_balance"})),
    getUsageSummary |->
        Sends("GET /v1/billing/wallets/{}/usage", {}, {"since"}, Types.UsageSummaryResponse),
    createPaymentIntent |-> SendsKey("header",
        Sends("POST /v1/payments/intents", {"payer", "payee", "amount", "description"}, {},
              Types.PaymentIntent)),
    capturePayment |-> Asks("POST /v1/payments/intents/{}/capture", Types.PaymentIntent),
    createEscrow   |->
        Sends("POST /v1/payments/escrows", {"payer", "payee", "amount", "description"},
              {"timeout_hours"}, Types.EscrowResponse),
    releaseEscrow  |-> Asks("POST /v1/payments/escrows/{}/release", Types.EscrowResponse)]

TypeScriptSearch == [
    searchServices |->
        Sends("GET /v1/marketplace/services", {"limit"}, {"query", "category", "tags", "max_cost"},
              Fields({"services"})),
    bestMatch |->
        Sends("GET /v1/marketplace/match", {"query", "prefer", "limit"},
              {"budget", "min_trust_score"}, Fields({"matches"})),
    getTrustScore |->
        Sends("GET /v1/trust/servers/{}/score", {"window"}, {"recompute"}, Types.TrustScore),
    getPaymentHistory |->
        Sends("GET /v1/payments/history", {"agent_id", "limit", "offset"}, {},
              Types.PaymentHistoryResponse),
    registerAgent |->
        Sends("POST /v1/identity/agents", {"agent_id", "display_name", "capabilities"}, {},
              Untyped),
    sendMessage |->
        Sends("POST /v1/messaging/messages", {"sender", "recipient", "body", "message_type"}, {},
              Untyped)]

TypeScriptPayments == [
    cancelEscrow |-> Asks("POST /v1/payments/escrows/{}/cancel", Types.EscrowResponse),
    refundSettlement |->
        Sends("POST /v1/payments/settlements/{}/refund", {}, {"amount", "reason"},
              Types.RefundResponse),
    refundIntent |-> Asks("POST /v1/payments/intents/{}/refund", Types.PaymentIntent),
    createSubscription |->
        Sends("POST /v1/payments/subscriptions", {"payer", "payee", "amount", "interval"},
              {"description"}, Types.SubscriptionResponse),
    cancelSubscription |->
        Sends("POST /v1/payments/subscriptions/{}/cancel", {}, {"cancelled_by"},
              Fields({"id", "status"})),
    getSubscription |->
        Asks("GET /v1/payments/subscriptions/{}", Types.SubscriptionDetailResponse),
    listSubscriptions |->
        Sends("GET /v1/payments/subscriptions", {}, {"agent_id", "status", "limit", "offset"},
              Types.SubscriptionListResponse),
    registerService |->
        Sends("POST /v1/marketplace/services", {"provider_id", "name", "description", "category"},
              {"tools", "tags", "endpoint", "pricing"}, Types.ServiceRegistrationResponse),
    getService |-> Asks("GET /v1/marketplace/services/{}", Types.ServiceDetailResponse),
    rateService |->
        Sends("POST /v1/marketplace/services/{}/ratings", {"agent_id", "rating"}, {"review"},
              Types.ServiceRatingResponse)]

TypeScriptIdentity == [
    searchServers |->
        Sends("GET /v1/trust/servers", {}, {"name_contains", "min_score", "limit"},
              Types.ServerSearchResponse),
    getAgentIdentity |-> Asks("GET /v1/identity/agents/{}", Types.AgentIdentityResponse),
    verifyAgent |->
        Sends("POST /v1/identity/agents/{}/verify", {"message", "signature"}, {},
              Types.VerifyAgentResponse),
    submitMetrics |->
        Sends("POST /v1/identity/agents/{}/metrics", {"metrics"}, {"data_source"},
              Types.MetricsSubmissionResponse),
    getVerifiedClaims |->
        Asks("GET /v1/identity/agents/{}/claims", Types.VerifiedClaimsResponse),
    registerWebhook |->
        Sends("POST /v1/infra/webhooks", {"url", "event_types"}, {"secret", "filter_agent_ids"},
              Types.WebhookResponse),
    listWebhooks  |-> Asks("GET /v1/infra/webhooks", Types.WebhookListResponse),
    deleteWebhook |-> Asks("DELETE /v1/infra/webhooks/{}", Types.WebhookDeleteResponse)]

TypeScriptInfra == [
    createApiKey |-> Sends("POST /v1/infra/keys", {}, {"tier"}, Types.ApiKeyResponse),
    rotateKey    |->
        Sends("POST /v1/infra/keys/rotate", {"current_key"}, {}, Types.KeyRotationResponse),
    publishEvent |->
        Sends("POST /v1/infra/events", {"event_type", "source", "payload"}, {},
              Types.EventPublishResponse),
    getEvents    |->
        Sends("GET /v1/infra/events", {}, {"event_type", "since_id", "limit"},
              Types.EventListResponse),
    createOrg    |-> Sends("POST /v1/identity/orgs", {"org_name"}, {}, Types.OrgResponse),
    getOrg       |-> Asks("GET /v1/identity/orgs/{}", Types.OrgDetailResponse),
    addAgentToOrg |->
        Sends("POST /v1/identity/orgs/{}/members", {"agent_id"}, {}, Types.OrgMemberResponse),
    negotiatePrice |->
        Sends("POST /v1/messaging/negotiations", {"initiator", "responder", "amount"},
              {"service_id", "expires_hours"}, Types.NegotiationResponse),
    getMessages |->
        Sends("GET /v1/messaging/messages", {"agent_id"}, {"thread_id", "limit"},
              Types.MessageListResponse)]

TypeScriptMethods == TypeScriptCore @@ TypeScriptSearch @@ TypeScriptPayments
                     @@ TypeScriptIdentity @@ TypeScriptInfra
=============================================================================
