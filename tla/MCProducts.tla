----------------------------- MODULE MCProducts -----------------------------
(* Three requests to one product at a time, and one fault. *)
EXTENDS Products, TLC

CONSTANTS r1, r2, r3, o1, o2, a1, a2, pk, s1, huge, m1, m2, m3, sk, jk, nk, t1, t2, v1, v2, v3, h1, h2, x1, x2, x3, l1, l2, l3

Three(x, y, z) == (r1 :> x) @@ (r2 :> y) @@ (r3 :> z)
Call(op) == [op |-> op, background |-> FALSE]
Register(a) == Call("register") @@ [account |-> a]
NewKey(a) == Call("createKey") @@ [account |-> a]
Rotate(k, a) == Call("rotate") @@ [target |-> k, account |-> a]
Revoke(k, a) == Call("revokeKey") @@ [target |-> k, account |-> a]
Bind(a) == Call("bindKey") @@ [account |-> a, public |-> pk]
Idling == Call("idle")
Org(op, org, agent, role) == Call(op) @@ [org |-> org, agent |-> agent, role |-> role]
Add(agent, role) == Org("addMember", o1, agent, role)
Leave(agent) == Org("removeMember", o1, agent, "member")
Found(agent) == Org("createOrg", o2, agent, "owner")
Joining(agent, role) == Org("addMember", o2, agent, role)
Paid(s) == Call("webhook") @@ [session |-> s]
Pass == Call("pass")
Scheduler == [Pass EXCEPT !.background = TRUE]
Sub(op, s, key) == Call(op) @@ [sub |-> s, subKey |-> key]
Submit(agent, key) == Call("submit") @@ [agent |-> agent, jobKey |-> key]
CancelOf(j) == Call("cancelJob") @@ [target |-> j]
Publish(type) == Call("publish") @@ [type |-> type]
Offer(s) == Call("offer") @@ [service |-> s]
Deactivate(s) == Call("deactivate") @@ [service |-> s]
Deliver(ks) == Call("deliver") @@ [concerns |-> ks]
Unhook(k) == Call("unhook") @@ [hook |-> k]

Back(call, r) == call @@ [after |-> r]
Ingest(nonce) == Call("ingest") @@ [nonce |-> nonce]
Lifecycle == [Call("lifecycle") EXCEPT !.background = TRUE]
CleanUp == [Call("cleanNonces") EXCEPT !.background = TRUE]
To(payee, share) == [payee |-> payee, share |-> share]
Split(key, splits) == Call("split") @@ [splitKey |-> key, splits |-> splits]
Halves == <<To(a1, 5000), To(a2, 5000)>>
Thirds == <<To(a1, 3333), To(a2, 3333), To(a2, 3333)>>
Answer(op, agent, price) == Call(op) @@ [talk |-> t1, agent |-> agent, price |-> price]
Score(again) == Call("score") @@ [recompute |-> again]
Attest(agent, metrics) == Call("attest") @@ [agent |-> agent, metrics |-> metrics]
Gain(value) == [name |-> "gain", value |-> value]
Latency(value) == [name |-> "latency", value |-> value]
Ask(op, agent) == Call(op) @@ [agent |-> agent]
Search(metric, least) == Call("searchClaims") @@ [metric |-> metric, least |-> least]
About(op, q) == Call(op) @@ [target |-> q]
Listing(op, l) == Call(op) @@ [listing |-> l]
List(cost, tags) == Listing("list", l3) @@ [cost |-> cost, place |-> 1, tags |-> tags]
Amend(l, place, tags) == Listing("amend", l) @@ [place |-> place, tags |-> tags]
Rate(l, a, stars) == Listing("rate", l) @@ [rater |-> a, stars |-> stars]
Rescoring(l, score) == Listing("rescore", l) @@ [trust |-> score]
Broker(budget, least) == Call("broker") @@ [budget |-> budget, least |-> least]
Emit == Call("emit")
Purge == [Call("purge") EXCEPT !.background = TRUE]
Stream(since) == [op |-> "stream", background |-> TRUE, since |-> since]
Listen(since, patterns, subscribes) ==
    [op |-> "listen", background |-> TRUE, since |-> since, patterns |-> patterns,
     subscribes |-> subscribes]
\* The attempts of one call, of a client with two retries, or with one.
Try(call, sdk, n, retries) == call @@ [try |-> n, sdk |-> sdk, retries |-> retries]
Attempts(call, sdk) == Three(Try(call, sdk, 1, 2), Try(call, sdk, 2, 2), Try(call, sdk, 3, 2))
TwoAttempts(call, sdk) == Three(Try(call, sdk, 1, 1), Try(call, sdk, 2, 1), Idling)

MCRequests == {r1, r2, r3}
\* v2 and v3 have one name.
MCNameOf == (v1 :> 1) @@ (v2 :> 2) @@ (v3 :> 2)

\* l1 is trusted more than l2, and l2 is free.
MCFirstListings ==
    (l1 :> [active |-> TRUE, place |-> 1, cost |-> 2]) @@
    (l2 :> [active |-> TRUE, place |-> 1, cost |-> 0]) @@ (l3 :> NoListing)
MCFirstTags == (l1 :> {1}) @@ (l2 :> {2}) @@ (l3 :> {})
MCFirstTrust == (l1 :> 2) @@ (l2 :> 1) @@ (l3 :> -1)

MCFirstSubmissions == <<x1, x2, x3>>
MCFirstMetric == Gain(2)
\* The trees of up to seven leaves.
ASSUME TreesProve == \A n \in 0..7 : ProvesInclusion([i \in 1..n |-> i])

\* Amounts of up to 15 units, in halves, among up to three, in sixteenths with a
\* tolerance of one: amounts of 15 units and more it could unbalance.
Cents == INSTANCE Money WITH One <- 16, Tolerance <- 1, Fine <- 2
Ratios == UNION {[1..n -> 0..17] : n \in 0..3}
ASSUME AmountsDivide == \A total \in 0..33 : \A ratios \in Ratios :
    Cents!SplitsExactly(total, ratios) /\ Cents!SplitsWhole(total, ratios)

Methods == INSTANCE SdkMethods
Routes == INSTANCE RestRoutes
MCRouteAt == Routes!AllRoutes
MCToolNamed == Routes!Tools
MCPythonSdk == Methods!PythonMethods
MCTypeScriptSdk == Methods!TypeScriptMethods
MCTextFields == Routes!Texts

\* Every route runs a tool, and every method has a route.
ASSUME RoutesServed ==
    /\ \A u \in DOMAIN RouteAt : RouteAt[u].open # "gone" => RouteAt[u].tool \in DOMAIN ToolNamed
    /\ \A m \in DOMAIN PythonSdk : PythonSdk[m].url \in DOMAIN RouteAt
    /\ \A m \in DOMAIN TypeScriptSdk : TypeScriptSdk[m].url \in DOMAIN RouteAt

\* Every method of the SDKs, with all it can send, and with what it always sends
\* where the route tells them apart.
Fits(method, full) == FitsInput(ArgumentsOf(method, full), RouteAt[method.url].input)
Method(m, full, key) == Call("sdk") @@ [method |-> m, full |-> full, key |-> key]
\* A call with a key is tried three times, any other twice.
CallOf(sdk, call) == IF call.key THEN Attempts(call, sdk) ELSE TwoAttempts(call, sdk)
CallsOf(sdk, methods) ==
    UNION {{CallOf(sdk, Method(m, full, key)) :
               full \in IF Fits(methods[m], FALSE) = Fits(methods[m], TRUE) THEN {TRUE} ELSE BOOLEAN,
               key \in IF methods[m].key = "none" THEN {FALSE} ELSE BOOLEAN} : m \in DOMAIN methods}
\* Two calls with one key, of each route where the key goes anywhere, and of
\* those whose tool keeps it.
Direct(u) == Call("rest") @@ [url |-> u, key |-> TRUE]
KeyedCalls == {Three(Direct(u), Direct(u), Idling) :
                   u \in {v \in DOMAIN RouteAt : RouteAt[v].key # "none" \/ RouteAt[v].tool \in KeyKept}}
MCSdkWorkloads ==
    CallsOf("python", PythonSdk) \cup CallsOf("typescript", TypeScriptSdk) \cup KeyedCalls

MCProductWorkloads ==
    { Three(Register(a2), Register(a2), Bind(a2)),
      Three(Register(a2), Rotate(r1, a2), Bind(a2)),
      Three(Rotate(FirstKey, a1), Rotate(FirstKey, a1), NewKey(a1)),
      Three(Rotate(FirstKey, a1), NewKey(a2), Bind(a2)),
      Three(Rotate(FirstKey, a1), Rotate(r1, a1), Revoke(r1, a1)),
      Three(Revoke(FirstKey, a1), NewKey(a1), Rotate(FirstKey, a1)),
      Three(Leave(a1), Add(a2, "owner"), Leave(a1)),
      Three(Leave(a1), Add(a2, "owner"), Leave(a2)),
      Three(Leave(a1), Add(a2, "member"), Leave(a2)),
      Three(Found(a2), Add(a2, "member"), Leave(a2)),
      Three(Found(a2), Joining(a1, "member"), Org("removeMember", o2, a2, "member")),
      Three(Found(NoAgent), Joining(a2, "owner"), Org("removeMember", o2, a2, "member")),
      Three(Paid(s1), Paid(s1), Paid(s1)),
      Three(Paid(s1), Paid(huge), Paid(s1)),
      Three(Scheduler, Pass, Sub("cancelSub", m1, NoSubKey)),
      Three(Scheduler, Scheduler, Sub("reactivate", m1, NoSubKey)),
      Three(Scheduler, Sub("cancelSub", m1, NoSubKey), Sub("reactivate", m1, sk)),
      Three(Sub("subscribe", m2, sk), Sub("subscribe", m3, sk), Scheduler),
      Three(Sub("subscribe", m2, NoSubKey), Scheduler, Idling),
      Three(Submit(a1, jk), Submit(a1, jk), CancelOf(r1)),
      Three(Submit(a1, jk), Submit(a2, jk), CancelOf(r1)),
      Three(Submit(a1, NoJobKey), CancelOf(r1), CancelOf(r1)),
      Three(Publish("low"), Publish("drop"), Offer(v2)),
      Three(Publish("low"), Offer(v2), Offer(v3)),
      Three(Publish("other"), Deactivate(v1), Publish("low")),
      Three(Deliver({h1, h2}), Call("retry"), Unhook(h1)),
      Three(Deliver({h1}), Call("retry"), Call("retry")),
      Three(Lifecycle, Back(Lifecycle, r1), Back(Lifecycle, r2)),
      Three(Lifecycle, Ingest(NoMetricKey), Back(Lifecycle, r1)),
      Three(Ingest(nk), Ingest(nk), CleanUp),
      Attempts(Split(NoSplitKey, Halves), "python"),
      Attempts(Split(NoSplitKey, Halves), "typescript"),
      Attempts(Split(pk, Halves), "python"),
      Attempts(Split(pk, Thirds), "typescript"),
      Three(Split(pk, <<To(a1, 10000), To(a2, 0)>>), Split(pk, Thirds), Split(NoSplitKey, Halves)),
      Three(Split(pk, <<To(a1, 4000), To(NoAgent, 6000)>>), Split(pk, Halves),
            Split(NoSplitKey, <<To(a1, 4000), To(a2, 4000)>>)),
      Three(Answer("counter", a1, 2), Answer("accept", a2, 1), Answer("reject", a1, 1)),
      Three(Answer("counter", a1, 2), Answer("accept", a2, 1), Answer("accept", a1, 1)),
      Three([Answer("negotiate", a1, 3) EXCEPT !.talk = t2], Answer("counter", a2, 3),
            [Answer("accept", NoAgent, 3) EXCEPT !.talk = t2]),
      Three(Score(FALSE), Call("deleteServer"), Call("registerServer")),
      Three(Call("deleteServer"), Call("registerServer"), Score(TRUE)),
      Three(Call("deleteServer"), Score(TRUE), Score(FALSE)),
      Three(Call("deleteServer"), Call("deleteServer"), Call("registerServer")),
      Three(Attest(a1, <<Gain(2), Latency(1)>>), Ask("listClaims", a1), Search("gain", 1)),
      Three(Attest(a2, <<Gain(1)>>), Attest(a2, <<Gain(3)>>), Search("gain", 1)),
      Three(Attest(a1, <<Gain(1), Latency(1)>>), About("reveal", r1), Ask("reputation", a1)),
      Three(Attest(a1, <<Gain(1)>>), About("revokeAttestation", r1), Ask("listClaims", a1)),
      Three(Ask("chains", a1), Ask("chains", a1), Idling),
      Three(Attest(a1, <<Gain(1)>>), About("revokeAttestation", x2), Ask("chains", a1)),
      Three(Broker(2, 1), Amend(l1, 2, <<1, 2>>), Listing("withdraw", l2)),
      Three(Broker(2, 1), Rescoring(l1, 0), Rate(l2, a1, 5)),
      Three(Broker(0, -1), List(0, <<1, 2>>), Listing("withdraw", l2)),
      Three(Broker(3, -1), Rate(l2, a1, 5), Rate(l2, a2, 1)),
      Three(List(1, <<1, 1>>), Amend(l1, 0, <<>>), Broker(1, -1)),
      Three(Amend(l1, 2, <<1, 2>>), Amend(l1, 3, <<2>>), Listing("getListing", l1)),
      Three(Amend(l1, 2, <<2>>), Listing("withdraw", l1), Listing("getListing", l1)),
      Three(Rate(l1, a1, 5), Rate(l1, a1, 3), Listing("readRatings", l1)),
      Three(Emit, Stream(0), Back(Stream(0), r2)),
      Three(Emit, Emit, Stream(1)),
      Three(Emit, Stream(1), Purge),
      Three(Emit, Emit, Listen(1, 1, 1)),
      Three(Emit, Emit, Listen(0, 2, 1)),
      Three(Emit, Emit, Listen(1, 1, 2)),
      Three(Emit, Listen(1, 1, 2), Back(Listen(1, 1, 1), r2)),
      Three(Emit, Listen(1, 1, 1), Purge),
      Three(Emit, Listen(1, 2, 1), Stream(1)) }
MCWorkloads == MCProductWorkloads \cup MCSdkWorkloads
============================================================================
