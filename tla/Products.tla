------------------------------ MODULE Products ------------------------------
(***************************************************************************)
(* The product modules in one gateway process: their requests interleave,  *)
(* a timeout cancels one of them, and a crash ends them all, with what     *)
(* each product keeps in memory or has not committed.  The clients are     *)
(* processes of their own.                                                 *)
(***************************************************************************)
EXTENDS Accounts, Metrics, Claims, TrustScores, GatewayFunds, Subscriptions,
        Verification, Negotiations, EventDelivery, EventStreams, Brokering,
        SdkCalls

\* An attempt to split carries the key of the call.
ASSUME SplitCalls == \A w \in Workloads : \A q, r \in Requests :
    "try" \in DOMAIN w[q] /\ "try" \in DOMAIN w[r] /\ w[q].op = "split" /\ w[r].op = "split" =>
        w[q].splitKey = w[r].splitKey

people == <<accountVars, orgVars, metricVars, claimVars, trustVars>>
money == <<topUpVars, subVars, splitVars>>
work == <<jobVars, talkVars, eventVars, streamVars, marketVars>>
vars == <<tasks, people, money, work, callVars, clientVars>>

PeopleStep(r) ==
    \/ AccountStep(r) /\ UNCHANGED <<orgVars, metricVars, claimVars, trustVars>>
    \/ OrgStep(r) /\ UNCHANGED <<accountVars, metricVars, claimVars, trustVars>>
    \/ MetricStep(r) /\ UNCHANGED <<accountVars, orgVars, claimVars, trustVars>>
    \/ ClaimStep(r) /\ UNCHANGED <<accountVars, orgVars, metricVars, trustVars>>
    \/ TrustStep(r) /\ UNCHANGED <<accountVars, orgVars, metricVars, claimVars>>

MoneyStep(r) ==
    \/ TopUpStep(r) /\ UNCHANGED <<subVars, splitVars>>
    \/ SubStep(r) /\ UNCHANGED <<topUpVars, splitVars>>
    \/ SplitStep(r) /\ UNCHANGED <<topUpVars, subVars>>

WorkStep(r) ==
    \/ VerificationStep(r) /\ UNCHANGED <<talkVars, eventVars, streamVars, marketVars>>
    \/ TalkStep(r) /\ UNCHANGED <<jobVars, eventVars, streamVars, marketVars>>
    \/ EventStep(r) /\ UNCHANGED <<jobVars, talkVars, streamVars, marketVars>>
    \/ StreamStep(r) /\ UNCHANGED <<jobVars, talkVars, eventVars, marketVars>>
    \/ MarketStep(r) /\ UNCHANGED <<jobVars, talkVars, eventVars, streamVars>>

Step(r) ==
    /\ Sent(r)
    /\ \/ PeopleStep(r) /\ UNCHANGED <<money, work, callVars>>
       \/ MoneyStep(r) /\ UNCHANGED <<people, work, callVars>>
       \/ WorkStep(r) /\ UNCHANGED <<people, money, callVars>>
       \/ CallStep(r) /\ UNCHANGED <<people, money, work>>
    /\ UNCHANGED <<frame, clientVars>>

Send(t) == SendStep(t) /\ UNCHANGED <<frame, people, money, jobVars, talkVars, streamVars, marketVars,
                                    callVars, clientVars>>

\* The client, which runs beside the gateway.
Calling(r) == /\ \/ ClientStep(r) /\ UNCHANGED callVars
                 \/ Parse(r)
              /\ UNCHANGED <<frame, people, money, work>>

Tick ==
    /\ \/ SubTick /\ UNCHANGED <<people, topUpVars, splitVars>>
       \/ MetricTick /\ UNCHANGED <<accountVars, orgVars, claimVars, trustVars, money>>
       \/ ClaimTick /\ UNCHANGED <<accountVars, orgVars, metricVars, trustVars, money>>
       \/ (\E k \in grace : GraceOver(k)) /\ UNCHANGED <<orgVars, metricVars, claimVars, trustVars, money>>
    /\ UNCHANGED <<tasks, work, callVars, clientVars>>

Cancelled(r) == /\ TimeOut(r) /\ EventTimeOut(r)
                /\ UNCHANGED <<people, money, jobVars, talkVars, streamVars, marketVars, callVars,
                               clientVars>>

Died == /\ Crashed /\ AccountCrash /\ OrgCrash /\ MetricCrash /\ TrustCrash /\ TopUpCrash
        /\ EventCrash /\ StreamCrash /\ MarketCrash
        /\ UNCHANGED <<claimVars, subVars, splitVars, jobVars, talkVars, callVars, clientVars>>

AllDone == /\ \A r \in Requests : pc[r] \in Terminal \/ ~Sent(r)
           /\ client # "waiting"
           /\ \A t \in Tasks : sending[t].at = "idle"
Terminating == AllDone /\ UNCHANGED vars

Init == /\ TaskInit /\ AccountInit /\ OrgInit /\ MetricInit /\ ClaimInit /\ TrustInit /\ TopUpInit
        /\ SubInit /\ SplitInit /\ VerificationInit /\ TalkInit /\ EventInit /\ StreamInit
        /\ MarketInit /\ CallInit /\ ClientInit

Next == \/ \E r \in Requests : Step(r) \/ Cancelled(r) \/ Calling(r)
        \/ \E t \in Tasks : Send(t)
        \/ Tick \/ Died \/ Terminating

Spec == Init /\ [][Next]_vars

-----------------------------------------------------------------------------
\* Who has an account can use it, and an organisation can be administrated.
AccessKept == AccountsUsable /\ AlwaysOwned

\* A call is carried out once, or by an attempt that the client gave up, or
\* heard no end of, and before one that had no key or no marker to find.
RetriesAccounted ==
    \A p, q \in taken : IsAttempt(p) /\ IsAttempt(q) /\ job[p].try < job[q].try =>
        /\ p \in givenUp \/ pc[p] = "504"
        /\ ~Keyed(p) \/ {p, q} \subseteq raced \/ pc[p] # "done" \/ pc[q] # "done"

\* The client hears of a success that the gateway had, and gives up for a
\* refusal or for want of attempts; but the Python client also for the first
\* attempt that has no answer, and for a connection that breaks.
ClientToldRight ==
    /\ client = "returned" => \E r \in Requests : IsAttempt(r) /\ pc[r] = "done"
    /\ client = "raised" => \E r \in Requests :
          /\ IsAttempt(r) /\ job[r].try = attempt
          /\ \/ LastTry(r) \/ pc[r] = "rejected"
             \/ Python(r) /\ r \in givenUp /\ (~heard \/ pc[r] = "lost")

\* A split is paid as it says, and once, however often the client asks.
SplitsAccounted == SplitsPaid /\ SplitOnce /\ RetriesAccounted /\ ClientToldRight

\* Money that comes in is credited, and money that is divided arrives.
FundsArrive == CreditedOnce /\ SplitsAccounted

\* Work that is asked for is done and charged, an agreement on it holds, and what
\* follows an event is carried out; a score that is computed has a server.
WorkAccounted == JobsAccounted /\ AgreementsHold /\ ReactionsCarriedOut /\ ScoresHaveServers

\* What is measured of an agent is kept in one summary; and what is claimed of it
\* with what the claim rests on.
MeasuresKept == MetricsAccounted /\ ClaimsHold

\* Whoever listens for an event hears of it, who looks for somebody finds what is
\* offered, and a call of an SDK is taken, carried out and understood.
AnswersHeard == StreamsHeard /\ MarketHolds /\ CallsAnswered
============================================================================
